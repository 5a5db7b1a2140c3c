--------------------------- MODULE MCBreakpoints ----------------------------
(* Instances of Breakpoints for TLC; the .cfg files give the constants.     *)
EXTENDS Breakpoints
=============================================================================
