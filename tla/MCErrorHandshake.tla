------------------------- MODULE MCErrorHandshake --------------------------
(* Instances of ErrorHandshake for TLC; the .cfg files give the constants.  *)
EXTENDS ErrorHandshake

NoPlugins == {}
=============================================================================
