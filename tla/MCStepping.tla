---------------------------- MODULE MCStepping -----------------------------
(* Instances of Stepping for TLC; the .cfg files give the constants.        *)
EXTENDS Stepping

\* One script with scopes and calls, and others that only pass by.
Depths == [c \in Contexts |-> IF c = "c" THEN 3 ELSE 1]
=============================================================================
