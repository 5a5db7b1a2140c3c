-------------------------- MODULE MCHaltProtocol ---------------------------
(* Instances of HaltProtocol for TLC; the .cfg files give the constants.    *)
EXTENDS HaltProtocol

AllRequests == RequestKinds
=============================================================================
