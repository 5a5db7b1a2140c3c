--------------------------- MODULE MCScriptText ----------------------------
(* Instances of ScriptText for TLC; the .cfg file gives the constants.      *)
EXTENDS ScriptText

AllDocuments == Documents
=============================================================================
