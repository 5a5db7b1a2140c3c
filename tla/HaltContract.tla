---------------------------- MODULE HaltContract ----------------------------
(***************************************************************************)
(* What the debugger promises about halting the game, whatever its clients *)
(* do: a halted script thread stays halted until somebody who is handling  *)
(* a continue or step command releases it, and once released it runs on.   *)
(* A release is never carried over to the next halt.  HaltProtocol is      *)
(* shown to implement this module.                                         *)
(***************************************************************************)

VARIABLES
  mode,      \* "running" or "halted": is a BPAction_Halt on the script thread
  released,  \* has the current halt been told to end
  serving,   \* a thread is inside a command that may release or may fault
  dead       \* the process has died of an access violation

vars == <<mode, released, serving, dead>>

TypeOK ==
  /\ mode \in {"running", "halted"}
  /\ released \in BOOLEAN
  /\ serving \in BOOLEAN
  /\ dead \in BOOLEAN

Init ==
  /\ mode = "running"
  /\ released = FALSE
  /\ serving = FALSE
  /\ dead = FALSE

\* A breakpoint, step target, pause request, script error or halt command.
Halt ==
  /\ ~dead /\ mode = "running"
  /\ mode' = "halted" /\ released' = FALSE
  /\ UNCHANGED <<serving, dead>>

\* A command starts or ends; it may do nothing to the halt at all.
Serve ==
  /\ ~dead
  /\ serving' = ~serving
  /\ UNCHANGED <<mode, released, dead>>

\* The command tells the halt to end.
Release ==
  /\ ~dead /\ serving /\ mode = "halted"
  /\ released' = TRUE
  /\ UNCHANGED <<mode, serving, dead>>

\* The script thread leaves the halt.
Resume ==
  /\ ~dead /\ mode = "halted" /\ released
  /\ mode' = "running" /\ released' = FALSE
  /\ UNCHANGED <<serving, dead>>

\* The command follows a pointer the script thread has reset.
Fault ==
  /\ ~dead /\ serving
  /\ dead' = TRUE
  /\ UNCHANGED <<mode, released, serving>>

Next == Halt \/ Serve \/ Release \/ Resume \/ Fault

Spec == Init /\ [][Next]_vars /\ WF_vars(Resume)
=============================================================================
