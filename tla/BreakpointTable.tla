--------------------------- MODULE BreakpointTable ---------------------------
(***************************************************************************)
(* What the breakpoint registry promises, seen from outside: a table with  *)
(* at most one breakpoint at each place, which a command changes at once.  *)
(* Every statement is looked up exactly once, at one moment after it has   *)
(* started; what was there then triggers once, and may halt the game,      *)
(* before the next statement.  Breakpoints is shown to implement this      *)
(* module with lists, copies, a lock, and a test without the lock.         *)
(***************************************************************************)
CONSTANTS
  Files, Lines,   \* a place is a line of a file
  New             \* breakpoints that can be set

VARIABLES
  at,       \* at[p]: the breakpoint at place p, in a set; {} if there is none
  asking,   \* the places that are still to be looked up, one at most
  found,    \* the breakpoint that still has to trigger
  halted    \* it holds the game

vars == <<at, asking, found, halted>>

Places == Files \X Lines

Init ==
  /\ at = [p \in Places |-> {}]
  /\ asking = {} /\ found = {} /\ halted = FALSE

\* Commands.
Set(p, bp) ==
  /\ at' = [at EXCEPT ![p] = {bp}]
  /\ UNCHANGED <<asking, found, halted>>

Delete(p) ==
  /\ at' = [at EXCEPT ![p] = {}]
  /\ UNCHANGED <<asking, found, halted>>

ClearFile(f) ==
  /\ at' = [p \in Places |-> IF p[1] = f THEN {} ELSE at[p]]
  /\ UNCHANGED <<asking, found, halted>>

ClearAll ==
  /\ at' = [p \in Places |-> {}]
  /\ UNCHANGED <<asking, found, halted>>

\* The script thread.
Execute(p) ==
  /\ asking = {} /\ found = {} /\ ~halted
  /\ asking' = {p}
  /\ UNCHANGED <<at, found, halted>>

LookUp(p) ==
  /\ p \in asking
  /\ asking' = {} /\ found' = at[p]
  /\ UNCHANGED <<at, halted>>

\* A condition may keep it from halting.
Trigger ==
  /\ found # {} /\ ~halted
  /\ found' = {} /\ halted' \in BOOLEAN
  /\ UNCHANGED <<at, asking>>

Continue ==
  /\ halted
  /\ halted' = FALSE
  /\ UNCHANGED <<at, asking, found>>

Next ==
  \/ \E p \in Places : \/ \E bp \in New : Set(p, bp)
                       \/ Delete(p) \/ Execute(p) \/ LookUp(p)
  \/ \E f \in Files : ClearFile(f)
  \/ ClearAll \/ Trigger \/ Continue

Spec == Init /\ [][Next]_vars
=============================================================================
