---------------------------- MODULE ErrorContract ----------------------------
(***************************************************************************)
(* What the error handshake promises, seen from outside: requests are      *)
(* served in rounds.  The first thread to ask opens a round; whoever asks  *)
(* while it is open joins it, even after the verdict.  Each round gets one *)
(* verdict, while somebody waits for it, which may hold the game; it is    *)
(* closed only after that and after the hold, and nobody who waits leaves  *)
(* before.  ErrorHandshake is shown to implement this module with one      *)
(* flag, a poll, a filter, and halts that nest.                            *)
(***************************************************************************)
CONSTANT Askers   \* the threads that may ask

VARIABLES
  waiting,   \* the threads that have asked and not left
  open,      \* a round is open
  judged,    \* it has had its verdict
  held       \* the verdict holds the game

vars == <<waiting, open, judged, held>>

Init ==
  /\ waiting = {}
  /\ open = FALSE /\ judged = FALSE /\ held = FALSE

Ask(t) ==
  /\ t \notin waiting
  /\ waiting' = waiting \cup {t}
  /\ open' = TRUE
  /\ UNCHANGED <<judged, held>>

\* Halt on the error, or pass it by.
Judge ==
  /\ open /\ waiting # {} /\ ~judged
  /\ judged' = TRUE /\ held' \in BOOLEAN
  /\ UNCHANGED <<waiting, open>>

Continue ==
  /\ held
  /\ held' = FALSE
  /\ UNCHANGED <<waiting, open, judged>>

Close ==
  /\ open /\ judged /\ ~held
  /\ open' = FALSE /\ judged' = FALSE
  /\ UNCHANGED <<waiting, held>>

Leave(t) ==
  /\ t \in waiting /\ ~open
  /\ waiting' = waiting \ {t}
  /\ UNCHANGED <<open, judged, held>>

Next ==
  \/ \E t \in Askers : Ask(t) \/ Leave(t)
  \/ Judge \/ Continue \/ Close

Spec == Init /\ [][Next]_vars
=============================================================================
