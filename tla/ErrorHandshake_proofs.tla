------------------------ MODULE ErrorHandshake_proofs ------------------------
(***************************************************************************)
(* Theorems about ErrorHandshake, for any set of other plug-ins and any    *)
(* error types, with or without ExecuteCode, whatever the clients do.      *)
(*                                                                         *)
(* The invariants are proved one part at a time: types, the flag between   *)
(* requesters and handler (HandoverInv), the filter while it is rebuilt    *)
(* (FilterInv) and the event between halts (HaltInv).  Each part has one   *)
(* lemma, with one step per action.  The refinement of ErrorContract       *)
(* follows from HandoverInv.                                               *)
(***************************************************************************)
EXTENDS ErrorHandshake, TLAPS

\* No other plug-in's thread is one of the debugger's own.
LEMMA PluginsApart ==
  \A p \in Plugins : p # "script" /\ p # "net" /\ p # "handler" /\ p # "none"
BY HandshakeAssumption

\* The labels of each kind of thread.
LEMMA LabelsOf ==
  /\ Labels("script") = {"run", "spin", "halted"}
  /\ Labels("net") = {"idle", "filter", "exec", "spin", "halted", "after"}
  /\ Labels("handler") = {"poll", "connected", "judge", "halted", "reset"}
  /\ \A p \in Plugins : Labels(p) = {"run", "spin"}
BY PluginsApart DEF Labels

PcTyped == /\ pc \in [Threads -> UNION {Labels(t) : t \in Threads}]
           /\ \A t \in Threads : pc[t] \in Labels(t)

\* A thread that goes to one of its labels keeps the counters typed.
LEMMA GotoTyped ==
  ASSUME PcTyped, NEW t \in Threads, NEW label \in Labels(t), Goto(t, label)
  PROVE  PcTyped'
<1>1. label \in UNION {Labels(u) : u \in Threads}
  OBVIOUS
<1>2. Threads' = Threads /\ \A u : Labels(u)' = Labels(u)
  BY DEF Threads, Requesters, Labels
<1>. QED  BY <1>1 DEF PcTyped, Goto, Labels, Threads, Requesters

\* Which threads evaluate, ask and halt.
LEMMA WhoIsWho ==
  /\ Requesters \subseteq Threads
  /\ \A t \in Requesters : "spin" \in Labels(t) /\ t # "handler" /\ t # "none"
  /\ "script" \in Requesters /\ "net" \in Requesters
  /\ "handler" \in Threads /\ "net" \in Threads
  /\ \A t \in Threads : t = "handler" \/ t \in Requesters
BY PluginsApart, LabelsOf DEF Requesters, Threads

\* Where a halted thread goes on is one of its labels, and not its spin loop.
LEMMA AfterHaltTyped ==
  ASSUME PcTyped, NEW t \in Threads, At(t, "halted")
  PROVE  /\ AfterHalt(t) \in Labels(t) /\ AfterHalt(t) # "spin"
         /\ AfterHalt(t) # "halted" /\ AfterHalt(t) # "filter"
         /\ t = "handler" => AfterHalt(t) = "reset"
<1>1. t \notin Plugins
  BY LabelsOf DEF PcTyped, At
<1>. QED  BY <1>1, LabelsOf DEF AfterHalt, Threads, Requesters

-----------------------------------------------------------------------------
(***************************************************************************)
(* Types.                                                                  *)
(***************************************************************************)
OthersTyped ==
  /\ flag \in BOOLEAN /\ unjudged \subseteq Requesters
  /\ errorType \in Bits
  /\ filter \subseteq Bits /\ todo \subseteq Bits /\ asked \subseteq Bits
  /\ cut \in BOOLEAN
  /\ event \in Threads \cup {"none"} /\ released \subseteq Threads
  /\ nested \subseteq Threads
  /\ state \in States
  /\ clientConnected \in BOOLEAN

\* The type invariant in its two parts.
LEMMA TypeParts == TypeOK <=> PcTyped /\ OthersTyped
BY DEF TypeOK, PcTyped, OthersTyped

\* The initial state is typed.
LEMMA TypeInit == Init => TypeOK
<1>. SUFFICES ASSUME Init PROVE TypeOK
  OBVIOUS
<1>1. \A t \in Threads : pc[t] \in Labels(t)
  BY PluginsApart, LabelsOf DEF Init, Threads, Requesters
<1>2. pc \in [Threads -> UNION {Labels(t) : t \in Threads}]
  BY <1>1 DEF Init
<1>3. OthersTyped
  BY DEF Init, OthersTyped, States, Bits
<1>. QED  BY <1>1, <1>2, <1>3, TypeParts DEF PcTyped

\* A halt keeps the types of what it changes.
LEMMA HaltTyped ==
  ASSUME TypeOK, NEW t \in Threads, Halt(t), "halted" \in Labels(t)
  PROVE  /\ PcTyped'
         /\ event' \in Threads \cup {"none"} /\ released' \subseteq Threads
         /\ nested' \subseteq Threads /\ state' \in States
<1>1. PcTyped'
  BY GotoTyped, TypeParts DEF Halt
<1>2. Halted \subseteq Threads
  BY DEF Halted
<1>. QED  BY <1>1, <1>2, TypeParts DEF Halt, OthersTyped, States

\* A continue keeps the types of what it changes.
LEMMA ContinueTyped ==
  ASSUME OthersTyped, NEW step \in BOOLEAN, CommandContinue(step)
  PROVE  /\ event' \in Threads \cup {"none"} /\ released' \subseteq Threads
         /\ nested' \subseteq Threads /\ state' \in States
BY DEF CommandContinue, OthersTyped, HaltVars, States

\* Every step keeps the types.
LEMMA TypeStep == TypeOK /\ [Next]_vars => TypeOK'
<1>. SUFFICES ASSUME TypeOK, [Next]_vars PROVE TypeOK'
  OBVIOUS
<1>0. PcTyped /\ OthersTyped
  BY TypeParts
<1>. USE <1>0
<1>. SUFFICES PcTyped' /\ OthersTyped'
  BY DEF TypeOK, PcTyped, OthersTyped
<1>k. Threads' = Threads /\ Requesters' = Requesters
  BY DEF Threads, Requesters
<1>1. ASSUME NEW t \in Requesters, NEW e \in Bits, OnScriptError(t, e)
      PROVE  PcTyped' /\ OthersTyped'
  <2>1. PcTyped'
    BY <1>1, GotoTyped, WhoIsWho DEF OnScriptError, Raise, PcTyped, Threads,
        Requesters, Labels
  <2>. QED  BY <1>1, <2>1, <1>k DEF OnScriptError, Raise, OthersTyped,
      Handshake, FilterVars, HaltVars, Bits
<1>2. ASSUME NEW t \in Requesters, DumpStack(t)
      PROVE  PcTyped' /\ OthersTyped'
  <2>1. PcTyped'
    BY <1>2, GotoTyped, WhoIsWho DEF DumpStack, Raise
  <2>. QED  BY <1>2, <2>1, <1>k DEF DumpStack, Raise, OthersTyped, FilterVars,
      HaltVars, Bits
<1>3. ASSUME NEW t \in Requesters, HaltHere(t)
      PROVE  PcTyped' /\ OthersTyped'
  <2>1. "halted" \in Labels(t) /\ t \in Threads
    BY <1>3, LabelsOf, WhoIsWho DEF HaltHere, Evaluates
  <2>2. Halt(t)
    BY <1>3 DEF HaltHere
  <2>. QED  BY <1>3, <2>1, <2>2, <1>k, HaltTyped DEF HaltHere, OthersTyped,
      Handshake, FilterVars, Bits
<1>4. ASSUME NEW t \in Requesters, SpinEnds(t)
      PROVE  PcTyped' /\ OthersTyped'
  <2>1. /\ t # "net" => "run" \in Labels(t)
        /\ "after" \in Labels("net")
    BY LabelsOf DEF Requesters
  <2>2. PcTyped'
    BY <1>4, <2>1, GotoTyped, WhoIsWho DEF SpinEnds
  <2>. QED  BY <1>4, <2>2, <1>k DEF SpinEnds, OthersTyped, Handshake,
      FilterVars, HaltVars, Bits
<1>5. ASSUME NEW t \in Threads, Resume(t)
      PROVE  PcTyped' /\ OthersTyped'
  <2>1. PcTyped'
    BY <1>5, GotoTyped, AfterHaltTyped DEF Resume
  <2>. QED  BY <1>5, <2>1, <1>k DEF Resume, OthersTyped, Handshake,
      FilterVars, Bits
<1>6. CASE Wake
  BY <1>6, <1>k, GotoTyped, LabelsOf, WhoIsWho DEF Wake, OthersTyped,
      Handshake, FilterVars, HaltVars, Bits
<1>7. CASE TestClient
  <2>1. PcTyped'
    BY <1>7, GotoTyped, LabelsOf, WhoIsWho DEF TestClient
  <2>. QED  BY <1>7, <2>1, <1>k DEF TestClient, OthersTyped, FilterVars,
      HaltVars, Bits
<1>8. CASE JudgeError
  <2>1. "halted" \in Labels("handler") /\ "reset" \in Labels("handler")
    BY LabelsOf
  <2>2. CASE Halt("handler")
    BY <1>8, <2>1, <2>2, <1>k, HaltTyped, WhoIsWho DEF JudgeError,
        OthersTyped, FilterVars, Bits
  <2>3. CASE Goto("handler", "reset") /\ UNCHANGED HaltVars
    BY <1>8, <2>1, <2>3, <1>k, GotoTyped, WhoIsWho DEF JudgeError,
        OthersTyped, FilterVars, HaltVars, Bits
  <2>. QED  BY <1>8, <2>2, <2>3 DEF JudgeError
<1>9. CASE Reset
  <2>1. PcTyped'
    BY <1>9, GotoTyped, LabelsOf, WhoIsWho DEF Reset
  <2>. QED  BY <1>9, <2>1, <1>k DEF Reset, OthersTyped, FilterVars, HaltVars,
      Bits
<1>10. ASSUME NEW step \in BOOLEAN, NetContinue(step)
       PROVE  PcTyped' /\ OthersTyped'
  <2>1. PcTyped'
    BY <1>10 DEF NetContinue, PcTyped, Labels, Threads, Requesters
  <2>. QED  BY <1>10, <2>1, <1>k, ContinueTyped DEF NetContinue, OthersTyped,
      Handshake, FilterVars, Bits
<1>11. CASE NetPause
  <2>1. PcTyped'
    BY <1>11 DEF NetPause, PcTyped, Labels, Threads, Requesters
  <2>. QED  BY <1>11, <2>1, <1>k DEF NetPause, OthersTyped, Handshake,
      FilterVars, States, Bits
<1>12. ASSUME NEW wanted \in SUBSET Bits, NetSetFilter(wanted)
       PROVE  PcTyped' /\ OthersTyped'
  <2>1. PcTyped'
    BY <1>12, GotoTyped, LabelsOf, WhoIsWho DEF NetSetFilter
  <2>. QED  BY <1>12, <2>1, <1>k DEF NetSetFilter, OthersTyped, Handshake,
      HaltVars, Bits
<1>13. CASE NetFilterAdd
  <2>1. PcTyped'
    BY <1>13 DEF NetFilterAdd, PcTyped, Labels, Threads, Requesters
  <2>. QED  BY <1>13, <2>1, <1>k DEF NetFilterAdd, OthersTyped, Handshake,
      HaltVars, Bits
<1>14. CASE NetFilterDone
  <2>1. PcTyped'
    BY <1>14, GotoTyped, LabelsOf, WhoIsWho DEF NetFilterDone
  <2>. QED  BY <1>14, <2>1, <1>k DEF NetFilterDone, OthersTyped, Handshake,
      FilterVars, HaltVars, Bits
<1>15. CASE NetFilterAbort
  <2>1. PcTyped'
    BY <1>15, GotoTyped, LabelsOf, WhoIsWho DEF NetFilterAbort
  <2>. QED  BY <1>15, <2>1, <1>k DEF NetFilterAbort, OthersTyped, Handshake,
      HaltVars, Bits
<1>16. CASE NetExecute
  <2>1. PcTyped'
    BY <1>16, GotoTyped, LabelsOf, WhoIsWho DEF NetExecute
  <2>. QED  BY <1>16, <2>1, <1>k DEF NetExecute, OthersTyped, Handshake,
      FilterVars, HaltVars, Bits
<1>17. CASE NetFinish
  <2>1. PcTyped'
    BY <1>17, GotoTyped, LabelsOf, WhoIsWho DEF NetFinish
  <2>. QED  BY <1>17, <2>1, <1>k DEF NetFinish, OthersTyped, Handshake,
      FilterVars, HaltVars, Bits
<1>18. CASE NetOpen
  <2>1. PcTyped'
    BY <1>18 DEF NetOpen, PcTyped, Labels, Threads, Requesters
  <2>. QED  BY <1>18, <2>1, <1>k DEF NetOpen, OthersTyped, Handshake,
      FilterVars, HaltVars, Bits
<1>19. CASE NetClose
  <2>1. PcTyped'
    BY <1>19 DEF NetClose, PcTyped, Labels, Threads, Requesters
  <2>. QED  BY <1>19, <2>1, <1>k, ContinueTyped DEF NetClose, OthersTyped,
      Handshake, FilterVars, Bits
<1>20. CASE UNCHANGED vars
  BY <1>20, <1>k DEF vars, Handshake, FilterVars, HaltVars, PcTyped,
      OthersTyped, Labels, Bits
<1>. QED
  BY <1>1, <1>2, <1>3, <1>4, <1>5, <1>6, <1>7, <1>8, <1>9, <1>10, <1>11,
     <1>12, <1>13, <1>14, <1>15, <1>16, <1>17, <1>18, <1>19, <1>20
  DEF Next, Request, Handler, Net, NetFilterStep

\* Every variable keeps its type: no thread leaves the code it runs.
THEOREM TypeCorrect == Spec => []TypeOK
<1>. QED  BY TypeInit, TypeStep, PTL DEF Spec

-----------------------------------------------------------------------------
(***************************************************************************)
(* The flag.  While it is up somebody waits; it is up whenever the handler *)
(* is at work; and a request without a verdict keeps it up.                *)
(***************************************************************************)
HandoverInv ==
  /\ flag => Spinning # {}
  /\ ~At("handler", "poll") => flag
  /\ unjudged # {} => flag
  /\ pc["handler"] \in {"halted", "reset"} => unjudged = {}

\* At the start the handler polls and nobody has raised the flag.
LEMMA HandoverInit == Init => HandoverInv
BY WhoIsWho DEF Init, HandoverInv, At

\* Every step keeps it: nobody leaves the spin loop while the flag is up.
LEMMA HandoverStep == TypeOK /\ HandoverInv /\ [Next]_vars => HandoverInv'
<1>. SUFFICES ASSUME TypeOK, HandoverInv, [Next]_vars PROVE HandoverInv'
  OBVIOUS
<1>0. PcTyped /\ Requesters' = Requesters
  BY TypeParts DEF Requesters
<1>. USE <1>0
<1>1. ASSUME NEW t \in Requesters, NEW e \in Bits, OnScriptError(t, e)
      PROVE  HandoverInv'
  BY <1>1, WhoIsWho DEF OnScriptError, At, Goto, Spinning, Raise, Handshake,
      Halt, HandoverInv, NetCommand, NetIdle, Evaluates, PcTyped
<1>2. ASSUME NEW t \in Requesters, DumpStack(t)
      PROVE  HandoverInv'
  BY <1>2, WhoIsWho DEF DumpStack, At, Goto, Spinning, Raise, Handshake, Halt,
      HandoverInv, NetCommand, NetIdle, Evaluates, PcTyped
<1>3. ASSUME NEW t \in Requesters, HaltHere(t)
      PROVE  HandoverInv'
  BY <1>3, WhoIsWho DEF HaltHere, At, Goto, Spinning, Raise, Handshake, Halt,
      HandoverInv, NetCommand, NetIdle, Evaluates, PcTyped
<1>4. ASSUME NEW t \in Requesters, SpinEnds(t)
      PROVE  HandoverInv'
  BY <1>4, WhoIsWho DEF SpinEnds, At, Goto, Spinning, Raise, Handshake, Halt,
      HandoverInv, NetCommand, NetIdle, Evaluates, PcTyped
<1>5. ASSUME NEW t \in Threads, Resume(t)
      PROVE  HandoverInv'
  BY <1>5, WhoIsWho, AfterHaltTyped DEF Resume, At, Goto, Spinning, Raise,
      Handshake, Halt, HandoverInv, NetCommand, NetIdle, Evaluates, PcTyped
<1>6. CASE Wake
  BY <1>6, WhoIsWho DEF Wake, At, Goto, Spinning, Raise, Handshake, Halt,
      HandoverInv, NetCommand, NetIdle, Evaluates, PcTyped
<1>7. CASE TestClient
  BY <1>7, WhoIsWho DEF TestClient, At, Goto, Spinning, Raise, Handshake,
      Halt, HandoverInv, NetCommand, NetIdle, Evaluates, PcTyped
<1>8. CASE JudgeError
  BY <1>8, WhoIsWho DEF JudgeError, At, Goto, Spinning, Raise, Handshake,
      Halt, HandoverInv, NetCommand, NetIdle, Evaluates, PcTyped
<1>9. CASE Reset
  BY <1>9, WhoIsWho DEF Reset, At, Goto, Spinning, Raise, Handshake, Halt,
      HandoverInv, NetCommand, NetIdle, Evaluates, PcTyped
<1>10. ASSUME NEW step \in BOOLEAN, NetContinue(step)
       PROVE  HandoverInv'
  BY <1>10, WhoIsWho DEF NetContinue, At, Goto, Spinning, Raise, Handshake,
      Halt, HandoverInv, NetCommand, NetIdle, Evaluates, PcTyped
<1>11. CASE NetPause
  BY <1>11, WhoIsWho DEF NetPause, At, Goto, Spinning, Raise, Handshake, Halt,
      HandoverInv, NetCommand, NetIdle, Evaluates, PcTyped
<1>12. ASSUME NEW wanted \in SUBSET Bits, NetSetFilter(wanted)
       PROVE  HandoverInv'
  BY <1>12, WhoIsWho DEF NetSetFilter, At, Goto, Spinning, Raise, Handshake,
      Halt, HandoverInv, NetCommand, NetIdle, Evaluates, PcTyped
<1>13. CASE NetFilterAdd
  BY <1>13, WhoIsWho DEF NetFilterAdd, At, Goto, Spinning, Raise, Handshake,
      Halt, HandoverInv, NetCommand, NetIdle, Evaluates, PcTyped
<1>14. CASE NetFilterDone
  BY <1>14, WhoIsWho DEF NetFilterDone, At, Goto, Spinning, Raise, Handshake,
      Halt, HandoverInv, NetCommand, NetIdle, Evaluates, PcTyped
<1>15. CASE NetFilterAbort
  BY <1>15, WhoIsWho DEF NetFilterAbort, At, Goto, Spinning, Raise, Handshake,
      Halt, HandoverInv, NetCommand, NetIdle, Evaluates, PcTyped
<1>16. CASE NetExecute
  BY <1>16, WhoIsWho DEF NetExecute, At, Goto, Spinning, Raise, Handshake,
      Halt, HandoverInv, NetCommand, NetIdle, Evaluates, PcTyped
<1>17. CASE NetFinish
  BY <1>17, WhoIsWho DEF NetFinish, At, Goto, Spinning, Raise, Handshake,
      Halt, HandoverInv, NetCommand, NetIdle, Evaluates, PcTyped
<1>18. CASE NetOpen
  BY <1>18, WhoIsWho DEF NetOpen, At, Goto, Spinning, Raise, Handshake, Halt,
      HandoverInv, NetCommand, NetIdle, Evaluates, PcTyped
<1>19. CASE NetClose
  BY <1>19, WhoIsWho DEF NetClose, At, Goto, Spinning, Raise, Handshake, Halt,
      HandoverInv, NetCommand, NetIdle, Evaluates, PcTyped
<1>20. CASE UNCHANGED vars
  BY <1>20, WhoIsWho DEF vars, At, Goto, Spinning, Raise, Handshake, Halt,
      HandoverInv, NetCommand, NetIdle, Evaluates, PcTyped
<1>. QED
  BY <1>1, <1>2, <1>3, <1>4, <1>5, <1>6, <1>7, <1>8, <1>9, <1>10, <1>11,
     <1>12, <1>13, <1>14, <1>15, <1>16, <1>17, <1>18, <1>19, <1>20
  DEF Next, Request, Handler, Net, NetFilterStep

\* It holds in every behaviour, whatever threads ask and clients do.
LEMMA HandoverAlways == Spec => []HandoverInv
<1>. QED  BY HandoverInit, HandoverStep, TypeCorrect, PTL DEF Spec

\* Whatever the handler looks at belongs to a thread that waits for it.
THEOREM HandlerServesWaiters == Spec => []HandlerHoldsRequest
<1>1. HandoverInv => HandlerHoldsRequest
  BY DEF HandoverInv, HandlerHoldsRequest
<1>. QED  BY <1>1, HandoverAlways, PTL

Judged == \A t \in Requesters : At(t, "spin") /\ pc'[t] # "spin"
                                  => t \notin unjudged

\* A thread only leaves its spin loop in SpinEnds, with the flag down.
LEMMA JudgedStep == TypeOK /\ HandoverInv /\ [Next]_vars => [Judged]_vars
<1>. SUFFICES ASSUME TypeOK, HandoverInv, Next PROVE Judged
  BY DEF Judged, vars, At
<1>0. PcTyped
  BY TypeParts
<1>. USE <1>0
<1>1. ASSUME NEW t \in Requesters, NEW e \in Bits, OnScriptError(t, e)
      PROVE  Judged
  BY <1>1, WhoIsWho DEF OnScriptError, At, Goto, Raise, Halt, HandoverInv,
      Judged, NetCommand, NetIdle, Evaluates, PcTyped, Handshake
<1>2. ASSUME NEW t \in Requesters, DumpStack(t)
      PROVE  Judged
  BY <1>2, WhoIsWho DEF DumpStack, At, Goto, Raise, Halt, HandoverInv, Judged,
      NetCommand, NetIdle, Evaluates, PcTyped, Handshake
<1>3. ASSUME NEW t \in Requesters, HaltHere(t)
      PROVE  Judged
  BY <1>3, WhoIsWho DEF HaltHere, At, Goto, Raise, Halt, HandoverInv, Judged,
      NetCommand, NetIdle, Evaluates, PcTyped, Handshake
<1>4. ASSUME NEW t \in Requesters, SpinEnds(t)
      PROVE  Judged
  BY <1>4, WhoIsWho DEF SpinEnds, At, Goto, Raise, Halt, HandoverInv, Judged,
      NetCommand, NetIdle, Evaluates, PcTyped, Handshake
<1>5. ASSUME NEW t \in Threads, Resume(t)
      PROVE  Judged
  BY <1>5, WhoIsWho DEF Resume, At, Goto, Raise, Halt, HandoverInv, Judged,
      NetCommand, NetIdle, Evaluates, PcTyped, Handshake
<1>6. CASE Wake
  BY <1>6, WhoIsWho DEF Wake, At, Goto, Raise, Halt, HandoverInv, Judged,
      NetCommand, NetIdle, Evaluates, PcTyped, Handshake
<1>7. CASE TestClient
  BY <1>7, WhoIsWho DEF TestClient, At, Goto, Raise, Halt, HandoverInv,
      Judged, NetCommand, NetIdle, Evaluates, PcTyped, Handshake
<1>8. CASE JudgeError
  BY <1>8, WhoIsWho DEF JudgeError, At, Goto, Raise, Halt, HandoverInv,
      Judged, NetCommand, NetIdle, Evaluates, PcTyped, Handshake
<1>9. CASE Reset
  BY <1>9, WhoIsWho DEF Reset, At, Goto, Raise, Halt, HandoverInv, Judged,
      NetCommand, NetIdle, Evaluates, PcTyped, Handshake
<1>10. ASSUME NEW step \in BOOLEAN, NetContinue(step)
       PROVE  Judged
  BY <1>10, WhoIsWho DEF NetContinue, At, Goto, Raise, Halt, HandoverInv,
      Judged, NetCommand, NetIdle, Evaluates, PcTyped, Handshake
<1>11. CASE NetPause
  BY <1>11, WhoIsWho DEF NetPause, At, Goto, Raise, Halt, HandoverInv, Judged,
      NetCommand, NetIdle, Evaluates, PcTyped, Handshake
<1>12. ASSUME NEW wanted \in SUBSET Bits, NetSetFilter(wanted)
       PROVE  Judged
  BY <1>12, WhoIsWho DEF NetSetFilter, At, Goto, Raise, Halt, HandoverInv,
      Judged, NetCommand, NetIdle, Evaluates, PcTyped, Handshake
<1>13. CASE NetFilterAdd
  BY <1>13, WhoIsWho DEF NetFilterAdd, At, Goto, Raise, Halt, HandoverInv,
      Judged, NetCommand, NetIdle, Evaluates, PcTyped, Handshake
<1>14. CASE NetFilterDone
  BY <1>14, WhoIsWho DEF NetFilterDone, At, Goto, Raise, Halt, HandoverInv,
      Judged, NetCommand, NetIdle, Evaluates, PcTyped, Handshake
<1>15. CASE NetFilterAbort
  BY <1>15, WhoIsWho DEF NetFilterAbort, At, Goto, Raise, Halt, HandoverInv,
      Judged, NetCommand, NetIdle, Evaluates, PcTyped, Handshake
<1>16. CASE NetExecute
  BY <1>16, WhoIsWho DEF NetExecute, At, Goto, Raise, Halt, HandoverInv,
      Judged, NetCommand, NetIdle, Evaluates, PcTyped, Handshake
<1>17. CASE NetFinish
  BY <1>17, WhoIsWho DEF NetFinish, At, Goto, Raise, Halt, HandoverInv,
      Judged, NetCommand, NetIdle, Evaluates, PcTyped, Handshake
<1>18. CASE NetOpen
  BY <1>18, WhoIsWho DEF NetOpen, At, Goto, Raise, Halt, HandoverInv, Judged,
      NetCommand, NetIdle, Evaluates, PcTyped, Handshake
<1>19. CASE NetClose
  BY <1>19, WhoIsWho DEF NetClose, At, Goto, Raise, Halt, HandoverInv, Judged,
      NetCommand, NetIdle, Evaluates, PcTyped, Handshake
<1>. QED
  BY <1>1, <1>2, <1>3, <1>4, <1>5, <1>6, <1>7, <1>8, <1>9, <1>10, <1>11,
     <1>12, <1>13, <1>14, <1>15, <1>16, <1>17, <1>18, <1>19
  DEF Next, Request, Handler, Net, NetFilterStep

\* The error that raised the flag is always judged before its thread goes on.
THEOREM FirstRequestsAreJudged == Spec => FirstRequestIsJudged
<1>1. Judged <=> \A t \in Requesters : At(t, "spin") /\ pc'[t] # "spin"
                                          => t \notin unjudged
  BY DEF Judged
<1>2. TypeOK /\ HandoverInv /\ [Next]_vars
        => [\A t \in Requesters : At(t, "spin") /\ pc'[t] # "spin"
                                     => t \notin unjudged]_vars
  BY <1>1, JudgedStep
<1>. QED  BY <1>2, TypeCorrect, HandoverAlways, PTL DEF Spec,
    FirstRequestIsJudged

-----------------------------------------------------------------------------
(***************************************************************************)
(* The contract: which thread leaves or joins the spinning ones, and where *)
(* the handler is, is all it sees.  A step of a thread that neither leaves *)
(* the spin loop nor enters it, with the handler on the same side of the   *)
(* verdict, is a stutter.                                                  *)
(***************************************************************************)
Decided(label) == label \in {"halted", "reset"}

\* A thread moves outside of what the contract sees.
LEMMA MoveIsSilent ==
  ASSUME PcTyped, NEW t \in Threads, NEW label \in Labels(t), Goto(t, label),
         pc[t] # "spin", label # "spin", UNCHANGED flag,
         t = "handler" => /\ Decided(pc[t]) = Decided(label)
                          /\ pc[t] = "halted" <=> label = "halted"
  PROVE  UNCHANGED Contract!vars
<1> DEFINE judged == pc["handler"] \in {"halted", "reset"}
           held == At("handler", "halted")
<1>1. Spinning' = Spinning
  BY WhoIsWho DEF Spinning, Goto, PcTyped, Requesters
<1>2. (judged' <=> judged) /\ (held' <=> held)
  BY WhoIsWho DEF Goto, PcTyped, Decided, At
<1>3. judged \in BOOLEAN /\ judged' \in BOOLEAN
  OBVIOUS
<1>4. held \in BOOLEAN /\ held' \in BOOLEAN
  BY DEF At
<1>5. judged' = judged /\ held' = held
  <2> HIDE DEF judged, held
  <2>. QED  BY <1>2, <1>3, <1>4, Zenon
<1>. QED  BY <1>1, <1>5 DEF Contract!vars

\* So does a command that moves no thread and leaves the flag alone.
LEMMA NoMoveIsSilent ==
  ASSUME UNCHANGED <<pc, flag>>
  PROVE  UNCHANGED Contract!vars
BY DEF Contract!vars, Spinning, Requesters, At

\* Raising the flag opens a round or joins the one that is open.
LEMMA RaiseAsks ==
  ASSUME PcTyped, NEW t \in Requesters, pc[t] # "spin", Raise(t)
  PROVE  Contract!Ask(t)
<1>1. t \notin Spinning /\ Spinning' = Spinning \cup {t}
  BY WhoIsWho DEF Spinning, Raise, Goto, PcTyped, Requesters
<1>2. pc'["handler"] = pc["handler"]
  BY WhoIsWho DEF Raise, Goto, PcTyped
<1>. QED  BY <1>1, <1>2 DEF Contract!Ask, Raise, At

\* The verdict of the handler: it is given once in a round, and somebody waits.
LEMMA VerdictJudges ==
  ASSUME PcTyped, HandoverInv, NEW label \in {"halted", "reset"},
         pc["handler"] \in {"connected", "judge"}, Goto("handler", label),
         UNCHANGED flag
  PROVE  Contract!Judge
<1>1. flag /\ Spinning # {} /\ Spinning' = Spinning
  BY WhoIsWho DEF HandoverInv, Spinning, Goto, PcTyped, Requesters, At
<1>2. pc'["handler"] = label
  BY WhoIsWho DEF Goto, PcTyped
<1>3. At("handler", "halted")' \in BOOLEAN
  BY DEF At
<1>. QED  BY <1>1, <1>2, <1>3 DEF Contract!Judge

\* Every step is one of the contract's, or none.
LEMMA ContractStep ==
  ASSUME TypeOK, HandoverInv, [Next]_vars
  PROVE  [Contract!Next]_Contract!vars
<1>0. PcTyped
  BY TypeParts
<1>. USE <1>0
<1>1. ASSUME NEW t \in Requesters, NEW e \in Bits, OnScriptError(t, e)
      PROVE  [Contract!Next]_Contract!vars
  <2>1. pc[t] # "spin"
    BY <1>1 DEF OnScriptError, Evaluates, At
  <2>2. CASE Raise(t)
    BY <2>1, <2>2, RaiseAsks DEF Contract!Next
  <2>3. CASE UNCHANGED <<pc, Handshake>>
    BY <2>3, NoMoveIsSilent DEF Handshake
  <2>. QED  BY <1>1, <2>2, <2>3 DEF OnScriptError
<1>2. ASSUME NEW t \in Requesters, DumpStack(t)
      PROVE  [Contract!Next]_Contract!vars
  BY <1>2, RaiseAsks DEF DumpStack, At, Contract!Next
<1>3. ASSUME NEW t \in Requesters, HaltHere(t)
      PROVE  [Contract!Next]_Contract!vars
  <2>1. /\ pc[t] # "spin" /\ t # "handler" /\ t \in Threads
        /\ "halted" \in Labels(t)
    BY <1>3, WhoIsWho, LabelsOf DEF HaltHere, Evaluates, At
  <2>. QED  BY <1>3, <2>1, MoveIsSilent DEF HaltHere, Halt, Handshake
<1>4. ASSUME NEW t \in Requesters, SpinEnds(t)
      PROVE  [Contract!Next]_Contract!vars
  <2>1. t \in Spinning /\ Spinning' = Spinning \ {t}
    BY <1>4, WhoIsWho DEF SpinEnds, Spinning, At, Goto, PcTyped, Requesters
  <2>2. pc'["handler"] = pc["handler"]
    BY <1>4, WhoIsWho DEF SpinEnds, Goto, PcTyped
  <2>3. Contract!Leave(t)
    BY <1>4, <2>1, <2>2 DEF SpinEnds, Contract!Leave, Handshake, At
  <2>. QED  BY <2>3 DEF Contract!Next
<1>5. ASSUME NEW t \in Threads, Resume(t)
      PROVE  [Contract!Next]_Contract!vars
  <2>1. /\ pc[t] = "halted" /\ Goto(t, AfterHalt(t)) /\ UNCHANGED flag
        /\ AfterHalt(t) \in Labels(t) /\ AfterHalt(t) # "spin"
        /\ t = "handler" => AfterHalt(t) = "reset"
    BY <1>5, AfterHaltTyped DEF Resume, At, Handshake
  <2>2. CASE t # "handler"
    BY <2>1, <2>2, MoveIsSilent
  <2>3. CASE t = "handler"
    <3>1. pc'["handler"] = "reset" /\ Spinning' = Spinning
      BY <2>1, <2>3, WhoIsWho DEF Goto, PcTyped, Spinning, Requesters
    <3>2. Contract!Continue
      BY <2>1, <2>3, <3>1 DEF Contract!Continue, At
    <3>. QED  BY <3>2 DEF Contract!Next
  <2>. QED  BY <2>2, <2>3
<1>6. CASE Wake
  BY <1>6, MoveIsSilent, LabelsOf, WhoIsWho DEF Wake, At, Handshake, Decided
<1>7. CASE TestClient
  <2>1. pc["handler"] = "connected" /\ UNCHANGED flag
    BY <1>7 DEF TestClient, At
  <2>2. CASE Goto("handler", "judge")
    BY <2>1, <2>2, MoveIsSilent, LabelsOf, WhoIsWho DEF Decided
  <2>3. CASE Goto("handler", "reset")
    BY <2>1, <2>3, VerdictJudges DEF Contract!Next
  <2>. QED  BY <1>7, <2>2, <2>3 DEF TestClient
<1>8. CASE JudgeError
  <2>1. /\ pc["handler"] = "judge" /\ UNCHANGED flag
        /\ Goto("handler", "halted") \/ Goto("handler", "reset")
    BY <1>8 DEF JudgeError, At, Halt
  <2>. QED  BY <2>1, VerdictJudges DEF Contract!Next
<1>9. CASE Reset
  <2>1. pc["handler"] = "reset" /\ pc'["handler"] = "poll" /\ flag /\ ~flag'
    BY <1>9, WhoIsWho DEF Reset, At, Goto, PcTyped, HandoverInv
  <2>2. Spinning' = Spinning
    BY <1>9, WhoIsWho DEF Reset, Goto, PcTyped, Spinning, Requesters
  <2>3. flag' = FALSE
    BY <1>9 DEF Reset
  <2>4. Contract!Close
    BY <2>1, <2>2, <2>3 DEF Contract!Close, At
  <2>. QED  BY <2>4 DEF Contract!Next
<1>10. ASSUME NEW step \in BOOLEAN, NetContinue(step)
       PROVE  [Contract!Next]_Contract!vars
  BY <1>10, NoMoveIsSilent DEF NetContinue, Handshake
<1>11. CASE NetPause
  BY <1>11, NoMoveIsSilent DEF NetPause, Handshake
<1>12. ASSUME NEW wanted \in SUBSET Bits, NetSetFilter(wanted)
       PROVE  [Contract!Next]_Contract!vars
  BY <1>12, MoveIsSilent, LabelsOf, WhoIsWho DEF NetSetFilter, NetCommand,
     NetIdle, At, Handshake
<1>13. CASE NetFilterAdd
  BY <1>13, NoMoveIsSilent DEF NetFilterAdd, Handshake
<1>14. CASE NetFilterDone
  BY <1>14, MoveIsSilent, LabelsOf, WhoIsWho DEF NetFilterDone, At, Handshake
<1>15. CASE NetFilterAbort
  BY <1>15, MoveIsSilent, LabelsOf, WhoIsWho DEF NetFilterAbort, At, Handshake
<1>16. CASE NetExecute
  BY <1>16, MoveIsSilent, LabelsOf, WhoIsWho DEF NetExecute, NetCommand,
     NetIdle, At, Handshake
<1>17. CASE NetFinish
  BY <1>17, MoveIsSilent, LabelsOf, WhoIsWho DEF NetFinish, At, Handshake
<1>18. CASE NetOpen
  BY <1>18, NoMoveIsSilent DEF NetOpen, Handshake
<1>19. CASE NetClose
  BY <1>19, NoMoveIsSilent DEF NetClose, Handshake
<1>20. CASE UNCHANGED vars
  BY <1>20, NoMoveIsSilent DEF vars, Handshake
<1>. QED
  BY <1>1, <1>2, <1>3, <1>4, <1>5, <1>6, <1>7, <1>8, <1>9, <1>10, <1>11,
     <1>12, <1>13, <1>14, <1>15, <1>16, <1>17, <1>18, <1>19, <1>20
  DEF Next, Request, Handler, Net, NetFilterStep

\* The handshake serves its requests in rounds, each judged exactly once, and
\* lets nobody go before the round has ended.
THEOREM HandshakeIsRounds == Spec => ImplementsContract
<1>1. Init => Contract!Init
  <2>. SUFFICES ASSUME Init PROVE Contract!Init
    OBVIOUS
  <2>1. Spinning = {} /\ pc["handler"] = "poll"
    BY WhoIsWho DEF Init, Spinning
  <2>. QED  BY <2>1 DEF Init, Contract!Init, At
<1>2. TypeOK /\ HandoverInv /\ [Next]_vars => [Contract!Next]_Contract!vars
  BY ContractStep
<1>. QED  BY <1>1, <1>2, TypeCorrect, HandoverAlways, PTL DEF Spec,
    ImplementsContract, Contract!Spec

-----------------------------------------------------------------------------
(***************************************************************************)
(* The filter while it is rebuilt: what it lets by was asked for, and what *)
(* was asked for is in it or still to come.                                *)
(***************************************************************************)
FilterInv ==
  /\ filter \subseteq asked
  /\ todo \subseteq asked
  /\ cut \/ asked \subseteq filter \cup todo
  /\ At("net", "filter") \/ todo = {}

\* At the start every bit is set and every error was asked for.
LEMMA FilterInit == Init => FilterInv
BY DEF Init, FilterInv

\* Every step keeps it.
LEMMA FilterStep == TypeOK /\ FilterInv /\ [Next]_vars => FilterInv'
<1>. SUFFICES ASSUME TypeOK, FilterInv, [Next]_vars PROVE FilterInv'
  OBVIOUS
<1>0. PcTyped /\ OthersTyped
  BY TypeParts
<1>. USE <1>0
<1>1. ASSUME NEW t \in Requesters, NEW e \in Bits, OnScriptError(t, e)
      PROVE  FilterInv'
  BY <1>1, WhoIsWho DEF OnScriptError, At, Goto, Raise, Halt, FilterInv,
      FilterVars, NetCommand, NetIdle, Evaluates, PcTyped
<1>2. ASSUME NEW t \in Requesters, DumpStack(t)
      PROVE  FilterInv'
  BY <1>2, WhoIsWho DEF DumpStack, At, Goto, Raise, Halt, FilterInv,
      FilterVars, NetCommand, NetIdle, Evaluates, PcTyped
<1>3. ASSUME NEW t \in Requesters, HaltHere(t)
      PROVE  FilterInv'
  BY <1>3, WhoIsWho DEF HaltHere, At, Goto, Raise, Halt, FilterInv,
      FilterVars, NetCommand, NetIdle, Evaluates, PcTyped
<1>4. ASSUME NEW t \in Requesters, SpinEnds(t)
      PROVE  FilterInv'
  BY <1>4, WhoIsWho DEF SpinEnds, At, Goto, Raise, Halt, FilterInv,
      FilterVars, NetCommand, NetIdle, Evaluates, PcTyped
<1>5. ASSUME NEW t \in Threads, Resume(t)
      PROVE  FilterInv'
  BY <1>5, WhoIsWho, AfterHaltTyped DEF Resume, At, Goto, Raise, Halt,
      FilterInv, FilterVars, NetCommand, NetIdle, Evaluates, PcTyped
<1>6. CASE Wake
  BY <1>6, WhoIsWho DEF Wake, At, Goto, Raise, Halt, FilterInv, FilterVars,
      NetCommand, NetIdle, Evaluates, PcTyped
<1>7. CASE TestClient
  BY <1>7, WhoIsWho DEF TestClient, At, Goto, Raise, Halt, FilterInv,
      FilterVars, NetCommand, NetIdle, Evaluates, PcTyped
<1>8. CASE JudgeError
  BY <1>8, WhoIsWho DEF JudgeError, At, Goto, Raise, Halt, FilterInv,
      FilterVars, NetCommand, NetIdle, Evaluates, PcTyped
<1>9. CASE Reset
  BY <1>9, WhoIsWho DEF Reset, At, Goto, Raise, Halt, FilterInv, FilterVars,
      NetCommand, NetIdle, Evaluates, PcTyped
<1>10. ASSUME NEW step \in BOOLEAN, NetContinue(step)
       PROVE  FilterInv'
  BY <1>10, WhoIsWho DEF NetContinue, At, Goto, Raise, Halt, FilterInv,
      FilterVars, NetCommand, NetIdle, Evaluates, PcTyped
<1>11. CASE NetPause
  BY <1>11, WhoIsWho DEF NetPause, At, Goto, Raise, Halt, FilterInv,
      FilterVars, NetCommand, NetIdle, Evaluates, PcTyped
<1>12. ASSUME NEW wanted \in SUBSET Bits, NetSetFilter(wanted)
       PROVE  FilterInv'
  BY <1>12, WhoIsWho DEF NetSetFilter, At, Goto, Raise, Halt, FilterInv,
      FilterVars, NetCommand, NetIdle, Evaluates, PcTyped
<1>13. CASE NetFilterAdd
  BY <1>13, WhoIsWho DEF NetFilterAdd, At, Goto, Raise, Halt, FilterInv,
      FilterVars, NetCommand, NetIdle, Evaluates, PcTyped
<1>14. CASE NetFilterDone
  BY <1>14, WhoIsWho DEF NetFilterDone, At, Goto, Raise, Halt, FilterInv,
      FilterVars, NetCommand, NetIdle, Evaluates, PcTyped
<1>15. CASE NetFilterAbort
  BY <1>15, WhoIsWho DEF NetFilterAbort, At, Goto, Raise, Halt, FilterInv,
      FilterVars, NetCommand, NetIdle, Evaluates, PcTyped
<1>16. CASE NetExecute
  BY <1>16, WhoIsWho DEF NetExecute, At, Goto, Raise, Halt, FilterInv,
      FilterVars, NetCommand, NetIdle, Evaluates, PcTyped
<1>17. CASE NetFinish
  BY <1>17, WhoIsWho DEF NetFinish, At, Goto, Raise, Halt, FilterInv,
      FilterVars, NetCommand, NetIdle, Evaluates, PcTyped
<1>18. CASE NetOpen
  BY <1>18, WhoIsWho DEF NetOpen, At, Goto, Raise, Halt, FilterInv,
      FilterVars, NetCommand, NetIdle, Evaluates, PcTyped
<1>19. CASE NetClose
  BY <1>19, WhoIsWho DEF NetClose, At, Goto, Raise, Halt, FilterInv,
      FilterVars, NetCommand, NetIdle, Evaluates, PcTyped
<1>20. CASE UNCHANGED vars
  BY <1>20, WhoIsWho DEF vars, At, Goto, Raise, Halt, FilterInv, FilterVars,
      NetCommand, NetIdle, Evaluates, PcTyped
<1>. QED
  BY <1>1, <1>2, <1>3, <1>4, <1>5, <1>6, <1>7, <1>8, <1>9, <1>10, <1>11,
     <1>12, <1>13, <1>14, <1>15, <1>16, <1>17, <1>18, <1>19, <1>20
  DEF Next, Request, Handler, Net, NetFilterStep

Filtered == At("handler", "judge") =>
              /\ pc'["handler"] = "halted" => errorType \in asked
              /\ pc'["handler"] = "reset" /\ errorType \in asked
                   => At("net", "filter") \/ cut

\* The handler leaves its test of the filter in JudgeError only.
LEMMA FilteredStep == TypeOK /\ FilterInv /\ [Next]_vars => [Filtered]_vars
<1>. SUFFICES ASSUME TypeOK, FilterInv, Next PROVE Filtered
  BY DEF Filtered, vars, At
<1>0. PcTyped /\ OthersTyped
  BY TypeParts
<1>. USE <1>0
<1>1. ASSUME NEW t \in Requesters, NEW e \in Bits, OnScriptError(t, e)
      PROVE  Filtered
  BY <1>1, WhoIsWho DEF OnScriptError, At, Goto, Raise, Halt, FilterInv,
      Filtered, NetCommand, NetIdle, Evaluates, PcTyped, HaltVars
<1>2. ASSUME NEW t \in Requesters, DumpStack(t)
      PROVE  Filtered
  BY <1>2, WhoIsWho DEF DumpStack, At, Goto, Raise, Halt, FilterInv, Filtered,
      NetCommand, NetIdle, Evaluates, PcTyped, HaltVars
<1>3. ASSUME NEW t \in Requesters, HaltHere(t)
      PROVE  Filtered
  BY <1>3, WhoIsWho DEF HaltHere, At, Goto, Raise, Halt, FilterInv, Filtered,
      NetCommand, NetIdle, Evaluates, PcTyped, HaltVars
<1>4. ASSUME NEW t \in Requesters, SpinEnds(t)
      PROVE  Filtered
  BY <1>4, WhoIsWho DEF SpinEnds, At, Goto, Raise, Halt, FilterInv, Filtered,
      NetCommand, NetIdle, Evaluates, PcTyped, HaltVars
<1>5. ASSUME NEW t \in Threads, Resume(t)
      PROVE  Filtered
  BY <1>5, WhoIsWho DEF Resume, At, Goto, Raise, Halt, FilterInv, Filtered,
      NetCommand, NetIdle, Evaluates, PcTyped, HaltVars
<1>6. CASE Wake
  BY <1>6, WhoIsWho DEF Wake, At, Goto, Raise, Halt, FilterInv, Filtered,
      NetCommand, NetIdle, Evaluates, PcTyped, HaltVars
<1>7. CASE TestClient
  BY <1>7, WhoIsWho DEF TestClient, At, Goto, Raise, Halt, FilterInv,
      Filtered, NetCommand, NetIdle, Evaluates, PcTyped, HaltVars
<1>8. CASE JudgeError
  BY <1>8, WhoIsWho DEF JudgeError, At, Goto, Raise, Halt, FilterInv,
      Filtered, NetCommand, NetIdle, Evaluates, PcTyped, HaltVars
<1>9. CASE Reset
  BY <1>9, WhoIsWho DEF Reset, At, Goto, Raise, Halt, FilterInv, Filtered,
      NetCommand, NetIdle, Evaluates, PcTyped, HaltVars
<1>10. ASSUME NEW step \in BOOLEAN, NetContinue(step)
       PROVE  Filtered
  BY <1>10, WhoIsWho DEF NetContinue, At, Goto, Raise, Halt, FilterInv,
      Filtered, NetCommand, NetIdle, Evaluates, PcTyped, HaltVars
<1>11. CASE NetPause
  BY <1>11, WhoIsWho DEF NetPause, At, Goto, Raise, Halt, FilterInv, Filtered,
      NetCommand, NetIdle, Evaluates, PcTyped, HaltVars
<1>12. ASSUME NEW wanted \in SUBSET Bits, NetSetFilter(wanted)
       PROVE  Filtered
  BY <1>12, WhoIsWho DEF NetSetFilter, At, Goto, Raise, Halt, FilterInv,
      Filtered, NetCommand, NetIdle, Evaluates, PcTyped, HaltVars
<1>13. CASE NetFilterAdd
  BY <1>13, WhoIsWho DEF NetFilterAdd, At, Goto, Raise, Halt, FilterInv,
      Filtered, NetCommand, NetIdle, Evaluates, PcTyped, HaltVars
<1>14. CASE NetFilterDone
  BY <1>14, WhoIsWho DEF NetFilterDone, At, Goto, Raise, Halt, FilterInv,
      Filtered, NetCommand, NetIdle, Evaluates, PcTyped, HaltVars
<1>15. CASE NetFilterAbort
  BY <1>15, WhoIsWho DEF NetFilterAbort, At, Goto, Raise, Halt, FilterInv,
      Filtered, NetCommand, NetIdle, Evaluates, PcTyped, HaltVars
<1>16. CASE NetExecute
  BY <1>16, WhoIsWho DEF NetExecute, At, Goto, Raise, Halt, FilterInv,
      Filtered, NetCommand, NetIdle, Evaluates, PcTyped, HaltVars
<1>17. CASE NetFinish
  BY <1>17, WhoIsWho DEF NetFinish, At, Goto, Raise, Halt, FilterInv,
      Filtered, NetCommand, NetIdle, Evaluates, PcTyped, HaltVars
<1>18. CASE NetOpen
  BY <1>18, WhoIsWho DEF NetOpen, At, Goto, Raise, Halt, FilterInv, Filtered,
      NetCommand, NetIdle, Evaluates, PcTyped, HaltVars
<1>19. CASE NetClose
  BY <1>19, WhoIsWho DEF NetClose, At, Goto, Raise, Halt, FilterInv, Filtered,
      NetCommand, NetIdle, Evaluates, PcTyped, HaltVars
<1>. QED
  BY <1>1, <1>2, <1>3, <1>4, <1>5, <1>6, <1>7, <1>8, <1>9, <1>10, <1>11,
     <1>12, <1>13, <1>14, <1>15, <1>16, <1>17, <1>18, <1>19
  DEF Next, Request, Handler, Net, NetFilterStep

\* The filter decides as the last SetExceptionFilter says, except while that
\* command is being carried out, or after it broke off.
THEOREM FilterIsObeyed == Spec => FilterDecides
<1>1. TypeOK /\ FilterInv /\ [Next]_vars
        => [At("handler", "judge") =>
              /\ pc'["handler"] = "halted" => errorType \in asked
              /\ pc'["handler"] = "reset" /\ errorType \in asked
                   => At("net", "filter") \/ cut]_vars
  BY FilteredStep DEF Filtered
<1>. QED  BY <1>1, FilterInit, FilterStep, TypeCorrect, PTL DEF Spec,
    FilterDecides

-----------------------------------------------------------------------------
(***************************************************************************)
(* The event.  It is of a thread that is halted; and of two threads that   *)
(* are halted at the same time both know it.                               *)
(***************************************************************************)
HaltInv ==
  /\ ContinueReachesHalts
  /\ \A t, u \in Halted : t # u => t \in nested

\* At the start nobody is halted.
LEMMA HaltInit == Init => HaltInv
BY DEF Init, HaltInv, ContinueReachesHalts, Halted

\* A halt makes itself reachable, and notes whom it overlaps.
LEMMA HaltKeeps ==
  ASSUME TypeOK, HaltInv, NEW t \in Threads, Halt(t), ~At(t, "halted")
  PROVE  HaltInv'
<1>0. PcTyped /\ OthersTyped /\ t # "none"
  BY TypeParts, WhoIsWho DEF Threads
<1>1. Halted' = Halted \cup {t}
  BY <1>0 DEF Halted, Halt, Goto, PcTyped, Threads, Requesters
<1>2. event' = t /\ At(t, "halted")'
  BY <1>0 DEF Halt, Goto, At, PcTyped
<1>3. \A u \in Halted : u \in nested'
  BY DEF Halt
<1>4. Halted # {} => t \in nested'
  BY DEF Halt
<1>. QED  BY <1>1, <1>2, <1>3, <1>4 DEF HaltInv, ContinueReachesHalts, At

\* A thread that is not halted moves on: nothing about halts changes.
LEMMA OthersKeep ==
  ASSUME TypeOK, HaltInv, NEW t \in Threads, NEW label, Goto(t, label),
         label # "halted", ~At(t, "halted"), UNCHANGED HaltVars
  PROVE  HaltInv'
<1>0. PcTyped
  BY TypeParts
<1>1. Halted' = Halted
  BY <1>0 DEF Halted, Goto, PcTyped, At, Threads, Requesters
<1>2. event # "none" => pc'[event] = pc[event]
  <2>1. event # "none" => event # t /\ event \in Threads
    BY TypeParts DEF HaltInv, ContinueReachesHalts, At, OthersTyped
  <2>. QED  BY <1>0, <2>1 DEF Goto, PcTyped
<1>. QED  BY <1>1, <1>2 DEF HaltInv, ContinueReachesHalts, At, HaltVars

\* A continue command releases, and leaves the rest alone.
LEMMA ContinueKeeps ==
  ASSUME TypeOK, HaltInv, NEW step \in BOOLEAN, CommandContinue(step),
         UNCHANGED pc
  PROVE  HaltInv'
BY DEF HaltInv, ContinueReachesHalts, At, Halted, HaltVars, CommandContinue,
       Threads, Requesters

\* Every step keeps it.
LEMMA HaltStep == TypeOK /\ HaltInv /\ [Next]_vars => HaltInv'
<1>. SUFFICES ASSUME TypeOK, HaltInv, [Next]_vars PROVE HaltInv'
  OBVIOUS
<1>0. PcTyped /\ OthersTyped
  BY TypeParts
<1>. USE <1>0
<1>1. ASSUME NEW t \in Requesters, NEW e \in Bits, OnScriptError(t, e)
      PROVE  HaltInv'
  <2>1. CASE Raise(t)
    BY <1>1, <2>1, OthersKeep, WhoIsWho DEF OnScriptError, Raise, At,
        HaltVars, Evaluates
  <2>2. CASE UNCHANGED <<pc, Handshake>>
    BY <1>1, <2>2 DEF OnScriptError, HaltVars, HaltInv, ContinueReachesHalts,
        At, Halted, Threads, Requesters
  <2>. QED  BY <1>1, <2>1, <2>2 DEF OnScriptError
<1>2. ASSUME NEW t \in Requesters, DumpStack(t)
      PROVE  HaltInv'
  BY <1>2, OthersKeep, WhoIsWho DEF DumpStack, At, HaltVars, Goto, Raise,
      NetCommand, NetIdle, Evaluates
<1>3. ASSUME NEW t \in Requesters, HaltHere(t)
      PROVE  HaltInv'
  BY <1>3, HaltKeeps, WhoIsWho DEF HaltHere, At, Evaluates
<1>4. ASSUME NEW t \in Requesters, SpinEnds(t)
      PROVE  HaltInv'
  BY <1>4, OthersKeep, WhoIsWho DEF SpinEnds, At, HaltVars, Goto, Raise,
      NetCommand, NetIdle, Evaluates
<1>5. ASSUME NEW t \in Threads, Resume(t)
      PROVE  HaltInv'
  <2>1. Halted' = Halted \ {t}
    BY <1>5, AfterHaltTyped DEF Resume, Halted, Goto, PcTyped, Threads,
        Requesters
  <2>2. t \in Halted
    BY <1>5 DEF Resume, Halted, At
  <2>3. \A u \in Halted : u # t => u \in nested /\ u \in nested'
    BY <1>5, <2>2 DEF HaltInv, Resume
  <2>. QED  BY <1>5, <2>1, <2>3 DEF HaltInv, ContinueReachesHalts, Resume
<1>6. CASE Wake
  BY <1>6, OthersKeep, WhoIsWho DEF Wake, At, HaltVars, Goto, Raise,
      NetCommand, NetIdle, Evaluates
<1>7. CASE TestClient
  BY <1>7, OthersKeep, WhoIsWho DEF TestClient, At, HaltVars, Goto, Raise,
      NetCommand, NetIdle, Evaluates
<1>8. CASE JudgeError
  BY <1>8, HaltKeeps, OthersKeep, WhoIsWho DEF JudgeError, At
<1>9. CASE Reset
  BY <1>9, OthersKeep, WhoIsWho DEF Reset, At, HaltVars, Goto, Raise,
      NetCommand, NetIdle, Evaluates
<1>10. ASSUME NEW step \in BOOLEAN, NetContinue(step)
       PROVE  HaltInv'
  BY <1>10, ContinueKeeps DEF NetContinue
<1>11. CASE NetPause
  BY <1>11 DEF NetPause, HaltVars, HaltInv, ContinueReachesHalts, At, Halted,
      Threads, Requesters
<1>12. ASSUME NEW wanted \in SUBSET Bits, NetSetFilter(wanted)
       PROVE  HaltInv'
  BY <1>12, OthersKeep, WhoIsWho DEF NetSetFilter, At, HaltVars, Goto, Raise,
      NetCommand, NetIdle, Evaluates
<1>13. CASE NetFilterAdd
  BY <1>13 DEF NetFilterAdd, HaltVars, HaltInv, ContinueReachesHalts, At,
      Halted, Threads, Requesters
<1>14. CASE NetFilterDone
  BY <1>14, OthersKeep, WhoIsWho DEF NetFilterDone, At, HaltVars, Goto, Raise,
      NetCommand, NetIdle, Evaluates
<1>15. CASE NetFilterAbort
  BY <1>15, OthersKeep, WhoIsWho DEF NetFilterAbort, At, HaltVars, Goto,
      Raise, NetCommand, NetIdle, Evaluates
<1>16. CASE NetExecute
  BY <1>16, OthersKeep, WhoIsWho DEF NetExecute, At, HaltVars, Goto, Raise,
      NetCommand, NetIdle, Evaluates
<1>17. CASE NetFinish
  BY <1>17, OthersKeep, WhoIsWho DEF NetFinish, At, HaltVars, Goto, Raise,
      NetCommand, NetIdle, Evaluates
<1>18. CASE NetOpen
  BY <1>18 DEF NetOpen, HaltVars, HaltInv, ContinueReachesHalts, At, Halted,
      Threads, Requesters
<1>19. CASE NetClose
  BY <1>19, ContinueKeeps DEF NetClose
<1>20. CASE UNCHANGED vars
  BY <1>20 DEF vars, HaltVars, HaltInv, ContinueReachesHalts, At, Halted,
      Threads, Requesters
<1>. QED
  BY <1>1, <1>2, <1>3, <1>4, <1>5, <1>6, <1>7, <1>8, <1>9, <1>10, <1>11,
     <1>12, <1>13, <1>14, <1>15, <1>16, <1>17, <1>18, <1>19, <1>20
  DEF Next, Request, Handler, Net, NetFilterStep

\* A continue command always reaches a thread that is halted, and unless halts
\* overlapped nobody is left waiting on an event that is gone.
THEOREM ContinuesReachHalts == Spec => []ContinueReachesHalts
<1>1. HaltInv => ContinueReachesHalts
  BY DEF HaltInv
<1>. QED  BY <1>1, HaltInit, HaltStep, TypeCorrect, PTL DEF Spec
=============================================================================
