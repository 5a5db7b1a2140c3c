--------------------------- MODULE ErrorHandshake ---------------------------
(***************************************************************************)
(* How a script error reaches the debugger.  A thread that evaluates SQF   *)
(* and meets an error, or calls the plug-in interface BIDebugEngine_       *)
(* dumpCallstack, raises one flag, waitForErrorHandler, and spins until    *)
(* the error-handler thread has taken it down again (EngineHook.cpp        *)
(* 653-661, 797-806, 845-852).  In between the handler halts on the error  *)
(* or writes the call stack to the log (Debugger::onScriptError).          *)
(*                                                                         *)
(* Halts nest here: the handler may halt while the script thread is halted *)
(* and so may the network thread, which runs the code of an ExecuteCode    *)
(* command itself.  A halt and a continue are one step each; their races   *)
(* are the subject of HaltProtocol.                                        *)
(***************************************************************************)
EXTENDS Naturals

CONSTANTS
  Plugins,     \* threads of other plug-ins that ask for a stack dump
  ErrorTypes,  \* bound: the error types that occur, besides "ok"
  MayExecute,  \* do clients send ExecuteCode
  Nice         \* only while the game is halted (NetworkController.cpp:205)

ASSUME HandshakeAssumption ==
  /\ Plugins \cap {"script", "net", "handler", "none"} = {}
  /\ "ok" \notin ErrorTypes
  /\ MayExecute \in BOOLEAN /\ Nice \in BOOLEAN

VARIABLES
  pc,               \* what each thread does
  flag,             \* waitForErrorHandler
  unjudged,         \* history: raised the flag and no verdict since
  errorType,        \* _errorType of the game's evaluator
  filter,           \* exceptionFilter, as the set of its bits
  todo,             \* filter entries the running SetExceptionFilter has left
  asked,            \* history: the entries of the last SetExceptionFilter
  cut,              \* history: that command ended on an unreadable entry
  event,            \* the thread whose halt breakStateContinueEvent is of
  released,         \* the halted threads whose event is set
  nested,           \* history: halted threads whose halt overlapped another
  state,            \* Debugger::state
  clientConnected   \* NetworkController::clientConnected

vars == <<pc, flag, unjudged, errorType, filter, todo, asked, cut, event,
          released, nested, state, clientConnected>>

Handshake == <<flag, unjudged>>
FilterVars == <<filter, todo, asked, cut>>
HaltVars == <<event, released, nested, state>>

Bits == ErrorTypes \cup {"ok"}
Requesters == Plugins \cup {"script", "net"}
Threads == Requesters \cup {"handler"}
States == {"running", "breakState", "stepState", "waitForHalt"}

Labels(t) ==
  CASE t = "script"  -> {"run", "spin", "halted"}
    [] t = "net"     -> {"idle", "filter", "exec", "spin", "halted", "after"}
    [] t = "handler" -> {"poll", "connected", "judge", "halted", "reset"}
    [] OTHER         -> {"run", "spin"}

\* Once the game is up: no client, no error, every bit of the filter set.
Init ==
  /\ pc = [t \in Threads |-> CASE t = "net" -> "idle"
                               [] t = "handler" -> "poll"
                               [] OTHER -> "run"]
  /\ flag = FALSE /\ unjudged = {}
  /\ errorType = "ok"
  /\ filter = Bits /\ todo = {} /\ asked = Bits /\ cut = FALSE
  /\ event = "none" /\ released = {} /\ nested = {}
  /\ state = "running"
  /\ clientConnected = FALSE

At(t, label) == pc[t] = label
Goto(t, label) == pc' = [pc EXCEPT ![t] = label]
Halted == {t \in Threads : pc[t] = "halted"}
Spinning == {t \in Requesters : pc[t] = "spin"}

-----------------------------------------------------------------------------
(***************************************************************************)
(* The threads that ask, and wait.                                         *)
(***************************************************************************)

\* waitForErrorHandler = true; a flag that is already up stays up.
Raise(t) ==
  /\ flag' = TRUE
  /\ unjudged' = IF flag THEN unjudged ELSE unjudged \cup {t}
  /\ Goto(t, "spin")

\* Where a thread evaluates SQF: scripts, and the code of an ExecuteCode.
Evaluates(t) == \/ t = "script" /\ At(t, "run")
                \/ t = "net" /\ At(t, "exec")

\* EngineHook::_onScriptError: the game has stored an error type, or reset it.
OnScriptError(t, e) ==
  /\ Evaluates(t)
  /\ errorType' = e
  /\ IF e = "ok" THEN UNCHANGED <<pc, Handshake>> ELSE Raise(t)
  /\ UNCHANGED <<FilterVars, HaltVars, clientConnected>>

\* dumpStack of the plug-in interface: no error is needed.
DumpStack(t) ==
  /\ t \in Plugins \cup {"script"}
  /\ At(t, "run")
  /\ Raise(t)
  /\ UNCHANGED <<errorType, FilterVars, HaltVars, clientConnected>>

\* Mutant: the spin loop gives up while the flag is still up.
SpinEndsEarly(t) ==
  /\ At(t, "spin")
  /\ flag => At("handler", "halted")
  /\ Goto(t, IF t = "net" THEN "after" ELSE "run")
  /\ UNCHANGED <<Handshake, errorType, FilterVars, HaltVars, clientConnected>>

\* while (waitForErrorHandler) ends when the thread reads the flag down.
SpinEnds(t) ==
  /\ At(t, "spin")
  /\ ~flag
  /\ Goto(t, IF t = "net" THEN "after" ELSE "run")
  /\ UNCHANGED <<Handshake, errorType, FilterVars, HaltVars, clientConnected>>

-----------------------------------------------------------------------------
(***************************************************************************)
(* Halting and continuing.                                                 *)
(***************************************************************************)

\* BPAction_Halt::execute up to its wait.  With no client, onHalt continues.
Halt(t) ==
  /\ Goto(t, "halted")
  /\ event' = t
  /\ released' = IF clientConnected THEN released \ {t} ELSE released \cup {t}
  /\ nested' = IF Halted = {} THEN nested ELSE nested \cup Halted \cup {t}
  /\ state' = IF clientConnected THEN "breakState" ELSE "running"

\* A breakpoint, a pause, a step, assert or halt, where SQF is evaluated.
HaltHere(t) ==
  /\ Evaluates(t)
  /\ Halt(t)
  /\ UNCHANGED <<Handshake, errorType, FilterVars, clientConnected>>

\* Mutant: every thread that was halted goes on with the script.
AfterHaltScript(t) == "run"

AfterHalt(t) == CASE t = "script" -> "run"
                  [] t = "net" -> "after"
                  [] t = "handler" -> "reset"

\* Mutant: onContinue keeps breakStateContinueEvent.
ResumeKeepsEvent(t) ==
  /\ At(t, "halted") /\ t \in released
  /\ Goto(t, AfterHalt(t))
  /\ released' = released \ {t} /\ nested' = nested \ {t}
  /\ UNCHANGED <<event, state, Handshake, errorType, FilterVars,
                 clientConnected>>

\* The wait loop ends; onContinue drops the event, whose halt it may be.
Resume(t) ==
  /\ At(t, "halted") /\ t \in released
  /\ Goto(t, AfterHalt(t))
  /\ event' = "none"
  /\ released' = released \ {t} /\ nested' = nested \ {t}
  /\ UNCHANGED <<state, Handshake, errorType, FilterVars, clientConnected>>

\* Debugger::commandContinue: a step needs the instruction of the last halt,
\* and the halts of a script error, assert, halt or haltNow have none.
CommandContinue(step) ==
  IF state = "running"
  THEN UNCHANGED HaltVars
  ELSE /\ \/ state' = "running"
          \/ step /\ event \in {"script", "net"} /\ state' = "stepState"
       /\ released' = IF event = "none" THEN released ELSE released \cup {event}
       /\ UNCHANGED <<event, nested>>

-----------------------------------------------------------------------------
(***************************************************************************)
(* The error-handler thread.                                               *)
(***************************************************************************)

\* Mutant: the flag is taken down before the error is handled.
WakeResets ==
  /\ At("handler", "poll") /\ flag
  /\ flag' = FALSE
  /\ Goto("handler", "connected")
  /\ UNCHANGED <<unjudged, errorType, FilterVars, HaltVars, clientConnected>>

\* The 50 ms poll finds the flag up.
Wake ==
  /\ At("handler", "poll") /\ flag
  /\ Goto("handler", "connected")
  /\ UNCHANGED <<Handshake, errorType, FilterVars, HaltVars, clientConnected>>

\* Mutant: with no client nothing is left to do, not even the reset.
TestClientReturns ==
  /\ At("handler", "connected")
  /\ IF clientConnected
     THEN Goto("handler", "judge") /\ UNCHANGED unjudged
     ELSE Goto("handler", "poll") /\ unjudged' = {}
  /\ UNCHANGED <<flag, errorType, FilterVars, HaltVars, clientConnected>>

\* Debugger::onScriptError, first test; with no client the stack is dumped.
TestClient ==
  /\ At("handler", "connected")
  /\ IF clientConnected
     THEN Goto("handler", "judge") /\ UNCHANGED unjudged
     ELSE Goto("handler", "reset") /\ unjudged' = {}
  /\ UNCHANGED <<flag, errorType, FilterVars, HaltVars, clientConnected>>

\* Second test: the filter lets the evaluator's error by, or not.
JudgeError ==
  /\ At("handler", "judge")
  /\ unjudged' = {}
  /\ IF errorType \in filter
     THEN Halt("handler")
     ELSE Goto("handler", "reset") /\ UNCHANGED HaltVars
  /\ UNCHANGED <<flag, errorType, FilterVars, clientConnected>>

\* waitForErrorHandler = false.
Reset ==
  /\ At("handler", "reset")
  /\ flag' = FALSE
  /\ Goto("handler", "poll")
  /\ UNCHANGED <<unjudged, errorType, FilterVars, HaltVars, clientConnected>>

-----------------------------------------------------------------------------
(***************************************************************************)
(* The network thread.  One client at a time: a bound.                     *)
(***************************************************************************)
NetIdle == At("net", "idle")
NetCommand == NetIdle /\ clientConnected

\* BPContinue with one of the step types or without.
NetContinue(step) ==
  /\ NetCommand
  /\ CommandContinue(step)
  /\ UNCHANGED <<pc, Handshake, errorType, FilterVars, clientConnected>>

\* haltNow.
NetPause ==
  /\ NetCommand
  /\ state' = "waitForHalt"
  /\ UNCHANGED <<pc, event, released, nested, Handshake, errorType,
                 FilterVars, clientConnected>>

\* Mutant: the old filter is not cleared.
NetSetFilterMerges(wanted) ==
  /\ NetCommand
  /\ todo' = wanted /\ asked' = wanted /\ cut' = FALSE
  /\ Goto("net", "filter")
  /\ UNCHANGED <<filter, Handshake, errorType, HaltVars, clientConnected>>

\* SetExceptionFilter: first every bit is cleared ...
NetSetFilter(wanted) ==
  /\ NetCommand
  /\ filter' = {}
  /\ todo' = wanted /\ asked' = wanted /\ cut' = FALSE
  /\ Goto("net", "filter")
  /\ UNCHANGED <<Handshake, errorType, HaltVars, clientConnected>>

\* ... then the entries set theirs, one by one.
NetFilterAdd ==
  /\ At("net", "filter") /\ todo # {}
  /\ \E e \in todo : filter' = filter \cup {e} /\ todo' = todo \ {e}
  /\ UNCHANGED <<pc, asked, cut, Handshake, errorType, HaltVars,
                 clientConnected>>

NetFilterDone ==
  /\ At("net", "filter") /\ todo = {}
  /\ Goto("net", "idle")
  /\ UNCHANGED <<Handshake, errorType, FilterVars, HaltVars, clientConnected>>

\* An entry that is no number throws; the command's catch ends it there.
NetFilterAbort ==
  /\ At("net", "filter")
  /\ cut' = TRUE /\ todo' = {}
  /\ Goto("net", "idle")
  /\ UNCHANGED <<filter, asked, Handshake, errorType, HaltVars,
                 clientConnected>>

\* ExecuteCode: executeScriptInHalt evaluates the code on this thread.
NetExecute ==
  /\ NetCommand /\ MayExecute
  /\ Nice => state = "breakState"
  /\ Goto("net", "exec")
  /\ UNCHANGED <<Handshake, errorType, FilterVars, HaltVars, clientConnected>>

\* It has run to its end and the result is sent.  Bound: an execution meets
\* at most one error or halt.
NetFinish ==
  /\ At("net", "exec") \/ At("net", "after")
  /\ Goto("net", "idle")
  /\ UNCHANGED <<Handshake, errorType, FilterVars, HaltVars, clientConnected>>

\* The client connects.
NetOpen ==
  /\ NetIdle /\ ~clientConnected
  /\ clientConnected' = TRUE
  /\ UNCHANGED <<pc, Handshake, errorType, FilterVars, HaltVars>>

\* The last client leaves, which continues the game.
NetClose ==
  /\ NetIdle /\ clientConnected
  /\ clientConnected' = FALSE
  /\ CommandContinue(FALSE)
  /\ UNCHANGED <<pc, Handshake, errorType, FilterVars>>

-----------------------------------------------------------------------------
Request(t) == \/ \E e \in Bits : OnScriptError(t, e)
              \/ DumpStack(t)
              \/ HaltHere(t)

Handler == Wake \/ TestClient \/ JudgeError \/ Reset

NetFilterStep == NetFilterAdd \/ NetFilterDone

Net ==
  \/ \E step \in BOOLEAN : NetContinue(step)
  \/ NetPause
  \/ \E wanted \in SUBSET Bits : NetSetFilter(wanted)
  \/ NetFilterStep
  \/ NetFilterAbort
  \/ NetExecute
  \/ NetFinish
  \/ NetOpen
  \/ NetClose

Next ==
  \/ \E t \in Requesters : Request(t) \/ SpinEnds(t)
  \/ \E t \in Threads : Resume(t)
  \/ Handler
  \/ Net

\* The threads run.  What comes from outside, the client's commands, errors
\* and breakpoints, need not happen; code that executes comes to its end.
Fairness ==
  /\ WF_vars(Handler)
  /\ \A t \in Threads : WF_vars(Resume(t))
  /\ \A t \in Requesters : WF_vars(SpinEnds(t))
  /\ WF_vars(NetFilterStep)
  /\ WF_vars(NetFinish)

Spec == Init /\ [][Next]_vars /\ Fairness

-----------------------------------------------------------------------------
\* Every variable has its type.
TypeOK ==
  /\ pc \in [Threads -> UNION {Labels(t) : t \in Threads}]
  /\ \A t \in Threads : pc[t] \in Labels(t)
  /\ flag \in BOOLEAN /\ unjudged \subseteq Requesters
  /\ errorType \in Bits
  /\ filter \subseteq Bits /\ todo \subseteq Bits /\ asked \subseteq Bits
  /\ cut \in BOOLEAN
  /\ event \in Threads \cup {"none"} /\ released \subseteq Threads
  /\ nested \subseteq Threads
  /\ state \in States
  /\ clientConnected \in BOOLEAN

\* While the handler is between its poll and its reset, the flag is up and
\* some thread waits for it: the evaluator and the context the handler reads
\* in onScriptError, and shows to the client, belong to a waiting thread.
HandlerHoldsRequest ==
  ~At("handler", "poll") => flag /\ Spinning # {}

\* A request that found the flag down is never let go without a verdict: the
\* error is shown to the client, filtered out, or the stack is dumped.  (One
\* that found the flag up may share the fate of the request before it.)
FirstRequestIsJudged ==
  [][\A t \in Requesters : At(t, "spin") /\ pc'[t] # "spin"
                             => t \notin unjudged]_vars

\* The next continue command reaches a thread that is halted, and a halt that
\* overlapped no other can always be reached: no thread is left waiting on an
\* event nobody holds unless halts were nested.
ContinueReachesHalts ==
  /\ event # "none" => At(event, "halted")
  /\ \A t \in Halted \ (nested \cup released) : event = t

\* Whatever the handler reads while the network thread rebuilds the filter,
\* it halts only on errors the last SetExceptionFilter named, and it skips
\* an error it named only while the filter is being rebuilt or was cut short.
FilterDecides ==
  [][At("handler", "judge") =>
       /\ pc'["handler"] = "halted" => errorType \in asked
       /\ pc'["handler"] = "reset" /\ errorType \in asked
            => At("net", "filter") \/ cut]_vars

\* A thread that waits alone is let go, if nobody joins it, unless the handler
\* has halted on its behalf and nobody continues.
LoneRequestIsAnswered ==
  \A t \in Requesters :
    Spinning = {t} ~> Spinning # {t} \/ At("handler", "halted")

\* The rounds that the flag, the spinning threads and the handler stand for.
Contract == INSTANCE ErrorContract WITH
  Askers <- Requesters,
  waiting <- Spinning,
  open <- flag,
  judged <- pc["handler"] \in {"halted", "reset"},
  held <- At("handler", "halted")

\* One flag between all who ask and the thread that answers: however requests,
\* polls, filters, halts and commands interleave, each round of requests is
\* judged exactly once, and nobody is let go before its round has ended.
ImplementsContract == Contract!Spec

\* Executes code while halted, in current context and returns result (the
\* comment on ExecuteCode in NetworkController.h).
ExecuteReturns == At("net", "exec") ~> At("net", "idle")
=============================================================================
