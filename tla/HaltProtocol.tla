---------------------------- MODULE HaltProtocol ----------------------------
(***************************************************************************)
(* Halting and resuming the game: the protocol between the thread that     *)
(* executes SQF scripts ("engine"), which halts itself in                  *)
(* BPAction_Halt::execute, and the thread that serves the debug clients    *)
(* ("net"), which runs NetworkController's slots and incomingMessage.      *)
(* The two share Debugger::state, breakStateContinueEvent and              *)
(* breakStateInfo without any lock, so every access to a shared variable   *)
(* is a step of its own.  Memory is sequentially consistent.               *)
(*                                                                         *)
(* A script error halts on the error-handler thread while the script       *)
(* thread spins until it is done (EngineHook.cpp:802-805); only one of the *)
(* two moves, so "engine" stands for both.                                 *)
(***************************************************************************)
EXTENDS Naturals

CONSTANTS
  MaxConns,       \* bound: connections open at a time
  Requests,       \* the kinds of commands the clients use
  Eager,          \* may clients send commands without having seen a halt
  MayDisconnect,  \* may connections close
  LateAttach      \* may clients connect while scripts are running

RequestKinds == {"continue", "step", "query", "haltNow"}

ASSUME ConstantsAssumption ==
  /\ MaxConns \in Nat \ {0}
  /\ Requests \subseteq RequestKinds
  /\ Eager \in BOOLEAN /\ MayDisconnect \in BOOLEAN /\ LateAttach \in BOOLEAN

VARIABLES
  pc,               \* the next access of each thread
  state,            \* Debugger::state
  event,            \* breakStateContinueEvent is not null
  second,           \* the flag of the current halt's event
  info,             \* breakStateInfo.instruction: null, or its instruction
                    \* member is null ("bare") or not ("live")
  haltInfo,         \* the DebuggerInstructionInfo of the current or last halt
  cmd,              \* the StepType "net" handles or handled last
  conns,            \* number of open connections
  clientConnected,  \* NetworkController::clientConnected
  note,             \* the halt notification: "none" open, "sent", "seen"
  crash             \* which null pointer the process has followed

vars == <<pc, state, event, second, info, haltInfo, cmd, conns,
          clientConnected, note, crash>>

Threads == {"engine", "net"}
States == {"Uninitialized", "running", "breakState", "stepState", "waitForHalt"}

\* The accesses of Debugger::commandContinue, which both threads call.
CommandLabels == {"ccState", "ccResume", "ccInfo", "ccNoStep", "ccFrame",
                  "ccEvent", "ccNotify", "ccFlag", "ccSend"}
\* BPAction_Halt::execute: onHalt, the wait loop, onContinue.
OnHaltLabels == {"publish", "setState", "setInfo", "sendHalt", "checkClient"}
WaitLabels == {"test", "park", "blocked", "alive"}
OnContinueLabels == {"dropEvent", "dropInfo"}
ScriptLabels == {"startup", "started", "run", "checkStep", "checkBreak"}
EngineLabels == ScriptLabels \cup OnHaltLabels \cup WaitLabels
                  \cup OnContinueLabels \cup CommandLabels
NetLabels == {"idle", "opened", "closed", "qState", "qInfo"} \cup CommandLabels

(***************************************************************************)
(* Debugger's members start Uninitialized and null.                        *)
(***************************************************************************)
Init ==
  /\ pc = [t \in Threads |-> IF t = "engine" THEN "startup" ELSE "idle"]
  /\ state = "Uninitialized"
  /\ event = FALSE
  /\ second = FALSE
  /\ info = "null"
  /\ haltInfo = "bare"
  /\ cmd = "continue"
  /\ conns = 0
  /\ clientConnected = FALSE
  /\ note = "none"
  /\ crash = "none"

At(t, label) == pc[t] = label
Goto(t, label) == pc' = [pc EXCEPT ![t] = label]
Session == <<cmd, conns, clientConnected>>   \* written by "net" only

-----------------------------------------------------------------------------
(***************************************************************************)
(* The engine executes scripts.                                            *)
(***************************************************************************)

\* Debugger::onStartup: nController.init() has started the network thread, and
\* then the state becomes running.  A pause that was asked for in between is lost.
EngStartup ==
  /\ At("engine", "startup")
  /\ state' = "running"
  /\ Goto("engine", "started")
  /\ UNCHANGED <<event, second, info, haltInfo, note, crash, Session>>

\* The first hooked instruction.  Without LateAttach the user has attached, as
\* early as the network thread runs.
EngFirstScript ==
  /\ At("engine", "started")
  /\ LateAttach \/ clientConnected
  /\ Goto("engine", "run")
  /\ UNCHANGED <<state, event, second, info, haltInfo, note, crash, Session>>

\* Mutant: the event of the last halt is used again, its flag still set.
EnterHaltStaleFlag(i) ==
  /\ haltInfo' = i
  /\ Goto("engine", "publish")
  /\ UNCHANGED <<state, event, second, info, note, crash, Session>>

\* BPAction_Halt::execute up to the call of onHalt: a new event, not set.
EnterHalt(i) ==
  /\ haltInfo' = i
  /\ second' = FALSE
  /\ Goto("engine", "publish")
  /\ UNCHANGED <<state, event, info, note, crash, Session>>

\* onInstruction, first test of checkForBreakpoint: a pause request halts.
EngInstruction ==
  /\ At("engine", "run")
  /\ IF state = "waitForHalt"
     THEN EnterHalt("bare")
     ELSE /\ Goto("engine", "checkStep")
          /\ UNCHANGED <<state, event, second, info, haltInfo, note, crash, Session>>

\* The script commands assert and halt, or a script error the filter lets by.
EngScriptHalt ==
  /\ At("engine", "run")
  /\ EnterHalt("bare")

\* Second test: a step is armed, and its target may be reached here or not.
EngCheckStep ==
  /\ At("engine", "checkStep")
  /\ \/ /\ state = "stepState"
        /\ EnterHalt("live")
     \/ /\ Goto("engine", "checkBreak")
        /\ UNCHANGED <<state, event, second, info, haltInfo, note, crash, Session>>

\* The breakpoint lookup: one matches and halts, or none does.
EngCheckBreak ==
  /\ At("engine", "checkBreak")
  /\ \/ EnterHalt("live")
     \/ /\ Goto("engine", "run")
        /\ UNCHANGED <<state, event, second, info, haltInfo, note, crash, Session>>

-----------------------------------------------------------------------------
(***************************************************************************)
(* Debugger::onHalt, the wait loop of BPAction_Halt::execute, onContinue.  *)
(***************************************************************************)

EngPublish ==
  /\ At("engine", "publish")
  /\ event' = TRUE
  /\ Goto("engine", "setState")
  /\ UNCHANGED <<state, second, info, haltInfo, note, crash, Session>>

EngSetState ==
  /\ At("engine", "setState")
  /\ state' = "breakState"
  /\ Goto("engine", "setInfo")
  /\ UNCHANGED <<event, second, info, haltInfo, note, crash, Session>>

EngSetInfo ==
  /\ At("engine", "setInfo")
  /\ info' = haltInfo
  /\ Goto("engine", "sendHalt")
  /\ UNCHANGED <<state, event, second, haltInfo, note, crash, Session>>

\* The halt message goes to every connection there is.  A client that holds
\* an unanswered notification still believes the game is halted.
EngSendHalt ==
  /\ At("engine", "sendHalt")
  /\ note' = IF conns = 0 THEN "none" ELSE IF note = "seen" THEN "seen" ELSE "sent"
  /\ Goto("engine", "checkClient")
  /\ UNCHANGED <<state, event, second, info, haltInfo, crash, Session>>

\* Mutant: the test of isClientConnected is gone.
EngCheckClientDropped ==
  /\ At("engine", "checkClient")
  /\ Goto("engine", "ccState")
  /\ UNCHANGED <<state, event, second, info, haltInfo, note, crash, Session>>

\* Nobody is connected: the engine calls commandContinue(STContinue) itself.
EngCheckClient ==
  /\ At("engine", "checkClient")
  /\ Goto("engine", IF clientConnected THEN "test" ELSE "ccState")
  /\ UNCHANGED <<state, event, second, info, haltInfo, note, crash, Session>>

\* wait_for evaluates its predicate, then blocks: two steps, because the
\* thread that sets the flag does not hold waitMutex.
EngTest ==
  /\ At("engine", "test")
  /\ Goto("engine", IF second THEN "alive" ELSE "park")
  /\ UNCHANGED <<state, event, second, info, haltInfo, note, crash, Session>>

EngPark ==
  /\ At("engine", "park")
  /\ Goto("engine", "blocked")
  /\ UNCHANGED <<state, event, second, info, haltInfo, note, crash, Session>>

\* Mutant: wait instead of wait_for.
EngTimeoutNever == At("engine", "blocked") /\ FALSE /\ UNCHANGED vars

\* One second has passed.
EngTimeout ==
  /\ At("engine", "blocked")
  /\ Goto("engine", "alive")
  /\ UNCHANGED <<state, event, second, info, haltInfo, note, crash, Session>>

\* EngineAlive, then the loop's own test of the flag.
EngAlive ==
  /\ At("engine", "alive")
  /\ Goto("engine", IF second THEN "dropEvent" ELSE "test")
  /\ UNCHANGED <<state, event, second, info, haltInfo, note, crash, Session>>

EngDropEvent ==
  /\ At("engine", "dropEvent")
  /\ event' = FALSE
  /\ Goto("engine", "dropInfo")
  /\ UNCHANGED <<state, second, info, haltInfo, note, crash, Session>>

\* Mutant: onContinue forgets the instruction.
EngDropInfoForgotten ==
  /\ At("engine", "dropInfo")
  /\ Goto("engine", "run")
  /\ UNCHANGED <<state, event, second, info, haltInfo, note, crash, Session>>

\* Mutant: onContinue takes it on itself to say that the game runs.
EngDropInfoSetsRunning ==
  /\ At("engine", "dropInfo")
  /\ info' = "null" /\ state' = "running"
  /\ Goto("engine", "run")
  /\ UNCHANGED <<event, second, haltInfo, note, crash, Session>>

EngDropInfo ==
  /\ At("engine", "dropInfo")
  /\ info' = "null"
  /\ Goto("engine", "run")
  /\ UNCHANGED <<state, event, second, haltInfo, note, crash, Session>>

-----------------------------------------------------------------------------
(***************************************************************************)
(* Debugger::commandContinue(stepType), run by thread t.                   *)
(***************************************************************************)

StepType(t) == IF t = "engine" THEN "continue" ELSE cmd

CCState(t) ==
  /\ At(t, "ccState")
  /\ Goto(t, IF state \in {"running", "Uninitialized"} THEN "ccSend" ELSE "ccResume")
  /\ UNCHANGED <<state, event, second, info, haltInfo, note, crash, Session>>

\* Mutant: the continue branch does not leave breakState.
CCResumeKeepsState(t) ==
  /\ At(t, "ccResume")
  /\ IF StepType(t) = "continue"
     THEN UNCHANGED state /\ Goto(t, "ccEvent")
     ELSE state' = "stepState" /\ Goto(t, "ccInfo")
  /\ UNCHANGED <<event, second, info, haltInfo, note, crash, Session>>

\* Mutant: the step type is stored in the wrong member.
CCResumeWrongMember(t) ==
  /\ At(t, "ccResume")
  /\ state' = StepType(t)
  /\ Goto(t, IF StepType(t) = "continue" THEN "ccEvent" ELSE "ccInfo")
  /\ UNCHANGED <<event, second, info, haltInfo, note, crash, Session>>

CCResume(t) ==
  /\ At(t, "ccResume")
  /\ IF StepType(t) = "continue"
     THEN state' = "running" /\ Goto(t, "ccEvent")
     ELSE state' = "stepState" /\ Goto(t, "ccInfo")
  /\ UNCHANGED <<event, second, info, haltInfo, note, crash, Session>>

\* Mutant: the test for an instruction is inverted.
CCInfoInverted(t) ==
  /\ At(t, "ccInfo")
  /\ Goto(t, IF info = "live" THEN "ccNoStep" ELSE "ccFrame")
  /\ UNCHANGED <<state, event, second, info, haltInfo, note, crash, Session>>

\* Stepping needs the instruction the engine halted at.
CCInfo(t) ==
  /\ At(t, "ccInfo")
  /\ Goto(t, IF info = "live" THEN "ccFrame" ELSE "ccNoStep")
  /\ UNCHANGED <<state, event, second, info, haltInfo, note, crash, Session>>

CCNoStep(t) ==
  /\ At(t, "ccNoStep")
  /\ state' = "running"
  /\ Goto(t, "ccEvent")
  /\ UNCHANGED <<event, second, info, haltInfo, note, crash, Session>>

\* stepInfo is read off *breakStateInfo.instruction.
CCFrame(t) ==
  /\ At(t, "ccFrame")
  /\ IF info = "null"
     THEN crash' = "instruction" /\ UNCHANGED pc
     ELSE Goto(t, "ccEvent") /\ UNCHANGED crash
  /\ UNCHANGED <<state, event, second, info, haltInfo, note, Session>>

CCEvent(t) ==
  /\ At(t, "ccEvent")
  /\ Goto(t, IF event THEN "ccNotify" ELSE "ccSend")
  /\ UNCHANGED <<state, event, second, info, haltInfo, note, crash, Session>>

\* breakStateContinueEvent->first.notify_all()
CCNotify(t) ==
  /\ At(t, "ccNotify")
  /\ IF event
     THEN /\ pc' = [u \in Threads |-> CASE u = t -> "ccFlag"
                                        [] pc[u] = "blocked" -> "test"
                                        [] OTHER -> pc[u]]
          /\ UNCHANGED crash
     ELSE crash' = "event" /\ UNCHANGED pc
  /\ UNCHANGED <<state, event, second, info, haltInfo, note, Session>>

\* breakStateContinueEvent->second = true
CCFlag(t) ==
  /\ At(t, "ccFlag")
  /\ IF event
     THEN second' = TRUE /\ Goto(t, "ccSend") /\ UNCHANGED crash
     ELSE crash' = "event" /\ UNCHANGED <<second, pc>>
  /\ UNCHANGED <<state, event, info, haltInfo, note, Session>>

\* The acknowledgement; the engine goes on to its wait loop.
CCSend(t) ==
  /\ At(t, "ccSend")
  /\ Goto(t, IF t = "engine" THEN "test" ELSE "idle")
  /\ UNCHANGED <<state, event, second, info, haltInfo, note, crash, Session>>

CommandContinue(t) ==
  \/ CCState(t) \/ CCResume(t) \/ CCInfo(t) \/ CCNoStep(t) \/ CCFrame(t)
  \/ CCEvent(t) \/ CCNotify(t) \/ CCFlag(t) \/ CCSend(t)

-----------------------------------------------------------------------------
(***************************************************************************)
(* The network thread: connection handlers and client commands.            *)
(***************************************************************************)

NetOpen ==
  /\ At("net", "idle") /\ conns < MaxConns
  /\ LateAttach \/ pc["engine"] \in {"startup", "started"}
  /\ conns' = conns + 1
  /\ Goto("net", "opened")
  /\ UNCHANGED <<state, event, second, info, haltInfo, cmd, clientConnected, note, crash>>

NetOpened ==
  /\ At("net", "opened")
  /\ clientConnected' = TRUE
  /\ Goto("net", "idle")
  /\ UNCHANGED <<state, event, second, info, haltInfo, cmd, conns, note, crash>>

NetClose ==
  /\ MayDisconnect
  /\ At("net", "idle") /\ conns > 0
  /\ conns' = conns - 1
  /\ note' = IF conns' = 0 THEN "none" ELSE note
  /\ Goto("net", "closed")
  /\ UNCHANGED <<state, event, second, info, haltInfo, cmd, clientConnected, crash>>

\* Mutant: the slot only records that the last client is gone.
NetClosedSilently ==
  /\ At("net", "closed")
  /\ clientConnected' = (conns > 0)
  /\ Goto("net", "idle")
  /\ UNCHANGED <<state, event, second, info, haltInfo, cmd, conns, note, crash>>

\* The last client is gone: whatever is halted has to continue.
NetClosed ==
  /\ At("net", "closed")
  /\ clientConnected' = (conns > 0)
  /\ IF conns > 0
     THEN Goto("net", "idle") /\ UNCHANGED cmd
     ELSE Goto("net", "ccState") /\ cmd' = "continue"
  /\ UNCHANGED <<state, event, second, info, haltInfo, conns, note, crash>>

\* A client learns that the game has halted.
ClientSeesHalt ==
  /\ note = "sent"
  /\ note' = "seen"
  /\ UNCHANGED <<pc, state, event, second, info, haltInfo, crash, Session>>

\* A patient client answers the halt it has seen, once.
MaySend(kind) ==
  /\ kind \in Requests /\ conns > 0
  /\ At("net", "idle")
  /\ Eager \/ note = "seen"

\* incomingMessage: BPContinue, with its StepType.
NetContinue ==
  /\ \E kind \in {"continue", "step"} : MaySend(kind) /\ cmd' = kind
  /\ note' = "none"
  /\ Goto("net", "ccState")
  /\ UNCHANGED <<state, event, second, info, haltInfo, conns, clientConnected, crash>>

\* incomingMessage: getVariable and getCurrentCode.
NetQuery ==
  /\ MaySend("query")
  /\ Goto("net", "qState")
  /\ UNCHANGED <<state, event, second, info, haltInfo, note, crash, Session>>

NetQueryState ==
  /\ At("net", "qState")
  /\ Goto("net", IF state = "breakState" THEN "qInfo" ELSE "idle")
  /\ UNCHANGED <<state, event, second, info, haltInfo, note, crash, Session>>

NetQueryInfo ==
  /\ At("net", "qInfo")
  /\ IF info = "null"
     THEN crash' = "instruction" /\ UNCHANGED pc
     ELSE Goto("net", "idle") /\ UNCHANGED crash
  /\ UNCHANGED <<state, event, second, info, haltInfo, note, Session>>

\* incomingMessage: haltNow.  A patient client asks while it believes that
\* the game runs; the halt notification may be on its way.
NetHaltNow ==
  /\ "haltNow" \in Requests /\ conns > 0
  /\ At("net", "idle")
  /\ Eager \/ note # "seen"
  /\ state' = "waitForHalt"
  /\ UNCHANGED <<pc, event, second, info, haltInfo, note, crash, Session>>

-----------------------------------------------------------------------------
EngineStep ==
  \/ EngStartup \/ EngFirstScript \/ EngInstruction \/ EngScriptHalt
  \/ EngCheckStep \/ EngCheckBreak
  \/ EngPublish \/ EngSetState \/ EngSetInfo \/ EngSendHalt \/ EngCheckClient
  \/ EngTest \/ EngPark \/ EngTimeout \/ EngAlive \/ EngDropEvent \/ EngDropInfo
  \/ CommandContinue("engine")

\* The network thread is never idle inside a handler.
NetStep ==
  \/ NetOpened \/ NetClosed \/ NetQueryState \/ NetQueryInfo
  \/ CommandContinue("net")

\* What the users do: connect, leave, look and send commands.
UserStep ==
  \/ NetOpen \/ NetClose \/ ClientSeesHalt
  \/ NetContinue \/ NetQuery \/ NetHaltNow

\* A process that followed a null pointer is gone.
EngineNext == crash = "none" /\ EngineStep
NetNext == crash = "none" /\ NetStep
UserNext == crash = "none" /\ UserStep

Next == EngineNext \/ NetNext \/ UserNext

\* The operating system schedules both threads, and the wait times out after
\* a second; nothing makes a user connect, look at the halt or answer it.
Spec == Init /\ [][Next]_vars /\ WF_vars(EngineNext) /\ WF_vars(NetNext)

-----------------------------------------------------------------------------
TypeOK ==
  /\ pc \in [Threads -> EngineLabels \cup NetLabels]
  /\ pc["engine"] \in EngineLabels /\ pc["net"] \in NetLabels
  /\ state \in States
  /\ event \in BOOLEAN /\ second \in BOOLEAN
  /\ info \in {"null", "bare", "live"} /\ haltInfo \in {"bare", "live"}
  /\ cmd \in {"continue", "step"}
  /\ conns \in 0..MaxConns /\ clientConnected \in BOOLEAN
  /\ note \in {"none", "sent", "seen"}
  /\ crash \in {"none", "instruction", "event"}

Waiting == pc["engine"] \in {"checkClient"} \cup WaitLabels

\* A command or query never follows breakStateInfo.instruction or
\* breakStateContinueEvent after the engine has reset it (or before it has
\* set it): the checks in commandContinue, getVariables and grabCurrentCode
\* are separate from the uses they guard.
NoNullDereference == crash = "none"

\* What the client has been told is true: from the moment onHalt sends the
\* notification until the client answers it, the engine is in its wait loop,
\* its event is published and no answer has been recorded for it.
NotifiedMeansHalted ==
  note # "none" => Waiting /\ event /\ ~second /\ info = haltInfo

\* Debugger::state says breakState only while a halt that has not been
\* answered is in progress.  Queries rely on it to know that
\* breakStateInfo.instruction points into the halted frame.
BreakStateIsHalted ==
  state = "breakState" =>
    /\ event /\ ~second
    /\ pc["engine"] \in {"setInfo", "sendHalt"} \cup {"checkClient"} \cup WaitLabels

\* Once the halt is over state no longer says breakState, and the next query
\* finds "Not in breakState" instead of a null instruction.
BreakStateEnds ==
  pc["engine"] \in {"run", "checkStep", "checkBreak"} => state # "breakState"

\* breakStateInfo.instruction is the address of an argument of the halt that
\* set it: it is null again before BPAction_Halt::execute returns.
NoDanglingInstruction ==
  info # "null" => pc["engine"] \notin ScriptLabels \cup {"publish", "setState", "setInfo"}

\* A step command given at an instruction is still armed when the script runs
\* on, unless a pause request has replaced it.
StepIsArmed ==
  (/\ pc["engine"] \in {"run", "checkStep", "checkBreak", "dropEvent", "dropInfo"}
   /\ cmd = "step" /\ haltInfo = "live")
     => state \in {"stepState", "waitForHalt"}

\* A client that has seen the halt and asks for variables or code gets an
\* answer: the state test of the query succeeds.
SeenHaltServesQueries ==
  pc["net"] = "qState" /\ note = "seen" => state = "breakState"

\* Whatever the clients do, a pause request is dropped only by a halt or by a
\* continue or step command, with one exception: a client that connects while
\* onStartup is still running loses the pause it asks for then ("Triggers halt
\* on next possible instruction", NetworkController.h, is not true of it).
PauseIsKept ==
  [][state = "waitForHalt" /\ state' # "waitForHalt" =>
       \/ pc["engine"] \in {"startup", "setState"}
       \/ \E t \in Threads : pc[t] = "ccResume"]_vars

\* "Triggers halt on next possible instruction" (NetworkController.h): a pause
\* request is never dropped while the debugger starts.  It is.
EarlyPauseIsKept ==
  [][pc["engine"] = "startup" /\ state = "waitForHalt" => state' = "waitForHalt"]_vars

\* A continue or step command handled while the engine is halted ends that
\* halt, although notify_all comes before the flag and without the mutex.
AnsweredHaltEnds ==
  (pc["net"] = "ccState" /\ event) ~> (~event \/ crash # "none")

\* A halt that nobody is connected to see does not freeze the game: either the
\* engine notices in onHalt or the closing connection continues it.
AbandonedHaltEnds ==
  (event /\ pc["engine"] \in WaitLabels /\ ~clientConnected)
    ~> (~event \/ clientConnected \/ crash # "none")

-----------------------------------------------------------------------------
\* The halt contract: a halt lasts as long as its event is published.
Contract == INSTANCE HaltContract WITH
  mode <- IF event THEN "halted" ELSE "running",
  released <- event /\ second,
  serving <- \E t \in Threads : pc[t] \in CommandLabels \cup {"qInfo"},
  dead <- crash # "none"

\* Under every client, with connections coming and going, the protocol
\* implements the contract: no halt ends without a command for it, no release
\* leaks into the next halt, and a released halt ends.
ImplementsContract == Contract!Spec
=============================================================================
