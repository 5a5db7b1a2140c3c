------------------------------ MODULE Commands ------------------------------
(***************************************************************************)
(* The commands of the debug clients and the locks they meet.  The network *)
(* thread ("net") runs NetworkController::incomingMessage and the open and *)
(* close handlers of WebSocketServer.cpp; the game thread ("game") runs    *)
(* scripts and sends messages of its own.  Two locks order them:           *)
(*   - m_connection_lock, a std::mutex, held over every broadcast;         *)
(*   - the invoker lock of the Intercept host (external): the game thread  *)
(*     holds it while scripts run or are halted and gives it up between    *)
(*     frames; who wants to run a script command takes it.                 *)
(* server.send throws for a connection that is not open (external).        *)
(*                                                                         *)
(* The tests and writes of a halt or a continue are one step each here;    *)
(* HaltProtocol takes them apart.  A halt of code that the network thread  *)
(* itself runs ends here with its wait, which nothing ends; what it still  *)
(* sends before is the subject of ErrorHandshake.                          *)
(***************************************************************************)
EXTENDS Naturals, FiniteSets

CONSTANTS
  Conns,   \* connections that may be open at the same time: a bound
  Kinds,   \* the kinds of commands that occur
  Modes,   \* how the clients behave
  Reentrant  \* whether the thread that has the invoker lock gets it again

\* "functions" is FetchAllFunctionsInNamespace with the profile namespace;
\* without it the command meets the locks as LoadFile does.
EngineCommands == {"loadFile", "available", "functions"}

CommandKinds == {"plain", "silent", "bad", "continue", "haltNow", "profile",
                 "execute"} \cup EngineCommands

(***************************************************************************)
(* "debug": clients attach before scripts run, send no haltNow, and        *)
(* continue, use the engine or execute code only if the last they were     *)
(* told is that the game has halted ("please be nice").                    *)
(* "pause": they halt, continue and execute code whenever they like, but   *)
(* use no command that tests the state for the invoker lock.               *)
(* "browse": nothing ever halts.  "careless": none of these.               *)
(***************************************************************************)
ASSUME CommandsAssumption ==
  /\ IsFiniteSet(Conns)
  /\ Kinds \subseteq CommandKinds
  /\ Modes \subseteq {"debug", "pause", "browse", "careless"}
  /\ Reentrant \in BOOLEAN

VARIABLES
  mode,             \* the behaviour of the clients in this session
  pc, msg,          \* what each thread does; the message it sends
  owner, left,      \* m_connection_lock; connections its holder has left
  invoker, guards,  \* who holds the invoker lock; net's invoker_lock objects
  conn,             \* state of each connection, as the library knows it
  connections,      \* the server's set
  clientConnected,  \* NetworkController::clientConnected
  state,            \* Debugger::state
  event, released,  \* breakStateContinueEvent, and its flag
  cmd,              \* the command "net" needs the engine for
  seen,             \* history: connections last told that the game halted
  overtaken         \* history: halts since the continue not yet acknowledged

vars == <<mode, pc, msg, owner, left, invoker, guards, conn, connections,
          clientConnected, state, event, released, cmd, seen, overtaken>>

Threads == {"game", "net"}
GameLabels == {"startup", "run", "frame", "checkClient", "wait", "lock",
               "sending", "crashed"}
NetLabels == {"idle", "openLock", "opened", "closeLock", "closed",
              "needInvoker", "waitInvoker", "needAgain", "waitAgain",
              "engine", "codeWaits", "lock", "sending", "stopped"}
Messages == {"none", "halt", "ack", "echo", "reply", "exception"}

Locks == <<owner, left>>
Invoker == <<invoker, guards>>
Session == <<conn, connections, clientConnected>>
HaltVars == <<state, event, released>>
History == <<seen, overtaken>>

Init ==
  /\ mode \in Modes
  /\ pc = [t \in Threads |-> IF t = "game" THEN "startup" ELSE "idle"]
  /\ msg = [t \in Threads |-> "none"]
  /\ owner = "none" /\ left = {} /\ invoker = "game" /\ guards = {}
  /\ conn = [c \in Conns |-> "absent"] /\ connections = {}
  /\ clientConnected = FALSE
  /\ state = "running" /\ event = FALSE /\ released = FALSE
  /\ cmd = "none"
  /\ seen = {} /\ overtaken = 0

At(t, label) == pc[t] = label
Alive == ~At("game", "crashed")
Goto(t, label) == pc' = [pc EXCEPT ![t] = label]
Send(t, m) == Goto(t, "lock") /\ msg' = [msg EXCEPT ![t] = m]
HaltsOccur == mode # "browse"

\* The destructors of some invoker_lock objects of the network thread.
Release(objects) ==
  /\ guards' = guards \ objects
  /\ invoker' = IF guards # {} /\ guards \subseteq objects THEN "free" ELSE invoker

-----------------------------------------------------------------------------
(***************************************************************************)
(* WebSocketServer::writeMessage: the broadcast, on either thread.         *)
(***************************************************************************)
LockConnections(t) ==
  /\ At(t, "lock") /\ owner = "none"
  /\ owner' = t /\ left' = connections
  /\ Goto(t, "sending")
  /\ UNCHANGED <<mode, msg, Invoker, Session, HaltVars, cmd, History>>

\* server.send to an open connection.
SendOne(t, c) ==
  /\ At(t, "sending") /\ owner = t /\ c \in left /\ conn[c] = "open"
  /\ left' = left \ {c}
  /\ seen' = CASE msg[t] = "halt" -> seen \cup {c}
               [] msg[t] = "ack"  -> seen \ {c}
               [] OTHER -> seen
  /\ UNCHANGED <<mode, pc, msg, owner, Invoker, Session, HaltVars, cmd,
                 overtaken>>

\* server.send to any other throws: nobody catches on the game thread, and
\* the catch block of incomingMessage broadcasts itself; what that throws
\* ends server.run() and with it the network thread.
SendThrows(t, c) ==
  /\ At(t, "sending") /\ owner = t /\ c \in left /\ conn[c] # "open"
  /\ owner' = "none" /\ left' = {}
  /\ CASE t = "game" -> Goto("game", "crashed") /\ UNCHANGED <<msg, Invoker>>
       [] t = "net" /\ msg[t] = "exception" ->
            Goto("net", "stopped") /\ UNCHANGED <<msg, Invoker>>
       [] OTHER -> Send("net", "exception") /\ Release(guards)
  /\ UNCHANGED <<mode, Session, HaltVars, cmd, History>>

\* Mutant: an acknowledgement is always followed by the wait of the halt.
SendEndsInWait(t) ==
  /\ At(t, "sending") /\ owner = t /\ left = {}
  /\ owner' = "none"
  /\ Goto(t, CASE msg[t] = "ack" -> "wait"
               [] t = "net" -> "idle"
               [] msg[t] = "halt" -> "checkClient"
               [] OTHER -> "run")
  /\ msg' = [msg EXCEPT ![t] = "none"]
  /\ IF t = "net" THEN Release(guards) ELSE UNCHANGED Invoker
  /\ UNCHANGED <<mode, left, Session, HaltVars, cmd, History>>

\* The guard's destructor; then the caller goes on.
SendEnds(t) ==
  /\ At(t, "sending") /\ owner = t /\ left = {}
  /\ owner' = "none"
  /\ Goto(t, CASE t = "net" -> "idle"
               [] t = "game" /\ msg[t] = "halt" -> "checkClient"
               [] t = "game" /\ msg[t] = "ack" -> "wait"
               [] OTHER -> "run")
  /\ msg' = [msg EXCEPT ![t] = "none"]
  /\ IF t = "net" THEN Release(guards) ELSE UNCHANGED Invoker
  /\ UNCHANGED <<mode, left, Session, HaltVars, cmd, History>>

-----------------------------------------------------------------------------
(***************************************************************************)
(* The game thread.                                                        *)
(***************************************************************************)
GameStarts ==
  /\ At("game", "startup")
  /\ mode = "debug" => clientConnected
  /\ Goto("game", "run")
  /\ UNCHANGED <<mode, msg, Locks, Invoker, Session, HaltVars, cmd, History>>

\* Between two frames the host lets others use the engine (external).
GameFrame ==
  /\ At("game", "run")
  /\ Goto("game", "frame") /\ invoker' = "free"
  /\ UNCHANGED <<mode, msg, Locks, guards, Session, HaltVars, cmd, History>>

GameNextFrame ==
  /\ At("game", "frame") /\ invoker = "free"
  /\ Goto("game", "run") /\ invoker' = "game"
  /\ UNCHANGED <<mode, msg, Locks, guards, Session, HaltVars, cmd, History>>

\* onScriptEcho, or a breakpoint whose action logs.
GameEcho ==
  /\ At("game", "run")
  /\ Send("game", "echo")
  /\ UNCHANGED <<mode, Locks, Invoker, Session, HaltVars, cmd, History>>

AckPending == msg["net"] = "ack" /\ pc["net"] \in {"lock", "sending"}

\* Mutant: the event of the last halt is used again, its flag still set.
GameHaltsStale ==
  /\ At("game", "run") /\ HaltsOccur
  /\ event' = TRUE /\ state' = "breakState"
  /\ seen' = {}
  /\ overtaken' = IF AckPending /\ clientConnected /\ overtaken < 2
                  THEN overtaken + 1 ELSE overtaken
  /\ Send("game", "halt")
  /\ UNCHANGED <<mode, Locks, Invoker, Session, released, cmd>>

\* BPAction_Halt::execute and onHalt, up to the notification.
GameHalts ==
  /\ At("game", "run") /\ HaltsOccur
  /\ event' = TRUE /\ released' = FALSE /\ state' = "breakState"
  /\ seen' = {}
  /\ overtaken' = IF AckPending /\ clientConnected /\ overtaken < 2
                  THEN overtaken + 1 ELSE overtaken
  /\ Send("game", "halt")
  /\ UNCHANGED <<mode, Locks, Invoker, Session, cmd>>

\* commandContinue up to its acknowledgement.
CommandContinue ==
  IF state = "running"
  THEN UNCHANGED HaltVars
  ELSE state' = "running" /\ released' = (released \/ event) /\ UNCHANGED event

\* onHalt's end: with no client the game continues itself.
GameChecksClient ==
  /\ At("game", "checkClient")
  /\ IF clientConnected
     THEN Goto("game", "wait") /\ UNCHANGED <<msg, HaltVars>>
     ELSE CommandContinue /\ Send("game", "ack")
  /\ UNCHANGED <<mode, Locks, Invoker, Session, cmd, History>>

\* The wait loop finds the flag set; onContinue.
GameResumes ==
  /\ At("game", "wait") /\ released
  /\ Goto("game", "run") /\ event' = FALSE
  /\ UNCHANGED <<mode, msg, Locks, Invoker, Session, state, released, cmd,
                 History>>

-----------------------------------------------------------------------------
(***************************************************************************)
(* The network thread: connections come and go.                            *)
(***************************************************************************)
NetIdle == Alive /\ At("net", "idle")

Connect(c) ==
  /\ NetIdle /\ conn[c] = "absent"
  /\ mode = "debug" => At("game", "startup") \/ clientConnected
  /\ conn' = [conn EXCEPT ![c] = "open"]
  /\ Goto("net", "openLock")
  /\ UNCHANGED <<mode, msg, Locks, Invoker, connections, clientConnected,
                 HaltVars, cmd, History>>

\* The open handler, under the lock: the new connection is the one that is
\* open and not in the set.
NetInserts ==
  /\ Alive /\ At("net", "openLock") /\ owner = "none"
  /\ connections' = connections \cup {c \in Conns : conn[c] = "open"}
  /\ Goto("net", "opened")
  /\ UNCHANGED <<mode, msg, Locks, Invoker, conn, clientConnected, HaltVars,
                 cmd, History>>

\* ... and after it, the slot of NetworkController::init.
NetOpened ==
  /\ Alive /\ At("net", "opened")
  /\ clientConnected' = TRUE
  /\ Goto("net", "idle")
  /\ UNCHANGED <<mode, msg, Locks, Invoker, conn, connections, HaltVars, cmd,
                 History>>

\* The closing handshake starts: the connection is no longer open, but the
\* close handler only runs when it is over.
PeerCloses(c) ==
  /\ NetIdle /\ conn[c] = "open"
  /\ conn' = [conn EXCEPT ![c] = "closing"]
  /\ UNCHANGED <<mode, pc, msg, Locks, Invoker, connections, clientConnected,
                 HaltVars, cmd, History>>

Disconnect(c) ==
  /\ NetIdle /\ conn[c] = "closing"
  /\ conn' = [conn EXCEPT ![c] = "absent"]
  /\ Goto("net", "closeLock")
  /\ UNCHANGED <<mode, msg, Locks, Invoker, connections, clientConnected,
                 HaltVars, cmd, History>>

\* Mutant: the lock is held until the slots have been called.
NetErasesLocked ==
  /\ Alive /\ At("net", "closeLock") /\ owner = "none"
  /\ connections' = {c \in connections : conn[c] # "absent"}
  /\ owner' = "net"
  /\ Goto("net", "closed")
  /\ UNCHANGED <<mode, msg, left, Invoker, conn, clientConnected, HaltVars,
                 cmd, History>>

\* The close handler, under the lock.
NetErases ==
  /\ Alive /\ At("net", "closeLock") /\ owner = "none"
  /\ connections' = {c \in connections : conn[c] # "absent"}
  /\ Goto("net", "closed")
  /\ UNCHANGED <<mode, msg, Locks, Invoker, conn, clientConnected, HaltVars,
                 cmd, History>>

\* ... and after it, the slot: the last one to leave continues the game.
NetClosed ==
  /\ Alive /\ At("net", "closed")
  /\ clientConnected' = (connections # {})
  /\ IF connections # {}
     THEN Goto("net", "idle") /\ UNCHANGED <<msg, HaltVars>>
     ELSE CommandContinue /\ Send("net", "ack")
  /\ overtaken' = 0
  /\ UNCHANGED <<mode, Locks, Invoker, conn, connections, cmd, seen>>

-----------------------------------------------------------------------------
(***************************************************************************)
(* The network thread: incomingMessage.                                    *)
(***************************************************************************)

\* What clients of each mode send, and when.
Polite(c, k) ==
  CASE mode = "debug"  -> /\ k # "haltNow"
                          /\ k \in EngineCommands \cup {"continue", "execute"}
                               => c \in seen
    [] mode = "pause"  -> k \notin EngineCommands
    [] mode = "browse" -> k # "haltNow"
    [] OTHER           -> TRUE

Receive(c, k) ==
  /\ NetIdle /\ conn[c] = "open" /\ k \in Kinds /\ Polite(c, k)
  /\ cmd' = IF k \in EngineCommands \cup {"profile", "execute"} THEN k ELSE "none"
  /\ UNCHANGED <<mode, Locks, Invoker, Session>>

\* Commands that answer from the debugger's own state, or from memory of the
\* game that they read without a lock; and what is no JSON.
NetAnswers(c, k) ==
  /\ k \in {"plain", "bad"}
  /\ Receive(c, k)
  /\ Send("net", IF k = "bad" THEN "exception" ELSE "reply")
  /\ UNCHANGED <<HaltVars, History>>

\* Breakpoint commands, filters, and a FetchInstructionRef that finds nothing.
NetKeepsSilent(c) ==
  /\ Receive(c, "silent")
  /\ UNCHANGED <<pc, msg, HaltVars, History>>

NetPauses(c) ==
  /\ Receive(c, "haltNow")
  /\ state' = "waitForHalt"
  /\ UNCHANGED <<pc, msg, event, released, History>>

NetContinues(c) ==
  /\ Receive(c, "continue")
  /\ CommandContinue
  /\ seen' = {} /\ overtaken' = 0
  /\ Send("net", "ack")

\* LoadFile and FetchAllFunctionsInNamespace; getAvailableVariables.
NetNeedsEngine(c, k) ==
  /\ k \in EngineCommands
  /\ Receive(c, k)
  /\ Goto("net", "needInvoker")
  /\ UNCHANGED <<msg, HaltVars, History>>

\* getVariable of a profile variable: nothing outside a halt, and in a halt
\* it takes the invoker lock whatever the state is.
NetGetsProfile(c) ==
  /\ Receive(c, "profile")
  /\ IF state = "breakState"
     THEN Goto("net", "waitInvoker") /\ UNCHANGED msg
     ELSE Send("net", "reply")
  /\ UNCHANGED <<HaltVars, History>>

\* ExecuteCode: neither a lock nor a test of the state.
NetExecutes(c) ==
  /\ Receive(c, "execute")
  /\ Goto("net", "engine")
  /\ UNCHANGED <<msg, HaltVars, History>>

\* The handlers of LoadFile and FetchAllFunctionsInNamespace have an
\* invoker_lock of their own; getCodeVariables has a second one.
FirstGuard == IF cmd \in {"loadFile", "functions"} THEN "handler" ELSE "callee"
AfterFirstGuard == IF cmd = "functions" THEN "needAgain" ELSE "engine"

\* Mutant: the lock is always taken.
NetTestsStateNever ==
  /\ Alive /\ At("net", "needInvoker")
  /\ Goto("net", "waitInvoker")
  /\ UNCHANGED <<mode, msg, Locks, Invoker, Session, HaltVars, cmd, History>>

\* Mutant: the lock is only taken in a halt.
NetTestsStateSwapped ==
  /\ Alive /\ At("net", "needInvoker")
  /\ Goto("net", IF state # "breakState" THEN AfterFirstGuard
                 ELSE "waitInvoker")
  /\ UNCHANGED <<mode, msg, Locks, Invoker, Session, HaltVars, cmd, History>>

\* invoker_lock lock(state == breakState): a halted game needs no lock.
NetTestsState ==
  /\ Alive /\ At("net", "needInvoker")
  /\ Goto("net", IF state = "breakState" THEN AfterFirstGuard
                 ELSE "waitInvoker")
  /\ UNCHANGED <<mode, msg, Locks, Invoker, Session, HaltVars, cmd, History>>

NetTakesInvoker ==
  /\ Alive /\ At("net", "waitInvoker") /\ invoker = "free"
  /\ invoker' = "net" /\ guards' = {FirstGuard}
  /\ Goto("net", AfterFirstGuard)
  /\ UNCHANGED <<mode, msg, Locks, Session, HaltVars, cmd, History>>

\* getCodeVariables tests the state again, and takes the lock again.
NetTestsAgain ==
  /\ Alive /\ At("net", "needAgain")
  /\ Goto("net", IF state = "breakState" THEN "engine" ELSE "waitAgain")
  /\ UNCHANGED <<mode, msg, Locks, Invoker, Session, HaltVars, cmd, History>>

NetTakesAgain ==
  /\ Alive /\ At("net", "waitAgain")
  /\ invoker = "free" \/ (invoker = "net" /\ Reentrant)
  /\ invoker' = "net" /\ guards' = guards \cup {"callee"}
  /\ Goto("net", "engine")
  /\ UNCHANGED <<mode, msg, Locks, Session, HaltVars, cmd, History>>

\* The script command, or the executed code, has run.  The invoker_lock of
\* what the handler calls is gone before the answer is sent, the handler's
\* own is not.
NetUsesEngine ==
  /\ Alive /\ At("net", "engine")
  /\ Send("net", "reply")
  /\ Release({"callee"})
  /\ cmd' = "none"
  /\ UNCHANGED <<mode, Locks, Session, HaltVars, History>>

\* The executed code meets a breakpoint or an error the filter asks for: the
\* network thread halts, and the command that ends its wait is one that only
\* it could receive.
NetCodeHalts ==
  /\ Alive /\ At("net", "engine") /\ cmd = "execute" /\ HaltsOccur
  /\ state' = "breakState"
  /\ Goto("net", "codeWaits")
  /\ UNCHANGED <<mode, msg, Locks, Invoker, Session, event, released, cmd,
                 History>>

-----------------------------------------------------------------------------
Broadcast(t) ==
  /\ Alive
  /\ \/ LockConnections(t)
     \/ \E c \in Conns : SendOne(t, c)
     \/ \E c \in Conns : SendThrows(t, c)
     \/ SendEnds(t)

HaltStep == GameChecksClient \/ GameResumes

Game == GameStarts \/ GameFrame \/ GameNextFrame \/ GameEcho \/ GameHalts
          \/ HaltStep

NetStep == NetInserts \/ NetOpened \/ NetErases \/ NetClosed
             \/ NetTestsState \/ NetTestsAgain \/ NetUsesEngine
             \/ NetCodeHalts

NetTakes == NetTakesInvoker \/ NetTakesAgain

Client(c) ==
  \/ Connect(c)
  \/ PeerCloses(c)
  \/ Disconnect(c)
  \/ \E k \in Kinds : NetAnswers(c, k)
  \/ NetKeepsSilent(c)
  \/ NetPauses(c)
  \/ NetContinues(c)
  \/ \E k \in Kinds : NetNeedsEngine(c, k)
  \/ NetGetsProfile(c)
  \/ NetExecutes(c)

Next ==
  \/ \E t \in Threads : Broadcast(t)
  \/ Game
  \/ NetStep
  \/ NetTakes
  \/ \E c \in Conns : Client(c)

\* Both threads run, and neither lock is given to the other thread for ever:
\* a frame's scripts come to an end, and the host lets a waiting thread in
\* between frames.  Clients and halts are free.
Fairness ==
  /\ \A t \in Threads : SF_vars(Broadcast(t))
  /\ WF_vars(GameStarts) /\ WF_vars(HaltStep)
  /\ SF_vars(GameFrame) /\ SF_vars(GameNextFrame)
  /\ SF_vars(NetStep) /\ SF_vars(NetTakes)

Spec == Init /\ [][Next]_vars /\ Fairness

-----------------------------------------------------------------------------
\* Every variable has its type.
TypeOK ==
  /\ mode \in Modes
  /\ DOMAIN pc = Threads /\ pc["game"] \in GameLabels /\ pc["net"] \in NetLabels
  /\ msg \in [Threads -> Messages]
  /\ owner \in Threads \cup {"none"} /\ left \subseteq Conns
  /\ invoker \in Threads \cup {"free"} /\ guards \subseteq {"handler", "callee"}
  /\ conn \in [Conns -> {"absent", "open", "closing"}]
  /\ connections \subseteq Conns
  /\ clientConnected \in BOOLEAN
  /\ state \in {"running", "breakState", "waitForHalt"}
  /\ event \in BOOLEAN /\ released \in BOOLEAN
  /\ cmd \in EngineCommands \cup {"profile", "execute", "none"}
  /\ seen \subseteq Conns /\ overtaken \in 0..2

\* m_connection_lock is not recursive: no thread asks for it while it has it
\* ("Don't call this is a locked context", WebSocketServer.cpp), whatever the
\* slots and the exception handler send.
NoRelock ==
  \A t \in Threads :
    owner = t => pc[t] \notin {"lock", "openLock", "closeLock"}

\* What thread t waits for is up to thread u: a lock that u holds, or the
\* command that ends a halt, of the game or of the code net executes.
Waits(t, u) ==
  \/ owner = u /\ pc[t] \in {"lock", "openLock", "closeLock"}
  \/ invoker = u /\ pc[t] \in {"waitInvoker", "frame"}
  \/ invoker = u /\ At(t, "waitAgain") /\ (t = u => ~Reentrant)
  \/ t = "game" /\ u = "net" /\ At("game", "wait") /\ ~released
  \/ t = "net" /\ u = "net" /\ At("net", "codeWaits")

\* The network thread waits for what only it could bring about: a continue for
\* code that it executes, or for the halt whose profile variable it is to read.
Entangled ==
  \/ At("net", "codeWaits")
  \/ At("net", "waitInvoker") /\ cmd = "profile" /\ event /\ ~released

\* Two locks and a halt close a circle in two places only: no thread waits for
\* itself, and the two never wait for one another, unless code that net
\* executes has halted (NetworkController.cpp, "please be nice") or a profile
\* variable is asked for in a halt (getVariables locks there).  All the rest
\* is free of it, although LoadFile sends its answer with the invoker lock in
\* its hands, the list of functions takes that lock twice, and the game halts
\* and sends with it, too.
NoCircularWait ==
  \A t, u \in Threads : Waits(t, u) /\ Waits(u, t) => Entangled

\* Except for a profile variable, the network thread does not wait for the
\* invoker lock in a halt that only it could end: nobody would ever move again.
NoWaitInHalt ==
  pc["net"] \in {"waitInvoker", "waitAgain"} /\ cmd # "profile"
    => ~event \/ released

\* Script commands of the network thread never run beside the game's scripts:
\* the game is between frames, or in a halt that is not yet released.  Of
\* executed code that is so because clients are nice, and only then.
EngineExclusive ==
  At("net", "engine") /\ (cmd = "execute" => mode = "debug")
    => \/ At("game", "frame") /\ invoker = "net"
       \/ event /\ ~released

\* The acknowledgement of a continue goes out after the game was released, so
\* the notification of the next halt may reach the clients first; but of the
\* next one only, never of two.
OvertakenOnce == overtaken <= 1

\* Whatever the network thread is at, it comes back to serve the next client,
\* unless it is entangled, or a send to a closing connection has ended it or
\* the process.
NetReturns ==
  ~At("net", "idle")
    ~> pc["net"] \in {"idle", "stopped"} \/ Entangled \/ ~Alive

\* literally runs loadFile command and returns result (the comment on LoadFile
\* in NetworkController.h), unless the server or the process has ended.
LoadFileReturns ==
  At("net", "needInvoker") /\ cmd = "loadFile"
    ~> pc["net"] \in {"idle", "stopped"} \/ ~Alive

\* These two do not hold of the code: a client that does not wait for a halt
\* gets its code run beside the game's scripts, and the two entanglements are
\* circles.
EngineNeverShared ==
  At("net", "engine") => \/ At("game", "frame") /\ invoker = "net"
                         \/ event /\ ~released
NoCircleAtAll == \A t, u \in Threads : ~(Waits(t, u) /\ Waits(u, t))
=============================================================================
