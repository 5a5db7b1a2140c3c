--------------------------- MODULE Commands_proofs ---------------------------
(***************************************************************************)
(* Theorems about Commands, for any number of connections: what the two    *)
(* locks keep apart.  That the network thread comes back (NetReturns) is   *)
(* liveness, and left to TLC.                                              *)
(***************************************************************************)
EXTENDS Commands, TLAPS

\* Connections that the library has told the server of; threads at a broadcast.
Present == {c \in Conns : conn[c] # "absent"}
Sends(t) == pc[t] \in {"lock", "sending"}

\* m_connection_lock is held in a broadcast and nowhere else.
LockInv ==
  /\ \A t \in Threads : owner = t <=> At(t, "sending")
  /\ owner # "none" => left \subseteq connections

\* What the game thread holds and is at; a halt is waited for or reported,
\* unless it is one of the network thread.
GameInv ==
  /\ Sends("game") => msg["game"] \in {"halt", "ack", "echo"}
  /\ invoker = "game" <=> ~At("game", "frame")
  /\ invoker = "net" <=> guards # {}
  /\ event => \/ pc["game"] \in {"checkClient", "wait", "crashed"}
              \/ Sends("game") /\ msg["game"] \in {"halt", "ack"}
  /\ state = "breakState" => (event /\ ~released) \/ At("net", "codeWaits")

\* What the network thread knows of connections at its labels.
SessionInv ==
  /\ At("net", "openLock") =>
       /\ connections \subseteq Present
       /\ {c \in Conns : conn[c] = "closing"} \subseteq connections
       /\ \E c \in Conns : conn[c] = "open"
       /\ clientConnected <=> connections # {}
  /\ At("net", "opened") => connections = Present /\ connections # {}
  /\ At("net", "closeLock") => Present \subseteq connections /\ clientConnected
  /\ At("net", "closed") => connections = Present /\ clientConnected
  /\ pc["net"] \notin {"openLock", "opened", "closeLock", "closed"} =>
       /\ connections = Present
       /\ clientConnected <=> connections # {}

\* Labels of a command that is being served.
Serving == {"needInvoker", "waitInvoker", "needAgain", "waitAgain", "engine",
            "codeWaits"}

\* Who uses the engine holds its lock, or the game is halted; executed code
\* is left to what its clients do.
EngineInv ==
  /\ Sends("net") => msg["net"] \in {"ack", "reply", "exception"}
  /\ pc["net"] \in Serving => clientConnected
  /\ At("net", "needAgain") => invoker = "net" \/ state = "breakState"
  /\ At("net", "waitAgain") => invoker = "net"
  /\ At("net", "engine") =>
       cmd = "execute" \/ invoker = "net" \/ state = "breakState"

\* A halt that has overtaken an acknowledgement lasts until after it.
OvertakenInv ==
  /\ OvertakenOnce
  /\ AckPending /\ clientConnected /\ overtaken # 0 => event /\ ~released

\* The acknowledgement in the air reaches everybody who believes the game to
\* be halted, or ends the network thread.
AckClears ==
  \/ At("net", "lock") /\ msg["net"] = "ack" /\ seen \subseteq connections
  \/ At("net", "sending") /\ msg["net"] = "ack" /\ seen \subseteq left
  \/ /\ At("net", "lock") /\ msg["net"] = "exception"
     /\ \E c \in connections : conn[c] # "open"
  \/ /\ At("net", "sending") /\ msg["net"] = "exception"
     /\ \E c \in left : conn[c] # "open"
  \/ At("net", "stopped")

\* Clients that debug ask for the engine in a halt only: whoever is told of a
\* halt and is still connected is right, or is about to be told better.
DebugInv ==
  /\ state \in {"running", "breakState"}
  /\ At("game", "startup") => seen = {} /\ state = "running"
  /\ ~At("game", "startup") /\ ~clientConnected =>
       pc["net"] \notin {"openLock", "opened", "closeLock", "closed"}
  /\ ~At("net", "waitAgain")
  /\ At("net", "waitInvoker") => cmd = "profile"
  /\ pc["net"] \in Serving => state = "breakState"
  /\ clientConnected /\ At("game", "lock") /\ msg["game"] = "halt" =>
       seen = {} /\ state = "breakState"
  /\ clientConnected /\ At("game", "sending") /\ msg["game"] = "halt" =>
       \/ state = "breakState"
       \/ At("net", "lock") /\ msg["net"] = "ack"
  /\ clientConnected /\ state # "breakState" /\ seen # {} => AckClears

\* What keeps the network thread from waiting in a halt, by the behaviour of
\* the clients.
WaitInv ==
  /\ mode = "pause" => /\ pc["net"] \notin {"needInvoker", "needAgain", "waitAgain"}
                       /\ At("net", "waitInvoker") => cmd = "profile"
  /\ mode = "browse" => ~event
  /\ mode = "debug" => DebugInv

-----------------------------------------------------------------------------
(***************************************************************************)
(* Types.                                                                  *)
(***************************************************************************)

\* The steps, one by one.
Broadcasts == \E t \in Threads :
  \/ LockConnections(t) \/ SendEnds(t)
  \/ \E c \in Conns : SendOne(t, c) \/ SendThrows(t, c)
Quiet == GameStarts \/ GameFrame \/ GameNextFrame \/ GameEcho
Visits == NetInserts \/ NetOpened \/ NetErases \/ NetClosed
Comings == \E c \in Conns : Connect(c) \/ PeerCloses(c) \/ Disconnect(c)
EngineUse == NetTestsState \/ NetTestsAgain \/ NetTakes \/ NetUsesEngine
Receptions == \E c \in Conns, k \in Kinds :
  NetAnswers(c, k) \/ NetNeedsEngine(c, k)
Commanding == \E c \in Conns :
  \/ NetKeepsSilent(c) \/ NetPauses(c) \/ NetContinues(c)
  \/ NetGetsProfile(c) \/ NetExecutes(c)

\* Every step is one of these groups.
LEMMA StepCases ==
  ASSUME [Next]_vars
  PROVE  \/ Broadcasts \/ Quiet \/ GameHalts \/ HaltStep \/ Visits \/ Comings
         \/ EngineUse \/ NetCodeHalts \/ Receptions \/ Commanding
         \/ UNCHANGED vars
BY DEF Next, Broadcast, Game, NetStep, Client, Broadcasts, Quiet, Visits, Comings,
   EngineUse, Receptions, Commanding

\* A command that is received.
LEMMA ReceiveTypes ==
  ASSUME TypeOK, NEW c \in Conns, NEW k, Receive(c, k)
  PROVE  /\ At("net", "idle") /\ conn[c] = "open"
         /\ cmd' \in EngineCommands \cup {"profile", "execute", "none"}
         /\ UNCHANGED <<mode, Locks, Invoker, Session>>
BY DEF Receive, NetIdle

\* commandContinue keeps the types of what it writes.
LEMMA ContinueTypes ==
  ASSUME TypeOK, CommandContinue
  PROVE  /\ state' \in {"running", "breakState", "waitForHalt"}
         /\ released' \in BOOLEAN /\ event' = event
BY DEF TypeOK, CommandContinue, HaltVars

\* No step takes a variable out of its type.
LEMMA TypeStep == ASSUME TypeOK, [Next]_vars PROVE TypeOK'
<1>. USE DEF TypeOK, At, Goto, Send, Threads, Messages, GameLabels, NetLabels, Locks,
         Session, HaltVars, History, Invoker, Release, EngineCommands
<1>1. CASE Broadcasts
  <2>1. PICK t \in Threads : \/ LockConnections(t) \/ SendEnds(t)
                             \/ \E c \in Conns : SendOne(t, c) \/ SendThrows(t, c)
    BY <1>1 DEF Broadcasts
  <2>2. CASE LockConnections(t)
    BY <2>2 DEF LockConnections
  <2>3. CASE SendEnds(t)
    BY <2>3 DEF SendEnds
  <2>4. ASSUME NEW c \in Conns, SendOne(t, c) PROVE TypeOK'
    BY <2>4 DEF SendOne
  <2>5. ASSUME NEW c \in Conns, SendThrows(t, c) PROVE TypeOK'
    <3>1. CASE t = "game"
      BY <2>5, <3>1 DEF SendThrows
    <3>2. CASE t = "net"
      BY <2>5, <3>2 DEF SendThrows
    <3>. QED  BY <3>1, <3>2
  <2>. QED  BY <2>1, <2>2, <2>3, <2>4, <2>5
<1>2. CASE Quiet
  <2>1. CASE GameStarts
    BY <2>1 DEF GameStarts
  <2>2. CASE GameFrame
    BY <2>2 DEF GameFrame
  <2>3. CASE GameNextFrame
    BY <2>3 DEF GameNextFrame
  <2>4. CASE GameEcho
    BY <2>4 DEF GameEcho
  <2>. QED  BY <1>2, <2>1, <2>2, <2>3, <2>4 DEF Quiet
<1>3. CASE GameHalts
  <2>1. overtaken' \in 0..2
    BY <1>3 DEF GameHalts
  <2>2. /\ event' = TRUE /\ released' = FALSE /\ state' = "breakState"
        /\ seen' = {} /\ pc' = [pc EXCEPT !["game"] = "lock"]
        /\ msg' = [msg EXCEPT !["game"] = "halt"]
        /\ UNCHANGED <<mode, Locks, Invoker, Session, cmd>>
    BY <1>3 DEF GameHalts
  <2>. QED  BY <2>1, <2>2
<1>4. CASE HaltStep
  <2>1. CASE GameChecksClient
    BY <2>1, ContinueTypes DEF GameChecksClient
  <2>2. CASE GameResumes
    BY <2>2 DEF GameResumes
  <2>. QED  BY <1>4, <2>1, <2>2 DEF HaltStep
<1>5. CASE Visits
  <2>1. CASE NetClosed
    BY <2>1, ContinueTypes DEF NetClosed
  <2>2. CASE NetInserts
    BY <2>2 DEF NetInserts
  <2>3. CASE NetOpened
    BY <2>3 DEF NetOpened
  <2>4. CASE NetErases
    BY <2>4 DEF NetErases
  <2>. QED  BY <1>5, <2>1, <2>2, <2>3, <2>4 DEF Visits
<1>6. CASE Comings
  <2>1. PICK c \in Conns : Connect(c) \/ PeerCloses(c) \/ Disconnect(c)
    BY <1>6 DEF Comings
  <2>2. CASE Connect(c)
    BY <2>2 DEF Connect
  <2>3. CASE PeerCloses(c)
    BY <2>3 DEF PeerCloses
  <2>4. CASE Disconnect(c)
    BY <2>4 DEF Disconnect
  <2>. QED  BY <2>1, <2>2, <2>3, <2>4
<1>7. CASE EngineUse
  <2>1. CASE NetTestsState
    BY <2>1 DEF NetTestsState, AfterFirstGuard
  <2>2. CASE NetTakesInvoker
    BY <2>2 DEF NetTakesInvoker, FirstGuard, AfterFirstGuard
  <2>3. CASE NetTestsAgain
    BY <2>3 DEF NetTestsAgain
  <2>4. CASE NetTakesAgain
    BY <2>4 DEF NetTakesAgain
  <2>5. CASE NetUsesEngine
    BY <2>5 DEF NetUsesEngine
  <2>. QED  BY <1>7, <2>1, <2>2, <2>3, <2>4, <2>5 DEF EngineUse, NetTakes
<1>8. CASE Receptions
  <2>1. PICK c \in Conns, k \in Kinds : NetAnswers(c, k) \/ NetNeedsEngine(c, k)
    BY <1>8 DEF Receptions
  <2>2. CASE NetAnswers(c, k)
    BY <2>2, ReceiveTypes DEF NetAnswers
  <2>3. CASE NetNeedsEngine(c, k)
    BY <2>3, ReceiveTypes DEF NetNeedsEngine
  <2>. QED  BY <2>1, <2>2, <2>3
<1>9. CASE Commanding
  <2>1. PICK c \in Conns : NetKeepsSilent(c) \/ NetPauses(c) \/ NetContinues(c)
                             \/ NetGetsProfile(c) \/ NetExecutes(c)
    BY <1>9 DEF Commanding
  <2>2. CASE NetContinues(c)
    <3>1. Receive(c, "continue") /\ CommandContinue
      BY <2>2 DEF NetContinues
    <3>2. /\ cmd' \in EngineCommands \cup {"profile", "execute", "none"}
          /\ UNCHANGED <<mode, Locks, Invoker, Session>>
      BY <3>1, ReceiveTypes
    <3>. QED  BY <2>2, <3>1, <3>2, ContinueTypes DEF NetContinues
  <2>3. CASE NetKeepsSilent(c)
    <3>1. Receive(c, "silent") /\ UNCHANGED <<pc, msg, HaltVars, History>>
      BY <2>3 DEF NetKeepsSilent
    <3>2. /\ cmd' \in EngineCommands \cup {"profile", "execute", "none"}
          /\ UNCHANGED <<mode, Locks, Invoker, Session>>
      BY <3>1, ReceiveTypes
    <3>. QED  BY <3>1, <3>2
  <2>4. CASE NetPauses(c)
    BY <2>4, ReceiveTypes DEF NetPauses
  <2>5. CASE NetGetsProfile(c)
    BY <2>5, ReceiveTypes DEF NetGetsProfile
  <2>6. CASE NetExecutes(c)
    BY <2>6, ReceiveTypes DEF NetExecutes
  <2>. QED  BY <2>1, <2>2, <2>3, <2>4, <2>5, <2>6
<1>10. CASE UNCHANGED vars
  BY <1>10 DEF vars
<1>11. CASE NetCodeHalts
  BY <1>11 DEF NetCodeHalts
<1>. QED
  BY StepCases, <1>1, <1>2, <1>3, <1>4, <1>5, <1>6, <1>7, <1>8, <1>9, <1>10, <1>11

\* Every variable keeps its type.
THEOREM TypeCorrect == Spec => []TypeOK
<1>1. ASSUME Init PROVE TypeOK
  <2>1. DOMAIN pc = Threads /\ pc["game"] = "startup" /\ pc["net"] = "idle"
    BY <1>1 DEF Init, Threads
  <2>2. msg \in [Threads -> Messages]
    BY <1>1 DEF Init, Messages
  <2>3. conn \in [Conns -> {"absent", "open", "closing"}]
    BY <1>1 DEF Init
  <2>4. /\ mode \in Modes /\ owner = "none" /\ left = {} /\ invoker = "game" /\ guards = {}
        /\ connections = {} /\ clientConnected = FALSE /\ state = "running"
        /\ event = FALSE /\ released = FALSE /\ cmd = "none"
        /\ seen = {} /\ overtaken = 0
    BY <1>1 DEF Init
  <2>5. overtaken \in 0..2 /\ owner \in Threads \cup {"none"}
        /\ invoker \in Threads \cup {"free"} /\ guards \subseteq {"handler", "callee"}
        /\ left \subseteq Conns /\ connections \subseteq Conns /\ seen \subseteq Conns
    BY <2>4 DEF Threads
  <2>6. pc["game"] \in GameLabels /\ pc["net"] \in NetLabels
    BY <2>1 DEF GameLabels, NetLabels
  <2>. QED  BY <2>1, <2>2, <2>3, <2>4, <2>5, <2>6 DEF TypeOK
<1>. QED  BY <1>1, TypeStep, PTL DEF Spec

-----------------------------------------------------------------------------
(***************************************************************************)
(* The connection lock.                                                    *)
(***************************************************************************)

\* Nothing but a broadcast takes or gives the lock, and the set of connections
\* does not shrink while it is held.
LEMMA LockStep ==
  ASSUME TypeOK, LockInv, [Next]_vars
  PROVE  LockInv'
<1>. USE DEF TypeOK, LockInv, At, Goto, Send, Threads, Locks, Session, HaltVars, History,
         Invoker, Release
<1>1. CASE Broadcasts
  <2>1. PICK t \in Threads : \/ LockConnections(t) \/ SendEnds(t)
                             \/ \E c \in Conns : SendOne(t, c) \/ SendThrows(t, c)
    BY <1>1 DEF Broadcasts
  <2>2. CASE LockConnections(t)
    BY <2>2 DEF LockConnections
  <2>3. CASE SendEnds(t)
    BY <2>3 DEF SendEnds
  <2>4. ASSUME NEW c \in Conns, SendOne(t, c) PROVE LockInv'
    BY <2>4 DEF SendOne
  <2>5. ASSUME NEW c \in Conns, SendThrows(t, c) PROVE LockInv'
    <3>1. CASE t = "game"
      BY <2>5, <3>1 DEF SendThrows
    <3>2. CASE t = "net"
      BY <2>5, <3>2 DEF SendThrows
    <3>. QED  BY <3>1, <3>2
  <2>. QED  BY <2>1, <2>2, <2>3, <2>4, <2>5
<1>2. CASE Quiet
  BY <1>2 DEF Quiet, GameStarts, GameFrame, GameNextFrame, GameEcho
<1>3. CASE GameHalts
  <2>1. /\ At("game", "run") /\ pc' = [pc EXCEPT !["game"] = "lock"]
        /\ UNCHANGED <<Locks, Session>>
    BY <1>3 DEF GameHalts
  <2>. QED  BY <2>1
<1>4. CASE HaltStep
  BY <1>4 DEF HaltStep, GameChecksClient, GameResumes
<1>5. CASE Visits
  <2>1. CASE NetClosed
    BY <2>1 DEF NetClosed
  <2>2. CASE NetInserts
    BY <2>2 DEF NetInserts
  <2>3. CASE NetOpened
    BY <2>3 DEF NetOpened
  <2>4. CASE NetErases
    BY <2>4 DEF NetErases
  <2>. QED  BY <1>5, <2>1, <2>2, <2>3, <2>4 DEF Visits
<1>6. CASE Comings
  BY <1>6 DEF Comings, Connect, PeerCloses, Disconnect, NetIdle
<1>7. CASE EngineUse
  BY <1>7 DEF EngineUse, NetTestsState, NetTestsAgain, NetTakes,
         NetTakesInvoker, NetTakesAgain, NetUsesEngine, AfterFirstGuard
<1>8. CASE Receptions
  BY <1>8, ReceiveTypes DEF Receptions, NetAnswers, NetNeedsEngine
<1>9. CASE Commanding
  <2>1. PICK c \in Conns : NetKeepsSilent(c) \/ NetPauses(c) \/ NetContinues(c)
                             \/ NetGetsProfile(c) \/ NetExecutes(c)
    BY <1>9 DEF Commanding
  <2>. QED  BY <2>1, ReceiveTypes DEF NetKeepsSilent, NetPauses, NetContinues,
            NetGetsProfile, NetExecutes
<1>10. CASE UNCHANGED vars
  BY <1>10 DEF vars
<1>11. CASE NetCodeHalts
  BY <1>11 DEF NetCodeHalts
<1>. QED
  BY StepCases, <1>1, <1>2, <1>3, <1>4, <1>5, <1>6, <1>7, <1>8, <1>9, <1>10, <1>11

\* Nobody has it at the start.
LEMMA LockInit == Init => LockInv
BY DEF Init, LockInv, At, Threads

\* Hence it always holds.
LEMMA LockAlways == Spec => []LockInv
BY LockInit, LockStep, TypeCorrect, PTL DEF Spec

\* No thread asks for m_connection_lock while it has it.
THEOREM NeverRelocked == Spec => []NoRelock
<1>1. LockInv => NoRelock
  BY DEF LockInv, NoRelock, At
<1>. QED  BY LockAlways, <1>1, PTL

-----------------------------------------------------------------------------
(***************************************************************************)
(* The invoker lock, and halts.                                            *)
(***************************************************************************)

\* What commandContinue does to a halt.
LEMMA ContinueEnds ==
  ASSUME TypeOK, CommandContinue
  PROVE  event' = event /\ state' = "running"
BY DEF TypeOK, CommandContinue, HaltVars

\* The invoker is the game's but between frames, a halt is the game's until it
\* resumes, and breakState means that nobody has released it.
LEMMA GameStep ==
  ASSUME TypeOK, LockInv, GameInv, [Next]_vars
  PROVE  GameInv'
<1>. USE DEF TypeOK, GameInv, Sends, At, Goto, Send, Threads, Locks, Session,
         HaltVars, History, Invoker, Release
<1>1. CASE Broadcasts
  <2>1. PICK t \in Threads : \/ LockConnections(t) \/ SendEnds(t)
                             \/ \E c \in Conns : SendOne(t, c) \/ SendThrows(t, c)
    BY <1>1 DEF Broadcasts
  <2>2. CASE LockConnections(t)
    BY <2>2 DEF LockConnections
  <2>3. CASE SendEnds(t)
    <3>1. CASE t = "game"
      BY <2>3, <3>1 DEF SendEnds
    <3>2. CASE t = "net"
      BY <2>3, <3>2 DEF SendEnds
    <3>. QED  BY <3>1, <3>2
  <2>4. ASSUME NEW c \in Conns, SendOne(t, c) PROVE GameInv'
    BY <2>4 DEF SendOne
  <2>5. ASSUME NEW c \in Conns, SendThrows(t, c) PROVE GameInv'
    <3>1. CASE t = "game"
      BY <2>5, <3>1 DEF SendThrows
    <3>2. CASE t = "net"
      BY <2>5, <3>2 DEF SendThrows
    <3>. QED  BY <3>1, <3>2
  <2>. QED  BY <2>1, <2>2, <2>3, <2>4, <2>5
<1>2. CASE Quiet
  BY <1>2 DEF Quiet, GameStarts, GameFrame, GameNextFrame, GameEcho
<1>3. CASE GameHalts
  <2>1. /\ At("game", "run") /\ pc' = [pc EXCEPT !["game"] = "lock"]
        /\ event' = TRUE /\ released' = FALSE
        /\ msg' = [msg EXCEPT !["game"] = "halt"]
        /\ UNCHANGED Invoker
    BY <1>3 DEF GameHalts
  <2>. QED  BY <2>1
<1>4. CASE HaltStep
  <2>1. CASE GameChecksClient
    BY <2>1, ContinueEnds DEF GameChecksClient
  <2>2. CASE GameResumes
    BY <2>2 DEF GameResumes
  <2>. QED  BY <1>4, <2>1, <2>2 DEF HaltStep
<1>5. CASE Visits
  <2>1. CASE NetClosed
    BY <2>1, ContinueEnds DEF NetClosed
  <2>2. CASE NetInserts
    BY <2>2 DEF NetInserts
  <2>3. CASE NetOpened
    BY <2>3 DEF NetOpened
  <2>4. CASE NetErases
    BY <2>4 DEF NetErases
  <2>. QED  BY <1>5, <2>1, <2>2, <2>3, <2>4 DEF Visits
<1>6. CASE Comings
  BY <1>6 DEF Comings, Connect, PeerCloses, Disconnect, NetIdle
<1>7. CASE EngineUse
  <2>1. CASE NetTestsState \/ NetTestsAgain
    BY <2>1 DEF NetTestsState, NetTestsAgain, AfterFirstGuard
  <2>2. CASE NetTakes
    BY <2>2 DEF NetTakes, NetTakesInvoker, NetTakesAgain, AfterFirstGuard
  <2>3. CASE NetUsesEngine
    BY <2>3 DEF NetUsesEngine
  <2>. QED  BY <1>7, <2>1, <2>2, <2>3 DEF EngineUse
<1>8. CASE Receptions
  BY <1>8, ReceiveTypes DEF Receptions, NetAnswers, NetNeedsEngine
<1>9. CASE Commanding
  <2>1. PICK c \in Conns : NetKeepsSilent(c) \/ NetPauses(c) \/ NetContinues(c)
                             \/ NetGetsProfile(c) \/ NetExecutes(c)
    BY <1>9 DEF Commanding
  <2>2. CASE NetContinues(c)
    BY <2>2, ReceiveTypes, ContinueEnds DEF NetContinues
  <2>. QED  BY <2>1, <2>2, ReceiveTypes DEF NetKeepsSilent, NetPauses, NetGetsProfile,
            NetExecutes
<1>10. CASE UNCHANGED vars
  BY <1>10 DEF vars
<1>11. CASE NetCodeHalts
  BY <1>11 DEF NetCodeHalts
<1>. QED
  BY StepCases, <1>1, <1>2, <1>3, <1>4, <1>5, <1>6, <1>7, <1>8, <1>9, <1>10, <1>11

\* The game starts with the invoker, and no halt.
LEMMA GameInit == Init => GameInv
BY DEF Init, GameInv, Sends, At, Threads

-----------------------------------------------------------------------------
(***************************************************************************)
(* Connections, as the network thread knows them.                          *)
(***************************************************************************)

\* Between the handlers the server's set has exactly the connections there
\* are, and clientConnected tells whether there are any.
LEMMA SessionStep ==
  ASSUME TypeOK, SessionInv, [Next]_vars
  PROVE  SessionInv'
<1>. USE DEF TypeOK, SessionInv, Present, At, Goto, Send, Threads, Locks, Session,
         HaltVars, History, Invoker, Release
<1>1. CASE Broadcasts
  <2>1. PICK t \in Threads : \/ LockConnections(t) \/ SendEnds(t)
                             \/ \E c \in Conns : SendOne(t, c) \/ SendThrows(t, c)
    BY <1>1 DEF Broadcasts
  <2>2. UNCHANGED Session
    BY <2>1 DEF LockConnections, SendEnds, SendOne, SendThrows
  <2>3. pc'["net"] = pc["net"] \/ /\ pc["net"] \in {"lock", "sending"}
                                  /\ pc'["net"] \in {"lock", "sending", "idle", "stopped"}
    <3>1. CASE t = "game"
      BY <2>1, <3>1 DEF LockConnections, SendEnds, SendOne, SendThrows
    <3>2. CASE t = "net"
      BY <2>1, <3>2 DEF LockConnections, SendEnds, SendOne, SendThrows
    <3>. QED  BY <3>1, <3>2
  <2>. QED  BY <2>2, <2>3
<1>2. CASE Quiet \/ GameHalts \/ HaltStep
  <2>1. UNCHANGED Session /\ pc'["net"] = pc["net"]
    BY <1>2 DEF Quiet, GameStarts, GameFrame, GameNextFrame, GameEcho, GameHalts,
       HaltStep, GameChecksClient, GameResumes
  <2>. QED  BY <2>1
<1>3. CASE NetInserts
  BY <1>3 DEF NetInserts
<1>4. CASE NetOpened
  BY <1>4 DEF NetOpened
<1>5. CASE NetErases
  <2>1. /\ Present \subseteq connections /\ clientConnected
        /\ connections' = {c \in connections : conn[c] # "absent"}
        /\ conn' = conn /\ clientConnected' = clientConnected
        /\ pc'["net"] = "closed"
    BY <1>5 DEF NetErases
  <2>2. connections' = Present /\ Present' = Present
    BY <2>1
  <2>3. connections' = Present' /\ clientConnected' /\ pc'["net"] = "closed"
    BY <2>1, <2>2
  <2>. HIDE DEF Present, TypeOK
  <2>4. SessionInv'
    BY ONLY <2>3 DEF SessionInv, At
  <2>. QED  BY <2>4
<1>6. CASE NetClosed
  <2>1. /\ connections = Present /\ clientConnected
        /\ clientConnected' = (connections # {})
        /\ UNCHANGED <<conn, connections>>
        /\ pc'["net"] \in {"idle", "lock"}
    BY <1>6 DEF NetClosed
  <2>2. connections' = Present' /\ (clientConnected' <=> connections' # {})
    BY <2>1
  <2>. HIDE DEF Present, TypeOK
  <2>3. SessionInv'
    BY ONLY <2>1, <2>2 DEF SessionInv, At
  <2>. QED  BY <2>3
<1>7. CASE Comings
  <2>1. PICK c \in Conns : Connect(c) \/ PeerCloses(c) \/ Disconnect(c)
    BY <1>7 DEF Comings
  <2>2. At("net", "idle")
    BY <2>1 DEF Connect, PeerCloses, Disconnect, NetIdle
  <2>3. CASE Connect(c)
    BY <2>2, <2>3 DEF Connect
  <2>4. CASE PeerCloses(c)
    BY <2>2, <2>4 DEF PeerCloses
  <2>5. CASE Disconnect(c)
    BY <2>2, <2>5 DEF Disconnect
  <2>. QED  BY <2>1, <2>3, <2>4, <2>5
<1>8. CASE EngineUse
  BY <1>8 DEF EngineUse, NetTestsState, NetTestsAgain, NetTakes,
         NetTakesInvoker, NetTakesAgain, NetUsesEngine, AfterFirstGuard
<1>9. CASE Receptions
  BY <1>9, ReceiveTypes DEF Receptions, NetAnswers, NetNeedsEngine
<1>10. CASE Commanding
  BY <1>10, ReceiveTypes DEF Commanding, NetKeepsSilent, NetPauses, NetContinues,
     NetGetsProfile, NetExecutes
<1>11. CASE UNCHANGED vars
  BY <1>11 DEF vars
<1>12. CASE NetCodeHalts
  BY <1>12 DEF NetCodeHalts
<1>. QED
  BY StepCases, <1>1, <1>2, <1>3, <1>4, <1>5, <1>6, <1>7, <1>8, <1>9, <1>10, <1>11, <1>12
  DEF Visits

\* Nobody is there at the start.
LEMMA SessionInit == Init => SessionInv
BY DEF Init, SessionInv, Present, At, Threads

\* Whoever sends a command is counted as connected.
LEMMA SenderIsConnected ==
  ASSUME TypeOK, SessionInv, NEW c \in Conns, NEW k, Receive(c, k)
  PROVE  clientConnected
BY DEF Receive, NetIdle, TypeOK, SessionInv, Present, At

-----------------------------------------------------------------------------
(***************************************************************************)
(* What lets the network thread use the engine.                            *)
(***************************************************************************)

\* What the thread was let in for lasts until it is done: with a client
\* connected only a command, which this thread would serve, ends a halt.
LEMMA EngineStep ==
  ASSUME TypeOK, GameInv, SessionInv, EngineInv, [Next]_vars
  PROVE  EngineInv'
<1>. USE DEF TypeOK, EngineInv, Serving, Sends, At, Goto, Send, Threads, Locks, Session,
         HaltVars, History, Invoker, Release
<1>1. CASE Broadcasts
  <2>1. PICK t \in Threads : \/ LockConnections(t) \/ SendEnds(t)
                             \/ \E c \in Conns : SendOne(t, c) \/ SendThrows(t, c)
    BY <1>1 DEF Broadcasts
  <2>2. UNCHANGED <<Session, HaltVars>>
    BY <2>1 DEF LockConnections, SendEnds, SendOne, SendThrows
  <2>3. CASE t = "game"
    <3>1. /\ pc'["net"] = pc["net"] /\ msg'["net"] = msg["net"]
          /\ UNCHANGED <<Invoker, cmd>>
      BY <2>1, <2>3 DEF LockConnections, SendEnds, SendOne, SendThrows
    <3>. QED  BY <2>2, <3>1
  <2>4. CASE t = "net"
    <3>1. /\ Sends("net")
          /\ pc'["net"] \in {"lock", "sending", "idle", "stopped"}
          /\ msg'["net"] \in {msg["net"], "exception"} \/ pc'["net"] = "idle"
      BY <2>1, <2>4 DEF LockConnections, SendEnds, SendOne, SendThrows
    <3>. QED  BY <2>2, <3>1
  <2>. QED  BY <2>3, <2>4
<1>2. CASE Quiet
  BY <1>2 DEF Quiet, GameStarts, GameFrame, GameNextFrame, GameEcho, GameInv
<1>3. CASE GameHalts
  <2>1. /\ pc'["net"] = pc["net"] /\ msg'["net"] = msg["net"]
        /\ state' = "breakState" /\ UNCHANGED <<invoker, Session>>
    BY <1>3 DEF GameHalts
  <2>. QED  BY <2>1
<1>4. CASE HaltStep
  <2>1. CASE GameChecksClient
    <3>1. CASE clientConnected
      BY <2>1, <3>1 DEF GameChecksClient
    <3>2. CASE ~clientConnected
      BY <2>1, <3>2 DEF GameChecksClient
    <3>. QED  BY <3>1, <3>2
  <2>2. CASE GameResumes
    BY <2>2 DEF GameResumes
  <2>. QED  BY <1>4, <2>1, <2>2 DEF HaltStep
<1>5. CASE Visits
  BY <1>5 DEF Visits, NetInserts, NetOpened, NetErases, NetClosed
<1>6. CASE Comings
  BY <1>6 DEF Comings, Connect, PeerCloses, Disconnect, NetIdle
<1>7. CASE EngineUse
  BY <1>7 DEF EngineUse, NetTestsState, NetTestsAgain, NetTakes,
         NetTakesInvoker, NetTakesAgain, NetUsesEngine, AfterFirstGuard
<1>8. CASE Receptions
  <2>1. PICK c \in Conns, k \in Kinds : NetAnswers(c, k) \/ NetNeedsEngine(c, k)
    BY <1>8 DEF Receptions
  <2>2. Receive(c, k)
    BY <2>1 DEF NetAnswers, NetNeedsEngine
  <2>3. clientConnected /\ clientConnected' = clientConnected
    BY <2>2, SenderIsConnected, ReceiveTypes
  <2>4. /\ pc'["net"] \in {"lock", "needInvoker"}
        /\ pc'["net"] = "lock" => msg'["net"] \in {"exception", "reply"}
    BY <2>1 DEF NetAnswers, NetNeedsEngine
  <2>. QED  BY <2>3, <2>4
<1>9. CASE Commanding
  <2>1. PICK c \in Conns : NetKeepsSilent(c) \/ NetPauses(c) \/ NetContinues(c)
                             \/ NetGetsProfile(c) \/ NetExecutes(c)
    BY <1>9 DEF Commanding
  <2>2. PICK k : Receive(c, k)
    BY <2>1 DEF NetKeepsSilent, NetPauses, NetContinues, NetGetsProfile, NetExecutes
  <2>3. /\ clientConnected /\ clientConnected' = clientConnected
        /\ pc["net"] = "idle"
    BY <2>2, SenderIsConnected, ReceiveTypes
  <2>4. /\ pc'["net"] \in {"idle", "lock", "waitInvoker", "engine"}
        /\ pc'["net"] = "lock" => msg'["net"] \in {"ack", "reply"}
    BY <2>1, <2>3 DEF NetKeepsSilent, NetPauses, NetContinues, NetGetsProfile,
       NetExecutes
  <2>5. pc'["net"] = "engine" => cmd' = "execute"
    <3>1. CASE NetExecutes(c)
      BY <3>1 DEF NetExecutes, Receive
    <3>. QED  BY <2>1, <2>3, <3>1 DEF NetKeepsSilent, NetPauses, NetContinues,
              NetGetsProfile
  <2>. QED  BY <2>3, <2>4, <2>5
<1>10. CASE UNCHANGED vars
  BY <1>10 DEF vars
<1>11. CASE NetCodeHalts
  BY <1>11 DEF NetCodeHalts
<1>. QED
  BY StepCases, <1>1, <1>2, <1>3, <1>4, <1>5, <1>6, <1>7, <1>8, <1>9, <1>10, <1>11

\* The network thread starts idle.
LEMMA EngineInit == Init => EngineInv
BY DEF Init, EngineInv, Serving, Sends, At, Threads

\* Hence all of this always holds.
LEMMA EngineAlways == Spec => [](TypeOK /\ GameInv /\ SessionInv /\ EngineInv)
<1>1. /\ Init => GameInv /\ SessionInv /\ EngineInv
      /\ /\ TypeOK /\ LockInv /\ GameInv /\ SessionInv /\ EngineInv /\ [Next]_vars
         => GameInv' /\ SessionInv' /\ EngineInv'
  BY GameInit, SessionInit, EngineInit, GameStep, SessionStep, EngineStep
<1>. QED  BY <1>1, TypeCorrect, LockAlways, PTL DEF Spec

-----------------------------------------------------------------------------
(***************************************************************************)
(* Halts that overtake an acknowledgement.                                 *)
(***************************************************************************)

\* The halt that has overtaken it lasts until the thread that could continue
\* it has sent the acknowledgement.
LEMMA OvertakenStep ==
  ASSUME TypeOK, GameInv, SessionInv, OvertakenInv, [Next]_vars
  PROVE  OvertakenInv'
<1>. USE DEF TypeOK, OvertakenInv, OvertakenOnce, AckPending, At, Goto, Send, Threads,
         Locks, Session, HaltVars, History, Invoker, Release
<1>1. CASE Broadcasts
  <2>1. PICK t \in Threads : \/ LockConnections(t) \/ SendEnds(t)
                             \/ \E c \in Conns : SendOne(t, c) \/ SendThrows(t, c)
    BY <1>1 DEF Broadcasts
  <2>2. UNCHANGED <<Session, HaltVars, overtaken>>
    BY <2>1 DEF LockConnections, SendEnds, SendOne, SendThrows
  <2>3. AckPending' => AckPending
    <3>1. CASE t = "game"
      BY <2>1, <3>1 DEF LockConnections, SendEnds, SendOne, SendThrows
    <3>2. CASE t = "net"
      BY <2>1, <3>2 DEF LockConnections, SendEnds, SendOne, SendThrows
    <3>. QED  BY <3>1, <3>2
  <2>. QED  BY <2>2, <2>3
<1>2. CASE Quiet
  BY <1>2 DEF Quiet, GameStarts, GameFrame, GameNextFrame, GameEcho
<1>3. CASE GameHalts
  <2>1. ~event
    BY <1>3 DEF GameHalts, GameInv, Sends
  <2>2. overtaken' = IF AckPending /\ clientConnected /\ overtaken < 2
                     THEN overtaken + 1 ELSE overtaken
    BY <1>3 DEF GameHalts
  <2>3. overtaken' <= 1
    BY <2>1, <2>2
  <2>4. event' /\ ~released'
    BY <1>3 DEF GameHalts
  <2>. QED  BY <2>3, <2>4
<1>4. CASE HaltStep
  <2>1. UNCHANGED <<Session, overtaken>> /\ (AckPending' <=> AckPending)
    BY <1>4 DEF HaltStep, GameChecksClient, GameResumes
  <2>2. clientConnected /\ ~released => UNCHANGED <<event, released>>
    BY <1>4 DEF HaltStep, GameChecksClient, GameResumes
  <2>. QED  BY <2>1, <2>2
<1>5. CASE Visits
  <2>1. CASE NetClosed
    BY <2>1 DEF NetClosed
  <2>2. CASE NetInserts \/ NetOpened \/ NetErases
    <3>1. UNCHANGED overtaken /\ ~AckPending'
      BY <2>2 DEF NetInserts, NetOpened, NetErases
    <3>. QED  BY <3>1
  <2>. QED  BY <1>5, <2>1, <2>2 DEF Visits
<1>6. CASE Comings
  <2>1. UNCHANGED overtaken /\ ~AckPending'
    BY <1>6 DEF Comings, Connect, PeerCloses, Disconnect, NetIdle
  <2>. QED  BY <2>1
<1>7. CASE EngineUse
  <2>1. UNCHANGED overtaken /\ ~AckPending'
    BY <1>7 DEF EngineUse, NetTestsState, NetTestsAgain, NetTakes,
         NetTakesInvoker, NetTakesAgain, NetUsesEngine, AfterFirstGuard
  <2>. QED  BY <2>1
<1>8. CASE Receptions
  <2>1. UNCHANGED overtaken /\ ~AckPending'
    BY <1>8, ReceiveTypes DEF Receptions, NetAnswers, NetNeedsEngine
  <2>. QED  BY <2>1
<1>9. CASE Commanding
  <2>1. overtaken' \in {0, overtaken} /\ (overtaken' # 0 => ~AckPending')
    BY <1>9, ReceiveTypes DEF Commanding, NetKeepsSilent, NetPauses, NetContinues,
       NetGetsProfile, NetExecutes
  <2>. QED  BY <2>1
<1>10. CASE UNCHANGED vars
  BY <1>10 DEF vars
<1>11. CASE NetCodeHalts
  BY <1>11 DEF NetCodeHalts
<1>. QED
  BY StepCases, <1>1, <1>2, <1>3, <1>4, <1>5, <1>6, <1>7, <1>8, <1>9, <1>10, <1>11

\* Two halts in a row never overtake an acknowledgement.
THEOREM OneHaltOvertakes == Spec => []OvertakenOnce
<1>1. Init => OvertakenInv
  BY DEF Init, OvertakenInv, OvertakenOnce
<1>2. OvertakenInv => OvertakenOnce
  BY DEF OvertakenInv
<1>. QED  BY <1>1, <1>2, OvertakenStep, EngineAlways, PTL DEF Spec

-----------------------------------------------------------------------------
(***************************************************************************)
(* Who waits for the engine.                                               *)
(***************************************************************************)

\* A broadcast tells the clients what it says, and nothing else changes for
\* them; one that throws has a closing connection left, and the message about
\* it will throw again.
LEMMA DebugBroadcast ==
  ASSUME TypeOK, LockInv, GameInv, EngineInv, DebugInv, NEW t \in Threads,
         \/ LockConnections(t) \/ SendEnds(t)
         \/ \E c \in Conns : SendOne(t, c) \/ SendThrows(t, c)
  PROVE  DebugInv'
<1>. USE DEF TypeOK, Serving, At, Goto, Send, Threads, Locks, Session, HaltVars, History,
         Invoker, Release
<1>1. UNCHANGED <<Session, HaltVars, cmd>>
  BY DEF LockConnections, SendEnds, SendOne, SendThrows
<1>2. CASE LockConnections(t)
  <2>1. CASE t = "game"
    <3>1. /\ At("game", "lock") /\ pc' = [pc EXCEPT !["game"] = "sending"]
          /\ UNCHANGED <<msg, seen>> /\ ~At("net", "sending")
      BY <1>2, <2>1 DEF LockConnections, LockInv
    <3>2. AckClears => AckClears'
      BY <1>1, <3>1 DEF AckClears
    <3>. QED  BY <1>1, <3>1, <3>2 DEF DebugInv
  <2>2. CASE t = "net"
    BY <1>2, <2>2 DEF LockConnections, DebugInv, AckClears, LockInv
  <2>. QED  BY <2>1, <2>2
<1>3. CASE SendEnds(t)
  <2>1. CASE t = "game"
    BY <1>3, <2>1 DEF SendEnds, DebugInv, AckClears, LockInv
  <2>2. CASE t = "net"
    BY <1>3, <2>2 DEF SendEnds, DebugInv, AckClears, LockInv
  <2>. QED  BY <2>1, <2>2
<1>4. ASSUME NEW c \in Conns, SendOne(t, c) PROVE DebugInv'
  <2>0. /\ UNCHANGED <<pc, msg, owner>> /\ left' = left \ {c}
        /\ c \in left /\ At(t, "sending") /\ owner = t /\ conn[c] = "open"
        /\ left \subseteq connections
    BY <1>4 DEF SendOne, LockInv
  <2>1. CASE t = "game"
    <3>1. seen' \in {seen, seen \cup {c}, seen \ {c}}
      BY <1>4 DEF SendOne
    <3>2. msg["game"] = "halt" => seen' = seen \cup {c}
      BY <1>4, <2>1 DEF SendOne
    <3>3. msg["game"] # "halt" => seen' \subseteq seen
      BY <1>4, <2>1 DEF SendOne
    <3>4. ~At("net", "sending")
      BY <2>0, <2>1 DEF LockInv
    <3>5. AckClears /\ seen' \subseteq seen \cup {c} => AckClears'
      BY <1>1, <2>0, <3>4 DEF AckClears
    <3>6. At("net", "lock") /\ msg["net"] = "ack" /\ seen = {} /\ seen' \subseteq {c}
            => AckClears'
      BY <1>1, <2>0 DEF AckClears
    <3>7. clientConnected /\ state # "breakState" /\ seen' # {} => AckClears'
      BY <2>0, <2>1, <3>2, <3>3, <3>5, <3>6 DEF DebugInv
    <3>. QED  BY <1>1, <2>0, <2>1, <3>7 DEF DebugInv
  <2>2. CASE t = "net"
    <3>1. seen' = IF msg["net"] = "ack" THEN seen \ {c} ELSE seen
      BY <1>4, <2>2 DEF SendOne, EngineInv, Sends
    <3>2. AckClears => AckClears'
      BY <1>1, <2>0, <2>2, <3>1 DEF AckClears
    <3>. QED  BY <1>1, <2>0, <2>2, <3>1, <3>2 DEF DebugInv
  <2>. QED  BY <2>1, <2>2
<1>5. ASSUME NEW c \in Conns, SendThrows(t, c) PROVE DebugInv'
  <2>0. c \in connections /\ conn[c] # "open" /\ At(t, "sending") /\ seen' = seen
    BY <1>5 DEF SendThrows, LockInv
  <2>1. CASE t = "game"
    <3>1. /\ pc' = [pc EXCEPT !["game"] = "crashed"] /\ msg' = msg
          /\ owner = "game" /\ left' = {}
      BY <1>5, <2>1 DEF SendThrows
    <3>2. ~At("net", "sending")
      BY <3>1 DEF LockInv
    <3>3. AckClears => AckClears'
      BY <1>1, <2>0, <3>1, <3>2 DEF AckClears
    <3>. QED  BY <1>1, <2>0, <2>1, <3>1, <3>3 DEF DebugInv
  <2>2. CASE t = "net"
    <3>1. \/ At("net", "stopped")' /\ UNCHANGED msg
          \/ At("net", "lock")' /\ msg' = [msg EXCEPT !["net"] = "exception"]
      BY <1>5, <2>2 DEF SendThrows
    <3>2. pc'["game"] = pc["game"] /\ msg'["game"] = msg["game"]
      BY <1>5, <2>2 DEF SendThrows
    <3>3. AckClears'
      BY <1>1, <2>0, <3>1 DEF AckClears
    <3>4. ~At("game", "sending")
      BY <2>0, <2>2 DEF LockInv
    <3>. QED  BY <1>1, <2>0, <3>1, <3>2, <3>3, <3>4 DEF DebugInv
  <2>. QED  BY <2>1, <2>2
<1>. QED  BY <1>2, <1>3, <1>4, <1>5

\* Every step of a session of debugging clients keeps what they believe right.
LEMMA DebugStep ==
  ASSUME TypeOK, LockInv, GameInv, SessionInv, EngineInv, DebugInv,
         mode = "debug", [Next]_vars
  PROVE  DebugInv'
<1>. USE DEF TypeOK, Serving, At, Goto, Send, Threads, Locks, Session, HaltVars, History,
         Invoker, Release
<1>1. CASE Broadcasts
  BY <1>1, DebugBroadcast DEF Broadcasts
<1>2. CASE Quiet
  <2>1. /\ pc'["net"] = pc["net"] /\ msg'["net"] = msg["net"]
        /\ UNCHANGED <<Session, HaltVars, cmd, seen, left>>
        /\ ~At("game", "startup")'
        /\ At("game", "startup") => clientConnected
        /\ At("game", "lock")' => msg'["game"] # "halt"
        /\ ~At("game", "sending")'
    BY <1>2 DEF Quiet, GameStarts, GameFrame, GameNextFrame, GameEcho
  <2>2. AckClears' <=> AckClears
    BY <2>1 DEF AckClears
  <2>. QED  BY <2>1, <2>2 DEF DebugInv
<1>3. CASE GameHalts
  <2>1. /\ pc' = [pc EXCEPT !["game"] = "lock"] /\ seen' = {}
        /\ state' = "breakState" /\ UNCHANGED <<Session, cmd>> /\ At("game", "run")
    BY <1>3 DEF GameHalts
  <2>. QED  BY <2>1 DEF DebugInv
<1>4. CASE HaltStep
  <2>1. /\ pc'["net"] = pc["net"] /\ msg'["net"] = msg["net"]
        /\ UNCHANGED <<Session, cmd, seen, left>>
        /\ pc["game"] \in {"checkClient", "wait"}
        /\ pc'["game"] \in {"wait", "lock", "run"}
        /\ At("game", "lock")' => msg'["game"] = "ack"
        /\ clientConnected => state' = state
    BY <1>4 DEF HaltStep, GameChecksClient, GameResumes
  <2>2. AckClears' <=> AckClears
    BY <2>1 DEF AckClears
  <2>3. state' \in {"running", state}
    BY <1>4, ContinueEnds DEF HaltStep, GameChecksClient, GameResumes
  <2>. QED  BY <2>1, <2>2, <2>3 DEF DebugInv, EngineInv
<1>5. CASE NetInserts \/ NetErases
  <2>1. /\ pc["net"] \in {"openLock", "closeLock"}
        /\ pc'["net"] \in {"opened", "closed"}
        /\ pc'["game"] = pc["game"] /\ msg' = msg
        /\ UNCHANGED <<clientConnected, HaltVars, seen>>
    BY <1>5 DEF NetInserts, NetErases
  <2>. QED  BY <2>1 DEF DebugInv, AckClears
<1>6. CASE NetOpened
  <2>1. /\ At("net", "opened") /\ At("net", "idle")' /\ clientConnected'
        /\ pc'["game"] = pc["game"] /\ msg' = msg
        /\ UNCHANGED <<HaltVars, seen>>
    BY <1>6 DEF NetOpened
  <2>2. CASE clientConnected
    BY <2>1, <2>2 DEF DebugInv, AckClears
  <2>3. CASE ~clientConnected
    BY <2>1, <2>3 DEF DebugInv
  <2>. QED  BY <2>2, <2>3
<1>7. CASE NetClosed
  <2>1. /\ At("net", "closed") /\ clientConnected
        /\ pc'["game"] = pc["game"] /\ msg'["game"] = msg["game"] /\ seen' = seen
        /\ clientConnected' = (connections # {})
    BY <1>7 DEF NetClosed, SessionInv
  <2>2. CASE connections # {}
    BY <1>7, <2>1, <2>2 DEF NetClosed, DebugInv, AckClears
  <2>3. CASE connections = {}
    <3>1. At("net", "lock")' /\ state' = "running"
      BY <1>7, <2>3, ContinueEnds DEF NetClosed
    <3>. QED  BY <2>1, <2>3, <3>1 DEF DebugInv
  <2>. QED  BY <2>2, <2>3
<1>8. CASE Comings
  <2>1. /\ At("net", "idle") /\ pc'["net"] \in {"idle", "openLock", "closeLock"}
        /\ pc'["game"] = pc["game"] /\ msg' = msg
        /\ UNCHANGED <<HaltVars, seen, clientConnected>>
    BY <1>8 DEF Comings, Connect, PeerCloses, Disconnect, NetIdle
  <2>2. At("game", "startup") \/ clientConnected \/ At("net", "idle")'
    <3>1. PICK c \in Conns : Connect(c) \/ PeerCloses(c) \/ Disconnect(c)
      BY <1>8 DEF Comings
    <3>2. CASE Disconnect(c)
      BY <2>1, <3>2 DEF Disconnect, SessionInv, Present
    <3>. QED  BY <2>1, <3>1, <3>2 DEF Connect, PeerCloses
  <2>. QED  BY <2>1, <2>2 DEF DebugInv, AckClears
<1>9. CASE EngineUse
  <2>1. /\ pc["net"] \in Serving => state = "breakState"
        /\ At("net", "waitInvoker") => cmd = "profile"
    BY DEF DebugInv
  <2>2. /\ pc'["game"] = pc["game"] /\ msg'["game"] = msg["game"]
        /\ UNCHANGED <<HaltVars, seen, clientConnected>>
    BY <1>9 DEF EngineUse, NetTestsState, NetTestsAgain, NetTakes, NetTakesInvoker,
       NetTakesAgain, NetUsesEngine
  <2>3. pc["net"] \in Serving
    BY <1>9 DEF EngineUse, NetTestsState, NetTestsAgain, NetTakes, NetTakesInvoker,
       NetTakesAgain, NetUsesEngine
  <2>4. pc'["net"] \in {"needAgain", "engine", "lock"}
    BY <1>9, <2>1, <2>3 DEF EngineUse, NetTestsState, NetTestsAgain, NetTakes,
       NetTakesInvoker, NetTakesAgain, NetUsesEngine, AfterFirstGuard
  <2>. QED  BY <2>1, <2>2, <2>3, <2>4 DEF DebugInv, AckClears
<1>10. CASE Receptions
  <2>1. PICK c \in Conns, k \in Kinds : NetAnswers(c, k) \/ NetNeedsEngine(c, k)
    BY <1>10 DEF Receptions
  <2>2. Receive(c, k)
    BY <2>1 DEF NetAnswers, NetNeedsEngine
  <2>3. /\ clientConnected /\ At("net", "idle") /\ UNCHANGED Session
        /\ k \in EngineCommands => seen # {}
    BY <2>2, SenderIsConnected, ReceiveTypes DEF Receive, Polite
  <2>4. seen # {} => state = "breakState"
    BY <2>3 DEF DebugInv, AckClears
  <2>5. /\ pc'["net"] = "lock" \/ (pc'["net"] = "needInvoker" /\ seen # {})
        /\ pc'["game"] = pc["game"] /\ msg'["game"] = msg["game"]
        /\ UNCHANGED <<HaltVars, seen>>
    <3>1. CASE NetAnswers(c, k)
      <4>1. PICK m \in {"exception", "reply"} : Send("net", m)
        BY <3>1 DEF NetAnswers
      <4>2. UNCHANGED <<HaltVars, seen>>
        BY <3>1 DEF NetAnswers
      <4>. QED  BY <4>1, <4>2
    <3>2. CASE NetNeedsEngine(c, k)
      BY <2>3, <3>2 DEF NetNeedsEngine
    <3>. QED  BY <2>1, <3>1, <3>2
  <2>. QED  BY <2>3, <2>4, <2>5 DEF DebugInv
<1>11. CASE Commanding
  <2>1. PICK c \in Conns : NetKeepsSilent(c) \/ NetPauses(c) \/ NetContinues(c)
                             \/ NetGetsProfile(c) \/ NetExecutes(c)
    BY <1>11 DEF Commanding
  <2>2. ~NetPauses(c)
    BY DEF NetPauses, Receive, Polite
  <2>3. CASE NetKeepsSilent(c)
    BY <2>3, ReceiveTypes DEF NetKeepsSilent, DebugInv, AckClears
  <2>4. CASE NetContinues(c)
    <3>1. Receive(c, "continue")
      BY <2>4 DEF NetContinues
    <3>2. clientConnected /\ clientConnected' /\ c \in seen /\ At("net", "idle")
      BY <3>1, SenderIsConnected, ReceiveTypes DEF Receive, Polite
    <3>3. /\ At("net", "lock")' /\ msg'["net"] = "ack" /\ seen' = {}
          /\ state' = "running"
          /\ pc'["game"] = pc["game"] /\ msg'["game"] = msg["game"]
      BY <2>4, ContinueEnds DEF NetContinues
    <3>. QED  BY <3>2, <3>3 DEF DebugInv
  <2>5. CASE NetGetsProfile(c)
    <3>1. Receive(c, "profile") /\ cmd' = "profile" /\ UNCHANGED Session
      BY <2>5, ReceiveTypes DEF NetGetsProfile, Receive
    <3>2. /\ pc'["net"] = "lock" \/ (pc'["net"] = "waitInvoker" /\ state = "breakState")
          /\ pc'["game"] = pc["game"] /\ msg'["game"] = msg["game"]
          /\ UNCHANGED <<HaltVars, seen>>
      BY <2>5 DEF NetGetsProfile
    <3>3. clientConnected /\ At("net", "idle")
      BY <3>1, SenderIsConnected, ReceiveTypes
    <3>. QED  BY <3>1, <3>2, <3>3 DEF DebugInv, AckClears
  <2>6. CASE NetExecutes(c)
    <3>1. Receive(c, "execute")
      BY <2>6 DEF NetExecutes
    <3>2. clientConnected /\ clientConnected' /\ c \in seen /\ At("net", "idle")
      BY <3>1, SenderIsConnected, ReceiveTypes DEF Receive, Polite
    <3>3. state = "breakState"
      BY <3>2 DEF DebugInv, AckClears
    <3>4. /\ At("net", "engine")' /\ pc'["game"] = pc["game"]
          /\ UNCHANGED <<msg, HaltVars, seen>>
      BY <2>6 DEF NetExecutes
    <3>. QED  BY <3>2, <3>3, <3>4 DEF DebugInv
  <2>. QED  BY <2>1, <2>2, <2>3, <2>4, <2>5, <2>6
<1>12. CASE UNCHANGED vars
  BY <1>12 DEF vars, DebugInv, AckClears
<1>13. CASE NetCodeHalts
  <2>1. /\ At("net", "engine") /\ At("net", "codeWaits")' /\ state' = "breakState"
        /\ pc'["game"] = pc["game"] /\ msg' = msg
        /\ UNCHANGED <<Session, seen>>
    BY <1>13 DEF NetCodeHalts
  <2>. QED  BY <2>1 DEF DebugInv, Serving
<1>. QED
  BY StepCases, <1>1, <1>2, <1>3, <1>4, <1>5, <1>6, <1>7, <1>8, <1>9, <1>10, <1>11,
     <1>12,
     <1>13 DEF Visits

\* Clients that only pause never need the engine, and while clients browse
\* nothing halts.
LEMMA WaitStep ==
  ASSUME TypeOK, LockInv, GameInv, SessionInv, EngineInv, WaitInv,
         [Next]_vars
  PROVE  WaitInv'
<1>. USE DEF TypeOK, Serving, At, Goto, Send, Threads, Locks, Session, HaltVars, History,
         Invoker, Release
<1>1. mode' = mode
  <2>1. CASE Broadcasts
    BY <2>1 DEF Broadcasts, LockConnections, SendEnds, SendOne, SendThrows
  <2>2. CASE Quiet \/ GameHalts \/ HaltStep \/ Visits
    BY <2>2 DEF Quiet, GameStarts, GameFrame, GameNextFrame, GameEcho, GameHalts,
       HaltStep, GameChecksClient, GameResumes, Visits, NetInserts, NetOpened,
       NetErases, NetClosed
  <2>3. CASE Comings \/ EngineUse \/ NetCodeHalts
    BY <2>3 DEF NetCodeHalts, Comings, Connect, PeerCloses, Disconnect, EngineUse,
       NetTestsState,
       NetTestsAgain, NetTakes, NetTakesInvoker, NetTakesAgain, NetUsesEngine
  <2>4. CASE Receptions \/ Commanding
    BY <2>4, ReceiveTypes DEF Receptions, NetAnswers, NetNeedsEngine, Commanding,
       NetKeepsSilent, NetPauses, NetContinues, NetGetsProfile, NetExecutes
  <2>. QED  BY StepCases, <2>1, <2>2, <2>3, <2>4 DEF vars
<1>2. CASE mode = "debug"
  BY <1>1, <1>2, DebugStep DEF WaitInv
<1>3. CASE mode = "browse"
  <2>1. ~event
    BY <1>3 DEF WaitInv
  <2>2. ~event'
    <3>1. CASE Broadcasts
      BY <2>1, <3>1 DEF Broadcasts, LockConnections, SendEnds, SendOne, SendThrows
    <3>2. CASE Quiet
      BY <2>1, <3>2 DEF Quiet, GameStarts, GameFrame, GameNextFrame, GameEcho
    <3>3. ~GameHalts
      BY <1>3 DEF GameHalts, HaltsOccur
    <3>4. CASE HaltStep
      BY <2>1, <3>4, ContinueEnds DEF HaltStep, GameChecksClient, GameResumes
    <3>5. CASE Visits
      BY <2>1, <3>5, ContinueEnds DEF Visits, NetInserts, NetOpened, NetErases,
         NetClosed
    <3>6. CASE Comings \/ EngineUse \/ NetCodeHalts
      BY <2>1, <3>6 DEF NetCodeHalts, Comings, Connect, PeerCloses, Disconnect, EngineUse,
         NetTestsState, NetTestsAgain, NetTakes,
         NetTakesInvoker, NetTakesAgain, NetUsesEngine, AfterFirstGuard
    <3>7. CASE Receptions \/ Commanding
      BY <2>1, <3>7, ContinueEnds DEF Receptions, NetAnswers, NetNeedsEngine,
         Commanding, NetKeepsSilent, NetPauses, NetContinues, NetGetsProfile, NetExecutes
    <3>. QED  BY StepCases, <2>1, <3>1, <3>2, <3>3, <3>4, <3>5, <3>6, <3>7 DEF vars
  <2>. QED  BY <1>1, <1>3, <2>2 DEF WaitInv
<1>4. CASE mode = "pause"
  <2>. DEFINE NoEngine == /\ pc["net"] \notin {"needInvoker", "needAgain", "waitAgain"}
                          /\ At("net", "waitInvoker") => cmd = "profile"
  <2>1. NoEngine
    BY <1>4 DEF WaitInv
  <2>2. NoEngine'
    <3>1. CASE Broadcasts
      BY <2>1, <3>1 DEF Broadcasts, LockConnections, SendEnds, SendOne, SendThrows
    <3>2. CASE Quiet \/ GameHalts \/ HaltStep \/ NetCodeHalts
      BY <2>1, <3>2 DEF Quiet, GameStarts, GameFrame, GameNextFrame, GameEcho,
         GameHalts, HaltStep, GameChecksClient, GameResumes, NetCodeHalts
    <3>3. CASE Visits \/ Comings
      BY <2>1, <3>3 DEF Visits, NetInserts, NetOpened, NetErases, NetClosed, Comings,
         Connect, PeerCloses, Disconnect
    <3>4. CASE EngineUse
      BY <2>1, <3>4 DEF EngineUse, NetTestsState, NetTestsAgain, NetTakes,
         NetTakesInvoker, NetTakesAgain, NetUsesEngine, AfterFirstGuard
    <3>5. CASE Receptions
      <4>1. PICK c \in Conns, k \in Kinds : NetAnswers(c, k) \/ NetNeedsEngine(c, k)
        BY <3>5 DEF Receptions
      <4>2. ~NetNeedsEngine(c, k)
        BY <1>4 DEF NetNeedsEngine, Receive, Polite
      <4>. QED  BY <4>1, <4>2 DEF NetAnswers
    <3>6. CASE Commanding
      <4>1. PICK c \in Conns : NetKeepsSilent(c) \/ NetPauses(c) \/ NetContinues(c)
                                 \/ NetGetsProfile(c) \/ NetExecutes(c)
        BY <3>6 DEF Commanding
      <4>. QED  BY <2>1, <4>1 DEF NetKeepsSilent, NetPauses, NetContinues,
                NetGetsProfile, NetExecutes, Receive, NetIdle
    <3>. QED  BY StepCases, <2>1, <3>1, <3>2, <3>3, <3>4, <3>5, <3>6 DEF vars
  <2>. QED  BY <1>1, <1>4, <2>2 DEF WaitInv
<1>5. CASE mode \notin {"debug", "pause", "browse"}
  BY <1>1, <1>5 DEF WaitInv
<1>. QED  BY <1>2, <1>3, <1>4, <1>5

\* Nobody waits at the start.
LEMMA WaitInit == Init => WaitInv
BY DEF Init, WaitInv, DebugInv, Serving, At, Threads

\* Hence this always holds, too.
LEMMA WaitAlways == Spec => []WaitInv
BY WaitInit, WaitStep, EngineAlways, LockAlways, PTL DEF Spec

\* Script commands of the network thread never run beside the game's scripts:
\* those that test the state whatever clients do, executed code if its client
\* debugs and knows of the halt.
THEOREM EngineIsExclusive == Spec => []EngineExclusive
<1>1. TypeOK /\ GameInv /\ EngineInv /\ WaitInv => EngineExclusive
  BY DEF TypeOK, GameInv, EngineInv, WaitInv, DebugInv, Serving, EngineExclusive, At,
     Threads
<1>. QED  BY EngineAlways, WaitAlways, <1>1, PTL

\* But for a profile variable, the network thread does not wait for the invoker
\* in a halt that only it could end, as long as no client is careless.
THEOREM NobodyWaitsInVain ==
  ASSUME "careless" \notin Modes
  PROVE  Spec => []NoWaitInHalt
<1>1. TypeOK => mode \in {"debug", "pause", "browse"}
  BY CommandsAssumption DEF TypeOK
<1>2. GameInv /\ EngineInv /\ WaitInv /\ TypeOK => NoWaitInHalt
  BY <1>1 DEF GameInv, EngineInv, WaitInv, DebugInv, NoWaitInHalt, At, Sends
<1>. QED  BY WaitAlways, EngineAlways, <1>1, <1>2, PTL

-----------------------------------------------------------------------------
(***************************************************************************)
(* Who waits for whom.                                                     *)
(***************************************************************************)

\* A game thread in a halt has an event somebody can set; a network thread
\* with the invoker lock is in a script command or at the answer to it.
HolderInv ==
  /\ pc["game"] \in {"checkClient", "wait"} => event
  /\ Sends("game") /\ msg["game"] \in {"halt", "ack"} => event
  /\ invoker = "net" => \/ pc["net"] \in {"needAgain", "waitAgain", "engine", "codeWaits"}
                        \/ Sends("net") /\ msg["net"] = "reply"

\* Every step keeps it.
LEMMA HolderStep ==
  ASSUME TypeOK, GameInv, HolderInv, [Next]_vars
  PROVE  HolderInv'
<1>. USE DEF TypeOK, GameInv, HolderInv, Sends, At, Goto, Send, Threads, Locks,
         Session, HaltVars, History, Invoker, Release
<1>1. CASE Broadcasts
  <2>1. PICK t \in Threads : \/ LockConnections(t) \/ SendEnds(t)
                             \/ \E c \in Conns : SendOne(t, c) \/ SendThrows(t, c)
    BY <1>1 DEF Broadcasts
  <2>2. CASE LockConnections(t)
    BY <2>2 DEF LockConnections
  <2>3. CASE SendEnds(t)
    <3>1. CASE t = "game"
      BY <2>3, <3>1 DEF SendEnds
    <3>2. CASE t = "net"
      BY <2>3, <3>2 DEF SendEnds
    <3>. QED  BY <3>1, <3>2
  <2>4. ASSUME NEW c \in Conns, SendOne(t, c) PROVE HolderInv'
    BY <2>4 DEF SendOne
  <2>5. ASSUME NEW c \in Conns, SendThrows(t, c) PROVE HolderInv'
    <3>1. CASE t = "game"
      BY <2>5, <3>1 DEF SendThrows
    <3>2. CASE t = "net"
      BY <2>5, <3>2 DEF SendThrows
    <3>. QED  BY <3>1, <3>2
  <2>. QED  BY <2>1, <2>2, <2>3, <2>4, <2>5
<1>2. CASE Quiet
  BY <1>2 DEF Quiet, GameStarts, GameFrame, GameNextFrame, GameEcho
<1>3. CASE GameHalts
  BY <1>3 DEF GameHalts
<1>4. CASE HaltStep
  <2>1. CASE GameChecksClient
    BY <2>1, ContinueEnds DEF GameChecksClient
  <2>2. CASE GameResumes
    BY <2>2 DEF GameResumes
  <2>. QED  BY <1>4, <2>1, <2>2 DEF HaltStep
<1>5. CASE Visits
  <2>1. CASE NetClosed
    BY <2>1, ContinueEnds DEF NetClosed
  <2>2. CASE NetInserts
    BY <2>2 DEF NetInserts
  <2>3. CASE NetOpened
    BY <2>3 DEF NetOpened
  <2>4. CASE NetErases
    BY <2>4 DEF NetErases
  <2>. QED  BY <1>5, <2>1, <2>2, <2>3, <2>4 DEF Visits
<1>6. CASE Comings
  BY <1>6 DEF Comings, Connect, PeerCloses, Disconnect, NetIdle
<1>7. CASE EngineUse
  BY <1>7 DEF EngineUse, NetTestsState, NetTestsAgain, NetTakes,
         NetTakesInvoker, NetTakesAgain, NetUsesEngine, AfterFirstGuard
<1>8. CASE Receptions
  BY <1>8, ReceiveTypes DEF Receptions, NetAnswers, NetNeedsEngine
<1>9. CASE Commanding
  <2>1. PICK c \in Conns : NetKeepsSilent(c) \/ NetPauses(c) \/ NetContinues(c)
                             \/ NetGetsProfile(c) \/ NetExecutes(c)
    BY <1>9 DEF Commanding
  <2>2. CASE NetContinues(c)
    BY <2>2, ReceiveTypes, ContinueEnds DEF NetContinues
  <2>. QED  BY <2>1, <2>2, ReceiveTypes DEF NetKeepsSilent, NetPauses, NetGetsProfile,
            NetExecutes
<1>10. CASE UNCHANGED vars
  BY <1>10 DEF vars
<1>11. CASE NetCodeHalts
  BY <1>11 DEF NetCodeHalts
<1>. QED
  BY StepCases, <1>1, <1>2, <1>3, <1>4, <1>5, <1>6, <1>7, <1>8, <1>9, <1>10, <1>11

\* The three invariants leave no circle: a holder of m_connection_lock is in a
\* broadcast and waits for nothing, a network thread with the invoker lock is
\* past waiting for it, and a thread that waits for it meets no open halt.
LEMMA NoCircle ==
  ASSUME TypeOK, LockInv, GameInv, EngineInv, HolderInv, NoWaitInHalt, Reentrant
  PROVE  NoCircularWait
<1>. SUFFICES ASSUME NEW t \in Threads, NEW u \in Threads, Waits(t, u), Waits(u, t),
                     ~At("net", "codeWaits")
              PROVE  Entangled
  BY DEF NoCircularWait, Entangled
<1>. USE DEF At, Threads
<1>1. \A a, b \in Threads : owner = b /\ pc[a] \in {"lock", "openLock", "closeLock"}
        => ~Waits(b, a)
  <2>. SUFFICES ASSUME NEW a \in Threads, NEW b \in Threads, owner = b,
                       pc[a] \in {"lock", "openLock", "closeLock"}, Waits(b, a)
                PROVE  FALSE
    OBVIOUS
  <2>1. pc[b] = "sending"
    BY DEF LockInv
  <2>. QED  BY <2>1 DEF Waits
<1>2. ASSUME NEW a \in Threads, NEW b \in Threads, Waits(a, b), Waits(b, a)
      PROVE  \/ invoker = b /\ pc[a] \in {"waitInvoker", "frame"}
             \/ a = "game" /\ b = "net" /\ pc[a] = "wait" /\ ~released
  <2>1. ~(invoker = b /\ At(a, "waitAgain") /\ (a = b => ~Reentrant))
    BY DEF TypeOK, GameLabels, EngineInv
  <2>. QED  BY <1>1, <1>2, <2>1 DEF Waits
<1>3. /\ pc["game"] # "waitInvoker" /\ pc["net"] # "frame"
      /\ invoker = "game" => pc["game"] # "frame"
      /\ invoker = "net" => pc["net"] # "waitInvoker"
  BY DEF TypeOK, GameLabels, NetLabels, GameInv, HolderInv, Sends
<1>4. /\ pc["game"] = "wait" /\ ~released
      /\ pc["net"] = "waitInvoker"
  BY <1>2, <1>3
<1>. QED  BY <1>4 DEF HolderInv, NoWaitInHalt, Entangled

\* If no client is careless and the host's lock may be taken twice, no thread
\* waits for itself and the two never wait for one another, not over the locks
\* and not over a halt: but for executed code that halts, and a profile
\* variable that is asked for in a halt.
THEOREM NobodyIsStuck ==
  ASSUME "careless" \notin Modes, Reentrant
  PROVE  Spec => []NoCircularWait
<1>1. Init => HolderInv
  BY DEF Init, HolderInv, Sends, At, Threads
<1>2. TypeOK /\ GameInv /\ HolderInv /\ [Next]_vars => HolderInv'
  BY HolderStep
<1>3. TypeOK /\ LockInv /\ GameInv /\ EngineInv /\ HolderInv /\ NoWaitInHalt
        => NoCircularWait
  BY NoCircle
<1>. QED  BY <1>1, <1>2, <1>3, LockAlways, EngineAlways, NobodyWaitsInVain,
    PTL DEF Spec
=============================================================================
