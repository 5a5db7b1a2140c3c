------------------------ MODULE HaltProtocol_proofs ------------------------
(***************************************************************************)
(* Theorems about HaltProtocol for every number of connections.            *)
(*                                                                         *)
(* For all clients: the type invariant, no dangling instruction pointer,   *)
(* what may drop a pause request, and the safety part of the refinement of *)
(* HaltContract.                                                           *)
(* For patient clients (one that attaches before scripts run, stays, and   *)
(* answers a halt once, after seeing it): no null dereference, what the    *)
(* client believes is true, and a step command stays armed.                *)
(***************************************************************************)
EXTENDS HaltProtocol, TLAPS

\* From the publication of the event to its reset.
HaltedLabels == {"setState", "setInfo", "sendHalt", "checkClient", "dropEvent"}
                  \cup WaitLabels \cup CommandLabels

-----------------------------------------------------------------------------
(***************************************************************************)
(* The strengthening for patient clients.                                  *)
(***************************************************************************)

\* "net" inside commandContinue, before the acknowledgement.
Working == CommandLabels \ {"ccSend"}

\* A halt that waits for its answer has one of these two states.
HaltStates == {"breakState", "waitForHalt"}

\* Someone is attached before the first script instruction and stays.
AttachedInv ==
  /\ pc["engine"] \notin CommandLabels /\ pc["net"] # "closed"
  /\ pc["engine"] \notin {"startup", "started"} => clientConnected
  /\ pc["engine"] \in {"startup", "started"} => cmd = "continue"

\* What the engine's program counter says about the event and the pointer.
EngineInv ==
  /\ event <=> pc["engine"] \in {"setState", "setInfo", "sendHalt", "checkClient",
                                 "dropEvent"} \cup WaitLabels
  /\ pc["engine"] = "dropEvent" => second
  /\ pc["engine"] \in {"publish", "setState", "setInfo", "sendHalt"} => ~second
  /\ pc["engine"] \in {"sendHalt", "dropEvent"} \cup {"checkClient"} \cup WaitLabels => info = haltInfo

\* "net" works on a halt only while the engine waits for the answer.
AnswerInv ==
  /\ pc["net"] \in Working => Waiting /\ ~second /\ note = "none"
  /\ pc["net"] \in {"qState", "qInfo"} => note = "seen"
  /\ note # "none" => Waiting /\ ~second /\ state \in HaltStates

\* Debugger::state while a command is handled.
StateInv ==
  /\ BreakStateIsHalted
  /\ pc["engine"] \in {"setInfo", "sendHalt"} => state \in HaltStates
  /\ pc["net"] \in {"ccState", "ccResume"} => state \in HaltStates
  /\ pc["net"] \in {"ccInfo", "ccNoStep", "ccFrame"} => state = "stepState" /\ cmd = "step"
  /\ pc["net"] \in {"ccEvent", "ccNotify", "ccFlag"} => state \in {"running", "stepState"}

\* The step command on its way to the script.
StepInv ==
  /\ pc["net"] = "ccNoStep" => haltInfo = "bare"
  /\ pc["net"] \in {"ccEvent", "ccNotify", "ccFlag"} /\ cmd = "step" /\ haltInfo = "live"
       => state = "stepState"
  /\ Waiting /\ second /\ cmd = "step" /\ haltInfo = "live"
       => state \in {"stepState", "waitForHalt"}
  /\ StepIsArmed

PatientInv ==
  /\ TypeOK /\ NoNullDereference
  /\ AttachedInv /\ EngineInv /\ AnswerInv /\ StateInv /\ StepInv
-----------------------------------------------------------------------------
(***************************************************************************)
(* For all clients.                                                        *)
(***************************************************************************)

\* The debugger's members start with values of their types.
LEMMA TypeInit == Init => TypeOK
<1>1. Init => event \in BOOLEAN /\ second \in BOOLEAN /\ clientConnected \in BOOLEAN
  BY DEF Init
<1>2. QED
  BY <1>1, ConstantsAssumption DEF Init, TypeOK, Threads, States, EngineLabels,
     NetLabels, ScriptLabels

\* Every step keeps every variable in its type.
LEMMA TypeStep == ASSUME TypeOK, [Next]_vars PROVE TypeOK'
<1> USE ConstantsAssumption DEF At, Goto, Session, TypeOK, Threads, States, EngineLabels, NetLabels, ScriptLabels, OnHaltLabels, WaitLabels, OnContinueLabels, CommandLabels
<1>1. CASE EngStartup
  BY <1>1 DEF EngStartup
<1>2. CASE EngFirstScript
  BY <1>2 DEF EngFirstScript
<1>3. CASE EngInstruction
  <2>1. second' \in BOOLEAN
    BY <1>3 DEF EngInstruction, EnterHalt
  <2>2. QED
    BY <1>3, <2>1 DEF EngInstruction, EnterHalt
<1>4. CASE EngScriptHalt
  <2>1. second' \in BOOLEAN
    BY <1>4 DEF EngScriptHalt, EnterHalt
  <2>2. QED
    BY <1>4, <2>1 DEF EngScriptHalt, EnterHalt
<1>5. CASE EngCheckStep
  <2>1. second' \in BOOLEAN
    BY <1>5 DEF EngCheckStep, EnterHalt
  <2>2. QED
    BY <1>5, <2>1 DEF EngCheckStep, EnterHalt
<1>6. CASE EngCheckBreak
  <2>1. second' \in BOOLEAN
    BY <1>6 DEF EngCheckBreak, EnterHalt
  <2>2. QED
    BY <1>6, <2>1 DEF EngCheckBreak, EnterHalt
<1>7. CASE EngPublish
  BY <1>7 DEF EngPublish
<1>8. CASE EngSetState
  BY <1>8 DEF EngSetState
<1>9. CASE EngSetInfo
  BY <1>9 DEF EngSetInfo
<1>10. CASE EngSendHalt
  BY <1>10 DEF EngSendHalt
<1>11. CASE EngCheckClient
  BY <1>11 DEF EngCheckClient
<1>12. CASE EngTest
  BY <1>12 DEF EngTest
<1>13. CASE EngPark
  BY <1>13 DEF EngPark
<1>14. CASE EngTimeout
  BY <1>14 DEF EngTimeout
<1>15. CASE EngAlive
  BY <1>15 DEF EngAlive
<1>16. CASE EngDropEvent
  <2>1. event' \in BOOLEAN
    BY <1>16 DEF EngDropEvent
  <2>2. QED
    BY <1>16, <2>1 DEF EngDropEvent
<1>17. CASE EngDropInfo
  BY <1>17 DEF EngDropInfo
<1>18. CASE NetOpened
  BY <1>18 DEF NetOpened
<1>19. CASE NetClosed
  BY <1>19 DEF NetClosed
<1>20. CASE NetQueryState
  BY <1>20 DEF NetQueryState
<1>21. CASE NetQueryInfo
  BY <1>21 DEF NetQueryInfo
<1>22. CASE NetOpen
  BY <1>22 DEF NetOpen
<1>23. CASE NetClose
  BY <1>23 DEF NetClose
<1>24. CASE ClientSeesHalt
  BY <1>24 DEF ClientSeesHalt
<1>25. CASE NetContinue
  BY <1>25 DEF NetContinue, MaySend
<1>26. CASE NetQuery
  BY <1>26 DEF NetQuery, MaySend
<1>27. CASE NetHaltNow
  BY <1>27 DEF NetHaltNow
<1>28. ASSUME NEW t \in Threads, CCState(t) PROVE TypeOK'
  BY <1>28 DEF CCState
<1>29. ASSUME NEW t \in Threads, CCResume(t) PROVE TypeOK'
  BY <1>29 DEF CCResume, StepType
<1>30. ASSUME NEW t \in Threads, CCInfo(t) PROVE TypeOK'
  BY <1>30 DEF CCInfo
<1>31. ASSUME NEW t \in Threads, CCNoStep(t) PROVE TypeOK'
  BY <1>31 DEF CCNoStep
<1>32. ASSUME NEW t \in Threads, CCFrame(t) PROVE TypeOK'
  BY <1>32 DEF CCFrame
<1>33. ASSUME NEW t \in Threads, CCEvent(t) PROVE TypeOK'
  BY <1>33 DEF CCEvent
<1>34. ASSUME NEW t \in Threads, CCNotify(t) PROVE TypeOK'
  BY <1>34 DEF CCNotify
<1>35. ASSUME NEW t \in Threads, CCFlag(t) PROVE TypeOK'
  <2>1. second' \in BOOLEAN
    BY <1>35 DEF CCFlag
  <2>2. QED
    BY <1>35, <2>1 DEF CCFlag
<1>36. ASSUME NEW t \in Threads, CCSend(t) PROVE TypeOK'
  BY <1>36 DEF CCSend
<1>37. CASE UNCHANGED vars
  BY <1>37 DEF vars
<1>38. QED
  BY <1>1, <1>2, <1>3, <1>4, <1>5, <1>6, <1>7, <1>8, <1>9, <1>10, <1>11, <1>12, <1>13, <1>14, <1>15, <1>16, <1>17, <1>18, <1>19, <1>20, <1>21, <1>22, <1>23, <1>24, <1>25, <1>26, <1>27, <1>28, <1>29, <1>30, <1>31, <1>32, <1>33, <1>34, <1>35, <1>36, <1>37
  DEF Next, EngineNext, EngineStep, NetNext, NetStep, UserNext, UserStep, CommandContinue

\* Type correctness, for every constant.
THEOREM TypeCorrect == Spec => []TypeOK
<1>1. QED
  BY TypeInit, TypeStep, PTL DEF Spec

\* The event is published exactly from line 530 to line 614, the flag is clear
\* when it is, and set when the engine leaves its loop.
EventInv ==
  /\ event <=> pc["engine"] \in HaltedLabels
  /\ pc["engine"] = "publish" => ~second
  /\ pc["engine"] = "dropEvent" => second

\* No access of either thread breaks the bracket around the published event.
LEMMA EventStep == ASSUME TypeOK, EventInv, [Next]_vars PROVE EventInv'
<1> USE DEF At, Goto, Session, TypeOK, Threads, EventInv, HaltedLabels, EngineLabels,
        NetLabels, ScriptLabels, OnHaltLabels, WaitLabels, OnContinueLabels,
        CommandLabels
<1>1. CASE EngStartup
  BY <1>1 DEF EngStartup
<1>2. CASE EngFirstScript
  BY <1>2 DEF EngFirstScript
<1>3. CASE EngInstruction
  BY <1>3 DEF EngInstruction, EnterHalt
<1>4. CASE EngScriptHalt
  BY <1>4 DEF EngScriptHalt, EnterHalt
<1>5. CASE EngCheckStep
  BY <1>5 DEF EngCheckStep, EnterHalt
<1>6. CASE EngCheckBreak
  BY <1>6 DEF EngCheckBreak, EnterHalt
<1>7. CASE EngPublish
  BY <1>7 DEF EngPublish
<1>8. CASE EngSetState
  BY <1>8 DEF EngSetState
<1>9. CASE EngSetInfo
  BY <1>9 DEF EngSetInfo
<1>10. CASE EngSendHalt
  BY <1>10 DEF EngSendHalt
<1>11. CASE EngCheckClient
  BY <1>11 DEF EngCheckClient
<1>12. CASE EngTest
  BY <1>12 DEF EngTest
<1>13. CASE EngPark
  BY <1>13 DEF EngPark
<1>14. CASE EngTimeout
  BY <1>14 DEF EngTimeout
<1>15. CASE EngAlive
  BY <1>15 DEF EngAlive
<1>16. CASE EngDropEvent
  BY <1>16 DEF EngDropEvent
<1>17. CASE EngDropInfo
  BY <1>17 DEF EngDropInfo
<1>18. CASE NetOpened
  BY <1>18 DEF NetOpened
<1>19. CASE NetClosed
  BY <1>19 DEF NetClosed
<1>20. CASE NetQueryState
  BY <1>20 DEF NetQueryState
<1>21. CASE NetQueryInfo
  BY <1>21 DEF NetQueryInfo
<1>22. CASE NetOpen
  BY <1>22 DEF NetOpen
<1>23. CASE NetClose
  BY <1>23 DEF NetClose
<1>24. CASE ClientSeesHalt
  BY <1>24 DEF ClientSeesHalt
<1>25. CASE NetContinue
  BY <1>25 DEF NetContinue, MaySend
<1>26. CASE NetQuery
  BY <1>26 DEF NetQuery, MaySend
<1>27. CASE NetHaltNow
  BY <1>27 DEF NetHaltNow
<1>28. ASSUME NEW t \in Threads, CCState(t) PROVE EventInv'
  BY <1>28 DEF CCState
<1>29. ASSUME NEW t \in Threads, CCResume(t) PROVE EventInv'
  BY <1>29 DEF CCResume, StepType
<1>30. ASSUME NEW t \in Threads, CCInfo(t) PROVE EventInv'
  BY <1>30 DEF CCInfo
<1>31. ASSUME NEW t \in Threads, CCNoStep(t) PROVE EventInv'
  BY <1>31 DEF CCNoStep
<1>32. ASSUME NEW t \in Threads, CCFrame(t) PROVE EventInv'
  BY <1>32 DEF CCFrame
<1>33. ASSUME NEW t \in Threads, CCEvent(t) PROVE EventInv'
  BY <1>33 DEF CCEvent
<1>34. ASSUME NEW t \in Threads, CCNotify(t) PROVE EventInv'
  BY <1>34 DEF CCNotify
<1>35. ASSUME NEW t \in Threads, CCFlag(t) PROVE EventInv'
  BY <1>35 DEF CCFlag
<1>36. ASSUME NEW t \in Threads, CCSend(t) PROVE EventInv'
  BY <1>36 DEF CCSend
<1>37. CASE UNCHANGED vars
  BY <1>37 DEF vars
<1>38. QED
  BY <1>1, <1>2, <1>3, <1>4, <1>5, <1>6, <1>7, <1>8, <1>9, <1>10, <1>11,
     <1>12, <1>13, <1>14, <1>15, <1>16, <1>17, <1>18, <1>19, <1>20, <1>21,
     <1>22, <1>23, <1>24, <1>25, <1>26, <1>27, <1>28, <1>29, <1>30, <1>31,
     <1>32, <1>33, <1>34, <1>35, <1>36, <1>37
  DEF Next, EngineNext, EngineStep, NetNext, NetStep, UserNext, UserStep,
      CommandContinue

\* breakStateContinueEvent is published exactly while onHalt, the wait loop or
\* onContinue of one halt is under way, whatever the clients do.
THEOREM EventCorrect == Spec => []EventInv
<1>1. Init => EventInv
  BY DEF Init, EventInv, Threads, HaltedLabels, WaitLabels, CommandLabels
<1>2. QED
  BY <1>1, TypeCorrect, EventStep, PTL DEF Spec

\* No access leaves breakStateInfo.instruction set once the halt has returned.
LEMMA DanglingStep ==
  ASSUME TypeOK, NoDanglingInstruction, [Next]_vars PROVE NoDanglingInstruction'
<1> USE DEF At, Goto, Session, TypeOK, Threads, NoDanglingInstruction, EngineLabels,
        NetLabels, ScriptLabels, OnHaltLabels, WaitLabels, OnContinueLabels,
        CommandLabels
<1>1. CASE EngStartup
  BY <1>1 DEF EngStartup
<1>2. CASE EngFirstScript
  BY <1>2 DEF EngFirstScript
<1>3. CASE EngInstruction
  BY <1>3 DEF EngInstruction, EnterHalt
<1>4. CASE EngScriptHalt
  BY <1>4 DEF EngScriptHalt, EnterHalt
<1>5. CASE EngCheckStep
  BY <1>5 DEF EngCheckStep, EnterHalt
<1>6. CASE EngCheckBreak
  BY <1>6 DEF EngCheckBreak, EnterHalt
<1>7. CASE EngPublish
  BY <1>7 DEF EngPublish
<1>8. CASE EngSetState
  BY <1>8 DEF EngSetState
<1>9. CASE EngSetInfo
  BY <1>9 DEF EngSetInfo
<1>10. CASE EngSendHalt
  BY <1>10 DEF EngSendHalt
<1>11. CASE EngCheckClient
  BY <1>11 DEF EngCheckClient
<1>12. CASE EngTest
  BY <1>12 DEF EngTest
<1>13. CASE EngPark
  BY <1>13 DEF EngPark
<1>14. CASE EngTimeout
  BY <1>14 DEF EngTimeout
<1>15. CASE EngAlive
  BY <1>15 DEF EngAlive
<1>16. CASE EngDropEvent
  BY <1>16 DEF EngDropEvent
<1>17. CASE EngDropInfo
  BY <1>17 DEF EngDropInfo
<1>18. CASE NetOpened
  BY <1>18 DEF NetOpened
<1>19. CASE NetClosed
  BY <1>19 DEF NetClosed
<1>20. CASE NetQueryState
  BY <1>20 DEF NetQueryState
<1>21. CASE NetQueryInfo
  BY <1>21 DEF NetQueryInfo
<1>22. CASE NetOpen
  BY <1>22 DEF NetOpen
<1>23. CASE NetClose
  BY <1>23 DEF NetClose
<1>24. CASE ClientSeesHalt
  BY <1>24 DEF ClientSeesHalt
<1>25. CASE NetContinue
  BY <1>25 DEF NetContinue, MaySend
<1>26. CASE NetQuery
  BY <1>26 DEF NetQuery, MaySend
<1>27. CASE NetHaltNow
  BY <1>27 DEF NetHaltNow
<1>28. ASSUME NEW t \in Threads, CCState(t) PROVE NoDanglingInstruction'
  BY <1>28 DEF CCState
<1>29. ASSUME NEW t \in Threads, CCResume(t) PROVE NoDanglingInstruction'
  BY <1>29 DEF CCResume, StepType
<1>30. ASSUME NEW t \in Threads, CCInfo(t) PROVE NoDanglingInstruction'
  BY <1>30 DEF CCInfo
<1>31. ASSUME NEW t \in Threads, CCNoStep(t) PROVE NoDanglingInstruction'
  BY <1>31 DEF CCNoStep
<1>32. ASSUME NEW t \in Threads, CCFrame(t) PROVE NoDanglingInstruction'
  BY <1>32 DEF CCFrame
<1>33. ASSUME NEW t \in Threads, CCEvent(t) PROVE NoDanglingInstruction'
  BY <1>33 DEF CCEvent
<1>34. ASSUME NEW t \in Threads, CCNotify(t) PROVE NoDanglingInstruction'
  BY <1>34 DEF CCNotify
<1>35. ASSUME NEW t \in Threads, CCFlag(t) PROVE NoDanglingInstruction'
  BY <1>35 DEF CCFlag
<1>36. ASSUME NEW t \in Threads, CCSend(t) PROVE NoDanglingInstruction'
  BY <1>36 DEF CCSend
<1>37. CASE UNCHANGED vars
  BY <1>37 DEF vars
<1>38. QED
  BY <1>1, <1>2, <1>3, <1>4, <1>5, <1>6, <1>7, <1>8, <1>9, <1>10, <1>11,
     <1>12, <1>13, <1>14, <1>15, <1>16, <1>17, <1>18, <1>19, <1>20, <1>21,
     <1>22, <1>23, <1>24, <1>25, <1>26, <1>27, <1>28, <1>29, <1>30, <1>31,
     <1>32, <1>33, <1>34, <1>35, <1>36, <1>37
  DEF Next, EngineNext, EngineStep, NetNext, NetStep, UserNext, UserStep,
      CommandContinue

\* For every client: breakStateInfo.instruction never outlives the halt whose
\* argument it points to (Debugger::onHalt, onContinue).
THEOREM NoDangling == Spec => []NoDanglingInstruction
<1>1. Init => NoDanglingInstruction
  BY DEF Init, NoDanglingInstruction
<1>2. QED
  BY <1>1, TypeCorrect, DanglingStep, PTL DEF Spec

-----------------------------------------------------------------------------
(***************************************************************************)
(* The protocol implements the safety part of the halt contract.           *)
(***************************************************************************)

\* HaltContract without its fairness condition.
ContractSafety == Contract!Init /\ [][Contract!Next]_Contract!vars

\* Every step is a step of the contract or leaves its variables alone.
LEMMA ContractStep ==
  ASSUME TypeOK, EventInv, [Next]_vars
  PROVE  [Contract!Next]_Contract!vars
<1> USE DEF At, Goto, Session, TypeOK, Threads, EventInv, HaltedLabels, EngineLabels,
        NetLabels, ScriptLabels, OnHaltLabels, WaitLabels, OnContinueLabels,
        CommandLabels, Contract!Next, Contract!Halt, Contract!Serve, Contract!Release,
        Contract!Resume, Contract!Fault, Contract!vars
<1>1. CASE UNCHANGED vars
  BY <1>1 DEF vars
<1>2. CASE Next
  <2>1. crash = "none"
    BY <1>2 DEF Next, EngineNext, NetNext, UserNext
  <2>2. CASE EngStartup
    BY <2>1, <2>2 DEF EngStartup
  <2>3. CASE EngFirstScript
    BY <2>1, <2>3 DEF EngFirstScript
  <2>4. CASE EngInstruction
    BY <2>1, <2>4 DEF EngInstruction, EnterHalt
  <2>5. CASE EngScriptHalt
    BY <2>1, <2>5 DEF EngScriptHalt, EnterHalt
  <2>6. CASE EngCheckStep
    BY <2>1, <2>6 DEF EngCheckStep, EnterHalt
  <2>7. CASE EngCheckBreak
    BY <2>1, <2>7 DEF EngCheckBreak, EnterHalt
  <2>8. CASE EngPublish
    BY <2>1, <2>8 DEF EngPublish
  <2>9. CASE EngSetState
    BY <2>1, <2>9 DEF EngSetState
  <2>10. CASE EngSetInfo
    BY <2>1, <2>10 DEF EngSetInfo
  <2>11. CASE EngSendHalt
    BY <2>1, <2>11 DEF EngSendHalt
  <2>12. CASE EngCheckClient
    BY <2>1, <2>12 DEF EngCheckClient
  <2>13. CASE EngTest
    BY <2>1, <2>13 DEF EngTest
  <2>14. CASE EngPark
    BY <2>1, <2>14 DEF EngPark
  <2>15. CASE EngTimeout
    BY <2>1, <2>15 DEF EngTimeout
  <2>16. CASE EngAlive
    BY <2>1, <2>16 DEF EngAlive
  <2>17. CASE EngDropEvent
    BY <2>1, <2>17 DEF EngDropEvent
  <2>18. CASE EngDropInfo
    BY <2>1, <2>18 DEF EngDropInfo
  <2>19. CASE NetOpened
    BY <2>1, <2>19 DEF NetOpened
  <2>20. CASE NetClosed
    BY <2>1, <2>20 DEF NetClosed
  <2>21. CASE NetQueryState
    BY <2>1, <2>21 DEF NetQueryState
  <2>22. CASE NetQueryInfo
    BY <2>1, <2>22 DEF NetQueryInfo
  <2>23. CASE NetOpen
    BY <2>1, <2>23 DEF NetOpen
  <2>24. CASE NetClose
    BY <2>1, <2>24 DEF NetClose
  <2>25. CASE ClientSeesHalt
    BY <2>1, <2>25 DEF ClientSeesHalt
  <2>26. CASE NetContinue
    BY <2>1, <2>26 DEF NetContinue, MaySend
  <2>27. CASE NetQuery
    BY <2>1, <2>27 DEF NetQuery, MaySend
  <2>28. CASE NetHaltNow
    BY <2>1, <2>28 DEF NetHaltNow
  <2>29. ASSUME NEW t \in Threads, CCState(t) PROVE [Contract!Next]_Contract!vars
    BY <2>1, <2>29 DEF CCState
  <2>30. ASSUME NEW t \in Threads, CCResume(t) PROVE [Contract!Next]_Contract!vars
    BY <2>1, <2>30 DEF CCResume, StepType
  <2>31. ASSUME NEW t \in Threads, CCInfo(t) PROVE [Contract!Next]_Contract!vars
    BY <2>1, <2>31 DEF CCInfo
  <2>32. ASSUME NEW t \in Threads, CCNoStep(t) PROVE [Contract!Next]_Contract!vars
    BY <2>1, <2>32 DEF CCNoStep
  <2>33. ASSUME NEW t \in Threads, CCFrame(t) PROVE [Contract!Next]_Contract!vars
    BY <2>1, <2>33 DEF CCFrame
  <2>34. ASSUME NEW t \in Threads, CCEvent(t) PROVE [Contract!Next]_Contract!vars
    BY <2>1, <2>34 DEF CCEvent
  <2>35. ASSUME NEW t \in Threads, CCNotify(t) PROVE [Contract!Next]_Contract!vars
    BY <2>1, <2>35 DEF CCNotify
  <2>36. ASSUME NEW t \in Threads, CCFlag(t) PROVE [Contract!Next]_Contract!vars
    BY <2>1, <2>36 DEF CCFlag
  <2>37. ASSUME NEW t \in Threads, CCSend(t) PROVE [Contract!Next]_Contract!vars
    BY <2>1, <2>37 DEF CCSend
  <2>38. QED
    BY <1>2, <2>2, <2>3, <2>4, <2>5, <2>6, <2>7, <2>8, <2>9, <2>10, <2>11,
       <2>12, <2>13, <2>14, <2>15, <2>16, <2>17, <2>18, <2>19, <2>20, <2>21,
       <2>22, <2>23, <2>24, <2>25, <2>26, <2>27, <2>28, <2>29, <2>30, <2>31,
       <2>32, <2>33, <2>34, <2>35, <2>36, <2>37
    DEF Next, EngineNext, EngineStep, NetNext, NetStep, UserNext, UserStep,
        CommandContinue
<1>3. QED
  BY <1>1, <1>2

\* For every client: no halt ends unless a thread serving a command has
\* released it, no release is carried over to another halt, and only such a
\* thread can crash the process.
THEOREM ImplementsContractSafety == Spec => ContractSafety
<1>1. Init => Contract!Init
  BY DEF Init, Contract!Init, Threads, CommandLabels
<1>2. QED
  BY <1>1, TypeCorrect, EventCorrect, ContractStep, PTL DEF Spec, ContractSafety

-----------------------------------------------------------------------------
(***************************************************************************)
(* Pause requests, for all clients.                                        *)
(***************************************************************************)

\* Only "net" handles a step command, and no pause comes before it is done.
StepCommandInv ==
  /\ pc["engine"] \notin {"ccInfo", "ccNoStep"}
  /\ pc["net"] \in {"ccInfo", "ccNoStep"} => state # "waitForHalt"

\* No step of either thread or of a user disturbs that.
LEMMA StepCommandStep ==
  ASSUME TypeOK, StepCommandInv, [Next]_vars
  PROVE  StepCommandInv'
<1> USE DEF At, Goto, Session, StepCommandInv
<1>1. CASE EngineNext
  <2>1. CASE EngStartup \/ EngFirstScript \/ EngInstruction \/ EngScriptHalt \/ EngCheckStep
             \/ EngCheckBreak
    BY <2>1 DEF EngStartup, EngFirstScript, EngInstruction, EngScriptHalt, EngCheckStep,
                EngCheckBreak, EnterHalt, TypeOK, Threads
  <2>2. CASE EngPublish \/ EngSetState \/ EngSetInfo \/ EngSendHalt \/ EngCheckClient
    BY <2>2 DEF EngPublish, EngSetState, EngSetInfo, EngSendHalt, EngCheckClient, TypeOK, Threads
  <2>3. CASE EngTest \/ EngPark \/ EngTimeout \/ EngAlive \/ EngDropEvent \/ EngDropInfo
    BY <2>3 DEF EngTest, EngPark, EngTimeout, EngAlive, EngDropEvent, EngDropInfo, TypeOK, Threads
  <2>4. CASE CommandContinue("engine")
    BY <2>4 DEF CommandContinue, CCState, CCResume, CCInfo, CCNoStep, CCFrame, CCEvent,
                CCNotify, CCFlag, CCSend, StepType, TypeOK, Threads
  <2>5. QED
    BY <1>1, <2>1, <2>2, <2>3, <2>4 DEF EngineNext, EngineStep
<1>2. CASE NetNext
  <2>1. CASE NetOpened \/ NetClosed \/ NetQueryState \/ NetQueryInfo
    BY <2>1 DEF NetOpened, NetClosed, NetQueryState, NetQueryInfo, TypeOK, Threads
  <2>2. CASE CommandContinue("net")
    BY <2>2 DEF CommandContinue, CCState, CCResume, CCInfo, CCNoStep, CCFrame, CCEvent,
                CCNotify, CCFlag, CCSend, StepType, TypeOK, Threads
  <2>3. QED
    BY <1>2, <2>1, <2>2 DEF NetNext, NetStep
<1>3. CASE UserNext
  BY <1>3 DEF UserNext, UserStep, NetOpen, NetClose, ClientSeesHalt, NetContinue, NetQuery,
              NetHaltNow, MaySend, TypeOK, Threads
<1>4. CASE UNCHANGED vars
  BY <1>4 DEF vars
<1>5. QED
  BY <1>1, <1>2, <1>3, <1>4 DEF Next

\* Whatever the clients do, a pause request ends in a halt or is withdrawn by a
\* command, unless it was made before onStartup had set the state.
THEOREM PausesAreKept == Spec => PauseIsKept
<1> DEFINE Kept == state = "waitForHalt" /\ state' # "waitForHalt" =>
                     \/ pc["engine"] \in {"startup", "setState"}
                     \/ \E t \in Threads : pc[t] = "ccResume"
<1>1. ASSUME StepCommandInv, [Next]_vars PROVE Kept
  <2> SUFFICES ASSUME state = "waitForHalt", state' # "waitForHalt"
               PROVE  \/ pc["engine"] \in {"startup", "setState"}
                      \/ \E t \in Threads : pc[t] = "ccResume"
    OBVIOUS
  <2>1. EngStartup \/ EngSetState \/ (\E t \in Threads : CCResume(t) \/ CCNoStep(t))
    BY <1>1 DEF Next, EngineNext, EngineStep, NetNext, NetStep, UserNext, UserStep,
       CommandContinue, vars, Session, Threads, EngFirstScript, EngInstruction,
       EngScriptHalt, EngCheckStep, EngCheckBreak, EnterHalt, EngPublish, EngSetInfo,
       EngSendHalt, EngCheckClient, EngTest, EngPark, EngTimeout, EngAlive, EngDropEvent,
       EngDropInfo, CCState, CCInfo, CCFrame, CCEvent, CCNotify, CCFlag, CCSend,
       NetOpen, NetOpened, NetClose, NetClosed, ClientSeesHalt, NetContinue, NetQuery,
       NetQueryState, NetQueryInfo, NetHaltNow
  <2>2. ~(\E t \in Threads : CCNoStep(t))
    BY <1>1 DEF CCNoStep, At, Threads, StepCommandInv
  <2>3. QED
    BY <2>1, <2>2 DEF EngStartup, EngSetState, CCResume, At
<1>2. Init => StepCommandInv
  BY DEF Init, StepCommandInv, Threads
<1>3. QED
  BY <1>1, <1>2, TypeInit, TypeStep, StepCommandStep, PTL DEF Spec, PauseIsKept

-----------------------------------------------------------------------------
(***************************************************************************)
(* Patient clients.                                                        *)
(***************************************************************************)

\* What the theorems below assume of the clients.
Patient == ~Eager /\ ~MayDisconnect /\ ~LateAttach

\* The strengthening holds when the debugger is loaded.
LEMMA PatientInit == Init => PatientInv
<1> SUFFICES ASSUME Init PROVE PatientInv
  OBVIOUS
<1>1. TypeOK
  BY TypeInit
<1>2. AttachedInv /\ EngineInv /\ AnswerInv /\ StateInv /\ StepInv
  BY DEF Init, Threads, AttachedInv, EngineInv, AnswerInv, StateInv, StepInv,
     BreakStateIsHalted, StepIsArmed, Waiting, WaitLabels, CommandLabels, Working
<1>3. QED
  BY <1>1, <1>2 DEF PatientInv, NoNullDereference, Init

\* Every access of either thread and every move of a patient client keeps it.
LEMMA PatientStep ==
  ASSUME Patient, PatientInv, [Next]_vars
  PROVE  PatientInv'
<1>1. TypeOK'
  BY TypeStep DEF PatientInv
<1> USE DEF At, Goto, Session, Patient, PatientInv, TypeOK, Threads, NoNullDereference,
        AttachedInv, EngineInv, AnswerInv, StateInv, StepInv, BreakStateIsHalted,
        StepIsArmed, Waiting, Working, HaltStates, EngineLabels,
        NetLabels, ScriptLabels, OnHaltLabels, WaitLabels, OnContinueLabels,
        CommandLabels
<1>2. CASE EngStartup
  BY <1>1, <1>2 DEF EngStartup
<1>3. CASE EngFirstScript
  BY <1>1, <1>3 DEF EngFirstScript
<1>4. CASE EngInstruction
  <2>1. CASE EnterHalt("bare")
    BY <1>1, <1>4, <2>1 DEF EngInstruction, EnterHalt
  <2>2. CASE Goto("engine", "checkStep") /\ UNCHANGED <<state, event, second, info, haltInfo, note, crash, Session>>
    BY <1>1, <1>4, <2>2 DEF EngInstruction
  <2>3. QED
    BY <1>4, <2>1, <2>2 DEF EngInstruction
<1>5. CASE EngScriptHalt
  BY <1>1, <1>5 DEF EngScriptHalt, EnterHalt
<1>6. CASE EngCheckStep
  <2>1. CASE EnterHalt("live")
    BY <1>1, <1>6, <2>1 DEF EngCheckStep, EnterHalt
  <2>2. CASE Goto("engine", "checkBreak") /\ UNCHANGED <<state, event, second, info, haltInfo, note, crash, Session>>
    BY <1>1, <1>6, <2>2 DEF EngCheckStep
  <2>3. QED
    BY <1>6, <2>1, <2>2 DEF EngCheckStep
<1>7. CASE EngCheckBreak
  <2>1. CASE EnterHalt("live")
    BY <1>1, <1>7, <2>1 DEF EngCheckBreak, EnterHalt
  <2>2. CASE Goto("engine", "run") /\ UNCHANGED <<state, event, second, info, haltInfo, note, crash, Session>>
    BY <1>1, <1>7, <2>2 DEF EngCheckBreak
  <2>3. QED
    BY <1>7, <2>1, <2>2 DEF EngCheckBreak
<1>8. CASE EngPublish
  BY <1>1, <1>8 DEF EngPublish
<1>9. CASE EngSetState
  BY <1>1, <1>9 DEF EngSetState
<1>10. CASE EngSetInfo
  BY <1>1, <1>10 DEF EngSetInfo
<1>11. CASE EngSendHalt
  BY <1>1, <1>11 DEF EngSendHalt
<1>12. CASE EngCheckClient
  BY <1>1, <1>12 DEF EngCheckClient
<1>13. CASE EngTest
  BY <1>1, <1>13 DEF EngTest
<1>14. CASE EngPark
  BY <1>1, <1>14 DEF EngPark
<1>15. CASE EngTimeout
  BY <1>1, <1>15 DEF EngTimeout
<1>16. CASE EngAlive
  BY <1>1, <1>16 DEF EngAlive
<1>17. CASE EngDropEvent
  BY <1>1, <1>17 DEF EngDropEvent
<1>18. CASE EngDropInfo
  BY <1>1, <1>18 DEF EngDropInfo
<1>19. CASE NetOpened
  BY <1>1, <1>19 DEF NetOpened
<1>20. CASE NetClosed
  BY <1>1, <1>20 DEF NetClosed
<1>21. CASE NetQueryState
  BY <1>1, <1>21 DEF NetQueryState
<1>22. CASE NetQueryInfo
  BY <1>1, <1>22 DEF NetQueryInfo
<1>23. CASE NetOpen
  BY <1>1, <1>23 DEF NetOpen
<1>24. CASE NetClose
  BY <1>1, <1>24 DEF NetClose
<1>25. CASE ClientSeesHalt
  BY <1>1, <1>25 DEF ClientSeesHalt
<1>26. CASE NetContinue
  BY <1>1, <1>26 DEF NetContinue, MaySend
<1>27. CASE NetQuery
  BY <1>1, <1>27 DEF NetQuery, MaySend
<1>28. CASE NetHaltNow
  BY <1>1, <1>28 DEF NetHaltNow
<1>29. CASE CCState("net")
  BY <1>1, <1>29 DEF CCState
<1>30. CASE CCResume("net")
  BY <1>1, <1>30 DEF CCResume, StepType
<1>31. CASE CCInfo("net")
  BY <1>1, <1>31 DEF CCInfo
<1>32. CASE CCNoStep("net")
  BY <1>1, <1>32 DEF CCNoStep
<1>33. CASE CCFrame("net")
  BY <1>1, <1>33 DEF CCFrame
<1>34. CASE CCEvent("net")
  BY <1>1, <1>34 DEF CCEvent
<1>35. CASE CCNotify("net")
  BY <1>1, <1>35 DEF CCNotify
<1>36. CASE CCFlag("net")
  BY <1>1, <1>36 DEF CCFlag
<1>37. CASE CCSend("net")
  BY <1>1, <1>37 DEF CCSend
<1>38. CASE UNCHANGED vars
  BY <1>1, <1>38 DEF vars
<1>39. ~CommandContinue("engine")
  BY DEF CommandContinue, CCState, CCResume, CCInfo, CCNoStep, CCFrame, CCEvent, CCNotify, CCFlag, CCSend
<1>40. QED
  BY <1>2, <1>3, <1>4, <1>5, <1>6, <1>7, <1>8, <1>9, <1>10, <1>11, <1>12,
     <1>13, <1>14, <1>15, <1>16, <1>17, <1>18, <1>19, <1>20, <1>21, <1>22,
     <1>23, <1>24, <1>25, <1>26, <1>27, <1>28, <1>29, <1>30, <1>31, <1>32,
     <1>33, <1>34, <1>35, <1>36, <1>37, <1>38, <1>39
  DEF Next, EngineNext, EngineStep, NetNext, NetStep, UserNext, UserStep,
      CommandContinue

\* So it always holds, and the theorems below read their properties off it.
LEMMA PatientInvariant == ASSUME Patient PROVE Spec => []PatientInv
<1>1. PatientInv /\ [Next]_vars => PatientInv'
  BY PatientStep
<1>2. QED
  BY PatientInit, <1>1, PTL DEF Spec

\* With patient clients no check in commandContinue, getVariables or
\* grabCurrentCode is stale when the pointer it guards is followed.
THEOREM PatientNeverCrashes == ASSUME Patient PROVE Spec => []NoNullDereference
<1>1. PatientInv => NoNullDereference
  BY DEF PatientInv
<1>2. QED
  BY PatientInvariant, <1>1, PTL

\* What a patient client has been told about a halt stays true until it answers.
THEOREM PatientIsToldTheTruth == ASSUME Patient PROVE Spec => []NotifiedMeansHalted
<1>1. PatientInv => NotifiedMeansHalted
  BY DEF PatientInv, AnswerInv, EngineInv, NotifiedMeansHalted, Waiting
<1>2. QED
  BY PatientInvariant, <1>1, PTL

\* The debugger is in breakState only during an unanswered halt.
THEOREM PatientBreakState == ASSUME Patient PROVE Spec => []BreakStateIsHalted
<1>1. PatientInv => BreakStateIsHalted
  BY DEF PatientInv, StateInv
<1>2. QED
  BY PatientInvariant, <1>1, PTL

\* A step given at an instruction survives until the script runs on.
THEOREM PatientStepIsArmed == ASSUME Patient PROVE Spec => []StepIsArmed
<1>1. PatientInv => StepIsArmed
  BY DEF PatientInv, StepInv
<1>2. QED
  BY PatientInvariant, <1>1, PTL

\* No patient client can leave breakState behind in a script that runs on.
THEOREM PatientBreakStateEnds == ASSUME Patient PROVE Spec => []BreakStateEnds
<1>1. PatientInv => BreakStateEnds
  BY DEF PatientInv, StateInv, BreakStateIsHalted, BreakStateEnds, WaitLabels
<1>2. QED
  BY PatientInvariant, <1>1, PTL

\* Without haltNow no pause is ever pending.
NoPause == state # "waitForHalt"

\* Only haltNow asks for a pause.
LEMMA NoPauseStep ==
  ASSUME "haltNow" \notin Requests, NoPause, [Next]_vars
  PROVE  NoPause'
<1> SUFFICES ASSUME UNCHANGED state
                      \/ EngStartup \/ EngSetState \/ NetHaltNow
                      \/ \E t \in Threads : CCResume(t) \/ CCNoStep(t)
             PROVE  NoPause'
  BY DEF Next, EngineNext, EngineStep, NetNext, NetStep, UserNext, UserStep,
     CommandContinue, vars, Session, Threads, EngFirstScript, EngInstruction,
     EngScriptHalt, EngCheckStep, EngCheckBreak, EnterHalt, EngPublish, EngSetInfo,
     EngSendHalt, EngCheckClient, EngTest, EngPark, EngTimeout, EngAlive, EngDropEvent,
     EngDropInfo, CCState, CCInfo, CCFrame, CCEvent, CCNotify, CCFlag, CCSend,
     NetOpen, NetOpened, NetClose, NetClosed, ClientSeesHalt, NetContinue, NetQuery,
     NetQueryState, NetQueryInfo
<1>1. ~NetHaltNow
  BY DEF NetHaltNow
<1>2. QED
  BY <1>1 DEF NoPause, EngStartup, EngSetState, CCResume, CCNoStep, StepType

\* Patient clients that do not pause are served: a query for the variables or the
\* code of a halt the client has seen finds the debugger in breakState.  So a
\* pause that crosses a halt is the only way to be refused.
THEOREM PatientQueriesAreServed ==
  ASSUME Patient, "haltNow" \notin Requests
  PROVE  Spec => []SeenHaltServesQueries
<1>1. Init => NoPause
  BY DEF Init, NoPause
<1>2. NoPause /\ [Next]_vars => NoPause'
  BY NoPauseStep
<1>3. Spec => []NoPause
  BY <1>1, <1>2, PTL DEF Spec
<1>4. PatientInv /\ NoPause => SeenHaltServesQueries
  BY DEF PatientInv, AnswerInv, NoPause, HaltStates, SeenHaltServesQueries
<1>5. QED
  BY PatientInvariant, <1>3, <1>4, PTL
=============================================================================
