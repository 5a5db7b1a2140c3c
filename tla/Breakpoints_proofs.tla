------------------------- MODULE Breakpoints_proofs -------------------------
(***************************************************************************)
(* Theorems about Breakpoints for any files, lines and bounds, up to the   *)
(* refinement of BreakpointTable.                                          *)
(***************************************************************************)
EXTENDS Breakpoints, Integers, TLAPS

\* No list has two breakpoints on a line.
UniqueLines(map) ==
  \A n \in DOMAIN map : \A a, b \in map[n] : a.line = b.line => a = b
NonEmpty(map) == \A n \in DOMAIN map : map[n] # {}

CommandTypes == {"add", "del", "clearFile", "clearAll"}

RegistryInv ==
  /\ UniqueLines(breakPoints)
  /\ NonEmpty(breakPoints)
  /\ AtMostOneTrigger
  /\ npc \in {"lock", "update"} => request.type \in CommandTypes

-----------------------------------------------------------------------------
(***************************************************************************)
(* The operations on the registry keep its two properties.                 *)
(***************************************************************************)

\* Storing a list with unique lines that is not empty.
LEMMA PutKeeps ==
  ASSUME NEW map, UniqueLines(map), NonEmpty(map), NEW key, NEW list, list # {},
         \A a, b \in list : a.line = b.line => a = b
  PROVE  UniqueLines(Put(map, key, list)) /\ NonEmpty(Put(map, key, list))
BY DEF UniqueLines, NonEmpty, Put

\* Removing a file's list.
LEMMA EraseKeeps ==
  ASSUME NEW map, UniqueLines(map), NonEmpty(map), NEW key
  PROVE  UniqueLines(Erase(map, key)) /\ NonEmpty(Erase(map, key))
BY DEF UniqueLines, NonEmpty, Erase

\* addBreakpoint replaces the one breakpoint that may be on the line.
LEMMA AddKeeps ==
  ASSUME NEW map, UniqueLines(map), NonEmpty(map), NEW file, NEW bp,
         NEW m \in Added(map, file, bp)
  PROVE  UniqueLines(m) /\ NonEmpty(m)
<1>1. CASE file \notin DOMAIN map
  <2>1. m = Put(map, file, {bp})
    BY <1>1 DEF Added
  <2>2. QED
    BY <2>1, PutKeeps
<1>2. CASE file \in DOMAIN map /\ OnLine(map[file], bp.line) = {}
  <2>1. m = Put(map, file, map[file] \cup {bp})
    BY <1>2 DEF Added
  <2>2. \A a, b \in map[file] \cup {bp} : a.line = b.line => a = b
    BY <1>2 DEF OnLine, UniqueLines
  <2>3. QED
    BY <2>1, <2>2, PutKeeps
<1>3. CASE file \in DOMAIN map /\ OnLine(map[file], bp.line) # {}
  <2>1. PICK old \in OnLine(map[file], bp.line) :
          m = Put(map, file, (map[file] \ {old}) \cup {bp})
    BY <1>3 DEF Added
  <2>2. \A a, b \in (map[file] \ {old}) \cup {bp} : a.line = b.line => a = b
    BY <1>3 DEF OnLine, UniqueLines
  <2>3. QED
    BY <2>1, <2>2, PutKeeps
<1>4. QED
  BY <1>1, <1>2, <1>3

\* delBreakpoint leaves nothing on the line, and no empty list.
LEMMA DeleteKeeps ==
  ASSUME NEW map, UniqueLines(map), NonEmpty(map), NEW file, NEW line,
         NEW m \in Deleted(map, file, line)
  PROVE  /\ UniqueLines(m) /\ NonEmpty(m)
         /\ file \notin DOMAIN m \/ OnLine(m[file], line) = {}
<1>1. CASE file \notin DOMAIN map
  BY <1>1 DEF Deleted
<1>2. CASE file \in DOMAIN map
  <2>1. PICK list :
          /\ m = IF list = {} THEN Erase(map, file) ELSE Put(map, file, list)
          /\ \/ list = map[file] /\ OnLine(map[file], line) = {}
             \/ \E old \in OnLine(map[file], line) : list = map[file] \ {old}
    BY <1>2 DEF Deleted
  <2>2. list \subseteq map[file] /\ OnLine(list, line) = {}
    BY <1>2, <2>1 DEF OnLine, UniqueLines
  <2>3. \A a, b \in list : a.line = b.line => a = b
    BY <1>2, <2>2 DEF UniqueLines
  <2>4. CASE list = {}
    <3>1. m = Erase(map, file)
      BY <2>1, <2>4
    <3>2. file \notin DOMAIN m
      BY <3>1 DEF Erase
    <3>3. QED
      BY <3>1, <3>2, EraseKeeps
  <2>5. CASE list # {}
    <3>1. m = Put(map, file, list)
      BY <2>1, <2>5
    <3>2. m[file] = list
      BY <3>1 DEF Put
    <3>3. QED
      BY <2>2, <2>3, <2>5, <3>1, <3>2, PutKeeps
  <2>6. QED
    BY <2>4, <2>5
<1>3. QED
  BY <1>1, <1>2

\* Whatever the command is, the registry it leaves is in order.
LEMMA UpdateKeeps ==
  ASSUME NEW map, UniqueLines(map), NonEmpty(map), NEW r, r.type \in CommandTypes,
         NEW m \in Updated(map, r)
  PROVE  UniqueLines(m) /\ NonEmpty(m)
<1>1. CASE r.type = "add"
  BY <1>1, AddKeeps DEF Updated
<1>2. CASE r.type = "del"
  BY <1>2, DeleteKeeps DEF Updated
<1>3. CASE r.type = "clearFile"
  BY <1>3, EraseKeeps DEF Updated
<1>4. CASE r.type = "clearAll"
  BY <1>4 DEF Updated, UniqueLines, NonEmpty
<1>5. QED
  BY <1>1, <1>2, <1>3, <1>4 DEF CommandTypes

-----------------------------------------------------------------------------
\* No step of either thread breaks the invariant of the registry.
LEMMA RegistryStep == ASSUME RegistryInv, [Next]_vars PROVE RegistryInv'
<1> USE DEF RegistryInv, UniqueLines, NonEmpty, AtMostOneTrigger, Engine, Net
<1>1. CASE NetAddBreakpoint
  BY <1>1 DEF NetAddBreakpoint, Receive, CommandTypes
<1>2. CASE NetDelBreakpoint
  BY <1>2 DEF NetDelBreakpoint, Receive, CommandTypes
<1>3. CASE NetClearFile
  BY <1>3 DEF NetClearFile, Receive, CommandTypes
<1>4. CASE NetClearAll
  BY <1>4 DEF NetClearAll, Receive, CommandTypes
<1>5. CASE NetLock
  BY <1>5 DEF NetLock
<1>6. CASE NetUpdate
  <2>1. UniqueLines(breakPoints)' /\ NonEmpty(breakPoints)'
    BY <1>6, UpdateKeeps DEF NetUpdate
  <2>2. QED
    BY <1>6, <2>1 DEF NetUpdate
<1>7. CASE EngInstruction
  BY <1>7 DEF EngInstruction
<1>8. CASE EngEmpty
  BY <1>8 DEF EngEmpty
<1>9. CASE EngLock
  BY <1>9 DEF EngLock
<1>10. CASE EngLookup
  <2>1. \A a, b \in toTrigger' : a = b
    BY <1>10 DEF EngLookup, OnLine
  <2>2. QED
    BY <1>10, <2>1 DEF EngLookup
<1>11. CASE EngTrigger
  BY <1>11 DEF EngTrigger
<1>12. CASE EngContinue
  BY <1>12 DEF EngContinue
<1>13. CASE EngDone
  BY <1>13 DEF EngDone
<1>14. CASE UNCHANGED vars
  BY <1>14 DEF vars
<1>15. QED
  BY <1>1, <1>2, <1>3, <1>4, <1>5, <1>6, <1>7, <1>8, <1>9, <1>10, <1>11, <1>12, <1>13,
     <1>14 DEF Next, EngineWork, NetWork

\* Hence it always holds.
LEMMA RegistryInvariant == Spec => []RegistryInv
<1>1. Init => RegistryInv
  BY DEF Init, RegistryInv, UniqueLines, NonEmpty, AtMostOneTrigger
<1>2. QED
  BY <1>1, RegistryStep, PTL DEF Spec

\* One statement triggers one breakpoint at most.
THEOREM OneTrigger == Spec => []AtMostOneTrigger
<1>1. RegistryInv => AtMostOneTrigger
  BY DEF RegistryInv
<1>2. QED
  BY RegistryInvariant, <1>1, PTL

\* The registry never keeps a file without breakpoints.
THEOREM ListsAreNonEmpty == Spec => []NoEmptyList
<1>1. RegistryInv => NoEmptyList
  BY DEF RegistryInv, NonEmpty, NoEmptyList
<1>2. QED
  BY RegistryInvariant, <1>1, PTL

\* delBreakpoint leaves no breakpoint on its line.
THEOREM DeleteLeavesNothing == Spec => DeleteIsComplete
<1> DEFINE Complete ==
      npc = "update" /\ npc' = "idle" /\ request.type = "del" =>
        request.file \notin DOMAIN breakPoints'
          \/ OnLine(breakPoints'[request.file], request.line) = {}
<1>1. ASSUME RegistryInv, [Next]_vars PROVE Complete
  <2> SUFFICES ASSUME npc = "update", npc' = "idle", request.type = "del"
               PROVE  request.file \notin DOMAIN breakPoints'
                        \/ OnLine(breakPoints'[request.file], request.line) = {}
    OBVIOUS
  <2>1. NetUpdate
    BY <1>1 DEF Next, EngineWork, NetWork, vars, Engine, Net, Receive, NetAddBreakpoint,
       NetDelBreakpoint, NetClearFile, NetClearAll, NetLock, EngInstruction, EngEmpty,
       EngLock, EngLookup, EngTrigger, EngContinue, EngDone
  <2>2. breakPoints' \in Deleted(breakPoints, request.file, request.line)
    BY <2>1 DEF NetUpdate, Updated
  <2>3. QED
    BY <1>1, <2>2, DeleteKeeps DEF RegistryInv
<1>2. QED
  BY RegistryInvariant, <1>1, PTL DEF Spec, DeleteIsComplete

-----------------------------------------------------------------------------
(***************************************************************************)
(* Types.  What a command carries is part of them.                         *)
(***************************************************************************)
RequestOK ==
  npc \in {"lock", "update"} =>
    /\ request.type \in CommandTypes
    /\ request.type # "clearAll" => request.file \in Names
    /\ request.type = "add" => request.bp \in BPs /\ request.bp.id = adds

Typed == TypeOK /\ RequestOK

MapOK(map) == DOMAIN map \subseteq Names /\ \A n \in DOMAIN map : map[n] \subseteq BPs

\* The breakpoints in a registry.
Listed(map) == UNION {map[n] : n \in DOMAIN map}

\* What a record of a breakpoint holds, and when it is one.
LEMMA RecordFacts ==
  /\ \A bp \in BPs : bp.id \in Ids /\ bp.condition \in Conditions
  /\ \A i \in Ids, line \in Lines, c \in Conditions, action \in {"halt", "log"} :
       [id |-> i, line |-> line, condition |-> c, action |-> action,
        hitcount |-> 0] \in BPs
<1>1. \A bp \in BPs : bp.id \in Ids /\ bp.condition \in Conditions
  <2>. DEFINE Actions == {"halt", "log"}   Hitcounts == 0..65535
  <2>1. BPs = [id : Ids, line : Lines, condition : Conditions, action : Actions,
               hitcount : Hitcounts]
    BY DEF BPs
  <2>. HIDE DEF Actions, Hitcounts
  <2>. QED  BY <2>1
<1>2. ASSUME NEW i \in Ids, NEW line \in Lines, NEW c \in Conditions,
             NEW action \in {"halt", "log"}
      PROVE  [id |-> i, line |-> line, condition |-> c, action |-> action,
              hitcount |-> 0] \in BPs
  BY DEF BPs
<1>. QED  BY <1>1, <1>2

\* A lower-case name is a name.
LEMMA LowerIsName == \A n \in Names : Lower(n) \in Names
BY DEF Names, Lower

\* Only addBreakpoint brings a breakpoint into the registry, and it is its own.
LEMMA UpdateBrings ==
  ASSUME NEW map, NEW r, r.type \in CommandTypes, NEW m \in Updated(map, r)
  PROVE  /\ Listed(m) \subseteq Listed(map) \cup {bp \in {r.bp} : r.type = "add"}
         /\ DOMAIN m \subseteq DOMAIN map \cup {k \in {r.file} : r.type # "clearAll"}
<1>. USE DEF Listed
<1>1. ASSUME NEW key, NEW list
      PROVE  /\ DOMAIN Put(map, key, list) \subseteq DOMAIN map \cup {key}
             /\ Listed(Put(map, key, list)) \subseteq Listed(map) \cup list
  BY DEF Put
<1>2. ASSUME NEW key
      PROVE  /\ DOMAIN Erase(map, key) \subseteq DOMAIN map
             /\ Listed(Erase(map, key)) \subseteq Listed(map)
  BY DEF Erase
<1>3. CASE r.type = "add"
  <2>1. PICK list : m = Put(map, r.file, list)
                    /\ list \subseteq Listed(map) \cup {r.bp}
    <3>1. m \in Added(map, r.file, r.bp)
      BY <1>3 DEF Updated
    <3>2. CASE r.file \notin DOMAIN map
      BY <3>1, <3>2 DEF Added
    <3>3. CASE r.file \in DOMAIN map /\ OnLine(map[r.file], r.bp.line) = {}
      BY <3>1, <3>3 DEF Added
    <3>4. CASE r.file \in DOMAIN map /\ OnLine(map[r.file], r.bp.line) # {}
      <4>1. PICK old : m = Put(map, r.file, (map[r.file] \ {old}) \cup {r.bp})
        BY <3>1, <3>4 DEF Added
      <4>2. (map[r.file] \ {old}) \cup {r.bp} \subseteq Listed(map) \cup {r.bp}
        BY <3>4
      <4>. QED  BY <4>1, <4>2
    <3>. QED  BY <3>2, <3>3, <3>4
  <2>. QED  BY <1>1, <1>3, <2>1
<1>4. CASE r.type = "del"
  <2>1. m \in Deleted(map, r.file, r.line)
    BY <1>4 DEF Updated
  <2>2. CASE r.file \notin DOMAIN map
    BY <2>1, <2>2 DEF Deleted
  <2>3. CASE r.file \in DOMAIN map
    <3>1. PICK list :
            /\ m = IF list = {} THEN Erase(map, r.file) ELSE Put(map, r.file, list)
            /\ list \subseteq map[r.file]
      BY <2>1, <2>3 DEF Deleted
    <3>. QED  BY <1>1, <1>2, <1>4, <2>3, <3>1
  <2>. QED  BY <2>2, <2>3
<1>5. CASE r.type = "clearFile"
  BY <1>2, <1>5, m \in {Erase(map, r.file), Erase(map, Lower(r.file))} DEF Updated
<1>6. CASE r.type = "clearAll"
  BY <1>6, m = [n \in {} |-> {}] DEF Updated
<1>. QED  BY <1>3, <1>4, <1>5, <1>6 DEF CommandTypes

\* No step of either thread takes a variable out of its type.
LEMMA TypeStep == ASSUME Typed, [Next]_vars PROVE Typed'
<1>. USE DEF Typed, TypeOK, RequestOK, Engine, Net, History
<1>1. CASE NetAddBreakpoint
  <2>1. PICK name \in Names, line \in Lines, c \in Conditions, action \in {"halt", "log"} :
          Receive([type |-> "add", file |-> Lower(name),
                   bp |-> [id |-> adds + 1, line |-> line, condition |-> c,
                           action |-> action, hitcount |-> 0]])
    BY <1>1 DEF NetAddBreakpoint
  <2>2. adds' = adds + 1 /\ adds + 1 \in Ids /\ adds' \in 0..MaxAdds
    BY <1>1, BoundsAssumption DEF NetAddBreakpoint, Ids
  <2>3. /\ request'.type = "add" /\ request'.file \in Names
        /\ request'.bp \in BPs /\ request'.bp.id = adds'
    <3>. DEFINE new == [id |-> adds + 1, line |-> line, condition |-> c,
                        action |-> action, hitcount |-> 0]
    <3>1. new \in BPs /\ new.id = adds'
      BY <2>2, RecordFacts
    <3>2. request' = [type |-> "add", file |-> Lower(name), bp |-> new]
      BY <2>1 DEF Receive
    <3>. HIDE DEF new
    <3>. QED  BY <3>1, <3>2, LowerIsName
  <2>. QED  BY <2>1, <2>2, <2>3 DEF Receive, CommandTypes
<1>2. CASE NetDelBreakpoint
  BY <1>2, LowerIsName DEF NetDelBreakpoint, Receive, CommandTypes
<1>3. CASE NetClearFile
  BY <1>3 DEF NetClearFile, Receive, CommandTypes
<1>4. CASE NetClearAll
  BY <1>4 DEF NetClearAll, Receive, CommandTypes
<1>5. CASE NetLock
  BY <1>5 DEF NetLock
<1>6. CASE NetUpdate
  <2>1. MapOK(breakPoints')
    BY <1>6, UpdateBrings DEF NetUpdate, Listed, MapOK
  <2>. QED  BY <1>6, <2>1 DEF NetUpdate, MapOK
<1>7. CASE EngInstruction
  <2>1. where' \in [file : Names, line : Lines] /\ executed' \in 0..MaxInstructions
    BY <1>7, LowerIsName, BoundsAssumption DEF EngInstruction
  <2>. QED  BY <1>7, <2>1 DEF EngInstruction
<1>8. CASE EngEmpty
  BY <1>8 DEF EngEmpty
<1>9. CASE EngLock
  BY <1>9 DEF EngLock
<1>10. CASE EngLookup
  <2>1. toTrigger' \subseteq BPs
    BY <1>10 DEF EngLookup, OnLine
  <2>. QED  BY <1>10, <2>1 DEF EngLookup
<1>11. CASE EngTrigger
  <2>1. PICK bp \in toTrigger :
          /\ toTrigger' = toTrigger \ {bp}
          /\ currentCount' = CountUp(bp)
          /\ passes' = [passes EXCEPT ![bp.id] = @ + 1]
          /\ IF Matches(bp)
             THEN /\ hits' = [hits EXCEPT ![bp.id] = @ + 1]
                  /\ lateHits' = IF bp \in Registered THEN lateHits
                                 ELSE [lateHits EXCEPT ![bp.id] = @ + 1]
                  /\ epc' = IF bp.action = "halt" THEN "halted" ELSE "trigger"
             ELSE UNCHANGED <<hits, lateHits, epc>>
    BY <1>11 DEF EngTrigger
  <2>2. bp.id \in Ids
    BY <2>1, RecordFacts
  <2>3. CountUp(bp) \in [Ids -> Nat]
    BY <2>2 DEF CountUp
  <2>4. passes' \in [Ids -> Nat] /\ hits' \in [Ids -> Nat] /\ lateHits' \in [Ids -> Nat]
    BY <2>1, <2>2
  <2>5. epc' \in {"run", "empty", "lock", "lookup", "trigger", "halted"}
    BY <2>1
  <2>. QED  BY <1>11, <2>1, <2>3, <2>4, <2>5 DEF EngTrigger
<1>12. CASE EngContinue
  BY <1>12 DEF EngContinue
<1>13. CASE EngDone
  BY <1>13 DEF EngDone
<1>14. CASE UNCHANGED vars
  BY <1>14 DEF vars
<1>. QED
  BY <1>1, <1>2, <1>3, <1>4, <1>5, <1>6, <1>7, <1>8, <1>9, <1>10, <1>11, <1>12,
     <1>13, <1>14 DEF Next, EngineWork, NetWork

\* The variables have their types at the start.
LEMMA TypeInit == Init => Typed
BY BoundsAssumption, LowerIsName DEF Init, Typed, TypeOK, RequestOK

\* Every variable keeps its type, for any files, lines, counts and bounds.
THEOREM TypeCorrect == Spec => []TypeOK
<1>1. Typed => TypeOK
  BY DEF Typed
<1>. QED  BY TypeInit, TypeStep, <1>1, PTL DEF Spec

-----------------------------------------------------------------------------
(***************************************************************************)
(* Hit counts and late hits.  A breakpoint is in play from the update that *)
(* puts it into the registry to the trigger of its last copy.              *)
(***************************************************************************)
InPlay == Registered \cup toTrigger
Pending == npc \in {"lock", "update"} /\ request.type = "add"
Used == IF Pending THEN adds - 1 ELSE adds

\* The condition has let every count-th execution through, and has counted
\* the others since.
Periodic(bp) ==
  bp.condition.type = "hitcount" =>
    LET i == bp.id   n == bp.condition.count
    IN /\ n = 0 => hits[i] = 0
       /\ n # 0 => /\ passes[i] = n * hits[i] + currentCount[i]
                   /\ currentCount[i] < n

CountInv ==
  /\ \A bp \in InPlay : bp.id <= Used
  /\ \A a, b \in InPlay : a.id = b.id => a = b
  /\ \A i \in Ids : i > Used => /\ currentCount[i] = 0 /\ passes[i] = 0
                                /\ hits[i] = 0 /\ lateHits[i] = 0
  /\ \A bp \in InPlay : Periodic(bp) /\ lateHits[bp.id] = 0
  /\ OneLateHit

\* Division, as the property uses it.
LEMMA DivisionIsExact ==
  ASSUME NEW n \in Nat, n # 0, NEW h \in Nat, NEW r \in Nat, r < n
  PROVE  (n * h + r) \div n = h
BY SMTT(30)

\* One more period.
LEMMA NextPeriod ==
  ASSUME NEW n \in Nat, NEW h \in Nat
  PROVE  n * (h + 1) = n * h + n /\ n * h \in Nat
BY SMTT(30)

\* The condition of a breakpoint.
LEMMA ConditionFacts ==
  \A c \in Conditions : \/ c.type = "none"
                        \/ c.type = "hitcount" /\ c.count \in Nat
BY BoundsAssumption DEF Conditions

\* No variable it speaks of changes, and no breakpoint comes into play.
LEMMA CountFrame ==
  ASSUME Typed, CountInv, InPlay' \subseteq InPlay,
         Used \in Int, Used' \in Int, Used <= Used',
         UNCHANGED <<currentCount, passes, hits, lateHits>>
  PROVE  CountInv'
<1>1. \A bp \in InPlay : bp.id \in Ids
  BY RecordFacts DEF InPlay, Registered, Typed, TypeOK
<1>2. \A bp \in InPlay : Periodic(bp)' <=> Periodic(bp)
  BY DEF Periodic
<1>3. Ids \subseteq Int
  BY BoundsAssumption DEF Ids
<1>4. ASSUME NEW bp \in InPlay' PROVE bp.id <= Used'
  <2>1. bp.id \in Int /\ bp.id <= Used
    BY <1>1, <1>3 DEF CountInv
  <2>. QED  BY <2>1
<1>5. \A i \in Ids : i > Used' => i > Used
  BY <1>3
<1>6. \A i \in Ids : i > Used' => /\ currentCount'[i] = 0 /\ passes'[i] = 0
                                  /\ hits'[i] = 0 /\ lateHits'[i] = 0
  BY <1>5 DEF CountInv
<1>. QED  BY <1>2, <1>4, <1>6 DEF CountInv, OneLateHit

\* The new breakpoint has an identity of its own, and counts from zero.
LEMMA CountUpdate ==
  ASSUME Typed, CountInv, NetUpdate
  PROVE  CountInv'
<1>1. /\ npc = "update" /\ request.type \in CommandTypes
      /\ adds \in Nat /\ adds' = adds /\ Used' = adds /\ toTrigger' = toTrigger
      /\ UNCHANGED <<currentCount, passes, hits, lateHits>>
  BY BoundsAssumption DEF NetUpdate, Typed, TypeOK, RequestOK, Used, Pending,
     Engine, History
<1>2. InPlay' \subseteq InPlay \cup {bp \in {request.bp} : request.type = "add"}
  <2>1. Listed(breakPoints') \subseteq
          Listed(breakPoints) \cup {bp \in {request.bp} : request.type = "add"}
    BY <1>1, UpdateBrings DEF NetUpdate
  <2>. QED  BY <1>1, <2>1 DEF InPlay, Registered, Listed
<1>3. CASE request.type # "add"
  <2>1. Used = adds
    BY <1>3 DEF Used, Pending
  <2>. QED  BY <1>1, <1>2, <1>3, <2>1, CountFrame
<1>4. CASE request.type = "add"
  <2>. DEFINE new == request.bp
  <2>1. new \in BPs /\ new.id = adds /\ Used = adds - 1 /\ new.id \in Ids
    BY <1>1, <1>4, RecordFacts DEF Typed, RequestOK, Used, Pending
  <2>2. \A bp \in InPlay : bp.id \in Int /\ bp.id < new.id /\ bp.id <= Used'
    <3>1. \A bp \in InPlay : bp.id \in Ids /\ bp.id <= Used
      BY RecordFacts DEF InPlay, Registered, Typed, TypeOK, CountInv
    <3>. QED  BY <1>1, <2>1, <3>1, BoundsAssumption DEF Ids
  <2>3. /\ currentCount[new.id] = 0 /\ passes[new.id] = 0
        /\ hits[new.id] = 0 /\ lateHits[new.id] = 0
    BY <1>1, <2>1 DEF CountInv
  <2>4. Periodic(new)
    <3>1. new.condition \in Conditions
      BY <2>1, RecordFacts
    <3>2. new.condition.type = "hitcount" => new.condition.count \in Nat
      BY <3>1, ConditionFacts
    <3>. HIDE DEF new
    <3>. QED  BY <2>3, <3>2 DEF Periodic
  <2>5. \A bp : Periodic(bp)' <=> Periodic(bp)
    BY <1>1 DEF Periodic
  <2>6. InPlay' \subseteq InPlay \cup {new}
    BY <1>2
  <2>7. \A i \in Ids : i > Used' => i > Used
    BY <1>1, <2>1, BoundsAssumption DEF Ids
  <2>. HIDE DEF new
  <2>8. \A a, b \in InPlay' : a.id = b.id => a = b
    BY <2>1, <2>2, <2>6, <1>1 DEF CountInv
  <2>9. \A bp \in InPlay' : /\ bp.id <= Used' /\ Periodic(bp)'
                            /\ lateHits'[bp.id] = 0
    BY <1>1, <2>1, <2>2, <2>3, <2>4, <2>5, <2>6 DEF CountInv
  <2>10. \A i \in Ids : i > Used' => /\ currentCount'[i] = 0 /\ passes'[i] = 0
                                     /\ hits'[i] = 0 /\ lateHits'[i] = 0
    BY <1>1, <2>7 DEF CountInv
  <2>. QED  BY <1>1, <2>8, <2>9, <2>10 DEF CountInv, OneLateHit
<1>. QED  BY <1>3, <1>4

\* A trigger counts for its breakpoint only; a late one is the last.
LEMMA CountTrigger ==
  ASSUME Typed, CountInv, EngTrigger
  PROVE  CountInv'
<1>. USE DEF Typed, TypeOK
<1>1. PICK bp \in toTrigger :
        /\ toTrigger' = toTrigger \ {bp}
        /\ currentCount' = CountUp(bp)
        /\ passes' = [passes EXCEPT ![bp.id] = @ + 1]
        /\ IF Matches(bp)
           THEN /\ hits' = [hits EXCEPT ![bp.id] = @ + 1]
                /\ lateHits' = IF bp \in Registered THEN lateHits
                               ELSE [lateHits EXCEPT ![bp.id] = @ + 1]
           ELSE UNCHANGED <<hits, lateHits>>
  BY DEF EngTrigger
<1>2. /\ Registered' = Registered /\ Used' = Used
      /\ InPlay' \subseteq InPlay /\ bp \in InPlay
      /\ bp \in InPlay' => bp \in Registered
  BY <1>1 DEF EngTrigger, Registered, InPlay, Used, Pending, Net
<1>3. bp.id \in Ids /\ bp.condition \in Conditions /\ bp.id <= Used
  BY <1>1, <1>2, RecordFacts DEF CountInv
<1>4. \A b \in InPlay : b.id \in Ids /\ (b # bp => b.id # bp.id)
  BY <1>2, RecordFacts DEF CountInv, InPlay, Registered
<1>5. /\ \A i \in Ids : i # bp.id => /\ currentCount'[i] = currentCount[i]
                                     /\ passes'[i] = passes[i] /\ hits'[i] = hits[i]
                                     /\ lateHits'[i] = lateHits[i]
      /\ passes'[bp.id] = passes[bp.id] + 1
      /\ hits'[bp.id] = IF Matches(bp) THEN hits[bp.id] + 1 ELSE hits[bp.id]
      /\ bp.condition.type # "none" =>
           currentCount'[bp.id] = IF Matches(bp) THEN 0 ELSE currentCount[bp.id] + 1
      /\ lateHits'[bp.id] \in {lateHits[bp.id], lateHits[bp.id] + 1}
      /\ bp \in Registered => lateHits'[bp.id] = lateHits[bp.id]
  BY <1>1, <1>3 DEF CountUp
<1>6. Periodic(bp)'
  <2>. SUFFICES ASSUME bp.condition.type = "hitcount"
                PROVE  LET i == bp.id   n == bp.condition.count
                       IN /\ n = 0 => hits'[i] = 0
                          /\ n # 0 => /\ passes'[i] = n * hits'[i] + currentCount'[i]
                                      /\ currentCount'[i] < n
    BY DEF Periodic
  <2>. DEFINE n == bp.condition.count   c == currentCount[bp.id]
              h == hits[bp.id]          p == passes[bp.id]
  <2>1. n \in Nat /\ c \in Nat /\ h \in Nat /\ p \in Nat
    BY <1>3, ConditionFacts
  <2>2. /\ n = 0 => h = 0
        /\ n # 0 => p = n * h + c /\ c < n
    BY <1>2 DEF CountInv, Periodic
  <2>3. Matches(bp) <=> c + 1 = n
    BY DEF Matches
  <2>4. n * (h + 1) = n * h + n /\ n * h \in Nat
    BY <2>1, NextPeriod
  <2>5. /\ passes'[bp.id] = p + 1
        /\ hits'[bp.id] = IF c + 1 = n THEN h + 1 ELSE h
        /\ currentCount'[bp.id] = IF c + 1 = n THEN 0 ELSE c + 1
    BY <1>5, <2>3
  <2>. HIDE DEF n, c, h, p
  <2>6. /\ n = 0 => hits'[bp.id] = 0
        /\ n # 0 => /\ passes'[bp.id] = n * hits'[bp.id] + currentCount'[bp.id]
                    /\ currentCount'[bp.id] < n
    <3>1. CASE c + 1 = n
      BY <2>1, <2>2, <2>4, <2>5, <3>1
    <3>2. CASE c + 1 # n
      BY <2>1, <2>2, <2>4, <2>5, <3>2
    <3>. QED  BY <3>1, <3>2
  <2>. QED  BY <2>6 DEF n
<1>7. \A b \in InPlay : b # bp => (Periodic(b)' <=> Periodic(b))
  BY <1>4, <1>5 DEF Periodic
<1>8. \A b \in InPlay' : Periodic(b)' /\ lateHits'[b.id] = 0
  BY <1>2, <1>4, <1>5, <1>6, <1>7 DEF CountInv
<1>9. OneLateHit'
  <2>1. lateHits[bp.id] = 0
    BY <1>2 DEF CountInv
  <2>. QED  BY <1>3, <1>5, <2>1 DEF OneLateHit, CountInv
<1>10. \A i \in Ids : i > Used' => i # bp.id /\ i > Used
  <2>1. Ids \subseteq Int /\ Used \in Int
    BY BoundsAssumption DEF Ids, Used
  <2>. QED  BY <1>2, <1>3, <2>1
<1>11. \A i \in Ids : i > Used' => /\ currentCount'[i] = 0 /\ passes'[i] = 0
                                   /\ hits'[i] = 0 /\ lateHits'[i] = 0
  BY <1>5, <1>10 DEF CountInv
<1>. QED  BY <1>2, <1>8, <1>9, <1>11 DEF CountInv

\* Every other step leaves the counts alone.
LEMMA CountStep == ASSUME Typed, CountInv, [Next]_vars PROVE CountInv'
<1>. USE DEF Engine, Net, History
<1>1. adds \in Nat /\ Used \in Int
  BY BoundsAssumption DEF Typed, TypeOK, Used
<1>2. CASE NetUpdate
  BY <1>2, CountUpdate
<1>3. CASE EngTrigger
  BY <1>3, CountTrigger
<1>4. CASE EngLookup
  <2>1. InPlay' \subseteq InPlay /\ Used' = Used
    BY <1>4 DEF EngLookup, OnLine, InPlay, Registered, Used, Pending
  <2>. QED  BY <1>1, <1>4, <2>1, CountFrame DEF EngLookup
<1>5. CASE NetAddBreakpoint
  <2>1. npc = "idle" /\ adds' = adds + 1 /\ request'.type = "add" /\ npc' = "lock"
    BY <1>5 DEF NetAddBreakpoint, Receive
  <2>2. Used = adds /\ Used' = adds
    BY <1>1, <2>1 DEF Used, Pending
  <2>3. InPlay' = InPlay
    BY <1>5 DEF NetAddBreakpoint, Receive, InPlay, Registered
  <2>. QED  BY <1>1, <1>5, <2>2, <2>3, CountFrame DEF NetAddBreakpoint, Receive
<1>6. CASE NetDelBreakpoint \/ NetClearFile \/ NetClearAll
  <2>1. npc = "idle" /\ request'.type # "add" /\ UNCHANGED adds
    BY <1>6 DEF NetDelBreakpoint, NetClearFile, NetClearAll, Receive
  <2>2. Used = adds /\ Used' = adds
    BY <2>1 DEF Used, Pending
  <2>3. /\ InPlay' = InPlay
        /\ UNCHANGED <<currentCount, passes, hits, lateHits>>
    BY <1>6 DEF NetDelBreakpoint, NetClearFile, NetClearAll, Receive, InPlay,
       Registered
  <2>. QED  BY <1>1, <2>2, <2>3, CountFrame
<1>7. CASE NetLock
  <2>1. Used' = Used /\ InPlay' = InPlay
    BY <1>7 DEF NetLock, Used, Pending, InPlay, Registered
  <2>. QED  BY <1>1, <1>7, <2>1, CountFrame DEF NetLock
<1>8. CASE EngInstruction \/ EngEmpty \/ EngLock \/ EngContinue \/ EngDone
             \/ UNCHANGED vars
  <2>1. UNCHANGED <<breakPoints, toTrigger, npc, request, adds, currentCount,
                    passes, hits, lateHits>>
    BY <1>8 DEF EngInstruction, EngEmpty, EngLock, EngContinue, EngDone, vars
  <2>2. Used' = Used /\ InPlay' = InPlay
    BY <2>1 DEF Used, Pending, InPlay, Registered
  <2>. QED  BY <1>1, <2>1, <2>2, CountFrame
<1>. QED
  BY <1>2, <1>3, <1>4, <1>5, <1>6, <1>7, <1>8 DEF Next, EngineWork, NetWork

\* Nothing has been counted at the start.
LEMMA CountInit == Init => CountInv
<1>. SUFFICES ASSUME Init PROVE CountInv
  OBVIOUS
<1>1. InPlay = {}
  BY DEF Init, InPlay, Registered
<1>. QED  BY <1>1 DEF Init, CountInv, OneLateHit

\* Hence it always holds.
LEMMA CountAlways == Spec => [](Typed /\ CountInv)
BY TypeInit, TypeStep, CountInit, CountStep, PTL DEF Spec

\* Every count-th execution of its line hits a breakpoint with a hit count,
\* although each works on copies and the user changes other breakpoints.
THEOREM HitCountsArePeriodic == Spec => []HitCountIsPeriodic
<1>1. Typed /\ CountInv => HitCountIsPeriodic
  <2>. SUFFICES ASSUME Typed, CountInv, NEW bp \in Registered,
                       bp.condition.type = "hitcount"
                PROVE  hits[bp.id] = IF bp.condition.count = 0 THEN 0
                                     ELSE passes[bp.id] \div bp.condition.count
    BY DEF HitCountIsPeriodic
  <2>1. bp \in BPs
    BY DEF Registered, Typed, TypeOK
  <2>2. bp.id \in Ids /\ bp.condition.count \in Nat
    BY <2>1, RecordFacts, ConditionFacts
  <2>3. hits[bp.id] \in Nat /\ currentCount[bp.id] \in Nat
    BY <2>2 DEF Typed, TypeOK
  <2>4. Periodic(bp)
    BY DEF CountInv, InPlay
  <2>5. CASE bp.condition.count = 0
    BY <2>4, <2>5 DEF Periodic
  <2>6. CASE bp.condition.count # 0
    <3>1. /\ passes[bp.id] = bp.condition.count * hits[bp.id] + currentCount[bp.id]
          /\ currentCount[bp.id] < bp.condition.count
      BY <2>4, <2>6 DEF Periodic
    <3>. QED  BY <2>2, <2>3, <2>6, <3>1, DivisionIsExact
  <2>. QED  BY <2>5, <2>6
<1>. QED  BY CountAlways, <1>1, PTL

\* A breakpoint that has left the registry hits once more at most.
THEOREM LateHitsAreSingle == Spec => []OneLateHit
<1>1. CountInv => OneLateHit
  BY DEF CountInv
<1>. QED  BY CountAlways, <1>1, PTL
-----------------------------------------------------------------------------
(***************************************************************************)
(* The registry implements a table.                                        *)
(***************************************************************************)
TableInv ==
  /\ npc \in {"lock", "update"} =>
       /\ request.type \in {"add", "del"} => request.file \in LowerNames
       /\ request.type = "del" => request.line \in Lines
  /\ where \in [file : LowerNames, line : Lines]
  /\ epc \in {"run", "empty", "lock", "lookup"} => toTrigger = {}

\* Lower-case names.
LEMMA LowerFacts ==
  /\ \A n \in Names : Lower(n) \in LowerNames
  /\ \A n \in LowerNames : n \in Names /\ Lower(n) = n
BY DEF Names, Lower, LowerNames

\* The line of a breakpoint.
LEMMA LineFacts == \A bp \in BPs : bp.line \in Lines
<1> DEFINE Actions == {"halt", "log"}   Hitcounts == 0..65535
<1>1. BPs = [id : Ids, line : Lines, condition : Conditions, action : Actions,
             hitcount : Hitcounts]
  BY DEF BPs
<1> HIDE DEF Actions, Hitcounts
<1>. QED  BY <1>1

\* What the table has at a place.
LEMMA TableEntry ==
  ASSUME NEW map, NEW p \in LowerNames \X Lines
  PROVE  TableOf(map)[p] = IF p[1] \in DOMAIN map
                           THEN IdsOf(OnLine(map[p[1]], p[2])) ELSE {}
BY DEF TableOf

\* Two tables are the same if they agree everywhere.
LEMMA TableEqual ==
  ASSUME NEW map, NEW t, t = [p \in LowerNames \X Lines |-> t[p]],
         \A p \in LowerNames \X Lines : TableOf(map)[p] = t[p]
  PROVE  TableOf(map) = t
<1>1. TableOf(map) = [p \in LowerNames \X Lines |-> TableOf(map)[p]]
  BY DEF TableOf
<1>. QED  BY <1>1

\* Another list of one file.
LEMMA TablePut ==
  ASSUME NEW map, NEW file, NEW list, NEW p \in LowerNames \X Lines
  PROVE  TableOf(Put(map, file, list))[p] =
           IF p[1] = file THEN IdsOf(OnLine(list, p[2])) ELSE TableOf(map)[p]
<1>1. CASE p[1] = file
  <2>1. p[1] \in DOMAIN Put(map, file, list) /\ Put(map, file, list)[p[1]] = list
    BY <1>1 DEF Put
  <2>. QED  BY <1>1, <2>1, TableEntry
<1>2. CASE p[1] # file
  <2>1. p[1] \in DOMAIN Put(map, file, list) <=> p[1] \in DOMAIN map
    BY <1>2 DEF Put
  <2>2. p[1] \in DOMAIN map => Put(map, file, list)[p[1]] = map[p[1]]
    BY <1>2 DEF Put
  <2>. QED  BY <1>2, <2>1, <2>2, TableEntry
<1>. QED  BY <1>1, <1>2

\* No list of one file.
LEMMA TableErase ==
  ASSUME NEW map, NEW file, NEW p \in LowerNames \X Lines
  PROVE  TableOf(Erase(map, file))[p] =
           IF p[1] = file THEN {} ELSE TableOf(map)[p]
<1>1. p[1] \in DOMAIN Erase(map, file) <=> p[1] \in DOMAIN map /\ p[1] # file
  BY DEF Erase
<1>2. p[1] \in DOMAIN map /\ p[1] # file => Erase(map, file)[p[1]] = map[p[1]]
  BY DEF Erase
<1>. QED  BY <1>1, <1>2, TableEntry

\* add sets its breakpoint, whatever the list looked like.
LEMMA AddSets ==
  ASSUME NEW map, UniqueLines(map), NEW file \in LowerNames, NEW bp,
         bp.line \in Lines, NEW m \in Added(map, file, bp)
  PROVE  TableOf(m) = [TableOf(map) EXCEPT ![<<file, bp.line>>] = {bp.id}]
<1>1. PICK list :
        /\ m = Put(map, file, list)
        /\ OnLine(list, bp.line) = {bp}
        /\ \A l \in Lines \ {bp.line} :
             OnLine(list, l) = IF file \in DOMAIN map THEN OnLine(map[file], l) ELSE {}
  <2>1. CASE file \notin DOMAIN map
    <3>1. m = Put(map, file, {bp})
      BY <2>1 DEF Added
    <3>2. OnLine({bp}, bp.line) = {bp}
          /\ \A l \in Lines \ {bp.line} : OnLine({bp}, l) = {}
      BY DEF OnLine
    <3>. QED  BY <2>1, <3>1, <3>2
  <2>2. CASE file \in DOMAIN map /\ OnLine(map[file], bp.line) = {}
    <3>1. m = Put(map, file, map[file] \cup {bp})
      BY <2>2 DEF Added
    <3>2. OnLine(map[file] \cup {bp}, bp.line) = {bp}
          /\ \A l \in Lines \ {bp.line} :
               OnLine(map[file] \cup {bp}, l) = OnLine(map[file], l)
      BY <2>2 DEF OnLine
    <3>. QED  BY <2>2, <3>1, <3>2
  <2>3. CASE file \in DOMAIN map /\ OnLine(map[file], bp.line) # {}
    <3>1. PICK old \in OnLine(map[file], bp.line) :
            m = Put(map, file, (map[file] \ {old}) \cup {bp})
      BY <2>3 DEF Added
    <3>2. OnLine((map[file] \ {old}) \cup {bp}, bp.line) = {bp}
          /\ \A l \in Lines \ {bp.line} :
               OnLine((map[file] \ {old}) \cup {bp}, l) = OnLine(map[file], l)
      BY <2>3, <3>1 DEF OnLine, UniqueLines
    <3>. QED  BY <2>3, <3>1, <3>2
  <2>. QED  BY <2>1, <2>2, <2>3
<1> DEFINE t == [TableOf(map) EXCEPT ![<<file, bp.line>>] = {bp.id}]
<1>2. t = [p \in LowerNames \X Lines |-> t[p]]
  BY DEF TableOf
<1>3. ASSUME NEW p \in LowerNames \X Lines PROVE TableOf(m)[p] = t[p]
  <2>1. t[p] = IF p = <<file, bp.line>> THEN {bp.id} ELSE TableOf(map)[p]
    BY DEF TableOf
  <2>2. p[1] \in LowerNames /\ p[2] \in Lines /\ p = <<p[1], p[2]>>
    OBVIOUS
  <2>3. IdsOf({bp}) = {bp.id} /\ IdsOf({}) = {}
    BY DEF IdsOf
  <2> HIDE DEF t
  <2>4. CASE p[1] # file
    BY <1>1, <2>1, <2>2, <2>4, TablePut
  <2>5. CASE p[1] = file /\ p[2] = bp.line
    BY <1>1, <2>1, <2>2, <2>3, <2>5, TablePut
  <2>6. CASE p[1] = file /\ p[2] # bp.line
    <3>1. TableOf(m)[p] = IdsOf(OnLine(
            IF file \in DOMAIN map THEN map[file] ELSE {}, p[2]))
      <4>1. TableOf(m)[p] = IF file \in DOMAIN map
                            THEN IdsOf(OnLine(map[file], p[2])) ELSE IdsOf({})
        BY <1>1, <2>2, <2>6, TablePut
      <4>2. OnLine({}, p[2]) = {}
        BY DEF OnLine
      <4>. QED  BY <4>1, <4>2
    <3>2. OnLine({}, p[2]) = {}
      BY DEF OnLine
    <3>3. t[p] = TableOf(map)[p]
      BY <2>1, <2>2, <2>6
    <3>. QED  BY <2>3, <2>6, <3>1, <3>2, <3>3, TableEntry
  <2>. QED  BY <2>4, <2>5, <2>6
<1> HIDE DEF t
<1>4. TableOf(m) = t
  BY <1>2, <1>3, TableEqual
<1>. QED  BY <1>4 DEF t

\* del clears its place: one erased match is all there is.
LEMMA DeleteClears ==
  ASSUME NEW map, UniqueLines(map), NEW file \in LowerNames, NEW line \in Lines,
         NEW m \in Deleted(map, file, line)
  PROVE  TableOf(m) = [TableOf(map) EXCEPT ![<<file, line>>] = {}]
<1> DEFINE t == [TableOf(map) EXCEPT ![<<file, line>>] = {}]
<1>1. t = [p \in LowerNames \X Lines |-> t[p]]
  BY DEF TableOf
<1>2. ASSUME NEW p \in LowerNames \X Lines
      PROVE  t[p] = IF p = <<file, line>> THEN {} ELSE TableOf(map)[p]
  BY DEF TableOf
<1>3. IdsOf({}) = {} /\ \A l : OnLine({}, l) = {}
  BY DEF IdsOf, OnLine
<1> HIDE DEF t
<1>4. ASSUME NEW p \in LowerNames \X Lines PROVE TableOf(m)[p] = t[p]
  <2>2. p[1] \in LowerNames /\ p[2] \in Lines /\ p = <<p[1], p[2]>>
    OBVIOUS
  <2>3. CASE file \notin DOMAIN map
    <3>1. m = map
      BY <2>3 DEF Deleted
    <3>. QED  BY <1>2, <2>2, <2>3, <3>1, TableEntry
  <2>4. CASE file \in DOMAIN map
    <3>1. PICK list :
            /\ m = IF list = {} THEN Erase(map, file) ELSE Put(map, file, list)
            /\ \/ list = map[file] /\ OnLine(map[file], line) = {}
               \/ \E old \in OnLine(map[file], line) : list = map[file] \ {old}
      BY <2>4 DEF Deleted
    <3>2. /\ OnLine(list, line) = {}
          /\ \A l \in Lines \ {line} : OnLine(list, l) = OnLine(map[file], l)
      BY <2>4, <3>1 DEF OnLine, UniqueLines
    <3>3. TableOf(m)[p] = IF p[1] = file THEN IdsOf(OnLine(list, p[2]))
                          ELSE TableOf(map)[p]
      <4>1. CASE list = {}
        <5>1. TableOf(m)[p] = IF p[1] = file THEN {} ELSE TableOf(map)[p]
          BY <3>1, <4>1, TableErase
        <5>2. IdsOf(OnLine(list, p[2])) = {}
          BY <1>3, <4>1
        <5>. QED  BY <5>1, <5>2
      <4>2. CASE list # {}
        <5>1. m = Put(map, file, list)
          BY <3>1, <4>2
        <5>. QED  BY <5>1, TablePut
      <4>. QED  BY <4>1, <4>2
    <3>4. CASE p[1] # file
      BY <1>2, <2>2, <3>3, <3>4
    <3>5. CASE p[1] = file /\ p[2] = line
      BY <1>2, <1>3, <2>2, <3>2, <3>3, <3>5
    <3>6. CASE p[1] = file /\ p[2] # line
      BY <1>2, <2>2, <2>4, <3>2, <3>3, <3>6, TableEntry
    <3>. QED  BY <3>4, <3>5, <3>6
  <2>. QED  BY <2>3, <2>4
<1>5. TableOf(m) = t
  BY <1>1, <1>4, TableEqual
<1>. QED  BY <1>5 DEF t

\* Erasing a list clears a file, or nothing if no list has that name.
LEMMA EraseClears ==
  ASSUME NEW map, NEW name
  PROVE  /\ TableOf(Erase(map, name)) =
              [p \in LowerNames \X Lines |->
                 IF p[1] = name THEN {} ELSE TableOf(map)[p]]
         /\ name \notin LowerNames => TableOf(Erase(map, name)) = TableOf(map)
<1> DEFINE t == [p \in LowerNames \X Lines |->
                   IF p[1] = name THEN {} ELSE TableOf(map)[p]]
<1>1. TableOf(Erase(map, name)) = t
  <2>1. t = [p \in LowerNames \X Lines |-> t[p]]
    OBVIOUS
  <2>2. \A p \in LowerNames \X Lines :
          t[p] = IF p[1] = name THEN {} ELSE TableOf(map)[p]
    OBVIOUS
  <2> HIDE DEF t
  <2>3. \A p \in LowerNames \X Lines : TableOf(Erase(map, name))[p] = t[p]
    BY <2>2, TableErase
  <2>. QED  BY <2>1, <2>3, TableEqual
<1>2. name \notin LowerNames => t = TableOf(map)
  <2>1. name \notin LowerNames => \A p \in LowerNames \X Lines : p[1] # name
    OBVIOUS
  <2>2. TableOf(map) = [p \in LowerNames \X Lines |-> TableOf(map)[p]]
    BY DEF TableOf
  <2>. QED  BY <2>1, <2>2
<1>. QED  BY <1>1, <1>2

\* What the mapping rests on.
LEMMA TableInvStep ==
  ASSUME Typed, RegistryInv, TableInv, [Next]_vars
  PROVE  TableInv'
<1> USE DEF TableInv, Engine, Net
<1>1. CASE NetAddBreakpoint
  <2>1. PICK name \in Names, line \in Lines, c \in Conditions,
             action \in {"halt", "log"} :
          Receive([type |-> "add", file |-> Lower(name),
                   bp |-> [id |-> adds + 1, line |-> line, condition |-> c,
                           action |-> action, hitcount |-> 0]])
    BY <1>1 DEF NetAddBreakpoint
  <2>2. request'.type = "add" /\ request'.file = Lower(name)
    BY <2>1 DEF Receive
  <2>. QED  BY <2>1, <2>2, LowerFacts DEF Receive
<1>2. CASE NetDelBreakpoint
  BY <1>2, LowerFacts DEF NetDelBreakpoint, Receive
<1>3. CASE NetClearFile
  BY <1>3 DEF NetClearFile, Receive
<1>4. CASE NetClearAll
  BY <1>4 DEF NetClearAll, Receive
<1>5. CASE NetLock
  BY <1>5 DEF NetLock
<1>6. CASE NetUpdate
  BY <1>6 DEF NetUpdate
<1>7. CASE EngInstruction
  BY <1>7, LowerFacts DEF EngInstruction
<1>8. CASE EngEmpty
  BY <1>8 DEF EngEmpty
<1>9. CASE EngLock
  BY <1>9 DEF EngLock
<1>10. CASE EngLookup
  BY <1>10 DEF EngLookup
<1>11. CASE EngTrigger
  BY <1>11 DEF EngTrigger
<1>12. CASE EngContinue
  BY <1>12 DEF EngContinue
<1>13. CASE EngDone
  BY <1>13 DEF EngDone
<1>14. CASE UNCHANGED vars
  BY <1>14 DEF vars
<1>. QED
  BY <1>1, <1>2, <1>3, <1>4, <1>5, <1>6, <1>7, <1>8, <1>9, <1>10, <1>11, <1>12,
     <1>13, <1>14 DEF Next, EngineWork, NetWork

\* Every step is a step of the table or leaves it alone.
LEMMA TableStep ==
  ASSUME Typed, RegistryInv, TableInv, [Next]_vars
  PROVE  [Table!Next]_Table!vars
<1> DEFINE at == TableOf(breakPoints)
           Asking == epc \in {"empty", "lock", "lookup"}
           Quiet == UNCHANGED <<breakPoints, toTrigger, epc, where>>
<1>0. Quiet => UNCHANGED Table!vars
  BY DEF Table!vars
<1>1. CASE NetAddBreakpoint
  BY <1>0, <1>1 DEF NetAddBreakpoint, Receive, Engine
<1>2. CASE NetDelBreakpoint
  BY <1>0, <1>2 DEF NetDelBreakpoint, Receive, Engine
<1>3. CASE NetClearFile
  BY <1>0, <1>3 DEF NetClearFile, Receive, Engine
<1>4. CASE NetClearAll
  BY <1>0, <1>4 DEF NetClearAll, Receive, Engine
<1>5. CASE NetLock
  BY <1>0, <1>5 DEF NetLock, Engine
<1>6. CASE NetUpdate
  <2>1. /\ UNCHANGED <<toTrigger, epc, where>>
        /\ breakPoints' \in Updated(breakPoints, request)
        /\ UniqueLines(breakPoints) /\ request.type \in CommandTypes
    BY <1>6 DEF NetUpdate, Engine, RegistryInv
  <2>2. CASE request.type = "add"
    <3> DEFINE p == <<request.file, request.bp.line>>
               id == request.bp.id
    <3>1. request.bp \in BPs /\ request.file \in LowerNames
      BY <1>6, <2>2 DEF NetUpdate, Typed, RequestOK, TableInv
    <3>2. request.bp.line \in Lines /\ id \in Ids
      BY <3>1, RecordFacts, LineFacts
    <3>3. TableOf(breakPoints') = [TableOf(breakPoints) EXCEPT ![p] = {id}]
      BY <2>1, <2>2, <3>1, <3>2, AddSets DEF Updated
    <3>4. p \in LowerNames \X Lines
      BY <3>1, <3>2
    <3> HIDE DEF p, id
    <3>5. Table!Set(p, id)
      BY <2>1, <3>3 DEF Table!Set
    <3>. QED  BY <3>2, <3>4, <3>5 DEF Table!Next, Table!Places
  <2>3. CASE request.type = "del"
    <3> DEFINE p == <<request.file, request.line>>
    <3>1. request.line \in Lines /\ request.file \in LowerNames
      BY <1>6, <2>3 DEF NetUpdate, TableInv
    <3>2. TableOf(breakPoints') = [TableOf(breakPoints) EXCEPT ![p] = {}]
      BY <2>1, <2>3, <3>1, DeleteClears DEF Updated
    <3>3. p \in LowerNames \X Lines
      BY <3>1
    <3> HIDE DEF p
    <3>4. Table!Delete(p)
      BY <2>1, <3>2 DEF Table!Delete
    <3>. QED  BY <3>3, <3>4 DEF Table!Next, Table!Places
  <2>4. CASE request.type = "clearFile"
    <3>1. PICK name : breakPoints' = Erase(breakPoints, name)
      BY <2>1, <2>4 DEF Updated
    <3>2. CASE name \in LowerNames
      <4>1. Table!ClearFile(name)
        BY <2>1, <3>1, EraseClears DEF Table!ClearFile, Table!Places
      <4>. QED  BY <3>2, <4>1 DEF Table!Next
    <3>3. CASE name \notin LowerNames
      <4>1. TableOf(breakPoints') = TableOf(breakPoints)
        BY <3>1, <3>3, EraseClears
      <4>. QED  BY <2>1, <4>1 DEF Table!vars
    <3>. QED  BY <3>2, <3>3
  <2>5. CASE request.type = "clearAll"
    <3>1. breakPoints' = [n \in {} |-> {}]
      BY <2>1, <2>5 DEF Updated
    <3>2. TableOf(breakPoints') = [p \in LowerNames \X Lines |-> {}]
      BY <3>1 DEF TableOf
    <3>3. Table!ClearAll
      BY <2>1, <3>2 DEF Table!ClearAll, Table!Places
    <3>. QED  BY <3>3 DEF Table!Next
  <2>. QED  BY <2>1, <2>2, <2>3, <2>4, <2>5 DEF CommandTypes
<1>7. CASE EngInstruction
  <2>1. /\ epc = "run" /\ epc' = "empty" /\ toTrigger = {}
        /\ UNCHANGED <<breakPoints, toTrigger>>
        /\ where' \in [file : LowerNames, line : Lines]
    BY <1>7, LowerFacts DEF EngInstruction, TableInv
  <2> DEFINE p == <<where'.file, where'.line>>
  <2>2. p \in LowerNames \X Lines
    BY <2>1
  <2>3. IdsOf(toTrigger) = {}
    BY <2>1 DEF IdsOf
  <2>4. Table!Execute(p)
    BY <2>1, <2>3 DEF Table!Execute
  <2> HIDE DEF p
  <2>. QED  BY <2>2, <2>4 DEF Table!Next, Table!Places
<1>8. CASE EngEmpty
  <2> DEFINE p == <<where.file, where.line>>
  <2>1. /\ epc = "empty" /\ toTrigger = {} /\ p \in LowerNames \X Lines
        /\ UNCHANGED <<breakPoints, toTrigger, where>>
    BY <1>8 DEF EngEmpty, TableInv
  <2>2. CASE DOMAIN breakPoints = {}
    <3>1. epc' = "run"
      BY <1>8, <2>2 DEF EngEmpty
    <3>2. TableOf(breakPoints)[p] = {} /\ IdsOf(toTrigger) = {}
      BY <2>1, <2>2, TableEntry DEF IdsOf
    <3>3. Table!LookUp(p)
      BY <2>1, <3>1, <3>2 DEF Table!LookUp
    <3> HIDE DEF p
    <3>. QED  BY <2>1, <3>3 DEF Table!Next, Table!Places
  <2>3. CASE DOMAIN breakPoints # {}
    <3>1. epc' = "lock"
      BY <1>8, <2>3 DEF EngEmpty
    <3>. QED  BY <2>1, <3>1 DEF Table!vars
  <2>. QED  BY <2>2, <2>3
<1>9. CASE EngLock
  <2>1. epc = "lock" /\ epc' = "lookup" /\ UNCHANGED <<breakPoints, toTrigger, where>>
    BY <1>9 DEF EngLock
  <2>. QED  BY <2>1 DEF Table!vars
<1>10. CASE EngLookup
  <2> DEFINE p == <<where.file, where.line>>
  <2>1. /\ epc = "lookup" /\ epc' = "trigger" /\ p \in LowerNames \X Lines
        /\ UNCHANGED <<breakPoints, where>>
        /\ toTrigger' = IF where.file \in DOMAIN breakPoints
                        THEN OnLine(breakPoints[where.file], where.line) ELSE {}
    BY <1>10 DEF EngLookup, TableInv
  <2>2. IdsOf(toTrigger') = TableOf(breakPoints)[p]
    <3>1. IdsOf({}) = {}
      BY DEF IdsOf
    <3>. QED  BY <2>1, <3>1, TableEntry
  <2>3. Table!LookUp(p)
    BY <2>1, <2>2 DEF Table!LookUp
  <2> HIDE DEF p
  <2>. QED  BY <2>1, <2>3 DEF Table!Next, Table!Places
<1>11. CASE EngTrigger
  <2>1. /\ epc = "trigger" /\ UNCHANGED <<breakPoints, where>>
        /\ epc' \in {"trigger", "halted"}
        /\ \E bp \in toTrigger : toTrigger' = toTrigger \ {bp}
    BY <1>11 DEF EngTrigger
  <2>2. toTrigger' = {}
    BY <2>1 DEF RegistryInv, AtMostOneTrigger
  <2>3. IdsOf(toTrigger) # {} /\ IdsOf(toTrigger') = {}
    BY <2>1, <2>2 DEF IdsOf
  <2>4. Table!Trigger
    BY <2>1, <2>3 DEF Table!Trigger
  <2>. QED  BY <2>4 DEF Table!Next
<1>12. CASE EngContinue
  <2>1. epc = "halted" /\ epc' = "trigger" /\ UNCHANGED <<breakPoints, toTrigger, where>>
    BY <1>12 DEF EngContinue
  <2>2. Table!Continue
    BY <2>1 DEF Table!Continue
  <2>. QED  BY <2>2 DEF Table!Next
<1>13. CASE EngDone
  <2>1. epc = "trigger" /\ epc' = "run" /\ UNCHANGED <<breakPoints, toTrigger, where>>
    BY <1>13 DEF EngDone
  <2>. QED  BY <2>1 DEF Table!vars
<1>14. CASE UNCHANGED vars
  BY <1>0, <1>14 DEF vars
<1>. QED
  BY <1>1, <1>2, <1>3, <1>4, <1>5, <1>6, <1>7, <1>8, <1>9, <1>10, <1>11, <1>12,
     <1>13, <1>14 DEF Next, EngineWork, NetWork

\* The lists, the copies, the lock and the test without it implement a table
\* that commands change at once and each statement looks into once.
THEOREM RegistryIsTable == Spec => ImplementsTable
<1>1. Init => TableInv /\ Table!Init
  <2> SUFFICES ASSUME Init PROVE TableInv /\ Table!Init
    OBVIOUS
  <2>1. TableInv
    BY LowerFacts DEF Init, TableInv, NoRequest
  <2>2. /\ TableOf(breakPoints) = [p \in LowerNames \X Lines |-> {}]
        /\ IdsOf(toTrigger) = {} /\ epc = "run"
    BY DEF Init, TableOf, IdsOf
  <2>3. Table!Init
    BY <2>2 DEF Table!Init, Table!Places
  <2>. QED  BY <2>1, <2>3
<1>2. Typed /\ RegistryInv /\ TableInv /\ [Next]_vars
        => TableInv' /\ [Table!Next]_Table!vars
  BY TableInvStep, TableStep
<1>3. Spec => []Typed
  BY TypeInit, TypeStep, PTL DEF Spec
<1>. QED  BY <1>1, <1>2, <1>3, RegistryInvariant, PTL DEF Spec, ImplementsTable,
             Table!Spec
=============================================================================
