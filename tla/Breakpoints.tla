---------------------------- MODULE Breakpoints -----------------------------
(***************************************************************************)
(* The breakpoint registry, Debugger::breakPoints: the network thread      *)
(* ("net") adds and removes breakpoints under breakPointsLock, the script  *)
(* thread ("engine") looks up the ones on the line it is about to execute, *)
(* copies them, gives the lock back and triggers the copies, which may     *)
(* halt it for as long as the user likes.                                  *)
(*                                                                         *)
(* A file name is its path and whether it is spelled with capitals; a      *)
(* breakpointList is a set, because BP records carry the identity of the   *)
(* addBreakpoint command that made them.  Code conditions and the ExecCode *)
(* action, which run SQF of their own, are not modelled.                   *)
(***************************************************************************)
EXTENDS Naturals, FiniteSets

CONSTANTS
  Paths,            \* script files
  Lines,            \* line numbers
  Counts,           \* the counts of HitCount conditions
  MaxAdds,          \* bound: addBreakpoint commands
  MaxInstructions   \* bound: instructions executed

ASSUME BoundsAssumption ==
  /\ Counts \subseteq Nat
  /\ MaxAdds \in Nat /\ MaxInstructions \in Nat

Names == [path : Paths, capitals : BOOLEAN]
Lower(name) == [path |-> name.path, capitals |-> FALSE]   \* r_string::to_lower

Ids == 1..MaxAdds
\* hitcount is a uint16_t member; condition and action are shared pointers, so
\* the copies of a breakpoint share currentCount.
Conditions == [type : {"none"}] \cup [type : {"hitcount"}, count : Counts]
BPs == [id : Ids, line : Lines, condition : Conditions, action : {"halt", "log"},
        hitcount : 0..65535]

VARIABLES
  breakPoints,   \* lower-case name -> its breakpoints; only names with a list
  currentCount,  \* BPCondition_HitCount::currentCount of each breakpoint made
  owner,         \* who holds breakPointsLock: "none", "engine" or "net"
  epc,           \* what the engine does next
  where,         \* the instruction it looks at
  toTrigger,     \* BPsToTrigger, the copies not triggered yet
  npc, request,  \* what the network thread does next, and for which command
  adds, executed,          \* bounded counters
  passes, hits, lateHits   \* history: evaluations of a breakpoint, triggers,
                           \* and triggers after it left the registry

vars == <<breakPoints, currentCount, owner, epc, where, toTrigger, npc, request,
          adds, executed, passes, hits, lateHits>>
Engine == <<epc, where, toTrigger, executed>>
Net == <<npc, request, adds>>
History == <<passes, hits, lateHits>>

NoRequest == [type |-> "none"]

Init ==
  /\ breakPoints = [n \in {} |-> {}]
  /\ currentCount = [i \in Ids |-> 0]
  /\ owner = "none"
  /\ epc = "run"
  /\ where \in [file : {Lower(n) : n \in Names}, line : Lines]
  /\ toTrigger = {}
  /\ npc = "idle"
  /\ request = NoRequest
  /\ adds = 0
  /\ executed = 0
  /\ passes = [i \in Ids |-> 0]
  /\ hits = [i \in Ids |-> 0]
  /\ lateHits = [i \in Ids |-> 0]

\* unordered_map::operator[] = and erase
Put(map, key, list) ==
  [k \in DOMAIN map \cup {key} |-> IF k = key THEN list ELSE map[k]]
Erase(map, key) == [k \in DOMAIN map \ {key} |-> map[k]]

Registered == UNION {breakPoints[n] : n \in DOMAIN breakPoints}
OnLine(list, line) == {bp \in list : bp.line = line}

-----------------------------------------------------------------------------
(***************************************************************************)
(* Client commands: parse, lower-case, lock, change the registry, unlock.  *)
(***************************************************************************)

Receive(r) ==
  /\ npc = "idle"
  /\ request' = r
  /\ npc' = "lock"
  /\ UNCHANGED <<breakPoints, currentCount, owner, Engine, History>>

NetAddBreakpoint ==
  /\ adds < MaxAdds
  /\ adds' = adds + 1
  /\ \E name \in Names, line \in Lines, c \in Conditions, action \in {"halt", "log"} :
       Receive([type |-> "add", file |-> Lower(name),
                bp |-> [id |-> adds + 1, line |-> line, condition |-> c,
                        action |-> action, hitcount |-> 0]])

NetDelBreakpoint ==
  /\ UNCHANGED adds
  /\ \E name \in Names, line \in Lines :
       Receive([type |-> "del", file |-> Lower(name), line |-> line])

\* clearFileBreakpoints uses the name as the client spells it.  Whether the
\* map then finds the lower-case key is up to r_string's hash and comparison.
NetClearFile ==
  /\ UNCHANGED adds
  /\ \E name \in Names : Receive([type |-> "clearFile", file |-> name])

NetClearAll ==
  /\ UNCHANGED adds
  /\ Receive([type |-> "clearAll"])

NetLock ==
  /\ npc = "lock" /\ owner = "none"
  /\ owner' = "net"
  /\ npc' = "update"
  /\ UNCHANGED <<breakPoints, currentCount, request, adds, Engine, History>>

\* Mutant: the old breakpoint stays.
AddedTwice(map, file, bp) ==
  {Put(map, file, IF file \in DOMAIN map THEN map[file] \cup {bp} ELSE {bp})}

\* A breakpoint on the same line is replaced: the first one found is erased.
Added(map, file, bp) ==
  IF file \in DOMAIN map
  THEN IF OnLine(map[file], bp.line) = {}
       THEN {Put(map, file, map[file] \cup {bp})}
       ELSE {Put(map, file, (map[file] \ {old}) \cup {bp}) : old \in OnLine(map[file], bp.line)}
  ELSE {Put(map, file, {bp})}

\* Mutant: the list that became empty stays.
DeletedButListed(map, file, line) ==
  IF file \notin DOMAIN map THEN {map}
  ELSE {Put(map, file, map[file] \ {old}) : old \in OnLine(map[file], line)}
         \cup {m \in {map} : OnLine(map[file], line) = {}}

\* The first one found is erased, and a list left empty with it.
Deleted(map, file, line) ==
  IF file \notin DOMAIN map THEN {map}
  ELSE LET lists == IF OnLine(map[file], line) = {} THEN {map[file]}
                    ELSE {map[file] \ {old} : old \in OnLine(map[file], line)}
       IN  {IF list = {} THEN Erase(map, file) ELSE Put(map, file, list) : list \in lists}

\* The maps a command may leave behind.
Updated(map, r) ==
  CASE r.type = "add" -> Added(map, r.file, r.bp)
    [] r.type = "del" -> Deleted(map, r.file, r.line)
    [] r.type = "clearFile" -> {Erase(map, r.file), Erase(map, Lower(r.file))}
    [] r.type = "clearAll" -> {[n \in {} |-> {}]}

NetUpdate ==
  /\ npc = "update"
  /\ breakPoints' \in Updated(breakPoints, request)
  /\ owner' = "none"
  /\ npc' = "idle" /\ request' = NoRequest
  /\ UNCHANGED <<currentCount, adds, Engine, History>>

-----------------------------------------------------------------------------
(***************************************************************************)
(* The script thread: the tail of Debugger::checkForBreakpoint.            *)
(***************************************************************************)

\* onInstruction has lower-cased the source file; a suffix " [...]" of it is
\* cut off before the lookup.
EngInstruction ==
  /\ epc = "run" /\ executed < MaxInstructions
  /\ executed' = executed + 1
  /\ \E name \in Names, line \in Lines : where' = [file |-> Lower(name), line |-> line]
  /\ epc' = "empty"
  /\ UNCHANGED <<breakPoints, currentCount, owner, toTrigger, Net, History>>

\* if (breakPoints.empty()) return -- before the lock is taken
EngEmpty ==
  /\ epc = "empty"
  /\ epc' = IF DOMAIN breakPoints = {} THEN "run" ELSE "lock"
  /\ UNCHANGED <<breakPoints, currentCount, owner, where, toTrigger, executed, Net, History>>

EngLock ==
  /\ epc = "lock" /\ owner = "none"
  /\ owner' = "engine"
  /\ epc' = "lookup"
  /\ UNCHANGED <<breakPoints, currentCount, where, toTrigger, executed, Net, History>>

\* Mutant: the lock is kept for the triggers when something was found.
EngLookupLocked ==
  /\ epc = "lookup"
  /\ toTrigger' = IF where.file \in DOMAIN breakPoints
                  THEN OnLine(breakPoints[where.file], where.line)
                  ELSE {}
  /\ owner' = IF toTrigger' = {} THEN "none" ELSE "engine"
  /\ epc' = "trigger"
  /\ UNCHANGED <<breakPoints, currentCount, where, executed, Net, History>>

\* Mutant: every breakpoint of the file is copied.
EngLookupLines ==
  /\ epc = "lookup"
  /\ toTrigger' = IF where.file \in DOMAIN breakPoints
                  THEN breakPoints[where.file] ELSE {}
  /\ owner' = "none"
  /\ epc' = "trigger"
  /\ UNCHANGED <<breakPoints, currentCount, where, executed, Net, History>>

\* The breakpoints of the line are copied, then the lock is given back.
EngLookup ==
  /\ epc = "lookup"
  /\ toTrigger' = IF where.file \in DOMAIN breakPoints
                  THEN OnLine(breakPoints[where.file], where.line)
                  ELSE {}
  /\ owner' = "none"
  /\ epc' = "trigger"
  /\ UNCHANGED <<breakPoints, currentCount, where, executed, Net, History>>

\* BPCondition_HitCount::isMatching: counts, and starts over when it matches.
Matches(bp) ==
  bp.condition.type = "none" \/ currentCount[bp.id] + 1 = bp.condition.count
\* Mutants: no new start after a match; a count that runs down from zero.
CountUpOn(bp) ==
  IF bp.condition.type = "none" THEN currentCount
  ELSE [currentCount EXCEPT ![bp.id] = @ + 1]
CountDown(bp) ==
  IF bp.condition.type = "none" THEN currentCount
  ELSE [currentCount EXCEPT ![bp.id] = IF Matches(bp) THEN 0 ELSE @ - 1]
CountUp(bp) ==
  IF bp.condition.type = "none" THEN currentCount
  ELSE [currentCount EXCEPT ![bp.id] = IF Matches(bp) THEN 0 ELSE @ + 1]

\* Mutant: the copy is not left behind after its trigger.
EngTriggerAgain ==
  /\ epc = "trigger"
  /\ \E bp \in toTrigger :
       /\ currentCount' = CountUp(bp)
       /\ passes' = [passes EXCEPT ![bp.id] = @ + 1]
       /\ IF Matches(bp)
          THEN /\ hits' = [hits EXCEPT ![bp.id] = @ + 1]
               /\ lateHits' = IF bp \in Registered THEN lateHits
                              ELSE [lateHits EXCEPT ![bp.id] = @ + 1]
               /\ epc' = IF bp.action = "halt" THEN "halted" ELSE "trigger"
          ELSE UNCHANGED <<hits, lateHits, epc>>
  /\ UNCHANGED <<breakPoints, owner, where, toTrigger, executed, Net>>

\* BreakPoint::trigger on a copy: its hitcount goes up, its action runs.
EngTrigger ==
  /\ epc = "trigger"
  /\ \E bp \in toTrigger :
       /\ toTrigger' = toTrigger \ {bp}
       /\ currentCount' = CountUp(bp)
       /\ passes' = [passes EXCEPT ![bp.id] = @ + 1]
       /\ IF Matches(bp)
          THEN /\ hits' = [hits EXCEPT ![bp.id] = @ + 1]
               /\ lateHits' = IF bp \in Registered THEN lateHits
                              ELSE [lateHits EXCEPT ![bp.id] = @ + 1]
               /\ epc' = IF bp.action = "halt" THEN "halted" ELSE "trigger"
          ELSE UNCHANGED <<hits, lateHits, epc>>
  /\ UNCHANGED <<breakPoints, owner, where, executed, Net>>

\* The user lets the game go on.
EngContinue ==
  /\ epc = "halted"
  /\ epc' = "trigger"
  /\ UNCHANGED <<breakPoints, currentCount, owner, where, toTrigger, executed, Net, History>>

EngDone ==
  /\ epc = "trigger" /\ toTrigger = {}
  /\ epc' = "run"
  /\ UNCHANGED <<breakPoints, currentCount, owner, where, toTrigger, executed, Net, History>>

-----------------------------------------------------------------------------
EngineWork == EngEmpty \/ EngLock \/ EngLookup \/ EngTrigger \/ EngDone
NetWork == NetLock \/ NetUpdate

Next ==
  \/ NetAddBreakpoint \/ NetDelBreakpoint \/ NetClearFile \/ NetClearAll \/ NetWork
  \/ EngInstruction \/ EngContinue \/ EngineWork

\* Both threads are scheduled, but a halt may last for ever (no fairness for
\* EngContinue), scripts may end, and clients send what they like.  A waiting
\* writer gets the lock although the reader may come back for it: SF.
Spec == Init /\ [][Next]_vars /\ WF_vars(EngineWork) /\ SF_vars(NetLock) /\ WF_vars(NetUpdate)

-----------------------------------------------------------------------------
TypeOK ==
  /\ DOMAIN breakPoints \subseteq Names
  /\ \A n \in DOMAIN breakPoints : breakPoints[n] \subseteq BPs
  /\ currentCount \in [Ids -> Nat]
  /\ owner \in {"none", "engine", "net"}
  /\ epc \in {"run", "empty", "lock", "lookup", "trigger", "halted"}
  /\ where \in [file : Names, line : Lines]
  /\ toTrigger \subseteq BPs
  /\ npc \in {"idle", "lock", "update"}
  /\ adds \in 0..MaxAdds /\ executed \in 0..MaxInstructions
  /\ passes \in [Ids -> Nat] /\ hits \in [Ids -> Nat] /\ lateHits \in [Ids -> Nat]

\* One statement never halts twice: the lookup copies at most one breakpoint,
\* because add replaces what is on the line.
AtMostOneTrigger == \A a, b \in toTrigger : a = b

\* A file without breakpoints has no entry, whatever was added and deleted,
\* so the unlocked test of breakPoints.empty() keeps instructions cheap.
NoEmptyList == \A n \in DOMAIN breakPoints : breakPoints[n] # {}

\* delBreakpoint erases one match only; still nothing is left on the line.
DeleteIsComplete ==
  [][npc = "update" /\ npc' = "idle" /\ request.type = "del" =>
       request.file \notin DOMAIN breakPoints'
         \/ OnLine(breakPoints'[request.file], request.line) = {}]_vars

\* A HitCount condition lets exactly every count-th execution of its line
\* through, although each execution works on a new copy of the breakpoint.
HitCountIsPeriodic ==
  \A bp \in Registered :
    bp.condition.type = "hitcount" =>
      hits[bp.id] = IF bp.condition.count = 0 THEN 0
                    ELSE passes[bp.id] \div bp.condition.count

\* A breakpoint that was deleted or replaced can halt the game once more, from
\* the copy made before, and never again.
OneLateHit == \A i \in Ids : lateHits[i] <= 1

\* Every registry command finishes, even while a breakpoint holds the game:
\* the lock is given back before the breakpoints are triggered.
CommandsFinish == npc = "lock" ~> npc = "idle"

\* The table of breakpoints the registry stands for.
LowerNames == {n \in Names : ~n.capitals}
IdsOf(list) == {bp.id : bp \in list}
TableOf(map) ==
  [p \in LowerNames \X Lines |->
     IF p[1] \in DOMAIN map THEN IdsOf(OnLine(map[p[1]], p[2])) ELSE {}]
Table == INSTANCE BreakpointTable WITH
  Files <- LowerNames,
  New <- Ids,
  at <- TableOf(breakPoints),
  asking <- IF epc \in {"empty", "lock", "lookup"} THEN {<<where.file, where.line>>}
            ELSE {},
  found <- IdsOf(toTrigger),
  halted <- epc = "halted"

\* Lists that are searched for a first match, copies that trigger without the
\* lock and a test that does not take it still behave like the table: commands
\* take effect at once, and each statement meets what was set at one moment.
ImplementsTable == Table!Spec

\* The registry is only searched with lower-case names.
KeysAreLowered ==
  npc = "update" /\ request.type # "clearAll" => request.file = Lower(request.file)

\* The hit count of a registered breakpoint is the number of its hits.
HitcountCountsHits == \A bp \in Registered : bp.hitcount = hits[bp.id] % 65536
=============================================================================
