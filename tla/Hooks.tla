------------------------------- MODULE Hooks --------------------------------
(***************************************************************************)
(* Hooking the game.  EngineHook::placeHooks works through a list of       *)
(* patterns: HookManager::findPattern scans the image of the game for one, *)
(* byte by byte, and what is found is remembered as a function's address   *)
(* or overwritten with a jump to a hook, which returns behind the jump.    *)
(* What failed is kept in HookIntegrity and shown to the user, and in the  *)
(* end a thread is started that handles script errors (ErrorHandshake).    *)
(*                                                                         *)
(* One step is one position of a scan.  A byte is a member of a small set, *)
(* and a jump is written as PatchLength cells that name its hook.  Neither *)
(* the commands registered with the Intercept host nor the vtable hooks    *)
(* (SQF_Assembly_Iface) use patterns: they are left out.  So is what       *)
(* Debugger::onStartup does after each call of placeHooks: HaltProtocol    *)
(* has it, once.                                                           *)
(***************************************************************************)
EXTENDS Integers, Sequences

CONSTANTS
  Size,         \* engineSize
  Bytes,        \* what the image consists of
  Any,          \* the mask '?'
  PatchLength,  \* bytes of a jump: 14, or 5 in a 32-bit build
  Jobs,         \* what is looked for, in order
  Claimed,      \* flags that are set although nothing is looked for
  Startups      \* how often placeHooks runs: pre_start, DllInterface::Startup

(***************************************************************************)
(* A job names its hook; it is placed, or only found; it has a pattern;    *)
(* then how far from the match the jump or the function is, how far behind *)
(* the jump the hook returns, and the number of the job without which it   *)
(* is not tried, or 0.                                                     *)
(***************************************************************************)
JobType ==
  [name : STRING, place : BOOLEAN, pattern : Seq(Bytes \cup {Any}),
   offset : Int, back : Nat, needs : Nat]

ASSUME HooksAssumption ==
  /\ Size \in Nat /\ PatchLength \in Nat \ {0} /\ Startups \in Nat \ {0}
  /\ Jobs \in Seq(JobType) /\ Jobs # <<>>
  /\ Claimed \cap {Jobs[j].name : j \in DOMAIN Jobs} = {}
  /\ \A j \in DOMAIN Jobs :
       /\ Jobs[j].name \notin Bytes
       /\ Len(Jobs[j].pattern) \in 1..Size
       /\ Jobs[j].needs < j
       /\ \A k \in DOMAIN Jobs : Jobs[j].name = Jobs[k].name => j = k

VARIABLES
  pc,        \* "next", "scan", "found", "missed" or "done"
  job,       \* the number of the job at hand
  i,         \* the position the scan is at
  image,     \* the memory from engineBase on
  original,  \* history: the image as it was loaded
  at,        \* the address found for each job, -1 if none
  jmpBack,   \* the address each hook returns to, -1 if none
  HI,        \* HookIntegrity
  shown,     \* Debugger::HI
  handlers,  \* error-handler threads
  round      \* how often placeHooks has been called

vars ==
  <<pc, job, i, image, original, at, jmpBack, HI, shown, handlers, round>>

Numbers == DOMAIN Jobs
Flags == {Jobs[j].name : j \in Numbers} \cup Claimed
Positions == 0..Size - 1
Length(j) == Len(Jobs[j].pattern)
Cells == Bytes \cup {Jobs[j].name : j \in Numbers}

\* The inner loop of findPattern: the mask is '?' or the byte is the same.
Matches(mem, j, p) ==
  \A k \in 1..Length(j) :
    \/ Jobs[j].pattern[k] = Any
    \/ Jobs[j].pattern[k] = mem[p + k - 1]

\* A pattern lies in a function that is long enough for the jump, and a
\* function that is looked for lies in the image (external).
Fits(mem) ==
  \A j \in Numbers : \A p \in 0..Size - Length(j) :
    Matches(mem, j, p)
      => p + Jobs[j].offset \in
           IF Jobs[j].place THEN 0..Size - PatchLength ELSE Positions

Init ==
  /\ pc = "next" /\ job = 1 /\ i = 0
  /\ image \in {mem \in [Positions -> Bytes] : Fits(mem)}
  /\ original = image
  /\ at = [j \in Numbers |-> -1]
  /\ jmpBack = [j \in Numbers |-> -1]
  /\ HI = [f \in Flags |-> FALSE]
  /\ shown = HI
  /\ handlers = 0
  /\ round = 1

-----------------------------------------------------------------------------
(***************************************************************************)
(* HookManager::findPattern.                                               *)
(***************************************************************************)

\* placeHooks comes to the next pattern, or leaves it out.
Begin ==
  /\ pc = "next" /\ job \in Numbers
  /\ IF Jobs[job].needs # 0 /\ ~HI[Jobs[Jobs[job].needs].name]
     THEN job' = job + 1 /\ UNCHANGED <<pc, i>>
     ELSE pc' = "scan" /\ i' = 0 /\ UNCHANGED job
  /\ UNCHANGED <<image, original, at, jmpBack, HI, shown, handlers, round>>

\* Mutant: after a mismatch the bytes already compared are skipped.
ScanSkips ==
  /\ pc = "scan"
  /\ LET same == {k \in 0..Length(job) - 1 : i + k < Size /\
                    image[i + k] = Jobs[job].pattern[k + 1]}
     IN IF i < Size - Length(job)
        THEN IF Matches(image, job, i)
             THEN pc' = "found" /\ UNCHANGED i
             ELSE i' = (IF 0 \in same THEN i + 2 ELSE i + 1) /\ UNCHANGED pc
        ELSE pc' = "missed" /\ UNCHANGED i
  /\ UNCHANGED <<job, image, original, at, jmpBack, HI, shown, handlers, round>>

\* Mutant: every position of the image is tried.
ScanOverruns ==
  /\ pc = "scan"
  /\ IF i < Size
     THEN IF i <= Size - Length(job) /\ Matches(image, job, i)
          THEN pc' = "found" /\ UNCHANGED i
          ELSE i' = i + 1 /\ UNCHANGED pc
     ELSE pc' = "missed" /\ UNCHANGED i
  /\ UNCHANGED <<job, image, original, at, jmpBack, HI, shown, handlers, round>>

\* The outer loop: i < size - patternLength, and the first match is taken.
Scan ==
  /\ pc = "scan"
  /\ IF i < Size - Length(job)
     THEN IF Matches(image, job, i)
          THEN pc' = "found" /\ UNCHANGED i
          ELSE i' = i + 1 /\ UNCHANGED pc
     ELSE pc' = "missed" /\ UNCHANGED i
  /\ UNCHANGED <<job, image, original, at, jmpBack, HI, shown, handlers, round>>

-----------------------------------------------------------------------------
(***************************************************************************)
(* HookManager::placeHook and placeHookTotalOffs.                          *)
(***************************************************************************)
Patch(a) == a..a + PatchLength - 1

\* The jump is written over what is there.
Write(j, a) ==
  image' = [p \in Positions |-> IF p \in Patch(a) THEN Jobs[j].name ELSE image[p]]

\* Mutant: the hook returns to the place of the jump, not behind it.
UseMatchReturnsEarly ==
  /\ pc = "found"
  /\ LET a == i + Jobs[job].offset
     IN /\ at' = [at EXCEPT ![job] = a]
        /\ IF Jobs[job].place
           THEN /\ Write(job, a)
                /\ jmpBack' = [jmpBack EXCEPT ![job] = a + Jobs[job].back]
           ELSE UNCHANGED <<image, jmpBack>>
  /\ HI' = [HI EXCEPT ![Jobs[job].name] = TRUE]
  /\ pc' = "next" /\ job' = job + 1
  /\ UNCHANGED <<i, original, shown, handlers, round>>

UseMatch ==
  /\ pc = "found"
  /\ LET a == i + Jobs[job].offset
     IN /\ at' = [at EXCEPT ![job] = a]
        /\ IF Jobs[job].place
           THEN /\ Write(job, a)
                /\ jmpBack' = [jmpBack EXCEPT
                                 ![job] = a + PatchLength + Jobs[job].back]
           ELSE UNCHANGED <<image, jmpBack>>
  /\ HI' = [HI EXCEPT ![Jobs[job].name] = TRUE]
  /\ pc' = "next" /\ job' = job + 1
  /\ UNCHANGED <<i, original, shown, handlers, round>>

\* found == 0: a function's address becomes null, the rest is left alone.
NoMatch ==
  /\ pc = "missed"
  /\ at' = IF Jobs[job].place THEN at ELSE [at EXCEPT ![job] = -1]
  /\ HI' = [HI EXCEPT ![Jobs[job].name] = FALSE]
  /\ pc' = "next" /\ job' = job + 1
  /\ UNCHANGED <<i, image, original, jmpBack, shown, handlers, round>>

\* The hooks of a profiling build count as placed in every other one.  Then
\* setHookIntegrity, the message that tells the user what failed, and a new
\* error-handler thread.
Report ==
  /\ pc = "next" /\ job \notin Numbers
  /\ HI' = [f \in Flags |-> f \in Claimed \/ HI[f]]
  /\ shown' = HI'
  /\ handlers' = handlers + 1
  /\ pc' = "done"
  /\ UNCHANGED <<job, i, image, original, at, jmpBack, round>>

\* placeHooks is called again, by the other of its two callers.
StartAgain ==
  /\ pc = "done" /\ round < Startups
  /\ round' = round + 1
  /\ HI' = [f \in Flags |-> FALSE]
  /\ pc' = "next" /\ job' = 1
  /\ UNCHANGED <<i, image, original, at, jmpBack, shown, handlers>>

Next == Begin \/ Scan \/ UseMatch \/ NoMatch \/ Report \/ StartAgain

Spec == Init /\ [][Next]_vars

-----------------------------------------------------------------------------
\* Every variable has its type, a scan stays inside the image, and every call
\* of placeHooks leaves one more error-handler thread behind.
TypeOK ==
  /\ pc \in {"next", "scan", "found", "missed", "done"}
  /\ job \in 1..Len(Jobs) + 1
  /\ i \in 0..Size
  /\ pc \in {"scan", "found", "missed"} =>
       /\ job \in Numbers
       /\ i + Length(job) <= Size
  /\ image \in [Positions -> Cells] /\ original \in [Positions -> Bytes]
  /\ at \in [Numbers -> Int] /\ jmpBack \in [Numbers -> Int]
  /\ HI \in [Flags -> BOOLEAN] /\ shown \in [Flags -> BOOLEAN]
  /\ round \in 1..Startups
  /\ handlers = IF pc = "done" THEN round ELSE round - 1

\* What a scan finds is the leftmost match, and what it does not find is not
\* in the image, but for a match at the very last position, which the loop's
\* bound never reaches.
ScanIsExact ==
  /\ pc = "scan"   => \A p \in 0..i - 1 : ~Matches(image, job, p)
  /\ pc = "found"  => /\ Matches(image, job, i)
                      /\ \A p \in 0..i - 1 : ~Matches(image, job, p)
  /\ pc = "missed" => \A p \in 0..Size - Length(job) - 1 :
                        ~Matches(image, job, p)

\* The jumps to job j's hook that are in the image and have not been damaged.
WholeJumps(j) ==
  {a \in Positions :
     /\ Patch(a) \subseteq Positions
     /\ \A p \in Patch(a) : image[p] = Jobs[j].name}
Placed(j) == Jobs[j].place /\ at[j] # -1

\* The places jobs were placed at are apart from each other; each pattern of
\* a jump was in the game's image once.
Apart ==
  \A j, k \in Numbers :
    j # k /\ Placed(j) /\ Placed(k) => Patch(at[j]) \cap Patch(at[k]) = {}
OneCopy ==
  \A j \in Numbers : \A p, q \in 0..Size - Length(j) :
    Jobs[j].place /\ Matches(original, j, p) /\ Matches(original, j, q) => p = q

JumpsReturn ==
  /\ \A j \in Numbers : Placed(j) =>
       /\ WholeJumps(j) = {at[j]}
       /\ jmpBack[j] = at[j] + PatchLength + Jobs[j].back
  /\ \A p \in Positions :
       \/ image[p] = original[p]
       \/ \E j \in Numbers : Placed(j) /\ p \in Patch(at[j])

\* There is a jump to the hook, or an address for the function, of that name.
IsThere(f) == \E j \in Numbers : Jobs[j].name = f /\ at[j] # -1

\* A hook that is called returns behind the jump that called it: as long as
\* jumps do not overlap, each is whole, its hook returns behind it, and the
\* rest of the game's code is as it was loaded.  When placeHooks runs twice
\* that needs patterns that occur once: a second copy would get the jump too,
\* and the hook's one return address.  And the report can be trusted as far as
\* something was looked for: what is shown as working is there, and after the
\* first call what is there is shown as working.  (A second call does not find
\* a pattern that its own jump has overwritten, and shows a working hook as
\* failed.)
HooksAreSound ==
  pc = "done" =>
    /\ Apart /\ (round = 1 \/ OneCopy) => JumpsReturn
    /\ \A f \in Flags : /\ shown[f] => IsThere(f) \/ f \in Claimed
                        /\ round = 1 /\ IsThere(f) => shown[f]

\* What is shown as working is there.  Not so: the flags of the hooks that
\* only a profiling build would place are set without a look
\* (EngineHook.cpp:588-595) and sent to the client with the others.
ReportIsTrue == pc = "done" => \A f \in Flags : shown[f] => IsThere(f)
=============================================================================
