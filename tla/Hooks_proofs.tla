---------------------------- MODULE Hooks_proofs ----------------------------
(***************************************************************************)
(* Theorems about Hooks, for any image, any list of patterns and any       *)
(* number of calls of placeHooks.                                          *)
(***************************************************************************)
EXTENDS Hooks, TLAPS

\* What the list of patterns is made of.
LEMMA JobFacts ==
  ASSUME NEW j \in Numbers
  PROVE  /\ j \in Nat \ {0} /\ j <= Len(Jobs)
         /\ Jobs[j].place \in BOOLEAN
         /\ Jobs[j].offset \in Int /\ Jobs[j].back \in Nat
         /\ Jobs[j].needs \in Nat
         /\ Length(j) \in 1..Size
         /\ Jobs[j].name \notin Bytes
<1>1. Jobs[j] \in JobType
  BY HooksAssumption DEF Numbers
<1>2. Len(Jobs) \in Nat /\ DOMAIN Jobs = 1..Len(Jobs)
  BY HooksAssumption
<1>. QED  BY <1>1, <1>2, HooksAssumption DEF Numbers, JobType, Length

\* The numbers of the patterns are 1, 2, ... up to their count.
LEMMA NumbersAre == Numbers = 1..Len(Jobs) /\ Len(Jobs) \in Nat \ {0}
BY HooksAssumption DEF Numbers

\* The initial state is typed.
LEMMA TypeInit == Init => TypeOK
<1>. SUFFICES ASSUME Init PROVE TypeOK
  OBVIOUS
<1>. QED  BY NumbersAre, HooksAssumption DEF Init, TypeOK, Cells

\* Every step keeps the types, and a scan stays inside the image.
LEMMA TypeStep == TypeOK /\ [Next]_vars => TypeOK'
<1>. SUFFICES ASSUME TypeOK, [Next]_vars PROVE TypeOK'
  OBVIOUS
<1>. USE NumbersAre, HooksAssumption
<1>1. CASE Begin
  <2>1. Length(job) \in 1..Size
    BY <1>1, JobFacts DEF Begin
  <2>. QED  BY <1>1, <2>1 DEF Begin, TypeOK, Length
<1>2. CASE Scan
  <2>1. job \in Numbers /\ Length(job) \in 1..Size /\ i \in 0..Size
    BY <1>2, JobFacts DEF Scan, TypeOK
  <2>2. Length(job)' = Length(job)
    BY <1>2 DEF Scan, Length
  <2>3. /\ pc' \in {"scan", "found", "missed"}
        /\ i' \in 0..Size /\ i' + Length(job) <= Size
    <3> HIDE DEF Length
    <3>. QED  BY <1>2, <2>1 DEF Scan, TypeOK
  <2>. QED  BY <1>2, <2>1, <2>2, <2>3 DEF Scan, TypeOK
<1>3. CASE UseMatch
  <2>1. job \in Numbers /\ Jobs[job].offset \in Int /\ Jobs[job].back \in Nat
    BY <1>3, JobFacts DEF UseMatch, TypeOK
  <2>2. image' \in [Positions -> Cells]
    <3>1. image \in [Positions -> Cells] /\ Jobs[job].name \in Cells
      BY <2>1 DEF TypeOK, Cells
    <3>2. \A a : Write(job, a) => image' \in [Positions -> Cells]
      BY <3>1 DEF Write
    <3>. QED  BY <1>3, <3>1, <3>2 DEF UseMatch
  <2>3. at' \in [Numbers -> Int] /\ jmpBack' \in [Numbers -> Int]
    <3>1. /\ i + Jobs[job].offset \in Int
          /\ i + Jobs[job].offset + PatchLength + Jobs[job].back \in Int
      BY <2>1 DEF TypeOK
    <3>2. at \in [Numbers -> Int] /\ jmpBack \in [Numbers -> Int]
      BY DEF TypeOK
    <3>. QED  BY <1>3, <3>1, <3>2 DEF UseMatch
  <2>4. job' \in 1..Len(Jobs) + 1
    BY <1>3, <2>1 DEF UseMatch
  <2>. QED  BY <1>3, <2>1, <2>2, <2>3, <2>4 DEF UseMatch, TypeOK
<1>4. CASE NoMatch
  <2>1. at' \in [Numbers -> Int] /\ HI' \in [Flags -> BOOLEAN]
    <3>1. at \in [Numbers -> Int] /\ HI \in [Flags -> BOOLEAN]
      BY DEF TypeOK
    <3>2. at' = at \/ at' = [at EXCEPT ![job] = -1]
      BY <1>4 DEF NoMatch
    <3>3. at' \in [Numbers -> Int]
      BY <3>1, <3>2
    <3>. QED  BY <1>4, <3>1, <3>3 DEF NoMatch
  <2>2. job' \in 1..Len(Jobs) + 1
    BY <1>4 DEF NoMatch, TypeOK
  <2>. QED  BY <1>4, <2>1, <2>2 DEF NoMatch, TypeOK
<1>5. CASE Report
  BY <1>5 DEF Report, TypeOK
<1>6. CASE StartAgain
  BY <1>6 DEF StartAgain, TypeOK
<1>7. CASE UNCHANGED vars
  BY <1>7 DEF vars, TypeOK, Length
<1>. QED  BY <1>1, <1>2, <1>3, <1>4, <1>5, <1>6, <1>7 DEF Next

\* A scan never reads outside of the image, and all else keeps its type.
THEOREM TypeCorrect == Spec => []TypeOK
<1>. QED  BY TypeInit, TypeStep, PTL DEF Spec

\* Every step keeps what a scan has established so far.
LEMMA ScanStep == TypeOK /\ ScanIsExact /\ [Next]_vars => ScanIsExact'
<1>. SUFFICES ASSUME TypeOK, ScanIsExact, [Next]_vars PROVE ScanIsExact'
  OBVIOUS
<1>1. CASE Begin
  BY <1>1 DEF Begin, ScanIsExact
<1>2. CASE Scan
  <2>1. /\ job \in Numbers /\ i \in 0..Size
        /\ Length(job) \in 1..Size /\ Size \in Nat
    BY <1>2, JobFacts, HooksAssumption DEF Scan, TypeOK
  <2>2. \A p \in 0..i - 1 : ~Matches(image, job, p)
    BY <1>2 DEF Scan, ScanIsExact
  <2>3. /\ \A p : Matches(image, job, p)' <=> Matches(image, job, p)
        /\ Length(job)' = Length(job)
    BY <1>2 DEF Scan, Matches, Length
  <2>4. CASE i < Size - Length(job) /\ Matches(image, job, i)
    BY <1>2, <2>1, <2>2, <2>3, <2>4 DEF Scan, ScanIsExact
  <2>5. CASE i < Size - Length(job) /\ ~Matches(image, job, i)
    <3>1. pc' = "scan" /\ i' = i + 1
      BY <1>2, <2>5 DEF Scan
    <3>2. \A p \in 0..i' - 1 : ~Matches(image, job, p)
      BY <2>1, <2>2, <2>5, <3>1
    <3>. QED  BY <2>3, <3>1, <3>2 DEF ScanIsExact
  <2>6. CASE ~(i < Size - Length(job))
    <3>1. \A p \in 0..Size - Length(job) - 1 : ~Matches(image, job, p)
      BY <2>1, <2>2, <2>6
    <3>. QED  BY <1>2, <2>3, <2>6, <3>1 DEF Scan, ScanIsExact
  <2>. QED  BY <2>4, <2>5, <2>6
<1>3. CASE UseMatch \/ NoMatch \/ Report \/ StartAgain
  BY <1>3 DEF UseMatch, NoMatch, Report, StartAgain, ScanIsExact
<1>4. CASE UNCHANGED vars
  BY <1>4 DEF vars, ScanIsExact, Matches, Length
<1>. QED  BY <1>1, <1>2, <1>3, <1>4 DEF Next

\* The scan finds the leftmost match, and what it misses is not in the image
\* but at the very end.
THEOREM ScansAreExact == Spec => []ScanIsExact
<1>1. Init => ScanIsExact
  BY DEF Init, ScanIsExact
<1>. QED  BY <1>1, ScanStep, TypeCorrect, PTL DEF Spec

-----------------------------------------------------------------------------
(***************************************************************************)
(* The jumps.  A match in the patched image is a match in the game's, so   *)
(* that with patterns that occur once a second call finds what the first   *)
(* has found, or nothing; and what is placed apart stays whole.            *)
(***************************************************************************)
Good == round = 1 \/ OneCopy

Clean ==
  /\ Fits(original)
  /\ \A p \in Positions : image[p] = original[p] \/ image[p] \notin Bytes

Foreign ==
  \A p \in Positions :
    \/ image[p] = original[p]
    \/ \E k \in Numbers : /\ Placed(k) /\ p \in Patch(at[k])
                          /\ image[p] = Jobs[k].name

FoundInOriginal(j, a) ==
  \E p \in 0..Size - Length(j) :
    Matches(original, j, p) /\ a = p + Jobs[j].offset

AtMatches ==
  \A j \in Numbers : Placed(j) =>
    /\ at[j] \in 0..Size - PatchLength
    /\ FoundInOriginal(j, at[j])
    /\ jmpBack[j] = at[j] + PatchLength + Jobs[j].back

Untried == round = 1 => \A k \in Numbers : k >= job => at[k] = -1

AreWhole == \A j \in Numbers : Placed(j) => WholeJumps(j) = {at[j]}

PlaceInv ==
  /\ Clean
  /\ AtMatches
  /\ Untried
  /\ Good => Foreign
  /\ Good /\ Apart => AreWhole

\* A match in the patched image is one in the game's: no pattern matches the
\* bytes of a jump but with a wildcard.
LEMMA MatchInOriginal ==
  ASSUME TypeOK, Clean, NEW j \in Numbers, NEW p \in 0..Size - Length(j),
         Matches(image, j, p)
  PROVE  Matches(original, j, p)
<1>0. /\ Jobs[j].pattern \in Seq(Bytes \cup {Any})
      /\ Length(j) \in 1..Size /\ Size \in Nat
  <2>1. Jobs[j] \in JobType
    BY HooksAssumption DEF Numbers
  <2>. QED  BY <2>1, JobFacts, HooksAssumption DEF JobType
<1>. SUFFICES ASSUME NEW k \in 1..Length(j), Jobs[j].pattern[k] # Any
              PROVE  Jobs[j].pattern[k] = original[p + k - 1]
  BY DEF Matches
<1>1. p + k - 1 \in Positions
  BY <1>0 DEF Positions
<1>2. Jobs[j].pattern[k] \in Bytes
  BY <1>0 DEF Length
<1>3. Jobs[j].pattern[k] = image[p + k - 1]
  BY DEF Matches
<1>. QED  BY <1>1, <1>2, <1>3 DEF Clean

\* A jump that lies within another one is that one.
LEMMA PatchInPatch ==
  ASSUME NEW a \in Int, NEW b \in Int, Patch(b) \subseteq Patch(a)
  PROVE  a = b
<1>1. PatchLength \in Nat \ {0}
  BY HooksAssumption
<1>2. b \in Patch(b) /\ b + PatchLength - 1 \in Patch(b)
  BY <1>1 DEF Patch
<1>. QED  BY <1>1, <1>2 DEF Patch

\* Where a match is used lies in the image.
LEMMA UsedPlace ==
  ASSUME TypeOK, Clean, ScanIsExact, pc = "found"
  PROVE  /\ job \in Numbers
         /\ FoundInOriginal(job, i + Jobs[job].offset)
         /\ i + Jobs[job].offset \in
              IF Jobs[job].place THEN 0..Size - PatchLength ELSE Positions
         /\ i + Jobs[job].offset >= 0
<1>1. /\ job \in Numbers /\ Length(job) \in 1..Size /\ Size \in Nat
      /\ i \in 0..Size - Length(job)
      /\ Jobs[job].offset \in Int /\ PatchLength \in Nat
  BY JobFacts, HooksAssumption DEF TypeOK
<1>2. Matches(original, job, i)
  BY <1>1, MatchInOriginal DEF ScanIsExact
<1>3. i + Jobs[job].offset \in
        IF Jobs[job].place THEN 0..Size - PatchLength ELSE Positions
  BY <1>1, <1>2 DEF Clean, Fits
<1>. QED  BY <1>1, <1>2, <1>3 DEF FoundInOriginal, Positions

\* The game's image is clean, and nothing is placed in it.
LEMMA PlaceInit == Init => PlaceInv
<1>. SUFFICES ASSUME Init PROVE PlaceInv
  OBVIOUS
<1>1. \A j \in Numbers : ~Placed(j)
  BY DEF Init, Placed
<1>. QED
  BY <1>1 DEF Init, PlaceInv, Clean, AtMatches, Untried, Foreign, AreWhole

\* What changes no jump and no address keeps the invariant.
LEMMA PlaceKept ==
  ASSUME TypeOK, PlaceInv, UNCHANGED <<image, original, jmpBack>>,
         \A j \in Numbers : Jobs[j].place => at'[j] = at[j],
         Good' => Good, Untried'
  PROVE  PlaceInv'
<1>1. \A j \in Numbers : /\ Placed(j)' <=> Placed(j)
                         /\ Placed(j) => at'[j] = at[j]
                         /\ WholeJumps(j)' = WholeJumps(j)
  BY HooksAssumption DEF Placed, WholeJumps
<1>2. Clean' = Clean /\ \A j, a : FoundInOriginal(j, a)' = FoundInOriginal(j, a)
  BY DEF Clean, Fits, FoundInOriginal, Matches, Length
<1>3. AtMatches'
  BY <1>1, <1>2 DEF PlaceInv, AtMatches
<1>4. Foreign => Foreign'
  BY <1>1 DEF Foreign, Patch
<1>5. Apart' => Apart
  BY <1>1 DEF Apart, Patch
<1>6. AreWhole => AreWhole'
  BY <1>1 DEF AreWhole
<1>. QED  BY <1>2, <1>3, <1>4, <1>5, <1>6 DEF PlaceInv

\* Placing a jump that was not placed before, or again where it is.
LEMMA PlaceJump ==
  ASSUME TypeOK, ScanIsExact, PlaceInv, UseMatch,
         NEW m \in Numbers, m = job, Jobs[m].place
  PROVE  PlaceInv'
<1>. DEFINE a == i + Jobs[m].offset
<1>1. /\ a \in 0..Size - PatchLength /\ a # -1
      /\ FoundInOriginal(m, a)
      /\ Size \in Nat /\ PatchLength \in Nat \ {0} /\ m \in Nat
  BY UsedPlace, JobFacts, HooksAssumption DEF UseMatch, PlaceInv
<1>2. /\ Write(m, a) /\ at' = [at EXCEPT ![m] = a]
      /\ jmpBack' = [jmpBack EXCEPT ![m] = a + PatchLength + Jobs[m].back]
      /\ UNCHANGED <<original, round>> /\ job' = m + 1
  BY <1>1 DEF UseMatch
<1>3. /\ Placed(m)' /\ at'[m] = a
      /\ \A k \in Numbers : k # m => /\ Placed(k)' <=> Placed(k)
                                       /\ at'[k] = at[k]
                                       /\ jmpBack'[k] = jmpBack[k]
      /\ jmpBack'[m] = a + PatchLength + Jobs[m].back
  <2>1. at \in [Numbers -> Int] /\ jmpBack \in [Numbers -> Int]
    BY DEF TypeOK
  <2>2. /\ at'[m] = a /\ jmpBack'[m] = a + PatchLength + Jobs[m].back
        /\ \A k \in Numbers : k # m => /\ at'[k] = at[k]
                                         /\ jmpBack'[k] = jmpBack[k]
    BY <1>1, <1>2, <2>1
  <2>. QED  BY <1>1, <2>2 DEF Placed
<1>4. \A p \in Positions :
        image'[p] = IF p \in Patch(a) THEN Jobs[m].name ELSE image[p]
  BY <1>2 DEF Write
<1>5. \A k \in Numbers : Jobs[k].name \notin Bytes
  BY JobFacts
<1>6. \A j, k \in Numbers : Jobs[j].name = Jobs[k].name => j = k
  BY HooksAssumption DEF Numbers
<1>7. original \in [Positions -> Bytes]
  BY DEF TypeOK
<1>8. OneCopy' = OneCopy /\ \A j, b : FoundInOriginal(j, b)' = FoundInOriginal(j, b)
  BY <1>2 DEF OneCopy, FoundInOriginal, Matches, Length
<1>9. Clean'
  BY <1>1, <1>2, <1>4, <1>5 DEF PlaceInv, Clean, Fits, Matches, Length
<1>10. AtMatches'
  BY <1>1, <1>3, <1>8 DEF PlaceInv, AtMatches
<1>11. Untried'
  BY <1>1, <1>2, <1>3, NumbersAre DEF PlaceInv, Untried
<1>12. Good' => at[m] \in {-1, a}
  <2>1. CASE at[m] = -1
    BY <2>1
  <2>2. CASE at[m] # -1
    <3>1. round # 1 /\ Placed(m)
      BY <1>1, <2>2 DEF PlaceInv, Untried, Placed
    <3>2. FoundInOriginal(m, at[m])
      BY <1>1, <3>1 DEF PlaceInv, AtMatches
    <3>3. OneCopy => at[m] = a
      BY <1>1, <3>2 DEF OneCopy, FoundInOriginal
    <3>. QED  BY <1>2, <1>8, <3>1, <3>3 DEF Good
  <2>. QED  BY <2>1, <2>2
<1>13. Good' => Good
  BY <1>2, <1>8 DEF Good
<1>14. ASSUME Good', NEW k \in Numbers, Placed(k)
       PROVE  Placed(k)' /\ at'[k] = at[k]
  <2>1. CASE k = m
    <3>1. at[m] # -1
      BY <1>14, <2>1 DEF Placed
    <3>2. at[m] = a
      BY <1>12, <1>14, <3>1
    <3>. QED  BY <1>3, <2>1, <3>2
  <2>2. CASE k # m
    <3>1. at \in [Numbers -> Int] /\ at' = [at EXCEPT ![m] = a]
      BY <1>2 DEF Write, TypeOK
    <3>2. at'[k] = at[k]
      BY <2>2, <3>1
    <3>. QED  BY <1>14, <3>2 DEF Placed
  <2>. QED  BY <2>1, <2>2
<1>15. Good' => Foreign'
  <2>. SUFFICES ASSUME Good', NEW p \in Positions
                PROVE  \/ image'[p] = original[p]
                       \/ \E k \in Numbers : /\ Placed(k)' /\ p \in Patch(at'[k])
                                             /\ image'[p] = Jobs[k].name
    BY <1>2 DEF Foreign, Patch
  <2>1. CASE p \in Patch(a)
    BY <1>1, <1>3, <1>4, <2>1
  <2>2. CASE p \notin Patch(a)
    <3>1. image'[p] = image[p]
      BY <1>4, <2>2
    <3>2. Foreign
      BY <1>13 DEF PlaceInv
    <3>3. CASE image[p] = original[p]
      BY <3>1, <3>3
    <3>4. ASSUME NEW k \in Numbers, Placed(k), p \in Patch(at[k]),
                 image[p] = Jobs[k].name
          PROVE  /\ Placed(k)' /\ p \in Patch(at'[k])
                 /\ image'[p] = Jobs[k].name
      BY <1>14, <3>1, <3>4
    <3>. QED  BY <3>2, <3>3, <3>4 DEF Foreign
  <2>. QED  BY <2>1, <2>2
<1>16. Good' /\ Apart' => AreWhole'
  <2>. SUFFICES ASSUME Good', Apart', NEW j \in Numbers, Placed(j)'
                PROVE  WholeJumps(j)' = {at'[j]}
    BY DEF AreWhole
  <2>1. Good /\ Foreign
    BY <1>13 DEF PlaceInv
  <2>2. \A k, l \in Numbers :
          k # l /\ Placed(k)' /\ Placed(l)' => Patch(at'[k]) \cap Patch(at'[l]) = {}
    BY DEF Apart, Patch
  <2>3. Apart
    <3>. SUFFICES ASSUME NEW k \in Numbers, NEW l \in Numbers,
                         k # l, Placed(k), Placed(l)
                  PROVE  Patch(at[k]) \cap Patch(at[l]) = {}
      BY DEF Apart
    <3>1. /\ Placed(k)' /\ at'[k] = at[k]
          /\ Placed(l)' /\ at'[l] = at[l]
      BY <1>14
    <3>. QED  BY <2>2, <3>1
  <2>4. AreWhole
    BY <2>1, <2>3 DEF PlaceInv
  <2>5. WholeJumps(j)' = {b \in Positions :
                            /\ Patch(b) \subseteq Positions
                            /\ \A p \in Patch(b) : image'[p] = Jobs[j].name}
    BY DEF WholeJumps, Patch, Positions
  <2>6. at'[j] \in Int /\ at'[j] \in Positions /\ Patch(at'[j]) \subseteq Positions
    <3>1. at'[j] \in 0..Size - PatchLength
      BY <1>10 DEF AtMatches
    <3>. QED  BY <1>1, <3>1 DEF Positions, Patch
  <2>7. \A p \in Positions :
          image'[p] = Jobs[j].name =>
            IF j = m THEN p \in Patch(a) ELSE image[p] = Jobs[j].name
    <3>. SUFFICES ASSUME NEW p \in Positions, image'[p] = Jobs[j].name
                  PROVE  IF j = m THEN p \in Patch(a)
                                    ELSE image[p] = Jobs[j].name
      OBVIOUS
    <3>1. CASE j # m
      BY <1>1, <1>4, <1>6, <3>1
    <3>2. CASE j = m /\ p \notin Patch(a)
      <4>1. image[p] = Jobs[m].name
        BY <1>4, <3>2
      <4>2. image[p] # original[p]
        BY <1>1, <1>5, <1>7, <4>1
      <4>3. PICK k \in Numbers : /\ Placed(k) /\ p \in Patch(at[k])
                                 /\ image[p] = Jobs[k].name
        BY <2>1, <4>2 DEF Foreign
      <4>4. k = m
        BY <1>1, <1>6, <4>1, <4>3
      <4>5. at[m] = a
        BY <1>12, <4>3, <4>4 DEF Placed
      <4>. QED  BY <3>2, <4>3, <4>4, <4>5
    <3>. QED  BY <3>1, <3>2
  <2>8. ASSUME NEW b \in Positions, Patch(b) \subseteq Positions,
               \A p \in Patch(b) : image'[p] = Jobs[j].name
        PROVE  b = at'[j]
    <3>1. CASE j = m
      <4>1. Patch(b) \subseteq Patch(a)
        BY <2>7, <2>8, <3>1
      <4>. QED  BY <1>1, <1>3, <3>1, <4>1, PatchInPatch DEF Positions
    <3>2. CASE j # m
      <4>1. \A p \in Patch(b) : image[p] = Jobs[j].name
        BY <2>7, <2>8, <3>2
      <4>2. b \in WholeJumps(j)
        BY <2>8, <4>1 DEF WholeJumps
      <4>. QED  BY <1>3, <2>4, <3>2, <4>2 DEF AreWhole
    <3>. QED  BY <3>1, <3>2
  <2>9. \A p \in Patch(at'[j]) : image'[p] = Jobs[j].name
    <3>1. CASE j = m
      BY <1>3, <1>4, <2>6, <3>1
    <3>2. CASE j # m
      <4>1. Patch(at'[j]) \cap Patch(a) = {}
        BY <1>1, <1>3, <2>2, <3>2
      <4>2. at'[j] \in WholeJumps(j)
        BY <1>3, <2>4, <3>2 DEF AreWhole
      <4>3. \A p \in Patch(at'[j]) : image[p] = Jobs[j].name
        BY <4>2 DEF WholeJumps
      <4>. QED  BY <1>4, <2>6, <4>1, <4>3
    <3>. QED  BY <3>1, <3>2
  <2>. QED  BY <2>5, <2>6, <2>8, <2>9
<1>. QED  BY <1>9, <1>10, <1>11, <1>15, <1>16 DEF PlaceInv

\* Every step keeps the invariant.
LEMMA PlaceStep == TypeOK /\ ScanIsExact /\ PlaceInv /\ [Next]_vars => PlaceInv'
<1>. SUFFICES ASSUME TypeOK, ScanIsExact, PlaceInv, [Next]_vars PROVE PlaceInv'
  OBVIOUS
<1>0. OneCopy' = OneCopy \/ original' # original
  BY DEF OneCopy, Matches, Length
<1>1. ASSUME Begin \/ Scan \/ Report \/ UNCHANGED vars
      PROVE  PlaceInv'
  <2>1. UNCHANGED <<image, original, at, jmpBack, round>>
    BY <1>1 DEF Begin, Scan, Report, vars
  <2>2. job' \in {job, job + 1}
    BY <1>1 DEF Begin, Scan, Report, vars
  <2>3. Untried'
    BY <2>1, <2>2, NumbersAre DEF TypeOK, PlaceInv, Untried
  <2>. QED  BY <1>0, <2>1, <2>3, PlaceKept DEF Good
<1>2. CASE UseMatch
  <2>1. job \in Numbers
    BY <1>2 DEF UseMatch, TypeOK
  <2>2. CASE Jobs[job].place
    BY <1>2, <2>1, <2>2, PlaceJump
  <2>3. CASE ~Jobs[job].place
    <3>1. /\ UNCHANGED <<image, original, jmpBack, round>> /\ job' = job + 1
          /\ \A k \in Numbers : k # job => at'[k] = at[k]
      BY <1>2, <2>1, <2>3 DEF UseMatch, TypeOK
    <3>2. Untried'
      BY <2>1, <3>1, NumbersAre DEF PlaceInv, Untried
    <3>. QED  BY <1>0, <2>1, <2>3, <3>1, <3>2, PlaceKept DEF Good
  <2>. QED  BY <2>2, <2>3
<1>3. CASE NoMatch
  <2>1. job \in Numbers
    BY <1>3 DEF NoMatch, TypeOK
  <2>2. /\ UNCHANGED <<image, original, jmpBack, round>> /\ job' = job + 1
        /\ \A k \in Numbers : k # job \/ Jobs[k].place => at'[k] = at[k]
    BY <1>3, <2>1 DEF NoMatch, TypeOK
  <2>3. Untried'
    BY <2>1, <2>2, NumbersAre DEF PlaceInv, Untried
  <2>. QED  BY <1>0, <2>2, <2>3, PlaceKept DEF Good
<1>4. CASE StartAgain
  <2>1. /\ UNCHANGED <<image, original, at, jmpBack>>
        /\ round' = round + 1 /\ round \in Nat \ {0}
    BY <1>4, HooksAssumption DEF StartAgain, TypeOK
  <2>2. Untried'
    BY <2>1 DEF Untried
  <2>. QED  BY <1>0, <2>1, <2>2, PlaceKept DEF Good
<1>. QED  BY <1>1, <1>2, <1>3, <1>4 DEF Next

-----------------------------------------------------------------------------
(***************************************************************************)
(* The report.                                                             *)
(***************************************************************************)
ReportInv ==
  /\ \A j \in Numbers : /\ HI[Jobs[j].name] => at[j] # -1
                        /\ round = 1 /\ at[j] # -1 => HI[Jobs[j].name]
  /\ pc = "done" => shown = HI

\* A flag is one job's, or nobody's.
LEMMA NamesAreApart ==
  /\ \A j, k \in Numbers : Jobs[j].name = Jobs[k].name => j = k
  /\ \A j \in Numbers : Jobs[j].name \in Flags /\ Jobs[j].name \notin Claimed
BY HooksAssumption DEF Numbers, Flags

\* What is known to have worked is what is there.
LEMMA ReportStep ==
  TypeOK /\ ScanIsExact /\ PlaceInv /\ ReportInv /\ [Next]_vars => ReportInv'
<1>. SUFFICES ASSUME TypeOK, ScanIsExact, PlaceInv, ReportInv, [Next]_vars
              PROVE  ReportInv'
  OBVIOUS
<1>0. at \in [Numbers -> Int] /\ HI \in [Flags -> BOOLEAN]
  BY DEF TypeOK
<1>1. CASE Begin \/ Scan \/ UNCHANGED vars
  BY <1>1 DEF Begin, Scan, vars, ReportInv
<1>2. CASE UseMatch
  <2>1. job \in Numbers /\ i + Jobs[job].offset # -1
    BY <1>2, UsedPlace DEF UseMatch, PlaceInv
  <2>2. /\ at' = [at EXCEPT ![job] = i + Jobs[job].offset]
        /\ HI' = [HI EXCEPT ![Jobs[job].name] = TRUE]
        /\ pc' = "next" /\ round' = round
    BY <1>2 DEF UseMatch
  <2>3. /\ at'[job] # -1 /\ HI'[Jobs[job].name]
        /\ \A k \in Numbers : k # job => /\ at'[k] = at[k]
                                         /\ HI'[Jobs[k].name] = HI[Jobs[k].name]
    BY <1>0, <2>1, <2>2, NamesAreApart
  <2>. QED  BY <2>2, <2>3 DEF ReportInv
<1>3. CASE NoMatch
  <2>1. job \in Numbers /\ (round = 1 => at[job] = -1)
    BY <1>3, NumbersAre DEF NoMatch, TypeOK, PlaceInv, Untried
  <2>2. /\ at' = at \/ at' = [at EXCEPT ![job] = -1]
        /\ HI' = [HI EXCEPT ![Jobs[job].name] = FALSE]
        /\ pc' = "next" /\ round' = round
    BY <1>3 DEF NoMatch
  <2>3. /\ at'[job] \in {at[job], -1} /\ ~HI'[Jobs[job].name]
        /\ \A k \in Numbers : k # job => /\ at'[k] = at[k]
                                         /\ HI'[Jobs[k].name] = HI[Jobs[k].name]
    BY <1>0, <2>1, <2>2, NamesAreApart
  <2>. QED  BY <2>1, <2>2, <2>3 DEF ReportInv
<1>4. CASE Report
  <2>1. /\ \A j \in Numbers : HI'[Jobs[j].name] = HI[Jobs[j].name]
        /\ shown' = HI' /\ UNCHANGED <<at, round>>
    BY <1>0, <1>4, NamesAreApart DEF Report
  <2>. QED  BY <2>1 DEF ReportInv
<1>5. CASE StartAgain
  <2>1. /\ round' # 1 /\ pc' = "next"
        /\ \A j \in Numbers : ~HI'[Jobs[j].name]
    BY <1>5, HooksAssumption, NamesAreApart DEF StartAgain, TypeOK
  <2>. QED  BY <2>1 DEF ReportInv
<1>. QED  BY <1>1, <1>2, <1>3, <1>4, <1>5 DEF Next

\* Hooks that do not overlap work, the rest of the game's code is as it was
\* loaded, and of what was looked for, what is reported as working is there.
THEOREM HooksWork == Spec => []HooksAreSound
<1>1. Init => ScanIsExact /\ ReportInv
  BY NamesAreApart DEF Init, ScanIsExact, ReportInv
<1>2. TypeOK /\ PlaceInv /\ ReportInv => HooksAreSound
  <2>. SUFFICES ASSUME TypeOK, PlaceInv, ReportInv, pc = "done"
                PROVE  /\ Apart /\ Good => JumpsReturn
                       /\ \A f \in Flags :
                            /\ shown[f] => IsThere(f) \/ f \in Claimed
                            /\ round = 1 /\ IsThere(f) => shown[f]
    BY DEF HooksAreSound, Good
  <2>1. Apart /\ Good => JumpsReturn
    BY DEF PlaceInv, AtMatches, AreWhole, Foreign, JumpsReturn
  <2>2. ASSUME NEW f \in Flags
        PROVE  /\ shown[f] => IsThere(f) \/ f \in Claimed
               /\ round = 1 /\ IsThere(f) => shown[f]
    <3>1. f \in Claimed \/ \E j \in Numbers : f = Jobs[j].name
      BY <2>2 DEF Flags
    <3>2. \A j \in Numbers : f = Jobs[j].name => (IsThere(f) <=> at[j] # -1)
      BY NamesAreApart DEF IsThere
    <3>3. f \in Claimed => ~IsThere(f)
      BY NamesAreApart DEF IsThere
    <3>. QED  BY <3>1, <3>2, <3>3 DEF ReportInv
  <2>. QED  BY <2>1, <2>2
<1>. QED
  BY <1>1, <1>2, PlaceInit, PlaceStep, ReportStep, TypeCorrect, ScansAreExact,
     PTL DEF Spec
=============================================================================
