-------------------------- MODULE ScriptText_proofs --------------------------
(***************************************************************************)
(* Theorems about ScriptText, for files of any length.  The module reads a *)
(* text that recursive functions have put together, so most of the work is *)
(* induction: first over natural numbers, then over concatenations.        *)
(***************************************************************************)
EXTENDS ScriptText, Integers, FiniteSetTheorems, TLAPS

-----------------------------------------------------------------------------
(***************************************************************************)
(* Induction and recursion, with sets in the place of predicates.          *)
(***************************************************************************)

\* The order of the natural numbers, as a relation.
LEMMA LessIsWellFounded ==
  IsWellFoundedOn({ss \in Nat \X Nat : ss[1] < ss[2]}, Nat)
BY NatLessThanWellFounded DEF OpToRel

\* A set of natural numbers that is not empty has a smallest element.
LEMMA Smallest ==
  ASSUME NEW T, T \subseteq Nat, T # {}
  PROVE  \E x \in T : \A y \in T : x <= y
<1> DEFINE R == {ss \in Nat \X Nat : ss[1] < ss[2]}
<1>1. IsWellFoundedOn(R, Nat)
  BY LessIsWellFounded
<1> HIDE DEF R
<1>2. PICK x \in T : \A y \in T : <<y, x>> \notin R
  BY <1>1, WFMin
<1>3. \A y \in T : ~(y < x)
  BY <1>2 DEF R
<1>. QED  BY <1>3

\* Induction up to a bound.
LEMMA Induction ==
  ASSUME NEW n \in Nat, NEW S, 0 \in S,
         \A i \in 0..n - 1 : i \in S => i + 1 \in S
  PROVE  0..n \subseteq S
<1> DEFINE T == (0..n) \ S
<1>1. SUFFICES ASSUME T # {} PROVE FALSE
  OBVIOUS
<1>2. PICK x \in T : \A y \in T : x <= y
  <2>1. T \subseteq Nat
    OBVIOUS
  <2> HIDE DEF T
  <2>. QED  BY <1>1, <2>1, Smallest
<1>3. x - 1 \in 0..n - 1 /\ ~(x <= x - 1)
  BY <1>2
<1>4. x - 1 \in S
  BY <1>2, <1>3
<1>5. (x - 1) + 1 \in S
  BY <1>3, <1>4
<1>6. x \in S
  BY <1>5, <1>2
<1>. QED  BY <1>6

\* f has the values that start at v0 and go on with step.
Computes(f, v0, step, n) ==
  f[0] = v0 /\ \A i \in 1..n : f[i] = step[<<i, f[i - 1]>>]

\* Values can be computed one after the other.
LEMMA Recursion ==
  ASSUME NEW V, NEW v0 \in V, NEW step \in [Nat \X V -> V], NEW n \in Nat
  PROVE  \E f \in [0..n -> V] : Computes(f, v0, step, n)
<1> USE DEF Computes
<1> DEFINE S == {m \in Nat : \E f \in [0..m -> V] : Computes(f, v0, step, m)}
<1>1. 0 \in S
  <2>1. [i \in 0..0 |-> v0] \in [0..0 -> V] /\ Computes([i \in 0..0 |-> v0], v0, step, 0)
    OBVIOUS
  <2>. QED  BY <2>1
<1>2. ASSUME NEW m \in 0..n - 1, m \in S PROVE m + 1 \in S
  <2>1. PICK f \in [0..m -> V] : Computes(f, v0, step, m)
    BY <1>2
  <2> DEFINE g == [i \in 0..m + 1 |-> IF i <= m THEN f[i]
                                      ELSE step[<<m + 1, f[m]>>]]
  <2>2. g \in [0..m + 1 -> V]
    <3>1. f[m] \in V
      OBVIOUS
    <3>2. step[<<m + 1, f[m]>>] \in V
      BY <3>1
    <3>. QED  BY <3>2
  <2>3. Computes(g, v0, step, m + 1)
    <3>1. g[0] = v0
      BY <2>1
    <3>2. ASSUME NEW i \in 1..m + 1 PROVE g[i] = step[<<i, g[i - 1]>>]
      <4>1. CASE i <= m
        BY <2>1, <4>1
      <4>2. CASE i = m + 1
        BY <4>2
      <4>. QED  BY <4>1, <4>2
    <3>. QED  BY <3>1, <3>2
  <2> HIDE DEF g, Computes
  <2>. QED  BY <2>2, <2>3
<1>3. 0..n \subseteq S
  <2> HIDE DEF S
  <2>. QED  BY <1>1, <1>2, Induction
<1>. QED  BY <1>3

-----------------------------------------------------------------------------
(***************************************************************************)
(* An automaton reads a text.                                              *)
(***************************************************************************)

\* R, a set of triples, leads from state a to state b over the text s.
Path(R, s, a, b) ==
  \E f : /\ f[0] = a /\ f[Len(s)] = b
         /\ \A i \in 1..Len(s) : <<s[i], f[i - 1], f[i]>> \in R

\* A text of one line.
LEMMA PathOne ==
  ASSUME NEW R, NEW x, NEW a, NEW b, <<x, a, b>> \in R
  PROVE  Path(R, <<x>>, a, b)
<1> DEFINE f == [i \in 0..1 |-> IF i = 0 THEN a ELSE b]
<1>1. f[0] = a /\ f[1] = b /\ Len(<<x>>) = 1 /\ <<x>>[1] = x
  OBVIOUS
<1>2. \A i \in 1..1 : <<<<x>>[i], f[i - 1], f[i]>> \in R
  BY <1>1
<1> HIDE DEF f
<1>. QED  BY <1>1, <1>2 DEF Path

\* A text after another.
LEMMA PathJoin ==
  ASSUME NEW R, NEW X, NEW s \in Seq(X), NEW t \in Seq(X), NEW a, NEW b, NEW c,
         Path(R, s, a, b), Path(R, t, b, c)
  PROVE  Path(R, s \o t, a, c)
<1>1. PICK f : /\ f[0] = a /\ f[Len(s)] = b
               /\ \A i \in 1..Len(s) : <<s[i], f[i - 1], f[i]>> \in R
  BY DEF Path
<1>2. PICK g : /\ g[0] = b /\ g[Len(t)] = c
               /\ \A i \in 1..Len(t) : <<t[i], g[i - 1], g[i]>> \in R
  BY DEF Path
<1> DEFINE h == [i \in 0..Len(s) + Len(t) |->
                   IF i <= Len(s) THEN f[i] ELSE g[i - Len(s)]]
<1>3. Len(s \o t) = Len(s) + Len(t) /\ Len(s) \in Nat /\ Len(t) \in Nat
  OBVIOUS
<1>4. h[0] = a
  BY <1>1, <1>3
<1>5. h[Len(s \o t)] = c
  <2>1. CASE Len(t) = 0
    BY <1>1, <1>2, <1>3, <2>1
  <2>2. CASE Len(t) > 0
    BY <1>2, <1>3, <2>2
  <2>. QED  BY <1>3, <2>1, <2>2
<1>6. ASSUME NEW i \in 1..Len(s \o t)
      PROVE  <<(s \o t)[i], h[i - 1], h[i]>> \in R
  <2>1. CASE i <= Len(s)
    <3>1. (s \o t)[i] = s[i] /\ h[i] = f[i] /\ h[i - 1] = f[i - 1]
      BY <2>1, <1>3
    <3>2. i \in 1..Len(s)
      BY <2>1, <1>3
    <3>. QED  BY <3>1, <3>2, <1>1
  <2>2. CASE i > Len(s)
    <3>1. PICK j \in 1..Len(t) : i = Len(s) + j
      <4>1. i - Len(s) \in 1..Len(t) /\ i = Len(s) + (i - Len(s))
        BY <2>2, <1>3
      <4>. QED  BY <4>1
    <3>2. (s \o t)[i] = t[j] /\ h[i] = g[j]
      BY <3>1, <1>3
    <3>3. h[i - 1] = g[j - 1]
      <4>1. CASE j = 1
        <5>1. h[i - 1] = f[Len(s)]
          BY <3>1, <4>1, <1>3
        <5>. QED  BY <5>1, <4>1, <1>1, <1>2
      <4>2. CASE j > 1
        <5>1. ~(i - 1 <= Len(s)) /\ i - 1 \in 0..Len(s) + Len(t)
              /\ (i - 1) - Len(s) = j - 1
          BY <3>1, <4>2, <1>3
        <5>. QED  BY <5>1
      <4>. QED  BY <4>1, <4>2
    <3>4. <<t[j], g[j - 1], g[j]>> \in R
      BY <1>2
    <3> HIDE DEF h
    <3>. QED  BY <3>2, <3>3, <3>4
  <2>3. i <= Len(s) \/ i > Len(s)
    BY <1>3
  <2> HIDE DEF h
  <2>. QED  BY <2>1, <2>2, <2>3
<1> HIDE DEF h
<1>. QED  BY <1>4, <1>5, <1>6 DEF Path

\* FlattenSeq is the concatenation of what it is given, from left to right.
Flattens(h, ss, n) ==
  /\ h[1] = ss[1]
  /\ \A i \in 2..n : h[i] = h[i - 1] \o ss[i]
  /\ FlattenSeq(ss) = h[n]

\* ... and it is a text.
LEMMA Flattened ==
  ASSUME NEW X, NEW n \in Nat \ {0}, NEW ss \in [1..n -> Seq(X)]
  PROVE  \E h \in [1..n -> Seq(X)] : Flattens(h, ss, n)
<1> DEFINE step == [x \in Nat \X Seq(X) |-> IF x[1] \in 1..n - 1
                                            THEN x[2] \o ss[x[1] + 1] ELSE x[2]]
           Flat(h) == h = [i \in 1..n |-> IF i = 1 THEN ss[i]
                                                   ELSE h[i - 1] \o ss[i]]
<1>1. PICK f \in [0..n - 1 -> Seq(X)] :
        f[0] = ss[1] /\ \A i \in 1..n - 1 : f[i] = step[<<i, f[i - 1]>>]
  <2> DEFINE V == Seq(X)
             m == n - 1
  <2>1. step \in [Nat \X V -> V] /\ ss[1] \in V /\ m \in Nat
    OBVIOUS
  <2> HIDE DEF step, V, m
  <2>2. \E f \in [0..m -> V] : Computes(f, ss[1], step, m)
    BY <2>1, Recursion
  <2>. QED  BY <2>2 DEF V, m, Computes
<1> DEFINE g == [i \in 1..n |-> f[i - 1]]
<1>2. Flat(g)
  <2>1. ASSUME NEW i \in 2..n PROVE g[i] = g[i - 1] \o ss[i]
    <3>1. g[i] = step[<<i - 1, f[i - 2]>>] /\ g[i - 1] = f[i - 2]
      <4>1. i - 1 \in 1..n - 1 /\ (i - 1) - 1 = i - 2
        OBVIOUS
      <4> HIDE DEF step
      <4>. QED  BY <1>1, <4>1
    <3>2. f[i - 2] \in Seq(X) /\ i - 1 \in Nat /\ i - 1 \in 1..n - 1
      OBVIOUS
    <3>3. step[<<i - 1, f[i - 2]>>] = f[i - 2] \o ss[i]
      <4>1. (i - 1) + 1 = i
        OBVIOUS
      <4>. QED  BY <3>2, <4>1
    <3> HIDE DEF step, g
    <3>. QED  BY <3>1, <3>3
  <2>2. g[1] = ss[1]
    BY <1>1
  <2>3. g = [i \in 1..n |-> g[i]]
    OBVIOUS
  <2> HIDE DEF g
  <2>4. ASSUME NEW i \in 1..n
        PROVE  g[i] = IF i = 1 THEN ss[i] ELSE g[i - 1] \o ss[i]
    <3>1. i = 1 \/ i \in 2..n
      OBVIOUS
    <3>. QED  BY <2>1, <2>2, <3>1
  <2>. QED  BY <2>3, <2>4
<1> DEFINE h == CHOOSE h : Flat(h)
<1>3. Flat(h)
  BY <1>2
<1>4. Len(ss) = n /\ n # 0
  OBVIOUS
<1>5. FlattenSeq(ss) = h[n]
  <2> HIDE <1>1, <1>2, <1>3
  <2>. QED  BY <1>4 DEF FlattenSeq
<1> HIDE DEF h, g, step
<1>6. h[1] = ss[1] /\ \A i \in 2..n : h[i] = h[i - 1] \o ss[i]
  <2>1. \A i \in 1..n : h[i] = IF i = 1 THEN ss[i] ELSE h[i - 1] \o ss[i]
    BY <1>3, Zenon
  <2>2. 1 \in 1..n /\ \A i \in 2..n : i \in 1..n /\ i # 1
    OBVIOUS
  <2> HIDE DEF Flat
  <2>. QED  BY <2>1, <2>2
<1>7. h \in [1..n -> Seq(X)]
  <2> DEFINE S == {i \in Nat : i + 1 \in 1..n => h[i + 1] \in Seq(X)}
  <2>1. 0 \in S
    BY <1>6
  <2>2. ASSUME NEW i \in 0..n - 2, i \in S PROVE i + 1 \in S
    <3>1. (i + 1) + 1 \in 2..n /\ h[i + 1] \in Seq(X)
      BY <2>2
    <3>2. h[(i + 1) + 1] = h[i + 1] \o ss[(i + 1) + 1]
      <4>1. ((i + 1) + 1) - 1 = i + 1
        OBVIOUS
      <4>. QED  BY <3>1, <4>1, <1>6
    <3>3. h[(i + 1) + 1] \in Seq(X)
      BY <3>1, <3>2
    <3>. QED  BY <3>3
  <2>3. ASSUME NEW i \in 1..n PROVE h[i] \in Seq(X)
    <3>1. \A j \in 0..(n - 1) - 1 : j \in S => j + 1 \in S
      BY <2>2
    <3>2. 0..n - 1 \subseteq S
      <4>1. n - 1 \in Nat
        OBVIOUS
      <4> HIDE DEF S
      <4>. QED  BY <2>1, <3>1, <4>1, Induction
    <3>3. i - 1 \in 0..n - 1 /\ (i - 1) + 1 = i
      OBVIOUS
    <3>4. i - 1 \in S
      BY <3>2, <3>3
    <3>. QED  BY <3>3, <3>4
  <2>4. DOMAIN h = 1..n /\ h = [i \in DOMAIN h |-> h[i]]
    BY <1>3
  <2>. QED  BY <2>3, <2>4
<1>. QED  BY <1>5, <1>6, <1>7 DEF Flattens

\* A list of texts, one after the other.
LEMMA PathFlatten ==
  ASSUME NEW R, NEW X, NEW n \in Nat \ {0}, NEW ss \in [1..n -> Seq(X)], NEW g,
         \A k \in 1..n : Path(R, ss[k], g[k - 1], g[k])
  PROVE  FlattenSeq(ss) \in Seq(X) /\ Path(R, FlattenSeq(ss), g[0], g[n])
<1>0. PICK h \in [1..n -> Seq(X)] : Flattens(h, ss, n)
  BY Flattened
<1>1. /\ h[1] = ss[1]
      /\ \A i \in 2..n : h[i] = h[i - 1] \o ss[i]
      /\ FlattenSeq(ss) = h[n]
  BY <1>0 DEF Flattens
<1> DEFINE S == {i \in Nat : i + 1 \in 1..n => Path(R, h[i + 1], g[0], g[i + 1])}
<1>2. 0 \in S
  <2>1. Path(R, ss[1], g[1 - 1], g[1])
    OBVIOUS
  <2>. QED  BY <1>1, <2>1
<1>3. ASSUME NEW i \in 0..(n - 1) - 1, i \in S PROVE i + 1 \in S
  <2>1. i + 2 \in 2..n /\ i + 2 = (i + 1) + 1 /\ (i + 2) - 1 = i + 1
        /\ i + 1 \in 1..n
    OBVIOUS
  <2>2. Path(R, h[i + 1], g[0], g[i + 1])
    BY <1>3, <2>1
  <2>3. h[i + 2] = h[i + 1] \o ss[i + 2]
    BY <2>1, <1>1
  <2>4. Path(R, ss[i + 2], g[i + 1], g[i + 2])
    BY <2>1
  <2>5. h[i + 1] \in Seq(X) /\ ss[i + 2] \in Seq(X)
    BY <2>1
  <2>6. Path(R, h[i + 2], g[0], g[i + 2])
    BY <2>2, <2>3, <2>4, <2>5, PathJoin
  <2>. QED  BY <2>1, <2>6
<1>4. 0..n - 1 \subseteq S
  <2>1. n - 1 \in Nat
    OBVIOUS
  <2> HIDE DEF S
  <2>. QED  BY <1>2, <1>3, <2>1, Induction
<1>5. n - 1 \in S /\ (n - 1) + 1 = n
  <2>1. n - 1 \in 0..n - 1 /\ (n - 1) + 1 = n
    OBVIOUS
  <2> HIDE DEF S
  <2>. QED  BY <1>4, <2>1
<1>. QED  BY <1>1, <1>5

-----------------------------------------------------------------------------
(***************************************************************************)
(* removeEmptyLines.                                                       *)
(***************************************************************************)

\* The lines of a text that does not run into a rewind of nothing.
LEMMA RemoveOneType ==
  ASSUME NEW X, Blank \in X, NEW s \in Seq(X)
  PROVE  /\ RemoveOne(s) \in Seq(X)
         /\ (\E p \in DOMAIN s : s[p] = Blank) => Len(RemoveOne(s)) = Len(s) - 1
<1> DEFINE empty == {k \in 2..Len(s) : s[k] = Blank}
<1>1. CASE empty # {}
  <2> DEFINE e == CHOOSE k \in empty : \A j \in empty : k <= j
  <2>1. e \in 2..Len(s)
    <3>1. \E k \in empty : \A j \in empty : k <= j
      <4>1. empty \subseteq Nat
        OBVIOUS
      <4> HIDE DEF empty
      <4>. QED  BY <1>1, <4>1, Smallest
    <3>2. e \in empty
      <4> HIDE DEF empty
      <4>. QED  BY <3>1
    <3>. QED  BY <3>2
  <2>2. RemoveOne(s) = SubSeq(s, 1, e - 1) \o SubSeq(s, e + 1, Len(s))
    BY <1>1 DEF RemoveOne, RemoveAt
  <2> HIDE DEF e
  <2>3. /\ SubSeq(s, 1, e - 1) \in Seq(X) /\ Len(SubSeq(s, 1, e - 1)) = e - 1
        /\ SubSeq(s, e + 1, Len(s)) \in Seq(X)
        /\ Len(SubSeq(s, e + 1, Len(s))) = Len(s) - e
    BY <2>1
  <2>. QED  BY <2>1, <2>2, <2>3
<1>2. CASE empty = {} /\ s # <<>> /\ Head(s) = Blank
  <2>1. RemoveOne(s) = Tail(s)
    BY <1>2 DEF RemoveOne
  <2>. QED  BY <1>2, <2>1
<1>3. CASE empty = {} /\ s # <<>> /\ Head(s) # Blank
  <2>1. RemoveOne(s) = <<Blank, Blank>> \o Tail(s)
    BY <1>3 DEF RemoveOne
  <2>2. ~ \E p \in DOMAIN s : s[p] = Blank
    BY <1>3
  <2>3. <<Blank, Blank>> \in Seq(X) /\ Tail(s) \in Seq(X)
    BY <1>3
  <2>. QED  BY <2>1, <2>2, <2>3
<1>4. CASE empty = {} /\ s = <<>>
  <2>1. RemoveOne(s) = <<Blank>>
    BY <1>4 DEF RemoveOne
  <2>2. ~ \E p \in DOMAIN s : s[p] = Blank
    BY <1>4
  <2>. QED  BY <2>1, <2>2
<1>. QED  BY <1>1, <1>2, <1>3, <1>4

\* removeEmptyLines runs as often as it is told to.
LEMMA RemoveEmptyLinesType ==
  ASSUME NEW X, Blank \in X, NEW s \in Seq(X), NEW n \in Nat
  PROVE  /\ RemoveEmptyLines(s, n) \in Seq(X)
         /\ n = 1 => RemoveEmptyLines(s, n) = RemoveOne(s)
<1> DEFINE V == Seq(X)
           step == [x \in Nat \X V |-> RemoveOne(x[2])]
           After(f) == f = [i \in 0..n |-> IF i = 0 THEN s ELSE RemoveOne(f[i - 1])]
<1>1. step \in [Nat \X V -> V] /\ s \in V
  BY RemoveOneType
<1>2. PICK f \in [0..n -> V] : Computes(f, s, step, n)
  <2> HIDE DEF step, V
  <2>. QED  BY <1>1, Recursion
<1>3. After(f)
  <2>1. ASSUME NEW i \in 1..n PROVE f[i] = RemoveOne(f[i - 1])
    <3>1. f[i] = step[<<i, f[i - 1]>>]
      <4> HIDE DEF step
      <4>. QED  BY <1>2 DEF Computes
    <3>2. f[i - 1] \in V /\ i \in Nat
      <4> HIDE DEF V
      <4>. QED  OBVIOUS
    <3> HIDE DEF V
    <3>. QED  BY <3>1, <3>2
  <2>2. f[0] = s
    BY <1>2 DEF Computes
  <2>3. f = [i \in 0..n |-> f[i]]
    OBVIOUS
  <2>4. \A i \in 0..n : f[i] = IF i = 0 THEN s ELSE RemoveOne(f[i - 1])
    BY <2>1, <2>2
  <2>. QED  BY <2>3, <2>4
<1> DEFINE h == CHOOSE h : After(h)
<1>4. After(h)
  BY <1>3
<1>5. RemoveEmptyLines(s, n) = h[n]
  BY DEF RemoveEmptyLines
<1> HIDE DEF h
<1>6. \A i \in 0..n : h[i] = IF i = 0 THEN s ELSE RemoveOne(h[i - 1])
  BY <1>4, Zenon
<1> HIDE DEF After
<1>7. 0..n \subseteq {i \in 0..n : h[i] \in Seq(X)}
  <2> DEFINE S == {i \in 0..n : h[i] \in Seq(X)}
  <2>1. 0 \in S
    BY <1>6
  <2>2. ASSUME NEW i \in 0..n - 1, i \in S PROVE i + 1 \in S
    <3>1. i + 1 \in 0..n /\ i + 1 # 0 /\ (i + 1) - 1 = i
      OBVIOUS
    <3>2. h[i + 1] = RemoveOne(h[i])
      BY <3>1, <1>6
    <3>. QED  BY <2>2, <3>1, <3>2, RemoveOneType
  <2> HIDE DEF S
  <2>3. 0..n \subseteq S
    BY <2>1, <2>2, Induction
  <2>. QED  BY <2>3 DEF S
<1>8. n = 1 => h[1] = RemoveOne(s)
  <2>1. n = 1 => h[1] = RemoveOne(h[1 - 1]) /\ h[0] = s
    BY <1>6
  <2>. QED  BY <2>1
<1>. QED  BY <1>5, <1>7, <1>8

-----------------------------------------------------------------------------
(***************************************************************************)
(* The lines of a text.                                                    *)
(***************************************************************************)
Files == {"a", "b", "c"}
Marks == Files \cup {NoFile}
Texts == {Text(f, k) : f \in Marks, k \in Nat}
Directives == {Line(n, f) : n \in Nat \ {0}, f \in Files}
Items == Texts \cup Directives \cup {Blank}

\* What can be put out.
Outputs == Items \cup {Nul} \cup {Include(f) : f \in Files}

\* The kinds of lines are told apart by their first component.
LEMMA Kinds ==
  /\ \A f, k : /\ Text(f, k)[1] = "text" /\ Text(f, k)[2] = f
               /\ Text(f, k) # Blank /\ Text(f, k) # Nul
  /\ \A n, f : /\ Line(n, f)[1] = "line" /\ Line(n, f)[2] = n
               /\ Line(n, f)[3] = f
  /\ Blank[1] = "blank" /\ Nul[1] = "nul"
  /\ \A f : Include(f)[1] = "include"
BY DEF Text, Line, Blank, Nul, Include

\* A line of the text is one of three things.
LEMMA ItemCases ==
  ASSUME NEW x \in Items
  PROVE  \/ \E f \in Marks, k \in Nat : x = Text(f, k)
         \/ \E n \in Nat \ {0}, f \in Files : x = Line(n, f)
         \/ x = Blank
BY DEF Items, Texts, Directives

\* Lines that can be in a text.
LEMMA ItemTypes ==
  /\ Blank \in Items
  /\ \A f \in Marks : \A k \in Nat : Text(f, k) \in Items
  /\ \A f \in Files : f \in Marks /\ \A n \in Nat \ {0} : Line(n, f) \in Items
  /\ NoFile \in Marks /\ NoFile \notin Files
BY DEF Items, Texts, Directives, Marks, Files, NoFile

\* Short texts.
LEMMA Short ==
  ASSUME NEW X, NEW x \in X, NEW y \in X
  PROVE  /\ <<x>> \in Seq(X) /\ <<x, y>> \in Seq(X)
         /\ <<x>> \o <<y>> = <<x, y>>
<1>1. <<x>> \in Seq(X) /\ <<y>> \in Seq(X) /\ <<x, y>> \in Seq(X)
  OBVIOUS
<1>2. /\ Len(<<x>>) = 1 /\ Len(<<y>>) = 1 /\ Len(<<x, y>>) = 2
      /\ <<x>>[1] = x /\ <<y>>[1] = y /\ <<x, y>>[1] = x /\ <<x, y>>[2] = y
  OBVIOUS
<1> DEFINE u == <<x>> \o <<y>>
           v == <<x, y>>
<1>3. u \in Seq(X) /\ Len(u) = 2 /\ u[1] = x /\ u[2] = y
  BY <1>1, <1>2
<1>4. u = v
  <2>1. \A w \in Seq(X) : Len(w) = 2 => w \in [1..2 -> X]
    OBVIOUS
  <2>2. \A i \in 1..2 : i = 1 \/ i = 2
    OBVIOUS
  <2>3. v[1] = x /\ v[2] = y /\ Len(v) = 2
    BY <1>2
  <2>4. v \in Seq(X)
    BY <1>1
  <2> HIDE DEF u, v
  <2>. QED  BY <1>1, <1>3, <2>1, <2>2, <2>3, <2>4
<1>. QED  BY <1>1, <1>4

-----------------------------------------------------------------------------
(***************************************************************************)
(* Documents, as an automaton reads them.                                  *)
(***************************************************************************)

\* The automaton stays where it is.
LEMMA PathStays ==
  ASSUME NEW R, NEW s, Len(s) \in Nat, NEW a,
         \A i \in 1..Len(s) : <<s[i], a, a>> \in R
  PROVE  Path(R, s, a, a)
<1> DEFINE f == [i \in 0..Len(s) |-> a]
<1>1. f[0] = a /\ f[Len(s)] = a
  OBVIOUS
<1>2. ASSUME NEW i \in 1..Len(s) PROVE <<s[i], f[i - 1], f[i]>> \in R
  <2>1. f[i - 1] = a /\ f[i] = a
    OBVIOUS
  <2> HIDE DEF f
  <2>. QED  BY <2>1
<1> HIDE DEF f
<1>. QED  BY <1>1, <1>2 DEF Path

\* The shape of a file is a sequence.
LEMMA ShapeType ==
  ASSUME NEW n \in Nat, NEW shape \in Shapes(n)
  PROVE  /\ Len(shape) \in Nat \ {0} /\ DOMAIN shape = 1..Len(shape)
         /\ shape \in [1..Len(shape) -> {"text", "blank", "include"}]
<1>1. PICK k \in 1..n : shape \in [1..k -> {"text", "blank", "include"}]
  BY DEF Shapes
<1>2. shape \in Seq({"text", "blank", "include"}) /\ Len(shape) = k
  BY <1>1
<1>. QED  BY <1>1, <1>2

\* What becomes of one line is a text.
LEMMA LineItemsType ==
  ASSUME NEW n \in Nat, NEW shape \in Shapes(n), NEW f \in Files,
         NEW k \in DOMAIN shape, NEW other \in Seq(Items), NEW goesBack
  PROVE  LineItems(f, shape, k, other, goesBack) \in Seq(Items)
<1>1. k \in Nat \ {0} /\ k + 1 \in Nat \ {0}
  BY ShapeType
<1>2. /\ <<Text(f, k)>> \in Seq(Items) /\ <<Blank>> \in Seq(Items)
      /\ <<Line(k + 1, f)>> \in Seq(Items)
      /\ <<Line(k, f), Blank>> \in Seq(Items)
  <2>1. Text(f, k) \in Items /\ Blank \in Items
        /\ Line(k + 1, f) \in Items /\ Line(k, f) \in Items
    BY <1>1, ItemTypes
  <2>. QED  BY <2>1
<1>3. /\ other \o <<Line(k + 1, f)>> \in Seq(Items)
      /\ other \o <<Line(k, f), Blank>> \in Seq(Items)
  <2> HIDE DEF Items
  <2>. QED  BY <1>2
<1>. QED  BY <1>2, <1>3 DEF LineItems

\* A file is read line by line.
LEMMA FilePath ==
  ASSUME NEW n \in Nat, NEW shape \in Shapes(n), NEW f \in Files,
         NEW other \in Seq(Items), NEW goesBack, NEW R, NEW m, NEW g,
         <<Line(1, f), m, g[0]>> \in R,
         \A k \in 1..Len(shape) :
           Path(R, LineItems(f, shape, k, other, goesBack), g[k - 1], g[k])
  PROVE  /\ FileItems(f, shape, other, goesBack) \in Seq(Items)
         /\ Path(R, FileItems(f, shape, other, goesBack), m, g[Len(shape)])
<1> DEFINE N == Len(shape)
           ss == [k \in DOMAIN shape |-> LineItems(f, shape, k, other, goesBack)]
<1>1. N \in Nat \ {0} /\ DOMAIN shape = 1..N
  BY ShapeType
<1>2. ss \in [1..N -> Seq(Items)] /\ \A k \in 1..N : Path(R, ss[k], g[k - 1], g[k])
  BY <1>1, LineItemsType
<1>3. <<Line(1, f)>> \in Seq(Items)
  BY ItemTypes, Short
<1>4. Path(R, <<Line(1, f)>>, m, g[0])
  BY PathOne
<1>5. FileItems(f, shape, other, goesBack) = <<Line(1, f)>> \o FlattenSeq(ss)
  BY DEF FileItems
<1> HIDE DEF ss, N
<1>6. FlattenSeq(ss) \in Seq(Items) /\ Path(R, FlattenSeq(ss), g[0], g[N])
  BY <1>1, <1>2, PathFlatten
<1>7. Path(R, <<Line(1, f)>> \o FlattenSeq(ss), m, g[N])
  BY <1>3, <1>4, <1>6, PathJoin
<1>8. <<Line(1, f)>> \o FlattenSeq(ss) \in Seq(Items)
  BY <1>3, <1>6
<1>. QED  BY <1>5, <1>7, <1>8 DEF N

-----------------------------------------------------------------------------
(***************************************************************************)
(* Which file a line is of: the one the last directive before it names.    *)
(* The first directive names "a".                                          *)
(***************************************************************************)
MarkStep(x, f, g) ==
  IF x[1] = "line" THEN g = x[3] /\ (f = NoFile => g = "a")
                   ELSE g = f /\ (x[1] = "text" => x[2] = f)
MarkSteps == {t \in Items \X Marks \X Marks : MarkStep(t[1], t[2], t[3])}

\* The steps over each kind of line.
LEMMA MarkStepOver ==
  ASSUME NEW f \in Files
  PROVE  /\ \A n \in Nat \ {0}, m \in Marks :
              m # NoFile \/ f = "a" => <<Line(n, f), m, f>> \in MarkSteps
         /\ \A k \in Nat : <<Text(f, k), f, f>> \in MarkSteps
         /\ <<Blank, f, f>> \in MarkSteps
<1>1. f \in Marks
  BY DEF Marks
<1>2. ASSUME NEW n \in Nat \ {0}, NEW m \in Marks, m # NoFile \/ f = "a"
      PROVE  <<Line(n, f), m, f>> \in MarkSteps
  <2>1. Line(n, f) \in Items
    BY DEF Items, Directives
  <2>2. MarkStep(Line(n, f), m, f)
    BY <1>2, Kinds DEF MarkStep
  <2>. QED  BY <1>1, <2>1, <2>2 DEF MarkSteps
<1>3. ASSUME NEW k \in Nat PROVE <<Text(f, k), f, f>> \in MarkSteps
  <2>1. Text(f, k) \in Items
    BY <1>1, ItemTypes
  <2>2. MarkStep(Text(f, k), f, f)
    BY Kinds DEF MarkStep
  <2>. QED  BY <1>1, <2>1, <2>2 DEF MarkSteps
<1>4. <<Blank, f, f>> \in MarkSteps
  <2>1. Blank \in Items
    BY DEF Items
  <2>2. MarkStep(Blank, f, f)
    BY Kinds DEF MarkStep
  <2>. QED  BY <1>1, <2>1, <2>2 DEF MarkSteps
<1>. QED  BY <1>2, <1>3, <1>4

\* A file begins and ends with itself, if what it includes is sound.
LEMMA FileMarks ==
  ASSUME NEW n \in Nat, NEW shape \in Shapes(n), NEW f \in Files, NEW h \in Files,
         NEW other \in Seq(Items), NEW goesBack, NEW m \in Marks,
         m # NoFile \/ f = "a", Path(MarkSteps, other, f, h)
  PROVE  /\ FileItems(f, shape, other, goesBack) \in Seq(Items)
         /\ Path(MarkSteps, FileItems(f, shape, other, goesBack), m, f)
<1>0. Len(shape) \in Nat \ {0} /\ DOMAIN shape = 1..Len(shape)
  BY ShapeType
<1>1. ASSUME NEW k \in 1..Len(shape)
      PROVE  Path(MarkSteps, LineItems(f, shape, k, other, goesBack), f, f)
  <2>1. k \in Nat \ {0} /\ k + 1 \in Nat \ {0} /\ h \in Marks /\ h # NoFile
    BY <1>0, ItemTypes DEF Marks
  <2>2. Path(MarkSteps, <<Text(f, k)>>, f, f) /\ Path(MarkSteps, <<Blank>>, f, f)
    BY <2>1, MarkStepOver, PathOne
  <2>3. /\ Path(MarkSteps, <<Line(k + 1, f)>>, h, f)
        /\ Path(MarkSteps, <<Line(k, f)>>, h, f)
    BY <2>1, MarkStepOver, PathOne
  <2>4. /\ <<Line(k + 1, f)>> \in Seq(Items) /\ <<Line(k, f)>> \in Seq(Items)
        /\ <<Blank>> \in Seq(Items)
    BY <2>1, ItemTypes, Short
  <2>5. Path(MarkSteps, other \o <<Line(k + 1, f)>>, f, f)
    BY <2>3, <2>4, PathJoin
  <2>6. Path(MarkSteps, other \o <<Line(k, f), Blank>>, f, f)
    <3>1. Path(MarkSteps, <<Line(k, f)>> \o <<Blank>>, h, f)
      BY <2>2, <2>3, <2>4, PathJoin
    <3>2. <<Line(k, f)>> \o <<Blank>> = <<Line(k, f), Blank>>
          /\ <<Line(k, f), Blank>> \in Seq(Items)
      BY <2>1, ItemTypes, Short
    <3>. QED  BY <3>1, <3>2, PathJoin
  <2>. QED  BY <2>2, <2>5, <2>6 DEF LineItems
<1> DEFINE g == [k \in 0..Len(shape) |-> f]
<1>2. /\ g[0] = f /\ g[Len(shape)] = f
      /\ \A k \in 1..Len(shape) : g[k - 1] = f /\ g[k] = f
  BY <1>0
<1>3. <<Line(1, f), m, g[0]>> \in MarkSteps
  <2>1. 1 \in Nat \ {0}
    OBVIOUS
  <2>2. <<Line(1, f), m, f>> \in MarkSteps
    BY <2>1, MarkStepOver
  <2>. QED  BY <1>2, <2>2
<1> HIDE DEF g
<1>. QED  BY <1>1, <1>2, <1>3, FilePath

\* The file included last is one line long.
Last1 == <<Line(1, "c"), Text("c", 1)>>

\* Wherever it is included, it begins and ends with itself.
LEMMA LastMarks ==
  /\ Last1 \in Seq(Items)
  /\ \A m \in Files : Path(MarkSteps, Last1, m, "c")
<1>1. "c" \in Files /\ 1 \in Nat \ {0}
  BY DEF Files
<1>2. Line(1, "c") \in Items /\ Text("c", 1) \in Items
  BY <1>1, ItemTypes
<1>3. /\ <<Line(1, "c")>> \in Seq(Items) /\ <<Text("c", 1)>> \in Seq(Items)
      /\ Last1 \in Seq(Items) /\ Last1 = <<Line(1, "c")>> \o <<Text("c", 1)>>
  BY <1>2, Short DEF Last1
<1>4. Path(MarkSteps, <<Text("c", 1)>>, "c", "c")
  BY <1>1, MarkStepOver, PathOne
<1>5. ASSUME NEW m \in Files PROVE Path(MarkSteps, Last1, m, "c")
  <2>1. <<Line(1, "c"), m, "c">> \in MarkSteps
    BY <1>1, MarkStepOver, ItemTypes
  <2>2. Path(MarkSteps, <<Line(1, "c")>>, m, "c")
    BY <2>1, PathOne
  <2>. QED  BY <1>3, <1>4, <2>2, PathJoin
<1>. QED  BY <1>3, <1>5

\* A line of no file may come before the text of a file.
LEMMA FirstPath ==
  ASSUME NEW R, NEW m, NEW e, <<Text(NoFile, 1), m, m>> \in R,
         NEW s \in Seq(Items), Path(R, s, m, e), NEW d
  PROVE  /\ FirstItems(d) \o s \in Seq(Items)
         /\ Path(R, FirstItems(d) \o s, m, e)
<1>1. Text(NoFile, 1) \in Items
  BY ItemTypes
<1>2. <<Text(NoFile, 1)>> \in Seq(Items) /\ Path(R, <<Text(NoFile, 1)>>, m, m)
  BY <1>1, Short, PathOne
<1>3. CASE d.appended
  <2>1. Path(R, <<Text(NoFile, 1)>> \o s, m, e)
    BY <1>2, PathJoin
  <2> HIDE DEF Items
  <2>2. <<Text(NoFile, 1)>> \o s \in Seq(Items)
    BY <1>2
  <2>. QED  BY <1>3, <2>1, <2>2 DEF FirstItems
<1>4. CASE ~d.appended
  <2> HIDE DEF Items
  <2>1. <<>> \o s = s
    OBVIOUS
  <2>. QED  BY <1>4, <2>1 DEF FirstItems
<1>. QED  BY <1>3, <1>4

\* The whole text; a plain string has no directives.
Mark0(d) == IF d.preprocessed THEN NoFile ELSE "a"

\* Every line of the text is of the file that the last directive names.
LEMMA ContentMarks ==
  ASSUME NEW d \in Documents
  PROVE  /\ Content(d) \in Seq(Items)
         /\ Path(MarkSteps, Content(d), Mark0(d), "a")
<1>1. /\ d.a \in Shapes(MaxLines) /\ d.b \in Shapes(MaxIncluded)
      /\ d.preprocessed \in BOOLEAN /\ MaxLines \in Nat /\ MaxIncluded \in Nat
  BY ScriptAssumption DEF Documents
<1>2. CASE d.preprocessed
  <2> DEFINE ob == FileItems("b", d.b, Last1, d.goesBack)
  <2>1. "a" \in Files /\ "b" \in Files /\ "c" \in Files
        /\ "a" \in Marks /\ "b" \in Marks /\ NoFile \in Marks
        /\ "a" # NoFile
    BY DEF Files, Marks, NoFile
  <2>2. ob \in Seq(Items) /\ Path(MarkSteps, ob, "a", "b")
    BY <1>1, <2>1, LastMarks, FileMarks
  <2> HIDE DEF ob
  <2>3. /\ FileItems("a", d.a, ob, d.goesBack) \in Seq(Items)
        /\ Path(MarkSteps, FileItems("a", d.a, ob, d.goesBack), NoFile, "a")
    BY <1>1, <2>1, <2>2, FileMarks
  <2>4. <<Text(NoFile, 1), NoFile, NoFile>> \in MarkSteps
    <3>1. MarkStep(Text(NoFile, 1), NoFile, NoFile)
      BY Kinds DEF MarkStep
    <3>. QED  BY <2>1, <3>1, ItemTypes DEF MarkSteps
  <2>5. /\ FirstItems(d) \o FileItems("a", d.a, ob, d.goesBack) \in Seq(Items)
        /\ Path(MarkSteps, FirstItems(d) \o FileItems("a", d.a, ob, d.goesBack),
                NoFile, "a")
    BY <2>3, <2>4, FirstPath
  <2>. QED  BY <1>2, <2>5 DEF Content, ob, Last1, Mark0
<1>3. CASE ~d.preprocessed
  <2>1. Len(d.a) \in Nat \ {0} /\ DOMAIN d.a = 1..Len(d.a)
    BY <1>1, ShapeType
  <2> DEFINE c == [k \in 1..Len(d.a) |->
                     IF d.a[k] = "blank" THEN Blank ELSE Text("a", k)]
  <2>2. Content(d) = c /\ Mark0(d) = "a"
    BY <1>3, <2>1 DEF Content, Mark0
  <2>3. \A k \in 1..Len(d.a) : <<c[k], "a", "a">> \in MarkSteps /\ c[k] \in Items
    <3>1. "a" \in Files
      BY DEF Files
    <3>2. \A k \in 1..Len(d.a) : k \in Nat /\ c[k] \in {Blank, Text("a", k)}
      BY <2>1
    <3> HIDE DEF c
    <3>. QED  BY <3>1, <3>2, MarkStepOver, ItemTypes DEF Marks
  <2>4. c \in Seq(Items) /\ Len(c) = Len(d.a)
    <3>1. c \in [1..Len(d.a) -> Items]
      <4> HIDE DEF Items
      <4>. QED  BY <2>3
    <3> HIDE DEF c, Items
    <3>. QED  BY <2>1, <3>1
  <2> HIDE DEF c
  <2>5. Path(MarkSteps, c, "a", "a")
    BY <2>1, <2>3, <2>4, PathStays
  <2>. QED  BY <2>2, <2>4, <2>5
<1>. QED  BY <1>1, <1>2, <1>3


-----------------------------------------------------------------------------
(***************************************************************************)
(* What is put out, and of which file it is.                               *)
(***************************************************************************)

\* A plain string is of one file and has no directives.
LEMMA PlainContent ==
  ASSUME NEW d \in Documents, ~d.preprocessed, NEW j \in 1..Len(Content(d))
  PROVE  /\ Content(d)[j][1] # "line"
         /\ Content(d)[j][1] = "text" => Content(d)[j][2] = "a"
<1> DEFINE c == [k \in 1..Len(d.a) |->
                   IF d.a[k] = "blank" THEN Blank ELSE Text("a", k)]
<1>1. Len(d.a) \in Nat \ {0} /\ DOMAIN d.a = 1..Len(d.a)
  <2>1. d.a \in Shapes(MaxLines) /\ MaxLines \in Nat
    BY ScriptAssumption DEF Documents
  <2>. QED  BY <2>1, ShapeType
<1>2. Content(d) = c
  BY <1>1 DEF Content
<1>3. Content(d) \in Seq(Items)
  BY ContentMarks
<1>4. j \in DOMAIN c
  <2> HIDE DEF c, Items
  <2>. QED  BY <1>2, <1>3
<1>5. c[j] = Blank \/ c[j] = Text("a", j)
  BY <1>4
<1> HIDE DEF c
<1>. QED  BY <1>2, <1>5, Kinds

\* The file each line is of, along the text.
Marking(f) ==
  /\ f[0] = Mark0(doc)
  /\ \A j \in 1..Len(content) : <<content[j], f[j - 1], f[j]>> \in MarkSteps
mark == CHOOSE f : Marking(f)

\* What may be put out: lines of the text, and what the code adds.
Puts ==
  {x \in {content[j] : j \in DOMAIN content}
           \cup {Blank, Nul} \cup {Include(f) : f \in Files} :
     x[1] = "text" => x[2] = Wanted \/ (x[2] = NoFile /\ ~Named)}

\* The inductive invariant.  Up to the first directive a text without a file
\* name is wanted and of no file.
WhatIsWanted ==
  IF ~doc.preprocessed THEN filename = "" /\ inWantedFile
  ELSE IF needSourceFile
       THEN /\ ~Named /\ filename = "" /\ inWantedFile
            /\ cur <= Len(content) + 1 => mark[cur - 1] = NoFile
       ELSE /\ filename = Wanted
            /\ cur <= Len(content) + 1 => (inWantedFile <=> mark[cur - 1] = Wanted)
PutsInv ==
  /\ doc \in Documents
  /\ cur \in 1..Len(content) + 2
  /\ curLine \in Nat \ {0}
  /\ output \in Seq(Puts)
  /\ inWantedFile \in BOOLEAN /\ needSourceFile \in BOOLEAN
  /\ WhatIsWanted

\* Facts about the text that no step changes.
LEMMA ContentFacts ==
  ASSUME doc \in Documents
  PROVE  /\ content \in Seq(Items) /\ Len(content) \in Nat
         /\ DOMAIN content = 1..Len(content)
         /\ \A j \in 1..Len(content) : content[j] \in Items
         /\ Marking(mark)
         /\ Wanted \in Files
         /\ ~doc.preprocessed => Wanted = "a"
         /\ Wanted # NoFile
         /\ ~Named => Wanted = "a"
<1>1. content \in Seq(Items) /\ \E f : Marking(f)
  BY ContentMarks DEF content, Path, Marking
<1>2. Marking(mark)
  BY <1>1 DEF mark
<1>3. /\ Wanted \in Files /\ Wanted # NoFile
      /\ ~doc.preprocessed => Wanted = "a"
      /\ ~Named => Wanted = "a"
  <2>1. ~doc.preprocessed => doc.sourcefile = ""
    BY DEF Documents
  <2>. QED  BY <2>1 DEF Wanted, Files, NoFile, Named, Lower
<1> HIDE DEF Items
<1>. QED  BY <1>1, <1>2, <1>3

\* What the code adds may be put out.
LEMMA PutsAdded ==
  Blank \in Puts /\ Nul \in Puts /\ \A f \in Files : Include(f) \in Puts
BY Kinds DEF Puts

\* One call of readLine puts out what may be put out.
LEMMA PutsStep ==
  ASSUME PutsInv, [Next]_vars
  PROVE  PutsInv'
<1> USE DEF PutsInv
<1>1. CASE UNCHANGED vars
  BY <1>1 DEF vars, content, Wanted, Puts, WhatIsWanted, mark, Marking, Named
<1>2. CASE ReadLine
  <2>0. doc' = doc /\ cur' = cur + 1 /\ cur <= Len(content) + 1
    BY <1>2, ContentFacts DEF ReadLine, Done
  <2>1. /\ content' = content /\ Wanted' = Wanted /\ mark' = mark
        /\ Puts' = Puts /\ Named' = Named
    BY <2>0 DEF content, Wanted, Puts, mark, Marking, Named
  <2>2. cur' \in 1..Len(content) + 2
    BY <2>0, ContentFacts
  <2>3. CASE cur <= Len(content) /\ content[cur][1] = "line"
    <3>1. doc.preprocessed
      BY <2>3, PlainContent, ContentFacts DEF content
    <3>2. PICK n \in Nat \ {0}, f \in Files : content[cur] = Line(n, f)
      <4>1. content[cur] \in Items
        BY <2>3, ContentFacts
      <4>. QED  BY <4>1, <2>3, ItemCases, Kinds
    <3>3. ReadLineMacro(n, f)
      BY <1>2, <2>3, <3>2, Kinds DEF ReadLine
    <3>4. /\ mark[cur] = f
          /\ mark[cur - 1] = NoFile => f = "a"
      <4>1. <<content[cur], mark[cur - 1], mark[cur]>> \in MarkSteps
        BY <2>3, ContentFacts DEF Marking
      <4>. QED  BY <4>1, <3>2, Kinds DEF MarkSteps, MarkStep
    <3>5. filename' = Wanted /\ needSourceFile' = FALSE
      <4>1. CASE needSourceFile
        <5>1. f = "a" /\ Wanted = "a"
          BY <2>0, <3>1, <3>4, <4>1, ContentFacts DEF WhatIsWanted
        <5>. QED  BY <3>3, <4>1, <5>1 DEF ReadLineMacro
      <4>2. CASE ~needSourceFile
        <5>1. filename = Wanted
          BY <3>1, <4>2 DEF WhatIsWanted
        <5>. QED  BY <3>3, <4>2, <5>1 DEF ReadLineMacro
      <4>. QED  BY <4>1, <4>2
    <3> DEFINE rewound == IF inWantedFile' /\ n < curLine
                          THEN RemoveEmptyLines(output, curLine - n) ELSE output
    <3>6. /\ inWantedFile' = (f = Wanted)
          /\ output' = IF inWantedFile THEN Append(rewound, Include(f)) ELSE rewound
          /\ curLine' \in Nat \ {0}
      BY <3>3, <3>5 DEF ReadLineMacro
    <3>7. rewound \in Seq(Puts)
      <4>1. CASE n < curLine
        <5>1. curLine - n \in Nat
          BY <4>1
        <5>. QED  BY <5>1, PutsAdded, RemoveEmptyLinesType
      <4>. QED  BY <4>1
    <3> HIDE DEF rewound
    <3>8. output' \in Seq(Puts)
      BY <3>6, <3>7, PutsAdded
    <3>9. WhatIsWanted'
      <4>1. cur' - 1 = cur
        BY <2>0
      <4>2. inWantedFile' <=> f = Wanted
        BY <3>6
      <4>. QED  BY <2>0, <2>1, <3>1, <3>4, <3>5, <4>1, <4>2 DEF WhatIsWanted
    <3>. QED  BY <2>0, <2>1, <2>2, <3>5, <3>6, <3>8, <3>9
  <2>4. CASE cur <= Len(content) /\ content[cur][1] # "line"
    <3>1. ReadText(content[cur])
      BY <1>2, <2>4 DEF ReadLine
    <3>2. /\ mark[cur] = mark[cur - 1]
          /\ content[cur][1] = "text" => content[cur][2] = mark[cur - 1]
      <4>1. <<content[cur], mark[cur - 1], mark[cur]>> \in MarkSteps
        BY <2>4, ContentFacts DEF Marking
      <4>. QED  BY <4>1, <2>4 DEF MarkSteps, MarkStep
    <3>3. inWantedFile => content[cur] \in Puts
      <4>1. inWantedFile /\ content[cur][1] = "text" =>
              \/ content[cur][2] = Wanted
              \/ content[cur][2] = NoFile /\ ~Named
        <5>1. CASE doc.preprocessed
          BY <2>0, <3>2, <5>1 DEF WhatIsWanted
        <5>2. CASE ~doc.preprocessed
          BY <2>4, <5>2, PlainContent, ContentFacts DEF content
        <5>. QED  BY <5>1, <5>2
      <4>2. cur \in DOMAIN content
        BY <2>4, ContentFacts
      <4>. QED  BY <4>1, <4>2 DEF Puts
    <3>4. output' \in Seq(Puts) /\ curLine' \in Nat \ {0}
          /\ UNCHANGED <<inWantedFile, needSourceFile, filename>>
      BY <3>1, <3>3 DEF ReadText
    <3>5. WhatIsWanted'
      <4>1. cur' - 1 = cur
        BY <2>0
      <4>. QED  BY <2>0, <2>1, <3>2, <3>4, <4>1 DEF WhatIsWanted
    <3>. QED  BY <2>0, <2>1, <2>2, <3>4, <3>5
  <2>5. CASE ~(cur <= Len(content))
    <3>1. ReadText(Nul)
      BY <1>2, <2>5 DEF ReadLine
    <3>2. output' \in Seq(Puts) /\ curLine' \in Nat \ {0}
          /\ UNCHANGED <<inWantedFile, needSourceFile, filename>>
      BY <3>1, PutsAdded DEF ReadText
    <3>3. ~(cur' <= Len(content) + 1)
      BY <2>0, <2>5, ContentFacts
    <3>4. WhatIsWanted'
      BY <2>0, <2>1, <3>2, <3>3 DEF WhatIsWanted
    <3>. QED  BY <2>0, <2>1, <2>2, <3>2, <3>4
  <2>. QED  BY <2>3, <2>4, <2>5
<1>. QED  BY <1>1, <1>2 DEF Next

\* A call starts with nothing put out, in the wanted file if the position has
\* no file name.
LEMMA PutsInit == Init => PutsInv
<1> SUFFICES ASSUME Init PROVE PutsInv
  OBVIOUS
<1>1. doc \in Documents /\ doc.preprocessed \in BOOLEAN
      /\ doc.sourcefile \in {"", "a", "A", "b"}
      /\ (~doc.preprocessed => doc.sourcefile = "")
  BY DEF Init, Documents
<1>2. Len(content) \in Nat /\ cur = 1 /\ output = <<>> /\ curLine = 1
  BY <1>1, ContentFacts DEF Init
<1>3. cur \in 1..Len(content) + 2 /\ output \in Seq(Puts) /\ curLine \in Nat \ {0}
  BY <1>2
<1>4. /\ needSourceFile \in BOOLEAN /\ inWantedFile \in BOOLEAN
      /\ needSourceFile <=> doc.sourcefile = ""
      /\ inWantedFile <=> doc.sourcefile = ""
      /\ filename = Lower(doc.sourcefile)
  BY Zenon DEF Init
<1>5. WhatIsWanted
  <2>1. CASE ~doc.preprocessed
    BY <1>1, <1>4, <2>1 DEF WhatIsWanted, Lower
  <2>2. CASE doc.preprocessed
    <3>1. mark[cur - 1] = NoFile
      <4>1. mark[0] = Mark0(doc)
        BY <1>1, ContentFacts DEF Marking
      <4>2. cur - 1 = 0
        BY <1>2
      <4>. QED  BY <2>2, <4>1, <4>2 DEF Mark0
    <3>2. doc.sourcefile # "" => filename = Wanted
      BY <1>1, <1>4 DEF Lower, Wanted
    <3>3. doc.sourcefile = "" => filename = ""
      BY <1>4 DEF Lower
    <3>. QED  BY <1>1, <1>4, <2>2, <3>1, <3>2, <3>3, ContentFacts
              DEF WhatIsWanted, Named
  <2>. QED  BY <2>1, <2>2
<1>. QED  BY <1>1, <1>3, <1>4, <1>5 DEF PutsInv

\* It always holds.
LEMMA PutsAlways == Spec => []PutsInv
<1>1. Init => PutsInv
  BY PutsInit
<1>2. PutsInv /\ [Next]_vars => PutsInv'
  BY PutsStep
<1>. QED  BY <1>1, <1>2, PTL DEF Spec

\* Every variable has its type, for files of any length: the text is made of
\* texts, directives and empty lines, and removeEmptyLines only adds line ends.
THEOREM TypeCorrect == Spec => []TypeOK
<1>1. PutsInv => TypeOK
  <2> SUFFICES ASSUME PutsInv PROVE TypeOK
    OBVIOUS
  <2>1. ASSUME NEW k \in DOMAIN output
        PROVE  output[k] \in {content[j] : j \in DOMAIN content}
                 \cup {Blank, Nul} \cup {Include(f) : f \in {"a", "b", "c"}}
    <3>1. output[k] \in Puts
      <4>1. output \in Seq(Puts)
        BY DEF PutsInv
      <4>. QED  BY <4>1
    <3>. QED  BY <3>1 DEF Puts, Files
  <2>2. filename \in {"", "a", "b"}
    BY DEF PutsInv, WhatIsWanted, Wanted
  <2>. QED  BY <2>1, <2>2 DEF PutsInv, TypeOK
<1>. QED  BY <1>1, PutsAlways, PTL

\* No text of another file is put out, wherever the includes are: the flag
\* of the closure says whether the last directive named the wanted file, or
\* that none has been named yet.
THEOREM NoOtherFile == Spec => []OnlyTheWantedFile
<1>1. PutsInv => OnlyTheWantedFile
  <2> SUFFICES ASSUME PutsInv, NEW k \in DOMAIN output, output[k][1] = "text"
               PROVE  output[k][2] = Wanted \/ (output[k][2] = NoFile /\ ~Named)
    BY DEF OnlyTheWantedFile
  <2>1. output[k] \in Puts
    <3>1. output \in Seq(Puts)
      BY DEF PutsInv
    <3>. QED  BY <3>1
  <2>. QED  BY <2>1 DEF Puts
<1>. QED  BY <1>1, PutsAlways, PTL

-----------------------------------------------------------------------------
(***************************************************************************)
(* The column of a position.                                               *)
(***************************************************************************)
ColumnSet(chars, p) == {s \in 1..p - 1 : \A r \in s..p - 1 : chars[r] # "nl"}
ColumnAt(chars, p) == Cardinality(ColumnSet(chars, p))
OnFirstLine(chars, p) == \A r \in 1..p : chars[r] # "nl"

\* The column counts from the last line end.
LEMMA ColumnStep ==
  ASSUME NEW chars, NEW p \in Nat \ {0}
  PROVE  /\ ColumnAt(chars, 1) = 0
         /\ ColumnAt(chars, p) \in Nat
         /\ ColumnAt(chars, p + 1) =
              IF chars[p] = "nl" THEN 0 ELSE ColumnAt(chars, p) + 1
<1>1. IsFiniteSet(ColumnSet(chars, p))
  <2>1. IsFiniteSet(1..p - 1)
    BY FS_Interval
  <2>2. ColumnSet(chars, p) \subseteq 1..p - 1
    BY DEF ColumnSet
  <2>. QED  BY <2>1, <2>2, FS_Subset
<1>2. ColumnAt(chars, p) \in Nat
  BY <1>1, FS_CardinalityType DEF ColumnAt
<1>3. ColumnAt(chars, 1) = 0
  <2>1. ColumnSet(chars, 1) = {}
    BY DEF ColumnSet
  <2>. QED  BY <2>1, FS_EmptySet DEF ColumnAt
<1>4. CASE chars[p] = "nl"
  <2>1. ColumnSet(chars, p + 1) = {}
    <3>1. \A s \in 1..(p + 1) - 1 : p \in s..(p + 1) - 1
      OBVIOUS
    <3>. QED  BY <1>4, <3>1 DEF ColumnSet
  <2>. QED  BY <1>2, <1>3, <1>4, <2>1, FS_EmptySet DEF ColumnAt
<1>5. CASE chars[p] # "nl"
  <2>1. p \notin ColumnSet(chars, p)
    BY DEF ColumnSet
  <2>2. ColumnSet(chars, p + 1) = ColumnSet(chars, p) \cup {p}
    <3>1. ASSUME NEW s \in 1..p - 1
          PROVE  s \in ColumnSet(chars, p + 1) <=> s \in ColumnSet(chars, p)
      <4>1. (p + 1) - 1 = p /\ s \in 1..p
            /\ \A r : r \in s..p <=> (r \in s..p - 1 \/ r = p)
        OBVIOUS
      <4>. QED  BY <4>1, <1>5 DEF ColumnSet
    <3>2. p \in ColumnSet(chars, p + 1)
      <4>1. (p + 1) - 1 = p /\ p \in 1..p /\ \A r \in p..p : r = p
        OBVIOUS
      <4>. QED  BY <4>1, <1>5 DEF ColumnSet
    <3>3. \A s \in ColumnSet(chars, p + 1) : s \in 1..p - 1 \/ s = p
      BY DEF ColumnSet
    <3>4. \A s \in ColumnSet(chars, p) : s \in 1..p - 1
      BY DEF ColumnSet
    <3>. QED  BY <3>1, <3>2, <3>3, <3>4
  <2>3. Cardinality(ColumnSet(chars, p) \cup {p})
          = Cardinality(ColumnSet(chars, p)) + 1
    BY <1>1, <2>1, FS_AddElement
  <2>. QED  BY <1>2, <1>3, <1>5, <2>2, <2>3 DEF ColumnAt
<1>. QED  BY <1>2, <1>3, <1>4, <1>5

\* What the loop of getScriptLineOffset has counted at offset q: the column,
\* and the line end as well unless the loop has met the start of the text.
Counted(chars, q) ==
  IF chars[q + 1] = "nl" THEN 0
  ELSE ColumnAt(chars, q + 1) + IF OnFirstLine(chars, q + 1) THEN 0 ELSE 1

\* The count at an offset follows from the one before it.
LEMMA CountedStep ==
  ASSUME NEW chars, NEW q \in Nat
  PROVE  /\ Counted(chars, q) \in Nat
         /\ Counted(chars, q) = IF chars[q + 1] = "nl" \/ q = 0 THEN 0
                                ELSE 1 + Counted(chars, q - 1)
<1>1. Counted(chars, q) \in Nat
  <2>1. q + 1 \in Nat \ {0}
    OBVIOUS
  <2>2. ColumnAt(chars, q + 1) \in Nat
    BY <2>1, ColumnStep
  <2>. QED  BY <2>2 DEF Counted
<1>2. CASE chars[q + 1] = "nl"
  BY <1>1, <1>2 DEF Counted
<1>3. CASE chars[q + 1] # "nl" /\ q = 0
  <2>1. OnFirstLine(chars, 1) /\ 0 + 1 = 1
    BY <1>3 DEF OnFirstLine
  <2>2. 1 \in Nat \ {0}
    OBVIOUS
  <2>3. ColumnAt(chars, 1) = 0
    BY <2>2, ColumnStep
  <2>. QED  BY <1>1, <1>3, <2>1, <2>3 DEF Counted
<1>4. CASE chars[q + 1] # "nl" /\ q # 0
  <2>1. q \in Nat \ {0} /\ (q - 1) + 1 = q
    BY <1>4
  <2>2. /\ ColumnAt(chars, q) \in Nat
        /\ ColumnAt(chars, q + 1) =
              IF chars[q] = "nl" THEN 0 ELSE ColumnAt(chars, q) + 1
    BY <2>1, ColumnStep
  <2>3. OnFirstLine(chars, q + 1) <=> OnFirstLine(chars, q)
    <3>1. \A r : r \in 1..q + 1 <=> (r \in 1..q \/ r = q + 1)
      OBVIOUS
    <3>. QED  BY <3>1, <1>4 DEF OnFirstLine
  <2>4. chars[q] = "nl" => ~OnFirstLine(chars, q)
    <3>1. q \in 1..q
      BY <2>1
    <3>. QED  BY <3>1 DEF OnFirstLine
  <2>5. Counted(chars, q - 1) =
          IF chars[q] = "nl" THEN 0
          ELSE ColumnAt(chars, q) + IF OnFirstLine(chars, q) THEN 0 ELSE 1
    BY <2>1 DEF Counted
  <2>6. Counted(chars, q) =
          ColumnAt(chars, q + 1) + IF OnFirstLine(chars, q + 1) THEN 0 ELSE 1
    BY <1>4 DEF Counted
  <2>. QED  BY <1>1, <1>4, <2>2, <2>3, <2>4, <2>5, <2>6
<1>. QED  BY <1>2, <1>3, <1>4, <1>1

\* ... so the recursion computes it.
LEMMA LineOffsetIs ==
  ASSUME NEW chars, NEW pos \in Nat
  PROVE  LineOffset(chars, pos) =
           IF Counted(chars, pos) = 0 THEN 0 ELSE Counted(chars, pos) - 1
<1> DEFINE Goes(f) == f = [p \in 0..pos |->
                             IF chars[p + 1] = "nl" \/ p = 0 THEN 0 ELSE 1 + f[p - 1]]
           g == [p \in 0..pos |-> Counted(chars, p)]
<1>1. Goes(g)
  <2>1. ASSUME NEW p \in 0..pos
        PROVE  g[p] = IF chars[p + 1] = "nl" \/ p = 0 THEN 0 ELSE 1 + g[p - 1]
    <3>1. p \in Nat /\ g[p] = Counted(chars, p)
          /\ (p # 0 => g[p - 1] = Counted(chars, p - 1))
      OBVIOUS
    <3> HIDE DEF g
    <3>. QED  BY <3>1, CountedStep
  <2>2. g = [p \in 0..pos |-> g[p]]
    OBVIOUS
  <2> HIDE DEF g
  <2>. QED  BY <2>1, <2>2
<1> DEFINE h == CHOOSE f : Goes(f)
<1>2. Goes(h)
  BY <1>1
<1>3. LineOffset(chars, pos) = IF h[pos] = 0 THEN 0 ELSE h[pos] - 1
  BY DEF LineOffset
<1> HIDE DEF h
<1>4. \A p \in 0..pos :
        h[p] = IF chars[p + 1] = "nl" \/ p = 0 THEN 0 ELSE 1 + h[p - 1]
  BY <1>2, Zenon
<1> DEFINE S == {p \in 0..pos : h[p] = Counted(chars, p)}
<1> HIDE DEF Goes, g
<1>5. 0 \in S
  <2>1. 0 \in Nat /\ 0 \in 0..pos
    OBVIOUS
  <2>2. Counted(chars, 0) = 0
    BY <2>1, CountedStep
  <2>. QED  BY <2>1, <2>2, <1>4
<1>6. ASSUME NEW p \in 0..pos - 1, p \in S PROVE p + 1 \in S
  <2>1. p + 1 \in 0..pos /\ p + 1 \in Nat /\ p + 1 # 0 /\ (p + 1) - 1 = p
    OBVIOUS
  <2>2. h[p + 1] = IF chars[(p + 1) + 1] = "nl" THEN 0 ELSE 1 + h[p]
    BY <2>1, <1>4
  <2>3. Counted(chars, p + 1) =
          IF chars[(p + 1) + 1] = "nl" THEN 0 ELSE 1 + Counted(chars, p)
    BY <2>1, CountedStep
  <2>. QED  BY <1>6, <2>1, <2>2, <2>3
<1>7. h[pos] = Counted(chars, pos)
  <2>1. pos \in 0..pos
    OBVIOUS
  <2> HIDE DEF S
  <2>2. 0..pos \subseteq S
    BY <1>5, <1>6, Induction
  <2>. QED  BY <2>1, <2>2 DEF S
<1>. QED  BY <1>3, <1>7

\* The characters are a sequence.
LEMMA CharsType ==
  ASSUME NEW X, NEW lines \in Seq(X)
  PROVE  Chars(lines) \in Seq({"nl", "x"})
<1> DEFINE n == Len(lines)
           ss == [k \in DOMAIN lines |-> IF lines[k] = Blank THEN <<"nl">>
                                         ELSE <<"x", "x", "x", "nl">>]
           C == {"nl", "x"}
<1>1. n \in Nat /\ DOMAIN lines = 1..n
  OBVIOUS
<1>2. <<"nl">> \in Seq(C) /\ <<"x", "x", "x", "nl">> \in Seq(C)
  OBVIOUS
<1>3. ss \in [1..n -> Seq(C)]
  <2> HIDE DEF C, n
  <2>. QED  BY <1>1, <1>2
<1>4. Chars(lines) = FlattenSeq(ss)
  BY DEF Chars
<1> HIDE DEF ss, n, C
<1>5. CASE n = 0
  <2>1. ss \in Seq(Seq(C)) /\ Len(ss) = 0
    BY <1>1, <1>3, <1>5
  <2>2. FlattenSeq(ss) = ss /\ ss = <<>>
    BY <2>1 DEF FlattenSeq
  <2>. QED  BY <1>4, <2>2 DEF C
<1>6. CASE n # 0
  <2>1. PICK h \in [1..n -> Seq(C)] : Flattens(h, ss, n)
    BY <1>1, <1>3, <1>6, Flattened
  <2>2. h[n] \in Seq(C) /\ FlattenSeq(ss) = h[n]
    BY <1>1, <1>6, <2>1 DEF Flattens
  <2>. QED  BY <1>4, <2>2 DEF C
<1>. QED  BY <1>5, <1>6

\* The column of a position in a text of any length is right but on its first
\* line, where getScriptLineOffset is one short from the second column on.
THEOREM OffsetCorrect == Spec => []OffsetIsColumn
<1>1. PutsInv => OffsetIsColumn
  <2> DEFINE chars == Chars(content)
  <2> SUFFICES ASSUME PutsInv, NEW p \in DOMAIN chars
               PROVE  LineOffset(chars, p - 1) =
                        CASE chars[p] = "nl" \/ ColumnAt(chars, p) = 0 -> 0
                          [] OnFirstLine(chars, p) /\ ColumnAt(chars, p) > 0
                               -> ColumnAt(chars, p) - 1
                          [] OTHER -> ColumnAt(chars, p)
    BY DEF OffsetIsColumn, ColumnAt, ColumnSet, OnFirstLine
  <2>1. chars \in Seq({"nl", "x"})
    <3>1. content \in Seq(Items)
      BY ContentFacts DEF PutsInv
    <3>. QED  BY <3>1, CharsType
  <2> HIDE DEF chars
  <2>2. p \in Nat \ {0} /\ p - 1 \in Nat /\ (p - 1) + 1 = p
    BY <2>1
  <2>3. LineOffset(chars, p - 1) = IF Counted(chars, p - 1) = 0 THEN 0
                                   ELSE Counted(chars, p - 1) - 1
    BY <2>2, LineOffsetIs
  <2>4. Counted(chars, p - 1) =
          IF chars[p] = "nl" THEN 0
          ELSE ColumnAt(chars, p) + IF OnFirstLine(chars, p) THEN 0 ELSE 1
    BY <2>2 DEF Counted
  <2>5. ColumnAt(chars, p) \in Nat
    BY <2>2, ColumnStep
  <2>6. OnFirstLine(chars, p) => chars[p] # "nl"
    <3>1. p \in 1..p
      BY <2>2
    <3>. QED  BY <3>1 DEF OnFirstLine
  <2> DEFINE col == ColumnAt(chars, p)
  <2> HIDE DEF col
  <2>7. CASE chars[p] = "nl" \/ col = 0
    <3>1. LineOffset(chars, p - 1) = 0
      BY <2>3, <2>4, <2>5, <2>7 DEF col
    <3>2. ~(OnFirstLine(chars, p) /\ col > 0)
      BY <2>6, <2>7
    <3>. QED  BY <3>1, <3>2, <2>7 DEF col
  <2>8. CASE ~(chars[p] = "nl" \/ col = 0) /\ OnFirstLine(chars, p)
    <3>1. LineOffset(chars, p - 1) = col - 1 /\ col > 0
      BY <2>3, <2>4, <2>5, <2>8 DEF col
    <3>. QED  BY <3>1, <2>8 DEF col
  <2>9. CASE ~(chars[p] = "nl" \/ col = 0) /\ ~OnFirstLine(chars, p)
    <3>1. LineOffset(chars, p - 1) = col
      BY <2>3, <2>4, <2>5, <2>9 DEF col
    <3>. QED  BY <3>1, <2>9 DEF col
  <2>. QED  BY <2>7, <2>8, <2>9
<1>. QED  BY <1>1, PutsAlways, PTL

-----------------------------------------------------------------------------
(***************************************************************************)
(* Where in the wanted file the closure is.  A text is read through these  *)
(* stages: <<"pre", 0>>, the wanted file has not come yet; <<"in", k>>,    *)
(* its first k lines have been read; <<"inc", k>>, inside of what its line *)
(* k includes; <<"skip", k>>, behind a directive that names line k again;  *)
(* <<"post", k>>, behind the file.                                         *)
(***************************************************************************)
N == Len(Shape)
Other == IF Wanted = "a" THEN "b" ELSE "c"
Stages == {"pre", "in", "inc", "skip", "post"} \X (0..N)

\* A directive of the wanted file.
NamesWanted(x) == x[1] = "line" /\ x[3] = Wanted

\* One line leads from stage s to stage t.
Stays(x, s, t) == s[1] \in {"pre", "inc", "post"} /\ ~NamesWanted(x) /\ t = s
Enters(x, s, t) == s = <<"pre", 0>> /\ x = Line(1, Wanted) /\ t = <<"in", 0>>
Reads(x, s, t, k) == s = <<"in", k - 1>> /\ x = InfoLine(k) /\ t = <<"in", k>>
GoesInto(x, s, t, k) ==
  /\ s = <<"in", k - 1>> /\ x = Line(1, Other) /\ t = <<"inc", k>>
  /\ Shape[k] = "include"
GoesOn(x, s, t, k) ==
  /\ s = <<"inc", k>> /\ x = Line(k + 1, Wanted) /\ t = <<"in", k>>
GoesBack(x, s, t, k) ==
  /\ s = <<"inc", k>> /\ x = Line(k, Wanted) /\ t = <<"skip", k>>
  /\ doc.goesBack = "same" /\ Shape[k] = "include"
Skips(x, s, t, k) ==
  /\ s = <<"skip", k>> /\ x = Blank /\ t = <<"in", k>>
  /\ doc.goesBack = "same" /\ Shape[k] = "include"
Leaves(x, s, t) ==
  s = <<"in", N>> /\ x[1] = "line" /\ ~NamesWanted(x) /\ t = <<"post", N>>

StageStep(x, s, t) ==
  \/ Stays(x, s, t)
  \/ Enters(x, s, t)
  \/ \E k \in 1..N : \/ Reads(x, s, t, k) \/ GoesInto(x, s, t, k)
                     \/ GoesOn(x, s, t, k) \/ GoesBack(x, s, t, k)
                     \/ Skips(x, s, t, k)
  \/ Leaves(x, s, t)
StageSteps == {u \in Items \X Stages \X Stages : StageStep(u[1], u[2], u[3])}

\* The shape of the wanted file.
LEMMA WantedShape ==
  ASSUME doc \in Documents
  PROVE  /\ N \in Nat \ {0} /\ DOMAIN Shape = 1..N
         /\ \A k \in 1..N : Shape[k] \in {"text", "blank", "include"}
         /\ \E n \in Nat : Shape \in Shapes(n)
         /\ Wanted \in {"a", "b"} /\ Other \in {"b", "c"} /\ Other # Wanted
         /\ Wanted \in Files /\ Other \in Files
<1>1. doc.a \in Shapes(MaxLines) /\ doc.b \in Shapes(MaxIncluded)
      /\ MaxLines \in Nat /\ MaxIncluded \in Nat
  BY ScriptAssumption DEF Documents
<1>2. \E n \in Nat : Shape \in Shapes(n)
  BY <1>1 DEF Shape
<1>3. PICK n \in Nat : Shape \in Shapes(n)
  BY <1>2
<1>4. /\ N \in Nat \ {0} /\ DOMAIN Shape = 1..N
      /\ Shape \in [1..N -> {"text", "blank", "include"}]
  BY <1>3, ShapeType DEF N
<1>5. /\ Wanted \in {"a", "b"} /\ Other \in {"b", "c"} /\ Other # Wanted
      /\ Wanted \in Files /\ Other \in Files
  BY DEF Wanted, Other, Files
<1>. QED  BY <1>2, <1>4, <1>5

\* A step of the automaton is in its set of steps.
LEMMA StageIn ==
  ASSUME doc \in Documents, NEW x \in Items, NEW s \in Stages, NEW t \in Stages,
         StageStep(x, s, t)
  PROVE  <<x, s, t>> \in StageSteps
BY DEF StageSteps

\* The stages.
LEMMA StageTypes ==
  ASSUME doc \in Documents
  PROVE  /\ <<"pre", 0>> \in Stages
         /\ \A k \in 0..N : /\ <<"in", k>> \in Stages /\ <<"inc", k>> \in Stages
                            /\ <<"skip", k>> \in Stages /\ <<"post", k>> \in Stages
<1>1. N \in Nat
  BY WantedShape
<1>2. 0 \in 0..N
  BY <1>1
<1>. QED  BY <1>2 DEF Stages

\* Outside of the wanted file nothing but one of its directives leads on.
LEMMA StayingIn ==
  ASSUME doc \in Documents, NEW x \in Items, ~NamesWanted(x),
         NEW s \in Stages, s[1] \in {"pre", "inc", "post"}
  PROVE  <<x, s, s>> \in StageSteps
BY StageIn DEF StageStep, Stays

\* A file that is not wanted, and what it includes is not either.
LEMMA ForeignFile ==
  ASSUME doc \in Documents, NEW n \in Nat, NEW shape \in Shapes(n),
         NEW f \in Files, f # Wanted, NEW other \in Seq(Items), NEW goesBack,
         NEW s \in Stages, NEW t \in Stages, t[1] \in {"pre", "inc", "post"},
         <<Line(1, f), s, t>> \in StageSteps,
         \A j \in 1..Len(other) : ~NamesWanted(other[j])
  PROVE  /\ FileItems(f, shape, other, goesBack) \in Seq(Items)
         /\ Path(StageSteps, FileItems(f, shape, other, goesBack), s, t)
<1>1. Len(shape) \in Nat \ {0} /\ DOMAIN shape = 1..Len(shape)
  BY ShapeType
<1>2. ASSUME NEW k \in 1..Len(shape)
      PROVE  Path(StageSteps, LineItems(f, shape, k, other, goesBack), t, t)
  <2>1. k \in Nat \ {0} /\ k + 1 \in Nat \ {0}
    BY <1>1
  <2>2. /\ Text(f, k) \in Items /\ ~NamesWanted(Text(f, k))
        /\ Blank \in Items /\ ~NamesWanted(Blank)
        /\ \A i \in Nat \ {0} : Line(i, f) \in Items /\ ~NamesWanted(Line(i, f))
    BY <2>1, ItemTypes, Kinds DEF NamesWanted
  <2>3. /\ Path(StageSteps, <<Text(f, k)>>, t, t)
        /\ Path(StageSteps, <<Blank>>, t, t)
        /\ \A i \in Nat \ {0} : Path(StageSteps, <<Line(i, f)>>, t, t)
    BY <2>2, StayingIn, PathOne
  <2>4. Path(StageSteps, other, t, t)
    <3>1. Len(other) \in Nat /\ \A j \in 1..Len(other) : other[j] \in Items
      <4> HIDE DEF Items
      <4>. QED  OBVIOUS
    <3>2. \A j \in 1..Len(other) : <<other[j], t, t>> \in StageSteps
      BY <3>1, StayingIn
    <3>. QED  BY <3>1, <3>2, PathStays
  <2>5. /\ <<Line(k + 1, f)>> \in Seq(Items) /\ <<Line(k, f)>> \in Seq(Items)
        /\ <<Blank>> \in Seq(Items) /\ <<Line(k, f), Blank>> \in Seq(Items)
        /\ <<Line(k, f)>> \o <<Blank>> = <<Line(k, f), Blank>>
    BY <2>1, <2>2, Short
  <2>6. Path(StageSteps, other \o <<Line(k + 1, f)>>, t, t)
    BY <2>1, <2>3, <2>4, <2>5, PathJoin
  <2>7. Path(StageSteps, other \o <<Line(k, f), Blank>>, t, t)
    <3>1. Path(StageSteps, <<Line(k, f)>> \o <<Blank>>, t, t)
      BY <2>1, <2>3, <2>5, PathJoin
    <3>. QED  BY <2>4, <2>5, <3>1, PathJoin
  <2>. QED  BY <2>3, <2>6, <2>7 DEF LineItems
<1> DEFINE g == [k \in 0..Len(shape) |-> t]
<1>3. /\ g[0] = t /\ g[Len(shape)] = t
      /\ \A k \in 1..Len(shape) : g[k - 1] = t /\ g[k] = t
  BY <1>1
<1>4. <<Line(1, f), s, g[0]>> \in StageSteps
  BY <1>3
<1> HIDE DEF g
<1>. QED  BY <1>2, <1>3, <1>4, FilePath

\* The wanted file is read from its first line to its last.
LEMMA WantedFile ==
  ASSUME doc \in Documents, doc.preprocessed, NEW other \in Seq(Items),
         \A k \in 1..N : Shape[k] = "include" =>
           Path(StageSteps, other, <<"in", k - 1>>, <<"inc", k>>)
  PROVE  /\ FileItems(Wanted, Shape, other, doc.goesBack) \in Seq(Items)
         /\ Path(StageSteps, FileItems(Wanted, Shape, other, doc.goesBack),
                 <<"pre", 0>>, <<"in", N>>)
<1>1. /\ N \in Nat \ {0} /\ DOMAIN Shape = 1..N /\ Wanted \in Files
      /\ \A k \in 1..N : Shape[k] \in {"text", "blank", "include"}
  BY WantedShape
<1>2. ASSUME NEW k \in 1..N
      PROVE  Path(StageSteps, LineItems(Wanted, Shape, k, other, doc.goesBack),
                  <<"in", k - 1>>, <<"in", k>>)
  <2>1. k \in Nat \ {0} /\ k + 1 \in Nat \ {0} /\ k - 1 \in 0..N /\ k \in 0..N
    BY <1>1
  <2>2. <<"in", k - 1>> \in Stages /\ <<"in", k>> \in Stages
        /\ <<"inc", k>> \in Stages /\ <<"skip", k>> \in Stages
    BY <2>1, StageTypes
  <2>3. /\ Text(Wanted, k) \in Items /\ Blank \in Items
        /\ Line(k, Wanted) \in Items /\ Line(k + 1, Wanted) \in Items
    BY <1>1, <2>1, ItemTypes
  <2>4. CASE Shape[k] = "text"
    <3>1. InfoLine(k) = Text(Wanted, k)
      BY <2>4 DEF InfoLine
    <3>2. StageStep(Text(Wanted, k), <<"in", k - 1>>, <<"in", k>>)
      BY <3>1 DEF StageStep, Reads
    <3>3. <<Text(Wanted, k), <<"in", k - 1>>, <<"in", k>>>> \in StageSteps
      BY <2>2, <2>3, <3>2, StageIn
    <3>4. LineItems(Wanted, Shape, k, other, doc.goesBack) = <<Text(Wanted, k)>>
      BY <2>4 DEF LineItems
    <3>. QED  BY <3>3, <3>4, PathOne
  <2>5. CASE Shape[k] = "blank"
    <3>1. InfoLine(k) = Blank
      BY <2>5 DEF InfoLine
    <3>2. StageStep(Blank, <<"in", k - 1>>, <<"in", k>>)
      BY <3>1 DEF StageStep, Reads
    <3>3. <<Blank, <<"in", k - 1>>, <<"in", k>>>> \in StageSteps
      BY <2>2, <2>3, <3>2, StageIn
    <3>4. LineItems(Wanted, Shape, k, other, doc.goesBack) = <<Blank>>
      BY <2>5 DEF LineItems
    <3>. QED  BY <3>3, <3>4, PathOne
  <2>6. CASE Shape[k] = "include"
    <3>1. Path(StageSteps, other, <<"in", k - 1>>, <<"inc", k>>)
      BY <2>6
    <3>2. /\ <<Line(k + 1, Wanted)>> \in Seq(Items) /\ <<Line(k, Wanted)>> \in Seq(Items)
          /\ <<Blank>> \in Seq(Items) /\ <<Line(k, Wanted), Blank>> \in Seq(Items)
          /\ <<Line(k, Wanted)>> \o <<Blank>> = <<Line(k, Wanted), Blank>>
      BY <2>3, Short
    <3>3. CASE doc.goesBack = "next"
      <4>1. StageStep(Line(k + 1, Wanted), <<"inc", k>>, <<"in", k>>)
        BY DEF StageStep, GoesOn
      <4>2. <<Line(k + 1, Wanted), <<"inc", k>>, <<"in", k>>>> \in StageSteps
        BY <2>2, <2>3, <4>1, StageIn
      <4>3. Path(StageSteps, <<Line(k + 1, Wanted)>>, <<"inc", k>>, <<"in", k>>)
        BY <4>2, PathOne
      <4>4. LineItems(Wanted, Shape, k, other, doc.goesBack)
              = other \o <<Line(k + 1, Wanted)>>
        BY <2>6, <3>3 DEF LineItems
      <4>. QED  BY <3>1, <3>2, <4>3, <4>4, PathJoin
    <3>4. CASE doc.goesBack # "next"
      <4>0. doc.goesBack = "same"
        BY <3>4 DEF Documents
      <4>1. /\ StageStep(Line(k, Wanted), <<"inc", k>>, <<"skip", k>>)
            /\ StageStep(Blank, <<"skip", k>>, <<"in", k>>)
        BY <2>6, <4>0 DEF StageStep, GoesBack, Skips
      <4>2. /\ <<Line(k, Wanted), <<"inc", k>>, <<"skip", k>>>> \in StageSteps
            /\ <<Blank, <<"skip", k>>, <<"in", k>>>> \in StageSteps
        BY <2>2, <2>3, <4>1, StageIn
      <4>3. /\ Path(StageSteps, <<Line(k, Wanted)>>, <<"inc", k>>, <<"skip", k>>)
            /\ Path(StageSteps, <<Blank>>, <<"skip", k>>, <<"in", k>>)
        BY <4>2, PathOne
      <4>4. Path(StageSteps, <<Line(k, Wanted)>> \o <<Blank>>,
                 <<"inc", k>>, <<"in", k>>)
        BY <3>2, <4>3, PathJoin
      <4>5. LineItems(Wanted, Shape, k, other, doc.goesBack)
              = other \o <<Line(k, Wanted), Blank>>
        BY <2>6, <3>4 DEF LineItems
      <4>. QED  BY <3>1, <3>2, <4>4, <4>5, PathJoin
    <3>. QED  BY <3>3, <3>4
  <2>. QED  BY <1>1, <2>4, <2>5, <2>6
<1> DEFINE g == [k \in 0..N |-> <<"in", k>>]
<1>3. /\ g[0] = <<"in", 0>> /\ g[N] = <<"in", N>>
      /\ \A k \in 1..N : g[k - 1] = <<"in", k - 1>> /\ g[k] = <<"in", k>>
  BY <1>1
<1>4. <<Line(1, Wanted), <<"pre", 0>>, g[0]>> \in StageSteps
  <2>1. Line(1, Wanted) \in Items
    <3>1. 1 \in Nat \ {0}
      OBVIOUS
    <3>. QED  BY <3>1, <1>1, ItemTypes
  <2>2. <<"pre", 0>> \in Stages /\ <<"in", 0>> \in Stages
    <3>1. 0 \in 0..N
      BY <1>1
    <3>. QED  BY <3>1, StageTypes
  <2>3. StageStep(Line(1, Wanted), <<"pre", 0>>, <<"in", 0>>)
    BY DEF StageStep, Enters
  <2>. QED  BY <1>3, <2>1, <2>2, <2>3, StageIn
<1> HIDE DEF g
<1>5. \A k \in 1..Len(Shape) :
        Path(StageSteps, LineItems(Wanted, Shape, k, other, doc.goesBack),
             g[k - 1], g[k])
  BY <1>2, <1>3 DEF N
<1>6. PICK n \in Nat : Shape \in Shapes(n)
  BY WantedShape
<1>7. /\ FileItems(Wanted, Shape, other, doc.goesBack) \in Seq(Items)
      /\ Path(StageSteps, FileItems(Wanted, Shape, other, doc.goesBack),
              <<"pre", 0>>, g[Len(Shape)])
  BY <1>1, <1>4, <1>5, <1>6, FilePath
<1>. QED  BY <1>3, <1>7 DEF N

\* The file "c", seen from "b".
LEMMA LastStages ==
  ASSUME doc \in Documents, Wanted = "b",
         NEW k \in 1..N, Shape[k] = "include"
  PROVE  Path(StageSteps, Last1, <<"in", k - 1>>, <<"inc", k>>)
<1>1. N \in Nat \ {0} /\ Other = "c" /\ "c" \in Files
  BY WantedShape DEF Other, Files
<1>2. k - 1 \in 0..N /\ k \in 0..N /\ 1 \in Nat \ {0} /\ 1 \in Nat
  BY <1>1
<1>3. <<"in", k - 1>> \in Stages /\ <<"inc", k>> \in Stages
  BY <1>2, StageTypes
<1>4. Line(1, "c") \in Items /\ Text("c", 1) \in Items
  BY <1>1, <1>2, ItemTypes
<1>5. <<Line(1, "c"), <<"in", k - 1>>, <<"inc", k>>>> \in StageSteps
  <2>1. StageStep(Line(1, "c"), <<"in", k - 1>>, <<"inc", k>>)
    BY <1>1 DEF StageStep, GoesInto
  <2>. QED  BY <1>3, <1>4, <2>1, StageIn
<1>6. <<Text("c", 1), <<"inc", k>>, <<"inc", k>>>> \in StageSteps
  <2>1. ~NamesWanted(Text("c", 1))
    BY Kinds DEF NamesWanted
  <2>2. <<"inc", k>>[1] \in {"pre", "inc", "post"}
    OBVIOUS
  <2>. QED  BY <1>3, <1>4, <2>1, <2>2, StayingIn
<1>7. /\ Path(StageSteps, <<Line(1, "c")>>, <<"in", k - 1>>, <<"inc", k>>)
      /\ Path(StageSteps, <<Text("c", 1)>>, <<"inc", k>>, <<"inc", k>>)
  BY <1>5, <1>6, PathOne
<1>8. /\ <<Line(1, "c")>> \in Seq(Items) /\ <<Text("c", 1)>> \in Seq(Items)
      /\ Last1 = <<Line(1, "c")>> \o <<Text("c", 1)>>
  BY <1>4, Short DEF Last1
<1>. QED  BY <1>7, <1>8, PathJoin

\* The file "b" with what it includes, seen from "a".
LEMMA InnerStages ==
  ASSUME doc \in Documents, doc.preprocessed, Wanted = "a",
         NEW k \in 1..N, Shape[k] = "include"
  PROVE  Path(StageSteps, FileItems("b", doc.b, Last1, doc.goesBack),
              <<"in", k - 1>>, <<"inc", k>>)
<1>1. N \in Nat \ {0} /\ Other = "b" /\ "b" \in Files /\ "b" # Wanted /\ "c" # Wanted
  BY WantedShape DEF Other, Files
<1>2. k - 1 \in 0..N /\ k \in 0..N /\ 1 \in Nat \ {0} /\ 1 \in Nat
  BY <1>1
<1>3. <<"in", k - 1>> \in Stages /\ <<"inc", k>> \in Stages
  BY <1>2, StageTypes
<1>4. Line(1, "b") \in Items
  BY <1>1, <1>2, ItemTypes
<1>5. <<Line(1, "b"), <<"in", k - 1>>, <<"inc", k>>>> \in StageSteps
  <2>1. StageStep(Line(1, "b"), <<"in", k - 1>>, <<"inc", k>>)
    BY <1>1 DEF StageStep, GoesInto
  <2>. QED  BY <1>3, <1>4, <2>1, StageIn
<1>6. Last1 \in Seq(Items) /\ \A j \in 1..Len(Last1) : ~NamesWanted(Last1[j])
  <2>1. Len(Last1) = 2 /\ Last1[1] = Line(1, "c") /\ Last1[2] = Text("c", 1)
    BY DEF Last1
  <2>2. ~NamesWanted(Line(1, "c")) /\ ~NamesWanted(Text("c", 1))
    BY <1>1, Kinds DEF NamesWanted
  <2>3. \A j \in 1..2 : j = 1 \/ j = 2
    OBVIOUS
  <2>4. Last1 \in Seq(Items)
    BY LastMarks
  <2>. QED  BY <2>1, <2>2, <2>3, <2>4
<1>7. doc.b \in Shapes(MaxIncluded) /\ MaxIncluded \in Nat
  BY ScriptAssumption DEF Documents
<1>8. <<"inc", k>>[1] \in {"pre", "inc", "post"}
  OBVIOUS
<1>. QED  BY <1>1, <1>3, <1>5, <1>6, <1>7, <1>8, ForeignFile

\* The whole text, if the wanted file is in it once.
Stage0 == IF doc.preprocessed THEN <<"pre", 0>> ELSE <<"in", 0>>
Ends == {<<"in", N>>, <<"post", N>>}

\* A plain string.
LEMMA PlainStages ==
  ASSUME doc \in Documents, ~doc.preprocessed
  PROVE  Path(StageSteps, content, <<"in", 0>>, <<"in", N>>)
<1>1. /\ N \in Nat \ {0} /\ DOMAIN Shape = 1..N /\ Shape = doc.a
      /\ Wanted = "a" /\ "a" \in Files
      /\ \A k \in 1..N : Shape[k] \in {"text", "blank", "include"}
  BY WantedShape, ContentFacts DEF Shape, Files
<1>2. content = [k \in 1..N |-> IF Shape[k] = "blank" THEN Blank ELSE Text("a", k)]
  BY <1>1 DEF content, Content
<1>3. content \in Seq(Items)
  BY ContentFacts
<1>4. Len(content) = N
  <2>1. DOMAIN content = 1..N
    BY <1>2
  <2> HIDE DEF content
  <2>. QED  BY <1>1, <1>3, <2>1
<1>5. ASSUME NEW k \in 1..N
      PROVE  <<content[k], <<"in", k - 1>>, <<"in", k>>>> \in StageSteps
  <2>1. content[k] = InfoLine(k)
    <3>1. content[k] = IF Shape[k] = "blank" THEN Blank ELSE Text("a", k)
      BY <1>2
    <3>2. CASE Shape[k] = "blank"
      <4>1. InfoLine(k) = Blank
        BY <3>2 DEF InfoLine
      <4>. QED  BY <3>1, <3>2, <4>1
    <3>3. CASE Shape[k] # "blank"
      <4>1. InfoLine(k) = Text(Wanted, k)
        BY <3>3 DEF InfoLine
      <4>. QED  BY <3>1, <3>3, <4>1, <1>1
    <3>. QED  BY <3>2, <3>3
  <2>2. content[k] \in Items
    <3> HIDE DEF Items, content
    <3>. QED  BY <1>3, <1>4
  <2>3. <<"in", k - 1>> \in Stages /\ <<"in", k>> \in Stages
    <3>1. k - 1 \in 0..N /\ k \in 0..N
      BY <1>1
    <3>. QED  BY <3>1, StageTypes
  <2>4. StageStep(content[k], <<"in", k - 1>>, <<"in", k>>)
    BY <2>1 DEF StageStep, Reads
  <2>. QED  BY <2>2, <2>3, <2>4, StageIn
<1> DEFINE g == [k \in 0..N |-> <<"in", k>>]
<1>6. /\ g[0] = <<"in", 0>> /\ g[N] = <<"in", N>>
      /\ \A k \in 1..N : g[k - 1] = <<"in", k - 1>> /\ g[k] = <<"in", k>>
  BY <1>1
<1> HIDE DEF g
<1>7. \A k \in 1..Len(content) : <<content[k], g[k - 1], g[k]>> \in StageSteps
  BY <1>4, <1>5, <1>6
<1>. QED  BY <1>4, <1>6, <1>7 DEF Path

\* The text for "b": "a" includes it once, in line K.
LEMMA OuterStages ==
  ASSUME doc \in Documents, doc.preprocessed, Wanted = "b", Once
  PROVE  Path(StageSteps, content, <<"pre", 0>>, <<"post", N>>)
<1> DEFINE M == Len(doc.a)
           ob == FileItems("b", doc.b, Last1, doc.goesBack)
           pre == <<"pre", 0>>
           post == <<"post", N>>
<1>1. /\ M \in Nat \ {0} /\ DOMAIN doc.a = 1..M
      /\ doc.a \in [1..M -> {"text", "blank", "include"}]
      /\ doc.a \in Shapes(MaxLines) /\ MaxLines \in Nat
  <2>1. doc.a \in Shapes(MaxLines) /\ MaxLines \in Nat
    BY ScriptAssumption DEF Documents
  <2>. QED  BY <2>1, ShapeType
<1>2. PICK K \in 1..M : Includes(doc.a) = {K}
  BY <1>1 DEF Once
<1>3. \A k \in 1..M : doc.a[k] = "include" <=> k = K
  BY <1>1, <1>2 DEF Includes
<1>4. ob \in Seq(Items) /\ Path(StageSteps, ob, pre, <<"in", N>>)
  <2>1. Last1 \in Seq(Items)
    BY LastMarks
  <2>2. Shape = doc.b
    BY DEF Shape
  <2>. QED  BY <2>1, <2>2, LastStages, WantedFile
<1>5. /\ N \in Nat \ {0} /\ "a" \in Files
      /\ pre \in Stages /\ post \in Stages /\ <<"in", N>> \in Stages
      /\ pre[1] \in {"pre", "inc", "post"} /\ post[1] \in {"pre", "inc", "post"}
  <2>1. N \in Nat \ {0}
    BY WantedShape
  <2>2. N \in 0..N
    BY <2>1
  <2>. QED  BY <2>1, <2>2, StageTypes DEF Files
<1> HIDE DEF ob, M
<1>6. ASSUME NEW x \in Items, ~NamesWanted(x)
      PROVE  <<x, pre, pre>> \in StageSteps /\ <<x, post, post>> \in StageSteps
  BY <1>5, <1>6, StayingIn
<1>7. ASSUME NEW k \in Nat \ {0}
      PROVE  /\ Text("a", k) \in Items /\ ~NamesWanted(Text("a", k))
             /\ Line(k, "a") \in Items /\ ~NamesWanted(Line(k, "a"))
             /\ Line(k, "a")[1] = "line"
             /\ Blank \in Items /\ ~NamesWanted(Blank)
  BY <1>5, ItemTypes, Kinds DEF NamesWanted
<1>8. ASSUME NEW k \in Nat \ {0}
      PROVE  <<Line(k, "a"), <<"in", N>>, post>> \in StageSteps
  <2>1. StageStep(Line(k, "a"), <<"in", N>>, post)
    BY <1>7 DEF StageStep, Leaves
  <2>. QED  BY <1>5, <1>7, <2>1, StageIn
<1> DEFINE g == [k \in 0..M |-> IF k < K THEN pre ELSE post]
<1>9. ASSUME NEW k \in 1..M
      PROVE  Path(StageSteps, LineItems("a", doc.a, k, ob, doc.goesBack),
                  g[k - 1], g[k])
  <2>0. /\ k \in Nat \ {0} /\ k + 1 \in Nat \ {0} /\ K \in Nat
        /\ g[k - 1] = (IF k - 1 < K THEN pre ELSE post)
        /\ g[k] = (IF k < K THEN pre ELSE post)
    BY <1>1
  <2> HIDE DEF g
  <2>1. CASE doc.a[k] = "include"
    <3>1. g[k - 1] = pre /\ g[k] = post
      BY <1>3, <2>0, <2>1
    <3>2. /\ <<Line(k + 1, "a")>> \in Seq(Items) /\ <<Line(k, "a")>> \in Seq(Items)
          /\ <<Blank>> \in Seq(Items) /\ <<Line(k, "a"), Blank>> \in Seq(Items)
          /\ <<Line(k, "a")>> \o <<Blank>> = <<Line(k, "a"), Blank>>
      BY <1>7, <2>0, Short
    <3>3. /\ Path(StageSteps, <<Line(k + 1, "a")>>, <<"in", N>>, post)
          /\ Path(StageSteps, <<Line(k, "a")>>, <<"in", N>>, post)
          /\ Path(StageSteps, <<Blank>>, post, post)
      BY <1>6, <1>7, <1>8, <2>0, PathOne
    <3>4. Path(StageSteps, ob \o <<Line(k + 1, "a")>>, pre, post)
      BY <1>4, <3>2, <3>3, PathJoin
    <3>5. Path(StageSteps, ob \o <<Line(k, "a"), Blank>>, pre, post)
      <4>1. Path(StageSteps, <<Line(k, "a")>> \o <<Blank>>, <<"in", N>>, post)
        BY <3>2, <3>3, PathJoin
      <4>. QED  BY <1>4, <3>2, <4>1, PathJoin
    <3>. QED  BY <2>1, <3>1, <3>4, <3>5 DEF LineItems
  <2>2. CASE doc.a[k] # "include"
    <3>1. k # K /\ doc.a[k] \in {"text", "blank"}
      BY <1>1, <1>3, <2>2
    <3>2. \/ g[k - 1] = pre /\ g[k] = pre
          \/ g[k - 1] = post /\ g[k] = post
      BY <2>0, <3>1
    <3>3. /\ Path(StageSteps, <<Text("a", k)>>, pre, pre)
          /\ Path(StageSteps, <<Text("a", k)>>, post, post)
          /\ Path(StageSteps, <<Blank>>, pre, pre)
          /\ Path(StageSteps, <<Blank>>, post, post)
      BY <1>6, <1>7, <2>0, PathOne
    <3>. QED  BY <3>1, <3>2, <3>3 DEF LineItems
  <2>. QED  BY <2>1, <2>2
<1>10. <<Line(1, "a"), pre, g[0]>> \in StageSteps
  <2>1. g[0] = pre /\ 1 \in Nat \ {0}
    BY <1>1, <1>2
  <2>. QED  BY <1>6, <1>7, <2>1
<1>11. g[M] = post
  BY <1>1, <1>2
<1> HIDE DEF g, pre, post
<1>12. /\ FileItems("a", doc.a, ob, doc.goesBack) \in Seq(Items)
       /\ Path(StageSteps, FileItems("a", doc.a, ob, doc.goesBack), pre, g[Len(doc.a)])
  BY <1>1, <1>4, <1>5, <1>9, <1>10, FilePath DEF M
<1>13. <<Text(NoFile, 1), pre, pre>> \in StageSteps
  <2>1. Text(NoFile, 1) \in Items /\ ~NamesWanted(Text(NoFile, 1))
    BY ItemTypes, Kinds DEF NamesWanted
  <2>. QED  BY <1>6, <2>1
<1>14. Path(StageSteps, FirstItems(doc) \o FileItems("a", doc.a, ob, doc.goesBack),
            pre, post)
  BY <1>11, <1>12, <1>13, FirstPath DEF M
<1>. QED  BY <1>14 DEF content, Content, ob, Last1, pre, post

\* The stages of a text, from the first line to the last.
LEMMA ContentStages ==
  ASSUME doc \in Documents, Once
  PROVE  \E b \in Ends : Path(StageSteps, content, Stage0, b)
<1>0. doc.preprocessed \in BOOLEAN /\ Wanted \in {"a", "b"}
  BY WantedShape DEF Documents
<1>1. CASE ~doc.preprocessed
  BY <1>1, PlainStages DEF Ends, Stage0
<1>2. CASE doc.preprocessed /\ Wanted = "a"
  <2> DEFINE ob == FileItems("b", doc.b, Last1, doc.goesBack)
  <2>1. doc.b \in Shapes(MaxIncluded) /\ MaxIncluded \in Nat
    BY ScriptAssumption DEF Documents
  <2>2. ob \in Seq(Items)
    <3>1. "a" \in Files /\ "b" \in Files /\ "c" \in Files /\ "a" \in Marks
          /\ "b" \in Marks
      BY DEF Files, Marks
    <3>. QED  BY <2>1, <3>1, LastMarks, FileMarks
  <2>3. \A k \in 1..N : Shape[k] = "include" =>
          Path(StageSteps, ob, <<"in", k - 1>>, <<"inc", k>>)
    BY <1>2, InnerStages
  <2>4. content = FirstItems(doc) \o FileItems(Wanted, Shape, ob, doc.goesBack)
    BY <1>2 DEF content, Content, Last1, Shape
  <2> HIDE DEF ob
  <2>5. /\ FileItems(Wanted, Shape, ob, doc.goesBack) \in Seq(Items)
        /\ Path(StageSteps, FileItems(Wanted, Shape, ob, doc.goesBack),
                <<"pre", 0>>, <<"in", N>>)
    BY <1>2, <2>2, <2>3, WantedFile
  <2>6. <<Text(NoFile, 1), <<"pre", 0>>, <<"pre", 0>>>> \in StageSteps
    <3>1. Text(NoFile, 1) \in Items /\ ~NamesWanted(Text(NoFile, 1))
      BY ItemTypes, Kinds DEF NamesWanted
    <3>2. <<"pre", 0>> \in Stages /\ <<"pre", 0>>[1] \in {"pre", "inc", "post"}
      BY StageTypes
    <3>. QED  BY <3>1, <3>2, StayingIn
  <2>7. Path(StageSteps, content, <<"pre", 0>>, <<"in", N>>)
    BY <2>4, <2>5, <2>6, FirstPath
  <2>. QED  BY <1>2, <2>7 DEF Ends, Stage0
<1>3. CASE doc.preprocessed /\ Wanted = "b"
  BY <1>3, OuterStages DEF Ends, Stage0
<1>. QED  BY <1>0, <1>1, <1>2, <1>3

-----------------------------------------------------------------------------
(***************************************************************************)
(* What has been put out at each stage.                                    *)
(***************************************************************************)

\* The first k lines of the wanted file have their numbers; if numbers run
\* back, those below the last include among them.
Kept(o, k) ==
  \A i \in 1..k :
    (doc.goesBack = "next" \/ \A j \in Includes(Shape) : j <= k => j < i)
      => o[i] = InfoLine(i)

\* There is an empty line to take back.
BlankLeft(o, k) ==
  (\E j \in 1..k : Shape[j] = "blank") => \E p \in DOMAIN o : o[p] = Blank

\* At stage s: the flag w, the line number l and the output o.
At(s, w, l, o) ==
  /\ s[1] = "pre"  => ~w /\ l = 1 /\ o = <<>>
  /\ s[1] = "in"   => /\ w /\ l = s[2] + 1 /\ Len(o) = s[2]
                      /\ Kept(o, s[2]) /\ BlankLeft(o, s[2])
  /\ s[1] = "inc"  => /\ ~w /\ l = s[2] + 1 /\ Len(o) = s[2]
                      /\ Kept(o, s[2]) /\ BlankLeft(o, s[2])
                      /\ Shape[s[2]] = "include"
  /\ s[1] = "skip" => w /\ l = s[2] /\ Len(o) = s[2] - 1
  /\ s[1] = "post" => ~w /\ Len(o) >= N /\ Kept(o, N)

\* The stage behind each line of the text.
Staging(f) ==
  /\ f[0] = Stage0 /\ f[Len(content)] \in Ends
  /\ \A j \in 1..Len(content) : <<content[j], f[j - 1], f[j]>> \in StageSteps
stage == CHOOSE f : Staging(f)

\* The inductive invariant, together with PutsInv.
KeepInv ==
  Named /\ Once /\ CanRewind =>
    IF cur <= Len(content) + 1
    THEN At(stage[cur - 1], inWantedFile, curLine, output)
    ELSE Len(output) >= N /\ Kept(output, N)

\* A text has stages.
LEMMA StagingExists ==
  ASSUME doc \in Documents, Once
  PROVE  Staging(stage)
<1>1. \E f : Staging(f)
  BY ContentStages DEF Path, Staging
<1>. QED  BY <1>1 DEF stage

\* More output does not hurt.
LEMMA KeptAppend ==
  ASSUME doc \in Documents, NEW X, NEW o \in Seq(X), NEW x \in X,
         NEW k \in Nat, k <= Len(o), Kept(o, k)
  PROVE  Kept(Append(o, x), k)
<1>1. \A i \in 1..k : Append(o, x)[i] = o[i]
  OBVIOUS
<1>. QED  BY <1>1 DEF Kept

\* The next line keeps its number.
LEMMA KeptGrows ==
  ASSUME doc \in Documents, NEW X, NEW o \in Seq(X), NEW x \in X,
         NEW k \in Nat \ {0}, Len(o) = k - 1, Kept(o, k - 1), x = InfoLine(k)
  PROVE  Kept(Append(o, x), k)
<1>1. Append(o, x)[k] = x /\ \A i \in 1..k - 1 : Append(o, x)[i] = o[i]
  OBVIOUS
<1>2. SUFFICES ASSUME NEW i \in 1..k,
                      doc.goesBack = "next"
                        \/ \A j \in Includes(Shape) : j <= k => j < i
               PROVE  Append(o, x)[i] = InfoLine(i)
  BY DEF Kept
<1>3. CASE i = k
  BY <1>1, <1>3
<1>4. CASE i # k
  <2>1. i \in 1..k - 1
    BY <1>4
  <2>2. \A j \in Includes(Shape) : j <= k - 1 => j <= k
    <3>1. \A j \in Includes(Shape) : j \in Nat
      BY WantedShape DEF Includes
    <3>. QED  BY <3>1
  <2>3. o[i] = InfoLine(i)
    BY <1>2, <2>1, <2>2 DEF Kept
  <2>. QED  BY <1>1, <2>1, <2>3
<1>. QED  BY <1>3, <1>4

\* An empty line stays, and an empty line of the file is one.
LEMMA BlankGrows ==
  ASSUME doc \in Documents, NEW X, NEW o \in Seq(X), NEW x \in X,
         NEW k \in Nat \ {0}, BlankLeft(o, k - 1),
         Shape[k] = "blank" => x = Blank
  PROVE  BlankLeft(Append(o, x), k)
<1>1. /\ Len(o) + 1 \in DOMAIN Append(o, x) /\ Append(o, x)[Len(o) + 1] = x
      /\ \A p \in DOMAIN o : p \in DOMAIN Append(o, x) /\ Append(o, x)[p] = o[p]
  OBVIOUS
<1>2. SUFFICES ASSUME NEW j \in 1..k, Shape[j] = "blank"
               PROVE  \E p \in DOMAIN Append(o, x) : Append(o, x)[p] = Blank
  BY DEF BlankLeft
<1>3. CASE j = k
  BY <1>1, <1>2, <1>3
<1>4. CASE j # k
  <2>1. j \in 1..k - 1
    BY <1>4
  <2>2. PICK p \in DOMAIN o : o[p] = Blank
    BY <1>2, <2>1 DEF BlankLeft
  <2>. QED  BY <1>1, <2>2
<1>. QED  BY <1>3, <1>4

\* After an include that numbers run back over, no line above has to be kept.
LEMMA NothingKept ==
  ASSUME doc \in Documents, NEW o, NEW k \in 1..N, Shape[k] = "include",
         doc.goesBack = "same"
  PROVE  Kept(o, k)
<1>1. k \in Includes(Shape) /\ k <= k /\ \A i \in 1..k : ~(k < i)
  BY WantedShape DEF Includes
<1>. QED  BY <1>1 DEF Kept

\* A directive of another file, while the wanted one is not read.
LEMMA MacroElsewhere ==
  ASSUME PutsInv, ~needSourceFile, NEW n, NEW f, ReadLineMacro(n, f), f # filename
  PROVE  /\ inWantedFile' = FALSE
         /\ ~inWantedFile => output' = output /\ curLine' = curLine
         /\ inWantedFile => /\ output' = Append(output, Include(f))
                            /\ curLine' = curLine + 1
BY DEF ReadLineMacro

\* A directive of the wanted file, coming from another one.
LEMMA MacroWanted ==
  ASSUME PutsInv, ~needSourceFile, ~inWantedFile,
         NEW n \in Nat \ {0}, NEW f, ReadLineMacro(n, f), f = filename
  PROVE  /\ inWantedFile' = TRUE /\ curLine' = n
         /\ ~(n < curLine) => output' = output
         /\ n < curLine => output' = RemoveEmptyLines(output, curLine - n)
BY DEF ReadLineMacro

\* What a directive and what another line make ReadLine do.
LEMMA LineRead ==
  ASSUME PutsInv, Named, ReadLine, cur <= Len(content), NEW n, NEW f,
         content[cur] = Line(n, f)
  PROVE  /\ ReadLineMacro(n, f) /\ filename = Wanted /\ doc.preprocessed
         /\ ~needSourceFile
<1>1. content[cur][1] = "line" /\ content[cur][2] = n /\ content[cur][3] = f
  BY Kinds
<1>2. ReadLineMacro(n, f)
  BY <1>1 DEF ReadLine
<1>3. doc.preprocessed
  <2>1. doc \in Documents /\ cur \in 1..Len(content)
    BY ContentFacts DEF PutsInv
  <2>. QED  BY <1>1, <2>1, PlainContent DEF content
<1>. QED  BY <1>2, <1>3 DEF PutsInv, WhatIsWanted

\* One line of the text leads from what holds at one stage to the next.
LEMMA AtStep ==
  ASSUME PutsInv, PutsInv', Named, Once, CanRewind, ReadLine, cur <= Len(content),
         NEW s, NEW t, <<content[cur], s, t>> \in StageSteps,
         At(s, inWantedFile, curLine, output)
  PROVE  At(t, inWantedFile', curLine', output')
<1> DEFINE x == content[cur]
<1>1. /\ doc \in Documents /\ output \in Seq(Puts) /\ output' \in Seq(Puts')
      /\ curLine \in Nat \ {0} /\ doc' = doc /\ Len(output) \in Nat
  <2>1. output \in Seq(Puts) /\ Len(output) \in Nat
    BY DEF PutsInv
  <2>. QED  BY <2>1 DEF PutsInv, ReadLine
<1>2. /\ x \in Items /\ s \in Stages /\ t \in Stages /\ StageStep(x, s, t)
  BY DEF StageSteps
<1>3. N \in Nat \ {0} /\ \A k \in 1..N : Shape[k] \in {"text", "blank", "include"}
  BY <1>1, WantedShape
<1>4. x[1] # "line" => ReadText(x)
  BY DEF ReadLine
<1>5. \A n, f : x = Line(n, f) =>
        /\ ReadLineMacro(n, f) /\ filename = Wanted /\ doc.preprocessed
        /\ ~needSourceFile
  BY LineRead
<1>6. \A n, f : x = Line(n, f) => x[1] = "line" /\ x[2] = n /\ x[3] = f
  BY Kinds
<1>7. x[1] = "line" => \E n \in Nat \ {0}, f \in Files : x = Line(n, f)
  BY <1>2, ItemCases, Kinds
<1> HIDE DEF x
<1>8. CASE Stays(x, s, t)
  <2>1. t = s /\ s[1] \in {"pre", "inc", "post"} /\ ~NamesWanted(x)
    BY <1>8 DEF Stays
  <2>2. ~inWantedFile
    BY <2>1 DEF At
  <2>3. inWantedFile' = inWantedFile /\ curLine' = curLine /\ output' = output
    <3>1. CASE x[1] = "line"
      <4>1. PICK n \in Nat \ {0}, f \in Files : x = Line(n, f)
        BY <1>7, <3>1
      <4>2. ReadLineMacro(n, f) /\ f # filename /\ ~needSourceFile
        BY <1>5, <1>6, <2>1, <4>1 DEF NamesWanted
      <4>. QED  BY <2>2, <4>2, MacroElsewhere DEF PutsInv
    <3>2. CASE x[1] # "line"
      BY <1>4, <2>2, <3>2 DEF ReadText
    <3>. QED  BY <3>1, <3>2
  <2>. QED  BY <2>1, <2>3
<1>9. CASE Enters(x, s, t)
  <2>1. s = <<"pre", 0>> /\ x = Line(1, Wanted) /\ t = <<"in", 0>>
    BY <1>9 DEF Enters
  <2>2. s[1] = "pre" /\ t[1] = "in" /\ t[2] = 0
    BY <2>1
  <2>3. ~inWantedFile /\ curLine = 1 /\ output = <<>>
    BY <2>2 DEF At
  <2>4. inWantedFile' = TRUE /\ curLine' = 1 /\ output' = output
    <3>1. ReadLineMacro(1, Wanted) /\ Wanted = filename /\ ~needSourceFile
      BY <1>5, <2>1
    <3>2. 1 \in Nat \ {0}
      OBVIOUS
    <3>3. ~inWantedFile /\ ~(1 < curLine)
      BY <2>3
    <3>. QED  BY <3>1, <3>2, <3>3, MacroWanted
  <2>5. Kept(output', 0) /\ BlankLeft(output', 0) /\ Len(output') = 0
    BY <2>3, <2>4 DEF Kept, BlankLeft
  <2>. QED  BY <2>2, <2>4, <2>5 DEF At
<1>10. ASSUME NEW k \in 1..N, Reads(x, s, t, k)
       PROVE  At(t, inWantedFile', curLine', output')
  <2>1. s = <<"in", k - 1>> /\ x = InfoLine(k) /\ t = <<"in", k>>
    BY <1>10 DEF Reads
  <2>2. s[1] = "in" /\ s[2] = k - 1 /\ t[1] = "in" /\ t[2] = k /\ k \in Nat \ {0}
        /\ (k - 1) + 1 = k
    BY <1>3, <2>1
  <2>3. inWantedFile /\ curLine = k /\ Len(output) = k - 1
        /\ Kept(output, k - 1) /\ BlankLeft(output, k - 1)
    BY <2>2 DEF At
  <2>4. x[1] # "line"
    <3>1. x = Blank \/ x = Text(Wanted, k) \/ \E f : x = Include(f)
      BY <2>1 DEF InfoLine
    <3>. QED  BY <3>1, Kinds
  <2>5. inWantedFile' = inWantedFile /\ curLine' = curLine + 1
        /\ output' = Append(output, x)
    BY <1>4, <2>3, <2>4 DEF ReadText
  <2>6. output \in Seq(Puts \cup {x}) /\ x \in Puts \cup {x}
    <3> HIDE DEF Puts
    <3>. QED  BY <1>1
  <2>7. Kept(output', k)
    BY <1>1, <2>1, <2>2, <2>3, <2>5, <2>6, KeptGrows
  <2>8. BlankLeft(output', k)
    <3>1. Shape[k] = "blank" => x = Blank
      BY <2>1 DEF InfoLine
    <3>. QED  BY <1>1, <2>2, <2>3, <2>5, <2>6, <3>1, BlankGrows
  <2>9. Len(output') = k
    BY <2>2, <2>3, <2>5, <2>6
  <2>. QED  BY <2>2, <2>3, <2>5, <2>7, <2>8, <2>9 DEF At
<1>11. ASSUME NEW k \in 1..N, GoesInto(x, s, t, k)
       PROVE  At(t, inWantedFile', curLine', output')
  <2>1. s = <<"in", k - 1>> /\ x = Line(1, Other) /\ t = <<"inc", k>>
        /\ Shape[k] = "include"
    BY <1>11 DEF GoesInto
  <2>2. s[1] = "in" /\ s[2] = k - 1 /\ t[1] = "inc" /\ t[2] = k /\ k \in Nat \ {0}
        /\ (k - 1) + 1 = k
    BY <1>3, <2>1
  <2>3. inWantedFile /\ curLine = k /\ Len(output) = k - 1
        /\ Kept(output, k - 1) /\ BlankLeft(output, k - 1)
    BY <2>2 DEF At
  <2>4. ReadLineMacro(1, Other) /\ filename = Wanted /\ doc.preprocessed
        /\ Other # filename /\ Other \in Files /\ ~needSourceFile
    BY <1>1, <1>5, <2>1, WantedShape
  <2> DEFINE y == Include(Other)
  <2>5. inWantedFile' = FALSE /\ curLine' = curLine + 1
        /\ output' = Append(output, y)
    BY <2>3, <2>4, MacroElsewhere
  <2>6. y = InfoLine(k)
    BY <2>1, <2>4 DEF InfoLine, Other
  <2>7. y \in Puts
    BY <2>4, PutsAdded
  <2> HIDE DEF y
  <2>8. Kept(output', k)
    BY <1>1, <2>2, <2>3, <2>5, <2>6, <2>7, KeptGrows
  <2>9. BlankLeft(output', k)
    BY <1>1, <2>1, <2>2, <2>3, <2>5, <2>7, BlankGrows
  <2>10. Len(output') = k
    BY <1>1, <2>2, <2>3, <2>5, <2>7
  <2>. QED  BY <2>1, <2>2, <2>3, <2>5, <2>8, <2>9, <2>10 DEF At
<1>12. ASSUME NEW k \in 1..N, GoesOn(x, s, t, k)
       PROVE  At(t, inWantedFile', curLine', output')
  <2>1. s = <<"inc", k>> /\ x = Line(k + 1, Wanted) /\ t = <<"in", k>>
    BY <1>12 DEF GoesOn
  <2>2. s[1] = "inc" /\ s[2] = k /\ t[1] = "in" /\ t[2] = k /\ k + 1 \in Nat \ {0}
    BY <1>3, <2>1
  <2>3. ~inWantedFile /\ curLine = k + 1 /\ Len(output) = k
        /\ Kept(output, k) /\ BlankLeft(output, k)
    BY <2>2 DEF At
  <2>4. inWantedFile' = TRUE /\ curLine' = k + 1 /\ output' = output
    <3>1. ReadLineMacro(k + 1, Wanted) /\ Wanted = filename /\ ~needSourceFile
          /\ ~(k + 1 < curLine)
      BY <1>1, <1>3, <1>5, <2>1, <2>3
    <3>. QED  BY <3>1, <2>2, <2>3, MacroWanted
  <2>. QED  BY <2>2, <2>3, <2>4 DEF At
<1>13. ASSUME NEW k \in 1..N, GoesBack(x, s, t, k)
       PROVE  At(t, inWantedFile', curLine', output')
  <2>1. s = <<"inc", k>> /\ x = Line(k, Wanted) /\ t = <<"skip", k>>
        /\ doc.goesBack = "same" /\ Shape[k] = "include"
    BY <1>13 DEF GoesBack
  <2>2. s[1] = "inc" /\ s[2] = k /\ t[1] = "skip" /\ t[2] = k /\ k \in Nat \ {0}
    BY <1>3, <2>1
  <2>3. ~inWantedFile /\ curLine = k + 1 /\ Len(output) = k
        /\ Kept(output, k) /\ BlankLeft(output, k)
    BY <2>2 DEF At
  <2>4. ReadLineMacro(k, Wanted) /\ Wanted = filename /\ doc.preprocessed
        /\ ~needSourceFile
    BY <1>5, <2>1
  <2>5. curLine - k = 1 /\ k < curLine /\ 1 \in Nat
    BY <2>2, <2>3
  <2>6. inWantedFile' = TRUE /\ curLine' = k
        /\ output' = RemoveEmptyLines(output, curLine - k)
    BY <2>2, <2>3, <2>4, <2>5, MacroWanted
  <2>7. output' = RemoveOne(output)
    <3>1. RemoveEmptyLines(output, 1) = RemoveOne(output)
      BY <1>1, <2>5, PutsAdded, RemoveEmptyLinesType
    <3>. QED  BY <2>5, <2>6, <3>1
  <2>8. \E p \in DOMAIN output : output[p] = Blank
    <3>1. k \in Includes(Shape)
      BY <1>1, <2>1, WantedShape DEF Includes
    <3>2. PICK j \in DOMAIN Shape : Shape[j] = "blank"
                                    /\ \A i \in Includes(Shape) : j < i
      BY <2>1, <2>4, <3>1 DEF CanRewind
    <3>3. j \in 1..k
      <4>1. j \in 1..N /\ j < k
        BY <1>1, <3>1, <3>2, WantedShape
      <4>. QED  BY <4>1
    <3>. QED  BY <2>3, <3>2, <3>3 DEF BlankLeft
  <2>9. Len(output') = k - 1
    <3>1. Len(RemoveOne(output)) = Len(output) - 1
      BY <1>1, <2>8, PutsAdded, RemoveOneType
    <3>. QED  BY <2>3, <2>7, <3>1
  <2>. QED  BY <2>2, <2>6, <2>9 DEF At
<1>14. ASSUME NEW k \in 1..N, Skips(x, s, t, k)
       PROVE  At(t, inWantedFile', curLine', output')
  <2>1. s = <<"skip", k>> /\ x = Blank /\ t = <<"in", k>>
        /\ doc.goesBack = "same" /\ Shape[k] = "include"
    BY <1>14 DEF Skips
  <2>2. s[1] = "skip" /\ s[2] = k /\ t[1] = "in" /\ t[2] = k /\ k \in Nat \ {0}
    BY <1>3, <2>1
  <2>3. inWantedFile /\ curLine = k /\ Len(output) = k - 1
    BY <2>2 DEF At
  <2>4. inWantedFile' = inWantedFile /\ curLine' = curLine + 1
        /\ output' = Append(output, Blank)
    BY <1>4, <2>1, <2>3, Kinds DEF ReadText
  <2>5. Len(output') = k /\ k \in DOMAIN output' /\ output'[k] = Blank
    <3>1. Blank \in Puts
      BY PutsAdded
    <3> HIDE DEF Puts
    <3>. QED  BY <1>1, <2>2, <2>3, <2>4, <3>1
  <2>6. Kept(output', k)
    BY <1>1, <2>1, NothingKept
  <2>7. BlankLeft(output', k)
    BY <2>5 DEF BlankLeft
  <2>. QED  BY <2>2, <2>3, <2>4, <2>5, <2>6, <2>7 DEF At
<1>15. CASE Leaves(x, s, t)
  <2>1. s = <<"in", N>> /\ x[1] = "line" /\ ~NamesWanted(x) /\ t = <<"post", N>>
    BY <1>15 DEF Leaves
  <2>2. s[1] = "in" /\ s[2] = N /\ t[1] = "post"
    BY <2>1
  <2>3. inWantedFile /\ Len(output) = N /\ Kept(output, N)
    BY <2>2 DEF At
  <2>4. PICK n \in Nat \ {0}, f \in Files : x = Line(n, f)
    BY <1>7, <2>1
  <2>5. ReadLineMacro(n, f) /\ f # filename /\ ~needSourceFile
    BY <1>5, <1>6, <2>1, <2>4 DEF NamesWanted
  <2>6. inWantedFile' = FALSE /\ output' = Append(output, Include(f))
    BY <2>3, <2>5, MacroElsewhere
  <2>7. Include(f) \in Puts
    BY PutsAdded
  <2>8. Kept(output', N)
    BY <1>1, <1>3, <2>3, <2>6, <2>7, KeptAppend
  <2>9. Len(output') >= N
    BY <1>1, <1>3, <2>3, <2>6, <2>7
  <2>. QED  BY <2>2, <2>6, <2>8, <2>9 DEF At
<1>. QED  BY <1>2, <1>8, <1>9, <1>10, <1>11, <1>12, <1>13, <1>14, <1>15 DEF StageStep

\* One call of readLine.
LEMMA KeepStep ==
  ASSUME PutsInv, PutsInv', KeepInv, [Next]_vars
  PROVE  KeepInv'
<1>1. CASE UNCHANGED vars
  <2>1. At(stage[cur - 1], inWantedFile, curLine, output)'
          = At(stage[cur - 1], inWantedFile, curLine, output)
    BY <1>1 DEF vars, At, Kept, BlankLeft, InfoLine, Includes, N, Shape, Wanted,
                stage, Staging, Stage0, Ends, content, StageSteps, Stages, StageStep,
                Stays, Enters, Reads, GoesInto, GoesOn, GoesBack, Skips, Leaves,
                NamesWanted, Other
  <2>. QED  BY <1>1, <2>1 DEF vars, KeepInv, Named, Once, CanRewind, Kept, InfoLine,
                Includes, N, Shape, Wanted, content
<1>2. CASE ReadLine
  <2>1. doc' = doc /\ cur' = cur + 1 /\ cur <= Len(content) + 1
        /\ doc \in Documents /\ cur \in Nat \ {0} /\ Len(content) \in Nat
        /\ output \in Seq(Puts)
    BY <1>2, ContentFacts DEF ReadLine, Done, PutsInv
  <2>2. /\ content' = content /\ Once' = Once /\ CanRewind' = CanRewind /\ Named' = Named
        /\ stage' = stage /\ N' = N
    BY <2>1 DEF content, Named, Once, CanRewind, InfoLine, Includes, N, Shape, Wanted,
                stage, Staging, Stage0, Ends, StageSteps, Stages, StageStep,
                Stays, Enters, Reads, GoesInto, GoesOn, GoesBack, Skips, Leaves,
                NamesWanted, Other
  <2>3. SUFFICES ASSUME Named, Once, CanRewind
                 PROVE  (IF cur <= Len(content) + 1
                         THEN At(stage[cur - 1], inWantedFile, curLine, output)
                         ELSE Len(output) >= N /\ Kept(output, N))'
    BY <2>2 DEF KeepInv
  <2>4. /\ At(stage[cur - 1], inWantedFile, curLine, output)
        /\ Staging(stage)
    BY <2>1, <2>3, StagingExists DEF KeepInv
  <2>5. CASE cur <= Len(content)
    <3>1. <<content[cur], stage[cur - 1], stage[cur]>> \in StageSteps
      BY <2>1, <2>4, <2>5 DEF Staging
    <3>2. At(stage[cur], inWantedFile', curLine', output')
      BY <1>2, <2>3, <2>4, <2>5, <3>1, AtStep
    <3>3. cur' - 1 = cur /\ cur' <= Len(content)' + 1
      BY <2>1, <2>2, <2>5
    <3>4. At(stage[cur - 1], inWantedFile, curLine, output)'
      BY <2>1, <2>2, <3>2, <3>3 DEF At, Kept, BlankLeft, InfoLine, Includes,
                                    Shape, Wanted
    <3>. QED  BY <3>3, <3>4
  <2>6. CASE ~(cur <= Len(content))
    <3>1. ReadText(Nul) /\ cur - 1 = Len(content) /\ ~(cur' <= Len(content)' + 1)
      BY <1>2, <2>1, <2>2, <2>6 DEF ReadLine
    <3>2. stage[cur - 1] = <<"in", N>> \/ stage[cur - 1] = <<"post", N>>
      BY <2>4, <3>1 DEF Staging, Ends
    <3>3. N \in Nat /\ Nul \in Puts
      BY <2>1, WantedShape, PutsAdded
    <3>4. Len(output') >= N /\ Kept(output', N)
      <4>1. CASE stage[cur - 1] = <<"in", N>>
        <5>1. stage[cur - 1][1] = "in" /\ stage[cur - 1][2] = N
          BY <4>1
        <5>2. inWantedFile /\ Len(output) = N /\ Kept(output, N)
          BY <2>4, <5>1 DEF At
        <5>3. output' = Append(output, Nul)
          BY <3>1, <5>2 DEF ReadText
        <5>4. Kept(output', N)
          BY <2>1, <3>3, <5>2, <5>3, KeptAppend
        <5>5. Len(output') >= N
          BY <2>1, <3>3, <5>2, <5>3
        <5>. QED  BY <5>4, <5>5
      <4>2. CASE stage[cur - 1] = <<"post", N>>
        <5>1. stage[cur - 1][1] = "post"
          BY <4>2
        <5>2. ~inWantedFile /\ Len(output) >= N /\ Kept(output, N)
          BY <2>4, <5>1 DEF At
        <5>. QED  BY <3>1, <5>2 DEF ReadText
      <4>. QED  BY <3>2, <4>1, <4>2
    <3>5. (Len(output) >= N /\ Kept(output, N))'
      BY <2>1, <2>2, <3>4 DEF Kept, InfoLine, Includes, Shape, Wanted
    <3>. QED  BY <3>1, <3>5
  <2>. QED  BY <2>5, <2>6
<1>. QED  BY <1>1, <1>2 DEF Next

\* Nothing has been put out, and a plain string starts in its only file.
LEMMA KeepInit ==
  ASSUME Init PROVE KeepInv
<1>1. doc \in Documents /\ doc.preprocessed \in BOOLEAN
      /\ (~doc.preprocessed => doc.sourcefile = "")
  BY DEF Init, Documents
<1>2. SUFFICES ASSUME Named, Once
               PROVE  cur <= Len(content) + 1
                      /\ At(stage[cur - 1], inWantedFile, curLine, output)
  BY DEF KeepInv
<1>3. Len(content) \in Nat /\ Staging(stage)
  BY <1>1, <1>2, ContentFacts, StagingExists
<1>4. cur = 1 /\ curLine = 1 /\ output = <<>>
  BY DEF Init
<1>5. cur - 1 = 0 /\ cur <= Len(content) + 1
  BY <1>3, <1>4
<1>6. stage[cur - 1] = Stage0
  BY <1>3, <1>5 DEF Staging
<1>7. inWantedFile <=> doc.sourcefile = ""
  BY Zenon DEF Init
<1>8. CASE doc.preprocessed
  <2>1. Stage0 = <<"pre", 0>>
    BY <1>8 DEF Stage0
  <2>2. Stage0[1] = "pre"
    BY <2>1
  <2>3. ~inWantedFile
    BY <1>2, <1>7, <1>8 DEF Named
  <2>. QED  BY <1>4, <1>5, <1>6, <2>2, <2>3 DEF At
<1>9. CASE ~doc.preprocessed
  <2>1. Stage0 = <<"in", 0>>
    BY <1>9 DEF Stage0
  <2>2. Stage0[1] = "in" /\ Stage0[2] = 0
    BY <2>1
  <2>3. inWantedFile
    BY <1>1, <1>7, <1>9
  <2>4. Len(output) = 0 /\ Kept(output, 0) /\ BlankLeft(output, 0)
    BY <1>4 DEF Kept, BlankLeft
  <2>. QED  BY <1>4, <1>5, <1>6, <2>2, <2>3, <2>4 DEF At
<1>. QED  BY <1>8, <1>9

\* In the text put out for a position with a file name, or for a text without
\* directives, every line below the last #include has the number it has in its
\* file, and every line if the preprocessor's numbers never run back: however
\* many files are included, wherever they are.
THEOREM NumbersKept == Spec => []LinesKeepTheirNumbers
<1>1. Init => PutsInv /\ KeepInv
  BY PutsInit, KeepInit
<1>2. PutsInv /\ KeepInv /\ [Next]_vars => (PutsInv /\ KeepInv)'
  BY PutsStep, KeepStep
<1>3. PutsInv /\ KeepInv => LinesKeepTheirNumbers
  <2> SUFFICES ASSUME PutsInv, KeepInv, Done, Named, Once, CanRewind,
                      NEW k \in DOMAIN Shape,
                      doc.goesBack = "next" \/ \A i \in Includes(Shape) : i < k
               PROVE  k \in DOMAIN output /\ output[k] = InfoLine(k)
    BY DEF LinesKeepTheirNumbers, NumbersAreKept
  <2>1. /\ doc \in Documents /\ output \in Seq(Puts) /\ Len(content) \in Nat
        /\ cur \in Nat
    BY ContentFacts DEF PutsInv
  <2>2. Len(output) >= N /\ Kept(output, N)
    <3>1. ~(cur <= Len(content) + 1)
      BY <2>1 DEF Done
    <3>. QED  BY <3>1 DEF KeepInv
  <2>3. k \in 1..N /\ N \in Nat
    BY <2>1, WantedShape
  <2>4. k \in DOMAIN output
    <3>1. DOMAIN output = 1..Len(output) /\ Len(output) \in Nat
      BY <2>1
    <3>. QED  BY <2>2, <2>3, <3>1
  <2>5. output[k] = InfoLine(k)
    BY <2>2, <2>3 DEF Kept
  <2>. QED  BY <2>4, <2>5
<1>. QED  BY <1>1, <1>2, <1>3, PTL DEF Spec
=============================================================================
