----------------------------- MODULE TextProofs ------------------------------
(***************************************************************************)
(* What the library makes of texts, for texts of any length: strings that  *)
(* are read out of JSON, release notes that are sanitized or escaped, and  *)
(* a manifest that is searched for its members.                            *)
(***************************************************************************)
EXTENDS Texts, Notes, Escape, Manifest, SequenceTheorems, FiniteSetTheorems,
        WellFoundedInduction, TLAPS

-----------------------------------------------------------------------------
\* Induction over the numbers, for a set.
LEMMA NumberInduction ==
  ASSUME NEW S, 0 \in S, \A i \in Nat : i \in S => i + 1 \in S
  PROVE  Nat \subseteq S
<1>1. SUFFICES ASSUME NEW k \in Nat, k \notin S
               PROVE  FALSE
  OBVIOUS
<1> DEFINE T == {i \in Nat : i \notin S}
<1>2. T \subseteq Nat /\ k \in T
  BY <1>1
<1>3. PICK i \in T : \A j \in T : <<j, i>> \notin OpToRel(<, Nat)
  BY <1>2, NatLessThanWellFounded, WFMin
<1>4. i \in Nat /\ i \notin S
  OBVIOUS
<1>5. i # 0 /\ i - 1 \in Nat /\ i = (i - 1) + 1 /\ i - 1 \in T
  BY <1>4
<1>6. <<i - 1, i>> \in Nat \X Nat /\ <<i - 1, i>>[1] < <<i - 1, i>>[2]
  BY <1>4, <1>5
<1>7. <<i - 1, i>> \in OpToRel(<, Nat)
  BY <1>6 DEF OpToRel
<1> QED
  BY <1>3, <1>5, <1>7

\* A recursive function on 0..n: it starts with a and goes on by step.
Follows(f, n, D, a, step) ==
    f \in [0..n -> D] /\ f[0] = a /\ \A i \in 1..n : f[i] = step[i][f[i - 1]]

\* There is such a function for every start and every step.
LEMMA Recursion ==
  ASSUME NEW D, NEW a \in D, NEW n \in Nat, NEW step \in [1..n -> [D -> D]]
  PROVE  \E f : Follows(f, n, D, a, step)
<1> DEFINE S == {m \in Nat : m <= n => \E f : Follows(f, m, D, a, step)}
<1>1. 0 \in S
  <2>1. Follows([i \in 0..0 |-> a], 0, D, a, step)
    BY DEF Follows
  <2> QED
    BY <2>1
<1>2. ASSUME NEW m \in Nat, m \in S
      PROVE  m + 1 \in S
  <2> SUFFICES ASSUME m + 1 <= n
               PROVE  \E f : Follows(f, m + 1, D, a, step)
    OBVIOUS
  <2>1. PICK f : Follows(f, m, D, a, step)
    BY <1>2
  <2> DEFINE g == [i \in 0..(m + 1) |-> IF i = m + 1 THEN step[m + 1][f[m]] ELSE f[i]]
  <2>2. /\ step[m + 1][f[m]] \in D
        /\ g \in [0..(m + 1) -> D]
        /\ g[m + 1] = step[m + 1][f[m]]
        /\ \A i \in 0..m : g[i] = f[i]
    BY <2>1 DEF Follows
  <2>3. ASSUME NEW i \in 1..(m + 1)
        PROVE  g[i] = step[i][g[i - 1]]
    <3> HIDE DEF g
    <3>1. CASE i = m + 1
      BY <3>1, <2>2
    <3>2. CASE i # m + 1
      <4>1. i \in 1..m /\ i \in 0..m /\ i - 1 \in 0..m
        BY <3>2
      <4> QED
        BY <4>1, <2>1, <2>2 DEF Follows
    <3> QED
      BY <3>1, <3>2
  <2>4. Follows(g, m + 1, D, a, step)
    BY <2>1, <2>2, <2>3 DEF Follows
  <2> QED
    BY <2>4
<1>3. n \in S
  <2> HIDE DEF S
  <2> QED
    BY <1>1, <1>2, NumberInduction
<1> QED
  BY <1>3

\* FlattenSeq is any function that puts one sequence after the other.
Joins(f, ss, D) ==
    /\ f[0] = <<>>
    /\ \A i \in 1..Len(ss) : /\ f[i - 1] \in Seq(D)
                            /\ f[i] = f[i - 1] \o ss[i]

\* FlattenSeq is the last value of such a function.
LEMMA FlattenIs ==
  ASSUME NEW D, NEW ss \in Seq(Seq(D)), NEW f, Joins(f, ss, D)
  PROVE  FlattenSeq(ss) = f[Len(ss)]
<1> DEFINE n == Len(ss)
<1>1. /\ n \in Nat /\ n = Len(ss)
      /\ n = 0 => ss = <<>>
      /\ \A i \in 1..n : ss[i] \in Seq(D)
  OBVIOUS
<1>2. /\ f[0] = <<>>
      /\ \A i \in 1..n : f[i - 1] \in Seq(D) /\ f[i] = f[i - 1] \o ss[i]
  BY DEF Joins
<1> DEFINE Solves(h) ==
             h = [i \in 1..n |-> IF i = 1 THEN ss[i] ELSE h[i - 1] \o ss[i]]
           flatten == CHOOSE h : Solves(h)
<1>3. n # 0 => FlattenSeq(ss) = flatten[n]
  BY DEF FlattenSeq
<1> HIDE DEF n
<1>4. n # 0 => 1 \in 1..n /\ ss[1] \in Seq(D) /\ f[1] = ss[1]
  <2>1. SUFFICES ASSUME n # 0
                 PROVE  1 \in 1..n /\ ss[1] \in Seq(D) /\ f[1] = ss[1]
    OBVIOUS
  <2>2. 1 \in 1..n
    BY <1>1, <2>1
  <2>3. ss[1] \in Seq(D) /\ f[1] = f[0] \o ss[1]
    <3>1. PICK j \in 1..n : j = 1
      BY <2>2
    <3>2. j - 1 = 0
      BY <3>1
    <3> QED
      BY <1>1, <1>2, <3>1, <3>2
  <2>4. <<>> \o ss[1] = ss[1]
    BY <2>3
  <2> QED
    BY <1>2, <2>2, <2>3, <2>4
<1>5. CASE n = 0
  BY <1>5, <1>1, <1>2 DEF FlattenSeq
<1>6. CASE n # 0
  <2>1. Solves([i \in 1..n |-> f[i]])
    <3> DEFINE g == [i \in 1..n |-> f[i]]
    <3>1. ASSUME NEW i \in 1..n
          PROVE  g[i] = IF i = 1 THEN ss[i] ELSE g[i - 1] \o ss[i]
      <4>1. CASE i = 1
        BY <4>1, <1>4
      <4>2. CASE i # 1
        <5>1. i - 1 \in 1..n /\ g[i] = f[i] /\ g[i - 1] = f[i - 1]
          BY <1>1, <4>2
        <5> QED
          BY <5>1, <4>2, <1>2
      <4> QED
        BY <4>1, <4>2
    <3> QED
      BY <3>1
  <2>2. Solves(flatten)
    <3> HIDE DEF Solves
    <3> QED
      BY <2>1
  <2>3. ASSUME NEW i \in 1..n
        PROVE  flatten[i] = IF i = 1 THEN ss[i] ELSE flatten[i - 1] \o ss[i]
    <3> HIDE DEF flatten
    <3> QED
      BY <2>2
  <2> HIDE DEF flatten
  <2> DEFINE S == {i \in Nat : i + 1 <= n => flatten[i + 1] = f[i + 1]}
  <2>4. 0 \in S
    <3>1. flatten[1] = ss[1]
      BY <1>4, <1>6, <2>3
    <3>2. 0 + 1 = 1 /\ 0 \in Nat
      OBVIOUS
    <3> QED
      BY <1>4, <1>6, <3>1, <3>2
  <2>5. ASSUME NEW i \in Nat, i \in S
        PROVE  i + 1 \in S
    <3> SUFFICES ASSUME (i + 1) + 1 <= n
                 PROVE  flatten[(i + 1) + 1] = f[(i + 1) + 1]
      OBVIOUS
    <3> DEFINE j == (i + 1) + 1
    <3>1. /\ j \in 1..n /\ j - 1 = i + 1 /\ j # 1
          /\ flatten[i + 1] = f[i + 1]
      BY <1>1, <2>5
    <3> HIDE DEF j
    <3>2. flatten[j] = flatten[j - 1] \o ss[j] /\ f[j] = f[j - 1] \o ss[j]
      BY <3>1, <2>3, <1>2
    <3>3. flatten[j] = f[j]
      BY <3>1, <3>2
    <3> QED
      BY <3>3 DEF j
  <2>6. Nat \subseteq S
    <3> HIDE DEF S
    <3> QED
      BY <2>4, <2>5, NumberInduction
  <2>7. n - 1 \in Nat /\ (n - 1) + 1 = n
    BY <1>1, <1>6
  <2>8. PICK k \in Nat : k + 1 = n
    BY <2>7
  <2>9. flatten[k + 1] = f[k + 1]
    BY <1>1, <2>6, <2>8
  <2> QED
    BY <1>1, <1>3, <1>6, <2>8, <2>9
<1> QED
  BY <1>5, <1>6, <1>1 DEF n

\* FlattenSeq puts one sequence after the other.
LEMMA FlattenSteps ==
  ASSUME NEW D, NEW ss \in Seq(Seq(D))
  PROVE  \E f \in [0..Len(ss) -> Seq(D)] :
             /\ f[0] = <<>>
             /\ \A i \in 1..Len(ss) : f[i] = f[i - 1] \o ss[i]
             /\ FlattenSeq(ss) = f[Len(ss)]
<1> DEFINE n == Len(ss)
           C == Seq(D)
           none == <<>>
           step == [i \in 1..n |-> [x \in C |-> x \o ss[i]]]
<1>1. n \in Nat /\ \A i \in 1..n : ss[i] \in C
  OBVIOUS
<1>2. none \in C /\ \A x, y \in C : x \o y \in C
  OBVIOUS
<1>3. /\ step \in [1..n -> [C -> C]]
      /\ \A i \in 1..n : \A x \in C : step[i][x] = x \o ss[i]
  <2> HIDE DEF n, C
  <2> QED
    BY <1>1, <1>2
<1>4. PICK f : Follows(f, n, C, none, step)
  <2>1. n \in Nat /\ none \in C /\ step \in [1..n -> [C -> C]]
    BY <1>1, <1>2, <1>3
  <2> HIDE DEF step, n, C, none
  <2> QED
    BY <2>1, Recursion
<1>5. /\ f[0] = <<>>
      /\ \A i \in 1..n : f[i - 1] \in Seq(D) /\ f[i] = f[i - 1] \o ss[i]
  <2>1. f[0] = <<>>
    BY <1>4 DEF Follows
  <2>2. ASSUME NEW i \in 1..n
        PROVE  f[i - 1] \in C /\ f[i] = f[i - 1] \o ss[i]
    <3> HIDE DEF step, C, n
    <3>1. f[i - 1] \in C
      BY <1>1, <1>4 DEF Follows
    <3> QED
      BY <3>1, <1>3, <1>4 DEF Follows
  <2> QED
    BY <2>1, <2>2
<1>6. Joins(f, ss, D)
  BY <1>5 DEF Joins
<1>7. f \in [0..n -> Seq(D)]
  BY <1>4 DEF Follows
<1>8. FlattenSeq(ss) = f[n]
  BY <1>6, FlattenIs
<1> QED
  BY <1>5, <1>7, <1>8
-----------------------------------------------------------------------------
(***************************************************************************)
(* Strings.  Marks says where the characters of a written string begin in  *)
(* the text it became: the next one behind the last, and two places        *)
(* further if it stands behind a backslash.                                *)
(***************************************************************************)
Spelled(c) == IF c \in {"q", "\\"} THEN <<"\\", c>> ELSE <<c>>

Marks(m, s, t, n) ==
    /\ m \in [0..n -> Nat]
    /\ m[0] = 1
    /\ m[n] = Len(t) + 1
    /\ \A i \in 0..n : m[i] \in 1..(Len(t) + 1)
    /\ \A i \in 1..n :
           IF s[i] \in {"q", "\\"}
           THEN /\ m[i] = m[i - 1] + 2
                /\ t[m[i - 1]] = "\\"
                /\ t[m[i - 1] + 1] = s[i]
           ELSE m[i] = m[i - 1] + 1 /\ t[m[i - 1]] = s[i]

\* One character is written as itself or as two.
LEMMA SpelledType ==
  ASSUME NEW c \in Letters
  PROVE  /\ Spelled(c) \in Seq(Letters)
         /\ c \in {"q", "\\"} =>
                /\ Len(Spelled(c)) = 2
                /\ Spelled(c)[1] = "\\"
                /\ Spelled(c)[2] = c
         /\ c \notin {"q", "\\"} => Len(Spelled(c)) = 1 /\ Spelled(c)[1] = c
<1>1. c \in Letters /\ "\\" \in Letters
  BY DEF Letters
<1>2. CASE c \in {"q", "\\"}
  <2>1. Spelled(c) = <<"\\", c>>
    BY <1>2 DEF Spelled
  <2>2. ASSUME NEW e \in Letters
        PROVE  /\ <<e, c>> \in Seq(Letters) /\ Len(<<e, c>>) = 2
               /\ <<e, c>>[1] = e /\ <<e, c>>[2] = c
    OBVIOUS
  <2> QED
    BY <1>1, <1>2, <2>1, <2>2
<1>3. CASE c \notin {"q", "\\"}
  <2>1. Spelled(c) = <<c>>
    BY <1>3 DEF Spelled
  <2>2. <<c>> \in Seq(Letters) /\ Len(<<c>>) = 1 /\ <<c>>[1] = c
    OBVIOUS
  <2> QED
    BY <1>3, <2>1, <2>2
<1> QED
  BY <1>2, <1>3

\* One more character is one more mark.
LEMMA MarksGoOn ==
  ASSUME NEW s \in Seq(Letters), NEW t \in Seq(Letters), NEW n \in Nat,
         n + 1 \in 1..Len(s), NEW m, Marks(m, s, t, n)
  PROVE  \E w : Marks(w, s, t \o Spelled(s[n + 1]), n + 1)
<1> DEFINE c == s[n + 1]
           e == Spelled(c)
           u == t \o e
           w == [i \in 0..(n + 1) |-> IF i = n + 1 THEN Len(u) + 1 ELSE m[i]]
<1>1. c \in Letters
  OBVIOUS
<1>2. /\ e \in Seq(Letters) /\ Len(e) \in Nat
      /\ c \in {"q", "\\"} => Len(e) = 2 /\ e[1] = "\\" /\ e[2] = c
      /\ c \notin {"q", "\\"} => Len(e) = 1 /\ e[1] = c
  <2> HIDE DEF c
  <2> QED
    BY <1>1, SpelledType
<1> HIDE DEF e
<1>3. /\ u \in Seq(Letters) /\ Len(t) \in Nat /\ Len(u) = Len(t) + Len(e)
      /\ \A i \in 1..Len(t) : u[i] = t[i]
      /\ \A i \in 1..Len(e) : u[Len(t) + i] = e[i]
  BY <1>2
<1> HIDE DEF u
<1>4. /\ w \in [0..(n + 1) -> Nat]
      /\ w[n + 1] = Len(u) + 1
      /\ \A i \in 0..n : w[i] = m[i]
  BY <1>2, <1>3 DEF Marks
<1> HIDE DEF w
<1>5. w[0] = 1 /\ w[n] = Len(t) + 1
  BY <1>4 DEF Marks
<1>6. /\ Len(t) \in Nat /\ Len(u) \in Nat /\ Len(u) = Len(t) + Len(e)
      /\ Len(e) = IF c \in {"q", "\\"} THEN 2 ELSE 1
  BY <1>2, <1>3
<1>7. ASSUME NEW i \in 0..(n + 1)
      PROVE  w[i] \in 1..(Len(u) + 1)
  <2>1. CASE i = n + 1
    <3>1. w[n + 1] = Len(u) + 1
      BY <1>4
    <3>2. Len(u) + 1 \in 1..(Len(u) + 1)
      BY <1>6
    <3> QED
      BY <2>1, <3>1, <3>2
  <2>2. CASE i # n + 1
    <3>1. i \in 0..n
      BY <2>2
    <3>2. w[i] = m[i] /\ m[i] \in 1..(Len(t) + 1)
      BY <3>1, <1>4 DEF Marks
    <3> QED
      BY <3>2, <1>6
  <2> QED
    BY <2>1, <2>2
<1>8. ASSUME NEW i \in 1..(n + 1)
      PROVE  IF s[i] \in {"q", "\\"}
             THEN /\ w[i] = w[i - 1] + 2
                  /\ u[w[i - 1]] = "\\"
                  /\ u[w[i - 1] + 1] = s[i]
             ELSE w[i] = w[i - 1] + 1 /\ u[w[i - 1]] = s[i]
  <2>1. CASE i = n + 1
    <3>1. i - 1 = n /\ s[i] = c
      BY <2>1
    <3>2. u[Len(t) + 1] = e[1] /\ (Len(e) = 2 => u[Len(t) + 2] = e[2])
      BY <1>2, <1>3
    <3>3. w[i - 1] = Len(t) + 1 /\ w[i] = Len(t) + Len(e) + 1
      BY <3>1, <2>1, <1>3, <1>4, <1>5
    <3>4. CASE c \in {"q", "\\"}
      <4>1. w[i] = w[i - 1] + 2 /\ w[i - 1] + 1 = Len(t) + 2
        BY <1>6, <3>3, <3>4
      <4> QED
        BY <1>2, <3>1, <3>2, <3>3, <3>4, <4>1
    <3>5. CASE c \notin {"q", "\\"}
      BY <1>2, <1>3, <3>1, <3>2, <3>3, <3>5
    <3> QED
      BY <3>4, <3>5
  <2>2. CASE i # n + 1
    <3>1. i \in 1..n /\ i \in 0..n /\ i - 1 \in 0..n
      BY <2>2
    <3>2. w[i] = m[i] /\ w[i - 1] = m[i - 1]
      BY <3>1, <1>4
    <3>3. m[i] \in 1..(Len(t) + 1) /\ m[i - 1] \in 1..(Len(t) + 1)
      BY <3>1 DEF Marks
    <3>4. CASE s[i] \in {"q", "\\"}
      <4>1. /\ m[i] = m[i - 1] + 2
            /\ t[m[i - 1]] = "\\"
            /\ t[m[i - 1] + 1] = s[i]
        BY <3>1, <3>4 DEF Marks
      <4>2. m[i - 1] \in 1..Len(t) /\ m[i - 1] + 1 \in 1..Len(t)
        BY <4>1, <3>3, <1>6
      <4> QED
        BY <4>1, <4>2, <3>2, <3>4, <1>3
    <3>5. CASE s[i] \notin {"q", "\\"}
      <4>1. m[i] = m[i - 1] + 1 /\ t[m[i - 1]] = s[i]
        BY <3>1, <3>5 DEF Marks
      <4>2. m[i - 1] \in 1..Len(t)
        BY <4>1, <3>3, <1>6
      <4> QED
        BY <4>1, <4>2, <3>2, <3>5, <1>3
    <3> QED
      BY <3>4, <3>5
  <2> QED
    BY <2>1, <2>2
<1>9. Marks(w, s, u, n + 1)
  BY <1>4, <1>5, <1>7, <1>8 DEF Marks
<1> QED
  BY <1>9 DEF u, e

\* Every string has its marks in the text it is written as.
LEMMA EmitMarks ==
  ASSUME NEW s \in Seq(Letters)
  PROVE  /\ EmitString(s) \in Seq(Letters)
         /\ \E m : Marks(m, s, EmitString(s), Len(s))
<1> DEFINE l == Len(s)
           ss == [i \in DOMAIN s |-> Spelled(s[i])]
<1>1. l \in Nat /\ DOMAIN s = 1..l /\ \A i \in 1..l : s[i] \in Letters
  OBVIOUS
<1>2. ss \in Seq(Seq(Letters)) /\ Len(ss) = l
      /\ \A i \in 1..l : ss[i] = Spelled(s[i])
  <2>1. \A i \in 1..l : Spelled(s[i]) \in Seq(Letters)
    BY <1>1, SpelledType
  <2> HIDE DEF l
  <2>2. ss \in [1..l -> Seq(Letters)]
    BY <1>1, <2>1
  <2>3. \A i \in 1..l : ss[i] = Spelled(s[i])
    BY <1>1
  <2> HIDE DEF ss
  <2> QED
    BY <1>1, <2>2, <2>3
<1>3. EmitString(s) = FlattenSeq(ss)
  BY DEF EmitString, Spelled
<1> HIDE DEF ss, l
<1>4. PICK f \in [0..l -> Seq(Letters)] :
          /\ f[0] = <<>>
          /\ \A i \in 1..l : f[i] = f[i - 1] \o ss[i]
          /\ FlattenSeq(ss) = f[l]
  BY <1>2, FlattenSteps
<1> DEFINE S == {i \in Nat : i <= l => \E m : Marks(m, s, f[i], i)}
<1>5. 0 \in S
  <2>1. Marks([i \in 0..0 |-> 1], s, <<>>, 0)
    BY DEF Marks
  <2> QED
    BY <2>1, <1>4
<1>6. ASSUME NEW i \in Nat, i \in S
      PROVE  i + 1 \in S
  <2> SUFFICES ASSUME i + 1 <= l
               PROVE  \E m : Marks(m, s, f[i + 1], i + 1)
    OBVIOUS
  <2>1. i + 1 \in 1..l /\ (i + 1) - 1 = i /\ i \in 0..l /\ i + 1 \in 1..Len(s)
    BY <1>1 DEF l
  <2>2. PICK m : Marks(m, s, f[i], i)
    BY <1>6, <2>1
  <2>3. f[i] \in Seq(Letters) /\ f[i + 1] = f[i] \o Spelled(s[i + 1])
    BY <1>2, <1>4, <2>1
  <2> DEFINE t == f[i]
  <2>4. t \in Seq(Letters) /\ Marks(m, s, t, i)
    BY <2>2, <2>3
  <2> HIDE DEF t
  <2>5. \E w : Marks(w, s, t \o Spelled(s[i + 1]), i + 1)
    BY <2>1, <2>4, MarksGoOn
  <2> QED
    BY <2>3, <2>5 DEF t
<1>7. Nat \subseteq S
  <2> HIDE DEF S
  <2> QED
    BY <1>5, <1>6, NumberInduction
<1>8. l \in S /\ f[l] \in Seq(Letters)
  BY <1>1, <1>4, <1>7
<1> QED
  BY <1>3, <1>4, <1>8 DEF l

\* What stands at a mark in a written string, which ends with a quote.
StandsAt(u, s, m, k) ==
    /\ m[k] \in 1..Len(u)
    /\ k = Len(s) => m[k] = Len(u) /\ u[m[k]] = "q"
    /\ k < Len(s) =>
           /\ m[k] < Len(u) /\ u[m[k]] # "q"
           /\ IF u[m[k]] = "\\"
              THEN /\ s[k + 1] \in {"q", "\\"}
                   /\ u[m[k] + 1] = s[k + 1] /\ m[k + 1] = m[k] + 2
              ELSE u[m[k]] = s[k + 1] /\ m[k + 1] = m[k] + 1

\* At the mark of a character stands its spelling, and behind the last one the
\* closing quote.
LEMMA AtMark ==
  ASSUME NEW s \in Seq(Letters), NEW t \in Seq(Letters), NEW m,
         Marks(m, s, t, Len(s)), NEW k \in 0..Len(s)
  PROVE  StandsAt(t \o <<"q">>, s, m, k)
<1> DEFINE u == t \o <<"q">>
<1>1. /\ Len(s) \in Nat /\ Len(t) \in Nat
      /\ Len(u) = Len(t) + 1 /\ u[Len(t) + 1] = "q"
      /\ \A i \in 1..Len(t) : u[i] = t[i]
  OBVIOUS
<1> SUFFICES StandsAt(u, s, m, k)
  OBVIOUS
<1> HIDE DEF u
<1>2. /\ m[k] \in 1..(Len(t) + 1)
      /\ m[Len(s)] = Len(t) + 1
  BY DEF Marks
<1>3. m[k] \in 1..Len(u)
  BY <1>1, <1>2
<1>4. CASE k = Len(s)
  BY <1>1, <1>2, <1>3, <1>4 DEF StandsAt
<1>5. CASE k < Len(s)
  <2>1. k + 1 \in 1..Len(s) /\ (k + 1) - 1 = k /\ k + 1 \in 0..Len(s)
    BY <1>1, <1>5
  <2>2. s[k + 1] \in Letters /\ m[k + 1] \in 1..(Len(t) + 1)
    BY <2>1 DEF Marks
  <2>3. CASE s[k + 1] \in {"q", "\\"}
    <3>1. /\ m[k + 1] = m[k] + 2
          /\ t[m[k]] = "\\"
          /\ t[m[k] + 1] = s[k + 1]
      BY <2>1, <2>3 DEF Marks
    <3>2. m[k] \in 1..Len(t) /\ m[k] + 1 \in 1..Len(t)
      BY <3>1, <2>2, <1>1, <1>2
    <3>3. u[m[k]] = "\\" /\ u[m[k] + 1] = s[k + 1] /\ m[k] < Len(u)
      BY <3>1, <3>2, <1>1
    <3> QED
      BY <3>1, <3>3, <2>3, <1>1, <1>3, <1>5 DEF StandsAt
  <2>4. CASE s[k + 1] \notin {"q", "\\"}
    <3>1. m[k + 1] = m[k] + 1 /\ t[m[k]] = s[k + 1]
      BY <2>1, <2>4 DEF Marks
    <3>2. m[k] \in 1..Len(t)
      BY <3>1, <2>2, <1>1, <1>2
    <3>3. u[m[k]] = s[k + 1] /\ m[k] < Len(u)
      BY <3>1, <3>2, <1>1
    <3> QED
      BY <3>1, <3>3, <2>4, <1>1, <1>3, <1>5 DEF StandsAt
  <2> QED
    BY <2>3, <2>4
<1> QED
  BY <1>1, <1>4, <1>5

-----------------------------------------------------------------------------
(***************************************************************************)
(* The invariant of a reading.  A written string: what was decoded is the  *)
(* beginning of it, and the reader stands at the mark behind it.  Any      *)
(* text: both passes stop at the same places, and the second one ends at   *)
(* the quote where the first one ended.                                    *)
(***************************************************************************)
Width(p) == IF source[p] = "\\" /\ p < Len(source) THEN 2 ELSE 1
Decoded(p) == IF Width(p) = 2 THEN Meaning(source[p + 1]) ELSE source[p]
Character == Letters \cup {"newline"}
Places == 1..(Len(source) + 1)

TextTypes ==
    /\ source \in Seq(Letters)
    /\ mode \in {"direct", "count", "fill"}
    /\ room \in Nat
    /\ pos \in Places
    /\ buffer \in Seq(Character)
    /\ counted \in Nat
    /\ value # Foreign =>
           value \in Seq(Letters) /\ source = EmitString(value) \o <<"q">>

AtItsMark ==
    /\ Len(buffer) <= Len(value)
    /\ \E m \in [0..Len(value) -> Places] :
           /\ Marks(m, value, EmitString(value), Len(value))
           /\ pos = m[Len(buffer)]

ValueSoFar ==
    value # Foreign =>
        /\ AtItsMark
        /\ \A i \in 1..Len(buffer) : buffer[i] = value[i]
        /\ decoded = "ok" => Len(buffer) = Len(value)
        /\ decoded = "error" =>
               Len(value) + (IF mode = "count" THEN 0 ELSE 1) > room

Stations(p, n) ==
    /\ p[0] = 1
    /\ \A i \in 1..n : source[p[i - 1]] # "q" /\ p[i] = p[i - 1] + Width(p[i - 1])

FirstPass ==
    mode = "count" =>
        \E p \in [0..Len(buffer) -> Places] :
            Stations(p, Len(buffer)) /\ pos = p[Len(buffer)]

SecondPass ==
    mode = "fill" =>
        /\ room = counted + 1
        /\ Len(buffer) <= counted
        /\ \E p \in [0..counted -> Places] :
               /\ Stations(p, counted)
               /\ p[counted] <= Len(source) /\ source[p[counted]] = "q"
               /\ pos = p[Len(buffer)]
        /\ decoded # "error"
        /\ decoded = "ok" => Len(buffer) = counted

TextInv == TextTypes /\ ValueSoFar /\ FirstPass /\ SecondPass

\* A string of bounded length is a sequence.
LEMMA StringsType ==
  ASSUME NEW n, NEW s \in Strings(n)
  PROVE  s \in Seq(Letters)
<1>1. PICK k \in 0..n : s \in [1..k -> Letters]
  BY DEF Strings
<1>2. k \in Nat
  OBVIOUS
<1> QED
  BY <1>1, <1>2

\* A character that is read.
LEMMA ReadStep ==
  ASSUME TextTypes, ReadEscape \/ ReadPlain
  PROVE  /\ decoded = "none"
         /\ pos \in 1..Len(source) /\ source[pos] # "q"
         /\ Width(pos) \in {1, 2} /\ pos + Width(pos) \in Places
         /\ Decoded(pos) \in Character
         /\ TakeChar(Decoded(pos), Width(pos))
<1>1. /\ source \in Seq(Letters) /\ Len(source) \in Nat
      /\ pos \in 1..(Len(source) + 1)
      /\ \A i \in 1..Len(source) : source[i] \in Letters
  BY DEF TextTypes, Places
<1>2. CASE ReadEscape
  <2>1. decoded = "none" /\ pos \in 1..Len(source) /\ source[pos] = "\\" /\ pos < Len(source)
    BY <1>1, <1>2 DEF ReadEscape, Escapes, TextEnd
  <2>2. Width(pos) = 2 /\ pos + 1 \in 1..Len(source) /\ pos + 2 \in Places
    BY <1>1, <2>1 DEF Width, Places
  <2>3. Decoded(pos) = Meaning(source[pos + 1]) /\ Decoded(pos) \in Character
    BY <1>1, <2>2 DEF Decoded, Meaning, Character
  <2>4. TakeChar(Decoded(pos), Width(pos))
    BY <1>2, <2>2, <2>3 DEF ReadEscape
  <2> QED
    BY <2>1, <2>2, <2>3, <2>4
<1>3. CASE ReadPlain
  <2>1. /\ decoded = "none" /\ pos \in 1..Len(source) /\ source[pos] # "q"
        /\ ~(source[pos] = "\\" /\ pos < Len(source))
    BY <1>1, <1>3 DEF ReadPlain, Escapes, TextEnd
  <2>2. Width(pos) = 1 /\ pos + 1 \in Places
    BY <1>1, <2>1 DEF Width, Places
  <2>3. Decoded(pos) = source[pos] /\ Decoded(pos) \in Character
    BY <1>1, <2>1, <2>2 DEF Decoded, Character
  <2>4. TakeChar(Decoded(pos), Width(pos))
    BY <1>3, <2>2, <2>3 DEF ReadPlain
  <2> QED
    BY <2>1, <2>2, <2>3, <2>4
<1> QED
  BY <1>2, <1>3

\* The steps of a reading: a character more, an end, or the second pass.
Takes ==
    /\ decoded = "none" /\ pos \in 1..Len(source) /\ source[pos] # "q"
    /\ Width(pos) \in {1, 2} /\ pos + Width(pos) \in Places
    /\ ~Refused
    /\ buffer' = Append(buffer, Decoded(pos)) /\ Decoded(pos) \in Character
    /\ pos' = pos + Width(pos)
    /\ UNCHANGED <<value, source, mode, room, counted, decoded>>

Ends ==
    /\ decoded = "none"
    /\ \/ decoded' = "error" /\ Refused /\ pos \in 1..Len(source) /\ source[pos] # "q"
       \/ decoded' = "error" /\ pos > Len(source)
       \/ decoded' = "ok" /\ mode # "count" /\ pos \in 1..Len(source) /\ source[pos] = "q"
       \/ decoded' = "no_memory" /\ mode = "count"
    /\ UNCHANGED <<value, source, mode, room, pos, buffer, counted>>

Again ==
    /\ decoded = "none" /\ mode = "count"
    /\ pos \in 1..Len(source) /\ source[pos] = "q"
    /\ mode' = "fill" /\ room' = Len(buffer) + 1 /\ counted' = Len(buffer)
    /\ pos' = 1 /\ buffer' = <<>>
    /\ UNCHANGED <<value, source, decoded>>

\* Whatever a step does, it takes a character, ends a pass or begins the second.
LEMMA TextSteps ==
  ASSUME TextTypes, [TextsNext]_textVars
  PROVE  Takes \/ Ends \/ Again \/ UNCHANGED textVars
<1>1. Len(source) \in Nat /\ pos \in 1..(Len(source) + 1)
  BY DEF TextTypes, Places
<1>2. CASE ReadEscape \/ ReadPlain
  BY <1>2, ReadStep DEF TakeChar, Stops, Takes, Ends
<1>3. CASE Unterminated
  BY <1>3 DEF Unterminated, Stops, TextEnd, Ends
<1>4. CASE CloseQuote
  BY <1>1, <1>4 DEF CloseQuote, Stops, TextEnd, Ends
<1>5. CASE EndCount
  BY <1>1, <1>5 DEF EndCount, Stops, TextEnd, Ends, Again, Allocated
<1> QED
  BY <1>2, <1>3, <1>4, <1>5 DEF TextsNext

\* Each step of the reader keeps the types of its state,
LEMMA TextTypesStep ==
  ASSUME TextTypes, [TextsNext]_textVars
  PROVE  TextTypes'
<1>1. Takes \/ Ends \/ Again \/ UNCHANGED textVars
  BY TextSteps
<1>2. CASE Takes
  BY <1>2 DEF Takes, TextTypes, Places
<1>3. CASE Ends
  BY <1>3 DEF Ends, TextTypes, Places
<1>4. CASE Again
  <2>1. <<>> \in Seq(Character) /\ Len(buffer) \in Nat /\ 1 \in Places
    BY DEF TextTypes, Places
  <2> QED
    BY <1>4, <2>1 DEF Again, TextTypes, Places
<1>5. CASE UNCHANGED textVars
  BY <1>5 DEF textVars, TextTypes, Places
<1> QED
  BY <1>1, <1>2, <1>3, <1>4, <1>5

\* what is in the buffer a beginning of the value that was written,
LEMMA ValueSoFarStep ==
  ASSUME TextTypes, ValueSoFar, [TextsNext]_textVars
  PROVE  ValueSoFar'
<1> SUFFICES ASSUME value' # Foreign
             PROVE  ValueSoFar'
  BY DEF ValueSoFar
<1>1. value' = value /\ source' = source
  BY TextSteps DEF Takes, Ends, Again, textVars
<1> DEFINE s == value
           t == EmitString(value)
           l == Len(value)
           k == Len(buffer)
<1>2. s \in Seq(Letters) /\ t \in Seq(Letters) /\ source = t \o <<"q">>
  BY <1>1, EmitMarks DEF TextTypes
<1>3. PICK m \in [0..l -> Places] : Marks(m, s, t, l) /\ pos = m[k]
  BY <1>1 DEF ValueSoFar, AtItsMark
<1>4. /\ l \in Nat /\ k \in 0..l /\ room \in Nat
      /\ \A i \in 1..k : buffer[i] = value[i]
      /\ decoded = "ok" => k = l
      /\ decoded = "error" => l + (IF mode = "count" THEN 0 ELSE 1) > room
  BY <1>1, <1>2 DEF ValueSoFar, AtItsMark, TextTypes
<1>5. /\ pos \in 1..Len(source)
      /\ k = l => pos = Len(source) /\ source[pos] = "q"
      /\ k < l =>
             /\ pos < Len(source) /\ source[pos] # "q"
             /\ IF source[pos] = "\\"
                THEN /\ s[k + 1] \in {"q", "\\"}
                     /\ source[pos + 1] = s[k + 1] /\ m[k + 1] = pos + 2
                ELSE source[pos] = s[k + 1] /\ m[k + 1] = pos + 1
  <2>1. StandsAt(source, s, m, k)
    <3> HIDE DEF s, t, k
    <3>1. Marks(m, s, t, Len(s)) /\ k \in 0..Len(s)
      BY <1>3, <1>4 DEF l, s
    <3> QED
      BY <3>1, <1>2, AtMark
  <2> QED
    BY <2>1, <1>3 DEF StandsAt
<1> HIDE DEF t, k, l
<1>6. CASE Takes
  <2>1. k < l
    BY <1>4, <1>5, <1>6 DEF Takes
  <2>2. Decoded(pos) = s[k + 1] /\ m[k + 1] = pos + Width(pos)
    BY <1>4, <1>5, <2>1 DEF Decoded, Width, Meaning
  <2>3. /\ buffer' = Append(buffer, s[k + 1]) /\ pos' = m[k + 1]
        /\ UNCHANGED <<mode, room, decoded>> /\ decoded = "none"
    BY <1>6, <2>2 DEF Takes
  <2>4. /\ Len(buffer') = k + 1
        /\ \A i \in 1..(k + 1) : buffer'[i] = value[i]
    <3>1. buffer \in Seq(Character) /\ k = Len(buffer)
      BY DEF TextTypes, k
    <3> QED
      BY <3>1, <2>3, <1>4
  <2>5. AtItsMark'
    <3>1. k + 1 <= l
      BY <1>4, <2>1
    <3> QED
      BY <1>1, <1>3, <2>3, <2>4, <3>1 DEF AtItsMark, Places, l, t
  <2> QED
    BY <1>1, <2>3, <2>4, <2>5 DEF ValueSoFar
<1>7. CASE Ends
  <2>1. UNCHANGED <<value, source, mode, room, pos, buffer>>
    BY <1>7 DEF Ends
  <2>2. AtItsMark'
    <3>1. AtItsMark
      BY <1>1 DEF ValueSoFar
    <3> QED
      BY <2>1, <3>1 DEF AtItsMark, Places
  <2>3. \A i \in 1..Len(buffer') : buffer'[i] = value'[i]
    BY <2>1, <1>4 DEF k
  <2>4. decoded' = "ok" => k = l
    BY <1>4, <1>5, <1>7 DEF Ends
  <2>5. decoded' = "error" => l + (IF mode = "count" THEN 0 ELSE 1) > room
    <3>1. SUFFICES ASSUME decoded' = "error"
                   PROVE  l + (IF mode = "count" THEN 0 ELSE 1) > room
      OBVIOUS
    <3>2. Refused /\ source[pos] # "q"
      BY <3>1, <1>4, <1>5, <1>7 DEF Ends
    <3>3. k < l
      BY <3>2, <1>4, <1>5
    <3> QED
      BY <3>2, <3>3, <1>4 DEF Refused, k
  <2> QED
    BY <2>1, <2>2, <2>3, <2>4, <2>5 DEF ValueSoFar, k, l
<1>8. CASE Again
  <2>1. /\ buffer' = <<>> /\ pos' = 1 /\ decoded' = "none"
    BY <1>8 DEF Again
  <2>2. m[0] = 1 /\ Len(buffer') = 0
    BY <1>3, <2>1 DEF Marks
  <2>3. AtItsMark'
    BY <1>1, <1>3, <1>4, <2>1, <2>2 DEF AtItsMark, Places, l, t
  <2> QED
    BY <2>1, <2>2, <2>3 DEF ValueSoFar
<1>9. CASE UNCHANGED textVars
  BY <1>9 DEF textVars, ValueSoFar, AtItsMark, Places
<1> QED
  BY <1>6, <1>7, <1>8, <1>9, TextSteps

\* The stations of the text do not depend on the step.
LEMMA PassesStep ==
  ASSUME TextTypes, FirstPass, SecondPass, [TextsNext]_textVars
  PROVE  FirstPass' /\ SecondPass'
<1> DEFINE k == Len(buffer)
<1>1. value' = value /\ source' = source /\ Places' = Places
      /\ \A p, n : Stations(p, n)' <=> Stations(p, n)
  BY TextSteps DEF Takes, Ends, Again, textVars, Places, Stations, Width
<1>2. /\ k \in Nat /\ counted \in Nat /\ Len(source) \in Nat /\ buffer \in Seq(Character)
      /\ Places = 1..(Len(source) + 1)
  BY DEF TextTypes, Places
<1>3. CASE Takes
  <2>1. /\ decoded = "none" /\ pos \in 1..Len(source) /\ source[pos] # "q"
        /\ pos + Width(pos) \in Places
        /\ buffer' = Append(buffer, Decoded(pos)) /\ Decoded(pos) \in Character
        /\ pos' = pos + Width(pos)
        /\ UNCHANGED <<mode, room, counted, decoded>>
    BY <1>3 DEF Takes
  <2>2. Len(buffer') = k + 1
    BY <2>1, <1>2
  <2>3. FirstPass'
    <3>1. SUFFICES ASSUME mode = "count"
                   PROVE  FirstPass'
      BY <2>1 DEF FirstPass
    <3>2. PICK p \in [0..k -> Places] : Stations(p, k) /\ pos = p[k]
      BY <3>1 DEF FirstPass
    <3> HIDE DEF k
    <3> DEFINE r == [i \in 0..(k + 1) |-> IF i = k + 1 THEN pos + Width(pos) ELSE p[i]]
    <3>3. /\ r \in [0..(k + 1) -> Places]
          /\ r[k + 1] = pos + Width(pos)
          /\ \A i \in 0..k : r[i] = p[i]
      BY <1>2, <2>1, <3>2
    <3> HIDE DEF r
    <3>4. ASSUME NEW i \in 1..(k + 1)
          PROVE  source[r[i - 1]] # "q" /\ r[i] = r[i - 1] + Width(r[i - 1])
      <4>1. CASE i = k + 1
        <5>1. i - 1 = k /\ r[i - 1] = pos
          BY <4>1, <1>2, <3>2, <3>3
        <5> QED
          BY <4>1, <5>1, <2>1, <3>3
      <4>2. CASE i # k + 1
        <5>1. i \in 1..k /\ i \in 0..k /\ i - 1 \in 0..k
          BY <4>2, <1>2
        <5> QED
          BY <5>1, <3>2, <3>3 DEF Stations
      <4> QED
        BY <4>1, <4>2
    <3>5. r[0] = 1
      BY <1>2, <3>2, <3>3 DEF Stations
    <3>6. Stations(r, k + 1)
      BY <3>4, <3>5 DEF Stations
    <3> QED
      BY <1>1, <2>1, <2>2, <3>3, <3>6 DEF FirstPass
  <2>4. SecondPass'
    <3>1. SUFFICES ASSUME mode = "fill"
                   PROVE  SecondPass'
      BY <2>1 DEF SecondPass
    <3>2. PICK p \in [0..counted -> Places] :
              /\ Stations(p, counted)
              /\ p[counted] <= Len(source) /\ source[p[counted]] = "q"
              /\ pos = p[k]
      BY <3>1 DEF SecondPass
    <3>3. k <= counted /\ room = counted + 1
      BY <3>1 DEF SecondPass
    <3>4. k # counted
      BY <2>1, <3>2
    <3>5. k + 1 \in 1..counted /\ (k + 1) - 1 = k /\ k + 1 <= counted
      BY <1>2, <3>3, <3>4
    <3>6. p[k + 1] = pos + Width(pos)
      BY <3>2, <3>5 DEF Stations
    <3> QED
      BY <1>1, <2>1, <2>2, <3>2, <3>3, <3>5, <3>6 DEF SecondPass
  <2> QED
    BY <2>3, <2>4
<1>4. CASE Ends
  <2>1. UNCHANGED <<value, source, mode, room, pos, buffer, counted>> /\ decoded = "none"
    BY <1>4 DEF Ends
  <2>2. FirstPass'
    BY <1>1, <2>1 DEF FirstPass
  <2>3. SecondPass'
    <3>1. SUFFICES ASSUME mode = "fill"
                   PROVE  SecondPass'
      BY <2>1 DEF SecondPass
    <3>2. PICK p \in [0..counted -> Places] :
              /\ Stations(p, counted)
              /\ p[counted] <= Len(source) /\ source[p[counted]] = "q"
              /\ pos = p[k]
      BY <3>1 DEF SecondPass
    <3>3. k <= counted /\ room = counted + 1
      BY <3>1 DEF SecondPass
    <3>4. pos <= Len(source) /\ (source[pos] = "q" <=> k = counted)
      <4>1. CASE k = counted
        BY <3>2, <4>1
      <4>2. CASE k # counted
        <5>1. k + 1 \in 1..counted /\ (k + 1) - 1 = k /\ k \in 0..counted /\ k + 1 \in 0..counted
          BY <1>2, <3>3, <4>2
        <5>2. p[k + 1] = pos + Width(pos) /\ source[pos] # "q" /\ p[k + 1] \in Places
              /\ pos \in Places
          BY <3>2, <5>1 DEF Stations
        <5>3. Width(pos) \in {1, 2}
          BY DEF Width
        <5> QED
          BY <5>2, <5>3, <4>2, <1>2
      <4> QED
        BY <4>1, <4>2
    <3>5. decoded' # "error"
      <4>1. source[pos] # "q" => ~Refused
        BY <3>1, <3>3, <3>4, <1>2 DEF Refused
      <4>2. ~(pos > Len(source))
        BY <3>2, <3>4, <1>2 DEF TextTypes
      <4> QED
        BY <4>1, <4>2, <1>4 DEF Ends
    <3>6. decoded' = "ok" => k = counted
      BY <3>4, <1>4 DEF Ends
    <3>7. SecondPass
      OBVIOUS
    <3> QED
      BY <1>1, <2>1, <3>1, <3>2, <3>3, <3>5, <3>6 DEF SecondPass
  <2> QED
    BY <2>2, <2>3
<1>5. CASE Again
  <2>1. /\ decoded = "none" /\ mode = "count"
        /\ pos \in 1..Len(source) /\ source[pos] = "q"
        /\ mode' = "fill" /\ room' = k + 1 /\ counted' = k
        /\ pos' = 1 /\ buffer' = <<>> /\ decoded' = "none"
    BY <1>5 DEF Again
  <2>2. PICK p \in [0..k -> Places] : Stations(p, k) /\ pos = p[k]
    BY <2>1 DEF FirstPass
  <2>3. p[0] = 1 /\ Len(buffer') = 0 /\ pos <= Len(source)
    BY <2>1, <2>2, <1>2 DEF Stations
  <2> HIDE DEF k
  <2>4. SecondPass'
    BY <1>1, <1>2, <2>1, <2>2, <2>3 DEF SecondPass
  <2> QED
    BY <2>1, <2>4 DEF FirstPass
<1>6. CASE UNCHANGED textVars
  BY <1>1, <1>6 DEF textVars, FirstPass, SecondPass
<1> QED
  BY <1>3, <1>4, <1>5, <1>6, TextSteps

\* A reader starts with nothing read of a text that is written as it should be.
LEMMA TextsStart ==
  ASSUME TextsAssumption, TextsInit
  PROVE  TextInv
<1>1. /\ pos = 1 /\ buffer = <<>> /\ Len(buffer) = 0 /\ counted = 0
      /\ decoded = "none" /\ mode \in {"direct", "count"} /\ room \in Nat
  BY DEF TextsInit, TextsAssumption
<1>2. value # Foreign =>
          /\ value \in Seq(Letters) /\ source = EmitString(value) \o <<"q">>
          /\ EmitString(value) \in Seq(Letters)
  BY StringsType, EmitMarks DEF TextsInit
<1>3. source \in Seq(Letters)
  <2>1. CASE value = Foreign /\ source \in Strings(MaxRaw)
    BY <2>1, StringsType
  <2>2. CASE value \in Strings(MaxValue) /\ source = EmitString(value) \o <<"q">>
    <3>1. EmitString(value) \in Seq(Letters) /\ <<"q">> \in Seq(Letters)
      BY <2>2, StringsType, EmitMarks DEF Letters
    <3> QED
      BY <2>2, <3>1
  <2> QED
    BY <2>1, <2>2 DEF TextsInit
<1>4. 1 \in Places /\ <<>> \in Seq(Character)
  BY <1>3 DEF Places
<1>5. TextTypes
  BY <1>1, <1>2, <1>3, <1>4 DEF TextTypes
<1>6. ValueSoFar
  <2>1. SUFFICES ASSUME value # Foreign
                 PROVE  AtItsMark
    BY <1>1 DEF ValueSoFar
  <2> DEFINE t == EmitString(value)
  <2>2. /\ value \in Seq(Letters) /\ t \in Seq(Letters)
        /\ Len(value) \in Nat /\ Len(t) \in Nat /\ Len(source) = Len(t) + 1
    BY <1>2, <2>1
  <2>3. PICK m : Marks(m, value, t, Len(value))
    BY <2>2, EmitMarks
  <2> HIDE DEF t
  <2>4. m \in [0..Len(value) -> Places] /\ m[0] = 1
    BY <2>2, <2>3 DEF Marks, Places
  <2> QED
    BY <1>1, <2>2, <2>3, <2>4 DEF AtItsMark, t
<1>7. FirstPass
  <2> DEFINE p == [i \in 0..0 |-> 1]
  <2>1. p \in [0..0 -> Places] /\ p[0] = 1 /\ Stations(p, 0)
    BY <1>4 DEF Stations
  <2> QED
    BY <1>1, <2>1 DEF FirstPass
<1>8. SecondPass
  BY <1>1 DEF SecondPass
<1> QED
  BY <1>5, <1>6, <1>7, <1>8 DEF TextInv

\* In every state of a reader the buffer holds the beginning of the value that
\* stands in front of the place it has reached, and both passes go through the
\* same places (json_mini.c:60-151, 211-244).
THEOREM TextsInvariant == TextsSpec => []TextInv
<1>1. TextsInit => TextInv
  BY TextsStart, TextsAssumption
<1>2. TextInv /\ [TextsNext]_textVars => TextInv'
  BY TextTypesStep, ValueSoFarStep, PassesStep DEF TextInv
<1> QED
  BY <1>1, <1>2, PTL DEF TextsSpec

\* A string of any length that the updater wrote is read back as it was, or is
\* refused because it does not fit (update_state.c:217-227, json_mini.c:60-151).
THEOREM WrittenIsReadBack == TextsSpec => []RoundTrip
<1>1. TextInv => RoundTrip
  <2> SUFFICES ASSUME TextInv, value # Foreign
               PROVE  /\ decoded = "ok" => buffer = value
                      /\ decoded = "error" =>
                             Len(value) + (IF mode = "count" THEN 0 ELSE 1) > room
    BY DEF RoundTrip
  <2>1. /\ buffer \in Seq(Character) /\ value \in Seq(Letters)
        /\ \A i \in 1..Len(buffer) : buffer[i] = value[i]
    BY DEF TextInv, TextTypes, ValueSoFar
  <2>2. decoded = "ok" => Len(buffer) = Len(value)
    BY DEF TextInv, ValueSoFar
  <2>3. decoded = "ok" => buffer = value
    BY <2>1, <2>2
  <2> QED
    BY <2>3 DEF TextInv, ValueSoFar
<1> QED
  BY <1>1, TextsInvariant, PTL

\* Whatever a text of any length holds, the second pass over it fills the memory
\* that was allocated after the first one exactly (json_mini.c:211-244).
THEOREM PassesAgree == TextsSpec => []SecondPassFits
<1>1. TextInv => SecondPassFits
  BY DEF TextInv, SecondPass, SecondPassFits
<1> QED
  BY <1>1, TextsInvariant, PTL
-----------------------------------------------------------------------------
(***************************************************************************)
(* Release notes.  What a reader of markup makes of a sequence of tokens   *)
(* follows from what it makes of all but the last one.                     *)
(***************************************************************************)
Tags == NoteTags \cup Dangerous
Marked == Seq(Tags) \cup {Unbalanced}

\* A token is known by its kind.
LEMMA TokenShape ==
  ASSUME NEW k \in NoteTokens
  PROVE  /\ k[1] \in {"text", "br", "other", "open", "close"}
         /\ k[1] \in {"open", "close"} => k[2] \in Tags
         /\ k = Text => k[1] \notin {"open", "close"}
BY DEF NoteTokens, Text, Break1, Other, OpenTag, CloseTag, Tags

\* A stack of open tags stays one when a tag is pushed or popped.
LEMMA StackShape ==
  ASSUME NotesAssumption, NEW o \in Seq(Tags)
  PROVE  /\ o # Unbalanced
         /\ Len(o) \in Nat
         /\ \A t \in Tags : Append(o, t) \in Seq(Tags)
         /\ o # <<>> => SubSeq(o, 1, Len(o) - 1) \in Seq(Tags)
<1>1. o # Unbalanced
  <2>1. SUFFICES ASSUME o = Unbalanced
                 PROVE  FALSE
    OBVIOUS
  <2>2. Len(o) = 1 /\ o[1] = "unbalanced"
    BY <2>1 DEF Unbalanced
  <2>3. o[1] \in Tags
    BY <2>2
  <2> QED
    BY <2>2, <2>3 DEF NotesAssumption, Tags
<1>2. o # <<>> => SubSeq(o, 1, Len(o) - 1) \in Seq(Tags)
  OBVIOUS
<1> QED
  BY <1>1, <1>2

\* What is open behind a token is a stack, or unbalanced.
LEMMA AfterType ==
  ASSUME NotesAssumption, NEW o \in Marked, NEW k \in NoteTokens
  PROVE  After(o, k) \in Marked
<1>1. CASE o = Unbalanced
  BY <1>1 DEF After
<1>2. CASE o # Unbalanced
  <2>1. o \in Seq(Tags)
    BY <1>2 DEF Marked
  <2> QED
    BY <1>2, <2>1, TokenShape, StackShape DEF After, Marked
<1> QED
  BY <1>1, <1>2

\* The reading of a sequence is what its definition says.
ReadOf(r, s) ==
    /\ r[0] = <<>>
    /\ \A i \in 1..Len(s) : r[i] = After(r[i - 1], s[i])
    /\ \A i \in 0..Len(s) : r[i] \in Marked

\* ReadBy goes from token to token.
LEMMA ReadByEquation ==
  ASSUME NotesAssumption, NEW s \in Seq(NoteTokens)
  PROVE  ReadOf(ReadBy(s), s)
<1> DEFINE n == Len(s)
           none == <<>>
           step == [i \in 1..n |-> [o \in Marked |-> After(o, s[i])]]
           Solves(h) == h = [i \in 0..n |-> IF i = 0 THEN <<>> ELSE After(h[i - 1], s[i])]
           open == CHOOSE h : Solves(h)
<1>1. ReadBy(s) = open
  BY DEF ReadBy
<1>2. n \in Nat /\ none \in Marked /\ \A i \in 1..n : s[i] \in NoteTokens
  BY DEF Marked
<1>3. /\ step \in [1..n -> [Marked -> Marked]]
      /\ \A i \in 1..n : \A o \in Marked : step[i][o] = After(o, s[i])
  <2> HIDE DEF n
  <2> QED
    BY <1>2, AfterType
<1>4. PICK f : Follows(f, n, Marked, none, step)
  <2> HIDE DEF step, n, none
  <2> QED
    BY <1>2, <1>3, Recursion
<1>5. /\ f[0] = <<>>
      /\ \A i \in 0..n : f[i] \in Marked
      /\ \A i \in 1..n : f[i] = After(f[i - 1], s[i])
  <2>1. f \in [0..n -> Marked] /\ f[0] = <<>>
    BY <1>4 DEF Follows
  <2>2. ASSUME NEW i \in 1..n
        PROVE  f[i] = After(f[i - 1], s[i])
    <3> HIDE DEF n, step
    <3>1. i - 1 \in 0..n
      BY <1>2
    <3>2. f[i - 1] \in Marked
      BY <2>1, <3>1
    <3> QED
      BY <3>2, <1>3, <1>4 DEF Follows
  <2> QED
    BY <2>1, <2>2
<1> HIDE DEF n, step
<1>6. Solves(f)
  <2>1. ASSUME NEW i \in 0..n
        PROVE  f[i] = IF i = 0 THEN <<>> ELSE After(f[i - 1], s[i])
    <3>1. i # 0 => i \in 1..n
      BY <1>2
    <3> QED
      BY <3>1, <1>5
  <2>2. [i \in 0..n |-> f[i]] = [i \in 0..n |-> IF i = 0 THEN <<>> ELSE After(f[i - 1], s[i])]
    BY <2>1
  <2>3. f = [i \in 0..n |-> f[i]]
    BY <1>4 DEF Follows
  <2> QED
    BY <2>2, <2>3
<1>7. Solves(open)
  <2> HIDE DEF Solves
  <2> QED
    BY <1>6
<1> HIDE DEF open
<1>8. open[0] = <<>> /\ \A i \in 1..n : open[i] = After(open[i - 1], s[i])
  BY <1>2, <1>7
<1> DEFINE S == {i \in Nat : i <= n => open[i] = f[i]}
<1>9. 0 \in S
  BY <1>5, <1>8
<1>10. ASSUME NEW i \in Nat, i \in S
       PROVE  i + 1 \in S
  <2> SUFFICES ASSUME i + 1 <= n
               PROVE  open[i + 1] = f[i + 1]
    OBVIOUS
  <2> DEFINE j == i + 1
  <2>1. j \in 1..n /\ j - 1 = i /\ open[i] = f[i]
    BY <1>2, <1>10
  <2> HIDE DEF j
  <2>2. open[j] = f[j]
    BY <2>1, <1>5, <1>8
  <2> QED
    BY <2>2 DEF j
<1>11. Nat \subseteq S
  <2> HIDE DEF S
  <2> QED
    BY <1>9, <1>10, NumberInduction
<1>12. ASSUME NEW i \in 0..n
       PROVE  open[i] \in Marked
  <2>1. i \in Nat /\ i <= n
    BY <1>2
  <2>2. open[i] = f[i]
    BY <2>1, <1>11
  <2> QED
    BY <2>2, <1>5
<1> QED
  BY <1>1, <1>8, <1>12 DEF ReadOf, n

\* Sequences that begin alike are read alike.
LEMMA SameBeginning ==
  ASSUME NotesAssumption,
         NEW s \in Seq(NoteTokens), NEW t \in Seq(NoteTokens), NEW n \in Nat,
         n <= Len(s), n <= Len(t), \A i \in 1..n : s[i] = t[i]
  PROVE  \A i \in 0..n : ReadBy(s)[i] = ReadBy(t)[i]
<1> DEFINE a == ReadBy(s)
           b == ReadBy(t)
<1>1. ReadOf(a, s) /\ ReadOf(b, t) /\ Len(s) \in Nat /\ Len(t) \in Nat
  BY ReadByEquation
<1> HIDE DEF a, b
<1> DEFINE S == {i \in Nat : i <= n => a[i] = b[i]}
<1>2. 0 \in S
  BY <1>1 DEF ReadOf
<1>3. ASSUME NEW i \in Nat, i \in S
      PROVE  i + 1 \in S
  <2> SUFFICES ASSUME i + 1 <= n
               PROVE  a[i + 1] = b[i + 1]
    OBVIOUS
  <2> DEFINE j == i + 1
  <2>1. j \in 1..n /\ j \in 1..Len(s) /\ j \in 1..Len(t) /\ j - 1 = i /\ a[i] = b[i]
    BY <1>1, <1>3
  <2> HIDE DEF j
  <2>2. a[j] = b[j]
    BY <2>1, <1>1 DEF ReadOf
  <2> QED
    BY <2>2 DEF j
<1>4. Nat \subseteq S
  <2> HIDE DEF S
  <2> QED
    BY <1>2, <1>3, NumberInduction
<1> QED
  BY <1>4 DEF a, b

\* One more token.
LEMMA ReadOneMore ==
  ASSUME NotesAssumption, NEW s \in Seq(NoteTokens), NEW k \in NoteTokens
  PROVE  /\ \A i \in 0..Len(s) : ReadBy(Append(s, k))[i] = ReadBy(s)[i]
         /\ ReadBy(Append(s, k))[Len(s) + 1] = After(ReadBy(s)[Len(s)], k)
         /\ ReadBy(s)[Len(s)] \in Marked
<1> DEFINE t == Append(s, k)
           n == Len(s)
<1>1. /\ t \in Seq(NoteTokens) /\ n \in Nat /\ Len(t) = n + 1 /\ t[n + 1] = k
      /\ n <= Len(t) /\ n <= Len(s) /\ \A i \in 1..n : s[i] = t[i]
  OBVIOUS
<1> HIDE DEF t
<1>2. \A i \in 0..n : ReadBy(s)[i] = ReadBy(t)[i]
  <2> HIDE DEF n
  <2> QED
    BY <1>1, SameBeginning DEF n
<1>3. ReadOf(ReadBy(t), t) /\ ReadOf(ReadBy(s), s)
  BY <1>1, ReadByEquation
<1>4. n + 1 \in 1..Len(t) /\ (n + 1) - 1 = n /\ n \in 0..n
  BY <1>1
<1>5. ReadBy(t)[n + 1] = After(ReadBy(t)[n], k)
  BY <1>1, <1>3, <1>4 DEF ReadOf
<1> QED
  BY <1>2, <1>3, <1>4, <1>5 DEF t, ReadOf

-----------------------------------------------------------------------------
(***************************************************************************)
(* The invariant of the sanitizer.  The stack is what a reader of the      *)
(* output has open; clean notes have come out as they are so far; and what *)
(* is skipped is what stands behind the one dangerous tag there is.        *)
(***************************************************************************)
NoteTypes ==
    /\ notes \in Seq(NoteTokens)
    /\ html \in Seq(NoteTokens)
    /\ opened \in Seq(NoteTags)
    /\ skipping \in Dangerous \cup {"none"}
    /\ noteStatus \in {"reading", "ok", "failed"}

HtmlRead ==
    /\ noteStatus = "reading" => ReadBy(html)[Len(html)] = opened
    /\ noteStatus = "ok" => Balanced(html)

CleanSoFar ==
    \A i \in 1..Len(notes) :
        /\ notes[i] # Other /\ notes[i][2] \notin Dangerous
        /\ ReadBy(notes)[i] # Unbalanced /\ Len(ReadBy(notes)[i]) <= MaxDepth

CleanShown ==
    /\ noteStatus = "reading" /\ CleanSoFar => html = notes /\ skipping = "none"
    /\ noteStatus = "ok" /\ CleanSoFar /\ Balanced(notes) => html = notes

Single(S) == \A i, j \in S : i = j
Ended(j) == \E i \in DOMAIN notes : i > j /\ notes[i] = CloseTag(notes[j][2])
TextsOf(s) == {i \in DOMAIN s : s[i] = Text}
Kept == {i \in DOMAIN notes : /\ notes[i] = Text
                              /\ \A j \in Opening : i \notin Enclosed(j)}

TextSoFar ==
    Single(Opening) =>
        /\ noteStatus = "reading" =>
               /\ Opening = {} => skipping = "none"
               /\ \A j \in Opening :
                      skipping = IF Ended(j) THEN "none" ELSE notes[j][2]
        /\ noteStatus # "failed" =>
               Cardinality(TextsOf(html)) = Cardinality(Kept)

NotesInv == NoteTypes /\ HtmlRead /\ CleanShown /\ TextSoFar

(***************************************************************************)
(* The steps: the token that is read is shown, makes the output too long,  *)
(* is dropped, begins something dangerous, or is skipped.                  *)
(***************************************************************************)
Shows(k) ==
    /\ skipping = "none" /\ UNCHANGED <<skipping, noteStatus>>
    /\ opened' = After(opened, k) /\ opened' # Unbalanced
    /\ html' = Append(html, k)
    /\ \A d \in Dangerous : k # OpenTag(d)

Fails == noteStatus' = "failed" /\ html' = <<>> /\ skipping' = skipping

Drops(k) ==
    /\ skipping = "none" /\ UNCHANGED <<opened, html, skipping, noteStatus>>
    /\ k # Text /\ \A d \in Dangerous : k # OpenTag(d)
    /\ \/ k = Other
       \/ k[2] \in Dangerous
       \/ Len(After(opened, k)) > MaxDepth
       \/ After(opened, k) = Unbalanced

Begins(k) ==
    /\ skipping = "none" /\ UNCHANGED <<opened, html, noteStatus>>
    /\ \E d \in Dangerous : k = OpenTag(d) /\ skipping' = d

\* What the kinds of tokens are.
LEMMA TokenKinds ==
  /\ Text \in NoteTokens /\ Break1 \in NoteTokens /\ Other \in NoteTokens
  /\ \A t \in Tags : OpenTag(t) \in NoteTokens /\ CloseTag(t) \in NoteTokens
  /\ \A t : /\ OpenTag(t)[1] = "open" /\ OpenTag(t)[2] = t
           /\ CloseTag(t)[1] = "close" /\ CloseTag(t)[2] = t
  /\ Text[1] = "text" /\ Break1[1] = "br" /\ Other[1] = "other"
  /\ \A t, u : OpenTag(t) # CloseTag(u)
BY DEF NoteTokens, Text, Break1, Other, OpenTag, CloseTag, Tags

\* One token more is shown, or nothing at all is returned.
LEMMA EmitOne ==
  ASSUME NoteTypes, NEW k \in NoteTokens, noteStatus = "reading", Emit(<<k>>)
  PROVE  \/ html' = Append(html, k) /\ UNCHANGED noteStatus
         \/ html' = <<>> /\ noteStatus' = "failed"
<1>1. html \o <<k>> = Append(html, k)
  BY DEF NoteTypes
<1> QED
  BY <1>1 DEF Emit

\* What a step does with the token it reads: it shows it, drops it, begins to skip
\* at it or skips it, unless the output fails or the notes end.
LEMMA NoteSteps ==
  ASSUME NotesAssumption, NoteTypes, NotesNext
  PROVE  \/ CloseRest
         \/ \E k \in NoteTokens :
                /\ Reads(k)
                /\ \/ Shows(k) /\ opened' \in Seq(NoteTags)
                   \/ Fails /\ opened' \in Seq(NoteTags)
                   \/ Drops(k) \/ Begins(k) \/ Skip(k)
<1> DEFINE Goal == \/ CloseRest
                   \/ \E k \in NoteTokens :
                          /\ Reads(k)
                          /\ \/ Shows(k) /\ opened' \in Seq(NoteTags)
                             \/ Fails /\ opened' \in Seq(NoteTags)
                             \/ Drops(k) \/ Begins(k) \/ Skip(k)
<1>1. /\ opened \in Seq(NoteTags) /\ opened \in Seq(Tags) /\ opened # Unbalanced
      /\ Len(opened) \in Nat /\ MaxDepth \in Nat
  <2>1. opened \in Seq(NoteTags) /\ opened \in Seq(Tags)
    BY DEF NoteTypes, Tags
  <2> QED
    BY <2>1, StackShape DEF NotesAssumption
<1>2. CASE PassText
  <2>1. PICK k \in {Text, Break1} : Reads(k) /\ Emit(<<k>>)
    BY <1>2 DEF PassText
  <2>2. /\ k \in NoteTokens /\ k[1] \notin {"open", "close"}
        /\ \A d \in Dangerous : k # OpenTag(d)
    BY TokenKinds
  <2>3. After(opened, k) = opened
    BY <2>2 DEF After
  <2>4. skipping = "none" /\ UNCHANGED <<opened, skipping>> /\ noteStatus = "reading"
    BY <1>2, <2>1 DEF PassText, Reads
  <2>5. Shows(k) \/ Fails
    BY <2>1, <2>2, <2>3, <2>4, <1>1, EmitOne DEF Shows, Fails
  <2> QED
    BY <2>1, <2>2, <2>4, <2>5, <1>1
<1>3. CASE Drop
  <2>1. PICK k \in {Other} \cup {CloseTag(d) : d \in Dangerous} : Reads(k)
    BY <1>3 DEF Drop
  <2>2. /\ k \in NoteTokens /\ k # Text /\ \A d \in Dangerous : k # OpenTag(d)
        /\ k = Other \/ k[2] \in Dangerous
    BY TokenKinds DEF Tags
  <2>3. Drops(k)
    BY <1>3, <2>2 DEF Drop, Drops
  <2> QED
    BY <2>1, <2>2, <2>3
<1>4. ASSUME NEW t \in NoteTags, Open(t)
      PROVE  Goal
  <2> DEFINE k == OpenTag(t)
  <2>1. /\ k \in NoteTokens /\ k[1] = "open" /\ k[2] = t /\ k # Text
        /\ \A d \in Dangerous : k # OpenTag(d)
    BY TokenKinds DEF Tags, NotesAssumption
  <2>2. skipping = "none" /\ UNCHANGED skipping /\ Reads(k) /\ noteStatus = "reading"
    BY <1>4 DEF Open, Reads
  <2>3. After(opened, k) = Append(opened, t)
    BY <2>1, <1>1 DEF After
  <2>4. Append(opened, t) \in Seq(NoteTags) /\ Append(opened, t) # Unbalanced
    BY <1>1, StackShape DEF Tags
  <2>5. CASE Len(opened) >= MaxDepth
    <3>1. Len(After(opened, k)) > MaxDepth
      BY <1>1, <2>3, <2>5
    <3>2. Drops(k)
      BY <1>4, <2>1, <2>2, <2>5, <3>1 DEF Drops, Open
    <3> QED
      BY <2>1, <2>2, <3>2
  <2>6. CASE ~(Len(opened) >= MaxDepth)
    <3>1. Emit(<<k>>) /\ opened' = Append(opened, t)
      BY <1>4, <2>6 DEF Open
    <3>2. Shows(k) \/ Fails
      BY <2>1, <2>2, <2>3, <2>4, <3>1, EmitOne DEF Shows, Fails
    <3> QED
      BY <2>1, <2>2, <2>4, <3>1, <3>2
  <2> QED
    BY <2>5, <2>6
<1>5. ASSUME NEW t \in NoteTags, Close(t)
      PROVE  Goal
  <2> DEFINE k == CloseTag(t)
  <2>1. /\ k \in NoteTokens /\ k[1] = "close" /\ k[2] = t /\ k # Text
        /\ \A d \in Dangerous : k # OpenTag(d)
    BY TokenKinds DEF Tags
  <2>2. skipping = "none" /\ UNCHANGED skipping /\ Reads(k) /\ noteStatus = "reading"
    BY <1>5 DEF Close, Reads
  <2>3. CASE opened # <<>> /\ Top = t
    <3> DEFINE o == SubSeq(opened, 1, Len(opened) - 1)
    <3>1. After(opened, k) = o
      BY <2>1, <2>3, <1>1 DEF After, Top
    <3>2. o \in Seq(NoteTags)
      BY <2>3, <1>1
    <3>3. o # Unbalanced
      BY <2>3, <1>1, StackShape
    <3>4. Emit(<<k>>) /\ opened' = o
      BY <1>5, <2>3 DEF Close
    <3>5. Shows(k) \/ Fails
      BY <2>1, <2>2, <3>1, <3>3, <3>4, EmitOne DEF Shows, Fails
    <3> QED
      BY <2>1, <2>2, <3>2, <3>4, <3>5
  <2>4. CASE ~(opened # <<>> /\ Top = t)
    <3>1. After(opened, k) = Unbalanced
      BY <2>1, <2>4, <1>1 DEF After, Top
    <3>2. Drops(k)
      BY <1>5, <2>1, <2>2, <2>4, <3>1 DEF Drops, Close
    <3> QED
      BY <2>1, <2>2, <3>2
  <2> QED
    BY <2>3, <2>4
<1>6. ASSUME NEW d \in Dangerous, Danger(d)
      PROVE  Goal
  <2>1. OpenTag(d) \in NoteTokens /\ Reads(OpenTag(d)) /\ Begins(OpenTag(d))
    BY <1>6, TokenKinds DEF Danger, Begins, Tags
  <2> QED
    BY <2>1
<1>7. ASSUME NEW k \in NoteTokens, Skip(k)
      PROVE  Goal
  <2>1. Reads(k)
    BY <1>7 DEF Skip
  <2> QED
    BY <1>7, <2>1
<1> QED
  BY <1>2, <1>3, <1>4, <1>5, <1>6, <1>7 DEF NotesNext

Closing == [i \in 1..Len(opened) |-> CloseTag(opened[Len(opened) + 1 - i])]

\* What CloseRest adds: an end tag for each open one, the last one first.
LEMMA ClosingType ==
  ASSUME NoteTypes
  PROVE  /\ Closing \in Seq(NoteTokens) /\ Len(Closing) = Len(opened)
         /\ Len(opened) \in Nat
         /\ \A i \in 1..Len(opened) :
                /\ Len(opened) + 1 - i \in 1..Len(opened)
                /\ Closing[i] = CloseTag(opened[Len(opened) + 1 - i])
<1> DEFINE n == Len(opened)
<1>1. n \in Nat /\ \A i \in 1..n : opened[i] \in NoteTags
  BY DEF NoteTypes
<1>2. ASSUME NEW i \in 1..n
      PROVE  n + 1 - i \in 1..n /\ CloseTag(opened[n + 1 - i]) \in NoteTokens
  <2> HIDE DEF n
  <2>1. n + 1 - i \in 1..n
    BY <1>1
  <2>2. opened[n + 1 - i] \in Tags
    BY <1>1, <2>1 DEF Tags
  <2> QED
    BY <2>1, <2>2, TokenKinds
<1> DEFINE c == [i \in 1..n |-> CloseTag(opened[n + 1 - i])]
<1>3. Closing = c
  BY DEF Closing
<1>4. c \in [1..n -> NoteTokens]
  <2> HIDE DEF n
  <2> QED
    BY <1>2
<1>5. \A i \in 1..n : c[i] = CloseTag(opened[n + 1 - i])
  OBVIOUS
<1> HIDE DEF n, c
<1>6. c \in Seq(NoteTokens) /\ Len(c) = n
  BY <1>1, <1>4
<1> QED
  BY <1>1, <1>2, <1>3, <1>5, <1>6 DEF n

\* The notes end: everything that is open is closed.
LEMMA RestIsClosed ==
  ASSUME NotesAssumption, NoteTypes, ReadBy(html)[Len(html)] = opened
  PROVE  Balanced(html \o Closing)
<1> DEFINE n == Len(opened)
           l == Len(html)
           s == html \o Closing
           r == ReadBy(s)
<1>1. /\ html \in Seq(NoteTokens) /\ opened \in Seq(NoteTags) /\ opened \in Seq(Tags)
      /\ l \in Nat /\ n \in Nat
  BY DEF NoteTypes, Tags
<1>2. /\ Closing \in Seq(NoteTokens) /\ Len(Closing) = n
      /\ \A i \in 1..n : /\ n + 1 - i \in 1..n
                          /\ Closing[i] = CloseTag(opened[n + 1 - i])
  BY ClosingType
<1>3. /\ s \in Seq(NoteTokens) /\ Len(s) = l + n
      /\ \A i \in 1..l : html[i] = s[i]
      /\ \A i \in 1..n : s[l + i] = Closing[i]
  <2> HIDE DEF n
  <2> QED
    BY <1>1, <1>2
<1> HIDE DEF s
<1>4. ReadOf(r, s)
  BY <1>3, ReadByEquation
<1>5. r[l] = opened
  <2>1. l <= Len(html) /\ l <= Len(s) /\ l \in 0..l
    BY <1>1, <1>3
  <2>2. \A i \in 0..l : ReadBy(html)[i] = ReadBy(s)[i]
    BY <1>1, <1>3, <2>1, SameBeginning
  <2> QED
    BY <2>1, <2>2
<1> HIDE DEF r, l, n
<1> DEFINE S == {i \in Nat : i <= n => r[l + i] = SubSeq(opened, 1, n - i)}
<1>6. 0 \in S
  <2>1. l + 0 = l /\ n - 0 = n /\ n = Len(opened)
    BY <1>1 DEF n
  <2>2. SubSeq(opened, 1, n) = opened
    BY <1>1, <2>1
  <2> QED
    BY <1>5, <2>1, <2>2
<1>7. ASSUME NEW i \in Nat, i \in S
      PROVE  i + 1 \in S
  <2> SUFFICES ASSUME i + 1 <= n
               PROVE  r[l + (i + 1)] = SubSeq(opened, 1, n - (i + 1))
    OBVIOUS
  <2> DEFINE o == SubSeq(opened, 1, n - i)
             j == l + (i + 1)
             m == n - i
  <2>1. /\ i + 1 \in 1..n /\ j \in 1..Len(s) /\ j - 1 = l + i
        /\ m \in 1..n /\ n + 1 - (i + 1) = m /\ n - (i + 1) = m - 1
        /\ r[l + i] = o
    BY <1>1, <1>3, <1>7
  <2>2. s[j] = CloseTag(opened[m])
    BY <1>2, <1>3, <2>1
  <2>3. /\ o \in Seq(Tags) /\ Len(o) = m /\ o[m] = opened[m] /\ o # <<>>
        /\ SubSeq(o, 1, m - 1) = SubSeq(opened, 1, m - 1)
    <3>1. m \in 1..Len(opened) /\ o = SubSeq(opened, 1, m)
      BY <2>1 DEF n
    <3> HIDE DEF m, o
    <3>2. o \in Seq(Tags) /\ Len(o) = m /\ o[m] = opened[m]
      BY <1>1, <3>1
    <3>3. SubSeq(o, 1, m - 1) = SubSeq(opened, 1, m - 1)
      BY <1>1, <3>1
    <3> QED
      BY <3>1, <3>2, <3>3
  <2> HIDE DEF o, j, m
  <2>4. r[j] = After(o, CloseTag(opened[m]))
    BY <1>4, <2>1, <2>2 DEF ReadOf
  <2>5. After(o, CloseTag(opened[m])) = SubSeq(o, 1, m - 1)
    BY <2>3, TokenKinds, StackShape DEF After
  <2>6. r[j] = SubSeq(opened, 1, m - 1)
    BY <2>3, <2>4, <2>5
  <2> QED
    BY <2>1, <2>6 DEF j
<1>8. Nat \subseteq S
  <2> HIDE DEF S
  <2> QED
    BY <1>6, <1>7, NumberInduction
<1>9. r[l + n] = SubSeq(opened, 1, 0)
  <2>1. n - n = 0 /\ n <= n
    BY <1>1
  <2> QED
    BY <1>1, <1>8, <2>1
<1>10. SubSeq(opened, 1, 0) = <<>>
  BY <1>1
<1> QED
  BY <1>3, <1>9, <1>10 DEF Balanced, r, s

\* Each step of the sanitizer keeps the types of its state,
LEMMA NoteTypesStep ==
  ASSUME NotesAssumption, NoteTypes, [NotesNext]_noteVars
  PROVE  NoteTypes'
<1>1. CASE CloseRest
  <2>1. /\ opened' = <<>> /\ UNCHANGED <<notes, skipping>>
        /\ \/ html' = html \o Closing /\ noteStatus' = "ok"
           \/ html' = <<>> /\ noteStatus' = "failed"
    BY <1>1 DEF CloseRest, Closing
  <2>2. html \o Closing \in Seq(NoteTokens) /\ <<>> \in Seq(NoteTokens)
        /\ <<>> \in Seq(NoteTags)
    BY ClosingType DEF NoteTypes
  <2> QED
    BY <2>1, <2>2 DEF NoteTypes
<1>2. ASSUME NEW k \in NoteTokens, Reads(k),
             \/ Shows(k) /\ opened' \in Seq(NoteTags)
             \/ Fails /\ opened' \in Seq(NoteTags)
             \/ Drops(k) \/ Begins(k) \/ Skip(k)
      PROVE  NoteTypes'
  <2>1. notes' \in Seq(NoteTokens) /\ Append(html, k) \in Seq(NoteTokens)
        /\ <<>> \in Seq(NoteTokens)
    BY <1>2 DEF Reads, NoteTypes
  <2> QED
    BY <1>2, <2>1 DEF NoteTypes, Shows, Fails, Drops, Begins, Skip
<1>3. CASE UNCHANGED noteVars
  BY <1>3 DEF noteVars, NoteTypes
<1> QED
  BY <1>1, <1>2, <1>3, NoteSteps

\* what a reader has open behind the output what the sanitizer has on its stack,
LEMMA HtmlReadStep ==
  ASSUME NotesAssumption, NoteTypes, HtmlRead, [NotesNext]_noteVars
  PROVE  HtmlRead'
<1>1. CASE CloseRest
  <2>1. /\ noteStatus = "reading"
        /\ \/ html' = html \o Closing /\ noteStatus' = "ok"
           \/ html' = <<>> /\ noteStatus' = "failed"
    BY <1>1 DEF CloseRest, Closing
  <2>2. Balanced(html \o Closing)
    BY <2>1, RestIsClosed DEF HtmlRead
  <2> QED
    BY <2>1, <2>2 DEF HtmlRead
<1>2. ASSUME NEW k \in NoteTokens, Reads(k),
             \/ Shows(k) /\ opened' \in Seq(NoteTags)
             \/ Fails /\ opened' \in Seq(NoteTags)
             \/ Drops(k) \/ Begins(k) \/ Skip(k)
      PROVE  HtmlRead'
  <2>1. noteStatus = "reading" /\ ReadBy(html)[Len(html)] = opened
    BY <1>2 DEF Reads, HtmlRead
  <2>2. CASE Shows(k)
    <3>1. /\ ReadBy(Append(html, k))[Len(html) + 1] = After(opened, k)
          /\ Len(Append(html, k)) = Len(html) + 1
      BY <2>1, ReadOneMore DEF NoteTypes
    <3> QED
      BY <2>1, <2>2, <3>1 DEF Shows, HtmlRead
  <2>3. CASE Fails
    BY <2>3 DEF Fails, HtmlRead
  <2>4. CASE Drops(k) \/ Begins(k) \/ Skip(k)
    BY <2>1, <2>4 DEF Drops, Begins, Skip, HtmlRead
  <2> QED
    BY <1>2, <2>2, <2>3, <2>4
<1>3. CASE UNCHANGED noteVars
  BY <1>3 DEF noteVars, HtmlRead
<1> QED
  BY <1>1, <1>2, <1>3, NoteSteps

\* What is clean with one more token was clean before it.
LEMMA CleanBefore ==
  ASSUME NotesAssumption, NoteTypes, NEW k \in NoteTokens,
         notes' = Append(notes, k), CleanSoFar'
  PROVE  /\ CleanSoFar
         /\ k # Other /\ k[2] \notin Dangerous
         /\ After(ReadBy(notes)[Len(notes)], k) # Unbalanced
         /\ Len(After(ReadBy(notes)[Len(notes)], k)) <= MaxDepth
<1> DEFINE n == Len(notes)
           t == Append(notes, k)
<1>1. /\ n \in Nat /\ Len(t) = n + 1 /\ t[n + 1] = k
      /\ \A i \in 1..n : t[i] = notes[i]
  BY DEF NoteTypes
<1>2. /\ \A i \in 0..n : ReadBy(t)[i] = ReadBy(notes)[i]
      /\ ReadBy(t)[n + 1] = After(ReadBy(notes)[n], k)
  BY ReadOneMore DEF NoteTypes
<1>3. \A i \in 1..Len(t) :
          /\ t[i] # Other /\ t[i][2] \notin Dangerous
          /\ ReadBy(t)[i] # Unbalanced /\ Len(ReadBy(t)[i]) <= MaxDepth
  BY DEF CleanSoFar
<1> HIDE DEF t
<1>4. ASSUME NEW i \in 1..n
      PROVE  /\ notes[i] # Other /\ notes[i][2] \notin Dangerous
             /\ ReadBy(notes)[i] # Unbalanced /\ Len(ReadBy(notes)[i]) <= MaxDepth
  <2>1. i \in 1..Len(t) /\ i \in 0..n
    BY <1>1
  <2> QED
    BY <2>1, <1>1, <1>2, <1>3
<1>5. n + 1 \in 1..Len(t)
  BY <1>1
<1> QED
  BY <1>1, <1>2, <1>3, <1>4, <1>5 DEF CleanSoFar

\* clean notes as they are,
LEMMA CleanShownStep ==
  ASSUME NotesAssumption, NoteTypes, HtmlRead, CleanShown, [NotesNext]_noteVars
  PROVE  CleanShown'
<1>1. CASE CloseRest
  <2>1. /\ noteStatus = "reading" /\ notes' = notes
        /\ \/ html' = html \o Closing /\ noteStatus' = "ok"
           \/ html' = <<>> /\ noteStatus' = "failed"
    BY <1>1 DEF CloseRest, Closing
  <2>2. SUFFICES ASSUME noteStatus' = "ok", CleanSoFar, Balanced(notes)
                 PROVE  html' = notes
    BY <2>1 DEF CleanShown, CleanSoFar, Balanced
  <2>3. html = notes /\ opened = <<>>
    BY <2>1, <2>2 DEF CleanShown, HtmlRead, Balanced
  <2>4. Closing = <<>>
    <3>1. Closing \in Seq(NoteTokens) /\ Len(Closing) = 0
      BY <2>3, ClosingType
    <3> QED
      BY <3>1
  <2>5. html \o <<>> = html
    BY DEF NoteTypes
  <2> QED
    BY <2>1, <2>2, <2>3, <2>4, <2>5
<1>2. ASSUME NEW k \in NoteTokens, Reads(k),
             \/ Shows(k) /\ opened' \in Seq(NoteTags)
             \/ Fails /\ opened' \in Seq(NoteTags)
             \/ Drops(k) \/ Begins(k) \/ Skip(k)
      PROVE  CleanShown'
  <2>1. /\ noteStatus = "reading" /\ ReadBy(html)[Len(html)] = opened
        /\ notes' = Append(notes, k)
    BY <1>2 DEF Reads, HtmlRead
  <2>2. noteStatus' # "ok"
    BY <1>2, <2>1 DEF Shows, Fails, Drops, Begins, Skip
  <2>3. SUFFICES ASSUME noteStatus' = "reading", CleanSoFar'
                 PROVE  html' = notes' /\ skipping' = "none"
    BY <2>2 DEF CleanShown
  <2>4. /\ CleanSoFar
        /\ k # Other /\ k[2] \notin Dangerous
        /\ After(ReadBy(notes)[Len(notes)], k) # Unbalanced
        /\ Len(After(ReadBy(notes)[Len(notes)], k)) <= MaxDepth
    BY <2>1, <2>3, CleanBefore
  <2>5. html = notes /\ skipping = "none"
    BY <2>1, <2>4 DEF CleanShown
  <2>6. After(opened, k) # Unbalanced /\ Len(After(opened, k)) <= MaxDepth
    BY <2>1, <2>4, <2>5
  <2>7. Shows(k)
    <3>1. ~Fails /\ ~Skip(k)
      BY <2>3, <2>5 DEF Fails, Skip
    <3>2. ~Begins(k)
      BY <2>4, TokenKinds DEF Begins
    <3>3. ~Drops(k)
      <4>1. Len(After(opened, k)) \in Nat
        <5>1. opened \in Marked
          BY DEF NoteTypes, Marked, Tags
        <5>2. After(opened, k) \in Seq(Tags)
          BY <2>6, <5>1, AfterType DEF Marked
        <5> QED
          BY <5>2
      <4>2. MaxDepth \in Nat
        BY DEF NotesAssumption
      <4> QED
        BY <2>4, <2>6, <4>1, <4>2 DEF Drops
    <3> QED
      BY <1>2, <3>1, <3>2, <3>3
  <2> QED
    BY <2>1, <2>5, <2>7 DEF Shows
<1>3. CASE UNCHANGED noteVars
  BY <1>3 DEF noteVars, CleanShown, CleanSoFar, Balanced
<1> QED
  BY <1>1, <1>2, <1>3, NoteSteps

\* What is unbalanced stays unbalanced.
LEMMA BalancedThroughout ==
  ASSUME NotesAssumption, NEW s \in Seq(NoteTokens), Balanced(s),
         NEW i \in 0..Len(s)
  PROVE  ReadBy(s)[i] # Unbalanced
<1> DEFINE r == ReadBy(s)
           n == Len(s)
<1>1. SUFFICES ASSUME r[i] = Unbalanced
               PROVE  FALSE
  OBVIOUS
<1>2. ReadOf(r, s) /\ n \in Nat /\ i \in 0..n
  BY ReadByEquation
<1> HIDE DEF r, n
<1> DEFINE S == {j \in Nat : i + j <= n => r[i + j] = Unbalanced}
<1>3. 0 \in S
  <2>1. i + 0 = i
    BY <1>2
  <2> QED
    BY <1>1, <2>1
<1>4. ASSUME NEW j \in Nat, j \in S
      PROVE  j + 1 \in S
  <2> SUFFICES ASSUME i + (j + 1) <= n
               PROVE  r[i + (j + 1)] = Unbalanced
    OBVIOUS
  <2> DEFINE m == i + (j + 1)
  <2>1. m \in 1..Len(s) /\ m - 1 = i + j /\ r[i + j] = Unbalanced
    BY <1>2, <1>4 DEF n
  <2> HIDE DEF m
  <2>2. r[m] = Unbalanced
    BY <1>2, <2>1 DEF ReadOf, After
  <2> QED
    BY <2>2 DEF m
<1>5. Nat \subseteq S
  <2> HIDE DEF S
  <2> QED
    BY <1>3, <1>4, NumberInduction
<1>6. r[n] = Unbalanced
  <2>1. n - i \in Nat /\ i + (n - i) = n /\ n <= n
    BY <1>2
  <2>2. n - i \in S
    BY <2>1, <1>5
  <2> QED
    BY <2>1, <2>2
<1>7. r[n] = <<>>
  BY DEF Balanced, r, n
<1>8. Unbalanced # <<>>
  BY DEF Unbalanced
<1> QED
  BY <1>6, <1>7, <1>8

\* A token adds to the texts of a sequence if it is one.
LEMMA TextsGrow ==
  ASSUME NEW s \in Seq(NoteTokens), NEW k \in NoteTokens
  PROVE  /\ IsFiniteSet(TextsOf(s))
         /\ Cardinality(TextsOf(s)) \in Nat
         /\ k = Text => Cardinality(TextsOf(Append(s, k))) = Cardinality(TextsOf(s)) + 1
         /\ k # Text => TextsOf(Append(s, k)) = TextsOf(s)
<1> DEFINE n == Len(s)
           t == Append(s, k)
<1>1. /\ n \in Nat /\ DOMAIN s = 1..n /\ DOMAIN t = 1..(n + 1) /\ t[n + 1] = k
      /\ \A i \in 1..n : t[i] = s[i]
  OBVIOUS
<1>2. IsFiniteSet(TextsOf(s)) /\ Cardinality(TextsOf(s)) \in Nat
  <2>1. TextsOf(s) \in SUBSET (1..n) /\ IsFiniteSet(1..n)
    BY <1>1, FS_Interval DEF TextsOf
  <2>2. IsFiniteSet(TextsOf(s))
    BY <2>1, FS_Subset
  <2> QED
    BY <2>2, FS_CardinalityType
<1> HIDE DEF t, n
<1>3. n + 1 \notin TextsOf(s)
  BY <1>1 DEF TextsOf
<1>4. CASE k = Text
  <2>1. TextsOf(t) = TextsOf(s) \cup {n + 1}
    BY <1>1, <1>4 DEF TextsOf
  <2> QED
    BY <1>2, <1>3, <1>4, <2>1, FS_AddElement DEF t
<1>5. CASE k # Text
  <2>1. TextsOf(t) = TextsOf(s)
    BY <1>1, <1>5 DEF TextsOf
  <2> QED
    BY <1>2, <1>5, <2>1 DEF t
<1> QED
  BY <1>4, <1>5

\* What one more token changes in the notes.
Grown(k, n) ==
    /\ n \in Nat /\ n = Len(notes)
    /\ DOMAIN notes = 1..n /\ DOMAIN notes' = 1..(n + 1)
    /\ notes'[n + 1] = k /\ \A i \in 1..n : notes'[i] = notes[i]

\* Reading a token makes the notes longer by it.
LEMMA NotesGrow ==
  ASSUME NoteTypes, NEW k \in NoteTokens, notes' = Append(notes, k)
  PROVE  Grown(k, Len(notes))
BY DEF NoteTypes, Grown

\* It opens a new dangerous element or leaves those there are,
LEMMA OpeningGrows ==
  ASSUME NEW k, NEW n, Grown(k, n)
  PROVE  /\ Opening \subseteq 1..n /\ n + 1 \notin Opening
         /\ (\A d \in Dangerous : k # OpenTag(d)) => Opening' = Opening
         /\ (\E d \in Dangerous : k = OpenTag(d)) => Opening' = Opening \cup {n + 1}
BY DEF Grown, Opening

\* and is enclosed by one that has not ended, or ends it.
LEMMA EnclosedGrows ==
  ASSUME NEW k, NEW n, Grown(k, n), NEW j \in Opening
  PROVE  /\ notes'[j] = notes[j]
         /\ \A i \in 1..n : i \in Enclosed(j)' <=> i \in Enclosed(j)
         /\ n + 1 \in Enclosed(j)' <=> ~Ended(j) /\ k # CloseTag(notes[j][2])
         /\ Ended(j)' <=> Ended(j) \/ k = CloseTag(notes[j][2])
<1> DEFINE c == CloseTag(notes[j][2])
<1>1. /\ n \in Nat /\ j \in 1..n
      /\ DOMAIN notes = 1..n /\ DOMAIN notes' = 1..(n + 1)
      /\ notes'[n + 1] = k /\ \A i \in 1..n : notes'[i] = notes[i]
  BY DEF Grown, Opening
<1>2. notes[j] # c
  BY TokenKinds DEF Opening
<1> HIDE DEF c
<1>3. notes'[j] = notes[j]
  BY <1>1
<1>4. ASSUME NEW i \in 1..n
      PROVE  i \in Enclosed(j)' <=> i \in Enclosed(j)
  <2>1. \A m \in j..i : m \in 1..n /\ notes'[m] = notes[m]
    BY <1>1
  <2> QED
    BY <2>1, <1>1, <1>3 DEF Enclosed
<1>5. Ended(j) <=> \E i \in 1..n : i > j /\ notes[i] = c
  BY <1>1 DEF Ended, c
<1>6. Ended(j)' <=> \E i \in 1..(n + 1) : i > j /\ notes'[i] = c
  BY <1>1, <1>3 DEF Ended, c
<1>7. Ended(j)' <=> Ended(j) \/ k = c
  <2>1. ASSUME Ended(j)'
        PROVE  Ended(j) \/ k = c
    <3>1. PICK i \in 1..(n + 1) : i > j /\ notes'[i] = c
      BY <2>1, <1>6
    <3>2. CASE i = n + 1
      BY <3>1, <3>2, <1>1
    <3>3. CASE i # n + 1
      BY <3>1, <3>3, <1>1, <1>5
    <3> QED
      BY <3>2, <3>3
  <2>2. ASSUME Ended(j)
        PROVE  Ended(j)'
    <3>1. PICK i \in 1..n : i > j /\ notes[i] = c
      BY <2>2, <1>5
    <3>2. i \in 1..(n + 1) /\ notes'[i] = c
      BY <3>1, <1>1
    <3> QED
      BY <3>1, <3>2, <1>6
  <2>3. ASSUME k = c
        PROVE  Ended(j)'
    <3>1. n + 1 \in 1..(n + 1) /\ n + 1 > j /\ notes'[n + 1] = c
      BY <2>3, <1>1
    <3> QED
      BY <3>1, <1>6
  <2> QED
    BY <2>1, <2>2, <2>3
<1>8. n + 1 \in Enclosed(j)' <=> \A m \in j..(n + 1) : notes'[m] # c
  BY <1>1, <1>3 DEF Enclosed, c
<1>9. n + 1 \in Enclosed(j)' <=> ~Ended(j)'
  <2>1. ASSUME Ended(j)'
        PROVE  n + 1 \notin Enclosed(j)'
    <3>1. PICK i \in 1..(n + 1) : i > j /\ notes'[i] = c
      BY <2>1, <1>6
    <3>2. i \in j..(n + 1)
      BY <3>1, <1>1
    <3> QED
      BY <3>1, <3>2, <1>8
  <2>2. ASSUME ~Ended(j)'
        PROVE  n + 1 \in Enclosed(j)'
    <3>1. SUFFICES ASSUME NEW m \in j..(n + 1)
                   PROVE  notes'[m] # c
      BY <1>8
    <3>2. CASE m = j
      BY <3>2, <1>2, <1>3
    <3>3. CASE m # j
      <4>1. m \in 1..(n + 1) /\ m > j
        BY <3>3, <1>1
      <4> QED
        BY <4>1, <2>2, <1>6
    <3> QED
      BY <3>2, <3>3
  <2> QED
    BY <2>1, <2>2
<1> QED
  BY <1>3, <1>4, <1>7, <1>9 DEF c

\* The texts that are to be kept.
LEMMA KeptGrows ==
  ASSUME NEW k, NEW n, Grown(k, n)
  PROVE  /\ IsFiniteSet(Kept) /\ Cardinality(Kept) \in Nat
         /\ k # Text => Kept' = Kept
         /\ k = Text /\ (\A j \in Opening : Ended(j)) =>
                Cardinality(Kept') = Cardinality(Kept) + 1
         /\ k = Text /\ (\E j \in Opening : ~Ended(j)) => Kept' = Kept
<1>1. /\ n \in Nat
      /\ DOMAIN notes = 1..n /\ DOMAIN notes' = 1..(n + 1)
      /\ notes'[n + 1] = k /\ \A i \in 1..n : notes'[i] = notes[i]
  BY DEF Grown
<1>2. IsFiniteSet(Kept) /\ Cardinality(Kept) \in Nat
  <2>1. Kept \in SUBSET (1..n) /\ IsFiniteSet(1..n)
    BY <1>1, FS_Interval DEF Kept
  <2>2. IsFiniteSet(Kept)
    BY <2>1, FS_Subset
  <2> QED
    BY <2>2, FS_CardinalityType
<1>3. n + 1 \notin Kept
  BY <1>1 DEF Kept
<1>4. ASSUME NEW i \in 1..n
      PROVE  (\A j \in Opening' : i \notin Enclosed(j)')
                 <=> (\A j \in Opening : i \notin Enclosed(j))
  <2>1. \A j \in Opening : i \in Enclosed(j)' <=> i \in Enclosed(j)
    BY EnclosedGrows
  <2>2. i \notin Enclosed(n + 1)'
    BY <1>1 DEF Enclosed
  <2>3. Opening' = Opening \/ Opening' = Opening \cup {n + 1}
    BY OpeningGrows
  <2> QED
    BY <2>1, <2>2, <2>3
<1>5. \A i \in 1..n : i \in Kept' <=> i \in Kept
  BY <1>1, <1>4 DEF Kept
<1>6. Kept' \subseteq 1..(n + 1) /\ Kept \subseteq 1..n
  BY <1>1 DEF Kept
<1>7. n + 1 \in Kept' <=> k = Text /\ \A j \in Opening' : n + 1 \notin Enclosed(j)'
  BY <1>1 DEF Kept
<1>8. \A i : i \in Kept' => i \in Kept \/ i = n + 1
  <2>1. \A i \in 1..(n + 1) : i \in 1..n \/ i = n + 1
    BY <1>1
  <2> QED
    BY <2>1, <1>5, <1>6
<1>9. \A i : i \in Kept => i \in Kept'
  BY <1>5, <1>6
<1>10. n + 1 \notin Kept' => Kept' = Kept
  BY <1>8, <1>9
<1>11. n + 1 \in Kept' => Kept' = Kept \cup {n + 1}
  BY <1>8, <1>9
<1>12. k = Text => /\ Opening' = Opening
                   /\ \A j \in Opening : n + 1 \in Enclosed(j)' <=> ~Ended(j)
  <2>1. SUFFICES ASSUME k = Text
                 PROVE  /\ Opening' = Opening
                        /\ \A j \in Opening : n + 1 \in Enclosed(j)' <=> ~Ended(j)
    OBVIOUS
  <2>2. \A t : k # OpenTag(t) /\ k # CloseTag(t)
    BY <2>1, TokenKinds
  <2> QED
    BY <2>2, OpeningGrows, EnclosedGrows
<1>13. n + 1 \in Kept' => Cardinality(Kept') = Cardinality(Kept) + 1
  BY <1>2, <1>3, <1>11, FS_AddElement
<1> QED
  BY <1>2, <1>7, <1>10, <1>12, <1>13

\* and the texts shown as many as those outside of dangerous elements.
LEMMA TextSoFarStep ==
  ASSUME NotesAssumption, NoteTypes, TextSoFar, [NotesNext]_noteVars
  PROVE  TextSoFar'
<1>1. CASE CloseRest
  <2>1. /\ noteStatus = "reading" /\ notes' = notes
        /\ \/ html' = html \o Closing /\ noteStatus' = "ok"
           \/ html' = <<>> /\ noteStatus' = "failed"
    BY <1>1 DEF CloseRest, Closing
  <2>2. TextsOf(html \o Closing) = TextsOf(html)
    <3> DEFINE l == Len(html)
               m == Len(Closing)
               s == html \o Closing
    <3>1. /\ html \in Seq(NoteTokens) /\ Closing \in Seq(NoteTokens)
          /\ \A i \in 1..m : Closing[i] # Text
      BY ClosingType, TokenKinds DEF NoteTypes
    <3>2. /\ l \in Nat /\ m \in Nat /\ DOMAIN html = 1..l /\ DOMAIN s = 1..(l + m)
          /\ \A i \in 1..l : s[i] = html[i]
          /\ \A i \in 1..m : s[l + i] = Closing[i]
      BY <3>1
    <3> HIDE DEF l, m, s
    <3>3. ASSUME NEW i \in 1..(l + m), i \notin 1..l
          PROVE  s[i] # Text
      <4>1. i - l \in 1..m /\ l + (i - l) = i
        BY <3>2, <3>3
      <4> QED
        BY <4>1, <3>1, <3>2
    <3>4. \A i \in 1..l : i \in 1..(l + m)
      BY <3>2
    <3> QED
      BY <3>2, <3>3, <3>4 DEF TextsOf, s
  <2>3. Opening' = Opening /\ Kept' = Kept /\ (noteStatus' = "reading") = FALSE
    BY <2>1 DEF Opening, Kept, Enclosed
  <2> QED
    BY <2>1, <2>2, <2>3 DEF TextSoFar
<1>2. ASSUME NEW k \in NoteTokens, Reads(k),
             \/ Shows(k) /\ opened' \in Seq(NoteTags)
             \/ Fails /\ opened' \in Seq(NoteTags)
             \/ Drops(k) \/ Begins(k) \/ Skip(k)
      PROVE  TextSoFar'
  <2>1. noteStatus = "reading" /\ notes' = Append(notes, k) /\ html \in Seq(NoteTokens)
    BY <1>2 DEF Reads, NoteTypes
  <2>2. PICK n : Grown(k, n)
    BY <2>1, NotesGrow
  <2>3. SUFFICES ASSUME Single(Opening'), noteStatus' # "failed"
                 PROVE  TextSoFar'
    BY DEF TextSoFar
  <2>4. Single(Opening)
    BY <2>2, <2>3, OpeningGrows DEF Single
  <2>5. /\ Opening = {} => skipping = "none"
        /\ \A j \in Opening : skipping = IF Ended(j) THEN "none" ELSE notes[j][2]
        /\ Cardinality(TextsOf(html)) = Cardinality(Kept)
    BY <2>1, <2>4 DEF TextSoFar
  <2>6. \A j \in Opening : notes[j][2] # "none"
    BY TokenKinds DEF Opening, NotesAssumption
  <2>7. skipping = "none" => \A j \in Opening : Ended(j)
    BY <2>5, <2>6
  <2>8. /\ \A j \in Opening : /\ notes'[j] = notes[j]
                              /\ Ended(j)' <=> Ended(j) \/ k = CloseTag(notes[j][2])
        /\ Cardinality(Kept) \in Nat
    BY <2>2, EnclosedGrows, KeptGrows
  <2>9. CASE Shows(k) \/ Drops(k)
    <3>1. skipping = "none" /\ skipping' = "none" /\ \A d \in Dangerous : k # OpenTag(d)
      BY <2>9 DEF Shows, Drops
    <3>2. Opening' = Opening /\ \A j \in Opening : Ended(j)'
      BY <2>2, <2>7, <2>8, <3>1, OpeningGrows
    <3>3. Cardinality(TextsOf(html')) = Cardinality(Kept')
      <4>1. CASE Shows(k) /\ k = Text
        <5>1. html' = Append(html, k)
          BY <4>1 DEF Shows
        <5>2. Cardinality(TextsOf(html')) = Cardinality(TextsOf(html)) + 1
          BY <2>1, <4>1, <5>1, TextsGrow
        <5>3. Cardinality(Kept') = Cardinality(Kept) + 1
          BY <2>2, <2>7, <3>1, <4>1, KeptGrows
        <5> QED
          BY <2>5, <5>2, <5>3
      <4>2. CASE Shows(k) /\ k # Text
        <5>1. html' = Append(html, k)
          BY <4>2 DEF Shows
        <5>2. TextsOf(html') = TextsOf(html)
          BY <2>1, <4>2, <5>1, TextsGrow
        <5>3. Kept' = Kept
          BY <2>2, <4>2, KeptGrows
        <5> QED
          BY <2>5, <5>2, <5>3
      <4>3. CASE Drops(k)
        <5>1. html' = html /\ k # Text
          BY <4>3 DEF Drops
        <5>2. Kept' = Kept
          BY <2>2, <5>1, KeptGrows
        <5> QED
          BY <2>5, <5>1, <5>2
      <4> QED
        BY <2>9, <4>1, <4>2, <4>3
    <3> QED
      BY <3>1, <3>2, <3>3 DEF TextSoFar
  <2>10. CASE Begins(k)
    <3>1. PICK d \in Dangerous : k = OpenTag(d) /\ skipping' = d /\ html' = html
      BY <2>10 DEF Begins
    <3>2. Opening' = Opening \cup {n + 1} /\ n + 1 \notin Opening
      BY <2>2, <3>1, OpeningGrows
    <3>3. Opening' = {n + 1}
      BY <2>3, <3>2 DEF Single
    <3>4. ~Ended(n + 1)' /\ notes'[n + 1][2] = d
      BY <2>2, <3>1, TokenKinds DEF Ended, Grown
    <3>5. \A j \in Opening' : skipping' = IF Ended(j)' THEN "none" ELSE notes'[j][2]
      BY <3>1, <3>3, <3>4
    <3>6. Opening' # {}
      BY <3>3
    <3>7. Kept' = Kept
      BY <2>2, <3>1, TokenKinds, KeptGrows
    <3> QED
      BY <2>5, <3>1, <3>7, <3>5, <3>6 DEF TextSoFar
  <2>11. CASE Skip(k)
    <3>1. /\ skipping # "none" /\ html' = html
          /\ skipping' = IF k = CloseTag(skipping) THEN "none" ELSE skipping
      BY <2>11 DEF Skip
    <3>2. PICK j \in Opening : ~Ended(j) /\ skipping = notes[j][2]
      BY <2>5, <3>1
    <3>3. Opening' = Opening
      BY <2>2, <2>3, <3>2, OpeningGrows DEF Single
    <3>4. Opening = {j}
      BY <2>4, <3>2 DEF Single
    <3>5. Ended(j)' <=> k = CloseTag(notes[j][2])
      BY <2>8, <3>2
    <3>6. skipping' = IF Ended(j)' THEN "none" ELSE notes'[j][2]
      BY <2>8, <3>1, <3>2, <3>5
    <3>7. Kept' = Kept
      BY <2>2, <3>2, KeptGrows
    <3> QED
      BY <2>5, <3>1, <3>3, <3>4, <3>6, <3>7 DEF TextSoFar
  <2> QED
    BY <1>2, <2>3, <2>9, <2>10, <2>11 DEF Fails
<1>3. CASE UNCHANGED noteVars
  BY <1>3 DEF noteVars, TextSoFar, Opening, Kept, Enclosed, Ended
<1> QED
  BY <1>1, <1>2, <1>3, NoteSteps

\* Nothing is read, shown or open at first.
LEMMA NotesStart ==
  ASSUME NotesAssumption, NotesInit
  PROVE  NotesInv
<1>1. /\ notes = <<>> /\ html = <<>> /\ opened = <<>> /\ Len(html) = 0
      /\ <<>> \in Seq(NoteTokens) /\ <<>> \in Seq(NoteTags)
      /\ skipping = "none" /\ noteStatus = "reading"
  BY DEF NotesInit
<1>2. NoteTypes
  BY <1>1 DEF NoteTypes
<1>3. HtmlRead
  <2>1. ReadOf(ReadBy(html), html)
    BY <1>1, ReadByEquation
  <2> QED
    BY <1>1, <2>1 DEF HtmlRead, ReadOf
<1>4. CleanShown
  BY <1>1 DEF CleanShown
<1>5. TextSoFar
  <2>1. DOMAIN notes = {} /\ DOMAIN html = {}
    BY <1>1
  <2>2. TextsOf(html) = {} /\ Kept = {} /\ Opening = {}
    BY <2>1 DEF TextsOf, Kept, Opening
  <2> QED
    BY <1>1, <2>2 DEF TextSoFar
<1> QED
  BY <1>2, <1>3, <1>4, <1>5 DEF NotesInv

\* In every state of the sanitizer its stack is what a reader of its output has
\* open, clean notes are shown as they came, and the texts that are shown are
\* those that no dangerous element encloses (update_html.c:668-806).
THEOREM NotesInvariant == NotesSpec => []NotesInv
<1>1. NotesInit => NotesInv
  BY NotesStart, NotesAssumption
<1>2. NotesInv /\ [NotesNext]_noteVars => NotesInv'
  BY NoteTypesStep, HtmlReadStep, CleanShownStep, TextSoFarStep, NotesAssumption
     DEF NotesInv
<1> QED
  BY <1>1, <1>2, PTL DEF NotesSpec

\* However many tags the notes have and however they are nested, crossed or left
\* open, what is shown is well-formed (update_html.c:720-731, 783-806).
THEOREM NotesAreBalanced == NotesSpec => []ShownBalanced
<1>1. NotesInv => ShownBalanced
  BY DEF NotesInv, HtmlRead, ShownBalanced, NotesDone
<1> QED
  BY <1>1, NotesInvariant, PTL

\* Well-formed notes of any length that use listed tags only, no deeper than the
\* stack, come out as they are (update_html.c:668-806).
THEOREM CleanNotesUnchanged == NotesSpec => []CleanUnchanged
<1>1. NotesInv => CleanUnchanged
  <2>1. SUFFICES ASSUME NotesInv, NotesDone, CleanNotes
                 PROVE  html = notes
    BY DEF CleanUnchanged
  <2>2. notes \in Seq(NoteTokens) /\ DOMAIN notes = 1..Len(notes)
    BY <2>1 DEF NotesInv, NoteTypes
  <2>3. \A i \in 1..Len(notes) : i \in 0..Len(notes) /\ ReadBy(notes)[i] # Unbalanced
    BY <2>1, <2>2, BalancedThroughout, NotesAssumption DEF CleanNotes
  <2>4. CleanSoFar /\ Balanced(notes)
    BY <2>1, <2>2, <2>3 DEF CleanNotes, CleanSoFar
  <2> QED
    BY <2>1, <2>4 DEF NotesInv, CleanShown, NotesDone
<1> QED
  BY <1>1, NotesInvariant, PTL

\* In notes of any length with one dangerous tag or none, exactly the text that
\* it does not enclose is shown (update_html.c:757-767, 325-332).
THEOREM NoTextLost == NotesSpec => []TextKept
<1>1. NotesInv => TextKept
  <2>1. SUFFICES ASSUME NotesInv, NotesDone, Cardinality(Opening) <= 1
                 PROVE  Cardinality(TextsOf(html)) = Cardinality(Kept)
    BY DEF TextKept, TextsOf, Kept
  <2>2. IsFiniteSet(Opening)
    <3>1. notes \in Seq(NoteTokens) /\ DOMAIN notes = 1..Len(notes) /\ Len(notes) \in Nat
      BY <2>1 DEF NotesInv, NoteTypes
    <3>2. Opening \in SUBSET (1..Len(notes)) /\ IsFiniteSet(1..Len(notes))
      BY <3>1, FS_Interval DEF Opening
    <3> QED
      BY <3>2, FS_Subset
  <2>3. Single(Opening)
    <3>1. Cardinality(Opening) \in Nat
      BY <2>2, FS_CardinalityType
    <3>2. CASE Cardinality(Opening) = 0
      BY <2>2, <3>2, FS_EmptySet DEF Single
    <3>3. CASE Cardinality(Opening) = 1
      BY <2>2, <3>3, FS_Singleton DEF Single
    <3> QED
      BY <2>1, <3>1, <3>2, <3>3
  <2> QED
    BY <2>1, <2>3 DEF NotesInv, TextSoFar, NotesDone
<1> QED
  BY <1>1, NotesInvariant, PTL

-----------------------------------------------------------------------------
(***************************************************************************)
(* Plain notes.  The loop that doubles the capacity comes to an end: after *)
(* i steps it has stopped or the capacity has grown by i at least.         *)
(***************************************************************************)

Grows(g, need, n) ==
    /\ g[0] = cap
    /\ \A i \in 1..n : g[i] = IF g[i - 1] < need /\ g[i - 1] < total
                             THEN 2 * g[i - 1] ELSE g[i - 1]

\* Doubling for as many steps as the limit is high passes the need or the limit.
LEMMA GrowthBounds ==
  ASSUME cap \in Nat \ {0}, total \in Nat \ {0}, NEW need \in Nat, NEW g,
         Grows(g, need, total)
  PROVE  /\ g[total] \in Nat /\ g[total] >= cap
         /\ g[total] >= need \/ g[total] >= total
<1> DEFINE In(i) == /\ g[i] \in Nat /\ g[i] >= cap
                    /\ g[i] >= need \/ g[i] >= total \/ g[i] >= cap + i
           S == {i \in Nat : i <= total => In(i)}
<1>1. 0 \in S
  BY DEF Grows
<1>2. ASSUME NEW i \in Nat, i \in S
      PROVE  i + 1 \in S
  <2> SUFFICES ASSUME i + 1 <= total
               PROVE  In(i + 1)
    OBVIOUS
  <2> DEFINE j == i + 1
  <2>1. j \in 1..total /\ j - 1 = i /\ In(i)
    BY <1>2
  <2>2. g[j] = IF g[i] < need /\ g[i] < total THEN 2 * g[i] ELSE g[i]
    <3> HIDE DEF j
    <3> QED
      BY <2>1 DEF Grows
  <2>3. 2 * g[i] = g[i] + g[i]
    BY <2>1
  <2> HIDE DEF j
  <2>4. In(j)
    BY <2>1, <2>2, <2>3
  <2> QED
    BY <2>4 DEF j
<1>3. Nat \subseteq S
  <2> HIDE DEF S
  <2> QED
    BY <1>1, <1>2, NumberInduction
<1>4. In(total)
  BY <1>3
<1> QED
  BY <1>4

\* The new capacity is no less than the old one and no more than the limit, and
\* suffices if the limit does.
LEMMA DoubledBounds ==
  ASSUME cap \in Nat \ {0}, total \in Nat \ {0}, cap <= total, NEW need \in Nat
  PROVE  /\ Doubled(need) \in Nat /\ cap <= Doubled(need) /\ Doubled(need) <= total
         /\ need <= total => Doubled(need) >= need
<1> DEFINE n == total
           step == [i \in 1..n |-> [c \in Nat |-> IF c < need /\ c < total THEN 2 * c ELSE c]]
           Solves(h) == h = [k \in 0..n |->
                                IF k = 0 THEN cap
                                ELSE IF h[k - 1] < need /\ h[k - 1] < total
                                     THEN 2 * h[k - 1] ELSE h[k - 1]]
           ncap == CHOOSE h : Solves(h)
<1>1. Doubled(need) = IF ncap[n] > total THEN total ELSE ncap[n]
  BY DEF Doubled
<1>2. n \in Nat /\ cap \in Nat
  OBVIOUS
<1>3. /\ step \in [1..n -> [Nat -> Nat]]
      /\ \A i \in 1..n : \A c \in Nat :
             step[i][c] = IF c < need /\ c < total THEN 2 * c ELSE c
  <2>1. \A c \in Nat : 2 * c \in Nat
    OBVIOUS
  <2> QED
    BY <2>1
<1>4. PICK f : Follows(f, n, Nat, cap, step)
  <2> HIDE DEF step, n
  <2> QED
    BY <1>2, <1>3, Recursion
<1> HIDE DEF step
<1>5. ASSUME NEW k \in 0..n
      PROVE  f[k] = IF k = 0 THEN cap
                    ELSE IF f[k - 1] < need /\ f[k - 1] < total
                         THEN 2 * f[k - 1] ELSE f[k - 1]
  <2>1. CASE k = 0
    BY <1>4, <2>1 DEF Follows
  <2>2. CASE k # 0
    <3>1. k \in 1..n /\ k - 1 \in 0..n
      BY <1>2, <2>2
    <3>2. f[k - 1] \in Nat /\ f[k] = step[k][f[k - 1]]
      BY <3>1, <1>4 DEF Follows
    <3> QED
      BY <3>1, <3>2, <2>2, <1>3
  <2> QED
    BY <2>1, <2>2
<1>6. Solves(f)
  <2>1. f = [k \in 0..n |-> f[k]]
    BY <1>4 DEF Follows
  <2>2. [k \in 0..n |-> f[k]] =
            [k \in 0..n |-> IF k = 0 THEN cap
                            ELSE IF f[k - 1] < need /\ f[k - 1] < total
                                 THEN 2 * f[k - 1] ELSE f[k - 1]]
    BY <1>5
  <2> QED
    BY <2>1, <2>2
<1>7. Solves(ncap)
  <2> HIDE DEF Solves
  <2> QED
    BY <1>6
<1> HIDE DEF ncap
<1>8. Grows(ncap, need, total)
  BY <1>7 DEF Grows
<1>9. /\ ncap[total] \in Nat /\ ncap[total] >= cap
      /\ ncap[total] >= need \/ ncap[total] >= total
  BY <1>8, GrowthBounds
<1> QED
  BY <1>1, <1>9

\* The width of the first characters.
LEMMA Widths ==
  ASSUME plain \in Seq(Characters)
  PROVE  /\ WidthOf[0] = 0
         /\ \A i \in 1..Len(plain) :
                /\ WidthOf[i] = WidthOf[i - 1] + EscapedLen(plain[i])
                /\ EscapedLen(plain[i]) \in Nat
         /\ \A i \in 0..Len(plain) : WidthOf[i] \in Nat /\ WidthOf[i] <= FullWidth
<1> DEFINE n == Len(plain)
           zero == 0
           step == [i \in 1..n |-> [w \in Nat |-> w + EscapedLen(plain[i])]]
           Solves(h) == h = [i \in 0..n |-> IF i = 0 THEN 0 ELSE h[i - 1] + EscapedLen(plain[i])]
           upto == CHOOSE h : Solves(h)
<1>1. WidthOf = upto
  BY DEF WidthOf
<1>2. n \in Nat /\ zero \in Nat /\ \A i \in 1..n : EscapedLen(plain[i]) \in Nat
  <2>1. \A c \in Characters : EscapedLen(c) \in Nat
    BY DEF Characters, EscapedLen
  <2> QED
    BY <2>1
<1>3. /\ step \in [1..n -> [Nat -> Nat]]
      /\ \A i \in 1..n : \A w \in Nat : step[i][w] = w + EscapedLen(plain[i])
  <2> HIDE DEF n
  <2> QED
    BY <1>2
<1>4. PICK f : Follows(f, n, Nat, zero, step)
  <2> HIDE DEF step, n, zero
  <2> QED
    BY <1>2, <1>3, Recursion
<1> HIDE DEF step, n
<1>5. ASSUME NEW k \in 0..n
      PROVE  f[k] = IF k = 0 THEN 0 ELSE f[k - 1] + EscapedLen(plain[k])
  <2>1. CASE k = 0
    BY <1>4, <2>1 DEF Follows
  <2>2. CASE k # 0
    <3>1. k \in 1..n /\ k - 1 \in 0..n
      BY <1>2, <2>2
    <3>2. f[k - 1] \in Nat /\ f[k] = step[k][f[k - 1]]
      BY <3>1, <1>4 DEF Follows
    <3> QED
      BY <3>1, <3>2, <2>2, <1>3
  <2> QED
    BY <2>1, <2>2
<1>6. Solves(f)
  <2>1. f = [k \in 0..n |-> f[k]]
    BY <1>4 DEF Follows
  <2>2. [k \in 0..n |-> f[k]] =
            [k \in 0..n |-> IF k = 0 THEN 0 ELSE f[k - 1] + EscapedLen(plain[k])]
    BY <1>5
  <2> QED
    BY <2>1, <2>2
<1>7. Solves(upto)
  <2> HIDE DEF Solves
  <2> QED
    BY <1>6
<1> HIDE DEF upto
<1>8. upto[0] = 0 /\ \A i \in 1..n : upto[i] = upto[i - 1] + EscapedLen(plain[i])
  BY <1>2, <1>7
<1> DEFINE S == {i \in Nat : i <= n => upto[i] \in Nat}
<1>9. 0 \in S
  BY <1>8
<1>10. ASSUME NEW i \in Nat, i \in S
       PROVE  i + 1 \in S
  <2> SUFFICES ASSUME i + 1 <= n
               PROVE  upto[i + 1] \in Nat
    OBVIOUS
  <2> DEFINE j == i + 1
  <2>1. j \in 1..n /\ j - 1 = i /\ upto[i] \in Nat
    BY <1>2, <1>10
  <2> HIDE DEF j
  <2>2. upto[j] \in Nat
    BY <2>1, <1>2, <1>8
  <2> QED
    BY <2>2 DEF j
<1>11. Nat \subseteq S
  <2> HIDE DEF S
  <2> QED
    BY <1>9, <1>10, NumberInduction
<1> DEFINE T == {i \in Nat : i <= n => upto[n - i] <= upto[n]}
<1>12. 0 \in T
  BY <1>2, <1>11
<1>13. ASSUME NEW i \in Nat, i \in T
       PROVE  i + 1 \in T
  <2> SUFFICES ASSUME i + 1 <= n
               PROVE  upto[n - (i + 1)] <= upto[n]
    OBVIOUS
  <2> DEFINE j == n - i
  <2>1. /\ j \in 1..n /\ n - (i + 1) = j - 1 /\ j - 1 \in Nat /\ j - 1 <= n
        /\ upto[j] <= upto[n] /\ n <= n
    BY <1>2, <1>13
  <2> HIDE DEF j
  <2>2. upto[j - 1] \in Nat /\ upto[n] \in Nat
    BY <1>2, <1>11, <2>1
  <2>3. upto[j - 1] <= upto[n]
    BY <2>1, <2>2, <1>2, <1>8
  <2> QED
    BY <2>1, <2>3
<1>14. Nat \subseteq T
  <2> HIDE DEF T
  <2> QED
    BY <1>12, <1>13, NumberInduction
<1>15. ASSUME NEW i \in 0..n
       PROVE  upto[i] \in Nat /\ upto[i] <= upto[n]
  <2>1. i \in Nat /\ i <= n /\ n - i \in Nat /\ n - i <= n /\ n - (n - i) = i
    BY <1>2
  <2>2. upto[n - (n - i)] <= upto[n]
    BY <2>1, <1>14
  <2> QED
    BY <2>1, <2>2, <1>11
<1> QED
  BY <1>1, <1>2, <1>8, <1>15 DEF FullWidth, n

(***************************************************************************)
(* The invariant: the buffer holds the width of what was put out.          *)
(***************************************************************************)
BufferInv ==
    /\ plain \in Seq(Characters) /\ total \in Nat \ {0}
    /\ done \in 0..Len(plain)
    /\ cap \in Nat \ {0} /\ len + 1 <= cap /\ cap <= total
    /\ len = WidthOf[done]
    /\ escaped = "ok" => done = Len(plain)
    /\ escaped = "error" => FullWidth + 1 > total

\* An empty buffer is within its bounds,
LEMMA BufferStart ==
  ASSUME EscapeAssumption, EscapeInit
  PROVE  BufferInv
<1>1. plain \in Seq(Characters)
  <2>1. PICK k \in 0..MaxPlain : plain \in [1..k -> Characters]
    BY DEF EscapeInit, Characters
  <2>2. k \in Nat
    OBVIOUS
  <2> QED
    BY <2>1, <2>2
<1>2. /\ total \in Nat \ {0} /\ FirstCap \in Nat \ {0}
      /\ cap = IF FirstCap < total THEN FirstCap ELSE total
      /\ done = 0 /\ len = 0 /\ escaped = "none"
  BY DEF EscapeInit, EscapeAssumption
<1>3. WidthOf[0] = 0 /\ 0 \in 0..Len(plain)
  BY <1>1, Widths
<1> QED
  BY <1>1, <1>2, <1>3 DEF BufferInv

\* and every append, failed or not, keeps it there.
LEMMA BufferStep ==
  ASSUME BufferInv, [EscapeNext]_escapeVars
  PROVE  BufferInv'
<1>1. /\ plain \in Seq(Characters) /\ total \in Nat \ {0}
      /\ done \in 0..Len(plain) /\ Len(plain) \in Nat
      /\ cap \in Nat \ {0} /\ len + 1 <= cap /\ cap <= total
      /\ len = WidthOf[done] /\ len \in Nat
      /\ WidthOf[done] <= FullWidth
  BY Widths DEF BufferInv
<1>2. CASE Put
  <2> DEFINE n == EscapedLen(plain[done + 1])
             need == len + n + 1
  <2>1. /\ plain' = plain /\ total' = total /\ escaped = "none"
        /\ done + 1 \in 1..Len(plain) /\ (done + 1) - 1 = done
        /\ done + 1 \in 0..Len(plain)
    BY <1>1, <1>2 DEF Put
  <2>2. /\ n \in Nat /\ WidthOf[done + 1] = len + n
        /\ WidthOf[done + 1] <= FullWidth /\ FullWidth \in Nat
    <3>1. /\ WidthOf[done + 1] = WidthOf[(done + 1) - 1] + n /\ n \in Nat
          /\ WidthOf[done + 1] <= FullWidth
      BY <1>1, <2>1, Widths
    <3>2. FullWidth \in Nat
      BY <1>1, Widths DEF FullWidth
    <3> QED
      BY <1>1, <2>1, <3>1, <3>2
  <2>3. /\ need \in Nat /\ Doubled(need) \in Nat
        /\ cap <= Doubled(need) /\ Doubled(need) <= total
        /\ need <= total => Doubled(need) >= need
    <3>1. need \in Nat
      BY <1>1, <2>2
    <3> HIDE DEF need
    <3> QED
      BY <3>1, <1>1, DoubledBounds
  <2>4. WidthOf' = WidthOf /\ FullWidth' = FullWidth
    BY <2>1 DEF WidthOf, FullWidth
  <2>5. Within(n) <=> need <= total
    <3>1. n \in Nat /\ len \in Nat /\ total \in Nat
      BY <1>1, <2>2
    <3> HIDE DEF n
    <3> QED
      BY <3>1 DEF Within
  <2>6. CASE Within(n) /\ Doubled(need) >= need
    <3>1. /\ len' = len + n /\ cap' = Doubled(need) /\ done' = done + 1
          /\ escaped' = "none"
      BY <1>2, <2>1, <2>6 DEF Put
    <3> HIDE DEF n
    <3> QED
      BY <3>1, <2>1, <2>2, <2>3, <2>4, <2>6, <1>1 DEF BufferInv
  <2>7. CASE ~(Within(n) /\ Doubled(need) >= need)
    <3>1. escaped' = "error" /\ UNCHANGED <<done, len, cap>>
      BY <1>2, <2>7 DEF Put
    <3>2. FullWidth + 1 > total
      <4>1. ~(need <= total)
        BY <2>3, <2>5, <2>7
      <4> QED
        BY <4>1, <2>2, <1>1
    <3> QED
      BY <3>1, <3>2, <2>1, <2>4, <1>1 DEF BufferInv
  <2> QED
    BY <2>6, <2>7
<1>3. CASE NoMemory
  BY <1>1, <1>3 DEF NoMemory, BufferInv, WidthOf, FullWidth
<1>4. CASE EndEscape
  BY <1>1, <1>4 DEF EndEscape, BufferInv, WidthOf, FullWidth
<1>5. CASE UNCHANGED escapeVars
  BY <1>5 DEF escapeVars, BufferInv, WidthOf, FullWidth
<1> QED
  BY <1>2, <1>3, <1>4, <1>5 DEF EscapeNext

\* Whatever the first capacity, the limit and the text, the terminator has its
\* place, and a text is refused exactly if it does not fit under the limit
\* (update_html.c:31-110, 589-641).
THEOREM BufferHoldsNotes == EscapeSpec => []BufferFits
<1>1. EscapeInit => BufferInv
  BY BufferStart, EscapeAssumption
<1>2. BufferInv /\ [EscapeNext]_escapeVars => BufferInv'
  BY BufferStep
<1>3. BufferInv => BufferFits
  BY DEF BufferInv, BufferFits, FullWidth
<1> QED
  BY <1>1, <1>2, <1>3, PTL DEF EscapeSpec
-----------------------------------------------------------------------------
(***************************************************************************)
(* Versions.  Numbers of two digits compare like their first digits, and   *)
(* like their second ones if the first are the same.                       *)
(***************************************************************************)
LEMMA HigherDigit ==
  ASSUME NEW m \in Nat \ {0}, NEW p \in Nat, NEW q \in Nat,
         NEW r \in 0..(m - 1), NEW s \in 0..(m - 1), p > q
  PROVE  p * m + r > q * m + s
<1> DEFINE d == p - q - 1
<1>1. d \in Nat /\ p = q + 1 + d /\ r \in Nat /\ s \in Nat /\ s < m /\ r >= 0
  OBVIOUS
<1>2. (q + 1 + d) * m = q * m + m + d * m
  BY <1>1
<1>3. d * m \in Nat /\ q * m \in Nat /\ p * m \in Nat
  BY <1>1
<1>4. p * m = q * m + m + d * m
  BY <1>1, <1>2
<1> HIDE DEF d
<1> QED
  BY <1>1, <1>3, <1>4

\* and like their second ones if the first are the same,
LEMMA TwoDigits ==
  ASSUME NEW m \in Nat \ {0}, NEW p \in Nat, NEW q \in Nat,
         NEW r \in 0..(m - 1), NEW s \in 0..(m - 1)
  PROVE  /\ p * m + r \in Nat /\ q * m + s \in Nat
         /\ p * m + r > q * m + s <=> p > q \/ (p = q /\ r > s)
         /\ p * m + r = q * m + s <=> p = q /\ r = s
<1>1. p * m \in Nat /\ q * m \in Nat /\ r \in Nat /\ s \in Nat
  OBVIOUS
<1>2. CASE p > q
  <2>1. p * m + r > q * m + s
    BY <1>2, HigherDigit
  <2> QED
    BY <1>1, <1>2, <2>1
<1>3. CASE q > p
  <2>1. q * m + s > p * m + r
    BY <1>3, HigherDigit
  <2> QED
    BY <1>1, <1>3, <2>1
<1>4. CASE p = q
  BY <1>1, <1>4
<1> QED
  BY <1>2, <1>3, <1>4

Digits == 0..(UintValues - 1)

\* A version has three digits to the base of an unsigned.
LEMMA VersionType ==
  ASSUME ManifestAssumption, NEW s \in DOMAIN Numbers
  PROVE  Version(s) \in [1..3 -> Digits]
<1>1. Numbers[s] \in Seq(Int) /\ UintValues \in Nat \ {0}
  BY DEF ManifestAssumption
<1>2. ASSUME NEW i \in 1..3
      PROVE  (IF i <= Len(Numbers[s]) THEN Numbers[s][i] % UintValues ELSE 0) \in Digits
  <2>1. i <= Len(Numbers[s]) => Numbers[s][i] \in Int
    BY <1>1
  <2>2. ASSUME NEW x \in Int
        PROVE  x % UintValues \in 0..(UintValues - 1)
    BY <1>1
  <2>3. 0 \in Digits
    BY <1>1 DEF Digits
  <2> QED
    BY <2>1, <2>2, <2>3 DEF Digits
<1> QED
  BY <1>2 DEF Version

ByDigits(m, p1, p2, p3, q1, q2, q3) ==
    (p1 * m + p2) * m + p3 > (q1 * m + q2) * m + q3
        <=> \/ p1 > q1
            \/ p1 = q1 /\ p2 > q2
            \/ p1 = q1 /\ p2 = q2 /\ p3 > q3

\* The order of three digits is the order of the numbers they make.
LEMMA ThreeDigits ==
  ASSUME NEW m \in Nat \ {0},
         NEW p1 \in 0..(m - 1), NEW p2 \in 0..(m - 1), NEW p3 \in 0..(m - 1),
         NEW q1 \in 0..(m - 1), NEW q2 \in 0..(m - 1), NEW q3 \in 0..(m - 1)
  PROVE  ByDigits(m, p1, p2, p3, q1, q2, q3)
<1>1. p1 \in Nat /\ q1 \in Nat
  OBVIOUS
<1> DEFINE a == p1 * m + p2
           b == q1 * m + q2
<1>2. /\ a \in Nat /\ b \in Nat
      /\ a > b <=> p1 > q1 \/ (p1 = q1 /\ p2 > q2)
      /\ a = b <=> p1 = q1 /\ p2 = q2
  BY <1>1, TwoDigits
<1> HIDE DEF a, b
<1>3. a * m + p3 > b * m + q3 <=> a > b \/ (a = b /\ p3 > q3)
  BY <1>2, TwoDigits
<1>4. a * m + p3 > b * m + q3 <=> \/ p1 > q1
                                  \/ p1 = q1 /\ p2 > q2
                                  \/ p1 = q1 /\ p2 = q2 /\ p3 > q3
  BY <1>2, <1>3
<1> QED
  BY <1>4 DEF a, b, ByDigits

\* The version that Newer prefers is the greater number.
LEMMA NewerIsGreater ==
  ASSUME ManifestAssumption, NEW v \in [1..3 -> Digits], NEW w \in [1..3 -> Digits]
  PROVE  Newer(v, w) <=> Weight(v) > Weight(w)
<1>1. UintValues \in Nat \ {0}
  BY DEF ManifestAssumption
<1>2. /\ v[1] \in Digits /\ v[2] \in Digits /\ v[3] \in Digits
      /\ w[1] \in Digits /\ w[2] \in Digits /\ w[3] \in Digits
  OBVIOUS
<1>3. \A p1, p2, p3, q1, q2, q3 \in Digits :
          ByDigits(UintValues, p1, p2, p3, q1, q2, q3)
  BY <1>1, ThreeDigits DEF Digits
<1>4. ByDigits(UintValues, v[1], v[2], v[3], w[1], w[2], w[3])
  BY <1>2, <1>3
<1>5. Newer(v, w) <=> \/ v[1] > w[1]
                      \/ v[1] = w[1] /\ v[2] > w[2]
                      \/ v[1] = w[1] /\ v[2] = w[2] /\ v[3] > w[3]
  <2> DEFINE Before(i) == v[i] > w[i] /\ \A j \in 1..(i - 1) : v[j] = w[j]
  <2>1. Newer(v, w) <=> Before(1) \/ Before(2) \/ Before(3)
    <3>1. Newer(v, w) <=> \E i \in 1..3 : Before(i)
      BY DEF Newer
    <3> HIDE DEF Before
    <3>2. 1..3 = {1, 2, 3}
      OBVIOUS
    <3> QED
      BY <3>1, <3>2
  <2>2. 1..(1 - 1) = {} /\ 1..(2 - 1) = {1} /\ 1..(3 - 1) = {1, 2}
    OBVIOUS
  <2>3. Before(1) <=> v[1] > w[1]
    BY <2>2
  <2>4. Before(2) <=> v[2] > w[2] /\ v[1] = w[1]
    BY <2>2
  <2>5. Before(3) <=> v[3] > w[3] /\ v[1] = w[1] /\ v[2] = w[2]
    BY <2>2
  <2> QED
    BY <2>1, <2>3, <2>4, <2>5
<1> QED
  BY <1>4, <1>5, Zenon DEF ByDigits, Weight

(***************************************************************************)
(* The tokens of a manifest.  The last one is neither a string nor a       *)
(* colon, so the search never looks behind it.                             *)
(***************************************************************************)
Punctuation == {"open", "close", "colon", "number", "comma"}
ManifestTokens == {Quote(s) : s \in DOMAIN Numbers} \cup {Mark(c) : c \in Punctuation}

\* Strings and marks are told apart by their type.
LEMMA MarkShape ==
  ASSUME NEW s
  PROVE  /\ Quote(s).type = "string" /\ Quote(s).text = s /\ Quote(s) # Colon
         /\ \A c : Mark(c).type = c
         /\ \A c \in Punctuation : Mark(c).type # "string" /\ Mark(c) # Quote(s)
         /\ \A c \in {"open", "close", "number", "comma"} : Mark(c) # Colon
BY Zenon DEF Quote, Mark, Colon, Punctuation

\* Different strings are different tokens.
LEMMA QuotesDiffer ==
  ASSUME NEW s, NEW t, Quote(s) = Quote(t)
  PROVE  s = t
BY MarkShape

\* The tokens of a value,
LEMMA ValueTokensType ==
  ASSUME ManifestAssumption, NEW m \in Members
  PROVE  /\ ValueTokens(m) \in Seq(ManifestTokens)
         /\ m.kind = "string" => ValueTokens(m) = <<Quote(m.value)>>
         /\ m.kind = "number" => ValueTokens(m) = <<Mark("number")>>
<1>1. m.kind = "string" => ValueTokens(m) = <<Quote(m.value)>>
  BY DEF ValueTokens
<1>2. m.kind = "number" => ValueTokens(m) = <<Mark("number")>>
  BY DEF ValueTokens
<1>3. m.kind = "object" =>
          ValueTokens(m) =
              <<Mark("open"), Quote("version"), Colon, Quote(m.value), Mark("close")>>
  BY DEF ValueTokens
<1>4. /\ Quote(m.value) \in ManifestTokens /\ Quote("version") \in ManifestTokens
      /\ Mark("number") \in ManifestTokens /\ Mark("open") \in ManifestTokens
      /\ Mark("close") \in ManifestTokens /\ Colon \in ManifestTokens
  BY Zenon DEF ManifestTokens, ManifestAssumption, Punctuation, Colon
<1>5. m.kind \in {"string", "number", "object"}
  BY DEF ManifestAssumption
<1>6. ValueTokens(m) \in Seq(ManifestTokens)
  <2>1. ASSUME NEW a \in ManifestTokens
        PROVE  <<a>> \in Seq(ManifestTokens)
    OBVIOUS
  <2>2. m.kind = "string" => ValueTokens(m) \in Seq(ManifestTokens)
    BY <2>1, <1>1, <1>4
  <2>3. m.kind = "number" => ValueTokens(m) \in Seq(ManifestTokens)
    BY <2>1, <1>2, <1>4
  <2>4. m.kind = "object" => ValueTokens(m) \in Seq(ManifestTokens)
    <3>1. <<Mark("open"), Quote("version"), Colon, Quote(m.value), Mark("close")>>
              \in Seq(ManifestTokens)
      BY <1>4
    <3> QED
      BY <3>1, <1>3, Zenon
  <2> QED
    BY <2>2, <2>3, <2>4, <1>5
<1> QED
  BY <1>1, <1>2, <1>6

\* and of a member, which end with a comma.
LEMMA MemberTokensType ==
  ASSUME ManifestAssumption, NEW m \in Members
  PROVE  /\ MemberTokens(m) \in Seq(ManifestTokens)
         /\ Len(MemberTokens(m)) > 0
         /\ MemberTokens(m)[Len(MemberTokens(m))] = Mark("comma")
<1> DEFINE v == ValueTokens(m)
<1>1. v \in Seq(ManifestTokens)
  BY ValueTokensType
<1>2. /\ Quote(m.name) \in ManifestTokens
      /\ Colon \in ManifestTokens
      /\ Mark("comma") \in ManifestTokens
  BY Zenon DEF ManifestTokens, ManifestAssumption, Punctuation, Colon
<1>3. MemberTokens(m) = <<Quote(m.name), Colon>> \o v \o <<Mark("comma")>>
  BY DEF MemberTokens
<1> HIDE DEF v
<1> QED
  BY <1>1, <1>2, <1>3

\* The tokens of one member come after those of the last.
LEMMA TokenSteps ==
  ASSUME ManifestAssumption, manifest \in Seq(Members)
  PROVE  \E f \in [0..Len(manifest) -> Seq(ManifestTokens)] :
             /\ f[0] = <<>>
             /\ \A i \in 1..Len(manifest) : f[i] = f[i - 1] \o MemberTokens(manifest[i])
             /\ Tokens = <<Mark("open")>> \o f[Len(manifest)]
<1> DEFINE n == Len(manifest)
           ss == [i \in DOMAIN manifest |-> MemberTokens(manifest[i])]
           all == FlattenSeq(ss)
<1>1. n \in Nat /\ \A i \in 1..n : manifest[i] \in Members
  OBVIOUS
<1>2. ss \in Seq(Seq(ManifestTokens)) /\ Len(ss) = n
  <2>1. DOMAIN manifest = 1..n
    OBVIOUS
  <2>2. \A i \in 1..n : MemberTokens(manifest[i]) \in Seq(ManifestTokens)
    BY <1>1, MemberTokensType
  <2>3. ss \in [1..n -> Seq(ManifestTokens)]
    BY <2>1, <2>2
  <2> HIDE DEF ss, n
  <2> QED
    BY <1>1, <2>3
<1>3. PICK f \in [0..n -> Seq(ManifestTokens)] :
          /\ f[0] = <<>>
          /\ \A i \in 1..n : f[i] = f[i - 1] \o ss[i]
          /\ all = f[n]
  <2> HIDE DEF ss, n
  <2> QED
    BY <1>2, FlattenSteps
<1>4. Tokens = <<Mark("open")>> \o all
  BY DEF Tokens
<1>5. \A i \in 1..n : ss[i] = MemberTokens(manifest[i])
  BY <1>1
<1> HIDE DEF ss, all
<1> QED
  BY <1>3, <1>4, <1>5

\* No token that the search finds is the last one.
NeverLast(t) ==
    /\ t \in Seq(ManifestTokens)
    /\ \A p \in 1..Len(t) :
           t[p].type = "string" \/ t[p] = Colon => p + 1 \in 1..Len(t)

\* The last token is a brace or a comma.
LEMMA TokensGoOn ==
  ASSUME ManifestAssumption, manifest \in Seq(Members)
  PROVE  NeverLast(Tokens)
<1> DEFINE n == Len(manifest)
<1>1. n \in Nat /\ \A i \in 1..n : manifest[i] \in Members
  OBVIOUS
<1>2. PICK f \in [0..n -> Seq(ManifestTokens)] :
          /\ f[0] = <<>>
          /\ \A i \in 1..n : f[i] = f[i - 1] \o MemberTokens(manifest[i])
          /\ Tokens = <<Mark("open")>> \o f[n]
  BY TokenSteps
<1>3. Mark("open") \in ManifestTokens
  BY DEF ManifestTokens, Punctuation
<1> HIDE DEF n
<1> DEFINE all == f[n]
<1>4. all \in Seq(ManifestTokens) /\ (all # <<>> => all[Len(all)] = Mark("comma"))
  <2>1. CASE n = 0
    BY <2>1, <1>2
  <2>2. CASE n # 0
    <3> DEFINE b == f[n - 1]
               m == MemberTokens(manifest[n])
    <3>1. n \in 1..n /\ n - 1 \in 0..n
      BY <1>1, <2>2
    <3>2. all = b \o m /\ b \in Seq(ManifestTokens)
      BY <3>1, <1>2
    <3>3. m \in Seq(ManifestTokens) /\ Len(m) > 0 /\ m[Len(m)] = Mark("comma")
      BY <3>1, <1>1, MemberTokensType
    <3> HIDE DEF all, b, m
    <3> QED
      BY <3>2, <3>3
  <2> QED
    BY <2>1, <2>2
<1>5. Tokens = <<Mark("open")>> \o all
  BY <1>2
<1> HIDE DEF all
<1>6. Tokens \in Seq(ManifestTokens) /\ Len(Tokens) \in Nat /\ Len(Tokens) > 0
  BY <1>3, <1>4, <1>5
<1>7. Tokens[Len(Tokens)] \in {Mark("open"), Mark("comma")}
  <2>1. CASE all = <<>>
    BY <2>1, <1>3, <1>5
  <2>2. CASE all # <<>>
    BY <2>2, <1>3, <1>4, <1>5
  <2> QED
    BY <2>1, <2>2
<1>8. ASSUME NEW p \in 1..Len(Tokens),
             Tokens[p].type = "string" \/ Tokens[p] = Colon
      PROVE  p + 1 \in 1..Len(Tokens)
  <2>1. \A c \in {"open", "comma"} : Mark(c).type # "string" /\ Mark(c) # Colon
    BY MarkShape DEF Punctuation
  <2>2. p # Len(Tokens)
    BY <2>1, <1>7, <1>8
  <2> QED
    BY <2>2, <1>6
<1> QED
  BY <1>6, <1>8 DEF NeverLast

\* A set of numbers that is not empty has a least one.
LEMMA LeastNumber ==
  ASSUME NEW S \in SUBSET Nat, S # {}
  PROVE  \E i \in S : \A j \in S : i <= j
<1>1. PICK i \in S : \A j \in S : <<j, i>> \notin OpToRel(<, Nat)
  BY NatLessThanWellFounded, WFMin
<1>2. ASSUME NEW j \in S
      PROVE  i <= j
  <2>1. i \in Nat /\ j \in Nat
    OBVIOUS
  <2>2. <<j, i>> \in Nat \X Nat /\ <<j, i>>[1] = j /\ <<j, i>>[2] = i
    BY <2>1
  <2>3. j < i => <<j, i>> \in OpToRel(<, Nat)
    BY <2>2 DEF OpToRel
  <2>4. ~ (j < i)
    BY <1>1, <2>3, Zenon
  <2> QED
    BY <2>1, <2>4
<1> QED
  BY <1>2

\* What the search finds: the string behind the first place of the name.
PlacesOf(key) == {i \in DOMAIN Tokens : Tokens[i] = Quote(key)}
Leads(key, p) == p \in PlacesOf(key) /\ \A j \in PlacesOf(key) : p <= j

\* The search looks behind the first place of a name.
LEMMA Search ==
  ASSUME ManifestAssumption, manifest \in Seq(Members), NEW key
  PROVE  /\ PlacesOf(key) = {} => FindString(key) = Missing
         /\ PlacesOf(key) # {} =>
                \E p : /\ Leads(key, p)
                       /\ FindString(key) =
                              IF Tokens[p + 1] = Colon /\ Tokens[p + 2].type = "string"
                              THEN Tokens[p + 2].text ELSE Missing
<1>1. NeverLast(Tokens)
  BY TokensGoOn
<1>2. PlacesOf(key) \subseteq Nat
  BY <1>1 DEF PlacesOf, NeverLast
<1> DEFINE p == CHOOSE i \in PlacesOf(key) : \A j \in PlacesOf(key) : i <= j
<1>3. FindString(key) = IF /\ PlacesOf(key) # {}
                           /\ Tokens[p + 1] = Colon
                           /\ Tokens[p + 2].type = "string"
                        THEN Tokens[p + 2].text ELSE Missing
  BY Zenon DEF FindString, PlacesOf
<1>4. PlacesOf(key) # {} => Leads(key, p)
  BY <1>2, LeastNumber DEF Leads
<1> HIDE DEF p
<1> QED
  BY <1>3, <1>4

\* What it finds is a string of the manifest.
LEMMA FoundIsString ==
  ASSUME ManifestAssumption, manifest \in Seq(Members), NEW key,
         FindString(key) # Missing
  PROVE  FindString(key) \in DOMAIN Numbers
<1>1. NeverLast(Tokens)
  BY TokensGoOn
<1>2. PICK p : /\ Leads(key, p)
               /\ Tokens[p + 1] = Colon /\ Tokens[p + 2].type = "string"
               /\ FindString(key) = Tokens[p + 2].text
  BY Search
<1>3. p \in 1..Len(Tokens) /\ Tokens[p].type = "string"
  BY <1>1, <1>2, MarkShape DEF Leads, PlacesOf, NeverLast
<1>4. p + 1 \in 1..Len(Tokens)
  BY <1>1, <1>3 DEF NeverLast
<1>5. (p + 1) + 1 \in 1..Len(Tokens)
  BY <1>1, <1>2, <1>4 DEF NeverLast
<1>6. p + 2 \in 1..Len(Tokens)
  BY <1>3, <1>5
<1>7. Tokens[p + 2] \in ManifestTokens
  BY <1>1, <1>6 DEF NeverLast
<1>8. PICK s \in DOMAIN Numbers : Tokens[p + 2] = Quote(s)
  BY <1>2, <1>7, MarkShape DEF ManifestTokens
<1> QED
  BY <1>2, <1>8, MarkShape

\* This holds of the versions of any two strings.
LEMMA VersionsCompare ==
  ASSUME ManifestAssumption, NEW s \in DOMAIN Numbers, NEW t \in DOMAIN Numbers
  PROVE  Newer(Version(s), Version(t)) <=> Weight(Version(s)) > Weight(Version(t))
BY VersionType, NewerIsGreater

(***************************************************************************)
(* The check.  What it took out of the manifest is what the search found,  *)
(* a version among it, and its answer is the comparison of two versions.   *)
(***************************************************************************)
Answers == {"parsed", "available", "not_available"}

ManifestTypes ==
    /\ manifest \in Seq(Members)
    /\ local \in Locals
    /\ verdict \in Answers \cup {"none", "error"}

TakenFromIt ==
    verdict \in Answers =>
        /\ \A k \in Required : info[k] = FindString(k) /\ FindString(k) # Missing
        /\ info.description = IF FindString("description") = Missing
                              THEN NoText ELSE FindString("description")

Compared ==
    Checked => (verdict = "available" <=> Newer(Version(info.version), Version(local)))

WithReason ==
    verdict = "error" =>
        \/ \E k \in Required : FindString(k) \in {Missing} \cup Overlong
        \/ \E k \in Optional : FindString(k) \in Overlong
        \/ FindString("description") # Missing
        \/ Numbers[FindString("version")] = <<>>

ManifestInv == ManifestTypes /\ TakenFromIt /\ Compared /\ WithReason

\* The search depends on the manifest only.
LEMMA SameSearch ==
  ASSUME manifest' = manifest, NEW CONSTANT key
  PROVE  FindString(key)' = FindString(key)
<1>1. Tokens' = Tokens
  BY DEF Tokens
<1> QED
  BY <1>1 DEF FindString

\* Nothing is taken from the manifest at first.
LEMMA ManifestStart ==
  ASSUME ManifestInit
  PROVE  ManifestInv
<1>1. manifest \in Seq(Members)
  <2>1. PICK n \in 0..MaxMembers : manifest \in [1..n -> Members]
    BY DEF ManifestInit
  <2> QED
    BY <2>1
<1> QED
  BY <1>1 DEF ManifestInit, ManifestInv, ManifestTypes, TakenFromIt, Compared, WithReason,
              Checked, Answers

\* What is taken is what the search finds, and the answer compares it.
LEMMA ManifestStep ==
  ASSUME ManifestInv, [ManifestNext]_manifestVars
  PROVE  ManifestInv'
<1>1. CASE Parse
  <2>1. ManifestTypes'
    BY <1>1 DEF Parse, ManifestInv, ManifestTypes, Answers
  <2>2. \A k : FindString(k)' = FindString(k)
    BY <1>1, SameSearch DEF Parse
  <2>3. TakenFromIt'
    BY <1>1, <2>2 DEF Parse, TakenFromIt, Answers, Required
  <2>4. Compared'
    BY <1>1 DEF Parse, Compared, Checked
  <2>5. WithReason'
    BY <1>1, <2>2 DEF Parse, WithReason
  <2> QED
    BY <2>1, <2>3, <2>4, <2>5 DEF ManifestInv
<1>2. CASE Compare
  <2>1. ManifestTypes'
    BY <1>2 DEF Compare, ManifestInv, ManifestTypes, Answers
  <2>2. \A k : FindString(k)' = FindString(k)
    BY <1>2, SameSearch DEF Compare
  <2>3. TakenFromIt'
    BY <1>2, <2>2 DEF Compare, ManifestInv, TakenFromIt, Answers
  <2>4. Compared'
    BY <1>2 DEF Compare, Compared, Checked, Newer, Version
  <2>5. WithReason'
    <3>1. info.version = FindString("version")
      BY <1>2 DEF Compare, ManifestInv, TakenFromIt, Answers, Required
    <3> QED
      BY <1>2, <2>2, <3>1 DEF Compare, WithReason
  <2> QED
    BY <2>1, <2>3, <2>4, <2>5 DEF ManifestInv
<1>3. CASE UNCHANGED manifestVars
  <2>1. \A k : FindString(k)' = FindString(k)
    BY <1>3, SameSearch DEF manifestVars
  <2> QED
    BY <1>3, <2>1 DEF manifestVars, ManifestInv, ManifestTypes, TakenFromIt, Compared,
                      WithReason, Checked, Newer, Version
<1> QED
  BY <1>1, <1>2, <1>3 DEF ManifestNext

\* The strengthening of the two properties of a check holds in every state
\* that update_remote_check goes through (update_remote_check.c:107-237).
THEOREM ManifestInvariant == ManifestSpec => []ManifestInv
<1>1. ManifestInit => ManifestInv
  BY ManifestStart
<1>2. ManifestInv /\ [ManifestNext]_manifestVars => ManifestInv'
  BY ManifestStep
<1> QED
  BY <1>1, <1>2, PTL DEF ManifestSpec

\* An update is offered exactly when its version, as a number, is the greater
\* one, whatever a manifest holds and however wide an unsigned is
\* (update_remote_check.c:14-68).
THEOREM GreaterIsOffered == ManifestSpec => []OffersNewer
<1>1. ManifestInv => OffersNewer
  <2> SUFFICES ASSUME ManifestInv, Checked
               PROVE  verdict = "available"
                          <=> Weight(Version(info.version)) > Weight(Version(local))
    BY DEF OffersNewer
  <2>1. manifest \in Seq(Members) /\ local \in DOMAIN Numbers
    BY ManifestAssumption DEF ManifestInv, ManifestTypes, ManifestAssumption
  <2>2. info.version = FindString("version") /\ FindString("version") # Missing
    BY DEF ManifestInv, TakenFromIt, Answers, Checked, Required
  <2>3. info.version \in DOMAIN Numbers
    BY <2>1, <2>2, FoundIsString, ManifestAssumption
  <2>4. verdict = "available" <=> Newer(Version(info.version), Version(local))
    BY DEF ManifestInv, Compared
  <2> QED
    BY <2>1, <2>3, <2>4, VersionsCompare, ManifestAssumption
<1> QED
  BY <1>1, ManifestInvariant, PTL

(***************************************************************************)
(* Plain manifests.  Each member takes four tokens, and what is a name     *)
(* that is looked for stands at the first of them.                         *)
(***************************************************************************)
ValueToken(m) == IF m.kind = "string" THEN Quote(m.value) ELSE Mark("number")

\* What stands where when one sequence comes after another.
Chained(s, e, u) ==
    /\ Len(u) = Len(s) + Len(e)
    /\ \A p \in 1..Len(s) : u[p] = s[p]
    /\ \A p \in 1..Len(e) : u[Len(s) + p] = e[p]

\* Each element of the second stands as far behind the first.
LEMMA Behind ==
  ASSUME NEW D, NEW s \in Seq(D), NEW e \in Seq(D)
  PROVE  s \o e \in Seq(D) /\ Chained(s, e, s \o e)
<1>1. s \o e \in Seq(D) /\ Len(s \o e) = Len(s) + Len(e)
  OBVIOUS
<1>2. \A p \in 1..Len(s) : (s \o e)[p] = s[p]
  OBVIOUS
<1>3. \A p \in 1..Len(e) : (s \o e)[Len(s) + p] = e[p]
  OBVIOUS
<1> QED
  BY <1>1, <1>2, <1>3 DEF Chained

\* The four tokens of a member whose value is no object.
LEMMA FourTokens ==
  ASSUME ManifestAssumption, NEW m \in Members, m.kind # "object"
  PROVE  /\ MemberTokens(m) \in Seq(ManifestTokens)
         /\ Len(MemberTokens(m)) = 4
         /\ MemberTokens(m)[1] = Quote(m.name)
         /\ MemberTokens(m)[2] = Colon
         /\ MemberTokens(m)[3] = ValueToken(m)
         /\ MemberTokens(m)[4] = Mark("comma")
<1> DEFINE v == ValueTokens(m)
<1>1. m.kind \in {"string", "number"}
  BY DEF ManifestAssumption
<1>2. v \in Seq(ManifestTokens) /\ Len(v) = 1 /\ v[1] = ValueToken(m)
  <2>1. v = <<ValueToken(m)>>
    BY <1>1, ValueTokensType DEF ValueToken
  <2>2. v \in Seq(ManifestTokens)
    BY ValueTokensType
  <2> QED
    BY <2>1, <2>2
<1>3. /\ Quote(m.name) \in ManifestTokens
      /\ Colon \in ManifestTokens /\ Mark("comma") \in ManifestTokens
  BY DEF ManifestTokens, ManifestAssumption, Punctuation, Colon
<1>4. MemberTokens(m) = <<Quote(m.name), Colon>> \o v \o <<Mark("comma")>>
  BY DEF MemberTokens
<1> DEFINE q == <<Quote(m.name), Colon>>
           s == q \o v
           e == <<Mark("comma")>>
<1>5. q \in Seq(ManifestTokens) /\ Len(q) = 2 /\ q[1] = Quote(m.name) /\ q[2] = Colon
  BY <1>3
<1>6. e \in Seq(ManifestTokens) /\ Len(e) = 1 /\ e[1] = Mark("comma")
  BY <1>3
<1>7. MemberTokens(m) = s \o e
  BY <1>4
<1> HIDE DEF v, q, e
<1>8. s \in Seq(ManifestTokens) /\ Chained(q, v, s)
  BY <1>2, <1>5, Behind
<1> HIDE DEF s
<1>9. Len(s) = 3 /\ s[1] = Quote(m.name) /\ s[2] = Colon /\ s[3] = ValueToken(m)
  BY <1>2, <1>5, <1>8 DEF Chained
<1>10. s \o e \in Seq(ManifestTokens) /\ Chained(s, e, s \o e)
  BY <1>6, <1>8, Behind
<1> QED
  BY <1>6, <1>7, <1>9, <1>10 DEF Chained

Laid(t, k) ==
    /\ t \in Seq(ManifestTokens)
    /\ Len(t) = 4 * k
    /\ \A j \in 1..k : /\ t[4 * j - 3] = Quote(manifest[j].name)
                       /\ t[4 * j - 2] = Colon
                       /\ t[4 * j - 1] = ValueToken(manifest[j])
                       /\ t[4 * j] = Mark("comma")

\* One member more takes the next four places,
LEMMA LaidOn ==
  ASSUME NEW t, NEW i \in Nat, Laid(t, i),
         NEW e \in Seq(ManifestTokens), Len(e) = 4,
         e[1] = Quote(manifest[i + 1].name), e[2] = Colon,
         e[3] = ValueToken(manifest[i + 1]), e[4] = Mark("comma")
  PROVE  Laid(t \o e, i + 1)
<1> DEFINE u == t \o e
<1>1. t \in Seq(ManifestTokens) /\ Len(t) = 4 * i
  BY DEF Laid
<1>2. u \in Seq(ManifestTokens) /\ Chained(t, e, u)
  BY <1>1, Behind
<1> HIDE DEF u
<1>3. /\ Len(u) = 4 * i + 4
      /\ \A p \in 1..(4 * i) : u[p] = t[p]
      /\ u[4 * i + 1] = e[1] /\ u[4 * i + 2] = e[2]
      /\ u[4 * i + 3] = e[3] /\ u[4 * i + 4] = e[4]
  BY <1>1, <1>2 DEF Chained
<1>4. ASSUME NEW j \in 1..(i + 1)
      PROVE  /\ u[4 * j - 3] = Quote(manifest[j].name)
             /\ u[4 * j - 2] = Colon
             /\ u[4 * j - 1] = ValueToken(manifest[j])
             /\ u[4 * j] = Mark("comma")
  <2>1. CASE j = i + 1
    <3>1. /\ 4 * j - 3 = 4 * i + 1 /\ 4 * j - 2 = 4 * i + 2
          /\ 4 * j - 1 = 4 * i + 3 /\ 4 * j = 4 * i + 4
      BY <2>1
    <3> QED
      BY <2>1, <3>1, <1>3
  <2>2. CASE j # i + 1
    <3>1. /\ j \in 1..i
          /\ 4 * j - 3 \in 1..(4 * i) /\ 4 * j - 2 \in 1..(4 * i)
          /\ 4 * j - 1 \in 1..(4 * i) /\ 4 * j \in 1..(4 * i)
      BY <2>2
    <3> QED
      BY <3>1, <1>3 DEF Laid
  <2> QED
    BY <2>1, <2>2
<1>5. Len(u) = 4 * (i + 1)
  BY <1>3
<1>6. Laid(u, i + 1)
  BY <1>2, <1>4, <1>5 DEF Laid
<1> QED
  BY <1>6 DEF u

\* so a plain manifest is laid out in fours.
LEMMA LaidOut ==
  ASSUME ManifestAssumption, manifest \in Seq(Members), Plain
  PROVE  \E t : Tokens = <<Mark("open")>> \o t /\ Laid(t, Len(manifest))
<1> DEFINE n == Len(manifest)
<1>1. /\ n \in Nat
      /\ \A i \in 1..n : manifest[i] \in Members /\ manifest[i].kind # "object"
  BY DEF Plain
<1>2. PICK f \in [0..n -> Seq(ManifestTokens)] :
          /\ f[0] = <<>>
          /\ \A i \in 1..n : f[i] = f[i - 1] \o MemberTokens(manifest[i])
          /\ Tokens = <<Mark("open")>> \o f[n]
  BY TokenSteps
<1> HIDE DEF n
<1> DEFINE S == {i \in Nat : i <= n => Laid(f[i], i)}
<1>3. 0 \in S
  <2>1. /\ f[0] = <<>> /\ Len(<<>>) = 4 * 0
        /\ 1..0 = {} /\ <<>> \in Seq(ManifestTokens)
    BY <1>2
  <2> QED
    BY <2>1 DEF Laid
<1>4. ASSUME NEW i \in Nat, i \in S
      PROVE  i + 1 \in S
  <2> SUFFICES ASSUME i + 1 <= n
               PROVE  Laid(f[i + 1], i + 1)
    OBVIOUS
  <2>1. PICK j : j = i + 1
    OBVIOUS
  <2>2. j \in 1..n /\ j - 1 = i /\ Laid(f[i], i)
    BY <2>1, <1>1, <1>4
  <2>3. f[j] = f[i] \o MemberTokens(manifest[j])
    BY <2>2, <1>2
  <2>4. /\ MemberTokens(manifest[j]) \in Seq(ManifestTokens)
        /\ Len(MemberTokens(manifest[j])) = 4
        /\ MemberTokens(manifest[j])[1] = Quote(manifest[j].name)
        /\ MemberTokens(manifest[j])[2] = Colon
        /\ MemberTokens(manifest[j])[3] = ValueToken(manifest[j])
        /\ MemberTokens(manifest[j])[4] = Mark("comma")
    BY <2>2, <1>1, FourTokens
  <2>5. Laid(f[i] \o MemberTokens(manifest[j]), j)
    BY <2>1, <2>2, <2>4, LaidOn
  <2> QED
    BY <2>1, <2>3, <2>5
<1>5. Laid(f[n], n)
  <2> HIDE DEF S
  <2>1. Nat \subseteq S
    BY <1>3, <1>4, NumberInduction
  <2> QED
    BY <2>1, <1>1 DEF S
<1> QED
  BY <1>2, <1>5 DEF n

\* Each number is one of the four around a multiple of four.
LEMMA FourPlaces ==
  ASSUME NEW p \in Int, NEW k \in Int, k <= p + 2, p + 2 < k + 4
  PROVE  p \in {k - 2, k - 1, k, k + 1}
<1>1. p + 2 = k \/ p + 2 = k + 1 \/ p + 2 = k + 2 \/ p + 2 = k + 3
  OBVIOUS
<1> QED
  BY <1>1

Sought == Required \cup Optional

\* Where the tokens of a member stand behind the brace, and where a name stands.
LEMMA PlainTokens ==
  ASSUME ManifestAssumption, manifest \in Seq(Members), Plain
  PROVE  /\ \A j \in 1..Len(manifest) :
                /\ 4 * j - 2 \in DOMAIN Tokens
                /\ Tokens[4 * j - 2] = Quote(manifest[j].name)
                /\ Tokens[4 * j - 1] = Colon
                /\ Tokens[4 * j] = ValueToken(manifest[j])
         /\ \A key \in Sought : \A p \in DOMAIN Tokens :
                Tokens[p] = Quote(key) =>
                    \E j \in 1..Len(manifest) : p = 4 * j - 2 /\ manifest[j].name = key
<1> DEFINE n == Len(manifest)
           b == <<Mark("open")>>
<1>1. PICK t : Tokens = b \o t /\ Laid(t, n)
  BY LaidOut
<1>2. n \in Nat
  OBVIOUS
<1>3. b \in Seq(ManifestTokens) /\ Len(b) = 1 /\ b[1] = Mark("open")
  BY DEF ManifestTokens, Punctuation
<1>4. t \in Seq(ManifestTokens) /\ Len(t) = 4 * n
  BY <1>1 DEF Laid
<1> HIDE DEF b
<1>5. Tokens \in Seq(ManifestTokens) /\ Chained(b, t, Tokens)
  BY <1>1, <1>3, <1>4, Behind
<1> HIDE DEF n
<1>6. /\ DOMAIN Tokens = 1..(4 * n + 1)
      /\ Tokens[1] = Mark("open")
      /\ \A p \in 1..(4 * n) : Tokens[p + 1] = t[p]
  <2>1. Len(Tokens) = 4 * n + 1 /\ \A p \in 1..(4 * n) : Tokens[1 + p] = t[p]
    BY <1>2, <1>3, <1>4, <1>5 DEF Chained
  <2>2. Tokens[1] = b[1]
    BY <1>3, <1>5 DEF Chained
  <2>3. \A p \in 1..(4 * n) : 1 + p = p + 1
    BY <1>2
  <2> QED
    BY <1>3, <1>5, <2>1, <2>2, <2>3
<1>7. ASSUME NEW j \in 1..n
      PROVE  /\ 4 * j - 2 \in DOMAIN Tokens
             /\ Tokens[4 * j - 2] = Quote(manifest[j].name)
             /\ Tokens[4 * j - 1] = Colon
             /\ Tokens[4 * j] = ValueToken(manifest[j])
             /\ Tokens[4 * j + 1] = Mark("comma")
  <2>1. /\ 4 * j - 3 \in 1..(4 * n) /\ (4 * j - 3) + 1 = 4 * j - 2
        /\ 4 * j - 2 \in 1..(4 * n) /\ (4 * j - 2) + 1 = 4 * j - 1
        /\ 4 * j - 1 \in 1..(4 * n) /\ (4 * j - 1) + 1 = 4 * j
        /\ 4 * j \in 1..(4 * n)
        /\ 4 * j - 2 \in 1..(4 * n + 1)
    BY <1>2
  <2>2. /\ t[4 * j - 3] = Quote(manifest[j].name)
        /\ t[4 * j - 2] = Colon
        /\ t[4 * j - 1] = ValueToken(manifest[j])
        /\ t[4 * j] = Mark("comma")
    BY <1>1 DEF Laid
  <2>3. \A p \in 1..(4 * n) : \A q : p + 1 = q => Tokens[q] = t[p]
    BY <1>6
  <2> QED
    BY <1>6, <2>1, <2>2, <2>3
<1>8. ASSUME NEW key \in Sought, NEW p \in DOMAIN Tokens, Tokens[p] = Quote(key)
      PROVE  \E j \in 1..n : p = 4 * j - 2 /\ manifest[j].name = key
  <2>1. Quote(key) \notin {Mark("open"), Mark("comma"), Mark("number"), Colon}
    BY MarkShape DEF Punctuation
  <2>2. p \in 2..(4 * n + 1)
    BY <1>2, <1>6, <1>8, <2>1
  <2>3. PICK j \in 1..n : p \in {4 * j - 2, 4 * j - 1, 4 * j, 4 * j + 1}
    <3> DEFINE j == (p + 2) \div 4
    <3>1. j \in Int /\ 4 * j <= p + 2 /\ p + 2 < 4 * j + 4
      BY <1>2, <2>2
    <3> HIDE DEF j
    <3>2. p \in Int /\ 2 <= p /\ p <= 4 * n + 1
      BY <1>2, <2>2
    <3>3. j \in 1..n
      BY <1>2, <3>1, <3>2
    <3>4. p \in {4 * j - 2, 4 * j - 1, 4 * j, 4 * j + 1}
      <4> DEFINE k == 4 * j
      <4>1. k \in Int /\ k <= p + 2 /\ p + 2 < k + 4
        BY <3>1
      <4> HIDE DEF k
      <4>2. p \in {k - 2, k - 1, k, k + 1}
        BY <3>2, <4>1, FourPlaces
      <4> QED
        BY <4>2 DEF k
    <3> QED
      BY <3>3, <3>4
  <2>4. /\ manifest[j].kind = "string" => manifest[j].value # key
        /\ manifest[j].kind # "string" => ValueToken(manifest[j]) = Mark("number")
        /\ manifest[j].kind = "string" => ValueToken(manifest[j]) = Quote(manifest[j].value)
    BY DEF n, Plain, ValueToken, Sought
  <2>5. ValueToken(manifest[j]) # Quote(key)
    BY <2>1, <2>4, QuotesDiffer
  <2>6. p = 4 * j - 2
    BY <1>7, <1>8, <2>1, <2>3, <2>5
  <2>7. manifest[j].name = key
    BY <1>7, <1>8, <2>6, QuotesDiffer
  <2> QED
    BY <2>6, <2>7
<1> QED
  BY <1>7, <1>8 DEF n

\* In a plain manifest the search finds the member of the name.
LEMMA MemberIsFound ==
  ASSUME ManifestAssumption, manifest \in Seq(Members), Plain, NEW key \in Sought
  PROVE  FindString(key) = StringMember(key)
<1> DEFINE n == Len(manifest)
           named == {i \in DOMAIN manifest :
                        manifest[i].name = key /\ manifest[i].kind = "string"}
<1>1. /\ n \in Nat /\ DOMAIN manifest = 1..n
      /\ \A i, j \in 1..n : manifest[i].name = manifest[j].name => i = j
  BY DEF Plain
<1>2. StringMember(key) = IF named = {} THEN Missing
                          ELSE manifest[CHOOSE i \in named : TRUE].value
  BY DEF StringMember
<1> HIDE DEF n
<1>3. CASE \E j \in 1..n : manifest[j].name = key
  <2>1. PICK j \in 1..n : manifest[j].name = key
    BY <1>3
  <2>2. PlacesOf(key) = {4 * j - 2}
    <3>1. ASSUME NEW p \in PlacesOf(key)
          PROVE  p = 4 * j - 2
      <4>1. PICK i \in 1..n : p = 4 * i - 2 /\ manifest[i].name = key
        BY PlainTokens DEF PlacesOf, n
      <4>2. i = j
        BY <1>1, <2>1, <4>1
      <4> QED
        BY <4>1, <4>2
    <3>2. 4 * j - 2 \in PlacesOf(key)
      BY <2>1, PlainTokens DEF PlacesOf, n
    <3> QED
      BY <3>1, <3>2
  <2>3. FindString(key) = IF /\ Tokens[(4 * j - 2) + 1] = Colon
                             /\ Tokens[(4 * j - 2) + 2].type = "string"
                          THEN Tokens[(4 * j - 2) + 2].text ELSE Missing
    BY <2>2, Search DEF Leads
  <2>4. /\ Tokens[4 * j - 1] = Colon
        /\ Tokens[4 * j] = ValueToken(manifest[j])
    BY <2>1, PlainTokens DEF n
  <2>5. (4 * j - 2) + 1 = 4 * j - 1 /\ (4 * j - 2) + 2 = 4 * j
    BY <1>1, <2>1
  <2>6. FindString(key) = IF ValueToken(manifest[j]).type = "string"
                          THEN ValueToken(manifest[j]).text ELSE Missing
    BY <2>3, <2>4, <2>5
  <2>7. CASE manifest[j].kind = "string"
    <3>1. named = {j}
      BY <1>1, <2>1, <2>7
    <3>2. FindString(key) = manifest[j].value
      BY <2>6, <2>7, MarkShape DEF ValueToken
    <3> HIDE DEF named
    <3> QED
      BY <1>2, <3>1, <3>2
  <2>8. CASE manifest[j].kind # "string"
    <3>1. named = {}
      BY <1>1, <2>1, <2>8
    <3>2. FindString(key) = Missing
      BY <2>6, <2>8, MarkShape DEF ValueToken, Punctuation
    <3> HIDE DEF named
    <3> QED
      BY <1>2, <3>1, <3>2
  <2> QED
    BY <2>7, <2>8
<1>4. CASE ~ \E j \in 1..n : manifest[j].name = key
  <2>1. named = {}
    BY <1>1, <1>4
  <2>2. PlacesOf(key) = {}
    BY <1>4, PlainTokens DEF PlacesOf, n
  <2> HIDE DEF named
  <2> QED
    BY <1>2, <2>1, <2>2, Search
<1> QED
  BY <1>3, <1>4

\* Whatever order the members of a plain manifest of any length come in, the
\* check takes each value from its own member, and fails for no other reason
\* than those a reader of JSON would find (json_mini.c:16-49,
\* update_remote_check.c:112-191).
THEOREM MembersAreRead == ManifestSpec => []ReadsMembers
<1>1. ManifestInv => ReadsMembers
  <2> SUFFICES ASSUME ManifestInv, Plain
               PROVE  ReadsMembers
    BY DEF ReadsMembers
  <2>1. \A k \in Required \cup Optional : FindString(k) = StringMember(k)
    BY MemberIsFound, ManifestAssumption DEF ManifestInv, ManifestTypes, Sought
  <2>2. "description" \in Optional /\ "version" \in Required
    BY DEF Optional, Required
  <2>3. Checked => /\ \A k \in Required : info[k] = StringMember(k)
                   /\ info.description = IF StringMember("description") = Missing
                                         THEN NoText ELSE StringMember("description")
    BY <2>1, <2>2 DEF ManifestInv, TakenFromIt, Checked, Answers
  <2>4. verdict = "error" =>
            \/ \E k \in Required : StringMember(k) \in {Missing} \cup Overlong
            \/ \E k \in Optional : StringMember(k) \in Overlong
            \/ StringMember("description") # Missing
            \/ Numbers[StringMember("version")] = <<>>
    BY <2>1, <2>2 DEF ManifestInv, WithReason
  <2> QED
    BY <2>3, <2>4 DEF ReadsMembers
<1> QED
  BY <1>1, ManifestInvariant, PTL
==============================================================================
