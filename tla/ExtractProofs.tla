---------------------------- MODULE ExtractProofs ----------------------------
(***************************************************************************)
(* Theorems about Extract: where an extraction may write, what it may      *)
(* leave behind, and what a successful one has put there, for any archive, *)
(* any names in it, any install directory and any failures and kills.      *)
(***************************************************************************)
EXTENDS Extract, SequenceTheorems, WellFoundedInduction, TLAPS

Words == Seq(Word)
Component == Words \ {<<>>}
Path == Seq(Component)
-----------------------------------------------------------------------------
\* Induction over the numbers, for a set.
LEMMA Induction ==
  ASSUME NEW S, 0 \in S, \A i \in Nat : i \in S => i + 1 \in S
  PROVE  Nat \subseteq S
<1>1. SUFFICES ASSUME NEW k \in Nat, k \notin S
               PROVE  FALSE
  OBVIOUS
<1> DEFINE T == {i \in Nat : i \notin S}
<1>2. T \subseteq Nat /\ k \in T
  BY <1>1
<1>3. PICK i \in T : \A j \in T : <<j, i>> \notin OpToRel(<, Nat)
  BY <1>2, NatLessThanWellFounded, WFMin
<1>4. i \in Nat /\ i \notin S
  OBVIOUS
<1>5. i # 0 /\ i - 1 \in Nat /\ i = (i - 1) + 1 /\ i - 1 \in T
  BY <1>4
<1>6. <<i - 1, i>> \in Nat \X Nat /\ <<i - 1, i>>[1] < <<i - 1, i>>[2]
  BY <1>4, <1>5
<1>7. <<i - 1, i>> \in OpToRel(<, Nat)
  BY <1>6 DEF OpToRel
<1> QED
  BY <1>3, <1>5, <1>7

\* The walk along a name is what its definition says.
LEMMA WalkEquation ==
  ASSUME NEW dir, NEW n, Len(n.parts) \in Nat
  PROVE  Walk(dir, n) =
             [i \in 0..Len(n.parts) |->
                 IF i = 0 THEN [at |-> dir, component |-> <<>>]
                 ELSE WalkOn(Walk(dir, n)[i - 1], n, i)]
<1> DEFINE Follows(f, m) ==
             f = [i \in 0..m |->
                     IF i = 0 THEN [at |-> dir, component |-> <<>>]
                     ELSE WalkOn(f[i - 1], n, i)]
           S == {m \in Nat : \E f : Follows(f, m)}
<1>1. 0 \in S
  <2> DEFINE f == [i \in 0..0 |-> [at |-> dir, component |-> <<>>]]
  <2>1. Follows(f, 0)
    OBVIOUS
  <2> QED
    BY <2>1
<1>2. ASSUME NEW m \in Nat, m \in S
      PROVE  m + 1 \in S
  <2>1. PICK f : Follows(f, m)
    BY <1>2
  <2> DEFINE g == [i \in 0..(m + 1) |->
                      IF i = m + 1 THEN WalkOn(f[m], n, m + 1) ELSE f[i]]
  <2>2. /\ DOMAIN g = 0..(m + 1)
        /\ g[m + 1] = WalkOn(f[m], n, m + 1)
        /\ \A i \in 0..m : g[i] = f[i]
    OBVIOUS
  <2>3. /\ f[0] = [at |-> dir, component |-> <<>>]
        /\ \A i \in 1..m : f[i] = WalkOn(f[i - 1], n, i)
    BY <2>1
  <2>4. \A i \in 0..(m + 1) :
            g[i] = IF i = 0 THEN [at |-> dir, component |-> <<>>]
                   ELSE WalkOn(g[i - 1], n, i)
    <3> HIDE DEF g
    <3> SUFFICES ASSUME NEW i \in 0..(m + 1)
                 PROVE  g[i] = IF i = 0 THEN [at |-> dir, component |-> <<>>]
                               ELSE WalkOn(g[i - 1], n, i)
      OBVIOUS
    <3>1. CASE i = 0
      BY <3>1, <2>2, <2>3
    <3>2. CASE i = m + 1
      <4>1. i - 1 = m /\ i - 1 \in 0..m /\ i # 0
        BY <3>2
      <4> QED
        BY <4>1, <3>2, <2>2
    <3>3. CASE i # 0 /\ i # m + 1
      <4>1. i \in 1..m /\ i \in 0..m /\ i - 1 \in 0..m
        BY <3>3
      <4>2. g[i] = f[i] /\ g[i - 1] = f[i - 1] /\ f[i] = WalkOn(f[i - 1], n, i)
        BY <4>1, <2>2, <2>3
      <4> QED
        BY <4>2, <3>3
    <3> QED
      BY <3>1, <3>2, <3>3
  <2>5. Follows(g, m + 1)
    BY <2>2, <2>4
  <2> HIDE DEF Follows
  <2> QED
    BY <2>5
<1>3. Nat \subseteq S
  <2> HIDE DEF S
  <2> QED
    BY <1>1, <1>2, Induction
<1>4. \E f : Follows(f, Len(n.parts))
  BY <1>3
<1> QED
  BY <1>4 DEF Walk

\* A name is as long as its words, and ends with its last one.
LEMMA NameShape ==
  ASSUME NEW n, IsName(n)
  PROVE  /\ Len(n.parts) \in Nat /\ Len(n.parts) >= 1
         /\ Len(n.parts) \in DOMAIN n.parts /\ 1 \in DOMAIN n.parts
         /\ DOMAIN n.parts = 1..Len(n.parts)
         /\ \A i \in 1..Len(n.parts) : n.parts[i] \in Word
<1>1. n.parts \in Seq(Word) /\ n.seps \in Seq({"/", "\\"})
  BY DEF IsName
<1>2. Len(n.parts) \in Nat /\ Len(n.seps) \in Nat /\ Len(n.parts) = Len(n.seps) + 1
  BY <1>1 DEF IsName
<1>3. DOMAIN n.parts = 1..Len(n.parts)
  BY <1>1
<1> QED
  BY <1>1, <1>2, <1>3

\* A component with one more word.
LEMMA LastWord ==
  ASSUME NEW c \in Words, NEW u \in Word
  PROVE  /\ Append(c, u) \in Component /\ Append(c, u) # <<>>
         /\ Append(c, u)[Len(Append(c, u))] = u
         /\ Len(Append(c, u)) = Len(c) + 1
         /\ \A v : Append(c, u) = <<v>> => u = v
<1>1. Len(c) \in Nat /\ Append(c, u) \in Words /\ Len(Append(c, u)) = Len(c) + 1
      /\ Append(c, u)[Len(c) + 1] = u
  BY DEF Words
<1>2. \A v : Append(c, u) = <<v>> => u = v
  <2> SUFFICES ASSUME NEW v, Append(c, u) = <<v>>
               PROVE  u = v
    OBVIOUS
  <2>1. Len(<<v>>) = 1 /\ <<v>>[1] = v
    OBVIOUS
  <2> QED
    BY <1>1, <2>1
<1>3. Append(c, u) # <<>>
  BY <1>1
<1> QED
  BY <1>1, <1>2, <1>3 DEF Component

\* What each step of the walk is, and where it leads.
LEMMA WalkSteps ==
  ASSUME NEW dir \in Path, NEW n, IsName(n)
  PROVE  /\ Walk(dir, n)[0] = [at |-> dir, component |-> <<>>]
         /\ \A i \in 1..Len(n.parts) :
                Walk(dir, n)[i] = WalkOn(Walk(dir, n)[i - 1], n, i)
         /\ \A i \in 0..Len(n.parts) :
                Walk(dir, n)[i] \in [at : Path, component : Words]
<1> DEFINE w == Walk(dir, n)
           l == Len(n.parts)
<1>1. l \in Nat /\ \A i \in 1..l : n.parts[i] \in Word
  BY NameShape
<1>2. /\ w[0] = [at |-> dir, component |-> <<>>]
      /\ \A i \in 1..l : w[i] = WalkOn(w[i - 1], n, i)
  <2>1. w = [i \in 0..l |-> IF i = 0 THEN [at |-> dir, component |-> <<>>]
                            ELSE WalkOn(w[i - 1], n, i)]
    BY <1>1, WalkEquation
  <2> HIDE DEF w, l
  <2> QED
    BY <1>1, <2>1
<1> HIDE DEF w, l
<1> DEFINE S == {i \in Nat : i <= l => w[i] \in [at : Path, component : Words]}
<1>3. 0 \in S
  <2>1. <<>> \in Words
    BY DEF Words
  <2> QED
    BY <1>2, <2>1
<1>4. ASSUME NEW i \in Nat, i \in S
      PROVE  i + 1 \in S
  <2> SUFFICES ASSUME i + 1 <= l
               PROVE  w[i + 1] \in [at : Path, component : Words]
    OBVIOUS
  <2>1. i + 1 \in 1..l /\ (i + 1) - 1 = i /\ w[i] \in [at : Path, component : Words]
    BY <1>1, <1>4
  <2>2. w[i + 1] = WalkOn(w[i], n, i + 1) /\ n.parts[i + 1] \in Word
    BY <1>1, <1>2, <2>1
  <2> DEFINE c == Append(w[i].component, n.parts[i + 1])
  <2>3. /\ c \in Component /\ c \in Words /\ <<>> \in Words
        /\ w[i].at \in Path
    BY <2>1, <2>2, LastWord DEF Words, Component
  <2>4. Enter(w[i].at, c) \in Path
    <3> HIDE DEF c
    <3>1. Append(w[i].at, c) \in Path
      BY <2>3 DEF Path
    <3>2. w[i].at # <<>> => Front(w[i].at) \in Path
      BY <2>3 DEF Path, Front
    <3> QED
      BY <2>3, <3>1, <3>2 DEF Enter
  <2>5. WalkOn(w[i], n, i + 1) \in [at : Path, component : Words]
    BY <2>3, <2>4 DEF WalkOn
  <2> QED
    BY <2>2, <2>5
<1>5. Nat \subseteq S
  <2> HIDE DEF S
  <2> QED
    BY <1>3, <1>4, Induction
<1>6. \A i \in 0..l : w[i] \in [at : Path, component : Words]
  BY <1>1, <1>5
<1> QED
  BY <1>2, <1>6 DEF w, l

LEMMA ResolveType ==
  ASSUME NEW dir \in Path, NEW n, IsName(n)
  PROVE  Resolve(dir, n) \in Path
<1>1. Len(n.parts) \in 0..Len(n.parts)
  BY NameShape
<1>2. Walk(dir, n)[Len(n.parts)] \in [at : Path, component : Words]
  BY <1>1, WalkSteps
<1> QED
  BY <1>2 DEF Resolve

\* A component enters no directory above.
LEMMA EnterUnder ==
  ASSUME NEW at \in Path, NEW c \in Component, c # << <<"..">> >>
  PROVE  /\ Enter(at, c) \in {at, Append(at, c)}
         /\ c \notin {<< <<>> >>, << <<".">> >>} => Enter(at, c) = Append(at, c)
BY DEF Enter

\* Under is an order, and what is appended to a path is under it.
LEMMA UnderSelf ==
  ASSUME NEW p \in Path
  PROVE  Under(p, p)
BY DEF Under, Path

LEMMA UnderIndex ==
  ASSUME NEW p \in Path, NEW q \in Path
  PROVE  Under(p, q) <=> Len(p) >= Len(q) /\ \A i \in 1..Len(q) : p[i] = q[i]
<1>1. CASE Len(p) >= Len(q)
  <2>1. /\ SubSeq(p, 1, Len(q)) \in Path /\ Len(SubSeq(p, 1, Len(q))) = Len(q)
        /\ \A i \in 1..Len(q) : SubSeq(p, 1, Len(q))[i] = p[i]
    BY <1>1 DEF Path
  <2>2. SubSeq(p, 1, Len(q)) = q <=> \A i \in 1..Len(q) : p[i] = q[i]
    BY <2>1 DEF Path
  <2> QED
    BY <1>1, <2>2 DEF Under
<1>2. CASE ~(Len(p) >= Len(q))
  BY <1>2 DEF Under
<1> QED
  BY <1>1, <1>2

LEMMA UnderTransitive ==
  ASSUME NEW p \in Path, NEW q \in Path, NEW r \in Path, Under(p, q), Under(q, r)
  PROVE  Under(p, r)
<1>1. Len(p) \in Nat /\ Len(q) \in Nat /\ Len(r) \in Nat
  BY DEF Path
<1>2. Len(p) >= Len(q) /\ \A i \in 1..Len(q) : p[i] = q[i]
  BY UnderIndex
<1>3. Len(q) >= Len(r) /\ \A i \in 1..Len(r) : q[i] = r[i]
  BY UnderIndex
<1>4. Len(p) >= Len(r) /\ \A i \in 1..Len(r) : p[i] = r[i]
  BY <1>1, <1>2, <1>3
<1> QED
  BY <1>4, UnderIndex

LEMMA UnderAppend ==
  ASSUME NEW p \in Path, NEW c \in Component
  PROVE  /\ Append(p, c) \in Path /\ Under(Append(p, c), p)
         /\ Len(Append(p, c)) = Len(p) + 1
<1>1. /\ Append(p, c) \in Path /\ Len(Append(p, c)) = Len(p) + 1
      /\ Len(p) \in Nat
  BY DEF Path
<1>2. \A i \in 1..Len(p) : Append(p, c)[i] = p[i]
  BY DEF Path
<1>3. Len(Append(p, c)) >= Len(p)
  BY <1>1
<1> QED
  BY <1>1, <1>2, <1>3, UnderIndex

\* A safe name leads into the directory it is resolved in.
LEMMA SafeNameLeadsIn ==
  ASSUME NEW dir \in Path, NEW n, IsName(n), SafeName(n)
  PROVE  /\ Resolve(dir, n) \in Path
         /\ Under(Resolve(dir, n), dir)
         /\ Len(Resolve(dir, n)) > Len(dir)
<1> DEFINE w == Walk(dir, n)
           l == Len(n.parts)
           Begun(x) == x.component # <<>> /\ x.component[1] = n.parts[1]
           In(i) == /\ Under(w[i].at, dir)
                    /\ i = 0 => w[i].component = <<>>
                    /\ i > 0 => Len(w[i].at) > Len(dir) \/ Begun(w[i])
           S == {i \in Nat : i <= l => In(i)}
<1>1. /\ l \in Nat /\ l >= 1
      /\ \A i \in 1..l : n.parts[i] \in Word /\ n.parts[i] \notin {<<".">>, <<"..">>}
      /\ n.parts[1] # <<>>
  BY NameShape DEF SafeName, NoDotSegments
<1>2. /\ w[0] = [at |-> dir, component |-> <<>>]
      /\ \A i \in 1..l : w[i] = WalkOn(w[i - 1], n, i)
      /\ \A i \in 0..l : w[i] \in [at : Path, component : Words]
  BY WalkSteps
<1> HIDE DEF w, l
<1>3. 0 \in S
  BY <1>2, UnderSelf
<1>4. ASSUME NEW i \in Nat, i \in S
      PROVE  i + 1 \in S
  <2> SUFFICES ASSUME i + 1 <= l
               PROVE  In(i + 1)
    OBVIOUS
  <2>1. i + 1 \in 1..l /\ (i + 1) - 1 = i /\ i \in 0..l /\ i + 1 > 0 /\ In(i)
    BY <1>1, <1>4
  <2> DEFINE u == n.parts[i + 1]
             at == w[i].at
             c == Append(w[i].component, u)
  <2>2. /\ w[i + 1] = WalkOn(w[i], n, i + 1)
        /\ u \in Word /\ u \notin {<<".">>, <<"..">>} /\ (i = 0 => u = n.parts[1])
        /\ at \in Path /\ w[i].component \in Words
    BY <1>1, <1>2, <2>1
  <2>3. /\ c \in Component /\ c # << <<"..">> >> /\ c # <<>>
        /\ \A v : c = <<v>> => u = v
        /\ Len(c) = Len(w[i].component) + 1
    BY <2>2, LastWord
  <2>4. Enter(at, c) \in {at, Append(at, c)}
    <3> HIDE DEF c, at
    <3> QED
      BY <2>2, <2>3, EnterUnder
  <2>5. /\ Under(at, dir) /\ Len(at) \in Nat /\ Len(dir) \in Nat /\ Len(at) >= Len(dir)
        /\ Under(Append(at, c), dir) /\ Len(Append(at, c)) = Len(at) + 1
    <3> HIDE DEF c, at
    <3>1. Under(at, dir) /\ Len(at) \in Nat /\ Len(dir) \in Nat
      BY <2>1, <2>2 DEF Path, at
    <3>2. Append(at, c) \in Path /\ Under(Append(at, c), at) /\ Len(Append(at, c)) = Len(at) + 1
      BY <2>2, <2>3, UnderAppend
    <3>3. Under(Append(at, c), dir)
      BY <2>2, <3>1, <3>2, UnderTransitive
    <3> QED
      BY <3>1, <3>2, <3>3, <2>2, UnderIndex
  <2>6. Len(at) > Len(dir) \/ c[1] = n.parts[1]
    <3>1. CASE i = 0
      BY <3>1, <2>1, <2>2
    <3>2. CASE i > 0 /\ ~(Len(at) > Len(dir))
      <4>1. w[i].component # <<>> /\ w[i].component[1] = n.parts[1]
        BY <2>1, <3>2
      <4>2. c[1] = w[i].component[1]
        BY <2>2, <4>1 DEF Words
      <4> QED
        BY <4>1, <4>2
    <3> QED
      BY <3>1, <3>2
  <2>7. Enter(at, c) = at => Len(at) > Len(dir)
    <3> SUFFICES ASSUME Enter(at, c) = at, ~(Len(at) > Len(dir))
                 PROVE  FALSE
      BY <2>5
    <3>1. Append(at, c) # at
      BY <2>5
    <3>2. c \in {<< <<>> >>, << <<".">> >>}
      <4> HIDE DEF c, at
      <4> QED
        BY <2>2, <2>3, <3>1, EnterUnder
    <3>3. u = <<>> /\ c = << <<>> >>
      BY <2>2, <2>3, <3>2
    <3>4. c[1] = <<>>
      BY <3>3
    <3> QED
      BY <1>1, <2>6, <3>4
  <2>8. CASE i + 1 = l \/ n.seps[i + 1] \in FileSeps
    <3>1. w[i + 1].at = Enter(at, c)
      BY <2>2, <2>8 DEF WalkOn, l
    <3>2. Under(Enter(at, c), dir) /\ Len(Enter(at, c)) > Len(dir)
      <4>1. CASE Enter(at, c) = at
        BY <4>1, <2>5, <2>7
      <4>2. CASE Enter(at, c) = Append(at, c)
        <5>1. Len(Append(at, c)) > Len(dir)
          <6> HIDE DEF c, at
          <6> QED
            BY <2>5
        <5> QED
          BY <4>2, <5>1, <2>5
      <4> QED
        BY <4>1, <4>2, <2>4
    <3> QED
      BY <2>1, <3>1, <3>2
  <2>9. CASE ~(i + 1 = l \/ n.seps[i + 1] \in FileSeps)
    <3>1. w[i + 1].at = at /\ w[i + 1].component = c
      BY <2>2, <2>9 DEF WalkOn, l
    <3> QED
      BY <2>1, <2>3, <2>5, <2>6, <3>1
  <2> QED
    BY <2>8, <2>9
<1>5. Nat \subseteq S
  <2> HIDE DEF S
  <2> QED
    BY <1>3, <1>4, Induction
<1>6. In(l)
  BY <1>1, <1>5
<1>7. w[l].component = <<>> /\ w[l].at \in Path /\ Resolve(dir, n) = w[l].at
  <2>1. w[l] = WalkOn(w[l - 1], n, l) /\ w[l] \in [at : Path, component : Words]
    BY <1>1, <1>2
  <2> QED
    BY <2>1 DEF WalkOn, Resolve, w, l
<1> QED
  BY <1>1, <1>6, <1>7

\* The directory beside another one: the same up to the last component, and
\* another one there.  A name that ends with a separator is not like that.
Beside(n) ==
    \E d \in Path : \E c, e \in Component :
        /\ c # e
        /\ Resolve(<<>>, n) = Append(d, c)
        /\ Resolve(<<>>, SiblingOf(n, ".update_staging")) = Append(d, e)

\* Name s is name n with the suffix.
Extends(s, n, suffix) ==
    /\ IsName(s) /\ s.seps = n.seps /\ Len(s.parts) = Len(n.parts)
    /\ \A i \in 1..(Len(n.parts) - 1) : s.parts[i] = n.parts[i]
    /\ s.parts[Len(n.parts)] = Append(n.parts[Len(n.parts)], suffix)

LEMMA SiblingExtends ==
  ASSUME NEW n, IsName(n), NEW suffix \in Pieces
  PROVE  Extends(SiblingOf(n, suffix), n, suffix)
<1> DEFINE s == SiblingOf(n, suffix)
           l == Len(n.parts)
<1>1. /\ l \in Nat /\ l >= 1 /\ DOMAIN n.parts = 1..l
      /\ \A i \in 1..l : n.parts[i] \in Word
  BY NameShape
<1>2. n \in [parts : Seq(Word), seps : Seq({"/", "\\"})] /\ Len(n.parts) = Len(n.seps) + 1
  BY DEF IsName
<1>3. /\ s.parts = [n.parts EXCEPT ![l] = Append(@, suffix)]
      /\ s.seps = n.seps
      /\ s = [n EXCEPT !.parts = [n.parts EXCEPT ![l] = Append(@, suffix)]]
  BY <1>2 DEF SiblingOf, ExtendLast
<1>4. Append(n.parts[l], suffix) \in Word
  BY <1>1 DEF Word
<1>5. /\ DOMAIN s.parts = 1..l
      /\ \A i \in 1..l : i # l => s.parts[i] = n.parts[i]
      /\ s.parts[l] = Append(n.parts[l], suffix)
  BY <1>1, <1>3
<1>6. s.parts \in Seq(Word) /\ Len(s.parts) = l
  BY <1>1, <1>2, <1>3, <1>4
<1>7. s \in [parts : Seq(Word), seps : Seq({"/", "\\"})]
  BY <1>2, <1>3, <1>6
<1> QED
  BY <1>1, <1>2, <1>3, <1>5, <1>6, <1>7 DEF IsName, Extends

LEMMA LongerWord ==
  ASSUME NEW u \in Word, u # <<>>, NEW suffix \in Pieces
  PROVE  /\ Append(u, suffix) \in Word /\ Append(u, suffix) # u
         /\ Append(u, suffix) \notin {<<>>, <<".">>, <<"..">>}
<1>1. Len(u) \in Nat /\ Len(u) # 0
  BY DEF Word
<1>2. Append(u, suffix) \in Word /\ Len(Append(u, suffix)) = Len(u) + 1
  BY DEF Word
<1>3. Len(<<>>) = 0 /\ Len(<<".">>) = 1 /\ Len(<<"..">>) = 1
  OBVIOUS
<1> DEFINE longer == Append(u, suffix)
<1> HIDE DEF longer
<1>4. longer # u /\ longer # <<>> /\ longer # <<".">> /\ longer # <<"..">>
  <2>1. Len(longer) # Len(u) /\ Len(longer) # 0 /\ Len(longer) # 1
    BY <1>1, <1>2 DEF longer
  <2> QED
    BY <1>3, <2>1
<1> QED
  BY <1>2, <1>4 DEF longer

LEMMA StagingBeside ==
  ASSUME NEW n, IsName(n), NoDotSegments(n), Last(n.parts) # <<>>
  PROVE  Beside(n)
<1> DEFINE s == SiblingOf(n, ".update_staging")
           l == Len(n.parts)
           v == Walk(<<>>, n)
           w == Walk(<<>>, s)
           S == {i \in Nat : i < l => w[i] = v[i]}
<1>1. /\ l \in Nat /\ l >= 1
      /\ \A i \in 1..l : n.parts[i] \in Word
      /\ n.parts[l] \notin {<<>>, <<".">>, <<"..">>}
  BY NameShape DEF NoDotSegments, Last
<1>2. /\ IsName(s) /\ s.seps = n.seps /\ Len(s.parts) = l
      /\ \A i \in 1..(l - 1) : s.parts[i] = n.parts[i]
      /\ s.parts[l] = Append(n.parts[l], ".update_staging")
  <2>1. Extends(s, n, ".update_staging")
    BY SiblingExtends, ExtractAssumption
  <2> HIDE DEF s
  <2> QED
    BY <2>1 DEF Extends
<1>3. <<>> \in Path
  BY DEF Path
<1>4. /\ v[0] = [at |-> <<>>, component |-> <<>>]
      /\ \A i \in 1..l : v[i] = WalkOn(v[i - 1], n, i)
      /\ \A i \in 0..l : v[i] \in [at : Path, component : Words]
  BY <1>3, WalkSteps
<1>5. /\ w[0] = [at |-> <<>>, component |-> <<>>]
      /\ \A i \in 1..l : w[i] = WalkOn(w[i - 1], s, i)
  <2> HIDE DEF s, l
  <2> QED
    BY <1>2, <1>3, WalkSteps
<1> HIDE DEF v, w, s
<1>6. 0 \in S
  BY <1>4, <1>5
<1>7. ASSUME NEW i \in Nat, i \in S
      PROVE  i + 1 \in S
  <2> SUFFICES ASSUME i + 1 < l
               PROVE  w[i + 1] = v[i + 1]
    OBVIOUS
  <2>1. i + 1 \in 1..l /\ i + 1 \in 1..(l - 1) /\ (i + 1) - 1 = i /\ w[i] = v[i]
    BY <1>1, <1>7
  <2>2. w[i + 1] = WalkOn(v[i], s, i + 1) /\ v[i + 1] = WalkOn(v[i], n, i + 1)
    BY <2>1, <1>4, <1>5
  <2>3. s.parts[i + 1] = n.parts[i + 1] /\ s.seps = n.seps /\ Len(s.parts) = Len(n.parts)
    BY <1>2, <2>1
  <2> QED
    BY <2>2, <2>3 DEF WalkOn
<1>8. Nat \subseteq S
  <2> HIDE DEF S
  <2> QED
    BY <1>6, <1>7, Induction
<1>9. l - 1 \in 0..l /\ l - 1 \in Nat /\ l \in 1..l /\ w[l - 1] = v[l - 1]
  BY <1>1, <1>8
<1> DEFINE x == v[l - 1]
           c == Append(x.component, n.parts[l])
           e == Append(x.component, s.parts[l])
<1>10. x \in [at : Path, component : Words] /\ n.parts[l] \in Word
  BY <1>1, <1>4, <1>9
<1>11. /\ s.parts[l] \in Word /\ s.parts[l] # n.parts[l]
       /\ s.parts[l] \notin {<<>>, <<".">>, <<"..">>}
  BY <1>1, <1>2, <1>9, LongerWord, ExtractAssumption
<1>12. /\ v[l].at = Enter(x.at, c)
       /\ w[l].at = Enter(x.at, e)
  <2>1. v[l] = WalkOn(v[l - 1], n, l) /\ w[l] = WalkOn(v[l - 1], s, l)
    BY <1>4, <1>5, <1>9
  <2>2. l = Len(n.parts) /\ l = Len(s.parts)
    BY <1>2
  <2> QED
    BY <2>1, <2>2 DEF WalkOn
<1>13. /\ c \in Component /\ e \in Component /\ c # e
       /\ \A u \in {<<>>, <<".">>, <<"..">>} : c # <<u>> /\ e # <<u>>
  <2>1. /\ c \in Component /\ c[Len(c)] = n.parts[l] /\ \A u : c = <<u>> => n.parts[l] = u
    BY <1>10, LastWord
  <2>2. /\ e \in Component /\ e[Len(e)] = s.parts[l] /\ \A u : e = <<u>> => s.parts[l] = u
    BY <1>10, <1>11, LastWord
  <2> HIDE DEF c, e
  <2> QED
    BY <1>1, <1>11, <2>1, <2>2
<1>14. Enter(x.at, c) = Append(x.at, c) /\ Enter(x.at, e) = Append(x.at, e)
  <2> HIDE DEF c, e, x
  <2> QED
    BY <1>13 DEF Enter
<1>15. /\ Resolve(<<>>, n) = Append(x.at, c)
       /\ Resolve(<<>>, s) = Append(x.at, e)
  BY <1>2, <1>12, <1>14 DEF Resolve, v, w
<1> QED
  BY <1>10, <1>13, <1>15 DEF Beside, s
-----------------------------------------------------------------------------
(***************************************************************************)
(* The paths of the entries, and what the operations of the disk do.       *)
(***************************************************************************)
Names ==
    /\ root \in Installs /\ ValidAbsolute(root)
    /\ archive \in Seq(Entries)

Types ==
    /\ Names
    /\ DOMAIN files \subseteq Path
    /\ nextEntry \in 0..Len(archive)
    /\ extractPc \in {"idle", "next", "entry", "parents", "open", "write", "move"}
    /\ extractPc \notin {"idle", "next"} => nextEntry # 0 /\ SafeName(Entry.name)
    /\ extractPc \in {"parents", "open", "write", "move"} => ~Entry.dir

LEMMA StagingPath ==
  ASSUME Names
  PROVE  Staging \in Path
<1>1. IsName(root)
  BY ExtractAssumption DEF Names
<1>2. IsName(SiblingOf(root, ".update_staging"))
  BY <1>1, SiblingExtends, ExtractAssumption DEF Extends
<1>3. <<>> \in Path
  BY DEF Path
<1> QED
  BY <1>2, <1>3, ResolveType DEF Staging

LEMMA EntryNames ==
  ASSUME Names, NEW i \in DOMAIN archive
  PROVE  /\ IsName(archive[i].name) /\ archive[i].dir \in BOOLEAN
         /\ i \in 1..Len(archive)
<1>1. archive[i] \in Entries /\ i \in 1..Len(archive)
  BY DEF Names
<1> QED
  BY <1>1, ExtractAssumption

\* The directory above a path, and what is above that.
LEMMA ParentOf ==
  ASSUME NEW p \in Path, p # <<>>
  PROVE  /\ Parent(p) \in Path /\ Len(Parent(p)) = Len(p) - 1
         /\ \A i \in 1..Len(Parent(p)) : Parent(p)[i] = p[i]
<1>1. Len(p) \in Nat /\ Len(p) # 0 /\ \A i \in 1..Len(p) : p[i] \in Component
  BY DEF Path
<1>2. Parent(p) = SubSeq(p, 1, Len(p) - 1)
  BY DEF Parent, Front
<1>3. SubSeq(p, 1, Len(p) - 1) \in Path /\ Len(SubSeq(p, 1, Len(p) - 1)) = Len(p) - 1
  <2>1. PICK n \in Nat : n = Len(p) - 1
    BY <1>1
  <2>2. \A i \in 1..n : p[i] \in Component
    BY <1>1, <2>1
  <2>3. /\ SubSeq(p, 1, n) \in Seq(Component)
        /\ Len(SubSeq(p, 1, n)) = IF 1 <= n THEN n - 1 + 1 ELSE 0
    BY <2>2, SubSeqProperties
  <2>4. Len(SubSeq(p, 1, n)) = n
    BY <2>3
  <2> QED
    BY <2>1, <2>3, <2>4 DEF Path
<1>4. \A i \in 1..(Len(p) - 1) : SubSeq(p, 1, Len(p) - 1)[i] = p[i]
  BY <1>1 DEF Path
<1> QED
  BY <1>2, <1>3, <1>4

\* Where an entry goes, and its temporary file beside it.
InStaging(p, t) ==
    /\ p \in Path /\ p # <<>> /\ Under(p, Staging)
    /\ t \in Path /\ t # <<>> /\ Under(t, Staging)
    /\ Parent(p) \in Path /\ Under(Parent(p), Staging)
    /\ p # t

LEMMA LongerComponent ==
  ASSUME NEW c \in Component
  PROVE  /\ ExtendLast(c, ".extracting") \in Component
         /\ ExtendLast(c, ".extracting") # c
<1> DEFINE l == Len(c)
           e == ExtendLast(c, ".extracting")
<1>1. c \in Seq(Word) /\ l \in Nat /\ l >= 1 /\ l \in 1..l /\ DOMAIN c = 1..l
  BY DEF Component, Words
<1>2. c[l] \in Word
  BY <1>1
<1>3. Append(c[l], ".extracting") \in Word /\ Append(c[l], ".extracting") # c[l]
  <2>1. ".extracting" \in Pieces
    BY ExtractAssumption
  <2> QED
    BY <1>2, <2>1 DEF Word
<1>4. e = [c EXCEPT ![l] = Append(c[l], ".extracting")]
  BY DEF ExtendLast
<1> DEFINE u == Append(c[l], ".extracting")
<1>5. e \in Seq(Word) /\ Len(e) = l /\ e[l] = u
  <2> HIDE DEF e, u, l
  <2> QED
    BY <1>1, <1>3, <1>4 DEF u, l
<1>6. e # <<>> /\ e # c
  BY <1>1, <1>3, <1>5
<1> QED
  BY <1>5, <1>6 DEF Component, Words

\* A name that is trimmed begins as before, and has nothing in it that was
\* not there.
LEMMA TrimmedIsSafe ==
  ASSUME NEW n, IsName(n), SafeName(n)
  PROVE  IsName(Trimmed(n)) /\ SafeName(Trimmed(n))
<1> DEFINE l == Len(n.parts)
           Ends(k) == \A j \in (k + 1)..l : n.parts[j] = <<>>
           Ended(k) == (k = 1 \/ n.parts[k] # <<>>) /\ Ends(k)
           S == {k \in Nat : k >= 1 /\ k <= l /\ Ends(k)}
<1>1. /\ n.parts \in Seq(Word) /\ n.seps \in Seq({"/", "\\"})
      /\ l \in Nat /\ l >= 1 /\ Len(n.seps) = l - 1
      /\ DOMAIN n.parts = 1..l /\ DOMAIN n.seps = 1..(l - 1)
  BY NameShape DEF IsName
<1> HIDE DEF l
<1>2. S \subseteq Nat /\ l \in S
  BY <1>1
<1>3. PICK k \in S : \A j \in S : <<j, k>> \notin OpToRel(<, Nat)
  BY <1>2, NatLessThanWellFounded, WFMin
<1>4. k \in Nat /\ k >= 1 /\ k <= l /\ Ends(k)
  BY <1>3
<1>5. Ended(k)
  <2>1. SUFFICES ASSUME k # 1, n.parts[k] = <<>>
                 PROVE  FALSE
    BY <1>4
  <2>2. PICK j \in Nat : j = k - 1
    BY <1>4, <2>1
  <2>3. j \in S
    <3>1. j >= 1 /\ j <= l /\ j + 1 = k
      BY <1>1, <1>4, <2>1, <2>2
    <3>2. \A i \in k..l : i = k \/ i \in (k + 1)..l
      BY <1>1, <1>4
    <3>3. Ends(j)
      BY <1>4, <2>1, <3>1, <3>2
    <3> QED
      BY <3>1, <3>3
  <2>4. <<j, k>> \in Nat \X Nat /\ <<j, k>>[1] < <<j, k>>[2]
    BY <1>4, <2>2
  <2>5. <<j, k>> \in OpToRel(<, Nat)
    BY <2>4 DEF OpToRel
  <2> QED
    BY <1>3, <2>3, <2>5
<1> DEFINE m == CHOOSE i \in 1..l : Ended(i)
<1>6. m \in 1..l
  <2>1. k \in 1..l
    BY <1>1, <1>4
  <2> HIDE DEF Ended
  <2> QED
    BY <1>5, <2>1
<1> DEFINE t == [parts |-> SubSeq(n.parts, 1, m), seps |-> SubSeq(n.seps, 1, m - 1)]
<1>7. Trimmed(n) = t
  BY <1>1 DEF Trimmed, l
<1> HIDE DEF m
<1>8. m \in Nat /\ m >= 1 /\ m <= l /\ m - 1 \in Nat /\ m - 1 <= l - 1
  BY <1>1, <1>6
<1>9. /\ t.parts \in Seq(Word) /\ Len(t.parts) = m /\ DOMAIN t.parts = 1..m
      /\ \A i \in 1..m : t.parts[i] = n.parts[i] /\ i \in 1..l
  BY <1>1, <1>8 DEF l
<1>10. /\ t.seps \in Seq({"/", "\\"}) /\ Len(t.seps) = m - 1
       /\ DOMAIN t.seps = 1..(m - 1)
  BY <1>1, <1>8
<1>11. t \in [parts : Seq(Word), seps : Seq({"/", "\\"})]
  BY <1>9, <1>10
<1> HIDE DEF t
<1>12. IsName(t)
  BY <1>8, <1>9, <1>10, <1>11 DEF IsName
<1>13. SafeName(t)
  <2>1. t.parts[1] # <<>>
    BY <1>8, <1>9 DEF SafeName
  <2>2. NoDotSegments(t)
    BY <1>1, <1>9 DEF SafeName, NoDotSegments
  <2>3. ASSUME NEW i \in DOMAIN t.seps, t.parts[i] # <<>>
        PROVE  Last(t.parts[i]) # ".."
    <3>1. i \in 1..m /\ i \in DOMAIN n.seps
      BY <1>1, <1>8, <1>10
    <3> QED
      BY <1>9, <2>3, <3>1 DEF SafeName
  <2> QED
    BY <2>1, <2>2, <2>3 DEF SafeName
<1> QED
  BY <1>7, <1>12, <1>13

LEMMA EntryInStaging ==
  ASSUME Names, NEW i \in DOMAIN archive, SafeName(archive[i].name)
  PROVE  InStaging(PathOf(i), TempOf(i))
<1> DEFINE p == PathOf(i)
           t == TempOf(i)
           s == Staging
           l == Len(p)
<1>1. s \in Path
  BY StagingPath
<1>2. p \in Path /\ Under(p, s) /\ Len(p) > Len(s)
  <2>1. IsName(archive[i].name)
    BY EntryNames
  <2> HIDE DEF s
  <2>2. PICK n : /\ IsName(n) /\ SafeName(n)
                 /\ p = Resolve(s, n)
    BY <2>1, TrimmedIsSafe DEF PathOf, s
  <2> QED
    BY <1>1, <2>2, SafeNameLeadsIn
<1>3. t = [p EXCEPT ![l] = ExtendLast(@, ".extracting")]
  BY DEF TempOf
<1> HIDE DEF p, t, s
<1>4. Len(s) \in Nat /\ l \in Nat /\ l > Len(s) /\ l >= 1 /\ p # <<>> /\ l \in 1..l
  BY <1>1, <1>2 DEF Path
<1>5. p[l] \in Component /\ \A k \in 1..l : p[k] \in Component
  BY <1>2, <1>4 DEF Path
<1> DEFINE e == ExtendLast(p[l], ".extracting")
<1>6. e \in Component /\ e # p[l]
  BY <1>5, LongerComponent
<1>7. /\ t \in Path /\ Len(t) = l /\ t[l] = e
      /\ \A k \in 1..l : k # l => t[k] = p[k]
  <2> HIDE DEF e
  <2>1. t = [p EXCEPT ![l] = e]
    BY <1>3 DEF e
  <2>2. DOMAIN p = 1..l
    BY <1>2, <1>4 DEF Path
  <2>3. DOMAIN t = 1..l /\ t[l] = e /\ \A k \in 1..l : k # l => t[k] = p[k]
    BY <1>4, <2>1, <2>2
  <2>4. \A k \in 1..l : t[k] \in Component
    BY <1>5, <1>6, <2>3
  <2>5. t \in Path /\ Len(t) = l
    BY <1>2, <1>4, <1>6, <2>1 DEF Path
  <2> QED
    BY <2>3, <2>5
<1>8. t # <<>> /\ t # p
  BY <1>4, <1>6, <1>7
<1>9. \A k \in 1..Len(s) : k \in 1..l /\ k # l /\ k \in 1..(l - 1)
  BY <1>4
<1>10. Len(p) >= Len(s) /\ \A k \in 1..Len(s) : p[k] = s[k]
  BY <1>1, <1>2, UnderIndex
<1>11. Under(t, s)
  <2>1. \A k \in 1..Len(s) : t[k] = s[k]
    BY <1>7, <1>9, <1>10
  <2> QED
    BY <1>1, <1>4, <1>7, <2>1, UnderIndex
<1>12. Parent(p) \in Path /\ Under(Parent(p), s)
  <2>1. /\ Parent(p) \in Path /\ Len(Parent(p)) = l - 1
        /\ \A k \in 1..(l - 1) : Parent(p)[k] = p[k]
    BY <1>2, <1>4, ParentOf
  <2>2. Len(Parent(p)) >= Len(s) /\ \A k \in 1..Len(s) : Parent(p)[k] = s[k]
    BY <1>4, <1>9, <1>10, <2>1
  <2> QED
    BY <1>1, <2>1, <2>2, UnderIndex
<1> QED
  BY <1>2, <1>4, <1>7, <1>8, <1>11, <1>12 DEF InStaging, p, t, s

LEMMA AncestorsOf ==
  ASSUME NEW p \in Path
  PROVE  /\ \A q \in Ancestors(p) :
                /\ q \in Path /\ q # <<>> /\ Len(q) \in 1..Len(p)
                /\ \A k \in 1..Len(q) : q[k] = p[k]
                /\ q \in Ancestors(q)
         /\ \A i \in 1..Len(p) : \E q \in Ancestors(p) : Len(q) = i
         /\ p # <<>> => p \in Ancestors(p)
<1>1. Len(p) \in Nat
  BY DEF Path
<1>2. ASSUME NEW x \in Path, x # <<>>
      PROVE  x \in Ancestors(x)
  <2>1. Len(x) \in 1..Len(x) /\ SubSeq(x, 1, Len(x)) = x
    BY <1>2 DEF Path
  <2> QED
    BY <2>1 DEF Ancestors
<1>3. ASSUME NEW i \in 1..Len(p)
      PROVE  LET q == SubSeq(p, 1, i)
             IN  /\ q \in Path /\ Len(q) = i /\ q # <<>>
                 /\ \A k \in 1..i : q[k] = p[k]
  <2>1. SubSeq(p, 1, i) \in Path /\ Len(SubSeq(p, 1, i)) = i
    BY <1>1 DEF Path
  <2>2. \A k \in 1..i : SubSeq(p, 1, i)[k] = p[k]
    BY <1>1 DEF Path
  <2> QED
    BY <2>1, <2>2
<1>4. ASSUME NEW q \in Ancestors(p)
      PROVE  /\ q \in Path /\ q # <<>> /\ Len(q) \in 1..Len(p)
             /\ \A k \in 1..Len(q) : q[k] = p[k]
             /\ q \in Ancestors(q)
  <2>1. PICK i \in 1..Len(p) : q = SubSeq(p, 1, i)
    BY DEF Ancestors
  <2>2. q \in Path /\ Len(q) = i /\ q # <<>> /\ \A k \in 1..i : q[k] = p[k]
    BY <1>3, <2>1
  <2> QED
    BY <1>2, <2>2
<1>5. \A i \in 1..Len(p) : \E q \in Ancestors(p) : Len(q) = i
  BY <1>3 DEF Ancestors
<1> QED
  BY <1>2, <1>4, <1>5

\* A path and a shorter one that agrees with it.
LEMMA Agrees ==
  ASSUME NEW p \in Path, NEW q \in Path, Len(q) \in 1..Len(p),
         \A k \in 1..Len(q) : q[k] = p[k]
  PROVE  q \in Ancestors(p)
<1>1. Len(p) \in Nat /\ Len(q) \in Nat
  BY DEF Path
<1>2. /\ SubSeq(p, 1, Len(q)) \in Path /\ Len(SubSeq(p, 1, Len(q))) = Len(q)
      /\ \A k \in 1..Len(q) : SubSeq(p, 1, Len(q))[k] = p[k]
  BY <1>1 DEF Path
<1>3. SubSeq(p, 1, Len(q)) = q
  BY <1>1, <1>2 DEF Path
<1> QED
  BY <1>3 DEF Ancestors

\* What is above something in a directory is in it or above it.
LEMMA AncestorsSplit ==
  ASSUME NEW x \in Path, NEW s \in Path, s # <<>>, Under(x, s),
         NEW q \in Ancestors(x)
  PROVE  Under(q, s) \/ q \in Ancestors(Parent(s))
<1>1. /\ q \in Path /\ Len(q) \in 1..Len(x)
      /\ \A k \in 1..Len(q) : q[k] = x[k]
  BY AncestorsOf
<1>2. Len(x) >= Len(s) /\ \A k \in 1..Len(s) : x[k] = s[k]
  BY UnderIndex
<1>3. Len(x) \in Nat /\ Len(s) \in Nat /\ Len(s) # 0 /\ Len(q) \in Nat
  BY DEF Path
<1>4. CASE Len(q) >= Len(s)
  <2>1. \A k \in 1..Len(s) : q[k] = s[k]
    BY <1>1, <1>2, <1>3, <1>4
  <2> QED
    BY <1>1, <1>4, <2>1, UnderIndex
<1>5. CASE Len(q) < Len(s)
  <2>1. /\ Parent(s) \in Path /\ Len(Parent(s)) = Len(s) - 1
        /\ \A k \in 1..Len(Parent(s)) : Parent(s)[k] = s[k]
    BY ParentOf
  <2>2. Len(q) \in 1..Len(Parent(s))
    BY <1>1, <1>3, <1>5, <2>1
  <2>3. \A k \in 1..Len(q) : q[k] = Parent(s)[k]
    <3> SUFFICES ASSUME NEW k \in 1..Len(q)
                 PROVE  q[k] = Parent(s)[k]
      OBVIOUS
    <3>1. k \in 1..Len(s) /\ k \in 1..Len(Parent(s))
      BY <1>1, <1>3, <1>5, <2>1
    <3> QED
      BY <1>1, <1>2, <2>1, <3>1
  <2> QED
    BY <1>1, <2>1, <2>2, <2>3, Agrees
<1> QED
  BY <1>3, <1>4, <1>5

LEMMA AboveOutside ==
  ASSUME NEW s \in Path, s # <<>>, NEW q \in Ancestors(Parent(s))
  PROVE  q \in Path /\ ~Under(q, s)
<1>1. Parent(s) \in Path /\ Len(Parent(s)) = Len(s) - 1 /\ Len(s) \in Nat
  BY ParentOf DEF Path
<1>2. q \in Path /\ Len(q) \in 1..Len(Parent(s))
  BY <1>1, AncestorsOf
<1> QED
  BY <1>1, <1>2 DEF Under

\* The disk g has the directories down to x as far as they can be made.
Makes(g, x) ==
    /\ DOMAIN g \subseteq DOMAIN files \cup Ancestors(x)
    /\ \A q \in DOMAIN files : q \in DOMAIN g /\ g[q] = files[q]
    /\ \A q \in DOMAIN g : q \in DOMAIN files \/ g[q] = Directory
    /\ CanMake(x) /\ x # <<>> => x \in DOMAIN g /\ g[x] = Directory

LEMMA MakingDirs ==
  ASSUME NEW x \in Path
  PROVE  Makes(WithDirs(x), x)
<1> DEFINE made == {q \in Ancestors(x) : \A r \in Ancestors(q) : ~FileAt(r)}
           g == WithDirs(x)
<1>1. g = [q \in DOMAIN files \cup made |->
              IF q \in made THEN Directory ELSE files[q]]
  BY DEF WithDirs
<1>2. \A q \in made : q \in Ancestors(x) /\ q \in Ancestors(q) /\ ~FileAt(q)
  BY AncestorsOf
<1>3. CanMake(x) /\ x # <<>> => x \in made
  BY AncestorsOf DEF CanMake
<1> HIDE DEF made, g
<1>4. \A q \in DOMAIN files : q \in DOMAIN g /\ g[q] = files[q]
  BY <1>1, <1>2 DEF FileAt
<1>5. \A q \in DOMAIN g : q \in DOMAIN files \/ g[q] = Directory
  BY <1>1
<1>6. DOMAIN g \subseteq DOMAIN files \cup Ancestors(x)
  BY <1>1, <1>2
<1>7. CanMake(x) /\ x # <<>> => x \in DOMAIN g /\ g[x] = Directory
  BY <1>1, <1>3
<1> QED
  BY <1>4, <1>5, <1>6, <1>7 DEF Makes, g
-----------------------------------------------------------------------------
(***************************************************************************)
(* The inductive invariant: what the entries before the one in hand have   *)
(* come to, and where files that are only partly extracted may be.         *)
(***************************************************************************)
GivenUpBy(i, m) ==
    \E j \in (i + 1)..m :
        /\ ~archive[j].dir
        /\ PathOf(j) = PathOf(i) \/ Under(PathOf(i), TempOf(j))

InPlace(i) ==
    /\ PathOf(i) \in DOMAIN files
    /\ files[PathOf(i)] = IF archive[i].dir THEN Directory ELSE ContentOf(i)

\* Entry i has been dealt with.
Behind(i) == i < nextEntry \/ (i = nextEntry /\ extractPc \in {"idle", "next"})

WholeSoFar ==
    extractPc # "idle" \/ extracted = "ok" =>
        \A i \in DOMAIN archive :
            Behind(i) => GivenUpBy(i, nextEntry) \/ InPlace(i)

\* A file that is only partly extracted is one that a call still comes to.
PartialsAhead ==
    \A p \in DOMAIN files : files[p] = Partial =>
        /\ extracted # "ok"
        /\ \E i \in DOMAIN archive :
               /\ p = TempOf(i)
               /\ ~archive[i].dir
               /\ extractPc # "idle" => ~Behind(i)

TempWhole ==
    extractPc = "move" =>
        Temp \in DOMAIN files /\ files[Temp] = ContentOf(nextEntry)

OkIsLast == extracted = "ok" => extractPc = "idle" /\ nextEntry = Len(archive)

EInv == Types /\ WholeSoFar /\ PartialsAhead /\ TempWhole /\ OkIsLast

InHand == {"entry", "parents", "open", "write", "move"}

LEMMA Contents ==
  /\ Directory # Partial /\ Original # Partial /\ Directory # Original
  /\ \A i : ContentOf(i) # Partial /\ ContentOf(i) # Directory
<1>1. /\ Len(Directory) = 1 /\ Len(Partial) = 1 /\ Len(Original) = 1
      /\ \A i : Len(ContentOf(i)) = 2
  BY DEF Directory, Partial, Original, ContentOf
<1>2. Directory[1] # Partial[1] /\ Original[1] # Partial[1] /\ Directory[1] # Original[1]
  BY DEF Directory, Partial, Original
<1> QED
  BY <1>1, <1>2

\* The install directory and the archive stay, and with them all paths.
LEMMA Stable ==
  ASSUME UNCHANGED <<root, archive>>
  PROVE  /\ Names' = Names /\ Staging' = Staging
         /\ \A i : PathOf(i)' = PathOf(i) /\ TempOf(i)' = TempOf(i)
         /\ \A i, m : GivenUpBy(i, m)' = GivenUpBy(i, m)
<1>1. Staging' = Staging
  BY DEF Staging
<1>2. \A i : PathOf(i)' = PathOf(i)
  BY <1>1 DEF PathOf
<1>3. \A i : TempOf(i)' = TempOf(i)
  BY <1>2 DEF TempOf
<1>4. \A i, m : GivenUpBy(i, m)' = GivenUpBy(i, m)
  BY <1>2, <1>3 DEF GivenUpBy
<1> QED
  BY <1>1, <1>2, <1>3, <1>4 DEF Names

\* The entry in hand.
LEMMA EntryInHand ==
  ASSUME EInv, extractPc \in InHand
  PROVE  /\ nextEntry \in DOMAIN archive /\ nextEntry \in 1..Len(archive)
         /\ nextEntry \in Nat /\ Len(archive) \in Nat
         /\ Here = PathOf(nextEntry) /\ Temp = TempOf(nextEntry)
         /\ InStaging(Here, Temp)
         /\ Entry = archive[nextEntry]
<1>1. Len(archive) \in Nat /\ DOMAIN archive = 1..Len(archive)
  BY DEF EInv, Types, Names
<1>2. nextEntry \in 0..Len(archive) /\ nextEntry # 0 /\ SafeName(Entry.name)
  BY DEF EInv, Types, InHand
<1>3. nextEntry \in DOMAIN archive
  BY <1>1, <1>2
<1>4. InStaging(PathOf(nextEntry), TempOf(nextEntry))
  BY <1>2, <1>3, EntryInStaging DEF EInv, Types, Entry
<1> QED
  BY <1>1, <1>2, <1>3, <1>4 DEF Here, Temp, Entry

\* A call ends without success: nothing is claimed of it but that no new file
\* is partial.
LEMMA Aborted ==
  ASSUME EInv, UNCHANGED <<root, archive>>, nextEntry' \in 0..Len(archive),
         extractPc' = "idle", extracted' \in {"error", "killed"},
         DOMAIN files' \subseteq Path,
         \A p \in DOMAIN files' :
             files'[p] = Partial => p \in DOMAIN files /\ files[p] = Partial
  PROVE  EInv'
<1>1. Types'
  <2>1. Names'
    BY Stable DEF EInv, Types
  <2> QED
    BY <2>1 DEF EInv, Types
<1>2. PartialsAhead'
  <2> SUFFICES ASSUME NEW p \in DOMAIN files', files'[p] = Partial
               PROVE  \E i \in DOMAIN archive : p = TempOf(i)' /\ ~archive[i].dir
    BY DEF PartialsAhead
  <2>1. PICK i \in DOMAIN archive : p = TempOf(i) /\ ~archive[i].dir
    BY DEF EInv, PartialsAhead
  <2> QED
    BY <2>1, Stable
<1> QED
  BY <1>1, <1>2 DEF EInv, WholeSoFar, TempWhole, OkIsLast

\* A call goes on with the file in hand; what it changed stands at or under
\* the path of the temporary file.
LEMMA Onward ==
  ASSUME EInv, UNCHANGED <<root, archive, nextEntry, extracted>>,
         extractPc \in InHand, extractPc' \in InHand \ {"entry"},
         ~Entry.dir, DOMAIN files' \subseteq Path, TempWhole',
         \A p \in DOMAIN files :
             Under(p, Temp) \/ (p \in DOMAIN files' /\ files'[p] = files[p]),
         \A p \in DOMAIN files' : files'[p] = Partial =>
             p = Temp \/ (p \in DOMAIN files /\ files[p] = Partial)
  PROVE  EInv'
<1>1. /\ nextEntry \in DOMAIN archive /\ nextEntry \in 1..Len(archive)
      /\ nextEntry \in Nat /\ Len(archive) \in Nat
      /\ Temp = TempOf(nextEntry) /\ Entry = archive[nextEntry]
      /\ DOMAIN archive = 1..Len(archive)
  BY EntryInHand DEF EInv, Types, Names
<1>2. /\ Names' /\ Entry' = Entry
      /\ \A i : PathOf(i)' = PathOf(i) /\ TempOf(i)' = TempOf(i)
      /\ \A i, m : GivenUpBy(i, m)' = GivenUpBy(i, m)
  BY Stable DEF EInv, Types, Entry
<1>3. Types'
  BY <1>2 DEF EInv, Types, InHand
<1>4. \A i \in DOMAIN archive :
          /\ Behind(i) <=> i < nextEntry
          /\ Behind(i)' <=> i < nextEntry
  BY DEF Behind, InHand
<1>5. WholeSoFar'
  <2> SUFFICES ASSUME NEW i \in DOMAIN archive, i < nextEntry
               PROVE  GivenUpBy(i, nextEntry) \/ InPlace(i)'
    BY <1>2, <1>4 DEF WholeSoFar
  <2>1. GivenUpBy(i, nextEntry) \/ InPlace(i)
    BY <1>4 DEF EInv, WholeSoFar, InHand
  <2>2. CASE InPlace(i) /\ Under(PathOf(i), Temp)
    <3>1. nextEntry \in (i + 1)..nextEntry
      BY <1>1
    <3> QED
      BY <1>1, <2>2, <3>1 DEF GivenUpBy
  <2>3. CASE InPlace(i) /\ ~Under(PathOf(i), Temp)
    BY <1>2, <2>3 DEF InPlace
  <2> QED
    BY <2>1, <2>2, <2>3
<1>6. PartialsAhead'
  <2> SUFFICES ASSUME NEW p \in DOMAIN files', files'[p] = Partial
               PROVE  /\ extracted # "ok"
                      /\ \E i \in DOMAIN archive :
                             p = TempOf(i) /\ ~archive[i].dir /\ ~(i < nextEntry)
    BY <1>2, <1>4 DEF PartialsAhead
  <2>1. extracted # "ok"
    BY DEF EInv, OkIsLast, InHand
  <2>2. CASE p = Temp
    BY <1>1, <2>1, <2>2
  <2>3. CASE p \in DOMAIN files /\ files[p] = Partial
    <3>1. PICK i \in DOMAIN archive : /\ p = TempOf(i) /\ ~archive[i].dir
                                      /\ extractPc # "idle" => ~Behind(i)
      BY <2>3 DEF EInv, PartialsAhead
    <3> QED
      BY <1>4, <2>1, <3>1 DEF InHand
  <2> QED
    BY <2>2, <2>3
<1>7. OkIsLast'
  BY DEF EInv, OkIsLast, InHand
<1> QED
  BY <1>3, <1>5, <1>6, <1>7 DEF EInv

\* The files after a tree is removed, and after a directory is made.
LEMMA Removes ==
  ASSUME DOMAIN files \subseteq Path, files' \in {Without(Temp), files}
  PROVE  /\ DOMAIN files' \subseteq Path
         /\ \A p \in DOMAIN files' : p \in DOMAIN files /\ files'[p] = files[p]
         /\ \A p \in DOMAIN files :
                Under(p, Temp) \/ (p \in DOMAIN files' /\ files'[p] = files[p])
BY DEF Without

LEMMA MakesOnly ==
  ASSUME DOMAIN files \subseteq Path, NEW x \in Path, Makes(files', x)
  PROVE  /\ DOMAIN files' \subseteq Path
         /\ \A p \in DOMAIN files' :
                files'[p] = Partial => p \in DOMAIN files /\ files[p] = Partial
<1>1. \A q \in Ancestors(x) : q \in Path
  BY AncestorsOf
<1> QED
  BY <1>1, Contents DEF Makes

LEMMA Puts ==
  ASSUME DOMAIN files \subseteq Path, NEW t \in Path, NEW c,
         files' = PutFile(t, c)
  PROVE  /\ DOMAIN files' \subseteq Path /\ t \in DOMAIN files' /\ files'[t] = c
         /\ \A p \in DOMAIN files : p = t \/ (p \in DOMAIN files' /\ files'[p] = files[p])
         /\ \A p \in DOMAIN files' : p = t \/ (p \in DOMAIN files /\ files'[p] = files[p])
BY DEF PutFile

LEMMA InitInv ==
  ASSUME ExtractInit
  PROVE  EInv
<1>1. archive \in Seq(Entries) /\ 0 \in 0..Len(archive)
  <2>1. PICK k \in 1..MaxEntries : archive \in [1..k -> Entries]
    BY DEF ExtractInit
  <2>2. k \in Nat
    BY <2>1, ExtractAssumption
  <2>3. archive \in Seq(Entries)
    BY <2>1, <2>2
  <2> QED
    BY <2>3
<1> DEFINE install == Resolve(<<>>, root)
<1>2. install \in Path
  <2>1. IsName(root) /\ <<>> \in Path
    BY ExtractAssumption DEF ExtractInit, Path
  <2> QED
    BY <2>1, ResolveType
<1>3. << <<"app">> >> \in Component
  <2>1. "app" \in Pieces
    BY ExtractAssumption
  <2>2. <<"app">> \in Word
    BY <2>1 DEF Word
  <2> QED
    BY <2>2 DEF Component, Words
<1>4. DOMAIN files \subseteq Path /\ \A p \in DOMAIN files : files[p] # Partial
  <2>1. Append(install, << <<"app">> >>) \in Path
    BY <1>2, <1>3, UnderAppend
  <2>2. \A q \in Ancestors(install) : q \in Path
    BY <1>2, AncestorsOf
  <2>3. files = [p \in Ancestors(install) \cup {Append(install, << <<"app">> >>)} |->
                    IF p \in Ancestors(install) THEN Directory ELSE Original]
    BY DEF ExtractInit
  <2> HIDE DEF install
  <2> QED
    BY <2>1, <2>2, <2>3, Contents
<1> QED
  BY <1>1, <1>4 DEF ExtractInit, EInv, Types, Names, WholeSoFar, PartialsAhead,
                    TempWhole, OkIsLast

LEMMA StartInv ==
  ASSUME EInv, StartExtract
  PROVE  EInv'
<1>1. /\ UNCHANGED <<root, archive>> /\ nextEntry' = 0 /\ 0 \in 0..Len(archive)
      /\ Len(archive) \in Nat /\ DOMAIN archive = 1..Len(archive)
  BY DEF EInv, Types, Names, StartExtract
<1>2. /\ Names' /\ \A i : TempOf(i)' = TempOf(i)
      /\ Staging \in Path
  BY <1>1, Stable, StagingPath DEF EInv, Types
<1>3. Makes(files', Staging)
  BY <1>2, MakingDirs DEF StartExtract
<1>4. /\ DOMAIN files' \subseteq Path
      /\ \A p \in DOMAIN files' :
             files'[p] = Partial => p \in DOMAIN files /\ files[p] = Partial
  BY <1>2, <1>3, MakesOnly DEF EInv, Types
<1>5. CASE extractPc' = "idle"
  <2>1. extracted' = "error"
    BY <1>5 DEF StartExtract, ExtractReturns
  <2> QED
    BY <1>1, <1>4, <1>5, <2>1, Aborted
<1>6. CASE extractPc' = "next" /\ extracted' = "none"
  <2>1. Types'
    BY <1>1, <1>2, <1>4, <1>6 DEF Types
  <2>2. \A i \in DOMAIN archive : ~Behind(i)'
    BY <1>1 DEF Behind
  <2>3. PartialsAhead'
    <3> SUFFICES ASSUME NEW p \in DOMAIN files', files'[p] = Partial
                 PROVE  \E i \in DOMAIN archive : p = TempOf(i)' /\ ~archive[i].dir
      BY <1>1, <1>6, <2>2 DEF PartialsAhead
    <3>1. PICK i \in DOMAIN archive : p = TempOf(i) /\ ~archive[i].dir
      BY <1>4 DEF EInv, PartialsAhead
    <3> QED
      BY <1>2, <3>1
  <2> QED
    BY <1>1, <1>6, <2>1, <2>2, <2>3 DEF EInv, WholeSoFar, TempWhole, OkIsLast
<1> QED
  BY <1>5, <1>6 DEF StartExtract, ExtractReturns

LEMMA NextEntryInv ==
  ASSUME EInv, NextArchiveEntry
  PROVE  EInv'
<1>1. /\ UNCHANGED <<root, archive, files>> /\ nextEntry' = nextEntry + 1
      /\ nextEntry \in Nat /\ nextEntry < Len(archive) /\ Len(archive) \in Nat
      /\ nextEntry' \in 0..Len(archive) /\ DOMAIN archive = 1..Len(archive)
      /\ extractPc = "next"
  BY DEF EInv, Types, Names, NextArchiveEntry
<1>2. /\ Names' /\ \A i : PathOf(i)' = PathOf(i) /\ TempOf(i)' = TempOf(i)
      /\ \A i, m : GivenUpBy(i, m)' = GivenUpBy(i, m)
  BY <1>1, Stable DEF EInv, Types
<1>3. CASE extractPc' = "idle" /\ extracted' = "error"
  BY <1>1, <1>3, Aborted DEF EInv, Types
<1>4. CASE /\ SafeName(archive[nextEntry + 1].name)
           /\ extractPc' = "entry" /\ extracted' = extracted
  <2>1. Types'
    BY <1>1, <1>2, <1>4 DEF EInv, Types, Entry
  <2>2. \A i \in DOMAIN archive : Behind(i)' => i \in 1..nextEntry /\ Behind(i)
    BY <1>1, <1>4 DEF Behind
  <2>3. \A i \in DOMAIN archive : ~Behind(i) => ~Behind(i)'
    BY <2>2
  <2>4. WholeSoFar'
    <3> SUFFICES ASSUME NEW i \in DOMAIN archive, Behind(i)'
                 PROVE  GivenUpBy(i, nextEntry + 1) \/ InPlace(i)'
      BY <1>1, <1>2 DEF WholeSoFar
    <3>1. GivenUpBy(i, nextEntry) \/ InPlace(i)
      BY <1>1, <2>2 DEF EInv, WholeSoFar
    <3>2. InPlace(i)' = InPlace(i)
      BY <1>1, <1>2 DEF InPlace
    <3>3. (i + 1)..nextEntry \subseteq (i + 1)..(nextEntry + 1)
      BY <1>1
    <3>4. GivenUpBy(i, nextEntry) => GivenUpBy(i, nextEntry + 1)
      BY <3>3 DEF GivenUpBy
    <3> QED
      BY <3>1, <3>2, <3>4
  <2>5. PartialsAhead'
    <3> SUFFICES ASSUME NEW p \in DOMAIN files, files[p] = Partial
                 PROVE  /\ extracted # "ok"
                        /\ \E i \in DOMAIN archive :
                               p = TempOf(i) /\ ~archive[i].dir /\ ~Behind(i)'
      BY <1>1, <1>2, <1>4 DEF PartialsAhead
    <3> QED
      BY <1>1, <2>3 DEF EInv, PartialsAhead
  <2> QED
    BY <1>1, <1>4, <2>1, <2>4, <2>5 DEF EInv, TempWhole, OkIsLast
<1> QED
  BY <1>3, <1>4 DEF NextArchiveEntry, ExtractReturns

LEMMA EndInv ==
  ASSUME EInv, EndExtract
  PROVE  EInv'
<1>1. /\ UNCHANGED <<root, archive, files, nextEntry>> /\ extractPc = "next"
      /\ extractPc' = "idle" /\ extracted' = "ok" /\ nextEntry = Len(archive)
      /\ Len(archive) \in Nat /\ DOMAIN archive = 1..Len(archive)
  BY DEF EInv, Types, Names, EndExtract, ExtractReturns
<1>2. /\ Names' /\ \A i : PathOf(i)' = PathOf(i)
      /\ \A i, m : GivenUpBy(i, m)' = GivenUpBy(i, m)
  BY <1>1, Stable DEF EInv, Types
<1>3. \A i \in DOMAIN archive : Behind(i) /\ InPlace(i)' = InPlace(i)
  BY <1>1, <1>2 DEF Behind, InPlace
<1>4. WholeSoFar'
  BY <1>1, <1>2, <1>3 DEF EInv, WholeSoFar
<1>5. PartialsAhead'
  BY <1>1, <1>3 DEF EInv, PartialsAhead
<1>6. Types'
  BY <1>1, <1>2 DEF EInv, Types
<1> QED
  BY <1>1, <1>4, <1>5, <1>6 DEF EInv, TempWhole, OkIsLast

LEMMA KillInv ==
  ASSUME EInv, KillExtract
  PROVE  EInv'
BY Aborted DEF EInv, Types, KillExtract, ExtractReturns

LEMMA MakeDirectoryInv ==
  ASSUME EInv, MakeDirectory
  PROVE  EInv'
<1>1. /\ UNCHANGED <<root, archive, nextEntry>> /\ extractPc = "entry" /\ Entry.dir
      /\ extractPc \in InHand /\ files' = WithDirs(Here)
  BY DEF MakeDirectory, InHand
<1>2. /\ nextEntry \in DOMAIN archive /\ nextEntry \in Nat /\ Len(archive) \in Nat
      /\ Here = PathOf(nextEntry) /\ Here \in Path /\ Here # <<>>
      /\ Entry = archive[nextEntry] /\ nextEntry \in 0..Len(archive)
      /\ DOMAIN archive = 1..Len(archive)
  BY <1>1, EntryInHand DEF InStaging, EInv, Types, Names
<1>3. Makes(files', Here)
  BY <1>1, <1>2, MakingDirs
<1>4. /\ DOMAIN files' \subseteq Path
      /\ \A p \in DOMAIN files' :
             files'[p] = Partial => p \in DOMAIN files /\ files[p] = Partial
  BY <1>2, <1>3, MakesOnly DEF EInv, Types
<1>5. CASE extractPc' = "idle" /\ extracted' = "error"
  BY <1>1, <1>2, <1>4, <1>5, Aborted
<1>6. CASE CanMake(Here) /\ extractPc' = "next" /\ extracted' = extracted
  <2>1. /\ Names' /\ \A i : PathOf(i)' = PathOf(i) /\ TempOf(i)' = TempOf(i)
        /\ \A i, m : GivenUpBy(i, m)' = GivenUpBy(i, m)
    BY <1>1, Stable DEF EInv, Types
  <2>2. Types'
    BY <1>1, <1>2, <1>4, <1>6, <2>1 DEF EInv, Types
  <2>3. \A i \in DOMAIN archive : /\ Behind(i) <=> i < nextEntry
                                  /\ Behind(i)' <=> i <= nextEntry
    BY <1>1, <1>2, <1>6 DEF Behind
  <2>4. WholeSoFar'
    <3> SUFFICES ASSUME NEW i \in DOMAIN archive, i <= nextEntry
                 PROVE  GivenUpBy(i, nextEntry) \/ InPlace(i)'
      BY <1>1, <2>1, <2>3 DEF WholeSoFar
    <3>1. CASE i = nextEntry
      <4>1. Here \in DOMAIN files' /\ files'[Here] = Directory
        BY <1>2, <1>3, <1>6 DEF Makes
      <4> QED
        BY <1>1, <1>2, <2>1, <3>1, <4>1 DEF InPlace
    <3>2. CASE i # nextEntry
      <4>1. GivenUpBy(i, nextEntry) \/ InPlace(i)
        BY <1>1, <1>2, <2>3, <3>2 DEF EInv, WholeSoFar
      <4>2. InPlace(i) => InPlace(i)'
        BY <1>1, <1>3, <2>1 DEF InPlace, Makes
      <4> QED
        BY <4>1, <4>2
    <3> QED
      BY <3>1, <3>2
  <2>5. PartialsAhead'
    <3> SUFFICES ASSUME NEW p \in DOMAIN files', files'[p] = Partial
                 PROVE  /\ extracted # "ok"
                        /\ \E i \in DOMAIN archive :
                               p = TempOf(i) /\ ~archive[i].dir /\ ~(i <= nextEntry)
      BY <1>1, <1>6, <2>1, <2>3 DEF PartialsAhead
    <3>1. PICK i \in DOMAIN archive :
              p = TempOf(i) /\ ~archive[i].dir /\ ~(i < nextEntry) /\ extracted # "ok"
      BY <1>1, <1>4, <2>3 DEF EInv, PartialsAhead
    <3>2. i # nextEntry
      BY <1>1, <1>2, <3>1
    <3> QED
      BY <1>2, <3>1, <3>2
  <2> QED
    BY <1>1, <1>6, <2>2, <2>4, <2>5 DEF EInv, TempWhole, OkIsLast
<1> QED
  BY <1>5, <1>6 DEF MakeDirectory, ExtractReturns

LEMMA ClearTempInv ==
  ASSUME EInv, ClearTemp
  PROVE  EInv'
<1>1. /\ UNCHANGED <<root, archive, nextEntry, extracted>> /\ ~Entry.dir
      /\ extractPc \in InHand /\ extractPc' = "parents"
      /\ files' \in {Without(Temp), files} /\ DOMAIN files \subseteq Path
  BY DEF ClearTemp, RemoveTemp, InHand, EInv, Types
<1>2. /\ DOMAIN files' \subseteq Path
      /\ \A p \in DOMAIN files' : p \in DOMAIN files /\ files'[p] = files[p]
      /\ \A p \in DOMAIN files :
             Under(p, Temp) \/ (p \in DOMAIN files' /\ files'[p] = files[p])
  BY <1>1, Removes
<1>3. TempWhole' /\ extractPc' \in InHand \ {"entry"}
  BY <1>1 DEF TempWhole, InHand
<1> QED
  BY <1>1, <1>2, <1>3, Onward

LEMMA EnsureParentsInv ==
  ASSUME EInv, EnsureParents
  PROVE  EInv'
<1>1. /\ UNCHANGED <<root, archive, nextEntry>> /\ extractPc = "parents"
      /\ extractPc \in InHand /\ files' = WithDirs(Parent(Here)) /\ ~Entry.dir
      /\ DOMAIN files \subseteq Path /\ nextEntry \in 0..Len(archive)
  BY DEF EnsureParents, InHand, EInv, Types
<1>2. Parent(Here) \in Path
  BY <1>1, EntryInHand DEF InStaging
<1>3. Makes(files', Parent(Here))
  BY <1>1, <1>2, MakingDirs
<1>4. /\ DOMAIN files' \subseteq Path
      /\ \A p \in DOMAIN files' :
             files'[p] = Partial => p \in DOMAIN files /\ files[p] = Partial
  BY <1>1, <1>2, <1>3, MakesOnly
<1>5. CASE extractPc' = "idle" /\ extracted' = "error"
  BY <1>1, <1>4, <1>5, Aborted
<1>6. CASE extractPc' = "open" /\ extracted' = extracted
  <2>1. TempWhole' /\ extractPc' \in InHand \ {"entry"}
    BY <1>6 DEF TempWhole, InHand
  <2>2. \A p \in DOMAIN files : p \in DOMAIN files' /\ files'[p] = files[p]
    BY <1>3 DEF Makes
  <2> QED
    BY <1>1, <1>4, <1>6, <2>1, <2>2, Onward
<1> QED
  BY <1>5, <1>6 DEF EnsureParents, ExtractReturns

LEMMA GivesUp ==
  ASSUME EInv, RemoveTemp, ExtractReturns("error"),
         UNCHANGED <<root, archive, nextEntry>>
  PROVE  EInv'
<1>1. /\ DOMAIN files' \subseteq Path
      /\ \A p \in DOMAIN files' : p \in DOMAIN files /\ files'[p] = files[p]
  BY Removes DEF RemoveTemp, EInv, Types
<1> QED
  BY <1>1, Aborted DEF ExtractReturns, EInv, Types

\* A file at the temporary path, partial or whole.
LEMMA PutsTemp ==
  ASSUME EInv, UNCHANGED <<root, archive, nextEntry, extracted>>,
         extractPc \in InHand, extractPc' \in InHand \ {"entry"}, ~Entry.dir,
         NEW c, files' = PutFile(Temp, c), extractPc' = "move" => c = ContentOf(nextEntry)
  PROVE  EInv'
<1>1. Temp \in Path /\ Temp = TempOf(nextEntry) /\ DOMAIN files \subseteq Path
  BY EntryInHand DEF InStaging, EInv, Types
<1>2. /\ DOMAIN files' \subseteq Path /\ Temp \in DOMAIN files' /\ files'[Temp] = c
      /\ \A p \in DOMAIN files : p = Temp \/ (p \in DOMAIN files' /\ files'[p] = files[p])
      /\ \A p \in DOMAIN files' : p = Temp \/ (p \in DOMAIN files /\ files'[p] = files[p])
  <2> HIDE DEF Temp
  <2> QED
    BY <1>1, Puts
<1>3. Temp' = Temp /\ ContentOf(nextEntry)' = ContentOf(nextEntry)
  BY <1>1, Stable DEF Temp, ContentOf
<1>4. TempWhole'
  BY <1>2, <1>3 DEF TempWhole
<1>5. Under(Temp, Temp)
  BY <1>1, UnderSelf
<1> QED
  BY <1>2, <1>4, <1>5, Onward

LEMMA OpenTempInv ==
  ASSUME EInv, OpenTemp
  PROVE  EInv'
<1>1. /\ UNCHANGED <<root, archive, nextEntry>> /\ extractPc \in InHand /\ ~Entry.dir
  BY DEF OpenTemp, InHand, EInv, Types
<1>2. CASE /\ files' = PutFile(Temp, Partial) /\ extractPc' = "write"
           /\ extracted' = extracted
  <2>1. extractPc' \in InHand \ {"entry"} /\ extractPc' # "move"
    BY <1>2 DEF InHand
  <2> QED
    BY <1>1, <1>2, <2>1, PutsTemp
<1>3. CASE RemoveTemp /\ ExtractReturns("error")
  BY <1>1, <1>3, GivesUp
<1> QED
  BY <1>2, <1>3 DEF OpenTemp

LEMMA WriteTempInv ==
  ASSUME EInv, WriteTemp
  PROVE  EInv'
<1>1. /\ UNCHANGED <<root, archive, nextEntry>> /\ extractPc \in InHand /\ ~Entry.dir
  BY DEF WriteTemp, InHand, EInv, Types
<1>2. CASE /\ files' = PutFile(Temp, ContentOf(nextEntry)) /\ extractPc' = "move"
           /\ extracted' = extracted
  <2>1. extractPc' \in InHand \ {"entry"}
    BY <1>2 DEF InHand
  <2> QED
    BY <1>1, <1>2, <2>1, PutsTemp
<1>3. CASE RemoveTemp /\ ExtractReturns("error")
  BY <1>1, <1>3, GivesUp
<1> QED
  BY <1>2, <1>3 DEF WriteTemp

LEMMA MoveTempInv ==
  ASSUME EInv, MoveTemp
  PROVE  EInv'
<1>1. /\ UNCHANGED <<root, archive, nextEntry>> /\ extractPc = "move" /\ ~Entry.dir
      /\ extractPc \in InHand
  BY DEF MoveTemp, InHand, EInv, Types
<1>2. CASE RemoveTemp /\ ExtractReturns("error")
  BY <1>1, <1>2, GivesUp
<1>3. CASE /\ files' = [q \in (DOMAIN files \cup {Here}) \ {Temp} |->
                           IF q = Here THEN files[Temp] ELSE files[q]]
           /\ extractPc' = "next" /\ extracted' = extracted
  <2>1. /\ nextEntry \in DOMAIN archive /\ nextEntry \in Nat /\ Len(archive) \in Nat
        /\ Here = PathOf(nextEntry) /\ Temp = TempOf(nextEntry)
        /\ Here \in Path /\ Temp \in Path /\ Here # Temp
        /\ Entry = archive[nextEntry] /\ nextEntry \in 0..Len(archive)
        /\ DOMAIN archive = 1..Len(archive) /\ DOMAIN files \subseteq Path
    BY <1>1, EntryInHand DEF InStaging, EInv, Types, Names
  <2>2. files[Temp] = ContentOf(nextEntry)
    BY <1>1 DEF EInv, TempWhole
  <2>3. /\ DOMAIN files' = (DOMAIN files \cup {Here}) \ {Temp}
        /\ files'[Here] = ContentOf(nextEntry) /\ Here \in DOMAIN files'
        /\ \A q \in DOMAIN files' : q # Here => q \in DOMAIN files /\ files'[q] = files[q]
    <3> HIDE DEF Here, Temp
    <3> QED
      BY <1>3, <2>1, <2>2
  <2>4. /\ Names' /\ \A i : PathOf(i)' = PathOf(i) /\ TempOf(i)' = TempOf(i)
        /\ \A i, m : GivenUpBy(i, m)' = GivenUpBy(i, m)
    BY <1>1, Stable DEF EInv, Types
  <2>5. Types'
    <3>1. DOMAIN files' \subseteq Path
      BY <2>1, <2>3
    <3> QED
      BY <1>1, <1>3, <2>1, <2>4, <3>1 DEF EInv, Types
  <2>6. \A i \in DOMAIN archive : /\ Behind(i) <=> i < nextEntry
                                  /\ Behind(i)' <=> i <= nextEntry
    BY <1>1, <1>3, <2>1 DEF Behind
  <2>7. WholeSoFar'
    <3> SUFFICES ASSUME NEW i \in DOMAIN archive, i <= nextEntry
                 PROVE  GivenUpBy(i, nextEntry) \/ InPlace(i)'
      BY <1>1, <2>4, <2>6 DEF WholeSoFar
    <3>1. CASE i = nextEntry
      <4>1. PathOf(i)' = Here /\ ~archive[i].dir /\ archive' = archive
            /\ ContentOf(i)' = ContentOf(nextEntry)
        BY <1>1, <2>1, <2>4, <3>1 DEF ContentOf
      <4> QED
        BY <2>3, <4>1 DEF InPlace
    <3>2. CASE i # nextEntry
      <4>1. GivenUpBy(i, nextEntry) \/ InPlace(i)
        BY <1>1, <2>1, <2>6, <3>2 DEF EInv, WholeSoFar
      <4>2. i \in Nat /\ i < nextEntry /\ nextEntry \in (i + 1)..nextEntry
        BY <2>1, <3>2
      <4>3. ASSUME PathOf(i) \in {Here, Temp}
            PROVE  GivenUpBy(i, nextEntry)
        <5>1. PathOf(i) = Here \/ Under(PathOf(i), Temp)
          BY <2>1, <4>3, UnderSelf
        <5> QED
          BY <1>1, <2>1, <4>2, <5>1 DEF GivenUpBy
      <4>4. ASSUME PathOf(i) \notin {Here, Temp}, InPlace(i)
            PROVE  InPlace(i)'
        <5>1. PathOf(i) \in DOMAIN files' /\ files'[PathOf(i)] = files[PathOf(i)]
          BY <2>3, <4>4 DEF InPlace
        <5> QED
          BY <1>1, <2>4, <4>4, <5>1 DEF InPlace, ContentOf
      <4> QED
        BY <4>1, <4>3, <4>4
    <3> QED
      BY <3>1, <3>2
  <2>8. PartialsAhead'
    <3> SUFFICES ASSUME NEW p \in DOMAIN files', files'[p] = Partial
                 PROVE  /\ extracted # "ok"
                        /\ \E i \in DOMAIN archive :
                               p = TempOf(i) /\ ~archive[i].dir /\ ~(i <= nextEntry)
      BY <1>1, <1>3, <2>4, <2>6 DEF PartialsAhead
    <3>1. p # Here /\ p # Temp /\ p \in DOMAIN files /\ files[p] = Partial
      BY <2>3, Contents
    <3>2. PICK i \in DOMAIN archive :
              p = TempOf(i) /\ ~archive[i].dir /\ ~(i < nextEntry) /\ extracted # "ok"
      BY <1>1, <2>6, <3>1 DEF EInv, PartialsAhead
    <3>3. i # nextEntry
      BY <2>1, <3>1, <3>2
    <3> QED
      BY <2>1, <3>2, <3>3
  <2> QED
    BY <1>1, <1>3, <2>5, <2>7, <2>8 DEF EInv, TempWhole, OkIsLast
<1> QED
  BY <1>2, <1>3 DEF MoveTemp

LEMMA StepInv ==
  ASSUME EInv, [ExtractNext]_extractVars
  PROVE  EInv'
<1>1. CASE UNCHANGED extractVars
  <2>1. /\ UNCHANGED <<root, archive, files, nextEntry, extractPc, extracted>>
        /\ DOMAIN files' = DOMAIN files
    BY <1>1 DEF extractVars
  <2>2. /\ Names' = Names /\ Entry' = Entry
        /\ \A i : PathOf(i)' = PathOf(i) /\ TempOf(i)' = TempOf(i)
        /\ \A i, m : GivenUpBy(i, m)' = GivenUpBy(i, m)
    BY <2>1, Stable DEF Entry
  <2>3. /\ \A i : Behind(i)' = Behind(i) /\ InPlace(i)' = InPlace(i)
        /\ Temp' = Temp /\ ContentOf(nextEntry)' = ContentOf(nextEntry)
    BY <2>1, <2>2 DEF Behind, InPlace, Temp, ContentOf
  <2>4. Types' /\ TempWhole' /\ OkIsLast'
    BY <2>1, <2>2, <2>3 DEF EInv, Types, TempWhole, OkIsLast
  <2>5. WholeSoFar' /\ PartialsAhead'
    BY <2>1, <2>2, <2>3 DEF EInv, WholeSoFar, PartialsAhead
  <2> QED
    BY <2>4, <2>5 DEF EInv
<1> QED
  BY <1>1, StartInv, NextEntryInv, MakeDirectoryInv, ClearTempInv,
     EnsureParentsInv, OpenTempInv, WriteTempInv, MoveTempInv, EndInv, KillInv
     DEF ExtractNext

LEMMA EInvHolds == ExtractSpec => []EInv
<1> QED
  BY InitInv, StepInv, PTL DEF ExtractSpec

\* Whatever fails and whenever calls are killed, for any archive: a file that
\* is only partly extracted has the name of a temporary file
\* (update_extract.c:256-285).
THEOREM PartialsAreTemporary == ExtractSpec => []NoPartialFile
<1>1. EInv => NoPartialFile
  BY DEF EInv, PartialsAhead, NoPartialFile
<1> QED
  BY <1>1, EInvHolds, PTL

\* A call that reports success has put every entry where its name says, for
\* any archive, on top of whatever earlier calls left, but for those that later
\* entries replace (update_extract.c:211-287).
THEOREM SuccessIsWhole == ExtractSpec => []WholeArchive
<1>1. EInv => WholeArchive
  <2> SUFFICES ASSUME EInv, extracted = "ok"
               PROVE  /\ \A i \in DOMAIN archive : GivenUp(i) \/ InPlace(i)
                      /\ \A p \in DOMAIN files : files[p] # Partial
    BY DEF WholeArchive, InPlace
  <2>1. extractPc = "idle" /\ nextEntry = Len(archive)
    BY DEF EInv, OkIsLast
  <2>2. ASSUME NEW i \in DOMAIN archive
        PROVE  GivenUp(i) \/ InPlace(i)
    <3>1. Behind(i)
      BY <2>1, <2>2 DEF EInv, Types, Names, Behind
    <3>2. GivenUpBy(i, nextEntry) \/ InPlace(i)
      BY <2>2, <3>1 DEF EInv, WholeSoFar
    <3> QED
      BY <2>1, <3>2 DEF GivenUpBy, GivenUp
  <2> QED
    BY <2>2 DEF EInv, PartialsAhead
<1> QED
  BY <1>1, EInvHolds, PTL
-----------------------------------------------------------------------------
(***************************************************************************)
(* What an extraction may change.                                          *)
(***************************************************************************)
Install == Resolve(<<>>, root)

\* The directories above the staging directory are there.
DirsThere ==
    \A q \in Ancestors(Parent(Staging)) : q \in DOMAIN files /\ files[q] = Directory

IInv == EInv /\ Beside(root) /\ DirsThere

\* No install directory ends with a separator.
NoneEndsWithSeparator == \A n \in Installs : ValidAbsolute(n) => Last(n.parts) # <<>>

LEMMA RootBeside ==
  ASSUME NoneEndsWithSeparator, Names
  PROVE  Beside(root)
BY StagingBeside, ExtractAssumption DEF NoneEndsWithSeparator, Names, ValidAbsolute

LEMMA StagingShape ==
  ASSUME Beside(root)
  PROVE  \E d \in Path : \E c, e \in Component :
             /\ c # e /\ Install = Append(d, c) /\ Staging = Append(d, e)
             /\ Install \in Path /\ Staging \in Path /\ Staging # <<>>
             /\ Parent(Staging) = d
             /\ Len(Install) = Len(d) + 1 /\ Len(Staging) = Len(d) + 1
             /\ Len(d) \in Nat
             /\ Install[Len(d) + 1] = c /\ Staging[Len(d) + 1] = e
<1>1. PICK d \in Path, c \in Component, e \in Component :
          c # e /\ Install = Append(d, c) /\ Staging = Append(d, e)
  BY DEF Beside, Install, Staging
<1>2. Len(d) \in Nat
  BY DEF Path
<1>3. ASSUME NEW x \in Component
      PROVE  /\ Append(d, x) \in Path /\ Append(d, x) # <<>>
             /\ Len(Append(d, x)) = Len(d) + 1 /\ Append(d, x)[Len(d) + 1] = x
             /\ Front(Append(d, x)) = d
  <2>1. /\ Append(d, x) \in Path /\ Len(Append(d, x)) = Len(d) + 1
        /\ Append(d, x)[Len(d) + 1] = x /\ Append(d, x) # <<>>
    BY <1>2 DEF Path
  <2>2. \A i \in 1..Len(d) : Append(d, x)[i] = d[i]
    BY <1>2 DEF Path
  <2>3. /\ Parent(Append(d, x)) \in Path /\ Len(Parent(Append(d, x))) = Len(d)
        /\ \A i \in 1..Len(d) : Parent(Append(d, x))[i] = d[i]
    <3> DEFINE y == Append(d, x)
    <3>1. y \in Path /\ y # <<>> /\ Len(y) = Len(d) + 1 /\ \A i \in 1..Len(d) : y[i] = d[i]
      BY <2>1, <2>2
    <3> HIDE DEF y
    <3>2. /\ Parent(y) \in Path /\ Len(Parent(y)) = Len(d)
          /\ \A i \in 1..Len(d) : Parent(y)[i] = d[i]
      <4>1. /\ Parent(y) \in Path /\ Len(Parent(y)) = Len(y) - 1
            /\ \A i \in 1..Len(Parent(y)) : Parent(y)[i] = y[i]
        BY <3>1, ParentOf
      <4> QED
        BY <1>2, <3>1, <4>1
    <3> QED
      BY <3>2 DEF y
  <2>4. Parent(Append(d, x)) = d
    BY <2>3 DEF Path
  <2> QED
    BY <2>1, <2>4 DEF Parent
<1> QED
  BY <1>1, <1>2, <1>3 DEF Parent

\* Nothing is in both directories.
LEMMA Apart ==
  ASSUME Beside(root), NEW p \in Path, Under(p, Staging)
  PROVE  ~Under(p, Install)
<1>1. PICK d \in Path, c \in Component, e \in Component :
          /\ c # e /\ Install \in Path /\ Staging \in Path
          /\ Len(Install) = Len(d) + 1 /\ Len(Staging) = Len(d) + 1
          /\ Len(d) \in Nat
          /\ Install[Len(d) + 1] = c /\ Staging[Len(d) + 1] = e
  BY StagingShape
<1>2. Len(d) + 1 \in 1..Len(Install) /\ Len(d) + 1 \in 1..Len(Staging)
  BY <1>1
<1>3. p[Len(d) + 1] = e
  BY <1>1, <1>2, UnderIndex
<1>4. Under(p, Install) => p[Len(d) + 1] = c
  BY <1>1, <1>2, UnderIndex
<1> QED
  BY <1>1, <1>3, <1>4

\* Only what is in the staging directory changes.
OnlyStaging ==
    \A p \in DOMAIN files \cup DOMAIN files' :
        \/ Under(p, Staging)
        \/ p \in DOMAIN files /\ p \in DOMAIN files' /\ files'[p] = files[p]

LEMMA MakesInside ==
  ASSUME IInv, NEW x \in Path, Under(x, Staging), Makes(files', x)
  PROVE  OnlyStaging
<1>1. Staging \in Path /\ Staging # <<>>
  BY StagingShape DEF IInv
<1>2. SUFFICES ASSUME NEW p \in DOMAIN files', p \notin DOMAIN files
               PROVE  Under(p, Staging)
  BY DEF OnlyStaging, Makes
<1>3. p \in Ancestors(x)
  BY <1>2 DEF Makes
<1>4. Under(p, Staging) \/ p \in Ancestors(Parent(Staging))
  BY <1>1, <1>3, AncestorsSplit
<1> QED
  BY <1>2, <1>4 DEF IInv, DirsThere

LEMMA RemovesInside ==
  ASSUME IInv, extractPc \in InHand, RemoveTemp
  PROVE  OnlyStaging
<1>1. Staging \in Path /\ Temp \in Path /\ Under(Temp, Staging)
  BY EntryInHand, StagingShape DEF IInv, InStaging
<1>2. /\ \A p \in DOMAIN files' : p \in DOMAIN files /\ files'[p] = files[p]
      /\ \A p \in DOMAIN files :
             Under(p, Temp) \/ (p \in DOMAIN files' /\ files'[p] = files[p])
      /\ DOMAIN files \subseteq Path
  BY Removes DEF RemoveTemp, IInv, EInv, Types
<1>3. \A p \in DOMAIN files : Under(p, Temp) => Under(p, Staging)
  BY <1>1, <1>2, UnderTransitive
<1> QED
  BY <1>2, <1>3 DEF OnlyStaging

LEMMA PutsInside ==
  ASSUME IInv, extractPc \in InHand, NEW c, files' = PutFile(Temp, c)
  PROVE  OnlyStaging
<1>1. Temp \in Path /\ Under(Temp, Staging)
  BY EntryInHand DEF IInv, InStaging
<1>2. /\ Temp \in DOMAIN files'
      /\ \A p \in DOMAIN files : p = Temp \/ (p \in DOMAIN files' /\ files'[p] = files[p])
      /\ \A p \in DOMAIN files' : p = Temp \/ (p \in DOMAIN files /\ files'[p] = files[p])
  <2>1. DOMAIN files \subseteq Path
    BY DEF IInv, EInv, Types
  <2> HIDE DEF Temp
  <2> QED
    BY <1>1, <2>1, Puts
<1> QED
  BY <1>1, <1>2 DEF OnlyStaging

LEMMA MovesInside ==
  ASSUME IInv, MoveTemp
  PROVE  OnlyStaging
<1>1. extractPc \in InHand
  BY DEF MoveTemp, InHand
<1>2. CASE RemoveTemp
  BY <1>1, <1>2, RemovesInside
<1>3. CASE files' = [q \in (DOMAIN files \cup {Here}) \ {Temp} |->
                        IF q = Here THEN files[Temp] ELSE files[q]]
  <2>1. Under(Here, Staging) /\ Under(Temp, Staging)
    BY <1>1, EntryInHand DEF IInv, InStaging
  <2> HIDE DEF Here, Temp
  <2> QED
    BY <1>3, <2>1 DEF OnlyStaging
<1> QED
  BY <1>2, <1>3 DEF MoveTemp

LEMMA StepInside ==
  ASSUME IInv, [ExtractNext]_extractVars
  PROVE  OnlyStaging
<1>1. ASSUME UNCHANGED files
      PROVE  OnlyStaging
  BY <1>1 DEF OnlyStaging
<1>2. CASE StartExtract
  <2>1. Staging \in Path /\ Under(Staging, Staging)
    BY StagingShape, UnderSelf DEF IInv
  <2>2. Makes(files', Staging)
    BY <1>2, <2>1, MakingDirs DEF StartExtract
  <2> QED
    BY <2>1, <2>2, MakesInside
<1>3. CASE MakeDirectory
  <2>1. Here \in Path /\ Under(Here, Staging)
    BY <1>3, EntryInHand DEF IInv, InStaging, MakeDirectory, InHand
  <2>2. Makes(files', Here)
    BY <1>3, <2>1, MakingDirs DEF MakeDirectory
  <2> QED
    BY <2>1, <2>2, MakesInside
<1>4. CASE EnsureParents
  <2>1. Parent(Here) \in Path /\ Under(Parent(Here), Staging)
    BY <1>4, EntryInHand DEF IInv, InStaging, EnsureParents, InHand
  <2>2. Makes(files', Parent(Here))
    BY <1>4, <2>1, MakingDirs DEF EnsureParents
  <2> QED
    BY <2>1, <2>2, MakesInside
<1>5. CASE ClearTemp
  BY <1>5, RemovesInside DEF ClearTemp, InHand
<1>6. CASE OpenTemp
  BY <1>6, RemovesInside, PutsInside DEF OpenTemp, InHand
<1>7. CASE WriteTemp
  BY <1>7, RemovesInside, PutsInside DEF WriteTemp, InHand
<1>8. CASE MoveTemp
  BY <1>8, MovesInside
<1>9. CASE NextArchiveEntry \/ EndExtract \/ KillExtract \/ UNCHANGED extractVars
  BY <1>1, <1>9 DEF NextArchiveEntry, EndExtract, KillExtract, extractVars
<1> QED
  BY <1>2, <1>3, <1>4, <1>5, <1>6, <1>7, <1>8, <1>9 DEF ExtractNext

LEMMA RootStays ==
  ASSUME [ExtractNext]_extractVars
  PROVE  UNCHANGED <<root, archive>>
BY DEF ExtractNext, extractVars, StartExtract, NextArchiveEntry, MakeDirectory,
       ClearTemp, EnsureParents, OpenTemp, WriteTemp, MoveTemp, EndExtract,
       KillExtract

\* Whatever names an archive has and wherever the application is installed, an
\* extraction changes nothing outside the staging directory and nothing in the
\* directory of the application, provided that this one is not given with a
\* separator at its end (update_extract.c:67-118, update_path.c:58-89, 251-301).
THEOREM ExtractionStaysInside ==
  ASSUME NoneEndsWithSeparator
  PROVE  ExtractSpec => StaysInside
<1>1. ExtractInit => IInv
  <2> SUFFICES ASSUME ExtractInit
               PROVE  IInv
    OBVIOUS
  <2>1. EInv /\ Beside(root)
    BY InitInv, RootBeside DEF EInv, Types
  <2>2. DirsThere
    <3>1. PICK d \in Path, c \in Component, e \in Component :
              /\ Install = Append(d, c) /\ Install \in Path /\ Parent(Staging) = d
              /\ Len(Install) = Len(d) + 1 /\ Len(d) \in Nat
      BY <2>1, StagingShape
    <3>2. \A k \in 1..Len(d) : Install[k] = d[k]
      BY <3>1 DEF Path
    <3>3. ASSUME NEW q \in Ancestors(d)
          PROVE  q \in Ancestors(Install)
      <4>1. /\ q \in Path /\ Len(q) \in 1..Len(d)
            /\ \A k \in 1..Len(q) : q[k] = d[k]
        BY <3>3, AncestorsOf
      <4>2. Len(q) \in 1..Len(Install) /\ \A k \in 1..Len(q) : k \in 1..Len(d)
        BY <3>1, <4>1
      <4> QED
        BY <3>1, <3>2, <4>1, <4>2, Agrees
    <3>4. \A q \in Ancestors(Install) : q \in DOMAIN files /\ files[q] = Directory
      BY DEF ExtractInit, Install
    <3> QED
      BY <3>1, <3>3, <3>4 DEF DirsThere
  <2> QED
    BY <2>1, <2>2 DEF IInv
<1>2. IInv /\ [ExtractNext]_extractVars => IInv'
  <2> SUFFICES ASSUME IInv, [ExtractNext]_extractVars
               PROVE  IInv'
    OBVIOUS
  <2>1. EInv' /\ OnlyStaging /\ UNCHANGED <<root, archive>>
    BY StepInv, StepInside, RootStays DEF IInv
  <2>2. Staging' = Staging /\ Beside(root)'
    BY <2>1, Stable DEF IInv, Beside
  <2>3. DirsThere'
    <3>1. Staging \in Path /\ Staging # <<>>
      BY StagingShape DEF IInv
    <3>2. \A q \in Ancestors(Parent(Staging)) : ~Under(q, Staging)
      BY <3>1, AboveOutside
    <3>3. \A q \in Ancestors(Parent(Staging)) :
              q \in DOMAIN files' /\ files'[q] = Directory
      BY <2>1, <3>2 DEF IInv, DirsThere, OnlyStaging
    <3> QED
      BY <2>2, <3>3 DEF DirsThere
  <2> QED
    BY <2>1, <2>2, <2>3 DEF IInv
<1>3. IInv /\ IInv' /\ [ExtractNext]_extractVars =>
          [\A p \in DOMAIN files \cup DOMAIN files' :
               \/ Under(p, Staging) /\ ~Under(p, Resolve(<<>>, root))
               \/ p \in DOMAIN files /\ p \in DOMAIN files' /\ files'[p] = files[p]
          ]_extractVars
  <2> SUFFICES ASSUME IInv, IInv', [ExtractNext]_extractVars,
                      NEW p \in DOMAIN files \cup DOMAIN files'
               PROVE  \/ Under(p, Staging) /\ ~Under(p, Resolve(<<>>, root))
                      \/ p \in DOMAIN files /\ p \in DOMAIN files' /\ files'[p] = files[p]
    OBVIOUS
  <2>1. p \in Path
    BY DEF IInv, EInv, Types
  <2>2. Under(p, Staging) => ~Under(p, Resolve(<<>>, root))
    BY <2>1, Apart DEF IInv, Install
  <2> QED
    BY <2>2, StepInside DEF OnlyStaging
<1> QED
  BY <1>1, <1>2, <1>3, PTL DEF ExtractSpec, StaysInside
==============================================================================
