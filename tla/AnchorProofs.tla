---------------------------- MODULE AnchorProofs -----------------------------
(***************************************************************************)
(* The scan of a tag with any number of attributes, each of any length,    *)
(* as long as each can be read in one way only.  The scan itself knows     *)
(* nothing of attributes: it sees one row of symbols and its position.     *)
(***************************************************************************)
EXTENDS Anchor, TextProofs
-----------------------------------------------------------------------------
(***************************************************************************)
(* The tag.  Its attributes stand one behind the other: o[i] symbols       *)
(* stand in front of what follows attribute i.                             *)
(***************************************************************************)
Symbols == STRING \cup {">"}

Standing(o, n) ==
    /\ n = Len(attrs) /\ o \in [0..n -> Nat] /\ o[0] = 0
    /\ inner \in Seq(Symbols)
    /\ Len(inner) = o[n] + 1 /\ inner[o[n] + 1] = ">"
    /\ \A i \in 1..n :
           /\ o[i] <= o[n] /\ o[i] = o[i - 1] + Len(attrs[i].text)
           /\ \A p \in 1..Len(attrs[i].text) : inner[o[i - 1] + p] = attrs[i].text[p]

\* What stands in one of several sequences stays where it is behind them.
StandsIn(t, o, i, ss) ==
    /\ Len(t) = o[i]
    /\ \A j \in 1..i : /\ o[j] <= o[i]
                       /\ o[j] = o[j - 1] + Len(ss[j])
                       /\ \A p \in 1..Len(ss[j]) : t[o[j - 1] + p] = ss[j][p]

InTurn(f, o, ss, D, n) ==
    /\ f[0] = <<>>
    /\ \A i \in 0..n : f[i] \in Seq(D) /\ o[i] = Len(f[i])
    /\ \A i \in 1..n : ss[i] \in Seq(D) /\ f[i] = f[i - 1] \o ss[i]

LEMMA StandsOn ==
  ASSUME NEW D, NEW n \in Nat, NEW ss, NEW f, NEW o, InTurn(f, o, ss, D, n)
  PROVE  StandsIn(f[n], o, n, ss)
<1>1. ASSUME NEW i \in 0..n
      PROVE  f[i] \in Seq(D) /\ o[i] = Len(f[i]) /\ o[i] \in Nat
  <2>1. f[i] \in Seq(D) /\ o[i] = Len(f[i])
    BY DEF InTurn
  <2> QED
    BY <2>1
<1>2. ASSUME NEW i \in 1..n
      PROVE  /\ i - 1 \in 0..n /\ i \in 0..n /\ ss[i] \in Seq(D)
             /\ o[i] = o[i - 1] + Len(ss[i])
             /\ Chained(f[i - 1], ss[i], f[i])
  <2>1. i - 1 \in 0..n /\ i \in 0..n
    OBVIOUS
  <2>2. ss[i] \in Seq(D) /\ f[i] = f[i - 1] \o ss[i]
    BY DEF InTurn
  <2>3. Chained(f[i - 1], ss[i], f[i - 1] \o ss[i])
    BY <1>1, <2>1, <2>2, Behind
  <2>4. Chained(f[i - 1], ss[i], f[i])
    BY <2>2, <2>3
  <2>5. o[i] = Len(f[i]) /\ o[i - 1] = Len(f[i - 1])
    BY <1>1, <2>1
  <2> QED
    BY <2>1, <2>2, <2>4, <2>5 DEF Chained
<1> DEFINE S == {i \in Nat : i <= n => StandsIn(f[i], o, i, ss)}
<1>3. 0 \in S
  <2>1. 0 \in 0..n /\ Len(f[0]) = o[0] /\ 1..0 = {}
    BY <1>1
  <2>2. StandsIn(f[0], o, 0, ss)
    BY <2>1 DEF StandsIn
  <2> QED
    BY <2>2
<1>4. ASSUME NEW i \in Nat, i \in S
      PROVE  i + 1 \in S
  <2> SUFFICES ASSUME i + 1 <= n
               PROVE  StandsIn(f[i + 1], o, i + 1, ss)
    OBVIOUS
  <2>1. PICK k : k = i + 1
    OBVIOUS
  <2>2. k \in 1..n /\ k \in 0..n /\ k - 1 = i /\ i \in 0..n
    BY <2>1
  <2>3. StandsIn(f[i], o, i, ss)
    BY <1>4, <2>2
  <2>4. Chained(f[i], ss[k], f[k]) /\ o[k] = o[i] + Len(ss[k])
    BY <1>2, <2>2
  <2>5. Len(ss[k]) \in Nat
    BY <1>2, <2>2
  <2>6. o[k] = Len(f[k]) /\ o[i] = Len(f[i]) /\ o[i] \in Nat /\ o[k] \in Nat
    BY <1>1, <2>2
  <2>7. o[i] <= o[k]
    <3>1. o[k] = o[i] + Len(ss[k])
      BY <2>4
    <3>2. o[i] \in Nat
      BY <2>6
    <3> QED
      BY <2>5, <3>1, <3>2
  <2>8. ASSUME NEW j \in 1..k
        PROVE  /\ o[j] <= o[k]
               /\ o[j] = o[j - 1] + Len(ss[j])
               /\ \A p \in 1..Len(ss[j]) : f[k][o[j - 1] + p] = ss[j][p]
    <3>1. CASE j = k
      <4>1. o[j - 1] = o[i]
        BY <3>1, <2>2
      <4>2. \A p \in 1..Len(ss[k]) : f[k][o[i] + p] = ss[k][p]
        BY <2>4, <2>6 DEF Chained
      <4> QED
        BY <3>1, <4>1, <4>2, <2>4, <2>6
    <3>2. CASE j # k
      <4>1. j \in 1..i /\ j \in 1..n
        BY <3>2, <2>2
      <4>2. /\ o[j] <= o[i]
            /\ o[j] = o[j - 1] + Len(ss[j])
            /\ \A p \in 1..Len(ss[j]) : f[i][o[j - 1] + p] = ss[j][p]
        BY <4>1, <2>3 DEF StandsIn
      <4>3. Len(ss[j]) \in Nat /\ o[j - 1] \in Nat /\ o[j] \in Nat
        BY <1>1, <1>2, <4>1
      <4>4. o[j] <= o[k]
        BY <2>6, <2>7, <4>2, <4>3
      <4>5. ASSUME NEW p \in 1..Len(ss[j])
            PROVE  f[k][o[j - 1] + p] = ss[j][p]
        <5>1. p \in Nat /\ 1 <= p /\ p <= Len(ss[j])
          BY <4>3
        <5>2. o[j - 1] + p \in 1..Len(f[i])
          BY <5>1, <4>2, <4>3, <2>6
        <5>3. f[k][o[j - 1] + p] = f[i][o[j - 1] + p]
          BY <5>2, <2>4 DEF Chained
        <5> QED
          BY <5>3, <4>2
      <4> QED
        BY <4>2, <4>4, <4>5
    <3> QED
      BY <3>1, <3>2
  <2>9. StandsIn(f[k], o, k, ss)
    BY <2>6, <2>8 DEF StandsIn
  <2> QED
    BY <2>1, <2>9
<1>5. Nat \subseteq S
  <2> HIDE DEF S
  <2> QED
    BY <1>3, <1>4, NumberInduction
<1>6. n \in S
  BY <1>5
<1> QED
  BY <1>1, <1>6

\* A place among l that end before b.
LEMMA PlaceWithin ==
  ASSUME NEW a \in Nat, NEW l \in Nat, NEW b \in Nat, a + l <= b, NEW p \in 1..l
  PROVE  a + p \in 1..b
OBVIOUS

\* That is how a tag is put together.
LEMMA TagStands ==
  ASSUME AnchorAssumption, attrs \in Seq(Attributes), NEW n, n = Len(attrs),
         inner = Joined(attrs) \o <<">">>
  PROVE  \E o : Standing(o, n)
<1> DEFINE D == Symbols
           ss == [i \in DOMAIN attrs |-> attrs[i].text]
<1>1. /\ n \in Nat
      /\ DOMAIN attrs = 1..n
      /\ \A i \in 1..n : attrs[i] \in Attributes
  BY LenProperties
<1>2. ss \in [1..n -> Seq(D)] /\ \A i \in 1..n : ss[i] = attrs[i].text
  BY <1>1 DEF AnchorAssumption, Symbols
<1> DEFINE c == ">"
           e == <<c>>
<1>3. c \in D
  BY DEF Symbols
<1> HIDE DEF D, ss, c
<1>4. e \in Seq(D) /\ Len(e) = 1 /\ e[1] = c
  BY <1>3
<1>5. ss \in Seq(Seq(D)) /\ Len(ss) = n
  BY <1>2
<1>6. PICK f \in [0..Len(ss) -> Seq(D)] :
          /\ f[0] = <<>>
          /\ \A i \in 1..Len(ss) : f[i] = f[i - 1] \o ss[i]
          /\ FlattenSeq(ss) = f[Len(ss)]
  BY <1>5, FlattenSteps
<1>7. /\ f \in [0..n -> Seq(D)] /\ f[0] = <<>>
      /\ \A i \in 1..n : f[i] = f[i - 1] \o ss[i]
      /\ FlattenSeq(ss) = f[n]
  BY <1>5, <1>6
<1>8. inner = f[n] \o e
  BY <1>7 DEF Joined, ss, c
<1> DEFINE o == [i \in 0..n |-> Len(f[i])]
<1>9. /\ o \in [0..n -> Nat] /\ o[0] = 0
      /\ \A i \in 0..n : f[i] \in Seq(D) /\ o[i] = Len(f[i])
  <2>1. f \in [0..n -> Seq(D)]
    BY <1>7
  <2>2. ASSUME NEW i \in 0..n
        PROVE  f[i] \in Seq(D) /\ Len(f[i]) \in Nat
    <3>1. f[i] \in Seq(D)
      BY <2>1
    <3> QED
      BY <3>1
  <2>3. 0 \in 0..n /\ Len(f[0]) = 0
    BY <1>1, <1>7
  <2> QED
    BY <2>2, <2>3
<1> HIDE DEF o
<1>10. StandsIn(f[n], o, n, ss)
  <2>1. InTurn(f, o, ss, D, n)
    BY <1>2, <1>7, <1>9 DEF InTurn
  <2> QED
    BY <1>1, <2>1, StandsOn
<1>11. n \in 0..n /\ f[n] \in Seq(D) /\ Len(f[n]) = o[n] /\ o[n] \in Nat
  BY <1>1, <1>7, <1>9
<1> HIDE DEF e
<1>12. inner \in Seq(D) /\ Chained(f[n], e, inner)
  BY <1>8, <1>11, <1>4, Behind
<1>13. /\ Len(inner) = o[n] + 1 /\ inner[o[n] + 1] = c
       /\ \A p \in 1..o[n] : inner[p] = f[n][p]
  BY <1>11, <1>12, <1>4 DEF Chained
<1>14. ASSUME NEW i \in 1..n
       PROVE  /\ o[i] <= o[n] /\ o[i] = o[i - 1] + Len(attrs[i].text)
              /\ \A p \in 1..Len(attrs[i].text) : inner[o[i - 1] + p] = attrs[i].text[p]
  <2> DEFINE t == attrs[i].text
  <2>1. t = ss[i] /\ Len(t) \in Nat
    BY <1>2
  <2> HIDE DEF t
  <2>2. /\ o[i] <= o[n] /\ o[i] = o[i - 1] + Len(t)
        /\ \A p \in 1..Len(t) : f[n][o[i - 1] + p] = t[p]
    BY <1>10, <2>1 DEF StandsIn
  <2>3. o[i - 1] \in Nat
    <3>1. i - 1 \in 0..n /\ o \in [0..n -> Nat]
      BY <1>1, <1>9
    <3> QED
      BY <3>1
  <2>4. ASSUME NEW p \in 1..Len(t)
        PROVE  inner[o[i - 1] + p] = t[p]
    <3>1. o[i - 1] + Len(t) <= o[n] /\ o[n] \in Nat
      BY <2>2, <1>11
    <3>2. o[i - 1] + p \in 1..o[n]
      BY <2>1, <2>3, <3>1, PlaceWithin
    <3> QED
      BY <3>2, <2>2, <1>13
  <2>5. /\ o[i] <= o[n] /\ o[i] = o[i - 1] + Len(t)
        /\ \A p \in 1..Len(t) : inner[o[i - 1] + p] = t[p]
    BY <2>2, <2>4
  <2> QED
    BY <2>5 DEF t
<1>15. Standing(o, n)
  BY <1>9, <1>12, <1>13, <1>14 DEF Standing, D, c
<1> QED
  BY <1>15

\* The scan of a symbol set stops at the first place that is not of it,
LEMMA PastAllIs ==
  ASSUME NEW i \in Nat, InnerEnd \in Nat, NEW S, NEW j \in i..InnerEnd,
         j < InnerEnd => inner[j] \notin S,
         \A k \in i..(j - 1) : inner[k] \in S
  PROVE  PastAll(i, S) = j
<1> DEFINE E == InnerEnd
           First(m) == /\ m \in i..E
                       /\ m < E => inner[m] \notin S
                       /\ \A k \in i..(m - 1) : inner[k] \in S
           c == CHOOSE m \in i..E : /\ m < E => inner[m] \notin S
                                    /\ \A k \in i..(m - 1) : inner[k] \in S
<1>1. E \in Nat /\ First(j)
  OBVIOUS
<1>2. First(c)
  BY <1>1
<1>3. PastAll(i, S) = c
  BY DEF PastAll
<1> HIDE DEF c, E
<1>4. c \in Nat /\ j \in Nat /\ c <= E /\ j <= E
  BY <1>1, <1>2
<1>5. ~ (c < j)
  <2>1. c < j => c \in i..(j - 1) /\ c < E
    BY <1>1, <1>2, <1>4
  <2> QED
    BY <2>1, <1>1, <1>2
<1>6. ~ (j < c)
  <2>1. j < c => j \in i..(c - 1) /\ j < E
    BY <1>1, <1>2, <1>4
  <2> QED
    BY <2>1, <1>1, <1>2
<1> QED
  BY <1>3, <1>4, <1>5, <1>6

\* and the scan for one at the first place that is.
LEMMA UpToIs ==
  ASSUME NEW i \in Nat, InnerEnd \in Nat, NEW S, NEW j \in i..InnerEnd,
         j < InnerEnd => inner[j] \in S,
         \A k \in i..(j - 1) : inner[k] \notin S
  PROVE  UpTo(i, S) = j
<1> DEFINE E == InnerEnd
           First(m) == /\ m \in i..E
                       /\ m < E => inner[m] \in S
                       /\ \A k \in i..(m - 1) : inner[k] \notin S
           c == CHOOSE m \in i..E : /\ m < E => inner[m] \in S
                                    /\ \A k \in i..(m - 1) : inner[k] \notin S
<1>1. E \in Nat /\ First(j)
  OBVIOUS
<1>2. First(c)
  BY <1>1
<1>3. UpTo(i, S) = c
  BY DEF UpTo
<1> HIDE DEF c, E
<1>4. c \in Nat /\ j \in Nat /\ c <= E /\ j <= E
  BY <1>1, <1>2
<1>5. ~ (c < j)
  <2>1. c < j => c \in i..(j - 1) /\ c < E
    BY <1>1, <1>2, <1>4
  <2> QED
    BY <2>1, <1>1, <1>2
<1>6. ~ (j < c)
  <2>1. j < c => j \in i..(c - 1) /\ j < E
    BY <1>1, <1>2, <1>4
  <2> QED
    BY <2>1, <1>1, <1>2
<1> QED
  BY <1>3, <1>4, <1>5, <1>6

-----------------------------------------------------------------------------
\* A text of l symbols stands behind b others; something that ends a name and
\* a value follows it.
Holds(t, b, l) ==
    /\ b \in Nat /\ l \in Nat /\ t \in Seq(STRING) /\ l = Len(t)
    /\ inner \in Seq(Symbols)
    /\ InnerEnd \in Nat /\ b + l + 1 < InnerEnd
    /\ \A p \in 1..l : inner[b + p] = t[p]
    /\ inner[b + l + 1] \in {"sp", ">"}

\* A place of the text is one of the tag.
LEMMA PlaceOfText ==
  ASSUME NEW t, NEW b, NEW l, Holds(t, b, l), NEW i \in Nat, 1 <= i, i <= l
  PROVE  /\ b + i \in Nat /\ b + i < InnerEnd /\ inner[b + i] = t[i]
<1>1. i \in 1..l /\ b \in Nat /\ l \in Nat /\ InnerEnd \in Nat /\ b + l + 1 < InnerEnd
  BY DEF Holds
<1>2. inner[b + i] = t[i]
  BY <1>1 DEF Holds
<1> QED
  BY <1>1, <1>2

\* A part of the text is that part of the tag.
PartAt(t, b, l, i, j, x, y) ==
    /\ Holds(t, b, l)
    /\ i \in Nat /\ j \in Nat /\ 1 <= i /\ i <= j + 1 /\ j <= l
    /\ x = b + i /\ y = b + j

SamePart(t, i, j, x, y) == SubSeq(inner, x, y) = SubSeq(t, i, j)

LEMMA PartOfText ==
  ASSUME NEW t, NEW b, NEW l, NEW i, NEW j, NEW x, NEW y,
         PartAt(t, b, l, i, j, x, y)
  PROVE  SamePart(t, i, j, x, y)
<1>1. /\ Holds(t, b, l)
      /\ i \in Nat /\ j \in Nat /\ 1 <= i /\ i <= j + 1 /\ j <= l
      /\ x = b + i /\ y = b + j
  BY DEF PartAt
<1>2. /\ t \in Seq(STRING) /\ l = Len(t) /\ l \in Nat /\ b \in Nat
      /\ inner \in Seq(Symbols)
  BY <1>1 DEF Holds
<1>3. SubSeq(t, i, j) = [p \in 1..(j - i + 1) |-> t[i + p - 1]]
  BY <1>2, <1>1 DEF SubSeq
<1>4. SubSeq(inner, x, y) = [p \in 1..(y - x + 1) |-> inner[x + p - 1]]
  BY <1>2, <1>1 DEF SubSeq
<1>5. y - x + 1 = j - i + 1
  BY <1>2, <1>1
<1>6. ASSUME NEW p \in 1..(j - i + 1)
      PROVE  inner[x + p - 1] = t[i + p - 1]
  <2>1. PICK k : k = i + p - 1
    OBVIOUS
  <2>2. k \in Nat /\ 1 <= k /\ k <= l /\ x + p - 1 = b + k
    BY <2>1, <1>2, <1>1
  <2> QED
    BY <2>1, <2>2, <1>1, PlaceOfText
<1>7. [p \in 1..(y - x + 1) |-> inner[x + p - 1]] =
          [p \in 1..(j - i + 1) |-> t[i + p - 1]]
  BY <1>5, <1>6
<1> QED
  BY <1>3, <1>4, <1>7 DEF SamePart

\* White space of the text is passed over.
LEMMA SkipsSpaces ==
  ASSUME NEW t, NEW b, NEW l, Holds(t, b, l),
         NEW i \in Nat, NEW j \in Nat, 1 <= i, i <= j, j <= l,
         SpacesIn(t, i, j), t[j] # "sp"
  PROVE  SkipWs(b + i) = b + j
<1>1. /\ b + i \in Nat /\ b + j \in Nat /\ b + j < InnerEnd
      /\ b + i <= b + j /\ inner[b + j] = t[j]
      /\ InnerEnd \in Nat /\ b \in Nat /\ l \in Nat
  BY PlaceOfText DEF Holds
<1>2. ASSUME NEW k \in (b + i)..((b + j) - 1)
      PROVE  inner[k] \in {"sp"}
  <2>1. PICK m : m = k - b
    OBVIOUS
  <2>2. m \in Nat /\ m \in i..(j - 1) /\ 1 <= m /\ m <= l /\ k = b + m
    BY <2>1, <1>1
  <2>3. t[m] = "sp"
    BY <2>2 DEF SpacesIn
  <2> QED
    BY <2>2, <2>3, PlaceOfText
<1>3. b + j \in (b + i)..InnerEnd /\ inner[b + j] \notin {"sp"}
  BY <1>1
<1>4. PastAll(b + i, {"sp"}) = b + j
  BY <1>1, <1>2, <1>3, PastAllIs
<1> QED
  BY <1>4 DEF SkipWs

\* A name of the text is read to its end.
LEMMA PassesName ==
  ASSUME NEW t, NEW b, NEW l, Holds(t, b, l),
         NEW i \in Nat, NEW j \in Nat, 1 <= i, i <= j, j <= l + 1,
         NamesIn(t, i, j), j <= l => t[j] \notin NameSymbols
  PROVE  PastAll(b + i, NameSymbols) = b + j
<1>1. /\ b \in Nat /\ l \in Nat /\ InnerEnd \in Nat /\ b + l + 1 < InnerEnd
      /\ inner[b + l + 1] \in {"sp", ">"}
  BY DEF Holds
<1>2. ASSUME NEW k \in (b + i)..((b + j) - 1)
      PROVE  inner[k] \in NameSymbols
  <2>1. PICK m : m = k - b
    OBVIOUS
  <2>2. m \in Nat /\ m \in i..(j - 1) /\ 1 <= m /\ m <= l /\ k = b + m
    BY <2>1, <1>1
  <2>3. t[m] \in NameSymbols
    BY <2>2 DEF NamesIn
  <2> QED
    BY <2>2, <2>3, PlaceOfText
<1>3. b + j \in (b + i)..InnerEnd /\ b + i \in Nat
  BY <1>1
<1>4. inner[b + j] \notin NameSymbols
  <2>1. CASE j <= l
    BY <2>1, PlaceOfText
  <2>2. CASE j = l + 1
    BY <2>2, <1>1 DEF NameSymbols
  <2> QED
    BY <2>1, <2>2, <1>1
<1> QED
  BY <1>1, <1>2, <1>3, <1>4, PastAllIs

\* A value is read to its end, which is the end of the text.
ValueAt(a, b, l, v) ==
    /\ Is(Equals, "=") /\ HasValue
    /\ ValueStop = b + l + 1
    /\ Value = ValueOf(a.text, v)

LEMMA ValueRead ==
  ASSUME NEW a, NEW b, NEW l, Holds(a.text, b, l),
         NEW s \in Nat, NEW e \in Nat, NEW q \in Nat, NEW v \in Nat,
         Valued(a, s, e, q, v), Equals = b + q
  PROVE  ValueAt(a, b, l, v)
<1> DEFINE t == a.text
<1>1. /\ b \in Nat /\ l \in Nat /\ InnerEnd \in Nat /\ b + l + 1 < InnerEnd
      /\ inner[b + l + 1] \in {"sp", ">"} /\ l = Len(t)
  BY DEF Holds
<1>2. /\ 1 < s /\ s <= e /\ e <= q /\ q < v /\ v <= l
      /\ t[q] = "=" /\ SpacesIn(t, q + 1, v)
      /\ IF t[v] = "q"
         THEN v < l /\ t[l] = "q" /\ \A k \in (v + 1)..(l - 1) : t[k] # "q"
         ELSE \A k \in v..l : t[k] \notin {"sp", ">", "/"}
  BY <1>1 DEF Valued
<1> HIDE DEF t
<1>3. /\ Holds(t, b, l)
      /\ \A i \in Nat : 1 <= i /\ i <= l =>
             b + i \in Nat /\ b + i < InnerEnd /\ inner[b + i] = t[i]
  <2>1. Holds(t, b, l)
    BY DEF t
  <2> QED
    BY <2>1, PlaceOfText
<1>4. Is(Equals, "=") /\ Equals + 1 = b + (q + 1)
  <2>1. b + q < InnerEnd /\ inner[b + q] = "="
    BY <1>1, <1>2, <1>3
  <2> QED
    BY <2>1, <1>1 DEF Is
<1>5. ValueStart = b + v
  <2>1. t[v] # "sp"
    <3>1. v \in v..l
      BY <1>1, <1>2
    <3> QED
      BY <3>1, <1>2
  <2>2. SkipWs(b + (q + 1)) = b + v
    <3>1. q + 1 \in Nat /\ 1 <= q + 1 /\ q + 1 <= v
      BY <1>2
    <3> QED
      BY <3>1, <2>1, <1>2, <1>3, SkipsSpaces
  <2> QED
    BY <2>2, <1>4 DEF ValueStart
<1>6. HasValue
  <2>1. b + v < InnerEnd
    BY <1>1, <1>2
  <2> QED
    BY <2>1, <1>4, <1>5 DEF HasValue
<1>7. Quoted <=> t[v] = "q"
  <2>1. b + v < InnerEnd /\ inner[b + v] = t[v]
    BY <1>1, <1>2, <1>3
  <2> QED
    BY <2>1, <1>5 DEF Quoted, Is
<1>8. CASE t[v] = "q"
  <2>1. v < l /\ t[l] = "q" /\ \A k \in (v + 1)..(l - 1) : t[k] # "q"
    BY <1>2, <1>8
  <2>2. /\ b + v + 1 \in Nat /\ b + l \in (b + v + 1)..InnerEnd
        /\ b + l < InnerEnd /\ inner[b + l] = "q"
    BY <2>1, <1>1, <1>2, <1>3
  <2>3. ASSUME NEW k \in (b + v + 1)..((b + l) - 1)
        PROVE  inner[k] \notin {"q"}
    <3>1. PICK m : m = k - b
      OBVIOUS
    <3>2. m \in Nat /\ m \in (v + 1)..(l - 1) /\ 1 <= m /\ m <= l /\ k = b + m
      BY <3>1, <1>1
    <3>3. t[m] # "q" /\ inner[b + m] = t[m]
      BY <3>2, <2>1, <1>3
    <3> QED
      BY <3>2, <3>3
  <2>4. UpTo(b + v + 1, {"q"}) = b + l
    BY <2>2, <2>3, <1>1, UpToIs
  <2>5. ValueStop = b + l + 1
    BY <2>2, <2>4, <1>5, <1>7, <1>8 DEF ValueStop
  <2>6. Value = SubSeq(t, v + 1, l - 1)
    <3> DEFINE x == ValueStart + 1
               y == UpTo(ValueStart + 1, {"q"}) - 1
    <3>1. Value = SubSeq(inner, x, y)
      BY <1>7, <1>8 DEF Value
    <3>2. PICK i \in Nat : i = v + 1
      OBVIOUS
    <3>3. l - 1 \in Nat /\ v <= l - 1
      BY <2>1, <1>1
    <3>4. PICK j \in Nat : j = l - 1
      BY <3>3
    <3>5. x = b + i /\ y = b + j
      <4>1. b \in Nat /\ l \in Nat
        BY <1>1
      <4>2. ValueStart + 1 = b + v + 1
        BY <1>5
      <4>3. UpTo(ValueStart + 1, {"q"}) = b + l
        BY <2>4, <4>2, Zenon
      <4> QED
        BY <4>1, <4>2, <4>3, <3>2, <3>4
    <3>6. 1 <= i /\ i <= j + 1 /\ j <= l
      BY <3>2, <3>3, <3>4, <1>1
    <3>7. Holds(t, b, l)
      BY <1>3
    <3> HIDE DEF x, y
    <3>8. PartAt(t, b, l, i, j, x, y)
      BY <3>5, <3>6, <3>7 DEF PartAt
    <3>9. SamePart(t, i, j, x, y)
      BY <3>8, PartOfText, Zenon
    <3> QED
      BY <3>1, <3>2, <3>4, <3>9 DEF SamePart
  <2> QED
    BY <2>5, <2>6, <1>1, <1>4, <1>6, <1>8 DEF ValueOf, ValueAt, t
<1>9. CASE t[v] # "q"
  <2>1. \A k \in v..l : t[k] \notin {"sp", ">", "/"}
    BY <1>2, <1>9
  <2>2. /\ b + v \in Nat /\ b + l + 1 \in (b + v)..InnerEnd
        /\ inner[b + l + 1] \in {"sp", ">", "/"}
    BY <1>1, <1>2
  <2>3. ASSUME NEW k \in (b + v)..((b + l + 1) - 1)
        PROVE  inner[k] \notin {"sp", ">", "/"}
    <3>1. PICK m : m = k - b
      OBVIOUS
    <3>2. m \in Nat /\ m \in v..l /\ 1 <= m /\ m <= l /\ k = b + m
      BY <3>1, <1>1, <1>2
    <3>3. t[m] \notin {"sp", ">", "/"} /\ inner[b + m] = t[m]
      BY <3>2, <2>1, <1>3
    <3> QED
      BY <3>2, <3>3
  <2>4. UpTo(b + v, {"sp", ">", "/"}) = b + l + 1
    BY <2>2, <2>3, <1>1, UpToIs
  <2>5. ValueStop = b + l + 1
    BY <2>4, <1>5, <1>7, <1>9 DEF ValueStop
  <2>6. Value = SubSeq(t, v, l)
    <3> DEFINE x == ValueStart
               y == ValueStop - 1
    <3>1. Value = SubSeq(inner, x, y)
      BY <1>7, <1>9 DEF Value
    <3>2. x = b + v /\ y = b + l
      BY <2>5, <1>1, <1>5
    <3>3. 1 <= v /\ v <= l + 1 /\ l <= l /\ l \in Nat /\ Holds(t, b, l)
      BY <1>1, <1>2, <1>3
    <3> HIDE DEF x, y
    <3>4. PartAt(t, b, l, v, l, x, y)
      BY <3>2, <3>3 DEF PartAt
    <3>5. SamePart(t, v, l, x, y)
      BY <3>4, PartOfText, Zenon
    <3> QED
      BY <3>1, <3>5 DEF SamePart
  <2> QED
    BY <2>5, <2>6, <1>1, <1>4, <1>6, <1>9 DEF ValueOf, ValueAt, t
<1> QED
  BY <1>8, <1>9

\* A round that begins in front of a name, or of the equals sign, reads it.
InFront(b, s) == \E i \in Nat : 1 <= i /\ i <= s /\ at = b + i

LEMMA NameBegins ==
  ASSUME NEW t, NEW b, NEW l, Holds(t, b, l),
         NEW s \in Nat, 1 <= s, s <= l, SpacesIn(t, 1, s),
         t[s] \in NameSymbols \cup {"="}, InFront(b, s)
  PROVE  NameStart = b + s /\ ~AtEnd
<1>1. PICK i \in Nat : 1 <= i /\ i <= s /\ at = b + i
  BY DEF InFront
<1>2. SkipWs(b + i) = b + s
  <2>1. t[s] # "sp"
    BY DEF NameSymbols
  <2>2. SpacesIn(t, i, s)
    BY <1>1 DEF SpacesIn
  <2> QED
    BY <1>1, <2>1, <2>2, SkipsSpaces
<1>3. NameStart = b + s
  BY <1>2, <1>1 DEF NameStart
<1>4. b + s \in Nat /\ b + s < InnerEnd /\ inner[b + s] = t[s]
  <2>1. 1 <= s
    OBVIOUS
  <2> QED
    BY <2>1, PlaceOfText
<1>5. InnerEnd \in Nat
  BY DEF Holds
<1>6. ~AtEnd
  <2>1. t[s] # ">" /\ t[s] # "/"
    BY DEF NameSymbols
  <2>2. ~ (b + s >= InnerEnd)
    BY <1>4, <1>5
  <2> QED
    BY <1>3, <1>4, <2>1, <2>2 DEF AtEnd, Is
<1> QED
  BY <1>3, <1>6

NameAt(a, b, s, e, q) ==
    /\ NameStart = b + s /\ ~AtEnd
    /\ Equals = b + q
    /\ Name = SubSeq(a.text, s, e - 1)

LEMMA NameRead ==
  ASSUME NEW a, NEW b, NEW l, Holds(a.text, b, l),
         NEW s \in Nat, NEW e \in Nat, NEW q \in Nat, NEW v \in Nat,
         Valued(a, s, e, q, v), InFront(b, s)
  PROVE  NameAt(a, b, s, e, q)
<1> DEFINE t == a.text
<1>1. l = Len(t) /\ b \in Nat /\ l \in Nat
  BY DEF Holds
<1>2. /\ 1 < s /\ s <= e /\ e <= q /\ q < v /\ v <= l
      /\ s = e => e = q
      /\ SpacesIn(t, 1, s) /\ NamesIn(t, s, e) /\ SpacesIn(t, e, q)
      /\ t[q] = "="
  BY <1>1 DEF Valued
<1> HIDE DEF t
<1>3. Holds(t, b, l)
  BY DEF t
<1>4. s <= l /\ e <= l /\ q <= l /\ 1 <= s /\ 1 <= e
  BY <1>1, <1>2
<1>5. NameStart = b + s /\ ~AtEnd
  <2>1. t[s] \in NameSymbols \cup {"="}
    <3>1. CASE s = e
      BY <3>1, <1>2
    <3>2. CASE s # e
      <4>1. s \in s..(e - 1)
        BY <3>2, <1>2
      <4> QED
        BY <4>1, <1>2 DEF NamesIn
    <3> QED
      BY <3>1, <3>2
  <2> QED
    BY <2>1, <1>2, <1>3, <1>4, NameBegins
<1>6. NameStop = b + e
  <2>1. t[e] \notin NameSymbols
    <3>1. CASE e = q
      BY <3>1, <1>2 DEF NameSymbols
    <3>2. CASE e # q
      <4>1. e \in e..(q - 1)
        BY <3>2, <1>2
      <4>2. t[e] = "sp"
        BY <4>1, <1>2 DEF SpacesIn
      <4> QED
        BY <4>2 DEF NameSymbols
    <3> QED
      BY <3>1, <3>2
  <2>2. e <= l + 1
    BY <1>1, <1>4
  <2>3. PastAll(b + s, NameSymbols) = b + e
    BY <2>1, <2>2, <1>2, <1>3, <1>4, PassesName
  <2> QED
    BY <2>3, <1>5 DEF NameStop
<1>7. Equals = b + q
  <2>1. SkipWs(b + e) = b + q
    <3>1. t[q] # "sp"
      BY <1>2
    <3> QED
      BY <3>1, <1>2, <1>3, <1>4, SkipsSpaces
  <2> QED
    BY <2>1, <1>6 DEF Equals
<1>8. Name = SubSeq(t, s, e - 1)
  <2> DEFINE x == NameStart
             y == NameStop - 1
  <2>1. Name = SubSeq(inner, x, y)
    BY DEF Name
  <2>2. PICK j \in Nat : j = e - 1
    BY <1>4
  <2>3. x = b + s /\ y = b + j
    BY <2>2, <1>1, <1>5, <1>6
  <2>4. s <= j + 1 /\ j <= l
    BY <2>2, <1>1, <1>2, <1>4
  <2> HIDE DEF x, y
  <2>5. PartAt(t, b, l, s, j, x, y)
    BY <2>3, <2>4, <1>3, <1>4 DEF PartAt
  <2>6. SamePart(t, s, j, x, y)
    BY <2>5, PartOfText, Zenon
  <2> QED
    BY <2>1, <2>2, <2>6 DEF SamePart
<1> QED
  BY <1>5, <1>7, <1>8 DEF NameAt, t

\* One without a value is read to its end, and on to what follows it.
LEMMA BareRead ==
  ASSUME NEW a, NEW b, NEW l, Holds(a.text, b, l),
         NEW s \in Nat, Bare(a, s), InFront(b, s)
  PROVE  /\ NameStart = b + s /\ ~AtEnd
         /\ Equals = SkipWs(b + l + 1)
         /\ Name # <<"href">>
<1> DEFINE t == a.text
<1>1. l = Len(t) /\ b \in Nat /\ l \in Nat
  BY DEF Holds
<1>2. /\ 1 < s /\ s <= l
      /\ SpacesIn(t, 1, s) /\ NamesIn(t, s, l + 1)
      /\ SubSeq(t, s, l) # <<"href">>
  BY <1>1 DEF Bare
<1> HIDE DEF t
<1>3. Holds(t, b, l)
  BY DEF t
<1>4. NameStart = b + s /\ ~AtEnd
  <2>1. t[s] \in NameSymbols \cup {"="}
    <3>1. s \in s..((l + 1) - 1)
      BY <1>1, <1>2
    <3> QED
      BY <3>1, <1>2 DEF NamesIn
  <2>2. 1 <= s
    BY <1>2
  <2> QED
    BY <2>2, <2>1, <1>2, <1>3, NameBegins
<1>5. NameStop = b + l + 1
  <2>1. PICK j \in Nat : j = l + 1
    BY <1>1
  <2>2. 1 <= s /\ s <= j /\ j <= l + 1 /\ ~ (j <= l) /\ NamesIn(t, s, j)
    BY <2>1, <1>1, <1>2
  <2>3. PastAll(b + s, NameSymbols) = b + j
    BY <2>2, <1>3, PassesName
  <2>4. b + j = b + l + 1
    BY <2>1, <1>1
  <2> QED
    BY <2>3, <2>4, <1>4 DEF NameStop
<1>6. Equals = SkipWs(b + l + 1)
  BY <1>5, Zenon DEF Equals
<1>7. Name = SubSeq(t, s, l)
  <2> DEFINE x == NameStart
             y == NameStop - 1
  <2>1. Name = SubSeq(inner, x, y)
    BY DEF Name
  <2>2. x = b + s /\ y = b + l
    BY <1>1, <1>4, <1>5
  <2>3. 1 <= s /\ s <= l + 1 /\ l <= l
    BY <1>1, <1>2
  <2> HIDE DEF x, y
  <2>4. PartAt(t, b, l, s, l, x, y)
    BY <2>2, <2>3, <1>1, <1>3 DEF PartAt
  <2>5. SamePart(t, s, l, x, y)
    BY <2>4, PartOfText, Zenon
  <2> QED
    BY <2>1, <2>5 DEF SamePart
<1> QED
  BY <1>2, <1>4, <1>6, <1>7

-----------------------------------------------------------------------------
AllReadable == \A a \in Attributes : Readable(a)

ReadableTexts == \A a \in Attributes : a.text \in Seq(STRING) /\ Readable(a)

\* The tag, as it stays while it is scanned.
Tag(o, n) ==
    /\ ReadableTexts
    /\ attrs \in Seq(Attributes)
    /\ Standing(o, n)

\* What can be read begins with white space.
LEMMA ReadableForms ==
  ASSUME NEW a, a.text \in Seq(STRING), Readable(a)
  PROVE  /\ 1 <= Len(a.text) /\ a.text[1] = "sp"
         /\ \/ \E s \in Nat : Bare(a, s)
            \/ \E s, e, q, v \in Nat : Valued(a, s, e, q, v)
<1>1. Len(a.text) \in Nat
  OBVIOUS
<1> DEFINE P == 1..(Len(a.text) + 1)
<1>2. P \subseteq Nat
  BY <1>1
<1>3. \/ \E s \in P : Bare(a, s)
      \/ \E s, e, q, v \in P : Valued(a, s, e, q, v)
  BY DEF Readable
<1> HIDE DEF P
<1>4. \/ \E s \in Nat : Bare(a, s)
      \/ \E s, e, q, v \in Nat : Valued(a, s, e, q, v)
  BY <1>2, <1>3
<1>5. \E s \in Nat : 1 < s /\ s <= Len(a.text) /\ SpacesIn(a.text, 1, s)
  <2>1. CASE \E s \in Nat : Bare(a, s)
    <3>1. PICK s \in Nat : Bare(a, s)
      BY <2>1
    <3>2. 1 < s /\ s <= Len(a.text) /\ SpacesIn(a.text, 1, s)
      BY <3>1 DEF Bare
    <3> QED
      BY <3>2
  <2>2. CASE \E s, e, q, v \in Nat : Valued(a, s, e, q, v)
    <3>1. PICK s, e, q, v \in Nat : Valued(a, s, e, q, v)
      BY <2>2
    <3>2. /\ 1 < s /\ s <= e /\ e <= q /\ q < v /\ v <= Len(a.text)
          /\ SpacesIn(a.text, 1, s)
      BY <3>1 DEF Valued
    <3> QED
      BY <1>1, <3>2
  <2> QED
    BY <1>4, <2>1, <2>2
<1>6. 1 <= Len(a.text) /\ a.text[1] = "sp"
  <2>1. PICK s \in Nat : 1 < s /\ s <= Len(a.text) /\ SpacesIn(a.text, 1, s)
    BY <1>5
  <2>2. 1 \in 1..(s - 1)
    BY <2>1
  <2> QED
    BY <1>1, <2>1, <2>2 DEF SpacesIn
<1> QED
  BY <1>1, <1>4, <1>6

\* Each attribute stands in its tag, behind o[k - 1] symbols.
LEMMA AttributeStands ==
  ASSUME NEW o, NEW n, Tag(o, n), NEW k \in 1..n
  PROVE  /\ n \in Nat /\ k \in Nat /\ k - 1 \in 0..n /\ k \in 0..n
         /\ o[k - 1] \in Nat /\ o[k] \in Nat
         /\ attrs[k] \in Attributes /\ Readable(attrs[k])
         /\ Len(attrs[k].text) \in Nat
         /\ Holds(attrs[k].text, o[k - 1], Len(attrs[k].text))
         /\ o[k] = o[k - 1] + Len(attrs[k].text)
<1>1. /\ n = Len(attrs) /\ o \in [0..n -> Nat]
      /\ inner \in Seq(Symbols)
      /\ Len(inner) = o[n] + 1 /\ inner[o[n] + 1] = ">"
      /\ attrs \in Seq(Attributes) /\ ReadableTexts
  BY DEF Tag, Standing
<1>2. n \in Nat
  BY <1>1, LenProperties
<1>3. /\ k \in Nat /\ k - 1 \in 0..n /\ k \in 0..n /\ n \in 0..n
      /\ attrs[k] \in Attributes
  BY <1>1, <1>2
<1>4. o[k - 1] \in Nat /\ o[k] \in Nat /\ o[n] \in Nat
  BY <1>1, <1>3
<1>5. attrs[k].text \in Seq(STRING) /\ Readable(attrs[k])
  BY <1>1, <1>3 DEF ReadableTexts
<1> DEFINE t == attrs[k].text
           l == Len(attrs[k].text)
<1>6. t \in Seq(STRING) /\ l \in Nat
  BY <1>5
<1>7. Standing(o, n)
  BY DEF Tag
<1>8. /\ o[k] <= o[n] /\ o[k] = o[k - 1] + l
      /\ \A p \in 1..l : inner[o[k - 1] + p] = t[p]
  BY <1>7 DEF Standing
<1>9. inner[o[k] + 1] \in {"sp", ">"}
  <2>1. CASE k = n
    BY <2>1, <1>1
  <2>2. CASE k # n
    <3>1. PICK j : j = k + 1
      OBVIOUS
    <3>2. j \in 1..n /\ j - 1 = k
      BY <2>2, <3>1, <1>2
    <3>3. attrs[j] \in Attributes
      BY <3>2, <1>1, <1>2
    <3>4. 1 <= Len(attrs[j].text) /\ attrs[j].text[1] = "sp" /\ Len(attrs[j].text) \in Nat
      <4>1. attrs[j].text \in Seq(STRING) /\ Readable(attrs[j])
        BY <3>3, <1>1 DEF ReadableTexts
      <4> QED
        BY <4>1, ReadableForms
    <3>5. inner[o[j - 1] + 1] = attrs[j].text[1]
      <4>1. 1 \in 1..Len(attrs[j].text)
        BY <3>4
      <4> QED
        BY <4>1, <3>2, <1>7 DEF Standing
    <3> QED
      BY <3>2, <3>4, <3>5
  <2> QED
    BY <2>1, <2>2
<1>10. InnerEnd \in Nat /\ InnerEnd = o[n] + 2
  <2>1. Len(inner) = o[n] + 1 /\ o[n] \in Nat
    BY <1>1, <1>4
  <2> QED
    BY <2>1 DEF InnerEnd
<1>11. o[k - 1] + l + 1 < InnerEnd /\ o[k - 1] + l + 1 = o[k] + 1
  <2> HIDE DEF l
  <2> QED
    BY <1>4, <1>6, <1>8, <1>10
<1>12. l = Len(t)
  OBVIOUS
<1>13. Holds(t, o[k - 1], l)
  <2> HIDE DEF t, l
  <2> QED
    BY <1>1, <1>4, <1>6, <1>8, <1>9, <1>10, <1>11, <1>12 DEF Holds
<1> QED
  BY <1>2, <1>3, <1>4, <1>5, <1>6, <1>8, <1>13

\* The end of the tag is where its attributes end.
LEMMA TagEnds ==
  ASSUME NEW o, NEW n, Tag(o, n)
  PROVE  /\ n \in Nat /\ o[n] \in Nat
         /\ Len(inner) = o[n] + 1 /\ InnerEnd = o[n] + 2
         /\ inner[o[n] + 1] = ">"
         /\ SkipWs(o[n] + 1) = o[n] + 1
<1>1. /\ n = Len(attrs) /\ o \in [0..n -> Nat]
      /\ Len(inner) = o[n] + 1 /\ inner[o[n] + 1] = ">"
      /\ attrs \in Seq(Attributes)
  BY DEF Tag, Standing
<1>2. n \in Nat
  BY <1>1, LenProperties
<1>3. o[n] \in Nat
  BY <1>1, <1>2
<1>4. InnerEnd = o[n] + 2 /\ InnerEnd \in Nat
  BY <1>1, <1>3 DEF InnerEnd
<1>5. PICK j \in Nat : j = o[n] + 1
  BY <1>3
<1>6. j \in j..InnerEnd /\ inner[j] \notin {"sp"} /\ j..(j - 1) = {}
  BY <1>1, <1>3, <1>4, <1>5
<1>7. PastAll(j, {"sp"}) = j
  BY <1>4, <1>5, <1>6, PastAllIs
<1>8. SkipWs(j) = j
  BY <1>7 DEF SkipWs
<1> QED
  BY <1>1, <1>2, <1>3, <1>4, <1>5, <1>8

-----------------------------------------------------------------------------
\* The scan stands behind attribute k, if not for white space.
Reached(o, k, i) ==
    /\ i \in (o[k] + 1)..Len(inner)
    /\ \A p \in (o[k] + 1)..(i - 1) : inner[p] = "sp"

\* What a round does: it takes the value of attribute k,
TakesOne(o, k) ==
    /\ HasValue /\ ValueStop = o[k] + 1
    /\ IF Name = <<"href">> /\ HrefIsSafe(Value)
       THEN attrs[k].href = Value
       ELSE ~HrefIsSafe(attrs[k].href)

\* or, if that one has none, of the nameless one behind it,
TakesTwo(o, k, n) ==
    /\ HasValue /\ k + 1 \in 1..n
    /\ ValueStop = o[k + 1] + 1
    /\ Name # <<"href">>
    /\ ~HrefIsSafe(attrs[k].href) /\ ~HrefIsSafe(attrs[k + 1].href)

\* or passes over attribute k.
PassesOne(o, k) ==
    /\ ~Is(Equals, "=")
    /\ Reached(o, k, Equals)
    /\ ~HrefIsSafe(attrs[k].href)

\* A scan that is in the white space in front of a text is that far in it.
LEMMA StillInFront ==
  ASSUME NEW t, NEW b, NEW l, Holds(t, b, l), NEW s \in Nat, 1 < s, s <= l,
         t[s] # "sp", at \in Nat, b + 1 <= at,
         \A p \in (b + 1)..(at - 1) : inner[p] = "sp"
  PROVE  InFront(b, s)
<1>1. b \in Nat
  BY DEF Holds
<1>2. inner[b + s] = t[s] /\ b + s \in Nat
  <2>1. 1 <= s
    OBVIOUS
  <2> QED
    BY <2>1, PlaceOfText
<1>3. ~ (b + s < at)
  <2>1. b + s < at => b + s \in (b + 1)..(at - 1)
    BY <1>1
  <2> QED
    BY <2>1, <1>2
<1>4. PICK i : i = at - b
  OBVIOUS
<1> QED
  BY <1>1, <1>3, <1>4 DEF InFront

\* What stands behind attribute k is the next one or the end.
LEMMA NextStands ==
  ASSUME NEW o, NEW n, Tag(o, n), NEW k \in 1..n
  PROVE  \/ Reached(o, k, SkipWs(o[k] + 1)) /\ ~Is(SkipWs(o[k] + 1), "=")
         \/ /\ k + 1 \in 1..n /\ Holds(attrs[k + 1].text, o[k], Len(attrs[k + 1].text))
            /\ \E s, v \in Nat :
                   Valued(attrs[k + 1], s, s, s, v) /\ SkipWs(o[k] + 1) = o[k] + s
<1>1. n \in Nat /\ k \in Nat /\ o[k] \in Nat
  BY AttributeStands
<1>2. CASE k = n
  <2>1. /\ Len(inner) = o[n] + 1 /\ InnerEnd = o[n] + 2
        /\ inner[o[n] + 1] = ">" /\ SkipWs(o[n] + 1) = o[n] + 1
    BY TagEnds
  <2>2. PICK j \in Nat : j = o[n] + 1
    BY <1>1, <1>2
  <2>3. Reached(o, n, j)
    BY <1>1, <1>2, <2>1, <2>2 DEF Reached
  <2>4. ~Is(j, "=")
    BY <2>1, <2>2 DEF Is
  <2> QED
    BY <1>2, <2>1, <2>2, <2>3, <2>4
<1>3. CASE k # n
  <2>1. PICK m : m = k + 1
    OBVIOUS
  <2>2. m \in 1..n /\ m - 1 = k
    BY <1>1, <1>3, <2>1
  <2> DEFINE t == attrs[m].text
             l == Len(attrs[m].text)
             b == o[k]
  <2>3. /\ attrs[m] \in Attributes /\ Readable(attrs[m])
        /\ l \in Nat /\ Holds(attrs[m].text, o[m - 1], l)
    BY <2>2, AttributeStands
  <2>4. /\ Holds(t, b, l) /\ b \in Nat /\ l = Len(t)
    BY <1>1, <2>2, <2>3
  <2>5. \/ \E s \in Nat : Bare(attrs[m], s)
        \/ \E s, e, q, v \in Nat : Valued(attrs[m], s, e, q, v)
    <3>1. attrs[m].text \in Seq(STRING)
      BY <2>3 DEF Tag, ReadableTexts
    <3> QED
      BY <2>3, <3>1, ReadableForms
  <2>6. ASSUME NEW s \in Nat, 1 < s, s <= l, SpacesIn(t, 1, s), t[s] \in NameSymbols
        PROVE  Reached(o, k, SkipWs(o[k] + 1)) /\ ~Is(SkipWs(o[k] + 1), "=")
    <3> HIDE DEF t, l
    <3>1. t[s] # "sp" /\ t[s] # "="
      BY <2>6 DEF NameSymbols
    <3>2. SkipWs(b + 1) = b + s
      <4>1. 1 \in Nat /\ 1 <= 1 /\ 1 <= s
        BY <2>6
      <4> QED
        BY <4>1, <2>4, <2>6, <3>1, SkipsSpaces
    <3>3. /\ b + s \in Nat /\ b + s < InnerEnd /\ inner[b + s] = t[s]
      <4>1. 1 <= s
        BY <2>6
      <4> QED
        BY <4>1, <2>4, <2>6, PlaceOfText
    <3>4. ASSUME NEW p \in (b + 1)..((b + s) - 1)
          PROVE  inner[p] = "sp"
      <4>1. PICK i : i = p - b
        OBVIOUS
      <4>2. i \in Nat /\ i \in 1..(s - 1) /\ 1 <= i /\ i <= l /\ p = b + i
        BY <4>1, <2>3, <2>4, <2>6
      <4>3. t[i] = "sp"
        BY <4>2, <2>6 DEF SpacesIn
      <4> QED
        BY <4>2, <4>3, <2>4, PlaceOfText
    <3>5. Len(inner) \in Nat /\ b + s \in (b + 1)..Len(inner)
      <4>1. InnerEnd = Len(inner) + 1
        BY DEF InnerEnd
      <4>2. Len(inner) \in Nat
        BY <2>4, LenProperties DEF Holds
      <4> QED
        BY <4>1, <4>2, <2>4, <2>6, <3>3
    <3>6. Reached(o, k, b + s)
      BY <3>4, <3>5 DEF Reached
    <3>7. ~Is(b + s, "=")
      BY <3>1, <3>3 DEF Is
    <3> QED
      BY <3>2, <3>6, <3>7
  <2>7. CASE \E s \in Nat : Bare(attrs[m], s)
    <3>1. PICK s \in Nat : Bare(attrs[m], s)
      BY <2>7
    <3>2. 1 < s /\ s <= l /\ SpacesIn(t, 1, s) /\ NamesIn(t, s, l + 1)
      BY <3>1 DEF Bare
    <3>3. t[s] \in NameSymbols
      <4> HIDE DEF t, l
      <4>1. s \in s..((l + 1) - 1)
        BY <2>3, <3>2
      <4> QED
        BY <4>1, <3>2 DEF NamesIn
    <3> QED
      BY <2>6, <3>2, <3>3
  <2>8. CASE \E s, e, q, v \in Nat : Valued(attrs[m], s, e, q, v)
    <3>1. PICK s, e, q, v \in Nat : Valued(attrs[m], s, e, q, v)
      BY <2>8
    <3>2. /\ 1 < s /\ s <= e /\ e <= q /\ q < v /\ v <= l
          /\ s = e => e = q
          /\ SpacesIn(t, 1, s) /\ NamesIn(t, s, e) /\ t[q] = "="
      BY <3>1 DEF Valued
    <3> HIDE DEF t, l
    <3>3. s <= l
      BY <2>3, <3>2
    <3>4. CASE s # e
      <4>1. s \in s..(e - 1)
        BY <3>2, <3>4
      <4>2. t[s] \in NameSymbols
        BY <4>1, <3>2 DEF NamesIn
      <4> QED
        BY <2>6, <3>2, <3>3, <4>2
    <3>5. CASE s = e
      <4>1. Valued(attrs[m], s, s, s, v) /\ t[s] # "sp"
        BY <3>1, <3>2, <3>5
      <4>2. SkipWs(b + 1) = b + s
        <5>1. 1 \in Nat /\ 1 <= 1 /\ 1 <= s
          BY <3>2
        <5> QED
          BY <5>1, <2>4, <3>2, <3>3, <4>1, SkipsSpaces
      <4> QED
        BY <4>1, <4>2, <2>1, <2>2, <2>4 DEF t, l
    <3> QED
      BY <3>4, <3>5
  <2> QED
    BY <2>5, <2>7, <2>8
<1> QED
  BY <1>2, <1>3

\* One round: it does not stop in front of an attribute.
LEMMA RoundReads ==
  ASSUME NEW o, NEW n, Tag(o, n), NEW k \in 1..n, Reached(o, k - 1, at)
  PROVE  /\ ~AtEnd /\ at <= o[k]
         /\ TakesOne(o, k) \/ TakesTwo(o, k, n) \/ PassesOne(o, k)
<1> DEFINE a == attrs[k]
           t == attrs[k].text
           l == Len(attrs[k].text)
           b == o[k - 1]
<1>1. /\ n \in Nat /\ k \in Nat /\ k - 1 \in 0..n
      /\ b \in Nat /\ o[k] \in Nat /\ l \in Nat
      /\ a \in Attributes /\ Readable(a)
      /\ Holds(t, b, l) /\ o[k] = b + l
  BY AttributeStands
<1>2. /\ a.text \in Seq(STRING) /\ l = Len(a.text)
      /\ \/ \E s \in Nat : Bare(a, s)
         \/ \E s, e, q, v \in Nat : Valued(a, s, e, q, v)
  <2>1. a.text \in Seq(STRING)
    BY <1>1 DEF Tag, ReadableTexts
  <2> QED
    BY <1>1, <2>1, ReadableForms
<1>3. Holds(a.text, b, l)
  BY <1>1
<1> HIDE DEF a, l
<1>4. at \in Nat /\ b + 1 <= at /\ \A p \in (b + 1)..(at - 1) : inner[p] = "sp"
  BY <1>1 DEF Reached
<1> HIDE DEF b
<1>5. CASE \E s \in Nat : Bare(a, s)
  <2>1. PICK s \in Nat : Bare(a, s)
    BY <1>5
  <2>2. /\ 1 < s /\ s <= l /\ NamesIn(a.text, s, l + 1) /\ ~HrefIsSafe(a.href)
    BY <1>2, <2>1 DEF Bare
  <2>3. a.text[s] # "sp"
    <3>1. s \in s..((l + 1) - 1)
      BY <1>1, <2>2
    <3>2. a.text[s] \in NameSymbols
      BY <3>1, <2>2 DEF NamesIn
    <3> QED
      BY <3>2 DEF NameSymbols
  <2>4. InFront(b, s)
    BY <1>3, <1>4, <2>2, <2>3, StillInFront
  <2>5. /\ ~AtEnd /\ Name # <<"href">>
        /\ Equals = SkipWs(b + l + 1)
    BY <1>3, <2>1, <2>4, BareRead
  <2>6. at <= o[k] /\ b + l + 1 = o[k] + 1
    BY <1>1, <2>2, <2>4 DEF InFront
  <2>7. Equals = SkipWs(o[k] + 1)
    BY <2>5, <2>6
  <2>8. CASE Reached(o, k, SkipWs(o[k] + 1)) /\ ~Is(SkipWs(o[k] + 1), "=")
    <3>1. PassesOne(o, k)
      BY <2>2, <2>7, <2>8 DEF PassesOne, a
    <3> QED
      BY <2>5, <2>6, <3>1
  <2>9. CASE /\ k + 1 \in 1..n /\ Holds(attrs[k + 1].text, o[k], Len(attrs[k + 1].text))
             /\ \E r, v \in Nat :
                    Valued(attrs[k + 1], r, r, r, v) /\ SkipWs(o[k] + 1) = o[k] + r
    <3>1. PICK r \in Nat, v \in Nat :
              Valued(attrs[k + 1], r, r, r, v) /\ SkipWs(o[k] + 1) = o[k] + r
      BY <2>9
    <3>2. PICK m : m = k + 1
      OBVIOUS
    <3>3. m \in 1..n /\ m - 1 = k
      BY <1>1, <2>9, <3>2
    <3> DEFINE c == attrs[m]
               h == Len(attrs[m].text)
    <3>4. /\ Valued(c, r, r, r, v) /\ Holds(c.text, o[k], h) /\ Equals = o[k] + r
      BY <2>7, <2>9, <3>1, <3>2
    <3>5. o[m] = o[k] + h
      BY <3>3, AttributeStands
    <3> HIDE DEF c, h
    <3>6. HasValue /\ ValueStop = o[k] + h + 1
      <4>1. ValueAt(c, o[k], h, v)
        BY <3>4, ValueRead
      <4> QED
        BY <4>1 DEF ValueAt
    <3>7. ~HrefIsSafe(c.href)
      <4>1. SubSeq(c.text, r, r - 1) # <<"href">>
        <5>1. c.text \in Seq(STRING)
          BY <3>4 DEF Holds
        <5>2. Len(SubSeq(c.text, r, r - 1)) = 0 /\ Len(<<"href">>) = 1
          BY <5>1
        <5> QED
          BY <5>2
      <4> QED
        BY <3>4, <4>1 DEF Valued
    <3>8. TakesTwo(o, k, n)
      BY <2>2, <2>5, <3>2, <3>3, <3>5, <3>6, <3>7 DEF TakesTwo, a, c
    <3> QED
      BY <2>5, <2>6, <3>8
  <2> QED
    BY <2>8, <2>9, NextStands
<1>6. CASE \E s, e, q, v \in Nat : Valued(a, s, e, q, v)
  <2>1. PICK s, e, q, v \in Nat : Valued(a, s, e, q, v)
    BY <1>6
  <2>2. /\ 1 < s /\ s <= e /\ e <= q /\ q < v /\ v <= l
        /\ s = e => e = q
        /\ NamesIn(a.text, s, e) /\ a.text[q] = "="
        /\ IF SubSeq(a.text, s, e - 1) = <<"href">> /\ HrefIsSafe(ValueOf(a.text, v))
           THEN a.href = ValueOf(a.text, v)
           ELSE ~HrefIsSafe(a.href)
    BY <1>2, <2>1 DEF Valued
  <2>3. s <= l
    BY <1>1, <2>2
  <2>4. a.text[s] # "sp"
    <3>1. CASE s = e
      BY <2>2, <3>1
    <3>2. CASE s # e
      <4>1. s \in s..(e - 1)
        BY <2>2, <3>2
      <4>2. a.text[s] \in NameSymbols
        BY <2>2, <4>1 DEF NamesIn
      <4> QED
        BY <4>2 DEF NameSymbols
    <3> QED
      BY <3>1, <3>2
  <2>5. InFront(b, s)
    BY <1>3, <1>4, <2>2, <2>3, <2>4, StillInFront
  <2>6. ~AtEnd /\ Equals = b + q /\ Name = SubSeq(a.text, s, e - 1)
    <3>1. NameAt(a, b, s, e, q)
      BY <1>3, <2>1, <2>5, NameRead
    <3> QED
      BY <3>1 DEF NameAt
  <2>7. HasValue /\ ValueStop = b + l + 1 /\ Value = ValueOf(a.text, v)
    <3>1. ValueAt(a, b, l, v)
      BY <1>3, <2>1, <2>6, ValueRead
    <3> QED
      BY <3>1 DEF ValueAt
  <2>8. at <= o[k] /\ ValueStop = o[k] + 1
    BY <1>1, <2>3, <2>5, <2>7 DEF InFront
  <2>9. TakesOne(o, k)
    BY <2>2, <2>6, <2>7, <2>8 DEF TakesOne, a
  <2> QED
    BY <2>6, <2>8, <2>9
<1> QED
  BY <1>2, <1>5, <1>6

\* Behind the last attribute it does.
LEMMA RoundEnds ==
  ASSUME NEW o, NEW n, Tag(o, n), Reached(o, n, at)
  PROVE  AtEnd
<1>1. /\ o[n] \in Nat /\ Len(inner) = o[n] + 1 /\ InnerEnd = o[n] + 2
      /\ inner[o[n] + 1] = ">" /\ SkipWs(o[n] + 1) = o[n] + 1
  BY TagEnds
<1>2. at = o[n] + 1
  BY <1>1 DEF Reached
<1>3. NameStart = o[n] + 1
  BY <1>1, <1>2 DEF NameStart
<1>4. Is(NameStart, ">")
  BY <1>1, <1>3 DEF Is
<1> QED
  BY <1>4 DEF AtEnd
-----------------------------------------------------------------------------
\* The first address to take among the first k attributes.
FoundOf(k) ==
    LET safe == {i \in 1..k : IsTaken(attrs[i].href)}
    IN  IF safe = {} THEN href = <<>>
        ELSE \E i \in safe : (\A j \in safe : i <= j) /\ href = attrs[i].href

\* The scan has read the first k attributes, and all when it ends.
ReadUpTo(o, n, k) ==
    /\ Tag(o, n) /\ scanned \in BOOLEAN
    /\ k \in 0..n
    /\ Reached(o, k, at) /\ FoundOf(k)
    /\ scanned => k = n

AnchorRead == \E o, n, k : ReadUpTo(o, n, k)

LEMMA FoundNone ==
  ASSUME NEW k \in Nat, FoundOf(k), ~IsTaken(attrs[k + 1].href)
  PROVE  FoundOf(k + 1)
<1>1. {i \in 1..(k + 1) : IsTaken(attrs[i].href)} =
          {i \in 1..k : IsTaken(attrs[i].href)}
  <2>1. \A i \in 1..(k + 1) : i \in 1..k \/ i = k + 1
    OBVIOUS
  <2>2. \A i \in 1..k : i \in 1..(k + 1)
    OBVIOUS
  <2> QED
    BY <2>1, <2>2
<1> QED
  BY <1>1 DEF FoundOf

LEMMA FoundBefore ==
  ASSUME NEW k \in Nat, FoundOf(k), href # <<>>
  PROVE  FoundOf(k + 1)
<1> DEFINE old == {i \in 1..k : IsTaken(attrs[i].href)}
           new == {i \in 1..(k + 1) : IsTaken(attrs[i].href)}
<1>1. PICK i \in old : (\A j \in old : i <= j) /\ href = attrs[i].href
  BY DEF FoundOf
<1>2. i \in new /\ \A j \in new : i <= j
  <2>1. i \in 1..(k + 1) /\ i \in 1..k
    OBVIOUS
  <2>2. ASSUME NEW j \in new
        PROVE  i <= j
    <3>1. CASE j = k + 1
      BY <2>1, <3>1
    <3>2. CASE j # k + 1
      <4>1. j \in old
        BY <3>2
      <4> QED
        BY <4>1, <1>1
    <3> QED
      BY <3>1, <3>2
  <2> QED
    BY <2>1, <2>2
<1>3. new # {}
  BY <1>2
<1> QED
  BY <1>1, <1>2, <1>3 DEF FoundOf

\* An address that is taken is not empty.
LEMMA TakenIsSome ==
  ASSUME NEW v, IsTaken(v)
  PROVE  v # <<>>
<1>1. HrefIsSafe(v)
  BY DEF IsTaken
<1>2. PICK i \in DOMAIN v : TRUE
  BY <1>1, Zenon DEF HrefIsSafe
<1> QED
  BY <1>2

LEMMA FoundFirst ==
  ASSUME NEW k \in Nat, FoundOf(k), href = <<>>, attrs' = attrs,
         IsTaken(attrs[k + 1].href), href' = attrs[k + 1].href
  PROVE  FoundOf(k + 1)'
<1> DEFINE old == {i \in 1..k : IsTaken(attrs[i].href)}
           new == {i \in 1..(k + 1) : IsTaken(attrs'[i].href)}
<1>1. old = {}
  <2>1. SUFFICES ASSUME old # {}
                 PROVE  FALSE
    OBVIOUS
  <2>2. PICK i \in old : href = attrs[i].href
    BY <2>1 DEF FoundOf
  <2>3. IsTaken(attrs[i].href)
    OBVIOUS
  <2> QED
    BY <2>2, <2>3, TakenIsSome
<1>2. new = {k + 1}
  <2>1. \A i \in 1..(k + 1) : i \in 1..k \/ i = k + 1
    OBVIOUS
  <2>2. k + 1 \in 1..(k + 1)
    OBVIOUS
  <2> QED
    BY <1>1, <2>1, <2>2
<1>3. href' = attrs'[k + 1].href
  OBVIOUS
<1> HIDE DEF old
<1> QED
  BY <1>2, <1>3 DEF FoundOf

\* The end of attribute k is a place a scan can be at.
LEMMA Arrives ==
  ASSUME NEW o, NEW n, Tag(o, n), NEW k \in 1..n
  PROVE  Reached(o, k, o[k] + 1)
<1>1. o[k] \in Nat
  BY AttributeStands
<1>2. Len(inner) = o[n] + 1 /\ o[n] \in Nat
  BY TagEnds
<1>3. o[k] <= o[n]
  BY DEF Tag, Standing
<1>4. o[k] + 1 \in (o[k] + 1)..Len(inner) /\ (o[k] + 1)..((o[k] + 1) - 1) = {}
  BY <1>1, <1>2, <1>3
<1> QED
  BY <1>4 DEF Reached

\* Nothing is read at first.
LEMMA AnchorStart ==
  ASSUME AnchorAssumption, AllReadable, AnchorInit
  PROVE  AnchorRead
<1>1. PICK m \in 0..MaxAttrs : attrs \in [1..m -> Attributes]
  BY DEF AnchorInit
<1>2. attrs \in Seq(Attributes)
  <2>1. m \in Nat
    BY DEF AnchorAssumption
  <2> QED
    BY <1>1, <2>1
<1>3. PICK n : n = Len(attrs)
  OBVIOUS
<1>4. inner = Joined(attrs) \o <<">">> /\ at = 1 /\ href = <<>> /\ scanned = FALSE
  BY DEF AnchorInit
<1>5. PICK o : Standing(o, n)
  BY <1>2, <1>3, <1>4, TagStands
<1>6. Tag(o, n)
  BY <1>2, <1>5 DEF Tag, ReadableTexts, AllReadable, AnchorAssumption
<1>7. /\ n \in Nat /\ o[n] \in Nat /\ Len(inner) = o[n] + 1
  BY <1>6, TagEnds
<1>8. o[0] = 0 /\ 0 \in 0..n
  BY <1>5, <1>7 DEF Standing
<1>9. Reached(o, 0, at)
  BY <1>4, <1>7, <1>8 DEF Reached
<1>10. FoundOf(0)
  <2>1. 1..0 = {}
    OBVIOUS
  <2> QED
    BY <1>4, <2>1 DEF FoundOf
<1>11. ReadUpTo(o, n, 0)
  BY <1>4, <1>6, <1>8, <1>9, <1>10 DEF ReadUpTo
<1> QED
  BY <1>11 DEF AnchorRead

\* Every round reads on in order.
LEMMA AnchorStep ==
  ASSUME AnchorRead, [AnchorNext]_anchorVars
  PROVE  AnchorRead'
<1>1. PICK o, n, k : ReadUpTo(o, n, k)
  BY DEF AnchorRead
<1>2. /\ Tag(o, n) /\ scanned \in BOOLEAN /\ k \in 0..n
      /\ Reached(o, k, at) /\ FoundOf(k) /\ (scanned => k = n)
  BY <1>1 DEF ReadUpTo
<1>3. attrs' = attrs /\ inner' = inner
  BY DEF AnchorNext, EndScan, NoValue, SkipAttr, TakeHref, anchorVars
<1>4. Tag(o, n)'
  BY <1>2, <1>3 DEF Tag, Standing
<1>5. n \in Nat /\ k \in Nat
  BY <1>2, TagEnds
<1>6. ASSUME NEW m \in 0..n, Reached(o, m, at'), FoundOf(m)',
             scanned' \in BOOLEAN, scanned' => m = n
      PROVE  AnchorRead'
  <2>1. Reached(o, m, at)'
    BY <1>3, <1>6 DEF Reached
  <2>2. ReadUpTo(o, n, m)'
    BY <1>4, <1>6, <2>1 DEF ReadUpTo
  <2> QED
    BY <2>2 DEF AnchorRead
<1>7. href' = href => \A m \in Nat : FoundOf(m) => FoundOf(m)'
  BY <1>3 DEF FoundOf
<1>8. ASSUME k # n
      PROVE  /\ ~AtEnd
             /\ \E m : /\ m = k + 1 /\ m \in 1..n /\ m \in 0..n /\ m - 1 = k
                       /\ TakesOne(o, m) \/ TakesTwo(o, m, n) \/ PassesOne(o, m)
  <2>1. PICK m : m = k + 1
    OBVIOUS
  <2>2. m \in 1..n /\ m \in 0..n /\ m - 1 = k
    BY <1>2, <1>5, <1>8, <2>1
  <2>3. Reached(o, m - 1, at)
    BY <1>2, <2>2
  <2>4. /\ ~AtEnd
        /\ TakesOne(o, m) \/ TakesTwo(o, m, n) \/ PassesOne(o, m)
    BY <1>2, <2>2, <2>3, RoundReads
  <2> QED
    BY <2>1, <2>2, <2>4
<1>9. k = n => AtEnd
  BY <1>2, RoundEnds
<1>10. CASE EndScan
  <2>1. k = n
    <3>1. SUFFICES ASSUME k # n
                   PROVE  FALSE
      OBVIOUS
    <3>2. ~AtEnd /\ \E m : TakesOne(o, m) \/ TakesTwo(o, m, n) \/ PassesOne(o, m)
      BY <1>8, <3>1
    <3>3. Is(Equals, "=") /\ ~HasValue
      BY <1>10, <3>2 DEF EndScan
    <3> QED
      BY <3>2, <3>3 DEF TakesOne, TakesTwo, PassesOne
  <2>2. href' = href /\ at' = at /\ scanned' = TRUE
    BY <1>10 DEF EndScan
  <2>3. Reached(o, k, at') /\ FoundOf(k)'
    BY <1>2, <1>5, <1>7, <2>2
  <2> QED
    BY <1>2, <1>6, <2>1, <2>2, <2>3
<1>11. CASE NoValue
  <2>1. ~scanned /\ ~AtEnd /\ ~Is(Equals, "=") /\ at' = Equals /\ href' = href /\ scanned' = scanned
    BY <1>11 DEF NoValue
  <2>2. PICK m : /\ m = k + 1 /\ m \in 0..n
                 /\ TakesOne(o, m) \/ TakesTwo(o, m, n) \/ PassesOne(o, m)
    BY <1>8, <1>9, <2>1
  <2>3. PassesOne(o, m)
    BY <2>1, <2>2 DEF TakesOne, TakesTwo, HasValue
  <2>4. Reached(o, m, at')
    BY <2>1, <2>3 DEF PassesOne
  <2>5. FoundOf(m)
    BY <1>2, <1>5, <2>2, <2>3, FoundNone DEF PassesOne, IsTaken
  <2>6. FoundOf(m)'
    BY <1>5, <1>7, <2>1, <2>2, <2>5
  <2> QED
    BY <1>2, <1>6, <2>1, <2>2, <2>4, <2>6
<1>12. ASSUME ~scanned, scanned' = scanned, HasValue, ~AtEnd, at' = ValueStop,
              NEW m, m = k + 1, m \in 1..n, m \in 0..n,
              TakesTwo(o, m, n), href' = href
       PROVE  AnchorRead'
  <2>1. PICK j : j = m + 1
    OBVIOUS
  <2>2. /\ j \in 1..n /\ j \in 0..n /\ m \in Nat
        /\ ValueStop = o[j] + 1
        /\ ~IsTaken(attrs[m].href) /\ ~IsTaken(attrs[j].href)
    BY <1>5, <1>12, <2>1 DEF TakesTwo, IsTaken
  <2>3. Reached(o, j, at')
    BY <1>2, <1>12, <2>2, Arrives
  <2>4. FoundOf(m)
    BY <1>2, <1>5, <1>12, <2>2, FoundNone
  <2>5. FoundOf(j)
    BY <2>1, <2>2, <2>4, FoundNone
  <2>6. FoundOf(j)'
    BY <1>5, <1>7, <1>12, <2>2, <2>5
  <2> QED
    BY <1>2, <1>6, <1>12, <2>2, <2>3, <2>6
<1>13. ASSUME ~scanned, scanned' = scanned, HasValue, ~AtEnd, at' = ValueStop,
              NEW m, m = k + 1, m \in 1..n, m \in 0..n,
              TakesOne(o, m), FoundOf(m)'
       PROVE  AnchorRead'
  <2>1. Reached(o, m, at')
    BY <1>2, <1>13, Arrives DEF TakesOne
  <2> QED
    BY <1>2, <1>6, <1>13, <2>1
<1>14. CASE SkipAttr
  <2>1. /\ ~scanned /\ ~AtEnd /\ HasValue /\ at' = ValueStop
        /\ href' = href /\ scanned' = scanned
        /\ Name # <<"href">> \/ href # <<>>
    <3>1. AttrNameIsDanger => Name # <<"href">>
      BY DEF AttrNameIsDanger
    <3> QED
      BY <1>14, <3>1 DEF SkipAttr, TakesHref
  <2>2. PICK m : /\ m = k + 1 /\ m \in 1..n /\ m \in 0..n
                 /\ TakesOne(o, m) \/ TakesTwo(o, m, n) \/ PassesOne(o, m)
    BY <1>8, <1>9, <2>1
  <2>3. ~PassesOne(o, m)
    BY <2>1 DEF PassesOne, HasValue
  <2>4. CASE TakesTwo(o, m, n)
    BY <1>12, <2>1, <2>2, <2>4
  <2>5. CASE TakesOne(o, m)
    <3>1. FoundOf(m)
      <4>1. CASE href # <<>>
        BY <1>2, <1>5, <2>2, <4>1, FoundBefore
      <4>2. CASE Name # <<"href">>
        <5>1. ~IsTaken(attrs[m].href)
          BY <2>5, <4>2 DEF TakesOne, IsTaken
        <5> QED
          BY <1>2, <1>5, <2>2, <5>1, FoundNone
      <4> QED
        BY <2>1, <4>1, <4>2
    <3>2. FoundOf(m)'
      BY <1>5, <1>7, <2>1, <2>2, <3>1
    <3> QED
      BY <1>13, <2>1, <2>2, <2>5, <3>2
  <2> QED
    BY <2>2, <2>3, <2>4, <2>5
<1>15. CASE TakeHref
  <2>1. /\ ~scanned /\ ~AtEnd /\ HasValue /\ at' = ValueStop
        /\ href' = (IF IsTaken(Value) THEN Value ELSE href)
        /\ scanned' = scanned
        /\ Name = <<"href">> /\ href = <<>>
    BY <1>15 DEF TakeHref, TakesHref
  <2>2. PICK m : /\ m = k + 1 /\ m \in 1..n /\ m \in 0..n
                 /\ TakesOne(o, m) \/ TakesTwo(o, m, n) \/ PassesOne(o, m)
    BY <1>8, <1>9, <2>1
  <2>3. ~PassesOne(o, m) /\ ~TakesTwo(o, m, n)
    BY <2>1 DEF PassesOne, TakesTwo, HasValue
  <2>4. TakesOne(o, m)
    BY <2>2, <2>3
  <2>5. FoundOf(m)'
    <3>1. CASE IsTaken(Value)
      <4>1. attrs[m].href = Value /\ href' = Value
        BY <2>1, <2>4, <3>1 DEF TakesOne, IsTaken
      <4>2. IsTaken(attrs[k + 1].href) /\ href' = attrs[k + 1].href
        BY <2>2, <3>1, <4>1
      <4> QED
        BY <1>2, <1>3, <1>5, <2>1, <2>2, <4>2, FoundFirst
    <3>2. CASE ~IsTaken(Value)
      <4>1. ~IsTaken(attrs[m].href) /\ href' = href
        BY <2>1, <2>4, <3>2 DEF TakesOne, IsTaken
      <4>2. FoundOf(m)
        BY <1>2, <1>5, <2>2, <4>1, FoundNone
      <4> QED
        BY <1>5, <1>7, <2>2, <4>1, <4>2
    <3> QED
      BY <3>1, <3>2
  <2> QED
    BY <1>13, <2>1, <2>2, <2>4, <2>5
<1>16. CASE UNCHANGED anchorVars
  <2>1. at' = at /\ href' = href /\ scanned' = scanned
    BY <1>16 DEF anchorVars
  <2>2. FoundOf(k)'
    BY <1>2, <1>5, <1>7, <2>1
  <2>3. Reached(o, k, at')
    BY <1>2, <2>1
  <2> QED
    BY <1>2, <1>6, <2>1, <2>2, <2>3
<1> QED
  BY <1>10, <1>11, <1>14, <1>15, <1>16 DEF AnchorNext

\* The scan reads the attributes in order, one round for each, or one for two
\* (update_html.c:464-541).
THEOREM AnchorInvariant ==
  ASSUME AllReadable
  PROVE  AnchorSpec => []AnchorRead
<1>1. AnchorInit => AnchorRead
  BY AnchorAssumption, AnchorStart
<1>2. AnchorRead /\ [AnchorNext]_anchorVars => AnchorRead'
  BY AnchorStep
<1> QED
  BY <1>1, <1>2, PTL DEF AnchorSpec

\* When the scan ends, it has the first address of all the attributes that is
\* safe and fits the buffer, whatever the size of that is; a longer one is
\* passed over (update_html.c:503-536).
THEOREM FirstSafeIsFound ==
  ASSUME AllReadable
  PROVE  AnchorSpec => []FirstSafe
<1>1. AnchorRead => FirstSafe
  <2> SUFFICES ASSUME AnchorRead, scanned
               PROVE  FirstSafe
    BY DEF FirstSafe
  <2>1. PICK o, n, k : ReadUpTo(o, n, k)
    BY DEF AnchorRead
  <2>2. /\ FoundOf(n) /\ n = Len(attrs) /\ attrs \in Seq(Attributes)
    BY <2>1 DEF ReadUpTo, Tag, Standing
  <2>3. DOMAIN attrs = 1..n
    BY <2>2
  <2> QED
    BY <2>2, <2>3 DEF FoundOf, FirstSafe
<1> QED
  BY <1>1, AnchorInvariant, PTL

\* No round leaves the position where it was (update_html.c:468-540).
THEOREM EveryRoundAdvances ==
  ASSUME AllReadable
  PROVE  AnchorSpec => []RoundsAdvance
<1>1. AnchorRead => RoundsAdvance
  <2> SUFFICES ASSUME AnchorRead, ~AtEnd
               PROVE  at < IF HasValue THEN ValueStop ELSE Equals
    BY DEF RoundsAdvance
  <2>1. PICK o, n, k : ReadUpTo(o, n, k)
    BY DEF AnchorRead
  <2>2. /\ Tag(o, n) /\ k \in 0..n /\ Reached(o, k, at)
    BY <2>1 DEF ReadUpTo
  <2>3. n \in Nat
    BY <2>2, TagEnds
  <2>4. k # n
    BY <2>2, RoundEnds
  <2>5. PICK m : m = k + 1
    OBVIOUS
  <2>6. m \in 1..n /\ m - 1 = k /\ Reached(o, m - 1, at)
    BY <2>2, <2>3, <2>4, <2>5
  <2>7. /\ at <= o[m]
        /\ TakesOne(o, m) \/ TakesTwo(o, m, n) \/ PassesOne(o, m)
    BY <2>2, <2>6, RoundReads
  <2>8. o[m] \in Nat /\ o[k] \in Nat /\ Len(inner) \in Nat
    BY <2>2, <2>6, AttributeStands, TagEnds
  <2>9. at \in Nat
    BY <2>2, <2>8 DEF Reached
  <2>10. CASE TakesOne(o, m)
    BY <2>7, <2>8, <2>9, <2>10 DEF TakesOne
  <2>11. CASE TakesTwo(o, m, n)
    <3>1. PICK j : j = m + 1
      OBVIOUS
    <3>2. j \in 1..n /\ j - 1 = m /\ ValueStop = o[j] + 1 /\ HasValue
      BY <2>3, <2>6, <2>11, <3>1 DEF TakesTwo
    <3>3. /\ o[j] = o[m] + Len(attrs[j].text)
          /\ o[j] \in Nat /\ Len(attrs[j].text) \in Nat
      BY <2>2, <3>2, AttributeStands
    <3>4. o[m] <= o[j]
      BY <2>8, <3>3
    <3> QED
      BY <2>7, <2>8, <2>9, <3>2, <3>3, <3>4
  <2>12. CASE PassesOne(o, m)
    BY <2>7, <2>8, <2>9, <2>12 DEF PassesOne, Reached, HasValue
  <2> QED
    BY <2>7, <2>10, <2>11, <2>12
<1> QED
  BY <1>1, AnchorInvariant, PTL
=============================================================================
