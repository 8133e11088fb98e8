------------------------------- MODULE Anchor --------------------------------
(***************************************************************************)
(* The scan for the href of an <a> tag (parse_anchor_href in               *)
(* libupdate/src/update_html.c).  It goes over the text between the name   *)
(* of the tag and the end that skip_to_tag_end found, one attribute in     *)
(* each round of its loop, with a single position that only the scan       *)
(* itself moves on.                                                        *)
(*                                                                         *)
(* Symbols: "href", "title" and "on" are names or parts of names, "http:"  *)
(* and "host" parts of an address that a name can hold as well; "sp" is    *)
(* white space, "q" a quote, and "=", "/", "#", ">" are themselves.        *)
(***************************************************************************)
EXTENDS Naturals, Sequences, SequencesExt

CONSTANTS
    Attributes, \* what may stand in the tag, one after the other: the
                \* symbols of each and the address it gives, or <<>>
    MaxAttrs,   \* bounds their number
    HrefCap     \* the room for an address and its terminator, href_cap

ASSUME AnchorAssumption ==
    /\ \A a \in Attributes : a.text \in Seq(STRING) /\ a.href \in Seq(STRING)
    /\ MaxAttrs \in Nat
    /\ HrefCap \in Nat

VARIABLES
    attrs,      \* the attributes of the tag
    inner,      \* their symbols, [inner_start, inner_end)
    at,         \* p
    href,       \* href_out, <<>> while it is empty
    scanned     \* has the loop ended?

anchorVars == <<attrs, inner, at, href, scanned>>

NameSymbols == {"href", "title", "on", "http:", "host"}

Joined(s) == FlattenSeq([i \in DOMAIN s |-> s[i].text])

AnchorInit ==
    /\ attrs \in UNION {[1..n -> Attributes] : n \in 0..MaxAttrs}
    /\ inner = Joined(attrs) \o <<">">>
    /\ at = 1
    /\ href = <<>>
    /\ scanned = FALSE

InnerEnd == Len(inner) + 1

\* The first position from i on where the symbols are no longer in S.
PastAll(i, S) ==
    CHOOSE j \in i..InnerEnd :
        /\ j < InnerEnd => inner[j] \notin S
        /\ \A k \in i..(j - 1) : inner[k] \in S

\* The first position from i on with a symbol of S.
UpTo(i, S) ==
    CHOOSE j \in i..InnerEnd :
        /\ j < InnerEnd => inner[j] \in S
        /\ \A k \in i..(j - 1) : inner[k] \notin S

SkipWs(i) == PastAll(i, {"sp"})
Is(i, c) == i < InnerEnd /\ inner[i] = c

\* One round of the loop: name, equals sign, value.
NameStart == SkipWs(at)
NameStop == PastAll(NameStart, NameSymbols)
Name == SubSeq(inner, NameStart, NameStop - 1)
Equals == SkipWs(NameStop)
ValueStart == SkipWs(Equals + 1)
Quoted == Is(ValueStart, "q")

\* skip_attr_value
ValueStop ==
    IF Quoted
    THEN LET j == UpTo(ValueStart + 1, {"q"})
         IN  IF j < InnerEnd THEN j + 1 ELSE j
    ELSE UpTo(ValueStart, {"sp", ">", "/"})

Value ==
    IF Quoted
    THEN SubSeq(inner, ValueStart + 1, UpTo(ValueStart + 1, {"q"}) - 1)
    ELSE SubSeq(inner, ValueStart, ValueStop - 1)

\* href_is_safe; mailto: and https:// are like http://.
HrefIsSafe(v) ==
    \E i \in DOMAIN v :
        /\ \A j \in 1..(i - 1) : v[j] = "sp"
        /\ \/ v[i] = "#"
           \/ /\ i + 2 <= Len(v)
              /\ SubSeq(v, i, i + 2) = <<"http:", "/", "/">>

\* A safe address that does not fit into href_out is passed over.
IsTaken(v) == HrefIsSafe(v) /\ Len(v) + 1 <= HrefCap

AtEnd ==
    \/ NameStart >= InnerEnd
    \/ Is(NameStart, ">")
    \/ Is(NameStart, "/") /\ Is(NameStart + 1, ">")

HasValue == Is(Equals, "=") /\ ValueStart < InnerEnd

EndScan ==
    /\ ~scanned
    /\ AtEnd \/ (Is(Equals, "=") /\ ~HasValue)
    /\ scanned' = TRUE
    /\ UNCHANGED <<attrs, inner, at, href>>

\* An attribute with no value.  The loop goes on where it is, even if that
\* is where the round began: then nothing moves any more.
NoValue ==
    /\ ~scanned /\ ~AtEnd
    /\ ~Is(Equals, "=")
    /\ at' = Equals
    /\ UNCHANGED <<attrs, inner, href, scanned>>

AttrNameIsDanger == Name # <<>> /\ Name[1] = "on"

\* Mutant: a later href replaces the one that was found.
TakesLastHref == Name = <<"href">>

TakesHref == Name = <<"href">> /\ href = <<>>

SkipAttr ==
    /\ ~scanned /\ ~AtEnd
    /\ HasValue
    /\ AttrNameIsDanger \/ ~TakesHref
    /\ at' = ValueStop
    /\ UNCHANGED <<attrs, inner, href, scanned>>

\* Mutant: the scan goes on at the quote that ends the value.
LeavesQuote ==
    /\ ~scanned /\ ~AtEnd
    /\ HasValue
    /\ ~AttrNameIsDanger /\ TakesHref
    /\ at' = IF Quoted THEN ValueStop - 1 ELSE ValueStop
    /\ href' = IF IsTaken(Value) THEN Value ELSE href
    /\ UNCHANGED <<attrs, inner, scanned>>

TakeHref ==
    /\ ~scanned /\ ~AtEnd
    /\ HasValue
    /\ ~AttrNameIsDanger /\ TakesHref
    /\ at' = ValueStop
    /\ href' = IF IsTaken(Value) THEN Value ELSE href
    /\ UNCHANGED <<attrs, inner, scanned>>

AnchorNext == EndScan \/ NoValue \/ SkipAttr \/ TakeHref

AnchorSpec == AnchorInit /\ [][AnchorNext]_anchorVars /\ WF_anchorVars(AnchorNext)
-----------------------------------------------------------------------------
(***************************************************************************)
(* What can be read in one way only: white space, then a name, then either *)
(* nothing or an equals sign and a value, which is quoted or holds none of *)
(* the symbols that end a value without quotes.  href is the value if the  *)
(* name is href and the value is safe, and not safe otherwise.  A name of  *)
(* nothing is left to an attribute that has a value, and one without a     *)
(* value is not named href: `href = x' may be one attribute or two.        *)
(***************************************************************************)
SpacesIn(t, i, j) == \A k \in i..(j - 1) : t[k] = "sp"
NamesIn(t, i, j) == \A k \in i..(j - 1) : t[k] \in NameSymbols

Bare(a, s) ==
    LET t == a.text
    IN  /\ 1 < s /\ s <= Len(t)
        /\ SpacesIn(t, 1, s)
        /\ NamesIn(t, s, Len(t) + 1)
        /\ SubSeq(t, s, Len(t)) # <<"href">>
        /\ ~HrefIsSafe(a.href)

\* Without its quotes; the value begins at v.
ValueOf(t, v) == IF t[v] = "q" THEN SubSeq(t, v + 1, Len(t) - 1) ELSE SubSeq(t, v, Len(t))

\* The name is in s..(e - 1), the equals sign at q.
Valued(a, s, e, q, v) ==
    LET t == a.text
    IN  /\ 1 < s /\ s <= e /\ e <= q /\ q < v /\ v <= Len(t)
        /\ s = e => e = q
        /\ SpacesIn(t, 1, s) /\ NamesIn(t, s, e)
        /\ SpacesIn(t, e, q) /\ t[q] = "="
        /\ SpacesIn(t, q + 1, v)
        /\ IF t[v] = "q"
           THEN /\ v < Len(t) /\ t[Len(t)] = "q"
                /\ \A k \in (v + 1)..(Len(t) - 1) : t[k] # "q"
           ELSE \A k \in v..Len(t) : t[k] \notin {"sp", ">", "/"}
        /\ IF SubSeq(t, s, e - 1) = <<"href">> /\ HrefIsSafe(ValueOf(t, v))
           THEN a.href = ValueOf(t, v)
           ELSE ~HrefIsSafe(a.href)

Readable(a) ==
    LET P == 1..(Len(a.text) + 1)
    IN  \/ \E s \in P : Bare(a, s)
        \/ \E s, e, q, v \in P : Valued(a, s, e, q, v)

\* The scan finds the first address that is safe and fits its buffer, passing
\* over one that is too long for a later one, and takes no part of another
\* attribute for one (update_html.c:464-541).
FirstSafe ==
    LET safe == {i \in DOMAIN attrs : IsTaken(attrs[i].href)}
    IN  scanned =>
            IF safe = {} THEN href = <<>>
            ELSE \E i \in safe : /\ \A j \in safe : i <= j
                                 /\ href = attrs[i].href

\* A round that is not the last one takes the scan further: else it would go
\* round at one place without end (update_html.c:468-540, where p only moves
\* by what skip_ws, the name and the value of the round pass over).
RoundsAdvance ==
    ~scanned =>
        \/ AtEnd \/ (Is(Equals, "=") /\ ~HasValue)
        \/ at < IF HasValue THEN ValueStop ELSE Equals

\* The sanitizer comes back from every tag: update_check and update_perform
\* wait for it (update_html.c:468-540; README.md:31 says what it does with
\* other markup and unsafe attributes, which is to strip them).
AnchorEnds == attrs # <<>> ~> scanned
==============================================================================
