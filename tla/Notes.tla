-------------------------------- MODULE Notes --------------------------------
(***************************************************************************)
(* The sanitizer of release notes (update_html_sanitize_alloc in           *)
(* libupdate/src/update_html.c): one pass over the notes, a stack of the   *)
(* tags that are open in the output, and a buffer with a limit.            *)
(*                                                                         *)
(* A token is a stretch of text or one tag.  "other" stands for everything *)
(* that is dropped with nothing else happening: comments, declarations,    *)
(* tags that are not on the list, </br>, and <a> without a usable href     *)
(* (Anchor).  Escaping is in Escape.  The notes may end after any token.  *)
(***************************************************************************)
EXTENDS Naturals, Sequences, FiniteSets

CONSTANTS
    NoteTags,   \* tags that are passed on and need a closing tag
    Dangerous,  \* tags that are dropped with everything up to their end tag
    MaxDepth,   \* capacity of the stack, 64 in the code
    MaxOut,     \* tokens the output may hold
    MaxTokens   \* bounds the notes

ASSUME NotesAssumption ==
    /\ NoteTags \cap Dangerous = {}
    /\ {"none", "unbalanced"} \cap (NoteTags \cup Dangerous) = {}
    /\ MaxDepth \in Nat
    /\ MaxOut \in Nat
    /\ MaxTokens \in Nat

VARIABLES
    notes,      \* the tokens read so far
    opened,     \* stack[0..sp-1]
    html,       \* the output, or <<>> when the whole call failed
    skipping,   \* the dangerous tag whose end is looked for, or "none"
    noteStatus  \* "reading", "ok" or "failed"

noteVars == <<notes, opened, html, skipping, noteStatus>>

Text == <<"text", "none">>
Break1 == <<"br", "none">>
Other == <<"other", "none">>
OpenTag(t) == <<"open", t>>
CloseTag(t) == <<"close", t>>

NoteTokens == {Text, Break1, Other}
    \cup {OpenTag(t) : t \in NoteTags \cup Dangerous}
    \cup {CloseTag(t) : t \in NoteTags \cup Dangerous}

NotesInit ==
    /\ notes = <<>>
    /\ opened = <<>>
    /\ html = <<>>
    /\ skipping = "none"
    /\ noteStatus = "reading"

Top == opened[Len(opened)]

\* Token k is next in the notes.
Reads(k) ==
    /\ noteStatus = "reading"
    /\ Len(notes) < MaxTokens
    /\ notes' = Append(notes, k)

\* buf_append: above the limit nothing is returned at all.
Emit(s) ==
    IF Len(html) + Len(s) <= MaxOut
    THEN html' = html \o s /\ UNCHANGED noteStatus
    ELSE html' = <<>> /\ noteStatus' = "failed"

PassText ==
    /\ skipping = "none"
    /\ \E k \in {Text, Break1} : Reads(k) /\ Emit(<<k>>)
    /\ UNCHANGED <<opened, skipping>>

Drop ==
    /\ skipping = "none"
    /\ \E k \in {Other} \cup {CloseTag(d) : d \in Dangerous} : Reads(k)
    /\ UNCHANGED <<opened, html, skipping, noteStatus>>

\* Mutant: the last place of the stack is not used.
OpensBelowTop(t) ==
    /\ skipping = "none"
    /\ Reads(OpenTag(t))
    /\ IF Len(opened) + 1 >= MaxDepth
       THEN UNCHANGED <<opened, html, noteStatus>>
       ELSE Emit(<<OpenTag(t)>>) /\ opened' = Append(opened, t)
    /\ UNCHANGED skipping

\* A tag for which the stack has no room is dropped, and only the tag.
Open(t) ==
    /\ skipping = "none"
    /\ Reads(OpenTag(t))
    /\ IF Len(opened) >= MaxDepth
       THEN UNCHANGED <<opened, html, noteStatus>>
       ELSE Emit(<<OpenTag(t)>>) /\ opened' = Append(opened, t)
    /\ UNCHANGED skipping

\* Mutant: an end tag is passed on whenever some tag is open.
ClosesAny(t) ==
    /\ skipping = "none"
    /\ Reads(CloseTag(t))
    /\ IF opened # <<>>
       THEN /\ Emit(<<CloseTag(t)>>)
            /\ opened' = SubSeq(opened, 1, Len(opened) - 1)
       ELSE UNCHANGED <<opened, html, noteStatus>>
    /\ UNCHANGED skipping

\* An end tag that does not belong to the last open tag is dropped.
Close(t) ==
    /\ skipping = "none"
    /\ Reads(CloseTag(t))
    /\ IF opened # <<>> /\ Top = t
       THEN /\ Emit(<<CloseTag(t)>>)
            /\ opened' = SubSeq(opened, 1, Len(opened) - 1)
       ELSE UNCHANGED <<opened, html, noteStatus>>
    /\ UNCHANGED skipping

\* Mutant: only the tag is dropped, not what it encloses.
DropsTagOnly(d) ==
    /\ skipping = "none"
    /\ Reads(OpenTag(d))
    /\ UNCHANGED <<opened, html, skipping, noteStatus>>

Danger(d) ==
    /\ skipping = "none"
    /\ Reads(OpenTag(d))
    /\ skipping' = d
    /\ UNCHANGED <<opened, html, noteStatus>>

\* skip_dangerous_content: up to the end tag of the same name, or the end.
Skip(k) ==
    /\ skipping # "none"
    /\ Reads(k)
    /\ skipping' = IF k = CloseTag(skipping) THEN "none" ELSE skipping
    /\ UNCHANGED <<opened, html, noteStatus>>

\* The notes end; what is open is closed, the last one first.
CloseRest ==
    LET n == Len(opened)
        closing == [i \in 1..n |-> CloseTag(opened[n + 1 - i])]
    IN  /\ noteStatus = "reading"
        /\ opened' = <<>>
        /\ IF Len(html) + n <= MaxOut
           THEN html' = html \o closing /\ noteStatus' = "ok"
           ELSE html' = <<>> /\ noteStatus' = "failed"
        /\ UNCHANGED <<notes, skipping>>

NotesNext ==
    \/ PassText
    \/ Drop
    \/ \E t \in NoteTags : Open(t) \/ Close(t)
    \/ \E d \in Dangerous : Danger(d)
    \/ \E k \in NoteTokens : Skip(k)
    \/ CloseRest

NotesSpec == NotesInit /\ [][NotesNext]_noteVars
-----------------------------------------------------------------------------
(***************************************************************************)
(* What the sanitizer is to guarantee.  A reader of markup keeps the tags  *)
(* that are open; Unbalanced is an end tag with no start tag of its own.   *)
(***************************************************************************)
Unbalanced == <<"unbalanced">>

\* What is open behind token k if o is open before it.
After(o, k) ==
    IF o = Unbalanced \/ k[1] \notin {"open", "close"} THEN o
    ELSE IF k[1] = "open" THEN Append(o, k[2])
    ELSE IF o # <<>> /\ o[Len(o)] = k[2] THEN SubSeq(o, 1, Len(o) - 1)
    ELSE Unbalanced

ReadBy(s) ==
    LET open[i \in 0..Len(s)] ==
            IF i = 0 THEN <<>> ELSE After(open[i - 1], s[i])
    IN  open

Balanced(s) == ReadBy(s)[Len(s)] = <<>>

NotesDone == noteStatus = "ok"

\* However the tags of the notes are nested, crossed or left open, and
\* however many there are, what is shown is well-formed markup
\* (update_html.c:720-731, 783-806).
ShownBalanced == NotesDone => Balanced(html)

\* Well-formed notes that use nothing but listed tags, no deeper than the
\* stack, come out as they are (update_html.c:668-806).
CleanNotes ==
    /\ \A i \in DOMAIN notes : notes[i] # Other /\ notes[i][2] \notin Dangerous
    /\ Balanced(notes)
    /\ \A i \in DOMAIN notes : Len(ReadBy(notes)[i]) <= MaxDepth
CleanUnchanged == NotesDone /\ CleanNotes => html = notes

\* No text is lost or shown by mistake: the text of the notes is shown but for
\* what stands between a dangerous tag and its end tag (update_html.c:757-767,
\* 325-332; tags without an end tag, like <img>, take all the rest with them).
Opening == {i \in DOMAIN notes : \E d \in Dangerous : notes[i] = OpenTag(d)}
Enclosed(j) == {i \in DOMAIN notes :
                   /\ i > j
                   /\ \A k \in j..i : notes[k] # CloseTag(notes[j][2])}
TextKept ==
    NotesDone /\ Cardinality(Opening) <= 1 =>
        Cardinality({i \in DOMAIN html : html[i] = Text}) =
            Cardinality({i \in DOMAIN notes :
                            /\ notes[i] = Text
                            /\ \A j \in Opening : i \notin Enclosed(j)})
==============================================================================
