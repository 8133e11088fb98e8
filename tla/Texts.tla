-------------------------------- MODULE Texts --------------------------------
(***************************************************************************)
(* Strings on their way through JSON: how the updater writes a string into *)
(* its state file (json_emit_escaped_string in updater/update_state.c) and *)
(* how a string is read from there or from a manifest                      *)
(* (libupdate/src/json_mini.c), into a buffer of a given size, or in two   *)
(* passes, of which the first counts and the second fills what was then    *)
(* allocated.                                                              *)
(***************************************************************************)
EXTENDS Integers, Sequences, SequencesExt

CONSTANTS
    MaxValue,   \* bounds the strings that are written
    MaxRaw,     \* bounds the texts that come from elsewhere
    Caps,       \* sizes of a caller's buffer
    Limits      \* limits on the length of a string that is allocated

ASSUME TextsAssumption == Caps \subseteq Nat \ {0} /\ Limits \subseteq Nat

VARIABLES
    value,      \* the string that was written, or Foreign
    source,     \* the text behind the opening quote
    mode,       \* "direct", "count" or "fill"
    room,       \* outcap, or max_decoded while counting
    pos,        \* the next character of source
    buffer,     \* what was decoded so far
    counted,    \* what the first pass found
    decoded     \* how the reading ended

textVars == <<value, source, mode, room, pos, buffer, counted, decoded>>

\* A plain character, "n" for the letters that name another one behind a
\* backslash, the backslash and the quote.
Letters == {"x", "n", "\\", "q"}
Foreign == <<"foreign">>
Strings(n) == UNION {[1..k -> Letters] : k \in 0..n}

\* Mutant: only the quote is escaped.
EscapesQuotes(s) ==
    FlattenSeq([i \in DOMAIN s |-> IF s[i] = "q" THEN <<"\\", "q">> ELSE <<s[i]>>])

\* json_emit_escaped_string, with its closing quote
EmitString(s) ==
    FlattenSeq([i \in DOMAIN s |->
                   IF s[i] \in {"q", "\\"} THEN <<"\\", s[i]>> ELSE <<s[i]>>])

TextsInit ==
    /\ \/ value \in Strings(MaxValue) /\ source = EmitString(value) \o <<"q">>
       \/ value = Foreign /\ source \in Strings(MaxRaw)
    /\ \/ mode = "direct" /\ room \in Caps
       \/ mode = "count" /\ room \in Limits
    /\ pos = 1
    /\ buffer = <<>>
    /\ counted = 0
    /\ decoded = "none"

TextEnd == pos > Len(source)
Escapes == ~TextEnd /\ source[pos] = "\\" /\ pos < Len(source)

\* What an escape stands for; a letter without a meaning stands for itself.
Meaning(c) == IF c = "n" THEN "newline" ELSE c

\* A character is refused when the terminator would no longer fit behind it,
\* or when there are as many as the caller wants.
Refused ==
    IF mode = "count" THEN Len(buffer) >= room ELSE Len(buffer) + 1 >= room

Stops(result) ==
    /\ decoded' = result
    /\ UNCHANGED <<value, source, mode, room, pos, buffer, counted>>

TakeChar(c, width) ==
    IF Refused
    THEN Stops("error")
    ELSE /\ buffer' = Append(buffer, c)
         /\ pos' = pos + width
         /\ UNCHANGED <<value, source, mode, room, counted, decoded>>

ReadEscape ==
    /\ decoded = "none"
    /\ Escapes
    /\ TakeChar(Meaning(source[pos + 1]), 2)

ReadPlain ==
    /\ decoded = "none"
    /\ ~TextEnd
    /\ ~Escapes
    /\ source[pos] # "q"
    /\ TakeChar(source[pos], 1)

Unterminated ==
    /\ decoded = "none"
    /\ TextEnd
    /\ Stops("error")

CloseQuote ==
    /\ decoded = "none"
    /\ mode # "count"
    /\ ~TextEnd
    /\ source[pos] = "q"
    /\ Stops("ok")

\* Mutant: no room for the terminator.
AllocatesLength(n) == n

\* malloc(dc + 1U)
Allocated(n) == n + 1

\* json_mini_extract_string_alloc: the second pass over the same text.
EndCount ==
    /\ decoded = "none"
    /\ mode = "count"
    /\ ~TextEnd
    /\ source[pos] = "q"
    /\ \/ /\ mode' = "fill"
          /\ room' = Allocated(Len(buffer))
          /\ counted' = Len(buffer)
          /\ pos' = 1
          /\ buffer' = <<>>
          /\ UNCHANGED <<value, source, decoded>>
       \/ Stops("no_memory")

TextsNext == ReadEscape \/ ReadPlain \/ Unterminated \/ CloseQuote \/ EndCount

TextsSpec == TextsInit /\ [][TextsNext]_textVars
-----------------------------------------------------------------------------
\* A string the updater wrote is read back as it was, whatever backslashes and
\* quotes it has and wherever they stand, and is refused only if it and its
\* terminator do not fit (update_state.c:217-227, json_mini.c:60-151).
RoundTrip ==
    value # Foreign =>
        /\ decoded = "ok" => buffer = value
        /\ decoded = "error" =>
               Len(value) + (IF mode = "count" THEN 0 ELSE 1) > room

\* Whatever the text, the second pass finds what the first one counted, fills
\* the memory that was allocated to its last byte and no further, and does not
\* fail (json_mini.c:211-244).
SecondPassFits ==
    mode = "fill" =>
        /\ Len(buffer) <= counted
        /\ decoded # "error"
        /\ decoded = "ok" => Len(buffer) = counted
==============================================================================
