------------------------------- MODULE Escape --------------------------------
(***************************************************************************)
(* Plain release notes made fit for HTML (update_html_escape_plain_alloc   *)
(* in libupdate/src/update_html.c) and the growing buffer all output of    *)
(* that file goes through: it doubles, but never above a limit, and keeps  *)
(* room for a terminator.                                                  *)
(***************************************************************************)
EXTENDS Integers, Sequences

CONSTANTS
    MaxPlain,   \* bounds the text
    FirstCap,   \* init_cap
    Totals      \* max_total

ASSUME EscapeAssumption ==
    /\ FirstCap \in Nat \ {0}
    /\ Totals \subseteq Nat \ {0}

VARIABLES
    plain,      \* the text
    total,      \* max_total of this call
    done,       \* how many characters of it have been put out
    len, cap,   \* of the buffer
    escaped     \* how the call ended

escapeVars == <<plain, total, done, len, cap, escaped>>

\* A character that needs no escape, "&", "<" or ">", and a quote.
Characters == {"x", "&", "<", "quote"}
EscapedLen(c) ==
    CASE c = "x" -> 1 [] c = "&" -> 5 [] c = "<" -> 4 [] c = "quote" -> 6

EscapeInit ==
    /\ plain \in UNION {[1..k -> Characters] : k \in 0..MaxPlain}
    /\ total \in Totals
    /\ done = 0
    /\ len = 0
    /\ cap = IF FirstCap < total THEN FirstCap ELSE total
    /\ escaped = "none"

\* The first test of buf_ensure
Within(n) == n <= total - len - 1

\* Mutant: the capacity is doubled once.
DoubledOnce(need) == IF need <= cap THEN cap ELSE 2 * cap

\* The capacity buf_ensure arrives at: doubled until it suffices or has passed
\* the limit, for which total steps are enough, and cut to the limit.
Doubled(need) ==
    LET ncap[k \in 0..total] ==
            IF k = 0 THEN cap
            ELSE IF ncap[k - 1] < need /\ ncap[k - 1] < total
                 THEN 2 * ncap[k - 1] ELSE ncap[k - 1]
    IN  IF ncap[total] > total THEN total ELSE ncap[total]

\* buf_append
Put ==
    /\ escaped = "none"
    /\ done < Len(plain)
    /\ LET n == EscapedLen(plain[done + 1]) IN
           IF Within(n) /\ Doubled(len + n + 1) >= len + n + 1
           THEN /\ len' = len + n
                /\ cap' = Doubled(len + n + 1)
                /\ done' = done + 1
                /\ UNCHANGED escaped
           ELSE /\ escaped' = "error"
                /\ UNCHANGED <<done, len, cap>>
    /\ UNCHANGED <<plain, total>>

\* realloc fails; it is called only to grow.
NoMemory ==
    /\ escaped = "none"
    /\ done < Len(plain)
    /\ LET n == EscapedLen(plain[done + 1]) IN
           Within(n) /\ Doubled(len + n + 1) > cap
    /\ escaped' = "no_memory"
    /\ UNCHANGED <<plain, total, done, len, cap>>

EndEscape ==
    /\ escaped = "none"
    /\ done = Len(plain)
    /\ escaped' = "ok"
    /\ UNCHANGED <<plain, total, done, len, cap>>

EscapeNext == Put \/ NoMemory \/ EndEscape

EscapeSpec == EscapeInit /\ [][EscapeNext]_escapeVars
-----------------------------------------------------------------------------
WidthOf == LET upto[i \in 0..Len(plain)] ==
                   IF i = 0 THEN 0 ELSE upto[i - 1] + EscapedLen(plain[i])
           IN  upto
FullWidth == WidthOf[Len(plain)]

\* The buffer never ends before its terminator nor beyond the limit, and a text
\* is refused exactly if what it becomes does not fit under the limit with a
\* terminator, wherever the doubling stands when the limit is reached
\* (update_html.c:31-110, 589-641).
BufferFits ==
    /\ len + 1 <= cap
    /\ cap <= total
    /\ escaped = "ok" => done = Len(plain) /\ len = FullWidth
    /\ escaped = "error" => FullWidth + 1 > total
==============================================================================
