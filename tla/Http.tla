-------------------------------- MODULE Http ---------------------------------
(***************************************************************************)
(* A download over sockets (libupdate/src/http_transport_socket.c): the    *)
(* readers of a response body, the .part file of a download to disk, and   *)
(* the bounded buffer of a fetch to memory, against a server that sends a  *)
(* page piece by piece in one of the three framings and may break off.     *)
(*                                                                         *)
(* A symbol stands for a byte, "nl" for the two bytes that end a line and  *)
(* the digits for the sizes of chunks.  io_src first hands out the bytes   *)
(* that came with the header and then reads the connection: one stream,    *)
(* wire.  Names, URLs, TLS and the header's text are left out; whatever    *)
(* goes wrong before the body is one way of failing.                       *)
(***************************************************************************)
EXTENDS Naturals, Sequences

CONSTANTS
    Pages,      \* the pages a server may have, sequences of symbols
    None,
    BufCap,     \* symbols read at once (8192 bytes in the code)
    LineCap,    \* symbols of a chunk-size line that are read (95 bytes)
    MaxFetch,   \* UPDATE_HTTP_FETCH_MAX
    MaxAhead,   \* bounds the symbols unread when the server sends more
    Extensions  \* what a server may write behind a size, and as a trailer

ASSUME HttpAssumption ==
    /\ \A p \in Pages : p \in Seq(STRING)
    /\ <<>> \in Extensions
    /\ \A e \in Extensions : e \in Seq(STRING)
    /\ \A e \in Extensions : \A i \in DOMAIN e : e[i] \notin {"nl", "head"}
    /\ None \notin Pages
    /\ BufCap \in Nat \ {0}
    /\ LineCap \in Nat \ {0}
    /\ MaxFetch \in Nat
    /\ MaxAhead \in Nat

VARIABLES
    page, framing,  \* what the server sends, and how
    left,           \* the part of the page it has not sent yet
    wire,           \* symbols that were sent and not read yet
    conn,           \* "open", "closed" by the server in order, or "reset"
    pc,             \* where the call is
    kind,           \* "file": update_http_stream_download, "memory":
                    \* update_http_fetch
    want,           \* symbols of the chunk or of the body still to come
    part,           \* what was written: part["file"] to the .part file,
                    \* part["memory"] to the buffer; None if there is none
    dest,           \* what the caller holds
    result

server == <<page, framing, left, wire, conn>>
client == <<pc, kind, want, part, dest, result>>
httpVars == <<server, client>>

Kinds == {"file", "memory"}
Framings == {"chunked", "length", "close"}
Ends == {"closed", "reset"}
Digit == <<"1", "2", "3", "4", "5", "6", "7", "8", "9">>

Min2(a, b) == IF a < b THEN a ELSE b

HttpInit ==
    /\ page \in Pages
    /\ framing \in Framings
    /\ left = <<>>
    /\ wire = <<>>
    /\ conn = "closed"
    /\ pc = "idle"
    /\ kind \in Kinds
    /\ want = 0
    /\ part = [k \in Kinds |-> None]
    /\ dest = None
    /\ result = "none"
-----------------------------------------------------------------------------
(***************************************************************************)
(* The server.                                                             *)
(***************************************************************************)
Sends(s) ==
    /\ Len(wire) <= MaxAhead
    /\ wire' = wire \o s

SendHead ==
    /\ pc = "headers"
    /\ conn = "asked"
    /\ conn' = "open"
    /\ Sends(<<"head">>)
    /\ UNCHANGED <<page, framing, left, client>>

\* The model writes the size of a chunk with one digit.
SendChunk(n, ext) ==
    /\ conn = "open"
    /\ framing = "chunked"
    /\ n \in 1..Len(left)
    /\ n \in DOMAIN Digit
    /\ Sends(<<Digit[n]>> \o ext \o <<"nl">> \o SubSeq(left, 1, n) \o <<"nl">>)
    /\ left' = SubSeq(left, n + 1, Len(left))
    /\ UNCHANGED <<page, framing, conn, client>>

SendLast(trailer) ==
    /\ conn = "open"
    /\ framing = "chunked"
    /\ left = <<>>
    /\ Sends(IF trailer = <<>>
             THEN <<"0", "nl", "nl">>
             ELSE <<"0", "nl">> \o trailer \o <<"nl", "nl">>)
    /\ conn' = "closed"
    /\ UNCHANGED <<page, framing, left, client>>

SendBytes(n) ==
    /\ conn = "open"
    /\ framing # "chunked"
    /\ n \in 1..Len(left)
    /\ Sends(SubSeq(left, 1, n))
    /\ left' = SubSeq(left, n + 1, Len(left))
    /\ UNCHANGED <<page, framing, conn, client>>

\* The request says Connection: close.
Finish ==
    /\ conn = "open"
    /\ framing # "chunked"
    /\ left = <<>>
    /\ conn' = "closed"
    /\ UNCHANGED <<page, framing, left, wire, client>>

\* The connection breaks: what was under way is lost from some byte on.
Break(n, how) ==
    /\ pc # "idle"
    /\ conn # "reset"
    /\ conn = "closed" => n < Len(wire)
    /\ n \in 0..Len(wire)
    /\ wire' = SubSeq(wire, 1, n)
    /\ conn' = how
    /\ UNCHANGED <<page, framing, left, client>>
-----------------------------------------------------------------------------
(***************************************************************************)
(* The client.  Fail is the label cleanup of both functions with rc # 0.   *)
(***************************************************************************)
Over == conn \in Ends

\* src_read(n): n symbols, fewer only at the end of the stream.
Ready(n) == Len(wire) >= n \/ Over
Cut(n) == Len(wire) < n /\ conn = "reset"
Taken(n) == SubSeq(wire, 1, Min2(n, Len(wire)))
Consume(n) ==
    /\ wire' = SubSeq(wire, Min2(n, Len(wire)) + 1, Len(wire))
    /\ UNCHANGED <<page, framing, left, conn>>

Request(k, p, f) ==
    /\ pc = "idle"
    /\ pc' = "headers"
    /\ kind' = k
    /\ dest' = IF k = "memory" THEN None ELSE dest
    /\ page' = p
    /\ framing' = f
    /\ left' = p
    /\ wire' = <<>>
    /\ conn' = "asked"
    /\ want' = 0
    /\ result' = "none"
    /\ UNCHANGED part

\* conn_close
Hangup ==
    /\ left' = <<>>
    /\ wire' = <<>>
    /\ conn' = "closed"
    /\ UNCHANGED <<page, framing>>

\* Mutant: the .part file of a failed download stays.
FailsOnly ==
    /\ pc' = "idle"
    /\ want' = 0
    /\ result' = "error"
    /\ Hangup
    /\ UNCHANGED <<kind, part, dest>>

Fail ==
    /\ pc' = "idle"
    /\ part' = [part EXCEPT ![kind] = None]
    /\ want' = 0
    /\ result' = "error"
    /\ Hangup
    /\ UNCHANGED <<kind, dest>>

\* No connection, no answer, an answer other than 200.
NoBody ==
    /\ pc = "headers"
    /\ Fail

ContentLength == IF framing = "length" THEN Len(page) ELSE 0

BodyReader ==
    CASE framing = "chunked" -> "size"
      [] framing = "length" -> IF ContentLength = 0 THEN "store" ELSE "known"
      [] framing = "close" -> "until_close"

\* The .part file is made, or cut to nothing when a killed call left one.
ReadHead ==
    /\ pc = "headers"
    /\ wire # <<>> \/ Over
    /\ \/ /\ wire # <<>>
          /\ Consume(1)
          /\ part' = [part EXCEPT ![kind] = <<>>]
          /\ want' = ContentLength
          /\ pc' = BodyReader
          /\ UNCHANGED <<kind, dest, result>>
       \/ /\ wire = <<>>
          /\ Fail

\* Mutant: the limit of a fetch is not looked at.
WritesOn(s) == part' = [part EXCEPT ![kind] = @ \o s]

\* fwrite and realloc may fail; a fetch also ends above its limit.
Written(s) ==
    /\ kind = "memory" => Len(part[kind]) + Len(s) <= MaxFetch
    /\ part' = [part EXCEPT ![kind] = @ \o s]

Data(state, next) ==
    LET n == Min2(want, BufCap)
        s == Taken(n)
    IN  /\ pc = state
        /\ Ready(n)
        /\ \/ /\ ~Cut(n)
              /\ s # <<>>
              /\ Written(s)
              /\ Consume(n)
              /\ want' = want - Len(s)
              /\ pc' = IF want' = 0 THEN next ELSE state
              /\ UNCHANGED <<kind, dest, result>>
           \/ Fail

\* Mutant: the end of the stream is taken for the end of the body.
EndsShort ==
    \/ Data("known", "store")
    \/ /\ pc = "known"
       /\ wire = <<>>
       /\ Over
       /\ pc' = "store"
       /\ UNCHANGED <<kind, want, part, dest, result, server>>

\* Mutant: a full buffer is read whatever is left of the chunk, and the count
\* of what is left wraps.
ReadsFullBuffer ==
    LET s == Taken(BufCap)
    IN  /\ pc = "data"
        /\ Ready(BufCap)
        /\ Written(s)
        /\ Consume(BufCap)
        /\ want' = want - Len(s)
        /\ pc' = IF want' = 0 THEN "crlf" ELSE "data"
        /\ UNCHANGED <<kind, dest, result>>

\* Mutant: the line end behind a chunk is not read.
SkipsCrlf == Data("data", "size")

ReadKnown == Data("known", "store")
ReadChunk == Data("data", "crlf")

ReadUntilClose ==
    LET s == Taken(BufCap)
    IN  /\ pc = "until_close"
        /\ Ready(BufCap)
        /\ \/ /\ ~Cut(BufCap)
              /\ Written(s)
              /\ Consume(BufCap)
              /\ pc' = IF s = <<>> THEN "store" ELSE pc
              /\ UNCHANGED <<kind, want, dest, result>>
           \/ Fail

\* read_line_src: the symbols up to a line end, if there is one in time.
LineEnds == {i \in 1..Min2(LineCap, Len(wire)) : wire[i] = "nl"}
LineReady == LineEnds # {} \/ Len(wire) >= LineCap \/ Over
LineLen == CHOOSE i \in LineEnds : \A j \in LineEnds : i <= j

\* strtoull: a line that starts with no digit is 0.
SizeOf(c) ==
    IF \E i \in DOMAIN Digit : Digit[i] = c
    THEN CHOOSE i \in DOMAIN Digit : Digit[i] = c
    ELSE 0

ReadLine(state, next, n) ==
    /\ pc = state
    /\ LineReady
    /\ \/ /\ LineEnds # {}
          /\ Consume(LineLen)
          /\ want' = n
          /\ pc' = next
          /\ UNCHANGED <<kind, part, dest, result>>
       \/ /\ LineEnds = {}
          /\ Fail

ReadSize ==
    LET n == SizeOf(wire[1])
    IN  ReadLine("size", IF n = 0 THEN "last" ELSE "data", n)

ReadCrlf == ReadLine("crlf", "size", 0)

\* Mutant: a line is awaited whether or not the server is still there.
AwaitsLine ==
    /\ pc = "last"
    /\ LineEnds # {}
    /\ ReadLine("last", "store", 0)

ReadLast == ReadLine("last", "store", 0)

\* fclose and the rename may fail.
Store ==
    /\ pc = "store"
    /\ \/ /\ dest' = part[kind]
          /\ part' = [part EXCEPT ![kind] = None]
          /\ pc' = "idle"
          /\ want' = 0
          /\ result' = "ok"
          /\ Hangup
          /\ UNCHANGED kind
       \/ Fail

\* The .part file outlives the process, a buffer does not.
Kill ==
    /\ pc # "idle"
    /\ pc' = "idle"
    /\ part' = [part EXCEPT !["memory"] = None]
    /\ want' = 0
    /\ result' = "killed"
    /\ Hangup
    /\ UNCHANGED <<kind, dest>>
-----------------------------------------------------------------------------
ServerSteps ==
    \/ SendHead
    \/ \E n \in 1..Len(left) : SendBytes(n)
    \/ \E n \in 1..Len(left), e \in Extensions : SendChunk(n, e)
    \/ \E e \in Extensions : SendLast(e)
    \/ Finish

ClientSteps ==
    \/ ReadHead
    \/ ReadKnown
    \/ ReadSize
    \/ ReadChunk
    \/ ReadCrlf
    \/ ReadLast
    \/ ReadUntilClose
    \/ Store

HttpNext ==
    \/ \E k \in Kinds, p \in Pages, f \in Framings :
           Request(k, p, f)
    \/ ServerSteps
    \/ \E n \in 0..Len(wire), how \in Ends : Break(n, how)
    \/ ClientSteps
    \/ NoBody
    \/ Kill

HttpSpec == HttpInit /\ [][HttpNext]_httpVars

(***************************************************************************)
(* The code sets no timeout: a call ends only if the server goes on.       *)
(***************************************************************************)
HttpFairSpec == HttpSpec /\ WF_httpVars(ServerSteps) /\ WF_httpVars(ClientSteps)
-----------------------------------------------------------------------------
(***************************************************************************)
(* What the transport is to guarantee.                                     *)
(***************************************************************************)
Symbols == (UNION {{p[i] : i \in DOMAIN p} : p \in Pages \cup Extensions})
               \cup {Digit[i] : i \in DOMAIN Digit} \cup {"0", "nl", "head"}

HttpTypeOK ==
    /\ page \in Pages
    /\ framing \in Framings
    /\ left \in Seq(Symbols)
    /\ wire \in Seq(Symbols)
    /\ conn \in {"asked", "open"} \cup Ends
    /\ pc \in {"idle", "headers", "size", "data", "crlf", "last", "known",
               "until_close", "store"}
    /\ kind \in Kinds
    /\ want \in Nat
    /\ part \in [Kinds -> Seq(Symbols) \cup {None}]
    /\ dest \in Seq(Symbols) \cup {None}
    /\ result \in {"none", "ok", "error", "killed"}

\* Whatever the page looks like, how it is cut into chunks and where the
\* connection breaks, the readers never take framing for content or content
\* for framing: what was written so far is the beginning of the page, and the
\* whole of it where the code takes an announced end for reached
\* (http_transport_socket.c:448-528, 721-805).
InSync ==
    pc \notin {"idle", "headers"} =>
        LET n == Len(part[kind])
        IN  /\ n <= Len(page) /\ part[kind] = SubSeq(page, 1, n)
            /\ pc \in {"last", "store"} /\ framing # "close" => n = Len(page)

\* A call that returned has left no .part file behind, not even one that an
\* earlier, killed call had left (http_transport_socket.c:690-701).
NoPartLeft ==
    pc = "idle" /\ kind = "file" /\ result \in {"ok", "error"} =>
        part["file"] = None

\* A fetch goes on with no more than its limit in the buffer, in whatever
\* pieces it came, and returns no page above the limit (http_transport_socket.c:708-719).
FetchBounded ==
    /\ part["memory"] # None => Len(part["memory"]) <= MaxFetch
    /\ kind = "memory" /\ dest # None => Len(dest) <= MaxFetch

\* A call returns, whatever breaks, if the server goes on sending or closes:
\* the readers wait for nothing else (http_transport_socket.c:152-182,
\* 212-245, 428-557).
CallReturns == pc # "idle" ~> pc = "idle"

\* Every download is all or nothing (Transfer).
T == INSTANCE Transfer WITH
         announced <- framing # "close",
         busy <- pc # "idle"
ImplementsTransfer == T!Spec
==============================================================================
