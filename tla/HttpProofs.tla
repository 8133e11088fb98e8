----------------------------- MODULE HttpProofs ------------------------------
(***************************************************************************)
(* Theorems about Http: the .part file, the limit of a fetch, that what is *)
(* written stays in step with the page, and that the client implements     *)
(* Transfer, for any pages, any server within the model and any sizes of   *)
(* the buffers.                                                            *)
(***************************************************************************)
EXTENDS Http, SequenceTheorems, WellFoundedInduction, TLAPS

InBody == pc \notin {"idle", "headers"}

\* From the header on there is a .part file or a buffer to write to.
BodyOK == InBody => part[kind] \in Seq(Symbols)

HInv == HttpTypeOK /\ BodyOK
-----------------------------------------------------------------------------
LEMMA KindsOf == Kinds = {"file", "memory"}
  BY DEF Kinds

LEMMA DigitSymbols == \A n \in DOMAIN Digit : Digit[n] \in Symbols
  BY DEF Symbols

LEMMA OtherSymbols == {"0", "nl", "head"} \subseteq Symbols
  BY DEF Symbols

\* Pages, sizes' extensions and trailers are sequences of symbols.
LEMMA TextSymbols == \A p \in Pages \cup Extensions : p \in Seq(Symbols)
<1> SUFFICES ASSUME NEW p \in Pages \cup Extensions
             PROVE  p \in Seq(Symbols)
  OBVIOUS
<1>1. p \in Seq(STRING)
  BY HttpAssumption
<1>2. Len(p) \in Nat /\ DOMAIN p = 1..Len(p) /\ p \in [1..Len(p) -> STRING]
  BY <1>1, LenProperties
<1>3. \A i \in 1..Len(p) : p[i] \in Symbols
  BY <1>2 DEF Symbols
<1>4. p \in [1..Len(p) -> Symbols]
  BY <1>2, <1>3
<1> QED
  BY <1>2, <1>4

\* The first n symbols, and what is left behind them.
LEMMA Cuts ==
  ASSUME NEW s \in Seq(Symbols), NEW n \in 0..Len(s)
  PROVE  /\ SubSeq(s, 1, n) \in Seq(Symbols)
         /\ Len(SubSeq(s, 1, n)) = n
         /\ SubSeq(s, n + 1, Len(s)) \in Seq(Symbols)
         /\ Len(SubSeq(s, n + 1, Len(s))) = Len(s) - n
<1>1. Len(s) \in Nat /\ \A i \in 1..Len(s) : s[i] \in Symbols
  BY LenProperties, ElementOfSeq
<1>2. \A i \in 1..n : s[i] \in Symbols
  BY <1>1
<1>3. \A i \in n + 1..Len(s) : s[i] \in Symbols
  BY <1>1
<1>4. SubSeq(s, 1, n) \in Seq(Symbols) /\ Len(SubSeq(s, 1, n)) = n
  BY <1>1, <1>2, SubSeqProperties
<1>5. /\ SubSeq(s, n + 1, Len(s)) \in Seq(Symbols)
      /\ Len(SubSeq(s, n + 1, Len(s))) = Len(s) - n
  BY <1>1, <1>3, SubSeqProperties
<1> QED
  BY <1>4, <1>5

\* What src_read hands out, and what stays on the wire.
LEMMA Reads ==
  ASSUME HttpTypeOK, NEW n \in Nat
  PROVE  /\ Taken(n) \in Seq(Symbols)
         /\ Len(Taken(n)) \in 0..n
         /\ Consume(n) => wire' \in Seq(Symbols)
<1> DEFINE m == Min2(n, Len(wire))
<1>1. wire \in Seq(Symbols) /\ Len(wire) \in Nat
  BY LenProperties DEF HttpTypeOK
<1>2. m \in 0..Len(wire) /\ m \in 0..n
  BY <1>1 DEF Min2
<1>3. /\ SubSeq(wire, 1, m) \in Seq(Symbols)
      /\ Len(SubSeq(wire, 1, m)) = m
      /\ SubSeq(wire, m + 1, Len(wire)) \in Seq(Symbols)
  BY <1>1, <1>2, Cuts
<1> QED
  BY <1>2, <1>3 DEF Taken, Consume

\* What is sent are symbols.
LEMMA SendsTyped ==
  ASSUME HttpTypeOK, NEW s \in Seq(Symbols), Sends(s)
  PROVE  wire' \in Seq(Symbols)
  BY ConcatProperties DEF Sends, HttpTypeOK

LEMMA SizeTyped == \A c : SizeOf(c) \in Nat
  BY DEF SizeOf, Digit

LEMMA BufferSizes == BufCap \in Nat /\ LineCap \in Nat /\ MaxFetch \in Nat
  BY HttpAssumption
-----------------------------------------------------------------------------
\* The server's steps and the breaks of the connection.
LEMMA ServerKeeps ==
  ASSUME HInv,
         \/ ServerSteps
         \/ \E n \in 0..Len(wire), how \in Ends : Break(n, how)
  PROVE  HInv'
<1> USE DEF HInv
<1>0. left \in Seq(Symbols) /\ Len(left) \in Nat /\ Len(wire) \in Nat
  <2>1. left \in Seq(Symbols) /\ wire \in Seq(Symbols)
    BY DEF HttpTypeOK
  <2>2. Len(left) \in Nat /\ Len(wire) \in Nat
    BY <2>1, LenProperties
  <2> QED
    BY <2>1, <2>2
<1>1. SUFFICES /\ wire' \in Seq(Symbols)
               /\ left' \in Seq(Symbols)
               /\ conn' \in {"asked", "open"} \cup Ends
               /\ UNCHANGED <<page, framing, client>>
  BY DEF HttpTypeOK, client, BodyOK, InBody
<1>2. CASE SendHead
  <2>1. <<"head">> \in Seq(Symbols)
    BY OtherSymbols
  <2> QED
    BY <1>2, <2>1, <1>0, SendsTyped DEF SendHead, client
<1>3. CASE \E n \in 1..Len(left) : SendBytes(n)
  <2>1. PICK n \in 1..Len(left) : SendBytes(n)
    BY <1>3
  <2>2. /\ SubSeq(left, 1, n) \in Seq(Symbols)
        /\ SubSeq(left, n + 1, Len(left)) \in Seq(Symbols)
    BY <1>0, Cuts
  <2>3. wire' \in Seq(Symbols)
    BY <2>1, <2>2, SendsTyped DEF SendBytes
  <2> QED
    BY <2>1, <2>2, <2>3 DEF SendBytes, client, HttpTypeOK
<1>4. CASE \E n \in 1..Len(left), e \in Extensions : SendChunk(n, e)
  <2>1. PICK n \in 1..Len(left), e \in Extensions : SendChunk(n, e)
    BY <1>4
  <2>2. /\ SubSeq(left, 1, n) \in Seq(Symbols)
        /\ SubSeq(left, n + 1, Len(left)) \in Seq(Symbols)
    BY <1>0, Cuts
  <2>3. <<Digit[n]>> \in Seq(Symbols) /\ <<"nl">> \in Seq(Symbols)
    BY <2>1, DigitSymbols, OtherSymbols DEF SendChunk
  <2>4. e \in Seq(Symbols)
    BY TextSymbols
  <2>5. <<Digit[n]>> \o e \o <<"nl">> \in Seq(Symbols)
    BY <2>3, <2>4, ConcatProperties
  <2>6. <<Digit[n]>> \o e \o <<"nl">> \o SubSeq(left, 1, n) \o <<"nl">>
            \in Seq(Symbols)
    BY <2>2, <2>3, <2>5, ConcatProperties
  <2>7. wire' \in Seq(Symbols)
    BY <2>1, <2>6, SendsTyped DEF SendChunk
  <2> QED
    BY <2>1, <2>2, <2>7 DEF SendChunk, client, HttpTypeOK
<1>5. CASE \E e \in Extensions : SendLast(e)
  <2>1. PICK e \in Extensions : SendLast(e)
    BY <1>5
  <2>2. /\ <<"0", "nl", "nl">> \in Seq(Symbols)
        /\ <<"0", "nl">> \in Seq(Symbols)
        /\ <<"nl", "nl">> \in Seq(Symbols)
    BY OtherSymbols
  <2>3. e \in Seq(Symbols)
    BY TextSymbols
  <2>4. <<"0", "nl">> \o e \o <<"nl", "nl">> \in Seq(Symbols)
    BY <2>2, <2>3, ConcatProperties
  <2>5. wire' \in Seq(Symbols)
    BY <2>1, <2>2, <2>4, SendsTyped DEF SendLast
  <2> QED
    BY <1>0, <2>1, <2>5 DEF SendLast, client, Ends
<1>6. CASE Finish
  BY <1>6, <1>0 DEF Finish, client, HttpTypeOK, Ends
<1>7. CASE \E n \in 0..Len(wire), how \in Ends : Break(n, how)
  <2>1. PICK n \in 0..Len(wire), how \in Ends : Break(n, how)
    BY <1>7
  <2>2. SubSeq(wire, 1, n) \in Seq(Symbols)
    BY <1>0, Cuts DEF HttpTypeOK
  <2> QED
    BY <1>0, <2>1, <2>2 DEF Break, client
<1> QED
  BY <1>2, <1>3, <1>4, <1>5, <1>6, <1>7 DEF ServerSteps

\* The ways a call ends.
LEMMA HangupTyped ==
  ASSUME Hangup
  PROVE  /\ left' \in Seq(Symbols)
         /\ wire' \in Seq(Symbols)
         /\ conn' \in Ends
         /\ UNCHANGED <<page, framing>>
  BY EmptySeq DEF Hangup, Ends

LEMMA FailKeeps ==
  ASSUME HInv, Fail
  PROVE  HInv'
  BY HangupTyped DEF HInv, HttpTypeOK, BodyOK, InBody, Fail

\* A step that writes keeps the limit and the type of what is written.
LEMMA WrittenTyped ==
  ASSUME HInv, InBody, NEW s \in Seq(Symbols), Written(s)
  PROVE  /\ part' \in [Kinds -> Seq(Symbols) \cup {None}]
         /\ part'[kind] \in Seq(Symbols)
         /\ kind = "memory" => Len(part'[kind]) <= MaxFetch
         /\ \A k \in Kinds : k # kind => part'[k] = part[k]
<1>1. part[kind] \in Seq(Symbols) /\ kind \in Kinds
  BY DEF HInv, BodyOK, HttpTypeOK
<1>2. /\ part[kind] \o s \in Seq(Symbols)
      /\ Len(part[kind] \o s) = Len(part[kind]) + Len(s)
  BY <1>1, ConcatProperties
<1>3. part \in [Kinds -> Seq(Symbols) \cup {None}]
  BY DEF HInv, HttpTypeOK
<1>4. part' = [part EXCEPT ![kind] = part[kind] \o s]
  BY DEF Written
<1>5. part'[kind] = part[kind] \o s
  BY <1>1, <1>3, <1>4
<1> QED
  BY <1>1, <1>2, <1>3, <1>4, <1>5 DEF Written
-----------------------------------------------------------------------------
LEMMA RequestKeeps ==
  ASSUME HInv, NEW k \in Kinds, NEW p \in Pages, NEW f \in Framings,
         Request(k, p, f)
  PROVE  HInv'
<1>1. p \in Seq(Symbols)
  BY TextSymbols
<1>2. <<>> \in Seq(Symbols)
  BY EmptySeq
<1> QED
  BY <1>1, <1>2 DEF HInv, HttpTypeOK, BodyOK, InBody, Request

LEMMA ReadHeadKeeps ==
  ASSUME HInv, ReadHead
  PROVE  HInv'
<1>1. CASE Fail
  BY <1>1, FailKeeps
<1>2. CASE ~Fail
  <2>1. /\ Consume(1)
        /\ part' = [part EXCEPT ![kind] = <<>>]
        /\ want' = ContentLength
        /\ pc' = BodyReader
        /\ UNCHANGED <<kind, dest, result>>
    BY <1>2 DEF ReadHead
  <2>2. wire' \in Seq(Symbols) /\ UNCHANGED <<page, framing, left, conn>>
    BY <2>1, Reads DEF HInv, Consume
  <2>3. ContentLength \in Nat
    BY TextSymbols DEF ContentLength, HInv, HttpTypeOK
  <2>4. BodyReader \in {"size", "store", "known", "until_close"}
    BY DEF BodyReader, HInv, HttpTypeOK, Framings
  <2>5. /\ part' \in [Kinds -> Seq(Symbols) \cup {None}]
        /\ part'[kind] \in Seq(Symbols)
    BY <2>1, EmptySeq DEF HInv, HttpTypeOK
  <2> QED
    BY <2>1, <2>2, <2>3, <2>4, <2>5 DEF HInv, HttpTypeOK, BodyOK
<1> QED
  BY <1>1, <1>2

LEMMA DataKeeps ==
  ASSUME HInv, NEW state \in {"known", "data"}, NEW next \in {"store", "crlf"},
         Data(state, next)
  PROVE  HInv'
<1> DEFINE n == Min2(want, BufCap)
           s == Taken(n)
<1>1. n \in Nat /\ n <= want /\ want \in Nat
  BY BufferSizes DEF Min2, HInv, HttpTypeOK
<1>2. s \in Seq(Symbols) /\ Len(s) \in 0..n
  BY <1>1, Reads DEF HInv
<1>3. CASE Fail
  BY <1>3, FailKeeps
<1>4. CASE ~Fail
  <2>1. /\ pc = state
        /\ Written(s)
        /\ Consume(n)
        /\ want' = want - Len(s)
        /\ pc' = IF want' = 0 THEN next ELSE state
        /\ UNCHANGED <<kind, dest, result>>
    BY <1>4 DEF Data
  <2>2. wire' \in Seq(Symbols) /\ UNCHANGED <<page, framing, left, conn>>
    BY <1>1, <2>1, Reads DEF HInv, Consume
  <2>3. want' \in Nat
    BY <1>1, <1>2, <2>1
  <2>4. /\ part' \in [Kinds -> Seq(Symbols) \cup {None}]
        /\ part'[kind] \in Seq(Symbols)
    BY <1>2, <2>1, WrittenTyped DEF InBody
  <2> QED
    BY <2>1, <2>2, <2>3, <2>4 DEF HInv, HttpTypeOK, BodyOK
<1> QED
  BY <1>3, <1>4

LEMMA UntilCloseKeeps ==
  ASSUME HInv, ReadUntilClose
  PROVE  HInv'
<1> DEFINE s == Taken(BufCap)
<1>1. s \in Seq(Symbols)
  BY BufferSizes, Reads DEF HInv
<1>2. CASE Fail
  BY <1>2, FailKeeps
<1>3. CASE ~Fail
  <2>1. /\ pc = "until_close"
        /\ Written(s)
        /\ Consume(BufCap)
        /\ pc' \in {"store", "until_close"}
        /\ UNCHANGED <<kind, want, dest, result>>
    BY <1>3 DEF ReadUntilClose
  <2>2. wire' \in Seq(Symbols) /\ UNCHANGED <<page, framing, left, conn>>
    BY BufferSizes, <2>1, Reads DEF HInv, Consume
  <2>3. /\ part' \in [Kinds -> Seq(Symbols) \cup {None}]
        /\ part'[kind] \in Seq(Symbols)
    BY <1>1, <2>1, WrittenTyped DEF InBody
  <2> QED
    BY <2>1, <2>2, <2>3 DEF HInv, HttpTypeOK, BodyOK
<1> QED
  BY <1>2, <1>3

\* LineLen is the first line end.
LEMMA FirstLineEnd ==
  ASSUME HttpTypeOK, LineEnds # {}
  PROVE  /\ LineLen \in LineEnds /\ LineLen \in 1..Len(wire) /\ LineLen \in Nat
         /\ \A j \in LineEnds : LineLen <= j
<1>1. Len(wire) \in Nat
  BY LenProperties DEF HttpTypeOK
<1>2. LineEnds \subseteq Nat /\ LineEnds \subseteq 1..Len(wire)
  BY <1>1, BufferSizes DEF LineEnds, Min2
<1>3. PICK i \in LineEnds : \A j \in LineEnds : <<j, i>> \notin OpToRel(<, Nat)
  BY <1>2, NatLessThanWellFounded, WFMin
<1>4. \A j \in LineEnds : i <= j
  <2> SUFFICES ASSUME NEW j \in LineEnds, j < i
               PROVE  FALSE
    BY <1>2
  <2>1. <<j, i>> \in Nat \X Nat /\ <<j, i>>[1] < <<j, i>>[2]
    BY <1>2
  <2>2. <<j, i>> \in OpToRel(<, Nat)
    BY <2>1 DEF OpToRel
  <2> QED
    BY <1>3, <2>2
<1>5. LineLen \in LineEnds /\ \A j \in LineEnds : LineLen <= j
  BY <1>4 DEF LineLen
<1> QED
  BY <1>2, <1>5

LEMMA LineKeeps ==
  ASSUME HInv, NEW n \in Nat,
         NEW state \in {"size", "crlf", "last"},
         NEW next \in {"size", "data", "last", "store"},
         ReadLine(state, next, n)
  PROVE  HInv'
<1>1. CASE Fail
  BY <1>1, FailKeeps
<1>2. CASE ~Fail
  <2>1. /\ pc = state
        /\ LineEnds # {}
        /\ Consume(LineLen)
        /\ want' = n
        /\ pc' = next
        /\ UNCHANGED <<kind, part, dest, result>>
    BY <1>2 DEF ReadLine
  <2>2. LineLen \in Nat
    BY <2>1, FirstLineEnd DEF HInv
  <2>3. wire' \in Seq(Symbols) /\ UNCHANGED <<page, framing, left, conn>>
    BY <2>1, <2>2, Reads DEF HInv, Consume
  <2> QED
    BY <2>1, <2>3 DEF HInv, HttpTypeOK, BodyOK, InBody
<1> QED
  BY <1>1, <1>2

LEMMA StoreKeeps ==
  ASSUME HInv, Store
  PROVE  HInv'
<1>1. CASE Fail
  BY <1>1, FailKeeps
<1>2. CASE ~Fail
  <2>1. /\ pc = "store" /\ pc' = "idle"
        /\ dest' = part[kind]
        /\ part' = [part EXCEPT ![kind] = None]
        /\ want' = 0
        /\ result' = "ok"
        /\ Hangup
        /\ UNCHANGED kind
    BY <1>2 DEF Store
  <2> QED
    BY <2>1, HangupTyped DEF HInv, HttpTypeOK, BodyOK, InBody
<1> QED
  BY <1>1, <1>2

LEMMA KillKeeps ==
  ASSUME HInv, Kill
  PROVE  HInv'
  BY HangupTyped DEF HInv, HttpTypeOK, BodyOK, InBody, Kill

\* The reader of each state is one of the four kinds above.
LEMMA ClientKeeps ==
  ASSUME HInv, ClientSteps
  PROVE  HInv'
<1>1. CASE ReadHead
  BY <1>1, ReadHeadKeeps
<1>2. CASE ReadKnown
  BY <1>2, DataKeeps DEF ReadKnown
<1>3. CASE ReadChunk
  BY <1>3, DataKeeps DEF ReadChunk
<1>4. CASE ReadSize
  <2> DEFINE n == SizeOf(wire[1])
  <2>1. n \in Nat
    BY SizeTyped
  <2>2. ReadLine("size", IF n = 0 THEN "last" ELSE "data", n)
    BY <1>4 DEF ReadSize
  <2>3. (IF n = 0 THEN "last" ELSE "data") \in {"last", "data"}
    OBVIOUS
  <2> HIDE DEF n
  <2> QED
    BY <2>1, <2>2, <2>3, LineKeeps
<1>5. CASE ReadCrlf
  BY <1>5, LineKeeps DEF ReadCrlf
<1>6. CASE ReadLast
  BY <1>6, LineKeeps DEF ReadLast
<1>7. CASE ReadUntilClose
  BY <1>7, UntilCloseKeeps
<1>8. CASE Store
  BY <1>8, StoreKeeps
<1> QED
  BY <1>1, <1>2, <1>3, <1>4, <1>5, <1>6, <1>7, <1>8 DEF ClientSteps
-----------------------------------------------------------------------------
LEMMA HInvInit == HttpInit => HInv
<1> SUFFICES ASSUME HttpInit PROVE HInv
  OBVIOUS
<1>1. <<>> \in Seq(Symbols) /\ Len(<<>>) = 0
  BY EmptySeq
<1> QED
  BY <1>1 DEF HttpInit, HInv, HttpTypeOK, BodyOK, InBody, Ends

LEMMA HInvStep == HInv /\ [HttpNext]_httpVars => HInv'
<1> SUFFICES ASSUME HInv, [HttpNext]_httpVars PROVE HInv'
  OBVIOUS
<1>1. CASE \E k \in Kinds, p \in Pages, f \in Framings : Request(k, p, f)
  BY <1>1, RequestKeeps
<1>2. CASE \/ ServerSteps
           \/ \E n \in 0..Len(wire), how \in Ends : Break(n, how)
  BY <1>2, ServerKeeps
<1>3. CASE ClientSteps
  BY <1>3, ClientKeeps
<1>4. CASE NoBody
  BY <1>4, FailKeeps DEF NoBody
<1>5. CASE Kill
  BY <1>5, KillKeeps
<1>6. CASE UNCHANGED httpVars
  BY <1>6 DEF httpVars, server, client, HInv, HttpTypeOK, BodyOK, InBody
<1> QED
  BY <1>1, <1>2, <1>3, <1>4, <1>5, <1>6 DEF HttpNext

\* What every reachable state of a transfer satisfies.
LEMMA HInvHolds == HttpSpec => []HInv
<1> QED
  BY HInvInit, HInvStep, PTL DEF HttpSpec

\* Every reachable state is well typed, for any pages and any buffer sizes.
THEOREM HttpTypeCorrect == HttpSpec => []HttpTypeOK
<1>1. HInv => HttpTypeOK
  BY DEF HInv
<1> QED
  BY <1>1, HInvHolds, PTL
-----------------------------------------------------------------------------
\* The buffer of a fetch exists during a fetch only, and keeps to its limit.
Bounded ==
    /\ FetchBounded
    /\ InBody /\ kind = "memory" => Len(part["memory"]) <= MaxFetch
    /\ pc = "idle" \/ kind = "file" => part["memory"] = None

\* Only the calls write and hand over, and Fail, Store and Kill drop the buffer.
LEMMA OthersQuiet ==
  ASSUME \/ ServerSteps
         \/ \E n \in 0..Len(wire), how \in Ends : Break(n, how)
         \/ UNCHANGED httpVars
  PROVE  UNCHANGED client
  BY DEF ServerSteps, SendHead, SendBytes, SendChunk, SendLast, Finish, Break,
         httpVars, client

\* A step of a call writes to its file or its buffer, returns, or does neither.
Writes == \E s \in Seq(Symbols) : Written(s)

LEMMA CallSteps ==
  ASSUME HInv, ClientSteps
  PROVE  \/ Fail
         \/ ReadHead /\ part' = [part EXCEPT ![kind] = <<>>] /\ pc' # "idle"
         \/ InBody /\ Writes /\ pc' # "idle"
         \/ Store
         \/ UNCHANGED part /\ pc' # "idle"
<1> SUFFICES ASSUME ~Fail
             PROVE  \/ ReadHead /\ part' = [part EXCEPT ![kind] = <<>>] /\ pc' # "idle"
                    \/ InBody /\ Writes /\ pc' # "idle"
                    \/ Store
                    \/ UNCHANGED part /\ pc' # "idle"
  OBVIOUS
<1>1. CASE ReadHead
  <2>1. part' = [part EXCEPT ![kind] = <<>>] /\ pc' = BodyReader
    BY <1>1 DEF ReadHead
  <2>2. BodyReader # "idle"
    BY DEF BodyReader, HInv, HttpTypeOK, Framings
  <2> QED
    BY <1>1, <2>1, <2>2
<1>2. ASSUME NEW state \in {"known", "data"}, NEW next \in {"store", "crlf"},
             Data(state, next)
      PROVE  InBody /\ Writes /\ pc' # "idle"
  <2> DEFINE n == Min2(want, BufCap)
             s == Taken(n)
  <2>1. n \in Nat
    BY BufferSizes DEF Min2, HInv, HttpTypeOK
  <2>2. s \in Seq(Symbols)
    BY <2>1, Reads DEF HInv
  <2>3. pc = state /\ Written(s) /\ pc' \in {state, next}
    BY <1>2 DEF Data
  <2> QED
    BY <2>2, <2>3 DEF InBody, Writes
<1>3. CASE ReadUntilClose
  <2>1. Taken(BufCap) \in Seq(Symbols)
    BY BufferSizes, Reads DEF HInv
  <2>2. /\ pc = "until_close" /\ pc' \in {"store", "until_close"}
        /\ Written(Taken(BufCap))
    BY <1>3 DEF ReadUntilClose
  <2> QED
    BY <2>1, <2>2 DEF InBody, Writes
<1>4. CASE ReadSize \/ ReadCrlf \/ ReadLast
  <2>1. UNCHANGED part /\ pc' \in {"last", "data", "size", "store"}
    BY <1>4 DEF ReadSize, ReadCrlf, ReadLast, ReadLine
  <2> QED
    BY <2>1
<1> QED
  BY <1>1, <1>2, <1>3, <1>4 DEF ClientSteps, ReadKnown, ReadChunk

LEMMA BoundedStep ==
  ASSUME HInv, Bounded, [HttpNext]_httpVars
  PROVE  Bounded'
<1> USE DEF Bounded, FetchBounded, InBody
<1>0. /\ part \in [Kinds -> Seq(Symbols) \cup {None}]
      /\ kind \in Kinds /\ Kinds = {"file", "memory"}
  BY DEF HInv, HttpTypeOK, Kinds
<1>1. CASE \E k \in Kinds, p \in Pages, f \in Framings : Request(k, p, f)
  <2>1. pc' = "headers" /\ part' = part /\ pc = "idle"
    BY <1>1 DEF Request
  <2>2. dest' = IF kind' = "memory" THEN None ELSE dest
    BY <1>1 DEF Request
  <2> QED
    BY <2>1, <2>2
<1>2. CASE \/ ServerSteps
           \/ \E n \in 0..Len(wire), how \in Ends : Break(n, how)
           \/ UNCHANGED httpVars
  BY <1>2, OthersQuiet DEF client
<1>3. CASE Fail
  <2>1. /\ part' = [part EXCEPT ![kind] = None] /\ pc' = "idle"
        /\ UNCHANGED <<kind, dest>>
    BY <1>3 DEF Fail
  <2> QED
    BY <1>0, <2>1
<1>4. CASE ClientSteps /\ ~Fail
  <2>1. CASE ReadHead /\ part' = [part EXCEPT ![kind] = <<>>] /\ pc' # "idle"
    <3>1. UNCHANGED <<kind, dest>>
      BY <1>4, <2>1 DEF ReadHead
    <3>2. Len(<<>>) <= MaxFetch
      BY EmptySeq, HttpAssumption
    <3> QED
      BY <1>0, <2>1, <3>1, <3>2
  <2>2. CASE InBody /\ Writes /\ pc' # "idle"
    <3>1. UNCHANGED <<kind, dest>>
      BY <1>4, <2>2 DEF ClientSteps, ReadHead, ReadKnown, ReadSize, ReadChunk,
           ReadCrlf, ReadLast, ReadUntilClose, Data, ReadLine, Store, InBody
    <3>2. PICK s \in Seq(Symbols) : Written(s)
      BY <2>2 DEF Writes
    <3>3. /\ kind = "memory" => Len(part'[kind]) <= MaxFetch
          /\ \A k \in Kinds : k # kind => part'[k] = part[k]
      BY <2>2, <3>2, WrittenTyped
    <3> QED
      BY <1>0, <2>2, <3>1, <3>3
  <2>3. CASE Store
    <3>1. /\ dest' = part[kind] /\ pc = "store" /\ pc' = "idle"
          /\ part' = [part EXCEPT ![kind] = None]
          /\ UNCHANGED kind
      BY <1>4, <2>3 DEF Store
    <3> QED
      BY <1>0, <3>1
  <2>4. CASE UNCHANGED part /\ pc' # "idle" /\ ~Store /\ ~ReadHead
    <3>1. UNCHANGED <<kind, dest>> /\ pc \notin {"idle", "headers"}
      BY <1>4, <2>4 DEF ClientSteps, ReadKnown, ReadSize, ReadChunk, ReadCrlf,
         ReadLast, ReadUntilClose, Data, ReadLine
    <3> QED
      BY <2>4, <3>1
  <2> QED
    <3>1. ReadHead => part' = [part EXCEPT ![kind] = <<>>]
      BY <1>4 DEF ReadHead
    <3>2. (pc = "headers" /\ ReadHead) \/ ~ReadHead
      BY DEF ReadHead
    <3> QED
      BY <1>4, <2>1, <2>2, <2>3, <2>4, <3>1, <3>2, CallSteps
<1>5. CASE NoBody
  BY <1>3, <1>5 DEF NoBody
<1>6. CASE Kill
  <2>1. part' = [part EXCEPT !["memory"] = None] /\ pc' = "idle"
        /\ UNCHANGED <<kind, dest>>
    BY <1>6 DEF Kill
  <2> QED
    BY <1>0, <2>1
<1> QED
  BY <1>1, <1>2, <1>3, <1>4, <1>5, <1>6 DEF HttpNext

LEMMA BoundedHolds == HttpSpec => []Bounded
<1>1. HttpInit => Bounded
  BY DEF HttpInit, Bounded, FetchBounded, Kinds, InBody
<1>2. HInv /\ Bounded /\ [HttpNext]_httpVars => Bounded'
  BY BoundedStep
<1> QED
  BY <1>1, <1>2, HInvHolds, PTL DEF HttpSpec

\* No fetch holds or returns more than its limit
\* (http_transport_socket.c:708-719).
THEOREM FetchKeepsLimit == HttpSpec => []FetchBounded
<1>1. Bounded => FetchBounded
  BY DEF Bounded
<1> QED
  BY <1>1, BoundedHolds, PTL

\* A download that returned, however it ended, has left no .part file, not
\* even one of an earlier, killed call (http_transport_socket.c:690-701).
THEOREM NoPartStays == HttpSpec => []NoPartLeft
<1>1. HttpInit => NoPartLeft
  BY DEF HttpInit, NoPartLeft
<1>2. ASSUME HInv, NoPartLeft, [HttpNext]_httpVars
      PROVE  NoPartLeft'
  <2> USE DEF NoPartLeft
  <2>0. part \in [Kinds -> Seq(Symbols) \cup {None}] /\ kind \in Kinds
    BY <1>2 DEF HInv, HttpTypeOK
  <2>1. CASE \E k \in Kinds, p \in Pages, f \in Framings : Request(k, p, f)
    BY <2>1 DEF Request
  <2>2. CASE \/ ServerSteps
             \/ \E n \in 0..Len(wire), how \in Ends : Break(n, how)
             \/ UNCHANGED httpVars
    BY <1>2, <2>2, OthersQuiet DEF client
  <2>3. CASE Fail
    BY <2>0, <2>3 DEF Fail
  <2>4. CASE Store
    BY <2>0, <2>3, <2>4 DEF Store
  <2>5. CASE ClientSteps /\ ~Fail /\ ~Store
    BY <1>2, <2>5, CallSteps
  <2>6. CASE NoBody
    BY <2>3, <2>6 DEF NoBody
  <2>7. CASE Kill
    BY <2>7 DEF Kill
  <2> QED
    BY <1>2, <2>1, <2>2, <2>3, <2>4, <2>5, <2>6, <2>7 DEF HttpNext
<1> QED
  BY <1>1, <1>2, HInvHolds, PTL DEF HttpSpec
-----------------------------------------------------------------------------
(***************************************************************************)
(* What is under way in chunks.  A mark is a position w[p] of the wire     *)
(* where a chunk begins, and O[p] how much of the page comes before it.    *)
(* The connection may have broken, so positions behind the end of the wire *)
(* are marked as well, and nothing is known of them.                       *)
(***************************************************************************)

\* w holds, d symbols on, n symbols of page pg from off on and a line end,
\* behind which there is a mark.
RestAt(O, w, pg, d, off, n) ==
    /\ off + n <= Len(pg)
    /\ \A i \in 1..n : d + i <= Len(w) => w[d + i] = pg[off + i]
    /\ d + n + 1 <= Len(w) => w[d + n + 1] = "nl"
    /\ d + n + 2 \in DOMAIN O
    /\ O[d + n + 2] = off + n

\* At p is the size n of a chunk in a line of e more symbols.
SizeAt(w, p, n, e) ==
    /\ w[p] = Digit[n]
    /\ \A i \in (p + 1)..(p + e) : i <= Len(w) => w[i] # "nl"
    /\ p + e + 1 <= Len(w) => w[p + e + 1] = "nl"

ChunkAt(O, w, pg, p) ==
    \E n \in DOMAIN Digit, e \in Nat :
        SizeAt(w, p, n, e) /\ RestAt(O, w, pg, p + e + 1, O[p], n)

LastAt(O, w, pg, p) == w[p] = "0" /\ O[p] = Len(pg)

Marked(O, w, pg) ==
    /\ DOMAIN O \subseteq Nat \ {0}
    /\ \A p \in DOMAIN O : O[p] \in Nat
    /\ \A p \in DOMAIN O :
           p <= Len(w) => ChunkAt(O, w, pg, p) \/ LastAt(O, w, pg, p)

\* Nothing is under way in part, and sent symbols of the page came so far.
Complete(O, w, sent) ==
    \A p \in DOMAIN O : p <= Len(w) + 1 /\ (p = Len(w) + 1 => O[p] = sent)

LEMMA DigitNumbers == DOMAIN Digit = 1..9
  BY DEF Digit

\* Where two streams agree, they carry the same.
LEMMA RestSame ==
  ASSUME NEW O, NEW v \in Seq(Symbols), NEW w \in Seq(Symbols), NEW pg,
         NEW d \in Nat, NEW off \in Nat, NEW n \in Nat,
         RestAt(O, w, pg, d, off, n),
         \A i \in 1..(d + n + 1) : i <= Len(v) => i <= Len(w) /\ v[i] = w[i]
  PROVE  RestAt(O, v, pg, d, off, n)
<1>1. ASSUME NEW i \in 1..n, d + i <= Len(v)
      PROVE  v[d + i] = pg[off + i]
  <2>1. d + i \in 1..(d + n + 1)
    OBVIOUS
  <2>2. d + i <= Len(w) /\ v[d + i] = w[d + i]
    BY <1>1, <2>1
  <2> QED
    BY <2>2 DEF RestAt
<1>2. ASSUME d + n + 1 <= Len(v)
      PROVE  v[d + n + 1] = "nl"
  <2>1. d + n + 1 \in 1..(d + n + 1)
    OBVIOUS
  <2>2. d + n + 1 <= Len(w) /\ v[d + n + 1] = w[d + n + 1]
    BY <1>2, <2>1
  <2> QED
    BY <2>2 DEF RestAt
<1> QED
  BY <1>1, <1>2 DEF RestAt

LEMMA SizeSame ==
  ASSUME NEW v \in Seq(Symbols), NEW w \in Seq(Symbols),
         NEW p \in Nat \ {0}, NEW n, NEW e \in Nat,
         SizeAt(w, p, n, e), v[p] = w[p],
         \A i \in 1..(p + e + 1) : i <= Len(v) => i <= Len(w) /\ v[i] = w[i]
  PROVE  SizeAt(v, p, n, e)
<1>1. ASSUME NEW i \in (p + 1)..(p + e), i <= Len(v)
      PROVE  v[i] # "nl"
  <2>1. i \in 1..(p + e + 1)
    OBVIOUS
  <2>2. i <= Len(w) /\ v[i] = w[i]
    BY <1>1, <2>1
  <2> QED
    BY <2>2 DEF SizeAt
<1>2. ASSUME p + e + 1 <= Len(v)
      PROVE  v[p + e + 1] = "nl"
  <2>1. p + e + 1 \in 1..(p + e + 1)
    OBVIOUS
  <2>2. p + e + 1 <= Len(w) /\ v[p + e + 1] = w[p + e + 1]
    BY <1>2, <2>1
  <2> QED
    BY <2>2 DEF SizeAt
<1> QED
  BY <1>1, <1>2 DEF SizeAt

\* The wire is cut off at n.
LEMMA MarksCut ==
  ASSUME NEW O, NEW w \in Seq(Symbols), NEW pg \in Seq(Symbols), NEW n \in 0..Len(w)
  PROVE  /\ Marked(O, w, pg) => Marked(O, SubSeq(w, 1, n), pg)
         /\ \A d, off, k \in Nat : RestAt(O, w, pg, d, off, k) =>
                RestAt(O, SubSeq(w, 1, n), pg, d, off, k)
<1> DEFINE v == SubSeq(w, 1, n)
<1>1. Len(w) \in Nat /\ v \in Seq(Symbols) /\ Len(v) = n
  BY LenProperties, Cuts
<1>2. \A i \in 1..n : i <= Len(w) /\ v[i] = w[i]
  <2>1. \A i \in 1..n : w[i] \in Symbols
    BY <1>1, ElementOfSeq
  <2> QED
    BY <1>1, <2>1, SubSeqProperties
<1> HIDE DEF v
<1>3. ASSUME NEW d \in Nat, NEW off \in Nat, NEW k \in Nat,
             RestAt(O, w, pg, d, off, k)
      PROVE  RestAt(O, v, pg, d, off, k)
  BY <1>1, <1>2, <1>3, RestSame
<1>4. ASSUME Marked(O, w, pg), NEW p \in DOMAIN O, p <= n
      PROVE  ChunkAt(O, v, pg, p) \/ LastAt(O, v, pg, p)
  <2>1. p \in Nat \ {0} /\ O[p] \in Nat /\ v[p] = w[p]
    BY <1>2, <1>4 DEF Marked
  <2>2. CASE LastAt(O, w, pg, p)
    BY <2>1, <2>2 DEF LastAt
  <2>3. CASE ChunkAt(O, w, pg, p)
    <3>1. PICK k \in DOMAIN Digit, e \in Nat :
              SizeAt(w, p, k, e) /\ RestAt(O, w, pg, p + e + 1, O[p], k)
      BY <2>3 DEF ChunkAt
    <3>2. \A i \in 1..(p + e + 1) : i <= Len(v) => i <= Len(w) /\ v[i] = w[i]
      BY <1>1, <1>2
    <3>3. SizeAt(v, p, k, e)
      BY <1>1, <2>1, <3>1, <3>2, SizeSame
    <3>4. RestAt(O, v, pg, p + e + 1, O[p], k)
      BY <1>3, <2>1, <3>1, DigitNumbers
    <3> QED
      BY <3>3, <3>4 DEF ChunkAt
  <2>4. p <= Len(w)
    BY <1>1, <1>4, <2>1
  <2> QED
    BY <1>4, <2>2, <2>3, <2>4 DEF Marked
<1>5. Marked(O, w, pg) => Marked(O, v, pg)
  BY <1>1, <1>4 DEF Marked
<1> QED
  BY <1>3, <1>5 DEF v

\* More is sent behind what is complete.
LEMMA MarksGrow ==
  ASSUME NEW O, NEW w \in Seq(Symbols), NEW t \in Seq(Symbols),
         NEW pg \in Seq(Symbols), NEW sent, Complete(O, w, sent),
         DOMAIN O \subseteq Nat \ {0}
  PROVE  /\ \A d, off, k \in Nat : RestAt(O, w, pg, d, off, k) =>
                RestAt(O, w \o t, pg, d, off, k)
         /\ Marked(O, w, pg) =>
                \A p \in DOMAIN O : p <= Len(w) =>
                    ChunkAt(O, w \o t, pg, p) \/ LastAt(O, w \o t, pg, p)
<1> DEFINE v == w \o t
<1>1. Len(w) \in Nat /\ Len(t) \in Nat /\ v \in Seq(Symbols)
  BY LenProperties, ConcatProperties
<1>2. Len(v) = Len(w) + Len(t) /\ \A i \in 1..Len(w) : v[i] = w[i]
  BY <1>1, ConcatProperties
<1> HIDE DEF v
<1>3. ASSUME NEW d \in Nat, NEW off \in Nat, NEW k \in Nat,
             RestAt(O, w, pg, d, off, k)
      PROVE  RestAt(O, v, pg, d, off, k)
  <2>1. d + k + 2 <= Len(w) + 1
    BY <1>3 DEF RestAt, Complete
  <2>2. \A i \in 1..(d + k + 1) : i <= Len(w) /\ v[i] = w[i]
    BY <1>1, <1>2, <2>1
  <2> QED
    BY <1>1, <1>3, <2>2, RestSame
<1>4. ASSUME Marked(O, w, pg), NEW p \in DOMAIN O, p <= Len(w)
      PROVE  ChunkAt(O, v, pg, p) \/ LastAt(O, v, pg, p)
  <2>1. p \in Nat \ {0} /\ O[p] \in Nat /\ v[p] = w[p]
    BY <1>1, <1>2, <1>4 DEF Marked
  <2>2. CASE LastAt(O, w, pg, p)
    BY <2>1, <2>2 DEF LastAt
  <2>3. CASE ChunkAt(O, w, pg, p)
    <3>1. PICK k \in DOMAIN Digit, e \in Nat :
              SizeAt(w, p, k, e) /\ RestAt(O, w, pg, p + e + 1, O[p], k)
      BY <2>3 DEF ChunkAt
    <3>2. k \in Nat /\ p + e + 1 \in Nat
      BY <2>1, <3>1, DigitNumbers
    <3>3. p + e + 1 + k + 2 <= Len(w) + 1
      BY <3>1, <3>2 DEF RestAt, Complete
    <3>4. \A i \in 1..(p + e + 1) : i <= Len(w) /\ v[i] = w[i]
      <4> SUFFICES ASSUME NEW i \in 1..(p + e + 1)
                   PROVE  i <= Len(w) /\ v[i] = w[i]
        OBVIOUS
      <4>1. i \in 1..Len(w)
        BY <1>1, <2>1, <3>2, <3>3
      <4> QED
        BY <1>2, <4>1
    <3>5. SizeAt(v, p, k, e)
      BY <1>1, <2>1, <3>1, <3>4, SizeSame
    <3>6. RestAt(O, v, pg, p + e + 1, O[p], k)
      BY <1>3, <2>1, <3>1, <3>2
    <3> QED
      BY <3>5, <3>6 DEF ChunkAt
  <2> QED
    BY <1>4, <2>2, <2>3 DEF Marked
<1> QED
  BY <1>3, <1>4 DEF v

\* The first c symbols are read.
Shifted(O, c) == [p \in {q \in Nat \ {0} : q + c \in DOMAIN O} |-> O[p + c]]

LEMMA MarksShift ==
  ASSUME NEW O, NEW w \in Seq(Symbols), NEW pg \in Seq(Symbols),
         NEW c \in 0..Len(w), Marked(O, w, pg)
  PROVE  /\ Marked(Shifted(O, c), SubSeq(w, c + 1, Len(w)), pg)
         /\ \A d, off, k \in Nat : c <= d /\ RestAt(O, w, pg, d, off, k) =>
                RestAt(Shifted(O, c), SubSeq(w, c + 1, Len(w)), pg, d - c, off, k)
         /\ \A sent : Complete(O, w, sent) =>
                Complete(Shifted(O, c), SubSeq(w, c + 1, Len(w)), sent)
         /\ \A p \in DOMAIN O : p > c =>
                p - c \in DOMAIN Shifted(O, c) /\ Shifted(O, c)[p - c] = O[p]
<1> DEFINE v == SubSeq(w, c + 1, Len(w))
           S == Shifted(O, c)
<1>1. Len(w) \in Nat /\ c \in Nat /\ v \in Seq(Symbols) /\ Len(v) = Len(w) - c
  BY LenProperties, Cuts
<1>2. \A i \in 1..Len(v) : v[i] = w[c + i]
  <2>1. \A i \in c + 1..Len(w) : w[i] \in Symbols
    BY <1>1, ElementOfSeq
  <2>2. \A i \in 1..Len(w) - (c + 1) + 1 : v[i] = w[c + 1 + i - 1]
    BY <1>1, <2>1, SubSeqProperties
  <2> QED
    BY <1>1, <2>2
<1>3. /\ DOMAIN S \subseteq Nat \ {0}
      /\ \A p \in Nat \ {0} : p \in DOMAIN S <=> p + c \in DOMAIN O
      /\ \A p \in DOMAIN S : S[p] = O[p + c]
  BY DEF Shifted
<1>4. DOMAIN O \subseteq Nat \ {0} /\ \A p \in DOMAIN O : O[p] \in Nat
  BY DEF Marked
<1>5. \A r \in DOMAIN S : S[r] \in Nat
  BY <1>4 DEF Shifted
<1> HIDE DEF v, S
<1>6. ASSUME NEW d \in Nat, NEW off \in Nat, NEW k \in Nat, c <= d,
             RestAt(O, w, pg, d, off, k)
      PROVE  RestAt(S, v, pg, d - c, off, k)
  <2>1. d - c + k + 2 \in Nat \ {0} /\ d - c + k + 2 + c = d + k + 2
    BY <1>1, <1>6
  <2>2. d - c + k + 2 \in DOMAIN S /\ S[d - c + k + 2] = off + k
    BY <1>3, <1>6, <2>1 DEF RestAt
  <2>3. \A i \in 1..k : d - c + i <= Len(v) => v[d - c + i] = pg[off + i]
    <3> SUFFICES ASSUME NEW i \in 1..k, d - c + i <= Len(v)
                 PROVE  v[d - c + i] = pg[off + i]
      OBVIOUS
    <3>1. d - c + i \in 1..Len(v) /\ c + (d - c + i) = d + i /\ d + i <= Len(w)
      BY <1>1, <1>6
    <3> QED
      BY <1>2, <1>6, <3>1 DEF RestAt
  <2>4. d - c + k + 1 <= Len(v) => v[d - c + k + 1] = "nl"
    <3> SUFFICES ASSUME d - c + k + 1 <= Len(v)
                 PROVE  v[d - c + k + 1] = "nl"
      OBVIOUS
    <3>1. /\ d - c + k + 1 \in 1..Len(v) /\ c + (d - c + k + 1) = d + k + 1
          /\ d + k + 1 <= Len(w)
      BY <1>1, <1>6
    <3> QED
      BY <1>2, <1>6, <3>1 DEF RestAt
  <2> QED
    BY <1>6, <2>2, <2>3, <2>4 DEF RestAt
<1>7. ASSUME NEW p \in DOMAIN S, p <= Len(v)
      PROVE  ChunkAt(S, v, pg, p) \/ LastAt(S, v, pg, p)
  <2>1. /\ p \in Nat \ {0} /\ p + c \in DOMAIN O /\ p + c \in Nat \ {0}
        /\ S[p] = O[p + c] /\ O[p + c] \in Nat
        /\ p + c <= Len(w) /\ v[p] = w[p + c]
    <3>1. /\ p \in Nat \ {0} /\ p + c \in DOMAIN O /\ p + c \in Nat \ {0}
          /\ S[p] = O[p + c] /\ O[p + c] \in Nat
      BY <1>1, <1>3, <1>4
    <3>2. p \in 1..Len(v) /\ c + p = p + c /\ p + c <= Len(w)
      BY <1>1, <1>7, <3>1
    <3> QED
      BY <1>2, <3>1, <3>2
  <2>2. CASE LastAt(O, w, pg, p + c)
    BY <2>1, <2>2 DEF LastAt
  <2>3. CASE ChunkAt(O, w, pg, p + c)
    <3>1. PICK k \in DOMAIN Digit, e \in Nat :
              /\ SizeAt(w, p + c, k, e)
              /\ RestAt(O, w, pg, p + c + e + 1, O[p + c], k)
      BY <2>3 DEF ChunkAt
    <3>2. k \in Nat
      BY <3>1, DigitNumbers
    <3>3. SizeAt(v, p, k, e)
      <4>1. v[p] = Digit[k]
        BY <2>1, <3>1 DEF SizeAt
      <4>2. ASSUME NEW i \in (p + 1)..(p + e), i <= Len(v)
            PROVE  v[i] # "nl"
        <5>1. /\ i \in 1..Len(v) /\ c + i \in (p + c + 1)..(p + c + e)
              /\ c + i <= Len(w)
          BY <1>1, <2>1, <4>2
        <5> QED
          BY <1>2, <3>1, <5>1 DEF SizeAt
      <4>3. ASSUME p + e + 1 <= Len(v)
            PROVE  v[p + e + 1] = "nl"
        <5>1. /\ p + e + 1 \in 1..Len(v) /\ c + (p + e + 1) = p + c + e + 1
              /\ p + c + e + 1 <= Len(w)
          BY <1>1, <2>1, <4>3
        <5> QED
          BY <1>2, <3>1, <5>1 DEF SizeAt
      <4> QED
        BY <4>1, <4>2, <4>3 DEF SizeAt
    <3>4. /\ p + c + e + 1 \in Nat /\ c <= p + c + e + 1
          /\ p + c + e + 1 - c = p + e + 1
      BY <1>1, <2>1
    <3>5. RestAt(S, v, pg, p + e + 1, S[p], k)
      BY <1>6, <2>1, <3>1, <3>2, <3>4
    <3> QED
      BY <3>1, <3>3, <3>5 DEF ChunkAt
  <2> QED
    BY <2>1, <2>2, <2>3 DEF Marked
<1>8. Marked(S, v, pg)
  BY <1>3, <1>5, <1>7 DEF Marked
<1>9. ASSUME NEW sent, Complete(O, w, sent)
      PROVE  Complete(S, v, sent)
  <2> SUFFICES ASSUME NEW p \in DOMAIN S
               PROVE  p <= Len(v) + 1 /\ (p = Len(v) + 1 => S[p] = sent)
    BY DEF Complete
  <2>1. p + c \in DOMAIN O /\ S[p] = O[p + c] /\ p \in Nat
    BY <1>3
  <2> QED
    BY <1>1, <1>9, <2>1 DEF Complete
<1>10. ASSUME NEW p \in DOMAIN O, p > c
       PROVE  p - c \in DOMAIN S /\ S[p - c] = O[p]
  <2>1. p - c \in Nat \ {0} /\ p - c + c = p
    BY <1>1, <1>4, <1>10
  <2> QED
    BY <1>3, <2>1
<1> QED
  BY <1>6, <1>8, <1>9, <1>10 DEF v, S

\* Marks that were there stay and say the same.
Extends(P, O) == DOMAIN O \subseteq DOMAIN P /\ \A p \in DOMAIN O : P[p] = O[p]

LEMMA MarksMore ==
  ASSUME NEW O, NEW P, Extends(P, O), NEW w, NEW pg
  PROVE  /\ \A d, off, k : RestAt(O, w, pg, d, off, k) => RestAt(P, w, pg, d, off, k)
         /\ \A p \in DOMAIN O : ChunkAt(O, w, pg, p) \/ LastAt(O, w, pg, p) =>
                ChunkAt(P, w, pg, p) \/ LastAt(P, w, pg, p)
<1>1. ASSUME NEW d, NEW off, NEW k, RestAt(O, w, pg, d, off, k)
      PROVE  RestAt(P, w, pg, d, off, k)
  BY <1>1 DEF RestAt, Extends
<1>2. ASSUME NEW p \in DOMAIN O, ChunkAt(O, w, pg, p)
      PROVE  ChunkAt(P, w, pg, p)
  <2>1. PICK n \in DOMAIN Digit, e \in Nat :
            SizeAt(w, p, n, e) /\ RestAt(O, w, pg, p + e + 1, O[p], n)
    BY <1>2 DEF ChunkAt
  <2>2. P[p] = O[p]
    BY DEF Extends
  <2>3. RestAt(P, w, pg, p + e + 1, P[p], n)
    BY <1>1, <2>1, <2>2
  <2> QED
    BY <2>1, <2>3 DEF ChunkAt
<1>3. ASSUME NEW p \in DOMAIN O, LastAt(O, w, pg, p)
      PROVE  LastAt(P, w, pg, p)
  BY <1>3 DEF LastAt, Extends
<1> QED
  BY <1>1, <1>2, <1>3

More(O, p, x) == [q \in DOMAIN O \cup {p} |-> IF q = p THEN x ELSE O[q]]

LEMMA MoreExtends ==
  ASSUME NEW O, DOMAIN O \subseteq Nat \ {0}, \A r \in DOMAIN O : O[r] \in Nat,
         NEW p \in Nat \ {0}, NEW x \in Nat, p \in DOMAIN O => O[p] = x
  PROVE  /\ Extends(More(O, p, x), O)
         /\ DOMAIN More(O, p, x) = DOMAIN O \cup {p}
         /\ More(O, p, x)[p] = x
         /\ \A r \in DOMAIN More(O, p, x) : More(O, p, x)[r] \in Nat
  BY DEF More, Extends

LEMMA Joined ==
  ASSUME NEW a \in Seq(Symbols), NEW b \in Seq(Symbols)
  PROVE  /\ a \o b \in Seq(Symbols)
         /\ Len(a \o b) = Len(a) + Len(b)
         /\ \A i \in 1..Len(a) : (a \o b)[i] = a[i]
         /\ \A i \in 1..Len(b) : (a \o b)[Len(a) + i] = b[i]
<1> DEFINE s == a \o b
<1>1. Len(a) \in Nat /\ Len(b) \in Nat
  BY LenProperties
<1>2. /\ s \in Seq(Symbols) /\ Len(s) = Len(a) + Len(b)
      /\ \A i \in 1..(Len(a) + Len(b)) :
             s[i] = IF i <= Len(a) THEN a[i] ELSE b[i - Len(a)]
  BY ConcatProperties
<1> HIDE DEF s
<1>3. ASSUME NEW i \in 1..Len(a)
      PROVE  s[i] = a[i]
  BY <1>1, <1>2
<1>4. ASSUME NEW i \in 1..Len(b)
      PROVE  s[Len(a) + i] = b[i]
  <2>1. /\ Len(a) + i \in 1..(Len(a) + Len(b)) /\ ~(Len(a) + i <= Len(a))
        /\ Len(a) + i - Len(a) = i
    BY <1>1
  <2> QED
    BY <1>2, <2>1
<1> QED
  BY <1>2, <1>3, <1>4 DEF s

\* The text of a chunk, symbol by symbol.
ChunkOf(c, e, b) == <<c>> \o e \o <<"nl">> \o b \o <<"nl">>

IsChunk(t, c, e, b) ==
    /\ t \in Seq(Symbols)
    /\ Len(t) = Len(e) + Len(b) + 3
    /\ t[1] = c
    /\ \A i \in 1..Len(e) : t[i + 1] = e[i]
    /\ t[Len(e) + 2] = "nl"
    /\ \A i \in 1..Len(b) : t[Len(e) + 2 + i] = b[i]
    /\ t[Len(e) + Len(b) + 3] = "nl"

LEMMA ChunkText ==
  ASSUME NEW c \in Symbols, NEW e \in Seq(Symbols), NEW b \in Seq(Symbols)
  PROVE  IsChunk(ChunkOf(c, e, b), c, e, b)
<1> DEFINE h == <<c>>
           x == <<"nl">>
           t1 == h \o e
           t2 == t1 \o x
           t3 == t2 \o b
           t == t3 \o x
<1>0. Len(e) \in Nat /\ Len(b) \in Nat
  BY LenProperties
<1>1. /\ h \in Seq(Symbols) /\ Len(h) = 1 /\ h[1] = c
      /\ x \in Seq(Symbols) /\ Len(x) = 1 /\ x[1] = "nl"
  BY OtherSymbols
<1> HIDE DEF h, x
<1>2. /\ t1 \in Seq(Symbols) /\ Len(t1) = Len(e) + 1
      /\ t1[1] = c /\ \A i \in 1..Len(e) : t1[1 + i] = e[i]
  <2>1. /\ t1 \in Seq(Symbols) /\ Len(t1) = Len(h) + Len(e)
        /\ \A i \in 1..Len(h) : t1[i] = h[i]
        /\ \A i \in 1..Len(e) : t1[Len(h) + i] = e[i]
    BY <1>1, Joined
  <2> HIDE DEF t1
  <2> QED
    BY <1>0, <1>1, <2>1
<1> HIDE DEF t1
<1>3. /\ t2 \in Seq(Symbols) /\ Len(t2) = Len(e) + 2
      /\ \A i \in 1..(Len(e) + 1) : t2[i] = t1[i]
      /\ t2[Len(e) + 2] = "nl"
  <2>1. /\ t2 \in Seq(Symbols) /\ Len(t2) = Len(t1) + Len(x)
        /\ \A i \in 1..Len(t1) : t2[i] = t1[i]
        /\ \A i \in 1..Len(x) : t2[Len(t1) + i] = x[i]
    BY <1>1, <1>2, Joined
  <2>2. t2[Len(t1) + 1] = "nl" /\ Len(t1) + 1 = Len(e) + 2
    BY <1>0, <1>1, <1>2, <2>1
  <2> QED
    BY <1>0, <1>1, <1>2, <2>1, <2>2
<1> HIDE DEF t2
<1>4. /\ t3 \in Seq(Symbols) /\ Len(t3) = Len(e) + 2 + Len(b)
      /\ \A i \in 1..(Len(e) + 2) : t3[i] = t2[i]
      /\ \A i \in 1..Len(b) : t3[Len(e) + 2 + i] = b[i]
  <2>1. /\ t3 \in Seq(Symbols) /\ Len(t3) = Len(t2) + Len(b)
        /\ \A i \in 1..Len(t2) : t3[i] = t2[i]
        /\ \A i \in 1..Len(b) : t3[Len(t2) + i] = b[i]
    BY <1>3, Joined
  <2> HIDE DEF t3
  <2> QED
    BY <1>3, <2>1
<1> HIDE DEF t3
<1>5. /\ t \in Seq(Symbols) /\ Len(t) = Len(e) + Len(b) + 3
      /\ \A i \in 1..(Len(e) + 2 + Len(b)) : t[i] = t3[i]
      /\ t[Len(e) + Len(b) + 3] = "nl"
  <2>1. /\ t \in Seq(Symbols) /\ Len(t) = Len(t3) + Len(x)
        /\ \A i \in 1..Len(t3) : t[i] = t3[i]
        /\ \A i \in 1..Len(x) : t[Len(t3) + i] = x[i]
    BY <1>1, <1>4, Joined
  <2>2. t[Len(t3) + 1] = "nl" /\ Len(t3) + 1 = Len(e) + Len(b) + 3
    BY <1>0, <1>1, <1>4, <2>1
  <2> QED
    BY <1>0, <1>1, <1>4, <2>1, <2>2
<1> HIDE DEF t
<1>6. \A i \in 1..(Len(e) + 1) : t[i] = t1[i]
  <2> SUFFICES ASSUME NEW i \in 1..(Len(e) + 1)
               PROVE  t[i] = t1[i]
    OBVIOUS
  <2>1. i \in 1..(Len(e) + 2) /\ i \in 1..(Len(e) + 2 + Len(b))
    BY <1>0
  <2> QED
    BY <1>3, <1>4, <1>5, <2>1
<1>7. t[1] = c /\ t[Len(e) + 2] = "nl"
  <2>1. /\ 1 \in 1..(Len(e) + 1)
        /\ Len(e) + 2 \in 1..(Len(e) + 2)
        /\ Len(e) + 2 \in 1..(Len(e) + 2 + Len(b))
    BY <1>0
  <2> QED
    BY <1>2, <1>3, <1>4, <1>5, <1>6, <2>1
<1>8. ASSUME NEW i \in 1..Len(e)
      PROVE  t[i + 1] = e[i]
  <2>1. i + 1 \in 1..(Len(e) + 1) /\ i + 1 = 1 + i
    BY <1>0
  <2> QED
    BY <1>2, <1>6, <2>1
<1>9. ASSUME NEW i \in 1..Len(b)
      PROVE  t[Len(e) + 2 + i] = b[i]
  <2>1. Len(e) + 2 + i \in 1..(Len(e) + 2 + Len(b))
    BY <1>0
  <2> QED
    BY <1>4, <1>5, <2>1
<1> QED
  BY <1>5, <1>7, <1>8, <1>9 DEF IsChunk, ChunkOf, t, t3, t2, t1, h, x

\* A chunk of n symbols more is sent.
LEMMA ChunkSent ==
  ASSUME NEW O, NEW w \in Seq(Symbols), NEW pg \in Seq(Symbols),
         NEW l \in Seq(Symbols), Len(l) <= Len(pg),
         \A i \in 1..Len(l) : l[i] = pg[Len(pg) - Len(l) + i],
         NEW n \in 1..Len(l), n \in DOMAIN Digit, NEW e \in Extensions,
         Marked(O, w, pg), Complete(O, w, Len(pg) - Len(l))
  PROVE  LET v == w \o (<<Digit[n]>> \o e \o <<"nl">> \o SubSeq(l, 1, n) \o <<"nl">>)
         IN  \E P : /\ Extends(P, O)
                    /\ Marked(P, v, pg)
                    /\ Complete(P, v, Len(pg) - (Len(l) - n))
                    /\ \A d, off, k \in Nat :
                           RestAt(O, w, pg, d, off, k) => RestAt(P, v, pg, d, off, k)
<1> DEFINE t == <<Digit[n]>> \o e \o <<"nl">> \o SubSeq(l, 1, n) \o <<"nl">>
           v == w \o t
           sent == Len(pg) - Len(l)
           p == Len(w) + 1
           q == Len(w) + Len(e) + n + 4
           P == More(More(O, p, sent), q, sent + n)
<1>1. /\ e \in Seq(Symbols) /\ \A i \in 1..Len(e) : e[i] # "nl"
  <2>1. e \in Seq(Symbols) /\ DOMAIN e = 1..Len(e)
    BY TextSymbols, LenProperties
  <2> QED
    BY <2>1, HttpAssumption
<1>2. /\ Len(w) \in Nat /\ Len(l) \in Nat /\ Len(pg) \in Nat /\ Len(e) \in Nat
      /\ n \in Nat /\ n >= 1 /\ n <= Len(l)
  BY <1>1, LenProperties
<1>3. /\ SubSeq(l, 1, n) \in Seq(Symbols) /\ Len(SubSeq(l, 1, n)) = n
      /\ \A i \in 1..n : SubSeq(l, 1, n)[i] = l[i]
  <2>1. \A i \in 1..n : l[i] \in Symbols
    BY <1>2, ElementOfSeq
  <2>2. SubSeq(l, 1, n) \in Seq(Symbols) /\ Len(SubSeq(l, 1, n)) = n
    BY <1>2, Cuts
  <2> QED
    BY <1>2, <2>1, <2>2, SubSeqProperties
<1>4. /\ t \in Seq(Symbols)
      /\ Len(t) = Len(e) + n + 3
      /\ t[1] = Digit[n]
      /\ \A i \in 1..Len(e) : t[i + 1] = e[i]
      /\ t[Len(e) + 2] = "nl"
      /\ \A i \in 1..n : t[Len(e) + 2 + i] = l[i]
      /\ t[Len(e) + n + 3] = "nl"
  <2> DEFINE b == SubSeq(l, 1, n)
             c == Digit[n]
  <2>1. c \in Symbols
    BY DigitSymbols
  <2>2. b \in Seq(Symbols) /\ Len(b) = n /\ \A i \in 1..n : b[i] = l[i]
    BY <1>3
  <2> HIDE DEF b, c
  <2>3. IsChunk(ChunkOf(c, e, b), c, e, b)
    BY <1>1, <2>1, <2>2, ChunkText
  <2>4. t = ChunkOf(c, e, b)
    BY DEF b, c, ChunkOf
  <2> HIDE DEF t
  <2> QED
    BY <2>2, <2>3, <2>4 DEF c, IsChunk
<1> HIDE DEF t
<1>5. /\ v \in Seq(Symbols) /\ Len(v) = Len(w) + Len(e) + n + 3
      /\ \A i \in 1..Len(t) : v[Len(w) + i] = t[i]
  <2>1. /\ v \in Seq(Symbols) /\ Len(v) = Len(w) + Len(t)
        /\ \A i \in 1..Len(t) : v[Len(w) + i] = t[i]
    BY <1>4, Joined
  <2> QED
    BY <1>2, <1>4, <2>1
<1>6. /\ DOMAIN O \subseteq Nat \ {0} /\ \A r \in DOMAIN O : O[r] \in Nat
      /\ sent \in Nat /\ p \in Nat \ {0} /\ q \in Nat \ {0} /\ p # q
      /\ p \in DOMAIN O => O[p] = sent
      /\ q \notin DOMAIN O
  <2>1. DOMAIN O \subseteq Nat \ {0} /\ \A r \in DOMAIN O : O[r] \in Nat
    BY DEF Marked
  <2>2. p \in DOMAIN O => O[p] = sent
    BY DEF Complete
  <2>3. q \notin DOMAIN O
    <3>1. ~(q <= Len(w) + 1)
      BY <1>2
    <3> QED
      BY <3>1 DEF Complete
  <2> QED
    BY <1>2, <2>1, <2>2, <2>3
<1>7. /\ Extends(P, O) /\ DOMAIN P = DOMAIN O \cup {p, q}
      /\ P[p] = sent /\ P[q] = sent + n /\ \A r \in DOMAIN P : P[r] \in Nat
  <2> DEFINE M == More(O, p, sent)
             N == More(M, q, sent + n)
  <2>1. /\ Extends(M, O) /\ DOMAIN M = DOMAIN O \cup {p} /\ M[p] = sent
        /\ \A r \in DOMAIN M : M[r] \in Nat
    <3>1. /\ DOMAIN O \subseteq Nat \ {0} /\ \A r \in DOMAIN O : O[r] \in Nat
          /\ sent \in Nat /\ p \in Nat \ {0}
          /\ p \in DOMAIN O => O[p] = sent
      BY <1>6
    <3> HIDE DEF p, q, sent
    <3>2. /\ Extends(More(O, p, sent), O)
          /\ DOMAIN More(O, p, sent) = DOMAIN O \cup {p}
          /\ More(O, p, sent)[p] = sent
          /\ \A r \in DOMAIN More(O, p, sent) : More(O, p, sent)[r] \in Nat
      BY <3>1, MoreExtends
    <3> QED
      BY <3>2 DEF M
  <2> HIDE DEF M
  <2>2. /\ Extends(N, M) /\ DOMAIN N = DOMAIN M \cup {q} /\ N[q] = sent + n
        /\ \A r \in DOMAIN N : N[r] \in Nat
    <3> DEFINE y == sent + n
    <3>1. /\ DOMAIN M \subseteq Nat \ {0} /\ \A r \in DOMAIN M : M[r] \in Nat
          /\ y \in Nat /\ q \in Nat \ {0} /\ q \notin DOMAIN M
      BY <1>2, <1>6, <2>1
    <3> HIDE DEF p, q, sent, y
    <3>2. /\ Extends(More(M, q, y), M)
          /\ DOMAIN More(M, q, y) = DOMAIN M \cup {q}
          /\ More(M, q, y)[q] = y
          /\ \A r \in DOMAIN More(M, q, y) : More(M, q, y)[r] \in Nat
      BY <3>1, MoreExtends
    <3> QED
      BY <3>2 DEF N, y
  <2> HIDE DEF N
  <2>3. P = N
    BY DEF N, M
  <2> HIDE DEF P, p, q, sent
  <2> QED
    BY <2>1, <2>2, <2>3 DEF Extends
<1> HIDE DEF P, v, sent, p, q
<1>8. RestAt(P, v, pg, p + Len(e) + 1, P[p], n)
  <2>1. sent + n <= Len(pg)
    BY <1>2 DEF sent
  <2>2. ASSUME NEW i \in 1..n
        PROVE  v[p + Len(e) + 1 + i] = pg[sent + i]
    <3>1. /\ Len(e) + 2 + i \in 1..Len(t) /\ i \in 1..Len(l)
          /\ p + Len(e) + 1 + i = Len(w) + (Len(e) + 2 + i)
          /\ sent + i = Len(pg) - Len(l) + i
      BY <1>2, <1>4 DEF p, sent
    <3>2. v[p + Len(e) + 1 + i] = t[Len(e) + 2 + i]
      BY <1>5, <3>1
    <3> QED
      BY <1>4, <3>1, <3>2
  <2>3. v[p + Len(e) + 1 + n + 1] = "nl"
    <3>1. /\ Len(e) + n + 3 \in 1..Len(t)
          /\ p + Len(e) + 1 + n + 1 = Len(w) + (Len(e) + n + 3)
      BY <1>2, <1>4 DEF p
    <3>2. v[p + Len(e) + 1 + n + 1] = t[Len(e) + n + 3]
      BY <1>5, <3>1
    <3> QED
      BY <1>4, <3>2
  <2>4. p + Len(e) + 1 + n + 2 = q
    BY <1>2 DEF p, q
  <2> QED
    BY <1>7, <2>1, <2>2, <2>3, <2>4 DEF RestAt
<1>9. SizeAt(v, p, n, Len(e))
  <2>1. v[p] = Digit[n]
    <3>1. 1 \in 1..Len(t) /\ p = Len(w) + 1
      BY <1>2, <1>4 DEF p
    <3> QED
      BY <1>4, <1>5, <3>1
  <2>2. ASSUME NEW i \in (p + 1)..(p + Len(e))
        PROVE  v[i] # "nl"
    <3> DEFINE j == i - p
    <3>1. /\ j \in 1..Len(e) /\ j + 1 \in 1..Len(t) /\ i = Len(w) + (j + 1)
      BY <1>2, <1>4 DEF p
    <3> HIDE DEF j
    <3>2. v[i] = t[j + 1]
      BY <1>5, <3>1
    <3> QED
      BY <1>1, <1>4, <3>1, <3>2
  <2>3. v[p + Len(e) + 1] = "nl"
    <3>1. Len(e) + 2 \in 1..Len(t) /\ p + Len(e) + 1 = Len(w) + (Len(e) + 2)
      BY <1>2, <1>4 DEF p
    <3>2. v[p + Len(e) + 1] = t[Len(e) + 2]
      BY <1>5, <3>1
    <3> QED
      BY <1>4, <3>2
  <2> QED
    BY <2>1, <2>2, <2>3 DEF SizeAt
<1>10. ChunkAt(P, v, pg, p)
  BY <1>2, <1>8, <1>9 DEF ChunkAt
<1>11. /\ \A d, off, k \in Nat :
              RestAt(O, w, pg, d, off, k) => RestAt(O, v, pg, d, off, k)
       /\ \A r \in DOMAIN O : r <= Len(w) =>
              ChunkAt(O, v, pg, r) \/ LastAt(O, v, pg, r)
  BY <1>4, <1>6, MarksGrow DEF v, sent
<1>12. Marked(P, v, pg)
  <2> SUFFICES ASSUME NEW r \in DOMAIN P, r <= Len(v)
               PROVE  ChunkAt(P, v, pg, r) \/ LastAt(P, v, pg, r)
    BY <1>6, <1>7 DEF Marked
  <2>1. CASE r = p
    BY <1>10, <2>1
  <2>2. CASE r # p
    <3>1. r # q
      BY <1>2, <1>5 DEF q
    <3>2. r \in DOMAIN O /\ r \in Nat
      BY <1>6, <1>7, <2>2, <3>1
    <3>3. r <= Len(w) + 1
      BY <3>2 DEF Complete
    <3>4. r <= Len(w)
      BY <1>2, <2>2, <3>2, <3>3 DEF p
    <3> QED
      BY <1>7, <1>11, <3>2, <3>4, MarksMore
  <2> QED
    BY <2>1, <2>2
<1>13. Complete(P, v, Len(pg) - (Len(l) - n))
  <2> SUFFICES ASSUME NEW r \in DOMAIN P
               PROVE  r <= Len(v) + 1
                      /\ (r = Len(v) + 1 => P[r] = Len(pg) - (Len(l) - n))
    BY DEF Complete
  <2>1. CASE r = q
    BY <1>2, <1>5, <1>7, <2>1 DEF q, sent
  <2>2. CASE r = p
    BY <1>2, <1>5, <2>2 DEF p
  <2>3. CASE r \in DOMAIN O
    <3>1. r \in Nat /\ r <= Len(w) + 1
      BY <1>6, <2>3 DEF Complete
    <3> QED
      BY <1>2, <1>5, <3>1
  <2> QED
    BY <1>7, <2>1, <2>2, <2>3
<1> QED
  BY <1>7, <1>11, <1>12, <1>13, MarksMore DEF v, t

\* The end of the body is sent.
LEMMA LastSent ==
  ASSUME NEW O, NEW w \in Seq(Symbols), NEW pg \in Seq(Symbols),
         NEW t \in Seq(Symbols), Len(t) > 0, t[1] = "0",
         Marked(O, w, pg), Complete(O, w, Len(pg))
  PROVE  /\ Marked(O, w \o t, pg)
         /\ \A d, off, k \in Nat :
                RestAt(O, w, pg, d, off, k) => RestAt(O, w \o t, pg, d, off, k)
<1> DEFINE v == w \o t
<1>1. Len(w) \in Nat /\ Len(t) \in Nat
  BY LenProperties
<1>2. v \in Seq(Symbols) /\ v[Len(w) + 1] = "0"
  <2>1. v \in Seq(Symbols) /\ \A i \in 1..Len(t) : v[Len(w) + i] = t[i]
    BY Joined
  <2> HIDE DEF v
  <2> QED
    BY <1>1, <2>1
<1>3. DOMAIN O \subseteq Nat \ {0} /\ \A p \in DOMAIN O : O[p] \in Nat
  BY DEF Marked
<1>4. /\ \A d, off, k \in Nat :
             RestAt(O, w, pg, d, off, k) => RestAt(O, v, pg, d, off, k)
      /\ \A p \in DOMAIN O : p <= Len(w) =>
             ChunkAt(O, v, pg, p) \/ LastAt(O, v, pg, p)
  BY <1>3, MarksGrow
<1> HIDE DEF v
<1>5. ASSUME NEW p \in DOMAIN O
      PROVE  ChunkAt(O, v, pg, p) \/ LastAt(O, v, pg, p)
  <2>1. p \in Nat /\ p <= Len(w) + 1 /\ (p = Len(w) + 1 => O[p] = Len(pg))
    BY <1>3 DEF Complete
  <2>2. CASE p <= Len(w)
    BY <1>4, <2>2
  <2>3. CASE p = Len(w) + 1
    BY <1>2, <2>1, <2>3 DEF LastAt
  <2> QED
    BY <1>1, <2>1, <2>2, <2>3
<1>6. Marked(O, v, pg)
  BY <1>3, <1>5 DEF Marked
<1> QED
  BY <1>4, <1>6 DEF v
-----------------------------------------------------------------------------
(***************************************************************************)
(* The client and what is under way.  Done symbols of the page are         *)
(* written, and before Begin is what the client reads before the body.     *)
(***************************************************************************)
Begin == IF pc = "headers" THEN 1 ELSE 0
Done == IF pc = "headers" THEN 0 ELSE Len(part[kind])
Sent == Len(page) - Len(left)

\* The server sends the page from the front.
ServerOK ==
    /\ conn = "asked" => pc = "headers" /\ wire = <<>> /\ left = page
    /\ conn \in {"asked", "open"} =>
           /\ Len(left) <= Len(page)
           /\ \A i \in 1..Len(left) : left[i] = page[Sent + i]

\* What is written is the page from the front, at an announced end all of it.
BodyKept ==
    InBody =>
        /\ Len(part[kind]) <= Len(page)
        /\ \A i \in 1..Len(part[kind]) : part[kind][i] = page[i]
        /\ pc \in {"last", "store"} /\ framing # "close" =>
               Len(part[kind]) = Len(page)

ReaderOK ==
    /\ pc \in {"size", "data", "crlf", "last"} => framing = "chunked"
    /\ pc = "known" => framing = "length" /\ want = Len(page) - Done
    /\ pc = "until_close" => framing = "close"

\* Without chunks, the page goes on behind what is written.
PlainStream ==
    framing # "chunked" /\ pc \in {"headers", "known", "until_close"}
    /\ conn # "asked" =>
        /\ Done + Len(wire) - Begin <= Len(page)
        /\ \A i \in 1..(Len(wire) - Begin) : wire[Begin + i] = page[Done + i]
        /\ conn = "open" => Begin <= Len(wire) /\ Sent = Done + Len(wire) - Begin

\* With chunks, it does so where the client takes a chunk to begin.
ChunkMarks(O) ==
    /\ Marked(O, wire, page)
    /\ conn = "open" => Complete(O, wire, Sent)
    /\ pc = "headers" => 2 \in DOMAIN O /\ O[2] = 0
    /\ pc = "size" => 1 \in DOMAIN O /\ O[1] = Done
    /\ pc \in {"data", "crlf"} => RestAt(O, wire, page, 0, Done, want)
    /\ pc = "crlf" => want = 0

ChunkStream ==
    framing = "chunked" /\ pc \in {"headers", "size", "data", "crlf"}
    /\ conn # "asked" => \E O : ChunkMarks(O)

SInv == ServerOK /\ BodyKept /\ ReaderOK /\ PlainStream /\ ChunkStream
-----------------------------------------------------------------------------
\* The lengths that occur are numbers.
LEMMA StreamTypes ==
  ASSUME HInv
  PROVE  /\ page \in Seq(Symbols) /\ left \in Seq(Symbols) /\ wire \in Seq(Symbols)
         /\ Len(page) \in Nat /\ Len(left) \in Nat /\ Len(wire) \in Nat
         /\ want \in Nat /\ Sent \in Int /\ Sent = Len(page) - Len(left)
         /\ pc # "idle" => Done \in Nat
         /\ InBody => part[kind] \in Seq(Symbols) /\ Len(part[kind]) \in Nat
<1>1. page \in Seq(Symbols)
  BY TextSymbols DEF HInv, HttpTypeOK
<1>2. left \in Seq(Symbols) /\ wire \in Seq(Symbols) /\ want \in Nat
  BY DEF HInv, HttpTypeOK
<1>3. InBody => part[kind] \in Seq(Symbols) /\ Len(part[kind]) \in Nat
  BY LenProperties DEF HInv, BodyOK
<1>4. Len(page) \in Nat /\ Len(left) \in Nat /\ Len(wire) \in Nat
  BY <1>1, <1>2, LenProperties
<1>5. pc # "idle" => Done \in Nat
  BY <1>3 DEF Done, InBody
<1> QED
  BY <1>1, <1>2, <1>3, <1>4, <1>5 DEF Sent

LEMMA SendHeadStream ==
  ASSUME HInv, SInv, SendHead
  PROVE  SInv'
<1>1. /\ pc = "headers" /\ conn = "asked" /\ conn' = "open"
      /\ wire' = wire \o <<"head">>
      /\ UNCHANGED <<page, framing, left, pc, kind, want, part>>
  BY DEF SendHead, Sends, client
<1>2. wire = <<>> /\ left = page
  BY <1>1 DEF SInv, ServerOK
<1>3. wire' = <<"head">> /\ Len(wire') = 1
  BY <1>1, <1>2
<1>4. Len(page) \in Nat /\ Len(left) \in Nat /\ Sent = 0 /\ Sent' = 0
  <2>1. Len(page) \in Nat
    BY StreamTypes
  <2> QED
    BY <1>1, <1>2, <2>1 DEF Sent
<1>5. ServerOK'
  BY <1>1, <1>2, <1>4 DEF ServerOK
<1>6. BodyKept' /\ ReaderOK'
  BY <1>1 DEF BodyKept, ReaderOK, InBody
<1>7. PlainStream'
  BY <1>1, <1>3, <1>4 DEF PlainStream, Begin, Done
<1>8. ChunkMarks([p \in {2} |-> 0])'
  <2> DEFINE O == [p \in {2} |-> 0]
  <2>1. DOMAIN O = {2} /\ O[2] = 0
    OBVIOUS
  <2> HIDE DEF O
  <2>2. Marked(O, wire', page')
    BY <1>3, <2>1 DEF Marked
  <2>3. Complete(O, wire', Sent')
    BY <1>3, <1>4, <2>1 DEF Complete
  <2> QED
    BY <1>1, <2>1, <2>2, <2>3 DEF ChunkMarks, O
<1> QED
  BY <1>5, <1>6, <1>7, <1>8 DEF SInv, ChunkStream

\* The first n symbols of the rest of the page are sent.
LEMMA LeftSent ==
  ASSUME HInv, SInv, NEW n \in 1..Len(left), conn = "open",
         left' = SubSeq(left, n + 1, Len(left)),
         UNCHANGED <<page, framing, conn, pc, kind, want, part>>
  PROVE  ServerOK' /\ BodyKept' /\ ReaderOK' /\ Sent' = Sent + n
         /\ Len(left') = Len(left) - n
<1>0. /\ Len(page) \in Nat /\ Len(left) \in Nat /\ left \in Seq(Symbols)
      /\ n \in Nat /\ n <= Len(left) /\ n + 1 \in 1..(Len(left) + 1)
      /\ Sent = Len(page) - Len(left) /\ Sent \in Int
  BY StreamTypes
<1>1. /\ Len(left) <= Len(page)
      /\ \A i \in 1..Len(left) : left[i] = page[Sent + i]
  BY DEF SInv, ServerOK
<1>2. Len(left') = Len(left) - n
  BY <1>0, Cuts
<1>3. Sent' = Sent + n
  <2>1. Sent' = Len(page) - Len(left')
    BY DEF Sent
  <2> QED
    BY <1>0, <1>2, <2>1
<1>4. ASSUME NEW i \in 1..Len(left')
      PROVE  left'[i] = page[Sent' + i]
  <2>1. \A j \in n + 1..Len(left) : left[j] \in Symbols
    BY <1>0, ElementOfSeq
  <2>2. \A j \in 1..Len(left) - (n + 1) + 1 :
            SubSeq(left, n + 1, Len(left))[j] = left[n + 1 + j - 1]
    BY <1>0, <2>1, SubSeqProperties
  <2>3. /\ i \in 1..Len(left) - (n + 1) + 1 /\ n + 1 + i - 1 = n + i
        /\ n + i \in 1..Len(left)
    BY <1>0, <1>2
  <2>4. left'[i] = left[n + i]
    <3>1. SubSeq(left, n + 1, Len(left))[i] = left[n + 1 + i - 1]
      BY <2>2, <2>3
    <3> QED
      BY <2>3, <3>1
  <2>6. left[n + i] = page[Sent + (n + i)]
    BY <1>1, <2>3
  <2>5. Sent + (n + i) = Sent' + i
    BY <1>0, <1>3
  <2> QED
    BY <2>4, <2>5, <2>6
<1>5. ServerOK'
  <2>1. conn' = "open" /\ page' = page /\ Len(left') <= Len(page')
    BY <1>0, <1>1, <1>2
  <2>2. \A i \in 1..Len(left') : left'[i] = page'[Sent' + i]
    BY <1>4, <2>1
  <2> QED
    BY <2>1, <2>2 DEF ServerOK
<1>6. BodyKept' /\ ReaderOK'
  BY DEF BodyKept, ReaderOK, InBody, SInv, Done
<1> QED
  BY <1>2, <1>3, <1>5, <1>6

LEMMA SendBytesStream ==
  ASSUME HInv, SInv, NEW n \in 1..Len(left), SendBytes(n)
  PROVE  SInv'
<1> DEFINE s == SubSeq(left, 1, n)
<1>1. /\ framing # "chunked" /\ conn = "open" /\ wire' = wire \o s
      /\ left' = SubSeq(left, n + 1, Len(left))
      /\ UNCHANGED <<page, framing, conn, pc, kind, want, part>>
  BY DEF SendBytes, Sends, client
<1>2. ServerOK' /\ BodyKept' /\ ReaderOK' /\ Sent' = Sent + n
  BY <1>1, LeftSent
<1>3. ChunkStream'
  BY <1>1 DEF ChunkStream
<1>4. PlainStream'
  <2> SUFFICES ASSUME pc \in {"headers", "known", "until_close"}
               PROVE  /\ Done + Len(wire') - Begin <= Len(page)
                      /\ \A i \in 1..(Len(wire') - Begin) :
                             wire'[Begin + i] = page[Done + i]
                      /\ Begin <= Len(wire') /\ Sent' = Done + Len(wire') - Begin
    BY <1>1 DEF PlainStream, Begin, Done
  <2>1. /\ Len(page) \in Nat /\ Len(left) \in Nat /\ left \in Seq(Symbols)
        /\ wire \in Seq(Symbols) /\ Len(wire) \in Nat /\ Done \in Nat
        /\ n \in Nat /\ n <= Len(left) /\ n \in 0..Len(left)
        /\ Sent = Len(page) - Len(left) /\ Sent \in Int
    BY StreamTypes
  <2>2. Begin \in Nat
    BY DEF Begin
  <2>3. /\ \A i \in 1..(Len(wire) - Begin) : wire[Begin + i] = page[Done + i]
        /\ Begin <= Len(wire) /\ Sent = Done + Len(wire) - Begin
    BY <1>1 DEF SInv, PlainStream
  <2>4. /\ Len(left) <= Len(page)
        /\ \A i \in 1..Len(left) : left[i] = page[Sent + i]
    BY <1>1 DEF SInv, ServerOK
  <2>5. s \in Seq(Symbols) /\ Len(s) = n /\ \A i \in 1..n : s[i] = left[i]
    <3>1. \A i \in 1..n : left[i] \in Symbols
      BY <2>1, ElementOfSeq
    <3>2. s \in Seq(Symbols) /\ Len(s) = n
      BY <2>1, Cuts
    <3> QED
      BY <2>1, <3>1, <3>2, SubSeqProperties
  <2> HIDE DEF s
  <2>6. /\ Len(wire') = Len(wire) + n
        /\ \A i \in 1..Len(wire) : wire'[i] = wire[i]
        /\ \A i \in 1..n : wire'[Len(wire) + i] = s[i]
    <3>1. /\ Len(wire \o s) = Len(wire) + Len(s)
          /\ \A i \in 1..Len(wire) : (wire \o s)[i] = wire[i]
          /\ \A i \in 1..Len(s) : (wire \o s)[Len(wire) + i] = s[i]
      BY <2>1, <2>5, Joined
    <3> QED
      BY <1>1, <2>5, <3>1
  <2> DEFINE x == Len(wire)
             y == Len(wire')
  <2>10. /\ x \in Nat /\ y = x + n /\ Sent = Done + x - Begin /\ Begin <= x
         /\ Sent' = Sent + n
    BY <1>2, <2>1, <2>3, <2>6
  <2> HIDE DEF x, y
  <2>7. Sent' = Done + y - Begin /\ Begin <= y
    BY <2>1, <2>2, <2>10
  <2>8. Done + y - Begin <= Len(page)
    BY <2>1, <2>2, <2>10
  <2>9. ASSUME NEW i \in 1..(Len(wire') - Begin)
        PROVE  wire'[Begin + i] = page[Done + i]
    <3>1. CASE Begin + i <= Len(wire)
      <4>1. i \in 1..(Len(wire) - Begin) /\ Begin + i \in 1..Len(wire)
        BY <2>1, <2>2, <3>1
      <4> QED
        BY <2>3, <2>6, <4>1
    <3>2. CASE Begin + i > Len(wire)
      <4> DEFINE j == Begin + i - Len(wire)
      <4>1. /\ j \in 1..n /\ j \in 1..Len(left) /\ Begin + i = Len(wire) + j
            /\ Sent + j = Done + i
        <5>1. i \in 1..(y - Begin) /\ Begin + i > x
          BY <3>2 DEF x, y
        <5>2. j = Begin + i - x
          BY DEF x
        <5> HIDE DEF j
        <5>3. j \in 1..n /\ Begin + i = x + j
          BY <2>1, <2>2, <2>10, <5>1, <5>2
        <5>4. j \in 1..Len(left) /\ Sent + j = Done + i
          BY <2>1, <2>2, <2>10, <5>1, <5>2, <5>3
        <5> QED
          BY <5>3, <5>4 DEF x
      <4> HIDE DEF j
      <4>2. wire'[Begin + i] = left[j] /\ left[j] = page[Sent + j]
        BY <2>4, <2>5, <2>6, <4>1
      <4> QED
        BY <4>1, <4>2
    <3> QED
      BY <2>1, <2>2, <3>1, <3>2
  <2> QED
    BY <2>7, <2>8, <2>9 DEF y
<1> QED
  BY <1>2, <1>3, <1>4 DEF SInv

LEMMA SendChunkStream ==
  ASSUME HInv, SInv, NEW n \in 1..Len(left), NEW e \in Extensions, SendChunk(n, e)
  PROVE  SInv'
<1>1. /\ framing = "chunked" /\ conn = "open" /\ n \in DOMAIN Digit
      /\ wire' = wire \o (<<Digit[n]>> \o e \o <<"nl">> \o SubSeq(left, 1, n)
                              \o <<"nl">>)
      /\ left' = SubSeq(left, n + 1, Len(left))
      /\ UNCHANGED <<page, framing, conn, pc, kind, want, part>>
  BY DEF SendChunk, Sends, client
<1>2. ServerOK' /\ BodyKept' /\ ReaderOK' /\ Len(left') = Len(left) - n
  BY <1>1, LeftSent
<1>3. PlainStream'
  BY <1>1 DEF PlainStream
<1>4. ChunkStream'
  <2> SUFFICES ASSUME pc \in {"headers", "size", "data", "crlf"}
               PROVE  \E O : ChunkMarks(O)'
    BY <1>1 DEF ChunkStream
  <2>1. PICK O : ChunkMarks(O)
    BY <1>1 DEF SInv, ChunkStream
  <2>2. /\ page \in Seq(Symbols) /\ left \in Seq(Symbols) /\ wire \in Seq(Symbols)
        /\ Done \in Nat /\ want \in Nat
    BY StreamTypes
  <2>3. /\ Len(left) <= Len(page)
        /\ \A i \in 1..Len(left) : left[i] = page[Len(page) - Len(left) + i]
    BY <1>1 DEF SInv, ServerOK, Sent
  <2>4. Marked(O, wire, page) /\ Complete(O, wire, Len(page) - Len(left))
    BY <1>1, <2>1 DEF ChunkMarks, Sent
  <2>5. PICK P : /\ Extends(P, O)
                 /\ Marked(P, wire', page)
                 /\ Complete(P, wire', Len(page) - (Len(left) - n))
                 /\ \A d, off, k \in Nat : RestAt(O, wire, page, d, off, k) =>
                        RestAt(P, wire', page, d, off, k)
    BY <1>1, <2>2, <2>3, <2>4, ChunkSent
  <2>6. Complete(P, wire', Sent')
    BY <1>1, <1>2, <2>5 DEF Sent
  <2>7. /\ pc = "headers" => 2 \in DOMAIN P /\ P[2] = 0
        /\ pc = "size" => 1 \in DOMAIN P /\ P[1] = Done
    BY <2>1, <2>5 DEF ChunkMarks, Extends
  <2>8. pc \in {"data", "crlf"} => RestAt(P, wire', page, 0, Done, want)
    BY <2>1, <2>2, <2>5 DEF ChunkMarks
  <2>9. Done' = Done
    BY <1>1 DEF Done
  <2>10. ChunkMarks(P)'
    BY <1>1, <2>1, <2>5, <2>6, <2>7, <2>8, <2>9 DEF ChunkMarks
  <2> QED
    BY <2>10
<1> QED
  BY <1>2, <1>3, <1>4 DEF SInv

LEMMA SendLastStream ==
  ASSUME HInv, SInv, NEW e \in Extensions, SendLast(e)
  PROVE  SInv'
<1> DEFINE t == IF e = <<>> THEN <<"0", "nl", "nl">>
                ELSE <<"0", "nl">> \o e \o <<"nl", "nl">>
<1>1. /\ framing = "chunked" /\ conn = "open" /\ conn' = "closed" /\ left = <<>>
      /\ wire' = wire \o t
      /\ UNCHANGED <<page, framing, left, pc, kind, want, part>>
  BY DEF SendLast, Sends, client
<1>2. t \in Seq(Symbols) /\ Len(t) > 0 /\ t[1] = "0"
  <2>1. e \in Seq(Symbols)
    BY TextSymbols
  <2> DEFINE a == <<"0", "nl">>
             b == <<"nl", "nl">>
             c == <<"0", "nl", "nl">>
  <2>2. /\ a \in Seq(Symbols) /\ Len(a) = 2 /\ a[1] = "0"
        /\ b \in Seq(Symbols) /\ Len(b) = 2
        /\ c \in Seq(Symbols) /\ Len(c) = 3 /\ c[1] = "0"
    BY OtherSymbols
  <2>3. t = IF e = <<>> THEN c ELSE a \o e \o b
    OBVIOUS
  <2> HIDE DEF a, b, c, t
  <2> DEFINE u == a \o e
             x == u \o b
  <2>4. /\ u \in Seq(Symbols) /\ Len(u) = Len(a) + Len(e)
        /\ \A i \in 1..Len(a) : u[i] = a[i]
    BY <2>1, <2>2, Joined
  <2>5. Len(e) \in Nat
    BY <2>1, LenProperties
  <2> HIDE DEF u
  <2>6. /\ x \in Seq(Symbols) /\ Len(x) = Len(u) + Len(b)
        /\ \A i \in 1..Len(u) : x[i] = u[i]
    BY <2>2, <2>4, Joined
  <2>7. t = IF e = <<>> THEN c ELSE x
    BY <2>3 DEF u
  <2> HIDE DEF x
  <2>8. x[1] = "0" /\ Len(x) > 0
    <3>1. 1 \in 1..Len(a) /\ 1 \in 1..Len(u) /\ Len(x) > 0
      BY <2>2, <2>4, <2>5, <2>6
    <3> QED
      BY <2>2, <2>4, <2>6, <3>1
  <2>9. CASE e = <<>>
    BY <2>2, <2>7, <2>9
  <2>10. CASE e # <<>>
    BY <2>6, <2>7, <2>8, <2>10
  <2> QED
    BY <2>9, <2>10
<1> HIDE DEF t
<1>3. ServerOK' /\ BodyKept' /\ ReaderOK' /\ PlainStream'
  <2>1. BodyKept' /\ ReaderOK'
    BY <1>1 DEF SInv, BodyKept, ReaderOK, InBody, Done
  <2> QED
    BY <1>1, <2>1 DEF ServerOK, PlainStream
<1>4. ChunkStream'
  <2> SUFFICES ASSUME pc \in {"headers", "size", "data", "crlf"}
               PROVE  \E O : ChunkMarks(O)'
    BY <1>1 DEF ChunkStream
  <2>1. PICK O : ChunkMarks(O)
    BY <1>1 DEF SInv, ChunkStream
  <2>2. /\ page \in Seq(Symbols) /\ wire \in Seq(Symbols)
        /\ Done \in Nat /\ want \in Nat /\ Len(page) \in Nat
    BY StreamTypes
  <2>3. Marked(O, wire, page) /\ Complete(O, wire, Len(page))
    <3>1. Len(left) = 0
      BY <1>1
    <3>2. Sent = Len(page)
      BY <2>2, <3>1 DEF Sent
    <3> QED
      BY <1>1, <2>1, <3>2 DEF ChunkMarks
  <2>4. /\ Marked(O, wire', page)
        /\ \A d, off, k \in Nat : RestAt(O, wire, page, d, off, k) =>
               RestAt(O, wire', page, d, off, k)
    BY <1>1, <1>2, <2>2, <2>3, LastSent
  <2>5. pc \in {"data", "crlf"} => RestAt(O, wire', page, 0, Done, want)
    BY <2>1, <2>2, <2>4 DEF ChunkMarks
  <2>6. Done' = Done
    BY <1>1 DEF Done
  <2>7. ChunkMarks(O)'
    BY <1>1, <2>1, <2>4, <2>5, <2>6 DEF ChunkMarks
  <2> QED
    BY <2>7
<1> QED
  BY <1>3, <1>4 DEF SInv

LEMMA FinishStream ==
  ASSUME HInv, SInv, Finish
  PROVE  SInv'
<1>1. /\ framing # "chunked" /\ conn = "open" /\ conn' = "closed"
      /\ UNCHANGED <<page, framing, left, wire, pc, kind, want, part>>
  BY DEF Finish, client
<1> QED
  BY <1>1 DEF SInv, ServerOK, BodyKept, ReaderOK, InBody, PlainStream,
     ChunkStream,
     Begin, Done

LEMMA BreakStream ==
  ASSUME HInv, SInv, NEW n \in 0..Len(wire), NEW how \in Ends, Break(n, how)
  PROVE  SInv'
<1>1. /\ wire' = SubSeq(wire, 1, n) /\ conn' = how /\ conn' \in {"closed", "reset"}
      /\ UNCHANGED <<page, framing, left, pc, kind, want, part>>
  BY DEF Break, client, Ends
<1>2. /\ wire \in Seq(Symbols) /\ page \in Seq(Symbols) /\ Len(page) \in Nat
      /\ Len(wire) \in Nat /\ n \in Nat /\ n <= Len(wire) /\ want \in Nat
      /\ pc # "idle" => Done \in Nat
  BY StreamTypes
<1>3. Len(wire') = n /\ \A i \in 1..n : wire'[i] = wire[i]
  <2>1. \A i \in 1..n : wire[i] \in Symbols
    BY <1>2, ElementOfSeq
  <2>2. Len(wire') = n
    BY <1>1, <1>2, Cuts
  <2> QED
    BY <1>1, <1>2, <2>1, <2>2, SubSeqProperties
<1>4. conn = "asked" => wire = <<>> /\ Len(wire) = 0 /\ n = 0
                        /\ pc = "headers" /\ wire' = <<>>
  <2> SUFFICES ASSUME conn = "asked"
               PROVE  wire = <<>> /\ Len(wire) = 0 /\ n = 0
                      /\ pc = "headers" /\ wire' = <<>>
    OBVIOUS
  <2>1. wire = <<>> /\ pc = "headers"
    BY DEF SInv, ServerOK
  <2>2. Len(wire) = 0 /\ n = 0
    BY <1>2, <2>1
  <2> QED
    BY <1>1, <2>1, <2>2
<1>5. ServerOK' /\ BodyKept' /\ ReaderOK'
  BY <1>1 DEF SInv, ServerOK, BodyKept, ReaderOK, InBody, Done
<1>6. Begin' = Begin /\ Done' = Done /\ Begin \in {0, 1}
  BY <1>1 DEF Begin, Done
<1>7. PlainStream'
  <2> SUFFICES ASSUME framing # "chunked", pc \in {"headers", "known", "until_close"}
               PROVE  /\ Done + Len(wire') - Begin <= Len(page)
                      /\ \A i \in 1..(Len(wire') - Begin) :
                             wire'[Begin + i] = page[Done + i]
    BY <1>1, <1>6 DEF PlainStream
  <2>1. CASE conn = "asked"
    <3>1. Done = 0 /\ Begin = 1
      BY <1>4, <2>1 DEF Done, Begin
    <3> QED
      BY <1>2, <1>3, <1>4, <2>1, <3>1
  <2>2. CASE conn # "asked"
    <3>1. /\ Done + Len(wire) - Begin <= Len(page)
          /\ \A i \in 1..(Len(wire) - Begin) : wire[Begin + i] = page[Done + i]
      BY <2>2 DEF SInv, PlainStream
    <3>2. Done + Len(wire') - Begin <= Len(page)
      BY <1>2, <1>3, <1>6, <3>1
    <3>3. ASSUME NEW i \in 1..(Len(wire') - Begin)
          PROVE  wire'[Begin + i] = page[Done + i]
      <4>1. i \in 1..(Len(wire) - Begin) /\ Begin + i \in 1..n
        BY <1>2, <1>3, <1>6
      <4> QED
        BY <1>3, <3>1, <4>1
    <3> QED
      BY <3>2, <3>3
  <2> QED
    BY <2>1, <2>2
<1>8. ChunkStream'
  <2> SUFFICES ASSUME framing = "chunked",
                      pc \in {"headers", "size", "data", "crlf"}
               PROVE  \E O : ChunkMarks(O)'
    BY <1>1 DEF ChunkStream
  <2>1. CASE conn = "asked"
    <3> DEFINE O == [p \in {2} |-> 0]
    <3>1. DOMAIN O = {2} /\ O[2] = 0
      OBVIOUS
    <3> HIDE DEF O
    <3>2. Marked(O, wire', page')
      BY <1>3, <1>4, <2>1, <3>1 DEF Marked
    <3>3. ChunkMarks(O)'
      BY <1>1, <1>4, <2>1, <3>1, <3>2 DEF ChunkMarks
    <3> QED
      BY <3>3
  <2>2. CASE conn # "asked"
    <3>1. PICK O : ChunkMarks(O)
      BY <2>2 DEF SInv, ChunkStream
    <3>2. Marked(O, wire', page)
      BY <1>1, <1>2, <3>1, MarksCut DEF ChunkMarks
    <3>3. pc \in {"data", "crlf"} => RestAt(O, wire', page, 0, Done, want)
      <4>1. \A d, off, k \in Nat : RestAt(O, wire, page, d, off, k) =>
                RestAt(O, wire', page, d, off, k)
        BY <1>1, <1>2, MarksCut
      <4> QED
        BY <1>2, <3>1, <4>1 DEF ChunkMarks
    <3>4. ChunkMarks(O)'
      BY <1>1, <1>6, <3>1, <3>2, <3>3 DEF ChunkMarks
    <3> QED
      BY <3>4
  <2> QED
    BY <2>1, <2>2
<1> QED
  BY <1>5, <1>7, <1>8 DEF SInv

LEMMA SubSeqIndex ==
  ASSUME NEW s \in Seq(Symbols), NEW c \in 0..Len(s)
  PROVE  /\ \A i \in 1..c : SubSeq(s, 1, c)[i] = s[i]
         /\ \A i \in 1..(Len(s) - c) : SubSeq(s, c + 1, Len(s))[i] = s[c + i]
<1>1. Len(s) \in Nat /\ \A i \in 1..Len(s) : s[i] \in Symbols
  BY LenProperties, ElementOfSeq
<1>2. \A i \in 1..c : SubSeq(s, 1, c)[i] = s[i]
  <2>1. \A i \in 1..c : s[i] \in Symbols
    BY <1>1
  <2> QED
    BY <1>1, <2>1, SubSeqProperties
<1>3. ASSUME NEW i \in 1..(Len(s) - c)
      PROVE  SubSeq(s, c + 1, Len(s))[i] = s[c + i]
  <2>1. \A j \in c + 1..Len(s) : s[j] \in Symbols
    BY <1>1
  <2>2. \A j \in 1..Len(s) - (c + 1) + 1 :
            SubSeq(s, c + 1, Len(s))[j] = s[c + 1 + j - 1]
    BY <1>1, <2>1, SubSeqProperties
  <2>3. i \in 1..Len(s) - (c + 1) + 1 /\ c + 1 + i - 1 = c + i
    BY <1>1
  <2> QED
    BY <2>2, <2>3
<1> QED
  BY <1>2, <1>3

\* c symbols are read, the others stay where they are.
LEMMA Reading ==
  ASSUME HInv, NEW n \in Nat, NEW c, c = Min2(n, Len(wire)), Consume(n)
  PROVE  /\ c \in 0..Len(wire) /\ c <= n /\ c \in Nat
         /\ Taken(n) = SubSeq(wire, 1, c) /\ Len(Taken(n)) = c
         /\ wire' = SubSeq(wire, c + 1, Len(wire)) /\ Len(wire') = Len(wire) - c
         /\ \A i \in 1..Len(wire') : wire'[i] = wire[c + i]
         /\ page' = page /\ framing' = framing /\ left' = left /\ conn' = conn
<1>1. wire \in Seq(Symbols) /\ Len(wire) \in Nat
  BY StreamTypes
<1>2. c \in 0..Len(wire) /\ c <= n /\ c \in Nat
  BY <1>1 DEF Min2
<1>3. /\ Taken(n) = SubSeq(wire, 1, c)
      /\ wire' = SubSeq(wire, c + 1, Len(wire))
      /\ page' = page /\ framing' = framing /\ left' = left /\ conn' = conn
  BY DEF Taken, Consume
<1>4. Len(Taken(n)) = c /\ Len(wire') = Len(wire) - c
  BY <1>1, <1>2, <1>3, Cuts
<1>5. \A i \in 1..(Len(wire) - c) : wire'[i] = wire[c + i]
  BY <1>1, <1>2, <1>3, SubSeqIndex
<1> QED
  BY <1>2, <1>3, <1>4, <1>5

\* What is written goes on with the page.
LEMMA Appended ==
  ASSUME HInv, SInv, InBody, NEW c \in 0..Len(wire),
         Written(SubSeq(wire, 1, c)), page' = page,
         Len(part[kind]) + c <= Len(page),
         \A i \in 1..c : wire[i] = page[Len(part[kind]) + i]
  PROVE  /\ Len(part'[kind]) = Len(part[kind]) + c
         /\ \A i \in 1..Len(part'[kind]) : part'[kind][i] = page[i]
<1> DEFINE s == SubSeq(wire, 1, c)
           b == part[kind]
<1>1. /\ wire \in Seq(Symbols) /\ Len(wire) \in Nat /\ c \in Nat
      /\ b \in Seq(Symbols) /\ Len(b) \in Nat /\ Len(page) \in Nat
  BY StreamTypes
<1>2. s \in Seq(Symbols) /\ Len(s) = c /\ \A i \in 1..c : s[i] = wire[i]
  BY <1>1, Cuts, SubSeqIndex
<1>3. part'[kind] = b \o s
  BY DEF Written, HInv, HttpTypeOK
<1>4. \A i \in 1..Len(b) : b[i] = page[i]
  BY DEF SInv, BodyKept
<1>5. \A i \in 1..c : wire[i] = page[Len(b) + i]
  OBVIOUS
<1> HIDE DEF s, b
<1>6. /\ Len(b \o s) = Len(b) + Len(s)
      /\ \A i \in 1..Len(b) : (b \o s)[i] = b[i]
      /\ \A i \in 1..Len(s) : (b \o s)[Len(b) + i] = s[i]
  BY <1>1, <1>2, Joined
<1>7. ASSUME NEW i \in 1..(Len(b) + c)
      PROVE  (b \o s)[i] = page[i]
  <2>1. CASE i <= Len(b)
    <3>1. i \in 1..Len(b)
      BY <1>1, <2>1
    <3> QED
      BY <1>4, <1>6, <3>1
  <2>2. CASE i > Len(b)
    <3>1. i - Len(b) \in 1..c /\ Len(b) + (i - Len(b)) = i
      BY <1>1, <2>2
    <3>2. (b \o s)[Len(b) + (i - Len(b))] = s[i - Len(b)]
      BY <1>2, <1>6, <3>1
    <3>3. s[i - Len(b)] = page[Len(b) + (i - Len(b))]
      BY <1>2, <1>5, <3>1
    <3> QED
      BY <3>1, <3>2, <3>3
  <2>3. i <= Len(b) \/ i > Len(b)
    BY <1>1
  <2> QED
    BY <2>1, <2>2, <2>3
<1>8. Len(part'[kind]) = Len(b) + c
  BY <1>2, <1>3, <1>6
<1>9. \A i \in 1..Len(part'[kind]) : part'[kind][i] = page[i]
  BY <1>3, <1>7, <1>8
<1> QED
  BY <1>8, <1>9 DEF b

\* A call that has returned reads nothing.
LEMMA EndStream ==
  ASSUME pc' = "idle", Hangup
  PROVE  SInv'
  BY DEF Hangup, SInv, ServerOK, BodyKept, InBody, ReaderOK, PlainStream,
     ChunkStream

\* A step of the client leaves the server alone.
LEMMA ServerLeft ==
  ASSUME SInv, pc # "headers" \/ wire # <<>> \/ conn \in Ends,
         page' = page, left' = left, conn' = conn
  PROVE  ServerOK' /\ conn # "asked" /\ conn' # "asked" /\ Sent' = Sent
<1>1. conn # "asked"
  BY DEF SInv, ServerOK, Ends
<1>2. Sent' = Sent
  BY DEF Sent
<1> QED
  BY <1>1, <1>2 DEF SInv, ServerOK

LEMMA ReadHeadStream ==
  ASSUME HInv, SInv, ReadHead
  PROVE  SInv'
<1>1. CASE Fail
  BY <1>1, EndStream DEF Fail
<1>2. CASE ~Fail
  <2>1. /\ pc = "headers" /\ wire # <<>> /\ Consume(1)
        /\ part' = [part EXCEPT ![kind] = <<>>]
        /\ want' = ContentLength /\ pc' = BodyReader /\ kind' = kind
    BY <1>2 DEF ReadHead
  <2>2. /\ wire \in Seq(Symbols) /\ Len(wire) \in Nat /\ page \in Seq(Symbols)
        /\ Len(page) \in Nat /\ Len(wire) > 0
    <3>1. wire \in Seq(Symbols) /\ page \in Seq(Symbols)
      BY StreamTypes
    <3>2. Len(wire) \in Nat /\ Len(page) \in Nat /\ Len(wire) # 0
      BY <2>1, <3>1, LenProperties, EmptySeq
    <3> QED
      BY <3>1, <3>2
  <2>3. 1 = Min2(1, Len(wire))
    <3>1. 1 < Len(wire) \/ Len(wire) = 1
      BY <2>2
    <3> QED
      BY <3>1 DEF Min2
  <2>4. /\ 1 \in 0..Len(wire)
        /\ wire' = SubSeq(wire, 1 + 1, Len(wire)) /\ Len(wire') = Len(wire) - 1
        /\ \A i \in 1..Len(wire') : wire'[i] = wire[1 + i]
        /\ page' = page /\ framing' = framing /\ left' = left /\ conn' = conn
    BY <2>1, <2>3, Reading
  <2>5. ServerOK' /\ conn # "asked" /\ conn' # "asked" /\ Sent' = Sent
    BY <2>1, <2>4, ServerLeft
  <2>6. part'[kind] = <<>> /\ Len(part'[kind]) = 0
    BY <2>1, EmptySeq DEF HInv, HttpTypeOK
  <2>7. framing \in {"chunked", "length", "close"}
    BY DEF HInv, HttpTypeOK, Framings
  <2>8. /\ pc' \in {"size", "store", "known", "until_close"}
        /\ pc' = "size" <=> framing = "chunked"
        /\ pc' = "until_close" <=> framing = "close"
        /\ pc' = "known" => framing = "length" /\ want' = Len(page)
        /\ pc' = "store" => framing = "length" /\ Len(page) = 0
    BY <2>1, <2>7 DEF BodyReader, ContentLength
  <2>9. Done' = 0 /\ Begin' = 0 /\ Done = 0 /\ Begin = 1
    BY <2>1, <2>6, <2>8 DEF Done, Begin
  <2>10. BodyKept'
    BY <2>1, <2>2, <2>4, <2>6, <2>8 DEF BodyKept
  <2>11. ReaderOK'
    BY <2>2, <2>4, <2>8, <2>9 DEF ReaderOK
  <2>12. PlainStream'
    <3> SUFFICES ASSUME framing # "chunked"
                 PROVE  /\ 0 + Len(wire') - 0 <= Len(page)
                        /\ \A i \in 1..(Len(wire') - 0) : wire'[0 + i] = page[0 + i]
                        /\ conn = "open" => 0 <= Len(wire')
                                            /\ Sent = 0 + Len(wire') - 0
      BY <2>4, <2>5, <2>9 DEF PlainStream
    <3>1. /\ 0 + Len(wire) - 1 <= Len(page)
          /\ \A i \in 1..(Len(wire) - 1) : wire[1 + i] = page[0 + i]
          /\ conn = "open" => 1 <= Len(wire) /\ Sent = 0 + Len(wire) - 1
      BY <2>1, <2>5, <2>9 DEF SInv, PlainStream
    <3>2. ASSUME NEW i \in 1..(Len(wire') - 0)
          PROVE  wire'[0 + i] = page[0 + i]
      <4>1. i \in 1..Len(wire') /\ i \in 1..(Len(wire) - 1) /\ 0 + i = i
        BY <2>2, <2>4
      <4> QED
        BY <2>4, <3>1, <4>1
    <3> QED
      BY <2>2, <2>4, <3>1, <3>2
  <2>13. ChunkStream'
    <3> SUFFICES ASSUME framing = "chunked"
                 PROVE  \E O : ChunkMarks(O)'
      BY <2>4 DEF ChunkStream
    <3>1. PICK O : ChunkMarks(O)
      BY <2>1, <2>5 DEF SInv, ChunkStream
    <3> DEFINE S == Shifted(O, 1)
    <3>2. /\ Marked(S, wire', page)
          /\ \A sent : Complete(O, wire, sent) => Complete(S, wire', sent)
          /\ \A p \in DOMAIN O : p > 1 => p - 1 \in DOMAIN S /\ S[p - 1] = O[p]
      BY <2>2, <2>4, <3>1, MarksShift DEF ChunkMarks
    <3> HIDE DEF S
    <3>3. 1 \in DOMAIN S /\ S[1] = 0
      <4>1. 2 \in DOMAIN O /\ O[2] = 0 /\ 2 > 1 /\ 2 - 1 = 1
        BY <2>1, <3>1 DEF ChunkMarks
      <4> QED
        BY <3>2, <4>1
    <3>4. conn' = "open" => Complete(S, wire', Sent')
      BY <2>4, <2>5, <3>1, <3>2 DEF ChunkMarks
    <3>5. pc' = "size"
      BY <2>8
    <3>6. ChunkMarks(S)'
      BY <2>4, <2>9, <3>2, <3>3, <3>4, <3>5 DEF ChunkMarks
    <3> QED
      BY <3>6
  <2> QED
    BY <2>5, <2>10, <2>11, <2>12, <2>13 DEF SInv
<1> QED
  BY <1>1, <1>2

\* What a read of a body without chunks brings is the page where it was.
LEMMA PlainRead ==
  ASSUME HInv, SInv, framing # "chunked", pc \in {"known", "until_close"},
         NEW n \in Nat, Written(Taken(n)), Consume(n), kind' = kind,
         pc' \in {"store", pc}
  PROVE  /\ ServerOK' /\ PlainStream' /\ ChunkStream'
         /\ page' = page /\ framing' = framing
         /\ Len(part[kind]) \in Nat /\ Len(Taken(n)) \in Nat
         /\ Len(part'[kind]) = Len(part[kind]) + Len(Taken(n))
         /\ Len(part'[kind]) <= Len(page)
         /\ \A i \in 1..Len(part'[kind]) : part'[kind][i] = page[i]
<1> DEFINE c == Min2(n, Len(wire))
           b == Len(part[kind])
           x == Len(wire)
           y == Len(wire')
           z == Len(part'[kind])
<1>1. Len(page) \in Nat /\ x \in Nat /\ InBody /\ b \in Nat
  BY StreamTypes DEF InBody
<1>2. c = Min2(n, Len(wire))
  OBVIOUS
<1> HIDE DEF c
<1>3. /\ c \in 0..x /\ c \in Nat
      /\ Taken(n) = SubSeq(wire, 1, c) /\ Len(Taken(n)) = c
      /\ y = x - c
      /\ \A i \in 1..y : wire'[i] = wire[c + i]
      /\ page' = page /\ framing' = framing /\ left' = left /\ conn' = conn
  BY <1>2, Reading
<1>4. ServerOK' /\ conn # "asked" /\ conn' # "asked" /\ Sent' = Sent
  BY <1>3, ServerLeft
<1>5. Done = b /\ Begin = 0
  BY DEF Done, Begin
<1>6. /\ b + x - 0 <= Len(page)
      /\ \A i \in 1..(x - 0) : wire[0 + i] = page[b + i]
      /\ conn = "open" => Sent = b + x - 0
  BY <1>4, <1>5 DEF SInv, PlainStream
<1>7. /\ b + x <= Len(page)
      /\ \A i \in 1..x : wire[i] = page[b + i]
      /\ conn = "open" => Sent = b + x
  <2> HIDE DEF b, x
  <2> QED
    BY <1>1, <1>6
<1>8. z = b + c /\ \A i \in 1..z : part'[kind][i] = page[i]
  <2>1. b + c <= Len(page)
    <3> HIDE DEF b, x
    <3> QED
      BY <1>1, <1>3, <1>7
  <2>2. \A i \in 1..c : wire[i] = page[b + i]
    <3> HIDE DEF b, x
    <3> QED
      BY <1>1, <1>3, <1>7
  <2>3. Written(SubSeq(wire, 1, c))
    BY <1>3
  <2> QED
    BY <1>1, <1>3, <2>1, <2>2, <2>3, Appended
<1>9. Done' = z /\ Begin' = 0
  BY DEF Done, Begin
<1> HIDE DEF b, x, y, z
<1>10. z <= Len(page)
  BY <1>1, <1>3, <1>7, <1>8
<1>11. PlainStream'
  <2>1. z + y - 0 <= Len(page)
    BY <1>1, <1>3, <1>7, <1>8
  <2>2. ASSUME NEW i \in 1..(y - 0)
        PROVE  wire'[0 + i] = page[z + i]
    <3>1. i \in 1..y /\ c + i \in 1..x /\ 0 + i = i /\ z + i = b + (c + i)
      BY <1>1, <1>3, <1>8
    <3>2. wire'[i] = wire[c + i]
      BY <1>3, <3>1
    <3>3. wire[c + i] = page[b + (c + i)]
      BY <1>7, <3>1
    <3> QED
      BY <3>1, <3>2, <3>3
  <2>3. conn = "open" => 0 <= y /\ Sent = z + y - 0
    BY <1>1, <1>3, <1>7, <1>8
  <2> QED
    BY <1>3, <1>4, <1>9, <2>1, <2>2, <2>3 DEF PlainStream, y
<1>12. ChunkStream'
  BY <1>3 DEF ChunkStream
<1> QED
  BY <1>1, <1>3, <1>4, <1>8, <1>10, <1>11, <1>12 DEF b, z

LEMMA KnownStream ==
  ASSUME HInv, SInv, Data("known", "store")
  PROVE  SInv'
<1> DEFINE n == Min2(want, BufCap)
<1>1. CASE Fail
  BY <1>1, EndStream DEF Fail
<1>2. CASE ~Fail
  <2>1. /\ pc = "known" /\ Written(Taken(n)) /\ Consume(n)
        /\ want' = want - Len(Taken(n))
        /\ pc' = IF want' = 0 THEN "store" ELSE "known"
        /\ kind' = kind
    BY <1>2 DEF Data
  <2>2. Len(page) \in Nat /\ want \in Nat
    BY StreamTypes
  <2>3. n \in Nat
    BY <2>2, BufferSizes DEF Min2
  <2> HIDE DEF n
  <2>4. framing = "length" /\ want = Len(page) - Len(part[kind])
    BY <2>1 DEF SInv, ReaderOK, Done
  <2>5. pc' \in {"store", "known"} /\ (pc' = "store" => want' = 0)
    BY <2>1
  <2>6. /\ ServerOK' /\ PlainStream' /\ ChunkStream'
        /\ page' = page /\ framing' = framing
        /\ Len(part[kind]) \in Nat /\ Len(Taken(n)) \in Nat
        /\ Len(part'[kind]) = Len(part[kind]) + Len(Taken(n))
        /\ Len(part'[kind]) <= Len(page)
        /\ \A i \in 1..Len(part'[kind]) : part'[kind][i] = page[i]
    BY <2>1, <2>3, <2>4, <2>5, PlainRead
  <2>7. want' = Len(page) - Len(part'[kind])
    BY <2>1, <2>2, <2>4, <2>6
  <2>8. want' = 0 => Len(part'[kind]) = Len(page)
    BY <2>2, <2>6, <2>7
  <2>9. BodyKept'
    BY <2>1, <2>5, <2>6, <2>8 DEF BodyKept
  <2>10. Done' = Len(part'[kind])
    BY <2>1, <2>5 DEF Done
  <2>11. ReaderOK'
    BY <2>4, <2>5, <2>6, <2>7, <2>10 DEF ReaderOK
  <2> QED
    BY <2>6, <2>9, <2>11 DEF SInv
<1> QED
  BY <1>1, <1>2

LEMMA UntilCloseStream ==
  ASSUME HInv, SInv, ReadUntilClose
  PROVE  SInv'
<1>1. CASE Fail
  BY <1>1, EndStream DEF Fail
<1>2. CASE ~Fail
  <2>1. /\ pc = "until_close" /\ Written(Taken(BufCap)) /\ Consume(BufCap)
        /\ pc' \in {"store", "until_close"} /\ kind' = kind
    BY <1>2 DEF ReadUntilClose
  <2>2. framing = "close"
    BY <2>1 DEF SInv, ReaderOK
  <2>3. /\ ServerOK' /\ PlainStream' /\ ChunkStream'
        /\ page' = page /\ framing' = framing
        /\ Len(part'[kind]) <= Len(page)
        /\ \A i \in 1..Len(part'[kind]) : part'[kind][i] = page[i]
    BY <2>1, <2>2, BufferSizes, PlainRead
  <2>4. BodyKept'
    BY <2>1, <2>2, <2>3 DEF BodyKept
  <2>5. ReaderOK'
    BY <2>1, <2>2, <2>3 DEF ReaderOK
  <2> QED
    BY <2>3, <2>4, <2>5 DEF SInv
<1> QED
  BY <1>1, <1>2

LEMMA RestAdvance ==
  ASSUME NEW O, NEW w \in Seq(Symbols), NEW pg \in Seq(Symbols),
         NEW d \in Nat, NEW off \in Nat, NEW k \in Nat, NEW c \in 0..k,
         RestAt(O, w, pg, d, off, k)
  PROVE  RestAt(O, w, pg, d + c, off + c, k - c)
<1>1. /\ off + c + (k - c) = off + k /\ d + c + (k - c) + 1 = d + k + 1
      /\ d + c + (k - c) + 2 = d + k + 2
  OBVIOUS
<1>2. ASSUME NEW i \in 1..(k - c), d + c + i <= Len(w)
      PROVE  w[d + c + i] = pg[off + c + i]
  <2>1. c + i \in 1..k /\ d + (c + i) = d + c + i /\ off + (c + i) = off + c + i
    OBVIOUS
  <2>2. d + (c + i) <= Len(w)
    BY <1>2, <2>1
  <2>3. w[d + (c + i)] = pg[off + (c + i)]
    BY <2>1, <2>2 DEF RestAt
  <2> QED
    BY <2>1, <2>3
<1> QED
  BY <1>1, <1>2 DEF RestAt

LEMMA ChunkReadStream ==
  ASSUME HInv, SInv, Data("data", "crlf")
  PROVE  SInv'
<1> DEFINE n == Min2(want, BufCap)
           c == Min2(n, Len(wire))
           b == Len(part[kind])
           z == Len(part'[kind])
<1>1. CASE Fail
  BY <1>1, EndStream DEF Fail
<1>2. CASE ~Fail
  <2>1. /\ pc = "data" /\ Written(Taken(n)) /\ Consume(n)
        /\ want' = want - Len(Taken(n))
        /\ pc' = IF want' = 0 THEN "crlf" ELSE "data"
        /\ kind' = kind
    BY <1>2 DEF Data
  <2>2. /\ page \in Seq(Symbols) /\ wire \in Seq(Symbols) /\ want \in Nat
        /\ Len(page) \in Nat /\ Len(wire) \in Nat /\ InBody /\ b \in Nat
    BY <2>1, StreamTypes DEF InBody
  <2>3. n \in Nat /\ n <= want
    BY <2>2, BufferSizes DEF Min2
  <2> HIDE DEF n
  <2>4. c = Min2(n, Len(wire))
    OBVIOUS
  <2> HIDE DEF c
  <2>5. /\ c \in 0..Len(wire) /\ c <= n /\ c \in Nat
        /\ Taken(n) = SubSeq(wire, 1, c) /\ Len(Taken(n)) = c
        /\ wire' = SubSeq(wire, c + 1, Len(wire))
        /\ page' = page /\ framing' = framing /\ left' = left /\ conn' = conn
    BY <2>1, <2>3, <2>4, Reading
  <2>6. ServerOK' /\ conn # "asked" /\ conn' # "asked" /\ Sent' = Sent
    BY <2>1, <2>5, ServerLeft
  <2>7. framing = "chunked"
    BY <2>1 DEF SInv, ReaderOK
  <2>8. PICK O : ChunkMarks(O)
    BY <2>1, <2>6, <2>7 DEF SInv, ChunkStream
  <2>9. Marked(O, wire, page) /\ RestAt(O, wire, page, 0, b, want)
    BY <2>1, <2>8 DEF ChunkMarks, Done
  <2> HIDE DEF b
  <2>10. c \in 0..want
    BY <2>2, <2>3, <2>5
  <2>11. b + c <= Len(page) /\ \A i \in 1..c : wire[i] = page[b + i]
    <3>1. b + want <= Len(page)
      BY <2>9 DEF RestAt
    <3>2. ASSUME NEW i \in 1..c
          PROVE  wire[i] = page[b + i]
      <4>1. i \in 1..want /\ 0 + i <= Len(wire) /\ 0 + i = i
        BY <2>2, <2>5, <2>10
      <4>2. wire[0 + i] = page[b + i]
        BY <2>9, <4>1 DEF RestAt
      <4> QED
        BY <4>1, <4>2
    <3> QED
      BY <2>2, <2>10, <3>1, <3>2
  <2>12. z = b + c /\ \A i \in 1..z : part'[kind][i] = page[i]
    <3>1. Written(SubSeq(wire, 1, c))
      BY <2>1, <2>5
    <3> QED
      BY <2>2, <2>5, <2>11, <3>1, Appended DEF b
  <2> HIDE DEF z
  <2>13. pc' \in {"crlf", "data"} /\ (pc' = "crlf" => want' = 0) /\ want' = want - c
    BY <2>1, <2>5
  <2>14. Done' = z
    BY <2>1, <2>13 DEF Done, z
  <2>15. BodyKept'
    BY <2>1, <2>5, <2>11, <2>12, <2>13 DEF BodyKept, z
  <2>16. ReaderOK' /\ PlainStream'
    BY <2>5, <2>7, <2>13 DEF ReaderOK, PlainStream
  <2>17. ChunkStream'
    <3>0. PICK S : S = Shifted(O, c)
      OBVIOUS
    <3>1. /\ Marked(S, wire', page)
          /\ \A d, off, k \in Nat : c <= d /\ RestAt(O, wire, page, d, off, k) =>
                 RestAt(S, wire', page, d - c, off, k)
          /\ \A sent : Complete(O, wire, sent) => Complete(S, wire', sent)
      BY <2>2, <2>5, <2>9, <3>0, MarksShift
    <3>2. RestAt(O, wire, page, c, b + c, want - c)
      <4>1. RestAt(O, wire, page, 0 + c, b + c, want - c)
        BY <2>2, <2>9, <2>10, RestAdvance
      <4>2. 0 + c = c
        BY <2>5
      <4> QED
        BY <4>1, <4>2
    <3>3. RestAt(S, wire', page, 0, b + c, want - c)
      <4>1. /\ b + c \in Nat /\ want - c \in Nat /\ c <= c /\ c - c = 0
        BY <2>2, <2>5, <2>10
      <4>2. RestAt(S, wire', page, c - c, b + c, want - c)
        BY <2>5, <3>1, <3>2, <4>1
      <4> QED
        BY <4>1, <4>2
    <3>4. conn' = "open" => Complete(S, wire', Sent')
      BY <2>5, <2>6, <2>8, <3>1 DEF ChunkMarks
    <3>5. ChunkMarks(S)'
      BY <2>5, <2>12, <2>13, <2>14, <3>1, <3>3, <3>4 DEF ChunkMarks
    <3> QED
      BY <3>5 DEF ChunkStream
  <2> QED
    BY <2>6, <2>15, <2>16, <2>17 DEF SInv
<1> QED
  BY <1>1, <1>2

\* A line is read: its symbols are gone, nothing is written.
LEMMA LineRead ==
  ASSUME HInv, SInv, LineEnds # {}, Consume(LineLen), UNCHANGED <<kind, part>>,
         pc \in {"size", "crlf", "last"},
         pc' \in {"size", "data", "last", "store"},
         pc' \in {"last", "store"} => Len(part[kind]) = Len(page)
  PROVE  /\ framing = "chunked"
         /\ LineLen \in 0..Len(wire) /\ LineLen \in Nat
         /\ wire' = SubSeq(wire, LineLen + 1, Len(wire))
         /\ page' = page /\ framing' = framing /\ left' = left /\ conn' = conn
         /\ conn # "asked" /\ Sent' = Sent /\ Done' = Done /\ Done = Len(part[kind])
         /\ ServerOK' /\ BodyKept' /\ ReaderOK' /\ PlainStream'
<1>1. Len(wire) \in Nat
  BY StreamTypes
<1>2. LineLen \in 1..Len(wire) /\ LineLen \in Nat
  BY FirstLineEnd DEF HInv
<1>3. LineLen \in 0..Len(wire) /\ LineLen = Min2(LineLen, Len(wire))
  <2>1. LineLen < Len(wire) \/ LineLen = Len(wire)
    BY <1>1, <1>2
  <2> QED
    BY <1>1, <1>2, <2>1 DEF Min2
<1>4. /\ wire' = SubSeq(wire, LineLen + 1, Len(wire))
      /\ page' = page /\ framing' = framing /\ left' = left /\ conn' = conn
  BY <1>2, <1>3, Reading
<1>5. ServerOK' /\ conn # "asked" /\ conn' # "asked" /\ Sent' = Sent
  BY <1>4, ServerLeft
<1>6. framing = "chunked"
  BY DEF SInv, ReaderOK
<1>7. Done' = Done /\ Done = Len(part[kind])
  BY DEF Done
<1>8. BodyKept'
  BY <1>4 DEF SInv, BodyKept, InBody
<1>9. ReaderOK' /\ PlainStream'
  BY <1>4, <1>6 DEF ReaderOK, PlainStream
<1> QED
  BY <1>2, <1>3, <1>4, <1>5, <1>6, <1>7, <1>8, <1>9

\* The size of a chunk and the line it stands in.
LEMMA SizeRead ==
  ASSUME HInv, LineEnds # {}, NEW k \in DOMAIN Digit, NEW e \in Nat,
         SizeAt(wire, 1, k, e)
  PROVE  SizeOf(wire[1]) = k /\ LineLen = e + 2
<1>1. Len(wire) \in Nat /\ k \in 1..9
  BY StreamTypes, DigitNumbers
<1>2. SizeOf(wire[1]) = k
  <2>1. wire[1] = Digit[k]
    BY DEF SizeAt
  <2>2. \A i, j \in DOMAIN Digit : Digit[i] = Digit[j] => i = j
    BY DEF Digit
  <2> QED
    BY <2>1, <2>2 DEF SizeOf
<1>3. /\ LineLen \in LineEnds /\ LineLen \in 1..Len(wire) /\ LineLen \in Nat
      /\ \A j \in LineEnds : LineLen <= j
  BY FirstLineEnd DEF HInv
<1>4. wire[LineLen] = "nl" /\ LineLen <= Min2(LineCap, Len(wire))
  BY <1>1, <1>3, BufferSizes DEF LineEnds, Min2
<1>5. wire[1] # "nl"
  <2>1. Digit[k] # "nl"
    BY <1>1 DEF Digit
  <2> QED
    BY <2>1 DEF SizeAt
<1>6. LineLen >= e + 2
  <2> SUFFICES ASSUME LineLen < e + 2
               PROVE  FALSE
    BY <1>3
  <2>1. LineLen = 1 \/ LineLen \in (1 + 1)..(1 + e)
    BY <1>3
  <2>2. LineLen <= Len(wire)
    BY <1>1, <1>3
  <2> QED
    BY <1>4, <1>5, <2>1, <2>2 DEF SizeAt
<1>7. e + 2 \in LineEnds
  <2>1. 1 + e + 1 = e + 2 /\ e + 2 <= Len(wire)
    BY <1>1, <1>3, <1>6
  <2>2. wire[e + 2] = "nl"
    BY <2>1 DEF SizeAt
  <2>3. Min2(LineCap, Len(wire)) \in Nat
    BY <1>1, BufferSizes DEF Min2
  <2>4. e + 2 \in 1..Min2(LineCap, Len(wire))
    BY <1>3, <1>4, <1>6, <2>3
  <2> QED
    BY <2>2, <2>4 DEF LineEnds
<1>8. LineLen = e + 2
  BY <1>3, <1>6, <1>7
<1> QED
  BY <1>2, <1>8

LEMMA ReadSizeStream ==
  ASSUME HInv, SInv, ReadSize
  PROVE  SInv'
<1> DEFINE n == SizeOf(wire[1])
<1>1. CASE Fail
  BY <1>1, EndStream DEF Fail
<1>2. CASE ~Fail
  <2>1. /\ pc = "size" /\ LineEnds # {} /\ Consume(LineLen)
        /\ want' = n /\ pc' = IF n = 0 THEN "last" ELSE "data"
        /\ UNCHANGED <<kind, part>>
    BY <1>2 DEF ReadSize, ReadLine
  <2>2. /\ page \in Seq(Symbols) /\ wire \in Seq(Symbols)
        /\ Len(page) \in Nat /\ Len(wire) \in Nat /\ Done \in Nat
    BY <2>1, StreamTypes
  <2>3. framing = "chunked" /\ conn # "asked"
    BY <2>1 DEF SInv, ReaderOK, ServerOK
  <2>4. PICK O : ChunkMarks(O)
    BY <2>1, <2>3 DEF SInv, ChunkStream
  <2>5. Marked(O, wire, page) /\ 1 \in DOMAIN O /\ O[1] = Done
    BY <2>1, <2>4 DEF ChunkMarks
  <2>6. 1 <= Len(wire)
    BY <2>1, <2>2, FirstLineEnd DEF HInv
  <2>7. Done = Len(part[kind])
    BY <2>1 DEF Done
  <2>8. ChunkAt(O, wire, page, 1) \/ LastAt(O, wire, page, 1)
    BY <2>5, <2>6 DEF Marked
  <2>9. CASE LastAt(O, wire, page, 1)
    <3>1. wire[1] = "0" /\ Len(part[kind]) = Len(page)
      BY <2>5, <2>7, <2>9 DEF LastAt
    <3>2. n = 0
      <4>1. \A i \in DOMAIN Digit : Digit[i] # "0"
        BY DEF Digit
      <4> QED
        BY <3>1, <4>1 DEF SizeOf
    <3> HIDE DEF n
    <3>3. pc' = "last"
      BY <2>1, <3>2
    <3>4. ServerOK' /\ BodyKept' /\ ReaderOK' /\ PlainStream'
      BY <2>1, <3>1, <3>3, LineRead
    <3>5. ChunkStream'
      BY <3>3 DEF ChunkStream
    <3> QED
      BY <3>4, <3>5 DEF SInv
  <2>10. CASE ChunkAt(O, wire, page, 1)
    <3>1. PICK k \in DOMAIN Digit, e \in Nat :
              SizeAt(wire, 1, k, e) /\ RestAt(O, wire, page, 1 + e + 1, O[1], k)
      BY <2>10 DEF ChunkAt
    <3>2. n = k /\ LineLen = e + 2 /\ k \in Nat /\ k # 0
      BY <2>1, <3>1, SizeRead, DigitNumbers
    <3> HIDE DEF n
    <3>3. pc' = "data" /\ want' = k
      BY <2>1, <3>2
    <3>4. /\ LineLen \in 0..Len(wire) /\ LineLen \in Nat
          /\ wire' = SubSeq(wire, LineLen + 1, Len(wire))
          /\ page' = page /\ framing' = framing /\ left' = left /\ conn' = conn
          /\ Sent' = Sent /\ Done' = Done
          /\ ServerOK' /\ BodyKept' /\ ReaderOK' /\ PlainStream'
      BY <2>1, <3>3, LineRead
    <3>5. PICK S : S = Shifted(O, LineLen)
      OBVIOUS
    <3>6. /\ Marked(S, wire', page)
          /\ \A d, off, j \in Nat :
                 LineLen <= d /\ RestAt(O, wire, page, d, off, j) =>
                     RestAt(S, wire', page, d - LineLen, off, j)
          /\ \A sent : Complete(O, wire, sent) => Complete(S, wire', sent)
      BY <2>2, <2>5, <3>4, <3>5, MarksShift
    <3>7. RestAt(S, wire', page, 0, Done, k)
      <4>1. 1 + e + 1 = LineLen /\ LineLen - LineLen = 0 /\ LineLen <= LineLen
        BY <3>2
      <4>2. RestAt(O, wire, page, LineLen, Done, k)
        BY <2>5, <3>1, <4>1
      <4> QED
        BY <2>2, <3>2, <3>4, <3>6, <4>1, <4>2
    <3>8. conn' = "open" => Complete(S, wire', Sent')
      BY <2>4, <3>4, <3>6 DEF ChunkMarks
    <3>9. ChunkMarks(S)'
      BY <3>3, <3>4, <3>6, <3>7, <3>8 DEF ChunkMarks
    <3> QED
      BY <3>4, <3>9 DEF SInv, ChunkStream
  <2> QED
    BY <2>8, <2>9, <2>10
<1> QED
  BY <1>1, <1>2

LEMMA ReadCrlfStream ==
  ASSUME HInv, SInv, ReadCrlf
  PROVE  SInv'
<1>1. CASE Fail
  BY <1>1, EndStream DEF Fail
<1>2. CASE ~Fail
  <2>1. /\ pc = "crlf" /\ LineEnds # {} /\ Consume(LineLen)
        /\ want' = 0 /\ pc' = "size" /\ UNCHANGED <<kind, part>>
    BY <1>2 DEF ReadCrlf, ReadLine
  <2>2. /\ page \in Seq(Symbols) /\ wire \in Seq(Symbols)
        /\ Len(page) \in Nat /\ Len(wire) \in Nat /\ Done \in Nat
    BY <2>1, StreamTypes
  <2>3. /\ framing = "chunked" /\ conn # "asked"
        /\ LineLen \in 0..Len(wire) /\ LineLen \in Nat
        /\ wire' = SubSeq(wire, LineLen + 1, Len(wire))
        /\ page' = page /\ framing' = framing /\ left' = left /\ conn' = conn
        /\ Sent' = Sent /\ Done' = Done
        /\ ServerOK' /\ BodyKept' /\ ReaderOK' /\ PlainStream'
    BY <2>1, LineRead
  <2>4. PICK O : ChunkMarks(O)
    BY <2>1, <2>3 DEF SInv, ChunkStream
  <2>5. Marked(O, wire, page) /\ RestAt(O, wire, page, 0, Done, 0)
    BY <2>1, <2>4 DEF ChunkMarks
  <2>6. 2 \in DOMAIN O /\ O[2] = Done /\ (1 <= Len(wire) => wire[1] = "nl")
    <3>1. 0 + 0 + 2 = 2 /\ 0 + 0 + 1 = 1 /\ Done + 0 = Done
      BY <2>2
    <3> QED
      BY <2>5, <3>1 DEF RestAt
  <2>7. LineLen = 1
    <3>1. /\ LineLen \in LineEnds /\ LineLen \in 1..Len(wire)
          /\ \A j \in LineEnds : LineLen <= j
      BY <2>1, FirstLineEnd DEF HInv
    <3>2. 1 <= Len(wire)
      BY <2>2, <3>1
    <3>3. 1 \in 1..Min2(LineCap, Len(wire))
      <4>1. LineCap \in Nat /\ LineCap # 0
        BY HttpAssumption
      <4> QED
        BY <2>2, <3>2, <4>1 DEF Min2
    <3>4. 1 \in LineEnds
      BY <2>6, <3>2, <3>3 DEF LineEnds
    <3> QED
      BY <2>2, <2>3, <3>1, <3>4
  <2> DEFINE S == Shifted(O, 1)
  <2>8. /\ Marked(S, wire', page)
        /\ \A sent : Complete(O, wire, sent) => Complete(S, wire', sent)
        /\ \A p \in DOMAIN O : p > 1 => p - 1 \in DOMAIN S /\ S[p - 1] = O[p]
    BY <2>2, <2>3, <2>5, <2>7, MarksShift
  <2> HIDE DEF S
  <2>9. 1 \in DOMAIN S /\ S[1] = Done
    <3>1. 2 > 1 /\ 2 - 1 = 1
      OBVIOUS
    <3> QED
      BY <2>6, <2>8, <3>1
  <2>10. conn' = "open" => Complete(S, wire', Sent')
    BY <2>3, <2>4, <2>8 DEF ChunkMarks
  <2>11. ChunkMarks(S)'
    BY <2>1, <2>3, <2>8, <2>9, <2>10 DEF ChunkMarks
  <2> QED
    BY <2>3, <2>11 DEF SInv, ChunkStream
<1> QED
  BY <1>1, <1>2

LEMMA ReadLastStream ==
  ASSUME HInv, SInv, ReadLast
  PROVE  SInv'
<1>1. CASE Fail
  BY <1>1, EndStream DEF Fail
<1>2. CASE ~Fail
  <2>1. /\ pc = "last" /\ LineEnds # {} /\ Consume(LineLen)
        /\ want' = 0 /\ pc' = "store" /\ UNCHANGED <<kind, part>>
    BY <1>2 DEF ReadLast, ReadLine
  <2>2. Len(part[kind]) = Len(page)
    <3>1. framing = "chunked"
      BY <2>1 DEF SInv, ReaderOK
    <3> QED
      BY <2>1, <3>1 DEF SInv, BodyKept, InBody
  <2>3. ServerOK' /\ BodyKept' /\ ReaderOK' /\ PlainStream'
    BY <2>1, <2>2, LineRead
  <2>4. ChunkStream'
    BY <2>1 DEF ChunkStream
  <2> QED
    BY <2>3, <2>4 DEF SInv
<1> QED
  BY <1>1, <1>2

LEMMA SInvStep ==
  ASSUME HInv, SInv, [HttpNext]_httpVars
  PROVE  SInv'
<1>1. ASSUME NEW k \in Kinds, NEW p \in Pages, NEW f \in Framings, Request(k, p, f)
      PROVE  SInv'
  <2>1. /\ pc' = "headers" /\ page' = p /\ framing' = f /\ left' = p
        /\ wire' = <<>> /\ conn' = "asked"
    BY <1>1 DEF Request
  <2>2. p \in Seq(Symbols) /\ Len(p) \in Nat
    BY TextSymbols, LenProperties
  <2>3. Sent' = 0
    <3>1. Sent' = Len(page') - Len(left')
      BY DEF Sent
    <3> QED
      BY <2>1, <2>2, <3>1
  <2>4. ServerOK'
    BY <2>1, <2>2, <2>3 DEF ServerOK
  <2> QED
    BY <2>1, <2>4 DEF SInv, BodyKept, InBody, ReaderOK, PlainStream,
       ChunkStream
<1>2. CASE ServerSteps
  BY <1>2, SendHeadStream, SendBytesStream, SendChunkStream, SendLastStream,
     FinishStream DEF ServerSteps
<1>3. CASE \E n \in 0..Len(wire), how \in Ends : Break(n, how)
  BY <1>3, BreakStream
<1>4. CASE ClientSteps
  <2>1. CASE Store
    BY <2>1, EndStream DEF Store, Fail
  <2> QED
    BY <1>4, <2>1, ReadHeadStream, KnownStream, ReadSizeStream,
       ChunkReadStream,
       ReadCrlfStream, ReadLastStream, UntilCloseStream
       DEF ClientSteps, ReadKnown, ReadChunk
<1>5. CASE NoBody
  BY <1>5, EndStream DEF NoBody, Fail
<1>6. CASE Kill
  BY <1>6, EndStream DEF Kill
<1>7. CASE UNCHANGED httpVars
  BY <1>7 DEF httpVars, server, client, SInv, ServerOK, BodyKept, InBody,
     ReaderOK,
     PlainStream, ChunkStream, ChunkMarks, Begin, Done, Sent
<1> QED
  BY <1>1, <1>2, <1>3, <1>4, <1>5, <1>6, <1>7 DEF HttpNext

LEMMA SInvHolds == HttpSpec => []SInv
<1>1. HttpInit => SInv
  BY DEF HttpInit, SInv, ServerOK, BodyKept, InBody, ReaderOK, PlainStream,
     ChunkStream
<1>2. HInv /\ SInv /\ [HttpNext]_httpVars => SInv'
  BY SInvStep
<1> QED
  BY <1>1, <1>2, HInvHolds, PTL DEF HttpSpec

\* Two sequences of one length with the same members are one.
LEMMA BodyIs ==
  ASSUME HInv, SInv, InBody
  PROVE  /\ Len(part[kind]) \in Nat /\ Len(part[kind]) <= Len(page)
         /\ part[kind] = SubSeq(page, 1, Len(part[kind]))
<1> DEFINE b == part[kind]
           s == SubSeq(page, 1, Len(b))
<1>1. /\ page \in Seq(Symbols) /\ Len(page) \in Nat
      /\ b \in Seq(Symbols) /\ Len(b) \in Nat
  BY StreamTypes
<1>2. Len(b) <= Len(page) /\ \A i \in 1..Len(b) : b[i] = page[i]
  BY DEF SInv, BodyKept
<1> HIDE DEF b
<1>3. Len(b) \in 0..Len(page)
  BY <1>1, <1>2
<1>4. s \in Seq(Symbols) /\ Len(s) = Len(b) /\ \A i \in 1..Len(b) : s[i] = page[i]
  BY <1>1, <1>3, Cuts, SubSeqIndex
<1> HIDE DEF s
<1>5. b = s
  BY <1>1, <1>2, <1>4, SeqEqual
<1> QED
  BY <1>1, <1>2, <1>5 DEF s, b

\* What a download has written is the page from its first byte, however it
\* came, and all of it where the code takes an announced end for reached
\* (http_transport_socket.c:448-528, 721-805).
THEOREM DownloadInSync == HttpSpec => []InSync
<1>1. ASSUME HInv, SInv
      PROVE  InSync
  <2> SUFFICES ASSUME InBody
               PROVE  LET n == Len(part[kind])
                      IN  /\ n <= Len(page) /\ part[kind] = SubSeq(page, 1, n)
                          /\ pc \in {"last", "store"} /\ framing # "close" =>
                                 n = Len(page)
    BY DEF InSync, InBody
  <2> QED
    BY <1>1, BodyIs DEF SInv, BodyKept
<1> QED
  BY <1>1, HInvHolds, SInvHolds, PTL
-----------------------------------------------------------------------------
(***************************************************************************)
(* The download implements Transfer: a call that starts, succeeds or fails *)
(* does so there, and every other step is not seen by the caller.          *)
(***************************************************************************)
Unseen ==
    /\ UNCHANGED <<page, framing, kind, dest, result>>
    /\ (pc' = "idle" <=> pc = "idle")

LEMMA UnseenStutters == Unseen => UNCHANGED T!vars
  BY DEF Unseen, T!vars

LEMMA FailFails ==
  ASSUME pc # "idle", pc' = "idle", Hangup, UNCHANGED <<kind, dest>>,
         result' \in {"error", "killed"}
  PROVE  T!Next
<1>1. UNCHANGED <<page, framing>>
  BY DEF Hangup
<1>2. T!Fail
  BY <1>1 DEF T!Fail
<1> QED
  BY <1>2 DEF T!Next

LEMMA StoreSucceeds ==
  ASSUME HInv, Bounded, SInv, Store, ~Fail
  PROVE  T!Next
<1> DEFINE n == Len(part[kind])
<1>1. /\ pc = "store" /\ pc' = "idle" /\ dest' = part[kind] /\ result' = "ok"
      /\ Hangup /\ kind' = kind
  BY DEF Store
<1>2. UNCHANGED <<page, framing>>
  BY <1>1 DEF Hangup
<1>3. InBody
  BY <1>1 DEF InBody
<1>4. n \in Nat /\ n <= Len(page) /\ part[kind] = SubSeq(page, 1, n)
  BY <1>3, BodyIs
<1>5. n = Len(page) \/ framing = "close"
  BY <1>1, <1>3 DEF SInv, BodyKept
<1>6. kind = "memory" => n <= MaxFetch
  BY <1>3 DEF Bounded
<1> HIDE DEF n
<1>7. n \in 0..Len(page)
  <2>1. Len(page) \in Nat
    BY StreamTypes
  <2> QED
    BY <1>4, <2>1
<1>8. T!Succeed(n)
  BY <1>1, <1>2, <1>4, <1>5, <1>6 DEF T!Succeed
<1> QED
  BY <1>7, <1>8 DEF T!Next

LEMMA TransferStep ==
  ASSUME HInv, Bounded, SInv, [HttpNext]_httpVars
  PROVE  [T!Next]_(T!vars)
<1>1. ASSUME NEW k \in Kinds, NEW p \in Pages, NEW f \in Framings, Request(k, p, f)
      PROVE  T!Next
  <2>1. T!Start(k, p)
    BY <1>1 DEF Request, T!Start
  <2> QED
    BY <2>1 DEF T!Next, Kinds
<1>2. CASE \/ ServerSteps
           \/ \E n \in 0..Len(wire), how \in Ends : Break(n, how)
           \/ UNCHANGED httpVars
  <2>1. UNCHANGED client
    BY <1>2, OthersQuiet
  <2>2. UNCHANGED <<page, framing>>
    BY <1>2 DEF ServerSteps, SendHead, SendBytes, SendChunk, SendLast, Finish,
       Break, httpVars, server
  <2> QED
    BY <2>1, <2>2, UnseenStutters DEF client, Unseen
<1>3. ASSUME Fail, pc # "idle"
      PROVE  T!Next
  BY <1>3, FailFails DEF Fail
<1>4. CASE ClientSteps
  <2>1. pc # "idle"
    BY <1>4 DEF ClientSteps, ReadHead, ReadKnown, ReadSize, ReadChunk,
       ReadCrlf,
       ReadLast, ReadUntilClose, Store, Data, ReadLine
  <2>2. CASE Fail
    BY <1>3, <2>1, <2>2
  <2>3. CASE Store /\ ~Fail
    BY <2>3, StoreSucceeds
  <2>4. CASE ~Fail /\ ~Store
    <3>1. pc' # "idle"
      BY <1>4, <2>4, CallSteps
    <3>2. UNCHANGED <<kind, dest, result, page, framing>>
      BY <1>4, <2>4 DEF ClientSteps, ReadHead, ReadKnown, ReadSize, ReadChunk,
         ReadCrlf, ReadLast, ReadUntilClose, Data, ReadLine, Consume
    <3> QED
      BY <2>1, <3>1, <3>2, UnseenStutters DEF Unseen
  <2> QED
    BY <2>2, <2>3, <2>4
<1>5. CASE NoBody
  BY <1>3, <1>5 DEF NoBody
<1>6. CASE Kill
  BY <1>6, FailFails DEF Kill
<1> QED
  BY <1>1, <1>2, <1>4, <1>5, <1>6 DEF HttpNext

\* Every download is all or nothing, as Transfer says it: the caller holds a
\* whole page or what it held before, and no page above the limit of a fetch.
THEOREM HttpImplementsTransfer == HttpSpec => ImplementsTransfer
<1>1. HttpInit => T!Init
  BY DEF HttpInit, T!Init, Kinds
<1>2. HInv /\ Bounded /\ SInv /\ [HttpNext]_httpVars => [T!Next]_(T!vars)
  BY TransferStep
<1> QED
  BY <1>1, <1>2, HInvHolds, BoundedHolds, SInvHolds, PTL
     DEF HttpSpec, ImplementsTransfer, T!Spec
==============================================================================
