-------------------------- MODULE HttpSession_proofs --------------------------
(***************************************************************************)
(* Safety of HttpSession's write pump for every size of wbuf_, every set of  *)
(* frame lengths and any number of frames.                                   *)
(***************************************************************************)
EXTENDS HttpSession, SequenceTheorems, TLAPS

\* Concatenation of byte sequences may be regrouped.
LEMMA Regroup ==
  \A s, t, u \in Seq(Nat) : (s \o t) \o u = s \o (t \o u)
<1> DEFINE S == Nat
<1> SUFFICES ASSUME NEW s \in Seq(S), NEW t \in Seq(S), NEW u \in Seq(S)
             PROVE  (s \o t) \o u = s \o (t \o u)
  OBVIOUS
<1> HIDE DEF S
<1> QED
  BY ConcatAssociative

USE HttpAssumption

-----------------------------------------------------------------------------
(* Sequences of byte numbers *)

\* The bytes handed over next are a sequence of that length.
LEMMA BytesType ==
  ASSUME taken \in Nat, NEW n \in Nat
  PROVE  Bytes(n) \in Seq(Nat) /\ Len(Bytes(n)) = n
  BY DEF Bytes

\* Two runs of consecutive numbers make one.
LEMMA RunsFollow ==
  ASSUME NEW a \in Nat, NEW n \in Nat,
         NEW s \in Seq(Nat), NEW t \in Seq(Nat), NEW u \in Seq(Nat),
         Len(s) = a, Len(t) = n, Len(u) = a + n,
         \A i \in 1 .. a : s[i] = i, \A i \in 1 .. n : t[i] = a + i,
         \A i \in 1 .. (a + n) : u[i] = i
  PROVE  s \o t = u
<1>1. s \o t \in Seq(Nat) /\ Len(s \o t) = a + n
  BY ConcatProperties
<1>2. ASSUME NEW i \in 1 .. (a + n)
      PROVE  (s \o t)[i] = u[i]
  <2>1. (s \o t)[i] = IF i <= a THEN s[i] ELSE t[i - a]
    BY ConcatProperties
  <2>2. CASE i <= a
    BY <2>1, <2>2
  <2>3. CASE i > a
    <3>1. i - a \in 1 .. n
      BY <2>3
    <3> QED
      BY <2>1, <2>3, <3>1
  <2> QED
    BY <2>2, <2>3
<1> QED
  BY <1>1, <1>2, SeqEqual

\* The first bytes, then those handed over next, are the first bytes of the new total.
LEMMA BytesFollow ==
  ASSUME taken \in Nat, NEW n \in Nat
  PROVE  FirstBytes(taken) \o Bytes(n) = FirstBytes(taken + n)
<1>1. /\ FirstBytes(taken) \in Seq(Nat) /\ Len(FirstBytes(taken)) = taken
      /\ \A i \in 1 .. taken : FirstBytes(taken)[i] = i
  BY DEF FirstBytes
<1>2. /\ Bytes(n) \in Seq(Nat) /\ Len(Bytes(n)) = n
      /\ \A i \in 1 .. n : Bytes(n)[i] = taken + i
  BY DEF Bytes
<1>3. /\ FirstBytes(taken + n) \in Seq(Nat) /\ Len(FirstBytes(taken + n)) = taken + n
      /\ \A i \in 1 .. (taken + n) : FirstBytes(taken + n)[i] = i
  BY DEF FirstBytes
<1> QED
  BY <1>1, <1>2, <1>3, RunsFollow

\* A sequence cut in two is the concatenation of the parts.
LEMMA CutAndJoin ==
  ASSUME NEW s \in Seq(Nat), NEW n \in 0 .. Len(s)
  PROVE  /\ SubSeq(s, 1, n) \o SubSeq(s, n + 1, Len(s)) = s
         /\ SubSeq(s, 1, n) \in Seq(Nat) /\ SubSeq(s, n + 1, Len(s)) \in Seq(Nat)
         /\ Len(SubSeq(s, 1, n)) = n
<1>0. Len(s) \in Nat /\ n \in Nat /\ n <= Len(s)
  BY LenProperties
<1>1. SubSeq(s, 1, n) \o SubSeq(s, n + 1, Len(s)) = SubSeq(s, 1, Len(s))
  <2>1. 1 \in 1 .. Len(s) + 1 /\ n \in 1 - 1 .. Len(s) /\ Len(s) \in n .. Len(s)
    BY <1>0
  <2> QED
    BY <2>1, ConcatAdjacentSubSeq
<1>2. SubSeq(s, 1, Len(s)) = s
  BY SubSeqFull
<1>3. \A i \in 1 .. Len(s) : s[i] \in Nat
  BY ElementOfSeq
<1>4. SubSeq(s, 1, n) \in Seq(Nat) /\ Len(SubSeq(s, 1, n)) = n
  <2>1. \A i \in 1 .. n : s[i] \in Nat
    BY <1>0, <1>3
  <2> QED
    BY <1>0, <2>1, SubSeqProperties
<1>5. SubSeq(s, n + 1, Len(s)) \in Seq(Nat)
  <2>1. \A i \in n + 1 .. Len(s) : s[i] \in Nat
    BY <1>0, <1>3
  <2> QED
    BY <1>0, <2>1, SubSeqProperties
<1> QED
  BY <1>1, <1>2, <1>4, <1>5

\* What fits is part of what is pending.
LEMMA FittingFits ==
  ASSUME TypeOK
  PROVE  /\ Fitting \in 0 .. Len(pending) /\ used + Fitting <= Cap
         /\ Fitting < Len(pending) => used + Fitting = Cap
  BY LenProperties DEF Fitting, TypeOK, BufferOK

-----------------------------------------------------------------------------
(* Type correctness *)

\* Init establishes the type invariant.
LEMMA TypeInit == Init => TypeOK
<1> SUFFICES ASSUME Init PROVE TypeOK
  OBVIOUS
<1>1. BufferOK
  BY DEF Init, BufferOK
<1>2. QueueOK
  BY DEF Init, QueueOK
<1>3. PlaceOK
  BY DEF Init, PlaceOK
<1> QED
  BY <1>1, <1>2, <1>3 DEF TypeOK

\* The counts of frames stay in their ranges.
LEMMA QueueStep == TypeOK /\ [Next]_vars => QueueOK'
<1> SUFFICES ASSUME TypeOK, [Next]_vars PROVE QueueOK'
  OBVIOUS
<1> USE DEF TypeOK, QueueOK, None
<1>1. CASE Handshake
  BY <1>1 DEF Handshake, HandshakeWaits, HandshakeFails, HandshakeEnds, Remove, nghttp2
<1>2. CASE Submit \/ StreamTimeout
  BY <1>2 DEF Submit, StreamTimeout, Queue
<1>3. CASE SettingsTimeout
  BY <1>3 DEF SettingsTimeout
<1>4. CASE Receive
  <2>1. held' = held
    BY <1>4 DEF Receive
  <2>2. (queued' = queued /\ frames' = frames) \/ Queue
    BY <1>4, Zenon DEF Receive
  <2> QED
    BY <2>1, <2>2 DEF Queue
<1>5. CASE ReadCb \/ ReadEnds \/ ReadFails
  BY <1>5 DEF ReadCb, ReadEnds, ReadFails, Remove, nghttp2
<1>6. CASE Write
  BY <1>6 DEF Write, WriteCb, SslWrites, SslBlocks, SslFails, Refill, WriteOn, WriteEnds,
              Remove, nghttp2
<1>7. CASE CopyPending \/ FillEnds \/ FillFails
  BY <1>7 DEF CopyPending, FillEnds, FillFails, Remove, nghttp2
<1>8. CASE SendPlain
  BY <1>8 DEF SendPlain
<1>9. CASE SendFrame
  <2>1. PICK n \in IF held = None THEN Lens ELSE {held} : SendData(n)
    BY <1>9 DEF SendFrame
  <2>2. n \in Lens
    BY <2>1
  <2> QED
    BY <1>9, <2>1, <2>2 DEF SendFrame, SendData
<1>10. CASE DropFrame
  BY <1>10 DEF DropFrame
<1>11. CASE UNCHANGED vars
  BY <1>11 DEF vars, nghttp2
<1> QED
  BY <1>1, <1>2, <1>3, <1>4, <1>5, <1>6, <1>7, <1>8, <1>9, <1>10, <1>11
     DEF Next, Read, Fill

\* The flags stay flags; Boolean values are assigned outright or kept.
LEMMA PlaceStep == TypeOK /\ [Next]_vars => PlaceOK'
<1> SUFFICES ASSUME PlaceOK, [Next]_vars PROVE PlaceOK'
  BY DEF TypeOK
<1> USE DEF PlaceOK
<1>1. CASE Handshake
  BY <1>1 DEF Handshake, HandshakeWaits, HandshakeFails, HandshakeEnds, Remove, OnWrite, nghttp2
<1>2. CASE Submit \/ StreamTimeout
  BY <1>2 DEF Submit, StreamTimeout, OnWrite
<1>3. CASE SettingsTimeout
  BY <1>3 DEF SettingsTimeout, Terminate, OnWrite
<1>4. CASE Receive
  BY <1>4 DEF Receive, Terminate, Queue
<1>5. CASE ReadCb \/ ReadEnds \/ ReadFails
  BY <1>5 DEF ReadCb, ReadEnds, ReadFails, Remove, OnWrite, nghttp2
<1>6. CASE Write
  BY <1>6 DEF Write, WriteCb, SslWrites, SslBlocks, SslFails, Refill, WriteOn, WriteEnds,
              Remove, OnWrite, nghttp2
<1>7. CASE CopyPending \/ FillEnds \/ FillFails
  BY <1>7 DEF CopyPending, FillEnds, FillFails, Remove, nghttp2
<1>8. CASE SendPlain
  BY <1>8 DEF SendPlain, StreamMayClose
<1>9. CASE SendFrame
  BY <1>9 DEF SendFrame, SendData, StreamMayClose
<1>10. CASE DropFrame
  BY <1>10 DEF DropFrame
<1>11. CASE UNCHANGED vars
  BY <1>11 DEF vars, nghttp2
<1> QED
  BY <1>1, <1>2, <1>3, <1>4, <1>5, <1>6, <1>7, <1>8, <1>9, <1>10, <1>11
     DEF Next, Read, Fill

\* wbuf_ is never written beyond its end: copies of data_pending_ are cut to
\* what fits, and send_data_cb asks for room before it writes a whole frame.
LEMMA BufferStep == TypeOK /\ [Next]_vars => BufferOK'
<1> SUFFICES ASSUME TypeOK, [Next]_vars PROVE BufferOK'
  OBVIOUS
<1>0. BufferOK /\ QueueOK
  BY DEF TypeOK
<1> USE DEF BufferOK
<1>1. CASE Handshake
  BY <1>0, <1>1 DEF Handshake, HandshakeWaits, HandshakeFails, HandshakeEnds, Remove, buffers
<1>2. CASE Submit \/ StreamTimeout \/ SettingsTimeout
  BY <1>0, <1>2 DEF Submit, StreamTimeout, SettingsTimeout, buffers
<1>3. CASE Read
  BY <1>0, <1>3 DEF Read, ReadCb, Receive, ReadEnds, ReadFails, Remove, buffers
<1>4. CASE SslWrites
  <2>1. wire \o buf \in Seq(Nat)
    BY <1>0, ConcatProperties
  <2>2. Len(<<>>) = 0 /\ <<>> \in Seq(Nat)
    OBVIOUS
  <2> QED
    BY <1>0, <1>4, <2>1, <2>2 DEF SslWrites
<1>5. CASE WriteCb \/ SslBlocks \/ SslFails \/ WriteOn \/ WriteEnds
  BY <1>0, <1>5 DEF WriteCb, SslBlocks, SslFails, WriteOn, WriteEnds, Remove, buffers
<1>6. CASE Refill
  BY <1>0, <1>6 DEF Refill
<1>7. CASE CopyPending
  <2>1. /\ Fitting \in 0 .. Len(pending) /\ used + Fitting <= Cap
    BY FittingFits
  <2>2. /\ SubSeq(pending, 1, Fitting) \in Seq(Nat)
        /\ SubSeq(pending, Fitting + 1, Len(pending)) \in Seq(Nat)
        /\ Len(SubSeq(pending, 1, Fitting)) = Fitting
    BY <1>0, <2>1, CutAndJoin
  <2>3. buf' \in Seq(Nat) /\ Len(buf') = Len(buf) + Fitting
    BY <1>0, <1>7, <2>2, ConcatProperties DEF CopyPending
  <2>4. Len(buf) \in Nat /\ Fitting \in Nat
    BY <1>0, <2>1, LenProperties
  <2> QED
    BY <1>0, <1>7, <2>1, <2>2, <2>3, <2>4 DEF CopyPending
<1>8. CASE SendPlain
  <2>1. PICK n \in Lens : pending' = Bytes(n) /\ taken' = taken + n
    BY <1>8 DEF SendPlain
  <2>2. n \in Nat
    BY <2>1
  <2>3. Bytes(n) \in Seq(Nat)
    BY <1>0, <2>2, BytesType
  <2> QED
    BY <1>0, <1>8, <2>1, <2>2, <2>3 DEF SendPlain
<1>9. CASE SendFrame
  <2>1. PICK n \in IF held = None THEN Lens ELSE {held} : SendData(n)
    BY <1>9 DEF SendFrame
  <2>2. n \in Lens /\ n \in Nat
    BY <1>0, <2>1 DEF QueueOK
  <2>3. CASE UNCHANGED <<buf, used, taken>>
    BY <1>0, <1>9, <2>3 DEF SendFrame
  <2>4. ASSUME NEW k \in Nat, k <= Cap - used,
               buf' = buf \o Bytes(k), used' = used + k, taken' = taken + k
        PROVE  BufferOK'
    <3>1. Bytes(k) \in Seq(Nat) /\ Len(Bytes(k)) = k
      BY <1>0, BytesType
    <3>2. buf' \in Seq(Nat) /\ Len(buf') = Len(buf) + k
      BY <1>0, <2>4, <3>1, ConcatProperties
    <3>3. Len(buf) \in Nat
      BY <1>0, LenProperties
    <3> QED
      BY <1>0, <1>9, <2>4, <3>2, <3>3 DEF SendFrame
  <2>5. Header \in Nat /\ Header + n \in Nat
    BY <2>2
  <2>6. CASE Cap - used < Header + n
    BY <2>1, <2>3, <2>6 DEF SendData
  <2>7. CASE Cap - used >= Header + n
    <3>1. \/ buf' = buf \o Bytes(Header + n) /\ used' = used + (Header + n)
             /\ taken' = taken + (Header + n)
          \/ buf' = buf \o Bytes(Header) /\ used' = used + Header /\ taken' = taken + Header
      <4>1. ~(Cap - used < Header + n)
        BY <1>0, <2>5, <2>7
      <4>2. used + Header + n = used + (Header + n) /\ taken + Header + n = taken + (Header + n)
        BY <1>0, <2>2
      <4> QED
        BY <2>1, <4>1, <4>2, Zenon DEF SendData
    <3>2. Header + n <= Cap - used /\ Header <= Cap - used
      BY <1>0, <2>2, <2>5, <2>7
    <3>3. CASE buf' = buf \o Bytes(Header + n) /\ used' = used + (Header + n)
               /\ taken' = taken + (Header + n)
      BY <2>4, <2>5, <3>2, <3>3
    <3>4. CASE buf' = buf \o Bytes(Header) /\ used' = used + Header /\ taken' = taken + Header
      BY <2>4, <2>5, <3>2, <3>4
    <3> QED
      BY <3>1, <3>3, <3>4
  <2> QED
    BY <1>0, <2>2, <2>5, <2>6, <2>7
<1>10. CASE DropFrame \/ FillEnds \/ FillFails
  BY <1>0, <1>10 DEF DropFrame, FillEnds, FillFails, Remove, buffers
<1>11. CASE UNCHANGED vars
  BY <1>0, <1>11 DEF vars, buffers
<1> QED
  BY <1>1, <1>2, <1>3, <1>4, <1>5, <1>6, <1>7, <1>8, <1>9, <1>10, <1>11
     DEF Next, Write, Fill

\* Every step keeps the types.
LEMMA TypeStep == TypeOK /\ [Next]_vars => TypeOK'
  BY QueueStep, PlaceStep, BufferStep DEF TypeOK

\* The session's types, and wbuf_ within its bounds, for every capacity and every
\* set of frame lengths a DATA frame of which fits an empty wbuf_.
THEOREM TypeCorrect == Spec => []TypeOK
  BY TypeInit, TypeStep, PTL DEF Spec

-----------------------------------------------------------------------------
(* The order of bytes *)

\* Bytes handed over straight into wbuf_ go behind those that wait there, if
\* data_pending_ is empty.
LEMMA DirectInOrder ==
  ASSUME TypeOK, BytesInOrder, pending = <<>>, NEW k \in Nat,
         wire' = wire, pending' = pending, buf' = buf \o Bytes(k), taken' = taken + k
  PROVE  BytesInOrder'
<1>1. /\ wire \in Seq(Nat) /\ buf \in Seq(Nat) /\ taken \in Nat
      /\ wire \o buf \in Seq(Nat) /\ Bytes(k) \in Seq(Nat)
  BY BytesType, ConcatProperties DEF TypeOK, BufferOK
<1>2. wire \o buf = FirstBytes(taken)
  BY <1>1, ConcatEmptySeq DEF BytesInOrder
<1>3. wire \o (buf \o Bytes(k)) = FirstBytes(taken + k)
  <2>1. (wire \o buf) \o Bytes(k) = wire \o (buf \o Bytes(k))
    BY <1>1, Regroup, ZenonT(60)
  <2>2. FirstBytes(taken) \o Bytes(k) = FirstBytes(taken + k)
    BY <1>1, BytesFollow, Zenon
  <2>3. (wire \o buf) \o Bytes(k) = FirstBytes(taken) \o Bytes(k)
    BY <1>2, Zenon
  <2> QED
    BY <2>1, <2>2, <2>3, Zenon
<1>4. (wire \o (buf \o Bytes(k))) \o <<>> = wire \o (buf \o Bytes(k))
  BY <1>1, ConcatProperties, ConcatEmptySeq
<1> QED
  BY <1>3, <1>4 DEF BytesInOrder, FirstBytes

\* Every step keeps the bytes in order.
LEMMA OrderStep == TypeOK /\ BytesInOrder /\ [Next]_vars => BytesInOrder'
<1> SUFFICES ASSUME TypeOK, BytesInOrder, [Next]_vars PROVE BytesInOrder'
  OBVIOUS
<1>0. /\ wire \in Seq(Nat) /\ buf \in Seq(Nat) /\ pending \in Seq(Nat) /\ taken \in Nat
      /\ held \in Lens \cup {None}
  BY DEF TypeOK, BufferOK, QueueOK
<1>a. CASE UNCHANGED <<buf, pending, taken, wire>>
  BY <1>a DEF BytesInOrder, FirstBytes
<1>1. CASE Handshake
  BY <1>1, <1>a DEF Handshake, HandshakeWaits, HandshakeFails, HandshakeEnds, Remove, buffers
<1>2. CASE Submit \/ StreamTimeout \/ SettingsTimeout
  BY <1>2, <1>a DEF Submit, StreamTimeout, SettingsTimeout, buffers
<1>3. CASE Read
  BY <1>3, <1>a DEF Read, ReadCb, Receive, ReadEnds, ReadFails, Remove, buffers
<1>4. CASE SslWrites
  <2>1. (wire \o buf) \o <<>> = wire \o buf
    BY <1>0, ConcatProperties, ConcatEmptySeq
  <2> QED
    BY <1>4, <2>1 DEF SslWrites, BytesInOrder, FirstBytes
<1>5. CASE WriteCb \/ SslBlocks \/ SslFails \/ Refill \/ WriteOn \/ WriteEnds
  BY <1>5, <1>a DEF WriteCb, SslBlocks, SslFails, Refill, WriteOn, WriteEnds, Remove, buffers
<1>6. CASE CopyPending
  <2> DEFINE head == SubSeq(pending, 1, Fitting)
             rest == SubSeq(pending, Fitting + 1, Len(pending))
  <2>1. Fitting \in 0 .. Len(pending)
    BY FittingFits
  <2>2. head \o rest = pending /\ head \in Seq(Nat) /\ rest \in Seq(Nat)
    BY <1>0, <2>1, CutAndJoin
  <2>3. buf' = buf \o head /\ pending' = rest /\ wire' = wire /\ taken' = taken
    BY <1>6 DEF CopyPending
  <2> HIDE DEF head, rest
  <2>4. (wire \o (buf \o head)) \o rest = (wire \o buf) \o (head \o rest)
    <3>1. wire \in Seq(Nat) /\ buf \in Seq(Nat) /\ head \in Seq(Nat) /\ rest \in Seq(Nat)
      BY <1>0, <2>2, Zenon
    <3>2. wire \o buf \in Seq(Nat)
      BY <3>1, ConcatProperties
    <3>3. (wire \o buf) \o head = wire \o (buf \o head)
      BY <3>1, Regroup, ZenonT(60)
    <3>4. ((wire \o buf) \o head) \o rest = (wire \o buf) \o (head \o rest)
      BY <3>1, <3>2, Regroup, ZenonT(60)
    <3> QED
      BY <3>3, <3>4, Zenon
  <2> QED
    <3>1. (wire' \o buf') \o pending' = (wire \o buf) \o pending
      BY <2>2, <2>3, <2>4, Zenon
    <3> QED
      BY <2>3, <3>1, Zenon DEF BytesInOrder, FirstBytes
<1>7. CASE SendPlain
  <2>1. PICK n \in Lens : pending' = Bytes(n) /\ taken' = taken + n
    BY <1>7 DEF SendPlain
  <2>2. n \in Nat
    BY <2>1
  <2>3. wire \o buf = FirstBytes(taken)
    BY <1>0, <1>7, ConcatProperties, ConcatEmptySeq DEF SendPlain, MemSend, BytesInOrder
  <2>4. (wire \o buf) \o Bytes(n) = FirstBytes(taken + n)
    BY <1>0, <2>2, <2>3, BytesFollow
  <2> QED
    BY <1>7, <2>1, <2>4 DEF SendPlain, BytesInOrder, FirstBytes
<1>8. CASE SendFrame
  <2>1. PICK n \in IF held = None THEN Lens ELSE {held} : SendData(n)
    BY <1>8 DEF SendFrame
  <2>2. n \in Nat
    BY <1>0, <2>1 DEF None
  <2>3. wire' = wire /\ pending' = pending /\ pending = <<>>
    BY <1>8 DEF SendFrame
  <2>4. CASE UNCHANGED <<buf, used, taken>>
    BY <1>a, <2>3, <2>4
  <2>5. CASE buf' = buf \o Bytes(Header + n) /\ taken' = taken + Header + n
    <3>1. Header + n \in Nat /\ taken + Header + n = taken + (Header + n)
      BY <1>0, <2>2
    <3> QED
      BY <2>3, <2>5, <3>1, DirectInOrder
  <2>6. CASE buf' = buf \o Bytes(Header) /\ taken' = taken + Header
    BY <2>3, <2>6, DirectInOrder
  <2> QED
    BY <2>1, <2>4, <2>5, <2>6, Zenon DEF SendData
<1>9. CASE DropFrame \/ FillEnds \/ FillFails
  BY <1>9, <1>a DEF DropFrame, FillEnds, FillFails, Remove, buffers
<1>10. CASE UNCHANGED vars
  BY <1>10, <1>a DEF vars, buffers
<1> QED
  BY <1>1, <1>2, <1>3, <1>4, <1>5, <1>6, <1>7, <1>8, <1>9, <1>10
     DEF Next, Write, Fill

\* The client receives the bytes nghttp2 handed over, in that order, however they
\* go through data_pending_ and wbuf_ and wherever a write is blocked.
THEOREM OrderKept == Spec => []BytesInOrder
<1>1. Init => BytesInOrder
  BY DEF Init, BytesInOrder, FirstBytes
<1> QED
  BY <1>1, OrderStep, TypeCorrect, PTL DEF Spec

-----------------------------------------------------------------------------
(* Retries, and the state in which write() leaves the session *)

\* A blocked write is over before wbuf_ is filled again, and what is filled was
\* reset: all that is written into it is still to be read.
FillsFresh == pc \in {"fill", "filled"} => retry = <<>> /\ Len(buf) = used
\* nghttp2 has nothing to send and data_pending_ is empty.
NothingLeft == pending = <<>> /\ held = None /\ queued = 0 /\ ~goaway /\ settings # "queued"
\* If fill_wb filled nothing in, there was nothing.
EmptyMeansNothing == (phase = "open" /\ pc = "filled" /\ buf = <<>>) => NothingLeft

Pump == FillsFresh /\ EmptyMeansNothing /\ RetryWithSameBytes /\ IdleMeansDrained /\ DoneIsClosed

\* A wbuf_ that is filled only as far as frames fit is not empty when one does not.
LEMMA FreshStep == TypeOK /\ FillsFresh /\ RetryWithSameBytes /\ [Next]_vars
                     => FillsFresh' /\ RetryWithSameBytes'
<1> SUFFICES ASSUME TypeOK, FillsFresh, RetryWithSameBytes, [Next]_vars
             PROVE  FillsFresh' /\ RetryWithSameBytes'
  OBVIOUS
<1>0. /\ buf \in Seq(Nat) /\ pending \in Seq(Nat) /\ taken \in Nat /\ used \in Nat
      /\ held \in Lens \cup {None} /\ Len(buf) \in Nat
  BY LenProperties DEF TypeOK, BufferOK, QueueOK
<1> USE DEF FillsFresh, RetryWithSameBytes
<1>a. CASE UNCHANGED <<buf, used, retry>> /\ pc' \notin {"fill", "filled"}
  BY <1>a
<1>b. CASE UNCHANGED <<buf, used, retry, pc>>
  BY <1>b
<1>c. CASE UNCHANGED <<buf, used, retry>> /\ pc = "fill"
  BY <1>c
<1>1. CASE Handshake
  BY <1>1, <1>a, <1>b DEF Handshake, HandshakeWaits, HandshakeFails, HandshakeEnds, Remove,
                          OnWrite, buffers
<1>2. CASE Submit \/ StreamTimeout \/ SettingsTimeout
  BY <1>2, <1>a, <1>b DEF Submit, StreamTimeout, SettingsTimeout, OnWrite, buffers
<1>3. CASE Read
  BY <1>3, <1>a, <1>b DEF Read, ReadCb, Receive, ReadEnds, ReadFails, Remove, OnWrite, buffers
<1>4. CASE SslWrites
  BY <1>4 DEF SslWrites
<1>5. CASE SslBlocks
  BY <1>5 DEF SslBlocks, buffers
<1>6. CASE WriteCb \/ SslFails \/ WriteOn \/ WriteEnds
  BY <1>6, <1>a DEF WriteCb, SslFails, WriteOn, WriteEnds, Remove, OnWrite, buffers
<1>7. CASE Refill
  <2>1. Len(<<>>) = 0
    OBVIOUS
  <2> QED
    BY <1>7, <2>1 DEF Refill
<1>8. CASE CopyPending
  <2>1. Fitting \in 0 .. Len(pending)
    BY FittingFits
  <2>2. SubSeq(pending, 1, Fitting) \in Seq(Nat) /\ Len(SubSeq(pending, 1, Fitting)) = Fitting
    BY <1>0, <2>1, CutAndJoin
  <2>3. Len(buf') = Len(buf) + Fitting /\ used' = used + Fitting
    BY <1>0, <1>8, <2>2, ConcatProperties DEF CopyPending
  <2>4. pc = "fill" /\ retry' = retry
    BY <1>8 DEF CopyPending, Filling
  <2> QED
    BY <2>3, <2>4
<1>9. CASE SendPlain
  BY <1>9, <1>b DEF SendPlain
<1>10. CASE SendFrame
  <2>1. PICK n \in IF held = None THEN Lens ELSE {held} : SendData(n)
    BY <1>10 DEF SendFrame
  <2>2. n \in Nat
    BY <1>0, <2>1 DEF None
  <2>3. pc = "fill" /\ retry' = retry
    BY <1>10 DEF SendFrame, Filling
  <2>4. ASSUME NEW k \in Nat, buf' = buf \o Bytes(k), used' = used + k
        PROVE  Len(buf') = used'
    <3>1. Bytes(k) \in Seq(Nat) /\ Len(Bytes(k)) = k
      BY <1>0, BytesType
    <3>2. Len(buf \o Bytes(k)) = Len(buf) + Len(Bytes(k))
      BY <1>0, <3>1, ConcatProperties
    <3>3. Len(buf) = used
      BY <2>3
    <3> QED
      BY <1>0, <2>4, <3>1, <3>2, <3>3
  <2>5. CASE UNCHANGED <<buf, used>>
    BY <2>3, <2>5
  <2>6. CASE buf' = buf \o Bytes(Header + n) /\ used' = used + Header + n
    <3>1. Header + n \in Nat /\ used + Header + n = used + (Header + n)
      BY <1>0, <2>2, HttpAssumption
    <3>2. Len(buf') = used'
      BY <2>4, <2>6, <3>1
    <3> QED
      BY <2>3, <3>2
  <2>7. CASE buf' = buf \o Bytes(Header) /\ used' = used + Header
    <3>1. Len(buf') = used'
      BY <2>4, <2>7, HttpAssumption
    <3> QED
      BY <2>3, <3>1
  <2> QED
    BY <2>1, <2>5, <2>6, <2>7, Zenon DEF SendData
<1>11. CASE DropFrame \/ FillEnds \/ FillFails
  BY <1>11, <1>a, <1>b, <1>c DEF DropFrame, FillEnds, FillFails, Filling, MemSend, Remove, buffers
<1>12. CASE UNCHANGED vars
  BY <1>12, <1>b DEF vars, buffers
<1> QED
  BY <1>1, <1>2, <1>3, <1>4, <1>5, <1>6, <1>7, <1>8, <1>9, <1>10, <1>11, <1>12
     DEF Next, Write, Fill

\* fill_wb ends with wbuf_ empty only when there was nothing to fill in.
LEMMA EmptyStep == TypeOK /\ FillsFresh /\ EmptyMeansNothing /\ [Next]_vars => EmptyMeansNothing'
<1> SUFFICES ASSUME TypeOK, FillsFresh, EmptyMeansNothing, [Next]_vars,
                    phase' = "open", pc' = "filled", buf' = <<>>
             PROVE  NothingLeft'
  BY DEF EmptyMeansNothing
<1>0. /\ buf \in Seq(Nat) /\ pending \in Seq(Nat) /\ used \in Nat
      /\ held \in Lens \cup {None} /\ Len(buf) \in Nat
  BY LenProperties DEF TypeOK, BufferOK, QueueOK
<1>1. ~(\/ Handshake \/ Submit \/ StreamTimeout \/ SettingsTimeout \/ Read \/ Write
        \/ SendPlain \/ DropFrame \/ FillFails)
  BY DEF Handshake, HandshakeWaits, HandshakeFails, HandshakeEnds, Remove, OnWrite,
         Submit, StreamTimeout, SettingsTimeout, AtLoop, TypeOK, PlaceOK,
         Read, ReadCb, Receive, ReadEnds, ReadFails, Write, WriteCb, SslWrites, SslBlocks,
         SslFails, Refill, WriteOn, WriteEnds, SendPlain, DropFrame, FillFails, MemSend, Filling
<1>2. CASE CopyPending
  <2>1. /\ Fitting \in 0 .. Len(pending) /\ used + Fitting <= Cap
        /\ Fitting < Len(pending) => used + Fitting = Cap
    BY FittingFits
  <2>2. SubSeq(pending, 1, Fitting) \in Seq(Nat) /\ Len(SubSeq(pending, 1, Fitting)) = Fitting
    BY <1>0, <2>1, CutAndJoin
  <2>3. Len(buf') = Len(buf) + Fitting
    BY <1>0, <1>2, <2>2, ConcatProperties DEF CopyPending
  <2>4. Fitting < Len(pending) /\ Len(buf) = used
    BY <1>2 DEF CopyPending, Filling, FillsFresh
  <2>5. Cap > 0
    <3>1. PICK m \in Lens : m \in Nat \ {0} /\ Header + m <= Cap
      BY HttpAssumption
    <3> QED
      BY <3>1, HttpAssumption
  <2>6. Len(buf') = 0
    OBVIOUS
  <2> QED
    BY <1>0, <2>1, <2>3, <2>4, <2>5, <2>6
<1>3. CASE SendFrame
  <2>1. PICK n \in IF held = None THEN Lens ELSE {held} : SendData(n)
    BY <1>3 DEF SendFrame
  <2>2. n \in Nat
    BY <1>0, <2>1 DEF None
  <2>3. pc = "fill" /\ Len(buf) = used
    BY <1>3 DEF SendFrame, Filling, FillsFresh
  <2>4. Cap - used < Header + n /\ buf' = buf
    BY <2>1, <2>3, Zenon DEF SendData
  <2>5. n \in Lens
    BY <1>0, <1>3, <2>1 DEF SendFrame
  <2> QED
    BY <1>0, <2>2, <2>3, <2>4, <2>5
<1>4. CASE FillEnds
  BY <1>4 DEF FillEnds, MemSend, NothingLeft, nghttp2, buffers
<1>5. CASE UNCHANGED vars
  BY <1>5 DEF vars, nghttp2, buffers, EmptyMeansNothing, NothingLeft
<1> QED
  BY <1>1, <1>2, <1>3, <1>4, <1>5 DEF Next, Fill

\* write() is the only way back to the loop with the watcher off, and it takes it
\* when it found nothing to send and the session is not done.
LEMMA IdleStep == /\ TypeOK /\ EmptyMeansNothing /\ IdleMeansDrained /\ DoneIsClosed
                  /\ [Next]_vars
                  => IdleMeansDrained' /\ DoneIsClosed'
<1> SUFFICES ASSUME TypeOK, EmptyMeansNothing, IdleMeansDrained, DoneIsClosed, [Next]_vars,
                    phase' = "open", pc' = "loop", ~wev'
             PROVE  (buf' = <<>> /\ NothingLeft') /\ ~WantsNothing'
  BY Zenon DEF IdleMeansDrained, DoneIsClosed, AtLoop, NothingLeft
<1>1. ~(Handshake \/ Submit \/ StreamTimeout \/ SettingsTimeout \/ Read \/ WriteCb
        \/ SslWrites \/ SslBlocks \/ SslFails \/ Refill \/ WriteOn)
  BY DEF Handshake, HandshakeWaits, HandshakeFails, HandshakeEnds, Remove, OnWrite,
         Submit, StreamTimeout, SettingsTimeout,
         Read, ReadCb, Receive, ReadEnds, ReadFails, WriteCb, SslWrites, SslBlocks,
         SslFails, Refill, WriteOn
<1>4. ~(CopyPending \/ SendPlain \/ DropFrame \/ FillEnds \/ FillFails)
  BY DEF CopyPending, SendPlain, DropFrame, FillEnds, FillFails, Remove, MemSend, Filling
<1>5. ~SendFrame
  <2>1. ASSUME NEW n \in IF held = None THEN Lens ELSE {held}, SendData(n), pc = "fill"
        PROVE  FALSE
    BY <2>1, Zenon DEF SendData
  <2> QED
    BY <2>1 DEF SendFrame, Filling
<1>2. CASE WriteEnds
  <2>1. NothingLeft /\ buf = <<>> /\ ~WantsNothing
    BY <1>2 DEF WriteEnds, EmptyMeansNothing
  <2>2. UNCHANGED <<buffers, nghttp2>>
    BY <1>2 DEF WriteEnds
  <2> QED
    BY <2>1, <2>2 DEF NothingLeft, WantsNothing, buffers, nghttp2
<1>3. CASE UNCHANGED vars
  BY <1>3 DEF vars, nghttp2, buffers, AtLoop, NothingLeft, WantsNothing,
              IdleMeansDrained, DoneIsClosed
<1> QED
  BY <1>1, <1>2, <1>3, <1>4, <1>5 DEF Next, Write, Fill

\* What the pump keeps, together.
LEMMA PumpKept == Spec => []Pump
<1>1. Init => Pump
  BY DEF Init, Pump, FillsFresh, EmptyMeansNothing, RetryWithSameBytes, IdleMeansDrained,
         DoneIsClosed, AtLoop
<1>2. TypeOK /\ Pump /\ [Next]_vars => Pump'
  BY FreshStep, EmptyStep, IdleStep DEF Pump
<1> QED
  BY <1>1, <1>2, TypeCorrect, PTL DEF Spec

\* SSL_write is given again what it could not take, and nothing was added to it.
THEOREM RetryKept == Spec => []RetryWithSameBytes
<1>1. Pump => RetryWithSameBytes
  BY DEF Pump
<1> QED
  BY <1>1, PumpKept, PTL

\* write() stops the watcher only when nghttp2, data_pending_ and wbuf_ are empty.
THEOREM IdleKept == Spec => []IdleMeansDrained
<1>1. Pump => IdleMeansDrained
  BY DEF Pump
<1> QED
  BY <1>1, PumpKept, PTL

\* write() closes a session that nghttp2 is done with.
THEOREM DoneKept == Spec => []DoneIsClosed
<1>1. Pump => DoneIsClosed
  BY DEF Pump
<1> QED
  BY <1>1, PumpKept, PTL
=============================================================================
