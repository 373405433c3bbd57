-------------------------- MODULE RequestBody_proofs --------------------------
(***************************************************************************)
(* The body interface of one request hands over what was received, for any   *)
(* number of chunks and waits and every style of handler.                  *)
(***************************************************************************)
EXTENDS RequestBody, SequenceTheorems, TLAPS

USE BodyAssumption

\* What the variables hold: flags, places, counters, and the sequences of chunks.
Flags ==
  /\ inFrame \in BOOLEAN /\ buffered \in BOOLEAN /\ ready \in BOOLEAN
  /\ chunkMode \in BOOLEAN /\ ub \in BOOLEAN /\ onBody \in BOOLEAN /\ onData \in BOOLEAN

Control ==
  /\ phase \in {"start", "open", "closed", "gone"} /\ endedBy \in {"none", "headers", "data"}
  /\ bodyCoro \in {"none", "waiting", "dead"} /\ dataCoro \in {"none", "waiting", "dead"}
  /\ handler \in {"none", "run", "busy", "inBody", "inData", "done"}
  /\ style \in Styles /\ cont \in {"idle", "handle_body"}
  /\ recv \in 0 .. MaxChunks /\ waits \in 0 .. MaxWaits /\ eofs \in 0 .. 1

Contents ==
  /\ body \in Seq(Chunks) /\ Len(body) <= recv
  /\ delivered \in Seq(Chunks) /\ Len(delivered) <= recv
  /\ got = Pending \/ got \in Seq(Chunks)

Typed == Flags /\ Control /\ Contents

\* Only the members of the handler's style are used, and a coroutine's handle is that of a
\* suspended frame exactly while the handler is suspended there.
Readers ==
  /\ bodyCoro # "none" => style = "body"
  /\ dataCoro # "none" => style = "data"
  /\ onBody => style = "on_body"
  /\ onData => style = "on_data"
  /\ chunkMode <=> dataCoro # "none" \/ onData
  /\ handler = "inBody" <=> bodyCoro = "waiting"
  /\ handler = "inData" <=> dataCoro = "waiting"

\* handle_body is called once, after the last DATA frame; nothing signals the end before,
\* and a handler that asks later finds that the end was signalled or is marked.
Ending ==
  /\ phase \in {"start", "open"} => endedBy = "none"
  /\ phase = "closed" => endedBy # "none"
  /\ cont = "handle_body" => phase = "closed" /\ endedBy = "data"
  /\ eofs = 1 => chunkMode /\ ~ub
  /\ endedBy # "data" \/ cont = "handle_body" => ~ready /\ eofs = 0 /\ got = Pending
  /\ endedBy = "data" /\ cont = "idle" /\ ~ub
       => /\ handler \notin {"inBody", "inData"}
          /\ style = "body" => ready \/ bodyCoro # "none"
          /\ style = "data" => ready \/ eofs = 1

\* Until a handler takes chunks, body_ has them all; from then on body_ is not used any
\* more and the handler has them all.
Buffer ==
  /\ ~chunkMode => body = Received /\ delivered = <<>> /\ (buffered <=> recv > 0)
  /\ chunkMode => ~buffered /\ (~ub => delivered = Received)
  /\ got # Pending => got = Received

-----------------------------------------------------------------------------
(* What was received *)

LEMMA ReceivedType ==
  ASSUME recv \in Nat
  PROVE  /\ Received \in Seq(1 .. recv) /\ Len(Received) = recv
         /\ Received = <<>> <=> recv = 0
  BY DEF Received

LEMMA ReceivedNext ==
  ASSUME recv \in Nat, recv' = recv + 1
  PROVE  Received' = Append(Received, recv')
  BY DEF Received

LEMMA NothingBefore == \A s \in Seq(Chunks) : <<>> \o s = s /\ s \o <<>> = s
  BY ConcatEmptySeq

-----------------------------------------------------------------------------
(* The types *)

LEMMA TypedInit == Init => Typed
<1>1. Init => Flags
  BY Zenon DEF Init, Flags
<1>2. Init => Control
  BY DEF Init, Control
<1>3. Init => Contents
  BY DEF Init, Contents
<1> QED
  BY <1>1, <1>2, <1>3 DEF Typed

LEMMA FlagsStep == Flags /\ [Next]_vars => Flags'
<1> SUFFICES ASSUME Flags, [Next]_vars PROVE Flags'
  OBVIOUS
<1> USE DEF Flags, request, buffer, readers, program, received
<1>1. CASE Handler
  BY <1>1, Zenon DEF Handler, CallBody, CallData, CallOnBody, CallOnData, WaitElsewhere,
                     WaitEnds, HandlerEnds
<1>2. CASE RecvHeaders \/ RecvTrailers \/ RecvData \/ Close
  BY <1>2, Zenon DEF RecvHeaders, RecvTrailers, RecvData, Close
<1>3. CASE RecvChunk
  BY <1>3, Zenon DEF RecvChunk, HandleData, ResumeData
<1>4. CASE RunHandleBody
  BY <1>4, Zenon DEF RunHandleBody, HandleBody, HandleData, ResumeData
<1>5. CASE UNCHANGED vars
  BY <1>5, Zenon DEF vars
<1> QED
  BY <1>1, <1>2, <1>3, <1>4, <1>5 DEF Next, Frames

LEMMA ControlStep == Control /\ Ending /\ [Next]_vars => Control'
<1> SUFFICES ASSUME Control, Ending, [Next]_vars PROVE Control'
  OBVIOUS
<1> USE DEF request, buffer, readers, program, received, Running, Idle, Resumable, Control
<1>1. CASE CallBody \/ CallOnBody \/ CallOnData
  BY <1>1 DEF CallBody, CallOnBody, CallOnData
<1>2. CASE CallData
  BY <1>2 DEF CallData
<1>3. CASE WaitElsewhere \/ WaitEnds \/ HandlerEnds
  BY <1>3 DEF WaitElsewhere, WaitEnds, HandlerEnds
<1>4. CASE RecvHeaders \/ RecvTrailers \/ Close
  BY <1>4 DEF RecvHeaders, RecvTrailers, Close, Dispatch
<1>5. CASE RecvData
  BY <1>5 DEF RecvData, Dispatch
<1>6. CASE RecvChunk
  BY <1>6 DEF RecvChunk, HandleData, ResumeData
<1>7. CASE RunHandleBody
  <2>1. eofs = 0
    BY <1>7 DEF Ending, RunHandleBody
  <2> QED
    BY <1>7, <2>1 DEF RunHandleBody, HandleBody, HandleData, ResumeData
<1>8. CASE UNCHANGED vars
  BY <1>8 DEF vars
<1> QED
  BY <1>1, <1>2, <1>3, <1>4, <1>5, <1>6, <1>7, <1>8 DEF Next, Handler, Frames

LEMMA ContentsStep == Typed /\ Buffer /\ [Next]_vars => Contents'
<1> SUFFICES ASSUME Typed, Buffer, [Next]_vars PROVE Contents'
  OBVIOUS
<1> USE DEF request, buffer, readers, program, received
<1>1. /\ body \in Seq(Chunks) /\ Len(body) <= recv /\ recv \in Nat
      /\ delivered \in Seq(Chunks) /\ Len(delivered) <= recv
      /\ got = Pending \/ got \in Seq(Chunks)
  BY DEF Typed, Contents, Control
<1>2. buffered => delivered \o body = body
  BY <1>1, NothingBefore DEF Buffer
<1>3. <<>> \in Seq(Chunks) /\ Len(<<>>) <= recv
  BY <1>1
<1>4. CASE Handler
  <2>1. recv' = recv
    BY <1>4 DEF Handler, CallBody, CallData, CallOnBody, CallOnData, WaitElsewhere, WaitEnds,
                HandlerEnds
  <2>2. /\ body' \in {body, <<>>} /\ got' \in {got, body}
        /\ delivered' # delivered => buffered /\ delivered' = delivered \o body
    <3>1. CASE CallData
      BY <3>1, Zenon DEF CallData
    <3>2. CASE CallOnData
      BY <3>2, Zenon DEF CallOnData
    <3>3. CASE CallBody
      BY <3>3, Zenon DEF CallBody
    <3> QED
      BY <1>4, <3>1, <3>2, <3>3 DEF Handler, CallOnBody, WaitElsewhere, WaitEnds, HandlerEnds
  <2> QED
    BY <1>1, <1>2, <1>3, <2>1, <2>2 DEF Contents
<1>5. CASE RecvChunk
  <2>1. recv' \in Chunks /\ recv' = recv + 1 /\ got' = got
    BY <1>1, <1>5 DEF RecvChunk, Chunks
  <2>2. /\ body' = body \/ body' = Append(body, recv')
        /\ delivered' = delivered \/ delivered' = Append(delivered, recv')
    BY <1>5 DEF RecvChunk, HandleData, ResumeData
  <2>3. \A s \in Seq(Chunks) :
          Append(s, recv') \in Seq(Chunks) /\ Len(Append(s, recv')) = Len(s) + 1
    BY <2>1
  <2>4. Len(body) <= recv' /\ Len(delivered) <= recv' /\ recv' \in Nat
    BY <1>1, <2>1
  <2>5. ASSUME NEW s \in Seq(Chunks), Len(s) <= recv
        PROVE  Append(s, recv') \in Seq(Chunks) /\ Len(Append(s, recv')) <= recv'
    <3>1. Len(s) \in Nat /\ recv \in Nat
      BY <1>1, LenProperties
    <3>2. Len(Append(s, recv')) = Len(s) + 1 /\ Append(s, recv') \in Seq(Chunks)
      BY <2>3
    <3> QED
      BY <2>1, <2>5, <3>1, <3>2
  <2>6. body' \in Seq(Chunks) /\ Len(body') <= recv'
    BY <1>1, <2>2, <2>4, <2>5, Zenon
  <2>7. delivered' \in Seq(Chunks) /\ Len(delivered') <= recv'
    BY <1>1, <2>2, <2>4, <2>5, Zenon
  <2> QED
    BY <1>1, <2>1, <2>6, <2>7 DEF Contents
<1>6. CASE RunHandleBody
  <2>1. UNCHANGED <<recv, body, delivered>> /\ got' \in {got, body}
    BY <1>6 DEF RunHandleBody, HandleBody, HandleData, ResumeData
  <2> QED
    BY <1>1, <2>1 DEF Contents
<1>7. CASE RecvHeaders \/ RecvTrailers \/ RecvData \/ Close
  BY <1>1, <1>7 DEF Contents, RecvHeaders, RecvTrailers, RecvData, Close
<1>8. CASE UNCHANGED vars
  BY <1>1, <1>8 DEF Contents, vars
<1> QED
  BY <1>4, <1>5, <1>6, <1>7, <1>8 DEF Next, Frames

-----------------------------------------------------------------------------
(* Readers *)

LEMMA ReadersStep == Control /\ Readers /\ [Next]_vars => Readers'
<1> SUFFICES ASSUME Control, Readers, [Next]_vars PROVE Readers'
  OBVIOUS
<1> USE DEF request, buffer, readers, program, received, Running, Idle, Resumable, Control, Readers
<1>1. CASE Handler
  BY <1>1 DEF Handler, CallBody, CallData, CallOnBody, CallOnData, WaitElsewhere, WaitEnds,
              HandlerEnds
<1>2. CASE RecvHeaders \/ RecvTrailers \/ RecvData \/ Close
  BY <1>2 DEF RecvHeaders, RecvTrailers, RecvData, Close, Dispatch
<1>3. CASE RecvChunk
  BY <1>3 DEF RecvChunk, HandleData, ResumeData
<1>4. CASE RunHandleBody
  BY <1>4 DEF RunHandleBody, HandleBody, HandleData, ResumeData
<1>5. CASE UNCHANGED vars
  BY <1>5 DEF vars
<1> QED
  BY <1>1, <1>2, <1>3, <1>4, <1>5 DEF Next, Frames

-----------------------------------------------------------------------------
(* The end of the body *)

LEMMA EndingStep == Control /\ Readers /\ Ending /\ [Next]_vars => Ending'
<1> SUFFICES ASSUME Control, Readers, Ending, [Next]_vars PROVE Ending'
  OBVIOUS
<1> USE DEF request, buffer, readers, program, received, Running, Idle, Resumable, Control, Ending
<1>1. CASE CallBody \/ CallOnBody
  BY <1>1 DEF CallBody, CallOnBody, Readers
<1>2. CASE CallData
  BY <1>2 DEF CallData, Readers
<1>3. CASE CallOnData
  BY <1>3 DEF CallOnData, Readers
<1>4. CASE WaitElsewhere \/ WaitEnds \/ HandlerEnds
  BY <1>4 DEF WaitElsewhere, WaitEnds, HandlerEnds
<1>5. CASE RecvHeaders \/ RecvTrailers
  BY <1>5 DEF RecvHeaders, RecvTrailers, Dispatch
<1>6. CASE RecvData \/ Close
  BY <1>6 DEF RecvData, Close, Dispatch
<1>7. CASE RecvChunk
  BY <1>7 DEF RecvChunk, HandleData, ResumeData
<1>8. CASE RunHandleBody
  BY <1>8 DEF RunHandleBody, HandleBody, HandleData, ResumeData, Readers
<1>9. CASE UNCHANGED vars
  BY <1>9 DEF vars
<1> QED
  BY <1>1, <1>2, <1>3, <1>4, <1>5, <1>6, <1>7, <1>8, <1>9 DEF Next, Frames, Handler

-----------------------------------------------------------------------------
(* What is handed over *)

\* As long as nothing is received, Received is what it was.
LEMMA ReceivedKept == recv' = recv => Received' = Received
  BY DEF Received

LEMMA BufferHandler ==
  Typed /\ Readers /\ Ending /\ Buffer /\ Handler => Buffer'
<1> SUFFICES ASSUME Typed, Readers, Ending, Buffer, Handler PROVE Buffer'
  OBVIOUS
<1> USE DEF request, buffer, readers, program, received, Running
<1>1. recv \in Nat /\ body \in Seq(Chunks)
  BY DEF Typed, Flags, Control, Contents
<1>2. recv' = recv /\ Received' = Received
  BY ReceivedKept DEF Handler, CallBody, CallData, CallOnBody, CallOnData, WaitElsewhere,
                      WaitEnds, HandlerEnds
<1>3. CASE CallBody
  BY <1>2, <1>3 DEF Buffer, CallBody, Typed, Flags, Control, Readers
<1>4. CASE CallData
  <2>1. CASE buffered
    <3>1. ~chunkMode /\ delivered \o body = Received
      BY <1>1, <2>1, NothingBefore DEF Buffer
    <3> QED
      BY <1>2, <1>4, <2>1, <3>1 DEF Buffer, CallData, Typed, Flags, Control, Contents
  <2>2. CASE ~buffered
    <3>1. delivered = Received
      BY <1>1, <1>4, <2>2, ReceivedType DEF Buffer, CallData, Typed, Flags, Control, Contents
    <3> QED
      BY <1>2, <1>4, <2>2, <3>1 DEF Buffer, CallData, Typed, Flags, Control, Contents
  <2> QED
    BY <2>1, <2>2
<1>5. CASE CallOnBody
  BY <1>2, <1>5 DEF Buffer, CallOnBody, Readers, Typed, Flags, Control, Contents
<1>6. CASE CallOnData
  <2>1. ~chunkMode
    BY <1>6 DEF CallOnData, Readers
  <2>2. (IF buffered THEN delivered \o body ELSE delivered) = Received
    BY <1>1, <2>1, NothingBefore, ReceivedType DEF Buffer, Typed, Flags, Control, Contents
  <2> QED
    BY <1>2, <1>6, <2>2 DEF Buffer, CallOnData
<1>7. CASE WaitElsewhere \/ WaitEnds \/ HandlerEnds
  BY <1>2, <1>7 DEF Buffer, WaitElsewhere, WaitEnds, HandlerEnds
<1> QED
  BY <1>3, <1>4, <1>5, <1>6, <1>7 DEF Handler

LEMMA BufferFrames ==
  Typed /\ Readers /\ Ending /\ Buffer /\ Frames => Buffer'
<1> SUFFICES ASSUME Typed, Readers, Ending, Buffer, Frames PROVE Buffer'
  OBVIOUS
<1> USE DEF request, buffer, readers, program, received, Idle, Resumable
<1>1. CASE RecvHeaders \/ RecvTrailers \/ RecvData \/ Close
  BY <1>1, ReceivedKept DEF Buffer, RecvHeaders, RecvTrailers, RecvData, Close
<1>2. CASE RecvChunk
  <2>1. recv \in Nat /\ recv' = recv + 1 /\ Received' = Append(Received, recv')
    BY <1>2, ReceivedNext DEF Typed, Flags, Control, RecvChunk
  <2>2. got = Pending /\ got' = got
    BY <1>2 DEF Ending, RecvChunk
  <2>3. CASE chunkMode
    <3>1. buffered' = buffered /\ chunkMode' = chunkMode
      BY <1>2, <2>3 DEF RecvChunk, HandleData, Readers
    <3>2. ub' \/ delivered' = Append(delivered, recv')
      BY <1>2, <2>3 DEF RecvChunk, HandleData, ResumeData, Readers
    <3>3. ~ub
      BY <1>2 DEF RecvChunk
    <3> QED
      BY <2>1, <2>2, <2>3, <3>1, <3>2, <3>3 DEF Buffer
  <2>4. CASE ~chunkMode
    <3>1. UNCHANGED <<chunkMode, delivered>> /\ buffered' /\ body' = Append(body, recv')
      BY <1>2, <2>4 DEF RecvChunk, HandleData
    <3> QED
      BY <2>1, <2>2, <2>4, <3>1 DEF Buffer
  <2> QED
    BY <2>3, <2>4 DEF Typed, Flags, Control, Contents
<1>3. CASE RunHandleBody
  <2>1. recv' = recv /\ Received' = Received /\ chunkMode' = chunkMode
    BY <1>3, ReceivedKept DEF RunHandleBody
  <2>2. CASE chunkMode
    <3>1. UNCHANGED <<buffered, got, delivered>>
      BY <1>3, <2>2 DEF RunHandleBody, HandleBody, HandleData, ResumeData, Readers
    <3>2. ~ub
      BY <1>3 DEF RunHandleBody
    <3> QED
      BY <2>1, <2>2, <3>1, <3>2 DEF Buffer
  <2>3. CASE ~chunkMode
    <3>1. UNCHANGED <<body, buffered, delivered>> /\ got' \in {got, body}
      BY <1>3, <2>3 DEF RunHandleBody, HandleBody
    <3> QED
      BY <2>1, <2>3, <3>1 DEF Buffer
  <2> QED
    BY <2>2, <2>3
<1> QED
  BY <1>1, <1>2, <1>3 DEF Frames

-----------------------------------------------------------------------------
(* The invariant, and what it says *)

BodyInv == Typed /\ Readers /\ Ending /\ Buffer

LEMMA BodyInvHolds == Spec => []BodyInv
<1>1. Init => BodyInv
  <2>1. Init => Readers /\ Ending
    BY DEF Init, Readers, Ending
  <2>2. Init => Buffer
    BY ReceivedType DEF Init, Buffer
  <2> QED
    BY <2>1, <2>2, TypedInit DEF BodyInv
<1>2. BodyInv /\ [Next]_vars => BodyInv'
  <2>1. ASSUME BodyInv, UNCHANGED vars PROVE Buffer'
    BY <2>1, ReceivedKept DEF BodyInv, Buffer, vars, request, buffer, readers, program, received
  <2> QED
    BY <2>1, FlagsStep, ControlStep, ContentsStep, ReadersStep, EndingStep, BufferHandler, BufferFrames
       DEF BodyInv, Typed, Next
<1> QED
  BY <1>1, <1>2, PTL DEF Spec

\* httprequest.h:15-61: the members hold what their types and the handler's style allow.
THEOREM TypeCorrect == Spec => []TypeOK
<1>1. Typed => TypeOK
  BY DEF Typed, Flags, Control, Contents, TypeOK
<1> QED
  BY <1>1, BodyInvHolds, PTL DEF BodyInv

\* httprequest.cc:22-48, 88-104: body() and on_body hand over every byte, in order, after the end.
THEOREM WholeBody == Spec => []BodyIsWhole
<1>1. BodyInv => BodyIsWhole
  BY DEF BodyInv, Ending, Buffer, BodyIsWhole
<1> QED
  BY <1>1, BodyInvHolds, PTL

\* httprequest.cc:50-86: data() and on_data neither lose, repeat nor reorder a chunk, as
\* long as no dead coroutine is resumed.
THEOREM IntactData == Spec => []DataIntact
<1>1. BodyInv => DataIntact
  <2> SUFFICES ASSUME BodyInv, ~ub
               PROVE  delivered \o (IF buffered THEN body ELSE <<>>) = Received
    BY DEF DataIntact
  <2>1. body \in Seq(Chunks) /\ delivered \in Seq(Chunks) /\ recv \in Nat
    BY DEF BodyInv, Typed, Flags, Control, Contents
  <2>2. CASE chunkMode
    BY <2>1, <2>2, NothingBefore DEF BodyInv, Buffer
  <2>3. CASE ~chunkMode
    BY <2>1, <2>3, NothingBefore, ReceivedType DEF BodyInv, Buffer
  <2> QED
    BY <2>2, <2>3
<1> QED
  BY <1>1, BodyInvHolds, PTL

\* httprequest.cc:50-104: eof comes after the last byte, of a body that DATA ended.
THEOREM EofAfterAll == Spec => []EofIsLast
<1>1. BodyInv => EofIsLast
  BY DEF BodyInv, Ending, Buffer, Typed, Flags, Control, EofIsLast
<1> QED
  BY <1>1, BodyInvHolds, PTL

\* httpsession.cc:510-525, httprequest.cc:88-104: handle_body is called for DATA alone; a handler
\* that is still suspended after its request has ended had it ended by HEADERS.
THEOREM WaitsAfterTrailers == Spec => []WaitsOnlyAfterTrailers
<1>1. BodyInv => WaitsOnlyAfterTrailers
  BY DEF BodyInv, Ending, Typed, Flags, Control, WaitsOnlyAfterTrailers, Idle
<1> QED
  BY <1>1, BodyInvHolds, PTL
=============================================================================
