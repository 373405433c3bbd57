----------------------------- MODULE RequestBody -----------------------------
(***************************************************************************)
(* HttpRequest's body interface (src/src/httprequest.cc) as the frames of    *)
(* one request reach it through HttpSession's nghttp2 callbacks.             *)
(*                                                                         *)
(* The handler is dispatched while a frame is being received, after chunks   *)
(* of that frame may already have arrived.  It takes the body in one of four *)
(* styles: co_await body(), a loop of co_await data(), on_body or on_data,   *)
(* and may first wait for something else (a query, say) before it asks.      *)
(* cont is the rest of the nghttp2 callback that runs when the handler is    *)
(* next suspended or done; "idle" is the event loop.                         *)
(***************************************************************************)
EXTENDS Integers, Sequences

CONSTANTS
  MaxChunks,    \* bound: chunks of DATA the client sends
  MaxWaits,     \* bound: times the handler waits for something else
  Styles        \* how the handler takes the body

ASSUME BodyAssumption ==
  /\ MaxChunks \in Nat /\ MaxWaits \in Nat
  /\ Styles \subseteq {"body", "data", "on_body", "on_data"}

VARIABLES
  phase, endedBy,               \* the request: before HEADERS, open, closed, gone
  inFrame,                      \* chunks of a DATA frame seen
  recv,                         \* chunks received: they are 1 .. recv
  body, buffered, ready,        \* body_, buffered_, data_ready_
  chunkMode,                    \* data_chunk_mode_
  bodyCoro, dataCoro,           \* the coroutine handles: none, waiting, dead
  onBody, onData,               \* the callbacks are set
  handler, style, waits,        \* the handler coroutine
  cont,                         \* rest of the nghttp2 callback
  delivered, eofs, got,         \* what the handler received (history)
  ub                            \* a dead frame was resumed

request  == <<phase, endedBy, inFrame, recv>>
buffer   == <<body, buffered, ready, chunkMode>>
readers  == <<bodyCoro, dataCoro, onBody, onData>>
program  == <<handler, style, waits>>
received == <<delivered, eofs, got>>
vars == <<request, buffer, readers, program, cont, received, ub>>

Chunks == 1 .. MaxChunks
Pending == <<0>>        \* got before the whole body is handed over
Received == [i \in 1 .. recv |-> i]

Init ==
  /\ phase = "start" /\ endedBy = "none" /\ inFrame = FALSE /\ recv = 0
  /\ body = <<>> /\ buffered = FALSE /\ ready = FALSE /\ chunkMode = FALSE
  /\ bodyCoro = "none" /\ dataCoro = "none" /\ onBody = FALSE /\ onData = FALSE
  /\ handler = "none" /\ style \in Styles /\ waits = 0
  /\ cont = "idle" /\ delivered = <<>> /\ eofs = 0 /\ got = Pending
  /\ ub = FALSE

Idle == cont = "idle" /\ handler # "run" /\ ~ub
Running == handler = "run" /\ ~ub
Resumable == handler # "run" /\ ~ub

-----------------------------------------------------------------------------
(* The handler's calls *)

\* Mutant: body() returns what is buffered without waiting for the rest.
CallBodyEarly ==
  /\ Running /\ style = "body" /\ bodyCoro = "none"
  /\ chunkMode' = FALSE
  /\ IF ready \/ buffered THEN got' = body /\ bodyCoro' = "dead" /\ UNCHANGED handler
                          ELSE bodyCoro' = "waiting" /\ handler' = "inBody" /\ UNCHANGED got
  /\ UNCHANGED <<request, body, buffered, ready, dataCoro, onBody, onData, style,
                 waits, cont, delivered, eofs, ub>>

\* body(): waits unless handle_body found no one to give the body to.
CallBody ==
  /\ Running /\ style = "body" /\ bodyCoro = "none"
  /\ chunkMode' = FALSE
  /\ IF ready THEN got' = body /\ bodyCoro' = "dead" /\ UNCHANGED handler
              ELSE bodyCoro' = "waiting" /\ handler' = "inBody" /\ UNCHANGED got
  /\ UNCHANGED <<request, body, buffered, ready, dataCoro, onBody, onData, style,
                 waits, cont, delivered, eofs, ub>>

\* Mutant: data() leaves buffered_ set.
CallDataKeepsBuffered ==
  /\ Running /\ style = "data" /\ eofs = 0
  /\ chunkMode' = TRUE
  /\ \/ /\ buffered
        /\ delivered' = delivered \o body
        /\ dataCoro' = "dead" /\ UNCHANGED <<body, buffered, handler, eofs>>
     \/ /\ ~buffered /\ body' = <<>>
        /\ IF ready THEN eofs' = eofs + 1 /\ dataCoro' = "dead" /\ UNCHANGED handler
                    ELSE dataCoro' = "waiting" /\ handler' = "inData" /\ UNCHANGED eofs
        /\ UNCHANGED <<buffered, delivered>>
  /\ UNCHANGED <<request, ready, bodyCoro, onBody, onData, style, waits, cont, got, ub>>

\* Mutant: data() looks at data_ready_ before it looks at buffered_.
CallDataEofFirst ==
  /\ Running /\ style = "data" /\ eofs = 0
  /\ chunkMode' = TRUE
  /\ IF ready THEN eofs' = 1 /\ dataCoro' = "dead" /\ UNCHANGED <<body, buffered, handler, delivered>>
     ELSE /\ UNCHANGED eofs
          /\ IF buffered
             THEN /\ buffered' = FALSE /\ delivered' = delivered \o body
                  /\ dataCoro' = "dead" /\ UNCHANGED <<body, handler>>
             ELSE /\ body' = <<>> /\ dataCoro' = "waiting" /\ handler' = "inData"
                  /\ UNCHANGED <<buffered, delivered>>
  /\ UNCHANGED <<request, ready, bodyCoro, onBody, onData, style, waits, cont, got, ub>>

\* data(): what was buffered before anyone asked, else the next chunk; the
\* empty view, eof, once the body was handed over and is complete.
CallData ==
  /\ Running /\ style = "data" /\ eofs = 0
  /\ chunkMode' = TRUE
  /\ \/ /\ buffered /\ buffered' = FALSE
        /\ delivered' = delivered \o body
        /\ dataCoro' = "dead" /\ UNCHANGED <<body, handler, eofs>>
     \/ /\ ~buffered /\ body' = <<>>
        /\ IF ready THEN eofs' = eofs + 1 /\ dataCoro' = "dead" /\ UNCHANGED handler
                    ELSE dataCoro' = "waiting" /\ handler' = "inData" /\ UNCHANGED eofs
        /\ UNCHANGED <<buffered, delivered>>
  /\ UNCHANGED <<request, ready, bodyCoro, onBody, onData, style, waits, cont, got, ub>>

CallOnBody ==
  /\ Running /\ style = "on_body" /\ ~onBody
  /\ chunkMode' = FALSE /\ onBody' = TRUE
  /\ UNCHANGED <<request, body, buffered, ready, bodyCoro, dataCoro, onData, program,
                 cont, received, ub>>

CallOnData ==
  /\ Running /\ style = "on_data" /\ ~onData
  /\ chunkMode' = TRUE /\ onData' = TRUE /\ buffered' = FALSE
  /\ delivered' = IF buffered THEN delivered \o body ELSE delivered
  /\ UNCHANGED <<request, body, ready, bodyCoro, dataCoro, onBody, program, cont,
                 eofs, got, ub>>

\* The handler waits for something that is not the body, or ends.
WaitElsewhere ==
  /\ Running /\ waits < MaxWaits
  /\ handler' = "busy" /\ waits' = waits + 1
  /\ UNCHANGED <<request, buffer, readers, style, cont, received, ub>>

WaitEnds ==
  /\ Idle /\ phase # "gone" /\ handler = "busy" /\ handler' = "run"
  /\ UNCHANGED <<request, buffer, readers, style, waits, cont, received, ub>>

HandlerEnds ==
  /\ Running /\ handler' = "done"
  /\ UNCHANGED <<request, buffer, readers, style, waits, cont, received, ub>>

-----------------------------------------------------------------------------
(* handle_data and handle_body *)

\* data_coro_ is never reset: unless data() is suspended it is the handle of a
\* frame that no longer exists, and resuming it is undefined.
ResumeData(eof) ==
  IF dataCoro = "waiting"
  THEN /\ dataCoro' = "dead" /\ handler' = "run" /\ UNCHANGED ub
       /\ IF eof THEN eofs' = eofs + 1 /\ UNCHANGED delivered
                 ELSE delivered' = Append(delivered, recv') /\ UNCHANGED eofs
  ELSE ub' = TRUE /\ UNCHANGED <<dataCoro, handler, eofs, delivered>>

\* handle_data: one chunk, number recv', or eof.
HandleData(eof) ==
  \/ /\ chunkMode /\ dataCoro # "none" /\ ResumeData(eof)
     /\ UNCHANGED <<body, buffered>>
  \/ /\ chunkMode /\ dataCoro = "none" /\ onData
     /\ IF eof THEN eofs' = eofs + 1 /\ UNCHANGED delivered
               ELSE delivered' = Append(delivered, recv') /\ UNCHANGED eofs
     /\ UNCHANGED <<body, buffered, dataCoro, handler, ub>>
  \/ /\ ~chunkMode \/ (dataCoro = "none" /\ ~onData)
     /\ buffered' = TRUE /\ body' = IF eof THEN body ELSE Append(body, recv')
     /\ UNCHANGED <<dataCoro, handler, ub, eofs, delivered>>

\* Mutant: a body nobody has asked for yet is not marked as ready.
HandleBodyForgets ==
  \/ /\ chunkMode /\ HandleData(TRUE) /\ UNCHANGED <<bodyCoro, got, ready>>
  \/ /\ ~chunkMode
     /\ \/ bodyCoro # "none" /\ bodyCoro' = "dead" /\ handler' = "run" /\ got' = body
        \/ bodyCoro = "none" /\ onBody /\ got' = body /\ UNCHANGED <<bodyCoro, handler>>
        \/ bodyCoro = "none" /\ ~onBody /\ UNCHANGED <<bodyCoro, handler, got>>
     /\ UNCHANGED <<body, buffered, dataCoro, ub, eofs, delivered, ready>>

\* handle_body: the request's data ended.
HandleBody ==
  \/ /\ chunkMode /\ HandleData(TRUE) /\ UNCHANGED <<bodyCoro, got, ready>>
  \/ /\ ~chunkMode
     /\ \/ bodyCoro # "none" /\ bodyCoro' = "dead" /\ handler' = "run" /\ got' = body
             /\ UNCHANGED ready
        \/ bodyCoro = "none" /\ onBody /\ got' = body
             /\ UNCHANGED <<bodyCoro, handler, ready>>
        \/ bodyCoro = "none" /\ ~onBody /\ ready' = TRUE
             /\ UNCHANGED <<bodyCoro, handler, got>>
     /\ UNCHANGED <<body, buffered, dataCoro, ub, eofs, delivered>>

-----------------------------------------------------------------------------
(* The nghttp2 callbacks *)

\* prepare_response, the first time: the route's handler starts.
Dispatch == handler' = IF handler = "none" THEN "run" ELSE handler

\* The request's HEADERS; with END_STREAM the handler is dispatched here.
RecvHeaders ==
  /\ Idle /\ phase = "start"
  /\ \/ phase' = "open" /\ UNCHANGED <<endedBy, handler>>
     \/ phase' = "closed" /\ endedBy' = "headers" /\ Dispatch
  /\ UNCHANGED <<inFrame, recv, buffer, readers, style, waits, cont, received, ub>>

\* Trailers end the request with a HEADERS frame.
RecvTrailers ==
  /\ Idle /\ phase = "open" /\ ~inFrame
  /\ phase' = "closed" /\ endedBy' = "headers" /\ Dispatch
  /\ UNCHANGED <<inFrame, recv, buffer, readers, style, waits, cont, received, ub>>

\* on_data_chunk_recv_cb.
RecvChunk ==
  /\ Idle /\ phase = "open" /\ recv < MaxChunks
  /\ recv' = recv + 1 /\ inFrame' = TRUE
  /\ HandleData(FALSE)
  /\ UNCHANGED <<phase, endedBy, ready, chunkMode, bodyCoro, onBody, onData,
                 style, waits, cont, got>>

\* on_frame_recv_cb for DATA: dispatch, then handle_body if the frame ends the
\* stream.  The case has no break and runs on into the one for HEADERS, which
\* resets timers and may send 100 again; the body interface it leaves alone.
RecvData ==
  /\ Idle /\ phase = "open"
  /\ inFrame' = FALSE /\ Dispatch
  /\ \/ UNCHANGED <<phase, endedBy, cont>>
     \/ cont' = "handle_body" /\ phase' = "closed" /\ endedBy' = "data"
  /\ UNCHANGED <<recv, buffer, readers, style, waits, received, ub>>

RunHandleBody ==
  /\ Resumable /\ cont = "handle_body" /\ cont' = "idle"
  /\ HandleBody
  /\ UNCHANGED <<request, chunkMode, onBody, onData, style, waits>>

\* The stream is closed for any reason; its handler is destroyed with it.
Close ==
  /\ Idle /\ phase \notin {"start", "gone"} /\ phase' = "gone"
  /\ UNCHANGED <<endedBy, inFrame, recv, buffer, readers, program, cont,
                 received, ub>>

Handler == \/ CallBody \/ CallData \/ CallOnBody \/ CallOnData
           \/ WaitElsewhere \/ WaitEnds \/ HandlerEnds
Frames  == \/ RecvHeaders \/ RecvTrailers \/ RecvChunk \/ RecvData
           \/ RunHandleBody \/ Close
Next == Handler \/ Frames
Spec == Init /\ [][Next]_vars

-----------------------------------------------------------------------------
(* Properties *)

\* Types; the handler is only where its style can put it (httprequest.h:15-61).
TypeOK ==
  /\ phase \in {"start", "open", "closed", "gone"} /\ endedBy \in {"none", "headers", "data"}
  /\ inFrame \in BOOLEAN /\ recv \in 0 .. MaxChunks
  /\ \A s \in {body, delivered} : Len(s) <= recv /\ \A i \in DOMAIN s : s[i] \in Chunks
  /\ buffered \in BOOLEAN /\ ready \in BOOLEAN /\ chunkMode \in BOOLEAN /\ ub \in BOOLEAN
  /\ {bodyCoro, dataCoro} \subseteq {"none", "waiting", "dead"}
  /\ onBody \in BOOLEAN /\ onData \in BOOLEAN
  /\ handler \in {"none", "run", "busy", "inBody", "inData", "done"}
  /\ style \in Styles /\ waits \in 0 .. MaxWaits
  /\ cont \in {"idle", "handle_body"}
  /\ eofs \in 0 .. 1
  /\ got = Pending \/ \A i \in DOMAIN got : got[i] \in Chunks

\* body() and on_body hand over every byte of the body, in order, however long
\* the handler took to ask, and only after the last DATA frame.
BodyIsWhole == got # Pending => got = Received /\ endedBy = "data"

\* data() and on_data neither lose, repeat nor reorder a chunk: what the handler
\* has, then what waits in body_, is what was received.  Chunks that met no
\* reader and chunks that met one must fit together.
DataIntact ==
  (style \in {"data", "on_data"} /\ ~ub)
    => delivered \o (IF buffered THEN body ELSE <<>>) = Received

\* Eof is signalled after the last byte and only for a body DATA ended.
EofIsLast ==
  (eofs = 1 /\ style \in {"data", "on_data"})
    => endedBy = "data" /\ delivered = Received

\* A handler left suspended in body() or data() when its request has ended is
\* one whose request was ended by a HEADERS frame: handle_body is called for
\* DATA alone, and nothing will ever resume that handler.
WaitsOnlyAfterTrailers ==
  (Idle /\ phase = "closed" /\ handler \in {"inBody", "inData"}) => endedBy = "headers"

\* httprequest.cc:52, "data may be buffered before coroutine/callback is
\* registered": a chunk that finds no coroutine suspended in data() is kept and
\* never resumes a coroutine that is gone.
DataWaitsForReader == ub => endedBy = "data"
=============================================================================
