------------------------------- MODULE Streams -------------------------------
(***************************************************************************)
(* The streams of one HttpSession: from a client's HEADERS through the       *)
(* handler's response to their end, with the two timers of each              *)
(* (src/src/stream.cc, the nghttp2 callbacks of httpsession.cc).  The        *)
(* write pump is HttpSession's; here nghttp2 sends a frame when it can.       *)
(* nghttp2 and the client are environment.  A window counts units of data;    *)
(* the events that wait in an event stream are units too (EventStream has     *)
(* their queue, and how nghttp2 puts an empty one off).                       *)
(***************************************************************************)
EXTENDS Integers, Sequences, FiniteSetsExt

CONSTANTS
  Ids,          \* streams the client may open
  Expecting,    \* those whose request may have Expect: 100-continue
  Lens,         \* lengths of responses
  Windows,      \* values of SETTINGS_INITIAL_WINDOW_SIZE
  MaxWindow,    \* window of the session at the start
  MaxFrames,    \* bound: DATA, WINDOW_UPDATE and SETTINGS frames of the client
  MaxEvents     \* bound: events that wait in a stream

ASSUME StreamsAssumption ==
  /\ Lens \subseteq Nat /\ Windows \subseteq Nat
  /\ MaxWindow \in Nat /\ MaxFrames \in Nat /\ MaxEvents \in Nat

VARIABLES
  streams,      \* streams_: a record for each stream there is
  flight,       \* the DATA frame that is read but not yet sent: <<>> or <<record>>
  window,       \* the session's window
  initial,      \* the window a stream starts with
  reading,      \* does the client still make room in the socket?
  used,         \* history: ids the client has used
  frames        \* history: DATA, WINDOW_UPDATE and SETTINGS frames received

client == <<initial, reading, used, frames>>
vars == <<streams, flight, window, client>>

Here(s) == s \in DOMAIN streams

\* The constructor; on_begin_headers_cb starts the read timer.
New(win) ==
  [remote |-> "headers",      \* the client's half: headers, open, closed
   expect |-> FALSE,          \* the request has Expect: 100-continue
   prepared |-> FALSE,        \* the handler was called
   body |-> "none",           \* its response: none yet, empty, data (a string, a file), events
   out |-> <<>>,              \* nghttp2: HEADERS frames submitted
   local |-> "none",          \* our half: none, sending (HEADERS are out), done, or failed
   left |-> 0,                \* units of the response, or events, not yet sent
   rst |-> "none",            \* nghttp2: RST_STREAM submitted, the stream is closing
   rtimer |-> TRUE, wtimer |-> FALSE,
   win |-> win,
   lowered |-> FALSE]         \* history: SETTINGS closed its window since its last frame

Init ==
  /\ streams = [s \in {} |-> New(0)] /\ flight = <<>> /\ window = MaxWindow
  /\ initial \in Windows /\ reading = TRUE /\ used = {} /\ frames = 0

Closing(st) == st.rst # "none"
Put(s, st) == streams' = [streams EXCEPT ![s] = st]

\* on_stream_close_cb: the stream is destroyed, with its timers and its handler; nghttp2
\* drops the frame it was about to send.
Close(s) ==
  /\ streams' = [t \in DOMAIN streams \ {s} |-> streams[t]]
  /\ flight' = IF flight # <<>> /\ flight[1].stream = s THEN <<>> ELSE flight

\* submit_rst: nghttp2 takes the first one only.
submit_rst(st, why) ==
  [st EXCEPT !.rtimer = FALSE, !.wtimer = FALSE, !.rst = IF Closing(st) THEN @ ELSE why]

-----------------------------------------------------------------------------
(* Frames of the client *)

on_begin_headers_cb(s) ==
  /\ s \notin used
  /\ used' = used \cup {s}
  /\ streams' = [t \in DOMAIN streams \cup {s} |-> IF t = s THEN New(initial) ELSE streams[t]]
  /\ UNCHANGED <<flight, window, initial, reading, frames>>

\* on_header_cb: more than 64 K of headers; the block goes on and is handled all the same.
TooManyHeaders(s) ==
  /\ Here(s) /\ streams[s].remote = "headers"
  /\ Put(s, submit_rst(streams[s], "error"))
  /\ UNCHANGED <<flight, window, client>>

\* The HEADERS case of on_frame_recv_cb, into which the DATA case runs on.  There the
\* category is read from a frame that has none: it is 0, which is that of a request, so
\* that the client is told to continue once more.
\* Mutant: the timer is restarted whichever frame it was.
Continue(st) == IF st.expect THEN [st EXCEPT !.out = Append(@, "100")] ELSE st
AfterFrameTimed(st, last) == [Continue(st) EXCEPT !.rtimer = TRUE, !.prepared = @ \/ last]
AfterFrame(st, last) ==
  IF last THEN [Continue(st) EXCEPT !.rtimer = FALSE, !.prepared = TRUE]
  ELSE [Continue(st) EXCEPT !.rtimer = TRUE]
Half(last) == IF last THEN "closed" ELSE "open"

\* The headers of the request are complete.
RecvHeaders(s, expect, last) ==
  /\ Here(s) /\ streams[s].remote = "headers" /\ (expect => s \in Expecting)
  /\ Put(s, AfterFrame([streams[s] EXCEPT !.expect = expect, !.remote = Half(last)], last))
  /\ UNCHANGED <<flight, window, client>>

\* nghttp2 closes the stream once both halves are.
Received(s, st) ==
  IF st.remote = "closed" /\ st.local = "done" THEN Close(s)
  ELSE Put(s, st) /\ UNCHANGED flight

Counted == frames < MaxFrames /\ frames' = frames + 1 /\ UNCHANGED <<reading, used>>

\* A DATA frame: on_data_chunk_recv_cb, then on_frame_recv_cb.  nghttp2 drops it for a
\* stream that is closing.
RecvData(s, last) ==
  /\ Here(s) /\ streams[s].remote = "open" /\ ~Closing(streams[s])
  /\ Received(s, AfterFrame([streams[s] EXCEPT !.remote = Half(last), !.prepared = TRUE], last))
  /\ Counted
  /\ UNCHANGED <<window, initial>>

\* Trailers: HEADERS of another category.
RecvTrailers(s) ==
  /\ Here(s) /\ streams[s].remote = "open" /\ ~Closing(streams[s])
  /\ Received(s, [streams[s] EXCEPT !.remote = "closed", !.prepared = TRUE, !.rtimer = FALSE])
  /\ UNCHANGED <<window, client>>

RecvReset(s) ==
  /\ Here(s) /\ Close(s)
  /\ UNCHANGED <<window, client>>

RecvWindowUpdate(s) ==
  /\ Counted
  /\ \/ Here(s) /\ Put(s, [streams[s] EXCEPT !.win = @ + 1]) /\ UNCHANGED window
     \/ window' = window + 1 /\ UNCHANGED streams
  /\ UNCHANGED <<flight, initial>>

\* SETTINGS_INITIAL_WINDOW_SIZE moves the window of every stream, below 0 it may be; no
\* callback of the session looks at it.
Resized(st, by) ==
  [st EXCEPT !.win = @ + by, !.lowered = @ \/ (st.win > 0 /\ st.win + by <= 0)]
RecvSettings(size) ==
  /\ Counted /\ size # initial
  /\ initial' = size
  /\ streams' = [s \in DOMAIN streams |-> Resized(streams[s], size - initial)]
  /\ UNCHANGED <<flight, window>>

\* The client reads no more: the socket is full, and the session's buffer, for good.
StopReading ==
  /\ reading /\ reading' = FALSE
  /\ UNCHANGED <<streams, flight, window, initial, used, frames>>

-----------------------------------------------------------------------------
(* The handler, and the timers *)

Respond(s, body, len, timed) ==
  /\ Here(s) /\ streams[s].prepared /\ streams[s].body = "none"
  /\ Put(s, [streams[s] EXCEPT !.body = body, !.left = len, !.rtimer = @ /\ timed,
                               !.out = Append(@, "200")])
  /\ UNCHANGED <<flight, window, client>>

\* submit_response, by the handler or for a file.
submit_response(s) ==
  Respond(s, "empty", 0, TRUE) \/ \E len \in Lens : Respond(s, "data", len, TRUE)

\* EventSource::create stops the read timer.  A handler that runs within the callback of a
\* frame finds it started again when the callback ends, one that waited does not.
create(s) == \E timed \in BOOLEAN : Respond(s, "events", 0, timed)

\* EventStream::submit: by a handler, a channel, or the ping every two seconds.
submit_event(s) ==
  /\ Here(s) /\ streams[s].body = "events" /\ streams[s].left < MaxEvents
  /\ Put(s, [streams[s] EXCEPT !.left = @ + 1])
  /\ UNCHANGED <<flight, window, client>>

timeout_cb(s) ==
  /\ Here(s) /\ (streams[s].rtimer \/ streams[s].wtimer)
  /\ Put(s, submit_rst(streams[s], "error"))
  /\ UNCHANGED <<flight, window, client>>

-----------------------------------------------------------------------------
(* Frames sent *)

\* on_frame_send_cb for HEADERS and DATA.  st has its windows as they are after the frame.
\* Mutant: the timer is started only by DATA frames, as if HEADERS could not find a
\* closed window.
TimeWriteOfData(st, w, last, data) ==
  IF last THEN [st EXCEPT !.wtimer = FALSE]
  ELSE [st EXCEPT !.wtimer = data /\ Min({st.win, w}) <= 0, !.lowered = FALSE]
TimeWrite(st, w, last, data) ==
  IF last THEN [st EXCEPT !.wtimer = FALSE]
  ELSE [st EXCEPT !.wtimer = Min({st.win, w}) <= 0, !.lowered = FALSE]

\* A frame with END_STREAM is out: nghttp2 closes the stream if the client's half is closed.
Sent(s, st, last) ==
  IF last /\ st.remote = "closed" THEN Close(s)
  ELSE /\ Put(s, IF last THEN [st EXCEPT !.local = "done"] ELSE st)
       /\ flight' = <<>>

SendHeaders(s) ==
  /\ reading /\ flight = <<>> /\ Here(s)
  /\ LET st == streams[s]
         final == Head(st.out) = "200"
         last == final /\ st.body = "empty"
         after == [st EXCEPT !.out = Tail(@), !.local = IF final THEN "sending" ELSE @]
     IN /\ ~Closing(st) /\ st.local # "done" /\ st.out # <<>>
        /\ Sent(s, TimeWrite(after, window, last, FALSE), last)
  /\ UNCHANGED <<window, client>>

\* data_read_cb; at the end of the response to a request that is not complete the client
\* is asked to stop.  Mutants: the timers stay on, and the reset is an error; the stream is
\* reset at each frame.
AtEofQuietly(st, last) ==
  IF last /\ st.remote # "closed" THEN [st EXCEPT !.rtimer = FALSE, !.wtimer = FALSE] ELSE st
AtEofEachFrame(st, last) ==
  IF st.remote # "closed" THEN submit_rst(st, "no error") ELSE st
AtEof(st, last) ==
  IF last /\ st.remote # "closed" THEN submit_rst(st, "no error") ELSE st

ReadData(s) ==
  /\ reading /\ flight = <<>> /\ Here(s)
  /\ LET st == streams[s]
         n == Min({st.left, st.win, window})
         last == st.body = "data" /\ n = st.left
     IN /\ ~Closing(st) /\ st.local = "sending" /\ st.win > 0 /\ window > 0
        /\ st.body = "events" => st.left > 0
        /\ flight' = <<[stream |-> s, len |-> n, last |-> last]>>
        /\ Put(s, AtEof(st, last))
  /\ UNCHANGED <<window, client>>

\* pread fails: DataStream::send stops the timers, nghttp2 drops the frame and resets the
\* stream, unless it is to be reset already.
SendFails ==
  /\ reading /\ flight # <<>> /\ streams[flight[1].stream].body = "data"
  /\ Put(flight[1].stream,
         [submit_rst(streams[flight[1].stream], "error") EXCEPT !.local = "failed"])
  /\ flight' = <<>>
  /\ UNCHANGED <<window, client>>

\* send_data_cb had room for it, perhaps much later.
SendData ==
  /\ reading /\ flight # <<>>
  /\ LET f == flight[1]
         w == window - f.len
         st == [streams[f.stream] EXCEPT !.left = @ - f.len, !.win = @ - f.len]
     IN /\ window' = w
        /\ Sent(f.stream, TimeWrite(st, w, f.last, TRUE), f.last)
  /\ UNCHANGED client

SendReset(s) ==
  /\ reading /\ flight = <<>> /\ Here(s) /\ Closing(streams[s])
  /\ Close(s)
  /\ UNCHANGED <<window, client>>

Client(s) ==
  \/ on_begin_headers_cb(s) \/ TooManyHeaders(s) \/ RecvTrailers(s)
  \/ RecvReset(s) \/ RecvWindowUpdate(s)
  \/ \E last \in BOOLEAN :
       RecvData(s, last) \/ \E expect \in BOOLEAN : RecvHeaders(s, expect, last)
Send(s) == SendHeaders(s) \/ ReadData(s) \/ SendReset(s)

Handler(s) == submit_response(s) \/ create(s)
Next ==
  \/ SendData \/ SendFails \/ StopReading
  \/ \E size \in Windows : RecvSettings(size)
  \/ \E s \in Ids : Client(s) \/ Handler(s) \/ submit_event(s) \/ timeout_cb(s) \/ Send(s)

Spec == Init /\ [][Next]_vars

\* Timers that run go off, handlers answer, event streams are pinged.  For as long as the
\* client reads, nghttp2 sends what it may, each stream in its turn; nothing else is
\* assumed of the client.
FairSpec ==
  /\ Spec /\ WF_vars(SendData \/ SendFails)
  /\ \A s \in Ids : /\ WF_vars(timeout_cb(s)) /\ WF_vars(Handler(s)) /\ WF_vars(submit_event(s))
                    /\ SF_vars(Send(s))

-----------------------------------------------------------------------------
(* Properties *)

\* Until its stream is reset, a request that is complete is not timed, however slow its
\* handler; one that is not complete is, unless its handler has opened an event source,
\* which stops the timer.
ReadTimerIsRight ==
  \A s \in DOMAIN streams :
    LET st == streams[s]
    IN ~Closing(st) => IF st.remote = "closed" THEN ~st.rtimer
                       ELSE st.rtimer \/ st.body = "events"

\* A response that waits for its own stream's window is timed, unless it was SETTINGS that
\* closed the window, and no frame of the stream was sent since.  (One that waits for the
\* session's window is timed only if a frame of its own found it closed.)
OwnWindowIsTimed ==
  \A s \in DOMAIN streams :
    LET st == streams[s]
    IN (~Closing(st) /\ st.local = "sending" /\ st.win <= 0) => st.wtimer \/ st.lowered

\* The client is asked to stop, with RST_STREAM and NO_ERROR, only after a whole response:
\* END_STREAM is sent or is in the frame that goes first; or that frame could not be read
\* from its file, when the reset had been submitted.
NoErrorIsWhole ==
  \A s \in DOMAIN streams :
    streams[s].rst = "no error"
      => \/ streams[s].local \in {"done", "failed"}
         \/ flight # <<>> /\ flight[1].stream = s /\ flight[1].last

\* Every stream comes to its end whatever the client fails to do, but for those that have
\* no timer and wait: for a client that has stopped reading; for the session's window,
\* which other streams used up; or for a window that SETTINGS closed.
WaitsUntimed(s) ==
  /\ Here(s) /\ ~streams[s].wtimer /\ ~streams[s].rtimer
  /\ \/ ~reading
     \/ streams[s].local = "sending" /\ window = 0
     \/ streams[s].local = "sending" /\ streams[s].lowered /\ streams[s].win <= 0
EveryStreamEnds == \A s \in Ids : Here(s) ~> (~Here(s) \/ [](WaitsUntimed(s)))
=============================================================================
