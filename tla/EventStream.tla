----------------------------- MODULE EventStream -----------------------------
(***************************************************************************)
(* Server-sent events on one worker: EventDispatcher's registry of channels  *)
(* (src/src/eventdispatcher.cc), the EventStream objects that queue events   *)
(* and write them into DATA frames (src/src/eventstream.cc), and what        *)
(* HttpSession and nghttp2 do with such a stream (data_read_cb, send_data_cb *)
(* and the deferred state of a stream that has nothing to send).             *)
(*                                                                         *)
(* An address stands for the memory an EventStream lives in; a later stream  *)
(* may get the address of one that is gone.  An event is the number of its   *)
(* publication; written out it has Pre bytes up to its data ("event: ",      *)
(* name, newline, "data: "), Data bytes and two newlines.                    *)
(***************************************************************************)
EXTENDS Integers, Sequences, FiniteSets, SequencesExt

CONSTANTS
  Addresses,    \* where EventStreams may live
  Channels,     \* names of channels
  NoStream,     \* a null slot of the registry, no frame under way
  Pre, Data,    \* length of an event's prefix (ext_pre) and of its data
  MaxEvents     \* bound: events ever published or sent

ASSUME EventAssumption ==
  /\ NoStream \notin Addresses /\ Addresses \cap Channels = {}
  /\ Pre \in Nat \ {0} /\ Data \in Nat /\ MaxEvents \in Nat

VARIABLES
  registry,                    \* EventDispatcher: channel -> slots
  live,                        \* addresses that hold an EventStream
  queue, pos, paused,          \* EventStream: queue_, pos_, paused_
  deferred, open,              \* nghttp2: read callback deferred, window not zero
  frame,                       \* nghttp2: the DATA frame being sent
  writing,                     \* wev_ is active, or write() is about to be called
  threw,                       \* substr threw out of a C callback: terminate
  log, since, out, wire        \* history: what was published, from when on a
                               \* stream is due it, what it has written

dispatcher == <<registry, live>>
streams    == <<queue, pos, paused>>
http2      == <<deferred, open, frame, writing>>
history    == <<log, since, out, wire>>
vars == <<dispatcher, streams, http2, threw, history>>

Events   == 1 .. MaxEvents
Length   == Pre + Data + 2
NoFrame  == [stream |-> NoStream, len |-> 0]
Never    == MaxEvents + 2       \* since when a channel is due that is not subscribed

Init ==
  /\ registry = [c \in Channels |-> <<>>] /\ live = {}
  /\ queue = [e \in Addresses |-> <<>>] /\ pos = [e \in Addresses |-> 0]
  /\ paused = [e \in Addresses |-> FALSE] /\ deferred = [e \in Addresses |-> FALSE]
  /\ open = [e \in Addresses |-> TRUE]
  /\ frame = NoFrame /\ writing = FALSE /\ threw = FALSE
  /\ log = <<>> /\ since = [e \in Addresses |-> [c \in Channels \cup {e} |-> Never]]
  /\ out = [e \in Addresses |-> <<>>] /\ wire = [e \in Addresses |-> 0]

-----------------------------------------------------------------------------
(* EventSource and EventDispatcher *)

\* EventSource::create: a new EventStream, its response submitted.
Create ==
  /\ ~threw
  /\ \E e \in Addresses \ live :
       live' = live \cup {e} /\ since' = [since EXCEPT ![e][e] = Len(log) + 1]
  /\ writing' = TRUE
  /\ UNCHANGED <<registry, streams, deferred, open, frame, threw, log, out, wire>>

\* Mutant: the search goes on after a slot was taken (a missing break).
IntoEverySlot(slots, e) ==
  IF \E i \in DOMAIN slots : slots[i] = NoStream
  THEN [i \in DOMAIN slots |-> IF slots[i] = NoStream THEN e ELSE slots[i]]
  ELSE Append(slots, e)

\* suscribe: the first null slot is taken, else one is added.
IntoSlot(slots, e) ==
  IF \E i \in DOMAIN slots : slots[i] = NoStream
  THEN [slots EXCEPT ![CHOOSE i \in DOMAIN slots :
                         slots[i] = NoStream /\ \A j \in 1 .. i - 1 : slots[j] # NoStream] = e]
  ELSE Append(slots, e)

\* A stream subscribes to a channel at most once.
Subscribe ==
  /\ ~threw
  /\ \E e \in live, c \in Channels :
       /\ since[e][c] = Never
       /\ registry' = [registry EXCEPT ![c] = IntoSlot(@, e)]
       /\ since' = [since EXCEPT ![e][c] = Len(log) + 1]
  /\ UNCHANGED <<live, streams, http2, threw, log, out, wire>>

\* The event published next, once for each slot that holds the stream.
Copies(slots, e) ==
  [k \in 1 .. Cardinality({i \in DOMAIN slots : slots[i] = e}) |-> Len(log) + 1]

\* Mutant: a paused stream is marked as running but nghttp2 is not told.
SubmitNoResume(slots) ==
  LET woken == {e \in ToSet(slots) \ {NoStream} : paused[e]}
  IN /\ queue' = [e \in Addresses |-> queue[e] \o Copies(slots, e)]
     /\ pos' = [e \in Addresses |-> IF e \in woken THEN 0 ELSE pos[e]]
     /\ paused' = [e \in Addresses |-> paused[e] /\ e \notin woken]
     /\ UNCHANGED deferred
     /\ writing' = (writing \/ woken # {})

\* Mutant: the session of a paused stream is not told to write.
SubmitNoStart(slots) ==
  LET woken == {e \in ToSet(slots) \ {NoStream} : paused[e]}
  IN /\ queue' = [e \in Addresses |-> queue[e] \o Copies(slots, e)]
     /\ pos' = [e \in Addresses |-> IF e \in woken THEN 0 ELSE pos[e]]
     /\ paused' = [e \in Addresses |-> paused[e] /\ e \notin woken]
     /\ deferred' = [e \in Addresses |-> deferred[e] /\ e \notin woken]
     /\ UNCHANGED writing

\* Mutant: the offset is reset whether or not the stream was paused.
SubmitResetsOffset(slots) ==
  LET woken == {e \in ToSet(slots) \ {NoStream} : paused[e]}
  IN /\ queue' = [e \in Addresses |-> queue[e] \o Copies(slots, e)]
     /\ pos' = [e \in Addresses |-> IF e \in ToSet(slots) THEN 0 ELSE pos[e]]
     /\ paused' = [e \in Addresses |-> paused[e] /\ e \notin woken]
     /\ deferred' = [e \in Addresses |-> deferred[e] /\ e \notin woken]
     /\ writing' = (writing \/ woken # {})

\* submit of one event on each stream of a sequence: a paused one is resumed.
Submit(slots) ==
  LET woken == {e \in ToSet(slots) \ {NoStream} : paused[e]}
  IN /\ queue' = [e \in Addresses |-> queue[e] \o Copies(slots, e)]
     /\ pos' = [e \in Addresses |-> IF e \in woken THEN 0 ELSE pos[e]]
     /\ paused' = [e \in Addresses |-> paused[e] /\ e \notin woken]
     /\ deferred' = [e \in Addresses |-> deferred[e] /\ e \notin woken]
     /\ writing' = (writing \/ woken # {})

\* publish: the channel's slots in order, null ones skipped.
Publish ==
  /\ ~threw /\ Len(log) < MaxEvents
  /\ \E c \in Channels :
       /\ log' = Append(log, c)
       /\ Submit(registry[c])
  /\ UNCHANGED <<dispatcher, open, frame, threw, since, out, wire>>

\* EventSource::send, and the ping of the periodic timer.
SendDirect ==
  /\ ~threw /\ Len(log) < MaxEvents
  /\ \E e \in live : log' = Append(log, e) /\ Submit(<<e>>)
  /\ UNCHANGED <<dispatcher, open, frame, threw, since, out, wire>>

\* Mutant: the dispatcher is not told of a stream that goes.
DestroyNoRemove(e) == UNCHANGED registry
\* ~EventStream: the timer stops, every slot that holds the stream becomes null.
Destroy(e) ==
  registry' = [c \in Channels |->
                 [i \in DOMAIN registry[c] |->
                    IF registry[c][i] = e THEN NoStream ELSE registry[c][i]]]

\* The stream is closed, for whatever reason; nghttp2 drops its frame.  What the
\* EventStream held is as in a new one, for the next that gets its address.
Close ==
  /\ ~threw
  /\ \E e \in live :
       /\ live' = live \ {e} /\ Destroy(e)
       /\ queue' = [queue EXCEPT ![e] = <<>>] /\ pos' = [pos EXCEPT ![e] = 0]
       /\ paused' = [paused EXCEPT ![e] = FALSE]
       /\ deferred' = [deferred EXCEPT ![e] = FALSE] /\ open' = [open EXCEPT ![e] = TRUE]
       /\ frame' = IF frame.stream = e THEN NoFrame ELSE frame
       /\ since' = [since EXCEPT ![e] = [c \in DOMAIN @ |-> Never]]
       /\ out' = [out EXCEPT ![e] = <<>>] /\ wire' = [wire EXCEPT ![e] = 0]
  /\ UNCHANGED <<writing, threw, log>>

-----------------------------------------------------------------------------
(* Writing: one step of the loop of HttpSession::write.  Between two steps the *)
(* socket may be full, and the loop goes on when wev_ fires.                   *)

\* Mutant: what of the event is already written is not subtracted.
RemainingForgetsOffset(e) == IF queue[e] = <<>> THEN 0 ELSE Length
\* remaining(): length() - pos_.
Remaining(e) == (IF queue[e] = <<>> THEN 0 ELSE Length) - pos[e]
CanRead == {e \in live : ~deferred[e] /\ open[e]}

\* data_read_cb finds nothing: length() marks the stream as paused.
ReadNothing(e) ==
  /\ ~threw /\ writing /\ frame = NoFrame
  /\ e \in CanRead /\ Remaining(e) <= 0
  /\ paused' = [paused EXCEPT ![e] = @ \/ queue[e] = <<>>]
  /\ deferred' = [deferred EXCEPT ![e] = TRUE]
  /\ UNCHANGED <<dispatcher, queue, pos, open, frame, writing, threw, history>>

\* data_read_cb: as much of the first event as the windows and the frame allow.
ReadEvent(e) ==
  /\ ~threw /\ writing /\ frame = NoFrame /\ e \in CanRead
  /\ \E n \in 1 .. Remaining(e) : frame' = [stream |-> e, len |-> n]
  /\ UNCHANGED <<dispatcher, streams, deferred, open, writing, threw, history>>

\* The place up to which send has the prefix when it turns to the data:
\* ev.view().substr is given its distance from the data's start.
AfterPrefix(p, n) == IF p < Pre THEN IF p + n < Pre THEN p + n ELSE Pre ELSE p
Throws(p, n) == AfterPrefix(p, n) < Pre \/ AfterPrefix(p, n) > Pre + Data

\* Mutant: the newest event is dropped from the queue, not the one written.
SendPopsBack(e, n) ==
  LET p == pos[e] + n
      whole == p >= Length
  IN /\ queue' = [queue EXCEPT ![e] = IF whole THEN SubSeq(@, 1, Len(@) - 1) ELSE @]
     /\ pos'   = [pos EXCEPT ![e] = IF whole THEN 0 ELSE p]
     /\ out'   = [out EXCEPT ![e] = IF whole THEN Append(@, Head(queue[e])) ELSE @]
     /\ wire'  = [wire EXCEPT ![e] = (@ + n) % Length]

\* EventStream::send of n bytes that does not throw.
Send(e, n) ==
  LET p == pos[e] + n
      whole == p >= Length
  IN /\ queue' = [queue EXCEPT ![e] = IF whole THEN Tail(@) ELSE @]
     /\ pos'   = [pos EXCEPT ![e] = IF whole THEN 0 ELSE p]
     /\ out'   = [out EXCEPT ![e] = IF whole THEN Append(@, Head(queue[e])) ELSE @]
     /\ wire'  = [wire EXCEPT ![e] = (@ + n) % Length]

\* send_data_cb: the frame under way is written, when wbuf_ has room for it;
\* of a queue that is empty send writes nothing.
SendFrame ==
  /\ ~threw /\ writing /\ frame # NoFrame /\ frame' = NoFrame
  /\ IF queue[frame.stream] = <<>> THEN UNCHANGED <<queue, pos, out, wire>> /\ threw' = FALSE
     ELSE IF Throws(pos[frame.stream], frame.len)
     THEN threw' = TRUE /\ UNCHANGED <<queue, pos, out, wire>>
     ELSE threw' = FALSE /\ Send(frame.stream, frame.len)
  /\ UNCHANGED <<dispatcher, paused, deferred, open, writing, log, since>>

\* write() has nothing left to send: wev_ is stopped.
WriteEnds ==
  /\ ~threw /\ writing /\ frame = NoFrame /\ CanRead = {}
  /\ writing' = FALSE
  /\ UNCHANGED <<dispatcher, streams, deferred, open, frame, threw, history>>

\* The client's window closes as frames are sent, and opens with a
\* WINDOW_UPDATE, after which read() calls write().
WindowCloses(e) ==
  /\ ~threw /\ frame = NoFrame /\ writing
  /\ e \in live /\ open[e] /\ open' = [open EXCEPT ![e] = FALSE]
  /\ UNCHANGED <<dispatcher, streams, deferred, frame, writing, threw, history>>
WindowOpens(e) ==
  /\ ~threw
  /\ e \in live /\ ~open[e] /\ open' = [open EXCEPT ![e] = TRUE]
  /\ writing' = TRUE
  /\ UNCHANGED <<dispatcher, streams, deferred, frame, threw, history>>

Application == Create \/ Subscribe \/ Publish \/ SendDirect \/ Close
Writing == (\E e \in Addresses : ReadNothing(e) \/ ReadEvent(e)) \/ SendFrame \/ WriteEnds
Window  == \E e \in Addresses : WindowCloses(e) \/ WindowOpens(e)
Next == Application \/ Writing \/ Window
Spec == Init /\ [][Next]_vars

\* The loop runs whatever is ready, nghttp2 serves its streams in turn, and the
\* client is one that keeps opening the window of every stream.
Fairness ==
  /\ WF_vars(SendFrame)
  /\ \A e \in Addresses : SF_vars(ReadEvent(e)) /\ WF_vars(WindowOpens(e))
FairSpec == Spec /\ Fairness

-----------------------------------------------------------------------------
(* Properties *)

\* The events a stream has written or still queues are exactly those published
\* on its channels since it subscribed and those sent to it, each once, in the
\* order of publication.
Due(e) == {i \in DOMAIN log : log[i] \in DOMAIN since[e] /\ i >= since[e][log[i]]}
Accepted(e) == out[e] \o queue[e]
ExactlyOnceInOrder ==
  \A e \in live :
    /\ ToSet(Accepted(e)) = Due(e)
    /\ \A i, j \in DOMAIN Accepted(e) : i < j => Accepted(e)[i] < Accepted(e)[j]

\* The registry never points to memory a stream has left, and lists no stream
\* under a channel twice, however slots are given up and taken again.
RegistryIsLive ==
  \A c \in Channels :
    /\ ToSet(registry[c]) \ {NoStream} = {e \in live : since[e][c] # Never}
    /\ \A i, j \in DOMAIN registry[c] :
         registry[c][i] = registry[c][j] /\ i # j => registry[c][i] = NoStream

\* paused_ says exactly when nghttp2 has deferred the stream, and a paused
\* stream has nothing to send: an event is never left on a stream nghttp2 will
\* not ask again, and one with an event and a window to send it in is being written.
EventIsWatched ==
  \A e \in live :
    /\ paused[e] = deferred[e] /\ (paused[e] => queue[e] = <<>>)
    /\ queue[e] # <<>> /\ open[e] /\ ~threw => writing

\* A frame announced to the client is filled from one event (the assertion
\* pos_ + wlen <= len): what data_read_cb promised is still there when
\* send_data_cb runs, whatever was submitted in between.  The bytes on the wire
\* are whole events one after the other: the place in the current event is
\* where pos_ says.
FrameIsBacked ==
  /\ frame # NoFrame => /\ frame.stream \in live /\ queue[frame.stream] # <<>>
                        /\ pos[frame.stream] + frame.len <= Length
  /\ \A e \in live : wire[e] = pos[e]

\* The streams keep the promise of Mailboxes.  What the frames, windows, pauses
\* and slots of the registry do is a step of it or none at all; the last byte of
\* an event is its writing.
Mail == INSTANCE Mailboxes WITH
  Streams <- Addresses, open <- live,
  subscribers <- [c \in Channels |-> ToSet(registry[c]) \ {NoStream}],
  inbox <- queue, written <- out, published <- Len(log)
KeepsMailboxes == Mail!Spec

\* Every event a stream has accepted is written, unless the stream goes or send
\* throws: a pause, a closed window or a full socket never strands it.
EventuallyWritten ==
  \A e \in Addresses, i \in Events :
    (e \in live /\ i \in ToSet(queue[e]))
      ~> (e \notin live \/ i \in ToSet(out[e]) \/ threw)

\* eventstream.cc:54, "conditionally check upto what we wrote": an event can be
\* cut anywhere by the frames it is sent in.
EventsMayBeCut == ~threw
=============================================================================
