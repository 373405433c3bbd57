----------------------------- MODULE HttpSession -----------------------------
(***************************************************************************)
(* One HttpSession (src/src/httpsession.cc): the TLS handshake, read(), and  *)
(* the pump that moves what nghttp2 wants to send through data_pending_ and  *)
(* wbuf_ into SSL_write.  OpenSSL, nghttp2 and the client are environment.   *)
(*                                                                         *)
(* Bytes are numbered in the order nghttp2 hands them over.  pc is the place *)
(* inside a callback: "loop" none runs, "read" in read(), "write" at the top *)
(* of the loop of write(), "fill" in fill_wb(), "filled" behind it.          *)
(***************************************************************************)
EXTENDS Integers, Sequences

CONSTANTS
  Cap,          \* bytes wbuf_ holds
  Header,       \* bytes of a frame's header
  Lens,         \* lengths of frames and of DATA payloads
  MaxFrames     \* bound: frames the streams and nghttp2 queue, GOAWAY aside

\* A DATA frame fits an empty wbuf_: 9 + 16384 against 65536.
ASSUME HttpAssumption ==
  /\ Cap \in Nat /\ Header \in Nat \ {0} /\ Lens \subseteq Nat \ {0} /\ Lens # {}
  /\ \A n \in Lens : Header + n <= Cap
  /\ MaxFrames \in Nat

VARIABLES
  phase, pc, wev,           \* handshake, open or gone; place; wev_ is active
  buf, used,                \* wbuf_: what is left to read, and last_
  pending,                  \* data_pending_
  retry,                    \* OpenSSL: the bytes of a write that was blocked
  queued, goaway, held,     \* nghttp2: frames, a final GOAWAY, the payload length
                            \* of a DATA frame send_data_cb had no room for
  settings,                 \* none, queued, sent (the timer runs), acked, late
  ending, active,           \* nghttp2: GOAWAY said by us or the peer; streams open
  frames, taken, wire       \* history: frames queued, bytes handed over and sent

buffers == <<buf, used, pending>>
nghttp2 == <<queued, goaway, held, settings, ending, active>>
vars == <<phase, pc, wev, buffers, retry, nghttp2, frames, taken, wire>>

None == 0           \* no frame is held
Bytes(n) == [i \in 1 .. n |-> taken + i]

Init ==
  /\ phase = "handshake" /\ pc = "loop" /\ wev = FALSE
  /\ buf = <<>> /\ used = 0 /\ pending = <<>> /\ retry = <<>>
  /\ queued = 0 /\ goaway = FALSE /\ held = None /\ settings = "none"
  /\ ending = {} /\ active = FALSE /\ frames = 0 /\ taken = 0 /\ wire = <<>>

AtLoop == phase = "open" /\ pc = "loop"
\* on_write, called by the callback that runs.
OnWrite == pc' = "write"
\* A callback returned -1: remove_self destroys the session.
Remove ==
  /\ phase' = "gone" /\ pc' = "loop" /\ wev' = FALSE
  /\ UNCHANGED <<buffers, retry, nghttp2, frames, taken, wire>>

-----------------------------------------------------------------------------
(* The handshake, by either watcher *)

HandshakeWaits ==
  /\ phase = "handshake" /\ wev' \in BOOLEAN
  /\ UNCHANGED <<phase, pc, buffers, retry, nghttp2, frames, taken, wire>>

\* The handshake fails, h2 was not selected, or the cipher is not allowed.
HandshakeFails == phase = "handshake" /\ Remove

\* connection_made: SETTINGS are queued and written.
HandshakeEnds ==
  /\ phase = "handshake" /\ phase' = "open" /\ wev' = FALSE
  /\ settings' = "queued" /\ OnWrite
  /\ UNCHANGED <<buffers, retry, queued, goaway, held, ending, active, frames, taken, wire>>

-----------------------------------------------------------------------------
(* The streams and the timers *)

Queue == frames < MaxFrames /\ frames' = frames + 1 /\ queued' = queued + 1

\* Stream::submit_response, submit_rst, submit_non_final_response, and the
\* resumption of an event stream, by a handler that some other callback ran.
Submit ==
  /\ AtLoop /\ active /\ Queue /\ wev' = TRUE
  /\ UNCHANGED <<phase, pc, buffers, retry, goaway, held, settings, ending, active, taken, wire>>

\* Stream::timeout_cb: the stream is reset and the session written.
StreamTimeout ==
  /\ AtLoop /\ active /\ Queue /\ wev' = TRUE /\ OnWrite
  /\ UNCHANGED <<phase, buffers, retry, goaway, held, settings, ending, active, taken, wire>>

\* nghttp2_session_terminate_session.
Terminate == ending' = ending \cup {"us"} /\ goaway' = (goaway \/ "us" \notin ending)

\* Mutant: the session is terminated but not written.
SettingsTimeoutNoWrite ==
  /\ AtLoop /\ settings = "sent" /\ settings' = "late" /\ Terminate
  /\ UNCHANGED <<phase, pc, wev, buffers, retry, queued, held, active, frames, taken, wire>>

\* settings_timeout_cb.
SettingsTimeout ==
  /\ AtLoop /\ settings = "sent" /\ settings' = "late" /\ Terminate /\ OnWrite
  /\ UNCHANGED <<phase, wev, buffers, retry, queued, held, active, frames, taken, wire>>

-----------------------------------------------------------------------------
(* read() *)

ReadCb ==
  /\ AtLoop /\ pc' = "read"
  /\ UNCHANGED <<phase, wev, buffers, retry, nghttp2, frames, taken, wire>>

\* mem_recv of something: streams come and go, the peer says GOAWAY, breaks the
\* protocol or acknowledges SETTINGS; nghttp2 queues a frame of its own (an
\* ACK, a PING, a WINDOW_UPDATE), which starts no watcher, or a handler does.
Receive ==
  /\ phase = "open" /\ pc = "read"
  /\ \/ /\ active' \in (IF ending = {} THEN BOOLEAN ELSE {active, FALSE})
        /\ \/ UNCHANGED <<queued, frames, wev>>
           \/ Queue /\ UNCHANGED wev
           \/ Queue /\ wev' = TRUE
        /\ UNCHANGED <<settings, ending, goaway>>
     \/ ending' = ending \cup {"peer"} /\ UNCHANGED <<active, queued, frames, wev, settings, goaway>>
     \/ Terminate /\ UNCHANGED <<active, queued, frames, wev, settings>>
     \/ /\ settings = "sent" /\ settings' = "acked"
        /\ UNCHANGED <<active, queued, frames, wev, ending, goaway>>
  /\ UNCHANGED <<phase, pc, buffers, retry, held, taken, wire>>

\* Mutant: read() returns when there is nothing more to read.
ReadEndsIdle ==
  /\ phase = "open" /\ pc = "read" /\ pc' = "loop"
  /\ UNCHANGED <<phase, wev, buffers, retry, nghttp2, frames, taken, wire>>

\* SSL_read wants more: ssl_read tries to write instead.
ReadEnds ==
  /\ phase = "open" /\ pc = "read" /\ OnWrite
  /\ UNCHANGED <<phase, wev, buffers, retry, nghttp2, frames, taken, wire>>

\* The peer closed, SSL_read or mem_recv failed.
ReadFails == phase = "open" /\ pc = "read" /\ Remove

-----------------------------------------------------------------------------
(* write() and fill_wb() *)

WriteCb ==
  /\ AtLoop /\ wev /\ OnWrite
  /\ UNCHANGED <<phase, wev, buffers, retry, nghttp2, frames, taken, wire>>

\* SSL_write takes all or nothing: SSL_MODE_ENABLE_PARTIAL_WRITE is not set.
SslWrites ==
  /\ phase = "open" /\ pc = "write" /\ buf # <<>>
  /\ wire' = wire \o buf /\ buf' = <<>> /\ retry' = <<>>
  /\ UNCHANGED <<phase, pc, wev, used, pending, nghttp2, frames, taken>>

SslBlocks ==
  /\ phase = "open" /\ pc = "write" /\ buf # <<>>
  /\ pc' = "loop" /\ wev' = TRUE /\ retry' = buf
  /\ UNCHANGED <<phase, buffers, nghttp2, frames, taken, wire>>

SslFails == phase = "open" /\ pc = "write" /\ buf # <<>> /\ Remove

\* Mutant: wbuf_ is filled up before what it holds is written.
RefillEarly ==
  /\ phase = "open" /\ pc = "write" /\ pc' = "fill"
  /\ used' = IF buf = <<>> THEN 0 ELSE used
  /\ UNCHANGED <<phase, wev, buf, pending, retry, nghttp2, frames, taken, wire>>

\* wbuf_ is empty: it is reset, and fill_wb called.
Refill ==
  /\ phase = "open" /\ pc = "write" /\ buf = <<>>
  /\ used' = 0 /\ pc' = "fill"
  /\ UNCHANGED <<phase, wev, buf, pending, retry, nghttp2, frames, taken, wire>>

Filling == phase = "open" /\ pc = "fill"
\* Buffer::write: how much of data_pending_ there is room for.
Fitting == IF Len(pending) <= Cap - used THEN Len(pending) ELSE Cap - used

\* Mutant: data_pending_len_ is reduced and data_pending_ is not moved on.
CopyPendingAgain ==
  LET n == Fitting
  IN /\ Filling /\ pending # <<>>
     /\ buf' = buf \o SubSeq(pending, 1, n) /\ used' = used + n
     /\ pending' = SubSeq(pending, 1, Len(pending) - n)
     /\ pc' = IF n < Len(pending) THEN "filled" ELSE pc
     /\ UNCHANGED <<phase, wev, retry, nghttp2, frames, taken, wire>>

\* As much of data_pending_ as there is room for; fill_wb returns if some is left.
CopyPending ==
  LET n == Fitting
  IN /\ Filling /\ pending # <<>>
     /\ buf' = buf \o SubSeq(pending, 1, n) /\ used' = used + n
     /\ pending' = SubSeq(pending, n + 1, Len(pending))
     /\ pc' = IF n < Len(pending) THEN "filled" ELSE pc
     /\ UNCHANGED <<phase, wev, retry, nghttp2, frames, taken, wire>>

MemSend == Filling /\ pending = <<>> /\ held = None
\* Frames that are sent may be the last of a stream, which closes it.
StreamMayClose == active' \in {active, FALSE}

\* mem_send serializes a frame: SETTINGS before all others, whose timer
\* on_frame_send_cb starts.
SendPlain ==
  /\ MemSend
  /\ \/ settings = "queued" /\ settings' = "sent" /\ UNCHANGED <<queued, goaway, active>>
     \/ /\ settings # "queued" /\ queued > 0 /\ queued' = queued - 1 /\ StreamMayClose
        /\ UNCHANGED <<settings, goaway>>
     \/ /\ settings # "queued" /\ goaway /\ goaway' = FALSE
        /\ UNCHANGED <<settings, queued, active>>
  /\ \E n \in Lens : pending' = Bytes(n) /\ taken' = taken + n
  /\ UNCHANGED <<phase, pc, wev, buf, used, retry, held, ending, frames, wire>>

\* Mutant: send_data_cb does not ask for room.
SendDataUnasked(n) ==
  /\ buf' = buf \o Bytes(Header + n) /\ used' = used + Header + n
  /\ taken' = taken + Header + n /\ held' = None /\ queued' = queued - 1
  /\ StreamMayClose /\ UNCHANGED <<pc, frames>>

\* send_data_cb for a payload of n bytes.  The DataStream may fail (pread does)
\* when the header is written: the frame is dropped and an RST_STREAM queued.
SendData(n) ==
  IF Cap - used < Header + n
  THEN held' = n /\ pc' = "filled" /\ UNCHANGED <<buf, used, taken, queued, active, frames>>
  ELSE /\ held' = None /\ UNCHANGED pc
       /\ \/ /\ buf' = buf \o Bytes(Header + n) /\ used' = used + Header + n
             /\ taken' = taken + Header + n /\ queued' = queued - 1
             /\ StreamMayClose /\ UNCHANGED frames
          \/ /\ frames < MaxFrames /\ frames' = frames + 1
             /\ buf' = buf \o Bytes(Header) /\ used' = used + Header
             /\ taken' = taken + Header /\ UNCHANGED <<queued, active>>

\* mem_send has a DATA frame written: the one it holds, or another.
SendFrame ==
  /\ Filling /\ pending = <<>> /\ settings # "queued" /\ queued > 0
  /\ \E n \in IF held = None THEN Lens ELSE {held} : SendData(n)
  /\ UNCHANGED <<phase, wev, pending, retry, goaway, settings, ending, wire>>

\* A frame whose stream was closed meanwhile is dropped, held or not.
DropFrame ==
  /\ Filling /\ pending = <<>> /\ settings # "queued" /\ queued > 0
  /\ held' = None /\ queued' = queued - 1
  /\ UNCHANGED <<phase, pc, wev, buffers, retry, goaway, settings, ending, active,
                 frames, taken, wire>>

\* mem_send has nothing more.
FillEnds ==
  /\ MemSend /\ settings # "queued" /\ queued = 0 /\ ~goaway
  /\ pc' = "filled"
  /\ UNCHANGED <<phase, wev, buffers, retry, nghttp2, frames, taken, wire>>

\* mem_send failed.
FillFails == Filling /\ pending = <<>> /\ Remove

\* nghttp2 wants neither to read nor to write: its final GOAWAY is sent, or the
\* peer's is received, no stream is open and nothing is queued.
WantsNothing ==
  \/ "us" \in ending /\ ~goaway
  \/ ending # {} /\ ~active /\ queued = 0 /\ ~goaway /\ settings # "queued"

\* wbuf_ has something to write.
WriteOn ==
  /\ phase = "open" /\ pc = "filled" /\ buf # <<>> /\ pc' = "write"
  /\ UNCHANGED <<phase, wev, buffers, retry, nghttp2, frames, taken, wire>>

\* Mutant: a session that is done is kept.
WriteEndsOpen ==
  /\ phase = "open" /\ pc = "filled" /\ buf = <<>> /\ pc' = "loop" /\ wev' = FALSE
  /\ UNCHANGED <<phase, buffers, retry, nghttp2, frames, taken, wire>>

\* wbuf_ is still empty: wev_ is stopped, and the session is closed if it is done.
WriteEnds ==
  /\ phase = "open" /\ pc = "filled" /\ buf = <<>>
  /\ phase' = IF WantsNothing THEN "gone" ELSE "open"
  /\ pc' = "loop" /\ wev' = FALSE
  /\ UNCHANGED <<buffers, retry, nghttp2, frames, taken, wire>>

Handshake == HandshakeWaits \/ HandshakeFails \/ HandshakeEnds
Read  == ReadCb \/ Receive \/ ReadEnds \/ ReadFails
Fill  == CopyPending \/ SendPlain \/ SendFrame \/ DropFrame \/ FillEnds \/ FillFails
Write == WriteCb \/ SslWrites \/ SslBlocks \/ SslFails \/ Refill \/ WriteOn \/ WriteEnds
Next  == Handshake \/ Submit \/ StreamTimeout \/ SettingsTimeout \/ Read \/ Write \/ Fill
Spec  == Init /\ [][Next]_vars

\* A callback runs to its end (what the client sends at a time is finite), the
\* loop calls write_cb of an active watcher and that of a timer that is due,
\* between other callbacks too; the client is one that reads again and again.
Fairness ==
  /\ WF_vars(ReadEnds) /\ WF_vars(Refill) /\ WF_vars(WriteOn) /\ WF_vars(WriteEnds)
  /\ WF_vars(Fill) /\ WF_vars(WriteCb)
  /\ SF_vars(SettingsTimeout) /\ SF_vars(SslWrites)
FairSpec == Spec /\ Fairness

-----------------------------------------------------------------------------
(* Properties *)

\* Types; wbuf_ is never written beyond its end (the assertions of buffer.h:62
\* and 75), and nghttp2 holds no more frames than were queued.
BufferOK ==
  /\ used \in 0 .. Cap /\ Len(buf) <= used
  /\ buf \in Seq(Nat) /\ pending \in Seq(Nat) /\ retry \in Seq(Nat) /\ wire \in Seq(Nat)
  /\ taken \in Nat
QueueOK ==
  /\ frames \in 0 .. MaxFrames /\ queued \in 0 .. frames /\ held \in Lens \cup {None}
PlaceOK ==
  /\ phase \in {"handshake", "open", "gone"}
  /\ pc \in {"loop", "read", "write", "fill", "filled"}
  /\ settings \in {"none", "queued", "sent", "acked", "late"}
  /\ ending \subseteq {"us", "peer"}
  /\ wev \in BOOLEAN /\ goaway \in BOOLEAN /\ active \in BOOLEAN
TypeOK == BufferOK /\ QueueOK /\ PlaceOK

\* Bytes reach the client in the order nghttp2 handed them over, none lost or
\* repeated, whether through data_pending_ or written into wbuf_ directly.
FirstBytes(n) == [i \in 1 .. n |-> i]
BytesInOrder == (wire \o buf) \o pending = FirstBytes(taken)

\* What SSL_write could not take is offered again as it was, whoever calls
\* write() next: a reader, a timer or the watcher.
RetryWithSameBytes == retry # <<>> => buf = retry

\* A session whose write watcher is off has nothing to send, in wbuf_, in
\* data_pending_ or in nghttp2: frames nghttp2 queues on its own start no watcher.
IdleMeansDrained ==
  (AtLoop /\ ~wev)
    => /\ buf = <<>> /\ pending = <<>> /\ held = None
       /\ queued = 0 /\ ~goaway /\ settings # "queued"

\* A session that nghttp2 is done with is closed, or still has bytes to write.
DoneIsClosed == (AtLoop /\ WantsNothing) => wev

\* A client that reads but does not acknowledge SETTINGS is disconnected.
SilentPeerIsRemoved == (settings = "sent") ~> (settings = "acked" \/ phase = "gone")
=============================================================================
