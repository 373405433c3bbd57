---------------------------- MODULE Streams_proofs ----------------------------
(***************************************************************************)
(* The timers and the resets of the streams of a session, for any number of  *)
(* streams, lengths, windows and frames of the client.                       *)
(***************************************************************************)
EXTENDS Streams, SequenceTheorems, TLAPS

USE StreamsAssumption

Stream ==
  [remote : {"headers", "open", "closed"}, expect : BOOLEAN,
   prepared : BOOLEAN, body : {"none", "empty", "data", "events"}, out : Seq({"100", "200"}),
   local : {"none", "sending", "done", "failed"}, left : Int,
   rst : {"none", "error", "no error"}, rtimer : BOOLEAN, wtimer : BOOLEAN,
   win : Int, lowered : BOOLEAN]

\* The timers of one stream, as the two properties state them of all.
ReadTimed(st) ==
  IF st.remote = "closed" THEN ~st.rtimer ELSE st.rtimer \/ st.body = "events"
WriteTimed(st) == st.local = "sending" /\ st.win <= 0 => st.wtimer \/ st.lowered
Timed(st) == ~Closing(st) => ReadTimed(st) /\ WriteTimed(st)

Fine(st) == st \in Stream /\ Timed(st)

\* The frame in flight is of a stream that is there and has not ended.
Flying ==
  flight # <<>> =>
    LET f == flight[1]
    IN /\ flight = <<f>> /\ f \in [stream : Ids, len : Int, last : BOOLEAN]
       /\ Here(f.stream) /\ streams[f.stream].local = "sending"

StreamsInv ==
  /\ DOMAIN streams \subseteq Ids /\ streams = [s \in DOMAIN streams |-> streams[s]]
  /\ \A s \in DOMAIN streams : Fine(streams[s])
  /\ window \in Int /\ initial \in Windows /\ Flying /\ NoErrorIsWhole

\* A change that neither ends the response nor resets the stream in good order.
Keeps(old, st) == st.local = old.local /\ (st.rst = "no error" => old.rst = "no error")

-----------------------------------------------------------------------------
(* Numbers and frames *)

LEMMA MinOfTwo == ASSUME NEW a \in Int, NEW b \in Int PROVE Min({a, b}) = IF a <= b THEN a ELSE b
  BY DEF Min

LEMMA MinOfThree ==
  ASSUME NEW a \in Int, NEW b \in Int, NEW c \in Int
  PROVE  Min({a, b, c}) \in Int
<1> DEFINE S == {a, b, c}
<1>1. PICK x \in S : \A y \in S : x <= y
  <2>1. CASE a <= b /\ a <= c
    BY <2>1
  <2>2. CASE b <= a /\ b <= c
    BY <2>2
  <2>3. CASE c <= a /\ c <= b
    BY <2>3
  <2> QED
    BY <2>1, <2>2, <2>3
<1> QED
  BY <1>1 DEF Min

\* One more HEADERS frame, or one less.
LEMMA OutGrows ==
  ASSUME NEW q \in Seq({"100", "200"}), NEW k \in {"100", "200"}
  PROVE  Append(q, k) \in Seq({"100", "200"})
  BY AppendProperties

LEMMA OutShrinks ==
  ASSUME NEW q \in Seq({"100", "200"}), q # <<>>
  PROVE  Tail(q) \in Seq({"100", "200"})
  BY HeadTailProperties

-----------------------------------------------------------------------------
(* What is done to one stream *)

LEMMA NewIsFine == \A win \in Windows : Fine(New(win)) /\ New(win).rst = "none"
<1>1. <<>> \in Seq({"100", "200"})
  OBVIOUS
<1> QED
  BY <1>1 DEF Fine, Stream, Timed, ReadTimed, WriteTimed, Closing, New

LEMMA ResetIsFine ==
  ASSUME NEW st, Fine(st), NEW why \in {"error", "no error"}
  PROVE  /\ Fine(submit_rst(st, why)) /\ Closing(submit_rst(st, why))
         /\ submit_rst(st, why).local = st.local
         /\ submit_rst(st, why).rst = "no error" => st.rst = "no error" \/ why = "no error"
<1> DEFINE rst == IF Closing(st) THEN st.rst ELSE why
           r == submit_rst(st, why)
<1>1. /\ r = [st EXCEPT !.rtimer = FALSE, !.wtimer = FALSE, !.rst = rst]
      /\ st \in Stream
  BY DEF submit_rst, Fine
<1>2. rst \in {"error", "no error"} /\ (rst = "no error" => st.rst = "no error" \/ why = "no error")
  BY <1>1 DEF Stream, Closing
<1> HIDE DEF rst, r
<1>3. r \in Stream /\ r.rst = rst /\ r.local = st.local
  BY <1>1, <1>2 DEF Stream
<1>4. Closing(r) /\ Timed(r)
  BY <1>2, <1>3 DEF Closing, Timed
<1> QED
  BY <1>2, <1>3, <1>4 DEF Fine, r

LEMMA ContinueIsSame ==
  ASSUME NEW st \in Stream
  PROVE  /\ Continue(st) \in Stream
         /\ \A f \in {"remote", "body", "local", "rst", "wtimer", "win", "lowered"} :
              Continue(st)[f] = st[f]
<1>1. CASE ~st.expect
  BY <1>1 DEF Continue
<1>2. CASE st.expect
  <2>1. Continue(st) = [st EXCEPT !.out = Append(st.out, "100")]
    BY <1>2 DEF Continue
  <2>2. Append(st.out, "100") \in Seq({"100", "200"})
    BY OutGrows DEF Stream
  <2> QED
    BY <2>1, <2>2 DEF Stream
<1> QED
  BY <1>1, <1>2

\* on_frame_recv_cb leaves the timers as the request needs them.
LEMMA FrameIsFine ==
  ASSUME NEW st \in Stream, NEW last \in BOOLEAN, st.remote = Half(last),
         ~Closing(st) => WriteTimed(st)
  PROVE  Fine(AfterFrame(st, last)) /\ Keeps(st, AfterFrame(st, last))
<1> DEFINE c == Continue(st)  r == AfterFrame(st, last)
<1>1. /\ c \in Stream /\ c.remote = st.remote /\ c.body = st.body /\ c.local = st.local
      /\ c.rst = st.rst /\ c.wtimer = st.wtimer /\ c.win = st.win /\ c.lowered = st.lowered
  BY ContinueIsSame
<1>2. r = IF last THEN [c EXCEPT !.rtimer = FALSE, !.prepared = TRUE]
          ELSE [c EXCEPT !.rtimer = TRUE]
  BY DEF AfterFrame
<1> HIDE DEF c, r
<1>3. /\ r \in Stream /\ r.remote = st.remote /\ r.local = st.local /\ r.rst = st.rst
      /\ r.wtimer = st.wtimer /\ r.win = st.win /\ r.lowered = st.lowered
      /\ r.rtimer = ~last
  BY <1>1, <1>2 DEF Stream
<1>4. ReadTimed(r)
  BY <1>3 DEF ReadTimed, Half
<1>5. ~Closing(r) => WriteTimed(r)
  BY <1>3, Zenon DEF WriteTimed, Closing
<1> QED
  BY <1>3, <1>4, <1>5, Zenon DEF Fine, Timed, Keeps, r

\* A frame of the request: of its headers, or of its data.
LEMMA HeadersAreFine ==
  ASSUME NEW old, Fine(old), NEW expect \in BOOLEAN, NEW last \in BOOLEAN
  PROVE  LET st == AfterFrame([old EXCEPT !.expect = expect, !.remote = Half(last)], last)
         IN Fine(st) /\ Keeps(old, st)
<1> DEFINE m == [old EXCEPT !.expect = expect, !.remote = Half(last)]
<1>1. /\ m \in Stream /\ m.remote = Half(last) /\ m.local = old.local /\ m.rst = old.rst
      /\ m.wtimer = old.wtimer /\ m.win = old.win /\ m.lowered = old.lowered
  BY DEF Fine, Stream, Half
<1> HIDE DEF m
<1>2. ~Closing(m) => WriteTimed(m)
  BY <1>1, Zenon DEF Fine, Timed, WriteTimed, Closing
<1>3. Fine(AfterFrame(m, last)) /\ Keeps(m, AfterFrame(m, last))
  BY <1>1, <1>2, FrameIsFine
<1> QED
  BY <1>1, <1>3, Zenon DEF Keeps, m

LEMMA DataIsFine ==
  ASSUME NEW old, Fine(old), NEW last \in BOOLEAN
  PROVE  LET st == AfterFrame([old EXCEPT !.remote = Half(last), !.prepared = TRUE], last)
         IN Fine(st) /\ Keeps(old, st)
<1> DEFINE m == [old EXCEPT !.remote = Half(last), !.prepared = TRUE]
<1>1. /\ m \in Stream /\ m.remote = Half(last) /\ m.local = old.local /\ m.rst = old.rst
      /\ m.wtimer = old.wtimer /\ m.win = old.win /\ m.lowered = old.lowered
  BY DEF Fine, Stream, Half
<1> HIDE DEF m
<1>2. ~Closing(m) => WriteTimed(m)
  BY <1>1, Zenon DEF Fine, Timed, WriteTimed, Closing
<1>3. Fine(AfterFrame(m, last)) /\ Keeps(m, AfterFrame(m, last))
  BY <1>1, <1>2, FrameIsFine
<1> QED
  BY <1>1, <1>3, Zenon DEF Keeps, m

LEMMA TrailersAreFine ==
  ASSUME NEW old, Fine(old)
  PROVE  LET st == [old EXCEPT !.remote = "closed", !.prepared = TRUE, !.rtimer = FALSE]
         IN Fine(st) /\ Keeps(old, st)
<1> DEFINE st == [old EXCEPT !.remote = "closed", !.prepared = TRUE, !.rtimer = FALSE]
<1>1. /\ st \in Stream /\ st.remote = "closed" /\ ~st.rtimer /\ st.local = old.local
      /\ st.rst = old.rst /\ st.wtimer = old.wtimer /\ st.win = old.win
      /\ st.lowered = old.lowered
  BY DEF Fine, Stream
<1> HIDE DEF st
<1>2. Timed(st)
  BY <1>1, Zenon DEF Fine, Timed, ReadTimed, WriteTimed, Closing
<1> QED
  BY <1>1, <1>2, Zenon DEF Fine, Keeps, st

\* A larger window needs no timer.
LEMMA UpdateIsFine ==
  ASSUME NEW old, Fine(old)
  PROVE  LET st == [old EXCEPT !.win = @ + 1] IN Fine(st) /\ Keeps(old, st)
<1> DEFINE more == old.win + 1  st == [old EXCEPT !.win = more]
<1>0. more \in Int /\ (more <= 0 => old.win <= 0)
  <2>1. old.win \in Int
    BY DEF Fine, Stream
  <2> QED
    BY <2>1
<1> HIDE DEF more
<1>1. /\ st \in Stream /\ st.win = more /\ st.remote = old.remote
      /\ st.body = old.body /\ st.local = old.local /\ st.rst = old.rst
      /\ st.rtimer = old.rtimer /\ st.wtimer = old.wtimer /\ st.lowered = old.lowered
  BY <1>0 DEF Fine, Stream
<1> HIDE DEF st
<1>2. st.win <= 0 => old.win <= 0
  BY <1>0, <1>1
<1>3. Timed(st)
  BY <1>1, <1>2, Zenon DEF Fine, Timed, ReadTimed, WriteTimed, Closing
<1> QED
  BY <1>1, <1>3, Zenon DEF Fine, Keeps, st, more

\* SETTINGS that close a window leave a note of it.
LEMMA ResizedIsFine ==
  ASSUME NEW old, Fine(old), NEW by \in Int
  PROVE  Fine(Resized(old, by)) /\ Keeps(old, Resized(old, by))
<1> DEFINE win == old.win + by
           low == old.lowered \/ (old.win > 0 /\ win <= 0)
           st == [old EXCEPT !.win = win, !.lowered = low]
<1>1. Resized(old, by) = st
  <2>1. DOMAIN old = DOMAIN st /\ "win" \in DOMAIN old /\ "lowered" \in DOMAIN old
    BY DEF Fine, Stream
  <2> QED
    BY <2>1, Zenon DEF Resized
<1>2. /\ old.win \in Int /\ win \in Int /\ low \in BOOLEAN /\ (old.lowered => low)
      /\ (win <= 0 => old.win <= 0 \/ low)
  <2>1. old.win \in Int /\ old.lowered \in BOOLEAN
    BY DEF Fine, Stream
  <2>2. win \in Int /\ (win <= 0 => old.win <= 0 \/ (old.win > 0 /\ win <= 0))
    BY <2>1
  <2> HIDE DEF win
  <2> QED
    BY <2>1, <2>2, Zenon
<1> HIDE DEF win, low
<1>3. /\ st \in Stream /\ st.win = win /\ st.lowered = low /\ st.remote = old.remote
      /\ st.body = old.body /\ st.local = old.local /\ st.rst = old.rst
      /\ st.rtimer = old.rtimer /\ st.wtimer = old.wtimer
  BY <1>2 DEF Fine, Stream
<1> HIDE DEF st
<1>4. Timed(st)
  BY <1>2, <1>3, Zenon DEF Fine, Timed, ReadTimed, WriteTimed, Closing
<1> QED
  BY <1>1, <1>3, <1>4, Zenon DEF Fine, Keeps

LEMMA ErrorIsFine ==
  ASSUME NEW old, Fine(old)
  PROVE  Fine(submit_rst(old, "error")) /\ Keeps(old, submit_rst(old, "error"))
  BY ResetIsFine DEF Keeps

\* Only the response of an event source may come without the read timer.
LEMMA ResponseIsFine ==
  ASSUME NEW old, Fine(old), old.body = "none", NEW body \in {"empty", "data", "events"},
         NEW len \in Int, NEW timed \in BOOLEAN, timed \/ body = "events"
  PROVE  LET st == [old EXCEPT !.body = body, !.left = len, !.rtimer = @ /\ timed,
                               !.out = Append(@, "200")]
         IN Fine(st) /\ Keeps(old, st)
<1> DEFINE q == Append(old.out, "200")  timer == old.rtimer /\ timed
           st == [old EXCEPT !.body = body, !.left = len, !.rtimer = timer, !.out = q]
<1>1. q \in Seq({"100", "200"}) /\ timer \in BOOLEAN
  BY OutGrows DEF Fine, Stream
<1>2. (timer => old.rtimer) /\ (old.rtimer => timer \/ body = "events")
  OBVIOUS
<1> HIDE DEF q, timer
<1>3. /\ st \in Stream /\ st.body = body /\ st.rtimer = timer /\ st.remote = old.remote
      /\ st.local = old.local /\ st.rst = old.rst
      /\ st.wtimer = old.wtimer /\ st.win = old.win /\ st.lowered = old.lowered
  BY <1>1 DEF Fine, Stream
<1>4. st = [old EXCEPT !.body = body, !.left = len, !.rtimer = @ /\ timed,
                       !.out = Append(@, "200")]
  BY DEF Fine, Stream, q, timer
<1> HIDE DEF st
<1>5. ~Closing(old) => (old.remote = "closed" => ~old.rtimer) /\ (old.remote # "closed" => old.rtimer)
  BY DEF Fine, Timed, ReadTimed
<1>6. ~Closing(st) => ReadTimed(st)
  BY <1>2, <1>3, <1>5, Zenon DEF ReadTimed, Closing
<1>7. ~Closing(st) => WriteTimed(st)
  BY <1>3, Zenon DEF Fine, Timed, WriteTimed, Closing
<1>8. Fine(st) /\ Keeps(old, st)
  BY <1>3, <1>6, <1>7, Zenon DEF Fine, Timed, Keeps
<1> QED
  BY <1>4, <1>8

LEMMA EventIsFine ==
  ASSUME NEW old, Fine(old)
  PROVE  LET st == [old EXCEPT !.left = @ + 1] IN Fine(st) /\ Keeps(old, st)
<1> DEFINE more == old.left + 1  st == [old EXCEPT !.left = more]
<1>0. more \in Int
  <2>1. old.left \in Int
    BY DEF Fine, Stream
  <2> QED
    BY <2>1
<1> HIDE DEF more
<1>1. /\ st \in Stream /\ st.remote = old.remote /\ st.body = old.body
      /\ st.local = old.local /\ st.rst = old.rst /\ st.rtimer = old.rtimer
      /\ st.wtimer = old.wtimer /\ st.win = old.win /\ st.lowered = old.lowered
  BY <1>0 DEF Fine, Stream
<1> HIDE DEF st
<1>2. Timed(st)
  BY <1>1, Zenon DEF Fine, Timed, ReadTimed, WriteTimed, Closing
<1> QED
  BY <1>1, <1>2, Zenon DEF Fine, Keeps, st, more

\* What a frame that is sent leaves: on_frame_send_cb times a stream that goes on, and one
\* that ends needs no timer.
WellSent(old, st, last) ==
  /\ st.rst = old.rst
  /\ ~last => Fine(st)
  /\ last => Fine([st EXCEPT !.local = "done"])

LEMMA SendIsFine ==
  ASSUME NEW st \in Stream, NEW w \in Int, NEW last \in BOOLEAN, NEW data \in BOOLEAN,
         ~Closing(st) => ReadTimed(st)
  PROVE  WellSent(st, TimeWrite(st, w, last, data), last)
<1> DEFINE r == TimeWrite(st, w, last, data)
<1>1. CASE last
  <2> DEFINE d == [r EXCEPT !.local = "done"]
  <2>1. r = [st EXCEPT !.wtimer = FALSE]
    BY <1>1 DEF TimeWrite
  <2> HIDE DEF r
  <2>2. r.rst = st.rst /\ d = [st EXCEPT !.wtimer = FALSE, !.local = "done"]
    BY <2>1 DEF Stream
  <2> HIDE DEF d
  <2>3. /\ d \in Stream /\ d.local = "done" /\ d.remote = st.remote /\ d.rst = st.rst
        /\ d.rtimer = st.rtimer /\ d.body = st.body
    BY <2>2 DEF Stream
  <2>4. Timed(d)
    BY <2>3 DEF Timed, ReadTimed, WriteTimed, Closing
  <2> QED
    BY <1>1, <2>2, <2>3, <2>4 DEF WellSent, Fine, r, d
<1>2. CASE ~last
  <2> DEFINE b == Min({st.win, w}) <= 0
  <2>1. b \in BOOLEAN /\ r = [st EXCEPT !.wtimer = b, !.lowered = FALSE]
    BY <1>2 DEF TimeWrite
  <2>2. st.win <= 0 => b
    <3>1. st.win \in Int
      BY DEF Stream
    <3>2. Min({st.win, w}) = IF st.win <= w THEN st.win ELSE w
      BY <3>1, MinOfTwo
    <3> QED
      BY <3>1, <3>2
  <2> HIDE DEF b, r
  <2>3. /\ r \in Stream /\ r.wtimer = b /\ r.win = st.win /\ r.rst = st.rst
        /\ r.remote = st.remote /\ r.rtimer = st.rtimer /\ r.body = st.body
    BY <2>1 DEF Stream
  <2>4. WriteTimed(r)
    BY <2>2, <2>3, Zenon DEF WriteTimed
  <2>5. ~Closing(r) => ReadTimed(r)
    BY <2>3, Zenon DEF ReadTimed, Closing
  <2> QED
    BY <1>2, <2>3, <2>4, <2>5, Zenon DEF Fine, Timed, WellSent, r
<1> QED
  BY <1>1, <1>2

\* A HEADERS frame is sent, or a DATA frame of n.
LEMMA HeadersSentAreFine ==
  ASSUME NEW old, Fine(old), NEW w \in Int, NEW last \in BOOLEAN, old.out # <<>>,
         NEW loc \in {"none", "sending", "done", "failed"}
  PROVE  WellSent(old, TimeWrite([old EXCEPT !.out = Tail(@), !.local = loc], w, last, FALSE),
                  last)
<1> DEFINE q == Tail(old.out)  after == [old EXCEPT !.out = q, !.local = loc]
<1>1. q \in Seq({"100", "200"})
  BY OutShrinks DEF Fine, Stream
<1> HIDE DEF q
<1>2. /\ after \in Stream /\ after.rst = old.rst /\ after.remote = old.remote
      /\ after.rtimer = old.rtimer /\ after.body = old.body
  BY <1>1 DEF Fine, Stream
<1>3. after = [old EXCEPT !.out = Tail(@), !.local = loc]
  BY DEF q, Fine, Stream
<1> HIDE DEF after
<1>4. ~Closing(after) => ReadTimed(after)
  BY <1>2, Zenon DEF Fine, Timed, ReadTimed, Closing
<1>5. WellSent(after, TimeWrite(after, w, last, FALSE), last)
  BY <1>2, <1>4, SendIsFine
<1> QED
  BY <1>2, <1>3, <1>5 DEF WellSent

LEMMA DataSentIsFine ==
  ASSUME NEW old, Fine(old), NEW w \in Int, NEW n \in Int, NEW last \in BOOLEAN
  PROVE  WellSent(old, TimeWrite([old EXCEPT !.left = @ - n, !.win = @ - n], w, last, TRUE),
                  last)
<1> DEFINE left == old.left - n  win == old.win - n
           after == [old EXCEPT !.left = left, !.win = win]
<1>0. left \in Int /\ win \in Int
  <2>1. old.left \in Int /\ old.win \in Int
    BY DEF Fine, Stream
  <2> QED
    BY <2>1
<1> HIDE DEF left, win
<1>1. /\ after \in Stream /\ after.rst = old.rst /\ after.remote = old.remote
      /\ after.rtimer = old.rtimer /\ after.body = old.body
  BY <1>0 DEF Fine, Stream
<1> HIDE DEF after
<1>2. ~Closing(after) => ReadTimed(after)
  BY <1>1, Zenon DEF Fine, Timed, ReadTimed, Closing
<1>3. WellSent(after, TimeWrite(after, w, last, TRUE), last)
  BY <1>1, <1>2, SendIsFine
<1> QED
  BY <1>1, <1>3 DEF WellSent, after, left, win

-----------------------------------------------------------------------------
(* What is done to the table *)

LEMMA TableKeeps ==
  ASSUME StreamsInv, DOMAIN streams' = DOMAIN streams,
         streams' = [t \in DOMAIN streams |-> streams'[t]],
         \A t \in DOMAIN streams : Fine(streams'[t]) /\ Keeps(streams[t], streams'[t]),
         UNCHANGED flight, window' \in Int, initial' \in Windows
  PROVE  StreamsInv'
<1>1. Flying'
  BY DEF StreamsInv, Flying, Here, Keeps
<1>2. NoErrorIsWhole'
  BY DEF StreamsInv, NoErrorIsWhole, Keeps
<1> QED
  BY <1>1, <1>2 DEF StreamsInv

LEMMA PutKeeps ==
  ASSUME StreamsInv, NEW s \in DOMAIN streams, NEW st, Fine(st), Put(s, st),
         UNCHANGED flight, window' \in Int, initial' \in Windows, Keeps(streams[s], st)
  PROVE  StreamsInv'
<1>1. /\ DOMAIN streams' = DOMAIN streams /\ streams'[s] = st
      /\ \A t \in DOMAIN streams \ {s} : streams'[t] = streams[t]
      /\ streams' = [t \in DOMAIN streams |-> streams'[t]]
  BY DEF Put
<1>2. \A t \in DOMAIN streams \ {s} : Fine(streams[t]) /\ Keeps(streams[t], streams[t])
  BY DEF StreamsInv, Keeps
<1>3. \A t \in DOMAIN streams : Fine(streams'[t]) /\ Keeps(streams[t], streams'[t])
  BY <1>1, <1>2
<1> QED
  BY <1>1, <1>3, TableKeeps

\* A stream is closed, with the frame of it that was in flight.
LEMMA CloseKeeps ==
  ASSUME StreamsInv, NEW s \in DOMAIN streams, Close(s), window' \in Int, UNCHANGED initial
  PROVE  StreamsInv'
<1>1. /\ DOMAIN streams' = DOMAIN streams \ {s}
      /\ \A t \in DOMAIN streams' : streams'[t] = streams[t]
      /\ streams' = [t \in DOMAIN streams' |-> streams'[t]]
  BY DEF Close
<1>2. \A t \in DOMAIN streams' : Fine(streams'[t])
  BY <1>1 DEF StreamsInv
<1>3. ASSUME flight' # <<>> PROVE flight' = flight /\ flight[1].stream # s /\ flight # <<>>
  BY <1>3 DEF Close
<1>4. Flying'
  <2> SUFFICES ASSUME flight' # <<>> PROVE Flying'
    BY DEF Flying
  <2>1. flight' = flight /\ flight[1].stream # s /\ flight # <<>>
    BY <1>3
  <2> QED
    BY <1>1, <2>1 DEF StreamsInv, Flying, Here
<1>5. ASSUME NEW t \in DOMAIN streams', streams'[t].rst = "no error"
      PROVE  \/ streams'[t].local \in {"done", "failed"}
             \/ flight' # <<>> /\ flight'[1].stream = t /\ flight'[1].last
  BY <1>1, <1>5 DEF StreamsInv, NoErrorIsWhole, Close
<1>6. NoErrorIsWhole'
  BY <1>5 DEF NoErrorIsWhole
<1> QED
  BY <1>1, <1>2, <1>4, <1>6 DEF StreamsInv

\* What a frame of the client brings a stream to.
LEMMA ReceivedKeeps ==
  ASSUME StreamsInv, NEW s \in DOMAIN streams, NEW st, Fine(st), Received(s, st),
         UNCHANGED <<window, initial>>, Keeps(streams[s], st)
  PROVE  StreamsInv'
<1>1. window' \in Int /\ initial' \in Windows
  BY DEF StreamsInv
<1> QED
  BY <1>1, PutKeeps, CloseKeeps DEF Received

\* A frame of a stream is out or lost: it was the one in flight, or there was none.
LEMMA LandedKeeps ==
  ASSUME StreamsInv, NEW s \in DOMAIN streams, NEW st, Fine(st), Put(s, st), flight' = <<>>,
         window' \in Int, UNCHANGED initial, flight = <<>> \/ flight[1].stream = s,
         st.rst = "no error" => st.local \in {"done", "failed"}
  PROVE  StreamsInv'
<1>1. /\ DOMAIN streams' = DOMAIN streams /\ streams'[s] = st
      /\ \A t \in DOMAIN streams \ {s} : streams'[t] = streams[t]
      /\ streams' = [t \in DOMAIN streams' |-> streams'[t]]
  BY DEF Put
<1>2. \A t \in DOMAIN streams' : Fine(streams'[t])
  BY <1>1 DEF StreamsInv
<1>3. ASSUME NEW t \in DOMAIN streams', streams'[t].rst = "no error"
      PROVE  streams'[t].local \in {"done", "failed"}
  <2>1. CASE t = s
    BY <1>1, <1>3, <2>1
  <2>2. CASE t # s
    BY <1>1, <1>3, <2>2 DEF StreamsInv, NoErrorIsWhole
  <2> QED
    BY <2>1, <2>2
<1>4. NoErrorIsWhole' /\ Flying'
  BY <1>3 DEF NoErrorIsWhole, Flying
<1> QED
  BY <1>1, <1>2, <1>4 DEF StreamsInv

LEMMA SentKeeps ==
  ASSUME StreamsInv, NEW s \in DOMAIN streams, NEW st, NEW last \in BOOLEAN, Sent(s, st, last),
         window' \in Int, UNCHANGED initial, WellSent(streams[s], st, last),
         flight = <<>> \/ flight[1].stream = s, ~last => streams[s].rst # "no error"
  PROVE  StreamsInv'
<1>1. CASE last /\ st.remote = "closed"
  <2>1. Close(s)
    BY <1>1 DEF Sent
  <2> QED
    BY <2>1, CloseKeeps
<1>2. CASE ~(last /\ st.remote = "closed")
  <2> DEFINE new == IF last THEN [st EXCEPT !.local = "done"] ELSE st
  <2>1. Put(s, new) /\ flight' = <<>>
    BY <1>2 DEF Sent
  <2>2. Fine(new)
    BY DEF WellSent
  <2>3. new.rst = "no error" => new.local \in {"done", "failed"}
    <3>1. CASE last
      <4>1. new = [st EXCEPT !.local = "done"] /\ new \in Stream
        BY <2>2, <3>1 DEF Fine
      <4>2. DOMAIN new = DOMAIN st /\ "local" \in DOMAIN new
        BY <4>1 DEF Stream
      <4> QED
        BY <4>1, <4>2
    <3>2. CASE ~last
      BY <3>2 DEF WellSent
    <3> QED
      BY <3>1, <3>2
  <2> HIDE DEF new
  <2> QED
    BY <2>1, <2>2, <2>3, LandedKeeps
<1> QED
  BY <1>1, <1>2

-----------------------------------------------------------------------------
(* The actions of the client *)

LEMMA StreamsInit == Init => StreamsInv
  BY DEF Init, StreamsInv, Flying, NoErrorIsWhole

LEMMA OpenKeeps ==
  ASSUME StreamsInv, NEW s \in Ids, on_begin_headers_cb(s), s \notin DOMAIN streams
  PROVE  StreamsInv'
<1>1. /\ DOMAIN streams' = DOMAIN streams \cup {s} /\ streams'[s] = New(initial)
      /\ \A t \in DOMAIN streams : streams'[t] = streams[t]
      /\ streams' = [t \in DOMAIN streams' |-> streams'[t]]
      /\ UNCHANGED <<flight, window, initial>>
  BY DEF on_begin_headers_cb
<1>2. Fine(New(initial)) /\ New(initial).rst = "none"
  BY NewIsFine DEF StreamsInv
<1>3. \A t \in DOMAIN streams' : Fine(streams'[t])
  BY <1>1, <1>2 DEF StreamsInv
<1>4. Flying' /\ NoErrorIsWhole'
  BY <1>1, <1>2 DEF StreamsInv, Flying, Here, NoErrorIsWhole
<1> QED
  BY <1>1, <1>3, <1>4 DEF StreamsInv

LEMMA HeadersKeep ==
  ASSUME StreamsInv, NEW s, NEW expect \in BOOLEAN, NEW last \in BOOLEAN,
         RecvHeaders(s, expect, last)
  PROVE  StreamsInv'
<1> DEFINE st == AfterFrame([streams[s] EXCEPT !.expect = expect, !.remote = Half(last)], last)
<1>1. s \in DOMAIN streams /\ Fine(streams[s]) /\ window' \in Int /\ initial' \in Windows
  BY DEF RecvHeaders, Here, StreamsInv, client
<1>2. Fine(st) /\ Keeps(streams[s], st)
  BY <1>1, HeadersAreFine
<1>3. Put(s, st) /\ UNCHANGED flight
  BY DEF RecvHeaders
<1> HIDE DEF st
<1> QED
  BY <1>1, <1>2, <1>3, PutKeeps

LEMMA DataKeeps ==
  ASSUME StreamsInv, NEW s, NEW last \in BOOLEAN, RecvData(s, last)
  PROVE  StreamsInv'
<1> DEFINE st == AfterFrame([streams[s] EXCEPT !.remote = Half(last), !.prepared = TRUE], last)
<1>1. s \in DOMAIN streams /\ Fine(streams[s])
  BY DEF RecvData, Here, StreamsInv
<1>2. Fine(st) /\ Keeps(streams[s], st)
  BY <1>1, DataIsFine
<1>3. Received(s, st) /\ UNCHANGED <<window, initial>>
  BY DEF RecvData
<1> HIDE DEF st
<1> QED
  BY <1>1, <1>2, <1>3, ReceivedKeeps

LEMMA TrailersKeep == ASSUME StreamsInv, NEW s, RecvTrailers(s) PROVE StreamsInv'
<1> DEFINE st == [streams[s] EXCEPT !.remote = "closed", !.prepared = TRUE, !.rtimer = FALSE]
<1>1. s \in DOMAIN streams /\ Fine(streams[s])
  BY DEF RecvTrailers, Here, StreamsInv
<1>2. Fine(st) /\ Keeps(streams[s], st)
  BY <1>1, TrailersAreFine
<1>3. Received(s, st) /\ UNCHANGED <<window, initial>>
  BY DEF RecvTrailers, client
<1> HIDE DEF st
<1> QED
  BY <1>1, <1>2, <1>3, ReceivedKeeps

LEMMA UpdateKeeps == ASSUME StreamsInv, NEW s, RecvWindowUpdate(s) PROVE StreamsInv'
<1>1. UNCHANGED <<flight, initial>> /\ window \in Int /\ initial' \in Windows
  BY DEF RecvWindowUpdate, StreamsInv
<1>2. CASE Here(s) /\ Put(s, [streams[s] EXCEPT !.win = @ + 1]) /\ UNCHANGED window
  <2> DEFINE st == [streams[s] EXCEPT !.win = @ + 1]
  <2>1. s \in DOMAIN streams /\ Fine(streams[s])
    BY <1>2 DEF Here, StreamsInv
  <2>2. Fine(st) /\ Keeps(streams[s], st)
    BY <2>1, UpdateIsFine
  <2>3. Put(s, st)
    BY <1>2
  <2> HIDE DEF st
  <2> QED
    BY <1>1, <1>2, <2>1, <2>2, <2>3, PutKeeps
<1>3. CASE window' = window + 1 /\ UNCHANGED streams
  <2>1. window' \in Int
    BY <1>1, <1>3
  <2> QED
    BY <1>1, <1>3, <2>1 DEF StreamsInv, Flying, NoErrorIsWhole, Here
<1> QED
  BY <1>2, <1>3 DEF RecvWindowUpdate

LEMMA SettingsKeep ==
  ASSUME StreamsInv, NEW size \in Windows, RecvSettings(size)
  PROVE  StreamsInv'
<1> DEFINE by == size - initial
<1>1. by \in Int /\ window' \in Int /\ initial' \in Windows /\ UNCHANGED flight
  BY DEF RecvSettings, StreamsInv
<1>2. streams' = [s \in DOMAIN streams |-> Resized(streams[s], by)]
  BY DEF RecvSettings
<1> HIDE DEF by
<1>3. \A t \in DOMAIN streams : Fine(streams'[t]) /\ Keeps(streams[t], streams'[t])
  BY <1>1, <1>2, ResizedIsFine DEF StreamsInv
<1> QED
  BY <1>1, <1>2, <1>3, TableKeeps

-----------------------------------------------------------------------------
(* The handler, the timers, and the frames sent *)

LEMMA ErrorKeeps ==
  ASSUME StreamsInv, NEW s \in DOMAIN streams, Put(s, submit_rst(streams[s], "error")),
         UNCHANGED <<flight, window, client>>
  PROVE  StreamsInv'
<1> DEFINE st == submit_rst(streams[s], "error")
<1>1. Fine(streams[s]) /\ window' \in Int /\ initial' \in Windows
  BY DEF StreamsInv, client
<1>2. Fine(st) /\ Keeps(streams[s], st)
  BY <1>1, ErrorIsFine
<1> HIDE DEF st
<1> QED
  BY <1>1, <1>2, PutKeeps DEF st

LEMMA RespondKeeps ==
  ASSUME StreamsInv, NEW s, NEW body \in {"empty", "data", "events"}, NEW len \in Int,
         NEW timed \in BOOLEAN, timed \/ body = "events", Respond(s, body, len, timed)
  PROVE  StreamsInv'
<1> DEFINE st == [streams[s] EXCEPT !.body = body, !.left = len, !.rtimer = @ /\ timed,
                                    !.out = Append(@, "200")]
<1>1. /\ s \in DOMAIN streams /\ Fine(streams[s]) /\ streams[s].body = "none"
      /\ window' \in Int /\ initial' \in Windows /\ UNCHANGED flight
  BY DEF Respond, Here, StreamsInv, client
<1>2. Fine(st) /\ Keeps(streams[s], st)
  BY <1>1, ResponseIsFine
<1>3. Put(s, st)
  BY DEF Respond
<1> HIDE DEF st
<1> QED
  BY <1>1, <1>2, <1>3, PutKeeps

LEMMA HandlerKeeps == ASSUME StreamsInv, NEW s, Handler(s) PROVE StreamsInv'
<1>1. ASSUME NEW body \in {"empty", "data"}, NEW len \in Int, Respond(s, body, len, TRUE)
      PROVE  StreamsInv'
  <2>1. body \in {"empty", "data", "events"} /\ TRUE \in BOOLEAN
    BY <1>1
  <2> QED
    BY <1>1, <2>1, RespondKeeps
<1>2. Lens \subseteq Int /\ 0 \in Int
  OBVIOUS
<1>3. ASSUME NEW timed \in BOOLEAN, Respond(s, "events", 0, timed) PROVE StreamsInv'
  BY <1>3, RespondKeeps
<1> QED
  BY <1>1, <1>2, <1>3, Zenon DEF Handler, submit_response, create

LEMMA EventKeeps == ASSUME StreamsInv, NEW s, submit_event(s) PROVE StreamsInv'
<1> DEFINE st == [streams[s] EXCEPT !.left = @ + 1]
<1>1. /\ s \in DOMAIN streams /\ Fine(streams[s])
      /\ window' \in Int /\ initial' \in Windows /\ UNCHANGED flight
  BY DEF submit_event, Here, StreamsInv, client
<1>2. Fine(st) /\ Keeps(streams[s], st)
  BY <1>1, EventIsFine
<1>3. Put(s, st)
  BY DEF submit_event
<1> HIDE DEF st
<1> QED
  BY <1>1, <1>2, <1>3, PutKeeps

LEMMA SendHeadersKeeps == ASSUME StreamsInv, NEW s, SendHeaders(s) PROVE StreamsInv'
<1> DEFINE old == streams[s]
           final == Head(old.out) = "200"
           last == final /\ old.body = "empty"
           loc == IF final THEN "sending" ELSE old.local
           st == TimeWrite([old EXCEPT !.out = Tail(@), !.local = loc], window, last, FALSE)
<1>1. /\ s \in DOMAIN streams /\ Fine(old) /\ window \in Int /\ window' \in Int
      /\ flight = <<>> /\ old.rst = "none" /\ old.out # <<>> /\ UNCHANGED initial
  BY DEF SendHeaders, Here, StreamsInv, client, Closing
<1>2. loc \in {"none", "sending", "done", "failed"} /\ last \in BOOLEAN
  BY <1>1 DEF Fine, Stream
<1>3. Sent(s, st, last)
  <2>1. [old EXCEPT !.out = Tail(@), !.local = loc]
          = [old EXCEPT !.out = Tail(@), !.local = IF final THEN "sending" ELSE @]
    BY <1>1 DEF Fine, Stream
  <2> QED
    BY <2>1 DEF SendHeaders
<1> HIDE DEF loc, last
<1>4. WellSent(old, st, last)
  BY <1>1, <1>2, HeadersSentAreFine
<1> HIDE DEF st
<1> QED
  BY <1>1, <1>2, <1>3, <1>4, SentKeeps

LEMMA SendDataKeeps == ASSUME StreamsInv, SendData PROVE StreamsInv'
<1> DEFINE f == flight[1]  old == streams[f.stream]  w == window - f.len
           st == TimeWrite([old EXCEPT !.left = @ - f.len, !.win = @ - f.len], w, f.last, TRUE)
<1>1. Sent(f.stream, st, f.last) /\ window' = w /\ flight # <<>> /\ UNCHANGED initial
  BY DEF SendData, client
<1>2. /\ f \in [stream : Ids, len : Int, last : BOOLEAN] /\ f.stream \in DOMAIN streams
      /\ old.local = "sending"
  BY <1>1 DEF StreamsInv, Flying, Here
<1>3. f.len \in Int /\ f.last \in BOOLEAN /\ window \in Int /\ Fine(old)
  BY <1>2 DEF StreamsInv
<1>4. w \in Int
  BY <1>3
<1>5. ~f.last => old.rst # "no error"
  BY <1>1, <1>2 DEF StreamsInv, NoErrorIsWhole
<1>6. WellSent(old, st, f.last)
  <2> DEFINE n == f.len  l == f.last
  <2>1. n \in Int /\ l \in BOOLEAN /\ w \in Int /\ Fine(old)
    BY <1>3, <1>4
  <2> HIDE DEF n, l, w, old
  <2>2. WellSent(old, TimeWrite([old EXCEPT !.left = @ - n, !.win = @ - n], w, l, TRUE), l)
    BY <2>1, DataSentIsFine
  <2> QED
    BY <2>2 DEF n, l
<1> HIDE DEF st
<1> QED
  BY <1>1, <1>2, <1>3, <1>4, <1>5, <1>6, SentKeeps

LEMMA SendFailsKeeps == ASSUME StreamsInv, SendFails PROVE StreamsInv'
<1> DEFINE s == flight[1].stream  r == submit_rst(streams[s], "error")
           st == [r EXCEPT !.local = "failed"]
<1>1. /\ s \in DOMAIN streams /\ Fine(streams[s]) /\ window' \in Int /\ UNCHANGED initial
      /\ Put(s, st) /\ flight' = <<>>
  BY DEF SendFails, StreamsInv, Flying, Here, client
<1>2. Fine(r) /\ Closing(r)
  BY <1>1, ResetIsFine
<1> HIDE DEF r, s
<1>3. st \in Stream /\ st.local = "failed" /\ st.rst = r.rst
  BY <1>2 DEF Fine, Stream
<1> HIDE DEF st
<1>4. Fine(st)
  BY <1>2, <1>3, Zenon DEF Fine, Timed, Closing
<1>5. flight[1].stream = s
  BY DEF s
<1> QED
  BY <1>1, <1>3, <1>4, <1>5, LandedKeeps

LEMMA ReadDataKeeps == ASSUME StreamsInv, NEW s, ReadData(s) PROVE StreamsInv'
<1> DEFINE old == streams[s]
           n == Min({old.left, old.win, window})
           last == old.body = "data" /\ n = old.left
           st == AtEof(old, last)
<1>1. /\ s \in DOMAIN streams /\ Fine(old) /\ window \in Int /\ s \in Ids
      /\ flight = <<>> /\ ~Closing(old) /\ old.local = "sending"
  BY DEF ReadData, Here, StreamsInv
<1>2. /\ flight' = <<[stream |-> s, len |-> n, last |-> last]>> /\ Put(s, st)
      /\ window' = window /\ initial' = initial
  BY DEF ReadData, client
<1>3. n \in Int
  <2>1. old.left \in Int /\ old.win \in Int
    BY <1>1 DEF Fine, Stream
  <2> QED
    BY <1>1, <2>1, MinOfThree
<1> HIDE DEF n
<1>4. last \in BOOLEAN
  OBVIOUS
<1> HIDE DEF last
<1>5. Fine(st) /\ st.local = old.local /\ (st.rst = "no error" => last)
  <2>1. CASE last /\ old.remote # "closed"
    BY <1>1, <2>1, ResetIsFine DEF AtEof
  <2>2. CASE ~(last /\ old.remote # "closed")
    BY <1>1, <2>2 DEF AtEof, Closing
  <2> QED
    BY <2>1, <2>2
<1> HIDE DEF st
<1>6. /\ DOMAIN streams' = DOMAIN streams /\ streams'[s] = st
      /\ \A t \in DOMAIN streams \ {s} : streams'[t] = streams[t]
      /\ streams' = [t \in DOMAIN streams' |-> streams'[t]]
  BY <1>1, <1>2 DEF Put
<1>7. \A t \in DOMAIN streams' : Fine(streams'[t])
  BY <1>5, <1>6 DEF StreamsInv
<1> DEFINE f == [stream |-> s, len |-> n, last |-> last]
<1>8. Flying'
  <2>1. f \in [stream : Ids, len : Int, last : BOOLEAN] /\ f.stream = s
    BY <1>1, <1>3, <1>4
  <2>2. flight' = <<f>> /\ flight'[1] = f
    BY <1>2
  <2> HIDE DEF f
  <2> QED
    BY <1>1, <1>5, <1>6, <2>1, <2>2 DEF Flying, Here
<1>9. ASSUME NEW t \in DOMAIN streams', streams'[t].rst = "no error"
      PROVE  \/ streams'[t].local \in {"done", "failed"}
             \/ flight' # <<>> /\ flight'[1].stream = t /\ flight'[1].last
  <2>1. CASE t = s
    <3>1. last
      BY <1>5, <1>6, <1>9, <2>1
    <3> QED
      BY <1>2, <2>1, <3>1
  <2>2. CASE t # s
    BY <1>1, <1>6, <1>9, <2>2 DEF StreamsInv, NoErrorIsWhole
  <2> QED
    BY <2>1, <2>2
<1>10. NoErrorIsWhole'
  BY <1>9 DEF NoErrorIsWhole
<1> QED
  BY <1>1, <1>2, <1>6, <1>7, <1>8, <1>10 DEF StreamsInv

-----------------------------------------------------------------------------
(* The specification *)

\* A stream there is was opened by the client, once.
OnceOpened == DOMAIN streams \subseteq used

LEMMA StreamsOnce ==
  ASSUME OnceOpened, [Next]_vars
  PROVE  OnceOpened'
<1>1. ASSUME NEW s, NEW st, Put(s, st), UNCHANGED used PROVE OnceOpened'
  BY <1>1 DEF OnceOpened, Put
<1>2. ASSUME NEW s, Close(s), UNCHANGED used PROVE OnceOpened'
  BY <1>2 DEF OnceOpened, Close
<1>3. ASSUME NEW s, NEW st, Received(s, st), UNCHANGED used PROVE OnceOpened'
  BY <1>1, <1>2, <1>3 DEF Received
<1>4. ASSUME NEW s, NEW st, NEW last, Sent(s, st, last), UNCHANGED used PROVE OnceOpened'
  BY <1>1, <1>2, <1>4 DEF Sent
<1>5. CASE SendData
  BY <1>4, <1>5 DEF SendData, client
<1>6. CASE SendFails
  BY <1>1, <1>6 DEF SendFails, client
<1>7. CASE StopReading
  BY <1>7 DEF StopReading, OnceOpened
<1>8. ASSUME NEW size \in Windows, RecvSettings(size) PROVE OnceOpened'
  BY <1>8 DEF RecvSettings, Counted, OnceOpened
<1>9. ASSUME NEW s \in Ids, Client(s) PROVE OnceOpened'
  <2>1. CASE on_begin_headers_cb(s)
    BY <2>1 DEF on_begin_headers_cb, OnceOpened
  <2>2. CASE TooManyHeaders(s)
    BY <1>1, <2>2 DEF TooManyHeaders, client
  <2>3. CASE RecvTrailers(s)
    BY <1>3, <2>3 DEF RecvTrailers, client
  <2>4. CASE RecvReset(s)
    BY <1>2, <2>4 DEF RecvReset, client
  <2>5. CASE RecvWindowUpdate(s)
    <3>1. CASE UNCHANGED streams
      BY <2>5, <3>1 DEF RecvWindowUpdate, Counted, OnceOpened
    <3>2. CASE ~UNCHANGED streams
      BY <1>1, <2>5, <3>2 DEF RecvWindowUpdate, Counted
    <3> QED
      BY <3>1, <3>2
  <2>6. ASSUME NEW last \in BOOLEAN, RecvData(s, last) PROVE OnceOpened'
    BY <1>3, <2>6 DEF RecvData, Counted
  <2>7. ASSUME NEW last \in BOOLEAN, NEW expect \in BOOLEAN, RecvHeaders(s, expect, last)
        PROVE  OnceOpened'
    BY <1>1, <2>7 DEF RecvHeaders, client
  <2> QED
    BY <1>9, <2>1, <2>2, <2>3, <2>4, <2>5, <2>6, <2>7 DEF Client
<1>10. ASSUME NEW s \in Ids, Handler(s) PROVE OnceOpened'
  BY <1>1, <1>10 DEF Handler, submit_response, create, Respond, client
<1>11. ASSUME NEW s \in Ids, submit_event(s) \/ timeout_cb(s) PROVE OnceOpened'
  BY <1>1, <1>11 DEF submit_event, timeout_cb, client
<1>12. ASSUME NEW s \in Ids, Send(s) PROVE OnceOpened'
  <2>1. CASE SendHeaders(s)
    BY <1>4, <2>1 DEF SendHeaders, client
  <2>2. CASE ReadData(s)
    BY <1>1, <2>2 DEF ReadData, client
  <2>3. CASE SendReset(s)
    BY <1>2, <2>3 DEF SendReset, client
  <2> QED
    BY <1>12, <2>1, <2>2, <2>3 DEF Send
<1>13. CASE UNCHANGED vars
  BY <1>13 DEF vars, client, OnceOpened
<1> QED
  BY <1>5, <1>6, <1>7, <1>8, <1>9, <1>10, <1>11, <1>12, <1>13 DEF Next

LEMMA StreamsStep ==
  ASSUME StreamsInv, OnceOpened, [Next]_vars
  PROVE  StreamsInv'
<1>1. CASE SendData
  BY <1>1, SendDataKeeps
<1>2. CASE SendFails
  BY <1>2, SendFailsKeeps
<1>3. CASE StopReading
  BY <1>3 DEF StopReading, StreamsInv, Flying, NoErrorIsWhole, Here
<1>4. ASSUME NEW size \in Windows, RecvSettings(size) PROVE StreamsInv'
  BY <1>4, SettingsKeep
<1>5. ASSUME NEW s \in Ids, Client(s) PROVE StreamsInv'
  <2>1. CASE on_begin_headers_cb(s)
    <3>1. s \notin DOMAIN streams
      BY <2>1 DEF on_begin_headers_cb, OnceOpened
    <3> QED
      BY <2>1, <3>1, OpenKeeps
  <2>2. CASE TooManyHeaders(s)
    BY <2>2, ErrorKeeps DEF TooManyHeaders, Here
  <2>3. CASE RecvTrailers(s)
    BY <2>3, TrailersKeep
  <2>4. CASE RecvReset(s)
    <3>1. s \in DOMAIN streams /\ Close(s) /\ window' \in Int /\ UNCHANGED initial
      BY <2>4 DEF RecvReset, Here, StreamsInv, client
    <3> QED
      BY <3>1, CloseKeeps
  <2>5. CASE RecvWindowUpdate(s)
    BY <2>5, UpdateKeeps
  <2>6. ASSUME NEW last \in BOOLEAN, RecvData(s, last) PROVE StreamsInv'
    BY <2>6, DataKeeps
  <2>7. ASSUME NEW last \in BOOLEAN, NEW expect \in BOOLEAN, RecvHeaders(s, expect, last)
        PROVE  StreamsInv'
    BY <2>7, HeadersKeep
  <2> QED
    BY <1>5, <2>1, <2>2, <2>3, <2>4, <2>5, <2>6, <2>7 DEF Client
<1>6. ASSUME NEW s \in Ids, Handler(s) PROVE StreamsInv'
  BY <1>6, HandlerKeeps
<1>7. ASSUME NEW s \in Ids, submit_event(s) PROVE StreamsInv'
  BY <1>7, EventKeeps
<1>8. ASSUME NEW s \in Ids, timeout_cb(s) PROVE StreamsInv'
  BY <1>8, ErrorKeeps DEF timeout_cb, Here
<1>9. ASSUME NEW s \in Ids, Send(s) PROVE StreamsInv'
  <2>1. CASE SendHeaders(s)
    BY <2>1, SendHeadersKeeps
  <2>2. CASE ReadData(s)
    BY <2>2, ReadDataKeeps
  <2>3. CASE SendReset(s)
    <3>1. s \in DOMAIN streams /\ Close(s) /\ window' \in Int /\ UNCHANGED initial
      BY <2>3 DEF SendReset, Here, StreamsInv, client
    <3> QED
      BY <3>1, CloseKeeps
  <2> QED
    BY <1>9, <2>1, <2>2, <2>3 DEF Send
<1>10. CASE UNCHANGED vars
  BY <1>10 DEF vars, client, StreamsInv, Flying, NoErrorIsWhole, Here
<1> QED
  BY <1>1, <1>2, <1>3, <1>4, <1>5, <1>6, <1>7, <1>8, <1>9, <1>10 DEF Next

LEMMA StreamsInvHolds == Spec => []StreamsInv
<1>1. Init => StreamsInv /\ OnceOpened
  BY StreamsInit DEF Init, OnceOpened
<1>2. StreamsInv /\ OnceOpened /\ [Next]_vars => StreamsInv' /\ OnceOpened'
  BY StreamsStep, StreamsOnce
<1> QED
  BY <1>1, <1>2, PTL DEF Spec

\* Until its stream is reset, a complete request is not timed, and one that is not complete
\* is, unless its handler opened an event source: however many streams there are and
\* however their frames, responses and timeouts interleave (on_begin_headers_cb,
\* on_frame_recv_cb, submit_rst, EventSource::create).
THEOREM ReadTimer == Spec => []ReadTimerIsRight
<1>1. StreamsInv => ReadTimerIsRight
  BY DEF StreamsInv, Fine, Timed, ReadTimed, ReadTimerIsRight
<1> QED
  BY <1>1, StreamsInvHolds, PTL

\* A response that its own stream's window holds up has its write timer running, unless
\* SETTINGS closed the window after the last frame of the stream, for a client that opens
\* and lowers windows as it likes (on_frame_send_cb).
THEOREM WriteTimer == Spec => []OwnWindowIsTimed
<1>1. StreamsInv => OwnWindowIsTimed
  BY DEF StreamsInv, Fine, Timed, WriteTimed, OwnWindowIsTimed
<1> QED
  BY <1>1, StreamsInvHolds, PTL

\* The client is asked to stop only once the response is whole, or when its last frame was
\* found unreadable after the reset was submitted (data_read_cb, submit_rst, send_data_cb).
THEOREM WholeResponse == Spec => []NoErrorIsWhole
<1>1. StreamsInv => NoErrorIsWhole
  BY DEF StreamsInv
<1> QED
  BY <1>1, StreamsInvHolds, PTL

=============================================================================
