------------------------------ MODULE DbSession ------------------------------
(***************************************************************************)
(* db::Session (src/src/dbsession.cc): the one pipelined PostgreSQL         *)
(* connection of a worker.  HTTP handlers submit queries; two libev         *)
(* watchers drive libpq; each result is matched with the oldest dispatched  *)
(* query by position alone, and its handler runs if its stream is alive.    *)
(*                                                                         *)
(* The worker is single threaded: pc is "loop" between callbacks and names  *)
(* the place reached inside read() or write() otherwise.  The server and    *)
(* the kernel's socket buffers run concurrently with every step.            *)
(*                                                                         *)
(* flow is everything libpq was asked to send on this connection, a query   *)
(* or a sync per message.  Four cursors cut it:                             *)
(*    nRead <= nIn <= nResp <= nWire <= Len(flow)                           *)
(* results returned by PQgetResult, results in libpq's input buffer,        *)
(* messages the server has answered, messages that left libpq.              *)
(***************************************************************************)
EXTENDS Integers, Sequences, FiniteSets

CONSTANTS
  MaxQueries,   \* bound: query identifiers ever used
  MaxStreams,   \* bound: stream serials ever given
  Batch,        \* queries sent between two flushes (20 in the code)
  Stmts,        \* names of prepared statements
  NoStmt,       \* the statement of a query that names none
  Outcomes,     \* what the server may answer to a query
  MaxRounds,    \* bound: extra handshake round trips of PQconnectPoll
  MaxRestarts,  \* bound: failures that restart the session
  MaxNotifs     \* bound: notifications waiting in the kernel

ASSUME BoundsAssumption ==
  /\ MaxQueries \in Nat /\ MaxStreams \in Nat /\ Batch \in Nat \ {0}
  /\ MaxRounds \in Nat /\ MaxRestarts \in Nat /\ MaxNotifs \in Nat
ASSUME NamesAssumption ==
  NoStmt \notin Stmts /\ Outcomes \subseteq {"ok", "error", "empty", "bad"}

VARIABLES
  alive, nextSerial,                     \* Worker: live streams
  running,                               \* Worker: the event loop has not been broken
  conn, reply, rounds,                   \* connection phase, handshake answer pending
  rev, wev,                              \* the two ev_io watchers are active
  queued, dispatched, prepared,          \* Session: the two deques, the statement names
  flow, nRead, nIn, nResp, nWire,        \* libpq and the sockets
  outcome, srvPrepared, failedPrep, notifs, \* the server
  pc, batch,                             \* control inside a callback
  nextId, restarts,                      \* identifiers given, sessions lost
  fate, got, unmet                       \* what became of each query (history)

worker  == <<alive, nextSerial, running>>
connect == <<conn, reply, rounds>>
sockets == <<flow, nRead, nIn, nResp, nWire>>
server  == <<outcome, srvPrepared, failedPrep, notifs, unmet>>
history == <<nextId, restarts, fate, got>>
vars == <<worker, connect, rev, wev, queued, dispatched, prepared, sockets,
          server, pc, batch, history>>

Ids     == 1 .. MaxQueries
Serials == 1 .. MaxStreams
Kinds   == {"query", "prepare", "exec"}

\* coro: issued by the coroutine query_prepared, which chains prepare and exec
\* and keeps for the exec the identifier after the prepare's.
Query == {q \in [id : Ids, stream : Serials, kind : Kinds,
                 stmt : Stmts \cup {NoStmt}, coro : BOOLEAN] :
            /\ q.kind = "query" <=> q.stmt = NoStmt
            /\ q.kind = "prepare" /\ q.coro => q.id < MaxQueries}
Sync  == [id |-> 0, stream |-> 0, kind |-> "sync", stmt |-> NoStmt, coro |-> FALSE]

-----------------------------------------------------------------------------
(* The connection handshake *)

\* The constructor polls once and ignores the result.  A failed poll leaves a
\* session with no descriptor and no active watcher.
FirstPolls == {"write", "read", "failed"}

Init ==
  /\ alive = {} /\ nextSerial = 1 /\ running = TRUE
  /\ \E c \in FirstPolls : conn = c /\ wev = (c = "write") /\ rev = (c = "read")
  /\ reply = FALSE /\ rounds = 0
  /\ queued = <<>> /\ dispatched = <<>> /\ prepared = {}
  /\ flow = <<>> /\ nRead = 0 /\ nIn = 0 /\ nResp = 0 /\ nWire = 0
  /\ outcome = [q \in Ids |-> "none"]
  /\ srvPrepared = {} /\ failedPrep = {} /\ notifs = 0 /\ unmet = {}
  /\ pc = "loop" /\ batch = 0
  /\ nextId = 1 /\ restarts = 0
  /\ fate = [q \in Ids |-> "unsent"] /\ got = [q \in Ids |-> 0]

\* A callback returned -1: restart_db_session destroys the session with both
\* deques and their handlers, and connects anew; when PQconnectStart fails the
\* worker has no session and its event loop is broken.
Reconnect ==
  /\ restarts < MaxRestarts /\ restarts' = restarts + 1
  /\ \/ /\ running' = running
        /\ \E c \in FirstPolls : conn' = c /\ wev' = (c = "write") /\ rev' = (c = "read")
     \/ running' = FALSE /\ conn' = "none" /\ rev' = FALSE /\ wev' = FALSE
  /\ reply' = FALSE /\ rounds' = 0
  /\ flow' = <<>> /\ nRead' = 0 /\ nIn' = 0 /\ nResp' = 0 /\ nWire' = 0
  /\ srvPrepared' = {} /\ failedPrep' = {} /\ notifs' = 0
  /\ pc' = "loop" /\ batch' = 0
  /\ UNCHANGED <<alive, nextSerial, outcome, unmet, nextId, got>>

LoseAll == fate' = [q \in Ids |-> IF fate[q] = "pending" THEN "lost" ELSE fate[q]]

\* Mutants: the new connection inherits the dispatched handlers, or the names
\* of the statements prepared on the old one.
RestartKeepsDispatched ==
  Reconnect /\ LoseAll /\ queued' = <<>> /\ UNCHANGED dispatched /\ prepared' = {}
RestartKeepsPrepared ==
  Reconnect /\ LoseAll /\ queued' = <<>> /\ dispatched' = <<>> /\ UNCHANGED prepared

RestartSession ==
  Reconnect /\ LoseAll /\ queued' = <<>> /\ dispatched' = <<>> /\ prepared' = {}

PollReading == conn' = "read" /\ wev' = FALSE /\ rev' = TRUE

\* When libpq moved to another socket, both watchers are stopped first.
PollWriting ==
  /\ conn' = "write" /\ wev' = TRUE
  /\ \E moved \in BOOLEAN : rev' = (rev /\ ~moved)

\* connection_made: the watchers stay as they are.
PollOk == conn' = "ok" /\ UNCHANGED <<rev, wev>>

\* poll_connection, called from read_cb or write_cb until connected.
PollConnection ==
  /\ running /\ pc = "loop"
  /\ wev \/ (rev /\ reply)
  /\ \/ /\ conn = "write"
        /\ \/ PollReading /\ UNCHANGED rounds
           \/ rounds < MaxRounds /\ rounds' = rounds + 1 /\ PollWriting
        /\ UNCHANGED reply
     \/ conn = "read" /\ ~reply /\ PollReading /\ UNCHANGED <<reply, rounds>>
     \/ /\ conn = "read" /\ reply /\ reply' = FALSE
        /\ \/ PollOk /\ UNCHANGED rounds
           \/ rounds < MaxRounds /\ rounds' = rounds + 1 /\ (PollReading \/ PollWriting)
  /\ UNCHANGED <<worker, queued, dispatched, prepared, sockets, server, pc, batch, history>>

PollFailed ==
  /\ running /\ pc = "loop" /\ conn \in {"write", "read", "failed"}
  /\ wev \/ rev
  /\ RestartSession

HandshakeReply ==
  /\ conn = "read" /\ ~reply /\ reply' = TRUE
  /\ UNCHANGED <<worker, conn, rounds, rev, wev, queued, dispatched, prepared,
                 sockets, server, pc, batch, history>>

-----------------------------------------------------------------------------
(* Streams and the handlers that submit queries *)

\* Mutant: the serial of a stream is used again.
OpenStreamSameSerial ==
  /\ running /\ pc = "loop" /\ nextSerial <= MaxStreams
  /\ alive' = alive \cup {nextSerial} /\ UNCHANGED nextSerial
  /\ UNCHANGED <<running, connect, rev, wev, queued, dispatched, prepared,
                 sockets, server, pc, batch, history>>

OpenStream ==
  /\ running /\ pc = "loop" /\ nextSerial <= MaxStreams
  /\ alive' = alive \cup {nextSerial} /\ nextSerial' = nextSerial + 1
  /\ UNCHANGED <<running, connect, rev, wev, queued, dispatched, prepared,
                 sockets, server, pc, batch, history>>

CloseStream ==
  /\ running /\ pc = "loop"
  /\ \E s \in alive : alive' = alive \ {s}
  /\ UNCHANGED <<nextSerial, running, connect, rev, wev, queued, dispatched,
                 prepared, sockets, server, pc, batch, history>>

\* A stream may submit from its own callbacks, and from the completion handler
\* that read() is running for it.
Submitters ==
  CASE pc = "loop"    -> alive
    [] pc = "handler" -> {Head(dispatched).stream}
    [] OTHER          -> {}

\* Every send_* of the session: append to queued_ and start the write watcher.
Enqueue(q) ==
  /\ queued' = Append(queued, q)
  /\ wev' = TRUE
  /\ fate' = [fate EXCEPT ![q.id] = "pending"]

SendQuery ==
  /\ running /\ conn # "none" /\ nextId <= MaxQueries
  /\ \E s \in Submitters, kind \in {"query", "exec"},
        stmt \in Stmts \cup {NoStmt} :
       /\ (stmt = NoStmt) <=> (kind = "query")
       /\ Enqueue([id |-> nextId, stream |-> s, kind |-> kind,
                   stmt |-> stmt, coro |-> FALSE])
  /\ nextId' = nextId + 1
  /\ UNCHANGED <<worker, connect, rev, dispatched, prepared, sockets, server,
                 pc, batch, restarts, got>>

SendPrepared ==
  /\ running /\ conn # "none" /\ nextId <= MaxQueries
  /\ \E s \in Submitters, stmt \in Stmts :
       /\ prepared' = prepared \cup {stmt}
       /\ Enqueue([id |-> nextId, stream |-> s, kind |-> "prepare",
                   stmt |-> stmt, coro |-> FALSE])
  /\ nextId' = nextId + 1
  /\ UNCHANGED <<worker, connect, rev, dispatched, sockets, server,
                 pc, batch, restarts, got>>

\* The coroutine query_prepared.  A name in prepared_queries_ is executed at
\* once; otherwise the statement's file is prepared and the coroutine waits (the
\* identifier after the prepare's is kept for the exec).  When the file cannot
\* be opened the coroutine returns an error and the session sees nothing.
QueryPrepared ==
  /\ running /\ conn # "none"
  /\ \E s \in Submitters, stmt \in Stmts :
       \/ /\ stmt \in prepared /\ nextId <= MaxQueries
          /\ Enqueue([id |-> nextId, stream |-> s, kind |-> "exec",
                      stmt |-> stmt, coro |-> TRUE])
          /\ nextId' = nextId + 1 /\ UNCHANGED prepared
       \/ /\ stmt \notin prepared /\ nextId < MaxQueries
          /\ prepared' = prepared \cup {stmt}
          /\ Enqueue([id |-> nextId, stream |-> s, kind |-> "prepare",
                      stmt |-> stmt, coro |-> TRUE])
          /\ nextId' = nextId + 2
  /\ UNCHANGED <<worker, connect, rev, dispatched, sockets, server,
                 pc, batch, restarts, got>>

-----------------------------------------------------------------------------
(* write() *)

WriteCb ==
  /\ running /\ pc = "loop" /\ conn = "ok" /\ wev
  /\ pc' = "flush"
  /\ UNCHANGED <<worker, connect, rev, wev, queued, dispatched, prepared,
                 sockets, server, batch, history>>

FlushAll ==
  /\ pc = "flush"
  /\ nWire' = Len(flow) /\ batch' = Batch /\ pc' = "batch"
  /\ UNCHANGED <<worker, connect, rev, wev, queued, dispatched, prepared, flow,
                 nRead, nIn, nResp, server, history>>

\* PQflush would block: libpq then reads what has arrived, and write() returns
\* with the watcher still active.
FlushBlocks ==
  /\ pc = "flush"
  /\ nWire' \in nWire .. (Len(flow) - 1)
  /\ nIn' \in nIn .. nResp
  /\ pc' = "loop"
  /\ UNCHANGED <<worker, connect, rev, wev, queued, dispatched, prepared, flow,
                 nRead, nResp, server, batch, history>>

\* Mutant: the newest query is sent first.
DispatchNewest ==
  /\ pc = "batch" /\ queued # <<>> /\ batch > 0
  /\ flow' = flow \o <<queued[Len(queued)], Sync>>
  /\ nWire' \in nWire .. Len(flow')
  /\ nIn' \in nIn .. nResp
  /\ dispatched' = Append(dispatched, queued[Len(queued)])
  /\ queued' = SubSeq(queued, 1, Len(queued) - 1)
  /\ batch' = batch - 1
  /\ UNCHANGED <<worker, connect, rev, wev, prepared, nRead, nResp, server, pc, history>>

\* One round of the batch loop: the query, its sync, and the flush that
\* PQpipelineSync attempts, which may send any part of what is buffered.
DispatchQuery ==
  /\ pc = "batch" /\ queued # <<>> /\ batch > 0
  /\ flow' = flow \o <<Head(queued), Sync>>
  /\ nWire' \in nWire .. Len(flow')
  /\ nIn' \in nIn .. nResp
  /\ dispatched' = Append(dispatched, Head(queued))
  /\ queued' = Tail(queued)
  /\ batch' = batch - 1
  /\ UNCHANGED <<worker, connect, rev, wev, prepared, nRead, nResp, server, pc, history>>

\* Mutant: write() stops its watcher after one batch.
BatchDoneStops ==
  /\ pc = "batch" /\ (queued = <<>> \/ batch = 0)
  /\ wev' = FALSE /\ pc' = "loop"
  /\ UNCHANGED <<worker, connect, rev, queued, dispatched, prepared, sockets,
                 server, batch, history>>

BatchDone ==
  /\ pc = "batch"
  /\ \/ queued = <<>> /\ wev' = FALSE /\ pc' = "loop"
     \/ queued # <<>> /\ batch = 0 /\ pc' = "flush" /\ UNCHANGED wev
  /\ UNCHANGED <<worker, connect, rev, queued, dispatched, prepared, sockets,
                 server, batch, history>>

\* PQflush, the send, or PQpipelineSync failed.
WriteFails ==
  /\ pc = "flush" \/ (pc = "batch" /\ queued # <<>> /\ batch > 0)
  /\ RestartSession

-----------------------------------------------------------------------------
(* read() *)

\* PQconsumeInput reads some of what has arrived and tries to flush; the
\* notifications among it are dispatched.
ReadCb ==
  /\ running /\ pc = "loop" /\ conn = "ok" /\ rev
  /\ nIn < nResp \/ notifs > 0
  /\ nIn' \in nIn .. nResp /\ (nIn' > nIn \/ notifs > 0)
  /\ nWire' \in nWire .. Len(flow)
  /\ notifs' = 0
  /\ pc' = "read"
  /\ UNCHANGED <<worker, connect, rev, wev, queued, dispatched, prepared, flow,
                 nRead, nResp, outcome, srvPrepared, failedPrep, unmet, batch, history>>

ConsumeFails ==
  /\ running /\ pc = "loop" /\ conn = "ok" /\ rev
  /\ RestartSession

\* PQisBusy: the next message's result has not arrived.
ReadBusy ==
  /\ pc = "read" /\ nRead = nIn /\ nRead < Len(flow)
  /\ pc' = "loop"
  /\ UNCHANGED <<worker, connect, rev, wev, queued, dispatched, prepared,
                 sockets, server, batch, history>>

\* The loop condition at the end of a round, once dispatched_ has its new value.
NextRound(left) == pc' = IF left = <<>> THEN "loop" ELSE "read"
\* Mutant: read() returns after one result.
PopFrontAndReturn == dispatched' = Tail(dispatched) /\ pc' = "loop"
PopFront == dispatched' = Tail(dispatched) /\ NextRound(Tail(dispatched))

\* libpq has nothing in progress: PQgetResult returns nullptr at once.
ReadIdle ==
  /\ pc = "read" /\ nRead = Len(flow)
  /\ \/ dispatched = <<>> /\ NextRound(<<>>) /\ UNCHANGED dispatched
     \/ dispatched # <<>> /\ PopFront
  /\ UNCHANGED <<worker, connect, rev, wev, queued, prepared, sockets, server,
                 batch, history>>

\* Mutant: a sync pops the front query as well.
ReadSyncPops ==
  /\ pc = "read" /\ nRead < nIn /\ flow[nRead + 1] = Sync
  /\ nRead' = nRead + 1
  /\ IF dispatched = <<>> THEN NextRound(<<>>) /\ UNCHANGED dispatched ELSE PopFront
  /\ UNCHANGED <<worker, connect, rev, wev, queued, prepared, flow,
                 nIn, nResp, nWire, server, batch, history>>

ReadSync ==
  /\ pc = "read" /\ nRead < nIn /\ flow[nRead + 1] = Sync
  /\ nRead' = nRead + 1
  /\ NextRound(dispatched)
  /\ UNCHANGED <<worker, connect, rev, wev, queued, dispatched, prepared, flow,
                 nIn, nResp, nWire, server, batch, history>>

\* handle_result: the handler of the front query gets the result.  Only "ok"
\* lets query_prepared go on from its prepare to its exec.
HandleResult(h, m) ==
  /\ got' = [got EXCEPT ![h.id] = m.id]
  /\ fate' = [fate EXCEPT ![h.id] = "answered"]
  /\ pc' = IF h.kind = "prepare" /\ h.coro /\ outcome[m.id] = "ok"
             THEN "resume" ELSE "handler"
  /\ UNCHANGED dispatched

\* An empty query's result, or one for a dead stream, has no one to go to.
ForgetResult(h, why) ==
  /\ fate' = [fate EXCEPT ![h.id] = why]
  /\ PopFront /\ UNCHANGED got

\* A query's result is returned while dispatched_.front() is the query it is
\* taken to belong to.
ReadResult ==
  /\ pc = "read" /\ nRead < nIn /\ flow[nRead + 1] # Sync /\ dispatched # <<>>
  /\ nRead' = nRead + 1
  /\ LET m == flow[nRead + 1]
         h == Head(dispatched)
     IN \/ outcome[m.id] \in {"ok", "error"} /\ h.stream \in alive /\ HandleResult(h, m)
        \/ outcome[m.id] \in {"ok", "error"} /\ h.stream \notin alive
             /\ ForgetResult(h, "skipped")
        \/ outcome[m.id] = "empty" /\ ForgetResult(h, "dropped")
  /\ UNCHANGED <<worker, connect, rev, wev, queued, prepared, flow, nIn, nResp,
                 nWire, server, batch, nextId, restarts>>

\* PGRES_BAD_RESPONSE.  COPY results are left out: no query of the program copies, and
\* libpq would give such a result to the inner loop of read() again and again.
ReadBad ==
  /\ pc = "read" /\ nRead < nIn /\ flow[nRead + 1] # Sync
  /\ outcome[flow[nRead + 1].id] = "bad"
  /\ RestartSession

\* query_prepared, resumed by its prepare's result, sends the exec.
ResumePrepared ==
  /\ pc = "resume"
  /\ LET h == Head(dispatched)
     IN Enqueue([h EXCEPT !.id = h.id + 1, !.kind = "exec"])
  /\ pc' = "handler"
  /\ UNCHANGED <<worker, connect, rev, dispatched, prepared, sockets, server,
                 batch, nextId, restarts, got>>

HandlerReturns ==
  /\ pc = "handler"
  /\ PopFront
  /\ UNCHANGED <<worker, connect, rev, wev, queued, prepared, sockets, server,
                 batch, history>>

-----------------------------------------------------------------------------
(* The server *)

\* A statement can be prepared once per connection, and executed once prepared.
Answers(m) ==
  CASE m.kind = "query"   -> Outcomes
    [] m.kind = "prepare" -> IF m.stmt \in srvPrepared THEN {"error"} ELSE {"ok", "error"}
    [] m.kind = "exec"    -> IF m.stmt \in srvPrepared THEN Outcomes \ {"bad"} ELSE {"error"}

ServerSync ==
  /\ nResp < nWire /\ flow[nResp + 1] = Sync
  /\ nResp' = nResp + 1
  /\ UNCHANGED <<worker, connect, rev, wev, queued, dispatched, prepared, flow,
                 nRead, nIn, nWire, server, pc, batch, history>>

ServerAnswer ==
  /\ nResp < nWire /\ flow[nResp + 1] # Sync
  /\ nResp' = nResp + 1
  /\ LET m == flow[nResp + 1]
     IN \E o \in Answers(m) :
          /\ outcome' = [outcome EXCEPT ![m.id] = o]
          /\ srvPrepared' = srvPrepared \cup
               {s \in {m.stmt} : m.kind = "prepare" /\ o = "ok"}
          /\ failedPrep' = failedPrep \cup
               {s \in {m.stmt} : m.kind = "prepare" /\ s \notin srvPrepared /\ o = "error"}
          /\ unmet' = unmet \cup
               {q \in {m.id} : m.kind = "exec" /\ m.coro
                                 /\ m.stmt \notin srvPrepared \cup failedPrep}
  /\ UNCHANGED <<worker, connect, rev, wev, queued, dispatched, prepared, flow,
                 nRead, nIn, nWire, notifs, pc, batch, history>>

ServerNotify ==
  /\ conn = "ok" /\ notifs < MaxNotifs /\ notifs' = notifs + 1
  /\ UNCHANGED <<worker, connect, rev, wev, queued, dispatched, prepared, sockets,
                 outcome, srvPrepared, failedPrep, unmet, pc, batch, history>>

-----------------------------------------------------------------------------
Application == OpenStream \/ CloseStream \/ SendQuery \/ SendPrepared \/ QueryPrepared
Connecting  == PollConnection \/ PollFailed \/ HandshakeReply
Writing     == WriteCb \/ FlushAll \/ FlushBlocks \/ DispatchQuery \/ BatchDone \/ WriteFails
Reading     == \/ ReadCb \/ ConsumeFails \/ ReadBusy \/ ReadIdle \/ ReadSync
               \/ ReadResult \/ ReadBad \/ ResumePrepared \/ HandlerReturns
Server      == ServerSync \/ ServerAnswer \/ ServerNotify

Next == Application \/ Connecting \/ Writing \/ Reading \/ Server
Spec == Init /\ [][Next]_vars

\* The event loop runs every callback whose watcher is ready, a callback runs to
\* its end, the server answers what it received, and the kernel does not refuse
\* the session's data for ever.
Fairness ==
  /\ WF_vars(PollConnection) /\ WF_vars(HandshakeReply)
  /\ WF_vars(WriteCb) /\ SF_vars(FlushAll)
  /\ WF_vars(DispatchQuery) /\ WF_vars(BatchDone)
  /\ WF_vars(ReadCb) /\ WF_vars(ReadBusy \/ ReadIdle \/ ReadSync \/ ReadResult)
  /\ WF_vars(ResumePrepared) /\ WF_vars(HandlerReturns)
  /\ WF_vars(ServerSync) /\ WF_vars(ServerAnswer)
FairSpec == Spec /\ Fairness

-----------------------------------------------------------------------------
(* Properties *)

\* The type of every variable, and the order of the cursors over flow.
WorkerOK  == /\ nextSerial \in 1 .. MaxStreams + 1 /\ alive \subseteq 1 .. nextSerial - 1
             /\ running \in BOOLEAN
ConnOK    == /\ conn \in {"none", "write", "read", "failed", "ok"}
             /\ reply \in BOOLEAN /\ rounds \in 0 .. MaxRounds
             /\ rev \in BOOLEAN /\ wev \in BOOLEAN
QueuesOK  == /\ queued \in Seq(Query) /\ dispatched \in Seq(Query)
             /\ prepared \subseteq Stmts
FlowOK    == /\ flow \in Seq(Query \cup {Sync})
             /\ nRead \in Nat /\ nIn \in Nat /\ nResp \in Nat /\ nWire \in Nat
             /\ nRead <= nIn /\ nIn <= nResp /\ nResp <= nWire /\ nWire <= Len(flow)
ServerOK  == /\ outcome \in [Ids -> {"none", "ok", "error", "empty", "bad"}]
             /\ srvPrepared \subseteq Stmts /\ failedPrep \subseteq Stmts
             /\ notifs \in 0 .. MaxNotifs /\ unmet \subseteq Ids
ControlOK == /\ pc \in {"loop", "flush", "batch", "read", "resume", "handler"}
             /\ batch \in 0 .. Batch
HistoryOK == /\ nextId \in 1 .. MaxQueries + 1 /\ restarts \in 0 .. MaxRestarts
             /\ fate \in [Ids -> {"unsent", "pending", "answered", "skipped", "dropped", "lost"}]
             /\ got \in [Ids -> 0 .. MaxQueries]
TypeOK == WorkerOK /\ ConnOK /\ QueuesOK /\ FlowOK /\ ServerOK /\ ControlOK /\ HistoryOK

\* dispatched_ is popped by position: between two rounds of read() it holds
\* exactly the queries whose results libpq has yet to return, each followed by
\* its sync, and while a handler runs it still holds that handler's query.
InHandler == pc \in {"resume", "handler"}
Aligned ==
  LET d == Len(dispatched)  f == Len(flow)
  IN /\ 2 * d <= f
     /\ InHandler => d > 0 /\ nRead = f - 2 * d + 1
     /\ ~InHandler => nRead \in {f - 2 * d - 1, f - 2 * d}
     /\ \A i \in 1 .. d : /\ flow[f - 2 * (d - i) - 1] = dispatched[i]
                          /\ flow[f - 2 * (d - i)] = Sync
     /\ nRead = f - 2 * d - 1 => flow[f - 2 * d] = Sync

\* A completion handler is only ever called with its own query's result,
\* although handle_result picks the handler by position (dispatched_.front()).
ResultsMatch == \A q \in Ids : got[q] \in {0, q}

\* read() never finds a query's result with dispatched_ empty, where front()
\* would be undefined; with dispatched_ empty PQgetResult has at most a sync.
NoOrphanResult ==
  pc = "read" /\ nRead < nIn /\ flow[nRead + 1] # Sync => dispatched # <<>>

\* A query's result can be left in libpq's buffer when read() returns (read_cb
\* runs on kernel data only, and PQflush reads too when it blocks), but only
\* while the server still owes a later message that will wake the watcher.
StrandedResultIsFollowed ==
  pc = "loop" /\ (\E m \in nRead + 1 .. nIn : flow[m] # Sync) => nIn < Len(flow)

\* Once a session has sent anything, a query never waits in queued_ with the
\* write watcher stopped: write() stops it only with the queue empty, whatever
\* handlers and callbacks submit between its batches and its flushes.
WriterArmed == conn = "ok" /\ flow # <<>> /\ queued # <<>> => wev

\* query_prepared, which trusts prepared_queries_ although a name enters it when
\* its prepare is merely queued, executes an unknown statement only after the
\* prepare of that name failed on this connection.
PreparedFirst == unmet = {}

\* However the handshake moved between its phases, and whatever was submitted
\* meanwhile, the read watcher is active once the session is connected:
\* connection_made starts no watcher, and nothing would ever restart this one.
ConnectedReads == conn = "ok" => rev

\* The detailed session keeps the promise of QueryService: completions in
\* submission order, at most once, and all or nothing on a failure.  A query
\* whose handler is running is complete although it is still in dispatched_.
Waiting == (IF InHandler THEN Tail(dispatched) ELSE dispatched) \o queued
Service == INSTANCE QueryService WITH
  pending <- [i \in 1 .. Len(Waiting) |-> Waiting[i].id]
KeepsPromise == Service!Spec

\* The states in which the session itself will never move again although it has
\* work: no descriptor after a failed first poll; connected, with the write
\* watcher stopped before anything was sent; or with unsent bytes in libpq.
Stalled ==
  \/ conn = "failed"
  \/ /\ conn = "ok" /\ pc = "loop" /\ ~wev
     /\ (flow = <<>> /\ queued # <<>>) \/ nWire < Len(flow)

\* Every submitted query gets a completion, or its connection fails, unless
\* the session stalls.  (read_cb, write_cb and their loops make progress.)
EventuallyCompleted ==
  \A q \in Ids : fate[q] = "pending" ~> (fate[q] # "pending" \/ Stalled)

\* "sending query start writing" (dbsession.cc:363): a connected session with a
\* queued query has its write watcher started.
QueuedIsWatched == conn = "ok" /\ pc = "loop" /\ queued # <<>> => wev
=============================================================================
