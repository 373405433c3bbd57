--------------------------- MODULE DbSession_proofs ---------------------------
(***************************************************************************)
(* Safety of db::Session for every number of queries, streams, restarts and  *)
(* every batch size: type correctness, the alignment of dispatched_ with the *)
(* results still to come and what follows from it, the order of prepares and *)
(* the execs that rely on them, and that it keeps the promise of             *)
(* QueryService: each step submits, completes or loses queries as            *)
(* QueryService allows, or does not concern them.                            *)
(***************************************************************************)
EXTENDS DbSession, SequenceTheorems, TLAPS

USE BoundsAssumption, NamesAssumption

\* The control state "resume" means what its name says: the front query is the
\* prepare of a suspended query_prepared.
ResumesPrepare ==
  /\ InHandler => dispatched # <<>>
  /\ pc = "resume" => Head(dispatched).kind = "prepare" /\ Head(dispatched).coro

Typed == TypeOK /\ ResumesPrepare

\* A sync is not a query: no query has identifier 0.
LEMMA SyncIsNoQuery == Sync \notin Query
  BY DEF Sync, Query, Ids

\* Init establishes the type invariant.
LEMMA TypeInit == Init => Typed
<1> SUFFICES ASSUME Init PROVE Typed
  OBVIOUS
<1>1. WorkerOK
  BY DEF Init, WorkerOK
<1>2. ConnOK
  <2>1. PICK c \in FirstPolls : conn = c /\ wev = (c = "write") /\ rev = (c = "read")
    BY DEF Init
  <2>2. wev \in BOOLEAN /\ rev \in BOOLEAN
    BY <2>1, Zenon
  <2>3. reply \in BOOLEAN
    BY DEF Init
  <2>5. rounds \in 0 .. MaxRounds
    BY DEF Init
  <2>4. conn \in {"none", "write", "read", "failed", "ok"}
    BY <2>1 DEF FirstPolls
  <2> QED
    BY <2>2, <2>3, <2>4, <2>5 DEF ConnOK
<1>3. QueuesOK
  BY DEF Init, QueuesOK
<1>4. FlowOK
  BY DEF Init, FlowOK
<1>5. ServerOK
  BY DEF Init, ServerOK
<1>6. ControlOK
  BY DEF Init, ControlOK
<1>7. HistoryOK
  BY DEF Init, HistoryOK, Ids
<1>8. ResumesPrepare
  BY DEF Init, ResumesPrepare, InHandler
<1> QED
  BY <1>1, <1>2, <1>3, <1>4, <1>5, <1>6, <1>7, <1>8 DEF Typed, TypeOK

\* A restart re-establishes the types of a fresh session.
LEMMA TypeRestart == Typed /\ RestartSession => Typed'
<1> SUFFICES ASSUME Typed, RestartSession PROVE Typed'
  OBVIOUS
<1> USE DEF Typed, TypeOK, RestartSession, Reconnect
<1>1. WorkerOK'
  BY DEF WorkerOK
<1>2. ConnOK'
  <2>1. conn' \in {"none", "write", "read", "failed", "ok"}
    BY DEF FirstPolls
  <2>3. reply' \in BOOLEAN
    OBVIOUS
  <2>4. rounds' \in 0 .. MaxRounds
    OBVIOUS
  <2>2. wev' \in BOOLEAN /\ rev' \in BOOLEAN
    <3>1. CASE \E c \in FirstPolls : conn' = c /\ wev' = (c = "write") /\ rev' = (c = "read")
      BY <3>1, Zenon
    <3>2. CASE rev' = FALSE /\ wev' = FALSE
      BY <3>2
    <3> QED
      BY <3>1, <3>2
  <2> QED
    BY <2>1, <2>2, <2>3, <2>4 DEF ConnOK
<1>3. QueuesOK'
  BY DEF QueuesOK
<1>4. FlowOK'
  BY DEF FlowOK
<1>5. ServerOK'
  BY DEF ServerOK
<1>6. ControlOK'
  BY DEF ControlOK
<1>7. HistoryOK'
  BY DEF HistoryOK, LoseAll
<1>8. ResumesPrepare'
  BY DEF ResumesPrepare, InHandler
<1> QED
  BY <1>1, <1>2, <1>3, <1>4, <1>5, <1>6, <1>7, <1>8

\* Submitting a well formed query keeps the types of what Enqueue changes.
LEMMA TypeEnqueue ==
  ASSUME QueuesOK, HistoryOK, NEW q \in Query, Enqueue(q), dispatched' = dispatched,
         prepared' \subseteq Stmts, nextId' \in 1 .. MaxQueries + 1,
         restarts' = restarts, got' = got
  PROVE  QueuesOK' /\ HistoryOK' /\ wev' = TRUE
<1>1. QueuesOK' /\ wev' = TRUE
  BY DEF QueuesOK, Enqueue
<1>2. q.id \in Ids
  BY DEF Query
<1>3. HistoryOK'
  BY <1>2 DEF HistoryOK, Enqueue
<1> QED
  BY <1>1, <1>3

\* The stream that submits is a known one.
LEMMA SubmittersAreSerials == Typed => Submitters \subseteq Serials
<1> SUFFICES ASSUME Typed PROVE Submitters \subseteq Serials
  OBVIOUS
<1>1. CASE pc = "loop"
  BY <1>1 DEF Typed, TypeOK, WorkerOK, Submitters, Serials
<1>2. CASE pc = "handler"
  <2>1. Head(dispatched) \in Query
    BY <1>2 DEF Typed, TypeOK, QueuesOK, ResumesPrepare, InHandler
  <2> QED
    BY <1>2, <2>1 DEF Submitters, Query
<1>3. CASE pc \notin {"loop", "handler"}
  BY <1>3 DEF Submitters
<1> QED
  BY <1>1, <1>2, <1>3

\* The connection actions keep the types.
LEMMA TypeConnecting == Typed /\ Connecting => Typed'
<1> SUFFICES ASSUME Typed, Connecting PROVE Typed'
  OBVIOUS
<1> USE DEF Typed, TypeOK
<1>1. CASE PollConnection
  <2>1. ConnOK'
    <3>1. conn' \in {"none", "write", "read", "failed", "ok"}
      BY <1>1 DEF PollConnection, PollReading, PollWriting, PollOk
    <3>2. rounds' \in 0 .. MaxRounds
      BY <1>1 DEF PollConnection, ConnOK
    <3>3. reply' \in BOOLEAN
      BY <1>1, Zenon DEF PollConnection, ConnOK
    <3>4. PollReading \/ PollWriting \/ PollOk
      BY <1>1 DEF PollConnection
    <3>5. rev' \in BOOLEAN /\ wev' \in BOOLEAN
      BY <3>4, Zenon DEF PollReading, PollWriting, PollOk, ConnOK
    <3> QED
      BY <3>1, <3>2, <3>3, <3>5 DEF ConnOK
  <2>2. WorkerOK' /\ QueuesOK' /\ FlowOK'
    BY <1>1 DEF PollConnection, worker, sockets, WorkerOK, QueuesOK, FlowOK
  <2>3. ServerOK' /\ ControlOK' /\ HistoryOK' /\ ResumesPrepare'
    BY <1>1 DEF PollConnection, server, history, ServerOK, ControlOK, HistoryOK,
                ResumesPrepare, InHandler
  <2> QED
    BY <2>1, <2>2, <2>3
<1>2. CASE PollFailed
  BY <1>2, TypeRestart DEF PollFailed
<1>3. CASE HandshakeReply
  BY <1>3 DEF HandshakeReply, worker, sockets, server, history, WorkerOK, ConnOK, QueuesOK,
              FlowOK, ServerOK, ControlOK, HistoryOK, ResumesPrepare, InHandler
<1> QED
  BY <1>1, <1>2, <1>3 DEF Connecting

\* Opening and closing streams and submitting queries keep the types.
LEMMA TypeApplication == Typed /\ Application => Typed'
<1> SUFFICES ASSUME Typed, Application PROVE Typed'
  OBVIOUS
<1> USE DEF Typed, TypeOK
<1>1. CASE OpenStream \/ CloseStream
  <2>1. WorkerOK'
    <3>1. OpenStream => WorkerOK'
      BY DEF OpenStream, WorkerOK
    <3>2. CloseStream => WorkerOK'
      BY DEF CloseStream, WorkerOK
    <3> QED
      BY <1>1, <3>1, <3>2
  <2>2. ConnOK' /\ QueuesOK' /\ FlowOK'
    BY <1>1 DEF OpenStream, CloseStream, connect, sockets, ConnOK, QueuesOK, FlowOK
  <2>3. ServerOK' /\ ControlOK' /\ HistoryOK' /\ ResumesPrepare'
    BY <1>1 DEF OpenStream, CloseStream, server, history, ServerOK, ControlOK, HistoryOK,
                ResumesPrepare, InHandler
  <2> QED
    BY <2>1, <2>2, <2>3
<1>2. SendQuery => QueuesOK' /\ HistoryOK' /\ wev' = TRUE
  <2> SUFFICES ASSUME SendQuery PROVE QueuesOK' /\ HistoryOK' /\ wev' = TRUE
    OBVIOUS
  <2>1. PICK s \in Submitters, kind \in {"query", "exec"}, stmt \in Stmts \cup {NoStmt} :
          /\ (stmt = NoStmt) <=> (kind = "query")
          /\ Enqueue([id |-> nextId, stream |-> s, kind |-> kind,
                      stmt |-> stmt, coro |-> FALSE])
    BY DEF SendQuery
  <2>2. [id |-> nextId, stream |-> s, kind |-> kind, stmt |-> stmt, coro |-> FALSE] \in Query
    BY <2>1, SubmittersAreSerials DEF SendQuery, HistoryOK, Query, Ids, Kinds
  <2>3. /\ dispatched' = dispatched /\ prepared' \subseteq Stmts
        /\ nextId' \in 1 .. MaxQueries + 1 /\ restarts' = restarts /\ got' = got
    BY DEF SendQuery, HistoryOK, QueuesOK
  <2> QED
    BY <2>1, <2>2, <2>3, TypeEnqueue
<1>3. SendPrepared => QueuesOK' /\ HistoryOK' /\ wev' = TRUE
  <2> SUFFICES ASSUME SendPrepared PROVE QueuesOK' /\ HistoryOK' /\ wev' = TRUE
    OBVIOUS
  <2>1. PICK s \in Submitters, stmt \in Stmts :
          /\ prepared' = prepared \cup {stmt}
          /\ Enqueue([id |-> nextId, stream |-> s, kind |-> "prepare",
                      stmt |-> stmt, coro |-> FALSE])
    BY DEF SendPrepared
  <2>2. [id |-> nextId, stream |-> s, kind |-> "prepare", stmt |-> stmt, coro |-> FALSE] \in Query
    BY <2>1, SubmittersAreSerials DEF SendPrepared, HistoryOK, Query, Ids, Kinds
  <2>3. /\ dispatched' = dispatched /\ prepared' \subseteq Stmts
        /\ nextId' \in 1 .. MaxQueries + 1 /\ restarts' = restarts /\ got' = got
    BY <2>1 DEF SendPrepared, HistoryOK, QueuesOK
  <2> QED
    BY <2>1, <2>2, <2>3, TypeEnqueue
<1>4. QueryPrepared => QueuesOK' /\ HistoryOK' /\ wev' = TRUE
  <2> SUFFICES ASSUME QueryPrepared PROVE QueuesOK' /\ HistoryOK' /\ wev' = TRUE
    OBVIOUS
  <2>1. PICK s \in Submitters, stmt \in Stmts :
       \/ /\ stmt \in prepared /\ nextId <= MaxQueries
          /\ Enqueue([id |-> nextId, stream |-> s, kind |-> "exec",
                      stmt |-> stmt, coro |-> TRUE])
          /\ nextId' = nextId + 1 /\ UNCHANGED prepared
       \/ /\ stmt \notin prepared /\ nextId < MaxQueries
          /\ prepared' = prepared \cup {stmt}
          /\ Enqueue([id |-> nextId, stream |-> s, kind |-> "prepare",
                      stmt |-> stmt, coro |-> TRUE])
          /\ nextId' = nextId + 2
    BY DEF QueryPrepared
  <2>2. /\ dispatched' = dispatched /\ prepared' \subseteq Stmts
        /\ nextId' \in 1 .. MaxQueries + 1 /\ restarts' = restarts /\ got' = got
    BY <2>1 DEF QueryPrepared, HistoryOK, QueuesOK
  <2>3. nextId <= MaxQueries =>
          [id |-> nextId, stream |-> s, kind |-> "exec", stmt |-> stmt, coro |-> TRUE] \in Query
    BY <2>1, SubmittersAreSerials DEF HistoryOK, Query, Ids, Kinds
  <2>4. nextId < MaxQueries =>
          [id |-> nextId, stream |-> s, kind |-> "prepare", stmt |-> stmt, coro |-> TRUE] \in Query
    BY <2>1, SubmittersAreSerials DEF HistoryOK, Query, Ids, Kinds
  <2> QED
    BY <2>1, <2>2, <2>3, <2>4, TypeEnqueue
<1>5. CASE SendQuery \/ SendPrepared \/ QueryPrepared
  <2>1. ConnOK'
    BY <1>2, <1>3, <1>4, <1>5 DEF SendQuery, SendPrepared, QueryPrepared, connect, ConnOK
  <2>2. WorkerOK' /\ FlowOK' /\ ServerOK' /\ ControlOK' /\ ResumesPrepare'
    BY <1>5 DEF SendQuery, SendPrepared, QueryPrepared, worker, sockets, server, WorkerOK,
                FlowOK, ServerOK, ControlOK, ResumesPrepare, InHandler
  <2> QED
    BY <1>2, <1>3, <1>4, <1>5, <2>1, <2>2
<1> QED
  BY <1>1, <1>5 DEF Application

\* write() keeps the types.
LEMMA TypeWriting == Typed /\ Writing => Typed'
<1> SUFFICES ASSUME Typed, Writing PROVE Typed'
  OBVIOUS
<1> USE DEF Typed, TypeOK
<1>1. CASE WriteCb
  BY <1>1 DEF WriteCb, worker, connect, sockets, server, history, WorkerOK, ConnOK, QueuesOK,
              FlowOK, ServerOK, ControlOK, HistoryOK, ResumesPrepare, InHandler
<1>2. CASE FlushAll
  BY <1>2 DEF FlushAll, worker, connect, server, history, WorkerOK, ConnOK, QueuesOK,
              FlowOK, ServerOK, ControlOK, HistoryOK, ResumesPrepare, InHandler
<1>3. CASE FlushBlocks
  BY <1>3 DEF FlushBlocks, worker, connect, server, history, WorkerOK, ConnOK, QueuesOK,
              FlowOK, ServerOK, ControlOK, HistoryOK, ResumesPrepare, InHandler
<1>4. CASE DispatchQuery
  <2>1. QueuesOK' /\ Head(queued) \in Query
    BY <1>4 DEF DispatchQuery, QueuesOK
  <2>2. flow' \in Seq(Query \cup {Sync}) /\ Len(flow') = Len(flow) + 2
    BY <1>4, <2>1 DEF DispatchQuery, FlowOK
  <2>3. FlowOK'
    BY <1>4, <2>2 DEF DispatchQuery, FlowOK
  <2>4. ControlOK' /\ ResumesPrepare'
    BY <1>4 DEF DispatchQuery, ControlOK, ResumesPrepare, InHandler
  <2>5. WorkerOK' /\ ConnOK' /\ ServerOK' /\ HistoryOK'
    BY <1>4 DEF DispatchQuery, worker, connect, server, history, WorkerOK, ConnOK,
                ServerOK, HistoryOK
  <2> QED
    BY <2>1, <2>3, <2>4, <2>5
<1>5. CASE BatchDone
  BY <1>5 DEF BatchDone, worker, connect, sockets, server, history, WorkerOK, ConnOK, QueuesOK,
              FlowOK, ServerOK, ControlOK, HistoryOK, ResumesPrepare, InHandler
<1>6. CASE WriteFails
  BY <1>6, TypeRestart DEF WriteFails
<1> QED
  BY <1>1, <1>2, <1>3, <1>4, <1>5, <1>6 DEF Writing

\* Popping the front of dispatched_ keeps the types it changes.
LEMMA TypePopFront ==
  ASSUME Typed, PopFront, dispatched # <<>>, queued' = queued, prepared' = prepared,
         batch' = batch
  PROVE  QueuesOK' /\ ControlOK' /\ ResumesPrepare'
  BY DEF Typed, TypeOK, PopFront, NextRound, QueuesOK, ControlOK, ResumesPrepare, InHandler

\* read(), and the handlers it calls, keep the types.
LEMMA TypeReading == Typed /\ Reading => Typed'
<1> SUFFICES ASSUME Typed, Reading PROVE Typed'
  OBVIOUS
<1> USE DEF Typed, TypeOK
<1>1. CASE ReadCb
  <2>1. FlowOK'
    BY <1>1 DEF ReadCb, FlowOK
  <2>2. ServerOK'
    BY <1>1 DEF ReadCb, ServerOK
  <2> QED
    BY <1>1, <2>1, <2>2 DEF ReadCb, worker, connect, history, WorkerOK, ConnOK, QueuesOK,
                            ControlOK, HistoryOK, ResumesPrepare, InHandler
<1>2. CASE ConsumeFails \/ ReadBad
  BY <1>2, TypeRestart DEF ConsumeFails, ReadBad
<1>3. CASE ReadBusy
  BY <1>3 DEF ReadBusy, worker, connect, sockets, server, history, WorkerOK, ConnOK, QueuesOK,
              FlowOK, ServerOK, ControlOK, HistoryOK, ResumesPrepare, InHandler
<1>4. CASE ReadIdle
  <2>1. QueuesOK' /\ ControlOK' /\ ResumesPrepare'
    BY <1>4, TypePopFront DEF ReadIdle, NextRound, QueuesOK, ControlOK, ResumesPrepare, InHandler
  <2> QED
    BY <1>4, <2>1 DEF ReadIdle, worker, connect, sockets, server, history, WorkerOK, ConnOK,
                      FlowOK, ServerOK, HistoryOK
<1>5. CASE ReadSync
  BY <1>5 DEF ReadSync, NextRound, worker, connect, server, history, WorkerOK, ConnOK, QueuesOK,
              FlowOK, ServerOK, ControlOK, HistoryOK, ResumesPrepare, InHandler
<1>6. CASE ReadResult
  <2> DEFINE m == flow[nRead + 1]
             h == Head(dispatched)
  <2>1. h \in Query /\ m \in Query
    BY <1>6 DEF ReadResult, QueuesOK, FlowOK
  <2>2. h.id \in Ids /\ m.id \in Ids
    BY <2>1 DEF Query
  <2>3. FlowOK'
    BY <1>6 DEF ReadResult, FlowOK
  <2>4. CASE HandleResult(h, m)
    <3>1. HistoryOK'
      BY <1>6, <2>2, <2>4 DEF ReadResult, HandleResult, HistoryOK, Ids
    <3>2. QueuesOK' /\ ControlOK' /\ ResumesPrepare'
      BY <1>6, <2>4 DEF ReadResult, HandleResult, QueuesOK, ControlOK, ResumesPrepare, InHandler
    <3> QED
      BY <1>6, <2>3, <3>1, <3>2 DEF ReadResult, worker, connect, server, WorkerOK, ConnOK, ServerOK
  <2>5. CASE ForgetResult(h, "skipped") \/ ForgetResult(h, "dropped")
    <3>1. HistoryOK'
      BY <1>6, <2>2, <2>5 DEF ReadResult, ForgetResult, HistoryOK
    <3>2. QueuesOK' /\ ControlOK' /\ ResumesPrepare'
      BY <1>6, <2>5, TypePopFront DEF ReadResult, ForgetResult
    <3> QED
      BY <1>6, <2>3, <3>1, <3>2 DEF ReadResult, worker, connect, server, WorkerOK, ConnOK, ServerOK
  <2> QED
    BY <1>6, <2>4, <2>5 DEF ReadResult
<1>7. CASE ResumePrepared
  <2> DEFINE h == Head(dispatched)
             q == [h EXCEPT !.id = h.id + 1, !.kind = "exec"]
  <2>1. h \in Query /\ h.kind = "prepare" /\ h.coro
    BY <1>7 DEF ResumePrepared, QueuesOK, ResumesPrepare, InHandler
  <2>2. q \in Query
    <3>1. /\ h.id \in Ids /\ h.stream \in Serials /\ h.stmt \in Stmts \cup {NoStmt}
          /\ h.id < MaxQueries /\ h.stmt # NoStmt /\ h.coro \in BOOLEAN
      BY <2>1 DEF Query
    <3>2. h \in [id : Ids, stream : Serials, kind : Kinds,
                 stmt : Stmts \cup {NoStmt}, coro : BOOLEAN]
      BY <2>1 DEF Query
    <3>5. h.id + 1 \in Ids /\ "exec" \in Kinds
      BY <3>1 DEF Ids, Kinds
    <3> HIDE DEF h
    <3>3. q \in [id : Ids, stream : Serials, kind : Kinds,
                 stmt : Stmts \cup {NoStmt}, coro : BOOLEAN]
      BY <3>2, <3>5
    <3>4. q.kind = "exec" /\ q.stmt # NoStmt
      BY <3>1, <3>2
    <3> QED
      BY <3>3, <3>4 DEF Query
  <2>3. Enqueue(q) /\ dispatched' = dispatched /\ prepared' = prepared /\ nextId' = nextId
          /\ restarts' = restarts /\ got' = got
    BY <1>7 DEF ResumePrepared
  <2>4. QueuesOK' /\ HistoryOK' /\ wev' = TRUE
    BY <2>2, <2>3, TypeEnqueue DEF QueuesOK, HistoryOK
  <2>5. ConnOK' /\ ControlOK' /\ ResumesPrepare'
    BY <1>7, <2>4 DEF ResumePrepared, connect, ConnOK, ControlOK, ResumesPrepare, InHandler
  <2> QED
    BY <1>7, <2>4, <2>5 DEF ResumePrepared, worker, sockets, server, WorkerOK, FlowOK, ServerOK
<1>8. CASE HandlerReturns
  <2>1. QueuesOK' /\ ControlOK' /\ ResumesPrepare'
    BY <1>8, TypePopFront DEF HandlerReturns, ResumesPrepare, InHandler
  <2> QED
    BY <1>8, <2>1 DEF HandlerReturns, worker, connect, sockets, server, history, WorkerOK,
                      ConnOK, FlowOK, ServerOK, HistoryOK
<1> QED
  BY <1>1, <1>2, <1>3, <1>4, <1>5, <1>6, <1>7, <1>8 DEF Reading

\* The server keeps the types.
LEMMA TypeServer == Typed /\ Server => Typed'
<1> SUFFICES ASSUME Typed, Server PROVE Typed'
  OBVIOUS
<1> USE DEF Typed, TypeOK
<1>1. CASE ServerSync
  BY <1>1 DEF ServerSync, worker, connect, server, history, WorkerOK, ConnOK, QueuesOK,
              FlowOK, ServerOK, ControlOK, HistoryOK, ResumesPrepare, InHandler
<1>2. CASE ServerAnswer
  <2> DEFINE m == flow[nResp + 1]
  <2>1. m \in Query
    BY <1>2 DEF ServerAnswer, FlowOK
  <2>2. PICK o \in Answers(m) :
          /\ outcome' = [outcome EXCEPT ![m.id] = o]
          /\ srvPrepared' = srvPrepared \cup
               {s \in {m.stmt} : m.kind = "prepare" /\ o = "ok"}
          /\ failedPrep' = failedPrep \cup
               {s \in {m.stmt} : m.kind = "prepare" /\ s \notin srvPrepared /\ o = "error"}
          /\ unmet' = unmet \cup
               {q \in {m.id} : m.kind = "exec" /\ m.coro
                                 /\ m.stmt \notin srvPrepared \cup failedPrep}
    BY <1>2 DEF ServerAnswer
  <2>3. m.id \in Ids /\ m.kind \in Kinds /\ (m.kind = "prepare" => m.stmt \in Stmts)
    BY <2>1 DEF Query, Kinds
  <2>4. o \in {"none", "ok", "error", "empty", "bad"}
    BY <2>2, <2>3 DEF Answers, Kinds
  <2>5. outcome' \in [Ids -> {"none", "ok", "error", "empty", "bad"}]
    BY <2>2, <2>3, <2>4 DEF ServerOK
  <2>6. srvPrepared' \subseteq Stmts /\ failedPrep' \subseteq Stmts /\ unmet' \subseteq Ids
    BY <2>2, <2>3 DEF ServerOK
  <2>7. ServerOK'
    BY <1>2, <2>5, <2>6 DEF ServerAnswer, ServerOK
  <2>8. FlowOK'
    BY <1>2 DEF ServerAnswer, FlowOK
  <2> QED
    BY <1>2, <2>7, <2>8 DEF ServerAnswer, worker, connect, history, WorkerOK, ConnOK, QueuesOK,
                            ControlOK, HistoryOK, ResumesPrepare, InHandler
<1>3. CASE ServerNotify
  BY <1>3 DEF ServerNotify, worker, connect, sockets, history, WorkerOK, ConnOK, QueuesOK,
              FlowOK, ServerOK, ControlOK, HistoryOK, ResumesPrepare, InHandler
<1> QED
  BY <1>1, <1>2, <1>3 DEF Server

\* A step that changes nothing keeps the types.
LEMMA TypeStutter == Typed /\ UNCHANGED vars => Typed'
  BY DEF vars, worker, connect, sockets, server, history, Typed, TypeOK, WorkerOK, ConnOK,
         QueuesOK, FlowOK, ServerOK, ControlOK, HistoryOK, ResumesPrepare, InHandler

\* Every reachable state of the session is well typed, with the cursors over
\* the pipeline in order and every waiting query a well formed one.
THEOREM TypeCorrect == Spec => []TypeOK
<1>1. Typed /\ [Next]_vars => Typed'
  BY TypeConnecting, TypeApplication, TypeWriting, TypeReading, TypeServer, TypeStutter DEF Next
<1>2. Typed => TypeOK
  BY DEF Typed
<1> QED
  BY TypeInit, <1>1, <1>2, PTL DEF Spec
-----------------------------------------------------------------------------
\* The inductive invariant of the pipeline: dispatched_ and the results to come
\* match by position.
Pipeline == Typed /\ Aligned

\* Aligned only depends on the pipeline and on whether a handler is running.
LEMMA AlignedUnchanged ==
  ASSUME Aligned, flow' = flow, nRead' = nRead, dispatched' = dispatched,
         InHandler' <=> InHandler
  PROVE  Aligned'
  BY DEF Aligned

\* A fresh connection is aligned.
LEMMA AlignedFresh ==
  ASSUME flow' = <<>>, nRead' = 0, dispatched' = <<>>, pc' = "loop"
  PROVE  Aligned'
  BY DEF Aligned, InHandler

\* Where the next message libpq returns stands: it is the front query's
\* result, or the sync that follows the last popped query.
LEMMA NextMessage ==
  ASSUME Pipeline, ~InHandler, nRead < Len(flow)
  PROVE  \/ /\ flow[nRead + 1] = Sync
            /\ nRead = Len(flow) - 2 * Len(dispatched) - 1
         \/ /\ flow[nRead + 1] # Sync /\ dispatched # <<>>
            /\ flow[nRead + 1] = Head(dispatched)
            /\ nRead = Len(flow) - 2 * Len(dispatched)
<1> DEFINE d == Len(dispatched)
           f == Len(flow)
<1>1. d \in Nat /\ f \in Nat /\ nRead \in Nat /\ dispatched \in Seq(Query)
  BY DEF Pipeline, Typed, TypeOK, QueuesOK, FlowOK
<1>2. CASE nRead = f - 2 * d - 1
  BY <1>1, <1>2 DEF Pipeline, Aligned
<1>3. CASE nRead = f - 2 * d
  <2>1. d >= 1 /\ nRead + 1 = f - 2 * (d - 1) - 1
    BY <1>1, <1>3
  <2>2. flow[nRead + 1] = dispatched[1]
    BY <1>1, <2>1 DEF Pipeline, Aligned
  <2>3. dispatched[1] \in Query /\ dispatched[1] = Head(dispatched) /\ dispatched # <<>>
    BY <1>1, <2>1
  <2> QED
    BY <1>3, <2>2, <2>3, SyncIsNoQuery
<1> QED
  BY <1>1, <1>2, <1>3 DEF Pipeline, Aligned

\* Popping the front, once its result was returned, aligns the next round.
LEMMA AlignedPop ==
  ASSUME Pipeline, dispatched # <<>>, flow' = flow,
         nRead' = Len(flow) - 2 * Len(dispatched) + 1, dispatched' = Tail(dispatched), ~InHandler'
  PROVE  Aligned'
<1> DEFINE d == Len(dispatched)
           f == Len(flow)
<1>1. d \in Nat /\ f \in Nat /\ d >= 1 /\ 2 * d <= f /\ dispatched \in Seq(Query)
  BY DEF Pipeline, Typed, TypeOK, QueuesOK, FlowOK, Aligned
<1>2. Len(dispatched') = d - 1 /\ \A i \in 1 .. d - 1 : dispatched'[i] = dispatched[i + 1]
  BY <1>1
<1>3. \A i \in 1 .. d - 1 : /\ flow[f - 2 * (d - 1 - i) - 1] = dispatched'[i]
                            /\ flow[f - 2 * (d - 1 - i)] = Sync
  <2> SUFFICES ASSUME NEW i \in 1 .. d - 1
               PROVE  /\ flow[f - 2 * (d - 1 - i) - 1] = dispatched'[i]
                      /\ flow[f - 2 * (d - 1 - i)] = Sync
    OBVIOUS
  <2>1. i + 1 \in 1 .. d /\ d - 1 - i = d - (i + 1)
    BY <1>1
  <2> QED
    BY <1>2, <2>1 DEF Pipeline, Aligned
<1>4. flow[f - 2 * (d - 1)] = Sync
  BY <1>1 DEF Pipeline, Aligned
<1> QED
  BY <1>1, <1>2, <1>3, <1>4 DEF Aligned

\* Sending a query with its sync keeps the positions of the others.
LEMMA AlignedDispatch == Pipeline /\ DispatchQuery => Aligned'
<1> SUFFICES ASSUME Pipeline, DispatchQuery PROVE Aligned'
  OBVIOUS
<1> DEFINE d == Len(dispatched)
           f == Len(flow)
           q == Head(queued)
<1>1. /\ d \in Nat /\ f \in Nat /\ 2 * d <= f /\ nRead \in Nat
      /\ dispatched \in Seq(Query) /\ flow \in Seq(Query \cup {Sync}) /\ q \in Query
  BY SMTT(30) DEF DispatchQuery, Pipeline, Typed, TypeOK, QueuesOK, FlowOK, Aligned
<1>2. /\ Len(flow') = f + 2 /\ flow'[f + 1] = q /\ flow'[f + 2] = Sync
      /\ \A j \in 1 .. f : flow'[j] = flow[j]
  BY <1>1, SMTT(30) DEF DispatchQuery
<1>3. /\ Len(dispatched') = d + 1 /\ dispatched'[d + 1] = q
      /\ \A i \in 1 .. d : dispatched'[i] = dispatched[i]
  BY <1>1 DEF DispatchQuery
<1>4. ~InHandler /\ ~InHandler' /\ nRead' = nRead
  BY DEF DispatchQuery, InHandler
<1>5. \A i \in 1 .. d + 1 : /\ flow'[(f + 2) - 2 * (d + 1 - i) - 1] = dispatched'[i]
                            /\ flow'[(f + 2) - 2 * (d + 1 - i)] = Sync
  <2> SUFFICES ASSUME NEW i \in 1 .. d + 1
               PROVE  /\ flow'[(f + 2) - 2 * (d + 1 - i) - 1] = dispatched'[i]
                      /\ flow'[(f + 2) - 2 * (d + 1 - i)] = Sync
    OBVIOUS
  <2>1. CASE i = d + 1
    BY <1>1, <1>2, <1>3, <2>1
  <2>2. CASE i \in 1 .. d
    <3> DEFINE j == f - 2 * (d - i)
    <3>1. (f + 2) - 2 * (d + 1 - i) = j
      BY <1>1, <2>2
    <3>2. j \in 1 .. f /\ j - 1 \in 1 .. f
      BY <1>1, <2>2
    <3>3. flow[j - 1] = dispatched[i] /\ flow[j] = Sync
      BY <2>2 DEF Pipeline, Aligned
    <3>4. flow'[j - 1] = dispatched'[i] /\ flow'[j] = Sync
      BY <1>2, <1>3, <2>2, <3>2, <3>3
    <3> HIDE DEF j
    <3> QED
      BY <3>1, <3>4
  <2> QED
    BY <1>1, <2>1, <2>2
<1>6. ASSUME nRead = f - 2 * d - 1 PROVE flow'[(f + 2) - 2 * (d + 1)] = Sync
  <2>1. (f + 2) - 2 * (d + 1) = f - 2 * d /\ f - 2 * d \in 1 .. f
    BY <1>1, <1>6
  <2>2. flow[f - 2 * d] = Sync
    BY <1>6 DEF Pipeline, Aligned
  <2> HIDE DEF d, f
  <2> QED
    BY <1>2, <2>1, <2>2
<1>7. nRead \in {f - 2 * d - 1, f - 2 * d}
  BY <1>4 DEF Pipeline, Aligned
<1>8. nRead \in {(f + 2) - 2 * (d + 1) - 1, (f + 2) - 2 * (d + 1)}
  BY <1>1, <1>7
<1>9. nRead' = (f + 2) - 2 * (d + 1) - 1 => flow'[(f + 2) - 2 * (d + 1)] = Sync
  BY <1>1, <1>4, <1>6
<1>10. 2 * (d + 1) <= f + 2
  BY <1>1
<1>11. Len(flow') = f + 2 /\ Len(dispatched') = d + 1
  BY <1>2, <1>3
<1>12. \A i \in 1 .. Len(dispatched') :
          /\ flow'[Len(flow') - 2 * (Len(dispatched') - i) - 1] = dispatched'[i]
          /\ flow'[Len(flow') - 2 * (Len(dispatched') - i)] = Sync
  BY <1>5, <1>11
<1>13. /\ 2 * Len(dispatched') <= Len(flow')
       /\ nRead' \in {Len(flow') - 2 * Len(dispatched') - 1, Len(flow') - 2 * Len(dispatched')}
       /\ nRead' = Len(flow') - 2 * Len(dispatched') - 1
            => flow'[Len(flow') - 2 * Len(dispatched')] = Sync
  BY <1>4, <1>8, <1>9, <1>10, <1>11
<1> QED
  BY <1>4, <1>12, <1>13 DEF Aligned

\* When libpq has nothing in progress, no dispatched query waits for a result.
LEMMA IdleIsEmpty == Pipeline /\ ReadIdle => dispatched = <<>>
<1> SUFFICES ASSUME Pipeline, ReadIdle PROVE dispatched = <<>>
  OBVIOUS
<1> DEFINE d == Len(dispatched)
           f == Len(flow)
<1>1. d \in Nat /\ f \in Nat /\ nRead \in Nat
  BY DEF Pipeline, Typed, TypeOK, QueuesOK, FlowOK
<1>2. nRead \in {f - 2 * d - 1, f - 2 * d}
  BY DEF ReadIdle, Pipeline, Aligned, InHandler
<1>3. d = 0
  BY <1>1, <1>2 DEF ReadIdle
<1> QED
  BY <1>3 DEF Pipeline, Typed, TypeOK, QueuesOK

\* A round of read() that returns a result, a sync or nothing keeps the rest aligned.
LEMMA AlignedReading == Pipeline /\ Reading => Aligned'
<1> SUFFICES ASSUME Pipeline, Reading PROVE Aligned'
  OBVIOUS
<1> DEFINE d == Len(dispatched)
           f == Len(flow)
<1>0. d \in Nat /\ f \in Nat /\ nRead \in Nat /\ nIn \in Nat /\ nRead <= nIn /\ nIn <= f
  BY DEF Pipeline, Typed, TypeOK, QueuesOK, FlowOK
<1>1. CASE ReadCb \/ ReadBusy
  BY <1>1, AlignedUnchanged DEF ReadCb, ReadBusy, sockets, InHandler, Pipeline
<1>2. CASE ConsumeFails \/ ReadBad
  BY <1>2, AlignedFresh DEF ConsumeFails, ReadBad, RestartSession, Reconnect
<1>3. CASE ReadIdle
  <2>1. dispatched = <<>>
    BY <1>3, IdleIsEmpty
  <2>2. flow' = flow /\ nRead' = nRead /\ dispatched' = dispatched /\ pc' = "loop" /\ pc = "read"
    BY <1>3, <2>1 DEF ReadIdle, NextRound, sockets
  <2> QED
    BY <2>2, AlignedUnchanged DEF Pipeline, InHandler
<1>4. CASE ReadSync
  <2>1. /\ ~InHandler /\ ~InHandler' /\ flow' = flow /\ dispatched' = dispatched
        /\ nRead' = nRead + 1 /\ flow[nRead + 1] = Sync /\ nRead < f
    BY <1>0, <1>4 DEF ReadSync, InHandler, NextRound
  <2>2. nRead = f - 2 * d - 1
    BY <2>1, NextMessage
  <2>3. nRead' = f - 2 * d
    BY <1>0, <2>1, <2>2
  <2> QED
    BY <1>0, <2>1, <2>3 DEF Pipeline, Aligned
<1>5. CASE ReadResult
  <2>1. /\ ~InHandler /\ flow' = flow /\ dispatched # <<>> /\ nRead' = nRead + 1
        /\ flow[nRead + 1] # Sync /\ nRead < f
    BY <1>0, <1>5 DEF ReadResult, InHandler
  <2>2. nRead' = f - 2 * d + 1
    BY <1>0, <2>1, NextMessage
  <2>3. CASE HandleResult(Head(dispatched), flow[nRead + 1])
    <3>1. InHandler' /\ dispatched' = dispatched
      BY <2>3 DEF HandleResult, InHandler
    <3>2. d > 0
      BY <1>0, <2>1 DEF Pipeline, Typed, TypeOK, QueuesOK
    <3>3. Len(dispatched') = d /\ Len(flow') = f
      BY <2>1, <3>1
    <3>4. f - 2 * d + 1 # f - 2 * d - 1
      BY <1>0
    <3>5. /\ 2 * d <= f
          /\ \A i \in 1 .. d : /\ flow[f - 2 * (d - i) - 1] = dispatched[i]
                              /\ flow[f - 2 * (d - i)] = Sync
      BY DEF Pipeline, Aligned
    <3> QED
      BY <2>1, <2>2, <3>1, <3>2, <3>3, <3>4, <3>5 DEF Aligned
  <2>4. CASE dispatched' = Tail(dispatched) /\ ~InHandler'
    BY <2>1, <2>2, <2>4, AlignedPop
  <2> QED
    BY <1>5, <2>3, <2>4 DEF ReadResult, ForgetResult, PopFront, NextRound, InHandler
<1>6. CASE ResumePrepared
  BY <1>6, AlignedUnchanged DEF ResumePrepared, sockets, InHandler, Pipeline
<1>7. CASE HandlerReturns
  <2>1. /\ InHandler /\ ~InHandler' /\ flow' = flow /\ nRead' = nRead
        /\ dispatched' = Tail(dispatched)
    BY <1>7 DEF HandlerReturns, PopFront, NextRound, sockets, InHandler
  <2>2. dispatched # <<>> /\ nRead = f - 2 * d + 1
    BY <2>1 DEF Pipeline, Aligned, Typed, ResumesPrepare
  <2> QED
    BY <2>1, <2>2, AlignedPop
<1> QED
  BY <1>1, <1>2, <1>3, <1>4, <1>5, <1>6, <1>7 DEF Reading

\* Every step keeps dispatched_ aligned with the results still to come.
LEMMA AlignedStep == Pipeline /\ [Next]_vars => Aligned'
<1> SUFFICES ASSUME Pipeline, [Next]_vars PROVE Aligned'
  OBVIOUS
<1>1. CASE Application
  BY <1>1, AlignedUnchanged DEF Application, OpenStream, CloseStream, SendQuery, SendPrepared,
       QueryPrepared, sockets, InHandler, Pipeline
<1>2. CASE Connecting
  BY <1>2, AlignedUnchanged, AlignedFresh DEF Connecting, PollConnection, PollFailed,
       HandshakeReply, RestartSession, Reconnect, sockets, InHandler, Pipeline
<1>3. CASE Writing
  <2>1. CASE DispatchQuery
    BY <2>1, AlignedDispatch
  <2>2. CASE WriteFails
    BY <2>2, AlignedFresh DEF WriteFails, RestartSession, Reconnect
  <2>3. CASE WriteCb \/ FlushAll \/ FlushBlocks \/ BatchDone
    BY <2>3, AlignedUnchanged DEF WriteCb, FlushAll, FlushBlocks, BatchDone, sockets,
         InHandler, Pipeline
  <2> QED
    BY <1>3, <2>1, <2>2, <2>3 DEF Writing
<1>4. CASE Reading
  BY <1>4, AlignedReading
<1>5. CASE Server
  BY <1>5, AlignedUnchanged DEF Server, ServerSync, ServerAnswer, ServerNotify, sockets,
       InHandler, Pipeline
<1>6. CASE UNCHANGED vars
  BY <1>6, AlignedUnchanged DEF vars, sockets, InHandler, Pipeline
<1> QED
  BY <1>1, <1>2, <1>3, <1>4, <1>5, <1>6 DEF Next

\* The empty pipeline of the initial state is aligned.
LEMMA AlignedInit == Init => Aligned
  BY DEF Init, Aligned, InHandler

\* Typed is inductive on its own; with Aligned it is the pipeline's invariant.
LEMMA PipelineInvariant == Spec => []Pipeline
<1>1. Init => Pipeline
  BY TypeInit, AlignedInit DEF Pipeline
<1>2. Pipeline /\ [Next]_vars => Pipeline'
  BY AlignedStep, TypeConnecting, TypeApplication, TypeWriting, TypeReading, TypeServer,
     TypeStutter DEF Next, Pipeline
<1> QED
  BY <1>1, <1>2, PTL DEF Spec

\* dispatched_ and the results still to come always match by position.
THEOREM SessionAligned == Spec => []Aligned
<1>1. Pipeline => Aligned
  BY DEF Pipeline
<1> QED
  BY PipelineInvariant, <1>1, PTL

\* read() never finds a query's result with dispatched_ empty.
THEOREM NeverOrphaned == Spec => []NoOrphanResult
<1>1. Pipeline => NoOrphanResult
  <2> SUFFICES ASSUME Pipeline, pc = "read", nRead < nIn, flow[nRead + 1] # Sync
               PROVE  dispatched # <<>>
    BY DEF NoOrphanResult
  <2>1. ~InHandler /\ nRead < Len(flow)
    BY DEF InHandler, Pipeline, Typed, TypeOK, FlowOK
  <2> QED
    BY <2>1, NextMessage
<1> QED
  BY PipelineInvariant, <1>1, PTL

\* A handler is only ever called with its own query's result.
THEOREM HandlersGetTheirResults == Spec => []ResultsMatch
<1>1. Init => ResultsMatch
  BY DEF Init, ResultsMatch
<1>2. Pipeline /\ ResultsMatch /\ [Next]_vars => ResultsMatch'
  <2> SUFFICES ASSUME Pipeline, ResultsMatch, [Next]_vars PROVE ResultsMatch'
    OBVIOUS
  <2>1. CASE ReadResult
    <3>1. ~InHandler /\ nRead < Len(flow)
      BY <2>1 DEF ReadResult, InHandler, Pipeline, Typed, TypeOK, FlowOK
    <3>2. flow[nRead + 1] = Head(dispatched)
      BY <2>1, <3>1, NextMessage DEF ReadResult
    <3>3. \/ got' = got
          \/ got' = [got EXCEPT ![Head(dispatched).id] = Head(dispatched).id]
      BY <2>1, <3>2 DEF ReadResult, HandleResult, ForgetResult
    <3>4. got \in [Ids -> 0 .. MaxQueries]
      BY DEF Pipeline, Typed, TypeOK, HistoryOK
    <3> QED
      BY <3>3, <3>4 DEF ResultsMatch
  <2>2. CASE got' = got
    BY <2>2 DEF ResultsMatch
  <2>3. CASE Next /\ ~ReadResult
    <3>1. got' = got
      BY <2>3 DEF Next, Application, OpenStream, CloseStream, SendQuery, SendPrepared,
        QueryPrepared, Connecting, PollConnection, PollFailed, HandshakeReply, Writing, WriteCb,
        FlushAll, FlushBlocks, DispatchQuery, BatchDone, WriteFails, Reading, ReadCb,
        ConsumeFails, ReadBusy, ReadIdle, ReadSync, ReadBad, ResumePrepared, HandlerReturns,
        Server, ServerSync, ServerAnswer, ServerNotify, RestartSession, Reconnect, history
    <3> QED
      BY <2>2, <3>1
  <2>4. CASE UNCHANGED vars
    BY <2>2, <2>4 DEF vars, history
  <2> QED
    BY <2>1, <2>3, <2>4
<1> QED
  BY <1>1, <1>2, PipelineInvariant, PTL DEF Spec
-----------------------------------------------------------------------------
\* What the two watchers are worth: the read watcher runs from the moment the
\* handshake waits for the server, nothing is sent before the connection is
\* made, and the write watcher runs while write() or a queued query needs it.
Watched ==
  /\ conn \in {"read", "ok"} => rev
  /\ conn # "ok" => flow = <<>> /\ pc = "loop"
  /\ pc \in {"flush", "batch"} => wev
  /\ flow # <<>> /\ queued # <<>> => wev

\* A reconnected session starts watched.
LEMMA WatchedRestart == RestartSession => Watched'
<1> SUFFICES ASSUME RestartSession PROVE Watched'
  OBVIOUS
<1>1. flow' = <<>> /\ queued' = <<>> /\ pc' = "loop"
  BY DEF RestartSession, Reconnect
<1>2. conn' \in {"read", "ok"} => rev'
  BY DEF RestartSession, Reconnect, FirstPolls
<1> QED
  BY <1>1, <1>2 DEF Watched

\* Every step keeps the watchers as they must be.
LEMMA WatchedStep == Watched /\ [Next]_vars => Watched'
<1> SUFFICES ASSUME Watched, [Next]_vars PROVE Watched'
  OBVIOUS
<1>1. CASE OpenStream \/ CloseStream \/ HandshakeReply \/ Server \/ UNCHANGED vars
  BY <1>1 DEF OpenStream, CloseStream, HandshakeReply, Server, ServerSync, ServerAnswer,
       ServerNotify, vars, connect, sockets, Watched
<1>2. CASE SendQuery \/ SendPrepared \/ QueryPrepared
  BY <1>2 DEF SendQuery, SendPrepared, QueryPrepared, Enqueue, connect, sockets, Watched
<1>3. CASE PollConnection
  <2>1. conn # "ok" /\ flow' = flow /\ pc' = pc /\ pc = "loop"
    BY <1>3 DEF PollConnection, sockets
  <2>2. conn' \in {"read", "ok"} => rev'
    BY <1>3 DEF PollConnection, PollReading, PollWriting, PollOk, Watched
  <2> QED
    BY <2>1, <2>2 DEF Watched
<1>4. CASE PollFailed \/ WriteFails \/ ConsumeFails \/ ReadBad
  BY <1>4, WatchedRestart DEF PollFailed, WriteFails, ConsumeFails, ReadBad
<1>5. CASE WriteCb \/ FlushAll \/ FlushBlocks
  BY <1>5 DEF WriteCb, FlushAll, FlushBlocks, connect, sockets, Watched
<1>6. CASE DispatchQuery
  BY <1>6 DEF DispatchQuery, connect, Watched
<1>7. CASE BatchDone
  BY <1>7 DEF BatchDone, connect, sockets, Watched
<1>8. CASE ReadCb \/ ReadBusy \/ ReadIdle \/ ReadSync
  BY <1>8 DEF ReadCb, ReadBusy, ReadIdle, ReadSync, PopFront, NextRound, connect, sockets, Watched
<1>9. CASE ReadResult
  BY <1>9 DEF ReadResult, HandleResult, ForgetResult, PopFront, NextRound, connect, Watched
<1>10. CASE ResumePrepared \/ HandlerReturns
  BY <1>10 DEF ResumePrepared, HandlerReturns, Enqueue, PopFront, NextRound, connect,
       sockets, Watched
<1> QED
  BY <1>1, <1>2, <1>3, <1>4, <1>5, <1>6, <1>7, <1>8, <1>9, <1>10
     DEF Next, Application, Connecting, Writing, Reading

\* The watchers are as they must be in every reachable state.
LEMMA WatchedInvariant == Spec => []Watched
<1>1. Init => Watched
  BY DEF Init, Watched, FirstPolls
<1> QED
  BY <1>1, WatchedStep, PTL DEF Spec

\* Once a session has sent anything, no query waits with the watcher stopped.
THEOREM WriterStaysArmed == Spec => []WriterArmed
<1>1. Watched => WriterArmed
  BY DEF Watched, WriterArmed
<1> QED
  BY <1>1, WatchedInvariant, PTL

\* A connected session always listens to its server.
THEOREM ConnectedSessionReads == Spec => []ConnectedReads
<1>1. Watched => ConnectedReads
  BY DEF Watched, ConnectedReads
<1> QED
  BY <1>1, WatchedInvariant, PTL

-----------------------------------------------------------------------------
\* A result left in libpq's buffer outside read() has a later message to come.
Followed ==
  pc \in {"loop", "flush", "batch"} /\ (\E m \in nRead + 1 .. nIn : flow[m] # Sync)
    => nIn < Len(flow)

\* When read() leaves with dispatched_ empty, it leaves no query's result behind.
NothingLeft ==
  ~InHandler /\ dispatched = <<>> => \A m \in nRead + 1 .. nIn : flow[m] = Sync

\* An aligned pipeline has nothing left once dispatched_ is empty.
LEMMA AlignedNothingLeft == Pipeline => NothingLeft
<1> SUFFICES ASSUME Pipeline, ~InHandler, dispatched = <<>>, NEW m \in nRead + 1 .. nIn
             PROVE  flow[m] = Sync
  BY DEF NothingLeft
<1>1. nRead \in Nat /\ nIn \in Nat /\ nIn <= Len(flow) /\ Len(flow) \in Nat /\ Len(dispatched) = 0
  BY DEF Pipeline, Typed, TypeOK, FlowOK
<1>2. nRead \in {Len(flow) - 1, Len(flow)} /\ (nRead = Len(flow) - 1 => flow[Len(flow)] = Sync)
  BY <1>1 DEF Pipeline, Aligned
<1> QED
  BY <1>1, <1>2

\* Every step keeps a left result followed by another message.
LEMMA FollowedStep == Pipeline /\ NothingLeft' /\ Followed /\ [Next]_vars => Followed'
<1> SUFFICES ASSUME Pipeline, NothingLeft', Followed, [Next]_vars PROVE Followed'
  OBVIOUS
<1>0. /\ nRead \in Nat /\ nIn \in Nat /\ nResp \in Nat /\ nWire \in Nat /\ Len(flow) \in Nat
      /\ nIn <= nResp /\ nResp <= nWire /\ nWire <= Len(flow)
  BY DEF Pipeline, Typed, TypeOK, FlowOK
<1>1. CASE Application \/ PollConnection \/ HandshakeReply \/ Server \/ UNCHANGED vars
  BY <1>1 DEF Application, OpenStream, CloseStream, SendQuery, SendPrepared, QueryPrepared,
       PollConnection, HandshakeReply, Server, ServerSync, ServerAnswer, ServerNotify, vars,
       sockets, Followed
<1>2. CASE PollFailed \/ WriteFails \/ ConsumeFails \/ ReadBad
  BY <1>2 DEF PollFailed, WriteFails, ConsumeFails, ReadBad, RestartSession, Reconnect, Followed
<1>3. CASE WriteCb \/ FlushAll \/ BatchDone
  BY <1>3 DEF WriteCb, FlushAll, BatchDone, sockets, Followed
<1>4. CASE FlushBlocks
  <2>1. nIn' \in nIn .. nResp /\ nWire' \in nWire .. Len(flow) - 1 /\ flow' = flow
    BY <1>4 DEF FlushBlocks
  <2>2. nIn' < Len(flow')
    BY <1>0, <2>1
  <2> QED
    BY <2>2 DEF Followed
<1>5. CASE DispatchQuery
  <2>1. nIn' \in nIn .. nResp
    BY <1>5 DEF DispatchQuery
  <2>2. Len(flow') = Len(flow) + 2
    BY <1>5 DEF DispatchQuery, Pipeline, Typed, TypeOK, FlowOK, QueuesOK
  <2>3. nIn' < Len(flow')
    BY <1>0, <2>1, <2>2
  <2> QED
    BY <2>3 DEF Followed
<1>6. CASE Reading /\ ~ConsumeFails /\ ~ReadBad
  <2>1. CASE pc' # "loop"
    BY <1>6, <2>1 DEF Reading, ReadCb, ReadBusy, ReadIdle, ReadSync, ReadResult, HandleResult,
         ForgetResult, PopFront, NextRound, ResumePrepared, HandlerReturns, Followed
  <2>2. CASE ReadBusy
    BY <1>0, <2>2 DEF ReadBusy, sockets, Followed
  <2>3. CASE pc' = "loop" /\ ~ReadBusy
    <3>1. dispatched' = <<>>
      <4>1. ReadIdle => dispatched' = <<>>
        BY <2>3 DEF ReadIdle, PopFront, NextRound
      <4>2. ReadSync => dispatched' = <<>>
        BY <2>3 DEF ReadSync, NextRound
      <4>3. ReadResult => dispatched' = <<>>
        BY <2>3 DEF ReadResult, HandleResult, ForgetResult, PopFront, NextRound
      <4>4. HandlerReturns => dispatched' = <<>>
        BY <2>3 DEF HandlerReturns, PopFront, NextRound
      <4>5. ~ReadCb /\ ~ResumePrepared
        BY <2>3 DEF ReadCb, ResumePrepared
      <4> QED
        BY <1>6, <2>3, <4>1, <4>2, <4>3, <4>4, <4>5 DEF Reading
    <3>2. ~InHandler'
      BY <2>3 DEF InHandler
    <3>3. \A m \in nRead' + 1 .. nIn' : flow'[m] = Sync
      BY <3>1, <3>2 DEF NothingLeft
    <3> QED
      BY <3>3 DEF Followed
  <2> QED
    BY <2>1, <2>2, <2>3
<1> QED
  BY <1>1, <1>2, <1>3, <1>4, <1>5, <1>6 DEF Next, Connecting, Writing, Reading
\* A result that read() leaves in libpq's buffer is followed by a message that
\* will wake the session again.
THEOREM StrandedIsFollowed == Spec => []StrandedResultIsFollowed
<1>1. Init => Followed
  BY DEF Init, Followed
<1>2. Followed => StrandedResultIsFollowed
  BY DEF Followed, StrandedResultIsFollowed
<1> QED
  BY <1>1, <1>2, FollowedStep, AlignedNothingLeft, PipelineInvariant, PTL DEF Spec
-----------------------------------------------------------------------------
\* The server has answered a prepare of the statement on this connection.
Known(s) == s \in srvPrepared \cup failedPrep

\* One of the first n messages of line prepares the statement.
Preparing(line, n, s) == \E k \in 1 .. n : line[k].kind = "prepare" /\ line[k].stmt = s

\* An exec that query_prepared sent, on the strength of prepared_queries_ or of
\* its prepare's result.
Trusting(q) == q.kind = "exec" /\ q.coro

\* A name in prepared_queries_ is known to the server or its prepare is on its way.
Named ==
  \A s \in prepared : \/ Known(s)
                      \/ Preparing(flow, Len(flow), s)
                      \/ Preparing(queued, Len(queued), s)

\* A trusting exec comes after a prepare of its statement: in what was given to
\* libpq, and in queued_ with what was given to libpq before it.
FlowLed ==
  \A i \in 1 .. Len(flow) :
     Trusting(flow[i]) => Known(flow[i].stmt) \/ Preparing(flow, i - 1, flow[i].stmt)
QueueLed ==
  \A j \in 1 .. Len(queued) :
     Trusting(queued[j]) => \/ Known(queued[j].stmt)
                            \/ Preparing(flow, Len(flow), queued[j].stmt)
                            \/ Preparing(queued, j - 1, queued[j].stmt)

\* The statement of an answered prepare is known, whatever the answer was; so is
\* that of the coroutine which is about to be resumed by one.
AnsweredKnown ==
  /\ \A i \in 1 .. nResp : flow[i].kind = "prepare" => Known(flow[i].stmt)
  /\ pc = "resume" => Known(Head(dispatched).stmt)

Led == Named /\ FlowLed /\ QueueLed /\ AnsweredKnown /\ PreparedFirst

\* A longer stretch of a line prepares what a shorter one does.
LEMMA PreparingMore ==
  ASSUME NEW line, NEW n \in Nat, NEW m \in Nat, n <= m, NEW s, Preparing(line, n, s)
  PROVE  Preparing(line, m, s)
  BY DEF Preparing

\* Nothing is prepared by no messages.
LEMMA PreparingNone == ASSUME NEW line, NEW s PROVE ~Preparing(line, 0, s)
  BY DEF Preparing

\* Appending keeps what a line prepares.
LEMMA PreparingAppended ==
  ASSUME NEW S, NEW line \in Seq(S), NEW more \in Seq(S), NEW n \in 0 .. Len(line), NEW s,
         Preparing(line, n, s)
  PROVE  Preparing(line \o more, n, s)
<1>1. \A k \in 1 .. n : (line \o more)[k] = line[k]
  OBVIOUS
<1> QED
  BY <1>1 DEF Preparing

\* Led depends on the lines, the names and the server's answers only, and on
\* which coroutine is about to be resumed.
LEMMA LedUnchanged ==
  ASSUME Led, flow' = flow, queued' = queued, prepared' = prepared, nResp' = nResp,
         srvPrepared' = srvPrepared, failedPrep' = failedPrep, unmet' = unmet,
         pc' = "resume" => pc = "resume" /\ dispatched' = dispatched
  PROVE  Led'
<1>1. \A s : Known(s)' <=> Known(s)
  BY DEF Known
<1>2. Named'
  BY <1>1 DEF Led, Named, Preparing
<1>3. FlowLed' /\ QueueLed'
  BY <1>1 DEF Led, FlowLed, QueueLed, Preparing, Trusting
<1>4. AnsweredKnown' /\ PreparedFirst'
  BY <1>1 DEF Led, AnsweredKnown, PreparedFirst
<1> QED
  BY <1>2, <1>3, <1>4 DEF Led

\* A fresh connection has nothing to be led.
LEMMA LedFresh ==
  ASSUME PreparedFirst, unmet' = unmet, flow' = <<>>, queued' = <<>>, prepared' = {},
         nResp' = 0, pc' = "loop"
  PROVE  Led'
  BY DEF Led, Named, FlowLed, QueueLed, AnsweredKnown, PreparedFirst

\* Queueing keeps the order, if a prepare is queued for every new name and a
\* trusting exec is queued only for an old one or a known one.
LEMMA LedEnqueue ==
  ASSUME Led, queued \in Seq(Query), NEW q \in Query, queued' = Append(queued, q),
         flow' = flow, nResp' = nResp, srvPrepared' = srvPrepared,
         failedPrep' = failedPrep, unmet' = unmet, pc' # "resume",
         prepared' \subseteq prepared \cup {s \in {q.stmt} : q.kind = "prepare"},
         Trusting(q) => q.stmt \in prepared \/ Known(q.stmt)
  PROVE  Led'
<1> DEFINE l == Len(queued)
<1>0. /\ Len(queued') = l + 1 /\ l \in Nat /\ queued'[l + 1] = q
      /\ \A k \in 1 .. l : queued'[k] = queued[k]
  OBVIOUS
<1>1. \A s : Known(s)' <=> Known(s)
  BY DEF Known
<1>2. \A n \in 0 .. l : \A s : Preparing(queued, n, s) => Preparing(queued', n, s)
  BY <1>0 DEF Preparing
<1>3. \A s : Preparing(queued, l, s) => Preparing(queued', l + 1, s)
  BY <1>0 DEF Preparing
<1>4. q.kind = "prepare" => Preparing(queued', l + 1, q.stmt)
  BY <1>0 DEF Preparing
<1> HIDE DEF l
<1>5. Named'
  <2> SUFFICES ASSUME NEW s \in prepared'
               PROVE  Known(s)' \/ Preparing(flow, Len(flow), s) \/ Preparing(queued', l + 1, s)
    BY <1>0 DEF Named, Preparing
  <2>1. CASE s \in prepared
    BY <1>1, <1>3, <2>1 DEF Led, Named, l
  <2>2. CASE s = q.stmt /\ q.kind = "prepare"
    BY <1>4, <2>2
  <2> QED
    BY <2>1, <2>2
<1>6. FlowLed'
  BY <1>1 DEF Led, FlowLed, Preparing, Trusting
<1>7. QueueLed'
  <2> SUFFICES ASSUME NEW j \in 1 .. l + 1, Trusting(queued'[j]), NEW s, s = queued'[j].stmt
               PROVE  \/ Known(s)'
                      \/ Preparing(flow, Len(flow), s)
                      \/ Preparing(queued', j - 1, s)
    BY <1>0 DEF QueueLed, Known, Preparing, Trusting
  <2>1. CASE j \in 1 .. l
    <3>1. j - 1 \in 0 .. l /\ queued'[j] = queued[j]
      BY <1>0, <2>1
    <3>2. Known(s) \/ Preparing(flow, Len(flow), s) \/ Preparing(queued, j - 1, s)
      BY <2>1, <3>1 DEF Led, QueueLed, l
    <3> QED
      BY <1>1, <1>2, <3>1, <3>2
  <2>2. CASE j = l + 1
    <3>1. queued'[j] = q /\ j - 1 = l
      BY <1>0, <2>2
    <3>2. Known(s) \/ Preparing(flow, Len(flow), s) \/ Preparing(queued, l, s)
      BY <3>1 DEF Led, Named, l
    <3>3. l \in 0 .. l
      BY <1>0
    <3> QED
      BY <1>1, <1>2, <3>1, <3>2, <3>3
  <2> QED
    BY <1>0, <2>1, <2>2
<1>8. AnsweredKnown' /\ PreparedFirst'
  BY <1>1 DEF Led, AnsweredKnown, PreparedFirst
<1> QED
  BY <1>5, <1>6, <1>7, <1>8 DEF Led

\* Sending the front of queued_ keeps the order: what led it is in flow by then.
LEMMA LedDispatch == Pipeline /\ Led /\ DispatchQuery => Led'
<1> SUFFICES ASSUME Pipeline, Led, DispatchQuery PROVE Led'
  OBVIOUS
<1> DEFINE f == Len(flow)
           l == Len(queued)
           q == Head(queued)
<1>1. /\ f \in Nat /\ l \in Nat /\ l >= 1 /\ nResp \in Nat /\ nResp <= f
      /\ queued \in Seq(Query) /\ flow \in Seq(Query \cup {Sync})
  BY DEF DispatchQuery, Pipeline, Typed, TypeOK, QueuesOK, FlowOK
<1>2. q = queued[1] /\ q \in Query
  BY <1>1
<1>3. /\ Len(flow') = f + 2 /\ flow'[f + 1] = q /\ flow'[f + 2] = Sync
      /\ \A j \in 1 .. f : flow'[j] = flow[j]
  BY <1>1, <1>2, SMTT(30) DEF DispatchQuery
<1>4. Len(queued') = l - 1 /\ \A k \in 1 .. l - 1 : queued'[k] = queued[k + 1]
  BY <1>1 DEF DispatchQuery
<1>5. \A s : Known(s)' <=> Known(s)
  BY DEF DispatchQuery, server, Known
<1>6. \A n \in 0 .. f : \A s : Preparing(flow, n, s) => Preparing(flow', n, s)
  BY <1>1, <1>3 DEF Preparing
<1>7. \A s : Preparing(flow, f, s) => Preparing(flow', f + 2, s)
  BY <1>1, <1>3 DEF Preparing
<1>8. \A n \in 1 .. l : \A s : Preparing(queued, n, s)
                             => Preparing(flow', f + 2, s) \/ Preparing(queued', n - 1, s)
  <2> SUFFICES ASSUME NEW n \in 1 .. l, NEW s, NEW k \in 1 .. n,
                      queued[k].kind = "prepare", queued[k].stmt = s
               PROVE  Preparing(flow', f + 2, s) \/ Preparing(queued', n - 1, s)
    BY DEF Preparing
  <2>1. CASE k = 1
    <3>1. f + 1 \in 1 .. f + 2 /\ flow'[f + 1].kind = "prepare" /\ flow'[f + 1].stmt = s
      BY <1>1, <1>2, <1>3, <2>1
    <3> QED
      BY <3>1 DEF Preparing
  <2>2. CASE k # 1
    <3>1. k - 1 \in 1 .. n - 1 /\ k - 1 \in 1 .. l - 1 /\ (k - 1) + 1 = k
      BY <1>1, <2>2
    <3>2. queued'[k - 1] = queued[k]
      BY <1>4, <3>1
    <3> QED
      BY <3>1, <3>2 DEF Preparing
  <2> QED
    BY <2>1, <2>2
<1> HIDE DEF f, l, q
<1>9. Named'
  <2> SUFFICES ASSUME NEW s \in prepared'
               PROVE  Known(s)' \/ Preparing(flow', f + 2, s) \/ Preparing(queued', l - 1, s)
    BY <1>3, <1>4 DEF Named, Preparing
  <2>1. Known(s) \/ Preparing(flow, f, s) \/ Preparing(queued, l, s)
    BY DEF DispatchQuery, Led, Named, f, l
  <2>2. l \in 1 .. l
    BY <1>1
  <2> QED
    BY <1>5, <1>7, <1>8, <2>1, <2>2
<1>10. FlowLed'
  <2> SUFFICES ASSUME NEW i \in 1 .. f + 2, Trusting(flow'[i]), NEW s, s = flow'[i].stmt
               PROVE  Known(s)' \/ Preparing(flow', i - 1, s)
    BY <1>3 DEF FlowLed, Known, Preparing, Trusting
  <2>1. CASE i \in 1 .. f
    <3>1. i - 1 \in 0 .. f /\ flow'[i] = flow[i]
      BY <1>1, <1>3, <2>1
    <3>2. Known(s) \/ Preparing(flow, i - 1, s)
      BY <2>1, <3>1 DEF Led, FlowLed, f
    <3> QED
      BY <1>5, <1>6, <3>1, <3>2
  <2>2. CASE i = f + 1
    <3>1. flow'[i] = q /\ i - 1 = f /\ f \in 0 .. f /\ 1 - 1 = 0 /\ 1 \in 1 .. l
      BY <1>1, <1>3, <2>2
    <3>2. Known(s) \/ Preparing(flow, f, s) \/ Preparing(queued, 0, s)
      BY <1>2, <3>1 DEF Led, QueueLed, f, l
    <3> QED
      BY <1>5, <1>6, <3>1, <3>2, PreparingNone
  <2>3. CASE i = f + 2
    BY <1>3, <2>3 DEF Trusting, Sync
  <2> QED
    BY <1>1, <2>1, <2>2, <2>3
<1>11. QueueLed'
  <2> SUFFICES ASSUME NEW j \in 1 .. l - 1, Trusting(queued'[j]), NEW s, s = queued'[j].stmt
               PROVE  \/ Known(s)'
                      \/ Preparing(flow', f + 2, s)
                      \/ Preparing(queued', j - 1, s)
    BY <1>3, <1>4 DEF QueueLed, Known, Preparing, Trusting
  <2>1. j + 1 \in 1 .. l /\ (j + 1) - 1 = j /\ j \in 1 .. l /\ queued'[j] = queued[j + 1]
    BY <1>1, <1>4
  <2>2. Known(s) \/ Preparing(flow, f, s) \/ Preparing(queued, j, s)
    BY <2>1 DEF Led, QueueLed, f, l
  <2> QED
    BY <1>5, <1>7, <1>8, <2>1, <2>2
<1>12. AnsweredKnown' /\ PreparedFirst'
  <2>1. nResp' = nResp /\ pc' # "resume" /\ unmet' = unmet
    BY DEF DispatchQuery, server
  <2>2. \A i \in 1 .. nResp : flow'[i] = flow[i]
    BY <1>1, <1>3
  <2> QED
    BY <1>5, <2>1, <2>2 DEF Led, AnsweredKnown, PreparedFirst
<1> QED
  BY <1>9, <1>10, <1>11, <1>12 DEF Led

\* The server answers in order, so it has answered a prepare of the statement of
\* a trusting exec before it comes to the exec.
LEMMA LedAnswer == Pipeline /\ Led /\ ServerAnswer => Led'
<1> SUFFICES ASSUME Pipeline, Led, ServerAnswer PROVE Led'
  OBVIOUS
<1> DEFINE m == flow[nResp + 1]
<1>1. nResp \in Nat /\ nResp < Len(flow) /\ Len(flow) \in Nat /\ m \in Query
  BY DEF ServerAnswer, Pipeline, Typed, TypeOK, FlowOK
<1>2. PICK o \in Answers(m) :
          /\ srvPrepared' = srvPrepared \cup
               {s \in {m.stmt} : m.kind = "prepare" /\ o = "ok"}
          /\ failedPrep' = failedPrep \cup
               {s \in {m.stmt} : m.kind = "prepare" /\ s \notin srvPrepared /\ o = "error"}
          /\ unmet' = unmet \cup
               {q \in {m.id} : m.kind = "exec" /\ m.coro
                                 /\ m.stmt \notin srvPrepared \cup failedPrep}
  BY DEF ServerAnswer
<1>3. /\ flow' = flow /\ queued' = queued /\ prepared' = prepared /\ nResp' = nResp + 1
      /\ pc' = pc /\ dispatched' = dispatched
  BY DEF ServerAnswer
<1>4. \A s : Known(s) => Known(s)'
  BY <1>2 DEF Known
<1>5. \A s : m.kind = "prepare" /\ m.stmt = s => Known(s)'
  <2> SUFFICES ASSUME NEW s, m.kind = "prepare", m.stmt = s PROVE Known(s)'
    OBVIOUS
  <2>1. o \in {"ok", "error"}
    BY <1>2 DEF Answers
  <2> QED
    BY <1>2, <2>1 DEF Known
<1>6. Trusting(m) => Known(m.stmt)
  <2> SUFFICES ASSUME Trusting(m) PROVE Known(m.stmt)
    OBVIOUS
  <2>1. nResp + 1 \in 1 .. Len(flow) /\ (nResp + 1) - 1 = nResp
    BY <1>1
  <2>2. Known(m.stmt) \/ Preparing(flow, nResp, m.stmt)
    BY <2>1 DEF Led, FlowLed
  <2> QED
    BY <2>2 DEF Led, AnsweredKnown, Preparing
<1>7. PreparedFirst'
  BY <1>2, <1>6 DEF Led, PreparedFirst, Trusting, Known
<1>8. AnsweredKnown'
  <2>1. ASSUME NEW i \in 1 .. nResp + 1, flow[i].kind = "prepare", NEW s, flow[i].stmt = s
        PROVE  Known(s)'
    <3>1. i \in 1 .. nResp \/ i = nResp + 1
      BY <1>1
    <3> QED
      BY <1>4, <1>5, <2>1, <3>1 DEF Led, AnsweredKnown
  <2> QED
    BY <1>3, <1>4, <2>1 DEF Led, AnsweredKnown, Known
<1>9. Named'
  BY <1>3, <1>4 DEF Led, Named, Preparing
<1>10. FlowLed' /\ QueueLed'
  BY <1>3, <1>4 DEF Led, FlowLed, QueueLed, Preparing, Trusting
<1> QED
  BY <1>7, <1>8, <1>9, <1>10 DEF Led

\* Every way to submit keeps the order.
LEMMA LedSubmit == Pipeline /\ Led /\ (SendQuery \/ SendPrepared \/ QueryPrepared) => Led'
<1> SUFFICES ASSUME Pipeline, Led, SendQuery \/ SendPrepared \/ QueryPrepared PROVE Led'
  OBVIOUS
<1> DEFINE Sent(s, kind, stmt, coro) ==
             [id |-> nextId, stream |-> s, kind |-> kind, stmt |-> stmt, coro |-> coro]
<1>0. /\ flow' = flow /\ nResp' = nResp /\ srvPrepared' = srvPrepared
      /\ failedPrep' = failedPrep /\ unmet' = unmet /\ pc' = pc
  BY DEF SendQuery, SendPrepared, QueryPrepared, sockets, server
<1>1. queued \in Seq(Query) /\ nextId \in 1 .. MaxQueries + 1 /\ Submitters \subseteq Serials
  BY SubmittersAreSerials DEF Pipeline, Typed, TypeOK, QueuesOK, HistoryOK
<1>2. pc' # "resume"
  <2>1. Submitters # {}
    BY DEF SendQuery, SendPrepared, QueryPrepared
  <2> QED
    BY <1>0, <2>1 DEF Submitters
<1>3. CASE SendQuery
  <2>1. PICK s \in Submitters, kind \in {"query", "exec"}, stmt \in Stmts \cup {NoStmt} :
          (stmt = NoStmt <=> kind = "query") /\ Enqueue(Sent(s, kind, stmt, FALSE))
    BY <1>3 DEF SendQuery
  <2>2. Sent(s, kind, stmt, FALSE) \in Query /\ prepared' = prepared
    BY <1>1, <1>3, <2>1 DEF SendQuery, Query, Ids, Kinds
  <2>3. ~Trusting(Sent(s, kind, stmt, FALSE))
    BY DEF Trusting
  <2>4. queued' = Append(queued, Sent(s, kind, stmt, FALSE))
    BY <2>1 DEF Enqueue
  <2> HIDE DEF Sent
  <2> QED
    BY <1>0, <1>1, <1>2, <2>2, <2>3, <2>4, LedEnqueue
<1>4. CASE SendPrepared
  <2>1. PICK s \in Submitters, stmt \in Stmts :
          prepared' = prepared \cup {stmt} /\ Enqueue(Sent(s, "prepare", stmt, FALSE))
    BY <1>4 DEF SendPrepared
  <2>2. Sent(s, "prepare", stmt, FALSE) \in Query
    BY <1>1, <1>4, <2>1 DEF SendPrepared, Query, Ids, Kinds
  <2>3. /\ ~Trusting(Sent(s, "prepare", stmt, FALSE))
        /\ Sent(s, "prepare", stmt, FALSE).kind = "prepare"
        /\ Sent(s, "prepare", stmt, FALSE).stmt = stmt
    BY DEF Trusting
  <2>4. queued' = Append(queued, Sent(s, "prepare", stmt, FALSE))
    BY <2>1 DEF Enqueue
  <2> HIDE DEF Sent
  <2> QED
    BY <1>0, <1>1, <1>2, <2>1, <2>2, <2>3, <2>4, LedEnqueue
<1>5. CASE QueryPrepared
  <2>1. PICK s \in Submitters, stmt \in Stmts :
          \/ /\ stmt \in prepared /\ nextId <= MaxQueries /\ UNCHANGED prepared
             /\ Enqueue(Sent(s, "exec", stmt, TRUE))
          \/ /\ nextId < MaxQueries /\ prepared' = prepared \cup {stmt}
             /\ Enqueue(Sent(s, "prepare", stmt, TRUE))
    BY <1>5 DEF QueryPrepared
  <2>2. CASE stmt \in prepared /\ nextId <= MaxQueries /\ UNCHANGED prepared
               /\ Enqueue(Sent(s, "exec", stmt, TRUE))
    <3>1. Sent(s, "exec", stmt, TRUE) \in Query
      BY <1>1, <2>2 DEF Query, Ids, Kinds
    <3>2. Sent(s, "exec", stmt, TRUE).stmt = stmt
      OBVIOUS
    <3>3. queued' = Append(queued, Sent(s, "exec", stmt, TRUE))
      BY <2>2 DEF Enqueue
    <3> HIDE DEF Sent
    <3> QED
      BY <1>0, <1>1, <1>2, <2>2, <3>1, <3>2, <3>3, LedEnqueue
  <2>3. CASE nextId < MaxQueries /\ prepared' = prepared \cup {stmt}
               /\ Enqueue(Sent(s, "prepare", stmt, TRUE))
    <3>1. Sent(s, "prepare", stmt, TRUE) \in Query
      BY <1>1, <2>3 DEF Query, Ids, Kinds
    <3>2. /\ ~Trusting(Sent(s, "prepare", stmt, TRUE))
          /\ Sent(s, "prepare", stmt, TRUE).kind = "prepare"
          /\ Sent(s, "prepare", stmt, TRUE).stmt = stmt
      BY DEF Trusting
    <3>3. queued' = Append(queued, Sent(s, "prepare", stmt, TRUE))
      BY <2>3 DEF Enqueue
    <3> HIDE DEF Sent
    <3> QED
      BY <1>0, <1>1, <1>2, <2>3, <3>1, <3>2, <3>3, LedEnqueue
  <2> QED
    BY <2>1, <2>2, <2>3
<1> QED
  BY <1>3, <1>4, <1>5

\* A coroutine that goes on to its exec has the server's answer to its prepare.
LEMMA LedReading == Pipeline /\ Led /\ Reading => Led'
<1> SUFFICES ASSUME Pipeline, Led, Reading PROVE Led'
  OBVIOUS
<1>1. CASE ReadCb \/ ReadBusy \/ ReadIdle \/ ReadSync \/ HandlerReturns
  BY <1>1, LedUnchanged DEF ReadCb, ReadBusy, ReadIdle, ReadSync, HandlerReturns, PopFront,
       NextRound, sockets, server
<1>2. CASE ConsumeFails \/ ReadBad
  BY <1>2, LedFresh DEF ConsumeFails, ReadBad, RestartSession, Reconnect, Led
<1>3. CASE ReadResult
  <2>1. /\ flow' = flow /\ queued' = queued /\ prepared' = prepared /\ nResp' = nResp
        /\ srvPrepared' = srvPrepared /\ failedPrep' = failedPrep /\ unmet' = unmet
    BY <1>3 DEF ReadResult, server
  <2>2. CASE pc' # "resume"
    <3>1. Named' /\ FlowLed' /\ QueueLed' /\ AnsweredKnown' /\ PreparedFirst'
      BY <2>1, <2>2, LedUnchanged DEF Led
    <3> QED
      BY <3>1 DEF Led
  <2>3. CASE pc' = "resume"
    <3>1. Head(dispatched).kind = "prepare" /\ dispatched' = dispatched
      BY <1>3, <2>3 DEF ReadResult, HandleResult, ForgetResult, PopFront, NextRound
    <3>2. ~InHandler /\ nRead < Len(flow) /\ nRead \in Nat /\ nResp \in Nat /\ nRead + 1 <= nResp
      BY <1>3 DEF ReadResult, InHandler, Pipeline, Typed, TypeOK, FlowOK
    <3>3. flow[nRead + 1] = Head(dispatched)
      BY <1>3, <3>2, NextMessage DEF ReadResult
    <3>4. Known(Head(dispatched).stmt)
      BY <3>1, <3>2, <3>3 DEF Led, AnsweredKnown
    <3>5. \A s : Known(s)' <=> Known(s)
      BY <2>1 DEF Known
    <3>6. AnsweredKnown' /\ PreparedFirst'
      BY <2>1, <3>1, <3>4, <3>5 DEF Led, AnsweredKnown, PreparedFirst
    <3>7. Named' /\ FlowLed' /\ QueueLed'
      BY <2>1, <3>5 DEF Led, Named, FlowLed, QueueLed, Preparing, Trusting
    <3> QED
      BY <3>6, <3>7 DEF Led
  <2> QED
    BY <2>2, <2>3
<1>4. CASE ResumePrepared
  <2> DEFINE h == Head(dispatched)
             q == [h EXCEPT !.id = h.id + 1, !.kind = "exec"]
  <2>1. /\ flow' = flow /\ nResp' = nResp /\ srvPrepared' = srvPrepared
        /\ failedPrep' = failedPrep /\ unmet' = unmet /\ pc' = "handler"
        /\ prepared' = prepared /\ queued' = Append(queued, q)
    BY <1>4 DEF ResumePrepared, Enqueue, sockets, server
  <2>2. queued \in Seq(Query) /\ queued' \in Seq(Query) /\ h \in Query
    BY <1>4, TypeReading DEF Pipeline, Typed, TypeOK, QueuesOK, Reading, ResumePrepared,
         ResumesPrepare, InHandler
  <2>3. q.stmt = h.stmt
    BY <2>2 DEF Query
  <2>4. q \in Query
    <3> HIDE DEF q
    <3>1. Len(queued') = Len(queued) + 1 /\ queued'[Len(queued) + 1] = q
      BY <2>1, <2>2
    <3> QED
      BY <2>2, <3>1
  <2>5. Known(q.stmt)
    BY <1>4, <2>3 DEF ResumePrepared, Led, AnsweredKnown
  <2> HIDE DEF q
  <2> QED
    BY <2>1, <2>2, <2>4, <2>5, LedEnqueue
<1> QED
  BY <1>1, <1>2, <1>3, <1>4 DEF Reading

\* Every step keeps trusting execs behind a prepare.
LEMMA LedStep == Pipeline /\ Led /\ [Next]_vars => Led'
<1> SUFFICES ASSUME Pipeline, Led, [Next]_vars PROVE Led'
  OBVIOUS
<1>1. CASE OpenStream \/ CloseStream \/ PollConnection \/ HandshakeReply \/ UNCHANGED vars
  BY <1>1, LedUnchanged DEF OpenStream, CloseStream, PollConnection, HandshakeReply, vars,
       sockets, server
<1>2. CASE SendQuery \/ SendPrepared \/ QueryPrepared
  BY <1>2, LedSubmit
<1>3. CASE PollFailed \/ WriteFails
  BY <1>3, LedFresh DEF PollFailed, WriteFails, RestartSession, Reconnect, Led
<1>4. CASE WriteCb \/ FlushAll \/ FlushBlocks \/ BatchDone
  BY <1>4, LedUnchanged DEF WriteCb, FlushAll, FlushBlocks, BatchDone, sockets, server
<1>5. CASE DispatchQuery
  BY <1>5, LedDispatch
<1>6. CASE Reading
  BY <1>6, LedReading
<1>7. CASE ServerSync
  <2>1. /\ nResp' = nResp + 1 /\ flow[nResp + 1] = Sync /\ flow' = flow /\ queued' = queued
        /\ prepared' = prepared /\ pc' = pc /\ dispatched' = dispatched
        /\ srvPrepared' = srvPrepared /\ failedPrep' = failedPrep /\ unmet' = unmet
    BY <1>7 DEF ServerSync, server
  <2>2. \A s : Known(s)' <=> Known(s)
    BY <2>1 DEF Known
  <2>3. \A i \in 1 .. nResp + 1 : i \in 1 .. nResp \/ i = nResp + 1
    BY DEF Pipeline, Typed, TypeOK, FlowOK
  <2>4. flow[nResp + 1].kind # "prepare"
    BY <2>1 DEF Sync
  <2>5. AnsweredKnown' /\ PreparedFirst'
    BY <2>1, <2>2, <2>3, <2>4 DEF Led, AnsweredKnown, PreparedFirst
  <2>6. Named' /\ FlowLed' /\ QueueLed'
    BY <2>1, <2>2 DEF Led, Named, FlowLed, QueueLed, Preparing, Trusting
  <2> QED
    BY <2>5, <2>6 DEF Led
<1>8. CASE ServerAnswer
  BY <1>8, LedAnswer
<1>9. CASE ServerNotify
  BY <1>9, LedUnchanged DEF ServerNotify, sockets
<1> QED
  BY <1>1, <1>2, <1>3, <1>4, <1>5, <1>6, <1>7, <1>8, <1>9
     DEF Next, Application, Connecting, Writing, Server

\* query_prepared executes a statement the server does not know only after the
\* prepare of that statement failed.
THEOREM ExecAfterPrepare == Spec => []PreparedFirst
<1>1. Init => Led
  BY DEF Init, Led, Named, FlowLed, QueueLed, AnsweredKnown, PreparedFirst
<1>2. Led => PreparedFirst
  BY DEF Led
<1> QED
  BY <1>1, <1>2, LedStep, PipelineInvariant, PTL DEF Spec

-----------------------------------------------------------------------------
(* The books of the queries that wait, w, oldest first: f says what became of
   each query, and identifiers from n on have not been given.  *)

\* A prepare after which query_prepared will submit its exec, for which the next
\* identifier is kept.
Chained(q) == q.kind = "prepare" /\ q.coro
Reserved(q, f, n) == q.id + 1 < n /\ f[q.id + 1] = "unsent"

Entered(w, f) ==
  \A q \in Ids : f[q] = "pending" <=> \E i \in 1 .. Len(w) : w[i].id = q
Once(w)        == \A i, j \in 1 .. Len(w) : w[i].id = w[j].id => i = j
Ungiven(f, n)  == \A q \in Ids : q >= n => f[q] = "unsent"
Kept(w, f, n)  == \A i \in 1 .. Len(w) : Chained(w[i]) => Reserved(w[i], f, n)

Books(w, f, n) == Entered(w, f) /\ Once(w) /\ Ungiven(f, n) /\ Kept(w, f, n)

\* What a submission, a completion and a failure are in the books.
IdsOf(w) == [i \in 1 .. Len(w) |-> w[i].id]

\* Appending and removing, element by element.
LEMMA AppendQuery ==
  ASSUME NEW w \in Seq(Query), NEW q \in Query
  PROVE  /\ Append(w, q) \in Seq(Query) /\ Len(Append(w, q)) = Len(w) + 1
         /\ Append(w, q)[Len(w) + 1] = q
         /\ \A i \in 1 .. Len(w) : Append(w, q)[i] = w[i]
  OBVIOUS
LEMMA TailQuery ==
  ASSUME NEW w \in Seq(Query), w # <<>>
  PROVE  /\ Tail(w) \in Seq(Query) /\ Len(Tail(w)) = Len(w) - 1
         /\ Head(w) = w[1] /\ Len(w) \in Nat /\ 1 \in 1 .. Len(w)
         /\ \A i \in 1 .. Len(w) - 1 : Tail(w)[i] = w[i + 1]
<1>1. Len(w) \in Nat \ {0}
  BY EmptySeq
<1> QED
  BY <1>1, HeadTailProperties

\* A query has an identifier; a chained one leaves room for the next.
LEMMA QueryId ==
  ASSUME NEW q \in Query
  PROVE  /\ q.id \in Ids /\ q.id \in Nat /\ q.id + 1 # q.id
         /\ Chained(q) => q.id + 1 \in Ids
<1>1. q.id \in Ids /\ (Chained(q) => q.id < MaxQueries)
  BY DEF Query, Chained
<1> QED
  BY <1>1, BoundsAssumption DEF Ids

\* The identifiers of a sequence of queries are a sequence of identifiers.
LEMMA IdsOfType ==
  ASSUME NEW w \in Seq(Query)
  PROVE  /\ IdsOf(w) \in Seq(Ids) /\ Len(IdsOf(w)) = Len(w) /\ Len(w) \in Nat
         /\ \A i \in 1 .. Len(w) : IdsOf(w)[i] = w[i].id
<1>1. \A i \in 1 .. Len(w) : w[i].id \in Ids
  BY QueryId
<1> QED
  BY <1>1 DEF IdsOf

\* Identifiers follow the queries through a submission ...
LEMMA IdsOfAppend ==
  ASSUME NEW w \in Seq(Query), NEW q \in Query
  PROVE  IdsOf(Append(w, q)) = Append(IdsOf(w), q.id)
<1> DEFINE s == IdsOf(Append(w, q))
           t == Append(IdsOf(w), q.id)
           l == Len(w)
<1>1. q.id \in Ids
  BY QueryId
<1>2. Append(w, q) \in Seq(Query) /\ Len(Append(w, q)) = l + 1 /\ l \in Nat
  BY AppendQuery
<1>3. s \in Seq(Ids) /\ Len(s) = l + 1
  BY <1>2, IdsOfType
<1>4. t \in Seq(Ids) /\ Len(t) = l + 1 /\ t[l + 1] = q.id
  BY <1>1, IdsOfType
<1>5. \A i \in 1 .. l : t[i] = w[i].id
  BY <1>1, IdsOfType
<1>6. \A i \in 1 .. l + 1 : s[i] = Append(w, q)[i].id
  BY <1>2, IdsOfType
<1>7. \A i \in 1 .. l : s[i] = w[i].id
  BY <1>2, <1>6, AppendQuery
<1>8. s[l + 1] = q.id
  BY <1>2, <1>6, AppendQuery
<1> HIDE DEF s, t, l
<1>9. \A i \in 1 .. l + 1 : s[i] = t[i]
  BY <1>2, <1>4, <1>5, <1>7, <1>8
<1> QED
  BY <1>3, <1>4, <1>9, SeqEqual DEF s, t

\* ... and through a completion.
LEMMA IdsOfTail ==
  ASSUME NEW w \in Seq(Query), w # <<>>
  PROVE  /\ IdsOf(w) # <<>> /\ Head(IdsOf(w)) = Head(w).id
         /\ IdsOf(Tail(w)) = Tail(IdsOf(w))
<1> DEFINE s == IdsOf(Tail(w))
           t == Tail(IdsOf(w))
           l == Len(w)
<1>1. IdsOf(w) \in Seq(Ids) /\ Len(IdsOf(w)) = l /\ l \in Nat
  BY IdsOfType
<1>2. 1 \in 1 .. l /\ Tail(w) \in Seq(Query) /\ Len(Tail(w)) = l - 1 /\ Head(w) = w[1]
  BY TailQuery
<1>3. IdsOf(w) # <<>> /\ Head(IdsOf(w)) = Head(w).id
  BY <1>1, <1>2, IdsOfType
<1>4. s \in Seq(Ids) /\ Len(s) = l - 1 /\ \A i \in 1 .. l - 1 : s[i] = Tail(w)[i].id
  BY <1>2, IdsOfType
<1>5. t \in Seq(Ids) /\ Len(t) = l - 1 /\ \A i \in 1 .. l - 1 : t[i] = IdsOf(w)[i + 1]
  BY <1>1, <1>3, HeadTailProperties
<1>6. \A i \in 1 .. l - 1 : i + 1 \in 1 .. l
  BY <1>1
<1>7. \A i \in 1 .. l - 1 : s[i] = w[i + 1].id
  BY <1>4, TailQuery
<1>8. \A i \in 1 .. l - 1 : t[i] = w[i + 1].id
  BY <1>5, <1>6, IdsOfType
<1> HIDE DEF s, t, l
<1>9. \A i \in 1 .. l - 1 : s[i] = t[i]
  BY <1>7, <1>8
<1>10. s = t
  BY <1>4, <1>5, <1>9, SeqEqual
<1> QED
  BY <1>3, <1>10 DEF s, t

\* Entering a query whose identifier is unused, and not kept for another one,
\* keeps the books.
LEMMA BooksSubmit ==
  ASSUME NEW w \in Seq(Query), NEW f \in [Ids -> {"unsent", "pending", "answered", "skipped",
                                                  "dropped", "lost"}],
         NEW n \in Nat, NEW m \in Nat, NEW q \in Query, Books(w, f, n),
         n <= m, q.id < m, f[q.id] = "unsent",
         \A i \in 1 .. Len(w) : Chained(w[i]) => w[i].id + 1 # q.id,
         Chained(q) => Reserved(q, f, m)
  PROVE  Books(Append(w, q), [f EXCEPT ![q.id] = "pending"], m)
<1> DEFINE v == Append(w, q)
           g == [f EXCEPT ![q.id] = "pending"]
           l == Len(w)
<1>1. v \in Seq(Query) /\ Len(v) = l + 1 /\ v[l + 1] = q /\ l \in Nat
  BY AppendQuery
<1>2. \A i \in 1 .. l : v[i] = w[i] /\ w[i] \in Query
  BY AppendQuery
<1>3. q.id \in Ids /\ q.id + 1 # q.id /\ g[q.id] = "pending"
  BY QueryId
<1>4. \A p \in Ids : p # q.id => g[p] = f[p]
  OBVIOUS
<1>5. \A i \in 1 .. l + 1 : i \in 1 .. l \/ i = l + 1
  BY <1>1
<1>6. \A i \in 1 .. l : w[i].id # q.id
  BY QueryId DEF Books, Entered
<1>7. 1 .. l \subseteq 1 .. l + 1 /\ l + 1 \in 1 .. l + 1
  BY <1>1
<1> HIDE DEF v, g, l
<1>8. Entered(v, g)
  <2> SUFFICES ASSUME NEW p \in Ids
               PROVE  g[p] = "pending" <=> \E i \in 1 .. l + 1 : v[i].id = p
    BY <1>1 DEF Entered
  <2>1. CASE p = q.id
    BY <1>1, <1>3, <1>7, <2>1
  <2>2. CASE p # q.id
    <3>1. g[p] = "pending" <=> \E i \in 1 .. l : w[i].id = p
      BY <1>4, <2>2 DEF Books, Entered, l
    <3>2. (\E i \in 1 .. l + 1 : v[i].id = p) <=> \E i \in 1 .. l : w[i].id = p
      BY <1>1, <1>2, <1>5, <1>7, <2>2
    <3> QED
      BY <3>1, <3>2
  <2> QED
    BY <2>1, <2>2
<1>9. Once(v)
  <2> SUFFICES ASSUME NEW i \in 1 .. l + 1, NEW j \in 1 .. l + 1, v[i].id = v[j].id
               PROVE  i = j
    BY <1>1 DEF Once
  <2>1. CASE i \in 1 .. l /\ j \in 1 .. l
    BY <1>2, <2>1 DEF Books, Once, l
  <2> QED
    BY <1>1, <1>2, <1>5, <1>6, <2>1
<1>10. Ungiven(g, m)
  <2> SUFFICES ASSUME NEW p \in Ids, p >= m PROVE g[p] = "unsent"
    BY DEF Ungiven
  <2>1. p \in Nat /\ q.id \in Nat
    BY QueryId DEF Ids
  <2>2. p >= n /\ p # q.id
    BY <2>1
  <2> QED
    BY <1>4, <2>2 DEF Books, Ungiven
<1>11. Kept(v, g, m)
  <2> SUFFICES ASSUME NEW i \in 1 .. l + 1, Chained(v[i]) PROVE Reserved(v[i], g, m)
    BY <1>1 DEF Kept
  <2>1. CASE i \in 1 .. l
    <3>1. Chained(w[i]) /\ v[i] = w[i] /\ w[i] \in Query
      BY <1>2, <2>1
    <3>2. w[i].id + 1 < n /\ f[w[i].id + 1] = "unsent" /\ w[i].id + 1 # q.id
      BY <2>1, <3>1 DEF Books, Kept, Reserved, l
    <3>3. w[i].id + 1 \in Ids /\ w[i].id \in Nat
      BY <3>1, QueryId
    <3>4. w[i].id + 1 < m
      BY <3>2, <3>3
    <3> QED
      BY <1>4, <3>1, <3>2, <3>3, <3>4 DEF Reserved
  <2>2. CASE i = l + 1
    <3>1. Chained(q) /\ v[i] = q
      BY <1>1, <2>2
    <3>2. q.id + 1 \in Ids
      BY <3>1, QueryId
    <3> QED
      BY <1>3, <1>4, <3>1, <3>2 DEF Reserved
  <2> QED
    BY <1>5, <2>1, <2>2
<1> QED
  BY <1>8, <1>9, <1>10, <1>11 DEF Books, v, g

\* Completing the oldest query keeps the books.
LEMMA BooksComplete ==
  ASSUME NEW w \in Seq(Query), NEW f \in [Ids -> {"unsent", "pending", "answered", "skipped",
                                                  "dropped", "lost"}],
         NEW n \in Nat, Books(w, f, n), w # <<>>, NEW why, why # "pending"
  PROVE  Books(Tail(w), [f EXCEPT ![Head(w).id] = why], n)
<1> DEFINE v == Tail(w)
           h == Head(w)
           g == [f EXCEPT ![h.id] = why]
           l == Len(w)
<1>1. v \in Seq(Query) /\ Len(v) = l - 1 /\ h = w[1] /\ l \in Nat /\ 1 \in 1 .. l
  BY TailQuery
<1>2. \A i \in 1 .. l - 1 : v[i] = w[i + 1]
  BY TailQuery
<1>3. \A i \in 1 .. l - 1 : i + 1 \in 1 .. l /\ i + 1 # 1 /\ w[i + 1] \in Query
  BY <1>1
<1>4. h \in Query /\ h.id \in Ids /\ h.id \in Nat
  BY <1>1, QueryId
<1>5. g[h.id] = why /\ \A p \in Ids : p # h.id => g[p] = f[p]
  BY <1>4
<1>6. f[h.id] = "pending"
  BY <1>1, <1>4 DEF Books, Entered
<1>7. \A i \in 1 .. l : i = 1 \/ (i - 1 \in 1 .. l - 1 /\ (i - 1) + 1 = i)
  BY <1>1
<1> HIDE DEF v, g, h, l
<1>8. \A i \in 1 .. l - 1 : v[i].id # h.id
  BY <1>1, <1>2, <1>3 DEF Books, Once, l
<1>9. Entered(v, g)
  <2> SUFFICES ASSUME NEW p \in Ids
               PROVE  g[p] = "pending" <=> \E i \in 1 .. l - 1 : v[i].id = p
    BY <1>1 DEF Entered
  <2>1. CASE p = h.id
    BY <1>5, <1>8, <2>1
  <2>2. CASE p # h.id
    <3>1. g[p] = "pending" <=> \E i \in 1 .. l : w[i].id = p
      BY <1>5, <2>2 DEF Books, Entered, l
    <3>2. ASSUME NEW i \in 1 .. l, w[i].id = p PROVE \E k \in 1 .. l - 1 : v[k].id = p
      <4>1. i # 1
        BY <1>1, <2>2, <3>2
      <4>2. i - 1 \in 1 .. l - 1 /\ v[i - 1] = w[i]
        BY <1>2, <1>7, <4>1
      <4> QED
        BY <3>2, <4>2
    <3>3. ASSUME NEW k \in 1 .. l - 1, v[k].id = p PROVE \E i \in 1 .. l : w[i].id = p
      BY <1>2, <1>3, <3>3
    <3> QED
      BY <3>1, <3>2, <3>3
  <2> QED
    BY <2>1, <2>2
<1>10. Once(v)
  <2> SUFFICES ASSUME NEW i \in 1 .. l - 1, NEW j \in 1 .. l - 1, v[i].id = v[j].id
               PROVE  i = j
    BY <1>1 DEF Once
  <2>1. i + 1 = j + 1
    BY <1>2, <1>3 DEF Books, Once, l
  <2> QED
    BY <1>1, <2>1
<1>11. Ungiven(g, n)
  BY <1>4, <1>5, <1>6 DEF Books, Ungiven
<1>12. Kept(v, g, n)
  <2> SUFFICES ASSUME NEW i \in 1 .. l - 1, Chained(v[i]) PROVE Reserved(v[i], g, n)
    BY <1>1 DEF Kept
  <2>1. v[i] = w[i + 1] /\ i + 1 \in 1 .. l /\ v[i] \in Query
    BY <1>2, <1>3
  <2>2. v[i].id + 1 < n /\ f[v[i].id + 1] = "unsent"
    BY <2>1 DEF Books, Kept, Reserved, l
  <2>3. v[i].id + 1 \in Ids
    BY <2>1, QueryId
  <2>4. v[i].id + 1 # h.id
    BY <1>6, <2>2
  <2> QED
    BY <1>5, <2>2, <2>3, <2>4 DEF Reserved
<1> QED
  BY <1>9, <1>10, <1>11, <1>12 DEF Books, v, g, h
-----------------------------------------------------------------------------
(* The session's steps *)

\* The books of a session are kept, and a coroutine that is about to be resumed
\* finds the identifier kept for its exec unused.
BooksKept ==
  /\ Books(Waiting, fate, nextId)
  /\ pc = "resume" => /\ Reserved(Head(dispatched), fate, nextId)
                      /\ fate[Head(dispatched).id] # "pending"

\* The queries that wait are a sequence of queries.
LEMMA WaitingType ==
  ASSUME Pipeline
  PROVE  /\ Waiting \in Seq(Query) /\ queued \in Seq(Query) /\ dispatched \in Seq(Query)
         /\ InHandler => dispatched # <<>>
         /\ fate \in [Ids -> {"unsent", "pending", "answered", "skipped", "dropped", "lost"}]
         /\ nextId \in Nat
<1>1. /\ queued \in Seq(Query) /\ dispatched \in Seq(Query)
      /\ InHandler => dispatched # <<>>
  BY DEF Pipeline, Typed, TypeOK, QueuesOK, ResumesPrepare
<1>2. InHandler => Tail(dispatched) \in Seq(Query)
  BY <1>1, TailQuery
<1>3. Waiting \in Seq(Query)
  BY <1>1, <1>2, ConcatProperties DEF Waiting
<1> QED
  BY <1>1, <1>3 DEF Pipeline, Typed, TypeOK, HistoryOK

\* Associativity, for one query appended to the second of two sequences and for
\* one taken from the first.
LEMMA AppendRight ==
  ASSUME NEW s \in Seq(Query), NEW t \in Seq(Query), NEW q \in Query
  PROVE  s \o Append(t, q) = Append(s \o t, q)
<1> DEFINE u == Append(t, q)
           x == s \o u
           y == Append(s \o t, q)
           m == Len(s)
           n == Len(t)
<1>1. /\ s \o t \in Seq(Query) /\ Len(s \o t) = m + n /\ m \in Nat /\ n \in Nat
      /\ \A i \in 1 .. m + n : (s \o t)[i] = IF i <= m THEN s[i] ELSE t[i - m]
  BY ConcatProperties
<1>2. /\ u \in Seq(Query) /\ Len(u) = n + 1 /\ u[n + 1] = q
      /\ \A i \in 1 .. n : u[i] = t[i]
  BY AppendQuery
<1> HIDE DEF u
<1>3. /\ x \in Seq(Query) /\ Len(x) = m + (n + 1)
      /\ \A i \in 1 .. m + (n + 1) : x[i] = IF i <= m THEN s[i] ELSE u[i - m]
  <2>1. /\ x \in Seq(Query) /\ Len(x) = m + Len(u)
        /\ \A i \in 1 .. m + Len(u) : x[i] = IF i <= m THEN s[i] ELSE u[i - m]
    BY <1>2, ConcatProperties
  <2>2. Len(u) = n + 1
    BY <1>2
  <2> HIDE DEF x, m, n
  <2> QED
    BY <2>1, <2>2
<1>4. /\ y \in Seq(Query) /\ Len(y) = m + n + 1 /\ y[m + n + 1] = q
      /\ \A i \in 1 .. m + n : y[i] = (s \o t)[i]
  BY <1>1, AppendQuery
<1> HIDE DEF x, y, m, n
<1>5. ASSUME NEW i \in 1 .. m + (n + 1) PROVE x[i] = y[i]
  <2>1. CASE i \in 1 .. m
    <3>1. i <= m /\ i \in 1 .. m + n
      BY <1>1, <2>1
    <3> QED
      BY <1>1, <1>3, <1>4, <3>1
  <2>2. CASE i \in m + 1 .. m + n
    <3>1. i - m \in 1 .. n /\ i \in 1 .. m + n /\ ~(i <= m)
      BY <1>1, <2>2
    <3>2. x[i] = t[i - m]
      BY <1>2, <1>3, <3>1
    <3>3. y[i] = t[i - m]
      BY <1>1, <1>4, <3>1
    <3> QED
      BY <3>2, <3>3
  <2>3. CASE i = m + n + 1
    <3>1. i - m = n + 1 /\ ~(i <= m)
      BY <1>1, <2>3
    <3>2. x[i] = q
      BY <1>2, <1>3, <3>1
    <3> QED
      BY <1>4, <2>3, <3>2
  <2> QED
    BY <1>1, <2>1, <2>2, <2>3
<1>6. Len(x) = Len(y)
  BY <1>1, <1>3, <1>4
<1> QED
  BY <1>3, <1>4, <1>5, <1>6, SeqEqual DEF x, y, u

LEMMA TailLeft ==
  ASSUME NEW s \in Seq(Query), NEW t \in Seq(Query), s # <<>>
  PROVE  /\ s \o t # <<>> /\ Head(s \o t) = Head(s)
         /\ Tail(s) \o t = Tail(s \o t)
<1> DEFINE w == s \o t
           x == Tail(s) \o t
           y == Tail(w)
           m == Len(s)
           n == Len(t)
<1>1. /\ w \in Seq(Query) /\ Len(w) = m + n /\ m \in Nat /\ n \in Nat
      /\ \A i \in 1 .. m + n : w[i] = IF i <= m THEN s[i] ELSE t[i - m]
  BY ConcatProperties
<1>2. /\ Tail(s) \in Seq(Query) /\ Len(Tail(s)) = m - 1 /\ Head(s) = s[1] /\ 1 \in 1 .. m
      /\ \A i \in 1 .. m - 1 : Tail(s)[i] = s[i + 1]
  BY TailQuery
<1>3. /\ x \in Seq(Query) /\ Len(x) = (m - 1) + n
      /\ \A i \in 1 .. (m - 1) + n :
            x[i] = IF i <= m - 1 THEN Tail(s)[i] ELSE t[i - (m - 1)]
  BY <1>2, ConcatProperties
<1>4. w # <<>>
  BY <1>1, <1>2
<1>5. /\ y \in Seq(Query) /\ Len(y) = m + n - 1 /\ Head(w) = w[1]
      /\ \A i \in 1 .. m + n - 1 : y[i] = w[i + 1]
  BY <1>1, <1>4, TailQuery
<1> HIDE DEF w, x, y, m, n
<1>6. ASSUME NEW i \in 1 .. (m - 1) + n PROVE x[i] = y[i]
  <2>1. i \in 1 .. m + n - 1 /\ i + 1 \in 1 .. m + n
    BY <1>1, <1>2
  <2>2. CASE i <= m - 1
    <3>1. i \in 1 .. m - 1 /\ i + 1 <= m
      BY <1>1, <2>1, <2>2
    <3>2. x[i] = s[i + 1]
      BY <1>2, <1>3, <2>2, <3>1
    <3>3. y[i] = s[i + 1]
      BY <1>1, <1>5, <2>1, <3>1
    <3> QED
      BY <3>2, <3>3
  <2>3. CASE ~(i <= m - 1)
    <3>1. ~(i + 1 <= m) /\ i - (m - 1) = (i + 1) - m
      BY <1>1, <2>1, <2>3
    <3>2. x[i] = t[(i + 1) - m]
      BY <1>3, <2>3, <3>1
    <3>3. y[i] = t[(i + 1) - m]
      BY <1>1, <1>5, <2>1, <3>1
    <3> QED
      BY <3>2, <3>3
  <2> QED
    BY <2>2, <2>3
<1>7. Len(x) = Len(y)
  BY <1>1, <1>3, <1>5
<1>8. x = y
  BY <1>3, <1>5, <1>6, <1>7, SeqEqual
<1>9. Head(w) = Head(s)
  BY <1>1, <1>2, <1>5
<1> QED
  BY <1>4, <1>8, <1>9 DEF w, x, y

\* A query dispatched goes from the head of the second to the end of the first.
LEMMA MoveQuery ==
  ASSUME NEW s \in Seq(Query), NEW t \in Seq(Query), t # <<>>
  PROVE  Append(s, Head(t)) \o Tail(t) = s \o t
<1> DEFINE x == Append(s, Head(t)) \o Tail(t)
           y == s \o t
           m == Len(s)
           n == Len(t)
<1>1. /\ Tail(t) \in Seq(Query) /\ Len(Tail(t)) = n - 1 /\ Head(t) = t[1] /\ 1 \in 1 .. n
      /\ \A i \in 1 .. n - 1 : Tail(t)[i] = t[i + 1]
  BY TailQuery
<1>2. Head(t) \in Query
  BY <1>1
<1>3. /\ Append(s, Head(t)) \in Seq(Query) /\ Len(Append(s, Head(t))) = m + 1
      /\ Append(s, Head(t))[m + 1] = t[1]
      /\ \A i \in 1 .. m : Append(s, Head(t))[i] = s[i]
  BY <1>1, <1>2, AppendQuery
<1>4. /\ x \in Seq(Query) /\ Len(x) = (m + 1) + (n - 1)
      /\ \A i \in 1 .. (m + 1) + (n - 1) :
            x[i] = IF i <= m + 1 THEN Append(s, Head(t))[i] ELSE Tail(t)[i - (m + 1)]
  BY <1>1, <1>3, ConcatProperties
<1>5. /\ y \in Seq(Query) /\ Len(y) = m + n /\ m \in Nat /\ n \in Nat
      /\ \A i \in 1 .. m + n : y[i] = IF i <= m THEN s[i] ELSE t[i - m]
  BY ConcatProperties
<1> HIDE DEF x, y, m, n
<1>6. ASSUME NEW i \in 1 .. m + n PROVE x[i] = y[i]
  <2>0. i \in 1 .. (m + 1) + (n - 1)
    BY <1>5
  <2>1. CASE i <= m
    <3>1. i \in 1 .. m /\ i <= m + 1
      BY <1>5, <2>1
    <3> QED
      BY <1>3, <1>4, <1>5, <2>0, <2>1, <3>1
  <2>2. CASE i = m + 1
    <3>1. ~(i <= m) /\ i - m = 1 /\ i <= m + 1
      BY <1>5, <2>2
    <3>2. y[i] = t[1]
      BY <1>5, <3>1
    <3>3. x[i] = t[1]
      BY <1>3, <1>4, <2>0, <2>2, <3>1
    <3> QED
      BY <3>2, <3>3
  <2>3. CASE i > m + 1
    <3>1. /\ ~(i <= m) /\ ~(i <= m + 1) /\ i - (m + 1) \in 1 .. n - 1
          /\ (i - (m + 1)) + 1 = i - m
      BY <1>5, <2>3
    <3>2. x[i] = t[i - m]
      BY <1>1, <1>4, <2>0, <3>1
    <3>3. y[i] = t[i - m]
      BY <1>5, <3>1
    <3> QED
      BY <3>2, <3>3
  <2> QED
    BY <1>5, <2>1, <2>2, <2>3
<1>7. Len(x) = Len(y)
  BY <1>1, <1>4, <1>5
<1>8. Len(y) = m + n
  BY <1>5
<1>9. x = y
  BY <1>4, <1>5, <1>6, <1>7, SeqEqual
<1> QED
  BY <1>9 DEF x, y
-----------------------------------------------------------------------------
(* The steps of QueryService, said of the session's own queries *)

\* A step that appends a query and marks it is a submission.
LEMMA IsSubmit ==
  ASSUME Pipeline, NEW q \in Query, fate[q.id] = "unsent",
         Waiting' = Append(Waiting, q), fate' = [fate EXCEPT ![q.id] = "pending"]
  PROVE  Service!Submit
<1>1. q.id \in Ids
  BY QueryId
<1>2. IdsOf(Waiting') = Append(IdsOf(Waiting), q.id)
  BY WaitingType, IdsOfAppend
<1> QED
  BY <1>1, <1>2 DEF Service!Submit, IdsOf

\* A step that takes the oldest query away with a verdict is a completion.
LEMMA IsComplete ==
  ASSUME Pipeline, Waiting # <<>>, NEW why \in {"answered", "skipped", "dropped"},
         Waiting' = Tail(Waiting), fate' = [fate EXCEPT ![Head(Waiting).id] = why]
  PROVE  Service!Complete
<1>1. /\ IdsOf(Waiting) # <<>> /\ Head(IdsOf(Waiting)) = Head(Waiting).id
      /\ IdsOf(Waiting') = Tail(IdsOf(Waiting))
  BY WaitingType, IdsOfTail
<1> QED
  BY <1>1 DEF Service!Complete, Service!Verdicts, IdsOf

\* A restart is a failure: it loses the queries that wait and no other.
LEMMA IsFail ==
  ASSUME Pipeline, BooksKept, LoseAll, Waiting' = <<>>
  PROVE  Service!Fail
<1>1. IdsOf(Waiting') = <<>>
  BY DEF IdsOf
<1>2. \A q \in Ids : fate[q] = "pending"
                        <=> \E i \in 1 .. Len(IdsOf(Waiting)) : IdsOf(Waiting)[i] = q
  <2>1. /\ Len(IdsOf(Waiting)) = Len(Waiting)
        /\ \A i \in 1 .. Len(Waiting) : IdsOf(Waiting)[i] = Waiting[i].id
    BY WaitingType, IdsOfType
  <2>2. \A q \in Ids : fate[q] = "pending" <=> \E i \in 1 .. Len(Waiting) : Waiting[i].id = q
    BY DEF BooksKept, Books, Entered
  <2> QED
    BY <2>1, <2>2
<1>3. fate' = [q \in Ids |-> IF \E i \in 1 .. Len(IdsOf(Waiting)) : IdsOf(Waiting)[i] = q
                               THEN "lost" ELSE fate[q]]
  BY <1>2 DEF LoseAll
<1> QED
  BY <1>1, <1>3 DEF Service!Fail, IdsOf

\* What a step of the session is to QueryService, with the books kept.
Promised == BooksKept' /\ [Service!Next]_(Service!vars)

\* A step that leaves the waiting queries, their fates and the identifiers alone.
LEMMA Unconcerned ==
  ASSUME BooksKept, Waiting' = Waiting, fate' = fate, nextId' = nextId,
         pc' = "resume" => pc = "resume" /\ dispatched' = dispatched
  PROVE  Promised
<1>1. BooksKept'
  BY DEF BooksKept, Books, Entered, Once, Ungiven, Kept, Reserved
<1>2. UNCHANGED Service!vars
  BY DEF Service!vars
<1> QED
  BY <1>1, <1>2 DEF Promised

\* A restart.
LEMMA RestartFails == ASSUME Pipeline, BooksKept, RestartSession PROVE Promised
<1>1. Waiting' = <<>> /\ LoseAll /\ nextId' = nextId /\ pc' = "loop"
  <2>1. dispatched' = <<>> /\ queued' = <<>> /\ pc' = "loop"
    BY DEF RestartSession, Reconnect
  <2>2. (<<>> \o <<>>) = <<>>
    BY ConcatEmptySeq, EmptySeq
  <2> QED
    BY <2>1, <2>2 DEF RestartSession, Reconnect, Waiting, InHandler
<1>2. Service!Fail
  BY <1>1, IsFail
<1>3. Books(<<>>, fate', nextId)
  <2>1. \A q \in Ids : fate'[q] = IF fate[q] = "pending" THEN "lost" ELSE fate[q]
    BY <1>1 DEF LoseAll
  <2>2. Entered(<<>>, fate') /\ Once(<<>>) /\ Kept(<<>>, fate', nextId)
    BY <2>1 DEF Entered, Once, Kept
  <2>3. Ungiven(fate', nextId)
    BY <2>1 DEF BooksKept, Books, Ungiven
  <2> QED
    BY <2>2, <2>3 DEF Books
<1>4. BooksKept'
  BY <1>1, <1>3 DEF BooksKept
<1> QED
  BY <1>2, <1>4 DEF Promised, Service!Next

\* Every submission, which appends its query to queued_.
LEMMA EnqueueSubmits ==
  ASSUME Pipeline, BooksKept, NEW q \in Query, Enqueue(q), dispatched' = dispatched,
         InHandler' <=> InHandler, pc' # "resume", nextId' \in Nat, nextId <= nextId',
         q.id < nextId', fate[q.id] = "unsent",
         \A i \in 1 .. Len(Waiting) : Chained(Waiting[i]) => Waiting[i].id + 1 # q.id,
         Chained(q) => Reserved(q, fate, nextId')
  PROVE  Promised
<1> DEFINE front == IF InHandler THEN Tail(dispatched) ELSE dispatched
<1>1. front \in Seq(Query) /\ queued \in Seq(Query) /\ Waiting = front \o queued
  BY WaitingType, TailQuery DEF Waiting
<1>2. Waiting' = front \o Append(queued, q)
  BY DEF Enqueue, Waiting
<1>3. Waiting' = Append(Waiting, q)
  BY <1>1, <1>2, AppendRight
<1>4. fate' = [fate EXCEPT ![q.id] = "pending"]
  BY DEF Enqueue
<1>5. Service!Submit
  BY <1>3, <1>4, IsSubmit
<1>6. Books(Waiting, fate, nextId)
  BY DEF BooksKept
<1>7. Books(Append(Waiting, q), [fate EXCEPT ![q.id] = "pending"], nextId')
  BY <1>6, WaitingType, BooksSubmit
<1>8. BooksKept'
  BY <1>3, <1>4, <1>7 DEF BooksKept
<1> QED
  BY <1>5, <1>8 DEF Promised, Service!Next

\* A query that takes the next identifier is entered as a new one.
LEMMA NewQuerySubmits ==
  ASSUME Pipeline, BooksKept, NEW q \in Query, q.id = nextId, Enqueue(q),
         dispatched' = dispatched, pc' = pc, pc # "resume",
         nextId' = nextId + 1 \/ nextId' = nextId + 2,
         Chained(q) => nextId' = nextId + 2
  PROVE  Promised
<1>1. nextId \in Ids /\ nextId \in Nat /\ (Chained(q) => nextId + 1 \in Ids)
  BY QueryId
<1>2. fate[nextId] = "unsent" /\ (Chained(q) => fate[nextId + 1] = "unsent")
  BY <1>1 DEF BooksKept, Books, Ungiven
<1>3. \A i \in 1 .. Len(Waiting) : Chained(Waiting[i]) => Waiting[i].id + 1 # nextId
  <2> SUFFICES ASSUME NEW i \in 1 .. Len(Waiting), Chained(Waiting[i])
               PROVE  Waiting[i].id + 1 # nextId
    OBVIOUS
  <2>1. Waiting[i] \in Query
    BY WaitingType
  <2>2. Waiting[i].id \in Nat /\ Waiting[i].id + 1 < nextId
    BY <2>1, QueryId DEF BooksKept, Books, Kept, Reserved
  <2> QED
    BY <1>1, <2>2
<1>4. nextId' \in Nat /\ nextId <= nextId' /\ nextId < nextId'
  BY <1>1
<1>5. Chained(q) => Reserved(q, fate, nextId')
  BY <1>1, <1>2 DEF Reserved
<1>6. (InHandler' <=> InHandler) /\ pc' # "resume"
  BY DEF InHandler
<1> QED
  BY <1>2, <1>3, <1>4, <1>5, <1>6, EnqueueSubmits

\* The handlers' three ways to submit.
LEMMA HandlersSubmit ==
  ASSUME Pipeline, BooksKept, SendQuery \/ SendPrepared \/ QueryPrepared
  PROVE  Promised
<1> DEFINE Sent(s, kind, stmt, coro) ==
             [id |-> nextId, stream |-> s, kind |-> kind, stmt |-> stmt, coro |-> coro]
<1>1. /\ nextId \in 1 .. MaxQueries + 1 /\ Submitters \subseteq Serials
      /\ dispatched' = dispatched /\ pc' = pc
  BY SubmittersAreSerials DEF Pipeline, Typed, TypeOK, HistoryOK, SendQuery, SendPrepared,
     QueryPrepared
<1>2. pc # "resume"
  <2>1. Submitters # {}
    BY DEF SendQuery, SendPrepared, QueryPrepared
  <2> QED
    BY <2>1 DEF Submitters
<1>3. CASE SendQuery
  <2>1. PICK s \in Submitters, kind \in {"query", "exec"}, stmt \in Stmts \cup {NoStmt} :
          (stmt = NoStmt <=> kind = "query") /\ Enqueue(Sent(s, kind, stmt, FALSE))
    BY <1>3 DEF SendQuery
  <2>2. Sent(s, kind, stmt, FALSE) \in Query
    BY <1>1, <1>3, <2>1, BoundsAssumption, NamesAssumption DEF SendQuery, Query, Ids, Kinds
  <2>3. ~Chained(Sent(s, kind, stmt, FALSE)) /\ Sent(s, kind, stmt, FALSE).id = nextId
    BY DEF Chained
  <2>4. nextId' = nextId + 1
    BY <1>3 DEF SendQuery
  <2> HIDE DEF Sent
  <2> QED
    BY <1>1, <1>2, <2>1, <2>2, <2>3, <2>4, NewQuerySubmits
<1>4. CASE SendPrepared
  <2>1. PICK s \in Submitters, stmt \in Stmts : Enqueue(Sent(s, "prepare", stmt, FALSE))
    BY <1>4 DEF SendPrepared
  <2>2. Sent(s, "prepare", stmt, FALSE) \in Query
    BY <1>1, <1>4, <2>1, BoundsAssumption, NamesAssumption DEF SendPrepared, Query, Ids, Kinds
  <2>3. ~Chained(Sent(s, "prepare", stmt, FALSE)) /\ Sent(s, "prepare", stmt, FALSE).id = nextId
    BY DEF Chained
  <2>4. nextId' = nextId + 1
    BY <1>4 DEF SendPrepared
  <2> HIDE DEF Sent
  <2> QED
    BY <1>1, <1>2, <2>1, <2>2, <2>3, <2>4, NewQuerySubmits
<1>5. CASE QueryPrepared
  <2>1. PICK s \in Submitters, stmt \in Stmts :
          \/ /\ nextId <= MaxQueries /\ nextId' = nextId + 1
             /\ Enqueue(Sent(s, "exec", stmt, TRUE))
          \/ /\ nextId < MaxQueries /\ nextId' = nextId + 2
             /\ Enqueue(Sent(s, "prepare", stmt, TRUE))
    BY <1>5 DEF QueryPrepared
  <2>2. CASE nextId <= MaxQueries /\ nextId' = nextId + 1 /\ Enqueue(Sent(s, "exec", stmt, TRUE))
    <3>1. Sent(s, "exec", stmt, TRUE) \in Query
      BY <1>1, <2>2, BoundsAssumption, NamesAssumption DEF Query, Ids, Kinds
    <3>2. ~Chained(Sent(s, "exec", stmt, TRUE)) /\ Sent(s, "exec", stmt, TRUE).id = nextId
      BY DEF Chained
    <3> HIDE DEF Sent
    <3> QED
      BY <1>1, <1>2, <2>2, <3>1, <3>2, NewQuerySubmits
  <2>3. CASE nextId < MaxQueries /\ nextId' = nextId + 2 /\ Enqueue(Sent(s, "prepare", stmt, TRUE))
    <3>1. Sent(s, "prepare", stmt, TRUE) \in Query
      BY <1>1, <2>3, BoundsAssumption, NamesAssumption DEF Query, Ids, Kinds
    <3>2. Sent(s, "prepare", stmt, TRUE).id = nextId
      OBVIOUS
    <3> HIDE DEF Sent
    <3> QED
      BY <1>1, <1>2, <2>3, <3>1, <3>2, NewQuerySubmits
  <2> QED
    BY <2>1, <2>2, <2>3
<1> QED
  BY <1>3, <1>4, <1>5

\* A resumed query_prepared submits its exec under the identifier kept for it.
LEMMA ResumeSubmits == ASSUME Pipeline, BooksKept, ResumePrepared PROVE Promised
<1> DEFINE h == Head(dispatched)
           q == [h EXCEPT !.id = h.id + 1, !.kind = "exec"]
<1>1. /\ h \in Query /\ h.kind = "prepare" /\ h.coro /\ InHandler
      /\ Enqueue(q) /\ dispatched' = dispatched /\ nextId' = nextId /\ pc' = "handler"
  BY DEF ResumePrepared, Pipeline, Typed, TypeOK, QueuesOK, ResumesPrepare, InHandler
<1>2. queued \in Seq(Query) /\ queued' \in Seq(Query)
  BY TypeReading DEF Pipeline, Typed, TypeOK, QueuesOK, Reading
<1>3. q \in Query
  <2> HIDE DEF q
  <2>1. Len(queued') = Len(queued) + 1 /\ queued'[Len(queued) + 1] = q
    BY <1>1, <1>2 DEF Enqueue
  <2> QED
    BY <1>2, <2>1
<1>4. q.id = h.id + 1 /\ q.kind = "exec" /\ h.id \in Ids /\ h.id \in Nat /\ h.id + 1 \in Ids
  BY <1>1, QueryId DEF Query, Chained
<1>5. q.id < nextId /\ fate[q.id] = "unsent" /\ fate[h.id] # "pending"
  BY <1>4 DEF ResumePrepared, BooksKept, Reserved
<1>6. \A i \in 1 .. Len(Waiting) : Waiting[i].id + 1 # q.id
  <2> SUFFICES ASSUME NEW i \in 1 .. Len(Waiting) PROVE Waiting[i].id + 1 # q.id
    OBVIOUS
  <2>1. Waiting[i].id \in Ids /\ Waiting[i].id \in Nat
    BY WaitingType, QueryId
  <2>2. fate[Waiting[i].id] = "pending"
    BY <2>1 DEF BooksKept, Books, Entered
  <2> HIDE DEF h, q
  <2>3. Waiting[i].id # h.id
    BY <1>5, <2>2
  <2> QED
    BY <1>4, <2>1, <2>3
<1>7. ~Chained(q) /\ InHandler' /\ pc' # "resume" /\ nextId' \in Nat /\ nextId <= nextId'
  BY <1>1, <1>4, WaitingType DEF Chained, InHandler
<1> HIDE DEF q, h
<1> QED
  BY <1>1, <1>3, <1>5, <1>6, <1>7, EnqueueSubmits

\* A result that is returned completes the oldest query, whether its handler
\* is called or not.
LEMMA ResultCompletes == ASSUME Pipeline, BooksKept, ReadResult PROVE Promised
<1> DEFINE h == Head(dispatched)
           m == flow[nRead + 1]
<1>1. /\ pc = "read" /\ dispatched # <<>> /\ queued' = queued /\ nextId' = nextId
      /\ ~InHandler /\ dispatched \in Seq(Query) /\ queued \in Seq(Query)
  BY WaitingType DEF ReadResult, InHandler
<1>2. Waiting = dispatched \o queued
  BY <1>1 DEF Waiting
<1>3. /\ Waiting # <<>> /\ Head(Waiting) = h
      /\ Tail(dispatched) \o queued = Tail(Waiting)
  BY <1>1, <1>2, TailLeft
<1>4. h \in Query /\ h.id \in Ids /\ h.id \in Nat
  BY <1>1, TailQuery, QueryId
<1>5. Books(Waiting, fate, nextId)
  BY DEF BooksKept
<1>6. CASE HandleResult(h, m)
  <2>1. fate' = [fate EXCEPT ![h.id] = "answered"] /\ dispatched' = dispatched /\ InHandler'
    BY <1>6 DEF HandleResult, InHandler
  <2>2. Waiting' = Tail(Waiting)
    BY <1>1, <1>3, <2>1 DEF Waiting
  <2>3. Service!Complete
    BY <1>3, <2>1, <2>2, IsComplete
  <2>4. Books(Tail(Waiting), [fate EXCEPT ![h.id] = "answered"], nextId)
    BY <1>3, <1>5, WaitingType, BooksComplete
  <2>5. pc' = "resume" => Reserved(h, fate', nextId) /\ fate'[h.id] # "pending"
    <3> SUFFICES ASSUME pc' = "resume"
                 PROVE  Reserved(h, fate', nextId) /\ fate'[h.id] # "pending"
      OBVIOUS
    <3>1. Chained(h)
      BY <1>6 DEF HandleResult, Chained
    <3>2. 1 \in 1 .. Len(Waiting) /\ Waiting[1] = h
      BY <1>3, WaitingType, TailQuery
    <3>3. Reserved(h, fate, nextId)
      BY <1>5, <3>1, <3>2 DEF Books, Kept
    <3>4. h.id + 1 \in Ids /\ h.id + 1 # h.id
      BY <1>4, <3>1, QueryId
    <3>5. fate'[h.id + 1] = fate[h.id + 1] /\ fate'[h.id] = "answered"
      BY <1>4, <2>1, <3>4, WaitingType
    <3> QED
      BY <3>3, <3>5 DEF Reserved
  <2>6. BooksKept'
    BY <1>1, <2>1, <2>2, <2>4, <2>5 DEF BooksKept
  <2> QED
    BY <2>3, <2>6 DEF Promised, Service!Next
<1>7. ASSUME NEW why \in {"skipped", "dropped"}, ForgetResult(h, why) PROVE Promised
  <2>1. /\ fate' = [fate EXCEPT ![h.id] = why] /\ dispatched' = Tail(dispatched)
        /\ ~InHandler' /\ pc' # "resume"
    BY <1>7 DEF ForgetResult, PopFront, NextRound, InHandler
  <2>2. Waiting' = Tail(Waiting)
    BY <1>1, <1>3, <2>1 DEF Waiting
  <2>3. Service!Complete
    BY <1>3, <2>1, <2>2, IsComplete
  <2>4. Books(Tail(Waiting), [fate EXCEPT ![h.id] = why], nextId)
    BY <1>3, <1>5, WaitingType, BooksComplete
  <2>5. BooksKept'
    BY <1>1, <2>1, <2>2, <2>4 DEF BooksKept
  <2> QED
    BY <2>3, <2>5 DEF Promised, Service!Next
<1> QED
  BY <1>6, <1>7 DEF ReadResult

\* The rounds of read() that complete nothing, and the end of a handler, whose
\* query was completed when it was called.
LEMMA RoundsComplete ==
  ASSUME Pipeline, BooksKept, ReadIdle \/ ReadSync \/ HandlerReturns
  PROVE  Promised
<1>1. fate' = fate /\ nextId' = nextId /\ queued' = queued /\ pc' # "resume" /\ ~InHandler'
  BY DEF ReadIdle, ReadSync, HandlerReturns, PopFront, NextRound, history, InHandler
<1>2. CASE ReadIdle
  <2>1. dispatched = <<>> /\ ~InHandler
    BY <1>2, IdleIsEmpty DEF ReadIdle, InHandler
  <2>2. dispatched' = dispatched
    BY <1>2, <2>1 DEF ReadIdle
  <2> QED
    BY <1>1, <2>1, <2>2, Unconcerned DEF Waiting
<1>3. CASE ReadSync
  <2>1. dispatched' = dispatched /\ ~InHandler
    BY <1>3 DEF ReadSync, InHandler
  <2> QED
    BY <1>1, <2>1, Unconcerned DEF Waiting
<1>4. CASE HandlerReturns
  <2>1. dispatched' = Tail(dispatched) /\ InHandler
    BY <1>4 DEF HandlerReturns, PopFront, InHandler
  <2> QED
    BY <1>1, <2>1, Unconcerned DEF Waiting
<1> QED
  BY <1>2, <1>3, <1>4

\* Sending a query moves it from one deque to the other.
LEMMA DispatchMoves == ASSUME Pipeline, BooksKept, DispatchQuery PROVE Promised
<1>1. /\ dispatched' = Append(dispatched, Head(queued)) /\ queued' = Tail(queued)
      /\ queued # <<>> /\ pc = "batch" /\ pc' = "batch" /\ fate' = fate /\ nextId' = nextId
  BY DEF DispatchQuery, history
<1>2. Waiting' = Waiting
  BY <1>1, WaitingType, MoveQuery DEF Waiting, InHandler
<1> QED
  BY <1>1, <1>2, Unconcerned

\* Every step of the session is one of QueryService, or does not concern it.
LEMMA PromiseStep == Pipeline /\ BooksKept /\ [Next]_vars => Promised
<1> SUFFICES ASSUME Pipeline, BooksKept, [Next]_vars PROVE Promised
  OBVIOUS
<1>1. CASE OpenStream \/ CloseStream \/ PollConnection \/ HandshakeReply \/ Server
             \/ ReadCb \/ ReadBusy \/ UNCHANGED vars
  <2>1. /\ dispatched' = dispatched /\ queued' = queued /\ fate' = fate /\ nextId' = nextId
        /\ InHandler' = InHandler /\ (pc' = "resume" => pc = "resume")
    BY <1>1 DEF OpenStream, CloseStream, PollConnection, HandshakeReply, Server, ServerSync,
         ServerAnswer, ServerNotify, ReadCb, ReadBusy, vars, history, InHandler
  <2> QED
    BY <2>1, Unconcerned DEF Waiting
<1>2. CASE SendQuery \/ SendPrepared \/ QueryPrepared
  BY <1>2, HandlersSubmit
<1>3. CASE PollFailed \/ WriteFails \/ ConsumeFails \/ ReadBad
  BY <1>3, RestartFails DEF PollFailed, WriteFails, ConsumeFails, ReadBad
<1>4. CASE WriteCb \/ FlushAll \/ FlushBlocks \/ BatchDone
  <2>1. /\ dispatched' = dispatched /\ queued' = queued /\ fate' = fate /\ nextId' = nextId
        /\ ~InHandler /\ ~InHandler' /\ pc' # "resume"
    BY <1>4 DEF WriteCb, FlushAll, FlushBlocks, BatchDone, history, InHandler
  <2> QED
    BY <2>1, Unconcerned DEF Waiting
<1>5. CASE DispatchQuery
  BY <1>5, DispatchMoves
<1>6. CASE ReadResult
  BY <1>6, ResultCompletes
<1>7. CASE ReadIdle \/ ReadSync \/ HandlerReturns
  BY <1>7, RoundsComplete
<1>8. CASE ResumePrepared
  BY <1>8, ResumeSubmits
<1> QED
  BY <1>1, <1>2, <1>3, <1>4, <1>5, <1>6, <1>7, <1>8
     DEF Next, Application, Connecting, Writing, Reading

\* A session starts with nothing to do and empty books.
LEMMA PromiseInit == Init => BooksKept /\ Service!Init
<1> SUFFICES ASSUME Init PROVE BooksKept /\ Service!Init
  OBVIOUS
<1>1. Waiting = <<>>
  <2>1. (<<>> \o <<>>) = <<>>
    BY ConcatEmptySeq, EmptySeq
  <2> QED
    BY <2>1 DEF Init, Waiting, InHandler
<1>2. fate = [q \in Ids |-> "unsent"] /\ pc = "loop"
  BY DEF Init
<1>3. IdsOf(Waiting) = <<>>
  BY <1>1 DEF IdsOf
<1>4. Service!Init
  BY <1>2, <1>3 DEF Service!Init, IdsOf
<1>5. Books(<<>>, fate, nextId)
  BY <1>2 DEF Books, Entered, Once, Ungiven, Kept
<1> QED
  BY <1>1, <1>2, <1>4, <1>5 DEF BooksKept

\* The session implements the abstract service: completions in the order of
\* submission, each at most once, and all or nothing when a connection fails.
THEOREM PromiseKept == Spec => KeepsPromise
<1>1. Pipeline /\ BooksKept /\ [Next]_vars => BooksKept' /\ [Service!Next]_(Service!vars)
  BY PromiseStep DEF Promised
<1> QED
  BY <1>1, PromiseInit, PipelineInvariant, PTL DEF Spec, KeepsPromise, Service!Spec

\* A query that has its fate keeps it: no result is given twice, and none is given to a query
\* that a restart lost, whatever arrives afterwards (read_cb, restart).
THEOREM FateIsFinal ==
  Spec => [][\A q \in Ids : fate[q] \notin {"unsent", "pending"} => fate'[q] = fate[q]]_vars
<1> DEFINE Final == \A q \in Ids : fate[q] \notin {"unsent", "pending"} => fate'[q] = fate[q]
<1>1. ASSUME Pipeline, BooksKept, [Next]_vars PROVE Final
  <2>1. [Service!Next]_(Service!vars)
    BY <1>1, PromiseStep DEF Promised
  <2>2. fate \in [Ids -> {"unsent", "pending", "answered", "skipped", "dropped", "lost"}]
    BY <1>1, WaitingType
  <2>3. \A q \in Ids : fate[q] = "pending" <=> \E i \in 1 .. Len(Waiting) : Waiting[i].id = q
    BY <1>1 DEF BooksKept, Books, Entered
  <2>4. Waiting \in Seq(Query)
    BY <1>1, WaitingType
  <2>5. /\ Len(IdsOf(Waiting)) = Len(Waiting)
        /\ \A i \in 1 .. Len(Waiting) : IdsOf(Waiting)[i] = Waiting[i].id
    BY <2>4, IdsOfType
  <2>6. CASE Service!Submit
    BY <2>2, <2>6 DEF Service!Submit
  <2>7. CASE Service!Complete
    <3>1. PICK v \in {"answered", "skipped", "dropped"} :
            fate' = [fate EXCEPT ![Head(IdsOf(Waiting))] = v]
      BY <2>7 DEF Service!Complete, Service!Verdicts, IdsOf
    <3>2. Waiting # <<>>
      BY <2>5, <2>7 DEF Service!Complete, IdsOf
    <3>3. 1 \in 1 .. Len(Waiting) /\ Head(Waiting) = Waiting[1]
      BY <2>4, <3>2, TailQuery
    <3>4. Head(IdsOf(Waiting)) = Waiting[1].id
      BY <2>4, <3>2, <3>3, IdsOfTail
    <3>5. \A q \in Ids : q = Waiting[1].id => fate[q] = "pending"
      BY <2>3, <3>3
    <3> QED
      BY <2>2, <3>1, <3>4, <3>5
  <2>8. CASE Service!Fail
    <3>1. fate' = [q \in Ids |-> IF \E i \in 1 .. Len(IdsOf(Waiting)) : IdsOf(Waiting)[i] = q
                                   THEN "lost" ELSE fate[q]]
      BY <2>8 DEF Service!Fail, IdsOf
    <3>2. \A q \in Ids : fate[q] # "pending"
            => ~ \E i \in 1 .. Len(IdsOf(Waiting)) : IdsOf(Waiting)[i] = q
      BY <2>3, <2>5
    <3> QED
      BY <3>1, <3>2
  <2>9. CASE UNCHANGED Service!vars
    BY <2>9 DEF Service!vars
  <2> QED
    BY <2>1, <2>6, <2>7, <2>8, <2>9 DEF Service!Next
<1> HIDE DEF Final
<1>2. Pipeline /\ BooksKept /\ [Next]_vars => BooksKept'
  BY PromiseStep DEF Promised
<1>3. Pipeline /\ BooksKept /\ [Next]_vars => [Final]_vars
  BY <1>1
<1>4. Spec => [][Final]_vars
  BY <1>2, <1>3, PromiseInit, PipelineInvariant, PTL DEF Spec
<1> QED
  BY <1>4 DEF Final
=============================================================================
