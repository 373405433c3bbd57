------------------------------- MODULE Worker -------------------------------
(***************************************************************************)
(* The life of the server's threads (src/src/server.cc, worker.cc): the main *)
(* thread constructs the workers, spawns their threads, hands accepted       *)
(* sockets over and takes everything down; each worker's thread runs its     *)
(* loop.  Only the accept queue, two ev_async watchers and the map workers_  *)
(* are shared.  Sessions are seen as far as they look their worker up, use   *)
(* the database session or hold an event stream.                             *)
(***************************************************************************)
EXTENDS Integers, Sequences, FiniteSets

CONSTANTS
  N,            \* num_threads
  MaxFds,       \* bound: sockets accepted
  MaxRestarts   \* bound: times a database session is lost

ASSUME WorkerAssumption == N \in Nat \ {0} /\ MaxFds \in Nat /\ MaxRestarts \in Nat

Workers == 1 .. N

VARIABLES
  mpc, mi,            \* the main thread: its place and the worker it is at
  next, accepted,     \* next_worker_; sockets accepted so far, numbered from 1
  queue,              \* queued_fds_
  acceptSent, cancelSent,   \* the two ev_async watchers are pending
  thread, at,         \* none, running, ended; in the loop or in async_acceptcb
  breaking,           \* ev_break was called in the loop
  entered, cached,    \* workers_; threads whose thread_local worker_ is set
  sessions, events,   \* sockets with a session; of these, with an open event stream
  closed,             \* sockets closed again
  db, listening,      \* none, open, null; the connection LISTENs on a channel
  restarts,
  gone,               \* workers destroyed
  crash               \* none, or what a null pointer was taken for

main == <<mpc, mi, next, accepted>>
shared == <<queue, acceptSent, cancelSent, entered, cached>>
loops == <<thread, at, breaking>>
work == <<sessions, events, closed, db, listening, restarts>>
vars == <<main, shared, loops, work, gone, crash>>

PerWorker(x) == [w \in Workers |-> x]

Init ==
  /\ mpc = "construct" /\ mi = 1 /\ next = 1 /\ accepted = 0
  /\ queue = PerWorker(<<>>) /\ entered = {} /\ cached = {}
  /\ acceptSent = PerWorker(FALSE) /\ cancelSent = PerWorker(FALSE)
  /\ thread = PerWorker("none") /\ at = PerWorker("loop") /\ breaking = PerWorker(FALSE)
  /\ sessions = PerWorker({}) /\ events = PerWorker({}) /\ closed = {}
  /\ db = PerWorker("none") /\ listening = PerWorker(FALSE) /\ restarts = 0
  /\ gone = {} /\ crash = "none"

Live == crash = "none"
MainAt(place) == Live /\ mpc = place

\* The main thread goes on to the next worker, or after the last one to a place.
Onward(again, done) ==
  IF mi < N THEN mpc' = again /\ mi' = mi + 1 ELSE mpc' = done /\ mi' = 1

-----------------------------------------------------------------------------
(* The main thread *)

\* Mutant: a session that LISTENs as soon as it is made.
ConnectListens ==
  /\ MainAt("construct")
  /\ \E r \in {"open", "null"} : db' = [db EXCEPT ![mi] = r]
  /\ listening' = [listening EXCEPT ![mi] = TRUE]
  /\ Onward("construct", "listen")
  /\ UNCHANGED <<next, accepted, shared, loops, sessions, events, closed, restarts, gone, crash>>

\* connect_database; cancel() does nothing for a worker that is not started.
Connect ==
  /\ MainAt("construct")
  /\ \E r \in {"open", "null"} : db' = [db EXCEPT ![mi] = r]
  /\ Onward("construct", "listen")
  /\ UNCHANGED <<next, accepted, shared, loops, sessions, events, closed, listening,
                 restarts, gone, crash>>

\* listen returns early when TLS or the listener cannot be set up; the caller then
\* destroys the server.
Listen ==
  /\ MainAt("listen")
  /\ mpc' \in {"spawn", "cancel"}
  /\ UNCHANGED <<mi, next, accepted, shared, loops, work, gone, crash>>

\* run: the thread may be in its loop before it is entered in workers_.
Spawn ==
  /\ MainAt("spawn")
  /\ thread' = [thread EXCEPT ![mi] = "running"]
  /\ mpc' = "enter"
  /\ UNCHANGED <<mi, next, accepted, shared, at, breaking, work, gone, crash>>
Enter ==
  /\ MainAt("enter")
  /\ entered' = entered \cup {mi}
  /\ Onward("spawn", "serve")
  /\ UNCHANGED <<next, accepted, queue, acceptSent, cancelSent, cached, loops, work, gone, crash>>

\* acceptcb and add_connection: the socket is queued, then the worker is woken.
Accept ==
  /\ MainAt("serve") /\ accepted < MaxFds
  /\ accepted' = accepted + 1
  /\ queue' = [queue EXCEPT ![next] = Append(@, accepted + 1)]
  /\ mpc' = "wake"
  /\ UNCHANGED <<mi, next, acceptSent, cancelSent, entered, cached, loops, work, gone, crash>>
Wake ==
  /\ MainAt("wake")
  /\ acceptSent' = [acceptSent EXCEPT ![next] = TRUE]
  /\ next' = (next % N) + 1
  /\ mpc' = "serve"
  /\ UNCHANGED <<mi, accepted, queue, cancelSent, entered, cached, loops, work, gone, crash>>

\* timeoutcb ends ev_run, listen returns and the server is destroyed.
Timeout ==
  /\ MainAt("serve")
  /\ mpc' = "cancel"
  /\ UNCHANGED <<mi, next, accepted, shared, loops, work, gone, crash>>

\* Mutant: the thread is not joined.
CancelNoJoin ==
  /\ MainAt("cancel")
  /\ mpc' = "destroy"
  /\ cancelSent' = [cancelSent EXCEPT ![mi] = thread[mi] # "none"]
  /\ UNCHANGED <<mi, next, accepted, queue, acceptSent, entered, cached, loops, work, gone, crash>>

\* ~Worker, first half: a started worker is told to end and waited for.
Cancel ==
  /\ MainAt("cancel")
  /\ IF thread[mi] = "none"
     THEN mpc' = "destroy" /\ UNCHANGED cancelSent
     ELSE mpc' = "join" /\ cancelSent' = [cancelSent EXCEPT ![mi] = TRUE]
  /\ UNCHANGED <<mi, next, accepted, queue, acceptSent, entered, cached, loops, work, gone, crash>>
Join ==
  /\ MainAt("join") /\ thread[mi] = "ended"
  /\ mpc' = "destroy"
  /\ UNCHANGED <<mi, next, accepted, shared, loops, work, gone, crash>>

\* ~Worker, second half: sessions, database session, files, loop.  An EventStream's
\* destructor looks its worker up by the thread it runs on, which here is the main one.
Destroy ==
  /\ MainAt("destroy")
  /\ IF events[mi] # {}
     THEN crash' = "worker" /\ UNCHANGED <<main, sessions, db, listening, closed, gone>>
     ELSE /\ closed' = closed \cup sessions[mi]
          /\ sessions' = [sessions EXCEPT ![mi] = {}]
          /\ db' = [db EXCEPT ![mi] = "none"]
          /\ listening' = [listening EXCEPT ![mi] = FALSE]
          /\ gone' = gone \cup {mi}
          /\ Onward("cancel", "done")
          /\ UNCHANGED <<next, accepted, crash>>
  /\ UNCHANGED <<shared, loops, events, restarts>>

-----------------------------------------------------------------------------
(* A worker's thread.  After ev_break the callbacks of the round still run. *)

InLoop(w) == Live /\ thread[w] = "running" /\ at[w] = "loop"

\* async_acceptcb: libev clears the watcher, then calls back.
AcceptWakes(w) ==
  /\ InLoop(w) /\ acceptSent[w]
  /\ acceptSent' = [acceptSent EXCEPT ![w] = FALSE]
  /\ at' = [at EXCEPT ![w] = "accept"]
  /\ UNCHANGED <<main, queue, cancelSent, entered, cached, thread, breaking, work, gone, crash>>

Accepting(w) == Live /\ at[w] = "accept" /\ queue[w] # <<>>

\* accept_connection: a session, or no TLS object and the socket is closed.
Admit(w, fd) ==
  /\ \/ /\ sessions' = [sessions EXCEPT ![w] = @ \cup {fd}]
        /\ UNCHANGED closed
     \/ closed' = closed \cup {fd} /\ UNCHANGED sessions
  /\ UNCHANGED <<events, db, listening, restarts>>

\* Mutants: one socket for each wake-up; a look at the queue that leaves the socket in it.
TakeOne(w) ==
  /\ Accepting(w)
  /\ Admit(w, Head(queue[w]))
  /\ queue' = [queue EXCEPT ![w] = Tail(@)]
  /\ at' = [at EXCEPT ![w] = "loop"]
  /\ UNCHANGED <<main, acceptSent, cancelSent, entered, cached, thread, breaking, gone, crash>>
TakePeeks(w) ==
  /\ Accepting(w)
  /\ Admit(w, Head(queue[w]))
  /\ at' = [at EXCEPT ![w] = "loop"]
  /\ UNCHANGED <<main, shared, thread, breaking, gone, crash>>

Take(w) ==
  /\ Accepting(w)
  /\ Admit(w, Head(queue[w]))
  /\ queue' = [queue EXCEPT ![w] = Tail(@)]
  /\ UNCHANGED <<main, acceptSent, cancelSent, entered, cached, loops, gone, crash>>

Drained(w) ==
  /\ Live /\ at[w] = "accept" /\ queue[w] = <<>>
  /\ at' = [at EXCEPT ![w] = "loop"]
  /\ UNCHANGED <<main, shared, thread, breaking, work, gone, crash>>

\* Mutant: a loop that still has sessions is not ended.
CancelWakesIdle(w) ==
  /\ InLoop(w) /\ cancelSent[w]
  /\ cancelSent' = [cancelSent EXCEPT ![w] = FALSE]
  /\ breaking' = [breaking EXCEPT ![w] = @ \/ sessions[w] = {}]
  /\ UNCHANGED <<main, queue, acceptSent, entered, cached, thread, at, work, gone, crash>>

CancelWakes(w) ==
  /\ InLoop(w) /\ cancelSent[w]
  /\ cancelSent' = [cancelSent EXCEPT ![w] = FALSE]
  /\ breaking' = [breaking EXCEPT ![w] = TRUE]
  /\ UNCHANGED <<main, queue, acceptSent, entered, cached, thread, at, work, gone, crash>>

LoopEnds(w) ==
  /\ InLoop(w) /\ breaking[w]
  /\ thread' = [thread EXCEPT ![w] = "ended"]
  /\ UNCHANGED <<main, shared, at, breaking, work, gone, crash>>

\* get_worker on a worker's thread: the thread_local pointer, else the map, else null,
\* which every caller takes for a worker.
get_worker(w) ==
  /\ IF w \in cached \cup entered
     THEN cached' = cached \cup {w} /\ UNCHANGED crash
     ELSE crash' = "worker" /\ UNCHANGED cached
  /\ UNCHANGED <<queue, acceptSent, cancelSent, entered>>

\* A handler of a session opens an event stream, and the stream or session is closed.
OpenEvents(w, fd) ==
  /\ InLoop(w) /\ fd \in sessions[w] \ events[w]
  /\ get_worker(w)
  /\ events' = [events EXCEPT ![w] = @ \cup {fd}]
  /\ UNCHANGED <<main, loops, sessions, closed, db, listening, restarts, gone>>
CloseSession(w, fd) ==
  /\ InLoop(w) /\ fd \in sessions[w]
  /\ sessions' = [sessions EXCEPT ![w] = @ \ {fd}]
  /\ events' = [events EXCEPT ![w] = @ \ {fd}]
  /\ closed' = closed \cup {fd}
  /\ UNCHANGED <<main, shared, loops, db, listening, restarts, gone, crash>>

\* A handler submits a query, which may be a LISTEN; the pointer is not checked.
Query(w, fd) ==
  /\ InLoop(w) /\ fd \in sessions[w]
  /\ IF db[w] = "null"
     THEN crash' = "database" /\ UNCHANGED listening
     ELSE listening' = [listening EXCEPT ![w] = TRUE] /\ UNCHANGED crash
  /\ UNCHANGED <<main, shared, loops, sessions, events, closed, db, restarts, gone>>

\* check_notif: the dispatcher is found through the thread's worker.
Notified(w) ==
  /\ InLoop(w) /\ listening[w] /\ db[w] = "open"
  /\ get_worker(w)
  /\ UNCHANGED <<main, loops, work, gone>>

\* restart_db_session; when that fails, cancel() ends the loop.
DbLost(w) ==
  /\ InLoop(w) /\ db[w] = "open" /\ restarts < MaxRestarts
  /\ restarts' = restarts + 1
  /\ listening' = [listening EXCEPT ![w] = FALSE]
  /\ \/ UNCHANGED <<db, breaking>>
     \/ db' = [db EXCEPT ![w] = "null"] /\ breaking' = [breaking EXCEPT ![w] = TRUE]
  /\ UNCHANGED <<main, shared, thread, at, sessions, events, closed, gone, crash>>

Main == Connect \/ Listen \/ Spawn \/ Enter \/ Accept \/ Wake \/ Timeout \/ Cancel
        \/ Join \/ Destroy
Thread(w) ==
  \/ AcceptWakes(w) \/ Take(w) \/ Drained(w) \/ CancelWakes(w) \/ LoopEnds(w)
  \/ DbLost(w) \/ Notified(w)
  \/ \E fd \in sessions[w] : OpenEvents(w, fd) \/ CloseSession(w, fd) \/ Query(w, fd)

Next == Main \/ \E w \in Workers : Thread(w)

Spec == Init /\ [][Next]_vars

\* The main thread goes on where it does not wait for the world; a loop calls back
\* what is pending and ends when it was told to.
FairSpec ==
  /\ Spec
  /\ WF_vars(Connect \/ Spawn \/ Enter \/ Wake \/ Cancel \/ Join \/ Destroy)
  /\ \A w \in Workers :
       /\ WF_vars(AcceptWakes(w)) /\ WF_vars(Take(w) \/ Drained(w))
       /\ WF_vars(CancelWakes(w)) /\ WF_vars(LoopEnds(w))

-----------------------------------------------------------------------------
(* Properties *)

InTeardown == mpc \in {"cancel", "join", "destroy", "done"}
Owner(fd) == ((fd - 1) % N) + 1
Waits(fd) == \E k \in DOMAIN queue[Owner(fd)] : queue[Owner(fd)][k] = fd

\* An accepted socket is with the worker whose turn it was, and in one place: it waits,
\* has a session, or is closed.  None is served twice or forgotten, and an event is
\* delivered only to a session the worker has.
InOnePlace(fd) ==
  /\ Waits(fd) # (fd \in sessions[Owner(fd)] \cup closed)
  /\ fd \notin sessions[Owner(fd)] \cap closed
  /\ \A w \in Workers \ {Owner(fd)} : fd \notin sessions[w]
ServedOnce ==
  /\ \A fd \in 1 .. accepted : InOnePlace(fd)
  /\ \A w \in Workers : events[w] \subseteq sessions[w]

\* Whatever on a worker's thread may look its worker up (sessions, and notifications
\* of a connection that LISTENs) begins only when workers_ is complete and is no longer
\* written: get_worker never reads the map beside emplace and never returns null there.
LookupSucceeds ==
  \A w \in Workers :
    (thread[w] = "running" /\ (sessions[w] # {} \/ (listening[w] /\ db[w] = "open")))
      => entered = Workers /\ mpc \notin {"spawn", "enter"}

\* What a worker owns is destroyed by the main thread only after its thread has ended,
\* and a worker whose loop is gone has no session and no database session.
TeardownOrder ==
  \A w \in Workers :
    /\ w \in gone => thread[w] # "running" /\ sessions[w] = {} /\ db[w] = "none"
    /\ (mpc = "destroy" /\ mi = w) => thread[w] # "running"

\* A socket that is queued is taken by its worker, unless that worker's loop was ended
\* by a failed restart of its database session, or the server goes down.
ConnectionIsTaken ==
  \A fd \in 1 .. MaxFds :
    Waits(fd) ~> (~Waits(fd) \/ breaking[Owner(fd)] \/ InTeardown \/ ~Live)

\* The server's destructor returns, whatever the workers are doing when it begins.
ShutdownEnds == (mpc = "cancel") ~> (mpc = "done" \/ ~Live)
=============================================================================
