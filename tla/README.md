# harmony-http: a verification development

TLA+ models of [harmony-http](../src/README.md), an HTTP/2 server in C++ with an
asynchronous PostgreSQL client: what its components do, what TLC checks of them
on small instances, and what TLAPS proves of them for every instance. Source
paths below are relative to the repository (`src/src/...`).

## 1. The system

One thread accepts connections and hands them to *workers*; each worker is a
thread with an event loop (libev) that owns its HTTP sessions, one database
session, a table of static files and an event dispatcher. The main thread
shares with each worker its accept queue and two wake-ups, and with all of them the map of workers. Within a worker everything is a callback
of the loop; request handlers are plain functions or coroutines that are resumed
from callbacks. The hard part is therefore not locking but *order*: which
callback runs between the two halves of something, which watcher is active when
there is work, and what state a callback finds that another left.

| component | state | operations | talks to | what makes it correct |
|---|---|---|---|---|
| database session `dbsession.*`, `dbquery.h` | handshake phase, two `ev_io`, `queued_`, `dispatched_`, `prepared_queries_` | `poll_connection`, `send_*`, `write`, `read`, restart | libpq, worker, streams' handlers | each handler gets its own query's result, once, in order; a queued query is sent; an exec follows its prepare |
| database connection `dbconnection.*` | a coroutine frame | `query`, `query_params`, `query_prepared` | database session | prepare and execute are chained; errors of the first end the second |
| HTTP request `httprequest.*`, coroutine types | `body_`, `data_`, mode and ready flags, two coroutine handles, two callbacks | `body`, `data`, `on_body`, `on_data`, `json`, `handle_data`, `handle_body` | nghttp2 callbacks, handler | the handler sees every byte once and in order, then the end, whenever it asks |
| event streams `eventstream.*`, `eventdispatcher.*`, `eventsource.*` | `queue_`, `pos_`, `paused_`; channels' slots | `create`, `suscribe`, `publish`, `send`, `ping`, destruction | nghttp2, HTTP session, database notifications | each subscriber gets each event once, in order, whole; nothing points to a dead stream |
| HTTP session `httpsession.*`, `buffer.h` | TLS state, `wbuf_`, `data_pending_`, two `ev_io`, settings timer, streams | `tls_handshake`, `read`, `write`, `fill_wb`, nghttp2 callbacks | OpenSSL, nghttp2, worker | bytes leave in order; an idle session has nothing to send; it closes only when done |
| stream and responses `stream.*`, `httpresponse.*`, data streams | headers, two timers, the handler's frame | `prepare_response`, `submit_*`, `timeout_cb` | session, router, files | a dead peer is timed out, a live one is not; one response per request |
| static files `fileentry.*`, `filestream.*` | fd, size, stat watcher; table in the worker | lookup, add, update, remove, `send` | worker, streams | a response has the length it announced; no stream reads a closed file |
| worker `worker.*` | loop, thread, accept queue, sessions, live stream serials | `run`, `cancel`, `add_connection`, `accept_connection`, `restart_db_session` | server, all of the above | every accepted connection is served; teardown in order |
| server `server.*` | workers, listener, TLS context | `listen`, `acceptcb`, timeout | workers | round robin, orderly end |
| router `httprouter.*` | tree of path levels | `add_route`, `match`, `dispatch_route` | streams | a path is served by a route registered for its method |
| results and notifications `dbresult.*`, `dbnotify.*` | counted references | iteration, sharing | event streams, responses | freed once, when the last user is gone |
| utilities `util.*`, `common_util.*`, `json.*` | - | decoding, dates, cookies, JSON writing | all | agree with their definitions |

What is hard to test in this code is listed under `hazards` in `PROJECT.json`, each
with the line where it bites and the property that would notice.

## 2. Modules

| module | models | state |
|---|---|---|
| `DbSession` | `db::Session`, the coroutine `query_prepared`, stream serials of the worker; libpq, sockets and server as environment | done |
| `QueryService` | abstract specification: what a session promises for queries | done |
| `DbSession_proofs` | theorems about `DbSession`, and that it implements `QueryService` | ten theorems |
| `RequestBody` | `HttpRequest`'s body interface and the receive callbacks of `HttpSession` for one request | done |
| `RequestBody_proofs` | theorems about `RequestBody` | five theorems |
| `EventStream` | `EventDispatcher`, `EventStream`, `EventSource`, `data_read_cb` and `send_data_cb` for such a stream | done |
| `Mailboxes` | abstract specification: what event streams promise to publishers and subscribers | done |
| `EventStream_proofs` | theorems about `EventStream`, and that it implements `Mailboxes` | five theorems |
| `HttpSession` | the handshake, `read`, `write`, `fill_wb`, the write watcher, the settings timer and the end of one `HttpSession`; OpenSSL, nghttp2 and the client as environment | done |
| `HttpSession_proofs` | theorems about `HttpSession` | five theorems |
| `Streams` | the streams of one session: nghttp2's frame callbacks, the two timers, responses, resets; nghttp2 and the client as environment | done |
| `Streams_proofs` | theorems about `Streams` | three theorems |
| `Worker` | the main thread and the workers' threads from construction to destruction: accept queue, wake-ups, look-up of a thread's worker, cancellation, a lost database session | done |
| `Worker_proofs` | theorems about `Worker` | three theorems |
| `Files` | `FileEntry`, `FileStream` and the worker's file table against a disk that changes | done, but for files of absolute path or without watcher |
| `Files_proofs` | theorems about `Files` | three theorems |
| `Router` | `add_route`, `insert_path`, `match`, `dispatch_route`, `get_param`, and what they promise said of the list of routes | done |
| `MCRouter` | the instance of `Router` TLC checks: seven overlapping patterns | done |
| `Router_proofs` | theorems about `Router` | three theorems |

### DbSession

State and code: `queued`, `dispatched`, `prepared` are the session's members
(`dbsession.h:83-91`); `rev`, `wev` say which watcher is active; `conn` is the phase
of the handshake (`write`/`read`: what `PQconnectPoll` waits for; `failed`: the
constructor's poll failed and was ignored; `none`: `PQconnectStart` failed). `pc` is
the place inside `read()` or `write()`: a callback runs to its end before another
starts, so an action that is not the server's needs `pc = "loop"` or the place
before it. A completion handler that runs inside `read()` (`pc = "handler"`) may
submit queries itself.

libpq is a sequence `flow` of everything sent in pipeline mode, each query followed
by its sync, and four cursors over it: `nRead` (returned by `PQgetResult`), `nIn`
(read from the socket), `nResp` (answered by the server), `nWire` (received by it).
libpq may flush part of its buffer in `PQpipelineSync`, reads while it flushes, and
a failed or malformed answer ends the session: `RestartSession` drops both deques.
A query is `[id, stream, kind, stmt, coro]`; its text and parameters, which decide
nothing here, are left out.

`KeepsPromise` says that `DbSession` implements `QueryService` under the mapping
`pending <- ` identifiers of the dispatched queries not yet completed, then the
queued ones: queries complete in the order of submission, or are all lost at once.

### RequestBody

One request. `body`, `buffered`, `ready`, `chunkMode`, `bodyCoro`, `dataCoro`,
`onBody`, `onData` are the members of `HttpRequest`; a coroutine handle is `none`,
`waiting` or `dead` (its frame has ended and is destroyed; the code never resets the
handle). The handler is a coroutine that takes the body in one `style` and may wait
for something else at any point; `cont` is what is left of `on_frame_recv_cb` while
the handler runs inside it. Chunks are numbered. Resuming a dead frame is undefined
behaviour: `ub` records it and nothing further is said of such a run.
The DATA case of `on_frame_recv_cb` has no break: that it may answer `100` a second time
is not seen by the body interface and is modelled in `Streams` (`Continue`).

### EventStream

An address stands for the memory of an `EventStream` and may be used again.
`registry` holds the slots of each channel, null ones included. `deferred`, `open`
and `frame` are nghttp2's view of a stream; `writing` says that `write()` will be called:
its watcher is active, or `read()` is about to call it. One loop round of `write()`
is one action, because between any two rounds the socket may be full and other
callbacks run. An event is `Pre` bytes, `Data` bytes and two newlines, and a frame may
end after any byte. `send` throws when what it passes to `substr` lies outside the
data (`Throws`); the exception leaves a C callback, so nothing follows.

`KeepsMailboxes` says that `EventStream` implements `Mailboxes` under the mapping `open <- ` live addresses,
`subscribers <- ` the streams whose slot is in a channel's registry, `inbox <- queue_`, `written <- ` the events
sent to their last byte. There `publish` is one step for all subscribers, a stream that is created
starts empty although its memory was another's, and one that is destroyed leaves every channel at once; nghttp2's
deferral, `paused_`, the watcher and the frames that cut an event are not seen.

### HttpSession

`buf` and `used` are `wbuf_` (what is left to read, and how far it is written), `pending` is
`data_pending_`; `rev_` is active from the constructor on and has no variable. `pc` says
where in `read()`, `write()` or `fill_wb()` the session is, so that the outcomes of
`SSL_write`, of `nghttp2_session_mem_send` and of `send_data_cb` are steps of their own;
no other callback runs between them. Bytes are numbered in the order nghttp2 hands them
over, which makes order, loss and repetition one equation (`BytesInOrder`).

nghttp2 is a number of queued frames, a flag for its final GOAWAY, and the DATA frame
it holds after `send_data_cb` returned `NGHTTP2_ERR_WOULDBLOCK`. Which frame goes next, how
long it is and whether it is DATA is open at each step. A frame that nghttp2 queues on its
own while it receives starts no watcher; one a handler submits does. `WantsNothing` is
`want_read` and `want_write` both zero. `SSL_write` takes all or nothing because the code
does not set `SSL_MODE_ENABLE_PARTIAL_WRITE`, and a retry must offer the same bytes because
it does not set `SSL_MODE_ACCEPT_MOVING_WRITE_BUFFER`.

### Streams

A stream is a record: the two halves of the HTTP/2 stream (`remote`, `local`), what the
handler has done (`prepared`, `body`), what nghttp2 holds for it (`out`, `left`, `rst`), its window and
the two timers. The frame callbacks of `httpsession.cc` are the actions of the client, with the
run of the DATA case into the HEADERS case; `ReadData` is `data_read_cb`, which at the end of
the response to an incomplete request submits `RST_STREAM`, and `SendData` the later call of
`send_data_cb` and `on_frame_send_cb`; `flight` is the frame between the two. `SendFails` is that
call when `pread` fails: both timers are stopped, the frame is dropped, and nghttp2 resets the
stream unless it is to be reset already (`local = "failed"`). A stream whose
halves are both closed, or whose `RST_STREAM` is out, is destroyed (`Close`). nghttp2 drops DATA
for a stream that is being reset, but HEADERS that are being decoded when
`on_header_cb` resets the stream still reach `on_frame_recv_cb`.

A response is empty, data (a string or a file) or events. `create` is `EventSource::create`, which stops the
read timer, also of a request that is not complete; a handler that runs within a frame's callback finds the timer
started again when the callback ends, one that had waited does not, so `create` may do either. An event stream
has no end; with nothing to send nghttp2 puts it off (`ReadData` needs `left > 0`), and `submit_event`
is a publisher or the ping.

The client opens windows, moves those of all streams with SETTINGS (`RecvSettings`; below zero, if it likes; `lowered`
remembers that it closed the window of a stream and no frame of the stream was sent since), may
leave out any frame, and may stop reading (`StopReading`): then the socket and `wbuf_` are full and nghttp2 sends
nothing more.

### Worker

One main thread and `N` workers. `mpc` and `mi` are the place of the main thread and the worker
its loop is at: `construct` (`connect_database`), `listen`, `spawn`/`enter` (the two halves of
`run`), `serve`/`wake` (the two halves of `add_connection`), `cancel`/`join`/`destroy` (`~Worker`). A
worker's thread is a loop whose callbacks run whole, but for `async_acceptcb`, which takes the
queue's lock once per socket, so that the main thread may come between two (`at`). `acceptSent` and
`cancelSent` are libev's pending flags, which it clears before the callback. `entered` is
the map `workers_`, `cached` the thread-local pointer. A null pointer that is taken
for a worker or a database session ends the model (`crash`). Worker threads are seen as far as
they look up their worker: opening an event stream, a notification.

### Files

`disk` maps a path to an inode and `inodes` an inode to a version and a length: a file
appears, is written in place, is replaced by a rename or vanishes between any two steps of
the worker. `entries` lists every `FileEntry` made; one that is destroyed is not `alive`.
`info` and `fresh` are `info_` and `updated_info_`, `seen` what the stat watcher saw last.
A lookup of a file not in the table is several steps (`pc`): the disk is asked, the file
opened, the watcher started, the compressed file asked for. An entry added on request has another
key in the table than one found by the directory scan, so it is not found again
under its name. `send` reads one unit of what the descriptor gives (`Contents`); it hangs where the code's loop does
not end, and reads freed memory where the entry is gone. `missed` is history: what an entry's watcher cannot know. So are,
of a response, `read` (the contents its bytes came from), `since` (the last change its
announcement can know of) and `other` (the watcher had given its entry another file's attributes), and of an inode
`over` (it was written in place). The disk has no symbolic links: the scan would take them for files (`DT_LNK`,
`server.cc:366`), and their watcher looks at the link (`lstat`) while the descriptor is the target's.

### Router

A node of the tree is named by the levels that lead to it and holds `terminal`, `methods`, `index`
and the order of its children. What the code leaves uninitialised is `Unset` (an index) or any set (the
methods of a node on the way to another, before the new method is added). `match` calls itself; here each call
and return is a step. The stack of calls is the way from the root to the node `cur.at`, and the only
thing a call remembers besides its node is which child is next: that of the innermost call is `kid`, and that of
a caller is the child after the one that returned to it (`NextKid`). So `Descend` is a call that takes its level,
`PassBy` one that returns npos at once, `Answer` and `Leave` the two ways a call returns at its end, `Miss` the
return of the root's. Nothing else happens on the thread between `dispatch_route` and the answer, and a later request
may find the tree and the vector as they are left. `MatchIsRight` compares the answer with a definition that
knows only the list of registered routes, and `ParamsAreOwn` asks for a parameter by its label, not by what `get_param` compares.

The code does otherwise in two cases, which the properties name and which they do not call right:

- `Misled`: `match` stops at a node that is terminal for other methods only and returns `route_index[m]` (`httprouter.cc:235`),
  which nobody has set; `dispatch_route` indexes `handlers_` with it (`httprouter.cc:259`). With `POST /{y}`,
  `GET /{y}/b` and `GET /*` this is what becomes of `GET /7`, though the last route covers it.
- `get_param` takes the first parameter whose label *begins* with the name asked for (`httprequest.h:76`), so in
  `/{xy}/{x}` the name `x` gives the value of `xy`.

### How the modules meet

What `EventStream` calls `writing` is the `wev` of its `HttpSession`; one `SendFrame` there is one
`SendFrame` here, and the frames of `RequestBody` and `Streams` are what `Receive` stands for. The
frame in `Streams.flight` is the one `HttpSession` holds when `send_data_cb` found no room. A
route that `Router` finds starts the handler of `RequestBody`; a GET without one is a lookup of
`Files`, whose `streams` are responses of `Streams`. `Worker` owns all of them;
its `DbLost` is `DbSession`'s `RestartSession`.

## 3. Runs

All of them but `router_matching` run with `CHECK_DEADLOCK FALSE`: an event loop with no ready watcher is
idle, which is a legal end of a bounded run, and so are a broken loop (`DbSession`), a closed
session (`HttpSession`, `Streams`), a closed stream (`RequestBody`), a terminated process (`EventStream`,
`Worker`, `Files`) and a server that is down (`Worker`). A router can always take a request or go on with one, so
there a deadlock would be an error.

| run | question | bounds |
|---|---|---|
| `db_safety` | are results and handlers aligned whatever fails, and does the session implement `QueryService` | 2 queries, 2 streams, batch of 1, 1 extra handshake round, 1 restart, 1 notification, all outcomes |
| `db_pipeline` | is every query completed, with several batches and several results per read, and prepared statements | 3 queries, 1 stream, batch of 2, no restart, fair scheduling |
| `body_safety` | is the body handed over whole, in every style and at every moment | 4 chunks, 2 waits |
| `event_safety` | exactly once, in order, whole, watched; do the streams implement `Mailboxes`; is every accepted event written | 2 streams, 1 channel, 2 events, every cut of an event of 4 bytes, fair scheduling |
| `http_safety` | bytes in order, same-bytes retry, nothing left on an idle session, an orderly end; is a client that does not acknowledge SETTINGS removed | 4 frames besides SETTINGS and GOAWAY, payloads of 1 and 2 bytes, header of 1, `wbuf_` of 3, fair scheduling |
| `streams_timers` | is a silent client timed and a slow handler not; is a response whole before the client is told to stop; does every stream end | 2 streams, one of which may expect 100, responses of 0 and 2 units, of no data or of events (1 waiting), stream windows of 0 and 2, session window of 2, 2 DATA, WINDOW_UPDATE or SETTINGS frames in all, fair scheduling; 560,000 states |
| `worker_lifecycle` | is every accepted socket served once; is the look-up of a worker safe; does the server come down, in order | 2 workers, 3 sockets, 1 lost database session, fair scheduling |
| `files_serving` | is what an entry announces what the disk has, and what a response announces what it reads; who reads too far or freed memory; is a vanished file forgotten | 1 name in 2 encodings, lengths 1 and 2, 3 changes, 4 entries, 1 response at a time, fair scheduling |
| `router_matching` | does the search find what the list of routes says, with the right parameters | 7 patterns, 3 routes, 2 methods and an unknown one, 7 paths |

Two queries are enough for a mismatch of results (the second gets the first's),
three for batches that leave one behind; two streams for a dead one and a live one;
one restart for old handlers meeting new results. Four chunks put one before the handler
asks, one between two reads, one while it waits elsewhere and one after. Two
streams that give up and take slots leave a channel with two null slots to choose from;
an event of 4 bytes has one byte of each part, so a frame ends at every kind of place. A `wbuf_` of 3
bytes is filled by one long DATA frame, by a plain frame and a short one with a rest in
`data_pending_`, and is too small for two: each way to be full happens. A session window of 2
is used up by one of two responses, which leaves the other waiting for it; a stream window
of 0 holds a response from its first byte. Two counted frames let a SETTINGS frame close a window and another
open it, or a request be completed after a WINDOW_UPDATE. Three sockets give the first worker two, one
of which may come while it drains its queue. Three changes let a file shrink or be replaced
under a response, vanish and come back. Patterns of each kind of level, one a prefix of another,
one with `*`, some that part at the first level and some at the second, and a parameter whose name begins
another's make the search enter branches it must leave; three routes give two of them the same
pattern or a third branch to come between.

`ParamsAreOwn` speaks of the request dispatched last, because the code keeps parameters
in one vector of the thread, which the next dispatch clears. `InfoIsFresh`, `AnnouncedIsSent` and `ReaderIsSafe` name the cases in which the
code does otherwise: a change between `fstat` and the first `stat` (`missed`), a
path whose watcher has given the entry the attributes of another file (`other`), a file made shorter in place, a
name of which a file vanished; TLC finds each of the last two properties violated without `other`. What `AnnouncedIsSent`
leaves open besides is only a file that is written in place under a response, which nothing in the code prevents. `ShutdownEnds` and `ConnectionIsTaken` excuse `crash`: an event stream
open at destruction, or a handler's query after a failed restart, goes through a null pointer.

Runs that find a disagreement between code and comment (`expect: violation`):

| run | what TLC shows |
|---|---|
| `db_queued_is_watched` | a query queued during the handshake is stranded: `PGRES_POLLING_READING` stops the write watcher and nothing starts it when the connection is made |
| `body_data_waits_for_reader` | a chunk between two `data()` calls resumes a destroyed frame |
| `event_may_be_cut` | a frame that ends within an event's prefix makes `substr` throw |

### Fairness

`db_pipeline`: the loop calls the callback of a ready watcher, a callback runs to its end
(weak fairness of its steps), the server answers what it has received, and the socket
is not full for ever (strong fairness of `FlushAll`). Nothing is assumed of streams,
handlers, failures or notifications. The property excuses `Stalled`: a query queued during the
handshake (the run `db_queued_is_watched`), a failed first poll that was ignored, and a `write()` that
stopped its watcher while libpq still held part of the last message; a session
stalled anywhere else would be a counterexample.

`event_safety`: `write()` goes on while it is due (weak fairness of `SendFrame`), nghttp2
serves every stream that can be read (strong fairness of `ReadEvent` per stream, as its
scheduler takes streams in turn), and the client opens its window again and again.

`http_safety`: a callback runs to its end, `write_cb` is called while its watcher is active
(weak fairness), the settings timer fires although other callbacks keep running and
the client reads again and again (strong fairness of `SettingsTimeout` and `SslWrites`).

`streams_timers`: a timer that runs goes off, a handler answers and an event stream is pinged (weak fairness per
stream). As long as the client reads, `send_data_cb` finds room sooner or later, and nghttp2 takes streams in turn (strong
fairness of `Send` per stream, as another stream's frame may be in flight whenever this one
could go). That it reads is not assumed: `StopReading` may come at any point, no frame is sent after it,
and the client may leave out every other frame too.
`EveryStreamEnds` excuses `WaitsUntimed`: streams without a timer that wait for a client that has stopped reading, because the write
timer is started only by a frame of the stream's own; for the session's window, which another stream used up; or for a
window that SETTINGS closed.

`worker_lifecycle`: the main thread goes on wherever it does not wait for the world (not for
connections, nor for its timeout), a loop calls back what is pending, drains its queue and
ends once it was told to. Each is a thread the operating system runs, so weak fairness is enough.

`files_serving`: a lookup that began ends (weak fairness), and among the stat watchers with
something to report some one fires again and again (strong fairness, since lookups and
responses may keep the loop busy at any moment). Nothing is assumed of the disk or of clients.

## 4. Proofs

Every safety property a passing run checks is proved for all values of the constants, both refinements
included. Each module's proof has one inductive invariant, a lemma for each operation that
keeps it, and a short theorem for each property.

### DbSession

`DbSession_proofs` proves, for all values of the constants that satisfy the two
assumptions of `DbSession` (bounds are naturals, a batch has at least one query, the
null statement is not a statement):

| theorem | of | argument |
|---|---|---|
| `TypeCorrect` | `TypeOK` | inductive by itself, split into seven parts so that a step is proved part by part |
| `SessionAligned` | `Aligned` | inductive with `TypeOK` |
| `NeverOrphaned` | `NoOrphanResult` (no run lists it) | follows from `Aligned`: an unread query is within the last dispatched ones |
| `HandlersGetTheirResults` | `ResultsMatch` | inductive with `Aligned`: the unread message at the front is the front query's |
| `WriterStaysArmed` | `WriterArmed` | inductive with what the watcher is inside `write()` |
| `ConnectedSessionReads` | `ConnectedReads` (no run lists it) | inductive with the same fact for the handshake's read phase |
| `StrandedIsFollowed` | `StrandedResultIsFollowed` | follows from `Aligned` |
| `ExecAfterPrepare` | `PreparedFirst` | inductive within `Led`, with `Aligned` |

The heart is `Aligned`. "Handlers get their own results" is not inductive: it says
nothing of where the cursor `nRead` stands relative to `dispatched`. `Aligned` does: libpq's unread tail is the dispatched queries, each
followed by its sync, possibly after one sync that is still unread, and while a handler
runs the front query's result has just been read. Every step of `write()` extends
both by the same query, every step of `read()` consumes both at the same rate, a
restart empties both.

`PreparedFirst` speaks of what the server has answered; whether an exec relies on
`prepared_queries_` is decided long before, when it is queued. `Led` follows it on the way: a name in
`prepared_queries_` is known to the server or its prepare is on the way (`Named`), an exec that relies on it
comes after such a prepare in what libpq was given (`FlowLed`) and in `queued_` (`QueueLed`), and the statement
of every answered prepare is known, whatever the answer was, or is that of the coroutine about
to be resumed (`AnsweredKnown`).

### The refinement of QueryService

The same module proves `PromiseKept`, which is `KeepsPromise`: every step of `DbSession` submits, completes
or loses queries as `QueryService` allows, or leaves them alone. The waiting queries are those of `dispatched_`
not yet completed and then `queued_` (`Waiting`), so `Aligned` and `TypeOK` are needed for every step that reads a
result. On top of them the proof keeps books (`BooksKept`): an identifier is pending exactly
if some waiting query has it, no two queries have the same, those not yet given out are unsent,
and the one a chained prepare has in reserve for its exec is unused. The last is needed because
`query_prepared` submits its exec from the handler of its prepare, while other
queries are under way: that submission must be one of a new query. Dispatching a query moves it from one
deque to the other and changes nothing of `Waiting`, so it maps to a stutter.

`FateIsFinal` is an action property that follows from the refinement: in `QueryService` only a pending query is
completed or lost, and no identifier is submitted twice, so a step of `DbSession` changes nothing of a query that
has its fate. No run lists it.

### HttpSession

`HttpSession_proofs` proves all safety properties of `HttpSession`, from its one
assumption: a DATA frame of any length that occurs fits an empty `wbuf_`.

| theorem | of | argument |
|---|---|---|
| `TypeCorrect` | `TypeOK` | inductive by itself; `CopyPending` and `SendFrame` need that what is written fits |
| `OrderKept` | `BytesInOrder` | inductive with the types: every step regroups the three sequences or appends the next bytes to both sides |
| `RetryKept` | `RetryWithSameBytes` | inductive with `FillsFresh` |
| `IdleKept` | `IdleMeansDrained` | inductive with `EmptyMeansNothing` |
| `DoneKept` | `DoneIsClosed` | inductive with the same |

The last three need two facts about the inside of `write()`. `FillsFresh`: while `fill_wb` runs no
write is blocked and nothing in `wbuf_` has been read, so how far it is written is what it
holds. `EmptyMeansNothing`: if `fill_wb` ends with an empty `wbuf_`, nghttp2 and `data_pending_`
have nothing. The second rests on the first and on the assumption: a frame there was
no room for means that `wbuf_`, which was reset, is not empty. A frame longer than `wbuf_`
would stop the watcher with the frame unsent.

### RequestBody

`RequestBody_proofs` proves all safety properties of passing runs, for any number of chunks and waits.

| theorem | of | argument |
|---|---|---|
| `TypeCorrect` | `TypeOK` (no run lists it) | the part `Typed` of the invariant |
| `WholeBody` | `BodyIsWhole` | `Buffer` and `Ending` |
| `IntactData` | `DataIntact` | `Buffer` |
| `EofAfterAll` | `EofIsLast` | `Buffer` and `Ending` |
| `WaitsAfterTrailers` | `WaitsOnlyAfterTrailers` | `Ending` |

The four properties look at the handler, and none says what the members hold before it asks.
`Readers`: only the members of the handler's style are used, and a handle is that of a suspended
frame exactly while the handler is suspended there. `Buffer`: until a handler takes chunks, `body_` has all that was
received; from then on the handler has all of it, unless a dead frame was resumed. `Ending`:
the end is signalled only after the last DATA frame, and once it is, no handler is left suspended and
one that asks later finds it marked.

### Streams

`Streams_proofs` proves all safety properties of `Streams`, for any streams, lengths and windows.

| theorem | of | argument |
|---|---|---|
| `ReadTimer` | `ReadTimerIsRight` | `Timed`, for each stream by itself |
| `WriteTimer` | `OwnWindowIsTimed` | the same |
| `WholeResponse` | `NoErrorIsWhole` | inductive with `Flying` and `Responds` |

Each callback changes one stream, so a lemma per function shows what it does to one record, and the invariant says of
every record that it is `Fine`: of its type, `Timed` as the two properties say, and answered before it sends
(`Responds`). A SETTINGS frame changes all streams at once, each by `Resized`. `NoErrorIsWhole` spans two callbacks: `data_read_cb` submits the reset and `send_data_cb` sends the frame with END_STREAM
later. `Flying` says what must stay true between them: the stream of the frame in flight is there and
sending, and the frame fits what is left and both windows.

### EventStream

`EventStream_proofs` proves all safety properties of passing runs, for any streams, channels, events and lengths of
an event's parts.

| theorem | of | argument |
|---|---|---|
| `ExactlyOnce` | `ExactlyOnceInOrder` | inductive with `Dates`, `Vacant` and the types |
| `LiveRegistry` | `RegistryIsLive` | inductive with the types |
| `WatchedEvents` | `EventIsWatched` | follows from `Buffers` |
| `BackedFrames` | `FrameIsBacked` | the part `Backed`, inductive with `Buffers` |
| `MailboxesKept` | `KeepsMailboxes` | step by step, from the whole invariant |

`publish` appends an event to the queue of each stream listed in the channel; that it is due
to exactly these is `RegistryIsLive`, with `Dates` (since which event a stream listens to a channel). `Vacant` says
that memory which holds no stream is as new, which is what lets an address be used again. `Buffers` ties `paused_`
to nghttp2's deferred flag and `pos_` to the queue, for every address and not for live streams only.
That no channel lists a stream twice gives it one copy of an event (`OneCopy`); the events due after one more
entry of the log are those due before, and that entry if it concerns the stream.

For `MailboxesKept` every step is shown to be a step of `Mailboxes` or to leave its variables alone
(`MailUnconcerned`: reading, pausing, watching and opening windows). The hard ones are `publish`, which walks the slots
of a channel and must reach each subscriber once (`LiveRegistry`), the creation of a stream in used memory, which must
find it empty (`Vacant`), and a frame that writes the last byte of an event: only then is the front of the queue
taken, and it is the event the wire just completed (`Buffers`, `Backed`).

### Files

`Files_proofs` proves all safety properties of `Files`, for any names, lengths and numbers of changes, entries and
responses. `FilesAssumption` says that names are finitely many, as files in a directory are: the scan that makes the
first entries ends.

| theorem | of | argument |
|---|---|---|
| `FreshInfo` | `InfoIsFresh` | `Synced`, for each entry whose watcher runs |
| `AnnouncedVersion` | `AnnouncedIsSent` | `StreamOK` |
| `SafeReader` | `ReaderIsSafe` | `Stopped`, with `Missing` of the entry that was freed |

The disk changes at any moment, so the invariant says of an entry only what no change of the disk can
undo (`EntryOK`): the inode behind its descriptor exists and is behind no other path (`Owned`); until the watcher
gives it another file's attributes (`Swapped`), what it announces is not longer than the file it has open, unless the file was made
shorter, and is of that file's version, unless it was written in place (`Vouched`); an entry whose path leads nowhere had its file vanish, and one that was erased, a
file of its name (`Missing`). `Kept` is what each change of the disk leaves true, shown once for each kind of
change. `Synced` says that what an entry announces is what its watcher saw last, and fails only
between `add_static_file`'s `fstat` and the start of the watcher (`Starting`). With `Vouched` it gives what is true of a response
when it begins, and `StreamOK` what stays true of it: the contents behind its descriptor, and all contents it has read, are of the version it
announced or were written in place after `since`, and a length past the end of the file means that the file was made shorter.

### Worker

`Worker_proofs` proves the three safety properties of `Worker` for any number of workers,
sockets and restarts, from its one assumption: there is at least one worker, the bounds are naturals.

| theorem | of | argument |
|---|---|---|
| `LooksUpSafely` | `LookupSucceeds` | follows from `Phases` |
| `TornDownInOrder` | `TeardownOrder` | inductive with `Ends` and the types |
| `SocketsServedOnce` | `ServedOnce` | follows from `Places`, inductive with `Turns` and the types |

`LookupSucceeds` says nothing of a thread that has no session yet. `Phases` does: until `run` has entered
the last worker no worker has a session, a queued socket or a connection that listens, and
`entered` is exactly the workers before the one `run` is at. `Ends`: a thread inside a callback
runs, and nothing is destroyed before the teardown. `Places` says where each socket is: the sets
of queued, served and closed sockets are disjoint, a queue holds no socket twice, and what a
worker has is its own by turn. Its one hard step is `Accept`, where the new socket must
go to its owner, which is `Turns`: `next_worker_` is the owner of the next socket. That rests on a lemma of
arithmetic (`Round`): going on by one before or after taking the remainder is the same.

### Router

`Router_proofs` proves both safety properties of `Router` for any methods, patterns and paths and any number
of routes. `RouterAssumption` says that patterns are sequences of levels, paths sequences of strings, GET a method, and
digits also a number with at most one dot, and that a name begins itself.

| theorem | of | argument |
|---|---|---|
| `RightTree` | `TreeOK` (no run lists it) | inductive by itself: what `insert_path` does to a tree keeps it |
| `RightMatch` | `MatchIsRight` | `AllToCome` while the search runs, `Answered` or `Missed` after it |
| `OwnParams` | `ParamsAreOwn` | `Held`, and `Answered` for the pattern `get_param` looks at |

The search knows the tree and the property only the list of routes, so the proof has two halves. `TreeOK` says which tree
belongs to a list of routes: its nodes are the prefixes of the patterns (`Grown`), the children of a node are in the order in which the first
route through each of them was registered (`KidsOK`), and a node is terminal exactly if a route ends there, has among its
methods those of all routes through it, and holds for each method the route registered last (`Ended`). It is kept node by
node, with the cases of `insert_path`: off the way, on it with the next node there or
new, and at the end.

The second half says where each route that covers the path is while the search runs (`ToCome`): it ends at the
innermost node or above it, it lies under that node through the next child or a later one, or it
parts from the way to the node through a younger child. `Descend` and `Leave` move a
route from one of these cases to another and `PassBy` from none, because a child that refuses the method or the
level has no such route under it. When a call answers, the second case is empty and the other two are
exactly what `Precedes` denies, so the node is that of the route to find unless no route of the method ends there (`Misled`); when the root returns npos all three are empty. `Held` says that the
vector holds the parameters of the levels above and no other, in their order; `Rank` counts them,
and the lemmas on it are what `Descend` and `Leave` need to push and take back.

### Only model-checked

- The liveness properties (`EventuallyCompleted`, `EventuallyWritten`, `SilentPeerIsRemoved`, `EveryStreamEnds`, `ConnectionIsTaken`,
  `ShutdownEnds`, `VanishedIsForgotten`): they need fairness and ENABLED, which the prover does not treat.
- The three properties of the runs that expect a violation, which do not hold.

## 5. Plan

In order of what matters most to users of the server:

1. A byte FIFO as the abstract specification of `HttpSession`.
2. `SharedResult`: reference counts of results and notifications in events.
3. Utilities: percent decoding, base64, cookies over bounded inputs.

## 6. Not modelled

Of the modelled parts: the text of queries, headers and events; allocation failure; a
handler that calls `data()` again after eof or `body()` twice, or subscribes a stream
to a channel twice; views into buffers that a handler keeps longer than it may; a session
pointer `query_prepared` keeps across a restart; push promises, which nothing makes. Of `Files`:
a file a handler sends by an absolute path, and one that is not watched; symbolic links. Of `DbSession`: COPY results, which
no query of the program asks for. Of `Router`: the parameters of a handler that asks after another
request was dispatched; cutting a pattern at slashes
and parsing a level into kind and label.

Parts without a module: results and notifications (`dbresult.*`, `dbnotify.*`: counts of one
thread and column iteration); utilities (`util.*`, `json.*`: functions of characters without
state); the directory scan (it is the initial state of `Files`), TLS context set-up, sockets and
configuration, which are I/O; header and MIME tables, which are data; `test_db.cc` and
`exp.cc`, which are demonstrations.
