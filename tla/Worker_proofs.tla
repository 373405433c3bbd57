---------------------------- MODULE Worker_proofs ----------------------------
(***************************************************************************)
(* Safety of the server's threads for any number of workers, sockets and     *)
(* restarts.                                                               *)
(***************************************************************************)
EXTENDS Worker, SequenceTheorems, TLAPS

USE WorkerAssumption

Serving == {"serve", "wake"}
Teardown == {"cancel", "join", "destroy", "done"}
Starting == {"construct", "listen", "spawn", "enter"}

\* What the variables hold, as far as the proofs need it.
Types ==
  /\ mpc \in Starting \cup Serving \cup Teardown /\ mi \in Workers
  /\ next \in Workers /\ accepted \in Nat
  /\ queue \in [Workers -> Seq(Nat)]
  /\ entered \subseteq Workers
  /\ thread \in [Workers -> {"none", "running", "ended"}]
  /\ at \in [Workers -> {"loop", "accept"}]
  /\ sessions \in [Workers -> SUBSET Nat] /\ events \in [Workers -> SUBSET Nat]
  /\ closed \subseteq Nat
  /\ db \in [Workers -> {"none", "open", "null"}] /\ listening \in [Workers -> BOOLEAN]

-----------------------------------------------------------------------------
(* Types *)

LEMMA OnwardTypes ==
  ASSUME Types, NEW again \in Starting \cup Teardown,
         NEW done \in Starting \cup Serving \cup Teardown, Onward(again, done)
  PROVE  mpc' \in Starting \cup Serving \cup Teardown /\ mi' \in Workers
  BY DEF Types, Onward, Workers

LEMMA TypesInit == Init => Types
  BY DEF Init, Types, PerWorker, Workers, Starting

LEMMA TypesMain == Types /\ Main => Types'
<1> SUFFICES ASSUME Types, Main PROVE Types'
  OBVIOUS
<1> USE DEF shared, loops, work, main
<1>1. CASE Connect
  BY <1>1, OnwardTypes DEF Types, Connect, Starting
<1>2. CASE Listen
  BY <1>2 DEF Types, Listen, Starting, Teardown
<1>3. CASE Spawn
  BY <1>3 DEF Types, Spawn, Starting
<1>4. CASE Enter
  BY <1>4, OnwardTypes DEF Types, Enter, Starting, Serving
<1>5. CASE Accept
  <2>1. accepted + 1 \in Nat /\ Append(queue[next], accepted + 1) \in Seq(Nat)
    BY DEF Types
  <2> QED
    BY <1>5, <2>1 DEF Types, Accept, Serving
<1>6. CASE Wake
  <2>1. (next % N) + 1 \in Workers
    BY DEF Types, Workers
  <2> QED
    BY <1>6, <2>1 DEF Types, Wake, Serving
<1>7. CASE Timeout
  BY <1>7 DEF Types, Timeout, Teardown
<1>8. CASE Cancel
  BY <1>8 DEF Types, Cancel, Teardown
<1>9. CASE Join
  BY <1>9 DEF Types, Join, Teardown
<1>10. CASE Destroy
  <2>1. CASE events[mi] # {}
    BY <1>10, <2>1 DEF Types, Destroy
  <2>2. CASE events[mi] = {}
    BY <1>10, <2>2, OnwardTypes DEF Types, Destroy, Teardown
  <2> QED
    BY <2>1, <2>2
<1> QED
  BY <1>1, <1>2, <1>3, <1>4, <1>5, <1>6, <1>7, <1>8, <1>9, <1>10 DEF Main

LEMMA TypesThread == ASSUME NEW w \in Workers PROVE Types /\ Thread(w) => Types'
<1> SUFFICES ASSUME Types, Thread(w) PROVE Types'
  OBVIOUS
<1> USE DEF shared, loops, work, main
<1>1. CASE AcceptWakes(w)
  BY <1>1 DEF Types, AcceptWakes
<1>2. CASE Take(w)
  <2>1. queue[w] \in Seq(Nat) /\ queue[w] # <<>>
    BY <1>2 DEF Types, Take, Accepting
  <2>2. Head(queue[w]) \in Nat /\ Tail(queue[w]) \in Seq(Nat)
    BY <2>1
  <2>3. sessions' \in [Workers -> SUBSET Nat] /\ closed' \subseteq Nat
    <3> DEFINE fd == Head(queue[w])
    <3>1. fd \in Nat /\ Admit(w, fd)
      BY <1>2, <2>2 DEF Take
    <3>2. sessions[w] \cup {fd} \in SUBSET Nat
      BY <3>1 DEF Types
    <3> HIDE DEF fd
    <3> QED
      BY <3>1, <3>2 DEF Types, Admit
  <2> QED
    BY <1>2, <2>2, <2>3 DEF Types, Take, Admit
<1>3. CASE Drained(w)
  BY <1>3 DEF Types, Drained
<1>4. CASE CancelWakes(w)
  BY <1>4 DEF Types, CancelWakes
<1>5. CASE LoopEnds(w)
  BY <1>5 DEF Types, LoopEnds
<1>6. CASE DbLost(w)
  BY <1>6 DEF Types, DbLost
<1>7. CASE Notified(w)
  BY <1>7 DEF Types, Notified, get_worker
<1>8. ASSUME NEW fd \in sessions[w], OpenEvents(w, fd) PROVE Types'
  BY <1>8 DEF Types, OpenEvents, get_worker
<1>9. ASSUME NEW fd \in sessions[w], CloseSession(w, fd) PROVE Types'
  BY <1>9 DEF Types, CloseSession
<1>10. ASSUME NEW fd \in sessions[w], Query(w, fd) PROVE Types'
  BY <1>10 DEF Types, Query
<1> QED
  BY <1>1, <1>2, <1>3, <1>4, <1>5, <1>6, <1>7, <1>8, <1>9, <1>10 DEF Thread

LEMMA TypesStep == Types /\ [Next]_vars => Types'
<1>1. ASSUME Types, UNCHANGED vars PROVE Types'
  BY <1>1 DEF Types, vars, main, shared, loops, work
<1> QED
  BY <1>1, TypesMain, TypesThread DEF Next

LEMMA TypesHold == Spec => []Types
  BY TypesInit, TypesStep, PTL DEF Spec

-----------------------------------------------------------------------------
(* The look-up of a thread's worker *)

\* What is true of each phase of the main thread: nothing can look a worker up before
\* run() has entered the last one, and workers_ has all of them from then on.
Phases ==
  /\ mpc \in Starting => \A w \in Workers : sessions[w] = {} /\ ~listening[w] /\ queue[w] = <<>>
  /\ mpc \in {"construct", "listen"} => entered = {} /\ \A w \in Workers : thread[w] = "none"
  /\ mpc = "listen" => mi = 1
  /\ mpc \in {"spawn", "enter"} => entered = 1 .. (mi - 1)
  /\ mpc \in Serving => entered = Workers
  /\ mpc \in Teardown => entered = Workers \/ \A w \in Workers : thread[w] = "none"

LEMMA PhasesInit == Init => Phases
  BY DEF Init, Phases, PerWorker, Workers, Starting, Serving, Teardown

LEMMA PhasesMain == Types /\ Phases /\ Main => Phases'
<1> SUFFICES ASSUME Types, Phases, Main PROVE Phases'
  OBVIOUS
<1> USE DEF shared, loops, work, main, Live, MainAt, Onward, Starting, Serving, Teardown
<1>1. CASE Connect
  BY <1>1 DEF Types, Phases, Connect, Workers
<1>2. CASE Listen
  BY <1>2, SMTT(30) DEF Types, Phases, Listen, Workers
<1>3. CASE Spawn
  BY <1>3 DEF Types, Phases, Spawn, Workers
<1>4. CASE Enter
  <2>1. entered' = 1 .. mi
    <3>1. entered' = (1 .. (mi - 1)) \cup {mi}
      BY <1>4 DEF Phases, Enter
    <3>2. mi \in Nat \ {0}
      BY DEF Types, Workers
    <3> QED
      BY <3>1, <3>2
  <2>2. mi < N => mi' - 1 = mi
    BY <1>4 DEF Types, Enter, Workers
  <2>3. ~(mi < N) => mi = N
    BY DEF Types, Workers
  <2> QED
    BY <1>4, <2>1, <2>2, <2>3 DEF Types, Phases, Enter, Workers
<1>5. CASE Accept
  BY <1>5 DEF Types, Phases, Accept, Workers
<1>6. CASE Wake
  BY <1>6 DEF Types, Phases, Wake, Workers
<1>7. CASE Timeout
  BY <1>7 DEF Types, Phases, Timeout, Workers
<1>8. CASE Cancel
  BY <1>8 DEF Types, Phases, Cancel, Workers
<1>9. CASE Join
  BY <1>9 DEF Types, Phases, Join, Workers
<1>10. CASE Destroy
  BY <1>10 DEF Types, Phases, Destroy, Workers
<1> QED
  BY <1>1, <1>2, <1>3, <1>4, <1>5, <1>6, <1>7, <1>8, <1>9, <1>10 DEF Main

LEMMA PhasesThread ==
  ASSUME NEW w \in Workers PROVE Types /\ Phases /\ Thread(w) => Phases'
<1> SUFFICES ASSUME Types, Phases, Thread(w) PROVE Phases'
  OBVIOUS
<1> USE DEF shared, loops, work, main, InLoop, Starting, Serving, Teardown
<1>1. CASE AcceptWakes(w)
  BY <1>1 DEF Types, Phases, AcceptWakes
<1>2. CASE Take(w)
  <2>1. mpc \notin Starting
    BY <1>2 DEF Phases, Take, Accepting
  <2> QED
    BY <1>2, <2>1 DEF Types, Phases, Take
<1>3. CASE Drained(w)
  BY <1>3 DEF Types, Phases, Drained
<1>4. CASE CancelWakes(w)
  BY <1>4 DEF Types, Phases, CancelWakes
<1>5. CASE LoopEnds(w)
  BY <1>5 DEF Types, Phases, LoopEnds
<1>6. CASE DbLost(w)
  BY <1>6 DEF Types, Phases, DbLost
<1>7. CASE Notified(w)
  BY <1>7 DEF Types, Phases, Notified, get_worker
<1>8. ASSUME NEW fd \in sessions[w], OpenEvents(w, fd) PROVE Phases'
  BY <1>8 DEF Types, Phases, OpenEvents, get_worker
<1>9. ASSUME NEW fd \in sessions[w], CloseSession(w, fd) PROVE Phases'
  BY <1>9 DEF Types, Phases, CloseSession
<1>10. ASSUME NEW fd \in sessions[w], Query(w, fd) PROVE Phases'
  BY <1>10 DEF Types, Phases, Query
<1> QED
  BY <1>1, <1>2, <1>3, <1>4, <1>5, <1>6, <1>7, <1>8, <1>9, <1>10 DEF Thread

LEMMA PhasesHold == Spec => []Phases
<1>1. Types /\ Phases /\ [Next]_vars => Phases'
  <2>1. ASSUME Phases, UNCHANGED vars PROVE Phases'
    BY <2>1 DEF Phases, vars, main, shared, loops, work
  <2> QED
    BY <2>1, PhasesMain, PhasesThread DEF Next
<1> QED
  BY PhasesInit, <1>1, TypesHold, PTL DEF Spec

\* worker.h:40-51: get_worker neither reads workers_ while run() writes it nor gives a
\* worker's thread null, for any number of workers and whatever their threads do.
THEOREM LooksUpSafely == Spec => []LookupSucceeds
<1>1. Types /\ Phases => LookupSucceeds
  BY DEF Types, Phases, LookupSucceeds, Starting, Serving, Teardown
<1> QED
  BY <1>1, TypesHold, PhasesHold, PTL

-----------------------------------------------------------------------------
(* The end of the workers *)

\* Only a thread that runs is in a callback, and no worker is destroyed while the server
\* still starts or serves.
Ends ==
  /\ \A w \in Workers : at[w] = "accept" => thread[w] = "running"
  /\ gone # {} => mpc \in Teardown

LEMMA EndsInit == Init => Ends /\ TeardownOrder
  BY DEF Init, Ends, TeardownOrder, PerWorker

LEMMA EndsMain == Types /\ Ends /\ TeardownOrder /\ Main => Ends' /\ TeardownOrder'
<1> SUFFICES ASSUME Types, Ends, TeardownOrder, Main PROVE Ends' /\ TeardownOrder'
  OBVIOUS
<1> USE DEF shared, loops, work, main, Live, MainAt, Onward, Starting, Serving, Teardown
<1>1. CASE Connect
  BY <1>1 DEF Types, Ends, TeardownOrder, Connect
<1>2. CASE Listen
  BY <1>2 DEF Types, Ends, TeardownOrder, Listen
<1>3. CASE Spawn
  BY <1>3 DEF Types, Ends, TeardownOrder, Spawn
<1>4. CASE Enter
  BY <1>4 DEF Types, Ends, TeardownOrder, Enter
<1>5. CASE Accept
  BY <1>5 DEF Types, Ends, TeardownOrder, Accept
<1>6. CASE Wake
  BY <1>6 DEF Types, Ends, TeardownOrder, Wake
<1>7. CASE Timeout
  BY <1>7 DEF Types, Ends, TeardownOrder, Timeout
<1>8. CASE Cancel
  BY <1>8 DEF Types, Ends, TeardownOrder, Cancel
<1>9. CASE Join
  BY <1>9 DEF Types, Ends, TeardownOrder, Join
<1>10. CASE Destroy
  <2>1. CASE events[mi] # {}
    BY <1>10, <2>1 DEF Types, Ends, TeardownOrder, Destroy
  <2>2. CASE events[mi] = {}
    BY <1>10, <2>2 DEF Types, Ends, TeardownOrder, Destroy
  <2> QED
    BY <2>1, <2>2
<1> QED
  BY <1>1, <1>2, <1>3, <1>4, <1>5, <1>6, <1>7, <1>8, <1>9, <1>10 DEF Main

LEMMA EndsThread ==
  ASSUME NEW w \in Workers
  PROVE  Types /\ Ends /\ TeardownOrder /\ Thread(w) => Ends' /\ TeardownOrder'
<1> SUFFICES ASSUME Types, Ends, TeardownOrder, Thread(w) PROVE Ends' /\ TeardownOrder'
  OBVIOUS
<1> USE DEF shared, loops, work, main, InLoop
<1>1. CASE AcceptWakes(w)
  BY <1>1 DEF Types, Ends, TeardownOrder, AcceptWakes
<1>2. CASE Take(w)
  <2>1. w \notin gone
    BY <1>2 DEF Ends, TeardownOrder, Take, Accepting
  <2>2. \A v \in Workers \ {w} : sessions'[v] = sessions[v]
    BY <1>2 DEF Types, Take, Admit
  <2> QED
    BY <1>2, <2>1, <2>2 DEF Types, Ends, TeardownOrder, Take, Admit
<1>3. CASE Drained(w)
  BY <1>3 DEF Types, Ends, TeardownOrder, Drained
<1>4. CASE CancelWakes(w)
  BY <1>4 DEF Types, Ends, TeardownOrder, CancelWakes
<1>5. CASE LoopEnds(w)
  BY <1>5 DEF Types, Ends, TeardownOrder, LoopEnds
<1>6. CASE DbLost(w)
  BY <1>6 DEF Types, Ends, TeardownOrder, DbLost
<1>7. CASE Notified(w)
  BY <1>7 DEF Types, Ends, TeardownOrder, Notified, get_worker
<1>8. ASSUME NEW fd \in sessions[w], OpenEvents(w, fd) PROVE Ends' /\ TeardownOrder'
  BY <1>8 DEF Types, Ends, TeardownOrder, OpenEvents, get_worker
<1>9. ASSUME NEW fd \in sessions[w], CloseSession(w, fd) PROVE Ends' /\ TeardownOrder'
  BY <1>9 DEF Types, Ends, TeardownOrder, CloseSession
<1>10. ASSUME NEW fd \in sessions[w], Query(w, fd) PROVE Ends' /\ TeardownOrder'
  BY <1>10 DEF Types, Ends, TeardownOrder, Query
<1> QED
  BY <1>1, <1>2, <1>3, <1>4, <1>5, <1>6, <1>7, <1>8, <1>9, <1>10 DEF Thread

\* worker.cc:40-56: the main thread destroys what a worker owns only after the worker's
\* thread is out of its loop, and nothing of it comes back.
THEOREM TornDownInOrder == Spec => []TeardownOrder
<1>1. Types /\ Ends /\ TeardownOrder /\ [Next]_vars => Ends' /\ TeardownOrder'
  <2>1. ASSUME Ends, TeardownOrder, UNCHANGED vars PROVE Ends' /\ TeardownOrder'
    BY <2>1 DEF Ends, TeardownOrder, vars, main, shared, loops, work
  <2> QED
    BY <2>1, EndsMain, EndsThread DEF Next
<1> QED
  BY EndsInit, <1>1, TypesHold, PTL DEF Spec

-----------------------------------------------------------------------------
(* Whose turn it is *)

LEMMA Division ==
  ASSUME NEW a \in Nat
  PROVE  a % N \in 0 .. N - 1 /\ a = N * (a \div N) + (a % N)
  BY SMT

LEMMA Remainder ==
  ASSUME NEW q \in Nat, NEW r \in 0 .. N - 1
  PROVE  (N * q + r) % N = r
  BY SMT

\* Going round one further is the same before and after the division.
LEMMA Round == ASSUME NEW a \in Nat PROVE ((a % N) + 1) % N = (a + 1) % N
<1> DEFINE r == a % N
           q == a \div N
<1>1. r \in 0 .. N - 1 /\ a = N * q + r /\ q \in Nat
  BY Division
<1>2. CASE r + 1 < N
  <2>1. r + 1 \in 0 .. N - 1
    BY <1>1, <1>2
  <2>2. (N * q + (r + 1)) % N = r + 1 /\ (N * 0 + (r + 1)) % N = r + 1
    BY <1>1, <2>1, Remainder
  <2>3. a + 1 = N * q + (r + 1) /\ r + 1 = N * 0 + (r + 1)
    BY <1>1
  <2> HIDE DEF r, q
  <2>4. (a + 1) % N = r + 1 /\ (r + 1) % N = r + 1
    BY <2>2, <2>3
  <2> QED
    BY <2>4 DEF r
<1>3. CASE r + 1 = N
  <2>1. (N * (q + 1) + 0) % N = 0 /\ (N * 1 + 0) % N = 0
    BY <1>1, Remainder
  <2>2. a + 1 = N * (q + 1) + 0 /\ r + 1 = N * 1 + 0
    BY <1>1, <1>3
  <2> HIDE DEF r, q
  <2>3. (a + 1) % N = 0 /\ (r + 1) % N = 0
    BY <2>1, <2>2
  <2> QED
    BY <2>3 DEF r
<1> QED
  BY <1>1, <1>2, <1>3

LEMMA OwnerIsWorker == ASSUME NEW fd \in Nat \ {0} PROVE Owner(fd) \in Workers
  BY Division DEF Owner, Workers

LEMMA OwnersGoRound ==
  ASSUME NEW fd \in Nat \ {0} PROVE (Owner(fd) % N) + 1 = Owner(fd + 1)
<1>1. fd - 1 \in Nat /\ (fd - 1) + 1 = fd /\ (fd + 1) - 1 = fd
  OBVIOUS
<1> QED
  BY <1>1, Round DEF Owner

LEMMA FirstOwner == Owner(1) = 1
<1>1. (N * 0 + 0) % N = 0 /\ N * 0 + 0 = 0
  BY Remainder
<1> QED
  BY <1>1 DEF Owner

\* next_worker_ is the owner of the socket that is accepted next, or, until it is woken,
\* of the one just queued.
Turns ==
  IF mpc = "wake" THEN accepted > 0 /\ next = Owner(accepted) ELSE next = Owner(accepted + 1)

LEMMA TurnsInit == Init => Turns
  BY FirstOwner DEF Init, Turns

LEMMA TurnsStep == Types /\ Turns /\ [Next]_vars => Turns'
<1> SUFFICES ASSUME Types, Turns, [Next]_vars PROVE Turns'
  OBVIOUS
<1> USE DEF main, MainAt, Onward
<1>1. CASE Accept
  BY <1>1 DEF Types, Turns, Accept
<1>2. CASE Wake
  <2>1. (Owner(accepted) % N) + 1 = Owner(accepted + 1)
    BY <1>2, OwnersGoRound DEF Types, Turns, Wake
  <2> QED
    BY <1>2, <2>1 DEF Turns, Wake
<1>3. CASE UNCHANGED main
  BY <1>3 DEF Turns
<1>4. CASE UNCHANGED <<next, accepted>> /\ mpc # "wake" /\ mpc' # "wake"
  BY <1>4 DEF Turns
<1>5. Main => \/ Accept \/ Wake \/ UNCHANGED main
              \/ UNCHANGED <<next, accepted>> /\ mpc # "wake" /\ mpc' # "wake"
  BY DEF Main, Connect, Listen, Spawn, Enter, Timeout, Cancel, Join, Destroy
<1>6. ASSUME NEW w \in Workers, Thread(w) PROVE UNCHANGED main
  BY <1>6 DEF Thread, AcceptWakes, Take, Drained, CancelWakes, LoopEnds, DbLost, Notified,
              OpenEvents, CloseSession, Query
<1>7. UNCHANGED vars => UNCHANGED main
  BY DEF vars
<1> QED
  BY <1>1, <1>2, <1>3, <1>4, <1>5, <1>6, <1>7 DEF Next

LEMMA TurnsHold == Spec => []Turns
  BY TurnsInit, TurnsStep, TypesHold, PTL DEF Spec

-----------------------------------------------------------------------------
(* Accepted sockets *)

Queued(q) == {q[k] : k \in DOMAIN q}
Distinct(q) == \A i, j \in DOMAIN q : q[i] = q[j] => i = j

LEMMA Joined ==
  ASSUME NEW q \in Seq(Nat), NEW n \in Nat, Distinct(q), n \notin Queued(q)
  PROVE  Queued(Append(q, n)) = Queued(q) \cup {n} /\ Distinct(Append(q, n))
<1> DEFINE r == Append(q, n)
<1>1. DOMAIN r = 1 .. Len(q) + 1 /\ DOMAIN q = 1 .. Len(q) /\ Len(q) \in Nat
  OBVIOUS
<1>2. r[Len(q) + 1] = n /\ \A k \in 1 .. Len(q) : r[k] = q[k]
  OBVIOUS
<1> HIDE DEF r
<1>3. Queued(r) = Queued(q) \cup {n}
  BY <1>1, <1>2 DEF Queued
<1>4. Distinct(r)
  BY <1>1, <1>2 DEF Queued, Distinct
<1> QED
  BY <1>3, <1>4 DEF r

LEMMA Left ==
  ASSUME NEW q \in Seq(Nat), q # <<>>, Distinct(q)
  PROVE  /\ Head(q) \in Queued(q) /\ Queued(Tail(q)) = Queued(q) \ {Head(q)}
         /\ Distinct(Tail(q))
<1> DEFINE r == Tail(q)
<1>1. Len(q) \in Nat \ {0} /\ DOMAIN q = 1 .. Len(q) /\ DOMAIN r = 1 .. Len(q) - 1
  OBVIOUS
<1>2. Head(q) = q[1] /\ \A k \in 1 .. Len(q) - 1 : r[k] = q[k + 1]
  OBVIOUS
<1> HIDE DEF r
<1>3. Head(q) \in Queued(q)
  BY <1>1, <1>2 DEF Queued
<1>4. ASSUME NEW k \in DOMAIN r PROVE r[k] \in Queued(q) \ {Head(q)}
  <2>1. k + 1 \in DOMAIN q /\ 1 \in DOMAIN q /\ k + 1 # 1 /\ r[k] = q[k + 1]
    BY <1>1, <1>2
  <2> QED
    BY <1>2, <2>1 DEF Queued, Distinct
<1>5. ASSUME NEW x \in Queued(q) \ {Head(q)} PROVE x \in Queued(r)
  <2>1. PICK k \in DOMAIN q : x = q[k]
    BY DEF Queued
  <2>2. k # 1 /\ k - 1 \in DOMAIN r /\ r[k - 1] = x
    BY <1>1, <1>2, <2>1
  <2> QED
    BY <2>2 DEF Queued
<1>6. Queued(r) = Queued(q) \ {Head(q)}
  BY <1>4, <1>5 DEF Queued
<1>7. ASSUME NEW i \in DOMAIN r, NEW j \in DOMAIN r, r[i] = r[j] PROVE i = j
  <2>1. /\ i + 1 \in DOMAIN q /\ j + 1 \in DOMAIN q /\ q[i + 1] = q[j + 1]
        /\ i \in Nat /\ j \in Nat
    BY <1>1, <1>2, <1>7, SMTT(30)
  <2>2. i + 1 = j + 1
    BY <2>1 DEF Distinct
  <2> QED
    BY <2>1, <2>2
<1> QED
  BY <1>3, <1>6, <1>7 DEF r, Distinct

\* Where sockets are: a socket is with its owner only, in one of three places.
Places ==
  /\ \A w \in Workers : Distinct(queue[w])
  /\ \A w \in Workers : \A fd \in Queued(queue[w]) \cup sessions[w] :
       fd \in 1 .. accepted /\ Owner(fd) = w /\ fd \notin closed
  /\ \A w \in Workers : Queued(queue[w]) \cap sessions[w] = {} /\ events[w] \subseteq sessions[w]
  /\ \A fd \in 1 .. accepted :
       fd \in Queued(queue[Owner(fd)]) \cup sessions[Owner(fd)] \cup closed
  /\ closed \subseteq 1 .. accepted

LEMMA PlacesInit == Init => Places
  BY DEF Init, Places, PerWorker, Queued, Distinct

\* Only what moves a socket matters.
LEMMA PlacesKept ==
  Places /\ UNCHANGED <<queue, sessions, events, closed, accepted>> => Places'
  BY DEF Places, Queued, Distinct, Owner

LEMMA PlacesAccept == Types /\ Turns /\ Places /\ Accept => Places'
<1> SUFFICES ASSUME Types, Turns, Places, Accept PROVE Places'
  OBVIOUS
<1> DEFINE n == accepted + 1
<1>1. n \in Nat \ {0} /\ next = Owner(n) /\ accepted' = n /\ next \in Workers
  BY DEF Types, Turns, Accept, MainAt
<1>2. n \notin closed /\ \A w \in Workers : n \notin Queued(queue[w]) \cup sessions[w]
  BY <1>1 DEF Types, Places
<1>3. /\ Queued(queue'[next]) = Queued(queue[next]) \cup {n} /\ Distinct(queue'[next])
      /\ \A w \in Workers \ {next} : queue'[w] = queue[w]
  BY <1>1, <1>2, Joined DEF Types, Places, Accept
<1>4. UNCHANGED <<sessions, events, closed>>
  BY DEF Accept, work
<1>5. \A fd \in 1 .. n : fd \in 1 .. accepted \/ fd = n
  BY <1>1 DEF Types
<1>6. \A fd \in 1 .. accepted : fd \in 1 .. n /\ fd # n /\ Owner(fd) \in Workers
  BY <1>1, OwnerIsWorker DEF Types
<1>7. n \in 1 .. n
  BY <1>1
<1> HIDE DEF n
<1>8. \A w \in Workers : Distinct(queue'[w])
  BY <1>3 DEF Places
<1>9. ASSUME NEW w \in Workers, NEW fd \in Queued(queue'[w]) \cup sessions'[w]
      PROVE  fd \in 1 .. accepted' /\ Owner(fd) = w /\ fd \notin closed'
  <2>1. CASE fd = n
    <3>1. w = next
      BY <1>2, <1>3, <1>4, <2>1 DEF Places
    <3> QED
      BY <1>1, <1>2, <1>4, <1>7, <2>1, <3>1
  <2>2. CASE fd # n
    <3>1. fd \in Queued(queue[w]) \cup sessions[w]
      BY <1>3, <1>4, <2>2
    <3> QED
      BY <1>1, <1>4, <1>6, <3>1 DEF Places
  <2> QED
    BY <2>1, <2>2
<1>10. \A w \in Workers :
         Queued(queue'[w]) \cap sessions'[w] = {} /\ events'[w] \subseteq sessions'[w]
  BY <1>2, <1>3, <1>4 DEF Places
<1>11. ASSUME NEW fd \in 1 .. accepted'
       PROVE  fd \in Queued(queue'[Owner(fd)]) \cup sessions'[Owner(fd)] \cup closed'
  <2>1. CASE fd = n
    BY <1>1, <1>3, <2>1
  <2>2. CASE fd \in 1 .. accepted
    <3>1. Owner(fd) \in Workers
      BY <1>6, <2>2
    <3>2. Queued(queue[Owner(fd)]) \subseteq Queued(queue'[Owner(fd)])
      BY <1>3, <3>1
    <3> QED
      BY <1>4, <2>2, <3>2 DEF Places
  <2> QED
    BY <1>1, <1>5, <2>1, <2>2
<1>12. closed' \subseteq 1 .. accepted'
  BY <1>1, <1>4, <1>6 DEF Places
<1> QED
  BY <1>8, <1>9, <1>10, <1>11, <1>12 DEF Places

LEMMA PlacesTake == ASSUME NEW w \in Workers PROVE Types /\ Places /\ Take(w) => Places'
<1> SUFFICES ASSUME Types, Places, Take(w) PROVE Places'
  OBVIOUS
<1> DEFINE n == Head(queue[w])
<1>1. /\ n \in Queued(queue[w]) /\ Queued(queue'[w]) = Queued(queue[w]) \ {n}
      /\ Distinct(queue'[w]) /\ \A v \in Workers \ {w} : queue'[v] = queue[v]
  BY Left DEF Types, Places, Take, Accepting
<1>2. n \in 1 .. accepted /\ Owner(n) = w /\ n \notin closed /\ n \notin sessions[w]
  BY <1>1 DEF Places
<1>3. accepted' = accepted /\ events' = events
  BY DEF Take, Admit, main
<1>4. \/ sessions'[w] = sessions[w] \cup {n} /\ closed' = closed
      \/ sessions'[w] = sessions[w] /\ closed' = closed \cup {n}
  BY DEF Types, Take, Admit
<1>5. \A v \in Workers \ {w} : sessions'[v] = sessions[v]
  BY DEF Types, Take, Admit
<1>6. \A fd \in 1 .. accepted : Owner(fd) \in Workers
  BY OwnerIsWorker DEF Types
<1> HIDE DEF n
<1>7. \A v \in Workers : Distinct(queue'[v])
  BY <1>1 DEF Places
<1>8. ASSUME NEW v \in Workers, NEW fd \in Queued(queue'[v]) \cup sessions'[v]
      PROVE  fd \in 1 .. accepted' /\ Owner(fd) = v /\ fd \notin closed'
  <2>1. CASE fd = n
    <3>1. v = w
      BY <1>1, <1>2, <1>5, <2>1 DEF Places
    <3>2. fd \in sessions'[w]
      BY <1>1, <2>1, <3>1
    <3> QED
      BY <1>2, <1>3, <1>4, <2>1, <3>1, <3>2
  <2>2. CASE fd # n
    <3>1. fd \in Queued(queue[v]) \cup sessions[v]
      BY <1>1, <1>4, <1>5, <2>2
    <3>2. fd \in 1 .. accepted /\ Owner(fd) = v /\ fd \notin closed
      BY <3>1 DEF Places
    <3> QED
      BY <1>3, <1>4, <2>2, <3>2
  <2> QED
    BY <2>1, <2>2
<1>9. \A v \in Workers :
        Queued(queue'[v]) \cap sessions'[v] = {} /\ events'[v] \subseteq sessions'[v]
  BY <1>1, <1>2, <1>3, <1>4, <1>5 DEF Places
<1>10. ASSUME NEW fd \in 1 .. accepted'
       PROVE  fd \in Queued(queue'[Owner(fd)]) \cup sessions'[Owner(fd)] \cup closed'
  <2>1. fd \in 1 .. accepted /\ Owner(fd) \in Workers
    BY <1>3, <1>6
  <2>2. fd \in Queued(queue[Owner(fd)]) \cup sessions[Owner(fd)] \cup closed
    BY <2>1 DEF Places
  <2>3. closed \subseteq closed'
    BY <1>4
  <2>4. CASE Owner(fd) = w
    <3>1. fd = n => fd \in sessions'[w] \cup closed'
      BY <1>4
    <3>2. fd # n => fd \in Queued(queue'[w]) \cup sessions'[w] \cup closed'
      BY <1>1, <1>4, <2>2, <2>3, <2>4
    <3> QED
      BY <2>4, <3>1, <3>2
  <2>5. CASE Owner(fd) # w
    <3>1. queue'[Owner(fd)] = queue[Owner(fd)] /\ sessions'[Owner(fd)] = sessions[Owner(fd)]
      BY <1>1, <1>5, <2>1, <2>5
    <3> QED
      BY <2>2, <2>3, <3>1
  <2> QED
    BY <2>4, <2>5
<1>11. closed' \subseteq 1 .. accepted'
  BY <1>2, <1>3, <1>4 DEF Places
<1> QED
  BY <1>7, <1>8, <1>9, <1>10, <1>11 DEF Places

\* Sessions of one worker that are closed, one or all of them.
LEMMA PlacesClose ==
  ASSUME NEW w \in Workers, NEW gones \in SUBSET sessions[w], Types, Places,
         sessions' = [sessions EXCEPT ![w] = @ \ gones],
         events' = [events EXCEPT ![w] = @ \ gones],
         closed' = closed \cup gones, UNCHANGED <<queue, accepted>>
  PROVE  Places'
<1>1. /\ sessions'[w] = sessions[w] \ gones /\ events'[w] = events[w] \ gones
      /\ \A v \in Workers \ {w} : sessions'[v] = sessions[v] /\ events'[v] = events[v]
  BY DEF Types
<1>2. \A fd \in 1 .. accepted : Owner(fd) \in Workers
  BY OwnerIsWorker DEF Types
<1>3. ASSUME NEW v \in Workers, NEW fd \in Queued(queue[v]) \cup sessions'[v]
      PROVE  fd \in 1 .. accepted /\ Owner(fd) = v /\ fd \notin closed'
  <2>1. fd \in Queued(queue[v]) \cup sessions[v]
    BY <1>1
  <2>2. fd \in 1 .. accepted /\ Owner(fd) = v /\ fd \notin closed
    BY <2>1 DEF Places
  <2>3. fd \notin gones
    <3>1. ASSUME fd \in gones PROVE FALSE
      <4>1. fd \in sessions[w] /\ v = w
        BY <2>2, <3>1 DEF Places
      <4>2. fd \notin Queued(queue[w]) /\ fd \notin sessions'[w]
        BY <1>1, <3>1, <4>1 DEF Places
      <4> QED
        BY <4>1, <4>2
    <3> QED
      BY <3>1
  <2> QED
    BY <2>2, <2>3
<1>4. \A v \in Workers :
        Queued(queue[v]) \cap sessions'[v] = {} /\ events'[v] \subseteq sessions'[v]
  BY <1>1 DEF Places
<1>5. \A fd \in 1 .. accepted :
        fd \in Queued(queue[Owner(fd)]) \cup sessions'[Owner(fd)] \cup closed'
  BY <1>1, <1>2 DEF Places
<1>6. closed' \subseteq 1 .. accepted
  BY DEF Places
<1> QED
  BY <1>3, <1>4, <1>5, <1>6 DEF Places

LEMMA PlacesStep == Types /\ Turns /\ Places /\ [Next]_vars => Places'
<1> SUFFICES ASSUME Types, Turns, Places, [Next]_vars PROVE Places'
  OBVIOUS
<1> USE DEF main, shared, work
<1>1. CASE Main
  <2>1. CASE Accept
    BY <2>1, PlacesAccept
  <2>2. CASE Destroy /\ events[mi] = {}
    <3>1. mi \in Workers /\ sessions[mi] \in SUBSET sessions[mi]
      BY DEF Types
    <3>2. /\ sessions' = [sessions EXCEPT ![mi] = @ \ sessions[mi]]
          /\ events' = [events EXCEPT ![mi] = @ \ sessions[mi]]
      BY <2>2, <3>1 DEF Types, Destroy
    <3>3. closed' = closed \cup sessions[mi] /\ UNCHANGED <<queue, accepted>>
      BY <2>2 DEF Destroy
    <3> QED
      BY <3>1, <3>2, <3>3, PlacesClose
  <2>3. CASE Destroy /\ events[mi] # {}
    BY <2>3, PlacesKept DEF Destroy
  <2> QED
    BY <1>1, <2>1, <2>2, <2>3, PlacesKept
       DEF Main, Connect, Listen, Spawn, Enter, Wake, Timeout, Cancel, Join
<1>2. ASSUME NEW w \in Workers, Thread(w) PROVE Places'
  <2>1. CASE Take(w)
    BY <2>1, PlacesTake
  <2>2. ASSUME NEW fd \in sessions[w], OpenEvents(w, fd) PROVE Places'
    <3>1. UNCHANGED <<queue, sessions, closed, accepted>>
      BY <2>2 DEF OpenEvents, get_worker
    <3>2. \A v \in Workers : events'[v] \subseteq sessions[v]
      BY <2>2 DEF Types, OpenEvents, Places
    <3> QED
      BY <3>1, <3>2 DEF Places
  <2>3. ASSUME NEW fd \in sessions[w], CloseSession(w, fd) PROVE Places'
    BY <2>3, PlacesClose DEF CloseSession
  <2>4. ASSUME NEW fd \in sessions[w], Query(w, fd) PROVE Places'
    BY <2>4, PlacesKept DEF Query
  <2> QED
    BY <1>2, <2>1, <2>2, <2>3, <2>4, PlacesKept
       DEF Thread, AcceptWakes, Drained, CancelWakes, LoopEnds, DbLost, Notified, get_worker
<1>3. CASE UNCHANGED vars
  BY <1>3, PlacesKept DEF vars
<1> QED
  BY <1>1, <1>2, <1>3 DEF Next

\* server.cc:117-120 and worker.cc:111-147: every accepted socket goes to the worker whose
\* turn it is and is in one place there, for any number of workers and sockets.
THEOREM SocketsServedOnce == Spec => []ServedOnce
<1>1. Types /\ Places => ServedOnce
  <2> SUFFICES ASSUME Types, Places PROVE ServedOnce
    OBVIOUS
  <2>1. ASSUME NEW fd \in 1 .. accepted PROVE InOnePlace(fd)
    <3>1. Owner(fd) \in Workers
      BY OwnerIsWorker DEF Types
    <3>2. Waits(fd) <=> fd \in Queued(queue[Owner(fd)])
      BY DEF Waits, Queued
    <3> QED
      BY <3>1, <3>2 DEF Places, InOnePlace
  <2> QED
    BY <2>1 DEF Places, ServedOnce
<1>2. Types /\ Turns /\ Places /\ [Next]_vars => Places'
  BY PlacesStep
<1> QED
  BY <1>1, <1>2, PlacesInit, TypesHold, TurnsHold, PTL DEF Spec
=============================================================================
