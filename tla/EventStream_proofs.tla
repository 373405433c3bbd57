-------------------------- MODULE EventStream_proofs --------------------------
(***************************************************************************)
(* What the event streams of a worker promise, for any number of streams,    *)
(* channels and events, and whatever lengths events have.                    *)
(***************************************************************************)
EXTENDS EventStream, SequenceTheorems, FiniteSetTheorems, WellFoundedInduction, TLAPS

USE EventAssumption

\* What the variables hold.
Slots == Seq(Addresses \cup {NoStream})
Flags ==
  /\ paused \in [Addresses -> BOOLEAN] /\ deferred \in [Addresses -> BOOLEAN]
  /\ open \in [Addresses -> BOOLEAN] /\ writing \in BOOLEAN /\ threw \in BOOLEAN
Places ==
  /\ registry \in [Channels -> Slots] /\ live \subseteq Addresses
  /\ frame \in [stream : Addresses \cup {NoStream}, len : Nat]
  /\ log \in Seq(Channels \cup Addresses) /\ Len(log) <= MaxEvents
Contents ==
  /\ queue \in [Addresses -> Seq(Nat)] /\ out \in [Addresses -> Seq(Nat)]
  /\ pos \in [Addresses -> 0 .. Length - 1] /\ wire \in [Addresses -> Nat]

\* A channel is subscribed to from the next event on, or not at all.
Dates ==
  /\ since = [e \in Addresses |-> since[e]]
  /\ \A e \in Addresses :
       /\ since[e] = [c \in Channels \cup {e} |-> since[e][c]]
       /\ \A c \in Channels \cup {e} : since[e][c] \in 0 .. Len(log) + 1 \cup {Never}
  /\ \A e \in live : since[e][e] # Never

\* An address that holds no stream is as one that never held any.
Vacant ==
  \A e \in Addresses \ live :
    /\ queue[e] = <<>> /\ out[e] = <<>> /\ pos[e] = 0 /\ wire[e] = 0
    /\ ~paused[e] /\ ~deferred[e]
    /\ \A c \in Channels \cup {e} : since[e][c] = Never

\* Between events pos_ is 0, and a stream that nghttp2 may ask is written.
Buffers ==
  /\ \A e \in Addresses : /\ paused[e] = deferred[e] /\ (paused[e] => queue[e] = <<>>)
                          /\ queue[e] = <<>> => pos[e] = 0
                          /\ wire[e] = pos[e]
  /\ ~threw => \A e \in live : ~deferred[e] /\ open[e] => writing

\* The frame under way has its bytes in the first event of a stream.
Backed ==
  frame # NoFrame => /\ frame.stream \in live /\ queue[frame.stream] # <<>>
                     /\ pos[frame.stream] + frame.len <= Length

EventInv ==
  /\ Flags /\ Places /\ Contents /\ Dates /\ Vacant /\ Buffers
  /\ Backed /\ RegistryIsLive /\ ExactlyOnceInOrder

-----------------------------------------------------------------------------
(* Sequences of events *)

LEMMA ToSetOf == ASSUME NEW S, NEW s \in Seq(S) PROVE ToSet(s) = {s[i] : i \in 1 .. Len(s)}
  BY LenProperties DEF ToSet

LEMMA ToSetAppend ==
  ASSUME NEW S, NEW s \in Seq(S), NEW k \in S
  PROVE  ToSet(Append(s, k)) = ToSet(s) \cup {k}
<1>1. /\ Append(s, k) \in Seq(S) /\ Len(Append(s, k)) = Len(s) + 1 /\ Len(s) \in Nat
      /\ \A i \in 1 .. Len(s) : Append(s, k)[i] = s[i]
      /\ Append(s, k)[Len(s) + 1] = k
  BY AppendProperties, LenProperties
<1>2. 1 .. Len(s) + 1 = 1 .. Len(s) \cup {Len(s) + 1}
  BY <1>1
<1>3. ToSet(s) = {s[i] : i \in 1 .. Len(s)}
  BY ToSetOf
<1>4. ToSet(Append(s, k)) = {Append(s, k)[i] : i \in 1 .. Len(s) + 1}
  BY <1>1, ToSetOf
<1> QED
  BY <1>1, <1>2, <1>3, <1>4

LEMMA AppendFacts ==
  \A q \in Seq(Nat), k \in Nat :
    /\ Append(q, k) \in Seq(Nat) /\ Append(q, k) # <<>> /\ Append(q, k) = q \o <<k>>
    /\ <<k>> \in Seq(Nat)
<1> TAKE q \in Seq(Nat), k \in Nat
<1>1. Append(q, k) \in Seq(Nat) /\ Append(q, k) # <<>>
  BY AppendProperties
<1>2. Append(q, k) = q \o <<k>>
  BY AppendIsConcat
<1> QED
  BY <1>1, <1>2

LEMMA ConcatFacts ==
  \A s, q, r \in Seq(Nat) : s \o q \in Seq(Nat) /\ (s \o q) \o r = s \o (q \o r)
<1> TAKE s, q, r \in Seq(Nat)
<1>1. s \o q \in Seq(Nat)
  BY ConcatProperties
<1>2. (s \o q) \o r = s \o (q \o r)
  BY ConcatAssociative
<1> QED
  BY <1>1, <1>2, Zenon

\* Adding to the second of two sequences adds to both together.
LEMMA ConcatAppend ==
  ASSUME NEW s \in Seq(Nat), NEW q \in Seq(Nat), NEW k \in Nat
  PROVE  s \o Append(q, k) = Append(s \o q, k)
<1>1. <<k>> \in Seq(Nat) /\ s \o q \in Seq(Nat) /\ Append(q, k) = q \o <<k>>
  BY AppendFacts, ConcatFacts, Zenon
<1>2. Append(s \o q, k) = (s \o q) \o <<k>>
  BY <1>1, AppendFacts, Zenon
<1>3. (s \o q) \o <<k>> = s \o (q \o <<k>>)
  BY <1>1, ConcatFacts, ZenonT(60)
<1> QED
  BY <1>1, <1>2, <1>3, Zenon

\* So does moving the head of the second to the first.
LEMMA ConcatMove ==
  ASSUME NEW s \in Seq(Nat), NEW q \in Seq(Nat), q # <<>>
  PROVE  Append(s, Head(q)) \o Tail(q) = s \o q
<1>1. Head(q) \in Nat /\ Tail(q) \in Seq(Nat)
  BY HeadTailProperties
<1>2. Append(s, Head(q)) = s \o <<Head(q)>> /\ <<Head(q)>> \in Seq(Nat)
  BY <1>1, AppendFacts, Zenon
<1>3. (s \o <<Head(q)>>) \o Tail(q) = s \o (<<Head(q)>> \o Tail(q))
  BY <1>1, <1>2, ConcatFacts, ZenonT(60)
<1>4. <<Head(q)>> \o Tail(q) = q
  <2>1. /\ Len(q) \in Nat \ {0} /\ Len(Tail(q)) = Len(q) - 1 /\ Head(q) = q[1]
        /\ \A i \in 1 .. Len(q) - 1 : Tail(q)[i] = q[i + 1]
    BY HeadTailProperties, EmptySeq
  <2> DEFINE r == <<Head(q)>> \o Tail(q)
  <2>2. /\ r \in Seq(Nat) /\ Len(r) = 1 + Len(Tail(q))
        /\ \A i \in 1 .. 1 + Len(Tail(q)) :
             r[i] = IF i <= 1 THEN <<Head(q)>>[i] ELSE Tail(q)[i - 1]
    BY <1>1, ConcatProperties
  <2> HIDE DEF r
  <2>3. ASSUME NEW i \in 1 .. Len(r) PROVE r[i] = q[i]
    <3>1. CASE i = 1
      BY <2>1, <2>2, <3>1
    <3>2. CASE i # 1
      <4>1. i - 1 \in 1 .. Len(q) - 1 /\ r[i] = Tail(q)[i - 1]
        BY <2>1, <2>2, <3>2
      <4> QED
        BY <2>1, <4>1
    <3> QED
      BY <3>1, <3>2
  <2>4. Len(r) = Len(q)
    BY <2>1, <2>2
  <2> QED
    BY <2>2, <2>3, <2>4, SeqEqual DEF r
<1> QED
  BY <1>2, <1>3, <1>4, Zenon

Increasing(s) == \A i, j \in DOMAIN s : i < j => s[i] < s[j]

LEMMA IncreasingAppend ==
  ASSUME NEW s \in Seq(Nat), NEW k \in Nat, Increasing(s), \A x \in ToSet(s) : x < k
  PROVE  Increasing(Append(s, k))
<1>1. /\ Append(s, k) \in Seq(Nat) /\ Len(Append(s, k)) = Len(s) + 1 /\ Len(s) \in Nat
      /\ \A i \in 1 .. Len(s) : Append(s, k)[i] = s[i]
      /\ Append(s, k)[Len(s) + 1] = k
  BY AppendProperties, LenProperties
<1>2. DOMAIN s = 1 .. Len(s) /\ DOMAIN Append(s, k) = 1 .. Len(s) + 1
  BY <1>1, LenProperties
<1>3. ASSUME NEW i \in 1 .. Len(s) + 1, NEW j \in 1 .. Len(s) + 1, i < j
      PROVE  Append(s, k)[i] < Append(s, k)[j]
  <2>1. i \in 1 .. Len(s) /\ Append(s, k)[i] = s[i] /\ s[i] \in ToSet(s)
    BY <1>1, <1>3, ToSetOf
  <2>2. CASE j \in 1 .. Len(s)
    BY <1>1, <1>2, <1>3, <2>1, <2>2 DEF Increasing
  <2>3. CASE j = Len(s) + 1
    BY <1>1, <2>1, <2>3
  <2> QED
    BY <1>1, <2>2, <2>3
<1> QED
  BY <1>2, <1>3 DEF Increasing

-----------------------------------------------------------------------------
(* Slots *)

\* No stream is in two slots.
Unique(slots) == \A i, j \in DOMAIN slots : slots[i] = slots[j] /\ i # j => slots[i] = NoStream

\* A stream gets one copy of an event if it is in a slot, and else none.
LEMMA OneCopy ==
  ASSUME NEW slots \in Slots, Unique(slots), NEW e \in Addresses
  PROVE  Copies(slots, e) = IF e \in ToSet(slots) THEN <<Len(log) + 1>> ELSE <<>>
<1> DEFINE I == {i \in DOMAIN slots : slots[i] = e}
<1>1. CASE e \in ToSet(slots)
  <2>1. PICK i \in DOMAIN slots : slots[i] = e
    BY <1>1 DEF ToSet
  <2>2. I = {i}
    BY <2>1 DEF Unique
  <2>3. Cardinality(I) = 1
    BY <2>2, FS_Singleton
  <2>4. Copies(slots, e) = [k \in 1 .. 1 |-> Len(log) + 1]
    BY <2>3 DEF Copies
  <2> QED
    BY <1>1, <2>4
<1>2. CASE e \notin ToSet(slots)
  <2>1. I = {}
    BY <1>2 DEF ToSet
  <2>2. Cardinality(I) = 0
    BY <2>1, FS_EmptySet
  <2>3. Copies(slots, e) = [k \in 1 .. 0 |-> Len(log) + 1]
    BY <2>2 DEF Copies
  <2> QED
    BY <1>2, <2>3
<1> QED
  BY <1>1, <1>2

LEMMA LeastOf == ASSUME NEW N \in SUBSET Nat, N # {} PROVE \E i \in N : \A j \in N : i <= j
<1> DEFINE Less == {ss \in Nat \X Nat : ss[1] < ss[2]}
<1>1. IsWellFoundedOn(Less, Nat)
  BY NatLessThanWellFounded DEF OpToRel
<1>2. PICK i \in N : \A j \in N : <<j, i>> \notin Less
  <2> HIDE DEF Less
  <2> QED
    BY <1>1, WFMin
<1>3. \A j \in N : ~(j < i)
  BY <1>2
<1> QED
  BY <1>3

\* suscribe puts a stream that is in no slot into one slot and leaves the others.
LEMMA SlotTaken ==
  ASSUME NEW slots \in Slots, Unique(slots), NEW e \in Addresses, e \notin ToSet(slots)
  PROVE  /\ IntoSlot(slots, e) \in Slots /\ Unique(IntoSlot(slots, e))
         /\ ToSet(IntoSlot(slots, e)) \ {NoStream} = (ToSet(slots) \ {NoStream}) \cup {e}
<1> DEFINE S == Addresses \cup {NoStream}
<1>0. slots \in Seq(S) /\ e \in S /\ DOMAIN slots = 1 .. Len(slots) /\ Len(slots) \in Nat
  BY LenProperties DEF Slots
<1>1. CASE \E i \in DOMAIN slots : slots[i] = NoStream
  <2> DEFINE First(i) == slots[i] = NoStream /\ \A j \in 1 .. i - 1 : slots[j] # NoStream
             k == CHOOSE i \in DOMAIN slots : First(i)
             new == [slots EXCEPT ![k] = e]
  <2>1. \E i \in DOMAIN slots : First(i)
    <3> DEFINE N == {i \in DOMAIN slots : slots[i] = NoStream}
    <3>1. N # {} /\ N \subseteq Nat
      BY <1>0, <1>1
    <3>2. PICK i \in N : \A j \in N : i <= j
      BY <3>1, LeastOf
    <3> QED
      BY <1>0, <3>2
  <2>2. k \in DOMAIN slots /\ slots[k] = NoStream
    BY <2>1
  <2>3. IntoSlot(slots, e) = new
    BY <1>1 DEF IntoSlot
  <2> HIDE DEF k
  <2>4. /\ new \in Seq(S) /\ DOMAIN new = DOMAIN slots /\ new[k] = e
        /\ \A i \in DOMAIN slots \ {k} : new[i] = slots[i]
    BY <1>0, <2>2, ExceptSeq
  <2> HIDE DEF new
  <2>5. \A i \in DOMAIN slots : slots[i] # e
    BY DEF ToSet
  <2>6. Unique(new)
    BY <2>2, <2>4, <2>5 DEF Unique
  <2>7. ToSet(new) \ {NoStream} = (ToSet(slots) \ {NoStream}) \cup {e}
    BY <2>2, <2>4 DEF ToSet
  <2> QED
    BY <2>3, <2>4, <2>6, <2>7 DEF Slots
<1>2. CASE ~ \E i \in DOMAIN slots : slots[i] = NoStream
  <2> DEFINE new == Append(slots, e)
  <2>1. IntoSlot(slots, e) = new
    BY <1>2 DEF IntoSlot
  <2>2. /\ new \in Seq(S) /\ DOMAIN new = 1 .. Len(slots) + 1 /\ new[Len(slots) + 1] = e
        /\ \A i \in 1 .. Len(slots) : new[i] = slots[i]
    <3>1. /\ new \in Seq(S) /\ Len(new) = Len(slots) + 1 /\ new[Len(slots) + 1] = e
          /\ \A i \in 1 .. Len(slots) : new[i] = slots[i]
      BY <1>0, AppendProperties
    <3> QED
      BY <3>1, LenProperties
  <2>3. ToSet(new) = ToSet(slots) \cup {e}
    BY <1>0, ToSetAppend
  <2> HIDE DEF new
  <2>4. \A i \in DOMAIN slots : slots[i] # e
    BY DEF ToSet
  <2>5. Unique(new)
    BY <1>0, <2>2, <2>4 DEF Unique
  <2> QED
    BY <2>1, <2>2, <2>3, <2>5 DEF Slots
<1> QED
  BY <1>1, <1>2

-----------------------------------------------------------------------------
(* The first state, and events submitted *)

LEMMA LengthType == Length \in Nat /\ Length >= 3 /\ Never \in Nat /\ Never = MaxEvents + 2
  BY DEF Length, Never

LEMMA EventInit == Init => EventInv
<1> SUFFICES ASSUME Init PROVE EventInv
  OBVIOUS
<1>1. Flags
  BY DEF Init, Flags
<1>0. Places
  <2>1. <<>> \in Slots /\ <<>> \in Seq(Channels \cup Addresses) /\ Len(<<>>) <= MaxEvents
    BY EmptySeq DEF Slots
  <2>2. frame \in [stream : Addresses \cup {NoStream}, len : Nat]
    BY DEF Init, NoFrame
  <2>3. registry \in [Channels -> Slots]
    BY <2>1 DEF Init
  <2> QED
    BY <2>1, <2>2, <2>3 DEF Init, Places
<1>2. Contents /\ Dates
  BY LengthType, EmptySeq DEF Init, Contents, Dates
<1>3. Vacant /\ Buffers
  BY DEF Init, Vacant, Buffers
<1>4. Backed /\ ExactlyOnceInOrder
  BY DEF Init, Backed, ExactlyOnceInOrder
<1>5. RegistryIsLive
  BY DEF Init, RegistryIsLive, ToSet
<1> QED
  BY <1>0, <1>1, <1>2, <1>3, <1>4, <1>5 DEF EventInv

\* What a stream is due it has, in order.
Served(e) == ToSet(Accepted(e)) = Due(e) /\ Increasing(Accepted(e))

LEMMA ServedAll == ExactlyOnceInOrder <=> \A e \in live : Served(e)
  BY DEF ExactlyOnceInOrder, Served, Increasing

LEMMA DueType ==
  ASSUME EventInv, NEW e \in Addresses
  PROVE  /\ Accepted(e) \in Seq(Nat) /\ DOMAIN since[e] = Channels \cup {e}
         /\ DOMAIN log = 1 .. Len(log) /\ Len(log) \in Nat /\ Len(log) <= MaxEvents
         /\ Due(e) \subseteq 1 .. Len(log)
         /\ \A c \in Channels \cup {e} : since[e][c] \in 0 .. Len(log) + 1 \/ since[e][c] = Never
<1>1. queue[e] \in Seq(Nat) /\ out[e] \in Seq(Nat)
  BY DEF EventInv, Contents
<1>2. log \in Seq(Channels \cup Addresses) /\ Len(log) <= MaxEvents
  BY DEF EventInv, Places
<1>3. /\ since[e] = [c \in Channels \cup {e} |-> since[e][c]]
      /\ \A c \in Channels \cup {e} : since[e][c] \in 0 .. Len(log) + 1 \cup {Never}
  BY DEF EventInv, Dates
<1> QED
  BY <1>1, <1>2, <1>3, ConcatProperties, LenProperties DEF Accepted, Due

\* An event is submitted on the streams that are due it: each gets it once.
LEMMA SubmitKeeps ==
  ASSUME EventInv, NEW topic \in Channels \cup Addresses, NEW slots \in Slots, Unique(slots),
         \A e \in Addresses :
           e \in ToSet(slots) <=> e \in live /\ topic \in Channels \cup {e} /\ since[e][topic] # Never,
         Submit(slots), log' = Append(log, topic), Len(log) < MaxEvents,
         UNCHANGED <<dispatcher, open, frame, threw, since, out, wire>>
  PROVE  EventInv'
<1> DEFINE n == Len(log) + 1
           T == ToSet(slots)
<1>1. /\ log \in Seq(Channels \cup Addresses) /\ log' \in Seq(Channels \cup Addresses)
      /\ Len(log) \in Nat /\ n \in Nat /\ Len(log') = n /\ n <= MaxEvents
      /\ \A i \in 1 .. Len(log) : log'[i] = log[i]
      /\ log'[n] = topic
  BY AppendProperties, LenProperties DEF EventInv, Places
<1>2. UNCHANGED <<registry, live, open, frame, threw, since, out, wire>>
  BY DEF dispatcher
<1>3. ASSUME NEW e \in Addresses
      PROVE  queue'[e] = IF e \in T THEN Append(queue[e], n) ELSE queue[e]
  <2>1. queue'[e] = queue[e] \o Copies(slots, e) /\ queue[e] \in Seq(Nat)
    BY DEF Submit, EventInv, Contents
  <2>2. Copies(slots, e) = IF e \in T THEN <<n>> ELSE <<>>
    BY OneCopy
  <2>3. Append(queue[e], n) = queue[e] \o <<n>> /\ queue[e] \o <<>> = queue[e]
    BY <1>1, <2>1, AppendIsConcat, ConcatEmptySeq
  <2> QED
    BY <2>1, <2>2, <2>3
<1> HIDE DEF T, n
<1>4. ASSUME NEW e \in Addresses
      PROVE  /\ pos'[e] = pos[e] /\ (paused'[e] <=> paused[e] /\ e \notin T)
             /\ (deferred'[e] <=> deferred[e] /\ e \notin T)
  <2>1. /\ paused[e] = deferred[e] /\ (paused[e] => queue[e] = <<>>)
        /\ (queue[e] = <<>> => pos[e] = 0)
    BY DEF EventInv, Buffers
  <2> DEFINE W == {x \in ToSet(slots) \ {NoStream} : paused[x]}
  <2>2. e \in W <=> e \in T /\ paused[e]
    BY DEF T
  <2>3. /\ pos'[e] = IF e \in W THEN 0 ELSE pos[e]
        /\ paused'[e] = (paused[e] /\ e \notin W)
        /\ deferred'[e] = (deferred[e] /\ e \notin W)
    BY DEF Submit
  <2> HIDE DEF W
  <2> QED
    BY <2>1, <2>2, <2>3, Zenon
<1>5. Flags'
  <2>1. Flags /\ writing' \in BOOLEAN
    BY DEF EventInv, Submit
  <2>2. paused' \in [Addresses -> BOOLEAN] /\ deferred' \in [Addresses -> BOOLEAN]
    BY DEF Submit
  <2> QED
    BY <1>2, <2>1, <2>2, Zenon DEF Flags
<1>6. Places'
  BY <1>1, <1>2 DEF EventInv, Places
<1>7. Contents'
  <2>1. ASSUME NEW e \in Addresses PROVE queue'[e] \in Seq(Nat) /\ pos'[e] \in 0 .. Length - 1
    <3>1. queue[e] \in Seq(Nat) /\ pos[e] \in 0 .. Length - 1
      BY DEF EventInv, Contents
    <3>2. Append(queue[e], n) \in Seq(Nat)
      BY <1>1, <3>1, AppendFacts, Zenon
    <3> QED
      BY <1>3, <1>4, <3>1, <3>2
  <2>2. /\ queue' = [e \in Addresses |-> queue'[e]] /\ pos' = [e \in Addresses |-> pos'[e]]
    BY DEF Submit
  <2> QED
    BY <1>2, <2>1, <2>2 DEF EventInv, Contents
<1>8. Dates'
  <2>1. 0 .. Len(log) + 1 \subseteq 0 .. Len(log') + 1
    BY <1>1 DEF n
  <2>2. ASSUME NEW e \in Addresses, NEW c \in Channels \cup {e}
        PROVE  since[e][c] \in 0 .. Len(log') + 1 \cup {Never}
    BY <2>1 DEF EventInv, Dates
  <2>3. /\ since = [e \in Addresses |-> since[e]]
        /\ \A e \in Addresses : since[e] = [c \in Channels \cup {e} |-> since[e][c]]
        /\ \A e \in live : since[e][e] # Never
    BY DEF EventInv, Dates
  <2>4. since' = since /\ live' = live
    BY <1>2
  <2>5. /\ since' = [e \in Addresses |-> since'[e]]
        /\ \A e \in Addresses : since'[e] = [c \in Channels \cup {e} |-> since'[e][c]]
        /\ \A e \in live' : since'[e][e] # Never
    BY <2>3, <2>4
  <2>6. \A e \in Addresses : \A c \in Channels \cup {e} :
          since'[e][c] \in 0 .. Len(log') + 1 \cup {Never}
    BY <2>2, <2>4
  <2> QED
    BY <2>5, <2>6, Zenon DEF Dates, Never
<1>9. Vacant'
  BY <1>2, <1>3, <1>4 DEF EventInv, Vacant, T
<1>10. Buffers'
  <2>1. ASSUME NEW e \in Addresses
        PROVE  /\ paused'[e] = deferred'[e] /\ (paused'[e] => queue'[e] = <<>>)
               /\ queue'[e] = <<>> => pos'[e] = 0
               /\ wire'[e] = pos'[e]
    <3>1. /\ paused[e] = deferred[e] /\ (paused[e] => queue[e] = <<>>)
          /\ (queue[e] = <<>> => pos[e] = 0) /\ wire[e] = pos[e] /\ queue[e] \in Seq(Nat)
      BY DEF EventInv, Buffers, Contents
    <3>2. Append(queue[e], n) # <<>>
      BY <1>1, <3>1, AppendFacts, Zenon
    <3>3. /\ paused'[e] \in BOOLEAN /\ deferred'[e] \in BOOLEAN
          /\ paused[e] \in BOOLEAN /\ deferred[e] \in BOOLEAN
      BY <1>5 DEF EventInv, Flags
    <3> QED
      BY <1>2, <1>3, <1>4, <3>1, <3>2, <3>3
  <2>2. ASSUME ~threw', NEW e \in live', ~deferred'[e], open'[e] PROVE writing'
    <3>1. e \in Addresses /\ e \in live /\ ~threw /\ open[e]
      BY <1>2, <2>2 DEF EventInv, Places
    <3>2. CASE deferred[e]
      <4>1. e \in T /\ paused[e]
        BY <1>4, <2>2, <3>1, <3>2, Zenon DEF EventInv, Buffers
      <4>2. e \in {x \in ToSet(slots) \ {NoStream} : paused[x]}
        BY <3>1, <4>1 DEF T
      <4> QED
        BY <4>2 DEF Submit
    <3>3. CASE ~deferred[e]
      <4>1. writing
        BY <3>1, <3>3 DEF EventInv, Buffers
      <4> QED
        BY <4>1 DEF Submit
    <3> QED
      BY <3>2, <3>3
  <2> QED
    BY <2>1, <2>2 DEF Buffers
<1>11. Backed'
  <2>1. ASSUME frame # NoFrame
        PROVE  /\ frame.stream \in live /\ queue'[frame.stream] # <<>>
               /\ pos'[frame.stream] + frame.len <= Length
    <3>1. /\ frame.stream \in Addresses /\ frame.stream \in live /\ queue[frame.stream] # <<>>
          /\ pos[frame.stream] + frame.len <= Length
      BY <2>1 DEF EventInv, Backed, Places
    <3>2. queue[frame.stream] \in Seq(Nat)
      BY <3>1 DEF EventInv, Contents
    <3>3. Append(queue[frame.stream], n) # <<>>
      BY <1>1, <3>2, AppendFacts, Zenon
    <3> QED
      BY <1>3, <1>4, <3>1, <3>3
  <2> QED
    BY <1>2, <2>1 DEF Backed, NoFrame
<1>12. RegistryIsLive'
  BY <1>2 DEF EventInv, RegistryIsLive
<1>13. ASSUME NEW e \in live PROVE Served(e)'
  <2>1. /\ e \in Addresses /\ Accepted(e) \in Seq(Nat) /\ DOMAIN since[e] = Channels \cup {e}
        /\ Due(e) \subseteq 1 .. Len(log) /\ DOMAIN log = 1 .. Len(log)
        /\ \A c \in Channels \cup {e} : since[e][c] \in 0 .. n \/ since[e][c] = Never
    BY DueType DEF EventInv, Places, n
  <2>2. Served(e)
    BY ServedAll DEF EventInv
  <2>3. DOMAIN log' = 1 .. n
    BY <1>1, LenProperties
  <2>4. n \in Due(e)' <=> e \in T
    <3>1. n \in Due(e)' <=> topic \in Channels \cup {e} /\ n >= since[e][topic]
      BY <1>1, <1>2, <2>1, <2>3 DEF Due
    <3>2. ASSUME topic \in Channels \cup {e} PROVE n >= since[e][topic] <=> since[e][topic] # Never
      BY <1>1, <2>1, <3>2, LengthType
    <3> QED
      BY <2>1, <3>1, <3>2 DEF T
  <2>5. ASSUME NEW i \in 1 .. Len(log) PROVE i \in Due(e)' <=> i \in Due(e)
    BY <1>1, <1>2, <2>1, <2>3 DEF Due, n
  <2>6. Due(e)' = IF e \in T THEN Due(e) \cup {n} ELSE Due(e)
    <3>1. Due(e)' \subseteq 1 .. n /\ 1 .. n = 1 .. Len(log) \cup {n}
      BY <1>1, <2>3 DEF Due, n
    <3> DEFINE D == Due(e)  E == Due(e)'
    <3>2. /\ E \subseteq 1 .. Len(log) \cup {n} /\ D \subseteq 1 .. Len(log)
          /\ (n \in E <=> e \in T) /\ \A i \in 1 .. Len(log) : i \in E <=> i \in D
      BY <2>1, <2>4, <2>5, <3>1
    <3>4. n \notin 1 .. Len(log)
      BY <1>1 DEF n
    <3> DEFINE L == 1 .. Len(log)
    <3> HIDE DEF D, E, L
    <3>3. E = IF e \in T THEN D \cup {n} ELSE D
      <4>1. /\ E \subseteq L \cup {n} /\ D \subseteq L /\ (n \in E <=> e \in T)
            /\ n \notin L /\ \A i \in L : i \in E <=> i \in D
        BY <3>2, <3>4 DEF L
      <4>2. CASE e \in T
        <5>1. \A i : i \in E <=> i \in D \cup {n}
          BY <4>1, <4>2
        <5> QED
          BY <4>2, <5>1
      <4>3. CASE e \notin T
        <5>1. \A i : i \in E <=> i \in D
          BY <4>1, <4>3
        <5> QED
          BY <4>3, <5>1
      <4> QED
        BY <4>2, <4>3
    <3> QED
      BY <3>3 DEF D, E
  <2>7. CASE e \in T
    <3>1. Accepted(e)' = Append(Accepted(e), n)
      <4>1. out[e] \in Seq(Nat) /\ queue[e] \in Seq(Nat)
        BY <2>1 DEF EventInv, Contents
      <4>2. out'[e] = out[e] /\ queue'[e] = Append(queue[e], n)
        BY <1>2, <1>3, <2>1, <2>7
      <4>3. out[e] \o Append(queue[e], n) = Append(out[e] \o queue[e], n)
        BY <1>1, <4>1, ConcatAppend
      <4> QED
        BY <4>2, <4>3 DEF Accepted
    <3>2. ToSet(Accepted(e)') = ToSet(Accepted(e)) \cup {n}
      <4>1. ToSet(Append(Accepted(e), n)) = ToSet(Accepted(e)) \cup {n}
        BY <1>1, <2>1, ToSetAppend
      <4> QED
        BY <3>1, <4>1
    <3>3. \A x \in ToSet(Accepted(e)) : x < n
      BY <1>1, <2>1, <2>2 DEF Served, n
    <3>4. Increasing(Accepted(e)')
      BY <1>1, <2>1, <2>2, <3>1, <3>3, IncreasingAppend DEF Served
    <3> QED
      BY <2>2, <2>6, <2>7, <3>2, <3>4 DEF Served
  <2>8. CASE e \notin T
    <3>1. Accepted(e)' = Accepted(e)
      BY <1>2, <1>3, <2>1, <2>8 DEF Accepted
    <3> QED
      BY <2>2, <2>6, <2>8, <3>1 DEF Served
  <2> QED
    BY <2>7, <2>8
<1>14. ExactlyOnceInOrder'
  BY <1>2, <1>13 DEF ExactlyOnceInOrder, Served, Increasing
<1> QED
  BY <1>5, <1>6, <1>7, <1>8, <1>9, <1>10, <1>11, <1>12, <1>14 DEF EventInv

-----------------------------------------------------------------------------
(* EventSource and EventDispatcher *)

LEMMA PublishKeeps == ASSUME EventInv, Publish PROVE EventInv'
<1>1. PICK c \in Channels : log' = Append(log, c) /\ Submit(registry[c])
  BY DEF Publish
<1> DEFINE slots == registry[c]
<1>2. slots \in Slots
  BY DEF EventInv, Places
<1>3. Unique(slots) /\ ToSet(slots) \ {NoStream} = {e \in live : since[e][c] # Never}
  BY DEF EventInv, RegistryIsLive, Unique
<1>4. \A e \in Addresses :
        e \in ToSet(slots) <=> e \in live /\ c \in Channels \cup {e} /\ since[e][c] # Never
  BY <1>3
<1>5. /\ Len(log) < MaxEvents /\ UNCHANGED <<dispatcher, open, frame, threw, since, out, wire>>
      /\ Submit(slots)
  BY <1>1 DEF Publish
<1> HIDE DEF slots
<1> QED
  BY <1>1, <1>2, <1>3, <1>4, <1>5, SubmitKeeps

LEMMA SendDirectKeeps == ASSUME EventInv, SendDirect PROVE EventInv'
<1>1. PICK e \in live : log' = Append(log, e) /\ Submit(<<e>>)
  BY DEF SendDirect
<1> DEFINE slots == <<e>>
<1>2. e \in Addresses /\ e \notin Channels /\ since[e][e] # Never
  BY DEF EventInv, Places, Dates
<1>3. slots \in Slots /\ Unique(slots) /\ ToSet(slots) = {e}
  BY <1>2 DEF Slots, Unique, ToSet
<1>4. \A x \in Addresses :
        x \in ToSet(slots) <=> x \in live /\ e \in Channels \cup {x} /\ since[x][e] # Never
  BY <1>2, <1>3
<1>5. /\ Len(log) < MaxEvents /\ UNCHANGED <<dispatcher, open, frame, threw, since, out, wire>>
      /\ Submit(slots)
  BY <1>1 DEF SendDirect
<1> HIDE DEF slots
<1> QED
  BY <1>1, <1>2, <1>3, <1>4, <1>5, SubmitKeeps

\* A subscription from the next event on makes nothing due that is published already.
LEMMA NothingDue ==
  ASSUME EventInv, NEW e \in Addresses, NEW c \in Channels \cup {e}, since[e][c] = Never,
         since' = [since EXCEPT ![e][c] = Len(log) + 1], UNCHANGED log
  PROVE  /\ Due(e)' = Due(e)
         /\ \A x \in Addresses \ {e} : since'[x] = since[x]
         /\ since'[e][c] = Len(log) + 1 /\ DOMAIN since'[e] = Channels \cup {e}
         /\ \A d \in Channels \cup {e} : d # c => since'[e][d] = since[e][d]
         /\ since' = [x \in Addresses |-> since'[x]]
         /\ since'[e] = [d \in Channels \cup {e} |-> since'[e][d]]
<1>1. /\ since = [x \in Addresses |-> since[x]]
      /\ since[e] = [d \in Channels \cup {e} |-> since[e][d]]
  BY DEF EventInv, Dates
<1> DEFINE n == Len(log) + 1
<1>2. since' = [since EXCEPT ![e] = [since[e] EXCEPT ![c] = n]]
  BY <1>1
<1> HIDE DEF n
<1>3. since'[e] = [since[e] EXCEPT ![c] = n] /\ \A x \in Addresses \ {e} : since'[x] = since[x]
  BY <1>1, <1>2
<1>4. since' = [x \in Addresses |-> since'[x]]
  BY <1>1, <1>2
<1>5. /\ since'[e][c] = n /\ DOMAIN since'[e] = Channels \cup {e}
      /\ \A d \in Channels \cup {e} : d # c => since'[e][d] = since[e][d]
      /\ since'[e] = [d \in Channels \cup {e} |-> since'[e][d]]
  BY <1>1, <1>3
<1>6. DOMAIN log = 1 .. Len(log) /\ Len(log) \in Nat /\ Len(log) <= MaxEvents
  BY DueType
<1>7. ASSUME NEW i \in DOMAIN log PROVE i \in Due(e)' <=> i \in Due(e)
  <2>1. i < n /\ i < Never /\ i \in Nat
    BY <1>6, LengthType DEF n
  <2>2. CASE log[i] = c
    <3>1. ~(i >= since[e][log[i]]) /\ ~(i >= since'[e][log[i]])
      BY <1>5, <1>6, <2>1, <2>2, LengthType DEF n
    <3> QED
      BY <3>1 DEF Due
  <2>3. CASE log[i] # c
    BY <1>1, <1>5, <2>3 DEF Due
  <2> QED
    BY <2>2, <2>3
<1>8. Due(e) \subseteq DOMAIN log /\ Due(e)' \subseteq DOMAIN log
  BY DEF Due
<1>9. Due(e)' = Due(e)
  BY <1>7, <1>8
<1> QED
  BY <1>3, <1>4, <1>5, <1>9 DEF n

LEMMA DatesKept ==
  ASSUME EventInv, NEW e \in Addresses, NEW c \in Channels \cup {e}, since[e][c] = Never,
         since' = [since EXCEPT ![e][c] = Len(log) + 1], UNCHANGED log,
         live' \subseteq live \cup {e}, e \in live \/ c = e
  PROVE  Dates'
<1>1. /\ \A x \in Addresses \ {e} : since'[x] = since[x]
      /\ since'[e][c] = Len(log) + 1
      /\ \A d \in Channels \cup {e} : d # c => since'[e][d] = since[e][d]
      /\ since' = [x \in Addresses |-> since'[x]]
      /\ since'[e] = [d \in Channels \cup {e} |-> since'[e][d]]
  BY NothingDue
<1>2. Len(log) \in Nat /\ Len(log) <= MaxEvents /\ Len(log') = Len(log)
  BY DueType
<1>3. /\ \A x \in Addresses : since[x] = [d \in Channels \cup {x} |-> since[x][d]]
      /\ \A x \in Addresses : \A d \in Channels \cup {x} :
           since[x][d] \in 0 .. Len(log) + 1 \cup {Never}
      /\ \A x \in live : since[x][x] # Never
      /\ live \subseteq Addresses
  BY DEF EventInv, Dates, Places
<1>4. Len(log) + 1 \in 0 .. Len(log) + 1 /\ Len(log) + 1 # Never
  BY <1>2, LengthType
<1>5. ASSUME NEW x \in Addresses
      PROVE  /\ since'[x] = [d \in Channels \cup {x} |-> since'[x][d]]
             /\ \A d \in Channels \cup {x} : since'[x][d] \in 0 .. Len(log') + 1 \cup {Never}
             /\ x \in live' => since'[x][x] # Never
  <2>1. CASE x = e
    <3>1. ASSUME NEW d \in Channels \cup {x}
          PROVE  since'[x][d] \in 0 .. Len(log') + 1 \cup {Never}
      <4>1. CASE d = c
        BY <1>1, <1>4, <2>1, <4>1
      <4>2. CASE d # c
        BY <1>1, <1>3, <2>1, <4>2
      <4> QED
        BY <4>1, <4>2
    <3>2. ASSUME x \in live' PROVE since'[x][x] # Never
      <4>1. CASE c = e
        BY <1>1, <1>4, <2>1, <4>1
      <4>2. CASE c # e
        BY <1>1, <1>3, <2>1, <3>2, <4>2
      <4> QED
        BY <4>1, <4>2
    <3> QED
      BY <1>1, <2>1, <3>1, <3>2
  <2>2. CASE x # e
    <3>1. since'[x] = since[x] /\ (x \in live' => x \in live)
      BY <1>1, <2>2
    <3> QED
      BY <1>2, <1>3, <3>1
  <2> QED
    BY <2>1, <2>2
<1>6. live' \subseteq Addresses
  BY <1>3
<1> QED
  BY <1>1, <1>5, <1>6, Zenon DEF Dates, Never

LEMMA CreateKeeps == ASSUME EventInv, Create PROVE EventInv'
<1>1. PICK e \in Addresses \ live :
        live' = live \cup {e} /\ since' = [since EXCEPT ![e][e] = Len(log) + 1]
  BY DEF Create
<1>2. /\ writing' = TRUE
      /\ UNCHANGED <<registry, queue, pos, paused, deferred, open, frame, threw, log, out, wire>>
  BY DEF Create, streams
<1>3. /\ queue[e] = <<>> /\ out[e] = <<>>
      /\ \A c \in Channels \cup {e} : since[e][c] = Never
  BY DEF EventInv, Vacant
<1>4. /\ Due(e)' = Due(e) /\ \A x \in Addresses \ {e} : since'[x] = since[x]
      /\ \A d \in Channels \cup {e} : d # e => since'[e][d] = since[e][d]
  BY <1>1, <1>2, <1>3, NothingDue
<1>5. Flags'
  BY <1>2, Zenon DEF EventInv, Flags
<1>6. Places' /\ Contents'
  BY <1>1, <1>2 DEF EventInv, Places, Contents
<1>7. Dates'
  BY <1>1, <1>2, <1>3, DatesKept
<1>8. Vacant'
  BY <1>1, <1>2, <1>4 DEF EventInv, Vacant
<1>9. Buffers'
  BY <1>1, <1>2 DEF EventInv, Buffers
<1>10. Backed'
  BY <1>1, <1>2 DEF EventInv, Backed, NoFrame
<1>11. RegistryIsLive'
  <2>1. ASSUME NEW c \in Channels
        PROVE  {x \in live' : since'[x][c] # Never} = {x \in live : since[x][c] # Never}
    <3>1. e \notin Channels /\ e # c /\ live \subseteq Addresses
      BY DEF EventInv, Places
    <3>2. since'[e][c] = Never
      BY <1>3, <1>4, <3>1
    <3>3. \A x \in live : since'[x][c] = since[x][c]
      BY <1>1, <1>4, <3>1
    <3> QED
      BY <1>1, <3>2, <3>3
  <2> QED
    BY <1>2, <2>1 DEF EventInv, RegistryIsLive
<1>12. ASSUME NEW x \in live' PROVE Served(x)'
  <2>1. Accepted(x)' = Accepted(x)
    BY <1>2 DEF Accepted
  <2>2. CASE x = e
    <3>1. Accepted(e) = <<>>
      BY <1>3 DEF Accepted
    <3>2. DOMAIN log = 1 .. Len(log) /\ Len(log) \in Nat /\ Len(log) <= MaxEvents
          /\ DOMAIN since[e] = Channels \cup {e}
      BY DueType
    <3>3. Due(e) = {}
      BY <1>3, <3>2, LengthType DEF Due
    <3> QED
      BY <1>4, <2>1, <2>2, <3>1, <3>3 DEF Served, Increasing, ToSet
  <2>3. CASE x # e
    <3>1. x \in live /\ Served(x) /\ x \in Addresses
      BY <1>1, <2>3, ServedAll DEF EventInv, Places
    <3>2. Due(x)' = Due(x)
      BY <1>2, <1>4, <2>3, <3>1 DEF Due
    <3> QED
      BY <2>1, <3>1, <3>2 DEF Served
  <2> QED
    BY <2>2, <2>3
<1>13. ExactlyOnceInOrder'
  BY <1>12 DEF ExactlyOnceInOrder, Served, Increasing
<1> QED
  BY <1>5, <1>6, <1>7, <1>8, <1>9, <1>10, <1>11, <1>13 DEF EventInv

LEMMA SubscribeKeeps == ASSUME EventInv, Subscribe PROVE EventInv'
<1>1. PICK e \in live, c \in Channels :
        /\ since[e][c] = Never
        /\ registry' = [registry EXCEPT ![c] = IntoSlot(registry[c], e)]
        /\ since' = [since EXCEPT ![e][c] = Len(log) + 1]
  BY DEF Subscribe
<1>2. UNCHANGED <<live, queue, pos, paused, deferred, open, frame, writing, threw, log, out, wire>>
  BY DEF Subscribe, streams, http2
<1>0. e \in Addresses /\ live \subseteq Addresses /\ e # c
  BY DEF EventInv, Places
<1>3. /\ Due(e)' = Due(e) /\ \A x \in Addresses \ {e} : since'[x] = since[x]
      /\ \A d \in Channels \cup {e} : d # c => since'[e][d] = since[e][d]
      /\ since'[e][c] = Len(log) + 1
  BY <1>0, <1>1, <1>2, NothingDue
<1>4. /\ registry[c] \in Slots /\ Unique(registry[c])
      /\ ToSet(registry[c]) \ {NoStream} = {x \in live : since[x][c] # Never}
      /\ registry \in [Channels -> Slots]
  BY DEF EventInv, Places, RegistryIsLive, Unique
<1>5. /\ IntoSlot(registry[c], e) \in Slots /\ Unique(IntoSlot(registry[c], e))
      /\ ToSet(IntoSlot(registry[c], e)) \ {NoStream} = (ToSet(registry[c]) \ {NoStream}) \cup {e}
  <2>1. e \notin ToSet(registry[c])
    BY <1>0, <1>1, <1>4
  <2> QED
    BY <1>0, <1>4, <2>1, SlotTaken
<1>6. Flags'
  BY <1>2, Zenon DEF EventInv, Flags
<1>7. Places' /\ Contents'
  BY <1>1, <1>2, <1>4, <1>5 DEF EventInv, Places, Contents
<1>8. Dates'
  <2>1. /\ c \in Channels \cup {e} /\ since[e][c] = Never /\ UNCHANGED log
        /\ since' = [since EXCEPT ![e][c] = Len(log) + 1]
        /\ live' \subseteq live \cup {e} /\ e \in live /\ e \in Addresses
    BY <1>0, <1>1, <1>2
  <2> QED
    BY <2>1, DatesKept
<1>9. Vacant'
  BY <1>0, <1>2, <1>3 DEF EventInv, Vacant
<1>10. Buffers'
  BY <1>2 DEF EventInv, Buffers
<1>11. Backed'
  BY <1>2 DEF EventInv, Backed, NoFrame
<1>12. ASSUME NEW d \in Channels
       PROVE  /\ Unique(registry'[d])
              /\ ToSet(registry'[d]) \ {NoStream} = {x \in live' : since'[x][d] # Never}
  <2>1. CASE d = c
    <3>1. registry'[d] = IntoSlot(registry[c], e)
      BY <1>1, <1>4, <2>1
    <3>2. since'[e][c] # Never
      <4>1. Len(log) \in Nat /\ Len(log) <= MaxEvents
        BY <1>0, DueType
      <4> QED
        BY <1>3, <4>1, LengthType
    <3>3. {x \in live : since'[x][c] # Never} = {x \in live : since[x][c] # Never} \cup {e}
      BY <1>0, <1>3, <3>2
    <3> QED
      BY <1>2, <1>4, <1>5, <2>1, <3>1, <3>3
  <2>2. CASE d # c
    <3>1. registry'[d] = registry[d]
      BY <1>1, <1>4, <2>2
    <3>2. \A x \in live : since'[x][d] = since[x][d]
      BY <1>0, <1>3, <2>2
    <3>3. /\ Unique(registry[d])
          /\ ToSet(registry[d]) \ {NoStream} = {x \in live : since[x][d] # Never}
      BY DEF EventInv, RegistryIsLive, Unique
    <3> QED
      BY <1>2, <3>1, <3>2, <3>3
  <2> QED
    BY <2>1, <2>2
<1>13. RegistryIsLive'
  BY <1>12 DEF RegistryIsLive, Unique
<1>14. ASSUME NEW x \in live' PROVE Served(x)'
  <2>1. Accepted(x)' = Accepted(x) /\ Served(x) /\ x \in Addresses
    BY <1>0, <1>2, ServedAll DEF Accepted, EventInv
  <2>2. Due(x)' = Due(x)
    BY <1>2, <1>3, <2>1 DEF Due
  <2> QED
    BY <2>1, <2>2 DEF Served
<1>15. ExactlyOnceInOrder'
  BY <1>14 DEF ExactlyOnceInOrder, Served, Increasing
<1> QED
  BY <1>6, <1>7, <1>8, <1>9, <1>10, <1>11, <1>13, <1>15 DEF EventInv

\* The stream goes: its slots become null, and its address is as new.
LEMMA CloseKeeps == ASSUME EventInv, Close PROVE EventInv'
<1>1. PICK e \in live :
        /\ live' = live \ {e} /\ Destroy(e)
        /\ queue' = [queue EXCEPT ![e] = <<>>] /\ pos' = [pos EXCEPT ![e] = 0]
        /\ paused' = [paused EXCEPT ![e] = FALSE]
        /\ deferred' = [deferred EXCEPT ![e] = FALSE] /\ open' = [open EXCEPT ![e] = TRUE]
        /\ frame' = IF frame.stream = e THEN NoFrame ELSE frame
        /\ since' = [since EXCEPT ![e] = [c \in DOMAIN since[e] |-> Never]]
        /\ out' = [out EXCEPT ![e] = <<>>] /\ wire' = [wire EXCEPT ![e] = 0]
  BY DEF Close
<1>2. UNCHANGED <<writing, threw, log>>
  BY DEF Close
<1>3. e \in Addresses /\ live \subseteq Addresses /\ NoStream \notin Addresses
  BY DEF EventInv, Places
<1>4. Flags'
  <2>1. Flags
    BY DEF EventInv
  <2> QED
    BY <1>1, <1>2, <2>1, Zenon DEF Flags
<1>5. /\ registry \in [Channels -> Slots]
      /\ registry' = [c \in Channels |-> [i \in DOMAIN registry[c] |->
                         IF registry[c][i] = e THEN NoStream ELSE registry[c][i]]]
  BY <1>1 DEF Destroy, EventInv, Places
<1>6. ASSUME NEW c \in Channels
      PROVE  /\ registry'[c] \in Slots /\ Unique(registry'[c])
             /\ ToSet(registry'[c]) \ {NoStream} = (ToSet(registry[c]) \ {NoStream}) \ {e}
  <2> DEFINE old == registry[c]  new == registry'[c]
  <2>1. /\ old \in Slots /\ new = [i \in DOMAIN old |-> IF old[i] = e THEN NoStream ELSE old[i]]
    BY <1>5
  <2>2. Unique(old)
    BY DEF EventInv, RegistryIsLive, Unique
  <2> HIDE DEF old, new
  <2>3. DOMAIN old = 1 .. Len(old) /\ Len(old) \in Nat
        /\ \A i \in 1 .. Len(old) : old[i] \in Addresses \cup {NoStream}
    BY <2>1, LenProperties, ElementOfSeq DEF Slots
  <2>4. new \in Slots
    BY <2>1, <2>3 DEF Slots
  <2>5. Unique(new)
    BY <2>1, <2>2 DEF Unique
  <2>6. ToSet(new) \ {NoStream} = (ToSet(old) \ {NoStream}) \ {e}
    BY <1>3, <2>1 DEF ToSet
  <2> QED
    BY <2>4, <2>5, <2>6 DEF old, new
<1>7. Places'
  <2>1. registry' \in [Channels -> Slots]
    BY <1>5, <1>6
  <2>2. frame' \in [stream : Addresses \cup {NoStream}, len : Nat]
    BY <1>1 DEF EventInv, Places, NoFrame
  <2> QED
    BY <1>1, <1>2, <2>1, <2>2 DEF EventInv, Places
<1>8. Contents'
  <2>1. <<>> \in Seq(Nat) /\ 0 \in 0 .. Length - 1
    BY LengthType
  <2> QED
    BY <1>1, <2>1 DEF EventInv, Contents
<1>9. /\ DOMAIN since[e] = Channels \cup {e}
      /\ since = [x \in Addresses |-> since[x]]
      /\ \A x \in Addresses : since[x] = [d \in Channels \cup {x} |-> since[x][d]]
  BY <1>3, DueType DEF EventInv, Dates
<1>10. /\ since' = [x \in Addresses |-> since'[x]]
       /\ since'[e] = [d \in Channels \cup {e} |-> Never]
       /\ \A x \in Addresses \ {e} : since'[x] = since[x]
  BY <1>1, <1>3, <1>9
<1>11. Dates'
  <2>1. /\ \A x \in Addresses : \A d \in Channels \cup {x} :
             since[x][d] \in 0 .. Len(log) + 1 \cup {Never}
        /\ \A x \in live : since[x][x] # Never
    BY DEF EventInv, Dates
  <2>2. ASSUME NEW x \in Addresses
        PROVE  /\ since'[x] = [d \in Channels \cup {x} |-> since'[x][d]]
               /\ \A d \in Channels \cup {x} : since'[x][d] \in 0 .. Len(log') + 1 \cup {Never}
               /\ x \in live' => since'[x][x] # Never
    <3>1. CASE x = e
      BY <1>1, <1>10, <3>1
    <3>2. CASE x # e
      <4>1. since'[x] = since[x] /\ (x \in live' => x \in live)
        BY <1>1, <1>10, <3>2
      <4> QED
        BY <1>2, <1>9, <2>1, <4>1
    <3> QED
      BY <3>1, <3>2
  <2>3. live' \subseteq Addresses
    BY <1>1, <1>3
  <2> QED
    BY <1>10, <2>2, <2>3, Zenon DEF Dates, Never
<1>12. /\ queue \in [Addresses -> Seq(Nat)] /\ out \in [Addresses -> Seq(Nat)]
       /\ pos \in [Addresses -> 0 .. Length - 1] /\ wire \in [Addresses -> Nat]
       /\ paused \in [Addresses -> BOOLEAN] /\ deferred \in [Addresses -> BOOLEAN]
       /\ open \in [Addresses -> BOOLEAN]
  BY DEF EventInv, Contents, Flags
<1>13. /\ queue'[e] = <<>> /\ out'[e] = <<>> /\ pos'[e] = 0 /\ wire'[e] = 0
       /\ ~paused'[e] /\ ~deferred'[e]
       /\ \A x \in Addresses \ {e} :
            /\ queue'[x] = queue[x] /\ out'[x] = out[x] /\ pos'[x] = pos[x] /\ wire'[x] = wire[x]
            /\ paused'[x] = paused[x] /\ deferred'[x] = deferred[x] /\ open'[x] = open[x]
  BY <1>1, <1>3, <1>12
<1>14. Vacant'
  <2>1. ASSUME NEW x \in Addresses \ live'
        PROVE  /\ queue'[x] = <<>> /\ out'[x] = <<>> /\ pos'[x] = 0 /\ wire'[x] = 0
               /\ ~paused'[x] /\ ~deferred'[x]
               /\ \A c \in Channels \cup {x} : since'[x][c] = Never
    <3>1. CASE x = e
      BY <1>10, <1>13, <3>1
    <3>2. CASE x # e
      <4>1. x \in Addresses \ live /\ x \in Addresses \ {e}
        BY <1>1, <3>2
      <4> QED
        BY <1>10, <1>13, <4>1 DEF EventInv, Vacant
    <3> QED
      BY <3>1, <3>2
  <2> QED
    BY <2>1 DEF Vacant, Never
<1>15. Buffers'
  <2>1. ASSUME NEW x \in Addresses
        PROVE  /\ paused'[x] = deferred'[x] /\ (paused'[x] => queue'[x] = <<>>)
               /\ queue'[x] = <<>> => pos'[x] = 0
               /\ wire'[x] = pos'[x]
    <3>1. CASE x = e
      <4>1. paused'[e] = FALSE /\ deferred'[e] = FALSE
        BY <1>1, <1>3, <1>12
      <4> QED
        BY <1>13, <3>1, <4>1
    <3>2. CASE x # e
      BY <1>13, <3>2 DEF EventInv, Buffers
    <3> QED
      BY <3>1, <3>2
  <2>2. ASSUME ~threw', NEW x \in live', ~deferred'[x], open'[x] PROVE writing'
    <3>1. x \in live /\ x \in Addresses \ {e}
      BY <1>1, <1>3
    <3> QED
      BY <1>2, <1>13, <2>2, <3>1 DEF EventInv, Buffers
  <2> QED
    BY <2>1, <2>2 DEF Buffers
<1>16. Backed'
  <2>1. ASSUME frame' # NoFrame
        PROVE  /\ frame'.stream \in live' /\ queue'[frame'.stream] # <<>>
               /\ pos'[frame'.stream] + frame'.len <= Length
    <3>1. frame' = frame /\ frame.stream # e /\ frame # NoFrame
      BY <1>1, <2>1
    <3>2. /\ frame.stream \in live /\ queue[frame.stream] # <<>>
          /\ pos[frame.stream] + frame.len <= Length
      BY <3>1 DEF EventInv, Backed
    <3>3. frame.stream \in Addresses \ {e} /\ frame.stream \in live'
      BY <1>1, <1>3, <3>1, <3>2
    <3> QED
      BY <1>13, <3>1, <3>2, <3>3
  <2> QED
    BY <2>1 DEF Backed, NoFrame
<1>17. RegistryIsLive'
  <2>1. ASSUME NEW c \in Channels
        PROVE  ToSet(registry'[c]) \ {NoStream} = {x \in live' : since'[x][c] # Never}
    <3>1. ToSet(registry[c]) \ {NoStream} = {x \in live : since[x][c] # Never}
      BY DEF EventInv, RegistryIsLive
    <3>2. \A x \in live' : x \in live /\ since'[x] = since[x]
      BY <1>1, <1>3, <1>10
    <3> QED
      BY <1>1, <1>6, <3>1, <3>2
  <2> QED
    BY <1>6, <2>1 DEF RegistryIsLive, Unique
<1>18. ASSUME NEW x \in live' PROVE Served(x)'
  <2>1. x \in live /\ x \in Addresses \ {e} /\ Served(x)
    BY <1>1, <1>3, ServedAll DEF EventInv
  <2>2. Accepted(x)' = Accepted(x) /\ Due(x)' = Due(x)
    BY <1>2, <1>10, <1>13, <2>1 DEF Accepted, Due
  <2> QED
    BY <2>1, <2>2 DEF Served
<1>19. ExactlyOnceInOrder'
  BY <1>18 DEF ExactlyOnceInOrder, Served, Increasing
<1> QED
  BY <1>4, <1>7, <1>8, <1>11, <1>14, <1>15, <1>16, <1>17, <1>19 DEF EventInv

-----------------------------------------------------------------------------
(* Writing *)

\* Steps that change neither the events, the registry, nor what is due to whom.
LEMMA SameEvents ==
  ASSUME EventInv,
         UNCHANGED <<registry, live, queue, pos, log, since, out, wire>>
  PROVE  Contents' /\ Dates' /\ RegistryIsLive' /\ ExactlyOnceInOrder'
<1>1. Contents'
  BY DEF EventInv, Contents
<1>2. Dates'
  BY Zenon DEF EventInv, Dates
<1>3. RegistryIsLive'
  BY DEF EventInv, RegistryIsLive
<1>4. ExactlyOnceInOrder'
  <2>1. ASSUME NEW e \in live PROVE Accepted(e)' = Accepted(e) /\ Due(e)' = Due(e)
    BY DEF Accepted, Due
  <2> QED
    BY <2>1 DEF EventInv, ExactlyOnceInOrder
<1> QED
  BY <1>1, <1>2, <1>3, <1>4

LEMMA ReadNothingKeeps == ASSUME EventInv, NEW e, ReadNothing(e) PROVE EventInv'
<1>1. /\ e \in live /\ ~deferred[e] /\ writing /\ frame = NoFrame /\ Remaining(e) <= 0
      /\ paused' = [paused EXCEPT ![e] = @ \/ queue[e] = <<>>]
      /\ deferred' = [deferred EXCEPT ![e] = TRUE]
  BY DEF ReadNothing, CanRead
<1>2. UNCHANGED <<registry, live, queue, pos, open, frame, writing, threw, log, since, out, wire>>
  BY DEF ReadNothing, dispatcher, history
<1>3. e \in Addresses /\ live \subseteq Addresses
  BY <1>1 DEF EventInv, Places
<1>4. queue[e] = <<>>
  <2>1. pos[e] \in 0 .. Length - 1
    BY <1>3 DEF EventInv, Contents
  <2> QED
    BY <1>1, <2>1, LengthType DEF Remaining
<1>5. Flags'
  <2>1. Flags
    BY DEF EventInv
  <2> QED
    BY <1>1, <1>2, <2>1, Zenon DEF Flags
<1>6. /\ paused'[e] = TRUE /\ deferred'[e] = TRUE
      /\ \A x \in Addresses \ {e} : paused'[x] = paused[x] /\ deferred'[x] = deferred[x]
  <2>1. paused \in [Addresses -> BOOLEAN] /\ deferred \in [Addresses -> BOOLEAN]
    BY DEF EventInv, Flags
  <2> QED
    BY <1>1, <1>3, <1>4, <2>1, Zenon
<1>7. Places' /\ Backed'
  BY <1>2 DEF EventInv, Places, Backed, NoFrame
<1>8. Vacant'
  BY <1>1, <1>2, <1>6 DEF EventInv, Vacant
<1>9. Buffers'
  <2>1. ASSUME NEW x \in Addresses
        PROVE  /\ paused'[x] = deferred'[x] /\ (paused'[x] => queue'[x] = <<>>)
               /\ queue'[x] = <<>> => pos'[x] = 0
               /\ wire'[x] = pos'[x]
    <3>1. CASE x = e
      BY <1>2, <1>3, <1>4, <1>6, <3>1 DEF EventInv, Buffers
    <3>2. CASE x # e
      BY <1>2, <1>6, <3>2 DEF EventInv, Buffers
    <3> QED
      BY <3>1, <3>2
  <2> QED
    BY <1>1, <1>2, <2>1 DEF Buffers
<1>10. Contents' /\ Dates' /\ RegistryIsLive' /\ ExactlyOnceInOrder'
  BY <1>2, SameEvents
<1> QED
  BY <1>5, <1>7, <1>8, <1>9, <1>10 DEF EventInv

LEMMA ReadEventKeeps == ASSUME EventInv, NEW e, ReadEvent(e) PROVE EventInv'
<1>1. PICK n \in 1 .. Remaining(e) : frame' = [stream |-> e, len |-> n]
  BY DEF ReadEvent
<1>2. UNCHANGED <<registry, live, queue, pos, paused, deferred, open, writing, threw, log,
                  since, out, wire>>
  BY DEF ReadEvent, dispatcher, streams, history
<1>3. e \in live /\ e \in Addresses
  BY DEF ReadEvent, CanRead, EventInv, Places
<1>4. pos[e] \in 0 .. Length - 1
  BY <1>3 DEF EventInv, Contents
<1>5. queue[e] # <<>> /\ n \in Nat /\ pos[e] + n <= Length
  BY <1>1, <1>4, LengthType DEF Remaining
<1>6. Flags'
  BY <1>2, Zenon DEF EventInv, Flags
<1>7. Places'
  BY <1>1, <1>2, <1>3, <1>5 DEF EventInv, Places
<1>8. Backed'
  <2>1. frame'.stream = e /\ frame'.len = n
    BY <1>1
  <2> QED
    BY <1>2, <1>3, <1>5, <2>1 DEF Backed
<1>9. Vacant' /\ Buffers'
  BY <1>2 DEF EventInv, Vacant, Buffers
<1>10. Contents' /\ Dates' /\ RegistryIsLive' /\ ExactlyOnceInOrder'
  BY <1>2, SameEvents
<1> QED
  BY <1>6, <1>7, <1>8, <1>9, <1>10 DEF EventInv

\* Steps of nghttp2 and of the client that touch no event, and leave a stream that may be
\* asked to a session that writes.
LEMMA WindowKeeps ==
  ASSUME EventInv,
         UNCHANGED <<registry, live, queue, pos, paused, deferred, frame, threw, log, since,
                     out, wire>>,
         open' \in [Addresses -> BOOLEAN], writing' \in BOOLEAN,
         \A e \in live : ~deferred[e] /\ open'[e] => writing'
  PROVE  EventInv'
<1>1. Flags'
  BY Zenon DEF EventInv, Flags
<1>2. Places' /\ Backed'
  BY DEF EventInv, Places, Backed, NoFrame
<1>3. Vacant' /\ Buffers'
  BY DEF EventInv, Vacant, Buffers
<1>4. Contents' /\ Dates' /\ RegistryIsLive' /\ ExactlyOnceInOrder'
  BY SameEvents
<1> QED
  BY <1>1, <1>2, <1>3, <1>4 DEF EventInv

LEMMA WriteEndsKeeps == ASSUME EventInv, WriteEnds PROVE EventInv'
<1>1. UNCHANGED <<registry, live, queue, pos, paused, deferred, open, frame, threw, log, since,
                  out, wire>>
  BY DEF WriteEnds, dispatcher, streams, history
<1>2. \A e \in live : ~(~deferred[e] /\ open[e])
  BY DEF WriteEnds, CanRead
<1>3. open \in [Addresses -> BOOLEAN] /\ writing' \in BOOLEAN
  BY DEF EventInv, Flags, WriteEnds
<1>4. \A e \in live : ~deferred[e] /\ open'[e] => writing'
  BY <1>1, <1>2
<1>5. open' \in [Addresses -> BOOLEAN]
  BY <1>1, <1>3
<1> QED
  BY <1>1, <1>3, <1>4, <1>5, WindowKeeps

LEMMA WindowClosesKeeps == ASSUME EventInv, NEW e, WindowCloses(e) PROVE EventInv'
<1>1. UNCHANGED <<registry, live, queue, pos, paused, deferred, frame, writing, threw, log, since,
                  out, wire>>
  BY DEF WindowCloses, dispatcher, streams, history
<1>2. open \in [Addresses -> BOOLEAN] /\ writing
  BY DEF EventInv, Flags, WindowCloses
<1>3. open' \in [Addresses -> BOOLEAN] /\ writing' \in BOOLEAN
  BY <1>1, <1>2 DEF WindowCloses, EventInv, Flags
<1>4. \A x \in live : ~deferred[x] /\ open'[x] => writing'
  BY <1>1, <1>2
<1> QED
  BY <1>1, <1>3, <1>4, WindowKeeps

LEMMA WindowOpensKeeps == ASSUME EventInv, NEW e, WindowOpens(e) PROVE EventInv'
<1>1. UNCHANGED <<registry, live, queue, pos, paused, deferred, frame, threw, log, since,
                  out, wire>>
  BY DEF WindowOpens, dispatcher, streams, history
<1>2. open \in [Addresses -> BOOLEAN] /\ writing' = TRUE
  BY DEF EventInv, Flags, WindowOpens
<1>3. open' \in [Addresses -> BOOLEAN] /\ writing' \in BOOLEAN
  BY <1>2 DEF WindowOpens
<1>4. \A x \in live : ~deferred[x] /\ open'[x] => writing'
  BY <1>2
<1> QED
  BY <1>1, <1>3, <1>4, WindowKeeps

LEMMA ModLength ==
  ASSUME NEW p \in 0 .. Length
  PROVE  p % Length = IF p = Length THEN 0 ELSE p
  BY LengthType

\* The frame under way is written: what data_read_cb promised is still there.
LEMMA SendFrameKeeps == ASSUME EventInv, SendFrame PROVE EventInv'
<1> DEFINE e == frame.stream  n == frame.len
<1>1. /\ writing /\ frame # NoFrame /\ frame' = NoFrame /\ ~threw
      /\ UNCHANGED <<registry, live, paused, deferred, open, writing, log, since>>
  BY DEF SendFrame, dispatcher
<1>2. /\ e \in live /\ e \in Addresses /\ n \in Nat /\ queue[e] # <<>>
      /\ pos[e] + n <= Length /\ live \subseteq Addresses
  BY <1>1 DEF EventInv, Backed, Places
<1>3. /\ queue \in [Addresses -> Seq(Nat)] /\ out \in [Addresses -> Seq(Nat)]
      /\ pos \in [Addresses -> 0 .. Length - 1] /\ wire \in [Addresses -> Nat]
  BY DEF EventInv, Contents
<1>4. \/ threw' = TRUE /\ UNCHANGED <<queue, pos, out, wire>>
      \/ threw' = FALSE /\ Send(e, n)
  BY <1>2 DEF SendFrame
<1>5. Flags'
  <2>1. Flags /\ threw' \in BOOLEAN
    BY <1>4 DEF EventInv
  <2> QED
    BY <1>1, <2>1, Zenon DEF Flags
<1>6. Places'
  <2>1. NoFrame \in [stream : Addresses \cup {NoStream}, len : Nat]
    BY DEF NoFrame
  <2> QED
    BY <1>1, <2>1 DEF EventInv, Places
<1>7. Dates'
  BY <1>1, Zenon DEF EventInv, Dates
<1>8. Backed'
  BY <1>1 DEF Backed, NoFrame
<1>9. RegistryIsLive'
  BY <1>1 DEF EventInv, RegistryIsLive
<1>10. CASE threw' = TRUE /\ UNCHANGED <<queue, pos, out, wire>>
  <2>1. Contents'
    BY <1>10 DEF EventInv, Contents
  <2>2. Vacant'
    BY <1>1, <1>10 DEF EventInv, Vacant
  <2>3. Buffers'
    BY <1>1, <1>10 DEF EventInv, Buffers
  <2>4. ExactlyOnceInOrder'
    <3>1. ASSUME NEW x \in live PROVE Accepted(x)' = Accepted(x) /\ Due(x)' = Due(x)
      BY <1>1, <1>10 DEF Accepted, Due
    <3> QED
      BY <1>1, <3>1 DEF EventInv, ExactlyOnceInOrder
  <2> QED
    BY <1>5, <1>6, <1>7, <1>8, <1>9, <2>1, <2>2, <2>3, <2>4 DEF EventInv
<1>11. CASE threw' = FALSE /\ Send(e, n)
  <2> DEFINE p == pos[e] + n  whole == p >= Length
  <2>1. /\ queue' = [queue EXCEPT ![e] = IF whole THEN Tail(queue[e]) ELSE queue[e]]
        /\ pos' = [pos EXCEPT ![e] = IF whole THEN 0 ELSE p]
        /\ out' = [out EXCEPT ![e] = IF whole THEN Append(out[e], Head(queue[e])) ELSE out[e]]
        /\ wire' = [wire EXCEPT ![e] = (wire[e] + n) % Length]
    BY <1>11 DEF Send
  <2>2. /\ p \in 0 .. Length /\ (whole <=> p = Length) /\ wire[e] = pos[e]
        /\ (~whole => p \in 0 .. Length - 1)
    <3>1. wire[e] = pos[e] /\ pos[e] \in 0 .. Length - 1 /\ n \in Nat /\ pos[e] + n <= Length
      BY <1>2, <1>3 DEF EventInv, Buffers
    <3>2. p \in 0 .. Length
      BY <3>1, LengthType
    <3> QED
      BY <3>1, <3>2, LengthType
  <2>3. (wire[e] + n) % Length = IF whole THEN 0 ELSE p
    BY <2>2, ModLength
  <2> HIDE DEF p, whole
  <2>4. /\ Head(queue[e]) \in Nat /\ Tail(queue[e]) \in Seq(Nat) /\ queue[e] \in Seq(Nat)
        /\ out[e] \in Seq(Nat) /\ Append(out[e], Head(queue[e])) \in Seq(Nat)
    <3>1. queue[e] \in Seq(Nat) /\ out[e] \in Seq(Nat)
      BY <1>2, <1>3
    <3>2. Head(queue[e]) \in Nat /\ Tail(queue[e]) \in Seq(Nat)
      BY <1>2, <3>1, HeadTailProperties
    <3> QED
      BY <3>1, <3>2, AppendProperties
  <2>5. /\ queue'[e] = IF whole THEN Tail(queue[e]) ELSE queue[e]
        /\ pos'[e] = IF whole THEN 0 ELSE p
        /\ out'[e] = IF whole THEN Append(out[e], Head(queue[e])) ELSE out[e]
        /\ wire'[e] = IF whole THEN 0 ELSE p
        /\ \A x \in Addresses \ {e} : /\ queue'[x] = queue[x] /\ pos'[x] = pos[x]
                                     /\ out'[x] = out[x] /\ wire'[x] = wire[x]
    BY <1>2, <1>3, <2>1, <2>3
  <2>6. Contents'
    <3>1. /\ (IF whole THEN Tail(queue[e]) ELSE queue[e]) \in Seq(Nat)
          /\ (IF whole THEN 0 ELSE p) \in 0 .. Length - 1
          /\ (IF whole THEN Append(out[e], Head(queue[e])) ELSE out[e]) \in Seq(Nat)
          /\ (wire[e] + n) % Length \in Nat
      BY <2>2, <2>3, <2>4, LengthType
    <3> QED
      BY <1>2, <1>3, <2>1, <3>1 DEF Contents
  <2>7. Vacant'
    <3>1. ASSUME NEW x \in Addresses \ live'
          PROVE  /\ queue'[x] = <<>> /\ out'[x] = <<>> /\ pos'[x] = 0 /\ wire'[x] = 0
                 /\ ~paused'[x] /\ ~deferred'[x]
                 /\ \A c \in Channels \cup {x} : since'[x][c] = Never
      <4>1. x \in Addresses \ live /\ x \in Addresses \ {e}
        BY <1>1, <1>2
      <4> QED
        BY <1>1, <2>5, <4>1 DEF EventInv, Vacant
    <3> QED
      BY <3>1 DEF Vacant, Never
  <2>8. Buffers'
    <3>1. ASSUME NEW x \in Addresses
          PROVE  /\ paused'[x] = deferred'[x] /\ (paused'[x] => queue'[x] = <<>>)
                 /\ queue'[x] = <<>> => pos'[x] = 0
                 /\ wire'[x] = pos'[x]
      <4>1. CASE x = e
        <5>1. paused[e] = deferred[e] /\ ~paused[e]
          BY <1>2 DEF EventInv, Buffers
        <5> QED
          BY <1>1, <1>2, <2>5, <4>1, <5>1
      <4>2. CASE x # e
        BY <1>1, <2>5, <4>2 DEF EventInv, Buffers
      <4> QED
        BY <4>1, <4>2
    <3> QED
      BY <1>1, <3>1 DEF Buffers
  <2>9. ASSUME NEW x \in live PROVE Served(x)'
    <3>1. Served(x) /\ Due(x)' = Due(x) /\ x \in Addresses
      BY <1>1, <1>2, ServedAll DEF EventInv, Due
    <3>2. Accepted(x)' = Accepted(x)
      <4>1. CASE x = e /\ whole
        <5>1. Append(out[e], Head(queue[e])) \o Tail(queue[e]) = out[e] \o queue[e]
          BY <1>2, <2>4, ConcatMove
        <5> QED
          BY <2>5, <4>1, <5>1 DEF Accepted
      <4>2. CASE x = e /\ ~whole
        BY <2>5, <4>2 DEF Accepted
      <4>3. CASE x # e
        BY <2>5, <3>1, <4>3 DEF Accepted
      <4> QED
        BY <4>1, <4>2, <4>3
    <3> QED
      BY <3>1, <3>2 DEF Served
  <2>10. ExactlyOnceInOrder'
    BY <1>1, <2>9 DEF ExactlyOnceInOrder, Served, Increasing
  <2> QED
    BY <1>5, <1>6, <1>7, <1>8, <1>9, <2>6, <2>7, <2>8, <2>10 DEF EventInv
<1> QED
  BY <1>4, <1>10, <1>11

-----------------------------------------------------------------------------
(* The specification *)

LEMMA EventStep == ASSUME EventInv, [Next]_vars PROVE EventInv'
<1>1. CASE Application
  BY <1>1, CreateKeeps, SubscribeKeeps, PublishKeeps, SendDirectKeeps, CloseKeeps DEF Application
<1>2. CASE Writing
  BY <1>2, ReadNothingKeeps, ReadEventKeeps, SendFrameKeeps, WriteEndsKeeps DEF Writing
<1>3. CASE Window
  BY <1>3, WindowClosesKeeps, WindowOpensKeeps DEF Window
<1>4. CASE UNCHANGED vars
  <2>1. UNCHANGED <<registry, live, queue, pos, paused, deferred, open, frame, writing, threw, log,
                    since, out, wire>>
    BY <1>4 DEF vars, dispatcher, streams, http2, history
  <2>2. /\ open \in [Addresses -> BOOLEAN] /\ writing \in BOOLEAN
        /\ open' \in [Addresses -> BOOLEAN] /\ writing' \in BOOLEAN
    BY <2>1 DEF EventInv, Flags
  <2>3. Flags'
    BY <2>1, Zenon DEF EventInv, Flags
  <2>4. Places' /\ Backed' /\ Vacant' /\ Buffers'
    BY <2>1 DEF EventInv, Places, Backed, NoFrame, Vacant, Buffers
  <2>5. Contents' /\ Dates' /\ RegistryIsLive' /\ ExactlyOnceInOrder'
    BY <2>1, SameEvents
  <2> QED
    BY <2>3, <2>4, <2>5 DEF EventInv
<1> QED
  BY <1>1, <1>2, <1>3, <1>4 DEF Next

LEMMA EventInvHolds == Spec => []EventInv
<1>1. EventInv /\ [Next]_vars => EventInv'
  BY EventStep
<1> QED
  BY <1>1, EventInit, PTL DEF Spec

\* Every event published on a stream's channels, or sent to it, is queued or written for it
\* exactly once and in order (EventDispatcher::publish, EventStream::submit and send).
THEOREM ExactlyOnce == Spec => []ExactlyOnceInOrder
<1>1. EventInv => ExactlyOnceInOrder
  BY DEF EventInv
<1> QED
  BY <1>1, EventInvHolds, PTL

\* The registry lists each subscribed stream once and none that is gone (suscribe,
\* EventDispatcher::remove).
THEOREM LiveRegistry == Spec => []RegistryIsLive
<1>1. EventInv => RegistryIsLive
  BY DEF EventInv
<1> QED
  BY <1>1, EventInvHolds, PTL

\* paused_ and nghttp2's deferred state agree, and an event that can be sent is on a session
\* that writes (EventStream::length, submit, HttpSession::data_read_cb).
THEOREM WatchedEvents == Spec => []EventIsWatched
<1>1. EventInv => EventIsWatched
  <2> SUFFICES ASSUME EventInv, NEW e \in live
               PROVE  /\ paused[e] = deferred[e] /\ (paused[e] => queue[e] = <<>>)
                      /\ queue[e] # <<>> /\ open[e] /\ ~threw => writing
    BY DEF EventIsWatched
  <2>1. e \in Addresses
    BY DEF EventInv, Places
  <2>2. /\ paused[e] = deferred[e] /\ (paused[e] => queue[e] = <<>>)
        /\ ~threw /\ ~deferred[e] /\ open[e] => writing
    BY <2>1 DEF EventInv, Buffers
  <2> QED
    BY <2>2
<1> QED
  BY <1>1, EventInvHolds, PTL

\* A frame that is announced is filled from one event, and pos_ is the place in the event
\* that the bytes on the wire have come to (data_read_cb, send_data_cb, send).
THEOREM BackedFrames == Spec => []FrameIsBacked
<1>1. EventInv => FrameIsBacked
  BY DEF EventInv, Backed, Buffers, Places, FrameIsBacked
<1> QED
  BY <1>1, EventInvHolds, PTL

-----------------------------------------------------------------------------
(* The streams as mailboxes *)

\* What a step is to Mailboxes.
Promised == [Mail!Next]_(Mail!vars)

\* A step of pauses, windows or frames that writes no last byte.
LEMMA MailUnconcerned ==
  ASSUME UNCHANGED <<registry, live, queue, out, log>> PROVE Promised
  BY DEF Promised, Mail!vars

\* A new stream opens a mailbox, which is empty.
LEMMA CreateOpens == ASSUME EventInv, Create PROVE Promised
<1>1. PICK e \in Addresses \ live : live' = live \cup {e}
  BY DEF Create
<1>2. UNCHANGED <<registry, queue, out, log>> /\ queue[e] = <<>> /\ out[e] = <<>>
  BY DEF Create, streams, EventInv, Vacant
<1>3. Mail!Open(e)
  BY <1>1, <1>2 DEF Mail!Open
<1> QED
  BY <1>3 DEF Promised, Mail!Next

\* suscribe: whichever slot it takes, the channel has one subscriber more.
LEMMA SubscribeSubscribes == ASSUME EventInv, Subscribe PROVE Promised
<1>1. PICK e \in live, c \in Channels :
        /\ since[e][c] = Never
        /\ registry' = [registry EXCEPT ![c] = IntoSlot(registry[c], e)]
  BY DEF Subscribe
<1>2. UNCHANGED <<live, queue, out, log>> /\ e \in Addresses
  BY DEF Subscribe, streams, EventInv, Places
<1>3. /\ registry[c] \in Slots /\ Unique(registry[c]) /\ registry \in [Channels -> Slots]
      /\ ToSet(registry[c]) \ {NoStream} = {x \in live : since[x][c] # Never}
  BY DEF EventInv, Places, RegistryIsLive, Unique
<1>4. e \notin ToSet(registry[c])
  BY <1>1, <1>2, <1>3
<1>5. ToSet(IntoSlot(registry[c], e)) \ {NoStream} = (ToSet(registry[c]) \ {NoStream}) \cup {e}
  BY <1>2, <1>3, <1>4, SlotTaken
<1>6. ASSUME NEW d \in Channels
      PROVE  ToSet(registry'[d]) \ {NoStream}
               = IF d = c THEN (ToSet(registry[c]) \ {NoStream}) \cup {e}
                 ELSE ToSet(registry[d]) \ {NoStream}
  BY <1>1, <1>3, <1>5
<1>7. [d \in Channels |-> ToSet(registry'[d]) \ {NoStream}]
        = [[d \in Channels |-> ToSet(registry[d]) \ {NoStream}]
             EXCEPT ![c] = (ToSet(registry[c]) \ {NoStream}) \cup {e}]
  BY <1>6
<1>8. Mail!Subscribe(e, c)
  BY <1>1, <1>2, <1>4, <1>7 DEF Mail!Subscribe
<1> QED
  BY <1>2, <1>8 DEF Promised, Mail!Next

\* submit on the streams of some slots: the event comes last in the queue of each.
LEMMA SubmitDelivers ==
  ASSUME EventInv, NEW topic \in Channels \cup Addresses, NEW slots \in Slots, Unique(slots),
         Submit(slots), log' = Append(log, topic), UNCHANGED <<registry, live, out>>
  PROVE  Mail!Deliver(ToSet(slots) \ {NoStream})
<1> DEFINE n == Len(log) + 1
           T == ToSet(slots) \ {NoStream}
<1>1. log \in Seq(Channels \cup Addresses) /\ Len(log) \in Nat
  BY LenProperties DEF EventInv, Places
<1>2. Len(log') = n
  BY <1>1, AppendProperties
<1>3. ASSUME NEW e \in Addresses
      PROVE  queue[e] \o Copies(slots, e) = IF e \in T THEN Append(queue[e], n) ELSE queue[e]
  <2>1. queue[e] \in Seq(Nat) /\ n \in Nat
    BY <1>1 DEF EventInv, Contents
  <2>2. Copies(slots, e) = IF e \in T THEN <<n>> ELSE <<>>
    BY OneCopy
  <2>3. Append(queue[e], n) = queue[e] \o <<n>> /\ queue[e] \o <<>> = queue[e]
    BY <2>1, AppendIsConcat, ConcatEmptySeq
  <2> QED
    BY <2>2, <2>3
<1>4. queue' = [e \in Addresses |-> queue[e] \o Copies(slots, e)]
  BY DEF Submit
<1> HIDE DEF n, T
<1>5. queue' = [e \in Addresses |-> IF e \in T THEN Append(queue[e], n) ELSE queue[e]]
  BY <1>3, <1>4
<1> QED
  BY <1>2, <1>5 DEF Mail!Deliver, n, T

LEMMA PublishDelivers == ASSUME EventInv, Publish PROVE Promised
<1>1. PICK c \in Channels : log' = Append(log, c) /\ Submit(registry[c])
  BY DEF Publish
<1>2. registry[c] \in Slots /\ Unique(registry[c]) /\ UNCHANGED <<registry, live, out>>
  BY DEF EventInv, Places, RegistryIsLive, Unique, Publish, dispatcher
<1>3. Mail!Deliver(ToSet(registry[c]) \ {NoStream})
  BY <1>1, <1>2, SubmitDelivers
<1> QED
  BY <1>3 DEF Promised, Mail!Next

LEMMA SendDirectDelivers == ASSUME EventInv, SendDirect PROVE Promised
<1>1. PICK e \in live : log' = Append(log, e) /\ Submit(<<e>>)
  BY DEF SendDirect
<1>2. e \in Addresses /\ UNCHANGED <<registry, live, out>>
  BY DEF SendDirect, dispatcher, EventInv, Places
<1>3. <<e>> \in Slots /\ Unique(<<e>>) /\ ToSet(<<e>>) \ {NoStream} = {e}
  BY <1>2 DEF Slots, Unique, ToSet
<1>4. Mail!Deliver({e})
  BY <1>1, <1>2, <1>3, SubmitDelivers
<1> QED
  BY <1>4 DEF Promised, Mail!Next

\* ~EventStream: the stream is in no slot of any channel afterwards.
LEMMA CloseCloses == ASSUME EventInv, Close PROVE Promised
<1>1. PICK e \in live :
        /\ live' = live \ {e} /\ Destroy(e)
        /\ queue' = [queue EXCEPT ![e] = <<>>] /\ out' = [out EXCEPT ![e] = <<>>]
  BY DEF Close
<1>2. log' = log /\ e \in Addresses /\ e # NoStream
  BY DEF Close, EventInv, Places
<1>3. ASSUME NEW c \in Channels
      PROVE  ToSet(registry'[c]) \ {NoStream} = (ToSet(registry[c]) \ {NoStream}) \ {e}
  <2> DEFINE old == registry[c]
  <2>1. registry'[c] = [i \in DOMAIN old |-> IF old[i] = e THEN NoStream ELSE old[i]]
    BY <1>1 DEF Destroy
  <2> HIDE DEF old
  <2>2. ToSet(registry'[c]) = {IF old[i] = e THEN NoStream ELSE old[i] : i \in DOMAIN old}
    BY <2>1 DEF ToSet
  <2>3. ToSet(old) = {old[i] : i \in DOMAIN old}
    BY DEF ToSet
  <2>4. ToSet(registry'[c]) \ {NoStream} = (ToSet(old) \ {NoStream}) \ {e}
    BY <1>2, <2>2, <2>3
  <2> QED
    BY <2>4 DEF old
<1>4. Mail!Close(e)
  BY <1>1, <1>2, <1>3 DEF Mail!Close
<1> QED
  BY <1>2, <1>4 DEF Promised, Mail!Next

\* The frame that ends an event writes it; one that does not, or throws, writes none.
LEMMA SendFrameWrites == ASSUME EventInv, SendFrame PROVE Promised
<1> DEFINE e == frame.stream  n == frame.len
           whole == pos[e] + n >= Length
<1>1. /\ frame # NoFrame /\ UNCHANGED <<registry, live, log>>
      /\ queue[e] # <<>> /\ e \in live /\ e \in Addresses
  BY DEF SendFrame, dispatcher, EventInv, Backed, Places
<1>2. UNCHANGED <<queue, out>> \/ Send(e, n)
  BY <1>1 DEF SendFrame
<1>3. CASE UNCHANGED <<queue, out>>
  BY <1>1, <1>3, MailUnconcerned
<1>4. CASE Send(e, n)
  <2>1. /\ queue' = [queue EXCEPT ![e] = IF whole THEN Tail(@) ELSE @]
        /\ out' = [out EXCEPT ![e] = IF whole THEN Append(@, Head(queue[e])) ELSE @]
    BY <1>4 DEF Send
  <2>2. queue \in [Addresses -> Seq(Nat)] /\ out \in [Addresses -> Seq(Nat)]
    BY DEF EventInv, Contents
  <2> HIDE DEF e, n, whole
  <2>3. CASE whole
    <3>1. Mail!Write(e)
      BY <1>1, <2>1, <2>3 DEF Mail!Write
    <3> QED
      BY <1>1, <3>1 DEF Promised, Mail!Next
  <2>4. CASE ~whole
    <3>1. UNCHANGED <<queue, out>>
      BY <2>1, <2>2, <2>4
    <3> QED
      BY <1>1, <3>1, MailUnconcerned
  <2> QED
    BY <2>3, <2>4
<1> QED
  BY <1>2, <1>3, <1>4

LEMMA MailStep == ASSUME EventInv, [Next]_vars PROVE Promised
<1>1. CASE Application
  BY <1>1, CreateOpens, SubscribeSubscribes, PublishDelivers, SendDirectDelivers, CloseCloses
     DEF Application
<1>2. CASE SendFrame
  BY <1>2, SendFrameWrites
<1>3. CASE (\E e \in Addresses : ReadNothing(e) \/ ReadEvent(e)) \/ WriteEnds \/ Window
             \/ UNCHANGED vars
  <2>1. UNCHANGED <<registry, live, queue, out, log>>
    BY <1>3 DEF ReadNothing, ReadEvent, WriteEnds, Window, WindowCloses, WindowOpens, vars,
         dispatcher, streams, history
  <2> QED
    BY <2>1, MailUnconcerned
<1> QED
  BY <1>1, <1>2, <1>3 DEF Next, Writing

LEMMA MailInit == Init => Mail!Init
<1> SUFFICES ASSUME Init PROVE Mail!Init
  OBVIOUS
<1>1. \A c \in Channels : ToSet(registry[c]) \ {NoStream} = {}
  BY DEF Init, ToSet
<1>2. /\ live = {} /\ Len(log) = 0
      /\ queue = [e \in Addresses |-> <<>>] /\ out = [e \in Addresses |-> <<>>]
  BY EmptySeq DEF Init
<1> QED
  BY <1>1, <1>2 DEF Mail!Init

\* The event streams implement Mailboxes: a publication reaches all subscribers in one step
\* whatever the slots hold, each stream writes what it got in order, and a stream that goes
\* leaves every channel (EventDispatcher, EventStream::submit, send and ~EventStream).
THEOREM MailboxesKept == Spec => KeepsMailboxes
<1>1. EventInv /\ [Next]_vars => [Mail!Next]_(Mail!vars)
  BY MailStep DEF Promised
<1> QED
  BY <1>1, MailInit, EventInvHolds, PTL DEF Spec, KeepsMailboxes, Mail!Spec
=============================================================================
