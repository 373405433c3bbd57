------------------------------ MODULE Mailboxes ------------------------------
(***************************************************************************)
(* What the event streams of a worker promise to the handlers that publish:  *)
(* an event reaches, in one step, every stream that is subscribed to its     *)
(* channel and no other; a stream writes its events one by one in the order  *)
(* they came in; a stream that closes leaves every channel and takes what it *)
(* has not written along.  Events are numbered as they are published.        *)
(***************************************************************************)
EXTENDS Integers, Sequences

CONSTANTS Streams, Channels

VARIABLES
  open,          \* the streams there are
  subscribers,   \* channel -> the streams that receive its events
  inbox,         \* stream -> the events to write, oldest first
  written,       \* stream -> the events written
  published      \* how many events there have been

vars == <<open, subscribers, inbox, written, published>>

Init ==
  /\ open = {} /\ subscribers = [c \in Channels |-> {}] /\ published = 0
  /\ inbox = [s \in Streams |-> <<>>] /\ written = [s \in Streams |-> <<>>]

Open(s) ==
  /\ s \notin open /\ open' = open \cup {s}
  /\ inbox[s] = <<>> /\ written[s] = <<>>
  /\ UNCHANGED <<subscribers, inbox, written, published>>

Subscribe(s, c) ==
  /\ s \in open /\ s \notin subscribers[c]
  /\ subscribers' = [subscribers EXCEPT ![c] = @ \cup {s}]
  /\ UNCHANGED <<open, inbox, written, published>>

\* The next event goes to all of some streams at once.
Deliver(to) ==
  /\ inbox' = [s \in Streams |-> IF s \in to THEN Append(inbox[s], published + 1) ELSE inbox[s]]
  /\ published' = published + 1
  /\ UNCHANGED <<open, subscribers, written>>

Write(s) ==
  /\ s \in open /\ inbox[s] # <<>>
  /\ written' = [written EXCEPT ![s] = Append(@, Head(inbox[s]))]
  /\ inbox' = [inbox EXCEPT ![s] = Tail(@)]
  /\ UNCHANGED <<open, subscribers, published>>

Close(s) ==
  /\ s \in open /\ open' = open \ {s}
  /\ subscribers' = [c \in Channels |-> subscribers[c] \ {s}]
  /\ inbox' = [inbox EXCEPT ![s] = <<>>] /\ written' = [written EXCEPT ![s] = <<>>]
  /\ UNCHANGED published

Next ==
  \/ \E c \in Channels : Deliver(subscribers[c])
  \/ \E s \in open : Deliver({s})
  \/ \E s \in Streams : Open(s) \/ Write(s) \/ Close(s) \/ \E c \in Channels : Subscribe(s, c)

Spec == Init /\ [][Next]_vars
=============================================================================
