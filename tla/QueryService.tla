---------------------------- MODULE QueryService ----------------------------
(***************************************************************************)
(* What a db::Session promises to the handlers that use it: queries get      *)
(* their completions one by one, in the order they were submitted, each at   *)
(* most once; a failure of the connection loses every one still waiting.     *)
(***************************************************************************)
EXTENDS Integers, Sequences

CONSTANT Ids    \* query identifiers

VARIABLES
  pending,      \* the queries that wait for their result, oldest first
  fate          \* what became of each query

vars == <<pending, fate>>

Verdicts == {"answered", "skipped", "dropped"}
Fates    == {"unsent", "pending", "lost"} \cup Verdicts

Init == pending = <<>> /\ fate = [q \in Ids |-> "unsent"]

Submit ==
  \E q \in Ids :
    /\ fate[q] = "unsent"
    /\ pending' = Append(pending, q)
    /\ fate' = [fate EXCEPT ![q] = "pending"]

Complete ==
  /\ pending # <<>>
  /\ \E v \in Verdicts : fate' = [fate EXCEPT ![Head(pending)] = v]
  /\ pending' = Tail(pending)

Fail ==
  /\ pending' = <<>>
  /\ fate' = [q \in Ids |-> IF \E i \in 1 .. Len(pending) : pending[i] = q
                              THEN "lost" ELSE fate[q]]

Next == Submit \/ Complete \/ Fail
Spec == Init /\ [][Next]_vars
=============================================================================
