--------------------------- MODULE MessageChannel ---------------------------
(***************************************************************************)
(* What a stream of teleport messages promises on a path that keeps the    *)
(* order: each message arrives at most once, after all messages that were  *)
(* submitted before it and have arrived; some never arrive.                *)
(***************************************************************************)
EXTENDS Integers, Sequences

CONSTANT Messages

VARIABLES
    submitted,  \* the messages given to the channel, in order
    arrived     \* the places in submitted of those that came out, in order

vars == <<submitted, arrived>>

Newest == IF arrived = <<>> THEN 0 ELSE arrived[Len(arrived)]

Submit(m) ==
    /\ submitted' = Append(submitted, m)
    /\ UNCHANGED arrived

Arrive(k) ==
    /\ k > Newest
    /\ arrived' = Append(arrived, k)
    /\ UNCHANGED submitted

Init == submitted = <<>> /\ arrived = <<>>

Next ==
    \/ \E m \in Messages : Submit(m)
    \/ \E k \in DOMAIN submitted : Arrive(k)

Spec == Init /\ [][Next]_vars
=============================================================================
