------------------------------ MODULE MCOutbox ------------------------------
(* Instances of Outbox for TLC: two scanners at one destination, two rows in *)
(* the lane of the first.                                                    *)
EXTENDS Outbox, TLC

CONSTANTS d1, d2, d3

OneDestination == [d \in Deliveries |-> "central"]
TwoLanes == d1 :> 1 @@ d2 :> 1 @@ d3 :> 2
OneLane == d1 :> 1 @@ d2 :> 1

\* Senders, subjects and enqueuers are interchangeable (no liveness is checked with this).
Symmetry == Permutations(Senders) \cup Permutations(Subjects) \cup Permutations(Enqueuers)
=============================================================================
