------------------------------ MODULE Delivery ------------------------------
(***************************************************************************)
(* What the delivery queue promises the user and the central service: the   *)
(* body of a delivery is fixed once, before anything reaches the service;   *)
(* the service never records two different bodies for one delivery; and a   *)
(* delivery is reported as delivered only when its body is recorded.        *)
(***************************************************************************)
CONSTANTS Deliveries, Subjects, None

VARIABLES body,       \* what may be sent for a delivery, None until it is fixed
          recorded,   \* bodies the central service has recorded
          delivered   \* deliveries the queue reports as delivered

vars == <<body, recorded, delivered>>

Init ==
  /\ body = [d \in Deliveries |-> None]
  /\ recorded = {}
  /\ delivered = {}

Fix(d, subject) ==
  /\ body[d] = None
  /\ body' = [body EXCEPT ![d] = <<d, subject>>]
  /\ UNCHANGED <<recorded, delivered>>

Record(d) ==
  /\ body[d] # None
  /\ recorded' = recorded \cup {body[d]}
  /\ UNCHANGED <<body, delivered>>

Report(d) ==
  /\ body[d] \in recorded
  /\ delivered' = delivered \cup {d}
  /\ UNCHANGED <<body, recorded>>

Next == \E d \in Deliveries :
  \/ \E subject \in Subjects : Fix(d, subject)
  \/ Record(d)
  \/ Report(d)

Spec == Init /\ [][Next]_vars
=============================================================================
