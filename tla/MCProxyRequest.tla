--------------------------- MODULE MCProxyRequest ---------------------------
(* Instances of ProxyRequest for TLC.                                      *)
EXTENDS ProxyRequest, TLC

CONSTANTS q1, q2, s1, s2, e1, e2, x1, v1

FailClosedOnly == {[required |-> FALSE, failClosed |-> TRUE, detecting |-> FALSE]}
FailOpenOnly == {[required |-> FALSE, failClosed |-> FALSE, detecting |-> FALSE]}
AllModes == {[required |-> FALSE, failClosed |-> TRUE, detecting |-> FALSE],
             [required |-> FALSE, failClosed |-> FALSE, detecting |-> TRUE],
             [required |-> TRUE, failClosed |-> TRUE, detecting |-> FALSE]}

(* Two events, and so two proofs that live side by side, only of requests   *)
(* without tickets that carry nothing worth protecting, under one setting;  *)
(* under a required registry, whose gate is passed at once, one request; and *)
(* where survivors may leave, no time passes (tickets expire in the other).  *)
EventsInUse == ({ask[r].event : r \in Req} \cup {k[2] : k \in {k \in Key : proofs[k] # None}}) \ {None}
Explored ==
    /\ setting.required => \E r \in Req : st[r] \in {"new", "refused"}
    /\ ~setting.failClosed => now = 0
    /\ \/ e2 \notin EventsInUse
       \/ /\ minted = 0 /\ setting.detecting /\ registry = {}
          /\ \A r \in Req : deliveries[r] = 0 /\ st[r] # "retrying"
          /\ \A r \in Req : query[r] \cup rest[r] \cup pending[r] \cup surviving[r] = {}

SwapRequests == Permutations(Req)

=============================================================================
