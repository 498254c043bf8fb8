-------------------------- MODULE MCThreadHistory --------------------------
(* Instances of ThreadHistory for TLC.                                     *)
EXTENDS ThreadHistory, TLC

CONSTANTS w1, w2, b1, m1, m2, m3, c1, p1

(* Two messages suffice but for the turns two views take past each other,   *)
(* which need three, of a thread that nothing else happens to.              *)
Undisturbed ==
    /\ now = 0 /\ audit = <<>> /\ selected = {} /\ ~removed
    /\ \A b \in Sidebar : deleting[b].step = "idle"
    /\ \A q \in Preview : draft[q] = NoChange
Explored == Cardinality(UNION {met[v] : v \in View}) <= 2 \/ Undisturbed

SwapViews == Permutations(View) \cup Permutations(Msg)

=============================================================================
