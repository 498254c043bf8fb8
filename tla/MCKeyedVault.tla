---------------------------- MODULE MCKeyedVault ----------------------------
(* Instances of KeyedVault for TLC.  Slots r1 and r2 call into p1; r3, when *)
(* present, calls into p2 (another process, or the instance that an evicted *)
(* scope's requests still hold).                                            *)
EXTENDS KeyedVault, TLC

CONSTANTS p1, p2, r1, r2, r3, v1, v2

OneEach == (r1 :> p1) @@ (r3 :> p2)
OneInstance == (r1 :> p1) @@ (r2 :> p1)

(* Exchanging the instances together with their slots changes nothing.      *)
SwapInstances == {(p1 :> p2) @@ (p2 :> p1) @@ (r1 :> r3) @@ (r3 :> r1)}
SwapSlots == Permutations({r1, r2})

=============================================================================
