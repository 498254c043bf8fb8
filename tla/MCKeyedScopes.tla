--------------------------- MODULE MCKeyedScopes ---------------------------
(* Instances of KeyedScopes for TLC: "acme" is an organization a detector   *)
(* finds and the short form of the registered "acme corp"; "corp" a secret  *)
(* that may be registered on its own; "card" is of a destroyed category.    *)
EXTENDS KeyedScopes, TLC

CONSTANTS k1, k2, k3, o1, o2, o3, r1, r2, org, secret

Surfaces == {"acme", "acme corp", "corp", "card"}
RecordForms == (org :> {"acme corp"}) @@ (secret :> {"corp"})
RecordAliases == (org :> {"acme"}) @@ (secret :> {})

(* The same, but what is registered later is the short name itself.         *)
LateNameForms == (org :> {"acme corp"}) @@ (secret :> {"acme"})

Plain == [t1 |-> {"acme", "card"}, t2 |-> {"card"}]
Nested == [t1 |-> {}, t2 |-> {<<"acme corp", "corp", "acme">>}]

l1 == [text |-> "t1", kind |-> "content"]
l2 == [text |-> "t2", kind |-> "content"]
l2key == [text |-> "t2", kind |-> "key"]
l1user == [text |-> "t1", kind |-> "identifier"]
Places == {l1, l2, l2key, l1user}

(* The run explores the union of five regions: one request at a time under  *)
(* one key with every value in content; the same with leaves of every kind; *)
(* two requests of one key that interleave; three keys that take turns in a *)
(* cache for two, of which only one writes; and that cache over time, with  *)
(* nothing to find.  A failing detector may block the request in the        *)
(* smallest of them.                                                        *)
Using(vs, ls, cs) ==
    /\ \A o \in Objects :
          /\ scope[o].known \subseteq vs
          /\ scope[o].seen \cup scope[o].swept \cup scope[o].asKey \subseteq TextsOf(ls)
    /\ \A r \in Requests : req[r].body \subseteq ls
    /\ active \subseteq cs

Busy == {r \in Requests : req[r].phase # "idle"}
InUse == {o \in Objects : scope[o].used}
NoSelection == \A r \in Requests : req[r].user = {}
OneKey == now = 0 /\ \A o \in Objects : scope[o].key \in {k1, NoKey}

OneAtATime == OneKey /\ InUse \subseteq {o1} /\ Cardinality(Busy) <= 1

EveryValue == OneAtATime /\ Using(Values, {l1, l2}, Records)
EveryKind == OneAtATime /\ NoSelection /\ Using({"card"}, Places, {})
Interleaved == OneKey /\ InUse \subseteq {o1, o2} /\ NoSelection /\ Using({"acme", "card"}, {l1}, {org})
TakingTurns ==
    /\ now = 0 /\ NoSelection /\ Using({"card"}, {l2}, {})
    /\ \A o \in InUse : scope[o].key # k1 => scope[o] = [Free EXCEPT !.used = TRUE, !.key = scope[o].key]
    /\ \A o \in InUse : scope[o].key # NoKey
    /\ \A r \in Requests : req[r].key # k1 => req[r].body = {}
OverTime == NoSelection /\ Using({}, {}, {})

Explored ==
    /\ EveryValue \/ EveryKind \/ Interleaved \/ TakingTurns \/ OverTime
    /\ failClosed => OneAtATime /\ Using({"card"}, {l2}, {})

(* The first key is the one of the regions with one key.                    *)
Swap == Permutations({r1, r2}) \cup Permutations({k2, k3})

=============================================================================
