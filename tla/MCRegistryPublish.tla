-------------------------- MODULE MCRegistryPublish --------------------------
(* A firm that may gain a form, a person that may share that form, and a name
   the proxy cannot use.                                                      *)
EXTENDS RegistryPublish, TLC

CONSTANTS firm, person, form, bad, g1, g2
Both == {g1,g2}

Entity(c, fs) == [kind |-> "entity", canonical |-> c, forms |-> fs]

Before == (1 :> Entity(firm, {}))
After == (1 :> Entity(firm, {form}))
Shared == (1 :> Entity(firm, {form})) @@ (2 :> Entity(person, {form}))
Refused == (1 :> Entity(firm, {})) @@ (2 :> Entity(bad, {}))
Clash == (1 :> Entity(firm, {})) @@ (2 :> Entity(firm, {}))
Words == (2 :> [kind |-> "literal", canonical |-> person, forms |-> {form}])

MCApproved == {Before, After, Shared, Refused, Clash, Words}
MCUnusable == {bad}
=============================================================================
