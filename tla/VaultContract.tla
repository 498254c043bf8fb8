---------------------------- MODULE VaultContract ----------------------------
(***************************************************************************)
(* What a persistent vault promises its callers, with no process, cache or *)
(* store call in sight: a token leaves the engine only once its mapping is *)
(* saved, and a saved mapping stays saved unless somebody prunes or        *)
(* forgets it.  KeyedVault implements this (see KeyedVault!Contract).      *)
(***************************************************************************)
CONSTANTS
    Value,      \* protected values; a token stands for exactly one of them
    Retention   \* whether an operator prunes or forgets entries

VARIABLES
    saved,      \* values whose mapping any process can read back
    released    \* values whose token a structured redaction has handed out

vars == <<saved, released>>

Init == saved = {} /\ released = {}

Save == \E V \in SUBSET Value : saved' = saved \cup V /\ UNCHANGED released

Release == \E V \in SUBSET saved : released' = released \cup V /\ UNCHANGED saved

Lose == /\ Retention
        /\ \E V \in SUBSET saved : saved' = saved \ V
        /\ UNCHANGED released

Next == Save \/ Release \/ Lose

Spec == Init /\ [][Next]_vars
=============================================================================
