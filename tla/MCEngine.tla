------------------------------ MODULE MCEngine ------------------------------
(* The parts of the engine that read and restore text, each explored by      *)
(* itself: the two machines of MCBodies and the restore of a streamed answer *)
(* in a scope with a registered entity F_O2 and a detected value F_2f; the   *)
(* other tokens of the texts nobody maps.                                    *)
EXTENDS StreamRestore, MCBodies

Tok(x, y) == <<"F", "_", x, y>>
Secret == Tok("O", "2")
Card == Tok("2", "f")
Stray == Tok("f", "2")

MCIssued == (Secret :> [value |-> "S", layer |-> "permanent"]) @@ (Card :> [value |-> "C", layer |-> "detected"])

Arguments == [say |-> "text", call |-> "tool"]
Freeform == [say |-> "text", call |-> "raw"]

Opt(g, m, t, k) == [guard |-> g, markers |-> m, tools |-> t, prose |-> "detected", kind |-> k]
MCOptions == {Opt(g, m, "detected", Arguments) : g \in BOOLEAN, m \in BOOLEAN}
             \cup {Opt(TRUE, FALSE, t, k) : t \in {"all", "none"}, k \in {Arguments, Freeform}}
             \cup {Opt(FALSE, TRUE, "detected", Freeform)}

UpTo(n, cs) == UNION {[1 .. k -> cs] : k \in 0 .. n}

\* Every short text, and longer ones made of tokens and their surroundings.
Parts == {Secret, Card, Stray, <<"x">>, <<" ">>, <<"F", "_">>, <<"f">>, <<"2">>, <<"O">>, <<"[">>}
Long == {x \o y \o z : x \in Parts, y \in Parts, z \in Parts}
MCPlainTexts == UpTo(4, {"F", "_", "f", "2", "O", " "}) \cup Long

MCBlockTexts ==
    [say |-> {<<>>, Secret, Card \o <<" ">> \o Stray, <<"F">> \o Card, <<"F", "_", "2", " ", "2">>},
     call |-> {<<>>, Card \o Secret, <<"x">> \o Secret, Stray \o <<"x">>, Secret \o <<"2">>}]
MCSiblings == {<<>>, Secret \o <<" ">> \o Card}
MCJsonTexts == UpTo(5, {"\\", "u", "2", "[", "x"})

Quiet == CHOOSE o \in Options : TRUE

EngineInit ==
    \/ BodiesInit /\ StreamInit /\ mode = "plain" /\ src[Plain] = <<>> /\ opts = Quiet
    \/ machine = "stream" /\ Init /\ JsonBodiesInit /\ StreamInit
       /\ registered = {} /\ registry = {} /\ body = CHOOSE b0 \in Bodies : TRUE

EngineNext ==
    \/ BodiesNext /\ UNCHANGED streamVars
    \/ machine = "stream" /\ StreamNext /\ UNCHANGED <<vars, jsonVars, machine>>

EngineSpec == EngineInit /\ [][EngineNext]_<<vars, jsonVars, machine, streamVars>>
=============================================================================
