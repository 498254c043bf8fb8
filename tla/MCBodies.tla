------------------------------ MODULE MCBodies ------------------------------
(* Two parts of the engine that share no state, each explored by itself: the *)
(* resolution of occurrences in the text of a body, and JSON bodies as they  *)
(* are read, rewritten and restored.                                         *)
EXTENDS BodyText, JsonBodies, TLC

VARIABLE machine

a == <<"a">>
b == <<"b">>
A == <<"A">>

MCBodyTexts == {
    << <<a, b, A>> >>, << <<b, a, b>> >>, << <<a, b, Space, a>> >>, << <<a, NewLine, Space, b>> >>,
    << <<a, NewLine, NewLine, b>> >>, << <<Label, a, b>> >>, << <<Slash, a, b>> >>, << <<a, Slash, b>> >>,
    << <<Cd, a, Space, b>> >>, << <<a, Equals, Slash, b>> >>, << <<Star, a, Star, b>> >>, << <<a, b>>, <<b, A>> >>}
MCRegistries == {{}, {Claim(1, "registry", {Form(<<a, b>>, TRUE)}, Registered)},
                 {Claim(1, "registry", {Form(<<b>>, FALSE), Form(<<a, Space, b>>, TRUE)}, Registered)}}
MCCategories == {[name |-> "id", destroyed |-> TRUE, priority |-> 1, confidence |-> 1],
                 [name |-> "person", destroyed |-> FALSE, priority |-> 2, confidence |-> 2]}
MCFindings == <<2, 1>>
MCCredentialLike == {<<b>>}

CONSTANTS plain, quoted
UpToTwo(S) == {<<x>> : x \in S} \cup (S \X S)
Atoms(d) == [is : {"value"}, of : BodyValue, esc : {d}] \cup [is : {"token"}, of : {plain}, esc : {0}]
RequestFields ==
    {Field(key, "text", parts) : key \in {"content", "arguments"}, parts \in UpToTwo(Atoms(1))}
    \cup {Field(key, "json", parts) : key \in {"content", "arguments"}, parts \in UpToTwo(Atoms(2))}
    \cup {Field(key, kind, <<[is |-> "value", of |-> v, esc |-> 0]>>) :
            key \in {"content", "arguments"}, kind \in {"number", "numberInJson"}, v \in Numeric}
MCRequests == {<<f>> : f \in RequestFields} \cup {<<f, g>> : f, g \in RequestFields}
Shown == [is : {"token"}, of : BodyValue, esc : {0}] \cup {[is |-> "debris", of |-> plain, esc |-> 0]}
Lead(d) == [is |-> "lead", of |-> plain, esc |-> d]
AnswerParts(d) == UpToTwo(Shown) \cup {<<Lead(d), x, Lead(d)>> : x \in Shown}
Calls == {Field("arguments", "json", parts) : parts \in AnswerParts(2)}
         \cup {Field("input", "text", parts) : parts \in AnswerParts(1)}
MCAnswers ==
    {<<Field("content", "text", parts), call>> : parts \in AnswerParts(1), call \in Calls}
    \cup {<<Field("content", "json", call.parts), call>> : call \in {c \in Calls : c.kind = "json"}}
MCTexts == {<<Field("content", "plain", parts)>> : parts \in AnswerParts(0) \cup AnswerParts(1)}

BodiesInit ==
    /\ machine \in {"text", "json"}
    /\ Init /\ JsonBodiesInit
    /\ machine = "text" => registered = {}
    /\ machine = "json" => registry = {} /\ body = CHOOSE given \in Bodies : TRUE

BodiesNext ==
    /\ UNCHANGED machine
    /\ \/ machine = "text" /\ Next /\ UNCHANGED jsonVars
       \/ machine = "json" /\ JsonBodiesNext /\ UNCHANGED vars

BodiesSpec == BodiesInit /\ [][BodiesNext]_<<vars, jsonVars, machine>>
=============================================================================
