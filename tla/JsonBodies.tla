----------------------------- MODULE JsonBodies -----------------------------
(* JSON bodies on their way through the engine (vault.ts).  A request body   *)
(* is read literal by literal from its raw text, its protected values are    *)
(* replaced in place, and the fail-closed gate reads the result once more;   *)
(* a complete answer has its tokens put back, each escaped for the number of *)
(* string contexts it sits in, with what the tool policy, the prose policy   *)
(* and the marker sanitizer say left out.                                    *)
(*                                                                           *)
(* A field is a string (or number) literal of the document with its key and  *)
(* its parts: protected values, tokens, token-shaped debris and restore      *)
(* markers, each with the number of JSON string escapings it was written     *)
(* under.  A field of kind "json" is JSON text held in a string, so what it  *)
(* holds was escaped twice; one of kind "text" holds what it shows.          *)
EXTENDS Integers, Sequences, FiniteSets

CONSTANTS
    BodyValue,     \* the protected values
    Quoted,        \* those that JSON must escape: a quote, a backslash, a newline
    Numeric,       \* those that can be written as a JSON number
    Requests,      \* the request bodies that may be screened
    Answers,       \* the complete JSON answers that may come back
    Texts          \* and the complete texts that are no JSON

(* What stands in a literal, and the literals of a document.  Nothing comes  *)
(* in restored; what JSON must escape was, once for each string it sits in.  *)
JsonPart == [is : {"value", "token", "debris", "lead"}, of : BodyValue, esc : Nat]
JsonField == [key : {"content", "arguments", "input"},
              kind : {"text", "json", "number", "numberInJson", "plain"},
              parts : Seq(JsonPart)]

Depth(field) == IF field.kind \in {"json", "numberInJson"} THEN 2 ELSE 1

ASSUME JsonBodiesAssumption ==
    /\ Quoted \subseteq BodyValue /\ Numeric \subseteq BodyValue \ Quoted
    /\ Requests \cup Answers \cup Texts \subseteq Seq(JsonField)
    /\ \A doc \in Requests : \A i \in DOMAIN doc : \A k \in DOMAIN doc[i].parts :
          LET part == doc[i].parts[k]
          IN  part.is = "value" /\ part.of \in Quoted => part.esc = Depth(doc[i])
    /\ \A doc \in Texts : \A i \in DOMAIN doc : doc[i].kind = "plain" /\ doc[i].key = "content"

VARIABLES
    registered,    \* values of the permanent layer
    learned,       \* values of the scope's detected layer
    treated        \* the body treated, with what came of it: one in a behaviour,
                   \* since treating one leaves nothing behind for the next

jsonVars == <<registered, learned, treated>>

JsonBodiesInit ==
    /\ registered \in SUBSET BodyValue
    /\ learned = {}
    /\ treated = [what |-> "nothing"]

-----------------------------------------------------------------------------
(* The layers of a scope                                                     *)

HeldValues == registered \cup learned

(* Mutant: the first layer that maps the value governs.                      *)
FirstLayerDetected(v) == v \in learned

(* Registry authority wins over the order of the layers, so that a detected  *)
(* copy of a registry value is still a registry value.                       *)
GovernedAsDetected(v) == v \in learned /\ v \notin registered

(* A reload of the registry.                                                 *)
RegisterValue(v) ==
    /\ v \notin registered
    /\ registered' = registered \cup {v}
    /\ UNCHANGED <<learned, treated>>

(* A detection never re-registers what a permanent layer already holds.      *)
LearnValue(v) ==
    /\ v \notin registered \cup learned
    /\ learned' = learned \cup {v}
    /\ UNCHANGED <<registered, treated>>

(* Persisted rows come in as they were written, copies of registry values    *)
(* included.                                                                 *)
HydrateLearned(vs) ==
    /\ learned' = learned \cup vs
    /\ UNCHANGED <<registered, treated>>

-----------------------------------------------------------------------------
(* Requests                                                                  *)

Field(key, kind, parts) == [key |-> key, kind |-> kind, parts |-> parts]

(* A JSON text under this key is opened: its literals are leaves of the body.*)
Opened(field) == field.key = "arguments" /\ field.kind \in {"json", "numberInJson"}

(* How often the literals that redaction looks at have been decoded.         *)
DecodedAt(field) == IF Opened(field) THEN 2 ELSE 1

(* A value shows in text decoded d times if nothing in it is still escaped.  *)
Shows(part, d) == part.is = "value" /\ (part.of \in Quoted => part.esc = d)

(* Numbers are leaves only inside an opened JSON text; within any other      *)
(* string they are text.                                                     *)
IsLeaf(field) == field.kind # "number"

(* Mutant: the leaves that a parse would show, of a duplicate key the last.  *)
ParsedLeaves(doc) ==
    {i \in DOMAIN doc : IsLeaf(doc[i]) /\ \A j \in DOMAIN doc : j > i => doc[j].key # doc[i].key}

(* Every literal of the raw text, the ones behind a duplicate key included.  *)
Leaves(doc) == {i \in DOMAIN doc : IsLeaf(doc[i])}

MintedFor(part) == [is |-> "token", of |-> part.of, esc |-> 0]

(* A replaced literal is spliced in, re-encoded at its own depth; a number   *)
(* inside JSON text becomes a string there.                                  *)
Rewritten(field) ==
    LET hit(i) == Shows(field.parts[i], DecodedAt(field)) /\ field.parts[i].of \in HeldValues
    IN  IF \E i \in DOMAIN field.parts : hit(i)
        THEN [field EXCEPT
                !.kind = IF Opened(field) THEN "json" ELSE field.kind,
                !.parts = [i \in DOMAIN field.parts |->
                              IF hit(i) THEN MintedFor(field.parts[i]) ELSE field.parts[i]]]
        ELSE field

Rendered(doc) ==
    [i \in DOMAIN doc |-> IF i \in Leaves(doc) THEN Rewritten(doc[i]) ELSE doc[i]]

(* The gate reads every literal as written once decoded, the literals inside *)
(* opened JSON text once more, and with the strings blanked the primitives.  *)
LeakIn(field) ==
    \E i \in DOMAIN field.parts :
        /\ field.parts[i].is = "value"
        /\ field.parts[i].of \in HeldValues
        /\ \/ field.kind = "number"
           \/ Shows(field.parts[i], 1)
           \/ Opened(field) /\ Shows(field.parts[i], 2)

ScreenJson(doc) ==
    /\ \E sent \in {Rendered(doc)} :
          treated' = [what |-> "request", body |-> doc, sent |-> sent,
                      leaks |-> {i \in DOMAIN sent : LeakIn(sent[i])}]
    /\ UNCHANGED <<registered, learned>>

-----------------------------------------------------------------------------
(* Answers                                                                   *)

IsTool(field) == field.key \in {"arguments", "input"}

IsMapped(part) == part.is = "token" /\ part.of \in HeldValues
IsDebris(part) == part.is = "debris" \/ (part.is = "token" /\ part.of \notin HeldValues)

(* Where a delimiter counts: raw, and in JSON as an escape of the body too;  *)
(* one that is escaped again is plain text.                                  *)
Delimits(field, part) ==
    part.is = "lead" /\ part.esc \in (IF field.kind = "plain" THEN {0} ELSE {0, 1})

(* Mutant: only raw delimiters are recognized.                               *)
RawOnly(field, part, opts) == opts.markers /\ part.is = "lead" /\ part.esc = 0

(* Delimiters the model wrote lose their lead character.                     *)
Neutralized(field, part, opts) == opts.markers /\ Delimits(field, part)

Sanitized(doc, opts) ==
    [i \in DOMAIN doc |-> [doc[i] EXCEPT !.parts =
        [k \in DOMAIN doc[i].parts |->
            IF Neutralized(doc[i], doc[i].parts[k], opts)
            THEN [doc[i].parts[k] EXCEPT !.is = "neutralized"] ELSE doc[i].parts[k]]]]

(* Text inside a complete pair of markers is taken for restored already.     *)
Shielded(doc, i, k, opts) ==
    LET leadAt(a, b) == Delimits(doc[a], doc[a].parts[b])
    IN  /\ opts.markers
        /\ \E a \in 1..i : \E b \in DOMAIN doc[a].parts : (a = i => b < k) /\ leadAt(a, b)
        /\ \E a \in i..Len(doc) : \E b \in DOMAIN doc[a].parts : (a = i => b > k) /\ leadAt(a, b)

ToolRestores(v, opts) ==
    opts.tools = "all" \/ (opts.tools = "detected" /\ GovernedAsDetected(v))

(* Tokens of the tool regions that stay placeholders, wherever in the body   *)
(* they stand.                                                               *)
WithheldTokens(doc, opts) ==
    {v \in HeldValues : /\ ~ToolRestores(v, opts)
                    /\ \E i \in DOMAIN doc : IsTool(doc[i]) /\ \E k \in DOMAIN doc[i].parts :
                          IsMapped(doc[i].parts[k]) /\ doc[i].parts[k].of = v}

(* Tool arguments are JSON text within a string.  They are found again in    *)
(* the raw text by what the literal decodes to, so a literal equal to one is *)
(* taken for one.                                                            *)
NestedField(doc, field) ==
    \E j \in DOMAIN doc : /\ doc[j].key = "arguments"
                          /\ doc[j].kind = field.kind
                          /\ doc[j].parts = field.parts

ProseWithholds(v, opts) ==
    CASE opts.prose = "all" -> FALSE
      [] opts.prose = "none" -> TRUE
      [] OTHER -> ~GovernedAsDetected(v)

(* The string contexts that what goes into a field is escaped for.           *)
EscapedFor(doc, field) ==
    IF field.kind = "plain" THEN 0 ELSE IF NestedField(doc, field) THEN 2 ELSE 1

RestoredPart(part, esc, held, opts) ==
    IF IsMapped(part)
    THEN IF part.of \in held THEN part
         ELSE IF esc < 2 /\ opts.guard /\ ProseWithholds(part.of, opts)
         THEN [is |-> "withheld", of |-> part.of, esc |-> esc]
         ELSE [is |-> "restored", of |-> part.of, esc |-> esc]
    ELSE IF IsDebris(part) /\ opts.guard
    THEN [is |-> "unknown", of |-> part.of, esc |-> esc]
    ELSE part

RestoredBody(doc, held, opts) ==
    [i \in DOMAIN doc |->
        LET esc == EscapedFor(doc, doc[i])
        IN  [doc[i] EXCEPT !.parts =
                [k \in DOMAIN doc[i].parts |->
                    IF Shielded(doc, i, k, opts) THEN doc[i].parts[k]
                    ELSE RestoredPart(doc[i].parts[k], esc, held, opts)]]]

(* With no token to restore and no guard to keep, the body stays as it is.   *)
RestoreJson(doc, opts) ==
    /\ \E clean \in {Sanitized(doc, opts)} : \E held \in {WithheldTokens(clean, opts)} :
          treated' = [what |-> "answer", body |-> doc, opts |-> opts,
                      out |-> IF HeldValues = {} /\ ~opts.guard THEN clean
                              ELSE RestoredBody(clean, held, opts),
                      withheld |-> held]
    /\ UNCHANGED <<registered, learned>>

(* A text that is no JSON: there is no shape to find tool calls by.          *)
RestoreText(doc, opts) ==
    /\ \E clean \in {Sanitized(doc, opts)} :
          treated' = [what |-> "answer", body |-> doc, opts |-> opts,
                      out |-> RestoredBody(clean, {}, opts), withheld |-> {}]
    /\ UNCHANGED <<registered, learned>>

(* The same with a report: every mapped token is put back, and what is left  *)
(* of the token-shaped is counted, replaced or not.                          *)
Occurrences(doc, Is(_)) ==
    Cardinality(UNION {{i} \X {k \in DOMAIN doc[i].parts : Is(doc[i].parts[k])} : i \in DOMAIN doc})

RestoreDetailed(doc, opts) ==
    /\ \E clean \in {Sanitized(doc, opts)} :
          treated' = [what |-> "detailed", body |-> doc, opts |-> opts,
                      out |-> RestoredBody(clean, {}, [opts EXCEPT !.prose = "all"]),
                      withheld |-> {},
                      restoredCount |-> Occurrences(clean, IsMapped),
                      unknownCount |-> Occurrences(clean, IsDebris)]
    /\ UNCHANGED <<registered, learned>>

(* What the proxy asks for: the guard and the prose policy go with a         *)
(* protected request, the markers with the caller's wish for highlights.     *)
RestoreChoice ==
    [tools : {"all", "detected", "none"}, prose : {"all", "detected", "none"},
     guard : BOOLEAN, markers : BOOLEAN]

-----------------------------------------------------------------------------
Untreated == treated.what = "nothing"

JsonBodiesNext ==
    \/ Untreated /\ \E v \in BodyValue : RegisterValue(v)
    \/ Untreated /\ \E v \in BodyValue : LearnValue(v)
    \/ Untreated /\ \E vs \in SUBSET BodyValue : HydrateLearned(vs)
    \/ Untreated /\ \E doc \in Requests : ScreenJson(doc)
    \/ Untreated /\ \E doc \in Answers, opts \in RestoreChoice : RestoreJson(doc, opts)
    \/ Untreated /\ \E doc \in Texts, opts \in RestoreChoice : RestoreText(doc, opts)
    \/ Untreated /\ \E doc \in Texts, opts \in RestoreChoice : RestoreDetailed(doc, opts)

JsonBodiesSpec == JsonBodiesInit /\ [][JsonBodiesNext]_jsonVars

-----------------------------------------------------------------------------
(* Properties                                                                *)

(* Whichever of two equal keys the provider's parser keeps, and whether or   *)
(* not it opens the arguments of a call, a body passes the gate with no      *)
(* value of the scope to be read in it; and what redaction has replaced the  *)
(* gate lets pass, so that only a bare number, which must keep its type, can *)
(* hold a request up (rawJsonBody, leakValues).                              *)
OnlyNumbersHoldARequest ==
    treated.what = "request" =>
        \A i \in treated.leaks : treated.sent[i].kind = "number"

(* How often the reader of an answer's field parses it.                      *)
Reader(field) ==
    IF field.kind = "plain" THEN 0 ELSE IF field.key = "arguments" THEN 2 ELSE 1

IsRestored(part) == part.is = "restored"

(* An answer can be read: at the depth its reader parses to, every restored  *)
(* value is the value, never cut off by a quote of its own, and too deeply   *)
(* escaped only where the same text also stands as a call's arguments; no    *)
(* marker in prose is the model's; and no token is left over unless the tool *)
(* policy withheld it (restoreJsonText, createRestoreMarkerSanitizer,        *)
(* nestedJsonStringSpans, restoreTextDetailed).                              *)
AnswerReadsBack ==
    /\ treated.what = "detailed" => treated.restoredCount = Occurrences(treated.out, IsRestored)
    /\ treated.what \in {"answer", "detailed"} =>
        \A i \in DOMAIN treated.out : \A k \in DOMAIN treated.out[i].parts :
            LET field == treated.out[i]
                part == field.parts[k]
                quoting == \E j \in DOMAIN treated.body :
                              j # i /\ treated.body[j].parts = treated.body[i].parts
            IN  /\ part.is = "restored" =>
                      /\ part.esc >= Reader(field)
                      /\ part.esc > Reader(field) => quoting
                /\ treated.opts.markers /\ part.is = "lead" /\ ~IsTool(field) =>
                      part.esc > Reader(field)
                /\ treated.opts.guard =>
                      /\ ~IsDebris(part)
                      /\ IsMapped(part) => part.of \in treated.withheld

(* Under "detected" no tool call receives a value of the registry, even if   *)
(* the scope's own layer holds a copy of it; under "none" it receives none   *)
(* (governingLayer, collectWithheldToolTokens).                              *)
CallsKeepPolicy ==
    [][ treated'.what = "answer" /\ treated' # treated =>
            \A i \in DOMAIN treated'.out : IsTool(treated'.out[i]) =>
                \A k \in DOMAIN treated'.out[i].parts :
                    LET part == treated'.out[i].parts[k]
                    IN  part.is = "restored" =>
                            CASE treated'.opts.tools = "all" -> TRUE
                              [] treated'.opts.tools = "none" -> FALSE
                              [] OTHER -> part.of \notin registered ]_jsonVars

(* What the documentation says of the policy "all": a tool call receives its *)
(* value.                                                                    *)
(* Refuted by TLC (README, refuted claims).                                  *)
AllRestoresIntoTools ==
    treated.what = "answer" /\ treated.opts.tools = "all" =>
        \A i \in DOMAIN treated.out : IsTool(treated.out[i]) =>
            \A k \in DOMAIN treated.out[i].parts : treated.out[i].parts[k].is # "withheld"

(* A request passes as the upstream will read it, and its answer can be read.*)
BodiesReadBack == OnlyNumbersHoldARequest /\ AnswerReadsBack

=============================================================================
