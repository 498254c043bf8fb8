---------------------------- MODULE KeyedScopes ----------------------------
(***************************************************************************)
(* The redaction engine around its dictionaries: scopes that live longer   *)
(* than the requests using them (ProtectionEngine.beginRequest), the four  *)
(* dictionary layers a request reads through (userProtected,               *)
(* registryDerived, detected, permanent), and the pass that turns an       *)
(* outbound body into tokens and markers (redactBodyOccurrences).          *)
(*                                                                         *)
(* Texts are abstracted to the values that occur in them: those that stand *)
(* alone and the nests, where <<o, i, x>> says that o occurs, that i is    *)
(* part of that occurrence, and that x is what remains of it when i is     *)
(* taken out.  A leaf is a text at a place of a body: an object key, the   *)
(* one field that identifies the client, or content.  Detectors answer     *)
(* anything they could have seen; the engine runs here without a           *)
(* persistent store (see KeyedVault).                                      *)
(***************************************************************************)
EXTENDS Naturals, Sequences, FiniteSets, SequencesExt, FiniteSetsExt

CONSTANTS
    Values,         \* surfaces that may be protected
    Records,        \* entries the registry sources can list
    FormsOf,        \* the surfaces a record registers
    AliasesOf,      \* the surfaces the short-name rule links to a record
    EntityRecords,  \* the records rendered by entity-family tokens
    Texts,          \* texts of string leaves
    Leaves,         \* string leaves a body can consist of
    PlainIn,        \* the values standing alone in a text
    NestsIn,        \* the nests of a text
    Destroyed,      \* values a detector may put in a destroyed category
    InTexts,        \* the values headers and queries may carry
    Patterned,      \* values the detectors that read keys too find in any text
    Structural,     \* values the structural hooks find in any scanned leaf
    Selectable,     \* values a caller may select for one request
    Keys,           \* scope keys
    NoKey,          \* the key of an ephemeral scope
    Objects,        \* scope objects in memory
    Requests,
    ByHint,         \* whether a literal token shows who minted it ("typed")
    ScopesMax,      \* KEYED_SCOPE_MAX
    IdleTtl,        \* KEYED_SCOPE_IDLE_TTL_MS
    MaxTime         \* bound on the clock

Kinds == {"content", "key", "identifier"}

ASSUME ConstantsAssumption ==
    /\ FormsOf \in [Records -> SUBSET Values]
    /\ AliasesOf \in [Records -> SUBSET Values]
    /\ EntityRecords \subseteq Records
    /\ Leaves \subseteq [text : Texts, kind : Kinds]
    /\ PlainIn \in [Texts -> SUBSET Values]
    /\ NestsIn \in [Texts -> SUBSET (Values \X Values \X Values)]
    /\ Destroyed \cup InTexts \cup Patterned \cup Structural \cup Selectable \subseteq Values
    /\ NoKey \notin Keys
    /\ Objects # {}
    /\ ByHint \in BOOLEAN
    /\ {ScopesMax, IdleTtl, MaxTime} \subseteq Nat

VARIABLES
    failClosed,     \* whether a failing detector blocks the request
    now,            \* Date.now()
    active,         \* activeRegistryRecords: the records ever loaded
    cache,          \* keyedScopes: objects, least recently used first
    scope,          \* the scope objects in memory
    req             \* the requests in flight

vars == <<failClosed, now, active, cache, scope, req>>

---------------------------------------------------------------------------
(* Tokens and layers                                                        *)

(* Mutant: the style is ignored and every token shows its hint.             *)
HintedLiteral(v, by) == [label |-> by, value |-> v]

(* A literal token is a function of the value, and under the typed style of *)
(* the hint it is minted with; an entity token names the entity instead.    *)
Literal(v, by) == [label |-> IF ByHint THEN by ELSE "opaque", value |-> v]
Linked(e, v) == [label |-> e, value |-> v]

Labels == Records \cup (IF ByHint THEN {"registry", "detected", "user"} ELSE {"opaque"})
Tokens == [label : Labels, value : Values]

EmptyLayer == [literal |-> {}, linked |-> {}, match |-> {}]
TokensOf(layer) == layer.literal \cup layer.linked
Mapped(layer) == {t.value : t \in layer.literal}

(* A value keeps the first token the layer minted for it.                   *)
EnsureTokens(layer, vs, by) ==
    [layer EXCEPT !.literal = @ \cup {Literal(v, by) : v \in vs \ Mapped(layer)}]

AddMatchForms(layer, vs, by) ==
    [EnsureTokens(layer, vs, by) EXCEPT !.match = @ \cup vs]

EnsureEntityTokens(layer, links) ==
    [layer EXCEPT !.linked = @ \cup {Linked(k[1], k[2]) : k \in links}]

---------------------------------------------------------------------------
(* What a request reads through                                             *)

Registered == UNION {FormsOf[c] : c \in active}
Permanent == [literal |-> {Literal(v, "registry") : v \in Registered},
              linked  |-> {},
              match   |-> Registered]

UserLayer(r) == [literal |-> {Literal(v, "user") : v \in req[r].user},
                 linked  |-> {},
                 match   |-> req[r].user]

Layers(r) ==
    <<UserLayer(r), scope[req[r].scope].derived, scope[req[r].scope].detected, Permanent>>

(* restoreText: the first layer that maps a token says what it stands for.  *)
Restorable(r) == UNION {TokensOf(Layers(r)[i]) : i \in 1 .. 4}

(* Mutant: the first layer that maps a token governs it.                    *)
FirstIsDetection(r, t) == \A i \in {1, 2} : t \notin TokensOf(Layers(r)[i])

(* governingLayer: a layer of permanent provenance governs whenever it maps *)
(* the token; the only other layer is the detected one.                     *)
FromDetection(r, t) == \A i \in {1, 2, 4} : t \notin TokensOf(Layers(r)[i])

(* restoreToolArgText under the default policy "detected".                  *)
ToolRestorable(r) == {t \in Restorable(r) : FromDetection(r, t)}

MatchForms(r) == UNION {Layers(r)[i].match : i \in 1 .. 4}

(* Mutant: the layers of the scope are asked, the registry itself is not.   *)
HeldInScope(r, v) == \E i \in {1, 2} : v \in Mapped(Layers(r)[i])

HeldWithRegistryAuthority(r, v) == \E i \in {1, 2, 4} : v \in Mapped(Layers(r)[i])

---------------------------------------------------------------------------
(* Scope objects and their cache                                            *)

(* known is detectedMetadata, seen is seenLeaves.  The last three fields    *)
(* only observe: the keys that wrote into the scope, the texts complete     *)
(* detections read as content, and those they read as object keys.          *)
Free == [key |-> NoKey, used |-> FALSE, lastUsed |-> 0,
         detected |-> EmptyLayer, derived |-> EmptyLayer,
         known |-> {}, tokenOnly |-> {}, seen |-> {},
         writers |-> {}, swept |-> {}, asKey |-> {}]

Idle == [phase |-> "idle", key |-> NoKey, scope |-> CHOOSE o \in Objects : TRUE,
         user |-> {}, body |-> {}, fresh |-> {}, out |-> {}, leaks |-> {}]

Init ==
    /\ failClosed \in BOOLEAN
    /\ now = 0
    /\ active \in SUBSET Records
    /\ cache = <<>>
    /\ scope = [o \in Objects |-> Free]
    /\ req = [r \in Requests |-> Idle]

(* Mutant: an evicted scope is taken from the requests still using it.      *)
CachedOnly(c, rs) == Range(c)

(* An object nobody can reach any more is garbage.                          *)
Referenced(c, rs) == Range(c) \cup {rs[r].scope : r \in {q \in Requests : rs[q].phase # "idle"}}
Collected(s, c, rs) == [o \in Objects |-> IF o \in Referenced(c, rs) THEN s[o] ELSE Free]

(* evictKeyedScopes: from the least recently used end, drop expired scopes  *)
(* and whatever exceeds the cap; stop at the first that may stay.           *)
Expired(s, o) == now - s[o].lastUsed > IdleTtl
(* Mutant: the cap is enforced one scope late.                              *)
EvictedLate(c, s) ==
    LET kept == {i \in 1 .. Len(c) :
                    \E j \in 1 .. i : now - s[c[j]].lastUsed <= IdleTtl /\ Len(c) - j <= ScopesMax}
    IN  IF kept = {} THEN <<>> ELSE SubSeq(c, Min(kept), Len(c))

Evicted(c, s) ==
    LET Goes(i) == Expired(s, c[i]) \/ Len(c) - (i - 1) > ScopesMax
        kept == {i \in 1 .. Len(c) : \E j \in 1 .. i : ~Goes(j)}
    IN  IF kept = {} THEN <<>> ELSE SubSeq(c, Min(kept), Len(c))

(* Mutant: a scope in use keeps its place in the map.                       *)
TouchedInPlace(k, o, c, s) ==
    LET swept == Evicted(c, s)
    IN  IF o \in Range(swept) THEN swept ELSE Append(swept, o)

(* keyedScopeState: expire first, so that an idle scope is not revived by   *)
(* the request that returns to it; then reuse or create, take the entry of  *)
(* the key out of the map and set it anew, which puts it last.              *)
Touched(k, o, c, s) ==
    LET swept == Evicted(c, s)
        entry == {i \in 1 .. Len(swept) : s[swept[i]].key = k}
    IN  Append(IF entry = {} THEN swept ELSE RemoveAt(swept, Min(entry)), o)

(* Mutant: any live scope is taken for the one of the key.                  *)
AnyScope(k) == Range(Evicted(cache, scope))

ScopeOf(k) == {o \in Range(Evicted(cache, scope)) : scope[o].key = k}

Open(o, k) == [Idle EXCEPT !.phase = "open", !.scope = o, !.key = k]

BeginRequest(r, k) ==
    /\ req[r].phase = "idle"
    /\ \E o \in Objects :
        LET fresh == ScopeOf(k) = {}
            s1 == [scope EXCEPT ![o] = IF fresh
                                       THEN [Free EXCEPT !.key = k, !.used = TRUE, !.lastUsed = now]
                                       ELSE [@ EXCEPT !.lastUsed = now]]
            c1 == Evicted(Touched(k, o, cache, s1), s1)
            rs == [req EXCEPT ![r] = Open(o, k)]
        IN  /\ IF fresh THEN ~scope[o].used ELSE o \in ScopeOf(k)
            /\ cache' = c1
            /\ req' = rs
            /\ scope' = Collected(s1, c1, rs)
    /\ UNCHANGED <<failClosed, now, active>>

(* Without a key the layers belong to this request alone.                   *)
BeginEphemeral(r) ==
    /\ req[r].phase = "idle"
    /\ \E o \in Objects :
        /\ ~scope[o].used
        /\ scope' = [scope EXCEPT ![o] = [Free EXCEPT !.used = TRUE]]
        /\ req' = [req EXCEPT ![r] = Open(o, NoKey)]
    /\ UNCHANGED <<failClosed, now, active, cache>>

(* registerProtectedValues: the caller's selections, for this request only. *)
RegisterProtectedValues(r, vs) ==
    /\ req[r].phase = "open"
    /\ req' = [req EXCEPT ![r].user = @ \cup vs]
    /\ UNCHANGED <<failClosed, now, active, cache, scope>>

(* The handler returns: whatever only this request held is dropped.         *)
EndRequest(r) ==
    /\ req[r].phase = "open"
    /\ req' = [req EXCEPT ![r] = Idle]
    /\ scope' = Collected(scope, cache, req')
    /\ UNCHANGED <<failClosed, now, active, cache>>

---------------------------------------------------------------------------
(* Claims, and who wins where they overlap                                  *)

Scope(r) == scope[req[r].scope]
Keyed(r) == req[r].key # NoKey

AllIn(l) == PlainIn[l.text] \cup UNION {{n[1], n[2], n[3]} : n \in NestsIn[l.text]}
AllInBody(ls) == UNION {AllIn(l) : l \in ls}

(* Mutant: what earlier requests found is not claimed again.                *)
FreshClaims(r, found) ==
    [strong |-> Registered \cup req[r].user, weak |-> found \ (Registered \cup req[r].user)]

(* Registered and selected values are claimed with registry authority; what *)
(* a detector found now, or the scope has kept, with detected authority.    *)
(* Surfaces that only ever were remainders are not claimed again.           *)
Claims(r, found) ==
    LET strong == Registered \cup req[r].user
    IN  [strong |-> strong,
         weak   |-> (found \cup (Scope(r).known \ Scope(r).tokenOnly)) \ strong]

Rank(claims, v) ==
    CASE v \in claims.strong -> 2 [] v \in claims.weak -> 1 [] OTHER -> 0

(* The entity behind a claim: the record that registers the surface, or the *)
(* only one the short-name rule links a detected surface to.                *)
EntitiesOf(claims, v) ==
    LET own == {e \in active \cap EntityRecords : v \in FormsOf[e]}
        linkable == {e \in active \cap EntityRecords : v \in AliasesOf[e]}
    IN  IF v \in claims.strong THEN own
        ELSE IF Cardinality(linkable) = 1 THEN linkable ELSE {}

(* What detectors may read of a body at all, and what those with the        *)
(* content view read of it.                                                 *)
Scanned(ls) == {l \in ls : l.kind # "identifier"}
Content(ls) == {l \in ls : l.kind = "content"}
KeysAmong(ls) == {l \in ls : l.kind = "key"}
TextsOf(ls) == {l.text : l \in ls}

Occurrence(l, surface, owner) == [leaf |-> l, surface |-> surface, owner |-> owner]
Clipped(occ) == occ.surface # occ.owner

(* resolveOccurrences: in each part of a nest the claim of higher rank      *)
(* wins, and of equals the longer; a claim that keeps only a part of itself *)
(* is clipped to it.                                                        *)
NestWinners(claims, l, n) ==
    LET whole == Rank(claims, n[1])
        Wins(v) == Rank(claims, v) > whole
        Part(v) == IF Wins(v) THEN {Occurrence(l, v, v)}
                   ELSE IF whole > 0 THEN {Occurrence(l, v, n[1])} ELSE {}
    IN  IF whole > 0 /\ ~Wins(n[2]) /\ ~Wins(n[3])
        THEN {Occurrence(l, n[1], n[1])}
        ELSE Part(n[2]) \cup Part(n[3])

Resolved(claims, l) ==
    {Occurrence(l, v, v) : v \in {w \in PlainIn[l.text] : Rank(claims, w) > 0}}
        \cup UNION {NestWinners(claims, l, n) : n \in NestsIn[l.text]}

(* What is still readable in a leaf once the winners are replaced.          *)
LeftIn(claims, l) ==
    LET gone == {o.surface : o \in Resolved(claims, l)}
    IN  (PlainIn[l.text] \ gone)
          \cup UNION {IF n[1] \in gone THEN {}
                      ELSE IF {n[2], n[3]} \cap gone = {} THEN {n[1], n[2], n[3]}
                      ELSE {n[2], n[3]} \ gone : n \in NestsIn[l.text]}

(* Mutant: a value the scope holds a token for may still be destroyed.      *)
IsDestroyedAnyway(r, claims, harsh, o) ==
    o.owner \in claims.weak /\ EntitiesOf(claims, o.owner) = {} /\ o.owner \in harsh

(* destroyMarkerFor: only a plain finding of a detector under a destroyed   *)
(* category, and only when the scope did not hold it before this pass.      *)
IsDestroyed(r, claims, harsh, o) ==
    /\ o.owner \in claims.weak
    /\ EntitiesOf(claims, o.owner) = {}
    /\ {o.surface, o.owner} \cap Scope(r).known = {}
    /\ o.owner \in harsh

---------------------------------------------------------------------------
(* The redaction passes                                                     *)

(* Every surface that keeps a token enters its authority's layer.  It is    *)
(* admitted to later matching when the body has it unclipped; under a key   *)
(* it gets its entity's token besides.                                      *)
Render(r, claims, layer, occs, by, admitted) ==
    LET surfaces == {o.surface : o \in occs}
        plain == EnsureTokens(AddMatchForms(layer, surfaces \cap admitted, by), surfaces, by)
        links == UNION {EntitiesOf(claims, o.owner) \X {o.surface} : o \in occs}
    IN  IF Keyed(r) THEN EnsureEntityTokens(plain, links) ELSE plain

(* The leaves whose text the scope has not seen, wherever it stood then.    *)
FreshOf(r, ls) == {l \in Scanned(ls) : Keyed(r) => l.text \notin Scope(r).seen}

(* redactBodyOccurrences up to the detectors: which leaves are new to the   *)
(* scope is read before they are asked.                                     *)
StartBody(r, ls) ==
    /\ req[r].phase = "open"
    /\ req' = [req EXCEPT ![r].phase = "detecting", ![r].body = ls, ![r].out = {}, ![r].leaks = {},
                          ![r].fresh = FreshOf(r, ls)]
    /\ UNCHANGED <<failClosed, now, active, cache, scope>>

(* What the detectors could find: anything in the content new to the scope, *)
(* what those that read keys too find in the keys new to it, and what the   *)
(* structural hooks find anywhere in the body.                              *)
Visible(r) ==
    AllInBody(Content(req[r].fresh))
        \cup (AllInBody(req[r].fresh) \cap Patterned)
        \cup (AllInBody(Scanned(req[r].body)) \cap Structural)

(* A detector fails and the policy says the request must not go out.        *)
DetectorBlocks(r) ==
    /\ failClosed
    /\ req[r].phase = "detecting"
    /\ req' = [req EXCEPT ![r].phase = "open", ![r].body = {}, ![r].fresh = {}]
    /\ UNCHANGED <<failClosed, now, active, cache, scope>>

(* Mutant: the text of an exempted leaf counts as screened.                 *)
ScreenedExempted(r, complete, marked) ==
    IF Keyed(r) /\ complete THEN TextsOf(req[r].body \ {o.leaf : o \in marked}) ELSE {}

(* The texts the detectors may skip from now on: a destroyed value is not   *)
(* retained, so the leaf that held it has to be read again; and a leaf they *)
(* were never shown does not count.                                         *)
Screened(r, complete, marked) ==
    IF Keyed(r) /\ complete
    THEN TextsOf(Scanned(req[r].body) \ {o.leaf : o \in marked})
    ELSE {}

(* The scope once the winners occs of a body are rendered: marked become    *)
(* markers, mine were selected by the caller (their layer is the request's),*)
(* the others get tokens under their authority.                             *)
Rendered(r, mild, complete, claims, occs, marked) ==
    LET mine == {o \in occs : o.owner \in req[r].user}
        byRegistry == {o \in occs \ mine : o.owner \in claims.strong}
        byDetection == occs \ (marked \cup mine \cup byRegistry)
        admitted == {o.surface : o \in {x \in occs : ~Clipped(x)}}
        kept == {o.surface : o \in byRegistry \cup byDetection}
    IN  [Scope(r) EXCEPT
            !.derived = Render(r, claims, @, byRegistry, "registry", admitted),
            !.detected = Render(r, claims, @, byDetection, "detected", admitted),
            !.known = @ \cup mild \cup kept,
            !.tokenOnly = (@ \ (kept \cap admitted)) \cup (kept \ admitted),
            !.seen = @ \cup Screened(r, complete, marked),
            !.writers = @ \cup {req[r].key},
            !.swept = IF complete THEN @ \cup TextsOf(Content(req[r].fresh)) ELSE @,
            !.asKey = IF complete THEN @ \cup TextsOf(KeysAmong(req[r].fresh)) ELSE @]

(* The leak gate: known surfaces the rewritten body still shows.            *)
Leaks(r, claims, after) ==
    (UNION {LeftIn(claims, l) : l \in req[r].body})
        \cap (claims.strong \cup after.derived.match \cup after.detected.match)

(* ... and the rest of it, against the scope as it is when they answered.   *)
(* (Each \E ranges over one value: it only names it.)                       *)
FinishBody(r, found, harsh, complete) ==
    /\ req[r].phase = "detecting"
    /\ complete \/ ~failClosed
    /\ \E claims \in {Claims(r, found)} :
       \E occs \in {UNION {Resolved(claims, l) : l \in req[r].body}} :
       \E marked \in {{o \in occs : IsDestroyed(r, claims, harsh, o)}} :
       \E after \in {Rendered(r, found \ harsh, complete, claims, occs, marked)} :
          /\ scope' = [scope EXCEPT ![req[r].scope] = after]
          /\ req' = [req EXCEPT
                ![r].phase = "open", ![r].body = {}, ![r].fresh = {},
                ![r].out = {o.surface : o \in marked},
                ![r].leaks = Leaks(r, claims, after)]
    /\ UNCHANGED <<failClosed, now, active, cache>>

(* redactTextDetailed: a header or query string in which found was found.   *)
(* What is destroyed here is decided against everything held; the rest is   *)
(* admitted to the detected layer unless a registry layer has it.           *)
RedactText(r, found, harsh) ==
    LET s == Scope(r)
        destroyed == {v \in harsh : v \notin Registered \cup req[r].user \cup s.known}
        fresh == {v \in found \ destroyed : ~HeldWithRegistryAuthority(r, v)}
    IN  /\ req[r].phase = "open"
        /\ scope' = [scope EXCEPT ![req[r].scope] =
                        [s EXCEPT !.known = @ \cup fresh,
                                  !.detected = AddMatchForms(@, fresh, "detected"),
                                  !.writers = @ \cup {req[r].key}]]
        /\ req' = [req EXCEPT ![r].out = destroyed, ![r].leaks = {}]
        /\ UNCHANGED <<failClosed, now, active, cache>>

---------------------------------------------------------------------------
(* The registry and the clock                                               *)

(* reloadRegistryValues: whatever the sources list by now is added, and     *)
(* nothing is ever taken away (see ManagedRegistry).                        *)
ReloadRegistryValues(more) ==
    /\ active' = active \cup more
    /\ UNCHANGED <<failClosed, now, cache, scope, req>>

Tick ==
    /\ now < MaxTime
    /\ now' = now + 1
    /\ UNCHANGED <<failClosed, active, cache, scope, req>>

Redact(r) ==
    \/ \E ls \in (SUBSET Leaves) \ {{}} : StartBody(r, ls)
    \/ DetectorBlocks(r)
    \/ \E found \in SUBSET Visible(r), complete \in BOOLEAN :
       \E harsh \in SUBSET (found \cap Destroyed) : FinishBody(r, found, harsh, complete)
    \/ \E found \in SUBSET InTexts :
       \E harsh \in SUBSET (found \cap Destroyed) : RedactText(r, found, harsh)

Next ==
    \/ \E r \in Requests :
        \/ \E k \in Keys : BeginRequest(r, k)
        \/ BeginEphemeral(r)
        \/ \E v \in Selectable : RegisterProtectedValues(r, {v})
        \/ Redact(r)
        \/ EndRequest(r)
    \/ \E more \in SUBSET Records : ReloadRegistryValues(more)
    \/ Tick

Spec == Init /\ [][Next]_vars

---------------------------------------------------------------------------
(* Properties                                                               *)

LayerType == [literal : SUBSET Tokens, linked : SUBSET Tokens, match : SUBSET Values]
ScopeType ==
    [key : Keys \cup {NoKey}, used : BOOLEAN, lastUsed : 0 .. MaxTime,
     detected : LayerType, derived : LayerType,
     known : SUBSET Values, tokenOnly : SUBSET Values, seen : SUBSET Texts,
     writers : SUBSET (Keys \cup {NoKey}), swept : SUBSET Texts, asKey : SUBSET Texts]
RequestType ==
    [phase : {"idle", "open", "detecting"}, key : Keys \cup {NoKey}, scope : Objects,
     user : SUBSET Values, body : SUBSET Leaves, fresh : SUBSET Leaves,
     out : SUBSET Values, leaks : SUBSET Values]

TypeOK ==
    /\ failClosed \in BOOLEAN
    /\ now \in 0 .. MaxTime
    /\ active \in SUBSET Records
    /\ cache \in Seq(Objects)
    /\ scope \in [Objects -> ScopeType]
    /\ req \in [Requests -> RequestType]

(* The cache of keyed scopes never exceeds its cap, and one key never has   *)
(* two scopes in it, which would split its dictionary (engine.ts            *)
(* keyedScopeState, evictKeyedScopes).                                      *)
CacheSound ==
    /\ Len(cache) <= ScopesMax
    /\ \A i, j \in 1 .. Len(cache) : scope[cache[i]].key = scope[cache[j]].key => i = j
    /\ \A i \in 1 .. Len(cache) : scope[cache[i]].key # NoKey

(* A key keeps its scope until it was idle too long, or until a full cache  *)
(* of scopes used at least as recently has taken its place: "Map order is   *)
(* LRU because touches re-insert" (engine.ts evictKeyedScopes).             *)
KeysKeepScopes ==
    [][\A o \in Range(cache) \ Range(cache') :
          \/ now - scope[o].lastUsed > IdleTtl
          \/ /\ Len(cache') = ScopesMax
             /\ \A p \in Range(cache') : scope[o].lastUsed <= scope'[p].lastUsed]_vars

(* "Different keys can never restore each other's values": what a request   *)
(* can restore is registered, selected for it, or was written under its own *)
(* key, whatever was evicted and created anew meanwhile; and requests       *)
(* without a key share nothing.                                             *)
Isolation ==
    \A r \in Requests : req[r].phase # "idle" =>
        /\ \A t \in Restorable(r) :
              \/ t.value \in Registered \cup req[r].user
              \/ Scope(r).writers = {req[r].key}
        /\ \A q \in Requests \ {r} :
              req[q].phase # "idle" /\ req[q].scope = req[r].scope => Keyed(r)

(* A token of a registered value that is restored into a tool call under    *)
(* the default policy either names an entity or shows the hint of detection *)
(* (the typed style), whichever of detection and registration came first    *)
(* and through whichever layer the token is found (governingLayer).  Where  *)
(* tokens show no hint, no literal token of a registered value is restored  *)
(* there.                                                                   *)
SecretsStayOutOfTools ==
    \A r \in Requests : req[r].phase # "idle" =>
        \A t \in ToolRestorable(r) :
            t.value \in Registered => t.label \in EntityRecords \cup {"detected"}

(* The comment on governingLayer: "a detected-layer copy of a registry      *)
(* secret [...] can never make the secret restorable into tool calls".      *)
(* Refuted: an entity token minted for the short name of a record stays     *)
(* restorable when that name is registered later (README, refuted claims).  *)
NoCopyRestoresSecret ==
    \A r \in Requests : req[r].phase # "idle" =>
        \A t \in ToolRestorable(r) : t.value \notin Registered

(* What a pass adds to the detected layer, literal token or entity token,   *)
(* was not registered when it was added, nor selected by the request that   *)
(* added it: "that layer sits ahead of the permanent registry" (vault.ts    *)
(* heldWithRegistryAuthority).                                              *)
DetectionMintsNoSecret ==
    [][\A o \in Objects :
          LET minted == TokensOf(scope'[o].detected) \ TokensOf(scope[o].detected)
          IN  minted # {} =>
                \E r \in Requests :
                   /\ req[r].phase # "idle" /\ req[r].scope = o
                   /\ \A t \in minted : t.value \notin Registered \cup req[r].user]_vars

(* The leak gate stops only on surfaces the scope keeps for restoring       *)
(* alone: all it ever matched is claimed again in every later body.  (Once  *)
(* it has stopped, another request of the scope may claim them all the      *)
(* same.)                                                                   *)
GateStopsOnRemainders ==
    [][\A r \in Requests : req'[r].leaks # req[r].leaks
          => req'[r].leaks \subseteq scope'[req'[r].scope].tokenOnly]_vars

(* The detectors skip a text only when a pass of this scope in which none   *)
(* of them failed was shown it, as content or as an object key: "An         *)
(* exempted leaf was never scanned, so its text must not count as screened  *)
(* for later leaves" (engine.ts redactBodyOccurrences), and neither does    *)
(* what a failed pass had in hand.                                          *)
Shown(s) == s.swept \cup s.asKey
SeenWasShown == \A o \in Objects : scope[o].seen \subseteq Shown(scope[o])

(* The comment on seenLeaves: "leaf hashes already swept by every available *)
(* detector".  Refuted: a text first seen as an object key was shown to no  *)
(* detector with the content view (README, refuted claims).                 *)
SeenWasSwept == \A o \in Objects : scope[o].seen \subseteq scope[o].swept

(* A surface the scope holds a token for is never written as a marker:   *)
(* "the same text must not get a token in one run and a marker in the next" *)
(* (engine.ts destroyMarkerFor).                                            *)
NoMarkerAfterToken ==
    [][\A r \in Requests :
          req'[r].out # req[r].out
            => req'[r].out \cap (Mapped(Scope(r).detected) \cup Mapped(Scope(r).derived)) = {}]_vars

(* A mapping is never taken from a scope while a request can reach it, so a *)
(* token once written can be restored by every later turn of that scope.    *)
MappingsStay ==
    [][\A o \in Objects :
          (\E r \in Requests : req[r].phase # "idle" /\ req[r].scope = o /\ req'[r] # Idle)
            => /\ TokensOf(scope[o].detected) \subseteq TokensOf(scope'[o].detected)
               /\ TokensOf(scope[o].derived) \subseteq TokensOf(scope'[o].derived)]_vars

(* What a turn wrote as a token stays a token, and every later turn can     *)
(* restore it.                                                              *)
TokensStay == NoMarkerAfterToken /\ MappingsStay

(* The README of the engine: "a keyed scope re-runs detection on any        *)
(* re-sent content that held a destroyed value instead of skipping it as    *)
(* already swept".  Refuted: a text an earlier pass has put on the ledger   *)
(* stays there (README, refuted claims).                                    *)
DestroyedIsUnseen ==
    [][\A r \in Requests : req[r].phase = "detecting" =>
          \A l \in req[r].body :
              PlainIn[l.text] \cap req'[r].out # {} => l.text \notin scope'[req[r].scope].seen]_vars

(* The comment on beginRequest: "a value detected on turn 1 stays redacted  *)
(* on turn 3 even if the detector misses it there".                         *)
(* Refuted by TLC (README, refuted claims).                                 *)
DetectedStaysRedacted == \A r \in Requests : req[r].leaks = {}

=============================================================================
