------------------------------ MODULE BodyText ------------------------------
(***************************************************************************)
(* The text of one body on its way through the engine: what detectors and  *)
(* registered forms claim in it, which claim owns which characters         *)
(* (resolveOccurrences), how the winners are spliced out, and the gate     *)
(* that reads the result again.  The body is then sent a second time, as a *)
(* transcript is.  The dictionaries' lifetimes are in KeyedScopes; here    *)
(* one scope, every position of the text, and nothing else.                *)
(*                                                                         *)
(* A text is a sequence of units: characters, and the two things the       *)
(* engine writes, each a unit of its own: the token of a surface and the   *)
(* marker of a destroyed value.                                            *)
(***************************************************************************)
EXTENDS Naturals, Integers, Sequences, FiniteSets, SequencesExt, FiniteSetsExt

CONSTANTS
    Bodies,         \* the bodies explored, each a sequence of leaves
    Registries,     \* sets of registered claims
    Categories,     \* what a detector may call a finding
    Findings,       \* bounds on the findings of the first and of the second pass
    CredentialLike, \* values looksLikeCredentialMaterial holds for
    MinInToken      \* MIN_VALUE_IN_UNMAPPED_TOKEN

VARIABLES
    phase,      \* "detect", "resolve", "splice", "gate", "done" or "text"
    body,       \* the leaves of the document
    registry,   \* the registered claims
    claims,     \* every claim of this pass
    held,       \* values the scope held a token for when the pass began
    occs,       \* admissible occurrences
    winners,    \* resolved occurrences
    scope,      \* match forms, remembered findings, kept remainders
    out,        \* the leaves after splicing
    leaks,      \* what the gate found
    first,      \* observed: what the first sending wrote, <<>> until then
    quiet,      \* observed: everything found in this pass lies on what the engine wrote
    removed,    \* observed: the values a text pass destroyed
    paths       \* whether that pass left names in paths alone

vars == <<phase, body, registry, claims, held, occs, winners, scope, out, leaks, first, quiet, removed, paths>>

---------------------------------------------------------------------------
(* Units                                                                    *)

Space == <<" ">>
NewLine == <<"\n">>
Slash == <<"/">>
Equals == <<"=">>
Star == <<"*">>             \* Markdown syntax
Label == <<"FICTA_">>       \* starts token-shaped text nobody minted
Cd == <<"cd ">>             \* a shell command that takes a directory
Marker == <<"[REDACTED]">>
TokenFor(surface) == [i \in 1 .. Len(surface) + 1 |-> IF i = 1 THEN "FICTA" ELSE surface[i - 1][1]]

IsToken(u) == u[1] = "FICTA"
IsSpace(u) == u \in {Space, NewLine}
IsUpper(u) == u \in {<<"A">>, <<"B">>}
IsLetter(u) == u \in {<<"a">>, <<"b">>} \/ IsUpper(u)
Lower(u) == IF u = <<"A">> THEN <<"a">> ELSE IF u = <<"B">> THEN <<"b">> ELSE u
IsWord(u) == IsLetter(u) \/ IsToken(u) \/ u \in {Label, Cd}
SurfaceOf(token) == [i \in 1 .. Len(token) - 1 |-> <<token[i + 1]>>]

---------------------------------------------------------------------------
(* Matching a form                                                          *)

Ascending(S) == [i \in 1 .. Cardinality(S) |-> CHOOSE x \in S : Cardinality({y \in S : y < x}) = i - 1]

(* Each separator of a form permits any blanks with at most one line break: *)
(* a run of blanks reads as one unless it breaks a paragraph.               *)
Reads(s, p) ==
    LET run == {q \in 1 .. p - 1 : \A k \in q .. p : IsSpace(s[k])}
    IN  ~IsSpace(s[p]) \/ run = {} \/ (s[p] = NewLine /\ \E q \in run : s[q] = NewLine)
Squeezed(s) ==
    LET kept == Ascending({p \in 1 .. Len(s) : Reads(s, p)})
    IN  [i \in 1 .. Len(kept) |-> IF IsSpace(s[kept[i]]) THEN Space ELSE s[kept[i]]]


(* A value is a form in which every run of blanks is one separator.         *)
AsForm(s) ==
    LET kept == Ascending({p \in 1 .. Len(s) : ~IsSpace(s[p]) \/ p = 1 \/ ~IsSpace(s[p - 1])})
    IN  [i \in 1 .. Len(kept) |-> IF IsSpace(s[kept[i]]) THEN Space ELSE s[kept[i]]]

Folded(s) == [i \in 1 .. Len(s) |-> Lower(s[i])]
Same(s, form, anyCase) ==
    IF anyCase THEN Folded(Squeezed(s)) = Folded(form) ELSE Squeezed(s) = form

HasSpace(s) == \E i \in 1 .. Len(s) : IsSpace(s[i])
Bounded(text, m, value) ==
    /\ (IsWord(value[1]) /\ m[1] > 1) => ~IsWord(text[m[1] - 1])
    /\ (IsWord(Last(value)) /\ m[2] < Len(text)) => ~IsWord(text[m[2] + 1])

(* expansionSpans: from left to right, each match after the last, and then  *)
(* only those that stand at word boundaries if the form asks for it.        *)
ExpansionSpans(text, value, anyCase, wordBounded) ==
    LET n == Len(text)
        form == AsForm(value)
        Ends(i) == {j \in i .. n : /\ ~IsSpace(text[i]) /\ ~IsSpace(text[j])
                                   /\ Same(SubSeq(text, i, j), form, anyCase)}
        From[i \in 1 .. n + 1] ==
            IF i = n + 1 THEN {}
            ELSE LET ends == Ends(i)
                 IN  IF ends = {} THEN From[i + 1]
                     ELSE {<<i, Max(ends)>>} \cup From[Max(ends) + 1]
    IN  IF value = <<>> THEN {}
        ELSE {m \in From[1] : wordBounded => Bounded(text, m, value)}

---------------------------------------------------------------------------
(* Where a match is left alone                                              *)

(* Text minted by the engine is never looked into; text that only looks     *)
(* minted is, except for its label, and except for short values.            *)
InTokenShape(text, p, short) ==
    \/ IsToken(text[p]) \/ text[p] = Label
    \/ short /\ \E q \in 1 .. p - 1 : text[q] = Label /\ \A k \in q + 1 .. p : IsLetter(text[k])
Exempt(text, m) == \E p \in m[1] .. m[2] : InTokenShape(text, p, m[2] - m[1] + 1 < MinInToken)

EndsToken(u) == IsSpace(u) \/ u \in {Equals, Marker, Cd}
TokenStart(text, m) == Max({1} \cup {p + 1 : p \in {q \in 1 .. m[1] - 1 : EndsToken(text[q])}})
TokenEnd(text, m) == Min({Len(text)} \cup {p - 1 : p \in {q \in m[2] + 1 .. Len(text) : EndsToken(text[q])}})

PathKind(text, m) ==
    LET from == TokenStart(text, m)
    IN  IF text[from] = Slash THEN "explicit"
        ELSE IF \E p \in from .. TokenEnd(text, m) : text[p] = Slash THEN "relative" ELSE "none"
ShellArgument(text, m) ==
    LET from == TokenStart(text, m)
    IN  from > 1 /\ text[from - 1] = Cd /\ (from > 2 => IsSpace(text[from - 2]))
Assigned(text, m) == LET from == TokenStart(text, m) IN from > 1 /\ text[from - 1] = Equals

(* isInsidePathLikeToken: names in paths stay readable, secrets do not.     *)
InPath(text, m, preserve) ==
    LET needle == SubSeq(text, m[1], m[2])
        kind == PathKind(text, m)
        shell == ShellArgument(text, m)
    IN  /\ preserve
        /\ kind # "none" \/ shell
        /\ needle \notin CredentialLike
        /\ \/ \A i \in 1 .. Len(needle) : IsLetter(needle[i]) \/ needle[i] \in {Equals, Label}
           \/ shell
           \/ kind = "explicit" /\ ~Assigned(text, m)

Redactable(text, m, preserve) == ~Exempt(text, m) /\ ~InPath(text, m, preserve)

---------------------------------------------------------------------------
(* Claims and their occurrences                                             *)

Claim(id, authority, forms, category) ==
    [id |-> id, authority |-> authority, forms |-> forms, category |-> category]
Form(value, wordBounded) == [value |-> value, wordBounded |-> wordBounded]

Occ(leaf, m, claim, origin) == [leaf |-> leaf, from |-> m[1], to |-> m[2], claim |-> claim, origin |-> origin]
Span(o) == <<o.from, o.to>>
SurfaceIn(ls, o) == SubSeq(ls[o.leaf], o.from, o.to)

(* Names may gain case variants; a registered value of one letter does not. *)
CaseExpandable(value) == Cardinality({i \in 1 .. Len(value) : IsLetter(value[i])}) >= 2
LowercaseWord(s) == ~HasSpace(s) /\ (\E i \in 1 .. Len(s) : IsLetter(s[i])) /\ \A i \in 1 .. Len(s) : ~IsUpper(s[i])

(* expandEntities: every form of every claim, in every leaf.                *)
Expanded(ls, cs) ==
    UNION {UNION {UNION {
        {Occ(l, m, c, "expansion") : m \in
            {x \in ExpansionSpans(ls[l], f.value, c.authority = "detected" \/ CaseExpandable(f.value), f.wordBounded) :
                c.authority = "detected" =>
                    (LowercaseWord(SubSeq(ls[l], x[1], x[2])) => LowercaseWord(f.value))}}
        : f \in c.forms} : c \in cs} : l \in 1 .. Len(ls)}

(* normalizeMarkdownForDetection: what an NLP detector reads of the leaves  *)
(* joined by line breaks, as the positions it kept; 0 is a joint.           *)
Joined(ls) == FlattenSeq([i \in 1 .. Len(ls) |->
    [p \in 1 .. Len(ls[i]) |-> <<i, p>>] \o (IF i < Len(ls) THEN << <<i, 0>> >> ELSE <<>>)])
ReadAt(ls, at) == IF at[2] = 0 THEN NewLine ELSE ls[at[1]][at[2]]
View(ls) ==
    LET joined == Joined(ls)
        kept == Ascending({i \in 1 .. Len(joined) : ReadAt(ls, joined[i]) # Star})
    IN  [i \in 1 .. Len(kept) |-> joined[kept[i]]]

(* A finding is a stretch of that view.  Its value is what was read, its    *)
(* occurrences lie where the stretch was read from (toRaw,                  *)
(* mapJoinedOffsets): one per leaf, clipped if it ran across a joint.  It    *)
(* begins and ends with neither a blank nor a separator, as names, numbers   *)
(* and keys do.                                                             *)
ValueOf(ls, s) == LET view == View(ls) IN [i \in 1 .. s[2] - s[1] + 1 |-> ReadAt(ls, view[s[1] + i - 1])]
Edge(u) == ~IsSpace(u) /\ u \notin {Slash, Equals, Cd}
Stretches(ls) ==
    LET view == View(ls)
        Solid(i) == Edge(ReadAt(ls, view[i]))
    IN  {s \in (1 .. Len(view)) \X (1 .. Len(view)) : s[1] <= s[2] /\ Solid(s[1]) /\ Solid(s[2])}
Pieces(ls, s) ==
    LET view == View(ls)
        at == view[s[1]]
        to == view[s[2]]
        In(k) == <<k, IF k = at[1] THEN at[2] ELSE 1, IF k = to[1] THEN to[2] ELSE Len(ls[k])>>
    IN  {x \in {In(k) : k \in at[1] .. to[1]} : x[2] <= x[3]}
Mapped(ls, s, claim) ==
    {Occ(x[1], <<x[2], x[3]>>, claim, IF Cardinality(Pieces(ls, s)) > 1 THEN "clipped" ELSE "detector")
        : x \in Pieces(ls, s)}

(* A backend that gives no offsets: its value wherever it stands as is.     *)
Exact(ls, claim) ==
    UNION {{Occ(l, m, claim, "detector") :
        m \in UNION {ExpansionSpans(ls[l], f.value, FALSE, FALSE) : f \in claim.forms}} : l \in 1 .. Len(ls)}

(* compareCategoryClaims: a destroyed category wins, then the order of       *)
(* detection.entityPriority (lower is earlier).                             *)
Preferred(a, b) ==
    IF a.destroyed # b.destroyed THEN IF a.destroyed THEN a ELSE b
    ELSE IF a.priority < b.priority THEN a ELSE b

Trim(ls, l, m) ==
    LET solid == {p \in m[1] .. m[2] : ~IsSpace(ls[l][p])}
    IN  IF solid = {} THEN {} ELSE {<<Min(solid), Max(solid)>>}

(* Mutant: findings on markers are kept.                                    *)
OnMarkersToo(ls, o) == {o}

(* outsideDestroyMarkers: what a detector claims of a marker is taken out   *)
(* of the claim.                                                            *)
OutsideMarkers(ls, o) ==
    LET marks == {p \in o.from .. o.to : ls[o.leaf][p] = Marker}
        cuts == Ascending(marks \cup {o.from - 1, o.to + 1})
        gaps == {<<cuts[i] + 1, cuts[i + 1] - 1>> : i \in 1 .. Len(cuts) - 1}
    IN  IF o.claim.authority # "detected" \/ marks = {} THEN {o}
        ELSE {[o EXCEPT !.from = m[1], !.to = m[2], !.origin = "clipped"] :
                 m \in UNION {Trim(ls, o.leaf, g) : g \in {x \in gaps : x[1] <= x[2]}}}

Admissible(ls, os) ==
    {o \in UNION {OutsideMarkers(ls, x) : x \in os} : Redactable(ls[o.leaf], Span(o), TRUE)}

---------------------------------------------------------------------------
(* resolveOccurrences                                                       *)

AuthorityRank(a) == IF a = "registry" THEN 2 ELSE 1
OriginRank(o) == CASE o = "detector" -> 3 [] o = "expansion" -> 2 [] OTHER -> 1

(* comparePriority as a number list, greater wins in the first difference.  *)
Priority(o) ==
    <<AuthorityRank(o.claim.authority), o.claim.category.confidence, o.to - o.from, -o.from, -o.claim.id,
      OriginRank(o.origin)>>
Beats(a, b) ==
    \E i \in 1 .. 6 : Priority(a)[i] > Priority(b)[i] /\ \A j \in 1 .. i - 1 : Priority(a)[j] = Priority(b)[j]
Best(os) == CHOOSE o \in os : \A x \in os : x = o \/ Beats(o, x)

(* Mutant: a claim that loses a part of itself is given up whole.           *)
WholeClaims(os) ==
    {[source |-> o, from |-> o.from, to |-> o.to] :
        o \in {x \in os : \A y \in os : y = x \/ y.to < x.from \/ x.to < y.from \/ Beats(x, y)}}

(* Between two neighbouring boundaries the set of claims is the same, so    *)
(* one of them owns the whole slice; neighbours of one owner are joined,    *)
(* and a remainder of a claim loses the blanks at its edges.                *)
Slices(os) ==
    LET edges == Ascending({o.from : o \in os} \cup {o.to + 1 : o \in os})
        Over(i) == {o \in os : o.from <= edges[i] /\ o.to + 1 >= edges[i + 1]}
        owned == {i \in 1 .. Len(edges) - 1 : Over(i) # {}}
        Joins(i) == i - 1 \in owned /\ Best(Over(i - 1)) = Best(Over(i))
        starts == {i \in owned : ~Joins(i)}
        EndOf(i) == Max({j \in owned : j >= i /\ \A k \in i + 1 .. j : k \in owned /\ Joins(k)})
    IN  {[source |-> Best(Over(i)), from |-> edges[i], to |-> edges[EndOf(i) + 1] - 1] : i \in starts}

Finalize(ls, s) ==
    LET cut == s.from # s.source.from \/ s.to # s.source.to
    IN  {[leaf |-> s.source.leaf, from |-> m[1], to |-> m[2], source |-> s.source,
          clipped |-> cut \/ s.source.origin = "clipped"]
            : m \in IF cut THEN Trim(ls, s.source.leaf, <<s.from, s.to>>) ELSE {<<s.from, s.to>>}}

ResolveOccurrences(ls, os) ==
    UNION {UNION {Finalize(ls, s) : s \in Slices({o \in os : o.leaf = l})} : l \in {o.leaf : o \in os}}

---------------------------------------------------------------------------
(* Splicing and the gate                                                    *)

(* spliceResolvedOccurrences: the ranges are disjoint, so what replaces     *)
(* each stands where it began.                                              *)
Splice(text, ws, Write(_)) ==
    FlattenSeq([p \in 1 .. Len(text) |->
        IF \E w \in ws : p = w.from THEN <<Write(CHOOSE w \in ws : p = w.from)>>
        ELSE IF \E w \in ws : w.from < p /\ p <= w.to THEN <<>>
        ELSE <<text[p]>>])

(* destroyMarkerFor: a detector's finding in a destroyed category, unless    *)
(* the scope already held the value.                                        *)
Destroyed(ls, had, w) ==
    /\ w.source.claim.authority = "detected"
    /\ w.source.claim.category.destroyed
    /\ ({SurfaceIn(ls, w)} \cup {f.value : f \in w.source.claim.forms}) \cap had = {}

Replacement(ls, had, w) ==
    IF Destroyed(ls, had, w) THEN Marker ELSE TokenFor(SurfaceIn(ls, w))

(* occurrenceWordBounded: as the form was that claimed the whole surface.   *)
SurfaceBounded(ls, w) ==
    LET own == {f \in w.source.claim.forms : Same(SurfaceIn(ls, w), AsForm(f.value), TRUE)}
    IN  own # {} /\ \A f \in own : f.wordBounded

(* The forms the dictionaries match: bounded only where every layer that    *)
(* has the form says so.                                                    *)
RegisteredForms == UNION {c.forms : c \in registry}
AllForms(s) == RegisteredForms \cup s.forms
Values(s) == {f.value : f \in AllForms(s)}
WordBounded(s, v) == v \in Values(s) /\ \A f \in AllForms(s) : f.value = v => f.wordBounded

KnownMatches(s, text, v) == ExpansionSpans(text, v, FALSE, WordBounded(s, v))

(* leakValues: a form of the dictionaries that can still be read.           *)
LeakValues(s, text, preserve) ==
    {v \in Values(s) : \E m \in KnownMatches(s, text, v) : Redactable(text, m, preserve)}

(* entityPolicyLeakOwners: and, apart from the dictionaries, what the       *)
(* claims of this pass would still match.                                   *)
PolicyLeaks(ls, cs) ==
    {SurfaceIn(ls, o) : o \in {x \in Expanded(ls, cs) : Redactable(ls[x.leaf], Span(x), TRUE)}}

---------------------------------------------------------------------------
(* The pass over a body                                                     *)

NoScope == [forms |-> {}, known |-> {}, tokenOnly |-> {}]
Registered == [name |-> "registered", destroyed |-> FALSE, priority |-> 0, confidence |-> 3]

(* No two claims of a registry share an id, and theirs come before those of  *)
(* detected claims; nobody registers the text of a marker, of which only     *)
(* detected claims are cleared (outsideDestroyMarkers); and                  *)
(* compareCategoryClaims orders any two categories.                          *)
ASSUME BodyTextAssumption ==
    /\ Bodies \subseteq Seq(Seq(Seq(STRING)))
    /\ \A cs \in Registries :
          /\ IsFiniteSet(cs)
          /\ \A c \in cs : c.authority = "registry" /\ c.category = Registered /\ c.id \in 0 .. 10
          /\ \A c, d \in cs : c.id = d.id => c = d
          /\ \A c \in cs : \A f \in c.forms :
                Len(f.value) \in Nat /\ \A i \in 1 .. Len(f.value) : f.value[i] # Marker
    /\ \A c \in Categories : c.destroyed \in BOOLEAN /\ c.priority \in Nat \ {0} /\ c.confidence \in Int
    /\ \A c, d \in Categories : c.priority = d.priority => c = d
    /\ \A pass \in 1 .. 2 : Findings[pass] \in Nat

Init ==
    /\ phase = "detect"
    /\ body \in Bodies
    /\ registry \in Registries
    /\ claims = {} /\ held = {} /\ occs = {} /\ winners = {} /\ leaks = {}
    /\ scope = NoScope
    /\ out = <<>> /\ first = <<>> /\ quiet = FALSE
    /\ removed = {} /\ paths = TRUE

Held(s) == {k.value : k \in s.known}

(* remember: the category a value was first kept under stays.               *)
Remembered(known, items) == known \cup {k \in items : \A x \in known : x.value # k.value}

(* A finding: where, under what category, and whether the backend said      *)
(* where.                                                                   *)
Found == [at : Stretches(body), category : Categories, exact : BOOLEAN]
FoundValue(f) == ValueOf(body, f.at)

(* What the scope keeps and what was found now, one category for each       *)
(* value, as literal claims of detected authority.  Their ids are hashes:   *)
(* any order does.                                                          *)
Reports(found) ==
    {[value |-> FoundValue(f), category |-> f.category] : f \in found}
        \cup {k \in scope.known : k.value \notin scope.tokenOnly}
ChosenCategory(found, v) ==
    LET cats == {k.category : k \in {x \in Reports(found) : x.value = v}}
    IN  CHOOSE c \in cats : \A d \in cats : d = c \/ Preferred(c, d) = c
DetectedClaims(found) ==
    LET order == SetToSeq({k.value : k \in Reports(found)})
        Kept(v) == v \in Held(scope) \ scope.tokenOnly
    IN  {Claim(10 + i, "detected", {Form(order[i], Kept(order[i]) /\ WordBounded(scope, order[i]))},
               ChosenCategory(found, order[i])) : i \in 1 .. Len(order)}

ClaimOf(cs, v) == CHOOSE c \in cs : c.authority = "detected" /\ \E f \in c.forms : f.value = v

(* What the pass works on: where the findings are placed, and every form of *)
(* every claim.                                                             *)
Placed(found, cs) ==
    UNION {LET c == ClaimOf(cs, FoundValue(f))
           IN  IF f.exact THEN Exact(body, c) ELSE Mapped(body, f.at, c) : f \in found}

Written(u) == u = Marker \/ IsToken(u)
OnWritten(s) ==
    \A x \in Pieces(body, s) : \A p \in x[2] .. x[3] :
        IsSpace(body[x[1]][p]) \/ Written(body[x[1]][p])

(* redactBodyOccurrences, up to the resolver.                               *)
Detect(found) ==
    /\ phase = "detect"
    /\ \E cs \in {registry \cup DetectedClaims(found)} :
          /\ claims' = cs
          /\ occs' = Admissible(body, Placed(found, cs) \cup Expanded(body, cs))
    /\ held' = Held(scope)
    /\ scope' = [scope EXCEPT !.known =
          Remembered(@, {[value |-> FoundValue(f), category |-> ChosenCategory(found, FoundValue(f))] :
                            f \in {g \in found : ~ChosenCategory(found, FoundValue(g)).destroyed}})]
    /\ quiet' = \A f \in found : ~f.exact /\ OnWritten(f.at)
    /\ phase' = "resolve"
    /\ UNCHANGED <<body, registry, winners, out, leaks, first, removed, paths>>

(* resolveOccurrences on what is admissible.                                *)
Resolve ==
    /\ phase = "resolve"
    /\ winners' = ResolveOccurrences(body, occs)
    /\ phase' = "splice"
    /\ UNCHANGED <<body, registry, claims, held, occs, scope, out, leaks, first, quiet, removed, paths>>

(* A winner that keeps a token is remembered with its surface: to be        *)
(* matched again if the body has the surface unclipped somewhere, else only *)
(* to be restored.                                                          *)
KeptWinners == {w \in winners : ~Destroyed(body, held, w)}
Render(s) ==
    LET whole == {SurfaceIn(body, w) : w \in {x \in winners : ~x.clipped}}
        kept == {SurfaceIn(body, w) : w \in KeptWinners}
        fresh == {Form(v, \A w \in KeptWinners : SurfaceIn(body, w) = v => SurfaceBounded(body, w)) :
                     v \in kept \cap whole}
        Strict(f) == Form(f.value, \A g \in fresh \cup s.forms : g.value = f.value => g.wordBounded)
    IN  [forms |-> {Strict(f) : f \in fresh \cup s.forms},
         known |-> Remembered(s.known, {[value |-> SurfaceIn(body, w), category |-> w.source.claim.category]
                                           : w \in KeptWinners}),
         tokenOnly |-> (s.tokenOnly \ (kept \cap whole)) \cup (kept \ whole)]

SpliceAll ==
    /\ phase = "splice"
    /\ out' = [l \in 1 .. Len(body) |->
                  Splice(body[l], {w \in winners : w.leaf = l}, LAMBDA w : Replacement(body, held, w))]
    /\ scope' = Render(scope)
    /\ phase' = "gate"
    /\ UNCHANGED <<body, registry, claims, held, occs, winners, leaks, first, quiet, removed, paths>>

Gate ==
    /\ phase = "gate"
    /\ leaks' = UNION {LeakValues(scope, out[l], TRUE) : l \in 1 .. Len(out)} \cup PolicyLeaks(out, claims)
    /\ phase' = "done"
    /\ UNCHANGED <<body, registry, claims, held, occs, winners, scope, out, first, quiet, removed, paths>>

(* The transcript is sent again, in the form it left in; a body the gate    *)
(* stopped is not.                                                          *)
Resend ==
    /\ phase = "done" /\ first = <<>> /\ leaks = {}
    /\ first' = out /\ body' = out
    /\ claims' = {} /\ held' = {} /\ occs' = {} /\ winners' = {} /\ out' = <<>> /\ quiet' = FALSE
    /\ phase' = "detect"
    /\ UNCHANGED <<registry, scope, leaks, removed, paths>>

(* A header or a query string: its text as it stands, and names in paths    *)
(* are left alone only in a query.                                          *)
TextFound == [at : {x \in Stretches(body) : \A i \in x[1] .. x[2] : View(body)[i][2] = i}, category : Categories]

(* From left to right, each occurrence that may be replaced in the text as  *)
(* it then stands.                                                          *)
ReplaceEach(text, v, unit, May(_, _)) ==
    LET Step(acc, p) ==
            LET at == Len(acc.done) + 1
                now == acc.done \o SubSeq(text, p, Len(text))
            IN  IF p < acc.next THEN acc
                ELSE IF /\ p + Len(v) - 1 <= Len(text) /\ SubSeq(text, p, p + Len(v) - 1) = v
                        /\ May(now, <<at, at + Len(v) - 1>>)
                     THEN [done |-> Append(acc.done, unit), next |-> p + Len(v)]
                     ELSE [done |-> Append(acc.done, text[p]), next |-> p + 1]
    IN  FoldLeft(Step, [done |-> <<>>, next |-> 1], [i \in 1 .. Len(text) |-> i]).done

(* Longest first; of equals, any order.                                     *)
LongestFirst(values) ==
    CHOOSE order \in [1 .. Cardinality(values) -> values] :
        \A i, j \in 1 .. Cardinality(values) : i < j => order[i] # order[j] /\ Len(order[i]) >= Len(order[j])

(* Mutant: the values that keep tokens are replaced before the others.      *)
TokensFirst(text, destroyed, s, preserve) ==
    LET Known(t, v) == Splice(t, {w \in {[from |-> m[1], to |-> m[2]] : m \in KnownMatches(s, t, v)} :
                                     Redactable(t, <<w.from, w.to>>, preserve)}, LAMBDA w : TokenFor(v))
        May(t, m) == (\A p \in m[1] .. m[2] : t[p] # Marker) /\ Redactable(t, m, preserve)
        Gone(t, v) == ReplaceEach(t, v, Marker, May)
    IN  FoldLeft(Gone, FoldLeft(Known, text, LongestFirst(Values(s))), LongestFirst(destroyed))

(* destroyInText, then replaceKnown.                                        *)
SweptText(text, destroyed, s, preserve) ==
    LET May(t, m) == (\A p \in m[1] .. m[2] : t[p] # Marker) /\ Redactable(t, m, preserve)
        Gone(t, v) == ReplaceEach(t, v, Marker, May)
        Known(t, v) == Splice(t, {w \in {[from |-> m[1], to |-> m[2]] : m \in KnownMatches(s, t, v)} :
                                     Redactable(t, <<w.from, w.to>>, preserve)}, LAMBDA w : TokenFor(v))
    IN  FoldLeft(Known, FoldLeft(Gone, text, LongestFirst(destroyed)), LongestFirst(Values(s)))

(* redactTextDetailed: what is registered or held keeps its token; the rest  *)
(* of what a destroyed category reports is destroyed.                       *)
RedactText(found, preserve) ==
    /\ phase = "detect" /\ Len(body) = 1 /\ first = <<>>
    /\ LET value == [f \in found |-> SubSeq(body[1], f.at[1], f.at[2])]
           kept == Held(scope) \cup {g.value : g \in RegisteredForms}
           destroyed == {value[f] : f \in {x \in found : x.category.destroyed}} \ kept
           fresh == {[value |-> value[f], category |-> f.category] :
                        f \in {x \in found : value[x] \notin destroyed \cup {g.value : g \in RegisteredForms}}}
       IN  \E next \in {[scope EXCEPT !.forms = @ \cup {Form(k.value, FALSE) : k \in fresh},
                                      !.known = Remembered(@, fresh)]} :
           \E text \in {SweptText(body[1], destroyed, next, preserve)} :
              /\ scope' = next
              /\ out' = <<text>>
              /\ leaks' = LeakValues(next, text, preserve)
              /\ removed' = destroyed /\ paths' = preserve
    /\ phase' = "text"
    /\ UNCHANGED <<body, registry, claims, held, occs, winners, first, quiet>>

Pass ==
    \E n \in {Findings[IF first = <<>> THEN 1 ELSE 2]} :
        \/ \E found \in {{}} \cup {Range(fs) : fs \in [1 .. n -> Found]} : Detect(found)
        \/ \E found \in {{}} \cup {Range(fs) : fs \in [1 .. n -> TextFound]}, preserve \in BOOLEAN :
               RedactText(found, preserve)

Next == Pass \/ Resolve \/ SpliceAll \/ Gate \/ Resend

Spec == Init /\ [][Next]_vars

---------------------------------------------------------------------------
(* Properties                                                               *)

Restored(text) == FlattenSeq([p \in 1 .. Len(text) |-> IF IsToken(text[p]) THEN SurfaceOf(text[p]) ELSE <<text[p]>>])

OneWord(v) == \A i \in 1 .. Len(v) : ~EndsToken(v[i])

Standing(text, v) == {m \in (1 .. Len(text)) \X (1 .. Len(text)) : m[1] <= m[2] /\ SubSeq(text, m[1], m[2]) = v}

(* The phases are these, and what a pass computes is about its body.        *)
TypeOK ==
    /\ phase \in {"detect", "resolve", "splice", "gate", "done", "text"}
    /\ \A o \in occs \cup winners : o.leaf \in 1 .. Len(body) /\ 1 <= o.from /\ o.from <= o.to
    /\ \A k \in scope.known : k.category.destroyed => k.category \in Categories

(* resolveOccurrences' promise: the winners never overlap, and every        *)
(* character that an admissible claim covers, blanks apart, belongs to the  *)
(* claim that ranks first among those over that very character.            *)
EveryClaimOwned ==
    phase = "splice" =>
        /\ \A v, w \in winners : v # w /\ v.leaf = w.leaf => v.to < w.from \/ w.to < v.from
        /\ \A o \in occs : \A p \in o.from .. o.to :
              ~IsSpace(body[o.leaf][p]) =>
                  \E w \in winners :
                      /\ w.leaf = o.leaf /\ w.from <= p /\ p <= w.to
                      /\ \A x \in occs : (x.leaf = o.leaf /\ x.from <= p /\ p <= x.to) =>
                            x = w.source \/ Beats(w.source, x)

(* What a header or a query string destroyed does not come back by          *)
(* restoring its tokens, though a value that keeps a token lies inside it:   *)
(* where it can be read it was left as part of a path, or stands beside a    *)
(* marker, which ended the path.  And what the gate finds stands in a word   *)
(* that something was taken out of.  This is said of values that are one     *)
(* word: across a blank a token's surface can join what the text kept apart, *)
(* and what is taken out before a value of two words moves the scan for it.  *)
DestroyedForGood ==
    phase = "text" =>
        /\ \E text \in {Restored(out[1])} :
              \A v \in {w \in removed : OneWord(w)} : \A m \in Standing(text, v) :
                  Redactable(text, m, paths) =>
                      \E p \in {TokenStart(text, m) - 1, TokenEnd(text, m) + 1} \cap (1 .. Len(text)) :
                          text[p] = Marker
        /\ \A v \in {w \in leaks : OneWord(w)} : \E m \in KnownMatches(scope, out[1], v) :
              \E p \in (TokenStart(out[1], m) - 1 .. TokenEnd(out[1], m) + 1) \cap (1 .. Len(out[1])) :
                  Written(out[1][p])

(* engine/README.md, "Deterministic and idempotent": redacting the output    *)
(* again changes nothing, so a document that passed passes again, when all   *)
(* that is found in it are the markers and tokens the first pass wrote.      *)
(* Refuted by TLC (README, refuted claims).                                  *)
PassesAgain == phase = "done" /\ first # <<>> /\ quiet => leaks = {}

(* What has a token keeps it: no surface sent as a token is destroyed when  *)
(* the transcript comes back with more of it.                               *)
TokensSurvive ==
    phase = "done" /\ first # <<>> =>
        \A l \in 1 .. Len(first) : \A p \in 1 .. Len(first[l]) :
            Written(first[l][p]) =>
                Cardinality({q \in 1 .. Len(out[l]) : out[l][q] = first[l][p]})
                    >= Cardinality({q \in 1 .. Len(first[l]) : first[l][q] = first[l][p]})

=============================================================================
