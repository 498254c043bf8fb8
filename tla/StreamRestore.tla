--------------------------- MODULE StreamRestore ---------------------------
(* Restoring surrogate tokens in a response that arrives in pieces: the     *)
(* plain text stream, the stream of server-sent events with its blocks of   *)
(* text and of tool arguments, the scan for tokens nobody maps, and the     *)
(* filter that takes forged highlight markers out of what upstream wrote.   *)
(*                                                                          *)
(* A text is a sequence of characters. "F_" stands for the prefix FICTA_,   *)
(* Digits digits for the 32 of a literal's token; "O" for the type and tag  *)
(* of an entity's token, whose surface is one more character. "F" and "f"   *)
(* are digits too, as in the source. A restored value is one character that *)
(* JSON has to escape.                                                      *)
EXTENDS Integers, Sequences, FiniteSets, SequencesExt

CONSTANTS
    Issued,       \* token -> [value, layer]: what the request's scope can restore
    Blocks,       \* blocks of a streamed answer
    Options,      \* the settings a response is restored under
    PlainTexts,   \* texts of a response that is not an event stream
    BlockTexts,   \* block -> texts the model may write there
    Siblings,     \* texts beside the fragments of an event
    JsonTexts,    \* raw JSON text for the marker filter
    MaxDelta      \* longest fragment of a block in one event

\* A value stands for text that only a restore brings into a response, and a layer has
\* one token for a value.
StreamValues == {Issued[t].value : t \in DOMAIN Issued}
Character == STRING \ StreamValues

ASSUME StreamAssumption ==
    /\ MaxDelta \in Nat
    /\ {"#", "?", "~", "[", "|", "]", "\\"} \subseteq Character
    /\ \A t, u \in DOMAIN Issued : Issued[t].value = Issued[u].value => t = u
    /\ PlainTexts \cup Siblings \cup JsonTexts \cup UNION {BlockTexts[b] : b \in Blocks} \subseteq Seq(Character)

VARIABLES
    mode,     \* "plain", "events" or "filter"
    opts,     \* [guard, markers, tools, prose, kind]: kind[b] is "text", "tool" (JSON) or "raw"
    src,      \* what the model writes, by block
    at,       \* how much of it was received
    buffer,   \* what the restore keeps back, by block
    given,    \* what the client was given, by block
    again,    \* the completed block as a replay event gave it, or <<>>
    aside,    \* what sibling fields and malformed records became
    window,   \* what the scan for residual tokens may still need
    residual, \* tokens reported as unmapped
    stage     \* "open", "cut" or "ended"

streamVars == <<mode, opts, src, at, buffer, given, again, aside, window, residual, stage>>

MaxLength == 4                        \* strategy.maxLength, and RESIDUAL_MAX_LENGTH
Digits == 2                           \* hexadecimal digits of a literal token
Hex == {"f", "2"}
AnyHex == Hex \cup {"F"}
Base32 == {"F", "2"}
Word == AnyHex \cup {"_", "O", "x", "u"}
MarkerLead == "["                           \* first character of every marker
Plain == "plain"                      \* the one block of a response without events

Ending(s, n) == SubSeq(s, Len(s) - n + 1, Len(s))
AllBut(s, n) == SubSeq(s, 1, Len(s) - n)
Is(s, i, cs) == i \in 1 .. Len(s) /\ s[i] \in cs

(***************************************************************************)
(* Tokens in a text.                                                       *)
(***************************************************************************)

PrefixAt(s, i) == Is(s, i, {"F"}) /\ Is(s, i + 1, {"_"})
AnyPrefixAt(s, i) == ~Is(s, i - 1, Word) /\ Is(s, i, {"F", "f"}) /\ Is(s, i + 1, {"_"})

\* A complete token starts at i: of a literal, or of an entity's surface.
TokenAt(s, i) ==
    /\ PrefixAt(s, i)
    /\ \/ \A d \in 1 .. Digits : Is(s, i + 1 + d, Hex)
       \/ Is(s, i + 2, {"O"}) /\ Is(s, i + 3, Base32)

\* A scan goes from left to right: what begins in the last character of a token found is passed over.
Scanned(s) ==
    LET fresh[i \in 1 .. Len(s)] == TokenAt(s, i - MaxLength + 1) => ~fresh[i - MaxLength + 1]
    IN {i \in 1 .. Len(s) : fresh[i]}

Tokens(s) == {i \in Scanned(s) : TokenAt(s, i)}
TokenOf(s, i) == SubSeq(s, i, i + MaxLength - 1)
Known(s) == {i \in Tokens(s) : TokenOf(s, i) \in DOMAIN Issued}

\* An entity's tag without a surface after it.
FragmentAt(s, i) == PrefixAt(s, i) /\ Is(s, i + 2, {"O"}) /\ ~Is(s, i + 3, Base32)
Fragments(s) == {i \in Scanned(s) : FragmentAt(s, i)}

\* Tokens a model changed: any case, a digit less or more, or split by whitespace.
Run(s, i, cs) == CHOOSE n \in 0 .. Len(s) : (\A d \in 1 .. n : Is(s, i + d - 1, cs)) /\ ~Is(s, i + n, cs)

MutatedHexAt(s, i) ==
    /\ AnyPrefixAt(s, i)
    /\ Run(s, i + 2, AnyHex) \in 1 .. Digits + 1
    /\ ~Is(s, i + 2 + Run(s, i + 2, AnyHex), Word)

\* Its last character, when `head` digits run up to `next` and `tail` digits follow a blank there.
SplitEnd(s, next, head, tail) ==
    IF tail \in 1 .. Digits - 1 /\ head + tail = Digits /\ ~Is(s, next + 1 + tail, Word)
    THEN next + tail
    ELSE next - 1
HeadEnd(s, next, head) ==
    SplitEnd(s, next, head, IF Is(s, next, {" "}) THEN Run(s, next + 1, AnyHex) ELSE 0)
MutatedHexEnd(s, i) == LET head == Run(s, i + 2, AnyHex) IN HeadEnd(s, i + 2 + head, head)

MutatedEntityAt(s, i) ==
    /\ AnyPrefixAt(s, i) /\ Is(s, i + 2, {"O"})
    /\ Run(s, i + 3, AnyHex) \in 0 .. 2
    /\ ~Is(s, i + 3 + Run(s, i + 3, AnyHex), Word)

TokenShaped(s) ==
    Tokens(s) \cup Fragments(s) \cup {i \in 1 .. Len(s) : MutatedHexAt(s, i) \/ MutatedEntityAt(s, i)}

Largest(S) == IF S = {} THEN 0 ELSE CHOOSE n \in S : \A k \in S : k <= n

ShapeEnd(s, i) ==
    Largest((IF TokenAt(s, i) THEN {i + MaxLength - 1} ELSE {})
            \cup (IF FragmentAt(s, i) THEN {i + 2} ELSE {})
            \cup (IF MutatedHexAt(s, i) THEN {MutatedHexEnd(s, i)} ELSE {})
            \cup (IF MutatedEntityAt(s, i) THEN {i + 2 + Run(s, i + 3, AnyHex)} ELSE {}))

(***************************************************************************)
(* Restoring a complete text.                                              *)
(***************************************************************************)

\* s with the span from each start replaced: ends[i] is where the span of i ends.
Edited(s, starts, ends, with) ==
    FlattenSeq([i \in 1 .. Len(s) |->
        IF i \in starts THEN with[i]
        ELSE IF \E b \in starts : b < i /\ i <= ends[b] THEN <<>>
        ELSE <<s[i]>>])

\* Token-like text nobody maps becomes a placeholder, if the caller asked for that.
ClearOf(s, known, end, i) == \A k \in known : k > end \/ k + MaxLength - 1 < i
Unknown(s) ==
    IF opts.guard THEN {i \in TokenShaped(s) : ClearOf(s, Known(s), ShapeEnd(s, i), i)} ELSE {}

PlaceholdersAt(s, unknown) ==
    IF unknown = {} THEN s
    ELSE Edited(s, unknown, [i \in unknown |-> ShapeEnd(s, i)], [i \in unknown |-> <<"?">>])
ReplaceUnknown(s) == PlaceholdersAt(s, Unknown(s))

UnknownTokens(s) == {SubSeq(s, i, ShapeEnd(s, i)) : i \in Unknown(s)}

\* Inside a complete pair of markers nothing is restored again.
InMarkers(s, i) ==
    \E b \in 1 .. i - 1 : /\ s[b] = "[" /\ (\A j \in b .. i : s[j] # "]")
                          /\ \E e \in i .. Len(s) : s[e] = "]"

Withholds(layer, policy) == policy = "none" \/ (policy = "detected" /\ layer # "detected")

MarkRestored(t, v, marks) == IF marks THEN <<"[">> \o t \o <<"|", v, "]">> ELSE <<v>>

Put(s, found, as) == IF found = {} THEN s ELSE Edited(s, found, [i \in found |-> i + MaxLength - 1], as)

RestoreAt(s, found, prose, marks) ==
    LET as(t, m) == IF prose /\ Withholds(m.layer, opts.prose) THEN <<"~">>
                    ELSE MarkRestored(t, m.value, marks)
    IN Put(s, found, [i \in found |-> as(TokenOf(s, i), Issued[TokenOf(s, i)])])
RestoreIn(s, skip, prose, marks) ==
    RestoreAt(s, {i \in Known(s) : TokenOf(s, i) \notin skip /\ ~(marks /\ InMarkers(s, i))}, prose, marks)

\* restoreTextExcept: `prose` when the caller passed the marker for withheld values.
RestoreTextExcept(text, skip, prose, marks) == RestoreIn(ReplaceUnknown(text), skip, prose, marks)

\* Outside a stream of events every option is passed on.
WholeText(s) == RestoreTextExcept(s, {}, TRUE, opts.markers)

\* In a stream of events only a caller that wants markers gets the option for prose.
PlainText(s) == RestoreTextExcept(s, {}, FALSE, FALSE)
DisplayText(s) == RestoreTextExcept(s, {}, opts.markers, opts.markers)

\* JSON string escaping, and what a client that parses the string sees.
Escape(s) == FlattenSeq([i \in 1 .. Len(s) |-> IF s[i] \in {"\\", "S", "C"} THEN <<"\\", s[i]>> ELSE <<s[i]>>])

ToolWithheld(s, policy) == {i \in Known(s) : Withholds(Issued[TokenOf(s, i)].layer, policy)}

Encode(v, escaped) == IF escaped THEN Escape(v) ELSE v
ArgumentAt(s, found, kind) ==
    Put(s, found, [i \in found |-> Encode(<<Issued[TokenOf(s, i)].value>>, kind # "raw")])
ArgumentIn(s, kind) == ArgumentAt(s, Known(s) \ ToolWithheld(s, opts.tools), kind)
RestoreToolArg(text, kind) == ArgumentIn(ReplaceUnknown(text), kind)

TokensAt(s, starts) == {TokenOf(s, i) : i \in starts}
WithheldOf(s) == TokensAt(s, ToolWithheld(s, opts.tools))
WithheldIn(text) == WithheldOf(ReplaceUnknown(text))

Restore(b, s) == IF opts.kind[b] = "text" THEN DisplayText(s) ELSE RestoreToolArg(s, opts.kind[b])

\* (Mutant) The repeat is restored like any other text.
RestoreReplayFlat(s, nested, skip) == RestoreTextExcept(s, skip, FALSE, FALSE)

\* A completed payload: tokens a tool argument withholds stay withheld in all of it. The text is
\* that of one string as the client parses it; nested arguments are escaped once more.
ReplayAt(s, nested, found, unknown) ==
    Edited(s, found \cup unknown,
           [i \in found \cup unknown |-> IF i \in unknown THEN ShapeEnd(s, i) ELSE i + MaxLength - 1],
           [i \in found \cup unknown |-> IF i \in unknown THEN <<"?">>
                                         ELSE Encode(<<Issued[TokenOf(s, i)].value>>, nested)])
RestoreReplay(s, nested, skip) == ReplayAt(s, nested, {i \in Known(s) : TokenOf(s, i) \notin skip}, Unknown(s))

(***************************************************************************)
(* What has to wait for more text.                                         *)
(***************************************************************************)

\* (Mutant) Digits after the prefix are not thought of as part of a token to come.
IsPotentialLetters(s) == Len(s) \in 1 .. 2 /\ s[1] = "F" /\ (Len(s) > 1 => s[2] = "_")

IsPotentialPrefix(s) ==
    /\ Len(s) \in 1 .. MaxLength - 1
    /\ s[1] = "F" /\ (Len(s) > 1 => s[2] = "_")
    /\ Len(s) > 2 => s[3] \in Hex \cup {"O"}

\* A token-like word that runs to the end, with one whitespace and digits after it.
CandidateAt(s, i) ==
    /\ AnyPrefixAt(s, i)
    /\ \E e \in i + 1 .. Len(s) :
          /\ \A j \in i + 2 .. e : s[j] \in Word
          /\ e < Len(s) => s[e + 1] = " " /\ \A j \in e + 2 .. Len(s) : s[j] \in AnyHex

PrefixHold(s) == Largest({n \in 1 .. Len(s) : IsPotentialPrefix(Ending(s, n))})

HoldOf(s, candidates) ==
    IF candidates # {} THEN Largest(candidates)
    ELSE IF s # <<>> /\ s[Len(s)] \in {"F", "f"} THEN 1
    ELSE PrefixHold(s)
GuardedHold(s) == HoldOf(s, {Len(s) - i + 1 : i \in {j \in 1 .. Len(s) : CandidateAt(s, j)}})

\* How much of the end of s waits.
Hold(s) == IF opts.guard THEN GuardedHold(s) ELSE PrefixHold(s)

(***************************************************************************)
(* The scan for tokens that stay unmapped.                                 *)
(***************************************************************************)

Residuals(s, upTo) ==
    {TokenOf(s, i) : i \in {j \in Tokens(s) : j + MaxLength - 1 <= upTo}}
        \cup {SubSeq(s, i, i + 2) : i \in {j \in Fragments(s) : j + 2 <= upTo}}

\* (Mutant) Everything emitted so far is judged at once.
FeedEager(text, replaced) ==
    \E s \in {window \o text} :
        /\ residual' = residual \cup replaced \cup (Residuals(s, Len(s)) \ DOMAIN Issued)
        /\ window' = Ending(s, IF Len(s) > 2 * MaxLength THEN 2 * MaxLength ELSE Len(s))

\* Tokens whose end is far enough from the end of what was emitted are judged; `replaced` was
\* reported when it was replaced.
Feed(text, replaced) ==
    \E s \in {window \o text} :
        IF Len(s) <= 2 * MaxLength
        THEN window' = s /\ residual' = residual \cup replaced
        ELSE /\ residual' = residual \cup replaced \cup (Residuals(s, Len(s) - MaxLength) \ DOMAIN Issued)
             /\ window' = Ending(s, 2 * MaxLength)

FeedAndEnd(text, replaced) ==
    \E s \in {window \o text} :
        /\ residual' = residual \cup replaced \cup (Residuals(s, Len(s)) \ DOMAIN Issued)
        /\ window' = <<>>

\* Text of events is fed as it is encoded: between quotes.
AsRecord(text) == IF text = <<>> THEN <<>> ELSE <<"q">> \o text \o <<"q">>
Encoded(texts) == LET bs == SetToSeq(DOMAIN texts)
                  IN FlattenSeq([i \in 1 .. Len(bs) |-> AsRecord(texts[bs[i]])])

(***************************************************************************)
(* A plain text stream.                                                    *)
(***************************************************************************)

NextPieces(b) == {SubSeq(src[b], at[b] + 1, n) : n \in at[b] + 1 .. Len(src[b])}

Received(b, piece) == at' = [at EXCEPT ![b] = @ + Len(piece)]

Stripped(s) == IF opts.markers THEN [i \in DOMAIN s |-> IF s[i] = MarkerLead THEN "#" ELSE s[i]] ELSE s

PlainChunk ==
    /\ mode = "plain" /\ stage = "open"
    /\ \E piece \in NextPieces(Plain) :
        /\ Received(Plain, piece)
        /\ \E s \in {buffer[Plain] \o Stripped(piece)} :
           \E first \in {IF opts.guard THEN AllBut(s, Hold(s)) ELSE s} :
           \E text \in {WholeText(first)} :
           \E rest \in {IF opts.guard THEN Ending(s, Len(s) - Len(first))
                        ELSE IF Len(text) >= MaxLength THEN Ending(text, MaxLength - 1) ELSE text} :
           \E emitted \in {IF opts.guard THEN text ELSE AllBut(text, Len(rest))} :
              /\ given' = [given EXCEPT ![Plain] = @ \o emitted]
              /\ buffer' = [buffer EXCEPT ![Plain] = rest]
              /\ Feed(emitted, UnknownTokens(first))
    /\ UNCHANGED <<mode, opts, src, again, aside, stage>>

PlainEnd ==
    /\ mode = "plain" /\ stage = "open"
    /\ at[Plain] = Len(src[Plain])
    /\ \E text \in {WholeText(buffer[Plain])} :
        /\ given' = [given EXCEPT ![Plain] = @ \o text]
        /\ FeedAndEnd(text, UnknownTokens(buffer[Plain]))
    /\ buffer' = [buffer EXCEPT ![Plain] = <<>>]
    /\ stage' = "ended"
    /\ UNCHANGED <<mode, opts, src, at, again, aside>>

(***************************************************************************)
(* A stream of events.                                                     *)
(***************************************************************************)

\* What one fragment makes of a block: what is emitted, what waits, what was withheld.
Given(b, first, rest, restored, n) ==
    [emit |-> AllBut(restored, n), hold |-> rest \o Ending(restored, n), unknown |-> UnknownTokens(first),
     withheld |-> IF opts.kind[b] = "text" \/ opts.tools = "all" THEN {} ELSE WithheldIn(first)]
GivenOut(b, first, rest, restored) == Given(b, first, rest, restored, IF opts.guard THEN 0 ELSE Hold(restored))
Parted(b, s, n) == GivenOut(b, AllBut(s, n), Ending(s, n), Restore(b, AllBut(s, n)))
FragmentOf(b, s) == Parted(b, s, IF opts.guard THEN Hold(s) ELSE 0)
Fragment(b, piece) == FragmentOf(b, buffer[b] \o Stripped(piece))

\* (Mutant) Sibling fields are restored whatever the event withheld.
SweepAll(text, withheld) == DisplayText(text)

Sweep(text, withheld) == RestoreTextExcept(text, withheld, withheld # {} \/ opts.markers, opts.markers)

\* One event: fragments of some blocks, and one sibling field swept afterwards.
Event ==
    /\ mode = "events" /\ stage = "open"
    /\ \E bs \in (SUBSET Blocks) \ {{}} : \E sibling \in Siblings :
       \E f \in [bs -> 1 .. MaxDelta] :
        /\ \A b \in bs : at[b] + f[b] <= Len(src[b])
        /\ at' = [b \in DOMAIN at |-> IF b \in bs THEN at[b] + f[b] ELSE at[b]]
        /\ \E fs \in {[b \in bs |-> Fragment(b, SubSeq(src[b], at[b] + 1, at[b] + f[b]))]} :
           \E swept \in {Sweep(Stripped(sibling), UNION {fs[b].withheld : b \in bs})} :
            /\ given' = [b \in DOMAIN given |-> IF b \in bs THEN given[b] \o fs[b].emit ELSE given[b]]
            /\ buffer' = [b \in DOMAIN buffer |-> IF b \in bs THEN fs[b].hold ELSE buffer[b]]
            /\ aside' = IF sibling = <<>> THEN aside
                        ELSE aside \cup {[from |-> sibling, to |-> swept,
                                          beside |-> UNION {fs[b].withheld : b \in bs}]}
            /\ Feed(Encoded([b \in bs |-> fs[b].emit]) \o AsRecord(swept),
                    UnknownTokens(Stripped(sibling)) \cup UNION {fs[b].unknown : b \in bs})
    /\ UNCHANGED <<mode, opts, src, again, stage>>

\* What a flush of a block's waiting tail gives; unguarded, the tail is no whole token.
Flushed(b) == IF opts.guard THEN Restore(b, buffer[b]) ELSE PlainText(buffer[b])
FlushOf(bs) == [b \in DOMAIN buffer |-> IF b \in bs THEN Flushed(b) ELSE <<>>]

Flush(bs) ==
    /\ given' = [b \in DOMAIN given |-> given[b] \o FlushOf(bs)[b]]
    /\ buffer' = [b \in DOMAIN buffer |-> IF b \in bs THEN <<>> ELSE buffer[b]]

\* A block ends; the wires that repeat the whole block do so in the same event.
Stop(b) ==
    /\ mode = "events" /\ stage = "open"
    /\ at[b] = Len(src[b]) /\ again[b] = <<>> /\ src[b] # <<>>
    /\ Flush({b})
    /\ \E s \in {Stripped(src[b])} :
       \E repeats \in BOOLEAN :
       \E whole \in {IF repeats
                     THEN RestoreReplay(s, opts.kind[b] = "tool",
                            IF opts.kind[b] = "text" \/ opts.tools = "all" THEN {}
                            ELSE {TokenOf(s, i) : i \in ToolWithheld(s, opts.tools)})
                     ELSE <<>>} :
        /\ again' = [again EXCEPT ![b] = whole]
        /\ Feed(Encoded(FlushOf({b})) \o AsRecord(whole),
                UnknownTokens(buffer[b]) \cup IF repeats THEN UnknownTokens(s) ELSE {})
    /\ UNCHANGED <<mode, opts, src, at, aside, stage>>

\* [DONE], the end of the message or of the stream: whatever waits is given out.
End ==
    /\ mode = "events" /\ stage = "open"
    /\ \A b \in Blocks : at[b] = Len(src[b])
    /\ Flush(Blocks)
    /\ FeedAndEnd(Encoded(FlushOf(Blocks)), UNION {UnknownTokens(buffer[b]) : b \in Blocks})
    /\ stage' = "ended"
    /\ UNCHANGED <<mode, opts, src, at, again, aside>>

\* Upstream stops in the middle of an event: the piece of it that arrived is no JSON.
CutOff ==
    /\ mode = "events" /\ stage = "open"
    /\ \E piece \in Siblings :
       \E text \in {PlainText(Stripped(piece))} :
        /\ aside' = aside \cup {[from |-> piece, to |-> text, beside |-> {}]}
        /\ FeedAndEnd(AsRecord(text) \o Encoded(FlushOf(Blocks)),
                      UnknownTokens(piece) \cup UNION {UnknownTokens(buffer[b]) : b \in Blocks})
    /\ Flush(Blocks)
    /\ stage' = "cut"
    /\ UNCHANGED <<mode, opts, src, at, again>>

(***************************************************************************)
(* The filter of markers upstream wrote itself. "u" and one digit stand    *)
(* for an escape; the digit of a marker's first character is "2".          *)
(***************************************************************************)

\* An escape counts after an even run of backslashes only.
Backslashes(s, i) == CHOOSE n \in 0 .. i - 1 :
    (\A j \in i - n .. i - 1 : s[j] = "\\") /\ ~Is(s, i - n - 1, {"\\"})

EscapedLead(s, i) ==
    Is(s, i, {"\\"}) /\ Is(s, i + 1, {"u"}) /\ Is(s, i + 2, {"2"}) /\ Backslashes(s, i) % 2 = 0

Neutralize(s) ==
    LET escapes == {i \in 1 .. Len(s) : EscapedLead(s, i)}
    IN [i \in 1 .. Len(s) |-> IF s[i] = MarkerLead \/ i - 2 \in escapes THEN "#" ELSE s[i]]

\* A run of backslashes at the end, with the start of an escape, waits to be judged whole.
PartialEscapeTail(s) ==
    LET end == IF Is(s, Len(s), {"u"}) THEN Len(s) - 1 ELSE Len(s)
        n == Backslashes(s, end + 1)
    IN IF n = 0 THEN 0 ELSE Len(s) - end + n

FilterChunk ==
    /\ mode = "filter" /\ stage = "open"
    /\ \E piece \in NextPieces(Plain) :
        /\ Received(Plain, piece)
        /\ \E s \in {Neutralize(buffer[Plain] \o piece)} :
           \E n \in {PartialEscapeTail(s)} :
            /\ given' = [given EXCEPT ![Plain] = @ \o AllBut(s, n)]
            /\ buffer' = [buffer EXCEPT ![Plain] = Ending(s, n)]
    /\ UNCHANGED <<mode, opts, src, again, aside, window, residual, stage>>

FilterEnd ==
    /\ mode = "filter" /\ stage = "open"
    /\ at[Plain] = Len(src[Plain])
    /\ given' = [given EXCEPT ![Plain] = @ \o buffer[Plain]]
    /\ buffer' = [buffer EXCEPT ![Plain] = <<>>]
    /\ stage' = "ended"
    /\ UNCHANGED <<mode, opts, src, at, again, aside, window, residual>>

Sources ==
    \/ mode = "plain" /\ \E s \in PlainTexts : src = [b \in {Plain} |-> s]
    \/ mode = "filter" /\ \E s \in JsonTexts : src = [b \in {Plain} |-> s]
    \/ mode = "events" /\ src \in {f \in [Blocks -> UNION {BlockTexts[b] : b \in Blocks}] :
                                      \A b \in Blocks : f[b] \in BlockTexts[b]}

StreamInit ==
    /\ mode \in {"plain", "events", "filter"}
    /\ opts \in Options
    /\ mode = "filter" => opts.markers
    /\ Sources
    /\ at = [b \in DOMAIN src |-> 0]
    /\ buffer = [b \in DOMAIN src |-> <<>>]
    /\ given = [b \in DOMAIN src |-> <<>>]
    /\ again = [b \in DOMAIN src |-> <<>>]
    /\ aside = {} /\ window = <<>> /\ residual = {} /\ stage = "open"

StreamNext ==
    \/ PlainChunk \/ PlainEnd
    \/ Event \/ (\E b \in Blocks : Stop(b)) \/ End \/ CutOff
    \/ FilterChunk \/ FilterEnd

StreamSpec == StreamInit /\ [][StreamNext]_streamVars

(***************************************************************************)
(* Properties.                                                             *)
(***************************************************************************)

\* A prefix directly after a letter or digit (such a token may be cut when it is given out under the
\* guard), and one that begins inside a token (a cut there shows it to the scan, the whole text does not).
Glued(s) == \E i \in 2 .. Len(s) : s[i - 1] \in Word /\ s[i] \in {"F", "f"} /\ Is(s, i + 1, {"_"})
Overlapping(s) == \E i \in 1 .. Len(s) : TokenAt(s, i) /\ TokenAt(s, i + MaxLength - 1)
Ambiguous(s) == Overlapping(s) \/ (opts.guard /\ Glued(s))

Whole(b) ==
    CASE mode = "plain" -> WholeText(Stripped(src[b]))
      [] mode = "filter" -> Neutralize(src[b])
      [] mode = "events" -> Restore(b, Stripped(src[b]))

\* However the response is cut into pieces, the client is given, piece by piece,
\* the restore of the whole: never half a token, nothing that a later piece would
\* have changed, and at the end nothing is missing.
PiecesMakeTheWhole ==
    \A b \in DOMAIN src :
        ~Ambiguous(src[b]) /\ stage # "cut"
        => /\ IsPrefix(given[b], Whole(b))
           /\ stage = "ended" => given[b] = Whole(b)

ValuesBehind(tokens) == {Issued[t].value : t \in tokens}
Secrets == {t \in DOMAIN Issued : Withholds(Issued[t].layer, opts.tools)}
Has(s, cs) == \E i \in DOMAIN s : s[i] \in cs

\* A value tools may not have reaches no tool argument: not when its token comes in
\* pieces, not in the repeat of the finished call; and a sibling field of the event
\* that withheld it does not give it away.
ToolsKeepSecrets ==
    mode = "events" =>
        /\ \A b \in Blocks : opts.kind[b] # "text" => ~Has(given[b], ValuesBehind(Secrets)) /\ ~Has(again[b], ValuesBehind(Secrets))
        /\ \A e \in aside : ~Has(e.to, ValuesBehind(e.beside))

\* A finished tool call that upstream repeats is repeated to the client as its
\* pieces were: same values, same placeholders, same escaping.
RepeatAgrees ==
    mode = "events" => \A b \in Blocks :
        again[b] # <<>> /\ opts.kind[b] # "text" => again[b] = Restore(b, Stripped(src[b]))

Reported(s, whole) == IF opts.guard THEN UnknownTokens(s) ELSE Residuals(whole, Len(whole)) \ DOMAIN Issued

\* The tokens reported as unmapped are those a scan of the whole response finds:
\* none is missed at the edge of a piece and none is taken for a fragment early.
ResidualsAreExact ==
    mode # "filter" /\ stage = "ended" /\ (\A b \in DOMAIN src : ~Ambiguous(src[b]))
    => residual = UNION {Reported(Stripped(src[b]), Whole(b)) : b \in DOMAIN src}
                  \cup UNION {Reported(e.from, e.to) : e \in aside}

\* The client gets the restore of the whole, once, and an exact account of the
\* tokens nobody could restore.
StreamIsWhole == PiecesMakeTheWhole /\ RepeatAgrees /\ ResidualsAreExact

=============================================================================
