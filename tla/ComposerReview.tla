--------------------------- MODULE ComposerReview ---------------------------
(* The composer of a chat, the review of protection before a message leaves
   it, and the two routes of the gateway it calls: the preview, which also
   changes the values protected in the chat, and the chat itself.

   A preview is in flight while the page goes on: the user may go back, start
   a new chat, switch the review off or pick a suggested prompt, and the other
   tab of the chat may change its values.  Handlers resume with what they saw
   when they were called; only the generation of the preview tells them that
   they were overtaken.  On Postgres a change of the values reads and writes
   in two statements, and changes of two previews may cross.

   Not here: attachments and their extraction (part of the draft), the posture
   that blocks the composer when the proxy is down, the suggestion of a protected
   phrase to the workspace, the layout of the review. *)
EXTENDS Naturals, FiniteSets, Sequences

CONSTANTS
    Absent,        \* no text, ticket, review or answer
    Texts,         \* messages the user may write
    Values,        \* phrases the user may protect
    Holds,         \* text -> the phrases in it
    Detects,       \* texts in which the proxy finds something by itself
    ValuesMax,     \* THREAD_PROTECTED_VALUES_MAX
    Modes,         \* review modes the user chooses from
    Minima,        \* the workspace's minimum: as it is now, as the page saw it
    Suggested,     \* suggested prompts
    Serial,        \* transactions run one at a time (PGlite)
    MaxPreviews,   \* bound: previews asked for
    MaxSends       \* bound: streams started

VARIABLES
    draft,     \* what the composer holds
    mode,      \* reviewMode
    minimum,   \* protectionReviewMinimum: [now, seen], seen when the page was loaded
    checking,  \* protectionReviewLoading
    review,    \* the open review; gone is a ghost: values removed since its preview read
    latest,    \* the generation of the current preview
    previews,  \* previews on their way; calm is a ghost: the mode was not switched since
    pending,   \* pendingProtectionTicket
    starting,  \* startingThread
    streams,   \* streams this page has started and that have not ended
    shown,     \* the last message of the user in the transcript
    stored,    \* thread_protected_values
    wanted,    \* ghost: what the user asked to send and has not taken back
    asked,     \* previews asked for so far
    sent       \* streams started so far

composerVars == <<draft, mode, minimum, checking, review, latest, previews, pending, starting,
                  streams, shown, stored, wanted, asked, sent>>

Rank == [off |-> 0, adaptive |-> 1, always |-> 2]

\* Modes and minima are the three the settings know; a phrase is in a text or not.
ASSUME ComposerAssumption ==
    /\ Absent \notin Texts
    /\ Modes \subseteq DOMAIN Rank
    /\ Minima \subseteq [now : DOMAIN Rank, seen : DOMAIN Rank]
    /\ Holds \in [Texts -> SUBSET Values]
    /\ Suggested \subseteq Texts

EffectiveMode == IF Rank[mode] >= Rank[minimum.seen] THEN mode ELSE minimum.seen
RequiresPreview(m) == m # "off"

\* Adaptive review interrupts only when there is something to look at.
Interrupts(m, found) == m = "always" \/ (m = "adaptive" /\ found)

Ticket(p, values) == [of |-> p.id, text |-> p.text, values |-> values]

IsLoading == \E s \in streams : s.phase # "queued"

\* The composer's row is hidden by the review and by the wait of Always, and
\* disabled by the check of Adaptive.
Editable == review = Absent /\ ~(checking /\ RequiresPreview(EffectiveMode))

ComposerInit ==
    /\ draft = Absent /\ mode = "adaptive"
    /\ minimum \in Minima
    /\ checking = FALSE /\ review = Absent /\ latest = 0 /\ previews = {}
    /\ pending = Absent /\ starting = FALSE /\ streams = {} /\ shown = Absent
    /\ stored = {} /\ wanted = Absent
    /\ asked = 0 /\ sent = 0

(***************************************************************************)
(* The composer.                                                           *)
(***************************************************************************)

Edit(t) ==
    /\ Editable
    /\ draft' = t
    /\ UNCHANGED <<mode, minimum, checking, review, latest, previews, pending, starting,
                   streams, shown, stored, wanted, asked, sent>>

\* A suggested prompt goes into the draft of an empty chat, whatever happens there.
PickSuggestion(t) ==
    /\ shown = Absent
    /\ draft' = t
    /\ UNCHANGED <<mode, minimum, checking, review, latest, previews, pending, starting,
                   streams, shown, stored, wanted, asked, sent>>

\* A mutant: answers count whatever happened meanwhile.
IsCurrentAlways(p) == TRUE

\* The preview that started last is the only one whose answer counts.
IsCurrent(p) == latest = p.id


\* What a preview asks of the gateway, and what its handler remembers.
Ask(text, action, add, remove, open) ==
    /\ asked < MaxPreviews
    /\ asked' = asked + 1
    /\ latest' = asked + 1
    /\ previews' = previews \cup
         {[id |-> asked + 1, text |-> text, action |-> action, add |-> add, remove |-> remove,
           mode |-> EffectiveMode, review |-> open,
           phase |-> "sent", rows |-> {}, answer |-> Absent, calm |-> TRUE, gone |-> {}]}
    /\ checking' = TRUE

\* beginProtectionReview: a preview of a whole message.
BeginReview(text, action) ==
    /\ ~IsLoading /\ ~checking /\ ~starting
    /\ review' = Absent
    /\ Ask(text, action, {}, {}, Absent)
    /\ UNCHANGED <<draft, pending, starting, streams, shown, sent>>

\* dispatchContent: nothing happens while a first send is under way.  The handler
\* of a preview was called when nothing was loading, and knows of no stream since.
Dispatch(text, ticket, loading) ==
    IF starting \/ loading THEN UNCHANGED <<draft, pending, starting, streams, shown, sent>>
    ELSE /\ sent < MaxSends
         /\ sent' = sent + 1
         /\ draft' = Absent
         /\ starting' = TRUE
         /\ pending' = ticket
         /\ shown' = text
         /\ streams' = streams \cup {[id |-> sent + 1, text |-> text, first |-> TRUE,
                                      ticket |-> ticket, phase |-> "queued", holds |-> Absent]}

\* reload: the last message of the user is answered anew.
Reload(ticket) ==
    /\ sent < MaxSends
    /\ sent' = sent + 1
    /\ pending' = IF ticket = Absent THEN pending ELSE ticket
    /\ streams' = streams \cup {[id |-> sent + 1, text |-> shown, first |-> FALSE,
                                 ticket |-> ticket, phase |-> "queued", holds |-> Absent]}
    /\ UNCHANGED <<draft, starting, shown>>

\* dispatchProtectionPreview.
DispatchPreview(text, action, ticket, loading) ==
    /\ review' = Absent
    /\ IF action = "send" THEN Dispatch(text, ticket, loading) ELSE Reload(ticket)

Submit ==
    /\ Editable /\ draft # Absent /\ ~IsLoading
    /\ IF RequiresPreview(EffectiveMode)
       THEN /\ BeginReview(draft, "send")
            /\ wanted' = draft
       ELSE /\ Dispatch(draft, Absent, FALSE)
            /\ wanted' = Absent
            /\ UNCHANGED <<checking, review, latest, previews, asked>>
    /\ UNCHANGED <<mode, minimum, stored>>

Regenerate ==
    /\ shown # Absent /\ ~IsLoading
    /\ IF RequiresPreview(EffectiveMode)
       THEN /\ BeginReview(shown, "reload")
            /\ wanted' = shown
       ELSE /\ Reload(Absent)
            /\ wanted' = Absent
            /\ UNCHANGED <<checking, review, latest, previews, asked>>
    /\ UNCHANGED <<mode, minimum, stored>>

SwitchMode(m) ==
    /\ Rank[m] >= Rank[minimum.seen] /\ m # mode
    /\ mode' = m
    /\ previews' = {[p EXCEPT !.calm = FALSE] : p \in previews}
    /\ UNCHANGED <<draft, checking, review, latest, pending, starting, streams, shown, wanted,
                   minimum, stored, asked, sent>>

(***************************************************************************)
(* The open review.                                                        *)
(***************************************************************************)

\* validateProtectionValue: a phrase of the message nothing protects yet.
Protectable(v) == v \in Holds[review.text] \ review.values

Protect(v) ==
    /\ review # Absent /\ ~checking /\ Protectable(v)
    /\ Ask(review.text, "protect", {v}, {}, review)
    /\ UNCHANGED <<draft, mode, minimum, review, pending, starting, streams, shown, stored,
                   wanted, sent>>

Unprotect(v) ==
    /\ review # Absent /\ ~checking /\ v \in review.values
    /\ Ask(review.text, "protect", {}, {v}, review)
    /\ UNCHANGED <<draft, mode, minimum, review, pending, starting, streams, shown, stored,
                   wanted, sent>>

SendProtected ==
    /\ review # Absent /\ ~checking
    /\ DispatchPreview(review.text, review.action, review.ticket, IsLoading)
    /\ wanted' = Absent
    /\ UNCHANGED <<mode, minimum, checking, latest, previews, stored, asked>>

\* closeProtectionReview, from the review or from the wait of Always.
Back ==
    /\ \/ review # Absent /\ ~checking
       \/ review = Absent /\ checking /\ EffectiveMode = "always"
    /\ latest' = 0
    /\ pending' = Absent /\ review' = Absent /\ checking' = FALSE
    /\ wanted' = Absent
    /\ UNCHANGED <<draft, mode, minimum, previews, starting, streams, shown, stored,
                   asked, sent>>

\* resetChat: a chat with messages is left by a fresh page.
NewChat ==
    /\ latest' = 0
    /\ pending' = Absent /\ review' = Absent /\ draft' = Absent /\ wanted' = Absent
    /\ IF shown = Absent
       THEN UNCHANGED <<mode, minimum, checking, previews, starting, streams, shown, stored>>
       ELSE /\ checking' = FALSE /\ starting' = FALSE /\ shown' = Absent
            /\ streams' = {}
            /\ mode' = "adaptive" /\ minimum' = [minimum EXCEPT !.seen = minimum.now]
            /\ previews' = {} /\ stored' = {}
    /\ UNCHANGED <<asked, sent>>

(***************************************************************************)
(* The preview route.                                                      *)
(***************************************************************************)

\* Another tab of the chat protects or releases a phrase; its page is not ours.
OtherTab(add, remove) ==
    /\ asked < MaxPreviews /\ shown # Absent
    /\ asked' = asked + 1
    /\ previews' = previews \cup
         {[id |-> asked + 1, text |-> shown, action |-> "other", add |-> add, remove |-> remove,
           mode |-> "off", review |-> Absent,
           phase |-> "sent", rows |-> {}, answer |-> Absent, calm |-> TRUE, gone |-> {}]}
    /\ UNCHANGED <<draft, mode, minimum, checking, review, latest, pending, starting, streams,
                   shown, stored, wanted, sent>>

Known(p) == (p.rows \ p.remove) \cup p.add

\* A mutant: the rows are replaced by what was read and changed.
RewrittenRows(p) == Known(p)

\* The two statements of a change: only removals are deleted, and only what was
\* not read is inserted.
WrittenRows(p) == (stored \ p.remove) \cup (p.add \ (p.rows \ p.remove))

\* updateThreadProtectedValues reads, or listThreadProtectedValues.
ReadValues(p) ==
    /\ p.phase = "sent" /\ (Serial => \A q \in previews : q.phase # "read")
    /\ previews' = (previews \ {p}) \cup {[p EXCEPT !.phase = "read", !.rows = stored, !.gone = {}]}
    /\ UNCHANGED <<draft, mode, minimum, checking, review, latest, pending, starting, streams,
                   shown, stored, wanted, asked, sent>>

\* More than the limit is refused as a whole; otherwise the change is written
\* and the proxy asked for the preview, which may fail after the change.
AnswerPreview(p, reached) ==
    /\ p.phase = "read"
    /\ LET over == Cardinality(Known(p)) > ValuesMax
           ok   == ~over /\ reached
           found == Known(p) \cap Holds[p.text] # {} \/ p.text \in Detects
           removed == IF over THEN {} ELSE p.remove
       IN  /\ previews' = {[q EXCEPT !.gone = @ \cup removed] : q \in previews \ {p}} \cup
                 {[p EXCEPT !.phase = "answered", !.rows = {},
                            !.answer = [ok |-> ok, found |-> found, values |-> Known(p)]]}
           /\ stored' = IF over THEN stored ELSE WrittenRows(p)
           /\ review' = IF review = Absent THEN review
                        ELSE [review EXCEPT !.gone = @ \cup removed]
    /\ UNCHANGED <<draft, mode, minimum, checking, latest, pending, starting, streams,
                   shown, wanted, asked, sent>>

(***************************************************************************)
(* The page hears from the route.                                          *)
(***************************************************************************)

Opened(p) ==
    [text |-> p.text, action |-> IF p.review = Absent THEN p.action ELSE p.review.action,
     ticket |-> Ticket(p, p.answer.values), values |-> p.answer.values,
     gone |-> p.gone]

Receive(p) ==
    /\ p.phase = "answered"
    /\ previews' = previews \ {p}
    /\ IF p.action = "other" \/ ~IsCurrent(p)
       THEN UNCHANGED <<draft, checking, review, pending, starting, streams, shown, wanted, sent>>
       ELSE /\ checking' = FALSE
            /\ IF ~p.answer.ok
               THEN UNCHANGED <<draft, review, pending, starting, streams, shown, wanted, sent>>
               ELSE IF p.action # "protect" /\ ~Interrupts(p.mode, p.answer.found)
               THEN /\ DispatchPreview(p.text, p.action, Ticket(p, p.answer.values), FALSE)
                    /\ wanted' = Absent
               ELSE /\ review' = Opened(p)
                    /\ UNCHANGED <<draft, pending, starting, streams, shown, wanted, sent>>
    /\ UNCHANGED <<mode, minimum, latest, stored, asked>>

(***************************************************************************)
(* The stream and the chat route.                                          *)
(***************************************************************************)

\* The transport takes the ticket that lies ready, once.
Connect(s) ==
    /\ s.phase = "queued"
    /\ streams' = (streams \ {s}) \cup {[s EXCEPT !.phase = "sent", !.holds = pending]}
    /\ pending' = Absent
    /\ UNCHANGED <<draft, mode, minimum, checking, review, latest, previews, starting, shown,
                   stored, wanted, asked, sent>>

\* A mutant: the page is trusted to have asked for a preview.
TicketOptional(s) == FALSE

\* The workspace wants a review and the request shows none.
TicketMissing(s) == RequiresPreview(minimum.now) /\ s.holds = Absent

\* Without a ticket the stored values are prepared for the message.
UsedTicket(s) ==
    IF s.holds # Absent THEN s.holds
    ELSE IF stored = {} THEN Absent
    ELSE [of |-> 0, text |-> s.text, values |-> stored]

\* The proxy refuses a ticket made for another text.
PostChat(s) ==
    /\ s.phase = "sent"
    /\ LET ticket  == UsedTicket(s)
           refused == TicketMissing(s) \/ (ticket # Absent /\ ticket.text # s.text)
       IN  streams' = (streams \ {s}) \cup
                        {[s EXCEPT !.phase = IF refused THEN "refused" ELSE "provider",
                                   !.holds = ticket]}
    /\ UNCHANGED <<draft, mode, minimum, checking, review, latest, previews, pending, starting,
                   shown, stored, wanted, asked, sent>>

\* Finished, failed or stopped, at any time.
EndStream(s) ==
    /\ streams' = streams \ {s}
    /\ starting' = (starting /\ ~s.first)
    /\ pending' = IF pending = s.ticket THEN Absent ELSE pending
    /\ UNCHANGED <<draft, mode, minimum, checking, review, latest, previews, shown, stored,
                   wanted, asked, sent>>

ComposerNext ==
    \/ (\E t \in Texts : Edit(t)) \/ (\E t \in Suggested : PickSuggestion(t))
    \/ Submit \/ Regenerate \/ SendProtected \/ Back \/ NewChat
    \/ \E m \in Modes : SwitchMode(m)
    \/ \E v \in Values : Protect(v) \/ Unprotect(v) \/ OtherTab({v}, {}) \/ OtherTab({}, {v})
    \/ \E p \in previews : ReadValues(p) \/ Receive(p)
    \/ \E p \in previews, reached \in BOOLEAN : AnswerPreview(p, reached)
    \/ \E s \in streams : Connect(s) \/ PostChat(s) \/ EndStream(s)

ComposerSpec == ComposerInit /\ [][ComposerNext]_composerVars

(***************************************************************************)
(* Properties.                                                             *)
(***************************************************************************)

TicketType == [of : Nat, text : Texts, values : SUBSET Values]
ReviewType ==
    [text : Texts, action : {"send", "reload"}, ticket : TicketType, values : SUBSET Values,
     gone : SUBSET Values]
AnswerType == [ok : BOOLEAN, found : BOOLEAN, values : SUBSET Values]
PreviewType ==
    [id : Nat, text : Texts, action : {"send", "reload", "protect", "other"},
     add : SUBSET Values, remove : SUBSET Values, mode : DOMAIN Rank,
     review : ReviewType \cup {Absent}, phase : {"sent", "read", "answered"},
     rows : SUBSET Values, answer : AnswerType \cup {Absent}, calm : BOOLEAN,
     gone : SUBSET Values]
StreamType ==
    [id : Nat, text : Texts, first : BOOLEAN, ticket : TicketType \cup {Absent},
     phase : {"queued", "sent", "refused", "provider"}, holds : TicketType \cup {Absent}]

ComposerTypeOK ==
    /\ draft \in Texts \cup {Absent} /\ shown \in Texts \cup {Absent}
    /\ wanted \in Texts \cup {Absent}
    /\ mode \in DOMAIN Rank /\ minimum \in [now : DOMAIN Rank, seen : DOMAIN Rank]
    /\ checking \in BOOLEAN /\ starting \in BOOLEAN
    /\ latest \in Nat /\ asked \in Nat /\ sent \in Nat
    /\ stored \subseteq Values
    /\ pending \in TicketType \cup {Absent}
    /\ review \in ReviewType \cup {Absent}
    /\ previews \subseteq PreviewType
    /\ streams \subseteq StreamType

\* While the workspace asks for a review, no message reaches the provider unless
\* a preview of that very text answered the page (routes/api/chat.ts, 428), and
\* every phrase that preview named is replaced.
ReviewedBeforeModel ==
    \A s \in streams :
        (s.phase = "provider" /\ RequiresPreview(minimum.now))
            => /\ s.holds # Absent
               /\ s.holds.of \in 1 .. asked
               /\ s.holds.text = s.text

\* A preview that answers late sends only what the user still wants sent: not
\* after going back, starting a new chat or asking for something else
\* (ChatView.tsx, protectionPreviewIsCurrent).  Whoever switched the mode
\* meanwhile may have sent the draft already.
SentWithConsent ==
    [][\A p \in previews \ previews' :
          (sent' > sent /\ p.action # "protect" /\ p.calm)
             => \E s \in streams' \ streams : wanted = s.text]_composerVars

\* What a preview told the page is protected in the chat is protected there
\* until a removal runs, although changes of two tabs cross
\* (store.server.ts, updateThreadProtectedValues).
AnsweredIsStored ==
    /\ \A p \in previews :
         p.phase = "answered" /\ p.answer.ok => p.answer.values \subseteq stored \cup p.gone
    /\ review # Absent => review.values \subseteq stored \cup review.gone

\* Composer.tsx, isCheckingProtection: "Keeps the composer stable but immutable
\* while Adaptive review analyzes the exact draft."
\* Refuted by TLC (README, refuted claims).
DraftFrozen ==
    \A p \in previews :
        checking /\ IsCurrent(p) /\ p.action = "send" /\ p.mode = "adaptive"
           => draft = p.text
=============================================================================
