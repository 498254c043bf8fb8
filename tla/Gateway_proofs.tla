--------------------------- MODULE Gateway_proofs ---------------------------
(* Proofs about three parts of the gateway that share no state: the composer *)
(* with its review (ComposerReview), the evidence of a chat (EgressLedger)   *)
(* and the daily trend (ProtectionTrend).                                    *)
EXTENDS ComposerReview, EgressLedger, ProtectionTrend, FiniteSetTheorems, TLAPS

-----------------------------------------------------------------------------
(* Proofs about ComposerReview: for any messages, phrases and modes and any
   number of previews and streams, no message reaches the provider unreviewed
   while the workspace asks for a review (ReviewedBeforeModel), what a preview
   told the page is protected stays protected until it is released
   (AnsweredIsStored), and a late answer sends only what the user still wants
   sent (SentWithConsent).

   The argument: at most one preview counts, the one whose generation the page
   remembers, and while it is on its way the page is checking (Waiting); what
   the user asked for is then still the text of that preview, unless the mode was
   switched (Consent).  A ticket is only ever taken from an answer, so it
   names a preview that was asked for (Numbered).  A change of the phrases writes
   what it read and changed, except for what was released meanwhile (Rows).     *)

USE ComposerAssumption

-----------------------------------------------------------------------------
(* The inductive invariant                                                  *)

\* A preview of this page that counts when its answer comes.
StillCounts(p) == p.action # "other" /\ IsCurrent(p)

\* Previews and streams are numbered as they are started, and every ticket that
\* a stream may still present names a preview that was asked for.
Numbered ==
    /\ latest <= asked
    /\ \A p \in previews : p.id \in 1 .. asked
    /\ \A p, q \in previews : p.id = q.id => p = q
    /\ \A s \in streams : s.id <= sent
    /\ pending # Absent => pending.of \in 1 .. asked
    /\ review # Absent => review.ticket.of \in 1 .. asked
    /\ \A s \in streams :
         (s.phase \in {"queued", "sent"} /\ s.holds # Absent) => s.holds.of \in 1 .. asked

\* A preview knows the review it was asked from and, once answered, its answer.
Remembered ==
    \A p \in previews :
        /\ IF p.action = "protect" THEN p.review # Absent /\ p.review \in ReviewType
                                  ELSE p.review = Absent
        /\ p.phase = "answered" => p.answer \in AnswerType

\* While a preview counts the page is checking, and a chat whose last message is
\* to be answered anew has one.
Waiting ==
    /\ \A p \in previews : StillCounts(p) =>
         /\ checking
         /\ p.action = "reload" => shown # Absent
         /\ (p.action = "protect" /\ p.review.action = "reload") => shown # Absent
    /\ (review # Absent /\ review.action = "reload") => shown # Absent

\* What a preview was asked for is what the user wants sent, as long as the
\* preview counts and the mode is the one it was asked under.
Consent ==
    \A p \in previews : (StillCounts(p) /\ p.action # "protect" /\ p.calm) =>
        /\ wanted = p.text
        /\ p.mode = EffectiveMode /\ RequiresPreview(p.mode)
        /\ p.action = "reload" => shown = p.text

\* What a change has read is still stored, but for what was released since.
Rows ==
    /\ \A p \in previews : p.phase = "read" => p.rows \subseteq stored \cup p.gone
    /\ AnsweredIsStored

ComposerInv ==
    /\ ComposerTypeOK /\ Numbered /\ Remembered /\ Waiting /\ Consent /\ Rows
    /\ ReviewedBeforeModel

-----------------------------------------------------------------------------
(* How the previews change                                                  *)

\* A preview that goes on: only its progress, its calm and what was released
\* since may differ.
Same(r, q) ==
    /\ r.id = q.id /\ r.text = q.text /\ r.action = q.action /\ r.mode = q.mode
    /\ r.add = q.add /\ r.remove = q.remove /\ r.review = q.review
    /\ r.calm => q.calm

\* No preview is new, and those that are left keep their numbers apart.
Continued ==
    /\ \A r \in previews' : \E q \in previews : Same(r, q)
    /\ \A r, s \in previews' : r.id = s.id => r = s

LEMMA ModesAreKnown ==
    ASSUME ComposerTypeOK PROVE EffectiveMode \in DOMAIN Rank
  BY DEF ComposerTypeOK, EffectiveMode

\* A switch of the mode takes the calm of every preview, and nothing else.
LEMMA SwitchContinues ==
    ASSUME ComposerTypeOK, Numbered, NEW m \in Modes, SwitchMode(m)
    PROVE  /\ Continued
           /\ previews' \subseteq PreviewType
           /\ \A r \in previews' : r.calm = FALSE
           /\ \A r \in previews' : \E q \in previews :
                 /\ Same(r, q) /\ r.phase = q.phase /\ r.rows = q.rows /\ r.answer = q.answer
                 /\ r.gone = q.gone
  <1> DEFINE calmless(q) == [q EXCEPT !.calm = FALSE]
  <1>1. previews' = {calmless(q) : q \in previews}
    BY DEF SwitchMode
  <1>2. ASSUME NEW q \in previews
        PROVE  /\ Same(calmless(q), q) /\ calmless(q).phase = q.phase /\ calmless(q).rows = q.rows
               /\ calmless(q).answer = q.answer /\ calmless(q).gone = q.gone
               /\ calmless(q).calm = FALSE /\ calmless(q) \in PreviewType
               /\ calmless(q).id = q.id
    <2>1. q \in PreviewType
      BY DEF ComposerTypeOK
    <2> QED
      BY <2>1 DEF PreviewType, Same
  <1> HIDE DEF calmless
  <1>3. ASSUME NEW r \in previews', NEW s \in previews', r.id = s.id
        PROVE  r = s
    <2>1. PICK q \in previews : r = calmless(q)
      BY <1>1
    <2>2. PICK w \in previews : s = calmless(w)
      BY <1>1
    <2>3. q.id = w.id
      BY <1>2, <1>3, <2>1, <2>2
    <2>4. q = w
      BY <2>3 DEF Numbered
    <2> QED
      BY <2>1, <2>2, <2>4
  <1>4. ASSUME NEW r \in previews'
        PROVE  /\ r \in PreviewType /\ r.calm = FALSE
               /\ \E q \in previews :
                    /\ Same(r, q) /\ r.phase = q.phase /\ r.rows = q.rows /\ r.answer = q.answer
                    /\ r.gone = q.gone
    <2>1. PICK q \in previews : r = calmless(q)
      BY <1>1
    <2> QED
      BY <1>2, <2>1
  <1> QED
    BY <1>3, <1>4 DEF Continued

\* A read changes the preview that reads.
LEMMA ReadContinues ==
    ASSUME ComposerTypeOK, Numbered, NEW p \in previews, ReadValues(p)
    PROVE  /\ Continued
           /\ previews' \subseteq PreviewType
           /\ \A r \in previews' :
                \/ r \in previews
                \/ /\ Same(r, p) /\ r.phase = "read" /\ r.rows = stored /\ r.gone = {}
                   /\ r.answer = p.answer
  <1> DEFINE new == [p EXCEPT !.phase = "read", !.rows = stored, !.gone = {}]
  <1>1. previews' = (previews \ {p}) \cup {new}
    BY DEF ReadValues
  <1>2. p \in PreviewType /\ stored \subseteq Values
    BY DEF ComposerTypeOK
  <1>3. /\ new \in PreviewType /\ Same(new, p) /\ new.phase = "read" /\ new.rows = stored
        /\ new.gone = {} /\ new.answer = p.answer /\ new.id = p.id
    BY <1>2 DEF PreviewType, Same
  <1> HIDE DEF new
  <1>4. previews \subseteq PreviewType
    BY DEF ComposerTypeOK
  <1>5. Continued
    BY <1>1, <1>3 DEF Continued, Numbered, Same
  <1> QED
    BY <1>1, <1>3, <1>4, <1>5

\* An answer changes the preview that is answered; the others only learn what
\* was released.
LEMMA AnswerContinues ==
    ASSUME ComposerTypeOK, Numbered, NEW p \in previews, NEW reached \in BOOLEAN,
           AnswerPreview(p, reached)
    PROVE  /\ Continued
           /\ previews' \subseteq PreviewType
           /\ \A r \in previews' :
                \/ /\ Same(r, p) /\ r.phase = "answered" /\ r.answer \in AnswerType
                   /\ r.gone = p.gone
                   /\ r.answer.values = Known(p)
                   /\ r.answer.ok => ~(Cardinality(Known(p)) > ValuesMax)
                \/ \E q \in previews :
                     /\ Same(r, q) /\ r.phase = q.phase /\ r.rows = q.rows /\ r.answer = q.answer
                     /\ r.gone = q.gone \cup
                          (IF Cardinality(Known(p)) > ValuesMax THEN {} ELSE p.remove)
  <1> DEFINE over == Cardinality(Known(p)) > ValuesMax
             removed == IF over THEN {} ELSE p.remove
             answer == [ok |-> ~over /\ reached,
                        found |-> Known(p) \cap Holds[p.text] # {} \/ p.text \in Detects,
                        values |-> Known(p)]
             new == [p EXCEPT !.phase = "answered", !.rows = {}, !.answer = answer]
             told(q) == [q EXCEPT !.gone = @ \cup removed]
  <1>1. previews' = {told(q) : q \in previews \ {p}} \cup {new}
    BY DEF AnswerPreview
  <1>2. p \in PreviewType
    BY DEF ComposerTypeOK
  <1>3. Known(p) \subseteq Values /\ removed \subseteq Values
    BY <1>2 DEF PreviewType, Known
  <1>4. answer \in AnswerType /\ answer.values = Known(p) /\ (answer.ok => ~over)
    <2> HIDE DEF over
    <2> QED
      BY <1>3 DEF AnswerType
  <1> HIDE DEF answer, removed
  <1>5. /\ new \in PreviewType /\ Same(new, p) /\ new.phase = "answered" /\ new.answer = answer
        /\ new.gone = p.gone /\ new.id = p.id
    BY <1>2, <1>4 DEF PreviewType, Same
  <1>6. ASSUME NEW q \in previews
        PROVE  /\ told(q) \in PreviewType /\ Same(told(q), q) /\ told(q).phase = q.phase
               /\ told(q).rows = q.rows /\ told(q).answer = q.answer
               /\ told(q).gone = q.gone \cup removed /\ told(q).id = q.id
    <2>1. q \in PreviewType
      BY DEF ComposerTypeOK
    <2> QED
      BY <1>3, <2>1 DEF PreviewType, Same
  <1> HIDE DEF new, told
  <1>7. ASSUME NEW r \in previews'
        PROVE  \/ r = new
               \/ \E q \in previews \ {p} : r = told(q)
    BY <1>1
  <1>8. ASSUME NEW r \in previews', NEW s \in previews', r.id = s.id
        PROVE  r = s
    BY <1>5, <1>6, <1>7, <1>8 DEF Numbered
  <1>9. Continued
    BY <1>5, <1>6, <1>7, <1>8 DEF Continued
  <1>10. \A r \in previews' : r \in PreviewType
    BY <1>5, <1>6, <1>7
  <1>11. ASSUME NEW r \in previews'
         PROVE  \/ /\ Same(r, p) /\ r.phase = "answered" /\ r.answer \in AnswerType
                   /\ r.gone = p.gone
                   /\ r.answer.values = Known(p)
                   /\ r.answer.ok => ~over
                \/ \E q \in previews :
                     /\ Same(r, q) /\ r.phase = q.phase /\ r.rows = q.rows /\ r.answer = q.answer
                     /\ r.gone = q.gone \cup removed
    BY <1>4, <1>5, <1>6, <1>7
  <1> QED
    BY <1>9, <1>10, <1>11 DEF removed

\* A preview that is asked for is new, on its way, and the one that counts.
Asked(text, action, open) ==
    /\ asked' = asked + 1 /\ latest' = asked + 1 /\ checking' = TRUE
    /\ \E new \in PreviewType :
         /\ previews' = previews \cup {new}
         /\ new.id = asked + 1 /\ new.text = text /\ new.action = action
         /\ new.mode = EffectiveMode /\ new.review = open /\ new.phase = "sent"

LEMMA AskStarts ==
    ASSUME ComposerTypeOK, Numbered,
           NEW text \in Texts, NEW action \in {"send", "reload", "protect"},
           NEW add \in SUBSET Values, NEW remove \in SUBSET Values,
           NEW open \in ReviewType \cup {Absent},
           Ask(text, action, add, remove, open)
    PROVE  Asked(text, action, open)
  <1> DEFINE new == [id |-> asked + 1, text |-> text, action |-> action, add |-> add,
                     remove |-> remove, mode |-> EffectiveMode, review |-> open,
                     phase |-> "sent", rows |-> {}, answer |-> Absent, calm |-> TRUE,
                     gone |-> {}]
  <1>1. EffectiveMode \in DOMAIN Rank /\ asked + 1 \in Nat
    BY ModesAreKnown DEF ComposerTypeOK
  <1>2. new \in PreviewType
    BY <1>1 DEF PreviewType
  <1>3. /\ new.id = asked + 1 /\ new.text = text /\ new.action = action
        /\ new.mode = EffectiveMode /\ new.review = open /\ new.phase = "sent"
    OBVIOUS
  <1>4. previews' = previews \cup {new} /\ asked' = asked + 1 /\ latest' = asked + 1
        /\ checking' = TRUE
    BY DEF Ask
  <1> HIDE DEF new
  <1> QED
    BY <1>2, <1>3, <1>4 DEF Asked

\* What Submit and Regenerate do when a preview is wanted.
LEMMA ReviewBegins ==
    ASSUME ComposerTypeOK, Numbered,
           NEW text \in Texts, NEW action \in {"send", "reload"}, BeginReview(text, action)
    PROVE  /\ ~checking /\ review' = Absent /\ Asked(text, action, Absent)
           /\ UNCHANGED <<draft, pending, starting, streams, shown, sent>>
  <1>1. Ask(text, action, {}, {}, Absent)
    BY DEF BeginReview
  <1>2. {} \in SUBSET Values
    OBVIOUS
  <1>3. Asked(text, action, Absent)
    BY <1>1, <1>2, AskStarts
  <1> QED
    BY <1>3 DEF BeginReview

\* A stream that is started is queued and holds no ticket yet.
LEMMA DispatchStarts ==
    ASSUME ComposerTypeOK, NEW text \in Texts, NEW ticket \in TicketType \cup {Absent},
           NEW loading \in BOOLEAN, Dispatch(text, ticket, loading)
    PROVE  \/ UNCHANGED <<draft, pending, starting, streams, shown, sent>>
           \/ /\ sent' = sent + 1 /\ draft' = Absent /\ starting' = TRUE
              /\ pending' = ticket /\ shown' = text
              /\ \E new \in StreamType :
                   /\ streams' = streams \cup {new}
                   /\ new.id = sent + 1 /\ new.text = text /\ new.phase = "queued"
                   /\ new.holds = Absent
  <1> DEFINE new == [id |-> sent + 1, text |-> text, first |-> TRUE,
                     ticket |-> ticket, phase |-> "queued", holds |-> Absent]
  <1>1. new \in StreamType
    BY DEF StreamType, ComposerTypeOK
  <1> QED
    BY <1>1 DEF Dispatch

LEMMA ReloadStarts ==
    ASSUME ComposerTypeOK, shown # Absent, NEW ticket \in TicketType \cup {Absent},
           Reload(ticket)
    PROVE  /\ sent' = sent + 1 /\ UNCHANGED <<draft, starting, shown>>
           /\ pending' = IF ticket = Absent THEN pending ELSE ticket
           /\ \E new \in StreamType :
                /\ streams' = streams \cup {new}
                /\ new.id = sent + 1 /\ new.text = shown /\ new.phase = "queued"
                /\ new.holds = Absent
  <1> DEFINE new == [id |-> sent + 1, text |-> shown, first |-> FALSE,
                     ticket |-> ticket, phase |-> "queued", holds |-> Absent]
  <1>1. new \in StreamType
    BY DEF StreamType, ComposerTypeOK
  <1> QED
    BY <1>1 DEF Reload

\* The two together: at most one stream is started, with the text asked for.
Started(text, ticket) ==
    /\ sent' = sent + 1 /\ draft' \in {draft, Absent} /\ starting' \in BOOLEAN
    /\ pending' \in {pending, ticket}
    /\ shown' \in {shown, text} /\ (shown # Absent => shown' # Absent)
    /\ \E new \in StreamType :
         /\ streams' = streams \cup {new}
         /\ new.id = sent + 1 /\ new.phase = "queued" /\ new.holds = Absent
         /\ new.text = shown'

LEMMA PreviewStarts ==
    ASSUME ComposerTypeOK, NEW text \in Texts, NEW ticket \in TicketType,
           NEW action \in {"send", "reload"}, NEW loading \in BOOLEAN,
           action = "reload" => shown # Absent,
           DispatchPreview(text, action, ticket, loading)
    PROVE  /\ review' = Absent
           /\ \/ UNCHANGED <<draft, pending, starting, streams, shown, sent>>
              \/ /\ Started(text, ticket)
                 /\ shown' = IF action = "send" THEN text ELSE shown
  <1>1. CASE action = "send"
    <2>1. Dispatch(text, ticket, loading)
      BY <1>1 DEF DispatchPreview
    <2> QED
      BY <1>1, <2>1, DispatchStarts DEF Started, DispatchPreview
  <1>2. CASE action = "reload"
    <2>1. Reload(ticket) /\ shown # Absent
      BY <1>2 DEF DispatchPreview
    <2>2. starting \in BOOLEAN
      BY DEF ComposerTypeOK
    <2> QED
      BY <1>2, <2>1, <2>2, ReloadStarts DEF Started, DispatchPreview
  <1> QED
    BY <1>1, <1>2

-----------------------------------------------------------------------------
(* Types are kept                                                           *)

LEMMA SubmitSteps ==
    ASSUME ComposerTypeOK, Numbered, Submit
    PROVE  /\ draft \in Texts /\ UNCHANGED <<mode, minimum, stored>> /\ review = Absent
           /\ \/ /\ RequiresPreview(EffectiveMode) /\ BeginReview(draft, "send") /\ wanted' = draft
              \/ /\ ~RequiresPreview(EffectiveMode) /\ Dispatch(draft, Absent, FALSE)
                 /\ wanted' = Absent
                 /\ UNCHANGED <<checking, review, latest, previews, asked>>
  BY DEF Submit, Editable, ComposerTypeOK

LEMMA RegenerateSteps ==
    ASSUME ComposerTypeOK, Numbered, Regenerate
    PROVE  /\ shown \in Texts /\ shown # Absent /\ UNCHANGED <<mode, minimum, stored>>
           /\ \/ /\ RequiresPreview(EffectiveMode) /\ BeginReview(shown, "reload") /\ wanted' = shown
              \/ /\ ~RequiresPreview(EffectiveMode) /\ Reload(Absent)
                 /\ wanted' = Absent
                 /\ UNCHANGED <<checking, review, latest, previews, asked>>
  BY DEF Regenerate, ComposerTypeOK

LEMMA ProtectSteps ==
    ASSUME ComposerTypeOK, Numbered, NEW v \in Values, Protect(v) \/ Unprotect(v)
    PROVE  /\ review \in ReviewType /\ review # Absent /\ ~checking
           /\ Asked(review.text, "protect", review)
           /\ UNCHANGED <<draft, mode, minimum, review, pending, starting, streams, shown, stored,
                          wanted, sent>>
  <1>1. review \in ReviewType /\ review # Absent /\ ~checking
    BY DEF Protect, Unprotect, ComposerTypeOK
  <1>2. review.text \in Texts /\ {} \in SUBSET Values /\ {v} \in SUBSET Values
    BY <1>1 DEF ReviewType
  <1>3. \/ Ask(review.text, "protect", {v}, {}, review)
        \/ Ask(review.text, "protect", {}, {v}, review)
    BY DEF Protect, Unprotect
  <1>4. Asked(review.text, "protect", review)
    BY <1>1, <1>2, <1>3, AskStarts
  <1> QED
    BY <1>1, <1>4 DEF Protect, Unprotect

LEMMA SendSteps ==
    ASSUME ComposerTypeOK, Numbered, Waiting, SendProtected
    PROVE  /\ review \in ReviewType /\ review # Absent /\ ~checking /\ review' = Absent
           /\ \/ UNCHANGED <<draft, pending, starting, streams, shown, sent>>
              \/ Started(review.text, review.ticket)
           /\ wanted' = Absent
           /\ UNCHANGED <<mode, minimum, checking, latest, previews, stored, asked>>
  <1>1. review \in ReviewType /\ review # Absent /\ ~checking
    BY DEF SendProtected, ComposerTypeOK
  <1>2. /\ review.text \in Texts /\ review.ticket \in TicketType
        /\ review.action \in {"send", "reload"} /\ (review.action = "reload" => shown # Absent)
    BY <1>1 DEF ReviewType, Waiting
  <1>3. IsLoading \in BOOLEAN
    BY DEF IsLoading
  <1>4. DispatchPreview(review.text, review.action, review.ticket, IsLoading)
    BY DEF SendProtected
  <1>5. /\ review' = Absent
        /\ \/ UNCHANGED <<draft, pending, starting, streams, shown, sent>>
           \/ Started(review.text, review.ticket)
    BY <1>2, <1>3, <1>4, PreviewStarts
  <1> QED
    BY <1>1, <1>5 DEF SendProtected

\* An answer the page hears is forgotten, sends at once, or opens the review.
LEMMA ReceiveSteps ==
    ASSUME ComposerTypeOK, Numbered, Remembered, Waiting, NEW p \in previews, Receive(p)
    PROVE  /\ p.phase = "answered" /\ previews' = previews \ {p}
           /\ UNCHANGED <<mode, minimum, latest, stored, asked>>
           /\ \/ /\ ~StillCounts(p)
                 /\ UNCHANGED <<draft, checking, review, pending, starting, streams, shown,
                                wanted, sent>>
              \/ /\ StillCounts(p) /\ checking' = FALSE
                 /\ \/ UNCHANGED <<draft, review, pending, starting, streams, shown, wanted, sent>>
                    \/ /\ p.answer.ok /\ p.action # "protect" /\ review' = Absent
                       /\ wanted' = Absent
                       /\ \/ UNCHANGED <<draft, pending, starting, streams, shown, sent>>
                          \/ /\ Started(p.text, Ticket(p, p.answer.values))
                             /\ shown' = IF p.action = "send" THEN p.text ELSE shown
                    \/ /\ p.answer.ok /\ review' = Opened(p) /\ Opened(p) \in ReviewType
                       /\ UNCHANGED <<draft, pending, starting, streams, shown, wanted, sent>>
           /\ Ticket(p, p.answer.values) \in TicketType
  <1>1. p \in PreviewType /\ p.phase = "answered" /\ p.answer \in AnswerType
    BY DEF Receive, Remembered, ComposerTypeOK
  <1>2. Ticket(p, p.answer.values) \in TicketType
    BY <1>1 DEF Ticket, TicketType, PreviewType, AnswerType
  <1>3. ASSUME StillCounts(p) PROVE Opened(p) \in ReviewType
    <2> DEFINE act == IF p.review = Absent THEN p.action ELSE p.review.action
    <2>1. act \in {"send", "reload"}
      BY <1>1, <1>3 DEF PreviewType, Remembered, ReviewType, StillCounts
    <2>2. Opened(p) = [text |-> p.text, action |-> act, ticket |-> Ticket(p, p.answer.values),
                       values |-> p.answer.values, gone |-> p.gone]
      BY DEF Opened
    <2> HIDE DEF act
    <2> QED
      BY <1>1, <1>2, <2>1, <2>2 DEF ReviewType, PreviewType, AnswerType
  <1>4. ASSUME StillCounts(p), p.action # "protect",
               DispatchPreview(p.text, p.action, Ticket(p, p.answer.values), FALSE)
        PROVE  /\ review' = Absent
               /\ \/ UNCHANGED <<draft, pending, starting, streams, shown, sent>>
                  \/ /\ Started(p.text, Ticket(p, p.answer.values))
                     /\ shown' = IF p.action = "send" THEN p.text ELSE shown
    <2>1. p.text \in Texts /\ p.action \in {"send", "reload"} /\ (p.action = "reload" => shown # Absent)
      BY <1>1, <1>4 DEF PreviewType, StillCounts, Waiting
    <2> QED
      BY <1>2, <1>4, <2>1, PreviewStarts
  <1> QED
    BY <1>1, <1>2, <1>3, <1>4 DEF Receive, StillCounts

LEMMA DirectSteps ==
    ASSUME ComposerTypeOK, NEW text \in Texts, Dispatch(text, Absent, FALSE)
    PROVE  \/ UNCHANGED <<draft, pending, starting, streams, shown, sent>>
           \/ Started(text, Absent) /\ shown' = text
  BY DispatchStarts DEF Started, ComposerTypeOK

LEMMA AnewSteps ==
    ASSUME ComposerTypeOK, shown # Absent, Reload(Absent)
    PROVE  Started(shown, Absent)
  BY ReloadStarts DEF Started, ComposerTypeOK

\* A stream takes the ticket that lies ready, or is answered by the route.
LEMMA ConnectSteps ==
    ASSUME ComposerTypeOK, Numbered, NEW s \in streams, Connect(s)
    PROVE  /\ UNCHANGED <<draft, mode, minimum, checking, review, latest, previews, starting,
                          shown, stored, wanted, asked, sent>>
           /\ pending' = Absent
           /\ \E new \in StreamType :
                /\ streams' = (streams \ {s}) \cup {new}
                /\ new.id = s.id /\ new.text = s.text /\ new.phase = "sent"
                /\ new.holds = pending
  <1> DEFINE new == [s EXCEPT !.phase = "sent", !.holds = pending]
  <1>1. s \in StreamType /\ pending \in TicketType \cup {Absent}
    BY DEF ComposerTypeOK
  <1>2. /\ new \in StreamType /\ new.id = s.id /\ new.text = s.text /\ new.phase = "sent"
        /\ new.holds = pending
    BY <1>1 DEF StreamType
  <1>3. streams' = (streams \ {s}) \cup {new} /\ pending' = Absent
    BY DEF Connect
  <1> HIDE DEF new
  <1> QED
    BY <1>2, <1>3 DEF Connect

LEMMA PostSteps ==
    ASSUME ComposerTypeOK, Numbered, NEW s \in streams, PostChat(s)
    PROVE  /\ UNCHANGED <<draft, mode, minimum, checking, review, latest, previews, pending,
                          starting, shown, stored, wanted, asked, sent>>
           /\ s.phase = "sent"
           /\ \E new \in StreamType :
                /\ streams' = (streams \ {s}) \cup {new}
                /\ new.id = s.id /\ new.text = s.text /\ new.phase \in {"refused", "provider"}
                /\ (new.phase = "provider" /\ RequiresPreview(minimum.now))
                      => /\ s.holds # Absent /\ new.holds = s.holds
                         /\ new.holds.text = s.text
  <1> DEFINE ticket == UsedTicket(s)
             refused == TicketMissing(s) \/ (ticket # Absent /\ ticket.text # s.text)
             new == [s EXCEPT !.phase = IF refused THEN "refused" ELSE "provider",
                              !.holds = ticket]
  <1>1. s \in StreamType
    BY DEF ComposerTypeOK
  <1>2. ticket \in TicketType \cup {Absent}
    BY <1>1 DEF UsedTicket, StreamType, TicketType, ComposerTypeOK
  <1>3. (~refused /\ RequiresPreview(minimum.now))
           => s.holds # Absent /\ ticket = s.holds /\ ticket.text = s.text
    BY DEF TicketMissing, UsedTicket
  <1>4. streams' = (streams \ {s}) \cup {new}
    BY DEF PostChat
  <1> HIDE DEF ticket, refused
  <1>5. /\ new \in StreamType /\ new.id = s.id /\ new.text = s.text
        /\ new.phase \in {"refused", "provider"} /\ new.holds = ticket
        /\ new.phase = "provider" => ~refused
    BY <1>1, <1>2 DEF StreamType
  <1> HIDE DEF new
  <1> QED
    BY <1>3, <1>4, <1>5 DEF PostChat

\* A preview of the other tab is new, and none of this page's.
OtherAsked ==
    /\ shown # Absent /\ asked' = asked + 1
    /\ \E new \in PreviewType :
         /\ previews' = previews \cup {new}
         /\ new.id = asked + 1 /\ new.action = "other" /\ new.phase = "sent"
         /\ new.review = Absent
    /\ UNCHANGED <<draft, mode, minimum, checking, review, latest, pending, starting,
                   streams, shown, stored, wanted, sent>>

LEMMA OtherTabSteps ==
    ASSUME ComposerTypeOK, NEW add \in SUBSET Values, NEW remove \in SUBSET Values,
           OtherTab(add, remove)
    PROVE  OtherAsked
  <1> DEFINE their == [id |-> asked + 1, text |-> shown, action |-> "other", add |-> add,
                       remove |-> remove, mode |-> "off", review |-> Absent, phase |-> "sent",
                       rows |-> {}, answer |-> Absent, calm |-> TRUE, gone |-> {}]
  <1>1. their \in PreviewType
    BY DEF OtherTab, PreviewType, ComposerTypeOK, Rank
  <1>2. their.id = asked + 1 /\ their.action = "other" /\ their.phase = "sent"
        /\ their.review = Absent
    OBVIOUS
  <1>3. previews' = previews \cup {their}
    BY DEF OtherTab
  <1>4. /\ shown # Absent /\ asked' = asked + 1
        /\ UNCHANGED <<draft, mode, minimum, checking, review, latest, pending, starting,
                       streams, shown, stored, wanted, sent>>
    BY DEF OtherTab
  <1> HIDE DEF their
  <1>5. \E new \in PreviewType :
           /\ previews' = previews \cup {new}
           /\ new.id = asked + 1 /\ new.action = "other" /\ new.phase = "sent"
           /\ new.review = Absent
    BY <1>1, <1>2, <1>3
  <1> QED
    BY <1>4, <1>5 DEF OtherAsked

LEMMA ComposerTypesKept == ASSUME ComposerInv, [ComposerNext]_composerVars PROVE ComposerTypeOK'
  <1> USE DEF ComposerInv
  <1>1. ASSUME NEW t \in Texts, Edit(t) \/ PickSuggestion(t) PROVE ComposerTypeOK'
    BY <1>1 DEF ComposerTypeOK, Edit, PickSuggestion
  <1>2. ASSUME NEW text \in Texts, NEW action, NEW open, Asked(text, action, open)
        PROVE  /\ asked' \in Nat /\ latest' \in Nat /\ checking' \in BOOLEAN
               /\ previews' \subseteq PreviewType
    BY <1>2 DEF Asked, ComposerTypeOK
  <1>3. ASSUME NEW text \in Texts, NEW ticket \in TicketType \cup {Absent}, Started(text, ticket)
        PROVE  /\ sent' \in Nat /\ draft' \in Texts \cup {Absent} /\ starting' \in BOOLEAN
               /\ pending' \in TicketType \cup {Absent} /\ shown' \in Texts \cup {Absent}
               /\ streams' \subseteq StreamType
    BY <1>3 DEF Started, ComposerTypeOK
  <1>4. ASSUME Submit PROVE ComposerTypeOK'
    <2>1. CASE BeginReview(draft, "send") /\ wanted' = draft
      BY <1>2, <1>4, <2>1, SubmitSteps, ReviewBegins DEF ComposerTypeOK
    <2>2. CASE Dispatch(draft, Absent, FALSE) /\ wanted' = Absent
               /\ UNCHANGED <<checking, review, latest, previews, asked>>
      BY <1>3, <1>4, <2>2, SubmitSteps, DirectSteps DEF ComposerTypeOK
    <2> QED
      BY <1>4, <2>1, <2>2, SubmitSteps
  <1>5. ASSUME Regenerate PROVE ComposerTypeOK'
    <2>1. CASE BeginReview(shown, "reload") /\ wanted' = shown
      BY <1>2, <1>5, <2>1, RegenerateSteps, ReviewBegins DEF ComposerTypeOK
    <2>2. CASE Reload(Absent) /\ wanted' = Absent
               /\ UNCHANGED <<checking, review, latest, previews, asked>>
      BY <1>3, <1>5, <2>2, RegenerateSteps, AnewSteps DEF ComposerTypeOK
    <2> QED
      BY <1>5, <2>1, <2>2, RegenerateSteps
  <1>6. ASSUME SendProtected PROVE ComposerTypeOK'
    <2>1. review.text \in Texts /\ review.ticket \in TicketType
      BY <1>6, SendSteps DEF ReviewType
    <2>2. CASE Started(review.text, review.ticket)
      BY <1>3, <1>6, <2>1, <2>2, SendSteps DEF ComposerTypeOK
    <2>3. CASE UNCHANGED <<draft, pending, starting, streams, shown, sent>>
      BY <1>6, <2>3, SendSteps DEF ComposerTypeOK
    <2> QED
      BY <1>6, <2>2, <2>3, SendSteps
  <1>7. ASSUME Back PROVE ComposerTypeOK'
    BY <1>7 DEF Back, ComposerTypeOK
  <1>8. ASSUME NewChat PROVE ComposerTypeOK'
    BY <1>8 DEF NewChat, ComposerTypeOK, Rank
  <1>9. ASSUME NEW m \in Modes, SwitchMode(m) PROVE ComposerTypeOK'
    BY <1>9, SwitchContinues DEF SwitchMode, ComposerTypeOK
  <1>10. ASSUME NEW v \in Values, Protect(v) \/ Unprotect(v) PROVE ComposerTypeOK'
    <2>1. review.text \in Texts
      BY <1>10, ProtectSteps DEF ReviewType
    <2> QED
      BY <1>2, <1>10, <2>1, ProtectSteps DEF ComposerTypeOK
  <1>11. ASSUME NEW add \in SUBSET Values, NEW remove \in SUBSET Values, OtherTab(add, remove)
         PROVE  ComposerTypeOK'
    <2>1. OtherAsked
      BY <1>11, OtherTabSteps
    <2> QED
      BY <2>1 DEF OtherAsked, ComposerTypeOK
  <1>12. ASSUME NEW p \in previews, ReadValues(p) PROVE ComposerTypeOK'
    BY <1>12, ReadContinues DEF ReadValues, ComposerTypeOK
  <1>13. ASSUME NEW p \in previews, Receive(p) PROVE ComposerTypeOK'
    <2>1. p.text \in Texts /\ Ticket(p, p.answer.values) \in TicketType
      BY <1>13, ReceiveSteps DEF ComposerTypeOK, PreviewType
    <2>2. CASE Started(p.text, Ticket(p, p.answer.values))
      <3>1. /\ sent' \in Nat /\ draft' \in Texts \cup {Absent} /\ starting' \in BOOLEAN
            /\ pending' \in TicketType \cup {Absent} /\ shown' \in Texts \cup {Absent}
            /\ streams' \subseteq StreamType
        BY <1>3, <2>1, <2>2
      <3> QED
        BY <1>13, <3>1, ReceiveSteps DEF ComposerTypeOK
    <2>3. CASE UNCHANGED <<draft, pending, starting, streams, shown, sent>>
      BY <1>13, <2>3, ReceiveSteps DEF ComposerTypeOK
    <2> QED
      BY <1>13, <2>2, <2>3, ReceiveSteps
  <1>14. ASSUME NEW p \in previews, NEW reached \in BOOLEAN, AnswerPreview(p, reached)
         PROVE  ComposerTypeOK'
    <2>1. p \in PreviewType
      BY DEF ComposerTypeOK
    <2>2. WrittenRows(p) \subseteq Values /\ p.remove \subseteq Values
      BY <2>1 DEF WrittenRows, PreviewType, ComposerTypeOK
    <2>3. stored' \subseteq Values
      BY <1>14, <2>2 DEF AnswerPreview, ComposerTypeOK
    <2>4. review' \in ReviewType \cup {Absent}
      BY <1>14, <2>2 DEF AnswerPreview, ComposerTypeOK, ReviewType
    <2> QED
      BY <1>14, <2>3, <2>4, AnswerContinues DEF AnswerPreview, ComposerTypeOK
  <1>15. ASSUME NEW s \in streams, Connect(s) PROVE ComposerTypeOK'
    BY <1>15, ConnectSteps DEF ComposerTypeOK
  <1>16. ASSUME NEW s \in streams, PostChat(s) PROVE ComposerTypeOK'
    BY <1>16, PostSteps DEF ComposerTypeOK
  <1>17. ASSUME NEW s \in streams, EndStream(s) PROVE ComposerTypeOK'
    BY <1>17 DEF EndStream, ComposerTypeOK
  <1>18. ASSUME UNCHANGED composerVars PROVE ComposerTypeOK'
    BY <1>18 DEF composerVars, ComposerTypeOK
  <1>19. \A v \in Values : {v} \in SUBSET Values /\ {} \in SUBSET Values
    OBVIOUS
  <1> QED
    BY <1>1, <1>4, <1>5, <1>6, <1>7, <1>8, <1>9, <1>10, <1>11, <1>12, <1>13, <1>14, <1>15, <1>16,
       <1>17, <1>18, <1>19 DEF ComposerNext

-----------------------------------------------------------------------------
(* The numbers of previews, streams and tickets                             *)

PreviewsNumbered ==
    /\ latest <= asked
    /\ \A p \in previews : p.id \in 1 .. asked
    /\ \A p, q \in previews : p.id = q.id => p = q
StreamsNumbered == \A s \in streams : s.id <= sent
HeldNumbered ==
    \A s \in streams :
        (s.phase \in {"queued", "sent"} /\ s.holds # Absent) => s.holds.of \in 1 .. asked
PendingNumbered == pending # Absent => pending.of \in 1 .. asked
ReviewNumbered == review # Absent => review.ticket.of \in 1 .. asked

LEMMA NumberedParts ==
    Numbered <=> /\ PreviewsNumbered /\ StreamsNumbered /\ HeldNumbered
                 /\ PendingNumbered /\ ReviewNumbered
  BY DEF Numbered, PreviewsNumbered, StreamsNumbered, HeldNumbered, PendingNumbered,
         ReviewNumbered

LEMMA AskNumbers ==
    ASSUME ComposerTypeOK, Numbered, NEW text, NEW action, NEW open, Asked(text, action, open)
    PROVE  PreviewsNumbered'
  <1>1. PICK new \in PreviewType : previews' = previews \cup {new} /\ new.id = asked + 1
    BY DEF Asked
  <1>2. asked \in Nat /\ latest \in Nat /\ asked' = asked + 1 /\ latest' = asked + 1
    BY DEF Asked, ComposerTypeOK
  <1>3. \A q \in previews : q.id \in 1 .. asked
    BY DEF Numbered
  <1> QED
    BY <1>1, <1>2, <1>3 DEF PreviewsNumbered, Numbered

LEMMA StartNumbers ==
    ASSUME ComposerTypeOK, Numbered, NEW text \in Texts, NEW ticket, Started(text, ticket),
           UNCHANGED asked, ticket # Absent => ticket.of \in 1 .. asked
    PROVE  StreamsNumbered' /\ HeldNumbered' /\ PendingNumbered'
  <1>1. PICK new \in StreamType : /\ streams' = streams \cup {new} /\ new.id = sent + 1
                                  /\ new.holds = Absent
    BY DEF Started
  <1>2. sent \in Nat /\ sent' = sent + 1 /\ \A s \in streams : s.id \in Nat
    BY DEF Started, ComposerTypeOK, StreamType
  <1> QED
    BY <1>1, <1>2 DEF Started, Numbered, StreamsNumbered, HeldNumbered, PendingNumbered

LEMMA NumberedKept == ASSUME ComposerInv, [ComposerNext]_composerVars PROVE Numbered'
  <1> USE DEF ComposerInv
  <1>0. asked \in Nat /\ sent \in Nat /\ latest \in Nat
    BY DEF ComposerTypeOK
  <1>1. ASSUME NEW t \in Texts, Edit(t) \/ PickSuggestion(t) PROVE Numbered'
    BY <1>1 DEF Numbered, Edit, PickSuggestion
  <1>2. ASSUME NEW text \in Texts, NEW action, NEW open, Asked(text, action, open),
               UNCHANGED <<streams, sent, pending>>, review' \in {review, Absent}
        PROVE  Numbered'
    <2>1. asked' = asked + 1 /\ PreviewsNumbered'
      BY <1>2, AskNumbers DEF Asked
    <2>2. \A n \in 1 .. asked : n \in 1 .. asked'
      BY <1>0, <2>1
    <2>3. StreamsNumbered' /\ HeldNumbered' /\ PendingNumbered' /\ ReviewNumbered'
      BY <1>2, <2>2 DEF Numbered, StreamsNumbered, HeldNumbered, PendingNumbered, ReviewNumbered
    <2> QED
      BY <2>1, <2>3, NumberedParts, PTL
  <1>3. ASSUME NEW text \in Texts, NEW ticket, Started(text, ticket),
               ticket # Absent => ticket.of \in 1 .. asked,
               PreviewsNumbered', ReviewNumbered', UNCHANGED asked
        PROVE  Numbered'
    <2>1. StreamsNumbered' /\ HeldNumbered' /\ PendingNumbered'
      BY <1>3, StartNumbers
    <2> QED
      BY <1>3, <2>1, NumberedParts, PTL
  <1>4. ASSUME Submit PROVE Numbered'
    <2>1. CASE BeginReview(draft, "send")
      BY <1>2, <1>4, <2>1, SubmitSteps, ReviewBegins
    <2>2. CASE Dispatch(draft, Absent, FALSE)
               /\ UNCHANGED <<checking, review, latest, previews, asked>>
      <3>1. PreviewsNumbered' /\ ReviewNumbered'
        BY <2>2 DEF Numbered, PreviewsNumbered, ReviewNumbered
      <3>2. CASE Started(draft, Absent)
        BY <1>3, <1>4, <2>2, <3>1, <3>2, SubmitSteps
      <3>3. CASE UNCHANGED <<draft, pending, starting, streams, shown, sent>>
        BY <2>2, <3>3 DEF Numbered
      <3> QED
        BY <1>4, <2>2, <3>2, <3>3, SubmitSteps, DirectSteps
    <2> QED
      BY <1>4, <2>1, <2>2, SubmitSteps
  <1>5. ASSUME Regenerate PROVE Numbered'
    <2>1. CASE BeginReview(shown, "reload")
      BY <1>2, <1>5, <2>1, RegenerateSteps, ReviewBegins
    <2>2. CASE Reload(Absent) /\ UNCHANGED <<checking, review, latest, previews, asked>>
      <3>1. PreviewsNumbered' /\ ReviewNumbered'
        BY <2>2 DEF Numbered, PreviewsNumbered, ReviewNumbered
      <3> QED
        BY <1>3, <1>5, <2>2, <3>1, RegenerateSteps, AnewSteps
    <2> QED
      BY <1>5, <2>1, <2>2, RegenerateSteps
  <1>6. ASSUME SendProtected PROVE Numbered'
    <2>1. review.text \in Texts /\ review.ticket.of \in 1 .. asked
      BY <1>6, SendSteps DEF ReviewType, Numbered
    <2>2. PreviewsNumbered' /\ ReviewNumbered' /\ UNCHANGED asked
      BY <1>6, SendSteps DEF Numbered, PreviewsNumbered, ReviewNumbered
    <2>3. CASE Started(review.text, review.ticket)
      BY <1>3, <2>1, <2>2, <2>3
    <2>4. CASE UNCHANGED <<draft, pending, starting, streams, shown, sent>>
      BY <1>6, <2>4, SendSteps DEF Numbered
    <2> QED
      BY <1>6, <2>3, <2>4, SendSteps
  <1>7. ASSUME Back PROVE Numbered'
    BY <1>0, <1>7 DEF Back, Numbered
  <1>8. ASSUME NewChat PROVE Numbered'
    BY <1>0, <1>8 DEF NewChat, Numbered
  <1>9. ASSUME NEW m \in Modes, SwitchMode(m) PROVE Numbered'
    <2>1. Continued
      BY <1>9, SwitchContinues
    <2> QED
      BY <1>9, <2>1 DEF SwitchMode, Numbered, Continued, Same
  <1>10. ASSUME NEW v \in Values, Protect(v) \/ Unprotect(v) PROVE Numbered'
    <2>1. review.text \in Texts
      BY <1>10, ProtectSteps DEF ReviewType
    <2> QED
      BY <1>2, <1>10, <2>1, ProtectSteps
  <1>11. ASSUME NEW add \in SUBSET Values, NEW remove \in SUBSET Values, OtherTab(add, remove)
         PROVE  Numbered'
    <2>1. PICK new \in PreviewType : previews' = previews \cup {new} /\ new.id = asked + 1
      BY <1>11, OtherTabSteps DEF OtherAsked
    <2>2. asked' = asked + 1 /\ UNCHANGED <<latest, streams, sent, pending, review>>
      BY <1>11, OtherTabSteps DEF OtherAsked
    <2>3. PreviewsNumbered'
      BY <1>0, <2>1, <2>2 DEF Numbered, PreviewsNumbered
    <2>4. \A n \in 1 .. asked : n \in 1 .. asked'
      BY <1>0, <2>2
    <2>5. StreamsNumbered' /\ HeldNumbered' /\ PendingNumbered' /\ ReviewNumbered'
      BY <2>2, <2>4 DEF Numbered, StreamsNumbered, HeldNumbered, PendingNumbered, ReviewNumbered
    <2> QED
      BY <2>3, <2>5, NumberedParts, PTL
  <1>12. ASSUME NEW p \in previews, ReadValues(p) PROVE Numbered'
    <2>1. Continued
      BY <1>12, ReadContinues
    <2> QED
      BY <1>12, <2>1 DEF ReadValues, Numbered, Continued, Same
  <1>13. ASSUME NEW p \in previews, Receive(p) PROVE Numbered'
    <2>1. p.text \in Texts /\ Ticket(p, p.answer.values).of \in 1 .. asked
      BY <1>13 DEF ComposerTypeOK, PreviewType, Ticket, Numbered
    <2>2. Opened(p).ticket.of \in 1 .. asked
      BY <2>1 DEF Opened
    <2>3. review' \in {review, Absent, Opened(p)}
      BY <1>13, ReceiveSteps
    <2>4. PreviewsNumbered' /\ ReviewNumbered' /\ UNCHANGED asked
      BY <1>13, <2>2, <2>3, ReceiveSteps DEF Numbered, PreviewsNumbered, ReviewNumbered
    <2>5. CASE Started(p.text, Ticket(p, p.answer.values))
      BY <1>3, <2>1, <2>4, <2>5
    <2>6. CASE UNCHANGED <<pending, streams, sent>>
      <3>1. StreamsNumbered' /\ HeldNumbered' /\ PendingNumbered'
        BY <2>4, <2>6 DEF Numbered, StreamsNumbered, HeldNumbered, PendingNumbered
      <3> QED
        BY <2>4, <3>1, NumberedParts, PTL
    <2> QED
      BY <1>13, <2>5, <2>6, ReceiveSteps
  <1>14. ASSUME NEW p \in previews, NEW reached \in BOOLEAN, AnswerPreview(p, reached)
         PROVE  Numbered'
    <2>1. Continued
      BY <1>14, AnswerContinues
    <2>2. UNCHANGED <<latest, asked, sent, streams, pending>>
      BY <1>14 DEF AnswerPreview
    <2>3. review' # Absent => review # Absent /\ review'.ticket = review.ticket
      BY <1>14 DEF AnswerPreview, ComposerTypeOK, ReviewType
    <2> QED
      BY <2>1, <2>2, <2>3 DEF Numbered, Continued, Same
  <1>15. ASSUME NEW s \in streams, Connect(s) PROVE Numbered'
    BY <1>15, ConnectSteps DEF Numbered
  <1>16. ASSUME NEW s \in streams, PostChat(s) PROVE Numbered'
    BY <1>16, PostSteps DEF Numbered
  <1>17. ASSUME NEW s \in streams, EndStream(s) PROVE Numbered'
    BY <1>17 DEF EndStream, Numbered
  <1>18. ASSUME UNCHANGED composerVars PROVE Numbered'
    BY <1>18 DEF composerVars, Numbered
  <1>19. \A v \in Values : {v} \in SUBSET Values /\ {} \in SUBSET Values
    OBVIOUS
  <1> QED
    BY <1>1, <1>4, <1>5, <1>6, <1>7, <1>8, <1>9, <1>10, <1>11, <1>12, <1>13, <1>14, <1>15, <1>16,
       <1>17, <1>18, <1>19 DEF ComposerNext

-----------------------------------------------------------------------------
(* What previews remember, and what the page waits for                      *)

LEMMA RememberedKept == ASSUME ComposerInv, [ComposerNext]_composerVars PROVE Remembered'
  <1> USE DEF ComposerInv
  <1>1. ASSUME NEW text, NEW action, NEW open, Asked(text, action, open),
               IF action = "protect" THEN open # Absent /\ open \in ReviewType ELSE open = Absent
        PROVE  Remembered'
    BY <1>1 DEF Asked, Remembered
  <1>2. ASSUME UNCHANGED previews PROVE Remembered'
    BY <1>2 DEF Remembered
  <1>3. ASSUME Submit PROVE Remembered'
    BY <1>1, <1>2, <1>3, SubmitSteps, ReviewBegins
  <1>4. ASSUME Regenerate PROVE Remembered'
    BY <1>1, <1>2, <1>4, RegenerateSteps, ReviewBegins
  <1>5. ASSUME NewChat PROVE Remembered'
    BY <1>5 DEF NewChat, Remembered
  <1>6. ASSUME NEW m \in Modes, SwitchMode(m) PROVE Remembered'
    <2>1. ASSUME NEW r \in previews'
          PROVE  \E q \in previews : Same(r, q) /\ r.phase = q.phase /\ r.answer = q.answer
      BY <1>6, SwitchContinues
    <2> QED
      BY <2>1 DEF Remembered, Same
  <1>7. ASSUME NEW v \in Values, Protect(v) \/ Unprotect(v) PROVE Remembered'
    BY <1>1, <1>7, ProtectSteps
  <1>8. ASSUME NEW add \in SUBSET Values, NEW remove \in SUBSET Values, OtherTab(add, remove)
        PROVE  Remembered'
    <2>1. OtherAsked
      BY <1>8, OtherTabSteps
    <2> QED
      BY <2>1 DEF OtherAsked, Remembered
  <1>9. ASSUME NEW p \in previews, ReadValues(p) PROVE Remembered'
    BY <1>9, ReadContinues DEF Remembered, Same
  <1>10. ASSUME NEW p \in previews, Receive(p) PROVE Remembered'
    BY <1>10, ReceiveSteps DEF Remembered
  <1>11. ASSUME NEW p \in previews, NEW reached \in BOOLEAN, AnswerPreview(p, reached)
         PROVE  Remembered'
    BY <1>11, AnswerContinues DEF Remembered, Same
  <1>12. ASSUME SendProtected PROVE Remembered'
    BY <1>2, <1>12 DEF SendProtected
  <1>13. \A v \in Values : {v} \in SUBSET Values /\ {} \in SUBSET Values
    OBVIOUS
  <1> QED
    BY <1>2, <1>3, <1>4, <1>5, <1>6, <1>7, <1>8, <1>9, <1>10, <1>11, <1>12, <1>13
    DEF ComposerNext, Edit, PickSuggestion, Back, Connect, PostChat, EndStream, composerVars

\* What is said of the review's action and of the last message.
LEMMA WaitingKept == ASSUME ComposerInv, [ComposerNext]_composerVars PROVE Waiting'
  <1> USE DEF ComposerInv
  <1>0. asked \in Nat /\ latest \in Nat /\ \A q \in previews : q.id \in 1 .. asked
    BY DEF ComposerTypeOK, Numbered
  <1>1. ASSUME NEW text, NEW action, NEW open, Asked(text, action, open), UNCHANGED shown,
               review' \in {review, Absent},
               action = "reload" => shown # Absent,
               action = "protect" => open = review /\ review # Absent
        PROVE  Waiting'
    <2>1. PICK new \in PreviewType :
             /\ previews' = previews \cup {new}
             /\ new.id = asked + 1 /\ new.action = action /\ new.review = open
      BY <1>1 DEF Asked
    <2>2. checking' = TRUE /\ latest' = asked + 1
      BY <1>1 DEF Asked
    <2>3. \A q \in previews : ~StillCounts(q)'
      BY <1>0, <2>2 DEF StillCounts, IsCurrent
    <2>4. /\ new.action = "reload" => shown # Absent
          /\ (new.action = "protect" /\ new.review.action = "reload") => shown # Absent
      BY <1>1, <2>1 DEF Waiting
    <2>5. (review' # Absent /\ review'.action = "reload") => shown' # Absent
      BY <1>1 DEF Waiting
    <2> QED
      BY <1>1, <2>1, <2>2, <2>3, <2>4, <2>5 DEF Waiting
  <1>2. ASSUME Continued, UNCHANGED <<checking, latest, shown>>, 
               review' # Absent => review # Absent /\ review'.action = review.action
        PROVE  Waiting'
    BY <1>2 DEF Waiting, Continued, Same, StillCounts, IsCurrent
  <1>3. ASSUME UNCHANGED <<checking, latest, previews>>, review' \in {review, Absent},
               shown # Absent => shown' # Absent
        PROVE  Waiting'
    BY <1>3 DEF Waiting, StillCounts, IsCurrent
  <1>4. ASSUME Submit PROVE Waiting'
    <2>1. CASE BeginReview(draft, "send")
      BY <1>1, <1>4, <2>1, SubmitSteps, ReviewBegins
    <2>2. CASE Dispatch(draft, Absent, FALSE)
               /\ UNCHANGED <<checking, review, latest, previews, asked>>
      <3>1. shown # Absent => shown' # Absent
        BY <1>4, <2>2, SubmitSteps, DirectSteps DEF Started
      <3> QED
        BY <1>3, <2>2, <3>1
    <2> QED
      BY <1>4, <2>1, <2>2, SubmitSteps
  <1>5. ASSUME Regenerate PROVE Waiting'
    <2>1. CASE BeginReview(shown, "reload")
      BY <1>1, <1>5, <2>1, RegenerateSteps, ReviewBegins
    <2>2. CASE Reload(Absent) /\ UNCHANGED <<checking, review, latest, previews, asked>>
      BY <1>3, <2>2 DEF Reload
    <2> QED
      BY <1>5, <2>1, <2>2, RegenerateSteps
  <1>6. ASSUME SendProtected PROVE Waiting'
    <2>1. review' = Absent /\ UNCHANGED <<checking, latest, previews>>
      BY <1>6, SendSteps
    <2>2. shown # Absent => shown' # Absent
      BY <1>6, SendSteps DEF Started
    <2> QED
      BY <1>3, <2>1, <2>2
  <1>7. ASSUME Back PROVE Waiting'
    BY <1>0, <1>7 DEF Back, Waiting, StillCounts, IsCurrent
  <1>8. ASSUME NewChat PROVE Waiting'
    BY <1>0, <1>8 DEF NewChat, Waiting, StillCounts, IsCurrent
  <1>9. ASSUME NEW m \in Modes, SwitchMode(m) PROVE Waiting'
    BY <1>2, <1>9, SwitchContinues DEF SwitchMode
  <1>10. ASSUME NEW v \in Values, Protect(v) \/ Unprotect(v) PROVE Waiting'
    BY <1>1, <1>10, ProtectSteps
  <1>11. ASSUME NEW add \in SUBSET Values, NEW remove \in SUBSET Values, OtherTab(add, remove)
         PROVE  Waiting'
    <2>1. OtherAsked
      BY <1>11, OtherTabSteps
    <2> QED
      BY <2>1 DEF OtherAsked, Waiting, StillCounts, IsCurrent
  <1>12. ASSUME NEW p \in previews, ReadValues(p) PROVE Waiting'
    BY <1>2, <1>12, ReadContinues DEF ReadValues
  <1>13. ASSUME NEW p \in previews, Receive(p) PROVE Waiting'
    <2>1. previews' = previews \ {p} /\ UNCHANGED latest
      BY <1>13, ReceiveSteps
    <2>2. CASE ~StillCounts(p) /\ UNCHANGED <<checking, review, shown>>
      BY <2>1, <2>2 DEF Waiting, StillCounts, IsCurrent
    <2>3. CASE StillCounts(p)
      <3>1. \A q \in previews' : ~StillCounts(q)'
        BY <2>1, <2>3 DEF Numbered, StillCounts, IsCurrent
      <3>2. shown # Absent => shown' # Absent
        BY <1>13, <2>3, ReceiveSteps DEF Started
      <3>3. Opened(p).action = "reload" => shown # Absent
        BY <2>3 DEF Opened, Waiting, Remembered, ComposerTypeOK, PreviewType, StillCounts
      <3>4. review' \in {review, Absent, Opened(p)}
        BY <1>13, ReceiveSteps
      <3> QED
        BY <3>1, <3>2, <3>3, <3>4 DEF Waiting
    <2> QED
      BY <1>13, <2>2, <2>3, ReceiveSteps
  <1>14. ASSUME NEW p \in previews, NEW reached \in BOOLEAN, AnswerPreview(p, reached)
         PROVE  Waiting'
    <2>1. review' # Absent => review # Absent /\ review'.action = review.action
      BY <1>14 DEF AnswerPreview, ComposerTypeOK, ReviewType
    <2>2. UNCHANGED <<checking, latest, shown>>
      BY <1>14 DEF AnswerPreview
    <2> QED
      BY <1>2, <1>14, <2>1, <2>2, AnswerContinues
  <1>15. \A v \in Values : {v} \in SUBSET Values /\ {} \in SUBSET Values
    OBVIOUS
  <1> QED
    BY <1>3, <1>4, <1>5, <1>6, <1>7, <1>8, <1>9, <1>10, <1>11, <1>12, <1>13, <1>14, <1>15
    DEF ComposerNext, Edit, PickSuggestion, Connect, PostChat, EndStream, composerVars

-----------------------------------------------------------------------------
(* What the user wants sent                                                 *)

ConsentOf(p) ==
    (StillCounts(p) /\ p.action # "protect" /\ p.calm) =>
        /\ wanted = p.text
        /\ p.mode = EffectiveMode /\ RequiresPreview(p.mode)
        /\ p.action = "reload" => shown = p.text

LEMMA ConsentKept == ASSUME ComposerInv, [ComposerNext]_composerVars PROVE Consent'
  <1> USE DEF ComposerInv
  <1>0. asked \in Nat /\ latest \in Nat /\ \A q \in previews : q.id \in 1 .. asked
    BY DEF ComposerTypeOK, Numbered
  \* A new preview is the only one that counts.
  <1>1. ASSUME NEW text, NEW action, NEW open, Asked(text, action, open),
               UNCHANGED <<mode, minimum, shown>>,
               action # "protect" => wanted' = text /\ RequiresPreview(EffectiveMode),
               action = "reload" => shown = text
        PROVE  Consent'
    <2>1. PICK new \in PreviewType :
             /\ previews' = previews \cup {new}
             /\ new.id = asked + 1 /\ new.text = text /\ new.action = action
             /\ new.mode = EffectiveMode
      BY <1>1 DEF Asked
    <2>2. latest' = asked + 1
      BY <1>1 DEF Asked
    <2>3. \A q \in previews : ~StillCounts(q)'
      BY <1>0, <2>2 DEF StillCounts, IsCurrent
    <2>4. EffectiveMode' = EffectiveMode
      BY <1>1 DEF EffectiveMode
    <2> QED
      BY <1>1, <2>1, <2>3, <2>4 DEF Consent, RequiresPreview
  \* Where previews go on, what they were asked for must not change.
  <1>2. ASSUME Continued, UNCHANGED <<latest, mode, minimum, shown, wanted>>
        PROVE  Consent'
    <2>1. EffectiveMode' = EffectiveMode
      BY <1>2 DEF EffectiveMode
    <2> QED
      BY <1>2, <2>1 DEF Consent, Continued, Same, StillCounts, IsCurrent, RequiresPreview
  <1>3. ASSUME UNCHANGED <<latest, mode, minimum, shown, wanted, previews>> PROVE Consent'
    BY <1>3 DEF Consent, StillCounts, IsCurrent, EffectiveMode, RequiresPreview
  \* Where nothing counts, nothing is to be shown.
  <1>4. ASSUME \A p \in previews' : ~(StillCounts(p)' /\ p.action # "protect" /\ p.calm)
        PROVE  Consent'
    BY <1>4 DEF Consent
  <1>5. ASSUME ~checking, UNCHANGED <<latest, previews>> PROVE Consent'
    BY <1>4, <1>5 DEF Waiting, StillCounts, IsCurrent
  <1>6. ASSUME ~RequiresPreview(EffectiveMode), UNCHANGED <<latest, previews>>
        PROVE  Consent'
    BY <1>4, <1>6 DEF Consent, StillCounts, IsCurrent
  <1>7. ASSUME Submit PROVE Consent'
    <2>1. CASE RequiresPreview(EffectiveMode) /\ BeginReview(draft, "send") /\ wanted' = draft
      <3>1. Asked(draft, "send", Absent) /\ UNCHANGED <<mode, minimum, shown>>
        BY <1>7, <2>1, SubmitSteps, ReviewBegins
      <3> QED
        BY <1>1, <2>1, <3>1
    <2>2. CASE ~RequiresPreview(EffectiveMode) /\ UNCHANGED <<latest, previews>>
      BY <1>6, <2>2
    <2> QED
      BY <1>7, <2>1, <2>2, SubmitSteps
  <1>8. ASSUME Regenerate PROVE Consent'
    <2>1. CASE RequiresPreview(EffectiveMode) /\ BeginReview(shown, "reload") /\ wanted' = shown
      <3>1. Asked(shown, "reload", Absent) /\ UNCHANGED <<mode, minimum, shown>>
        BY <1>8, <2>1, RegenerateSteps, ReviewBegins
      <3> QED
        BY <1>1, <2>1, <3>1
    <2>2. CASE ~RequiresPreview(EffectiveMode) /\ UNCHANGED <<latest, previews>>
      BY <1>6, <2>2
    <2> QED
      BY <1>8, <2>1, <2>2, RegenerateSteps
  <1>9. ASSUME SendProtected PROVE Consent'
    BY <1>5, <1>9, SendSteps
  <1>10. ASSUME Back PROVE Consent'
    BY <1>0, <1>4, <1>10 DEF Back, StillCounts, IsCurrent
  <1>11. ASSUME NewChat PROVE Consent'
    <2>1. latest' = 0 /\ previews' \subseteq previews
      BY <1>11 DEF NewChat
    <2> QED
      BY <1>0, <1>4, <2>1 DEF StillCounts, IsCurrent
  <1>12. ASSUME NEW m \in Modes, SwitchMode(m) PROVE Consent'
    <2>1. \A r \in previews' : r.calm = FALSE
      BY <1>12, SwitchContinues
    <2> QED
      BY <1>4, <2>1
  <1>13. ASSUME NEW v \in Values, Protect(v) \/ Unprotect(v) PROVE Consent'
    <2>1. Asked(review.text, "protect", review) /\ UNCHANGED <<mode, minimum, shown>>
      BY <1>13, ProtectSteps
    <2> QED
      BY <1>1, <2>1
  <1>14. ASSUME NEW add \in SUBSET Values, NEW remove \in SUBSET Values, OtherTab(add, remove)
         PROVE  Consent'
    <2>1. OtherAsked
      BY <1>14, OtherTabSteps
    <2> QED
      BY <2>1 DEF OtherAsked, Consent, StillCounts, IsCurrent, EffectiveMode, RequiresPreview
  <1>15. ASSUME NEW p \in previews, ReadValues(p) PROVE Consent'
    BY <1>2, <1>15, ReadContinues DEF ReadValues
  <1>16. ASSUME NEW p \in previews, Receive(p) PROVE Consent'
    <2>1. previews' = previews \ {p} /\ UNCHANGED <<mode, minimum, latest>>
      BY <1>16, ReceiveSteps
    <2>2. CASE ~StillCounts(p) /\ UNCHANGED <<shown, wanted>>
      BY <2>1, <2>2 DEF Consent, StillCounts, IsCurrent, EffectiveMode, RequiresPreview
    <2>3. CASE StillCounts(p)
      <3>1. \A q \in previews' : ~StillCounts(q)'
        BY <2>1, <2>3 DEF Numbered, StillCounts, IsCurrent
      <3> QED
        BY <1>4, <3>1
    <2> QED
      BY <1>16, <2>2, <2>3, ReceiveSteps
  <1>17. ASSUME NEW p \in previews, NEW reached \in BOOLEAN, AnswerPreview(p, reached)
         PROVE  Consent'
    BY <1>2, <1>17, AnswerContinues DEF AnswerPreview
  <1>18. \A v \in Values : {v} \in SUBSET Values /\ {} \in SUBSET Values
    OBVIOUS
  <1> QED
    BY <1>3, <1>7, <1>8, <1>9, <1>10, <1>11, <1>12, <1>13, <1>14, <1>15, <1>16, <1>17, <1>18
    DEF ComposerNext, Edit, PickSuggestion, Connect, PostChat, EndStream, composerVars

-----------------------------------------------------------------------------
(* What is stored, and what reaches the provider                            *)

\* A preview whose rows or answer are held to the stored phrases.
RowsOf(p) ==
    /\ p.phase = "read" => p.rows \subseteq stored \cup p.gone
    /\ (p.phase = "answered" /\ p.answer.ok) => p.answer.values \subseteq stored \cup p.gone

PreviewRows == \A p \in previews : RowsOf(p)
ReviewRows == review # Absent => review.values \subseteq stored \cup review.gone

LEMMA RowsParts == Rows <=> PreviewRows /\ ReviewRows
  BY DEF Rows, RowsOf, PreviewRows, ReviewRows, AnsweredIsStored

LEMMA RowsKept == ASSUME ComposerInv, [ComposerNext]_composerVars PROVE Rows'
  <1> USE DEF ComposerInv
  <1>0. PreviewRows /\ ReviewRows
    BY RowsParts
  <1>1. ASSUME NEW text, NEW action, NEW open, Asked(text, action, open), UNCHANGED stored,
               review' \in {review, Absent}
        PROVE  Rows'
    <2>1. PICK new \in PreviewType : previews' = previews \cup {new} /\ new.phase = "sent"
      BY <1>1 DEF Asked
    <2>2. PreviewRows' /\ ReviewRows'
      BY <1>0, <1>1, <2>1 DEF PreviewRows, RowsOf, ReviewRows
    <2> QED
      BY <2>2, RowsParts, PTL
  <1>2. ASSUME UNCHANGED stored, review' \in {review, Absent}, previews' \subseteq previews
        PROVE  Rows'
    <2>1. PreviewRows' /\ ReviewRows'
      BY <1>0, <1>2 DEF PreviewRows, RowsOf, ReviewRows
    <2> QED
      BY <2>1, RowsParts, PTL
  <1>3. ASSUME Submit PROVE Rows'
    <2>1. CASE BeginReview(draft, "send")
      BY <1>1, <1>3, <2>1, SubmitSteps, ReviewBegins
    <2>2. CASE UNCHANGED <<review, previews>>
      BY <1>2, <1>3, <2>2, SubmitSteps
    <2> QED
      BY <1>3, <2>1, <2>2, SubmitSteps
  <1>4. ASSUME Regenerate PROVE Rows'
    <2>1. CASE BeginReview(shown, "reload")
      BY <1>1, <1>4, <2>1, RegenerateSteps, ReviewBegins
    <2>2. CASE UNCHANGED <<review, previews>>
      BY <1>2, <1>4, <2>2, RegenerateSteps
    <2> QED
      BY <1>4, <2>1, <2>2, RegenerateSteps
  <1>5. ASSUME SendProtected PROVE Rows'
    BY <1>2, <1>5, SendSteps
  <1>6. ASSUME Back PROVE Rows'
    BY <1>2, <1>6 DEF Back
  <1>7. ASSUME NewChat PROVE Rows'
    <2>1. review' = Absent /\ (previews' = {} \/ UNCHANGED <<previews, stored>>)
      BY <1>7 DEF NewChat
    <2>2. PreviewRows' /\ ReviewRows'
      BY <1>0, <2>1 DEF PreviewRows, RowsOf, ReviewRows
    <2> QED
      BY <2>2, RowsParts, PTL
  <1>8. ASSUME NEW m \in Modes, SwitchMode(m) PROVE Rows'
    <2>1. UNCHANGED <<stored, review>>
      BY <1>8 DEF SwitchMode
    <2>2. ASSUME NEW r \in previews'
          PROVE  RowsOf(r)'
      <3>1. PICK q \in previews :
               /\ r.phase = q.phase /\ r.rows = q.rows /\ r.answer = q.answer /\ r.gone = q.gone
        BY <1>8, SwitchContinues
      <3> QED
        BY <1>0, <2>1, <3>1 DEF PreviewRows, RowsOf
    <2>3. PreviewRows' /\ ReviewRows'
      BY <1>0, <2>1, <2>2 DEF PreviewRows, ReviewRows
    <2> QED
      BY <2>3, RowsParts, PTL
  <1>9. ASSUME NEW v \in Values, Protect(v) \/ Unprotect(v) PROVE Rows'
    BY <1>1, <1>9, ProtectSteps
  <1>10. ASSUME NEW add \in SUBSET Values, NEW remove \in SUBSET Values, OtherTab(add, remove)
         PROVE  Rows'
    <2>1. OtherAsked
      BY <1>10, OtherTabSteps
    <2>2. PreviewRows' /\ ReviewRows'
      BY <1>0, <2>1 DEF OtherAsked, PreviewRows, RowsOf, ReviewRows
    <2> QED
      BY <2>2, RowsParts, PTL
  <1>11. ASSUME NEW p \in previews, ReadValues(p) PROVE Rows'
    <2>1. UNCHANGED <<stored, review>>
      BY <1>11 DEF ReadValues
    <2>2. ASSUME NEW r \in previews' PROVE RowsOf(r)'
      BY <1>0, <1>11, <2>1, ReadContinues DEF PreviewRows, RowsOf
    <2>3. PreviewRows' /\ ReviewRows'
      BY <1>0, <2>1, <2>2 DEF PreviewRows, ReviewRows
    <2> QED
      BY <2>3, RowsParts, PTL
  <1>12. ASSUME NEW p \in previews, Receive(p) PROVE Rows'
    <2>1. UNCHANGED stored /\ previews' = previews \ {p} /\ p.phase = "answered"
      BY <1>12, ReceiveSteps
    <2>2. CASE review' \in {review, Absent}
      BY <1>2, <2>1, <2>2
    <2>3. CASE p.answer.ok /\ review' = Opened(p)
      <3>1. review'.values \subseteq stored \cup review'.gone
        BY <1>0, <2>1, <2>3 DEF Opened, PreviewRows, RowsOf
      <3>2. PreviewRows' /\ ReviewRows'
        BY <1>0, <2>1, <3>1 DEF PreviewRows, RowsOf, ReviewRows
      <3> QED
        BY <3>2, RowsParts, PTL
    <2> QED
      BY <1>12, <2>2, <2>3, ReceiveSteps
  \* The two statements of a change leave what it read and changed.
  <1>13. ASSUME NEW p \in previews, NEW reached \in BOOLEAN, AnswerPreview(p, reached)
         PROVE  Rows'
    <2> DEFINE over == Cardinality(Known(p)) > ValuesMax
               removed == IF over THEN {} ELSE p.remove
    <2>1. p.phase = "read" /\ p.rows \subseteq stored \cup p.gone
      BY <1>0, <1>13 DEF AnswerPreview, PreviewRows, RowsOf
    <2>2. stored' = IF over THEN stored ELSE WrittenRows(p)
      BY <1>13 DEF AnswerPreview
    <2>3. stored \subseteq stored' \cup removed
      BY <2>2 DEF WrittenRows
    <2>4. ~over => Known(p) \subseteq stored' \cup p.gone
      BY <2>1, <2>2 DEF WrittenRows, Known
    <2>5. ASSUME NEW r \in previews' PROVE RowsOf(r)'
      <3>1. CASE /\ r.phase = "answered" /\ r.gone = p.gone /\ r.answer.values = Known(p)
                 /\ r.answer.ok => ~over
        BY <2>4, <3>1 DEF PreviewRows, RowsOf
      <3>2. CASE \E q \in previews :
                    /\ r.phase = q.phase /\ r.rows = q.rows /\ r.answer = q.answer
                    /\ r.gone = q.gone \cup removed
        <4>1. PICK q \in previews :
                 /\ r.phase = q.phase /\ r.rows = q.rows /\ r.answer = q.answer
                 /\ r.gone = q.gone \cup removed
          BY <3>2
        <4> HIDE DEF removed
        <4> QED
          BY <1>0, <2>3, <4>1 DEF PreviewRows, RowsOf
      <3> QED
        BY <1>13, <3>1, <3>2, AnswerContinues
    <2>6. ReviewRows'
      <3>1. review' = IF review = Absent THEN review ELSE [review EXCEPT !.gone = @ \cup removed]
        BY <1>13 DEF AnswerPreview
      <3>2. review # Absent => /\ review'.values = review.values
                               /\ review'.gone = review.gone \cup removed
        BY <3>1 DEF ComposerTypeOK, ReviewType
      <3> HIDE DEF removed
      <3> QED
        BY <1>0, <2>3, <3>1, <3>2 DEF PreviewRows, ReviewRows
    <2>7. PreviewRows' /\ ReviewRows'
      BY <2>5, <2>6 DEF PreviewRows
    <2> QED
      BY <2>7, RowsParts, PTL
  <1>14. \A v \in Values : {v} \in SUBSET Values /\ {} \in SUBSET Values
    OBVIOUS
  <1> QED
    BY <1>2, <1>3, <1>4, <1>5, <1>6, <1>7, <1>8, <1>9, <1>10, <1>11, <1>12, <1>13, <1>14
    DEF ComposerNext, Edit, PickSuggestion, Connect, PostChat, EndStream, composerVars

LEMMA ReviewedKept == ASSUME ComposerInv, [ComposerNext]_composerVars PROVE ReviewedBeforeModel'
  <1> USE DEF ComposerInv
  <1>0. asked \in Nat
    BY DEF ComposerTypeOK
  \* A stream that is started has not reached the provider.
  <1>1. ASSUME NEW text, NEW ticket, Started(text, ticket), UNCHANGED <<asked, minimum>>
        PROVE  ReviewedBeforeModel'
    BY <1>1 DEF Started, ReviewedBeforeModel, RequiresPreview
  <1>2. ASSUME UNCHANGED minimum, streams' \subseteq streams, asked' \in {asked, asked + 1}
        PROVE  ReviewedBeforeModel'
    BY <1>0, <1>2 DEF ReviewedBeforeModel, RequiresPreview
  <1>3. ASSUME Submit PROVE ReviewedBeforeModel'
    <2>1. CASE BeginReview(draft, "send")
      BY <1>2, <1>3, <2>1, SubmitSteps, ReviewBegins DEF Asked
    <2>2. CASE Dispatch(draft, Absent, FALSE) /\ UNCHANGED asked
      BY <1>1, <1>2, <1>3, <2>2, SubmitSteps, DirectSteps
    <2> QED
      BY <1>3, <2>1, <2>2, SubmitSteps
  <1>4. ASSUME Regenerate PROVE ReviewedBeforeModel'
    <2>1. CASE BeginReview(shown, "reload")
      BY <1>2, <1>4, <2>1, RegenerateSteps, ReviewBegins DEF Asked
    <2>2. CASE Reload(Absent) /\ UNCHANGED asked
      BY <1>1, <1>4, <2>2, RegenerateSteps, AnewSteps
    <2> QED
      BY <1>4, <2>1, <2>2, RegenerateSteps
  <1>5. ASSUME SendProtected PROVE ReviewedBeforeModel'
    BY <1>1, <1>2, <1>5, SendSteps
  <1>6. ASSUME NewChat PROVE ReviewedBeforeModel'
    BY <1>6 DEF NewChat, ReviewedBeforeModel, RequiresPreview, ComposerTypeOK
  <1>7. ASSUME NEW v \in Values, Protect(v) \/ Unprotect(v) PROVE ReviewedBeforeModel'
    BY <1>2, <1>7, ProtectSteps DEF Asked
  <1>8. ASSUME NEW add \in SUBSET Values, NEW remove \in SUBSET Values, OtherTab(add, remove)
        PROVE  ReviewedBeforeModel'
    BY <1>2, <1>8, OtherTabSteps DEF OtherAsked
  <1>9. ASSUME NEW p \in previews, Receive(p) PROVE ReviewedBeforeModel'
    BY <1>1, <1>2, <1>9, ReceiveSteps
  <1>10. ASSUME NEW s \in streams, Connect(s) PROVE ReviewedBeforeModel'
    BY <1>10, ConnectSteps DEF ReviewedBeforeModel, RequiresPreview
  \* The route lets a stream through only with the ticket it holds.
  <1>11. ASSUME NEW s \in streams, PostChat(s) PROVE ReviewedBeforeModel'
    <2>1. PICK new \in StreamType :
             /\ streams' = (streams \ {s}) \cup {new}
             /\ new.text = s.text
             /\ (new.phase = "provider" /\ RequiresPreview(minimum.now))
                   => s.holds # Absent /\ new.holds = s.holds /\ new.holds.text = s.text
      BY <1>11, PostSteps
    <2>2. s.phase = "sent" /\ UNCHANGED <<minimum, asked>>
      BY <1>11, PostSteps
    <2>3. s.holds # Absent => s.holds.of \in 1 .. asked
      BY <2>2 DEF Numbered
    <2> QED
      BY <2>1, <2>2, <2>3 DEF ReviewedBeforeModel, RequiresPreview
  <1>12. ASSUME NEW s \in streams, EndStream(s) PROVE ReviewedBeforeModel'
    BY <1>2, <1>12 DEF EndStream
  <1>13. \A v \in Values : {v} \in SUBSET Values /\ {} \in SUBSET Values
    OBVIOUS
  <1> QED
    BY <1>2, <1>3, <1>4, <1>5, <1>6, <1>7, <1>8, <1>9, <1>10, <1>11, <1>12, <1>13
    DEF ComposerNext, Edit, PickSuggestion, Back, SwitchMode, ReadValues, AnswerPreview, composerVars

-----------------------------------------------------------------------------
(* The theorems                                                             *)

LEMMA ComposerInitInv == ComposerInit => ComposerInv
  <1> SUFFICES ASSUME ComposerInit PROVE ComposerInv
    OBVIOUS
  <1>1. ComposerTypeOK
    BY DEF ComposerInit, ComposerTypeOK, Rank
  <1>2. Numbered /\ Remembered /\ Waiting /\ Consent /\ Rows /\ ReviewedBeforeModel
    BY DEF ComposerInit, Numbered, Remembered, Waiting, Consent, Rows, AnsweredIsStored,
           ReviewedBeforeModel
  <1> QED
    BY <1>1, <1>2 DEF ComposerInv

LEMMA ComposerStepKeeps == ComposerInv /\ [ComposerNext]_composerVars => ComposerInv'
  BY ComposerTypesKept, NumberedKept, RememberedKept, WaitingKept, ConsentKept, RowsKept, ReviewedKept
  DEF ComposerInv

THEOREM ComposerInvariance == ComposerSpec => []ComposerInv
  BY ComposerInitInv, ComposerStepKeeps, PTL DEF ComposerSpec

\* The variables keep their types: drafts and messages are texts, tickets and
\* reviews are complete, whatever handlers resume.
THEOREM ComposerTypeCorrect == ComposerSpec => []ComposerTypeOK
  BY ComposerInvariance, PTL DEF ComposerInv

\* While the workspace asks for a review, no message reaches the provider
\* unless a preview of that very text answered the page.
THEOREM NothingUnreviewed == ComposerSpec => []ReviewedBeforeModel
  BY ComposerInvariance, PTL DEF ComposerInv

\* What a preview told the page is protected is stored until a removal runs,
\* although the changes of two tabs cross.
THEOREM AnswersAreStored == ComposerSpec => []AnsweredIsStored
  <1>1. ComposerInv => AnsweredIsStored
    BY DEF ComposerInv, Rows
  <1> QED
    BY <1>1, ComposerInvariance, PTL

\* A step in which an answer starts a stream sends what the user wants sent.
ConsentStep ==
    \A p \in previews \ previews' :
        (sent' > sent /\ p.action # "protect" /\ p.calm)
           => \E s \in streams' \ streams : wanted = s.text

LEMMA StepsConsent == ComposerInv /\ [ComposerNext]_composerVars => ConsentStep
  <1> SUFFICES ASSUME ComposerInv, [ComposerNext]_composerVars,
                      NEW p \in previews, p \notin previews',
                      sent' > sent, p.action # "protect", p.calm
               PROVE  \E s \in streams' \ streams : wanted = s.text
    BY DEF ConsentStep
  <1> USE DEF ComposerInv
  <1>0. sent \in Nat /\ ~(sent > sent) /\ sent' # sent
    BY DEF ComposerTypeOK
  \* Only an answer takes a preview away and starts a stream.
  <1>1. ASSUME NEW q \in previews, Receive(q)
        PROVE  \E s \in streams' \ streams : wanted = s.text
    <2>1. q = p
      BY <1>1, ReceiveSteps
    <2>2. /\ StillCounts(p)
          /\ Started(p.text, Ticket(p, p.answer.values))
          /\ shown' = IF p.action = "send" THEN p.text ELSE shown
      BY <1>0, <1>1, <2>1, ReceiveSteps
    <2>3. wanted = p.text /\ (p.action = "reload" => shown = p.text)
      BY <2>2 DEF Consent
    <2>4. p.action \in {"send", "reload"}
      BY <2>2 DEF StillCounts, ComposerTypeOK, PreviewType
    <2>5. PICK new \in StreamType : /\ streams' = streams \cup {new}
                                    /\ new.id = sent + 1 /\ new.text = shown'
      BY <2>2 DEF Started
    <2>6. new \notin streams
      BY <1>0, <2>5 DEF Numbered
    <2> QED
      BY <2>2, <2>3, <2>4, <2>5, <2>6
  <1>2. ~Submit
    <2>1. ASSUME Submit PROVE UNCHANGED sent \/ UNCHANGED previews
      BY <2>1, SubmitSteps, ReviewBegins
    <2> QED
      BY <1>0, <2>1
  <1>3. ~Regenerate
    <2>1. ASSUME Regenerate PROVE UNCHANGED sent \/ UNCHANGED previews
      BY <2>1, RegenerateSteps, ReviewBegins
    <2> QED
      BY <1>0, <2>1
  <1>4. ~SendProtected
    BY SendSteps
  <1> QED
    BY <1>0, <1>1, <1>2, <1>3, <1>4
    DEF ComposerNext, Edit, PickSuggestion, Protect, Unprotect, Back, NewChat, SwitchMode, OtherTab,
        ReadValues, AnswerPreview, Connect, PostChat, EndStream, composerVars

\* A preview that answers late sends only what the user still wants sent.
THEOREM LateAnswersAskNobody == ComposerSpec => SentWithConsent
  <1>1. ComposerInv /\ [ComposerNext]_composerVars => [ConsentStep]_composerVars
    BY StepsConsent
  <1> QED
    BY <1>1, ComposerInvariance, PTL DEF ComposerSpec, SentWithConsent, ConsentStep

-----------------------------------------------------------------------------
(* Proofs about EgressLedger: for any turns, any policies and any number of days
   the ledger of a chat reads back and its deletion is on record as long as it
   must be (LedgerHolds).

   Two arguments.  Rows: the order of proofs is total on rows of different
   events, so a ledger with rows has a latest one (HasLatest), an append that
   nothing crossed names it (NextKnown), and a sweep takes the rows of a day
   with all the earlier ones, so what a row names is either there or gone with
   all that came before.  Deletion: the period a chat is kept for was allowed
   together with an audit period at least as long; a sweep that runs with a
   shorter one either read it from a policy set since, which least remembers, or
   began on the day of the deletion, whose record it keeps.                      *)

USE LedgerAssumption

-----------------------------------------------------------------------------
(* The order of rows                                                        *)

Dated == [id : Turns, at : Nat]

\* Proofs are ordered by day, then by identifier.
LEMMA OrderTotal ==
    ASSUME NEW r, NEW s, r.id \in Turns, s.id \in Turns, r.at \in Nat, s.at \in Nat
    PROVE  /\ ~(Before(r, s) /\ Before(s, r))
           /\ r.id # s.id => Before(r, s) \/ Before(s, r)
           /\ Before(r, s) => r.id # s.id \/ r.at # s.at
           /\ Before(r, s) => r.at <= s.at
  <1> DEFINE a == r.at  b == s.at  i == r.id  j == s.id
  <1>1. a \in Nat /\ b \in Nat /\ i \in Nat /\ j \in Nat
    OBVIOUS
  <1>2. /\ Before(r, s) <=> (a < b \/ (a = b /\ i < j))
        /\ Before(s, r) <=> (b < a \/ (b = a /\ j < i))
    BY DEF Before
  <1> SUFFICES /\ ~(Before(r, s) /\ Before(s, r))
               /\ i # j => Before(r, s) \/ Before(s, r)
               /\ Before(r, s) => i # j \/ a # b
               /\ Before(r, s) => a <= b
    OBVIOUS
  <1> HIDE DEF a, b, i, j
  <1> QED
    BY <1>1, <1>2

LEMMA OrderTransitive ==
    ASSUME NEW r, NEW s, NEW q, r.id \in Turns, s.id \in Turns, q.id \in Turns,
           r.at \in Nat, s.at \in Nat, q.at \in Nat, Before(r, s), Before(s, q)
    PROVE  Before(r, q)
  <1> DEFINE a == r.at  b == s.at  c == q.at  i == r.id  j == s.id  k == q.id
  <1>1. a \in Nat /\ b \in Nat /\ c \in Nat /\ i \in Nat /\ j \in Nat /\ k \in Nat
    OBVIOUS
  <1>2. /\ a < b \/ (a = b /\ i < j)
        /\ b < c \/ (b = c /\ j < k)
        /\ Before(r, q) <=> (a < c \/ (a = c /\ i < k))
    BY DEF Before
  <1> HIDE DEF a, b, c, i, j, k
  <1> QED
    BY <1>1, <1>2

-----------------------------------------------------------------------------
(* The inductive invariant                                                  *)

\* A row and an append are of a turn that has its proof, and name another one.
Placed ==
    /\ \A r \in ledger : /\ turns[r.id].phase = "proved" /\ r.at = turns[r.id].at
                         /\ r.prev # Nothing => r.prev # r.id /\ turns[r.prev].phase = "proved"
    /\ \A a \in appends : /\ turns[a.id].phase = "proved"
                          /\ a.prev # Nothing => a.prev # a.id /\ turns[a.prev].phase = "proved"
    /\ \A r, s \in ledger : r.id = s.id => r = s

IsLatest(r) == \A s \in ledger \ {r} : Before(s, r)
HasLatest == ledger # {} => \E r \in ledger : IsLatest(r)

\* An append that nothing crossed names the latest row, if there is one.
NextKnown ==
    inOrder => \A a \in appends : ledger # {} => \E r \in ledger : a.prev = r.id /\ IsLatest(r)

\* A row names a proof that came before its own.
NamesEarlier == inOrder => \A r \in ledger : r.prev # Nothing => Before(Proof(r.prev), r)

\* The period a chat is kept for, or is about to be kept for.
Period == chat.purgeAfter - chat.deletedAt

\* A period was allowed beside the audit period in force, or that was shortened since.
Allowed(days) == days <= least => days <= AuditPeriod(policy)

Retention ==
    /\ policy.recovery = 0 \/ policy.recovery <= AuditPeriod(policy)
    /\ deleting # Nothing => deleting = 0 \/ Allowed(deleting)
    /\ chat.phase = "retained" =>
         /\ deleting = Nothing
         /\ chat.deletedAt <= now /\ chat.deletedAt <= chat.purgeAfter
         /\ Allowed(Period)
    /\ deleting # Nothing => chat.phase = "live"

\* A sweep that would drop the record of a deletion runs with a period asked for since.
SweepAllows ==
    (sweep # Nothing /\ chat.phase = "retained" /\ Period <= least)
        => \/ chat.deletedAt = now
           \/ sweep = 0 \/ Period <= sweep

LedgerInv ==
    /\ LedgerTypeOK /\ Placed /\ HasLatest /\ NextKnown /\ NamesEarlier /\ ChainReadsBack
    /\ Retention /\ SweepAllows /\ DeletionIsOnRecord

-----------------------------------------------------------------------------
(* Lemmas                                                                   *)

LEMMA PeriodsTyped ==
    ASSUME NEW p \in [recovery : 0 .. Longest, audit : 0 .. Longest]
    PROVE  /\ AuditPeriod(p) \in Nat /\ p.recovery \in Nat /\ p.audit \in Nat
           /\ AuditPeriod(p) <= Longest
           /\ PolicyAllowed(p) => p.recovery = 0 \/ p.recovery <= AuditPeriod(p)
           /\ p.audit # 0 => AuditPeriod(p) = p.audit
  BY DEF AuditPeriod, PolicyAllowed

\* The row LatestRow names is the latest.
LEMMA LatestNamed ==
    ASSUME LedgerTypeOK, Placed, HasLatest
    PROVE  /\ LatestRow \in Turns \cup {Nothing}
           /\ ledger # {} => \E r \in ledger : LatestRow = r.id /\ IsLatest(r)
  <1>1. CASE ledger = {}
    BY <1>1 DEF LatestRow
  <1>2. CASE ledger # {}
    <2> DEFINE last == CHOOSE r \in ledger : \A s \in ledger \ {r} : Before(s, r)
    <2>1. last \in ledger /\ \A s \in ledger \ {last} : Before(s, last)
      BY <1>2 DEF HasLatest, IsLatest
    <2>2. LatestRow = last.id
      BY <1>2 DEF LatestRow
    <2> HIDE DEF last
    <2> QED
      BY <1>2, <2>1, <2>2 DEF LedgerTypeOK, RowType, IsLatest
  <1> QED
    BY <1>1, <1>2

\* What a sweep leaves of a ledger: whatever came after a row that is kept.
LEMMA ExpireKeepsLater ==
    ASSUME LedgerTypeOK, Expire, NEW r \in ledger, NEW s \in ledger, Before(r, s), r \in ledger'
    PROVE  s \in ledger'
  <1>1. /\ r.id \in Turns /\ s.id \in Turns /\ r.at \in Nat /\ s.at \in Nat
        /\ sweep \in Nat /\ now \in Nat
    BY DEF LedgerTypeOK, RowType, Expire
  <1>2. r.at <= s.at
    BY <1>1, OrderTotal
  <1>3. Kept(r.at) => Kept(s.at)
    BY <1>1, <1>2 DEF Kept
  <1>4. ledger' = {q \in ledger : Kept(q.at)}
    BY DEF Expire
  <1> QED
    BY <1>3, <1>4

-----------------------------------------------------------------------------
(* How turns, appends and rows change                                       *)

LEMMA ProofsStay ==
    ASSUME LedgerTypeOK, [LedgerNext]_ledgerVars
    PROVE  /\ turns' \in [Turns -> [phase : {"idle", "proved"}, at : Nat, left : Nat]]
           /\ \A t \in Turns : turns[t].phase = "proved" =>
                turns'[t].phase = "proved" /\ turns'[t].at = turns[t].at
  <1>1. turns \in [Turns -> [phase : {"idle", "proved"}, at : Nat, left : Nat]] /\ now \in Nat
    BY DEF LedgerTypeOK
  <1>2. ASSUME NEW t \in Turns, Turn(t)
        PROVE  /\ turns' \in [Turns -> [phase : {"idle", "proved"}, at : Nat, left : Nat]]
               /\ \A u \in Turns : turns[u].phase = "proved" =>
                    turns'[u].phase = "proved" /\ turns'[u].at = turns[u].at
    <2> DEFINE new == [turns[t] EXCEPT !.phase = "proved", !.at = now]
    <2>1. turns' = [turns EXCEPT ![t] = new] /\ turns[t].phase # "proved"
      BY <1>1, <1>2 DEF Turn
    <2>2. new \in [phase : {"idle", "proved"}, at : Nat, left : Nat]
      BY <1>1
    <2> HIDE DEF new
    <2> QED
      BY <1>1, <2>1, <2>2
  <1>3. ASSUME NEW t \in Turns, BeginAppend(t)
        PROVE  /\ turns' \in [Turns -> [phase : {"idle", "proved"}, at : Nat, left : Nat]]
               /\ \A u \in Turns : turns[u].phase = "proved" =>
                    turns'[u].phase = "proved" /\ turns'[u].at = turns[u].at
    <2> DEFINE new == [turns[t] EXCEPT !.left = turns[t].left - 1]
    <2>1. turns' = [turns EXCEPT ![t] = new] /\ turns[t].left > 0
      BY <1>1, <1>3 DEF BeginAppend
    <2>2. /\ new \in [phase : {"idle", "proved"}, at : Nat, left : Nat]
          /\ new.phase = turns[t].phase /\ new.at = turns[t].at
      BY <1>1, <2>1
    <2> HIDE DEF new
    <2> QED
      BY <1>1, <2>1, <2>2
  <1> QED
    BY <1>1, <1>2, <1>3
    DEF LedgerNext, ledgerVars, Tomorrow, BeginDelete, Delete, Restore, BeginSweep, Purge, Expire,
        ChangePolicy, InsertRow

\* The transaction of an append starts, and names what is then the latest row.
Starts(a) ==
    /\ a.id \in Turns /\ a.left \in Nat /\ a.prev = LatestRow
    /\ turns[a.id].phase = "proved" /\ RowOf(a.id) = {}
    /\ appends' = appends \cup {a}
    /\ a = [id |-> a.id, left |-> a.left, prev |-> a.prev]
    /\ UNCHANGED <<ledger, inOrder>>

\* The transaction of an append ends with its row.
Inserts(a, row) ==
    /\ ledger' = ledger \cup {row} /\ appends' = appends \ {a}
    /\ row.id = a.id /\ row.at = turns[a.id].at /\ row.prev = a.prev
    /\ RowOf(a.id) = {}
    /\ inOrder' \in BOOLEAN
    /\ inOrder' => inOrder /\ appends = {a} /\ Follows(row)
    /\ UNCHANGED turns

LEMMA LedgerChanges ==
    ASSUME LedgerTypeOK, Placed, [LedgerNext]_ledgerVars
    PROVE  \/ UNCHANGED <<ledger, inOrder>> /\ appends' \subseteq appends
           \/ \E a \in appends' : Starts(a)
           \/ \E a \in appends, row \in RowType : Inserts(a, row)
           \/ Expire
  <1>1. turns \in [Turns -> [phase : {"idle", "proved"}, at : Nat, left : Nat]]
    BY DEF LedgerTypeOK
  <1>2. ASSUME NEW t \in Turns, BeginAppend(t)
        PROVE  \/ UNCHANGED <<ledger, inOrder>> /\ appends' \subseteq appends
               \/ \E a \in appends' : Starts(a)
    <2> DEFINE new == [id |-> t, left |-> turns[t].left, prev |-> LatestRow]
    <2>1. CASE appends' = appends
      BY <1>2, <2>1 DEF BeginAppend
    <2>2. CASE RowOf(t) = {} /\ appends' = appends \cup {new}
      <3>1. /\ new.id = t /\ new.left = turns[t].left /\ new.prev = LatestRow
            /\ new = [id |-> new.id, left |-> new.left, prev |-> new.prev]
        OBVIOUS
      <3>2. turns[t].left \in Nat /\ turns[t].phase = "proved"
        BY <1>1, <1>2 DEF BeginAppend
      <3>3. UNCHANGED <<ledger, inOrder>>
        BY <1>2 DEF BeginAppend
      <3> HIDE DEF new
      <3>4. Starts(new)
        BY <2>2, <3>1, <3>2, <3>3 DEF Starts
      <3> QED
        BY <2>2, <3>4
    <2> QED
      BY <1>2, <2>1, <2>2 DEF BeginAppend
  <1>3. ASSUME NEW a \in appends, InsertRow(a)
        PROVE  \/ UNCHANGED <<ledger, inOrder>> /\ appends' \subseteq appends
               \/ \E row \in RowType : Inserts(a, row)
    <2> DEFINE row == [id |-> a.id, at |-> turns[a.id].at, prev |-> a.prev]
    <2>1. a.id \in Turns /\ a.prev \in Turns \cup {Nothing} /\ inOrder \in BOOLEAN
      BY DEF LedgerTypeOK
    <2>2. row \in RowType /\ row.id = a.id /\ row.at = turns[a.id].at /\ row.prev = a.prev
      BY <1>1, <2>1 DEF RowType
    <2>3. CASE RowOf(a.id) # {}
      BY <1>3, <2>3 DEF InsertRow
    <2>4. CASE RowOf(a.id) = {}
      <3>1. /\ ledger' = ledger \cup {row}
            /\ inOrder' = (inOrder /\ appends = {a} /\ Follows(row))
            /\ appends' = appends \ {a} /\ UNCHANGED turns
        BY <1>3, <2>4 DEF InsertRow
      <3> HIDE DEF row
      <3> DEFINE kept == inOrder /\ appends = {a} /\ Follows(row)
      <3>2. kept \in BOOLEAN /\ inOrder' = kept
        BY <3>1
      <3>3. inOrder' => inOrder /\ appends = {a} /\ Follows(row)
        BY <3>1
      <3> HIDE DEF kept
      <3>4. Inserts(a, row)
        BY <2>2, <2>4, <3>1, <3>2, <3>3 DEF Inserts
      <3> QED
        BY <2>2, <3>4
    <2> QED
      BY <2>3, <2>4
  <1> QED
    BY <1>2, <1>3
    DEF LedgerNext, ledgerVars, Tomorrow, BeginDelete, Delete, Restore, BeginSweep, Purge, Turn,
        ChangePolicy

LEMMA ExpireSteps ==
    ASSUME Expire
    PROVE  /\ ledger' \subseteq ledger /\ UNCHANGED <<appends, inOrder, turns>>
           /\ sweep # Nothing
  BY DEF Expire

-----------------------------------------------------------------------------
(* The types are kept                                                       *)

LEMMA LedgerTypesKept == ASSUME LedgerInv, [LedgerNext]_ledgerVars PROVE LedgerTypeOK'
  <1> USE DEF LedgerInv
  <1>1. /\ now \in Nat /\ least \in Nat
        /\ policy \in [recovery : 0 .. Longest, audit : 0 .. Longest]
        /\ chat \in ChatType
        /\ deleting \in Nat \cup {Nothing} /\ sweep \in Nat \cup {Nothing}
        /\ audit \subseteq Nat
    BY DEF LedgerTypeOK
  <1>2. AuditPeriod(policy) \in Nat /\ policy.recovery \in Nat /\ policy.audit \in Nat
    BY <1>1, PeriodsTyped
  <1>3. /\ now' \in Nat /\ least' \in Nat
        /\ policy' \in [recovery : 0 .. Longest, audit : 0 .. Longest]
    <2>1. ASSUME NEW p \in Policies, ChangePolicy(p)
          PROVE  /\ now' \in Nat /\ least' \in Nat
                 /\ policy' \in [recovery : 0 .. Longest, audit : 0 .. Longest]
      <3>1. p \in [recovery : 0 .. Longest, audit : 0 .. Longest] /\ AuditPeriod(p) \in Nat
        BY PeriodsTyped
      <3>2. Lesser(least, AuditPeriod(p)) \in Nat
        BY <1>1, <3>1 DEF Lesser
      <3> QED
        BY <1>1, <2>1, <3>1, <3>2 DEF ChangePolicy
    <2>2. \/ \E p \in Policies : ChangePolicy(p)
          \/ now' \in {now, now + 1} /\ least' \in {least, Longest} /\ policy' = policy
      BY DEF LedgerNext, ledgerVars, Tomorrow, BeginDelete, Delete, Restore, BeginSweep, Purge, Turn,
             BeginAppend, InsertRow, Expire
    <2>3. now + 1 \in Nat
      BY <1>1
    <2> QED
      BY <1>1, <2>1, <2>2, <2>3
  <1>4. /\ deleting' \in Nat \cup {Nothing} /\ sweep' \in Nat \cup {Nothing}
        /\ audit' \subseteq Nat
    BY <1>1, <1>2
    DEF LedgerNext, ledgerVars, Tomorrow, BeginDelete, Delete, Restore, BeginSweep, Purge, Turn,
        BeginAppend, InsertRow, Expire, ChangePolicy
  <1>5. chat' \in ChatType
    <2>1. CASE Delete
      BY <1>1, <2>1 DEF Delete, ChatType
    <2>2. CASE Restore
      BY <2>2 DEF Restore, Live, ChatType
    <2>3. CASE Purge
      BY <1>1, <2>3 DEF Purge, ChatType
    <2> QED
      BY <1>1, <2>1, <2>2, <2>3
      DEF LedgerNext, ledgerVars, Tomorrow, BeginDelete, BeginSweep, Turn,
          BeginAppend, InsertRow, Expire, ChangePolicy
  <1>6. /\ appends' \subseteq [id : Turns, left : Nat, prev : Turns \cup {Nothing}]
        /\ ledger' \subseteq RowType /\ inOrder' \in BOOLEAN
    <2>1. /\ appends \subseteq [id : Turns, left : Nat, prev : Turns \cup {Nothing}]
          /\ ledger \subseteq RowType /\ inOrder \in BOOLEAN
      BY DEF LedgerTypeOK
    <2>2. ASSUME NEW a, Starts(a)
          PROVE  a \in [id : Turns, left : Nat, prev : Turns \cup {Nothing}]
      <3>1. a.id \in Turns /\ a.left \in Nat /\ a.prev \in Turns \cup {Nothing}
        BY <2>2, LatestNamed DEF Starts
      <3> QED
        BY <2>2, <3>1 DEF Starts
    <2>3. CASE \E a \in appends' : Starts(a)
      <3>1. PICK a \in appends' : Starts(a)
        BY <2>3
      <3>2. a \in [id : Turns, left : Nat, prev : Turns \cup {Nothing}]
        BY <2>2, <3>1
      <3>3. appends' = appends \cup {a} /\ UNCHANGED <<ledger, inOrder>>
        BY <3>1 DEF Starts
      <3> QED
        BY <2>1, <3>2, <3>3
    <2>4. CASE \E a \in appends, row \in RowType : Inserts(a, row)
      BY <2>1, <2>4 DEF Inserts
    <2>5. CASE Expire
      BY <2>1, <2>5, ExpireSteps
    <2> QED
      BY <2>1, <2>3, <2>4, <2>5, LedgerChanges
  <1> QED
    BY <1>3, <1>4, <1>5, <1>6, ProofsStay DEF LedgerTypeOK

-----------------------------------------------------------------------------
(* Rows                                                                     *)

LEMMA RowsTyped ==
    ASSUME LedgerTypeOK
    PROVE  /\ \A r \in ledger : /\ r.id \in Turns /\ r.at \in Nat /\ r.prev \in Turns \cup {Nothing}
           /\ \A a \in appends : a.id \in Turns /\ a.prev \in Turns \cup {Nothing}
           /\ \A t \in Turns : Proof(t).id = t /\ Proof(t).at \in Nat
  BY DEF LedgerTypeOK, RowType, Proof

LEMMA PlacedKept == ASSUME LedgerInv, [LedgerNext]_ledgerVars PROVE Placed'
  <1> USE DEF LedgerInv
  <1>1. \A t \in Turns : turns[t].phase = "proved" =>
            turns'[t].phase = "proved" /\ turns'[t].at = turns[t].at
    BY ProofsStay
  <1>2. ASSUME NEW r, r.id \in Turns, r.prev \in Turns \cup {Nothing},
               turns[r.id].phase = "proved",
               r.prev # Nothing => r.prev # r.id /\ turns[r.prev].phase = "proved"
        PROVE  /\ turns'[r.id].phase = "proved" /\ turns'[r.id].at = turns[r.id].at
               /\ r.prev # Nothing => r.prev # r.id /\ turns'[r.prev].phase = "proved"
    BY <1>1, <1>2
  <1>3. ASSUME ledger' \subseteq ledger, appends' \subseteq appends PROVE Placed'
    BY <1>2, <1>3, RowsTyped DEF Placed
  <1>4. ASSUME NEW a \in appends', Starts(a) PROVE Placed'
    <2>1. a.prev # Nothing => a.prev # a.id /\ turns[a.prev].phase = "proved"
      <3>1. ASSUME a.prev # Nothing
            PROVE  \E r \in ledger : a.prev = r.id
        <4>1. ledger # {}
          BY <1>4, <3>1 DEF Starts, LatestRow
        <4> QED
          BY <1>4, <4>1, LatestNamed DEF Starts
      <3> QED
        BY <1>4, <3>1 DEF Starts, RowOf, Placed
    <2>2. a.id \in Turns /\ a.prev \in Turns \cup {Nothing}
      BY <1>4, LatestNamed DEF Starts
    <2>3. /\ turns'[a.id].phase = "proved"
          /\ a.prev # Nothing => a.prev # a.id /\ turns'[a.prev].phase = "proved"
      BY <1>2, <1>4, <2>1, <2>2 DEF Starts
    <2>4. appends' = appends \cup {a} /\ ledger' = ledger
      BY <1>4 DEF Starts
    <2> QED
      BY <1>2, <2>3, <2>4, RowsTyped DEF Placed
  <1>5. ASSUME NEW a \in appends, NEW row \in RowType, Inserts(a, row) PROVE Placed'
    <2>1. /\ ledger' = ledger \cup {row} /\ appends' = appends \ {a} /\ turns' = turns
          /\ row.id = a.id /\ row.at = turns[a.id].at /\ row.prev = a.prev
          /\ \A r \in ledger : r.id # row.id
      BY <1>5 DEF Inserts, RowOf
    <2> QED
      BY <2>1 DEF Placed
  <1> QED
    BY <1>3, <1>4, <1>5, LedgerChanges, ExpireSteps

LEMMA HasLatestKept == ASSUME LedgerInv, [LedgerNext]_ledgerVars PROVE HasLatest'
  <1> USE DEF LedgerInv
  <1>1. ASSUME UNCHANGED ledger PROVE HasLatest'
    BY <1>1 DEF HasLatest, IsLatest
  <1>2. ASSUME NEW a \in appends, NEW row \in RowType, Inserts(a, row) PROVE HasLatest'
    <2>1. ledger' = ledger \cup {row} /\ \A r \in ledger : r.id # row.id
      BY <1>2 DEF Inserts, RowOf
    <2>2. row.id \in Turns /\ row.at \in Nat
      BY DEF RowType
    <2>3. CASE ledger = {}
      BY <2>1, <2>3 DEF HasLatest, IsLatest
    <2>4. CASE ledger # {}
      <3>1. PICK last \in ledger : IsLatest(last)
        BY <2>4 DEF HasLatest
      <3>2. last.id \in Turns /\ last.at \in Nat
        BY RowsTyped
      <3>3. CASE Before(row, last)
        BY <2>1, <3>1, <3>3 DEF HasLatest, IsLatest
      <3>4. CASE Before(last, row)
        <4>1. \A r \in ledger : Before(r, row)
          BY <2>2, <3>1, <3>2, <3>4, RowsTyped, OrderTransitive DEF IsLatest
        <4> QED
          BY <2>1, <4>1 DEF HasLatest, IsLatest
      <3> QED
        BY <2>1, <2>2, <3>2, <3>3, <3>4, OrderTotal
    <2> QED
      BY <2>3, <2>4
  <1>3. ASSUME Expire PROVE HasLatest'
    <2> SUFFICES ASSUME ledger' # {} PROVE \E r \in ledger' : IsLatest(r)'
      BY DEF HasLatest
    <2>1. PICK r \in ledger' : TRUE
      OBVIOUS
    <2>2. ledger' \subseteq ledger
      BY <1>3, ExpireSteps
    <2>3. PICK last \in ledger : IsLatest(last)
      BY <2>1, <2>2 DEF HasLatest
    <2>4. last \in ledger'
      BY <1>3, <2>1, <2>2, <2>3, ExpireKeepsLater DEF IsLatest
    <2> QED
      BY <2>2, <2>3, <2>4 DEF IsLatest
  <1> QED
    BY <1>1, <1>2, <1>3, LedgerChanges DEF Starts

LEMMA NextKnownKept == ASSUME LedgerInv, [LedgerNext]_ledgerVars PROVE NextKnown'
  <1> USE DEF LedgerInv
  <1>1. ASSUME UNCHANGED <<ledger, inOrder>>, appends' \subseteq appends PROVE NextKnown'
    BY <1>1 DEF NextKnown, IsLatest
  <1>2. ASSUME NEW a \in appends', Starts(a) PROVE NextKnown'
    <2>1. /\ appends' = appends \cup {a} /\ UNCHANGED <<ledger, inOrder>>
          /\ a.prev = LatestRow
      BY <1>2 DEF Starts
    <2> QED
      BY <2>1, LatestNamed DEF NextKnown, IsLatest
  <1>3. ASSUME NEW a \in appends, NEW row \in RowType, Inserts(a, row) PROVE NextKnown'
    BY <1>3 DEF Inserts, NextKnown
  <1>4. ASSUME Expire PROVE NextKnown'
    <2> SUFFICES ASSUME inOrder, NEW a \in appends, ledger' # {}
                 PROVE  \E r \in ledger' : a.prev = r.id /\ IsLatest(r)'
      BY <1>4, ExpireSteps DEF NextKnown
    <2>1. PICK r \in ledger' : TRUE
      OBVIOUS
    <2>2. ledger' \subseteq ledger
      BY <1>4, ExpireSteps
    <2>3. PICK last \in ledger : a.prev = last.id /\ IsLatest(last)
      BY <2>1, <2>2 DEF NextKnown
    <2>4. last \in ledger'
      BY <1>4, <2>1, <2>2, <2>3, ExpireKeepsLater DEF IsLatest
    <2> QED
      BY <2>2, <2>3, <2>4 DEF IsLatest
  <1> QED
    BY <1>1, <1>2, <1>3, <1>4, LedgerChanges

LEMMA NamesEarlierKept == ASSUME LedgerInv, [LedgerNext]_ledgerVars PROVE NamesEarlier'
  <1> USE DEF LedgerInv
  <1>1. ASSUME NEW t \in Turns, turns[t].phase = "proved" PROVE Proof(t)' = Proof(t)
    BY <1>1, ProofsStay DEF Proof
  <1>2. ASSUME ledger' \subseteq ledger, UNCHANGED inOrder PROVE NamesEarlier'
    <2> SUFFICES ASSUME inOrder, NEW r \in ledger', r.prev # Nothing
                 PROVE  Before(Proof(r.prev)', r)
      BY <1>2 DEF NamesEarlier
    <2>1. Before(Proof(r.prev), r)
      BY <1>2 DEF NamesEarlier
    <2>2. r.prev \in Turns /\ turns[r.prev].phase = "proved"
      BY <1>2, RowsTyped DEF Placed
    <2> QED
      BY <1>1, <2>1, <2>2
  <1>3. ASSUME NEW a \in appends, NEW row \in RowType, Inserts(a, row) PROVE NamesEarlier'
    <2>1. /\ ledger' = ledger \cup {row} /\ turns' = turns
          /\ inOrder' => inOrder /\ Follows(row)
      BY <1>3 DEF Inserts
    <2>2. \A t : Proof(t)' = Proof(t)
      BY <2>1 DEF Proof
    <2> QED
      BY <2>1, <2>2 DEF NamesEarlier, Follows
  <1> QED
    BY <1>2, <1>3, LedgerChanges, ExpireSteps DEF Starts

-----------------------------------------------------------------------------
(* The chain                                                                *)

Earlier(r) == {s \in ledger : Before(s, r)}
Linked(r) ==
    IF Earlier(r) = {} THEN r.prev = Nothing \/ RowOf(r.prev) = {}
    ELSE \E s \in Earlier(r) : r.prev = s.id /\ \A q \in Earlier(r) \ {s} : Before(q, s)
AllLinked == inOrder => \A r \in ledger : Linked(r)

LEMMA ChainIsLinks == ChainReadsBack <=> AllLinked
  BY DEF ChainReadsBack, AllLinked, Linked, Earlier

\* A row inserted in order links to the latest, and comes before none.
LEMMA InsertLinks ==
    ASSUME LedgerInv, NEW a \in appends, NEW row \in RowType, Inserts(a, row)
    PROVE  AllLinked'
  <1> USE DEF LedgerInv
  <1> SUFFICES ASSUME inOrder', NEW r \in ledger' PROVE Linked(r)'
    BY DEF AllLinked
  <1>1. /\ ledger' = ledger \cup {row} /\ inOrder /\ appends = {a} /\ Follows(row)
        /\ row.id = a.id /\ row.prev = a.prev /\ RowOf(a.id) = {}
    BY DEF Inserts
  <1>2. /\ row.id \in Turns /\ row.at \in Nat
        /\ \A s \in ledger : s.id \in Turns /\ s.at \in Nat /\ Before(s, row)
    BY <1>1, RowsTyped DEF RowType, Follows
  <1>3. \A s \in ledger : ~Before(row, s)
    BY <1>2, OrderTotal
  <1>4. ~Before(row, row)
    BY <1>2, OrderTotal
  <1>5. CASE r = row
    <2>1. Earlier(row)' = ledger
      BY <1>1, <1>2, <1>4 DEF Earlier
    <2>2. CASE ledger = {}
      <3>1. ledger' = {row}
        BY <1>1, <2>2
      <3>2. row.prev # Nothing => row.prev # row.id
        BY <1>1 DEF Placed
      <3>3. row.prev # Nothing => RowOf(row.prev)' = {}
        BY <3>1, <3>2 DEF RowOf
      <3> QED
        BY <1>5, <2>1, <2>2, <3>3 DEF Linked
    <2>3. CASE ledger # {}
      <3>1. PICK s \in ledger : a.prev = s.id /\ IsLatest(s)
        BY <1>1, <2>3 DEF NextKnown
      <3> QED
        BY <1>1, <1>5, <2>1, <2>3, <3>1 DEF Linked, IsLatest
    <2> QED
      BY <2>2, <2>3
  <1>6. CASE r \in ledger
    <2>1. Linked(r)
      BY <1>1, <1>6, ChainIsLinks DEF AllLinked
    <2>2. Earlier(r)' = Earlier(r)
      BY <1>1, <1>3, <1>6 DEF Earlier
    <2>3. (r.prev # Nothing /\ RowOf(r.prev) = {}) => RowOf(r.prev)' = {}
      <3> SUFFICES ASSUME r.prev # Nothing, RowOf(r.prev) = {} PROVE row.id # r.prev
        BY <1>1 DEF RowOf
      <3>1. Before(Proof(r.prev), r) /\ r.prev \in Turns
        BY <1>1, <1>6, RowsTyped DEF NamesEarlier
      <3>2. ASSUME row.id = r.prev PROVE FALSE
        <4>1. Proof(r.prev).id = row.id /\ Proof(r.prev).at = row.at
          BY <3>2 DEF Proof, Inserts
        <4>2. Before(row, r)
          BY <3>1, <4>1 DEF Before
        <4> QED
          BY <1>3, <1>6, <4>2
      <3> QED
        BY <3>2
    <2> QED
      BY <2>1, <2>2, <2>3 DEF Linked
  <1> QED
    BY <1>1, <1>5, <1>6

\* A sweep takes a row with all the rows before it.
LEMMA ExpireLinks ==
    ASSUME LedgerInv, Expire
    PROVE  AllLinked'
  <1> USE DEF LedgerInv
  <1>1. ledger' \subseteq ledger /\ UNCHANGED inOrder
    BY ExpireSteps
  <1> SUFFICES ASSUME inOrder, NEW r \in ledger' PROVE Linked(r)'
    BY <1>1 DEF AllLinked
  <1>2. Linked(r) /\ r \in ledger
    BY <1>1, ChainIsLinks DEF AllLinked
  <1>3. Earlier(r)' = Earlier(r) \cap ledger'
    BY <1>1 DEF Earlier
  <1>4. \A t : RowOf(t)' = RowOf(t) \cap ledger'
    BY <1>1 DEF RowOf
  <1>5. CASE Earlier(r) = {}
    BY <1>2, <1>3, <1>4, <1>5 DEF Linked
  <1>6. CASE Earlier(r) # {}
    <2>1. PICK s \in Earlier(r) : r.prev = s.id /\ \A q \in Earlier(r) \ {s} : Before(q, s)
      BY <1>2, <1>6 DEF Linked
    <2>2. CASE s \in ledger'
      BY <1>3, <2>1, <2>2 DEF Linked
    <2>3. CASE s \notin ledger'
      <3>1. s \in ledger /\ \A q \in Earlier(r) : q \in ledger
        BY DEF Earlier
      <3>2. Earlier(r)' = {}
        BY <1>3, <2>1, <2>3, <3>1, ExpireKeepsLater
      <3>3. RowOf(s.id)' = {}
        BY <1>4, <2>3, <3>1 DEF RowOf, Placed
      <3> QED
        BY <2>1, <3>2, <3>3 DEF Linked
    <2> QED
      BY <2>2, <2>3
  <1> QED
    BY <1>5, <1>6

LEMMA ChainKept == ASSUME LedgerInv, [LedgerNext]_ledgerVars PROVE ChainReadsBack'
  <1>1. ASSUME UNCHANGED <<ledger, inOrder>> PROVE ChainReadsBack'
    <2>1. ChainReadsBack
      BY DEF LedgerInv
    <2> QED
      BY <1>1, <2>1 DEF ChainReadsBack, RowOf
  <1>2. AllLinked' => ChainReadsBack'
    BY ChainIsLinks, PTL
  <1> QED
    BY <1>1, <1>2, LedgerChanges, InsertLinks, ExpireLinks DEF Starts, LedgerInv

-----------------------------------------------------------------------------
(* Deletion and its record                                                  *)

LEMMA RetentionTyped ==
    ASSUME LedgerTypeOK
    PROVE  /\ now \in Nat /\ least \in Nat /\ chat.deletedAt \in Nat /\ chat.purgeAfter \in Nat
           /\ chat.phase \in {"live", "retained", "gone"}
           /\ policy \in [recovery : 0 .. Longest, audit : 0 .. Longest]
           /\ AuditPeriod(policy) \in Nat /\ policy.recovery \in Nat /\ policy.audit \in Nat
           /\ AuditPeriod(policy) <= Longest
           /\ deleting \in Nat \cup {Nothing} /\ sweep \in Nat \cup {Nothing}
           /\ Nothing \notin Nat
  BY PeriodsTyped DEF LedgerTypeOK, ChatType

LEMMA RetentionKept == ASSUME LedgerInv, [LedgerNext]_ledgerVars PROVE Retention'
  <1> USE DEF LedgerInv
  <1>0. LedgerTypeOK /\ Retention
    OBVIOUS
  <1>1. ASSUME UNCHANGED <<policy, chat, deleting, least>>, now' \in {now, now + 1}
        PROVE  Retention'
    BY <1>0, <1>1, RetentionTyped DEF Retention, Allowed, Period, AuditPeriod
  <1>2. ASSUME NEW p \in Policies, ChangePolicy(p) PROVE Retention'
    <2>1. /\ p \in [recovery : 0 .. Longest, audit : 0 .. Longest]
          /\ AuditPeriod(p) \in Nat /\ p.recovery \in Nat
          /\ p.recovery = 0 \/ p.recovery <= AuditPeriod(p)
      BY <1>2, PeriodsTyped DEF ChangePolicy
    <2>2. /\ policy' = p /\ least' = Lesser(least, AuditPeriod(p))
          /\ UNCHANGED <<now, chat, deleting>>
      BY <1>2 DEF ChangePolicy
    <2>3. least' <= AuditPeriod(p) /\ least' \in Nat
      BY <2>1, <2>2, RetentionTyped DEF Lesser
    <2>4. ASSUME NEW days \in Nat PROVE days <= least' => days <= AuditPeriod(policy)'
      <3>1. AuditPeriod(policy)' = AuditPeriod(p)
        BY <2>2 DEF AuditPeriod
      <3> QED
        BY <2>1, <2>3, <3>1
    <2>5. chat.phase = "retained" => Period \in Nat /\ Period' = Period
      BY <1>0, <2>2, RetentionTyped DEF Retention, Period
    <2>6. policy'.recovery = 0 \/ policy'.recovery <= AuditPeriod(policy)'
      BY <2>1, <2>2 DEF AuditPeriod
    <2>7. deleting' # Nothing => deleting' = 0 \/ Allowed(deleting)'
      <3>1. deleting # Nothing => deleting \in Nat
        BY RetentionTyped
      <3> QED
        BY <2>2, <2>4, <3>1 DEF Allowed
    <2>8. chat.phase = "retained" => Allowed(Period)'
      BY <2>4, <2>5 DEF Allowed
    <2> QED
      BY <1>0, <2>2, <2>6, <2>7, <2>8 DEF Retention
  <1>3. ASSUME BeginDelete PROVE Retention'
    <2>1. /\ chat.phase = "live" /\ deleting' = policy.recovery /\ least' = Longest
          /\ UNCHANGED <<now, policy, chat>>
      BY <1>3 DEF BeginDelete
    <2>2. deleting' = 0 \/ Allowed(deleting)'
      BY <1>0, <2>1, RetentionTyped DEF Retention, Allowed, AuditPeriod
    <2> QED
      BY <1>0, <2>1, <2>2 DEF Retention, AuditPeriod
  <1>4. ASSUME Delete PROVE Retention'
    <2>1. CASE deleting = 0
      <3>1. chat'.phase = "gone" /\ deleting' = Nothing /\ UNCHANGED policy
        BY <1>0, <1>4, <2>1 DEF Delete, LedgerTypeOK, ChatType
      <3> QED
        BY <1>0, <3>1 DEF Retention, AuditPeriod
    <2>2. CASE deleting # 0
      <3>1. /\ chat' = [phase |-> "retained", deletedAt |-> now, purgeAfter |-> now + deleting]
            /\ deleting' = Nothing /\ UNCHANGED <<now, policy, least>> /\ deleting \in Nat
        BY <1>0, <1>4, <2>2, RetentionTyped DEF Delete
      <3>2. /\ Period' = deleting /\ chat'.deletedAt = now /\ chat'.purgeAfter = now + deleting
        BY <3>1, RetentionTyped DEF Period
      <3>3. Allowed(deleting)
        BY <1>0, <1>4, <2>2 DEF Delete, Retention
      <3>4. Allowed(Period)'
        BY <3>1, <3>2, <3>3 DEF Allowed, AuditPeriod
      <3> QED
        BY <1>0, <3>1, <3>2, <3>4, RetentionTyped DEF Retention, AuditPeriod
    <2> QED
      BY <2>1, <2>2
  <1>5. ASSUME Restore PROVE Retention'
    BY <1>0, <1>5 DEF Restore, Recoverable, Live, Retention, AuditPeriod
  <1>6. ASSUME Purge PROVE Retention'
    <2>1. chat'.phase = "gone" /\ UNCHANGED <<policy, deleting>> /\ deleting = Nothing
      BY <1>0, <1>6 DEF Purge, Retention, LedgerTypeOK, ChatType
    <2> QED
      BY <1>0, <2>1 DEF Retention, AuditPeriod
  <1> QED
    BY <1>1, <1>2, <1>3, <1>4, <1>5, <1>6
    DEF LedgerNext, ledgerVars, Tomorrow, BeginSweep, Turn, BeginAppend, InsertRow, Expire

LEMMA SweepAllowsKept == ASSUME LedgerInv, [LedgerNext]_ledgerVars PROVE SweepAllows'
  <1> USE DEF LedgerInv
  <1>0. LedgerTypeOK /\ Retention /\ SweepAllows
    OBVIOUS
  <1>1. ASSUME UNCHANGED <<chat, sweep, least, now>> PROVE SweepAllows'
    BY <1>0, <1>1 DEF SweepAllows, Period
  <1>2. ASSUME sweep' = Nothing PROVE SweepAllows'
    BY <1>2 DEF SweepAllows
  <1>3. ASSUME chat'.phase # "retained" PROVE SweepAllows'
    BY <1>3 DEF SweepAllows
  <1>4. ASSUME BeginSweep PROVE SweepAllows'
    <2>1. sweep' = policy.audit /\ UNCHANGED <<now, chat, least>>
      BY <1>4 DEF BeginSweep
    <2>2. ASSUME chat.phase = "retained", Period <= least, policy.audit # 0
          PROVE  Period <= policy.audit
      <3>1. AuditPeriod(policy) = policy.audit
        BY <2>2, PeriodsTyped, RetentionTyped
      <3> QED
        BY <1>0, <2>2, <3>1 DEF Retention, Allowed
    <2> QED
      BY <2>1, <2>2 DEF SweepAllows, Period
  <1>5. ASSUME NEW p \in Policies, ChangePolicy(p) PROVE SweepAllows'
    <2>1. /\ p \in [recovery : 0 .. Longest, audit : 0 .. Longest] /\ AuditPeriod(p) \in Nat
          /\ least' = Lesser(least, AuditPeriod(p)) /\ UNCHANGED <<now, chat, sweep>>
      BY <1>5, PeriodsTyped DEF ChangePolicy
    <2>2. least' <= least
      BY <2>1, RetentionTyped DEF Lesser
    <2>3. chat.phase = "retained" => Period \in Nat /\ Period' = Period
      BY <1>0, <2>1, RetentionTyped DEF Retention, Period
    <2>4. least' \in Nat
      BY <2>1, RetentionTyped DEF Lesser
    <2>5. (chat.phase = "retained" /\ Period' <= least') => Period <= least
      BY <2>2, <2>3, <2>4, RetentionTyped
    <2> QED
      BY <1>0, <2>1, <2>3, <2>5 DEF SweepAllows
  <1>6. ASSUME BeginDelete PROVE SweepAllows'
    BY <1>3, <1>6 DEF BeginDelete
  <1>7. ASSUME Delete PROVE SweepAllows'
    <2>1. now' = now /\ (chat'.phase = "retained" => chat'.deletedAt = now)
      BY <1>0, <1>7, RetentionTyped DEF Delete, LedgerTypeOK, ChatType
    <2> QED
      BY <2>1 DEF SweepAllows
  <1>8. ASSUME Restore PROVE SweepAllows'
    BY <1>3, <1>8 DEF Restore, Live
  <1>9. ASSUME Purge PROVE SweepAllows'
    <2>1. chat'.phase = "gone"
      BY <1>0, <1>9 DEF Purge, LedgerTypeOK, ChatType
    <2> QED
      BY <1>3, <2>1
  <1> QED
    BY <1>1, <1>2, <1>4, <1>5, <1>6, <1>7, <1>8, <1>9
    DEF LedgerNext, ledgerVars, Tomorrow, Turn, BeginAppend, InsertRow, Expire

LEMMA DeletionKept == ASSUME LedgerInv, [LedgerNext]_ledgerVars PROVE DeletionIsOnRecord'
  <1> USE DEF LedgerInv
  <1>0. LedgerTypeOK /\ Retention /\ SweepAllows /\ DeletionIsOnRecord
    OBVIOUS
  <1>1. ASSUME UNCHANGED <<chat, audit, least>>, now' \in {now, now + 1} PROVE DeletionIsOnRecord'
    <2>1. chat.purgeAfter > now' => chat.purgeAfter > now
      BY <1>1, RetentionTyped
    <2> QED
      BY <1>0, <1>1, <2>1 DEF DeletionIsOnRecord, Recoverable
  <1>2. ASSUME NEW p \in Policies, ChangePolicy(p) PROVE DeletionIsOnRecord'
    <2>1. /\ AuditPeriod(p) \in Nat
          /\ least' = Lesser(least, AuditPeriod(p)) /\ UNCHANGED <<now, chat, audit>>
      BY <1>2, PeriodsTyped DEF ChangePolicy
    <2>2. least' <= least /\ least' \in Nat
      BY <2>1, RetentionTyped DEF Lesser
    <2>3. Recoverable => Period \in Nat
      BY <1>0, RetentionTyped DEF Recoverable, Retention, Period
    <2>4. (Recoverable /\ Period <= least') => Period <= least
      BY <2>2, <2>3, RetentionTyped
    <2> QED
      BY <1>0, <2>1, <2>4 DEF DeletionIsOnRecord, Recoverable, Period
  <1>3. ASSUME chat'.phase # "retained" PROVE DeletionIsOnRecord'
    BY <1>3 DEF DeletionIsOnRecord, Recoverable
  <1>4. ASSUME Delete PROVE DeletionIsOnRecord'
    <2>1. chat'.phase = "retained" => chat'.deletedAt = now /\ now \in audit'
      BY <1>0, <1>4, RetentionTyped DEF Delete, LedgerTypeOK, ChatType
    <2> QED
      BY <2>1 DEF DeletionIsOnRecord, Recoverable
  \* What the audit loses is older than the period of the sweep, and a chat that
  \* could still be recovered then was to be kept for longer than that.
  <1>5. ASSUME Expire PROVE DeletionIsOnRecord'
    <2>1. /\ audit' = {day \in audit : Kept(day)} /\ UNCHANGED <<now, chat, least>>
          /\ sweep # Nothing
      BY <1>5 DEF Expire
    <2>2. SUFFICES ASSUME chat.phase = "retained", chat.purgeAfter > now, Period <= least
                   PROVE  chat.deletedAt \in audit'
      BY <2>1 DEF DeletionIsOnRecord, Recoverable, Period
    <2>3. chat.deletedAt \in audit
      BY <1>0, <2>2 DEF DeletionIsOnRecord, Recoverable, Period
    <2>4. chat.deletedAt = now \/ sweep = 0 \/ Period <= sweep
      BY <1>0, <2>1, <2>2 DEF SweepAllows
    <2>5. sweep = 0 \/ chat.deletedAt + sweep >= now
      BY <2>1, <2>2, <2>4, RetentionTyped DEF Period
    <2> QED
      BY <2>1, <2>3, <2>5 DEF Kept
  <1>6. ASSUME BeginDelete PROVE DeletionIsOnRecord'
    BY <1>3, <1>6 DEF BeginDelete
  <1>7. ASSUME Restore PROVE DeletionIsOnRecord'
    BY <1>3, <1>7 DEF Restore, Live
  <1>8. ASSUME Purge PROVE DeletionIsOnRecord'
    <2>1. chat'.phase = "gone"
      BY <1>0, <1>8 DEF Purge, LedgerTypeOK, ChatType
    <2> QED
      BY <1>3, <2>1
  <1> QED
    BY <1>1, <1>2, <1>4, <1>5, <1>6, <1>7, <1>8
    DEF LedgerNext, ledgerVars, Tomorrow, Turn, BeginAppend, InsertRow, BeginSweep

-----------------------------------------------------------------------------
(* The theorems                                                             *)

LEMMA LedgerInitInv == LedgerInit => LedgerInv
  <1> SUFFICES ASSUME LedgerInit PROVE LedgerInv
    OBVIOUS
  <1>1. LedgerTypeOK
    BY DEF LedgerInit, LedgerTypeOK, ChatType, Live
  <1>2. Placed /\ HasLatest /\ NextKnown /\ NamesEarlier /\ ChainReadsBack
    BY DEF LedgerInit, Placed, HasLatest, NextKnown, NamesEarlier, ChainReadsBack
  <1>3. Retention /\ SweepAllows /\ DeletionIsOnRecord
    BY DEF LedgerInit, Live, Retention, SweepAllows, DeletionIsOnRecord, Recoverable
  <1> QED
    BY <1>1, <1>2, <1>3 DEF LedgerInv

LEMMA LedgerStepKeeps == LedgerInv /\ [LedgerNext]_ledgerVars => LedgerInv'
  BY LedgerTypesKept, PlacedKept, HasLatestKept, NextKnownKept, NamesEarlierKept, ChainKept,
     RetentionKept, SweepAllowsKept, DeletionKept
  DEF LedgerInv

THEOREM LedgerInvariance == LedgerSpec => []LedgerInv
  BY LedgerInitInv, LedgerStepKeeps, PTL DEF LedgerSpec

\* The variables keep their types; in particular an append always finds a latest
\* row to name in a ledger that has rows.
THEOREM LedgerTypeCorrect == LedgerSpec => []LedgerTypeOK
  BY LedgerInvariance, PTL DEF LedgerInv

\* What is left of a chat's ledger reads back from its root while its rows came
\* in order, and the deletion of a chat that can be recovered is on record unless
\* an audit period below the chat's own recovery was asked for since.
THEOREM EvidenceHolds == LedgerSpec => []LedgerHolds
  <1>1. LedgerInv => LedgerHolds
    BY DEF LedgerInv, LedgerHolds
  <1> QED
    BY <1>1, LedgerInvariance, PTL

-----------------------------------------------------------------------------
(* Proofs about ProtectionTrend: for any requests, passes and proxy runs and
   any number of events and snapshots, the trend of a day never shows less
   than a snapshot it took in, and exactly the last one while no snapshot was
   overtaken (TrendCovers).

   The argument: an ingestion adds what its snapshot has over a checkpoint that
   is itself part of the day (TakenIn).  Within a run totals only grow, so a
   later snapshot has no less than an earlier one (Growing), and while the
   snapshots come in turn the checkpoint is the whole of the day (InTurn).    *)
HIDE LedgerAssumption
HIDE ComposerAssumption

Counted == {"requests", "kept", "blocked"}
TrendTotalsType == [Counted -> Nat]
TrendEventType == [request : Requests, redacted : Nat, surviving : Nat, blocked : BOOLEAN]
IngestType == [id : Nat, run : Runs, totals : TrendTotalsType,
               phase : {"fetched", "read"}, seen : TrendTotalsType \cup {Unseen}]

TrendTypeOK ==
    /\ run \in Runs /\ snapshots \in Nat /\ orderly \in BOOLEAN
    /\ events \in Seq(TrendEventType)
    /\ ingests \subseteq IngestType
    /\ checkpoint \in [Runs -> TrendTotalsType \cup {Unseen}]
    /\ daily \in [Runs -> TrendTotalsType]
    /\ arrived \in [Runs -> SUBSET TrendTotalsType]

AtMost(t, u) == \A b \in Counted : t[b] <= u[b]

TakenIn ==
    /\ \A r \in Runs : \A t \in arrived[r] : AtMost(t, daily[r])
    /\ \A r \in Runs : IF checkpoint[r] = Unseen THEN arrived[r] = {}
                       ELSE checkpoint[r] \in arrived[r]
    /\ \A s \in ingests : s.seen # Unseen => s.seen \in arrived[s.run]

Growing ==
    /\ \A s \in ingests : s.id <= snapshots /\ s.run <= run
    /\ \A s, q \in ingests : s.id = q.id => s = q
    /\ \A s, q \in ingests : s.run = q.run /\ s.id < q.id => AtMost(s.totals, q.totals)
    /\ \A s \in ingests : s.run = run => AtMost(s.totals, Totals)
    /\ \A r \in Runs : r > run => checkpoint[r] = Unseen

ReadsAlone ==
    \A s, q \in ingests : s.phase = "read" /\ q.run = s.run /\ q # s
                              => q.phase = "fetched" /\ s.id < q.id
SeenIsLast == \A s \in ingests : s.phase = "read" => s.seen = checkpoint[s.run]
LastIsLeast ==
    /\ \A s \in ingests : checkpoint[s.run] # Unseen => AtMost(checkpoint[s.run], s.totals)
    /\ checkpoint[run] # Unseen => AtMost(checkpoint[run], Totals)
DayIsLast == \A r \in Runs : daily[r] = IF checkpoint[r] = Unseen THEN Zero ELSE checkpoint[r]
InTurn == orderly => ReadsAlone /\ SeenIsLast /\ LastIsLeast /\ DayIsLast

LEMMA FiniteImage ==
    ASSUME NEW D, IsFiniteSet(D), NEW f, DOMAIN f = D
    PROVE  IsFiniteSet({f[i] : i \in D})
<1> DEFINE T == {f[i] : i \in D}
           g == [i \in D |-> f[i]]
<1>1. g \in Surjection(D, T)  BY DEF Surjection
<1> QED BY <1>1, FS_Surjection

(* What the three totals count.                                              *)
Affected(log) == {log[i].request : i \in DOMAIN log}
KeptValues(log) == UNION {{i} \X (1..KeptOut(log[i])) : i \in DOMAIN log}
Stopped(log) == {log[i].request : i \in {j \in DOMAIN log : log[j].blocked}}

LEMMA TotalsCount ==
    ASSUME NEW log, log \in Seq(TrendEventType)
    PROVE  IsFiniteSet(Affected(log)) /\ IsFiniteSet(KeptValues(log)) /\ IsFiniteSet(Stopped(log))
<1> DEFINE D == DOMAIN log
           who == [i \in D |-> log[i].request]
           kept == [i \in D |-> {i} \X (1..KeptOut(log[i]))]
<1>1. IsFiniteSet(D)  BY FS_Interval
<1>2. DOMAIN who = D /\ DOMAIN kept = D  OBVIOUS
<1>3. /\ Affected(log) = {who[i] : i \in D}
      /\ KeptValues(log) = UNION {kept[i] : i \in D}
      /\ Stopped(log) \in SUBSET Affected(log)
  BY DEF Affected, KeptValues, Stopped
<1>4. ASSUME NEW i \in D PROVE IsFiniteSet(kept[i])
  <2>1. log[i] \in TrendEventType  OBVIOUS
  <2>2. KeptOut(log[i]) \in Int  BY <2>1 DEF KeptOut, TrendEventType
  <2>3. IsFiniteSet(1..KeptOut(log[i]))  BY <2>2, FS_Interval
  <2>4. IsFiniteSet({i})  BY FS_Singleton
  <2>5. IsFiniteSet({i} \X (1..KeptOut(log[i])))  BY <2>3, <2>4, FS_Product
  <2> QED BY <2>5
<1> HIDE DEF D, who, kept
<1>5. IsFiniteSet({who[i] : i \in D}) /\ IsFiniteSet({kept[i] : i \in D})
  BY <1>1, <1>2, FiniteImage
<1>6. IsFiniteSet(UNION {kept[i] : i \in D})
  <2>1. \A S \in {kept[i] : i \in D} : IsFiniteSet(S)  BY <1>4
  <2> QED BY <1>5, <2>1, FS_UNION
<1> QED BY <1>3, <1>5, <1>6, FS_Subset

LEMMA TotalsTyped ==
    ASSUME TrendTypeOK
    PROVE  Totals \in TrendTotalsType
<1>1. events \in Seq(TrendEventType)  BY DEF TrendTypeOK
<1>2. /\ Cardinality(Affected(events)) \in Nat
      /\ Cardinality(KeptValues(events)) \in Nat
      /\ Cardinality(Stopped(events)) \in Nat
  BY <1>1, TotalsCount, FS_CardinalityType
<1>3. Totals = [requests |-> Cardinality(Affected(events)),
                kept |-> Cardinality(KeptValues(events)),
                blocked |-> Cardinality(Stopped(events))]
  BY DEF Totals, Affected, KeptValues, Stopped
<1> QED BY <1>2, <1>3 DEF TrendTotalsType, Counted

(* An event more takes nothing from a total.                                 *)
LEMMA TotalsGrow ==
    ASSUME TrendTypeOK, NEW e \in TrendEventType, events' = Append(events, e)
    PROVE  AtMost(Totals, Totals') /\ Totals' \in TrendTotalsType
<1>1. events' \in Seq(TrendEventType)  BY DEF TrendTypeOK
<1>2. /\ DOMAIN events \subseteq DOMAIN events'
      /\ \A i \in DOMAIN events : events'[i] = events[i]
  BY DEF TrendTypeOK
<1>3. /\ IsFiniteSet(Affected(events')) /\ IsFiniteSet(KeptValues(events'))
      /\ IsFiniteSet(Stopped(events'))
  BY <1>1, TotalsCount
<1>4. Affected(events) \in SUBSET Affected(events')  BY <1>2 DEF Affected
<1>5. KeptValues(events) \in SUBSET KeptValues(events')
  <2>1. ASSUME NEW x \in KeptValues(events) PROVE x \in KeptValues(events')
    <3>1. PICK i \in DOMAIN events : x \in {i} \X (1..KeptOut(events[i]))
      BY <2>1 DEF KeptValues
    <3>2. i \in DOMAIN events' /\ x \in {i} \X (1..KeptOut(events'[i]))  BY <3>1, <1>2
    <3> QED BY <3>2 DEF KeptValues
  <2> QED BY <2>1
<1>6. Stopped(events) \in SUBSET Stopped(events')  BY <1>2 DEF Stopped
<1>7. /\ Cardinality(Affected(events)) <= Cardinality(Affected(events'))
      /\ Cardinality(KeptValues(events)) <= Cardinality(KeptValues(events'))
      /\ Cardinality(Stopped(events)) <= Cardinality(Stopped(events'))
  BY <1>3, <1>4, <1>5, <1>6, FS_Subset
<1>8. Totals = [requests |-> Cardinality(Affected(events)),
                kept |-> Cardinality(KeptValues(events)),
                blocked |-> Cardinality(Stopped(events))]
  BY DEF Totals, Affected, KeptValues, Stopped
<1>9. Totals' = [requests |-> Cardinality(Affected(events')),
                 kept |-> Cardinality(KeptValues(events')),
                 blocked |-> Cardinality(Stopped(events'))]
  BY DEF Totals, Affected, KeptValues, Stopped, KeptOut
<1>10. Totals' \in TrendTotalsType
  BY <1>3, <1>9, FS_CardinalityType DEF TrendTotalsType, Counted
<1> QED BY <1>7, <1>8, <1>9, <1>10 DEF AtMost, Counted

LEMMA ZeroIsTotals == Zero \in TrendTotalsType /\ DOMAIN Zero = Counted
BY DEF Zero, TrendTotalsType, Counted

LEMMA DeltaTyped ==
    ASSUME NEW t \in TrendTotalsType, NEW seen \in TrendTotalsType \cup {Unseen}
    PROVE  /\ Delta(t, seen) \in TrendTotalsType
           /\ seen = Unseen => Delta(t, seen) = t
           /\ \A b \in Counted : seen # Unseen =>
                 Delta(t, seen)[b] = IF t[b] > seen[b] THEN t[b] - seen[b] ELSE 0
BY DEF Delta, TrendTotalsType

(* What an ingestion adds to the day.                                        *)
LEMMA DayGrows ==
    ASSUME TrendTypeOK, NEW s \in ingests, Ingest(s)
    PROVE  /\ daily' \in [Runs -> TrendTotalsType]
           /\ \A r \in Runs \ {s.run} : daily'[r] = daily[r]
           /\ \A b \in Counted : daily'[s.run][b] = daily[s.run][b] + Delta(s.totals, s.seen)[b]
<1> DEFINE new == Delta(s.totals, s.seen)
<1>1. s.run \in Runs /\ s.totals \in TrendTotalsType /\ s.seen \in TrendTotalsType \cup {Unseen}
  BY DEF TrendTypeOK, IngestType
<1>2. new \in TrendTotalsType  BY <1>1, DeltaTyped
<1>3. daily \in [Runs -> TrendTotalsType]  BY DEF TrendTypeOK
<1>4. daily' = [daily EXCEPT ![s.run] = [b \in DOMAIN new |-> @[b] + new[b]]]
  BY DEF Ingest
<1> HIDE DEF new
<1>5. [b \in DOMAIN new |-> daily[s.run][b] + new[b]] \in TrendTotalsType
  BY <1>1, <1>2, <1>3 DEF TrendTotalsType
<1>6. DOMAIN new = Counted  BY <1>2 DEF TrendTotalsType
<1> QED BY <1>1, <1>3, <1>4, <1>5, <1>6 DEF new

LEMMA InitTrendTyped == TrendInit => TrendTypeOK
<1>1. 1 \in Runs
  <2>1. Cardinality(Runs) \in Nat  BY TrendAssumption, FS_CardinalityType
  <2> QED BY <2>1, TrendAssumption
<1> QED BY <1>1, ZeroIsTotals DEF TrendInit, TrendTypeOK

LEMMA RunsAreNumbers ==
    Cardinality(Runs) \in Nat /\ Runs = 1..Cardinality(Runs) /\ Runs \subseteq Nat
<1>1. Cardinality(Runs) \in Nat  BY TrendAssumption, FS_CardinalityType
<1> QED BY <1>1, TrendAssumption

LEMMA StepTrendTyped ==
    ASSUME TrendTypeOK, [TrendNext]_trendVars
    PROVE  TrendTypeOK'
<1> USE DEF TrendTypeOK
<1>1. CASE Restart
  <2>1. run + 1 \in Runs  BY <1>1, RunsAreNumbers DEF Restart
  <2> QED BY <1>1, <2>1 DEF Restart
<1>2. CASE Snapshot
  <2>1. [id |-> snapshots + 1, run |-> run, totals |-> Totals, phase |-> "fetched", seen |-> Unseen]
           \in IngestType
    BY TotalsTyped DEF IngestType
  <2> QED BY <1>2, <2>1 DEF Snapshot
<1>3. ASSUME NEW q \in Requests, NEW o \in Outcomes, Record(q, o) PROVE TrendTypeOK'
  <2>1. [request |-> q, redacted |-> o.redacted, surviving |-> o.surviving, blocked |-> o.blocked]
           \in TrendEventType
    BY TrendAssumption DEF TrendEventType
  <2> QED BY <1>3, <2>1 DEF Record
<1>4. ASSUME NEW s \in ingests, ReadCheckpoint(s) PROVE TrendTypeOK'
  <2>1. [s EXCEPT !.phase = "read", !.seen = checkpoint[s.run]] \in IngestType
    BY DEF IngestType
  <2>2. orderly' \in BOOLEAN  BY <1>4 DEF ReadCheckpoint
  <2> QED BY <1>4, <2>1, <2>2 DEF ReadCheckpoint
<1>5. ASSUME NEW s \in ingests, Ingest(s) PROVE TrendTypeOK'
  <2>1. s.totals \in TrendTotalsType /\ s.run \in Runs  BY DEF IngestType
  <2>2. daily' \in [Runs -> TrendTotalsType]  BY <1>5, DayGrows
  <2>3. /\ checkpoint' \in [Runs -> TrendTotalsType \cup {Unseen}]
        /\ arrived' \in [Runs -> SUBSET TrendTotalsType]
    BY <1>5, <2>1 DEF Ingest
  <2> QED BY <1>5, <2>2, <2>3 DEF Ingest
<1>6. ASSUME NEW s \in ingests, Lose(s) PROVE TrendTypeOK'
  BY <1>6 DEF Lose
<1>7. CASE UNCHANGED trendVars  BY <1>7 DEF trendVars
<1> QED BY <1>1, <1>2, <1>3, <1>4, <1>5, <1>6, <1>7 DEF TrendNext

(* What the day has only grows, and by what a snapshot has over a checkpoint *)
(* the day already covers, so that it covers the snapshot too.               *)
LEMMA StepTakenIn ==
    ASSUME TrendTypeOK, TakenIn, [TrendNext]_trendVars
    PROVE  TakenIn'
<1>1. ASSUME NEW s \in ingests, Ingest(s) PROVE TakenIn'
  <2>1. /\ s.run \in Runs /\ s.totals \in TrendTotalsType /\ s.seen \in TrendTotalsType \cup {Unseen}
        /\ s.totals # Unseen
    BY TrendAssumption DEF TrendTypeOK, IngestType, TrendTotalsType, Counted
  <2>2. /\ arrived' = [arrived EXCEPT ![s.run] = @ \cup {s.totals}]
        /\ checkpoint' = [checkpoint EXCEPT ![s.run] = s.totals]
        /\ ingests' = ingests \ {s}
    BY <1>1 DEF Ingest
  <2>3. /\ arrived'[s.run] = arrived[s.run] \cup {s.totals}
        /\ checkpoint'[s.run] = s.totals
        /\ \A r \in Runs \ {s.run} : arrived'[r] = arrived[r] /\ checkpoint'[r] = checkpoint[r]
    BY <2>1, <2>2 DEF TrendTypeOK
  <2>4. /\ Delta(s.totals, s.seen) \in TrendTotalsType
        /\ \A b \in Counted : /\ Delta(s.totals, s.seen)[b] \in Nat
                              /\ daily[s.run][b] \in Nat /\ s.totals[b] \in Nat
    BY <2>1, DeltaTyped DEF TrendTypeOK, TrendTotalsType
  <2>5. ASSUME NEW b \in Counted PROVE daily'[s.run][b] >= s.totals[b]
    <3>1. daily'[s.run][b] = daily[s.run][b] + Delta(s.totals, s.seen)[b]  BY <1>1, DayGrows
    <3>2. CASE s.seen = Unseen  BY <2>1, <2>4, <3>1, <3>2, DeltaTyped
    <3>3. CASE s.seen # Unseen
      <4>1. s.seen[b] <= daily[s.run][b]  BY <2>1, <3>3 DEF TakenIn, AtMost
      <4>2. s.seen[b] \in Nat  BY <2>1, <3>3 DEF TrendTotalsType
      <4>3. Delta(s.totals, s.seen)[b] = IF s.totals[b] > s.seen[b] THEN s.totals[b] - s.seen[b] ELSE 0
        BY <2>1, <3>3, DeltaTyped
      <4> QED BY <2>4, <3>1, <4>1, <4>2, <4>3
    <3> QED BY <3>2, <3>3
  <2>6. ASSUME NEW r \in Runs, NEW t \in arrived'[r] PROVE AtMost(t, daily'[r])
    <3>1. CASE r # s.run
      <4>1. daily'[r] = daily[r]  BY <1>1, <3>1, DayGrows
      <4> QED BY <3>1, <4>1, <2>3 DEF TakenIn
    <3>2. CASE r = s.run /\ t = s.totals  BY <3>2, <2>5, <2>4, <1>1, DayGrows DEF AtMost, TrendTotalsType
    <3>3. CASE r = s.run /\ t \in arrived[r]
      <4>1. \A b \in Counted : t[b] <= daily[r][b] /\ t[b] \in Nat
        BY <3>3 DEF TakenIn, AtMost, TrendTypeOK, TrendTotalsType
      <4>2. \A b \in Counted : daily'[r][b] = daily[r][b] + Delta(s.totals, s.seen)[b]
        BY <1>1, <3>3, DayGrows
      <4> QED BY <2>4, <3>3, <4>1, <4>2 DEF AtMost
    <3> QED BY <2>3, <3>1, <3>2, <3>3
  <2>7. \A r \in Runs : IF checkpoint'[r] = Unseen THEN arrived'[r] = {}
                        ELSE checkpoint'[r] \in arrived'[r]
    BY <2>1, <2>3 DEF TakenIn
  <2>8. \A q \in ingests' : q.seen # Unseen => q.seen \in arrived'[q.run]
    BY <2>1, <2>2, <2>3 DEF TakenIn, TrendTypeOK, IngestType
  <2> QED BY <2>6, <2>7, <2>8 DEF TakenIn, AtMost
<1>2. ASSUME NEW s \in ingests, ReadCheckpoint(s) PROVE TakenIn'
  <2> DEFINE read == [s EXCEPT !.phase = "read", !.seen = checkpoint[s.run]]
  <2>1. s.run \in Runs /\ read.run = s.run /\ read.seen = checkpoint[s.run]
    BY DEF TrendTypeOK, IngestType
  <2>2. ingests' = (ingests \ {s}) \cup {read} /\ UNCHANGED <<checkpoint, daily, arrived>>
    BY <1>2 DEF ReadCheckpoint
  <2> HIDE DEF read
  <2> QED BY <2>1, <2>2 DEF TakenIn, AtMost
<1>3. CASE Snapshot
  <2> DEFINE s == [id |-> snapshots + 1, run |-> run, totals |-> Totals,
                   phase |-> "fetched", seen |-> Unseen]
  <2>1. s.seen = Unseen  OBVIOUS
  <2>2. ingests' = ingests \cup {s} /\ UNCHANGED <<checkpoint, daily, arrived>>
    BY <1>3 DEF Snapshot
  <2> HIDE DEF s
  <2> QED BY <2>1, <2>2 DEF TakenIn, AtMost
<1>4. ASSUME ingests' \subseteq ingests, UNCHANGED <<checkpoint, daily, arrived>> PROVE TakenIn'
  BY <1>4 DEF TakenIn, AtMost
<1>5. ASSUME NEW q \in Requests, NEW o \in Outcomes, Record(q, o) PROVE TakenIn'
  BY <1>4, <1>5 DEF Record
<1> QED BY <1>1, <1>2, <1>3, <1>4, <1>5 DEF TrendNext, Restart, Lose, trendVars

LEMMA AtMostOrders ==
    /\ \A t \in TrendTotalsType : AtMost(t, t)
    /\ \A t, u, w \in TrendTotalsType : AtMost(t, u) /\ AtMost(u, w) => AtMost(t, w)
BY DEF AtMost, TrendTotalsType

(* Whatever is in flight, what one run counts only grows, so that a later    *)
(* snapshot of it has no less than an earlier one.                           *)
LEMMA StepGrowing ==
    ASSUME TrendTypeOK, Growing, [TrendNext]_trendVars
    PROVE  Growing'
<1>1. /\ TrendTypeOK'
      /\ \A s \in ingests : /\ s.id \in Nat /\ s.run \in Runs /\ s.totals \in TrendTotalsType
      /\ Totals \in TrendTotalsType /\ snapshots \in Nat /\ run \in Runs /\ Runs \subseteq Nat
  BY StepTrendTyped, TotalsTyped, RunsAreNumbers DEF TrendTypeOK, IngestType
<1>2. ASSUME ingests' \subseteq ingests, UNCHANGED <<run, snapshots, events>>,
             \A r \in Runs : r > run => checkpoint'[r] = checkpoint[r]
      PROVE  Growing'
  BY <1>2 DEF Growing, AtMost, Totals
<1>3. ASSUME NEW s \in ingests, ReadCheckpoint(s) PROVE Growing'
  <2> DEFINE read == [s EXCEPT !.phase = "read", !.seen = checkpoint[s.run]]
  <2>1. read.id = s.id /\ read.run = s.run /\ read.totals = s.totals
    BY DEF TrendTypeOK, IngestType
  <2>2. ingests' = (ingests \ {s}) \cup {read} /\ UNCHANGED <<run, snapshots, events, checkpoint>>
    BY <1>3 DEF ReadCheckpoint
  <2> HIDE DEF read
  <2>3. Totals' = Totals  BY <2>2 DEF Totals
  <2>4. \A q \in ingests' : \E w \in ingests :
           q.id = w.id /\ q.run = w.run /\ q.totals = w.totals /\ (q = read <=> w = s)
    BY <2>1, <2>2 DEF Growing
  <2>5. \A q, w \in ingests' : q.id = w.id => q = w
    BY <2>1, <2>2 DEF Growing
  <2>6. \A q, w \in ingests' : q.run = w.run /\ q.id < w.id => AtMost(q.totals, w.totals)
    BY <2>4 DEF Growing
  <2>7. \A q \in ingests' : /\ q.id <= snapshots /\ q.run <= run
                            /\ q.run = run => AtMost(q.totals, Totals)
    BY <2>4 DEF Growing
  <2> QED BY <2>2, <2>3, <2>5, <2>6, <2>7 DEF Growing, AtMost
<1>4. ASSUME NEW s \in ingests, Ingest(s) PROVE Growing'
  <2>1. \A r \in Runs : r > run => checkpoint'[r] = checkpoint[r]
    BY <1>1, <1>4 DEF Ingest, Growing, TrendTypeOK
  <2> QED BY <1>2, <1>4, <2>1 DEF Ingest
<1>5. CASE Snapshot
  <2> DEFINE s == [id |-> snapshots + 1, run |-> run, totals |-> Totals,
                   phase |-> "fetched", seen |-> Unseen]
  <2>1. s.id = snapshots + 1 /\ s.run = run /\ s.totals = Totals  OBVIOUS
  <2>2. /\ ingests' = ingests \cup {s} /\ snapshots' = snapshots + 1
        /\ UNCHANGED <<run, events, checkpoint>>
    BY <1>5 DEF Snapshot
  <2> HIDE DEF s
  <2>3. Totals' = Totals  BY <2>2 DEF Totals
  <2>4. \A q \in ingests : q.id < s.id  BY <1>1, <2>1 DEF Growing
  <2>5. \A q \in ingests' : /\ q.id <= snapshots' /\ q.run <= run
                            /\ q.run = run => AtMost(q.totals, Totals)
    BY <1>1, <2>1, <2>2, AtMostOrders DEF Growing
  <2>6. \A q, w \in ingests' : q.id = w.id => q = w
    BY <1>1, <2>1, <2>2, <2>4 DEF Growing
  <2>7. \A q, w \in ingests' : q.run = w.run /\ q.id < w.id => AtMost(q.totals, w.totals)
    <3>1. s.id \in Nat  BY <1>1, <2>1
    <3> QED BY <1>1, <2>1, <2>2, <2>4, <3>1 DEF Growing
  <2> QED BY <2>2, <2>3, <2>5, <2>6, <2>7 DEF Growing, AtMost
<1>6. ASSUME NEW q \in Requests, NEW o \in Outcomes, Record(q, o) PROVE Growing'
  <2> DEFINE e == [request |-> q, redacted |-> o.redacted, surviving |-> o.surviving,
                   blocked |-> o.blocked]
  <2>1. e \in TrendEventType  BY TrendAssumption DEF TrendEventType
  <2>2. events' = Append(events, e) /\ UNCHANGED <<run, ingests, snapshots, checkpoint>>
    BY <1>6 DEF Record
  <2> HIDE DEF e
  <2>3. AtMost(Totals, Totals') /\ Totals' \in TrendTotalsType
    BY <2>1, <2>2, TotalsGrow
  <2>4. \A s \in ingests : s.run = run => AtMost(s.totals, Totals')
    BY <1>1, <2>3, AtMostOrders DEF Growing
  <2> QED BY <2>2, <2>4 DEF Growing, AtMost
<1>7. CASE Restart
  <2>1. run' = run + 1 /\ UNCHANGED <<ingests, snapshots, checkpoint>>  BY <1>7 DEF Restart
  <2>2. run \in Nat /\ \A s \in ingests : s.run \in Nat /\ s.run <= run
    BY <1>1 DEF Growing
  <2>3. \A s \in ingests : s.run # run' /\ s.run <= run'
    <3>1. run' = run + 1  BY <2>1
    <3> QED BY <2>2, <3>1
  <2>4. \A r \in Runs : r > run' => checkpoint[r] = Unseen  BY <1>1, <2>1 DEF Growing
  <2> QED BY <2>1, <2>3, <2>4 DEF Growing, AtMost
<1>8. CASE UNCHANGED trendVars
  <2>1. ingests' \subseteq ingests /\ UNCHANGED <<run, snapshots, events, checkpoint>>
    BY <1>8 DEF trendVars
  <2> QED BY <1>2, <2>1
<1>9. ASSUME NEW s \in ingests, Lose(s) PROVE Growing'
  <2>1. ingests' \subseteq ingests /\ UNCHANGED <<run, snapshots, events, checkpoint>>
    BY <1>9 DEF Lose
  <2> QED BY <1>2, <2>1
<1> QED BY <1>3, <1>4, <1>5, <1>6, <1>7, <1>8, <1>9 DEF TrendNext

(* While snapshots come in turn, one at a time reads and writes the          *)
(* checkpoint of a run, which has no more than what is still to come, and    *)
(* what an ingestion adds is exactly what is new.                            *)
LEMMA StepInTurn ==
    ASSUME TrendTypeOK, Growing, InTurn, [TrendNext]_trendVars
    PROVE  InTurn'
<1>1. /\ TrendTypeOK' /\ Growing'
      /\ \A s \in ingests : /\ s.id \in Nat /\ s.run \in Runs /\ s.totals \in TrendTotalsType
                            /\ s.totals # Unseen
      /\ Totals \in TrendTotalsType /\ run \in Runs /\ Runs \subseteq Nat
      /\ \A r \in Runs : checkpoint[r] \in TrendTotalsType \cup {Unseen}
  BY StepTrendTyped, StepGrowing, TotalsTyped, RunsAreNumbers, TrendAssumption
     DEF TrendTypeOK, IngestType, TrendTotalsType, Counted
<1> SUFFICES ASSUME orderly' PROVE ReadsAlone' /\ SeenIsLast' /\ LastIsLeast' /\ DayIsLast'
  BY DEF InTurn
<1>2. orderly  BY DEF TrendNext, Restart, Snapshot, Record, ReadCheckpoint, Ingest, Lose, trendVars
<1>3. ReadsAlone /\ SeenIsLast /\ LastIsLeast /\ DayIsLast  BY <1>2 DEF InTurn
<1>4. ASSUME ingests' \subseteq ingests, UNCHANGED <<run, events, checkpoint, daily>>
      PROVE  ReadsAlone' /\ SeenIsLast' /\ LastIsLeast' /\ DayIsLast'
  BY <1>3, <1>4 DEF ReadsAlone, SeenIsLast, LastIsLeast, DayIsLast, AtMost, Totals
<1>5. ASSUME NEW s \in ingests, ReadCheckpoint(s)
      PROVE  ReadsAlone' /\ SeenIsLast' /\ LastIsLeast' /\ DayIsLast'
  <2> DEFINE read == [s EXCEPT !.phase = "read", !.seen = checkpoint[s.run]]
  <2>1. /\ read.id = s.id /\ read.run = s.run /\ read.totals = s.totals
        /\ read.phase = "read" /\ read.seen = checkpoint[s.run]
    BY DEF TrendTypeOK, IngestType
  <2>2. /\ ingests' = (ingests \ {s}) \cup {read}
        /\ UNCHANGED <<run, events, checkpoint, daily>>
        /\ \A q \in ingests \ {s} : q.run = s.run => q.phase = "fetched" /\ q.id > s.id
    BY <1>5 DEF ReadCheckpoint
  <2> HIDE DEF read
  <2>3. ReadsAlone'
    <3> SUFFICES ASSUME NEW p \in ingests', NEW q \in ingests',
                        p.phase = "read", q.run = p.run, q # p
                 PROVE  q.phase = "fetched" /\ p.id < q.id
      BY DEF ReadsAlone
    <3>1. CASE p = read  BY <1>1, <2>1, <2>2, <3>1
    <3>2. CASE p # read /\ q = read
      <4>1. p \in ingests \ {s} /\ p.phase = "fetched"  BY <2>1, <2>2, <3>2
      <4> QED BY <4>1
    <3>3. CASE p # read /\ q # read  BY <1>3, <2>2, <3>3 DEF ReadsAlone
    <3> QED BY <3>1, <3>2, <3>3
  <2>4. SeenIsLast'  BY <1>3, <2>1, <2>2 DEF SeenIsLast
  <2>5. LastIsLeast'  BY <1>3, <2>1, <2>2 DEF LastIsLeast, AtMost, Totals
  <2>6. DayIsLast'  BY <1>3, <2>2 DEF DayIsLast
  <2> QED BY <2>3, <2>4, <2>5, <2>6
<1>6. ASSUME NEW s \in ingests, Ingest(s)
      PROVE  ReadsAlone' /\ SeenIsLast' /\ LastIsLeast' /\ DayIsLast'
  <2>1. /\ s.phase = "read" /\ ingests' = ingests \ {s}
        /\ checkpoint' = [checkpoint EXCEPT ![s.run] = s.totals]
        /\ UNCHANGED <<run, events>>
    BY <1>6 DEF Ingest
  <2>2. s.seen = checkpoint[s.run]  BY <1>3, <2>1 DEF SeenIsLast
  <2>3. /\ checkpoint'[s.run] = s.totals
        /\ \A r \in Runs \ {s.run} : checkpoint'[r] = checkpoint[r]
    BY <1>1, <2>1 DEF TrendTypeOK
  <2>4. \A q \in ingests' : q.run = s.run => q.phase = "fetched" /\ s.id < q.id
    BY <1>3, <2>1 DEF ReadsAlone
  <2>5. ReadsAlone'  BY <1>3, <2>1 DEF ReadsAlone
  <2>6. SeenIsLast'
    <3> SUFFICES ASSUME NEW q \in ingests', q.phase = "read" PROVE q.seen = checkpoint'[q.run]
      BY DEF SeenIsLast
    <3>1. q \in ingests /\ q.run # s.run  BY <2>1, <2>4
    <3> QED BY <1>1, <1>3, <2>3, <3>1 DEF SeenIsLast
  <2>7. LastIsLeast'
    <3>1. \A q \in ingests' : checkpoint'[q.run] # Unseen => AtMost(checkpoint'[q.run], q.totals)
      BY <1>1, <1>3, <2>1, <2>3, <2>4 DEF LastIsLeast, Growing
    <3>2. Totals' = Totals  BY <2>1 DEF Totals
    <3>3. checkpoint'[run] # Unseen => AtMost(checkpoint'[run], Totals)
      BY <1>1, <1>3, <2>3 DEF LastIsLeast, Growing
    <3> QED BY <2>1, <3>1, <3>2, <3>3 DEF LastIsLeast, AtMost
  <2>8. DayIsLast'
    <3>1. ASSUME NEW b \in Counted PROVE daily'[s.run][b] = s.totals[b]
      <4>1. daily'[s.run][b] = daily[s.run][b] + Delta(s.totals, s.seen)[b]  BY <1>6, DayGrows
      <4>2. s.totals[b] \in Nat  BY <1>1 DEF TrendTotalsType
      <4>3. CASE s.seen = Unseen
        <5>1. daily[s.run][b] = 0
          <6>1. daily[s.run] = Zero  BY <1>1, <1>3, <2>2, <4>3 DEF DayIsLast
          <6> QED BY <6>1 DEF Zero, Counted
        <5>2. Delta(s.totals, s.seen) = s.totals  BY <1>1, <4>3, DeltaTyped
        <5> QED BY <4>1, <4>2, <5>1, <5>2
      <4>4. CASE s.seen # Unseen
        <5>1. daily[s.run] = s.seen /\ s.seen \in TrendTotalsType
          BY <1>1, <1>3, <2>2, <4>4 DEF DayIsLast
        <5>2. s.seen[b] <= s.totals[b] /\ s.seen[b] \in Nat
          BY <1>3, <2>2, <4>4, <5>1 DEF LastIsLeast, AtMost, TrendTotalsType
        <5>3. Delta(s.totals, s.seen)[b] = IF s.totals[b] > s.seen[b] THEN s.totals[b] - s.seen[b] ELSE 0
          BY <1>1, <4>4, <5>1, DeltaTyped
        <5> QED BY <4>1, <4>2, <5>1, <5>2, <5>3
      <4> QED BY <4>3, <4>4
    <3>2. daily'[s.run] = s.totals
      <4>1. daily'[s.run] \in TrendTotalsType  BY <1>1 DEF TrendTypeOK
      <4> QED BY <1>1, <3>1, <4>1 DEF TrendTotalsType
    <3>3. \A r \in Runs \ {s.run} : daily'[r] = daily[r]  BY <1>6, DayGrows
    <3> QED BY <1>1, <1>3, <2>3, <3>2, <3>3 DEF DayIsLast, Zero
  <2> QED BY <2>5, <2>6, <2>7, <2>8
<1>7. CASE Snapshot
  <2> DEFINE s == [id |-> snapshots + 1, run |-> run, totals |-> Totals,
                   phase |-> "fetched", seen |-> Unseen]
  <2>1. s.id = snapshots + 1 /\ s.run = run /\ s.totals = Totals /\ s.phase = "fetched"  OBVIOUS
  <2>2. ingests' = ingests \cup {s} /\ UNCHANGED <<run, events, checkpoint, daily>>
    BY <1>7 DEF Snapshot
  <2> HIDE DEF s
  <2>3. \A q \in ingests : q.id < s.id
    BY <1>1, <2>1 DEF Growing, TrendTypeOK
  <2>4. ReadsAlone'  BY <1>3, <2>1, <2>2, <2>3 DEF ReadsAlone
  <2>5. SeenIsLast'  BY <1>3, <2>1, <2>2 DEF SeenIsLast
  <2>6. LastIsLeast'  BY <1>3, <2>1, <2>2 DEF LastIsLeast, AtMost, Totals
  <2>7. DayIsLast'  BY <1>3, <2>2 DEF DayIsLast
  <2> QED BY <2>4, <2>5, <2>6, <2>7
<1>8. ASSUME NEW q \in Requests, NEW o \in Outcomes, Record(q, o)
      PROVE  ReadsAlone' /\ SeenIsLast' /\ LastIsLeast' /\ DayIsLast'
  <2> DEFINE e == [request |-> q, redacted |-> o.redacted, surviving |-> o.surviving,
                   blocked |-> o.blocked]
  <2>1. e \in TrendEventType  BY TrendAssumption DEF TrendEventType
  <2>2. events' = Append(events, e) /\ UNCHANGED <<run, ingests, checkpoint, daily>>
    BY <1>8 DEF Record
  <2> HIDE DEF e
  <2>3. AtMost(Totals, Totals') /\ Totals' \in TrendTotalsType
    BY <2>1, <2>2, TotalsGrow
  <2>4. checkpoint[run] # Unseen => AtMost(checkpoint[run], Totals')
    BY <1>1, <1>3, <2>3, AtMostOrders DEF LastIsLeast
  <2>5. LastIsLeast'  BY <1>3, <2>2, <2>4 DEF LastIsLeast, AtMost
  <2> QED BY <1>3, <2>2, <2>5 DEF ReadsAlone, SeenIsLast, DayIsLast
<1>9. CASE Restart
  <2>1. run' = run + 1 /\ run' \in Runs /\ UNCHANGED <<ingests, checkpoint, daily>>
    BY <1>1, <1>9 DEF Restart, TrendTypeOK
  <2>2. checkpoint[run'] = Unseen  BY <1>1, <2>1 DEF Growing
  <2> QED BY <1>3, <2>1, <2>2 DEF ReadsAlone, SeenIsLast, LastIsLeast, DayIsLast, AtMost
<1>10. CASE UNCHANGED trendVars  BY <1>4, <1>10 DEF trendVars
<1>11. ASSUME NEW s \in ingests, Lose(s)
       PROVE  ReadsAlone' /\ SeenIsLast' /\ LastIsLeast' /\ DayIsLast'
  BY <1>4, <1>11 DEF Lose
<1> QED BY <1>5, <1>6, <1>7, <1>8, <1>9, <1>10, <1>11 DEF TrendNext

TrendInv == TrendTypeOK /\ TakenIn /\ Growing /\ InTurn

LEMMA InitTrend == TrendInit => TrendInv
<1> SUFFICES ASSUME TrendInit PROVE TrendInv  OBVIOUS
<1>1. TrendTypeOK  BY InitTrendTyped
<1>2. /\ ingests = {} /\ run \in Runs
      /\ \A r \in Runs : checkpoint[r] = Unseen /\ daily[r] = Zero /\ arrived[r] = {}
  BY <1>1 DEF TrendInit, TrendTypeOK
<1>3. TakenIn  BY <1>2 DEF TakenIn
<1>4. Growing  BY <1>2 DEF Growing
<1>5. InTurn  BY <1>2 DEF InTurn, ReadsAlone, SeenIsLast, LastIsLeast, DayIsLast
<1> QED BY <1>1, <1>3, <1>4, <1>5 DEF TrendInv

LEMMA StepTrend == TrendInv /\ [TrendNext]_trendVars => TrendInv'
BY StepTrendTyped, StepTakenIn, StepGrowing, StepInTurn DEF TrendInv

(* The trend's variables keep their types: no total is ever negative.        *)
THEOREM TrendTypeCorrect == TrendSpec => []TrendTypeOK
<1>1. TrendInv => TrendTypeOK  BY DEF TrendInv
<1> QED BY <1>1, InitTrend, StepTrend, PTL DEF TrendSpec

(* The trend of a day never shows less than a snapshot it took in, however   *)
(* snapshots overtake each other or overlap, and exactly the last one while  *)
(* none did (ingestProtectionStatsSnapshot, protectionStatsDelta).           *)
THEOREM TrendCoversSnapshots == TrendSpec => []TrendCovers
<1>1. TrendInv => TrendCovers
  <2> SUFFICES ASSUME TrendInv, NEW r \in Runs
               PROVE  /\ \A t \in arrived[r], b \in DOMAIN Zero : daily[r][b] >= t[b]
                      /\ orderly /\ arrived[r] # {} => daily[r] = checkpoint[r]
    BY DEF TrendCovers
  <2>1. \A t \in arrived[r], b \in Counted : daily[r][b] >= t[b]
    BY DEF TrendInv, TakenIn, AtMost, TrendTypeOK, TrendTotalsType
  <2>2. arrived[r] # {} => checkpoint[r] # Unseen  BY DEF TrendInv, TakenIn
  <2>3. orderly /\ arrived[r] # {} => daily[r] = checkpoint[r]
    BY <2>2 DEF TrendInv, InTurn, DayIsLast
  <2> QED BY <2>1, <2>3, ZeroIsTotals
<1> QED BY <1>1, InitTrend, StepTrend, PTL DEF TrendSpec
=============================================================================
