---------------------------- MODULE ProxyRequest ----------------------------
(***************************************************************************)
(* The request pipeline of the proxy: admission, the screening of query,   *)
(* body and headers, the one-time protection ticket of a reviewed send,    *)
(* the forwarding with its single connect retry, and the egress proof a    *)
(* request leaves behind.                                                  *)
(*                                                                         *)
(* Each await of the pipeline ends one action and starts the next; between *)
(* them other requests, previews, registry reloads and the clock go on.    *)
(* What a surface contains is chosen when it is screened, where screening  *)
(* applies: path-like tokens, authentication headers and the URL path are  *)
(* left alone by policy, by redaction and leak gate alike.  The parts of a *)
(* surface are screened as one.  Detected values are left out: the proof   *)
(* and the promises modelled here are about the values the proxy has been  *)
(* told of.  A leak is a told value that redaction left in place, whatever *)
(* the reason.                                                             *)
(*                                                                         *)
(* As in KeyedVault, a definition whose comment starts with "Fault", or    *)
(* that stands before the definition it varies, is used by no action.      *)
(***************************************************************************)
EXTENDS Integers, FiniteSets

CONSTANTS
    Req,            \* requests, each sent to the proxy at most once
    Value,          \* values that a user may select for protection
    Registrable,    \* those that a registry may hold
    Scope, Event,   \* trusted scope keys and egress event ids that callers use
    Text,           \* user messages
    MaxTickets,     \* bound on the tickets minted
    TicketsMax, ScopeTicketsMax,    \* caps on outstanding tickets
    TicketTTL, ProofTTL,            \* lifetimes
    MaxTime,        \* bound on the clock
    Settings,       \* the configurations the proxy may be started with
    None            \* an absent header, a proof that is not held

(* required: a ready registry is required of every request.  failClosed: a *)
(* surviving value blocks the request.  detecting: some detector is active.*)
Setting == [required : BOOLEAN, failClosed : BOOLEAN, detecting : BOOLEAN]

Time == 0..MaxTime
Key == Scope \X Event

(* Tickets are numbered as they are minted; the code's are random UUIDs,   *)
(* never repeated, kept in a Map in that order.  0 is no ticket.           *)
Grant == [scope : Scope, text : Text, selected : SUBSET Value, expires : 0..(MaxTime + TicketTTL)]
Ask == [scope : Scope \cup {None}, event : Event \cup {None},
        ticket : 0..MaxTickets, hasBody : BOOLEAN]
NoAsk == [scope |-> None, event |-> None, ticket |-> 0, hasBody |-> FALSE]
NoGrant == [scope |-> None, text |-> None, selected |-> {}, expires |-> 0]
Proof == [by : Req, at : Time, outcome : {"forwarded", "blocked", "upstream_error"},
          screening : {"completed", "detector_unavailable", "not_configured"},
          surviving : SUBSET Value, registry : SUBSET Value, restore : Req \cup {None}]

ASSUME ConstantsAssumption ==
    /\ MaxTickets \in Nat /\ MaxTime \in Nat
    /\ TicketsMax \in Nat \ {0} /\ ScopeTicketsMax \in Nat \ {0}
    /\ TicketTTL \in Nat \ {0} /\ ProofTTL \in Nat
    /\ Settings \subseteq Setting
    /\ Registrable \subseteq Value
    /\ None \notin Scope \cup Event \cup Text \cup Req \cup Proof

VARIABLES
    setting,        \* the configuration, fixed at startup
    registry,       \* active registered values
    sourceFailed,   \* some registry source reports an error
    now,            \* the clock
    minted,         \* how many tickets were minted
    tickets,        \* the outstanding ones, with what each grants
    st, ask,        \* per request, where it is and what its headers say
    protect,        \* per request, whether it is screened at all
    admitted,       \* per request, the registry when its evidence was opened
    prepared,       \* per request, the ticket it was admitted with
    selected,       \* per request, the values its ticket added to its scope
    pending,        \* per request, survivors of the query not yet recorded
    surviving,      \* per request, survivors its evidence has recorded
    proofs,         \* the egress proofs held, by scope and event
    query, rest,    \* observed: values in the clear on the query, elsewhere
    accepted,       \* observed: the text and time at which a ticket was consumed
    deliveries      \* observed: how often a request's bytes left the machine

told == <<setting, registry, sourceFailed>>
ticketing == <<minted, tickets>>
static == <<ask, protect, admitted, prepared>>
outgoing == <<query, rest>>
vars == <<setting, registry, sourceFailed, now, minted, tickets, st, ask, protect, admitted,
          prepared, selected, pending, surviving, proofs, query, rest, accepted, deliveries>>

Live == DOMAIN tickets

Status == {"new", "refused", "query", "body", "screening", "headers",
           "connecting", "retrying", "sent", "failed", "restoring", "answered"}

TypeOK ==
    /\ setting \in Settings
    /\ registry \subseteq Registrable
    /\ sourceFailed \in BOOLEAN
    /\ now \in Time
    /\ minted \in 0..MaxTickets
    /\ Live \subseteq 1..minted
    /\ tickets \in [Live -> Grant]
    /\ st \in [Req -> Status]
    /\ ask \in [Req -> Ask]
    /\ protect \in [Req -> BOOLEAN]
    /\ admitted \in [Req -> SUBSET Value]
    /\ prepared \in [Req -> Grant \cup {NoGrant}]
    /\ selected \in [Req -> SUBSET Value]
    /\ pending \in [Req -> SUBSET Value]
    /\ surviving \in [Req -> SUBSET Value]
    /\ proofs \in [Key -> Proof \cup {None}]
    /\ query \in [Req -> SUBSET Value]
    /\ rest \in [Req -> SUBSET Value]
    /\ accepted \in [Req -> [text : Text \cup {None}, at : Time]]
    /\ deliveries \in [Req -> Nat]

(* Only the gate of a required registry asks whether a source failed.      *)
SourceStatus == IF setting.required THEN BOOLEAN ELSE {FALSE}

NotAccepted == [text |-> None, at |-> 0]

Init ==
    /\ setting \in Settings
    /\ registry \in SUBSET Registrable
    /\ sourceFailed \in SourceStatus
    /\ now = 0
    /\ minted = 0
    /\ tickets = [t \in {} |-> None]
    /\ st = [r \in Req |-> "new"]
    /\ ask = [r \in Req |-> NoAsk]
    /\ protect = [r \in Req |-> FALSE]
    /\ admitted = [r \in Req |-> {}]
    /\ prepared = [r \in Req |-> NoGrant]
    /\ selected = [r \in Req |-> {}]
    /\ pending = [r \in Req |-> {}]
    /\ surviving = [r \in Req |-> {}]
    /\ proofs = [k \in Key |-> None]
    /\ query = [r \in Req |-> {}]
    /\ rest = [r \in Req |-> {}]
    /\ accepted = [r \in Req |-> NotAccepted]
    /\ deliveries = [r \in Req |-> 0]

-----------------------------------------------------------------------------
(* Registry and clock.                                                     *)

(* Fault: the reload takes the published file for the whole registry.      *)
ReloadReplaces ==
    /\ registry' \in SUBSET Registrable
    /\ sourceFailed' \in SourceStatus
    /\ UNCHANGED <<setting, now, ticketing, st, static, selected, pending, surviving, proofs,
                   outgoing, accepted, deliveries>>

(* A reload only ever adds values; one that throws changes nothing.        *)
Reload ==
    /\ \E file \in SUBSET Registrable : registry' = registry \cup file
    /\ sourceFailed' \in SourceStatus
    /\ UNCHANGED <<setting, now, ticketing, st, static, selected, pending, surviving, proofs,
                   outgoing, accepted, deliveries>>

Tick ==
    /\ now < MaxTime
    /\ now' = now + 1
    /\ UNCHANGED <<told, ticketing, st, static, selected, pending, surviving, proofs,
                   outgoing, accepted, deliveries>>

-----------------------------------------------------------------------------
(* Egress evidence.                                                        *)

HasEvidence(r) == ask[r].scope # None /\ ask[r].event # None
KeyOf(r) == <<ask[r].scope, ask[r].event>>

Stale(p) == p # None /\ p.at < now - ProofTTL

(* The end of a request's evidence.  Every path of the pipeline reaches it *)
(* at most once.                                                           *)
Finish(r, outcome, screening, left) ==
    proofs' = IF ~HasEvidence(r) THEN proofs ELSE
        [k \in Key |->
            IF k = KeyOf(r)
            THEN [by |-> r, at |-> now, outcome |-> outcome, screening |-> screening,
                  surviving |-> left, registry |-> admitted[r], restore |-> None]
            ELSE IF Stale(proofs[k]) THEN None ELSE proofs[k]]

Screening(r) == IF protect[r] THEN "completed" ELSE "not_configured"

-----------------------------------------------------------------------------
(* Protection tickets.                                                     *)

Expired(grant) == grant.expires <= now

Outstanding(S) == [t \in S |-> tickets[t]]

(* The n youngest tickets of S.                                            *)
Youngest(S, n) == {t \in S : Cardinality({u \in S : u > t}) < n}

InScope(S, s) == {t \in S : tickets[t].scope = s}

PruneTickets(S) == Youngest({t \in S : ~Expired(tickets[t])}, TicketsMax - 1)
PruneScopeOffByOne(S, s) == (S \ InScope(S, s)) \cup Youngest(InScope(S, s), ScopeTicketsMax)
PruneScope(S, s) == (S \ InScope(S, s)) \cup Youngest(InScope(S, s), ScopeTicketsMax - 1)

(* A preview needs a trusted scope.                                        *)
PreviewScopeAny == Scope \cup {None}
PreviewScope == Scope

(* The end of a preview whose redaction left nothing in the clear; a       *)
(* preview that fails mints nothing.                                       *)
Mint(s, x, V) ==
    /\ minted < MaxTickets
    /\ minted' = minted + 1
    /\ tickets' = [t \in PruneScope(PruneTickets(Live), s) \cup {minted + 1} |->
                     IF t \in Live THEN tickets[t]
                     ELSE [scope |-> s, text |-> x, selected |-> V, expires |-> now + TicketTTL]]
    /\ UNCHANGED <<told, now, st, static, selected, pending, surviving, proofs,
                   outgoing, accepted, deliveries>>

-----------------------------------------------------------------------------
(* Admission.                                                              *)

GateOpen == ~setting.required \/ (~sourceFailed /\ registry # {})

Protecting == setting.detecting \/ registry # {}

(* The ticket a request presents can be used by it, as far as its headers  *)
(* tell.                                                                   *)
Presentable(a) ==
    \/ a.ticket = 0
    \/ /\ a.ticket \in Live
       /\ ~Expired(tickets[a.ticket]) /\ tickets[a.ticket].scope = a.scope
       /\ a.hasBody

(* The handler answers the caller itself; what it held of the request is   *)
(* gone with it.                                                           *)
Dismiss(r) ==
    /\ st' = [st EXCEPT ![r] = "refused"]
    /\ ask' = [ask EXCEPT ![r] = NoAsk]
    /\ protect' = [protect EXCEPT ![r] = FALSE]
    /\ admitted' = [admitted EXCEPT ![r] = {}]
    /\ prepared' = [prepared EXCEPT ![r] = NoGrant]
    /\ selected' = [selected EXCEPT ![r] = {}]
    /\ pending' = [pending EXCEPT ![r] = {}]
    /\ surviving' = [surviving EXCEPT ![r] = {}]
    /\ query' = [query EXCEPT ![r] = {}]
    /\ rest' = [rest EXCEPT ![r] = {}]
    /\ accepted' = [accepted EXCEPT ![r] = NotAccepted]
    /\ UNCHANGED <<told, now, minted, deliveries>>

RefuseAtGate(r) ==
    /\ st[r] = "new"
    /\ ~GateOpen
    /\ Dismiss(r)
    /\ UNCHANGED <<tickets, proofs>>

RefuseTicket(r, a) ==
    /\ st[r] = "new"
    /\ GateOpen
    /\ ~Presentable(a)
    /\ tickets' = Outstanding({t \in Live : t # a.ticket \/ ~Expired(tickets[t])})
    /\ Dismiss(r)
    /\ UNCHANGED proofs

Begin(r, a) ==
    /\ st[r] = "new"
    /\ GateOpen
    /\ Presentable(a)
    /\ st' = [st EXCEPT ![r] = "query"]
    /\ ask' = [ask EXCEPT ![r] = a]
    /\ protect' = [protect EXCEPT ![r] = Protecting \/ a.ticket # 0]
    /\ admitted' = [admitted EXCEPT ![r] = registry]
    /\ prepared' = [prepared EXCEPT ![r] = IF a.ticket = 0 THEN NoGrant ELSE tickets[a.ticket]]
    /\ UNCHANGED <<told, now, ticketing, selected, pending, surviving, proofs,
                   outgoing, accepted, deliveries>>

-----------------------------------------------------------------------------
(* Screening.  Of the values present, those the proxy was told of are      *)
(* replaced but for `left`.                                                *)

Known(r) == registry \cup selected[r]

Block(r, left) ==
    /\ setting.failClosed /\ left # {}
    /\ Finish(r, "blocked", "completed", surviving[r] \cup pending[r] \cup left)
    /\ Dismiss(r)
    /\ UNCHANGED tickets

Passes(left) == ~setting.failClosed \/ left = {}

(* What may be left of the values present, and what then goes out.         *)
Left(r, present) == IF protect[r] THEN SUBSET (present \cap Known(r)) ELSE {{}}
Clear(r, present, left) == IF protect[r] THEN (present \ Known(r)) \cup left ELSE present

PassQuery(r, present, left) ==
    /\ Passes(left)
    /\ st' = [st EXCEPT ![r] = "body"]
    /\ pending' = [pending EXCEPT ![r] = left]
    /\ query' = [query EXCEPT ![r] = Clear(r, present, left)]
    /\ UNCHANGED <<told, now, ticketing, static, selected, surviving, proofs, rest,
                   accepted, deliveries>>

(* The upstream policy does not allow the target.                          *)
RefuseTarget(r, left) ==
    /\ Passes(left)
    /\ Finish(r, "blocked", Screening(r), left)
    /\ Dismiss(r)
    /\ UNCHANGED tickets

ScreenQuery(r) ==
    /\ st[r] = "query"
    /\ \E present \in SUBSET Value : \E left \in Left(r, present) :
         Block(r, left) \/ PassQuery(r, present, left) \/ RefuseTarget(r, left)

(* A detector outage blocks and says so; any other error, the broken       *)
(* invariant included, leaves the evidence unfinished.                     *)
ScreenFails(r) ==
    /\ protect[r]
    /\ st[r] \in {"query", "screening", "headers"}
    /\ \/ Finish(r, "blocked", "detector_unavailable", surviving[r])
       \/ UNCHANGED proofs
    /\ Dismiss(r)
    /\ UNCHANGED tickets

(* The query's redaction is recorded once the request has its log number.  *)
RecordQuery(r) ==
    /\ surviving' = [surviving EXCEPT ![r] = @ \cup pending[r]]
    /\ pending' = [pending EXCEPT ![r] = {}]

SkipBody(r) ==
    /\ st[r] = "body"
    /\ ~ask[r].hasBody
    /\ RecordQuery(r)
    /\ st' = [st EXCEPT ![r] = "headers"]
    /\ UNCHANGED <<told, now, ticketing, static, selected, proofs, outgoing, accepted, deliveries>>

(* Too large, undecodable, or the caller went away.                        *)
RefuseBody(r) ==
    /\ st[r] = "body"
    /\ ask[r].hasBody
    /\ Dismiss(r)
    /\ UNCHANGED <<tickets, proofs>>

(* The body has arrived, its last user message x (None: it has none that   *)
(* was ever reviewed): is the ticket still good?                           *)
StillGoodTrusted(r, x) == ~Expired(prepared[r]) /\ prepared[r].text = x
StillGoodForEver(r, x) == ask[r].ticket \in Live /\ prepared[r].text = x
StillGood(r, x) ==
    ask[r].ticket \in Live /\ ~Expired(prepared[r]) /\ prepared[r].text = x

ReadBody(r) ==
    /\ st[r] = "body"
    /\ ask[r].hasBody
    /\ ask[r].ticket = 0
    /\ \/ protect[r] /\ st' = [st EXCEPT ![r] = "screening"] /\ UNCHANGED rest
       \/ /\ ~protect[r]
          /\ st' = [st EXCEPT ![r] = "headers"]
          /\ \E present \in SUBSET Value : rest' = [rest EXCEPT ![r] = present]
    /\ UNCHANGED <<told, now, ticketing, static, selected, pending, surviving, proofs,
                   query, accepted, deliveries>>

Accept(r, x) ==
    /\ StillGood(r, x)
    /\ selected' = [selected EXCEPT ![r] = prepared[r].selected]
    /\ accepted' = [accepted EXCEPT ![r] = [text |-> x, at |-> now]]
    /\ st' = [st EXCEPT ![r] = "screening"]
    /\ UNCHANGED <<told, now, minted, static, pending, surviving, outgoing, deliveries>>

(* The ticket is gone before anything else happens, used or refused.       *)
SpendTicket(r) ==
    /\ st[r] = "body"
    /\ ask[r].ticket # 0
    /\ tickets' = Outstanding(Live \ {ask[r].ticket})
    /\ \E x \in Text \cup {None} : Accept(r, x) \/ (~StillGood(r, x) /\ Dismiss(r))
    /\ UNCHANGED proofs

PassBody(r, present, left) ==
    /\ Passes(left)
    /\ st' = [st EXCEPT ![r] = "headers"]
    /\ surviving' = [surviving EXCEPT ![r] = @ \cup pending[r] \cup left]
    /\ pending' = [pending EXCEPT ![r] = {}]
    /\ rest' = [rest EXCEPT ![r] = @ \cup Clear(r, present, left)]
    /\ UNCHANGED <<told, now, ticketing, static, selected, query, proofs, accepted, deliveries>>

ScreenBody(r) ==
    /\ st[r] = "screening"
    /\ \E present \in SUBSET Value : \E left \in Left(r, present) :
         Block(r, left) \/ PassBody(r, present, left)

(* What the evidence takes from the headers; the varied form records only  *)
(* when something was replaced, whatever survived.                         *)
HeaderRecordIfReplaced(replaced, left) == IF replaced # {} THEN left ELSE {}
HeaderRecord(replaced, left) == left

PassHeaders(r, present, left) ==
    LET clear == Clear(r, present, left)
    IN  /\ Passes(left)
        /\ st' = [st EXCEPT ![r] = "connecting"]
        /\ surviving' = [surviving EXCEPT ![r] = @ \cup HeaderRecord(present \ clear, left)]
        /\ rest' = [rest EXCEPT ![r] = @ \cup clear]
        /\ UNCHANGED <<told, now, ticketing, static, selected, pending, query, proofs,
                       accepted, deliveries>>

ScreenHeaders(r) ==
    /\ st[r] = "headers"
    /\ \E present \in SUBSET Value : \E left \in Left(r, present) :
         Block(r, left) \/ PassHeaders(r, present, left)

-----------------------------------------------------------------------------
(* Forwarding and the way back.                                            *)

Send(r) ==
    /\ st[r] \in {"connecting", "retrying"}
    /\ st' = [st EXCEPT ![r] = "sent"]
    /\ deliveries' = [deliveries EXCEPT ![r] = @ + 1]
    /\ UNCHANGED <<told, now, ticketing, static, selected, pending, surviving, proofs,
                   outgoing, accepted>>

(* A connection that was never established is tried once more.             *)
ConnectFails(r) ==
    /\ \/ /\ st[r] = "connecting"
          /\ st' = [st EXCEPT ![r] = "retrying"]
          /\ UNCHANGED proofs
       \/ /\ st[r] = "retrying"
          /\ st' = [st EXCEPT ![r] = "failed"]
          /\ Finish(r, "upstream_error", Screening(r), surviving[r])
    /\ UNCHANGED <<told, now, ticketing, static, selected, pending, surviving,
                   outgoing, accepted, deliveries>>

(* Fault: any failure of the first attempt is retried.                     *)
UpstreamFailsRetried(r) ==
    /\ st[r] = "sent"
    /\ st' = [st EXCEPT ![r] = IF deliveries[r] = 1 THEN "retrying" ELSE "failed"]
    /\ UNCHANGED <<told, now, ticketing, static, selected, pending, surviving, proofs,
                   outgoing, accepted, deliveries>>

UpstreamFails(r) ==
    /\ st[r] = "sent"
    /\ st' = [st EXCEPT ![r] = "failed"]
    /\ Finish(r, "upstream_error", Screening(r), surviving[r])
    /\ UNCHANGED <<told, now, ticketing, static, selected, pending, surviving,
                   outgoing, accepted, deliveries>>

(* A response of status 2xx and a restorable type goes through restore.    *)
UpstreamAnswers(r) ==
    /\ st[r] = "sent"
    /\ \/ st' = [st EXCEPT ![r] = "restoring"]
       \/ st' = [st EXCEPT ![r] = "answered"]
    /\ Finish(r, "forwarded", Screening(r), surviving[r])
    /\ UNCHANGED <<told, now, ticketing, static, selected, pending, surviving,
                   outgoing, accepted, deliveries>>

(* The restore counts go into whatever proof the key holds by now; a       *)
(* response the caller abandons never gets there.                          *)
Restored(r) ==
    /\ st[r] = "restoring"
    /\ st' = [st EXCEPT ![r] = "answered"]
    /\ \/ /\ HasEvidence(r) /\ proofs[KeyOf(r)] # None
          /\ proofs' = [proofs EXCEPT ![KeyOf(r)].restore = r]
       \/ UNCHANGED proofs
    /\ UNCHANGED <<told, now, ticketing, static, selected, pending, surviving,
                   outgoing, accepted, deliveries>>

-----------------------------------------------------------------------------
(* A caller can only present a ticket that was handed out.                 *)
Arrive(r) == \E a \in Ask : a.ticket <= minted /\ (RefuseTicket(r, a) \/ Begin(r, a))

Screen(r) == ScreenQuery(r) \/ ScreenBody(r) \/ ScreenHeaders(r) \/ ScreenFails(r)

Body(r) == SkipBody(r) \/ RefuseBody(r) \/ ReadBody(r) \/ SpendTicket(r)

Upstream(r) == Send(r) \/ ConnectFails(r) \/ UpstreamFails(r) \/ UpstreamAnswers(r)

Next ==
    \/ Reload
    \/ Tick
    \/ \E s \in PreviewScope, x \in Text, V \in SUBSET Value : Mint(s, x, V)
    \/ \E r \in Req : \/ RefuseAtGate(r) \/ Arrive(r)
                      \/ Screen(r) \/ Body(r)
                      \/ Upstream(r) \/ Restored(r)

Spec == Init /\ [][Next]_vars

-----------------------------------------------------------------------------
(* Properties                                                              *)

Sent(r) == deliveries[r] > 0

(* A ticket authorizes at most one request to go out, however many present *)
(* it and wherever they are when one of them consumes it: "a replayed      *)
(* ticket produces 409 and is never forwarded".                            *)
TicketSentOnce ==
    \A q, r \in Req : ask[q].ticket # 0 /\ ask[q].ticket = ask[r].ticket /\ Sent(q) /\ Sent(r)
        => q = r

(* What goes out under a ticket is what was reviewed: the same scope and   *)
(* text, within the ticket's life, and with the selected values replaced   *)
(* in body and headers.                                                    *)
SentAsReviewed ==
    \A r \in Req : Sent(r) /\ ask[r].ticket # 0 =>
        LET g == prepared[r]
        IN  /\ ask[r].scope = g.scope
            /\ accepted[r].text = g.text
            /\ accepted[r].at < g.expires
            /\ setting.failClosed => rest[r] \cap g.selected = {}

(* Outstanding tickets stay within both caps, although tickets of other    *)
(* scopes and expired ones are pruned by different rules.                  *)
TicketBounds ==
    /\ Cardinality(Live) <= TicketsMax
    /\ \A s \in Scope : Cardinality(InScope(Live, s)) <= ScopeTicketsMax

(* When leaks block, no value that was registered when a request was       *)
(* admitted leaves in the clear on any of its surfaces, whatever reloads   *)
(* happen between the screening of one and the next.                       *)
KnownNeverLeaves ==
    setting.failClosed => \A r \in Req : Sent(r) => (query[r] \cup rest[r]) \cap admitted[r] = {}

(* A proof tells the truth of the request it was made by: one that did not *)
(* block belongs to a request whose clear values, of the registry it       *)
(* names, are all counted; one that blocked, to a request that never left. *)
ProofTrue ==
    \A k \in Key : proofs[k] # None =>
        LET p == proofs[k]
        IN  /\ p.outcome = "blocked" => ~Sent(p.by)
            /\ p.outcome = "forwarded" => Sent(p.by) /\ p.screening # "detector_unavailable"
            /\ p.outcome # "blocked" =>
                 (query[p.by] \cup rest[p.by]) \cap p.registry \subseteq p.surviving

(* The bytes of a request leave at most once, in spite of the retry.       *)
SentAtMostOnce == \A r \in Req : deliveries[r] <= 1

(* What leaves under a ticket is what was reviewed, and nothing leaves twice:*)
(* not by a replayed ticket and not by the retry.                          *)
SentOnceAsReviewed == TicketSentOnce /\ SentAsReviewed /\ SentAtMostOnce

(* The comment on EgressEvidence: "A values-free, one-request proof".       *)
(* Refuted: attempts of one event share their proof, and an answer of the  *)
(* first that ends late writes its restore counts into the proof of the    *)
(* second (README, refuted claims).                                        *)
OneRequestProof ==
    \A k \in Key : proofs[k] # None => proofs[k].restore \in {None, proofs[k].by}
=============================================================================
