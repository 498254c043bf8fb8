------------------------ MODULE ProxyRequest_proofs ------------------------
(***************************************************************************)
(* Theorems about ProxyRequest for any number of requests, values, scopes, *)
(* texts and tickets, any caps and lifetimes, proved with TLAPS.           *)
(***************************************************************************)
EXTENDS ProxyRequest, FiniteSetTheorems, WellFoundedInduction, TLAPS

(* The bundles of variables that UNCHANGED is applied to.                  *)
USE DEF told, ticketing, static, outgoing

-----------------------------------------------------------------------------
(* The inductive invariant.                                                *)

Early == {"new", "refused", "query", "body"}
Delivered == {"sent", "restoring", "answered"}

(* A request that has not begun, or was refused, holds nothing.            *)
Idle(r) ==
    st[r] \in {"new", "refused"} =>
        /\ ask[r] = NoAsk /\ ~protect[r]
        /\ admitted[r] = {} /\ pending[r] = {}
        /\ query[r] = {} /\ rest[r] = {}

(* What a request with a ticket was admitted with belongs to its ticket.   *)
Granted(r) ==
    ask[r].ticket # 0 =>
        /\ ask[r].ticket \in 1..minted
        /\ prepared[r] \in Grant
        /\ prepared[r].scope = ask[r].scope
        /\ ask[r].hasBody /\ protect[r]

(* Past the body a ticket is spent, on the text and in the time it grants. *)
Spent(r) ==
    ask[r].ticket # 0 /\ st[r] \notin Early =>
        /\ ask[r].ticket \notin Live
        /\ accepted[r].text = prepared[r].text
        /\ accepted[r].at < prepared[r].expires
        /\ selected[r] = prepared[r].selected
        /\ setting.failClosed => rest[r] \cap selected[r] = {}

(* Of the registry at admission, what is in the clear has been counted.    *)
Counted(r) ==
    /\ admitted[r] \subseteq registry
    /\ ~protect[r] => admitted[r] = {} /\ pending[r] = {}
    /\ st[r] \in {"query", "body", "screening"} => rest[r] = {}
    /\ st[r] \notin {"body", "screening"} => pending[r] = {}
    /\ (query[r] \cup rest[r]) \cap admitted[r] \subseteq surviving[r] \cup pending[r]
    /\ setting.failClosed => surviving[r] = {} /\ pending[r] = {}

Delivery(r) ==
    /\ st[r] \in Delivered => deliveries[r] = 1
    /\ st[r] \notin Delivered \cup {"failed"} => deliveries[r] = 0
    /\ deliveries[r] <= 1

(* One ticket takes one request past the body.                             *)
OneSpender ==
    \A q, r \in Req :
        /\ ask[q].ticket # 0 /\ ask[q].ticket = ask[r].ticket
        /\ st[q] \notin Early /\ st[r] \notin Early
        => q = r

(* A proof is about a request that has come to its end.                    *)
SoundProof(k) ==
    proofs[k] # None =>
        LET p == proofs[k]
        IN  /\ p.outcome = "blocked" => st[p.by] = "refused"
            /\ p.outcome = "forwarded" =>
                 st[p.by] \in {"restoring", "answered"} /\ p.screening # "detector_unavailable"
            /\ p.outcome # "blocked" =>
                 /\ st[p.by] \in {"failed", "restoring", "answered"}
                 /\ (query[p.by] \cup rest[p.by]) \cap p.registry \subseteq p.surviving

Ticketed == (\A r \in Req : Granted(r) /\ Spent(r)) /\ OneSpender
Screened == \A r \in Req : Idle(r) /\ Counted(r)
Delivering == \A r \in Req : Delivery(r)
Proved == \A k \in Key : SoundProof(k)

IInv == TypeOK /\ Ticketed /\ Screened /\ Delivering /\ Proved
-----------------------------------------------------------------------------
(* Types.                                                                  *)

LEMMA LiveIsLive == ASSUME NEW S PROVE DOMAIN Outstanding(S) = S
BY DEF Outstanding

LEMMA OutstandingType ==
    ASSUME TypeOK, NEW S \in SUBSET Live
    PROVE  Outstanding(S) \in [S -> Grant]
BY DEF Outstanding, TypeOK, Live

LEMMA FinishType ==
    ASSUME TypeOK, NEW r \in Req,
           NEW outcome \in {"forwarded", "blocked", "upstream_error"},
           NEW screening \in {"completed", "detector_unavailable", "not_configured"},
           NEW left \in SUBSET Value, Finish(r, outcome, screening, left)
    PROVE  proofs' \in [Key -> Proof \cup {None}]
<1> DEFINE p == [by |-> r, at |-> now, outcome |-> outcome, screening |-> screening,
                 surviving |-> left, registry |-> admitted[r], restore |-> None]
<1>1. p \in Proof  BY DEF TypeOK, Proof
<1> HIDE DEF p
<1>2. proofs' = IF ~HasEvidence(r) THEN proofs ELSE
                  [k \in Key |-> IF k = KeyOf(r) THEN p
                                 ELSE IF Stale(proofs[k]) THEN None ELSE proofs[k]]
  BY DEF Finish, p
<1> QED BY <1>1, <1>2 DEF TypeOK

LEMMA DismissType ==
    ASSUME TypeOK, NEW r \in Req, Dismiss(r),
           tickets' \in [DOMAIN tickets' -> Grant], DOMAIN tickets' \subseteq Live,
           proofs' \in [Key -> Proof \cup {None}]
    PROVE  TypeOK'
<1>1. NoAsk \in Ask /\ NotAccepted \in [text : Text \cup {None}, at : Time]
  BY ConstantsAssumption DEF NoAsk, NotAccepted, Ask, Time
<1> QED BY <1>1 DEF TypeOK, Dismiss, Live, Status

LEMMA LeftType ==
    ASSUME NEW r \in Req, NEW present \in SUBSET Value, NEW left \in Left(r, present)
    PROVE  left \in SUBSET Value /\ Clear(r, present, left) \in SUBSET Value
BY DEF Left, Clear

LEMMA BlockType ==
    ASSUME TypeOK, NEW r \in Req, NEW left \in SUBSET Value, Block(r, left)
    PROVE  TypeOK'
<1>1. surviving[r] \cup pending[r] \cup left \in SUBSET Value  BY DEF TypeOK
<1>2. proofs' \in [Key -> Proof \cup {None}]  BY <1>1, FinishType DEF Block
<1> QED BY <1>2, DismissType DEF Block, TypeOK, Live

LEMMA TypeInit == Init => TypeOK
<1> SUFFICES ASSUME Init PROVE TypeOK  OBVIOUS
<1>1. Live = {} /\ tickets \in [Live -> Grant] /\ Live \subseteq 1..minted
  BY DEF Init, Live
<1>2. NoAsk \in Ask /\ NotAccepted \in [text : Text \cup {None}, at : Time]
      /\ now \in Time /\ minted \in 0..MaxTickets
  BY ConstantsAssumption DEF Init, NoAsk, NotAccepted, Ask, Time
<1>3. registry \subseteq Registrable /\ sourceFailed \in BOOLEAN
  BY DEF Init, SourceStatus
<1> QED BY <1>1, <1>2, <1>3 DEF Init, TypeOK, Status

LEMMA TypeClock == ASSUME TypeOK, Reload \/ Tick PROVE TypeOK'
<1>1. registry' \subseteq Registrable /\ sourceFailed' \in BOOLEAN
  BY DEF Reload, Tick, TypeOK, SourceStatus
<1>2. now' \in Time
  BY ConstantsAssumption DEF Reload, Tick, TypeOK, Time
<1> QED BY <1>1, <1>2 DEF Reload, Tick, TypeOK, Live

LEMMA TypeMint ==
    ASSUME TypeOK, NEW s \in PreviewScope, NEW x \in Text, NEW V \in SUBSET Value, Mint(s, x, V)
    PROVE  TypeOK' /\ Live' \subseteq Live \cup {minted + 1} /\ minted' = minted + 1
<1> DEFINE kept == PruneScope(PruneTickets(Live), s)
           grant == [scope |-> s, text |-> x, selected |-> V, expires |-> now + TicketTTL]
<1>1. kept \subseteq Live
  BY DEF PruneScope, PruneTickets, Youngest, InScope
<1>2. grant \in Grant
  BY ConstantsAssumption DEF Grant, TypeOK, Time, PreviewScope
<1>3. tickets' = [t \in kept \cup {minted + 1} |-> IF t \in Live THEN tickets[t] ELSE grant]
  BY DEF Mint
<1> HIDE DEF kept, grant
<1>4. Live' = kept \cup {minted + 1}  BY <1>3 DEF Live
<1>5. tickets' \in [Live' -> Grant]  BY <1>1, <1>2, <1>3, <1>4 DEF TypeOK
<1>6. minted' \in 0..MaxTickets /\ minted' = minted + 1 /\ Live' \subseteq 1..minted'
  BY <1>1, <1>4, ConstantsAssumption DEF Mint, TypeOK
<1> QED BY <1>1, <1>4, <1>5, <1>6 DEF Mint, TypeOK

LEMMA TypeAdmission ==
    ASSUME TypeOK, NEW r \in Req, RefuseAtGate(r) \/ Arrive(r)
    PROVE  TypeOK'
<1>1. CASE RefuseAtGate(r)
  BY <1>1, DismissType DEF RefuseAtGate, TypeOK, Live
<1>2. ASSUME NEW a \in Ask, RefuseTicket(r, a) PROVE TypeOK'
  <2> DEFINE S == {t \in Live : t # a.ticket \/ ~Expired(tickets[t])}
  <2>1. tickets' \in [S -> Grant] /\ DOMAIN tickets' = S /\ S \subseteq Live
    BY <1>2, OutstandingType, LiveIsLive DEF RefuseTicket
  <2> QED BY <1>2, <2>1, DismissType DEF RefuseTicket, TypeOK
<1>3. ASSUME NEW a \in Ask, Begin(r, a) PROVE TypeOK'
  <2>1. registry \in SUBSET Value  BY ConstantsAssumption DEF TypeOK
  <2>2. (IF a.ticket = 0 THEN NoGrant ELSE tickets[a.ticket]) \in Grant \cup {NoGrant}
    BY <1>3 DEF Begin, Presentable, TypeOK
  <2>3. (Protecting \/ a.ticket # 0) \in BOOLEAN  OBVIOUS
  <2>4. /\ st' \in [Req -> Status] /\ ask' \in [Req -> Ask]
        /\ admitted' \in [Req -> SUBSET Value]
    BY <1>3, <2>1 DEF Begin, TypeOK, Status
  <2>5. prepared' \in [Req -> Grant \cup {NoGrant}]
    BY <1>3, <2>2 DEF Begin, TypeOK
  <2>6. protect' \in [Req -> BOOLEAN]
    BY <1>3, <2>3, ZenonT(20) DEF Begin, TypeOK
  <2> QED BY <1>3, <2>4, <2>5, <2>6 DEF Begin, TypeOK, Live
<1> QED BY <1>1, <1>2, <1>3 DEF Arrive

LEMMA TypeScreen == ASSUME TypeOK, NEW r \in Req, Screen(r) PROVE TypeOK'
<1>1. ASSUME NEW present \in SUBSET Value, NEW left \in Left(r, present), Block(r, left)
      PROVE  TypeOK'
  BY <1>1, LeftType, BlockType
<1>2. ASSUME NEW present \in SUBSET Value, NEW left \in Left(r, present),
             PassQuery(r, present, left)
      PROVE  TypeOK'
  BY <1>2, LeftType DEF PassQuery, TypeOK, Live, Status
<1>3. ASSUME NEW present \in SUBSET Value, NEW left \in Left(r, present),
             RefuseTarget(r, left)
      PROVE  TypeOK'
  <2>1. proofs' \in [Key -> Proof \cup {None}]
    BY <1>3, LeftType, FinishType DEF RefuseTarget, Screening
  <2> QED BY <1>3, <2>1, DismissType DEF RefuseTarget, TypeOK, Live
<1>4. ASSUME NEW present \in SUBSET Value, NEW left \in Left(r, present),
             PassBody(r, present, left)
      PROVE  TypeOK'
  <2>1. /\ surviving' \in [Req -> SUBSET Value] /\ pending' \in [Req -> SUBSET Value]
        /\ rest' \in [Req -> SUBSET Value]
    BY <1>4, LeftType DEF PassBody, TypeOK
  <2> QED BY <1>4, <2>1 DEF PassBody, TypeOK, Live, Status
<1>5. ASSUME NEW present \in SUBSET Value, NEW left \in Left(r, present),
             PassHeaders(r, present, left)
      PROVE  TypeOK'
  <2>1. surviving' \in [Req -> SUBSET Value] /\ rest' \in [Req -> SUBSET Value]
    BY <1>5, LeftType DEF PassHeaders, HeaderRecord, TypeOK
  <2> QED BY <1>5, <2>1 DEF PassHeaders, TypeOK, Live, Status
<1>6. CASE ScreenFails(r)
  <2>1. proofs' \in [Key -> Proof \cup {None}]
    BY <1>6, FinishType DEF ScreenFails, TypeOK
  <2> QED BY <1>6, <2>1, DismissType DEF ScreenFails, TypeOK, Live
<1> QED
  BY <1>1, <1>2, <1>3, <1>4, <1>5, <1>6 DEF Screen, ScreenQuery, ScreenBody, ScreenHeaders

LEMMA TypeBody == ASSUME TypeOK, NEW r \in Req, Body(r) PROVE TypeOK'
<1>1. CASE SkipBody(r)
  BY <1>1 DEF SkipBody, RecordQuery, TypeOK, Live, Status
<1>2. CASE RefuseBody(r)
  BY <1>2, DismissType DEF RefuseBody, TypeOK, Live
<1>3. CASE ReadBody(r)
  <2>1. st' \in [Req -> Status]
    BY <1>3 DEF ReadBody, TypeOK, Status
  <2>2. rest' \in [Req -> SUBSET Value]
    BY <1>3 DEF ReadBody, TypeOK
  <2> QED BY <1>3, <2>1, <2>2 DEF ReadBody, TypeOK, Live
<1>4. CASE SpendTicket(r)
  <2> DEFINE S == Live \ {ask[r].ticket}
  <2>1. tickets' \in [S -> Grant] /\ DOMAIN tickets' = S
    BY <1>4, OutstandingType, LiveIsLive DEF SpendTicket
  <2>2. CASE Dismiss(r)
    BY <1>4, <2>1, <2>2, DismissType DEF SpendTicket, TypeOK
  <2>3. ASSUME NEW x \in Text \cup {None}, Accept(r, x) PROVE TypeOK'
    <3>1. prepared[r].selected \in SUBSET Value
      BY DEF TypeOK, Grant, NoGrant
    <3> QED BY <1>4, <2>1, <2>3, <3>1 DEF SpendTicket, Accept, TypeOK, Live, Status
  <2> QED BY <1>4, <2>2, <2>3 DEF SpendTicket
<1> QED BY <1>1, <1>2, <1>3, <1>4 DEF Body

LEMMA TypeUpstream ==
    ASSUME TypeOK, NEW r \in Req, Upstream(r) \/ Restored(r)
    PROVE  TypeOK'
<1>1. proofs' \in [Key -> Proof \cup {None}]
  <2>1. surviving[r] \in SUBSET Value  BY DEF TypeOK
  <2>2. CASE Restored(r)
    <3>1. ASSUME NEW p \in Proof PROVE [p EXCEPT !.restore = r] \in Proof
      BY DEF Proof
    <3>2. CASE /\ proofs[KeyOf(r)] # None
               /\ proofs' = [proofs EXCEPT ![KeyOf(r)].restore = r]
      <4>1. proofs' = [proofs EXCEPT ![KeyOf(r)] = [proofs[KeyOf(r)] EXCEPT !.restore = r]]
        BY <3>2
      <4>2. ASSUME KeyOf(r) \in Key
            PROVE  [proofs[KeyOf(r)] EXCEPT !.restore = r] \in Proof
        BY <3>1, <3>2, <4>2 DEF TypeOK
      <4> QED BY <4>1, <4>2 DEF TypeOK
    <3> QED BY <2>2, <3>2 DEF Restored, TypeOK
  <2> QED
    BY <2>1, <2>2, FinishType
    DEF Upstream, Send, ConnectFails, UpstreamFails, UpstreamAnswers, Screening, TypeOK
<1>2. st' \in [Req -> Status]
  BY DEF Upstream, Send, ConnectFails, UpstreamFails, UpstreamAnswers, Restored, TypeOK, Status
<1>3. deliveries' \in [Req -> Nat]
  BY DEF Upstream, Send, ConnectFails, UpstreamFails, UpstreamAnswers, Restored, TypeOK, Status
<1> QED
  BY <1>1, <1>2, <1>3
  DEF Upstream, Send, ConnectFails, UpstreamFails, UpstreamAnswers, Restored, TypeOK, Live

LEMMA TypeNext == TypeOK /\ [Next]_vars => TypeOK'
<1> SUFFICES ASSUME TypeOK, [Next]_vars PROVE TypeOK'  OBVIOUS
<1>1. CASE UNCHANGED vars  BY <1>1 DEF vars, TypeOK, Live
<1>2. CASE Next
  BY <1>2, TypeClock, TypeMint, TypeAdmission, TypeScreen, TypeBody, TypeUpstream DEF Next
<1> QED BY <1>1, <1>2

(* Every variable keeps its type: the status of a request, the grants of   *)
(* outstanding tickets, what a proof holds.                                *)
THEOREM TypeCorrect == Spec => []TypeOK
BY TypeInit, TypeNext, PTL DEF Spec

-----------------------------------------------------------------------------
(* What a step of one request leaves alone, and the shared state it may    *)
(* change.                                                                 *)

Same(q) ==
    /\ st'[q] = st[q] /\ ask'[q] = ask[q] /\ protect'[q] = protect[q]
    /\ admitted'[q] = admitted[q] /\ prepared'[q] = prepared[q]
    /\ selected'[q] = selected[q] /\ pending'[q] = pending[q]
    /\ surviving'[q] = surviving[q] /\ query'[q] = query[q] /\ rest'[q] = rest[q]
    /\ accepted'[q] = accepted[q] /\ deliveries'[q] = deliveries[q]

Local(r) == \A q \in Req \ {r} : Same(q)

Shared ==
    /\ setting' = setting /\ registry \subseteq registry'
    /\ minted' \in Nat /\ minted <= minted'
    /\ \A t \in Live' : t \in Live \/ t > minted

Handling(r) ==
    RefuseAtGate(r) \/ Arrive(r) \/ Screen(r) \/ Body(r) \/ Upstream(r) \/ Restored(r)

LEMMA LocalDismiss == ASSUME TypeOK, NEW r \in Req, Dismiss(r) PROVE Local(r)
BY DEF Dismiss, Local, Same, TypeOK

LEMMA LocalStep ==
    ASSUME TypeOK, NEW r \in Req, Handling(r)
    PROVE  Local(r)
<1>1. CASE RefuseAtGate(r)  BY <1>1, LocalDismiss DEF RefuseAtGate
<1>2. CASE Arrive(r)
  BY <1>2, LocalDismiss DEF Arrive, RefuseTicket, Begin, Local, Same, TypeOK
<1>3. CASE Screen(r)
  <2>1. ASSUME NEW present, NEW left, Block(r, left) \/ RefuseTarget(r, left) PROVE Local(r)
    BY <2>1, LocalDismiss DEF Block, RefuseTarget
  <2>2. ASSUME NEW present, NEW left, PassQuery(r, present, left) PROVE Local(r)
    BY <2>2 DEF PassQuery, Local, Same, TypeOK
  <2>3. ASSUME NEW present, NEW left, PassBody(r, present, left) PROVE Local(r)
    BY <2>3 DEF PassBody, Local, Same, TypeOK
  <2>4. ASSUME NEW present, NEW left, PassHeaders(r, present, left) PROVE Local(r)
    BY <2>4 DEF PassHeaders, Local, Same, TypeOK
  <2>5. CASE ScreenFails(r)  BY <2>5, LocalDismiss DEF ScreenFails
  <2> QED
    BY <1>3, <2>1, <2>2, <2>3, <2>4, <2>5 DEF Screen, ScreenQuery, ScreenBody, ScreenHeaders
<1>4. CASE Body(r)
  <2>1. CASE SkipBody(r)  BY <2>1 DEF SkipBody, RecordQuery, Local, Same, TypeOK
  <2>2. CASE RefuseBody(r)  BY <2>2, LocalDismiss DEF RefuseBody
  <2>3. CASE ReadBody(r)  BY <2>3 DEF ReadBody, Local, Same, TypeOK
  <2>4. CASE SpendTicket(r)
    BY <2>4, LocalDismiss DEF SpendTicket, Accept, Local, Same, TypeOK
  <2> QED BY <1>4, <2>1, <2>2, <2>3, <2>4 DEF Body
<1>5. CASE Upstream(r) \/ Restored(r)
  BY <1>5
  DEF Upstream, Send, ConnectFails, UpstreamFails, UpstreamAnswers, Restored, Local, Same, TypeOK
<1> QED BY <1>1, <1>2, <1>3, <1>4, <1>5 DEF Handling

LEMMA SharedStep ==
    ASSUME TypeOK, NEW r \in Req, Handling(r)
    PROVE  Shared /\ Live' \subseteq Live
<1>1. setting' = setting /\ registry' = registry /\ minted' = minted
  BY DEF Handling, RefuseAtGate, Arrive, RefuseTicket, Begin, Screen, ScreenQuery, ScreenBody,
         ScreenHeaders, ScreenFails, PassQuery, PassBody, PassHeaders, RefuseTarget, Block, Body,
         SkipBody, RefuseBody, ReadBody, SpendTicket, Accept, Upstream, Send, ConnectFails,
         UpstreamFails, UpstreamAnswers, Restored, Dismiss
<1> SUFFICES Live' \subseteq Live
  BY <1>1, ConstantsAssumption DEF Shared, TypeOK
<1>2. ASSUME tickets' = tickets PROVE Live' \subseteq Live  BY <1>2 DEF Live
<1>3. ASSUME NEW a \in Ask, RefuseTicket(r, a) PROVE Live' \subseteq Live
  <2>1. Live' = {t \in Live : t # a.ticket \/ ~Expired(tickets[t])}
    BY <1>3, LiveIsLive DEF RefuseTicket, Live
  <2> QED BY <2>1
<1>4. CASE SpendTicket(r)
  <2>1. Live' = Live \ {ask[r].ticket}
    BY <1>4, LiveIsLive DEF SpendTicket, Live
  <2> QED BY <2>1
<1>5. CASE RefuseAtGate(r)  BY <1>2, <1>5 DEF RefuseAtGate
<1>6. ASSUME NEW a \in Ask, Begin(r, a) PROVE Live' \subseteq Live
  BY <1>2, <1>6 DEF Begin
<1>7. CASE Screen(r)
  BY <1>2, <1>7 DEF Screen, ScreenQuery, ScreenBody, ScreenHeaders, ScreenFails, PassQuery,
                    PassBody, PassHeaders, RefuseTarget, Block
<1>8. CASE SkipBody(r) \/ RefuseBody(r) \/ ReadBody(r)
  BY <1>2, <1>8 DEF SkipBody, RefuseBody, ReadBody
<1>9. CASE Upstream(r) \/ Restored(r)
  BY <1>2, <1>9
  DEF Upstream, Send, ConnectFails, UpstreamFails, UpstreamAnswers, Restored
<1> QED
  BY <1>3, <1>4, <1>5, <1>6, <1>7, <1>8, <1>9 DEF Handling, Arrive, Body

Sound(r) == Granted(r) /\ Spent(r) /\ Idle(r) /\ Counted(r) /\ Delivery(r)

LEMMA SameSound ==
    ASSUME TypeOK, NEW q \in Req, Same(q), Shared, Sound(q)
    PROVE  Sound(q)'
<1>1. Idle(q)' /\ Delivery(q)'  BY DEF Sound, Same, Idle, Delivery
<1>2. Counted(q)'  BY DEF Sound, Same, Counted, Shared
<1>3. Granted(q)'  BY DEF Sound, Same, Granted, Shared, TypeOK
<1>4. Spent(q)'    BY DEF Sound, Same, Granted, Spent, Shared, TypeOK
<1> QED BY <1>1, <1>2, <1>3, <1>4 DEF Sound

(* Requests that are not yet on their way have not been delivered.         *)
LEMMA DismissSound ==
    ASSUME TypeOK, NEW r \in Req, Sound(r), Dismiss(r),
           st[r] \notin Delivered \cup {"failed"}
    PROVE  Sound(r)'
<1>1. /\ st'[r] = "refused" /\ ask'[r] = NoAsk /\ protect'[r] = FALSE /\ admitted'[r] = {}
      /\ pending'[r] = {} /\ surviving'[r] = {} /\ query'[r] = {} /\ rest'[r] = {}
      /\ deliveries'[r] = deliveries[r]
  BY DEF Dismiss, TypeOK
<1>2. deliveries[r] = 0  BY DEF Sound, Delivery
<1> QED
  BY <1>1, <1>2
  DEF Sound, Granted, Spent, Idle, Counted, Delivery, Delivered, Early, NoAsk

LEMMA AdmissionSound ==
    ASSUME TypeOK, NEW r \in Req, Sound(r), RefuseAtGate(r) \/ Arrive(r)
    PROVE  Sound(r)'
<1>1. CASE Dismiss(r)
  BY <1>1, DismissSound DEF RefuseAtGate, Arrive, RefuseTicket, Begin, Delivered
<1>2. ASSUME NEW a \in Ask, a.ticket <= minted, Begin(r, a) PROVE Sound(r)'
  <2>1. /\ st[r] = "new" /\ st'[r] = "query" /\ ask'[r] = a
        /\ protect'[r] = (Protecting \/ a.ticket # 0) /\ admitted'[r] = registry
        /\ prepared'[r] = IF a.ticket = 0 THEN NoGrant ELSE tickets[a.ticket]
        /\ UNCHANGED <<setting, registry, minted, pending, surviving, query, rest, deliveries>>
    BY <1>2 DEF Begin, TypeOK
  <2>2. Granted(r)'
    BY <1>2, <2>1 DEF Begin, Presentable, Granted, TypeOK
  <2>3. ~protect'[r] => registry = {}
    BY <2>1 DEF Protecting
  <2>4. Counted(r)'
    BY <2>1, <2>3 DEF Sound, Idle, Counted
  <2>5. Delivery(r)' /\ Idle(r)' /\ Spent(r)'
    BY <2>1 DEF Sound, Delivery, Idle, Spent, Delivered, Early
  <2> QED BY <2>2, <2>4, <2>5 DEF Sound
<1> QED BY <1>1, <1>2 DEF RefuseAtGate, Arrive, RefuseTicket

(* What screening lets through.                                            *)
LEMMA ClearCounted ==
    ASSUME TypeOK, NEW r \in Req, Counted(r),
           NEW present \in SUBSET Value, NEW left \in Left(r, present), Passes(left)
    PROVE  /\ Clear(r, present, left) \cap admitted[r] \subseteq left
           /\ setting.failClosed => left = {}
           /\ ~protect[r] => left = {}
           /\ protect[r] /\ left = {} => Clear(r, present, left) \cap selected[r] = {}
BY DEF Counted, Left, Clear, Known, Passes

LEMMA ScreenSound ==
    ASSUME TypeOK, NEW r \in Req, Sound(r), Screen(r)
    PROVE  Sound(r)'
<1>1. CASE Dismiss(r)
  BY <1>1, DismissSound
  DEF Screen, ScreenQuery, ScreenBody, ScreenHeaders, ScreenFails, Delivered
<1>2. ASSUME st[r] = "query", NEW present \in SUBSET Value, NEW left \in Left(r, present),
             PassQuery(r, present, left)
      PROVE  Sound(r)'
  <2>1. /\ st'[r] = "body" /\ pending'[r] = left /\ query'[r] = Clear(r, present, left)
        /\ Live' = Live
        /\ UNCHANGED <<setting, registry, minted, ask, protect, admitted, prepared, selected,
                       surviving, rest, accepted, deliveries>>
    BY <1>2 DEF PassQuery, TypeOK, Live
  <2>2. Counted(r)'
    BY <1>2, <2>1, ClearCounted DEF PassQuery, Sound, Counted
  <2>3. Granted(r)' /\ Spent(r)' /\ Idle(r)' /\ Delivery(r)'
    BY <1>2, <2>1 DEF Sound, Granted, Spent, Idle, Delivery, Delivered, Early
  <2> QED BY <2>2, <2>3 DEF Sound
<1>3. ASSUME st[r] = "screening", NEW present \in SUBSET Value, NEW left \in Left(r, present),
             PassBody(r, present, left)
      PROVE  Sound(r)'
  <2>1. /\ st'[r] = "headers" /\ pending'[r] = {}
        /\ surviving'[r] = surviving[r] \cup pending[r] \cup left
        /\ rest'[r] = rest[r] \cup Clear(r, present, left)
        /\ Live' = Live
        /\ UNCHANGED <<setting, registry, minted, ask, protect, admitted, prepared, selected,
                       query, accepted, deliveries>>
    BY <1>3 DEF PassBody, TypeOK, Live
  <2>2. Counted(r)'
    BY <1>3, <2>1, ClearCounted DEF PassBody, Sound, Counted
  <2>3. Spent(r)'
    BY <1>3, <2>1, ClearCounted DEF PassBody, Sound, Granted, Spent, Early
  <2>4. Granted(r)' /\ Idle(r)' /\ Delivery(r)'
    BY <1>3, <2>1 DEF Sound, Granted, Idle, Delivery, Delivered
  <2> QED BY <2>2, <2>3, <2>4 DEF Sound
<1>4. ASSUME st[r] = "headers", NEW present \in SUBSET Value, NEW left \in Left(r, present),
             PassHeaders(r, present, left)
      PROVE  Sound(r)'
  <2>1. /\ st'[r] = "connecting" /\ surviving'[r] = surviving[r] \cup left
        /\ rest'[r] = rest[r] \cup Clear(r, present, left)
        /\ Live' = Live
        /\ UNCHANGED <<setting, registry, minted, ask, protect, admitted, prepared, selected,
                       pending, query, accepted, deliveries>>
    BY <1>4 DEF PassHeaders, HeaderRecord, TypeOK, Live
  <2>2. Counted(r)'
    <3>1. Counted(r) /\ Passes(left)  BY <1>4 DEF PassHeaders, Sound
    <3>2. /\ Clear(r, present, left) \cap admitted[r] \subseteq left
          /\ setting.failClosed => left = {}
      BY <1>4, <3>1, ClearCounted
    <3> QED BY <1>4, <2>1, <3>1, <3>2 DEF Counted
  <2>3. Spent(r)'
    BY <1>4, <2>1, ClearCounted DEF PassHeaders, Sound, Granted, Spent, Early
  <2>4. Granted(r)' /\ Idle(r)' /\ Delivery(r)'
    BY <1>4, <2>1 DEF Sound, Granted, Idle, Delivery, Delivered
  <2> QED BY <2>2, <2>3, <2>4 DEF Sound
<1> QED
  BY <1>1, <1>2, <1>3, <1>4
  DEF Screen, ScreenQuery, ScreenBody, ScreenHeaders, ScreenFails, Block, RefuseTarget

LEMMA BodySound ==
    ASSUME TypeOK, NEW r \in Req, Sound(r), Body(r)
    PROVE  Sound(r)' /\ (st[r] \in Early /\ st'[r] \notin Early /\ ask[r].ticket # 0
                           => ask[r].ticket \in Live)
<1>1. CASE Dismiss(r)
  BY <1>1, DismissSound
  DEF Body, SkipBody, RefuseBody, ReadBody, SpendTicket, Delivered, Early, Dismiss, TypeOK
<1>2. CASE SkipBody(r)
  <2>1. /\ st[r] = "body" /\ st'[r] = "headers" /\ ~ask[r].hasBody /\ pending'[r] = {}
        /\ surviving'[r] = surviving[r] \cup pending[r]
        /\ UNCHANGED <<setting, registry, minted, ask, protect, admitted, prepared, selected,
                       query, rest, accepted, deliveries>>
    BY <1>2 DEF SkipBody, RecordQuery, TypeOK
  <2> QED
    BY <2>1 DEF Sound, Granted, Spent, Idle, Counted, Delivery, Delivered, Early
<1>3. CASE ReadBody(r)
  <2>1. /\ st[r] = "body" /\ ask[r].ticket = 0
        /\ \/ protect[r] /\ st'[r] = "screening" /\ rest'[r] = rest[r]
           \/ ~protect[r] /\ st'[r] = "headers"
        /\ UNCHANGED <<setting, registry, minted, ask, protect, admitted, prepared, selected,
                       pending, surviving, query, accepted, deliveries>>
    BY <1>3 DEF ReadBody, TypeOK
  <2> QED
    BY <2>1 DEF Sound, Granted, Spent, Idle, Counted, Delivery, Delivered, Early
<1>4. ASSUME NEW x \in Text \cup {None}, SpendTicket(r), Accept(r, x)
      PROVE  Sound(r)' /\ ask[r].ticket \in Live
  <2>1. /\ st[r] = "body" /\ st'[r] = "screening" /\ ask[r].ticket # 0
        /\ selected'[r] = prepared[r].selected
        /\ accepted'[r] = [text |-> x, at |-> now]
        /\ UNCHANGED <<setting, registry, minted, ask, protect, admitted, prepared,
                       pending, surviving, query, rest, deliveries>>
    BY <1>4 DEF SpendTicket, Accept, TypeOK
  <2>2. ask[r].ticket \in Live /\ ~Expired(prepared[r]) /\ prepared[r].text = x
    BY <1>4 DEF Accept, StillGood
  <2>3. Live' = Live \ {ask[r].ticket}
    BY <1>4, LiveIsLive DEF SpendTicket, Live
  <2>4. now < prepared[r].expires
    <3>1. prepared[r] \in Grant  BY <2>1 DEF Sound, Granted
    <3>2. prepared[r].expires \in Int /\ now \in Int
      BY <3>1, ConstantsAssumption DEF Grant, TypeOK, Time
    <3> QED BY <2>2, <3>2 DEF Expired
  <2>5. Spent(r)'
    BY <2>1, <2>2, <2>3, <2>4 DEF Sound, Counted, Spent
  <2>6. Granted(r)' /\ Idle(r)' /\ Counted(r)' /\ Delivery(r)'
    BY <2>1 DEF Sound, Granted, Idle, Counted, Delivery, Delivered
  <2> QED BY <2>2, <2>5, <2>6 DEF Sound
<1> QED BY <1>1, <1>2, <1>3, <1>4 DEF Body, RefuseBody, SpendTicket, SkipBody, ReadBody, Sound, Granted

LEMMA UpstreamSound ==
    ASSUME TypeOK, NEW r \in Req, Sound(r), Upstream(r) \/ Restored(r)
    PROVE  Sound(r)'
<1>1. /\ Live' = Live
      /\ UNCHANGED <<setting, registry, minted, ask, protect, admitted, prepared, selected,
                     pending, surviving, query, rest, accepted>>
  BY DEF Upstream, Send, ConnectFails, UpstreamFails, UpstreamAnswers, Restored, Live
<1>2. \/ st[r] \in {"connecting", "retrying"} /\ st'[r] \in {"retrying", "failed"}
         /\ deliveries'[r] = deliveries[r]
      \/ st[r] \in {"connecting", "retrying"} /\ st'[r] = "sent"
         /\ deliveries'[r] = deliveries[r] + 1
      \/ st[r] = "sent" /\ st'[r] \in {"failed", "restoring", "answered"}
         /\ deliveries'[r] = deliveries[r]
      \/ st[r] = "restoring" /\ st'[r] = "answered" /\ deliveries'[r] = deliveries[r]
  BY DEF Upstream, Send, ConnectFails, UpstreamFails, UpstreamAnswers, Restored, TypeOK
<1>3. Delivery(r)'
  BY <1>2 DEF Sound, Delivery, Delivered, TypeOK
<1>4. Granted(r)' /\ Spent(r)' /\ Idle(r)' /\ Counted(r)'
  BY <1>1, <1>2 DEF Sound, Granted, Spent, Idle, Counted, Early
<1> QED BY <1>3, <1>4 DEF Sound

-----------------------------------------------------------------------------
(* A ticket is live until the one request that takes it past the body.     *)
LEMMA OneSpenderStep ==
    ASSUME TypeOK, Ticketed, NEW r \in Req, Sound(r), Handling(r)
    PROVE  OneSpender'
<1>1. Local(r)  BY LocalStep
<1>2. \/ st'[r] \in Early
      \/ ask'[r] = ask[r] /\ st[r] \notin Early
      \/ ask'[r] = ask[r] /\ (ask[r].ticket # 0 => ask[r].ticket \in Live)
  <2>1. CASE Dismiss(r)  BY <2>1 DEF Dismiss, TypeOK, Early
  <2>2. CASE Arrive(r)
    BY <2>1, <2>2 DEF Arrive, RefuseTicket, Begin, TypeOK, Early
  <2>3. CASE Screen(r)
    BY <2>1, <2>3 DEF Screen, ScreenQuery, ScreenBody, ScreenHeaders, ScreenFails, Block,
                      RefuseTarget, PassQuery, PassBody, PassHeaders, TypeOK, Early
  <2>4. CASE Body(r)
    <3> SUFFICES ASSUME ~Dismiss(r)
                 PROVE  ask'[r] = ask[r] /\ (ask[r].ticket # 0 /\ st'[r] \notin Early
                                              /\ st[r] \in Early => ask[r].ticket \in Live)
      BY <2>1
    <3>1. ask'[r] = ask[r]
      BY <2>4 DEF Body, SkipBody, RefuseBody, ReadBody, SpendTicket, Accept
    <3> QED BY <2>4, <3>1, BodySound
  <2>5. CASE Upstream(r) \/ Restored(r)
    BY <2>5 DEF Upstream, Send, ConnectFails, UpstreamFails, UpstreamAnswers, Restored, Early
  <2> QED BY <2>1, <2>2, <2>3, <2>4, <2>5 DEF Handling, RefuseAtGate
<1> QED BY <1>1, <1>2 DEF Local, Same, OneSpender, Ticketed, Spent

LEMMA SoundStep ==
    ASSUME TypeOK, NEW r \in Req, Sound(r), Handling(r)
    PROVE  Sound(r)'
BY AdmissionSound, ScreenSound, BodySound, UpstreamSound DEF Handling

-----------------------------------------------------------------------------
(* Proofs.                                                                 *)

LEMMA SameProof ==
    ASSUME NEW k \in Key, SoundProof(k), proofs'[k] = proofs[k],
           proofs[k] # None => Same(proofs[k].by)
    PROVE  SoundProof(k)'
BY DEF SoundProof, Same

(* A step by a request that is still under way, and which either leaves    *)
(* the proofs alone or finishes its evidence truthfully.                   *)
LEMMA FinishSound ==
    ASSUME TypeOK, Proved, NEW r \in Req, Local(r),
           st[r] \notin {"refused", "failed", "restoring", "answered"},
           NEW outcome \in {"forwarded", "blocked", "upstream_error"},
           NEW screening, NEW left,
           Finish(r, outcome, screening, left),
           outcome = "blocked" => st'[r] = "refused",
           outcome = "forwarded" =>
             st'[r] \in {"restoring", "answered"} /\ screening # "detector_unavailable",
           outcome # "blocked" =>
             /\ st'[r] \in {"failed", "restoring", "answered"}
             /\ (query'[r] \cup rest'[r]) \cap admitted[r] \subseteq left
    PROVE  Proved'
<1> SUFFICES ASSUME NEW k \in Key PROVE SoundProof(k)'  BY DEF Proved
<1>1. SoundProof(k) /\ (proofs[k] # None => proofs[k] \in Proof)
  BY DEF Proved, TypeOK
<1>2. proofs[k] # None => proofs[k].by \in Req \ {r}
  <2> SUFFICES ASSUME proofs[k] # None PROVE proofs[k].by # r /\ proofs[k].by \in Req
    OBVIOUS
  <2>1. proofs[k].by \in Req /\ proofs[k].outcome \in {"forwarded", "blocked", "upstream_error"}
    BY <1>1 DEF Proof
  <2> QED BY <1>1, <2>1 DEF SoundProof
<1>3. CASE proofs'[k] = proofs[k]
  BY <1>1, <1>2, <1>3, SameProof DEF Local
<1>4. CASE proofs'[k] = None
  BY <1>4 DEF SoundProof
<1>5. CASE /\ proofs'[k] # None
           /\ proofs'[k] = [by |-> r, at |-> now, outcome |-> outcome, screening |-> screening,
                            surviving |-> left, registry |-> admitted[r], restore |-> None]
  BY <1>5 DEF SoundProof
<1> QED BY <1>3, <1>4, <1>5 DEF Finish

LEMMA UnfinishedSound ==
    ASSUME TypeOK, Proved, NEW r \in Req, Local(r), proofs' = proofs,
           st[r] \notin {"refused", "failed", "restoring", "answered"}
    PROVE  Proved'
<1> SUFFICES ASSUME NEW k \in Key PROVE SoundProof(k)'  BY DEF Proved
<1>1. SoundProof(k) /\ (proofs[k] # None => proofs[k] \in Proof)
  BY DEF Proved, TypeOK
<1>2. proofs[k] # None => proofs[k].by \in Req \ {r}
  <2> SUFFICES ASSUME proofs[k] # None PROVE proofs[k].by # r /\ proofs[k].by \in Req
    OBVIOUS
  <2>1. proofs[k].by \in Req /\ proofs[k].outcome \in {"forwarded", "blocked", "upstream_error"}
    BY <1>1 DEF Proof
  <2> QED BY <1>1, <2>1 DEF SoundProof
<1> QED BY <1>1, <1>2, SameProof DEF Local

LEMMA ProvedStep ==
    ASSUME TypeOK, Proved, NEW r \in Req, Sound(r), Handling(r)
    PROVE  Proved'
<1>0. Local(r)  BY LocalStep
<1>1. CASE RefuseAtGate(r) \/ Arrive(r)
  BY <1>0, <1>1, UnfinishedSound DEF RefuseAtGate, Arrive, RefuseTicket, Begin
<1>2. CASE Screen(r)
  <2>1. st[r] \in {"query", "screening", "headers"}
    BY <1>2 DEF Screen, ScreenQuery, ScreenBody, ScreenHeaders, ScreenFails
  <2>2. CASE proofs' = proofs
    BY <1>0, <2>1, <2>2, UnfinishedSound
  <2>3. ASSUME NEW screening, NEW left, Finish(r, "blocked", screening, left), Dismiss(r)
        PROVE  Proved'
    <3>1. st'[r] = "refused"  BY <2>3 DEF Dismiss, TypeOK
    <3> QED BY <1>0, <2>1, <2>3, <3>1, FinishSound
  <2> QED
    BY <1>2, <2>2, <2>3
    DEF Screen, ScreenQuery, ScreenBody, ScreenHeaders, ScreenFails, Block, RefuseTarget,
        PassQuery, PassBody, PassHeaders
<1>3. CASE Body(r)
  BY <1>0, <1>3, UnfinishedSound DEF Body, SkipBody, RefuseBody, ReadBody, SpendTicket
<1>4. CASE Upstream(r)
  <2>1. CASE proofs' = proofs
    BY <1>0, <1>4, <2>1, UnfinishedSound
    DEF Upstream, Send, ConnectFails, UpstreamFails, UpstreamAnswers
  <2>2. ASSUME NEW outcome \in {"forwarded", "upstream_error"},
               Finish(r, outcome, Screening(r), surviving[r]),
               st[r] \in {"retrying", "sent"}, UNCHANGED <<query, rest>>,
               outcome = "forwarded" => st'[r] \in {"restoring", "answered"},
               outcome = "upstream_error" => st'[r] = "failed"
        PROVE  Proved'
    <3>1. (query'[r] \cup rest'[r]) \cap admitted[r] \subseteq surviving[r]
      BY <2>2 DEF Sound, Counted
    <3>2. Screening(r) # "detector_unavailable"  BY DEF Screening
    <3> QED BY <1>0, <2>2, <3>1, <3>2, FinishSound
  <2>3. \/ proofs' = proofs
        \/ /\ Finish(r, "upstream_error", Screening(r), surviving[r])
           /\ st[r] \in {"retrying", "sent"} /\ UNCHANGED <<query, rest>> /\ st'[r] = "failed"
        \/ /\ Finish(r, "forwarded", Screening(r), surviving[r])
           /\ st[r] \in {"retrying", "sent"} /\ UNCHANGED <<query, rest>>
           /\ st'[r] \in {"restoring", "answered"}
    BY <1>4 DEF Upstream, Send, ConnectFails, UpstreamFails, UpstreamAnswers, TypeOK
  <2> QED BY <2>1, <2>2, <2>3
<1>5. CASE Restored(r)
  <2> SUFFICES ASSUME NEW k \in Key PROVE SoundProof(k)'  BY DEF Proved
  <2>1. /\ st[r] = "restoring" /\ st'[r] = "answered" /\ UNCHANGED <<query, rest>>
    BY <1>5 DEF Restored, TypeOK
  <2>2. proofs[k] # None =>
          /\ proofs[k] \in Proof
          /\ proofs'[k].by = proofs[k].by /\ proofs'[k].outcome = proofs[k].outcome
          /\ proofs'[k].screening = proofs[k].screening
          /\ proofs'[k].registry = proofs[k].registry
          /\ proofs'[k].surviving = proofs[k].surviving
    <3>1. CASE proofs' = proofs  BY <3>1 DEF TypeOK, Proof, Key
    <3>2. CASE proofs' = [proofs EXCEPT ![KeyOf(r)].restore = r]
      <4>1. CASE k = KeyOf(r) /\ proofs[k] # None
        <5>1. proofs[k] \in Proof  BY <4>1 DEF TypeOK
        <5>2. proofs'[k] = [proofs[k] EXCEPT !.restore = r]  BY <3>2, <4>1 DEF TypeOK
        <5> QED BY <5>1, <5>2 DEF Proof
      <4>2. CASE k # KeyOf(r)  BY <3>2, <4>2 DEF TypeOK
      <4> QED BY <4>1, <4>2
    <3> QED BY <1>5, <3>1, <3>2 DEF Restored
  <2>3. proofs[k] = None => proofs'[k] = None
    BY <1>5 DEF Restored, TypeOK
  <2>4. proofs[k] # None => Same(proofs[k].by) \/ proofs[k].by = r
    BY <1>0, <2>2 DEF Local, Proof
  <2> QED BY <2>1, <2>2, <2>3, <2>4 DEF Proved, SoundProof, Same
<1> QED BY <1>1, <1>2, <1>3, <1>4, <1>5 DEF Handling

-----------------------------------------------------------------------------
(* The invariant holds of every reachable state.                           *)

LEMMA InvInit == Init => IInv
<1> SUFFICES ASSUME Init PROVE IInv  OBVIOUS
<1>1. TypeOK  BY TypeInit
<1>2. \A r \in Req : Sound(r)
  BY DEF Init, Sound, Granted, Spent, Idle, Counted, Delivery, Delivered, NoAsk
<1>3. OneSpender  BY DEF Init, OneSpender, NoAsk
<1>4. Proved  BY DEF Init, Proved, SoundProof
<1> QED BY <1>1, <1>2, <1>3, <1>4 DEF IInv, Ticketed, Screened, Delivering, Sound

(* Steps that are of no request.                                           *)
LEMMA IdleStep ==
    ASSUME IInv, \A q \in Req : Same(q), Shared, proofs' = proofs
    PROVE  (\A r \in Req : Sound(r)') /\ OneSpender' /\ Proved'
<1>1. TypeOK /\ \A r \in Req : Sound(r)
  BY DEF IInv, Ticketed, Screened, Delivering, Sound
<1>2. \A r \in Req : Sound(r)'  BY <1>1, SameSound
<1>3. OneSpender'  BY DEF IInv, Ticketed, OneSpender, Same
<1>4. ASSUME NEW k \in Key PROVE SoundProof(k)'
  <2>1. SoundProof(k) /\ (proofs[k] # None => proofs[k] \in Proof)
    BY DEF IInv, Proved, TypeOK
  <2>2. proofs[k] # None => Same(proofs[k].by)  BY <2>1 DEF Proof
  <2> QED BY <2>1, <2>2, SameProof
<1> QED BY <1>2, <1>3, <1>4 DEF Proved

LEMMA InvNext == IInv /\ [Next]_vars => IInv'
<1> SUFFICES ASSUME IInv, [Next]_vars PROVE IInv'  OBVIOUS
<1>1. TypeOK /\ TypeOK'  BY TypeNext DEF IInv
<1>2. \A r \in Req : Sound(r)
  BY DEF IInv, Ticketed, Screened, Delivering, Sound
<1> SUFFICES (\A r \in Req : Sound(r)') /\ OneSpender' /\ Proved'
  BY <1>1 DEF IInv, Ticketed, Screened, Delivering, Sound
<1>3. CASE UNCHANGED vars
  BY <1>1, <1>3, ConstantsAssumption, IdleStep DEF vars, Same, Shared, Live, TypeOK
<1>4. CASE Reload \/ Tick
  BY <1>1, <1>4, ConstantsAssumption, IdleStep DEF Reload, Tick, Same, Shared, Live, TypeOK
<1>5. ASSUME NEW s \in PreviewScope, NEW x \in Text, NEW V \in SUBSET Value, Mint(s, x, V)
      PROVE  (\A r \in Req : Sound(r)') /\ OneSpender' /\ Proved'
  <2>1. Shared
    BY <1>1, <1>5, ConstantsAssumption, TypeMint DEF Mint, Shared, TypeOK
  <2>2. \A q \in Req : Same(q)  BY <1>5 DEF Mint, Same
  <2> QED BY <1>5, <2>1, <2>2, IdleStep DEF Mint
<1>6. ASSUME NEW r \in Req, Handling(r)
      PROVE  (\A q \in Req : Sound(q)') /\ OneSpender' /\ Proved'
  <2>1. Local(r) /\ Shared  BY <1>1, <1>6, LocalStep, SharedStep
  <2>2. \A q \in Req : Sound(q)'
    BY <1>1, <1>2, <1>6, <2>1, SoundStep, SameSound DEF Local
  <2>3. OneSpender'  BY <1>1, <1>2, <1>6, OneSpenderStep DEF IInv
  <2>4. Proved'  BY <1>1, <1>2, <1>6, ProvedStep DEF IInv
  <2> QED BY <2>2, <2>3, <2>4
<1> QED BY <1>3, <1>4, <1>5, <1>6 DEF Next, Handling

LEMMA Invariant == Spec => []IInv
BY InvInit, InvNext, PTL DEF Spec

(* A request that went out is past its body and was not refused.           *)
LEMMA SentIsLate ==
    ASSUME IInv, NEW r \in Req, Sent(r)
    PROVE  st[r] \in Delivered \cup {"failed"} /\ Sound(r)
<1>1. Sound(r)  BY DEF IInv, Ticketed, Screened, Delivering, Sound
<1> QED BY <1>1 DEF Sound, Delivery, Sent

(* A ticket sends one request, whatever the number of requests presenting  *)
(* it and the order in which they are admitted, expire and arrive.         *)
THEOREM TicketsAreOneTime == Spec => []TicketSentOnce
<1>1. IInv => TicketSentOnce
  BY SentIsLate DEF IInv, Ticketed, OneSpender, TicketSentOnce, Early, Delivered
<1> QED BY <1>1, Invariant, PTL

(* What a ticket sends is what was reviewed, in time and in scope, with    *)
(* the selected values replaced.                                           *)
THEOREM ReviewsAreHonoured == Spec => []SentAsReviewed
<1>1. IInv => SentAsReviewed
  BY SentIsLate DEF Sound, Granted, Spent, SentAsReviewed, Early, Delivered
<1> QED BY <1>1, Invariant, PTL

(* Where leaks block, no value registered at admission leaves in the       *)
(* clear, for any interleaving with registry reloads.                      *)
THEOREM RegisteredValuesStay == Spec => []KnownNeverLeaves
<1>1. IInv => KnownNeverLeaves
  BY SentIsLate DEF Sound, Counted, KnownNeverLeaves
<1> QED BY <1>1, Invariant, PTL

(* An egress proof is true of the request it names.                        *)
THEOREM ProofsAreTrue == Spec => []ProofTrue
<1>1. ASSUME IInv, NEW k \in Key, proofs[k] # None
      PROVE  LET p == proofs[k]
             IN  /\ p.outcome = "blocked" => ~Sent(p.by)
                 /\ p.outcome = "forwarded" => Sent(p.by) /\ p.screening # "detector_unavailable"
                 /\ p.outcome # "blocked" =>
                      (query[p.by] \cup rest[p.by]) \cap p.registry \subseteq p.surviving
  <2>1. SoundProof(k) /\ proofs[k].by \in Req
    BY <1>1 DEF IInv, Proved, TypeOK, Proof
  <2>2. Delivery(proofs[k].by)  BY <1>1, <2>1 DEF IInv, Delivering
  <2> QED BY <1>1, <2>1, <2>2 DEF SoundProof, Delivery, Delivered, Sent
<1>2. IInv => ProofTrue  BY <1>1 DEF ProofTrue
<1> QED BY <1>2, Invariant, PTL

(* The connect retry never sends a request twice.                          *)
THEOREM RequestsAreSentOnce == Spec => []SentAtMostOnce
<1>1. IInv => SentAtMostOnce  BY DEF IInv, Delivering, Delivery, SentAtMostOnce
<1> QED BY <1>1, Invariant, PTL

(* A ticket sends one request, as reviewed, and the connect retry sends     *)
(* nothing again (server.ts, consumeReviewTicket, sendUpstream).            *)
THEOREM ReviewedRequestsGoOnce == Spec => []SentOnceAsReviewed
BY TicketsAreOneTime, ReviewsAreHonoured, RequestsAreSentOnce, PTL DEF SentOnceAsReviewed


-----------------------------------------------------------------------------
(* The caps on outstanding tickets.                                        *)

LEMMA LeastNat ==
    ASSUME NEW T, T \subseteq Nat, T # {}
    PROVE  \E x \in T : \A y \in T : x <= y
<1> DEFINE R == OpToRel(<, Nat)
<1>1. PICK x \in T : \A y \in T : ~(<<y, x>> \in R)
  <2>1. IsWellFoundedOn(R, Nat)  BY NatLessThanWellFounded
  <2> HIDE DEF R
  <2> QED BY <2>1, WFMin
<1>2. ASSUME NEW y \in T PROVE x <= y
  <2>1. ~(y < x)  BY <1>1, <1>2, ZenonT(20) DEF OpToRel
  <2>2. x \in Nat /\ y \in Nat  OBVIOUS
  <2> QED BY <2>1, <2>2
<1> QED BY <1>2

(* The n youngest of any finite set are at most n.                         *)
LEMMA YoungestBound ==
    ASSUME NEW S \in SUBSET Nat, IsFiniteSet(S), NEW n \in Nat
    PROVE  IsFiniteSet(Youngest(S, n)) /\ Cardinality(Youngest(S, n)) <= n
<1> DEFINE Y == Youngest(S, n)
<1>1. Y \subseteq S /\ Y \subseteq Nat  BY DEF Youngest
<1>2. IsFiniteSet(Y)  BY <1>1, FS_Subset
<1>3. CASE Y = {}  BY <1>2, <1>3, FS_EmptySet
<1>4. CASE Y # {}
  <2>1. PICK m \in Y : \A y \in Y : m <= y
    <3> HIDE DEF Y
    <3> QED BY <1>1, <1>4, LeastNat
  <2> DEFINE above == {u \in S : u > m}
             younger == Y \ {m}
  <2>2. m \in S /\ Cardinality(above) < n  BY <2>1 DEF Youngest
  <2> HIDE DEF Y
  <2>3. younger \subseteq above
    <3> SUFFICES ASSUME NEW y \in Y, y # m PROVE y \in S /\ y > m  OBVIOUS
    <3>1. y \in Nat /\ m \in Nat /\ m <= y  BY <1>1, <2>1
    <3> QED BY <1>1, <3>1
  <2>4. IsFiniteSet(above) /\ IsFiniteSet(younger)
    <3>1. above \subseteq S  OBVIOUS
    <3>2. younger \subseteq S  BY <1>1
    <3> HIDE DEF above, younger
    <3> QED BY <3>1, <3>2, FS_Subset
  <2>5. Cardinality(younger) <= Cardinality(above)  BY <2>3, <2>4, FS_Subset
  <2>6. Cardinality(younger) = Cardinality(Y) - 1  BY <1>2, <2>1, FS_RemoveElement
  <2>7. Cardinality(above) \in Nat /\ Cardinality(younger) \in Nat /\ Cardinality(Y) \in Nat
    BY <1>2, <2>4, FS_CardinalityType
  <2> QED BY <1>2, <2>2, <2>5, <2>6, <2>7 DEF Y
<1> QED BY <1>3, <1>4

LEMMA LiveFinite ==
    ASSUME TypeOK, NEW T, T \subseteq Live
    PROVE  T \in SUBSET Nat /\ IsFiniteSet(T) /\ Cardinality(T) \in Nat
<1>1. minted \in Nat /\ Live \subseteq 1..minted  BY ConstantsAssumption DEF TypeOK
<1>2. IsFiniteSet(1..minted)  BY <1>1, FS_Interval
<1>3. IsFiniteSet(T)  BY <1>1, <1>2, FS_Subset
<1> QED BY <1>1, <1>3, FS_CardinalityType

(* A step that takes tickets away and changes none keeps the caps.         *)
LEMMA FewerTickets ==
    ASSUME TypeOK, TicketBounds, Live' \subseteq Live, \A t \in Live' : tickets'[t] = tickets[t]
    PROVE  TicketBounds'
<1>1. Cardinality(Live') <= Cardinality(Live)  BY LiveFinite, FS_Subset
<1>2. ASSUME NEW s \in Scope
      PROVE  Cardinality(InScope(Live, s)') <= Cardinality(InScope(Live, s))
  <2>1. InScope(Live, s)' \subseteq InScope(Live, s)  BY DEF InScope
  <2>2. InScope(Live, s) \subseteq Live  BY DEF InScope
  <2> QED BY <2>1, <2>2, LiveFinite, FS_Subset
<1>3. Cardinality(Live) \in Nat /\ Cardinality(Live') \in Nat  BY LiveFinite
<1>4. ASSUME NEW s \in Scope
      PROVE  Cardinality(InScope(Live, s)') <= ScopeTicketsMax
  <2>1. InScope(Live, s) \subseteq Live /\ InScope(Live, s)' \subseteq Live  BY DEF InScope
  <2>2. Cardinality(InScope(Live, s)) \in Nat /\ Cardinality(InScope(Live, s)') \in Nat
    BY <2>1, LiveFinite
  <2>3. Cardinality(InScope(Live, s)) <= ScopeTicketsMax  BY DEF TicketBounds
  <2> QED BY <1>2, <2>2, <2>3, ConstantsAssumption
<1>5. Cardinality(Live') <= TicketsMax
  BY <1>1, <1>3, ConstantsAssumption DEF TicketBounds
<1> QED BY <1>4, <1>5 DEF TicketBounds

(* What a request's step leaves of the tickets it leaves unchanged.        *)
LEMMA TicketsStep ==
    ASSUME TypeOK, NEW r \in Req, Handling(r)
    PROVE  Live' \subseteq Live /\ \A t \in Live' : tickets'[t] = tickets[t]
<1>1. Live' \subseteq Live  BY SharedStep
<1>2. tickets' = tickets \/ \E S \in SUBSET Live : tickets' = Outstanding(S)
  <2>1. ASSUME NEW a \in Ask, RefuseTicket(r, a)
        PROVE  \E S \in SUBSET Live : tickets' = Outstanding(S)
    <3> DEFINE S == {t \in Live : t # a.ticket \/ ~Expired(tickets[t])}
    <3>1. tickets' = Outstanding(S) /\ S \in SUBSET Live  BY <2>1 DEF RefuseTicket
    <3> HIDE DEF S
    <3> QED BY <3>1
  <2>2. ASSUME SpendTicket(r) PROVE \E S \in SUBSET Live : tickets' = Outstanding(S)
    <3>1. tickets' = Outstanding(Live \ {ask[r].ticket})  BY <2>2 DEF SpendTicket
    <3> QED BY <3>1
  <2>3. ASSUME NEW a \in Ask, Begin(r, a) PROVE tickets' = tickets  BY <2>3 DEF Begin
  <2>4. CASE RefuseAtGate(r)  BY <2>4 DEF RefuseAtGate
  <2>5. CASE Screen(r)
    BY <2>5 DEF Screen, ScreenQuery, ScreenBody, ScreenHeaders, ScreenFails, PassQuery,
                PassBody, PassHeaders, RefuseTarget, Block
  <2>6. CASE SkipBody(r) \/ RefuseBody(r) \/ ReadBody(r)  BY <2>6 DEF SkipBody, RefuseBody, ReadBody
  <2>7. CASE Upstream(r) \/ Restored(r)
    BY <2>7 DEF Upstream, Send, ConnectFails, UpstreamFails, UpstreamAnswers, Restored
  <2> QED BY <2>1, <2>2, <2>3, <2>4, <2>5, <2>6, <2>7 DEF Handling, Arrive, Body
<1>3. ASSUME NEW S \in SUBSET Live, tickets' = Outstanding(S), NEW t \in Live'
      PROVE  tickets'[t] = tickets[t]
  BY <1>3 DEF Outstanding, Live
<1> QED BY <1>1, <1>2, <1>3

LEMMA MintKeepsCaps ==
    ASSUME TypeOK, TicketBounds, NEW s \in PreviewScope, NEW x \in Text, NEW V \in SUBSET Value,
           Mint(s, x, V)
    PROVE  TicketBounds'
<1> DEFINE pruned == PruneTickets(Live)
           kept == PruneScope(pruned, s)
           new == minted + 1
           grant == [scope |-> s, text |-> x, selected |-> V, expires |-> now + TicketTTL]
<1>1. tickets' = [t \in kept \cup {new} |-> IF t \in Live THEN tickets[t] ELSE grant]  BY DEF Mint
<1>2. grant.scope = s  OBVIOUS
<1> HIDE DEF grant
<1>3. pruned \subseteq Live /\ Cardinality(pruned) <= TicketsMax - 1
  <2> DEFINE fresh == {t \in Live : ~Expired(tickets[t])}
  <2>1. fresh \subseteq Live  OBVIOUS
  <2>2. pruned = Youngest(fresh, TicketsMax - 1)  BY DEF PruneTickets
  <2>3. TicketsMax - 1 \in Nat  BY ConstantsAssumption
  <2> HIDE DEF fresh
  <2>4. Youngest(fresh, TicketsMax - 1) \subseteq fresh  BY DEF Youngest
  <2> HIDE DEF pruned
  <2> QED BY <2>1, <2>2, <2>3, <2>4, LiveFinite, YoungestBound
<1> HIDE DEF pruned
<1>4. kept \subseteq pruned  BY DEF PruneScope, Youngest, InScope
<1>5. InScope(kept, s) \subseteq Youngest(InScope(pruned, s), ScopeTicketsMax - 1)
  BY DEF PruneScope, InScope, Youngest
<1> HIDE DEF kept
<1>6. Live' = kept \cup {new} /\ kept \subseteq Live  BY <1>1, <1>3, <1>4 DEF Live
<1>7. new \notin Live  BY ConstantsAssumption DEF TypeOK
<1>8. \A t \in kept : tickets'[t] = tickets[t]  BY <1>1, <1>6
<1>9. tickets'[new].scope = s  BY <1>1, <1>2, <1>7
<1> HIDE DEF new
<1>10. Cardinality(Live') <= TicketsMax
  <2>1. IsFiniteSet(kept) /\ IsFiniteSet(pruned)  BY <1>3, <1>6, LiveFinite
  <2>2. Cardinality(kept) <= Cardinality(pruned)  BY <1>4, <2>1, FS_Subset
  <2>3. Cardinality(kept \cup {new}) = Cardinality(kept) + 1  BY <1>6, <1>7, <2>1, FS_AddElement
  <2>4. Cardinality(kept) \in Nat /\ Cardinality(pruned) \in Nat  BY <2>1, FS_CardinalityType
  <2> QED BY <1>3, <1>6, <2>2, <2>3, <2>4, ConstantsAssumption
<1>11. Cardinality(InScope(Live, s)') <= ScopeTicketsMax
  <2> DEFINE Y == Youngest(InScope(pruned, s), ScopeTicketsMax - 1)
  <2>1. InScope(Live, s)' \subseteq Y \cup {new}
    <3>1. ASSUME NEW t \in Live', tickets'[t].scope = s PROVE t \in Y \cup {new}
      <4>1. CASE t = new  BY <4>1
      <4>2. CASE t # new
        <5>1. t \in kept /\ tickets[t].scope = s  BY <1>6, <1>8, <3>1, <4>2
        <5> QED BY <1>5, <5>1 DEF InScope
      <4> QED BY <4>1, <4>2
    <3> HIDE DEF Y
    <3> QED BY <3>1 DEF InScope
  <2>2. InScope(pruned, s) \subseteq Live  BY <1>3 DEF InScope
  <2>3. IsFiniteSet(Y) /\ Cardinality(Y) <= ScopeTicketsMax - 1
    <3>1. ScopeTicketsMax - 1 \in Nat  BY ConstantsAssumption
    <3> QED BY <2>2, <3>1, LiveFinite, YoungestBound
  <2> HIDE DEF Y
  <2>4. IsFiniteSet(Y \cup {new}) /\ Cardinality(Y \cup {new}) <= Cardinality(Y) + 1
    <3>1. Cardinality(Y) \in Nat  BY <2>3, FS_CardinalityType
    <3>2. /\ IsFiniteSet(Y \cup {new})
          /\ Cardinality(Y \cup {new}) = IF new \in Y THEN Cardinality(Y) ELSE Cardinality(Y) + 1
      BY <2>3, FS_AddElement
    <3> QED BY <3>1, <3>2
  <2>5. IsFiniteSet(InScope(Live, s)') /\ Cardinality(InScope(Live, s)') <= Cardinality(Y \cup {new})
    BY <2>1, <2>4, FS_Subset
  <2>6. Cardinality(Y) \in Nat /\ Cardinality(Y \cup {new}) \in Nat /\ Cardinality(InScope(Live, s)') \in Nat
    BY <2>3, <2>4, <2>5, FS_CardinalityType
  <2> QED BY <2>3, <2>4, <2>5, <2>6, ConstantsAssumption
<1>12. ASSUME NEW z \in Scope, z # s PROVE Cardinality(InScope(Live, z)') <= ScopeTicketsMax
  <2>1. InScope(Live, z)' \subseteq InScope(Live, z)
    <3>1. ASSUME NEW t \in Live', tickets'[t].scope = z PROVE t \in Live /\ tickets[t].scope = z
      <4>1. t # new  BY <1>9, <1>12, <3>1
      <4> QED BY <1>6, <1>8, <3>1, <4>1
    <3> QED BY <3>1 DEF InScope
  <2>2. InScope(Live, z) \subseteq Live  BY DEF InScope
  <2>3. IsFiniteSet(InScope(Live, z)) /\ Cardinality(InScope(Live, z)) \in Nat  BY <2>2, LiveFinite
  <2>4. IsFiniteSet(InScope(Live, z)') /\ Cardinality(InScope(Live, z)') <= Cardinality(InScope(Live, z))
    BY <2>1, <2>3, FS_Subset
  <2>5. Cardinality(InScope(Live, z)') \in Nat  BY <2>4, FS_CardinalityType
  <2>6. Cardinality(InScope(Live, z)) <= ScopeTicketsMax  BY DEF TicketBounds
  <2> QED BY <2>3, <2>4, <2>5, <2>6, ConstantsAssumption
<1> QED BY <1>10, <1>11, <1>12 DEF TicketBounds

(* Outstanding tickets stay within both caps, whichever of the two rules    *)
(* prunes them and however many expire, are used or are refused between.    *)
THEOREM TicketsAreCapped == Spec => []TicketBounds
<1>1. Init => TicketBounds
  <2> SUFFICES ASSUME Init PROVE TicketBounds  OBVIOUS
  <2>1. Live = {}  BY DEF Init, Live
  <2>2. \A s : InScope(Live, s) = {}  BY <2>1 DEF InScope
  <2> QED BY <2>1, <2>2, FS_EmptySet, ConstantsAssumption DEF TicketBounds
<1>2. TypeOK /\ TicketBounds /\ [Next]_vars => TicketBounds'
  <2> SUFFICES ASSUME TypeOK, TicketBounds, [Next]_vars PROVE TicketBounds'  OBVIOUS
  <2>1. CASE UNCHANGED vars \/ Reload \/ Tick
    <3>1. tickets' = tickets  BY <2>1 DEF vars, Reload, Tick
    <3> QED BY <3>1, FewerTickets DEF Live
  <2>2. CASE \E s \in PreviewScope, x \in Text, V \in SUBSET Value : Mint(s, x, V)
    BY <2>2, MintKeepsCaps
  <2>3. ASSUME NEW r \in Req, Handling(r) PROVE TicketBounds'
    BY <2>3, TicketsStep, FewerTickets
  <2> QED BY <2>1, <2>2, <2>3 DEF Next, Handling
<1> QED BY <1>1, <1>2, TypeCorrect, PTL DEF Spec
=============================================================================
