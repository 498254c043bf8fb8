---------------------------- MODULE EgressLedger ----------------------------
(* What the gateway keeps of a chat's requests and of its deletion: the ledger
   of egress proofs, each row chained to the one before, and the records audit,
   under a retention policy an administrator may change at any time.

   A proof is asked of the proxy when a turn ends and appended in a transaction
   of several statements; turns end in any order, and on Postgres two appends
   may overlap.  The sweep runs hourly, with the policy it read at its start.

   One chat of one workspace.  A hash is stood for by the event whose row it
   is: it covers the event and the hash before it.  Days are the unit of time;
   proofs of one day are told apart by their identifiers, as in the code those
   of one millisecond.  The statements of one sweep run on one day; the audit's
   records of restoring and purging are left out. *)
EXTENDS Naturals, FiniteSets

CONSTANTS
    Nothing,      \* no previous row, no sweep
    Turns,        \* identifiers of egress events, ordered as numbers
    Policies,     \* what the retention form may ask for: [recovery, audit], 0 for none
    Longest,      \* a period no policy exceeds
    LastDay,      \* bound: days that pass
    Readings,     \* bound: times a proof is read
    OneByOne      \* transactions run one at a time (PGlite)

VARIABLES
    now,        \* the day
    policy,     \* instance settings: deletedThreadRecoveryDays, recordsAuditRetentionDays
    chat,       \* phase, deletedAt, purgeAfter
    deleting,   \* the recovery period a deletion has read, or Nothing
    audit,      \* records_audit_events: the days of the chat's deletions
    turns,      \* event -> how far its turn is, when its proof was made, readings left
    appends,    \* transactions under way: the event, the previous row they read
    ledger,     \* thread_egress_events: [id, at, prev]
    sweep,      \* the audit period a sweep runs with, or Nothing
    inOrder,    \* ghost: rows came one after another, each after the proof it names
    least       \* ghost: the shortest audit period asked for since the deletion began

ASSUME LedgerAssumption ==
    /\ Turns \subseteq Nat /\ Nothing \notin Nat
    /\ Longest \in Nat /\ Readings \in Nat
    /\ Policies \subseteq [recovery : 0 .. Longest, audit : 0 .. Longest]

ledgerVars == <<now, policy, chat, deleting, audit, turns, appends, ledger, sweep, inOrder, least>>

AuditPeriod(p) == IF p.audit = 0 THEN Longest ELSE p.audit
Lesser(a, b) == IF a < b THEN a ELSE b

Live == [phase |-> "live", deletedAt |-> 0, purgeAfter |-> 0]

LedgerInit ==
    /\ now = 0
    /\ policy = [recovery |-> 0, audit |-> 0]
    /\ chat = Live
    /\ deleting = Nothing /\ audit = {}
    /\ turns = [t \in Turns |-> [phase |-> "idle", at |-> 0, left |-> Readings]]
    /\ appends = {} /\ ledger = {} /\ sweep = Nothing
    /\ inOrder = TRUE /\ least = Longest

Tomorrow ==
    /\ now < LastDay /\ sweep = Nothing
    /\ now' = now + 1
    /\ UNCHANGED <<policy, chat, deleting, audit, turns, appends, ledger, sweep, inOrder, least>>

(***************************************************************************)
(* The policy.                                                             *)
(***************************************************************************)

\* A mutant: the two periods are checked each by itself.
AnyPeriods(p) == TRUE

\* updateInstanceSettings: evidence outlives recovery.
PolicyAllowed(p) == p.recovery = 0 \/ (p.audit # 0 /\ p.audit >= p.recovery)

\* The form sends both periods, or clears recovery alone.
ChangePolicy(p) ==
    /\ PolicyAllowed(p) /\ p # policy
    /\ p.recovery = 0 => p.audit = policy.audit
    /\ policy' = p
    /\ least' = Lesser(least, AuditPeriod(p))
    /\ UNCHANGED <<now, chat, deleting, audit, turns, appends, ledger, sweep, inOrder>>

(***************************************************************************)
(* Deletion and recovery of the chat.                                      *)
(***************************************************************************)

BeginDelete ==
    /\ chat.phase = "live" /\ deleting = Nothing
    /\ deleting' = policy.recovery
    /\ least' = Longest
    /\ UNCHANGED <<now, policy, chat, audit, turns, appends, ledger, sweep, inOrder>>

Delete ==
    /\ deleting # Nothing
    /\ deleting' = Nothing
    /\ IF deleting = 0
       THEN /\ chat' = [chat EXCEPT !.phase = "gone"]
            /\ UNCHANGED audit
       ELSE /\ chat' = [phase |-> "retained", deletedAt |-> now, purgeAfter |-> now + deleting]
            /\ audit' = audit \cup {now}
    /\ UNCHANGED <<now, policy, turns, appends, ledger, sweep, inOrder, least>>

Recoverable == chat.phase = "retained" /\ chat.purgeAfter > now

Restore ==
    /\ Recoverable
    /\ chat' = Live
    /\ UNCHANGED <<now, policy, deleting, audit, turns, appends, ledger, sweep, inOrder, least>>

(***************************************************************************)
(* Turns and their evidence.                                               *)
(***************************************************************************)

\* The chat route answers live chats only; the proxy stamps the proof.
Turn(t) ==
    /\ chat.phase = "live" /\ turns[t].phase = "idle"
    /\ turns' = [turns EXCEPT ![t].phase = "proved", ![t].at = now]
    /\ UNCHANGED <<now, policy, chat, deleting, audit, appends, ledger, sweep, inOrder, least>>

RowOf(t) == {r \in ledger : r.id = t}

Before(r, s) == r.at < s.at \/ (r.at = s.at /\ r.id < s.id)

\* A mutant: the first row found is the previous one.
OldestRow ==
    IF ledger = {} THEN Nothing
    ELSE (CHOOSE r \in ledger : \A s \in ledger \ {r} : Before(r, s)).id

\* The latest row by time of occurrence, then by identifier.
LatestRow ==
    IF ledger = {} THEN Nothing
    ELSE (CHOOSE r \in ledger : \A s \in ledger \ {r} : Before(s, r)).id

\* The proof is read, which may fail, and the transaction starts: a known event
\* is left alone, for any other the previous row is looked up.
BeginAppend(t) ==
    /\ turns[t].phase = "proved" /\ turns[t].left > 0
    /\ OneByOne => appends = {}
    /\ turns' = [turns EXCEPT ![t].left = @ - 1]
    /\ \/ appends' = appends
       \/ /\ RowOf(t) = {}
          /\ appends' = appends \cup {[id |-> t, left |-> turns[t].left, prev |-> LatestRow]}
    /\ UNCHANGED <<now, policy, chat, deleting, audit, ledger, sweep, inOrder, least>>

Proof(t) == [id |-> t, at |-> turns[t].at]

\* Ghost: the row comes after all the others, and after the one it names even if
\* that has expired.
Follows(row) ==
    /\ \A r \in ledger : Before(r, row)
    /\ row.prev # Nothing => Before(Proof(row.prev), row)

\* The row is inserted; a second row of the event breaks the key, and the
\* failure is only logged.
InsertRow(a) ==
    /\ appends' = appends \ {a}
    /\ LET row == [id |-> a.id, at |-> turns[a.id].at, prev |-> a.prev]
       IN  IF RowOf(a.id) # {}
           THEN UNCHANGED <<ledger, inOrder>>
           ELSE /\ ledger' = ledger \cup {row}
                /\ inOrder' = (inOrder /\ appends = {a} /\ Follows(row))
    /\ UNCHANGED <<now, policy, chat, deleting, audit, turns, sweep, least>>

(***************************************************************************)
(* runRetentionSweep.                                                      *)
(***************************************************************************)

BeginSweep ==
    /\ sweep = Nothing
    /\ sweep' = policy.audit
    /\ UNCHANGED <<now, policy, chat, deleting, audit, turns, appends, ledger, inOrder, least>>

\* Due chats are purged first.
Purge ==
    /\ sweep # Nothing
    /\ chat.phase = "retained" /\ chat.purgeAfter <= now
    /\ chat' = [chat EXCEPT !.phase = "gone"]
    /\ UNCHANGED <<now, policy, deleting, audit, turns, appends, ledger, sweep, inOrder, least>>

Kept(at) == sweep = 0 \/ at + sweep >= now

Expire ==
    /\ sweep # Nothing
    /\ ~(chat.phase = "retained" /\ chat.purgeAfter <= now)
    /\ audit' = {day \in audit : Kept(day)}
    /\ ledger' = {r \in ledger : Kept(r.at)}
    /\ sweep' = Nothing
    /\ UNCHANGED <<now, policy, chat, deleting, turns, appends, inOrder, least>>

LedgerNext ==
    \/ Tomorrow \/ BeginDelete \/ Delete \/ Restore \/ BeginSweep \/ Purge \/ Expire
    \/ \E p \in Policies : ChangePolicy(p)
    \/ \E t \in Turns : Turn(t) \/ BeginAppend(t)
    \/ \E a \in appends : InsertRow(a)

LedgerSpec == LedgerInit /\ [][LedgerNext]_ledgerVars

(***************************************************************************)
(* Properties.                                                             *)
(***************************************************************************)

RowType == [id : Turns, at : Nat, prev : Turns \cup {Nothing}]
ChatType == [phase : {"live", "retained", "gone"}, deletedAt : Nat, purgeAfter : Nat]

LedgerTypeOK ==
    /\ now \in Nat /\ least \in Nat
    /\ policy \in [recovery : 0 .. Longest, audit : 0 .. Longest]
    /\ chat \in ChatType
    /\ deleting \in Nat \cup {Nothing} /\ sweep \in Nat \cup {Nothing}
    /\ audit \subseteq Nat
    /\ turns \in [Turns -> [phase : {"idle", "proved"}, at : Nat, left : Nat]]
    /\ appends \subseteq [id : Turns, left : Nat, prev : Turns \cup {Nothing}]
    /\ ledger \subseteq RowType
    /\ inOrder \in BOOLEAN

\* What is left of a chat's ledger reads back from its root: as long as the rows
\* came one after another in the order of their proofs, each row names the row
\* before it, and the first one names nothing or a row that has expired
\* (store.server.ts, appendThreadEgressEvent and runRetentionSweep).
ChainReadsBack ==
    inOrder => \A r \in ledger :
        LET earlier == {s \in ledger : Before(s, r)}
        IN  IF earlier = {} THEN r.prev = Nothing \/ RowOf(r.prev) = {}
            ELSE \E s \in earlier : r.prev = s.id /\ \A q \in earlier \ {s} : Before(q, s)

\* The same for rows that came in any order, which the code does not give.
\* Refuted by TLC (README, refuted claims).
RootCoversAll ==
    \A r \in ledger :
        (\A s \in ledger \ {r} : Before(s, r))
            => \A s \in ledger \ {r} : \E q \in ledger : q.prev = s.id

\* While a deleted chat can be recovered the audit says when it was deleted,
\* unless the audit period was shortened below the chat's own
\* (settings.ts, updateInstanceSettings; store.server.ts, deleteThread).
DeletionIsOnRecord ==
    Recoverable /\ chat.purgeAfter - chat.deletedAt <= least
        => chat.deletedAt \in audit

\* settings.ts: "Audit evidence must be retained at least as long as deleted chats."
\* Refuted: the two periods are compared with each other, never with the chats
\* deleted under an earlier period (README, refuted claims).
EvidenceOutlivesChat ==
    Recoverable => chat.deletedAt \in audit

\* The evidence of a chat can be read: its chain, while the rows came in the
\* order of their turns, and its deletion, while no audit period shorter than
\* its own recovery was asked for.
LedgerHolds == ChainReadsBack /\ DeletionIsOnRecord

=============================================================================
