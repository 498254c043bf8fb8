--------------------------- MODULE ProtectionTrend ---------------------------
(* How what the proxy counts becomes the daily trend of the gateway: the stats
   recorder of one proxy run, whose snapshot is cumulative, and the ingestion
   that adds to the day what is new since the run's checkpoint.

   Every chat turn reads a snapshot without waiting for it, an administrator's
   page reads more, and each ingestion is a transaction of several statements:
   snapshots may arrive out of order and, on Postgres, overlap.  A proxy that
   restarts counts from nothing under a new start time.

   The stats path and the ninety days a trend is kept do not matter here; the
   counts stand for all the totals of a snapshot. *)
EXTENDS Naturals, FiniteSets, Sequences

CONSTANTS
    Unseen,       \* no checkpoint
    Requests,     \* requests of a proxy run
    Outcomes,     \* what a pass may do: [redacted, surviving, blocked]
    Runs,         \* proxy runs, numbered
    MaxEvents,    \* bound: events of a run
    MaxSnapshots, \* bound: snapshots read
    Serialized    \* transactions run one at a time (PGlite)

ASSUME TrendAssumption ==
    /\ Outcomes \subseteq [redacted : Nat, surviving : Nat, blocked : BOOLEAN]
    /\ IsFiniteSet(Runs) /\ Runs = 1..Cardinality(Runs) /\ Runs # {}
    /\ Unseen \notin [{"requests", "kept", "blocked"} -> Nat]

VARIABLES
    run,          \* the proxy run
    events,       \* ProtectionStats.events of the run
    ingests,      \* snapshots on their way: run, totals, phase, the checkpoint they read
    checkpoint,   \* protection_stats_checkpoints: run -> last totals
    daily,        \* protection_stats_daily: what the ingestions of a run added to its days
    arrived,      \* ghost: run -> the totals ingested so far
    orderly,      \* ghost: no snapshot was overtaken or overlapped
    snapshots     \* snapshots read so far

trendVars == <<run, events, ingests, checkpoint, daily, arrived, orderly, snapshots>>

(***************************************************************************)
(* ProtectionStats.                                                        *)
(***************************************************************************)

\* record: nothing is counted for a request nothing happened to.
Counts(o) == o.redacted > 0 \/ o.surviving > 0 \/ o.blocked

Record(request, o) ==
    /\ Counts(o) /\ Len(events) < MaxEvents
    /\ events' = Append(events, [request |-> request, redacted |-> o.redacted,
                                 surviving |-> o.surviving, blocked |-> o.blocked])
    /\ UNCHANGED <<run, ingests, checkpoint, daily, arrived, orderly, snapshots>>

\* What a block holds back is kept out of the model too.
KeptOut(e) == e.redacted + (IF e.blocked THEN e.surviving ELSE 0)

\* ProtectionStats.totals: a request counts once, whatever its passes recorded,
\* and a value each time it was kept out.
Totals ==
    [requests |-> Cardinality({events[i].request : i \in DOMAIN events}),
     kept     |-> Cardinality(UNION {{i} \X (1..KeptOut(events[i])) : i \in DOMAIN events}),
     blocked  |-> Cardinality({events[i].request : i \in {j \in DOMAIN events : events[j].blocked}})]

Restart ==
    /\ run < Cardinality(Runs)
    /\ run' = run + 1
    /\ events' = <<>>
    /\ UNCHANGED <<ingests, checkpoint, daily, arrived, orderly, snapshots>>

(***************************************************************************)
(* The gateway.                                                            *)
(***************************************************************************)

Zero == [requests |-> 0, kept |-> 0, blocked |-> 0]

Snapshot ==
    /\ snapshots < MaxSnapshots
    /\ snapshots' = snapshots + 1
    /\ ingests' = ingests \cup {[id |-> snapshots + 1, run |-> run, totals |-> Totals,
                                 phase |-> "fetched", seen |-> Unseen]}
    /\ UNCHANGED <<run, events, checkpoint, daily, arrived, orderly>>

\* A mutant: a counter that went back is taken off.
SignedDelta(t, seen) == IF seen = Unseen THEN t ELSE [b \in DOMAIN t |-> t[b] - seen[b]]

\* protectionStatsDelta
Delta(t, seen) ==
    IF seen = Unseen THEN t
    ELSE [b \in DOMAIN t |-> IF t[b] > seen[b] THEN t[b] - seen[b] ELSE 0]

\* The transaction of an ingestion starts by reading the run's checkpoint.
ReadCheckpoint(s) ==
    /\ s.phase = "fetched"
    /\ Serialized => \A q \in ingests : q.phase # "read"
    /\ ingests' = (ingests \ {s}) \cup {[s EXCEPT !.phase = "read", !.seen = checkpoint[s.run]]}
    /\ orderly' = (orderly /\ \A q \in ingests \ {s} : q.run = s.run => q.phase = "fetched" /\ q.id > s.id)
    /\ UNCHANGED <<run, events, checkpoint, daily, arrived, snapshots>>

Ingest(s) ==
    /\ s.phase = "read"
    /\ ingests' = ingests \ {s}
    /\ checkpoint' = [checkpoint EXCEPT ![s.run] = s.totals]
    /\ \E new \in {Delta(s.totals, s.seen)} :
         daily' = [daily EXCEPT ![s.run] = [b \in DOMAIN new |-> @[b] + new[b]]]
    /\ arrived' = [arrived EXCEPT ![s.run] = @ \cup {s.totals}]
    /\ UNCHANGED <<run, events, orderly, snapshots>>

\* The proxy does not answer in time, or the write fails: the turn goes on.
Lose(s) ==
    /\ ingests' = ingests \ {s}
    /\ UNCHANGED <<run, events, checkpoint, daily, arrived, orderly, snapshots>>

TrendInit ==
    /\ run = 1 /\ events = <<>> /\ ingests = {} /\ snapshots = 0
    /\ checkpoint = [r \in Runs |-> Unseen]
    /\ daily = [r \in Runs |-> Zero]
    /\ arrived = [r \in Runs |-> {}]
    /\ orderly = TRUE

TrendNext ==
    \/ Restart \/ Snapshot
    \/ \E q \in Requests, o \in Outcomes : Record(q, o)
    \/ \E s \in ingests : ReadCheckpoint(s) \/ Ingest(s) \/ Lose(s)

TrendSpec == TrendInit /\ [][TrendNext]_trendVars

(***************************************************************************)
(* Properties.                                                             *)
(***************************************************************************)

\* The trend never shows less than a snapshot it took in, and exactly the last
\* one when snapshots came one after another (store.server.ts,
\* ingestProtectionStatsSnapshot).
TrendCovers ==
    \A r \in Runs :
        /\ \A t \in arrived[r], b \in DOMAIN Zero : daily[r][b] >= t[b]
        /\ orderly /\ arrived[r] # {} => daily[r] = checkpoint[r]

\* test/storage.test.ts: "does not double-count repeated snapshots or subtract
\* counter regressions".
\* Refuted by TLC (README, refuted claims).
TrendCountsOnce == \A r \in Runs : \A b \in DOMAIN Zero :
    r = run => daily[r][b] <= Totals[b]
=============================================================================
