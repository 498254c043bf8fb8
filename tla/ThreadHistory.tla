--------------------------- MODULE ThreadHistory ---------------------------
(***************************************************************************)
(* The life of one chat thread of the gateway: the transcript that browser *)
(* views of its owner save against a revision, its deferred and undoable   *)
(* deletion, the retention of a deleted thread until its purge date, its   *)
(* restoration by the records role, and the values protected in it.        *)
(*                                                                         *)
(* A storage operation is one transaction and one step, as the row lock it *)
(* takes first makes it, except where it reads before it locks: a deletion *)
(* reads the policy first, a change of protected values its thread and the *)
(* values there are.  On PGlite the latter two run without interleaving,   *)
(* which is one of the behaviours here.  Threads do not interact: another  *)
(* one's deletion only makes a pending deletion start early.               *)
(*                                                                         *)
(* A transcript is the set of its messages; titles, model settings, traces *)
(* and the records role's reading are left out.  A definition whose        *)
(* comment starts with "Fault" is used by no action.                       *)
(***************************************************************************)
EXTENDS Integers, Sequences, FiniteSets, SequencesExt

CONSTANTS
    View,           \* mounted chat views of the thread, in whatever tabs
    Sidebar,        \* sidebars that may delete it, one per tab
    Msg,            \* messages
    Value,          \* values that may be protected in the thread
    MaxSelected,    \* how many may be
    Preview,        \* protection previews that change them
    Policies,       \* recovery periods an administrator may set; 0 is off
    MaxTime,        \* bound on the clock: its last instant stands for all later
    MaxEvents       \* bound on the lifecycle events after which none is deleted

ASSUME ConstantsAssumption ==
    /\ Policies \subseteq Nat /\ Policies # {}
    /\ MaxTime \in Nat /\ MaxEvents \in Nat /\ MaxSelected \in Nat

VARIABLES
    state,          \* the thread's row: absent, live or retained
    revision, stored, purgeAfter,   \* its columns and messages
    selected,       \* its protected values, in a table of their own
    audit,          \* its lifecycle events
    policy,         \* the recovery period in force
    now,            \* the clock
    removed,        \* observed: its row was there and was removed
    created,        \* some view has made up this thread's id
    opened, shown,  \* per view, whether it is mounted, and what it displays
    expected,       \* per view, the revision its saver holds
    last,           \* per view, the last snapshot it enqueued
    queue,          \* per view, snapshots behind the save under way
    waiting, stuck, \* per view, a save is under way; one has failed
    wire,           \* per view, the save on its way to the server
    met,            \* observed: per view, the messages it ever displayed
    deleting,       \* per sidebar, how far its deletion is
    draft           \* per preview, the change it is about to write

row == <<state, revision, stored, purgeAfter>>
world == <<policy, now>>
display == <<created, opened, shown, met>>
saver == <<expected, last, queue, waiting, stuck, wire>>
vars == <<state, revision, stored, purgeAfter, selected, audit, policy, now, removed, created,
          opened, shown, expected, last, queue, waiting, stuck, wire, met, deleting, draft>>

Transcript == SUBSET Msg
Save == [snapshot : Transcript, expected : Nat]
NoSave == [snapshot |-> {}, expected |-> 0]     \* a snapshot is never empty
Change == [add : SUBSET Value, remove : SUBSET Value, seen : SUBSET Value]
NoChange == [add |-> {}, remove |-> {}, seen |-> {}]

(* idle, to be undone, asked of the server, or in its hands with the       *)
(* recovery period it has read.                                            *)
Deletion == [step : {"idle", "pending", "asked", "deciding"}, days : Policies \cup {0}]
Stage(s) == [step |-> s, days |-> 0]

TypeOK ==
    /\ state \in {"absent", "live", "retained"}
    /\ revision \in Nat /\ stored \in Transcript /\ purgeAfter \in 0..MaxTime
    /\ selected \in SUBSET Value
    /\ audit \in Seq({"deleted", "restored", "purged"})
    /\ policy \in Policies /\ now \in 0..MaxTime
    /\ removed \in BOOLEAN /\ created \in BOOLEAN
    /\ opened \in [View -> BOOLEAN] /\ shown \in [View -> Transcript]
    /\ expected \in [View -> Nat] /\ last \in [View -> Transcript]
    /\ queue \in [View -> Seq(Transcript)]
    /\ waiting \in [View -> BOOLEAN] /\ stuck \in [View -> BOOLEAN]
    /\ wire \in [View -> Save]
    /\ met \in [View -> Transcript]
    /\ deleting \in [Sidebar -> Deletion]
    /\ draft \in [Preview -> Change]

Init ==
    /\ state = "absent" /\ revision = 0 /\ stored = {} /\ purgeAfter = 0
    /\ selected = {} /\ audit = <<>>
    /\ policy \in Policies /\ now = 0
    /\ removed = FALSE /\ created = FALSE
    /\ opened = [v \in View |-> FALSE]
    /\ shown = [v \in View |-> {}] /\ met = [v \in View |-> {}]
    /\ expected = [v \in View |-> 0] /\ last = [v \in View |-> {}]
    /\ queue = [v \in View |-> <<>>]
    /\ waiting = [v \in View |-> FALSE] /\ stuck = [v \in View |-> FALSE]
    /\ wire = [v \in View |-> NoSave]
    /\ deleting = [b \in Sidebar |-> Stage("idle")]
    /\ draft = [p \in Preview |-> NoChange]

-----------------------------------------------------------------------------
(* Views.                                                                  *)

(* The blank page makes up an id, which no other view can know.            *)
NewChat(v) ==
    /\ ~created /\ ~opened[v]
    /\ created' = TRUE
    /\ opened' = [opened EXCEPT ![v] = TRUE]
    /\ UNCHANGED <<row, selected, audit, world, removed, shown, met, saver, deleting, draft>>

(* The thread's page is mounted with what its loader has fetched; one that *)
(* comes from the router's cache is a view that was idle since the fetch.  *)
LoadChat(v) ==
    /\ state = "live" /\ ~opened[v]
    /\ opened' = [opened EXCEPT ![v] = TRUE]
    /\ shown' = [shown EXCEPT ![v] = stored]
    /\ met' = [met EXCEPT ![v] = stored]
    /\ last' = [last EXCEPT ![v] = stored]
    /\ expected' = [expected EXCEPT ![v] = revision]
    /\ UNCHANGED <<row, selected, audit, world, removed, created, queue, waiting, stuck, wire,
                   deleting, draft>>

(* The user sends, the model answers, an answer is stopped or regenerated. *)
Converse(v) ==
    /\ opened[v]
    /\ \E D \in SUBSET shown[v], N \in SUBSET (Msg \ UNION {met[w] : w \in View}) :
         /\ D \cup N # {}
         /\ shown' = [shown EXCEPT ![v] = (@ \ D) \cup N]
         /\ met' = [met EXCEPT ![v] = @ \cup N]
    /\ UNCHANGED <<row, selected, audit, world, removed, created, opened, saver, deleting, draft>>

(* persistSnapshot: a snapshot is enqueued once; behind a failed save it   *)
(* fails too, without being sent.                                          *)
PersistSnapshot(v) ==
    /\ shown[v] # {} /\ shown[v] # last[v]
    /\ last' = [last EXCEPT ![v] = shown[v]]
    /\ queue' = IF stuck[v] THEN queue ELSE [queue EXCEPT ![v] = Append(@, shown[v])]
    /\ UNCHANGED <<row, selected, audit, world, removed, display, expected, waiting, stuck, wire,
                   deleting, draft>>

SendSave(v) ==
    /\ queue[v] # <<>> /\ ~waiting[v]
    /\ wire' = [wire EXCEPT ![v] = [snapshot |-> Head(queue[v]), expected |-> expected[v]]]
    /\ waiting' = [waiting EXCEPT ![v] = TRUE]
    /\ queue' = [queue EXCEPT ![v] = Tail(@)]
    /\ UNCHANGED <<row, selected, audit, world, removed, display, expected, last, stuck,
                   deleting, draft>>

(* A save, whether it failed or not, may still be on its way when its view *)
(* takes it for failed.                                                    *)
Forsake(v) == \/ UNCHANGED wire
              \/ wire' = [wire EXCEPT ![v] = NoSave]

(* Fault: the queue goes on after a failed save.                           *)
LoseConnectionGoesOn(v) ==
    /\ waiting[v]
    /\ waiting' = [waiting EXCEPT ![v] = FALSE]
    /\ Forsake(v)
    /\ UNCHANGED <<row, selected, audit, world, removed, display, expected, last, queue, stuck,
                   deleting, draft>>

Fail(v) ==
    /\ waiting' = [waiting EXCEPT ![v] = FALSE]
    /\ stuck' = [stuck EXCEPT ![v] = TRUE]
    /\ queue' = [queue EXCEPT ![v] = <<>>]

LoseConnection(v) ==
    /\ waiting[v]
    /\ Fail(v)
    /\ Forsake(v)
    /\ UNCHANGED <<row, selected, audit, world, removed, display, expected, last, deleting, draft>>

-----------------------------------------------------------------------------
(* saveThreadSnapshot.  A thread can be created only from revision zero;   *)
(* one that is there takes a save only while it is live and unchanged.     *)

CreatesAlways(s) == state = "absent"                    \* Fault: an upsert
Creates(s) == state = "absent" /\ s.expected = 0

OverwritesAny(s) == state = "live"                      \* Fault: no revision check
OverwritesRetained(s) == state # "absent" /\ revision = s.expected   \* Fault
Overwrites(s) == state = "live" /\ revision = s.expected

(* The view that waits for the answer hears it, or is left waiting.        *)
SaveLands(v) ==
    /\ wire[v] # NoSave
    /\ wire' = [wire EXCEPT ![v] = NoSave]
    /\ \/ /\ Creates(wire[v]) \/ Overwrites(wire[v])
          /\ state' = "live"
          /\ revision' = wire[v].expected + 1
          /\ stored' = wire[v].snapshot
          /\ UNCHANGED purgeAfter
          /\ \/ /\ waiting[v]
                /\ waiting' = [waiting EXCEPT ![v] = FALSE]
                /\ expected' = [expected EXCEPT ![v] = revision']
             \/ UNCHANGED <<waiting, expected>>
          /\ UNCHANGED <<stuck, queue>>
       \/ /\ ~Creates(wire[v]) /\ ~Overwrites(wire[v])
          /\ (waiting[v] /\ Fail(v)) \/ UNCHANGED <<waiting, stuck, queue>>
          /\ UNCHANGED <<row, expected>>
    /\ UNCHANGED <<selected, audit, world, removed, display, last, deleting, draft>>

-----------------------------------------------------------------------------
(* Deletion.  The sidebar's list, which may be old, shows the thread once  *)
(* a view has enqueued a snapshot of it.                                   *)

Listed == \E v \in View : last[v] # {}

Move(b, from, to) ==
    /\ deleting[b].step = from
    /\ deleting' = [deleting EXCEPT ![b] = to]

ScheduleDeletion(b) ==
    /\ Listed
    /\ Move(b, "idle", Stage("pending"))
    /\ UNCHANGED <<row, selected, audit, world, removed, display, saver, draft>>

CancelDeletion(b) ==
    /\ Move(b, "pending", Stage("idle"))
    /\ UNCHANGED <<row, selected, audit, world, removed, display, saver, draft>>

(* The grace period is over, or another deletion or the page's end cuts it *)
(* short.                                                                  *)
CommitDeletion(b) ==
    /\ Move(b, "pending", Stage("asked"))
    /\ UNCHANGED <<row, selected, audit, world, removed, display, saver, draft>>

(* The request does not reach the server; the sidebar lists the thread     *)
(* again.                                                                  *)
DeletionFails(b) ==
    /\ Move(b, "asked", Stage("idle"))
    /\ UNCHANGED <<row, selected, audit, world, removed, display, saver, draft>>

DecideDeletion(b) ==
    /\ Move(b, "asked", [step |-> "deciding", days |-> policy])
    /\ UNCHANGED <<row, selected, audit, world, removed, display, saver, draft>>

Horizon(t) == IF t < MaxTime THEN t ELSE MaxTime

RetirableAgain == state # "absent"                      \* Fault: also a retained one
Retirable == state = "live"

RetireThread(b) ==
    /\ deleting[b].days > 0
    /\ Move(b, "deciding", Stage("idle"))
    /\ Len(audit) < MaxEvents
    /\ IF Retirable
       THEN /\ state' = "retained"
            /\ purgeAfter' = Horizon(now + deleting[b].days)
            /\ audit' = Append(audit, "deleted")
            /\ UNCHANGED <<revision, stored>>
       ELSE UNCHANGED <<row, audit>>
    /\ UNCHANGED <<selected, world, removed, display, saver, draft>>

RemoveRow ==
    /\ state' = "absent" /\ revision' = 0 /\ stored' = {} /\ purgeAfter' = 0
    /\ removed' = TRUE
    /\ selected' = {}

(* With recovery off the protected values go whatever becomes of the row.  *)
RemoveThread(b) ==
    /\ deleting[b].days = 0
    /\ Move(b, "deciding", Stage("idle"))
    /\ \/ state = "live" /\ RemoveRow
       \/ state # "live" /\ selected' = {} /\ UNCHANGED <<row, removed>>
    /\ UNCHANGED <<audit, world, display, saver, draft>>

-----------------------------------------------------------------------------
(* Retention.                                                              *)

(* Fault: a period is stored as it comes.                                  *)
PatchPolicyUnvalidated ==
    /\ policy' \in (Policies \cup {-1}) \ {policy}
    /\ UNCHANGED <<row, selected, audit, now, removed, display, saver, deleting, draft>>

PatchPolicy ==
    /\ policy' \in Policies \ {policy}
    /\ UNCHANGED <<row, selected, audit, now, removed, display, saver, deleting, draft>>

Tick ==
    /\ now < MaxTime
    /\ now' = now + 1
    /\ UNCHANGED <<row, selected, audit, policy, removed, display, saver, deleting, draft>>

RestoreRetained ==
    /\ state = "retained" /\ purgeAfter > now
    /\ state' = "live" /\ purgeAfter' = 0
    /\ audit' = Append(audit, "restored")
    /\ UNCHANGED <<revision, stored, selected, world, removed, display, saver, deleting, draft>>

Due == purgeAfter <= now

Sweep ==
    /\ state = "retained" /\ Due
    /\ RemoveRow
    /\ audit' = Append(audit, "purged")
    /\ UNCHANGED <<world, display, saver, deleting, draft>>

-----------------------------------------------------------------------------
(* Protected values.                                                       *)

ReadSelections(p) ==
    /\ draft[p] = NoChange
    /\ state # "retained"
    /\ \E A, R \in SUBSET Value :
         /\ A \cup R # {}
         /\ Cardinality((selected \ R) \cup A) <= MaxSelected
         /\ draft' = [draft EXCEPT ![p] = [add |-> A, remove |-> R, seen |-> selected]]
    /\ UNCHANGED <<row, selected, audit, world, removed, display, saver, deleting>>

(* A value that was there when they were read is not inserted again.       *)
WriteSelections(p) ==
    LET c == draft[p]
    IN  /\ c # NoChange
        /\ selected' = (selected \ c.remove) \cup (c.add \ (c.seen \ c.remove))
        /\ draft' = [draft EXCEPT ![p] = NoChange]
        /\ UNCHANGED <<row, audit, world, removed, display, saver, deleting>>

AbandonedOrNot == TRUE                                  \* Fault: any old selection
Abandoned == state = "absent"

(* Which of them are old enough is not modelled.                           *)
PruneAbandoned ==
    /\ Abandoned
    /\ selected' \in SUBSET selected
    /\ UNCHANGED <<row, audit, world, removed, display, saver, deleting, draft>>

-----------------------------------------------------------------------------
Chat(v) == NewChat(v) \/ LoadChat(v) \/ Converse(v)

Saving(v) == PersistSnapshot(v) \/ SendSave(v) \/ LoseConnection(v) \/ SaveLands(v)

Deleting(b) == \/ ScheduleDeletion(b) \/ CancelDeletion(b)
               \/ CommitDeletion(b) \/ DeletionFails(b) \/ DecideDeletion(b)
               \/ RetireThread(b) \/ RemoveThread(b)

Next ==
    \/ \E v \in View : Chat(v) \/ Saving(v)
    \/ \E b \in Sidebar : Deleting(b)
    \/ \E p \in Preview : ReadSelections(p) \/ WriteSelections(p)
    \/ PatchPolicy \/ Tick \/ RestoreRetained \/ Sweep \/ PruneAbandoned

Spec == Init /\ [][Next]_vars

-----------------------------------------------------------------------------
(* Properties                                                              *)

(* A message leaves the stored transcript only with its row, or by a save  *)
(* of a view that has displayed it: no tab drops a turn it never saw,      *)
(* however late its saves arrive.                                          *)
NoTurnLost ==
    [][state' # "absent" =>
         \A m \in stored \ stored' :
            \E v \in View : wire[v] # NoSave /\ wire'[v] = NoSave /\ m \in met[v]]_vars

(* A view whose saver holds the current revision, has nothing under way    *)
(* and no failed save shows the user what is stored: no snapshot is ever   *)
(* lost in silence.                                                        *)
SavedOrStuck ==
    \A v \in View :
        (/\ opened[v] /\ state = "live" /\ expected[v] = revision
         /\ ~stuck[v] /\ ~waiting[v] /\ queue[v] = <<>>)
        => stored = last[v]

(* A retained transcript is sealed: until it is restored or its purge date *)
(* has come it stays as it was deleted, whatever saves, deletions and      *)
(* policy changes come late.                                               *)
RetainedSealed ==
    [][state = "retained" =>
         \/ state' # "absent" /\ stored' = stored /\ revision' = revision
            /\ (state' = "retained" => purgeAfter' = purgeAfter)
         \/ state' = "absent" /\ purgeAfter <= now]_vars

(* A thread that was removed does not come back, not even by a save that   *)
(* was on its way when it was removed.                                     *)
GoneForGood == removed => state = "absent"

(* The lifecycle events tell where the thread is, and none is told twice.  *)
AuditTells ==
    /\ state = "retained" <=> audit # <<>> /\ Last(audit) = "deleted"
    /\ \A i \in 1..(Len(audit) - 1) :
         audit[i] # "purged" /\ (audit[i] = "deleted" <=> audit[i + 1] # "deleted")

(* What was deleted is gone for good, and the events say what became of it. *)
RemovalIsFinal == GoneForGood /\ AuditTells

(* The values the user protected in a thread stay as long as its row,      *)
(* unless a preview removes them.                                          *)
SelectionsKept(where) ==
    state \in where /\ state' # "absent" =>
        \A x \in selected \ selected' :
            \E p \in Preview : draft'[p] # draft[p] /\ x \in draft[p].remove

LiveKeepsSelections == [][SelectionsKept({"live"})]_vars

(* Nothing but a preview changes what a live thread protects, and nothing   *)
(* but its restoration or its purge a retained thread.                     *)
ContentsHold == RetainedSealed /\ LiveKeepsSelections

(* Of a retained thread: its "chat-specific protected values remain in the *)
(* live database until the deletion-time purge date".                      *)
RetainedKeepsSelections == [][SelectionsKept({"retained"})]_vars
=============================================================================
