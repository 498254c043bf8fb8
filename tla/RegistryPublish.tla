--------------------------- MODULE RegistryPublish ---------------------------
(* The protected registry on its way from the administrators of the gateway
   to the running proxy.

   A gateway process keeps the entries in its database.  A publication runs
   alone in the process's queue: it reads the file that is there, renders the
   approved entries under a new revision, puts the new file in place by a
   rename, asks the proxy to reload and waits, not for ever, for the proxy to
   name that revision; when the proxy refuses the file, the earlier one is put
   back.  An export writes the file and asks nobody.  Two gateway processes
   that share a database share the file and not the queue.

   The proxy reads the file through a cache that trusts the time and the size
   of the file.  A reload empties the cache, and then asks the loader four
   times: for the values, the records, the discovery lines and the counts it
   answers with.  The handler does not yield, but the file may be renamed by
   another process between any two of them.  Only records with new identifiers
   become active; what is active stays until the process ends.

   Not here: other configured files, a path the two sides disagree about, the
   edits of the entries (a task may find any approved entries) and entries that
   are not approved, which no file holds.  A start is one step.               *)
EXTENDS Naturals, FiniteSets, FiniteSetsExt, Sequences, Functions

CONSTANTS Gateway,       \* gateway processes over one database and one file
          Approved,      \* what the approved entries may be when they are read:
                         \* functions from identifiers to [kind, canonical, forms]
          Unusable,      \* values the proxy's roster refuses (too short, token prefix)
          Required,      \* the deployment refuses to work without a registry
          None,
          MaxRevisions,  \* bound: files rendered
          MaxQueue,      \* bound: tasks waiting in one process
          MaxStarts      \* bound: starts of the proxy

ASSUME ApprovedAssumption ==
    \A e \in Approved : \A i \in DOMAIN e : e[i].kind \in {"literal", "entity"}

ASSUME NoneAssumption == None \notin Nat

VARIABLES
    file,      \* the managed registry file: a generation, or None
    revisions, \* revisions made so far
    gateways,  \* per process: the waiting tasks and the one that runs
    told,      \* per process: what the last finished publication reported
    asked,     \* reload requests on their way to the proxy
    replies,   \* answers on their way back
    proxy,     \* the running proxy: what it protects and where its handler is
    cache,     \* the loader's memo in the proxy
    request,   \* a provider request in the proxy: the registry its proof names
    mixed,     \* two processes have run tasks at the same time
    unjudged   \* a task has ended with a file in place that no proxy accepted

vars == <<file, revisions, gateways, told, asked, replies, proxy,
          cache, request, mixed, unjudged>>

(***************************************************************************)
(* Files and records.                                                      *)
(***************************************************************************)

Surfaces(r) == {r.canonical} \cup r.forms

AllSurfaces(recs) == UNION {Surfaces(recs[k]) : k \in DOMAIN recs}

Literal(v) == [kind |-> "literal", canonical |-> v, forms |-> {}]

\* The entries of a file: an entity with its other forms, and a literal as one
\* record for its value and one for each of its other forms.
Rendered(approved) ==
    LET forms(i)  == approved[i].forms \ {approved[i].canonical}
        entity(i) == approved[i].kind = "entity"
        keys      == {<<i>> : i \in DOMAIN approved}
                     \cup UNION {{<<i, v>> : v \in forms(i)} :
                                   i \in {j \in DOMAIN approved : ~entity(j)}}
    IN  [k \in keys |->
           IF Len(k) = 2 THEN Literal(k[2])
           ELSE IF entity(k[1]) THEN [approved[k[1]] EXCEPT !.forms = forms(k[1])]
           ELSE Literal(approved[k[1]].canonical)]

\* What the file may hold: entries as they were approved when they were read.
Generations == [rev : Nat, recs : {Rendered(approved) : approved \in Approved}]

ASSUME GenerationAssumption == None \notin Generations

\* What both sides require of a file: a canonical name or a literal belongs to
\* one record; two entities may share another form.
WellFormed(recs) ==
    \A j, k \in DOMAIN recs :
        j # k => /\ recs[j].canonical \notin Surfaces(recs[k])
                 /\ recs[k].canonical \notin Surfaces(recs[j])

Entities(recs) == {k \in DOMAIN recs : recs[k].kind = "entity"}

\* What only the proxy requires: names its roster can hold.
Usable(recs) ==
    \A k \in Entities(recs) : Surfaces(recs[k]) \cap Unusable = {}

SharedForms(recs) ==
    {v \in AllSurfaces(recs) :
        Cardinality({k \in Entities(recs) : v \in recs[k].forms}) > 1}

\* The records the loader makes of a file: a form that several entities claim
\* is linked to none of them and becomes a literal of its own.
Loaded(recs) ==
    LET shared == SharedForms(recs)
        keys   == DOMAIN recs \cup {<<None, v>> : v \in shared}
    IN  [k \in keys |->
           IF k \in DOMAIN recs
           THEN [recs[k] EXCEPT !.forms = @ \ shared]
           ELSE Literal(k[2])]

Nothing == <<>>

RecordsOf(f) == IF f = None THEN Nothing ELSE f.recs
Accepted(f) == f # None => Usable(f.recs)

(***************************************************************************)
(* The loader of the proxy.                                                *)
(***************************************************************************)

\* A rename that gives the file another time or size makes the memo stale.
\* Within one millisecond, and at the same length, it does not.
Replaced(f) ==
    /\ file' = f
    /\ cache' \in {cache, [cache EXCEPT !.hit = FALSE]}

\* The memo after the loader was asked once more, when the file can be read.
Refreshed ==
    IF cache.hit THEN cache
    ELSE [hit |-> TRUE, recs |-> Loaded(RecordsOf(file)),
          rev |-> IF file = None THEN None ELSE file.rev]

LoadFails == ~cache.hit /\ ~Accepted(file)

\* A mutant: the memo is kept when the file looks the same.
ResetNothing == cache

ResetCache == [cache EXCEPT !.hit = FALSE]
RetainCache == [cache EXCEPT !.hit = TRUE]

(***************************************************************************)
(* A gateway process: one task at a time.                                  *)
(***************************************************************************)

Idle == [pc |-> "idle", op |-> None, previous |-> None, recs |-> Nothing, rev |-> None]
Quiet(g) == gateways[g].task.pc = "idle"
Task(g) == gateways[g].task
At(g, pc) == Task(g).pc = pc

GoOn(g, task) == gateways' = [gateways EXCEPT ![g].task = task]
End(g) == GoOn(g, Idle)

Unrendered(g) == Len(gateways[g].queue) + (IF At(g, "list") THEN 1 ELSE 0)

\* A click: the task waits for the ones before it.
Submit(g, op) ==
    /\ Len(gateways[g].queue) < MaxQueue
    /\ revisions + MapThenSumSet(Unrendered, Gateway) < MaxRevisions
    /\ gateways' = [gateways EXCEPT ![g].queue = Append(@, op)]
    /\ UNCHANGED <<file, revisions, told, asked, replies, proxy,
                   cache, request, mixed, unjudged>>

\* The next task begins, whether the one before it succeeded or threw.  A
\* publication remembers the file that is there.
Begin(g) ==
    /\ Quiet(g)
    /\ gateways[g].queue # <<>>
    /\ gateways' = [gateways EXCEPT ![g] =
                      [queue |-> Tail(gateways[g].queue),
                       task  |-> [Idle EXCEPT !.pc = "list", !.op = Head(gateways[g].queue),
                                              !.previous = file]]]
    /\ mixed' = (mixed \/ \E h \in Gateway \ {g} : ~Quiet(h))
    /\ UNCHANGED <<file, revisions, told, asked, replies, proxy,
                   cache, request, unjudged>>

\* A mutant: a conflict leaves the queue on a task that never settles.
RenderStuck(g) ==
    /\ At(g, "list")
    /\ \E approved \in Approved :
          IF WellFormed(Rendered(approved))
          THEN /\ GoOn(g, [Task(g) EXCEPT !.pc = "write", !.recs = Rendered(approved),
                                          !.rev = revisions + 1])
               /\ revisions' = revisions + 1
          ELSE GoOn(g, [Task(g) EXCEPT !.pc = "thrown"]) /\ UNCHANGED revisions
    /\ UNCHANGED <<file, told, asked, replies, proxy, cache, request, mixed, unjudged>>

\* The approved entries, as the administrators have left them by now, are read
\* and rendered; a conflict ends the task.
Render(g) ==
    /\ At(g, "list")
    /\ \E approved \in Approved :
          IF WellFormed(Rendered(approved))
          THEN /\ GoOn(g, [Task(g) EXCEPT !.pc = "write", !.recs = Rendered(approved),
                                          !.rev = revisions + 1])
               /\ revisions' = revisions + 1
          ELSE End(g) /\ UNCHANGED revisions
    /\ UNCHANGED <<file, told, asked, replies, proxy, cache, request,
                   mixed, unjudged>>

\* The file is written beside the old one and renamed over it.
Write(g) ==
    /\ At(g, "write")
    /\ Replaced([rev |-> Task(g).rev, recs |-> Task(g).recs])
    /\ IF Task(g).op = "export"
       THEN End(g) /\ unjudged' = TRUE
       ELSE GoOn(g, [Task(g) EXCEPT !.pc = "ask"]) /\ UNCHANGED unjudged
    /\ UNCHANGED <<revisions, told, asked, replies, proxy, request, mixed>>

\* The write fails: the temporary file is removed and the task throws.
WriteFails(g) ==
    /\ At(g, "write")
    /\ End(g)
    /\ UNCHANGED <<file, revisions, told, asked, replies, proxy,
                   cache, request, mixed, unjudged>>

\* The proxy is asked to reload, if it is there.
Ask(g) ==
    /\ At(g, "ask")
    /\ GoOn(g, [Task(g) EXCEPT !.pc = "wait"])
    /\ asked' = asked \cup {[from |-> g, rev |-> Task(g).rev]}
    /\ UNCHANGED <<file, revisions, told, replies, proxy, cache,
                   request, mixed, unjudged>>

\* What the administrator reads; start is the process that answered.
Report(g, result, restart, start) ==
    told' = [told EXCEPT ![g] = [result |-> result, restart |-> restart, start |-> start,
                                 recs |-> Task(g).recs, mixed |-> mixed]]

\* The answer is read: the revision must be the one that was published.
Answer(g) ==
    \E r \in replies :
        /\ At(g, "wait") /\ r.to = g
        /\ replies' = replies \ {r}
        /\ CASE r.status = "refused" ->
                    /\ GoOn(g, [Task(g) EXCEPT !.pc = "rollback"])
                    /\ UNCHANGED <<told, unjudged>>
             [] r.status = "reloaded" /\ r.confirmed ->
                    Report(g, "ok", r.restart, r.start) /\ End(g) /\ UNCHANGED unjudged
             [] r.status = "reloaded" /\ ~r.confirmed ->
                    Report(g, "not_applied", FALSE, 0) /\ End(g) /\ unjudged' = TRUE
             [] r.status = "failed" ->
                    Report(g, "bad_response", FALSE, 0) /\ End(g) /\ unjudged' = TRUE
        /\ UNCHANGED <<file, revisions, asked, proxy, cache, request, mixed>>

\* No answer in time, or no proxy to ask: the file stays.
GiveUp(g) ==
    /\ At(g, "wait")
    /\ Report(g, "unreachable", FALSE, 0)
    /\ End(g)
    /\ unjudged' = TRUE
    /\ replies' = {r \in replies : r.to # g}
    /\ UNCHANGED <<file, revisions, asked, proxy, cache,
                   request, mixed>>

\* A mutant: the refusal is reported and the file stays.
RollBackNothing(g) ==
    /\ At(g, "rollback")
    /\ Report(g, "rolled_back", FALSE, 0)
    /\ End(g)
    /\ UNCHANGED <<file, cache, revisions, asked, replies, proxy, request, mixed, unjudged>>

\* The file the proxy refused gives way to the one that was there before.
RollBack(g) ==
    /\ At(g, "rollback")
    /\ Replaced(Task(g).previous)
    /\ Report(g, "rolled_back", FALSE, 0)
    /\ End(g)
    /\ UNCHANGED <<revisions, asked, replies, proxy, request, mixed, unjudged>>

RollBackFails(g) ==
    /\ At(g, "rollback")
    /\ Report(g, "source_error", FALSE, 0)
    /\ End(g)
    /\ unjudged' = TRUE
    /\ UNCHANGED <<file, revisions, asked, replies, proxy, cache,
                   request, mixed>>

\* The process ends: its tasks are gone, wherever they were.
Crash(g) ==
    /\ ~Quiet(g)
    /\ gateways' = [gateways EXCEPT ![g] = [queue |-> <<>>, task |-> Idle]]
    /\ unjudged' = (unjudged \/ Task(g).pc \in {"ask", "wait", "rollback"})
    /\ replies' = {r \in replies : r.to # g}
    /\ UNCHANGED <<file, revisions, told, asked, proxy,
                   cache, request, mixed>>

(***************************************************************************)
(* The proxy.                                                              *)
(***************************************************************************)

\* The answer reaches the process that still waits for it.
Reply(status, confirmed, restart) ==
    LET g == proxy.call.from
    IN  replies' = IF At(g, "wait") /\ Task(g).rev = proxy.call.rev
                   THEN replies \cup {[to |-> g, status |-> status, confirmed |-> confirmed,
                                       restart |-> restart, start |-> proxy.starts]}
                   ELSE replies

HandlerAt(pc) == proxy.up /\ proxy.pc = pc
Return == [proxy EXCEPT !.pc = "idle", !.call = None, !.loaded = Nothing, !.restart = FALSE]

Refuse ==
    /\ Reply("refused", FALSE, FALSE)
    /\ cache' = RetainCache
    /\ proxy' = Return

\* A reload begins: the memo is dropped whatever it says.
Reload(r) ==
    /\ HandlerAt("idle")
    /\ r \in asked
    /\ asked' = asked \ {r}
    /\ cache' = ResetCache
    /\ proxy' = [proxy EXCEPT !.pc = "values", !.call = r]
    /\ UNCHANGED <<file, revisions, gateways, told, replies, request,
                   mixed, unjudged>>

LoadValues ==
    /\ HandlerAt("values")
    /\ IF LoadFails THEN Refuse
       ELSE /\ cache' = Refreshed
            /\ proxy' = [proxy EXCEPT !.pc = "records"]
            /\ UNCHANGED replies
    /\ UNCHANGED <<file, revisions, gateways, told, asked, request,
                   mixed, unjudged>>

LoadRecords ==
    /\ HandlerAt("records")
    /\ IF LoadFails THEN Refuse
       ELSE /\ cache' = Refreshed
            /\ proxy' = [proxy EXCEPT !.pc = "discover", !.loaded = Refreshed.recs]
            /\ UNCHANGED replies
    /\ UNCHANGED <<file, revisions, gateways, told, asked, request,
                   mixed, unjudged>>

\* The status of the source; a file that cannot be read now is reported there.
Discover ==
    /\ HandlerAt("discover")
    /\ cache' = IF LoadFails THEN cache ELSE Refreshed
    /\ proxy' = [proxy EXCEPT !.pc = "apply", !.errored = LoadFails \/ file = None]
    /\ UNCHANGED <<file, revisions, gateways, told, asked, replies,
                   request, mixed, unjudged>>

\* The records that become active: those with identifiers that are not.
NewRecords(next) == Restrict(next, DOMAIN next \ DOMAIN proxy.active)

\* What is active stays as it is; records with other identifiers join it.
Extended(next) ==
    [k \in DOMAIN proxy.active \cup DOMAIN next |->
        IF k \in DOMAIN proxy.active THEN proxy.active[k] ELSE next[k]]

\* A mutant: only what is gone waits for a restart.
DeferredGone(next) == \E k \in DOMAIN proxy.active : k \notin DOMAIN next

\* Whether something active is gone from the file or changed in it.
Deferred(next) ==
    \E k \in DOMAIN proxy.active : k \notin DOMAIN next \/ next[k] # proxy.active[k]

\* A mutant: the file replaces what is active.
ReloadReplacing ==
    /\ HandlerAt("apply")
    /\ proxy' = [proxy EXCEPT !.pc      = "counts",
                              !.active  = proxy.loaded,
                              !.values  = AllSurfaces(proxy.loaded),
                              !.restart = FALSE]
    /\ UNCHANGED <<file, revisions, gateways, told, asked, replies, cache, request,
                   mixed, unjudged>>

ReloadRegistryValues ==
    /\ HandlerAt("apply")
    /\ proxy' = [proxy EXCEPT !.pc      = "counts",
                              !.active  = Extended(proxy.loaded),
                              !.values  = @ \cup AllSurfaces(NewRecords(proxy.loaded)),
                              !.restart = Deferred(proxy.loaded)]
    /\ UNCHANGED <<file, revisions, gateways, told, asked, replies,
                   cache, request, mixed, unjudged>>

\* The answer: the loader is asked a last time for what it has.
Counts ==
    /\ HandlerAt("counts")
    /\ IF LoadFails
       THEN Reply("failed", FALSE, FALSE) /\ UNCHANGED cache
       ELSE /\ Reply("reloaded", Refreshed.rev = proxy.call.rev, proxy.restart)
            /\ cache' = Refreshed
    /\ proxy' = Return
    /\ UNCHANGED <<file, revisions, gateways, told, asked, request,
                   mixed, unjudged>>

\* The proxy ends; what it was asked is lost.
Stop ==
    /\ proxy.up
    /\ proxy' = [Return EXCEPT !.up = FALSE, !.active = Nothing, !.values = {},
                               !.errored = FALSE]
    /\ cache' = [hit |-> FALSE, recs |-> Nothing, rev |-> None]
    /\ asked' = {}
    /\ request' = None
    /\ UNCHANGED <<file, revisions, gateways, told, replies, mixed, unjudged>>

\* The proxy starts on the file that is there; a file it refuses ends it.
Start ==
    /\ ~proxy.up
    /\ proxy.starts < MaxStarts
    /\ Accepted(file)
    /\ cache' = Refreshed
    /\ proxy' = [proxy EXCEPT !.up = TRUE, !.starts = @ + 1,
                              !.active = Refreshed.recs,
                              !.values = AllSurfaces(Refreshed.recs),
                              !.errored = file = None]
    /\ UNCHANGED <<file, revisions, gateways, told, asked, replies,
                   request, mixed, unjudged>>

\* A provider request passes the gate: its proof will name the registry of now.
Admit ==
    /\ HandlerAt("idle") /\ request = None
    /\ Required => ~proxy.errored /\ proxy.values # {}
    /\ request' = AllSurfaces(proxy.active)
    /\ UNCHANGED <<file, revisions, gateways, told, asked, replies,
                   proxy, cache, mixed, unjudged>>

\* It is redacted, after awaits, with what is registered then, and sent.
Send ==
    /\ HandlerAt("idle") /\ request # None
    /\ request' = None
    /\ UNCHANGED <<file, revisions, gateways, told, asked, replies,
                   proxy, cache, mixed, unjudged>>

Init ==
    /\ file = None
    /\ revisions = 0
    /\ gateways = [g \in Gateway |-> [queue |-> <<>>, task |-> Idle]]
    /\ told = [g \in Gateway |-> None]
    /\ asked = {} /\ replies = {}
    /\ proxy = [up |-> FALSE, starts |-> 0, pc |-> "idle", call |-> None,
                active |-> Nothing, values |-> {}, loaded |-> Nothing,
                restart |-> FALSE, errored |-> FALSE]
    /\ cache = [hit |-> FALSE, recs |-> Nothing, rev |-> None]
    /\ request = None
    /\ mixed = FALSE /\ unjudged = FALSE

GatewayStep(g) ==
    \/ Begin(g) \/ Render(g) \/ Write(g) \/ Ask(g) \/ Answer(g) \/ GiveUp(g) \/ RollBack(g)

ProxyStep ==
    \/ \E r \in asked : Reload(r)
    \/ LoadValues \/ LoadRecords \/ Discover \/ ReloadRegistryValues \/ Counts

Next ==
    \/ \E g \in Gateway :
          \/ \E op \in {"publish", "export"} : Submit(g, op)
          \/ GatewayStep(g)
          \/ WriteFails(g) \/ RollBackFails(g) \/ Crash(g)
    \/ ProxyStep
    \/ Stop \/ Start \/ Admit \/ Send

\* A task never waits for ever: files and the database answer, and the timer of
\* a reload runs out.
Spec == Init /\ [][Next]_vars /\ \A g \in Gateway : WF_vars(GatewayStep(g))

(***************************************************************************)
(* What must hold.                                                         *)
(***************************************************************************)

AtMostTwo == \A a, b, c \in Gateway : a = b \/ b = c \/ a = c

\* A publication the administrator was told is verified, with nothing left for
\* a restart, is in force: the proxy that answered protects every value of the
\* file, whatever another process did to it between rename and answer
\* (protected-registry.ts 260-293, server.ts 618-662).  Three processes can
\* break it: the file of the first is replaced by a second and a third, the
\* third's is refused, also to the second, and is taken back; the reload of the
\* first loads the records of the second's file; then the second takes its file
\* back too, and the counts name the revision of the first.
VerifiedIsProtected ==
    \A g \in Gateway :
        told[g] # None /\ told[g].result = "ok" /\ ~told[g].restart
            /\ proxy.up /\ proxy.starts = told[g].start
            /\ (told[g].mixed => AtMostTwo)
        => AllSurfaces(Loaded(told[g].recs)) \subseteq proxy.values

\* While one process works on the file, what a publication reports is about its
\* own file: it is taken back only if the proxy cannot use it, and the proxy is
\* never found to have read another (rollBackRejectedRegistry, 217-234;
\* resetManagedRegistryFilePluginCache).
VerdictIsAboutMine ==
    \A g \in Gateway :
        told[g] # None /\ ~told[g].mixed
        => /\ told[g].result \in {"rolled_back", "source_error"} => ~Usable(told[g].recs)
           /\ told[g].result # "not_applied"

\* As long as every file was judged by a proxy before its task ended, a proxy
\* can start on the file that is there whenever no task runs
\* (protected-registry.ts 131-140, 211-216).
JudgedFileStarts ==
    ~mixed /\ ~unjudged /\ (\A g \in Gateway : Quiet(g)) => Accepted(file)

\* The registry a request was admitted under, which its proof names, protects
\* it when it is redacted later, although reloads may come between (server.ts
\* 668, 733; DELETIONS ARE INTENTIONALLY NOT PROCESSED, engine.ts 294-296).
NamedRegistryHolds == request # None => request \subseteq proxy.values

\* What an administrator is told of a publication, and what a proof names of a
\* request, is what the proxy does.
VerdictHolds == VerifiedIsProtected /\ VerdictIsAboutMine /\ NamedRegistryHolds

\* A click is served: the queue empties, whatever the tasks before it met
\* (SerialTaskQueue, private-file.server.ts 54-68; RELOAD_TIMEOUT_MS).
QueueDrains == \A g \in Gateway : gateways[g].queue # <<>> ~> gateways[g].queue = <<>>

\* What the settings page says of a publication (ProtectedRegistrySection.tsx
\* 243-245): "New values and forms apply immediately."
NewFormsApply ==
    \A g \in Gateway :
        told[g] # None /\ told[g].result = "ok" /\ proxy.up /\ proxy.starts = told[g].start
        => AllSurfaces(Loaded(told[g].recs)) \subseteq proxy.values

\* What the settings page says of a refused one (lines 320-323): "The previous
\* file was restored, so the proxy keeps its current protection and will still
\* start."
\* Refuted by TLC (README, refuted claims).
RolledBackStarts ==
    [][\A g \in Gateway :
          told'[g] # told[g] /\ told'[g].result = "rolled_back" /\ ~mixed
          => Accepted(file')]_vars
=============================================================================
