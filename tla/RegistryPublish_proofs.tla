------------------------ MODULE RegistryPublish_proofs ------------------------
(* Proofs about RegistryPublish: for any number of gateway processes, any
   entries and any number of files, what an administrator is told of a
   publication is true of the running proxy (VerdictHolds), and a file that is
   left in place was accepted by a proxy (JudgedFileStarts).

   The argument has three layers.  The shape of the tasks and the messages:
   revisions are given once, a task is asked about at most once, and its answer
   finds it waiting.  What a revision stands for: wherever two files of one
   revision are met, their records are the same.  And the race between the
   handler of the proxy and the other process: a file comes back only by a
   roll-back, and the process that rolls back was refused while its own file was
   in place, so a handler that has read the records of another file does not
   meet the revision it was asked about afterwards.                           *)
EXTENDS RegistryPublish, TLAPS

USE ApprovedAssumption, NoneAssumption, GenerationAssumption

-----------------------------------------------------------------------------
(* Types                                                                    *)

Recs == {Rendered(approved) : approved \in Approved} \cup {Nothing}
LoadedRecs == {Loaded(r) : r \in Recs} \cup {Nothing}
Keys == UNION {DOMAIN l : l \in LoadedRecs}
Records == UNION {{l[k] : k \in DOMAIN l} : l \in LoadedRecs}
Actives == UNION {[D -> Records] : D \in SUBSET Keys}
Wordings == UNION {AllSurfaces(l) : l \in LoadedRecs}

Ops == {"publish", "export"}
TaskType ==
    [pc : {"idle", "list", "write", "ask", "wait", "rollback"}, op : Ops \cup {None},
     previous : Generations \cup {None}, recs : Recs, rev : Nat \cup {None}]
ToldType ==
    [result : {"ok", "not_applied", "bad_response", "unreachable", "rolled_back", "source_error"},
     restart : BOOLEAN, start : Nat, recs : Recs, mixed : BOOLEAN]
CallType == [from : Gateway, rev : Nat]
ReplyType ==
    [to : Gateway, status : {"refused", "reloaded", "failed"}, confirmed : BOOLEAN,
     restart : BOOLEAN, start : Nat]
Past == {"records", "discover", "apply", "counts"}
ProxyType ==
    [up : BOOLEAN, starts : Nat, pc : {"idle", "values"} \cup Past, call : CallType \cup {None},
     active : Actives, values : SUBSET Wordings, loaded : LoadedRecs, restart : BOOLEAN,
     errored : BOOLEAN]
CacheType == [hit : BOOLEAN, recs : LoadedRecs, rev : Nat \cup {None}]

TypeOK ==
    /\ file \in Generations \cup {None}
    /\ revisions \in Nat
    /\ gateways \in [Gateway -> [queue : Seq(Ops), task : TaskType]]
    /\ told \in [Gateway -> ToldType \cup {None}]
    /\ asked \subseteq CallType
    /\ replies \subseteq ReplyType
    /\ proxy \in ProxyType
    /\ cache \in CacheType
    /\ request \in (SUBSET Wordings) \cup {None}
    /\ mixed \in BOOLEAN /\ unjudged \in BOOLEAN

-----------------------------------------------------------------------------
(* The inductive invariant                                                  *)

Working(g) == Task(g).pc \in {"write", "ask", "wait", "rollback"}
Placed(g) == Task(g).pc \in {"ask", "wait", "rollback"}
Mine(g) == [rev |-> Task(g).rev, recs |-> Task(g).recs]

\* The generations somebody holds.
Held(x) ==
    /\ x # None
    /\ \/ x = file
       \/ \E g \in Gateway : x = Task(g).previous
       \/ \E g \in Gateway : Working(g) /\ x = Mine(g)

\* The handler of the proxy runs for this process, which still waits for it.
Serves(g) ==
    proxy.pc # "idle" /\ proxy.call.from = g /\ proxy.call.rev = Task(g).rev /\ At(g, "wait")

IsRefused(h) == At(h, "rollback") \/ \E r \in replies : r.to = h /\ r.status = "refused"

\* A task has a revision once it is rendered, and no other has the same.
Shapes ==
    /\ \A g \in Gateway :
          /\ Working(g) => Mine(g) \in Generations /\ Task(g).rev \in 1 .. revisions
          /\ ~Working(g) => Task(g).rev = None
    /\ \A g, h \in Gateway : Working(g) /\ Working(h) /\ Task(g).rev = Task(h).rev => g = h
    /\ proxy.pc # "idle" => proxy.up /\ proxy.call \in CallType
    /\ proxy.pc = "values" => ~cache.hit
    /\ ~proxy.up => request = None

\* Revisions are given once, and stand for the same records everywhere.
Contents ==
    /\ \A x : Held(x) => x.rev \in 1 .. revisions
    /\ \A x, y : Held(x) /\ Held(y) /\ x.rev = y.rev => x.recs = y.recs
    /\ cache.rev # None => cache.rev \in 1 .. revisions
    /\ \A x : Held(x) /\ cache.rev = x.rev => cache.recs = Loaded(x.recs)

\* What is rendered and not yet written is nowhere else.
Unwritten ==
    \A g \in Gateway : At(g, "write") =>
        /\ file # None => file.rev # Task(g).rev
        /\ \A h \in Gateway : Task(h).previous # None => Task(h).previous.rev # Task(g).rev
        /\ cache.rev # Task(g).rev

\* A task is asked about once, and answered once, while it waits.
Once ==
    /\ \A c \in asked : c.rev \in 1 .. revisions
    /\ proxy.pc # "idle" => proxy.call.rev \in 1 .. revisions /\ proxy.call \notin asked
    /\ \A g \in Gateway : Task(g).pc \in {"write", "ask"} =>
          /\ \A c \in asked : c.rev # Task(g).rev
          /\ proxy.pc # "idle" => proxy.call.rev # Task(g).rev
    /\ \A r \in replies :
          /\ At(r.to, "wait")
          /\ [from |-> r.to, rev |-> Task(r.to).rev] \notin asked
          /\ ~Serves(r.to)
          /\ r.start <= proxy.starts
    /\ \A r, s \in replies : r.to = s.to => r = s

\* While no two tasks have run at the same time, the file is that of the task.
Alone ==
    ~mixed =>
        /\ \A g, h \in Gateway : ~Quiet(g) /\ ~Quiet(h) => g = h
        /\ \A g \in Gateway :
              /\ Placed(g) => file = Mine(g)
              /\ IsRefused(g) => ~Usable(Task(g).recs)
              /\ Serves(g) => /\ cache.hit => cache.rev = Task(g).rev
                              /\ proxy.pc \in Past => Accepted(file)
              /\ \A r \in replies : r.to = g /\ r.status = "reloaded"
                                    => r.confirmed /\ Accepted(file)

\* As long as every task left a judged file, what is there, or will be put back,
\* was accepted.
Judged ==
    ~mixed /\ ~unjudged =>
        /\ (\A g \in Gateway : Quiet(g)) => Accepted(file)
        /\ \A g \in Gateway : ~Quiet(g) => Accepted(Task(g).previous)
        /\ \A g \in Gateway : Task(g).pc \in {"list", "write"} => file = Task(g).previous

\* Of two processes, the one that began last has its file in place; and it is
\* refused only for that file.
Overtaken ==
    AtMostTwo =>
        \A g, h \in Gateway :
            /\ g # h /\ Task(g).pc \in {"ask", "wait"} /\ Placed(h)
            /\ Task(h).previous # None /\ Task(h).previous.rev = Task(g).rev
            => /\ file = Mine(h)
               /\ IsRefused(h) => /\ ~Usable(Task(h).recs)
                                /\ ~(Serves(g) /\ proxy.pc \in Past)

\* The file the handler was asked about is gone for the handler.
Gone(g) ==
    /\ file # None => file.rev # Task(g).rev
    /\ cache.hit => cache.rev # Task(g).rev

\* What the handler has loaded is what it was asked about, or it will not meet
\* that revision any more.
InTouch ==
    \A g \in Gateway :
        Serves(g) /\ (mixed => AtMostTwo) =>
            /\ proxy.pc = "records" => (cache.hit => cache.rev = Task(g).rev) \/ Gone(g)
            /\ proxy.pc \in {"discover", "apply", "counts"} =>
                  proxy.loaded = Loaded(Task(g).recs) \/ Gone(g)

\* What is active is protected, and so is what a finished load left to add.
InForce ==
    /\ AllSurfaces(proxy.active) \subseteq proxy.values
    /\ proxy.pc = "counts" /\ ~proxy.restart => AllSurfaces(proxy.loaded) \subseteq proxy.values
    /\ request # None => request \subseteq proxy.values
    /\ \A r \in replies :
          /\ r.status = "reloaded" /\ r.confirmed /\ ~r.restart
          /\ proxy.up /\ proxy.starts = r.start /\ (mixed => AtMostTwo)
          => AllSurfaces(Loaded(Task(r.to).recs)) \subseteq proxy.values
    /\ \A g \in Gateway : told[g] # None => told[g].start <= proxy.starts

Inv ==
    /\ TypeOK /\ Shapes /\ Contents /\ Unwritten /\ Once /\ Alone /\ Judged /\ Overtaken
    /\ InTouch /\ InForce /\ VerdictHolds

-----------------------------------------------------------------------------
(* Types are kept                                                           *)

LEMMA LoadedActive == LoadedRecs \subseteq Actives
<1>1. ASSUME NEW l \in LoadedRecs PROVE l \in [DOMAIN l -> Records]
  <2>1. CASE \E r \in Recs : l = Loaded(r)
    <3>1. PICK r \in Recs : l = Loaded(r)  BY <2>1
    <3>2. l = [k \in DOMAIN l |-> l[k]]  BY <3>1 DEF Loaded
    <3>3. \A k \in DOMAIN l : l[k] \in Records  BY DEF Records
    <3> QED BY <3>2, <3>3
  <2>2. CASE l = Nothing
    <3>1. \A k \in DOMAIN l : l[k] \in Records  BY DEF Records
    <3>2. l = [k \in DOMAIN l |-> l[k]]  BY <2>2 DEF Nothing
    <3> QED BY <3>1, <3>2
  <2> QED BY <2>1, <2>2 DEF LoadedRecs
<1>2. ASSUME NEW l \in LoadedRecs PROVE DOMAIN l \in SUBSET Keys
  BY DEF Keys
<1> QED BY <1>1, <1>2 DEF Actives

\* What the loader answers with is a registry of some file.
LEMMA RefreshedTyped == ASSUME TypeOK PROVE Refreshed \in CacheType
<1>1. RecordsOf(file) \in Recs  BY DEF TypeOK, RecordsOf, Recs, Generations
<1>2. Loaded(RecordsOf(file)) \in LoadedRecs  BY <1>1 DEF LoadedRecs
<1>3. file # None => file.rev \in Nat  BY DEF TypeOK, Generations
<1> HIDE DEF LoadedRecs
<1> QED BY <1>2, <1>3 DEF TypeOK, Refreshed, CacheType

LEMMA GoOnEffect ==
    ASSUME TypeOK, NEW g \in Gateway, NEW t, GoOn(g, t)
    PROVE  /\ gateways'[g] = [queue |-> gateways[g].queue, task |-> t]
           /\ \A h \in Gateway \ {g} : gateways'[h] = gateways[h]
           /\ t \in TaskType => gateways' \in [Gateway -> [queue : Seq(Ops), task : TaskType]]
<1> DEFINE Q == Seq(Ops)
           T == TaskType
<1>1. gateways \in [Gateway -> [queue : Q, task : T]]  BY DEF TypeOK
<1>2. gateways' = [gateways EXCEPT ![g].task = t]  BY DEF GoOn
<1> HIDE DEF Q, T
<1>3. gateways[g] = [queue |-> gateways[g].queue, task |-> gateways[g].task]  BY <1>1
<1>4. gateways'[g] = [queue |-> gateways[g].queue, task |-> t]  BY <1>1, <1>2, <1>3
<1>5. \A h \in Gateway \ {g} : gateways'[h] = gateways[h]  BY <1>1, <1>2
<1>6. t \in T => gateways' \in [Gateway -> [queue : Q, task : T]]  BY <1>1, <1>2
<1> QED BY <1>4, <1>5, <1>6 DEF Q, T

LEMMA IdleTyped == Idle \in TaskType
BY DEF Idle, TaskType, Recs

LEMMA ReplyTyped ==
    ASSUME TypeOK, proxy.call \in CallType, NEW status \in {"refused", "reloaded", "failed"},
           NEW confirmed \in BOOLEAN, NEW restart \in BOOLEAN, Reply(status, confirmed, restart)
    PROVE  replies' \subseteq ReplyType
<1>1. [to |-> proxy.call.from, status |-> status, confirmed |-> confirmed,
       restart |-> restart, start |-> proxy.starts] \in ReplyType
  BY DEF TypeOK, CallType, ReplyType, ProxyType
<1> QED BY <1>1 DEF Reply, TypeOK

LEMMA ReturnTyped ==
    ASSUME TypeOK
    PROVE  Return \in ProxyType
BY DEF TypeOK, Return, ProxyType, LoadedRecs

LEMMA ReportTyped ==
    ASSUME TypeOK, NEW g \in Gateway, NEW restart \in BOOLEAN, NEW start \in Nat,
           NEW result \in {"ok", "not_applied", "bad_response", "unreachable", "rolled_back",
                           "source_error"},
           Report(g, result, restart, start)
    PROVE  told' \in [Gateway -> ToldType \cup {None}]
<1>1. [result |-> result, restart |-> restart, start |-> start,
       recs |-> Task(g).recs, mixed |-> mixed] \in ToldType
  BY DEF TypeOK, ToldType, TaskType, Task
<1> QED BY <1>1 DEF Report, TypeOK

LEMMA ReplacedTyped ==
    ASSUME TypeOK, NEW f \in Generations \cup {None}, Replaced(f)
    PROVE  file' \in Generations \cup {None} /\ cache' \in CacheType
<1>1. [cache EXCEPT !.hit = FALSE] \in CacheType  BY DEF TypeOK, CacheType
<1> QED BY <1>1 DEF Replaced, TypeOK

\* The surfaces of a part of a registry, and of a registry that grows by it.
LEMMA NewSurfaces ==
    ASSUME TypeOK, NEW l \in LoadedRecs
    PROVE  /\ AllSurfaces(NewRecords(l)) \subseteq AllSurfaces(l)
           /\ Extended(l) \in Actives
           /\ AllSurfaces(Extended(l)) = AllSurfaces(proxy.active) \cup AllSurfaces(NewRecords(l))
<1>1. \A k \in DOMAIN NewRecords(l) : k \in DOMAIN l /\ NewRecords(l)[k] = l[k]
  BY DEF NewRecords, Restrict
<1>2. AllSurfaces(NewRecords(l)) \subseteq AllSurfaces(l)
  BY <1>1 DEF AllSurfaces
<1>3. PICK D \in SUBSET Keys : proxy.active \in [D -> Records]
  BY DEF TypeOK, ProxyType, Actives
<1>4. PICK C \in SUBSET Keys : l \in [C -> Records]
  BY LoadedActive DEF Actives
<1>5. Extended(l) \in [D \cup C -> Records]  BY <1>3, <1>4 DEF Extended
<1>6. Extended(l) \in Actives  BY <1>3, <1>4, <1>5 DEF Actives
<1>7. DOMAIN Extended(l) = D \cup DOMAIN NewRecords(l)
  BY <1>3, <1>4 DEF Extended, NewRecords, Restrict
<1>8. /\ \A k \in D : Extended(l)[k] = proxy.active[k]
      /\ \A k \in DOMAIN NewRecords(l) : Extended(l)[k] = NewRecords(l)[k]
  BY <1>3, <1>4 DEF Extended, NewRecords, Restrict
<1>9. AllSurfaces(Extended(l)) = AllSurfaces(proxy.active) \cup AllSurfaces(NewRecords(l))
  BY <1>3, <1>7, <1>8 DEF AllSurfaces
<1> QED BY <1>2, <1>6, <1>9

LEMMA InitTyped == Init => TypeOK
<1> SUFFICES ASSUME Init PROVE TypeOK  OBVIOUS
<1>1. gateways \in [Gateway -> [queue : Seq(Ops), task : TaskType]]
  BY IdleTyped DEF Init
<1>2. proxy \in ProxyType
  <2>1. Nothing \in LoadedRecs  BY DEF LoadedRecs
  <2>2. Nothing \in Actives  BY <2>1, LoadedActive
  <2> HIDE DEF LoadedRecs, Actives, Nothing
  <2> QED BY <2>1, <2>2 DEF Init, ProxyType
<1>3. cache \in CacheType  BY DEF Init, CacheType, LoadedRecs
<1> QED BY <1>1, <1>2, <1>3 DEF Init, TypeOK

\* Steps of a gateway process.
LEMMA GatewayTyped ==
    ASSUME TypeOK, Shapes, NEW g \in Gateway,
           \/ \E op \in Ops : Submit(g, op)
           \/ GatewayStep(g) \/ WriteFails(g) \/ RollBackFails(g) \/ Crash(g)
    PROVE  TypeOK'
<1>1. Task(g) \in TaskType  BY DEF TypeOK, Task
<1>2. ASSUME NEW recs \in Recs, NEW rev \in Nat
      PROVE  [Task(g) EXCEPT !.pc = "write", !.recs = recs, !.rev = rev] \in TaskType
  <2> HIDE DEF Recs, Generations
  <2> QED BY <1>1, <1>2 DEF TaskType
<1>16. /\ [Task(g) EXCEPT !.pc = "ask"] \in TaskType
       /\ [Task(g) EXCEPT !.pc = "wait"] \in TaskType
       /\ [Task(g) EXCEPT !.pc = "rollback"] \in TaskType
  <2> HIDE DEF Recs, Generations
  <2> QED BY <1>1 DEF TaskType
<1>3. ASSUME NEW t \in TaskType, GoOn(g, t)
      PROVE  gateways' \in [Gateway -> [queue : Seq(Ops), task : TaskType]]
  BY <1>3, GoOnEffect
<1>4. ASSUME End(g) PROVE gateways' \in [Gateway -> [queue : Seq(Ops), task : TaskType]]
  BY <1>3, <1>4, IdleTyped DEF End
<1>5. CASE \E op \in Ops : Submit(g, op)
  <2>1. PICK op \in Ops : Submit(g, op)  BY <1>5
  <2>2. Append(gateways[g].queue, op) \in Seq(Ops)  BY DEF TypeOK
  <2>3. gateways' \in [Gateway -> [queue : Seq(Ops), task : TaskType]]
    BY <2>1, <2>2 DEF Submit, TypeOK
  <2> QED BY <2>1, <2>3 DEF Submit, TypeOK
<1>6. CASE Begin(g)
  <2>1. gateways[g].queue \in Seq(Ops) /\ gateways[g].queue # <<>>
    BY <1>6 DEF Begin, TypeOK
  <2>2. Head(gateways[g].queue) \in Ops /\ Tail(gateways[g].queue) \in Seq(Ops)  BY <2>1
  <2>3. [Idle EXCEPT !.pc = "list", !.op = Head(gateways[g].queue), !.previous = file] \in TaskType
    <3> HIDE DEF Recs, Generations
    <3> QED BY <2>2, IdleTyped DEF TaskType, TypeOK
  <2>4. gateways' \in [Gateway -> [queue : Seq(Ops), task : TaskType]]
    BY <1>6, <2>2, <2>3 DEF Begin, TypeOK
  <2> QED BY <1>6, <2>4 DEF Begin, TypeOK
<1>7. CASE Render(g)
  <2>1. PICK approved \in Approved :
           \/ /\ GoOn(g, [Task(g) EXCEPT !.pc = "write", !.recs = Rendered(approved),
                                         !.rev = revisions + 1])
              /\ revisions' = revisions + 1
           \/ End(g) /\ UNCHANGED revisions
    BY <1>7 DEF Render
  <2>2. Rendered(approved) \in Recs /\ revisions + 1 \in Nat  BY DEF Recs, TypeOK
  <2> HIDE DEF Recs
  <2>3. gateways' \in [Gateway -> [queue : Seq(Ops), task : TaskType]] /\ revisions' \in Nat
    <3>1. CASE End(g) /\ UNCHANGED revisions  BY <1>4, <3>1 DEF TypeOK
    <3>2. CASE /\ GoOn(g, [Task(g) EXCEPT !.pc = "write", !.recs = Rendered(approved),
                                          !.rev = revisions + 1])
               /\ revisions' = revisions + 1
      BY <1>2, <1>3, <2>2, <3>2
    <3> QED BY <2>1, <3>1, <3>2
  <2> QED BY <1>7, <2>3 DEF Render, TypeOK
<1>8. CASE Write(g)
  <2>1. gateways' \in [Gateway -> [queue : Seq(Ops), task : TaskType]]
    BY <1>16, <1>3, <1>4, <1>8 DEF Write
  <2>2. Mine(g) \in Generations  BY <1>8 DEF Shapes, Write, At, Working
  <2>3. file' \in Generations \cup {None} /\ cache' \in CacheType
    BY <1>8, <2>2, ReplacedTyped DEF Write, Mine
  <2>4. unjudged' \in BOOLEAN  BY <1>8 DEF Write, TypeOK
  <2> QED BY <1>8, <2>1, <2>3, <2>4 DEF Write, TypeOK
<1>9. CASE WriteFails(g)
  BY <1>4, <1>9 DEF WriteFails, TypeOK
<1>10. CASE Ask(g)
  <2>1. gateways' \in [Gateway -> [queue : Seq(Ops), task : TaskType]]
    BY <1>16, <1>3, <1>10 DEF Ask
  <2>2. Task(g).rev \in Nat  BY <1>10 DEF Shapes, Ask, At, Working, TypeOK
  <2>3. asked' \subseteq CallType  BY <1>10, <2>2 DEF Ask, TypeOK, CallType
  <2> QED BY <1>10, <2>1, <2>3 DEF Ask, TypeOK
<1>11. CASE Answer(g)
  <2>1. PICK r \in replies : Answer(g)!(r)  BY <1>11 DEF Answer
  <2>2. r \in ReplyType  BY DEF TypeOK
  <2>3. r.restart \in BOOLEAN /\ r.start \in Nat /\ r.confirmed \in BOOLEAN
        /\ r.status \in {"refused", "reloaded", "failed"}
    BY <2>2 DEF ReplyType
  <2>4. gateways' \in [Gateway -> [queue : Seq(Ops), task : TaskType]]
    BY <1>16, <1>3, <1>4, <2>1, <2>3
  <2>5. told' \in [Gateway -> ToldType \cup {None}]
    BY <2>1, <2>3, ReportTyped DEF TypeOK
  <2>6. unjudged' \in BOOLEAN  BY <2>1, <2>3 DEF TypeOK
  <2>7. replies' \subseteq ReplyType  BY <2>1 DEF TypeOK
  <2> QED BY <2>1, <2>4, <2>5, <2>6, <2>7 DEF TypeOK
<1>12. CASE GiveUp(g)
  <2>1. told' \in [Gateway -> ToldType \cup {None}]
    BY <1>12, ReportTyped DEF GiveUp
  <2> QED BY <1>4, <1>12, <2>1 DEF GiveUp, TypeOK
<1>13. CASE RollBack(g)
  <2>1. told' \in [Gateway -> ToldType \cup {None}]
    BY <1>13, ReportTyped DEF RollBack
  <2>2. Task(g).previous \in Generations \cup {None}  BY <1>1 DEF TaskType
  <2>3. file' \in Generations \cup {None} /\ cache' \in CacheType
    BY <1>13, <2>2, ReplacedTyped DEF RollBack
  <2> QED BY <1>4, <1>13, <2>1, <2>3 DEF RollBack, TypeOK
<1>14. CASE RollBackFails(g)
  <2>1. told' \in [Gateway -> ToldType \cup {None}]
    BY <1>14, ReportTyped DEF RollBackFails
  <2> QED BY <1>4, <1>14, <2>1 DEF RollBackFails, TypeOK
<1>15. CASE Crash(g)
  <2>1. gateways' \in [Gateway -> [queue : Seq(Ops), task : TaskType]]
    BY <1>15, IdleTyped DEF Crash, TypeOK
  <2> QED BY <1>15, <2>1 DEF Crash, TypeOK
<1> QED BY <1>5, <1>6, <1>7, <1>8, <1>9, <1>10, <1>11, <1>12, <1>13, <1>14, <1>15 DEF GatewayStep

\* Steps of the proxy.
LEMMA ProxyTyped ==
    ASSUME TypeOK, Shapes, ProxyStep \/ Stop \/ Start \/ Admit \/ Send
    PROVE  TypeOK'
<1>1. proxy \in ProxyType  BY DEF TypeOK
<1>2. Refreshed \in CacheType /\ Refreshed.recs \in LoadedRecs
  BY RefreshedTyped DEF CacheType
<1>3. RetainCache \in CacheType /\ ResetCache \in CacheType
  BY DEF TypeOK, CacheType, RetainCache, ResetCache
<1>4. \A l \in LoadedRecs : AllSurfaces(l) \in SUBSET Wordings  BY DEF Wordings
<1>5. proxy.pc # "idle" => proxy.call \in CallType  BY DEF Shapes
<1>6. ASSUME Refuse, proxy.pc # "idle"
      PROVE  replies' \subseteq ReplyType /\ cache' \in CacheType /\ proxy' \in ProxyType
  BY <1>3, <1>5, <1>6, ReplyTyped, ReturnTyped DEF Refuse
<1>7. Nothing \in LoadedRecs /\ Nothing \in Actives  BY LoadedActive DEF LoadedRecs
<1> HIDE DEF Nothing
<1>8. CASE \E r \in asked : Reload(r)
  <2>1. PICK r \in asked : Reload(r)  BY <1>8
  <2>2. r \in CallType  BY DEF TypeOK
  <2>3. proxy' \in ProxyType  BY <1>1, <2>1, <2>2 DEF Reload, ProxyType
  <2> QED BY <1>3, <2>1, <2>3 DEF Reload, TypeOK
<1>9. CASE LoadValues
  <2>1. proxy.pc # "idle"  BY <1>9 DEF LoadValues, HandlerAt
  <2>2. ~LoadFails => cache' \in CacheType /\ proxy' \in ProxyType /\ UNCHANGED replies
    BY <1>1, <1>2, <1>9 DEF LoadValues, ProxyType, Past
  <2> QED BY <1>6, <1>9, <2>1, <2>2 DEF LoadValues, TypeOK
<1>10. CASE LoadRecords
  <2>1. proxy.pc # "idle"  BY <1>10 DEF LoadRecords, HandlerAt, Past
  <2>2. ~LoadFails => cache' \in CacheType /\ proxy' \in ProxyType /\ UNCHANGED replies
    BY <1>1, <1>2, <1>10 DEF LoadRecords, ProxyType, Past
  <2> QED BY <1>6, <1>10, <2>1, <2>2 DEF LoadRecords, TypeOK
<1>11. CASE Discover
  <2>1. cache' \in CacheType  BY <1>2, <1>11 DEF Discover, TypeOK
  <2>2. proxy' \in ProxyType  BY <1>1, <1>11 DEF Discover, ProxyType, Past
  <2> QED BY <1>11, <2>1, <2>2 DEF Discover, TypeOK
<1>12. CASE ReloadRegistryValues
  <2>1. proxy.loaded \in LoadedRecs  BY <1>1 DEF ProxyType
  <2>2. Extended(proxy.loaded) \in Actives
        /\ AllSurfaces(NewRecords(proxy.loaded)) \in SUBSET Wordings
    BY <1>4, <2>1, NewSurfaces
  <2>3. Deferred(proxy.loaded) \in BOOLEAN  BY DEF Deferred
  <2>4. proxy' \in ProxyType
    BY <1>1, <1>12, <2>2, <2>3 DEF ReloadRegistryValues, ProxyType, Past
  <2> QED BY <1>12, <2>4 DEF ReloadRegistryValues, TypeOK
<1>13. CASE Counts
  <2>1. proxy.call \in CallType /\ proxy.restart \in BOOLEAN
    BY <1>1, <1>5, <1>13 DEF Counts, HandlerAt, Past, ProxyType
  <2>2. replies' \subseteq ReplyType
    BY <1>13, <2>1, ReplyTyped DEF Counts
  <2>3. cache' \in CacheType  BY <1>2, <1>13 DEF Counts, TypeOK
  <2>4. proxy' \in ProxyType  BY <1>13, ReturnTyped DEF Counts
  <2> QED BY <1>13, <2>2, <2>3, <2>4 DEF Counts, TypeOK
<1>14. CASE Stop
  <2>1. Return \in ProxyType  BY ReturnTyped
  <2>2. proxy' \in ProxyType  BY <1>7, <1>14, <2>1 DEF Stop, ProxyType
  <2>3. cache' \in CacheType  BY <1>7, <1>14 DEF Stop, CacheType
  <2> QED BY <1>14, <2>2, <2>3 DEF Stop, TypeOK
<1>15. CASE Start
  <2>1. Refreshed.recs \in Actives /\ AllSurfaces(Refreshed.recs) \in SUBSET Wordings
    BY <1>2, <1>4, LoadedActive
  <2> DEFINE Missing == file = None
  <2>2. proxy' = [proxy EXCEPT !.up = TRUE, !.starts = @ + 1, !.active = Refreshed.recs,
                               !.values = AllSurfaces(Refreshed.recs), !.errored = Missing]
    BY <1>15 DEF Start
  <2>3. Missing \in BOOLEAN  OBVIOUS
  <2> HIDE DEF Missing
  <2>5. ASSUME NEW a \in Actives, NEW w \in SUBSET Wordings, NEW e \in BOOLEAN
        PROVE  [proxy EXCEPT !.up = TRUE, !.starts = @ + 1, !.active = a, !.values = w,
                             !.errored = e] \in ProxyType
    <3>1. proxy.starts + 1 \in Nat  BY <1>1 DEF ProxyType
    <3> HIDE DEF Actives, Wordings, LoadedRecs, CallType
    <3> QED BY <1>1, <3>1 DEF ProxyType
  <2>4. proxy' \in ProxyType  BY <2>1, <2>2, <2>3, <2>5
  <2> QED BY <1>2, <1>15, <2>4 DEF Start, TypeOK
<1>16. CASE Admit
  <2>1. AllSurfaces(proxy.active) \subseteq Wordings
    <3>1. \A k \in DOMAIN proxy.active : \E l \in LoadedRecs : \E j \in DOMAIN l : proxy.active[k] = l[j]
      BY <1>1 DEF ProxyType, Actives, Records
    <3> QED BY <3>1 DEF AllSurfaces, Wordings
  <2> QED BY <1>16, <2>1 DEF Admit, TypeOK
<1>17. CASE Send  BY <1>17 DEF Send, TypeOK
<1> QED BY <1>8, <1>9, <1>10, <1>11, <1>12, <1>13, <1>14, <1>15, <1>16, <1>17 DEF ProxyStep

LEMMA StepTyped == ASSUME TypeOK, Shapes, [Next]_vars PROVE TypeOK'
<1>1. CASE UNCHANGED vars  BY <1>1 DEF vars, TypeOK
<1>2. CASE Next  BY <1>2, GatewayTyped, ProxyTyped DEF Next, Ops
<1> QED BY <1>1, <1>2

-----------------------------------------------------------------------------
(* What the steps do to the tasks                                           *)

Others(g) == \A h \in Gateway \ {g} : Task(h)' = Task(h)

LEMMA OwnTask ==
    ASSUME TypeOK, NEW g \in Gateway, NEW t, GoOn(g, t)
    PROVE  Task(g)' = t /\ Others(g)
<1>1. gateways'[g] = [queue |-> gateways[g].queue, task |-> t]  BY GoOnEffect
<1>2. \A h \in Gateway \ {g} : gateways'[h] = gateways[h]  BY GoOnEffect
<1> QED BY <1>1, <1>2 DEF Task, Others

LEMMA SubmitTasks ==
    ASSUME TypeOK, NEW g \in Gateway, NEW op, Submit(g, op)
    PROVE  \A h \in Gateway : Task(h)' = Task(h)
<1>1. gateways \in [Gateway -> [queue : Seq(Ops), task : TaskType]]  BY DEF TypeOK
<1>2. gateways' = [gateways EXCEPT ![g].queue = Append(@, op)]  BY DEF Submit
<1> QED BY <1>1, <1>2 DEF Task

LEMMA BeginTask ==
    ASSUME TypeOK, NEW g \in Gateway, Begin(g)
    PROVE  /\ Others(g)
           /\ Task(g)'.pc = "list" /\ Task(g)'.previous = file /\ Task(g)'.rev = None
           /\ Task(g)'.recs = Nothing
BY DEF Begin, TypeOK, Task, Others, Idle

LEMMA CrashTask ==
    ASSUME TypeOK, NEW g \in Gateway, Crash(g)
    PROVE  Task(g)' = Idle /\ Others(g)
BY DEF Crash, TypeOK, Task, Others

LEMMA RenderTask ==
    ASSUME TypeOK, NEW g \in Gateway, Render(g)
    PROVE  /\ Others(g)
           /\ \/ Task(g)' = Idle /\ UNCHANGED revisions
              \/ /\ \E approved \in Approved : Task(g)'.recs = Rendered(approved)
                 /\ Task(g)'.pc = "write" /\ Task(g)'.rev = revisions + 1
                 /\ Task(g)'.previous = Task(g).previous /\ revisions' = revisions + 1
<1> DEFINE T(approved) == [Task(g) EXCEPT !.pc = "write", !.recs = Rendered(approved),
                                          !.rev = revisions + 1]
<1>1. PICK approved \in Approved :
         \/ GoOn(g, T(approved)) /\ revisions' = revisions + 1
         \/ GoOn(g, Idle) /\ UNCHANGED revisions
  BY DEF Render, End
<1>2. Task(g) \in TaskType  BY DEF TypeOK, Task
<1>3. /\ T(approved).recs = Rendered(approved) /\ T(approved).pc = "write"
      /\ T(approved).rev = revisions + 1 /\ T(approved).previous = Task(g).previous
  BY <1>2 DEF TaskType
<1> HIDE DEF T
<1>4. CASE GoOn(g, T(approved)) /\ revisions' = revisions + 1
  BY <1>3, <1>4, OwnTask
<1>5. CASE GoOn(g, Idle) /\ UNCHANGED revisions
  BY <1>5, OwnTask
<1> QED BY <1>1, <1>4, <1>5

\* A task goes on with another step, and is otherwise the same.
Moves(g, pc) ==
    /\ Others(g)
    /\ Task(g)'.pc = pc
    /\ Task(g)'.rev = Task(g).rev /\ Task(g)'.recs = Task(g).recs
    /\ Task(g)'.previous = Task(g).previous

LEMMA MovedTask ==
    ASSUME TypeOK, NEW g \in Gateway, NEW pc, GoOn(g, [Task(g) EXCEPT !.pc = pc])
    PROVE  Moves(g, pc)
<1>1. Task(g) \in TaskType  BY DEF TypeOK, Task
<1>2. Task(g)' = [Task(g) EXCEPT !.pc = pc] /\ Others(g)  BY OwnTask
<1> QED BY <1>1, <1>2 DEF TaskType, Moves

LEMMA WriteTask ==
    ASSUME TypeOK, NEW g \in Gateway, Write(g)
    PROVE  \/ Moves(g, "ask") /\ UNCHANGED unjudged
           \/ Task(g)' = Idle /\ Others(g) /\ unjudged'
BY OwnTask, MovedTask DEF Write, End

LEMMA AskTask ==
    ASSUME TypeOK, NEW g \in Gateway, Ask(g)
    PROVE  Moves(g, "wait")
BY MovedTask DEF Ask

LEMMA EndTask ==
    ASSUME TypeOK, NEW g \in Gateway, WriteFails(g) \/ GiveUp(g) \/ RollBack(g) \/ RollBackFails(g)
    PROVE  Task(g)' = Idle /\ Others(g)
BY OwnTask DEF WriteFails, GiveUp, RollBack, RollBackFails, End

\* What reading an answer does, by the answer.
Reads(g, r) ==
    /\ At(g, "wait") /\ r.to = g
    /\ replies' = replies \ {r}
    /\ UNCHANGED <<file, revisions, asked, proxy, cache, request, mixed>>
    /\ \/ r.status = "refused" /\ Moves(g, "rollback") /\ UNCHANGED <<told, unjudged>>
       \/ /\ r.status = "reloaded" /\ r.confirmed
          /\ Report(g, "ok", r.restart, r.start)
          /\ Task(g)' = Idle /\ Others(g) /\ UNCHANGED unjudged
       \/ /\ r.status = "reloaded" /\ ~r.confirmed
          /\ Report(g, "not_applied", FALSE, 0)
          /\ Task(g)' = Idle /\ Others(g) /\ unjudged'
       \/ /\ r.status = "failed"
          /\ Report(g, "bad_response", FALSE, 0)
          /\ Task(g)' = Idle /\ Others(g) /\ unjudged'

LEMMA AnswerTask ==
    ASSUME TypeOK, NEW g \in Gateway, Answer(g)
    PROVE  \E r \in replies : Reads(g, r)
<1>1. PICK r \in replies : Answer(g)!(r)  BY DEF Answer
<1>2. r.status \in {"refused", "reloaded", "failed"} /\ r.confirmed \in BOOLEAN
  BY DEF TypeOK, ReplyType
<1>3. CASE r.status = "refused"
  BY <1>1, <1>3, MovedTask DEF Reads
<1>4. CASE r.status = "reloaded" /\ r.confirmed
  BY <1>1, <1>4, OwnTask DEF Reads, End
<1>5. CASE r.status = "reloaded" /\ ~r.confirmed
  BY <1>1, <1>5, OwnTask DEF Reads, End
<1>6. CASE r.status = "failed"
  BY <1>1, <1>6, OwnTask DEF Reads, End
<1> QED BY <1>2, <1>3, <1>4, <1>5, <1>6

\* What a process of the gateway cannot touch, and what the proxy cannot.
LEMMA Apart ==
    /\ \A g \in Gateway :
          (\E op \in Ops : Submit(g, op)) \/ GatewayStep(g) \/ WriteFails(g)
             \/ RollBackFails(g) \/ Crash(g)
          => UNCHANGED <<proxy, request>>
    /\ ProxyStep \/ Stop \/ Start \/ Admit \/ Send
          => UNCHANGED <<file, revisions, gateways, told, mixed, unjudged>>
BY DEF Submit, GatewayStep, Begin, Render, Write, WriteFails, Ask, Answer, GiveUp, RollBack,
       RollBackFails, Crash, ProxyStep, Reload, LoadValues, LoadRecords, Discover,
       ReloadRegistryValues, Counts, Stop, Start, Admit, Send

\* The file gives way only to the file of a task, or to what it had replaced.
LEMMA FileSteps ==
    ASSUME Next
    PROVE  \/ file' = file
           \/ \E g \in Gateway : Write(g) /\ file' = Mine(g)
           \/ \E g \in Gateway : RollBack(g) /\ file' = Task(g).previous
<1>1. CASE \E g \in Gateway : Write(g)  BY <1>1 DEF Write, Replaced, Mine
<1>2. CASE \E g \in Gateway : RollBack(g)  BY <1>2 DEF RollBack, Replaced
<1>3. CASE ~(\E g \in Gateway : Write(g)) /\ ~(\E g \in Gateway : RollBack(g))
  <2>1. ASSUME NEW g \in Gateway,
               \/ \E op \in {"publish", "export"} : Submit(g, op)
               \/ GatewayStep(g) \/ WriteFails(g) \/ RollBackFails(g) \/ Crash(g)
        PROVE  file' = file
    BY <1>3, <2>1 DEF Submit, GatewayStep, Begin, Render, WriteFails, Ask, Answer, GiveUp,
                      RollBackFails, Crash
  <2> QED BY <2>1, Apart DEF Next
<1> QED BY <1>1, <1>2, <1>3

\* The memo of the loader: the same, or that of the file that is there.
Fits(c) ==
    \/ c.rev = cache.rev /\ c.recs = cache.recs
    \/ c.rev = None
    \/ file # None /\ c.rev = file.rev /\ c.recs = Loaded(file.recs)

LEMMA RefreshedFits == Fits(Refreshed)
BY DEF Fits, Refreshed, RecordsOf

\* A rename can only make the memo stale.
Stale == [cache EXCEPT !.hit = FALSE]

LEMMA StaleMemo ==
    ASSUME TypeOK
    PROVE  Stale.hit = FALSE /\ Stale.rev = cache.rev /\ Stale.recs = cache.recs
BY DEF TypeOK, CacheType, Stale

LEMMA MemoOfGateway ==
    ASSUME TypeOK, NEW g \in Gateway,
           \/ \E op \in Ops : Submit(g, op)
           \/ GatewayStep(g) \/ WriteFails(g) \/ RollBackFails(g) \/ Crash(g)
    PROVE  cache' = cache \/ cache' = Stale
BY DEF Submit, GatewayStep, Begin, Render, Write, WriteFails, Ask, Answer, GiveUp, RollBack,
       RollBackFails, Crash, Replaced, Stale

LEMMA CacheSteps == ASSUME TypeOK, Next PROVE Fits(cache')
<1>1. cache' = cache => Fits(cache')  BY DEF Fits
<1>2. cache' = Stale => Fits(cache')  BY StaleMemo DEF Fits
<1>3. cache' = Refreshed => Fits(cache')  BY RefreshedFits
<1>4. RetainCache.rev = cache.rev /\ RetainCache.recs = cache.recs
      /\ ResetCache.rev = cache.rev /\ ResetCache.recs = cache.recs
  BY DEF TypeOK, CacheType, RetainCache, ResetCache
<1>5. cache' \in {RetainCache, ResetCache} => Fits(cache')  BY <1>4 DEF Fits
<1>6. ASSUME NEW g \in Gateway,
             \/ \E op \in Ops : Submit(g, op)
             \/ GatewayStep(g) \/ WriteFails(g) \/ RollBackFails(g) \/ Crash(g)
      PROVE  Fits(cache')
  BY <1>1, <1>2, <1>6, MemoOfGateway
<1>7. CASE Stop
  BY <1>7 DEF Stop, Fits
<1>8. CASE ProxyStep
  BY <1>1, <1>3, <1>5, <1>8 DEF ProxyStep, Reload, LoadValues, LoadRecords, Discover,
     ReloadRegistryValues, Counts, Refuse
<1>9. CASE Start \/ Admit \/ Send
  BY <1>1, <1>3, <1>9 DEF Start, Admit, Send
<1> QED BY <1>6, <1>7, <1>8, <1>9 DEF Next, Ops

\* Nobody holds a generation nobody held before, except the one just rendered.
LEMMA HeldSteps ==
    ASSUME TypeOK, Shapes, Next
    PROVE  \/ revisions' = revisions /\ \A x : Held(x)' => Held(x)
           \/ /\ revisions' = revisions + 1
              /\ \E g \in Gateway :
                    /\ Task(g)'.rev = revisions + 1
                    /\ \A x : Held(x)' => Held(x) \/ x = Mine(g)'
<1>1. CASE ProxyStep \/ Stop \/ Start \/ Admit \/ Send
  BY <1>1, Apart DEF Held, Working, Mine, Task
<1>2. ASSUME NEW g \in Gateway, NEW op \in Ops, Submit(g, op)
      PROVE  revisions' = revisions /\ \A x : Held(x)' => Held(x)
  BY <1>2, SubmitTasks DEF Submit, Held, Working, Mine
<1>3. ASSUME NEW g \in Gateway, Begin(g)
      PROVE  revisions' = revisions /\ \A x : Held(x)' => Held(x)
  BY <1>3, BeginTask DEF Begin, Held, Working, Mine, Others
<1>4. ASSUME Idle.previous = None /\ Idle.pc = "idle", NEW g \in Gateway,
             Task(g)' = Idle, Others(g), revisions' = revisions, NEW f, Held(f) \/ f = None, file' = f
      PROVE  \A x : Held(x)' => Held(x)
  BY <1>4 DEF Held, Working, Mine, Others
<1>5. ASSUME NEW g \in Gateway, NEW pc, Moves(g, pc), Working(g), NEW f, Held(f) \/ f = None, file' = f
      PROVE  \A x : Held(x)' => Held(x)
  BY <1>5 DEF Held, Working, Mine, Others, Moves
<1>6. Idle.previous = None /\ Idle.pc = "idle"  BY DEF Idle
<1>7. Held(file) \/ file = None  BY DEF Held
<1>8. ASSUME NEW g \in Gateway, Working(g)
      PROVE  Held(Mine(g)) /\ (Held(Task(g).previous) \/ Task(g).previous = None)
  BY <1>8 DEF Held, Shapes
<1>9. ASSUME NEW g \in Gateway, Render(g)
      PROVE  \/ revisions' = revisions /\ \A x : Held(x)' => Held(x)
             \/ /\ revisions' = revisions + 1
                /\ Task(g)'.rev = revisions + 1
                /\ \A x : Held(x)' => Held(x) \/ x = Mine(g)'
  <2>1. file' = file  BY <1>9 DEF Render
  <2>2. CASE Task(g)' = Idle /\ UNCHANGED revisions
    BY <1>4, <1>6, <1>7, <1>9, <2>1, <2>2, RenderTask
  <2>3. CASE /\ Task(g)'.pc = "write" /\ Task(g)'.rev = revisions + 1
             /\ Task(g)'.previous = Task(g).previous /\ revisions' = revisions + 1
    BY <1>9, <2>1, <2>3, RenderTask DEF Held, Working, Mine, Others
  <2> QED BY <1>9, <2>2, <2>3, RenderTask
<1>10. ASSUME NEW g \in Gateway, Write(g)
       PROVE  revisions' = revisions /\ \A x : Held(x)' => Held(x)
  <2>1. Working(g) /\ revisions' = revisions /\ file' = Mine(g)
    BY <1>10 DEF Write, At, Working, Replaced, Mine
  <2> QED BY <1>4, <1>5, <1>6, <1>8, <1>10, <2>1, WriteTask
<1>11. ASSUME NEW g \in Gateway, Ask(g)
       PROVE  revisions' = revisions /\ \A x : Held(x)' => Held(x)
  <2>1. Working(g) /\ revisions' = revisions /\ file' = file
    BY <1>11 DEF Ask, At, Working
  <2> QED BY <1>5, <1>7, <1>11, <2>1, AskTask
<1>12. ASSUME NEW g \in Gateway, Answer(g)
       PROVE  revisions' = revisions /\ \A x : Held(x)' => Held(x)
  <2>1. PICK r \in replies : Reads(g, r)  BY <1>12, AnswerTask
  <2>2. Working(g) /\ revisions' = revisions /\ file' = file
    BY <2>1 DEF Reads, At, Working
  <2>3. Moves(g, "rollback") \/ (Task(g)' = Idle /\ Others(g))
    BY <2>1 DEF Reads
  <2> QED BY <1>4, <1>5, <1>6, <1>7, <2>2, <2>3
<1>13. ASSUME NEW g \in Gateway, WriteFails(g) \/ GiveUp(g) \/ RollBackFails(g) \/ Crash(g)
       PROVE  revisions' = revisions /\ \A x : Held(x)' => Held(x)
  <2>1. revisions' = revisions /\ file' = file
    BY <1>13 DEF WriteFails, GiveUp, RollBackFails, Crash
  <2> QED BY <1>4, <1>6, <1>7, <1>13, <2>1, EndTask, CrashTask
<1>14. ASSUME NEW g \in Gateway, RollBack(g)
       PROVE  revisions' = revisions /\ \A x : Held(x)' => Held(x)
  <2>1. Working(g) /\ revisions' = revisions /\ file' = Task(g).previous
    BY <1>14 DEF RollBack, At, Working, Replaced
  <2> QED BY <1>4, <1>6, <1>8, <1>14, <2>1, EndTask
<1> QED BY <1>1, <1>2, <1>3, <1>9, <1>10, <1>11, <1>12, <1>13, <1>14 DEF Next, GatewayStep, Ops

LEMMA ContentsKept ==
    ASSUME TypeOK, Shapes, Contents, Next
    PROVE  Contents'
<1>1. \A x : Held(x)' => Held(x) \/ x.rev = revisions + 1
  BY HeldSteps DEF Mine
<1>2. revisions' >= revisions /\ revisions \in Nat /\ revisions' \in Nat
      /\ ((\E x : Held(x)' /\ x.rev = revisions + 1 /\ ~Held(x)) => revisions' = revisions + 1)
  BY HeldSteps DEF TypeOK
<1>3. \A x : Held(x)' => x.rev \in 1 .. revisions'
  BY <1>1, <1>2 DEF Contents
<1>4. ASSUME NEW x, NEW y, Held(x)', Held(y)', x.rev = y.rev
      PROVE  x.recs = y.recs
  BY <1>2, <1>4, HeldSteps DEF Contents, Mine
<1>5. Fits(cache')  BY CacheSteps
<1>6. file # None => Held(file)  BY DEF Held
<1>7. cache'.rev # None => cache'.rev \in 1 .. revisions
  BY <1>5, <1>6 DEF Contents, Fits
<1>8. ASSUME NEW x, Held(x)', cache'.rev = x.rev PROVE cache'.recs = Loaded(x.recs)
  <2>1. x.rev \in Nat /\ x.rev # None  BY <1>3, <1>8, NoneAssumption
  <2>2. Held(x)  BY <1>1, <1>2, <1>7, <1>8, <2>1
  <2> QED BY <1>5, <1>6, <1>8, <2>1, <2>2 DEF Contents, Fits
<1> QED BY <1>2, <1>3, <1>4, <1>7, <1>8 DEF Contents

\* The shape of one task, apart from the others and from the proxy.
Shaped(g) ==
    /\ Working(g) => Mine(g) \in Generations /\ Task(g).rev \in 1 .. revisions
    /\ ~Working(g) => Task(g).rev = None
AlikeIsSame ==
    \A g, h \in Gateway : Working(g) /\ Working(h) /\ Task(g).rev = Task(h).rev => g = h

LEMMA IdleShape ==
    /\ Idle.pc = "idle" /\ Idle.rev = None /\ Idle.previous = None /\ Idle.recs = Nothing
BY DEF Idle

LEMMA TasksShaped ==
    ASSUME TypeOK, Shapes, Next
    PROVE  AlikeIsSame' /\ \A g \in Gateway : Shaped(g)'
<1>1. AlikeIsSame /\ \A g \in Gateway : Shaped(g)  BY DEF Shapes, AlikeIsSame, Shaped
<1>2. ASSUME revisions' = revisions, \A h \in Gateway : Task(h)' = Task(h)
      PROVE  AlikeIsSame' /\ \A h \in Gateway : Shaped(h)'
  BY <1>1, <1>2 DEF AlikeIsSame, Shaped, Working, Mine
<1>3. ASSUME revisions' = revisions, NEW g \in Gateway, Others(g),
             Task(g)'.rev = None, ~Working(g)'
      PROVE  AlikeIsSame' /\ \A h \in Gateway : Shaped(h)'
  <2>1. \A h \in Gateway : h # g => (Working(h)' <=> Working(h)) /\ Task(h)'.rev = Task(h).rev
                                     /\ Mine(h)' = Mine(h)
    BY <1>3 DEF Others, Working, Mine
  <2>2. AlikeIsSame'  BY <1>1, <1>3, <2>1 DEF AlikeIsSame
  <2>3. \A h \in Gateway : Shaped(h)'  BY <1>1, <1>3, <2>1 DEF Shaped
  <2> QED BY <2>2, <2>3
<1>4. ASSUME revisions' = revisions, NEW g \in Gateway, NEW pc \in {"ask", "wait", "rollback"},
             Working(g), Moves(g, pc)
      PROVE  AlikeIsSame' /\ \A h \in Gateway : Shaped(h)'
  <2>1. \A h \in Gateway : (Working(h)' <=> Working(h)) /\ Task(h)'.rev = Task(h).rev
                             /\ Mine(h)' = Mine(h)
    BY <1>4 DEF Others, Working, Mine, Moves
  <2>2. AlikeIsSame'  BY <1>1, <1>4, <2>1 DEF AlikeIsSame
  <2>3. \A h \in Gateway : Shaped(h)'  BY <1>1, <1>4, <2>1 DEF Shaped
  <2> QED BY <2>2, <2>3
<1>5. ASSUME NEW g \in Gateway, Task(g)' = Idle PROVE Task(g)'.rev = None /\ ~Working(g)'
  BY <1>5, IdleShape DEF Working
<1>6. CASE ProxyStep \/ Stop \/ Start \/ Admit \/ Send
  BY <1>2, <1>6, Apart DEF Task
<1>7. ASSUME NEW g \in Gateway, NEW op \in Ops, Submit(g, op)
      PROVE  AlikeIsSame' /\ \A h \in Gateway : Shaped(h)'
  BY <1>2, <1>7, SubmitTasks DEF Submit
<1>8. ASSUME NEW g \in Gateway, Begin(g)
      PROVE  AlikeIsSame' /\ \A h \in Gateway : Shaped(h)'
  BY <1>3, <1>8, BeginTask DEF Begin, Working
<1>9. ASSUME NEW g \in Gateway, Render(g)
      PROVE  AlikeIsSame' /\ \A h \in Gateway : Shaped(h)'
  <2>1. CASE Task(g)' = Idle /\ UNCHANGED revisions
    BY <1>3, <1>5, <1>9, <2>1, RenderTask
  <2>2. CASE /\ \E approved \in Approved : Task(g)'.recs = Rendered(approved)
             /\ Task(g)'.pc = "write" /\ Task(g)'.rev = revisions + 1
             /\ revisions' = revisions + 1
    <3>1. revisions \in Nat  BY DEF TypeOK
    <3>2. \A h \in Gateway : h # g => (Working(h)' <=> Working(h)) /\ Task(h)'.rev = Task(h).rev
                                       /\ Mine(h)' = Mine(h)
      BY <1>9, RenderTask DEF Others, Working, Mine
    <3>3. \A h \in Gateway : h # g /\ Working(h) => Task(h).rev \in 1 .. revisions
      BY <1>1 DEF Shaped
    <3>4. AlikeIsSame'  BY <1>1, <2>2, <3>1, <3>2, <3>3 DEF AlikeIsSame
    <3>5. Mine(g)' \in Generations /\ Task(g)'.rev \in 1 .. revisions' /\ Working(g)'
      BY <2>2, <3>1 DEF Generations, Mine, Working
    <3>6. \A h \in Gateway : Shaped(h)'
      BY <1>1, <2>2, <3>1, <3>2, <3>3, <3>5 DEF Shaped
    <3> QED BY <3>4, <3>6
  <2> QED BY <1>9, <2>1, <2>2, RenderTask
<1>10. ASSUME NEW g \in Gateway, Write(g)
       PROVE  AlikeIsSame' /\ \A h \in Gateway : Shaped(h)'
  <2>1. revisions' = revisions /\ Working(g)  BY <1>10 DEF Write, Working, At
  <2> QED BY <1>3, <1>4, <1>5, <1>10, <2>1, WriteTask
<1>11. ASSUME NEW g \in Gateway, Ask(g)
       PROVE  AlikeIsSame' /\ \A h \in Gateway : Shaped(h)'
  <2>1. revisions' = revisions /\ Working(g)  BY <1>11 DEF Ask, Working, At
  <2> QED BY <1>4, <1>11, <2>1, AskTask
<1>12. ASSUME NEW g \in Gateway, Answer(g)
       PROVE  AlikeIsSame' /\ \A h \in Gateway : Shaped(h)'
  <2>1. PICK r \in replies : Reads(g, r)  BY <1>12, AnswerTask
  <2>2. revisions' = revisions /\ Working(g)  BY <2>1 DEF Reads, Working, At
  <2>3. Moves(g, "rollback") \/ (Task(g)' = Idle /\ Others(g))  BY <2>1 DEF Reads
  <2> QED BY <1>3, <1>4, <1>5, <2>2, <2>3
<1>13. ASSUME NEW g \in Gateway,
              WriteFails(g) \/ GiveUp(g) \/ RollBack(g) \/ RollBackFails(g) \/ Crash(g)
       PROVE  AlikeIsSame' /\ \A h \in Gateway : Shaped(h)'
  <2>1. revisions' = revisions
    BY <1>13 DEF WriteFails, GiveUp, RollBack, RollBackFails, Crash
  <2> QED BY <1>3, <1>5, <1>13, <2>1, EndTask, CrashTask
<1> QED BY <1>6, <1>7, <1>8, <1>9, <1>10, <1>11, <1>12, <1>13 DEF Next, GatewayStep, Ops

LEMMA ShapesKept == ASSUME TypeOK, Shapes, Next PROVE Shapes'
<1> DEFINE Handler == /\ proxy.pc # "idle" => proxy.up /\ proxy.call \in CallType
                      /\ proxy.pc = "values" => ~cache.hit
                      /\ ~proxy.up => request = None
<1> SUFFICES Handler'  BY TasksShaped DEF Shapes, AlikeIsSame, Shaped
<1>1. proxy \in ProxyType /\ cache \in CacheType  BY DEF TypeOK
<1>2. Handler  BY DEF Shapes
<1>3. Return.pc = "idle" /\ Return.up = proxy.up  BY <1>1 DEF ProxyType, Return
<1>4. ASSUME Refuse, UNCHANGED request PROVE Handler'
  BY <1>2, <1>3, <1>4 DEF Refuse
<1>5. ASSUME NEW g \in Gateway,
             \/ \E op \in Ops : Submit(g, op)
             \/ GatewayStep(g) \/ WriteFails(g) \/ RollBackFails(g) \/ Crash(g)
      PROVE  Handler'
  <2>1. UNCHANGED <<proxy, request>>  BY <1>5, Apart DEF Ops
  <2>2. cache'.hit => cache.hit  BY <1>5, MemoOfGateway, StaleMemo
  <2> QED BY <1>2, <2>1, <2>2
<1>6. CASE \E r \in asked : Reload(r)
  <2>1. PICK r \in asked : Reload(r)  BY <1>6
  <2>2. r \in CallType  BY DEF TypeOK
  <2>3. proxy'.pc = "values" /\ proxy'.call = r /\ proxy'.up = proxy.up
    BY <1>1, <2>1 DEF Reload, ProxyType
  <2>4. ~cache'.hit  BY <1>1, <2>1 DEF Reload, ResetCache, CacheType
  <2> QED BY <1>2, <2>1, <2>2, <2>3, <2>4 DEF Reload, HandlerAt
<1>7. CASE LoadValues
  BY <1>1, <1>2, <1>4, <1>7 DEF LoadValues, HandlerAt, ProxyType
<1>8. CASE LoadRecords
  BY <1>1, <1>2, <1>4, <1>8 DEF LoadRecords, HandlerAt, ProxyType
<1>9. CASE Discover
  BY <1>1, <1>2, <1>9 DEF Discover, HandlerAt, ProxyType
<1>10. CASE ReloadRegistryValues
  BY <1>1, <1>2, <1>10 DEF ReloadRegistryValues, HandlerAt, ProxyType
<1>11. CASE Counts
  BY <1>2, <1>3, <1>11 DEF Counts, HandlerAt
<1>12. CASE Stop
  <2>1. Return \in ProxyType  BY ReturnTyped
  <2> QED BY <1>3, <1>12, <2>1 DEF Stop, ProxyType
<1>13. CASE Start
  <2>1. proxy'.pc = proxy.pc /\ proxy'.up
    BY <1>1, <1>13 DEF Start, ProxyType
  <2> QED BY <1>2, <1>13, <2>1 DEF Start
<1>14. CASE Admit \/ Send
  BY <1>2, <1>14 DEF Admit, Send, HandlerAt
<1> QED
  BY <1>5, <1>6, <1>7, <1>8, <1>9, <1>10, <1>11, <1>12, <1>13, <1>14 DEF Next, ProxyStep, Ops

\* What a step can be for a task.
TurnOf(g) ==
    \/ Task(g)' = Task(g)
    \/ Task(g)' = Idle
    \/ /\ Begin(g) /\ Quiet(g) /\ Others(g)
       /\ Task(g)'.pc = "list" /\ Task(g)'.previous = file
       /\ Task(g)'.rev = None
    \/ /\ Render(g) /\ At(g, "list") /\ Others(g)
       /\ Task(g)'.pc = "write" /\ Task(g)'.previous = Task(g).previous
       /\ Task(g)'.rev = revisions + 1
    \/ Write(g) /\ At(g, "write") /\ Moves(g, "ask")
    \/ Ask(g) /\ At(g, "ask") /\ Moves(g, "wait")
    \/ At(g, "wait") /\ Moves(g, "rollback") /\ \E r \in replies : Reads(g, r) /\ r.status = "refused"

LEMMA TaskTurns ==
    ASSUME TypeOK, Next, NEW g \in Gateway
    PROVE  TurnOf(g)
<1>1. CASE ProxyStep \/ Stop \/ Start \/ Admit \/ Send
  BY <1>1, Apart DEF Task, TurnOf
<1>2. ASSUME NEW h \in Gateway, NEW op \in Ops, Submit(h, op) PROVE TurnOf(g)
  BY <1>2, SubmitTasks DEF TurnOf
<1>3. ASSUME NEW h \in Gateway, Begin(h) PROVE TurnOf(g)
  BY <1>3, BeginTask DEF TurnOf, Others, Begin
<1>4. ASSUME NEW h \in Gateway, Render(h) PROVE TurnOf(g)
  BY <1>4, RenderTask DEF TurnOf, Others, Render
<1>5. ASSUME NEW h \in Gateway, Write(h) PROVE TurnOf(g)
  <2>1. At(h, "write")  BY <1>5 DEF Write
  <2> QED BY <1>5, <2>1, WriteTask DEF TurnOf, Others, Moves
<1>6. ASSUME NEW h \in Gateway, Ask(h) PROVE TurnOf(g)
  <2>1. At(h, "ask")  BY <1>6 DEF Ask
  <2> QED BY <1>6, <2>1, AskTask DEF TurnOf, Others, Moves
<1>7. ASSUME NEW h \in Gateway, Answer(h) PROVE TurnOf(g)
  <2>1. PICK r \in replies : Reads(h, r)  BY <1>7, AnswerTask
  <2>2. At(h, "wait")  BY <2>1 DEF Reads
  <2>3. \/ r.status = "refused" /\ Moves(h, "rollback")
        \/ Task(h)' = Idle /\ Others(h)
    BY <2>1 DEF Reads
  <2> QED BY <2>1, <2>2, <2>3 DEF TurnOf, Others, Moves
<1>8. ASSUME NEW h \in Gateway,
             WriteFails(h) \/ GiveUp(h) \/ RollBack(h) \/ RollBackFails(h) \/ Crash(h)
      PROVE  TurnOf(g)
  BY <1>8, EndTask, CrashTask DEF TurnOf, Others
<1> QED BY <1>1, <1>2, <1>3, <1>4, <1>5, <1>6, <1>7, <1>8 DEF Next, GatewayStep, Ops

LEMMA UnwrittenKept ==
    ASSUME TypeOK, Shapes, Contents, Unwritten, Next
    PROVE  Unwritten'
<1> SUFFICES ASSUME NEW g \in Gateway, At(g, "write")'
             PROVE  /\ file' # None => file'.rev # Task(g)'.rev
                    /\ \A h \in Gateway : Task(h)'.previous # None => Task(h)'.previous.rev # Task(g)'.rev
                    /\ cache'.rev # Task(g)'.rev
  BY DEF Unwritten
<1>1. Fits(cache')  BY CacheSteps
<1>2. revisions \in Nat  BY DEF TypeOK
<1>3. ASSUME NEW h \in Gateway, Task(h)'.previous # None
      PROVE  Task(h)'.previous = Task(h).previous \/ Task(h)'.previous = file
  BY <1>3, TaskTurns, IdleShape DEF TurnOf, Moves
<1>4. CASE At(g, "write") /\ Task(g)' = Task(g)
  <2>1. Task(g).rev \in Nat /\ Working(g)  BY <1>2, <1>4 DEF Shapes, At, Working
  <2>2. file # None => file.rev # Task(g).rev  BY <1>4 DEF Unwritten
  <2>3. \A h \in Gateway : Task(h).previous # None => Task(h).previous.rev # Task(g).rev
    BY <1>4 DEF Unwritten
  <2>4. cache.rev # Task(g).rev  BY <1>4 DEF Unwritten
  <2>5. cache'.rev # Task(g).rev  BY <1>1, <2>1, <2>2, <2>4, NoneAssumption DEF Fits
  <2>6. file' # None => file'.rev # Task(g).rev
    <3>1. CASE file' = file  BY <2>2, <3>1
    <3>2. ASSUME NEW k \in Gateway, Write(k), file' = Mine(k)
          PROVE  file'.rev # Task(g).rev
      <4>1. At(k, "write") /\ Working(k)  BY <3>2 DEF Write, At, Working
      <4>2. k # g  BY <1>4, <3>2, WriteTask, IdleShape DEF Moves, At
      <4>3. Task(k).rev # Task(g).rev  BY <2>1, <4>1, <4>2 DEF Shapes
      <4> QED BY <3>2, <4>3 DEF Mine
    <3>3. ASSUME NEW k \in Gateway, RollBack(k), file' = Task(k).previous, file' # None
          PROVE  file'.rev # Task(g).rev
      BY <2>3, <3>3
    <3> QED BY <3>1, <3>2, <3>3, FileSteps
  <2> QED BY <1>3, <1>4, <2>2, <2>3, <2>5, <2>6
<1>5. CASE Render(g) /\ Task(g)'.rev = revisions + 1
  <2>1. file' = file /\ cache' = cache  BY <1>5 DEF Render
  <2>2. file # None => file.rev \in 1 .. revisions  BY DEF Contents, Held
  <2>3. \A h \in Gateway : Task(h).previous # None => Task(h).previous.rev \in 1 .. revisions
    BY DEF Contents, Held
  <2>4. cache.rev # None => cache.rev \in 1 .. revisions  BY DEF Contents
  <2> QED BY <1>2, <1>3, <1>5, <2>1, <2>2, <2>3, <2>4, NoneAssumption
<1> QED BY <1>4, <1>5, TaskTurns, IdleShape DEF TurnOf, Moves, At

GatewayActs ==
    \E g \in Gateway : (\E op \in Ops : Submit(g, op)) \/ GatewayStep(g) \/ WriteFails(g)
                        \/ RollBackFails(g) \/ Crash(g)

\* A process that goes on takes the answers it will not wait for with it.
LEMMA RepliesOfGateway ==
    ASSUME TypeOK, Once, GatewayActs
    PROVE  replies' \subseteq replies /\ \A r \in replies' : Task(r.to)' = Task(r.to)
<1>1. \A r \in replies : r.to \in Gateway /\ At(r.to, "wait")
  BY DEF TypeOK, ReplyType, Once
<1>2. \A r, s \in replies : r.to = s.to => r = s  BY DEF Once
<1>3. ASSUME NEW g \in Gateway, NEW op \in Ops, Submit(g, op)
      PROVE  replies' = replies /\ \A h \in Gateway : Task(h)' = Task(h)
  BY <1>3, SubmitTasks DEF Submit
<1>4. ASSUME NEW g \in Gateway, Begin(g) \/ Render(g) \/ Write(g) \/ WriteFails(g) \/ Ask(g)
                                \/ RollBack(g) \/ RollBackFails(g)
      PROVE  replies' = replies /\ Others(g) /\ ~At(g, "wait")
  <2>1. ~At(g, "wait") /\ replies' = replies
    BY <1>4 DEF Begin, Quiet, Render, Write, WriteFails, Ask, RollBack, RollBackFails, At, Task
  <2>2. Others(g)
    BY <1>4, BeginTask, RenderTask, WriteTask, AskTask, EndTask DEF Moves
  <2> QED BY <2>1, <2>2
<1>5. ASSUME NEW g \in Gateway, GiveUp(g) \/ Crash(g)
      PROVE  replies' \subseteq replies /\ Others(g) /\ \A r \in replies' : r.to # g
  BY <1>5, EndTask, CrashTask DEF GiveUp, Crash
<1>6. ASSUME NEW g \in Gateway, Answer(g)
      PROVE  replies' \subseteq replies /\ Others(g) /\ \A r \in replies' : r.to # g
  <2>1. PICK r \in replies : Reads(g, r)  BY <1>6, AnswerTask
  <2>2. Others(g) /\ replies' = replies \ {r} /\ r.to = g  BY <2>1 DEF Reads, Moves
  <2> QED BY <1>2, <2>2
<1> QED BY <1>1, <1>3, <1>4, <1>5, <1>6 DEF GatewayActs, GatewayStep, Others

LEMMA AskedOfGateway ==
    ASSUME GatewayActs
    PROVE  \/ asked' = asked
           \/ \E g \in Gateway : Ask(g) /\ asked' = asked \cup {[from |-> g, rev |-> Task(g).rev]}
BY DEF GatewayActs, Submit, GatewayStep, Begin, Render, Write, WriteFails, Ask, Answer, GiveUp,
       RollBack, RollBackFails, Crash

LEMMA OnceKeptByGateway ==
    ASSUME TypeOK, Shapes, Once, Next, GatewayActs
    PROVE  Once'
<1>1. UNCHANGED proxy  BY Apart DEF GatewayActs
<1>2. revisions' \in Nat /\ revisions \in Nat /\ revisions' >= revisions
  BY HeldSteps DEF TypeOK
<1>3. replies' \subseteq replies /\ \A r \in replies' : Task(r.to)' = Task(r.to)
  BY RepliesOfGateway
<1>4. ASSUME NEW g \in Gateway, Ask(g)
      PROVE  /\ Task(g).rev \in 1 .. revisions /\ At(g, "ask") /\ Working(g)
             /\ Task(g)'.pc = "wait" /\ Task(g)'.rev = Task(g).rev
  <2>1. At(g, "ask") /\ Working(g)  BY <1>4 DEF Ask, At, Working
  <2> QED BY <1>4, <2>1, AskTask DEF Shapes, Moves
<1>5. \A c \in asked' : c.rev \in 1 .. revisions'
  BY <1>2, <1>4, AskedOfGateway DEF Once
<1>6. proxy'.pc # "idle" => proxy'.call.rev \in 1 .. revisions' /\ proxy'.call \notin asked'
  <2> SUFFICES ASSUME proxy.pc # "idle"
               PROVE  proxy.call.rev \in 1 .. revisions' /\ proxy.call \notin asked'
    BY <1>1
  <2>1. ASSUME NEW g \in Gateway, Ask(g) PROVE proxy.call # [from |-> g, rev |-> Task(g).rev]
    BY <1>4, <2>1 DEF Once, At
  <2> QED BY <1>2, <2>1, AskedOfGateway DEF Once
<1>7. ASSUME NEW g \in Gateway, Task(g)'.pc \in {"write", "ask"}
      PROVE  /\ \A c \in asked' : c.rev # Task(g)'.rev
             /\ proxy'.pc # "idle" => proxy'.call.rev # Task(g)'.rev
  <2>1. \/ Task(g).pc \in {"write", "ask"} /\ Task(g)'.rev = Task(g).rev
        \/ Task(g)'.rev = revisions + 1
    BY <1>7, TaskTurns, IdleShape DEF TurnOf, Moves, At
  <2>2. \A c \in asked : c.rev # Task(g)'.rev
    BY <1>2, <2>1 DEF Once
  <2>3. proxy'.pc # "idle" => proxy'.call.rev # Task(g)'.rev
    BY <1>1, <1>2, <2>1 DEF Once
  <2>4. ASSUME NEW h \in Gateway, Ask(h) PROVE Task(h).rev # Task(g)'.rev
    <3>1. h # g  BY <1>4, <1>7, <2>4
    <3>2. CASE Task(g).pc \in {"write", "ask"} /\ Task(g)'.rev = Task(g).rev
      BY <1>4, <2>4, <3>1, <3>2 DEF Shapes, Working
    <3>3. CASE Task(g)'.rev = revisions + 1  BY <1>2, <1>4, <2>4, <3>3
    <3> QED BY <2>1, <3>2, <3>3
  <2> QED BY <2>2, <2>3, <2>4, AskedOfGateway
<1>8. ASSUME NEW r \in replies'
      PROVE  /\ At(r.to, "wait")'
             /\ [from |-> r.to, rev |-> Task(r.to)'.rev] \notin asked'
             /\ ~Serves(r.to)'
             /\ r.start <= proxy'.starts
  <2>1. r \in replies /\ Task(r.to)' = Task(r.to)  BY <1>3
  <2>2. At(r.to, "wait") /\ ~Serves(r.to) /\ r.start <= proxy.starts
        /\ [from |-> r.to, rev |-> Task(r.to).rev] \notin asked
    BY <2>1 DEF Once
  <2>3. ASSUME NEW g \in Gateway, Ask(g) PROVE g # r.to
    BY <1>4, <2>2, <2>3 DEF At
  <2>4. [from |-> r.to, rev |-> Task(r.to)'.rev] \notin asked'
    BY <2>1, <2>2, <2>3, AskedOfGateway
  <2>5. ~Serves(r.to)'  BY <1>1, <2>1, <2>2 DEF Serves, At
  <2> QED BY <1>1, <2>1, <2>2, <2>4, <2>5 DEF At
<1>9. \A r, s \in replies' : r.to = s.to => r = s  BY <1>3 DEF Once
<1> QED BY <1>5, <1>6, <1>7, <1>8, <1>9 DEF Once

\* What the handler answers, and whom.
Answered(status, confirmed, restart) ==
    [to |-> proxy.call.from, status |-> status, confirmed |-> confirmed,
     restart |-> restart, start |-> proxy.starts]

LEMMA ReplySteps ==
    ASSUME TypeOK, Shapes, ProxyStep \/ Stop \/ Start \/ Admit \/ Send
    PROVE  \/ /\ replies' = replies
              /\ \/ proxy'.pc = "idle"
                 \/ proxy'.call = proxy.call /\ proxy.pc # "idle"
                 \/ \E r \in asked : Reload(r) /\ proxy'.call = r /\ asked' = asked \ {r}
           \/ /\ proxy.pc # "idle" /\ proxy'.pc = "idle" /\ proxy'.starts = proxy.starts
              /\ asked' = asked
              /\ \E status, confirmed, restart :
                    replies' \subseteq replies \cup
                       {x \in {Answered(status, confirmed, restart)} : Serves(proxy.call.from)}
<1>1. proxy \in ProxyType  BY DEF TypeOK
<1>2. Return.pc = "idle" /\ Return.starts = proxy.starts  BY <1>1 DEF Return, ProxyType
<1>3. ASSUME NEW status, NEW confirmed, NEW restart, Reply(status, confirmed, restart), proxy.pc # "idle"
      PROVE  replies' \subseteq replies \cup
                {x \in {Answered(status, confirmed, restart)} : Serves(proxy.call.from)}
  BY <1>3 DEF Reply, Answered, Serves
<1>4. CASE \E r \in asked : Reload(r)
  BY <1>1, <1>4 DEF Reload, ProxyType
<1>5. CASE LoadValues
  <2>1. proxy.pc # "idle" /\ asked' = asked  BY <1>5 DEF LoadValues, HandlerAt
  <2>2. CASE LoadFails  BY <1>2, <1>3, <1>5, <2>1, <2>2 DEF LoadValues, Refuse
  <2>3. CASE ~LoadFails  BY <1>1, <1>5, <2>1, <2>3 DEF LoadValues, ProxyType
  <2> QED BY <2>2, <2>3
<1>6. CASE LoadRecords
  <2>1. proxy.pc # "idle" /\ asked' = asked  BY <1>6 DEF LoadRecords, HandlerAt
  <2>2. CASE LoadFails  BY <1>2, <1>3, <1>6, <2>1, <2>2 DEF LoadRecords, Refuse
  <2>3. CASE ~LoadFails  BY <1>1, <1>6, <2>1, <2>3 DEF LoadRecords, ProxyType
  <2> QED BY <2>2, <2>3
<1>7. CASE Discover
  BY <1>1, <1>7 DEF Discover, HandlerAt, ProxyType
<1>8. CASE ReloadRegistryValues
  BY <1>1, <1>8 DEF ReloadRegistryValues, HandlerAt, ProxyType
<1>9. CASE Counts
  <2>1. proxy.pc # "idle" /\ asked' = asked /\ proxy' = Return  BY <1>9 DEF Counts, HandlerAt
  <2> QED BY <1>2, <1>3, <1>9, <2>1 DEF Counts
<1>10. CASE Stop
  <2>1. Return \in ProxyType  BY ReturnTyped
  <2> QED BY <1>2, <1>10, <2>1 DEF Stop, ProxyType
<1>11. CASE Start
  <2>1. proxy.pc = "idle"  BY <1>11 DEF Start, Shapes
  <2> QED BY <1>1, <1>11, <2>1 DEF Start, ProxyType
<1>12. CASE Admit \/ Send
  BY <1>12 DEF Admit, Send, HandlerAt
<1> QED BY <1>4, <1>5, <1>6, <1>7, <1>8, <1>9, <1>10, <1>11, <1>12 DEF ProxyStep

ProxyActs == ProxyStep \/ Stop \/ Start \/ Admit \/ Send

LEMMA ProxyOnly ==
    ASSUME ProxyActs
    PROVE  /\ UNCHANGED <<file, revisions, gateways, told, mixed, unjudged>>
           /\ \A g \in Gateway : Task(g)' = Task(g)
BY Apart DEF ProxyActs, Task

LEMMA AskedOfProxy ==
    ASSUME ProxyActs
    PROVE  asked' \subseteq asked
BY DEF ProxyActs, ProxyStep, Reload, LoadValues, LoadRecords, Discover, ReloadRegistryValues,
       Counts, Stop, Start, Admit, Send

LEMMA StartsGrow ==
    ASSUME TypeOK, ProxyActs
    PROVE  proxy'.starts >= proxy.starts /\ proxy.starts \in Nat
<1>1. proxy \in ProxyType  BY DEF TypeOK
<1>2. Return \in ProxyType /\ Return.starts = proxy.starts
  BY <1>1, ReturnTyped DEF Return, ProxyType
<1>3. proxy.starts \in Nat  BY <1>1 DEF ProxyType
<1>4. ASSUME Refuse PROVE proxy'.starts = proxy.starts  BY <1>2, <1>4 DEF Refuse
<1>5. CASE \E r \in asked : Reload(r)  BY <1>1, <1>3, <1>5 DEF Reload, ProxyType
<1>6. CASE LoadValues  BY <1>1, <1>3, <1>4, <1>6 DEF LoadValues, ProxyType
<1>7. CASE LoadRecords
  <2> DEFINE l == Refreshed.recs
  <2>1. Refuse \/ proxy' = [proxy EXCEPT !.pc = "discover", !.loaded = l]
    BY <1>7 DEF LoadRecords
  <2> HIDE DEF l
  <2>2. proxy' = [proxy EXCEPT !.pc = "discover", !.loaded = l] => proxy'.starts = proxy.starts
    BY <1>1 DEF ProxyType
  <2> QED BY <1>3, <1>4, <2>1, <2>2
<1>8. CASE Discover  BY <1>1, <1>3, <1>8 DEF Discover, ProxyType
<1>9. CASE ReloadRegistryValues  BY <1>1, <1>3, <1>9 DEF ReloadRegistryValues, ProxyType
<1>10. CASE Counts  BY <1>2, <1>3, <1>10 DEF Counts
<1>11. CASE Stop  BY <1>2, <1>3, <1>11 DEF Stop, ProxyType
<1>12. CASE Start
  <2>1. proxy'.starts = proxy.starts + 1
    <3> DEFINE Missing == file = None
    <3>1. proxy' = [proxy EXCEPT !.up = TRUE, !.starts = @ + 1, !.active = Refreshed.recs,
                                 !.values = AllSurfaces(Refreshed.recs), !.errored = Missing]
      BY <1>12 DEF Start
    <3> HIDE DEF Missing
    <3> QED BY <1>1, <3>1 DEF ProxyType
  <2> QED BY <1>3, <2>1
<1>13. CASE Admit \/ Send  BY <1>3, <1>13 DEF Admit, Send
<1> QED BY <1>5, <1>6, <1>7, <1>8, <1>9, <1>10, <1>11, <1>12, <1>13 DEF ProxyActs, ProxyStep

LEMMA OnceKeptByProxy ==
    ASSUME TypeOK, Shapes, Once, ProxyActs
    PROVE  Once'
<1>1. /\ UNCHANGED <<file, revisions, gateways, told, mixed, unjudged>>
      /\ \A g \in Gateway : Task(g)' = Task(g)
  BY ProxyOnly
<1>2. asked' \subseteq asked  BY AskedOfProxy
<1>3. proxy'.starts >= proxy.starts /\ proxy.starts \in Nat  BY StartsGrow
<1>4. \A r \in replies : r.to \in Gateway /\ r.start \in Nat  BY DEF TypeOK, ReplyType
<1>5. proxy'.starts \in Nat
  <2>1. TypeOK'  BY ProxyTyped DEF ProxyActs
  <2> QED BY <2>1 DEF TypeOK, ProxyType
<1>6. CASE /\ replies' = replies
           /\ \/ proxy'.pc = "idle"
              \/ proxy'.call = proxy.call /\ proxy.pc # "idle"
              \/ \E r \in asked : Reload(r) /\ proxy'.call = r /\ asked' = asked \ {r}
  <2>1. \A c \in asked' : c.rev \in 1 .. revisions'  BY <1>1, <1>2 DEF Once
  <2>2. proxy'.pc # "idle" => proxy'.call.rev \in 1 .. revisions' /\ proxy'.call \notin asked'
    BY <1>1, <1>2, <1>6 DEF Once
  <2>3. ASSUME NEW g \in Gateway, Task(g)'.pc \in {"write", "ask"}
        PROVE  /\ \A c \in asked' : c.rev # Task(g)'.rev
               /\ proxy'.pc # "idle" => proxy'.call.rev # Task(g)'.rev
    BY <1>1, <1>2, <1>6, <2>3 DEF Once
  <2>4. ASSUME NEW r \in replies
        PROVE  /\ At(r.to, "wait")'
               /\ [from |-> r.to, rev |-> Task(r.to)'.rev] \notin asked'
               /\ ~Serves(r.to)'
               /\ r.start <= proxy'.starts
    <3>1. At(r.to, "wait") /\ Task(r.to)' = Task(r.to)  BY <1>1, <1>4 DEF Once
    <3>2. [from |-> r.to, rev |-> Task(r.to).rev] \notin asked  BY DEF Once
    <3>7. r.start <= proxy.starts  BY DEF Once
    <3>3. r.start <= proxy'.starts  BY <1>3, <1>4, <1>5, <3>7
    <3>4. CASE proxy'.pc = "idle"
      BY <1>2, <3>1, <3>2, <3>3, <3>4 DEF Serves, At
    <3>5. CASE proxy'.call = proxy.call /\ proxy.pc # "idle"
      BY <1>2, <3>1, <3>2, <3>3, <3>5 DEF Serves, At, Once
    <3>6. ASSUME NEW c \in asked, proxy'.call = c
          PROVE  ~Serves(r.to)'
      <4>1. c = [from |-> c.from, rev |-> c.rev]  BY DEF TypeOK, CallType
      <4> QED BY <3>1, <3>2, <3>6, <4>1 DEF Serves
    <3> QED BY <1>2, <1>6, <3>1, <3>2, <3>3, <3>4, <3>5, <3>6 DEF At
  <2>5. \A r, s \in replies : r.to = s.to => r = s  BY DEF Once
  <2> QED BY <1>6, <2>1, <2>2, <2>3, <2>4, <2>5 DEF Once
<1>7. CASE /\ proxy.pc # "idle" /\ proxy'.pc = "idle" /\ proxy'.starts = proxy.starts
           /\ asked' = asked
           /\ \E status, confirmed, restart :
                 replies' \subseteq replies \cup
                    {x \in {Answered(status, confirmed, restart)} : Serves(proxy.call.from)}
  <2>1. PICK status, confirmed, restart :
           replies' \subseteq replies \cup
              {x \in {Answered(status, confirmed, restart)} : Serves(proxy.call.from)}
    BY <1>7
  <2> DEFINE new == Answered(status, confirmed, restart)
             g == proxy.call.from
  <2>2. new.to = g /\ new.start = proxy.starts  BY DEF Answered
  <2>3. proxy.call \in CallType /\ proxy.call = [from |-> g, rev |-> proxy.call.rev] /\ g \in Gateway
    BY <1>7 DEF Shapes, CallType
  <2> HIDE DEF new, g
  <2>4. \A r \in replies' : r \in replies \/ (r = new /\ Serves(g))  BY <2>1 DEF new, g
  <2>5. ASSUME NEW r \in replies'
        PROVE  /\ At(r.to, "wait")'
               /\ [from |-> r.to, rev |-> Task(r.to)'.rev] \notin asked'
               /\ ~Serves(r.to)'
               /\ r.start <= proxy'.starts
    <3>1. ~Serves(r.to)'  BY <1>7 DEF Serves
    <3>2. CASE r \in replies
      BY <1>1, <1>4, <1>7, <3>1, <3>2 DEF Once, At
    <3>3. CASE r = new /\ Serves(g)
      <4>1. At(g, "wait") /\ proxy.call = [from |-> g, rev |-> Task(g).rev]
        BY <2>3, <3>3 DEF Serves
      <4>2. proxy.call \notin asked  BY <1>7 DEF Once
      <4> QED BY <1>1, <1>3, <1>7, <2>2, <2>3, <3>1, <3>3, <4>1, <4>2 DEF At
    <3> QED BY <2>4, <3>2, <3>3
  <2>6. ASSUME NEW r \in replies', NEW s \in replies', r.to = s.to PROVE r = s
    <3>1. \A x \in replies : ~Serves(x.to)  BY DEF Once
    <3> QED BY <2>2, <2>4, <2>6, <3>1 DEF Once
  <2>7. \A c \in asked' : c.rev \in 1 .. revisions'  BY <1>1, <1>2 DEF Once
  <2>8. ASSUME NEW h \in Gateway, Task(h)'.pc \in {"write", "ask"}
        PROVE  \A c \in asked' : c.rev # Task(h)'.rev
    BY <1>1, <1>2, <2>8 DEF Once
  <2> QED BY <1>7, <2>5, <2>6, <2>7, <2>8 DEF Once
<1> QED BY <1>6, <1>7, ReplySteps DEF ProxyActs

LEMMA OnceKept ==
    ASSUME TypeOK, Shapes, Once, Next
    PROVE  Once'
BY OnceKeptByGateway, OnceKeptByProxy DEF Next, GatewayActs, ProxyActs, Ops

-----------------------------------------------------------------------------
(* One task at a time                                                       *)

\* Whether two tasks ran together is never forgotten, and it shows when the
\* second begins.
LEMMA MixedSteps ==
    ASSUME TypeOK, Next, ~mixed'
    PROVE  ~mixed /\ \A g, h \in Gateway : Begin(g) /\ h # g => Quiet(h)
<1>1. ASSUME NEW g \in Gateway, Begin(g)
      PROVE  ~mixed /\ \A h \in Gateway : h # g => Quiet(h)
  <2> DEFINE Another == \E h \in Gateway \ {g} : ~Quiet(h)
  <2>1. mixed' = (mixed \/ Another)  BY <1>1 DEF Begin
  <2>2. Another \in BOOLEAN /\ mixed \in BOOLEAN  BY DEF TypeOK
  <2> HIDE DEF Another
  <2>3. ~mixed /\ ~Another  BY <2>1, <2>2
  <2> QED BY <2>3 DEF Another
<1>2. ProxyActs => ~mixed  BY ProxyOnly
<1>3. ASSUME NEW g \in Gateway, ~Begin(g),
             (\E op \in Ops : Submit(g, op)) \/ GatewayStep(g) \/ WriteFails(g)
                \/ RollBackFails(g) \/ Crash(g)
      PROVE  ~mixed
  BY <1>3 DEF GatewayStep, Submit, Render, Write, WriteFails, Ask, Answer, GiveUp, RollBack,
              RollBackFails, Crash
<1> QED BY <1>1, <1>2, <1>3 DEF Next, ProxyActs, Ops

\* What the handler answers, and when.
LEMMA NewReplies ==
    ASSUME TypeOK, Shapes, ProxyActs, NEW r \in replies', r \notin replies
    PROVE  /\ Serves(r.to) /\ r.to = proxy.call.from /\ r.start = proxy.starts
           /\ \/ r.status = "refused" /\ LoadFails /\ proxy.pc \in {"values", "records"}
              \/ r.status = "failed"
              \/ /\ r.status = "reloaded" /\ Counts /\ proxy.pc = "counts" /\ ~LoadFails
                 /\ r.confirmed <=> Refreshed.rev = proxy.call.rev
                 /\ r.restart = proxy.restart
<1>1. ASSUME NEW status, NEW confirmed, NEW restart, Reply(status, confirmed, restart),
             proxy.pc # "idle"
      PROVE  /\ Serves(r.to) /\ r.to = proxy.call.from /\ r.start = proxy.starts
             /\ r.status = status /\ r.confirmed = confirmed /\ r.restart = restart
  BY <1>1 DEF Reply, Serves
<1>2. CASE LoadValues
  <2>1. proxy.pc # "idle" /\ proxy.pc = "values"  BY <1>2 DEF LoadValues, HandlerAt
  <2>2. LoadFails /\ Reply("refused", FALSE, FALSE)  BY <1>2 DEF LoadValues, Refuse
  <2> QED BY <1>1, <2>1, <2>2
<1>3. CASE LoadRecords
  <2>1. proxy.pc # "idle" /\ proxy.pc = "records"  BY <1>3 DEF LoadRecords, HandlerAt
  <2>2. LoadFails /\ Reply("refused", FALSE, FALSE)  BY <1>3 DEF LoadRecords, Refuse
  <2> QED BY <1>1, <2>1, <2>2
<1>4. CASE Counts
  <2>1. proxy.pc # "idle" /\ proxy.pc = "counts"  BY <1>4 DEF Counts, HandlerAt
  <2> DEFINE same == Refreshed.rev = proxy.call.rev
  <2>2. CASE LoadFails
    <3>1. Reply("failed", FALSE, FALSE)  BY <1>4, <2>2 DEF Counts
    <3> QED BY <1>1, <2>1, <3>1
  <2>3. CASE ~LoadFails
    <3>1. Reply("reloaded", same, proxy.restart)  BY <1>4, <2>3 DEF Counts
    <3> HIDE DEF same
    <3>2. r.status = "reloaded" /\ r.confirmed = same /\ r.restart = proxy.restart
      BY <1>1, <2>1, <3>1
    <3> QED BY <1>1, <1>4, <2>1, <2>3, <3>1, <3>2 DEF same
  <2> QED BY <2>2, <2>3
<1>5. CASE (\E c \in asked : Reload(c)) \/ Discover \/ ReloadRegistryValues \/ Stop \/ Start \/ Admit \/ Send
  BY <1>5 DEF Reload, Discover, ReloadRegistryValues, Stop, Start, Admit, Send
<1> QED BY <1>2, <1>3, <1>4, <1>5 DEF ProxyActs, ProxyStep

\* What the handler serves it has served since its load began; and what it has
\* in its memo is what it had, or the file that is there.
LEMMA HandlerSteps ==
    ASSUME TypeOK, Shapes, ProxyActs, proxy'.pc # "idle"
    PROVE  \/ \E c \in asked : Reload(c) /\ proxy'.call = c /\ proxy'.pc = "values" /\ ~cache'.hit
           \/ /\ LoadValues /\ proxy.pc = "values" /\ proxy'.pc = "records"
              /\ proxy'.call = proxy.call
              /\ cache' = Refreshed /\ ~LoadFails /\ UNCHANGED replies
           \/ /\ LoadRecords /\ proxy.pc = "records" /\ proxy'.pc = "discover"
              /\ proxy'.call = proxy.call /\ proxy'.loaded = Refreshed.recs
              /\ cache' = Refreshed /\ ~LoadFails /\ UNCHANGED replies
           \/ /\ Discover /\ proxy.pc = "discover" /\ proxy'.pc = "apply"
              /\ proxy'.call = proxy.call /\ proxy'.loaded = proxy.loaded
              /\ cache' \in {cache, Refreshed} /\ UNCHANGED replies
           \/ /\ ReloadRegistryValues /\ proxy.pc = "apply" /\ proxy'.pc = "counts"
              /\ proxy'.call = proxy.call /\ proxy'.loaded = proxy.loaded
              /\ cache' = cache /\ UNCHANGED replies
<1>1. proxy \in ProxyType /\ cache \in CacheType  BY DEF TypeOK
<1>2. Return \in ProxyType /\ Return.pc = "idle"  BY <1>1, ReturnTyped DEF Return, ProxyType
<1>3. ~Refuse  BY <1>2 DEF Refuse
<1>4. CASE \E c \in asked : Reload(c)
  BY <1>1, <1>4 DEF Reload, ResetCache, ProxyType, CacheType
<1>5. CASE LoadValues
  BY <1>1, <1>3, <1>5 DEF LoadValues, HandlerAt, ProxyType
<1>6. CASE LoadRecords
  <2> DEFINE l == Refreshed.recs
  <2>1. /\ proxy' = [proxy EXCEPT !.pc = "discover", !.loaded = l]
        /\ proxy.pc = "records" /\ cache' = Refreshed /\ ~LoadFails /\ UNCHANGED replies
    BY <1>3, <1>6 DEF LoadRecords, HandlerAt
  <2> HIDE DEF l
  <2>2. proxy'.pc = "discover" /\ proxy'.call = proxy.call /\ proxy'.loaded = l
    BY <1>1, <2>1 DEF ProxyType
  <2> QED BY <1>6, <2>1, <2>2 DEF l
<1>7. CASE Discover
  <2>1. proxy.pc = "discover" /\ cache' \in {cache, Refreshed} /\ UNCHANGED replies
    BY <1>7 DEF Discover, HandlerAt
  <2>2. proxy'.pc = "apply" /\ proxy'.call = proxy.call /\ proxy'.loaded = proxy.loaded
    BY <1>1, <1>7 DEF Discover, ProxyType
  <2> QED BY <1>7, <2>1, <2>2
<1>8. CASE ReloadRegistryValues
  BY <1>1, <1>8 DEF ReloadRegistryValues, HandlerAt, ProxyType
<1>9. CASE Counts  BY <1>2, <1>9 DEF Counts
<1>10. CASE Stop  BY <1>2, <1>10 DEF Stop, ProxyType
<1>11. CASE Start
  <2>1. proxy.pc = "idle"  BY <1>11 DEF Start, Shapes
  <2>2. proxy'.pc = proxy.pc  BY <1>1, <1>11 DEF Start, ProxyType
  <2> QED BY <2>1, <2>2
<1>12. CASE Admit \/ Send  BY <1>12 DEF Admit, Send, HandlerAt
<1> QED BY <1>4, <1>5, <1>6, <1>7, <1>8, <1>9, <1>10, <1>11, <1>12 DEF ProxyActs, ProxyStep

\* What Alone says of one process.
Undisturbed(g) ==
    /\ Placed(g) => file = Mine(g)
    /\ IsRefused(g) => ~Usable(Task(g).recs)
    /\ Serves(g) => /\ cache.hit => cache.rev = Task(g).rev
                    /\ proxy.pc \in Past => Accepted(file)
    /\ \A r \in replies : r.to = g /\ r.status = "reloaded" => r.confirmed /\ Accepted(file)

\* With one task at a time, the file moves only with the task that moves it.
LEMMA FileStays ==
    ASSUME Alone, ~mixed, NEW g \in Gateway, ~Quiet(g), Next,
           ~Write(g), ~RollBack(g)
    PROVE  file' = file
<1>1. ASSUME NEW k \in Gateway, Write(k) \/ RollBack(k) PROVE k = g
  <2>1. ~Quiet(k)  BY <1>1 DEF Write, RollBack, At, Quiet, Task
  <2> QED BY <2>1 DEF Alone
<1> QED BY <1>1, FileSteps

LEMMA AloneKeptByGateway ==
    ASSUME TypeOK, Shapes, Once, Alone, Next, GatewayActs, ~mixed'
    PROVE  /\ \A g, h \in Gateway : ~Quiet(g)' /\ ~Quiet(h)' => g = h
           /\ \A g \in Gateway : Undisturbed(g)'
<1>1. ~mixed /\ \A g, h \in Gateway : Begin(g) /\ h # g => Quiet(h)  BY MixedSteps
<1>2. \A g \in Gateway : Undisturbed(g)  BY <1>1 DEF Alone, Undisturbed
<1>3. \A g \in Gateway : Quiet(g) <=> Task(g).pc = "idle"  BY DEF Quiet, Task
<1>4. \A g \in Gateway : Quiet(g)' <=> Task(g)'.pc = "idle"  BY DEF Quiet, Task
<1>5. ASSUME NEW g \in Gateway, ~Quiet(g)' PROVE ~Quiet(g) \/ (Begin(g) /\ Others(g))
  BY <1>3, <1>4, <1>5, TaskTurns, IdleShape DEF TurnOf, Moves, At
<1>6. ASSUME NEW g \in Gateway, NEW h \in Gateway, ~Quiet(g)', ~Quiet(h)' PROVE g = h
  <2>1. CASE ~Quiet(g) /\ ~Quiet(h)  BY <1>1, <2>1 DEF Alone
  <2>2. ASSUME NEW a \in Gateway, NEW b \in Gateway, Begin(a), Others(a), ~Quiet(b)' PROVE a = b
    BY <1>1, <1>3, <1>4, <2>2 DEF Others
  <2> QED BY <1>5, <1>6, <2>1, <2>2
<1>7. proxy' = proxy /\ (cache' = cache \/ cache' = Stale)
  BY Apart, MemoOfGateway DEF GatewayActs
<1>8. cache'.hit => cache.hit /\ cache'.rev = cache.rev  BY <1>7, StaleMemo
<1>9. replies' \subseteq replies /\ \A r \in replies' : Task(r.to)' = Task(r.to)
  BY RepliesOfGateway
<1>10. ASSUME NEW g \in Gateway, Task(g)' = Task(g), ~Quiet(g) PROVE file' = file
  <2>1. ~Write(g) /\ ~RollBack(g)
    <3>1. Write(g) => At(g, "write")  BY DEF Write
    <3>2. RollBack(g) => At(g, "rollback")  BY DEF RollBack
    <3> QED BY <1>10, <3>1, <3>2, WriteTask, EndTask, IdleShape DEF Moves, At
  <2> QED BY <1>1, <1>10, <2>1, FileStays
<1>11. ASSUME NEW g \in Gateway, NEW pc, Moves(g, pc), At(g, "ask") \/ At(g, "wait") PROVE file' = file
  <2>1. ~Write(g) /\ ~RollBack(g) /\ ~Quiet(g)
    BY <1>3, <1>11 DEF Write, RollBack, At
  <2> QED BY <1>1, <2>1, FileStays
<1>12. ASSUME NEW g \in Gateway PROVE Undisturbed(g)'
  <2>1. ASSUME Placed(g)' PROVE file' = Mine(g)'
    <3>1. CASE Task(g)' = Task(g)
      <4>1. Placed(g) /\ ~Quiet(g) /\ Mine(g)' = Mine(g)  BY <1>3, <2>1, <3>1 DEF Placed, Mine
      <4> QED BY <1>2, <1>10, <3>1, <4>1 DEF Undisturbed
    <3>2. CASE Write(g) /\ Moves(g, "ask")
      BY <3>2 DEF Write, Replaced, Moves, Mine
    <3>3. CASE (At(g, "ask") /\ Moves(g, "wait")) \/ (At(g, "wait") /\ Moves(g, "rollback"))
      <4>1. file' = file /\ Placed(g)  BY <1>11, <3>3 DEF Placed, At
      <4> QED BY <1>2, <3>3, <4>1 DEF Undisturbed, Moves, Mine
    <3> QED BY <2>1, <3>1, <3>2, <3>3, TaskTurns, IdleShape DEF TurnOf, Placed
  <2>2. ASSUME IsRefused(g)' PROVE ~Usable(Task(g)'.recs)
    <3>1. CASE Task(g)' = Task(g)
      <4>1. IsRefused(g)  BY <1>9, <2>2, <3>1 DEF IsRefused, At
      <4> QED BY <1>2, <3>1, <4>1 DEF Undisturbed
    <3>2. CASE Task(g)' # Task(g)
      <4>1. \A r \in replies' : r.to # g  BY <1>9, <3>2
      <4>2. At(g, "rollback")'  BY <2>2, <4>1 DEF IsRefused
      <4>3. Moves(g, "rollback") /\ \E r \in replies : r.to = g /\ r.status = "refused"
        BY <3>2, <4>2, TaskTurns, IdleShape DEF TurnOf, Moves, At, Reads
      <4>4. IsRefused(g)  BY <4>3 DEF IsRefused
      <4> QED BY <1>2, <4>3, <4>4 DEF Undisturbed, Moves
    <3> QED BY <3>1, <3>2
  <2>3. ASSUME Serves(g)'
        PROVE  /\ cache'.hit => cache'.rev = Task(g)'.rev
               /\ proxy'.pc \in Past => Accepted(file')
    <3>1. Task(g)'.pc = "wait" /\ proxy.pc # "idle" /\ proxy.call.from = g
          /\ proxy.call.rev = Task(g)'.rev
      BY <1>7, <2>3 DEF Serves, At
    <3>2. ~(At(g, "ask") /\ Moves(g, "wait"))
      BY <3>1 DEF Once, At, Moves
    <3>3. Task(g)' = Task(g)
      BY <3>1, <3>2, TaskTurns, IdleShape DEF TurnOf, Moves
    <3>4. Serves(g) /\ ~Quiet(g)  BY <1>3, <3>1, <3>3 DEF Serves, At
    <3>5. file' = file  BY <1>10, <3>3, <3>4
    <3> QED BY <1>2, <1>7, <1>8, <3>3, <3>4, <3>5 DEF Undisturbed
  <2>4. ASSUME NEW r \in replies', r.to = g, r.status = "reloaded"
        PROVE  r.confirmed /\ Accepted(file')
    <3>1. Task(g)' = Task(g) /\ r \in replies  BY <1>9, <2>4
    <3>2. ~Quiet(g)  BY <1>3, <2>4, <3>1 DEF Once, At
    <3>3. file' = file  BY <1>10, <3>1, <3>2
    <3> QED BY <1>2, <2>4, <3>1, <3>3 DEF Undisturbed
  <2>5. \A f : Accepted(f)' <=> Accepted(f)  BY DEF Accepted
  <2> QED BY <2>1, <2>2, <2>3, <2>4, <2>5 DEF Undisturbed, Accepted
<1> QED BY <1>6, <1>12

\* A task that waits has its own file in place, and a load finds its revision.
LEMMA MineRefreshed ==
    ASSUME Shapes, NEW g \in Gateway, Working(g), file = Mine(g),
           cache.hit => cache.rev = Task(g).rev
    PROVE  Refreshed.rev = Task(g).rev /\ (LoadFails => ~Usable(Task(g).recs))
<1>1. file # None /\ file.rev = Task(g).rev /\ file.recs = Task(g).recs
  BY GenerationAssumption DEF Shapes, Mine
<1> QED BY <1>1 DEF Refreshed, LoadFails, Accepted

LEMMA AloneKeptByProxy ==
    ASSUME TypeOK, Shapes, Once, Alone, Next, ProxyActs, ~mixed'
    PROVE  /\ \A g, h \in Gateway : ~Quiet(g)' /\ ~Quiet(h)' => g = h
           /\ \A g \in Gateway : Undisturbed(g)'
<1>1. ~mixed  BY MixedSteps
<1>2. \A g \in Gateway : Undisturbed(g)  BY <1>1 DEF Alone, Undisturbed
<1>3. file' = file /\ \A g \in Gateway : Task(g)' = Task(g)  BY ProxyOnly
<1>4. \A g, h \in Gateway : ~Quiet(g)' /\ ~Quiet(h)' => g = h
  BY <1>1, <1>3 DEF Alone, Quiet, Task
<1>5. ASSUME NEW g \in Gateway, At(g, "wait")
      PROVE  /\ Working(g) /\ file = Mine(g)
             /\ Task(g).rev \in Nat
  <2>1. Working(g) /\ Placed(g)  BY <1>5 DEF At, Working, Placed
  <2> QED BY <1>2, <2>1 DEF Undisturbed, Shapes, TypeOK
<1>6. ASSUME NEW g \in Gateway, Serves(g)
      PROVE  Refreshed.rev = Task(g).rev /\ (LoadFails => ~Usable(Task(g).recs))
  <2>1. At(g, "wait")  BY <1>6 DEF Serves
  <2> QED BY <1>2, <1>5, <1>6, <2>1, MineRefreshed DEF Undisturbed
<1>7. \A r \in replies' : r.to \in Gateway
  <2>1. TypeOK'  BY ProxyTyped DEF ProxyActs
  <2> QED BY <2>1 DEF TypeOK, ReplyType
<1>8. ASSUME NEW g \in Gateway PROVE Undisturbed(g)'
  <2>1. Placed(g)' => file' = Mine(g)'  BY <1>2, <1>3 DEF Placed, Mine, Undisturbed
  <2>2. ASSUME IsRefused(g)' PROVE ~Usable(Task(g)'.recs)
    <3>1. CASE IsRefused(g)  BY <1>2, <1>3, <3>1 DEF Undisturbed
    <3>2. ASSUME NEW r \in replies', r \notin replies, r.to = g, r.status = "refused"
          PROVE  ~Usable(Task(g)'.recs)
      <4>1. Serves(g) /\ LoadFails  BY <3>2, NewReplies
      <4> QED BY <1>3, <1>6, <4>1
    <3> QED BY <1>3, <2>2, <3>1, <3>2 DEF IsRefused, At
  <2>3. ASSUME Serves(g)'
        PROVE  /\ cache'.hit => cache'.rev = Task(g)'.rev
               /\ proxy'.pc \in Past => Accepted(file')
    <3>1. proxy'.pc # "idle"  BY <2>3 DEF Serves
    <3>2. At(g, "wait")  BY <1>3, <2>3 DEF Serves, At
    <3>3. ASSUME proxy'.call = proxy.call, proxy.pc # "idle" PROVE Serves(g)
      BY <1>3, <2>3, <3>3 DEF Serves, At
    <3>4. CASE \E c \in asked : Reload(c) /\ proxy'.pc = "values" /\ ~cache'.hit
      BY <3>4 DEF Past
    <3>5. CASE proxy.pc = "values" /\ proxy'.call = proxy.call /\ cache' = Refreshed /\ ~LoadFails
      <4>1. Serves(g) /\ ~cache.hit  BY <3>3, <3>5 DEF Shapes
      <4>2. Accepted(file)  BY <3>5, <4>1 DEF LoadFails
      <4> QED BY <1>3, <1>6, <3>5, <4>1, <4>2 DEF Accepted
    <3>6. CASE proxy.pc \in Past /\ proxy'.call = proxy.call /\ cache' \in {cache, Refreshed}
      <4>1. Serves(g)  BY <3>3, <3>6 DEF Past
      <4> QED BY <1>2, <1>3, <1>6, <3>6, <4>1 DEF Undisturbed, Accepted
    <3> QED BY <3>1, <3>4, <3>5, <3>6, HandlerSteps DEF Past
  <2>4. ASSUME NEW r \in replies', r.to = g, r.status = "reloaded"
        PROVE  r.confirmed /\ Accepted(file')
    <3>1. CASE r \in replies
      BY <1>2, <1>3, <2>4, <3>1 DEF Undisturbed, Accepted
    <3>2. CASE r \notin replies
      <4>1. /\ Serves(g) /\ proxy.pc = "counts"
            /\ r.confirmed <=> Refreshed.rev = proxy.call.rev
        BY <2>4, <3>2, NewReplies
      <4>2. r.confirmed  BY <1>6, <4>1 DEF Serves
      <4>3. Accepted(file)  BY <1>2, <4>1 DEF Undisturbed, Past
      <4> QED BY <1>3, <4>2, <4>3 DEF Accepted
    <3> QED BY <3>1, <3>2
  <2> QED BY <2>1, <2>2, <2>3, <2>4 DEF Undisturbed
<1> QED BY <1>4, <1>8

LEMMA AloneKept ==
    ASSUME TypeOK, Shapes, Once, Alone, Next
    PROVE  Alone'
<1> SUFFICES ASSUME ~mixed'
             PROVE  /\ \A g, h \in Gateway : ~Quiet(g)' /\ ~Quiet(h)' => g = h
                    /\ \A g \in Gateway : Undisturbed(g)'
  BY DEF Alone, Undisturbed
<1> QED BY AloneKeptByGateway, AloneKeptByProxy DEF Next, GatewayActs, ProxyActs, Ops

LEMMA UnjudgedSteps ==
    ASSUME TypeOK, Next, ~unjudged'
    PROVE  ~unjudged
<1>1. ProxyActs => ~unjudged  BY ProxyOnly
<1>2. ASSUME NEW g \in Gateway, Crash(g)
      PROVE  ~unjudged
  <2> DEFINE Left == Task(g).pc \in {"ask", "wait", "rollback"}
  <2>1. unjudged' = (unjudged \/ Left)  BY <1>2 DEF Crash
  <2>2. Left \in BOOLEAN /\ unjudged \in BOOLEAN  BY DEF TypeOK
  <2> HIDE DEF Left
  <2> QED BY <2>1, <2>2
<1>3. ASSUME NEW g \in Gateway, Answer(g) PROVE ~unjudged
  <2>1. PICK r \in replies : Reads(g, r)  BY <1>3, AnswerTask
  <2> QED BY <2>1 DEF Reads
<1>4. ASSUME NEW g \in Gateway,
             (\E op \in Ops : Submit(g, op)) \/ Begin(g) \/ Render(g) \/ Write(g) \/ Ask(g)
                \/ GiveUp(g) \/ RollBack(g) \/ WriteFails(g) \/ RollBackFails(g)
      PROVE  ~unjudged
  BY <1>4 DEF Submit, Begin, Render, Write, Ask, GiveUp, RollBack, WriteFails, RollBackFails
<1> QED BY <1>1, <1>2, <1>3, <1>4 DEF Next, GatewayStep, ProxyActs, Ops

\* A task that is over leaves a file that was accepted, or a mark.
LEMMA EndsJudged ==
    ASSUME TypeOK, Shapes, Once, Alone, Judged, Next, ~mixed, ~unjudged, ~unjudged',
           NEW g \in Gateway, ~Quiet(g), Task(g)' = Idle, GatewayActs
    PROVE  Accepted(file')
<1>1. /\ Accepted(Task(g).previous)
      /\ Task(g).pc \in {"list", "write"} => file = Task(g).previous
  BY DEF Judged
<1>2. Quiet(g)' /\ Task(g)' # Task(g)  BY IdleShape DEF Quiet, Task
<1>3. ASSUME NEW k \in Gateway, Others(k) PROVE k = g  BY <1>2, <1>3 DEF Others
<1>4. ASSUME NEW k \in Gateway, (\E op \in Ops : Submit(k, op)) \/ Begin(k) \/ Ask(k)
      PROVE  FALSE
  <2>1. CASE \E op \in Ops : Submit(k, op)  BY <1>2, <2>1, SubmitTasks
  <2>2. CASE Begin(k)
    <3>1. Others(k) /\ Task(k)'.pc = "list"  BY <2>2, BeginTask
    <3> QED BY <1>3, <3>1, IdleShape
  <2>3. CASE Ask(k)
    <3>1. Moves(k, "wait")  BY <2>3, AskTask
    <3> QED BY <1>3, <3>1, IdleShape DEF Moves
  <2> QED BY <1>4, <2>1, <2>2, <2>3
<1>5. ASSUME NEW k \in Gateway, Render(k) \/ WriteFails(k)
      PROVE  Accepted(file')
  <2>1. k = g  BY <1>3, <1>5, RenderTask, EndTask
  <2>2. Task(g).pc \in {"list", "write"} /\ file' = file
    BY <1>5, <2>1 DEF Render, WriteFails, At
  <2> QED BY <1>1, <2>2 DEF Accepted
<1>6. ASSUME NEW k \in Gateway, Write(k) PROVE FALSE
  <2>1. Moves(k, "ask")  BY <1>6, WriteTask
  <2> QED BY <1>3, <2>1, IdleShape DEF Moves
<1>7. ASSUME NEW k \in Gateway, Answer(k) PROVE Accepted(file')
  <2>1. PICK r \in replies : Reads(k, r)  BY <1>7, AnswerTask
  <2>2. k = g /\ file' = file /\ r.to = g  BY <1>3, <2>1 DEF Reads, Moves
  <2>3. ~Moves(g, "rollback")  BY IdleShape DEF Moves
  <2>4. r.status = "reloaded" /\ r.confirmed  BY <2>1, <2>2, <2>3 DEF Reads
  <2> QED BY <2>2, <2>4 DEF Alone, Accepted
<1>8. ASSUME NEW k \in Gateway, GiveUp(k) \/ RollBackFails(k) PROVE FALSE
  BY <1>8 DEF GiveUp, RollBackFails
<1>9. ASSUME NEW k \in Gateway, RollBack(k) PROVE Accepted(file')
  <2>1. k = g  BY <1>3, <1>9, EndTask
  <2>2. file' = Task(g).previous  BY <1>9, <2>1 DEF RollBack, Replaced
  <2> QED BY <1>1, <2>2 DEF Accepted
<1>10. ASSUME NEW k \in Gateway, Crash(k) PROVE Accepted(file')
  <2>1. k = g /\ file' = file  BY <1>3, <1>10, CrashTask DEF Crash
  <2> DEFINE Left == Task(g).pc \in {"ask", "wait", "rollback"}
  <2>2. unjudged' = (unjudged \/ Left)  BY <1>10, <2>1 DEF Crash
  <2>3. Left \in BOOLEAN /\ unjudged \in BOOLEAN  BY DEF TypeOK
  <2> HIDE DEF Left
  <2>4. ~Left  BY <2>2, <2>3
  <2>5. Task(g).pc \in {"list", "write"}  BY <2>4 DEF Left, TypeOK, Task, TaskType, Quiet
  <2> QED BY <1>1, <2>1, <2>5 DEF Accepted
<1> QED BY <1>4, <1>5, <1>6, <1>7, <1>8, <1>9, <1>10 DEF GatewayActs, GatewayStep

LEMMA JudgedKept ==
    ASSUME TypeOK, Shapes, Once, Alone, Judged, Next
    PROVE  Judged'
<1> SUFFICES ASSUME ~mixed', ~unjudged'
             PROVE  /\ (\A g \in Gateway : Quiet(g)') => Accepted(file')
                    /\ \A g \in Gateway : ~Quiet(g)' => Accepted(Task(g)'.previous)
                    /\ \A g \in Gateway : Task(g)'.pc \in {"list", "write"} => file' = Task(g)'.previous
  BY DEF Judged, Accepted
<1>1. ~mixed /\ ~unjudged  BY MixedSteps, UnjudgedSteps
<1>2. /\ (\A g \in Gateway : Quiet(g)) => Accepted(file)
      /\ \A g \in Gateway : ~Quiet(g) => Accepted(Task(g).previous)
      /\ \A g \in Gateway : Task(g).pc \in {"list", "write"} => file = Task(g).previous
  BY <1>1 DEF Judged
<1>3. /\ \A g \in Gateway : Quiet(g) <=> Task(g).pc = "idle"
      /\ \A g \in Gateway : Quiet(g)' <=> Task(g)'.pc = "idle"
  BY DEF Quiet, Task
<1>4. CASE ProxyActs
  BY <1>2, <1>3, <1>4, ProxyOnly DEF Accepted
<1>5. CASE GatewayActs
  <2>1. ASSUME \A g \in Gateway : Quiet(g)' PROVE Accepted(file')
    <3>1. CASE \A g \in Gateway : Quiet(g)
      <4>1. ASSUME NEW g \in Gateway PROVE ~Write(g) /\ ~RollBack(g)
        BY <1>3, <3>1 DEF Write, RollBack, At
      <4> QED BY <1>2, <3>1, <4>1, FileSteps DEF Accepted
    <3>2. ASSUME NEW g \in Gateway, ~Quiet(g) PROVE Accepted(file')
      <4>1. Task(g)' = Idle
        BY <1>3, <2>1, <3>2, TaskTurns, IdleShape DEF TurnOf, Moves
      <4> QED BY <1>1, <1>5, <3>2, <4>1, EndsJudged
    <3> QED BY <3>1, <3>2
  <2>2. ASSUME NEW g \in Gateway, ~Quiet(g)' PROVE Accepted(Task(g)'.previous)
    <3>1. CASE ~Quiet(g)
      <4>1. Task(g)'.previous = Task(g).previous
        BY <1>3, <2>2, <3>1, TaskTurns, IdleShape DEF TurnOf, Moves
      <4> QED BY <1>2, <3>1, <4>1
    <3>2. CASE Quiet(g)
      <4>1. Begin(g) /\ Task(g)'.previous = file
        BY <1>3, <2>2, <3>2, TaskTurns, IdleShape DEF TurnOf, Moves, At
      <4>2. \A h \in Gateway : Quiet(h)  BY <3>2, <4>1, MixedSteps
      <4> QED BY <1>2, <4>1, <4>2
    <3> QED BY <3>1, <3>2
  <2>3. ASSUME NEW g \in Gateway, Task(g)'.pc \in {"list", "write"}
        PROVE  file' = Task(g)'.previous
    <3>1. CASE Quiet(g)
      <4>1. Begin(g) /\ Task(g)'.previous = file
        BY <1>3, <2>3, <3>1, TaskTurns, IdleShape DEF TurnOf, Moves, At
      <4>2. file' = file  BY <4>1 DEF Begin
      <4> QED BY <4>1, <4>2
    <3>2. CASE ~Quiet(g)
      <4>1. Task(g)'.previous = Task(g).previous /\ Task(g).pc \in {"list", "write"}
            /\ ~Write(g) /\ ~RollBack(g)
        <5>1. CASE Task(g)' = Task(g)
          <6>1. Write(g) => Task(g)' # Task(g)
            <7>1. Write(g) => At(g, "write")  BY DEF Write
            <7> QED BY <7>1, WriteTask, IdleShape DEF Moves, At
          <6> QED BY <2>3, <5>1, <6>1 DEF RollBack, At
        <5>2. CASE Render(g) /\ At(g, "list") /\ Task(g)'.previous = Task(g).previous
          BY <5>2 DEF At, Write, RollBack
        <5> QED BY <1>3, <2>3, <3>2, <5>1, <5>2, TaskTurns, IdleShape DEF TurnOf, Moves, At
      <4>2. file' = file  BY <1>1, <3>2, <4>1, FileStays
      <4> QED BY <1>2, <4>1, <4>2
    <3> QED BY <3>1, <3>2
  <2> QED BY <2>1, <2>2, <2>3
<1> QED BY <1>4, <1>5 DEF Next, GatewayActs, ProxyActs, Ops

-----------------------------------------------------------------------------
(* Two tasks at a time                                                      *)

\* One task waits behind another that has replaced its file.
Follows(g, h) ==
    /\ g # h /\ Task(g).pc \in {"ask", "wait"} /\ Placed(h)
    /\ Task(h).previous # None /\ Task(h).previous.rev = Task(g).rev

LEMMA OvertakenKeptByGateway ==
    ASSUME TypeOK, Shapes, Unwritten, Once, Overtaken, Next, GatewayActs, AtMostTwo,
           NEW g \in Gateway, NEW h \in Gateway, Follows(g, h)'
    PROVE  /\ file' = Mine(h)'
           /\ IsRefused(h)' => ~Usable(Task(h)'.recs) /\ ~(Serves(g)' /\ proxy'.pc \in Past)
<1>1. /\ g # h /\ Task(g)'.pc \in {"ask", "wait"} /\ Task(h)'.pc \in {"ask", "wait", "rollback"}
      /\ Task(h)'.previous # None /\ Task(h)'.previous.rev = Task(g)'.rev
  BY DEF Follows, Placed
<1>2. proxy' = proxy  BY Apart DEF GatewayActs
<1>3. replies' \subseteq replies /\ \A r \in replies' : Task(r.to)' = Task(r.to)
  BY RepliesOfGateway
<1>4. Once'  BY OnceKeptByGateway
<1>5. ~Write(g)
  <2>1. ASSUME Write(g) PROVE FALSE
    <3>1. At(g, "write")  BY <2>1 DEF Write
    <3>2. Moves(g, "ask")  BY <1>1, <2>1, WriteTask, IdleShape
    <3>3. Task(h)'.previous = Task(h).previous /\ Task(g)'.rev = Task(g).rev
      BY <1>1, <3>2 DEF Moves, Others
    <3> QED BY <1>1, <3>1, <3>3 DEF Unwritten
  <2> QED BY <2>1
<1>6. \/ Task(g)' = Task(g)
      \/ Ask(g) /\ At(g, "ask") /\ Moves(g, "wait")
  BY <1>1, <1>5, TaskTurns, IdleShape DEF TurnOf, Moves
<1>7. CASE Write(h)
  <2>1. file' = [rev |-> Task(h).rev, recs |-> Task(h).recs]  BY <1>7 DEF Write, Replaced
  <2>2. Moves(h, "ask")  BY <1>1, <1>7, WriteTask, IdleShape
  <2>3. file' = Mine(h)' /\ Task(h)'.pc = "ask"  BY <2>1, <2>2 DEF Mine, Moves
  <2>4. ~IsRefused(h)'  BY <1>4, <2>3 DEF Once, IsRefused, At
  <2> QED BY <2>3, <2>4
<1>8. CASE ~Write(h)
  <2>1. \/ Task(h)' = Task(h)
        \/ Ask(h) /\ At(h, "ask") /\ Moves(h, "wait")
        \/ At(h, "wait") /\ Moves(h, "rollback") /\ \E r \in replies : Reads(h, r) /\ r.status = "refused"
    BY <1>1, <1>8, TaskTurns, IdleShape DEF TurnOf, Moves
  <2>2. Placed(h) /\ Mine(h)' = Mine(h) /\ Task(h)'.previous = Task(h).previous
        /\ Task(h)'.recs = Task(h).recs
    BY <1>1, <2>1 DEF Placed, Mine, Moves, At
  <2>3. Task(g).pc \in {"ask", "wait"} /\ Task(g)'.rev = Task(g).rev
    BY <1>1, <1>6 DEF Moves, At
  <2>4. /\ file = Mine(h)
        /\ IsRefused(h) => ~Usable(Task(h).recs) /\ ~(Serves(g) /\ proxy.pc \in Past)
    BY <1>1, <2>2, <2>3 DEF Overtaken
  <2>5. file' = file
    <3>1. \A k \in Gateway : k = g \/ k = h  BY <1>1 DEF AtMostTwo
    <3>2. ~RollBack(g) /\ ~RollBack(h)
      BY <1>1, EndTask, IdleShape
    <3> QED BY <1>5, <1>8, <3>1, <3>2, FileSteps
  <2>6. ASSUME IsRefused(h)' PROVE ~Usable(Task(h)'.recs) /\ ~(Serves(g)' /\ proxy'.pc \in Past)
    <3>1. IsRefused(h)
      <4>1. CASE Task(h)' = Task(h)  BY <1>3, <2>6, <4>1 DEF IsRefused, At
      <4>2. CASE At(h, "wait") /\ \E r \in replies : Reads(h, r) /\ r.status = "refused"
        BY <4>2 DEF IsRefused, Reads
      <4>3. CASE Ask(h) /\ At(h, "ask") /\ Moves(h, "wait")
        <5>1. Task(h)' # Task(h) /\ Task(h)'.pc = "wait"  BY <4>3 DEF Moves, At
        <5> QED BY <1>3, <2>6, <5>1 DEF IsRefused, At
      <4> QED BY <2>1, <4>1, <4>2, <4>3
    <3>2. Serves(g)' => Serves(g)
      <4>1. CASE Task(g)' = Task(g)  BY <1>2, <4>1 DEF Serves, At
      <4>2. CASE At(g, "ask") /\ Moves(g, "wait")
        BY <1>2, <4>2 DEF Serves, Once, At, Moves
      <4> QED BY <1>6, <4>1, <4>2
    <3> QED BY <1>2, <2>2, <2>4, <3>1, <3>2
  <2> QED BY <2>2, <2>4, <2>5, <2>6
<1> QED BY <1>7, <1>8

LEMMA OvertakenKeptByProxy ==
    ASSUME TypeOK, Shapes, Once, Overtaken, Next, ProxyActs, AtMostTwo,
           NEW g \in Gateway, NEW h \in Gateway, Follows(g, h)'
    PROVE  /\ file' = Mine(h)'
           /\ IsRefused(h)' => ~Usable(Task(h)'.recs) /\ ~(Serves(g)' /\ proxy'.pc \in Past)
<1>1. file' = file /\ \A k \in Gateway : Task(k)' = Task(k)  BY ProxyOnly
<1>2. Follows(g, h)  BY <1>1 DEF Follows, Placed
<1>3. /\ file = Mine(h) /\ Mine(h)' = Mine(h)
      /\ IsRefused(h) => ~Usable(Task(h).recs) /\ ~(Serves(g) /\ proxy.pc \in Past)
  BY <1>1, <1>2 DEF Follows, Overtaken, Mine
<1>4. file # None /\ file.recs = Task(h).recs
  BY <1>2, <1>3, GenerationAssumption DEF Follows, Placed, Working, Shapes, Mine
<1>5. CASE IsRefused(h)
  <2>1. ~Usable(Task(h)'.recs)  BY <1>1, <1>3, <1>5
  <2>2. ASSUME Serves(g)', proxy'.pc \in Past PROVE FALSE
    <3>1. proxy'.pc # "idle" /\ proxy'.pc # "values"  BY <2>2 DEF Past
    <3>2. ASSUME proxy'.call = proxy.call, proxy.pc # "idle" PROVE Serves(g)
      BY <1>1, <2>2, <3>2 DEF Serves, At
    <3>3. CASE proxy.pc = "values" /\ ~LoadFails
      <4>1. ~cache.hit  BY <3>3 DEF Shapes
      <4>2. Usable(file.recs)  BY <1>4, <3>3, <4>1 DEF LoadFails, Accepted
      <4> QED BY <1>3, <1>4, <1>5, <4>2
    <3>4. CASE proxy.pc \in Past /\ proxy'.call = proxy.call
      BY <1>3, <1>5, <3>2, <3>4 DEF Past
    <3> QED BY <3>1, <3>3, <3>4, HandlerSteps DEF Past
  <2> QED BY <1>1, <1>3, <2>1, <2>2
<1>6. ASSUME ~IsRefused(h), IsRefused(h)'
      PROVE  ~Usable(Task(h)'.recs) /\ ~(Serves(g)' /\ proxy'.pc \in Past)
  <2>1. PICK r \in replies' : r \notin replies /\ r.to = h /\ r.status = "refused"
    BY <1>1, <1>6 DEF IsRefused, At
  <2>2. LoadFails  BY <2>1, NewReplies
  <2>3. ~Usable(Task(h)'.recs)  BY <1>1, <1>4, <2>2 DEF LoadFails, Accepted
  <2>4. proxy'.pc \in {"idle", "values"}
    <3>1. proxy'.pc # "idle" /\ proxy'.pc # "values" => replies' = replies
      BY HandlerSteps
    <3> QED BY <2>1, <3>1
  <2> QED BY <2>3, <2>4 DEF Past
<1> QED BY <1>1, <1>3, <1>5, <1>6

LEMMA OvertakenKept ==
    ASSUME TypeOK, Shapes, Unwritten, Once, Overtaken, Next
    PROVE  Overtaken'
<1> SUFFICES ASSUME AtMostTwo, NEW g \in Gateway, NEW h \in Gateway, Follows(g, h)'
             PROVE  /\ file' = Mine(h)'
                    /\ IsRefused(h)' => ~Usable(Task(h)'.recs) /\ ~(Serves(g)' /\ proxy'.pc \in Past)
  BY DEF Overtaken, AtMostTwo, Follows, Usable
<1> QED BY OvertakenKeptByGateway, OvertakenKeptByProxy DEF Next, GatewayActs, ProxyActs, Ops

\* A file that is gone for the handler does not come back while it runs.
LEMMA GoneForGood ==
    ASSUME TypeOK, Shapes, Alone, Overtaken, Next, GatewayActs, NEW g \in Gateway,
           Serves(g), proxy.pc \in Past, mixed => AtMostTwo, Gone(g), Task(g)' = Task(g)
    PROVE  Gone(g)'
<1>1. cache'.hit => cache.hit /\ cache'.rev = cache.rev
  BY MemoOfGateway, StaleMemo DEF GatewayActs
<1>2. At(g, "wait") /\ Working(g)  BY DEF Serves, At, Working
<1>3. ASSUME NEW k \in Gateway, Write(k) PROVE Mine(k).rev # Task(g).rev
  <2>1. At(k, "write") /\ Working(k)  BY <1>3 DEF Write, At, Working
  <2> QED BY <1>2, <2>1 DEF Shapes, At, Mine
<1>4. ASSUME NEW k \in Gateway, RollBack(k), Task(k).previous # None
      PROVE  Task(k).previous.rev # Task(g).rev
  <2>1. At(k, "rollback") /\ k # g  BY <1>2, <1>4 DEF RollBack, At
  <2>2. mixed  BY <1>2, <2>1 DEF Alone, Quiet, At, Task
  <2>3. IsRefused(k) /\ Placed(k)  BY <2>1 DEF IsRefused, Placed, At
  <2> QED BY <1>2, <1>4, <2>1, <2>2, <2>3 DEF Overtaken, At
<1>5. file' # None => file'.rev # Task(g).rev
  BY <1>3, <1>4, FileSteps DEF Gone
<1> QED BY <1>1, <1>5 DEF Gone

\* Nor does the loader find it.
LEMMA GoneForLoads ==
    ASSUME TypeOK, Shapes, ProxyActs, NEW g \in Gateway, At(g, "wait"),
           file # None => file.rev # Task(g).rev,
           cache' = Refreshed, cache.hit => Gone(g)
    PROVE  Gone(g)'
<1>1. file' = file /\ Task(g)' = Task(g)  BY ProxyOnly
<1>2. Task(g).rev \in Nat
  BY DEF At, Shapes, Working, TypeOK
<1> QED BY <1>1, <1>2 DEF Refreshed, Gone

LEMMA InTouchKept ==
    ASSUME TypeOK, Shapes, Contents, Once, Alone, Overtaken, InTouch, Next
    PROVE  InTouch'
<1> SUFFICES ASSUME NEW g \in Gateway, Serves(g)', mixed' => AtMostTwo
             PROVE  /\ proxy'.pc = "records" => (cache'.hit => cache'.rev = Task(g)'.rev) \/ Gone(g)'
                    /\ proxy'.pc \in {"discover", "apply", "counts"} =>
                          proxy'.loaded = Loaded(Task(g)'.recs) \/ Gone(g)'
  BY DEF InTouch, AtMostTwo, Loaded, SharedForms, Entities, AllSurfaces, Surfaces, Literal
<1>1. mixed => AtMostTwo
  <2>1. ~mixed' => ~mixed  BY MixedSteps
  <2> QED BY <2>1
<1>2. CASE GatewayActs
  <2>1. proxy' = proxy  BY <1>2, Apart DEF GatewayActs
  <2>2. cache'.hit => cache.hit /\ cache'.rev = cache.rev
    BY <1>2, MemoOfGateway, StaleMemo DEF GatewayActs
  <2>3. Task(g)'.pc = "wait" /\ proxy.pc # "idle" /\ proxy.call.rev = Task(g)'.rev
    BY <2>1 DEF Serves, At
  <2>4. ~(At(g, "ask") /\ Moves(g, "wait"))  BY <2>3 DEF Once, At, Moves
  <2>5. Task(g)' = Task(g)
    BY <2>3, <2>4, TaskTurns, IdleShape DEF TurnOf, Moves
  <2>6. Serves(g)  BY <2>1, <2>5 DEF Serves, At
  <2>7. proxy.pc \in Past /\ Gone(g) => Gone(g)'
    BY <1>1, <1>2, <2>5, <2>6, GoneForGood
  <2> QED BY <1>1, <2>1, <2>2, <2>5, <2>6, <2>7 DEF InTouch, Past
<1>3. CASE ProxyActs
  <2>1. file' = file /\ Task(g)' = Task(g)  BY <1>3, ProxyOnly
  <2>2. proxy'.pc # "idle" /\ At(g, "wait") /\ Working(g)
    BY <2>1 DEF Serves, At, Working
  <2>3. Task(g).rev \in Nat  BY <2>2 DEF Shapes, TypeOK
  <2>4. ASSUME proxy'.call = proxy.call, proxy.pc # "idle" PROVE Serves(g)
    BY <2>1, <2>4 DEF Serves, At
  <2>5. Held(Mine(g)) /\ Mine(g).rev = Task(g).rev /\ Mine(g).recs = Task(g).recs
    BY <2>2, GenerationAssumption DEF Held, Mine, Shapes
  <2>6. Gone(g) /\ cache' \in {cache, Refreshed} => Gone(g)'
    <3>1. Gone(g) /\ cache' = cache => Gone(g)'  BY <2>1 DEF Gone
    <3>2. Gone(g) /\ cache' = Refreshed => Gone(g)'
      BY <1>3, <2>2, GoneForLoads DEF Gone
    <3> QED BY <3>1, <3>2
  <2>7. CASE proxy'.pc = "values"  BY <2>7
  <2>8. CASE LoadValues /\ proxy.pc = "values" /\ proxy'.pc = "records" /\ cache' = Refreshed
    <3>1. ~cache.hit  BY <2>8 DEF Shapes
    <3>2. CASE file # None /\ file.rev = Task(g).rev
      <4>1. cache'.rev = Task(g)'.rev  BY <2>1, <2>8, <3>1, <3>2 DEF Refreshed
      <4> QED BY <2>8, <4>1
    <3>3. CASE ~(file # None /\ file.rev = Task(g).rev)
      <4>1. Gone(g)'  BY <1>3, <2>2, <2>8, <3>1, <3>3, GoneForLoads
      <4> QED BY <2>8, <4>1
    <3> QED BY <3>2, <3>3
  <2>9. CASE /\ LoadRecords /\ proxy.pc = "records" /\ proxy'.pc = "discover"
             /\ proxy'.call = proxy.call /\ proxy'.loaded = Refreshed.recs /\ cache' = Refreshed
    <3>1. Serves(g)  BY <2>4, <2>9
    <3>2. (cache.hit => cache.rev = Task(g).rev) \/ Gone(g)
      BY <1>1, <2>9, <3>1 DEF InTouch
    <3>3. CASE Gone(g)  BY <2>6, <2>9, <3>3
    <3>4. CASE cache.hit /\ cache.rev = Task(g).rev
      <4>1. proxy'.loaded = cache.recs  BY <2>9, <3>4 DEF Refreshed
      <4>2. cache.recs = Loaded(Task(g).recs)  BY <2>5, <3>4 DEF Contents
      <4> QED BY <2>1, <2>9, <4>1, <4>2
    <3>5. CASE ~cache.hit /\ file # None /\ file.rev = Task(g).rev
      <4>1. proxy'.loaded = Loaded(file.recs)  BY <2>9, <3>5 DEF Refreshed, RecordsOf
      <4>2. Held(file)  BY <3>5 DEF Held
      <4>3. file.recs = Task(g).recs  BY <2>5, <3>5, <4>2 DEF Contents
      <4> QED BY <2>1, <2>9, <4>1, <4>3
    <3>6. CASE ~cache.hit /\ ~(file # None /\ file.rev = Task(g).rev)
      <4>1. Gone(g)'  BY <1>3, <2>2, <2>9, <3>6, GoneForLoads
      <4> QED BY <2>9, <4>1
    <3> QED BY <3>2, <3>3, <3>4, <3>5, <3>6
  <2>10. CASE /\ proxy.pc \in {"discover", "apply"} /\ proxy'.pc \in {"apply", "counts"}
              /\ proxy'.call = proxy.call /\ proxy'.loaded = proxy.loaded
              /\ cache' \in {cache, Refreshed}
    <3>1. Serves(g)  BY <2>4, <2>10
    <3>2. proxy.loaded = Loaded(Task(g).recs) \/ Gone(g)
      BY <1>1, <2>10, <3>1 DEF InTouch
    <3> QED BY <2>1, <2>6, <2>10, <3>2
  <2> QED BY <1>3, <2>2, <2>7, <2>8, <2>9, <2>10, HandlerSteps
<1> QED BY <1>2, <1>3 DEF Next, GatewayActs, ProxyActs, Ops

-----------------------------------------------------------------------------
(* What is in force                                                         *)

\* A registry in which nothing active is gone or changed holds no more than
\* what is active and what is new.
LEMMA NothingDeferred ==
    ASSUME TypeOK, NEW l \in LoadedRecs, ~Deferred(l)
    PROVE  AllSurfaces(l) \subseteq AllSurfaces(proxy.active) \cup AllSurfaces(NewRecords(l))
<1>1. ASSUME NEW k \in DOMAIN l
      PROVE  Surfaces(l[k]) \subseteq AllSurfaces(proxy.active) \cup AllSurfaces(NewRecords(l))
  <2>1. CASE k \in DOMAIN proxy.active
    <3>1. l[k] = proxy.active[k]  BY <2>1 DEF Deferred
    <3> QED BY <2>1, <3>1 DEF AllSurfaces
  <2>2. CASE k \notin DOMAIN proxy.active
    <3>1. k \in DOMAIN NewRecords(l) /\ NewRecords(l)[k] = l[k]
      BY <1>1, <2>2 DEF NewRecords, Restrict
    <3> QED BY <3>1 DEF AllSurfaces
  <2> QED BY <2>1, <2>2
<1> QED BY <1>1 DEF AllSurfaces

\* What the proxy protects grows until it stops; then it is another process.
LEMMA ProtectionSteps ==
    ASSUME TypeOK, Shapes, InForce, ProxyActs
    PROVE  /\ AllSurfaces(proxy'.active) \subseteq proxy'.values
           /\ proxy'.pc = "counts" /\ ~proxy'.restart => AllSurfaces(proxy'.loaded) \subseteq proxy'.values
           /\ \/ proxy'.up = proxy.up /\ proxy'.starts = proxy.starts
                 /\ proxy.values \subseteq proxy'.values
              \/ ~proxy'.up /\ request' = None /\ proxy'.starts = proxy.starts
              \/ ~proxy.up /\ proxy'.starts > proxy.starts /\ request' = request
<1>1. proxy \in ProxyType /\ cache \in CacheType /\ proxy.starts \in Nat
  BY DEF TypeOK, ProxyType
<1>2. AllSurfaces(proxy.active) \subseteq proxy.values  BY DEF InForce
<1>3. AllSurfaces(Nothing) = {}  BY DEF AllSurfaces, Nothing
<1>4. /\ Return.pc = "idle" /\ Return.up = proxy.up /\ Return.starts = proxy.starts
      /\ Return.active = proxy.active /\ Return.values = proxy.values
  BY <1>1 DEF Return, ProxyType
<1>5. CASE \E c \in asked : Reload(c)
  BY <1>1, <1>2, <1>5 DEF Reload, ProxyType
<1>6. ASSUME proxy' = Return
      PROVE  /\ AllSurfaces(proxy'.active) \subseteq proxy'.values /\ proxy'.pc = "idle"
             /\ proxy'.up = proxy.up /\ proxy'.starts = proxy.starts /\ proxy'.values = proxy.values
  BY <1>2, <1>4, <1>6
<1>7. CASE LoadValues
  <2>1. CASE proxy' = Return  BY <1>6, <2>1
  <2>2. CASE proxy' = [proxy EXCEPT !.pc = "records"]
    BY <1>1, <1>2, <2>2 DEF ProxyType
  <2> QED BY <1>7, <2>1, <2>2 DEF LoadValues, Refuse
<1>8. CASE LoadRecords
  <2> DEFINE l == Refreshed.recs
  <2>1. CASE proxy' = Return  BY <1>6, <2>1
  <2>2. CASE proxy' = [proxy EXCEPT !.pc = "discover", !.loaded = l]
    <3> HIDE DEF l
    <3> QED BY <1>1, <1>2, <2>2 DEF ProxyType
  <2> QED BY <1>8, <2>1, <2>2 DEF LoadRecords, Refuse
<1>9. CASE Discover
  <2> DEFINE e == LoadFails \/ file = None
  <2>1. proxy' = [proxy EXCEPT !.pc = "apply", !.errored = e]  BY <1>9 DEF Discover
  <2> HIDE DEF e
  <2> QED BY <1>1, <1>2, <2>1 DEF ProxyType
<1>10. CASE ReloadRegistryValues
  <2> DEFINE a == Extended(proxy.loaded)
             n == AllSurfaces(NewRecords(proxy.loaded))
             d == Deferred(proxy.loaded)
  <2>1. proxy' = [proxy EXCEPT !.pc = "counts", !.active = a,
                               !.values = proxy.values \cup n, !.restart = d]
    BY <1>10 DEF ReloadRegistryValues
  <2>2. proxy.loaded \in LoadedRecs  BY <1>1 DEF ProxyType
  <2>3. AllSurfaces(a) = AllSurfaces(proxy.active) \cup n  BY <2>2, NewSurfaces
  <2>4. ~d => AllSurfaces(proxy.loaded) \subseteq AllSurfaces(proxy.active) \cup n
    BY <2>2, NothingDeferred
  <2> HIDE DEF a, n, d
  <2>5. /\ proxy'.pc = "counts" /\ proxy'.active = a /\ proxy'.values = proxy.values \cup n
        /\ proxy'.restart = d /\ proxy'.loaded = proxy.loaded /\ proxy'.up = proxy.up
        /\ proxy'.starts = proxy.starts
    BY <1>1, <2>1 DEF ProxyType
  <2> QED BY <1>2, <2>3, <2>4, <2>5
<1>11. CASE Counts
  BY <1>6, <1>11 DEF Counts
<1>12. CASE Stop
  <2>1. proxy' = [Return EXCEPT !.up = FALSE, !.active = Nothing, !.values = {}, !.errored = FALSE]
        /\ request' = None
    BY <1>12 DEF Stop
  <2>2. Return \in ProxyType  BY ReturnTyped
  <2> HIDE DEF Nothing
  <2>3. /\ proxy'.up = FALSE /\ proxy'.active = Nothing /\ proxy'.values = {}
        /\ proxy'.pc = Return.pc /\ proxy'.starts = Return.starts
    BY <2>1, <2>2 DEF ProxyType
  <2> QED BY <1>3, <1>4, <2>1, <2>3
<1>13. CASE Start
  <2> DEFINE l == Refreshed.recs
             s == AllSurfaces(l)
             e == file = None
  <2>1. /\ proxy' = [proxy EXCEPT !.up = TRUE, !.starts = @ + 1, !.active = l, !.values = s,
                                  !.errored = e]
        /\ ~proxy.up /\ request' = request
    BY <1>13 DEF Start
  <2>2. AllSurfaces(l) = s  OBVIOUS
  <2> HIDE DEF l, s, e
  <2>3. /\ proxy'.starts = proxy.starts + 1 /\ proxy'.active = l /\ proxy'.values = s
        /\ proxy'.pc = proxy.pc
    BY <1>1, <2>1 DEF ProxyType
  <2>4. proxy.pc = "idle"  BY <2>1 DEF Shapes
  <2>5. AllSurfaces(proxy'.active) \subseteq proxy'.values  BY <2>2, <2>3
  <2>6. proxy'.starts > proxy.starts  BY <1>1, <2>3
  <2> QED BY <2>1, <2>3, <2>4, <2>5, <2>6
<1>14. CASE Admit \/ Send
  BY <1>2, <1>14 DEF Admit, Send, HandlerAt
<1> QED BY <1>5, <1>7, <1>8, <1>9, <1>10, <1>11, <1>12, <1>13, <1>14 DEF ProxyActs, ProxyStep

\* What a process reports, and of whom.
Said(g, result, restart, start) ==
    [result |-> result, restart |-> restart, start |-> start,
     recs |-> Task(g).recs, mixed |-> mixed]

ToldTurn(g) ==
    \/ told'[g] = told[g]
    \/ \E r \in replies :
          /\ r.to = g /\ r.status = "reloaded"
          /\ \/ r.confirmed /\ told'[g] = Said(g, "ok", r.restart, r.start)
             \/ ~r.confirmed /\ told'[g] = Said(g, "not_applied", FALSE, 0)
    \/ told'[g] \in {Said(g, "bad_response", FALSE, 0), Said(g, "unreachable", FALSE, 0)}
    \/ /\ At(g, "rollback")
       /\ told'[g] \in {Said(g, "rolled_back", FALSE, 0), Said(g, "source_error", FALSE, 0)}

LEMMA ToldSteps ==
    ASSUME TypeOK, GatewayActs, NEW g \in Gateway
    PROVE  ToldTurn(g)
<1>1. ASSUME NEW k \in Gateway, NEW result, NEW restart, NEW start, Report(k, result, restart, start)
      PROVE  told'[g] = IF k = g THEN Said(g, result, restart, start) ELSE told[g]
  <2> DEFINE s == Said(k, result, restart, start)
  <2>1. told' = [told EXCEPT ![k] = s]  BY <1>1 DEF Report, Said
  <2>2. told \in [Gateway -> ToldType \cup {None}]  BY DEF TypeOK
  <2> HIDE DEF s, ToldType
  <2>3. told'[g] = IF k = g THEN s ELSE told[g]  BY <2>1, <2>2
  <2> QED BY <2>3 DEF s
<1>2. ASSUME NEW k \in Gateway, Answer(k)
      PROVE  \/ told'[g] = told[g]
             \/ \E r \in replies :
                   /\ r.to = g /\ r.status = "reloaded"
                   /\ \/ r.confirmed /\ told'[g] = Said(g, "ok", r.restart, r.start)
                      \/ ~r.confirmed /\ told'[g] = Said(g, "not_applied", FALSE, 0)
             \/ told'[g] = Said(g, "bad_response", FALSE, 0)
  <2>1. PICK r \in replies : Reads(k, r)  BY <1>2, AnswerTask
  <2>2. \/ told' = told
        \/ r.status = "reloaded" /\ r.confirmed /\ Report(k, "ok", r.restart, r.start)
        \/ r.status = "reloaded" /\ ~r.confirmed /\ Report(k, "not_applied", FALSE, 0)
        \/ Report(k, "bad_response", FALSE, 0)
    BY <2>1 DEF Reads
  <2>3. r.to = k  BY <2>1 DEF Reads
  <2>4. CASE told' = told  BY <2>4
  <2>5. CASE r.status = "reloaded" /\ r.confirmed /\ Report(k, "ok", r.restart, r.start)
    <3>1. told'[g] = IF k = g THEN Said(g, "ok", r.restart, r.start) ELSE told[g]
      BY <1>1, <2>5
    <3> QED BY <2>3, <2>5, <3>1
  <2>6. CASE r.status = "reloaded" /\ ~r.confirmed /\ Report(k, "not_applied", FALSE, 0)
    <3>1. told'[g] = IF k = g THEN Said(g, "not_applied", FALSE, 0) ELSE told[g]
      BY <1>1, <2>6
    <3> QED BY <2>3, <2>6, <3>1
  <2>7. CASE Report(k, "bad_response", FALSE, 0)
    <3>1. told'[g] = IF k = g THEN Said(g, "bad_response", FALSE, 0) ELSE told[g]
      BY <1>1, <2>7
    <3> QED BY <3>1
  <2> QED BY <2>2, <2>4, <2>5, <2>6, <2>7
<1>3. ASSUME NEW k \in Gateway, GiveUp(k)
      PROVE  told'[g] \in {told[g], Said(g, "unreachable", FALSE, 0)}
  <2>1. Report(k, "unreachable", FALSE, 0)  BY <1>3 DEF GiveUp
  <2> QED BY <1>1, <2>1
<1>4. ASSUME NEW k \in Gateway, RollBack(k)
      PROVE  \/ told'[g] = told[g]
             \/ At(g, "rollback") /\ told'[g] = Said(g, "rolled_back", FALSE, 0)
  <2>1. Report(k, "rolled_back", FALSE, 0) /\ At(k, "rollback")  BY <1>4 DEF RollBack
  <2> QED BY <1>1, <2>1
<1>5. ASSUME NEW k \in Gateway, RollBackFails(k)
      PROVE  \/ told'[g] = told[g]
             \/ At(g, "rollback") /\ told'[g] = Said(g, "source_error", FALSE, 0)
  <2>1. Report(k, "source_error", FALSE, 0) /\ At(k, "rollback")  BY <1>5 DEF RollBackFails
  <2> QED BY <1>1, <2>1
<1>6. ASSUME NEW k \in Gateway,
             (\E op \in Ops : Submit(k, op)) \/ Begin(k) \/ Render(k) \/ Write(k) \/ WriteFails(k)
                \/ Ask(k) \/ Crash(k)
      PROVE  told'[g] = told[g]
  BY <1>6 DEF Submit, Begin, Render, Write, WriteFails, Ask, Crash
<1> QED BY <1>2, <1>3, <1>4, <1>5, <1>6 DEF GatewayActs, GatewayStep, ToldTurn

\* An answer that says nothing is left for a restart is true of the proxy that
\* gave it, as long as that process runs.
AnswerHolds(r) ==
    r.status = "reloaded" /\ r.confirmed /\ ~r.restart
    /\ proxy.up /\ proxy.starts = r.start /\ (mixed => AtMostTwo)
    => AllSurfaces(Loaded(Task(r.to).recs)) \subseteq proxy.values

LEMMA MixedStays ==
    ASSUME TypeOK, Next
    PROVE  mixed => mixed'
<1>1. ~mixed' => ~mixed  BY MixedSteps
<1> QED BY <1>1

LEMMA AnswersHold ==
    ASSUME TypeOK, Shapes, Once, InTouch, InForce, Next, NEW r \in replies'
    PROVE  AnswerHolds(r)'
<1> SUFFICES ASSUME r.status = "reloaded", r.confirmed, ~r.restart,
                    proxy'.up, proxy'.starts = r.start, mixed' => AtMostTwo
             PROVE  AllSurfaces(Loaded(Task(r.to)'.recs)) \subseteq proxy'.values
  BY DEF AnswerHolds, AtMostTwo, AllSurfaces, Loaded, SharedForms, Entities, Surfaces, Literal
<1>1. mixed => AtMostTwo  BY MixedStays
<1>2. ASSUME r \in replies, Task(r.to)' = Task(r.to), proxy.up, proxy'.starts = proxy.starts,
             proxy.values \subseteq proxy'.values
      PROVE  AllSurfaces(Loaded(Task(r.to)'.recs)) \subseteq proxy'.values
  BY <1>1, <1>2 DEF InForce
<1>3. CASE GatewayActs
  <2>1. r \in replies /\ Task(r.to)' = Task(r.to)  BY <1>3, RepliesOfGateway
  <2>2. proxy' = proxy  BY <1>3, Apart DEF GatewayActs
  <2> QED BY <1>2, <2>1, <2>2
<1>4. CASE ProxyActs
  <2>1. TypeOK'  BY <1>4, ProxyTyped DEF ProxyActs
  <2>2. r.to \in Gateway  BY <2>1 DEF TypeOK, ReplyType
  <2>3. Task(r.to)' = Task(r.to)  BY <1>4, <2>2, ProxyOnly
  <2>4. \/ proxy.up /\ proxy'.starts = proxy.starts /\ proxy.values \subseteq proxy'.values
        \/ proxy'.starts > proxy.starts
    BY <1>4, ProtectionSteps
  <2>5. CASE r \in replies
    <3>1. r.start <= proxy.starts /\ r.start \in Nat /\ proxy.starts \in Nat
      BY <2>5 DEF Once, TypeOK, ReplyType, ProxyType
    <3>2. ~(proxy'.starts > proxy.starts)  BY <3>1
    <3> QED BY <1>2, <2>3, <2>4, <2>5, <3>2
  <2>6. CASE r \notin replies
    <3>1. /\ Serves(r.to) /\ Counts /\ proxy.pc = "counts" /\ r.start = proxy.starts
          /\ Refreshed.rev = proxy.call.rev /\ r.restart = proxy.restart
      BY <1>4, <2>6, NewReplies
    <3>2. Refreshed.rev = Task(r.to).rev  BY <3>1 DEF Serves
    <3>3. Task(r.to).rev # None
      <4>1. Working(r.to)  BY <3>1 DEF Serves, At, Working
      <4> QED BY <2>2, <4>1 DEF Shapes
    <3>4. ~Gone(r.to)  BY <3>2, <3>3 DEF Gone, Refreshed
    <3>5. proxy.loaded = Loaded(Task(r.to).recs)
      BY <1>1, <2>2, <3>1, <3>4 DEF InTouch
    <3>6. AllSurfaces(proxy.loaded) \subseteq proxy.values
      BY <3>1 DEF InForce
    <3>7. ~(proxy'.starts > proxy.starts)
      BY <3>1 DEF TypeOK, ProxyType
    <3> QED BY <2>3, <2>4, <3>5, <3>6, <3>7
  <2> QED BY <2>5, <2>6
<1> QED BY <1>3, <1>4 DEF Next, GatewayActs, ProxyActs, Ops

LEMMA InForceKept ==
    ASSUME TypeOK, Shapes, Once, InTouch, InForce, Next
    PROVE  InForce'
<1>1. \A r \in replies' : AnswerHolds(r)'  BY AnswersHold
<1>2. CASE GatewayActs
  <2>1. proxy' = proxy /\ request' = request  BY <1>2, Apart DEF GatewayActs
  <2>2. ASSUME NEW g \in Gateway, told'[g] # None PROVE told'[g].start <= proxy'.starts
    <3>1. proxy.starts \in Nat  BY DEF TypeOK, ProxyType
    <3>2. \/ told'[g] = told[g]
          \/ \E r \in replies : told'[g].start = r.start
          \/ told'[g].start = 0
      <4>1. ToldTurn(g)  BY <1>2, ToldSteps
      <4>2. ASSUME NEW r \in replies,
                   \/ told'[g] = Said(g, "ok", r.restart, r.start)
                   \/ told'[g] = Said(g, "not_applied", FALSE, 0)
            PROVE  told'[g].start = r.start \/ told'[g].start = 0
        BY <4>2 DEF Said
      <4>3. ASSUME told'[g] \in {Said(g, "bad_response", FALSE, 0), Said(g, "unreachable", FALSE, 0),
                                Said(g, "rolled_back", FALSE, 0), Said(g, "source_error", FALSE, 0)}
            PROVE  told'[g].start = 0
        BY <4>3 DEF Said
      <4> QED BY <4>1, <4>2, <4>3 DEF ToldTurn
    <3>3. told[g] # None => told[g].start <= proxy.starts
      BY DEF InForce
    <3>4. \A r \in replies : r.start <= proxy.starts
      BY DEF Once
    <3>5. CASE told'[g] = told[g]  BY <2>1, <2>2, <3>3, <3>5
    <3>6. CASE \E r \in replies : told'[g].start = r.start  BY <2>1, <3>4, <3>6
    <3>7. CASE told'[g].start = 0  BY <2>1, <3>1, <3>7
    <3> QED BY <3>2, <3>5, <3>6, <3>7
  <2>3. /\ AllSurfaces(proxy.active) \subseteq proxy.values
        /\ proxy.pc = "counts" /\ ~proxy.restart => AllSurfaces(proxy.loaded) \subseteq proxy.values
        /\ request # None => request \subseteq proxy.values
    BY DEF InForce
  <2> QED BY <1>1, <2>1, <2>2, <2>3 DEF InForce, AnswerHolds, AllSurfaces, Surfaces
<1>3. CASE ProxyActs
  <2>1. /\ AllSurfaces(proxy'.active) \subseteq proxy'.values
        /\ proxy'.pc = "counts" /\ ~proxy'.restart => AllSurfaces(proxy'.loaded) \subseteq proxy'.values
        /\ \/ proxy'.up = proxy.up /\ proxy'.starts = proxy.starts
              /\ proxy.values \subseteq proxy'.values
           \/ ~proxy'.up /\ request' = None /\ proxy'.starts = proxy.starts
           \/ ~proxy.up /\ proxy'.starts > proxy.starts /\ request' = request
    BY <1>3, ProtectionSteps
  <2>2. ASSUME request' # None PROVE request' \subseteq proxy'.values
    <3>1. CASE ~proxy.up /\ request' = request  BY <2>2, <3>1 DEF Shapes
    <3>2. CASE proxy.values \subseteq proxy'.values
      <4>1. CASE request' = request  BY <2>2, <3>2, <4>1 DEF InForce
      <4>2. CASE Admit
        BY <4>2 DEF Admit, InForce
      <4>3. CASE ~Admit /\ request' # request
        <5>1. request' = None
          BY <1>3, <4>3 DEF ProxyActs, ProxyStep, Reload, LoadValues, LoadRecords, Discover,
                            ReloadRegistryValues, Counts, Stop, Start, Send
        <5> QED BY <2>2, <5>1
      <4> QED BY <4>1, <4>2, <4>3
    <3> QED BY <2>1, <2>2, <3>1, <3>2
  <2>3. told' = told  BY <1>3, ProxyOnly
  <2>4. ASSUME NEW g \in Gateway, told'[g] # None PROVE told'[g].start <= proxy'.starts
    <3>1. told[g].start <= proxy.starts /\ told[g].start \in Nat
      BY <2>3, <2>4 DEF InForce, TypeOK, ToldType
    <3>2. proxy'.starts >= proxy.starts /\ proxy.starts \in Nat
      BY <1>3, StartsGrow
    <3>3. proxy'.starts \in Nat
      <4>1. TypeOK'  BY <1>3, ProxyTyped DEF ProxyActs
      <4> QED BY <4>1 DEF TypeOK, ProxyType
    <3> QED BY <2>3, <3>1, <3>2, <3>3
  <2> QED BY <1>1, <2>1, <2>2, <2>4 DEF InForce, AnswerHolds, AllSurfaces, Surfaces
<1> QED BY <1>2, <1>3 DEF Next, GatewayActs, ProxyActs, Ops

-----------------------------------------------------------------------------
(* What an administrator is told                                            *)

LEMMA VerifiedKept ==
    ASSUME TypeOK, Shapes, Once, InForce, VerifiedIsProtected, Next, NEW g \in Gateway,
           told'[g] # None, told'[g].result = "ok", ~told'[g].restart,
           proxy'.up, proxy'.starts = told'[g].start, told'[g].mixed => AtMostTwo
    PROVE  AllSurfaces(Loaded(told'[g].recs)) \subseteq proxy'.values
<1>1. CASE GatewayActs
  <2>1. proxy' = proxy  BY <1>1, Apart DEF GatewayActs
  <2>2. CASE told'[g] = told[g]  BY <2>1, <2>2 DEF VerifiedIsProtected
  <2>3. CASE \E r \in replies :
                /\ r.to = g /\ r.status = "reloaded"
                /\ \/ r.confirmed /\ told'[g] = Said(g, "ok", r.restart, r.start)
                   \/ ~r.confirmed /\ told'[g] = Said(g, "not_applied", FALSE, 0)
    <3>1. PICK r \in replies :
                /\ r.to = g /\ r.status = "reloaded" /\ r.confirmed
                /\ told'[g] = Said(g, "ok", r.restart, r.start)
      BY <2>3 DEF Said
    <3>2. ~r.restart /\ r.start = proxy.starts /\ proxy.up /\ (mixed => AtMostTwo)
          /\ told'[g].recs = Task(g).recs
      BY <2>1, <3>1 DEF Said
    <3> QED BY <2>1, <3>1, <3>2 DEF InForce
  <2> QED BY <1>1, <2>2, <2>3, ToldSteps DEF ToldTurn, Said
<1>2. CASE ProxyActs
  <2>1. told' = told  BY <1>2, ProxyOnly
  <2>2. \/ proxy.up /\ proxy'.starts = proxy.starts /\ proxy.values \subseteq proxy'.values
        \/ proxy'.starts > proxy.starts
    BY <1>2, ProtectionSteps
  <2>3. told[g].start <= proxy.starts /\ told[g].start \in Nat /\ proxy.starts \in Nat
    BY <2>1 DEF InForce, TypeOK, ToldType, ProxyType
  <2>4. ~(proxy'.starts > proxy.starts)  BY <2>1, <2>3
  <2>5. AllSurfaces(Loaded(told[g].recs)) \subseteq proxy.values
    BY <2>1, <2>2, <2>4 DEF VerifiedIsProtected
  <2> QED BY <2>1, <2>2, <2>4, <2>5
<1> QED BY <1>1, <1>2 DEF Next, GatewayActs, ProxyActs, Ops

LEMMA AboutMineKept ==
    ASSUME TypeOK, Shapes, Once, Alone, VerdictIsAboutMine, Next, NEW g \in Gateway,
           told'[g] # None, ~told'[g].mixed
    PROVE  /\ told'[g].result \in {"rolled_back", "source_error"} => ~Usable(told'[g].recs)
           /\ told'[g].result # "not_applied"
<1>1. CASE told'[g] = told[g]  BY <1>1 DEF VerdictIsAboutMine
<1>2. CASE told'[g] # told[g]
  <2>1. GatewayActs  BY <1>2, ProxyOnly DEF Next, GatewayActs, ProxyActs, Ops
  <2>2. ASSUME NEW r \in replies, r.to = g, r.status = "reloaded", ~r.confirmed,
               told'[g] = Said(g, "not_applied", FALSE, 0)
        PROVE  FALSE
    BY <2>2 DEF Said, Alone
  <2>3. ASSUME At(g, "rollback"),
               told'[g] \in {Said(g, "rolled_back", FALSE, 0), Said(g, "source_error", FALSE, 0)}
        PROVE  ~Usable(told'[g].recs) /\ told'[g].result # "not_applied"
    <3>1. ~mixed /\ told'[g].recs = Task(g).recs  BY <2>3 DEF Said
    <3>2. IsRefused(g)  BY <2>3 DEF IsRefused
    <3> QED BY <2>3, <3>1, <3>2 DEF Alone, Said
  <2>4. ASSUME told'[g] \in {Said(g, "bad_response", FALSE, 0), Said(g, "unreachable", FALSE, 0)}
        PROVE  told'[g].result \notin {"rolled_back", "source_error", "not_applied"}
    BY <2>4 DEF Said
  <2>5. ASSUME NEW r \in replies, told'[g] = Said(g, "ok", r.restart, r.start)
        PROVE  told'[g].result \notin {"rolled_back", "source_error", "not_applied"}
    BY <2>5 DEF Said
  <2>6. ToldTurn(g)  BY <2>1, ToldSteps
  <2> QED BY <1>2, <2>2, <2>3, <2>4, <2>5, <2>6 DEF ToldTurn
<1> QED BY <1>1, <1>2

LEMMA VerdictKept ==
    ASSUME TypeOK, Shapes, Once, Alone, InTouch, InForce, VerdictHolds, Next
    PROVE  VerdictHolds'
<1>1. VerifiedIsProtected'
  BY VerifiedKept DEF VerdictHolds, VerifiedIsProtected, AtMostTwo, AllSurfaces, Loaded,
                      SharedForms, Entities, Surfaces, Literal
<1>2. VerdictIsAboutMine'
  BY AboutMineKept DEF VerdictHolds, VerdictIsAboutMine, Usable, Entities, Surfaces
<1>3. NamedRegistryHolds'
  <2>1. InForce'  BY InForceKept
  <2> QED BY <2>1 DEF InForce, NamedRegistryHolds
<1> QED BY <1>1, <1>2, <1>3 DEF VerdictHolds

-----------------------------------------------------------------------------
(* The theorems                                                             *)

LEMMA InitInv == Init => Inv
<1> SUFFICES ASSUME Init PROVE Inv  OBVIOUS
<1>1. TypeOK  BY InitTyped
<1>2. \A g \in Gateway : Task(g) = Idle  BY DEF Init, Task
<1>3. \A g \in Gateway : /\ Task(g).pc = "idle" /\ Task(g).rev = None
                         /\ Task(g).previous = None /\ Task(g).recs = Nothing
  BY <1>2, IdleShape
<1>4. /\ file = None /\ asked = {} /\ replies = {} /\ request = None
      /\ ~mixed /\ ~unjudged /\ \A g \in Gateway : told[g] = None
  BY DEF Init
<1>5. /\ ~proxy.up /\ proxy.pc = "idle" /\ proxy.values = {} /\ proxy.active = Nothing
      /\ cache.rev = None /\ ~cache.hit
  BY DEF Init
<1>6. /\ \A g \in Gateway : /\ Quiet(g) /\ ~Working(g) /\ ~Placed(g) /\ ~At(g, "write")
                            /\ ~IsRefused(g) /\ ~Serves(g)
      /\ \A x : ~Held(x)
  BY <1>3, <1>4, <1>5 DEF Quiet, Task, Working, Placed, At, IsRefused, Serves, Held
<1>7. Shapes  BY <1>3, <1>4, <1>5, <1>6 DEF Shapes
<1>8. Contents  BY <1>5, <1>6 DEF Contents
<1>9. Unwritten  BY <1>6 DEF Unwritten
<1>10. Once  BY <1>3, <1>4, <1>5 DEF Once
<1>11. Alone  BY <1>4, <1>6 DEF Alone
<1>12. Judged  BY <1>3, <1>4, <1>6 DEF Judged, Accepted
<1>13. Overtaken  BY <1>6 DEF Overtaken
<1>14. InTouch  BY <1>6 DEF InTouch
<1>15. InForce  BY <1>4, <1>5 DEF InForce, AllSurfaces, Nothing
<1>16. VerdictHolds
  BY <1>4 DEF VerdictHolds, VerifiedIsProtected, VerdictIsAboutMine, NamedRegistryHolds
<1> QED
  BY <1>1, <1>7, <1>8, <1>9, <1>10, <1>11, <1>12, <1>13, <1>14, <1>15, <1>16 DEF Inv

LEMMA StutterKeeps == ASSUME Inv, UNCHANGED vars PROVE Inv'
<1>1. /\ UNCHANGED <<file, revisions, gateways, told, asked, replies, proxy, cache, request>>
      /\ mixed' = mixed /\ unjudged' = unjudged
  BY DEF vars
<1>2. TypeOK'  BY <1>1 DEF Inv, TypeOK
<1>3. Shapes' /\ Unwritten'  BY <1>1 DEF Inv, Shapes, Unwritten, Working, Mine, Task, At
<1>4. Contents'
  <2>1. \A x : Held(x)' => Held(x)  BY <1>1 DEF Held, Working, Mine, Task
  <2> QED BY <1>1, <2>1 DEF Inv, Contents
<1>5. Once'  BY <1>1 DEF Inv, Once, Serves, Task, At
<1>6. Alone'
  BY <1>1 DEF Inv, Alone, Quiet, Placed, Mine, IsRefused, Serves, Task, At, Usable, Accepted
<1>7. Judged'  BY <1>1 DEF Inv, Judged, Quiet, Task, Accepted
<1>8. Overtaken'
  BY <1>1 DEF Inv, Overtaken, AtMostTwo, Placed, Mine, IsRefused, Serves, Task, At, Usable
<1>9. InTouch'  BY <1>1 DEF Inv, InTouch, AtMostTwo, Gone, Serves, Task, At, Loaded
<1>10. InForce'
  <2>1. ASSUME NEW r \in replies' PROVE AnswerHolds(r)'
    <3> SUFFICES ASSUME r.status = "reloaded", r.confirmed, ~r.restart,
                        proxy'.up, proxy'.starts = r.start, mixed' => AtMostTwo
                 PROVE  AllSurfaces(Loaded(Task(r.to)'.recs)) \subseteq proxy'.values
      BY DEF AnswerHolds, AtMostTwo, AllSurfaces, Loaded, SharedForms, Entities, Surfaces, Literal
    <3>1. Task(r.to)' = Task(r.to)  BY <1>1 DEF Task
    <3> QED BY <1>1, <3>1 DEF Inv, InForce
  <2>2. /\ AllSurfaces(proxy.active) \subseteq proxy.values
        /\ proxy.pc = "counts" /\ ~proxy.restart => AllSurfaces(proxy.loaded) \subseteq proxy.values
        /\ request # None => request \subseteq proxy.values
        /\ \A g \in Gateway : told[g] # None => told[g].start <= proxy.starts
    BY DEF Inv, InForce
  <2> QED BY <1>1, <2>1, <2>2 DEF InForce, AnswerHolds, AllSurfaces, Surfaces
<1>11. VerdictHolds'
  <2>1. VerifiedIsProtected'
    <3> SUFFICES ASSUME NEW g \in Gateway,
                        told'[g] # None, told'[g].result = "ok", ~told'[g].restart,
                        proxy'.up, proxy'.starts = told'[g].start, told'[g].mixed => AtMostTwo
                 PROVE  AllSurfaces(Loaded(told'[g].recs)) \subseteq proxy'.values
      BY DEF VerifiedIsProtected, AtMostTwo, AllSurfaces, Loaded, SharedForms, Entities,
             Surfaces, Literal
    <3> QED BY <1>1 DEF Inv, VerdictHolds, VerifiedIsProtected
  <2>2. VerdictIsAboutMine' /\ NamedRegistryHolds'
    BY <1>1 DEF Inv, VerdictHolds, VerdictIsAboutMine, NamedRegistryHolds, Usable, Entities, Surfaces
  <2> QED BY <2>1, <2>2 DEF VerdictHolds
<1> QED
  BY <1>2, <1>3, <1>4, <1>5, <1>6, <1>7, <1>8, <1>9, <1>10, <1>11 DEF Inv

LEMMA StepKeeps == Inv /\ [Next]_vars => Inv'
<1>1. ASSUME Inv, Next PROVE Inv'
  <2> USE <1>1 DEF Inv
  <2>1. TypeOK'  BY StepTyped
  <2>2. Shapes'  BY ShapesKept
  <2>3. Contents'  BY ContentsKept
  <2>4. Unwritten'  BY UnwrittenKept
  <2>5. Once'  BY OnceKept
  <2>6. Alone'  BY AloneKept
  <2>7. Judged'  BY JudgedKept
  <2>8. Overtaken'  BY OvertakenKept
  <2>9. InTouch'  BY InTouchKept
  <2>10. InForce'  BY InForceKept
  <2>11. VerdictHolds'  BY VerdictKept
  <2> QED BY <2>1, <2>2, <2>3, <2>4, <2>5, <2>6, <2>7, <2>8, <2>9, <2>10, <2>11
<1>2. ASSUME Inv, UNCHANGED vars PROVE Inv'  BY <1>2, StutterKeeps
<1> QED BY <1>1, <1>2

THEOREM Invariance == Spec => []Inv
<1> QED BY InitInv, StepKeeps, PTL DEF Spec

\* The state of the gateways, the messages and the proxy keeps its shape.
THEOREM TypeCorrect == Spec => []TypeOK
<1>1. Inv => TypeOK  BY DEF Inv
<1> QED BY <1>1, Invariance, PTL

\* Whatever a second process does to the file between rename and answer, what
\* an administrator was told of a publication is what the proxy protects; and
\* whatever reloads come between, a request is redacted by at least the registry
\* that its proof names (protected-registry.ts 217-293, server.ts 618-668).
THEOREM VerdictsAreTrue == Spec => []VerdictHolds
<1>1. Inv => VerdictHolds  BY DEF Inv
<1> QED BY <1>1, Invariance, PTL

\* A file that every task left judged is one a proxy can start on
\* (protected-registry.ts 131-140, 211-216).
THEOREM LeftFileStarts == Spec => []JudgedFileStarts
<1>1. Inv => JudgedFileStarts  BY DEF Inv, Judged, JudgedFileStarts
<1> QED BY <1>1, Invariance, PTL

\* A revision stands for one list of records, wherever it is met: in the file, in
\* a task, in what a task will put back and in the memo of the loader
\* (writeManagedRegistryFile gives every file a revision of its own).
THEOREM RevisionsNameContents == Spec => []Contents
<1>1. Inv => Contents  BY DEF Inv
<1> QED BY <1>1, Invariance, PTL
=============================================================================
