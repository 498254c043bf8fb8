---------------------------- MODULE Host_proofs ----------------------------
(* Proofs about three parts of a host: the capture logs and the passes that
   prune them (HostLogs), the settings file (ConfigFile) and the panel that
   edits it (ConfigPanel).  They share no variable; each has an inductive
   invariant of its own.                                                      *)
EXTENDS HostLogs, ConfigPanel, FiniteSetTheorems, TLAPS

Active(p) == pass[p] # NoPass

(***************************************************************************)
(* The logs.                                                               *)
(***************************************************************************)

\* A request is numbered before its body is written, so a body that is gone does
\* not come back.
NumberedBodies ==
    /\ \A f \in Bodies(files) : f.n <= logged[f.unit]
    /\ \A p \in Pruner : Active(p) => \A f \in Bodies(pass[p].files) : f.n <= logged[f.unit]

\* A pass does not count a running agent's directory as idle.
Spared ==
    \A u \in Agent : process[u] = "running" =>
        /\ dir[u] # "removed"
        /\ \A p \in Pruner : Active(p) => u \notin pass[p].idle \cup pass[p].expired

\* What is about to lose raw files has been audited.
AuditedFirst ==
    \A p \in Pruner :
        /\ pass[p].at = "remove" => Losing(pass[p]) \subseteq pass[p].audited
        /\ pass[p].at = "shrink" => \A f \in RawFiles(pass[p].files) : f.unit \in pass[p].audited

\* An audit that ran has read the bodies that are still there.
AuditedRead ==
    ~failed => \A p \in Pruner : Active(p) =>
        \A f \in Bodies(pass[p].files) \cap files : f.unit \in pass[p].audited => f \in read

\* While passes do not overlap a pass loses nothing but by its own hand.
AloneInPlace ==
    ~overlapped => \A p \in Pruner : Active(p) =>
        /\ pass[p].files \subseteq files
        /\ \A q \in Pruner : Active(q) => q = p

\* What a pass could see is still named by a record until its directory has been
\* audited, and in a report from then on.
Holding(S, x) == \E f \in S : f.kind = "record" /\ f.unit = x[2] /\ x[3] \in f.holds
Showing(S, x) == \E f \in Bodies(S) : f.unit = x[2] /\ x[3] \in f.holds

ShownIsKept ==
    ~failed /\ ~overlapped => \A p \in Pruner : Active(p) => \A x \in pass[p].shows :
        /\ x[2] \notin pass[p].audited => Holding(pass[p].files, x)
        /\ x[2] \in pass[p].audited /\ Showing(pass[p].files, x) => x \in reports

LogsInv ==
    /\ HostLogsTypeOK
    /\ NumberedBodies
    /\ Spared
    /\ AuditedFirst
    /\ AuditedRead
    /\ AloneInPlace
    /\ ShownIsKept
    /\ ReadBeforeGone
    /\ LeaksOutliveTraces

\* What a step of a process does for a pass: files come, with new numbers, and
\* nothing goes.
Writes ==
    /\ UNCHANGED <<pass, evidence>>
    /\ files \subseteq files'
    /\ \A f \in Bodies(files') \ files : f.n > logged[f.unit] /\ f.n <= logged'[f.unit]
    /\ \A u \in Unit : logged[u] <= logged'[u]
    /\ \A u \in Unit : process'[u] = "running" => process[u] = "running"
    /\ \A u \in Unit : dir'[u] = "removed" => dir[u] = "removed"

\* What writing keeps of the types.
WrittenTypes ==
    /\ clock \in Nat
    /\ process \in [Unit -> {"none", "running", "ended", "crashed"}]
    /\ dir \in [Unit -> {"none", "there", "removed"}]
    /\ logged \in [Unit -> Nat] /\ touched \in [Unit -> Nat]
    /\ files \subseteq FileType
    /\ open \subseteq [unit : Unit, n : Nat, kept : SUBSET Secret]

LEMMA FileTyped ==
    ASSUME clock \in Nat, NEW u \in Unit, NEW n \in Nat, NEW kind \in Raw \cup {"meta"},
           NEW holds \in SUBSET Secret
    PROVE  /\ File(u, n, kind, holds) \in FileType
           /\ File(u, n, kind, holds).kind = kind
           /\ File(u, n, kind, holds).unit = u
           /\ File(u, n, kind, holds).n = n
  BY DEF File, FileType

LEMMA LogRequestWrites ==
    ASSUME WrittenTypes, NEW u \in Unit, LogRequest(u)
    PROVE  Writes /\ WrittenTypes'
  <1> USE DEF WrittenTypes
  <1>1. /\ process[u] = "running" /\ logged' = [logged EXCEPT ![u] = @ + 1]
        /\ UNCHANGED <<clock, process, pass, evidence>>
    BY DEF LogRequest
  <1>2. logged' \in [Unit -> Nat] /\ \A w \in Unit : logged[w] <= logged'[w]
    BY <1>1
  <1>3. CASE dir[u] = "removed"
    <2>1. UNCHANGED <<dir, files, touched, open>>
      BY <1>3 DEF LogRequest
    <2> QED BY <1>1, <1>2, <2>1 DEF Writes, Bodies
  <1>4. CASE dir[u] # "removed"
    <2>1. PICK kept \in SUBSET Secret, missed \in SUBSET Secret, blocked \in BOOLEAN :
             /\ dir' = [dir EXCEPT ![u] = "there"]
             /\ files' = files \cup {File(u, logged[u] + 1, "meta", {})}
                              \cup (IF blocked
                                    THEN IF kept \cup missed = {} THEN {}
                                         ELSE {File(u, logged[u] + 1, "record", kept \cup missed)}
                                    ELSE {File(u, logged[u] + 1, "sent", missed)})
             /\ touched' = [touched EXCEPT ![u] = IF u \in Agent /\ dir[u] = "there" THEN @ ELSE clock]
             /\ open' = IF blocked THEN open
                        ELSE open \cup {[unit |-> u, n |-> logged[u] + 1, kept |-> kept]}
      BY <1>4 DEF LogRequest
    <2> DEFINE n == logged[u] + 1
               meta == File(u, n, "meta", {})
               record == File(u, n, "record", kept \cup missed)
               body == File(u, n, "sent", missed)
    <2>2. n \in Nat /\ n > logged[u] /\ n <= logged'[u]
      BY <1>1
    <2>3. /\ meta \in FileType /\ meta.kind = "meta"
          /\ record \in FileType /\ record.kind = "record"
          /\ body \in FileType /\ body.kind = "sent" /\ body.unit = u /\ body.n = n
      BY <2>2, FileTyped DEF Raw
    <2>4. files \subseteq files' /\ files' \subseteq files \cup {meta, record, body}
      BY <2>1
    <2> HIDE DEF n, meta, record, body
    <2>5. files' \subseteq FileType
      BY <2>3, <2>4
    <2>6. \A f \in Bodies(files') \ files : f = body
      BY <2>3, <2>4 DEF Bodies
    <2>7. /\ dir' \in [Unit -> {"none", "there", "removed"}]
          /\ \A w \in Unit : dir'[w] = "removed" => dir[w] = "removed"
      BY <2>1
    <2>8. touched' \in [Unit -> Nat]
      BY <2>1
    <2>9. open' \subseteq [unit : Unit, n : Nat, kept : SUBSET Secret]
      BY <2>1, <2>2 DEF n
    <2>10. \A f \in Bodies(files') \ files : f.n > logged[f.unit] /\ f.n <= logged'[f.unit]
      BY <2>2, <2>3, <2>6
    <2>11. \A w \in Unit : process'[w] = "running" => process[w] = "running"
      BY <1>1
    <2>12. Writes
      BY <1>1, <1>2, <2>4, <2>7, <2>10, <2>11 DEF Writes
    <2> QED BY <1>1, <1>2, <2>5, <2>7, <2>8, <2>9, <2>12
  <1> QED BY <1>3, <1>4

LEMMA CompleteWrites ==
    ASSUME WrittenTypes, NEW r \in open, Complete(r)
    PROVE  Writes /\ WrittenTypes'
  <1> USE DEF WrittenTypes
  <1>1. r.unit \in Unit /\ r.n \in Nat /\ r.kept \in SUBSET Secret
    OBVIOUS
  <1>2. PICK tools \in SUBSET (r.kept \cap Permanent) :
           WriteFiles(r.unit, {File(r.unit, r.n, "restored", tools)}
                         \cup (IF r.kept = {} THEN {} ELSE {File(r.unit, r.n, "record", r.kept)}))
    BY DEF Complete
  <1> DEFINE answer == File(r.unit, r.n, "restored", tools)
             record == File(r.unit, r.n, "record", r.kept)
  <1>3. /\ answer \in FileType /\ answer.kind = "restored"
        /\ record \in FileType /\ record.kind = "record"
    BY <1>1, FileTyped DEF Raw
  <1>4. files \subseteq files' /\ files' \subseteq files \cup {answer, record}
    BY <1>2 DEF WriteFiles
  <1> HIDE DEF answer, record
  <1>5. touched' = [u \in Unit |-> IF u \in {r.unit} \ Agent THEN clock ELSE touched[u]]
    BY <1>2 DEF WriteFiles, Touched
  <1>6. open' \subseteq open /\ UNCHANGED <<clock, process, dir, logged, pass, evidence>>
    BY DEF Complete
  <1>7. Bodies(files') \ files = {}
    BY <1>3, <1>4 DEF Bodies
  <1>8. files' \subseteq FileType /\ touched' \in [Unit -> Nat]
    BY <1>3, <1>4, <1>5
  <1>9. \A u \in Unit : logged[u] <= logged'[u]
    BY <1>6
  <1> QED BY <1>4, <1>6, <1>7, <1>8, <1>9 DEF Writes

LEMMA OthersWrite ==
    ASSUME WrittenTypes,
           \/ \E u \in Unit : Exit(u)
           \/ \E r \in open : CompleteNowhere(r)
           \/ HourPasses
    PROVE  Writes /\ WrittenTypes'
  <1> USE DEF WrittenTypes
  <1>1. UNCHANGED <<dir, logged, files, touched, pass, evidence>>
    BY DEF Exit, CompleteNowhere, HourPasses
  <1>2. open' \subseteq open /\ clock' \in Nat
    BY DEF Exit, CompleteNowhere, HourPasses
  <1>3. /\ process' \in [Unit -> {"none", "running", "ended", "crashed"}]
        /\ \A u \in Unit : process'[u] = "running" => process[u] = "running"
    <2>1. CASE \E u \in Unit : Exit(u)
      BY <2>1 DEF Exit
    <2>2. CASE \E r \in open : CompleteNowhere(r)
      BY <2>2 DEF CompleteNowhere
    <2>3. CASE HourPasses
      BY <2>3 DEF HourPasses
    <2> QED BY <2>1, <2>2, <2>3
  <1>4. Bodies(files') \ files = {} /\ \A u \in Unit : logged[u] <= logged'[u]
    BY <1>1 DEF Bodies
  <1> QED BY <1>1, <1>2, <1>3, <1>4 DEF Writes

LEMMA TypesSplit == HostLogsTypeOK => WrittenTypes
  BY DEF HostLogsTypeOK, WrittenTypes

LEMMA PassTyped ==
    ASSUME HostLogsTypeOK, NEW p \in Pruner, Active(p)
    PROVE  /\ pass[p].files \subseteq FileType
           /\ pass[p].idle \subseteq Unit /\ pass[p].expired \subseteq Unit
           /\ pass[p].audited \subseteq Unit
           /\ pass[p].shows \subseteq {"egress"} \X Unit \X Secret
           /\ pass[p].at \in {"audit", "remove", "cap", "shrink"}
           /\ pass[p] \in PassType(pass[p].active)
  <1>1. pass[p] \in PassType(pass[p].active)
    BY DEF HostLogsTypeOK, Active
  <1> QED BY <1>1 DEF PassType

LEMMA AtIsActive ==
    ASSUME NEW p \in Pruner, pass[p].at \in {"audit", "remove", "cap", "shrink"}
    PROVE  Active(p)
  BY DEF Active, NoPass

LEMMA FileFields == \A f \in FileType : f.unit \in Unit /\ f.n \in Nat /\ f.holds \in SUBSET Secret
  BY DEF FileType

LEMMA WritesKeep ==
    ASSUME LogsInv, Writes, WrittenTypes'
    PROVE  LogsInv'
  <1> USE DEF LogsInv
  <1>1. /\ UNCHANGED <<pass, passes, reports, read, gone, owed, failed, overlapped>>
        /\ files \subseteq files'
    BY DEF Writes, evidence
  <1>2. \A p : Active(p)' <=> Active(p)
    BY <1>1 DEF Active, NoPass
  <1>3. HostLogsTypeOK'
    BY <1>1 DEF HostLogsTypeOK, WrittenTypes, PassType, NoPass
  <1>4. NumberedBodies'
    <2>1. \A f \in Bodies(files') : f.n <= logged'[f.unit]
      <3> SUFFICES ASSUME NEW f \in Bodies(files') PROVE f.n <= logged'[f.unit]
        OBVIOUS
      <3>1. CASE f \in files
        <4>1. f \in Bodies(files) /\ f.unit \in Unit /\ f.n \in Nat
          BY <3>1, FileFields DEF Bodies, HostLogsTypeOK
        <4>2. f.n <= logged[f.unit] /\ logged[f.unit] <= logged'[f.unit]
          BY <4>1 DEF NumberedBodies, Writes
        <4> QED BY <4>1, <4>2 DEF HostLogsTypeOK, WrittenTypes
      <3>2. CASE f \notin files
        BY <3>2 DEF Writes
      <3> QED BY <3>1, <3>2
    <2>2. ASSUME NEW p \in Pruner, Active(p), NEW f \in Bodies(pass[p].files)
          PROVE  f.n <= logged'[f.unit]
      <3>1. f \in FileType
        BY <2>2, PassTyped DEF Bodies
      <3>2. f.unit \in Unit /\ f.n \in Nat
        BY <3>1, FileFields
      <3>3. f.n <= logged[f.unit] /\ logged[f.unit] <= logged'[f.unit]
        BY <2>2, <3>2 DEF NumberedBodies, Writes
      <3> QED BY <3>2, <3>3 DEF HostLogsTypeOK, WrittenTypes
    <2> QED BY <1>1, <1>2, <2>1, <2>2 DEF NumberedBodies, Bodies
  <1>5. Spared'
    BY <1>1, <1>2 DEF Spared, Writes, Unit
  <1>6. AuditedFirst'
    BY <1>1 DEF AuditedFirst, Losing, Aged, In, RawFiles
  <1>7. AuditedRead'
    <2> SUFFICES ASSUME ~failed, NEW p \in Pruner, Active(p),
                        NEW f \in Bodies(pass[p].files), f \in files', f.unit \in pass[p].audited
                 PROVE  f \in read
      BY <1>1, <1>2 DEF AuditedRead, Bodies
    <2>1. f \in FileType /\ f.kind = "sent"
      BY PassTyped DEF Bodies
    <2>2. f.unit \in Unit /\ f.n \in Nat
      BY <2>1, FileFields
    <2>3. f.n <= logged[f.unit]
      BY DEF NumberedBodies
    <2>4. f \in files
      BY <2>1, <2>2, <2>3 DEF Writes, Bodies, HostLogsTypeOK
    <2> QED BY <2>4 DEF AuditedRead
  <1>8. AloneInPlace'
    BY <1>1, <1>2 DEF AloneInPlace
  <1>9. ShownIsKept'
    BY <1>1, <1>2 DEF ShownIsKept, Holding, Showing, Bodies
  <1>10. ReadBeforeGone' /\ LeaksOutliveTraces'
    BY <1>1 DEF ReadBeforeGone, LeaksOutliveTraces, Bodies
  <1> QED BY <1>3, <1>4, <1>5, <1>6, <1>7, <1>8, <1>9, <1>10

LEMMA ScanFields ==
    ASSUME HostLogsTypeOK, NEW policy \in {0, TraceAge}
    PROVE  /\ Scan(policy).at = "audit" /\ Scan(policy).files = files /\ Scan(policy).audited = {}
           /\ Scan(policy).shows = Named
           /\ \A u \in Unit : u \in Scan(policy).idle \cup Scan(policy).expired => ~Live(u)
           /\ Scan(policy) \in PassType(Scan(policy).active)
           /\ Scan(policy) # NoPass
  <1>1. /\ Scan(policy).at = "audit" /\ Scan(policy).files = files /\ Scan(policy).audited = {}
        /\ Scan(policy).shows = Named
        /\ \A u \in Unit : u \in Scan(policy).idle \cup Scan(policy).expired => ~Live(u)
    BY DEF Scan
  <1>2. Named \subseteq {"egress"} \X Unit \X Secret
    BY DEF Named
  <1>3. Scan(policy) \in PassType(Scan(policy).active)
    BY <1>2 DEF Scan, PassType, HostLogsTypeOK
  <1> QED BY <1>1, <1>3 DEF NoPass

LEMMA BeginPassKeeps ==
    ASSUME LogsInv, NEW p \in Pruner, BeginPass(p)
    PROVE  LogsInv'
  <1> USE DEF LogsInv
  <1>1. PICK policy \in {0, TraceAge} : pass' = [pass EXCEPT ![p] = Scan(policy)]
    BY DEF BeginPass
  <1> DEFINE s == Scan(policy)
  <1>2. /\ s.at = "audit" /\ s.files = files /\ s.audited = {} /\ s.shows = Named
        /\ \A u \in Unit : u \in s.idle \cup s.expired => ~Live(u)
        /\ s \in PassType(s.active) /\ s # NoPass
    BY <1>1, ScanFields
  <1> HIDE DEF s
  <1>3. pass = [q \in Pruner |-> pass[q]]
    BY DEF HostLogsTypeOK
  <1>4. pass' = [q \in Pruner |-> IF q = p THEN s ELSE pass[q]]
    BY <1>1, <1>3 DEF s
  <1>5. pass'[p] = s /\ \A q \in Pruner \ {p} : pass'[q] = pass[q]
    BY <1>4
  <1>6. /\ UNCHANGED <<clock, process, dir, logged, files, touched, open, reports, read, gone, owed, failed>>
        /\ pass[p] = NoPass
        /\ passes' = passes + 1
        /\ overlapped' = (overlapped \/ \E q \in Pruner \ {p} : pass[q] # NoPass)
    BY DEF BeginPass, written
  <1>7. Active(p)' /\ \A q \in Pruner \ {p} : Active(q)' <=> Active(q)
    BY <1>2, <1>5 DEF Active, NoPass
  <1>8. HostLogsTypeOK'
    <2>1. pass' = [q \in Pruner |-> pass'[q]]
      BY <1>4
    <2>2. \A q \in Pruner : pass'[q] = NoPass \/ pass'[q] \in PassType(pass'[q].active)
      BY <1>2, <1>5 DEF HostLogsTypeOK
    <2> QED BY <1>6, <2>1, <2>2 DEF HostLogsTypeOK, PassType, NoPass
  <1>9. NumberedBodies'
    BY <1>2, <1>5, <1>6, <1>7 DEF NumberedBodies, Bodies
  <1>10. Spared'
    <2> SUFFICES ASSUME NEW u \in Agent, process[u] = "running"
                 PROVE  /\ dir[u] # "removed"
                        /\ \A q \in Pruner : Active(q)' => u \notin pass'[q].idle \cup pass'[q].expired
      BY <1>6 DEF Spared
    <2>1. u \in Unit /\ Live(u)
      BY DEF Live, Unit
    <2>2. u \notin s.idle \cup s.expired
      BY <1>2, <2>1
    <2> QED BY <1>5, <1>7, <2>2 DEF Spared
  <1>11. AuditedFirst'
    BY <1>2, <1>5 DEF AuditedFirst, Losing, Aged, In, RawFiles
  <1>12. AuditedRead'
    BY <1>2, <1>5, <1>6, <1>7 DEF AuditedRead, Bodies
  <1>13. AloneInPlace'
    BY <1>2, <1>5, <1>6, <1>7 DEF AloneInPlace, Active
  <1>14. ShownIsKept'
    <2> SUFFICES ASSUME ~failed, ~overlapped, NEW q \in Pruner, Active(q)', NEW x \in pass'[q].shows
                 PROVE  /\ x[2] \notin pass'[q].audited => Holding(pass'[q].files, x)
                        /\ x[2] \in pass'[q].audited /\ Showing(pass'[q].files, x) => x \in reports
      BY <1>6 DEF ShownIsKept, Holding, Showing, Bodies
    <2>1. CASE q # p
      BY <1>5, <1>7, <2>1 DEF ShownIsKept
    <2>2. CASE q = p
      BY <1>2, <1>5, <2>2 DEF Named, Holding
    <2> QED BY <2>1, <2>2
  <1>15. ReadBeforeGone' /\ LeaksOutliveTraces'
    BY <1>6 DEF ReadBeforeGone, LeaksOutliveTraces, Bodies
  <1> QED BY <1>8, <1>9, <1>10, <1>11, <1>12, <1>13, <1>14, <1>15

LEMMA SavedTyped ==
    ASSUME HostLogsTypeOK, NEW list, NEW units \in SUBSET Unit, Saved(list, units)
    PROVE  /\ reports \subseteq reports' /\ reports' \subseteq FindingType
           /\ read \subseteq read' /\ read' \subseteq FileType
           /\ \A f \in list \cap files : f.kind = "sent" /\ f.unit \in units => f \in read'
           /\ \A x \in {"egress"} \X units \X Secret :
                 Holding(list \cap files, x) /\ Showing(list \cap files, x) => x \in reports'
  <1> DEFINE seen(u) == In(list \cap files, u)
             found == UNION {LeaksIn(seen(u), u) : u \in units}
             had == UNION {RawFiles(seen(u)) : u \in units}
  <1>1. reports' = reports \cup found /\ read' = read \cup had
    BY DEF Saved
  <1>2. had \subseteq FileType
    BY DEF RawFiles, In, HostLogsTypeOK
  <1>3. \A u \in units : seen(u) \subseteq FileType /\ Catalogue(seen(u)) \subseteq Secret
    BY FileFields DEF In, HostLogsTypeOK, Catalogue
  <1>4. \A u \in units : LeaksIn(seen(u), u) \subseteq FindingType
    BY <1>3 DEF LeaksIn, FindingType
  <1>5. \A f \in list \cap files : f.kind = "sent" /\ f.unit \in units => f \in had
    BY DEF RawFiles, Raw, In
  <1>6. ASSUME NEW x \in {"egress"} \X units \X Secret,
               Holding(list \cap files, x), Showing(list \cap files, x)
        PROVE  x \in found
    <2>1. x = <<"egress", x[2], x[3]>> /\ x[2] \in units
      OBVIOUS
    <2>2. x[3] \in Catalogue(seen(x[2]))
      BY <1>6 DEF Holding, Catalogue, In
    <2>3. x[3] \in UNION {f.holds : f \in {g \in seen(x[2]) : g.kind = "sent"}}
      BY <1>6 DEF Showing, Bodies, In
    <2>4. x \in LeaksIn(seen(x[2]), x[2])
      BY <2>1, <2>2, <2>3 DEF LeaksIn
    <2> QED BY <2>1, <2>4
  <1> HIDE DEF found, had
  <1>7. found \subseteq FindingType
    BY <1>4 DEF found
  <1> QED BY <1>1, <1>2, <1>5, <1>6, <1>7 DEF HostLogsTypeOK

LEMMA AuditAllKeeps ==
    ASSUME LogsInv, AuditAll
    PROVE  LogsInv'
  <1> USE DEF LogsInv
  <1>1. /\ UNCHANGED <<clock, process, dir, logged, files, touched, open, pass, gone, owed, failed, overlapped>>
        /\ passes' = passes + 1 /\ Saved(files, Unit)
    BY DEF AuditAll, written
  <1>2. /\ reports \subseteq reports' /\ reports' \subseteq FindingType
        /\ read \subseteq read' /\ read' \subseteq FileType
    BY <1>1, SavedTyped
  <1>3. \A p : Active(p)' <=> Active(p)
    BY <1>1 DEF Active, NoPass
  <1>4. HostLogsTypeOK'
    BY <1>1, <1>2 DEF HostLogsTypeOK, PassType, NoPass
  <1>5. NumberedBodies' /\ Spared' /\ AloneInPlace'
    BY <1>1, <1>3 DEF NumberedBodies, Spared, AloneInPlace, Bodies
  <1>6. AuditedFirst'
    BY <1>1 DEF AuditedFirst, Losing, Aged, In, RawFiles
  <1>7. AuditedRead'
    BY <1>1, <1>2, <1>3 DEF AuditedRead, Bodies
  <1>8. ShownIsKept'
    BY <1>1, <1>2, <1>3 DEF ShownIsKept, Holding, Showing, Bodies
  <1>9. ReadBeforeGone' /\ LeaksOutliveTraces'
    BY <1>1, <1>2 DEF ReadBeforeGone, LeaksOutliveTraces, Bodies
  <1> QED BY <1>4, <1>5, <1>6, <1>7, <1>8, <1>9

\* What an audit within a pass leaves behind.
Audited(p, units, next) ==
    /\ pass' = [q \in Pruner |-> IF q = p THEN pass'[p] ELSE pass[q]]
    /\ pass'[p] \in PassType(pass'[p].active)
    /\ pass'[p].at = next /\ pass'[p].files = pass[p].files
    /\ pass'[p].idle = pass[p].idle /\ pass'[p].expired = pass[p].expired
    /\ pass'[p].policy = pass[p].policy /\ pass'[p].time = pass[p].time
    /\ pass'[p].shows = pass[p].shows
    /\ pass'[p].audited = pass[p].audited \cup units
    /\ UNCHANGED <<written, passes, gone, owed, overlapped>>
    /\ reports \subseteq reports' /\ reports' \subseteq FindingType
    /\ read \subseteq read' /\ read' \subseteq FileType
    /\ failed' \in BOOLEAN
    /\ ~failed' =>
          /\ ~failed
          /\ \A f \in Bodies(pass[p].files) \cap files : f.unit \in units \ pass[p].audited => f \in read'
          /\ \A x \in {"egress"} \X (units \ pass[p].audited) \X Secret :
                Holding(pass[p].files \cap files, x) /\ Showing(pass[p].files \cap files, x) => x \in reports'

LEMMA AuditLeaves ==
    ASSUME HostLogsTypeOK, NEW p \in Pruner, Active(p), NEW units \in SUBSET Unit,
           NEW next \in {"remove", "shrink"}, Audit(p, units, next)
    PROVE  Audited(p, units, next)
  <1> DEFINE fresh == units \ pass[p].audited
             s == [pass[p] EXCEPT !.at = next, !.audited = units \cup pass[p].audited]
  <1>1. /\ pass[p].files \subseteq FileType
        /\ pass[p].idle \subseteq Unit /\ pass[p].expired \subseteq Unit
        /\ pass[p].audited \subseteq Unit
        /\ pass[p] \in PassType(pass[p].active)
    BY PassTyped
  <1>2. /\ s.at = next /\ s.audited = pass[p].audited \cup units
        /\ s.files = pass[p].files /\ s.idle = pass[p].idle /\ s.expired = pass[p].expired
        /\ s.shows = pass[p].shows /\ s.active = pass[p].active
        /\ s.policy = pass[p].policy /\ s.time = pass[p].time
        /\ s \in PassType(s.active)
    BY <1>1 DEF PassType
  <1>3. pass' = [pass EXCEPT ![p] = s] /\ UNCHANGED <<written, passes, gone, owed, overlapped>>
    BY DEF Audit
  <1> HIDE DEF s
  <1>4. pass = [q \in Pruner |-> pass[q]]
    BY DEF HostLogsTypeOK
  <1>5. pass' = [q \in Pruner |-> IF q = p THEN s ELSE pass[q]] /\ pass'[p] = s
    BY <1>3, <1>4
  <1>6. pass' = [q \in Pruner |-> IF q = p THEN pass'[p] ELSE pass[q]]
    BY <1>5
  <1>7. CASE /\ Saved(pass[p].files, fresh)
             /\ UNCHANGED failed
    <2>1. fresh \in SUBSET Unit
      OBVIOUS
    <2>2. /\ reports \subseteq reports' /\ reports' \subseteq FindingType
          /\ read \subseteq read' /\ read' \subseteq FileType
          /\ \A f \in pass[p].files \cap files : f.kind = "sent" /\ f.unit \in fresh => f \in read'
          /\ \A x \in {"egress"} \X fresh \X Secret :
                Holding(pass[p].files \cap files, x) /\ Showing(pass[p].files \cap files, x) => x \in reports'
      BY <1>7, <2>1, SavedTyped
    <2>3. failed' \in BOOLEAN /\ (~failed' => ~failed)
      BY <1>7 DEF HostLogsTypeOK
    <2>4. \A f \in Bodies(pass[p].files) \cap files : f.unit \in fresh => f \in read'
      BY <2>2 DEF Bodies
    <2> QED BY <1>2, <1>3, <1>5, <1>6, <2>2, <2>3, <2>4 DEF Audited
  <1>8. CASE /\ ~\E f \in Bodies(pass[p].files) : f.unit \in fresh
             /\ UNCHANGED <<reports, read, failed>>
    <2>1. ~failed' => ~failed /\ failed' \in BOOLEAN
      BY <1>8 DEF HostLogsTypeOK
    <2>2. \A f \in Bodies(pass[p].files) \cap files : f.unit \in fresh => f \in read'
      BY <1>8
    <2>3. \A x \in {"egress"} \X fresh \X Secret : ~Showing(pass[p].files \cap files, x)
      BY <1>8 DEF Showing, Bodies
    <2> QED BY <1>2, <1>3, <1>5, <1>6, <1>8, <2>1, <2>2, <2>3 DEF Audited, HostLogsTypeOK
  <1>9. CASE /\ failed' = TRUE
             /\ UNCHANGED <<reports, read>>
    BY <1>2, <1>3, <1>5, <1>6, <1>9 DEF Audited, HostLogsTypeOK
  <1> QED BY <1>7, <1>8, <1>9 DEF Audit

LEMMA AuditedKeeps ==
    ASSUME LogsInv, NEW p \in Pruner, Active(p), NEW units \in SUBSET Unit,
           NEW next \in {"remove", "shrink"}, Audited(p, units, next),
           next = "remove" => Losing(pass[p]) \subseteq units,
           next = "shrink" => \A f \in RawFiles(pass[p].files) : f.unit \in units
    PROVE  LogsInv'
  <1> USE DEF LogsInv
  <1>1. /\ \A q \in Pruner \ {p} : pass'[q] = pass[q]
        /\ pass' = [q \in Pruner |-> pass'[q]]
        /\ pass'[p] \in PassType(pass'[p].active)
        /\ pass'[p].at = next
    BY DEF Audited
  <1>2. /\ pass'[p].files = pass[p].files
        /\ pass'[p].idle = pass[p].idle /\ pass'[p].expired = pass[p].expired
        /\ pass'[p].policy = pass[p].policy /\ pass'[p].time = pass[p].time
        /\ pass'[p].shows = pass[p].shows
        /\ pass'[p].audited = pass[p].audited \cup units
    BY DEF Audited
  <1>3. /\ UNCHANGED <<clock, process, dir, logged, files, touched, open, passes, gone, owed, overlapped>>
        /\ reports \subseteq reports' /\ reports' \subseteq FindingType
        /\ read \subseteq read' /\ read' \subseteq FileType
        /\ failed' \in BOOLEAN
    BY DEF Audited, written
  <1>4. ~failed' =>
          /\ ~failed
          /\ \A f \in Bodies(pass[p].files) \cap files : f.unit \in units \ pass[p].audited => f \in read'
          /\ \A x \in {"egress"} \X (units \ pass[p].audited) \X Secret :
                Holding(pass[p].files \cap files, x) /\ Showing(pass[p].files \cap files, x) => x \in reports'
    BY DEF Audited
  <1>5. /\ pass[p].shows \subseteq {"egress"} \X Unit \X Secret
        /\ pass[p].audited \subseteq Unit
    BY PassTyped
  <1>6. Active(p)' /\ \A q \in Pruner \ {p} : Active(q)' <=> Active(q)
    BY <1>1 DEF Active, NoPass
  <1>7. HostLogsTypeOK'
    <2>1. \A q \in Pruner : pass'[q] = NoPass \/ pass'[q] \in PassType(pass'[q].active)
      BY <1>1 DEF HostLogsTypeOK
    <2> QED BY <1>1, <1>3, <2>1 DEF HostLogsTypeOK, PassType, NoPass
  <1>8. NumberedBodies'
    BY <1>1, <1>2, <1>3, <1>6 DEF NumberedBodies, Bodies
  <1>9. Spared'
    BY <1>1, <1>2, <1>3, <1>6 DEF Spared
  <1>10. AuditedFirst'
    <2>1. Losing(pass[p])' = Losing(pass[p])
      BY <1>2 DEF Losing, Aged, In, RawFiles
    <2>2. \A q \in Pruner \ {p} : Losing(pass[q])' = Losing(pass[q])
      BY <1>1 DEF Losing, Aged, In, RawFiles
    <2> QED BY <1>1, <1>2, <2>1, <2>2 DEF AuditedFirst, RawFiles
  <1>11. AuditedRead'
    <2> SUFFICES ASSUME ~failed', NEW q \in Pruner, Active(q)',
                        NEW f \in Bodies(pass'[q].files), f \in files, f.unit \in pass'[q].audited
                 PROVE  f \in read'
      BY <1>3 DEF AuditedRead, Bodies
    <2>1. CASE q # p
      BY <1>1, <1>3, <1>4, <1>6, <2>1 DEF AuditedRead
    <2>2. CASE q = p /\ f.unit \in pass[p].audited
      BY <1>2, <1>3, <1>4, <2>2 DEF AuditedRead
    <2>3. CASE q = p /\ f.unit \notin pass[p].audited
      BY <1>2, <1>3, <1>4, <2>3
    <2> QED BY <2>1, <2>2, <2>3
  <1>12. AloneInPlace'
    BY <1>1, <1>2, <1>3, <1>6 DEF AloneInPlace
  <1>13. ShownIsKept'
    <2> SUFFICES ASSUME ~failed', ~overlapped, NEW q \in Pruner, Active(q)', NEW x \in pass'[q].shows
                 PROVE  /\ x[2] \notin pass'[q].audited => Holding(pass'[q].files, x)
                        /\ x[2] \in pass'[q].audited /\ Showing(pass'[q].files, x) => x \in reports'
      BY <1>3 DEF ShownIsKept, Holding, Showing, Bodies
    <2>1. CASE q # p
      BY <1>1, <1>3, <1>4, <1>6, <2>1 DEF ShownIsKept
    <2>2. CASE q = p
      <3>1. x \in pass[p].shows /\ x \in {"egress"} \X Unit \X Secret
        BY <1>2, <1>5, <2>2
      <3>2. /\ x[2] \notin pass[p].audited => Holding(pass[p].files, x)
            /\ x[2] \in pass[p].audited /\ Showing(pass[p].files, x) => x \in reports
        BY <1>4, <3>1 DEF ShownIsKept
      <3>3. pass[p].files \cap files = pass[p].files
        BY DEF AloneInPlace
      <3>4. ASSUME x[2] \in units \ pass[p].audited, Showing(pass[p].files, x)
            PROVE  x \in reports'
        <4>1. x \in {"egress"} \X (units \ pass[p].audited) \X Secret
          BY <3>1, <3>4
        <4> QED BY <1>4, <3>2, <3>3, <3>4, <4>1
      <3> QED BY <1>2, <1>3, <2>2, <3>2, <3>4
    <2> QED BY <2>1, <2>2
  <1>14. ReadBeforeGone' /\ LeaksOutliveTraces'
    BY <1>3, <1>4 DEF ReadBeforeGone, LeaksOutliveTraces, Bodies
  <1> QED BY <1>7, <1>8, <1>9, <1>10, <1>11, <1>12, <1>13, <1>14

LEMMA AuditAgedKeeps ==
    ASSUME LogsInv, NEW p \in Pruner, AuditAged(p)
    PROVE  LogsInv'
  <1>1. pass[p].at = "audit" /\ Audit(p, Losing(pass[p]), "remove")
    BY DEF AuditAged
  <1>2. Active(p)
    BY <1>1, AtIsActive
  <1>3. Losing(pass[p]) \in SUBSET Unit
    BY DEF Losing
  <1>4. Audited(p, Losing(pass[p]), "remove")
    BY <1>1, <1>2, <1>3, AuditLeaves DEF LogsInv
  <1> QED BY <1>2, <1>3, <1>4, AuditedKeeps

\* A pass that ends without another removal.
LEMMA EndsKeeps ==
    ASSUME LogsInv, NEW p \in Pruner, pass' = [pass EXCEPT ![p] = NoPass],
           UNCHANGED <<written, evidence>>
    PROVE  LogsInv'
  <1> USE DEF LogsInv
  <1>1. UNCHANGED <<clock, process, dir, logged, files, touched, open, passes, reports, read, gone,
                    owed, failed, overlapped>>
    BY DEF written, evidence
  <1>2. pass = [q \in Pruner |-> pass[q]]
    BY DEF HostLogsTypeOK
  <1>3. pass' = [q \in Pruner |-> IF q = p THEN NoPass ELSE pass[q]]
    BY <1>2
  <1>4. pass'[p] = NoPass /\ \A q \in Pruner \ {p} : pass'[q] = pass[q]
    BY <1>3
  <1>5. ~Active(p)' /\ \A q \in Pruner \ {p} : Active(q)' <=> Active(q)
    BY <1>4 DEF Active, NoPass
  <1>6. HostLogsTypeOK'
    <2>1. \A q \in Pruner : pass'[q] = NoPass \/ pass'[q] \in PassType(pass'[q].active)
      BY <1>4 DEF HostLogsTypeOK
    <2>2. pass' = [q \in Pruner |-> pass'[q]]
      BY <1>3
    <2> QED BY <1>1, <2>1, <2>2 DEF HostLogsTypeOK, PassType, NoPass
  <1>7. NumberedBodies' /\ Spared' /\ AloneInPlace'
    BY <1>1, <1>4, <1>5 DEF NumberedBodies, Spared, AloneInPlace, Bodies
  <1>8. AuditedFirst'
    <2>1. pass'[p].at = "none"
      BY <1>4 DEF NoPass
    <2> QED BY <1>4, <2>1 DEF AuditedFirst, Losing, Aged, In, RawFiles
  <1>9. AuditedRead'
    BY <1>1, <1>4, <1>5 DEF AuditedRead, Bodies
  <1>10. ShownIsKept'
    BY <1>1, <1>4, <1>5 DEF ShownIsKept, Holding, Showing, Bodies
  <1>11. ReadBeforeGone' /\ LeaksOutliveTraces'
    BY <1>1 DEF ReadBeforeGone, LeaksOutliveTraces, Bodies
  <1> QED BY <1>6, <1>7, <1>8, <1>9, <1>10, <1>11

LEMMA AuditForCapKeeps ==
    ASSUME LogsInv, NEW p \in Pruner, AuditForCap(p)
    PROVE  LogsInv'
  <1> DEFINE units == {f.unit : f \in RawFiles(pass[p].files)}
  <1>1. pass[p].at = "cap" /\ Active(p)
    BY AtIsActive DEF AuditForCap
  <1>2. CASE Over(pass[p])
    <2>1. Audit(p, units, "shrink")
      BY <1>2 DEF AuditForCap
    <2>2. units \in SUBSET Unit
      BY <1>1, PassTyped, FileFields DEF RawFiles, LogsInv
    <2> HIDE DEF units
    <2>3. Audited(p, units, "shrink")
      BY <1>1, <2>1, <2>2, AuditLeaves DEF LogsInv
    <2>4. \A f \in RawFiles(pass[p].files) : f.unit \in units
      BY DEF units
    <2> QED BY <1>1, <2>2, <2>3, <2>4, AuditedKeeps
  <1>3. CASE ~Over(pass[p])
    BY <1>3, EndsKeeps DEF AuditForCap
  <1> QED BY <1>2, <1>3

\* What a removal leaves behind.
Removed(units, list) ==
    /\ dir' \in [Unit -> {"none", "there", "removed"}]
    /\ \A u \in Agent : process[u] = "running" => dir'[u] # "removed"
    /\ files' = {f \in files : f.unit \notin units /\ f \notin list}
    /\ touched' \in [Unit -> Nat]
    /\ gone' \subseteq FileType /\ owed' \subseteq FindingType
    /\ ~failed => Bodies(gone') \subseteq read
    /\ ~failed /\ ~overlapped => owed' \subseteq reports

LEMMA GoneLeaves ==
    ASSUME LogsInv, NEW p \in Pruner, Active(p),
           NEW units \in SUBSET (pass[p].idle \cup pass[p].expired), NEW list \in SUBSET pass[p].files,
           \A f \in RawFiles(list) : f.unit \in pass[p].audited,
           Gone(pass[p], units, list)
    PROVE  Removed(units, list)
  <1> USE DEF LogsInv
  <1> DEFINE went == {f \in RawFiles(files) : f \in list}
             due == {x \in pass[p].shows : \E f \in Bodies(went) : f.unit = x[2] /\ x[3] \in f.holds}
  <1>1. /\ dir' = [u \in Unit |-> IF u \in units THEN "removed" ELSE dir[u]]
        /\ files' = {f \in files : f.unit \notin units /\ f \notin list}
        /\ touched' = [u \in Unit |-> IF u \in ({f.unit : f \in went} \ units) \ Agent THEN clock ELSE touched[u]]
        /\ gone' = gone \cup went
        /\ owed' = owed \cup due
    BY DEF Gone, Touched
  <1>2. /\ \A f \in went : f \in files /\ f \in list /\ f \in RawFiles(list)
        /\ \A f \in Bodies(went) : f \in went /\ f.kind = "sent"
    BY DEF RawFiles, Bodies
  <1>3. /\ due \subseteq pass[p].shows
        /\ \A x \in due : \E f \in Bodies(went) : f.unit = x[2] /\ x[3] \in f.holds
    OBVIOUS
  <1>4. touched' \in [Unit -> Nat]
    BY <1>1 DEF HostLogsTypeOK
  <1> HIDE DEF went, due
  <1>5. /\ dir' \in [Unit -> {"none", "there", "removed"}]
        /\ \A u \in Agent : process[u] = "running" => dir'[u] # "removed"
    BY <1>1 DEF HostLogsTypeOK, Spared, Unit
  <1>6. gone' \subseteq FileType /\ went \subseteq FileType
    BY <1>1, <1>2 DEF HostLogsTypeOK
  <1>7. pass[p].shows \subseteq {"egress"} \X Unit \X Secret
    BY PassTyped
  <1>8. owed' \subseteq FindingType
    BY <1>1, <1>3, <1>7 DEF HostLogsTypeOK, FindingType
  <1>9. ASSUME ~failed PROVE Bodies(gone') \subseteq read
    <2>1. \A f \in Bodies(went) : f \in read
      BY <1>2, <1>9 DEF AuditedRead, Bodies
    <2> QED BY <1>1, <1>9, <2>1 DEF ReadBeforeGone, Bodies
  <1>10. ASSUME ~failed, ~overlapped PROVE owed' \subseteq reports
    <2>1. ASSUME NEW x \in due PROVE x \in reports
      <3>1. PICK f \in Bodies(went) : f.unit = x[2] /\ x[3] \in f.holds
        BY <1>3
      <3>2. f \in Bodies(pass[p].files) /\ x[2] \in pass[p].audited
        BY <1>2, <3>1 DEF Bodies
      <3>3. Showing(pass[p].files, x)
        BY <3>1, <3>2 DEF Showing
      <3> QED BY <1>3, <1>10, <3>2, <3>3 DEF ShownIsKept
    <2> QED BY <1>1, <1>10, <2>1 DEF LeaksOutliveTraces
  <1> QED BY <1>1, <1>4, <1>5, <1>6, <1>8, <1>9, <1>10 DEF Removed

LEMMA ShrinkKeeps ==
    ASSUME LogsInv, NEW p \in Pruner, Shrink(p)
    PROVE  LogsInv'
  <1> USE DEF LogsInv
  <1>1. pass[p].at = "shrink" /\ Active(p)
    BY AtIsActive DEF Shrink
  <1>2. PICK list \in SUBSET RawFiles(pass[p].files), units \in SUBSET pass[p].idle :
           /\ Gone(pass[p], units, list \cup UNION {In(pass[p].files, u) : u \in units})
           /\ pass' = [pass EXCEPT ![p] = NoPass]
    BY DEF Shrink
  <1> DEFINE all == list \cup UNION {In(pass[p].files, u) : u \in units}
  <1>3. all \in SUBSET pass[p].files
    BY DEF In, RawFiles
  <1>4. \A f \in RawFiles(all) : f.unit \in pass[p].audited
    BY <1>1, <1>3 DEF AuditedFirst, RawFiles
  <1> HIDE DEF all
  <1>5. Removed(units, all)
    BY <1>1, <1>2, <1>3, <1>4, GoneLeaves DEF all
  <1>6. UNCHANGED <<clock, process, logged, open, passes, reports, read, failed, overlapped>>
    BY DEF Shrink
  <1>7. pass = [q \in Pruner |-> pass[q]]
    BY DEF HostLogsTypeOK
  <1>8. pass' = [q \in Pruner |-> IF q = p THEN NoPass ELSE pass[q]]
    BY <1>2, <1>7
  <1>9. pass'[p] = NoPass /\ \A q \in Pruner \ {p} : pass'[q] = pass[q]
    BY <1>8
  <1>10. ~Active(p)' /\ \A q \in Pruner \ {p} : Active(q)' <=> Active(q)
    BY <1>9 DEF Active, NoPass
  <1>11. files' \subseteq files
    BY <1>5 DEF Removed
  <1>12. HostLogsTypeOK'
    <2>1. \A q \in Pruner : pass'[q] = NoPass \/ pass'[q] \in PassType(pass'[q].active)
      BY <1>9 DEF HostLogsTypeOK
    <2>2. pass' = [q \in Pruner |-> pass'[q]]
      BY <1>8
    <2> QED BY <1>5, <1>6, <1>11, <2>1, <2>2 DEF HostLogsTypeOK, PassType, NoPass, Removed
  <1>13. NumberedBodies'
    BY <1>6, <1>9, <1>10, <1>11 DEF NumberedBodies, Bodies
  <1>14. Spared'
    BY <1>5, <1>6, <1>9, <1>10 DEF Spared, Removed
  <1>15. AuditedFirst'
    <2>1. pass'[p].at = "none"
      BY <1>9 DEF NoPass
    <2> QED BY <1>9, <2>1 DEF AuditedFirst, Losing, Aged, In, RawFiles
  <1>16. AuditedRead'
    BY <1>6, <1>9, <1>10, <1>11 DEF AuditedRead, Bodies
  <1>17. AloneInPlace' /\ ShownIsKept'
    <2>1. ~overlapped => \A q \in Pruner : ~Active(q)'
      BY <1>1, <1>10 DEF AloneInPlace
    <2> QED BY <1>6, <2>1 DEF AloneInPlace, ShownIsKept
  <1>18. ReadBeforeGone' /\ LeaksOutliveTraces'
    BY <1>5, <1>6 DEF ReadBeforeGone, LeaksOutliveTraces, Bodies, Removed
  <1> QED BY <1>12, <1>13, <1>14, <1>15, <1>16, <1>17, <1>18

LEMMA RemoveAgedKeeps ==
    ASSUME LogsInv, NEW p \in Pruner, RemoveAged(p)
    PROVE  LogsInv'
  <1> USE DEF LogsInv
  <1> DEFINE units == pass[p].expired
             list == Aged(pass[p]) \cup UNION {In(pass[p].files, u) : u \in units}
             s == [pass[p] EXCEPT !.at = "cap", !.files = pass[p].files \ list,
                                  !.idle = pass[p].idle \ units]
  <1>1. pass[p].at = "remove" /\ Active(p)
    BY AtIsActive DEF RemoveAged
  <1>2. /\ pass[p].files \subseteq FileType
        /\ pass[p].idle \subseteq Unit /\ pass[p].expired \subseteq Unit
        /\ pass[p] \in PassType(pass[p].active)
    BY <1>1, PassTyped
  <1>3. /\ s.at = "cap" /\ s.files = pass[p].files \ list
        /\ s.idle = pass[p].idle \ units /\ s.expired = units
        /\ s.audited = pass[p].audited /\ s.shows = pass[p].shows
        /\ s \in PassType(s.active)
    BY <1>2 DEF PassType
  <1>4. Gone(pass[p], units, list) /\ pass' = [pass EXCEPT ![p] = s]
    BY DEF RemoveAged
  <1>5. list \in SUBSET pass[p].files
    BY DEF Aged, RawFiles, In
  <1>6. \A f \in RawFiles(list) : f.unit \in pass[p].audited
    <2> SUFFICES ASSUME NEW f \in RawFiles(list) PROVE f.unit \in Losing(pass[p])
      BY <1>1 DEF AuditedFirst
    <2>1. f \in RawFiles(pass[p].files) /\ f \in list /\ f.unit \in Unit
      BY <1>2, <1>5, FileFields DEF RawFiles
    <2>2. CASE f \in Aged(pass[p])
      BY <2>1, <2>2 DEF Losing, In
    <2>3. CASE f.unit \in units
      BY <2>1, <2>3 DEF Losing, In
    <2> QED BY <2>1, <2>2, <2>3 DEF In
  <1>7. \A f \in pass[p].files : f.unit \in units => f \in list
    BY DEF In
  <1> HIDE DEF s, list
  <1>8. Removed(units, list)
    BY <1>1, <1>4, <1>5, <1>6, GoneLeaves
  <1>9. UNCHANGED <<clock, process, logged, open, passes, reports, read, failed, overlapped>>
    BY DEF RemoveAged
  <1>10. pass = [q \in Pruner |-> pass[q]]
    BY DEF HostLogsTypeOK
  <1>11. pass' = [q \in Pruner |-> IF q = p THEN s ELSE pass[q]]
    BY <1>4, <1>10
  <1>12. pass'[p] = s /\ \A q \in Pruner \ {p} : pass'[q] = pass[q]
    BY <1>11
  <1>13. Active(p)' /\ \A q \in Pruner \ {p} : Active(q)' <=> Active(q)
    BY <1>3, <1>12 DEF Active, NoPass
  <1>14. files' \subseteq files
    BY <1>8 DEF Removed
  <1>15. HostLogsTypeOK'
    <2>1. \A q \in Pruner : pass'[q] = NoPass \/ pass'[q] \in PassType(pass'[q].active)
      BY <1>3, <1>12 DEF HostLogsTypeOK
    <2>2. pass' = [q \in Pruner |-> pass'[q]]
      BY <1>11
    <2> QED BY <1>8, <1>9, <1>14, <2>1, <2>2 DEF HostLogsTypeOK, PassType, NoPass, Removed
  <1>16. NumberedBodies'
    BY <1>1, <1>3, <1>9, <1>12, <1>13, <1>14 DEF NumberedBodies, Bodies
  <1>17. Spared'
    BY <1>1, <1>3, <1>8, <1>9, <1>12, <1>13 DEF Spared, Removed
  <1>18. AuditedFirst'
    BY <1>3, <1>12 DEF AuditedFirst, Losing, Aged, In, RawFiles
  <1>19. AuditedRead'
    BY <1>1, <1>3, <1>9, <1>12, <1>13, <1>14 DEF AuditedRead, Bodies
  <1>20. AloneInPlace'
    <2>1. ~overlapped => s.files \subseteq files'
      BY <1>1, <1>3, <1>7, <1>8 DEF AloneInPlace, Removed
    <2> QED BY <1>1, <1>9, <1>12, <1>13, <2>1 DEF AloneInPlace
  <1>21. ShownIsKept'
    <2> SUFFICES ASSUME ~failed, ~overlapped, NEW q \in Pruner, Active(q)', NEW x \in pass'[q].shows
                 PROVE  /\ x[2] \notin pass'[q].audited => Holding(pass'[q].files, x)
                        /\ x[2] \in pass'[q].audited /\ Showing(pass'[q].files, x) => x \in reports
      BY <1>9 DEF ShownIsKept, Holding, Showing, Bodies
    <2>1. q = p
      BY <1>1, <1>13 DEF AloneInPlace
    <2>2. x \in pass[p].shows /\ pass'[q].audited = pass[p].audited /\ pass'[q].files = pass[p].files \ list
      BY <1>3, <1>12, <2>1
    <2>3. ASSUME x[2] \notin pass[p].audited PROVE Holding(pass[p].files \ list, x)
      <3>1. PICK f \in pass[p].files : f.kind = "record" /\ f.unit = x[2] /\ x[3] \in f.holds
        BY <1>1, <2>2, <2>3 DEF ShownIsKept, Holding
      <3>2. f \notin list
        BY <1>6, <2>3, <3>1 DEF RawFiles, Raw
      <3> QED BY <3>1, <3>2 DEF Holding
    <2>4. Showing(pass[p].files \ list, x) => Showing(pass[p].files, x)
      BY DEF Showing, Bodies
    <2> QED BY <1>1, <2>2, <2>3, <2>4 DEF ShownIsKept
  <1>22. ReadBeforeGone' /\ LeaksOutliveTraces'
    BY <1>8, <1>9 DEF ReadBeforeGone, LeaksOutliveTraces, Bodies, Removed
  <1> QED BY <1>15, <1>16, <1>17, <1>18, <1>19, <1>20, <1>21, <1>22

LEMMA LogsStart == HostLogsInit => LogsInv
  <1> SUFFICES ASSUME HostLogsInit PROVE LogsInv
    OBVIOUS
  <1> USE DEF HostLogsInit
  <1>1. \A p \in Pruner : ~Active(p) /\ pass[p].at = "none"
    BY DEF Active, NoPass
  <1>2. HostLogsTypeOK
    BY DEF HostLogsTypeOK
  <1>3. Bodies(files) = {} /\ Bodies(gone) = {}
    BY DEF Bodies
  <1>4. NumberedBodies /\ Spared /\ AuditedRead /\ AloneInPlace /\ ShownIsKept
    BY <1>1, <1>3 DEF NumberedBodies, Spared, AuditedRead, AloneInPlace, ShownIsKept, Unit
  <1>5. AuditedFirst
    BY <1>1 DEF AuditedFirst
  <1>6. ReadBeforeGone /\ LeaksOutliveTraces
    BY <1>3 DEF ReadBeforeGone, LeaksOutliveTraces
  <1> QED BY <1>2, <1>4, <1>5, <1>6 DEF LogsInv

LEMMA LogsStep == LogsInv /\ [HostLogsNext]_logVars => LogsInv'
  <1> SUFFICES ASSUME LogsInv, [HostLogsNext]_logVars PROVE LogsInv'
    OBVIOUS
  <1>1. WrittenTypes
    BY TypesSplit DEF LogsInv
  <1>2. CASE \E u \in Unit : LogRequest(u)
    BY <1>1, <1>2, LogRequestWrites, WritesKeep
  <1>3. CASE \E r \in open : Complete(r)
    BY <1>1, <1>3, CompleteWrites, WritesKeep
  <1>4. CASE (\E u \in Unit : Exit(u)) \/ (\E r \in open : CompleteNowhere(r)) \/ HourPasses
    BY <1>1, <1>4, OthersWrite, WritesKeep
  <1>5. CASE \E p \in Pruner : BeginPass(p)
    BY <1>5, BeginPassKeeps
  <1>6. CASE \E p \in Pruner : AuditAged(p)
    BY <1>6, AuditAgedKeeps
  <1>7. CASE \E p \in Pruner : RemoveAged(p)
    BY <1>7, RemoveAgedKeeps
  <1>8. CASE \E p \in Pruner : AuditForCap(p)
    BY <1>8, AuditForCapKeeps
  <1>9. CASE \E p \in Pruner : Shrink(p)
    BY <1>9, ShrinkKeeps
  <1>10. CASE AuditAll
    BY <1>10, AuditAllKeeps
  <1>11. CASE UNCHANGED logVars
    <2>1. Writes /\ WrittenTypes'
      BY <1>1, <1>11 DEF logVars, Writes, WrittenTypes, evidence, Bodies
    <2> QED BY <2>1, WritesKeep
  <1> QED BY <1>2, <1>3, <1>4, <1>5, <1>6, <1>7, <1>8, <1>9, <1>10, <1>11 DEF HostLogsNext

\* What a pass takes away was audited first, what it could see in it is on
\* record, and a launched agent does not lose the place it writes to, however
\* many passes and proxies interleave.
THEOREM PrunesSafely == HostLogsSpec => []PruningIsSafe
  <1>1. LogsInv => PruningIsSafe
    BY DEF LogsInv, PruningIsSafe, Spared, AgentKeepsItsDirectory
  <1> QED BY <1>1, LogsStart, LogsStep, PTL DEF HostLogsSpec

(***************************************************************************)
(* The settings file.                                                      *)
(***************************************************************************)

\* Nobody brings a key along.
Keyless == \A s \in Shells : s["key"] = Unset

\* A configuration that a start does not refuse for its labels.
Fitting(s) ==
    s["labels"] # Unset => s["destroy"] = Everything \/ s["labels"] \subseteq Either(s["destroy"], {})

\* Destruction and its labels are set in the file only, which fits to begin with.
Plain == /\ \A s \in Shells : s["destroy"] = Unset /\ s["labels"] = Unset
         /\ \A s \in Started : Fitting(s)

Fits ==
    Plain => /\ Fitting(file)
             /\ \A p \in Proc : Changing(p) => Fitting(proc[p].content)
             /\ WrittenFileStarts

AloneChanging == ~crowded => \A p, q \in Proc : Changing(p) /\ Changing(q) => p = q

EnvOfShell ==
    \A p \in Proc : /\ proc[p].shell \in Shells \cup {Empty}
                    /\ \A k \in Key : proc[p].shell[k] # Unset => proc[p].env[k] = proc[p].shell[k]

\* The settings are what was answered, but for labels that were pruned and for
\* the detectors, which have an old name and a new one.
Agrees(s, a) ==
    /\ \A k \in Key \ {"backends", "backend", "labels"} : s[k] = a[k]
    /\ Either(s["backends"], s["backend"]) = Either(a["backends"], a["backend"])

\* Every key that was made or that a process holds is the one of the settings.
HasTheKey(s) ==
    Keyless => /\ minted \subseteq {s["key"]} \ {Unset}
               /\ \A p \in Proc : /\ proc[p].key \in {Unset, s["key"]}
                                  /\ proc[p].env["key"] \in {Unset, s["key"]}

\* What a process found in the file is still set.
StillSet(s) ==
    \A p \in Proc :
        /\ \A k \in Editable : proc[p].env[k] # Unset /\ proc[p].shell[k] = Unset => s[k] # Unset
        /\ proc[p].env["backend"] # Unset /\ proc[p].shell["backend"] = Unset
              => Either(s["backends"], s["backend"]) # Unset

Good(s, a) == Agrees(s, a) /\ HasTheKey(s) /\ StillSet(s)

\* The same of the settings a change under way is about to write.
GoodNow ==
    Undisturbed => /\ AtRest => Good(file, answered)
                   /\ \A p \in Proc : Changing(p) => Good(proc[p].content, LaidOver(proc[p].asked, answered))

FileInv ==
    /\ ConfigFileTypeOK
    /\ AloneChanging
    /\ EnvOfShell
    /\ Fits
    /\ GoodNow

\* A step changes what one process does.
Moves(p, x) == proc' = [proc EXCEPT ![p] = x]

LEMMA Moved ==
    ASSUME ConfigFileTypeOK, NEW p \in Proc, NEW x, Moves(p, x)
    PROVE  /\ proc'[p] = x /\ \A q \in Proc \ {p} : proc'[q] = proc[q]
           /\ proc' = [q \in Proc |-> proc'[q]]
           /\ \A q \in Proc \ {p} : Changing(q)' <=> Changing(q)
           /\ Changing(p)' <=> x.at \in {"empty", "fill"}
  <1>1. proc = [q \in Proc |-> proc[q]]
    BY DEF ConfigFileTypeOK
  <1>2. proc' = [q \in Proc |-> IF q = p THEN x ELSE proc[q]]
    BY <1>1 DEF Moves
  <1> QED BY <1>2 DEF Changing

LEMMA EmptySettings == Settings(Empty) /\ Empty = [k \in Key |-> Unset] /\ Fitting(Empty)
  BY DEF Settings, Empty, Takes, Fitting, Key

LEMMA Keys ==
    /\ Editable \subseteq Key /\ "key" \in Key /\ "labels" \in Key /\ "destroy" \in Editable
    /\ "backend" \in Key /\ "backends" \in Editable /\ "require" \in Key /\ "exclude" \in Key
    /\ "style" \in Editable /\ "failClosed" \in Editable /\ "address" \in Editable
    /\ "key" \notin Editable /\ "labels" \notin Editable /\ "backend" \notin Editable
    /\ "exclude" \notin Editable /\ "require" \notin Editable
  BY DEF Key, Editable

LEMMA OfProcess ==
    ASSUME ConfigFileTypeOK, NEW p \in Proc
    PROVE  /\ ProcessType(proc[p])
           /\ Settings(proc[p].shell) /\ Settings(proc[p].env) /\ Settings(proc[p].content)
  <1>1. ProcessType(proc[p])
    BY DEF ConfigFileTypeOK
  <1> QED BY <1>1 DEF ProcessType

\* Nothing is left of a process that ended.
LEMMA EndedFields ==
    /\ ProcessType(Ended)
    /\ Ended.at = "none" /\ Ended.shell = Empty /\ Ended.env = Empty /\ Ended.key = Unset
  <1> DEFINE e == Empty
  <1>1. Ended = [kind |-> "none", at |-> "none", shell |-> e, env |-> e, key |-> Unset,
                 content |-> e, asked |-> <<>>]
    BY DEF Ended, Process
  <1>2. Settings(e)
    BY EmptySettings
  <1> HIDE DEF e
  <1>3. DOMAIN <<>> = {}
    OBVIOUS
  <1> QED BY <1>1, <1>2, <1>3 DEF ProcessType, e

\* What a process keeps of its past, or nothing.
Keeps(p, x) ==
    \/ x.shell = proc[p].shell /\ x.env = proc[p].env
    \/ x.shell = Empty /\ x.env = Empty

LEMMA EnvKept ==
    ASSUME FileInv, NEW p \in Proc, NEW x, Moves(p, x), Keeps(p, x)
    PROVE  EnvOfShell'
  <1>1. proc'[p] = x /\ \A q \in Proc \ {p} : proc'[q] = proc[q]
    BY Moved DEF FileInv
  <1>2. \A k \in Key : Empty[k] = Unset
    BY EmptySettings
  <1>3. ASSUME NEW q \in Proc
        PROVE  /\ proc'[q].shell \in Shells \cup {Empty}
               /\ \A k \in Key : proc'[q].shell[k] # Unset => proc'[q].env[k] = proc'[q].shell[k]
    <2>1. CASE q # p
      BY <1>1, <2>1 DEF EnvOfShell, FileInv
    <2>2. CASE q = p /\ x.shell = proc[p].shell /\ x.env = proc[p].env
      BY <1>1, <2>2 DEF EnvOfShell, FileInv
    <2>3. CASE q = p /\ x.shell = Empty /\ x.env = Empty
      BY <1>1, <1>2, <2>3
    <2> QED BY <2>1, <2>2, <2>3 DEF Keeps
  <1> QED BY <1>3 DEF EnvOfShell

\* Good settings stay good while processes only take keys that are theirs.
LEMMA GoodKept ==
    ASSUME FileInv, NEW s, NEW a, Good(s, a), NEW p \in Proc, NEW x, Moves(p, x), Keeps(p, x),
           UNCHANGED minted, Keyless => x.key \in {Unset, s["key"]}
    PROVE  HasTheKey(s)' /\ StillSet(s)'
  <1>1. proc'[p] = x /\ \A q \in Proc \ {p} : proc'[q] = proc[q]
    BY Moved DEF FileInv
  <1>2. \A k \in Key : Empty[k] = Unset
    BY EmptySettings
  <1>3. HasTheKey(s)'
    <2> SUFFICES ASSUME Keyless
                 PROVE  /\ minted \subseteq {s["key"]} \ {Unset}
                        /\ \A q \in Proc : /\ proc'[q].key \in {Unset, s["key"]}
                                           /\ proc'[q].env["key"] \in {Unset, s["key"]}
      BY DEF HasTheKey, Keyless
    <2>1. /\ minted \subseteq {s["key"]} \ {Unset}
          /\ \A q \in Proc : /\ proc[q].key \in {Unset, s["key"]}
                             /\ proc[q].env["key"] \in {Unset, s["key"]}
      BY DEF Good, HasTheKey
    <2>2. x.env["key"] \in {Unset, s["key"]}
      BY <1>2, <2>1, Keys DEF Keeps
    <2> QED BY <1>1, <2>1, <2>2
  <1>4. StillSet(s)'
    <2>1. StillSet(s)
      BY DEF Good
    <2>2. /\ \A k \in Editable : x.env[k] # Unset /\ x.shell[k] = Unset => s[k] # Unset
          /\ x.env["backend"] # Unset /\ x.shell["backend"] = Unset
                => Either(s["backends"], s["backend"]) # Unset
      BY <1>2, <2>1, Keys DEF Keeps, StillSet
    <2> QED BY <1>1, <2>1, <2>2 DEF StillSet
  <1> QED BY <1>3, <1>4

LEMMA DisturbsTyped == \A p \in Proc : crowded \in BOOLEAN => Disturbs(p) \in BOOLEAN /\ (crowded => Disturbs(p))
  BY DEF Disturbs

LEMMA QuietMove ==
    ASSUME FileInv, NEW p \in Proc, NEW x, Moves(p, x), Keeps(p, x), ProcessType(x),
           ~Changing(p), x.at \notin {"empty", "fill"},
           x.at = "refused" => x.env["require"] = "1",
           UNCHANGED <<file, answered, minted, lost>>, crowded' \in {crowded, Disturbs(p)},
           Keyless => \/ x.key \in {Unset, proc[p].key, proc[p].env["key"]}
                      \/ x.key = file["key"] /\ crowded' = Disturbs(p)
    PROVE  FileInv'
  <1> USE DEF FileInv
  <1>1. /\ proc'[p] = x /\ \A q \in Proc \ {p} : proc'[q] = proc[q]
        /\ proc' = [q \in Proc |-> proc'[q]]
        /\ \A q \in Proc : Changing(q)' <=> Changing(q)
    BY Moved
  <1>2. crowded' \in BOOLEAN /\ (crowded => crowded')
    BY DisturbsTyped DEF ConfigFileTypeOK
  <1>3. ConfigFileTypeOK'
    BY <1>1, <1>2 DEF ConfigFileTypeOK
  <1>4. AloneChanging'
    BY <1>1, <1>2 DEF AloneChanging
  <1>5. EnvOfShell'
    BY EnvKept
  <1>6. Fits'
    <2> SUFFICES ASSUME Plain
                 PROVE  /\ Fitting(file)
                        /\ \A q \in Proc : Changing(q) => Fitting(proc'[q].content)
                        /\ \A q \in Proc : proc'[q].at = "refused" => proc'[q].env["require"] = "1"
      BY <1>1 DEF Fits, Plain, Fitting, WrittenFileStarts
    <2>1. /\ Fitting(file)
          /\ \A q \in Proc : Changing(q) => Fitting(proc[q].content)
          /\ \A q \in Proc : proc[q].at = "refused" => proc[q].env["require"] = "1"
      BY DEF Fits, WrittenFileStarts
    <2> QED BY <1>1, <2>1
  <1>7. GoodNow'
    <2> SUFFICES ASSUME Undisturbed'
                 PROVE  /\ AtRest' => Good(file, answered)'
                        /\ \A q \in Proc : Changing(q) =>
                              Good(proc[q].content, LaidOver(proc[q].asked, answered))'
      BY <1>1 DEF GoodNow
    <2>1. Undisturbed
      BY <1>2 DEF Undisturbed
    <2>2. ASSUME AtRest' PROVE Good(file, answered)'
      <3>1. AtRest /\ Good(file, answered)
        BY <1>1, <2>1, <2>2 DEF AtRest, GoodNow
      <3>2. PICK s, a : s = file /\ a = answered
        OBVIOUS
      <3>3. Good(s, a)
        BY <3>1, <3>2
      <3>4. Keyless => x.key \in {Unset, s["key"]}
        BY <3>1, <3>2 DEF Good, HasTheKey
      <3>5. HasTheKey(s)' /\ StillSet(s)'
        BY <3>3, <3>4, GoodKept
      <3> QED BY <3>2, <3>3, <3>5 DEF Good, HasTheKey, StillSet, Agrees, Keyless
    <2>3. ASSUME NEW q \in Proc, Changing(q)
          PROVE  Good(proc[q].content, LaidOver(proc[q].asked, answered))'
      <3>1. Good(proc[q].content, LaidOver(proc[q].asked, answered)) /\ q # p
        BY <2>1, <2>3 DEF GoodNow
      <3>2. PICK s, a : s = proc[q].content /\ a = LaidOver(proc[q].asked, answered)
        OBVIOUS
      <3>3. Good(s, a)
        BY <3>1, <3>2
      <3>4. Keyless => x.key \in {Unset, s["key"]}
        <4>1. crowded' # Disturbs(p)
          BY <2>3, <3>1 DEF Disturbs, Undisturbed
        <4> QED BY <3>3, <4>1 DEF Good, HasTheKey
      <3>5. HasTheKey(s)' /\ StillSet(s)'
        BY <3>3, <3>4, GoodKept
      <3>6. proc'[q].content = s /\ LaidOver(proc[q].asked, answered)' = a
        BY <1>1, <3>1, <3>2 DEF LaidOver
      <3> QED BY <3>3, <3>5, <3>6 DEF Good, HasTheKey, StillSet, Agrees, Keyless
    <2> QED BY <2>2, <2>3
  <1> QED BY <1>3, <1>4, <1>5, <1>6, <1>7

LEMMA RunMoves ==
    ASSUME FileInv, NEW p \in Proc, ~Changing(p), NEW key, Run(p, key), crowded' \in {crowded, Disturbs(p)},
           Keyless => \/ key \in {Unset, proc[p].key, proc[p].env["key"]}
                      \/ key = file["key"] /\ crowded' = Disturbs(p)
    PROVE  FileInv'
  <1> DEFINE x == IF proc[p].at = "keyless" THEN Ended ELSE [proc[p] EXCEPT !.key = key, !.at = "running"]
  <1>1. ProcessType(proc[p])
    BY OfProcess DEF FileInv
  <1>2. ProcessType(x) /\ x.at \in {"none", "running"} /\ Keeps(p, x) /\ x.key \in {Unset, key}
    BY <1>1, EndedFields DEF ProcessType, Keeps
  <1>3. proc' = [proc EXCEPT ![p] = x]
    BY DEF Run
  <1> HIDE DEF x
  <1>4. Moves(p, x)
    BY <1>3 DEF Moves
  <1>5. UNCHANGED <<file, answered, minted, lost>>
    BY DEF Run
  <1>6. Keyless => \/ x.key \in {Unset, proc[p].key, proc[p].env["key"]}
                   \/ x.key = file["key"] /\ crowded' = Disturbs(p)
    BY <1>2
  <1> QED BY <1>2, <1>4, <1>5, <1>6, QuietMove

LEMMA RefusesMoves ==
    ASSUME FileInv, NEW p \in Proc, ~Changing(p), proc' = [proc EXCEPT ![p].at = "refused"],
           proc[p].env["require"] = "1", crowded' \in {crowded, Disturbs(p)},
           UNCHANGED <<file, answered, minted, lost>>
    PROVE  FileInv'
  <1> DEFINE x == [proc[p] EXCEPT !.at = "refused"]
  <1>1. ProcessType(proc[p])
    BY OfProcess DEF FileInv
  <1>2. ProcessType(x) /\ x.at = "refused" /\ Keeps(p, x) /\ x.key = proc[p].key /\ x.env = proc[p].env
    BY <1>1 DEF ProcessType, Keeps
  <1>3. proc' = [proc EXCEPT ![p] = x]
    OBVIOUS
  <1> HIDE DEF x
  <1> QED BY <1>2, <1>3, QuietMove DEF Moves

LEMMA CheckKeyKeeps == ASSUME FileInv, NEW p \in Proc, CheckKey(p) PROVE FileInv'
  <1>1. ~Changing(p) /\ crowded' \in {crowded, Disturbs(p)}
    BY DEF CheckKey, Changing
  <1>2. CASE proc[p].env["key"] = Unset /\ proc[p].env["require"] = "1"
    BY <1>1, <1>2, RefusesMoves DEF CheckKey
  <1>3. CASE Run(p, proc[p].env["key"])
    <2>1. PICK key : key = proc[p].env["key"]
      OBVIOUS
    <2>2. Run(p, key)
      BY <1>3, <2>1
    <2> QED BY <1>1, <2>1, <2>2, RunMoves
  <1> QED BY <1>2, <1>3 DEF CheckKey

LEMMA DieKeeps == ASSUME FileInv, NEW p \in Proc, Die(p) PROVE FileInv'
  <1> USE DEF FileInv
  <1>1. Moves(p, Ended) /\ UNCHANGED <<file, answered, minted, crowded>>
    BY DEF Die, Moves
  <1>10. lost' = (lost \/ proc[p].at = "fill")
    BY DEF Die
  <1>2. PICK x : x = Ended
    OBVIOUS
  <1>3. ProcessType(x) /\ x.at = "none" /\ Keeps(p, x) /\ x.key = Unset /\ Moves(p, x)
    BY <1>1, <1>2, EndedFields DEF Keeps
  <1>4. CASE proc[p].at = "running"
    <2>1. ~Changing(p)
      BY <1>4 DEF Changing
    <2>2. lost \in BOOLEAN /\ (proc[p].at = "fill") = FALSE
      BY <1>4 DEF ConfigFileTypeOK
    <2>3. lost' = lost
      BY <1>10, <2>2
    <2> QED BY <1>1, <1>3, <2>1, <2>3, QuietMove
  <1>5. CASE proc[p].at = "fill"
    <2>1. /\ proc'[p] = x /\ \A q \in Proc \ {p} : proc'[q] = proc[q]
          /\ proc' = [q \in Proc |-> proc'[q]]
          /\ \A q \in Proc : Changing(q)' => Changing(q) /\ q # p
      BY <1>3, Moved
    <2>6. lost' \in BOOLEAN /\ lost'
      BY <1>5, <1>10 DEF ConfigFileTypeOK
    <2>2. ConfigFileTypeOK' /\ AloneChanging'
      BY <1>1, <1>3, <2>1, <2>6 DEF ConfigFileTypeOK, AloneChanging
    <2>3. EnvOfShell'
      BY <1>3, EnvKept
    <2>4. Fits'
      <3>1. WrittenFileStarts => WrittenFileStarts'
        BY <1>3, <2>1 DEF WrittenFileStarts
      <3> QED BY <1>1, <2>1, <3>1 DEF Fits, Plain, Fitting
    <2>5. GoodNow'
      BY <2>6 DEF GoodNow, Undisturbed
    <2> QED BY <2>2, <2>3, <2>4, <2>5
  <1> QED BY <1>4, <1>5 DEF Die

\* A change that keeps what the settings promise.
Carries(s, a) ==
    /\ Settings(s) /\ s["key"] = file["key"]
    /\ DOMAIN a \subseteq Key /\ \A k \in DOMAIN a : Takes(k, a[k])
    /\ Fitting(file) => Fitting(s)
    /\ Agrees(file, answered) => Agrees(s, LaidOver(a, answered))
    /\ \A k \in Editable : file[k] # Unset => s[k] # Unset
    /\ Either(file["backends"], file["backend"]) # Unset => Either(s["backends"], s["backend"]) # Unset

\* A process that is about to write.
LEMMA BeginFields ==
    ASSUME NEW r, ProcessType(r), NEW s, NEW a
    PROVE  [r EXCEPT !.at = "empty", !.content = s, !.asked = a]
           = [kind |-> r.kind, at |-> "empty", shell |-> r.shell, env |-> r.env, key |-> r.key,
              content |-> s, asked |-> a]
  <1>1. r = [kind |-> r.kind, at |-> r.at, shell |-> r.shell, env |-> r.env, key |-> r.key,
             content |-> r.content, asked |-> r.asked]
    BY DEF ProcessType
  <1> DEFINE x == [r EXCEPT !.at = "empty", !.content = s, !.asked = a]
  <1>2. /\ x.kind = r.kind /\ x.at = "empty" /\ x.shell = r.shell /\ x.env = r.env /\ x.key = r.key
        /\ x.content = s /\ x.asked = a
    BY <1>1
  <1>3. DOMAIN x = {"kind", "at", "shell", "env", "key", "content", "asked"}
    BY <1>1
  <1>4. x = [f \in DOMAIN x |-> x[f]]
    OBVIOUS
  <1> HIDE DEF x
  <1>5. x = [kind |-> r.kind, at |-> "empty", shell |-> r.shell, env |-> r.env, key |-> r.key,
             content |-> s, asked |-> a]
    BY <1>2, <1>3, <1>4
  <1> QED BY <1>5 DEF x

LEMMA BeginMoves ==
    ASSUME FileInv, NEW p \in Proc, ~Changing(p), proc[p].at # "refused", NEW s, NEW a, Carries(s, a),
           Begin(p, s, a), UNCHANGED minted
    PROVE  FileInv'
  <1> USE DEF FileInv
  <1> DEFINE x == [proc[p] EXCEPT !.at = "empty", !.content = s, !.asked = a]
  <1>1. ProcessType(proc[p])
    BY OfProcess
  <1>21. /\ x.at = "empty" /\ x.key = proc[p].key /\ x.content = s /\ x.asked = a
         /\ x.kind = proc[p].kind /\ x.shell = proc[p].shell /\ x.env = proc[p].env
         /\ x = [kind |-> x.kind, at |-> x.at, shell |-> x.shell, env |-> x.env, key |-> x.key,
                 content |-> x.content, asked |-> x.asked]
    <2>1. x = [kind |-> proc[p].kind, at |-> "empty", shell |-> proc[p].shell, env |-> proc[p].env,
               key |-> proc[p].key, content |-> s, asked |-> a]
      BY <1>1, BeginFields
    <2> HIDE DEF x
    <2> QED BY <2>1
  <1>22. /\ Settings(s) /\ DOMAIN a \subseteq Key /\ \A k \in DOMAIN a : Takes(k, a[k])
         /\ Settings(proc[p].shell) /\ Settings(proc[p].env)
         /\ proc[p].kind \in {"none", "launch", "proxy", "setup", "review"}
    BY <1>1 DEF Carries, ProcessType
  <1>3. proc' = [proc EXCEPT ![p] = x]
    BY DEF Begin
  <1> HIDE DEF x
  <1>2. /\ ProcessType(x) /\ x.at = "empty" /\ Keeps(p, x) /\ x.key = proc[p].key
        /\ x.content = s /\ x.asked = a
    BY <1>21, <1>22 DEF ProcessType, Keeps
  <1>4. Moves(p, x)
    BY <1>3 DEF Moves
  <1>5. UNCHANGED <<file, answered, minted, lost>> /\ crowded' = Disturbs(p)
    BY DEF Begin
  <1>6. /\ proc'[p] = x /\ \A q \in Proc \ {p} : proc'[q] = proc[q]
        /\ proc' = [q \in Proc |-> proc'[q]]
        /\ \A q \in Proc \ {p} : Changing(q)' <=> Changing(q)
        /\ Changing(p)'
    BY <1>2, <1>4, Moved
  <1>7. ConfigFileTypeOK'
    BY <1>2, <1>5, <1>6, DisturbsTyped DEF ConfigFileTypeOK
  <1>8. AloneChanging'
    BY <1>5, <1>6 DEF AloneChanging, Disturbs
  <1>9. EnvOfShell'
    BY <1>2, <1>4, EnvKept
  <1>10. Fits'
    <2> SUFFICES ASSUME Plain
                 PROVE  /\ Fitting(file)
                        /\ \A q \in Proc : Changing(q)' => Fitting(proc'[q].content)
                        /\ \A q \in Proc : proc'[q].at = "refused" => proc'[q].env["require"] = "1"
      BY <1>5 DEF Fits, Plain, Fitting, WrittenFileStarts
    <2>1. /\ Fitting(file)
          /\ \A q \in Proc : Changing(q) => Fitting(proc[q].content)
          /\ \A q \in Proc : proc[q].at = "refused" => proc[q].env["require"] = "1"
      BY DEF Fits, WrittenFileStarts
    <2>2. Fitting(s)
      BY <2>1 DEF Carries
    <2> QED BY <1>2, <1>6, <2>1, <2>2
  <1>11. GoodNow'
    <2> SUFFICES ASSUME Undisturbed', NEW q \in Proc, Changing(q)'
                 PROVE  Good(proc[q].content, LaidOver(proc[q].asked, answered))'
      BY <1>6 DEF GoodNow, AtRest
    <2>1. Undisturbed /\ AtRest /\ q = p
      BY <1>5, <1>6 DEF Undisturbed, AtRest, Disturbs
    <2>2. Good(file, answered)
      BY <2>1 DEF GoodNow
    <2>3. Agrees(s, LaidOver(a, answered))
      BY <2>2 DEF Good, Carries
    <2>4. PICK b : b = LaidOver(a, answered)
      OBVIOUS
    <2>5. Good(s, b)
      BY <2>2, <2>3, <2>4 DEF Good, Carries, HasTheKey, StillSet
    <2>6. HasTheKey(s)' /\ StillSet(s)'
      <3>1. Keyless => x.key \in {Unset, s["key"]}
        BY <1>2, <2>5 DEF Good, HasTheKey
      <3> QED BY <1>2, <1>4, <1>5, <2>5, <3>1, GoodKept
    <2>7. proc'[q].content = s /\ LaidOver(proc[q].asked, answered)' = b
      BY <1>2, <1>5, <1>6, <2>1, <2>4 DEF LaidOver
    <2> QED BY <2>5, <2>6, <2>7 DEF Good, HasTheKey, StillSet, Agrees, Keyless
  <1> QED BY <1>7, <1>8, <1>9, <1>10, <1>11

\* The settings after an edit, one by one.
LEMMA PatchedFields ==
    ASSUME NEW s, s = [k \in Key |-> s[k]], NEW f \in Editable, NEW v
    PROVE  /\ Patched(s, f, v) = [k \in Key |-> Patched(s, f, v)[k]]
           /\ DOMAIN Patched(s, f, v) = Key
           /\ \A k \in Key \ {"backend", "labels"} : Patched(s, f, v)[k] = IF k = f THEN v ELSE s[k]
           /\ Patched(s, f, v)["backend"] = IF f = "backends" THEN Unset ELSE s["backend"]
           /\ Patched(s, f, v)["labels"] =
                 IF f = "destroy" /\ s["labels"] # Unset
                 THEN (IF KeptLabels(s, v) = {} THEN Unset ELSE KeptLabels(s, v)) ELSE s["labels"]
  BY Keys DEF Patched

LEMMA PatchCarries ==
    ASSUME FileInv, NEW f \in Editable, NEW v, v # Unset, Takes(f, v)
    PROVE  Carries(Patched(file, f, v), Only(f, v))
  <1> DEFINE s == Patched(file, f, v)
             a == Only(f, v)
             kept == KeptLabels(file, v)
  <1>1. Settings(file) /\ Settings(answered)
    BY DEF FileInv, ConfigFileTypeOK
  <1>2. DOMAIN a = {f} /\ a[f] = v
    BY DEF Only
  <1>3. /\ DOMAIN s = Key
        /\ \A k \in Key \ {"backend", "labels"} : s[k] = IF k = f THEN v ELSE file[k]
        /\ s["backend"] = IF f = "backends" THEN Unset ELSE file["backend"]
        /\ s["labels"] = IF f = "destroy" /\ file["labels"] # Unset
                         THEN (IF kept = {} THEN Unset ELSE kept) ELSE file["labels"]
    BY <1>1, PatchedFields DEF Settings
  <1>4. kept \subseteq v
    BY DEF KeptLabels
  <1>10. s = [k \in DOMAIN s |-> s[k]]
    BY DEF Patched
  <1> HIDE DEF s, a, kept
  <1>5. Settings(s)
    BY <1>1, <1>3, <1>10 DEF Settings, Takes
  <1>6. Fitting(file) => Fitting(s)
    <2>1. CASE f = "destroy"
      BY <1>3, <1>4, <2>1, Keys DEF Fitting, Either
    <2>2. CASE f # "destroy"
      BY <1>3, <2>2, Keys DEF Fitting
    <2> QED BY <2>1, <2>2
  <1>7. Agrees(file, answered) => Agrees(s, LaidOver(a, answered))
    <2> SUFFICES ASSUME Agrees(file, answered) PROVE Agrees(s, LaidOver(a, answered))
      OBVIOUS
    <2> DEFINE b == LaidOver(a, answered)
    <2>1. \A k \in Key : b[k] = IF k = f THEN v ELSE answered[k]
      BY <1>2 DEF LaidOver
    <2> HIDE DEF b
    <2>2. \A k \in Key \ {"backends", "backend", "labels"} : s[k] = b[k]
      BY <1>3, <2>1 DEF Agrees
    <2>3. Either(s["backends"], s["backend"]) = Either(b["backends"], b["backend"])
      BY <1>3, <2>1, Keys DEF Agrees, Either
    <2> QED BY <2>2, <2>3 DEF Agrees, b
  <1>8. s["key"] = file["key"] /\ DOMAIN a \subseteq Key /\ \A k \in DOMAIN a : Takes(k, a[k])
    BY <1>2, <1>3, Keys
  <1>9. /\ \A k \in Editable : file[k] # Unset => s[k] # Unset
        /\ Either(file["backends"], file["backend"]) # Unset => Either(s["backends"], s["backend"]) # Unset
    BY <1>3, Keys DEF Either
  <1>11. Carries(s, a)
    BY <1>5, <1>6, <1>7, <1>8, <1>9 DEF Carries
  <1> QED BY <1>11 DEF s, a

LEMMA PatchKeeps ==
    ASSUME FileInv, NEW p \in Proc, NEW e \in Edits, Patch(p, e[1], e[2])
    PROVE  FileInv'
  <1>1. e[1] \in Editable /\ e[2] # Unset /\ Takes(e[1], e[2])
    BY ConfigFileAssumption
  <1>2. PICK s, a : s = Patched(file, e[1], e[2]) /\ a = Only(e[1], e[2])
    OBVIOUS
  <1>3. Carries(s, a)
    BY <1>1, <1>2, PatchCarries
  <1>4. ~Changing(p) /\ proc[p].at # "refused" /\ Begin(p, s, a) /\ UNCHANGED minted
    BY <1>2 DEF Patch, Changing
  <1> QED BY <1>3, <1>4, BeginMoves

LEMMA ReviewCarries ==
    ASSUME FileInv, NEW names
    PROVE  Carries([file EXCEPT !["exclude"] = names], Only("exclude", names))
  <1> DEFINE s == [file EXCEPT !["exclude"] = names]
             a == Only("exclude", names)
  <1>1. Settings(file)
    BY DEF FileInv, ConfigFileTypeOK
  <1>2. DOMAIN a = {"exclude"} /\ a["exclude"] = names
    BY DEF Only
  <1>3. s = [k \in Key |-> IF k = "exclude" THEN names ELSE file[k]]
    BY <1>1, Keys DEF Settings
  <1> HIDE DEF s, a
  <1>4. \A k \in Key : s[k] = IF k = "exclude" THEN names ELSE file[k]
    BY <1>3
  <1>5. Settings(s) /\ \A k \in DOMAIN a : Takes(k, a[k])
    BY <1>1, <1>2, <1>3 DEF Settings, Takes
  <1>6. Fitting(file) => Fitting(s)
    BY <1>4, Keys DEF Fitting
  <1>7. Agrees(file, answered) => Agrees(s, LaidOver(a, answered))
    <2> SUFFICES ASSUME Agrees(file, answered) PROVE Agrees(s, LaidOver(a, answered))
      OBVIOUS
    <2> DEFINE b == LaidOver(a, answered)
    <2>1. \A k \in Key : b[k] = IF k = "exclude" THEN names ELSE answered[k]
      BY <1>2 DEF LaidOver
    <2> HIDE DEF b
    <2>2. Agrees(s, b)
      BY <1>4, <2>1, Keys DEF Agrees
    <2> QED BY <2>2 DEF b
  <1>8. Carries(s, a)
    BY <1>2, <1>4, <1>5, <1>6, <1>7, Keys DEF Carries
  <1> QED BY <1>8 DEF s, a

LEMMA ReviewKeeps ==
    ASSUME FileInv, NEW p \in Proc, NEW names, ReviewEnds(p, names)
    PROVE  FileInv'
  <1>2. PICK s, a : s = [file EXCEPT !["exclude"] = names] /\ a = Only("exclude", names)
    OBVIOUS
  <1>3. Carries(s, a)
    BY <1>2, ReviewCarries
  <1>4. ~Changing(p) /\ proc[p].at # "refused" /\ Begin(p, s, a) /\ UNCHANGED minted
    BY <1>2 DEF ReviewEnds, Changing
  <1> QED BY <1>3, <1>4, BeginMoves

LEMMA SetupCarries ==
    ASSUME FileInv, NEW a \in Answers, NEW given, given = Merged(a)
    PROVE  Carries([given EXCEPT !["backends"] = Either(@, given["backend"]), !["backend"] = Unset], a)
  <1> DEFINE s == [given EXCEPT !["backends"] = Either(@, given["backend"]), !["backend"] = Unset]
             either == Either(given["backends"], given["backend"])
  <1>1. Settings(file) /\ Settings(answered)
    BY DEF FileInv, ConfigFileTypeOK
  <1>2. /\ DOMAIN a \subseteq Key \ {"backend", "labels", "destroy", "key"}
        /\ \A k \in DOMAIN a : Takes(k, a[k]) /\ (k # "exclude" => a[k] # Unset)
    BY ConfigFileAssumption
  <1>3. /\ given = [k \in Key |-> given[k]]
        /\ \A k \in Key : given[k] = IF k \in DOMAIN a THEN a[k] ELSE file[k]
    BY DEF Merged, LaidOver
  <1>4. s = [k \in Key |-> CASE k = "backends" -> either [] k = "backend" -> Unset [] OTHER -> given[k]]
    BY <1>3, Keys
  <1> HIDE DEF s
  <1>5. /\ \A k \in Key \ {"backends", "backend"} : s[k] = given[k]
        /\ s["backends"] = either /\ s["backend"] = Unset
    BY <1>4, Keys
  <1>6. Settings(s)
    <2>1. \A k \in Key : Takes(k, s[k])
      BY <1>1, <1>2, <1>3, <1>5 DEF Settings, Takes
    <2> QED BY <1>4, <2>1 DEF Settings
  <1>7. s["key"] = file["key"] /\ s["labels"] = file["labels"] /\ s["destroy"] = file["destroy"]
    BY <1>2, <1>3, <1>5, Keys
  <1>8. Fitting(file) => Fitting(s)
    BY <1>7 DEF Fitting
  <1>9. Agrees(file, answered) => Agrees(s, LaidOver(a, answered))
    <2> SUFFICES ASSUME Agrees(file, answered) PROVE Agrees(s, LaidOver(a, answered))
      OBVIOUS
    <2> DEFINE b == LaidOver(a, answered)
    <2>1. \A k \in Key : b[k] = IF k \in DOMAIN a THEN a[k] ELSE answered[k]
      BY DEF LaidOver
    <2> HIDE DEF b
    <2>2. \A k \in Key \ {"backends", "backend", "labels"} : s[k] = b[k]
      BY <1>3, <1>5, <2>1 DEF Agrees
    <2>3. Either(s["backends"], s["backend"]) = Either(b["backends"], b["backend"])
      BY <1>2, <1>3, <1>5, <2>1, Keys DEF Agrees, Either
    <2> QED BY <2>2, <2>3 DEF Agrees, b
  <1>10. \A k \in Editable : file[k] # Unset => s[k] # Unset
    BY <1>2, <1>3, <1>5, Keys DEF Either
  <1>11. Either(file["backends"], file["backend"]) # Unset => Either(s["backends"], s["backend"]) # Unset
    BY <1>2, <1>3, <1>5, Keys DEF Either
  <1>12. Carries(s, a)
    BY <1>2, <1>6, <1>7, <1>8, <1>9, <1>10, <1>11 DEF Carries
  <1> QED BY <1>12 DEF s

LEMMA SetupKeeps ==
    ASSUME FileInv, NEW p \in Proc, NEW a \in Answers, SetupEnds(p, a)
    PROVE  FileInv'
  <1>1. PICK given : given = Merged(a)
    OBVIOUS
  <1>2. PICK s : s = [given EXCEPT !["backends"] = Either(@, given["backend"]), !["backend"] = Unset]
    OBVIOUS
  <1>3. Carries(s, a)
    BY <1>1, <1>2, SetupCarries
  <1>4. ~Changing(p) /\ proc[p].at # "refused" /\ UNCHANGED minted
    BY DEF SetupEnds, Changing
  <1>5. Begin(p, s, a)
    BY <1>1, <1>2 DEF SetupEnds
  <1> QED BY <1>3, <1>4, <1>5, BeginMoves

LEMMA TruncateKeeps ==
    ASSUME FileInv, NEW p \in Proc, Truncate(p)
    PROVE  FileInv'
  <1> USE DEF FileInv
  <1> DEFINE x == [proc[p] EXCEPT !.at = "fill"]
  <1>1. ProcessType(proc[p])
    BY OfProcess
  <1>2. /\ ProcessType(x) /\ x.at = "fill" /\ Keeps(p, x) /\ x.key = proc[p].key /\ x.env = proc[p].env
        /\ x.content = proc[p].content /\ x.asked = proc[p].asked
    BY <1>1 DEF ProcessType, Keeps
  <1>3. proc' = [proc EXCEPT ![p] = x] /\ Changing(p)
    BY DEF Truncate, Changing
  <1> HIDE DEF x
  <1>4. Moves(p, x)
    BY <1>3 DEF Moves
  <1>5. file' = Empty /\ UNCHANGED <<answered, minted, lost>>
    BY DEF Truncate
  <1>12. crowded' = Disturbs(p)
    BY DEF Truncate
  <1>6. /\ proc'[p] = x /\ \A q \in Proc \ {p} : proc'[q] = proc[q]
        /\ proc' = [q \in Proc |-> proc'[q]]
        /\ \A q \in Proc : Changing(q)' <=> Changing(q)
    BY <1>2, <1>3, <1>4, Moved
  <1>13. crowded' \in BOOLEAN /\ (crowded => crowded')
    BY <1>12, DisturbsTyped DEF ConfigFileTypeOK
  <1>7. ConfigFileTypeOK'
    BY <1>2, <1>5, <1>6, <1>13, EmptySettings DEF ConfigFileTypeOK
  <1>8. AloneChanging'
    BY <1>6, <1>13 DEF AloneChanging
  <1>9. EnvOfShell'
    BY <1>2, <1>4, EnvKept
  <1>10. Fits'
    <2> SUFFICES ASSUME Plain
                 PROVE  /\ Fitting(Empty)
                        /\ \A q \in Proc : Changing(q) => Fitting(proc'[q].content)
                        /\ \A q \in Proc : proc'[q].at = "refused" => proc'[q].env["require"] = "1"
      BY <1>5, <1>6 DEF Fits, Plain, Fitting, WrittenFileStarts
    <2>1. /\ \A q \in Proc : Changing(q) => Fitting(proc[q].content)
          /\ \A q \in Proc : proc[q].at = "refused" => proc[q].env["require"] = "1"
      BY DEF Fits, WrittenFileStarts
    <2> QED BY <1>2, <1>6, <2>1, EmptySettings
  <1>11. GoodNow'
    <2> SUFFICES ASSUME Undisturbed', NEW q \in Proc, Changing(q)
                 PROVE  Good(proc[q].content, LaidOver(proc[q].asked, answered))'
      BY <1>3, <1>6 DEF GoodNow, AtRest
    <2>1. Undisturbed /\ q = p
      BY <1>5, <1>12, <1>13 DEF Undisturbed, Disturbs
    <2>2. PICK s, b : s = proc[p].content /\ b = LaidOver(proc[p].asked, answered)
      OBVIOUS
    <2>3. Good(s, b)
      BY <1>3, <2>1, <2>2 DEF GoodNow
    <2>6. HasTheKey(s)' /\ StillSet(s)'
      <3>1. Keyless => x.key \in {Unset, s["key"]}
        BY <1>2, <2>3 DEF Good, HasTheKey
      <3> QED BY <1>2, <1>4, <1>5, <2>3, <3>1, GoodKept
    <2>7. proc'[q].content = s /\ LaidOver(proc[q].asked, answered)' = b
      BY <1>2, <1>5, <1>6, <2>1, <2>2 DEF LaidOver
    <2> QED BY <2>3, <2>6, <2>7 DEF Good, HasTheKey, StillSet, Agrees, Keyless
  <1> QED BY <1>7, <1>8, <1>9, <1>10, <1>11

LEMMA LaidOverTyped ==
    ASSUME NEW a, DOMAIN a \subseteq Key, \A k \in DOMAIN a : Takes(k, a[k]), NEW s, Settings(s)
    PROVE  Settings(LaidOver(a, s))
  BY DEF LaidOver, Settings

LEMMA FillKeeps ==
    ASSUME FileInv, NEW p \in Proc, Fill(p)
    PROVE  FileInv'
  <1> USE DEF FileInv
  <1> DEFINE done == [proc[p] EXCEPT !.content = Empty, !.asked = <<>>]
             x == CASE done.kind \in {"launch", "proxy"} -> [done EXCEPT !.at = "running"]
                    [] done.kind = "setup" /\ done.key = Unset -> [done EXCEPT !.at = "keyless"]
                    [] OTHER -> Ended
  <1>1. ProcessType(proc[p])
    BY OfProcess
  <1>2. Settings(Empty) /\ DOMAIN <<>> = {}
    BY EmptySettings
  <1>3. ProcessType(done) /\ Keeps(p, done) /\ done.key = proc[p].key
    <2>1. proc[p] = [kind |-> proc[p].kind, at |-> proc[p].at, shell |-> proc[p].shell,
                     env |-> proc[p].env, key |-> proc[p].key, content |-> proc[p].content,
                     asked |-> proc[p].asked]
      BY <1>1 DEF ProcessType
    <2>2. PICK e, n : e = Empty /\ n = <<>>
      OBVIOUS
    <2>3. done = [proc[p] EXCEPT !.content = e, !.asked = n]
      BY <2>2
    <2>4. Settings(e) /\ DOMAIN n = {}
      BY <1>2, <2>2
    <2> DEFINE d == [proc[p] EXCEPT !.content = e, !.asked = n]
    <2>5. /\ d.kind = proc[p].kind /\ d.at = proc[p].at /\ d.shell = proc[p].shell
          /\ d.env = proc[p].env /\ d.key = proc[p].key /\ d.content = e /\ d.asked = n
      BY <2>1
    <2>6. DOMAIN d = {"kind", "at", "shell", "env", "key", "content", "asked"}
      BY <2>1
    <2>7. d = [f \in DOMAIN d |-> d[f]]
      OBVIOUS
    <2> HIDE DEF d
    <2>8. d = [kind |-> d.kind, at |-> d.at, shell |-> d.shell, env |-> d.env, key |-> d.key,
               content |-> d.content, asked |-> d.asked]
      BY <2>6, <2>7
    <2>9. ProcessType(d) /\ Keeps(p, d)
      BY <1>1, <2>4, <2>5, <2>8 DEF ProcessType, Keeps
    <2> HIDE DEF done
    <2>10. done = d
      BY <2>3 DEF d
    <2> QED BY <2>5, <2>9, <2>10
  <1>4. proc' = [proc EXCEPT ![p] = x] /\ proc[p].at = "fill"
    BY DEF Fill
  <1> HIDE DEF done
  <1>5. \/ x = [done EXCEPT !.at = "running"] \/ x = [done EXCEPT !.at = "keyless"] \/ x = Ended
    OBVIOUS
  <1> HIDE DEF x
  <1>6. /\ ProcessType(x) /\ x.at \in {"running", "keyless", "none"} /\ Keeps(p, x)
        /\ x.key \in {Unset, proc[p].key}
    <2>1. CASE x = [done EXCEPT !.at = "running"]
      BY <1>3, <2>1 DEF ProcessType, Keeps
    <2>2. CASE x = [done EXCEPT !.at = "keyless"]
      BY <1>3, <2>2 DEF ProcessType, Keeps
    <2>3. CASE x = Ended
      BY <2>3, EndedFields DEF Keeps
    <2> QED BY <1>5, <2>1, <2>2, <2>3
  <1>7. Moves(p, x) /\ Changing(p)
    BY <1>4 DEF Moves, Changing
  <1>8. file' = proc[p].content /\ answered' = LaidOver(proc[p].asked, answered) /\ UNCHANGED <<minted, lost>>
    BY DEF Fill
  <1>9. crowded' = Disturbs(p)
    BY DEF Fill
  <1>10. /\ proc'[p] = x /\ \A q \in Proc \ {p} : proc'[q] = proc[q]
         /\ proc' = [q \in Proc |-> proc'[q]]
         /\ \A q \in Proc : Changing(q)' <=> Changing(q) /\ q # p
    BY <1>6, <1>7, Moved
  <1>11. crowded' \in BOOLEAN /\ (crowded => crowded')
    BY <1>9, DisturbsTyped DEF ConfigFileTypeOK
  <1>12. ConfigFileTypeOK'
    <2>1. Settings(answered)'
      BY <1>1, <1>8, LaidOverTyped DEF ConfigFileTypeOK, ProcessType
    <2>2. Settings(file)'
      BY <1>1, <1>8 DEF ProcessType
    <2> QED BY <1>6, <1>8, <1>10, <1>11, <2>1, <2>2 DEF ConfigFileTypeOK
  <1>13. AloneChanging'
    BY <1>10, <1>11 DEF AloneChanging
  <1>14. EnvOfShell'
    BY <1>6, <1>7, EnvKept
  <1>15. Fits'
    <2> SUFFICES ASSUME Plain
                 PROVE  /\ Fitting(proc[p].content)
                        /\ \A q \in Proc : Changing(q) => Fitting(proc[q].content)
                        /\ \A q \in Proc : proc'[q].at = "refused" => proc'[q].env["require"] = "1"
      BY <1>8, <1>10 DEF Fits, Plain, Fitting, WrittenFileStarts
    <2>1. /\ \A q \in Proc : Changing(q) => Fitting(proc[q].content)
          /\ \A q \in Proc : proc[q].at = "refused" => proc[q].env["require"] = "1"
      BY DEF Fits, WrittenFileStarts
    <2> QED BY <1>6, <1>7, <1>10, <2>1
  <1>16. GoodNow'
    <2> SUFFICES ASSUME Undisturbed'
                 PROVE  Good(file, answered)' /\ \A q \in Proc : ~Changing(q)'
      BY DEF GoodNow
    <2>1. Undisturbed /\ \A q \in Proc : ~Changing(q)'
      BY <1>8, <1>9, <1>10, <1>11 DEF Undisturbed, Disturbs
    <2>2. PICK s, b : s = proc[p].content /\ b = LaidOver(proc[p].asked, answered)
      OBVIOUS
    <2>3. Good(s, b)
      BY <1>7, <2>1, <2>2 DEF GoodNow
    <2>4. Keyless => x.key \in {Unset, s["key"]}
      BY <1>6, <2>3 DEF Good, HasTheKey
    <2>5. HasTheKey(s)' /\ StillSet(s)'
      BY <1>6, <1>7, <1>8, <2>3, <2>4, GoodKept
    <2>6. file' = s /\ answered' = b
      BY <1>8, <2>2
    <2> QED BY <2>1, <2>3, <2>5, <2>6 DEF Good, HasTheKey, StillSet, Agrees, Keyless
  <1> QED BY <1>12, <1>13, <1>14, <1>15, <1>16

\* A process that has just loaded its settings.
LEMMA LoadedFields ==
    ASSUME NEW kind, NEW at, NEW shell, NEW env,
           kind \in {"launch", "proxy", "setup", "review"}, at \in {"loaded", "refused"},
           Settings(shell), Settings(env)
    PROVE  LET x == [Process(kind, at, shell) EXCEPT !.env = env]
           IN  ProcessType(x) /\ x.at = at /\ x.shell = shell /\ x.env = env /\ x.key = Unset
  <1> DEFINE e == Empty
             x == [Process(kind, at, shell) EXCEPT !.env = env]
  <1>1. Settings(e)
    BY EmptySettings
  <1>2. Process(kind, at, shell) = [kind |-> kind, at |-> at, shell |-> shell, env |-> e, key |-> Unset,
                                    content |-> e, asked |-> <<>>]
    BY DEF Process
  <1>3. PICK n : n = <<>>
    OBVIOUS
  <1>4. DOMAIN n = {}
    BY <1>3
  <1> HIDE DEF e
  <1>5. x = [kind |-> kind, at |-> at, shell |-> shell, env |-> env, key |-> Unset, content |-> e, asked |-> n]
    BY <1>2, <1>3
  <1> HIDE DEF x
  <1>6. ProcessType(x) /\ x.at = at /\ x.shell = shell /\ x.env = env /\ x.key = Unset
    BY <1>1, <1>4, <1>5 DEF ProcessType
  <1> QED BY <1>6 DEF x

LEMMA LoadKeeps ==
    ASSUME FileInv, NEW p \in Proc, NEW kind \in {"launch", "proxy", "setup", "review"}, NEW shell \in Shells,
           Load(p, kind, shell)
    PROVE  FileInv'
  <1> USE DEF FileInv
  <1> DEFINE env == Loaded(shell, file)
             wanting == env["labels"] # Unset /\ env["destroy"] # Everything
                        /\ ~(env["labels"] \subseteq Either(env["destroy"], {}))
             at == IF wanting THEN "refused" ELSE "loaded"
             x == [Process(kind, at, shell) EXCEPT !.env = env]
  <1>1. Settings(file) /\ Settings(shell)
    BY ConfigFileAssumption DEF ConfigFileTypeOK
  <1>2. /\ env = [k \in Key |-> env[k]]
        /\ \A k \in Key : env[k] = IF shell[k] # Unset THEN shell[k] ELSE file[k]
    BY DEF Loaded
  <1>3. Moves(p, x) /\ proc[p].at \in {"none", "refused"}
    BY DEF Load, Moves
  <1>4. Plain => /\ env["labels"] = file["labels"] /\ env["destroy"] = file["destroy"]
    BY <1>2, Keys DEF Plain
  <1>5. Plain => ~wanting
    BY <1>4 DEF Fits, Fitting
  <1>6. at \in {"loaded", "refused"} /\ (Plain => at = "loaded")
    BY <1>5
  <1>7. UNCHANGED <<file, answered, minted, lost>>
    BY DEF Load
  <1>8. crowded' = Disturbs(p)
    BY DEF Load
  <1> HIDE DEF env, wanting, at
  <1>9. Settings(env)
    BY <1>1, <1>2 DEF Settings
  <1>10. ProcessType(x) /\ x.at = at /\ x.shell = shell /\ x.env = env /\ x.key = Unset
    BY <1>1, <1>6, <1>9, LoadedFields
  <1> HIDE DEF x
  <1>11. ~Changing(p)
    BY <1>3 DEF Changing
  <1>12. /\ proc'[p] = x /\ \A q \in Proc \ {p} : proc'[q] = proc[q]
         /\ proc' = [q \in Proc |-> proc'[q]]
         /\ \A q \in Proc : Changing(q)' <=> Changing(q)
    BY <1>3, <1>6, <1>10, <1>11, Moved
  <1>13. crowded' \in BOOLEAN /\ (crowded => crowded')
    BY <1>8, DisturbsTyped DEF ConfigFileTypeOK
  <1>14. ConfigFileTypeOK'
    BY <1>7, <1>10, <1>12, <1>13 DEF ConfigFileTypeOK
  <1>15. AloneChanging'
    BY <1>12, <1>13 DEF AloneChanging
  <1>16. EnvOfShell'
    BY <1>2, <1>10, <1>12 DEF EnvOfShell
  <1>17. Fits'
    <2> SUFFICES ASSUME Plain
                 PROVE  /\ Fitting(file)
                        /\ \A q \in Proc : Changing(q) => Fitting(proc'[q].content)
                        /\ \A q \in Proc : proc'[q].at = "refused" => proc'[q].env["require"] = "1"
      BY <1>7, <1>12 DEF Fits, Plain, Fitting, WrittenFileStarts
    <2>1. /\ Fitting(file)
          /\ \A q \in Proc : Changing(q) => Fitting(proc[q].content)
          /\ \A q \in Proc : proc[q].at = "refused" => proc[q].env["require"] = "1"
      BY DEF Fits, WrittenFileStarts
    <2> QED BY <1>6, <1>10, <1>11, <1>12, <2>1
  <1>18. GoodNow'
    <2> SUFFICES ASSUME Undisturbed'
                 PROVE  Good(file, answered)' /\ \A q \in Proc : ~Changing(q)'
      BY DEF GoodNow
    <2>1. Undisturbed /\ AtRest /\ \A q \in Proc : ~Changing(q)'
      BY <1>7, <1>8, <1>11, <1>12, <1>13 DEF Undisturbed, AtRest, Disturbs
    <2>2. Good(file, answered)
      BY <2>1 DEF GoodNow
    <2>3. Keyless => x.key \in {Unset, file["key"]} /\ x.env["key"] \in {Unset, file["key"]}
      BY <1>2, <1>10, Keys DEF Keyless
    <2>4. HasTheKey(file)'
      <3> SUFFICES ASSUME Keyless
                   PROVE  /\ minted \subseteq {file["key"]} \ {Unset}
                          /\ \A q \in Proc : /\ proc'[q].key \in {Unset, file["key"]}
                                             /\ proc'[q].env["key"] \in {Unset, file["key"]}
        BY <1>7 DEF HasTheKey, Keyless
      <3> QED BY <1>12, <2>2, <2>3 DEF Good, HasTheKey
    <2>5. StillSet(file)'
      <3>1. /\ \A k \in Editable : x.env[k] # Unset /\ x.shell[k] = Unset => file[k] # Unset
            /\ x.env["backend"] # Unset /\ x.shell["backend"] = Unset
                  => Either(file["backends"], file["backend"]) # Unset
        BY <1>2, <1>10, Keys DEF Either
      <3> QED BY <1>7, <1>12, <2>2, <3>1 DEF Good, StillSet
    <2> QED BY <1>7, <2>1, <2>2, <2>4, <2>5 DEF Good, Agrees
  <1> QED BY <1>14, <1>15, <1>16, <1>17, <1>18

LEMMA MintFields ==
    ASSUME NEW r, ProcessType(r), NEW key, NEW s, NEW a
    PROVE  [r EXCEPT !.at = "empty", !.key = key, !.content = s, !.asked = a]
           = [kind |-> r.kind, at |-> "empty", shell |-> r.shell, env |-> r.env, key |-> key,
              content |-> s, asked |-> a]
  <1>1. r = [kind |-> r.kind, at |-> r.at, shell |-> r.shell, env |-> r.env, key |-> r.key,
             content |-> r.content, asked |-> r.asked]
    BY DEF ProcessType
  <1> DEFINE x == [r EXCEPT !.at = "empty", !.key = key, !.content = s, !.asked = a]
  <1>2. /\ x.kind = r.kind /\ x.at = "empty" /\ x.shell = r.shell /\ x.env = r.env /\ x.key = key
        /\ x.content = s /\ x.asked = a
    BY <1>1
  <1>3. DOMAIN x = {"kind", "at", "shell", "env", "key", "content", "asked"}
    BY <1>1
  <1>4. x = [f \in DOMAIN x |-> x[f]]
    OBVIOUS
  <1> HIDE DEF x
  <1>5. x = [kind |-> r.kind, at |-> "empty", shell |-> r.shell, env |-> r.env, key |-> key,
             content |-> s, asked |-> a]
    BY <1>2, <1>3, <1>4
  <1> QED BY <1>5 DEF x

\* A process makes the first key.
Mints(p, key) ==
    /\ proc' = [proc EXCEPT ![p] = [@ EXCEPT !.at = "empty", !.key = key,
                                             !.content = [file EXCEPT !["key"] = key],
                                             !.asked = Only("key", key)]]
    /\ minted' = minted \cup {key}
    /\ crowded' = Disturbs(p)
    /\ UNCHANGED <<file, answered, lost>>

LEMMA MintKeeps ==
    ASSUME FileInv, NEW p \in Proc, ~Changing(p), proc[p].at # "refused", file["key"] = Unset,
           NEW key, minted = {} => key # Unset, Mints(p, key)
    PROVE  FileInv'
  <1> USE DEF FileInv
  <1>0. PICK s, a : s = [file EXCEPT !["key"] = key] /\ a = Only("key", key)
    OBVIOUS
  <1> DEFINE x == [proc[p] EXCEPT !.at = "empty", !.key = key, !.content = s, !.asked = a]
  <1>1. Settings(file) /\ Settings(answered)
    BY DEF ConfigFileTypeOK
  <1>2. DOMAIN a = {"key"} /\ a["key"] = key
    BY <1>0 DEF Only
  <1>3. s = [k \in Key |-> IF k = "key" THEN key ELSE file[k]]
    BY <1>0, <1>1, Keys DEF Settings
  <1>4. proc' = [proc EXCEPT ![p] = x]
    BY <1>0 DEF Mints
  <1>5. \A k \in Key : s[k] = IF k = "key" THEN key ELSE file[k]
    BY <1>3
  <1>6. Settings(s) /\ \A k \in DOMAIN a : Takes(k, a[k])
    BY <1>1, <1>2, <1>3 DEF Settings, Takes
  <1>7. ProcessType(proc[p])
    BY OfProcess
  <1>8. x = [kind |-> proc[p].kind, at |-> "empty", shell |-> proc[p].shell, env |-> proc[p].env, key |-> key,
             content |-> s, asked |-> a]
    <2>1. PICK r : r = proc[p]
      OBVIOUS
    <2>2. ProcessType(r)
      BY <1>7, <2>1
    <2>3. x = [r EXCEPT !.at = "empty", !.key = key, !.content = s, !.asked = a]
      BY <2>1
    <2> HIDE DEF x
    <2>4. x = [kind |-> r.kind, at |-> "empty", shell |-> r.shell, env |-> r.env, key |-> key,
               content |-> s, asked |-> a]
      BY <2>2, <2>3, MintFields, Zenon
    <2> QED BY <2>1, <2>4
  <1>9. DOMAIN a \subseteq Key
    BY <1>2, Keys
  <1> HIDE DEF x
  <1>10. /\ ProcessType(x) /\ x.at = "empty" /\ x.env = proc[p].env /\ x.shell = proc[p].shell
         /\ x.key = key /\ x.content = s /\ x.asked = a
    BY <1>6, <1>7, <1>8, <1>9 DEF ProcessType
  <1>11. Moves(p, x) /\ Keeps(p, x)
    BY <1>4, <1>10 DEF Moves, Keeps
  <1>12. minted' = minted \cup {key} /\ UNCHANGED <<file, answered, lost>>
    BY DEF Mints
  <1>13. crowded' = Disturbs(p)
    BY DEF Mints
  <1>14. /\ proc'[p] = x /\ \A q \in Proc \ {p} : proc'[q] = proc[q]
         /\ proc' = [q \in Proc |-> proc'[q]]
         /\ \A q \in Proc \ {p} : Changing(q)' <=> Changing(q)
         /\ Changing(p)'
    BY <1>10, <1>11, Moved
  <1>15. crowded' \in BOOLEAN /\ (crowded => crowded')
    BY <1>13, DisturbsTyped DEF ConfigFileTypeOK
  <1>16. ConfigFileTypeOK'
    BY <1>10, <1>12, <1>14, <1>15 DEF ConfigFileTypeOK
  <1>17. AloneChanging'
    BY <1>13, <1>14 DEF AloneChanging, Disturbs
  <1>18. EnvOfShell'
    BY <1>11, EnvKept
  <1>19. Fits'
    <2> SUFFICES ASSUME Plain
                 PROVE  /\ Fitting(file)
                        /\ \A q \in Proc : Changing(q)' => Fitting(proc'[q].content)
                        /\ \A q \in Proc : proc'[q].at = "refused" => proc'[q].env["require"] = "1"
      BY <1>12 DEF Fits, Plain, Fitting, WrittenFileStarts
    <2>1. /\ Fitting(file)
          /\ \A q \in Proc : Changing(q) => Fitting(proc[q].content)
          /\ \A q \in Proc : proc[q].at = "refused" => proc[q].env["require"] = "1"
      BY DEF Fits, WrittenFileStarts
    <2>2. Fitting(s)
      BY <1>5, <2>1, Keys DEF Fitting
    <2> QED BY <1>10, <1>14, <2>1, <2>2
  <1>20. GoodNow'
    <2> SUFFICES ASSUME Undisturbed', NEW q \in Proc, Changing(q)'
                 PROVE  Good(proc[q].content, LaidOver(proc[q].asked, answered))'
      BY <1>14 DEF GoodNow, AtRest
    <2>1. Undisturbed /\ AtRest /\ q = p
      BY <1>12, <1>13, <1>14, <1>15 DEF Undisturbed, AtRest, Disturbs
    <2>2. Good(file, answered)
      BY <2>1 DEF GoodNow
    <2> DEFINE b == LaidOver(a, answered)
    <2>3. \A k \in Key : b[k] = IF k = "key" THEN key ELSE answered[k]
      BY <1>2 DEF LaidOver
    <2> HIDE DEF b
    <2>4. Agrees(s, b)
      BY <1>5, <2>2, <2>3, Keys DEF Good, Agrees
    <2>5. HasTheKey(s)'
      <3> SUFFICES ASSUME Keyless
                   PROVE  /\ minted' \subseteq {s["key"]} \ {Unset}
                          /\ \A r \in Proc : /\ proc'[r].key \in {Unset, s["key"]}
                                             /\ proc'[r].env["key"] \in {Unset, s["key"]}
        BY DEF HasTheKey, Keyless
      <3>1. /\ minted \subseteq {}
            /\ \A r \in Proc : proc[r].key = Unset /\ proc[r].env["key"] = Unset
        BY <2>2 DEF Good, HasTheKey
      <3>2. minted = {} /\ s["key"] = key
        BY <1>5, <3>1, Keys
      <3> QED BY <1>10, <1>12, <1>14, <3>1, <3>2
    <2>6. StillSet(s)'
      BY <1>5, <1>10, <1>14, <2>2, Keys DEF Good, StillSet
    <2>7. proc'[q].content = s /\ LaidOver(proc[q].asked, answered)' = b
      BY <1>10, <1>12, <1>14, <2>1 DEF LaidOver, b
    <2> QED BY <2>4, <2>5, <2>6, <2>7 DEF Good, HasTheKey, StillSet, Agrees, Keyless
  <1> QED BY <1>16, <1>17, <1>18, <1>19, <1>20

LEMMA EnsureKeyKeeps == ASSUME FileInv, NEW p \in Proc, EnsureKey(p) PROVE FileInv'
  <1>1. ~Changing(p) /\ proc[p].at # "refused"
    BY DEF EnsureKey, Changing
  <1>2. CASE Run(p, proc[p].env["key"]) /\ UNCHANGED crowded
    <2>1. PICK key : key = proc[p].env["key"]
      OBVIOUS
    <2>2. Run(p, key) /\ crowded' \in {crowded, Disturbs(p)}
      BY <1>2, <2>1
    <2> QED BY <1>1, <2>1, <2>2, RunMoves
  <1>3. CASE Run(p, file["key"]) /\ crowded' = Disturbs(p)
    <2>1. PICK key : key = file["key"]
      OBVIOUS
    <2>2. Run(p, key) /\ crowded' \in {crowded, Disturbs(p)}
      BY <1>3, <2>1
    <2> QED BY <1>1, <1>3, <2>1, <2>2, RunMoves
  <1>4. CASE /\ proc[p].env["require"] = "1" /\ proc' = [proc EXCEPT ![p].at = "refused"]
             /\ crowded' = Disturbs(p) /\ UNCHANGED <<file, answered, minted, lost>>
    <2>1. crowded' \in {crowded, Disturbs(p)}
      BY <1>4
    <2> QED BY <1>1, <1>4, <2>1, RefusesMoves
  <1>5. CASE file["key"] = Unset /\ Mints(p, Cardinality(minted) + 1)
    <2>1. PICK key : key = Cardinality(minted) + 1
      OBVIOUS
    <2>2. minted = {} => key # Unset
      BY <2>1, FS_EmptySet, ConfigFileAssumption
    <2>3. Mints(p, key)
      BY <1>5, <2>1
    <2> QED BY <1>1, <1>5, <2>2, <2>3, MintKeeps
  <1> QED BY <1>2, <1>3, <1>4, <1>5 DEF EnsureKey, InFile, Mints

LEMMA FileStarts == ConfigFileInit => FileInv
  <1> SUFFICES ASSUME ConfigFileInit PROVE FileInv
    OBVIOUS
  <1>1. /\ file \in Started /\ answered = file /\ minted = {} /\ crowded = FALSE /\ lost = FALSE
        /\ proc = [p \in Proc |-> Ended]
    BY DEF ConfigFileInit, Ended
  <1>2. PICK x : x = Ended
    OBVIOUS
  <1>3. ProcessType(x) /\ x.at = "none" /\ x.shell = Empty /\ x.env = Empty /\ x.key = Unset
    BY <1>2, EndedFields
  <1>4. proc = [p \in Proc |-> x] /\ \A p \in Proc : proc[p] = x
    BY <1>1, <1>2
  <1>5. \A p \in Proc : ~Changing(p)
    BY <1>3, <1>4 DEF Changing
  <1>6. Settings(file)
    BY <1>1, ConfigFileAssumption
  <1>7. \A k \in Key : Empty[k] = Unset
    BY EmptySettings
  <1>8. ConfigFileTypeOK
    BY <1>1, <1>3, <1>4, <1>6 DEF ConfigFileTypeOK
  <1>9. AloneChanging
    BY <1>5 DEF AloneChanging
  <1>10. EnvOfShell
    BY <1>3, <1>4, <1>7 DEF EnvOfShell
  <1>11. Fits
    BY <1>1, <1>3, <1>4, <1>5 DEF Fits, Plain, WrittenFileStarts
  <1>12. Good(file, answered)
    <2>1. Agrees(file, answered)
      BY <1>1 DEF Agrees
    <2>2. HasTheKey(file)
      BY <1>1, <1>3, <1>4, <1>7, Keys DEF HasTheKey
    <2>3. StillSet(file)
      BY <1>3, <1>4, <1>7, Keys DEF StillSet
    <2> QED BY <2>1, <2>2, <2>3 DEF Good
  <1>13. GoodNow
    BY <1>5, <1>12 DEF GoodNow
  <1> QED BY <1>8, <1>9, <1>10, <1>11, <1>13 DEF FileInv

LEMMA FileStep == FileInv /\ [ConfigFileNext]_fileVars => FileInv'
  <1> SUFFICES ASSUME FileInv, [ConfigFileNext]_fileVars PROVE FileInv'
    OBVIOUS
  <1>1. ASSUME NEW p \in Proc, NEW kind \in {"launch", "proxy", "setup", "review"}, NEW shell \in Shells,
               Load(p, kind, shell)
        PROVE  FileInv'
    BY <1>1, LoadKeeps
  <1>2. ASSUME NEW p \in Proc, EnsureKey(p) PROVE FileInv'
    BY <1>2, EnsureKeyKeeps
  <1>3. ASSUME NEW p \in Proc, CheckKey(p) PROVE FileInv'
    BY <1>3, CheckKeyKeeps
  <1>4. ASSUME NEW p \in Proc, NEW e \in Edits, Patch(p, e[1], e[2]) PROVE FileInv'
    BY <1>4, PatchKeeps
  <1>5. ASSUME NEW p \in Proc, NEW a \in Answers, SetupEnds(p, a) PROVE FileInv'
    BY <1>5, SetupKeeps
  <1>6. ASSUME NEW p \in Proc, NEW names, ReviewEnds(p, names) PROVE FileInv'
    BY <1>6, ReviewKeeps
  <1>7. ASSUME NEW p \in Proc, Truncate(p) PROVE FileInv'
    BY <1>7, TruncateKeeps
  <1>8. ASSUME NEW p \in Proc, Fill(p) PROVE FileInv'
    BY <1>8, FillKeeps
  <1>9. ASSUME NEW p \in Proc, Die(p) PROVE FileInv'
    BY <1>9, DieKeeps
  <1>10. CASE UNCHANGED fileVars
    <2>1. UNCHANGED <<file, proc, answered, minted, crowded, lost>>
      BY <1>10 DEF fileVars
    <2>2. ConfigFileTypeOK' /\ AloneChanging' /\ EnvOfShell' /\ \A q \in Proc : Changing(q)' <=> Changing(q)
      BY <2>1 DEF FileInv, ConfigFileTypeOK, AloneChanging, EnvOfShell, Changing
    <2>3. Fits'
      BY <2>1 DEF FileInv, Fits, Plain, Fitting, WrittenFileStarts, Changing
    <2>4. GoodNow'
      BY <2>1 DEF FileInv, GoodNow, AtRest, Undisturbed, Good, Agrees, HasTheKey, StillSet, Keyless,
                  Changing, LaidOver
    <2> QED BY <2>2, <2>3, <2>4 DEF FileInv
  <1> QED BY <1>1, <1>2, <1>3, <1>4, <1>5, <1>6, <1>7, <1>8, <1>9, <1>10 DEF ConfigFileNext

LEMMA FileHolds == ConfigFileSpec => []FileInv
  BY FileStarts, FileStep, PTL DEF ConfigFileSpec

\* The settings, and everything the processes hold of them, have their types.
THEOREM SettingsTyped == ConfigFileSpec => []ConfigFileTypeOK
  BY FileHolds, PTL DEF FileInv

LEMMA KeyOfFile == ASSUME FileInv, Keyless, Undisturbed PROVE OneKey
  <1>1. PICK s : HasTheKey(s)
    <2>1. CASE AtRest
      BY <2>1 DEF FileInv, GoodNow, Good
    <2>2. CASE ~AtRest
      BY <2>2 DEF FileInv, GoodNow, Good, AtRest
    <2> QED BY <2>1, <2>2
  <1>2. PICK k : k = s["key"]
    OBVIOUS
  <1>3. minted \subseteq {k} /\ \A p \in Proc : proc[p].key \in {Unset, k}
    BY <1>1, <1>2 DEF HasTheKey
  <1>4. IsFiniteSet({k}) /\ Cardinality({k}) = 1
    BY FS_Singleton
  <1>5. Cardinality(minted) <= 1
    BY <1>3, <1>4, FS_Subset
  <1>6. \A p, q \in Proc : Keyed(p) /\ Keyed(q) => proc[p].key = proc[q].key
    BY <1>3 DEF Keyed
  <1> QED BY <1>5, <1>6 DEF OneKey

\* However many launches, edits, reviews and setups follow on one another, the
\* host makes one key and every process that keeps one has it, when nobody brings
\* a key along in the environment.
THEOREM OneKeyForAll == ASSUME Keyless PROVE ConfigFileSpec => []OneKey
  <1>1. FileInv => OneKey
    BY KeyOfFile DEF OneKey
  <1> QED BY <1>1, FileHolds, PTL

\* What the file says of a setting, the environment put over it.
LEMMA LoadedValues ==
    ASSUME NEW sh, NEW s, NEW k \in Key
    PROVE  Loaded(sh, s)[k] = IF sh[k] # Unset THEN sh[k] ELSE s[k]
  BY DEF Loaded

\* A setting that a process found in the file is still set, so what it shows
\* of a setting that is not set is what a start makes of nothing.
LEMMA ShownHolds ==
    ASSUME FileInv, AtRest, NEW p \in Proc
    PROVE  LET running == Effective(proc[p].env)
               next == Effective(Loaded(proc[p].shell, file))
               shown == Shown(proc[p].shell, file, running)
           IN  \A f \in Editable :
                   \/ shown[f] = next[f]
                   \/ f = "style" /\ running[f] = "typed" /\ file[f] = "opaque"
                   \/ f = "backends" /\ proc[p].shell["backend"] # Unset /\ file[f] # Unset
  <1>1. PICK sh, env, s : sh = proc[p].shell /\ env = proc[p].env /\ s = file
    OBVIOUS
  <1>2. /\ \A k \in Editable : env[k] # Unset /\ sh[k] = Unset => s[k] # Unset
        /\ env["backend"] # Unset /\ sh["backend"] = Unset => Either(s["backends"], s["backend"]) # Unset
    BY <1>1 DEF FileInv, GoodNow, AtRest, Good, StillSet
  <1>3. \A k \in Key : sh[k] # Unset => env[k] = sh[k]
    BY <1>1 DEF FileInv, EnvOfShell
  <1>4. \A k \in Key : Takes(k, s[k])
    BY <1>1 DEF FileInv, ConfigFileTypeOK, Settings
  <1>5. PICK l : l = Loaded(sh, s)
    OBVIOUS
  <1>6. \A k \in Key : l[k] = IF sh[k] # Unset THEN sh[k] ELSE s[k]
    BY <1>5, LoadedValues
  <1> DEFINE running == Effective(env)
             next == Effective(l)
             shown == Shown(sh, s, running)
             Alike(f) == \/ shown[f] = next[f]
                         \/ f = "style" /\ running[f] = "typed" /\ s[f] = "opaque"
                         \/ f = "backends" /\ sh["backend"] # Unset /\ s[f] # Unset
  <1>7. /\ shown["style"] = IF sh["style"] # Unset THEN running["style"]
                            ELSE Either(IF s["style"] = "typed" THEN "typed" ELSE Unset, running["style"])
        /\ \A f \in {"failClosed", "address", "destroy"} :
              shown[f] = IF sh[f] # Unset THEN running[f] ELSE Either(s[f], running[f])
        /\ shown["backends"] = IF sh["backends"] # Unset \/ sh["backend"] # Unset THEN running["backends"]
                               ELSE Either(Either(s["backends"], s["backend"]), running["backends"])
    BY Keys DEF Shown, LockedByShell, Editable
  <1>8. /\ running["style"] = IF env["style"] = "typed" THEN "typed" ELSE "opaque"
        /\ running["failClosed"] = IF env["failClosed"] = "0" THEN "0" ELSE "1"
        /\ running["address"] = Either(env["address"], "default")
        /\ running["backends"] = Either(env["backends"], Either(env["backend"], "regex"))
        /\ running["destroy"] = Either(env["destroy"], {})
    BY DEF Effective
  <1>9. /\ next["style"] = IF l["style"] = "typed" THEN "typed" ELSE "opaque"
        /\ next["failClosed"] = IF l["failClosed"] = "0" THEN "0" ELSE "1"
        /\ next["address"] = Either(l["address"], "default")
        /\ next["backends"] = Either(l["backends"], Either(l["backend"], "regex"))
        /\ next["destroy"] = Either(l["destroy"], {})
    BY DEF Effective
  <1> HIDE DEF running, next, shown
  <1>10. Alike("style")
    BY <1>2, <1>3, <1>4, <1>6, <1>7, <1>8, <1>9, Keys, ConfigFileAssumption DEF Either, Takes
  <1>11. Alike("failClosed")
    BY <1>2, <1>3, <1>4, <1>6, <1>7, <1>8, <1>9, Keys, ConfigFileAssumption DEF Either, Takes
  <1>12. Alike("address")
    BY <1>2, <1>3, <1>6, <1>7, <1>8, <1>9, Keys, ConfigFileAssumption DEF Either
  <1>13. Alike("destroy")
    BY <1>2, <1>3, <1>6, <1>7, <1>8, <1>9, Keys, ConfigFileAssumption DEF Either
  <1>14. Alike("backends")
    BY <1>2, <1>3, <1>6, <1>7, <1>8, <1>9, Keys, ConfigFileAssumption DEF Either
  <1>15. \A f \in Editable : Alike(f)
    BY <1>10, <1>11, <1>12, <1>13, <1>14 DEF Editable
  <1> QED BY <1>1, <1>5, <1>15 DEF running, next, shown

LEMMA AnswersHold == ASSUME FileInv, AtRest PROVE AnswersSurvive
  <1>1. Agrees(file, answered)
    BY DEF FileInv, GoodNow, AtRest, Good
  <1>2. Either(file["backends"], Either(file["backend"], "regex"))
        = Either(answered["backends"], Either(answered["backend"], "regex"))
    BY <1>1 DEF Agrees, Either
  <1>3. /\ file["style"] = answered["style"] /\ file["failClosed"] = answered["failClosed"]
        /\ file["address"] = answered["address"] /\ file["destroy"] = answered["destroy"]
        /\ \A k \in {"exclude", "key", "require"} : file[k] = answered[k]
    BY <1>1, Keys DEF Agrees
  <1>4. Effective(file) = Effective(answered)
    BY <1>2, <1>3 DEF Effective
  <1> QED BY <1>3, <1>4 DEF AnswersSurvive

\* While no two processes' changes of the file overlapped and none died between
\* emptying and filling it, whatever environments bring: between changes every
\* answer is in the file until another takes its place, and the control plane
\* shows what a restart runs with, but for a style that was typed and is saved as
\* opaque and for detectors the environment names in the singular.
THEOREM AnswersAreShown == ConfigFileSpec => [](AnswersSurvive /\ ShownIsNextStart)
  <1>1. FileInv => AnswersSurvive
    BY AnswersHold DEF AnswersSurvive
  <1>2. FileInv => ShownIsNextStart
    BY ShownHolds DEF ShownIsNextStart
  <1> QED BY <1>1, <1>2, FileHolds, PTL

\* Besides, no edit leaves a file that the next start refuses, when environments
\* leave destruction and its labels to the file (one that narrows destruction can
\* make any start refuse the file's labels).
THEOREM FileIsTrueForAll == ASSUME Plain PROVE ConfigFileSpec => []FileIsTrue
  <1>1. FileInv => WrittenFileStarts
    BY DEF FileInv, Fits
  <1>2. FileInv => FileIsTrue
    BY <1>1, AnswersHold, ShownHolds DEF FileIsTrue, AnswersSurvive, ShownIsNextStart
  <1> QED BY <1>2, FileHolds, PTL

(***************************************************************************)
(* The panel.                                                              *)
(***************************************************************************)

\* What the panel has under way.
RequestType(r) ==
    /\ r = [n |-> r.n, field |-> r.field, value |-> r.value, was |-> r.was, at |-> r.at, values |-> r.values]
    /\ r.n \in Nat /\ r.n <= seq
    /\ r.field \in Editable /\ r.value # Unset
    /\ r.at \in {"sent", "done", "failed", "orphan"}
    /\ r.values = [f \in Editable |-> r.values[f]]

PanelTyped ==
    /\ stored = [k \in Key |-> stored[k]]
    /\ seq \in Nat /\ last \in Nat /\ last <= seq /\ astray \in BOOLEAN
    /\ draft = [f \in Editable |-> draft[f]]
    /\ \A r \in flights : RequestType(r)

\* A number is used once, but that a request given up may still reach the proxy.
Numbered ==
    \A r1, r2 \in flights :
        r1.n = r2.n => \/ r1 = r2
                       \/ r1.at = "failed" /\ r2.at = "orphan"
                       \/ r1.at = "orphan" /\ r2.at = "failed"

Unserved(r) == r.at \in {"sent", "orphan"}

\* The latest request served was served, and its answer says what the file has.
Served ==
    /\ \A r \in flights : Unserved(r) => r.n # last
    /\ \A r \in flights : r.at = "done" => r.n <= last
    /\ ~astray => \A r \in flights : r.at = "done" /\ r.n = last => r.values = Displayed(stored)

\* The settings of the file, under the text that was typed.
Typed == IF pending = Unset THEN Displayed(stored) ELSE [Displayed(stored) EXCEPT !["address"] = pending]

SavedTruly ==
    status = "saved" /\ ~astray => /\ last = seq /\ draft = Typed
                                   /\ \A r \in flights : r.n # seq

\* A text that waits is the one typed last, and no answer to an address is the latest.
Waits ==
    timer # Unset => /\ timer = pending
                     /\ \A r \in flights : r.field = "address" => r.n < seq

\* A text that is not known to be saved failed, is on its way with none newer, or
\* is in the file with none on its way that would be served in order.
Failed == \E r \in flights : r.field = "address" /\ r.at = "failed"
UnderWay == \E r \in flights :
    /\ r.field = "address" /\ r.at = "sent" /\ r.value = pending
    /\ \A q \in flights : q.field = "address" /\ Unserved(q) => q.n <= r.n
InTheFile ==
    /\ Displayed(stored)["address"] = pending
    /\ \A q \in flights : q.field = "address" /\ Unserved(q) => q.n < last
Pends == pending # Unset /\ timer = Unset /\ ~astray => Failed \/ UnderWay \/ InTheFile

PanelInv == PanelTyped /\ Numbered /\ Served /\ SavedTruly /\ Waits /\ Pends

LEMMA ShownTyped == ASSUME NEW sh, NEW s, NEW w PROVE Shown(sh, s, w) = [f \in Editable |-> Shown(sh, s, w)[f]]
  BY DEF Shown

LEMMA AddressShown ==
    ASSUME NEW sh, NEW s, NEW w
    PROVE  Shown(sh, s, w)["address"]
           = IF "address" \in LockedByShell(sh) THEN w["address"] ELSE Either(s["address"], w["address"])
  BY Keys DEF Shown

\* The panel sends one more request.
LEMMA SendAdds ==
    ASSUME PanelInv, NEW f \in Editable, NEW v, v # Unset, Send(f, v), UNCHANGED <<runs, stored, pending, last, astray>>,
           draft' = [g \in Editable |-> draft'[g]],
           f = "address" => timer = v /\ pending = v /\ timer' = Unset,
           f # "address" => UNCHANGED timer
    PROVE  PanelInv'
  <1> USE DEF PanelInv
  <1>1. PICK q : q = Request(seq + 1, f, v)
    OBVIOUS
  <1>2. /\ seq' = seq + 1 /\ flights' = flights \cup {q} /\ status' = "saving"
        /\ runs' = runs /\ stored' = stored /\ pending' = pending /\ last' = last /\ astray' = astray
    BY <1>1 DEF Send
  <1>3. /\ seq \in Nat /\ last \in Nat /\ last <= seq /\ astray \in BOOLEAN
        /\ stored = [k \in Key |-> stored[k]] /\ draft = [g \in Editable |-> draft[g]]
        /\ \A r \in flights : RequestType(r)
    BY DEF PanelTyped
  <1>4. /\ q = [n |-> q.n, field |-> q.field, value |-> q.value, was |-> q.was, at |-> q.at, values |-> q.values]
        /\ q.n = seq + 1 /\ q.field = f /\ q.value = v /\ q.at = "sent" /\ q.values = draft
    BY <1>1 DEF Request
  <1>5. \A r \in flights : r.n \in Nat /\ r.n <= seq
    BY <1>3 DEF RequestType
  <1>6. \A r \in flights' : RequestType(r)'
    <2>1. RequestType(q)'
      BY <1>2, <1>3, <1>4 DEF RequestType
    <2>2. ASSUME NEW r \in flights PROVE RequestType(r)'
      BY <1>2, <1>3 DEF RequestType
    <2> QED BY <1>2, <2>1, <2>2
  <1>7. PanelTyped'
    BY <1>2, <1>3, <1>6 DEF PanelTyped
  <1>8. Numbered'
    BY <1>2, <1>3, <1>4, <1>5 DEF Numbered
  <1>9. Served'
    BY <1>2, <1>3, <1>4 DEF Served, Unserved, Displayed
  <1>10. SavedTruly'
    BY <1>2 DEF SavedTruly
  <1>11. Waits'
    BY <1>2, <1>3, <1>4, <1>5 DEF Waits
  <1>12. Pends'
    <2>1. CASE f = "address"
      BY <1>2, <1>3, <1>4, <1>5, <2>1 DEF Pends, UnderWay, Unserved
    <2>2. CASE f # "address"
      <3> SUFFICES ASSUME pending # Unset, timer = Unset, ~astray
                   PROVE  (Failed \/ UnderWay \/ InTheFile)'
        BY <1>2, <2>2 DEF Pends
      <3>1. Failed => Failed'
        BY <1>2 DEF Failed
      <3>2. UnderWay => UnderWay'
        BY <1>2, <1>4, <2>2 DEF UnderWay, Unserved
      <3>3. InTheFile => InTheFile'
        BY <1>2, <1>4, <2>2 DEF InTheFile, Unserved, Displayed
      <3> QED BY <3>1, <3>2, <3>3 DEF Pends
    <2> QED BY <2>1, <2>2
  <1> QED BY <1>7, <1>8, <1>9, <1>10, <1>11, <1>12

LEMMA ChooseKeeps == ASSUME PanelInv, NEW e \in Edits, Choose(e[1], e[2]) PROVE PanelInv'
  <1>1. e[1] \in Editable /\ e[2] # Unset /\ e[1] # "address"
    BY ConfigFileAssumption DEF Choose
  <1>2. PICK f, v : f = e[1] /\ v = e[2]
    OBVIOUS
  <1>3. draft' = [draft EXCEPT ![f] = v] /\ Send(f, v)
    BY <1>2 DEF Choose
  <1>4. draft' = [g \in Editable |-> draft'[g]]
    BY <1>3 DEF PanelInv, PanelTyped
  <1>5. UNCHANGED <<runs, stored, timer, pending, last, astray>>
    BY DEF Choose
  <1> QED BY <1>1, <1>2, <1>3, <1>4, <1>5, SendAdds

LEMMA TypingStopsKeeps == ASSUME PanelInv, TypingStops PROVE PanelInv'
  <1>1. PICK v : v = timer
    OBVIOUS
  <1>2. v # Unset /\ Send("address", v) /\ timer' = Unset /\ UNCHANGED <<runs, stored, draft, pending, last, astray>>
    BY <1>1 DEF TypingStops
  <1>3. pending = v
    BY <1>1, <1>2 DEF PanelInv, Waits
  <1>4. draft' = [g \in Editable |-> draft'[g]]
    BY <1>2 DEF PanelInv, PanelTyped
  <1> QED BY <1>1, <1>2, <1>3, <1>4, Keys, SendAdds

LEMMA TypeKeeps == ASSUME PanelInv, NEW v \in Text, Type(v) PROVE PanelInv'
  <1> USE DEF PanelInv
  <1>1. /\ draft' = [draft EXCEPT !["address"] = v] /\ seq' = seq + 1 /\ timer' = v /\ pending' = v
        /\ status' = "saving" /\ v # Unset
        /\ runs' = runs /\ stored' = stored /\ flights' = flights /\ last' = last /\ astray' = astray
    BY ConfigPanelAssumption DEF Type
  <1>2. /\ seq \in Nat /\ last \in Nat /\ last <= seq /\ astray \in BOOLEAN
        /\ stored = [k \in Key |-> stored[k]] /\ draft = [g \in Editable |-> draft[g]]
        /\ \A r \in flights : RequestType(r)
    BY DEF PanelTyped
  <1>3. \A r \in flights : r.n \in Nat /\ r.n <= seq
    BY <1>2 DEF RequestType
  <1>4. \A r \in flights : RequestType(r)'
    BY <1>1, <1>2 DEF RequestType
  <1>5. PanelTyped'
    <2>1. draft' = [g \in Editable |-> draft'[g]]
      BY <1>1, <1>2
    <2> QED BY <1>1, <1>2, <1>4, <2>1 DEF PanelTyped
  <1>6. Numbered'
    BY <1>1 DEF Numbered
  <1>7. Served'
    BY <1>1 DEF Served, Unserved, Displayed
  <1>8. SavedTruly' /\ Pends'
    BY <1>1 DEF SavedTruly, Pends
  <1>9. Waits'
    BY <1>1, <1>2, <1>3 DEF Waits
  <1> QED BY <1>5, <1>6, <1>7, <1>8, <1>9

LEMMA ServeKeeps == ASSUME PanelInv, NEW r \in flights, Serve(r) PROVE PanelInv'
  <1> USE DEF PanelInv
  <1> DEFINE refuses == \/ r.field = "address" /\ r.value \in NoUrl
                        \/ r.field \in Locked(runs.shell, stored, runs.with)
             made == IF refuses THEN stored ELSE Patched(stored, r.field, r.value)
  <1>1. PICK now, d, a : /\ now = made /\ d = Displayed(now)
                         /\ a = [r EXCEPT !.at = IF refuses THEN "failed" ELSE "done", !.values = d]
    OBVIOUS
  <1>2. /\ seq \in Nat /\ last \in Nat /\ last <= seq /\ astray \in BOOLEAN
        /\ stored = [k \in Key |-> stored[k]] /\ draft = [g \in Editable |-> draft[g]]
        /\ \A q \in flights : RequestType(q)
    BY DEF PanelTyped
  <1>3. /\ stored' = now /\ flights' = (flights \ {r}) \cup (IF r.at = "sent" THEN {a} ELSE {})
        /\ runs' = runs /\ draft' = draft /\ status' = status /\ seq' = seq /\ timer' = timer /\ pending' = pending
        /\ last' = IF r.n > last THEN r.n ELSE last
    BY <1>1 DEF Serve
  <1>4. astray' = (astray \/ r.n < last)
    BY DEF Serve
  <1>5. Unserved(r) /\ RequestType(r)
    BY <1>2 DEF Serve, Unserved
  <1>6. now = [k \in Key |-> now[k]]
    <2>1. PICK s, f, v : s = stored /\ f = r.field /\ v = r.value
      OBVIOUS
    <2>2. s = [k \in Key |-> s[k]] /\ f \in Editable
      BY <1>2, <1>5, <2>1 DEF RequestType
    <2>3. Patched(s, f, v) = [k \in Key |-> Patched(s, f, v)[k]]
      BY <2>2, PatchedFields
    <2>4. now = s \/ now = Patched(s, f, v)
      BY <1>1, <2>1
    <2> QED BY <2>2, <2>3, <2>4
  <1>7. d = [g \in Editable |-> d[g]]
    BY <1>1, ShownTyped DEF Displayed
  <1>8. ~refuses => now = Patched(stored, r.field, r.value) /\ r.field \notin LockedByShell(runs.shell)
    BY <1>1 DEF Locked
  <1>9. PICK at : at = IF refuses THEN "failed" ELSE "done"
    OBVIOUS
  <1>10. a = [r EXCEPT !.at = at, !.values = d]
    BY <1>1, <1>9
  <1>11. at \in {"failed", "done"} /\ (at = "failed" <=> refuses)
    BY <1>9
  <1>12. refuses => now = stored
    BY <1>1
  <1> HIDE DEF refuses, made
  <1>13. /\ a = [n |-> a.n, field |-> a.field, value |-> a.value, was |-> a.was, at |-> a.at, values |-> a.values]
         /\ a.n = r.n /\ a.field = r.field /\ a.value = r.value /\ a.at = at /\ a.values = d
    BY <1>5, <1>10 DEF RequestType
  <1>14. \A q \in flights : q.n \in Nat /\ q.n <= seq
    BY <1>2 DEF RequestType
  <1>15. \A q \in flights : Unserved(q) /\ q # r => q.n # r.n
    BY <1>5 DEF Numbered, Unserved
  <1>16. r.n # last /\ r.n \in Nat /\ r.n <= seq
    BY <1>5, <1>14 DEF Served
  <1>17. Displayed(stored)' = d
    BY <1>1, <1>3 DEF Displayed
  <1>18. \A q \in flights' : (q \in flights /\ q # r) \/ (q = a /\ r.at = "sent")
    BY <1>3
  <1>19. last' \in Nat /\ last' <= seq /\ last <= last' /\ r.n <= last'
    BY <1>2, <1>3, <1>16
  <1>20. ~astray' => ~astray /\ r.n > last /\ last' = r.n
    <2>1. ~astray' => ~astray /\ ~(r.n < last)
      BY <1>4, Zenon
    <2>2. ~(r.n < last) => r.n > last /\ last' = r.n
      BY <1>2, <1>3, <1>16
    <2> QED BY <2>1, <2>2
  <1>21. PanelTyped'
    <2>1. RequestType(a)'
      BY <1>3, <1>5, <1>7, <1>11, <1>13 DEF RequestType
    <2>2. \A q \in flights : RequestType(q)'
      BY <1>2, <1>3 DEF RequestType
    <2>3. \A q \in flights' : RequestType(q)'
      BY <1>18, <2>1, <2>2
    <2>4. astray' \in BOOLEAN
      BY <1>4
    <2> QED BY <1>2, <1>3, <1>6, <1>19, <2>3, <2>4 DEF PanelTyped
  <1>22. Numbered'
    <2>1. r.at = "sent" => \A q \in flights \ {r} : q.n # r.n
      BY DEF Numbered
    <2> QED BY <1>13, <1>18, <2>1 DEF Numbered
  <1>23. Served'
    <2>1. \A q \in flights' : Unserved(q) => q.n # last'
      BY <1>3, <1>11, <1>13, <1>15, <1>18 DEF Served, Unserved
    <2>2. \A q \in flights' : q.at = "done" => q.n <= last'
      BY <1>13, <1>14, <1>18, <1>19, <1>2 DEF Served
    <2>3. ~astray' => \A q \in flights' : q.at = "done" /\ q.n = last' => q.values = d
      BY <1>2, <1>13, <1>14, <1>18, <1>20 DEF Served
    <2> QED BY <1>17, <2>1, <2>2, <2>3 DEF Served, Unserved
  <1>24. SavedTruly'
    <2>1. status = "saved" => astray'
      BY <1>2, <1>16, <1>20 DEF SavedTruly
    <2> QED BY <1>3, <2>1 DEF SavedTruly
  <1>25. Waits'
    BY <1>3, <1>13, <1>18 DEF Waits
  <1>26. Pends'
    <2> SUFFICES ASSUME pending # Unset, timer = Unset, ~astray, r.n > last, last' = r.n
                 PROVE  (Failed \/ UnderWay \/ InTheFile)'
      BY <1>3, <1>20 DEF Pends
    <2>1. CASE Failed
      <3>1. PICK w \in flights : w.field = "address" /\ w.at = "failed"
        BY <2>1 DEF Failed
      <3>2. w \in flights'
        BY <1>3, <1>5, <3>1 DEF Unserved
      <3> QED BY <3>1, <3>2 DEF Failed
    <2>2. CASE UnderWay
      <3>1. PICK w \in flights : /\ w.field = "address" /\ w.at = "sent" /\ w.value = pending
                                 /\ \A q \in flights : q.field = "address" /\ Unserved(q) => q.n <= w.n
        BY <2>2 DEF UnderWay
      <3>2. CASE w # r
        <4>1. w \in flights'
          BY <1>3, <3>2
        <4>2. \A q \in flights' : q.field = "address" /\ Unserved(q) => q.n <= w.n
          BY <1>11, <1>13, <1>18, <3>1 DEF Unserved
        <4> QED BY <1>3, <3>1, <4>1, <4>2 DEF UnderWay, Unserved
      <3>3. CASE w = r /\ refuses
        <4>1. a \in flights' /\ a.field = "address" /\ a.at = "failed"
          BY <1>3, <1>11, <1>13, <3>1, <3>3
        <4> QED BY <4>1 DEF Failed
      <3>4. CASE w = r /\ ~refuses
        <4>1. now["address"] = pending
          BY <1>2, <1>8, <3>1, <3>4, PatchedFields, Keys
        <4>2. d["address"] = pending
          BY <1>1, <1>8, <3>1, <3>4, <4>1, AddressShown DEF Displayed, Either
        <4>3. \A q \in flights' : q.field = "address" /\ Unserved(q) => q.n < last'
          BY <1>11, <1>13, <1>14, <1>15, <1>16, <1>18, <3>1, <3>4 DEF Unserved
        <4>4. (Displayed(stored)["address"])' = pending'
          BY <1>3, <1>17, <4>2
        <4> QED BY <4>3, <4>4 DEF InTheFile, Unserved
      <3> QED BY <3>2, <3>3, <3>4
    <2>3. CASE InTheFile
      <3>1. r.field # "address"
        BY <1>2, <1>5, <1>16, <2>3 DEF InTheFile
      <3>2. now["address"] = stored["address"]
        BY <1>2, <1>5, <1>8, <1>12, <3>1, PatchedFields, Keys DEF RequestType
      <3>3. d["address"] = pending
        BY <1>1, <2>3, <3>2, AddressShown DEF InTheFile, Displayed
      <3>4. \A q \in flights' : q.field = "address" /\ Unserved(q) => q.n < last'
        BY <1>2, <1>11, <1>13, <1>14, <1>18, <1>16, <2>3 DEF InTheFile, Unserved
      <3>5. (Displayed(stored)["address"])' = pending'
        BY <1>3, <1>17, <3>3
      <3> QED BY <3>4, <3>5 DEF InTheFile, Unserved
    <2> QED BY <2>1, <2>2, <2>3 DEF Pends
  <1> QED BY <1>21, <1>22, <1>23, <1>24, <1>25, <1>26

LEMMA GiveUpKeeps == ASSUME PanelInv, NEW r \in flights, GiveUp(r) PROVE PanelInv'
  <1> USE DEF PanelInv
  <1>1. PICK had \in BOOLEAN :
            /\ had => r.at = "sent"
            /\ flights' = (flights \ {r}) \cup {[r EXCEPT !.at = "failed"]}
                          \cup (IF had THEN {[r EXCEPT !.at = "orphan"]} ELSE {})
    BY DEF GiveUp
  <1>2. PICK f, o : f = [r EXCEPT !.at = "failed"] /\ o = [r EXCEPT !.at = "orphan"]
    OBVIOUS
  <1>3. /\ r.at \in {"sent", "done"} /\ runs' = runs /\ stored' = stored /\ draft' = draft /\ status' = status
        /\ seq' = seq /\ timer' = timer /\ pending' = pending /\ last' = last /\ astray' = astray
    BY DEF GiveUp
  <1>4. /\ seq \in Nat /\ last \in Nat /\ last <= seq /\ astray \in BOOLEAN
        /\ stored = [k \in Key |-> stored[k]] /\ draft = [g \in Editable |-> draft[g]]
        /\ \A q \in flights : RequestType(q)
    BY DEF PanelTyped
  <1>5. RequestType(r)
    BY <1>4
  <1>6. /\ f = [n |-> f.n, field |-> f.field, value |-> f.value, was |-> f.was, at |-> f.at, values |-> f.values]
        /\ f.n = r.n /\ f.field = r.field /\ f.value = r.value /\ f.at = "failed" /\ f.values = r.values
    BY <1>2, <1>5 DEF RequestType
  <1>7. /\ o = [n |-> o.n, field |-> o.field, value |-> o.value, was |-> o.was, at |-> o.at, values |-> o.values]
        /\ o.n = r.n /\ o.field = r.field /\ o.value = r.value /\ o.at = "orphan" /\ o.values = r.values
    BY <1>2, <1>5 DEF RequestType
  <1>8. /\ f \in flights' /\ flights \ {r} \subseteq flights'
        /\ \A q \in flights' : (q \in flights /\ q # r) \/ q = f \/ (q = o /\ r.at = "sent")
    BY <1>1, <1>2
  <1>9. \A q \in flights' : RequestType(q)'
    <2>1. RequestType(f)' /\ RequestType(o)'
      BY <1>3, <1>5, <1>6, <1>7 DEF RequestType
    <2>2. \A q \in flights : RequestType(q)'
      BY <1>3, <1>4 DEF RequestType
    <2> QED BY <1>8, <2>1, <2>2
  <1>10. PanelTyped'
    BY <1>3, <1>4, <1>9 DEF PanelTyped
  <1>11. \A q \in flights \ {r} : q.n # r.n
    BY <1>3 DEF Numbered
  <1>12. Numbered'
    BY <1>6, <1>7, <1>8, <1>11 DEF Numbered
  <1>13. Served'
    BY <1>3, <1>6, <1>7, <1>8 DEF Served, Unserved, Displayed
  <1>14. SavedTruly'
    BY <1>3, <1>6, <1>7, <1>8 DEF SavedTruly, Typed, Displayed
  <1>15. Waits'
    BY <1>3, <1>6, <1>7, <1>8 DEF Waits
  <1>16. Pends'
    <2> SUFFICES ASSUME pending # Unset, timer = Unset, ~astray
                 PROVE  (Failed \/ UnderWay \/ InTheFile)'
      BY <1>3 DEF Pends
    <2>1. CASE Failed
      BY <1>3, <1>8, <2>1 DEF Failed
    <2>2. CASE UnderWay
      <3>1. PICK w \in flights : /\ w.field = "address" /\ w.at = "sent" /\ w.value = pending
                                 /\ \A q \in flights : q.field = "address" /\ Unserved(q) => q.n <= w.n
        BY <2>2 DEF UnderWay
      <3>2. CASE w = r
        BY <1>6, <1>8, <3>1, <3>2 DEF Failed
      <3>3. CASE w # r
        BY <1>3, <1>6, <1>7, <1>8, <3>1, <3>3 DEF UnderWay, Unserved
      <3> QED BY <3>2, <3>3
    <2>3. CASE InTheFile
      BY <1>3, <1>6, <1>7, <1>8, <2>3 DEF InTheFile, Unserved, Displayed
    <2> QED BY <2>1, <2>2, <2>3 DEF Pends
  <1> QED BY <1>10, <1>12, <1>13, <1>14, <1>15, <1>16

\* What is left when a request is over.
LEMMA PendsKept ==
    ASSUME PanelInv, NEW r \in flights, flights' = flights \ {r}, r.at \in {"done", "failed"},
           ~astray' => ~astray /\ ~(r.at = "failed" /\ r.field = "address"),
           UNCHANGED <<runs, stored, timer, last>>, pending' \in {Unset, pending}
    PROVE  Pends'
  <1> SUFFICES ASSUME pending' # Unset, timer = Unset, ~astray'
               PROVE  (Failed \/ UnderWay \/ InTheFile)'
    BY DEF Pends
  <1>1. pending' = pending /\ pending # Unset /\ ~astray
    OBVIOUS
  <1>2. Failed => Failed'
    BY DEF Failed
  <1>3. UnderWay => UnderWay'
    BY <1>1 DEF UnderWay, Unserved
  <1>4. InTheFile => InTheFile'
    BY <1>1 DEF InTheFile, Unserved, Displayed
  <1> QED BY <1>1, <1>2, <1>3, <1>4 DEF PanelInv, Pends

LEMMA ArriveKeeps == ASSUME PanelInv, NEW r \in flights, Arrive(r) PROVE PanelInv'
  <1> USE DEF PanelInv
  <1>1. /\ r.at \in {"done", "failed"} /\ flights' = flights \ {r} /\ runs' = runs /\ stored' = stored
        /\ seq' = seq /\ timer' = timer /\ last' = last
    BY DEF Arrive
  <1>2. astray' = (astray \/ (r.at = "failed" /\ r.field = "address"))
    BY DEF Arrive
  <1>3. /\ seq \in Nat /\ last \in Nat /\ last <= seq /\ astray \in BOOLEAN
        /\ stored = [k \in Key |-> stored[k]] /\ draft = [g \in Editable |-> draft[g]]
        /\ \A q \in flights : RequestType(q)
    BY DEF PanelTyped
  <1>4. /\ astray' \in BOOLEAN
        /\ ~astray' => ~astray /\ ~(r.at = "failed" /\ r.field = "address")
    BY <1>2, <1>3
  <1>5. RequestType(r)
    BY <1>3
  <1>6. \/ /\ ~Latest(r) /\ draft' = draft /\ status' = status /\ pending' = pending
        \/ /\ Latest(r) /\ r.at = "failed" /\ pending' = pending /\ status' = "error"
           /\ draft' = IF r.field = "address" THEN draft ELSE [draft EXCEPT ![r.field] = r.was]
        \/ /\ Latest(r) /\ r.at = "done" /\ status' = "saved"
           /\ pending' = IF r.field = "address" /\ pending = r.value THEN Unset ELSE pending
           /\ draft' = IF pending' = Unset THEN r.values ELSE [r.values EXCEPT !["address"] = pending']
    BY <1>1 DEF Arrive
  <1>7. PanelTyped'
    <2>1. draft' = [g \in Editable |-> draft'[g]]
      BY <1>3, <1>5, <1>6 DEF RequestType
    <2>2. \A q \in flights' : RequestType(q)'
      BY <1>1, <1>3 DEF RequestType
    <2> QED BY <1>1, <1>3, <1>4, <2>1, <2>2 DEF PanelTyped
  <1>8. Numbered'
    BY <1>1 DEF Numbered
  <1>9. Served'
    BY <1>1, <1>4 DEF Served, Unserved, Displayed
  <1>10. SavedTruly'
    <2> SUFFICES ASSUME status' = "saved", ~astray'
                 PROVE  last = seq /\ draft' = Typed' /\ \A q \in flights' : q.n # seq
      BY <1>1 DEF SavedTruly
    <2>1. ~astray
      BY <1>4
    <2>2. CASE ~Latest(r) /\ draft' = draft /\ status' = status /\ pending' = pending
      BY <1>1, <2>1, <2>2 DEF SavedTruly, Typed, Displayed
    <2>3. CASE /\ Latest(r) /\ r.at = "done"
               /\ draft' = IF pending' = Unset THEN r.values ELSE [r.values EXCEPT !["address"] = pending']
      <3>1. r.n = seq /\ r.n <= last
        BY <2>3 DEF Latest, Served
      <3>2. last = seq /\ r.values = Displayed(stored)
        BY <1>3, <2>1, <2>3, <3>1 DEF Served
      <3>3. \A q \in flights' : q.n # seq
        BY <1>1, <2>3, <3>1 DEF Numbered
      <3>4. draft' = Typed'
        BY <1>1, <2>3, <3>2 DEF Typed, Displayed
      <3> QED BY <3>2, <3>3, <3>4
    <2> QED BY <1>6, <2>2, <2>3
  <1>11. pending' \in {Unset, pending} /\ (timer # Unset => pending' = pending)
    BY <1>3, <1>5, <1>6 DEF Waits, Latest, RequestType
  <1>12. Waits'
    BY <1>1, <1>11 DEF Waits
  <1>13. Pends'
    BY <1>1, <1>4, <1>11, PendsKept
  <1> QED BY <1>7, <1>8, <1>9, <1>10, <1>12, <1>13

LEMMA PanelStarts == ConfigPanelInit => PanelInv
  <1> SUFFICES ASSUME ConfigPanelInit PROVE PanelInv
    OBVIOUS
  <1>1. PICK shell \in Shells, settings \in Started :
            stored = settings /\ draft = Shown(shell, settings, Effective(Loaded(shell, settings)))
    BY DEF ConfigPanelInit
  <1>2. draft = [f \in Editable |-> draft[f]]
    BY <1>1, ShownTyped
  <1>3. stored = [k \in Key |-> stored[k]]
    BY <1>1, ConfigFileAssumption DEF Settings
  <1>4. /\ status = "idle" /\ seq = 0 /\ last = 0 /\ timer = Unset /\ pending = Unset /\ flights = {}
        /\ astray = FALSE
    BY DEF ConfigPanelInit
  <1>5. PanelTyped
    <2>1. astray \in BOOLEAN
      BY <1>4
    <2>2. seq \in Nat /\ last \in Nat /\ last <= seq /\ \A r \in flights : RequestType(r)
      <3>1. seq = 0 /\ last = 0 /\ flights = {}
        BY <1>4
      <3> QED BY <3>1
    <2> QED BY <1>2, <1>3, <2>1, <2>2 DEF PanelTyped
  <1>6. Numbered /\ Served /\ SavedTruly /\ Waits /\ Pends
    BY <1>4 DEF Numbered, Served, SavedTruly, Waits, Pends
  <1> QED BY <1>5, <1>6 DEF PanelInv

LEMMA PanelStep == PanelInv /\ [ConfigPanelNext]_panelVars => PanelInv'
  <1> SUFFICES ASSUME PanelInv, [ConfigPanelNext]_panelVars PROVE PanelInv'
    OBVIOUS
  <1>1. ASSUME NEW e \in Edits, Choose(e[1], e[2]) PROVE PanelInv'
    BY <1>1, ChooseKeeps
  <1>2. ASSUME NEW v \in Text, Type(v) PROVE PanelInv'
    BY <1>2, TypeKeeps
  <1>3. CASE TypingStops
    BY <1>3, TypingStopsKeeps
  <1>4. ASSUME NEW r \in flights, Serve(r) PROVE PanelInv'
    BY <1>4, ServeKeeps
  <1>5. ASSUME NEW r \in flights, GiveUp(r) PROVE PanelInv'
    BY <1>5, GiveUpKeeps
  <1>6. ASSUME NEW r \in flights, Arrive(r) PROVE PanelInv'
    BY <1>6, ArriveKeeps
  <1>7. CASE UNCHANGED panelVars
    <2>1. UNCHANGED <<runs, stored, draft, status, seq, timer, pending, flights, last, astray>>
      BY <1>7 DEF panelVars
    <2>2. PanelTyped' /\ Numbered' /\ Waits'
      BY <2>1 DEF PanelInv, PanelTyped, RequestType, Numbered, Waits
    <2>3. Served' /\ SavedTruly' /\ Pends'
      BY <2>1 DEF PanelInv, Served, SavedTruly, Typed, Pends, Failed, UnderWay, InTheFile, Unserved, Displayed
    <2> QED BY <2>2, <2>3 DEF PanelInv
  <1> QED BY <1>1, <1>2, <1>3, <1>4, <1>5, <1>6, <1>7 DEF ConfigPanelNext

\* When the panel says that everything is saved, it shows what the file has, in
\* whatever order answers arrive and however many of them are given up, as long as
\* the proxy served the requests in order and took every text.
THEOREM SavedIsShownForAll == ConfigPanelSpec => []SavedIsShown
  <1>1. ASSUME PanelInv, Settled, ~astray PROVE draft = Displayed(stored)
    <2>1. draft = Typed /\ timer = Unset /\ flights = {}
      BY <1>1 DEF PanelInv, SavedTruly, Settled
    <2>2. pending # Unset => Displayed(stored)["address"] = pending
      BY <1>1, <2>1 DEF PanelInv, Pends, Failed, UnderWay, InTheFile
    <2>3. PICK d : d = Displayed(stored)
      OBVIOUS
    <2>4. d = [f \in Editable |-> d[f]]
      BY <2>3, ShownTyped DEF Displayed
    <2> QED BY <2>1, <2>2, <2>3, <2>4 DEF Typed
  <1>2. PanelInv => SavedIsShown
    BY <1>1 DEF SavedIsShown
  <1> QED BY <1>2, PanelStarts, PanelStep, PTL DEF ConfigPanelSpec
=============================================================================
