------------------------------ MODULE HostLogs ------------------------------
(* The capture logs of a host: every proxy process writes the requests it
   carries into a directory of its own, and any launch may prune all of them.

   The directory of a launched agent is named after the process; that of a
   proxy which runs by itself is not, and only the time of its files says that
   it is in use.  A process makes its directory when it logs its first request
   and never looks at it again.  Under a trace grant it also writes what it
   sent, what it gave the client and, when the answer is complete, a record of
   the values it replaced.

   A pass looks at all directories, audits the ones that are about to lose raw
   files, saves what it found, and removes: directories that have been idle too
   long, raw files past their age, then the oldest raw files and the oldest
   idle directories until the size is met.  Passes of two processes interleave
   with each other and with the writers.

   A file is a unit of size, and every request is traced.  Not here: previews in the log lines and the
   counts of the metadata, the shapes that an audit lists for review, paths
   (a plain name inside one is no finding), reports that cannot be saved for
   want of a name of their own.                                               *)
EXTENDS Naturals, FiniteSets, FiniteSetsExt, Functions

CONSTANTS Agent,        \* directories named after their process
          Standalone,   \* directories of proxies that run by themselves
          Pruner,       \* processes that may prune
          Secret,       \* protected values
          Permanent,    \* those the registry holds
          MaxAge,       \* an idle directory is removed when older than this
          TraceAge,     \* a raw file is removed at this age
          SizeCap,      \* files kept at most
          MaxLogged,    \* bound: requests logged on the host
          MaxPasses,    \* bound: passes and audits begun
          MaxClock      \* bound on time; activity within one tick is recent

Unit == Agent \cup Standalone
Recent == 1

ASSUME HostLogsAssumption == Permanent \subseteq Secret

VARIABLES
    clock,    \* hours
    process,  \* per directory: "none", "running", "ended", or "crashed"
    dir,      \* per directory: "none", "there", "removed"
    logged,   \* per directory: requests logged so far
    files,    \* what lies in the directories
    touched,  \* per directory: when an entry of it last came or went
    open,     \* requests whose answer is not complete
    pass,     \* per pruner: the pass it is in
    passes,   \* passes begun so far
    reports,  \* findings in saved reports
    read,     \* observed: raw files whose audit was saved
    gone,     \* observed: raw files that a pass removed from its own list
    owed,     \* observed: what a pass could have found in the bodies it removed
    failed,   \* observed: an audit could not run
    overlapped   \* observed: two passes have overlapped

logVars == <<clock, process, dir, logged, files, touched, open, pass, passes,
             reports, read, gone, owed, failed, overlapped>>
written == <<clock, process, dir, logged, files, touched, open>>
evidence == <<passes, reports, read, gone, owed, failed, overlapped>>

File(u, n, kind, holds) == [unit |-> u, n |-> n, kind |-> kind, at |-> clock, holds |-> holds]
Raw == {"sent", "restored", "record"}
RawFiles(S) == {f \in S : f.kind \in Raw}
In(S, u) == {f \in S : f.unit = u}

(***************************************************************************)
(* A proxy process.                                                        *)
(***************************************************************************)

\* The files of an agent lie one level deeper, so its directory keeps its time.
Touched(units) ==
    touched' = [u \in Unit |-> IF u \in units \ Agent THEN clock ELSE touched[u]]

\* A file can only be written while the directory is where it was made.
WriteFiles(u, more) ==
    /\ dir[u] = "there"
    /\ files' = files \cup more
    /\ Touched({u})

LoggedSoFar == MapThenSumSet(LAMBDA w : logged[w], Unit)

\* The first request makes the directory; one that cannot write its metadata
\* later on is refused, and nothing is sent.
LogRequest(u) ==
    /\ process[u] = "running"
    /\ LoggedSoFar < MaxLogged
    /\ logged' = [logged EXCEPT ![u] = @ + 1]
    /\ IF dir[u] = "removed" THEN UNCHANGED <<dir, files, touched, open>>
       ELSE \E kept, missed \in SUBSET Secret, blocked \in BOOLEAN :
              LET n == logged[u] + 1
                  record(v) == IF v = {} THEN {} ELSE {File(u, n, "record", v)}
              IN  /\ kept \cap missed = {} /\ (blocked => missed # {})
                  /\ dir' = [dir EXCEPT ![u] = "there"]
                  /\ files' = files \cup {File(u, n, "meta", {})}
                               \cup (IF blocked THEN record(kept \cup missed)
                                     ELSE {File(u, n, "sent", missed)})
                  /\ touched' = [touched EXCEPT ![u] = IF u \in Agent /\ dir[u] = "there" THEN @ ELSE clock]
                  /\ open' = IF blocked THEN open ELSE open \cup {[unit |-> u, n |-> n, kept |-> kept]}
    /\ UNCHANGED <<clock, process, pass, evidence>>

\* The answer is complete: its bytes as the client gets them, with the registry
\* values restored into tool calls (nothing readable, if the capture was cut),
\* and the record of the values replaced in the request or restored here.
Complete(r) ==
    /\ process[r.unit] = "running"
    /\ \E tools \in SUBSET (r.kept \cap Permanent) :
          WriteFiles(r.unit, {File(r.unit, r.n, "restored", tools)}
                        \cup (IF r.kept = {} THEN {} ELSE {File(r.unit, r.n, "record", r.kept)}))
    /\ open' = open \ {r}
    /\ UNCHANGED <<clock, process, dir, logged, pass, evidence>>

\* The copy of the answer that goes to the log is read by a task nobody waits
\* for: when its file cannot be written, the process ends.
CompleteNowhere(r) ==
    /\ process[r.unit] = "running"
    /\ dir[r.unit] = "removed"
    /\ process' = [process EXCEPT ![r.unit] = "crashed"]
    /\ open' = {q \in open : q.unit # r.unit}
    /\ UNCHANGED <<clock, dir, logged, files, touched, pass, evidence>>

Exit(u) ==
    /\ process[u] = "running"
    /\ process' = [process EXCEPT ![u] = "ended"]
    /\ open' = {r \in open : r.unit # u}
    /\ UNCHANGED <<clock, dir, logged, files, touched, pass, evidence>>

(***************************************************************************)
(* A pass.                                                                 *)
(***************************************************************************)

NoPass == [at |-> "none"]

LastActivity(u) == Max({touched[u]} \cup {f.at : f \in In(files, u)})

\* A mutant: only the time of the files says that a directory is in use.
LiveByTime(u) == clock - LastActivity(u) < Recent

\* In use: the process named by the directory runs, or a file is recent.
Live(u) ==
    \/ u \in Agent /\ process[u] = "running"
    \/ clock - LastActivity(u) < Recent

\* The bodies and records of one directory, as they can still be read.
Catalogue(S) == UNION {f.holds : f \in {g \in S : g.kind = "record"}}

\* A mutant: a body is checked against the record of its own request only.
LeaksInOwn(S, u) ==
    UNION {{<<"egress", u, v>> : v \in f.holds \cap Catalogue({g \in S : g.n = f.n})} :
             f \in {g \in S : g.kind = "sent"}}

\* Observed, with no regard to how an audit reads: what a body holds and some
\* record of the same directory names.
Named ==
    {x \in {"egress"} \X Unit \X Secret :
        \E b, r \in files : /\ b.kind = "sent" /\ r.kind = "record" /\ b.unit = x[2] /\ r.unit = x[2]
                            /\ x[3] \in b.holds \cap r.holds}

\* What the pass goes by from here on: the files and directories it has seen.
Scan(policy) ==
    [at |-> "audit", policy |-> policy, files |-> files, idle |-> {u \in Unit : dir[u] = "there" /\ ~Live(u)},
     expired |-> {u \in Unit : dir[u] = "there" /\ ~Live(u) /\ clock - LastActivity(u) > MaxAge},
     active |-> [u \in Unit |-> LastActivity(u)], time |-> clock, audited |-> {},
     shows |-> Named]

\* A launch prunes by the policy, `ficta logs prune` also all the raw files.
BeginPass(p) ==
    /\ pass[p] = NoPass
    /\ passes < MaxPasses /\ passes' = passes + 1
    /\ \E policy \in {0, TraceAge} : pass' = [pass EXCEPT ![p] = Scan(policy)]
    /\ overlapped' = (overlapped \/ \E q \in Pruner \ {p} : pass[q] # NoPass)
    /\ UNCHANGED <<written, reports, read, gone, owed, failed>>

Aged(s) == {f \in RawFiles(s.files) : f.unit \notin s.expired /\ s.time - f.at >= s.policy}

\* A mutant: units that lose their files with the directory are not audited.
LosingByAge(s) == {u \in Unit : In(Aged(s), u) # {}}

Losing(s) == {u \in Unit : In(RawFiles(s.files), u) # {} /\ (u \in s.expired \/ In(Aged(s), u) # {})}

LeaksIn(S, u) ==
    {<<"egress", u, v>> : v \in Catalogue(S) \cap UNION {f.holds : f \in {g \in S : g.kind = "sent"}}}
    \cup {<<"tool-restore", u, v>> : v \in Catalogue(S) \cap Permanent
                                           \cap UNION {f.holds : f \in {g \in S : g.kind = "restored"}}}

Bodies(S) == {f \in S : f.kind = "sent"}

\* The report of an audit: read from the files of the list that are still there.
Saved(list, units) ==
    LET seen(u) == In(list \cap files, u)
    IN  /\ reports' = reports \cup UNION {LeaksIn(seen(u), u) : u \in units}
        /\ read' = read \cup UNION {RawFiles(seen(u)) : u \in units}

\* Every directory about to lose raw files is audited once; an audit that
\* cannot run does not keep the pass from going on, and one without a single
\* body is not saved.
Audit(p, units, next) ==
    LET fresh == units \ pass[p].audited
    IN  /\ pass' = [pass EXCEPT ![p] = [@ EXCEPT !.at = next, !.audited = units \cup pass[p].audited]]
        /\ \/ /\ \E f \in Bodies(pass[p].files) : f.unit \in fresh
              /\ Saved(pass[p].files, fresh)
              /\ UNCHANGED failed
           \/ /\ ~\E f \in Bodies(pass[p].files) : f.unit \in fresh
              /\ UNCHANGED <<reports, read, failed>>
           \/ /\ fresh # {}
              /\ failed' = TRUE
              /\ UNCHANGED <<reports, read>>
        /\ UNCHANGED <<written, passes, gone, owed, overlapped>>

AuditAged(p) == pass[p].at = "audit" /\ Audit(p, Losing(pass[p]), "remove")

\* A directory goes with everything that is in it by now.
Gone(s, units, list) ==
    LET went == {f \in RawFiles(files) : f \in list}
    IN  /\ dir' = [u \in Unit |-> IF u \in units THEN "removed" ELSE dir[u]]
        /\ files' = {f \in files : f.unit \notin units /\ f \notin list}
        /\ Touched({f.unit : f \in went} \ units)
        /\ gone' = gone \cup went
        /\ owed' = owed \cup {x \in s.shows : \E f \in Bodies(went) : f.unit = x[2] /\ x[3] \in f.holds}

RemoveAged(p) ==
    /\ pass[p].at = "remove"
    /\ LET s == pass[p]
           list == Aged(s) \cup UNION {In(s.files, u) : u \in s.expired}
       IN  /\ Gone(s, s.expired, list)
           /\ pass' = [pass EXCEPT ![p] = [s EXCEPT !.at = "cap", !.files = s.files \ list,
                                                    !.idle = s.idle \ s.expired]]
    /\ UNCHANGED <<clock, process, logged, open, passes, reports, read, failed, overlapped>>

Over(s) == Cardinality(s.files) > SizeCap

\* Enough is met: every directory that would lose raw files now is audited first.
AuditForCap(p) ==
    /\ pass[p].at = "cap"
    /\ IF Over(pass[p])
       THEN Audit(p, {f.unit : f \in RawFiles(pass[p].files)}, "shrink")
       ELSE pass' = [pass EXCEPT ![p] = NoPass] /\ UNCHANGED <<written, evidence>>

\* Raw files go first, the oldest first, from any directory; then, if these were
\* not enough, whole directories, the one idle longest first.
OldestFirst(S, T, age(_)) == T \subseteq S /\ \A x \in T, y \in S \ T : age(x) <= age(y)

JustEnough(s, list, units) ==
    LET raw == RawFiles(s.files)
        excess == Cardinality(s.files) - SizeCap
        rest(more) == {f \in s.files \ raw : f.unit \notin more}
    IN  /\ OldestFirst(raw, list, LAMBDA f : f.at)
        /\ Cardinality(list) = Min({excess, Cardinality(raw)})
        /\ OldestFirst(s.idle, units, LAMBDA u : s.active[u])
        /\ units # {} => list = raw
        /\ list = raw => \/ Cardinality(rest(units)) <= SizeCap
                         \/ units = s.idle
        /\ \A u \in units : \/ Cardinality(rest(units \ {u})) > SizeCap
                            \/ \E w \in units : s.active[w] > s.active[u]

Shrink(p) ==
    /\ pass[p].at = "shrink"
    /\ \E list \in SUBSET RawFiles(pass[p].files), units \in SUBSET pass[p].idle :
          /\ JustEnough(pass[p], list, units)
          /\ Gone(pass[p], units, list \cup UNION {In(pass[p].files, u) : u \in units})
          /\ pass' = [pass EXCEPT ![p] = NoPass]
    /\ UNCHANGED <<clock, process, logged, open, passes, reports, read, failed, overlapped>>

\* `ficta logs audit --save` reads everything and removes nothing.
AuditAll ==
    /\ passes < MaxPasses /\ passes' = passes + 1
    /\ Saved(files, Unit)
    /\ UNCHANGED <<written, pass, gone, owed, failed, overlapped>>

\* No pass takes an hour.
HourPasses ==
    /\ clock < MaxClock
    /\ \A p \in Pruner : pass[p] = NoPass
    /\ clock' = clock + 1
    /\ UNCHANGED <<process, dir, logged, files, touched, open, pass, evidence>>

HostLogsInit ==
    /\ clock = 0 /\ passes = 0
    /\ process \in [Unit -> {"none", "running"}]
    /\ dir = [u \in Unit |-> "none"]
    /\ logged = [u \in Unit |-> 0]
    /\ touched = [u \in Unit |-> 0]
    /\ files = {} /\ open = {} /\ reports = {} /\ read = {} /\ gone = {} /\ owed = {}
    /\ pass = [p \in Pruner |-> NoPass]
    /\ failed = FALSE /\ overlapped = FALSE

HostLogsNext ==
    \/ \E u \in Unit : LogRequest(u) \/ Exit(u)
    \/ \E r \in open : Complete(r) \/ CompleteNowhere(r)
    \/ \E p \in Pruner :
          \/ BeginPass(p)
          \/ AuditAged(p) \/ RemoveAged(p) \/ AuditForCap(p)
          \/ Shrink(p)
    \/ AuditAll
    \/ HourPasses

HostLogsSpec == HostLogsInit /\ [][HostLogsNext]_logVars

(***************************************************************************)
(* Properties.                                                             *)
(***************************************************************************)

FileType == [unit : Unit, n : Nat, kind : Raw \cup {"meta"}, at : Nat, holds : SUBSET Secret]

PassType(active) ==
    [at : {"audit", "remove", "cap", "shrink"}, policy : {0, TraceAge}, files : SUBSET FileType,
     idle : SUBSET Unit, expired : SUBSET Unit, active : {active}, time : Nat, audited : SUBSET Unit,
     shows : SUBSET ({"egress"} \X Unit \X Secret)]

FindingType == {"egress", "tool-restore"} \X Unit \X Secret

HostLogsTypeOK ==
    /\ clock \in Nat /\ passes \in Nat
    /\ process \in [Unit -> {"none", "running", "ended", "crashed"}]
    /\ dir \in [Unit -> {"none", "there", "removed"}]
    /\ logged \in [Unit -> Nat] /\ touched \in [Unit -> Nat]
    /\ files \subseteq FileType /\ read \subseteq FileType /\ gone \subseteq FileType
    /\ open \subseteq [unit : Unit, n : Nat, kept : SUBSET Secret]
    /\ pass = [p \in Pruner |-> pass[p]]
    /\ \A p \in Pruner : pass[p] = NoPass \/ pass[p] \in PassType(pass[p].active)
    /\ reports \subseteq FindingType /\ owed \subseteq FindingType
    /\ failed \in BOOLEAN /\ overlapped \in BOOLEAN

\* A raw body that a pass listed and removed had been read by an audit whose
\* report is saved, whether it went by age, with its directory or for size, and
\* whatever other passes did meanwhile, unless an audit could not run.
ReadBeforeGone == ~failed => Bodies(gone) \subseteq read

\* What a pass could see when it listed the files, a body and a record of the
\* same directory that names a value in it, is in a saved report once the body
\* is gone, when no other pass was in the way.
LeaksOutliveTraces == ~failed /\ ~overlapped => owed \subseteq reports

\* A launched agent that runs finds its directory, so none of its requests is
\* refused because it cannot be logged.
AgentKeepsItsDirectory == \A u \in Agent : process[u] = "running" => dir[u] # "removed"

\* The claim of the retention's own comment, of every process that may still
\* write.
\* Refuted by TLC (README, refuted claims).
WritersKeepTheirDirectory == \A u \in Unit : process[u] = "running" => dir[u] # "removed"

\* What a pass takes away was audited first, what it could see in it is on
\* record, and a launched agent does not lose the place it writes to.
PruningIsSafe == ReadBeforeGone /\ LeaksOutliveTraces /\ AgentKeepsItsDirectory

=============================================================================
