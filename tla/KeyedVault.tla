----------------------------- MODULE KeyedVault -----------------------------
(***************************************************************************)
(* The persistent vault of one keyed scope: several in-memory instances of *)
(* the scope (one per process, or one left behind by an eviction while its *)
(* requests still run) in front of one shared VaultStore.                  *)
(*                                                                         *)
(* A request runs between two awaits atomically, as JavaScript does, and   *)
(* the store answers each call later, in any order, or fails it.  The      *)
(* value-to-token map is a keyed hash, so a token is identified with its   *)
(* value; what differs between copies of a mapping is its matching form.   *)
(*                                                                         *)
(* A definition whose comment starts with "Fault" (or that stands, in one  *)
(* line, before the definition it varies) is that definition with a        *)
(* plausible mistake in it; no action uses it.                             *)
(***************************************************************************)
EXTENDS Naturals

CONSTANTS
    Inst,         \* in-memory instances of the scope
    Value,        \* raw values the detectors may report
    Req,          \* request slots, each reused for call after call
    InstOf,       \* the instance a request slot calls into
    Kinds,        \* the calls made: subset of AllKinds
    StoreIsSync,  \* the store finishes a write before anything else runs
    Retention,    \* an operator prunes and forgets entries meanwhile
    MaxTime       \* bound on the clock that stamps last use

AllKinds == {"body", "text", "restore"}

ASSUME ConstantsAssumption ==
    /\ InstOf \in [Req -> Inst]
    /\ Kinds \subseteq AllKinds
    /\ StoreIsSync \in BOOLEAN
    /\ Retention \in BOOLEAN
    /\ MaxTime \in Nat

(* The form in which a mapping is held.  "residual": restores only, a      *)
(* clipped left-over.  "match": found again in any later text.  "demoted": *)
(* still a match form, but marked token-only by a later clip.              *)
Entry == {"none", "residual", "match", "demoted"}
Matching == {"match", "demoted"}
Nothing == [v \in Value |-> "none"]

Status == {"idle", "hydrating", "ready", "looking", "prepared",
           "appending", "stored", "failed", "returned", "threw"}

Time == 0..MaxTime
Touch == [inst : Inst, value : Value, at : Time]

VARIABLES
    rows,       \* the store: the entry saved for each value
    lastUsed,   \* the store: last_used_at of each entry
    now,        \* the clock
    mem,        \* per instance, the mapping tables with their token-only marks
    persisted,  \* per instance, each entry's fingerprint when last saved or loaded
    changed,    \* per instance, the values whose mapping changed since the last persist
    hyd,        \* per instance, the hydration promise: "cold", "loading" or "warm"
    snap,       \* per instance, what the load in flight has read
    st, kind,   \* per request, where it is and which call it makes
    out,        \* per request, the values whose tokens its text carries
    marks,      \* per request, the changed values its persist took
    batch,      \* per request, the entries of its store call
    touches,    \* background last-use updates in flight
    released    \* observed: values whose tokens a body redaction has returned

memory == <<mem, persisted, changed>>
store == <<rows, lastUsed>>
requests == <<st, kind, out, marks, batch>>
vars == <<rows, lastUsed, now, mem, persisted, changed, hyd, snap,
          st, kind, out, marks, batch, touches, released>>

Stored(v) == rows[v] # "none"
Held(p, v) == mem[p][v] # "none"
On(p) == {r \in Req : InstOf[r] = p}

(* Appends run synchronously inside the caller with the SQLite store, so   *)
(* no other code of the instance runs while one is under way.              *)
Free(p) == StoreIsSync => \A r \in On(p) : st[r] # "appending"

TypeOK ==
    /\ rows \in [Value -> Entry]
    /\ lastUsed \in [Value -> Time]
    /\ now \in Time
    /\ mem \in [Inst -> [Value -> Entry]]
    /\ persisted \in [Inst -> [Value -> Entry]]
    /\ changed \in [Inst -> SUBSET Value]
    /\ hyd \in [Inst -> {"cold", "loading", "warm"}]
    /\ snap \in [Inst -> [Value -> Entry]]
    /\ st \in [Req -> Status]
    /\ kind \in [Req -> AllKinds \cup {"none"}]
    /\ out \in [Req -> SUBSET Value]
    /\ marks \in [Req -> SUBSET Value]
    /\ batch \in [Req -> [Value -> Entry]]
    /\ touches \subseteq Touch
    /\ released \subseteq Value

Init ==
    /\ rows = Nothing
    /\ lastUsed = [v \in Value |-> 0]
    /\ now = 0
    /\ mem = [p \in Inst |-> Nothing]
    /\ persisted = [p \in Inst |-> Nothing]
    /\ changed = [p \in Inst |-> {}]
    /\ hyd = [p \in Inst |-> "cold"]
    /\ snap = [p \in Inst |-> Nothing]
    /\ st = [r \in Req |-> "idle"]
    /\ kind = [r \in Req |-> "none"]
    /\ out = [r \in Req |-> {}]
    /\ marks = [r \in Req |-> {}]
    /\ batch = [r \in Req |-> Nothing]
    /\ touches = {}
    /\ released = {}

-----------------------------------------------------------------------------
(* What a table does with one mapping.                                     *)

(* A body surface, all of whose occurrences are clipped or not.            *)
BodyForm(held, clipped) ==
    IF ~clipped THEN "match"
    ELSE IF held \in Matching THEN "demoted" ELSE "residual"

(* A header or query value: admitted to matching, token-only mark kept.    *)
TextForm(held) ==
    IF held = "none" THEN "match"
    ELSE IF held = "residual" THEN "demoted" ELSE held

(* A stored entry met by memory: memory's labels win, matching is added.   *)
Merge(held, row) ==
    IF held = "none" THEN row
    ELSE IF held = "residual" /\ row \in Matching THEN "demoted" ELSE held

(* Whether going from one form to the other marks the value as changed:    *)
(* the token-only mark alone does not.                                     *)
Registers(held, form) ==
    \/ held = "none" /\ form # "none"
    \/ held = "residual" /\ form \in Matching

Apply(p, entries) ==
    /\ mem' = [mem EXCEPT ![p] = [v \in Value |-> Merge(mem[p][v], entries[v])]]
    /\ persisted' = [persisted EXCEPT ![p] = [v \in Value |->
                        IF entries[v] # "none" THEN entries[v] ELSE persisted[p][v]]]

(* Last-use updates for those of V that the instance knows to be stored.   *)
(* With MaxTime = 0 all stamps are equal, no update changes anything, and  *)
(* none is tracked.                                                        *)
TouchesFor(p, V) ==
    {[inst |-> p, value |-> v, at |-> now] :
        v \in {u \in V : MaxTime > 0 /\ persisted[p][u] # "none"}}

-----------------------------------------------------------------------------
(* Calls and hydration.                                                    *)

(* Fault: a caller is left in the state of the promise it should await.    *)
ResumeUnmapped(p) == IF hyd[p] = "warm" THEN "ready" ELSE hyd[p]

Resume(p) == IF hyd[p] = "warm" THEN "ready" ELSE "hydrating"

Redact(r, k) ==
    /\ k \in Kinds \ {"restore"}
    /\ st[r] = "idle"
    /\ Free(InstOf[r])
    /\ st' = [st EXCEPT ![r] = Resume(InstOf[r])]
    /\ kind' = [kind EXCEPT ![r] = k]
    /\ UNCHANGED <<store, now, memory, hyd, snap, out, marks, batch, touches, released>>

(* A caller restores text holding tokens that body redactions gave it.     *)
PrepareRestore(r) ==
    /\ "restore" \in Kinds
    /\ st[r] = "idle"
    /\ Free(InstOf[r])
    /\ \E V \in (SUBSET released) \ {{}} : out' = [out EXCEPT ![r] = V]
    /\ st' = [st EXCEPT ![r] = Resume(InstOf[r])]
    /\ kind' = [kind EXCEPT ![r] = "restore"]
    /\ UNCHANGED <<store, now, memory, hyd, snap, marks, batch, touches, released>>

(* One load serves every request that waits for it; a caller may also ask  *)
(* for a refresh of a warm scope.                                          *)
Load(p) ==
    /\ \/ hyd[p] = "cold" /\ \E r \in On(p) : st[r] = "hydrating"
       \/ hyd[p] = "warm"
    /\ Free(p)
    /\ hyd' = [hyd EXCEPT ![p] = "loading"]
    /\ snap' = [snap EXCEPT ![p] = rows]
    /\ UNCHANGED <<store, now, memory, requests, touches, released>>

(* Fault: a finished load wakes only one of the requests that share it.    *)
LoadedForOne(p) ==
    /\ hyd[p] = "loading"
    /\ Free(p)
    /\ hyd' = [hyd EXCEPT ![p] = "warm"]
    /\ Apply(p, snap[p])
    /\ snap' = [snap EXCEPT ![p] = Nothing]
    /\ \E r \in On(p) : st' = [st EXCEPT ![r] = IF @ = "hydrating" THEN "ready" ELSE @]
    /\ UNCHANGED <<store, now, changed, kind, out, marks, batch, touches, released>>

Loaded(p) ==
    /\ hyd[p] = "loading"
    /\ Free(p)
    /\ hyd' = [hyd EXCEPT ![p] = "warm"]
    /\ Apply(p, snap[p])
    /\ snap' = [snap EXCEPT ![p] = Nothing]
    /\ st' = [r \in Req |-> IF InstOf[r] = p /\ st[r] = "hydrating" THEN "ready" ELSE st[r]]
    /\ UNCHANGED <<store, now, changed, kind, out, marks, batch, touches, released>>

LoadFailed(p) ==
    /\ hyd[p] = "loading"
    /\ Free(p)
    /\ hyd' = [hyd EXCEPT ![p] = "cold"]
    /\ snap' = [snap EXCEPT ![p] = Nothing]
    /\ st' = [r \in Req |-> IF InstOf[r] = p /\ st[r] = "hydrating" THEN "threw" ELSE st[r]]
    /\ UNCHANGED <<store, now, memory, kind, out, marks, batch, touches, released>>

-----------------------------------------------------------------------------
(* Redaction: register, persist, return.                                   *)

(* What a persist considers: the changed values and the named candidates,  *)
(* `learned` being the table after this text's registrations.              *)
TakenWithoutCandidates(p, learned, candidates) ==
    changed[p] \cup {v \in Value : Registers(mem[p][v], learned[v])}
Taken(p, learned, candidates) ==
    changed[p] \cup {v \in Value : Registers(mem[p][v], learned[v])} \cup candidates

(* Of those, the ones to append: mapped, and not persisted in this form.   *)
FreshFirstOnly(p, learned, taken) ==
    {v \in taken : learned[v] # "none" /\ persisted[p][v] = "none"}
FreshNever(p, learned, taken) == {}
Fresh(p, learned, taken) ==
    {v \in taken : learned[v] # "none" /\ persisted[p][v] # learned[v]}

(* The synchronous end of a redaction up to its store call; `found` are    *)
(* the values replaced in the text.                                        *)
Persist(r, learned, found, candidates) ==
    LET p == InstOf[r]
        taken == Taken(p, learned, candidates)
        fresh == Fresh(p, learned, taken)
    IN  /\ mem' = [mem EXCEPT ![p] = learned]
        /\ changed' = [changed EXCEPT ![p] = {}]
        /\ out' = [out EXCEPT ![r] = found]
        /\ \/ /\ fresh # {}
              /\ st' = [st EXCEPT ![r] = "appending"]
              /\ marks' = [marks EXCEPT ![r] = taken]
              /\ batch' = [batch EXCEPT ![r] =
                             [v \in Value |-> IF v \in fresh THEN learned[v] ELSE "none"]]
              /\ UNCHANGED <<touches, released>>
           \/ /\ fresh = {}
              /\ st' = [st EXCEPT ![r] = "returned"]
              /\ touches' = touches \cup TouchesFor(p, found)
              /\ released' = IF kind[r] = "body" THEN released \cup found ELSE released
              /\ UNCHANGED <<marks, batch>>

(* Body: detections plus the retained values present, every one of which   *)
(* is rendered and named to persist; clipped ones restore only.            *)
RedactBody(r) ==
    LET p == InstOf[r]
        retained == {v \in Value : mem[p][v] = "match"}
    IN  /\ st[r] = "ready"
        /\ kind[r] = "body"
        /\ Free(p)
        /\ \E detected \in SUBSET Value, known \in SUBSET retained :
             \E clipped \in SUBSET (detected \cup known) :
               LET found == detected \cup known
                   learned == [v \in Value |-> IF v \in found
                                  THEN BodyForm(mem[p][v], v \in clipped) ELSE mem[p][v]]
               IN  Persist(r, learned, found, found)
        /\ UNCHANGED <<store, now, persisted, hyd, snap, kind>>

(* Header or query text: every match form of the scope is replaced, only   *)
(* this text's own detections are named to persist.                        *)
RedactText(r) ==
    LET p == InstOf[r]
        matching == {v \in Value : mem[p][v] \in Matching}
    IN  /\ st[r] = "ready"
        /\ kind[r] = "text"
        /\ Free(p)
        /\ \E detected \in SUBSET Value, known \in SUBSET matching :
             LET learned == [v \in Value |-> IF v \in detected
                                THEN TextForm(mem[p][v]) ELSE mem[p][v]]
             IN  Persist(r, learned, detected \cup known, detected)
        /\ UNCHANGED <<store, now, persisted, hyd, snap, kind>>

(* The last writer's entry replaces the row.  The stamp is the time of the *)
(* call, which may have waited for the store since.                        *)
Upsert(r) ==
    /\ rows' = [v \in Value |-> IF batch[r][v] # "none" THEN batch[r][v] ELSE rows[v]]
    /\ \E at \in 0..now :
         lastUsed' = [v \in Value |-> IF batch[r][v] # "none" /\ at > lastUsed[v]
                                     THEN at ELSE lastUsed[v]]

Append(r) ==
    /\ st[r] = "appending"
    /\ Upsert(r)
    /\ st' = [st EXCEPT ![r] = "stored"]
    /\ UNCHANGED <<now, memory, hyd, snap, kind, out, marks, batch, touches, released>>

(* Fault: a refused append is taken for a success.                         *)
AppendFailureIgnored(r) ==
    /\ st[r] = "appending"
    /\ st' = [st EXCEPT ![r] = "stored"]
    /\ UNCHANGED <<store, now, memory, hyd, snap, kind, out, marks, batch, touches, released>>

(* The store refuses the append, or commits it and the answer is lost.     *)
AppendFails(r) ==
    /\ st[r] = "appending"
    /\ Upsert(r) \/ UNCHANGED store
    /\ st' = [st EXCEPT ![r] = "failed"]
    /\ UNCHANGED <<now, memory, hyd, snap, kind, out, marks, batch, touches, released>>

Return(r) ==
    LET p == InstOf[r]
        fresh == {v \in Value : batch[r][v] # "none"}
    IN  /\ st[r] = "stored"
        /\ Free(p)
        /\ persisted' = [persisted EXCEPT ![p] =
                           [v \in Value |-> IF v \in fresh THEN batch[r][v] ELSE persisted[p][v]]]
        /\ touches' = touches \cup TouchesFor(p, out[r] \ fresh)
        /\ released' = IF kind[r] = "body" THEN released \cup out[r] ELSE released
        /\ st' = [st EXCEPT ![r] = "returned"]
        /\ marks' = [marks EXCEPT ![r] = {}]
        /\ batch' = [batch EXCEPT ![r] = Nothing]
        /\ UNCHANGED <<store, now, mem, changed, hyd, snap, kind, out>>

(* The values of a failed append wait for the next persist.                *)
RequeueNothing(r) == changed
Requeue(r) == [changed EXCEPT ![InstOf[r]] = @ \cup marks[r]]

Throw(r) ==
    LET p == InstOf[r]
    IN  /\ st[r] = "failed"
        /\ Free(p)
        /\ changed' = Requeue(r)
        /\ st' = [st EXCEPT ![r] = "threw"]
        /\ marks' = [marks EXCEPT ![r] = {}]
        /\ batch' = [batch EXCEPT ![r] = Nothing]
        /\ UNCHANGED <<store, now, mem, persisted, hyd, snap, kind, out, touches, released>>

-----------------------------------------------------------------------------
(* Restore: fetch what memory lacks, then restore from memory.             *)

(* Fault: a warm scope is trusted to hold every token already.             *)
LookupSkipped(r) ==
    /\ st[r] = "ready"
    /\ kind[r] = "restore"
    /\ Free(InstOf[r])
    /\ st' = [st EXCEPT ![r] = "prepared"]
    /\ UNCHANGED <<store, now, memory, hyd, snap, kind, out, marks, batch, touches, released>>

Lookup(r) ==
    LET p == InstOf[r]
    IN  /\ st[r] = "ready"
        /\ kind[r] = "restore"
        /\ Free(p)
        /\ batch' = [batch EXCEPT ![r] = [v \in Value |->
                        IF v \in out[r] /\ ~Held(p, v) THEN rows[v] ELSE "none"]]
        /\ st' = [st EXCEPT ![r] = "looking"]
        /\ UNCHANGED <<store, now, memory, hyd, snap, kind, out, marks, touches, released>>

LookedUp(r) ==
    /\ st[r] = "looking"
    /\ Free(InstOf[r])
    /\ Apply(InstOf[r], batch[r])
    /\ st' = [st EXCEPT ![r] = "prepared"]
    /\ batch' = [batch EXCEPT ![r] = Nothing]
    /\ UNCHANGED <<store, now, changed, hyd, snap, kind, out, marks, touches, released>>

LookupFails(r) ==
    /\ st[r] = "looking"
    /\ Free(InstOf[r])
    /\ st' = [st EXCEPT ![r] = "threw"]
    /\ batch' = [batch EXCEPT ![r] = Nothing]
    /\ UNCHANGED <<store, now, memory, hyd, snap, kind, out, marks, touches, released>>

RestoreText(r) ==
    /\ st[r] = "prepared"
    /\ Free(InstOf[r])
    /\ touches' = touches \cup
         TouchesFor(InstOf[r], {v \in out[r] : Held(InstOf[r], v)})
    /\ st' = [st EXCEPT ![r] = "returned"]
    /\ UNCHANGED <<store, now, memory, hyd, snap, kind, out, marks, batch, released>>

(* The caller is done with the outcome; the slot takes its next call.      *)
Finish(r) ==
    /\ st[r] \in {"returned", "threw"}
    /\ st' = [st EXCEPT ![r] = "idle"]
    /\ kind' = [kind EXCEPT ![r] = "none"]
    /\ out' = [out EXCEPT ![r] = {}]
    /\ UNCHANGED <<store, now, memory, hyd, snap, marks, batch, touches, released>>

-----------------------------------------------------------------------------
(* Background writes, retention, loss of memory.                           *)

(* Fault: a late update overwrites a newer stamp.                          *)
TouchOverwrites(t) ==
    /\ t \in touches
    /\ touches' = touches \ {t}
    /\ lastUsed' = [lastUsed EXCEPT ![t.value] = IF Stored(t.value) THEN t.at ELSE @]
    /\ UNCHANGED <<rows, now, memory, hyd, snap, requests, released>>

(* A last-use update lands on an entry that still exists, or fails with a  *)
(* warning; either way it is forgotten.                                    *)
TouchLands(t) ==
    /\ t \in touches
    /\ touches' = touches \ {t}
    /\ lastUsed' = [lastUsed EXCEPT ![t.value] =
                      IF Stored(t.value) /\ t.at > @ THEN t.at ELSE @]
    /\ UNCHANGED <<rows, now, memory, hyd, snap, requests, released>>

TouchFails(t) ==
    /\ t \in touches
    /\ touches' = touches \ {t}
    /\ UNCHANGED <<store, now, memory, hyd, snap, requests, released>>

Delete(V) ==
    /\ rows' = [v \in Value |-> IF v \in V THEN "none" ELSE rows[v]]
    /\ lastUsed' = [v \in Value |-> IF v \in V THEN 0 ELSE lastUsed[v]]
    /\ UNCHANGED <<now, memory, hyd, snap, requests, touches, released>>

Prune(cutoff) ==
    /\ Retention
    /\ cutoff <= now
    /\ Delete({v \in Value : Stored(v) /\ lastUsed[v] < cutoff})

Forget(v) ==
    /\ Retention
    /\ Delete({v})

Tick ==
    /\ now < MaxTime
    /\ now' = now + 1
    /\ UNCHANGED <<store, memory, hyd, snap, requests, touches, released>>

ForgetMemory(p) ==
    /\ mem' = [mem EXCEPT ![p] = Nothing]
    /\ persisted' = [persisted EXCEPT ![p] = Nothing]
    /\ changed' = [changed EXCEPT ![p] = {}]
    /\ hyd' = [hyd EXCEPT ![p] = "cold"]
    /\ snap' = [snap EXCEPT ![p] = Nothing]
    /\ UNCHANGED <<store, now, released>>

(* Idle TTL or LRU eviction, once no request holds the instance.           *)
Evict(p) ==
    /\ \A r \in On(p) : st[r] = "idle"
    /\ ForgetMemory(p)
    /\ UNCHANGED <<requests, touches>>

(* The process dies: its requests and background writes die with it.       *)
Crash(p) ==
    /\ ForgetMemory(p)
    /\ st' = [r \in Req |-> IF InstOf[r] = p THEN "idle" ELSE st[r]]
    /\ kind' = [r \in Req |-> IF InstOf[r] = p THEN "none" ELSE kind[r]]
    /\ out' = [r \in Req |-> IF InstOf[r] = p THEN {} ELSE out[r]]
    /\ marks' = [r \in Req |-> IF InstOf[r] = p THEN {} ELSE marks[r]]
    /\ batch' = [r \in Req |-> IF InstOf[r] = p THEN Nothing ELSE batch[r]]
    /\ touches' = {t \in touches : t.inst # p}

-----------------------------------------------------------------------------
Call(r) == (\E k \in AllKinds : Redact(r, k)) \/ PrepareRestore(r)
Answer(r) == Append(r) \/ AppendFails(r) \/ LookedUp(r) \/ LookupFails(r)
Continue(r) == RedactBody(r) \/ RedactText(r) \/ Lookup(r) \/ Return(r)
               \/ Throw(r) \/ RestoreText(r)
Hydrate(p) == Loaded(p) \/ LoadFailed(p)

Next ==
    \/ \E r \in Req : Call(r) \/ Answer(r) \/ Continue(r) \/ Finish(r)
    \/ \E p \in Inst : Load(p) \/ Hydrate(p) \/ Evict(p) \/ Crash(p)
    \/ \E t \in touches : TouchLands(t) \/ TouchFails(t)
    \/ \E cutoff \in Time : Prune(cutoff)
    \/ \E v \in Value : Forget(v)
    \/ Tick

Spec == Init /\ [][Next]_vars

(* Store calls and promise reactions run eventually, whatever else the     *)
(* event loop does meanwhile; nobody is obliged to call, prune, evict or   *)
(* crash, and a store call may always fail instead of succeeding.          *)
Fairness ==
    /\ \A r \in Req : SF_vars(Answer(r) \/ Continue(r))
    /\ \A p \in Inst : WF_vars(hyd[p] = "cold" /\ Load(p)) /\ SF_vars(Hydrate(p))

FairSpec == Spec /\ Fairness

-----------------------------------------------------------------------------
(* Properties                                                              *)

InFlight(p, v) == \E r \in On(p) : v \in marks[r]

(* A token that a body redaction has returned can be read back from the    *)
(* store by any process (no retention): "redaction throws rather than hand *)
(* back tokens no other process could restore".                            *)
SavedBeforeReleased == \A v \in released : Stored(v)

(* What an instance believes persisted is in the store, so skipping its    *)
(* append is right (no retention).                                         *)
PersistedIsStored == \A p \in Inst, v \in Value : persisted[p][v] # "none" => Stored(v)

(* No append is skipped and no token handed out on a belief that is wrong   *)
(* (no retention).                                                         *)
SavedAsBelieved == PersistedIsStored /\ SavedBeforeReleased

(* No mapping is dropped between memory and store: each was persisted, or  *)
(* waits in `changed`, or is carried by a persist in flight, also after an *)
(* append that failed or overlapped another one, and under retention.      *)
NothingForgotten ==
    \A p \in Inst, v \in Value :
        Held(p, v) => persisted[p][v] # "none" \/ v \in changed[p] \/ InFlight(p, v)

(* After prepareRestore, the synchronous restore finds every token of the  *)
(* text that some process released before the call (no retention).         *)
PreparedRestores ==
    \A r \in Req : kind[r] = "restore" /\ st[r] \in {"prepared", "returned"}
        => \A v \in out[r] : Held(InstOf[r], v)

(* A value that an instance matches in new text is a match form in the     *)
(* store too, unless its save is still due: a restart keeps re-redacting   *)
(* what detectors miss ("a restart loses nothing").                        *)
MatchKept ==
    \A p \in Inst, v \in Value :
        mem[p][v] \in Matching /\ v \notin changed[p] /\ ~InFlight(p, v)
            => rows[v] \in Matching

(* Recorded last use never goes back while the entry lives, although       *)
(* background updates land late and in any order; prune relies on it.      *)
LastUseOnlyGrows ==
    [][\A v \in Value : Stored(v) /\ Stored(v)' => lastUsed'[v] >= lastUsed[v]]_vars

(* A redaction that decides it has nothing to append hands out only tokens *)
(* that are in the store at that moment.                                   *)
(* Refuted by TLC (README, refuted claims).                                *)
SkipsOnlyStored ==
    [][\A r \in Req : st[r] = "ready" /\ st'[r] = "returned"
         => \A v \in out'[r] : Stored(v)]_vars

(* Every call comes to an end: its promise resolves or rejects, whichever  *)
(* store calls fail and however requests share one hydration.              *)
Settled == {"idle", "returned", "threw"}
EveryCallEnds == \A r \in Req : st[r] \notin Settled ~> st[r] \in Settled

(* The engine keeps the contract of its callers.                           *)
Contract == INSTANCE VaultContract WITH saved <- {v \in Value : Stored(v)}
ContractSpec == Contract!Spec
=============================================================================
