------------------------- MODULE KeyedVault_proofs -------------------------
(***************************************************************************)
(* Theorems about KeyedVault for any number of instances, request slots    *)
(* and values, proved with TLAPS.                                          *)
(***************************************************************************)
EXTENDS KeyedVault, TLAPS

(* The bundles of variables that UNCHANGED is applied to.                  *)
USE DEF store, memory, requests

-----------------------------------------------------------------------------
(* Merging never unmaps, and it maps whatever either side maps.            *)
LEMMA MergeEntry ==
    ASSUME NEW held \in Entry, NEW row \in Entry
    PROVE  /\ Merge(held, row) \in Entry
           /\ Merge(held, row) # "none" <=> held # "none" \/ row # "none"
BY DEF Merge, Entry, Matching

LEMMA TouchesForType ==
    ASSUME TypeOK, NEW p \in Inst, NEW V \in SUBSET Value
    PROVE  /\ TouchesFor(p, V) \subseteq Touch
           /\ \A t \in TouchesFor(p, V) : t.at = now
BY ConstantsAssumption DEF TouchesFor, Touch, TypeOK

LEMMA ApplyType ==
    ASSUME TypeOK, NEW p \in Inst, NEW entries \in [Value -> Entry], Apply(p, entries)
    PROVE  mem' \in [Inst -> [Value -> Entry]] /\ persisted' \in [Inst -> [Value -> Entry]]
BY MergeEntry DEF Apply, TypeOK

(* What both redactions have in common: the table they leave maps what it  *)
(* mapped before and the candidates, no match form is lost, the text's     *)
(* tokens are all mapped, and a body names each of them as a candidate.    *)
Redaction(r, learned, found, candidates) ==
    /\ st[r] = "ready"
    /\ kind[r] \in {"body", "text"}
    /\ \A v \in Value : learned[v] # "none" <=> Held(InstOf[r], v) \/ v \in candidates
    /\ \A v \in Value : mem[InstOf[r]][v] \in Matching => learned[v] \in Matching
    /\ \A v \in found : learned[v] # "none"
    /\ kind[r] = "body" => found = candidates
    /\ Persist(r, learned, found, candidates)
    /\ UNCHANGED <<store, now, persisted, hyd, snap, kind>>

LEMMA RedactionStep ==
    ASSUME TypeOK, NEW r \in Req, RedactBody(r) \/ RedactText(r)
    PROVE  \E learned \in [Value -> Entry], found \in SUBSET Value, candidates \in SUBSET Value :
             Redaction(r, learned, found, candidates)
<1> DEFINE held == mem[InstOf[r]]
<1>1. held \in [Value -> Entry]  BY ConstantsAssumption DEF TypeOK
<1>2. CASE RedactBody(r)
  <2>1. PICK detected \in SUBSET Value, known \in SUBSET {v \in Value : held[v] = "match"},
             clipped \in SUBSET Value :
          Persist(r, [v \in Value |-> IF v \in detected \cup known
                        THEN BodyForm(held[v], v \in clipped) ELSE held[v]],
                  detected \cup known, detected \cup known)
    BY <1>2 DEF RedactBody
  <2> DEFINE found == detected \cup known
             learned == [v \in Value |-> IF v \in found
                           THEN BodyForm(held[v], v \in clipped) ELSE held[v]]
  <2>2. learned \in [Value -> Entry] /\ \A v \in found : learned[v] # "none"
    BY <1>1 DEF BodyForm, Entry, Matching
  <2>3. /\ \A v \in Value \ found : learned[v] = held[v]
        /\ \A v \in Value : held[v] \in Matching => learned[v] \in Matching
    BY DEF BodyForm, Matching
  <2>4. Persist(r, learned, found, found)  BY <2>1
  <2>5. found \in SUBSET Value  OBVIOUS
  <2>6. st[r] = "ready" /\ kind[r] = "body"
        /\ UNCHANGED <<store, now, persisted, hyd, snap, kind>>
    BY <1>2 DEF RedactBody
  <2> HIDE DEF learned, found
  <2>7. Redaction(r, learned, found, found)
    BY <2>2, <2>3, <2>4, <2>5, <2>6 DEF Redaction, Held
  <2> QED BY <2>2, <2>5, <2>7
<1>3. CASE RedactText(r)
  <2>1. PICK detected \in SUBSET Value, known \in SUBSET {v \in Value : held[v] \in Matching} :
          Persist(r, [v \in Value |-> IF v \in detected THEN TextForm(held[v]) ELSE held[v]],
                  detected \cup known, detected)
    BY <1>3 DEF RedactText
  <2> DEFINE found == detected \cup known
             learned == [v \in Value |-> IF v \in detected THEN TextForm(held[v]) ELSE held[v]]
  <2>2. learned \in [Value -> Entry] /\ \A v \in found : learned[v] # "none"
    BY <1>1 DEF TextForm, Entry, Matching
  <2>3. /\ \A v \in Value \ detected : learned[v] = held[v]
        /\ \A v \in detected : learned[v] # "none"
        /\ \A v \in Value : held[v] \in Matching => learned[v] \in Matching
    BY <1>1 DEF TextForm, Entry, Matching
  <2>4. Persist(r, learned, found, detected)  BY <2>1
  <2>5. found \in SUBSET Value  OBVIOUS
  <2>6. st[r] = "ready" /\ kind[r] = "text"
        /\ UNCHANGED <<store, now, persisted, hyd, snap, kind>>
    BY <1>3 DEF RedactText
  <2> HIDE DEF learned, found
  <2>7. Redaction(r, learned, found, detected)
    BY <2>2, <2>3, <2>4, <2>6 DEF Redaction, Held
  <2> QED BY <2>2, <2>5, <2>7
<1> QED BY <1>2, <1>3

LEMMA PersistType ==
    ASSUME TypeOK, NEW r \in Req, NEW learned \in [Value -> Entry],
           NEW found \in SUBSET Value, NEW candidates \in SUBSET Value,
           Persist(r, learned, found, candidates),
           UNCHANGED <<store, now, persisted, hyd, snap, kind>>
    PROVE  TypeOK'
<1> DEFINE p == InstOf[r]
           taken == Taken(p, learned, candidates)
           fresh == Fresh(p, learned, taken)
<1>1. p \in Inst  BY ConstantsAssumption
<1>2. taken \in SUBSET Value  BY <1>1 DEF Taken, TypeOK
<1>3. mem' \in [Inst -> [Value -> Entry]] /\ changed' \in [Inst -> SUBSET Value]
      /\ out' \in [Req -> SUBSET Value]
  BY <1>1 DEF Persist, TypeOK
<1>4. st' \in [Req -> Status] /\ marks' \in [Req -> SUBSET Value]
      /\ batch' \in [Req -> [Value -> Entry]] /\ touches' \subseteq Touch
      /\ released' \subseteq Value
  <2>1. CASE fresh # {}
    <3>1. /\ st' = [st EXCEPT ![r] = "appending"]
          /\ marks' = [marks EXCEPT ![r] = taken]
          /\ batch' = [batch EXCEPT ![r] =
                         [v \in Value |-> IF v \in fresh THEN learned[v] ELSE "none"]]
          /\ UNCHANGED <<touches, released>>
      BY <2>1 DEF Persist
    <3>2. [v \in Value |-> IF v \in fresh THEN learned[v] ELSE "none"] \in [Value -> Entry]
      BY DEF Entry
    <3> HIDE DEF taken, fresh
    <3> QED BY <1>2, <3>1, <3>2 DEF TypeOK, Status
  <2>2. CASE fresh = {}
    BY <1>1, <2>2, TouchesForType DEF Persist, TypeOK, Status
  <2> QED BY <2>1, <2>2
<1> QED BY <1>3, <1>4 DEF TypeOK

LEMMA ForgetMemoryType ==
    ASSUME TypeOK, NEW p \in Inst, ForgetMemory(p)
    PROVE  /\ rows' \in [Value -> Entry] /\ lastUsed' \in [Value -> Time]
           /\ now' \in Time /\ released' \subseteq Value
           /\ mem' \in [Inst -> [Value -> Entry]]
           /\ persisted' \in [Inst -> [Value -> Entry]]
           /\ changed' \in [Inst -> SUBSET Value]
           /\ hyd' \in [Inst -> {"cold", "loading", "warm"}]
           /\ snap' \in [Inst -> [Value -> Entry]]
BY DEF ForgetMemory, TypeOK, Nothing, Entry

-----------------------------------------------------------------------------
(* Every reachable state has the declared types: a call's status, the     *)
(* forms of each copy of a mapping, and what is in flight.                 *)

LEMMA InitType == Init => TypeOK
BY ConstantsAssumption DEF Init, TypeOK, Nothing, Entry, Time, Status, Touch

LEMMA CallType ==
    ASSUME TypeOK, NEW r \in Req, Call(r) \/ Finish(r)
    PROVE  TypeOK'
<1>1. Resume(InstOf[r]) \in Status  BY DEF Resume, Status
<1>2. ASSUME NEW k \in AllKinds, Redact(r, k)  PROVE TypeOK'
  BY <1>1, <1>2 DEF Redact, TypeOK
<1>3. CASE PrepareRestore(r)
  BY <1>1, <1>3 DEF PrepareRestore, TypeOK, AllKinds
<1>4. CASE Finish(r)
  BY <1>4 DEF Finish, TypeOK, Status
<1> QED BY <1>2, <1>3, <1>4 DEF Call

LEMMA HydrationType ==
    ASSUME TypeOK, NEW p \in Inst, Load(p) \/ Hydrate(p)
    PROVE  TypeOK'
<1>1. CASE Load(p)
  BY <1>1 DEF Load, TypeOK
<1>2. CASE Loaded(p)
  <2>1. snap[p] \in [Value -> Entry]  BY DEF TypeOK
  <2>2. Apply(p, snap[p])  BY <1>2 DEF Loaded
  <2>3. mem' \in [Inst -> [Value -> Entry]] /\ persisted' \in [Inst -> [Value -> Entry]]
    BY <2>1, <2>2, ApplyType
  <2> QED BY <1>2, <2>3 DEF Loaded, TypeOK, Status, Nothing, Entry
<1>3. CASE LoadFailed(p)
  BY <1>3 DEF LoadFailed, TypeOK, Status, Nothing, Entry
<1> QED BY <1>1, <1>2, <1>3 DEF Hydrate

LEMMA RedactionType ==
    ASSUME TypeOK, NEW r \in Req, RedactBody(r) \/ RedactText(r)
    PROVE  TypeOK'
<1>1. PICK learned \in [Value -> Entry], found \in SUBSET Value, candidates \in SUBSET Value :
        Redaction(r, learned, found, candidates)
  BY RedactionStep
<1> QED BY <1>1, PersistType DEF Redaction

LEMMA UpsertType ==
    ASSUME TypeOK, NEW r \in Req, Upsert(r)
    PROVE  rows' \in [Value -> Entry] /\ lastUsed' \in [Value -> Time]
<1>1. PICK at \in 0..now :
        lastUsed' = [v \in Value |-> IF batch[r][v] # "none" /\ at > lastUsed[v]
                                    THEN at ELSE lastUsed[v]]
  BY DEF Upsert
<1>2. at \in Time  BY ConstantsAssumption DEF Time, TypeOK
<1> QED BY <1>1, <1>2 DEF Upsert, TypeOK

LEMMA StoreCallType ==
    ASSUME TypeOK, NEW r \in Req,
           Append(r) \/ AppendFails(r) \/ Return(r) \/ Throw(r)
    PROVE  TypeOK'
<1>1. InstOf[r] \in Inst  BY ConstantsAssumption
<1>2. CASE Append(r)
  BY <1>2, UpsertType DEF Append, TypeOK, Status
<1>3. CASE AppendFails(r)
  <2>1. CASE Upsert(r)
    BY <1>3, <2>1, UpsertType DEF AppendFails, TypeOK, Status
  <2>2. CASE UNCHANGED store
    BY <1>3, <2>2 DEF AppendFails, TypeOK, Status
  <2> QED BY <1>3, <2>1, <2>2 DEF AppendFails
<1>4. CASE Return(r)
  <2>1. TouchesFor(InstOf[r], out[r] \ {v \in Value : batch[r][v] # "none"}) \subseteq Touch
    BY <1>1, TouchesForType DEF TypeOK
  <2>2. persisted' \in [Inst -> [Value -> Entry]] /\ touches' \subseteq Touch
        /\ released' \subseteq Value
    BY <1>1, <1>4, <2>1 DEF Return, TypeOK
  <2>3. st' \in [Req -> Status] /\ marks' \in [Req -> SUBSET Value]
        /\ batch' \in [Req -> [Value -> Entry]]
    BY <1>4 DEF Return, TypeOK, Status, Nothing, Entry
  <2> QED BY <1>4, <2>2, <2>3 DEF Return, TypeOK
<1>5. CASE Throw(r)
  BY <1>1, <1>5 DEF Throw, Requeue, TypeOK, Status, Nothing, Entry
<1> QED BY <1>2, <1>3, <1>4, <1>5

LEMMA RestoreType ==
    ASSUME TypeOK, NEW r \in Req,
           Lookup(r) \/ LookedUp(r) \/ LookupFails(r) \/ RestoreText(r)
    PROVE  TypeOK'
<1>1. InstOf[r] \in Inst  BY ConstantsAssumption
<1>2. CASE Lookup(r)
  BY <1>2 DEF Lookup, TypeOK, Status, Entry
<1>3. CASE LookedUp(r)
  <2>1. batch[r] \in [Value -> Entry] /\ Apply(InstOf[r], batch[r])
    BY <1>3 DEF LookedUp, TypeOK
  <2>2. mem' \in [Inst -> [Value -> Entry]] /\ persisted' \in [Inst -> [Value -> Entry]]
    BY <1>1, <2>1, ApplyType
  <2> QED BY <1>3, <2>2 DEF LookedUp, TypeOK, Status, Nothing, Entry
<1>4. CASE LookupFails(r)
  BY <1>4 DEF LookupFails, TypeOK, Status, Nothing, Entry
<1>5. CASE RestoreText(r)
  <2>1. TouchesFor(InstOf[r], {v \in out[r] : Held(InstOf[r], v)}) \subseteq Touch
    BY <1>1, TouchesForType DEF TypeOK
  <2> QED BY <1>5, <2>1 DEF RestoreText, TypeOK, Status
<1> QED BY <1>2, <1>3, <1>4, <1>5

LEMMA BackgroundType ==
    ASSUME TypeOK,
           \/ \E t \in touches : TouchLands(t) \/ TouchFails(t)
           \/ \E cutoff \in Time : Prune(cutoff)
           \/ \E v \in Value : Forget(v)
           \/ Tick
    PROVE  TypeOK'
<1>1. ASSUME NEW t \in touches, TouchLands(t)  PROVE TypeOK'
  BY <1>1 DEF TouchLands, Touch, TypeOK
<1>2. ASSUME NEW t \in touches, TouchFails(t)  PROVE TypeOK'
  BY <1>2 DEF TouchFails, TypeOK
<1>3. ASSUME NEW V \in SUBSET Value, Delete(V)  PROVE TypeOK'
  BY <1>3, ConstantsAssumption DEF Delete, TypeOK, Entry, Time
<1>4. CASE Tick
  BY <1>4, ConstantsAssumption DEF Tick, TypeOK, Time
<1> QED BY <1>1, <1>2, <1>3, <1>4 DEF Prune, Forget

LEMMA LossType ==
    ASSUME TypeOK, NEW p \in Inst, Evict(p) \/ Crash(p)
    PROVE  TypeOK'
<1>1. CASE Evict(p)
  BY <1>1, ForgetMemoryType DEF Evict, TypeOK
<1>2. CASE Crash(p)
  <2>1. ForgetMemory(p)  BY <1>2 DEF Crash
  <2>2. st' \in [Req -> Status] /\ kind' \in [Req -> AllKinds \cup {"none"}]
        /\ out' \in [Req -> SUBSET Value] /\ marks' \in [Req -> SUBSET Value]
        /\ batch' \in [Req -> [Value -> Entry]] /\ touches' \subseteq Touch
    BY <1>2 DEF Crash, TypeOK, Status, Nothing, Entry
  <2> QED BY <2>1, <2>2, ForgetMemoryType DEF TypeOK
<1> QED BY <1>1, <1>2

LEMMA StepType == TypeOK /\ [Next]_vars => TypeOK'
<1> SUFFICES ASSUME TypeOK, [Next]_vars  PROVE TypeOK'
  OBVIOUS
<1>1. ASSUME NEW r \in Req, Call(r) \/ Answer(r) \/ Continue(r) \/ Finish(r)
      PROVE  TypeOK'
  BY <1>1, CallType, RedactionType, StoreCallType, RestoreType DEF Answer, Continue
<1>2. ASSUME NEW p \in Inst, Load(p) \/ Hydrate(p) \/ Evict(p) \/ Crash(p)
      PROVE  TypeOK'
  BY <1>2, HydrationType, LossType
<1>3. CASE UNCHANGED vars
  BY <1>3 DEF vars, TypeOK
<1> QED BY <1>1, <1>2, <1>3, BackgroundType DEF Next

THEOREM TypeCorrect == Spec => []TypeOK
BY InitType, StepType, PTL DEF Spec

-----------------------------------------------------------------------------
(* The books of unsaved mappings.  A value leaves `changed` when a persist *)
(* takes it; from then on the persist's marks answer for it, so they must  *)
(* outlive nothing but the persist itself, and each marked value must be   *)
(* in the batch or already persisted: then whichever way the store call    *)
(* ends, the value is persisted or back in `changed`.                      *)

Saving == {"appending", "stored", "failed"}

MarksInFlight == \A r \in Req : marks[r] # {} => st[r] \in Saving
MarksCovered ==
    \A r \in Req : \A v \in marks[r] :
        /\ Held(InstOf[r], v)
        /\ batch[r][v] # "none" \/ persisted[InstOf[r]][v] # "none"
ChangedHeld == \A p \in Inst : \A v \in changed[p] : Held(p, v)
StampsPast ==
    /\ \A v \in Value : lastUsed[v] <= now
    /\ \A t \in touches : t.at <= now

Books ==
    /\ TypeOK
    /\ MarksInFlight
    /\ MarksCovered
    /\ ChangedHeld
    /\ NothingForgotten

-----------------------------------------------------------------------------
LEMMA InitBooks == Init => Books /\ StampsPast
BY InitType, ConstantsAssumption
   DEF Init, Books, StampsPast, MarksInFlight, MarksCovered, ChangedHeld,
       NothingForgotten, Held, Nothing

(* A step that only adds mappings together with their fingerprints, and    *)
(* leaves every persist in flight where it is, keeps the books.            *)
LEMMA CalmBooks ==
    ASSUME Books, TypeOK', UNCHANGED <<changed, marks>>,
           \A p \in Inst, v \in Value :
               /\ Held(p, v) => Held(p, v)'
               /\ Held(p, v)' => Held(p, v) \/ persisted'[p][v] # "none"
               /\ persisted[p][v] # "none" => persisted'[p][v] # "none",
           \A r \in Req : marks[r] # {} => batch'[r] = batch[r] /\ st'[r] \in Saving
    PROVE  Books'
<1>1. MarksInFlight'  BY DEF Books, MarksInFlight
<1>2. MarksCovered'
  <2> SUFFICES ASSUME NEW r \in Req, NEW v \in marks[r]
               PROVE  Held(InstOf[r], v)' /\ (batch'[r][v] # "none" \/ persisted'[InstOf[r]][v] # "none")
    BY DEF MarksCovered
  <2>1. v \in Value /\ InstOf[r] \in Inst /\ batch'[r] = batch[r]
    BY ConstantsAssumption DEF Books, TypeOK
  <2> QED BY <2>1 DEF Books, MarksCovered
<1>3. ChangedHeld'  BY DEF Books, ChangedHeld, TypeOK
<1>4. NothingForgotten'
  BY DEF Books, NothingForgotten, InFlight
<1> QED BY <1>1, <1>2, <1>3, <1>4 DEF Books

LEMMA ApplyGrows ==
    ASSUME TypeOK, NEW q \in Inst, NEW entries \in [Value -> Entry], Apply(q, entries)
    PROVE  \A p \in Inst, v \in Value :
               /\ Held(p, v) => Held(p, v)'
               /\ Held(p, v)' => Held(p, v) \/ persisted'[p][v] # "none"
               /\ persisted[p][v] # "none" => persisted'[p][v] # "none"
<1> SUFFICES ASSUME NEW p \in Inst, NEW v \in Value
             PROVE  /\ Held(p, v) => Held(p, v)'
                    /\ Held(p, v)' => Held(p, v) \/ persisted'[p][v] # "none"
                    /\ persisted[p][v] # "none" => persisted'[p][v] # "none"
  OBVIOUS
<1>1. CASE p = q
  <2>1. mem'[p][v] = Merge(mem[p][v], entries[v])
    BY <1>1 DEF Apply, TypeOK
  <2>2. persisted'[p][v] = IF entries[v] # "none" THEN entries[v] ELSE persisted[p][v]
    BY <1>1 DEF Apply, TypeOK
  <2>3. mem[p][v] \in Entry /\ entries[v] \in Entry  BY DEF TypeOK
  <2> QED BY <2>1, <2>2, <2>3, MergeEntry DEF Held
<1>2. CASE p # q
  BY <1>2 DEF Apply, TypeOK, Held
<1> QED BY <1>1, <1>2

LEMMA CallBooks ==
    ASSUME Books, TypeOK', NEW r \in Req, Call(r) \/ Finish(r)
    PROVE  Books'
<1>1. UNCHANGED <<mem, persisted, changed, marks, batch>>
  BY DEF Call, Redact, PrepareRestore, Finish
<1>2. st[r] \notin Saving /\ \A q \in Req \ {r} : st'[q] = st[q]
  BY DEF Call, Redact, PrepareRestore, Finish, Saving, Books, TypeOK
<1>3. \A q \in Req : marks[q] # {} => st'[q] \in Saving
  BY <1>2 DEF Books, MarksInFlight
<1> QED BY <1>1, <1>3, CalmBooks DEF Held

LEMMA HydrationBooks ==
    ASSUME Books, TypeOK', NEW p \in Inst, Load(p) \/ Hydrate(p)
    PROVE  Books'
<1>1. UNCHANGED <<changed, marks, batch>>
  BY DEF Load, Hydrate, Loaded, LoadFailed
<1>2. \A q \in Req : marks[q] # {} => st'[q] \in Saving
  BY DEF Load, Hydrate, Loaded, LoadFailed, Books, MarksInFlight, Saving
<1>3. CASE Loaded(p)
  <2>1. Apply(p, snap[p]) /\ snap[p] \in [Value -> Entry]
    BY <1>3 DEF Loaded, Books, TypeOK
  <2> HIDE DEF Apply
  <2> QED BY <1>1, <1>2, <2>1, ApplyGrows, CalmBooks DEF Books
<1>4. CASE Load(p) \/ LoadFailed(p)
  <2>1. UNCHANGED <<mem, persisted>>  BY <1>4 DEF Load, LoadFailed
  <2> QED BY <1>1, <1>2, <2>1, CalmBooks DEF Held
<1> QED BY <1>3, <1>4 DEF Hydrate

(* A persist marks every value it takes, so none of them is lost when it   *)
(* empties `changed`; a marked value it does not append is persisted.      *)
LEMMA RedactionBooks ==
    ASSUME Books, TypeOK', NEW r \in Req, RedactBody(r) \/ RedactText(r)
    PROVE  Books'
<1>1. PICK learned \in [Value -> Entry], found \in SUBSET Value, candidates \in SUBSET Value :
        Redaction(r, learned, found, candidates)
  BY RedactionStep DEF Books
<1> DEFINE p == InstOf[r]
           taken == Taken(p, learned, candidates)
           fresh == Fresh(p, learned, taken)
<1>2. /\ p \in Inst /\ mem[p] \in [Value -> Entry] /\ persisted[p] \in [Value -> Entry]
      /\ changed[p] \subseteq Value /\ fresh \subseteq taken
  BY ConstantsAssumption DEF Books, TypeOK, Fresh
<1>3. /\ mem' = [mem EXCEPT ![p] = learned]
      /\ changed' = [changed EXCEPT ![p] = {}]
      /\ persisted' = persisted
  BY <1>1 DEF Redaction, Persist
<1>4. \A v \in taken : learned[v] # "none"
  BY <1>1, <1>2 DEF Taken, Registers, Redaction, Books, ChangedHeld, Held, Matching
<1>5. \A v \in taken \ fresh : persisted[p][v] # "none"
  BY <1>4, <1>2 DEF Fresh, Taken
<1>6. \A v \in Value : learned[v] # "none" /\ ~Held(p, v) => v \in taken
  BY <1>1, <1>2 DEF Taken, Registers, Held
<1>7. \A v \in Value : Held(p, v) => learned[v] # "none"
  BY <1>1 DEF Redaction
<1>8. \A q \in Inst, v \in Value :
         /\ Held(q, v) => Held(q, v)'
         /\ q # p => Held(q, v)' = Held(q, v) /\ changed'[q] = changed[q]
         /\ q = p => Held(q, v)' = (learned[v] # "none") /\ changed'[q] = {}
  BY <1>2, <1>3, <1>7 DEF Books, TypeOK, Held
<1>9. changed[p] \subseteq taken  BY DEF Taken
<1>10. CASE fresh # {}
  <2>1. /\ st' = [st EXCEPT ![r] = "appending"]
        /\ marks' = [marks EXCEPT ![r] = taken]
        /\ batch' = [batch EXCEPT ![r] =
                       [v \in Value |-> IF v \in fresh THEN learned[v] ELSE "none"]]
    BY <1>1, <1>10 DEF Redaction, Persist
  <2>2. taken \subseteq Value  BY <1>1, <1>2 DEF Taken
  <2>3. marks[r] = {}  BY <1>1 DEF Redaction, Books, MarksInFlight, Saving
  <2> HIDE DEF taken, fresh
  <2>4. MarksInFlight'
    BY <2>1 DEF Books, MarksInFlight, Saving, TypeOK
  <2>5. MarksCovered'
    <3> SUFFICES ASSUME NEW q \in Req, NEW v \in marks'[q]
                 PROVE  Held(InstOf[q], v)' /\ (batch'[q][v] # "none" \/ persisted'[InstOf[q]][v] # "none")
      BY DEF MarksCovered
    <3>1. CASE q = r
      BY <1>2, <1>3, <1>4, <1>5, <1>8, <2>1, <2>2, <3>1 DEF Books, TypeOK
    <3>2. CASE q # r
      <4>1. v \in marks[q] /\ batch'[q] = batch[q] /\ v \in Value /\ InstOf[q] \in Inst
        BY <2>1, <3>2, ConstantsAssumption DEF Books, TypeOK
      <4> QED BY <1>3, <1>8, <4>1 DEF Books, MarksCovered
    <3> QED BY <3>1, <3>2
  <2>6. ChangedHeld'
    BY <1>8 DEF Books, ChangedHeld, TypeOK
  <2>7. NothingForgotten'
    <3> SUFFICES ASSUME NEW q \in Inst, NEW v \in Value, Held(q, v)'
                 PROVE  persisted'[q][v] # "none" \/ v \in changed'[q] \/ InFlight(q, v)'
      BY DEF NothingForgotten
    <3>1. v \in taken /\ q = p => InFlight(q, v)'
      BY <2>1 DEF InFlight, On, Books, TypeOK
    <3>2. InFlight(q, v) => InFlight(q, v)'
      BY <2>1, <2>3 DEF InFlight, On, Books, TypeOK
    <3> QED BY <1>3, <1>6, <1>8, <1>9, <3>1, <3>2 DEF Books, NothingForgotten
  <2> QED BY <2>4, <2>5, <2>6, <2>7 DEF Books
<1>11. CASE fresh = {}
  <2>1. st' = [st EXCEPT ![r] = "returned"] /\ UNCHANGED <<marks, batch>>
    BY <1>1, <1>11 DEF Redaction, Persist
  <2>2. marks[r] = {}  BY <1>1 DEF Redaction, Books, MarksInFlight, Saving
  <2>3. \A v \in taken : persisted[p][v] # "none"  BY <1>5, <1>11
  <2> HIDE DEF taken, fresh
  <2>4. MarksInFlight'
    BY <2>1, <2>2 DEF Books, MarksInFlight, TypeOK
  <2>5. MarksCovered'
    BY <1>3, <1>8, <2>1, ConstantsAssumption DEF Books, MarksCovered, TypeOK
  <2>6. ChangedHeld'
    BY <1>8 DEF Books, ChangedHeld, TypeOK
  <2>7. NothingForgotten'
    BY <1>3, <1>6, <1>8, <1>9, <2>1, <2>3 DEF Books, NothingForgotten, InFlight
  <2> QED BY <2>4, <2>5, <2>6, <2>7 DEF Books
<1> QED BY <1>10, <1>11

(* However the append ends, the values it carried are accounted for: saved *)
(* ones by their fingerprints, unsaved ones back in `changed`.             *)
LEMMA StoreCallBooks ==
    ASSUME Books, TypeOK', NEW r \in Req,
           Append(r) \/ AppendFails(r) \/ Return(r) \/ Throw(r)
    PROVE  Books'
<1> DEFINE p == InstOf[r]
<1>1. p \in Inst  BY ConstantsAssumption
<1>2. CASE Append(r) \/ AppendFails(r)
  <2>1. UNCHANGED <<mem, persisted, changed, marks, batch>>
    BY <1>2 DEF Append, AppendFails
  <2>2. \A q \in Req : marks[q] # {} => st'[q] \in Saving
    BY <1>2 DEF Append, AppendFails, Books, MarksInFlight, Saving, TypeOK
  <2> QED BY <2>1, <2>2, CalmBooks DEF Held
<1>3. CASE Return(r)
  <2>1. /\ persisted' = [persisted EXCEPT ![p] = [v \in Value |->
                           IF batch[r][v] # "none" THEN batch[r][v] ELSE persisted[p][v]]]
        /\ st' = [st EXCEPT ![r] = "returned"]
        /\ marks' = [marks EXCEPT ![r] = {}]
        /\ batch' = [batch EXCEPT ![r] = Nothing]
        /\ UNCHANGED <<mem, changed>>
    BY <1>3 DEF Return
  <2>2. \A q \in Inst, v \in Value : persisted[q][v] # "none" => persisted'[q][v] # "none"
    BY <1>1, <2>1 DEF Books, TypeOK
  <2>3. \A v \in marks[r] : persisted'[p][v] # "none"
    BY <1>1, <2>1 DEF Books, TypeOK, MarksCovered
  <2>4. MarksInFlight'
    BY <2>1 DEF Books, MarksInFlight, TypeOK
  <2>5. MarksCovered'
    BY <2>1, <2>2, ConstantsAssumption DEF Books, MarksCovered, TypeOK, Held
  <2>6. ChangedHeld'
    BY <2>1 DEF Books, ChangedHeld, Held
  <2>7. NothingForgotten'
    <3> SUFFICES ASSUME NEW q \in Inst, NEW v \in Value, Held(q, v)'
                 PROVE  persisted'[q][v] # "none" \/ v \in changed'[q] \/ InFlight(q, v)'
      BY DEF NothingForgotten
    <3>1. Held(q, v)  BY <2>1 DEF Held
    <3>2. InFlight(q, v) => InFlight(q, v)' \/ persisted'[q][v] # "none"
      BY <2>1, <2>3 DEF InFlight, On, Books, TypeOK
    <3> QED BY <2>1, <2>2, <3>1, <3>2 DEF Books, NothingForgotten
  <2> QED BY <2>4, <2>5, <2>6, <2>7 DEF Books
<1>4. CASE Throw(r)
  <2>1. /\ changed' = [changed EXCEPT ![p] = @ \cup marks[r]]
        /\ st' = [st EXCEPT ![r] = "threw"]
        /\ marks' = [marks EXCEPT ![r] = {}]
        /\ batch' = [batch EXCEPT ![r] = Nothing]
        /\ UNCHANGED <<mem, persisted>>
    BY <1>4 DEF Throw, Requeue
  <2>2. MarksInFlight'
    BY <2>1 DEF Books, MarksInFlight, TypeOK
  <2>3. MarksCovered'
    BY <2>1 DEF Books, MarksCovered, TypeOK, Held
  <2>4. ChangedHeld'
    BY <1>1, <2>1 DEF Books, ChangedHeld, MarksCovered, TypeOK, Held
  <2>5. NothingForgotten'
    <3> SUFFICES ASSUME NEW q \in Inst, NEW v \in Value, Held(q, v)'
                 PROVE  persisted'[q][v] # "none" \/ v \in changed'[q] \/ InFlight(q, v)'
      BY DEF NothingForgotten
    <3>1. InFlight(q, v) => InFlight(q, v)' \/ v \in changed'[q]
      BY <1>1, <2>1 DEF InFlight, On, Books, TypeOK
    <3>2. v \in changed[q] => v \in changed'[q]
      BY <1>1, <2>1 DEF Books, TypeOK
    <3> QED BY <2>1, <3>1, <3>2 DEF Books, NothingForgotten, Held
  <2> QED BY <2>2, <2>3, <2>4, <2>5 DEF Books
<1> QED BY <1>2, <1>3, <1>4

LEMMA RestoreBooks ==
    ASSUME Books, TypeOK', NEW r \in Req,
           Lookup(r) \/ LookedUp(r) \/ LookupFails(r) \/ RestoreText(r)
    PROVE  Books'
<1>1. /\ UNCHANGED <<changed, marks>>
      /\ st[r] \notin Saving
      /\ \A q \in Req \ {r} : st'[q] = st[q] /\ batch'[q] = batch[q]
  BY DEF Lookup, LookedUp, LookupFails, RestoreText, Saving, Books, TypeOK
<1>2. \A q \in Req : marks[q] # {} => batch'[q] = batch[q] /\ st'[q] \in Saving
  BY <1>1 DEF Books, MarksInFlight
<1>3. CASE LookedUp(r)
  <2>1. Apply(InstOf[r], batch[r]) /\ batch[r] \in [Value -> Entry] /\ InstOf[r] \in Inst
    BY <1>3, ConstantsAssumption DEF LookedUp, Books, TypeOK
  <2> HIDE DEF Apply
  <2> QED BY <1>1, <1>2, <2>1, ApplyGrows, CalmBooks DEF Books
<1>4. CASE Lookup(r) \/ LookupFails(r) \/ RestoreText(r)
  <2>1. UNCHANGED <<mem, persisted>>
    BY <1>4 DEF Lookup, LookupFails, RestoreText
  <2> QED BY <1>1, <1>2, <2>1, CalmBooks DEF Held
<1> QED BY <1>3, <1>4

LEMMA BackgroundBooks ==
    ASSUME Books, TypeOK',
           \/ \E t \in touches : TouchLands(t) \/ TouchFails(t)
           \/ \E cutoff \in Time : Prune(cutoff)
           \/ \E v \in Value : Forget(v)
           \/ Tick
           \/ UNCHANGED vars
    PROVE  Books'
<1>1. UNCHANGED <<mem, persisted, changed, marks, batch, st>>
  BY DEF TouchLands, TouchFails, Prune, Forget, Delete, Tick, vars
<1>2. \A q \in Req : marks[q] # {} => st'[q] \in Saving
  BY <1>1 DEF Books, MarksInFlight
<1> QED BY <1>1, <1>2, CalmBooks DEF Held

(* Memory goes only with the requests that use it.                         *)
LEMMA LossBooks ==
    ASSUME Books, TypeOK', NEW p \in Inst, Evict(p) \/ Crash(p)
    PROVE  Books'
<1>1. /\ mem' = [mem EXCEPT ![p] = Nothing]
      /\ persisted' = [persisted EXCEPT ![p] = Nothing]
      /\ changed' = [changed EXCEPT ![p] = {}]
  BY DEF Evict, Crash, ForgetMemory
<1>2. /\ \A r \in On(p) : marks'[r] = {}
      /\ \A r \in Req \ On(p) : marks'[r] = marks[r] /\ batch'[r] = batch[r] /\ st'[r] = st[r]
  <2>1. CASE Evict(p)
    BY <2>1 DEF Evict, On, Books, MarksInFlight, Saving
  <2>2. CASE Crash(p)
    BY <2>2 DEF Crash, On
  <2> QED BY <2>1, <2>2
<1>3. \A v \in Value : ~Held(p, v)'
  BY <1>1 DEF Books, TypeOK, Held, Nothing
<1>4. \A q \in Inst \ {p} : mem'[q] = mem[q] /\ persisted'[q] = persisted[q] /\ changed'[q] = changed[q]
  BY <1>1 DEF Books, TypeOK
<1>5. MarksInFlight'
  BY <1>2 DEF Books, MarksInFlight
<1>6. MarksCovered'
  BY <1>2, <1>4, ConstantsAssumption DEF Books, MarksCovered, Held, On
<1>7. ChangedHeld'
  BY <1>1, <1>4 DEF Books, ChangedHeld, Held, TypeOK
<1>8. NothingForgotten'
  BY <1>2, <1>3, <1>4 DEF Books, NothingForgotten, InFlight, Held, On
<1> QED BY <1>5, <1>6, <1>7, <1>8 DEF Books

LEMMA StepBooks == Books /\ [Next]_vars => Books'
<1> SUFFICES ASSUME Books, [Next]_vars  PROVE Books'
  OBVIOUS
<1>1. TypeOK'  BY StepType DEF Books
<1>2. ASSUME NEW r \in Req, Call(r) \/ Answer(r) \/ Continue(r) \/ Finish(r)
      PROVE  Books'
  BY <1>1, <1>2, CallBooks, RedactionBooks, StoreCallBooks, RestoreBooks DEF Answer, Continue
<1>3. ASSUME NEW p \in Inst, Load(p) \/ Hydrate(p) \/ Evict(p) \/ Crash(p)
      PROVE  Books'
  BY <1>1, <1>3, HydrationBooks, LossBooks
<1> QED BY <1>1, <1>2, <1>3, BackgroundBooks DEF Next

(* No mapping is dropped between memory and store, whatever the store      *)
(* answers, retention removes or processes crash (KeyedVaultScope.persist).*)
THEOREM NoMappingForgotten == Spec => []NothingForgotten
<1>1. Books => NothingForgotten  BY DEF Books
<1> QED BY <1>1, InitBooks, StepBooks, PTL DEF Spec

-----------------------------------------------------------------------------
(* Last-use stamps.  Neither an append nor an update lowers a stamp or puts *)
(* one in the future; a new row starts at 0, the bottom of the clock.      *)

LEMMA StepStamps ==
    ASSUME TypeOK, StampsPast, [Next]_vars
    PROVE  StampsPast' /\ \A v \in Value : Stored(v) /\ Stored(v)' => lastUsed'[v] >= lastUsed[v]
<1>0. now \in Nat /\ now' \in Nat /\ \A v \in Value : lastUsed[v] \in Nat
  BY StepType, ConstantsAssumption DEF TypeOK, Time
<1> DEFINE Goal == StampsPast' /\ \A v \in Value :
                     Stored(v) /\ Stored(v)' => lastUsed'[v] >= lastUsed[v]
<1>1. ASSUME UNCHANGED <<lastUsed, now>>, touches' \subseteq touches  PROVE Goal
  BY <1>0, <1>1 DEF StampsPast
<1>2. ASSUME NEW p \in Inst, NEW V \in SUBSET Value, UNCHANGED <<lastUsed, now>>,
             touches' = touches \cup TouchesFor(p, V)
      PROVE  Goal
  BY <1>0, <1>2, TouchesForType DEF StampsPast
<1>3. ASSUME NEW r \in Req, Call(r) \/ Finish(r)  PROVE Goal
  BY <1>1, <1>3 DEF Call, Redact, PrepareRestore, Finish
<1>4. ASSUME NEW r \in Req, RedactBody(r) \/ RedactText(r)  PROVE Goal
  <2>1. PICK learned \in [Value -> Entry], found \in SUBSET Value, candidates \in SUBSET Value :
          Redaction(r, learned, found, candidates)
    BY <1>4, RedactionStep
  <2>2. /\ UNCHANGED <<lastUsed, now>>
        /\ touches' = touches \/ touches' = touches \cup TouchesFor(InstOf[r], found)
    BY <2>1 DEF Redaction, Persist
  <2> HIDE DEF Goal
  <2> QED BY <1>1, <1>2, <2>2, ConstantsAssumption
<1>5. ASSUME NEW r \in Req, Append(r) \/ AppendFails(r)  PROVE Goal
  <2>1. UNCHANGED <<now, touches>> /\ (Upsert(r) \/ UNCHANGED lastUsed)
    BY <1>5 DEF Append, AppendFails
  <2>2. CASE Upsert(r)
    BY <1>0, <2>1, <2>2 DEF Upsert, StampsPast, TypeOK
  <2>3. CASE UNCHANGED lastUsed
    BY <1>1, <2>1, <2>3
  <2> QED BY <2>1, <2>2, <2>3
<1>6. ASSUME NEW r \in Req, Return(r) \/ Throw(r) \/ Lookup(r) \/ LookedUp(r)
                              \/ LookupFails(r) \/ RestoreText(r)
      PROVE  Goal
  <2>1. /\ UNCHANGED <<lastUsed, now>>
        /\ \/ touches' = touches
           \/ touches' = touches \cup TouchesFor(InstOf[r], out[r] \ {v \in Value : batch[r][v] # "none"})
           \/ touches' = touches \cup TouchesFor(InstOf[r], {v \in out[r] : Held(InstOf[r], v)})
    BY <1>6 DEF Return, Throw, Lookup, LookedUp, LookupFails, RestoreText
  <2>2. /\ out[r] \ {v \in Value : batch[r][v] # "none"} \in SUBSET Value
        /\ {v \in out[r] : Held(InstOf[r], v)} \in SUBSET Value
        /\ InstOf[r] \in Inst
    BY ConstantsAssumption DEF TypeOK
  <2> HIDE DEF Goal
  <2> QED BY <1>1, <1>2, <2>1, <2>2
<1>7. ASSUME NEW p \in Inst, Load(p) \/ Hydrate(p) \/ Evict(p) \/ Crash(p)  PROVE Goal
  <2>1. UNCHANGED <<lastUsed, now>> /\ touches' \subseteq touches
    BY <1>7 DEF Load, Hydrate, Loaded, LoadFailed, Evict, Crash, ForgetMemory
  <2> QED BY <1>1, <2>1
<1>8. ASSUME NEW t \in touches, TouchLands(t)  PROVE Goal
  <2>1. t.value \in Value /\ t.at \in Nat /\ t.at <= now
    BY <1>8, ConstantsAssumption DEF TypeOK, Touch, Time, StampsPast
  <2>2. /\ lastUsed' = [lastUsed EXCEPT ![t.value] =
                          IF Stored(t.value) /\ t.at > @ THEN t.at ELSE @]
        /\ UNCHANGED now /\ touches' \subseteq touches
    BY <1>8 DEF TouchLands
  <2>3. \A v \in Value : lastUsed'[v] >= lastUsed[v] /\ lastUsed'[v] <= now
    BY <1>0, <2>1, <2>2 DEF TypeOK, StampsPast
  <2> QED BY <2>2, <2>3 DEF StampsPast
<1>9. ASSUME NEW t \in touches, TouchFails(t)  PROVE Goal
  BY <1>1, <1>9 DEF TouchFails
<1>10. ASSUME NEW V \in SUBSET Value, Delete(V)  PROVE Goal
  BY <1>0, <1>10 DEF Delete, StampsPast, Stored, TypeOK
<1>11. ASSUME Tick  PROVE Goal
  BY <1>0, <1>11 DEF Tick, StampsPast, TypeOK, Touch, Time
<1>12. ASSUME UNCHANGED vars  PROVE Goal
  BY <1>1, <1>12 DEF vars
<1> HIDE DEF Goal
<1>13. ASSUME NEW r \in Req, Call(r) \/ Answer(r) \/ Continue(r) \/ Finish(r)  PROVE Goal
  BY <1>3, <1>4, <1>5, <1>6, <1>13 DEF Answer, Continue
<1>14. ASSUME (\E cutoff \in Time : Prune(cutoff)) \/ (\E v \in Value : Forget(v))
       PROVE  Goal
  <2>1. ASSUME NEW cutoff \in Time, Prune(cutoff)  PROVE Goal
    <3>1. {v \in Value : Stored(v) /\ lastUsed[v] < cutoff} \in SUBSET Value
      OBVIOUS
    <3> QED BY <1>10, <2>1, <3>1 DEF Prune
  <2>2. ASSUME NEW v \in Value, Forget(v)  PROVE Goal
    BY <1>10, <2>2 DEF Forget
  <2> QED BY <1>14, <2>1, <2>2
<1>15. Goal
  BY <1>7, <1>8, <1>9, <1>11, <1>12, <1>13, <1>14 DEF Next
<1> QED BY <1>15 DEF Goal

(* The last use recorded for a live entry never goes back (sqlite.ts touch *)
(* and upsert), so a prune never takes an entry for older than it is.      *)
THEOREM LastUseMonotonic == Spec => LastUseOnlyGrows
<1>1. Init => TypeOK /\ StampsPast  BY InitType, InitBooks
<1>2. TypeOK /\ StampsPast /\ [Next]_vars => TypeOK' /\ StampsPast'
  BY StepType, StepStamps
<1>3. TypeOK /\ StampsPast /\ [Next]_vars
        => [\A v \in Value : Stored(v) /\ Stored(v)' => lastUsed'[v] >= lastUsed[v]]_vars
  BY StepStamps
<1> QED BY <1>1, <1>2, <1>3, PTL DEF Spec, LastUseOnlyGrows

-----------------------------------------------------------------------------
(* The saved side, when nothing is pruned or forgotten.  Every copy of an  *)
(* entry on its way into memory (a load's snapshot, a store answer, a      *)
(* fingerprint) is backed by a row; a saving body redaction carries all of *)
(* its tokens in its marks; a restore asks only for released tokens.       *)

RequestSound(r) ==
    /\ st[r] \in Saving => kind[r] \in {"body", "text"}
    /\ st[r] \in {"looking", "prepared"} => kind[r] = "restore"
    /\ \A v \in Value : batch[r][v] # "none" => st[r] \in Saving \cup {"looking"}
    /\ \A v \in Value : st[r] \in {"stored", "looking"} /\ batch[r][v] # "none" => Stored(v)
    /\ st[r] \in Saving /\ kind[r] = "body" => out[r] \subseteq marks[r]
    /\ kind[r] = "restore" => out[r] \subseteq released
    /\ st[r] = "looking" => \A v \in out[r] : Held(InstOf[r], v) \/ batch[r][v] # "none"
    /\ kind[r] = "restore" /\ st[r] \in {"prepared", "returned"}
          => \A v \in out[r] : Held(InstOf[r], v)

SnapStored == \A p \in Inst, v \in Value : snap[p][v] # "none" => Stored(v)

Durable ==
    /\ Books
    /\ \A r \in Req : RequestSound(r)
    /\ SnapStored
    /\ PersistedIsStored
    /\ SavedBeforeReleased

LEMMA InitDurable == Init => Durable
BY InitBooks, ConstantsAssumption
   DEF Init, Durable, RequestSound, Saving, SnapStored, PersistedIsStored,
       SavedBeforeReleased, Nothing

(* What the environment of a request may see change.                       *)
RowsGrow == \A v \in Value : Stored(v) => Stored(v)'
ReleasesGrow == released \subseteq released'

LEMMA Undisturbed ==
    ASSUME TypeOK, NEW r \in Req, RequestSound(r), RowsGrow, ReleasesGrow,
           st'[r] = st[r], kind'[r] = kind[r], out'[r] = out[r],
           marks'[r] = marks[r], batch'[r] = batch[r],
           \A v \in Value : Held(InstOf[r], v) => Held(InstOf[r], v)'
    PROVE  RequestSound(r)'
<1>1. out[r] \subseteq Value  BY DEF TypeOK
<1> QED BY <1>1 DEF RequestSound, RowsGrow, ReleasesGrow

(* A step either saves or releases; what it releases is saved.             *)
LEMMA StepSaves ==
    ASSUME ~Retention, Durable, [Next]_vars
    PROVE  /\ RowsGrow
           /\ ReleasesGrow
           /\ \/ released' = released
              \/ rows' = rows /\ \A v \in released' : Stored(v)
<1> DEFINE Goal == /\ RowsGrow
                   /\ ReleasesGrow
                   /\ \/ released' = released
                      \/ rows' = rows /\ \A v \in released' : Stored(v)
<1>1. ASSUME UNCHANGED <<rows, released>>  PROVE Goal
  BY <1>1 DEF RowsGrow, ReleasesGrow, Stored
<1>2. ASSUME NEW r \in Req, RedactBody(r) \/ RedactText(r)  PROVE Goal
  <2>1. PICK learned \in [Value -> Entry], found \in SUBSET Value, candidates \in SUBSET Value :
          Redaction(r, learned, found, candidates)
    BY <1>2, RedactionStep DEF Durable, Books
  <2>2. UNCHANGED rows  BY <2>1 DEF Redaction
  <2>3. CASE kind[r] # "body" \/ Fresh(InstOf[r], learned, Taken(InstOf[r], learned, candidates)) # {}
    BY <1>1, <2>1, <2>2, <2>3 DEF Redaction, Persist
  <2>4. CASE kind[r] = "body" /\ Fresh(InstOf[r], learned, Taken(InstOf[r], learned, candidates)) = {}
    <3>1. released' = released \cup found
      BY <2>1, <2>4 DEF Redaction, Persist
    <3>2. \A v \in found : persisted[InstOf[r]][v] # "none"
      BY <2>1, <2>4 DEF Redaction, Fresh, Taken
    <3>3. \A v \in found : Stored(v)
      BY <3>2, ConstantsAssumption DEF Durable, PersistedIsStored
    <3> QED BY <2>2, <3>1, <3>3 DEF RowsGrow, ReleasesGrow, Stored, Durable, SavedBeforeReleased
  <2> QED BY <2>3, <2>4
<1>3. ASSUME NEW r \in Req, Append(r) \/ AppendFails(r)  PROVE Goal
  <2>1. UNCHANGED released /\ (Upsert(r) \/ UNCHANGED rows)
    BY <1>3 DEF Append, AppendFails
  <2>2. CASE Upsert(r)
    BY <2>1, <2>2 DEF Upsert, RowsGrow, ReleasesGrow, Stored
  <2> QED BY <1>1, <2>1, <2>2
<1>4. ASSUME NEW r \in Req, Return(r)  PROVE Goal
  <2>1. /\ UNCHANGED rows
        /\ released' = IF kind[r] = "body" THEN released \cup out[r] ELSE released
        /\ st[r] = "stored"
    BY <1>4 DEF Return
  <2>2. ASSUME kind[r] = "body", NEW v \in out[r]  PROVE Stored(v)
    <3>1. v \in marks[r] /\ v \in Value
      BY <2>1, <2>2 DEF Durable, Books, TypeOK, RequestSound, Saving
    <3>2. batch[r][v] # "none" \/ persisted[InstOf[r]][v] # "none"
      BY <3>1 DEF Durable, Books, MarksCovered
    <3> QED BY <2>1, <3>1, <3>2, ConstantsAssumption DEF Durable, RequestSound, PersistedIsStored
  <2> QED BY <2>1, <2>2 DEF RowsGrow, ReleasesGrow, Stored, Durable, SavedBeforeReleased
<1>5. ASSUME NEW r \in Req, Call(r) \/ Finish(r) \/ Throw(r) \/ Lookup(r) \/ LookedUp(r)
                             \/ LookupFails(r) \/ RestoreText(r)
      PROVE  Goal
  BY <1>1, <1>5 DEF Call, Redact, PrepareRestore, Finish, Throw, Lookup, LookedUp,
                    LookupFails, RestoreText
<1>6. ASSUME NEW p \in Inst, Load(p) \/ Hydrate(p) \/ Evict(p) \/ Crash(p)  PROVE Goal
  BY <1>1, <1>6 DEF Load, Hydrate, Loaded, LoadFailed, Evict, Crash, ForgetMemory
<1>7. ASSUME NEW t \in touches, TouchLands(t) \/ TouchFails(t)  PROVE Goal
  BY <1>1, <1>7 DEF TouchLands, TouchFails
<1>8. ASSUME Tick \/ UNCHANGED vars  PROVE Goal
  BY <1>1, <1>8 DEF Tick, vars
<1>9. (\A cutoff \in Time : ~Prune(cutoff)) /\ (\A v \in Value : ~Forget(v))
  BY DEF Prune, Forget
<1> HIDE DEF Goal
<1>10. ASSUME NEW r \in Req, Call(r) \/ Answer(r) \/ Continue(r) \/ Finish(r)  PROVE Goal
  BY <1>2, <1>3, <1>4, <1>5, <1>10 DEF Answer, Continue
<1>11. Goal
  BY <1>6, <1>7, <1>8, <1>9, <1>10 DEF Next
<1> QED BY <1>11 DEF Goal

(* Fingerprints and snapshots are only ever taken of rows.                 *)
LEMMA StepCopies ==
    ASSUME ~Retention, Durable, [Next]_vars
    PROVE  SnapStored' /\ PersistedIsStored'
<1> DEFINE Goal == SnapStored' /\ PersistedIsStored'
<1>0. RowsGrow /\ TypeOK  BY StepSaves DEF Durable, Books
<1>1. ASSUME UNCHANGED <<snap, persisted>>  PROVE Goal
  BY <1>0, <1>1 DEF Durable, SnapStored, PersistedIsStored, RowsGrow
<1>2. ASSUME NEW p \in Inst, Load(p)  PROVE Goal
  BY <1>0, <1>2 DEF Load, Durable, SnapStored, PersistedIsStored, RowsGrow, Stored, TypeOK
<1>3. ASSUME NEW p \in Inst, NEW entries \in [Value -> Entry], Apply(p, entries),
             \A v \in Value : entries[v] # "none" => Stored(v),
             UNCHANGED snap \/ snap' = [snap EXCEPT ![p] = Nothing]
      PROVE  Goal
  <2>1. persisted' = [persisted EXCEPT ![p] = [v \in Value |->
                        IF entries[v] # "none" THEN entries[v] ELSE persisted[p][v]]]
    BY <1>3 DEF Apply
  <2> QED BY <1>0, <1>3, <2>1 DEF Durable, SnapStored, PersistedIsStored, RowsGrow, TypeOK, Nothing
<1>4. ASSUME NEW p \in Inst, Loaded(p)  PROVE Goal
  <2>1. /\ Apply(p, snap[p]) /\ snap' = [snap EXCEPT ![p] = Nothing]
        /\ snap[p] \in [Value -> Entry]
        /\ \A v \in Value : snap[p][v] # "none" => Stored(v)
    BY <1>0, <1>4 DEF Loaded, TypeOK, Durable, SnapStored
  <2> HIDE DEF Goal
  <2> QED BY <1>3, <2>1
<1>5. ASSUME NEW p \in Inst, LoadFailed(p)  PROVE Goal
  BY <1>0, <1>5 DEF LoadFailed, Durable, SnapStored, PersistedIsStored, RowsGrow, TypeOK, Nothing
<1>6. ASSUME NEW r \in Req, LookedUp(r)  PROVE Goal
  <2>1. /\ Apply(InstOf[r], batch[r]) /\ UNCHANGED snap
        /\ batch[r] \in [Value -> Entry] /\ InstOf[r] \in Inst
        /\ \A v \in Value : batch[r][v] # "none" => Stored(v)
    BY <1>0, <1>6, ConstantsAssumption DEF LookedUp, TypeOK, Durable, RequestSound
  <2> HIDE DEF Goal
  <2> QED BY <1>3, <2>1
<1>7. ASSUME NEW r \in Req, Return(r)  PROVE Goal
  <2>1. /\ persisted' = [persisted EXCEPT ![InstOf[r]] = [v \in Value |->
              IF batch[r][v] # "none" THEN batch[r][v] ELSE persisted[InstOf[r]][v]]]
        /\ UNCHANGED snap
        /\ \A v \in Value : batch[r][v] # "none" => Stored(v)
    BY <1>7 DEF Return, Durable, RequestSound
  <2> QED BY <1>0, <2>1, ConstantsAssumption
      DEF Durable, SnapStored, PersistedIsStored, RowsGrow, TypeOK
<1>8. ASSUME NEW p \in Inst, ForgetMemory(p)  PROVE Goal
  BY <1>0, <1>8 DEF ForgetMemory, Durable, SnapStored, PersistedIsStored, RowsGrow, TypeOK, Nothing
<1>9. ASSUME NEW r \in Req, Call(r) \/ Finish(r) \/ RedactBody(r) \/ RedactText(r) \/ Append(r)
                             \/ AppendFails(r) \/ Throw(r) \/ Lookup(r) \/ LookupFails(r)
                             \/ RestoreText(r)
      PROVE  Goal
  BY <1>1, <1>9 DEF Call, Redact, PrepareRestore, Finish, RedactBody, RedactText, Append,
                    AppendFails, Throw, Lookup, LookupFails, RestoreText
<1>10. ASSUME \/ \E t \in touches : TouchLands(t) \/ TouchFails(t)
              \/ \E cutoff \in Time : Prune(cutoff)
              \/ \E v \in Value : Forget(v)
              \/ Tick
              \/ UNCHANGED vars
       PROVE  Goal
  BY <1>1, <1>10 DEF TouchLands, TouchFails, Prune, Forget, Delete, Tick, vars
<1> HIDE DEF Goal
<1>11. ASSUME NEW r \in Req, Call(r) \/ Answer(r) \/ Continue(r) \/ Finish(r)  PROVE Goal
  BY <1>6, <1>7, <1>9, <1>11 DEF Answer, Continue
<1>12. ASSUME NEW p \in Inst, Load(p) \/ Hydrate(p) \/ Evict(p) \/ Crash(p)  PROVE Goal
  BY <1>2, <1>4, <1>5, <1>8, <1>12 DEF Hydrate, Evict, Crash
<1>13. Goal
  BY <1>10, <1>11, <1>12 DEF Next
<1> QED BY <1>13 DEF Goal

(* What a step of request r must show: the other slots are as they were,   *)
(* memory has not shrunk, and r itself is sound again.                     *)
LEMMA OneRequest ==
    ASSUME ~Retention, Durable, [Next]_vars, NEW r \in Req, RequestSound(r)',
           \A q \in Req \ {r} : /\ st'[q] = st[q] /\ kind'[q] = kind[q] /\ out'[q] = out[q]
                                /\ marks'[q] = marks[q] /\ batch'[q] = batch[q],
           \A p \in Inst, v \in Value : Held(p, v) => Held(p, v)'
    PROVE  \A q \in Req : RequestSound(q)'
<1> SUFFICES ASSUME NEW q \in Req \ {r}  PROVE RequestSound(q)'
  OBVIOUS
<1>1. RowsGrow /\ ReleasesGrow  BY StepSaves
<1>2. \A v \in Value : Held(InstOf[q], v) => Held(InstOf[q], v)'
  BY ConstantsAssumption
<1>3. TypeOK /\ RequestSound(q)  BY DEF Durable, Books
<1> QED BY <1>1, <1>2, <1>3, Undisturbed

LEMMA CallSound ==
    ASSUME ~Retention, Durable, [Next]_vars, NEW r \in Req, Call(r) \/ Finish(r)
    PROVE  \A q \in Req : RequestSound(q)'
<1>0. TypeOK /\ RequestSound(r)  BY DEF Durable, Books
<1>1. UNCHANGED <<mem, batch, marks, rows, released>>
  BY DEF Call, Redact, PrepareRestore, Finish
<1>2. \A q \in Req \ {r} : st'[q] = st[q] /\ kind'[q] = kind[q] /\ out'[q] = out[q]
  BY <1>0 DEF Call, Redact, PrepareRestore, Finish, TypeOK
<1>3. ASSUME NEW k \in AllKinds, Redact(r, k)  PROVE RequestSound(r)'
  BY <1>0, <1>3 DEF Redact, Resume, RequestSound, TypeOK, Saving, AllKinds
<1>4. ASSUME PrepareRestore(r)  PROVE RequestSound(r)'
  BY <1>0, <1>4 DEF PrepareRestore, Resume, RequestSound, TypeOK, Saving
<1>5. ASSUME Finish(r)  PROVE RequestSound(r)'
  BY <1>0, <1>5 DEF Finish, RequestSound, TypeOK, Saving
<1>6. RequestSound(r)'  BY <1>3, <1>4, <1>5 DEF Call
<1> QED BY <1>1, <1>2, <1>6, OneRequest DEF Held

LEMMA RedactionSound ==
    ASSUME ~Retention, Durable, [Next]_vars, NEW r \in Req, RedactBody(r) \/ RedactText(r)
    PROVE  \A q \in Req : RequestSound(q)'
<1>0. TypeOK /\ RequestSound(r)  BY DEF Durable, Books
<1>1. PICK learned \in [Value -> Entry], found \in SUBSET Value, candidates \in SUBSET Value :
        Redaction(r, learned, found, candidates)
  BY <1>0, RedactionStep
<1> DEFINE taken == Taken(InstOf[r], learned, candidates)
           fresh == Fresh(InstOf[r], learned, taken)
<1>2. /\ mem' = [mem EXCEPT ![InstOf[r]] = learned]
      /\ out' = [out EXCEPT ![r] = found]
      /\ UNCHANGED <<rows, kind>>
      /\ st[r] = "ready" /\ kind[r] \in {"body", "text"}
      /\ kind[r] = "body" => found \subseteq taken
  BY <1>1 DEF Redaction, Persist, Taken
<1>3. \A p \in Inst, v \in Value : Held(p, v) => Held(p, v)'
  BY <1>0, <1>1, <1>2, ConstantsAssumption DEF Redaction, Held, TypeOK
<1>4. CASE fresh # {}
  <2>1. /\ st' = [st EXCEPT ![r] = "appending"]
        /\ marks' = [marks EXCEPT ![r] = taken]
        /\ batch' = [batch EXCEPT ![r] =
                       [v \in Value |-> IF v \in fresh THEN learned[v] ELSE "none"]]
    BY <1>1, <1>4 DEF Redaction, Persist
  <2> HIDE DEF taken, fresh
  <2>2. RequestSound(r)'
    BY <1>0, <1>2, <2>1 DEF RequestSound, TypeOK, Saving
  <2> QED BY <1>0, <1>2, <1>3, <2>1, <2>2, OneRequest DEF TypeOK
<1>5. CASE fresh = {}
  <2>1. st' = [st EXCEPT ![r] = "returned"] /\ UNCHANGED <<marks, batch>>
    BY <1>1, <1>5 DEF Redaction, Persist
  <2> HIDE DEF taken, fresh
  <2>2. RequestSound(r)'
    BY <1>0, <1>2, <2>1 DEF RequestSound, TypeOK, Saving
  <2> QED BY <1>0, <1>2, <1>3, <2>1, <2>2, OneRequest DEF TypeOK
<1> QED BY <1>4, <1>5

LEMMA StoreCallSound ==
    ASSUME ~Retention, Durable, [Next]_vars, NEW r \in Req,
           Append(r) \/ AppendFails(r) \/ Return(r) \/ Throw(r)
    PROVE  \A q \in Req : RequestSound(q)'
<1>0. TypeOK /\ RequestSound(r)  BY DEF Durable, Books
<1>1. UNCHANGED <<mem, kind, out>>
  BY DEF Append, AppendFails, Return, Throw
<1>2. \A q \in Req \ {r} : st'[q] = st[q] /\ marks'[q] = marks[q] /\ batch'[q] = batch[q]
  BY <1>0 DEF Append, AppendFails, Return, Throw, TypeOK
<1>3. ASSUME Append(r)  PROVE RequestSound(r)'
  <2>1. \A v \in Value : batch[r][v] # "none" => Stored(v)'
    BY <1>3 DEF Append, Upsert, Stored
  <2> QED BY <1>0, <1>3, <2>1 DEF Append, RequestSound, TypeOK, Saving
<1>4. ASSUME AppendFails(r)  PROVE RequestSound(r)'
  BY <1>0, <1>4 DEF AppendFails, RequestSound, TypeOK, Saving
<1>5. ASSUME Return(r)  PROVE RequestSound(r)'
  BY <1>0, <1>5 DEF Return, RequestSound, TypeOK, Saving, Nothing
<1>6. ASSUME Throw(r)  PROVE RequestSound(r)'
  BY <1>0, <1>6 DEF Throw, RequestSound, TypeOK, Saving, Nothing
<1>7. RequestSound(r)'  BY <1>3, <1>4, <1>5, <1>6
<1> QED BY <1>1, <1>2, <1>7, OneRequest DEF Held

(* A lookup finds every token a restore lacks, because it was released and *)
(* hence saved; merging the answer into memory leaves nothing to lack.     *)
LEMMA RestoreSound ==
    ASSUME ~Retention, Durable, [Next]_vars, NEW r \in Req,
           Lookup(r) \/ LookedUp(r) \/ LookupFails(r) \/ RestoreText(r)
    PROVE  \A q \in Req : RequestSound(q)'
<1>0. /\ TypeOK /\ RequestSound(r) /\ SavedBeforeReleased
      /\ out[r] \in SUBSET Value /\ batch[r] \in [Value -> Entry] /\ InstOf[r] \in Inst
  BY ConstantsAssumption DEF Durable, Books, TypeOK
<1>1. UNCHANGED <<kind, out, marks, rows, released>>
  BY DEF Lookup, LookedUp, LookupFails, RestoreText
<1>2. \A q \in Req \ {r} : st'[q] = st[q] /\ batch'[q] = batch[q]
  BY <1>0 DEF Lookup, LookedUp, LookupFails, RestoreText, TypeOK
<1>3. CASE Lookup(r)
  <2>1. UNCHANGED mem  BY <1>3 DEF Lookup
  <2>2. RequestSound(r)'
    BY <1>0, <1>1, <1>3 DEF Lookup, RequestSound, TypeOK, Saving, SavedBeforeReleased, Stored, Held
  <2> QED BY <1>1, <1>2, <2>1, <2>2, OneRequest DEF Held
<1>4. CASE LookedUp(r)
  <2>1. Apply(InstOf[r], batch[r])  BY <1>4 DEF LookedUp
  <2>2. \A p \in Inst, v \in Value : Held(p, v) => Held(p, v)'
    <3> HIDE DEF Apply
    <3> QED BY <1>0, <2>1, ApplyGrows
  <2>3. \A v \in Value : batch[r][v] # "none" => Held(InstOf[r], v)'
    <3> SUFFICES ASSUME NEW v \in Value, batch[r][v] # "none"  PROVE Held(InstOf[r], v)'
      OBVIOUS
    <3>1. mem'[InstOf[r]][v] = Merge(mem[InstOf[r]][v], batch[r][v])
      BY <1>0, <2>1 DEF Apply, TypeOK
    <3>2. mem[InstOf[r]][v] \in Entry /\ batch[r][v] \in Entry  BY <1>0 DEF TypeOK
    <3> QED BY <3>1, <3>2, MergeEntry DEF Held
  <2>4. /\ st[r] = "looking"
        /\ st' = [st EXCEPT ![r] = "prepared"]
        /\ batch' = [batch EXCEPT ![r] = Nothing]
    BY <1>4 DEF LookedUp
  <2>5. \A v \in out[r] : Held(InstOf[r], v)'
    BY <1>0, <2>2, <2>3, <2>4 DEF RequestSound
  <2>6. RequestSound(r)'
    BY <1>0, <1>1, <2>4, <2>5 DEF RequestSound, TypeOK, Saving, Nothing
  <2> QED BY <1>1, <1>2, <2>2, <2>6, OneRequest
<1>5. CASE LookupFails(r) \/ RestoreText(r)
  <2>1. UNCHANGED mem  BY <1>5 DEF LookupFails, RestoreText
  <2>2. RequestSound(r)'
    BY <1>0, <1>1, <1>5, <2>1
       DEF LookupFails, RestoreText, RequestSound, TypeOK, Saving, Nothing, Held
  <2> QED BY <1>1, <1>2, <2>1, <2>2, OneRequest DEF Held
<1> QED BY <1>3, <1>4, <1>5

LEMMA HydrationSound ==
    ASSUME ~Retention, Durable, [Next]_vars, NEW p \in Inst, Load(p) \/ Hydrate(p)
    PROVE  \A q \in Req : RequestSound(q)'
<1> SUFFICES ASSUME NEW q \in Req  PROVE RequestSound(q)'
  OBVIOUS
<1>0. TypeOK /\ RequestSound(q) /\ RowsGrow /\ ReleasesGrow /\ InstOf[q] \in Inst
  BY StepSaves, ConstantsAssumption DEF Durable, Books
<1>1. UNCHANGED <<kind, out, marks, batch>>
  BY DEF Load, Hydrate, Loaded, LoadFailed
<1>2. st'[q] = st[q] \/ (st[q] = "hydrating" /\ st'[q] \in {"ready", "threw"})
  BY <1>0 DEF Load, Hydrate, Loaded, LoadFailed, TypeOK
<1>3. \A v \in Value : Held(InstOf[q], v) => Held(InstOf[q], v)'
  <2>1. CASE Loaded(p)
    <3>1. Apply(p, snap[p]) /\ snap[p] \in [Value -> Entry]
      BY <1>0, <2>1 DEF Loaded, TypeOK
    <3> HIDE DEF Apply
    <3> QED BY <1>0, <3>1, ApplyGrows
  <2>2. CASE Load(p) \/ LoadFailed(p)
    BY <2>2 DEF Load, LoadFailed, Held
  <2> QED BY <2>1, <2>2 DEF Hydrate
<1>4. CASE st'[q] = st[q]
  BY <1>0, <1>1, <1>3, <1>4, Undisturbed
<1>5. CASE st[q] = "hydrating" /\ st'[q] \in {"ready", "threw"}
  BY <1>0, <1>1, <1>5 DEF RequestSound, ReleasesGrow, Saving
<1> QED BY <1>2, <1>4, <1>5

LEMMA LossSound ==
    ASSUME ~Retention, Durable, [Next]_vars, NEW p \in Inst, Evict(p) \/ Crash(p)
    PROVE  \A q \in Req : RequestSound(q)'
<1> SUFFICES ASSUME NEW q \in Req  PROVE RequestSound(q)'
  OBVIOUS
<1>0. TypeOK /\ RequestSound(q) /\ RowsGrow /\ ReleasesGrow /\ InstOf[q] \in Inst
  BY StepSaves, ConstantsAssumption DEF Durable, Books
<1>1. CASE InstOf[q] # p
  <2>1. mem'[InstOf[q]] = mem[InstOf[q]]
    BY <1>0, <1>1 DEF Evict, Crash, ForgetMemory, TypeOK
  <2>2. /\ st'[q] = st[q] /\ kind'[q] = kind[q] /\ out'[q] = out[q]
        /\ marks'[q] = marks[q] /\ batch'[q] = batch[q]
    BY <1>1 DEF Evict, Crash
  <2> QED BY <1>0, <2>1, <2>2, Undisturbed DEF Held
<1>2. CASE InstOf[q] = p /\ Evict(p)
  <2>1. st[q] = "idle" /\ UNCHANGED <<st, kind, out, batch, released>>
    BY <1>2 DEF Evict, ForgetMemory, On
  <2> QED BY <1>0, <2>1 DEF RequestSound, Saving
<1>3. CASE InstOf[q] = p /\ Crash(p)
  BY <1>0, <1>3 DEF Crash, RequestSound, Saving, Nothing
<1> QED BY <1>1, <1>2, <1>3

LEMMA BackgroundSound ==
    ASSUME ~Retention, Durable, [Next]_vars,
           \/ \E t \in touches : TouchLands(t) \/ TouchFails(t)
           \/ \E cutoff \in Time : Prune(cutoff)
           \/ \E v \in Value : Forget(v)
           \/ Tick
           \/ UNCHANGED vars
    PROVE  \A q \in Req : RequestSound(q)'
<1>1. UNCHANGED <<mem, st, kind, out, marks, batch>>
  BY DEF TouchLands, TouchFails, Prune, Forget, Delete, Tick, vars
<1>2. RowsGrow /\ ReleasesGrow /\ TypeOK /\ \A q \in Req : RequestSound(q)
  BY StepSaves DEF Durable, Books
<1> QED BY <1>1, <1>2, Undisturbed DEF Held

LEMMA StepDurable ==
    ASSUME ~Retention
    PROVE  Durable /\ [Next]_vars => Durable'
<1> SUFFICES ASSUME Durable, [Next]_vars  PROVE Durable'
  OBVIOUS
<1>1. Books'  BY StepBooks DEF Durable
<1>2. SnapStored' /\ PersistedIsStored'  BY StepCopies
<1>3. SavedBeforeReleased'
  <2>1. /\ RowsGrow
        /\ released' = released \/ (rows' = rows /\ \A v \in released' : Stored(v))
    BY StepSaves
  <2>2. released \subseteq Value  BY DEF Durable, Books, TypeOK
  <2> QED BY <2>1, <2>2 DEF Durable, SavedBeforeReleased, RowsGrow, Stored
<1>4. \A q \in Req : RequestSound(q)'
  <2>1. ASSUME NEW r \in Req, Call(r) \/ Answer(r) \/ Continue(r) \/ Finish(r)
        PROVE  \A q \in Req : RequestSound(q)'
    BY <2>1, CallSound, RedactionSound, StoreCallSound, RestoreSound DEF Answer, Continue
  <2>2. ASSUME NEW p \in Inst, Load(p) \/ Hydrate(p) \/ Evict(p) \/ Crash(p)
        PROVE  \A q \in Req : RequestSound(q)'
    BY <2>2, HydrationSound, LossSound
  <2> QED BY <2>1, <2>2, BackgroundSound DEF Next
<1> QED BY <1>1, <1>2, <1>3, <1>4 DEF Durable

(* What an instance takes for persisted is in the store, so the appends it *)
(* skips are not missed (KeyedVaultScope.persist's fingerprint filter).    *)
THEOREM PersistedEntriesAreStored ==
    ASSUME ~Retention
    PROVE  Spec => []PersistedIsStored
<1>1. Durable => PersistedIsStored  BY DEF Durable
<1> QED BY <1>1, InitDurable, StepDurable, PTL DEF Spec

(* No body redaction, in any process, hands out a token whose mapping is   *)
(* not in the store (redactBodyOccurrences awaits scope.persist).          *)
THEOREM ReleasedTokensAreSaved ==
    ASSUME ~Retention
    PROVE  Spec => []SavedBeforeReleased
<1>1. Durable => SavedBeforeReleased  BY DEF Durable
<1> QED BY <1>1, InitDurable, StepDurable, PTL DEF Spec

(* What the scope believes of the store, and what it has handed out on that *)
(* belief, is so (KeyedVaultScope.persist, redactBodyOccurrences).         *)
THEOREM BeliefsAreSound ==
    ASSUME ~Retention
    PROVE  Spec => []SavedAsBelieved
<1>1. Durable => SavedAsBelieved  BY DEF Durable, SavedAsBelieved
<1> QED BY <1>1, InitDurable, StepDurable, PTL DEF Spec

(* After prepareRestore the synchronous restore finds every token of its   *)
(* text, whichever process released it (KeyedVaultScope.lookup).           *)
THEOREM PreparedRestoreIsComplete ==
    ASSUME ~Retention
    PROVE  Spec => []PreparedRestores
<1>1. Durable => PreparedRestores  BY DEF Durable, RequestSound, PreparedRestores
<1> QED BY <1>1, InitDurable, StepDurable, PTL DEF Spec

-----------------------------------------------------------------------------
(* Match forms, when one instance stands alone before a synchronous store  *)
(* and nothing is pruned or forgotten.  Memory that has been read covers   *)
(* the rows; every copy of a match form on its way into memory is backed   *)
(* by a row; an append in flight carries what memory holds, so it lowers   *)
(* no row; and a match form that has no row yet is due to be saved.        *)

OneInstance == \A p, q \in Inst : p = q

Read == {"ready", "looking", "prepared", "appending", "stored", "failed"}
Covers(p) == \A v \in Value : rows[v] \in Matching => mem[p][v] \in Matching

MatchesRead ==
    \A p \in Inst : hyd[p] = "warm" \/ (\E r \in On(p) : st[r] \in Read) => Covers(p)
MatchesLoading ==
    \A p \in Inst, v \in Value :
        hyd[p] = "loading" /\ rows[v] \in Matching
            => snap[p][v] \in Matching \/ mem[p][v] \in Matching
CopiesMatch ==
    /\ \A p \in Inst, v \in Value :
          persisted[p][v] \in Matching \/ snap[p][v] \in Matching => rows[v] \in Matching
    /\ \A r \in Req, v \in Value :
          st[r] \in {"looking", "stored"} /\ batch[r][v] \in Matching => rows[v] \in Matching
AppendsWhatIsHeld ==
    \A r \in Req, v \in Value :
        st[r] = "appending" /\ batch[r][v] # "none" => batch[r][v] = mem[InstOf[r]][v]

(* The save of v's match form is still to come: v waits in `changed`, or a *)
(* persist under way carries it and has not reached the store.             *)
Due(p, v) ==
    \/ v \in changed[p]
    \/ \E r \in On(p) : /\ v \in marks[r]
                        /\ st[r] = "failed" \/ (st[r] = "appending" /\ batch[r][v] \in Matching)
MatchesDue ==
    \A p \in Inst, v \in Value : mem[p][v] \in Matching => rows[v] \in Matching \/ Due(p, v)

Forms ==
    /\ TypeOK
    /\ MatchesRead
    /\ MatchesLoading
    /\ CopiesMatch
    /\ AppendsWhatIsHeld
    /\ MatchesDue

LEMMA InitForms == Init => Forms
BY InitType, ConstantsAssumption
   DEF Init, Forms, MatchesRead, MatchesLoading, CopiesMatch, AppendsWhatIsHeld, MatchesDue,
       Covers, Nothing, Matching, Read

LEMMA MergeMatches ==
    ASSUME NEW held \in Entry, NEW row \in Entry
    PROVE  Merge(held, row) \in Matching <=> held \in Matching \/ row \in Matching
BY DEF Merge, Entry, Matching

(* A step that leaves the tables alone and no append before or behind it.  *)
LEMMA CalmForms ==
    ASSUME Forms, TypeOK',
           UNCHANGED <<rows, mem, persisted, changed, hyd, snap, marks>>,
           NEW r \in Req,
           \A q \in Req \ {r} : st'[q] = st[q] /\ batch'[q] = batch[q],
           st[r] \notin {"appending", "failed"} /\ st'[r] \notin {"appending", "failed"},
           st'[r] \in Read => st[r] \in Read \/ hyd[InstOf[r]] = "warm",
           st'[r] \in {"looking", "stored"}
              => \A v \in Value : batch'[r][v] \in Matching => rows[v] \in Matching
    PROVE  Forms'
<1>1. \A p \in Inst : Covers(p)' = Covers(p)  BY DEF Covers
<1>2. MatchesRead'
  <2> SUFFICES ASSUME NEW p \in Inst, hyd[p] = "warm" \/ \E q \in On(p) : st'[q] \in Read
               PROVE  hyd[p] = "warm" \/ \E q \in On(p) : st[q] \in Read
    BY <1>1 DEF Forms, MatchesRead, On
  <2> QED BY DEF On
<1>3. MatchesLoading'  BY DEF Forms, MatchesLoading
<1>4. CopiesMatch' /\ AppendsWhatIsHeld'
  BY DEF Forms, CopiesMatch, AppendsWhatIsHeld
<1>5. \A p \in Inst, v \in Value : Due(p, v) => Due(p, v)'
  BY DEF Due, On
<1>6. MatchesDue'  BY <1>5 DEF Forms, MatchesDue
<1> QED BY <1>2, <1>3, <1>4, <1>6 DEF Forms

LEMMA CallForms ==
    ASSUME Forms, TypeOK', NEW r \in Req,
           Call(r) \/ Finish(r) \/ RestoreText(r) \/ LookupFails(r)
    PROVE  Forms'
<1>1. UNCHANGED <<rows, mem, persisted, changed, hyd, snap, marks>>
  BY DEF Call, Redact, PrepareRestore, Finish, RestoreText, LookupFails
<1>2. \A q \in Req \ {r} : st'[q] = st[q] /\ batch'[q] = batch[q]
  BY DEF Call, Redact, PrepareRestore, Finish, RestoreText, LookupFails, Forms, TypeOK
<1>3. /\ st[r] \notin {"appending", "failed"}
      /\ st'[r] \notin {"appending", "failed", "looking", "stored"}
      /\ st'[r] \in Read => hyd[InstOf[r]] = "warm"
  BY ConstantsAssumption
     DEF Call, Redact, PrepareRestore, Finish, RestoreText, LookupFails, Resume, Read, Forms, TypeOK
<1> QED BY <1>1, <1>2, <1>3, CalmForms

LEMMA LookupForms ==
    ASSUME Forms, TypeOK', NEW r \in Req, Lookup(r)
    PROVE  Forms'
<1>1. UNCHANGED <<rows, mem, persisted, changed, hyd, snap, marks>>
  BY DEF Lookup
<1>2. \A q \in Req \ {r} : st'[q] = st[q] /\ batch'[q] = batch[q]
  BY DEF Lookup, Forms, TypeOK
<1>3. st[r] = "ready" /\ st'[r] = "looking"
  BY DEF Lookup, Forms, TypeOK
<1>4. \A v \in Value : batch'[r][v] \in Matching => rows[v] \in Matching
  BY DEF Lookup, Forms, TypeOK, Matching
<1> QED BY <1>1, <1>2, <1>3, <1>4, CalmForms DEF Read

(* Merging entries that are backed by rows.                                *)
LEMMA ApplyForms ==
    ASSUME OneInstance, Forms, NEW p \in Inst, NEW entries \in [Value -> Entry],
           Apply(p, entries), UNCHANGED rows,
           \A v \in Value : entries[v] \in Matching => rows[v] \in Matching
    PROVE  \A v \in Value :
             /\ mem'[p][v] \in Matching <=> mem[p][v] \in Matching \/ entries[v] \in Matching
             /\ persisted'[p][v] \in Matching => rows[v] \in Matching
<1> SUFFICES ASSUME NEW v \in Value
             PROVE  /\ mem'[p][v] \in Matching <=> mem[p][v] \in Matching \/ entries[v] \in Matching
                    /\ persisted'[p][v] \in Matching => rows[v] \in Matching
  OBVIOUS
<1>1. mem'[p][v] = Merge(mem[p][v], entries[v])
  BY DEF Apply, Forms, TypeOK
<1>2. persisted'[p][v] = IF entries[v] # "none" THEN entries[v] ELSE persisted[p][v]
  BY DEF Apply, Forms, TypeOK
<1>3. mem[p][v] \in Entry /\ entries[v] \in Entry  BY DEF Forms, TypeOK
<1> QED BY <1>1, <1>2, <1>3, MergeMatches DEF Forms, CopiesMatch

LEMMA LookedUpForms ==
    ASSUME OneInstance, StoreIsSync, Forms, TypeOK', NEW r \in Req, LookedUp(r)
    PROVE  Forms'
<1> DEFINE p == InstOf[r]
<1>1. /\ p \in Inst /\ On(p) = Req /\ \A q \in Inst : q = p
      /\ \A q \in Req : InstOf[q] = p
  BY ConstantsAssumption DEF OneInstance, On
<1>2. /\ st[r] = "looking" /\ st' = [st EXCEPT ![r] = "prepared"]
      /\ batch' = [batch EXCEPT ![r] = Nothing]
      /\ UNCHANGED <<rows, changed, hyd, snap, marks>>
      /\ \A q \in Req : st[q] # "appending"
  BY <1>1 DEF LookedUp, Free
<1>3. \A v \in Value :
         /\ mem'[p][v] \in Matching <=> mem[p][v] \in Matching \/ batch[r][v] \in Matching
         /\ persisted'[p][v] \in Matching => rows[v] \in Matching
  <2>1. /\ Apply(p, batch[r]) /\ batch[r] \in [Value -> Entry] /\ UNCHANGED rows
        /\ \A v \in Value : batch[r][v] \in Matching => rows[v] \in Matching
    BY <1>2 DEF LookedUp, Forms, TypeOK, CopiesMatch
  <2> HIDE DEF p
  <2> QED BY <1>1, <2>1, ApplyForms
<1> HIDE DEF p
<1>4. \A q \in Req : \/ q # r /\ st'[q] = st[q] /\ batch'[q] = batch[q]
                     \/ q = r /\ st'[q] = "prepared"
  BY <1>2 DEF Forms, TypeOK
<1>5. MatchesRead'
  <2>1. Covers(p)  BY <1>1, <1>2 DEF Forms, MatchesRead, Read
  <2>2. Covers(p)'  BY <1>2, <1>3, <2>1 DEF Covers
  <2> QED BY <1>1, <2>2 DEF MatchesRead
<1>6. MatchesLoading'
  BY <1>1, <1>2, <1>3 DEF Forms, MatchesLoading
<1>7. CopiesMatch'
  BY <1>1, <1>2, <1>3, <1>4 DEF Forms, CopiesMatch
<1>8. AppendsWhatIsHeld'
  BY <1>2, <1>4 DEF AppendsWhatIsHeld
<1>9. MatchesDue'
  <2> SUFFICES ASSUME NEW v \in Value, mem'[p][v] \in Matching
               PROVE  rows[v] \in Matching \/ Due(p, v)'
    BY <1>1, <1>2 DEF MatchesDue
  <2>1. CASE batch[r][v] \in Matching
    BY <1>2, <2>1 DEF Forms, CopiesMatch
  <2>2. Due(p, v) => Due(p, v)'
    BY <1>2, <1>4 DEF Due, On
  <2> QED BY <1>1, <1>3, <2>1, <2>2 DEF Forms, MatchesDue
<1> QED BY <1>5, <1>6, <1>7, <1>8, <1>9 DEF Forms

(* A load ends with memory covering the rows: those it read, and those     *)
(* that were appended from memory meanwhile.                               *)
LEMMA HydrationForms ==
    ASSUME OneInstance, StoreIsSync, Forms, TypeOK', NEW p \in Inst, Load(p) \/ Hydrate(p)
    PROVE  Forms'
<1>1. /\ On(p) = Req /\ \A q \in Inst : q = p
      /\ \A q \in Req : InstOf[q] = p
  BY ConstantsAssumption DEF OneInstance, On
<1>2. /\ UNCHANGED <<rows, changed, marks, batch>>
      /\ \A q \in Req : st[q] # "appending"
      /\ \A q \in Req : st'[q] = st[q] \/ (st[q] = "hydrating" /\ st'[q] \in {"ready", "threw"})
  BY <1>1 DEF Load, Hydrate, Loaded, LoadFailed, Free, Forms, TypeOK
<1>3. /\ \A q \in Req : st'[q] \in {"looking", "stored", "appending", "failed"} => st'[q] = st[q]
      /\ \A q \in Req : st[q] = "failed" => st'[q] = "failed"
  BY <1>2
<1>4. \A v \in Value : Due(p, v) => Due(p, v)'
  BY <1>2, <1>3 DEF Due, On
<1>5. AppendsWhatIsHeld'
  BY <1>2, <1>3 DEF AppendsWhatIsHeld
<1>6. CASE Loaded(p)
  <2>1. /\ hyd[p] = "loading" /\ hyd' = [hyd EXCEPT ![p] = "warm"]
        /\ snap' = [snap EXCEPT ![p] = Nothing]
        /\ Apply(p, snap[p]) /\ snap[p] \in [Value -> Entry]
        /\ \A v \in Value : snap[p][v] \in Matching => rows[v] \in Matching
    BY <1>6 DEF Loaded, Forms, TypeOK, CopiesMatch
  <2>2. \A v \in Value :
          /\ mem'[p][v] \in Matching <=> mem[p][v] \in Matching \/ snap[p][v] \in Matching
          /\ persisted'[p][v] \in Matching => rows[v] \in Matching
    BY <1>2, <2>1, ApplyForms
  <2> HIDE DEF Apply
  <2>3. hyd'[p] = "warm" /\ \A v \in Value : snap'[p][v] \notin Matching
    BY <2>1 DEF Forms, TypeOK, Nothing, Matching
  <2>4. MatchesRead'
    BY <1>1, <1>2, <2>1, <2>2 DEF Forms, MatchesLoading, MatchesRead, Covers
  <2>5. MatchesLoading'
    BY <1>1, <2>3 DEF MatchesLoading
  <2>6. CopiesMatch'
    BY <1>1, <1>2, <1>3, <2>2, <2>3 DEF Forms, CopiesMatch
  <2>7. MatchesDue'
    BY <1>1, <1>2, <1>4, <2>1, <2>2 DEF Forms, MatchesDue
  <2> QED BY <1>5, <2>4, <2>5, <2>6, <2>7 DEF Forms
<1>7. CASE Load(p) \/ LoadFailed(p)
  <2>1. UNCHANGED <<mem, persisted>>  BY <1>7 DEF Load, LoadFailed
  <2>2. \/ hyd'[p] = "loading" /\ snap'[p] = rows
        \/ hyd'[p] = "cold" /\ snap'[p] = Nothing
    BY <1>7 DEF Load, LoadFailed, Forms, TypeOK
  <2>3. \A q \in Req : st'[q] \in Read => st[q] \in Read
    BY <1>7 DEF Load, LoadFailed, Read, Forms, TypeOK
  <2>4. MatchesRead'
    BY <1>1, <1>2, <2>1, <2>2, <2>3 DEF Forms, MatchesRead, Covers
  <2>5. MatchesLoading'
    BY <1>1, <1>2, <2>1, <2>2 DEF MatchesLoading
  <2>6. CopiesMatch'
    BY <1>1, <1>2, <1>3, <2>1, <2>2 DEF Forms, CopiesMatch, Nothing, Matching
  <2>7. MatchesDue'
    BY <1>1, <1>2, <1>4, <2>1 DEF Forms, MatchesDue
  <2> QED BY <1>5, <2>4, <2>5, <2>6, <2>7 DEF Forms
<1> QED BY <1>6, <1>7 DEF Hydrate

(* A persist takes every value whose match form is new, and appends it or  *)
(* knows it persisted in that form; what waited before it is taken too.    *)
LEMMA RedactionForms ==
    ASSUME OneInstance, StoreIsSync, Forms, TypeOK', NEW r \in Req,
           RedactBody(r) \/ RedactText(r)
    PROVE  Forms'
<1>1. PICK learned \in [Value -> Entry], found \in SUBSET Value, candidates \in SUBSET Value :
        Redaction(r, learned, found, candidates)
  BY RedactionStep DEF Forms
<1> DEFINE p == InstOf[r]
           taken == Taken(p, learned, candidates)
           fresh == Fresh(p, learned, taken)
<1>2. /\ p \in Inst /\ On(p) = Req /\ \A q \in Inst : q = p
      /\ \A q \in Req : InstOf[q] = p
  BY ConstantsAssumption DEF OneInstance, On
<1>3. /\ mem' = [mem EXCEPT ![p] = learned]
      /\ changed' = [changed EXCEPT ![p] = {}]
      /\ UNCHANGED <<rows, persisted, hyd, snap>>
      /\ st[r] = "ready"
      /\ \A v \in Value : mem[p][v] \in Matching => learned[v] \in Matching
  BY <1>1 DEF Redaction, Persist
<1>4. \A q \in Req : st[q] # "appending"
  BY <1>2 DEF RedactBody, RedactText, Free
<1>5. mem'[p] = learned /\ mem[p] \in [Value -> Entry]
  BY <1>2, <1>3 DEF Forms, TypeOK
<1>6. \A v \in Value : learned[v] \in Matching /\ v \notin taken
         => mem[p][v] \in Matching /\ v \notin changed[p]
  BY <1>5 DEF Taken, Registers, Entry, Matching
<1>7. \A v \in taken : v \in Value /\ (learned[v] \in Matching /\ v \notin fresh => rows[v] \in Matching)
  <2>1. taken \subseteq Value  BY <1>2 DEF Taken, Forms, TypeOK
  <2>2. \A v \in taken : learned[v] \in Matching /\ v \notin fresh => persisted[p][v] = learned[v]
    BY DEF Fresh, Matching
  <2> QED BY <1>2, <2>1, <2>2 DEF Forms, CopiesMatch
<1>8. \/ /\ st' = [st EXCEPT ![r] = "appending"]
         /\ marks' = [marks EXCEPT ![r] = taken]
         /\ batch' = [batch EXCEPT ![r] =
                        [v \in Value |-> IF v \in fresh THEN learned[v] ELSE "none"]]
      \/ /\ fresh = {}
         /\ st' = [st EXCEPT ![r] = "returned"]
         /\ UNCHANGED <<marks, batch>>
  BY <1>1 DEF Redaction, Persist
<1>9. fresh \subseteq taken  BY DEF Fresh
<1> HIDE DEF p, taken, fresh
<1>10. /\ \A q \in Req \ {r} : st'[q] = st[q] /\ marks'[q] = marks[q] /\ batch'[q] = batch[q]
       /\ \/ /\ st'[r] = "appending" /\ marks'[r] = taken
             /\ \A v \in Value : batch'[r][v] = IF v \in fresh THEN learned[v] ELSE "none"
          \/ fresh = {} /\ st'[r] = "returned"
  BY <1>8 DEF Forms, TypeOK
<1>11. MatchesRead'
  <2>1. Covers(p)  BY <1>2, <1>3 DEF Forms, MatchesRead, Read
  <2>2. Covers(p)'  BY <1>3, <1>5, <2>1 DEF Covers
  <2> QED BY <1>2, <2>2 DEF MatchesRead
<1>12. MatchesLoading'
  BY <1>2, <1>3, <1>5 DEF Forms, MatchesLoading
<1>13. CopiesMatch'
  BY <1>3, <1>10 DEF Forms, CopiesMatch
<1>14. AppendsWhatIsHeld'
  BY <1>2, <1>4, <1>5, <1>10 DEF AppendsWhatIsHeld
<1>15. MatchesDue'
  <2> SUFFICES ASSUME NEW v \in Value, learned[v] \in Matching
               PROVE  rows[v] \in Matching \/ Due(p, v)'
    BY <1>2, <1>3, <1>5 DEF MatchesDue
  <2>1. CASE v \notin taken
    <3>1. rows[v] \in Matching \/ \E q \in Req : v \in marks[q] /\ st[q] = "failed"
      BY <1>2, <1>4, <1>6, <2>1 DEF Forms, MatchesDue, Due, On
    <3> QED BY <1>2, <1>3, <1>10, <3>1 DEF Due, On
  <2>2. CASE v \in taken /\ v \notin fresh
    BY <1>7, <2>2
  <2>3. CASE v \in fresh
    BY <1>2, <1>9, <1>10, <2>3 DEF Due, On
  <2> QED BY <2>1, <2>2, <2>3
<1> QED BY <1>11, <1>12, <1>13, <1>14, <1>15 DEF Forms

(* An append writes what memory holds, and memory covers the rows, so no   *)
(* row loses its match form.                                               *)
LEMMA UpsertForms ==
    ASSUME Forms, NEW r \in Req, st[r] = "appending", Upsert(r)
    PROVE  \A v \in Value :
             /\ rows[v] \in Matching \/ batch[r][v] \in Matching => rows'[v] \in Matching
             /\ rows'[v] \in Matching => mem[InstOf[r]][v] \in Matching
<1>1. Covers(InstOf[r])
  BY ConstantsAssumption DEF Forms, MatchesRead, Read, On
<1> SUFFICES ASSUME NEW v \in Value
             PROVE  /\ rows[v] \in Matching \/ batch[r][v] \in Matching => rows'[v] \in Matching
                    /\ rows'[v] \in Matching => mem[InstOf[r]][v] \in Matching
  OBVIOUS
<1>2. rows'[v] = IF batch[r][v] # "none" THEN batch[r][v] ELSE rows[v]
  BY DEF Upsert
<1>3. batch[r][v] # "none" => batch[r][v] = mem[InstOf[r]][v]
  BY DEF Forms, AppendsWhatIsHeld
<1> QED BY <1>1, <1>2, <1>3 DEF Covers, Matching

LEMMA AppendForms ==
    ASSUME OneInstance, Forms, TypeOK', NEW r \in Req, Append(r) \/ AppendFails(r)
    PROVE  Forms'
<1> DEFINE p == InstOf[r]
<1>1. /\ p \in Inst /\ On(p) = Req /\ \A q \in Inst : q = p
      /\ \A q \in Req : InstOf[q] = p
  BY ConstantsAssumption DEF OneInstance, On
<1>2. /\ UNCHANGED <<mem, persisted, changed, hyd, snap, marks, batch>>
      /\ st[r] = "appending"
      /\ \A q \in Req \ {r} : st'[q] = st[q]
      /\ \/ st'[r] = "failed"
         \/ st'[r] = "stored" /\ \A v \in Value : batch[r][v] \in Matching => rows'[v] \in Matching
  BY UpsertForms DEF Append, AppendFails, Forms, TypeOK
<1>3. \A v \in Value : /\ rows[v] \in Matching => rows'[v] \in Matching
                       /\ rows'[v] \in Matching => mem[p][v] \in Matching
  <2>1. CASE Upsert(r)
    BY <1>2, <2>1, UpsertForms
  <2>2. CASE UNCHANGED rows
    BY <1>1, <1>2, <2>2 DEF Forms, MatchesRead, Covers, Read
  <2> QED BY <2>1, <2>2 DEF Append, AppendFails
<1> HIDE DEF p
<1>4. MatchesRead'
  BY <1>1, <1>2, <1>3 DEF MatchesRead, Covers
<1>5. MatchesLoading'
  BY <1>1, <1>2, <1>3 DEF MatchesLoading
<1>6. CopiesMatch'
  BY <1>2, <1>3 DEF Forms, CopiesMatch
<1>7. AppendsWhatIsHeld'
  BY <1>2 DEF Forms, AppendsWhatIsHeld
<1>8. MatchesDue'
  <2> SUFFICES ASSUME NEW v \in Value, mem[p][v] \in Matching
               PROVE  rows'[v] \in Matching \/ Due(p, v)'
    BY <1>1, <1>2 DEF MatchesDue
  <2>1. Due(p, v) => rows'[v] \in Matching \/ Due(p, v)'
    BY <1>1, <1>2 DEF Due, On
  <2> QED BY <1>1, <1>3, <2>1 DEF Forms, MatchesDue
<1> QED BY <1>4, <1>5, <1>6, <1>7, <1>8 DEF Forms

LEMMA SettleForms ==
    ASSUME OneInstance, StoreIsSync, Forms, TypeOK', NEW r \in Req, Return(r) \/ Throw(r)
    PROVE  Forms'
<1> DEFINE p == InstOf[r]
<1>1. /\ p \in Inst /\ On(p) = Req /\ \A q \in Inst : q = p
      /\ \A q \in Req : InstOf[q] = p
  BY ConstantsAssumption DEF OneInstance, On
<1>2. /\ UNCHANGED <<rows, mem, hyd, snap>>
      /\ \A q \in Req \ {r} : st'[q] = st[q] /\ marks'[q] = marks[q] /\ batch'[q] = batch[q]
      /\ st'[r] \notin Read
  BY DEF Return, Throw, Read, Forms, TypeOK
<1>3. \A v \in Value : persisted'[p][v] \in Matching => rows[v] \in Matching
  <2>1. \A v \in Value : persisted[p][v] \in Matching => rows[v] \in Matching
    BY <1>1 DEF Forms, CopiesMatch
  <2>2. CASE Throw(r)
    BY <2>1, <2>2 DEF Throw
  <2>3. CASE Return(r)
    <3>1. \A v \in Value : batch[r][v] \in Matching => rows[v] \in Matching
      BY <2>3 DEF Return, Forms, CopiesMatch
    <3>2. \A v \in Value : persisted'[p][v] =
                             IF batch[r][v] # "none" THEN batch[r][v] ELSE persisted[p][v]
      BY <1>1, <2>3 DEF Return, Forms, TypeOK
    <3> QED BY <2>1, <3>1, <3>2
  <2> QED BY <2>2, <2>3
<1>4. \A v \in Value : Due(p, v) => Due(p, v)'
  <2>1. \/ changed' = changed /\ st[r] = "stored"
        \/ changed'[p] = changed[p] \cup marks[r]
    BY <1>1 DEF Return, Throw, Requeue, Forms, TypeOK
  <2> QED BY <1>2, <2>1 DEF Due, On
<1> HIDE DEF p
<1>5. MatchesRead'
  BY <1>1, <1>2 DEF Forms, MatchesRead, Covers
<1>6. MatchesLoading'
  BY <1>2 DEF Forms, MatchesLoading
<1>7. CopiesMatch'
  BY <1>1, <1>2, <1>3 DEF Forms, CopiesMatch, Read
<1>8. AppendsWhatIsHeld'
  BY <1>2 DEF Forms, AppendsWhatIsHeld, Read
<1>9. MatchesDue'
  BY <1>1, <1>2, <1>4 DEF Forms, MatchesDue
<1> QED BY <1>5, <1>6, <1>7, <1>8, <1>9 DEF Forms

LEMMA LossForms ==
    ASSUME OneInstance, Forms, TypeOK', NEW p \in Inst, Evict(p) \/ Crash(p)
    PROVE  Forms'
<1>1. /\ On(p) = Req /\ \A q \in Inst : q = p
      /\ \A q \in Req : InstOf[q] = p
  BY ConstantsAssumption DEF OneInstance, On
<1>2. \A q \in Req : st'[q] = "idle"
  BY <1>1 DEF Evict, Crash
<1>3. /\ hyd'[p] = "cold"
      /\ \A v \in Value : mem'[p][v] = "none" /\ persisted'[p][v] = "none" /\ snap'[p][v] = "none"
  BY DEF Evict, Crash, ForgetMemory, Forms, TypeOK, Nothing
<1>4. MatchesRead' /\ MatchesLoading' /\ AppendsWhatIsHeld'
  BY <1>1, <1>2, <1>3 DEF MatchesRead, MatchesLoading, AppendsWhatIsHeld, Read
<1>5. CopiesMatch' /\ MatchesDue'
  BY <1>1, <1>2, <1>3 DEF CopiesMatch, MatchesDue, Matching
<1> QED BY <1>4, <1>5 DEF Forms

LEMMA BackgroundForms ==
    ASSUME ~Retention, Forms, TypeOK',
           \/ \E t \in touches : TouchLands(t) \/ TouchFails(t)
           \/ \E cutoff \in Time : Prune(cutoff)
           \/ \E v \in Value : Forget(v)
           \/ Tick
           \/ UNCHANGED vars
    PROVE  Forms'
<1>1. UNCHANGED <<rows, mem, persisted, changed, hyd, snap, st, marks, batch>>
  BY DEF TouchLands, TouchFails, Prune, Forget, Tick, vars
<1> QED BY <1>1
    DEF Forms, MatchesRead, MatchesLoading, CopiesMatch, AppendsWhatIsHeld, MatchesDue,
        Covers, Due, On

LEMMA StepForms ==
    ASSUME ~Retention, StoreIsSync, OneInstance
    PROVE  Forms /\ [Next]_vars => Forms'
<1> SUFFICES ASSUME Forms, [Next]_vars  PROVE Forms'
  OBVIOUS
<1>1. TypeOK'  BY StepType DEF Forms
<1>2. ASSUME NEW r \in Req, Call(r) \/ Answer(r) \/ Continue(r) \/ Finish(r)
      PROVE  Forms'
  BY <1>1, <1>2, CallForms, LookupForms, LookedUpForms, RedactionForms, AppendForms, SettleForms
     DEF Answer, Continue
<1>3. ASSUME NEW p \in Inst, Load(p) \/ Hydrate(p) \/ Evict(p) \/ Crash(p)
      PROVE  Forms'
  BY <1>1, <1>3, HydrationForms, LossForms
<1> QED BY <1>1, <1>2, <1>3, BackgroundForms DEF Next

(* Whatever an instance matches in new text, it will match after a restart *)
(* too, unless the save is still due: with the SQLite store of one process *)
(* the last writer of a row never lowers it to a restore-only entry        *)
(* (KeyedVaultScope.persist, SqliteVaultStore.append).                     *)
THEOREM MatchesAreKept ==
    ASSUME ~Retention, StoreIsSync, OneInstance
    PROVE  Spec => []MatchKept
<1>1. Forms => MatchKept
  BY DEF Forms, MatchesDue, MatchKept, Due, InFlight
<1> QED BY <1>1, InitForms, StepForms, PTL DEF Spec

-----------------------------------------------------------------------------
(* Refinement: each step is a Save, a Release or a stutter of the contract.*)

LEMMA InitContract == Init => Contract!Init
BY DEF Init, Contract!Init, Stored, Nothing

LEMMA StepContract ==
    ASSUME ~Retention
    PROVE  Durable /\ [Next]_vars => [Contract!Next]_(Contract!vars)
<1> SUFFICES ASSUME Durable, [Next]_vars  PROVE [Contract!Next]_(Contract!vars)
  OBVIOUS
<1> DEFINE saved == {v \in Value : Stored(v)}
<1>1. /\ saved \subseteq saved'
      /\ released \subseteq released'
      /\ \/ released' = released
         \/ saved' = saved /\ released' \subseteq saved
  <2>1. TypeOK'  BY StepType DEF Durable, Books
  <2> QED BY <2>1, StepSaves DEF RowsGrow, ReleasesGrow, Stored, TypeOK
<1>2. saved' \in SUBSET Value  OBVIOUS
<1> HIDE DEF saved
<1>3. CASE released' = released
  <2>1. saved' = saved \cup saved'  BY <1>1
  <2>2. Contract!Save  BY <1>2, <1>3, <2>1 DEF Contract!Save, saved
  <2> QED BY <2>2 DEF Contract!Next
<1>4. CASE saved' = saved /\ released' \subseteq saved
  <2>1. released' = released \cup released' /\ released' \in SUBSET saved
    BY <1>1, <1>4
  <2>2. Contract!Release  BY <1>4, <2>1 DEF Contract!Release, saved
  <2> QED BY <2>2 DEF Contract!Next
<1> QED BY <1>1, <1>3, <1>4

(* The keyed vault implements the contract of its callers for any number   *)
(* of processes, requests and values.                                      *)
THEOREM ImplementsContract ==
    ASSUME ~Retention
    PROVE  Spec => ContractSpec
<1>1. Init => Contract!Init /\ Durable  BY InitContract, InitDurable
<1> QED BY <1>1, StepDurable, StepContract, PTL DEF Spec, ContractSpec, Contract!Spec

=============================================================================
