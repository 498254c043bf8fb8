------------------------ MODULE ThreadHistory_proofs ------------------------
(***************************************************************************)
(* Theorems about ThreadHistory for any number of views, sidebars,         *)
(* previews and messages, and any recovery periods, proved with TLAPS.     *)
(***************************************************************************)
EXTENDS ThreadHistory, TLAPS, SequenceTheorems

(* The bundles of variables that UNCHANGED is applied to.                  *)
USE DEF row, world, display, saver

-----------------------------------------------------------------------------
(* Types.                                                                  *)

LEMMA Blanks ==
    /\ 0 \in 0..MaxTime /\ Policies \cup {0} \subseteq Nat
    /\ {} \in Transcript /\ {} \in SUBSET Value
    /\ NoSave \in Save
    /\ NoChange \in Change
    /\ \A s \in {"idle", "pending", "asked", "deciding"} : Stage(s) \in Deletion
BY ConstantsAssumption DEF NoSave, Save, NoChange, Change, Stage, Deletion, Transcript

LEMMA InitType == Init => TypeOK
<1> SUFFICES ASSUME Init PROVE TypeOK
  OBVIOUS
<1>1. /\ draft \in [Preview -> Change] /\ deleting \in [Sidebar -> Deletion]
      /\ wire \in [View -> Save]
  BY Blanks DEF Init
<1>2. /\ opened \in [View -> BOOLEAN] /\ shown \in [View -> Transcript]
      /\ expected \in [View -> Nat] /\ last \in [View -> Transcript]
      /\ waiting \in [View -> BOOLEAN] /\ stuck \in [View -> BOOLEAN]
      /\ met \in [View -> Transcript]
  BY Blanks DEF Init
<1>3. queue \in [View -> Seq(Transcript)] /\ audit \in Seq({"deleted", "restored", "purged"})
  BY DEF Init
<1> QED BY <1>1, <1>2, <1>3, Blanks DEF Init, TypeOK

LEMMA ChatType ==
    ASSUME TypeOK, NEW v \in View, Chat(v)
    PROVE  TypeOK'
<1>1. CASE NewChat(v)
  BY <1>1 DEF NewChat, TypeOK
<1>2. CASE LoadChat(v)
  BY <1>2 DEF LoadChat, TypeOK
<1>3. CASE Converse(v)
  <2>1. PICK D \in SUBSET shown[v], N \in SUBSET (Msg \ UNION {met[w] : w \in View}) :
          /\ shown' = [shown EXCEPT ![v] = (@ \ D) \cup N]
          /\ met' = [met EXCEPT ![v] = @ \cup N]
    BY <1>3 DEF Converse
  <2> QED BY <1>3, <2>1 DEF Converse, TypeOK, Transcript
<1> QED BY <1>1, <1>2, <1>3 DEF Chat

LEMMA SavingType ==
    ASSUME TypeOK, NEW v \in View, Saving(v)
    PROVE  TypeOK'
<1>1. CASE PersistSnapshot(v)
  <2>1. Append(queue[v], shown[v]) \in Seq(Transcript)
    BY DEF TypeOK
  <2>2. last' \in [View -> Transcript] /\ queue' \in [View -> Seq(Transcript)]
    BY <1>1, <2>1 DEF PersistSnapshot, TypeOK
  <2> QED BY <1>1, <2>2 DEF PersistSnapshot, TypeOK
<1>2. CASE SendSave(v)
  <2> DEFINE q == queue[v]
  <2>0. q \in Seq(Transcript) /\ q # <<>>
    BY <1>2 DEF SendSave, TypeOK
  <2>1. Head(q) \in Transcript /\ Tail(q) \in Seq(Transcript)
    BY <2>0, HeadTailProperties
  <2>2. /\ wire' \in [View -> Save] /\ queue' \in [View -> Seq(Transcript)]
        /\ waiting' \in [View -> BOOLEAN]
    BY <1>2, <2>1 DEF SendSave, TypeOK, Save
  <2> QED BY <1>2, <2>2 DEF SendSave, TypeOK
<1>3. CASE LoseConnection(v)
  <2>1. wire' \in [View -> Save]
    BY <1>3, Blanks DEF LoseConnection, Forsake, TypeOK
  <2>2. /\ waiting' \in [View -> BOOLEAN] /\ stuck' \in [View -> BOOLEAN]
        /\ queue' \in [View -> Seq(Transcript)]
    BY <1>3 DEF LoseConnection, Fail, TypeOK
  <2> QED BY <1>3, <2>1, <2>2 DEF LoseConnection, TypeOK
<1>4. CASE SaveLands(v)
  <2>1. wire' \in [View -> Save]
    BY <1>4, Blanks DEF SaveLands, TypeOK
  <2>2. wire[v] \in Save
    BY DEF TypeOK
  <2>3. /\ state' \in {"absent", "live", "retained"}
        /\ revision' \in Nat /\ stored' \in Transcript /\ purgeAfter' \in 0..MaxTime
    BY <1>4, <2>2 DEF SaveLands, TypeOK, Save
  <2>4. /\ waiting' \in [View -> BOOLEAN] /\ stuck' \in [View -> BOOLEAN]
        /\ queue' \in [View -> Seq(Transcript)] /\ expected' \in [View -> Nat]
    <3>1. /\ waiting' = waiting \/ waiting' = [waiting EXCEPT ![v] = FALSE]
          /\ stuck' = stuck \/ stuck' = [stuck EXCEPT ![v] = TRUE]
          /\ queue' = queue \/ queue' = [queue EXCEPT ![v] = <<>>]
          /\ expected' = expected \/ expected' = [expected EXCEPT ![v] = revision']
      BY <1>4 DEF SaveLands, Fail
    <3>2. <<>> \in Seq(Transcript)
      OBVIOUS
    <3> QED BY <2>3, <3>1, <3>2 DEF TypeOK
  <2> QED BY <1>4, <2>1, <2>3, <2>4 DEF SaveLands, TypeOK
<1> QED BY <1>1, <1>2, <1>3, <1>4 DEF Saving

LEMMA MoveType ==
    ASSUME TypeOK, NEW b \in Sidebar, NEW from, NEW to \in Deletion, Move(b, from, to)
    PROVE  deleting' \in [Sidebar -> Deletion]
BY DEF Move, TypeOK

LEMMA HorizonType ==
    ASSUME NEW t \in Nat
    PROVE  Horizon(t) \in 0..MaxTime
BY ConstantsAssumption DEF Horizon

LEMMA DeletingType ==
    ASSUME TypeOK, NEW b \in Sidebar, Deleting(b)
    PROVE  TypeOK'
<1>1. Stage("idle") \in Deletion /\ Stage("pending") \in Deletion /\ Stage("asked") \in Deletion
  BY Blanks
<1>2. [step |-> "deciding", days |-> policy] \in Deletion
  BY DEF Deletion, TypeOK
<1>3. deleting' \in [Sidebar -> Deletion]
  BY <1>1, <1>2, MoveType
  DEF Deleting, ScheduleDeletion, CancelDeletion, CommitDeletion, DeletionFails, DecideDeletion,
      RetireThread, RemoveThread
<1>4. CASE RetireThread(b)
  <2>0. now \in Nat /\ deleting[b].days \in Nat
    BY Blanks DEF TypeOK, Deletion
  <2>1. now + deleting[b].days \in Nat
    BY <2>0
  <2>2. Append(audit, "deleted") \in Seq({"deleted", "restored", "purged"})
    BY DEF TypeOK
  <2>3. Horizon(now + deleting[b].days) \in 0..MaxTime
    BY <2>1, HorizonType
  <2> QED BY <1>3, <1>4, <2>2, <2>3 DEF RetireThread, TypeOK
<1>5. CASE RemoveThread(b)
  BY <1>3, <1>5, Blanks DEF RemoveThread, RemoveRow, TypeOK
<1>6. CASE ~RetireThread(b) /\ ~RemoveThread(b)
  BY <1>3, <1>6
  DEF Deleting, ScheduleDeletion, CancelDeletion, CommitDeletion, DeletionFails, DecideDeletion,
      TypeOK
<1> QED BY <1>4, <1>5, <1>6

LEMMA PreviewType ==
    ASSUME TypeOK, NEW p \in Preview, ReadSelections(p) \/ WriteSelections(p)
    PROVE  TypeOK'
<1>1. CASE ReadSelections(p)
  BY <1>1 DEF ReadSelections, TypeOK, Change
<1>2. CASE WriteSelections(p)
  <2>1. draft[p] \in Change /\ NoChange \in Change
    BY Blanks DEF TypeOK
  <2> QED BY <1>2, <2>1 DEF WriteSelections, TypeOK, Change
<1> QED BY <1>1, <1>2

LEMMA RetentionType ==
    ASSUME TypeOK, PatchPolicy \/ Tick \/ RestoreRetained \/ Sweep \/ PruneAbandoned
    PROVE  TypeOK'
<1>1. /\ Append(audit, "restored") \in Seq({"deleted", "restored", "purged"})
      /\ Append(audit, "purged") \in Seq({"deleted", "restored", "purged"})
  BY DEF TypeOK
<1>2. CASE PatchPolicy  BY <1>2 DEF PatchPolicy, TypeOK
<1>3. CASE Tick  BY <1>3, ConstantsAssumption DEF Tick, TypeOK
<1>4. CASE RestoreRetained  BY <1>1, <1>4, ConstantsAssumption DEF RestoreRetained, TypeOK
<1>5. CASE Sweep  BY <1>1, <1>5, ConstantsAssumption, Blanks DEF Sweep, RemoveRow, TypeOK
<1>6. CASE PruneAbandoned  BY <1>6 DEF PruneAbandoned, TypeOK
<1> QED BY <1>2, <1>3, <1>4, <1>5, <1>6

LEMMA StepType == TypeOK /\ [Next]_vars => TypeOK'
<1> SUFFICES ASSUME TypeOK, [Next]_vars PROVE TypeOK'
  OBVIOUS
<1>1. CASE UNCHANGED vars  BY <1>1 DEF vars, TypeOK
<1>2. CASE Next
  BY <1>2, ChatType, SavingType, DeletingType, PreviewType, RetentionType DEF Next
<1> QED BY <1>1, <1>2

(* Every variable keeps its type, whatever storage, network, tabs and      *)
(* administrators do (store.server.ts, transcript-saver.ts).               *)
THEOREM TypeCorrect == Spec => []TypeOK
<1> QED BY InitType, StepType, PTL DEF Spec

-----------------------------------------------------------------------------
(* What the safety of the transcript rests on.  Who has a message to send, *)
(* and who may create the row.                                             *)

Unborn == ~created => state = "absent" /\ ~removed /\ \A v \in View : ~opened[v]
EmptyRow == IF state = "absent" THEN stored = {} ELSE revision >= 1
Fresh == state = "absent" /\ ~removed => \A v \in View : expected[v] = 0
OneCreator ==
    \A v, w \in View : opened[v] /\ opened[w] /\ expected[v] = 0 /\ expected[w] = 0 => v = w

Thread == Unborn /\ EmptyRow /\ Fresh /\ OneCreator /\ GoneForGood

(* A view that is not mounted holds nothing.                               *)
Closed(v) ==
    ~opened[v] => /\ expected[v] = 0 /\ queue[v] = <<>> /\ ~waiting[v] /\ wire[v] = NoSave
                  /\ shown[v] = {} /\ last[v] = {} /\ met[v] = {}

(* No view is ahead of the row.                                            *)
Behind(v) == state # "absent" => expected[v] <= revision

(* While a view may still create the row, it was not there before.         *)
First(v) ==
    /\ wire[v] # NoSave /\ expected[v] = 0 => state = "absent" /\ ~removed
    /\ opened[v] /\ expected[v] = 0 /\ ~waiting[v] /\ ~stuck[v] => state = "absent" /\ ~removed

(* A save on its way is of a view that is silent until it has an answer,   *)
(* at the revision the view holds.                                         *)
Sending(v) ==
    wire[v] # NoSave => /\ waiting[v] \/ stuck[v]
                        /\ wire[v].expected = expected[v]
                        /\ wire[v].snapshot \subseteq met[v]

(* What a view shows and has enqueued, it has displayed.                   *)
Displayed(v) ==
    /\ shown[v] \subseteq met[v]
    /\ \A i \in 1..Len(queue[v]) : queue[v][i] \subseteq met[v]

(* A view at the current revision has displayed the stored transcript.     *)
Current(v) == opened[v] /\ state # "absent" /\ expected[v] = revision => stored \subseteq met[v]

Quiet(v) == stuck[v] => ~waiting[v] /\ queue[v] = <<>>

Viewing(v) ==
    Closed(v) /\ Behind(v) /\ First(v) /\ Sending(v) /\ Displayed(v) /\ Current(v) /\ Quiet(v)

History == Thread /\ \A v \in View : Viewing(v)

LEMMA InitHistory == Init => History
BY DEF Init, History, Thread, Unborn, EmptyRow, Fresh, OneCreator, GoneForGood, Viewing, Closed,
       Behind, First, Sending, Displayed, Current, Quiet

(* A step that leaves transcript, views and the row's presence alone.      *)
LEMMA StillHistory ==
    ASSUME History, UNCHANGED <<revision, stored, removed, display, saver>>,
           state' = "absent" <=> state = "absent"
    PROVE  History'
BY DEF History, Thread, Unborn, EmptyRow, Fresh, OneCreator, GoneForGood, Viewing, Closed,
       Behind, First, Sending, Displayed, Current, Quiet

LEMMA RemovalHistory ==
    ASSUME History, state # "absent", RemoveRow, UNCHANGED <<display, saver>>
    PROVE  History'
BY DEF RemoveRow, History, Thread, Unborn, EmptyRow, Fresh, OneCreator, GoneForGood, Viewing, Closed,
       Behind, First, Sending, Displayed, Current, Quiet

LEMMA NewChatHistory ==
    ASSUME TypeOK, History, NEW v \in View, NewChat(v)
    PROVE  History'
<1>1. Thread'
  BY DEF NewChat, TypeOK, History, Thread, Unborn, EmptyRow, Fresh, OneCreator, GoneForGood
<1>2. ASSUME NEW w \in View PROVE Viewing(w)'
  BY DEF NewChat, TypeOK, History, Thread, Unborn, EmptyRow, Fresh, Viewing, Closed,
       Behind, First, Sending, Displayed, Current, Quiet
<1> QED BY <1>1, <1>2 DEF History

LEMMA LoadChatHistory ==
    ASSUME TypeOK, History, NEW v \in View, LoadChat(v)
    PROVE  History'
<1>1. Thread'
  BY DEF LoadChat, TypeOK, History, Thread, Unborn, EmptyRow, Fresh, OneCreator, GoneForGood
<1>2. ASSUME NEW w \in View PROVE Viewing(w)'
  <2>1. CASE w = v
    BY <2>1 DEF LoadChat, TypeOK, History, Thread, EmptyRow, Viewing, Closed,
         Behind, First, Sending, Displayed, Current, Quiet
  <2>2. CASE w # v
    BY <2>2 DEF LoadChat, TypeOK, History, Viewing, Closed,
         Behind, First, Sending, Displayed, Current, Quiet
  <2> QED BY <2>1, <2>2
<1> QED BY <1>1, <1>2 DEF History

LEMMA ConverseHistory ==
    ASSUME TypeOK, History, NEW v \in View, Converse(v)
    PROVE  History'
<1>1. PICK D \in SUBSET shown[v], N \in SUBSET (Msg \ UNION {met[w] : w \in View}) :
          /\ shown' = [shown EXCEPT ![v] = (@ \ D) \cup N]
          /\ met' = [met EXCEPT ![v] = @ \cup N]
  BY DEF Converse
<1>2. Thread'
  BY DEF Converse, TypeOK, History, Thread, Unborn, EmptyRow, Fresh, OneCreator, GoneForGood
<1>3. ASSUME NEW w \in View PROVE Viewing(w)'
  <2>1. met[w] \subseteq met'[w] /\ (w # v => UNCHANGED <<shown[w], met[w]>>)
    BY <1>1 DEF TypeOK
  <2>2. shown'[w] \subseteq met'[w]
    BY <1>1 DEF TypeOK, History, Viewing, Displayed
  <2>3. Displayed(w)'
    BY <2>1, <2>2 DEF Converse, History, Viewing, Displayed
  <2>4. Closed(w)'
    BY <2>1 DEF Converse, History, Viewing, Closed
  <2>5. Sending(w)' /\ Current(w)'
    BY <2>1 DEF Converse, History, Viewing, Sending, Current
  <2> QED BY <2>3, <2>4, <2>5 DEF Converse, History, Viewing, Behind, First, Quiet
<1> QED BY <1>2, <1>3 DEF History

LEMMA PersistHistory ==
    ASSUME TypeOK, History, NEW v \in View, PersistSnapshot(v)
    PROVE  History'
<1>1. Thread'
  BY DEF PersistSnapshot, TypeOK, History, Thread, Unborn, EmptyRow, Fresh, OneCreator, GoneForGood
<1>2. ASSUME NEW w \in View PROVE Viewing(w)'
  <2>1. CASE w = v
    <3> DEFINE q == queue[v]
    <3>1. q \in Seq(Transcript) /\ shown[v] \in Transcript
      BY DEF TypeOK
    <3>2. /\ Len(Append(q, shown[v])) = Len(q) + 1
          /\ Append(q, shown[v])[Len(q) + 1] = shown[v]
          /\ \A i \in 1..Len(q) : Append(q, shown[v])[i] = q[i]
      BY <3>1, AppendProperties
    <3>3. queue'[v] = q \/ (queue'[v] = Append(q, shown[v]) /\ ~stuck[v])
      <4>1. CASE stuck[v]
        BY <4>1 DEF PersistSnapshot
      <4>2. CASE ~stuck[v]
        <5>1. queue' = [queue EXCEPT ![v] = Append(queue[v], shown[v])]
          BY <4>2 DEF PersistSnapshot
        <5> QED BY <4>2, <5>1 DEF TypeOK
      <4> QED BY <4>1, <4>2
    <3>4. opened[v]
      BY DEF PersistSnapshot, History, Viewing, Closed
    <3>5. Displayed(v)'
      BY <3>1, <3>2, <3>3 DEF PersistSnapshot, History, Viewing, Displayed
    <3> QED BY <2>1, <3>3, <3>4, <3>5
         DEF PersistSnapshot, History, Viewing, Closed, Behind, First, Sending, Current, Quiet
  <2>2. CASE w # v
    BY <2>2 DEF PersistSnapshot, TypeOK, History, Viewing, Closed,
         Behind, First, Sending, Displayed, Current, Quiet
  <2> QED BY <2>1, <2>2
<1> QED BY <1>1, <1>2 DEF History

LEMMA SendHistory ==
    ASSUME TypeOK, History, NEW v \in View, SendSave(v)
    PROVE  History'
<1>1. Thread'
  BY DEF SendSave, TypeOK, History, Thread, Unborn, EmptyRow, Fresh, OneCreator, GoneForGood
<1>2. ASSUME NEW w \in View PROVE Viewing(w)'
  <2>1. CASE w = v
    <3> DEFINE q == queue[v]
    <3>1. q \in Seq(Transcript) /\ q # <<>>
      BY DEF TypeOK, SendSave
    <3>2. /\ Len(q) \in Nat /\ Len(q) >= 1 /\ Len(Tail(q)) = Len(q) - 1
          /\ \A i \in 1..Len(Tail(q)) : Tail(q)[i] = q[i + 1]
          /\ Head(q) = q[1]
      BY <3>1, HeadTailProperties, LenProperties
    <3>3. /\ queue'[v] = Tail(q) /\ waiting'[v]
          /\ wire'[v] = [snapshot |-> Head(q), expected |-> expected[v]]
      BY DEF SendSave, TypeOK
    <3>4. Head(q) \subseteq met[v]
      BY <3>1, <3>2 DEF History, Viewing, Displayed
    <3>5. Displayed(v)'
      BY <3>2, <3>3 DEF SendSave, History, Viewing, Displayed
    <3>6. opened[v] /\ ~stuck[v] /\ ~waiting[v]
      BY <3>1 DEF SendSave, History, Viewing, Closed, Quiet
    <3>7. wire'[v].expected = expected[v] /\ wire'[v].snapshot = Head(q)
      BY <3>3
    <3> QED BY <2>1, <3>3, <3>4, <3>5, <3>6, <3>7
         DEF SendSave, History, Viewing, Closed, Behind, First, Sending, Current, Quiet
  <2>2. CASE w # v
    BY <2>2 DEF SendSave, TypeOK, History, Viewing, Closed,
         Behind, First, Sending, Displayed, Current, Quiet
  <2> QED BY <2>1, <2>2
<1> QED BY <1>1, <1>2 DEF History

LEMMA LoseHistory ==
    ASSUME TypeOK, History, NEW v \in View, LoseConnection(v)
    PROVE  History'
<1>1. Thread'
  BY DEF LoseConnection, TypeOK, History, Thread, Unborn, EmptyRow, Fresh, OneCreator, GoneForGood
<1>2. ASSUME NEW w \in View PROVE Viewing(w)'
  <2>1. wire'[w] = wire[w] \/ wire'[w] = NoSave
    BY DEF LoseConnection, Forsake, TypeOK
  <2>2. CASE w = v
    <3>1. ~waiting'[v] /\ stuck'[v] /\ queue'[v] = <<>> /\ opened[v]
      BY DEF LoseConnection, Fail, TypeOK, History, Viewing, Closed
    <3>2. Len(queue'[v]) = 0
      BY <3>1
    <3>3. Displayed(v)'
      BY <3>2 DEF LoseConnection, History, Viewing, Displayed
    <3> QED BY <2>1, <2>2, <3>1, <3>3
         DEF LoseConnection, History, Viewing, Closed, Behind, First, Sending, Current, Quiet
  <2>3. CASE w # v
    <3>1. UNCHANGED <<waiting[w], stuck[w], queue[w]>>
      BY <2>3 DEF LoseConnection, Fail, TypeOK
    <3> QED BY <2>1, <2>3, <3>1 DEF LoseConnection, History, Viewing, Closed, Behind, First,
          Sending, Displayed, Current, Quiet
  <2> QED BY <2>2, <2>3
<1> QED BY <1>1, <1>2 DEF History

(* A save that lands: what becomes of the row and of the view.             *)
Takes(v) ==
    /\ Creates(wire[v]) \/ Overwrites(wire[v])
    /\ state' = "live"
    /\ revision' = expected[v] + 1
    /\ stored' = wire[v].snapshot
    /\ UNCHANGED <<stuck, queue>>
    /\ \/ ~waiting'[v] /\ expected'[v] = revision' /\ waiting[v]
       \/ UNCHANGED <<waiting[v], expected[v]>>
    /\ \A w \in View \ {v} : UNCHANGED <<waiting[w], expected[w]>>

Refuses(v) ==
    /\ UNCHANGED <<row, expected>>
    /\ \/ ~waiting'[v] /\ stuck'[v] /\ queue'[v] = <<>> /\ waiting[v]
       \/ UNCHANGED <<waiting[v], stuck[v], queue[v]>>
    /\ \A w \in View \ {v} : UNCHANGED <<waiting[w], stuck[w], queue[w]>>

LEMMA LandsEither ==
    ASSUME TypeOK, History, NEW v \in View, SaveLands(v)
    PROVE  /\ Takes(v) \/ Refuses(v)
           /\ wire[v] # NoSave /\ wire'[v] = NoSave
           /\ \A w \in View \ {v} : wire'[w] = wire[w]
           /\ opened[v] /\ expected[v] \in Nat
           /\ UNCHANGED <<display, removed, last, audit, selected, world, deleting, draft>>
<1>1. wire[v].expected = expected[v] /\ opened[v]
  BY DEF SaveLands, History, Viewing, Sending, Closed
<1>2. CASE Creates(wire[v]) \/ Overwrites(wire[v])
  BY <1>1, <1>2 DEF SaveLands, Takes, TypeOK
<1>3. CASE ~Creates(wire[v]) /\ ~Overwrites(wire[v])
  BY <1>1, <1>3 DEF SaveLands, Refuses, Fail, TypeOK
<1> QED BY <1>1, <1>2, <1>3 DEF SaveLands, TypeOK

LEMMA LandsHistory ==
    ASSUME TypeOK, History, NEW v \in View, SaveLands(v)
    PROVE  History'
<1>1. /\ wire[v] # NoSave /\ wire'[v] = NoSave
      /\ \A w \in View \ {v} : wire'[w] = wire[w]
      /\ opened[v] /\ expected[v] \in Nat /\ UNCHANGED <<display, removed, last>>
  BY LandsEither
<1>2. CASE Takes(v)
  <2>1. /\ wire[v].expected = expected[v] /\ wire[v].snapshot \subseteq met[v]
        /\ waiting[v] \/ stuck[v]
    BY <1>1 DEF History, Viewing, Sending
  <2>2. \/ state = "absent" /\ expected[v] = 0 /\ ~removed /\ \A w \in View : expected[w] = 0
        \/ state = "live" /\ revision = expected[v] /\ expected[v] # 0 /\ ~removed
    <3>1. CASE Creates(wire[v])
      BY <1>1, <2>1, <3>1 DEF Creates, History, Thread, Fresh, Viewing, First
    <3>2. CASE Overwrites(wire[v])
      BY <1>1, <2>1, <3>2 DEF Overwrites, History, Thread, GoneForGood, Viewing, First
    <3> QED BY <1>2, <3>1, <3>2 DEF Takes
  <2>3. revision' = expected[v] + 1 /\ revision' >= 1 /\ state' = "live"
    BY <1>1, <1>2 DEF Takes
  <2>4. \A w \in View : expected[w] \in Nat /\ expected[w] < revision'
    BY <1>1, <2>2, <2>3 DEF TypeOK, History, Viewing, Behind
  <2>5. \A w \in View : expected'[w] = expected[w] \/ (expected'[w] = revision' /\ w = v)
    BY <1>2 DEF Takes
  <2>6. OneCreator'
    BY <1>1, <2>3, <2>5 DEF History, Thread, OneCreator
  <2>7. Thread'
    BY <1>1, <2>2, <2>3, <2>6 DEF History, Thread, Unborn, EmptyRow, Fresh, GoneForGood
  <2>8. ASSUME NEW w \in View PROVE Viewing(w)'
    <3>1. CASE w = v
      <4>1. Closed(v)' /\ Sending(v)' /\ Behind(v)'
        BY <1>1, <2>3, <2>4, <2>5 DEF Closed, Sending, Behind
      <4>2. First(v)' /\ Quiet(v)'
        BY <1>1, <1>2, <2>1, <2>3 DEF Takes, History, Viewing, First, Quiet
      <4>3. Displayed(v)' /\ Current(v)'
        BY <1>1, <1>2, <2>1 DEF Takes, History, Viewing, Displayed, Current
      <4> QED BY <3>1, <4>1, <4>2, <4>3 DEF Viewing
    <3>2. CASE w # v
      <4>1. UNCHANGED <<waiting[w], expected[w], stuck[w], queue[w], wire[w]>>
        BY <1>1, <1>2, <3>2 DEF Takes
      <4>2. CASE state = "absent"
        <5>1. ~opened[w]
          BY <1>1, <2>2, <3>2, <4>2 DEF History, Thread, OneCreator
        <5> QED BY <1>1, <2>3, <2>4, <4>1, <5>1 DEF History, Viewing, Closed, Behind, First,
              Sending, Displayed, Current, Quiet
      <4>3. CASE state = "live"
        <5>1. First(w)'
          BY <1>1, <4>1, <4>3 DEF History, Viewing, First
        <5> QED BY <1>1, <2>3, <2>4, <4>1, <5>1 DEF History, Viewing, Closed, Behind,
              Sending, Displayed, Current, Quiet
      <4> QED BY <2>2, <4>2, <4>3
    <3> QED BY <3>1, <3>2
  <2> QED BY <2>7, <2>8 DEF History
<1>3. CASE Refuses(v)
  <2>1. Thread'
    BY <1>1, <1>3 DEF Refuses, History, Thread, Unborn, EmptyRow, Fresh, OneCreator, GoneForGood
  <2>2. ASSUME NEW w \in View PROVE Viewing(w)'
    <3>1. CASE w = v
      <4>1. queue'[v] = queue[v] \/ Len(queue'[v]) = 0
        BY <1>3 DEF Refuses
      <4>2. Displayed(v)'
        BY <1>1, <4>1 DEF History, Viewing, Displayed
      <4> QED BY <1>1, <1>3, <3>1, <4>2 DEF Refuses, History, Viewing, Closed, Behind, First,
            Sending, Current, Quiet
    <3>2. CASE w # v
      BY <1>1, <1>3, <3>2 DEF Refuses, History, Viewing, Closed, Behind, First,
            Sending, Displayed, Current, Quiet
    <3> QED BY <3>1, <3>2
  <2> QED BY <2>1, <2>2 DEF History
<1> QED BY <1>2, <1>3, LandsEither

LEMMA DeletingHistory ==
    ASSUME TypeOK, History, NEW b \in Sidebar, Deleting(b)
    PROVE  History'
<1>1. CASE RetireThread(b)
  BY <1>1, StillHistory DEF RetireThread, Retirable
<1>2. CASE RemoveThread(b)
  <2>1. CASE state = "live" /\ RemoveRow
    BY <1>2, <2>1, RemovalHistory DEF RemoveThread
  <2>2. CASE UNCHANGED <<row, removed>>
    BY <1>2, <2>2, StillHistory DEF RemoveThread
  <2> QED BY <1>2, <2>1, <2>2 DEF RemoveThread
<1>3. CASE ~RetireThread(b) /\ ~RemoveThread(b)
  BY <1>3, StillHistory
  DEF Deleting, ScheduleDeletion, CancelDeletion, CommitDeletion, DeletionFails, DecideDeletion
<1> QED BY <1>1, <1>2, <1>3

LEMMA RetentionHistory ==
    ASSUME History, PatchPolicy \/ Tick \/ RestoreRetained \/ Sweep \/ PruneAbandoned
    PROVE  History'
<1>1. CASE Sweep  BY <1>1, RemovalHistory DEF Sweep
<1>2. CASE RestoreRetained  BY <1>2, StillHistory DEF RestoreRetained
<1>3. CASE PatchPolicy \/ Tick \/ PruneAbandoned
  BY <1>3, StillHistory DEF PatchPolicy, Tick, PruneAbandoned
<1> QED BY <1>1, <1>2, <1>3

LEMMA StepHistory == TypeOK /\ History /\ [Next]_vars => History'
<1> SUFFICES ASSUME TypeOK, History, [Next]_vars PROVE History'
  OBVIOUS
<1>1. ASSUME NEW v \in View, Chat(v) PROVE History'
  BY <1>1, NewChatHistory, LoadChatHistory, ConverseHistory DEF Chat
<1>2. ASSUME NEW v \in View, Saving(v) PROVE History'
  BY <1>2, PersistHistory, SendHistory, LoseHistory, LandsHistory DEF Saving
<1>3. ASSUME NEW p \in Preview, ReadSelections(p) \/ WriteSelections(p) PROVE History'
  BY <1>3, StillHistory DEF ReadSelections, WriteSelections
<1>4. CASE UNCHANGED vars  BY <1>4, StillHistory DEF vars
<1> QED BY <1>1, <1>2, <1>3, <1>4, DeletingHistory, RetentionHistory DEF Next

LEMMA HistoryInvariant == Spec => [](TypeOK /\ History)
<1> QED BY InitType, StepType, InitHistory, StepHistory, PTL DEF Spec

(* A removed thread does not come back by a save that was on its way       *)
(* (saveThreadSnapshot creates only from revision zero).                   *)
THEOREM RemovedStaysGone == Spec => []GoneForGood
<1>1. History => GoneForGood  BY DEF History, Thread
<1> QED BY <1>1, HistoryInvariant, PTL

-----------------------------------------------------------------------------
(* Steps other than a save that lands leave the transcript as it is, or    *)
(* remove it with its row.                                                 *)
LEMMA TranscriptStep ==
    ASSUME [Next]_vars, \A v \in View : ~SaveLands(v)
    PROVE  \/ UNCHANGED <<stored, revision>>
           \/ state' = "absent"
<1>1. ASSUME NEW v \in View, Chat(v) \/ Saving(v) PROVE UNCHANGED <<stored, revision>>
  BY <1>1 DEF Chat, Saving, NewChat, LoadChat, Converse, PersistSnapshot, SendSave, LoseConnection
<1>2. ASSUME NEW b \in Sidebar, Deleting(b)
      PROVE UNCHANGED <<stored, revision>> \/ state' = "absent"
  BY <1>2 DEF Deleting, ScheduleDeletion, CancelDeletion, CommitDeletion, DeletionFails,
       DecideDeletion, RetireThread, RemoveThread, RemoveRow
<1>3. ASSUME NEW p \in Preview, ReadSelections(p) \/ WriteSelections(p)
      PROVE UNCHANGED <<stored, revision>>
  BY <1>3 DEF ReadSelections, WriteSelections
<1>4. CASE PatchPolicy \/ Tick \/ RestoreRetained \/ Sweep \/ PruneAbandoned
  BY <1>4 DEF PatchPolicy, Tick, RestoreRetained, Sweep, PruneAbandoned, RemoveRow
<1>5. CASE UNCHANGED vars  BY <1>5 DEF vars
<1> QED BY <1>1, <1>2, <1>3, <1>4, <1>5 DEF Next

(* No save drops a turn its view has not displayed, however late it lands  *)
(* (saveThreadSnapshot against ChatView's expected revision).              *)
THEOREM TurnsAreKept == Spec => NoTurnLost
<1> DEFINE Kept == state' # "absent" =>
         \A m \in stored \ stored' :
            \E v \in View : wire[v] # NoSave /\ wire'[v] = NoSave /\ m \in met[v]
<1>1. ASSUME TypeOK, History, [Next]_vars PROVE Kept
  <2>1. ASSUME NEW v \in View, SaveLands(v) PROVE Kept
    <3>1. wire[v] # NoSave /\ wire'[v] = NoSave /\ opened[v] /\ wire[v].expected = expected[v]
      BY <1>1, <2>1, LandsEither DEF History, Viewing, Sending
    <3>2. CASE Overwrites(wire[v])
      BY <1>1, <3>1, <3>2 DEF Overwrites, History, Viewing, Current
    <3>3. CASE Creates(wire[v])
      BY <1>1, <3>3 DEF Creates, History, Thread, EmptyRow
    <3>4. CASE ~Creates(wire[v]) /\ ~Overwrites(wire[v])
      BY <2>1, <3>4 DEF SaveLands
    <3> QED BY <3>2, <3>3, <3>4
  <2>2. CASE \A v \in View : ~SaveLands(v)
    BY <1>1, <2>2, TranscriptStep
  <2> QED BY <2>1, <2>2
<1>2. TypeOK /\ History /\ [Next]_vars => [Kept]_vars
  BY <1>1
<1> QED BY <1>2, HistoryInvariant, PTL DEF Spec, NoTurnLost

(* Nothing but its restoration or its purge, not before its date, touches  *)
(* a retained thread (deleteThread, runRetentionSweep).                    *)
THEOREM RetentionIsSealed == Spec => RetainedSealed
<1> DEFINE Sealed == state = "retained" =>
         \/ state' # "absent" /\ stored' = stored /\ revision' = revision
            /\ (state' = "retained" => purgeAfter' = purgeAfter)
         \/ state' = "absent" /\ purgeAfter <= now
<1>1. ASSUME [Next]_vars, state = "retained" PROVE Sealed
  <2>1. ASSUME NEW v \in View, Chat(v) PROVE Sealed
    BY <1>1, <2>1 DEF Chat, NewChat, LoadChat, Converse
  <2>2. ASSUME NEW v \in View, Saving(v) PROVE Sealed
    BY <1>1, <2>2 DEF Saving, PersistSnapshot, SendSave, LoseConnection, SaveLands, Creates,
         Overwrites
  <2>3. ASSUME NEW b \in Sidebar, Deleting(b) PROVE Sealed
    BY <1>1, <2>3 DEF Deleting, ScheduleDeletion, CancelDeletion, CommitDeletion, DeletionFails,
         DecideDeletion, RetireThread, Retirable, RemoveThread
  <2>4. ASSUME NEW p \in Preview, ReadSelections(p) \/ WriteSelections(p) PROVE Sealed
    BY <1>1, <2>4 DEF ReadSelections, WriteSelections
  <2>5. CASE PatchPolicy \/ Tick \/ RestoreRetained \/ Sweep \/ PruneAbandoned
    BY <1>1, <2>5 DEF PatchPolicy, Tick, RestoreRetained, Sweep, Due, RemoveRow, PruneAbandoned
  <2>6. CASE UNCHANGED vars  BY <1>1, <2>6 DEF vars
  <2> QED BY <1>1, <2>1, <2>2, <2>3, <2>4, <2>5, <2>6 DEF Next
<1>2. [Next]_vars => [Sealed]_vars
  BY <1>1
<1> QED BY <1>2, PTL DEF Spec, RetainedSealed

(* What the user protected in a live thread only a preview removes         *)
(* (deleteThread, pruneAbandonedThreadProtectedValues).                    *)
THEOREM LiveSelectionsAreKept == Spec => LiveKeepsSelections
<1>1. ASSUME TypeOK, [Next]_vars, state = "live", state' # "absent"
      PROVE  SelectionsKept({"live"})
  <2>1. ASSUME NEW p \in Preview, WriteSelections(p) PROVE SelectionsKept({"live"})
    <3>1. draft[p] # NoChange /\ draft'[p] = NoChange
      BY <1>1, <2>1 DEF WriteSelections, TypeOK
    <3>2. selected \ selected' \subseteq draft[p].remove
      BY <2>1 DEF WriteSelections
    <3> QED BY <3>1, <3>2 DEF SelectionsKept
  <2>2. CASE \A p \in Preview : ~WriteSelections(p)
    <3>1. ASSUME NEW v \in View, Chat(v) \/ Saving(v) PROVE selected' = selected
      BY <3>1 DEF Chat, Saving, NewChat, LoadChat, Converse, PersistSnapshot, SendSave,
           LoseConnection, SaveLands
    <3>2. ASSUME NEW b \in Sidebar, Deleting(b) PROVE selected' = selected
      BY <1>1, <3>2 DEF Deleting, ScheduleDeletion, CancelDeletion, CommitDeletion, DeletionFails,
           DecideDeletion, RetireThread, RemoveThread, RemoveRow
    <3>3. ASSUME PatchPolicy \/ Tick \/ RestoreRetained \/ Sweep \/ PruneAbandoned
          PROVE  selected' = selected
      BY <1>1, <3>3 DEF PatchPolicy, Tick, RestoreRetained, Sweep, RemoveRow, PruneAbandoned,
           Abandoned
    <3>4. ASSUME UNCHANGED vars PROVE selected' = selected
      BY <3>4 DEF vars
    <3>5. selected' = selected
      BY <1>1, <2>2, <3>1, <3>2, <3>3, <3>4 DEF Next, ReadSelections
    <3> QED BY <3>5 DEF SelectionsKept
  <2> QED BY <2>1, <2>2
<1>2. TypeOK /\ [Next]_vars => [SelectionsKept({"live"})]_vars
  BY <1>1 DEF SelectionsKept
<1> QED BY <1>2, InitType, StepType, PTL DEF Spec, LiveKeepsSelections

-----------------------------------------------------------------------------
(* No snapshot is lost in silence.  The newest one is the last in the      *)
(* queue, the one on its way, or what the row has.                         *)

Enqueued(v) == queue[v] # <<>> => queue[v][Len(queue[v])] = last[v]
Underway(v) == waiting[v] /\ queue[v] = <<>> /\ wire[v] # NoSave => wire[v].snapshot = last[v]
Arrived(v) ==
    (/\ opened[v] /\ state # "absent" /\ expected[v] = revision
     /\ ~stuck[v] /\ ~waiting[v] /\ queue[v] = <<>>)
    => stored = last[v]

Tracked == \A v \in View : Enqueued(v) /\ Underway(v) /\ Arrived(v)

LEMMA InitTracked == Init => Tracked
BY DEF Init, Tracked, Enqueued, Underway, Arrived

LEMMA StillTracked ==
    ASSUME Tracked, UNCHANGED <<revision, stored, display, saver>>,
           state' = "absent" <=> state = "absent"
    PROVE  Tracked'
BY DEF Tracked, Enqueued, Underway, Arrived

LEMMA RemovalTracked ==
    ASSUME Tracked, RemoveRow, UNCHANGED <<display, saver>>
    PROVE  Tracked'
BY DEF RemoveRow, Tracked, Enqueued, Underway, Arrived

LEMMA ChatTracked ==
    ASSUME TypeOK, History, Tracked, NEW v \in View, Chat(v)
    PROVE  Tracked'
<1>1. CASE NewChat(v)
  BY <1>1 DEF NewChat, History, Thread, Unborn, Tracked, Enqueued, Underway, Arrived
<1>2. CASE LoadChat(v)
  <2>1. queue[v] = <<>> /\ ~waiting[v]
    BY <1>2 DEF LoadChat, History, Viewing, Closed
  <2>2. ASSUME NEW w \in View PROVE Enqueued(w)' /\ Underway(w)' /\ Arrived(w)'
    <3>1. CASE w = v
      BY <1>2, <2>1, <3>1 DEF LoadChat, TypeOK, Enqueued, Underway, Arrived
    <3>2. CASE w # v
      BY <1>2, <3>2 DEF LoadChat, TypeOK, Tracked, Enqueued, Underway, Arrived
    <3> QED BY <3>1, <3>2
  <2> QED BY <2>2 DEF Tracked
<1>3. CASE Converse(v)
  BY <1>3 DEF Converse, Tracked, Enqueued, Underway, Arrived
<1> QED BY <1>1, <1>2, <1>3 DEF Chat

LEMMA PersistTracked ==
    ASSUME TypeOK, History, Tracked, NEW v \in View, PersistSnapshot(v)
    PROVE  Tracked'
<1>1. ASSUME NEW w \in View PROVE Enqueued(w)' /\ Underway(w)' /\ Arrived(w)'
  <2>1. CASE w # v
    BY <2>1 DEF PersistSnapshot, TypeOK, Tracked, Enqueued, Underway, Arrived
  <2>2. CASE w = v /\ stuck[v]
    <3>1. ~waiting[v] /\ queue[v] = <<>> /\ queue' = queue
      BY <2>2 DEF PersistSnapshot, History, Viewing, Quiet
    <3> QED BY <2>2, <3>1 DEF PersistSnapshot, Enqueued, Underway, Arrived
  <2>3. CASE w = v /\ ~stuck[v]
    <3> DEFINE q == queue[v]
    <3>1. q \in Seq(Transcript) /\ shown[v] \in Transcript
      BY DEF TypeOK
    <3>2. /\ Len(Append(q, shown[v])) = Len(q) + 1 /\ Append(q, shown[v]) # <<>>
          /\ Append(q, shown[v])[Len(q) + 1] = shown[v]
      BY <3>1, AppendProperties
    <3>3. queue' = [queue EXCEPT ![v] = Append(queue[v], shown[v])]
      BY <2>3 DEF PersistSnapshot
    <3>4. queue'[v] = Append(q, shown[v]) /\ last'[v] = shown[v]
      BY <3>3 DEF PersistSnapshot, TypeOK
    <3> QED BY <2>3, <3>2, <3>4 DEF Enqueued, Underway, Arrived
  <2> QED BY <2>1, <2>2, <2>3
<1> QED BY <1>1 DEF Tracked

LEMMA SendTracked ==
    ASSUME TypeOK, Tracked, NEW v \in View, SendSave(v)
    PROVE  Tracked'
<1>1. ASSUME NEW w \in View PROVE Enqueued(w)' /\ Underway(w)' /\ Arrived(w)'
  <2>1. CASE w # v
    BY <2>1 DEF SendSave, TypeOK, Tracked, Enqueued, Underway, Arrived
  <2>2. CASE w = v
    <3> DEFINE q == queue[v]
    <3>1. q \in Seq(Transcript) /\ q # <<>> /\ q[Len(q)] = last[v]
      BY DEF TypeOK, SendSave, Tracked, Enqueued
    <3>2. /\ Len(q) \in Nat /\ Len(q) >= 1 /\ Len(Tail(q)) = Len(q) - 1
          /\ Tail(q) \in Seq(Transcript)
          /\ \A i \in 1..Len(Tail(q)) : Tail(q)[i] = q[i + 1]
          /\ Head(q) = q[1]
      BY <3>1, HeadTailProperties, LenProperties
    <3>3. Tail(q) # <<>> => Tail(q)[Len(Tail(q))] = last[v]
      <4>1. SUFFICES ASSUME Tail(q) # <<>> PROVE Tail(q)[Len(Tail(q))] = last[v]
        OBVIOUS
      <4>2. Len(Tail(q)) \in 1..Len(Tail(q)) /\ Len(Tail(q)) + 1 = Len(q)
        BY <3>2, <4>1
      <4> QED BY <3>1, <3>2, <4>2
    <3>4. Tail(q) = <<>> => Head(q) = last[v]
      <4>1. SUFFICES ASSUME Tail(q) = <<>> PROVE Head(q) = last[v]
        OBVIOUS
      <4>2. Len(Tail(q)) = 0
        BY <3>2, <4>1, EmptySeq
      <4>3. Len(q) = 1
        BY <3>2, <4>2
      <4> QED BY <3>1, <3>2, <4>3
    <3>5. /\ queue'[v] = Tail(q) /\ waiting'[v] /\ last'[v] = last[v]
          /\ wire'[v] = [snapshot |-> Head(q), expected |-> expected[v]]
      BY DEF SendSave, TypeOK
    <3>6. wire'[v].snapshot = Head(q)
      BY <3>5
    <3> QED BY <2>2, <3>3, <3>4, <3>5, <3>6 DEF Enqueued, Underway, Arrived
  <2> QED BY <2>1, <2>2
<1> QED BY <1>1 DEF Tracked

LEMMA LoseTracked ==
    ASSUME TypeOK, Tracked, NEW v \in View, LoseConnection(v)
    PROVE  Tracked'
<1>1. ASSUME NEW w \in View PROVE Enqueued(w)' /\ Underway(w)' /\ Arrived(w)'
  <2>1. CASE w # v
    <3>1. UNCHANGED <<waiting[w], stuck[w], queue[w], wire[w]>>
      BY <2>1 DEF LoseConnection, Fail, Forsake, TypeOK
    <3> QED BY <3>1 DEF LoseConnection, Tracked, Enqueued, Underway, Arrived
  <2>2. CASE w = v
    <3>1. stuck'[v] /\ ~waiting'[v] /\ queue'[v] = <<>>
      BY DEF LoseConnection, Fail, TypeOK
    <3> QED BY <2>2, <3>1 DEF Enqueued, Underway, Arrived
  <2> QED BY <2>1, <2>2
<1> QED BY <1>1 DEF Tracked

LEMMA LandsTracked ==
    ASSUME TypeOK, History, Tracked, NEW v \in View, SaveLands(v)
    PROVE  Tracked'
<1>1. /\ wire[v] # NoSave /\ wire'[v] = NoSave
      /\ \A w \in View \ {v} : wire'[w] = wire[w]
      /\ opened[v] /\ expected[v] \in Nat /\ UNCHANGED <<display, last>>
  BY LandsEither
<1>2. CASE Takes(v)
  <2>1. \A w \in View : expected[w] # revision'
    <3>1. wire[v].expected = expected[v] /\ revision' = expected[v] + 1
      BY <1>1, <1>2 DEF Takes, History, Viewing, Sending
    <3>2. CASE Creates(wire[v])
      <4>1. expected[v] = 0 /\ state = "absent"
        BY <3>1, <3>2 DEF Creates
      <4>2. ~removed
        BY <1>1, <4>1 DEF History, Viewing, First
      <4> QED BY <3>1, <4>1, <4>2 DEF History, Thread, Fresh
    <3>3. CASE Overwrites(wire[v])
      BY <1>1, <3>1, <3>3 DEF Overwrites, TypeOK, History, Viewing, Behind
    <3> QED BY <1>2, <3>2, <3>3 DEF Takes
  <2>2. ASSUME NEW w \in View PROVE Enqueued(w)' /\ Underway(w)' /\ Arrived(w)'
    <3>1. CASE w # v
      BY <1>1, <1>2, <2>1, <3>1 DEF Takes, Tracked, Enqueued, Underway, Arrived
    <3>2. CASE w = v
      <4>1. Enqueued(v)' /\ Underway(v)'
        BY <1>1, <1>2 DEF Takes, Tracked, Enqueued, Underway
      <4>2. ASSUME expected'[v] = expected[v] PROVE Arrived(v)'
        BY <2>1, <4>2 DEF Arrived
      <4>3. ASSUME waiting[v] PROVE Arrived(v)'
        <5>1. queue'[v] = <<>> => stored' = last'[v]
          BY <1>1, <1>2, <4>3 DEF Takes, Tracked, Underway
        <5> QED BY <5>1 DEF Arrived
      <4> QED BY <1>2, <3>2, <4>1, <4>2, <4>3 DEF Takes
    <3> QED BY <3>1, <3>2
  <2> QED BY <2>2 DEF Tracked
<1>3. CASE Refuses(v)
  <2>1. ASSUME NEW w \in View PROVE Enqueued(w)' /\ Underway(w)' /\ Arrived(w)'
    <3>1. CASE w # v
      BY <1>1, <1>3, <3>1 DEF Refuses, Tracked, Enqueued, Underway, Arrived
    <3>2. CASE w = v
      BY <1>1, <1>3, <3>2 DEF Refuses, Tracked, Enqueued, Underway, Arrived
    <3> QED BY <3>1, <3>2
  <2> QED BY <2>1 DEF Tracked
<1> QED BY <1>2, <1>3, LandsEither

LEMMA StepTracked == TypeOK /\ History /\ Tracked /\ [Next]_vars => Tracked'
<1> SUFFICES ASSUME TypeOK, History, Tracked, [Next]_vars PROVE Tracked'
  OBVIOUS
<1>1. ASSUME NEW v \in View, Saving(v) PROVE Tracked'
  BY <1>1, PersistTracked, SendTracked, LoseTracked, LandsTracked DEF Saving
<1>2. ASSUME NEW b \in Sidebar, Deleting(b) PROVE Tracked'
  <2>1. CASE RetireThread(b)
    BY <2>1, StillTracked DEF RetireThread, Retirable
  <2>2. CASE RemoveThread(b)
    BY <2>2, StillTracked, RemovalTracked DEF RemoveThread
  <2>3. CASE ~RetireThread(b) /\ ~RemoveThread(b)
    BY <1>2, <2>3, StillTracked
    DEF Deleting, ScheduleDeletion, CancelDeletion, CommitDeletion, DeletionFails, DecideDeletion
  <2> QED BY <2>1, <2>2, <2>3
<1>3. ASSUME NEW p \in Preview, ReadSelections(p) \/ WriteSelections(p) PROVE Tracked'
  BY <1>3, StillTracked DEF ReadSelections, WriteSelections
<1>4. CASE PatchPolicy \/ Tick \/ RestoreRetained \/ PruneAbandoned
  BY <1>4, StillTracked DEF PatchPolicy, Tick, RestoreRetained, PruneAbandoned
<1>5. CASE Sweep  BY <1>5, RemovalTracked DEF Sweep
<1>6. CASE UNCHANGED vars  BY <1>6, StillTracked DEF vars
<1> QED BY <1>1, <1>2, <1>3, <1>4, <1>5, <1>6, ChatTracked DEF Next

(* A view at the current revision, with nothing to send and no failed      *)
(* save, has its last snapshot stored (createTranscriptSaver).             *)
THEOREM NothingLostInSilence == Spec => []SavedOrStuck
<1>1. Tracked => SavedOrStuck  BY DEF Tracked, Arrived, SavedOrStuck
<1> QED BY <1>1, HistoryInvariant, InitTracked, StepTracked, PTL DEF Spec

-----------------------------------------------------------------------------
(* The lifecycle events.                                                   *)

PurgedGone == audit # <<>> /\ Last(audit) = "purged" => removed

Told == AuditTells /\ PurgedGone

LEMMA TellsMore ==
    ASSUME TypeOK, AuditTells, NEW e \in {"deleted", "restored", "purged"},
           audit' = Append(audit, e), state' = "retained" <=> e = "deleted",
           audit # <<>> => Last(audit) # "purged" /\ (Last(audit) = "deleted" <=> e # "deleted")
    PROVE  AuditTells' /\ audit' # <<>> /\ Last(audit') = e
<1> DEFINE E == {"deleted", "restored", "purged"}
<1>0. audit \in Seq(E) /\ e \in E
  BY DEF TypeOK
<1>1. /\ Len(audit) \in Nat /\ Len(audit') = Len(audit) + 1 /\ audit' # <<>>
      /\ audit'[Len(audit')] = e
      /\ \A i \in 1..Len(audit) : audit'[i] = audit[i]
  <2>1. Len(audit) \in Nat
    BY <1>0, LenProperties
  <2>2. /\ Len(Append(audit, e)) = Len(audit) + 1 /\ Append(audit, e) # <<>>
        /\ Append(audit, e)[Len(audit) + 1] = e
        /\ \A i \in 1..Len(audit) : Append(audit, e)[i] = audit[i]
    BY <1>0, AppendProperties
  <2> QED BY <2>1, <2>2
<1>2. Last(audit') = e /\ Last(audit) = audit[Len(audit)]
  BY <1>1 DEF Last
<1>3. ASSUME NEW i \in 1..(Len(audit') - 1)
      PROVE  audit'[i] # "purged" /\ (audit'[i] = "deleted" <=> audit'[i + 1] # "deleted")
  <2>1. CASE i = Len(audit)
    <3>1. audit # <<>>
      BY <1>1, <2>1
    <3> QED BY <1>1, <1>2, <2>1, <3>1
  <2>2. CASE i # Len(audit)
    <3>1. i \in 1..(Len(audit) - 1) /\ i \in 1..Len(audit) /\ i + 1 \in 1..Len(audit)
      BY <1>1, <2>2
    <3> QED BY <1>1, <3>1 DEF AuditTells
  <2> QED BY <2>1, <2>2
<1> QED BY <1>1, <1>2, <1>3 DEF AuditTells

LEMMA TellsNothing ==
    ASSUME Told, audit' = audit, state' = "retained" <=> state = "retained", removed => removed'
    PROVE  Told'
BY DEF Told, AuditTells, PurgedGone, Last

LEMMA InitTold == Init => Told
BY DEF Init, Told, AuditTells, PurgedGone

LEMMA StepTold == TypeOK /\ GoneForGood /\ Told /\ [Next]_vars => Told'
<1> SUFFICES ASSUME TypeOK, GoneForGood, Told, [Next]_vars PROVE Told'
  OBVIOUS
<1>1. ASSUME NEW v \in View, Chat(v) PROVE Told'
  BY <1>1, TellsNothing DEF Chat, NewChat, LoadChat, Converse
<1>2. ASSUME NEW v \in View, Saving(v) PROVE Told'
  BY <1>2, TellsNothing
  DEF Saving, PersistSnapshot, SendSave, LoseConnection, SaveLands, Creates, Overwrites
<1>3. ASSUME NEW b \in Sidebar, RetireThread(b) PROVE Told'
  <2>1. CASE state = "live"
    <3>1. audit # <<>> => Last(audit) # "purged" /\ Last(audit) # "deleted"
      BY <2>1 DEF Told, AuditTells, PurgedGone, GoneForGood
    <3>2. audit' = Append(audit, "deleted") /\ state' = "retained"
      BY <1>3, <2>1 DEF RetireThread, Retirable
    <3>3. AuditTells' /\ audit' # <<>> /\ Last(audit') = "deleted"
      BY <3>1, <3>2, TellsMore DEF Told
    <3> QED BY <3>3 DEF Told, PurgedGone
  <2>2. CASE state # "live"
    BY <1>3, <2>2, TellsNothing DEF RetireThread, Retirable
  <2> QED BY <2>1, <2>2
<1>4. ASSUME NEW b \in Sidebar, Deleting(b), ~RetireThread(b) PROVE Told'
  BY <1>4, TellsNothing DEF Deleting, ScheduleDeletion, CancelDeletion, CommitDeletion,
    DeletionFails, DecideDeletion, RemoveThread, RemoveRow
<1>5. ASSUME NEW p \in Preview, ReadSelections(p) \/ WriteSelections(p) PROVE Told'
  BY <1>5, TellsNothing DEF ReadSelections, WriteSelections
<1>6. CASE PatchPolicy \/ Tick \/ PruneAbandoned
  BY <1>6, TellsNothing DEF PatchPolicy, Tick, PruneAbandoned
<1>7. CASE RestoreRetained
  <2>1. audit' = Append(audit, "restored") /\ state' = "live" /\ Last(audit) = "deleted"
    BY <1>7 DEF RestoreRetained, Told, AuditTells
  <2>2. AuditTells' /\ audit' # <<>> /\ Last(audit') = "restored"
    BY <2>1, TellsMore DEF Told
  <2> QED BY <2>2 DEF Told, PurgedGone
<1>8. CASE Sweep
  <2>1. /\ audit' = Append(audit, "purged") /\ state' = "absent" /\ removed'
        /\ Last(audit) = "deleted"
    BY <1>8 DEF Sweep, RemoveRow, Told, AuditTells
  <2>2. AuditTells'
    BY <2>1, TellsMore DEF Told
  <2> QED BY <2>1, <2>2 DEF Told, PurgedGone
<1>9. CASE UNCHANGED vars  BY <1>9, TellsNothing DEF vars
<1> QED BY <1>1, <1>2, <1>3, <1>4, <1>5, <1>6, <1>7, <1>8, <1>9 DEF Next

(* The lifecycle events say where the thread is (deleteThread,             *)
(* restoreRetainedThread, runRetentionSweep).                              *)
THEOREM EventsTellTheState == Spec => []AuditTells
<1>1. History => GoneForGood  BY DEF History, Thread
<1>2. Told => AuditTells  BY DEF Told
<1> QED BY <1>1, <1>2, HistoryInvariant, InitTold, StepTold, PTL DEF Spec

(* A removed thread stays removed and its events tell so (store.server.ts,   *)
(* deleteThread, saveThread).                                               *)
THEOREM RemovalsAreFinal == Spec => []RemovalIsFinal
BY RemovedStaysGone, EventsTellTheState, PTL DEF RemovalIsFinal

(* A live thread keeps its protected values and a retained one everything   *)
(* (store.server.ts, saveThread, deleteThread, pruneDeletedThreads).        *)
THEOREM ContentsAreKept == Spec => ContentsHold
BY RetentionIsSealed, LiveSelectionsAreKept DEF ContentsHold

=============================================================================
