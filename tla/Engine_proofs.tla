--------------------------- MODULE Engine_proofs ---------------------------
(* Proofs about three parts of the engine and the proxy that share no state:  *)
(* JSON bodies (JsonBodies), streamed answers (StreamRestore) and the text of  *)
(* a body (BodyText).                                                         *)
(*                                                                           *)
(* StreamRestore: for any tokens, surfaces, policies and numbers of events no *)
(* tool block ever holds a value its policy withholds (StreamKeepsSecrets).   *)
(* The invariant says of every block what it holds and what it was given, and *)
(* that what waits in it is shorter than a token, so no flush gives a token   *)
(* in two pieces.  The filter of forged markers gives, however a body is cut,  *)
(* what it makes of the whole (FilteredAsAWhole): what it has given is that    *)
(* of a prefix which ends within no run of backslashes and begins no escape,  *)
(* and what waits is such a run.                                              *)
(*                                                                           *)
(* JsonBodies: for any bodies, values and layers a body passes the gate with  *)
(* no value to be read in it but a bare number's, an answer can be read       *)
(* (BodiesReadBack), and a tool call receives what its policy lets it         *)
(* (CallsKeepPolicy).  A body is treated in one step and the layers do not    *)
(* change afterwards, so the invariant is the property; the argument is about *)
(* the operators.                                                             *)
(*                                                                           *)
(* BodyText: for any bodies, claims, categories and findings each character   *)
(* goes to the claim that ranks first over it (EveryClaimIsOwned), and what   *)
(* the engine wrote once it never claims again (TokensAreSpared).  The        *)
(* argument: every occurrence lies in its leaf, Beats orders those of a leaf  *)
(* totally, between two neighbouring boundaries the claims are the same, so   *)
(* the slices partition what is claimed, and each lies within its owner       *)
(* (SlicesCover, SlicesApart, SliceWithin).  The module computes positions,   *)
(* matches and texts by recursive functions and FlattenSeq; what those give   *)
(* is proved by induction over the naturals, as a set (NatSet, LeastNat).     *)
EXTENDS JsonBodies, StreamRestore, BodyText, SequenceTheorems, FiniteSetTheorems, WellFoundedInduction, TLAPS

-----------------------------------------------------------------------------
(* Induction, and what FlattenSeq puts together                              *)

LEMMA NatSet ==
    ASSUME NEW S, 0 \in S, \A n \in Nat : n \in S => n + 1 \in S
    PROVE  Nat \subseteq S
<1> DEFINE T == Nat \ S
           R == OpToRel(<, Nat)
<1> SUFFICES ASSUME T # {} PROVE FALSE  OBVIOUS
<1>1. PICK x \in T : \A y \in T : ~(<<y, x>> \in R)
  <2>1. IsWellFoundedOn(R, Nat)  BY NatLessThanWellFounded
  <2>2. T \subseteq Nat  OBVIOUS
  <2> HIDE DEF T, R
  <2> QED BY <2>1, <2>2, WFMin
<1>2. x \in Nat /\ x # 0  OBVIOUS
<1>3. x - 1 \in Nat  BY <1>2
<1>4. x - 1 \in S
  <2> SUFFICES ASSUME x - 1 \notin S PROVE FALSE  OBVIOUS
  <2>1. x - 1 \in T  BY <1>3
  <2>2. <<x - 1, x>> \in R  BY <1>2, <1>3 DEF OpToRel
  <2> QED BY <1>1, <2>1, <2>2
<1>5. (x - 1) + 1 \in S  BY <1>3, <1>4
<1> QED BY <1>2, <1>5

LEMMA LeastNat ==
    ASSUME NEW T, T \subseteq Nat, T # {}
    PROVE  \E x \in T : \A y \in T : x <= y
<1>1. IsWellFoundedOn(OpToRel(<, Nat), Nat)  BY NatLessThanWellFounded
<1>2. PICK x \in T : \A y \in T : ~(<<y, x>> \in OpToRel(<, Nat))
  <2> DEFINE R == OpToRel(<, Nat)
  <2>1. IsWellFoundedOn(R, Nat)  BY <1>1
  <2> HIDE DEF R
  <2>2. \E x \in T : \A y \in T : ~(<<y, x>> \in R)  BY <2>1, WFMin
  <2> QED BY <2>2 DEF R
<1>3. ASSUME NEW y \in T PROVE x <= y
  <2>1. ~(y < x)  BY <1>2, <1>3, ZenonT(20) DEF OpToRel
  <2>2. x \in Nat /\ y \in Nat  OBVIOUS
  <2> QED BY <2>1, <2>2
<1> QED BY <1>3

Assembled(ss) == CHOOSE f : f = [i \in 1 .. Len(ss) |-> IF i = 1 THEN ss[i] ELSE f[i - 1] \o ss[i]]

(* What FlattenSeq computes, as the parts it puts together one by one.       *)
LEMMA FlattenParts ==
    ASSUME NEW S, NEW ss \in Seq(Seq(S)), ss # <<>>
    PROVE  \E f \in [1 .. Len(ss) -> Seq(S)] :
              /\ f[1] = ss[1]
              /\ \A i \in 2 .. Len(ss) : f[i] = f[i - 1] \o ss[i]
              /\ FlattenSeq(ss) = f[Len(ss)]
<1> DEFINE n == Len(ss)
           Step(f, i) == IF i = 1 THEN ss[i] ELSE f[i - 1] \o ss[i]
           P == {m \in Nat : m <= n => \E f \in [1 .. m -> Seq(S)] : \A i \in 1 .. m : f[i] = Step(f, i)}
<1>0. n \in Nat /\ n # 0 /\ \A i \in 1 .. n : ss[i] \in Seq(S)  OBVIOUS
<1>1. Nat \subseteq P
  <2>1. 0 \in P
    <3>1. [i \in 1 .. 0 |-> <<>>] \in [1 .. 0 -> Seq(S)]  OBVIOUS
    <3>2. \A i \in 1 .. 0 : FALSE  OBVIOUS
    <3>3. \E f \in [1 .. 0 -> Seq(S)] : \A i \in 1 .. 0 : f[i] = Step(f, i)
      <4> HIDE DEF Step
      <4> QED BY <3>1, <3>2
    <3> HIDE DEF Step, n
    <3> QED BY <3>3 DEF P
  <2>2. ASSUME NEW m \in Nat, m \in P PROVE m + 1 \in P
    <3> SUFFICES ASSUME m + 1 <= n
                 PROVE  \E f \in [1 .. m + 1 -> Seq(S)] : \A i \in 1 .. m + 1 : f[i] = Step(f, i)
      BY DEF P
    <3>1. PICK g \in [1 .. m -> Seq(S)] : \A i \in 1 .. m : g[i] = Step(g, i)
      <4>1. m <= n  BY <1>0
      <4> HIDE DEF Step, n
      <4> QED BY <4>1, <2>2 DEF P
    <3> DEFINE h == [i \in 1 .. m + 1 |-> IF i = m + 1 THEN Step(g, i) ELSE g[i]]
    <3>2. Step(g, m + 1) \in Seq(S)
      <4>1. CASE m = 0  BY <4>1, <1>0
      <4>2. CASE m # 0
        <5>1. g[m] \in Seq(S) /\ ss[m + 1] \in Seq(S)  BY <4>2, <1>0
        <5>2. g[m] \o ss[m + 1] \in Seq(S)  BY <5>1, ConcatProperties
        <5>3. m + 1 # 1 /\ (m + 1) - 1 = m  BY <4>2
        <5> QED BY <5>2, <5>3
      <4> QED BY <4>1, <4>2
    <3>3. h \in [1 .. m + 1 -> Seq(S)]
      <4> HIDE DEF Step
      <4> QED BY <3>2
    <3>4. \A i \in 1 .. m : h[i] = g[i]
      <4> HIDE DEF Step
      <4>1. \A i \in 1 .. m : i \in 1 .. m + 1 /\ i # m + 1  OBVIOUS
      <4> QED BY <4>1
    <3>5. h[m + 1] = Step(g, m + 1)
      <4> HIDE DEF Step
      <4> QED OBVIOUS
    <3>6. ASSUME NEW i \in 1 .. m + 1 PROVE h[i] = Step(h, i)
      <4>1. i = 1 \/ i - 1 \in 1 .. m  OBVIOUS
      <4>2. i = 1 \/ h[i - 1] = g[i - 1]  BY <4>1, <3>4
      <4> HIDE DEF h
      <4>3. Step(h, i) = Step(g, i)  BY <4>2
      <4>4. h[i] = Step(g, i)
        <5> HIDE DEF Step
        <5>1. CASE i = m + 1  BY <5>1, <3>5
        <5>2. CASE i # m + 1
          <6>1. i \in 1 .. m  BY <5>2
          <6> QED BY <6>1, <3>1, <3>4
        <5> QED BY <5>1, <5>2
      <4> QED BY <4>3, <4>4
    <3> HIDE DEF h, Step
    <3> QED BY <3>3, <3>6
  <2> HIDE DEF P
  <2> QED BY <2>1, <2>2, NatSet
<1>2. PICK f \in [1 .. n -> Seq(S)] : \A i \in 1 .. n : f[i] = Step(f, i)
  <2>1. n \in P /\ n <= n
    <3> HIDE DEF P, n
    <3> QED BY <1>1, <1>0
  <2> HIDE DEF Step, n
  <2> QED BY <2>1 DEF P
<1>3. f = [i \in 1 .. Len(ss) |-> IF i = 1 THEN ss[i] ELSE f[i - 1] \o ss[i]]
  BY <1>2
<1>4. Assembled(ss) = [i \in 1 .. Len(ss) |-> IF i = 1 THEN ss[i] ELSE Assembled(ss)[i - 1] \o ss[i]]
  BY <1>3 DEF Assembled
<1>5. FlattenSeq(ss) = Assembled(ss)[n]
  <2>1. Len(ss) # 0  BY <1>0
  <2> QED BY <2>1 DEF FlattenSeq, Assembled
<1>6. \A g : g = [i \in 1 .. Len(ss) |-> IF i = 1 THEN ss[i] ELSE g[i - 1] \o ss[i]] => \A i \in 1 .. n : g[i] = f[i]
  <2> SUFFICES ASSUME NEW g, g = [i \in 1 .. Len(ss) |-> IF i = 1 THEN ss[i] ELSE g[i - 1] \o ss[i]]
               PROVE  \A i \in 1 .. n : g[i] = f[i]
    OBVIOUS
  <2> DEFINE Q == {m \in Nat : m \in 1 .. n => g[m] = f[m]}
  <2>1. 0 \in Q  OBVIOUS
  <2>2. ASSUME NEW m \in Nat, m \in Q PROVE m + 1 \in Q
    <3> SUFFICES ASSUME m + 1 \in 1 .. n PROVE g[m + 1] = f[m + 1]  OBVIOUS
    <3>0. m + 1 \in 1 .. Len(ss) /\ (m + 1) - 1 = m  OBVIOUS
    <3>1. g[m + 1] = IF m + 1 = 1 THEN ss[m + 1] ELSE g[m] \o ss[m + 1]
      <4>1. g[m + 1] = IF m + 1 = 1 THEN ss[m + 1] ELSE g[(m + 1) - 1] \o ss[m + 1]  BY <3>0
      <4> QED BY <4>1, <3>0
    <3>2. f[m + 1] = IF m + 1 = 1 THEN ss[m + 1] ELSE f[m] \o ss[m + 1]
      <4>1. f[m + 1] = IF m + 1 = 1 THEN ss[m + 1] ELSE f[(m + 1) - 1] \o ss[m + 1]  BY <3>0, <1>2
      <4> QED BY <4>1, <3>0
    <3>3. m # 0 => g[m] = f[m]  BY <2>2
    <3> QED BY <3>1, <3>2, <3>3
  <2> HIDE DEF Q
  <2>3. Nat \subseteq Q  BY <2>1, <2>2, NatSet
  <2>4. ASSUME NEW i \in 1 .. n PROVE g[i] = f[i]
    <3>1. i \in Nat /\ i \in 1 .. n  BY <1>0
    <3>2. i \in Q  BY <2>3, <3>1
    <3> HIDE DEF n
    <3> QED BY <3>1, <3>2 DEF Q
  <2> QED BY <2>4
<1>7. FlattenSeq(ss) = f[n]  BY <1>0, <1>4, <1>5, <1>6
<1>8. f[1] = ss[1]
  <2>1. 1 \in 1 .. n  BY <1>0
  <2> QED BY <2>1, <1>2
<1>9. ASSUME NEW i \in 2 .. n PROVE f[i] = f[i - 1] \o ss[i]
  <2>1. i \in 1 .. n /\ i # 1  BY <1>0
  <2> QED BY <2>1, <1>2
<1> HIDE DEF Step
<1> QED BY <1>7, <1>8, <1>9

LEMMA FlattenType ==
    ASSUME NEW S, NEW ss \in Seq(Seq(S))
    PROVE  FlattenSeq(ss) \in Seq(S)
<1>1. CASE ss = <<>>  BY <1>1 DEF FlattenSeq
<1>2. CASE ss # <<>>
  <2>1. Len(ss) \in 1 .. Len(ss)  BY <1>2
  <2>2. PICK f \in [1 .. Len(ss) -> Seq(S)] : FlattenSeq(ss) = f[Len(ss)]  BY <1>2, FlattenParts
  <2> QED BY <2>1, <2>2
<1> QED BY <1>1, <1>2

(* The same, counted from nothing put together.                              *)
LEMMA FlattenSteps ==
    ASSUME NEW S, NEW n \in Nat, NEW ss \in [1 .. n -> Seq(S)]
    PROVE  \E f \in [0 .. n -> Seq(S)] :
              /\ f[0] = <<>>
              /\ \A i \in 1 .. n : f[i] = f[i - 1] \o ss[i]
              /\ FlattenSeq(ss) = f[n]
<1>1. ss \in Seq(Seq(S)) /\ Len(ss) = n  OBVIOUS
<1>2. CASE n = 0
  <2>1. ss = <<>>  BY <1>1, <1>2
  <2>2. FlattenSeq(ss) = <<>>  BY <2>1 DEF FlattenSeq
  <2> DEFINE f == [i \in 0 .. n |-> <<>>]
  <2>3. f \in [0 .. n -> Seq(S)]  OBVIOUS
  <2>4. f[0] = <<>> /\ f[n] = <<>>  BY <1>2
  <2>5. \A i \in 1 .. n : f[i] = f[i - 1] \o ss[i]  BY <1>2
  <2> HIDE DEF f
  <2> QED BY <2>2, <2>3, <2>4, <2>5
<1>3. CASE n # 0
  <2>0. ss # <<>>  BY <1>1, <1>3
  <2>1. PICK g \in [1 .. Len(ss) -> Seq(S)] :
              /\ g[1] = ss[1]
              /\ \A i \in 2 .. Len(ss) : g[i] = g[i - 1] \o ss[i]
              /\ FlattenSeq(ss) = g[Len(ss)]
    BY <1>1, <2>0, FlattenParts
  <2> DEFINE f == [i \in 0 .. n |-> IF i = 0 THEN <<>> ELSE g[i]]
  <2>2. f \in [0 .. n -> Seq(S)]
    <3>1. \A i \in 0 .. n : i # 0 => i \in 1 .. n  OBVIOUS
    <3> QED BY <1>1, <2>1, <3>1
  <2>3. f[0] = <<>> /\ \A i \in 1 .. n : f[i] = g[i]  OBVIOUS
  <2> HIDE DEF f
  <2>4. ASSUME NEW i \in 1 .. n PROVE f[i] = f[i - 1] \o ss[i]
    <3>1. CASE i = 1
      <4>1. f[i] = ss[i] /\ f[i - 1] = <<>>  BY <3>1, <2>1, <2>3
      <4>2. ss[i] \in Seq(S)  OBVIOUS
      <4> QED BY <4>1, <4>2, ConcatEmptySeq
    <3>2. CASE i # 1
      <4>1. i \in 2 .. Len(ss) /\ i - 1 \in 1 .. n  BY <3>2, <1>1
      <4> QED BY <4>1, <2>1, <2>3
    <3> QED BY <3>1, <3>2
  <2>5. FlattenSeq(ss) = f[n]  BY <1>1, <1>3, <2>1, <2>3
  <2>6. f[0] = <<>> /\ (\A i \in 1 .. n : f[i] = f[i - 1] \o ss[i])  BY <2>3, <2>4
  <2> QED BY <2>2, <2>5, <2>6
<1> QED BY <1>2, <1>3

-----------------------------------------------------------------------------
(* Streamed answers                                                          *)

LEMMA LargestIn ==
    ASSUME NEW N \in Nat, NEW S, S \subseteq 0 .. N, S # {}
    PROVE  Largest(S) \in S /\ \A k \in S : k <= Largest(S)
<1> DEFINE T == {m \in Nat : \A k \in S : k <= m}
<1>1. N \in T  OBVIOUS
<1>2. T \subseteq Nat /\ T # {}  BY <1>1
<1>3. PICK x \in T : \A y \in T : x <= y
  <2> HIDE DEF T
  <2> QED BY <1>2, LeastNat
<1>4. x \in Nat /\ \A k \in S : k <= x  BY <1>3
<1>5. x \in S
  <2> SUFFICES ASSUME x \notin S PROVE FALSE  OBVIOUS
  <2>1. PICK k \in S : TRUE  OBVIOUS
  <2>2. k \in Nat /\ k <= x /\ k # x  BY <1>4
  <2>3. x - 1 \in Nat  BY <1>4, <2>2
  <2>4. \A j \in S : j <= x - 1
    <3> SUFFICES ASSUME NEW j \in S PROVE j <= x - 1  OBVIOUS
    <3>1. j \in Nat /\ j <= x /\ j # x  BY <1>4
    <3> QED BY <3>1, <1>4
  <2>5. x - 1 \in T  BY <2>3, <2>4
  <2>6. x <= x - 1  BY <1>3, <2>5
  <2> QED BY <1>4, <2>6
<1> QED BY <1>4, <1>5 DEF Largest

LEMMA CutType ==
    ASSUME NEW S, NEW s \in Seq(S), NEW n \in 0 .. Len(s)
    PROVE  /\ AllBut(s, n) \in Seq(S) /\ Len(AllBut(s, n)) = Len(s) - n
           /\ Ending(s, n) \in Seq(S) /\ Len(Ending(s, n)) = n
<1>1. Len(s) \in Nat  OBVIOUS
<1>2. \A i \in 1 .. Len(s) - n : s[i] \in S  OBVIOUS
<1>3. \A i \in Len(s) - n + 1 .. Len(s) : s[i] \in S  OBVIOUS
<1>4. AllBut(s, n) \in Seq(S) /\ Len(AllBut(s, n)) = IF 1 <= Len(s) - n THEN Len(s) - n - 1 + 1 ELSE 0
  BY <1>1, <1>2, SubSeqProperties DEF AllBut
<1>5. /\ Ending(s, n) \in Seq(S)
      /\ Len(Ending(s, n)) = IF Len(s) - n + 1 <= Len(s) THEN Len(s) - (Len(s) - n + 1) + 1 ELSE 0
  BY <1>1, <1>3, SubSeqProperties DEF Ending
<1> QED BY <1>1, <1>4, <1>5

LEMMA HoldBound ==
    ASSUME NEW S, NEW s \in Seq(S)
    PROVE  Hold(s) \in 0 .. Len(s) /\ (~opts.guard => Hold(s) <= MaxLength - 1)
<1>1. Len(s) \in Nat  OBVIOUS
<1>2. PrefixHold(s) \in 0 .. Len(s) /\ PrefixHold(s) <= MaxLength - 1
  <2> DEFINE P == {n \in 1 .. Len(s) : IsPotentialPrefix(Ending(s, n))}
  <2>1. \A n \in P : n \in 1 .. Len(s) /\ n <= MaxLength - 1
    <3> SUFFICES ASSUME NEW n \in 1 .. Len(s), IsPotentialPrefix(Ending(s, n)) PROVE n <= MaxLength - 1
      OBVIOUS
    <3>1. Len(Ending(s, n)) = n
      <4>1. n \in 0 .. Len(s)  BY <1>1
      <4> QED BY <4>1, CutType
    <3>2. Len(Ending(s, n)) \in 1 .. MaxLength - 1  BY DEF IsPotentialPrefix
    <3> QED BY <3>1, <3>2, <1>1 DEF MaxLength
  <2>2. CASE P = {}
    <3>1. PrefixHold(s) = 0  BY <2>2 DEF PrefixHold, Largest
    <3> QED BY <3>1, <1>1 DEF MaxLength
  <2>3. CASE P # {}
    <3>1. P \subseteq 0 .. Len(s)  OBVIOUS
    <3>2. PrefixHold(s) = Largest(P)  BY DEF PrefixHold
    <3> HIDE DEF P
    <3>3. Largest(P) \in P  BY <1>1, <2>3, <3>1, LargestIn
    <3> QED BY <2>1, <3>2, <3>3
  <2> QED BY <2>2, <2>3
<1>3. GuardedHold(s) \in 0 .. Len(s)
  <2> DEFINE C == {Len(s) - i + 1 : i \in {j \in 1 .. Len(s) : CandidateAt(s, j)}}
  <2>1. C \subseteq 0 .. Len(s)  BY <1>1
  <2>2. C # {} => Largest(C) \in 0 .. Len(s)
    <3> HIDE DEF C
    <3> QED BY <1>1, <2>1, LargestIn
  <2>3. s # <<>> => 1 \in 0 .. Len(s)  OBVIOUS
  <2>4. GuardedHold(s) = HoldOf(s, C)  BY DEF GuardedHold
  <2> HIDE DEF C
  <2> QED BY <2>2, <2>3, <2>4, <1>2 DEF HoldOf
<1> QED BY <1>2, <1>3 DEF Hold

LEMMA EditedType ==
    ASSUME NEW S, NEW s \in Seq(S), NEW starts, NEW ends, NEW with, \A i \in starts : with[i] \in Seq(S)
    PROVE  Edited(s, starts, ends, with) \in Seq(S)
<1> DEFINE Part(i) == IF i \in starts THEN with[i]
                      ELSE IF \E b \in starts : b < i /\ i <= ends[b] THEN <<>>
                      ELSE <<s[i]>>
           parts == [i \in 1 .. Len(s) |-> Part(i)]
<1>1. \A i \in 1 .. Len(s) : Part(i) \in Seq(S)
  <2> SUFFICES ASSUME NEW i \in 1 .. Len(s) PROVE Part(i) \in Seq(S)  OBVIOUS
  <2>1. s[i] \in S  OBVIOUS
  <2>2. <<s[i]>> \in Seq(S) /\ <<>> \in Seq(S)  BY <2>1
  <2> QED BY <2>2
<1>2. Len(s) \in Nat  OBVIOUS
<1>3. parts \in Seq(Seq(S))
  <2> HIDE DEF Part
  <2> QED BY <1>1, <1>2
<1>4. Edited(s, starts, ends, with) = FlattenSeq(parts)  BY DEF Edited
<1> HIDE DEF parts
<1> QED BY <1>3, <1>4, FlattenType

(* What a tool block may hold: characters, and values of tokens that are not *)
(* kept from tools.                                                          *)
Open(skip) == Character \cup {Issued[t].value : t \in DOMAIN Issued \ skip}

LEMMA OpenCharacters ==
    ASSUME NEW skip
    PROVE  /\ {"#", "?", "~", "[", "|", "]", "\\"} \subseteq Open(skip)
           /\ Character \subseteq Open(skip)
           /\ \A t \in DOMAIN Issued : t \notin skip => Issued[t].value \in Open(skip)
           /\ skip \subseteq DOMAIN Issued => Open(skip) \cap ValuesBehind(skip) = {}
<1>1. {"#", "?", "~", "[", "|", "]", "\\"} \subseteq Character  BY StreamAssumption
<1>2. \A t \in DOMAIN Issued : t \notin skip => Issued[t].value \in Open(skip)  BY DEF Open
<1>3. ASSUME skip \subseteq DOMAIN Issued, NEW v \in Open(skip), v \in ValuesBehind(skip) PROVE FALSE
  <2>1. PICK t \in skip : v = Issued[t].value  BY <1>3 DEF ValuesBehind
  <2>2. v \in StreamValues  BY <1>3, <2>1 DEF StreamValues
  <2>3. PICK u \in DOMAIN Issued \ skip : v = Issued[u].value  BY <1>3, <2>2 DEF Open, Character
  <2> QED BY <1>3, <2>1, <2>3, StreamAssumption
<1> QED BY <1>1, <1>2, <1>3 DEF Open

LEMMA StrippedType ==
    ASSUME NEW skip, NEW s \in Seq(Open(skip))
    PROVE  Stripped(s) \in Seq(Open(skip))
<1>1. "#" \in Open(skip)  BY OpenCharacters
<1> QED BY <1>1 DEF Stripped

LEMMA ReplacedType ==
    ASSUME NEW skip, NEW s \in Seq(Open(skip))
    PROVE  ReplaceUnknown(s) \in Seq(Open(skip))
<1>1. <<"?">> \in Seq(Open(skip))  BY OpenCharacters
<1> DEFINE U == Unknown(s)
           as == [i \in U |-> <<"?">>]
<1>2. \A i \in U : as[i] \in Seq(Open(skip))  BY <1>1
<1>3. ReplaceUnknown(s) = IF U = {} THEN s ELSE Edited(s, U, [i \in U |-> ShapeEnd(s, i)], as)
  BY DEF ReplaceUnknown, PlaceholdersAt
<1>4. Edited(s, U, [i \in U |-> ShapeEnd(s, i)], as) \in Seq(Open(skip))
  <2> DEFINE ends == [i \in U |-> ShapeEnd(s, i)]
  <2> HIDE DEF U, as, ends
  <2> QED BY <1>2, EditedType
<1> QED BY <1>3, <1>4

LEMMA PutType ==
    ASSUME NEW S, NEW s \in Seq(S), NEW found, NEW as, \A i \in found : as[i] \in Seq(S)
    PROVE  Put(s, found, as) \in Seq(S)
<1> DEFINE ends == [i \in found |-> i + MaxLength - 1]
<1>1. Edited(s, found, ends, as) \in Seq(S)
  <2> HIDE DEF ends
  <2> QED BY EditedType
<1> QED BY <1>1 DEF Put

LEMMA EncodedType ==
    ASSUME NEW skip, NEW v \in Open(skip), NEW escaped
    PROVE  Encode(<<v>>, escaped) \in Seq(Open(skip))
<1> DEFINE s == <<v>>
           part(i) == IF s[i] \in {"\\", "S", "C"} THEN <<"\\", s[i]>> ELSE <<s[i]>>
           parts == [i \in 1 .. Len(s) |-> part(i)]
<1>1. s \in Seq(Open(skip)) /\ Len(s) \in Nat  OBVIOUS
<1>2. "\\" \in Open(skip)  BY OpenCharacters
<1>3. \A i \in 1 .. Len(s) : part(i) \in Seq(Open(skip))
  <2> SUFFICES ASSUME NEW i \in 1 .. Len(s) PROVE part(i) \in Seq(Open(skip))  OBVIOUS
  <2>1. s[i] \in Open(skip)  BY <1>1
  <2>2. <<"\\", s[i]>> \in Seq(Open(skip)) /\ <<s[i]>> \in Seq(Open(skip))
    <3> HIDE DEF s
    <3> QED BY <1>2, <2>1
  <2> HIDE DEF s
  <2> QED BY <2>2
<1>4. parts \in Seq(Seq(Open(skip)))
  <2> HIDE DEF part, s
  <2> QED BY <1>1, <1>3
<1>5. Escape(s) = FlattenSeq(parts)  BY DEF Escape
<1>6. Escape(s) \in Seq(Open(skip))
  <2> HIDE DEF parts, s
  <2> QED BY <1>4, <1>5, FlattenType
<1> QED BY <1>1, <1>6 DEF Encode

LEMMA KeptTokens ==
    ASSUME NEW s, NEW i \in Known(s), i \notin ToolWithheld(s, opts.tools)
    PROVE  TokenOf(s, i) \in DOMAIN Issued /\ TokenOf(s, i) \notin Secrets
BY DEF Known, ToolWithheld, Secrets

(* What a tool block is given for a fragment holds no secret.                *)
LEMMA ArgumentType ==
    ASSUME NEW text \in Seq(Open(Secrets)), NEW kind
    PROVE  RestoreToolArg(text, kind) \in Seq(Open(Secrets))
<1> DEFINE s == ReplaceUnknown(text)
           found == Known(s) \ ToolWithheld(s, opts.tools)
           as == [i \in found |-> Encode(<<Issued[TokenOf(s, i)].value>>, kind # "raw")]
<1>1. s \in Seq(Open(Secrets))  BY ReplacedType
<1>2. ASSUME NEW i \in found PROVE as[i] \in Seq(Open(Secrets))
  <2>1. TokenOf(s, i) \in DOMAIN Issued /\ TokenOf(s, i) \notin Secrets
    <3> HIDE DEF s
    <3> QED BY KeptTokens
  <2>2. Issued[TokenOf(s, i)].value \in Open(Secrets)
    <3> HIDE DEF s
    <3> QED BY <2>1, OpenCharacters
  <2>3. as[i] = Encode(<<Issued[TokenOf(s, i)].value>>, kind # "raw")
    <3> HIDE DEF s
    <3> QED OBVIOUS
  <2>4. ASSUME NEW e PROVE Encode(<<Issued[TokenOf(s, i)].value>>, e) \in Seq(Open(Secrets))
    <3> HIDE DEF s
    <3> QED BY <2>2, EncodedType
  <2> HIDE DEF s, as
  <2> QED BY <2>3, <2>4
<1>3. RestoreToolArg(text, kind) = Put(s, found, as)
  BY DEF RestoreToolArg, ArgumentIn, ArgumentAt
<1> HIDE DEF s, found, as
<1> QED BY <1>1, <1>2, <1>3, PutType

(* Nor does the repeat of the whole call.                                    *)
LEMMA ReplayType ==
    ASSUME NEW s \in Seq(Open(Secrets)), NEW nested,
           NEW skip, \A i \in ToolWithheld(s, opts.tools) : TokenOf(s, i) \in skip
    PROVE  RestoreReplay(s, nested, skip) \in Seq(Open(Secrets))
<1> DEFINE found == {i \in Known(s) : TokenOf(s, i) \notin skip}
           unknown == Unknown(s)
           ends == [i \in found \cup unknown |-> IF i \in unknown THEN ShapeEnd(s, i) ELSE i + MaxLength - 1]
           as == [i \in found \cup unknown |-> IF i \in unknown THEN <<"?">>
                                               ELSE Encode(<<Issued[TokenOf(s, i)].value>>, nested)]
<1>1. ASSUME NEW i \in found \cup unknown PROVE as[i] \in Seq(Open(Secrets))
  <2>1. CASE i \in unknown
    <3>1. as[i] = <<"?">>  BY <2>1
    <3>2. "?" \in Open(Secrets)  BY OpenCharacters
    <3>3. <<"?">> \in Seq(Open(Secrets))  BY <3>2
    <3> HIDE DEF as
    <3> QED BY <3>1, <3>3
  <2>2. CASE i \notin unknown
    <3>1. i \in Known(s) /\ i \notin ToolWithheld(s, opts.tools)  BY <1>1, <2>2
    <3>2. Issued[TokenOf(s, i)].value \in Open(Secrets)  BY <3>1, KeptTokens, OpenCharacters
    <3>3. Encode(<<Issued[TokenOf(s, i)].value>>, nested) \in Seq(Open(Secrets))  BY <3>2, EncodedType
    <3>4. as[i] = Encode(<<Issued[TokenOf(s, i)].value>>, nested)  BY <1>1, <2>2
    <3> QED BY <3>3, <3>4
  <2> QED BY <2>1, <2>2
<1>2. RestoreReplay(s, nested, skip) = Edited(s, found \cup unknown, ends, as)
  BY DEF RestoreReplay, ReplayAt
<1> HIDE DEF found, unknown, ends, as
<1> QED BY <1>1, <1>2, EditedType

(* A sibling field gives away no value whose token is skipped.               *)
LEMMA ExceptType ==
    ASSUME NEW skip, NEW text \in Seq(Open(skip)), NEW prose, NEW marks
    PROVE  RestoreTextExcept(text, skip, prose, marks) \in Seq(Open(skip))
<1> DEFINE s == ReplaceUnknown(text)
           found == {i \in Known(s) : TokenOf(s, i) \notin skip /\ ~(marks /\ InMarkers(s, i))}
           as(t, m) == IF prose /\ Withholds(m.layer, opts.prose) THEN <<"~">>
                       ELSE MarkRestored(t, m.value, marks)
           with == [i \in found |-> as(TokenOf(s, i), Issued[TokenOf(s, i)])]
<1>1. s \in Seq(Open(skip))  BY ReplacedType
<1> HIDE DEF s
<1>2. ASSUME NEW i \in found PROVE with[i] \in Seq(Open(skip))
  <2>0. Len(s) \in Nat  BY <1>1
  <2>1. i \in Known(s) /\ TokenOf(s, i) \notin skip  OBVIOUS
  <2>2. i \in Tokens(s) /\ TokenOf(s, i) \in DOMAIN Issued  BY <2>1 DEF Known
  <2>3. i \in 1 .. Len(s) /\ i + 3 \in 1 .. Len(s)
    <3>1. i \in 1 .. Len(s) /\ TokenAt(s, i)  BY <2>2 DEF Tokens, Scanned
    <3>2. Is(s, i + 3, Hex) \/ Is(s, i + 3, Base32)
      <4>1. CASE \A d \in 1 .. Digits : Is(s, i + 1 + d, Hex)
        <5>1. Is(s, i + 1 + 2, Hex)  BY <4>1 DEF Digits
        <5>2. i + 1 + 2 = i + 3  BY <3>1, <2>0
        <5> QED BY <5>1, <5>2
      <4> QED BY <4>1, <3>1 DEF TokenAt
    <3> QED BY <3>1, <3>2 DEF Is
  <2>4. TokenOf(s, i) \in Seq(Open(skip))
    <3>1. \A j \in i .. i + 3 : s[j] \in Open(skip)  BY <1>1, <2>0, <2>3
    <3>2. i + MaxLength - 1 = i + 3 /\ i \in Int /\ i + 3 \in Int  BY <2>0, <2>3 DEF MaxLength
    <3> QED BY <3>1, <3>2, SubSeqProperties DEF TokenOf
  <2>5. Issued[TokenOf(s, i)].value \in Open(skip)  BY <2>1, <2>2, OpenCharacters
  <2>6. {"~", "[", "|", "]"} \subseteq Open(skip)  BY OpenCharacters
  <2>7. <<"~">> \in Seq(Open(skip))  BY <2>6
  <2>8. ASSUME NEW t \in Seq(Open(skip)), NEW v \in Open(skip)
        PROVE  MarkRestored(t, v, marks) \in Seq(Open(skip))
    <3>1. <<"[">> \in Seq(Open(skip)) /\ <<"|", v, "]">> \in Seq(Open(skip)) /\ <<v>> \in Seq(Open(skip))  BY <2>6
    <3>2. <<"[">> \o t \in Seq(Open(skip))  BY <3>1, ConcatProperties
    <3>3. (<<"[">> \o t) \o <<"|", v, "]">> \in Seq(Open(skip))  BY <3>1, <3>2, ConcatProperties
    <3> QED BY <3>1, <3>3 DEF MarkRestored
  <2>9. MarkRestored(TokenOf(s, i), Issued[TokenOf(s, i)].value, marks) \in Seq(Open(skip))
    BY <2>4, <2>5, <2>8
  <2>10. with[i] = as(TokenOf(s, i), Issued[TokenOf(s, i)])  OBVIOUS
  <2> QED BY <2>7, <2>9, <2>10
<1>3. RestoreTextExcept(text, skip, prose, marks) = Put(s, found, with)
  BY DEF RestoreTextExcept, RestoreIn, RestoreAt, s
<1> HIDE DEF found, with
<1> QED BY <1>1, <1>2, <1>3, PutType

(* What waits unguarded is shorter than a token, so that a flush gives out   *)
(* what it holds.                                                            *)
LEMMA ShortIsPlain ==
    ASSUME NEW S, NEW s \in Seq(S), Len(s) < MaxLength, ~opts.guard
    PROVE  PlainText(s) = s
<1>1. Len(s) \in Nat  OBVIOUS
<1>2. Tokens(s) = {}
  <2> SUFFICES ASSUME NEW i \in 1 .. Len(s), TokenAt(s, i) PROVE FALSE  BY DEF Tokens, Scanned
  <2>1. CASE \A d \in 1 .. Digits : Is(s, i + 1 + d, Hex)
    <3>1. Is(s, i + 1 + 2, Hex)  BY <2>1 DEF Digits
    <3> QED BY <3>1, <1>1 DEF Is, MaxLength
  <2>2. CASE Is(s, i + 3, Base32)  BY <2>2, <1>1 DEF Is, MaxLength
  <2> QED BY <2>1, <2>2 DEF TokenAt
<1>3. Known(s) = {}  BY <1>2 DEF Known
<1>4. ReplaceUnknown(s) = s  BY DEF ReplaceUnknown, PlaceholdersAt, Unknown
<1>5. {i \in Known(s) : TokenOf(s, i) \notin {} /\ ~(FALSE /\ InMarkers(s, i))} = {}  BY <1>3
<1>6. RestoreIn(s, {}, FALSE, FALSE) = s  BY <1>5 DEF RestoreIn, RestoreAt, Put
<1> QED BY <1>4, <1>6 DEF PlainText, RestoreTextExcept

-----------------------------------------------------------------------------
(* The invariant: what a tool block holds and was given.                      *)

SecretsKept ==
    mode = "events" =>
        /\ src \in [Blocks -> Seq(Character)]
        /\ at \in [Blocks -> Nat]
        /\ \A b \in Blocks : at[b] <= Len(src[b])
        /\ DOMAIN buffer = Blocks /\ DOMAIN given = Blocks /\ DOMAIN again = Blocks
        /\ \A b \in Blocks : opts.kind[b] # "text" =>
              /\ buffer[b] \in Seq(Open(Secrets))
              /\ given[b] \in Seq(Open(Secrets))
              /\ again[b] \in Seq(Open(Secrets))
              /\ ~opts.guard => Len(buffer[b]) < MaxLength
        /\ \A e \in aside : e.beside \subseteq DOMAIN Issued /\ e.to \in Seq(Open(e.beside))

LEMMA HoldsNone ==
    ASSUME NEW skip, skip \subseteq DOMAIN Issued, NEW s \in Seq(Open(skip))
    PROVE  ~Has(s, ValuesBehind(skip))
BY OpenCharacters DEF Has

LEMMA SecretsStay == SecretsKept => ToolsKeepSecrets
<1> SUFFICES ASSUME SecretsKept, mode = "events" PROVE ToolsKeepSecrets  BY DEF ToolsKeepSecrets
<1>1. Secrets \subseteq DOMAIN Issued  BY DEF Secrets
<1>2. ASSUME NEW b \in Blocks, opts.kind[b] # "text"
      PROVE  ~Has(given[b], ValuesBehind(Secrets)) /\ ~Has(again[b], ValuesBehind(Secrets))
  BY <1>1, <1>2, HoldsNone DEF SecretsKept
<1>3. ASSUME NEW e \in aside PROVE ~Has(e.to, ValuesBehind(e.beside))
  BY HoldsNone DEF SecretsKept
<1> QED BY <1>2, <1>3 DEF ToolsKeepSecrets

LEMMA StreamInitKept == StreamInit => SecretsKept
<1> SUFFICES ASSUME StreamInit, mode = "events" PROVE SecretsKept  BY DEF SecretsKept
<1>1. src \in [Blocks -> UNION {BlockTexts[b] : b \in Blocks}]  BY DEF StreamInit, Sources
<1>2. src \in [Blocks -> Seq(Character)]  BY <1>1, StreamAssumption
<1>3. DOMAIN src = Blocks  BY <1>1
<1>4. <<>> \in Seq(Open(Secrets)) /\ Len(<<>>) < MaxLength  BY DEF MaxLength
<1>5. at = [b \in Blocks |-> 0] /\ buffer = [b \in Blocks |-> <<>>] /\ given = [b \in Blocks |-> <<>>]
      /\ again = [b \in Blocks |-> <<>>] /\ aside = {}
  BY <1>3 DEF StreamInit
<1>6. \A b \in Blocks : Len(src[b]) \in Nat  BY <1>2
<1> QED BY <1>2, <1>4, <1>5, <1>6 DEF SecretsKept

LEMMA FlushedType ==
    ASSUME SecretsKept, mode = "events", NEW b \in Blocks, opts.kind[b] # "text"
    PROVE  Flushed(b) \in Seq(Open(Secrets))
<1>1. buffer[b] \in Seq(Open(Secrets)) /\ (~opts.guard => Len(buffer[b]) < MaxLength)  BY DEF SecretsKept
<1>2. Restore(b, buffer[b]) \in Seq(Open(Secrets))  BY <1>1, ArgumentType DEF Restore
<1>3. ~opts.guard => PlainText(buffer[b]) = buffer[b]  BY <1>1, ShortIsPlain
<1> QED BY <1>1, <1>2, <1>3 DEF Flushed

LEMMA CharactersAreOpen ==
    ASSUME NEW skip, NEW s \in Seq(Character)
    PROVE  s \in Seq(Open(skip))
<1>1. Character \subseteq Open(skip)  BY OpenCharacters
<1> HIDE DEF Character
<1> QED BY <1>1

LEMMA FragmentType ==
    ASSUME SecretsKept, mode = "events", NEW b \in Blocks, opts.kind[b] # "text",
           NEW piece \in Seq(Character)
    PROVE  LET f == Fragment(b, piece)
           IN  /\ f.emit \in Seq(Open(Secrets)) /\ f.hold \in Seq(Open(Secrets))
               /\ ~opts.guard => Len(f.hold) < MaxLength
<1> DEFINE O == Open(Secrets)
           s == buffer[b] \o Stripped(piece)
           n == IF opts.guard THEN Hold(s) ELSE 0
           head == AllBut(s, n)
           rest == Ending(s, n)
           restored == Restore(b, head)
           m == IF opts.guard THEN 0 ELSE Hold(restored)
<1>1. buffer[b] \in Seq(O)  BY DEF SecretsKept
<1>2. Stripped(piece) \in Seq(O)  BY CharactersAreOpen, StrippedType
<1>3. s \in Seq(O)  BY <1>1, <1>2, ConcatProperties
<1> HIDE DEF s
<1>4. n \in 0 .. Len(s)
  <2>1. Hold(s) \in 0 .. Len(s)  BY <1>3, HoldBound
  <2>2. Len(s) \in Nat  BY <1>3
  <2> QED BY <2>1, <2>2
<1> HIDE DEF n
<1>5. head \in Seq(O) /\ rest \in Seq(O) /\ Len(rest) = n  BY <1>3, <1>4, CutType
<1> HIDE DEF head, rest
<1>6. restored \in Seq(O)  BY <1>5, ArgumentType DEF Restore
<1> HIDE DEF restored
<1>7. m \in 0 .. Len(restored) /\ (~opts.guard => m <= MaxLength - 1)
  <2>1. Hold(restored) \in 0 .. Len(restored) /\ (~opts.guard => Hold(restored) <= MaxLength - 1)
    BY <1>6, HoldBound
  <2>2. Len(restored) \in Nat  BY <1>6
  <2> QED BY <2>1, <2>2
<1>8. ~opts.guard => n = 0  BY DEF n
<1> HIDE DEF m
<1>9. AllBut(restored, m) \in Seq(O) /\ Ending(restored, m) \in Seq(O) /\ Len(Ending(restored, m)) = m
  BY <1>6, <1>7, CutType
<1>10. rest \o Ending(restored, m) \in Seq(O) /\ Len(rest \o Ending(restored, m)) = n + m
  BY <1>5, <1>9, ConcatProperties
<1>11. Fragment(b, piece).emit = AllBut(restored, m) /\ Fragment(b, piece).hold = rest \o Ending(restored, m)
  BY DEF Fragment, FragmentOf, Parted, GivenOut, Given, s, n, head, rest, restored, m
<1>12. ~opts.guard => n + m < MaxLength
  <2>1. Len(restored) \in Nat  BY <1>6
  <2> QED BY <2>1, <1>7, <1>8 DEF MaxLength
<1> QED BY <1>9, <1>10, <1>11, <1>12

LEMMA WithheldIssued ==
    ASSUME NEW b, NEW piece
    PROVE  Fragment(b, piece).withheld \subseteq DOMAIN Issued
<1>1. ASSUME NEW s PROVE WithheldIn(s) \subseteq DOMAIN Issued
  BY DEF WithheldIn, WithheldOf, TokensAt, ToolWithheld, Known
<1>2. \A start, rest, restored, n : Given(b, start, rest, restored, n).withheld \subseteq DOMAIN Issued
  BY <1>1 DEF Given
<1> QED BY <1>2 DEF Fragment, FragmentOf, Parted, GivenOut

(* A flush of any blocks keeps it, whatever else the step does to `again`    *)
(* and `aside`.                                                              *)
LEMMA FlushKeeps ==
    ASSUME SecretsKept, mode = "events", NEW bs, Flush(bs)
    PROVE  /\ DOMAIN buffer' = Blocks /\ DOMAIN given' = Blocks
           /\ \A b \in Blocks : opts.kind[b] # "text" =>
                 /\ buffer'[b] \in Seq(Open(Secrets))
                 /\ given'[b] \in Seq(Open(Secrets))
                 /\ ~opts.guard => Len(buffer'[b]) < MaxLength
<1>1. DOMAIN buffer = Blocks /\ DOMAIN given = Blocks  BY DEF SecretsKept
<1>2. buffer' = [b \in DOMAIN buffer |-> IF b \in bs THEN <<>> ELSE buffer[b]]
      /\ given' = [b \in DOMAIN given |-> given[b] \o FlushOf(bs)[b]]
  BY DEF Flush
<1>3. ASSUME NEW b \in Blocks, opts.kind[b] # "text"
      PROVE  /\ buffer'[b] \in Seq(Open(Secrets))
             /\ given'[b] \in Seq(Open(Secrets))
             /\ ~opts.guard => Len(buffer'[b]) < MaxLength
  <2>1. /\ buffer[b] \in Seq(Open(Secrets)) /\ given[b] \in Seq(Open(Secrets))
        /\ ~opts.guard => Len(buffer[b]) < MaxLength
    BY <1>3 DEF SecretsKept
  <2>2. FlushOf(bs)[b] = IF b \in bs THEN Flushed(b) ELSE <<>>  BY <1>1 DEF FlushOf
  <2>3. <<>> \in Seq(Open(Secrets)) /\ Len(<<>>) < MaxLength  BY DEF MaxLength
  <2>4. FlushOf(bs)[b] \in Seq(Open(Secrets))  BY <1>3, <2>2, <2>3, FlushedType
  <2>5. given'[b] = given[b] \o FlushOf(bs)[b]  BY <1>1, <1>2
  <2>6. given'[b] \in Seq(Open(Secrets))  BY <2>1, <2>4, <2>5, ConcatProperties
  <2>7. buffer'[b] = IF b \in bs THEN <<>> ELSE buffer[b]  BY <1>1, <1>2
  <2> QED BY <2>1, <2>3, <2>6, <2>7
<1> QED BY <1>1, <1>2, <1>3

LEMMA StopKeeps ==
    ASSUME SecretsKept, mode = "events", NEW c \in Blocks, Stop(c)
    PROVE  SecretsKept'
<1>1. Flush({c}) /\ UNCHANGED <<mode, opts, src, at, aside>>  BY DEF Stop
<1>2. PICK s \in {Stripped(src[c])}, repeats \in BOOLEAN :
        \E whole \in {IF repeats
                      THEN RestoreReplay(s, opts.kind[c] = "tool",
                             IF opts.kind[c] = "text" \/ opts.tools = "all" THEN {}
                             ELSE {TokenOf(s, i) : i \in ToolWithheld(s, opts.tools)})
                      ELSE <<>>} :
           again' = [again EXCEPT ![c] = whole]
  BY DEF Stop
<1> DEFINE skip == IF opts.kind[c] = "text" \/ opts.tools = "all" THEN {}
                   ELSE {TokenOf(s, i) : i \in ToolWithheld(s, opts.tools)}
           whole == IF repeats THEN RestoreReplay(s, opts.kind[c] = "tool", skip) ELSE <<>>
<1>3. again' = [again EXCEPT ![c] = whole]  BY <1>2
<1>4. opts.kind[c] # "text" => whole \in Seq(Open(Secrets))
  <2> SUFFICES ASSUME opts.kind[c] # "text" PROVE whole \in Seq(Open(Secrets))  OBVIOUS
  <2>1. src[c] \in Seq(Character)  BY DEF SecretsKept
  <2>2. s \in Seq(Open(Secrets))  BY <1>2, <2>1, CharactersAreOpen, StrippedType
  <2>3. ASSUME NEW i \in ToolWithheld(s, opts.tools) PROVE TokenOf(s, i) \in skip
    <3>1. opts.tools # "all"
      BY <2>3 DEF ToolWithheld, Withholds
    <3> QED BY <3>1
  <2>4. RestoreReplay(s, opts.kind[c] = "tool", skip) \in Seq(Open(Secrets))
    <3> HIDE DEF skip
    <3> QED BY <2>2, <2>3, ReplayType
  <2>5. <<>> \in Seq(Open(Secrets))  OBVIOUS
  <2> HIDE DEF skip
  <2> QED BY <2>4, <2>5
<1> HIDE DEF whole
<1>5. DOMAIN again' = Blocks /\ \A b \in Blocks : again'[b] = IF b = c THEN whole ELSE again[b]
  BY <1>3 DEF SecretsKept
<1>6. /\ DOMAIN buffer' = Blocks /\ DOMAIN given' = Blocks
      /\ \A b \in Blocks : opts.kind[b] # "text" =>
            /\ buffer'[b] \in Seq(Open(Secrets))
            /\ given'[b] \in Seq(Open(Secrets))
            /\ ~opts.guard => Len(buffer'[b]) < MaxLength
  BY <1>1, FlushKeeps
<1>7. \A b \in Blocks : opts.kind[b] # "text" => again'[b] \in Seq(Open(Secrets))
  BY <1>4, <1>5 DEF SecretsKept
<1>8. Secrets' = Secrets  BY <1>1 DEF Secrets
<1>9. Open(Secrets)' = Open(Secrets)  BY <1>8 DEF Open
<1>10. \A e \in aside' : e.beside \subseteq DOMAIN Issued /\ e.to \in Seq(Open(e.beside))
  BY <1>1 DEF SecretsKept
<1> QED BY <1>1, <1>5, <1>6, <1>7, <1>9, <1>10 DEF SecretsKept

LEMMA SweepType ==
    ASSUME NEW skip, NEW s \in Seq(Character)
    PROVE  /\ Sweep(Stripped(s), skip) \in Seq(Open(skip))
           /\ PlainText(Stripped(s)) \in Seq(Open({}))
<1>1. Stripped(s) \in Seq(Open(skip)) /\ Stripped(s) \in Seq(Open({}))
  BY CharactersAreOpen, StrippedType
<1>2. \A prose, marks : RestoreTextExcept(Stripped(s), skip, prose, marks) \in Seq(Open(skip))
  BY <1>1, ExceptType
<1>3. \A prose, marks : RestoreTextExcept(Stripped(s), {}, prose, marks) \in Seq(Open({}))
  BY <1>1, ExceptType
<1> QED BY <1>2, <1>3 DEF Sweep, PlainText

LEMMA SiblingCharacters == Siblings \subseteq Seq(Character)
BY StreamAssumption

LEMMA CutKeeps ==
    ASSUME SecretsKept, mode = "events", CutOff
    PROVE  SecretsKept'
<1>1. PICK piece \in Siblings :
         \E text \in {PlainText(Stripped(piece))} :
            aside' = aside \cup {[from |-> piece, to |-> text, beside |-> {}]}
  BY DEF CutOff
<1> DEFINE e0 == [from |-> piece, to |-> PlainText(Stripped(piece)), beside |-> {}]
<1>2. aside' = aside \cup {e0}  BY <1>1
<1>3. Flush(Blocks) /\ UNCHANGED <<mode, opts, src, at, again>>  BY DEF CutOff
<1>4. e0.beside \subseteq DOMAIN Issued /\ e0.to \in Seq(Open(e0.beside))
  <2>1. e0.beside = {} /\ e0.to = PlainText(Stripped(piece))  OBVIOUS
  <2>2. PlainText(Stripped(piece)) \in Seq(Open({}))  BY SiblingCharacters, SweepType
  <2> HIDE DEF e0
  <2> QED BY <2>1, <2>2
<1> HIDE DEF e0
<1>5. \A e \in aside' : e.beside \subseteq DOMAIN Issued /\ e.to \in Seq(Open(e.beside))
  BY <1>2, <1>4 DEF SecretsKept
<1>6. /\ DOMAIN buffer' = Blocks /\ DOMAIN given' = Blocks
      /\ \A b \in Blocks : opts.kind[b] # "text" =>
            /\ buffer'[b] \in Seq(Open(Secrets))
            /\ given'[b] \in Seq(Open(Secrets))
            /\ ~opts.guard => Len(buffer'[b]) < MaxLength
  BY <1>3, FlushKeeps
<1>7. Open(Secrets)' = Open(Secrets)  BY <1>3 DEF Open, Secrets
<1> QED BY <1>3, <1>5, <1>6, <1>7 DEF SecretsKept

LEMMA EndKeeps ==
    ASSUME SecretsKept, mode = "events", End
    PROVE  SecretsKept'
<1>1. Flush(Blocks) /\ UNCHANGED <<mode, opts, src, at, again, aside>>  BY DEF End
<1>2. /\ DOMAIN buffer' = Blocks /\ DOMAIN given' = Blocks
      /\ \A b \in Blocks : opts.kind[b] # "text" =>
            /\ buffer'[b] \in Seq(Open(Secrets))
            /\ given'[b] \in Seq(Open(Secrets))
            /\ ~opts.guard => Len(buffer'[b]) < MaxLength
  BY <1>1, FlushKeeps
<1>3. Open(Secrets)' = Open(Secrets)  BY <1>1 DEF Open, Secrets
<1> QED BY <1>1, <1>2, <1>3 DEF SecretsKept

(* What an event's fragments and its sibling field do.                       *)
EventOf(bs, sibling, f) ==
    /\ \A b \in bs : at[b] + f[b] <= Len(src[b])
    /\ at' = [b \in DOMAIN at |-> IF b \in bs THEN at[b] + f[b] ELSE at[b]]
    /\ \E fs \in {[b \in bs |-> Fragment(b, SubSeq(src[b], at[b] + 1, at[b] + f[b]))]} :
       \E swept \in {Sweep(Stripped(sibling), UNION {fs[b].withheld : b \in bs})} :
        /\ given' = [b \in DOMAIN given |-> IF b \in bs THEN given[b] \o fs[b].emit ELSE given[b]]
        /\ buffer' = [b \in DOMAIN buffer |-> IF b \in bs THEN fs[b].hold ELSE buffer[b]]
        /\ aside' = IF sibling = <<>> THEN aside
                    ELSE aside \cup {[from |-> sibling, to |-> swept,
                                      beside |-> UNION {fs[b].withheld : b \in bs}]}
        /\ Feed(Encoded([b \in bs |-> fs[b].emit]) \o AsRecord(swept),
                UnknownTokens(Stripped(sibling)) \cup UNION {fs[b].unknown : b \in bs})

LEMMA EventKeeps ==
    ASSUME SecretsKept, mode = "events", Event
    PROVE  SecretsKept'
<1>0. PICK bs \in (SUBSET Blocks) \ {{}}, sibling \in Siblings :
         \E f \in [bs -> 1 .. MaxDelta] : EventOf(bs, sibling, f)
  BY Zenon DEF Event, EventOf
<1>1. PICK f \in [bs -> 1 .. MaxDelta] : EventOf(bs, sibling, f)  BY <1>0
<1> DEFINE piece(b) == SubSeq(src[b], at[b] + 1, at[b] + f[b])
<1>15. /\ \A b \in bs : at[b] + f[b] <= Len(src[b])
       /\ at' = [b \in DOMAIN at |-> IF b \in bs THEN at[b] + f[b] ELSE at[b]]
  BY <1>1 DEF EventOf
<1>16. PICK fs \in {[b \in bs |-> Fragment(b, piece(b))]} :
       \E swept \in {Sweep(Stripped(sibling), UNION {fs[b].withheld : b \in bs})} :
        /\ given' = [b \in DOMAIN given |-> IF b \in bs THEN given[b] \o fs[b].emit ELSE given[b]]
        /\ buffer' = [b \in DOMAIN buffer |-> IF b \in bs THEN fs[b].hold ELSE buffer[b]]
        /\ aside' = IF sibling = <<>> THEN aside
                    ELSE aside \cup {[from |-> sibling, to |-> swept,
                                      beside |-> UNION {fs[b].withheld : b \in bs}]}
  BY <1>1, Zenon DEF EventOf
<1> DEFINE kept == UNION {fs[b].withheld : b \in bs}
           e0 == [from |-> sibling, to |-> Sweep(Stripped(sibling), kept), beside |-> kept]
<1>2. /\ given' = [b \in DOMAIN given |-> IF b \in bs THEN given[b] \o fs[b].emit ELSE given[b]]
      /\ buffer' = [b \in DOMAIN buffer |-> IF b \in bs THEN fs[b].hold ELSE buffer[b]]
      /\ aside' = IF sibling = <<>> THEN aside ELSE aside \cup {e0}
  <2> HIDE DEF piece
  <2> QED BY <1>16
<1>3. UNCHANGED <<mode, opts, src, again>>  BY DEF Event
<1>4. \A b \in bs : fs[b] = Fragment(b, piece(b))
  <2> HIDE DEF piece
  <2> QED OBVIOUS
<1>5. bs \subseteq Blocks  OBVIOUS
<1>6. ASSUME NEW b \in bs PROVE piece(b) \in Seq(Character)
  <2>1. src[b] \in Seq(Character) /\ at[b] \in Nat /\ f[b] \in 1 .. MaxDelta /\ at[b] + f[b] <= Len(src[b])
    BY <1>15, <1>5 DEF SecretsKept
  <2>2. Len(src[b]) \in Nat /\ f[b] \in Nat  BY <2>1, StreamAssumption
  <2>3. \A i \in at[b] + 1 .. at[b] + f[b] : src[b][i] \in Character
    <3> HIDE DEF Character
    <3> QED BY <2>1, <2>2
  <2>4. at[b] + 1 \in Int /\ at[b] + f[b] \in Int  BY <2>1, <2>2
  <2> HIDE DEF Character
  <2> QED BY <2>3, <2>4, SubSeqProperties
<1> HIDE DEF piece
<1>7. kept \subseteq DOMAIN Issued  BY <1>4, WithheldIssued
<1> HIDE DEF kept
<1>8. e0.beside \subseteq DOMAIN Issued /\ e0.to \in Seq(Open(e0.beside))
  <2>1. e0.beside = kept /\ e0.to = Sweep(Stripped(sibling), kept)  OBVIOUS
  <2>2. Sweep(Stripped(sibling), kept) \in Seq(Open(kept))  BY SiblingCharacters, SweepType
  <2> HIDE DEF e0
  <2> QED BY <1>7, <2>1, <2>2
<1> HIDE DEF e0
<1>9. \A e \in aside' : e.beside \subseteq DOMAIN Issued /\ e.to \in Seq(Open(e.beside))
  BY <1>2, <1>8 DEF SecretsKept
<1>10. DOMAIN at = Blocks /\ DOMAIN given = Blocks /\ DOMAIN buffer = Blocks  BY DEF SecretsKept
<1>11. at' \in [Blocks -> Nat] /\ \A b \in Blocks : at'[b] <= Len(src[b])
  <2>1. ASSUME NEW b \in Blocks PROVE at'[b] \in Nat /\ at'[b] <= Len(src[b])
    <3>1. at[b] \in Nat /\ at[b] <= Len(src[b])  BY DEF SecretsKept
    <3>2. b \in bs => f[b] \in Nat /\ at[b] + f[b] <= Len(src[b])  BY <1>15, StreamAssumption
    <3>3. at'[b] = IF b \in bs THEN at[b] + f[b] ELSE at[b]  BY <1>15, <1>10
    <3> QED BY <3>1, <3>2, <3>3
  <2>2. at' = [b \in Blocks |-> at'[b]]  BY <1>15, <1>10
  <2> QED BY <2>1, <2>2
<1>12. ASSUME NEW b \in Blocks, opts.kind[b] # "text"
       PROVE  /\ buffer'[b] \in Seq(Open(Secrets))
              /\ given'[b] \in Seq(Open(Secrets))
              /\ ~opts.guard => Len(buffer'[b]) < MaxLength
  <2>1. /\ buffer[b] \in Seq(Open(Secrets)) /\ given[b] \in Seq(Open(Secrets))
        /\ ~opts.guard => Len(buffer[b]) < MaxLength
    BY <1>12 DEF SecretsKept
  <2>2. given'[b] = IF b \in bs THEN given[b] \o fs[b].emit ELSE given[b]  BY <1>2, <1>10
  <2>3. buffer'[b] = IF b \in bs THEN fs[b].hold ELSE buffer[b]  BY <1>2, <1>10
  <2>4. CASE b \in bs
    <3>1. piece(b) \in Seq(Character)  BY <1>6, <2>4
    <3>2. /\ fs[b].emit \in Seq(Open(Secrets)) /\ fs[b].hold \in Seq(Open(Secrets))
          /\ ~opts.guard => Len(fs[b].hold) < MaxLength
      BY <1>4, <1>12, <2>4, <3>1, FragmentType
    <3>3. given[b] \o fs[b].emit \in Seq(Open(Secrets))  BY <2>1, <3>2, ConcatProperties
    <3> QED BY <2>2, <2>3, <2>4, <3>2, <3>3
  <2>5. CASE b \notin bs  BY <2>1, <2>2, <2>3, <2>5
  <2> QED BY <2>4, <2>5
<1>13. DOMAIN buffer' = Blocks /\ DOMAIN given' = Blocks  BY <1>2, <1>10
<1>14. Open(Secrets)' = Open(Secrets)  BY <1>3 DEF Open, Secrets
<1> QED BY <1>3, <1>9, <1>11, <1>12, <1>13, <1>14 DEF SecretsKept

LEMMA SecretsKeptStep == SecretsKept /\ [StreamNext]_streamVars => SecretsKept'
<1> SUFFICES ASSUME SecretsKept, [StreamNext]_streamVars PROVE SecretsKept'  OBVIOUS
<1>1. CASE UNCHANGED streamVars  BY <1>1 DEF streamVars, SecretsKept, Open, Secrets
<1>2. CASE mode # "events" /\ StreamNext
  <2>1. mode' = mode  BY <1>2 DEF StreamNext, PlainChunk, PlainEnd, Event, Stop, End, CutOff, FilterChunk, FilterEnd
  <2> QED BY <1>2, <2>1 DEF SecretsKept
<1>3. CASE mode = "events" /\ StreamNext
  <2>1. Event \/ (\E b \in Blocks : Stop(b)) \/ End \/ CutOff
    BY <1>3 DEF StreamNext, PlainChunk, PlainEnd, FilterChunk, FilterEnd
  <2> QED BY <1>3, <2>1, EventKeeps, StopKeeps, EndKeeps, CutKeeps
<1> QED BY <1>1, <1>2, <1>3

THEOREM StreamKeepsSecrets == StreamSpec => []ToolsKeepSecrets
<1>1. StreamSpec => []SecretsKept
  BY StreamInitKept, SecretsKeptStep, PTL DEF StreamSpec
<1> QED BY <1>1, SecretsStay, PTL

-----------------------------------------------------------------------------
(* The filter of forged markers                                              *)

EndsRun(s, i, n) == (\A j \in i - n .. i - 1 : s[j] = "\\") /\ ~Is(s, i - n - 1, {"\\"})

LEMMA RunThere ==
    ASSUME NEW S, NEW s \in Seq(S), NEW i \in 1 .. Len(s) + 1
    PROVE  \E n \in 0 .. i - 1 : EndsRun(s, i, n)
<1> DEFINE T == {n \in Nat : ~Is(s, i - n - 1, {"\\"})}
<1>0. Len(s) \in Nat /\ i \in Nat /\ i >= 1  OBVIOUS
<1>1. i - 1 \in T  BY <1>0 DEF Is
<1>2. T \subseteq Nat /\ T # {}  BY <1>1
<1>3. PICK n \in T : \A m \in T : n <= m
  <2> HIDE DEF T
  <2> QED BY <1>2, LeastNat
<1>4. n \in 0 .. i - 1
  <2>1. n <= i - 1  BY <1>1, <1>3
  <2>2. n \in Nat  OBVIOUS
  <2> HIDE DEF T
  <2> QED BY <1>0, <2>1, <2>2
<1>5. ASSUME NEW j \in i - n .. i - 1 PROVE s[j] = "\\"
  <2>1. i - j - 1 \in Nat /\ i - j - 1 < n  BY <1>0, <1>4, <1>5
  <2>2. i - j - 1 \notin T
    <3> SUFFICES ASSUME i - j - 1 \in T PROVE FALSE  OBVIOUS
    <3>1. n <= i - j - 1  BY <1>3
    <3>2. n \in Nat  OBVIOUS
    <3> HIDE DEF T
    <3> QED BY <2>1, <3>1, <3>2
  <2>3. Is(s, i - (i - j - 1) - 1, {"\\"})  BY <2>1, <2>2
  <2>4. i - (i - j - 1) - 1 = j  BY <1>0, <1>5
  <2> QED BY <2>3, <2>4 DEF Is
<1> QED BY <1>4, <1>5 DEF EndsRun

LEMMA RunOnce ==
    ASSUME NEW S, NEW s \in Seq(S), NEW i \in 1 .. Len(s) + 1,
           NEW m \in 0 .. i - 1, NEW n \in 0 .. i - 1, EndsRun(s, i, m), EndsRun(s, i, n)
    PROVE  ~(m < n)
<1> SUFFICES ASSUME m < n PROVE FALSE  OBVIOUS
<1>0. Len(s) \in Nat /\ i \in Nat /\ m \in Nat /\ n \in Nat  OBVIOUS
<1>1. i - m - 1 \in i - n .. i - 1 /\ i - m - 1 \in 1 .. Len(s)  BY <1>0
<1>2. s[i - m - 1] = "\\"  BY <1>1 DEF EndsRun
<1> QED BY <1>1, <1>2 DEF EndsRun, Is

LEMMA RunOf ==
    ASSUME NEW S, NEW s \in Seq(S), NEW i \in 1 .. Len(s) + 1
    PROVE  Backslashes(s, i) \in 0 .. i - 1 /\ EndsRun(s, i, Backslashes(s, i))
<1>1. Backslashes(s, i) = CHOOSE n \in 0 .. i - 1 : EndsRun(s, i, n)  BY DEF Backslashes, EndsRun
<1> QED BY <1>1, RunThere

LEMMA RunIs ==
    ASSUME NEW S, NEW s \in Seq(S), NEW i \in 1 .. Len(s) + 1, NEW n \in 0 .. i - 1, EndsRun(s, i, n)
    PROVE  Backslashes(s, i) = n
<1>1. Backslashes(s, i) \in 0 .. i - 1 /\ EndsRun(s, i, Backslashes(s, i))  BY RunOf
<1>2. ~(n < Backslashes(s, i)) /\ ~(Backslashes(s, i) < n)  BY <1>1, RunOnce
<1> QED BY <1>1, <1>2

(* w is what s holds after g, and g is no place to cut a run of backslashes.  *)
PartOf(s, w, g) ==
    /\ g \in Nat /\ g + Len(w) <= Len(s)
    /\ \A i \in 1 .. Len(w) : w[i] = s[g + i]
    /\ ~Is(s, g, {"\\"})

LEMMA RunShifts ==
    ASSUME NEW S, NEW s \in Seq(S), NEW w \in Seq(S), NEW g, PartOf(s, w, g), NEW i \in 1 .. Len(w) + 1
    PROVE  Backslashes(w, i) = Backslashes(s, g + i)
<1> DEFINE n == Backslashes(w, i)
<1>1. n \in 0 .. i - 1 /\ EndsRun(w, i, n)  BY RunOf
<1> HIDE DEF n
<1>0. /\ Len(s) \in Nat /\ Len(w) \in Nat /\ g \in Nat /\ g + Len(w) <= Len(s)
      /\ i \in Nat /\ i >= 1 /\ i <= Len(w) + 1 /\ n \in Nat /\ n <= i - 1
  BY <1>1 DEF PartOf
<1>2. ASSUME NEW j \in (g + i) - n .. (g + i) - 1 PROVE s[j] = "\\"
  <2>1. j - g \in i - n .. i - 1 /\ j - g \in 1 .. Len(w)  BY <1>0
  <2>2. w[j - g] = "\\"  BY <1>1, <2>1 DEF EndsRun
  <2>3. w[j - g] = s[g + (j - g)]  BY <2>1 DEF PartOf
  <2>4. g + (j - g) = j  BY <1>0
  <2> QED BY <2>2, <2>3, <2>4
<1>3. ~Is(s, (g + i) - n - 1, {"\\"})
  <2>1. CASE i - n - 1 = 0
    <3>1. (g + i) - n - 1 = g  BY <2>1, <1>0
    <3> QED BY <3>1 DEF PartOf
  <2>2. CASE i - n - 1 # 0
    <3>1. i - n - 1 \in 1 .. Len(w) /\ (g + i) - n - 1 = g + (i - n - 1)  BY <2>2, <1>0
    <3>2. ~Is(w, i - n - 1, {"\\"})  BY <1>1 DEF EndsRun
    <3>3. w[i - n - 1] = s[g + (i - n - 1)]  BY <3>1 DEF PartOf
    <3> QED BY <3>1, <3>2, <3>3 DEF Is
  <2> QED BY <2>1, <2>2
<1>4. n \in 0 .. (g + i) - 1 /\ g + i \in 1 .. Len(s) + 1  BY <1>0
<1>5. EndsRun(s, g + i, n)  BY <1>2, <1>3 DEF EndsRun
<1>6. Backslashes(s, g + i) = n  BY <1>4, <1>5, RunIs
<1> QED BY <1>6 DEF n

LEMMA LeadShifts ==
    ASSUME NEW S, NEW s \in Seq(S), NEW w \in Seq(S), NEW g, PartOf(s, w, g), NEW i \in 1 .. Len(w) - 2
    PROVE  EscapedLead(w, i) <=> EscapedLead(s, g + i)
<1>0. Len(s) \in Nat /\ Len(w) \in Nat /\ g \in Nat /\ g + Len(w) <= Len(s)  BY DEF PartOf
<1>1. i \in 1 .. Len(w) /\ i + 1 \in 1 .. Len(w) /\ i + 2 \in 1 .. Len(w) /\ i \in 1 .. Len(w) + 1  BY <1>0
<1>2. g + i \in 1 .. Len(s) /\ g + i + 1 \in 1 .. Len(s) /\ g + i + 2 \in 1 .. Len(s)  BY <1>0
<1>3. w[i] = s[g + i] /\ w[i + 1] = s[g + i + 1] /\ w[i + 2] = s[g + i + 2]
  <2>1. g + (i + 1) = g + i + 1 /\ g + (i + 2) = g + i + 2  BY <1>0
  <2>2. \A k \in 1 .. Len(w) : w[k] = s[g + k]  BY DEF PartOf
  <2>3. w[i] = s[g + i] /\ w[i + 1] = s[g + (i + 1)] /\ w[i + 2] = s[g + (i + 2)]  BY <1>1, <2>2
  <2> QED BY <2>1, <2>3
<1>4. Backslashes(w, i) = Backslashes(s, g + i)  BY <1>1, RunShifts
<1> QED BY <1>1, <1>2, <1>3, <1>4 DEF EscapedLead, Is

Covered(s, k) == s[k] = MarkerLead \/ (k - 2 \in 1 .. Len(s) /\ EscapedLead(s, k - 2))

LEMMA NeutralAt ==
    ASSUME NEW S, NEW s \in Seq(S), NEW k \in 1 .. Len(s)
    PROVE  /\ Neutralize(s)[k] = IF Covered(s, k) THEN "#" ELSE s[k]
           /\ \A c \in {"\\", "u"} : Neutralize(s)[k] = c <=> s[k] = c
<1>1. Neutralize(s)[k] = IF Covered(s, k) THEN "#" ELSE s[k]
  BY DEF Neutralize, Covered
<1>2. ASSUME EscapedLead(s, k - 2) PROVE s[k] = "2"
  <2>1. k - 2 + 2 = k  OBVIOUS
  <2> QED BY <1>2, <2>1 DEF EscapedLead, Is
<1> QED BY <1>1, <1>2 DEF MarkerLead, Covered

LEMMA NeutralType ==
    ASSUME NEW S, "#" \in S, NEW s \in Seq(S)
    PROVE  Neutralize(s) \in Seq(S) /\ Len(Neutralize(s)) = Len(s)
<1> DEFINE f == [i \in 1 .. Len(s) |->
                   IF s[i] = MarkerLead \/ i - 2 \in {j \in 1 .. Len(s) : EscapedLead(s, j)} THEN "#" ELSE s[i]]
<1>1. Neutralize(s) = f  BY DEF Neutralize
<1>2. f \in [1 .. Len(s) -> S]  OBVIOUS
<1>3. Len(s) \in Nat  OBVIOUS
<1> HIDE DEF f
<1> QED BY <1>1, <1>2, <1>3

LEMMA NeutralShifts ==
    ASSUME NEW S, NEW s \in Seq(S), NEW w \in Seq(S), NEW g, PartOf(s, w, g),
           ~(Is(s, g - 1, {"\\"}) /\ Is(s, g, {"u"}) /\ Is(s, g + 1, {"2"})),
           NEW i \in 1 .. Len(w)
    PROVE  Neutralize(w)[i] = Neutralize(s)[g + i]
<1>0. Len(s) \in Nat /\ Len(w) \in Nat /\ g \in Nat /\ g + Len(w) <= Len(s)  BY DEF PartOf
<1>1. g + i \in 1 .. Len(s) /\ w[i] = s[g + i]  BY <1>0 DEF PartOf
<1>2. (i - 2 \in 1 .. Len(w) /\ EscapedLead(w, i - 2)) <=> ((g + i) - 2 \in 1 .. Len(s) /\ EscapedLead(s, (g + i) - 2))
  <2>1. CASE i = 1
    <3>1. (g + i) - 2 = g - 1 /\ g - 1 + 1 = g /\ g - 1 + 2 = g + 1 /\ i - 2 \notin 1 .. Len(w)  BY <1>0, <2>1
    <3>2. ~EscapedLead(s, g - 1)  BY <3>1 DEF EscapedLead
    <3> QED BY <3>1, <3>2
  <2>2. CASE i = 2
    <3>1. (g + i) - 2 = g /\ i - 2 \notin 1 .. Len(w)  BY <1>0, <2>2
    <3>2. ~EscapedLead(s, g)  BY DEF EscapedLead, PartOf
    <3> QED BY <3>1, <3>2
  <2>3. CASE i \notin {1, 2}
    <3>1. i - 2 \in 1 .. Len(w) - 2 /\ i - 2 \in 1 .. Len(w) /\ (g + i) - 2 = g + (i - 2) /\ (g + i) - 2 \in 1 .. Len(s)
      BY <1>0, <2>3
    <3> QED BY <3>1, LeadShifts
  <2> QED BY <2>1, <2>2, <2>3
<1>3. Neutralize(w)[i] = IF Covered(w, i) THEN "#" ELSE w[i]
  BY NeutralAt
<1>4. Neutralize(s)[g + i] = IF Covered(s, g + i) THEN "#" ELSE s[g + i]
  <2>1. \A k \in 1 .. Len(s) :
          Neutralize(s)[k] = IF Covered(s, k) THEN "#" ELSE s[k]
    BY NeutralAt
  <2> QED BY <1>1, <2>1
<1>5. Covered(w, i) <=> Covered(s, g + i)  BY <1>1, <1>2, Zenon DEF Covered
<1> QED BY <1>1, <1>3, <1>4, <1>5


LEMMA SliceIs ==
    ASSUME NEW S, NEW s \in Seq(S), NEW a \in 0 .. Len(s), NEW m \in a .. Len(s)
    PROVE  /\ SubSeq(s, a + 1, m) \in Seq(S) /\ Len(SubSeq(s, a + 1, m)) = m - a
           /\ \A i \in 1 .. m - a : SubSeq(s, a + 1, m)[i] = s[a + i]
<1>0. Len(s) \in Nat /\ a \in Nat /\ m \in Nat /\ a <= m /\ m <= Len(s)  OBVIOUS
<1>1. a + 1 \in Int /\ m \in Int /\ \A i \in a + 1 .. m : s[i] \in S  BY <1>0
<1>2. /\ SubSeq(s, a + 1, m) \in Seq(S)
      /\ Len(SubSeq(s, a + 1, m)) = IF a + 1 <= m THEN m - (a + 1) + 1 ELSE 0
      /\ \A i \in 1 .. m - (a + 1) + 1 : SubSeq(s, a + 1, m)[i] = s[(a + 1) + i - 1]
  BY <1>1, SubSeqProperties
<1>3. ASSUME NEW i \in 1 .. m - a PROVE SubSeq(s, a + 1, m)[i] = s[a + i]
  <2>1. i \in 1 .. m - (a + 1) + 1 /\ (a + 1) + i - 1 = a + i  BY <1>0
  <2> QED BY <1>2, <2>1
<1> QED BY <1>0, <1>2, <1>3

LEMMA SlicesJoin ==
    ASSUME NEW S, NEW s \in Seq(S), NEW g \in 0 .. Len(s), NEW a \in g .. Len(s), NEW m \in a .. Len(s)
    PROVE  SubSeq(s, g + 1, a) \o SubSeq(s, a + 1, m) = SubSeq(s, g + 1, m)
<1> DEFINE x == SubSeq(s, g + 1, a)
           y == SubSeq(s, a + 1, m)
           z == SubSeq(s, g + 1, m)
<1>0. Len(s) \in Nat /\ g \in Nat /\ a \in Nat /\ m \in Nat /\ g <= a /\ a <= m /\ m <= Len(s)  OBVIOUS
<1>1. x \in Seq(S) /\ Len(x) = a - g /\ \A i \in 1 .. a - g : x[i] = s[g + i]
  <2>1. g \in 0 .. Len(s) /\ a \in g .. Len(s)  OBVIOUS
  <2> QED BY <2>1, SliceIs
<1>2. y \in Seq(S) /\ Len(y) = m - a /\ \A i \in 1 .. m - a : y[i] = s[a + i]
  <2>1. a \in 0 .. Len(s) /\ m \in a .. Len(s)  BY <1>0
  <2> QED BY <2>1, SliceIs
<1>3. z \in Seq(S) /\ Len(z) = m - g /\ \A i \in 1 .. m - g : z[i] = s[g + i]
  <2>1. g \in 0 .. Len(s) /\ m \in g .. Len(s)  BY <1>0
  <2> QED BY <2>1, SliceIs
<1> HIDE DEF x, y, z
<1>4. /\ x \o y \in Seq(S) /\ Len(x \o y) = Len(x) + Len(y)
      /\ \A i \in 1 .. Len(x) + Len(y) : (x \o y)[i] = IF i <= Len(x) THEN x[i] ELSE y[i - Len(x)]
  BY <1>1, <1>2, ConcatProperties
<1>5. Len(x \o y) = Len(z)  BY <1>0, <1>1, <1>2, <1>3, <1>4
<1>6. ASSUME NEW i \in 1 .. Len(x \o y) PROVE (x \o y)[i] = z[i]
  <2>0. i \in 1 .. m - g /\ i \in 1 .. Len(x) + Len(y) /\ z[i] = s[g + i]  BY <1>0, <1>1, <1>2, <1>3, <1>4
  <2>1. CASE i <= a - g
    <3>1. i \in 1 .. a - g  BY <2>0, <2>1, <1>0
    <3> QED BY <2>0, <3>1, <2>1, <1>1, <1>4
  <2>2. CASE ~(i <= a - g)
    <3>1. i - (a - g) \in 1 .. m - a /\ a + (i - (a - g)) = g + i  BY <2>0, <2>2, <1>0
    <3>2. (x \o y)[i] = y[i - (a - g)]  BY <2>0, <2>2, <1>1, <1>4
    <3>3. y[i - (a - g)] = s[a + (i - (a - g))]  BY <3>1, <1>2
    <3> QED BY <2>0, <3>1, <3>2, <3>3
  <2> QED BY <2>1, <2>2
<1>7. x \o y = z  BY <1>3, <1>4, <1>5, <1>6, SeqEqual
<1> QED BY <1>7 DEF x, y, z

(* What waits is a run of backslashes that may go on or begin an escape, and  *)
(* what was given out before does not begin one.                             *)
Waits(s, g, a) ==
    /\ a \in 0 .. Len(s) /\ g \in 0 .. a
    /\ \A i \in g + 1 .. a : s[i] = "\\" \/ (i = a /\ s[i] = "u")
    /\ ~Is(s, g, {"\\"})
    /\ Is(s, g - 1, {"\\"}) /\ Is(s, g, {"u"}) => g < a /\ s[g + 1] = "\\"

LEMMA TailIs ==
    ASSUME NEW S, NEW s \in Seq(S)
    PROVE  LET n == PartialEscapeTail(s)
           IN  Waits(s, Len(s) - n, Len(s)) /\ n \in 0 .. Len(s)
<1> DEFINE L == Len(s)
           end == IF Is(s, L, {"u"}) THEN L - 1 ELSE L
           r == Backslashes(s, end + 1)
           n == PartialEscapeTail(s)
<1>0. L \in Nat  OBVIOUS
<1>1. n = IF r = 0 THEN 0 ELSE L - end + r  BY DEF PartialEscapeTail
<1>2. end \in 0 .. L /\ end + 1 \in 1 .. L + 1 /\ (end + 1) - 1 = end  BY <1>0 DEF Is
<1>3. end = L \/ (end = L - 1 /\ L \in 1 .. L /\ s[L] = "u")  BY DEF Is
<1>4. ~Is(s, L, {"u"}) => end = L  OBVIOUS
<1>5. r \in 0 .. (end + 1) - 1 /\ EndsRun(s, end + 1, r)
  <2> HIDE DEF end
  <2> QED BY <1>2, RunOf
<1> HIDE DEF L, end, r, n
<1>6. r \in 0 .. end  BY <1>2, <1>5
<1>7. \A j \in (end - r) + 1 .. end : s[j] = "\\"
  <2> SUFFICES ASSUME NEW j \in (end - r) + 1 .. end PROVE s[j] = "\\"  OBVIOUS
  <2>1. j \in (end + 1) - r .. (end + 1) - 1  BY <1>2, <1>6
  <2> QED BY <2>1, <1>5 DEF EndsRun
<1>8. ~Is(s, end - r, {"\\"})
  <2>1. (end + 1) - r - 1 = end - r  BY <1>2, <1>6
  <2> QED BY <2>1, <1>5 DEF EndsRun
<1>9. CASE r = 0
  <2>1. n = 0 /\ L - n = L  BY <1>0, <1>1, <1>9
  <2>2. ~Is(s, end, {"\\"})
    <3>1. end - r = end  BY <1>9, <1>2
    <3> QED BY <3>1, <1>8
  <2>3. ~Is(s, L, {"\\"})  BY <1>3, <2>2 DEF Is
  <2>4. ~(Is(s, L - 1, {"\\"}) /\ Is(s, L, {"u"}))
    <3> SUFFICES ASSUME Is(s, L, {"u"}) PROVE ~Is(s, L - 1, {"\\"})  OBVIOUS
    <3>1. end = L - 1  BY DEF end, L
    <3> QED BY <3>1, <2>2
  <2>5. Waits(s, L, L)  BY <1>0, <2>3, <2>4 DEF Waits, L
  <2> QED BY <1>0, <2>1, <2>5 DEF L, n
<1>10. CASE r # 0
  <2>1. n = L - end + r /\ n \in 1 .. L /\ L - n = end - r  BY <1>0, <1>1, <1>2, <1>6, <1>10
  <2>2. ASSUME NEW i \in (L - n) + 1 .. L PROVE s[i] = "\\" \/ (i = L /\ s[i] = "u")
    <3>1. CASE i <= end
      <4>1. i \in (end - r) + 1 .. end  BY <2>1, <2>2, <3>1, <1>0, <1>2, <1>6
      <4> QED BY <4>1, <1>7
    <3>2. CASE ~(i <= end)
      <4>1. i = L /\ s[L] = "u"  BY <3>2, <1>0, <1>2, <1>3, <2>1, <2>2
      <4> QED BY <4>1
    <3> QED BY <3>1, <3>2
  <2>3. ~Is(s, L - n, {"\\"})  BY <1>8, <2>1
  <2>4. L - n < L /\ s[(L - n) + 1] = "\\"
    <3>1. (end - r) + 1 \in (end - r) + 1 .. end  BY <1>2, <1>6, <1>10
    <3> QED BY <3>1, <1>0, <1>7, <2>1
  <2>5. L \in 0 .. L /\ L - n \in 0 .. L  BY <1>0, <2>1
  <2>6. Waits(s, L - n, L)  BY <2>2, <2>3, <2>4, <2>5 DEF Waits, L
  <2> QED BY <1>0, <2>1, <2>6 DEF L, n
<1> QED BY <1>9, <1>10

LEMMA FilterPiece ==
    ASSUME NEW S, "#" \in S, NEW s \in Seq(S), NEW g, NEW a, Waits(s, g, a), NEW m \in a + 1 .. Len(s)
    PROVE  LET W == Neutralize(SubSeq(s, g + 1, a) \o SubSeq(s, a + 1, m))
               n == PartialEscapeTail(W)
           IN  /\ n \in 0 .. m - g
               /\ AllBut(W, n) = SubSeq(Neutralize(s), g + 1, m - n)
               /\ Ending(W, n) = SubSeq(s, (m - n) + 1, m)
               /\ Waits(s, m - n, m)
<1> DEFINE w == SubSeq(s, g + 1, a) \o SubSeq(s, a + 1, m)
           W == Neutralize(w)
           T == Neutralize(s)
           n == PartialEscapeTail(W)
<1>0. /\ Len(s) \in Nat /\ g \in Nat /\ a \in Nat /\ m \in Nat /\ g <= a /\ a < m /\ m <= Len(s)
      /\ g \in 0 .. Len(s) /\ m \in g .. Len(s)
  BY DEF Waits
<1>1. w = SubSeq(s, g + 1, m)
  <2>1. g \in 0 .. Len(s) /\ a \in g .. Len(s) /\ m \in a .. Len(s)  BY <1>0
  <2> QED BY <2>1, SlicesJoin
<1> HIDE DEF w
<1>2. w \in Seq(S) /\ Len(w) = m - g /\ \A i \in 1 .. m - g : w[i] = s[g + i]
  BY <1>0, <1>1, SliceIs
<1>3. PartOf(s, w, g)  BY <1>0, <1>2 DEF PartOf, Waits
<1>4. ~(Is(s, g - 1, {"\\"}) /\ Is(s, g, {"u"}) /\ Is(s, g + 1, {"2"}))
  <2> SUFFICES ASSUME Is(s, g - 1, {"\\"}), Is(s, g, {"u"}) PROVE ~Is(s, g + 1, {"2"})  OBVIOUS
  <2>1. s[g + 1] = "\\"  BY DEF Waits
  <2> QED BY <2>1 DEF Is
<1>5. W \in Seq(S) /\ Len(W) = m - g /\ T \in Seq(S) /\ Len(T) = Len(s)  BY <1>2, NeutralType
<1>6. ASSUME NEW i \in 1 .. m - g
      PROVE  W[i] = T[g + i] /\ \A c \in {"\\", "u"} : W[i] = c <=> s[g + i] = c
  <2>1. i \in 1 .. Len(w)  BY <1>2
  <2>2. Neutralize(w)[i] = Neutralize(s)[g + i]  BY <1>2, <1>3, <1>4, <2>1, NeutralShifts
  <2>3. \A c \in {"\\", "u"} : Neutralize(w)[i] = c <=> w[i] = c  BY <1>2, <2>1, NeutralAt
  <2> QED BY <1>2, <2>2, <2>3
<1> HIDE DEF W, T
<1>7. Waits(W, (m - g) - n, m - g) /\ n \in 0 .. m - g
  <2>1. Waits(W, Len(W) - n, Len(W)) /\ n \in 0 .. Len(W)  BY <1>5, TailIs
  <2> QED BY <2>1, <1>5
<1> HIDE DEF n
<1>8. n \in Nat /\ n <= m - g /\ m - n \in Nat /\ g <= m - n /\ m - n <= m  BY <1>0, <1>7
<1>9. AllBut(W, n) = SubSeq(T, g + 1, m - n)
  <2> DEFINE x == AllBut(W, n)
             y == SubSeq(T, g + 1, m - n)
  <2>1. x \in Seq(S) /\ Len(x) = (m - g) - n /\ \A i \in 1 .. (m - g) - n : x[i] = W[i]
    <3>1. Len(W) - n \in Int /\ 1 \in Int /\ \A i \in 1 .. Len(W) - n : W[i] \in S  BY <1>0, <1>5, <1>8
    <3>2. /\ x \in Seq(S) /\ Len(x) = IF 1 <= Len(W) - n THEN Len(W) - n - 1 + 1 ELSE 0
          /\ \A i \in 1 .. Len(W) - n - 1 + 1 : x[i] = W[1 + i - 1]
      BY <3>1, SubSeqProperties DEF AllBut
    <3>3. ASSUME NEW i \in 1 .. (m - g) - n PROVE x[i] = W[i]
      <4>1. i \in 1 .. Len(W) - n - 1 + 1 /\ 1 + i - 1 = i  BY <1>0, <1>5, <1>8
      <4> HIDE DEF x
      <4> QED BY <3>2, <4>1
    <3> HIDE DEF x
    <3> QED BY <3>2, <3>3, <1>0, <1>5, <1>8
  <2>2. y \in Seq(S) /\ Len(y) = (m - n) - g /\ \A i \in 1 .. (m - n) - g : y[i] = T[g + i]
    <3>1. g \in 0 .. Len(T) /\ m - n \in g .. Len(T)  BY <1>0, <1>5, <1>8
    <3> QED BY <1>5, <3>1, SliceIs
  <2> HIDE DEF x, y
  <2>3. Len(x) = Len(y)  BY <2>1, <2>2, <1>0, <1>8
  <2>4. ASSUME NEW i \in 1 .. Len(x) PROVE x[i] = y[i]
    <3>1. i \in 1 .. (m - g) - n /\ i \in 1 .. (m - n) - g /\ i \in 1 .. m - g  BY <2>1, <1>0, <1>8
    <3> QED BY <3>1, <2>1, <2>2, <1>6
  <2>5. x = y  BY <2>1, <2>2, <2>3, <2>4, SeqEqual
  <2> QED BY <2>5 DEF x, y
<1>10. Ending(W, n) = SubSeq(s, (m - n) + 1, m)
  <2> DEFINE x == Ending(W, n)
             y == SubSeq(s, (m - n) + 1, m)
  <2>1. x \in Seq(S) /\ Len(x) = n /\ \A i \in 1 .. n : x[i] = W[((m - g) - n) + i]
    <3>1. (m - g) - n \in 0 .. Len(W) /\ Len(W) \in (m - g) - n .. Len(W)  BY <1>0, <1>5, <1>8
    <3>2. x = SubSeq(W, ((m - g) - n) + 1, Len(W))
      <4>1. Len(W) - n + 1 = ((m - g) - n) + 1  BY <1>0, <1>5, <1>8
      <4> QED BY <4>1 DEF Ending
    <3>3. /\ SubSeq(W, ((m - g) - n) + 1, Len(W)) \in Seq(S)
          /\ Len(SubSeq(W, ((m - g) - n) + 1, Len(W))) = Len(W) - ((m - g) - n)
          /\ \A i \in 1 .. Len(W) - ((m - g) - n) : SubSeq(W, ((m - g) - n) + 1, Len(W))[i] = W[((m - g) - n) + i]
      BY <1>5, <3>1, SliceIs
    <3>4. Len(W) - ((m - g) - n) = n  BY <1>0, <1>5, <1>8
    <3> HIDE DEF x
    <3> QED BY <3>2, <3>3, <3>4
  <2>2. y \in Seq(S) /\ Len(y) = m - (m - n) /\ \A i \in 1 .. m - (m - n) : y[i] = s[(m - n) + i]
    <3>1. m - n \in 0 .. Len(s) /\ m \in m - n .. Len(s)  BY <1>0, <1>8
    <3> QED BY <3>1, SliceIs
  <2> HIDE DEF x, y
  <2>3. Len(x) = Len(y)  BY <2>1, <2>2, <1>0, <1>8
  <2>4. ASSUME NEW i \in 1 .. Len(x) PROVE x[i] = y[i]
    <3> DEFINE k == ((m - g) - n) + i
    <3>1. /\ i \in 1 .. n /\ i \in 1 .. m - (m - n) /\ k \in ((m - g) - n) + 1 .. m - g /\ k \in 1 .. m - g
          /\ g + k = (m - n) + i
      BY <2>1, <1>0, <1>8
    <3> HIDE DEF k
    <3>2. W[k] = "\\" \/ W[k] = "u"  BY <3>1, <1>7 DEF Waits
    <3>3. W[k] = s[g + k]  BY <3>1, <3>2, <1>6
    <3>4. x[i] = W[k]  BY <3>1, <2>1 DEF k
    <3> QED BY <3>1, <3>3, <3>4, <2>2
  <2>5. x = y  BY <2>1, <2>2, <2>3, <2>4, SeqEqual
  <2> QED BY <2>5 DEF x, y
<1>11. Waits(s, m - n, m)
  <2>1. m \in 0 .. Len(s) /\ m - n \in 0 .. m  BY <1>0, <1>8
  <2> DEFINE h == (m - g) - n
  <2>0. h \in Nat /\ h <= m - g /\ g + h = m - n /\ g \in Nat /\ m \in Nat /\ m - g \in Nat  BY <1>0, <1>8
  <2>10. Waits(W, h, m - g)  BY <1>7
  <2> HIDE DEF h
  <2>2. ASSUME NEW i \in (m - n) + 1 .. m PROVE s[i] = "\\" \/ (i = m /\ s[i] = "u")
    <3>1. i - g \in h + 1 .. m - g /\ i - g \in 1 .. m - g /\ g + (i - g) = i  BY <2>0, <2>2
    <3>2. W[i - g] = "\\" \/ (i - g = m - g /\ W[i - g] = "u")  BY <2>10, <3>1 DEF Waits
    <3>3. \A c \in {"\\", "u"} : W[i - g] = c <=> s[g + (i - g)] = c  BY <3>1, <1>6
    <3>4. i - g = m - g => i = m  BY <2>0, <3>1
    <3> QED BY <3>1, <3>2, <3>3, <3>4
  <2>3. ASSUME NEW k \in Int, k >= 1, k <= h, NEW c \in {"\\", "u"} PROVE Is(s, g + k, {c}) <=> Is(W, k, {c})
    <3>1. k \in 1 .. m - g /\ g + k \in 1 .. Len(s) /\ k \in 1 .. Len(W)  BY <2>0, <2>3, <1>0, <1>5
    <3>2. W[k] = c <=> s[g + k] = c  BY <3>1, <1>6
    <3> QED BY <3>1, <3>2 DEF Is
  <2>4. ~Is(s, m - n, {"\\"})
    <3>1. CASE h = 0
      <4>1. m - n = g  BY <3>1, <2>0
      <4> QED BY <4>1 DEF Waits
    <3>2. CASE h # 0
      <4>1. ~Is(W, h, {"\\"})  BY <2>10 DEF Waits
      <4>2. Is(s, g + h, {"\\"}) <=> Is(W, h, {"\\"})  BY <3>2, <2>0, <2>3
      <4> QED BY <4>1, <4>2, <2>0
    <3> QED BY <3>1, <3>2
  <2>5. ASSUME Is(s, m - n - 1, {"\\"}), Is(s, m - n, {"u"}) PROVE m - n < m /\ s[(m - n) + 1] = "\\"
    <3>1. CASE h = 0
      <4>1. m - n = g /\ m - n - 1 = g - 1  BY <3>1, <2>0, <1>8
      <4>2. g < a /\ s[g + 1] = "\\"  BY <4>1, <2>5 DEF Waits
      <4> QED BY <4>1, <4>2, <1>0
    <3>2. CASE h = 1
      <4>1. m - n - 1 = g  BY <3>2, <2>0, <1>8
      <4> QED BY <4>1, <2>5 DEF Waits
    <3>3. CASE h # 0 /\ h # 1
      <4>1. m - n - 1 = g + (h - 1) /\ h - 1 \in Int /\ h - 1 >= 1 /\ h - 1 <= h /\ h \in Int /\ h >= 1 /\ h <= h
        BY <3>3, <2>0, <1>8
      <4>2. Is(W, h - 1, {"\\"}) /\ Is(W, h, {"u"})  BY <4>1, <2>0, <2>3, <2>5
      <4>3. h < m - g /\ W[h + 1] = "\\"  BY <2>10, <4>2 DEF Waits
      <4>4. h + 1 \in 1 .. m - g /\ g + (h + 1) = (m - n) + 1  BY <4>3, <2>0
      <4>5. s[g + (h + 1)] = "\\"  BY <4>3, <4>4, <1>6
      <4> QED BY <4>3, <4>4, <4>5, <2>0, <1>8
    <3> QED BY <3>1, <3>2, <3>3
  <2> QED BY <2>1, <2>2, <2>4, <2>5 DEF Waits
<1> QED BY <1>7, <1>9, <1>10, <1>11 DEF n, W, w, T

(* What the client was given and what waits, in characters of the source.    *)
FilterKept ==
    mode = "filter" =>
        /\ src \in [{Plain} -> Seq(Character)] /\ at \in [{Plain} -> Nat]
        /\ DOMAIN buffer = {Plain} /\ DOMAIN given = {Plain}
        /\ \E g \in 0 .. Len(src[Plain]) :
              /\ given[Plain] = SubSeq(Neutralize(src[Plain]), 1, g)
              /\ stage = "open" => /\ Waits(src[Plain], g, at[Plain])
                                   /\ buffer[Plain] = SubSeq(src[Plain], g + 1, at[Plain])
              /\ stage = "ended" => g = Len(src[Plain])

LEMMA FilterInit == StreamInit => FilterKept
<1> SUFFICES ASSUME StreamInit, mode = "filter" PROVE FilterKept  BY DEF FilterKept
<1>1. PICK s \in JsonTexts : src = [b \in {Plain} |-> s]  BY DEF StreamInit, Sources
<1>2. s \in Seq(Character)
  <2> HIDE DEF Character
  <2> QED BY StreamAssumption
<1>3. src \in [{Plain} -> Seq(Character)] /\ src[Plain] = s /\ DOMAIN src = {Plain}
  <2> HIDE DEF Character
  <2> QED BY <1>1, <1>2
<1>4. /\ at = [b \in {Plain} |-> 0] /\ buffer = [b \in {Plain} |-> <<>>]
      /\ given = [b \in {Plain} |-> <<>>] /\ stage = "open"
  BY <1>3 DEF StreamInit
<1>5. at[Plain] = 0 /\ buffer[Plain] = <<>> /\ given[Plain] = <<>>
      /\ DOMAIN buffer = {Plain} /\ DOMAIN given = {Plain} /\ at \in [{Plain} -> Nat]
  BY <1>4
<1>6. Len(s) \in Nat  BY <1>2
<1>7. Waits(s, 0, 0)  BY <1>6 DEF Waits, Is
<1>8. SubSeq(s, 0 + 1, 0) = <<>> /\ SubSeq(Neutralize(s), 1, 0) = <<>>  BY SubSeqEmpty
<1>9. 0 \in 0 .. Len(s) /\ stage # "ended"  BY <1>4, <1>6
<1> HIDE DEF Character
<1> QED BY <1>3, <1>5, <1>7, <1>8, <1>9 DEF FilterKept

LEMMA FilterChunkKeeps ==
    ASSUME FilterKept, mode = "filter", FilterChunk
    PROVE  FilterKept'
<1> DEFINE s == src[Plain]
           a == at[Plain]
           T == Neutralize(s)
<1>0. stage = "open" /\ UNCHANGED <<mode, src, stage>>  BY DEF FilterChunk
<1>1. s \in Seq(Character) /\ a \in Nat /\ "#" \in Character /\ Len(s) \in Nat
  <2>1. s \in Seq(Character) /\ a \in Nat
    <3> HIDE DEF Character
    <3> QED BY DEF FilterKept
  <2>2. "#" \in Character  BY StreamAssumption
  <2> HIDE DEF Character
  <2> QED BY <2>1, <2>2
<1>2. PICK g \in 0 .. Len(s) : given[Plain] = SubSeq(T, 1, g) /\ Waits(s, g, a) /\ buffer[Plain] = SubSeq(s, g + 1, a)
  BY <1>0 DEF FilterKept
<1>3. PICK piece \in NextPieces(Plain) :
        /\ Received(Plain, piece)
        /\ \E W \in {Neutralize(buffer[Plain] \o piece)} :
           \E n \in {PartialEscapeTail(W)} :
            /\ given' = [given EXCEPT ![Plain] = @ \o AllBut(W, n)]
            /\ buffer' = [buffer EXCEPT ![Plain] = Ending(W, n)]
  BY DEF FilterChunk
<1>4. PICK m \in a + 1 .. Len(s) : piece = SubSeq(s, a + 1, m)  BY DEF NextPieces
<1> DEFINE W == Neutralize(SubSeq(s, g + 1, a) \o SubSeq(s, a + 1, m))
           n == PartialEscapeTail(W)
<1>5. /\ given' = [given EXCEPT ![Plain] = @ \o AllBut(W, n)]
      /\ buffer' = [buffer EXCEPT ![Plain] = Ending(W, n)]
  BY <1>2, <1>3, <1>4
<1>6. /\ n \in 0 .. m - g
      /\ AllBut(W, n) = SubSeq(T, g + 1, m - n)
      /\ Ending(W, n) = SubSeq(s, (m - n) + 1, m)
      /\ Waits(s, m - n, m)
  <2> HIDE DEF Character, s, a
  <2> QED BY <1>1, <1>2, FilterPiece
<1> HIDE DEF W, n
<1>7. g \in Nat /\ m \in Nat /\ n \in Nat /\ g <= m - n /\ m <= Len(s) /\ a < m /\ m - n \in 0 .. Len(s) /\ a <= Len(s)
  <2> HIDE DEF s, a, T
  <2> QED BY <1>1, <1>2, <1>6 DEF Waits
<1>8. at' = [at EXCEPT ![Plain] = m]
  <2>1. Len(piece) = m - a
    <3>1. a \in 0 .. Len(s) /\ m \in a .. Len(s)
      <4> HIDE DEF s, a
      <4> QED BY <1>1, <1>7
    <3> HIDE DEF Character, s, a
    <3> QED BY <1>1, <1>4, <3>1, SliceIs
  <2>2. a + Len(piece) = m
    <3> HIDE DEF s, a
    <3> QED BY <2>1, <1>1, <1>7
  <2> QED BY <1>3, <2>2 DEF Received
<1>9. T \in Seq(Character) /\ Len(T) = Len(s)
  <2> HIDE DEF Character, s
  <2> QED BY <1>1, NeutralType
<1>10. SubSeq(T, 1, g) \o SubSeq(T, g + 1, m - n) = SubSeq(T, 1, m - n)
  <2> HIDE DEF Character, s, a, T
  <2>1. 0 \in 0 .. Len(T) /\ g \in 0 .. Len(T) /\ m - n \in g .. Len(T)  BY <1>1, <1>7, <1>9
  <2>2. SubSeq(T, 0 + 1, g) \o SubSeq(T, g + 1, m - n) = SubSeq(T, 0 + 1, m - n)  BY <1>9, <2>1, SlicesJoin
  <2>3. 0 + 1 = 1  OBVIOUS
  <2> QED BY <2>2, <2>3
<1>11. /\ given'[Plain] = SubSeq(T, 1, m - n) /\ buffer'[Plain] = SubSeq(s, (m - n) + 1, m) /\ at'[Plain] = m
       /\ DOMAIN given' = {Plain} /\ DOMAIN buffer' = {Plain} /\ at' \in [{Plain} -> Nat]
  <2>1. DOMAIN given = {Plain} /\ DOMAIN buffer = {Plain} /\ at \in [{Plain} -> Nat]  BY DEF FilterKept
  <2> HIDE DEF s, T
  <2>2. given'[Plain] = SubSeq(T, 1, m - n) /\ buffer'[Plain] = SubSeq(s, (m - n) + 1, m)
    BY <1>2, <1>5, <1>6, <1>10, <2>1
  <2>3. at'[Plain] = m /\ at' \in [{Plain} -> Nat]  BY <1>7, <1>8, <2>1
  <2> QED BY <1>5, <2>1, <2>2, <2>3
<1>12. src' \in [{Plain} -> Seq(Character)]
  <2> HIDE DEF Character
  <2> QED BY <1>0 DEF FilterKept
<1>13. src'[Plain] = s /\ stage' = "open"  BY <1>0
<1> HIDE DEF s, a, T, Character
<1>14. T = Neutralize(src'[Plain])  BY <1>13 DEF T, s
<1> QED BY <1>6, <1>7, <1>11, <1>12, <1>13, <1>14 DEF FilterKept

LEMMA FilterEndKeeps ==
    ASSUME FilterKept, mode = "filter", FilterEnd
    PROVE  FilterKept'
<1> DEFINE s == src[Plain]
           L == Len(s)
           T == Neutralize(s)
<1>0. stage = "open" /\ stage' = "ended" /\ UNCHANGED <<mode, src, at>> /\ at[Plain] = L  BY DEF FilterEnd
<1>1. s \in Seq(Character) /\ "#" \in Character /\ L \in Nat
  <2>1. s \in Seq(Character)
    <3> HIDE DEF Character
    <3> QED BY DEF FilterKept
  <2>2. "#" \in Character  BY StreamAssumption
  <2> HIDE DEF Character
  <2> QED BY <2>1, <2>2
<1>2. PICK g \in 0 .. L : given[Plain] = SubSeq(T, 1, g) /\ Waits(s, g, L) /\ buffer[Plain] = SubSeq(s, g + 1, L)
  BY <1>0 DEF FilterKept
<1>3. DOMAIN given = {Plain} /\ DOMAIN buffer = {Plain} /\ at \in [{Plain} -> Nat]
      /\ src \in [{Plain} -> Seq(Character)]
  <2> HIDE DEF Character
  <2> QED BY DEF FilterKept
<1>4. T \in Seq(Character) /\ Len(T) = L
  <2> HIDE DEF Character, s
  <2> QED BY <1>1, NeutralType DEF L
<1>5. given'[Plain] = SubSeq(T, 1, g) \o SubSeq(s, g + 1, L) /\ DOMAIN given' = {Plain} /\ DOMAIN buffer' = {Plain}
  <2> HIDE DEF s, L, T
  <2> QED BY <1>2, <1>3 DEF FilterEnd
<1> DEFINE x == SubSeq(s, g + 1, L)
           y == SubSeq(T, g + 1, L)
<1>6. x = y
  <2> HIDE DEF Character
  <2>1. x \in Seq(Character) /\ Len(x) = L - g /\ \A i \in 1 .. L - g : x[i] = s[g + i]
    <3>1. g \in 0 .. Len(s) /\ L \in g .. Len(s)
      <4> HIDE DEF s
      <4> QED BY <1>1 DEF L
    <3> HIDE DEF s, L
    <3> QED BY <1>1, <3>1, SliceIs
  <2>2. y \in Seq(Character) /\ Len(y) = L - g /\ \A i \in 1 .. L - g : y[i] = T[g + i]
    <3>1. g \in 0 .. Len(T) /\ L \in g .. Len(T)
      <4> HIDE DEF s, T, L
      <4> QED BY <1>1, <1>4
    <3> HIDE DEF s, T, L
    <3> QED BY <1>4, <3>1, SliceIs
  <2>3. ASSUME NEW i \in 1 .. L - g PROVE s[g + i] = T[g + i]
    <3>1. g + i \in g + 1 .. L /\ g + i \in 1 .. Len(s)
      <4> HIDE DEF s
      <4> QED BY <1>1 DEF L
    <3>2. s[g + i] = "\\" \/ s[g + i] = "u"
      <4> HIDE DEF s, L
      <4> QED BY <1>2, <3>1 DEF Waits
    <3>3. \A c \in {"\\", "u"} : T[g + i] = c <=> s[g + i] = c
      <4> DEFINE k == g + i
      <4>1. k \in 1 .. Len(s)  BY <3>1
      <4> HIDE DEF k, s
      <4>2. \A c \in {"\\", "u"} : Neutralize(s)[k] = c <=> s[k] = c  BY <1>1, <4>1, NeutralAt
      <4> QED BY <4>2 DEF k
    <3> HIDE DEF s, T
    <3> QED BY <3>2, <3>3
  <2> HIDE DEF x, y, s, T, L
  <2>4. \A i \in 1 .. Len(x) : x[i] = y[i]  BY <2>1, <2>2, <2>3
  <2> QED BY <2>1, <2>2, <2>4, SeqEqual
<1>7. SubSeq(T, 1, g) \o y = SubSeq(T, 1, L)
  <2> HIDE DEF Character, s, T, L
  <2>1. 0 \in 0 .. Len(T) /\ g \in 0 .. Len(T) /\ L \in g .. Len(T)  BY <1>1, <1>4
  <2>2. SubSeq(T, 0 + 1, g) \o SubSeq(T, g + 1, L) = SubSeq(T, 0 + 1, L)  BY <1>4, <2>1, SlicesJoin
  <2>3. 0 + 1 = 1  OBVIOUS
  <2> QED BY <2>2, <2>3
<1>8. given'[Plain] = SubSeq(T, 1, L)  BY <1>5, <1>6, <1>7
<1>9. src'[Plain] = s  BY <1>0
<1> HIDE DEF s, T, L, x, y, Character
<1>10. T = Neutralize(src'[Plain]) /\ L = Len(src'[Plain]) /\ L \in 0 .. L  BY <1>1, <1>9 DEF T, L, s
<1> QED BY <1>0, <1>3, <1>5, <1>8, <1>10 DEF FilterKept

LEMMA FilterIsWhole == FilterKept => (mode = "filter" => StreamIsWhole)
<1> SUFFICES ASSUME FilterKept, mode = "filter" PROVE StreamIsWhole  OBVIOUS
<1> DEFINE s == src[Plain]
           T == Neutralize(s)
<1>1. s \in Seq(Character) /\ DOMAIN src = {Plain} /\ "#" \in Character
  <2>1. s \in Seq(Character) /\ DOMAIN src = {Plain}
    <3> HIDE DEF Character
    <3> QED BY DEF FilterKept
  <2>2. "#" \in Character  BY StreamAssumption
  <2> QED BY <2>1, <2>2
<1>2. PICK g \in 0 .. Len(s) : given[Plain] = SubSeq(T, 1, g) /\ (stage = "ended" => g = Len(s))
  BY DEF FilterKept
<1> HIDE DEF Character
<1>3. T \in Seq(Character) /\ Len(T) = Len(s) /\ Len(s) \in Nat
  <2> HIDE DEF s
  <2> QED BY <1>1, NeutralType
<1> DEFINE p == SubSeq(T, 1, g)
<1> HIDE DEF s, T
<1>4. p \in Seq(Character) /\ Len(p) = g /\ \A i \in 1 .. g : p[i] = T[i]
  <2>1. 0 \in 0 .. Len(T) /\ g \in 0 .. Len(T)  BY <1>3
  <2>2. SubSeq(T, 0 + 1, g) \in Seq(Character) /\ Len(SubSeq(T, 0 + 1, g)) = g - 0
        /\ \A i \in 1 .. g - 0 : SubSeq(T, 0 + 1, g)[i] = T[0 + i]
    BY <1>3, <2>1, SliceIs
  <2> QED BY <2>2
<1>5. SubSeq(p, 1, g) = p
  <2> HIDE DEF p
  <2> DEFINE q == SubSeq(p, 0 + 1, g)
  <2>1. 0 \in 0 .. Len(p) /\ g \in 0 .. Len(p)  BY <1>4
  <2>2. q \in Seq(Character) /\ Len(q) = g - 0 /\ \A i \in 1 .. g - 0 : q[i] = p[0 + i]
    BY <1>4, <2>1, SliceIs
  <2> HIDE DEF q
  <2>3. Len(q) = Len(p) /\ \A i \in 1 .. Len(q) : q[i] = p[i]  BY <1>4, <2>2
  <2>4. q = p  BY <1>4, <2>2, <2>3, SeqEqual
  <2> QED BY <2>4 DEF q
<1>6. IsPrefix(p, T)  BY <1>3, <1>4, <1>5 DEF IsPrefix
<1>7. ASSUME g = Len(s) PROVE p = T
  <2> HIDE DEF p
  <2>1. Len(p) = Len(T) /\ \A i \in 1 .. Len(p) : p[i] = T[i]  BY <1>3, <1>4, <1>7
  <2> QED BY <1>3, <1>4, <2>1, SeqEqual
<1>8. Whole(Plain) = T  BY DEF Whole, T, s
<1>9. PiecesMakeTheWhole  BY <1>1, <1>2, <1>6, <1>7, <1>8 DEF PiecesMakeTheWhole
<1> QED BY <1>9 DEF StreamIsWhole, RepeatAgrees, ResidualsAreExact

(* However the raw body is cut into pieces, the filter gives the client what  *)
(* it would make of the whole, piece by piece: no escape is judged by half of *)
(* it, and at the end nothing is kept.                                       *)
THEOREM FilteredAsAWhole == StreamSpec => [](mode = "filter" => StreamIsWhole)
<1>1. StreamInit => FilterKept  BY FilterInit
<1>2. FilterKept /\ [StreamNext]_streamVars => FilterKept'
  <2> SUFFICES ASSUME FilterKept, [StreamNext]_streamVars PROVE FilterKept'  OBVIOUS
  <2>1. CASE UNCHANGED streamVars  BY <2>1 DEF streamVars, FilterKept, Character, StreamValues
  <2>2. CASE mode # "filter" /\ StreamNext
    <3>1. mode' = mode
      BY <2>2 DEF StreamNext, PlainChunk, PlainEnd, Event, Stop, End, CutOff, FilterChunk, FilterEnd
    <3> QED BY <2>2, <3>1 DEF FilterKept
  <2>3. CASE mode = "filter" /\ StreamNext
    <3>1. FilterChunk \/ FilterEnd  BY <2>3 DEF StreamNext, PlainChunk, PlainEnd, Event, Stop, End, CutOff
    <3> QED BY <2>3, <3>1, FilterChunkKeeps, FilterEndKeeps
  <2> QED BY <2>1, <2>2, <2>3
<1>3. FilterKept => (mode = "filter" => StreamIsWhole)  BY FilterIsWhole
<1> QED BY <1>1, <1>2, <1>3, PTL DEF StreamSpec

-----------------------------------------------------------------------------
(* Requests                                                                  *)

LEMMA FieldsOfBodies ==
    ASSUME NEW doc \in Requests \cup Answers \cup Texts
    PROVE  /\ doc \in Seq(JsonField)
           /\ \A i \in DOMAIN doc :
                /\ doc[i] \in JsonField
                /\ doc[i].parts \in Seq(JsonPart)
                /\ \A k \in DOMAIN doc[i].parts : doc[i].parts[k] \in JsonPart
<1>1. doc \in Seq(JsonField)  BY JsonBodiesAssumption
<1>2. ASSUME NEW i \in DOMAIN doc
      PROVE  /\ doc[i] \in JsonField
             /\ doc[i].parts \in Seq(JsonPart)
             /\ \A k \in DOMAIN doc[i].parts : doc[i].parts[k] \in JsonPart
  <2>1. doc[i] \in JsonField  BY <1>1
  <2>2. doc[i].parts \in Seq(JsonPart)  BY <2>1 DEF JsonField
  <2> QED BY <2>1, <2>2
<1> QED BY <1>1, <1>2

(* A literal that is rewritten keeps no value that shows in it, and one that *)
(* is not has none; what its own decoding does not show, a further one of    *)
(* opened JSON text does not show either.                                    *)
LEMMA RewrittenIsClean ==
    ASSUME NEW doc \in Requests, NEW i \in DOMAIN doc, IsLeaf(doc[i])
    PROVE  ~LeakIn(Rewritten(doc[i]))
<1> DEFINE field == doc[i]
           hit(k) == Shows(field.parts[k], DecodedAt(field)) /\ field.parts[k].of \in HeldValues
<1>1. /\ field \in JsonField
      /\ \A k \in DOMAIN field.parts : field.parts[k] \in JsonPart
  BY FieldsOfBodies
<1>2. \A k \in DOMAIN field.parts :
         field.parts[k].is = "value" /\ field.parts[k].of \in Quoted
            => field.parts[k].esc = Depth(field)
  BY JsonBodiesAssumption
<1>3. field.kind # "number"  BY DEF IsLeaf
<1> HIDE DEF field
<1>4. ASSUME NEW k \in DOMAIN field.parts, field.parts[k].is = "value",
             field.parts[k].of \in HeldValues, ~hit(k)
      PROVE  ~Shows(field.parts[k], 1) /\ ~(Opened(field) /\ Shows(field.parts[k], 2))
  BY <1>2, <1>4 DEF Shows, DecodedAt, Opened, Depth
<1>5. CASE \E k \in DOMAIN field.parts : hit(k)
  <2> DEFINE new == Rewritten(field)
             parts == [k \in DOMAIN field.parts |->
                          IF hit(k) THEN MintedFor(field.parts[k]) ELSE field.parts[k]]
  <2>1. new = [field EXCEPT !.kind = IF Opened(field) THEN "json" ELSE field.kind, !.parts = parts]
    BY <1>5 DEF Rewritten
  <2>2. new.parts = parts /\ new.key = field.key
        /\ new.kind = IF Opened(field) THEN "json" ELSE field.kind
    BY <1>1, <2>1 DEF JsonField
  <2>3. new.kind # "number" /\ (Opened(new) <=> Opened(field))
    BY <1>3, <2>2 DEF Opened
  <2>4. DOMAIN new.parts = DOMAIN field.parts
        /\ \A k \in DOMAIN field.parts :
              new.parts[k] = IF hit(k) THEN MintedFor(field.parts[k]) ELSE field.parts[k]
    BY <2>2
  <2>5. ASSUME NEW k \in DOMAIN new.parts, new.parts[k].is = "value",
               new.parts[k].of \in HeldValues
        PROVE  ~Shows(new.parts[k], 1) /\ ~(Opened(new) /\ Shows(new.parts[k], 2))
    <3> HIDE DEF new, parts, hit
    <3>1. k \in DOMAIN field.parts  BY <2>4
    <3>2. \A part : MintedFor(part).is # "value"  BY DEF MintedFor
    <3>3. ~hit(k)  BY <2>4, <2>5, <3>1, <3>2
    <3>4. new.parts[k] = field.parts[k]  BY <2>4, <3>1, <3>3
    <3> QED BY <1>4, <2>3, <2>5, <3>1, <3>3, <3>4
  <2>6. ~LeakIn(new)
    <3> HIDE DEF new, parts, hit
    <3> QED BY <2>3, <2>5 DEF LeakIn
  <2> QED BY <2>6 DEF new, field
<1>6. CASE ~ \E k \in DOMAIN field.parts : hit(k)
  <2>1. Rewritten(field) = field  BY <1>6 DEF Rewritten
  <2> HIDE DEF hit
  <2>2. ~LeakIn(field)  BY <1>3, <1>4, <1>6 DEF LeakIn
  <2> QED BY <2>1, <2>2 DEF field
<1> QED BY <1>5, <1>6

LEMMA ScreenLeavesNumbers ==
    ASSUME NEW doc \in Requests, ScreenJson(doc)
    PROVE  treated'.what = "request" /\ OnlyNumbersHoldARequest'
<1> DEFINE sent == Rendered(doc)
           leaky == {i \in DOMAIN sent : LeakIn(sent[i])}
<1>1. treated' = [what |-> "request", body |-> doc, sent |-> sent, leaks |-> leaky]
  BY DEF ScreenJson
<1>2. \A i \in leaky : sent[i].kind = "number"
  <2> SUFFICES ASSUME NEW i \in DOMAIN sent, LeakIn(sent[i])
               PROVE  sent[i].kind = "number"
    OBVIOUS
  <2>1. /\ i \in DOMAIN doc
        /\ sent[i] = IF IsLeaf(doc[i]) THEN Rewritten(doc[i]) ELSE doc[i]
    BY DEF Rendered, Leaves
  <2>2. ~IsLeaf(doc[i])  BY <2>1, RewrittenIsClean
  <2> QED BY <2>1, <2>2 DEF IsLeaf
<1> HIDE DEF sent, leaky
<1> QED BY <1>1, <1>2 DEF OnlyNumbersHoldARequest

-----------------------------------------------------------------------------
(* Answers                                                                   *)

(* What sanitizing leaves: the same fields, and in each the same parts but   *)
(* for leads that no longer delimit.                                         *)
LEMMA SanitizedFields ==
    ASSUME NEW doc \in Answers \cup Texts, NEW rule \in RestoreChoice, NEW i \in DOMAIN doc
    PROVE  LET clean == Sanitized(doc, rule)[i]
           IN  /\ clean = [key |-> doc[i].key, kind |-> doc[i].kind, parts |-> clean.parts]
               /\ clean.key = doc[i].key /\ clean.kind = doc[i].kind
               /\ DOMAIN clean.parts = DOMAIN doc[i].parts
               /\ \A k \in DOMAIN doc[i].parts :
                    clean.parts[k] = IF Neutralized(doc[i], doc[i].parts[k], rule)
                                     THEN [doc[i].parts[k] EXCEPT !.is = "neutralized"]
                                     ELSE doc[i].parts[k]
<1> DEFINE parts == [k \in DOMAIN doc[i].parts |->
                       IF Neutralized(doc[i], doc[i].parts[k], rule)
                       THEN [doc[i].parts[k] EXCEPT !.is = "neutralized"] ELSE doc[i].parts[k]]
<1>1. Sanitized(doc, rule)[i] = [doc[i] EXCEPT !.parts = parts]
  BY DEF Sanitized
<1>2. doc[i] \in JsonField  BY FieldsOfBodies
<1>3. /\ DOMAIN parts = DOMAIN doc[i].parts
      /\ \A k \in DOMAIN doc[i].parts :
           parts[k] = IF Neutralized(doc[i], doc[i].parts[k], rule)
                      THEN [doc[i].parts[k] EXCEPT !.is = "neutralized"] ELSE doc[i].parts[k]
  OBVIOUS
<1> HIDE DEF parts
<1>4. [doc[i] EXCEPT !.parts = parts] = [key |-> doc[i].key, kind |-> doc[i].kind, parts |-> parts]
  BY <1>2 DEF JsonField
<1> DEFINE clean == Sanitized(doc, rule)[i]
<1>5. clean = [key |-> doc[i].key, kind |-> doc[i].kind, parts |-> parts]  BY <1>1, <1>4
<1> HIDE DEF clean
<1>6. clean.key = doc[i].key /\ clean.kind = doc[i].kind /\ clean.parts = parts  BY <1>5
<1> QED BY <1>3, <1>5, <1>6 DEF clean

(* What stands in a sanitized field, part by part.                           *)
CleanPart == [is : {"value", "token", "debris", "lead", "neutralized"}, of : BodyValue, esc : Nat]

LEMMA SanitizedParts ==
    ASSUME NEW doc \in Answers \cup Texts, NEW rule \in RestoreChoice, NEW i \in DOMAIN doc, NEW k \in DOMAIN doc[i].parts
    PROVE  LET part == Sanitized(doc, rule)[i].parts[k]
               was == doc[i].parts[k]
           IN  /\ DOMAIN Sanitized(doc, rule)[i].parts = DOMAIN doc[i].parts
               /\ part \in CleanPart
               /\ part.of = was.of /\ part.esc = was.esc
               /\ part.is = IF Neutralized(doc[i], was, rule) THEN "neutralized" ELSE was.is
<1>1. /\ DOMAIN Sanitized(doc, rule)[i].parts = DOMAIN doc[i].parts
      /\ Sanitized(doc, rule)[i].parts[k] =
           IF Neutralized(doc[i], doc[i].parts[k], rule)
           THEN [doc[i].parts[k] EXCEPT !.is = "neutralized"] ELSE doc[i].parts[k]
  BY SanitizedFields
<1>2. doc[i].parts[k] \in JsonPart  BY FieldsOfBodies
<1> QED BY <1>1, <1>2 DEF JsonPart, CleanPart

(* With markers asked for, sanitizing leaves none of the model's own, so     *)
(* nothing in the answer counts as restored already.                         *)
LEMMA NothingShielded ==
    ASSUME NEW doc \in Answers \cup Texts, NEW rule \in RestoreChoice, NEW i \in DOMAIN doc, NEW k
    PROVE  ~Shielded(Sanitized(doc, rule), i, k, rule)
<1> DEFINE clean == Sanitized(doc, rule)
<1> SUFFICES ASSUME rule.markers, NEW a \in 1..i, NEW b \in DOMAIN clean[a].parts,
                    Delimits(clean[a], clean[a].parts[b])
             PROVE  FALSE
  BY DEF Shielded
<1>1. a \in DOMAIN doc
  <2>1. doc \in Seq(JsonField)  BY FieldsOfBodies
  <2> QED BY <2>1
<1>2. clean[a].kind = doc[a].kind /\ DOMAIN clean[a].parts = DOMAIN doc[a].parts
  BY <1>1, SanitizedFields
<1>3. /\ clean[a].parts[b].esc = doc[a].parts[b].esc
      /\ clean[a].parts[b].is = IF Neutralized(doc[a], doc[a].parts[b], rule)
                                THEN "neutralized" ELSE doc[a].parts[b].is
  BY <1>1, <1>2, SanitizedParts
<1> HIDE DEF clean
<1>4. CASE Neutralized(doc[a], doc[a].parts[b], rule)
  BY <1>3, <1>4 DEF Delimits
<1>5. CASE ~Neutralized(doc[a], doc[a].parts[b], rule)
  BY <1>2, <1>3, <1>5 DEF Neutralized, Delimits
<1> QED BY <1>4, <1>5

(* The restored body, field by field and part by part.                       *)
LEMMA RestoredFields ==
    ASSUME NEW doc \in Answers \cup Texts, NEW rule \in RestoreChoice,
           NEW choice \in RestoreChoice, NEW kept,
           choice.markers = rule.markers
    PROVE  LET clean == Sanitized(doc, rule)
               got == RestoredBody(clean, kept, choice)
           IN  /\ DOMAIN got = DOMAIN doc
               /\ \A i \in DOMAIN doc :
                    /\ got[i].key = doc[i].key /\ got[i].kind = doc[i].kind
                    /\ DOMAIN got[i].parts = DOMAIN doc[i].parts
                    /\ \A k \in DOMAIN doc[i].parts :
                         got[i].parts[k] =
                            RestoredPart(clean[i].parts[k], EscapedFor(clean, clean[i]), kept, choice)
<1> DEFINE clean == Sanitized(doc, rule)
           got == RestoredBody(clean, kept, choice)
<1>1. DOMAIN clean = DOMAIN doc  BY DEF Sanitized
<1>2. DOMAIN got = DOMAIN doc  BY <1>1 DEF RestoredBody
<1> SUFFICES ASSUME NEW i \in DOMAIN doc
             PROVE  /\ got[i].key = doc[i].key /\ got[i].kind = doc[i].kind
                    /\ DOMAIN got[i].parts = DOMAIN doc[i].parts
                    /\ \A k \in DOMAIN doc[i].parts :
                         got[i].parts[k] =
                            RestoredPart(clean[i].parts[k], EscapedFor(clean, clean[i]), kept, choice)
  BY <1>2
<1> DEFINE parts == [k \in DOMAIN clean[i].parts |->
                       IF Shielded(clean, i, k, choice) THEN clean[i].parts[k]
                       ELSE RestoredPart(clean[i].parts[k], EscapedFor(clean, clean[i]), kept, choice)]
<1>3. got[i] = [clean[i] EXCEPT !.parts = parts]
  BY <1>1 DEF RestoredBody
<1>4. /\ clean[i] = [key |-> doc[i].key, kind |-> doc[i].kind, parts |-> clean[i].parts]
      /\ clean[i].key = doc[i].key /\ clean[i].kind = doc[i].kind
      /\ DOMAIN clean[i].parts = DOMAIN doc[i].parts
  BY SanitizedFields
<1>5. doc[i] \in JsonField  BY FieldsOfBodies
<1>6. \A k \in DOMAIN clean[i].parts : ~Shielded(clean, i, k, choice)
  BY NothingShielded DEF Shielded
<1>7. /\ DOMAIN parts = DOMAIN clean[i].parts
      /\ \A k \in DOMAIN clean[i].parts :
           parts[k] = RestoredPart(clean[i].parts[k], EscapedFor(clean, clean[i]), kept, choice)
  BY <1>6
<1> HIDE DEF parts, clean, got
<1>8. got[i].key = clean[i].key /\ got[i].kind = clean[i].kind /\ got[i].parts = parts
  BY <1>3, <1>4, <1>5 DEF JsonField
<1> QED BY <1>4, <1>7, <1>8

(* Fields that are equal once sanitized were equal before: only a lead that  *)
(* delimits is altered, and what it becomes nobody writes.                   *)
LEMMA EqualBefore ==
    ASSUME NEW doc \in Answers \cup Texts, NEW rule \in RestoreChoice,
           NEW i \in DOMAIN doc, NEW j \in DOMAIN doc,
           Sanitized(doc, rule)[i].parts = Sanitized(doc, rule)[j].parts
    PROVE  doc[i].parts = doc[j].parts
<1> DEFINE clean == Sanitized(doc, rule)
<1>1. /\ doc[i].parts \in Seq(JsonPart) /\ doc[j].parts \in Seq(JsonPart)
      /\ \A k \in DOMAIN doc[i].parts : doc[i].parts[k] \in JsonPart
      /\ \A k \in DOMAIN doc[j].parts : doc[j].parts[k] \in JsonPart
  BY FieldsOfBodies
<1>2. DOMAIN doc[i].parts = DOMAIN doc[j].parts
  <2>1. DOMAIN clean[i].parts = DOMAIN doc[i].parts  BY SanitizedFields
  <2>2. DOMAIN clean[j].parts = DOMAIN doc[j].parts  BY SanitizedFields
  <2> QED BY <2>1, <2>2
<1>3. ASSUME NEW k \in DOMAIN doc[i].parts  PROVE doc[i].parts[k] = doc[j].parts[k]
  <2> DEFINE one == doc[i].parts[k]
             two == doc[j].parts[k]
             part == clean[i].parts[k]
  <2>1. /\ part.of = one.of /\ part.esc = one.esc
        /\ part.is = IF Neutralized(doc[i], one, rule) THEN "neutralized" ELSE one.is
    BY SanitizedParts
  <2>2. /\ part.of = two.of /\ part.esc = two.esc
        /\ part.is = IF Neutralized(doc[j], two, rule) THEN "neutralized" ELSE two.is
    BY <1>2, SanitizedParts
  <2>3. one \in JsonPart /\ two \in JsonPart  BY <1>1, <1>2
  <2> HIDE DEF one, two, part, clean
  <2>4. one.is = two.is
    BY <2>1, <2>2, <2>3 DEF JsonPart, Neutralized, Delimits
  <2>5. /\ one = [is |-> one.is, of |-> one.of, esc |-> one.esc]
        /\ two = [is |-> two.is, of |-> two.of, esc |-> two.esc]
    BY <2>3 DEF JsonPart
  <2>6. one.of = two.of /\ one.esc = two.esc  BY <2>1, <2>2
  <2>7. one = two  BY <2>4, <2>5, <2>6
  <2> QED BY <2>7 DEF one, two
<1> QED BY <1>1, <1>2, <1>3

(* What is put back is escaped for its reader, and deeper only if the same   *)
(* text stands as a call's arguments too.                                    *)
LEMMA EscapedForReader ==
    ASSUME NEW doc \in Answers \cup Texts, NEW rule \in RestoreChoice, NEW i \in DOMAIN doc
    PROVE  LET clean == Sanitized(doc, rule)
               esc == EscapedFor(clean, clean[i])
           IN  /\ esc \in 0..2
               /\ esc >= Reader(doc[i])
               /\ esc > Reader(doc[i]) => \E j \in DOMAIN doc : j # i /\ doc[j].parts = doc[i].parts
<1> DEFINE clean == Sanitized(doc, rule)
           nested == NestedField(clean, clean[i])
<1>1. DOMAIN clean = DOMAIN doc  BY DEF Sanitized
<1>2. \A j \in DOMAIN doc : clean[j].key = doc[j].key /\ clean[j].kind = doc[j].kind
  BY SanitizedFields
<1>3. /\ doc[i].kind = "plain" => EscapedFor(clean, clean[i]) = 0
      /\ doc[i].kind # "plain" /\ nested => EscapedFor(clean, clean[i]) = 2
      /\ doc[i].kind # "plain" /\ ~nested => EscapedFor(clean, clean[i]) = 1
  <2>1. clean[i].kind = doc[i].kind  BY <1>2
  <2> HIDE DEF clean
  <2>2. EscapedFor(clean, clean[i]) =
          IF clean[i].kind = "plain" THEN 0 ELSE IF nested THEN 2 ELSE 1
    BY DEF EscapedFor
  <2> HIDE DEF nested
  <2> QED BY <2>1, <2>2
<1>4. doc[i].key = "arguments" => nested
  BY <1>1, <1>2 DEF NestedField
<1>5. nested /\ doc[i].key # "arguments" => \E j \in DOMAIN doc : j # i /\ doc[j].parts = doc[i].parts
  <2> SUFFICES ASSUME nested, doc[i].key # "arguments"
               PROVE  \E j \in DOMAIN doc : j # i /\ doc[j].parts = doc[i].parts
    OBVIOUS
  <2>1. PICK j \in DOMAIN doc : clean[j].key = "arguments" /\ clean[j].parts = clean[i].parts
    BY <1>1 DEF NestedField
  <2>2. j # i  BY <1>2, <2>1
  <2>3. doc[j].parts = doc[i].parts  BY <2>1, EqualBefore
  <2> QED BY <2>2, <2>3
<1>6. /\ doc[i].kind = "plain" => Reader(doc[i]) = 0
      /\ doc[i].kind # "plain" /\ doc[i].key = "arguments" => Reader(doc[i]) = 2
      /\ doc[i].kind # "plain" /\ doc[i].key # "arguments" => Reader(doc[i]) = 1
  BY DEF Reader
<1> DEFINE esc == EscapedFor(clean, clean[i])
<1> HIDE DEF nested, clean
<1>7. /\ esc \in 0..2 /\ esc >= Reader(doc[i])
      /\ esc > Reader(doc[i]) => \E j \in DOMAIN doc : j # i /\ doc[j].parts = doc[i].parts
  <2>1. CASE doc[i].kind = "plain"
    BY <1>3, <1>6, <2>1
  <2>2. CASE doc[i].kind # "plain" /\ doc[i].key = "arguments"
    BY <1>3, <1>4, <1>6, <2>2
  <2>3. CASE doc[i].kind # "plain" /\ doc[i].key # "arguments"
    BY <1>3, <1>5, <1>6, <2>3
  <2> QED BY <2>1, <2>2, <2>3
<1> QED BY <1>7 DEF clean

(* AnswerReadsBack of one part, which stands in a field like this one.       *)
ReadablePart(doc, i, field, part, rule, withheld) ==
    /\ part.is = "restored" =>
          /\ part.esc >= Reader(field)
          /\ part.esc > Reader(field) => \E j \in DOMAIN doc : j # i /\ doc[j].parts = doc[i].parts
    /\ rule.markers /\ part.is = "lead" /\ ~IsTool(field) => part.esc > Reader(field)
    /\ rule.guard => /\ ~IsDebris(part)
                     /\ IsMapped(part) => part.of \in withheld

Readable(doc, got, rule, withheld) ==
    \A i \in DOMAIN got : \A k \in DOMAIN got[i].parts :
        ReadablePart(doc, i, got[i], got[i].parts[k], rule, withheld)

(* A lead that sanitizing leaves alone is deeper than its reader looks.      *)
LEMMA LeadsAreText ==
    ASSUME NEW doc \in Answers \cup Texts, NEW rule \in RestoreChoice,
           NEW i \in DOMAIN doc, NEW k \in DOMAIN doc[i].parts,
           rule.markers, Sanitized(doc, rule)[i].parts[k].is = "lead", ~IsTool(doc[i])
    PROVE  Sanitized(doc, rule)[i].parts[k].esc > Reader(doc[i])
<1> DEFINE part == Sanitized(doc, rule)[i].parts[k]
           was == doc[i].parts[k]
<1>1. /\ part.esc = was.esc
      /\ part.is = IF Neutralized(doc[i], was, rule) THEN "neutralized" ELSE was.is
  BY SanitizedParts
<1>2. was \in JsonPart  BY FieldsOfBodies
<1> HIDE DEF was
<1>3. was.is = "lead" /\ ~Delimits(doc[i], was)
  BY <1>1 DEF Neutralized, Delimits
<1>4. was.esc \in Nat  BY <1>2 DEF JsonPart
<1>5. was.esc > Reader(doc[i])
  BY <1>3, <1>4 DEF Delimits, Reader, IsTool
<1> QED BY <1>1, <1>5

LEMMA RestoredIsReadable ==
    ASSUME NEW doc \in Answers \cup Texts, NEW rule \in RestoreChoice,
           NEW choice \in RestoreChoice, NEW kept,
           choice.markers = rule.markers, choice.guard = rule.guard
    PROVE  Readable(doc, RestoredBody(Sanitized(doc, rule), kept, choice), rule, kept)
<1> DEFINE clean == Sanitized(doc, rule)
           got == RestoredBody(clean, kept, choice)
<1>1. DOMAIN got = DOMAIN doc  BY RestoredFields
<1>2. ASSUME NEW i \in DOMAIN doc, NEW k \in DOMAIN doc[i].parts
      PROVE  ReadablePart(doc, i, doc[i], got[i].parts[k], rule, kept)
  <2> DEFINE was == clean[i].parts[k]
             part == got[i].parts[k]
             esc == EscapedFor(clean, clean[i])
  <2>1. part = RestoredPart(was, esc, kept, choice)  BY <1>2, RestoredFields
  <2>2. was \in CleanPart  BY SanitizedParts
  <2>3. /\ esc \in 0..2 /\ esc >= Reader(doc[i])
        /\ esc > Reader(doc[i]) => \E j \in DOMAIN doc : j # i /\ doc[j].parts = doc[i].parts
    BY EscapedForReader
  <2>4. rule.markers /\ was.is = "lead" /\ ~IsTool(doc[i]) => was.esc > Reader(doc[i])
    BY LeadsAreText
  <2> HIDE DEF was, part, esc, got, clean
  <2>5. \/ part = was /\ IsMapped(was) /\ was.of \in kept
        \/ part.is = "restored" /\ part.esc = esc
        \/ part.is \in {"withheld", "unknown"}
        \/ part = was /\ ~IsMapped(was) /\ ~(IsDebris(was) /\ rule.guard)
    BY <2>1 DEF RestoredPart
  <2>6. ASSUME part = was  PROVE ReadablePart(doc, i, doc[i], part, rule, kept)
    BY <2>2, <2>4, <2>5, <2>6 DEF ReadablePart, IsMapped, IsDebris, CleanPart
  <2>7. ASSUME part.is = "restored", part.esc = esc
        PROVE  ReadablePart(doc, i, doc[i], part, rule, kept)
    BY <2>3, <2>7 DEF ReadablePart, IsMapped, IsDebris
  <2>8. ASSUME part.is \in {"withheld", "unknown"}
        PROVE  ReadablePart(doc, i, doc[i], part, rule, kept)
    BY <2>8 DEF ReadablePart, IsMapped, IsDebris
  <2>9. ReadablePart(doc, i, doc[i], part, rule, kept)  BY <2>5, <2>6, <2>7, <2>8
  <2> QED BY <2>9 DEF part
<1>3. ASSUME NEW i \in DOMAIN doc
      PROVE  /\ DOMAIN got[i].parts = DOMAIN doc[i].parts
             /\ Reader(got[i]) = Reader(doc[i])
             /\ IsTool(got[i]) <=> IsTool(doc[i])
  <2>1. got[i].key = doc[i].key /\ got[i].kind = doc[i].kind
        /\ DOMAIN got[i].parts = DOMAIN doc[i].parts
    BY RestoredFields
  <2> HIDE DEF got
  <2> QED BY <2>1 DEF Reader, IsTool
<1> HIDE DEF got
<1>4. ASSUME NEW i \in DOMAIN doc, NEW k \in DOMAIN doc[i].parts
      PROVE  ReadablePart(doc, i, got[i], got[i].parts[k], rule, kept)
  BY <1>2, <1>3 DEF ReadablePart
<1>5. Readable(doc, got, rule, kept)  BY <1>1, <1>3, <1>4 DEF Readable
<1> QED BY <1>5 DEF got

(* With nothing to restore and no guard the sanitized body goes out.         *)
LEMMA SanitizedIsReadable ==
    ASSUME NEW doc \in Answers \cup Texts, NEW rule \in RestoreChoice, NEW kept, ~rule.guard
    PROVE  Readable(doc, Sanitized(doc, rule), rule, kept)
<1> DEFINE clean == Sanitized(doc, rule)
<1>1. DOMAIN clean = DOMAIN doc  BY DEF Sanitized
<1>2. ASSUME NEW i \in DOMAIN doc, NEW k \in DOMAIN clean[i].parts
      PROVE  ReadablePart(doc, i, clean[i], clean[i].parts[k], rule, kept)
  <2> DEFINE part == clean[i].parts[k]
  <2>1. clean[i].key = doc[i].key /\ clean[i].kind = doc[i].kind
        /\ DOMAIN clean[i].parts = DOMAIN doc[i].parts
    BY SanitizedFields
  <2>2. part \in CleanPart  BY <2>1, SanitizedParts
  <2>3. rule.markers /\ part.is = "lead" /\ ~IsTool(doc[i]) => part.esc > Reader(doc[i])
    BY <2>1, LeadsAreText
  <2> HIDE DEF part, clean
  <2>4. Reader(clean[i]) = Reader(doc[i]) /\ (IsTool(clean[i]) <=> IsTool(doc[i]))
    BY <2>1 DEF Reader, IsTool
  <2>5. ReadablePart(doc, i, clean[i], part, rule, kept)
    BY <2>2, <2>3, <2>4 DEF ReadablePart, CleanPart
  <2> QED BY <2>5 DEF part
<1> HIDE DEF clean
<1>3. Readable(doc, clean, rule, kept)  BY <1>1, <1>2 DEF Readable
<1> QED BY <1>3 DEF clean

(* With no policy in the way every mapped token is restored and nothing else *)
(* is, so the report's count is the number of restored values.               *)
LEMMA RestoredIsCounted ==
    ASSUME NEW doc \in Texts, NEW rule \in RestoreChoice, NEW choice \in RestoreChoice,
           choice.markers = rule.markers, choice.prose = "all"
    PROVE  Occurrences(RestoredBody(Sanitized(doc, rule), {}, choice), IsRestored)
             = Occurrences(Sanitized(doc, rule), IsMapped)
<1> DEFINE clean == Sanitized(doc, rule)
           got == RestoredBody(clean, {}, choice)
           restored(i) == {k \in DOMAIN got[i].parts : IsRestored(got[i].parts[k])}
           mapped(i) == {k \in DOMAIN clean[i].parts : IsMapped(clean[i].parts[k])}
<1>1. DOMAIN clean = DOMAIN doc  BY DEF Sanitized
<1>2. DOMAIN got = DOMAIN doc  BY RestoredFields
<1>3. ASSUME NEW i \in DOMAIN doc  PROVE restored(i) = mapped(i)
  <2>1. DOMAIN got[i].parts = DOMAIN doc[i].parts  BY RestoredFields
  <2>2. DOMAIN clean[i].parts = DOMAIN doc[i].parts  BY SanitizedFields
  <2>3. ASSUME NEW k \in DOMAIN doc[i].parts
        PROVE  IsRestored(got[i].parts[k]) <=> IsMapped(clean[i].parts[k])
    <3> DEFINE was == clean[i].parts[k]
               part == got[i].parts[k]
    <3>1. part = RestoredPart(was, EscapedFor(clean, clean[i]), {}, choice)
      BY RestoredFields
    <3>2. was \in CleanPart  BY SanitizedParts
    <3> HIDE DEF was, part, got, clean
    <3>3. ~ProseWithholds(was.of, choice)  BY DEF ProseWithholds
    <3>4. IsMapped(was) => part.is = "restored"
      BY <3>1, <3>3 DEF RestoredPart
    <3>5. ~IsMapped(was) => part.is = "unknown" \/ part = was
      BY <3>1 DEF RestoredPart
    <3>6. IsRestored(part) <=> IsMapped(was)
      BY <3>2, <3>4, <3>5 DEF IsRestored, CleanPart
    <3> QED BY <3>6 DEF was, part
  <2> HIDE DEF got, clean
  <2> QED BY <2>1, <2>2, <2>3
<1> HIDE DEF got, clean
<1>4. UNION {{i} \X restored(i) : i \in DOMAIN got} = UNION {{i} \X mapped(i) : i \in DOMAIN clean}
  <2> HIDE DEF restored, mapped
  <2> QED BY <1>1, <1>2, <1>3
<1>5. Occurrences(got, IsRestored) = Occurrences(clean, IsMapped)
  BY <1>4 DEF Occurrences
<1> QED BY <1>5 DEF got, clean

(* What a body's treatment leaves behind keeps the property.                 *)
LEMMA AnswerIsReadable ==
    ASSUME NEW doc \in Answers \cup Texts, NEW rule \in RestoreChoice, NEW got, NEW kept,
           Readable(doc, got, rule, kept), UNCHANGED <<registered, learned>>,
           treated'.body = doc, treated'.opts = rule, treated'.out = got,
           treated'.withheld = kept,
           treated'.what = "detailed" =>
              treated'.restoredCount = Occurrences(got, IsRestored)
    PROVE  AnswerReadsBack'
<1>1. ASSUME NEW part
      PROVE  /\ IsDebris(part)' <=> IsDebris(part)
             /\ IsMapped(part)' <=> IsMapped(part)
  BY DEF IsDebris, IsMapped, HeldValues
<1> QED BY <1>1 DEF AnswerReadsBack, Readable, ReadablePart

LEMMA StepReadsBack ==
    ASSUME BodiesReadBack, [JsonBodiesNext]_jsonVars
    PROVE  BodiesReadBack'
<1>1. ASSUME UNCHANGED treated, treated.what = "nothing"  PROVE BodiesReadBack'
  BY <1>1 DEF BodiesReadBack, OnlyNumbersHoldARequest, AnswerReadsBack
<1>2. ASSUME UNCHANGED jsonVars  PROVE BodiesReadBack'
  BY <1>2 DEF jsonVars, BodiesReadBack, OnlyNumbersHoldARequest, AnswerReadsBack,
              IsDebris, IsMapped, HeldValues, Occurrences
<1>3. ASSUME NEW doc \in Requests, ScreenJson(doc)  PROVE BodiesReadBack'
  <2>1. treated'.what = "request" /\ OnlyNumbersHoldARequest'
    BY <1>3, ScreenLeavesNumbers
  <2> QED BY <2>1 DEF BodiesReadBack, AnswerReadsBack
<1>4. ASSUME NEW doc \in Answers, NEW rule \in RestoreChoice, RestoreJson(doc, rule)
      PROVE  BodiesReadBack'
  <2> DEFINE clean == Sanitized(doc, rule)
             kept == WithheldTokens(clean, rule)
             got == IF HeldValues = {} /\ ~rule.guard THEN clean ELSE RestoredBody(clean, kept, rule)
  <2>1. treated' = [what |-> "answer", body |-> doc, opts |-> rule, out |-> got, withheld |-> kept]
        /\ UNCHANGED <<registered, learned>>
    BY <1>4 DEF RestoreJson
  <2>2. Readable(doc, got, rule, kept)
    BY RestoredIsReadable, SanitizedIsReadable
  <2> HIDE DEF got, kept
  <2>3. treated'.what = "answer"  BY <2>1
  <2>4. AnswerReadsBack'  BY <2>1, <2>2, <2>3, AnswerIsReadable
  <2> QED BY <2>3, <2>4 DEF BodiesReadBack, OnlyNumbersHoldARequest
<1>5. ASSUME NEW doc \in Texts, NEW rule \in RestoreChoice, RestoreText(doc, rule)
      PROVE  BodiesReadBack'
  <2> DEFINE got == RestoredBody(Sanitized(doc, rule), {}, rule)
  <2>1. treated' = [what |-> "answer", body |-> doc, opts |-> rule, out |-> got, withheld |-> {}]
        /\ UNCHANGED <<registered, learned>>
    BY <1>5 DEF RestoreText
  <2>2. Readable(doc, got, rule, {})  BY RestoredIsReadable
  <2> HIDE DEF got
  <2>3. treated'.what = "answer"  BY <2>1
  <2>4. AnswerReadsBack'  BY <2>1, <2>2, <2>3, AnswerIsReadable
  <2> QED BY <2>3, <2>4 DEF BodiesReadBack, OnlyNumbersHoldARequest
<1>6. ASSUME NEW doc \in Texts, NEW rule \in RestoreChoice, RestoreDetailed(doc, rule)
      PROVE  BodiesReadBack'
  <2> DEFINE choice == [rule EXCEPT !.prose = "all"]
             clean == Sanitized(doc, rule)
             got == RestoredBody(clean, {}, choice)
  <2>1. treated' = [what |-> "detailed", body |-> doc, opts |-> rule, out |-> got, withheld |-> {},
                    restoredCount |-> Occurrences(clean, IsMapped),
                    unknownCount |-> Occurrences(clean, IsDebris)]
        /\ UNCHANGED <<registered, learned>>
    BY <1>6 DEF RestoreDetailed
  <2>2. choice \in RestoreChoice /\ choice.markers = rule.markers /\ choice.guard = rule.guard
        /\ choice.prose = "all"
    BY DEF RestoreChoice
  <2> HIDE DEF choice
  <2>3. Readable(doc, got, rule, {})  BY <2>2, RestoredIsReadable
  <2>4. Occurrences(got, IsRestored) = Occurrences(clean, IsMapped)
    BY <2>2, RestoredIsCounted
  <2> HIDE DEF got, clean
  <2>5. treated'.what = "detailed" /\ treated'.restoredCount = Occurrences(clean, IsMapped)
    BY <2>1
  <2>6. AnswerReadsBack'  BY <2>1, <2>3, <2>4, <2>5, AnswerIsReadable
  <2> QED BY <2>5, <2>6 DEF BodiesReadBack, OnlyNumbersHoldARequest
<1>7. ASSUME Untreated, \/ \E v \in BodyValue : RegisterValue(v) \/ LearnValue(v)
                        \/ \E vs \in SUBSET BodyValue : HydrateLearned(vs)
      PROVE  BodiesReadBack'
  BY <1>1, <1>7 DEF Untreated, RegisterValue, LearnValue, HydrateLearned
<1> QED BY <1>2, <1>3, <1>4, <1>5, <1>6, <1>7 DEF JsonBodiesNext

(* A body passes the gate with no value of the scope to be read in it but a  *)
(* bare number's, and an answer can be read: what is restored is escaped for *)
(* its reader, no marker is the model's, no token is left over but for the   *)
(* tool policy (rawJsonBody, leakValues, restoreJsonBody).                   *)
THEOREM BodiesAreReadable == JsonBodiesSpec => []BodiesReadBack
<1>1. JsonBodiesInit => BodiesReadBack
  BY DEF JsonBodiesInit, BodiesReadBack, OnlyNumbersHoldARequest, AnswerReadsBack
<1> QED BY <1>1, StepReadsBack, PTL DEF JsonBodiesSpec

-----------------------------------------------------------------------------
(* The tool policy                                                           *)

CallsOnlyGet(got, rule) ==
    \A i \in DOMAIN got : IsTool(got[i]) =>
        \A k \in DOMAIN got[i].parts :
            got[i].parts[k].is = "restored" =>
                /\ rule.tools # "none"
                /\ rule.tools # "all" => got[i].parts[k].of \notin registered

(* A token that is restored in a tool's region was not withheld, and it      *)
(* would have been if the policy kept it anywhere.                           *)
LEMMA ToolsGetWhatTheyMay ==
    ASSUME NEW doc \in Answers, NEW rule \in RestoreChoice
    PROVE  LET clean == Sanitized(doc, rule)
           IN  /\ CallsOnlyGet(clean, rule)
               /\ CallsOnlyGet(RestoredBody(clean, WithheldTokens(clean, rule), rule), rule)
<1> DEFINE clean == Sanitized(doc, rule)
           kept == WithheldTokens(clean, rule)
           got == RestoredBody(clean, kept, rule)
<1>1. DOMAIN clean = DOMAIN doc  BY DEF Sanitized
<1>2. DOMAIN got = DOMAIN doc  BY RestoredFields
<1>3. ASSUME NEW i \in DOMAIN doc, NEW k \in DOMAIN doc[i].parts
      PROVE  /\ clean[i].parts[k].is # "restored"
             /\ IsTool(doc[i]) /\ got[i].parts[k].is = "restored" =>
                   /\ rule.tools # "none"
                   /\ rule.tools # "all" => got[i].parts[k].of \notin registered
  <2> DEFINE was == clean[i].parts[k]
             part == got[i].parts[k]
  <2>1. was \in CleanPart  BY SanitizedParts
  <2>2. part = RestoredPart(was, EscapedFor(clean, clean[i]), kept, rule)  BY RestoredFields
  <2>3. clean[i].key = doc[i].key /\ DOMAIN clean[i].parts = DOMAIN doc[i].parts
    BY SanitizedFields
  <2>4. IsTool(doc[i]) /\ IsMapped(was) /\ was.of \notin kept => ToolRestores(was.of, rule)
    <3> HIDE DEF clean
    <3> QED BY <1>1, <2>3 DEF WithheldTokens, IsTool, IsMapped
  <2> HIDE DEF was, part, kept, clean, got
  <2>5. part.is = "restored" => IsMapped(was) /\ was.of \notin kept /\ part.of = was.of
    BY <2>1, <2>2 DEF RestoredPart, CleanPart
  <2>6. IsTool(doc[i]) /\ part.is = "restored" =>
           rule.tools # "none" /\ (rule.tools # "all" => part.of \notin registered)
    BY <2>4, <2>5 DEF ToolRestores, GovernedAsDetected
  <2>7. was.is # "restored"  BY <2>1 DEF CleanPart
  <2> QED BY <2>6, <2>7 DEF was, part
<1>4. \A i \in DOMAIN doc : /\ clean[i].key = doc[i].key
                            /\ DOMAIN clean[i].parts = DOMAIN doc[i].parts
  BY SanitizedFields
<1>5. \A i \in DOMAIN doc : /\ got[i].key = doc[i].key
                            /\ DOMAIN got[i].parts = DOMAIN doc[i].parts
  BY RestoredFields
<1> HIDE DEF clean, got
<1>6. CallsOnlyGet(clean, rule) /\ CallsOnlyGet(got, rule)
  BY <1>1, <1>2, <1>3, <1>4, <1>5 DEF CallsOnlyGet, IsTool
<1> QED BY <1>6 DEF clean, got

LEMMA StepKeepsPolicy ==
    ASSUME [JsonBodiesNext]_jsonVars, treated'.what = "answer", treated' # treated
    PROVE  CallsOnlyGet(treated'.out, treated'.opts)
<1>1. ASSUME NEW doc \in Answers, NEW rule \in RestoreChoice, RestoreJson(doc, rule)
      PROVE  CallsOnlyGet(treated'.out, treated'.opts)
  <2> DEFINE clean == Sanitized(doc, rule)
             kept == WithheldTokens(clean, rule)
             got == IF HeldValues = {} /\ ~rule.guard THEN clean ELSE RestoredBody(clean, kept, rule)
  <2>1. treated' = [what |-> "answer", body |-> doc, opts |-> rule, out |-> got, withheld |-> kept]
    BY <1>1 DEF RestoreJson
  <2>2. CallsOnlyGet(got, rule)  BY ToolsGetWhatTheyMay
  <2> HIDE DEF got, kept
  <2> QED BY <2>1, <2>2
<1>2. ASSUME NEW doc \in Texts, NEW rule \in RestoreChoice, RestoreText(doc, rule)
      PROVE  CallsOnlyGet(treated'.out, treated'.opts)
  <2> DEFINE got == RestoredBody(Sanitized(doc, rule), {}, rule)
  <2>1. treated' = [what |-> "answer", body |-> doc, opts |-> rule, out |-> got, withheld |-> {}]
    BY <1>2 DEF RestoreText
  <2>2. DOMAIN got = DOMAIN doc /\ \A i \in DOMAIN doc : got[i].key = doc[i].key
    BY RestoredFields
  <2>3. \A i \in DOMAIN doc : doc[i].key = "content"  BY JsonBodiesAssumption
  <2> HIDE DEF got
  <2>4. CallsOnlyGet(got, rule)  BY <2>2, <2>3 DEF CallsOnlyGet, IsTool
  <2> QED BY <2>1, <2>4
<1>3. ASSUME NEW doc \in Texts, NEW rule \in RestoreChoice, RestoreDetailed(doc, rule)
      PROVE  treated'.what = "detailed"
  BY <1>3 DEF RestoreDetailed
<1>4. ASSUME NEW doc \in Requests, ScreenJson(doc)  PROVE treated'.what = "request"
  BY <1>4 DEF ScreenJson
<1>5. ASSUME \/ \E v \in BodyValue : RegisterValue(v) \/ LearnValue(v)
             \/ \E vs \in SUBSET BodyValue : HydrateLearned(vs)
             \/ UNCHANGED jsonVars
      PROVE  treated' = treated
  BY <1>5 DEF RegisterValue, LearnValue, HydrateLearned, jsonVars
<1> QED BY <1>1, <1>2, <1>3, <1>4, <1>5 DEF JsonBodiesNext

(* Under "detected" no tool call receives a registered value, even one that  *)
(* the scope's own layer holds a copy of, and under "none" it receives none  *)
(* (governingLayer, collectWithheldToolTokens).                              *)
THEOREM CallsGetWhatTheyMay == JsonBodiesSpec => CallsKeepPolicy
<1> DEFINE Step == treated'.what = "answer" /\ treated' # treated =>
            \A i \in DOMAIN treated'.out : IsTool(treated'.out[i]) =>
                \A k \in DOMAIN treated'.out[i].parts :
                    LET part == treated'.out[i].parts[k]
                    IN  part.is = "restored" =>
                            CASE treated'.opts.tools = "all" -> TRUE
                              [] treated'.opts.tools = "none" -> FALSE
                              [] OTHER -> part.of \notin registered
<1>1. [JsonBodiesNext]_jsonVars => [Step]_jsonVars
  <2> SUFFICES ASSUME JsonBodiesNext, treated'.what = "answer", treated' # treated
               PROVE  Step
    OBVIOUS
  <2>1. CallsOnlyGet(treated'.out, treated'.opts)  BY StepKeepsPolicy
  <2> QED BY <2>1 DEF CallsOnlyGet
<1> QED BY <1>1, PTL DEF JsonBodiesSpec, CallsKeepPolicy



-----------------------------------------------------------------------------
(* Numbers in ascending order                                                *)

(* What Ascending computes.                                                  *)
LEMMA Ascends ==
    ASSUME NEW S, S \subseteq Int, IsFiniteSet(S)
    PROVE  /\ Cardinality(S) \in Nat
           /\ Len(Ascending(S)) = Cardinality(S)
           /\ DOMAIN Ascending(S) = 1 .. Cardinality(S)
           /\ \A i \in 1 .. Cardinality(S) : Ascending(S)[i] \in S
           /\ \A i, j \in 1 .. Cardinality(S) : i < j => Ascending(S)[i] < Ascending(S)[j]
           /\ \A x \in S : \E i \in 1 .. Cardinality(S) : Ascending(S)[i] = x
<1> DEFINE c == Cardinality(S)
           Below(x) == {y \in S : y < x}
           rank == [x \in S |-> Cardinality(Below(x))]
<1>1. c \in Nat  BY FS_CardinalityType
<1>2. ASSUME NEW x \in S
      PROVE  rank[x] \in 0 .. c - 1 /\ IsFiniteSet(Below(x)) /\ rank[x] = Cardinality(Below(x))
  <2>1. Below(x) \subseteq S /\ x \in S /\ x \notin Below(x)  OBVIOUS
  <2>2. IsFiniteSet(Below(x)) /\ Cardinality(Below(x)) <= c /\ (c = Cardinality(Below(x)) => S = Below(x))
    <3> HIDE DEF Below
    <3> QED BY <2>1, FS_Subset
  <2>3. Cardinality(Below(x)) \in Nat
    <3> HIDE DEF Below
    <3> QED BY <2>2, FS_CardinalityType
  <2>4. c # Cardinality(Below(x))  BY <2>1, <2>2
  <2>5. rank[x] = Cardinality(Below(x))  OBVIOUS
  <2> HIDE DEF Below, rank, c
  <2> QED BY <1>1, <2>2, <2>3, <2>4, <2>5
<1>3. ASSUME NEW x \in S, NEW y \in S, x < y PROVE rank[x] < rank[y]
  <2>1. Below(x) \subseteq Below(y)
    <3>1. \A z \in S : z < x => z < y  BY <1>3
    <3> QED BY <3>1
  <2>2. x \in Below(y) /\ x \notin Below(x)  BY <1>3
  <2>3. IsFiniteSet(Below(y)) /\ rank[x] = Cardinality(Below(x)) /\ rank[y] = Cardinality(Below(y))  BY <1>2
  <2>4. Cardinality(Below(x)) <= Cardinality(Below(y))
        /\ (Cardinality(Below(y)) = Cardinality(Below(x)) => Below(y) = Below(x))
    <3> HIDE DEF Below
    <3> QED BY <2>1, <2>3, FS_Subset
  <2>5. Cardinality(Below(x)) # Cardinality(Below(y))
    <3> HIDE DEF Below
    <3> QED BY <2>2, <2>4
  <2>6. rank[x] \in Int /\ rank[y] \in Int  BY <1>2
  <2> HIDE DEF Below, rank
  <2> QED BY <2>3, <2>4, <2>5, <2>6
<1>4. rank \in [S -> 0 .. c - 1]
  <2>1. rank = [x \in S |-> rank[x]]  OBVIOUS
  <2> HIDE DEF rank, c
  <2> QED BY <1>2, <2>1
<1> HIDE DEF rank
<1>5. rank \in Injection(S, 0 .. c - 1)
  <2>1. \A x, y \in S : rank[x] = rank[y] => x = y
    <3> SUFFICES ASSUME NEW x \in S, NEW y \in S, rank[x] = rank[y], x # y PROVE FALSE  OBVIOUS
    <3>1. rank[x] \in Int /\ rank[y] \in Int
      <4>1. rank[x] \in 0 .. c - 1 /\ rank[y] \in 0 .. c - 1  BY <1>2
      <4> HIDE DEF c
      <4> QED BY <4>1
    <3>2. x < y \/ y < x
      <4>1. x \in Int /\ y \in Int  OBVIOUS
      <4> QED BY <4>1
    <3> QED BY <1>3, <3>1, <3>2
  <2> QED BY <1>4, <2>1 DEF Injection, IsInjective
<1>6. IsFiniteSet(0 .. c - 1) /\ Cardinality(0 .. c - 1) = c
  <2>1. 0 \in Int /\ c - 1 \in Int  BY <1>1
  <2>2. IsFiniteSet(0 .. c - 1) /\ Cardinality(0 .. c - 1) = IF 0 > c - 1 THEN 0 ELSE (c - 1) - 0 + 1
    BY <2>1, FS_Interval
  <2> QED BY <1>1, <2>2
<1>7. rank \in Surjection(S, 0 .. c - 1)
  BY <1>5, <1>6, FS_Injection
<1> DEFINE A == Ascending(S)
<1>8. A = [i \in 1 .. c |-> CHOOSE x \in S : Cardinality(Below(x)) = i - 1]  BY DEF Ascending
<1>9. ASSUME NEW i \in 1 .. c PROVE A[i] \in S /\ rank[A[i]] = i - 1
  <2>1. i - 1 \in 0 .. c - 1  BY <1>1
  <2>2. PICK x \in S : rank[x] = i - 1  BY <1>7, <2>1 DEF Surjection, Range
  <2>3. Cardinality(Below(x)) = i - 1  BY <2>2, <1>2
  <2>4. A[i] = CHOOSE y \in S : Cardinality(Below(y)) = i - 1
    <3> HIDE DEF A
    <3> QED BY <1>8
  <2>5. A[i] \in S /\ Cardinality(Below(A[i])) = i - 1
    <3> HIDE DEF A, Below
    <3> QED BY <2>3, <2>4
  <2> HIDE DEF A, Below
  <2> QED BY <2>5, <1>2
<1>10. DOMAIN A = 1 .. c /\ Len(A) = c
  <2> HIDE DEF A, Below, c
  <2>1. DOMAIN A = 1 .. c  BY <1>8
  <2> QED BY <2>1, <1>1, <1>8
<1>11. ASSUME NEW i \in 1 .. c, NEW j \in 1 .. c, i < j PROVE A[i] < A[j]
  <2> HIDE DEF A
  <2>1. A[i] \in S /\ A[j] \in S /\ rank[A[i]] = i - 1 /\ rank[A[j]] = j - 1  BY <1>9
  <2>2. A[i] \in Int /\ A[j] \in Int /\ A[i] # A[j]
    <3>1. i \in Int /\ j \in Int /\ i - 1 # j - 1  BY <1>11, <1>1
    <3>2. rank[A[i]] # rank[A[j]]  BY <2>1, <3>1
    <3> QED BY <2>1, <3>2
  <2>3. ~(A[j] < A[i])
    <3> SUFFICES ASSUME A[j] < A[i] PROVE FALSE  OBVIOUS
    <3>1. rank[A[j]] < rank[A[i]]  BY <1>3, <2>1
    <3> QED BY <2>1, <3>1, <1>11, <1>1
  <2> QED BY <2>2, <2>3
<1>12. ASSUME NEW x \in S PROVE \E i \in 1 .. c : A[i] = x
  <2> HIDE DEF A
  <2>1. rank[x] \in 0 .. c - 1  BY <1>2
  <2>2. rank[x] + 1 \in 1 .. c  BY <1>1, <2>1
  <2>3. A[rank[x] + 1] \in S /\ rank[A[rank[x] + 1]] = (rank[x] + 1) - 1  BY <1>9, <2>2
  <2>4. rank[A[rank[x] + 1]] = rank[x]  BY <2>1, <2>3
  <2>5. A[rank[x] + 1] = x  BY <1>5, <2>3, <2>4 DEF Injection, IsInjective
  <2> QED BY <2>2, <2>5
<1> QED BY <1>1, <1>9, <1>10, <1>11, <1>12

LEMMA LargestOf ==
    ASSUME NEW S, IsFiniteSet(S), S # {}, NEW f \in [S -> Int]
    PROVE  \E x \in S : \A y \in S : f[y] <= f[x]
<1> DEFINE T == {f[x] : x \in S}
<1>1. f \in Surjection(S, T)  BY DEF Surjection, Range
<1>2. T \subseteq Int /\ T # {}  OBVIOUS
<1>3. IsFiniteSet(T)
  <2> HIDE DEF T
  <2> QED BY <1>1, FS_Surjection
<1> HIDE DEF T
<1>4. Cardinality(T) \in Nat /\ Cardinality(T) # 0  BY <1>2, <1>3, FS_EmptySet, FS_CardinalityType
<1> DEFINE n == Cardinality(T)
           A == Ascending(T)
<1>5. /\ \A i \in 1 .. n : A[i] \in T
      /\ \A i, j \in 1 .. n : i < j => A[i] < A[j]
      /\ \A x \in T : \E i \in 1 .. n : A[i] = x
  BY <1>2, <1>3, Ascends
<1> HIDE DEF A, n
<1>6. n \in 1 .. n  BY <1>4 DEF n
<1>7. \A x \in T : x <= A[n]
  <2> SUFFICES ASSUME NEW x \in T PROVE x <= A[n]  OBVIOUS
  <2>1. PICK i \in 1 .. n : A[i] = x  BY <1>5
  <2>2. i = n \/ i < n  BY <1>6
  <2>3. A[n] \in Int /\ x \in Int  BY <1>2, <1>5, <1>6
  <2> QED BY <1>5, <1>6, <2>1, <2>2, <2>3
<1>8. PICK x \in S : f[x] = A[n]  BY <1>5, <1>6 DEF T
<1>9. \A y \in S : f[y] \in T  BY DEF T
<1> QED BY <1>7, <1>8, <1>9

-----------------------------------------------------------------------------
(* Claims and occurrences that can be ranked                                 *)

Origins == {"detector", "expansion", "clipped"}
ClaimsRanked(cs) ==
    /\ IsFiniteSet(cs)
    /\ \A c \in cs :
          /\ c.authority \in {"registry", "detected"} /\ c.id \in Int
          /\ c.category \in Categories \cup {Registered} /\ c.category.confidence \in Int
    /\ \A c, d \in cs : c.id = d.id => c = d
AreLeaves(ls) == Len(ls) \in Nat /\ \A l \in 1 .. Len(ls) : Len(ls[l]) \in Nat
OccsIn(ls, cs) ==
    {o \in [leaf : 1 .. Len(ls), from : Nat, to : Nat, claim : cs, origin : Origins] :
        1 <= o.from /\ o.from <= o.to /\ o.to <= Len(ls[o.leaf])}

(* The number list, component by component.                                  *)
LEMMA PriorityParts ==
    ASSUME NEW o
    PROVE  /\ Priority(o)[1] = AuthorityRank(o.claim.authority)
           /\ Priority(o)[2] = o.claim.category.confidence
           /\ Priority(o)[3] = o.to - o.from
           /\ Priority(o)[4] = -o.from
           /\ Priority(o)[5] = -o.claim.id
           /\ Priority(o)[6] = OriginRank(o.origin)
<1> DEFINE a == AuthorityRank(o.claim.authority)
           c == o.claim.category.confidence
           l == o.to - o.from
           f == -o.from
           n == -o.claim.id
           r == OriginRank(o.origin)
<1>1. Priority(o) = <<a, c, l, f, n, r>>  BY DEF Priority
<1> HIDE DEF a, c, l, f, n, r
<1>2. /\ Priority(o)[1] = a /\ Priority(o)[2] = c /\ Priority(o)[3] = l
      /\ Priority(o)[4] = f /\ Priority(o)[5] = n /\ Priority(o)[6] = r
  BY <1>1
<1> QED BY <1>2 DEF a, c, l, f, n, r

LEMMA PriorityType ==
    ASSUME NEW ls, NEW cs, ClaimsRanked(cs), NEW o \in OccsIn(ls, cs)
    PROVE  \A i \in 1 .. 6 : Priority(o)[i] \in Int
<1>1. o.from \in Nat /\ o.to \in Nat /\ o.claim \in cs /\ o.origin \in Origins  BY DEF OccsIn
<1>2. o.claim.id \in Int /\ o.claim.category.confidence \in Int  BY <1>1 DEF ClaimsRanked
<1>3. AuthorityRank(o.claim.authority) \in Int  BY DEF AuthorityRank
<1>4. OriginRank(o.origin) \in Int  BY <1>1 DEF OriginRank, Origins
<1>5. o.to - o.from \in Int /\ -o.from \in Int /\ -o.claim.id \in Int  BY <1>1, <1>2
<1>6. /\ Priority(o)[1] \in Int /\ Priority(o)[2] \in Int /\ Priority(o)[3] \in Int
      /\ Priority(o)[4] \in Int /\ Priority(o)[5] \in Int /\ Priority(o)[6] \in Int
  BY <1>2, <1>3, <1>4, <1>5, PriorityParts
<1>7. \A i \in 1 .. 6 : i = 1 \/ i = 2 \/ i = 3 \/ i = 4 \/ i = 5 \/ i = 6  OBVIOUS
<1> QED BY <1>6, <1>7

LEMMA RanksDiffer ==
    ASSUME NEW ls, NEW cs, ClaimsRanked(cs), NEW a \in OccsIn(ls, cs), NEW b \in OccsIn(ls, cs),
           a.leaf = b.leaf, \A i \in 1 .. 6 : Priority(a)[i] = Priority(b)[i]
    PROVE  a = b
<1>1. /\ Priority(a)[3] = Priority(b)[3] /\ Priority(a)[4] = Priority(b)[4]
      /\ Priority(a)[5] = Priority(b)[5] /\ Priority(a)[6] = Priority(b)[6]  OBVIOUS
<1>2. /\ a.to - a.from = b.to - b.from /\ -a.from = -b.from /\ -a.claim.id = -b.claim.id
      /\ OriginRank(a.origin) = OriginRank(b.origin)
  BY <1>1, PriorityParts
<1>3. /\ a.from \in Nat /\ a.to \in Nat /\ a.claim \in cs /\ a.origin \in Origins
      /\ b.from \in Nat /\ b.to \in Nat /\ b.claim \in cs /\ b.origin \in Origins  BY DEF OccsIn
<1>4. a.claim.id \in Int /\ b.claim.id \in Int  BY <1>3 DEF ClaimsRanked
<1>5. a.from = b.from /\ a.to = b.to /\ a.claim.id = b.claim.id  BY <1>2, <1>3, <1>4
<1>6. a.claim = b.claim  BY <1>3, <1>5 DEF ClaimsRanked
<1>7. a.origin = b.origin
  <2>1. a.origin \in {"detector", "expansion", "clipped"} /\ b.origin \in {"detector", "expansion", "clipped"}
    BY <1>3 DEF Origins
  <2>2. OriginRank(a.origin) = IF a.origin = "detector" THEN 3 ELSE IF a.origin = "expansion" THEN 2 ELSE 1
    BY <2>1 DEF OriginRank
  <2>3. OriginRank(b.origin) = IF b.origin = "detector" THEN 3 ELSE IF b.origin = "expansion" THEN 2 ELSE 1
    BY <2>1 DEF OriginRank
  <2>4. OriginRank(a.origin) = OriginRank(b.origin)  BY <1>2
  <2>5. a.origin = "detector" \/ a.origin = "expansion" \/ a.origin = "clipped"  BY <2>1
  <2>6. b.origin = "detector" \/ b.origin = "expansion" \/ b.origin = "clipped"  BY <2>1
  <2> QED BY <2>2, <2>3, <2>4, <2>5, <2>6
<1>8. /\ a \in [leaf : 1 .. Len(ls), from : Nat, to : Nat, claim : cs, origin : Origins]
      /\ b \in [leaf : 1 .. Len(ls), from : Nat, to : Nat, claim : cs, origin : Origins]  BY DEF OccsIn
<1> QED BY <1>5, <1>6, <1>7, <1>8

(* The first of the candidates, as the code sorts them, beats every other.   *)
LEMMA BestBeats ==
    ASSUME NEW ls, NEW cs, ClaimsRanked(cs), NEW os, os \subseteq OccsIn(ls, cs), IsFiniteSet(os), os # {},
           \A a, b \in os : a.leaf = b.leaf
    PROVE  Best(os) \in os /\ \A x \in os : x = Best(os) \/ Beats(Best(os), x)
<1> DEFINE Top(S, i) == {x \in S : \A y \in S : Priority(y)[i] <= Priority(x)[i]}
<1>1. ASSUME NEW S, S \subseteq os, S # {}, NEW i \in 1 .. 6
      PROVE  Top(S, i) # {} /\ Top(S, i) \subseteq S
  <2> DEFINE f == [x \in S |-> Priority(x)[i]]
  <2>1. IsFiniteSet(S)  BY <1>1, FS_Subset
  <2>2. \A x \in S : Priority(x)[i] \in Int  BY <1>1, PriorityType
  <2>3. f \in [S -> Int]  BY <2>2
  <2>4. \A x \in S : f[x] = Priority(x)[i]  OBVIOUS
  <2> HIDE DEF f
  <2>5. PICK x \in S : \A y \in S : f[y] <= f[x]  BY <1>1, <2>1, <2>3, LargestOf
  <2> QED BY <2>4, <2>5
<1> DEFINE M1 == Top(os, 1)
           M2 == Top(M1, 2)
           M3 == Top(M2, 3)
           M4 == Top(M3, 4)
           M5 == Top(M4, 5)
           M6 == Top(M5, 6)
<1>12. 1 \in 1 .. 6 /\ 2 \in 1 .. 6 /\ 3 \in 1 .. 6 /\ 4 \in 1 .. 6 /\ 5 \in 1 .. 6 /\ 6 \in 1 .. 6  OBVIOUS
<1> HIDE DEF Top
<1>2. M1 # {} /\ M1 \subseteq os  BY <1>1, <1>12
<1> HIDE DEF M1
<1>3. M2 # {} /\ M2 \subseteq M1  BY <1>12, <1>1, <1>2
<1> HIDE DEF M2
<1>4. M3 # {} /\ M3 \subseteq M2  BY <1>12, <1>1, <1>2, <1>3
<1> HIDE DEF M3
<1>5. M4 # {} /\ M4 \subseteq M3  BY <1>12, <1>1, <1>2, <1>3, <1>4
<1> HIDE DEF M4
<1>6. M5 # {} /\ M5 \subseteq M4  BY <1>12, <1>1, <1>2, <1>3, <1>4, <1>5
<1> HIDE DEF M5
<1>7. M6 # {} /\ M6 \subseteq M5  BY <1>12, <1>1, <1>2, <1>3, <1>4, <1>5, <1>6
<1> HIDE DEF M6
<1>8. PICK o : o \in M6  BY <1>7
<1>9. o \in M1 /\ o \in M2 /\ o \in M3 /\ o \in M4 /\ o \in M5 /\ o \in os
  BY <1>2, <1>3, <1>4, <1>5, <1>6, <1>7, <1>8
<1> DEFINE P(x, i) == Priority(x)[i]
<1>10. ASSUME NEW x \in os, x # o PROVE Beats(o, x)
  <2>1. \E i \in 1 .. 6 : P(o, i) # P(x, i)
    <3>1. o \in OccsIn(ls, cs) /\ x \in OccsIn(ls, cs) /\ o.leaf = x.leaf  BY <1>9
    <3> QED BY <1>10, <3>1, RanksDiffer
  <2>2. \A i \in 1 .. 6 : P(o, i) \in Int /\ P(x, i) \in Int  BY <1>9, PriorityType
  <2>3. P(x, 1) <= P(o, 1)  BY <1>9 DEF M1, Top
  <2>4. P(x, 1) = P(o, 1) => x \in M1
    <3>1. \A y \in os : P(y, 1) <= P(o, 1)  BY <1>9 DEF M1, Top
    <3> QED BY <3>1 DEF M1, Top
  <2>5. x \in M1 => P(x, 2) <= P(o, 2)  BY <1>9 DEF M2, Top
  <2>6. x \in M1 /\ P(x, 2) = P(o, 2) => x \in M2
    <3>1. \A y \in M1 : P(y, 2) <= P(o, 2)  BY <1>9 DEF M2, Top
    <3> QED BY <3>1 DEF M2, Top
  <2>7. x \in M2 => P(x, 3) <= P(o, 3)  BY <1>9 DEF M3, Top
  <2>8. x \in M2 /\ P(x, 3) = P(o, 3) => x \in M3
    <3>1. \A y \in M2 : P(y, 3) <= P(o, 3)  BY <1>9 DEF M3, Top
    <3> QED BY <3>1 DEF M3, Top
  <2>9. x \in M3 => P(x, 4) <= P(o, 4)  BY <1>9 DEF M4, Top
  <2>10. x \in M3 /\ P(x, 4) = P(o, 4) => x \in M4
    <3>1. \A y \in M3 : P(y, 4) <= P(o, 4)  BY <1>9 DEF M4, Top
    <3> QED BY <3>1 DEF M4, Top
  <2>11. x \in M4 => P(x, 5) <= P(o, 5)  BY <1>9 DEF M5, Top
  <2>12. x \in M4 /\ P(x, 5) = P(o, 5) => x \in M5
    <3>1. \A y \in M4 : P(y, 5) <= P(o, 5)  BY <1>9 DEF M5, Top
    <3> QED BY <3>1 DEF M5, Top
  <2>13. x \in M5 => P(x, 6) <= P(o, 6)  BY <1>8 DEF M6, Top
  <2> DEFINE T == {i \in 1 .. 6 : P(o, i) # P(x, i)}
  <2>14. PICK i \in 1 .. 6 : P(o, i) # P(x, i) /\ \A j \in 1 .. i - 1 : P(o, j) = P(x, j)
    <3>1. T \subseteq Nat /\ T # {} /\ T \subseteq 1 .. 6  BY <2>1
    <3>2. PICK i \in T : \A j \in T : i <= j
      <4> HIDE DEF T
      <4> QED BY <3>1, LeastNat
    <3>3. i \in 1 .. 6 /\ P(o, i) # P(x, i)  BY <3>2
    <3>4. \A j \in 1 .. i - 1 : j \in 1 .. 6 /\ ~(i <= j)  BY <3>3
    <3>5. \A j \in 1 .. i - 1 : P(o, j) = P(x, j)  BY <3>2, <3>4
    <3> QED BY <3>3, <3>5
  <2> HIDE DEF T, P
  <2>15. P(o, i) > P(x, i)
    <3>1. i = 1 \/ i = 2 \/ i = 3 \/ i = 4 \/ i = 5 \/ i = 6  OBVIOUS
    <3>2. P(o, i) \in Int /\ P(x, i) \in Int  BY <2>2
    <3>3. CASE i = 1  BY <3>2, <3>3, <2>3, <2>14
    <3>4. CASE i = 2
      <4>1. P(o, 1) = P(x, 1)  BY <3>4, <2>14
      <4> QED BY <3>2, <3>4, <4>1, <2>4, <2>5, <2>14
    <3>5. CASE i = 3
      <4>1. P(o, 1) = P(x, 1) /\ P(o, 2) = P(x, 2)  BY <3>5, <2>14
      <4> QED BY <3>2, <3>5, <4>1, <2>4, <2>6, <2>7, <2>14
    <3>6. CASE i = 4
      <4>1. P(o, 1) = P(x, 1) /\ P(o, 2) = P(x, 2) /\ P(o, 3) = P(x, 3)  BY <3>6, <2>14
      <4> QED BY <3>2, <3>6, <4>1, <2>4, <2>6, <2>8, <2>9, <2>14
    <3>7. CASE i = 5
      <4>1. P(o, 1) = P(x, 1) /\ P(o, 2) = P(x, 2) /\ P(o, 3) = P(x, 3) /\ P(o, 4) = P(x, 4)
        BY <3>7, <2>14
      <4> QED BY <3>2, <3>7, <4>1, <2>4, <2>6, <2>8, <2>10, <2>11, <2>14
    <3>8. CASE i = 6
      <4>1. /\ P(o, 1) = P(x, 1) /\ P(o, 2) = P(x, 2) /\ P(o, 3) = P(x, 3)
            /\ P(o, 4) = P(x, 4) /\ P(o, 5) = P(x, 5)
        BY <3>8, <2>14
      <4> QED BY <3>2, <3>8, <4>1, <2>4, <2>6, <2>8, <2>10, <2>12, <2>13, <2>14
    <3> QED BY <3>1, <3>3, <3>4, <3>5, <3>6, <3>7, <3>8
  <2> QED BY <2>14, <2>15 DEF Beats, P
<1>11. \E b \in os : \A x \in os : x = b \/ Beats(b, x)  BY <1>9, <1>10
<1> QED BY <1>11 DEF Best

-----------------------------------------------------------------------------
(* Slices                                                                    *)

LEMMA Extremes ==
    ASSUME NEW S, IsFiniteSet(S), S # {}, S \subseteq Int
    PROVE  /\ Max(S) \in S /\ \A y \in S : y <= Max(S)
           /\ Min(S) \in S /\ \A y \in S : Min(S) <= y
<1> DEFINE f == [x \in S |-> x]
           g == [x \in S |-> 0 - x]
<1>1. f \in [S -> Int] /\ g \in [S -> Int]  OBVIOUS
<1>2. \A x \in S : f[x] = x /\ g[x] = 0 - x  OBVIOUS
<1> HIDE DEF f, g
<1>3. PICK x \in S : \A y \in S : f[y] <= f[x]  BY <1>1, LargestOf
<1>4. \A y \in S : x >= y
  <2> TAKE y \in S
  <2>1. x \in Int /\ y \in Int /\ f[y] = y /\ f[x] = x /\ f[y] <= f[x]  BY <1>2, <1>3
  <2> QED BY <2>1
<1>5. Max(S) \in S /\ \A y \in S : Max(S) >= y  BY <1>4 DEF Max
<1>6. PICK z \in S : \A y \in S : g[y] <= g[z]  BY <1>1, LargestOf
<1>7. \A y \in S : z =< y
  <2> TAKE y \in S
  <2>1. z \in Int /\ y \in Int /\ g[y] = 0 - y /\ g[z] = 0 - z /\ g[y] <= g[z]  BY <1>2, <1>6
  <2> QED BY <2>1
<1>8. Min(S) \in S /\ \A y \in S : Min(S) =< y  BY <1>7 DEF Min
<1>9. ASSUME NEW y \in S PROVE y <= Max(S)
  <2>1. y \in Int /\ Max(S) \in Int /\ Max(S) >= y  BY <1>5
  <2> QED BY <2>1
<1> QED BY <1>5, <1>8, <1>9

LEMMA ImageFinite ==
    ASSUME NEW S, IsFiniteSet(S), NEW f
    PROVE  IsFiniteSet({f[x] : x \in S})
<1> DEFINE T == {f[x] : x \in S}
           g == [x \in S |-> f[x]]
<1>1. g \in Surjection(S, T)  BY DEF Surjection, Range
<1> HIDE DEF T, g
<1>2. IsFiniteSet(T)  BY <1>1, FS_Surjection
<1> QED BY <1>2 DEF T

SameLeaf(os) == \A a, b \in os : a.leaf = b.leaf
EdgesOf(os) == {o.from : o \in os} \cup {o.to + 1 : o \in os}
Cuts(os) == Ascending(EdgesOf(os))
Over(os, i) == {o \in os : o.from <= Cuts(os)[i] /\ o.to + 1 >= Cuts(os)[i + 1]}
Owned(os) == {i \in 1 .. Len(Cuts(os)) - 1 : Over(os, i) # {}}
Joins(os, i) == i - 1 \in Owned(os) /\ Best(Over(os, i - 1)) = Best(Over(os, i))
Starts(os) == {i \in Owned(os) : ~Joins(os, i)}
Stretch(os, i) == {j \in Owned(os) : j >= i /\ \A k \in i + 1 .. j : k \in Owned(os) /\ Joins(os, k)}
SliceAt(os, i) ==
    [source |-> Best(Over(os, i)), from |-> Cuts(os)[i], to |-> Cuts(os)[Max(Stretch(os, i)) + 1] - 1]

LEMMA SlicesParts ==
    ASSUME NEW os
    PROVE  Slices(os) = {SliceAt(os, i) : i \in Starts(os)}
BY DEF Slices, SliceAt, Starts, Stretch, Joins, Owned, Over, Cuts, EdgesOf

LEMMA CutFacts ==
    ASSUME NEW ls, NEW cs, NEW os, os \subseteq OccsIn(ls, cs), IsFiniteSet(os)
    PROVE  /\ Len(Cuts(os)) \in Nat
           /\ \A i \in 1 .. Len(Cuts(os)) : Cuts(os)[i] \in Nat /\ Cuts(os)[i] \in EdgesOf(os)
           /\ \A i, j \in 1 .. Len(Cuts(os)) : i < j => Cuts(os)[i] < Cuts(os)[j]
           /\ \A x \in EdgesOf(os) : \E i \in 1 .. Len(Cuts(os)) : Cuts(os)[i] = x
<1> DEFINE f == [o \in os |-> o.from]
           g == [o \in os |-> o.to + 1]
           A == {f[o] : o \in os}
           B == {g[o] : o \in os}
<1>1. IsFiniteSet(A)
  <2> HIDE DEF f
  <2> QED BY ImageFinite
<1>2. IsFiniteSet(B)
  <2> HIDE DEF g
  <2> QED BY ImageFinite
<1>3. EdgesOf(os) = A \cup B  BY DEF EdgesOf
<1> HIDE DEF A, B
<1>4. IsFiniteSet(EdgesOf(os))  BY <1>1, <1>2, <1>3, FS_Union
<1>5. EdgesOf(os) \subseteq Nat
  <2>1. \A o \in os : o.from \in Nat /\ o.to + 1 \in Nat  BY DEF OccsIn
  <2> QED BY <2>1 DEF EdgesOf
<1>6. EdgesOf(os) \subseteq Int  BY <1>5
<1> QED BY <1>4, <1>5, <1>6, Ascends DEF Cuts

LEMMA NothingBetween ==
    ASSUME NEW ls, NEW cs, NEW os, os \subseteq OccsIn(ls, cs), IsFiniteSet(os),
           NEW i \in 1 .. Len(Cuts(os)) - 1, NEW x \in EdgesOf(os)
    PROVE  x <= Cuts(os)[i] \/ Cuts(os)[i + 1] <= x
<1> DEFINE n == Len(Cuts(os))
<1>1. n \in Nat /\ \A k, j \in 1 .. n : k < j => Cuts(os)[k] < Cuts(os)[j]  BY CutFacts
<1>2. PICK j \in 1 .. n : Cuts(os)[j] = x  BY CutFacts
<1>3. i \in 1 .. n /\ i + 1 \in 1 .. n  BY <1>1
<1>4. Cuts(os)[i] \in Nat /\ Cuts(os)[i + 1] \in Nat /\ Cuts(os)[j] \in Nat  BY <1>3, CutFacts
<1>5. j < i \/ j = i \/ j = i + 1 \/ i + 1 < j  BY <1>3
<1> HIDE DEF n
<1>6. CASE j < i  BY <1>6, <1>1, <1>2, <1>3, <1>4
<1>7. CASE j = i  BY <1>7, <1>2, <1>4
<1>8. CASE j = i + 1  BY <1>8, <1>2, <1>4
<1>9. CASE i + 1 < j  BY <1>9, <1>1, <1>2, <1>3, <1>4
<1> QED BY <1>5, <1>6, <1>7, <1>8, <1>9

(* Within a slice every character has the same claims over it.               *)
LEMMA OverCovers ==
    ASSUME NEW ls, NEW cs, NEW os, os \subseteq OccsIn(ls, cs), IsFiniteSet(os),
           NEW i \in 1 .. Len(Cuts(os)) - 1, NEW p \in Nat, Cuts(os)[i] <= p, p < Cuts(os)[i + 1],
           NEW o \in os
    PROVE  (o.from <= p /\ p <= o.to) <=> o \in Over(os, i)
<1>1. o.from \in Nat /\ o.to \in Nat  BY DEF OccsIn
<1>2. o.from \in EdgesOf(os) /\ o.to + 1 \in EdgesOf(os)  BY DEF EdgesOf
<1>3. Len(Cuts(os)) \in Nat  BY CutFacts
<1>4. i \in 1 .. Len(Cuts(os)) /\ i + 1 \in 1 .. Len(Cuts(os))  BY <1>3
<1>5. Cuts(os)[i] \in Nat /\ Cuts(os)[i + 1] \in Nat  BY <1>4, CutFacts
<1>6. o.from <= Cuts(os)[i] \/ Cuts(os)[i + 1] <= o.from  BY <1>2, NothingBetween
<1>7. o.to + 1 <= Cuts(os)[i] \/ Cuts(os)[i + 1] <= o.to + 1  BY <1>2, NothingBetween
<1> QED BY <1>1, <1>5, <1>6, <1>7 DEF Over

LEMMA SliceOf ==
    ASSUME NEW ls, NEW cs, NEW os, os \subseteq OccsIn(ls, cs), IsFiniteSet(os),
           NEW o \in os, NEW p \in Nat, o.from <= p, p <= o.to
    PROVE  \E i \in 1 .. Len(Cuts(os)) - 1 : Cuts(os)[i] <= p /\ p < Cuts(os)[i + 1]
<1> DEFINE n == Len(Cuts(os))
           S == {i \in 1 .. n : Cuts(os)[i] <= p}
<1>1. /\ n \in Nat
      /\ \A i \in 1 .. n : Cuts(os)[i] \in Nat
      /\ \A k, j \in 1 .. n : k < j => Cuts(os)[k] < Cuts(os)[j]  BY CutFacts
<1>2. o.from \in EdgesOf(os) /\ o.to + 1 \in EdgesOf(os) /\ o.to \in Nat  BY DEF EdgesOf, OccsIn
<1>3. PICK a \in 1 .. n : Cuts(os)[a] = o.from  BY <1>2, CutFacts
<1>4. PICK b \in 1 .. n : Cuts(os)[b] = o.to + 1
  <2> DEFINE x == o.to + 1
  <2>1. x \in EdgesOf(os)  BY <1>2
  <2> HIDE DEF x
  <2>2. \E b \in 1 .. n : Cuts(os)[b] = x  BY <2>1, CutFacts
  <2> QED BY <2>2 DEF x
<1>5. a \in S  BY <1>3
<1>6. IsFiniteSet(S) /\ S \subseteq Int
  <2>1. IsFiniteSet(1 .. n) /\ S \subseteq 1 .. n  BY <1>1, FS_Interval
  <2>2. S \subseteq Int  OBVIOUS
  <2> HIDE DEF S
  <2> QED BY <2>1, <2>2, FS_Subset
<1> DEFINE i == Max(S)
<1>7. i \in S /\ \A y \in S : y <= i
  <2> HIDE DEF S
  <2> QED BY <1>5, <1>6, Extremes
<1> HIDE DEF i
<1>8. i \in 1 .. n /\ Cuts(os)[i] <= p  BY <1>7
<1>9. Cuts(os)[b] \in Nat /\ Cuts(os)[i] \in Nat  BY <1>1, <1>8
<1>10. i < b
  <2> HIDE DEF S, n
  <2>1. Cuts(os)[i] < Cuts(os)[b]  BY <1>2, <1>4, <1>8, <1>9
  <2>2. b # i /\ ~(b < i)  BY <1>1, <1>8, <1>9, <2>1
  <2> QED BY <1>8, <2>2
<1>11. i \in 1 .. n - 1 /\ i + 1 \in 1 .. n
  <2> HIDE DEF S, n
  <2> QED BY <1>1, <1>8, <1>10
<1>12. ~(Cuts(os)[i + 1] <= p)
  <2> SUFFICES ASSUME Cuts(os)[i + 1] <= p PROVE FALSE  OBVIOUS
  <2>1. i + 1 \in S  BY <1>11
  <2> HIDE DEF S, n
  <2>2. i + 1 <= i  BY <1>7, <2>1
  <2>3. i \in Int  BY <1>8
  <2> QED BY <2>2, <2>3
<1> HIDE DEF S
<1>13. Cuts(os)[i + 1] \in Nat  BY <1>1, <1>11
<1> QED BY <1>8, <1>11, <1>12, <1>13

LEMMA OverRanked ==
    ASSUME NEW ls, NEW cs, ClaimsRanked(cs), NEW os, os \subseteq OccsIn(ls, cs), IsFiniteSet(os),
           SameLeaf(os), NEW i \in Owned(os)
    PROVE  /\ Best(Over(os, i)) \in Over(os, i) /\ Best(Over(os, i)) \in os
           /\ \A x \in Over(os, i) : x = Best(Over(os, i)) \/ Beats(Best(Over(os, i)), x)
<1> DEFINE V == Over(os, i)
<1>1. V \subseteq os /\ V # {}  BY DEF Over, Owned
<1> HIDE DEF V
<1>2. IsFiniteSet(V) /\ V \subseteq OccsIn(ls, cs)  BY <1>1, FS_Subset
<1>3. \A a, b \in V : a.leaf = b.leaf  BY <1>1 DEF SameLeaf
<1>4. Best(V) \in V /\ \A x \in V : x = Best(V) \/ Beats(Best(V), x)  BY <1>1, <1>2, <1>3, BestBeats
<1> QED BY <1>1, <1>4 DEF V

LEMMA OwnedFinite ==
    ASSUME NEW ls, NEW cs, NEW os, os \subseteq OccsIn(ls, cs), IsFiniteSet(os)
    PROVE  /\ IsFiniteSet(Owned(os)) /\ Owned(os) \subseteq Nat
           /\ \A i \in Owned(os) : i \in 1 .. Len(Cuts(os)) - 1
<1> DEFINE n == Len(Cuts(os))
<1>1. n \in Nat  BY CutFacts
<1>2. Owned(os) \subseteq 1 .. n - 1  BY DEF Owned
<1> HIDE DEF n
<1>3. IsFiniteSet(1 .. n - 1)  BY <1>1, FS_Interval
<1>4. IsFiniteSet(Owned(os))  BY <1>2, <1>3, FS_Subset
<1>5. Owned(os) \subseteq Nat  BY <1>1, <1>2
<1> QED BY <1>2, <1>4, <1>5 DEF n

(* Where a run of joined slices ends, and that one claim owns all of it.     *)
LEMMA RunFacts ==
    ASSUME NEW ls, NEW cs, NEW os, os \subseteq OccsIn(ls, cs), IsFiniteSet(os), NEW s \in Owned(os)
    PROVE  /\ Max(Stretch(os, s)) \in Owned(os) /\ s <= Max(Stretch(os, s))
           /\ \A j \in Stretch(os, s) : j <= Max(Stretch(os, s))
           /\ \A k \in s + 1 .. Max(Stretch(os, s)) : k \in Owned(os) /\ Joins(os, k)
           /\ \A k \in s .. Max(Stretch(os, s)) : Best(Over(os, k)) = Best(Over(os, s))
<1> DEFINE e == Max(Stretch(os, s))
<1>1. s \in Nat /\ Owned(os) \subseteq Nat /\ IsFiniteSet(Owned(os))  BY OwnedFinite
<1>2. s \in Stretch(os, s)
  <2>1. s + 1 .. s = {}  BY <1>1
  <2>2. s >= s  BY <1>1
  <2> QED BY <2>1, <2>2 DEF Stretch
<1>3. Stretch(os, s) \subseteq Owned(os)  BY DEF Stretch
<1>4. IsFiniteSet(Stretch(os, s)) /\ Stretch(os, s) \subseteq Int  BY <1>1, <1>3, FS_Subset
<1>5. e \in Stretch(os, s) /\ \A y \in Stretch(os, s) : y <= e  BY <1>2, <1>4, Extremes
<1> HIDE DEF e
<1>6. e \in Owned(os) /\ e >= s /\ \A k \in s + 1 .. e : k \in Owned(os) /\ Joins(os, k)  BY <1>5 DEF Stretch
<1>7. e \in Nat /\ s <= e  BY <1>1, <1>6
<1>8. ASSUME NEW k \in s .. e PROVE Best(Over(os, k)) = Best(Over(os, s))
  <2> DEFINE T == {j \in s .. e : Best(Over(os, j)) # Best(Over(os, s))}
  <2> SUFFICES ASSUME T # {} PROVE FALSE  OBVIOUS
  <2>1. T \subseteq Nat  BY <1>1, <1>7
  <2>2. PICK j \in T : \A i \in T : j <= i
    <3> HIDE DEF T
    <3> QED BY <2>1, LeastNat
  <2>3. j \in s .. e /\ Best(Over(os, j)) # Best(Over(os, s))  BY <2>2
  <2>4. j # s  BY <2>3
  <2>5. j \in s + 1 .. e /\ j - 1 \in s .. e /\ ~(j <= j - 1)  BY <2>3, <2>4, <1>1, <1>7
  <2>6. Best(Over(os, j - 1)) = Best(Over(os, j))  BY <1>6, <2>5 DEF Joins
  <2>7. Best(Over(os, j - 1)) = Best(Over(os, s))
    <3> SUFFICES ASSUME Best(Over(os, j - 1)) # Best(Over(os, s)) PROVE FALSE  OBVIOUS
    <3>1. j - 1 \in T  BY <2>5
    <3> QED BY <2>2, <2>5, <3>1
  <2> QED BY <2>3, <2>6, <2>7
<1> QED BY <1>5, <1>6, <1>7, <1>8 DEF e

LEMMA RunStart ==
    ASSUME NEW ls, NEW cs, NEW os, os \subseteq OccsIn(ls, cs), IsFiniteSet(os), NEW i \in Owned(os)
    PROVE  \E s \in Starts(os) : s <= i /\ i \in Stretch(os, s)
<1> DEFINE T == {s \in Owned(os) : s <= i /\ \A k \in s + 1 .. i : k \in Owned(os) /\ Joins(os, k)}
<1>1. Owned(os) \subseteq Nat  BY OwnedFinite
<1>2. i \in T
  <2>1. i + 1 .. i = {} /\ i <= i  BY <1>1
  <2> QED BY <2>1
<1>3. T \subseteq Nat  BY <1>1
<1>4. PICK s \in T : \A y \in T : s <= y
  <2> HIDE DEF T
  <2> QED BY <1>2, <1>3, LeastNat
<1>5. s \in Owned(os) /\ s <= i /\ \A k \in s + 1 .. i : k \in Owned(os) /\ Joins(os, k)  BY <1>4
<1>6. s \in Nat /\ i \in Nat  BY <1>1, <1>5
<1>7. ~Joins(os, s)
  <2> SUFFICES ASSUME Joins(os, s) PROVE FALSE  OBVIOUS
  <2>1. s - 1 \in Owned(os)  BY DEF Joins
  <2>2. s - 1 <= i /\ ~(s <= s - 1)  BY <1>5, <1>6
  <2>3. \A k \in (s - 1) + 1 .. i : k \in Owned(os) /\ Joins(os, k)
    <3> SUFFICES ASSUME NEW k \in (s - 1) + 1 .. i PROVE k \in Owned(os) /\ Joins(os, k)  OBVIOUS
    <3>1. k = s \/ k \in s + 1 .. i  BY <1>6
    <3> QED BY <1>5, <3>1
  <2>4. s - 1 \in T  BY <2>1, <2>2, <2>3
  <2> QED BY <1>4, <2>2, <2>4
<1>8. s \in Starts(os)  BY <1>5, <1>7 DEF Starts
<1>9. i >= s  BY <1>5, <1>6
<1>10. i \in Stretch(os, s)  BY <1>5, <1>9 DEF Stretch
<1> QED BY <1>5, <1>8, <1>10

LEMMA SliceEdges ==
    ASSUME NEW ls, NEW cs, NEW os, os \subseteq OccsIn(ls, cs), IsFiniteSet(os), NEW s \in Starts(os)
    PROVE  /\ s \in Owned(os) /\ s \in Nat /\ Max(Stretch(os, s)) \in Nat
           /\ s \in 1 .. Len(Cuts(os)) /\ Max(Stretch(os, s)) + 1 \in 1 .. Len(Cuts(os))
           /\ s < Max(Stretch(os, s)) + 1
           /\ SliceAt(os, s).from \in Nat /\ SliceAt(os, s).to \in Int
           /\ SliceAt(os, s).from = Cuts(os)[s]
           /\ SliceAt(os, s).to + 1 = Cuts(os)[Max(Stretch(os, s)) + 1]
           /\ SliceAt(os, s).from <= SliceAt(os, s).to
<1> DEFINE n == Len(Cuts(os))
           e == Max(Stretch(os, s))
<1>1. s \in Owned(os)  BY DEF Starts
<1>2. e \in Owned(os) /\ s <= e  BY <1>1, RunFacts
<1>3. n \in Nat  BY CutFacts
<1> HIDE DEF e
<1>4. s \in 1 .. n - 1 /\ e \in 1 .. n - 1 /\ s \in Nat  BY <1>1, <1>2, OwnedFinite
<1>5. s \in 1 .. n /\ e + 1 \in 1 .. n /\ s < e + 1 /\ e \in Nat
  <2> HIDE DEF n
  <2> QED BY <1>2, <1>3, <1>4
<1>6. Cuts(os)[s] \in Nat /\ Cuts(os)[e + 1] \in Nat /\ Cuts(os)[s] < Cuts(os)[e + 1]
  <2>1. \A i \in 1 .. n : Cuts(os)[i] \in Nat  BY CutFacts
  <2>2. \A i, j \in 1 .. n : i < j => Cuts(os)[i] < Cuts(os)[j]  BY CutFacts
  <2> DEFINE f == e + 1
  <2>3. s \in 1 .. n /\ f \in 1 .. n /\ s < f  BY <1>5
  <2> HIDE DEF n, f
  <2>4. Cuts(os)[s] \in Nat /\ Cuts(os)[f] \in Nat /\ Cuts(os)[s] < Cuts(os)[f]  BY <2>1, <2>2, <2>3
  <2> QED BY <2>4 DEF f
<1>7. SliceAt(os, s).from = Cuts(os)[s] /\ SliceAt(os, s).to = Cuts(os)[e + 1] - 1  BY DEF SliceAt, e
<1>8. SliceAt(os, s).to \in Int /\ SliceAt(os, s).to + 1 = Cuts(os)[e + 1]  BY <1>6, <1>7
<1>9. SliceAt(os, s).from <= SliceAt(os, s).to  BY <1>6, <1>7
<1> QED BY <1>1, <1>4, <1>5, <1>6, <1>7, <1>8, <1>9 DEF e

(* Every character a claim covers lies in a slice of the claim that ranks    *)
(* first over it.                                                            *)
LEMMA SlicesCover ==
    ASSUME NEW ls, NEW cs, ClaimsRanked(cs), NEW os, os \subseteq OccsIn(ls, cs), IsFiniteSet(os),
           SameLeaf(os), NEW o \in os, NEW p \in Nat, o.from <= p, p <= o.to
    PROVE  \E s \in Starts(os) :
              /\ SliceAt(os, s).from <= p /\ p <= SliceAt(os, s).to
              /\ \A x \in os : x.from <= p /\ p <= x.to =>
                    x = SliceAt(os, s).source \/ Beats(SliceAt(os, s).source, x)
<1> DEFINE n == Len(Cuts(os))
<1>1. PICK i \in 1 .. n - 1 : Cuts(os)[i] <= p /\ p < Cuts(os)[i + 1]  BY SliceOf
<1>2. o \in Over(os, i)  BY <1>1, OverCovers
<1>3. i \in Owned(os)  BY <1>2 DEF Owned
<1>4. PICK s \in Starts(os) : s <= i /\ i \in Stretch(os, s)  BY <1>3, RunStart
<1> DEFINE e == Max(Stretch(os, s))
<1>5. s \in Owned(os)  BY DEF Starts
<1>6. i <= e  BY <1>4, <1>5, RunFacts
<1>7. \A k \in s .. e : Best(Over(os, k)) = Best(Over(os, s))  BY <1>5, RunFacts
<1>8. /\ s \in Nat /\ e \in Nat /\ s \in 1 .. n /\ e + 1 \in 1 .. n
      /\ SliceAt(os, s).from = Cuts(os)[s] /\ SliceAt(os, s).to + 1 = Cuts(os)[e + 1]
      /\ SliceAt(os, s).to \in Int
  BY SliceEdges
<1>9. n \in Nat /\ \A k, j \in 1 .. n : k < j => Cuts(os)[k] < Cuts(os)[j]  BY CutFacts
<1>10. \A k \in 1 .. n : Cuts(os)[k] \in Nat  BY CutFacts
<1> HIDE DEF e, n
<1>11. i \in s .. e /\ i \in 1 .. n /\ i + 1 \in 1 .. n  BY <1>4, <1>6, <1>8, <1>9
<1>12. Cuts(os)[s] <= p
  <2>1. s = i \/ s < i  BY <1>8, <1>11
  <2>2. Cuts(os)[s] \in Nat /\ Cuts(os)[i] \in Nat  BY <1>8, <1>10, <1>11
  <2>3. s < i => Cuts(os)[s] < Cuts(os)[i]  BY <1>8, <1>9, <1>11
  <2> QED BY <1>1, <2>1, <2>2, <2>3
<1>13. p < Cuts(os)[e + 1]
  <2>1. i + 1 = e + 1 \/ i + 1 < e + 1  BY <1>8, <1>11
  <2>2. Cuts(os)[e + 1] \in Nat /\ Cuts(os)[i + 1] \in Nat  BY <1>8, <1>10, <1>11
  <2>3. i + 1 < e + 1 => Cuts(os)[i + 1] < Cuts(os)[e + 1]  BY <1>8, <1>9, <1>11
  <2> QED BY <1>1, <2>1, <2>2, <2>3
<1>14. p <= SliceAt(os, s).to  BY <1>8, <1>10, <1>13
<1>15. SliceAt(os, s).source = Best(Over(os, i))  BY <1>7, <1>11 DEF SliceAt
<1>16. \A x \in Over(os, i) : x = Best(Over(os, i)) \/ Beats(Best(Over(os, i)), x)  BY <1>3, OverRanked
<1>17. \A x \in os : x.from <= p /\ p <= x.to => x \in Over(os, i)  BY <1>1, OverCovers DEF n
<1> QED BY <1>8, <1>12, <1>14, <1>15, <1>16, <1>17

LEMMA SlicesApart ==
    ASSUME NEW ls, NEW cs, NEW os, os \subseteq OccsIn(ls, cs), IsFiniteSet(os),
           NEW s \in Starts(os), NEW t \in Starts(os), s < t
    PROVE  SliceAt(os, s).to < SliceAt(os, t).from
<1> DEFINE n == Len(Cuts(os))
           e == Max(Stretch(os, s))
<1>1. /\ s \in Owned(os) /\ s \in Nat /\ e \in Nat /\ e + 1 \in 1 .. n
      /\ SliceAt(os, s).to + 1 = Cuts(os)[e + 1] /\ SliceAt(os, s).to \in Int
  BY SliceEdges
<1>2. t \in Nat /\ t \in 1 .. n /\ SliceAt(os, t).from = Cuts(os)[t] /\ SliceAt(os, t).from \in Nat
  <2>1. \A u \in Starts(os) : u \in Nat /\ u \in 1 .. Len(Cuts(os)) /\ SliceAt(os, u).from = Cuts(os)[u]
                              /\ SliceAt(os, u).from \in Nat
    <3> HIDE DEF n, e
    <3> TAKE u \in Starts(os)
    <3> QED BY SliceEdges
  <2> QED BY <2>1
<1>3. \A k \in s + 1 .. e : Joins(os, k)  BY <1>1, RunFacts
<1>4. ~Joins(os, t)  BY DEF Starts
<1>5. n \in Nat /\ \A k, j \in 1 .. n : k < j => Cuts(os)[k] < Cuts(os)[j]  BY CutFacts
<1>6. Cuts(os)[e + 1] \in Nat  BY <1>1, CutFacts
<1> HIDE DEF e, n
<1>7. ~(t <= e)
  <2> SUFFICES ASSUME t <= e PROVE FALSE  OBVIOUS
  <2>1. t \in s + 1 .. e  BY <1>1, <1>2
  <2> QED BY <1>3, <1>4, <2>1
<1>8. e + 1 = t \/ e + 1 < t  BY <1>1, <1>2, <1>7
<1>9. e + 1 < t => Cuts(os)[e + 1] < Cuts(os)[t]  BY <1>1, <1>2, <1>5
<1>10. Cuts(os)[e + 1] <= Cuts(os)[t]  BY <1>2, <1>6, <1>8, <1>9
<1> QED BY <1>1, <1>2, <1>6, <1>10

-----------------------------------------------------------------------------
(* Remainders, and what the resolver returns                                 *)

LEMMA TrimFacts ==
    ASSUME NEW ls, NEW l, NEW a \in Int, NEW b \in Int
    PROVE  /\ \A m \in Trim(ls, l, <<a, b>>) :
                 m[1] \in Int /\ m[2] \in Int /\ a <= m[1] /\ m[1] <= m[2] /\ m[2] <= b
           /\ \A p \in a .. b : ~IsSpace(ls[l][p]) =>
                 \E m \in Trim(ls, l, <<a, b>>) : m[1] <= p /\ p <= m[2]
           /\ \A m, k \in Trim(ls, l, <<a, b>>) : m = k
           /\ IsFiniteSet(Trim(ls, l, <<a, b>>))
<1> DEFINE solid == {p \in a .. b : ~IsSpace(ls[l][p])}
<1>1. Trim(ls, l, <<a, b>>) = IF solid = {} THEN {} ELSE {<<Min(solid), Max(solid)>>}  BY DEF Trim
<1>2. solid \subseteq a .. b /\ solid \subseteq Int  OBVIOUS
<1>3. \A p \in a .. b : ~IsSpace(ls[l][p]) => p \in solid  OBVIOUS
<1> HIDE DEF solid
<1>4. CASE solid = {}
  <2>1. Trim(ls, l, <<a, b>>) = {}  BY <1>1, <1>4
  <2> QED BY <1>3, <1>4, <2>1, FS_EmptySet
<1>5. CASE solid # {}
  <2>1. IsFiniteSet(solid)
    <3>1. IsFiniteSet(a .. b)  BY FS_Interval
    <3> QED BY <1>2, <3>1, FS_Subset
  <2>2. /\ Max(solid) \in solid /\ \A y \in solid : y <= Max(solid)
        /\ Min(solid) \in solid /\ \A y \in solid : Min(solid) <= y
    BY <1>2, <1>5, <2>1, Extremes
  <2> DEFINE x == Min(solid)
             y == Max(solid)
  <2>3. Trim(ls, l, <<a, b>>) = {<<x, y>>}  BY <1>1, <1>5
  <2>4. x \in Int /\ y \in Int /\ a <= x /\ x <= y /\ y <= b
    <3>1. x \in a .. b /\ y \in a .. b /\ x <= y  BY <1>2, <2>2
    <3> HIDE DEF x, y
    <3> QED BY <3>1
  <2>5. \A p \in solid : x <= p /\ p <= y  BY <2>2
  <2> HIDE DEF x, y
  <2> DEFINE m == <<x, y>>
  <2>6. m[1] = x /\ m[2] = y  OBVIOUS
  <2>7. Trim(ls, l, <<a, b>>) = {m}  BY <2>3
  <2> HIDE DEF m
  <2>8. IsFiniteSet(Trim(ls, l, <<a, b>>))  BY <2>7, FS_Singleton
  <2> QED BY <1>3, <2>4, <2>5, <2>6, <2>7, <2>8
<1> QED BY <1>4, <1>5

LEMMA FinalizeFacts ==
    ASSUME NEW ls, NEW s, s.from \in Int, s.to \in Int, s.from <= s.to
    PROVE  /\ \A w \in Finalize(ls, s) :
                 /\ w.leaf = s.source.leaf /\ w.source = s.source
                 /\ w.from \in Int /\ w.to \in Int
                 /\ s.from <= w.from /\ w.from <= w.to /\ w.to <= s.to
           /\ \A v, w \in Finalize(ls, s) : v = w
           /\ \A p \in s.from .. s.to : ~IsSpace(ls[s.source.leaf][p]) =>
                 \E w \in Finalize(ls, s) : w.from <= p /\ p <= w.to
           /\ IsFiniteSet(Finalize(ls, s))
<1> DEFINE cut == s.from # s.source.from \/ s.to # s.source.to
           spans == IF cut THEN Trim(ls, s.source.leaf, <<s.from, s.to>>) ELSE {<<s.from, s.to>>}
           f == [m \in spans |-> [leaf |-> s.source.leaf, from |-> m[1], to |-> m[2], source |-> s.source,
                                  clipped |-> cut \/ s.source.origin = "clipped"]]
<1>1. /\ \A m \in spans : m[1] \in Int /\ m[2] \in Int /\ s.from <= m[1] /\ m[1] <= m[2] /\ m[2] <= s.to
      /\ \A p \in s.from .. s.to : ~IsSpace(ls[s.source.leaf][p]) => \E m \in spans : m[1] <= p /\ p <= m[2]
      /\ \A m, k \in spans : m = k
      /\ IsFiniteSet(spans)
  <2>1. CASE cut  BY <2>1, TrimFacts
  <2>2. CASE ~cut
    <3> DEFINE one == <<s.from, s.to>>
    <3>1. spans = {one}  BY <2>2
    <3>2. one[1] = s.from /\ one[2] = s.to  OBVIOUS
    <3> HIDE DEF one, spans
    <3>3. IsFiniteSet(spans)  BY <3>1, FS_Singleton
    <3> QED BY <3>1, <3>2, <3>3
  <2> QED BY <2>1, <2>2
<1>2. Finalize(ls, s) = {f[m] : m \in spans}  BY DEF Finalize
<1>3. \A m \in spans : /\ f[m].leaf = s.source.leaf /\ f[m].from = m[1] /\ f[m].to = m[2]
                       /\ f[m].source = s.source
  <2> HIDE DEF spans, cut
  <2> QED OBVIOUS
<1> HIDE DEF spans, f
<1>4. IsFiniteSet(Finalize(ls, s))  BY <1>1, <1>2, ImageFinite
<1>5. ASSUME NEW w \in Finalize(ls, s)
      PROVE  /\ w.leaf = s.source.leaf /\ w.source = s.source
             /\ w.from \in Int /\ w.to \in Int
             /\ s.from <= w.from /\ w.from <= w.to /\ w.to <= s.to
  <2>1. PICK m \in spans : w = f[m]  BY <1>2
  <2> QED BY <1>1, <1>3, <2>1
<1>6. \A v, w \in Finalize(ls, s) : v = w  BY <1>1, <1>2
<1>7. ASSUME NEW p \in s.from .. s.to, ~IsSpace(ls[s.source.leaf][p])
      PROVE  \E w \in Finalize(ls, s) : w.from <= p /\ p <= w.to
  <2>1. PICK m \in spans : m[1] <= p /\ p <= m[2]  BY <1>1, <1>7
  <2>2. f[m] \in Finalize(ls, s)  BY <1>2
  <2> QED BY <1>3, <2>1, <2>2
<1> QED BY <1>4, <1>5, <1>6, <1>7

LeafOccs(os, l) == {o \in os : o.leaf = l}

LEMMA SlicesOfLeaf ==
    ASSUME NEW ls, NEW cs, ClaimsRanked(cs), NEW os, os \subseteq OccsIn(ls, cs), IsFiniteSet(os), NEW l
    PROVE  /\ LeafOccs(os, l) \subseteq OccsIn(ls, cs) /\ IsFiniteSet(LeafOccs(os, l)) /\ SameLeaf(LeafOccs(os, l))
           /\ \A s \in Starts(LeafOccs(os, l)) :
                 /\ SliceAt(LeafOccs(os, l), s).source \in os
                 /\ SliceAt(LeafOccs(os, l), s).source.leaf = l
                 /\ SliceAt(LeafOccs(os, l), s).from \in Nat /\ SliceAt(LeafOccs(os, l), s).to \in Int
                 /\ SliceAt(LeafOccs(os, l), s).from <= SliceAt(LeafOccs(os, l), s).to
<1> DEFINE here == LeafOccs(os, l)
<1>1. here \subseteq os  BY DEF LeafOccs
<1>2. \A o \in here : o.leaf = l  BY DEF LeafOccs
<1> HIDE DEF here
<1>3. here \subseteq OccsIn(ls, cs) /\ IsFiniteSet(here) /\ SameLeaf(here)
  BY <1>1, <1>2, FS_Subset DEF SameLeaf
<1>4. ASSUME NEW s \in Starts(here)
      PROVE  /\ SliceAt(here, s).source \in os /\ SliceAt(here, s).source.leaf = l
             /\ SliceAt(here, s).from \in Nat /\ SliceAt(here, s).to \in Int
             /\ SliceAt(here, s).from <= SliceAt(here, s).to
  <2>1. s \in Owned(here)  BY DEF Starts
  <2>2. Best(Over(here, s)) \in here  BY <1>3, <2>1, OverRanked
  <2>3. SliceAt(here, s).source = Best(Over(here, s))  BY DEF SliceAt
  <2>4. /\ SliceAt(here, s).from \in Nat /\ SliceAt(here, s).to \in Int
        /\ SliceAt(here, s).from <= SliceAt(here, s).to
    BY <1>3, SliceEdges
  <2> QED BY <1>1, <1>2, <2>2, <2>3, <2>4
<1> QED BY <1>3, <1>4 DEF here

LEMMA WinnerParts ==
    ASSUME NEW ls, NEW os
    PROVE  \A w : w \in ResolveOccurrences(ls, os) <=>
              \E l \in {o.leaf : o \in os} : \E s \in Starts(LeafOccs(os, l)) :
                 w \in Finalize(ls, SliceAt(LeafOccs(os, l), s))
<1>1. ResolveOccurrences(ls, os) =
        UNION {UNION {Finalize(ls, s) : s \in Slices(LeafOccs(os, l))} : l \in {o.leaf : o \in os}}
  BY DEF ResolveOccurrences, LeafOccs
<1>2. \A l : Slices(LeafOccs(os, l)) = {SliceAt(LeafOccs(os, l), s) : s \in Starts(LeafOccs(os, l))}
  BY SlicesParts
<1> QED BY <1>1, <1>2

(* resolveOccurrences, for any finite set of well-formed occurrences: the    *)
(* winners do not overlap, each lies in the body and comes from a claim, and *)
(* each character a claim covers, blanks apart, goes to the claim that       *)
(* ranks first over it.                                                      *)
ResolvedOnce(ls, os, ws) ==
    /\ \A v, w \in ws : v # w /\ v.leaf = w.leaf => v.to < w.from \/ w.to < v.from
    /\ \A o \in os : \A p \in o.from .. o.to :
          ~IsSpace(ls[o.leaf][p]) =>
              \E w \in ws :
                  /\ w.leaf = o.leaf /\ w.from <= p /\ p <= w.to
                  /\ \A x \in os : (x.leaf = o.leaf /\ x.from <= p /\ p <= x.to) =>
                        x = w.source \/ Beats(w.source, x)

LEMMA ResolvesOnce ==
    ASSUME NEW ls, NEW cs, ClaimsRanked(cs), NEW os, os \subseteq OccsIn(ls, cs), IsFiniteSet(os)
    PROVE  ResolvedOnce(ls, os, ResolveOccurrences(ls, os))
<1> DEFINE ws == ResolveOccurrences(ls, os)
<1>1. ASSUME NEW v \in ws, NEW w \in ws, v # w, v.leaf = w.leaf
      PROVE  v.to < w.from \/ w.to < v.from
  <2>1. PICK l \in {o.leaf : o \in os} : \E s \in Starts(LeafOccs(os, l)) :
                v \in Finalize(ls, SliceAt(LeafOccs(os, l), s))
    BY WinnerParts
  <2>2. PICK k \in {o.leaf : o \in os} : \E s \in Starts(LeafOccs(os, k)) :
                w \in Finalize(ls, SliceAt(LeafOccs(os, k), s))
    BY WinnerParts
  <2>3. PICK s \in Starts(LeafOccs(os, l)) : v \in Finalize(ls, SliceAt(LeafOccs(os, l), s))  BY <2>1
  <2>4. PICK t \in Starts(LeafOccs(os, k)) : w \in Finalize(ls, SliceAt(LeafOccs(os, k), t))  BY <2>2
  <2> DEFINE a == SliceAt(LeafOccs(os, l), s)
             b == SliceAt(LeafOccs(os, k), t)
  <2>5. a.source.leaf = l /\ a.from \in Int /\ a.to \in Int /\ a.from <= a.to  BY SlicesOfLeaf
  <2>6. b.source.leaf = k /\ b.from \in Int /\ b.to \in Int /\ b.from <= b.to  BY SlicesOfLeaf
  <2>7. LeafOccs(os, l) \subseteq OccsIn(ls, cs) /\ IsFiniteSet(LeafOccs(os, l))  BY SlicesOfLeaf
  <2> DEFINE here == LeafOccs(os, l)
  <2>8. \A i, j \in Starts(here) : i < j => SliceAt(here, i).to < SliceAt(here, j).from
    <3> HIDE DEF here
    <3>1. here \subseteq OccsIn(ls, cs) /\ IsFiniteSet(here)  BY <2>7 DEF here
    <3> QED BY <3>1, SlicesApart
  <2>9. s \in Nat /\ t \in Nat
    <3>1. s \in Nat  BY <2>7, SliceEdges
    <3>2. LeafOccs(os, k) \subseteq OccsIn(ls, cs) /\ IsFiniteSet(LeafOccs(os, k))  BY SlicesOfLeaf
    <3>3. t \in Nat  BY <3>2, SliceEdges
    <3> QED BY <3>1, <3>3
  <2>10. v \in Finalize(ls, a) /\ w \in Finalize(ls, b)  BY <2>3, <2>4
  <2> HIDE DEF a, b, ws
  <2>11. v.leaf = l /\ v.from \in Int /\ v.to \in Int /\ a.from <= v.from /\ v.from <= v.to /\ v.to <= a.to
    BY <2>5, <2>10, FinalizeFacts
  <2>12. w.leaf = k /\ w.from \in Int /\ w.to \in Int /\ b.from <= w.from /\ w.from <= w.to /\ w.to <= b.to
    BY <2>6, <2>10, FinalizeFacts
  <2>13. l = k  BY <1>1, <2>11, <2>12
  <2>14. s # t
    <3> SUFFICES ASSUME s = t PROVE FALSE  OBVIOUS
    <3>1. a = b  BY <2>13 DEF a, b
    <3>2. v = w  BY <2>5, <2>10, <3>1, FinalizeFacts
    <3> QED BY <1>1, <3>2
  <2>15. s < t \/ t < s  BY <2>9, <2>14
  <2>16. s < t => a.to < b.from  BY <2>8, <2>13 DEF a, b
  <2>17. t < s => b.to < a.from  BY <2>8, <2>13 DEF a, b
  <2> QED BY <2>5, <2>6, <2>11, <2>12, <2>15, <2>16, <2>17
<1>2. ASSUME NEW o \in os, NEW p \in o.from .. o.to, ~IsSpace(ls[o.leaf][p])
      PROVE  \E w \in ws :
                /\ w.leaf = o.leaf /\ w.from <= p /\ p <= w.to
                /\ \A x \in os : (x.leaf = o.leaf /\ x.from <= p /\ p <= x.to) =>
                      x = w.source \/ Beats(w.source, x)
  <2> DEFINE l == o.leaf
             here == LeafOccs(os, l)
  <2>1. here \subseteq OccsIn(ls, cs) /\ IsFiniteSet(here) /\ SameLeaf(here)  BY SlicesOfLeaf
  <2>2. o.from \in Nat /\ o.to \in Nat  BY DEF OccsIn
  <2>3. p \in Nat /\ o.from <= p /\ p <= o.to  BY <2>2
  <2>4. o \in here  BY DEF LeafOccs
  <2>5. \A x \in os : x.leaf = l => x \in here  BY DEF LeafOccs
  <2>6. l \in {x.leaf : x \in os}  OBVIOUS
  <2>7. \A s \in Starts(here) : /\ SliceAt(here, s).source.leaf = l
                                /\ SliceAt(here, s).from \in Int /\ SliceAt(here, s).to \in Int
                                /\ SliceAt(here, s).from <= SliceAt(here, s).to
    BY SlicesOfLeaf
  <2>8. \A s \in Starts(here) : \A w \in Finalize(ls, SliceAt(here, s)) : w \in ws
    BY <2>6, WinnerParts
  <2> HIDE DEF here, ws
  <2>9. PICK s \in Starts(here) :
           /\ SliceAt(here, s).from <= p /\ p <= SliceAt(here, s).to
           /\ \A x \in here : x.from <= p /\ p <= x.to =>
                 x = SliceAt(here, s).source \/ Beats(SliceAt(here, s).source, x)
    BY <2>1, <2>3, <2>4, SlicesCover
  <2> DEFINE a == SliceAt(here, s)
  <2>10. a.source.leaf = l /\ a.from \in Int /\ a.to \in Int /\ a.from <= a.to /\ a.from <= p /\ p <= a.to
    BY <2>7, <2>9
  <2>11. \A x \in here : x.from <= p /\ p <= x.to => x = a.source \/ Beats(a.source, x)  BY <2>9
  <2>12. \A w \in Finalize(ls, a) : w \in ws  BY <2>8
  <2> HIDE DEF a
  <2>13. p \in a.from .. a.to /\ ~IsSpace(ls[a.source.leaf][p])  BY <1>2, <2>3, <2>10
  <2>14. PICK w \in Finalize(ls, a) : w.from <= p /\ p <= w.to  BY <2>10, <2>13, FinalizeFacts
  <2>15. w.leaf = l /\ w.source = a.source  BY <2>10, FinalizeFacts
  <2> QED BY <2>5, <2>11, <2>12, <2>14, <2>15
<1> QED BY <1>1, <1>2 DEF ResolvedOnce

-----------------------------------------------------------------------------
(* Where occurrences come from                                               *)

Within(n) == {m \in (1 .. n) \X (1 .. n) : m[1] <= m[2]}

EndsAt(text, value, anyCase, i) ==
    {j \in i .. Len(text) : /\ ~IsSpace(text[i]) /\ ~IsSpace(text[j])
                            /\ Same(SubSeq(text, i, j), AsForm(value), anyCase)}
ScanStep(es, n, f, i) ==
    IF i = n + 1 THEN {}
    ELSE IF es[i] = {} THEN f[i + 1]
    ELSE {<<i, Max(es[i])>>} \cup f[Max(es[i]) + 1]
Scan(es, n) == CHOOSE f : f = [i \in 1 .. n + 1 |-> ScanStep(es, n, f, i)]

LEMMA ScanDefined ==
    ASSUME NEW n \in Nat, NEW es, \A i \in 1 .. n : es[i] \subseteq i .. n
    PROVE  /\ \A i \in 1 .. n : es[i] # {} => Max(es[i]) \in i .. n
           /\ Scan(es, n) = [i \in 1 .. n + 1 |-> ScanStep(es, n, Scan(es, n), i)]
<1>1. ASSUME NEW i \in 1 .. n, es[i] # {} PROVE Max(es[i]) \in i .. n
  <2> DEFINE S == es[i]
  <2>1. S \subseteq i .. n /\ S # {}  BY <1>1
  <2>2. IsFiniteSet(i .. n)  BY FS_Interval
  <2>3. S \subseteq Int  BY <2>1
  <2> HIDE DEF S
  <2>4. IsFiniteSet(S)  BY <2>1, <2>2, FS_Subset
  <2>5. Max(S) \in S  BY <2>1, <2>3, <2>4, Extremes
  <2> QED BY <2>1, <2>5 DEF S
<1> DEFINE P == {m \in Nat : m <= n => \E f : f = [i \in n + 1 - m .. n + 1 |-> ScanStep(es, n, f, i)]}
<1>2. Nat \subseteq P
  <2>1. 0 \in P
    <3> DEFINE f == [i \in n + 1 .. n + 1 |-> {}]
    <3>1. f = [i \in n + 1 - 0 .. n + 1 |-> ScanStep(es, n, f, i)]
      <4>1. n + 1 - 0 = n + 1  OBVIOUS
      <4>2. \A i \in n + 1 .. n + 1 : ScanStep(es, n, f, i) = {}
        <5> HIDE DEF f
        <5> QED BY DEF ScanStep
      <4> QED BY <4>1, <4>2
    <3> HIDE DEF f
    <3> QED BY <3>1
  <2>2. ASSUME NEW m \in P PROVE m + 1 \in P
    <3>0. m \in Nat  OBVIOUS
    <3> SUFFICES ASSUME m + 1 <= n
                 PROVE  \E f : f = [i \in n + 1 - (m + 1) .. n + 1 |-> ScanStep(es, n, f, i)]
      BY <3>0
    <3>1. m <= n  BY <3>0
    <3>2. PICK g : g = [i \in n + 1 - m .. n + 1 |-> ScanStep(es, n, g, i)]  BY <3>1
    <3> DEFINE k == n - m
               f == [i \in k .. n + 1 |-> IF i = k THEN ScanStep(es, n, g, i) ELSE g[i]]
    <3>3. n + 1 - (m + 1) = k /\ n + 1 - m = k + 1 /\ k \in 1 .. n  BY <3>0
    <3>4. ASSUME NEW i \in k .. n + 1 PROVE f[i] = ScanStep(es, n, f, i)
      <4> HIDE DEF k
      <4>1. i \in 1 .. n + 1  BY <3>3
      <4>2. \A j \in k + 1 .. n + 1 : f[j] = g[j]  BY <3>3
      <4>3. i \in 1 .. n /\ es[i] # {} => Max(es[i]) + 1 \in k + 1 .. n + 1
        <5> SUFFICES ASSUME i \in 1 .. n, es[i] # {} PROVE Max(es[i]) + 1 \in k + 1 .. n + 1  OBVIOUS
        <5>1. Max(es[i]) \in i .. n  BY <1>1
        <5> QED BY <5>1, <3>3
      <4>4. i # n + 1 => i \in 1 .. n /\ i + 1 \in k + 1 .. n + 1  BY <3>3, <4>1
      <4>5. i # k => g[i] = ScanStep(es, n, g, i)
        <5> SUFFICES ASSUME i # k PROVE g[i] = ScanStep(es, n, g, i)  OBVIOUS
        <5>1. i \in k + 1 .. n + 1  BY <3>3
        <5> QED BY <3>2, <3>3, <5>1
      <4>6. f[i] = ScanStep(es, n, g, i)  BY <4>5
      <4> HIDE DEF f
      <4>7. i # n + 1 => f[i + 1] = g[i + 1]  BY <4>2, <4>4
      <4>8. i # n + 1 /\ es[i] # {} => f[Max(es[i]) + 1] = g[Max(es[i]) + 1]  BY <4>2, <4>3, <4>4
      <4> QED BY <4>6, <4>7, <4>8 DEF ScanStep
    <3>5. f = [i \in k .. n + 1 |-> ScanStep(es, n, f, i)]
      <4>1. f = [i \in k .. n + 1 |-> f[i]]  OBVIOUS
      <4> HIDE DEF f, k
      <4> QED BY <3>4, <4>1
    <3> HIDE DEF f, k
    <3>6. f = [i \in n + 1 - (m + 1) .. n + 1 |-> ScanStep(es, n, f, i)]  BY <3>3, <3>5
    <3> QED BY <3>6
  <2> HIDE DEF P
  <2> QED BY <2>1, <2>2, NatSet
<1>3. \E f : f = [i \in 1 .. n + 1 |-> ScanStep(es, n, f, i)]
  <2>1. n \in P  BY <1>2
  <2>2. \E f : f = [i \in n + 1 - n .. n + 1 |-> ScanStep(es, n, f, i)]  BY <2>1
  <2>3. n + 1 - n = 1  OBVIOUS
  <2> QED BY <2>2, <2>3
<1>4. Scan(es, n) = [i \in 1 .. n + 1 |-> ScanStep(es, n, Scan(es, n), i)]  BY <1>3, Zenon DEF Scan
<1> QED BY <1>1, <1>4

Reached(es, n) == {m \in Within(n) : m[2] \in es[m[1]]}

LEMMA ScanWithin ==
    ASSUME NEW n \in Nat, NEW es, \A i \in 1 .. n : es[i] \subseteq i .. n
    PROVE  Scan(es, n)[1] \subseteq Reached(es, n)
<1> DEFINE f == Scan(es, n)
           T == {k \in Nat : k <= n /\ ~(f[n + 1 - k] \subseteq Reached(es, n))}
<1>1. \A i \in 1 .. n : es[i] # {} => Max(es[i]) \in i .. n  BY ScanDefined
<1>2. f = [i \in 1 .. n + 1 |-> ScanStep(es, n, f, i)]  BY ScanDefined
<1> HIDE DEF f
<1>3. T = {}
  <2> SUFFICES ASSUME T # {} PROVE FALSE  OBVIOUS
  <2>1. T \subseteq Nat  OBVIOUS
  <2>2. PICK k \in T : \A j \in T : k <= j
    <3> HIDE DEF T
    <3> QED BY <2>1, LeastNat
  <2>3. k \in Nat /\ k <= n /\ ~(f[n + 1 - k] \subseteq Reached(es, n))  BY <2>2
  <2> DEFINE i == n + 1 - k
  <2>4. i \in 1 .. n + 1  BY <2>3
  <2>5. \A x \in i + 1 .. n + 1 : f[x] \subseteq Reached(es, n)
    <3> SUFFICES ASSUME NEW x \in i + 1 .. n + 1, ~(f[x] \subseteq Reached(es, n)) PROVE FALSE  OBVIOUS
    <3> DEFINE j == n + 1 - x
    <3>1. j \in Nat /\ j <= n /\ ~(k <= j) /\ n + 1 - j = x  BY <2>3
    <3>2. j \in T
      <4>1. ~(f[n + 1 - j] \subseteq Reached(es, n))  BY <3>1
      <4> HIDE DEF j
      <4> QED BY <3>1, <4>1
    <3> QED BY <2>2, <3>1, <3>2
  <2> HIDE DEF i, T
  <2>6. f[i] = ScanStep(es, n, f, i)  BY <1>2, <2>4
  <2>7. CASE i = n + 1
    <3>1. f[i] = {}  BY <2>6, <2>7 DEF ScanStep
    <3> QED BY <2>3, <3>1 DEF i
  <2>8. CASE i # n + 1 /\ es[i] = {}
    <3>1. f[i] = f[i + 1]  BY <2>6, <2>8 DEF ScanStep
    <3>2. i + 1 \in i + 1 .. n + 1  BY <2>4, <2>8
    <3> QED BY <2>3, <2>5, <3>1, <3>2 DEF i
  <2>9. CASE i # n + 1 /\ es[i] # {}
    <3> DEFINE e == Max(es[i])
    <3>1. i \in 1 .. n  BY <2>4, <2>9
    <3>2. e \in i .. n  BY <1>1, <2>9, <3>1
    <3>3. f[i] = {<<i, e>>} \cup f[e + 1]  BY <2>6, <2>9 DEF ScanStep
    <3> HIDE DEF e
    <3>4. e + 1 \in i + 1 .. n + 1 /\ e \in 1 .. n /\ i <= e  BY <3>1, <3>2
    <3>5. <<i, e>> \in Reached(es, n)
      <4>1. <<i, e>> \in (1 .. n) \X (1 .. n)  BY <3>1, <3>4
      <4>2. <<i, e>>[1] = i /\ <<i, e>>[2] = e  OBVIOUS
      <4>3. e \in es[i]
        <5> DEFINE S == es[i]
        <5>1. S \subseteq i .. n /\ S # {}  BY <2>9, <3>1
        <5>2. IsFiniteSet(i .. n)  BY <3>1, FS_Interval
        <5>3. S \subseteq Int  BY <5>1, <3>1
        <5> HIDE DEF S
        <5>4. IsFiniteSet(S)  BY <5>1, <5>2, FS_Subset
        <5> QED BY <5>1, <5>3, <5>4, Extremes DEF S, e
      <4> DEFINE m == <<i, e>>
      <4> HIDE DEF m
      <4>4. m \in Within(n)  BY <3>4, <4>1, <4>2 DEF Within, m
      <4> QED BY <4>2, <4>3, <4>4 DEF Reached, m
    <3>6. f[e + 1] \subseteq Reached(es, n)  BY <2>5, <3>4
    <3>7. f[i] \subseteq Reached(es, n)  BY <3>3, <3>5, <3>6
    <3> QED BY <2>3, <3>7 DEF i
  <2> QED BY <2>7, <2>8, <2>9
<1>4. f[1] \subseteq Reached(es, n)
  <2> SUFFICES ASSUME ~(f[1] \subseteq Reached(es, n)) PROVE FALSE  OBVIOUS
  <2>1. n + 1 - n = 1  OBVIOUS
  <2>2. n \in T  BY <2>1
  <2> QED BY <1>3, <2>2
<1> QED BY <1>4 DEF f

LEMMA SpansWithin ==
    ASSUME NEW text, Len(text) \in Nat, NEW value, NEW anyCase, NEW wordBounded
    PROVE  \A m \in ExpansionSpans(text, value, anyCase, wordBounded) :
              m \in Within(Len(text)) /\ m[2] \in EndsAt(text, value, anyCase, m[1])
<1> DEFINE n == Len(text)
           es == [i \in 1 .. n |-> EndsAt(text, value, anyCase, i)]
           f == CHOOSE g : g = [i \in 1 .. n + 1 |->
                    IF i = n + 1 THEN {}
                    ELSE IF EndsAt(text, value, anyCase, i) = {} THEN g[i + 1]
                    ELSE {<<i, Max(EndsAt(text, value, anyCase, i))>>}
                         \cup g[Max(EndsAt(text, value, anyCase, i)) + 1]]
<1>1. ExpansionSpans(text, value, anyCase, wordBounded) \subseteq f[1]
  BY DEF ExpansionSpans, EndsAt
<1>2. f = Scan(es, n)
  <2>1. \A g : [i \in 1 .. n + 1 |->
                    IF i = n + 1 THEN {}
                    ELSE IF EndsAt(text, value, anyCase, i) = {} THEN g[i + 1]
                    ELSE {<<i, Max(EndsAt(text, value, anyCase, i))>>}
                         \cup g[Max(EndsAt(text, value, anyCase, i)) + 1]]
               = [i \in 1 .. n + 1 |-> ScanStep(es, n, g, i)]
    <3> TAKE g
    <3>1. ASSUME NEW i \in 1 .. n + 1
          PROVE  (IF i = n + 1 THEN {}
                  ELSE IF EndsAt(text, value, anyCase, i) = {} THEN g[i + 1]
                  ELSE {<<i, Max(EndsAt(text, value, anyCase, i))>>}
                         \cup g[Max(EndsAt(text, value, anyCase, i)) + 1])
                 = ScanStep(es, n, g, i)
      <4>1. i # n + 1 => i \in 1 .. n  OBVIOUS
      <4>2. i # n + 1 => es[i] = EndsAt(text, value, anyCase, i)  BY <4>1
      <4> HIDE DEF es
      <4> QED BY <4>2 DEF ScanStep
    <3> QED BY <3>1
  <2> QED BY <2>1 DEF Scan
<1>3. \A i \in 1 .. n : es[i] \subseteq i .. n  BY DEF EndsAt
<1> HIDE DEF f, es
<1>4. f[1] \subseteq Reached(es, n)  BY <1>2, <1>3, ScanWithin
<1> SUFFICES ASSUME NEW m \in ExpansionSpans(text, value, anyCase, wordBounded)
             PROVE  m \in Within(n) /\ m[2] \in EndsAt(text, value, anyCase, m[1])
  OBVIOUS
<1>5. m \in Within(n) /\ m[2] \in es[m[1]]  BY <1>1, <1>4 DEF Reached
<1>6. m[1] \in 1 .. n  BY <1>5 DEF Within
<1> QED BY <1>5, <1>6 DEF es

LEMMA OccPlaced ==
    ASSUME NEW ls, AreLeaves(ls), NEW cs, NEW l \in 1 .. Len(ls), NEW m \in Within(Len(ls[l])),
           NEW c \in cs, NEW g \in Origins
    PROVE  Occ(l, m, c, g) \in OccsIn(ls, cs)
<1>1. m[1] \in 1 .. Len(ls[l]) /\ m[2] \in 1 .. Len(ls[l]) /\ m[1] <= m[2]  BY DEF Within
<1>2. Len(ls[l]) \in Nat  BY DEF AreLeaves
<1>3. m[1] \in Nat /\ m[2] \in Nat /\ 1 <= m[1] /\ m[2] <= Len(ls[l])  BY <1>1, <1>2
<1> DEFINE f == m[1]
           t == m[2]
           o == [leaf |-> l, from |-> f, to |-> t, claim |-> c, origin |-> g]
<1>4. Occ(l, m, c, g) = o  BY DEF Occ
<1> HIDE DEF f, t
<1>5. /\ o \in [leaf : 1 .. Len(ls), from : Nat, to : Nat, claim : cs, origin : Origins]
      /\ o.from = f /\ o.to = t /\ o.leaf = l
  BY <1>3 DEF f, t
<1> HIDE DEF o
<1>6. 1 <= o.from /\ o.from <= o.to /\ o.to <= Len(ls[o.leaf])  BY <1>1, <1>3, <1>5 DEF f, t
<1> QED BY <1>4, <1>5, <1>6 DEF OccsIn

LEMMA ExpandedPlaced ==
    ASSUME NEW ls, AreLeaves(ls), NEW cs
    PROVE  Expanded(ls, cs) \subseteq OccsIn(ls, cs)
<1> SUFFICES ASSUME NEW o \in Expanded(ls, cs) PROVE o \in OccsIn(ls, cs)  OBVIOUS
<1> DEFINE SpansOf(l, c, f) == ExpansionSpans(ls[l], f.value, c.authority = "detected" \/ CaseExpandable(f.value), f.wordBounded)
<1>1. PICK l \in 1 .. Len(ls), c \in cs : \E f \in c.forms : \E m \in SpansOf(l, c, f) : o = Occ(l, m, c, "expansion")
  BY DEF Expanded
<1>2. PICK f \in c.forms : \E m \in SpansOf(l, c, f) : o = Occ(l, m, c, "expansion")  BY <1>1
<1>3. PICK m \in SpansOf(l, c, f) : o = Occ(l, m, c, "expansion")  BY <1>2
<1>4. Len(ls[l]) \in Nat  BY DEF AreLeaves
<1>5. m \in Within(Len(ls[l]))  BY <1>4, SpansWithin
<1>6. "expansion" \in Origins  BY DEF Origins
<1> QED BY <1>3, <1>5, <1>6, OccPlaced

LEMMA ExactPlaced ==
    ASSUME NEW ls, AreLeaves(ls), NEW cs, NEW c \in cs
    PROVE  Exact(ls, c) \subseteq OccsIn(ls, cs)
<1> SUFFICES ASSUME NEW o \in Exact(ls, c) PROVE o \in OccsIn(ls, cs)  OBVIOUS
<1>1. PICK l \in 1 .. Len(ls) :
         \E f \in c.forms : \E m \in ExpansionSpans(ls[l], f.value, FALSE, FALSE) : o = Occ(l, m, c, "detector")
  BY DEF Exact
<1>2. PICK f \in c.forms : \E m \in ExpansionSpans(ls[l], f.value, FALSE, FALSE) : o = Occ(l, m, c, "detector")
  BY <1>1
<1>3. PICK m \in ExpansionSpans(ls[l], f.value, FALSE, FALSE) : o = Occ(l, m, c, "detector")  BY <1>2
<1>4. Len(ls[l]) \in Nat  BY DEF AreLeaves
<1>5. m \in Within(Len(ls[l]))  BY <1>4, SpansWithin
<1>6. "detector" \in Origins  BY DEF Origins
<1> QED BY <1>3, <1>5, <1>6, OccPlaced

Places(ls) == {x \in (1 .. Len(ls)) \X Nat : x[2] <= Len(ls[x[1]])}

LEMMA JoinedPlaces ==
    ASSUME NEW ls, AreLeaves(ls)
    PROVE  Joined(ls) \in Seq(Places(ls))
<1> DEFINE n == Len(ls)
           Line(i) == [p \in 1 .. Len(ls[i]) |-> <<i, p>>]
           Joint(i) == IF i < n THEN << <<i, 0>> >> ELSE <<>>
           parts == [i \in 1 .. n |-> Line(i) \o Joint(i)]
<1>1. n \in Nat  BY DEF AreLeaves
<1>2. ASSUME NEW i \in 1 .. n PROVE parts[i] \in Seq(Places(ls))
  <2>1. Len(ls[i]) \in Nat  BY DEF AreLeaves
  <2>2. \A p \in 0 .. Len(ls[i]) : <<i, p>> \in Places(ls)
    <3> TAKE p \in 0 .. Len(ls[i])
    <3>1. <<i, p>> \in (1 .. Len(ls)) \X Nat /\ <<i, p>>[1] = i /\ <<i, p>>[2] = p  BY <2>1
    <3>2. p <= Len(ls[i])  BY <2>1
    <3> QED BY <3>1, <3>2 DEF Places
  <2>3. \A p \in 1 .. Len(ls[i]) : <<i, p>> \in Places(ls)
    <3> TAKE p \in 1 .. Len(ls[i])
    <3>1. p \in 0 .. Len(ls[i])  BY <2>1
    <3> QED BY <2>2, <3>1
  <2>4. <<i, 0>> \in Places(ls)
    <3>1. 0 \in 0 .. Len(ls[i])  BY <2>1
    <3> QED BY <2>2, <3>1
  <2> DEFINE S == Places(ls)
             z == <<i, 0>>
  <2>5. Line(i) \in Seq(S)
    <3> HIDE DEF S
    <3>1. Line(i) \in [1 .. Len(ls[i]) -> S]  BY <2>3 DEF S
    <3> HIDE DEF Line
    <3> QED BY <2>1, <3>1
  <2>6. Joint(i) \in Seq(S)
    <3>1. z \in S  BY <2>4
    <3>2. Joint(i) = <<z>> \/ Joint(i) = <<>>  OBVIOUS
    <3> HIDE DEF S, z, Joint
    <3>3. <<z>> \in Seq(S)  BY <3>1
    <3>4. <<>> \in Seq(S)  OBVIOUS
    <3> QED BY <3>2, <3>3, <3>4
  <2>7. Line(i) \o Joint(i) \in Seq(S)
    <3> HIDE DEF S, Line, Joint
    <3> QED BY <2>5, <2>6, ConcatProperties
  <2>8. parts[i] = Line(i) \o Joint(i)
    <3> HIDE DEF Line, Joint
    <3> QED OBVIOUS
  <2> QED BY <2>7, <2>8
<1>3. parts \in Seq(Seq(Places(ls)))
  <2>1. parts = [i \in 1 .. n |-> parts[i]]
    <3> HIDE DEF Line, Joint
    <3> QED OBVIOUS
  <2> HIDE DEF parts, n
  <2>2. parts \in [1 .. n -> Seq(Places(ls))]  BY <1>2, <2>1
  <2> QED BY <1>1, <2>2
<1>4. Joined(ls) = FlattenSeq(parts)  BY DEF Joined
<1> HIDE DEF parts
<1> QED BY <1>3, <1>4, FlattenType

LEMMA ViewPlaces ==
    ASSUME NEW ls, AreLeaves(ls)
    PROVE  /\ Len(View(ls)) \in Nat
           /\ \A i \in 1 .. Len(View(ls)) : View(ls)[i] \in Places(ls)
<1> DEFINE joined == Joined(ls)
           S == {i \in 1 .. Len(joined) : ReadAt(ls, joined[i]) # Star}
           kept == Ascending(S)
<1>1. joined \in Seq(Places(ls))  BY JoinedPlaces
<1>2. View(ls) = [i \in 1 .. Len(kept) |-> joined[kept[i]]]  BY DEF View
<1> HIDE DEF joined
<1>3. Len(joined) \in Nat /\ \A i \in 1 .. Len(joined) : joined[i] \in Places(ls)
  <2> DEFINE P == Places(ls)
  <2>1. joined \in Seq(P)  BY <1>1
  <2> HIDE DEF P
  <2>2. Len(joined) \in Nat /\ \A i \in 1 .. Len(joined) : joined[i] \in P  BY <2>1
  <2> QED BY <2>2 DEF P
<1>4. S \subseteq 1 .. Len(joined) /\ S \subseteq Int  BY <1>3
<1>5. IsFiniteSet(1 .. Len(joined))  BY <1>3, FS_Interval
<1> HIDE DEF S
<1>6. IsFiniteSet(S)  BY <1>4, <1>5, FS_Subset
<1>7. Len(kept) \in Nat /\ \A i \in 1 .. Len(kept) : kept[i] \in S
  <2>1. Cardinality(S) \in Nat /\ Len(kept) = Cardinality(S)  BY <1>4, <1>6, Ascends
  <2>2. \A i \in 1 .. Cardinality(S) : kept[i] \in S  BY <1>4, <1>6, Ascends
  <2> HIDE DEF kept
  <2> QED BY <2>1, <2>2
<1> HIDE DEF kept
<1>8. Len(View(ls)) = Len(kept) /\ \A i \in 1 .. Len(kept) : View(ls)[i] = joined[kept[i]]  BY <1>2, <1>7
<1> QED BY <1>3, <1>4, <1>7, <1>8

LEMMA PiecesPlaced ==
    ASSUME NEW ls, AreLeaves(ls), NEW s \in Stretches(ls), NEW x \in Pieces(ls, s)
    PROVE  x[1] \in 1 .. Len(ls) /\ <<x[2], x[3]>> \in Within(Len(ls[x[1]]))
<1> DEFINE begin == View(ls)[s[1]]
           to == View(ls)[s[2]]
           f(k) == IF k = begin[1] THEN begin[2] ELSE 1
           t(k) == IF k = to[1] THEN to[2] ELSE Len(ls[k])
<1>1. /\ s[1] \in 1 .. Len(View(ls)) /\ s[2] \in 1 .. Len(View(ls))
      /\ Edge(ReadAt(ls, begin)) /\ Edge(ReadAt(ls, to))
  BY DEF Stretches
<1>2. begin \in Places(ls) /\ to \in Places(ls)  BY <1>1, ViewPlaces
<1>3. PICK k \in begin[1] .. to[1] : x = <<k, f(k), t(k)>> /\ x[2] <= x[3]  BY DEF Pieces
<1>4. ~Edge(NewLine)  BY DEF Edge, IsSpace
<1>5. begin[2] # 0 /\ to[2] # 0
  <2>1. ReadAt(ls, begin) # NewLine /\ ReadAt(ls, to) # NewLine  BY <1>1, <1>4
  <2> HIDE DEF begin, to
  <2> QED BY <2>1 DEF ReadAt
<1> HIDE DEF begin, to
<1>6. /\ begin[1] \in 1 .. Len(ls) /\ begin[2] \in Nat /\ begin[2] <= Len(ls[begin[1]])
      /\ to[1] \in 1 .. Len(ls) /\ to[2] \in Nat /\ to[2] <= Len(ls[to[1]])
  BY <1>2 DEF Places
<1>7. Len(ls) \in Nat /\ \A l \in 1 .. Len(ls) : Len(ls[l]) \in Nat  BY DEF AreLeaves
<1>8. k \in 1 .. Len(ls)  BY <1>6, <1>7
<1>9. f(k) \in Nat /\ f(k) >= 1  BY <1>5, <1>6
<1>10. t(k) \in Nat /\ t(k) <= Len(ls[k])
  <2>1. CASE k = to[1]  BY <2>1, <1>6
  <2>2. CASE k # to[1]  BY <2>2, <1>7, <1>8
  <2> QED BY <2>1, <2>2
<1> HIDE DEF f, t
<1>11. x[1] = k /\ x[2] = f(k) /\ x[3] = t(k)  BY <1>3
<1> DEFINE y == <<x[2], x[3]>>
<1>12. y[1] = x[2] /\ y[2] = x[3]  OBVIOUS
<1>13. x[2] \in 1 .. Len(ls[k]) /\ x[3] \in 1 .. Len(ls[k]) /\ x[2] <= x[3]
  <2>1. Len(ls[k]) \in Nat  BY <1>7, <1>8
  <2> QED BY <1>3, <1>9, <1>10, <1>11, <2>1
<1>14. y \in (1 .. Len(ls[k])) \X (1 .. Len(ls[k]))  BY <1>13
<1> HIDE DEF y
<1>15. y \in Within(Len(ls[k]))  BY <1>12, <1>13, <1>14 DEF Within
<1> QED BY <1>8, <1>11, <1>15 DEF y

LEMMA MappedPlaced ==
    ASSUME NEW ls, AreLeaves(ls), NEW s \in Stretches(ls), NEW cs, NEW c \in cs
    PROVE  Mapped(ls, s, c) \subseteq OccsIn(ls, cs)
<1> SUFFICES ASSUME NEW o \in Mapped(ls, s, c) PROVE o \in OccsIn(ls, cs)  OBVIOUS
<1> DEFINE g == IF Cardinality(Pieces(ls, s)) > 1 THEN "clipped" ELSE "detector"
<1>1. PICK x \in Pieces(ls, s) : o = Occ(x[1], <<x[2], x[3]>>, c, g)  BY DEF Mapped
<1>2. g \in Origins  BY DEF Origins
<1> HIDE DEF g
<1>3. x[1] \in 1 .. Len(ls) /\ <<x[2], x[3]>> \in Within(Len(ls[x[1]]))  BY PiecesPlaced
<1> QED BY <1>1, <1>2, <1>3, OccPlaced

LEMMA OutsideMarkersPlaced ==
    ASSUME NEW ls, AreLeaves(ls), NEW cs, NEW o \in OccsIn(ls, cs)
    PROVE  OutsideMarkers(ls, o) \subseteq OccsIn(ls, cs)
<1> DEFINE marks == {p \in o.from .. o.to : ls[o.leaf][p] = Marker}
           S == marks \cup {o.from - 1, o.to + 1}
           cuts == Ascending(S)
           gaps == {<<cuts[i] + 1, cuts[i + 1] - 1>> : i \in 1 .. Len(cuts) - 1}
<1>1. OutsideMarkers(ls, o) =
        IF o.claim.authority # "detected" \/ marks = {} THEN {o}
        ELSE {[o EXCEPT !.from = m[1], !.to = m[2], !.origin = "clipped"] :
                 m \in UNION {Trim(ls, o.leaf, g) : g \in {x \in gaps : x[1] <= x[2]}}}
  BY DEF OutsideMarkers
<1>2. /\ o \in [leaf : 1 .. Len(ls), from : Nat, to : Nat, claim : cs, origin : Origins]
      /\ o.leaf \in 1 .. Len(ls) /\ o.from \in Nat /\ o.to \in Nat /\ o.claim \in cs
      /\ 1 <= o.from /\ o.from <= o.to /\ o.to <= Len(ls[o.leaf])
  BY DEF OccsIn
<1>3. S \subseteq Int /\ \A x \in S : o.from - 1 <= x /\ x <= o.to + 1
  <2>1. marks \subseteq o.from .. o.to  OBVIOUS
  <2> HIDE DEF marks
  <2>2. \A x \in S : x \in o.from .. o.to \/ x = o.from - 1 \/ x = o.to + 1  BY <2>1
  <2> HIDE DEF S
  <2>3. ASSUME NEW x \in S PROVE x \in Int /\ o.from - 1 <= x /\ x <= o.to + 1
    <3>1. CASE x \in o.from .. o.to  BY <3>1, <1>2
    <3>2. CASE x = o.from - 1  BY <3>2, <1>2
    <3>3. CASE x = o.to + 1  BY <3>3, <1>2
    <3> QED BY <2>2, <3>1, <3>2, <3>3
  <2> QED BY <2>3
<1>4. IsFiniteSet(S)
  <2>1. IsFiniteSet(o.from - 1 .. o.to + 1)  BY <1>2, FS_Interval
  <2>2. S \subseteq o.from - 1 .. o.to + 1
    <3> HIDE DEF S
    <3> QED BY <1>3
  <2> HIDE DEF S
  <2> QED BY <2>1, <2>2, FS_Subset
<1> HIDE DEF S, marks
<1>5. Len(cuts) \in Nat /\ \A i \in 1 .. Len(cuts) : cuts[i] \in S
  <2>1. Cardinality(S) \in Nat /\ Len(cuts) = Cardinality(S)  BY <1>3, <1>4, Ascends
  <2>2. \A i \in 1 .. Cardinality(S) : cuts[i] \in S  BY <1>3, <1>4, Ascends
  <2> HIDE DEF cuts
  <2> QED BY <2>1, <2>2
<1> HIDE DEF cuts
<1>6. ASSUME NEW i \in 1 .. Len(cuts) - 1, NEW m \in Trim(ls, o.leaf, <<cuts[i] + 1, cuts[i + 1] - 1>>)
      PROVE  m[1] \in Nat /\ m[2] \in Nat /\ o.from <= m[1] /\ m[1] <= m[2] /\ m[2] <= o.to
  <2>1. i \in 1 .. Len(cuts) /\ i + 1 \in 1 .. Len(cuts)  BY <1>5
  <2> DEFINE a == cuts[i] + 1
             b == cuts[i + 1] - 1
  <2>2. /\ cuts[i] \in Int /\ o.from - 1 <= cuts[i]
        /\ cuts[i + 1] \in Int /\ cuts[i + 1] <= o.to + 1
    BY <1>3, <1>5, <2>1
  <2>3. a \in Int /\ b \in Int /\ o.from <= a /\ b <= o.to  BY <1>2, <2>2
  <2>4. m \in Trim(ls, o.leaf, <<a, b>>)  OBVIOUS
  <2> HIDE DEF a, b
  <2>5. m[1] \in Int /\ m[2] \in Int /\ a <= m[1] /\ m[1] <= m[2] /\ m[2] <= b  BY <2>3, <2>4, TrimFacts
  <2> QED BY <1>2, <2>3, <2>5
<1>7. ASSUME NEW i \in 1 .. Len(cuts) - 1, NEW m \in Trim(ls, o.leaf, <<cuts[i] + 1, cuts[i + 1] - 1>>)
      PROVE  [o EXCEPT !.from = m[1], !.to = m[2], !.origin = "clipped"] \in OccsIn(ls, cs)
  <2> DEFINE f == m[1]
             t == m[2]
             x == [o EXCEPT !.from = f, !.to = t, !.origin = "clipped"]
  <2>1. f \in Nat /\ t \in Nat /\ o.from <= f /\ f <= t /\ t <= o.to  BY <1>6, <1>7
  <2> HIDE DEF f, t
  <2>2. "clipped" \in Origins  BY DEF Origins
  <2>3. x \in [leaf : 1 .. Len(ls), from : Nat, to : Nat, claim : cs, origin : Origins]  BY <1>2, <2>1, <2>2
  <2>4. x.from = f /\ x.to = t /\ x.leaf = o.leaf  BY <1>2
  <2>5. Len(ls[o.leaf]) \in Nat  BY <1>2 DEF AreLeaves
  <2> HIDE DEF x
  <2>6. x \in OccsIn(ls, cs)
    <3>1. 1 <= x.from /\ x.from <= x.to /\ x.to <= Len(ls[x.leaf])  BY <1>2, <2>1, <2>4, <2>5
    <3> QED BY <2>3, <3>1 DEF OccsIn
  <2> QED BY <2>6 DEF x, f, t
<1>8. ASSUME NEW m \in UNION {Trim(ls, o.leaf, g) : g \in {x \in gaps : x[1] <= x[2]}}
      PROVE  [o EXCEPT !.from = m[1], !.to = m[2], !.origin = "clipped"] \in OccsIn(ls, cs)
  <2>1. PICK i \in 1 .. Len(cuts) - 1 : m \in Trim(ls, o.leaf, <<cuts[i] + 1, cuts[i + 1] - 1>>)  OBVIOUS
  <2> QED BY <1>7, <2>1
<1> DEFINE all == UNION {Trim(ls, o.leaf, g) : g \in {x \in gaps : x[1] <= x[2]}}
<1>9. ASSUME NEW m \in all PROVE [o EXCEPT !.from = m[1], !.to = m[2], !.origin = "clipped"] \in OccsIn(ls, cs)
  BY <1>8
<1>10. OutsideMarkers(ls, o) = {o}
       \/ OutsideMarkers(ls, o) = {[o EXCEPT !.from = m[1], !.to = m[2], !.origin = "clipped"] : m \in all}
  BY <1>1
<1> HIDE DEF gaps, all
<1> SUFFICES ASSUME NEW y \in OutsideMarkers(ls, o) PROVE y \in OccsIn(ls, cs)  OBVIOUS
<1>11. CASE y = o  BY <1>11
<1>12. CASE \E m \in all : y = [o EXCEPT !.from = m[1], !.to = m[2], !.origin = "clipped"]
  <2>1. PICK m \in all : y = [o EXCEPT !.from = m[1], !.to = m[2], !.origin = "clipped"]  BY <1>12
  <2>2. [o EXCEPT !.from = m[1], !.to = m[2], !.origin = "clipped"] \in OccsIn(ls, cs)  BY <1>9
  <2> QED BY <2>1, <2>2, Zenon
<1>13. y = o \/ \E m \in all : y = [o EXCEPT !.from = m[1], !.to = m[2], !.origin = "clipped"]
  BY <1>10, Zenon
<1> QED BY <1>11, <1>12, <1>13

LEMMA AdmissiblePlaced ==
    ASSUME NEW ls, AreLeaves(ls), NEW cs, NEW os, os \subseteq OccsIn(ls, cs)
    PROVE  Admissible(ls, os) \subseteq OccsIn(ls, cs)
<1> SUFFICES ASSUME NEW o \in Admissible(ls, os) PROVE o \in OccsIn(ls, cs)  OBVIOUS
<1>1. PICK x \in os : o \in OutsideMarkers(ls, x)  BY DEF Admissible
<1>2. x \in OccsIn(ls, cs)  OBVIOUS
<1> QED BY <1>1, <1>2, OutsideMarkersPlaced

LEMMA OccsFinite ==
    ASSUME NEW ls, AreLeaves(ls), NEW cs, IsFiniteSet(cs)
    PROVE  IsFiniteSet(OccsIn(ls, cs))
<1> DEFINE Shape(l) == ((1 .. Len(ls[l])) \X (1 .. Len(ls[l]))) \X (cs \X Origins)
           f(l) == [x \in Shape(l) |-> Occ(l, x[1], x[2][1], x[2][2])]
           Here(l) == {f(l)[x] : x \in Shape(l)}
           g == [l \in 1 .. Len(ls) |-> Here(l)]
<1>1. Len(ls) \in Nat  BY DEF AreLeaves
<1>2. IsFiniteSet(Origins)
  <2>1. IsFiniteSet({"detector"} \cup {"expansion"})  BY FS_Singleton, FS_Union
  <2>2. IsFiniteSet(({"detector"} \cup {"expansion"}) \cup {"clipped"})  BY <2>1, FS_Singleton, FS_Union
  <2>3. Origins = ({"detector"} \cup {"expansion"}) \cup {"clipped"}  BY DEF Origins
  <2> QED BY <2>2, <2>3
<1>3. IsFiniteSet(cs \X Origins)  BY <1>2, FS_Product
<1>4. ASSUME NEW l \in 1 .. Len(ls) PROVE IsFiniteSet(Here(l))
  <2>1. Len(ls[l]) \in Nat  BY DEF AreLeaves
  <2>2. IsFiniteSet(1 .. Len(ls[l]))  BY <2>1, FS_Interval
  <2>3. IsFiniteSet((1 .. Len(ls[l])) \X (1 .. Len(ls[l])))  BY <2>2, FS_Product
  <2>4. IsFiniteSet(Shape(l))  BY <1>3, <2>3, FS_Product
  <2> HIDE DEF Shape, f
  <2> QED BY <2>4, ImageFinite
<1>5. ASSUME NEW o \in OccsIn(ls, cs) PROVE o \in UNION {g[l] : l \in 1 .. Len(ls)}
  <2> DEFINE l == o.leaf
             m == <<o.from, o.to>>
             k == <<o.claim, o.origin>>
             x == <<m, k>>
  <2>1. /\ o \in [leaf : 1 .. Len(ls), from : Nat, to : Nat, claim : cs, origin : Origins]
        /\ l \in 1 .. Len(ls) /\ o.from \in Nat /\ o.to \in Nat /\ o.claim \in cs /\ o.origin \in Origins
        /\ 1 <= o.from /\ o.from <= o.to /\ o.to <= Len(ls[l])
    BY DEF OccsIn
  <2>2. Len(ls[l]) \in Nat  BY <2>1 DEF AreLeaves
  <2>3. o.from \in 1 .. Len(ls[l]) /\ o.to \in 1 .. Len(ls[l])  BY <2>1, <2>2
  <2>4. m \in (1 .. Len(ls[l])) \X (1 .. Len(ls[l])) /\ m[1] = o.from /\ m[2] = o.to  BY <2>3
  <2>5. k \in cs \X Origins /\ k[1] = o.claim /\ k[2] = o.origin  BY <2>1
  <2> HIDE DEF m, k
  <2>6. x \in Shape(l) /\ x[1] = m /\ x[2] = k  BY <2>4, <2>5
  <2> HIDE DEF x
  <2>7. f(l)[x] = Occ(l, m, k[1], k[2])  BY <2>6
  <2>8. Occ(l, m, k[1], k[2]) = o  BY <2>1, <2>4, <2>5 DEF Occ
  <2>9. f(l)[x] = o  BY <2>7, <2>8
  <2> HIDE DEF f, Shape
  <2>10. o \in Here(l)  BY <2>6, <2>9
  <2> HIDE DEF Here, l
  <2>11. l \in 1 .. Len(ls)  BY <2>1
  <2>12. g[l] = Here(l)  BY <2>11
  <2> QED BY <2>10, <2>11, <2>12
<1> HIDE DEF Shape, f, Here
<1>6. \A l \in 1 .. Len(ls) : g[l] = Here(l)  OBVIOUS
<1> HIDE DEF g
<1>7. IsFiniteSet({g[l] : l \in 1 .. Len(ls)})
  <2>1. IsFiniteSet(1 .. Len(ls))  BY <1>1, FS_Interval
  <2> QED BY <2>1, ImageFinite
<1>8. \A T \in {g[l] : l \in 1 .. Len(ls)} : IsFiniteSet(T)  BY <1>4, <1>6
<1>9. IsFiniteSet(UNION {g[l] : l \in 1 .. Len(ls)})  BY <1>7, <1>8, FS_UNION
<1>10. OccsIn(ls, cs) \subseteq UNION {g[l] : l \in 1 .. Len(ls)}  BY <1>5
<1> QED BY <1>9, <1>10, FS_Subset

LEMMA WinnersOfOccs ==
    ASSUME NEW ls, NEW cs, ClaimsRanked(cs), NEW os, os \subseteq OccsIn(ls, cs), IsFiniteSet(os)
    PROVE  /\ IsFiniteSet(ResolveOccurrences(ls, os))
           /\ \A w \in ResolveOccurrences(ls, os) : w.source \in os
<1> DEFINE leaves == {o.leaf : o \in os}
           Here(l) == LeafOccs(os, l)
           f(l) == [s \in Starts(Here(l)) |-> Finalize(ls, SliceAt(Here(l), s))]
           Ws(l) == UNION {f(l)[s] : s \in Starts(Here(l))}
           g == [l \in leaves |-> Ws(l)]
           h == [o \in os |-> o.leaf]
<1>1. IsFiniteSet(leaves)
  <2>1. leaves = {h[o] : o \in os}  OBVIOUS
  <2> HIDE DEF leaves, h
  <2> QED BY <2>1, ImageFinite
<1>2. ASSUME NEW l PROVE IsFiniteSet(Ws(l))
  <2>1. Here(l) \subseteq OccsIn(ls, cs) /\ IsFiniteSet(Here(l))  BY SlicesOfLeaf
  <2>2. \A s \in Starts(Here(l)) : /\ SliceAt(Here(l), s).from \in Int /\ SliceAt(Here(l), s).to \in Int
                                   /\ SliceAt(Here(l), s).from <= SliceAt(Here(l), s).to
    BY SlicesOfLeaf
  <2>3. \A s \in Starts(Here(l)) : f(l)[s] = Finalize(ls, SliceAt(Here(l), s))
    <3> HIDE DEF Here
    <3> QED OBVIOUS
  <2> HIDE DEF Here, f
  <2>4. IsFiniteSet(Owned(Here(l)))  BY <2>1, OwnedFinite
  <2>5. IsFiniteSet(Starts(Here(l)))
    <3>1. Starts(Here(l)) \subseteq Owned(Here(l))  BY DEF Starts
    <3> QED BY <2>4, <3>1, FS_Subset
  <2>6. \A s \in Starts(Here(l)) : IsFiniteSet(f(l)[s])  BY <2>2, <2>3, FinalizeFacts
  <2>7. IsFiniteSet({f(l)[s] : s \in Starts(Here(l))})  BY <2>5, ImageFinite
  <2>8. \A T \in {f(l)[s] : s \in Starts(Here(l))} : IsFiniteSet(T)  BY <2>6
  <2> QED BY <2>7, <2>8, FS_UNION
<1>3. \A l \in leaves : g[l] = Ws(l)
  <2> HIDE DEF Ws, leaves
  <2> QED OBVIOUS
<1>4. ASSUME NEW w \in ResolveOccurrences(ls, os)
      PROVE  w.source \in os /\ w \in UNION {g[l] : l \in leaves}
  <2>1. PICK l \in leaves : \E s \in Starts(Here(l)) : w \in Finalize(ls, SliceAt(Here(l), s))
    BY WinnerParts
  <2>2. PICK s \in Starts(Here(l)) : w \in Finalize(ls, SliceAt(Here(l), s))  BY <2>1
  <2>3. /\ SliceAt(Here(l), s).from \in Int /\ SliceAt(Here(l), s).to \in Int
        /\ SliceAt(Here(l), s).from <= SliceAt(Here(l), s).to
        /\ SliceAt(Here(l), s).source \in os
    BY SlicesOfLeaf
  <2> HIDE DEF Here
  <2>4. w.source \in os  BY <2>2, <2>3, FinalizeFacts
  <2>5. w \in Ws(l)  BY <2>2
  <2> HIDE DEF Ws, leaves, g
  <2>6. w \in g[l]  BY <1>3, <2>5
  <2> QED BY <2>4, <2>6
<1> HIDE DEF Ws, leaves, g
<1>5. \A T \in {g[l] : l \in leaves} : IsFiniteSet(T)  BY <1>2, <1>3
<1>6. IsFiniteSet({g[l] : l \in leaves})  BY <1>1, ImageFinite
<1>7. IsFiniteSet(UNION {g[l] : l \in leaves})  BY <1>5, <1>6, FS_UNION
<1>8. ResolveOccurrences(ls, os) \subseteq UNION {g[l] : l \in leaves}  BY <1>4
<1>9. IsFiniteSet(ResolveOccurrences(ls, os))  BY <1>7, <1>8, FS_Subset
<1> QED BY <1>4, <1>9

-----------------------------------------------------------------------------
(* The claims of a pass                                                      *)

Kinds == Categories \cup {Registered}
KnownKept == IsFiniteSet(scope.known) /\ \A k \in scope.known : k.category \in Kinds

LEMMA SetInSequence ==
    ASSUME NEW S, IsFiniteSet(S)
    PROVE  /\ SetToSeq(S) \in [1 .. Cardinality(S) -> S] /\ Cardinality(S) \in Nat
           /\ Len(SetToSeq(S)) = Cardinality(S)
           /\ \A x \in S : \E i \in 1 .. Cardinality(S) : SetToSeq(S)[i] = x
<1> DEFINE n == Cardinality(S)
           order == SetToSeq(S)
<1>1. n \in Nat /\ ExistsBijection(1 .. n, S)  BY FS_CardinalityType
<1>2. PICK f : f \in Bijection(1 .. n, S)  BY <1>1 DEF ExistsBijection
<1>3. f \in [1 .. n -> S] /\ IsInjective(f)  BY <1>2 DEF Bijection, Injection
<1>4. order \in [1 .. n -> S] /\ IsInjective(order)  BY <1>3 DEF SetToSeq
<1> HIDE DEF order
<1>5. order \in Injection(1 .. n, S)  BY <1>4 DEF Injection
<1>6. IsFiniteSet(1 .. n) /\ Cardinality(1 .. n) = n
  <2>1. 1 \in Int /\ n \in Int  BY <1>1
  <2>2. IsFiniteSet(1 .. n) /\ Cardinality(1 .. n) = IF 1 > n THEN 0 ELSE n - 1 + 1  BY <2>1, FS_Interval
  <2> QED BY <1>1, <2>2
<1>7. order \in Surjection(1 .. n, S)
  <2>1. Cardinality(1 .. n) = Cardinality(S)  BY <1>6
  <2> QED BY <1>5, <2>1, FS_Injection
<1>8. \A x \in S : \E i \in 1 .. n : order[i] = x  BY <1>7 DEF Surjection, Range
<1>9. Len(order) = n  BY <1>1, <1>4
<1> QED BY <1>1, <1>4, <1>8, <1>9 DEF order

LEMMA KindsOrdered ==
    /\ \A c \in Kinds : c.destroyed \in BOOLEAN /\ c.priority \in Nat /\ c.confidence \in Int
    /\ \A c, d \in Kinds : c.priority = d.priority => c = d
<1>1. Registered.destroyed = FALSE /\ Registered.priority = 0 /\ Registered.confidence = 3  BY DEF Registered
<1>2. ASSUME NEW c \in Kinds PROVE c.destroyed \in BOOLEAN /\ c.priority \in Nat /\ c.confidence \in Int
  <2>1. CASE c \in Categories
    <3>1. \A x \in Categories : x.destroyed \in BOOLEAN /\ x.priority \in Nat \ {0} /\ x.confidence \in Int
      BY Zenon, BodyTextAssumption
    <3> QED BY <2>1, <3>1
  <2>2. CASE c = Registered
    <3>1. c.destroyed \in BOOLEAN  BY <2>2, <1>1, Zenon
    <3>2. c.priority \in Nat /\ c.confidence \in Int  BY <2>2, <1>1
    <3> QED BY <3>1, <3>2
  <2> QED BY <2>1, <2>2 DEF Kinds
<1>3. ASSUME NEW c \in Kinds, NEW d \in Kinds, c.priority = d.priority PROVE c = d
  <2>1. \A e \in Categories : e.priority # 0  BY BodyTextAssumption
  <2>2. CASE c \in Categories /\ d \in Categories  BY <2>2, <1>3, BodyTextAssumption
  <2>3. CASE c = Registered \/ d = Registered  BY <2>1, <2>3, <1>1, <1>3 DEF Kinds
  <2> QED BY <2>2, <2>3 DEF Kinds
<1> QED BY <1>2, <1>3

LEMMA ReportsFacts ==
    ASSUME KnownKept, NEW found, IsFiniteSet(found), found \subseteq Found
    PROVE  /\ IsFiniteSet({k.value : k \in Reports(found)})
           /\ \A k \in Reports(found) : k.category \in Kinds
           /\ \A f \in found : FoundValue(f) \in {k.value : k \in Reports(found)}
<1> DEFINE A == {[value |-> FoundValue(f), category |-> f.category] : f \in found}
           g == [f \in found |-> [value |-> FoundValue(f), category |-> f.category]]
           B == {k \in scope.known : k.value \notin scope.tokenOnly}
           h == [k \in Reports(found) |-> k.value]
<1>1. Reports(found) = A \cup B  BY DEF Reports
<1>2. IsFiniteSet(A)
  <2>1. A = {g[f] : f \in found}  OBVIOUS
  <2> HIDE DEF A, g
  <2> QED BY <2>1, ImageFinite
<1>3. IsFiniteSet(B)
  <2>1. B \subseteq scope.known  OBVIOUS
  <2> HIDE DEF B
  <2> QED BY <2>1, FS_Subset DEF KnownKept
<1>4. IsFiniteSet(Reports(found))
  <2> HIDE DEF A, B
  <2> QED BY <1>1, <1>2, <1>3, FS_Union
<1>5. IsFiniteSet({k.value : k \in Reports(found)})
  <2>1. {k.value : k \in Reports(found)} = {h[k] : k \in Reports(found)}  OBVIOUS
  <2> HIDE DEF h
  <2> QED BY <1>4, <2>1, ImageFinite
<1>6. \A k \in Reports(found) : k.category \in Kinds
  <2>1. \A f \in found : f.category \in Categories  BY DEF Found
  <2>2. \A k \in A : k.category \in Kinds  BY <2>1 DEF Kinds
  <2>3. \A k \in B : k.category \in Kinds  BY DEF KnownKept
  <2> QED BY <1>1, <2>2, <2>3
<1>7. ASSUME NEW f \in found PROVE FoundValue(f) \in {k.value : k \in Reports(found)}
  <2> DEFINE k == [value |-> FoundValue(f), category |-> f.category]
  <2>1. k \in Reports(found)  BY <1>1
  <2>2. k.value = FoundValue(f)  OBVIOUS
  <2> HIDE DEF k
  <2> QED BY <2>1, <2>2
<1> QED BY <1>5, <1>6, <1>7

LEMMA CategoryChosen ==
    ASSUME KnownKept, NEW found, IsFiniteSet(found), found \subseteq Found,
           NEW v \in {k.value : k \in Reports(found)}
    PROVE  ChosenCategory(found, v) \in Kinds
<1> DEFINE cats == {k.category : k \in {x \in Reports(found) : x.value = v}}
           D == IF \E c \in cats : c.destroyed THEN {c \in cats : c.destroyed} ELSE cats
           T == {c.priority : c \in D}
<1>1. cats \subseteq Kinds /\ cats # {}
  <2>1. \A k \in Reports(found) : k.category \in Kinds  BY ReportsFacts
  <2>2. PICK k \in Reports(found) : k.value = v  OBVIOUS
  <2>3. k.category \in cats  BY <2>2
  <2> QED BY <2>1, <2>3
<1>2. ChosenCategory(found, v) = CHOOSE c \in cats : \A d \in cats : d = c \/ Preferred(c, d) = c
  BY DEF ChosenCategory
<1> HIDE DEF cats
<1>3. D \subseteq cats /\ D # {}  BY <1>1
<1>4. T \subseteq Nat /\ T # {}
  <2>1. \A c \in D : c.priority \in Nat
    <3> HIDE DEF D
    <3> QED BY <1>1, <1>3, KindsOrdered
  <2> HIDE DEF D
  <2> QED BY <1>3, <2>1
<1>5. PICK n \in T : \A y \in T : n <= y
  <2> HIDE DEF T
  <2> QED BY <1>4, LeastNat
<1>6. PICK c \in D : c.priority = n  BY <1>5
<1>7. \A d \in D : c.priority <= d.priority  BY <1>5, <1>6
<1>8. ASSUME NEW d \in cats, d # c PROVE Preferred(c, d) = c
  <2>1. c \in Kinds /\ d \in Kinds  BY <1>1, <1>3
  <2>2. c.destroyed \in BOOLEAN /\ d.destroyed \in BOOLEAN /\ c.priority \in Nat /\ d.priority \in Nat
    BY <2>1, KindsOrdered
  <2>3. c.priority # d.priority  BY <1>8, <2>1, KindsOrdered
  <2>4. CASE c.destroyed # d.destroyed
    <3>1. c.destroyed
      <4> SUFFICES ASSUME ~c.destroyed PROVE FALSE  OBVIOUS
      <4>1. d.destroyed  BY <2>2, <2>4
      <4>2. \E x \in cats : x.destroyed  BY <4>1
      <4> QED BY <4>2
    <3> QED BY <2>4, <3>1 DEF Preferred
  <2>5. CASE c.destroyed = d.destroyed
    <3>1. d \in D  BY <2>5
    <3>2. c.priority <= d.priority  BY <1>7, <3>1
    <3>3. c.priority < d.priority  BY <2>2, <2>3, <3>2
    <3> QED BY <2>5, <3>3 DEF Preferred
  <2> QED BY <2>4, <2>5
<1>9. c \in cats /\ \A d \in cats : d = c \/ Preferred(c, d) = c  BY <1>3, <1>8
<1> HIDE DEF D, T
<1>10. ChosenCategory(found, v) \in cats  BY <1>2, <1>9, Zenon
<1> QED BY <1>1, <1>10

LEMMA ClaimsOfPass ==
    ASSUME KnownKept, registry \in Registries, NEW found, IsFiniteSet(found), found \subseteq Found
    PROVE  /\ ClaimsRanked(registry \cup DetectedClaims(found))
           /\ \A f \in found :
                /\ ClaimOf(registry \cup DetectedClaims(found), FoundValue(f))
                      \in registry \cup DetectedClaims(found)
                /\ ClaimOf(registry \cup DetectedClaims(found), FoundValue(f)).authority = "detected"
           /\ \A c \in DetectedClaims(found) : c.authority = "detected"
<1> DEFINE V == {k.value : k \in Reports(found)}
           order == SetToSeq(V)
           n == Len(order)
           Kept(v) == v \in Held(scope) \ scope.tokenOnly
           g == [i \in 1 .. n |-> Claim(10 + i, "detected",
                      {Form(order[i], Kept(order[i]) /\ WordBounded(scope, order[i]))},
                      ChosenCategory(found, order[i]))]
           D == DetectedClaims(found)
           cs == registry \cup D
<1>1. IsFiniteSet(V) /\ \A f \in found : FoundValue(f) \in V  BY ReportsFacts
<1>2. \A v \in V : ChosenCategory(found, v) \in Kinds  BY CategoryChosen
<1>3. D = {g[i] : i \in 1 .. n}  BY DEF DetectedClaims
<1> HIDE DEF V
<1>4. n \in Nat /\ (\A i \in 1 .. n : order[i] \in V) /\ \A v \in V : \E i \in 1 .. n : order[i] = v
  <2>1. /\ order \in [1 .. Cardinality(V) -> V] /\ Cardinality(V) \in Nat
        /\ Len(order) = Cardinality(V)
        /\ \A x \in V : \E i \in 1 .. Cardinality(V) : order[i] = x
    BY <1>1, SetInSequence
  <2> HIDE DEF order
  <2> QED BY <2>1
<1> HIDE DEF order, n
<1>5. \A i \in 1 .. n : /\ g[i].id = 10 + i /\ g[i].authority = "detected"
                        /\ g[i].category = ChosenCategory(found, order[i])
                        /\ \E f \in g[i].forms : f.value = order[i]
  <2> TAKE i \in 1 .. n
  <2> DEFINE x == Form(order[i], Kept(order[i]) /\ WordBounded(scope, order[i]))
  <2>1. x.value = order[i]  BY DEF Form
  <2>2. g[i] = Claim(10 + i, "detected", {x}, ChosenCategory(found, order[i]))  OBVIOUS
  <2> HIDE DEF x, g
  <2>3. /\ g[i].id = 10 + i /\ g[i].authority = "detected"
        /\ g[i].category = ChosenCategory(found, order[i]) /\ g[i].forms = {x}
    BY <2>2 DEF Claim
  <2> QED BY <2>1, <2>3
<1> HIDE DEF g, D
<1>6. /\ IsFiniteSet(registry)
      /\ \A c \in registry : c.authority = "registry" /\ c.category = Registered /\ c.id \in 0 .. 10
      /\ \A c, d \in registry : c.id = d.id => c = d
  BY BodyTextAssumption
<1>7. IsFiniteSet(D)
  <2>1. IsFiniteSet(1 .. n)  BY <1>4, FS_Interval
  <2> QED BY <1>3, <2>1, ImageFinite
<1>8. IsFiniteSet(cs)  BY <1>6, <1>7, FS_Union
<1>9. ASSUME NEW c \in cs
      PROVE  /\ c.authority \in {"registry", "detected"} /\ c.id \in Int /\ c.category \in Kinds
             /\ c \in D => c.id > 10
             /\ c \in registry => c.id <= 10
  <2>1. ASSUME c \in registry PROVE c.authority = "registry" /\ c.category = Registered /\ c.id \in 0 .. 10
    BY <1>6, <2>1
  <2>2. ASSUME c \in D PROVE c.authority = "detected" /\ c.category \in Kinds /\ c.id \in Int /\ c.id > 10
    <3>1. PICK i \in 1 .. n : c = g[i]  BY <1>3, <2>2
    <3>2. c.authority = "detected" /\ c.category \in Kinds /\ c.id = 10 + i  BY <1>2, <1>4, <1>5, <3>1
    <3> QED BY <1>4, <3>2
  <2>3. Registered \in Kinds  BY DEF Kinds
  <2>4. CASE c \in registry
    <3>1. c.id \in Int /\ c.id <= 10  BY <2>1, <2>4
    <3>2. c \notin D  BY <2>2, <3>1
    <3> QED BY <2>1, <2>3, <2>4, <3>1, <3>2
  <2>5. CASE c \in D
    <3>1. c \notin registry
      <4> SUFFICES ASSUME c \in registry PROVE FALSE  OBVIOUS
      <4>1. c.id \in Int /\ c.id <= 10  BY <2>1
      <4> QED BY <2>2, <2>5, <4>1
    <3> QED BY <2>2, <2>5, <3>1
  <2> QED BY <2>4, <2>5
<1>10. ASSUME NEW c \in cs, NEW d \in cs, c.id = d.id PROVE c = d
  <2>1. CASE c \in registry /\ d \in registry  BY <1>6, <1>10, <2>1
  <2>2. CASE c \in D /\ d \in D
    <3>1. PICK i \in 1 .. n : c = g[i]  BY <1>3, <2>2
    <3>2. PICK j \in 1 .. n : d = g[j]  BY <1>3, <2>2
    <3>3. 10 + i = 10 + j  BY <1>5, <1>10, <3>1, <3>2
    <3>4. i = j  BY <1>4, <3>3
    <3> QED BY <3>1, <3>2, <3>4
  <2>3. ~(c \in registry /\ d \in D) /\ ~(c \in D /\ d \in registry)
    <3>1. c.id \in Int /\ d.id \in Int  BY <1>9
    <3>2. (c \in D => c.id > 10) /\ (c \in registry => c.id <= 10)  BY <1>9
    <3>3. (d \in D => d.id > 10) /\ (d \in registry => d.id <= 10)  BY <1>9
    <3> QED BY <1>10, <3>1, <3>2, <3>3
  <2> QED BY <2>1, <2>2, <2>3
<1>11. ClaimsRanked(cs)
  <2>1. \A c \in cs : c.category.confidence \in Int  BY <1>9, KindsOrdered
  <2> HIDE DEF cs
  <2> QED BY <1>8, <1>9, <1>10, <2>1 DEF ClaimsRanked, Kinds
<1>12. ASSUME NEW f \in found
       PROVE  ClaimOf(cs, FoundValue(f)) \in cs /\ ClaimOf(cs, FoundValue(f)).authority = "detected"
  <2>1. PICK i \in 1 .. n : order[i] = FoundValue(f)  BY <1>1, <1>4
  <2>2. g[i] \in cs  BY <1>3
  <2>3. g[i].authority = "detected" /\ \E x \in g[i].forms : x.value = FoundValue(f)  BY <1>5, <2>1
  <2> HIDE DEF cs
  <2> QED BY <2>2, <2>3 DEF ClaimOf
<1>13. \A c \in D : c.authority = "detected"  BY <1>3, <1>5
<1> QED BY <1>11, <1>12, <1>13 DEF D

-----------------------------------------------------------------------------
(* Every claim is owned                                                      *)

(* What the phases of a pass rest on: the claims can be ranked and every     *)
(* occurrence lies in the body.                                              *)
OccsKept ==
    /\ phase \in {"detect", "resolve", "splice", "gate", "done", "text"}
    /\ registry \in Registries
    /\ AreLeaves(body)
    /\ phase # "text" => KnownKept
    /\ phase \in {"resolve", "splice"} => ClaimsRanked(claims) /\ occs \subseteq OccsIn(body, claims)
    /\ phase = "splice" => winners = ResolveOccurrences(body, occs)
    /\ phase \in {"gate", "done"} => AreLeaves(out)

LEMMA SeqsAreLeaves ==
    ASSUME NEW S, NEW ls \in Seq(Seq(S))
    PROVE  AreLeaves(ls)
<1>1. Len(ls) \in Nat /\ \A l \in 1 .. Len(ls) : ls[l] \in Seq(S)  OBVIOUS
<1>2. \A l \in 1 .. Len(ls) : Len(ls[l]) \in Nat  BY <1>1
<1> QED BY <1>1, <1>2 DEF AreLeaves

LEMMA InitOccs == Init => OccsKept
<1> SUFFICES ASSUME Init PROVE OccsKept  OBVIOUS
<1>1. body \in Seq(Seq(Seq(STRING)))  BY BodyTextAssumption DEF Init
<1>2. AreLeaves(body)
  <2> DEFINE U == Seq(STRING)
  <2>1. body \in Seq(Seq(U))  BY <1>1
  <2> HIDE DEF U
  <2> QED BY <2>1, SeqsAreLeaves
<1>3. KnownKept
  <2>1. scope.known = {}  BY DEF Init, NoScope
  <2> QED BY <2>1, FS_EmptySet DEF KnownKept
<1> QED BY <1>2, <1>3 DEF Init, OccsKept

LEMMA RememberedKept ==
    ASSUME NEW known, IsFiniteSet(known), \A k \in known : k.category \in Kinds,
           NEW items, IsFiniteSet(items), \A k \in items : k.category \in Kinds
    PROVE  /\ IsFiniteSet(Remembered(known, items))
           /\ \A k \in Remembered(known, items) : k.category \in Kinds
<1> DEFINE fresh == {k \in items : \A x \in known : x.value # k.value}
<1>1. Remembered(known, items) = known \cup fresh  BY DEF Remembered
<1>2. fresh \subseteq items  OBVIOUS
<1> HIDE DEF fresh
<1>3. IsFiniteSet(fresh)  BY <1>2, FS_Subset
<1>4. IsFiniteSet(known \cup fresh)  BY <1>3, FS_Union
<1> QED BY <1>1, <1>2, <1>4

LEMMA PlacedInBody ==
    ASSUME OccsKept, KnownKept, NEW found, IsFiniteSet(found), found \subseteq Found,
           NEW cs, cs = registry \cup DetectedClaims(found)
    PROVE  /\ ClaimsRanked(cs)
           /\ Admissible(body, Placed(found, cs) \cup Expanded(body, cs)) \subseteq OccsIn(body, cs)
<1>1. /\ ClaimsRanked(cs)
      /\ \A f \in found : ClaimOf(cs, FoundValue(f)) \in cs
  <2>1. registry \in Registries  BY DEF OccsKept
  <2>2. /\ ClaimsRanked(registry \cup DetectedClaims(found))
        /\ \A f \in found : ClaimOf(registry \cup DetectedClaims(found), FoundValue(f))
                               \in registry \cup DetectedClaims(found)
    BY <2>1, ClaimsOfPass
  <2> QED BY <2>2
<1>2. AreLeaves(body)  BY DEF OccsKept
<1>3. ASSUME NEW o \in Placed(found, cs) PROVE o \in OccsIn(body, cs)
  <2>1. PICK f \in found : LET c == ClaimOf(cs, FoundValue(f))
                           IN  o \in IF f.exact THEN Exact(body, c) ELSE Mapped(body, f.at, c)
    BY DEF Placed
  <2> DEFINE c == ClaimOf(cs, FoundValue(f))
  <2>2. o \in Exact(body, c) \/ o \in Mapped(body, f.at, c)  BY <2>1
  <2>3. c \in cs  BY <1>1
  <2>4. f.at \in Stretches(body)  BY DEF Found
  <2> HIDE DEF c
  <2>5. Exact(body, c) \subseteq OccsIn(body, cs)  BY <1>2, <2>3, ExactPlaced
  <2>6. Mapped(body, f.at, c) \subseteq OccsIn(body, cs)  BY <1>2, <2>3, <2>4, MappedPlaced
  <2> QED BY <2>2, <2>5, <2>6
<1>4. Expanded(body, cs) \subseteq OccsIn(body, cs)  BY <1>2, ExpandedPlaced
<1>5. Placed(found, cs) \cup Expanded(body, cs) \subseteq OccsIn(body, cs)  BY <1>3, <1>4
<1> QED BY <1>1, <1>2, <1>5, AdmissiblePlaced

LEMMA FoundFinite ==
    ASSUME NEW n \in Nat, NEW S, NEW found \in {{}} \cup {Range(fs) : fs \in [1 .. n -> S]}
    PROVE  IsFiniteSet(found) /\ found \subseteq S
<1>1. CASE found = {}  BY <1>1, FS_EmptySet
<1>2. CASE \E fs \in [1 .. n -> S] : found = Range(fs)
  <2>1. PICK fs \in [1 .. n -> S] : found = Range(fs)  BY <1>2
  <2>2. found = {fs[i] : i \in 1 .. n}  BY <2>1 DEF Range
  <2>3. IsFiniteSet(1 .. n)  BY FS_Interval
  <2>4. IsFiniteSet(found)  BY <2>2, <2>3, ImageFinite
  <2>5. found \subseteq S  BY <2>2
  <2> QED BY <2>4, <2>5
<1> QED BY <1>1, <1>2

LEMMA DetectKeeps ==
    ASSUME OccsKept, NEW found, IsFiniteSet(found), found \subseteq Found, Detect(found)
    PROVE  OccsKept'
<1>1. phase = "detect" /\ phase' = "resolve" /\ UNCHANGED <<body, registry>>  BY DEF Detect
<1>2. KnownKept  BY <1>1 DEF OccsKept
<1>3. /\ claims' = registry \cup DetectedClaims(found)
      /\ occs' = Admissible(body, Placed(found, claims') \cup Expanded(body, claims'))
  BY DEF Detect
<1>4. ClaimsRanked(claims') /\ occs' \subseteq OccsIn(body, claims')  BY <1>2, <1>3, PlacedInBody
<1> DEFINE K(f) == ChosenCategory(found, FoundValue(f))
           G == {g \in found : ~K(g).destroyed}
           h == [f \in G |-> [value |-> FoundValue(f), category |-> K(f)]]
           items == {[value |-> FoundValue(f), category |-> K(f)] : f \in G}
<1>5. scope' = [scope EXCEPT !.known = Remembered(@, items)]  BY DEF Detect
<1>6. IsFiniteSet(G)
  <2>1. G \subseteq found  OBVIOUS
  <2> HIDE DEF G
  <2> QED BY <2>1, FS_Subset
<1>7. IsFiniteSet(items)
  <2>1. items = {h[f] : f \in G}
    <3> HIDE DEF G, K
    <3> QED OBVIOUS
  <2> HIDE DEF items, h, G
  <2> QED BY <1>6, <2>1, ImageFinite
<1>8. \A k \in items : k.category \in Kinds
  <2>1. \A f \in found : FoundValue(f) \in {k.value : k \in Reports(found)}  BY <1>2, ReportsFacts
  <2>2. \A f \in found : K(f) \in Kinds  BY <1>2, <2>1, CategoryChosen
  <2>3. \A f \in G : f \in found  OBVIOUS
  <2> HIDE DEF K, G
  <2> QED BY <2>2, <2>3
<1> HIDE DEF items
<1>9. IsFiniteSet(Remembered(scope.known, items))
      /\ \A k \in Remembered(scope.known, items) : k.category \in Kinds
  BY <1>2, <1>7, <1>8, RememberedKept DEF KnownKept
<1>10. KnownKept'
  <2>1. scope'.known = Remembered(scope.known, items) \/ scope'.known = scope.known
    BY <1>5
  <2> QED BY <1>2, <1>9, <2>1 DEF KnownKept, Kinds
<1> QED BY <1>1, <1>4, <1>10 DEF OccsKept, AreLeaves, ClaimsRanked, OccsIn

LEMMA ResolveKeeps ==
    ASSUME OccsKept, Resolve
    PROVE  OccsKept'
<1>1. /\ phase = "resolve" /\ phase' = "splice" /\ winners' = ResolveOccurrences(body, occs)
      /\ UNCHANGED <<body, registry, claims, occs, scope, out>>
  BY DEF Resolve
<1>2. KnownKept'  BY <1>1 DEF OccsKept, KnownKept, Kinds
<1>3. ClaimsRanked(claims)' /\ (occs \subseteq OccsIn(body, claims))' /\ AreLeaves(body)'
  BY <1>1 DEF OccsKept, ClaimsRanked, OccsIn, AreLeaves
<1>4. winners' = ResolveOccurrences(body, occs)'  BY <1>1
<1> QED BY <1>1, <1>2, <1>3, <1>4 DEF OccsKept

(* What the leaves become is leaves again.                                   *)
LEMMA SpliceLeaves ==
    ASSUME AreLeaves(body),
           out' = [l \in 1 .. Len(body) |->
                      Splice(body[l], {w \in winners : w.leaf = l}, LAMBDA w : Replacement(body, held, w))]
    PROVE  AreLeaves(out')
<1> DEFINE Ws(l) == {w \in winners : w.leaf = l}
           Marked(l, p) == Replacement(body, held, CHOOSE w \in Ws(l) : p = w.from)
           Part(l, p) == IF \E w \in Ws(l) : p = w.from THEN <<Marked(l, p)>>
                         ELSE IF \E w \in Ws(l) : w.from < p /\ p <= w.to THEN <<>>
                         ELSE <<body[l][p]>>
           parts(l) == [p \in 1 .. Len(body[l]) |-> Part(l, p)]
           new == [l \in 1 .. Len(body) |-> FlattenSeq(parts(l))]
<1>1. out' = new  BY DEF Splice
<1>2. ASSUME NEW l \in 1 .. Len(body) PROVE Len(FlattenSeq(parts(l))) \in Nat
  <2> DEFINE S == {Marked(l, p) : p \in 1 .. Len(body[l])} \cup {body[l][p] : p \in 1 .. Len(body[l])}
             n == Len(body[l])
  <2>1. n \in Nat  BY DEF AreLeaves
  <2>2. ASSUME NEW p \in 1 .. n PROVE Part(l, p) \in Seq(S)
    <3> DEFINE a == Marked(l, p)
               b == body[l][p]
    <3>1. a \in S /\ b \in S  OBVIOUS
    <3>2. Part(l, p) = <<a>> \/ Part(l, p) = <<>> \/ Part(l, p) = <<b>>
      <4> HIDE DEF S
      <4> QED OBVIOUS
    <3> HIDE DEF a, b, S, Part
    <3>3. <<a>> \in Seq(S) /\ <<b>> \in Seq(S) /\ <<>> \in Seq(S)  BY <3>1
    <3> QED BY <3>2, <3>3
  <2> HIDE DEF S, Part
  <2>3. parts(l) \in [1 .. n -> Seq(S)]  BY <2>2
  <2>4. parts(l) \in Seq(Seq(S))
    <3> HIDE DEF parts, n
    <3> QED BY <2>1, <2>3
  <2> HIDE DEF parts
  <2>5. FlattenSeq(parts(l)) \in Seq(S)  BY <2>4, FlattenType
  <2> QED BY <2>5
<1>3. Len(body) \in Nat  BY DEF AreLeaves
<1> HIDE DEF parts, Part
<1>4. Len(new) = Len(body) /\ \A l \in 1 .. Len(body) : new[l] = FlattenSeq(parts(l))  BY <1>3
<1> HIDE DEF new
<1> QED BY <1>1, <1>2, <1>3, <1>4 DEF AreLeaves

LEMMA SpliceKeeps ==
    ASSUME OccsKept, SpliceAll
    PROVE  OccsKept'
<1>1. /\ phase = "splice" /\ phase' = "gate" /\ scope' = Render(scope)
      /\ UNCHANGED <<body, registry>>
  BY DEF SpliceAll
<1>2. /\ KnownKept /\ AreLeaves(body) /\ ClaimsRanked(claims) /\ occs \subseteq OccsIn(body, claims)
      /\ winners = ResolveOccurrences(body, occs)
  BY <1>1 DEF OccsKept
<1>3. AreLeaves(out')
  <2>1. out' = [l \in 1 .. Len(body) |->
                   Splice(body[l], {w \in winners : w.leaf = l}, LAMBDA w : Replacement(body, held, w))]
    BY DEF SpliceAll
  <2> QED BY <1>2, <2>1, SpliceLeaves
<1>4. IsFiniteSet(occs)
  <2>1. IsFiniteSet(OccsIn(body, claims))  BY <1>2, OccsFinite DEF ClaimsRanked
  <2> QED BY <1>2, <2>1, FS_Subset
<1>5. IsFiniteSet(winners) /\ \A w \in winners : w.source \in occs  BY <1>2, <1>4, WinnersOfOccs
<1> DEFINE f == [w \in KeptWinners |-> [value |-> SurfaceIn(body, w), category |-> w.source.claim.category]]
           items == {[value |-> SurfaceIn(body, w), category |-> w.source.claim.category] : w \in KeptWinners}
<1>6. IsFiniteSet(items)
  <2>1. KeptWinners \subseteq winners  BY DEF KeptWinners
  <2>2. IsFiniteSet(KeptWinners)  BY <1>5, <2>1, FS_Subset
  <2>3. items = {f[w] : w \in KeptWinners}  OBVIOUS
  <2> HIDE DEF items, f
  <2> QED BY <2>2, <2>3, ImageFinite
<1>7. \A k \in items : k.category \in Kinds
  <2>1. \A w \in KeptWinners : w.source \in occs  BY <1>5 DEF KeptWinners
  <2>2. \A o \in occs : o.claim \in claims  BY <1>2 DEF OccsIn
  <2>3. \A c \in claims : c.category \in Kinds  BY <1>2 DEF ClaimsRanked, Kinds
  <2>4. \A w \in KeptWinners : w.source.claim.category \in Kinds  BY <2>1, <2>2, <2>3
  <2> QED BY <2>4
<1>8. Render(scope).known = Remembered(scope.known, items)  BY DEF Render
<1> HIDE DEF items
<1>9. IsFiniteSet(Remembered(scope.known, items))
      /\ \A k \in Remembered(scope.known, items) : k.category \in Kinds
  BY <1>2, <1>6, <1>7, RememberedKept DEF KnownKept
<1>10. KnownKept'  BY <1>1, <1>8, <1>9 DEF KnownKept, Kinds
<1> QED BY <1>1, <1>2, <1>3, <1>10 DEF OccsKept, AreLeaves

LEMMA RestKeeps ==
    ASSUME OccsKept, Gate \/ Resend \/ (\E found, preserve : RedactText(found, preserve)) \/ UNCHANGED vars
    PROVE  OccsKept'
<1>1. CASE Gate
  <2>1. phase = "gate" /\ phase' = "done" /\ UNCHANGED <<body, registry, scope, out>>  BY <1>1 DEF Gate
  <2> QED BY <2>1 DEF OccsKept, KnownKept, Kinds, AreLeaves
<1>2. CASE Resend
  <2>1. phase = "done" /\ phase' = "detect" /\ body' = out /\ UNCHANGED <<registry, scope>>  BY <1>2 DEF Resend
  <2> QED BY <2>1 DEF OccsKept, KnownKept, Kinds, AreLeaves
<1>3. CASE \E found, preserve : RedactText(found, preserve)
  <2>1. phase' = "text" /\ UNCHANGED <<body, registry>>  BY <1>3 DEF RedactText
  <2> QED BY <2>1 DEF OccsKept, AreLeaves
<1>4. CASE UNCHANGED vars
  <2>1. UNCHANGED <<phase, body, registry, claims, occs, winners, scope, out>>  BY <1>4 DEF vars
  <2> QED BY <2>1 DEF OccsKept, KnownKept, Kinds, AreLeaves, ClaimsRanked, OccsIn
<1> QED BY <1>1, <1>2, <1>3, <1>4

LEMMA OccsKeptStep == OccsKept /\ [Next]_vars => OccsKept'
<1> SUFFICES ASSUME OccsKept, [Next]_vars PROVE OccsKept'  OBVIOUS
<1>1. CASE Pass
  <2>1. PICK n \in {Findings[IF first = <<>> THEN 1 ELSE 2]} :
           \/ \E found \in {{}} \cup {Range(fs) : fs \in [1 .. n -> Found]} : Detect(found)
           \/ \E found \in {{}} \cup {Range(fs) : fs \in [1 .. n -> TextFound]}, preserve \in BOOLEAN :
                  RedactText(found, preserve)
    BY <1>1, Zenon DEF Pass
  <2>2. n \in Nat
    <3>1. \A pass \in 1 .. 2 : Findings[pass] \in Nat  BY Zenon, BodyTextAssumption
    <3> QED BY <3>1
  <2>3. CASE \E found \in {{}} \cup {Range(fs) : fs \in [1 .. n -> Found]} : Detect(found)
    <3>1. PICK found \in {{}} \cup {Range(fs) : fs \in [1 .. n -> Found]} : Detect(found)  BY <2>3
    <3>2. IsFiniteSet(found) /\ found \subseteq Found  BY <2>2, FoundFinite
    <3> QED BY <3>1, <3>2, DetectKeeps
  <2>4. CASE \E found \in {{}} \cup {Range(fs) : fs \in [1 .. n -> TextFound]}, preserve \in BOOLEAN :
                RedactText(found, preserve)
    <3>1. \E found, preserve : RedactText(found, preserve)  BY <2>4
    <3> QED BY <3>1, RestKeeps
  <2> QED BY <2>1, <2>3, <2>4
<1>2. CASE Resolve  BY <1>2, ResolveKeeps
<1>3. CASE SpliceAll  BY <1>3, SpliceKeeps
<1>4. CASE Gate \/ Resend \/ UNCHANGED vars  BY <1>4, RestKeeps
<1> QED BY <1>1, <1>2, <1>3, <1>4 DEF Next

LEMMA OwnedWhenKept == OccsKept => EveryClaimOwned
<1> SUFFICES ASSUME OccsKept, phase = "splice" PROVE ResolvedOnce(body, occs, winners)
  BY DEF EveryClaimOwned, ResolvedOnce
<1>1. /\ AreLeaves(body) /\ ClaimsRanked(claims) /\ occs \subseteq OccsIn(body, claims)
      /\ winners = ResolveOccurrences(body, occs)
  BY DEF OccsKept
<1>2. IsFiniteSet(occs)
  <2>1. IsFiniteSet(OccsIn(body, claims))  BY <1>1, OccsFinite DEF ClaimsRanked
  <2> QED BY <1>1, <2>1, FS_Subset
<1> QED BY <1>1, <1>2, ResolvesOnce

(* EveryClaimOwned: for any bodies, registries, categories and findings, and *)
(* for a body sent a second time, the winners of resolveOccurrences never    *)
(* overlap, and every character an admissible claim covers, blanks apart,    *)
(* belongs to the claim that ranks first among those over that character.    *)
THEOREM EveryClaimIsOwned == Spec => []EveryClaimOwned
<1>1. Spec => []OccsKept
  BY InitOccs, OccsKeptStep, PTL DEF Spec
<1> QED BY <1>1, OwnedWhenKept, PTL

-----------------------------------------------------------------------------
(* What was written once                                                     *)

Clear(ls, o) == \A p \in o.from .. o.to : ~Written(ls[o.leaf][p])
Unmarked(value) == Len(value) \in Nat /\ \A k \in 1 .. Len(value) : value[k] # Marker

LEMMA OneUnit ==
    /\ Marker # Space /\ ~IsSpace(Marker) /\ ~IsToken(Marker) /\ Lower(Marker) = Marker
    /\ \A u : Lower(u) = Marker => u = Marker
<1>1. <<"[REDACTED]">> # <<" ">> /\ <<"[REDACTED]">> # <<"\n">> /\ <<"[REDACTED]">> # <<"a">>
      /\ <<"[REDACTED]">> # <<"b">> /\ <<"[REDACTED]">> # <<"A">> /\ <<"[REDACTED]">> # <<"B">>
      /\ <<"[REDACTED]">>[1] # "FICTA"
  <2>1. /\ <<"[REDACTED]">>[1] = "[REDACTED]" /\ <<" ">>[1] = " " /\ <<"\n">>[1] = "\n"
        /\ <<"a">>[1] = "a" /\ <<"b">>[1] = "b" /\ <<"A">>[1] = "A" /\ <<"B">>[1] = "B"
    OBVIOUS
  <2> QED BY <2>1
<1> QED BY <1>1 DEF Marker, Space, NewLine, IsSpace, IsToken, Lower

(* A form without a marker reads like no text with one.                      *)
LEMMA AsFormUnmarked ==
    ASSUME NEW value, Unmarked(value)
    PROVE  Unmarked(AsForm(value))
<1> DEFINE S == {p \in 1 .. Len(value) : ~IsSpace(value[p]) \/ p = 1 \/ ~IsSpace(value[p - 1])}
           kept == Ascending(S)
<1>1. Len(value) \in Nat /\ \A k \in 1 .. Len(value) : value[k] # Marker  BY DEF Unmarked
<1>2. S \subseteq 1 .. Len(value)  OBVIOUS
<1>3. AsForm(value) = [i \in 1 .. Len(kept) |-> IF IsSpace(value[kept[i]]) THEN Space ELSE value[kept[i]]]
  BY DEF AsForm
<1> HIDE DEF S
<1>4. S \subseteq Int /\ IsFiniteSet(S)
  <2>1. IsFiniteSet(1 .. Len(value))  BY <1>1, FS_Interval
  <2>2. 1 .. Len(value) \subseteq Int  OBVIOUS
  <2> QED BY <1>2, <2>1, <2>2, FS_Subset
<1>5. Len(kept) \in Nat /\ \A i \in 1 .. Len(kept) : kept[i] \in S
  <2>1. /\ Cardinality(S) \in Nat /\ Len(kept) = Cardinality(S)
        /\ \A i \in 1 .. Cardinality(S) : kept[i] \in S
    BY <1>4, Ascends
  <2> HIDE DEF kept
  <2> QED BY <2>1
<1> HIDE DEF kept
<1>6. \A i \in 1 .. Len(kept) : value[kept[i]] # Marker  BY <1>1, <1>2, <1>5
<1>7. Len(AsForm(value)) = Len(kept)  BY <1>3, <1>5
<1>8. \A i \in 1 .. Len(kept) : AsForm(value)[i] # Marker  BY <1>3, <1>6, OneUnit
<1> QED BY <1>5, <1>7, <1>8 DEF Unmarked

LEMMA SqueezedMarker ==
    ASSUME NEW s, Len(s) \in Nat, NEW p \in 1 .. Len(s), s[p] = Marker
    PROVE  Len(Squeezed(s)) \in Nat /\ \E k \in 1 .. Len(Squeezed(s)) : Squeezed(s)[k] = Marker
<1> DEFINE S == {q \in 1 .. Len(s) : Reads(s, q)}
           kept == Ascending(S)
<1>1. S \subseteq 1 .. Len(s)  OBVIOUS
<1>2. p \in S
  <2>1. Reads(s, p)  BY OneUnit DEF Reads
  <2> QED BY <2>1
<1>3. Squeezed(s) = [i \in 1 .. Len(kept) |-> IF IsSpace(s[kept[i]]) THEN Space ELSE s[kept[i]]]
  BY DEF Squeezed
<1> HIDE DEF S
<1>4. S \subseteq Int /\ IsFiniteSet(S)
  <2>1. IsFiniteSet(1 .. Len(s))  BY FS_Interval
  <2>2. 1 .. Len(s) \subseteq Int  OBVIOUS
  <2> QED BY <1>1, <2>1, <2>2, FS_Subset
<1>5. Len(kept) \in Nat /\ \E k \in 1 .. Len(kept) : kept[k] = p
  <2>1. /\ Cardinality(S) \in Nat /\ Len(kept) = Cardinality(S)
        /\ \A x \in S : \E k \in 1 .. Cardinality(S) : kept[k] = x
    BY <1>4, Ascends
  <2> HIDE DEF kept
  <2> QED BY <1>2, <2>1
<1> HIDE DEF kept
<1>6. PICK k \in 1 .. Len(kept) : kept[k] = p  BY <1>5
<1>7. Squeezed(s)[k] = Marker  BY <1>3, <1>6, OneUnit
<1>8. Len(Squeezed(s)) = Len(kept)  BY <1>3, <1>5
<1> QED BY <1>5, <1>6, <1>7, <1>8

LEMMA NoMarkerRead ==
    ASSUME NEW s, Len(s) \in Nat, NEW form, Unmarked(form), NEW anyCase, Same(s, form, anyCase), NEW p \in 1 .. Len(s)
    PROVE  s[p] # Marker
<1> SUFFICES ASSUME s[p] = Marker PROVE FALSE  OBVIOUS
<1> DEFINE z == Squeezed(s)
<1>1. Len(z) \in Nat /\ \E k \in 1 .. Len(z) : z[k] = Marker  BY SqueezedMarker
<1> HIDE DEF z
<1>2. PICK k \in 1 .. Len(z) : z[k] = Marker  BY <1>1
<1>3. Len(form) \in Nat /\ \A i \in 1 .. Len(form) : form[i] # Marker  BY DEF Unmarked
<1>4. z = form \/ Folded(z) = Folded(form)  BY DEF Same, z
<1>5. CASE z = form  BY <1>2, <1>3, <1>5
<1>6. CASE Folded(z) = Folded(form)
  <2>1. Folded(z) = [i \in 1 .. Len(z) |-> Lower(z[i])] /\ Folded(form) = [i \in 1 .. Len(form) |-> Lower(form[i])]
    BY DEF Folded
  <2>2. Len(Folded(z)) = Len(z) /\ Len(Folded(form)) = Len(form)  BY <1>1, <1>3, <2>1
  <2>3. k \in 1 .. Len(form)  BY <1>6, <2>2
  <2>4. Folded(z)[k] = Lower(z[k]) /\ Folded(form)[k] = Lower(form[k])  BY <2>1, <2>3
  <2>5. Lower(form[k]) = Marker  BY <1>2, <1>6, <2>4, OneUnit
  <2> QED BY <1>3, <2>3, <2>5, OneUnit
<1> QED BY <1>4, <1>5, <1>6

LEMMA SpansUnmarked ==
    ASSUME NEW text, Len(text) \in Nat, NEW value, Unmarked(value), NEW anyCase, NEW wordBounded,
           NEW m \in ExpansionSpans(text, value, anyCase, wordBounded), NEW p \in m[1] .. m[2]
    PROVE  text[p] # Marker
<1> DEFINE i == m[1]
           j == m[2]
           s == SubSeq(text, i, j)
           q == p - i + 1
<1>1. m \in Within(Len(text)) /\ j \in EndsAt(text, value, anyCase, i)  BY SpansWithin
<1>2. i \in 1 .. Len(text) /\ j \in 1 .. Len(text) /\ i <= j  BY <1>1 DEF Within
<1>3. Same(s, AsForm(value), anyCase)  BY <1>1 DEF EndsAt
<1> HIDE DEF i, j
<1>4. p \in i .. j  BY DEF i, j
<1>5. Len(s) = j - i + 1 /\ q \in 1 .. Len(s) /\ s[q] = text[p] /\ Len(s) \in Nat  BY <1>2, <1>4
<1> HIDE DEF s, q
<1>6. Unmarked(AsForm(value))  BY AsFormUnmarked
<1>7. s[q] # Marker  BY <1>3, <1>5, <1>6, NoMarkerRead
<1> QED BY <1>5, <1>7

(* What outsideDestroyMarkers lets through has no marker in it, and what     *)
(* isRedactableRange lets through no token.                                  *)
LEMMA OutsideMarkersClear ==
    ASSUME NEW ls, AreLeaves(ls), NEW cs, NEW o \in OccsIn(ls, cs), NEW y \in OutsideMarkers(ls, o),
           o.claim.authority # "detected" => \A p \in o.from .. o.to : ls[o.leaf][p] # Marker
    PROVE  \A p \in y.from .. y.to : ls[y.leaf][p] # Marker
<1> DEFINE marks == {p \in o.from .. o.to : ls[o.leaf][p] = Marker}
           S == marks \cup {o.from - 1, o.to + 1}
           cuts == Ascending(S)
           gaps == {<<cuts[i] + 1, cuts[i + 1] - 1>> : i \in 1 .. Len(cuts) - 1}
           all == UNION {Trim(ls, o.leaf, g) : g \in {x \in gaps : x[1] <= x[2]}}
<1>1. OutsideMarkers(ls, o) =
        IF o.claim.authority # "detected" \/ marks = {} THEN {o}
        ELSE {[o EXCEPT !.from = m[1], !.to = m[2], !.origin = "clipped"] : m \in all}
  BY DEF OutsideMarkers
<1>2. /\ o \in [leaf : 1 .. Len(ls), from : Nat, to : Nat, claim : cs, origin : Origins]
      /\ o.from \in Nat /\ o.to \in Nat /\ o.from <= o.to
  BY DEF OccsIn
<1>3. \/ y = o /\ (o.claim.authority # "detected" \/ marks = {})
      \/ \E m \in all : y = [o EXCEPT !.from = m[1], !.to = m[2], !.origin = "clipped"]
  <2> HIDE DEF marks, all
  <2> QED BY <1>1
<1>4. \A p \in o.from .. o.to : ls[o.leaf][p] = Marker => p \in marks  OBVIOUS
<1>5. CASE y = o /\ (o.claim.authority # "detected" \/ marks = {})
  <2> HIDE DEF marks
  <2> QED BY <1>4, <1>5
<1>6. CASE \E m \in all : y = [o EXCEPT !.from = m[1], !.to = m[2], !.origin = "clipped"]
  <2>1. PICK m \in all : y = [o EXCEPT !.from = m[1], !.to = m[2], !.origin = "clipped"]
    <3> HIDE DEF all
    <3> QED BY <1>6
  <2>2. PICK i \in 1 .. Len(cuts) - 1 : m \in Trim(ls, o.leaf, <<cuts[i] + 1, cuts[i + 1] - 1>>)  OBVIOUS
  <2>3. y.from = m[1] /\ y.to = m[2] /\ y.leaf = o.leaf
    <3> HIDE DEF all, cuts
    <3> QED BY <1>2, <2>1
  <2>4. \A p \in marks : p \in S  OBVIOUS
  <2>5. marks \subseteq o.from .. o.to  OBVIOUS
  <2>6. \A x \in S : x \in marks \/ x = o.from - 1 \/ x = o.to + 1
    <3> HIDE DEF marks
    <3> QED OBVIOUS
  <2> HIDE DEF S, marks
  <2>7. ASSUME NEW x \in S PROVE x \in Int /\ o.from - 1 <= x /\ x <= o.to + 1
    <3>1. CASE x \in o.from .. o.to  BY <3>1, <1>2
    <3>2. CASE x = o.from - 1  BY <3>2, <1>2
    <3>3. CASE x = o.to + 1  BY <3>3, <1>2
    <3> QED BY <2>5, <2>6, <3>1, <3>2, <3>3
  <2>a. S \subseteq Int /\ IsFiniteSet(S)
    <3>1. IsFiniteSet(o.from - 1 .. o.to + 1)  BY <1>2, FS_Interval
    <3>2. S \subseteq o.from - 1 .. o.to + 1  BY <2>7
    <3>3. IsFiniteSet(S)  BY <3>1, <3>2, FS_Subset
    <3> QED BY <2>7, <3>3
  <2> HIDE DEF S
  <2>8. /\ Len(cuts) \in Nat
        /\ \A k \in 1 .. Len(cuts) : cuts[k] \in S
        /\ \A k, j \in 1 .. Len(cuts) : k < j => cuts[k] < cuts[j]
        /\ \A x \in S : \E k \in 1 .. Len(cuts) : cuts[k] = x
    <3>1. /\ Cardinality(S) \in Nat /\ Len(cuts) = Cardinality(S)
          /\ \A k \in 1 .. Cardinality(S) : cuts[k] \in S
          /\ \A k, j \in 1 .. Cardinality(S) : k < j => cuts[k] < cuts[j]
          /\ \A x \in S : \E k \in 1 .. Cardinality(S) : cuts[k] = x
      BY <2>a, Ascends
    <3> HIDE DEF cuts
    <3> QED BY <3>1
  <2> HIDE DEF cuts
  <2>9. i \in 1 .. Len(cuts) /\ i + 1 \in 1 .. Len(cuts)  BY <2>8
  <2>10. cuts[i] \in Int /\ cuts[i + 1] \in Int /\ o.from - 1 <= cuts[i] /\ cuts[i + 1] <= o.to + 1
    BY <2>7, <2>8, <2>9
  <2> DEFINE a == cuts[i] + 1
             b == cuts[i + 1] - 1
  <2>11. a \in Int /\ b \in Int /\ m \in Trim(ls, o.leaf, <<a, b>>)  BY <2>2, <2>10
  <2> HIDE DEF a, b
  <2>12. m[1] \in Int /\ m[2] \in Int /\ a <= m[1] /\ m[2] <= b  BY <2>11, TrimFacts
  <2> SUFFICES ASSUME NEW p \in m[1] .. m[2], ls[o.leaf][p] = Marker PROVE FALSE  BY <2>3
  <2>13. p \in Int /\ cuts[i] < p /\ p < cuts[i + 1]  BY <2>10, <2>12 DEF a, b
  <2>14. p \in o.from .. o.to  BY <1>2, <2>10, <2>13
  <2>15. p \in S  BY <1>4, <2>4, <2>14
  <2>16. PICK k \in 1 .. Len(cuts) : cuts[k] = p  BY <2>8, <2>15
  <2>17. k < i \/ k = i \/ k = i + 1 \/ i + 1 < k  BY <2>9
  <2>18. k < i => cuts[k] < cuts[i]  BY <2>8, <2>9
  <2>19. i + 1 < k => cuts[i + 1] < cuts[k]  BY <2>8, <2>9
  <2> QED BY <2>10, <2>13, <2>16, <2>17, <2>18, <2>19
<1> QED BY <1>3, <1>5, <1>6

LEMMA AdmissibleClear ==
    ASSUME NEW ls, AreLeaves(ls), NEW cs, NEW os, os \subseteq OccsIn(ls, cs),
           \A o \in os : o.claim.authority # "detected" => \A p \in o.from .. o.to : ls[o.leaf][p] # Marker,
           NEW y \in Admissible(ls, os)
    PROVE  Clear(ls, y)
<1>1. PICK o \in os : y \in OutsideMarkers(ls, o)  BY DEF Admissible
<1>2. \A p \in y.from .. y.to : ls[y.leaf][p] # Marker  BY <1>1, OutsideMarkersClear
<1>3. Redactable(ls[y.leaf], Span(y), TRUE)  BY DEF Admissible
<1>4. ~Exempt(ls[y.leaf], Span(y)) /\ Span(y)[1] = y.from /\ Span(y)[2] = y.to  BY <1>3 DEF Redactable, Span
<1>5. \A p \in y.from .. y.to : ~IsToken(ls[y.leaf][p])  BY <1>4 DEF Exempt, InTokenShape
<1> QED BY <1>2, <1>5 DEF Clear, Written

(* What a pass over the body finds.                                          *)
LEMMA FoundIsClear ==
    ASSUME OccsKept, KnownKept, NEW found, IsFiniteSet(found), found \subseteq Found,
           NEW cs, cs = registry \cup DetectedClaims(found),
           NEW y \in Admissible(body, Placed(found, cs) \cup Expanded(body, cs))
    PROVE  Clear(body, y)
<1> DEFINE os == Placed(found, cs) \cup Expanded(body, cs)
<1>1. registry \in Registries /\ AreLeaves(body)  BY DEF OccsKept
<1>2. /\ \A f \in found : ClaimOf(cs, FoundValue(f)) \in cs /\ ClaimOf(cs, FoundValue(f)).authority = "detected"
      /\ \A c \in cs : c.authority # "detected" => c \in registry
  <2>1. /\ \A f \in found :
                /\ ClaimOf(registry \cup DetectedClaims(found), FoundValue(f))
                      \in registry \cup DetectedClaims(found)
                /\ ClaimOf(registry \cup DetectedClaims(found), FoundValue(f)).authority = "detected"
        /\ \A c \in DetectedClaims(found) : c.authority = "detected"
    BY <1>1, ClaimsOfPass
  <2> QED BY <2>1
<1>3. \A c \in registry : \A f \in c.forms : Unmarked(f.value)  BY <1>1, BodyTextAssumption DEF Unmarked
<1>4. ASSUME NEW o \in Placed(found, cs) PROVE o \in OccsIn(body, cs) /\ o.claim.authority = "detected"
  <2>1. PICK f \in found : LET c == ClaimOf(cs, FoundValue(f))
                           IN  o \in IF f.exact THEN Exact(body, c) ELSE Mapped(body, f.at, c)
    BY DEF Placed
  <2> DEFINE c == ClaimOf(cs, FoundValue(f))
  <2>2. o \in Exact(body, c) \/ o \in Mapped(body, f.at, c)  BY <2>1
  <2>3. c \in cs /\ c.authority = "detected"  BY <1>2
  <2>4. f.at \in Stretches(body)  BY DEF Found
  <2> HIDE DEF c
  <2>5. Exact(body, c) \subseteq OccsIn(body, cs)  BY <1>1, <2>3, ExactPlaced
  <2>6. Mapped(body, f.at, c) \subseteq OccsIn(body, cs)  BY <1>1, <2>3, <2>4, MappedPlaced
  <2>7. o.claim = c
    <3>1. CASE o \in Exact(body, c)
      <4>1. PICK l \in 1 .. Len(body) :
               \E m \in UNION {ExpansionSpans(body[l], g.value, FALSE, FALSE) : g \in c.forms} :
                  o = Occ(l, m, c, "detector")
        BY <3>1 DEF Exact
      <4>2. PICK m \in UNION {ExpansionSpans(body[l], g.value, FALSE, FALSE) : g \in c.forms} :
               o = Occ(l, m, c, "detector")
        BY <4>1
      <4> QED BY <4>2 DEF Occ
    <3>2. CASE o \in Mapped(body, f.at, c)  BY <3>2 DEF Mapped, Occ
    <3> QED BY <2>2, <3>1, <3>2
  <2> QED BY <2>2, <2>3, <2>5, <2>6, <2>7
<1>5. ASSUME NEW o \in Expanded(body, cs), o.claim.authority # "detected"
      PROVE  \A p \in o.from .. o.to : body[o.leaf][p] # Marker
  <2> DEFINE SpansOf(l, c, f) ==
               ExpansionSpans(body[l], f.value, c.authority = "detected" \/ CaseExpandable(f.value), f.wordBounded)
  <2>a. PICK l \in 1 .. Len(body), c \in cs :
           \E f \in c.forms : \E m \in SpansOf(l, c, f) : o = Occ(l, m, c, "expansion")
    BY DEF Expanded
  <2>b. PICK f \in c.forms : \E m \in SpansOf(l, c, f) : o = Occ(l, m, c, "expansion")  BY <2>a
  <2>1. PICK m \in SpansOf(l, c, f) : o = Occ(l, m, c, "expansion")  BY <2>b
  <2>2. o.claim = c /\ o.leaf = l /\ o.from = m[1] /\ o.to = m[2]  BY <2>1 DEF Occ
  <2>3. Unmarked(f.value)  BY <1>2, <1>3, <1>5, <2>2
  <2>4. Len(body[l]) \in Nat  BY <1>1 DEF AreLeaves
  <2> QED BY <2>2, <2>3, <2>4, SpansUnmarked
<1>6. Expanded(body, cs) \subseteq OccsIn(body, cs)  BY <1>1, ExpandedPlaced
<1>7. os \subseteq OccsIn(body, cs)  BY <1>4, <1>6
<1>8. \A o \in os : o.claim.authority # "detected" => \A p \in o.from .. o.to : body[o.leaf][p] # Marker
  BY <1>4, <1>5
<1> HIDE DEF os
<1>9. y \in Admissible(body, os)  BY DEF os
<1> QED BY <1>1, <1>7, <1>8, <1>9, AdmissibleClear

(* A slice lies within the claim that owns it.                               *)
LEMMA SliceWithin ==
    ASSUME NEW ls, NEW cs, ClaimsRanked(cs), NEW os, os \subseteq OccsIn(ls, cs), IsFiniteSet(os),
           SameLeaf(os), NEW s \in Starts(os)
    PROVE  /\ SliceAt(os, s).source.from <= SliceAt(os, s).from
           /\ SliceAt(os, s).to <= SliceAt(os, s).source.to
<1> DEFINE e == Max(Stretch(os, s))
           b == Best(Over(os, s))
<1>1. s \in Owned(os)  BY DEF Starts
<1>2. /\ SliceAt(os, s).from \in Nat /\ SliceAt(os, s).to \in Int
      /\ SliceAt(os, s).from = Cuts(os)[s] /\ SliceAt(os, s).to + 1 = Cuts(os)[e + 1]
  BY SliceEdges
<1>3. SliceAt(os, s).source = b  BY DEF SliceAt
<1>4. e \in Owned(os) /\ s <= e /\ \A k \in s .. e : Best(Over(os, k)) = b  BY <1>1, RunFacts
<1>5. s \in Nat /\ e \in Nat  BY SliceEdges
<1> HIDE DEF e, b
<1>6. e \in s .. e  BY <1>4, <1>5
<1>7. Best(Over(os, e)) = b  BY <1>4, <1>6
<1>8. b \in Over(os, s) /\ b \in os  BY <1>1, OverRanked DEF b
<1>9. b \in Over(os, e)  BY <1>4, <1>7, OverRanked
<1>10. b.from \in Nat /\ b.to \in Nat  BY <1>8 DEF OccsIn
<1>11. b.from <= Cuts(os)[s] /\ b.to + 1 >= Cuts(os)[e + 1]  BY <1>8, <1>9 DEF Over
<1>12. b.from <= SliceAt(os, s).from  BY <1>2, <1>11
<1>13. SliceAt(os, s).to <= b.to
  <2> DEFINE t == SliceAt(os, s).to
  <2>1. t \in Int /\ t + 1 = Cuts(os)[e + 1]  BY <1>2
  <2> HIDE DEF t
  <2>2. t <= b.to  BY <1>10, <1>11, <2>1
  <2> QED BY <2>2 DEF t
<1> QED BY <1>3, <1>12, <1>13

LEMMA WinnersClear ==
    ASSUME NEW ls, NEW cs, ClaimsRanked(cs), NEW os, os \subseteq OccsIn(ls, cs), IsFiniteSet(os),
           \A o \in os : Clear(ls, o), NEW w \in ResolveOccurrences(ls, os)
    PROVE  /\ w.from \in Int /\ w.to \in Int /\ w.from <= w.to
           /\ \A p \in w.from .. w.to : ~Written(ls[w.leaf][p])
<1>1. PICK l \in {o.leaf : o \in os} : \E s \in Starts(LeafOccs(os, l)) :
         w \in Finalize(ls, SliceAt(LeafOccs(os, l), s))
  BY WinnerParts
<1>2. PICK s \in Starts(LeafOccs(os, l)) : w \in Finalize(ls, SliceAt(LeafOccs(os, l), s))  BY <1>1
<1> DEFINE here == LeafOccs(os, l)
           a == SliceAt(here, s)
<1>3. /\ here \subseteq OccsIn(ls, cs) /\ IsFiniteSet(here) /\ SameLeaf(here)
      /\ a.source \in os /\ a.source.leaf = l
      /\ a.from \in Nat /\ a.to \in Int /\ a.from <= a.to
  BY SlicesOfLeaf
<1>4. a.source.from <= a.from /\ a.to <= a.source.to
  <2>1. s \in Starts(here)  OBVIOUS
  <2> HIDE DEF here
  <2> QED BY <1>3, <2>1, SliceWithin
<1>5. w \in Finalize(ls, a)  BY <1>2
<1> HIDE DEF a, here
<1>6. /\ w.leaf = l /\ w.from \in Int /\ w.to \in Int
      /\ a.from <= w.from /\ w.from <= w.to /\ w.to <= a.to
  BY <1>3, <1>5, FinalizeFacts
<1>7. a.source.from \in Nat /\ a.source.to \in Nat /\ Clear(ls, a.source)  BY <1>3 DEF OccsIn
<1>8. ASSUME NEW p \in w.from .. w.to PROVE ~Written(ls[w.leaf][p])
  <2>1. p \in a.source.from .. a.source.to  BY <1>3, <1>4, <1>6, <1>7
  <2> QED BY <1>3, <1>6, <1>7, <2>1 DEF Clear
<1> QED BY <1>6, <1>8

(* What is put together keeps every unit that each part keeps.               *)
Where(text, u) == {q \in 1 .. Len(text) : text[q] = u}

LEMMA ConcatFacts ==
    ASSUME NEW S, NEW a \in Seq(S), NEW b \in Seq(S)
    PROVE  /\ Len(a) \in Nat /\ Len(b) \in Nat /\ Len(a \o b) = Len(a) + Len(b)
           /\ \A q \in 1 .. Len(a) : (a \o b)[q] = a[q]
           /\ Len(b) = 1 => (a \o b)[Len(a) + 1] = b[1]
OBVIOUS

LEMMA FlattenKeeps ==
    ASSUME NEW S, NEW text, NEW n \in Nat, Len(text) = n, NEW u, NEW parts \in [1 .. n -> Seq(S)],
           \A p \in 1 .. n : text[p] = u => parts[p] = <<u>>
    PROVE  Cardinality(Where(FlattenSeq(parts), u)) >= Cardinality(Where(text, u))
<1>1. PICK f \in [0 .. n -> Seq(S)] :
              /\ f[0] = <<>>
              /\ \A i \in 1 .. n : f[i] = f[i - 1] \o parts[i]
              /\ FlattenSeq(parts) = f[n]
  BY FlattenSteps
<1> DEFINE R(i) == {q \in 1 .. i : text[q] = u}
           T == {i \in Nat : i <= n => Cardinality(Where(f[i], u)) >= Cardinality(R(i))}
<1>2. \A i \in 0 .. n : Len(f[i]) \in Nat /\ f[i] \in Seq(S)  BY <1>1
<1>3. ASSUME NEW i \in 0 .. n PROVE IsFiniteSet(Where(f[i], u)) /\ IsFiniteSet(R(i))
  <2>1. IsFiniteSet(1 .. Len(f[i])) /\ IsFiniteSet(1 .. i)
    <3>1. Len(f[i]) \in Int /\ i \in Int /\ 1 \in Int  BY <1>2
    <3> QED BY <3>1, FS_Interval
  <2>2. Where(f[i], u) \subseteq 1 .. Len(f[i]) /\ R(i) \subseteq 1 .. i  BY DEF Where
  <2> HIDE DEF R
  <2> QED BY <2>1, <2>2, FS_Subset
<1>4. 0 \in T
  <2>1. 0 \in 0 .. n  OBVIOUS
  <2>2. R(0) = {}  OBVIOUS
  <2>3. Cardinality(R(0)) = 0  BY <2>2, FS_EmptySet
  <2>4. Cardinality(Where(f[0], u)) \in Nat  BY <1>3, <2>1, FS_CardinalityType
  <2> HIDE DEF R
  <2> QED BY <2>3, <2>4
<1>5. ASSUME NEW i \in Nat, i \in T PROVE i + 1 \in T
  <2> DEFINE j == i + 1
  <2>1. SUFFICES ASSUME j <= n PROVE Cardinality(Where(f[j], u)) >= Cardinality(R(j))
    <3> HIDE DEF R
    <3> QED OBVIOUS
  <2>2. j \in 1 .. n /\ i \in 0 .. n /\ j \in 0 .. n /\ j - 1 = i  BY <2>1
  <2>3. Cardinality(Where(f[i], u)) >= Cardinality(R(i))
    <3> HIDE DEF R
    <3> QED BY <1>5, <2>1
  <2>4. R(i) = R(j) \ {j}  OBVIOUS
  <2>5. j \in R(j) <=> text[j] = u  BY <2>2
  <2> HIDE DEF j, R
  <2>6. f[j] = f[i] \o parts[j] /\ parts[j] \in Seq(S) /\ f[i] \in Seq(S) /\ f[j] \in Seq(S)
    BY <1>1, <1>2, <2>2
  <2> DEFINE a == f[i]
             b == parts[j]
             c == f[j]
  <2>7. /\ Len(a) \in Nat /\ Len(b) \in Nat /\ Len(c) = Len(a) + Len(b)
        /\ \A q \in 1 .. Len(a) : c[q] = a[q]
        /\ Len(b) = 1 => c[Len(a) + 1] = b[1]
    <3>1. a \in Seq(S) /\ b \in Seq(S) /\ c = a \o b  BY <2>6
    <3> HIDE DEF a, b, c
    <3> QED BY <3>1, ConcatFacts
  <2> HIDE DEF a, b, c
  <2>8. Where(a, u) \subseteq Where(c, u)  BY <2>7 DEF Where
  <2>9. /\ IsFiniteSet(Where(a, u)) /\ IsFiniteSet(Where(c, u)) /\ IsFiniteSet(R(i))
        /\ Cardinality(Where(a, u)) \in Nat /\ Cardinality(Where(c, u)) \in Nat /\ Cardinality(R(i)) \in Nat
    BY <1>3, <2>2, FS_CardinalityType DEF a, c
  <2>a. Cardinality(Where(a, u)) >= Cardinality(R(i))  BY <2>3 DEF a
  <2>10. CASE text[j] # u
    <3>1. R(j) = R(i)  BY <2>4, <2>5, <2>10
    <3>2. Cardinality(Where(a, u)) <= Cardinality(Where(c, u))  BY <2>8, <2>9, FS_Subset
    <3> QED BY <2>a, <2>9, <3>1, <3>2 DEF c
  <2>11. CASE text[j] = u
    <3> DEFINE k == Len(a) + 1
    <3>1. b = <<u>>  BY <2>2, <2>11 DEF b
    <3>2. k \in 1 .. Len(c) /\ c[k] = u
      <4>1. Len(b) = 1 /\ b[1] = u  BY <3>1
      <4> QED BY <2>7, <4>1
    <3>3. k \notin Where(a, u)  BY <2>7 DEF Where
    <3>4. k \in Where(c, u)
      <4> HIDE DEF k
      <4> QED BY <3>2 DEF Where
    <3> HIDE DEF k
    <3>5. Cardinality(Where(a, u) \cup {k}) = Cardinality(Where(a, u)) + 1
      BY <2>9, <3>3, FS_AddElement
    <3>6. Where(a, u) \cup {k} \subseteq Where(c, u)  BY <2>8, <3>4
    <3>7. Cardinality(Where(a, u) \cup {k}) <= Cardinality(Where(c, u))  BY <2>9, <3>6, FS_Subset
    <3>8. R(j) = R(i) \cup {j} /\ j \notin R(i)  BY <2>4, <2>5, <2>11
    <3>9. Cardinality(R(j)) = Cardinality(R(i)) + 1  BY <2>9, <3>8, FS_AddElement
    <3>10. Cardinality(Where(c, u)) >= Cardinality(R(j))  BY <2>a, <2>9, <3>5, <3>7, <3>9
    <3> QED BY <3>10 DEF c
  <2> QED BY <2>10, <2>11
<1> HIDE DEF R
<1>6. \A i \in Nat : i \in T => i + 1 \in T  BY <1>5
<1>7. n \in T
  <2> HIDE DEF T
  <2>1. Nat \subseteq T  BY <1>4, <1>6, NatSet
  <2> QED BY <2>1
<1>8. Cardinality(Where(f[n], u)) >= Cardinality(R(n))  BY <1>7
<1>9. R(n) = Where(text, u)  BY DEF R, Where
<1> QED BY <1>1, <1>8, <1>9

(* A splice takes out no unit that lies outside of its ranges.               *)
LEMMA SpliceSpares ==
    ASSUME AreLeaves(body), \A w \in winners : w.from \in Int /\ w.to \in Int /\ w.from <= w.to,
           NEW u, \A w \in winners : \A p \in w.from .. w.to : body[w.leaf][p] # u,
           NEW l \in 1 .. Len(body),
           NEW new, new = Splice(body[l], {w \in winners : w.leaf = l}, LAMBDA w : Replacement(body, held, w))
    PROVE  Cardinality(Where(new, u)) >= Cardinality(Where(body[l], u))
<1> DEFINE Ws == {w \in winners : w.leaf = l}
           Marked(p) == Replacement(body, held, CHOOSE w \in Ws : p = w.from)
           Part(p) == IF \E w \in Ws : p = w.from THEN <<Marked(p)>>
                      ELSE IF \E w \in Ws : w.from < p /\ p <= w.to THEN <<>>
                      ELSE <<body[l][p]>>
           n == Len(body[l])
           parts == [p \in 1 .. n |-> Part(p)]
           S == {Marked(p) : p \in 1 .. n} \cup {body[l][p] : p \in 1 .. n}
<1>1. new = FlattenSeq(parts)  BY DEF Splice
<1>2. n \in Nat  BY DEF AreLeaves
<1>3. ASSUME NEW p \in 1 .. n PROVE Part(p) \in Seq(S)
  <2> DEFINE a == Marked(p)
             b == body[l][p]
  <2>1. a \in S /\ b \in S  OBVIOUS
  <2>2. Part(p) = <<a>> \/ Part(p) = <<>> \/ Part(p) = <<b>>
    <3> HIDE DEF S
    <3> QED OBVIOUS
  <2> HIDE DEF a, b, S, Part
  <2>3. <<a>> \in Seq(S) /\ <<b>> \in Seq(S) /\ <<>> \in Seq(S)  BY <2>1
  <2> QED BY <2>2, <2>3
<1>4. ASSUME NEW p \in 1 .. n, body[l][p] = u PROVE Part(p) = <<u>>
  <2>1. p \in Int  BY <1>2
  <2>2. ASSUME NEW w \in Ws PROVE ~(w.from <= p /\ p <= w.to)
    <3>1. w \in winners /\ w.leaf = l /\ w.from \in Int /\ w.to \in Int  OBVIOUS
    <3> QED BY <1>4, <2>1, <3>1
  <2>3. \A w \in Ws : p # w.from /\ ~(w.from < p /\ p <= w.to)
    <3> TAKE w \in Ws
    <3>1. w.from \in Int /\ w.to \in Int /\ w.from <= w.to  OBVIOUS
    <3> QED BY <2>1, <2>2, <3>1
  <2> HIDE DEF Ws, Marked
  <2> QED BY <1>4, <2>3
<1> HIDE DEF S, Part
<1>5. parts \in [1 .. n -> Seq(S)] /\ \A p \in 1 .. n : body[l][p] = u => parts[p] = <<u>>  BY <1>3, <1>4
<1> DEFINE text == body[l]
<1>6. Len(text) = n /\ \A p \in 1 .. n : text[p] = u => parts[p] = <<u>>  BY <1>5
<1> HIDE DEF parts, n, text
<1>7. Cardinality(Where(FlattenSeq(parts), u)) >= Cardinality(Where(text, u))
  BY <1>2, <1>5, <1>6, FlattenKeeps
<1> QED BY <1>1, <1>7 DEF text

(* What the promise to a transcript rests on: nothing of what the first      *)
(* sending wrote is ever claimed.                                            *)
Survives(ls, new) ==
    \A l \in 1 .. Len(ls) : \A p \in 1 .. Len(ls[l]) :
        Written(ls[l][p]) => Cardinality(Where(new[l], ls[l][p])) >= Cardinality(Where(ls[l], ls[l][p]))
SurvivalKept ==
    /\ first # <<>> => body = first /\ phase # "text"
    /\ phase \in {"resolve", "splice"} => \A o \in occs : Clear(body, o)
    /\ phase \in {"gate", "done"} => Survives(body, out)

LEMMA SpliceSurvives ==
    ASSUME OccsKept, SurvivalKept, SpliceAll
    PROVE  Survives(body, out')
<1>1. /\ phase = "splice"
      /\ out' = [l \in 1 .. Len(body) |->
                    Splice(body[l], {w \in winners : w.leaf = l}, LAMBDA w : Replacement(body, held, w))]
  BY DEF SpliceAll
<1>2. /\ AreLeaves(body) /\ ClaimsRanked(claims) /\ occs \subseteq OccsIn(body, claims)
      /\ winners = ResolveOccurrences(body, occs)
  BY <1>1 DEF OccsKept
<1>3. \A o \in occs : Clear(body, o)  BY <1>1 DEF SurvivalKept
<1>4. IsFiniteSet(occs)
  <2>1. IsFiniteSet(OccsIn(body, claims))  BY <1>2, OccsFinite DEF ClaimsRanked
  <2> QED BY <1>2, <2>1, FS_Subset
<1>5. \A w \in winners : /\ w.from \in Int /\ w.to \in Int /\ w.from <= w.to
                         /\ \A p \in w.from .. w.to : ~Written(body[w.leaf][p])
  BY <1>2, <1>3, <1>4, WinnersClear
<1>6. ASSUME NEW l \in 1 .. Len(body), NEW p \in 1 .. Len(body[l]), Written(body[l][p])
      PROVE  Cardinality(Where(out'[l], body[l][p])) >= Cardinality(Where(body[l], body[l][p]))
  <2> DEFINE u == body[l][p]
             new == Splice(body[l], {w \in winners : w.leaf = l}, LAMBDA w : Replacement(body, held, w))
  <2>1. out'[l] = new  BY <1>1
  <2>2. Written(u)  BY <1>6
  <2> HIDE DEF u
  <2>3. \A w \in winners : \A q \in w.from .. w.to : body[w.leaf][q] # u  BY <1>5, <2>2
  <2>4. \A w \in winners : w.from \in Int /\ w.to \in Int /\ w.from <= w.to  BY <1>5
  <2>5. new = Splice(body[l], {w \in winners : w.leaf = l}, LAMBDA w : Replacement(body, held, w))  OBVIOUS
  <2> HIDE DEF new
  <2>6. Cardinality(Where(new, u)) >= Cardinality(Where(body[l], u))  BY <1>2, <2>3, <2>4, <2>5, SpliceSpares
  <2> QED BY <2>1, <2>6 DEF u
<1> QED BY <1>6 DEF Survives

LEMMA SurvivalKeptStep == OccsKept /\ SurvivalKept /\ [Next]_vars => SurvivalKept'
<1> SUFFICES ASSUME OccsKept, SurvivalKept, [Next]_vars PROVE SurvivalKept'  OBVIOUS
<1>1. CASE Pass
  <2>1. PICK n \in {Findings[IF first = <<>> THEN 1 ELSE 2]} :
           \/ \E found \in {{}} \cup {Range(fs) : fs \in [1 .. n -> Found]} : Detect(found)
           \/ \E found \in {{}} \cup {Range(fs) : fs \in [1 .. n -> TextFound]}, preserve \in BOOLEAN :
                  RedactText(found, preserve)
    BY <1>1, Zenon DEF Pass
  <2>2. n \in Nat
    <3>1. \A pass \in 1 .. 2 : Findings[pass] \in Nat  BY Zenon, BodyTextAssumption
    <3> QED BY <3>1
  <2>3. CASE \E found \in {{}} \cup {Range(fs) : fs \in [1 .. n -> Found]} : Detect(found)
    <3>1. PICK found \in {{}} \cup {Range(fs) : fs \in [1 .. n -> Found]} : Detect(found)  BY <2>3
    <3>2. IsFiniteSet(found) /\ found \subseteq Found  BY <2>2, FoundFinite
    <3>3. /\ phase = "detect" /\ phase' = "resolve" /\ UNCHANGED <<body, first>>
          /\ \E cs \in {registry \cup DetectedClaims(found)} :
                occs' = Admissible(body, Placed(found, cs) \cup Expanded(body, cs))
      BY <3>1 DEF Detect
    <3>4. KnownKept  BY <3>3 DEF OccsKept
    <3>5. PICK cs \in {registry \cup DetectedClaims(found)} :
             occs' = Admissible(body, Placed(found, cs) \cup Expanded(body, cs))
      BY <3>3
    <3>6. \A o \in Admissible(body, Placed(found, cs) \cup Expanded(body, cs)) : Clear(body, o)
      <4>1. cs = registry \cup DetectedClaims(found)  OBVIOUS
      <4> QED BY <3>2, <3>4, <4>1, FoundIsClear
    <3>7. \A o \in occs' : Clear(body', o)  BY <3>3, <3>5, <3>6
    <3> QED BY <3>3, <3>7 DEF SurvivalKept
  <2>4. CASE \E found \in {{}} \cup {Range(fs) : fs \in [1 .. n -> TextFound]}, preserve \in BOOLEAN :
                RedactText(found, preserve)
    <3>1. first = <<>> /\ phase' = "text" /\ UNCHANGED <<body, first>>  BY <2>4 DEF RedactText
    <3> QED BY <3>1 DEF SurvivalKept
  <2> QED BY <2>1, <2>3, <2>4
<1>2. CASE Resolve
  <2>1. phase = "resolve" /\ phase' = "splice" /\ UNCHANGED <<body, occs, first>>  BY <1>2 DEF Resolve
  <2> QED BY <2>1 DEF SurvivalKept
<1>3. CASE SpliceAll
  <2>1. phase = "splice" /\ phase' = "gate" /\ UNCHANGED <<body, first>>  BY <1>3 DEF SpliceAll
  <2>2. Survives(body, out')  BY <1>3, SpliceSurvives
  <2>3. Survives(body', out')  BY <2>1, <2>2
  <2> QED BY <2>1, <2>3 DEF SurvivalKept
<1>4. CASE Gate
  <2>1. phase = "gate" /\ phase' = "done" /\ UNCHANGED <<body, out, first>>  BY <1>4 DEF Gate
  <2>2. Survives(body', out')  BY <2>1 DEF SurvivalKept
  <2> QED BY <2>1, <2>2 DEF SurvivalKept
<1>5. CASE Resend
  <2>1. phase' = "detect" /\ first' = out /\ body' = out  BY <1>5 DEF Resend
  <2> QED BY <2>1 DEF SurvivalKept
<1>6. CASE UNCHANGED vars
  <2>1. UNCHANGED <<phase, body, occs, out, first>>  BY <1>6 DEF vars
  <2>2. \A o : Clear(body', o) <=> Clear(body, o)  BY <2>1
  <2>3. Survives(body', out') <=> Survives(body, out)  BY <2>1
  <2> QED BY <2>1, <2>2, <2>3 DEF SurvivalKept
<1> QED BY <1>1, <1>2, <1>3, <1>4, <1>5, <1>6 DEF Next

LEMMA SurvivesWhenKept == OccsKept /\ SurvivalKept => TokensSurvive
<1> SUFFICES ASSUME SurvivalKept, phase = "done", first # <<>>,
                    NEW l \in 1 .. Len(first), NEW p \in 1 .. Len(first[l]), Written(first[l][p])
             PROVE  Cardinality({q \in 1 .. Len(out[l]) : out[l][q] = first[l][p]})
                        >= Cardinality({q \in 1 .. Len(first[l]) : first[l][q] = first[l][p]})
  BY DEF TokensSurvive
<1>1. body = first /\ Survives(body, out)  BY DEF SurvivalKept
<1>2. Cardinality(Where(out[l], first[l][p])) >= Cardinality(Where(first[l], first[l][p]))
  BY <1>1 DEF Survives
<1> QED BY <1>2 DEF Where

(* TokensSurvive: when a transcript comes back in the form it left in, for   *)
(* any bodies, registries, categories and findings, every token and every    *)
(* marker the first sending wrote is in the second as often as before:       *)
(* nothing found in it, by the registry or by a detector, covers one.        *)
THEOREM TokensAreSpared == Spec => []TokensSurvive
<1>1. Init => OccsKept /\ SurvivalKept
  <2>1. Init => SurvivalKept  BY DEF Init, SurvivalKept
  <2> QED BY <2>1, InitOccs
<1>2. OccsKept /\ SurvivalKept /\ [Next]_vars => (OccsKept /\ SurvivalKept)'  BY OccsKeptStep, SurvivalKeptStep
<1>3. Spec => [](OccsKept /\ SurvivalKept)  BY <1>1, <1>2, PTL DEF Spec
<1> QED BY <1>3, SurvivesWhenKept, PTL

=============================================================================
