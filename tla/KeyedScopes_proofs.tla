------------------------- MODULE KeyedScopes_proofs -------------------------
(***************************************************************************)
(* Theorems about KeyedScopes for any values, leaves, keys, scope objects  *)
(* and requests, proved with TLAPS.                                        *)
(***************************************************************************)
EXTENDS KeyedScopes, SequenceTheorems, WellFoundedInduction, TLAPS

USE ConstantsAssumption

-----------------------------------------------------------------------------
(* The cache as a sequence                                                  *)

Less == {p \in Nat \X Nat : p[1] < p[2]}

LEMMA LessWellFounded == IsWellFoundedOn(Less, Nat)
BY NatLessThanWellFounded DEF OpToRel, Less

LEMMA MinIsLeast ==
    ASSUME NEW S \in SUBSET Nat, S # {}
    PROVE  Min(S) \in S /\ \A i \in S : Min(S) <= i
<1>1. PICK x \in S : \A y \in S : <<y, x>> \notin Less
  BY LessWellFounded, WFMin
<1>2. \A y \in S : x <= y
  <2> TAKE y \in S
  <2>1. x \in Nat /\ y \in Nat /\ <<y, x>> \in Nat \X Nat  OBVIOUS
  <2>2. ~(y < x)
    <3> SUFFICES ASSUME y < x PROVE <<y, x>> \in Less  BY <1>1
    <3> QED BY <2>1 DEF Less
  <2> QED BY <2>1, <2>2
<1> QED BY <1>1, <1>2 DEF Min

(* The entries of d occur in c in the same order, each once.                *)
Thinned(d, c) ==
    /\ d \in Seq(Objects)
    /\ \E f \in [1 .. Len(d) -> 1 .. Len(c)] :
          /\ \A i \in 1 .. Len(d) : d[i] = c[f[i]]
          /\ \A i, j \in 1 .. Len(d) : f[i] = f[j] => i = j
          /\ \A i, j \in 1 .. Len(d) : i <= j => f[i] <= f[j]

(* Eviction leaves an end of the cache, no longer than the cap.             *)
LEMMA EvictedIsEnd ==
    ASSUME NEW c \in Seq(Objects), NEW s
    PROVE  Thinned(Evicted(c, s), c) /\ Len(Evicted(c, s)) <= ScopesMax
<1> DEFINE Goes(i) == Expired(s, c[i]) \/ Len(c) - (i - 1) > ScopesMax
           kept == {i \in 1 .. Len(c) : \E j \in 1 .. i : ~Goes(j)}
           d == SubSeq(c, Min(kept), Len(c))
<1>0. Len(c) \in Nat /\ kept \in SUBSET Nat  OBVIOUS
<1>1. CASE kept = {}
  <2>1. Evicted(c, s) = <<>>  BY <1>1 DEF Evicted
  <2>2. <<>> \in Seq(Objects) /\ Len(<<>>) = 0  OBVIOUS
  <2> DEFINE f == [i \in 1 .. Len(<<>>) |-> 1]
  <2>3. 1 .. Len(<<>>) = {}  BY <2>2
  <2>4. f \in [1 .. Len(<<>>) -> 1 .. Len(c)]  BY <2>3
  <2> HIDE DEF f
  <2>5. /\ \A i \in 1 .. Len(<<>>) : <<>>[i] = c[f[i]]
        /\ \A i, j \in 1 .. Len(<<>>) : f[i] = f[j] => i = j
        /\ \A i, j \in 1 .. Len(<<>>) : i <= j => f[i] <= f[j]
    BY <2>3
  <2>6. Thinned(<<>>, c)  BY <2>2, <2>4, <2>5, Zenon DEF Thinned
  <2> QED BY <2>1, <2>2, <2>6
<1>2. CASE kept # {}
  <2> DEFINE m == Min(kept)
  <2>1. Evicted(c, s) = d  BY <1>2 DEF Evicted
  <2>2. m \in kept
    <3> HIDE DEF kept
    <3> QED BY <1>0, <1>2, MinIsLeast
  <2>3. m \in 1 .. Len(c) /\ \E j \in 1 .. m : ~Goes(j)  BY <2>2
  <2> HIDE DEF m, kept
  <2> DEFINE f == [i \in 1 .. Len(d) |-> m + i - 1]
  <2>4. /\ d \in Seq(Objects)
        /\ Len(d) = Len(c) - m + 1
        /\ \A i \in 1 .. Len(c) - m + 1 : d[i] = c[m + i - 1]
    <3>1. m \in Int /\ Len(c) \in Int /\ \A i \in m .. Len(c) : c[i] \in Objects  BY <2>3, <1>0
    <3>2. d = SubSeq(c, m, Len(c))  BY DEF m
    <3> HIDE DEF d
    <3> QED BY <3>1, <3>2, <2>3, <1>0, SubSeqProperties
  <2> HIDE DEF d
  <2>5. Len(d) <= ScopesMax
    <3>1. PICK j \in 1 .. m : ~Goes(j)  BY <2>3
    <3>2. ~(Len(c) - (j - 1) > ScopesMax)  BY <3>1
    <3>3. ScopesMax \in Nat  OBVIOUS
    <3> QED BY <3>2, <3>3, <2>3, <2>4, <1>0
  <2>6. f \in [1 .. Len(d) -> 1 .. Len(c)]  BY <2>3, <2>4, <1>0
  <2>7. \A i \in 1 .. Len(d) : d[i] = c[f[i]]  BY <2>4
  <2>8. \A i, j \in 1 .. Len(d) : (f[i] = f[j] => i = j) /\ (i <= j => f[i] <= f[j])
    BY <2>3, <2>4, <1>0
  <2> HIDE DEF f
  <2> QED BY <2>1, <2>4, <2>5, <2>6, <2>7, <2>8 DEF Thinned
<1> QED BY <1>1, <1>2

(* Taking one entry out of the cache.                                       *)
LEMMA RemovedIsThinned ==
    ASSUME NEW c \in Seq(Objects), NEW n \in 1 .. Len(c)
    PROVE  /\ Thinned(RemoveAt(c, n), c)
           /\ \A i \in 1 .. Len(RemoveAt(c, n)) :
                 \E j \in 1 .. Len(c) : j # n /\ RemoveAt(c, n)[i] = c[j]
           /\ Len(RemoveAt(c, n)) = Len(c) - 1
           /\ \A i \in 1 .. Len(c) : i # n =>
                 \E j \in 1 .. Len(RemoveAt(c, n)) : c[i] = RemoveAt(c, n)[j]
<1> DEFINE a == SubSeq(c, 1, n - 1)
           b == SubSeq(c, n + 1, Len(c))
           d == a \o b
           f == [i \in 1 .. Len(d) |-> IF i < n THEN i ELSE i + 1]
<1>1. RemoveAt(c, n) = d  BY DEF RemoveAt
<1>2. a \in Seq(Objects) /\ Len(a) = n - 1 /\ \A i \in 1 .. n - 1 : a[i] = c[i]
  BY SubSeqProperties
<1>3. b \in Seq(Objects) /\ Len(b) = Len(c) - n /\ \A i \in 1 .. Len(c) - n : b[i] = c[n + i]
  <2>1. /\ b \in Seq(Objects)
        /\ Len(b) = IF n + 1 <= Len(c) THEN Len(c) - (n + 1) + 1 ELSE 0
        /\ \A i \in 1 .. Len(c) - (n + 1) + 1 : b[i] = c[n + 1 + i - 1]
    BY SubSeqProperties
  <2> QED BY <2>1
<1> HIDE DEF a, b
<1>4. d \in Seq(Objects) /\ Len(d) = Len(c) - 1
  <2>1. d \in Seq(Objects) /\ Len(d) = Len(a) + Len(b)  BY <1>2, <1>3, ConcatProperties
  <2>2. Len(c) \in Nat  OBVIOUS
  <2> HIDE DEF d
  <2> QED BY <2>1, <2>2, <1>2, <1>3
<1>5. \A i \in 1 .. Len(d) : d[i] = IF i <= n - 1 THEN a[i] ELSE b[i - (n - 1)]
  BY <1>2, <1>3, <1>4, ConcatProperties
<1>6. f \in [1 .. Len(d) -> 1 .. Len(c)] /\ \A i \in 1 .. Len(d) : f[i] # n
  BY <1>4
<1>7. \A i \in 1 .. Len(d) : d[i] = c[f[i]]
  <2> TAKE i \in 1 .. Len(d)
  <2>1. CASE i <= n - 1  BY <2>1, <1>5, <1>2, <1>4
  <2>2. CASE i > n - 1
    <3>1. d[i] = b[i - (n - 1)]  BY <2>2, <1>5, <1>4
    <3>2. i - (n - 1) \in 1 .. Len(c) - n  BY <2>2, <1>4
    <3> QED BY <3>1, <3>2, <1>3, <2>2, <1>4
  <2> QED BY <2>1, <2>2, <1>4
<1>8. \A i, j \in 1 .. Len(d) : (f[i] = f[j] => i = j) /\ (i <= j => f[i] <= f[j])  BY <1>4
<1>9. ASSUME NEW i \in 1 .. Len(c), i # n PROVE \E j \in 1 .. Len(d) : c[i] = d[j]
  <2>1. CASE i < n
    <3>1. i \in 1 .. Len(d) /\ f[i] = i  BY <2>1, <1>4
    <3> QED BY <3>1, <1>7
  <2>2. CASE i > n
    <3>1. i - 1 \in 1 .. Len(d) /\ f[i - 1] = i  BY <2>2, <1>4
    <3> QED BY <3>1, <1>7
  <2> QED BY <2>1, <2>2, <1>9
<1> HIDE DEF d, f
<1>10. Thinned(d, c)  BY <1>4, <1>6, <1>7, <1>8 DEF Thinned
<1>11. \A i \in 1 .. Len(d) : \E j \in 1 .. Len(c) : j # n /\ d[i] = c[j]
  <2> TAKE i \in 1 .. Len(d)
  <2>1. f[i] \in 1 .. Len(c) /\ f[i] # n /\ d[i] = c[f[i]]  BY <1>6, <1>7
  <2> QED BY <2>1
<1> QED BY <1>1, <1>4, <1>9, <1>10, <1>11

(* The cache is in the order of last use.                                   *)
ByUse(c, s) == \A i, j \in 1 .. Len(c) : i <= j => s[c[i]].lastUsed <= s[c[j]].lastUsed

OneKeyEach(c, s) == \A i, j \in 1 .. Len(c) : s[c[i]].key = s[c[j]].key => i = j

LEMMA ThinnedWithin ==
    ASSUME NEW c, NEW d, Thinned(d, c)
    PROVE  \A i \in 1 .. Len(d) : \E j \in 1 .. Len(c) : d[i] = c[j]
BY DEF Thinned

(* A thinned cache holds no object it did not hold, and no key twice.       *)
LEMMA ThinnedKeeps ==
    ASSUME NEW c \in Seq(Objects), NEW d, Thinned(d, c), NEW s
    PROVE  /\ \A i \in 1 .. Len(d) : \E j \in 1 .. Len(c) : d[i] = c[j]
           /\ OneKeyEach(c, s) => OneKeyEach(d, s)
           /\ ByUse(c, s) => ByUse(d, s)
<1>1. PICK f \in [1 .. Len(d) -> 1 .. Len(c)] :
         /\ \A i \in 1 .. Len(d) : d[i] = c[f[i]]
         /\ \A i, j \in 1 .. Len(d) : f[i] = f[j] => i = j
         /\ \A i, j \in 1 .. Len(d) : i <= j => f[i] <= f[j]
  BY DEF Thinned
<1>2. \A i \in 1 .. Len(d) : f[i] \in 1 .. Len(c)  BY <1>1
<1>3. \A i \in 1 .. Len(d) : \E j \in 1 .. Len(c) : d[i] = c[j]  BY <1>1, <1>2
<1>4. ASSUME OneKeyEach(c, s), NEW i \in 1 .. Len(d), NEW j \in 1 .. Len(d), s[d[i]].key = s[d[j]].key
      PROVE  i = j
  <2>1. s[c[f[i]]].key = s[c[f[j]]].key  BY <1>1, <1>4
  <2>2. f[i] = f[j]  BY <2>1, <1>2, <1>4 DEF OneKeyEach
  <2> QED BY <2>2, <1>1
<1>5. ASSUME ByUse(c, s), NEW i \in 1 .. Len(d), NEW j \in 1 .. Len(d), i <= j
      PROVE  s[d[i]].lastUsed <= s[d[j]].lastUsed
  <2>1. f[i] <= f[j]  BY <1>1, <1>5
  <2> QED BY <2>1, <1>1, <1>2, <1>5 DEF ByUse
<1> QED BY <1>3, <1>4, <1>5 DEF OneKeyEach, ByUse

(* Of a cache at most one over its cap, in the order of last use, eviction  *)
(* takes what has expired, and else the first, which leaves a full cache.   *)
Full(d, s, p) == Len(d) = ScopesMax /\ \A q \in Range(d) : s[p].lastUsed <= s[q].lastUsed

LEMMA EvictedWhy ==
    ASSUME NEW c \in Seq(Objects), NEW s, \A p \in Objects : s[p].lastUsed \in Nat, now \in Nat,
           NEW n \in 1 .. Len(c), c[n] \notin Range(Evicted(c, s)), ~Expired(s, c[n])
    PROVE  /\ Len(c) > ScopesMax
           /\ Len(c) = ScopesMax + 1 /\ ByUse(c, s) => Full(Evicted(c, s), s, c[n])
<1> DEFINE Goes(i) == Expired(s, c[i]) \/ Len(c) - (i - 1) > ScopesMax
           kept == {i \in 1 .. Len(c) : \E j \in 1 .. i : ~Goes(j)}
           m == Min(kept)
           d == SubSeq(c, m, Len(c))
<1>0. Len(c) \in Nat /\ kept \in SUBSET Nat /\ ScopesMax \in Nat
      /\ \A i \in 1 .. Len(c) : c[i] \in Objects
  OBVIOUS
<1>1. kept = {} => Evicted(c, s) = <<>>  BY DEF Evicted
<1>2. kept # {} => Evicted(c, s) = d  BY DEF Evicted
<1>3. kept # {} => m \in kept /\ \A i \in kept : m <= i
  <2> HIDE DEF kept
  <2> QED BY <1>0, MinIsLeast
<1>4. \A i \in 1 .. Len(c) : i \notin kept => Goes(i)
  <2> TAKE i \in 1 .. Len(c)
  <2>1. i \in 1 .. i  OBVIOUS
  <2> QED BY <2>1
<1>5. kept \subseteq 1 .. Len(c)  OBVIOUS
<1> HIDE DEF kept, m
<1>6. kept # {} => /\ d \in Seq(Objects) /\ Len(d) = Len(c) - m + 1
                   /\ \A i \in 1 .. Len(c) - m + 1 : d[i] = c[m + i - 1]
  <2> SUFFICES ASSUME kept # {}
               PROVE  /\ d \in Seq(Objects) /\ Len(d) = Len(c) - m + 1
                      /\ \A i \in 1 .. Len(c) - m + 1 : d[i] = c[m + i - 1]
    OBVIOUS
  <2>1. m \in 1 .. Len(c)  BY <1>3, <1>5
  <2>2. m \in Int /\ Len(c) \in Int /\ \A i \in m .. Len(c) : c[i] \in Objects  BY <2>1, <1>0
  <2> QED BY <2>1, <2>2, <1>0, SubSeqProperties
<1> HIDE DEF d
<1>7. n \notin kept
  <2> SUFFICES ASSUME n \in kept PROVE FALSE  OBVIOUS
  <2>1. kept # {} /\ m \in 1 .. Len(c) /\ m <= n  BY <1>3, <1>5
  <2>2. n - m + 1 \in 1 .. Len(d) /\ d[n - m + 1] = c[n]  BY <2>1, <1>0, <1>6
  <2>3. n - m + 1 \in DOMAIN d  BY <2>1, <2>2, <1>6
  <2>4. c[n] \in Range(d)  BY <2>2, <2>3 DEF Range
  <2> QED BY <2>1, <2>4, <1>2
<1>8. Len(c) - (n - 1) > ScopesMax  BY <1>4, <1>7
<1>9. Len(c) > ScopesMax  BY <1>8, <1>0
<1>10. ASSUME Len(c) = ScopesMax + 1, ByUse(c, s) PROVE Full(Evicted(c, s), s, c[n])
  <2>1. n = 1  BY <1>8, <1>10, <1>0
  <2>2. CASE Len(c) = 1
    <3>1. kept = {}  BY <2>1, <2>2, <1>5, <1>7
    <3>2. Evicted(c, s) = <<>> /\ Len(<<>>) = 0 /\ Range(<<>>) = {}  BY <3>1, <1>1 DEF Range
    <3> QED BY <2>2, <3>2, <1>10, <1>0 DEF Full
  <2>3. CASE Len(c) >= 2
    <3>1. 2 \in kept
      <4> SUFFICES ASSUME 2 \notin kept PROVE FALSE  OBVIOUS
      <4>1. 1 \in 1 .. Len(c) /\ 2 \in 1 .. Len(c)  BY <2>3, <1>0
      <4>2. Expired(s, c[2])  BY <4>1, <1>4, <1>10, <1>0
      <4>3. s[c[1]].lastUsed <= s[c[2]].lastUsed  BY <4>1, <1>10 DEF ByUse
      <4>4. s[c[1]].lastUsed \in Nat /\ s[c[2]].lastUsed \in Nat /\ IdleTtl \in Nat
        BY <4>1, <1>0
      <4>5. Expired(s, c[1])  BY <4>2, <4>3, <4>4 DEF Expired
      <4> QED BY <2>1, <4>5
    <3>2. kept # {} /\ m \in 1 .. Len(c) /\ m <= 2 /\ m # 1  BY <3>1, <2>1, <1>3, <1>5, <1>7
    <3>3. m = 2  BY <3>2
    <3>4. Evicted(c, s) = d /\ Len(d) = ScopesMax  BY <3>2, <3>3, <1>2, <1>6, <1>10, <1>0
    <3>5. ASSUME NEW q \in Range(d) PROVE s[c[n]].lastUsed <= s[q].lastUsed
      <4>1. PICK i \in DOMAIN d : q = d[i]  BY <3>5 DEF Range
      <4>2. i \in 1 .. Len(c) - 2 + 1  BY <4>1, <3>2, <3>3, <1>6
      <4>3. q = c[i + 1] /\ i + 1 \in 1 .. Len(c) /\ 1 \in 1 .. Len(c) /\ 1 <= i + 1
        BY <4>1, <4>2, <3>2, <3>3, <1>6, <1>0
      <4> QED BY <4>3, <2>1, <1>10 DEF ByUse
    <3> QED BY <3>4, <3>5 DEF Full
  <2>4. Len(c) = 1 \/ Len(c) >= 2
    <3> DEFINE l == Len(c)
    <3>1. l \in Nat /\ n \in Nat /\ 1 <= n /\ n <= l  BY <1>0
    <3> HIDE DEF l
    <3>2. l = 1 \/ l >= 2  BY <3>1
    <3> QED BY <3>2 DEF l
  <2> QED BY <2>2, <2>3, <2>4
<1> QED BY <1>9, <1>10

(* Touching the scope of a key puts it last and the key in no other place.  *)
LEMMA TouchedKeepsKeys ==
    ASSUME NEW c \in Seq(Objects), NEW s, NEW o \in Objects, NEW k,
           s[o].key = k, OneKeyEach(c, s)
    PROVE  LET t == Touched(k, o, c, s)
           IN  /\ t \in Seq(Objects)
               /\ OneKeyEach(t, s)
               /\ \A i \in 1 .. Len(t) : t[i] = o \/ \E j \in 1 .. Len(c) : t[i] = c[j]
<1> DEFINE swept == Evicted(c, s)
           entry == {i \in 1 .. Len(swept) : s[swept[i]].key = k}
           rest == IF entry = {} THEN swept ELSE RemoveAt(swept, Min(entry))
           t == Append(rest, o)
<1>0. Touched(k, o, c, s) = t  BY DEF Touched
<1>1. Thinned(swept, c)  BY EvictedIsEnd
<1> HIDE DEF swept
<1>2. swept \in Seq(Objects) /\ Len(swept) \in Nat  BY <1>1 DEF Thinned
<1>3. OneKeyEach(swept, s)  BY <1>1, ThinnedKeeps
<1>4. /\ rest \in Seq(Objects)
      /\ OneKeyEach(rest, s)
      /\ \A i \in 1 .. Len(rest) :
            s[rest[i]].key # k /\ \E j \in 1 .. Len(swept) : rest[i] = swept[j]
  <2>1. CASE entry = {}
    <3>1. rest = swept  BY <2>1
    <3>2. \A i \in 1 .. Len(swept) : s[swept[i]].key # k  BY <2>1
    <3> HIDE DEF rest, entry
    <3> QED BY <3>1, <3>2, <1>2, <1>3
  <2>2. CASE entry # {}
    <3> DEFINE n == Min(entry)
    <3>1. entry \in SUBSET Nat  BY <1>2
    <3>2. n \in entry
      <4> HIDE DEF entry
      <4> QED BY <2>2, <3>1, MinIsLeast
    <3>3. n \in 1 .. Len(swept) /\ s[swept[n]].key = k  BY <3>2
    <3>4. rest = RemoveAt(swept, n)  BY <2>2
    <3> HIDE DEF n, rest, entry
    <3> DEFINE less == RemoveAt(swept, n)
    <3>0. /\ Thinned(less, swept)
          /\ \A i \in 1 .. Len(less) : \E j \in 1 .. Len(swept) : j # n /\ less[i] = swept[j]
      BY <3>3, <1>2, RemovedIsThinned
    <3>5. /\ Thinned(rest, swept)
          /\ \A i \in 1 .. Len(rest) : \E j \in 1 .. Len(swept) : j # n /\ rest[i] = swept[j]
      BY <3>0, <3>4
    <3>6. rest \in Seq(Objects)  BY <3>5 DEF Thinned
    <3>7. OneKeyEach(rest, s)  BY <3>5, <1>2, <1>3, ThinnedKeeps
    <3>8. \A i \in 1 .. Len(rest) : s[rest[i]].key # k
      BY <3>5, <3>3, <1>3, Zenon DEF OneKeyEach
    <3> QED BY <3>5, <3>6, <3>7, <3>8
  <2> QED BY <2>1, <2>2
<1> HIDE DEF rest
<1>5. /\ t \in Seq(Objects)
      /\ Len(t) = Len(rest) + 1
      /\ \A i \in 1 .. Len(rest) : t[i] = rest[i]
      /\ t[Len(rest) + 1] = o
  BY <1>4, AppendProperties
<1>6. Len(rest) \in Nat  BY <1>4
<1> HIDE DEF t
<1>7. \A i \in 1 .. Len(t) : i \in 1 .. Len(rest) \/ i = Len(rest) + 1  BY <1>5, <1>6
<1>8. OneKeyEach(t, s)
  <2> SUFFICES ASSUME NEW i \in 1 .. Len(t), NEW j \in 1 .. Len(t), s[t[i]].key = s[t[j]].key
               PROVE  i = j
    BY DEF OneKeyEach
  <2>1. CASE i \in 1 .. Len(rest) /\ j \in 1 .. Len(rest)  BY <2>1, <1>4, <1>5 DEF OneKeyEach
  <2>2. CASE i \in 1 .. Len(rest) /\ j = Len(rest) + 1  BY <2>2, <1>4, <1>5
  <2>3. CASE i = Len(rest) + 1 /\ j \in 1 .. Len(rest)  BY <2>3, <1>4, <1>5
  <2> QED BY <1>7, <2>1, <2>2, <2>3
<1>9. \A i \in 1 .. Len(t) : t[i] = o \/ \E j \in 1 .. Len(c) : t[i] = c[j]
  <2> TAKE i \in 1 .. Len(t)
  <2>1. CASE i = Len(rest) + 1  BY <2>1, <1>5
  <2>2. CASE i \in 1 .. Len(rest)
    <3>1. PICK j \in 1 .. Len(swept) : t[i] = swept[j]  BY <2>2, <1>4, <1>5
    <3>2. \E n \in 1 .. Len(c) : swept[j] = c[n]  BY <1>1, ThinnedKeeps
    <3> QED BY <3>1, <3>2
  <2> QED BY <2>1, <2>2, <1>7
<1> QED BY <1>0, <1>5, <1>8, <1>9

OnlyExpiredGo(c, t, s) ==
    \A i \in 1 .. Len(c) : (\E j \in 1 .. Len(t) : c[i] = t[j]) \/ Expired(s, c[i])

(* Touching the scope of a key keeps the order of last use, and takes from  *)
(* a cache within its cap only that scope and what has expired.             *)
LEMMA TouchedKeepsOrder ==
    ASSUME NEW c \in Seq(Objects), NEW s, NEW o \in Objects, NEW k, NEW u,
           s[o].key = k, OneKeyEach(c, s), Len(c) <= ScopesMax, ByUse(c, u), now \in Nat,
           \A p \in Objects : s[p].lastUsed \in Nat,
           \A p \in Objects : p # o => s[p].lastUsed = u[p].lastUsed,
           \A p \in Objects : s[p].lastUsed <= s[o].lastUsed,
           \A i \in 1 .. Len(c) : s[c[i]].key = k => c[i] = o \/ Expired(s, c[i])
    PROVE  /\ Len(Touched(k, o, c, s)) <= ScopesMax + 1
           /\ ByUse(Touched(k, o, c, s), s)
           /\ OnlyExpiredGo(c, Touched(k, o, c, s), s)
<1> DEFINE swept == Evicted(c, s)
           entry == {i \in 1 .. Len(swept) : s[swept[i]].key = k}
           rest == IF entry = {} THEN swept ELSE RemoveAt(swept, Min(entry))
           t == Append(rest, o)
<1>0. Touched(k, o, c, s) = t  BY DEF Touched
<1>1. Thinned(swept, c) /\ Len(swept) <= ScopesMax  BY EvictedIsEnd
<1>2. \A i \in 1 .. Len(c) : c[i] \in Range(swept) \/ Expired(s, c[i])
  <2> SUFFICES ASSUME NEW i \in 1 .. Len(c), c[i] \notin Range(swept), ~Expired(s, c[i])
               PROVE  FALSE
    OBVIOUS
  <2>1. Len(c) > ScopesMax  BY EvictedWhy
  <2> QED BY <2>1
<1> HIDE DEF swept
<1>3. swept \in Seq(Objects) /\ Len(swept) \in Nat  BY <1>1 DEF Thinned
<1>4. OneKeyEach(swept, s) /\ ByUse(swept, u)  BY <1>1, ThinnedKeeps
<1>5. \A i \in 1 .. Len(swept) : s[swept[i]].key = k => swept[i] = o \/ Expired(s, swept[i])
  BY <1>1, ThinnedWithin
<1>6. /\ rest \in Seq(Objects) /\ Len(rest) <= ScopesMax /\ ByUse(rest, u)
      /\ \A i \in 1 .. Len(rest) : rest[i] # o
      /\ \A i \in 1 .. Len(swept) :
            \/ \E j \in 1 .. Len(rest) : swept[i] = rest[j]
            \/ swept[i] = o \/ Expired(s, swept[i])
  <2>1. CASE entry = {}
    <3>1. rest = swept  BY <2>1
    <3>2. \A i \in 1 .. Len(swept) : s[swept[i]].key # k  BY <2>1
    <3> HIDE DEF rest, entry
    <3> QED BY <3>1, <3>2, <1>1, <1>3, <1>4
  <2>2. CASE entry # {}
    <3> DEFINE n == Min(entry)
    <3>1. entry \in SUBSET Nat  BY <1>3
    <3>2. n \in entry
      <4> HIDE DEF entry
      <4> QED BY <2>2, <3>1, MinIsLeast
    <3>3. n \in 1 .. Len(swept) /\ s[swept[n]].key = k  BY <3>2
    <3>4. rest = RemoveAt(swept, n)  BY <2>2
    <3> HIDE DEF n, rest, entry
    <3> DEFINE less == RemoveAt(swept, n)
    <3>0. /\ Thinned(less, swept)
          /\ \A i \in 1 .. Len(less) : \E j \in 1 .. Len(swept) : j # n /\ less[i] = swept[j]
          /\ Len(less) = Len(swept) - 1
          /\ \A i \in 1 .. Len(swept) : i # n => \E j \in 1 .. Len(less) : swept[i] = less[j]
      BY <3>3, <1>3, RemovedIsThinned
    <3>5. /\ Thinned(rest, swept)
          /\ \A i \in 1 .. Len(rest) : \E j \in 1 .. Len(swept) : j # n /\ rest[i] = swept[j]
          /\ Len(rest) = Len(swept) - 1
          /\ \A i \in 1 .. Len(swept) : i # n => \E j \in 1 .. Len(rest) : swept[i] = rest[j]
      BY <3>0, <3>4
    <3>6. rest \in Seq(Objects)  BY <3>5 DEF Thinned
    <3>7. ByUse(rest, u)  BY <3>5, <1>3, <1>4, ThinnedKeeps
    <3>8. ASSUME NEW i \in 1 .. Len(rest) PROVE rest[i] # o
      <4>1. PICK j \in 1 .. Len(swept) : j # n /\ rest[i] = swept[j]  BY <3>5
      <4>2. s[swept[j]].key # s[swept[n]].key  BY <4>1, <3>3, <1>4 DEF OneKeyEach
      <4> QED BY <4>1, <4>2, <3>3
    <3>9. Len(rest) <= ScopesMax  BY <3>5, <1>1, <1>3
    <3> QED BY <3>5, <3>6, <3>7, <3>8, <3>9, <3>3, <1>5
  <2> QED BY <2>1, <2>2
<1> HIDE DEF rest
<1>7. /\ t \in Seq(Objects)
      /\ Len(t) = Len(rest) + 1 /\ Len(rest) \in Nat
      /\ \A i \in 1 .. Len(rest) : t[i] = rest[i] /\ rest[i] \in Objects
      /\ t[Len(rest) + 1] = o
  BY <1>6, AppendProperties
<1> HIDE DEF t
<1>8. ByUse(t, s)
  <2> SUFFICES ASSUME NEW i \in 1 .. Len(t), NEW j \in 1 .. Len(t), i <= j
               PROVE  s[t[i]].lastUsed <= s[t[j]].lastUsed
    BY DEF ByUse
  <2>1. t[i] \in Objects  BY <1>7
  <2>2. CASE j = Len(rest) + 1  BY <2>1, <2>2, <1>7
  <2>3. CASE j # Len(rest) + 1
    <3>1. i \in 1 .. Len(rest) /\ j \in 1 .. Len(rest)  BY <2>3, <1>7
    <3>2. u[rest[i]].lastUsed <= u[rest[j]].lastUsed  BY <3>1, <1>6 DEF ByUse
    <3>3. /\ s[rest[i]].lastUsed = u[rest[i]].lastUsed
          /\ s[rest[j]].lastUsed = u[rest[j]].lastUsed
      BY <3>1, <1>6, <1>7
    <3> QED BY <3>1, <3>2, <3>3, <1>7
  <2> QED BY <2>2, <2>3
<1>9. ASSUME NEW i \in 1 .. Len(c), ~Expired(s, c[i]) PROVE \E j \in 1 .. Len(t) : c[i] = t[j]
  <2>1. PICK n \in DOMAIN swept : c[i] = swept[n]  BY <1>2, <1>9 DEF Range
  <2>2. n \in 1 .. Len(swept)  BY <2>1, <1>3
  <2>3. CASE c[i] = o
    <3>1. Len(rest) + 1 \in 1 .. Len(t)  BY <1>7
    <3> QED BY <3>1, <2>3, <1>7
  <2>4. CASE \E j \in 1 .. Len(rest) : c[i] = rest[j]
    <3>1. PICK j \in 1 .. Len(rest) : c[i] = rest[j]  BY <2>4
    <3>2. j \in 1 .. Len(t)  BY <3>1, <1>7
    <3> QED BY <3>1, <3>2, <1>7
  <2> QED BY <2>1, <2>2, <2>3, <2>4, <1>6, <1>9
<1>10. Len(t) <= ScopesMax + 1  BY <1>6, <1>7
<1>11. OnlyExpiredGo(c, t, s)  BY <1>9 DEF OnlyExpiredGo
<1> QED BY <1>0, <1>8, <1>10, <1>11

-----------------------------------------------------------------------------
(* Tokens and layers                                                        *)

(* new is what old becomes when surfaces vs are written under by, those of  *)
(* ms admitted to matching.                                                 *)
Grown(new, old, vs, ms, by) ==
    /\ new \in LayerType
    /\ old.literal \subseteq new.literal
    /\ new.literal \subseteq old.literal \cup {Literal(v, by) : v \in vs}
    /\ old.linked \subseteq new.linked
    /\ \A t \in new.linked \ old.linked : t.label \in EntityRecords /\ t.value \in vs
    /\ old.match \subseteq new.match
    /\ new.match \subseteq old.match \cup ms

Authority == {"registry", "detected", "user"}

LEMMA LiteralType ==
    ASSUME NEW v \in Values, NEW by \in Authority
    PROVE  Literal(v, by) \in Tokens /\ Literal(v, by).value = v
BY DEF Literal, Tokens, Labels, Authority

LEMMA EnsureGrows ==
    ASSUME NEW old \in LayerType, NEW vs \in SUBSET Values, NEW by \in Authority
    PROVE  /\ Grown(EnsureTokens(old, vs, by), old, vs, {}, by)
           /\ EnsureTokens(old, vs, by).linked = old.linked
           /\ EnsureTokens(old, vs, by).match = old.match
<1> DEFINE new == EnsureTokens(old, vs, by)
           minted == {Literal(v, by) : v \in vs \ Mapped(old)}
<1>1. new = [old EXCEPT !.literal = @ \cup minted]  BY DEF EnsureTokens
<1>2. minted \in SUBSET Tokens  BY LiteralType
<1>3. minted \subseteq {Literal(v, by) : v \in vs}  OBVIOUS
<1> HIDE DEF minted, new
<1>4. /\ new \in LayerType
      /\ new.literal = old.literal \cup minted /\ new.linked = old.linked /\ new.match = old.match
  BY <1>1, <1>2 DEF LayerType
<1>5. Grown(new, old, vs, {}, by)  BY <1>3, <1>4 DEF Grown
<1> QED BY <1>4, <1>5 DEF new

LEMMA AddMatchGrows ==
    ASSUME NEW old \in LayerType, NEW vs \in SUBSET Values, NEW by \in Authority
    PROVE  Grown(AddMatchForms(old, vs, by), old, vs, vs, by)
<1> DEFINE e == EnsureTokens(old, vs, by)
           new == AddMatchForms(old, vs, by)
<1>1. Grown(e, old, vs, {}, by) /\ e.linked = old.linked /\ e.match = old.match
  BY EnsureGrows
<1>2. new = [e EXCEPT !.match = @ \cup vs]  BY DEF AddMatchForms
<1> HIDE DEF e, new
<1>3. e \in LayerType  BY <1>1 DEF Grown
<1>4. /\ new \in LayerType
      /\ new.literal = e.literal /\ new.linked = e.linked /\ new.match = e.match \cup vs
  BY <1>2, <1>3 DEF LayerType
<1>5. Grown(new, old, vs, vs, by)  BY <1>1, <1>4 DEF Grown
<1> QED BY <1>5 DEF new

LEMMA LinkGrows ==
    ASSUME NEW old \in LayerType, NEW links \in SUBSET (EntityRecords \X Values),
           NEW vs, \A k \in links : k[2] \in vs, NEW ms, NEW by
    PROVE  Grown(EnsureEntityTokens(old, links), old, vs, ms, by)
<1> DEFINE new == EnsureEntityTokens(old, links)
           minted == {Linked(k[1], k[2]) : k \in links}
<1>1. new = [old EXCEPT !.linked = @ \cup minted]  BY DEF EnsureEntityTokens
<1>2. \A t \in minted : t \in Tokens /\ t.label \in EntityRecords /\ t.value \in vs
  <2> TAKE t \in minted
  <2>1. PICK k \in links : t = [label |-> k[1], value |-> k[2]]  BY DEF Linked
  <2>2. k[1] \in EntityRecords /\ k[1] \in Records /\ k[2] \in Values  BY DEF ConstantsAssumption
  <2> QED BY <2>1, <2>2 DEF Tokens, Labels
<1> HIDE DEF minted, new
<1>3. /\ new \in LayerType
      /\ new.literal = old.literal /\ new.linked = old.linked \cup minted /\ new.match = old.match
  BY <1>1, <1>2 DEF LayerType
<1>4. Grown(new, old, vs, ms, by)  BY <1>2, <1>3 DEF Grown
<1> QED BY <1>4 DEF new

LEMMA GrownTwice ==
    ASSUME NEW old, NEW mid, NEW new, NEW vs1, NEW vs2, NEW ms1, NEW ms2, NEW by, NEW vs, NEW ms,
           Grown(mid, old, vs1, ms1, by), Grown(new, mid, vs2, ms2, by),
           vs1 \cup vs2 \subseteq vs, ms1 \cup ms2 \subseteq ms
    PROVE  Grown(new, old, vs, ms, by)
<1>1. {Literal(v, by) : v \in vs1} \cup {Literal(v, by) : v \in vs2} \subseteq {Literal(v, by) : v \in vs}
  OBVIOUS
<1> QED BY <1>1 DEF Grown

-----------------------------------------------------------------------------
(* Claims and their winners                                                 *)

IsClaims(claims) == claims.strong \in SUBSET Values /\ claims.weak \in SUBSET Values
                      /\ claims.strong \cap claims.weak = {}

LEMMA RankOfClaim ==
    ASSUME NEW claims, IsClaims(claims), NEW v
    PROVE  /\ Rank(claims, v) \in 0 .. 2
           /\ Rank(claims, v) = 2 <=> v \in claims.strong
           /\ Rank(claims, v) = 1 <=> v \in claims.weak
           /\ Rank(claims, v) = 0 <=> v \notin claims.strong \cup claims.weak
BY DEF Rank, IsClaims

Occurrences == [leaf : Leaves, surface : Values, owner : Values]

(* A winner is claimed, and shows nothing that is claimed above it.         *)
Backed(claims, occ) ==
    /\ occ \in Occurrences
    /\ Rank(claims, occ.owner) > 0
    /\ Rank(claims, occ.surface) <= Rank(claims, occ.owner)

LEMMA NestWinnersBacked ==
    ASSUME NEW claims, IsClaims(claims), NEW l \in Leaves, NEW n \in Values \X Values \X Values
    PROVE  /\ \A occ \in NestWinners(claims, l, n) : Backed(claims, occ)
           /\ Rank(claims, n[1]) > 0 =>
                 \/ \E occ \in NestWinners(claims, l, n) : occ.surface = n[1]
                 \/ \A v \in {n[2], n[3]} : \E occ \in NestWinners(claims, l, n) : occ.surface = v
           /\ \A v \in {n[2], n[3]} :
                 Rank(claims, v) > 0 /\ Rank(claims, n[1]) = 0
                   => \E occ \in NestWinners(claims, l, n) : occ.surface = v
<1> DEFINE whole == Rank(claims, n[1])
           Wins(v) == Rank(claims, v) > whole
           Part(v) == IF Wins(v) THEN {Occurrence(l, v, v)}
                      ELSE IF whole > 0 THEN {Occurrence(l, v, n[1])} ELSE {}
           winners == NestWinners(claims, l, n)
<1>1. winners = IF whole > 0 /\ ~Wins(n[2]) /\ ~Wins(n[3]) THEN {Occurrence(l, n[1], n[1])}
                ELSE Part(n[2]) \cup Part(n[3])
  BY DEF NestWinners
<1>2. n[1] \in Values /\ n[2] \in Values /\ n[3] \in Values  OBVIOUS
<1>3. \A v : Rank(claims, v) \in 0 .. 2  BY RankOfClaim
<1>4. \A v, w \in Values : /\ Occurrence(l, v, w) \in Occurrences
                           /\ Occurrence(l, v, w).surface = v /\ Occurrence(l, v, w).owner = w
  BY DEF Occurrence, Occurrences
<1>5. \A v \in {n[2], n[3]} : /\ \A occ \in Part(v) : Backed(claims, occ) /\ occ.surface = v
                              /\ Part(v) # {} <=> Wins(v) \/ whole > 0
  <2> TAKE v \in {n[2], n[3]}
  <2>1. CASE Wins(v)
    <3>1. Part(v) = {Occurrence(l, v, v)}  BY <2>1
    <3>2. Backed(claims, Occurrence(l, v, v))  BY <2>1, <1>2, <1>3, <1>4 DEF Backed
    <3> QED BY <3>1, <3>2, <2>1, <1>2, <1>4
  <2>2. CASE ~Wins(v) /\ whole > 0
    <3>1. Part(v) = {Occurrence(l, v, n[1])}  BY <2>2
    <3>2. Backed(claims, Occurrence(l, v, n[1]))  BY <2>2, <1>2, <1>3, <1>4 DEF Backed
    <3> QED BY <3>1, <3>2, <2>2, <1>2, <1>4
  <2>3. CASE ~Wins(v) /\ ~(whole > 0)  BY <2>3
  <2> QED BY <2>1, <2>2, <2>3
<1>6. Wins(n[2]) <=> Rank(claims, n[2]) > whole  OBVIOUS
<1>7. Wins(n[3]) <=> Rank(claims, n[3]) > whole  OBVIOUS
<1>8. whole \in 0 .. 2  BY <1>3
<1>9. whole > 0 => Backed(claims, Occurrence(l, n[1], n[1]))  BY <1>2, <1>3, <1>4 DEF Backed
<1> HIDE DEF Part, winners
<1>10. CASE whole > 0 /\ ~Wins(n[2]) /\ ~Wins(n[3])
  <2>1. winners = {Occurrence(l, n[1], n[1])}  BY <1>1, <1>10
  <2> QED BY <2>1, <1>2, <1>4, <1>8, <1>9, <1>10 DEF winners
<1>11. CASE ~(whole > 0 /\ ~Wins(n[2]) /\ ~Wins(n[3]))
  <2>1. winners = Part(n[2]) \cup Part(n[3])  BY <1>1, <1>11
  <2>2. \A occ \in winners : Backed(claims, occ)  BY <2>1, <1>5
  <2>3. whole > 0 => \A v \in {n[2], n[3]} : \E occ \in winners : occ.surface = v
    BY <2>1, <1>5
  <2>4. \A v \in {n[2], n[3]} : Rank(claims, v) > 0 /\ whole = 0 => \E occ \in winners : occ.surface = v
    BY <2>1, <1>5
  <2> QED BY <2>2, <2>3, <2>4 DEF winners
<1> QED BY <1>10, <1>11

LEMMA NestsTyped ==
    ASSUME NEW l \in Leaves
    PROVE  /\ PlainIn[l.text] \in SUBSET Values
           /\ \A n \in NestsIn[l.text] : n \in Values \X Values \X Values
BY DEF ConstantsAssumption

LEMMA ResolvedBacked ==
    ASSUME NEW claims, IsClaims(claims), NEW l \in Leaves, NEW occ \in Resolved(claims, l)
    PROVE  Backed(claims, occ)
<1>1. CASE \E v \in PlainIn[l.text] : Rank(claims, v) > 0 /\ occ = Occurrence(l, v, v)
  <2>1. PICK v \in PlainIn[l.text] : Rank(claims, v) > 0 /\ occ = Occurrence(l, v, v)  BY <1>1
  <2>2. v \in Values  BY NestsTyped
  <2>3. Rank(claims, v) \in 0 .. 2  BY RankOfClaim
  <2> QED BY <2>1, <2>2, <2>3 DEF Backed, Occurrence, Occurrences
<1>2. CASE \E n \in NestsIn[l.text] : occ \in NestWinners(claims, l, n)
  BY <1>2, NestsTyped, NestWinnersBacked
<1> QED BY <1>1, <1>2 DEF Resolved

(* Nothing that is claimed stays readable.                                  *)
LEMMA LeftIsUnclaimed ==
    ASSUME NEW claims, IsClaims(claims), NEW l \in Leaves, NEW v \in LeftIn(claims, l)
    PROVE  v \in Values /\ v \notin claims.strong \cup claims.weak
<1> DEFINE gone == {o.surface : o \in Resolved(claims, l)}
           left(n) == IF n[1] \in gone THEN {}
                      ELSE IF {n[2], n[3]} \cap gone = {} THEN {n[1], n[2], n[3]}
                      ELSE {n[2], n[3]} \ gone
<1>1. v \in (PlainIn[l.text] \ gone) \cup UNION {left(n) : n \in NestsIn[l.text]}  BY DEF LeftIn
<1>2. CASE v \in PlainIn[l.text] \ gone
  <2>1. v \in Values  BY <1>2, NestsTyped
  <2>2. ASSUME Rank(claims, v) > 0 PROVE FALSE
    <3>1. Occurrence(l, v, v) \in Resolved(claims, l)  BY <1>2, <2>2 DEF Resolved
    <3>2. v \in gone  BY <3>1 DEF Occurrence
    <3> QED BY <3>2, <1>2
  <2> QED BY <2>1, <2>2, RankOfClaim
<1>3. CASE \E n \in NestsIn[l.text] : v \in left(n)
  <2>1. PICK n \in NestsIn[l.text] : v \in left(n)  BY <1>3
  <2>2. n \in Values \X Values \X Values  BY NestsTyped
  <2>3. \A occ \in NestWinners(claims, l, n) : occ.surface \in gone  BY DEF Resolved
  <2>4. n[1] \notin gone  BY <2>1
  <2>5. v \in {n[1], n[2], n[3]} /\ v \notin gone  BY <2>1, <2>4
  <2>6. v \in Values  BY <2>2, <2>5
  <2> HIDE DEF gone
  <2>7. Rank(claims, n[1]) = 0
    <3>1. Rank(claims, n[1]) > 0 => n[2] \in gone /\ n[3] \in gone
      BY <2>2, <2>3, <2>4, NestWinnersBacked
    <3>2. n[2] \in gone /\ n[3] \in gone => left(n) = {}  BY <2>4
    <3>3. Rank(claims, n[1]) \in 0 .. 2  BY RankOfClaim
    <3> QED BY <3>1, <3>2, <3>3, <2>1
  <2>8. \A w \in {n[2], n[3]} : w \notin gone => Rank(claims, w) = 0
    <3> TAKE w \in {n[2], n[3]}
    <3>1. Rank(claims, w) \in 0 .. 2  BY RankOfClaim
    <3> QED BY <3>1, <2>2, <2>3, <2>7, NestWinnersBacked
  <2>9. Rank(claims, v) = 0  BY <2>5, <2>7, <2>8
  <2> QED BY <2>6, <2>9, RankOfClaim
<1> QED BY <1>1, <1>2, <1>3

-----------------------------------------------------------------------------
(* The inductive invariant                                                  *)

Busy(r) == req[r].phase # "idle"

(* A scope object that is not in use is empty, one that a request or the    *)
(* cache holds is in use, under the key it was opened with, and only keyed  *)
(* requests share one.                                                      *)
UnusedAreFree == \A o \in Objects : ~scope[o].used => scope[o] = Free
BusyHold == \A r \in Requests : Busy(r) => Scope(r).used /\ Scope(r).key = req[r].key
CachedAreKeyed ==
    \A i \in 1 .. Len(cache) : scope[cache[i]].used /\ scope[cache[i]].key \in Keys
OnlyKeyedShare ==
    \A r, q \in Requests : Busy(r) /\ Busy(q) /\ r # q /\ req[r].scope = req[q].scope => Keyed(r)

(* Only the key of a scope writes into it, and without a write it is empty. *)
OwnKeyWrites ==
    \A o \in Objects :
        /\ scope[o].writers \subseteq {scope[o].key}
        /\ scope[o].writers = {} => TokensOf(scope[o].detected) \cup TokensOf(scope[o].derived) = {}

(* What a scope has a token for, or matches, it knows.                      *)
KnowsItsTokens ==
    \A o \in Objects :
        Mapped(scope[o].detected) \cup Mapped(scope[o].derived)
          \cup scope[o].detected.match \cup scope[o].derived.match \subseteq scope[o].known

(* Detection writes literal tokens of its own and the tokens of entities.   *)
LabelledByDetection ==
    \A o \in Objects :
        /\ \A t \in scope[o].detected.literal : t = Literal(t.value, "detected")
        /\ \A t \in scope[o].detected.linked : t.label \in EntityRecords

(* The texts of a body the detectors may read that are not among its fresh  *)
(* leaves.                                                                  *)
ScannedTexts(ls) == TextsOf(Scanned(ls))
NotRead(ls, fresh) == ScannedTexts(ls) \ ScannedTexts(fresh)

(* Between reading the ledger and updating it, what is skipped was shown.   *)
SkippedWereShown ==
    \A r \in Requests : req[r].phase = "detecting" /\ Keyed(r)
       => NotRead(req[r].body, req[r].fresh) \subseteq Shown(Scope(r))

(* The cache is in the order of last use, and no use lies ahead.            *)
CacheOrdered == ByUse(cache, scope) /\ \A o \in Objects : scope[o].lastUsed <= now

ScopesHeld == TypeOK /\ UnusedAreFree /\ BusyHold /\ CachedAreKeyed
ScopesFilled == OnlyKeyedShare /\ OwnKeyWrites /\ KnowsItsTokens /\ LabelledByDetection
                  /\ SkippedWereShown /\ SeenWasShown
Inv == ScopesHeld /\ ScopesFilled /\ CacheSound /\ CacheOrdered

-----------------------------------------------------------------------------
(* What one pass writes into its scope                                      *)

LEMMA RegisteredType == TypeOK => Registered \in SUBSET Values
BY DEF TypeOK, Registered, ConstantsAssumption

(* The texts a body has are read as content or as keys.                     *)
LEMMA TextsTyped ==
    ASSUME NEW ls \in SUBSET Leaves
    PROVE  /\ ScannedTexts(ls) \in SUBSET Texts
           /\ TextsOf(Content(ls)) \in SUBSET Texts /\ TextsOf(KeysAmong(ls)) \in SUBSET Texts
           /\ ScannedTexts(ls) = TextsOf(Content(ls)) \cup TextsOf(KeysAmong(ls))
<1>1. \A l \in ls : l.text \in Texts /\ l.kind \in {"content", "key", "identifier"}
  BY DEF ConstantsAssumption, Kinds
<1>2. Scanned(ls) = Content(ls) \cup KeysAmong(ls)
  BY <1>1 DEF Scanned, Content, KeysAmong
<1>3. Content(ls) \subseteq ls /\ KeysAmong(ls) \subseteq ls  BY DEF Content, KeysAmong
<1> QED BY <1>1, <1>2, <1>3 DEF ScannedTexts, TextsOf

LEMMA ScopeTyped ==
    ASSUME TypeOK, NEW r \in Requests
    PROVE  /\ Scope(r) \in ScopeType /\ req[r] \in RequestType /\ req[r].scope \in Objects
           /\ req[r].user \in SUBSET Values /\ req[r].body \in SUBSET Leaves
           /\ req[r].fresh \in SUBSET Leaves
BY DEF TypeOK, Scope, RequestType

LEMMA RenderGrows ==
    ASSUME NEW r, NEW claims, NEW layer \in LayerType, NEW occs \in SUBSET Occurrences,
           NEW by \in Authority, NEW admitted
    PROVE  LET surfaces == {o.surface : o \in occs}
           IN  Grown(Render(r, claims, layer, occs, by, admitted), layer, surfaces,
                     surfaces \cap admitted, by)
<1> DEFINE S == {o.surface : o \in occs}
           A == S \cap admitted
           added == AddMatchForms(layer, A, by)
           plain == EnsureTokens(added, S, by)
           links == UNION {EntitiesOf(claims, o.owner) \X {o.surface} : o \in occs}
<1>1. S \in SUBSET Values  BY DEF Occurrences
<1>2. links \in SUBSET (EntityRecords \X Values) /\ \A k \in links : k[2] \in S
  <2> SUFFICES ASSUME NEW k \in links
               PROVE  k \in EntityRecords \X Values /\ k[2] \in S
    OBVIOUS
  <2>1. PICK o \in occs : k \in EntitiesOf(claims, o.owner) \X {o.surface}  OBVIOUS
  <2>2. EntitiesOf(claims, o.owner) \subseteq EntityRecords  BY DEF EntitiesOf
  <2> QED BY <2>1, <2>2, <1>1
<1>3. A \in SUBSET Values  BY <1>1
<1> HIDE DEF S, A, links
<1>4. Grown(added, layer, A, A, by)  BY <1>3, AddMatchGrows
<1>5. added \in LayerType  BY <1>4 DEF Grown
<1>6. Grown(plain, added, S, {}, by)  BY <1>1, <1>5, EnsureGrows
<1>7. plain \in LayerType  BY <1>6 DEF Grown
<1>8. Grown(EnsureEntityTokens(plain, links), plain, S, {}, by)  BY <1>2, <1>7, LinkGrows
<1>9. A \subseteq S  BY DEF A
<1>10. Grown(plain, layer, S, A, by)
  <2> HIDE DEF added, plain
  <2> QED BY <1>4, <1>6, <1>9, GrownTwice
<1>11. Grown(EnsureEntityTokens(plain, links), layer, S, A, by)
  <2> HIDE DEF plain
  <2> QED BY <1>8, <1>10, <1>9, GrownTwice
<1>12. Render(r, claims, layer, occs, by, admitted)
         = IF Keyed(r) THEN EnsureEntityTokens(plain, links) ELSE plain
  BY DEF Render, S, A, links
<1> QED BY <1>10, <1>11, <1>12 DEF S, A

(* The scope of r becomes after: derived tokens for vsR, detected tokens    *)
(* for vsD, none of them registered, and all of them known.                 *)
Writes(after, r) ==
    /\ after \in ScopeType
    /\ after.key = Scope(r).key /\ after.used = Scope(r).used
    /\ after.writers = Scope(r).writers \cup {req[r].key}
    /\ \E vsR, vsD \in SUBSET Values :
          /\ Grown(after.derived, Scope(r).derived, vsR, vsR, "registry")
          /\ Grown(after.detected, Scope(r).detected, vsD, vsD, "detected")
          /\ Scope(r).known \cup vsR \cup vsD \subseteq after.known
          /\ vsD \cap (Registered \cup req[r].user) = {}
    /\ Shown(Scope(r)) \subseteq Shown(after)
    /\ after.seen \subseteq Scope(r).seen \cup (IF Keyed(r) THEN ScannedTexts(req[r].body) ELSE {})
    /\ after.seen \subseteq Scope(r).seen \/ ScannedTexts(req[r].fresh) \subseteq Shown(after)
    /\ after.lastUsed = Scope(r).lastUsed

LEMMA GrownMonotone ==
    ASSUME NEW new, NEW old, NEW vs, NEW ms, NEW by, Grown(new, old, vs, ms, by), NEW vs2, NEW ms2,
           vs \subseteq vs2, ms \subseteq ms2
    PROVE  Grown(new, old, vs2, ms2, by)
<1>1. {Literal(v, by) : v \in vs} \subseteq {Literal(v, by) : v \in vs2}  OBVIOUS
<1> QED BY <1>1 DEF Grown

LEMMA RenderedWrites ==
    ASSUME TypeOK, NEW r \in Requests, NEW claims, IsClaims(claims),
           claims.strong = Registered \cup req[r].user,
           NEW occs, \A o \in occs : Backed(claims, o),
           NEW mild \in SUBSET Values, NEW complete \in BOOLEAN, NEW marked \in SUBSET occs
    PROVE  LET after == Rendered(r, mild, complete, claims, occs, marked)
           IN  /\ Writes(after, r)
               /\ \A v \in after.detected.match \cup after.derived.match :
                    \/ v \in Scope(r).detected.match \cup Scope(r).derived.match
                    \/ v \in claims.strong \cup claims.weak
               /\ Scope(r).tokenOnly \ (claims.strong \cup claims.weak) \subseteq after.tokenOnly
<1> DEFINE s == Scope(r)
           mine == {o \in occs : o.owner \in req[r].user}
           byRegistry == {o \in occs \ mine : o.owner \in claims.strong}
           byDetection == occs \ (marked \cup mine \cup byRegistry)
           admitted == {o.surface : o \in {x \in occs : ~Clipped(x)}}
           kept == {o.surface : o \in byRegistry \cup byDetection}
           derived == Render(r, claims, s.derived, byRegistry, "registry", admitted)
           detected == Render(r, claims, s.detected, byDetection, "detected", admitted)
           vsR == {o.surface : o \in byRegistry}
           vsD == {o.surface : o \in byDetection}
           after == Rendered(r, mild, complete, claims, occs, marked)
<1>1. s \in ScopeType /\ req[r] \in RequestType  BY ScopeTyped
<1>2. occs \in SUBSET Occurrences  BY DEF Backed
<1>3. after = [s EXCEPT
            !.derived = derived,
            !.detected = detected,
            !.known = @ \cup mild \cup kept,
            !.tokenOnly = (@ \ (kept \cap admitted)) \cup (kept \ admitted),
            !.seen = @ \cup Screened(r, complete, marked),
            !.writers = @ \cup {req[r].key},
            !.swept = IF complete THEN @ \cup TextsOf(Content(req[r].fresh)) ELSE @,
            !.asKey = IF complete THEN @ \cup TextsOf(KeysAmong(req[r].fresh)) ELSE @]
  BY DEF Rendered
<1>4. byRegistry \in SUBSET Occurrences /\ byDetection \in SUBSET Occurrences  BY <1>2
<1>5. vsR \in SUBSET Values /\ vsD \in SUBSET Values /\ kept = vsR \cup vsD  BY <1>4 DEF Occurrences
<1>6. s.derived \in LayerType /\ s.detected \in LayerType  BY <1>1 DEF ScopeType
<1>7. admitted \subseteq claims.strong \cup claims.weak
  <2> SUFFICES ASSUME NEW o \in occs, ~Clipped(o) PROVE o.surface \in claims.strong \cup claims.weak
    OBVIOUS
  <2>1. o.surface = o.owner /\ Rank(claims, o.owner) > 0  BY DEF Clipped, Backed
  <2> QED BY <2>1, RankOfClaim
<1>8. vsD \cap claims.strong = {}
  <2> SUFFICES ASSUME NEW o \in byDetection PROVE o.surface \notin claims.strong
    OBVIOUS
  <2>1. o.owner \notin claims.strong /\ Backed(claims, o)  OBVIOUS
  <2>2. Rank(claims, o.owner) # 2 /\ Rank(claims, o.owner) \in 0 .. 2 /\ Rank(claims, o.surface) \in 0 .. 2
    BY <2>1, RankOfClaim
  <2>3. Rank(claims, o.surface) # 2  BY <2>1, <2>2 DEF Backed
  <2> QED BY <2>3, RankOfClaim
<1>9. Screened(r, complete, marked)
         \subseteq (IF Keyed(r) /\ complete THEN ScannedTexts(req[r].body) ELSE {})
  BY DEF Screened, ScannedTexts, TextsOf
<1>10. mine \cap byDetection = {}  OBVIOUS
<1>11. Grown(derived, s.derived, vsR, vsR \cap admitted, "registry")
  <2> HIDE DEF byRegistry, s, admitted
  <2> QED BY <1>4, <1>6, RenderGrows DEF Authority
<1>12. Grown(detected, s.detected, vsD, vsD \cap admitted, "detected")
  <2> HIDE DEF byDetection, s, admitted
  <2> QED BY <1>4, <1>6, RenderGrows DEF Authority
<1> DEFINE screened == Screened(r, complete, marked)
<1> HIDE DEF s, admitted, kept, derived, detected, vsR, vsD, after, screened
<1>13. screened \in SUBSET Texts  BY <1>9, ScopeTyped, TextsTyped DEF screened
<1>14. derived \in LayerType /\ detected \in LayerType  BY <1>11, <1>12 DEF Grown
<1>15. /\ after \in ScopeType
       /\ after.key = s.key /\ after.used = s.used
       /\ after.derived = derived /\ after.detected = detected
       /\ after.known = s.known \cup mild \cup kept
       /\ after.tokenOnly = (s.tokenOnly \ (kept \cap admitted)) \cup (kept \ admitted)
       /\ after.seen = s.seen \cup screened
       /\ after.writers = s.writers \cup {req[r].key}
       /\ after.swept = IF complete THEN s.swept \cup TextsOf(Content(req[r].fresh)) ELSE s.swept
       /\ after.asKey = IF complete THEN s.asKey \cup TextsOf(KeysAmong(req[r].fresh)) ELSE s.asKey
       /\ after.lastUsed = s.lastUsed
  <2> DEFINE known == s.known \cup mild \cup kept
             tokenOnly == (s.tokenOnly \ (kept \cap admitted)) \cup (kept \ admitted)
             seen == s.seen \cup screened
             writers == s.writers \cup {req[r].key}
             swept == IF complete THEN s.swept \cup TextsOf(Content(req[r].fresh)) ELSE s.swept
             asKey == IF complete THEN s.asKey \cup TextsOf(KeysAmong(req[r].fresh)) ELSE s.asKey
  <2>1. after = [s EXCEPT !.derived = derived, !.detected = detected, !.known = known,
                          !.tokenOnly = tokenOnly, !.seen = seen, !.writers = writers,
                          !.swept = swept, !.asKey = asKey]
    BY <1>1, <1>3 DEF ScopeType, screened
  <2>2. /\ req[r].key \in Keys \cup {NoKey}
        /\ TextsOf(Content(req[r].fresh)) \in SUBSET Texts
        /\ TextsOf(KeysAmong(req[r].fresh)) \in SUBSET Texts
    BY <1>1, TextsTyped DEF RequestType
  <2>3. swept \in SUBSET Texts /\ asKey \in SUBSET Texts
    BY <1>1, <2>2 DEF ScopeType
  <2>4. /\ known \in SUBSET Values /\ tokenOnly \in SUBSET Values /\ seen \in SUBSET Texts
        /\ writers \in SUBSET (Keys \cup {NoKey})
    BY <1>1, <1>5, <1>13, <2>2 DEF ScopeType
  <2> HIDE DEF known, tokenOnly, seen, writers, swept, asKey
  <2>5. after \in ScopeType  BY <1>1, <1>14, <2>1, <2>3, <2>4 DEF ScopeType
  <2>6. /\ after.key = s.key /\ after.used = s.used /\ after.lastUsed = s.lastUsed
        /\ after.derived = derived /\ after.detected = detected /\ after.known = known
        /\ after.tokenOnly = tokenOnly /\ after.seen = seen /\ after.writers = writers
        /\ after.swept = swept /\ after.asKey = asKey
    BY <1>1, <2>1 DEF ScopeType
  <2> QED BY <2>5, <2>6 DEF known, tokenOnly, seen, writers, swept, asKey
<1>16. Writes(after, r)
  <2>1. Grown(derived, s.derived, vsR, vsR, "registry") /\ Grown(detected, s.detected, vsD, vsD, "detected")
    BY <1>11, <1>12, GrownMonotone
  <2>2. s.known \cup vsR \cup vsD \subseteq after.known /\ vsD \cap (Registered \cup req[r].user) = {}
    BY <1>5, <1>8, <1>15
  <2>3. screened \subseteq (IF Keyed(r) THEN ScannedTexts(req[r].body) ELSE {})  BY <1>9 DEF screened
  <2>4. complete \/ screened = {}  BY <1>9 DEF screened
  <2>5. Shown(s) \subseteq Shown(after)  BY <1>15 DEF Shown
  <2>6. complete => ScannedTexts(req[r].fresh) \subseteq Shown(after)
    <3>1. req[r].fresh \in SUBSET Leaves  BY ScopeTyped
    <3>2. ScannedTexts(req[r].fresh)
             = TextsOf(Content(req[r].fresh)) \cup TextsOf(KeysAmong(req[r].fresh))
      BY <3>1, TextsTyped
    <3> QED BY <3>2, <1>15 DEF Shown
  <2> QED BY <1>5, <1>15, <2>1, <2>2, <2>3, <2>4, <2>5, <2>6 DEF Writes, s
<1>17. \A v \in after.detected.match \cup after.derived.match :
          v \in s.detected.match \cup s.derived.match \/ v \in claims.strong \cup claims.weak
  BY <1>7, <1>11, <1>12, <1>15 DEF Grown
<1>18. s.tokenOnly \ (claims.strong \cup claims.weak) \subseteq after.tokenOnly
  BY <1>7, <1>15
<1> QED BY <1>16, <1>17, <1>18 DEF after, s

-----------------------------------------------------------------------------
(* The two passes                                                           *)

(* A pass of r ends: its scope is written, and the caller gets the markers  *)
(* and the leaks.                                                           *)
PassEnds(r, after) ==
    /\ Busy(r)
    /\ Writes(after, r)
    /\ req[r].phase = "detecting" \/ after.seen = Scope(r).seen
    /\ scope' = [scope EXCEPT ![req[r].scope] = after]
    /\ req' \in [Requests -> RequestType]
    /\ \A q \in Requests \ {r} : req'[q] = req[q]
    /\ req'[r].phase = "open" /\ req'[r].key = req[r].key /\ req'[r].scope = req[r].scope
    /\ req'[r].user = req[r].user
    /\ req'[r].out \cap Scope(r).known = {}
    /\ req'[r].leaks \subseteq after.tokenOnly
    /\ UNCHANGED <<failClosed, now, active, cache>>

LEMMA VisibleTyped ==
    ASSUME TypeOK, NEW r \in Requests
    PROVE  Visible(r) \in SUBSET Values
<1>1. \A l \in Leaves : AllIn(l) \in SUBSET Values
  <2> SUFFICES ASSUME NEW l \in Leaves, NEW v \in AllIn(l) PROVE v \in Values
    OBVIOUS
  <2>1. CASE v \in PlainIn[l.text]  BY <2>1, NestsTyped
  <2>2. CASE \E n \in NestsIn[l.text] : v \in {n[1], n[2], n[3]}
    <3>1. PICK n \in NestsIn[l.text] : v \in {n[1], n[2], n[3]}  BY <2>2
    <3>2. n \in Values \X Values \X Values  BY NestsTyped
    <3> QED BY <3>1, <3>2
  <2> QED BY <2>1, <2>2 DEF AllIn
<1>2. \A ls \in SUBSET Leaves : AllInBody(ls) \in SUBSET Values  BY <1>1 DEF AllInBody
<1>3. /\ req[r].fresh \in SUBSET Leaves /\ Content(req[r].fresh) \in SUBSET Leaves
      /\ Scanned(req[r].body) \in SUBSET Leaves
  BY ScopeTyped DEF Content, Scanned
<1> QED BY <1>2, <1>3 DEF Visible

LEMMA FinishBodyEnds ==
    ASSUME Inv, NEW r \in Requests, NEW found \in SUBSET Visible(r),
           NEW harsh \in SUBSET (found \cap Destroyed), NEW complete \in BOOLEAN,
           FinishBody(r, found, harsh, complete)
    PROVE  \E after : PassEnds(r, after)
<1> USE DEF Inv, ScopesHeld, ScopesFilled
<1> DEFINE claims == Claims(r, found)
           occs == UNION {Resolved(claims, l) : l \in req[r].body}
           marked == {o \in occs : IsDestroyed(r, claims, harsh, o)}
           after == Rendered(r, found \ harsh, complete, claims, occs, marked)
<1>1. /\ req[r].phase = "detecting"
      /\ scope' = [scope EXCEPT ![req[r].scope] = after]
      /\ req' = [req EXCEPT ![r].phase = "open", ![r].body = {}, ![r].fresh = {},
                            ![r].out = {o.surface : o \in marked},
                            ![r].leaks = Leaks(r, claims, after)]
      /\ UNCHANGED <<failClosed, now, active, cache>>
  <2> DEFINE Finished(c, os, ms, a) ==
               /\ scope' = [scope EXCEPT ![req[r].scope] = a]
               /\ req' = [req EXCEPT
                     ![r].phase = "open", ![r].body = {}, ![r].fresh = {},
                     ![r].out = {o.surface : o \in ms},
                     ![r].leaks = Leaks(r, c, a)]
  <2>1. \E c \in {Claims(r, found)} :
        \E os \in {UNION {Resolved(c, l) : l \in req[r].body}} :
        \E ms \in {{o \in os : IsDestroyed(r, c, harsh, o)}} :
        \E a \in {Rendered(r, found \ harsh, complete, c, os, ms)} : Finished(c, os, ms, a)
    BY DEF FinishBody
  <2> HIDE DEF Finished
  <2>2. Finished(claims, occs, marked, after)  BY <2>1
  <2> QED BY <2>2 DEF FinishBody, Finished
<1>2. /\ Registered \in SUBSET Values /\ Scope(r) \in ScopeType /\ req[r] \in RequestType
      /\ req[r].user \in SUBSET Values /\ req[r].body \in SUBSET Leaves /\ found \in SUBSET Values
  BY RegisteredType, ScopeTyped, VisibleTyped
<1>3. /\ IsClaims(claims)
      /\ claims.strong = Registered \cup req[r].user
      /\ Scope(r).known \ Scope(r).tokenOnly \subseteq claims.strong \cup claims.weak
  BY <1>2 DEF Claims, IsClaims, ScopeType
<1> HIDE DEF claims
<1>4. \A o \in occs : Backed(claims, o)  BY <1>2, <1>3, ResolvedBacked
<1>5. /\ Writes(after, r)
      /\ \A v \in after.detected.match \cup after.derived.match :
            \/ v \in Scope(r).detected.match \cup Scope(r).derived.match
            \/ v \in claims.strong \cup claims.weak
      /\ Scope(r).tokenOnly \ (claims.strong \cup claims.weak) \subseteq after.tokenOnly
  <2>1. found \ harsh \in SUBSET Values /\ marked \in SUBSET occs  BY <1>2
  <2> HIDE DEF occs, marked
  <2> QED BY <1>3, <1>4, <2>1, RenderedWrites
<1>6. Leaks(r, claims, after) \subseteq after.tokenOnly
  <2> SUFFICES ASSUME NEW v \in Leaks(r, claims, after) PROVE v \in after.tokenOnly
    OBVIOUS
  <2> HIDE DEF occs, marked, after
  <2>1. PICK l \in req[r].body : v \in LeftIn(claims, l)  BY DEF Leaks
  <2>2. v \notin claims.strong \cup claims.weak  BY <1>2, <1>3, <2>1, LeftIsUnclaimed
  <2>3. v \in after.derived.match \cup after.detected.match
    <3>1. v \in claims.strong \cup after.derived.match \cup after.detected.match  BY Zenon DEF Leaks
    <3> QED BY <2>2, <3>1
  <2>4. v \in Scope(r).detected.match \cup Scope(r).derived.match  BY <1>5, <2>2, <2>3
  <2>5. v \in Scope(r).known  BY <2>4, ScopeTyped DEF KnowsItsTokens, Scope
  <2> QED BY <1>3, <1>5, <2>2, <2>5
<1>7. Leaks(r, claims, after) \in SUBSET Values
  <2> HIDE DEF after
  <2> QED BY <1>6, <1>5 DEF Writes, ScopeType
<1>8. {o.surface : o \in marked} \cap Scope(r).known = {}  BY DEF IsDestroyed
<1>9. {o.surface : o \in marked} \in SUBSET Values  BY <1>4 DEF Backed, Occurrences
<1> DEFINE out == {o.surface : o \in marked}
           leaks == Leaks(r, claims, after)
<1> HIDE DEF out, leaks, after, occs, marked
<1>10. /\ req' \in [Requests -> RequestType]
       /\ \A q \in Requests \ {r} : req'[q] = req[q]
       /\ req'[r].phase = "open" /\ req'[r].key = req[r].key /\ req'[r].scope = req[r].scope
       /\ req'[r].user = req[r].user /\ req'[r].out = out /\ req'[r].leaks = leaks
  <2>1. out \in SUBSET Values /\ leaks \in SUBSET Values  BY <1>7, <1>9 DEF out, leaks
  <2>2. req' = [req EXCEPT ![r].phase = "open", ![r].body = {}, ![r].fresh = {},
                           ![r].out = out, ![r].leaks = leaks]
    BY <1>1 DEF out, leaks
  <2> DEFINE ended == [req[r] EXCEPT !.phase = "open", !.body = {}, !.fresh = {},
                                     !.out = out, !.leaks = leaks]
  <2>3. req \in [Requests -> RequestType]  BY DEF TypeOK
  <2>4. req' = [req EXCEPT ![r] = ended]  BY <2>2, <2>3
  <2>5. /\ ended \in RequestType
        /\ ended.phase = "open" /\ ended.key = req[r].key /\ ended.scope = req[r].scope
        /\ ended.user = req[r].user /\ ended.out = out /\ ended.leaks = leaks
    BY <1>2, <2>1 DEF RequestType
  <2> HIDE DEF ended
  <2> QED BY <2>3, <2>4, <2>5
<1>11. Busy(r)  BY <1>1 DEF Busy
<1>12. /\ req[r].phase = "detecting" /\ scope' = [scope EXCEPT ![req[r].scope] = after]
       /\ UNCHANGED <<failClosed, now, active, cache>>
  BY <1>1
<1>13. out \cap Scope(r).known = {} /\ leaks \subseteq after.tokenOnly
  BY <1>6, <1>8 DEF out, leaks
<1>14. PassEnds(r, after)
  <2>1. req'[r].out \cap Scope(r).known = {} /\ req'[r].leaks \subseteq after.tokenOnly
    BY <1>10, <1>13
  <2>2. Writes(after, r)  BY <1>5
  <2> QED BY <1>10, <1>11, <1>12, <2>1, <2>2 DEF PassEnds
<1> QED BY <1>14

LEMMA RedactTextEnds ==
    ASSUME Inv, NEW r \in Requests, NEW found \in SUBSET InTexts,
           NEW harsh \in SUBSET (found \cap Destroyed), RedactText(r, found, harsh)
    PROVE  \E after : PassEnds(r, after)
<1> USE DEF Inv, ScopesHeld, ScopesFilled
<1> DEFINE s == Scope(r)
           destroyed == {v \in harsh : v \notin Registered \cup req[r].user \cup s.known}
           fresh == {v \in found \ destroyed : ~HeldWithRegistryAuthority(r, v)}
           layer == AddMatchForms(s.detected, fresh, "detected")
           after == [s EXCEPT !.known = @ \cup fresh,
                              !.detected = AddMatchForms(@, fresh, "detected"),
                              !.writers = @ \cup {req[r].key}]
<1>1. /\ req[r].phase = "open"
      /\ scope' = [scope EXCEPT ![req[r].scope] = after]
      /\ req' = [req EXCEPT ![r].out = destroyed, ![r].leaks = {}]
      /\ UNCHANGED <<failClosed, now, active, cache>>
  BY DEF RedactText
<1>2. Registered \in SUBSET Values /\ s \in ScopeType /\ req[r] \in RequestType
  BY RegisteredType, ScopeTyped
<1>3. found \in SUBSET Values /\ destroyed \in SUBSET Values /\ fresh \in SUBSET Values
  BY DEF ConstantsAssumption
<1>4. fresh \cap (Registered \cup req[r].user) = {}
  <2> SUFFICES ASSUME NEW v \in Registered \cup req[r].user PROVE HeldWithRegistryAuthority(r, v)
    OBVIOUS
  <2>1. CASE v \in req[r].user
    <3>1. Literal(v, "user") \in UserLayer(r).literal /\ Literal(v, "user").value = v
      BY <2>1 DEF UserLayer, Literal
    <3>2. v \in Mapped(UserLayer(r))  BY <3>1 DEF Mapped
    <3>3. Layers(r)[1] = UserLayer(r)  BY DEF Layers
    <3> QED BY <3>2, <3>3 DEF HeldWithRegistryAuthority
  <2>2. CASE v \in Registered
    <3>1. Literal(v, "registry") \in Permanent.literal /\ Literal(v, "registry").value = v
      BY <2>2 DEF Permanent, Literal
    <3>2. v \in Mapped(Permanent)  BY <3>1 DEF Mapped
    <3>3. Layers(r)[4] = Permanent  BY DEF Layers
    <3> QED BY <3>2, <3>3 DEF HeldWithRegistryAuthority
  <2> QED BY <2>1, <2>2
<1>5. destroyed \cap s.known = {}  OBVIOUS
<1>6. after = [s EXCEPT !.known = @ \cup fresh, !.detected = layer, !.writers = @ \cup {req[r].key}]
  OBVIOUS
<1> HIDE DEF s, destroyed, fresh, after
<1>7. Grown(layer, s.detected, fresh, fresh, "detected")
  BY <1>2, <1>3, AddMatchGrows DEF ScopeType, Authority
<1> HIDE DEF layer
<1>8. layer \in LayerType  BY <1>7 DEF Grown
<1>9. /\ after \in ScopeType
      /\ after.key = s.key /\ after.used = s.used /\ after.derived = s.derived
      /\ after.detected = layer /\ after.known = s.known \cup fresh
      /\ after.seen = s.seen /\ after.swept = s.swept /\ after.asKey = s.asKey
      /\ after.tokenOnly = s.tokenOnly /\ after.lastUsed = s.lastUsed
      /\ after.writers = s.writers \cup {req[r].key}
  BY <1>2, <1>3, <1>6, <1>8 DEF ScopeType, RequestType
<1>10. Grown(s.derived, s.derived, {}, {}, "registry")
  BY <1>2 DEF Grown, ScopeType
<1>11. Writes(after, r)
  <2>1. {} \in SUBSET Values  OBVIOUS
  <2>2. Shown(s) = Shown(after)  BY <1>9 DEF Shown
  <2> QED BY <1>3, <1>4, <1>7, <1>9, <1>10, <2>1, <2>2 DEF Writes, s
<1>12. /\ req' \in [Requests -> RequestType]
       /\ \A q \in Requests \ {r} : req'[q] = req[q]
       /\ req'[r].phase = "open" /\ req'[r].key = req[r].key /\ req'[r].scope = req[r].scope
       /\ req'[r].user = req[r].user /\ req'[r].out = destroyed /\ req'[r].leaks = {}
  <2>1. req \in [Requests -> RequestType]  BY DEF TypeOK
  <2> QED BY <1>1, <1>3, <2>1 DEF RequestType
<1>13. Busy(r)  BY <1>1 DEF Busy
<1>14. PassEnds(r, after)  BY <1>1, <1>5, <1>9, <1>11, <1>12, <1>13 DEF PassEnds, s
<1> QED BY <1>14

-----------------------------------------------------------------------------
(* The invariant is inductive                                               *)

LEMMA InitHolds == Init => Inv
<1> SUFFICES ASSUME Init PROVE Inv  OBVIOUS
<1> USE DEF Init
<1>1. (CHOOSE o \in Objects : TRUE) \in Objects  BY DEF ConstantsAssumption
<1>2. Free \in ScopeType /\ Idle \in RequestType /\ Idle.phase = "idle"
  BY <1>1 DEF Free, Idle, ScopeType, RequestType, EmptyLayer, LayerType, ConstantsAssumption
<1>3. TypeOK  BY <1>2 DEF TypeOK, ConstantsAssumption
<1>4. \A o \in Objects : scope[o] = Free  OBVIOUS
<1>5. \A r \in Requests : ~Busy(r) /\ req[r].phase # "detecting"  BY <1>2 DEF Busy
<1>6. Len(cache) = 0  OBVIOUS
<1>7. UnusedAreFree /\ BusyHold /\ CachedAreKeyed /\ OnlyKeyedShare /\ SkippedWereShown
  BY <1>4, <1>5, <1>6 DEF UnusedAreFree, BusyHold, CachedAreKeyed, OnlyKeyedShare, SkippedWereShown
<1>8. /\ Mapped(EmptyLayer) = {} /\ TokensOf(EmptyLayer) = {} /\ EmptyLayer.match = {}
      /\ EmptyLayer.literal = {} /\ EmptyLayer.linked = {}
  BY DEF EmptyLayer, Mapped, TokensOf
<1>9. /\ Free.detected = EmptyLayer /\ Free.derived = EmptyLayer
      /\ Free.writers = {} /\ Free.seen = {}
  BY DEF Free
<1>10. OwnKeyWrites /\ KnowsItsTokens /\ LabelledByDetection /\ SeenWasShown
  BY <1>4, <1>8, <1>9 DEF OwnKeyWrites, KnowsItsTokens, LabelledByDetection, SeenWasShown
<1>11. CacheSound  BY <1>6 DEF CacheSound, ConstantsAssumption
<1>12. CacheOrdered
  <2>1. Free.lastUsed = 0 /\ now = 0  BY DEF Free
  <2> QED BY <2>1, <1>4, <1>6 DEF CacheOrdered, ByUse
<1> QED BY <1>3, <1>7, <1>10, <1>11, <1>12 DEF Inv, ScopesHeld, ScopesFilled

(* A layer that grows by literal tokens of known values stays known.        *)
LEMMA GrownStaysKnown ==
    ASSUME NEW new, NEW old, NEW vs, NEW by, Grown(new, old, vs, vs, by), NEW known,
           Mapped(old) \cup old.match \cup vs \subseteq known
    PROVE  Mapped(new) \cup new.match \subseteq known
<1>1. \A v \in vs : Literal(v, by).value = v  BY DEF Literal
<1>2. ASSUME NEW t \in new.literal PROVE t.value \in known
  <2>1. CASE t \in old.literal  BY <2>1 DEF Mapped
  <2>2. CASE \E v \in vs : t = Literal(v, by)  BY <2>2, <1>1
  <2> QED BY <2>1, <2>2 DEF Grown
<1> QED BY <1>2 DEF Grown, Mapped

LEMMA PassKeepsScopes ==
    ASSUME ScopesHeld, CacheSound, CacheOrdered, NEW r \in Requests, NEW after, PassEnds(r, after)
    PROVE  ScopesHeld' /\ CacheSound' /\ CacheOrdered'
<1> USE DEF ScopesHeld
<1> DEFINE p == req[r].scope
<1>1. p \in Objects /\ scope \in [Objects -> ScopeType] /\ Scope(r) = scope[p]
  BY ScopeTyped DEF TypeOK, Scope
<1>2. /\ scope' \in [Objects -> ScopeType]
      /\ scope'[p] = after /\ \A o \in Objects \ {p} : scope'[o] = scope[o]
      /\ \A o \in Objects : /\ scope'[o].key = scope[o].key /\ scope'[o].used = scope[o].used
                             /\ scope'[o].lastUsed = scope[o].lastUsed
  BY <1>1 DEF PassEnds, Writes
<1>3. /\ req' \in [Requests -> RequestType]
      /\ \A q \in Requests : req'[q].scope = req[q].scope /\ req'[q].key = req[q].key
                             /\ (Busy(q)' <=> Busy(q))
      /\ cache' = cache /\ UNCHANGED <<failClosed, now, active>>
  BY DEF PassEnds, Busy
<1>4. \A q \in Requests : req[q].scope \in Objects  BY ScopeTyped
<1>5. \A i \in 1 .. Len(cache) : cache[i] \in Objects  BY DEF TypeOK
<1>6. TypeOK'  BY <1>2, <1>3 DEF TypeOK
<1>7. UnusedAreFree'
  <2>1. scope[p].used  BY <1>1 DEF BusyHold, PassEnds
  <2> QED BY <1>2, <2>1 DEF UnusedAreFree
<1>8. BusyHold'  BY <1>2, <1>3, <1>4 DEF BusyHold, Scope
<1>9. CachedAreKeyed'  BY <1>2, <1>3, <1>5 DEF CachedAreKeyed
<1>10. CacheSound'  BY <1>2, <1>3, <1>5 DEF CacheSound
<1>11. CacheOrdered'  BY <1>2, <1>3, <1>5 DEF CacheOrdered, ByUse
<1> QED BY <1>6, <1>7, <1>8, <1>9, <1>10, <1>11

LEMMA PassFillsScopes ==
    ASSUME Inv, NEW r \in Requests, NEW after, PassEnds(r, after)
    PROVE  ScopesFilled'
<1> USE DEF Inv, ScopesHeld, ScopesFilled
<1> DEFINE p == req[r].scope
           s == scope[p]
<1>1. p \in Objects /\ scope \in [Objects -> ScopeType] /\ Scope(r) = s /\ s.key = req[r].key
  BY ScopeTyped DEF TypeOK, Scope, BusyHold, PassEnds
<1>2. scope'[p] = after /\ \A o \in Objects \ {p} : scope'[o] = scope[o]
  BY <1>1 DEF PassEnds
<1>3. /\ \A q \in Requests : req'[q].scope = req[q].scope /\ req'[q].key = req[q].key
                             /\ (Busy(q)' <=> Busy(q))
      /\ \A q \in Requests \ {r} : req'[q] = req[q]
      /\ req'[r].phase = "open"
  BY DEF PassEnds, Busy
<1> HIDE DEF s, p
<1>4. Writes(after, r)  BY DEF PassEnds
<1>5. PICK vsR \in SUBSET Values, vsD \in SUBSET Values :
          /\ Grown(after.derived, s.derived, vsR, vsR, "registry")
          /\ Grown(after.detected, s.detected, vsD, vsD, "detected")
          /\ s.known \cup vsR \cup vsD \subseteq after.known
  BY <1>1, <1>4 DEF Writes
<1>6. after.key = s.key /\ after.writers = s.writers \cup {req[r].key}
  BY <1>1, <1>4 DEF Writes
<1>7. OnlyKeyedShare'  BY <1>3 DEF OnlyKeyedShare, Keyed
<1>8. OwnKeyWrites'
  <2>1. after.writers \subseteq {after.key} /\ after.writers # {}
    BY <1>1, <1>6 DEF OwnKeyWrites, s
  <2> QED BY <1>2, <2>1 DEF OwnKeyWrites
<1>9. KnowsItsTokens'
  <2>1. Mapped(s.detected) \cup Mapped(s.derived) \cup s.detected.match \cup s.derived.match \subseteq s.known
    BY <1>1 DEF KnowsItsTokens, s
  <2>2. Mapped(after.derived) \cup after.derived.match \subseteq after.known
    BY <1>5, <2>1, GrownStaysKnown
  <2>3. Mapped(after.detected) \cup after.detected.match \subseteq after.known
    BY <1>5, <2>1, GrownStaysKnown
  <2> QED BY <1>2, <2>2, <2>3 DEF KnowsItsTokens
<1>10. LabelledByDetection'
  <2>1. \A v : Literal(v, "detected").value = v  BY DEF Literal
  <2>2. \A t \in s.detected.literal : t = Literal(t.value, "detected")
    BY <1>1 DEF LabelledByDetection, s
  <2>3. \A t \in s.detected.linked : t.label \in EntityRecords
    BY <1>1 DEF LabelledByDetection, s
  <2>4. \A t \in after.detected.literal : t = Literal(t.value, "detected")
    BY <1>5, <2>1, <2>2 DEF Grown
  <2>5. \A t \in after.detected.linked : t.label \in EntityRecords
    BY <1>5, <2>3 DEF Grown
  <2> QED BY <1>2, <2>4, <2>5 DEF LabelledByDetection
<1>11. SkippedWereShown'
  <2> SUFFICES ASSUME NEW q \in Requests, req'[q].phase = "detecting", Keyed(q)'
               PROVE  NotRead(req'[q].body, req'[q].fresh) \subseteq Shown(Scope(q)')
    BY DEF SkippedWereShown
  <2>1. q # r /\ req'[q] = req[q]  BY <1>3
  <2>2. NotRead(req[q].body, req[q].fresh) \subseteq Shown(Scope(q))
    BY <2>1 DEF SkippedWereShown, Keyed
  <2>3. req[q].scope \in Objects  BY ScopeTyped
  <2>4. Shown(Scope(q)) \subseteq Shown(Scope(q)')
    BY <1>1, <1>2, <1>4, <2>1, <2>3 DEF Scope, Writes, s
  <2> QED BY <2>1, <2>2, <2>4
<1>12. SeenWasShown'
  <2>1. s.seen \subseteq Shown(s)  BY <1>1 DEF SeenWasShown, s
  <2>2. after.seen \subseteq Shown(after)
    <3>1. CASE after.seen \subseteq s.seen  BY <3>1, <2>1, <1>1, <1>4 DEF Writes
    <3>2. CASE ~(after.seen \subseteq s.seen)
      <4>1. /\ ScannedTexts(req[r].fresh) \subseteq Shown(after) /\ Shown(s) \subseteq Shown(after)
            /\ after.seen \subseteq s.seen \cup (IF Keyed(r) THEN ScannedTexts(req[r].body) ELSE {})
        BY <3>2, <1>1, <1>4 DEF Writes
      <4>2. Keyed(r)  BY <3>2, <4>1
      <4>3. req[r].phase = "detecting"  BY <3>2, <1>1 DEF PassEnds
      <4>4. NotRead(req[r].body, req[r].fresh) \subseteq Shown(s)
        BY <4>2, <4>3, <1>1 DEF SkippedWereShown
      <4> QED BY <4>1, <4>2, <2>1, <4>4 DEF NotRead
    <3> QED BY <3>1, <3>2
  <2> QED BY <1>2, <2>2 DEF SeenWasShown
<1> QED BY <1>7, <1>8, <1>9, <1>10, <1>11, <1>12

(* Steps of one request that leave every scope and the cache alone.         *)
StaysOpen(r) ==
    /\ Busy(r)
    /\ req' \in [Requests -> RequestType]
    /\ \A q \in Requests \ {r} : req'[q] = req[q]
    /\ req'[r].phase # "idle" /\ req'[r].key = req[r].key /\ req'[r].scope = req[r].scope
    /\ UNCHANGED <<failClosed, now, active, cache, scope>>

LEMMA OpenStepKeeps ==
    ASSUME Inv, NEW r \in Requests, StaysOpen(r),
           req'[r].phase = "detecting" /\ Keyed(r)
             => NotRead(req'[r].body, req'[r].fresh) \subseteq Scope(r).seen
    PROVE  Inv'
<1> USE DEF Inv, ScopesHeld, ScopesFilled, StaysOpen
<1>1. \A q \in Requests : req'[q].scope = req[q].scope /\ req'[q].key = req[q].key /\ (Busy(q)' <=> Busy(q))
  BY DEF Busy
<1>2. TypeOK'  BY DEF TypeOK
<1>3. UnusedAreFree' /\ BusyHold' /\ CachedAreKeyed' /\ CacheSound' /\ CacheOrdered'
  BY <1>1 DEF UnusedAreFree, BusyHold, CachedAreKeyed, CacheSound, CacheOrdered, ByUse, Scope
<1>4. OnlyKeyedShare' /\ OwnKeyWrites' /\ KnowsItsTokens' /\ LabelledByDetection' /\ SeenWasShown'
  BY <1>1 DEF OnlyKeyedShare, OwnKeyWrites, KnowsItsTokens, LabelledByDetection, SeenWasShown, Keyed
<1>5. SkippedWereShown'
  <2> SUFFICES ASSUME NEW q \in Requests, req'[q].phase = "detecting", Keyed(q)'
               PROVE  NotRead(req'[q].body, req'[q].fresh) \subseteq Shown(Scope(q)')
    BY DEF SkippedWereShown
  <2>1. Keyed(q) /\ Scope(q)' = Scope(q)  BY <1>1 DEF Keyed, Scope
  <2>2. Scope(q).seen \subseteq Shown(Scope(q))  BY ScopeTyped DEF SeenWasShown, Scope
  <2>3. CASE q = r  BY <2>1, <2>2, <2>3
  <2>4. CASE q # r  BY <2>1, <2>4 DEF SkippedWereShown
  <2> QED BY <2>3, <2>4
<1> QED BY <1>2, <1>3, <1>4, <1>5

LEMMA RegisterKeeps ==
    ASSUME Inv, NEW r \in Requests, NEW vs \in SUBSET Values, RegisterProtectedValues(r, vs)
    PROVE  StaysOpen(r) /\ Inv' /\ req'[r].out = req[r].out /\ req'[r].leaks = req[r].leaks
<1>1. req \in [Requests -> RequestType]  BY DEF Inv, ScopesHeld, TypeOK
<1>2. /\ StaysOpen(r) /\ req'[r].phase = "open"
      /\ req'[r].out = req[r].out /\ req'[r].leaks = req[r].leaks
  BY <1>1 DEF RegisterProtectedValues, StaysOpen, Busy, RequestType
<1> QED BY <1>2, OpenStepKeeps

LEMMA StartBodyKeeps ==
    ASSUME Inv, NEW r \in Requests, NEW ls \in SUBSET Leaves, StartBody(r, ls)
    PROVE  StaysOpen(r) /\ Inv' /\ req'[r].out = {} /\ req'[r].leaks = {}
<1> DEFINE fresh == FreshOf(r, ls)
           started == [req[r] EXCEPT !.phase = "detecting", !.body = ls, !.out = {}, !.leaks = {},
                                     !.fresh = fresh]
<1>1. req \in [Requests -> RequestType]  BY DEF Inv, ScopesHeld, TypeOK
<1>2. fresh \in SUBSET Leaves /\ (Keyed(r) => NotRead(ls, fresh) \subseteq Scope(r).seen)
  BY DEF FreshOf, NotRead, ScannedTexts, TextsOf, Scanned
<1>3. /\ req[r].phase = "open" /\ UNCHANGED <<failClosed, now, active, cache, scope>>
      /\ req' = [req EXCEPT ![r].phase = "detecting", ![r].body = ls, ![r].out = {}, ![r].leaks = {},
                            ![r].fresh = FreshOf(r, ls)]
  BY DEF StartBody
<1>4. req' = [req EXCEPT ![r] = started]
  <2>1. req' = [req EXCEPT ![r].phase = "detecting", ![r].body = ls, ![r].out = {}, ![r].leaks = {},
                           ![r].fresh = fresh]
    BY <1>3
  <2> HIDE DEF fresh
  <2> QED BY <1>1, <2>1
<1> HIDE DEF fresh
<1>5. /\ started \in RequestType /\ started.phase = "detecting"
      /\ started.key = req[r].key /\ started.scope = req[r].scope
      /\ started.body = ls /\ started.fresh = fresh /\ started.out = {} /\ started.leaks = {}
  BY <1>1, <1>2 DEF RequestType
<1> HIDE DEF started
<1>6. /\ req' \in [Requests -> RequestType] /\ req'[r] = started
      /\ \A q \in Requests \ {r} : req'[q] = req[q]
  BY <1>1, <1>4, <1>5
<1>7. StaysOpen(r)  BY <1>3, <1>5, <1>6 DEF StaysOpen, Busy
<1> QED BY <1>2, <1>5, <1>6, <1>7, OpenStepKeeps

LEMMA DetectorBlocksKeeps ==
    ASSUME Inv, NEW r \in Requests, DetectorBlocks(r)
    PROVE  StaysOpen(r) /\ Inv' /\ req'[r].out = req[r].out /\ req'[r].leaks = req[r].leaks
<1>1. req \in [Requests -> RequestType]  BY DEF Inv, ScopesHeld, TypeOK
<1> DEFINE blocked == [req[r] EXCEPT !.phase = "open", !.body = {}, !.fresh = {}]
<1>2. req' = [req EXCEPT ![r] = blocked]  BY <1>1 DEF DetectorBlocks
<1>3. /\ blocked \in RequestType /\ blocked.phase = "open"
      /\ blocked.key = req[r].key /\ blocked.scope = req[r].scope
      /\ blocked.out = req[r].out /\ blocked.leaks = req[r].leaks
  BY <1>1 DEF RequestType
<1> HIDE DEF blocked
<1>4. /\ req' \in [Requests -> RequestType] /\ req'[r] = blocked
      /\ \A q \in Requests \ {r} : req'[q] = req[q]
  BY <1>1, <1>2, <1>3
<1>5. StaysOpen(r)  BY <1>3, <1>4 DEF StaysOpen, Busy, DetectorBlocks
<1> QED BY <1>3, <1>4, <1>5, OpenStepKeeps

LEMMA ReloadKeeps ==
    ASSUME Inv, NEW more \in SUBSET Records, ReloadRegistryValues(more)
    PROVE  Inv'
<1> USE DEF Inv, ScopesHeld, ScopesFilled, ReloadRegistryValues
<1>1. TypeOK'  BY DEF TypeOK
<1>2. UnusedAreFree' /\ BusyHold' /\ CachedAreKeyed' /\ CacheSound' /\ CacheOrdered'
  BY DEF UnusedAreFree, BusyHold, CachedAreKeyed, CacheSound, CacheOrdered, ByUse, Scope, Busy
<1>3. /\ OnlyKeyedShare' /\ OwnKeyWrites' /\ KnowsItsTokens' /\ LabelledByDetection'
      /\ SeenWasShown' /\ SkippedWereShown'
  BY DEF OnlyKeyedShare, OwnKeyWrites, KnowsItsTokens, LabelledByDetection, SeenWasShown,
         SkippedWereShown, Keyed, Scope, Busy
<1> QED BY <1>1, <1>2, <1>3

LEMMA TickKeeps == ASSUME Inv, Tick PROVE Inv'
<1> USE DEF Inv, ScopesHeld, ScopesFilled, Tick
<1>1. TypeOK'
  <2>1. now' \in 0 .. MaxTime  BY DEF TypeOK, ConstantsAssumption
  <2> QED BY <2>1 DEF TypeOK
<1>2. UnusedAreFree' /\ BusyHold' /\ CachedAreKeyed' /\ CacheSound'
  BY DEF UnusedAreFree, BusyHold, CachedAreKeyed, CacheSound, Scope, Busy
<1>3. /\ OnlyKeyedShare' /\ OwnKeyWrites' /\ KnowsItsTokens' /\ LabelledByDetection'
      /\ SeenWasShown' /\ SkippedWereShown'
  BY DEF OnlyKeyedShare, OwnKeyWrites, KnowsItsTokens, LabelledByDetection, SeenWasShown,
         SkippedWereShown, Keyed, Scope, Busy
<1>4. CacheOrdered'
  <2>1. now \in Nat /\ \A o \in Objects : scope[o].lastUsed \in Nat  BY DEF TypeOK, ScopeType
  <2> QED BY <2>1 DEF CacheOrdered, ByUse
<1> QED BY <1>1, <1>2, <1>3, <1>4

LEMMA StutterKeeps == ASSUME Inv, UNCHANGED vars PROVE Inv'
<1> USE DEF Inv, ScopesHeld, ScopesFilled, vars
<1>1. TypeOK' /\ UnusedAreFree' /\ BusyHold' /\ CachedAreKeyed' /\ CacheSound' /\ CacheOrdered'
  BY DEF TypeOK, CacheOrdered, ByUse, UnusedAreFree, BusyHold, CachedAreKeyed, CacheSound, Scope, Busy
<1>2. /\ OnlyKeyedShare' /\ OwnKeyWrites' /\ KnowsItsTokens' /\ LabelledByDetection'
      /\ SeenWasShown' /\ SkippedWereShown'
  BY DEF OnlyKeyedShare, OwnKeyWrites, KnowsItsTokens, LabelledByDetection, SeenWasShown,
         SkippedWereShown, Keyed, Scope, Busy
<1> QED BY <1>1, <1>2

-----------------------------------------------------------------------------
(* Opening, closing and evicting scopes                                     *)

(* In s every scope has what it had, and those in use keep their keys.      *)
Carried(s) ==
    /\ s \in [Objects -> ScopeType]
    /\ \A p \in Objects :
          /\ s[p].detected = scope[p].detected /\ s[p].derived = scope[p].derived
          /\ s[p].known = scope[p].known /\ s[p].seen = scope[p].seen
          /\ s[p].writers = scope[p].writers
          /\ s[p].swept = scope[p].swept /\ s[p].asKey = scope[p].asKey
          /\ scope[p].used => s[p].used /\ s[p].key = scope[p].key
          /\ ~s[p].used => s[p] = Free

LEMMA FreeIsEmpty ==
    /\ Free \in ScopeType /\ ~Free.used
    /\ Free.writers = {} /\ Free.seen = {}
    /\ Free.detected.literal = {} /\ Free.detected.linked = {}
    /\ TokensOf(Free.detected) \cup TokensOf(Free.derived) = {}
    /\ Mapped(Free.detected) \cup Mapped(Free.derived)
         \cup Free.detected.match \cup Free.derived.match \subseteq Free.known
BY DEF Free, ScopeType, LayerType, EmptyLayer, TokensOf, Mapped, ConstantsAssumption

(* What the step leaves are scopes of s, at least those that can be reached. *)
Remains(s) ==
    /\ scope' \in [Objects -> ScopeType]
    /\ \A p \in Objects : scope'[p] = s[p] \/ scope'[p] = Free
    /\ \A r \in Requests : Busy(r)' => Scope(r)' = s[req'[r].scope]
    /\ \A i \in 1 .. Len(cache') : cache'[i] \in Objects /\ scope'[cache'[i]] = s[cache'[i]]

LEMMA CollectedRemains ==
    ASSUME NEW s \in [Objects -> ScopeType], scope' = Collected(s, cache', req'),
           cache' \in Seq(Objects), req' \in [Requests -> RequestType]
    PROVE  Remains(s)
<1> DEFINE reached == Referenced(cache', req')
<1>1. scope' = [o \in Objects |-> IF o \in reached THEN s[o] ELSE Free]
  BY DEF Collected
<1>2. \A r \in Requests : Busy(r)' => req'[r].scope \in reached /\ req'[r].scope \in Objects
  BY DEF Busy, Referenced, RequestType
<1>3. \A i \in 1 .. Len(cache') : cache'[i] \in reached /\ cache'[i] \in Objects
  <2> TAKE i \in 1 .. Len(cache')
  <2>1. i \in DOMAIN cache'  OBVIOUS
  <2>2. cache'[i] \in Range(cache')  BY <2>1 DEF Range
  <2> QED BY <2>2 DEF Referenced
<1> HIDE DEF reached
<1> QED BY <1>1, <1>2, <1>3, FreeIsEmpty DEF Scope, Remains

LEMMA CarriedKeeps ==
    ASSUME Inv, NEW s, Carried(s), \A p \in Objects : scope'[p] = s[p] \/ scope'[p] = Free
    PROVE  /\ UnusedAreFree' /\ OwnKeyWrites' /\ KnowsItsTokens' /\ LabelledByDetection'
           /\ SeenWasShown'
<1> USE DEF Inv, ScopesHeld, ScopesFilled
<1>1. UnusedAreFree'  BY DEF Carried, UnusedAreFree
<1>2. ASSUME NEW p \in Objects
      PROVE  /\ scope'[p].writers \subseteq {scope'[p].key}
             /\ scope'[p].writers = {} => TokensOf(scope'[p].detected) \cup TokensOf(scope'[p].derived) = {}
  <2>1. CASE scope'[p] = Free  BY <2>1, FreeIsEmpty
  <2>2. CASE scope'[p] = s[p] /\ scope[p].used
    <3>1. /\ scope'[p].key = scope[p].key /\ scope'[p].writers = scope[p].writers
          /\ scope'[p].detected = scope[p].detected /\ scope'[p].derived = scope[p].derived
      BY <2>2 DEF Carried
    <3> QED BY <3>1 DEF OwnKeyWrites
  <2>3. CASE scope'[p] = s[p] /\ ~scope[p].used
    <3>1. scope[p].writers = {}  BY <2>3, FreeIsEmpty DEF UnusedAreFree
    <3>2. TokensOf(scope[p].detected) \cup TokensOf(scope[p].derived) = {}  BY <3>1 DEF OwnKeyWrites
    <3> QED BY <2>3, <3>1, <3>2 DEF Carried
  <2> QED BY <2>1, <2>2, <2>3
<1>3. OwnKeyWrites'  BY <1>2 DEF OwnKeyWrites
<1>4. KnowsItsTokens'  BY FreeIsEmpty DEF Carried, KnowsItsTokens
<1>5. LabelledByDetection'  BY FreeIsEmpty DEF Carried, LabelledByDetection
<1>6. SeenWasShown'BY FreeIsEmpty DEF Carried, SeenWasShown, Shown<1> QED BY <1>1, <1>3, <1>4, <1>5, <1>6

LEMMA UnchangedCarried == ASSUME Inv PROVE Carried(scope)
BY DEF Inv, ScopesHeld, Carried, TypeOK, UnusedAreFree

LEMMA EndRequestKeeps ==
    ASSUME Inv, NEW r \in Requests, EndRequest(r)
    PROVE  Inv' /\ req' = [req EXCEPT ![r] = Idle] /\ cache' = cache /\ Remains(scope)
<1> USE DEF Inv, ScopesHeld, ScopesFilled
<1>1. /\ req' = [req EXCEPT ![r] = Idle] /\ UNCHANGED <<failClosed, now, active, cache>>
      /\ scope' = Collected(scope, cache', req')
  BY DEF EndRequest
<1>2. Idle \in RequestType /\ Idle.phase = "idle"
  <2>1. (CHOOSE o \in Objects : TRUE) \in Objects  BY DEF ConstantsAssumption
  <2> QED BY <2>1 DEF Idle, RequestType
<1>3. /\ req' \in [Requests -> RequestType] /\ cache' \in Seq(Objects)
      /\ \A q \in Requests : Busy(q)' => req'[q] = req[q] /\ Busy(q)
  BY <1>1, <1>2 DEF TypeOK, Busy
<1>4. /\ \A p \in Objects : scope'[p] = scope[p] \/ scope'[p] = Free
      /\ \A q \in Requests : Busy(q)' => Scope(q)' = Scope(q)
      /\ \A i \in 1 .. Len(cache) : cache[i] \in Objects /\ scope'[cache[i]] = scope[cache[i]]
      /\ Remains(scope)
  <2>1. Remains(scope)  BY <1>1, <1>3, CollectedRemains DEF TypeOK
  <2> QED BY <1>1, <1>3, <2>1 DEF Remains, Scope
<1>5. UnusedAreFree' /\ OwnKeyWrites' /\ KnowsItsTokens' /\ LabelledByDetection' /\ SeenWasShown'
  BY <1>4, UnchangedCarried, CarriedKeeps
<1>6. TypeOK'
  <2>1. scope' \in [Objects -> ScopeType]  BY <1>4 DEF Remains
  <2> QED BY <1>1, <1>3, <2>1 DEF TypeOK
<1>7. BusyHold'  BY <1>3, <1>4 DEF BusyHold
<1>8. CachedAreKeyed'  BY <1>1, <1>4 DEF CachedAreKeyed
<1>9. CacheSound'
  <2>1. cache' = cache /\ \A i \in 1 .. Len(cache) : scope'[cache[i]].key = scope[cache[i]].key
    BY <1>1, <1>4
  <2> QED BY <2>1 DEF CacheSound
<1>10. OnlyKeyedShare'  BY <1>3 DEF OnlyKeyedShare, Keyed
<1>13. CacheOrdered'
  <2>1. Free.lastUsed = 0 /\ now \in Nat /\ now' = now  BY <1>1 DEF Free, TypeOK
  <2>2. \A p \in Objects : scope'[p].lastUsed <= now'
    BY <1>4, <2>1 DEF CacheOrdered
  <2> QED BY <1>1, <1>4, <2>2 DEF CacheOrdered, ByUse
<1>11. SkippedWereShown'
  <2> SUFFICES ASSUME NEW q \in Requests, req'[q].phase = "detecting", Keyed(q)'
               PROVE  NotRead(req'[q].body, req'[q].fresh) \subseteq Shown(Scope(q)')
    BY DEF SkippedWereShown
  <2>1. Busy(q)'  BY DEF Busy
  <2> QED BY <1>3, <1>4, <2>1 DEF SkippedWereShown, Keyed
<1>12. Inv'  BY <1>5, <1>6, <1>7, <1>8, <1>9, <1>10, <1>11, <1>13
<1> QED BY <1>1, <1>4, <1>12

(* Whatever leaves the cache has expired, or makes room in a full one.      *)
LeavesCache(s) ==
    \A p \in Range(cache) \ Range(cache') : Expired(scope, p) \/ Full(cache', s, p)

(* A request opens on scope o: under k the scope comes out of or into the   *)
(* cache, and without a key it is a new one.                                *)
Opens(r, o, k, s) ==
    /\ o \in Objects /\ k \in Keys \cup {NoKey}
    /\ ~Busy(r)
    /\ req' = [req EXCEPT ![r] = Open(o, k)]
    /\ Carried(s)
    /\ s[o].used /\ s[o].key = k
    /\ k = NoKey => ~scope[o].used
    /\ Remains(s)
    /\ cache' \in Seq(Objects)
    /\ \A i \in 1 .. Len(cache') : (cache'[i] = o /\ k # NoKey) \/ \E j \in 1 .. Len(cache) : cache'[i] = cache[j]
    /\ OneKeyEach(cache', s) /\ Len(cache') <= ScopesMax
    /\ ByUse(cache', s) /\ \A p \in Objects : scope[p].lastUsed <= s[p].lastUsed /\ s[p].lastUsed <= now
    /\ LeavesCache(s)
    /\ UNCHANGED <<failClosed, now, active>>

LEMMA OpensKeeps ==
    ASSUME Inv, NEW r \in Requests, NEW o, NEW k, NEW s, Opens(r, o, k, s)
    PROVE  Inv'
<1> USE DEF Inv, ScopesHeld, ScopesFilled
<1>1. /\ Open(o, k) \in RequestType
      /\ Open(o, k).phase = "open" /\ Open(o, k).scope = o /\ Open(o, k).key = k
  <2>1. (CHOOSE p \in Objects : TRUE) \in Objects  BY DEF ConstantsAssumption
  <2> QED BY <2>1 DEF Opens, Open, Idle, RequestType
<1>2. /\ req' \in [Requests -> RequestType] /\ cache' \in Seq(Objects)
      /\ req'[r] = Open(o, k) /\ \A q \in Requests \ {r} : req'[q] = req[q]
      /\ Busy(r)' /\ \A q \in Requests \ {r} : Busy(q)' <=> Busy(q)
  BY <1>1 DEF Opens, TypeOK, Busy
<1>3. /\ \A p \in Objects : scope'[p] = s[p] \/ scope'[p] = Free
      /\ \A q \in Requests : Busy(q)' => Scope(q)' = s[req'[q].scope]
      /\ \A i \in 1 .. Len(cache') : cache'[i] \in Objects /\ scope'[cache'[i]] = s[cache'[i]]
  BY DEF Opens, Remains
<1>4. UnusedAreFree' /\ OwnKeyWrites' /\ KnowsItsTokens' /\ LabelledByDetection' /\ SeenWasShown'
  BY <1>3, CarriedKeeps DEF Opens
<1>5. TypeOK'
  <2>1. scope' \in [Objects -> ScopeType]
    BY DEF Opens, Remains
  <2> QED BY <1>2, <2>1 DEF TypeOK, Opens
<1>6. \A q \in Requests \ {r} : Busy(q) => /\ Scope(q)' = s[req[q].scope] /\ req[q].scope \in Objects
                                           /\ scope[req[q].scope].used
                                           /\ scope[req[q].scope].key = req[q].key
  BY <1>2, <1>3, ScopeTyped DEF BusyHold, Scope
<1>7. BusyHold'
  <2> SUFFICES ASSUME NEW q \in Requests, Busy(q)' PROVE Scope(q)'.used /\ Scope(q)'.key = req'[q].key
    BY DEF BusyHold
  <2>1. CASE q = r  BY <2>1, <1>1, <1>2, <1>3 DEF Opens
  <2>2. CASE q # r  BY <2>2, <1>2, <1>6 DEF Opens, Carried
  <2> QED BY <2>1, <2>2
<1>8. \A j \in 1 .. Len(cache) : s[cache[j]].used /\ s[cache[j]].key \in Keys
  <2> TAKE j \in 1 .. Len(cache)
  <2>1. cache[j] \in Objects  BY DEF TypeOK
  <2> QED BY <2>1 DEF CachedAreKeyed, Opens, Carried
<1>9. \A i \in 1 .. Len(cache') : s[cache'[i]].used /\ s[cache'[i]].key \in Keys
  BY <1>8 DEF Opens
<1>10. CachedAreKeyed'  BY <1>3, <1>9 DEF CachedAreKeyed
<1>11. CacheSound'
  <2>1. Len(cache') <= ScopesMax /\ OneKeyEach(cache', s)  BY DEF Opens
  <2>2. \A i, j \in 1 .. Len(cache') : scope'[cache'[i]].key = scope'[cache'[j]].key => i = j
    BY <2>1, <1>3 DEF OneKeyEach
  <2>3. \A i \in 1 .. Len(cache') : scope'[cache'[i]].key # NoKey
    BY <1>3, <1>9 DEF ConstantsAssumption
  <2> QED BY <2>1, <2>2, <2>3 DEF CacheSound
<1>12. OnlyKeyedShare'
  <2> SUFFICES ASSUME NEW p \in Requests, NEW q \in Requests, Busy(p)', Busy(q)', p # q,
                      req'[p].scope = req'[q].scope
               PROVE  Keyed(p)'
    BY DEF OnlyKeyedShare
  <2>1. CASE p = r
    <3>1. scope[o].used /\ q # r  BY <2>1, <1>1, <1>2, <1>6
    <3> QED BY <2>1, <3>1, <1>1, <1>2 DEF Opens, Keyed
  <2>2. CASE q = r
    <3>1. scope[o].used /\ scope[o].key = req[p].key /\ req'[p] = req[p]
      BY <2>2, <1>1, <1>2, <1>6
    <3>2. s[o].key = scope[o].key  BY <3>1 DEF Opens, Carried
    <3> QED BY <3>1, <3>2 DEF Opens, Keyed
  <2>3. CASE p # r /\ q # r  BY <2>3, <1>2 DEF OnlyKeyedShare, Keyed
  <2> QED BY <2>1, <2>2, <2>3
<1>13. SkippedWereShown'
  <2> SUFFICES ASSUME NEW q \in Requests, req'[q].phase = "detecting", Keyed(q)'
               PROVE  NotRead(req'[q].body, req'[q].fresh) \subseteq Shown(Scope(q)')
    BY DEF SkippedWereShown
  <2>1. q # r  BY <1>1, <1>2
  <2>2. Busy(q) /\ req'[q] = req[q]  BY <2>1, <1>2 DEF Busy
  <2>3. NotRead(req[q].body, req[q].fresh) \subseteq Shown(Scope(q))  BY <2>2 DEF SkippedWereShown, Keyed
  <2>4. Shown(Scope(q)') = Shown(Scope(q))
    BY <2>1, <2>2, <1>6 DEF Opens, Carried, Scope, Shown
  <2> QED BY <2>2, <2>3, <2>4
<1>14. CacheOrdered'
  <2>1. Free.lastUsed = 0 /\ now \in Nat /\ now' = now  BY DEF Free, TypeOK, Opens
  <2>2. \A p \in Objects : scope'[p].lastUsed <= now'
    BY <1>3, <2>1 DEF Opens
  <2>3. ByUse(cache', s)  BY DEF Opens
  <2> QED BY <1>3, <2>2, <2>3 DEF CacheOrdered, ByUse
<1> QED BY <1>4, <1>5, <1>7, <1>10, <1>11, <1>12, <1>13, <1>14

LEMMA BeginEphemeralOpens ==
    ASSUME Inv, NEW r \in Requests, BeginEphemeral(r)
    PROVE  \E o, k, s : Opens(r, o, k, s)
<1> USE DEF Inv, ScopesHeld
<1>1. PICK o \in Objects :
         /\ ~scope[o].used
         /\ scope' = [scope EXCEPT ![o] = [Free EXCEPT !.used = TRUE]]
         /\ req' = [req EXCEPT ![r] = Open(o, NoKey)]
  BY DEF BeginEphemeral
<1> DEFINE new == [Free EXCEPT !.used = TRUE]
<1>2. scope[o] = Free  BY <1>1 DEF UnusedAreFree
<1>3. /\ new \in ScopeType /\ new.used /\ new.key = NoKey
      /\ new.detected = Free.detected /\ new.derived = Free.derived /\ new.known = Free.known
      /\ new.seen = Free.seen /\ new.writers = Free.writers
      /\ new.swept = Free.swept /\ new.asKey = Free.asKey /\ new.lastUsed = Free.lastUsed
  BY FreeIsEmpty DEF Free, ScopeType
<1> HIDE DEF new
<1>4. scope' = [scope EXCEPT ![o] = new] /\ scope \in [Objects -> ScopeType]  BY <1>1 DEF new, TypeOK
<1>5. Carried(scope')  BY <1>1, <1>2, <1>3, <1>4 DEF Carried, UnusedAreFree
<1>6. cache' = cache /\ UNCHANGED <<failClosed, now, active>> /\ ~Busy(r)
  BY DEF BeginEphemeral, Busy
<1>7. req' \in [Requests -> RequestType]
  <2>1. Open(o, NoKey) \in RequestType
    <3>1. (CHOOSE p \in Objects : TRUE) \in Objects  BY DEF ConstantsAssumption
    <3> QED BY <3>1 DEF Open, Idle, RequestType
  <2> QED BY <1>1, <2>1 DEF TypeOK
<1>8. \A i \in 1 .. Len(cache) : cache[i] \in Objects /\ cache[i] # o
  BY <1>1 DEF TypeOK, CachedAreKeyed
<1>9. Remains(scope')
  <2>1. \A q \in Requests : req'[q].scope \in Objects  BY <1>7 DEF RequestType
  <2> QED BY <1>5, <1>6, <1>8, <2>1 DEF Remains, Carried, Scope
<1>11. OneKeyEach(cache', scope') /\ Len(cache') <= ScopesMax
  BY <1>4, <1>6, <1>8 DEF OneKeyEach, CacheSound
<1>13. ByUse(cache', scope') /\ LeavesCache(scope')
  BY <1>4, <1>6, <1>8 DEF ByUse, CacheOrdered, LeavesCache
<1>14. \A p \in Objects : scope[p].lastUsed <= scope'[p].lastUsed /\ scope'[p].lastUsed <= now
  <2>1. \A p \in Objects : scope'[p].lastUsed = scope[p].lastUsed /\ scope[p].lastUsed \in Nat
    BY <1>2, <1>3, <1>4 DEF ScopeType
  <2> QED BY <2>1 DEF CacheOrdered
<1>12. Opens(r, o, NoKey, scope')
  BY <1>1, <1>3, <1>4, <1>5, <1>6, <1>9, <1>11, <1>13, <1>14 DEF Opens, TypeOK
<1> QED BY <1>12

LEMMA BeginRequestOpens ==
    ASSUME Inv, NEW r \in Requests, NEW k \in Keys, BeginRequest(r, k)
    PROVE  \E o, s : Opens(r, o, k, s)
<1> USE DEF Inv, ScopesHeld
<1> DEFINE fresh == ScopeOf(k) = {}
           entry(o) == IF fresh THEN [Free EXCEPT !.key = k, !.used = TRUE, !.lastUsed = now]
                       ELSE [scope[o] EXCEPT !.lastUsed = now]
           opened(o) == [scope EXCEPT ![o] = entry(o)]
<1>1. PICK o \in Objects :
         /\ IF fresh THEN ~scope[o].used ELSE o \in ScopeOf(k)
         /\ cache' = Evicted(Touched(k, o, cache, opened(o)), opened(o))
         /\ req' = [req EXCEPT ![r] = Open(o, k)]
         /\ scope' = Collected(opened(o), cache', req')
  <2>1. PICK o \in Objects :
          LET s1 == [scope EXCEPT ![o] = IF fresh
                                       THEN [Free EXCEPT !.key = k, !.used = TRUE, !.lastUsed = now]
                                       ELSE [@ EXCEPT !.lastUsed = now]]
              c1 == Evicted(Touched(k, o, cache, s1), s1)
              rs == [req EXCEPT ![r] = Open(o, k)]
          IN  /\ IF fresh THEN ~scope[o].used ELSE o \in ScopeOf(k)
              /\ cache' = c1
              /\ req' = rs
              /\ scope' = Collected(s1, c1, rs)
    BY DEF BeginRequest
  <2>2. [scope EXCEPT ![o] = IF fresh
                             THEN [Free EXCEPT !.key = k, !.used = TRUE, !.lastUsed = now]
                             ELSE [@ EXCEPT !.lastUsed = now]] = opened(o)
    BY DEF TypeOK
  <2> QED BY <2>1, <2>2
<1> DEFINE new == entry(o)
           s == opened(o)
           t == Touched(k, o, cache, s)
<1>2. scope[o] \in ScopeType /\ now \in 0 .. MaxTime  BY DEF TypeOK
<1>3. \A i \in 1 .. Len(cache) : cache[i] \in Objects  BY DEF TypeOK
<1>4. ~fresh => scope[o].used /\ scope[o].key = k
  <2> SUFFICES ASSUME o \in ScopeOf(k) PROVE scope[o].used /\ scope[o].key = k
    BY <1>1
  <2> DEFINE d == Evicted(cache, scope)
  <2>1. Thinned(d, cache) /\ cache \in Seq(Objects)  BY EvictedIsEnd DEF TypeOK
  <2>2. PICK i \in DOMAIN d : o = d[i]  BY DEF ScopeOf, Range
  <2>3. DOMAIN d = 1 .. Len(d)  BY <2>1 DEF Thinned
  <2>4. \E j \in 1 .. Len(cache) : d[i] = cache[j]
    <3> HIDE DEF d
    <3> QED BY <2>1, <2>2, <2>3, ThinnedWithin
  <2> QED BY <2>2, <2>4 DEF CachedAreKeyed, ScopeOf
<1>5. fresh => ~scope[o].used /\ scope[o] = Free  BY <1>1 DEF UnusedAreFree
<1>6. /\ new \in ScopeType /\ new.used /\ new.key = k
      /\ new.detected = scope[o].detected /\ new.derived = scope[o].derived
      /\ new.known = scope[o].known /\ new.seen = scope[o].seen
      /\ new.writers = scope[o].writers
      /\ new.swept = scope[o].swept /\ new.asKey = scope[o].asKey /\ new.lastUsed = now
  <2>1. CASE fresh
    <3>1. new = [Free EXCEPT !.key = k, !.used = TRUE, !.lastUsed = now]  BY <2>1
    <3> HIDE DEF new
    <3> QED BY <2>1, <3>1, <1>2, <1>5 DEF ScopeType, Free
  <2>2. CASE ~fresh
    <3>1. new = [scope[o] EXCEPT !.lastUsed = now]  BY <2>2
    <3> HIDE DEF new
    <3> QED BY <2>2, <3>1, <1>2, <1>4 DEF ScopeType
  <2> QED BY <2>1, <2>2
<1>7. s = [scope EXCEPT ![o] = new] /\ scope \in [Objects -> ScopeType]  BY DEF TypeOK
<1> HIDE DEF new, s, fresh, entry, opened
<1>8. s \in [Objects -> ScopeType] /\ s[o] = new /\ \A p \in Objects \ {o} : s[p] = scope[p]
  BY <1>6, <1>7
<1>9. Carried(s)  BY <1>4, <1>5, <1>6, <1>8 DEF Carried, UnusedAreFree
<1>10. \A i \in 1 .. Len(cache) : s[cache[i]].key = scope[cache[i]].key
  BY <1>3, <1>9 DEF Carried, CachedAreKeyed
<1>11. OneKeyEach(cache, s)  BY <1>10 DEF OneKeyEach, CacheSound
<1>12. /\ t \in Seq(Objects) /\ OneKeyEach(t, s)
       /\ \A i \in 1 .. Len(t) : t[i] = o \/ \E j \in 1 .. Len(cache) : t[i] = cache[j]
  BY <1>6, <1>8, <1>11, TouchedKeepsKeys DEF TypeOK
<1>13. cache' = Evicted(t, s)  BY <1>1 DEF s
<1> HIDE DEF t
<1>14. Thinned(cache', t) /\ Len(cache') <= ScopesMax  BY <1>12, <1>13, EvictedIsEnd
<1>15. /\ cache' \in Seq(Objects) /\ OneKeyEach(cache', s)
       /\ \A i \in 1 .. Len(cache') : \E j \in 1 .. Len(t) : cache'[i] = t[j]
  BY <1>12, <1>14, ThinnedKeeps DEF Thinned
<1>16. \A i \in 1 .. Len(cache') : cache'[i] = o \/ \E j \in 1 .. Len(cache) : cache'[i] = cache[j]
  BY <1>12, <1>15
<1>17. k # NoKey  BY DEF ConstantsAssumption
<1>18. req' \in [Requests -> RequestType]
  <2>1. Open(o, k) \in RequestType
    <3>1. (CHOOSE p \in Objects : TRUE) \in Objects  BY DEF ConstantsAssumption
    <3> QED BY <3>1 DEF Open, Idle, RequestType
  <2> QED BY <1>1, <2>1 DEF TypeOK
<1>19. Remains(s)  BY <1>1, <1>8, <1>15, <1>18, CollectedRemains DEF s
<1>20. ~Busy(r) /\ UNCHANGED <<failClosed, now, active>>  BY DEF BeginRequest, Busy
<1>22. /\ now \in Nat /\ \A p \in Objects : scope[p].lastUsed \in Nat /\ s[p].lastUsed \in Nat
       /\ \A p \in Objects : p # o => s[p].lastUsed = scope[p].lastUsed
       /\ \A p \in Objects : scope[p].lastUsed <= s[p].lastUsed /\ s[p].lastUsed <= s[o].lastUsed
       /\ s[o].lastUsed = now
  <2>1. now \in Nat /\ \A p \in Objects : scope[p].lastUsed \in Nat /\ s[p].lastUsed \in Nat
    BY <1>7, <1>8 DEF TypeOK, ScopeType
  <2>2. s[o].lastUsed = now /\ \A p \in Objects : p # o => s[p].lastUsed = scope[p].lastUsed
    BY <1>6, <1>8
  <2> QED BY <2>1, <2>2 DEF CacheOrdered
<1>23. \A i \in 1 .. Len(cache) : s[cache[i]].key = k => cache[i] = o \/ Expired(s, cache[i])
  <2> SUFFICES ASSUME NEW i \in 1 .. Len(cache), s[cache[i]].key = k, cache[i] # o
               PROVE  Expired(s, cache[i])
    OBVIOUS
  <2>1. scope[cache[i]].key = k /\ cache[i] \in Objects  BY <1>3, <1>10
  <2>2. cache[i] \notin Range(Evicted(cache, scope))
    <3>1. CASE fresh  BY <3>1, <2>1 DEF fresh, ScopeOf
    <3>2. CASE ~fresh
      <4>1. o \in ScopeOf(k)  BY <3>2, <1>1
      <4>2. Thinned(Evicted(cache, scope), cache)  BY EvictedIsEnd DEF TypeOK
      <4>3. PICK n \in DOMAIN Evicted(cache, scope) : o = Evicted(cache, scope)[n]
        BY <4>1 DEF ScopeOf, Range
      <4>4. n \in 1 .. Len(Evicted(cache, scope))  BY <4>2, <4>3 DEF Thinned
      <4>5. \E j \in 1 .. Len(cache) : o = cache[j]  BY <4>2, <4>3, <4>4, ThinnedWithin
      <4>6. PICK j \in 1 .. Len(cache) : o = cache[j]  BY <4>5
      <4>7. scope[cache[j]].key = k  BY <4>1, <4>6 DEF ScopeOf
      <4>8. i = j  BY <2>1, <4>7 DEF CacheSound
      <4> QED BY <4>6, <4>8
    <3> QED BY <3>1, <3>2
  <2>3. Expired(scope, cache[i])
    <3> SUFFICES ASSUME ~Expired(scope, cache[i]) PROVE FALSE  OBVIOUS
    <3>1. Len(cache) > ScopesMax  BY <2>2, <1>22, EvictedWhy DEF TypeOK
    <3>2. Len(cache) <= ScopesMax /\ Len(cache) \in Nat /\ ScopesMax \in Nat
      BY DEF CacheSound, TypeOK
    <3> QED BY <3>1, <3>2
  <2> QED BY <2>1, <2>3, <1>22 DEF Expired
<1>24. /\ Len(t) <= ScopesMax + 1 /\ ByUse(t, s)
       /\ \A i \in 1 .. Len(cache) : (\E j \in 1 .. Len(t) : cache[i] = t[j]) \/ Expired(s, cache[i])
  <2>1. s[o].key = k /\ Len(cache) <= ScopesMax /\ ByUse(cache, scope)
    BY <1>6, <1>8 DEF CacheSound, CacheOrdered
  <2>2. cache \in Seq(Objects)  BY DEF TypeOK
  <2>3. now \in Nat /\ \A p \in Objects : s[p].lastUsed \in Nat  BY <1>22
  <2>4. \A p \in Objects : p # o => s[p].lastUsed = scope[p].lastUsed  BY <1>22
  <2>5. \A p \in Objects : s[p].lastUsed <= s[o].lastUsed  BY <1>22
  <2>6. s[o].key = k /\ Len(cache) <= ScopesMax /\ ByUse(cache, scope)  BY <2>1
  <2>7. /\ Len(Touched(k, o, cache, s)) <= ScopesMax + 1
        /\ ByUse(Touched(k, o, cache, s), s) /\ OnlyExpiredGo(cache, Touched(k, o, cache, s), s)
    BY <2>2, <2>3, <2>4, <2>5, <2>6, <1>11, <1>23, TouchedKeepsOrder
  <2> QED BY <2>7 DEF t, OnlyExpiredGo
<1>25. ByUse(cache', s)  BY <1>12, <1>14, <1>24, ThinnedKeeps
<1>26. LeavesCache(s)
  <2> SUFFICES ASSUME NEW p \in Range(cache) \ Range(cache'), ~Expired(scope, p)
               PROVE  Full(cache', s, p)
    BY DEF LeavesCache
  <2>1. PICK i \in 1 .. Len(cache) : p = cache[i]  BY DEF Range, TypeOK
  <2>2. p \in Objects /\ ~Expired(s, p)
    <3>1. p \in Objects  BY <2>1, <1>3
    <3>2. scope[p].lastUsed \in Nat /\ s[p].lastUsed \in Nat /\ scope[p].lastUsed <= s[p].lastUsed
          /\ IdleTtl \in Nat /\ now \in Nat
      BY <3>1, <1>22
    <3> QED BY <3>1, <3>2 DEF Expired
  <2>3. PICK j \in 1 .. Len(t) : p = t[j]  BY <2>1, <2>2, <1>24
  <2>4. t[j] \notin Range(Evicted(t, s)) /\ ~Expired(s, t[j])  BY <2>2, <2>3, <1>13
  <2>5. /\ Len(t) > ScopesMax
        /\ Len(t) = ScopesMax + 1 /\ ByUse(t, s) => Full(Evicted(t, s), s, t[j])
    BY <2>4, <1>12, <1>22, EvictedWhy
  <2>6. Len(t) = ScopesMax + 1
    <3>1. Len(t) \in Nat /\ ScopesMax \in Nat  BY <1>12
    <3> QED BY <3>1, <2>5, <1>24
  <2> QED BY <2>3, <2>5, <2>6, <1>13, <1>24
<1>27. \A p \in Objects : scope[p].lastUsed <= s[p].lastUsed /\ s[p].lastUsed <= now  BY <1>22
<1>21. Opens(r, o, k, s)
  BY <1>1, <1>6, <1>8, <1>9, <1>14, <1>15, <1>16, <1>17, <1>19, <1>20, <1>25, <1>26, <1>27 DEF Opens
<1> QED BY <1>21

LEMMA RedactCases ==
    ASSUME Inv, NEW r \in Requests, Redact(r)
    PROVE  \/ \E ls \in SUBSET Leaves : StartBody(r, ls)
           \/ DetectorBlocks(r)
           \/ \E after : PassEnds(r, after)
<1>1. CASE \E ls \in (SUBSET Leaves) \ {{}} : StartBody(r, ls)  BY <1>1
<1>2. CASE DetectorBlocks(r)  BY <1>2
<1>3. CASE \E found \in SUBSET Visible(r), complete \in BOOLEAN :
           \E harsh \in SUBSET (found \cap Destroyed) : FinishBody(r, found, harsh, complete)
  BY <1>3, FinishBodyEnds
<1>4. CASE \E found \in SUBSET InTexts :
           \E harsh \in SUBSET (found \cap Destroyed) : RedactText(r, found, harsh)
  BY <1>4, RedactTextEnds
<1> QED BY <1>1, <1>2, <1>3, <1>4 DEF Redact

(* Every step is one of seven kinds.                                        *)
LEMMA StepCases ==
    ASSUME Inv, [Next]_vars
    PROVE  \/ \E r \in Requests : \E o, k, s : Opens(r, o, k, s)
           \/ \E r \in Requests, vs \in SUBSET Values : RegisterProtectedValues(r, vs)
           \/ \E r \in Requests : \E ls \in SUBSET Leaves : StartBody(r, ls)
           \/ \E r \in Requests : DetectorBlocks(r)
           \/ \E r \in Requests : \E after : PassEnds(r, after)
           \/ \E r \in Requests : EndRequest(r)
           \/ UNCHANGED <<cache, scope, req>> /\ Inv'
<1>1. CASE \E r \in Requests : \E k \in Keys : BeginRequest(r, k)  BY <1>1, BeginRequestOpens
<1>2. CASE \E r \in Requests : BeginEphemeral(r)  BY <1>2, BeginEphemeralOpens
<1>3. CASE \E r \in Requests : \E v \in Selectable : RegisterProtectedValues(r, {v})
  <2>1. \A v \in Selectable : {v} \in SUBSET Values  BY DEF ConstantsAssumption
  <2> QED BY <1>3, <2>1
<1>4. CASE \E r \in Requests : Redact(r)  BY <1>4, RedactCases
<1>5. CASE \E r \in Requests : EndRequest(r)  BY <1>5
<1>6. CASE \E more \in SUBSET Records : ReloadRegistryValues(more)
  BY <1>6, ReloadKeeps DEF ReloadRegistryValues
<1>7. CASE Tick  BY <1>7, TickKeeps DEF Tick
<1>8. CASE UNCHANGED vars  BY <1>8, StutterKeeps DEF vars
<1> QED BY <1>1, <1>2, <1>3, <1>4, <1>5, <1>6, <1>7, <1>8 DEF Next

LEMMA StepKeeps ==
    ASSUME Inv, [Next]_vars
    PROVE  Inv'
<1>1. CASE \E r \in Requests : \E o, k, s : Opens(r, o, k, s)  BY <1>1, OpensKeeps
<1>2. CASE \E r \in Requests : \E after : PassEnds(r, after)
  BY <1>2, PassKeepsScopes, PassFillsScopes DEF Inv
<1> QED BY <1>1, <1>2, StepCases, RegisterKeeps, StartBodyKeeps, DetectorBlocksKeeps, EndRequestKeeps

LEMMA Invariance == Spec => []Inv
<1>1. Inv /\ [Next]_vars => Inv'  BY StepKeeps
<1> QED BY InitHolds, <1>1, PTL DEF Spec

-----------------------------------------------------------------------------
(* The theorems                                                             *)

(* The state keeps its type.                                                *)
THEOREM TypeCorrect == Spec => []TypeOK
BY Invariance, PTL DEF Inv, ScopesHeld

(* The cache keeps to its cap, holds no key twice, and none of the scopes   *)
(* without a key (keyedScopeState, evictKeyedScopes).                       *)
THEOREM CacheKept == Spec => []CacheSound
BY Invariance, PTL DEF Inv

(* A text the detectors skip was shown to them under that scope.            *)
THEOREM SkipsWereShown == Spec => []SeenWasShown
BY Invariance, PTL DEF Inv, ScopesFilled

LEMMA FourLayers ==
    ASSUME NEW r, NEW t, t \in Restorable(r)
    PROVE  \/ t \in TokensOf(UserLayer(r))
           \/ t \in TokensOf(Scope(r).derived) \cup TokensOf(Scope(r).detected)
           \/ t \in TokensOf(Permanent)
<1>1. PICK i \in 1 .. 4 : t \in TokensOf(Layers(r)[i])  BY DEF Restorable
<1>2. i \in {1, 2, 3, 4}  BY <1>1
<1>3. /\ Layers(r)[1] = UserLayer(r) /\ Layers(r)[2] = Scope(r).derived
      /\ Layers(r)[3] = Scope(r).detected /\ Layers(r)[4] = Permanent
  BY DEF Layers, Scope
<1> QED BY <1>1, <1>2, <1>3

LEMMA PermanentTokens ==
    /\ \A t \in TokensOf(Permanent) : t.value \in Registered
    /\ \A v \in Registered : Literal(v, "registry") \in TokensOf(Permanent)
    /\ \A r : \A t \in TokensOf(UserLayer(r)) : t.value \in req[r].user
BY DEF Permanent, TokensOf, UserLayer, Literal

(* What a request can restore is registered, its own selection, or was      *)
(* written under its own key; without a key it shares its scope with nobody. *)
THEOREM KeysStayApart == Spec => []Isolation
<1>1. Inv => Isolation
  <2> SUFFICES ASSUME Inv, NEW r \in Requests, Busy(r)
               PROVE  /\ \A t \in Restorable(r) :
                            \/ t.value \in Registered \cup req[r].user
                            \/ Scope(r).writers = {req[r].key}
                      /\ \A q \in Requests \ {r} :
                            req[q].phase # "idle" /\ req[q].scope = req[r].scope => Keyed(r)
    BY DEF Isolation, Busy
  <2> USE DEF Inv, ScopesHeld, ScopesFilled
  <2>1. ASSUME NEW t \in Restorable(r)
        PROVE  t.value \in Registered \cup req[r].user \/ Scope(r).writers = {req[r].key}
    <3>1. CASE t \in TokensOf(UserLayer(r)) \/ t \in TokensOf(Permanent)
      BY <3>1, PermanentTokens
    <3>2. CASE t \in TokensOf(Scope(r).derived) \cup TokensOf(Scope(r).detected)
      <4>1. req[r].scope \in Objects  BY ScopeTyped
      <4>2. Scope(r).writers # {} /\ Scope(r).writers \subseteq {Scope(r).key}
        BY <3>2, <4>1 DEF OwnKeyWrites, Scope
      <4> QED BY <4>2 DEF BusyHold
    <3> QED BY <2>1, <3>1, <3>2, FourLayers
  <2>2. \A q \in Requests \ {r} : req[q].phase # "idle" /\ req[q].scope = req[r].scope => Keyed(r)
    BY DEF OnlyKeyedShare, Busy
  <2> QED BY <2>1, <2>2
<1> QED BY <1>1, Invariance, PTL

(* A token of a registered value that is restored into a tool call names an *)
(* entity or shows the hint of detection.                                   *)
THEOREM SecretsStayOut == Spec => []SecretsStayOutOfTools
<1>1. Inv => SecretsStayOutOfTools
  <2> SUFFICES ASSUME Inv, NEW r \in Requests, NEW t \in ToolRestorable(r), t.value \in Registered
               PROVE  t.label \in EntityRecords \cup {"detected"}
    BY DEF SecretsStayOutOfTools
  <2>1. t \in Restorable(r) /\ \A i \in {1, 2, 4} : t \notin TokensOf(Layers(r)[i])
    BY DEF ToolRestorable, FromDetection
  <2>2. t \in TokensOf(Layers(r)[3])
    <3>1. PICK i \in 1 .. 4 : t \in TokensOf(Layers(r)[i])  BY <2>1 DEF Restorable
    <3>2. i = 3  BY <2>1, <3>1
    <3> QED BY <3>1, <3>2
  <2>3. Layers(r)[3] = Scope(r).detected /\ Layers(r)[4] = Permanent  BY DEF Layers, Scope
  <2>4. req[r].scope \in Objects  BY ScopeTyped DEF Inv, ScopesHeld
  <2>5. CASE t \in Scope(r).detected.literal
    <3>1. t = Literal(t.value, "detected")
      BY <2>4, <2>5 DEF Inv, ScopesFilled, LabelledByDetection, Scope
    <3>2. CASE ByHint
      <4>1. Literal(t.value, "detected").label = "detected"  BY <3>2 DEF Literal
      <4> QED BY <3>1, <4>1
    <3>3. CASE ~ByHint
      <4>1. Literal(t.value, "detected") = Literal(t.value, "registry")  BY <3>3 DEF Literal
      <4>2. t \in TokensOf(Permanent)  BY <3>1, <4>1, PermanentTokens
      <4> QED BY <2>1, <2>3, <4>2
    <3> QED BY <3>2, <3>3
  <2>6. CASE t \in Scope(r).detected.linked
    BY <2>4, <2>6 DEF Inv, ScopesFilled, LabelledByDetection, Scope
  <2> QED BY <2>2, <2>3, <2>5, <2>6 DEF TokensOf
<1> QED BY <1>1, Invariance, PTL

-----------------------------------------------------------------------------
(* Theorems about steps                                                     *)

(* What a step can do to the answers of a request: nothing, clear them, or  *)
(* finish a pass with them.                                                 *)
LEMMA AnswersOf ==
    ASSUME Inv, [Next]_vars, NEW r \in Requests
    PROVE  \/ req'[r].out = req[r].out /\ req'[r].leaks = req[r].leaks
           \/ req'[r].out = {} /\ req'[r].leaks = {}
           \/ \E after : PassEnds(r, after)
<1>1. req \in [Requests -> RequestType]  BY DEF Inv, ScopesHeld, TypeOK
<1>2. \A o, k : Open(o, k).out = {} /\ Open(o, k).leaks = {}  BY DEF Open, Idle
<1>3. Idle.out = {} /\ Idle.leaks = {}  BY DEF Idle
<1>4. ASSUME NEW q \in Requests, NEW o, NEW k, NEW s, Opens(q, o, k, s)
      PROVE  req'[r] = req[r] \/ (req'[r].out = {} /\ req'[r].leaks = {})
  <2>1. req' = [req EXCEPT ![q] = Open(o, k)]  BY <1>4 DEF Opens
  <2>2. CASE q = r  BY <1>1, <1>2, <2>1, <2>2
  <2>3. CASE q # r  BY <1>1, <2>1, <2>3
  <2> QED BY <2>2, <2>3
<1>5. ASSUME NEW q \in Requests, EndRequest(q)
      PROVE  req'[r] = req[r] \/ (req'[r].out = {} /\ req'[r].leaks = {})
  BY <1>1, <1>3, <1>5, EndRequestKeeps
<1>6. ASSUME NEW q \in Requests, StaysOpen(q), q # r PROVE req'[r] = req[r]
  BY <1>6 DEF StaysOpen
<1>7. ASSUME NEW q \in Requests, NEW after, PassEnds(q, after), q # r PROVE req'[r] = req[r]
  BY <1>7 DEF PassEnds
<1>8. CASE \E q \in Requests : \E o, k, s : Opens(q, o, k, s)  BY <1>4, <1>8
<1>9. CASE \E q \in Requests, vs \in SUBSET Values : RegisterProtectedValues(q, vs)
  BY <1>6, <1>9, RegisterKeeps
<1>10. CASE \E q \in Requests : \E ls \in SUBSET Leaves : StartBody(q, ls)
  BY <1>6, <1>10, StartBodyKeeps
<1>11. CASE \E q \in Requests : DetectorBlocks(q)  BY <1>6, <1>11, DetectorBlocksKeeps
<1>12. CASE \E q \in Requests : \E after : PassEnds(q, after)  BY <1>7, <1>12
<1>13. CASE \E q \in Requests : EndRequest(q)  BY <1>5, <1>13
<1>14. CASE UNCHANGED req  BY <1>14
<1> QED BY <1>8, <1>9, <1>10, <1>11, <1>12, <1>13, <1>14, StepCases

(* The leak gate stops on nothing but the surfaces kept for restoring.      *)
THEOREM GateStops == Spec => GateStopsOnRemainders
<1> DEFINE Stops == \A r \in Requests : req'[r].leaks # req[r].leaks
                       => req'[r].leaks \subseteq scope'[req'[r].scope].tokenOnly
<1>1. ASSUME Inv, [Next]_vars PROVE Stops
  <2> SUFFICES ASSUME NEW r \in Requests, req'[r].leaks # req[r].leaks
               PROVE  req'[r].leaks \subseteq scope'[req'[r].scope].tokenOnly
    OBVIOUS
  <2>1. CASE \E after : PassEnds(r, after)
    <3>1. PICK after : PassEnds(r, after)  BY <2>1
    <3>2. req[r].scope \in Objects /\ scope \in [Objects -> ScopeType]
      BY <1>1, ScopeTyped DEF Inv, ScopesHeld, TypeOK
    <3>3. scope'[req'[r].scope] = after  BY <3>1, <3>2 DEF PassEnds
    <3> QED BY <3>1, <3>3 DEF PassEnds
  <2> QED BY <1>1, <2>1, AnswersOf
<1>2. Inv /\ [Next]_vars => [Stops]_vars  BY <1>1
<1>3. Spec => [][Stops]_vars  BY <1>2, Invariance, PTL DEF Spec
<1> QED BY <1>3 DEF GateStopsOnRemainders

(* A surface is not destroyed once the scope has a token for it.            *)
LEMMA NothingTurnsToMarker ==
    ASSUME Inv, [Next]_vars, NEW r \in Requests, req'[r].out # req[r].out
    PROVE  req'[r].out \cap (Mapped(Scope(r).detected) \cup Mapped(Scope(r).derived)) = {}
<1>1. CASE \E after : PassEnds(r, after)
  <2>1. req'[r].out \cap Scope(r).known = {}  BY <1>1 DEF PassEnds
  <2>2. Mapped(Scope(r).detected) \cup Mapped(Scope(r).derived) \subseteq Scope(r).known
    BY ScopeTyped DEF Inv, ScopesHeld, ScopesFilled, KnowsItsTokens, Scope
  <2> QED BY <2>1, <2>2
<1> QED BY <1>1, AnswersOf

(* The layers of a scope that a request keeps only grow.                    *)
LEMMA HeldScopesGrow ==
    ASSUME Inv, [Next]_vars, NEW o \in Objects, NEW r \in Requests, Busy(r), req[r].scope = o,
           req'[r] # Idle
    PROVE  /\ scope[o].detected.literal \subseteq scope'[o].detected.literal
           /\ scope[o].detected.linked \subseteq scope'[o].detected.linked
           /\ scope[o].derived.literal \subseteq scope'[o].derived.literal
           /\ scope[o].derived.linked \subseteq scope'[o].derived.linked
<1> USE DEF Inv, ScopesHeld
<1>1. scope \in [Objects -> ScopeType] /\ req \in [Requests -> RequestType]  BY DEF TypeOK
<1>2. ASSUME NEW q \in Requests, NEW p, NEW k, NEW s, Opens(q, p, k, s)
      PROVE  scope'[o].detected = scope[o].detected /\ scope'[o].derived = scope[o].derived
  <2>1. q # r  BY <1>2 DEF Opens
  <2>2. req'[r] = req[r]  BY <1>1, <1>2, <2>1 DEF Opens
  <2>3. Scope(r)' = s[o]  BY <1>2, <2>2 DEF Opens, Remains, Busy
  <2>4. scope'[o] = s[o]  BY <2>2, <2>3 DEF Scope
  <2> QED BY <1>2, <2>4 DEF Opens, Carried
<1>3. ASSUME NEW q \in Requests, NEW after, PassEnds(q, after)
      PROVE  /\ scope[o].detected.literal \subseteq scope'[o].detected.literal
             /\ scope[o].detected.linked \subseteq scope'[o].detected.linked
             /\ scope[o].derived.literal \subseteq scope'[o].derived.literal
             /\ scope[o].derived.linked \subseteq scope'[o].derived.linked
  <2>1. CASE req[q].scope = o
    <3>1. scope'[o] = after /\ Scope(q) = scope[o]  BY <1>1, <1>3, <2>1 DEF PassEnds, Scope
    <3> QED BY <1>3, <3>1 DEF PassEnds, Writes, Grown
  <2>2. CASE req[q].scope # o
    <3>1. scope'[o] = scope[o]  BY <1>1, <1>3, <2>2 DEF PassEnds
    <3> QED BY <3>1
  <2> QED BY <2>1, <2>2
<1>4. ASSUME NEW q \in Requests, EndRequest(q) PROVE scope'[o] = scope[o]
  <2>1. req' = [req EXCEPT ![q] = Idle] /\ Remains(scope)  BY <1>4, EndRequestKeeps
  <2>2. q # r  BY <1>1, <2>1
  <2>3. req'[r] = req[r]  BY <1>1, <2>1, <2>2
  <2>4. Scope(r)' = scope[o]  BY <2>1, <2>3 DEF Remains, Busy
  <2> QED BY <2>3, <2>4 DEF Scope
<1>5. CASE UNCHANGED scope  BY <1>5
<1>6. ASSUME NEW q \in Requests, StaysOpen(q) PROVE UNCHANGED scope  BY <1>6 DEF StaysOpen
<1>7. CASE \E q \in Requests : \E p, k, s : Opens(q, p, k, s)  BY <1>2, <1>7
<1>8. CASE \E q \in Requests, vs \in SUBSET Values : RegisterProtectedValues(q, vs)
  BY <1>5, <1>6, <1>8, RegisterKeeps
<1>9. CASE \E q \in Requests : \E ls \in SUBSET Leaves : StartBody(q, ls)
  BY <1>5, <1>6, <1>9, StartBodyKeeps
<1>10. CASE \E q \in Requests : DetectorBlocks(q)  BY <1>5, <1>6, <1>10, DetectorBlocksKeeps
<1>11. CASE \E q \in Requests : \E after : PassEnds(q, after)  BY <1>3, <1>11
<1>12. CASE \E q \in Requests : EndRequest(q)  BY <1>4, <1>12
<1> QED BY <1>5, <1>7, <1>8, <1>9, <1>10, <1>11, <1>12, StepCases

(* A token once written stays a token that every later turn can restore.    *)
THEOREM TokensAreKept == Spec => TokensStay
<1> DEFINE NoMarker ==
             \A r \in Requests : req'[r].out # req[r].out
               => req'[r].out \cap (Mapped(Scope(r).detected) \cup Mapped(Scope(r).derived)) = {}
           Stay ==
             \A o \in Objects :
               (\E r \in Requests : req[r].phase # "idle" /\ req[r].scope = o /\ req'[r] # Idle)
                 => /\ TokensOf(scope[o].detected) \subseteq TokensOf(scope'[o].detected)
                    /\ TokensOf(scope[o].derived) \subseteq TokensOf(scope'[o].derived)
<1>1. Inv /\ [Next]_vars => [NoMarker]_vars  BY NothingTurnsToMarker
<1>2. Inv /\ [Next]_vars => [Stay]_vars  BY HeldScopesGrow DEF TokensOf, Busy
<1>3. Spec => [][NoMarker]_vars  BY <1>1, Invariance, PTL DEF Spec
<1>4. Spec => [][Stay]_vars  BY <1>2, Invariance, PTL DEF Spec
<1> QED BY <1>3, <1>4 DEF TokensStay, NoMarkerAfterToken, MappingsStay

(* No pass mints, as detection's own, a token for a value that is           *)
(* registered or that its request selected.                                 *)
THEOREM MintsNoSecret == Spec => DetectionMintsNoSecret
<1> DEFINE minted(o) == TokensOf(scope'[o].detected) \ TokensOf(scope[o].detected)
           Fit(o) == \E r \in Requests :
                       /\ req[r].phase # "idle" /\ req[r].scope = o
                       /\ \A t \in minted(o) : t.value \notin Registered \cup req[r].user
           Mints == \A o \in Objects : minted(o) # {} => Fit(o)
<1>1. ASSUME Inv, [Next]_vars PROVE Mints
  <2> USE <1>1 DEF Inv, ScopesHeld
  <2>1. scope \in [Objects -> ScopeType]  BY DEF TypeOK
  <2>2. TokensOf(Free.detected) = {}  BY FreeIsEmpty DEF TokensOf
  <2>3. ASSUME NEW s, Carried(s), Remains(s), NEW o \in Objects PROVE minted(o) = {}
    BY <2>2, <2>3 DEF Carried, Remains
  <2>4. ASSUME NEW q \in Requests, NEW after, PassEnds(q, after), NEW o \in Objects, minted(o) # {}
        PROVE  Fit(o)
    <3>1. CASE req[q].scope = o
      <4>1. scope'[o] = after /\ Scope(q) = scope[o]  BY <2>1, <2>4, <3>1 DEF PassEnds, Scope
      <4>2. PICK vsD \in SUBSET Values :
               /\ Grown(after.detected, scope[o].detected, vsD, vsD, "detected")
               /\ vsD \cap (Registered \cup req[q].user) = {}
        BY <2>4, <4>1 DEF PassEnds, Writes
      <4>3. ASSUME NEW t \in minted(o) PROVE t.value \notin Registered \cup req[q].user
        <5>1. t \in after.detected.literal \ scope[o].detected.literal
                \/ t \in after.detected.linked \ scope[o].detected.linked
          BY <4>1 DEF TokensOf
        <5>2. t.value \in vsD  BY <4>2, <5>1 DEF Grown, Literal
        <5> QED BY <4>2, <5>2
      <4>4. req[q].phase # "idle"  BY <2>4 DEF PassEnds, Busy
      <4> HIDE DEF minted
      <4> QED BY <3>1, <4>3, <4>4
    <3>2. CASE req[q].scope # o
      <4>1. scope'[o] = scope[o]  BY <2>1, <2>4, <3>2 DEF PassEnds
      <4> QED BY <4>1, <2>4
    <3> QED BY <3>1, <3>2
  <2>5. ASSUME UNCHANGED scope, NEW o \in Objects PROVE minted(o) = {}  BY <2>5
  <2>6. ASSUME NEW q \in Requests, EndRequest(q), NEW o \in Objects PROVE minted(o) = {}
    BY <2>3, <2>6, EndRequestKeeps, UnchangedCarried
  <2>7. ASSUME NEW q \in Requests, NEW p, NEW k, NEW s, Opens(q, p, k, s), NEW o \in Objects
        PROVE  minted(o) = {}
    BY <2>3, <2>7 DEF Opens
  <2>8. ASSUME NEW q \in Requests, StaysOpen(q) PROVE UNCHANGED scope  BY <2>8 DEF StaysOpen
  <2> HIDE DEF minted, Fit
  <2> QED BY <2>4, <2>5, <2>6, <2>7, <2>8, StepCases, RegisterKeeps, StartBodyKeeps, DetectorBlocksKeeps
<1>2. Inv /\ [Next]_vars => [Mints]_vars  BY <1>1
<1>3. Spec => [][Mints]_vars  BY <1>2, Invariance, PTL DEF Spec
<1> QED BY <1>3 DEF DetectionMintsNoSecret

(* A key keeps its scope until it was idle too long or a full cache of      *)
(* scopes used at least as recently has taken its place.                    *)
THEOREM ScopesAreKept == Spec => KeysKeepScopes
<1> DEFINE Kept == \A o \in Range(cache) \ Range(cache') :
              \/ now - scope[o].lastUsed > IdleTtl
              \/ /\ Len(cache') = ScopesMax
                 /\ \A p \in Range(cache') : scope[o].lastUsed <= scope'[p].lastUsed
<1>1. ASSUME Inv, [Next]_vars PROVE Kept
  <2> USE <1>1 DEF Inv, ScopesHeld
  <2>1. ASSUME NEW q \in Requests, NEW n, NEW k, NEW s, Opens(q, n, k, s) PROVE Kept
    <3> SUFFICES ASSUME NEW o \in Range(cache) \ Range(cache'), ~Expired(scope, o)
                 PROVE  /\ Len(cache') = ScopesMax
                        /\ \A p \in Range(cache') : scope[o].lastUsed <= scope'[p].lastUsed
      BY DEF Expired
    <3>1. Full(cache', s, o)  BY <2>1 DEF Opens, LeavesCache
    <3>2. o \in Objects  BY DEF Range, TypeOK
    <3>3. ASSUME NEW p \in Range(cache') PROVE scope[o].lastUsed <= scope'[p].lastUsed
      <4>1. cache' \in Seq(Objects)  BY <2>1 DEF Opens
      <4>2. PICK i \in 1 .. Len(cache') : p = cache'[i]  BY <4>1 DEF Range
      <4>3. scope'[p] = s[p] /\ p \in Objects  BY <2>1, <4>2 DEF Opens, Remains
      <4>4. s[o].lastUsed <= s[p].lastUsed /\ scope[o].lastUsed <= s[o].lastUsed
        BY <2>1, <3>1, <3>2 DEF Full, Opens
      <4>5. scope[o].lastUsed \in Nat /\ s[o].lastUsed \in Nat /\ s[p].lastUsed \in Nat
        BY <2>1, <3>2, <4>3 DEF Opens, Carried, TypeOK, ScopeType
      <4> QED BY <4>3, <4>4, <4>5
    <3> QED BY <3>1, <3>3 DEF Full
  <2>2. CASE UNCHANGED cache  BY <2>2
  <2>3. ASSUME NEW q \in Requests, StaysOpen(q) PROVE UNCHANGED cache  BY <2>3 DEF StaysOpen
  <2>4. ASSUME NEW q \in Requests, NEW after, PassEnds(q, after) PROVE UNCHANGED cache
    BY <2>4 DEF PassEnds
  <2> HIDE DEF Kept
  <2> QED BY <2>1, <2>2, <2>3, <2>4, StepCases, RegisterKeeps, StartBodyKeeps, DetectorBlocksKeeps,
             EndRequestKeeps
<1>2. Inv /\ [Next]_vars => [Kept]_vars  BY <1>1
<1>3. Spec => [][Kept]_vars  BY <1>2, Invariance, PTL DEF Spec
<1> QED BY <1>3 DEF KeysKeepScopes

=============================================================================
