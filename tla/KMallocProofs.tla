---------------------------- MODULE KMallocProofs --------------------------
(* Proofs about KMalloc: what its lists hold, that the blocks clients have *)
(* are apart, and that the places of the pagerefs are found again.         *)
EXTENDS KMalloc, FiniteSetTheorems, NaturalsInduction, WellFoundedInduction, TLAPS

----------------------------------------------------------------------------
(* Lists.                                                                  *)

(* Nothing is twice on the list.                                           *)
NoDup(s) == \A i, j \in DOMAIN s : s[i] = s[j] => i = j

(* The empty list.                                                         *)
LEMMA EmptyLemma ==
  /\ \A S : <<>> \in Seq(S)
  /\ ToSet(<<>>) = {}
  /\ NoDup(<<>>)
  /\ Len(<<>>) = 0
BY DEF ToSet, NoDup

(* What a list holds; only the empty list holds nothing.                   *)
LEMMA ListLemma ==
  ASSUME NEW S, NEW s \in Seq(S)
  PROVE  /\ ToSet(s) \subseteq S
         /\ Len(s) \in Nat
         /\ DOMAIN s = 1 .. Len(s)
         /\ \A t : t \in ToSet(s) <=> \E i \in 1 .. Len(s) : s[i] = t
         /\ s = <<>> <=> ToSet(s) = {}
         /\ s = <<>> <=> Len(s) = 0
<1>1. /\ Len(s) \in Nat
      /\ DOMAIN s = 1 .. Len(s)
      /\ s = <<>> <=> Len(s) = 0
  OBVIOUS
<1>2. \A t : t \in ToSet(s) <=> \E i \in 1 .. Len(s) : s[i] = t
  BY <1>1 DEF ToSet
<1>3. ToSet(s) \subseteq S
  BY <1>2
<1>4. s = <<>> <=> ToSet(s) = {}
  <2>1. ASSUME s # <<>> PROVE ToSet(s) # {}
    <3>1. 1 \in 1 .. Len(s)
      BY <1>1, <2>1
    <3>2. QED
      BY <1>2, <3>1
  <2>2. QED
    BY <2>1, EmptyLemma
<1>5. QED
  BY <1>1, <1>2, <1>3, <1>4

(* A list is cut in two: what is taken off one end and what is left.       *)
LEMMA SplitLemma ==
  ASSUME NEW S, NEW s \in Seq(S), NEW k \in 0 .. Len(s)
  PROVE  LET a == SubSeq(s, 1, k)
             b == SubSeq(s, k + 1, Len(s))
         IN  /\ a \in Seq(S) /\ b \in Seq(S)
             /\ Len(a) = k /\ Len(b) = Len(s) - k
             /\ ToSet(s) = ToSet(a) \cup ToSet(b)
             /\ NoDup(s) => NoDup(a) /\ NoDup(b) /\ ToSet(a) \cap ToSet(b) = {}
<1> DEFINE a == SubSeq(s, 1, k)
           b == SubSeq(s, k + 1, Len(s))
<1>1. /\ Len(s) \in Nat /\ DOMAIN s = 1 .. Len(s) /\ k \in Nat /\ k <= Len(s)
  OBVIOUS
<1>2. /\ a \in Seq(S) /\ Len(a) = k /\ DOMAIN a = 1 .. k
      /\ \A i \in 1 .. k : a[i] = s[i]
  BY <1>1
<1>3. /\ b \in Seq(S) /\ Len(b) = Len(s) - k /\ DOMAIN b = 1 .. (Len(s) - k)
      /\ \A i \in 1 .. (Len(s) - k) : b[i] = s[i + k]
  <2>1. b \in Seq(S)
    BY <1>1
  <2>2. Len(b) = Len(s) - k
    <3>1. Len(b) = IF k + 1 <= Len(s) THEN Len(s) - (k + 1) + 1 ELSE 0
      OBVIOUS
    <3> HIDE DEF a, b
    <3>2. CASE k = Len(s)
      BY <1>1, <3>1, <3>2
    <3>3. CASE k + 1 <= Len(s)
      <4>1. Len(b) = Len(s) - (k + 1) + 1
        BY <3>1, <3>3
      <4>2. QED
        BY <1>1, <4>1
    <3>4. \A m, n \in Nat : m <= n => m = n \/ m + 1 <= n
      OBVIOUS
    <3>5. k = Len(s) \/ k + 1 <= Len(s)
      BY <1>1, <3>4
    <3>6. QED
      BY <3>2, <3>3, <3>5
  <2>3. DOMAIN b = 1 .. Len(b)
    BY <2>1
  <2>4. ASSUME NEW i \in 1 .. (Len(s) - k) PROVE b[i] = s[i + k]
    BY <1>1
  <2>5. QED
    BY <2>1, <2>2, <2>3, <2>4
<1> HIDE DEF a, b
<1>4. ToSet(s) \subseteq ToSet(a) \cup ToSet(b)
  <2>1. SUFFICES ASSUME NEW i \in 1 .. Len(s)
                 PROVE  s[i] \in ToSet(a) \cup ToSet(b)
    BY <1>1 DEF ToSet
  <2>2. CASE i <= k
    BY <1>1, <1>2, <2>2 DEF ToSet
  <2>3. CASE i > k
    <3>1. i - k \in 1 .. (Len(s) - k) /\ (i - k) + k = i
      BY <1>1, <2>3
    <3>2. b[i - k] = s[i]
      BY <1>3, <3>1
    <3>3. QED
      BY <1>3, <3>1, <3>2 DEF ToSet
  <2>4. QED
    BY <1>1, <2>2, <2>3
<1>5. \A i \in 1 .. (Len(s) - k) : i + k \in 1 .. Len(s)
  BY <1>1
<1>6. ToSet(a) \subseteq ToSet(s) /\ ToSet(b) \subseteq ToSet(s)
  <2>1. ASSUME NEW i \in 1 .. k PROVE a[i] \in ToSet(s)
    BY <1>1, <1>2 DEF ToSet
  <2>2. ASSUME NEW i \in 1 .. (Len(s) - k) PROVE b[i] \in ToSet(s)
    <3>1. b[i] = s[i + k] /\ i + k \in DOMAIN s
      BY <1>1, <1>3, <1>5
    <3>2. QED
      BY <3>1 DEF ToSet
  <2>3. ToSet(a) = {a[i] : i \in 1 .. k} /\ ToSet(b) = {b[i] : i \in 1 .. (Len(s) - k)}
    BY <1>2, <1>3, Zenon DEF ToSet
  <2>4. QED
    BY <2>1, <2>2, <2>3
<1>7. ASSUME NoDup(s)
      PROVE  NoDup(a) /\ NoDup(b) /\ ToSet(a) \cap ToSet(b) = {}
  <2>1. NoDup(a)
    BY <1>1, <1>2, <1>7 DEF NoDup
  <2>2. NoDup(b)
    <3>1. SUFFICES ASSUME NEW i \in 1 .. (Len(s) - k), NEW j \in 1 .. (Len(s) - k),
                          b[i] = b[j]
                   PROVE  i = j
      BY <1>3 DEF NoDup
    <3>2. s[i + k] = s[j + k] /\ i + k \in DOMAIN s /\ j + k \in DOMAIN s
      BY <1>1, <1>3, <1>5, <3>1
    <3>3. i + k = j + k
      BY <1>7, <3>2 DEF NoDup
    <3>4. QED
      BY <1>1, <3>3
  <2>3. ASSUME NEW t \in ToSet(a), t \in ToSet(b) PROVE FALSE
    <3>1. PICK i \in 1 .. k : t = s[i]
      BY <1>2 DEF ToSet
    <3>2. PICK j \in 1 .. (Len(s) - k) : t = s[j + k]
      BY <1>3, <2>3 DEF ToSet
    <3>3. i \in DOMAIN s /\ j + k \in DOMAIN s /\ i # j + k
      BY <1>1, <1>5
    <3>4. QED
      BY <1>7, <3>1, <3>2, <3>3 DEF NoDup
  <2>4. QED
    BY <2>1, <2>2, <2>3
<1>8. QED
  BY <1>2, <1>3, <1>4, <1>6, <1>7 DEF a, b

(* The first of a list is taken off it.                                    *)
LEMMA RemheadLemma ==
  ASSUME NEW S, NEW s \in Seq(S), s # <<>>, NoDup(s)
  PROVE  /\ Head(s) \in S
         /\ Head(s) \in ToSet(s)
         /\ Tail(s) \in Seq(S)
         /\ NoDup(Tail(s))
         /\ ToSet(Tail(s)) = ToSet(s) \ {Head(s)}
         /\ Len(Tail(s)) = Len(s) - 1 /\ Len(s) \in Nat \ {0}
<1> DEFINE v == Tail(s)
<1>1. /\ v \in Seq(S)
      /\ Len(s) \in Nat \ {0}
      /\ Len(v) = Len(s) - 1
      /\ DOMAIN v = 1 .. (Len(s) - 1)
      /\ DOMAIN s = 1 .. Len(s)
      /\ \A i \in 1 .. (Len(s) - 1) : v[i] = s[i + 1]
      /\ Head(s) = s[1]
  OBVIOUS
<1> HIDE DEF v
<1>2. NoDup(v)
  <2>1. SUFFICES ASSUME NEW i \in DOMAIN v, NEW j \in DOMAIN v, v[i] = v[j]
                 PROVE  i = j
    BY DEF NoDup
  <2>2. /\ i + 1 \in DOMAIN s /\ j + 1 \in DOMAIN s
        /\ s[i + 1] = s[j + 1]
    BY <1>1, <2>1
  <2>3. i + 1 = j + 1
    BY <2>2 DEF NoDup
  <2>4. QED
    BY <1>1, <2>3
<1>3. 1 \in DOMAIN s /\ Head(s) \in ToSet(s) /\ Head(s) \in S
  BY <1>1 DEF ToSet
<1>4. ASSUME NEW t \in ToSet(v) PROVE t \in ToSet(s) \ {Head(s)}
  <2>1. PICK i \in 1 .. (Len(s) - 1) : t = v[i]
    BY <1>1 DEF ToSet
  <2>2. i + 1 \in DOMAIN s /\ i + 1 # 1 /\ t = s[i + 1]
    BY <1>1, <2>1
  <2>3. t # s[1]
    BY <1>3, <2>2 DEF NoDup
  <2>4. QED
    BY <1>1, <2>2, <2>3 DEF ToSet
<1>5. ASSUME NEW t \in ToSet(s) \ {Head(s)} PROVE t \in ToSet(v)
  <2>1. PICK i \in 1 .. Len(s) : t = s[i]
    BY <1>1 DEF ToSet
  <2>2. i # 1 /\ i - 1 \in 1 .. (Len(s) - 1) /\ v[i - 1] = s[i]
    BY <1>1, <2>1
  <2>3. QED
    BY <1>1, <2>1, <2>2 DEF ToSet
<1>6. ToSet(v) = ToSet(s) \ {Head(s)}
  BY <1>4, <1>5
<1>7. QED
  BY <1>1, <1>2, <1>3, <1>6 DEF v

(* One list is put behind another.                                         *)
LEMMA ConcatLemma ==
  ASSUME NEW S, NEW a \in Seq(S), NEW b \in Seq(S)
  PROVE  /\ a \o b \in Seq(S)
         /\ Len(a \o b) = Len(a) + Len(b)
         /\ ToSet(a \o b) = ToSet(a) \cup ToSet(b)
         /\ NoDup(a) /\ NoDup(b) /\ ToSet(a) \cap ToSet(b) = {} => NoDup(a \o b)
<1> DEFINE v == a \o b
<1>1. /\ v \in Seq(S)
      /\ Len(a) \in Nat /\ Len(b) \in Nat
      /\ Len(v) = Len(a) + Len(b)
      /\ DOMAIN v = 1 .. (Len(a) + Len(b))
      /\ DOMAIN a = 1 .. Len(a) /\ DOMAIN b = 1 .. Len(b)
      /\ \A i \in 1 .. (Len(a) + Len(b)) :
           v[i] = IF i <= Len(a) THEN a[i] ELSE b[i - Len(a)]
  OBVIOUS
<1> HIDE DEF v
<1>2. ASSUME NEW t \in ToSet(v) PROVE t \in ToSet(a) \cup ToSet(b)
  <2>1. PICK i \in 1 .. (Len(a) + Len(b)) : t = v[i]
    BY <1>1 DEF ToSet
  <2>2. CASE i <= Len(a)
    BY <1>1, <2>1, <2>2 DEF ToSet
  <2>3. CASE i > Len(a)
    <3>1. i - Len(a) \in 1 .. Len(b) /\ t = b[i - Len(a)]
      BY <1>1, <2>1, <2>3
    <3>2. QED
      BY <1>1, <3>1 DEF ToSet
  <2>4. QED
    BY <1>1, <2>2, <2>3
<1>3. ASSUME NEW t \in ToSet(a) PROVE t \in ToSet(v)
  <2>1. PICK i \in 1 .. Len(a) : t = a[i]
    BY <1>1 DEF ToSet
  <2>2. i \in 1 .. (Len(a) + Len(b)) /\ i <= Len(a)
    BY <1>1
  <2>3. v[i] = t
    BY <1>1, <2>1, <2>2
  <2>4. QED
    BY <1>1, <2>2, <2>3 DEF ToSet
<1>4. ASSUME NEW t \in ToSet(b) PROVE t \in ToSet(v)
  <2>1. PICK i \in 1 .. Len(b) : t = b[i]
    BY <1>1 DEF ToSet
  <2>2. /\ i + Len(a) \in 1 .. (Len(a) + Len(b))
        /\ ~ (i + Len(a) <= Len(a)) /\ (i + Len(a)) - Len(a) = i
    BY <1>1
  <2>3. v[i + Len(a)] = b[i]
    BY <1>1, <2>2
  <2>4. QED
    BY <1>1, <2>1, <2>2, <2>3 DEF ToSet
<1>5. ASSUME NoDup(a), NoDup(b), ToSet(a) \cap ToSet(b) = {} PROVE NoDup(v)
  <2>1. SUFFICES ASSUME NEW i \in 1 .. (Len(a) + Len(b)), NEW j \in 1 .. (Len(a) + Len(b)),
                        v[i] = v[j]
                 PROVE  i = j
    BY <1>1 DEF NoDup
  <2>2. ASSUME NEW k \in 1 .. (Len(a) + Len(b))
        PROVE  \/ k \in DOMAIN a /\ v[k] = a[k] /\ v[k] \in ToSet(a)
               \/ k - Len(a) \in DOMAIN b /\ v[k] = b[k - Len(a)] /\ v[k] \in ToSet(b)
    <3>1. CASE k <= Len(a)
      BY <1>1, <3>1 DEF ToSet
    <3>2. CASE k > Len(a)
      <4>1. k - Len(a) \in DOMAIN b /\ v[k] = b[k - Len(a)]
        BY <1>1, <3>2
      <4>2. QED
        BY <4>1 DEF ToSet
    <3>3. QED
      BY <1>1, <3>1, <3>2
  <2>3. CASE i \in DOMAIN a /\ v[i] = a[i] /\ v[i] \in ToSet(a)
    <3>1. j \in DOMAIN a /\ v[j] = a[j]
      BY <1>5, <2>1, <2>2, <2>3
    <3>2. QED
      BY <1>5, <2>1, <2>3, <3>1 DEF NoDup
  <2>4. CASE i - Len(a) \in DOMAIN b /\ v[i] = b[i - Len(a)] /\ v[i] \in ToSet(b)
    <3>1. j - Len(a) \in DOMAIN b /\ v[j] = b[j - Len(a)]
      BY <1>5, <2>1, <2>2, <2>4
    <3>2. i - Len(a) = j - Len(a)
      BY <1>5, <2>1, <2>4, <3>1 DEF NoDup
    <3>3. QED
      BY <1>1, <3>2
  <2>5. QED
    BY <2>2, <2>3, <2>4
<1>6. ToSet(v) = ToSet(a) \cup ToSet(b)
  BY <1>2, <1>3, <1>4
<1>7. QED
  BY <1>1, <1>5, <1>6 DEF v

(* One thing is taken out of the middle of a list.                         *)
LEMMA RemoveLemma ==
  ASSUME NEW S, NEW s \in Seq(S), NEW t, NoDup(s)
  PROVE  /\ RemoveFirst(s, t) \in Seq(S)
         /\ NoDup(RemoveFirst(s, t))
         /\ ToSet(RemoveFirst(s, t)) = ToSet(s) \ {t}
         /\ Len(RemoveFirst(s, t)) <= Len(s)
<1>1. /\ Len(s) \in Nat
      /\ DOMAIN s = 1 .. Len(s)
  OBVIOUS
<1>2. CASE \E i \in 1 .. Len(s) : s[i] = t
  <2>1. PICK k \in 1 .. Len(s) : s[k] = t
    BY <1>2
  <2>2. {i \in 1 .. Len(s) : s[i] = t} = {k}
    BY <1>1, <2>1 DEF NoDup
  <2>3. Min({k}) = k
    BY DEF Min
  <2>4. RemoveFirst(s, t) = RemoveAt(s, k)
    BY <1>2, <2>2, <2>3 DEF RemoveFirst, SelectInSeq
  <2> DEFINE a == SubSeq(s, 1, k - 1)
             r == SubSeq(s, k, Len(s))
             b == SubSeq(s, k + 1, Len(s))
  <2>5. k - 1 \in 0 .. Len(s) /\ (k - 1) + 1 = k
    BY <1>1
  <2>6. /\ a \in Seq(S) /\ r \in Seq(S)
        /\ Len(a) = k - 1 /\ Len(r) = Len(s) - (k - 1)
        /\ ToSet(s) = ToSet(a) \cup ToSet(r)
        /\ NoDup(a) /\ NoDup(r) /\ ToSet(a) \cap ToSet(r) = {}
    BY <2>5, SplitLemma
  <2>7. /\ Len(r) \in Nat \ {0}
        /\ r # <<>>
        /\ Head(r) = t
        /\ Tail(r) = b
    <3>1. Len(r) \in Nat \ {0} /\ r # <<>>
      BY <1>1, <2>6
    <3>2. Head(r) = t
      BY <1>1, <2>1, <3>1
    <3>3. Tail(r) = b
      BY <1>1, <2>1, <3>1
    <3>4. QED
      BY <3>1, <3>2, <3>3
  <2> HIDE DEF a, r, b
  <2>8. /\ b \in Seq(S) /\ NoDup(b)
        /\ ToSet(b) = ToSet(r) \ {t}
        /\ t \in ToSet(r)
    BY <2>6, <2>7, RemheadLemma
  <2>9. Len(b) = Len(r) - 1
    <3>1. Len(Tail(r)) = Len(r) - 1
      BY <2>6, <2>7
    <3>2. QED
      BY <2>7, <3>1
  <2>10. ToSet(a) \cap ToSet(b) = {}
    BY <2>6, <2>8
  <2>11. /\ a \o b \in Seq(S)
         /\ Len(a \o b) = Len(a) + Len(b)
         /\ ToSet(a \o b) = ToSet(a) \cup ToSet(b)
         /\ NoDup(a \o b)
    <3>1. \A u, v \in Seq(S) :
            /\ u \o v \in Seq(S)
            /\ Len(u \o v) = Len(u) + Len(v)
            /\ ToSet(u \o v) = ToSet(u) \cup ToSet(v)
            /\ NoDup(u) /\ NoDup(v) /\ ToSet(u) \cap ToSet(v) = {} => NoDup(u \o v)
      BY ConcatLemma
    <3>2. QED
      BY <2>6, <2>8, <2>10, <3>1
  <2>12. ToSet(a) \cup ToSet(b) = ToSet(s) \ {t}
    BY <2>6, <2>8
  <2>13. Len(a \o b) <= Len(s)
    BY <1>1, <2>6, <2>9, <2>11
  <2>14. RemoveFirst(s, t) = a \o b
    BY <2>4 DEF RemoveAt, a, b
  <2>15. QED
    BY <2>11, <2>12, <2>13, <2>14
<1>3. CASE ~ \E i \in 1 .. Len(s) : s[i] = t
  <2>1. RemoveFirst(s, t) = s
    BY <1>3 DEF RemoveFirst
  <2>2. t \notin ToSet(s)
    BY <1>1, <1>3 DEF ToSet
  <2>3. QED
    BY <1>1, <2>1, <2>2
<1>4. QED
  BY <1>2, <1>3

(* One thing is put in front of a list.                                    *)
LEMMA ConsLemma ==
  ASSUME NEW S, NEW s \in Seq(S), NEW x \in S
  PROVE  /\ <<x>> \o s \in Seq(S)
         /\ Len(<<x>> \o s) = Len(s) + 1
         /\ ToSet(<<x>> \o s) = {x} \cup ToSet(s)
         /\ NoDup(s) /\ x \notin ToSet(s) => NoDup(<<x>> \o s)
<1>1. /\ <<x>> \in Seq(S) /\ Len(<<x>>) = 1 /\ DOMAIN <<x>> = 1 .. 1
      /\ <<x>>[1] = x
  OBVIOUS
<1>2. ToSet(<<x>>) = {x} /\ NoDup(<<x>>)
  BY <1>1 DEF ToSet, NoDup
<1>3. /\ <<x>> \o s \in Seq(S)
      /\ Len(<<x>> \o s) = 1 + Len(s)
      /\ ToSet(<<x>> \o s) = {x} \cup ToSet(s)
      /\ NoDup(s) /\ {x} \cap ToSet(s) = {} => NoDup(<<x>> \o s)
  <2>1. \A u, v \in Seq(S) :
          /\ u \o v \in Seq(S)
          /\ Len(u \o v) = Len(u) + Len(v)
          /\ ToSet(u \o v) = ToSet(u) \cup ToSet(v)
          /\ NoDup(u) /\ NoDup(v) /\ ToSet(u) \cap ToSet(v) = {} => NoDup(u \o v)
    BY ConcatLemma
  <2>2. QED
    BY <1>1, <1>2, <2>1
<1>4. Len(s) \in Nat
  OBVIOUS
<1>5. 1 + Len(s) = Len(s) + 1
  BY <1>4
<1>6. QED
  BY <1>3, <1>5

(* The free list of a new page.                                            *)
LEMMA CountdownLemma ==
  ASSUME NEW n \in Nat
  PROVE  LET s == [i \in 1 .. n |-> n - i]
         IN  /\ s \in Seq(Nat)
             /\ Len(s) = n
             /\ NoDup(s)
             /\ ToSet(s) = 0 .. (n - 1)
<1> DEFINE s == [i \in 1 .. n |-> n - i]
<1>1. DOMAIN s = 1 .. n /\ \A i \in 1 .. n : s[i] = n - i
  OBVIOUS
<1>2. s \in [1 .. n -> Nat]
  OBVIOUS
<1>3. s \in Seq(Nat) /\ Len(s) = n
  BY <1>2
<1> HIDE DEF s
<1>4. NoDup(s)
  BY <1>1 DEF NoDup
<1>5. ASSUME NEW k \in ToSet(s) PROVE k \in 0 .. (n - 1)
  BY <1>1 DEF ToSet
<1>6. ASSUME NEW k \in 0 .. (n - 1) PROVE k \in ToSet(s)
  <2>1. n - k \in 1 .. n /\ n - (n - k) = k
    OBVIOUS
  <2>2. s[n - k] = k
    BY <1>1, <2>1
  <2>3. QED
    BY <1>1, <2>1, <2>2 DEF ToSet
<1>7. ToSet(s) = 0 .. (n - 1)
  BY <1>5, <1>6
<1>8. QED
  BY <1>3, <1>4, <1>7 DEF s

(* A list without repetitions is as long as the set of what it holds.      *)
LEMMA CountLemma ==
  ASSUME NEW S, NEW s \in Seq(S), NoDup(s)
  PROVE  IsFiniteSet(ToSet(s)) /\ Cardinality(ToSet(s)) = Len(s)
<1>1. Len(s) \in Nat /\ DOMAIN s = 1 .. Len(s) /\ s \in [1 .. Len(s) -> ToSet(s)]
  BY DEF ToSet
<1>2. s \in Bijection(1 .. Len(s), ToSet(s))
  <2>1. s \in Injection(1 .. Len(s), ToSet(s))
    BY <1>1 DEF Injection, IsInjective, NoDup
  <2>2. \A x \in ToSet(s) : \E i \in 1 .. Len(s) : s[i] = x
    BY <1>1 DEF ToSet
  <2>3. s \in Surjection(1 .. Len(s), ToSet(s))
    BY <1>1, <2>2 DEF Surjection
  <2>4. QED
    BY <2>1, <2>3 DEF Bijection
<1>3. ExistsBijection(1 .. Len(s), ToSet(s))
  BY <1>2 DEF ExistsBijection
<1>4. QED
  BY <1>1, <1>3, FS_NatBijection, FS_CountingElements

----------------------------------------------------------------------------
(* Addresses.                                                              *)

(* Multiples of s.                                                         *)
LEMMA MultLemma ==
  ASSUME NEW s \in Nat, NEW m \in Nat, NEW n \in Nat
  PROVE  /\ m * s \in Nat
         /\ (m + 1) * s = m * s + s
         /\ (m + n) * s = m * s + n * s
         /\ m < n => m * s + s <= n * s
         /\ m <= n => m * s <= n * s
<1>1. m * s \in Nat
  OBVIOUS
<1>2. (m + 1) * s = m * s + s
  OBVIOUS
<1>3. (m + n) * s = m * s + n * s
  OBVIOUS
<1>4. ASSUME NEW k \in Nat, m <= k PROVE m * s <= k * s
  <2>1. k - m \in Nat /\ m + (k - m) = k
    BY <1>4
  <2>2. PICK d \in Nat : m + d = k
    BY <2>1
  <2>3. k * s = m * s + d * s
    BY <2>2
  <2>4. d * s \in Nat /\ m * s \in Nat
    OBVIOUS
  <2>5. QED
    BY <2>3, <2>4
<1>5. ASSUME m < n PROVE m * s + s <= n * s
  <2>1. PICK k \in Nat : n = k + 1 /\ m <= k
    <3>1. n - 1 \in Nat /\ n = (n - 1) + 1 /\ m <= n - 1
      BY <1>5
    <3>2. QED
      BY <3>1
  <2>2. n * s = k * s + s
    BY <2>1
  <2>3. m * s <= k * s
    BY <1>4, <2>1
  <2>4. m * s \in Nat /\ k * s \in Nat
    OBVIOUS
  <2>5. QED
    BY <2>2, <2>3, <2>4
<1>6. QED
  BY <1>1, <1>2, <1>3, <1>4, <1>5

(* Division.                                                               *)
LEMMA DivLemma ==
  ASSUME NEW s \in Nat \ {0}, NEW a \in Nat
  PROVE  /\ a \div s \in Nat
         /\ (a \div s) * s <= a
         /\ a < (a \div s) * s + s
         /\ \A i \in Nat : (i * s) \div s = i
<1>1. a \div s \in Nat
  OBVIOUS
<1>2. (a \div s) * s <= a
  OBVIOUS
<1>3. a < (a \div s) * s + s
  OBVIOUS
<1>4. ASSUME NEW i \in Nat PROVE (i * s) \div s = i
  OBVIOUS
<1>5. QED
  BY <1>1, <1>2, <1>3, <1>4

(* A set of numbers that is not empty has a least one.                     *)
LEMMA MinLemma ==
  ASSUME NEW S \in SUBSET Nat, S # {}
  PROVE  Min(S) \in S /\ \A j \in S : Min(S) <= j
<1> DEFINE R == {ss \in Nat \X Nat : ss[1] < ss[2]}
<1>1. IsWellFoundedOn(R, Nat)
  BY NatLessThanWellFounded, Zenon DEF OpToRel
<1>2. PICK i \in S : \A j \in S : ~ (<<j, i>> \in R)
  <2> HIDE DEF R
  <2>1. QED
    BY <1>1, WFMin
<1>3. ASSUME NEW j \in S PROVE i <= j
  <2>1. i \in Nat /\ j \in Nat
    OBVIOUS
  <2>2. j < i => <<j, i>> \in R
    BY <2>1
  <2>3. QED
    BY <1>2, <2>1, <2>2
<1>4. \E k \in S : \A j \in S : k <= j
  BY <1>3
<1>5. QED
  BY <1>4, Zenon DEF Min

----------------------------------------------------------------------------
(* The inductive invariant.                                                *)

(* The calls that have a page for the blocks but no pageref for it yet,    *)
(* and those of them that have a place for the pageref.                    *)
HasPage == {"pageref", "rootpage", "rootpage_got", "rootpage_freed"}
HasPlace == {"rootpage", "rootpage_got", "rootpage_freed"}

(* The address of the first byte of a page, and m whole pages from page n. *)
Start(n) == n * PAGE_SIZE
Whole(n, m) == [at |-> Start(n), len |-> Start(m)]

(* The blocks that the page of a pageref is cut into.                      *)
Indices(p) == 0 .. (NBlocks(pageref[p].type) - 1)
BlockOf(p, i) == Block(pageref[p].page, pageref[p].type, i)

(* What the variables hold.                                                *)
TypeInv ==
  /\ firstpage \in 1 .. NumPages + 1
  /\ root \in [Roots -> 0 .. NumPages]
  /\ inuse \in [Roots -> SUBSET (1 .. PerPage)]
  /\ pageref \in [Pagerefs -> [page : Nat, type : Nat, free : Seq(Nat), nfree : Nat]]
  /\ sizebases \in [Types -> Seq(Pagerefs)]
  /\ allbase \in Seq(Pagerefs)
  /\ owned \subseteq [at : Nat, len : Nat]
  /\ pc \in [Threads -> {"out", "page"} \cup HasPage]
  /\ loc \in [Threads -> [type : Nat, page : Nat, root : Nat, place : Nat, va : Nat]]

(* The locals of a call under way.                                         *)
CallsInv ==
  \A t \in Threads :
    /\ pc[t] # "out" => loc[t].type \in Types
    /\ pc[t] \in HasPage => loc[t].page \in 1 .. firstpage - 1
    /\ pc[t] \in HasPlace => loc[t].root \in Roots /\ loc[t].place \in 1 .. PerPage
    /\ pc[t] = "rootpage_got" => loc[t].va \in 0 .. firstpage - 1

(* The two lists name the same pagerefs, each once, and each describes a   *)
(* page that was given out.                                                *)
ListsInv ==
  /\ NoDup(allbase)
  /\ \A type \in Types :
       /\ NoDup(sizebases[type])
       /\ \A p : p \in ToSet(sizebases[type]) <=> p \in Listed /\ pageref[p].type = type
  /\ \A p \in Listed :
       /\ pageref[p].page \in 1 .. firstpage - 1
       /\ pageref[p].type \in Types
       /\ NoDup(pageref[p].free)
       /\ ToSet(pageref[p].free) \subseteq Indices(p)
       /\ pageref[p].nfree = Len(pageref[p].free)

(* A page is described by one pageref at most, and by none while a call    *)
(* still looks for one.                                                    *)
PagesApart ==
  /\ \A p, q \in Listed : pageref[p].page = pageref[q].page => p = q
  /\ \A t \in Threads : pc[t] \in HasPage =>
       /\ \A p \in Listed : pageref[p].page # loc[t].page
       /\ \A u \in Threads \ {t} : pc[u] \in HasPage => loc[u].page # loc[t].page

(* What a client has is a block of a described page that is not free, or   *)
(* whole pages that nothing else is on.                                    *)
IsBlock(b) == \E p \in Listed : \E i \in Indices(p) : i \notin ToSet(pageref[p].free) /\ b = BlockOf(p, i)
IsWhole(b) ==
  \E n, m \in Nat \ {0} :
    /\ n + m <= firstpage
    /\ b = Whole(n, m)
    /\ \A p \in Listed : pageref[p].page \notin n .. n + m - 1
    /\ \A t \in Threads : pc[t] \in HasPage => loc[t].page \notin n .. n + m - 1
Apart(b, c) == b.at + b.len <= c.at \/ c.at + c.len <= b.at

OwnedInv ==
  /\ \A b \in owned : b.len > 0 /\ (IsBlock(b) \/ IsWhole(b))
  /\ \A p \in Listed : \A i \in Indices(p) :
       i \notin ToSet(pageref[p].free) => BlockOf(p, i) \in owned
  /\ \A b, c \in owned : b # c => Apart(b, c)

(* The roots get their pages in order, each its own.  A call that is to    *)
(* give a root its page has found the ones before it with theirs, unless   *)
(* memory has run out.                                                     *)
RootsInv ==
  /\ \A r \in Roots : root[r] < firstpage
  /\ \A r, s \in Roots : root[r] # 0 /\ root[r] = root[s] => r = s
  /\ \A r, s \in Roots : r < s /\ root[r] = 0 => root[s] = 0
  /\ \A t \in Threads :
       /\ pc[t] = "rootpage" /\ firstpage <= NumPages =>
            \A s \in Roots : s < loc[t].root => root[s] # 0
       /\ pc[t] = "rootpage_got" /\ loc[t].va # 0 =>
            /\ \A s \in Roots : s < loc[t].root => root[s] # 0
            /\ \A s \in Roots : root[s] # loc[t].va
            /\ \A u \in Threads \ {t} : pc[u] = "rootpage_got" => loc[u].va # loc[t].va
       /\ pc[t] = "rootpage_got" /\ loc[t].va = 0 => firstpage > NumPages
       /\ pc[t] = "rootpage_freed" => root[loc[t].root] # 0

(* A place is a listed pageref's or a call's, and never both or two calls'.*)
PlacesInv ==
  /\ PagerefsFound
  /\ NoPlaceLost
  /\ \A t \in Threads : pc[t] \in HasPlace =>
       /\ loc[t].place \in inuse[loc[t].root]
       /\ <<root[loc[t].root], loc[t].place>> \notin Listed
       /\ \A u \in Threads \ {t} :
            pc[u] \in HasPlace => <<loc[u].root, loc[u].place>> # <<loc[t].root, loc[t].place>>

(* All of it.                                                              *)
IInv == TypeInv /\ CallsInv /\ ListsInv /\ PagesApart /\ OwnedInv /\ RootsInv /\ PlacesInv

----------------------------------------------------------------------------
(* Pages and blocks.                                                       *)

(* The sizes of blocks, and how many of them are cut from a page.          *)
LEMMA SizeLemma ==
  ASSUME NEW type \in Types
  PROVE  /\ sizes[type] \in Nat \ {0}
         /\ PAGE_SIZE \in Nat \ {0}
         /\ NBlocks(type) \in Nat \ {0}
         /\ NBlocks(type) * sizes[type] <= PAGE_SIZE
<1>1. sizes[type] \in 1 .. PAGE_SIZE /\ PAGE_SIZE \in Nat
  BY KMallocConstants DEF Types
<1>2. sizes[type] \in Nat \ {0} /\ PAGE_SIZE \in Nat \ {0} /\ sizes[type] <= PAGE_SIZE
  BY <1>1
<1> DEFINE s == sizes[type]
           n == NBlocks(type)
<1>3. /\ n \in Nat
      /\ n * s <= PAGE_SIZE
      /\ PAGE_SIZE < n * s + s
  BY <1>2, DivLemma DEF NBlocks
<1> HIDE DEF s, n
<1>4. n # 0
  <2>1. SUFFICES ASSUME n = 0 PROVE FALSE
    OBVIOUS
  <2>2. n * s = 0
    BY <1>2, <2>1 DEF s
  <2>3. QED
    BY <1>2, <1>3, <2>2 DEF s
<1>5. QED
  BY <1>2, <1>3, <1>4 DEF s, n

(* The addresses of pages.                                                 *)
LEMMA StartLemma ==
  ASSUME NEW m \in Nat, NEW n \in Nat
  PROVE  /\ PAGE_SIZE \in Nat \ {0}
         /\ Start(m) \in Nat
         /\ Start(m + n) = Start(m) + Start(n)
         /\ m < n => Start(m) + PAGE_SIZE <= Start(n)
         /\ m <= n => Start(m) <= Start(n)
         /\ m # 0 => Start(m) > 0
<1>1. PAGE_SIZE \in Nat \ {0}
  <2>1. 1 \in Types
    BY KMallocConstants DEF Types
  <2>2. QED
    BY <2>1, SizeLemma
<1>2. /\ m * PAGE_SIZE \in Nat
      /\ (m + n) * PAGE_SIZE = m * PAGE_SIZE + n * PAGE_SIZE
      /\ m < n => m * PAGE_SIZE + PAGE_SIZE <= n * PAGE_SIZE
      /\ m <= n => m * PAGE_SIZE <= n * PAGE_SIZE
  BY <1>1, MultLemma
<1>3. ASSUME m # 0 PROVE m * PAGE_SIZE > 0
  <2>1. 0 < m => 0 * PAGE_SIZE + PAGE_SIZE <= m * PAGE_SIZE
    BY <1>1, MultLemma
  <2>2. 0 * PAGE_SIZE = 0 /\ 0 < m
    BY <1>1, <1>3
  <2>3. QED
    BY <1>1, <1>2, <2>1, <2>2
<1>4. QED
  BY <1>1, <1>2, <1>3 DEF Start

(* Where a block of a page is.                                             *)
LEMMA BlockLemma ==
  ASSUME NEW page \in Nat, NEW type \in Types, NEW i \in 0 .. (NBlocks(type) - 1)
  PROVE  LET b == Block(page, type, i)
         IN  /\ b \in [at : Nat, len : Nat]
             /\ b.len > 0
             /\ Start(page) <= b.at
             /\ b.at + b.len <= Start(page) + PAGE_SIZE
             /\ (b.at - page * PAGE_SIZE) \div sizes[type] = i
<1>1. /\ sizes[type] \in Nat \ {0}
      /\ PAGE_SIZE \in Nat \ {0}
      /\ NBlocks(type) \in Nat \ {0}
      /\ NBlocks(type) * sizes[type] <= PAGE_SIZE
  BY SizeLemma
<1>2. PICK s, n, a : s = sizes[type] /\ n = NBlocks(type) /\ a = page * PAGE_SIZE
  OBVIOUS
<1>3. s \in Nat \ {0} /\ n \in Nat /\ i \in Nat /\ i < n /\ n * s <= PAGE_SIZE
  BY <1>1, <1>2
<1>4. a \in Nat /\ a = Start(page)
  BY <1>1, <1>2, StartLemma DEF Start
<1>5. i * s \in Nat /\ i * s + s <= n * s /\ n * s \in Nat
  BY <1>3, MultLemma
<1>6. (i * s) \div s = i
  BY <1>3, DivLemma
<1>7. PICK k : k = i * s
  OBVIOUS
<1>8. Block(page, type, i) = [at |-> a + k, len |-> s]
  BY <1>2, <1>7 DEF Block
<1>9. k \in Nat /\ k + s <= PAGE_SIZE
  <2>1. PICK l : l = n * s
    OBVIOUS
  <2>2. l \in Nat /\ l <= PAGE_SIZE /\ k \in Nat /\ k + s <= l
    BY <1>3, <1>5, <1>7, <2>1
  <2>3. QED
    BY <1>1, <1>3, <2>2
<1>10. (a + k) - a = k
  BY <1>4, <1>9
<1>11. /\ [at |-> a + k, len |-> s] \in [at : Nat, len : Nat]
       /\ s > 0 /\ a <= a + k /\ (a + k) + s <= a + PAGE_SIZE
  BY <1>1, <1>3, <1>4, <1>9
<1>12. k \div s = i
  BY <1>6, <1>7
<1>13. ((a + k) - page * PAGE_SIZE) \div sizes[type] = i
  BY <1>2, <1>10, <1>12
<1>14. QED
  BY <1>4, <1>8, <1>11, <1>13

(* Two blocks of a page.                                                   *)
LEMMA BlocksApart ==
  ASSUME NEW page \in Nat, NEW type \in Types,
         NEW i \in 0 .. (NBlocks(type) - 1), NEW j \in 0 .. (NBlocks(type) - 1), i # j
  PROVE  /\ Block(page, type, i) # Block(page, type, j)
         /\ Apart(Block(page, type, i), Block(page, type, j))
<1>1. sizes[type] \in Nat \ {0} /\ NBlocks(type) \in Nat /\ PAGE_SIZE \in Nat
  BY SizeLemma
<1>2. PICK s, a, k, l : s = sizes[type] /\ a = page * PAGE_SIZE /\ k = i * s /\ l = j * s
  OBVIOUS
<1>3. Block(page, type, i) = [at |-> a + k, len |-> s] /\ Block(page, type, j) = [at |-> a + l, len |-> s]
  BY <1>2 DEF Block
<1>4. i \in Nat /\ j \in Nat
  BY <1>1
<1>5. /\ i < j => k + s <= l
      /\ j < i => l + s <= k
      /\ k \in Nat /\ l \in Nat
  BY <1>1, <1>2, <1>4, MultLemma
<1>6. a \in Nat /\ s \in Nat \ {0}
  BY <1>1, <1>2, MultLemma
<1>7. k + s <= l \/ l + s <= k
  BY <1>4, <1>5
<1>8. (a + k) + s <= a + l \/ (a + l) + s <= a + k
  BY <1>5, <1>6, <1>7
<1>9. k # l
  BY <1>5, <1>6, <1>7
<1>10. a + k # a + l
  BY <1>5, <1>6, <1>9
<1>11. QED
  BY <1>3, <1>8, <1>10 DEF Apart

(* The page an address is on.                                              *)
LEMMA OnPageLemma ==
  ASSUME NEW at \in Nat, NEW p, pageref[p].page \in Nat
  PROVE  OnPage(at, p) <=> Start(pageref[p].page) <= at /\ at < Start(pageref[p].page) + PAGE_SIZE
<1>1. PICK n : n = pageref[p].page
  OBVIOUS
<1>2. PAGE_SIZE \in Nat
  BY KMallocConstants
<1>3. (n + 1) * PAGE_SIZE = n * PAGE_SIZE + PAGE_SIZE
  BY <1>1, <1>2, MultLemma
<1>4. QED
  BY <1>1, <1>3 DEF OnPage, Start

(* Addresses of different pages are apart.                                 *)
LEMMA PagesOrdered ==
  ASSUME NEW m \in Nat, NEW n \in Nat, NEW x \in Nat, NEW y \in Nat,
         Start(m) <= x, x < Start(m) + PAGE_SIZE,
         Start(n) <= y, y < Start(n) + PAGE_SIZE
  PROVE  /\ x = y => m = n
         /\ m < n => x < y
<1>1. /\ PAGE_SIZE \in Nat /\ Start(m) \in Nat /\ Start(n) \in Nat
      /\ m < n => Start(m) + PAGE_SIZE <= Start(n)
      /\ n < m => Start(n) + PAGE_SIZE <= Start(m)
  BY StartLemma
<1>2. ~ (m < n) /\ ~ (n < m) => m = n
  OBVIOUS
<1>3. QED
  BY <1>1, <1>2

(* A listed pageref, its page and its free list.                           *)
LEMMA ListedLemma ==
  ASSUME TypeInv, ListsInv, NEW p \in Listed
  PROVE  /\ p \in Pagerefs
         /\ pageref[p] \in [page : Nat, type : Nat, free : Seq(Nat), nfree : Nat]
         /\ pageref[p].page \in Nat \ {0}
         /\ pageref[p].page < firstpage
         /\ pageref[p].type \in Types
         /\ pageref[p].free \in Seq(Nat)
         /\ pageref[p].nfree \in Nat
         /\ NBlocks(pageref[p].type) \in Nat \ {0}
         /\ NoDup(pageref[p].free)
         /\ ToSet(pageref[p].free) \subseteq Indices(p)
         /\ pageref[p].nfree = Len(pageref[p].free)
<1>1. p \in Pagerefs
  BY ListLemma DEF TypeInv, Listed
<1>2. pageref[p] \in [page : Nat, type : Nat, free : Seq(Nat), nfree : Nat]
  BY <1>1 DEF TypeInv
<1>3. /\ pageref[p].page \in 1 .. firstpage - 1
      /\ pageref[p].type \in Types
      /\ NoDup(pageref[p].free)
      /\ ToSet(pageref[p].free) \subseteq Indices(p)
      /\ pageref[p].nfree = Len(pageref[p].free)
  BY DEF ListsInv
<1>4. firstpage \in Nat
  BY KMallocConstants DEF TypeInv
<1>5. pageref[p].page \in Nat \ {0} /\ pageref[p].page < firstpage
  BY <1>3, <1>4
<1>6. NBlocks(pageref[p].type) \in Nat \ {0}
  BY <1>3, SizeLemma
<1>7. QED
  BY <1>1, <1>2, <1>3, <1>5, <1>6

(* A block of a listed page.                                               *)
LEMMA BlockOfLemma ==
  ASSUME TypeInv, ListsInv, NEW p \in Listed, NEW i \in Indices(p)
  PROVE  LET b == BlockOf(p, i)
         IN  /\ b \in [at : Nat, len : Nat]
             /\ b.len > 0
             /\ Start(pageref[p].page) <= b.at
             /\ b.at + b.len <= Start(pageref[p].page) + PAGE_SIZE
             /\ b.at < Start(pageref[p].page) + PAGE_SIZE
             /\ (b.at - pageref[p].page * PAGE_SIZE) \div sizes[pageref[p].type] = i
             /\ OnPage(b.at, p)
<1>1. PICK b : b = BlockOf(p, i)
  OBVIOUS
<1>2. pageref[p].page \in Nat /\ pageref[p].type \in Types
  BY ListedLemma
<1>3. /\ b \in [at : Nat, len : Nat]
      /\ b.len > 0
      /\ Start(pageref[p].page) <= b.at
      /\ b.at + b.len <= Start(pageref[p].page) + PAGE_SIZE
      /\ (b.at - pageref[p].page * PAGE_SIZE) \div sizes[pageref[p].type] = i
  BY <1>1, <1>2, BlockLemma DEF BlockOf, Indices
<1>4. Start(pageref[p].page) \in Nat /\ PAGE_SIZE \in Nat
  BY <1>2, StartLemma
<1>5. b.at \in Nat /\ b.len \in Nat
  BY <1>3
<1>6. b.at < Start(pageref[p].page) + PAGE_SIZE
  BY <1>3, <1>4, <1>5
<1>7. OnPage(b.at, p)
  BY <1>2, <1>3, <1>5, <1>6, OnPageLemma
<1>8. QED
  BY <1>1, <1>3, <1>6, <1>7

(* Whole pages.                                                            *)
LEMMA WholeLemma ==
  ASSUME NEW n \in Nat \ {0}, NEW m \in Nat \ {0}
  PROVE  /\ Whole(n, m) \in [at : Nat, len : Nat]
         /\ Whole(n, m).len > 0
         /\ Whole(n, m).at = Start(n)
         /\ Whole(n, m).at + Whole(n, m).len = Start(n + m)
<1>1. Start(n) \in Nat /\ Start(m) \in Nat /\ Start(m) > 0 /\ Start(n + m) = Start(n) + Start(m)
  BY StartLemma
<1>2. QED
  BY <1>1 DEF Whole

(* A block is clear of whole pages that do not include its page.           *)
LEMMA BlockWholeApart ==
  ASSUME NEW x \in Nat, NEW type \in Types, NEW i \in 0 .. (NBlocks(type) - 1),
         NEW n \in Nat \ {0}, NEW m \in Nat \ {0}, x \notin n .. n + m - 1
  PROVE  Apart(Block(x, type, i), Whole(n, m)) /\ Apart(Whole(n, m), Block(x, type, i))
<1>1. PICK b, w : b = Block(x, type, i) /\ w = Whole(n, m)
  OBVIOUS
<1>2. /\ b \in [at : Nat, len : Nat]
      /\ Start(x) <= b.at
      /\ b.at + b.len <= Start(x) + PAGE_SIZE
  BY <1>1, BlockLemma
<1>3. w \in [at : Nat, len : Nat] /\ w.at = Start(n) /\ w.at + w.len = Start(n + m)
  BY <1>1, WholeLemma
<1>4. x < n \/ n + m <= x
  OBVIOUS
<1>5. /\ n + m \in Nat /\ PAGE_SIZE \in Nat
      /\ Start(x) \in Nat /\ Start(n) \in Nat /\ Start(n + m) \in Nat
      /\ x < n => Start(x) + PAGE_SIZE <= Start(n)
      /\ n + m <= x => Start(n + m) <= Start(x)
  <2>1. n + m \in Nat
    OBVIOUS
  <2>2. QED
    BY <2>1, StartLemma
<1>6. b.at \in Nat /\ b.len \in Nat /\ w.at \in Nat /\ w.len \in Nat
  BY <1>2, <1>3
<1>7. b.at + b.len <= w.at \/ w.at + w.len <= b.at
  BY <1>2, <1>3, <1>4, <1>5, <1>6
<1>8. QED
  BY <1>1, <1>7 DEF Apart

(* Blocks of different pages are apart.                                    *)
LEMMA BlocksOfPagesApart ==
  ASSUME NEW x \in Nat, NEW type \in Types, NEW i \in 0 .. (NBlocks(type) - 1),
         NEW y \in Nat, NEW other \in Types, NEW j \in 0 .. (NBlocks(other) - 1), x # y
  PROVE  Apart(Block(x, type, i), Block(y, other, j))
<1>1. PICK b, c : b = Block(x, type, i) /\ c = Block(y, other, j)
  OBVIOUS
<1>2. /\ b \in [at : Nat, len : Nat]
      /\ Start(x) <= b.at
      /\ b.at + b.len <= Start(x) + PAGE_SIZE
      /\ c \in [at : Nat, len : Nat]
      /\ Start(y) <= c.at
      /\ c.at + c.len <= Start(y) + PAGE_SIZE
  BY <1>1, BlockLemma
<1>3. /\ PAGE_SIZE \in Nat /\ Start(x) \in Nat /\ Start(y) \in Nat
      /\ x < y => Start(x) + PAGE_SIZE <= Start(y)
      /\ y < x => Start(y) + PAGE_SIZE <= Start(x)
  BY StartLemma
<1>4. b.at \in Nat /\ b.len \in Nat /\ c.at \in Nat /\ c.len \in Nat
  BY <1>2
<1>5. x < y \/ y < x
  OBVIOUS
<1>6. b.at + b.len <= c.at \/ c.at + c.len <= b.at
  BY <1>2, <1>3, <1>4, <1>5
<1>7. QED
  BY <1>1, <1>6 DEF Apart

(* What a client has on a listed page is a block of it that is not free.   *)
LEMMA OwnedOnLemma ==
  ASSUME TypeInv, ListsInv, PagesApart, OwnedInv,
         NEW p \in Listed, NEW b \in owned, OnPage(b.at, p)
  PROVE  \E i \in Indices(p) : i \notin ToSet(pageref[p].free) /\ b = BlockOf(p, i)
<1>1. b.at \in Nat /\ b.len \in Nat
  BY DEF TypeInv
<1>2. PICK x : x = pageref[p].page
  OBVIOUS
<1>3. x \in Nat /\ Start(x) <= b.at /\ b.at < Start(x) + PAGE_SIZE
  BY <1>1, <1>2, ListedLemma, OnPageLemma
<1>4. CASE IsBlock(b)
  <2>1. PICK q \in Listed : \E i \in Indices(q) : i \notin ToSet(pageref[q].free) /\ b = BlockOf(q, i)
    BY <1>4 DEF IsBlock
  <2>2. PICK i \in Indices(q) : i \notin ToSet(pageref[q].free) /\ b = BlockOf(q, i)
    BY <2>1
  <2>3. /\ pageref[q].page \in Nat
        /\ Start(pageref[q].page) <= b.at /\ b.at < Start(pageref[q].page) + PAGE_SIZE
    BY <2>2, BlockOfLemma, ListedLemma
  <2>4. x = pageref[q].page
    BY <1>1, <1>3, <2>3, PagesOrdered
  <2>5. p = q
    BY <1>2, <2>4 DEF PagesApart
  <2>6. QED
    BY <2>2, <2>5
<1>5. CASE IsWhole(b)
  <2>1. PICK n \in Nat \ {0}, m \in Nat \ {0} : b = Whole(n, m) /\ x \notin n .. n + m - 1
    BY <1>2, <1>5 DEF IsWhole
  <2>2. b.at = Start(n) /\ b.at + b.len = Start(n + m) /\ b.len > 0
    BY <2>1, WholeLemma
  <2>3. x < n \/ n + m <= x
    BY <1>3, <2>1
  <2>4. /\ n + m \in Nat /\ PAGE_SIZE \in Nat
        /\ Start(x) \in Nat /\ Start(n) \in Nat /\ Start(n + m) \in Nat
        /\ x < n => Start(x) + PAGE_SIZE <= Start(n)
        /\ n + m <= x => Start(n + m) <= Start(x)
    <3>1. n + m \in Nat
      OBVIOUS
    <3>2. QED
      BY <1>3, <3>1, StartLemma
  <2>5. QED
    BY <1>1, <1>3, <2>2, <2>3, <2>4
<1>6. QED
  BY <1>4, <1>5 DEF OwnedInv

(* Counting the blocks of a listed page.                                   *)
LEMMA BlocksCounted ==
  ASSUME TypeInv, ListsInv, NEW p \in Listed, NEW S \in SUBSET Indices(p), IsFiniteSet(S)
  PROVE  Cardinality({BlockOf(p, i) : i \in S}) = Cardinality(S)
<1> DEFINE T == {BlockOf(p, i) : i \in S}
           f == [i \in S |-> BlockOf(p, i)]
<1>1. f \in [S -> T]
  OBVIOUS
<1>2. ASSUME NEW i \in S, NEW j \in S, f[i] = f[j] PROVE i = j
  <2>1. pageref[p].page \in Nat /\ pageref[p].type \in Types
    BY ListedLemma
  <2>2. BlockOf(p, i) = BlockOf(p, j)
    BY <1>2
  <2>3. i \in 0 .. (NBlocks(pageref[p].type) - 1) /\ j \in 0 .. (NBlocks(pageref[p].type) - 1)
    BY DEF Indices
  <2>4. QED
    BY <2>1, <2>2, <2>3, BlocksApart DEF BlockOf
<1>3. f \in Injection(S, T)
  BY <1>1, <1>2 DEF Injection, IsInjective
<1>4. f \in Surjection(S, T)
  BY <1>1 DEF Surjection
<1>5. ExistsBijection(S, T)
  BY <1>3, <1>4 DEF ExistsBijection, Bijection
<1>6. QED
  BY <1>5, FS_Bijection

(* How many blocks of a listed page are free, and how many are not.        *)
LEMMA IndicesCounted ==
  ASSUME TypeInv, ListsInv, NEW p \in Listed
  PROVE  LET F == ToSet(pageref[p].free)
             D == Indices(p) \ F
         IN  /\ IsFiniteSet(F) /\ IsFiniteSet(D)
             /\ Cardinality(F) = pageref[p].nfree
             /\ Cardinality(D) \in Nat
             /\ Cardinality(D) + pageref[p].nfree = NBlocks(pageref[p].type)
<1>1. PICK F, D, N : F = ToSet(pageref[p].free) /\ D = Indices(p) \ F /\ N = NBlocks(pageref[p].type)
  OBVIOUS
<1>2. /\ pageref[p].free \in Seq(Nat) /\ NoDup(pageref[p].free)
      /\ F \subseteq Indices(p)
      /\ pageref[p].nfree = Len(pageref[p].free)
      /\ N \in Nat \ {0}
  BY <1>1, ListedLemma
<1>3. IsFiniteSet(F) /\ Cardinality(F) = pageref[p].nfree
  BY <1>1, <1>2, CountLemma
<1>4. Indices(p) = 0 .. (N - 1)
  BY <1>1 DEF Indices
<1>5. IsFiniteSet(Indices(p)) /\ Cardinality(Indices(p)) = N
  <2>1. 0 \in Int /\ N - 1 \in Int /\ ~ (0 > N - 1) /\ (N - 1) - 0 + 1 = N
    BY <1>2
  <2>2. QED
    BY <1>4, <2>1, FS_Interval
<1>6. IsFiniteSet(D)
  BY <1>1, <1>5, FS_Subset
<1>7. F \cup D = Indices(p) /\ F \cap D = {}
  BY <1>1, <1>2
<1>8. Cardinality(F \cup D) = Cardinality(F) + Cardinality(D) - Cardinality(F \cap D)
  BY <1>3, <1>6, FS_Union
<1>9. Cardinality(F \cap D) = 0
  BY <1>7, FS_EmptySet
<1>10. Cardinality(D) \in Nat /\ Cardinality(F) \in Nat
  BY <1>3, <1>6, FS_CardinalityType
<1>11. Cardinality(D) + pageref[p].nfree = N
  <2>1. Cardinality(F \cup D) = N
    BY <1>5, <1>7, Zenon
  <2>2. N = Cardinality(F) + Cardinality(D) - 0
    BY <1>8, <1>9, <2>1, Zenon
  <2>3. QED
    BY <1>2, <1>3, <1>10, <2>2
<1>12. QED
  BY <1>1, <1>3, <1>6, <1>10, <1>11

(* The invariant gives what checksubpage and checksubpages assert.         *)
LEMMA AccountedLemma ==
  ASSUME TypeInv, ListsInv, PagesApart, OwnedInv
  PROVE  PagesAccounted
<1>1. ASSUME NEW p \in Listed
      PROVE  /\ pageref[p].nfree = Len(pageref[p].free)
             /\ Cardinality(FreeBlocks(p)) = pageref[p].nfree
             /\ FreeBlocks(p) \cap owned = {}
             /\ Cardinality(OwnedOn(p)) + pageref[p].nfree = NBlocks(pageref[p].type)
  <2>1. PICK F, D : F = ToSet(pageref[p].free) /\ D = Indices(p) \ F
    OBVIOUS
  <2>2. /\ IsFiniteSet(F) /\ IsFiniteSet(D)
        /\ Cardinality(F) = pageref[p].nfree
        /\ Cardinality(D) + pageref[p].nfree = NBlocks(pageref[p].type)
        /\ F \subseteq Indices(p) /\ D \subseteq Indices(p)
    BY <2>1, IndicesCounted, ListedLemma
  <2>3. FreeBlocks(p) = {BlockOf(p, i) : i \in F}
    BY <2>1 DEF FreeBlocks, BlockOf
  <2>4. Cardinality(FreeBlocks(p)) = pageref[p].nfree
    <3>1. Cardinality({BlockOf(p, i) : i \in F}) = Cardinality(F)
      BY <2>2, BlocksCounted
    <3>2. QED
      BY <2>2, <2>3, <3>1
  <2>5. \A b \in owned : OnPage(b.at, p) => \E i \in D : b = BlockOf(p, i)
    BY <2>1, OwnedOnLemma
  <2>6. \A i \in D : BlockOf(p, i) \in owned
    BY <2>1 DEF OwnedInv
  <2>7. \A i \in Indices(p) : OnPage(BlockOf(p, i).at, p)
    BY BlockOfLemma
  <2>8. OwnedOn(p) = {BlockOf(p, i) : i \in D}
    <3>1. ASSUME NEW b \in OwnedOn(p) PROVE b \in {BlockOf(p, i) : i \in D}
      BY <2>5 DEF OwnedOn
    <3>2. ASSUME NEW i \in D PROVE BlockOf(p, i) \in OwnedOn(p)
      BY <2>2, <2>6, <2>7 DEF OwnedOn
    <3>3. QED
      BY <3>1, <3>2
  <2>9. Cardinality(OwnedOn(p)) = Cardinality(D)
    <3>1. Cardinality({BlockOf(p, i) : i \in D}) = Cardinality(D)
      BY <2>2, BlocksCounted
    <3>2. QED
      BY <2>8, <3>1
  <2>10. ASSUME NEW b \in FreeBlocks(p), b \in owned PROVE FALSE
    <3>1. PICK i \in F : b = BlockOf(p, i)
      BY <2>3
    <3>2. OnPage(b.at, p)
      BY <2>2, <2>7, <3>1
    <3>3. PICK j \in D : b = BlockOf(p, j)
      BY <2>5, <2>10, <3>2
    <3>4. /\ i \in 0 .. (NBlocks(pageref[p].type) - 1)
          /\ j \in 0 .. (NBlocks(pageref[p].type) - 1)
          /\ i # j
      BY <2>1, <2>2 DEF Indices
    <3>5. QED
      BY <3>1, <3>3, <3>4, BlocksApart, ListedLemma DEF BlockOf
  <2>11. QED
    BY <2>2, <2>4, <2>9, <2>10, ListedLemma
<1>2. ASSUME NEW type \in Types
      PROVE  ToSet(sizebases[type]) = {p \in Listed : pageref[p].type = type}
  BY DEF ListsInv
<1>3. Cardinality(Listed) = Len(allbase)
  BY CountLemma DEF TypeInv, ListsInv, Listed
<1>4. QED
  BY <1>1, <1>2, <1>3 DEF PagesAccounted

(* The inductive invariant gives the invariants of the runs.               *)
LEMMA InvLemma ==
  ASSUME IInv
  PROVE  KMallocInv /\ NoPlaceLost
<1> USE DEF IInv
<1>1. TypeOK
  <2>1. ASSUME NEW p \in Listed
        PROVE  /\ pageref[p].page \in Pages /\ pageref[p].type \in Types
               /\ pageref[p].nfree \in 0 .. NBlocks(pageref[p].type)
    <3>1. /\ pageref[p].page \in Nat \ {0} /\ pageref[p].page < firstpage
          /\ pageref[p].type \in Types /\ pageref[p].nfree \in Nat
          /\ NBlocks(pageref[p].type) \in Nat
      BY ListedLemma
    <3>2. firstpage \in 1 .. NumPages + 1 /\ NumPages \in Nat
      BY KMallocConstants DEF TypeInv
    <3>3. PICK c \in Nat : c + pageref[p].nfree = NBlocks(pageref[p].type)
      BY IndicesCounted
    <3>4. QED
      BY <3>1, <3>2, <3>3 DEF Pages
  <2>2. \A b \in owned : b.at \in Nat /\ b.len \in Nat
    BY DEF TypeInv
  <2>3. QED
    BY <2>1, <2>2 DEF TypeOK, TypeInv
<1>2. PagesAccounted
  BY AccountedLemma
<1>3. EmptyRootsUnused
  <2>1. SUFFICES ASSUME NEW r \in Roots, NEW p \in Listed, NEW s \in Roots, s > r, root[s] = p[1]
                 PROVE  root[r] # 0
    BY DEF EmptyRootsUnused
  <2>2. p[1] \in Pages
    BY ListedLemma DEF Pagerefs
  <2>3. root[s] # 0
    BY <2>1, <2>2 DEF Pages
  <2>4. r < s
    BY <2>1, KMallocConstants DEF Roots
  <2>5. QED
    BY <2>3, <2>4 DEF RootsInv
<1>4. QED
  BY <1>1, <1>2, <1>3 DEF KMallocInv, PlacesInv

----------------------------------------------------------------------------
(* Steps that leave a part of the heap alone.                              *)

(* Thread t is somewhere else, with the locals l.                          *)
Moves(t, where, l) ==
  /\ pc' = [pc EXCEPT ![t] = where]
  /\ loc' = [loc EXCEPT ![t] = l]

Locals == [type : Nat, page : Nat, root : Nat, place : Nat, va : Nat]

(* Where a thread that moves is, and that the others stay.                 *)
LEMMA MovesLemma ==
  ASSUME TypeInv, NEW t \in Threads, NEW where \in {"out", "page"} \cup HasPage, NEW l \in Locals,
         Moves(t, where, l)
  PROVE  /\ pc' \in [Threads -> {"out", "page"} \cup HasPage]
         /\ loc' \in [Threads -> Locals]
         /\ pc'[t] = where /\ loc'[t] = l
         /\ \A u \in Threads \ {t} : pc'[u] = pc[u] /\ loc'[u] = loc[u]
BY DEF Moves, TypeInv, Locals

(* The lists and pagerefs are left alone.                                  *)
LEMMA CalmLists ==
  ASSUME TypeInv, ListsInv, UNCHANGED <<pageref, sizebases, allbase>>,
         firstpage' \in Nat, firstpage <= firstpage'
  PROVE  ListsInv'
<1>1. \A p \in Listed : pageref[p].page \in 1 .. firstpage - 1 => pageref[p].page \in 1 .. firstpage' - 1
  BY KMallocConstants DEF TypeInv
<1>2. UNCHANGED <<Listed, pageref>> /\ \A p : Indices(p)' = Indices(p)
  BY DEF Listed, Indices, NBlocks
<1>3. QED
  BY <1>1, <1>2 DEF ListsInv

(* They are, and no call has a new page.                                   *)
LEMMA CalmApart ==
  ASSUME PagesApart, UNCHANGED <<pageref, allbase>>,
         \A u \in Threads : pc'[u] \in HasPage => pc[u] \in HasPage /\ loc'[u].page = loc[u].page
  PROVE  PagesApart'
<1>1. UNCHANGED <<Listed, pageref>>
  BY DEF Listed
<1>2. QED
  BY <1>1 DEF PagesApart

(* They are, and clients have what they had.                               *)
LEMMA CalmWhole ==
  ASSUME TypeInv, UNCHANGED <<pageref, allbase>>, firstpage' \in Nat, firstpage <= firstpage',
         \A u \in Threads : pc'[u] \in HasPage => pc[u] \in HasPage /\ loc'[u].page = loc[u].page,
         NEW b, IsWhole(b)
  PROVE  IsWhole(b)'
<1>1. UNCHANGED <<Listed, pageref>>
  BY DEF Listed
<1>2. PICK n \in Nat \ {0}, m \in Nat \ {0} :
        /\ n + m <= firstpage
        /\ b = Whole(n, m)
        /\ \A p \in Listed : pageref[p].page \notin n .. n + m - 1
        /\ \A u \in Threads : pc[u] \in HasPage => loc[u].page \notin n .. n + m - 1
  BY DEF IsWhole
<1>3. n + m <= firstpage'
  BY <1>2, KMallocConstants DEF TypeInv
<1>4. QED
  BY <1>1, <1>2, <1>3 DEF IsWhole, Whole, Start

LEMMA CalmOwned ==
  ASSUME TypeInv, OwnedInv, UNCHANGED <<pageref, allbase, owned>>,
         firstpage' \in Nat, firstpage <= firstpage',
         \A u \in Threads : pc'[u] \in HasPage => pc[u] \in HasPage /\ loc'[u].page = loc[u].page
  PROVE  OwnedInv'
<1>1. UNCHANGED <<Listed, pageref>> /\ \A p : Indices(p)' = Indices(p)
  BY DEF Listed, Indices, NBlocks
<1>2. \A p, i : BlockOf(p, i)' = BlockOf(p, i)
  BY DEF BlockOf, Block
<1>3. \A b : IsBlock(b) => IsBlock(b)'
  BY <1>1, <1>2 DEF IsBlock
<1>4. \A b : IsWhole(b) => IsWhole(b)'
  BY CalmWhole
<1>5. \A b, c : Apart(b, c)' = Apart(b, c)
  BY DEF Apart
<1>6. QED
  BY <1>1, <1>2, <1>3, <1>4, <1>5 DEF OwnedInv

(* The roots are left alone, and calls that have a place stay or are done. *)
LEMMA CalmRoots ==
  ASSUME TypeInv, RootsInv, UNCHANGED root,
         firstpage' \in Nat, firstpage <= firstpage',
         \A u \in Threads : pc'[u] \in HasPlace => pc'[u] = pc[u] /\ loc'[u] = loc[u]
  PROVE  RootsInv'
<1>1. firstpage \in Nat /\ NumPages \in Nat
  BY KMallocConstants DEF TypeInv
<1>2. /\ firstpage' <= NumPages => firstpage <= NumPages
      /\ firstpage > NumPages => firstpage' > NumPages
      /\ \A r \in Roots : root[r] < firstpage => root[r] < firstpage'
  BY <1>1, KMallocConstants DEF TypeInv
<1>3. /\ "rootpage" \in HasPlace /\ "rootpage_got" \in HasPlace /\ "rootpage_freed" \in HasPlace
  BY DEF HasPlace
<1>4. /\ \A r \in Roots : root'[r] < firstpage'
      /\ \A r, s \in Roots : root'[r] # 0 /\ root'[r] = root'[s] => r = s
      /\ \A r, s \in Roots : r < s /\ root'[r] = 0 => root'[s] = 0
  BY <1>2 DEF RootsInv
<1>5. ASSUME NEW t \in Threads
      PROVE  /\ pc'[t] = "rootpage" /\ firstpage' <= NumPages =>
                  \A s \in Roots : s < loc'[t].root => root'[s] # 0
             /\ pc'[t] = "rootpage_got" /\ loc'[t].va # 0 =>
                  /\ \A s \in Roots : s < loc'[t].root => root'[s] # 0
                  /\ \A s \in Roots : root'[s] # loc'[t].va
                  /\ \A u \in Threads \ {t} : pc'[u] = "rootpage_got" => loc'[u].va # loc'[t].va
             /\ pc'[t] = "rootpage_got" /\ loc'[t].va = 0 => firstpage' > NumPages
             /\ pc'[t] = "rootpage_freed" => root'[loc'[t].root] # 0
  BY <1>2, <1>3 DEF RootsInv
<1>6. QED
  BY <1>4, <1>5 DEF RootsInv

(* The roots and places are left alone, and so is every call that has or   *)
(* is to give a place.                                                     *)
LEMMA CalmPlaces ==
  ASSUME TypeInv, RootsInv, PlacesInv, UNCHANGED <<root, inuse, allbase>>,
         firstpage' \in Nat, firstpage <= firstpage',
         \A u \in Threads : pc[u] \in HasPlace \/ pc'[u] \in HasPlace
                              => pc'[u] = pc[u] /\ loc'[u] = loc[u]
  PROVE  RootsInv' /\ PlacesInv'
<1>1. firstpage' <= NumPages => firstpage <= NumPages
  BY KMallocConstants DEF TypeInv
<1>2. UNCHANGED Listed
  BY DEF Listed
<1>3. \A u \in Threads : pc'[u] \in HasPlace => pc[u] \in HasPlace /\ pc'[u] = pc[u] /\ loc'[u] = loc[u]
  OBVIOUS
<1>4. RootsInv'
  BY <1>3, CalmRoots
<1>5. PlacesInv'
  <2>1. PagerefsFound'
    BY <1>2 DEF PlacesInv, PagerefsFound
  <2>2. NoPlaceLost'
    BY <1>1, <1>2 DEF PlacesInv, NoPlaceLost, HasPlace
  <2>3. ASSUME NEW t \in Threads, pc'[t] \in HasPlace
        PROVE  /\ loc'[t].place \in inuse'[loc'[t].root]
               /\ <<root'[loc'[t].root], loc'[t].place>> \notin Listed'
               /\ \A u \in Threads \ {t} :
                    pc'[u] \in HasPlace => <<loc'[u].root, loc'[u].place>> # <<loc'[t].root, loc'[t].place>>
    BY <1>2, <1>3, <2>3 DEF PlacesInv
  <2>4. QED
    BY <2>1, <2>2, <2>3 DEF PlacesInv
<1>6. QED
  BY <1>4, <1>5

----------------------------------------------------------------------------
(* kmalloc of whole pages, and the first steps of the others.              *)

(* What clients have is on the pages that were given out.                  *)
LEMMA OwnedBelow ==
  ASSUME TypeInv, ListsInv, OwnedInv, NEW b \in owned
  PROVE  b.at \in Nat /\ b.len \in Nat /\ b.at + b.len <= Start(firstpage)
<1>1. b.at \in Nat /\ b.len \in Nat /\ firstpage \in Nat
  BY KMallocConstants DEF TypeInv
<1>2. CASE IsBlock(b)
  <2>1. PICK p \in Listed : \E i \in Indices(p) : b = BlockOf(p, i)
    BY <1>2 DEF IsBlock
  <2>2. /\ pageref[p].page \in Nat /\ pageref[p].page < firstpage
        /\ b.at + b.len <= Start(pageref[p].page) + PAGE_SIZE
    BY <2>1, BlockOfLemma, ListedLemma
  <2>3. /\ Start(pageref[p].page) + PAGE_SIZE <= Start(firstpage)
        /\ Start(pageref[p].page) \in Nat /\ PAGE_SIZE \in Nat /\ Start(firstpage) \in Nat
    BY <1>1, <2>2, StartLemma
  <2>4. QED
    BY <1>1, <2>2, <2>3
<1>3. CASE IsWhole(b)
  <2>1. PICK n \in Nat \ {0}, m \in Nat \ {0} : n + m <= firstpage /\ b = Whole(n, m)
    BY <1>3 DEF IsWhole
  <2>2. b.at + b.len = Start(n + m)
    BY <2>1, WholeLemma
  <2>3. n + m \in Nat
    OBVIOUS
  <2>4. Start(n + m) <= Start(firstpage)
    BY <1>1, <2>1, <2>3, StartLemma
  <2>5. QED
    BY <1>1, <2>2, <2>4
<1>4. QED
  BY <1>2, <1>3 DEF OwnedInv

(* The pages alloc_kpages gives out are the next ones.                     *)
LEMMA KPagesLemma ==
  ASSUME TypeInv, NEW n \in Nat \ {0}, alloc_kpages(n)
  PROVE  /\ firstpage \in Nat \ {0} /\ NumPages \in Nat
         /\ firstpage' \in 1 .. NumPages + 1 /\ firstpage' \in Nat /\ firstpage <= firstpage'
         /\ KPages(n) = 0 => firstpage' = firstpage /\ firstpage + n > NumPages + 1
         /\ KPages(n) # 0 => KPages(n) = firstpage /\ firstpage' = firstpage + n
<1>1. firstpage \in 1 .. NumPages + 1 /\ NumPages \in Nat
  BY KMallocConstants DEF TypeInv
<1>2. CASE firstpage + n - 1 <= NumPages
  <2>1. KPages(n) = firstpage /\ firstpage # 0
    BY <1>1, <1>2 DEF KPages
  <2>2. firstpage' = firstpage + n
    BY <2>1 DEF alloc_kpages
  <2>3. QED
    BY <1>1, <1>2, <2>1, <2>2
<1>3. CASE ~ (firstpage + n - 1 <= NumPages)
  <2>1. KPages(n) = 0
    BY <1>3 DEF KPages
  <2>2. firstpage' = firstpage
    BY <2>1 DEF alloc_kpages
  <2>3. QED
    BY <1>1, <1>3, <2>1, <2>2
<1>4. QED
  BY <1>2, <1>3

(* More pages have been given out.                                         *)
LEMMA IntervalGrows ==
  ASSUME NEW a \in Nat, NEW b \in Nat, a <= b
  PROVE  /\ \A n \in 1 .. a - 1 : n \in 1 .. b - 1
         /\ \A n \in 0 .. a - 1 : n \in 0 .. b - 1
OBVIOUS

(* The number of pages asked for.                                          *)
LEMMA PagesWanted ==
  ASSUME NEW sz \in Requests
  PROVE  (sz + PAGE_SIZE - 1) \div PAGE_SIZE \in Nat \ {0}
<1>1. PAGE_SIZE \in Nat \ {0} /\ sz \in Nat \ {0}
  BY StartLemma, KMallocConstants
<1>2. PICK a \in Nat : a = sz + PAGE_SIZE - 1 /\ a >= PAGE_SIZE
  BY <1>1
<1>3. a \div PAGE_SIZE \in Nat /\ a < (a \div PAGE_SIZE) * PAGE_SIZE + PAGE_SIZE
  BY <1>1, DivLemma
<1>4. ASSUME a \div PAGE_SIZE = 0 PROVE FALSE
  <2>1. a < 0 * PAGE_SIZE + PAGE_SIZE
    BY <1>3, <1>4
  <2>2. 0 * PAGE_SIZE = 0
    BY <1>1
  <2>3. QED
    BY <1>1, <1>2, <2>1, <2>2
<1>5. QED
  BY <1>2, <1>3, <1>4

LEMMA KmallocPagesStep ==
  ASSUME IInv, NEW t \in Threads, NEW sz \in Requests, kmalloc_pages(t, sz)
  PROVE  IInv'
<1> USE DEF IInv
<1>1. PICK n \in Nat \ {0} : n = (sz + PAGE_SIZE - 1) \div PAGE_SIZE
  BY PagesWanted
<1>2. /\ alloc_kpages(n)
      /\ owned' = IF KPages(n) = 0 THEN owned ELSE owned \cup {[at |-> KPages(n) * PAGE_SIZE, len |-> n * PAGE_SIZE]}
      /\ UNCHANGED <<root, inuse, pageref, sizebases, allbase, pc, loc>>
  BY <1>1 DEF kmalloc_pages, heap
<1>3. /\ firstpage \in Nat \ {0} /\ NumPages \in Nat
      /\ firstpage' \in 1 .. NumPages + 1 /\ firstpage' \in Nat /\ firstpage <= firstpage'
      /\ KPages(n) # 0 => KPages(n) = firstpage /\ firstpage' = firstpage + n
  BY <1>2, KPagesLemma
<1>4. PICK w : w = Whole(firstpage, n)
  OBVIOUS
<1>5. w \in [at : Nat, len : Nat] /\ w.len > 0 /\ w.at = Start(firstpage)
  BY <1>3, <1>4, WholeLemma
<1>6. KPages(n) # 0 => owned' = owned \cup {w}
  BY <1>2, <1>3, <1>4 DEF Whole, Start
<1>7. KPages(n) = 0 => owned' = owned
  BY <1>2
<1>8. TypeInv'
  <2>1. owned' \subseteq [at : Nat, len : Nat]
    BY <1>5, <1>6, <1>7 DEF TypeInv
  <2>2. QED
    BY <1>2, <1>3, <2>1 DEF TypeInv
<1>9. CallsInv'
  <2>1. /\ \A i \in 1 .. firstpage - 1 : i \in 1 .. firstpage' - 1
        /\ \A i \in 0 .. firstpage - 1 : i \in 0 .. firstpage' - 1
    BY <1>3, IntervalGrows
  <2>2. pc' = pc /\ loc' = loc
    BY <1>2
  <2>3. ASSUME NEW u \in Threads
        PROVE  /\ pc'[u] # "out" => loc'[u].type \in Types
               /\ pc'[u] \in HasPage => loc'[u].page \in 1 .. firstpage' - 1
               /\ pc'[u] \in HasPlace => loc'[u].root \in Roots /\ loc'[u].place \in 1 .. PerPage
               /\ pc'[u] = "rootpage_got" => loc'[u].va \in 0 .. firstpage' - 1
    BY <2>1, <2>2 DEF CallsInv
  <2>4. QED
    BY <2>3 DEF CallsInv
<1>10. ListsInv'
  BY <1>2, <1>3, CalmLists
<1>11. PagesApart'
  BY <1>2, CalmApart
<1>12. RootsInv' /\ PlacesInv'
  BY <1>2, <1>3, CalmPlaces
<1>13. OwnedInv'
  <2>1. CASE KPages(n) = 0
    BY <1>2, <1>3, <1>7, <2>1, CalmOwned
  <2>2. CASE KPages(n) # 0
    <3>1. UNCHANGED <<Listed, pageref>> /\ \A p : Indices(p)' = Indices(p)
      BY <1>2 DEF Listed, Indices, NBlocks
    <3>2. \A p, i : BlockOf(p, i)' = BlockOf(p, i)
      BY <1>2 DEF BlockOf, Block
    <3>3. \A b : IsBlock(b) => IsBlock(b)'
      BY <3>1, <3>2 DEF IsBlock
    <3>4. \A b : IsWhole(b) => IsWhole(b)'
      BY <1>2, <1>3, CalmWhole
    <3>5. IsWhole(w)'
      <4>1. \A p \in Listed : pageref[p].page \notin firstpage .. firstpage + n - 1
        BY <1>3, ListedLemma
      <4>2. \A u \in Threads : pc[u] \in HasPage => loc[u].page \notin firstpage .. firstpage + n - 1
        BY <1>3 DEF CallsInv
      <4>3. firstpage + n <= firstpage' /\ firstpage \in Nat \ {0}
        BY <1>3, <2>2
      <4>4. QED
        BY <1>2, <1>4, <3>1, <4>1, <4>2, <4>3 DEF IsWhole, Whole, Start
    <3>6. \A b \in owned : Apart(b, w) /\ Apart(w, b)
      BY <1>5, OwnedBelow DEF Apart
    <3>7. \A b, c : Apart(b, c)' = Apart(b, c)
      BY DEF Apart
    <3>8. owned' = owned \cup {w}
      BY <1>6, <2>2
    <3>9. \A b \in owned' : b.len > 0 /\ (IsBlock(b)' \/ IsWhole(b)')
      BY <1>5, <3>3, <3>4, <3>5, <3>8 DEF OwnedInv
    <3>10. \A b, c \in owned' : b # c => Apart(b, c)'
      BY <3>6, <3>7, <3>8 DEF OwnedInv
    <3>11. \A p \in Listed' : \A i \in Indices(p)' :
             i \notin ToSet(pageref'[p].free) => BlockOf(p, i)' \in owned'
      BY <3>1, <3>2, <3>8 DEF OwnedInv
    <3>12. QED
      BY <3>9, <3>10, <3>11 DEF OwnedInv
  <2>3. QED
    BY <2>1, <2>2
<1>14. QED
  BY <1>8, <1>9, <1>10, <1>11, <1>12, <1>13

----------------------------------------------------------------------------
(* A block is taken from the page that pageref p describes, by doalloc:    *)
(* from a page that was listed, or from one that is listed now.            *)
Takes(p, ref) ==
  /\ p \in Pagerefs
  /\ ref \in [page : Nat, type : Nat, free : Seq(Nat), nfree : Nat]
  /\ ref.type \in Types
  /\ ref.page \in 1 .. firstpage - 1
  /\ NoDup(ref.free)
  /\ ref.free # <<>>
  /\ ToSet(ref.free) \subseteq 0 .. (NBlocks(ref.type) - 1)
  /\ ref.nfree = Len(ref.free)
  /\ p \in Listed => ref = pageref[p]
  /\ p \notin Listed => ToSet(ref.free) = 0 .. (NBlocks(ref.type) - 1)
  /\ \A q \in Listed \ {p} : pageref[q].page # ref.page
  /\ \/ \E q \in Listed : pageref[q].page = ref.page
     \/ \E u \in Threads : pc[u] \in HasPage /\ loc[u].page = ref.page

TakesEffect(p, ref) ==
  /\ pageref' = [pageref EXCEPT ![p] = [ref EXCEPT !.free = Tail(@), !.nfree = @ - 1]]
  /\ owned' = owned \cup {Block(ref.page, ref.type, Head(ref.free))}
  /\ allbase' \in Seq(Pagerefs)
  /\ Listed' = Listed \cup {p}
  /\ firstpage' = firstpage
  /\ \A u \in Threads : pc'[u] \in HasPage =>
       pc[u] \in HasPage /\ loc'[u].page = loc[u].page /\ loc[u].page # ref.page

(* The pageref afterwards.                                                 *)
LEMMA TakenLemma ==
  ASSUME TypeInv, NEW p, NEW ref, Takes(p, ref), TakesEffect(p, ref)
  PROVE  /\ pageref' \in [Pagerefs -> [page : Nat, type : Nat, free : Seq(Nat), nfree : Nat]]
         /\ pageref'[p].page = ref.page /\ pageref'[p].type = ref.type
         /\ NoDup(pageref'[p].free)
         /\ ToSet(pageref'[p].free) = ToSet(ref.free) \ {Head(ref.free)}
         /\ pageref'[p].nfree = Len(pageref'[p].free)
         /\ \A q \in Pagerefs \ {p} : pageref'[q] = pageref[q]
         /\ Head(ref.free) \in ToSet(ref.free)
<1>1. /\ ref.free \in Seq(Nat) /\ ref.free # <<>> /\ NoDup(ref.free) /\ ref.nfree = Len(ref.free)
      /\ ref \in [page : Nat, type : Nat, free : Seq(Nat), nfree : Nat]
      /\ p \in Pagerefs
  BY DEF Takes
<1>2. /\ Head(ref.free) \in ToSet(ref.free)
      /\ Tail(ref.free) \in Seq(Nat)
      /\ NoDup(Tail(ref.free))
      /\ ToSet(Tail(ref.free)) = ToSet(ref.free) \ {Head(ref.free)}
      /\ Len(Tail(ref.free)) = Len(ref.free) - 1 /\ Len(ref.free) \in Nat \ {0}
  BY <1>1, RemheadLemma
<1>3. PICK new : new = [ref EXCEPT !.free = Tail(@), !.nfree = @ - 1]
  OBVIOUS
<1>4. /\ new \in [page : Nat, type : Nat, free : Seq(Nat), nfree : Nat]
      /\ new.page = ref.page /\ new.type = ref.type
      /\ new.free = Tail(ref.free) /\ new.nfree = ref.nfree - 1
  <2>1. PICK f, k : f = Tail(ref.free) /\ k = ref.nfree - 1
    OBVIOUS
  <2>2. f \in Seq(Nat)
    BY <1>2, <2>1
  <2>3. k \in Nat
    <3>1. PICK l \in Nat \ {0} : l = Len(ref.free)
      BY <1>2
    <3>2. k = l - 1
      BY <1>1, <2>1, <3>1
    <3>3. QED
      BY <3>2
  <2>4. new = [ref EXCEPT !.free = f, !.nfree = k]
    BY <1>3, <2>1
  <2>5. QED
    BY <1>1, <2>1, <2>2, <2>3, <2>4
<1>5. /\ pageref' \in [Pagerefs -> [page : Nat, type : Nat, free : Seq(Nat), nfree : Nat]]
      /\ pageref'[p] = new
      /\ \A q \in Pagerefs \ {p} : pageref'[q] = pageref[q]
  BY <1>1, <1>3, <1>4 DEF TypeInv, TakesEffect
<1>6. QED
  BY <1>1, <1>2, <1>4, <1>5

LEMMA TakesLists ==
  ASSUME TypeInv, ListsInv, NEW p, NEW ref, Takes(p, ref), TakesEffect(p, ref)
  PROVE  \A q \in Listed' :
           /\ pageref'[q].page \in 1 .. firstpage' - 1
           /\ pageref'[q].type \in Types
           /\ NoDup(pageref'[q].free)
           /\ ToSet(pageref'[q].free) \subseteq Indices(q)'
           /\ pageref'[q].nfree = Len(pageref'[q].free)
<1>1. SUFFICES ASSUME NEW q \in Listed'
               PROVE  /\ pageref'[q].page \in 1 .. firstpage' - 1
                      /\ pageref'[q].type \in Types
                      /\ NoDup(pageref'[q].free)
                      /\ ToSet(pageref'[q].free) \subseteq 0 .. (NBlocks(pageref'[q].type) - 1)
                      /\ pageref'[q].nfree = Len(pageref'[q].free)
  BY DEF Indices, NBlocks
<1>2. CASE q = p
  <2>1. /\ pageref'[p].page = ref.page /\ pageref'[p].type = ref.type
        /\ NoDup(pageref'[p].free)
        /\ ToSet(pageref'[p].free) = ToSet(ref.free) \ {Head(ref.free)}
        /\ pageref'[p].nfree = Len(pageref'[p].free)
    BY TakenLemma, Zenon
  <2>2. /\ ref.type \in Types /\ ref.page \in 1 .. firstpage - 1 /\ firstpage' = firstpage
        /\ ToSet(ref.free) \subseteq 0 .. (NBlocks(ref.type) - 1)
    BY DEF Takes, TakesEffect
  <2>3. QED
    BY <1>2, <2>1, <2>2
<1>3. CASE q # p
  <2>1. q \in Listed /\ q \in Pagerefs
    BY <1>1, <1>3, ListedLemma DEF TakesEffect
  <2>2. pageref'[q] = pageref[q] /\ firstpage' = firstpage
    BY <1>3, <2>1, TakenLemma DEF TakesEffect
  <2>3. QED
    BY <2>1, <2>2 DEF ListsInv, Indices
<1>4. QED
  BY <1>2, <1>3

LEMMA TakesApart ==
  ASSUME TypeInv, ListsInv, PagesApart, NEW p, NEW ref, Takes(p, ref), TakesEffect(p, ref)
  PROVE  PagesApart'
<1>1. \A q \in Listed' : q = p \/ (q \in Listed /\ q # p /\ q \in Pagerefs)
  BY ListedLemma DEF TakesEffect
<1>2. /\ pageref'[p].page = ref.page
      /\ \A q \in Listed' : q # p => pageref'[q].page = pageref[q].page /\ pageref[q].page # ref.page
  BY <1>1, TakenLemma DEF Takes
<1>3. \A q, r \in Listed' : pageref'[q].page = pageref'[r].page => q = r
  BY <1>1, <1>2 DEF PagesApart
<1>4. ASSUME NEW u \in Threads, pc'[u] \in HasPage
      PROVE  /\ \A q \in Listed' : pageref'[q].page # loc'[u].page
             /\ \A v \in Threads \ {u} : pc'[v] \in HasPage => loc'[v].page # loc'[u].page
  BY <1>1, <1>2, <1>4 DEF PagesApart, TakesEffect
<1>5. QED
  BY <1>3, <1>4 DEF PagesApart

LEMMA TakesOwned ==
  ASSUME TypeInv, CallsInv, ListsInv, PagesApart, OwnedInv, NEW p, NEW ref, Takes(p, ref), TakesEffect(p, ref)
  PROVE  OwnedInv'
<1>1. PICK h, w : h = Head(ref.free) /\ w = Block(ref.page, ref.type, h)
  OBVIOUS
<1>2. owned' = owned \cup {w}
  BY <1>1 DEF TakesEffect
<1>3. /\ ref.page \in Nat /\ ref.type \in Types /\ p \in Pagerefs
      /\ h \in 0 .. (NBlocks(ref.type) - 1) /\ h \in ToSet(ref.free)
  BY <1>1, TakenLemma DEF Takes
<1>4. w.len > 0
  BY <1>1, <1>3, BlockLemma
<1>5. /\ p \in Listed'
      /\ Indices(p)' = 0 .. (NBlocks(ref.type) - 1)
      /\ \A i : BlockOf(p, i)' = Block(ref.page, ref.type, i)
      /\ ToSet(pageref'[p].free) = ToSet(ref.free) \ {h}
  <2>1. /\ pageref'[p].page = ref.page /\ pageref'[p].type = ref.type
        /\ ToSet(pageref'[p].free) = ToSet(ref.free) \ {h}
    BY <1>1, TakenLemma
  <2>2. p \in Listed'
    BY DEF TakesEffect
  <2>3. QED
    BY <2>1, <2>2 DEF Indices, NBlocks, BlockOf, Block
<1>6. ASSUME NEW q \in Listed, q # p
      PROVE  /\ q \in Listed' /\ q \in Pagerefs
             /\ pageref'[q] = pageref[q]
             /\ Indices(q)' = Indices(q)
             /\ \A i : BlockOf(q, i)' = BlockOf(q, i)
             /\ pageref[q].page # ref.page
  <2>1. q \in Listed' /\ q \in Pagerefs
    BY <1>6, ListedLemma DEF TakesEffect
  <2>2. pageref'[q] = pageref[q]
    BY <1>6, <2>1, TakenLemma
  <2>3. QED
    BY <1>6, <2>1, <2>2 DEF Indices, NBlocks, BlockOf, Block, Takes
<1>7. \A q \in Listed' : q = p \/ (q \in Listed /\ q # p)
  BY DEF TakesEffect
<1>8. p \in Listed => /\ Indices(p) = 0 .. (NBlocks(ref.type) - 1)
                      /\ pageref[p] = ref
                      /\ \A i : BlockOf(p, i) = Block(ref.page, ref.type, i)
  BY DEF Takes, Indices, BlockOf
<1>9. IsBlock(w)'
  BY <1>1, <1>3, <1>5 DEF IsBlock
<1>10. ASSUME NEW b \in owned, IsBlock(b) PROVE IsBlock(b)' /\ Apart(w, b) /\ Apart(b, w)
  <2>1. PICK q \in Listed : \E i \in Indices(q) : i \notin ToSet(pageref[q].free) /\ b = BlockOf(q, i)
    BY <1>10 DEF IsBlock
  <2>2. PICK i \in Indices(q) : i \notin ToSet(pageref[q].free) /\ b = BlockOf(q, i)
    BY <2>1
  <2>3. CASE q = p
    <3>1. /\ i \in 0 .. (NBlocks(ref.type) - 1) /\ i \notin ToSet(ref.free)
          /\ b = Block(ref.page, ref.type, i) /\ i # h
      BY <1>3, <1>8, <2>2, <2>3
    <3>2. IsBlock(b)'
      BY <1>5, <3>1 DEF IsBlock
    <3>3. Apart(w, b) /\ Apart(b, w)
      BY <1>1, <1>3, <3>1, BlocksApart
    <3>4. QED
      BY <3>2, <3>3
  <2>4. CASE q # p
    <3>1. IsBlock(b)'
      BY <1>6, <2>2, <2>4 DEF IsBlock
    <3>2. /\ pageref[q].page \in Nat /\ pageref[q].type \in Types
          /\ i \in 0 .. (NBlocks(pageref[q].type) - 1)
          /\ b = Block(pageref[q].page, pageref[q].type, i)
          /\ pageref[q].page # ref.page
      BY <1>6, <2>2, <2>4, ListedLemma DEF Indices, BlockOf
    <3>3. Apart(w, b) /\ Apart(b, w)
      BY <1>1, <1>3, <3>2, BlocksOfPagesApart
    <3>4. QED
      BY <3>1, <3>3
  <2>5. QED
    BY <2>3, <2>4
<1>11. ASSUME NEW b \in owned, IsWhole(b) PROVE IsWhole(b)' /\ Apart(w, b) /\ Apart(b, w)
  <2>1. PICK n \in Nat \ {0}, m \in Nat \ {0} :
          /\ n + m <= firstpage
          /\ b = Whole(n, m)
          /\ \A q \in Listed : pageref[q].page \notin n .. n + m - 1
          /\ \A u \in Threads : pc[u] \in HasPage => loc[u].page \notin n .. n + m - 1
    BY <1>11 DEF IsWhole
  <2>2. ref.page \notin n .. n + m - 1
    BY <2>1 DEF Takes
  <2>3. \A q \in Listed' : pageref'[q].page \notin n .. n + m - 1
    <3>1. pageref'[p].page = ref.page
      BY TakenLemma
    <3>2. QED
      BY <1>6, <1>7, <2>1, <2>2, <3>1
  <2>4. \A u \in Threads : pc'[u] \in HasPage => loc'[u].page \notin n .. n + m - 1
    BY <2>1 DEF TakesEffect
  <2>5. n + m <= firstpage'
    BY <2>1 DEF TakesEffect
  <2>6. IsWhole(b)'
    BY <2>1, <2>3, <2>4, <2>5 DEF IsWhole, Whole, Start
  <2>7. QED
    BY <1>1, <1>3, <2>1, <2>2, <2>6, BlockWholeApart
<1>12. \A b \in owned' : b.len > 0 /\ (IsBlock(b)' \/ IsWhole(b)')
  BY <1>2, <1>4, <1>9, <1>10, <1>11 DEF OwnedInv
<1>13. \A b, c \in owned' : b # c => Apart(b, c)
  BY <1>2, <1>10, <1>11 DEF OwnedInv
<1>14. ASSUME NEW q \in Listed', NEW i \in Indices(q)', i \notin ToSet(pageref'[q].free)
       PROVE  BlockOf(q, i)' \in owned'
  <2>1. CASE q = p
    <3>1. i \in 0 .. (NBlocks(ref.type) - 1) /\ (i = h \/ i \notin ToSet(ref.free))
          /\ BlockOf(p, i)' = Block(ref.page, ref.type, i)
      BY <1>5, <1>14, <2>1
    <3>2. CASE i = h
      BY <1>1, <1>2, <2>1, <3>1, <3>2
    <3>3. CASE i \notin ToSet(ref.free)
      <4>1. p \in Listed
        BY <3>1, <3>3 DEF Takes
      <4>2. BlockOf(p, i) \in owned
        BY <1>8, <3>1, <3>3, <4>1 DEF OwnedInv
      <4>3. QED
        BY <1>2, <1>8, <2>1, <3>1, <4>1, <4>2
    <3>4. QED
      BY <3>1, <3>2, <3>3
  <2>2. CASE q \in Listed /\ q # p
    BY <1>2, <1>6, <1>14, <2>2 DEF OwnedInv
  <2>3. QED
    BY <1>7, <2>1, <2>2
<1>15. \A b, c : Apart(b, c)' = Apart(b, c)
  BY DEF Apart
<1>16. QED
  BY <1>12, <1>13, <1>14, <1>15 DEF OwnedInv

(* The index of the block size for a request is one of the types.          *)
LEMMA BlocktypeLemma ==
  ASSUME NEW sz \in Requests, sz < LARGEST_SUBPAGE_SIZE
  PROVE  blocktype(sz) \in Types
<1>1. /\ Len(sizes) \in Nat \ {0} /\ Types = 1 .. Len(sizes)
      /\ sizes[Len(sizes)] = LARGEST_SUBPAGE_SIZE
      /\ sizes[Len(sizes)] \in 1 .. PAGE_SIZE
      /\ sz \in Nat /\ PAGE_SIZE \in Nat
  BY KMallocConstants DEF Types, LARGEST_SUBPAGE_SIZE, Last
<1> DEFINE S == {i \in Types : sz <= sizes[i]}
<1>2. S \in SUBSET Nat
  BY <1>1
<1>3. Len(sizes) \in S
  BY <1>1
<1>4. Min(S) \in S
  BY <1>2, <1>3, MinLemma
<1>5. QED
  BY <1>4 DEF blocktype

(* A block is taken from a page that has a free one.                       *)
LEMMA DoallocStep ==
  ASSUME IInv, NEW t \in Threads, pc[t] = "out", NEW p \in Listed, pageref[p].nfree > 0,
         doalloc(t, p, pageref[p]), UNCHANGED <<firstpage, root, inuse, sizebases, allbase>>
  PROVE  IInv'
<1> USE DEF IInv
<1>1. /\ p \in Pagerefs
      /\ pageref[p] \in [page : Nat, type : Nat, free : Seq(Nat), nfree : Nat]
      /\ pageref[p].page \in Nat \ {0} /\ pageref[p].page < firstpage
      /\ pageref[p].type \in Types
      /\ NoDup(pageref[p].free)
      /\ ToSet(pageref[p].free) \subseteq Indices(p)
      /\ pageref[p].nfree = Len(pageref[p].free)
      /\ pageref[p].free \in Seq(Nat)
  BY ListedLemma
<1>2. /\ NoLocals \in Locals
      /\ Moves(t, "out", NoLocals)
  BY DEF NoLocals, Locals, doalloc, Return, Moves
<1>3. /\ pc' \in [Threads -> {"out", "page"} \cup HasPage]
      /\ loc' \in [Threads -> Locals]
      /\ pc'[t] = "out"
      /\ \A u \in Threads \ {t} : pc'[u] = pc[u] /\ loc'[u] = loc[u]
  BY <1>2, MovesLemma
<1>4. "out" \notin HasPage /\ HasPlace \subseteq HasPage
  BY DEF HasPage, HasPlace
<1>5. \A u \in Threads : pc'[u] # "out" => pc'[u] = pc[u] /\ loc'[u] = loc[u]
  BY <1>3
<1>6. \A u \in Threads : pc'[u] \in HasPage => pc'[u] = pc[u] /\ loc'[u] = loc[u]
  BY <1>4, <1>5
<1>7. Takes(p, pageref[p])
  <2>1. pageref[p].free # <<>>
    BY <1>1
  <2>2. pageref[p].page \in 1 .. firstpage - 1
    BY DEF ListsInv
  <2>3. \A q \in Listed \ {p} : pageref[q].page # pageref[p].page
    BY DEF PagesApart
  <2>4. QED
    BY <1>1, <2>1, <2>2, <2>3 DEF Takes, Indices
<1>8. TakesEffect(p, pageref[p])
  <2>1. Listed' = Listed /\ allbase' \in Seq(Pagerefs)
    BY DEF Listed, TypeInv
  <2>2. \A u \in Threads : pc'[u] \in HasPage =>
          pc[u] \in HasPage /\ loc'[u].page = loc[u].page /\ loc[u].page # pageref[p].page
    BY <1>6 DEF PagesApart
  <2>3. Listed' = Listed \cup {p}
    BY <2>1
  <2>4. QED
    BY <2>1, <2>2, <2>3 DEF TakesEffect, doalloc
<1>9. TypeInv'
  <2>1. owned' \subseteq [at : Nat, len : Nat]
    <3>1. OwnedInv' /\ \A q \in Listed' : TRUE
      BY <1>7, <1>8, TakesOwned
    <3>2. Head(pageref[p].free) \in Indices(p)
      BY <1>1, <1>7, <1>8, TakenLemma
    <3>3. BlockOf(p, Head(pageref[p].free)) \in [at : Nat, len : Nat]
      BY <3>2, BlockOfLemma
    <3>4. QED
      BY <3>3 DEF doalloc, BlockOf, TypeInv
  <2>2. pageref' \in [Pagerefs -> [page : Nat, type : Nat, free : Seq(Nat), nfree : Nat]]
    BY <1>7, <1>8, TakenLemma
  <2>3. QED
    BY <1>3, <2>1, <2>2 DEF TypeInv, Locals
<1>10. CallsInv'
  BY <1>4, <1>5 DEF CallsInv, HasPlace
<1>11. ListsInv'
  <2>1. /\ pageref'[p].type = pageref[p].type
        /\ \A q \in Pagerefs \ {p} : pageref'[q] = pageref[q]
    BY <1>7, <1>8, TakenLemma
  <2>2. \A q \in Listed : pageref'[q].type = pageref[q].type
    BY <2>1, ListedLemma
  <2>3. Listed' = Listed
    BY DEF Listed
  <2>4. ASSUME NEW type \in Types
        PROVE  /\ NoDup(sizebases'[type])
               /\ \A q : q \in ToSet(sizebases'[type]) <=> q \in Listed' /\ pageref'[q].type = type
    BY <2>2, <2>3 DEF ListsInv
  <2>5. \A q \in Listed' :
          /\ pageref'[q].page \in 1 .. firstpage' - 1
          /\ pageref'[q].type \in Types
          /\ NoDup(pageref'[q].free)
          /\ ToSet(pageref'[q].free) \subseteq Indices(q)'
          /\ pageref'[q].nfree = Len(pageref'[q].free)
    BY <1>7, <1>8, TakesLists
  <2>6. QED
    BY <2>4, <2>5 DEF ListsInv
<1>12. PagesApart'
  BY <1>7, <1>8, TakesApart
<1>13. OwnedInv'
  BY <1>7, <1>8, TakesOwned
<1>14. RootsInv' /\ PlacesInv'
  <2>1. firstpage' \in Nat /\ firstpage <= firstpage'
    BY KMallocConstants DEF TypeInv
  <2>2. \A u \in Threads : pc[u] \in HasPlace \/ pc'[u] \in HasPlace => pc'[u] = pc[u] /\ loc'[u] = loc[u]
    BY <1>3, <1>4, <1>6
  <2>3. QED
    BY <2>1, <2>2, CalmPlaces
<1>15. QED
  BY <1>9, <1>10, <1>11, <1>12, <1>13, <1>14

LEMMA SubpageKmallocStep ==
  ASSUME IInv, NEW t \in Threads, NEW sz \in Requests, subpage_kmalloc(t, sz)
  PROVE  IInv'
<1> USE DEF IInv
<1>1. /\ pc[t] = "out" /\ sz < LARGEST_SUBPAGE_SIZE
      /\ UNCHANGED <<firstpage, root, inuse, sizebases, allbase>>
  BY DEF subpage_kmalloc
<1>2. PICK type \in Types : type = blocktype(sz)
  BY <1>1, BlocktypeLemma
<1>3. PICK list \in Seq(Pagerefs) : list = sizebases[type]
  BY DEF TypeInv
<1>4. PICK usable : usable = {i \in DOMAIN list : pageref[list[i]].nfree > 0}
  OBVIOUS
<1>5. CASE usable # {}
  <2>1. usable \in SUBSET Nat
    BY <1>3, <1>4
  <2>2. PICK k \in usable : k = Min(usable)
    BY <1>5, <2>1, MinLemma
  <2>3. doalloc(t, list[k], pageref[list[k]])
    BY <1>2, <1>3, <1>4, <1>5, <2>2 DEF subpage_kmalloc
  <2>4. k \in DOMAIN list /\ pageref[list[k]].nfree > 0
    BY <1>4
  <2>5. list[k] \in ToSet(list)
    BY <2>4 DEF ToSet
  <2>6. list[k] \in Listed
    BY <1>3, <2>5 DEF ListsInv
  <2>7. QED
    BY <1>1, <2>3, <2>4, <2>6, DoallocStep
<1>6. CASE usable = {}
  <2>1. /\ pc' = [pc EXCEPT ![t] = "page"]
        /\ loc' = [loc EXCEPT ![t].type = type]
        /\ UNCHANGED <<pageref, owned>>
    BY <1>2, <1>3, <1>4, <1>6 DEF subpage_kmalloc
  <2>2. PICK l : l = [loc[t] EXCEPT !.type = type]
    OBVIOUS
  <2>3. l \in Locals /\ l.type = type /\ Moves(t, "page", l)
    <3>1. loc[t] \in Locals /\ type \in Nat
      BY KMallocConstants DEF TypeInv, Locals, Types
    <3>2. l \in Locals /\ l.type = type
      BY <2>2, <3>1 DEF Locals
    <3>3. QED
      BY <2>1, <2>2, <3>2 DEF Moves, TypeInv
  <2>4. /\ pc' \in [Threads -> {"out", "page"} \cup HasPage]
        /\ loc' \in [Threads -> Locals]
        /\ pc'[t] = "page" /\ loc'[t].type = type
        /\ \A u \in Threads \ {t} : pc'[u] = pc[u] /\ loc'[u] = loc[u]
    <3>1. "page" \in {"out", "page"} \cup HasPage
      OBVIOUS
    <3>2. loc'[t] = l
      BY <2>3, <3>1, MovesLemma
    <3>3. QED
      BY <2>3, <3>1, <3>2, MovesLemma
  <2>5. "page" \notin HasPage /\ "out" \notin HasPage /\ HasPlace \subseteq HasPage
    BY DEF HasPage, HasPlace
  <2>6. firstpage' \in Nat /\ firstpage <= firstpage'
    BY <1>1, KMallocConstants DEF TypeInv
  <2>7. TypeInv'
    BY <1>1, <2>1, <2>4 DEF TypeInv, Locals
  <2>8. CallsInv'
    BY <1>1, <2>4, <2>5 DEF CallsInv, HasPlace
  <2>9. ListsInv'
    BY <1>1, <2>1, <2>6, CalmLists
  <2>10. \A u \in Threads : pc'[u] \in HasPage => pc[u] \in HasPage /\ loc'[u].page = loc[u].page
    BY <2>4, <2>5
  <2>11. PagesApart'
    BY <1>1, <2>1, <2>10, CalmApart
  <2>12. OwnedInv'
    BY <1>1, <2>1, <2>6, <2>10, CalmOwned
  <2>13. \A u \in Threads : pc[u] \in HasPlace \/ pc'[u] \in HasPlace => pc'[u] = pc[u] /\ loc'[u] = loc[u]
    BY <1>1, <2>4, <2>5
  <2>14. RootsInv' /\ PlacesInv'
    BY <1>1, <2>6, <2>13, CalmPlaces
  <2>15. QED
    BY <2>7, <2>8, <2>9, <2>11, <2>12, <2>14
<1>7. QED
  BY <1>5, <1>6

----------------------------------------------------------------------------
(* The steps of a call that take no block.                                 *)

(* A call moves on, with the page it had if it has one.                    *)
LEMMA CalmHeap ==
  ASSUME TypeInv, CallsInv, ListsInv, PagesApart, OwnedInv,
         NEW t \in Threads, NEW where \in {"out", "page"} \cup HasPage, NEW l \in Locals,
         Moves(t, where, l), UNCHANGED <<pageref, sizebases, allbase, owned>>,
         firstpage' \in 1 .. NumPages + 1, firstpage <= firstpage',
         root' \in [Roots -> 0 .. NumPages], inuse' \in [Roots -> SUBSET (1 .. PerPage)],
         where # "out" => l.type \in Types,
         where \in HasPage => pc[t] \in HasPage /\ l.page = loc[t].page,
         where \in HasPlace => l.root \in Roots /\ l.place \in 1 .. PerPage,
         where = "rootpage_got" => l.va \in 0 .. firstpage' - 1
  PROVE  TypeInv' /\ CallsInv' /\ ListsInv' /\ PagesApart' /\ OwnedInv'
<1>1. /\ pc' \in [Threads -> {"out", "page"} \cup HasPage]
      /\ loc' \in [Threads -> Locals]
      /\ pc'[t] = where /\ loc'[t] = l
      /\ \A u \in Threads \ {t} : pc'[u] = pc[u] /\ loc'[u] = loc[u]
  BY MovesLemma
<1>2. firstpage \in Nat /\ firstpage' \in Nat
  BY KMallocConstants DEF TypeInv
<1>3. TypeInv'
  BY <1>1 DEF TypeInv, Locals
<1>4. CallsInv'
  <2>1. \A n \in 1 .. firstpage - 1 : n \in 1 .. firstpage' - 1
    BY <1>2, IntervalGrows
  <2>2. \A n \in 0 .. firstpage - 1 : n \in 0 .. firstpage' - 1
    BY <1>2, IntervalGrows
  <2>3. SUFFICES ASSUME NEW u \in Threads
                 PROVE  /\ pc'[u] # "out" => loc'[u].type \in Types
                        /\ pc'[u] \in HasPage => loc'[u].page \in 1 .. firstpage' - 1
                        /\ pc'[u] \in HasPlace => loc'[u].root \in Roots /\ loc'[u].place \in 1 .. PerPage
                        /\ pc'[u] = "rootpage_got" => loc'[u].va \in 0 .. firstpage' - 1
    BY DEF CallsInv, Types, Roots
  <2>4. CASE u = t
    BY <1>1, <2>1, <2>4 DEF CallsInv
  <2>5. CASE u # t
    BY <1>1, <2>1, <2>2, <2>5 DEF CallsInv
  <2>6. QED
    BY <2>4, <2>5
<1>5. ListsInv'
  BY <1>2, CalmLists
<1>6. \A u \in Threads : pc'[u] \in HasPage => pc[u] \in HasPage /\ loc'[u].page = loc[u].page
  BY <1>1
<1>7. PagesApart'
  BY <1>6, CalmApart
<1>8. OwnedInv'
  BY <1>2, <1>6, CalmOwned
<1>9. QED
  BY <1>3, <1>4, <1>5, <1>7, <1>8

LEMMA SubpagePageStep ==
  ASSUME IInv, NEW t \in Threads, subpage_page(t)
  PROVE  IInv'
<1> USE DEF IInv
<1>1. /\ pc[t] = "page" /\ alloc_kpages(1)
      /\ UNCHANGED <<root, inuse, pageref, sizebases, allbase, owned>>
  BY DEF subpage_page, heap
<1>2. /\ firstpage \in Nat \ {0} /\ NumPages \in Nat
      /\ firstpage' \in 1 .. NumPages + 1 /\ firstpage' \in Nat /\ firstpage <= firstpage'
      /\ KPages(1) # 0 => KPages(1) = firstpage /\ firstpage' = firstpage + 1
  <2>1. 1 \in Nat \ {0}
    OBVIOUS
  <2>2. QED
    BY <1>1, <2>1, KPagesLemma
<1>3. /\ "page" \notin HasPage /\ "out" \notin HasPage /\ HasPlace \subseteq HasPage
      /\ "pageref" \notin HasPlace /\ "pageref" \in HasPage /\ "pageref" # "rootpage_got"
      /\ "pageref" # "out" /\ "page" # "out"
  BY DEF HasPage, HasPlace
<1>4. CASE KPages(1) = 0
  <2>1. NoLocals \in Locals /\ Moves(t, "out", NoLocals)
    BY <1>4 DEF NoLocals, Locals, subpage_page, Return, Moves
  <2>2. "out" \in {"out", "page"} \cup HasPage
    OBVIOUS
  <2>3. TypeInv' /\ CallsInv' /\ ListsInv' /\ PagesApart' /\ OwnedInv'
    BY <1>1, <1>2, <1>3, <2>1, <2>2, CalmHeap DEF TypeInv
  <2>4. /\ pc'[t] = "out"
        /\ \A u \in Threads \ {t} : pc'[u] = pc[u] /\ loc'[u] = loc[u]
    BY <2>1, <2>2, MovesLemma
  <2>5. RootsInv' /\ PlacesInv'
    BY <1>1, <1>2, <1>3, <2>4, CalmPlaces
  <2>6. QED
    BY <2>3, <2>5
<1>5. CASE KPages(1) # 0
  <2>1. /\ KPages(1) = firstpage /\ firstpage' = firstpage + 1
        /\ pc' = [pc EXCEPT ![t] = "pageref"]
        /\ loc' = [loc EXCEPT ![t].page = firstpage]
    BY <1>2, <1>5 DEF subpage_page
  <2>2. PICK l : l = [loc[t] EXCEPT !.page = firstpage]
    OBVIOUS
  <2>3. l \in Locals /\ l.type = loc[t].type /\ l.page = firstpage
    <3>1. loc[t] \in Locals
      BY DEF TypeInv, Locals
    <3>2. QED
      BY <1>2, <2>2, <3>1 DEF Locals
  <2>4. Moves(t, "pageref", l)
    BY <2>1, <2>2 DEF Moves, TypeInv
  <2>5. /\ pc' \in [Threads -> {"out", "page"} \cup HasPage]
        /\ loc' \in [Threads -> Locals]
        /\ pc'[t] = "pageref" /\ loc'[t] = l
        /\ \A u \in Threads \ {t} : pc'[u] = pc[u] /\ loc'[u] = loc[u]
    <3>1. "pageref" \in {"out", "page"} \cup HasPage
      BY <1>3
    <3>2. QED
      BY <2>3, <2>4, <3>1, MovesLemma
  <2>6. TypeInv'
    BY <1>1, <1>2, <2>5 DEF TypeInv, Locals
  <2>7. CallsInv'
    <3>1. \A n \in 1 .. firstpage - 1 : n \in 1 .. firstpage' - 1
      BY <1>2, IntervalGrows
    <3>2. \A n \in 0 .. firstpage - 1 : n \in 0 .. firstpage' - 1
      BY <1>2, IntervalGrows
    <3>3. loc'[t].type \in Types /\ loc'[t].page \in 1 .. firstpage' - 1
      BY <1>1, <1>2, <1>3, <2>1, <2>3, <2>5 DEF CallsInv
    <3>4. SUFFICES ASSUME NEW u \in Threads
                   PROVE  /\ pc'[u] # "out" => loc'[u].type \in Types
                          /\ pc'[u] \in HasPage => loc'[u].page \in 1 .. firstpage' - 1
                          /\ pc'[u] \in HasPlace => loc'[u].root \in Roots /\ loc'[u].place \in 1 .. PerPage
                          /\ pc'[u] = "rootpage_got" => loc'[u].va \in 0 .. firstpage' - 1
      BY DEF CallsInv, Types, Roots
    <3>5. CASE u = t
      BY <1>3, <2>5, <3>3, <3>5
    <3>6. CASE u # t
      BY <2>5, <3>1, <3>2, <3>6 DEF CallsInv
    <3>7. QED
      BY <3>5, <3>6
  <2>8. ListsInv'
    BY <1>1, <1>2, CalmLists
  <2>9. UNCHANGED <<Listed, pageref>> /\ \A p : Indices(p)' = Indices(p)
    BY <1>1 DEF Listed, Indices, NBlocks
  <2>10. \A p \in Listed : pageref[p].page # firstpage
    BY <1>2, ListedLemma
  <2>11. \A u \in Threads : pc[u] \in HasPage => loc[u].page # firstpage
    BY <1>2 DEF CallsInv
  <2>12. PagesApart'
    BY <1>3, <2>3, <2>5, <2>9, <2>10, <2>11 DEF PagesApart
  <2>13. OwnedInv'
    <3>1. \A p, i : BlockOf(p, i)' = BlockOf(p, i)
      BY <1>1 DEF BlockOf, Block
    <3>2. \A b : IsBlock(b) => IsBlock(b)'
      BY <2>9, <3>1 DEF IsBlock
    <3>3. ASSUME NEW b, IsWhole(b) PROVE IsWhole(b)'
      <4>1. PICK n \in Nat \ {0}, m \in Nat \ {0} :
              /\ n + m <= firstpage
              /\ b = Whole(n, m)
              /\ \A p \in Listed : pageref[p].page \notin n .. n + m - 1
              /\ \A u \in Threads : pc[u] \in HasPage => loc[u].page \notin n .. n + m - 1
        BY <3>3 DEF IsWhole
      <4>2. n + m <= firstpage' /\ firstpage \notin n .. n + m - 1
        BY <1>2, <4>1
      <4>3. \A u \in Threads : pc'[u] \in HasPage => loc'[u].page \notin n .. n + m - 1
        BY <2>3, <2>5, <4>1, <4>2
      <4>4. QED
        BY <2>9, <4>1, <4>2, <4>3 DEF IsWhole, Whole, Start
    <3>4. \A b, c : Apart(b, c)' = Apart(b, c)
      BY DEF Apart
    <3>5. QED
      BY <1>1, <2>9, <3>1, <3>2, <3>3, <3>4 DEF OwnedInv
  <2>14. RootsInv' /\ PlacesInv'
    <3>1. \A u \in Threads : pc[u] \in HasPlace \/ pc'[u] \in HasPlace => pc'[u] = pc[u] /\ loc'[u] = loc[u]
      BY <1>1, <1>3, <2>5
    <3>2. QED
      BY <1>1, <1>2, <3>1, CalmPlaces
  <2>15. QED
    BY <2>6, <2>7, <2>8, <2>12, <2>13, <2>14
<1>6. QED
  BY <1>4, <1>5

----------------------------------------------------------------------------
(* A pageref is put on the lists.                                          *)

LEMMA InstallHeap ==
  ASSUME TypeInv, CallsInv, ListsInv, PagesApart, OwnedInv,
         NEW t \in Threads, pc[t] \in HasPage, NEW q, NEW j, <<q, j>> \in Pagerefs, <<q, j>> \notin Listed,
         install(t, q, j), firstpage' = firstpage,
         root' \in [Roots -> 0 .. NumPages], inuse' \in [Roots -> SUBSET (1 .. PerPage)]
  PROVE  /\ TypeInv' /\ CallsInv' /\ ListsInv' /\ PagesApart' /\ OwnedInv'
         /\ Listed' = Listed \cup {<<q, j>>}
         /\ pc'[t] = "out"
         /\ \A u \in Threads \ {t} : pc'[u] = pc[u] /\ loc'[u] = loc[u]
<1>1. PICK p, type, n, free, ref :
        /\ p = <<q, j>> /\ type = loc[t].type /\ n = NBlocks(type)
        /\ free = [i \in 1 .. n |-> n - i]
        /\ ref = [page |-> loc[t].page, type |-> type, free |-> free, nfree |-> n]
  OBVIOUS
<1>2. /\ sizebases' = [sizebases EXCEPT ![type] = <<p>> \o @]
      /\ allbase' = <<p>> \o allbase
      /\ doalloc(t, p, ref)
  BY <1>1 DEF install
<1>3. "out" \notin HasPage /\ HasPlace \subseteq HasPage
  BY DEF HasPage, HasPlace
<1>4. type \in Types /\ loc[t].page \in 1 .. firstpage - 1
  BY <1>1, <1>3 DEF CallsInv
<1>5. n \in Nat \ {0}
  BY <1>1, <1>4, SizeLemma
<1>6. free \in Seq(Nat) /\ Len(free) = n /\ NoDup(free) /\ ToSet(free) = 0 .. (n - 1)
  BY <1>1, <1>5, CountdownLemma
<1>7. firstpage \in Nat /\ type \in Nat
  <2>1. firstpage \in Nat
    BY KMallocConstants DEF TypeInv
  <2>2. sizes \in Seq(1 .. PAGE_SIZE)
    BY KMallocConstants
  <2>3. QED
    BY <1>4, <2>1, <2>2 DEF Types
<1>8. /\ ref \in [page : Nat, type : Nat, free : Seq(Nat), nfree : Nat]
      /\ ref.page = loc[t].page /\ ref.type = type /\ ref.free = free /\ ref.nfree = n
  BY <1>1, <1>4, <1>5, <1>6, <1>7
<1>9. p \in Pagerefs /\ p \notin Listed
  BY <1>1
<1>10. Moves(t, "out", NoLocals) /\ NoLocals \in Locals
  BY <1>2 DEF doalloc, Return, Moves, Locals, NoLocals
<1>11. /\ pc' \in [Threads -> {"out", "page"} \cup HasPage]
       /\ loc' \in [Threads -> Locals]
       /\ pc'[t] = "out"
       /\ \A u \in Threads \ {t} : pc'[u] = pc[u] /\ loc'[u] = loc[u]
  BY <1>10, MovesLemma
<1>12. \A u \in Threads : pc'[u] # "out" => u # t /\ pc'[u] = pc[u] /\ loc'[u] = loc[u]
  BY <1>11
<1>13. /\ allbase \in Seq(Pagerefs) /\ NoDup(allbase)
       /\ allbase' \in Seq(Pagerefs)
       /\ Listed' = Listed \cup {p}
       /\ NoDup(allbase')
  <2>1. allbase \in Seq(Pagerefs) /\ NoDup(allbase)
    BY DEF TypeInv, ListsInv
  <2>2. /\ allbase' \in Seq(Pagerefs)
        /\ ToSet(allbase') = {p} \cup ToSet(allbase)
        /\ p \notin ToSet(allbase) => NoDup(allbase')
    BY <1>2, <1>9, <2>1, ConsLemma
  <2>3. QED
    BY <1>9, <2>1, <2>2 DEF Listed
<1>14. Takes(p, ref)
  <2>1. free # <<>>
    BY <1>5, <1>6
  <2>2. ToSet(free) = 0 .. (NBlocks(type) - 1)
    BY <1>1, <1>6
  <2>3. \A x \in Listed : pageref[x].page # loc[t].page
    BY DEF PagesApart
  <2>4. QED
    BY <1>4, <1>6, <1>8, <1>9, <2>1, <2>2, <2>3 DEF Takes
<1>15. TakesEffect(p, ref)
  <2>1. \A u \in Threads : pc'[u] \in HasPage =>
          pc[u] \in HasPage /\ loc'[u].page = loc[u].page /\ loc[u].page # ref.page
    BY <1>3, <1>8, <1>12 DEF PagesApart
  <2>2. QED
    BY <1>2, <1>13, <2>1 DEF TakesEffect, doalloc
<1>16. /\ sizebases' \in [Types -> Seq(Pagerefs)]
       /\ \A ty \in Types : NoDup(sizebases'[ty])
       /\ ToSet(sizebases'[type]) = {p} \cup ToSet(sizebases[type])
       /\ \A ty \in Types \ {type} : sizebases'[ty] = sizebases[ty]
  <2>1. sizebases[type] \in Seq(Pagerefs) /\ NoDup(sizebases[type]) /\ p \notin ToSet(sizebases[type])
    BY <1>4, <1>9 DEF TypeInv, ListsInv
  <2>2. PICK new : new = <<p>> \o sizebases[type]
    OBVIOUS
  <2>3. new \in Seq(Pagerefs) /\ NoDup(new) /\ ToSet(new) = {p} \cup ToSet(sizebases[type])
    BY <1>9, <2>1, <2>2, ConsLemma
  <2>4. sizebases' = [sizebases EXCEPT ![type] = new] /\ sizebases \in [Types -> Seq(Pagerefs)]
    BY <1>2, <2>2 DEF TypeInv
  <2>5. QED
    BY <1>4, <2>3, <2>4 DEF ListsInv
<1>17. TypeInv'
  <2>1. owned' \subseteq [at : Nat, len : Nat]
    <3>1. Head(ref.free) \in 0 .. (NBlocks(ref.type) - 1) /\ ref.page \in Nat /\ ref.type \in Types
      BY <1>14, <1>15, TakenLemma DEF Takes
    <3>2. Block(ref.page, ref.type, Head(ref.free)) \in [at : Nat, len : Nat]
      BY <3>1, BlockLemma
    <3>3. QED
      BY <3>2, <1>15 DEF TakesEffect, TypeInv
  <2>2. pageref' \in [Pagerefs -> [page : Nat, type : Nat, free : Seq(Nat), nfree : Nat]]
    BY <1>14, <1>15, TakenLemma
  <2>3. QED
    BY <1>11, <1>13, <1>16, <2>1, <2>2 DEF TypeInv, Locals
<1>18. CallsInv'
  BY <1>3, <1>12 DEF CallsInv, HasPlace
<1>19. ListsInv'
  <2>1. /\ pageref'[p].type = type
        /\ \A x \in Pagerefs \ {p} : pageref'[x] = pageref[x]
    BY <1>8, <1>14, <1>15, TakenLemma
  <2>2. \A x \in Listed : x # p /\ pageref'[x].type = pageref[x].type
    BY <1>9, <2>1, ListedLemma
  <2>3. ASSUME NEW ty \in Types, NEW x
        PROVE  x \in ToSet(sizebases'[ty]) <=> x \in Listed' /\ pageref'[x].type = ty
    <3>1. x \in ToSet(sizebases[ty]) <=> x \in Listed /\ pageref[x].type = ty
      BY DEF ListsInv
    <3>2. CASE ty = type
      BY <1>13, <1>16, <2>1, <2>2, <3>1, <3>2
    <3>3. CASE ty # type
      BY <1>13, <1>16, <2>1, <2>2, <3>1, <3>3
    <3>4. QED
      BY <3>2, <3>3
  <2>4. \A x \in Listed' :
          /\ pageref'[x].page \in 1 .. firstpage' - 1
          /\ pageref'[x].type \in Types
          /\ NoDup(pageref'[x].free)
          /\ ToSet(pageref'[x].free) \subseteq Indices(x)'
          /\ pageref'[x].nfree = Len(pageref'[x].free)
    BY <1>14, <1>15, TakesLists
  <2>5. QED
    BY <1>13, <1>16, <2>3, <2>4 DEF ListsInv
<1>20. PagesApart'
  BY <1>14, <1>15, TakesApart
<1>21. OwnedInv'
  BY <1>14, <1>15, TakesOwned
<1>22. QED
  BY <1>1, <1>11, <1>13, <1>17, <1>18, <1>19, <1>20, <1>21

(* The place a call has is a place for a pageref once its root has a page. *)
LEMMA PlaceFree ==
  ASSUME TypeInv, CallsInv, PlacesInv, NEW t \in Threads, pc[t] \in HasPlace,
         NEW q \in Pages, q = root[loc[t].root] \/ \A s \in Roots : root[s] # q
  PROVE  <<q, loc[t].place>> \in Pagerefs /\ <<q, loc[t].place>> \notin Listed
<1>1. <<q, loc[t].place>> \in Pagerefs
  BY DEF CallsInv, Pagerefs
<1>2. CASE q = root[loc[t].root]
  BY <1>1, <1>2 DEF PlacesInv
<1>3. CASE \A s \in Roots : root[s] # q
  <2>1. PICK p : p = <<q, loc[t].place>>
    OBVIOUS
  <2>2. p[1] = q
    BY <2>1
  <2>3. p \notin Listed
    BY <1>3, <2>2 DEF PlacesInv, PagerefsFound
  <2>4. QED
    BY <1>1, <2>1, <2>3
<1>4. QED
  BY <1>2, <1>3

(* A call that has a place for its pageref puts it on the page of the      *)
(* root, which has one.                                                    *)
LEMMA InstallPlaced ==
  ASSUME IInv, NEW t \in Threads, pc[t] \in HasPlace, root[loc[t].root] # 0,
         install(t, root[loc[t].root], loc[t].place), UNCHANGED <<firstpage, root, inuse>>
  PROVE  IInv'
<1> USE DEF IInv
<1>1. HasPlace \subseteq HasPage /\ "out" \notin HasPlace
  BY DEF HasPage, HasPlace
<1>2. PICK r, j, q : r = loc[t].root /\ j = loc[t].place /\ q = root[loc[t].root]
  OBVIOUS
<1>3. r \in Roots /\ j \in 1 .. PerPage /\ q \in Pages /\ q # 0 /\ q = root[r] /\ j \in inuse[r]
  <2>1. r \in Roots /\ j \in 1 .. PerPage /\ j \in inuse[r]
    BY <1>2 DEF CallsInv, PlacesInv
  <2>2. q \in 0 .. NumPages /\ q # 0 /\ q = root[r]
    BY <1>2, <2>1 DEF TypeInv
  <2>3. q \in Pages
    BY <2>2, KMallocConstants DEF Pages
  <2>4. QED
    BY <2>1, <2>2, <2>3
<1>4. <<q, j>> \in Pagerefs /\ <<q, j>> \notin Listed
  BY <1>2, <1>3, PlaceFree
<1>5. install(t, q, j)
  BY <1>2
<1>6. /\ TypeInv' /\ CallsInv' /\ ListsInv' /\ PagesApart' /\ OwnedInv'
      /\ Listed' = Listed \cup {<<q, j>>}
      /\ pc'[t] = "out"
      /\ \A u \in Threads \ {t} : pc'[u] = pc[u] /\ loc'[u] = loc[u]
  BY <1>1, <1>4, <1>5, InstallHeap DEF TypeInv
<1>7. \A u \in Threads : pc'[u] \in HasPlace => u # t /\ pc'[u] = pc[u] /\ loc'[u] = loc[u]
  BY <1>1, <1>6
<1>8. firstpage' \in Nat /\ firstpage <= firstpage'
  BY KMallocConstants DEF TypeInv
<1>9. RootsInv'
  BY <1>7, <1>8, CalmRoots
<1>10. PagerefsFound'
  <2>1. PICK p : p = <<q, j>>
    OBVIOUS
  <2>2. p[1] = q /\ p[2] = j
    BY <2>1
  <2>3. \A x \in Listed' : x \in Listed \/ x = p
    BY <1>6, <2>1
  <2>4. QED
    BY <1>3, <2>2, <2>3 DEF PlacesInv, PagerefsFound
<1>11. NoPlaceLost'
  <2>1. SUFFICES ASSUME firstpage <= NumPages, NEW s \in Roots, NEW k \in inuse[s]
                 PROVE  \/ root[s] # 0 /\ <<root[s], k>> \in Listed'
                        \/ \E u \in Threads : pc'[u] \in HasPlace /\ loc'[u].root = s /\ loc'[u].place = k
    BY DEF NoPlaceLost, HasPlace, Roots
  <2>2. CASE root[s] # 0 /\ <<root[s], k>> \in Listed
    BY <1>6, <2>2
  <2>3. CASE \E u \in Threads : pc[u] \in HasPlace /\ loc[u].root = s /\ loc[u].place = k
    <3>1. PICK u \in Threads : pc[u] \in HasPlace /\ loc[u].root = s /\ loc[u].place = k
      BY <2>3
    <3>2. CASE u = t
      BY <1>2, <1>3, <1>6, <3>1, <3>2
    <3>3. CASE u # t
      BY <1>6, <3>1, <3>3
    <3>4. QED
      BY <3>2, <3>3
  <2>4. QED
    BY <2>1, <2>2, <2>3 DEF PlacesInv, NoPlaceLost, HasPlace
<1>12. ASSUME NEW u \in Threads, pc'[u] \in HasPlace
       PROVE  /\ loc'[u].place \in inuse'[loc'[u].root]
              /\ <<root'[loc'[u].root], loc'[u].place>> \notin Listed'
              /\ \A v \in Threads \ {u} :
                   pc'[v] \in HasPlace => <<loc'[v].root, loc'[v].place>> # <<loc'[u].root, loc'[u].place>>
  <2>1. u # t /\ pc'[u] = pc[u] /\ loc'[u] = loc[u] /\ pc[u] \in HasPlace /\ loc[u].root \in Roots
    BY <1>7, <1>12 DEF CallsInv
  <2>2. <<loc[u].root, loc[u].place>> # <<r, j>>
    BY <1>2, <2>1 DEF PlacesInv
  <2>3. <<root[loc[u].root], loc[u].place>> # <<q, j>>
    <3>1. root[loc[u].root] = root[r] => loc[u].root = r
      BY <1>3, <2>1 DEF RootsInv
    <3>2. QED
      BY <1>3, <2>2, <3>1
  <2>4. <<root'[loc'[u].root], loc'[u].place>> \notin Listed'
    BY <1>6, <2>1, <2>3 DEF PlacesInv
  <2>5. QED
    BY <1>7, <2>1, <2>4 DEF PlacesInv
<1>13. PlacesInv'
  BY <1>10, <1>11, <1>12 DEF PlacesInv
<1>14. QED
  BY <1>6, <1>9, <1>13

(* A call gives its root a page, and puts its pageref there.               *)
LEMMA InstallFirst ==
  ASSUME IInv, NEW t \in Threads, pc[t] = "rootpage_got", loc[t].va # 0, root[loc[t].root] = 0,
         root' = [root EXCEPT ![loc[t].root] = loc[t].va],
         install(t, loc[t].va, loc[t].place), UNCHANGED <<firstpage, inuse>>
  PROVE  IInv'
<1> USE DEF IInv
<1>1. HasPlace \subseteq HasPage /\ "out" \notin HasPlace /\ "rootpage_got" \in HasPlace
  BY DEF HasPage, HasPlace
<1>2. PICK r, j, q : r = loc[t].root /\ j = loc[t].place /\ q = loc[t].va
  OBVIOUS
<1>3. /\ r \in Roots /\ j \in 1 .. PerPage /\ j \in inuse[r] /\ root[r] = 0
      /\ q \in Pages /\ q # 0 /\ q < firstpage
  <2>1. r \in Roots /\ j \in 1 .. PerPage /\ j \in inuse[r] /\ root[r] = 0
    BY <1>1, <1>2 DEF CallsInv, PlacesInv
  <2>2. q \in 0 .. firstpage - 1 /\ q # 0
    BY <1>2 DEF CallsInv
  <2>3. firstpage \in 1 .. NumPages + 1 /\ NumPages \in Nat
    BY KMallocConstants DEF TypeInv
  <2>4. QED
    BY <2>1, <2>2, <2>3 DEF Pages
<1>4. /\ \A s \in Roots : s < r => root[s] # 0
      /\ \A s \in Roots : root[s] # q
      /\ \A u \in Threads \ {t} : pc[u] = "rootpage_got" => loc[u].va # q
  BY <1>2 DEF RootsInv
<1>5. <<q, j>> \in Pagerefs /\ <<q, j>> \notin Listed
  BY <1>1, <1>2, <1>3, <1>4, PlaceFree
<1>6. /\ root' \in [Roots -> 0 .. NumPages]
      /\ root'[r] = q
      /\ \A s \in Roots \ {r} : root'[s] = root[s]
  <2>1. q \in 0 .. NumPages
    BY <1>3, KMallocConstants DEF Pages
  <2>2. root \in [Roots -> 0 .. NumPages] /\ root' = [root EXCEPT ![r] = q]
    BY <1>2 DEF TypeInv
  <2>3. QED
    BY <1>3, <2>1, <2>2
<1>7. /\ TypeInv' /\ CallsInv' /\ ListsInv' /\ PagesApart' /\ OwnedInv'
      /\ Listed' = Listed \cup {<<q, j>>}
      /\ pc'[t] = "out"
      /\ \A u \in Threads \ {t} : pc'[u] = pc[u] /\ loc'[u] = loc[u]
  <2>1. install(t, q, j) /\ inuse' \in [Roots -> SUBSET (1 .. PerPage)]
    BY <1>2 DEF TypeInv
  <2>2. QED
    BY <1>1, <1>5, <1>6, <2>1, InstallHeap
<1>8. \A u \in Threads : pc'[u] \in HasPlace => u # t /\ pc'[u] = pc[u] /\ loc'[u] = loc[u]
  BY <1>1, <1>7
<1>9. \A s \in Roots : root[s] # 0 => s # r /\ root'[s] = root[s]
  BY <1>3, <1>6
<1>10. RootsInv'
  <2>1. \A s \in Roots : root'[s] < firstpage'
    BY <1>3, <1>6 DEF RootsInv
  <2>2. \A s, x \in Roots : root'[s] # 0 /\ root'[s] = root'[x] => s = x
    BY <1>4, <1>6 DEF RootsInv
  <2>3. \A s, x \in Roots : s < x /\ root'[s] = 0 => root'[x] = 0
    <3>1. SUFFICES ASSUME NEW s \in Roots, NEW x \in Roots, s < x, root'[s] = 0
                   PROVE  root'[x] = 0
      OBVIOUS
    <3>2. s # r /\ root[s] = 0
      BY <1>3, <1>6, <3>1
    <3>3. x # r
      BY <1>4, <3>1, <3>2
    <3>4. QED
      BY <1>6, <3>1, <3>2, <3>3 DEF RootsInv
  <2>4. /\ "rootpage" \in HasPlace /\ "rootpage_got" \in HasPlace /\ "rootpage_freed" \in HasPlace
    BY DEF HasPlace
  <2>5. ASSUME NEW u \in Threads
        PROVE  /\ pc'[u] = "rootpage" /\ firstpage' <= NumPages =>
                    \A s \in Roots : s < loc'[u].root => root'[s] # 0
               /\ pc'[u] = "rootpage_got" /\ loc'[u].va # 0 =>
                    /\ \A s \in Roots : s < loc'[u].root => root'[s] # 0
                    /\ \A s \in Roots : root'[s] # loc'[u].va
                    /\ \A v \in Threads \ {u} : pc'[v] = "rootpage_got" => loc'[v].va # loc'[u].va
               /\ pc'[u] = "rootpage_got" /\ loc'[u].va = 0 => firstpage' > NumPages
               /\ pc'[u] = "rootpage_freed" => root'[loc'[u].root] # 0
    <3>1. pc'[u] \in HasPlace => u # t /\ pc'[u] = pc[u] /\ loc'[u] = loc[u] /\ loc[u].root \in Roots
      BY <1>8 DEF CallsInv
    <3>2. ASSUME pc'[u] = "rootpage", firstpage' <= NumPages
          PROVE  \A s \in Roots : s < loc'[u].root => root'[s] # 0
      BY <1>9, <2>4, <3>1, <3>2 DEF RootsInv
    <3>3. ASSUME pc'[u] = "rootpage_got", loc'[u].va # 0
          PROVE  /\ \A s \in Roots : s < loc'[u].root => root'[s] # 0
                 /\ \A s \in Roots : root'[s] # loc'[u].va
                 /\ \A v \in Threads \ {u} : pc'[v] = "rootpage_got" => loc'[v].va # loc'[u].va
      <4>1. \A s \in Roots : s < loc'[u].root => root'[s] # 0
        BY <1>9, <2>4, <3>1, <3>3 DEF RootsInv
      <4>2. \A s \in Roots : root'[s] # loc'[u].va
        BY <1>4, <1>6, <2>4, <3>1, <3>3 DEF RootsInv
      <4>3. \A v \in Threads \ {u} : pc'[v] = "rootpage_got" => loc'[v].va # loc'[u].va
        BY <1>8, <2>4, <3>1, <3>3 DEF RootsInv
      <4>4. QED
        BY <4>1, <4>2, <4>3
    <3>4. pc'[u] = "rootpage_got" /\ loc'[u].va = 0 => firstpage' > NumPages
      BY <2>4, <3>1 DEF RootsInv
    <3>5. pc'[u] = "rootpage_freed" => root'[loc'[u].root] # 0
      BY <1>9, <2>4, <3>1 DEF RootsInv
    <3>6. QED
      BY <3>2, <3>3, <3>4, <3>5
  <2>6. QED
    BY <2>1, <2>2, <2>3, <2>5 DEF RootsInv
<1>11. PagerefsFound'
  <2>1. PICK p : p = <<q, j>>
    OBVIOUS
  <2>2. p[1] = q /\ p[2] = j
    BY <2>1
  <2>3. ASSUME NEW x \in Listed PROVE \E s \in Roots : root'[s] = x[1] /\ x[2] \in inuse'[s]
    <3>1. PICK s \in Roots : root[s] = x[1] /\ x[2] \in inuse[s]
      BY DEF PlacesInv, PagerefsFound
    <3>2. x[1] \in Pages
      BY ListedLemma DEF Pagerefs
    <3>3. root[s] # 0
      BY <3>1, <3>2 DEF Pages
    <3>4. QED
      BY <1>9, <3>1, <3>3
  <2>4. \A x \in Listed' : x \in Listed \/ x = p
    BY <1>7, <2>1
  <2>5. QED
    BY <1>3, <1>6, <2>2, <2>3, <2>4 DEF PagerefsFound
<1>12. NoPlaceLost'
  <2>1. SUFFICES ASSUME firstpage <= NumPages, NEW s \in Roots, NEW k \in inuse[s]
                 PROVE  \/ root'[s] # 0 /\ <<root'[s], k>> \in Listed'
                        \/ \E u \in Threads : pc'[u] \in HasPlace /\ loc'[u].root = s /\ loc'[u].place = k
    BY DEF NoPlaceLost, HasPlace, Roots
  <2>2. CASE root[s] # 0 /\ <<root[s], k>> \in Listed
    BY <1>7, <1>9, <2>2
  <2>3. CASE \E u \in Threads : pc[u] \in HasPlace /\ loc[u].root = s /\ loc[u].place = k
    <3>1. PICK u \in Threads : pc[u] \in HasPlace /\ loc[u].root = s /\ loc[u].place = k
      BY <2>3
    <3>2. CASE u = t
      BY <1>2, <1>3, <1>6, <1>7, <3>1, <3>2
    <3>3. CASE u # t
      BY <1>7, <3>1, <3>3
    <3>4. QED
      BY <3>2, <3>3
  <2>4. QED
    BY <2>1, <2>2, <2>3 DEF PlacesInv, NoPlaceLost, HasPlace
<1>13. ASSUME NEW u \in Threads, pc'[u] \in HasPlace
       PROVE  /\ loc'[u].place \in inuse'[loc'[u].root]
              /\ <<root'[loc'[u].root], loc'[u].place>> \notin Listed'
              /\ \A v \in Threads \ {u} :
                   pc'[v] \in HasPlace => <<loc'[v].root, loc'[v].place>> # <<loc'[u].root, loc'[u].place>>
  <2>1. u # t /\ pc'[u] = pc[u] /\ loc'[u] = loc[u] /\ pc[u] \in HasPlace /\ loc[u].root \in Roots
    BY <1>8, <1>13 DEF CallsInv
  <2>2. <<loc[u].root, loc[u].place>> # <<r, j>>
    BY <1>1, <1>2, <2>1 DEF PlacesInv
  <2>3. <<root'[loc[u].root], loc[u].place>> \notin Listed'
    <3>1. CASE loc[u].root = r
      <4>1. loc[u].place # j
        BY <2>2, <3>1
      <4>2. <<q, loc[u].place>> \notin Listed
        BY <1>3, <1>4, <2>1, PlaceFree
      <4>3. QED
        BY <1>6, <1>7, <3>1, <4>1, <4>2
    <3>2. CASE loc[u].root # r
      <4>1. root'[loc[u].root] = root[loc[u].root] /\ root[loc[u].root] # q
        BY <1>4, <1>6, <2>1, <3>2
      <4>2. <<root[loc[u].root], loc[u].place>> \notin Listed
        BY <2>1 DEF PlacesInv
      <4>3. QED
        BY <1>7, <4>1, <4>2
    <3>3. QED
      BY <3>1, <3>2
  <2>4. loc[u].place \in inuse[loc[u].root]
    BY <2>1 DEF PlacesInv
  <2>5. ASSUME NEW v \in Threads \ {u}, pc'[v] \in HasPlace
        PROVE  <<loc'[v].root, loc'[v].place>> # <<loc'[u].root, loc'[u].place>>
    <3>1. pc[v] \in HasPlace /\ loc'[v] = loc[v]
      BY <1>8, <2>5
    <3>2. QED
      BY <2>1, <3>1 DEF PlacesInv
  <2>6. QED
    BY <2>1, <2>3, <2>4, <2>5
<1>14. PlacesInv'
  BY <1>11, <1>12, <1>13 DEF PlacesInv
<1>15. QED
  BY <1>7, <1>10, <1>14

----------------------------------------------------------------------------
(* allocpageref.                                                           *)

(* A root that is not full has a free place.                               *)
LEMMA RoomLemma ==
  ASSUME NEW S \in SUBSET (1 .. PerPage), Cardinality(S) < PerPage
  PROVE  (1 .. PerPage) \ S \in SUBSET Nat /\ (1 .. PerPage) \ S # {}
<1>1. PerPage \in Nat \ {0}
  BY KMallocConstants
<1>2. Cardinality(1 .. PerPage) = PerPage
  <2>1. 1 \in Int /\ PerPage \in Int /\ ~ (1 > PerPage) /\ PerPage - 1 + 1 = PerPage
    BY <1>1
  <2>2. QED
    BY <2>1, FS_Interval
<1>3. ASSUME (1 .. PerPage) \ S = {} PROVE FALSE
  <2>1. S = 1 .. PerPage
    BY <1>3
  <2>2. PerPage < PerPage
    BY <1>2, <2>1
  <2>3. QED
    BY <1>1, <2>2
<1>4. QED
  BY <1>1, <1>3

(* Who has a place, while memory lasts.                                    *)
LEMMA PlaceTaken ==
  ASSUME PlacesInv, firstpage <= NumPages, NEW s \in Roots, NEW k \in inuse[s]
  PROVE  \/ root[s] # 0 /\ <<root[s], k>> \in Listed
         \/ \E u \in Threads : pc[u] \in HasPlace /\ loc[u].root = s /\ loc[u].place = k
<1>1. \A r \in Roots : \A j \in inuse[r] :
        \/ root[r] # 0 /\ <<root[r], j>> \in Listed
        \/ \E t \in Threads : pc[t] \in HasPlace /\ loc[t].root = r /\ loc[t].place = j
  <2>1. NoPlaceLost
    BY Zenon DEF PlacesInv
  <2>2. QED
    BY <2>1, Zenon DEF NoPlaceLost, HasPlace
<1>2. QED
  BY <1>1, Zenon

(* A root without a page is not full while memory lasts: its places are    *)
(* those of calls under way, which are too few for it.                     *)
LEMMA EmptyRootNotFull ==
  ASSUME TypeInv, PlacesInv, NEW t \in Threads, pc[t] \notin HasPlace, firstpage <= NumPages,
         NEW s \in Roots, root[s] = 0
  PROVE  Cardinality(inuse[s]) < PerPage
<1>1. \A k \in inuse[s] : \E u \in Threads : pc[u] \in HasPlace /\ loc[u].root = s /\ loc[u].place = k
  <2>1. ASSUME NEW k \in inuse[s]
        PROVE  \E u \in Threads : pc[u] \in HasPlace /\ loc[u].root = s /\ loc[u].place = k
    <3>1. \/ root[s] # 0 /\ <<root[s], k>> \in Listed
          \/ \E u \in Threads : pc[u] \in HasPlace /\ loc[u].root = s /\ loc[u].place = k
      <4>1. PlacesInv /\ firstpage <= NumPages /\ s \in Roots /\ k \in inuse[s]
        OBVIOUS
      <4>2. QED
        BY ONLY <4>1, PlaceTaken
    <3>2. QED
      BY <3>1, Zenon
  <2>2. QED
    BY <2>1, Zenon
<1> DEFINE f == [k \in inuse[s] |-> CHOOSE u \in Threads : pc[u] \in HasPlace /\ loc[u].root = s /\ loc[u].place = k]
           T == Threads \ {t}
<1>2. \A k \in inuse[s] : f[k] \in Threads /\ pc[f[k]] \in HasPlace /\ loc[f[k]].place = k
  BY <1>1
<1>3. f \in [inuse[s] -> T]
  BY <1>2
<1> HIDE DEF f
<1>4. \A k, l \in inuse[s] : f[k] = f[l] => k = l
  BY <1>2
<1>5. f \in Injection(inuse[s], T)
  BY <1>3, <1>4 DEF Injection, IsInjective
<1>6. IsFiniteSet(Threads) /\ Cardinality(Threads) <= PerPage /\ PerPage \in Nat
  BY KMallocConstants
<1>7. IsFiniteSet(T) /\ Cardinality(T) = Cardinality(Threads) - 1
  BY <1>6, FS_RemoveElement
<1>8. IsFiniteSet(inuse[s]) /\ Cardinality(inuse[s]) <= Cardinality(T)
  BY <1>5, <1>7, FS_Injection
<1>9. Cardinality(inuse[s]) \in Nat /\ Cardinality(Threads) \in Nat
  BY <1>6, <1>8, FS_CardinalityType
<1>10. QED
  BY <1>6, <1>7, <1>8, <1>9

(* A pageref is found on a page of pagerefs.                               *)
LEMMA AllocInstall ==
  ASSUME IInv, NEW t \in Threads, pc[t] = "pageref",
         NEW r \in Roots, NEW j \in (1 .. PerPage) \ inuse[r], root[r] # 0,
         inuse' = [inuse EXCEPT ![r] = @ \cup {j}],
         install(t, root[r], j), UNCHANGED <<firstpage, root>>
  PROVE  IInv'
<1> USE DEF IInv
<1>1. /\ HasPlace \subseteq HasPage /\ "out" \notin HasPlace
      /\ "pageref" \in HasPage /\ "pageref" \notin HasPlace
  BY DEF HasPage, HasPlace
<1>2. PICK q : q = root[r]
  OBVIOUS
<1>3. q \in Pages /\ q # 0
  <2>1. q \in 0 .. NumPages /\ q # 0
    BY <1>2 DEF TypeInv
  <2>2. QED
    BY <2>1, KMallocConstants DEF Pages
<1>4. /\ inuse \in [Roots -> SUBSET (1 .. PerPage)]
      /\ inuse' \in [Roots -> SUBSET (1 .. PerPage)]
      /\ inuse'[r] = inuse[r] \cup {j}
      /\ \A s \in Roots \ {r} : inuse'[s] = inuse[s]
  BY DEF TypeInv
<1>5. \A s \in Roots : inuse[s] \subseteq inuse'[s]
  BY <1>4
<1>6. \A s \in Roots : root[s] = q => s = r
  BY <1>2, <1>3 DEF RootsInv
<1>7. <<q, j>> \in Pagerefs /\ <<q, j>> \notin Listed
  <2>1. <<q, j>> \in Pagerefs
    BY <1>3 DEF Pagerefs
  <2>2. PICK p : p = <<q, j>>
    OBVIOUS
  <2>3. p[1] = q /\ p[2] = j
    BY <2>2
  <2>4. p \notin Listed
    BY <1>6, <2>3 DEF PlacesInv, PagerefsFound
  <2>5. QED
    BY <2>1, <2>2, <2>4
<1>8. /\ TypeInv' /\ CallsInv' /\ ListsInv' /\ PagesApart' /\ OwnedInv'
      /\ Listed' = Listed \cup {<<q, j>>}
      /\ pc'[t] = "out"
      /\ \A u \in Threads \ {t} : pc'[u] = pc[u] /\ loc'[u] = loc[u]
  <2>1. install(t, q, j) /\ root' \in [Roots -> 0 .. NumPages]
    BY <1>2 DEF TypeInv
  <2>2. QED
    BY <1>1, <1>4, <1>7, <2>1, InstallHeap
<1>9. \A u \in Threads : pc'[u] \in HasPlace => u # t /\ pc'[u] = pc[u] /\ loc'[u] = loc[u]
  BY <1>1, <1>8
<1>10. firstpage' \in Nat /\ firstpage <= firstpage'
  BY KMallocConstants DEF TypeInv
<1>11. RootsInv'
  BY <1>9, <1>10, CalmRoots
<1>12. PagerefsFound'
  <2>1. PICK p : p = <<q, j>>
    OBVIOUS
  <2>2. p[1] = q /\ p[2] = j
    BY <2>1
  <2>3. \A x \in Listed' : x \in Listed \/ x = p
    BY <1>8, <2>1
  <2>4. \A x \in Listed : \E s \in Roots : root'[s] = x[1] /\ x[2] \in inuse'[s]
    BY <1>5 DEF PlacesInv, PagerefsFound
  <2>5. QED
    BY <1>2, <1>4, <2>2, <2>3, <2>4 DEF PagerefsFound
<1>13. NoPlaceLost'
  <2>1. SUFFICES ASSUME firstpage <= NumPages, NEW s \in Roots, NEW k \in inuse'[s]
                 PROVE  \/ root[s] # 0 /\ <<root[s], k>> \in Listed'
                        \/ \E u \in Threads : pc'[u] \in HasPlace /\ loc'[u].root = s /\ loc'[u].place = k
    BY DEF NoPlaceLost, HasPlace, Roots
  <2>2. CASE k \in inuse[s]
    <3>1. CASE root[s] # 0 /\ <<root[s], k>> \in Listed
      BY <1>8, <3>1
    <3>2. CASE \E u \in Threads : pc[u] \in HasPlace /\ loc[u].root = s /\ loc[u].place = k
      <4>1. PICK u \in Threads : pc[u] \in HasPlace /\ loc[u].root = s /\ loc[u].place = k
        BY <3>2
      <4>2. u # t
        BY <1>1, <4>1
      <4>3. QED
        BY <1>8, <4>1, <4>2
    <3>3. QED
      BY <2>1, <2>2, <3>1, <3>2 DEF PlacesInv, NoPlaceLost, HasPlace
  <2>3. CASE k \notin inuse[s]
    <3>1. s = r /\ k = j
      BY <1>4, <2>1, <2>3
    <3>2. QED
      BY <1>2, <1>8, <3>1
  <2>4. QED
    BY <2>2, <2>3
<1>14. ASSUME NEW u \in Threads, pc'[u] \in HasPlace
       PROVE  /\ loc'[u].place \in inuse'[loc'[u].root]
              /\ <<root'[loc'[u].root], loc'[u].place>> \notin Listed'
              /\ \A v \in Threads \ {u} :
                   pc'[v] \in HasPlace => <<loc'[v].root, loc'[v].place>> # <<loc'[u].root, loc'[u].place>>
  <2>1. u # t /\ pc'[u] = pc[u] /\ loc'[u] = loc[u] /\ pc[u] \in HasPlace /\ loc[u].root \in Roots
    BY <1>9, <1>14 DEF CallsInv
  <2>2. loc[u].place \in inuse[loc[u].root] /\ <<root[loc[u].root], loc[u].place>> \notin Listed
    BY <2>1 DEF PlacesInv
  <2>3. <<root[loc[u].root], loc[u].place>> # <<q, j>>
    BY <1>6, <2>1, <2>2
  <2>4. ASSUME NEW v \in Threads \ {u}, pc'[v] \in HasPlace
        PROVE  <<loc'[v].root, loc'[v].place>> # <<loc'[u].root, loc'[u].place>>
    <3>1. pc[v] \in HasPlace /\ loc'[v] = loc[v]
      BY <1>9, <2>4
    <3>2. QED
      BY <2>1, <3>1 DEF PlacesInv
  <2>5. QED
    BY <1>5, <1>8, <2>1, <2>2, <2>3, <2>4
<1>15. PlacesInv'
  BY <1>12, <1>13, <1>14 DEF PlacesInv
<1>16. QED
  BY <1>8, <1>11, <1>15

(* The place is then the call's.                                           *)
LEMMA AllocRootpagePlaces ==
  ASSUME TypeInv, CallsInv, ListsInv, PlacesInv, NEW t \in Threads, pc[t] \notin HasPlace,
         NEW r \in Roots, NEW j \in (1 .. PerPage) \ inuse[r], root[r] = 0,
         inuse'[r] = inuse[r] \cup {j}, \A s \in Roots \ {r} : inuse'[s] = inuse[s],
         pc'[t] \in HasPlace, loc'[t].root = r, loc'[t].place = j,
         \A u \in Threads \ {t} : pc'[u] = pc[u] /\ loc'[u] = loc[u],
         UNCHANGED <<firstpage, root, Listed>>
  PROVE  PlacesInv'
<1>1. \A s \in Roots : inuse[s] \subseteq inuse'[s]
  OBVIOUS
<1>2. PagerefsFound'
  BY <1>1 DEF PlacesInv, PagerefsFound
<1>3. NoPlaceLost'
  <2>1. SUFFICES ASSUME firstpage' <= NumPages, NEW s \in Roots, NEW k \in inuse'[s]
                 PROVE  \/ root'[s] # 0 /\ <<root'[s], k>> \in Listed'
                        \/ \E u \in Threads : pc'[u] \in HasPlace /\ loc'[u].root = s /\ loc'[u].place = k
    BY Zenon DEF NoPlaceLost, HasPlace, Roots
  <2>2. CASE k \in inuse[s]
    <3>1. CASE \E u \in Threads : pc[u] \in HasPlace /\ loc[u].root = s /\ loc[u].place = k
      <4>1. PICK u \in Threads : pc[u] \in HasPlace /\ loc[u].root = s /\ loc[u].place = k
        BY <3>1
      <4>2. u # t
        BY <4>1
      <4>3. QED
        BY <4>1, <4>2
    <3>2. CASE root[s] # 0 /\ <<root[s], k>> \in Listed
      BY <3>2
    <3>3. firstpage <= NumPages
      BY <2>1
    <3>4. QED
      BY <2>2, <3>1, <3>2, <3>3, PlaceTaken
  <2>3. CASE k \notin inuse[s]
    <3>1. s = r /\ k = j
      BY <2>1, <2>3
    <3>2. QED
      BY <3>1
  <2>4. QED
    BY <2>2, <2>3
<1>4. ASSUME NEW u \in Threads, pc'[u] \in HasPlace
      PROVE  /\ loc'[u].place \in inuse'[loc'[u].root]
              /\ <<root'[loc'[u].root], loc'[u].place>> \notin Listed'
              /\ \A v \in Threads \ {u} :
                   pc'[v] \in HasPlace => <<loc'[v].root, loc'[v].place>> # <<loc'[u].root, loc'[u].place>>
  <2>1. \A v \in Threads \ {t} : pc'[v] \in HasPlace =>
          /\ pc[v] \in HasPlace /\ loc'[v] = loc[v] /\ loc[v].root \in Roots
          /\ loc[v].place \in inuse[loc[v].root]
          /\ <<root[loc[v].root], loc[v].place>> \notin Listed
    <3>1. ASSUME NEW v \in Threads, pc[v] \in HasPlace
          PROVE  /\ loc[v].root \in Roots
                 /\ loc[v].place \in inuse[loc[v].root]
                 /\ <<root[loc[v].root], loc[v].place>> \notin Listed
      BY <3>1, Zenon DEF PlacesInv, CallsInv
    <3>2. QED
      BY <3>1
  <2>2. \A v \in Threads \ {t} : pc'[v] \in HasPlace => <<loc'[v].root, loc'[v].place>> # <<r, j>>
    BY <2>1
  <2>3. CASE u = t
    <3>1. loc'[u].place \in inuse'[loc'[u].root]
      BY <2>3
    <3>2. <<root'[loc'[u].root], loc'[u].place>> \notin Listed'
      <4>1. PICK p : p = <<0, j>>
        OBVIOUS
      <4>2. p[1] = 0
        BY <4>1
      <4>3. p \notin Listed
        BY <4>2, ListedLemma DEF Pagerefs, Pages
      <4>4. QED
        <5>1. root'[loc'[u].root] = 0 /\ loc'[u].place = j
          BY <2>3
        <5>2. QED
          BY <4>1, <4>3, <5>1
    <3>3. QED
      BY <2>2, <2>3, <3>1, <3>2
  <2>4. CASE u # t
    <3>1. /\ pc[u] \in HasPlace /\ loc'[u] = loc[u] /\ loc[u].root \in Roots
          /\ loc[u].place \in inuse[loc[u].root]
          /\ <<root[loc[u].root], loc[u].place>> \notin Listed
      BY <1>4, <2>1, <2>4
    <3>2. ASSUME NEW v \in Threads \ {u}, pc'[v] \in HasPlace
          PROVE  <<loc'[v].root, loc'[v].place>> # <<loc'[u].root, loc'[u].place>>
      <4>1. CASE v = t
        BY <1>4, <2>2, <2>4, <4>1
      <4>2. CASE v # t
        BY <2>1, <3>1, <3>2, <4>2 DEF PlacesInv
      <4>3. QED
        BY <4>1, <4>2
    <3>3. loc'[u].place \in inuse'[loc'[u].root]
      BY <1>1, <3>1
    <3>4. <<root'[loc'[u].root], loc'[u].place>> \notin Listed'
      <4>1. root' = root /\ Listed' = Listed /\ loc'[u] = loc[u]
        BY <3>1
      <4>2. QED
        BY <3>1, <4>1
    <3>5. QED
      BY <3>2, <3>3, <3>4
  <2>5. QED
    BY <2>3, <2>4
<1>5. QED
  BY <1>2, <1>3, <1>4 DEF PlacesInv

(* The page of pagerefs has to be allocated first.                         *)
LEMMA AllocRootpage ==
  ASSUME IInv, NEW t \in Threads, pc[t] = "pageref",
         NEW r \in Roots, NEW j \in (1 .. PerPage) \ inuse[r], root[r] = 0,
         \A s \in Roots : s < r => ~ (Cardinality(inuse[s]) < PerPage),
         inuse' = [inuse EXCEPT ![r] = @ \cup {j}],
         pc' = [pc EXCEPT ![t] = "rootpage"],
         loc' = [loc EXCEPT ![t].root = r, ![t].place = j],
         UNCHANGED <<firstpage, root, pageref, sizebases, allbase, owned>>
  PROVE  IInv'
<1> USE DEF IInv
<1>1. /\ HasPlace \subseteq HasPage /\ "rootpage" \in HasPlace
      /\ "pageref" \in HasPage /\ "pageref" \notin HasPlace /\ "pageref" # "out"
      /\ "rootpage" # "rootpage_got" /\ "rootpage" # "rootpage_freed"
  BY DEF HasPage, HasPlace
<1>2. PICK l : l = [loc[t] EXCEPT !.root = r, !.place = j]
  OBVIOUS
<1>3. /\ l \in Locals
      /\ l.type = loc[t].type /\ l.page = loc[t].page /\ l.root = r /\ l.place = j
  <2>1. loc[t] \in Locals /\ r \in Nat /\ j \in Nat
    <3>1. loc[t] \in Locals
      BY DEF TypeInv, Locals
    <3>2. r \in Nat /\ j \in Nat
      BY KMallocConstants DEF Roots
    <3>3. QED
      BY <3>1, <3>2
  <2>2. QED
    BY <1>2, <2>1 DEF Locals
<1>4. Moves(t, "rootpage", l)
  BY <1>2 DEF Moves, TypeInv
<1>5. "rootpage" \in {"out", "page"} \cup HasPage
  BY <1>1
<1>6. /\ pc'[t] = "rootpage" /\ loc'[t] = l
      /\ \A u \in Threads \ {t} : pc'[u] = pc[u] /\ loc'[u] = loc[u]
  BY <1>3, <1>4, <1>5, MovesLemma
<1>7. /\ inuse \in [Roots -> SUBSET (1 .. PerPage)]
      /\ inuse' \in [Roots -> SUBSET (1 .. PerPage)]
      /\ inuse'[r] = inuse[r] \cup {j}
      /\ \A s \in Roots \ {r} : inuse'[s] = inuse[s]
  BY DEF TypeInv
<1>8. \A s \in Roots : inuse[s] \subseteq inuse'[s]
  BY <1>7
<1>9. firstpage' \in 1 .. NumPages + 1 /\ firstpage \in Nat /\ firstpage <= firstpage' /\ firstpage' \in Nat
  <2>1. firstpage \in 1 .. NumPages + 1 /\ NumPages \in Nat
    BY KMallocConstants DEF TypeInv
  <2>2. firstpage' = firstpage
    OBVIOUS
  <2>3. QED
    BY <2>1, <2>2
<1>10. TypeInv' /\ CallsInv' /\ ListsInv' /\ PagesApart' /\ OwnedInv'
  <2>1. root' \in [Roots -> 0 .. NumPages] /\ loc[t].type \in Types
    BY <1>1 DEF TypeInv, CallsInv
  <2>2. QED
    BY <1>1, <1>3, <1>4, <1>5, <1>7, <1>9, <2>1, CalmHeap
<1>11. UNCHANGED Listed
  BY DEF Listed
<1>12. RootsInv'
  <2>1. firstpage <= NumPages => \A s \in Roots : s < r => root[s] # 0
    BY <1>1, EmptyRootNotFull
  <2>2. /\ "rootpage_got" \in HasPlace /\ "rootpage_freed" \in HasPlace
    BY DEF HasPlace
  <2>3. ASSUME NEW u \in Threads
        PROVE  /\ pc'[u] = "rootpage" /\ firstpage' <= NumPages =>
                    \A s \in Roots : s < loc'[u].root => root'[s] # 0
               /\ pc'[u] = "rootpage_got" /\ loc'[u].va # 0 =>
                    /\ \A s \in Roots : s < loc'[u].root => root'[s] # 0
                    /\ \A s \in Roots : root'[s] # loc'[u].va
                    /\ \A v \in Threads \ {u} : pc'[v] = "rootpage_got" => loc'[v].va # loc'[u].va
               /\ pc'[u] = "rootpage_got" /\ loc'[u].va = 0 => firstpage' > NumPages
               /\ pc'[u] = "rootpage_freed" => root'[loc'[u].root] # 0
    <3>1. CASE u = t
      BY <1>1, <1>3, <1>6, <2>1, <3>1
    <3>2. CASE u # t
      <4>1. \A v \in Threads : pc'[v] = "rootpage_got" => pc[v] = "rootpage_got" /\ loc'[v] = loc[v]
        BY <1>1, <1>6
      <4>2. pc'[u] = pc[u] /\ loc'[u] = loc[u] /\ root' = root /\ firstpage' = firstpage
        BY <1>6, <3>2
      <4>3. /\ pc[u] = "rootpage" /\ firstpage <= NumPages =>
                 \A s \in Roots : s < loc[u].root => root[s] # 0
            /\ pc[u] = "rootpage_got" /\ loc[u].va # 0 =>
                 /\ \A s \in Roots : s < loc[u].root => root[s] # 0
                 /\ \A s \in Roots : root[s] # loc[u].va
                 /\ \A v \in Threads \ {u} : pc[v] = "rootpage_got" => loc[v].va # loc[u].va
            /\ pc[u] = "rootpage_got" /\ loc[u].va = 0 => firstpage > NumPages
            /\ pc[u] = "rootpage_freed" => root[loc[u].root] # 0
        BY DEF RootsInv
      <4>4. pc'[u] = "rootpage_got" /\ loc'[u].va # 0 =>
              \A v \in Threads \ {u} : pc'[v] = "rootpage_got" => loc'[v].va # loc'[u].va
        BY <4>1, <4>2, <4>3
      <4>5. QED
        BY <4>2, <4>3, <4>4
    <3>3. QED
      BY <3>1, <3>2
  <2>4. QED
    BY <2>3 DEF RootsInv
<1>13. PlacesInv'
  <2>1. pc[t] \notin HasPlace /\ pc'[t] \in HasPlace /\ loc'[t].root = r /\ loc'[t].place = j
    BY <1>1, <1>3, <1>6
  <2>2. UNCHANGED <<firstpage, root, Listed>>
    BY <1>11
  <2>3. QED
    BY <1>6, <1>7, <2>1, <2>2, AllocRootpagePlaces
<1>14. QED
  BY <1>10, <1>12, <1>13

LEMMA AllocpagerefStep ==
  ASSUME IInv, NEW t \in Threads, allocpageref(t)
  PROVE  IInv'
<1> USE DEF IInv
<1>1. PICK notfull, r, j :
        /\ notfull = {s \in Roots : Cardinality(inuse[s]) < PerPage}
        /\ r = Min(notfull)
        /\ j = Min((1 .. PerPage) \ inuse[r])
  OBVIOUS
<1>2. pc[t] = "pageref" /\ UNCHANGED <<firstpage, root>>
  BY DEF allocpageref
<1>3. CASE notfull = {}
  <2>1. Return(t) /\ UNCHANGED <<inuse, pageref, sizebases, allbase, owned>>
    BY <1>1, <1>3 DEF allocpageref
  <2>2. NoLocals \in Locals /\ Moves(t, "out", NoLocals)
    BY <2>1 DEF NoLocals, Locals, Return, Moves
  <2>3. "out" \in {"out", "page"} \cup HasPage
    OBVIOUS
  <2>4. "out" \notin HasPage /\ HasPlace \subseteq HasPage /\ "pageref" \notin HasPlace /\ "out" # "rootpage_got"
    BY DEF HasPage, HasPlace
  <2>5. firstpage' \in 1 .. NumPages + 1 /\ firstpage' \in Nat /\ firstpage <= firstpage'
    BY <1>2, KMallocConstants DEF TypeInv
  <2>6. TypeInv' /\ CallsInv' /\ ListsInv' /\ PagesApart' /\ OwnedInv'
    <3>1. root' \in [Roots -> 0 .. NumPages] /\ inuse' \in [Roots -> SUBSET (1 .. PerPage)]
      BY <1>2, <2>1 DEF TypeInv
    <3>2. QED
      BY <2>1, <2>2, <2>3, <2>4, <2>5, <3>1, CalmHeap
  <2>7. /\ pc'[t] = "out"
        /\ \A u \in Threads \ {t} : pc'[u] = pc[u] /\ loc'[u] = loc[u]
    BY <2>2, <2>3, MovesLemma
  <2>8. \A u \in Threads : pc[u] \in HasPlace \/ pc'[u] \in HasPlace => pc'[u] = pc[u] /\ loc'[u] = loc[u]
    BY <1>2, <2>4, <2>7
  <2>9. RootsInv' /\ PlacesInv'
    BY <1>2, <2>1, <2>5, <2>8, CalmPlaces
  <2>10. QED
    BY <2>6, <2>9
<1>4. CASE notfull # {}
  <2>1. notfull \in SUBSET Nat
    BY <1>1, KMallocConstants DEF Roots
  <2>2. r \in notfull /\ \A s \in notfull : r <= s
    BY <1>1, <1>4, <2>1, MinLemma
  <2>3. r \in Roots /\ Cardinality(inuse[r]) < PerPage
    BY <1>1, <2>2
  <2>4. inuse[r] \in SUBSET (1 .. PerPage)
    BY <2>3 DEF TypeInv
  <2>5. j \in (1 .. PerPage) \ inuse[r]
    <3>1. (1 .. PerPage) \ inuse[r] \in SUBSET Nat /\ (1 .. PerPage) \ inuse[r] # {}
      BY <2>3, <2>4, RoomLemma
    <3>2. QED
      BY <1>1, <3>1, MinLemma
  <2>6. \A s \in Roots : s < r => ~ (Cardinality(inuse[s]) < PerPage)
    <3>1. \A s \in Roots : s < r => ~ (r <= s)
      BY <2>3, KMallocConstants DEF Roots
    <3>2. QED
      BY <1>1, <2>2, <3>1
  <2>7. inuse' = [inuse EXCEPT ![r] = @ \cup {j}]
    BY <1>1, <1>4 DEF allocpageref
  <2>8. CASE root[r] # 0
    <3>1. install(t, root[r], j)
      BY <1>1, <1>4, <2>8 DEF allocpageref
    <3>2. QED
      BY <1>2, <2>3, <2>5, <2>7, <2>8, <3>1, AllocInstall
  <2>9. CASE root[r] = 0
    <3>1. /\ pc' = [pc EXCEPT ![t] = "rootpage"]
          /\ loc' = [loc EXCEPT ![t].root = r, ![t].place = j]
          /\ UNCHANGED <<pageref, sizebases, allbase, owned>>
      BY <1>1, <1>4, <2>9 DEF allocpageref
    <3>2. QED
      BY <1>2, <2>3, <2>5, <2>6, <2>7, <2>9, <3>1, AllocRootpage
  <2>10. QED
    BY <2>8, <2>9
<1>5. QED
  BY <1>3, <1>4

----------------------------------------------------------------------------
(* allocpagerefpage.                                                       *)

(* Every call keeps the place it has.                                      *)
LEMMA PlacesKept ==
  ASSUME TypeInv, PlacesInv, UNCHANGED <<root, inuse, allbase>>,
         firstpage' \in Nat, firstpage <= firstpage',
         \A u \in Threads : /\ pc[u] \in HasPlace <=> pc'[u] \in HasPlace
                            /\ pc[u] \in HasPlace => loc'[u].root = loc[u].root /\ loc'[u].place = loc[u].place
  PROVE  PlacesInv'
<1>1. firstpage' <= NumPages => firstpage <= NumPages
  BY KMallocConstants DEF TypeInv
<1>2. UNCHANGED Listed
  BY DEF Listed
<1>3. PagerefsFound'
  BY <1>2 DEF PlacesInv, PagerefsFound
<1>4. NoPlaceLost'
  <2>1. SUFFICES ASSUME firstpage' <= NumPages, NEW s \in Roots, NEW k \in inuse'[s]
                 PROVE  \/ root'[s] # 0 /\ <<root'[s], k>> \in Listed'
                        \/ \E u \in Threads : pc'[u] \in HasPlace /\ loc'[u].root = s /\ loc'[u].place = k
    BY Zenon DEF NoPlaceLost, HasPlace, Roots
  <2>2. \/ root[s] # 0 /\ <<root[s], k>> \in Listed
        \/ \E u \in Threads : pc[u] \in HasPlace /\ loc[u].root = s /\ loc[u].place = k
    BY <1>1, <2>1, PlaceTaken
  <2>3. QED
    BY <1>2, <2>2
<1>5. ASSUME NEW t \in Threads, pc'[t] \in HasPlace
      PROVE  /\ loc'[t].place \in inuse'[loc'[t].root]
             /\ <<root'[loc'[t].root], loc'[t].place>> \notin Listed'
             /\ \A u \in Threads \ {t} :
                  pc'[u] \in HasPlace => <<loc'[u].root, loc'[u].place>> # <<loc'[t].root, loc'[t].place>>
  <2>1. /\ pc[t] \in HasPlace
        /\ loc'[t].root = loc[t].root /\ loc'[t].place = loc[t].place
    BY <1>5
  <2>2. /\ loc[t].place \in inuse[loc[t].root]
        /\ <<root[loc[t].root], loc[t].place>> \notin Listed
        /\ \A u \in Threads \ {t} :
             pc[u] \in HasPlace => <<loc[u].root, loc[u].place>> # <<loc[t].root, loc[t].place>>
    BY <2>1 DEF PlacesInv
  <2>3. QED
    BY <1>2, <2>1, <2>2
<1>6. QED
  BY <1>3, <1>4, <1>5 DEF PlacesInv

LEMMA RootpageAllocStep ==
  ASSUME IInv, NEW t \in Threads, rootpage_alloc(t)
  PROVE  IInv'
<1> USE DEF IInv
<1>1. /\ pc[t] = "rootpage" /\ alloc_kpages(1)
      /\ pc' = [pc EXCEPT ![t] = "rootpage_got"]
      /\ loc' = [loc EXCEPT ![t].va = KPages(1)]
      /\ UNCHANGED <<root, inuse, pageref, sizebases, allbase, owned>>
  BY DEF rootpage_alloc, heap
<1>2. /\ firstpage \in Nat \ {0} /\ NumPages \in Nat
      /\ firstpage' \in 1 .. NumPages + 1 /\ firstpage' \in Nat /\ firstpage <= firstpage'
      /\ KPages(1) = 0 => firstpage' = firstpage /\ firstpage + 1 > NumPages + 1
      /\ KPages(1) # 0 => KPages(1) = firstpage /\ firstpage' = firstpage + 1
  <2>1. 1 \in Nat \ {0}
    OBVIOUS
  <2>2. QED
    BY <1>1, <2>1, KPagesLemma
<1>3. /\ HasPlace \subseteq HasPage /\ "rootpage" \in HasPlace /\ "rootpage_got" \in HasPlace
      /\ "rootpage" # "out" /\ "rootpage" # "rootpage_got" /\ "rootpage_got" # "rootpage_freed"
      /\ "rootpage_got" \in {"out", "page"} \cup HasPage
  BY DEF HasPage, HasPlace
<1>4. PICK va : va = KPages(1)
  OBVIOUS
<1>5. /\ va \in Nat /\ va \in 0 .. firstpage' - 1
      /\ va = 0 => firstpage' > NumPages
      /\ va # 0 => va = firstpage /\ firstpage <= NumPages
  <2>1. CASE va = 0
    BY <1>2, <1>4, <2>1
  <2>2. CASE va # 0
    BY <1>2, <1>4, <2>2
  <2>3. QED
    BY <2>1, <2>2
<1>6. PICK l : l = [loc[t] EXCEPT !.va = va]
  OBVIOUS
<1>7. /\ l \in Locals
      /\ l.type = loc[t].type /\ l.page = loc[t].page
      /\ l.root = loc[t].root /\ l.place = loc[t].place /\ l.va = va
  <2>1. loc[t] \in Locals
    BY DEF TypeInv, Locals
  <2>2. QED
    BY <1>5, <1>6, <2>1 DEF Locals
<1>8. Moves(t, "rootpage_got", l)
  BY <1>1, <1>4, <1>6 DEF Moves, TypeInv
<1>9. /\ pc'[t] = "rootpage_got" /\ loc'[t] = l
      /\ \A u \in Threads \ {t} : pc'[u] = pc[u] /\ loc'[u] = loc[u]
  BY <1>3, <1>7, <1>8, MovesLemma
<1>10. TypeInv' /\ CallsInv' /\ ListsInv' /\ PagesApart' /\ OwnedInv'
  <2>1. /\ root' \in [Roots -> 0 .. NumPages] /\ inuse' \in [Roots -> SUBSET (1 .. PerPage)]
    BY <1>1 DEF TypeInv
  <2>2. loc[t].type \in Types /\ loc[t].root \in Roots /\ loc[t].place \in 1 .. PerPage
    BY <1>1, <1>3 DEF CallsInv
  <2>3. QED
    BY <1>1, <1>2, <1>3, <1>5, <1>7, <1>8, <2>1, <2>2, CalmHeap
<1>11. RootsInv'
  <2>1. \A s \in Roots : root[s] \in Nat /\ root[s] < firstpage /\ root[s] < firstpage'
    BY <1>2 DEF TypeInv, RootsInv
  <2>2. \A u \in Threads \ {t} : pc[u] = "rootpage_got" => loc[u].va # firstpage
    BY <1>2 DEF CallsInv
  <2>3. va # 0 => \A s \in Roots : s < loc[t].root => root[s] # 0
    BY <1>1, <1>5 DEF RootsInv
  <2>4. /\ firstpage' <= NumPages => firstpage <= NumPages
        /\ firstpage > NumPages => firstpage' > NumPages
    BY <1>2
  <2>5. ASSUME NEW u \in Threads
        PROVE  /\ pc'[u] = "rootpage" /\ firstpage' <= NumPages =>
                    \A s \in Roots : s < loc'[u].root => root'[s] # 0
               /\ pc'[u] = "rootpage_got" /\ loc'[u].va # 0 =>
                    /\ \A s \in Roots : s < loc'[u].root => root'[s] # 0
                    /\ \A s \in Roots : root'[s] # loc'[u].va
                    /\ \A v \in Threads \ {u} : pc'[v] = "rootpage_got" => loc'[v].va # loc'[u].va
               /\ pc'[u] = "rootpage_got" /\ loc'[u].va = 0 => firstpage' > NumPages
               /\ pc'[u] = "rootpage_freed" => root'[loc'[u].root] # 0
    <3>1. root' = root
      BY <1>1
    <3>2. CASE u = t
      <4>1. pc'[u] = "rootpage_got" /\ loc'[u].va = va /\ loc'[u].root = loc[t].root
        BY <1>7, <1>9, <3>2
      <4>2. ASSUME va # 0
            PROVE  /\ \A s \in Roots : s < loc[t].root => root[s] # 0
                   /\ \A s \in Roots : root[s] # va
                   /\ \A v \in Threads \ {u} : pc'[v] = "rootpage_got" => loc'[v].va # va
        <5>1. va = firstpage
          BY <1>5, <4>2
        <5>2. \A s \in Roots : root[s] # va
          BY <1>2, <2>1, <5>1
        <5>3. \A v \in Threads \ {u} : pc'[v] = "rootpage_got" => loc'[v].va # va
          BY <1>9, <2>2, <3>2, <5>1
        <5>4. QED
          BY <2>3, <4>2, <5>2, <5>3
      <4>3. QED
        BY <1>3, <1>5, <3>1, <4>1, <4>2
    <3>3. CASE u # t
      <4>1. pc'[u] = pc[u] /\ loc'[u] = loc[u]
        BY <1>9, <3>3
      <4>2. /\ pc[u] = "rootpage" /\ firstpage <= NumPages =>
                 \A s \in Roots : s < loc[u].root => root[s] # 0
            /\ pc[u] = "rootpage_got" /\ loc[u].va # 0 =>
                 /\ \A s \in Roots : s < loc[u].root => root[s] # 0
                 /\ \A s \in Roots : root[s] # loc[u].va
                 /\ \A v \in Threads \ {u} : pc[v] = "rootpage_got" => loc[v].va # loc[u].va
            /\ pc[u] = "rootpage_got" /\ loc[u].va = 0 => firstpage > NumPages
            /\ pc[u] = "rootpage_freed" => root[loc[u].root] # 0
        BY DEF RootsInv
      <4>3. ASSUME pc[u] = "rootpage_got", loc[u].va # 0, NEW v \in Threads \ {u}, pc'[v] = "rootpage_got"
            PROVE  loc'[v].va # loc[u].va
        <5>1. CASE v = t
          <6>1. loc'[v].va = va
            BY <1>7, <1>9, <5>1
          <6>2. CASE va = 0
            BY <4>3, <6>1, <6>2
          <6>3. CASE va = firstpage
            BY <2>2, <3>3, <4>3, <6>1, <6>3
          <6>4. QED
            BY <1>5, <6>2, <6>3
        <5>2. CASE v # t
          <6>1. pc[v] = "rootpage_got" /\ loc'[v] = loc[v]
            BY <1>9, <4>3, <5>2
          <6>2. QED
            BY <4>2, <4>3, <6>1
        <5>3. QED
          BY <5>1, <5>2
      <4>4. QED
        BY <2>4, <3>1, <4>1, <4>2, <4>3
    <3>4. QED
      BY <3>2, <3>3
  <2>6. /\ \A r \in Roots : root'[r] < firstpage'
        /\ \A r, s \in Roots : root'[r] # 0 /\ root'[r] = root'[s] => r = s
        /\ \A r, s \in Roots : r < s /\ root'[r] = 0 => root'[s] = 0
    BY <1>1, <2>1 DEF RootsInv
  <2>7. QED
    BY <2>5, <2>6 DEF RootsInv
<1>12. PlacesInv'
  <2>1. \A u \in Threads : /\ pc[u] \in HasPlace <=> pc'[u] \in HasPlace
                           /\ pc[u] \in HasPlace => loc'[u].root = loc[u].root /\ loc'[u].place = loc[u].place
    BY <1>1, <1>3, <1>7, <1>9
  <2>2. QED
    BY <1>1, <1>2, <2>1, PlacesKept
<1>13. QED
  BY <1>10, <1>11, <1>12

(* No page for the root: the call fails, and its place stays taken.        *)
LEMMA RootpageNone ==
  ASSUME IInv, NEW t \in Threads, pc[t] = "rootpage_got", loc[t].va = 0, root[loc[t].root] = 0,
         Return(t), UNCHANGED <<firstpage, root, inuse, pageref, sizebases, allbase, owned>>
  PROVE  IInv'
<1> USE DEF IInv
<1>1. NoLocals \in Locals /\ Moves(t, "out", NoLocals)
  BY DEF NoLocals, Locals, Return, Moves
<1>2. "out" \in {"out", "page"} \cup HasPage
  OBVIOUS
<1>3. "out" \notin HasPage /\ HasPlace \subseteq HasPage /\ "out" # "rootpage_got"
  BY DEF HasPage, HasPlace
<1>4. firstpage' \in 1 .. NumPages + 1 /\ firstpage' \in Nat /\ firstpage <= firstpage' /\ NumPages \in Nat
  BY KMallocConstants DEF TypeInv
<1>5. TypeInv' /\ CallsInv' /\ ListsInv' /\ PagesApart' /\ OwnedInv'
  <2>1. root' \in [Roots -> 0 .. NumPages] /\ inuse' \in [Roots -> SUBSET (1 .. PerPage)]
    BY DEF TypeInv
  <2>2. QED
    BY <1>1, <1>2, <1>3, <1>4, <2>1, CalmHeap
<1>6. /\ pc'[t] = "out"
      /\ \A u \in Threads \ {t} : pc'[u] = pc[u] /\ loc'[u] = loc[u]
  BY <1>1, <1>2, MovesLemma
<1>7. \A u \in Threads : pc'[u] \in HasPlace => u # t /\ pc[u] \in HasPlace /\ pc'[u] = pc[u] /\ loc'[u] = loc[u]
  BY <1>3, <1>6
<1>8. RootsInv'
  BY <1>4, <1>7, CalmRoots
<1>9. UNCHANGED Listed
  BY DEF Listed
<1>10. PagerefsFound'
  BY <1>9 DEF PlacesInv, PagerefsFound
<1>11. NoPlaceLost'
  <2>1. firstpage > NumPages
    BY DEF RootsInv
  <2>2. ~ (firstpage' <= NumPages)
    BY <1>4, <2>1
  <2>3. QED
    BY <2>2 DEF NoPlaceLost
<1>12. ASSUME NEW u \in Threads, pc'[u] \in HasPlace
       PROVE  /\ loc'[u].place \in inuse'[loc'[u].root]
              /\ <<root'[loc'[u].root], loc'[u].place>> \notin Listed'
              /\ \A v \in Threads \ {u} :
                   pc'[v] \in HasPlace => <<loc'[v].root, loc'[v].place>> # <<loc'[u].root, loc'[u].place>>
  <2>1. /\ pc[u] \in HasPlace /\ loc'[u] = loc[u] /\ root' = root /\ Listed' = Listed /\ inuse' = inuse
    BY <1>7, <1>9, <1>12
  <2>2. /\ loc[u].place \in inuse[loc[u].root]
        /\ <<root[loc[u].root], loc[u].place>> \notin Listed
        /\ \A v \in Threads \ {u} :
             pc[v] \in HasPlace => <<loc[v].root, loc[v].place>> # <<loc[u].root, loc[u].place>>
    BY <2>1 DEF PlacesInv
  <2>3. QED
    BY <1>7, <2>1, <2>2
<1>13. QED
  BY <1>5, <1>8, <1>10, <1>11, <1>12 DEF PlacesInv

(* Somebody else has set the root's page: the new one is freed.            *)
LEMMA RootpageSpare ==
  ASSUME IInv, NEW t \in Threads, pc[t] = "rootpage_got", root[loc[t].root] # 0,
         pc' = [pc EXCEPT ![t] = "rootpage_freed"],
         UNCHANGED <<firstpage, root, inuse, pageref, sizebases, allbase, owned, loc>>
  PROVE  IInv'
<1> USE DEF IInv
<1>1. /\ HasPlace \subseteq HasPage /\ "rootpage_freed" \in HasPlace /\ "rootpage_got" \in HasPlace
      /\ "rootpage_freed" # "rootpage_got" /\ "rootpage_freed" # "rootpage" /\ "rootpage_got" # "out"
      /\ "rootpage_freed" \in {"out", "page"} \cup HasPage
  BY DEF HasPage, HasPlace
<1>2. PICK l : l = loc[t]
  OBVIOUS
<1>3. l \in Locals /\ Moves(t, "rootpage_freed", l)
  BY <1>2 DEF Moves, TypeInv, Locals
<1>4. firstpage' \in 1 .. NumPages + 1 /\ firstpage' \in Nat /\ firstpage <= firstpage'
  BY KMallocConstants DEF TypeInv
<1>5. TypeInv' /\ CallsInv' /\ ListsInv' /\ PagesApart' /\ OwnedInv'
  <2>1. root' \in [Roots -> 0 .. NumPages] /\ inuse' \in [Roots -> SUBSET (1 .. PerPage)]
    BY DEF TypeInv
  <2>2. l.type \in Types /\ l.root \in Roots /\ l.place \in 1 .. PerPage
    BY <1>1, <1>2 DEF CallsInv
  <2>3. QED
    BY <1>1, <1>2, <1>3, <1>4, <2>1, <2>2, CalmHeap
<1>6. /\ pc'[t] = "rootpage_freed"
      /\ \A u \in Threads \ {t} : pc'[u] = pc[u]
  BY <1>1, <1>3, MovesLemma
<1>7. RootsInv'
  <2>1. \A u \in Threads : /\ pc'[u] = "rootpage" => pc[u] = "rootpage"
                           /\ pc'[u] = "rootpage_got" => pc[u] = "rootpage_got"
                           /\ pc'[u] = "rootpage_freed" => root[loc[u].root] # 0
    BY <1>1, <1>6 DEF RootsInv
  <2>2. root' = root /\ loc' = loc /\ firstpage' = firstpage
    OBVIOUS
  <2> HIDE DEF IInv
  <2>3. RootsInv
    BY DEF IInv
  <2>4. QED
    BY <2>1, <2>2, <2>3 DEF RootsInv
<1>8. PlacesInv'
  <2>1. \A u \in Threads : /\ pc[u] \in HasPlace <=> pc'[u] \in HasPlace
                           /\ pc[u] \in HasPlace => loc'[u].root = loc[u].root /\ loc'[u].place = loc[u].place
    BY <1>1, <1>6
  <2>2. QED
    BY <1>4, <2>1, PlacesKept
<1>9. QED
  BY <1>5, <1>7, <1>8

LEMMA RootpageSetStep ==
  ASSUME IInv, NEW t \in Threads, rootpage_set(t)
  PROVE  IInv'
<1>1. pc[t] = "rootpage_got" /\ UNCHANGED firstpage /\ "rootpage_got" \in HasPlace
  BY DEF rootpage_set, HasPlace
<1>2. CASE loc[t].va = 0 /\ root[loc[t].root] = 0
  BY <1>1, <1>2, RootpageNone DEF rootpage_set, heap
<1>3. CASE loc[t].va = 0 /\ root[loc[t].root] # 0
  <2>1. install(t, root[loc[t].root], loc[t].place) /\ UNCHANGED <<root, inuse>>
    BY <1>3 DEF rootpage_set
  <2>2. QED
    BY <1>1, <1>3, <2>1, InstallPlaced
<1>4. CASE loc[t].va # 0 /\ root[loc[t].root] = 0
  <2>1. /\ root' = [root EXCEPT ![loc[t].root] = loc[t].va]
        /\ install(t, loc[t].va, loc[t].place) /\ UNCHANGED inuse
    BY <1>4 DEF rootpage_set
  <2>2. QED
    BY <1>1, <1>4, <2>1, InstallFirst
<1>5. CASE loc[t].va # 0 /\ root[loc[t].root] # 0
  BY <1>1, <1>5, RootpageSpare DEF rootpage_set, heap
<1>6. QED
  BY <1>2, <1>3, <1>4, <1>5

LEMMA RootpageLostStep ==
  ASSUME IInv, NEW t \in Threads, rootpage_lost(t)
  PROVE  IInv'
<1>1. /\ pc[t] = "rootpage_freed" /\ UNCHANGED <<firstpage, root, inuse>>
      /\ install(t, root[loc[t].root], loc[t].place)
  BY DEF rootpage_lost
<1>2. pc[t] \in HasPlace /\ root[loc[t].root] # 0
  BY <1>1 DEF HasPlace, IInv, RootsInv
<1>3. QED
  BY <1>1, <1>2, InstallPlaced

----------------------------------------------------------------------------
(* kfree.                                                                  *)

(* Whole pages that stay with their client, when nothing is described that *)
(* was not and no call moves.                                              *)
LEMMA WholeKept ==
  ASSUME UNCHANGED <<firstpage, pc, loc>>, Listed' \subseteq Listed,
         \A q \in Listed' : pageref'[q].page = pageref[q].page, NEW b, IsWhole(b)
  PROVE  IsWhole(b)'
<1>1. PICK n \in Nat \ {0}, m \in Nat \ {0} :
        /\ n + m <= firstpage
        /\ b = Whole(n, m)
        /\ \A q \in Listed : pageref[q].page \notin n .. n + m - 1
        /\ \A u \in Threads : pc[u] \in HasPage => loc[u].page \notin n .. n + m - 1
  BY DEF IsWhole
<1>2. \A q \in Listed' : pageref'[q].page \notin n .. n + m - 1
  BY <1>1
<1>3. QED
  BY <1>1, <1>2 DEF IsWhole, Whole, Start

(* The same for the pages that the pagerefs describe.                      *)
LEMMA PagesKept ==
  ASSUME PagesApart, UNCHANGED <<pc, loc>>, Listed' \subseteq Listed,
         \A q \in Listed' : pageref'[q].page = pageref[q].page
  PROVE  PagesApart'
<1>1. \A q, s \in Listed' : pageref'[q].page = pageref'[s].page => q = s
  BY DEF PagesApart
<1>2. ASSUME NEW t \in Threads, pc'[t] \in HasPage
      PROVE  /\ \A q \in Listed' : pageref'[q].page # loc'[t].page
             /\ \A u \in Threads \ {t} : pc'[u] \in HasPage => loc'[u].page # loc'[t].page
  BY <1>2 DEF PagesApart
<1>3. QED
  BY <1>1, <1>2 DEF PagesApart

(* The page of a block that is freed keeps other blocks.                   *)
LEMMA FreeBlock ==
  ASSUME IInv, NEW p \in Listed, NEW k \in Indices(p), k \notin ToSet(pageref[p].free),
         pageref' = [pageref EXCEPT ![p].free = <<k>> \o @, ![p].nfree = @ + 1],
         owned' = owned \ {BlockOf(p, k)},
         UNCHANGED <<firstpage, root, inuse, sizebases, allbase, pc, loc>>
  PROVE  IInv'
<1> USE DEF IInv
<1>1. /\ p \in Pagerefs
      /\ pageref[p] \in [page : Nat, type : Nat, free : Seq(Nat), nfree : Nat]
      /\ pageref[p].page \in Nat
      /\ pageref[p].type \in Types
      /\ pageref[p].free \in Seq(Nat)
      /\ pageref[p].nfree \in Nat
      /\ NBlocks(pageref[p].type) \in Nat
      /\ NoDup(pageref[p].free)
      /\ ToSet(pageref[p].free) \subseteq Indices(p)
      /\ pageref[p].nfree = Len(pageref[p].free)
  BY ListedLemma
<1>2. k \in Nat
  BY <1>1 DEF Indices
<1>3. PICK free, n, new :
        /\ free = <<k>> \o pageref[p].free /\ n = pageref[p].nfree + 1
        /\ new = [pageref[p] EXCEPT !.free = free, !.nfree = n]
  OBVIOUS
<1>4. /\ free \in Seq(Nat) /\ NoDup(free)
      /\ ToSet(free) = {k} \cup ToSet(pageref[p].free)
      /\ Len(free) = n /\ n \in Nat
  <2>1. /\ free \in Seq(Nat) /\ NoDup(free)
        /\ ToSet(free) = {k} \cup ToSet(pageref[p].free)
        /\ Len(free) = Len(pageref[p].free) + 1
    BY <1>1, <1>2, <1>3, ConsLemma
  <2>2. QED
    BY <1>1, <1>3, <2>1
<1>5. /\ new \in [page : Nat, type : Nat, free : Seq(Nat), nfree : Nat]
      /\ new.page = pageref[p].page /\ new.type = pageref[p].type
      /\ new.free = free /\ new.nfree = n
  BY <1>1, <1>3, <1>4
<1>6. /\ pageref' \in [Pagerefs -> [page : Nat, type : Nat, free : Seq(Nat), nfree : Nat]]
      /\ pageref'[p] = new
      /\ \A q \in Pagerefs \ {p} : pageref'[q] = pageref[q]
  <2>1. pageref' = [pageref EXCEPT ![p] = new]
    BY <1>3
  <2>2. pageref \in [Pagerefs -> [page : Nat, type : Nat, free : Seq(Nat), nfree : Nat]]
    BY DEF TypeInv
  <2>3. QED
    BY <1>1, <1>5, <2>1, <2>2
<1>7. Listed' = Listed
  BY DEF Listed
<1>8. \A q \in Listed : q # p => q \in Pagerefs /\ pageref'[q] = pageref[q]
  BY <1>6, ListedLemma
<1>9. \A q \in Listed : pageref'[q].page = pageref[q].page /\ pageref'[q].type = pageref[q].type
  BY <1>5, <1>6, <1>8
<1>10. \A q \in Listed : Indices(q)' = Indices(q) /\ \A i : BlockOf(q, i)' = BlockOf(q, i)
  BY <1>9 DEF Indices, NBlocks, BlockOf, Block
<1>11. TypeInv'
  BY <1>6 DEF TypeInv
<1>12. CallsInv'
  BY DEF CallsInv
<1>13. ListsInv'
  <2>1. ASSUME NEW q \in Listed
        PROVE  /\ NoDup(pageref'[q].free)
               /\ ToSet(pageref'[q].free) \subseteq Indices(q)
               /\ pageref'[q].nfree = Len(pageref'[q].free)
    <3>1. CASE q = p
      BY <1>1, <1>4, <1>5, <1>6, <3>1
    <3>2. CASE q # p
      BY <1>8, <3>2 DEF ListsInv
    <3>3. QED
      BY <3>1, <3>2
  <2>2. \A q \in Listed : pageref'[q].page \in 1 .. firstpage' - 1 /\ pageref'[q].type \in Types
    BY <1>9 DEF ListsInv
  <2>3. ASSUME NEW type \in Types
        PROVE  /\ NoDup(sizebases'[type])
               /\ \A q : q \in ToSet(sizebases'[type]) <=> q \in Listed' /\ pageref'[q].type = type
    BY <1>7, <1>9 DEF ListsInv
  <2>4. NoDup(allbase')
    BY DEF ListsInv
  <2>5. \A q \in Listed' :
          /\ pageref'[q].page \in 1 .. firstpage' - 1 /\ pageref'[q].type \in Types
          /\ NoDup(pageref'[q].free)
          /\ ToSet(pageref'[q].free) \subseteq Indices(q)'
          /\ pageref'[q].nfree = Len(pageref'[q].free)
    BY <1>7, <1>10, <2>1, <2>2
  <2>6. QED
    BY <2>3, <2>4, <2>5, Zenon DEF ListsInv
<1>14. PagesApart'
  <2>1. PagesApart
    OBVIOUS
  <2>2. QED
    BY <1>7, <1>9, <2>1, PagesKept
<1>15. OwnedInv'
  <2>1. PICK b : b = BlockOf(p, k)
    OBVIOUS
  <2>2. owned' = owned \ {b}
    BY <2>1
  <2>3. ASSUME NEW c \in owned', IsBlock(c) PROVE IsBlock(c)'
    <3>1. PICK q \in Listed : \E i \in Indices(q) : i \notin ToSet(pageref[q].free) /\ c = BlockOf(q, i)
      BY <2>3 DEF IsBlock
    <3>2. PICK i \in Indices(q) : i \notin ToSet(pageref[q].free) /\ c = BlockOf(q, i)
      BY <3>1
    <3>3. i \notin ToSet(pageref'[q].free)
      <4>1. CASE q = p
        <5>1. i # k
          BY <2>1, <2>2, <2>3, <3>2, <4>1
        <5>2. QED
          BY <1>4, <1>5, <1>6, <3>2, <4>1, <5>1
      <4>2. CASE q # p
        BY <1>8, <3>2, <4>2
      <4>3. QED
        BY <4>1, <4>2
    <3>4. QED
      BY <1>7, <1>10, <3>2, <3>3 DEF IsBlock
  <2>4. \A c : IsWhole(c) => IsWhole(c)'
    BY <1>7, <1>9, WholeKept
  <2>5. \A c \in owned' : c.len > 0 /\ (IsBlock(c)' \/ IsWhole(c)')
    BY <2>2, <2>3, <2>4 DEF OwnedInv
  <2>6. \A c, d : Apart(c, d)' = Apart(c, d)
    BY DEF Apart
  <2>7. \A c, d \in owned' : c # d => Apart(c, d)'
    BY <2>2, <2>6 DEF OwnedInv
  <2>8. ASSUME NEW q \in Listed', NEW i \in Indices(q)', i \notin ToSet(pageref'[q].free)
        PROVE  BlockOf(q, i)' \in owned'
    <3>1. q \in Listed /\ i \in Indices(q) /\ BlockOf(q, i)' = BlockOf(q, i)
      BY <1>7, <1>10, <2>8
    <3>2. BlockOf(q, i) \in owned /\ BlockOf(q, i) # b
      <4>1. CASE q = p
        <5>1. i # k /\ i \notin ToSet(pageref[p].free)
          BY <1>4, <1>5, <1>6, <2>8, <4>1
        <5>2. BlockOf(p, i) # BlockOf(p, k)
          <6>1. i \in 0 .. (NBlocks(pageref[p].type) - 1) /\ k \in 0 .. (NBlocks(pageref[p].type) - 1)
            BY <3>1, <4>1 DEF Indices
          <6>2. QED
            BY <1>1, <5>1, <6>1, BlocksApart DEF BlockOf
        <5>3. QED
          BY <2>1, <3>1, <4>1, <5>1, <5>2 DEF OwnedInv
      <4>2. CASE q # p
        <5>1. BlockOf(q, i) \in owned
          BY <1>8, <2>8, <3>1, <4>2 DEF OwnedInv
        <5>2. /\ b.at \in Nat /\ Start(pageref[p].page) <= b.at /\ b.at < Start(pageref[p].page) + PAGE_SIZE
          BY <2>1, BlockOfLemma
        <5>3. /\ BlockOf(q, i).at \in Nat /\ Start(pageref[q].page) <= BlockOf(q, i).at
              /\ BlockOf(q, i).at < Start(pageref[q].page) + PAGE_SIZE
              /\ pageref[q].page \in Nat
          BY <3>1, BlockOfLemma, ListedLemma
        <5>4. pageref[q].page # pageref[p].page
          BY <3>1, <4>2 DEF PagesApart
        <5>5. QED
          BY <1>1, <5>1, <5>2, <5>3, <5>4, PagesOrdered
      <4>3. QED
        BY <4>1, <4>2
    <3>3. QED
      BY <2>2, <3>1, <3>2
  <2>9. QED
    BY <2>5, <2>7, <2>8 DEF OwnedInv
<1>16. RootsInv' /\ PlacesInv'
  <2>1. firstpage' \in Nat /\ firstpage <= firstpage'
    BY KMallocConstants DEF TypeInv
  <2>2. QED
    BY <2>1, CalmPlaces
<1>17. QED
  BY <1>11, <1>12, <1>13, <1>14, <1>15, <1>16

(* Where the pagerefs are when the one at p is given back.                 *)
LEMMA ReleasePlaces ==
  ASSUME TypeInv, ListsInv, PlacesInv, CallsInv, NEW p \in Listed, Listed' = Listed \ {p},
         \A r \in Roots : inuse'[r] = IF root[r] = p[1] THEN inuse[r] \ {p[2]} ELSE inuse[r],
         UNCHANGED <<firstpage, root, pc, loc>>
  PROVE  PlacesInv'
<1>1. ASSUME NEW r \in Roots, NEW j
      PROVE  j \in inuse'[r] <=> j \in inuse[r] /\ ~ (root[r] = p[1] /\ j = p[2])
  OBVIOUS
<1>2. ASSUME NEW q \in Listed
      PROVE  q \in Pagerefs /\ q = <<q[1], q[2]>>
  BY ListedLemma DEF Pagerefs
<1>3. PagerefsFound'
  <2>1. SUFFICES ASSUME NEW q \in Listed, q # p
                 PROVE  \E r \in Roots : root[r] = q[1] /\ q[2] \in inuse'[r]
    BY DEF PagerefsFound
  <2>2. PICK r \in Roots : root[r] = q[1] /\ q[2] \in inuse[r]
    BY DEF PlacesInv, PagerefsFound
  <2>3. ~ (q[1] = p[1] /\ q[2] = p[2])
    BY <1>2, <2>1
  <2>4. QED
    BY <1>1, <2>2, <2>3
<1>4. NoPlaceLost'
  <2>1. ASSUME firstpage <= NumPages, NEW r \in Roots, NEW j \in inuse'[r]
        PROVE  \/ root[r] # 0 /\ <<root[r], j>> \in Listed'
               \/ \E t \in Threads : pc[t] \in HasPlace /\ loc[t].root = r /\ loc[t].place = j
    <3>1. j \in inuse[r] /\ ~ (root[r] = p[1] /\ j = p[2])
      BY <1>1
    <3>2. <<root[r], j>> # p
      BY <1>2, <3>1
    <3>3. \/ root[r] # 0 /\ <<root[r], j>> \in Listed
          \/ \E t \in Threads : pc[t] \in HasPlace /\ loc[t].root = r /\ loc[t].place = j
      BY <2>1, <3>1, PlaceTaken
    <3>4. QED
      BY <3>2, <3>3
  <2>2. firstpage' <= NumPages =>
          \A r \in Roots : \A j \in inuse'[r] :
            \/ root'[r] # 0 /\ <<root'[r], j>> \in Listed'
            \/ \E t \in Threads : pc'[t] \in HasPlace /\ loc'[t].root = r /\ loc'[t].place = j
    BY <2>1
  <2>3. QED
    BY <2>2, Zenon DEF NoPlaceLost, HasPlace
<1>5. ASSUME NEW t \in Threads, pc[t] \in HasPlace
      PROVE  /\ loc[t].place \in inuse'[loc[t].root]
             /\ <<root[loc[t].root], loc[t].place>> \notin Listed'
             /\ \A u \in Threads \ {t} :
                  pc[u] \in HasPlace => <<loc[u].root, loc[u].place>> # <<loc[t].root, loc[t].place>>
  <2>1. loc[t].root \in Roots
    BY <1>5 DEF CallsInv
  <2>2. /\ loc[t].place \in inuse[loc[t].root]
        /\ <<root[loc[t].root], loc[t].place>> \notin Listed
        /\ \A u \in Threads \ {t} :
             pc[u] \in HasPlace => <<loc[u].root, loc[u].place>> # <<loc[t].root, loc[t].place>>
    BY <1>5 DEF PlacesInv
  <2>3. <<root[loc[t].root], loc[t].place>> # p
    BY <2>2
  <2>4. ~ (root[loc[t].root] = p[1] /\ loc[t].place = p[2])
    BY <1>2, <2>3
  <2>5. QED
    BY <1>1, <2>1, <2>2, <2>4
<1>6. QED
  BY <1>3, <1>4, <1>5 DEF PlacesInv

(* The block is the last of its page that is not free.                     *)
LEMMA LastBlock ==
  ASSUME TypeInv, ListsInv, NEW p \in Listed, NEW k \in Indices(p), k \notin ToSet(pageref[p].free),
         pageref[p].nfree + 1 = NBlocks(pageref[p].type)
  PROVE  \A i \in Indices(p) : i \notin ToSet(pageref[p].free) => i = k
<1>1. PICK D : D = Indices(p) \ ToSet(pageref[p].free)
  OBVIOUS
<1>2. /\ IsFiniteSet(D) /\ Cardinality(D) \in Nat
      /\ Cardinality(D) + pageref[p].nfree = NBlocks(pageref[p].type)
  BY <1>1, IndicesCounted
<1>3. Cardinality(D) = 1
  BY <1>2, ListedLemma
<1>4. PICK x : D = {x}
  BY <1>2, <1>3, FS_Singleton
<1>5. QED
  BY <1>1, <1>4

(* The lists when the page of a pageref leaves the heap.                   *)
LEMMA ReleaseLists ==
  ASSUME TypeInv, ListsInv, NEW p \in Listed, UNCHANGED firstpage, remove_lists(p),
         \A q \in Pagerefs \ {p} : pageref'[q] = pageref[q]
  PROVE  /\ sizebases' \in [Types -> Seq(Pagerefs)]
         /\ allbase' \in Seq(Pagerefs)
         /\ Listed' = Listed \ {p}
         /\ ListsInv'
<1>1. PICK type : type = pageref[p].type
  OBVIOUS
<1>2. type \in Types
  BY <1>1, ListedLemma
<1>3. /\ sizebases' = [sizebases EXCEPT ![type] = RemoveFirst(@, p)]
      /\ allbase' = RemoveFirst(allbase, p)
  BY <1>1 DEF remove_lists
<1>4. sizebases \in [Types -> Seq(Pagerefs)] /\ allbase \in Seq(Pagerefs)
  BY DEF TypeInv
<1>5. /\ RemoveFirst(sizebases[type], p) \in Seq(Pagerefs)
      /\ NoDup(RemoveFirst(sizebases[type], p))
      /\ ToSet(RemoveFirst(sizebases[type], p)) = ToSet(sizebases[type]) \ {p}
  BY <1>2, <1>4, RemoveLemma DEF ListsInv
<1>6. allbase' \in Seq(Pagerefs) /\ NoDup(allbase') /\ ToSet(allbase') = ToSet(allbase) \ {p}
  BY <1>3, <1>4, RemoveLemma DEF ListsInv
<1>7. Listed' = Listed \ {p}
  BY <1>6 DEF Listed
<1>8. /\ sizebases' \in [Types -> Seq(Pagerefs)]
      /\ sizebases'[type] = RemoveFirst(sizebases[type], p)
      /\ \A other \in Types \ {type} : sizebases'[other] = sizebases[other]
  BY <1>2, <1>3, <1>4, <1>5
<1>9. ASSUME NEW q \in Listed' PROVE q \in Listed /\ q # p /\ pageref'[q] = pageref[q]
  BY <1>7, ListedLemma
<1>10. ASSUME NEW other \in Types
       PROVE  /\ NoDup(sizebases'[other])
              /\ \A q : q \in ToSet(sizebases'[other]) <=> q \in Listed' /\ pageref'[q].type = other
  <2>1. /\ NoDup(sizebases[other])
        /\ \A q : q \in ToSet(sizebases[other]) <=> q \in Listed /\ pageref[q].type = other
    BY DEF ListsInv
  <2>2. CASE other = type
    <3>1. NoDup(sizebases'[other]) /\ ToSet(sizebases'[other]) = ToSet(sizebases[other]) \ {p}
      BY <1>5, <1>8, <2>2
    <3>2. QED
      BY <1>7, <1>9, <2>1, <3>1
  <2>3. CASE other # type
    <3>1. sizebases'[other] = sizebases[other]
      BY <1>8, <2>3
    <3>2. p \notin ToSet(sizebases[other])
      BY <1>1, <2>1, <2>3
    <3>3. QED
      BY <1>7, <1>9, <2>1, <3>1, <3>2
  <2>4. QED
    BY <2>2, <2>3
<1>11. ASSUME NEW q \in Listed'
       PROVE  /\ pageref'[q].page \in 1 .. firstpage' - 1
              /\ pageref'[q].type \in Types
              /\ NoDup(pageref'[q].free)
              /\ ToSet(pageref'[q].free) \subseteq Indices(q)'
              /\ pageref'[q].nfree = Len(pageref'[q].free)
  <2>1. Indices(q)' = Indices(q)
    BY <1>9 DEF Indices, NBlocks
  <2>2. QED
    BY <1>9, <2>1 DEF ListsInv
<1>12. ListsInv'
  BY <1>6, <1>10, <1>11, Zenon DEF ListsInv
<1>13. QED
  BY <1>6, <1>7, <1>8, <1>12

(* The page of a block that is freed is all free and leaves the heap.      *)
LEMMA Release ==
  ASSUME IInv, NEW p \in Listed, NEW k \in Indices(p), k \notin ToSet(pageref[p].free),
         pageref[p].nfree + 1 = NBlocks(pageref[p].type),
         release_page(p),
         owned' = owned \ {BlockOf(p, k)},
         UNCHANGED <<firstpage, root, pc, loc>>
  PROVE  IInv'
<1>1. TypeInv /\ CallsInv /\ ListsInv /\ PagesApart /\ OwnedInv /\ RootsInv /\ PlacesInv
  BY DEF IInv
<1>2. p \in Pagerefs /\ pageref[p].page \in Nat /\ pageref[p].type \in Types
  BY <1>1, ListedLemma
<1>3. /\ pageref' \in [Pagerefs -> [page : Nat, type : Nat, free : Seq(Nat), nfree : Nat]]
      /\ \A q \in Pagerefs \ {p} : pageref'[q] = pageref[q]
  <2>1. NoPageref \in [page : Nat, type : Nat, free : Seq(Nat), nfree : Nat]
    BY DEF NoPageref
  <2>2. pageref' = [pageref EXCEPT ![p] = NoPageref]
    BY DEF release_page
  <2>3. QED
    BY <1>1, <1>2, <2>1, <2>2 DEF TypeInv
<1>4. /\ inuse' \in [Roots -> SUBSET (1 .. PerPage)]
      /\ \A r \in Roots : inuse'[r] = IF root[r] = p[1] THEN inuse[r] \ {p[2]} ELSE inuse[r]
  BY <1>1 DEF TypeInv, release_page
<1>5. /\ sizebases' \in [Types -> Seq(Pagerefs)]
      /\ allbase' \in Seq(Pagerefs)
      /\ Listed' = Listed \ {p}
      /\ ListsInv'
  <2>1. remove_lists(p)
    BY DEF release_page
  <2>2. QED
    BY <1>1, <1>3, <2>1, ReleaseLists
<1>6. ASSUME NEW q \in Listed' PROVE q \in Listed /\ q # p /\ pageref'[q] = pageref[q]
  BY <1>1, <1>3, <1>5, ListedLemma
<1>7. TypeInv'
  BY <1>1, <1>3, <1>4, <1>5 DEF TypeInv
<1>8. CallsInv'
  BY <1>1 DEF CallsInv
<1>9. PagesApart'
  BY <1>1, <1>5, <1>6, PagesKept
<1>10. PlacesInv'
  BY <1>1, <1>4, <1>5, ReleasePlaces
<1>11. RootsInv'
  <2>1. firstpage' \in Nat /\ firstpage <= firstpage'
    BY <1>1, KMallocConstants DEF TypeInv
  <2>2. QED
    BY <1>1, <2>1, CalmRoots
<1>12. PICK b : b = BlockOf(p, k)
  OBVIOUS
<1>13. owned' = owned \ {b}
  BY <1>12
<1>14. \A q \in Listed' : Indices(q)' = Indices(q) /\ \A i : BlockOf(q, i)' = BlockOf(q, i)
  BY <1>6 DEF Indices, NBlocks, BlockOf, Block
<1>15. ASSUME NEW c \in owned', IsBlock(c) PROVE IsBlock(c)'
  <2>1. PICK q \in Listed : \E i \in Indices(q) : i \notin ToSet(pageref[q].free) /\ c = BlockOf(q, i)
    BY <1>15 DEF IsBlock
  <2>2. PICK i \in Indices(q) : i \notin ToSet(pageref[q].free) /\ c = BlockOf(q, i)
    BY <2>1
  <2>3. q # p
    <3>1. q = p => i = k
      BY <1>1, <2>2, LastBlock
    <3>2. QED
      BY <1>12, <1>13, <1>15, <2>2, <3>1
  <2>4. q \in Listed' /\ pageref'[q] = pageref[q]
    BY <1>5, <1>6, <2>3
  <2>5. QED
    BY <1>14, <2>2, <2>4 DEF IsBlock
<1>16. \A c : IsWhole(c) => IsWhole(c)'
  BY <1>5, <1>6, WholeKept
<1>17. \A c \in owned' : c.len > 0 /\ (IsBlock(c)' \/ IsWhole(c)')
  BY <1>1, <1>13, <1>15, <1>16 DEF OwnedInv
<1>18. \A c, d \in owned' : c # d => Apart(c, d)'
  BY <1>1, <1>13 DEF OwnedInv, Apart
<1>19. ASSUME NEW q \in Listed', NEW i \in Indices(q)', i \notin ToSet(pageref'[q].free)
       PROVE  BlockOf(q, i)' \in owned'
  <2>1. /\ q \in Listed /\ q # p /\ i \in Indices(q) /\ i \notin ToSet(pageref[q].free)
        /\ BlockOf(q, i)' = BlockOf(q, i)
    BY <1>6, <1>14, <1>19
  <2>2. BlockOf(q, i) \in owned
    BY <1>1, <2>1 DEF OwnedInv
  <2>3. /\ b.at \in Nat /\ Start(pageref[p].page) <= b.at /\ b.at < Start(pageref[p].page) + PAGE_SIZE
    BY <1>1, <1>12, BlockOfLemma
  <2>4. /\ BlockOf(q, i).at \in Nat /\ Start(pageref[q].page) <= BlockOf(q, i).at
        /\ BlockOf(q, i).at < Start(pageref[q].page) + PAGE_SIZE
        /\ pageref[q].page \in Nat
    BY <1>1, <2>1, BlockOfLemma, ListedLemma
  <2>5. pageref[q].page # pageref[p].page
    BY <1>1, <2>1 DEF PagesApart
  <2>6. BlockOf(q, i) # b
    BY <1>2, <2>3, <2>4, <2>5, PagesOrdered
  <2>7. QED
    BY <1>13, <2>1, <2>2, <2>6
<1>20. OwnedInv'
  BY <1>17, <1>18, <1>19 DEF OwnedInv
<1>21. QED
  BY <1>5, <1>7, <1>8, <1>9, <1>10, <1>11, <1>20 DEF IInv

(* kfree of a block of a page.                                             *)
LEMMA SubpageKfreeStep ==
  ASSUME IInv, NEW t \in Threads, NEW b \in owned, subpage_kfree(t, b)
  PROVE  IInv'
<1>1. TypeInv /\ ListsInv /\ PagesApart /\ OwnedInv
  BY DEF IInv
<1>2. owned' = owned \ {b} /\ UNCHANGED <<firstpage, root, pc, loc>>
  BY DEF subpage_kfree
<1>3. PICK p \in Listed :
        LET block == (b.at - pageref[p].page * PAGE_SIZE) \div sizes[pageref[p].type]
        IN  /\ OnPage(b.at, p)
            /\ IF pageref[p].nfree + 1 = NBlocks(pageref[p].type)
                 THEN release_page(p)
                 ELSE /\ pageref' = [pageref EXCEPT ![p].free = <<block>> \o @, ![p].nfree = @ + 1]
                      /\ UNCHANGED <<inuse, sizebases, allbase>>
  <2>1. PICK i \in DOMAIN allbase :
          LET q == allbase[i]
              ref == pageref[q]
              block == (b.at - ref.page * PAGE_SIZE) \div sizes[ref.type]
          IN  /\ OnPage(b.at, q)
              /\ IF ref.nfree + 1 = NBlocks(ref.type)
                   THEN release_page(q)
                   ELSE /\ pageref' = [pageref EXCEPT ![q].free = <<block>> \o @, ![q].nfree = @ + 1]
                        /\ UNCHANGED <<inuse, sizebases, allbase>>
    BY DEF subpage_kfree
  <2>2. allbase[i] \in Listed
    BY <1>1, ListLemma DEF TypeInv, Listed
  <2>3. QED
    BY <2>1, <2>2
<1>4. PICK k \in Indices(p) : k \notin ToSet(pageref[p].free) /\ b = BlockOf(p, k)
  BY <1>1, <1>3, OwnedOnLemma
<1>5. (b.at - pageref[p].page * PAGE_SIZE) \div sizes[pageref[p].type] = k
  BY <1>1, <1>4, BlockOfLemma
<1>6. owned' = owned \ {BlockOf(p, k)}
  BY <1>2, <1>4
<1>7. CASE pageref[p].nfree + 1 = NBlocks(pageref[p].type)
  <2>1. release_page(p)
    BY <1>3, <1>7
  <2>2. QED
    BY <1>2, <1>4, <1>6, <1>7, <2>1, Release
<1>8. CASE pageref[p].nfree + 1 # NBlocks(pageref[p].type)
  <2>1. /\ pageref' = [pageref EXCEPT ![p].free = <<k>> \o @, ![p].nfree = @ + 1]
        /\ UNCHANGED <<inuse, sizebases, allbase>>
    BY <1>3, <1>5, <1>8
  <2>2. QED
    BY <1>2, <1>4, <1>6, <2>1, FreeBlock
<1>9. QED
  BY <1>7, <1>8

(* kfree of whole pages.                                                   *)
LEMMA KfreePagesStep ==
  ASSUME IInv, NEW t \in Threads, NEW b \in owned, kfree_pages(t, b)
  PROVE  IInv'
<1>1. TypeInv /\ CallsInv /\ ListsInv /\ PagesApart /\ OwnedInv /\ RootsInv /\ PlacesInv
  BY DEF IInv
<1>2. /\ owned' = owned \ {b}
      /\ UNCHANGED <<firstpage, root, inuse, pageref, sizebases, allbase, pc, loc>>
  BY DEF kfree_pages, heap
<1>3. ASSUME NEW p \in Listed PROVE ~ OnPage(b.at, p)
  <2>1. allbase \in Seq(Pagerefs) /\ p \in ToSet(allbase)
    BY <1>1 DEF TypeInv, Listed
  <2>2. PICK i \in DOMAIN allbase : allbase[i] = p
    BY <2>1, ListLemma
  <2>3. QED
    BY <2>2 DEF kfree_pages
<1>4. firstpage' \in Nat /\ firstpage <= firstpage'
  BY <1>1, <1>2, KMallocConstants DEF TypeInv
<1>5. TypeInv'
  BY <1>1, <1>2 DEF TypeInv
<1>6. CallsInv'
  BY <1>1, <1>2 DEF CallsInv
<1>7. ListsInv'
  BY <1>1, <1>2, <1>4, CalmLists
<1>8. UNCHANGED <<Listed, pageref>> /\ \A p : Indices(p)' = Indices(p)
  BY <1>2 DEF Listed, Indices, NBlocks
<1>9. PagesApart'
  BY <1>1, <1>2, <1>8, PagesKept
<1>10. RootsInv' /\ PlacesInv'
  BY <1>1, <1>2, <1>4, CalmPlaces
<1>11. \A p, i : BlockOf(p, i)' = BlockOf(p, i)
  BY <1>2 DEF BlockOf, Block
<1>12. OwnedInv'
  <2>1. \A c : IsBlock(c) => IsBlock(c)'
    BY <1>8, <1>11 DEF IsBlock
  <2>2. \A c : IsWhole(c) => IsWhole(c)'
    BY <1>2, <1>8, WholeKept
  <2>3. \A c \in owned' : c.len > 0 /\ (IsBlock(c)' \/ IsWhole(c)')
    BY <1>1, <1>2, <2>1, <2>2 DEF OwnedInv
  <2>4. \A c, d \in owned' : c # d => Apart(c, d)'
    BY <1>1, <1>2 DEF OwnedInv, Apart
  <2>5. ASSUME NEW p \in Listed, NEW i \in Indices(p), i \notin ToSet(pageref[p].free)
        PROVE  BlockOf(p, i) \in owned'
    <3>1. BlockOf(p, i) \in owned
      BY <1>1, <2>5 DEF OwnedInv
    <3>2. OnPage(BlockOf(p, i).at, p)
      BY <1>1, BlockOfLemma
    <3>3. QED
      BY <1>2, <1>3, <3>1, <3>2
  <2>6. \A p \in Listed' : \A i \in Indices(p)' :
          i \notin ToSet(pageref'[p].free) => BlockOf(p, i)' \in owned'
    BY <1>8, <1>11, <2>5
  <2>7. QED
    BY <2>3, <2>4, <2>6, Zenon DEF OwnedInv
<1>13. QED
  BY <1>5, <1>6, <1>7, <1>9, <1>10, <1>12 DEF IInv

----------------------------------------------------------------------------
(* The theorems.                                                           *)

(* The invariant holds when the heap is empty.                             *)
LEMMA InitStep == Init => IInv
<1> SUFFICES ASSUME Init PROVE IInv
  OBVIOUS
<1>1. TypeInv
  <2>1. NoPageref \in [page : Nat, type : Nat, free : Seq(Nat), nfree : Nat]
    BY DEF NoPageref
  <2>2. NoLocals \in [type : Nat, page : Nat, root : Nat, place : Nat, va : Nat]
    BY DEF NoLocals
  <2>3. firstpage \in 1 .. NumPages + 1 /\ root \in [Roots -> 0 .. NumPages]
    BY KMallocConstants DEF Init
  <2>4. sizebases \in [Types -> Seq(Pagerefs)] /\ allbase \in Seq(Pagerefs)
    BY EmptyLemma DEF Init
  <2>5. QED
    BY <2>1, <2>2, <2>3, <2>4 DEF Init, TypeInv
<1>2. Listed = {} /\ owned = {} /\ NoDup(allbase)
  BY EmptyLemma DEF Init, Listed
<1>3. \A t \in Threads : pc[t] = "out"
  BY DEF Init
<1>4. \A t \in Threads : pc[t] \notin HasPage /\ pc[t] \notin HasPlace
  BY <1>3 DEF HasPage, HasPlace
<1>5. CallsInv
  BY <1>3, <1>4 DEF CallsInv
<1>6. ListsInv
  <2>1. \A type \in Types : sizebases[type] = <<>>
    BY DEF Init
  <2>2. QED
    BY <1>2, <2>1, EmptyLemma DEF ListsInv
<1>7. PagesApart
  BY <1>2, <1>4 DEF PagesApart
<1>8. OwnedInv
  BY <1>2 DEF OwnedInv
<1>9. RootsInv
  BY <1>3 DEF RootsInv, Init
<1>10. PlacesInv
  <2>1. \A r \in Roots : inuse[r] = {}
    BY DEF Init
  <2>2. QED
    BY <1>2, <1>4, <2>1 DEF PlacesInv, PagerefsFound, NoPlaceLost
<1>11. QED
  BY <1>1, <1>5, <1>6, <1>7, <1>8, <1>9, <1>10 DEF IInv

(* Every step keeps it.                                                    *)
LEMMA NextStep == IInv /\ [Next]_vars => IInv'
<1> SUFFICES ASSUME IInv, [Next]_vars PROVE IInv'
  OBVIOUS
<1>1. ASSUME NEW t \in Threads, NEW sz \in Requests, kmalloc_pages(t, sz) PROVE IInv'
  BY <1>1, KmallocPagesStep
<1>2. ASSUME NEW t \in Threads, NEW sz \in Requests, subpage_kmalloc(t, sz) PROVE IInv'
  BY <1>2, SubpageKmallocStep
<1>3. ASSUME NEW t \in Threads, NEW b \in owned, subpage_kfree(t, b) PROVE IInv'
  BY <1>3, SubpageKfreeStep
<1>4. ASSUME NEW t \in Threads, NEW b \in owned, kfree_pages(t, b) PROVE IInv'
  BY <1>4, KfreePagesStep
<1>5. ASSUME NEW t \in Threads, subpage_page(t) PROVE IInv'
  BY <1>5, SubpagePageStep
<1>6. ASSUME NEW t \in Threads, allocpageref(t) PROVE IInv'
  BY <1>6, AllocpagerefStep
<1>7. ASSUME NEW t \in Threads, rootpage_alloc(t) PROVE IInv'
  BY <1>7, RootpageAllocStep
<1>8. ASSUME NEW t \in Threads, rootpage_set(t) PROVE IInv'
  BY <1>8, RootpageSetStep
<1>9. ASSUME NEW t \in Threads, rootpage_lost(t) PROVE IInv'
  BY <1>9, RootpageLostStep
<1>10. CASE UNCHANGED vars
  <2>1. TypeInv /\ CallsInv /\ ListsInv /\ PagesApart /\ OwnedInv /\ RootsInv /\ PlacesInv
    BY DEF IInv
  <2>2. UNCHANGED <<firstpage, root, inuse, pageref, sizebases, allbase, owned, pc, loc>>
    BY <1>10 DEF vars, heap
  <2>3. firstpage' \in Nat /\ firstpage <= firstpage'
    BY <2>1, <2>2, KMallocConstants DEF TypeInv
  <2>4. TypeInv' /\ CallsInv'
    BY <2>1, <2>2 DEF TypeInv, CallsInv
  <2>5. ListsInv' /\ PagesApart' /\ OwnedInv'
    BY <2>1, <2>2, <2>3, CalmLists, CalmApart, CalmOwned
  <2>6. RootsInv' /\ PlacesInv'
    BY <2>1, <2>2, <2>3, CalmPlaces
  <2>7. QED
    BY <2>4, <2>5, <2>6 DEF IInv
<1>11. QED
  BY <1>1, <1>2, <1>3, <1>4, <1>5, <1>6, <1>7, <1>8, <1>9, <1>10, Zenon DEF Next, Run

(* The inductive invariant holds throughout.                               *)
LEMMA Invariance == Spec => []IInv
BY InitStep, NextStep, PTL DEF Spec

(* The lists of pages, the free lists with nfree, the pagerefs' places and *)
(* the blocks clients have agree after every critical section of kmalloc.c,*)
(* for any number of calls that gave kmalloc_spinlock up half way: what    *)
(* checksubpage, checksubpages and freepageref assert.                     *)
THEOREM HeapConsistent == Spec => []KMallocInv
<1>1. IInv => KMallocInv
  BY InvLemma
<1>2. QED
  BY Invariance, <1>1, PTL

(* Until memory runs out, allocpageref's places are those of listed pages  *)
(* and of calls that are between its two halves: the way a call loses the  *)
(* race for a root's page, and frees the page it got, leaks no place.      *)
THEOREM PlacesNotLost == Spec => []NoPlaceLost
<1>1. IInv => NoPlaceLost
  BY InvLemma
<1>2. QED
  BY Invariance, <1>1, PTL

(* What a step does to what clients have.                                  *)
LEMMA OwnedStep ==
  ASSUME [Next]_vars
  PROVE  \/ owned' = owned
         \/ \E b : owned' = owned \cup {b}
         \/ \E b \in owned : owned' = owned \ {b}
<1> DEFINE Allowed == \/ owned' = owned
                      \/ \E b : owned' = owned \cup {b}
                      \/ \E b \in owned : owned' = owned \ {b}
<1> SUFFICES Allowed
  OBVIOUS
<1>1. ASSUME NEW t, NEW p, NEW ref, doalloc(t, p, ref) PROVE Allowed
  BY <1>1 DEF doalloc
<1>2. ASSUME NEW t, NEW q, NEW j, install(t, q, j) PROVE Allowed
  BY <1>1, <1>2 DEF install
<1>3. ASSUME NEW t, NEW sz, kmalloc_pages(t, sz) PROVE Allowed
  BY <1>3 DEF kmalloc_pages
<1>4. ASSUME NEW t, NEW sz, subpage_kmalloc(t, sz) PROVE Allowed
  <2>1. owned' = owned \/ \E p, ref : doalloc(t, p, ref)
    BY <1>4 DEF subpage_kmalloc
  <2>2. QED
    BY <1>1, <2>1
<1>5. ASSUME NEW t, NEW b \in owned, subpage_kfree(t, b) \/ kfree_pages(t, b) PROVE Allowed
  BY <1>5 DEF subpage_kfree, kfree_pages
<1>6. ASSUME NEW t, allocpageref(t) PROVE Allowed
  <2>1. owned' = owned \/ \E q, j : install(t, q, j)
    BY <1>6 DEF allocpageref
  <2>2. QED
    BY <1>2, <2>1
<1>7. ASSUME NEW t, rootpage_set(t) PROVE Allowed
  <2>1. owned' = owned \/ \E q, j : install(t, q, j)
    BY <1>7 DEF rootpage_set
  <2>2. QED
    BY <1>2, <2>1
<1>8. ASSUME NEW t, rootpage_lost(t) PROVE Allowed
  BY <1>2, <1>8 DEF rootpage_lost
<1>9. ASSUME NEW t, subpage_page(t) \/ rootpage_alloc(t) PROVE Allowed
  BY <1>9 DEF subpage_page, rootpage_alloc
<1>10. CASE UNCHANGED vars
  BY <1>10 DEF vars
<1> HIDE DEF Allowed
<1>11. CASE Next
  <2>1. PICK t \in Threads :
          \/ \E sz \in Requests : kmalloc_pages(t, sz) \/ subpage_kmalloc(t, sz)
          \/ \E b \in owned : subpage_kfree(t, b) \/ kfree_pages(t, b)
          \/ Run(t)
    BY <1>11, Zenon DEF Next
  <2>2. CASE Run(t)
    BY <1>6, <1>7, <1>8, <1>9, <2>2 DEF Run
  <2>3. QED
    BY <1>3, <1>4, <1>5, <2>1, <2>2
<1>12. QED
  BY <1>10, <1>11

(* The addresses of blocks that are apart.                                 *)
LEMMA AddressesLemma ==
  ASSUME NEW b \in [at : Nat, len : Nat], NEW c \in [at : Nat, len : Nat],
         b.len > 0, c.len > 0, Apart(b, c)
  PROVE  /\ Addresses(b) \cap Addresses(c) = {}
         /\ Addresses(b) # Addresses(c)
<1>1. b.at \in Nat /\ b.len \in Nat /\ c.at \in Nat /\ c.len \in Nat
  OBVIOUS
<1>2. ASSUME NEW x \in Addresses(b), x \in Addresses(c) PROVE FALSE
  BY <1>1, <1>2 DEF Addresses, Apart
<1>3. b.at \in Addresses(b)
  BY <1>1 DEF Addresses
<1>4. QED
  BY <1>2, <1>3

(* Every step is a step of the abstract heap, or none.                     *)
LEMMA HeapStep ==
  ASSUME IInv, IInv', [Next]_vars
  PROVE  [H!Next]_{Addresses(b) : b \in owned}
<1> DEFINE A(S) == {Addresses(b) : b \in S}
<1>1. \A b : Addresses(b)' = Addresses(b)
  BY DEF Addresses
<1>2. {Addresses(b) : b \in owned}' = A(owned')
  BY <1>1
<1>3. ASSUME NEW b \in owned, NEW c \in owned, b # c
      PROVE  Addresses(b) \cap Addresses(c) = {} /\ Addresses(b) # Addresses(c)
  BY <1>3, AddressesLemma DEF IInv, TypeInv, OwnedInv
<1>4. ASSUME NEW b \in owned', NEW c \in owned', b # c
      PROVE  Addresses(b) \cap Addresses(c) = {} /\ Addresses(b) # Addresses(c)
  <2>1. b \in [at : Nat, len : Nat] /\ c \in [at : Nat, len : Nat]
    BY DEF IInv, TypeInv
  <2>2. b.len > 0 /\ c.len > 0 /\ Apart(b, c)
    BY <1>4 DEF IInv, OwnedInv, Apart
  <2>3. QED
    BY <2>1, <2>2, AddressesLemma
<1> HIDE DEF A
<1>5. CASE owned' = owned
  BY <1>2, <1>5 DEF A
<1>6. ASSUME NEW b, b \notin owned, owned' = owned \cup {b} PROVE H!kmalloc
  <2>1. b \in owned'
    BY <1>6
  <2>2. \A c \in owned : Addresses(c) \cap Addresses(b) = {} /\ Addresses(c) # Addresses(b)
    BY <1>4, <1>6, <2>1
  <2>3. A(owned') = A(owned) \cup {Addresses(b)}
    BY <1>6 DEF A
  <2>4. Addresses(b) \notin A(owned)
    BY <2>2 DEF A
  <2>5. \A o \in A(owned) : o \cap Addresses(b) = {}
    BY <2>2 DEF A
  <2>6. \E x \in A(owned') \ A(owned) :
          /\ A(owned') = A(owned) \cup {x}
          /\ \A o \in A(owned) : o \cap x = {}
    BY <2>3, <2>4, <2>5
  <2>7. QED
    BY <1>2, <2>6 DEF H!kmalloc, A
<1>7. ASSUME NEW b \in owned, owned' = owned \ {b} PROVE H!kfree
  <2>1. \A c \in owned : c # b => Addresses(c) # Addresses(b)
    BY <1>3
  <2>2. A(owned') = A(owned) \ {Addresses(b)}
    BY <1>7, <2>1 DEF A
  <2>3. Addresses(b) \in A(owned)
    BY DEF A
  <2>4. \E x \in A(owned) : A(owned') = A(owned) \ {x}
    BY <2>2, <2>3
  <2>5. QED
    BY <1>2, <2>4 DEF H!kfree, A
<1>8. CASE \E b : owned' = owned \cup {b}
  <2>1. PICK b : owned' = owned \cup {b}
    BY <1>8
  <2>2. CASE b \in owned
    <3>1. owned' = owned
      BY <2>1, <2>2
    <3>2. QED
      BY <1>5, <3>1
  <2>3. CASE b \notin owned
    BY <1>6, <2>1, <2>3 DEF H!Next
  <2>4. QED
    BY <2>2, <2>3
<1>9. CASE \E b \in owned : owned' = owned \ {b}
  BY <1>7, <1>9 DEF H!Next
<1>10. QED
  BY <1>5, <1>8, <1>9, OwnedStep

(* kmalloc gives a client memory that no client has, and kfree takes back  *)
(* that block and no other, for any sizes and numbers of pages, threads    *)
(* and requests.                                                           *)
THEOREM HeapRefined == Spec => ImplementsHeap
<1>1. Init => H!Init
  BY DEF Init, H!Init
<1>2. IInv /\ IInv' /\ [Next]_vars => [H!Next]_{Addresses(b) : b \in owned}
  BY HeapStep
<1>3. QED
  BY Invariance, <1>1, <1>2, PTL DEF Spec, ImplementsHeap, H!Spec

============================================================================
