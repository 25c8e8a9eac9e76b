------------------------ MODULE OrderedDictTheorems ------------------------
(***************************************************************************)
(* What the operations of OrderedDict preserve: type, distinct keys, size   *)
(* and the set of keys.  The proofs about the load balancer's tables rest   *)
(* on these lemmas and never look inside the operations again.              *)
(***************************************************************************)
EXTENDS OrderedDict, SequenceTheorems, FiniteSetTheorems, WellFoundedInduction,
        TLAPS

\* Every item of d is one of e.
ItemsOf(d, e) == \A i \in DOMAIN d : \E j \in DOMAIN e : d[i] = e[j]

\* A key of a dictionary has a position, and the item there is its own.
LEMMA PositionOfKey ==
  ASSUME NEW d, NEW k \in Keys(d)
  PROVE  /\ Position(d, k) \in DOMAIN d
         /\ d[Position(d, k)].key = k
BY DEF Keys, Position

\* The items of a typed dictionary.
LEMMA ItemTypes ==
  ASSUME NEW K, NEW V, NEW d \in Items(K, V)
  PROVE  /\ Len(d) \in Nat
         /\ DOMAIN d = 1 .. Len(d)
         /\ \A i \in 1 .. Len(d) : d[i] \in [key : K, val : V]
         /\ Keys(d) \subseteq K
<1>1. d \in Seq([key : K, val : V])
  BY DEF Items
<1>2. /\ Len(d) \in Nat
      /\ DOMAIN d = 1 .. Len(d)
      /\ \A i \in 1 .. Len(d) : d[i] \in [key : K, val : V]
  BY <1>1, LenProperties, ElementOfSeq
<1>3. Keys(d) \subseteq K
  BY <1>2 DEF Keys
<1> QED  BY <1>2, <1>3

\* d[k] has the type of the values.
LEMMA GetType ==
  ASSUME NEW K, NEW V, NEW d \in Items(K, V), NEW k \in Keys(d)
  PROVE  Get(d, k) \in V
BY PositionOfKey, ItemTypes DEF Get

\* Removing position i shifts the later items down by one.
LEMMA RemoveAtProperties ==
  ASSUME NEW S, NEW d \in Seq(S), NEW i \in 1 .. Len(d)
  PROVE  /\ RemoveAt(d, i) \in Seq(S)
         /\ Len(RemoveAt(d, i)) = Len(d) - 1
         /\ DOMAIN RemoveAt(d, i) = 1 .. Len(d) - 1
         /\ \A j \in 1 .. Len(d) - 1 :
              RemoveAt(d, i)[j] = IF j < i THEN d[j] ELSE d[j + 1]
<1> DEFINE a == SubSeq(d, 1, i - 1)
           b == SubSeq(d, i + 1, Len(d))
<1>0. Len(d) \in Nat /\ \A j \in 1 .. Len(d) : d[j] \in S
  BY LenProperties, ElementOfSeq
<1>1. /\ a \in Seq(S)
      /\ Len(a) = i - 1
      /\ \A j \in 1 .. i - 1 : a[j] = d[j]
  <2>1. /\ a \in Seq(S)
        /\ Len(a) = IF 1 <= i - 1 THEN (i - 1) - 1 + 1 ELSE 0
        /\ \A j \in 1 .. (i - 1) - 1 + 1 : a[j] = d[1 + j - 1]
    <3>1. \A j \in 1 .. i - 1 : d[j] \in S
      BY <1>0
    <3> HIDE DEF a
    <3> QED  BY <3>1, <1>0, SubSeqProperties, 1 \in Int, i - 1 \in Int DEF a
  <2> HIDE DEF a
  <2> QED  BY <2>1, <1>0
<1>2. /\ b \in Seq(S)
      /\ Len(b) = Len(d) - i
      /\ \A j \in 1 .. Len(d) - i : b[j] = d[j + i]
  <2>1. /\ b \in Seq(S)
        /\ Len(b) = IF i + 1 <= Len(d) THEN Len(d) - (i + 1) + 1 ELSE 0
        /\ \A j \in 1 .. Len(d) - (i + 1) + 1 : b[j] = d[i + 1 + j - 1]
    <3>1. \A j \in i + 1 .. Len(d) : d[j] \in S
      BY <1>0
    <3> QED  BY <3>1, <1>0, SubSeqProperties, i + 1 \in Int, Len(d) \in Int
  <2> HIDE DEF b
  <2> QED  BY <2>1, <1>0
<1>3. RemoveAt(d, i) = a \o b
  BY DEF RemoveAt
<1> HIDE DEF a, b
<1>4. /\ a \o b \in Seq(S)
      /\ Len(a \o b) = Len(a) + Len(b)
      /\ \A j \in 1 .. Len(a) + Len(b) :
           (a \o b)[j] = IF j <= Len(a) THEN a[j] ELSE b[j - Len(a)]
  BY <1>1, <1>2, ConcatProperties
<1>5. DOMAIN (a \o b) = 1 .. Len(a \o b)
  BY <1>4, LenProperties
<1> QED  BY <1>0, <1>1, <1>2, <1>3, <1>4, <1>5

\* "if k in d: del d[k]" takes out k and nothing else.
LEMMA DiscardProperties ==
  ASSUME NEW K, NEW V, NEW d \in Items(K, V), NEW k
  PROVE  /\ Discard(d, k) \in Items(K, V)
         /\ Len(Discard(d, k)) <= Len(d)
         /\ ItemsOf(Discard(d, k), d)
         /\ IsDict(d) => /\ IsDict(Discard(d, k))
                         /\ Keys(Discard(d, k)) = Keys(d) \ {k}
<1>1. CASE k \notin Keys(d)
  <2>1. Discard(d, k) = d
    BY <1>1 DEF Discard
  <2> QED  BY <1>1, <2>1, ItemTypes DEF ItemsOf
<1>2. CASE k \in Keys(d)
  <2> DEFINE i == Position(d, k)
             e == RemoveAt(d, i)
  <2>0. /\ Len(d) \in Nat
        /\ DOMAIN d = 1 .. Len(d)
        /\ d \in Seq([key : K, val : V])
    BY ItemTypes DEF Items
  <2>1. i \in 1 .. Len(d) /\ d[i].key = k
    BY <1>2, <2>0, PositionOfKey
  <2> HIDE DEF i
  <2>2. /\ e \in Seq([key : K, val : V])
        /\ Len(e) = Len(d) - 1
        /\ DOMAIN e = 1 .. Len(d) - 1
        /\ \A j \in 1 .. Len(d) - 1 : e[j] = IF j < i THEN d[j] ELSE d[j + 1]
    BY <2>0, <2>1, RemoveAtProperties
  <2> HIDE DEF e
  <2>3. Discard(d, k) = e
    BY <1>2 DEF Discard, e, i
  <2>4. ItemsOf(e, d)
    <3> SUFFICES ASSUME NEW j \in 1 .. Len(d) - 1
                 PROVE  \E l \in 1 .. Len(d) : e[j] = d[l]
      BY <2>0, <2>2 DEF ItemsOf
    <3>1. CASE j < i
      BY <2>0, <2>2, <3>1
    <3>2. CASE ~(j < i)
      <4>1. j + 1 \in 1 .. Len(d)
        BY <2>0
      <4> QED  BY <2>2, <3>2, <4>1
    <3> QED  BY <3>1, <3>2
  <2>5. ASSUME IsDict(d)
        PROVE  IsDict(e)
    <3> SUFFICES ASSUME NEW j \in 1 .. Len(d) - 1, NEW l \in 1 .. Len(d) - 1,
                        e[j].key = e[l].key
                 PROVE  j = l
      BY <2>2 DEF IsDict
    <3> DEFINE up(m) == IF m < i THEN m ELSE m + 1
    <3>1. /\ up(j) \in 1 .. Len(d) /\ e[j] = d[up(j)]
          /\ up(l) \in 1 .. Len(d) /\ e[l] = d[up(l)]
      BY <2>0, <2>1, <2>2
    <3>2. up(j) = up(l)
      BY <2>0, <2>5, <3>1 DEF IsDict
    <3> QED  BY <3>2, <2>1, <2>0
  <2>6. ASSUME IsDict(d)
        PROVE  Keys(e) = Keys(d) \ {k}
    <3>1. ASSUME NEW x \in Keys(e)
          PROVE  x \in Keys(d) \ {k}
      <4>1. PICK j \in 1 .. Len(d) - 1 : x = e[j].key
        BY <2>2 DEF Keys
      <4> DEFINE m == IF j < i THEN j ELSE j + 1
      <4>2. m \in 1 .. Len(d) /\ m # i /\ e[j] = d[m]
        BY <2>0, <2>1, <2>2
      <4>3. d[m].key # k
        BY <2>0, <2>1, <2>6, <4>2 DEF IsDict
      <4> QED  BY <2>0, <4>1, <4>2, <4>3 DEF Keys
    <3>2. ASSUME NEW x \in Keys(d) \ {k}
          PROVE  x \in Keys(e)
      <4>1. PICK j \in 1 .. Len(d) : x = d[j].key
        BY <2>0 DEF Keys
      <4>2. j # i
        BY <2>1, <4>1
      <4> DEFINE m == IF j < i THEN j ELSE j - 1
      <4>3. m \in 1 .. Len(d) - 1 /\ e[m] = d[j]
        BY <2>0, <2>1, <2>2, <4>2
      <4> QED  BY <2>2, <4>1, <4>3 DEF Keys
    <3> QED  BY <3>1, <3>2
  <2>7. e \in Items(K, V) /\ Len(e) <= Len(d)
    BY <2>0, <2>2 DEF Items
  <2> QED  BY <2>3, <2>4, <2>5, <2>6, <2>7
<1> QED  BY <1>1, <1>2

\* d[k] = v adds at most one item, and no key but k.
LEMMA AssignProperties ==
  ASSUME NEW K, NEW V, NEW d \in Items(K, V), NEW k \in K, NEW v \in V
  PROVE  /\ Assign(d, k, v) \in Items(K, V)
         /\ Len(Assign(d, k, v)) <= Len(d) + 1
         /\ Keys(Assign(d, k, v)) = Keys(d) \cup {k}
         /\ \A i \in DOMAIN Assign(d, k, v) :
              \/ Assign(d, k, v)[i] = [key |-> k, val |-> v]
              \/ \E j \in DOMAIN d : Assign(d, k, v)[i] = d[j]
         /\ IsDict(d) => IsDict(Assign(d, k, v))
<1> DEFINE item == [key |-> k, val |-> v]
           S == [key : K, val : V]
<1>0. /\ Len(d) \in Nat
      /\ DOMAIN d = 1 .. Len(d)
      /\ d \in Seq(S)
      /\ item \in S
  BY ItemTypes DEF Items
<1>1. CASE k \in Keys(d)
  <2> DEFINE p == Position(d, k)
             e == [d EXCEPT ![p] = item]
  <2>1. p \in 1 .. Len(d) /\ d[p].key = k
    BY <1>0, <1>1, PositionOfKey
  <2> HIDE DEF p, item, S
  <2>2. /\ e \in Seq(S)
        /\ Len(e) = Len(d)
        /\ \A j \in 1 .. Len(d) : e[j] = IF j = p THEN item ELSE d[j]
    BY <1>0, <2>1, ExceptSeq
  <2>3. DOMAIN e = 1 .. Len(d)
    BY <1>0
  <2>4. item.key = k
    BY DEF item
  <2> HIDE DEF e
  <2>5. Assign(d, k, v) = e
    BY <1>1 DEF Assign, e, p, item
  <2>6. \A j \in 1 .. Len(d) : e[j].key = d[j].key
    BY <2>1, <2>2, <2>4
  <2>7. Keys(e) = Keys(d) \cup {k}
    BY <1>0, <1>1, <2>3, <2>6 DEF Keys
  <2>8. IsDict(d) => IsDict(e)
    BY <1>0, <2>3, <2>6 DEF IsDict
  <2>9. \A i \in DOMAIN e : e[i] = item \/ \E j \in DOMAIN d : e[i] = d[j]
    BY <1>0, <2>2, <2>3
  <2> QED  BY <1>0, <2>2, <2>5, <2>7, <2>8, <2>9 DEF Items, S, item
<1>2. CASE k \notin Keys(d)
  <2> DEFINE e == Append(d, item)
  <2>1. item.key = k
    OBVIOUS
  <2> HIDE DEF item, S
  <2>2. /\ e \in Seq(S)
        /\ Len(e) = Len(d) + 1
        /\ \A j \in 1 .. Len(d) : e[j] = d[j]
        /\ e[Len(d) + 1] = item
    BY <1>0, AppendProperties
  <2> HIDE DEF e
  <2>3. DOMAIN e = 1 .. Len(d) + 1
    BY <2>2, LenProperties
  <2>4. Assign(d, k, v) = e
    BY <1>2 DEF Assign, e, item
  <2>5. \A j \in 1 .. Len(d) + 1 : j \in 1 .. Len(d) \/ j = Len(d) + 1
    BY <1>0
  <2>6. Keys(e) = Keys(d) \cup {k}
    <3>1. ASSUME NEW x \in Keys(e)
          PROVE  x \in Keys(d) \cup {k}
      BY <1>0, <2>1, <2>2, <2>3, <2>5 DEF Keys
    <3>2. ASSUME NEW x \in Keys(d)
          PROVE  x \in Keys(e)
      <4>1. PICK j \in 1 .. Len(d) : x = d[j].key
        BY <1>0 DEF Keys
      <4>2. j \in DOMAIN e /\ e[j].key = x
        BY <1>0, <2>2, <2>3, <4>1
      <4> QED  BY <4>2 DEF Keys
    <3>3. k \in Keys(e)
      <4>1. Len(d) + 1 \in DOMAIN e
        BY <1>0, <2>3
      <4> QED  BY <2>1, <2>2, <4>1 DEF Keys
    <3> QED  BY <3>1, <3>2, <3>3
  <2>7. ASSUME IsDict(d)
        PROVE  IsDict(e)
    <3>1. \A j \in 1 .. Len(d) : d[j].key # k
      BY <1>0, <1>2 DEF Keys
    <3> QED  BY <1>0, <2>1, <2>2, <2>3, <2>5, <2>7, <3>1 DEF IsDict
  <2>8. \A i \in DOMAIN e : e[i] = item \/ \E j \in DOMAIN d : e[i] = d[j]
    BY <1>0, <2>2, <2>3, <2>5
  <2> QED  BY <1>0, <2>2, <2>4, <2>6, <2>7, <2>8 DEF Items, S, item
<1> QED  BY <1>1, <1>2

\* move_to_end keeps the keys and their items.
LEMMA MoveToEndProperties ==
  ASSUME NEW K, NEW V, NEW d \in Items(K, V), NEW k \in Keys(d), IsDict(d)
  PROVE  /\ MoveToEnd(d, k) \in Items(K, V)
         /\ IsDict(MoveToEnd(d, k))
         /\ Keys(MoveToEnd(d, k)) = Keys(d)
         /\ Len(MoveToEnd(d, k)) = Len(d)
         /\ ItemsOf(MoveToEnd(d, k), d)
<1> DEFINE i == Position(d, k)
           e == RemoveAt(d, i)
           S == [key : K, val : V]
           f == Append(e, d[i])
<1>0. Len(d) \in Nat /\ DOMAIN d = 1 .. Len(d) /\ d \in Seq(S)
  BY ItemTypes DEF Items
<1>1. i \in 1 .. Len(d) /\ d[i].key = k /\ d[i] \in S
  BY <1>0, PositionOfKey, ItemTypes
<1> HIDE DEF i
<1>2. e \in Seq(S) /\ Len(e) = Len(d) - 1 /\ DOMAIN e = 1 .. Len(d) - 1
  BY <1>0, <1>1, RemoveAtProperties
<1>3. Discard(d, k) = e
  BY DEF Discard, e, i
<1>4. /\ ItemsOf(e, d)
      /\ IsDict(e)
      /\ Keys(e) = Keys(d) \ {k}
  BY <1>3, DiscardProperties
<1>5. MoveToEnd(d, k) = f
  BY DEF MoveToEnd, f, e, i
<1> HIDE DEF e, S
<1>6. /\ f \in Seq(S)
      /\ Len(f) = Len(e) + 1
      /\ \A j \in 1 .. Len(e) : f[j] = e[j]
      /\ f[Len(e) + 1] = d[i]
  BY <1>1, <1>2, AppendProperties
<1> HIDE DEF f
<1>7. DOMAIN f = 1 .. Len(d) /\ Len(f) = Len(d)
  BY <1>0, <1>2, <1>6, LenProperties
<1>8. \A j \in 1 .. Len(d) : (j \in DOMAIN e /\ f[j] = e[j])
                          \/ (j = Len(d) /\ f[j] = d[i])
  <2> SUFFICES ASSUME NEW j \in 1 .. Len(d)
               PROVE  \/ (j \in DOMAIN e /\ f[j] = e[j])
                      \/ (j = Len(d) /\ f[j] = d[i])
    OBVIOUS
  <2>1. CASE j = Len(d)
    BY <1>0, <1>2, <1>6, <2>1
  <2>2. CASE j # Len(d)
    <3>0. Len(d) \in Nat
      BY <1>0
    <3>1. j \in 1 .. Len(d) - 1
      BY <2>2, <3>0
    <3> QED  BY <1>2, <1>6, <3>1
  <2> QED  BY <2>1, <2>2
<1>9. ItemsOf(f, d)
  BY <1>0, <1>1, <1>4, <1>7, <1>8 DEF ItemsOf
<1>10. Keys(f) = Keys(d)
  <2>1. ASSUME NEW x \in Keys(d)
        PROVE  x \in Keys(f)
    <3>1. CASE x = k
      <4>1. Len(d) \in DOMAIN f /\ f[Len(d)].key = k
        BY <1>0, <1>1, <1>2, <1>6, <1>7
      <4> QED  BY <3>1, <4>1 DEF Keys
    <3>2. CASE x # k
      <4>1. x \in Keys(e)
        BY <1>4, <3>2
      <4>2. PICK j \in DOMAIN e : e[j].key = x
        BY <4>1 DEF Keys
      <4>3. j \in DOMAIN f /\ f[j].key = x
        BY <1>0, <1>2, <1>6, <1>7, <4>2
      <4> QED  BY <4>3 DEF Keys
    <3> QED  BY <3>1, <3>2
  <2>2. Keys(f) \subseteq Keys(d)
    BY <1>9 DEF ItemsOf, Keys
  <2> QED  BY <2>1, <2>2
<1>11. IsDict(f)
  <2>1. \A j \in DOMAIN e : e[j].key # k
    BY <1>4 DEF Keys
  <2> SUFFICES ASSUME NEW j \in 1 .. Len(d), NEW l \in 1 .. Len(d),
                      f[j].key = f[l].key
               PROVE  j = l
    BY <1>7 DEF IsDict
  <2>2. CASE j \in DOMAIN e /\ f[j] = e[j] /\ l \in DOMAIN e /\ f[l] = e[l]
    BY <1>4, <2>2 DEF IsDict
  <2>3. CASE j = Len(d) /\ f[j] = d[i] /\ l \in DOMAIN e /\ f[l] = e[l]
    BY <1>1, <2>1, <2>3
  <2>4. CASE j \in DOMAIN e /\ f[j] = e[j] /\ l = Len(d) /\ f[l] = d[i]
    BY <1>1, <2>1, <2>4
  <2> QED  BY <1>8, <2>2, <2>3, <2>4
<1> QED  BY <1>5, <1>6, <1>7, <1>9, <1>10, <1>11 DEF Items, S

\* A set of naturals that is not empty has a least element.
LEMMA LeastPosition ==
  ASSUME NEW U \in SUBSET Nat, U # {}
  PROVE  \E m \in U : \A k \in U : m <= k
<1> DEFINE R == OpToRel(<, Nat)
<1>1. \A i, j \in Nat : i < j => <<i, j>> \in R
  BY DEF OpToRel
<1>2. IsWellFoundedOn(R, Nat)
  BY NatLessThanWellFounded
<1> HIDE DEF R
<1>3. PICK m \in U : \A k \in U : <<k, m>> \notin R
  BY <1>2, WFMin
<1>4. \A k \in U : ~(k < m)
  BY <1>1, <1>3, Zenon
<1> QED  BY <1>4

\* How many of the positions I are not after n.
UpTo(I, n) == Cardinality({j \in I : j <= n})

\* That number grows by one at the positions of I, and nowhere else.
LEMMA UpToByPosition ==
  ASSUME NEW l \in Nat, NEW I \in SUBSET (1 .. l)
  PROVE  /\ IsFiniteSet(I) /\ Cardinality(I) \in 0 .. l
         /\ \A n \in Nat : UpTo(I, n) \in Nat
         /\ UpTo(I, 0) = 0
         /\ UpTo(I, l) = Cardinality(I)
         /\ \A n \in Nat \ {0} :
              UpTo(I, n) = UpTo(I, n - 1) + (IF n \in I THEN 1 ELSE 0)
         /\ \A m, n \in Nat : m <= n => UpTo(I, m) <= UpTo(I, n)
<1> DEFINE upto(n) == {j \in I : j <= n}
<1>1. IsFiniteSet(I) /\ Cardinality(I) \in 0 .. l
  <2>1. IsFiniteSet(1 .. l) /\ Cardinality(1 .. l) = l
    BY FS_Interval
  <2>2. /\ IsFiniteSet(I) /\ Cardinality(I) \in Nat
        /\ Cardinality(I) <= Cardinality(1 .. l)
    BY <2>1, FS_Subset, FS_CardinalityType
  <2> QED  BY <2>1, <2>2
<1>2. \A j \in I : j \in Nat /\ 1 <= j /\ j <= l
  OBVIOUS
<1>3. \A n : IsFiniteSet(upto(n)) /\ upto(n) \in SUBSET I
  BY <1>1, FS_Subset
<1>4. \A n : Cardinality(upto(n)) \in Nat
  BY <1>3, FS_CardinalityType
<1>5. upto(0) = {} /\ upto(l) = I
  <2>1. \A j \in I : ~(j <= 0) /\ j <= l
    BY <1>2
  <2> QED  BY <2>1, Zenon
<1>6. ASSUME NEW n \in Nat \ {0}
      PROVE  Cardinality(upto(n))
               = Cardinality(upto(n - 1)) + (IF n \in I THEN 1 ELSE 0)
  <2>1. n \notin upto(n - 1) /\ \A j \in I : j <= n <=> j <= n - 1 \/ j = n
    BY <1>2
  <2>2. CASE n \in I
    <3>1. upto(n) = upto(n - 1) \cup {n} /\ n \notin upto(n - 1)
      BY <2>1, <2>2
    <3> HIDE DEF upto
    <3>2. Cardinality(upto(n - 1) \cup {n}) = Cardinality(upto(n - 1)) + 1
      BY <1>3, <3>1, FS_AddElement
    <3> QED  BY <2>2, <3>1, <3>2
  <2>3. CASE n \notin I
    <3>1. upto(n) = upto(n - 1)
      BY <2>1, <2>3
    <3> HIDE DEF upto
    <3>2. Cardinality(upto(n - 1)) \in Nat
      BY <1>4
    <3> QED  BY <2>3, <3>1, <3>2
  <2> QED  BY <2>2, <2>3
<1>7. ASSUME NEW m \in Nat, NEW n \in Nat, m <= n
      PROVE  Cardinality(upto(m)) <= Cardinality(upto(n))
  <2>1. \A j \in I : j <= m => j <= n
    <3> SUFFICES ASSUME NEW j \in I, j <= m
                 PROVE  j <= n
      OBVIOUS
    <3>1. j \in Nat
      BY <1>2
    <3> QED  BY <1>7, <3>1
  <2>2. upto(m) \subseteq upto(n)
    BY <2>1, Zenon
  <2> HIDE DEF upto
  <2> QED  BY <1>3, <2>2, FS_Subset
<1>8. \A n : UpTo(I, n) = Cardinality(upto(n))
  BY DEF UpTo
<1>9. Cardinality({}) = 0
  BY FS_EmptySet
<1> HIDE DEF upto
<1> QED  BY <1>1, <1>4, <1>5, <1>6, <1>7, <1>8, <1>9

\* So the positions are numbered from 1 to their number.
LEMMA PositionOfNumber ==
  ASSUME NEW l \in Nat, NEW I \in SUBSET (1 .. l), NEW k \in 1 .. Cardinality(I)
  PROVE  \E i \in I : UpTo(I, i) = k
<1> DEFINE U == {n \in 0 .. l : UpTo(I, n) >= k}
<1>1. Cardinality(I) \in Nat /\ k \in Nat \ {0}
  BY UpToByPosition
<1>2. l \in U
  BY <1>1, UpToByPosition
<1>3. PICK m \in U : \A n \in U : m <= n
  <2>1. U \in SUBSET Nat
    OBVIOUS
  <2> HIDE DEF U
  <2> QED  BY <1>2, <2>1, LeastPosition
<1>4. m \in Nat \ {0}
  BY <1>1, <1>3, UpToByPosition
<1>5. UpTo(I, m) >= k /\ UpTo(I, m) \in Nat
  BY <1>3, <1>4, UpToByPosition
<1>6. UpTo(I, m - 1) < k /\ UpTo(I, m - 1) \in Nat
  <2>1. m - 1 \in 0 .. l /\ m - 1 \in Nat
    BY <1>3, <1>4
  <2>2. m - 1 \notin U
    BY <1>3, <1>4
  <2>3. UpTo(I, m - 1) \in Nat
    BY <2>1, UpToByPosition
  <2> QED  BY <1>1, <2>1, <2>2, <2>3
<1>7. UpTo(I, m) = UpTo(I, m - 1) + (IF m \in I THEN 1 ELSE 0)
  BY <1>4, UpToByPosition
<1> QED  BY <1>1, <1>5, <1>6, <1>7

\* What is left of a dictionary are its items at the positions given, in their order.
LEMMA OnlyProperties ==
  ASSUME NEW K, NEW V, NEW d \in Items(K, V), NEW I \in SUBSET DOMAIN d
  PROVE  /\ Only(d, I) \in Items(K, V)
         /\ Len(Only(d, I)) = Cardinality(I)
         /\ Len(Only(d, I)) <= Len(d)
         /\ DOMAIN Only(d, I) = 1 .. Cardinality(I)
         /\ \E place \in [1 .. Cardinality(I) -> I] :
              /\ \A k \in 1 .. Cardinality(I) : Only(d, I)[k] = d[place[k]]
              /\ \A a, b \in 1 .. Cardinality(I) : a < b => place[a] < place[b]
              /\ \A i \in I : \E k \in 1 .. Cardinality(I) : place[k] = i
<1> DEFINE n == Cardinality(I)
           S == [key : K, val : V]
           at(k) == CHOOSE i \in I : UpTo(I, i) = k
           place == [k \in 1 .. n |-> at(k)]
           e == Only(d, I)
<1>1. /\ Len(d) \in Nat
      /\ DOMAIN d = 1 .. Len(d)
      /\ \A i \in 1 .. Len(d) : d[i] \in S
  BY ItemTypes
<1> HIDE DEF S
<1>2. I \in SUBSET (1 .. Len(d)) /\ n \in Nat /\ n <= Len(d)
  BY <1>1, UpToByPosition
<1>3. \A k \in 1 .. n : at(k) \in I /\ UpTo(I, at(k)) = k
  BY <1>1, <1>2, PositionOfNumber
<1>4. e = [k \in 1 .. n |-> d[at(k)]]
  BY DEF Only, UpTo
<1> HIDE DEF at, e, n
<1>5. e \in Seq(S)
  BY <1>1, <1>2, <1>3, <1>4, IsASeq
<1>6. Len(e) = n /\ DOMAIN e = 1 .. n
  BY <1>2, <1>4, <1>5, LenProperties
<1>6a. /\ \A j, k \in Nat : j <= k => UpTo(I, j) <= UpTo(I, k)
       /\ \A j \in Nat : UpTo(I, j) \in Nat
       /\ \A j \in Nat \ {0} :
            UpTo(I, j) = UpTo(I, j - 1) + (IF j \in I THEN 1 ELSE 0)
  BY <1>1, <1>2, UpToByPosition
<1>7. place \in [1 .. n -> I] /\ \A k \in 1 .. n : e[k] = d[place[k]]
  BY <1>3, <1>4
<1>8. ASSUME NEW a \in 1 .. n, NEW b \in 1 .. n, a < b
      PROVE  place[a] < place[b]
  <2>1. /\ place[a] \in Nat /\ place[b] \in Nat
        /\ UpTo(I, place[a]) = a /\ UpTo(I, place[b]) = b
    BY <1>2, <1>3
  <2>2. place[b] <= place[a] => b <= a
    BY <1>6a, <2>1
  <2> QED  BY <1>2, <1>8, <2>1, <2>2
<1>9. ASSUME NEW i \in I
      PROVE  \E k \in 1 .. n : place[k] = i
  <2> DEFINE k == UpTo(I, i)
  <2>1. i \in Nat \ {0} /\ i - 1 \in Nat /\ i <= Len(d)
    BY <1>2
  <2>2. k \in 1 .. n
    <3>1. /\ k = UpTo(I, i - 1) + 1 /\ UpTo(I, i - 1) \in Nat
          /\ k <= UpTo(I, Len(d)) /\ UpTo(I, Len(d)) = n
      BY <1>1, <1>2, <2>1, UpToByPosition DEF n
    <3> QED  BY <1>2, <3>1
  <2>3. place[k] \in I /\ UpTo(I, place[k]) = k
    BY <1>3, <2>2
  <2>4. ASSUME NEW x \in I, NEW y \in I, x < y
        PROVE  UpTo(I, x) # UpTo(I, y)
    <3>1. /\ x \in Nat /\ y \in Nat \ {0} /\ y - 1 \in Nat /\ x <= y - 1
      BY <1>2, <2>4
    <3>2. /\ UpTo(I, x) <= UpTo(I, y - 1) /\ UpTo(I, y) = UpTo(I, y - 1) + 1
          /\ UpTo(I, x) \in Nat /\ UpTo(I, y - 1) \in Nat
      BY <1>6a, <2>4, <3>1
    <3> QED  BY <3>1, <3>2
  <2>5. ~(place[k] < i) /\ ~(i < place[k])
    BY <2>3, <2>4
  <2>6. place[k] \in Nat
    BY <1>2, <2>3
  <2> HIDE DEF place
  <2>7. place[k] = i
    BY <2>1, <2>5, <2>6
  <2> QED  BY <2>2, <2>7
<1> HIDE DEF place
<1>10. \E p \in [1 .. n -> I] :
         /\ \A k \in 1 .. n : e[k] = d[p[k]]
         /\ \A a, b \in 1 .. n : a < b => p[a] < p[b]
         /\ \A i \in I : \E k \in 1 .. n : p[k] = i
  BY <1>7, <1>8, <1>9
<1> QED  BY <1>2, <1>5, <1>6, <1>10 DEF Items, S, e, n

\* They are what it had there: no key is new, and none occurs twice.
LEMMA OnlyIsDict ==
  ASSUME NEW K, NEW V, NEW d \in Items(K, V), NEW I \in SUBSET DOMAIN d
  PROVE  /\ Keys(Only(d, I)) = {d[i].key : i \in I}
         /\ Keys(Only(d, I)) \subseteq Keys(d)
         /\ IsDict(d) => IsDict(Only(d, I))
<1> DEFINE n == Cardinality(I)
           e == Only(d, I)
<1>1. PICK place \in [1 .. n -> I] :
        /\ \A k \in 1 .. n : e[k] = d[place[k]]
        /\ \A a, b \in 1 .. n : a < b => place[a] < place[b]
        /\ \A i \in I : \E k \in 1 .. n : place[k] = i
  BY OnlyProperties
<1>2. DOMAIN e = 1 .. n /\ DOMAIN d = 1 .. Len(d)
  BY OnlyProperties, ItemTypes
<1>3. n \in Nat /\ \A i \in I : i \in Nat
  BY <1>2, OnlyProperties, UpToByPosition, ItemTypes
<1> HIDE DEF e, n
<1>4. Keys(e) = {d[i].key : i \in I}
  BY <1>1, <1>2 DEF Keys
<1>5. Keys(e) \subseteq Keys(d)
  BY <1>4 DEF Keys
<1>6. ASSUME IsDict(d), NEW a \in 1 .. n, NEW b \in 1 .. n, e[a].key = e[b].key
      PROVE  a = b
  <2>1. place[a] = place[b]
    BY <1>1, <1>6 DEF IsDict
  <2>2. ~(a < b) /\ ~(b < a)
    BY <1>1, <1>3, <2>1
  <2> QED  BY <1>3, <2>2
<1>7. IsDict(d) => IsDict(e)
  BY <1>2, <1>6 DEF IsDict
<1> QED  BY <1>4, <1>5, <1>7 DEF e

\* What is left after the first items of a dictionary are gone.
LEMMA SuffixProperties ==
  ASSUME NEW K, NEW V, NEW d \in Items(K, V), NEW m \in Nat \ {0}
  PROVE  /\ SubSeq(d, m, Len(d)) \in Items(K, V)
         /\ Len(SubSeq(d, m, Len(d)))
              = IF m <= Len(d) THEN Len(d) - m + 1 ELSE 0
         /\ ItemsOf(SubSeq(d, m, Len(d)), d)
         /\ Keys(SubSeq(d, m, Len(d))) \subseteq Keys(d)
         /\ \A j \in DOMAIN SubSeq(d, m, Len(d)) :
              /\ j + m - 1 \in DOMAIN d
              /\ SubSeq(d, m, Len(d))[j] = d[j + m - 1]
         /\ IsDict(d) => IsDict(SubSeq(d, m, Len(d)))
<1> DEFINE S == [key : K, val : V]
           e == SubSeq(d, m, Len(d))
<1>0. /\ Len(d) \in Nat
      /\ DOMAIN d = 1 .. Len(d)
      /\ \A j \in 1 .. Len(d) : d[j] \in S
  BY ItemTypes
<1> HIDE DEF S
<1>1. /\ e \in Seq(S)
      /\ Len(e) = IF m <= Len(d) THEN Len(d) - m + 1 ELSE 0
      /\ \A j \in 1 .. Len(d) - m + 1 : e[j] = d[m + j - 1]
  <2>1. \A j \in m .. Len(d) : d[j] \in S
    BY <1>0
  <2> QED  BY <1>0, <2>1, m \in Int, Len(d) \in Int, SubSeqProperties
<1> HIDE DEF e
<1>2. DOMAIN e = 1 .. Len(e)
  BY <1>1, LenProperties
<1>3. \A j \in DOMAIN e : j + m - 1 \in DOMAIN d /\ e[j] = d[j + m - 1]
  BY <1>0, <1>1, <1>2
<1>4. ItemsOf(e, d)
  BY <1>3 DEF ItemsOf
<1>5. Keys(e) \subseteq Keys(d)
  BY <1>3 DEF Keys
<1>6. IsDict(d) => IsDict(e)
  <2> SUFFICES ASSUME IsDict(d), NEW j \in DOMAIN e, NEW l \in DOMAIN e,
                      e[j].key = e[l].key
               PROVE  j = l
    BY DEF IsDict
  <2>1. j \in Int /\ l \in Int /\ m \in Int
    BY <1>1, <1>2
  <2>2. j + m - 1 = l + m - 1
    <3>1. d[j + m - 1].key = d[l + m - 1].key
      BY <1>3
    <3> QED  BY <1>3, <3>1 DEF IsDict
  <2>3. \A a, b, c \in Int : a + c - 1 = b + c - 1 => a = b
    OBVIOUS
  <2> QED  BY <2>1, <2>2, <2>3
<1> QED  BY <1>1, <1>3, <1>4, <1>5, <1>6 DEF Items, e, S

\* Evicting while the table is full makes room for one more item.
LEMMA EvictProperties ==
  ASSUME NEW K, NEW V, NEW d \in Items(K, V), NEW max \in Nat \ {0}
  PROVE  /\ EvictWhileFull(d, max) \in Items(K, V)
         /\ Len(EvictWhileFull(d, max)) <= max - 1
         /\ ItemsOf(EvictWhileFull(d, max), d)
         /\ Keys(EvictWhileFull(d, max)) \subseteq Keys(d)
         /\ IsDict(d) => IsDict(EvictWhileFull(d, max))
<1>0. Len(d) \in Nat
  BY ItemTypes
<1>1. CASE Len(d) < max
  <2>1. EvictWhileFull(d, max) = d
    BY <1>1 DEF EvictWhileFull
  <2> QED  BY <1>0, <1>1, <2>1 DEF ItemsOf
<1>2. CASE ~(Len(d) < max)
  <2> DEFINE m == Len(d) - max + 2
  <2>1. m \in Nat \ {0}
    BY <1>0, <1>2
  <2>2. EvictWhileFull(d, max) = SubSeq(d, m, Len(d))
    BY <1>2 DEF EvictWhileFull
  <2>3. Len(SubSeq(d, m, Len(d))) <= max - 1
    <3>1. Len(SubSeq(d, m, Len(d))) = IF m <= Len(d) THEN Len(d) - m + 1 ELSE 0
      BY <2>1, SuffixProperties
    <3>2. (IF m <= Len(d) THEN Len(d) - m + 1 ELSE 0) <= max - 1
      BY <1>0, <1>2
    <3> QED  BY <3>1, <3>2
  <2> HIDE DEF m
  <2>4. /\ SubSeq(d, m, Len(d)) \in Items(K, V)
        /\ ItemsOf(SubSeq(d, m, Len(d)), d)
        /\ Keys(SubSeq(d, m, Len(d))) \subseteq Keys(d)
        /\ IsDict(d) => IsDict(SubSeq(d, m, Len(d)))
    BY <2>1, SuffixProperties
  <2> QED  BY <2>2, <2>3, <2>4
<1> QED  BY <1>1, <1>2

-----------------------------------------------------------------------------
(* The order of the keys.                                                  *)

\* An assignment leaves every key where it is; a new key goes last.
LEMMA AssignOrder ==
  ASSUME NEW K, NEW V, NEW d \in Items(K, V), NEW k \in K, NEW v \in V
  PROVE  /\ \A x, y : Before(d, x, y) => Before(Assign(d, k, v), x, y)
         /\ k \notin Keys(d) => Last(Assign(d, k, v)).key = k
<1> DEFINE item == [key |-> k, val |-> v]
           S == [key : K, val : V]
           e == Assign(d, k, v)
<1>1. Len(d) \in Nat /\ DOMAIN d = 1 .. Len(d) /\ d \in Seq(S) /\ item \in S
  BY ItemTypes DEF Items
<1>2. item.key = k
  OBVIOUS
<1>3. CASE k \in Keys(d)
  <2> DEFINE p == Position(d, k)
  <2>1. p \in 1 .. Len(d) /\ d[p].key = k
    BY <1>1, <1>3, PositionOfKey
  <2>2. e = [d EXCEPT ![p] = item]
    BY <1>3 DEF Assign
  <2> HIDE DEF p, item, S, e
  <2>3. DOMAIN e = DOMAIN d /\ \A j \in DOMAIN d : e[j].key = d[j].key
    BY <1>1, <1>2, <2>1, <2>2
  <2> QED  BY <1>3, <2>3 DEF Before, e
<1>4. CASE k \notin Keys(d)
  <2>1. e = Append(d, item)
    BY <1>4 DEF Assign
  <2> HIDE DEF item, S, e
  <2>2. /\ e \in Seq(S)
        /\ Len(e) = Len(d) + 1
        /\ \A j \in 1 .. Len(d) : e[j] = d[j]
        /\ e[Len(d) + 1] = item
    BY <1>1, <2>1, AppendProperties
  <2>3. DOMAIN e = 1 .. Len(d) + 1
    BY <2>2, LenProperties
  <2>4. \A j \in DOMAIN d : j \in DOMAIN e /\ e[j] = d[j]
    BY <1>1, <2>2, <2>3
  <2>5. Last(e) = item
    BY <2>2 DEF Last
  <2> QED  BY <1>2, <2>4, <2>5 DEF Before, e
<1> QED  BY <1>3, <1>4

\* While a dictionary is not beyond its capacity, making room for one more item
\* takes the first at most, and the others stay in their order.
LEMMA EvictOrder ==
  ASSUME NEW K, NEW V, NEW d \in Items(K, V), NEW max \in Nat \ {0},
         IsDict(d), Len(d) <= max, NEW x, NEW y, Before(d, x, y)
  PROVE  /\ y \in Keys(EvictWhileFull(d, max))
         /\ x \in Keys(EvictWhileFull(d, max)) => Before(EvictWhileFull(d, max), x, y)
<1>1. Len(d) \in Nat /\ DOMAIN d = 1 .. Len(d)
  BY ItemTypes
<1>2. PICK i \in DOMAIN d, j \in DOMAIN d : i < j /\ d[i].key = x /\ d[j].key = y
  BY DEF Before
<1>3. CASE Len(d) < max
  <2>1. EvictWhileFull(d, max) = d
    BY <1>3 DEF EvictWhileFull
  <2> QED  BY <1>2, <2>1 DEF Keys
<1>4. CASE ~(Len(d) < max)
  <2> DEFINE m == Len(d) - max + 2
             e == SubSeq(d, m, Len(d))
  <2>1. EvictWhileFull(d, max) = e
    BY <1>4 DEF EvictWhileFull
  <2>2. m = 2 /\ m \in Nat \ {0}
    BY <1>1, <1>4
  <2> HIDE DEF m
  <2>3. /\ Len(e) = IF m <= Len(d) THEN Len(d) - m + 1 ELSE 0
        /\ e \in Items(K, V)
        /\ \A l \in 1 .. Len(d) - m + 1 : e[l] = d[m + l - 1]
    <3>1. /\ Len(e) = IF m <= Len(d) THEN Len(d) - m + 1 ELSE 0
          /\ e \in Items(K, V)
      BY <2>2, SuffixProperties
    <3>2. \A l \in 1 .. Len(d) - m + 1 : e[l] = d[m + l - 1]
      <4>1. \A l \in m .. Len(d) : d[l] \in [key : K, val : V]
        BY <1>1, <2>2, ItemTypes
      <4>2. m \in Int /\ Len(d) \in Int
        BY <1>1, <2>2
      <4> QED  BY <4>1, <4>2, SubSeqProperties
    <3> QED  BY <3>1, <3>2
  <2> HIDE DEF e
  <2>4. /\ DOMAIN e = 1 .. Len(d) - 1
        /\ \A l \in DOMAIN e : l + 1 \in DOMAIN d /\ e[l] = d[l + 1] /\ l \in Nat
    <3>1. DOMAIN e = 1 .. Len(e)
      BY <2>3, ItemTypes
    <3>2. Len(e) = Len(d) - 1
      <4>1. 2 <= Len(d)
        BY <1>1, <1>2
      <4> QED  BY <1>1, <2>2, <2>3, <4>1
    <3>3. \A l \in 1 .. Len(d) - 1 : /\ l \in Nat /\ l + 1 \in 1 .. Len(d)
                                    /\ l \in 1 .. Len(d) - m + 1 /\ m + l - 1 = l + 1
      BY <1>1, <2>2
    <3> QED  BY <1>1, <2>3, <3>1, <3>2, <3>3
  <2>5. \A l \in DOMAIN d : l # 1 => l - 1 \in DOMAIN e /\ e[l - 1] = d[l]
    BY <1>1, <2>4
  <2>6. i \in Nat /\ j \in Nat /\ j # 1
    BY <1>1, <1>2
  <2>7. j - 1 \in DOMAIN e /\ e[j - 1].key = y
    BY <1>2, <2>5, <2>6
  <2>8. ASSUME x \in Keys(e)
        PROVE  Before(e, x, y)
    <3>1. PICK l \in DOMAIN e : e[l].key = x
      BY <2>8 DEF Keys
    <3>2. l + 1 = i
      BY <1>2, <2>4, <3>1 DEF IsDict
    <3>3. l < j - 1
      BY <1>2, <2>4, <2>6, <3>2
    <3> QED  BY <2>7, <3>1, <3>3 DEF Before
  <2>9. y \in Keys(e)
    BY <2>7 DEF Keys
  <2> QED  BY <2>1, <2>8, <2>9
<1> QED  BY <1>3, <1>4

\* move_to_end takes one key to the end, and the others stay in their order.
LEMMA MoveToEndOrder ==
  ASSUME NEW K, NEW V, NEW d \in Items(K, V), NEW k \in Keys(d), IsDict(d)
  PROVE  /\ Last(MoveToEnd(d, k)).key = k
         /\ \A x, y : x # k /\ Before(d, x, y) => Before(MoveToEnd(d, k), x, y)
<1> DEFINE p == Position(d, k)
           e == RemoveAt(d, p)
           S == [key : K, val : V]
           f == Append(e, d[p])
           n == Len(d)
<1>1. n \in Nat /\ DOMAIN d = 1 .. n /\ d \in Seq(S)
  BY ItemTypes DEF Items
<1>2. p \in 1 .. n /\ d[p].key = k /\ d[p] \in S
  BY <1>1, PositionOfKey, ItemTypes
<1>3. MoveToEnd(d, k) = f
  BY DEF MoveToEnd
<1> HIDE DEF p
<1>4. /\ e \in Seq(S) /\ Len(e) = n - 1
      /\ \A j \in 1 .. n - 1 : e[j] = IF j < p THEN d[j] ELSE d[j + 1]
  BY <1>1, <1>2, RemoveAtProperties
<1> HIDE DEF e, S
<1>5. /\ f \in Seq(S)
      /\ Len(f) = Len(e) + 1
      /\ \A j \in 1 .. Len(e) : f[j] = e[j]
      /\ f[Len(e) + 1] = d[p]
  BY <1>2, <1>4, AppendProperties
<1> HIDE DEF f
<1>6. Len(f) = n /\ f[n] = d[p] /\ DOMAIN f = 1 .. n
  <2>1. Len(f) = n
    BY <1>1, <1>4, <1>5
  <2> QED  BY <1>1, <1>4, <1>5, <2>1, LenProperties
<1>7. /\ \A j \in 1 .. n : j < p => f[j] = d[j]
      /\ \A j \in 1 .. n : p < j => f[j - 1] = d[j]
  <2> HIDE DEF n
  <2>1. ASSUME NEW j \in 1 .. n, j < p
        PROVE  f[j] = d[j]
    <3>1. j \in 1 .. n - 1
      BY <1>1, <1>2, <2>1
    <3> QED  BY <1>4, <1>5, <2>1, <3>1
  <2>2. ASSUME NEW j \in 1 .. n, p < j
        PROVE  f[j - 1] = d[j]
    <3>1. j - 1 \in 1 .. n - 1 /\ ~(j - 1 < p) /\ (j - 1) + 1 = j
      BY <1>1, <1>2, <2>2
    <3> QED  BY <1>4, <1>5, <3>1
  <2> QED  BY <2>1, <2>2
<1> HIDE DEF n
<1>8. ASSUME NEW x, NEW y, x # k, Before(d, x, y)
      PROVE  Before(f, x, y)
  <2>1. PICK i \in 1 .. n, j \in 1 .. n : i < j /\ d[i].key = x /\ d[j].key = y
    BY <1>1, <1>8 DEF Before
  <2>2. i # p
    BY <1>2, <1>8, <2>1
  <2> DEFINE to(l) == IF l < p THEN l ELSE IF l = p THEN n ELSE l - 1
  <2>3. \A l \in 1 .. n : to(l) \in 1 .. n /\ f[to(l)] = d[l]
    BY <1>1, <1>2, <1>6, <1>7
  <2>4. to(i) < to(j)
    BY <1>1, <1>2, <2>1, <2>2
  <2> HIDE DEF to
  <2> QED  BY <1>6, <2>1, <2>3, <2>4 DEF Before
<1>9. Last(f).key = k
  BY <1>2, <1>6 DEF Last
<1> QED  BY <1>3, <1>8, <1>9

\* What stands before something else.
LEMMA BeforeProperties ==
  ASSUME NEW K, NEW V, NEW d \in Items(K, V), IsDict(d), NEW x, NEW y, Before(d, x, y)
  PROVE  /\ x \in Keys(d) /\ y \in Keys(d) /\ x # y
         /\ ~Before(d, y, x)
         /\ Last(d).key # x
<1>1. Len(d) \in Nat /\ DOMAIN d = 1 .. Len(d)
  BY ItemTypes
<1>2. PICK i \in DOMAIN d, j \in DOMAIN d : i < j /\ d[i].key = x /\ d[j].key = y
  BY DEF Before
<1>3. x # y
  BY <1>1, <1>2 DEF IsDict
<1>4. ~Before(d, y, x)
  <2> SUFFICES ASSUME NEW a \in DOMAIN d, NEW b \in DOMAIN d, a < b,
                      d[a].key = y, d[b].key = x
               PROVE  FALSE
    BY DEF Before
  <2>1. a = j /\ b = i
    BY <1>2 DEF IsDict
  <2> QED  BY <1>1, <1>2, <2>1
<1>5. Last(d).key # x
  <2>1. Len(d) \in DOMAIN d /\ Len(d) # i
    BY <1>1, <1>2
  <2>2. d[Len(d)].key # x
    BY <1>2, <2>1 DEF IsDict
  <2> QED  BY <2>2 DEF Last
<1> QED  BY <1>2, <1>3, <1>4, <1>5 DEF Keys

\* Of two keys one comes first.
LEMMA BeforeTotal ==
  ASSUME NEW K, NEW V, NEW d \in Items(K, V), NEW x \in Keys(d), NEW y \in Keys(d),
         x # y
  PROVE  Before(d, x, y) \/ Before(d, y, x)
<1>1. Len(d) \in Nat /\ DOMAIN d = 1 .. Len(d)
  BY ItemTypes
<1>2. PICK i \in DOMAIN d, j \in DOMAIN d : d[i].key = x /\ d[j].key = y
  BY DEF Keys
<1>3. i # j
  BY <1>2
<1>4. i < j \/ j < i
  BY <1>1, <1>3
<1> QED  BY <1>2, <1>4 DEF Before

\* What a second dictionary keeps of the order of the first can be read back from it.
LEMMA OrderReflected ==
  ASSUME NEW K, NEW V, NEW d \in Items(K, V), NEW e \in Items(K, V), IsDict(d), IsDict(e),
         NEW x \in Keys(d), NEW y \in Keys(d), Before(e, x, y),
         Before(d, y, x) => Before(e, y, x)
  PROVE  Before(d, x, y)
<1>1. x # y /\ ~Before(e, y, x)
  BY BeforeProperties
<1> QED  BY <1>1, BeforeTotal

\* A full dictionary drops its first key.
LEMMA EvictFirst ==
  ASSUME NEW K, NEW V, NEW d \in Items(K, V), NEW max \in Nat \ {0},
         IsDict(d), ~(Len(d) < max)
  PROVE  \E k \in Keys(d) : k \notin Keys(EvictWhileFull(d, max))
<1> DEFINE m == Len(d) - max + 2
           e == SubSeq(d, m, Len(d))
<1>1. Len(d) \in Nat /\ DOMAIN d = 1 .. Len(d)
  BY ItemTypes
<1>2. EvictWhileFull(d, max) = e
  BY DEF EvictWhileFull
<1>3. m \in Nat \ {0} /\ m >= 2 /\ 1 \in DOMAIN d
  BY <1>1
<1> HIDE DEF m
<1>4. /\ e \in Items(K, V)
      /\ Len(e) = IF m <= Len(d) THEN Len(d) - m + 1 ELSE 0
  BY <1>3, SuffixProperties
<1>5. \A j \in 1 .. Len(d) - m + 1 : e[j] = d[m + j - 1]
  <2>1. \A j \in m .. Len(d) : d[j] \in [key : K, val : V]
    BY <1>1, <1>3, ItemTypes
  <2>2. m \in Int /\ Len(d) \in Int
    BY <1>1, <1>3
  <2> QED  BY <2>1, <2>2, SubSeqProperties
<1> HIDE DEF e
<1>6. ASSUME NEW j \in DOMAIN e
      PROVE  e[j].key # d[1].key
  <2>1. DOMAIN e = 1 .. Len(e)
    BY <1>4, ItemTypes
  <2>2. j \in 1 .. Len(d) - m + 1 /\ m + j - 1 \in 1 .. Len(d) /\ m + j - 1 # 1
    BY <1>1, <1>3, <1>4, <2>1
  <2> QED  BY <1>1, <1>3, <1>5, <2>2 DEF IsDict
<1>7. d[1].key \in Keys(d) /\ d[1].key \notin Keys(e)
  BY <1>3, <1>6 DEF Keys
<1> QED  BY <1>2, <1>7

=============================================================================
