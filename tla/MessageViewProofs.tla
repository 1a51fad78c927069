--------------------------- MODULE MessageViewProofs --------------------------
(***************************************************************************)
(* The list of a channel has no hole, whatever the size of a page, the     *)
(* messages, deletions and connections lost.  The argument is MessageInv.  *)
(* Its first half is about the wire: the messages still to come are the    *)
(* end of the stream of ids, the commands are answered one at a time, and  *)
(* an answer on its way holds what the table held, less what is still to   *)
(* come behind it.  The second is about the list: what the pagination says *)
(* bounds it, and a page asked for starts at a cursor of the list, unless  *)
(* the list has been replaced since or is broken.                          *)
(***************************************************************************)
EXTENDS MessageView, SequenceTheorems, FiniteSetTheorems, TLAPS

-----------------------------------------------------------------------------
(* The messages of a channel                                               *)

(* The members of a finite set of numbers in order.                        *)
Below(S, m) == {x \in S : x < m}
RankIn(S) == [m \in S |-> Cardinality(Below(S, m)) + 1]

LEMMA RankRises ==
  ASSUME NEW S \in SUBSET Nat, IsFiniteSet(S), NEW m \in S, NEW n \in S, m < n
  PROVE  /\ Cardinality(Below(S, m)) \in Nat
         /\ Cardinality(Below(S, n)) \in Nat
         /\ Cardinality(Below(S, m)) < Cardinality(Below(S, n))
<1>1. Below(S, n) \in SUBSET S /\ Below(S, m) \in SUBSET S
  BY DEF Below
<1>2. IsFiniteSet(Below(S, n)) /\ IsFiniteSet(Below(S, m))
  BY <1>1, FS_Subset
<1>3. Cardinality(Below(S, n)) \in Nat /\ Cardinality(Below(S, m)) \in Nat
  BY <1>2, FS_CardinalityType
<1>4. Below(S, m) \in SUBSET Below(S, n) /\ m \in Below(S, n) /\ m \notin Below(S, m)
  <2>1. ASSUME NEW x \in S, x < m PROVE x < n
    <3>1. x \in Nat /\ m \in Nat /\ n \in Nat
      OBVIOUS
    <3> QED
      BY <3>1, <2>1
  <2>2. ~(m < m)
    <3>1. m \in Nat
      OBVIOUS
    <3> QED
      BY <3>1
  <2>3. Below(S, m) \subseteq Below(S, n)
    BY <2>1 DEF Below
  <2>4. m \in Below(S, n) /\ m \notin Below(S, m)
    BY <2>2 DEF Below
  <2> QED
    BY <2>3, <2>4
<1>5. Cardinality(Below(S, m)) <= Cardinality(Below(S, n))
      /\ (Cardinality(Below(S, n)) = Cardinality(Below(S, m)) => Below(S, n) = Below(S, m))
  BY ONLY <1>2, <1>4, FS_Subset
<1> QED
  BY <1>3, <1>4, <1>5

LEMMA RankIsBijective ==
  ASSUME NEW S \in SUBSET Nat, IsFiniteSet(S)
  PROVE  /\ Cardinality(S) \in Nat
         /\ RankIn(S) \in [S -> 1..Cardinality(S)]
         /\ \A m, n \in S : m < n => RankIn(S)[m] < RankIn(S)[n]
         /\ \A k \in 1..Cardinality(S) : \E m \in S : RankIn(S)[m] = k
<1> DEFINE c == Cardinality(S)
<1>1. c \in Nat
  BY FS_CardinalityType
<1>2. ASSUME NEW m \in S PROVE Cardinality(Below(S, m)) + 1 \in 1..c
  <2>1. Below(S, m) \in SUBSET S /\ m \notin Below(S, m)
    BY DEF Below
  <2>2. /\ Cardinality(Below(S, m)) <= c /\ (c = Cardinality(Below(S, m)) => S = Below(S, m))
        /\ IsFiniteSet(Below(S, m))
    BY <2>1, FS_Subset
  <2>3. Cardinality(Below(S, m)) \in Nat
    BY <2>2, FS_CardinalityType
  <2> QED
    BY <1>1, <2>1, <2>2, <2>3
<1>3. RankIn(S) \in [S -> 1..c]
  BY <1>2 DEF RankIn
<1>4. ASSUME NEW m \in S, NEW n \in S, m < n PROVE RankIn(S)[m] < RankIn(S)[n]
  <2>1. RankIn(S)[m] = Cardinality(Below(S, m)) + 1 /\ RankIn(S)[n] = Cardinality(Below(S, n)) + 1
    BY DEF RankIn
  <2> QED
    BY <2>1, <1>4, RankRises
<1>5. RankIn(S) \in Injection(S, 1..c)
  <2>1. ASSUME NEW m \in S, NEW n \in S, RankIn(S)[m] = RankIn(S)[n] PROVE m = n
    <3>1. ~(m < n) /\ ~(n < m)
      BY <2>1, <1>3, <1>4
    <3> QED
      BY <3>1
  <2> QED
    BY <1>3, <2>1 DEF Injection, IsInjective
<1>6. IsFiniteSet(1..c) /\ Cardinality(1..c) = c
  BY <1>1, FS_Interval
<1>7. RankIn(S) \in Surjection(S, 1..c)
  BY <1>5, <1>6, FS_Injection
<1> QED
  BY <1>1, <1>3, <1>4, <1>7 DEF Surjection

LEMMA IdsFacts ==
  ASSUME NEW S \in SUBSET Nat, IsFiniteSet(S)
  PROVE  /\ Ids(S) \in Seq(Nat) /\ Len(Ids(S)) = Cardinality(S) /\ Cardinality(S) \in Nat
         /\ Rising(Ids(S)) /\ ToSet(Ids(S)) = S
         /\ \A k \in 1..Cardinality(S) : Ids(S)[k] \in S
<1> DEFINE c == Cardinality(S)
           s == Ids(S)
<1>1. c \in Nat /\ RankIn(S) \in [S -> 1..c]
      /\ (\A m, n \in S : m < n => RankIn(S)[m] < RankIn(S)[n])
      /\ \A k \in 1..c : \E m \in S : RankIn(S)[m] = k
  BY RankIsBijective
<1>2. ASSUME NEW k \in 1..c PROVE s[k] \in S /\ RankIn(S)[s[k]] = k
  <2>1. PICK m \in S : RankIn(S)[m] = k
    BY <1>1
  <2>2. Cardinality({x \in S : x < m}) = k - 1
    <3>1. Cardinality({x \in S : x < m}) + 1 = k /\ Cardinality({x \in S : x < m}) \in Nat
      <4>1. {x \in S : x < m} = Below(S, m) /\ Below(S, m) \in SUBSET S
        BY DEF Below
      <4>2. IsFiniteSet(Below(S, m))
        BY <4>1, FS_Subset
      <4>3. Cardinality(Below(S, m)) \in Nat
        BY <4>2, FS_CardinalityType
      <4> QED
        BY <4>1, <4>3, <2>1 DEF RankIn
    <3> QED
      BY <3>1
  <2>3. s[k] = CHOOSE x \in S : Cardinality({y \in S : y < x}) = k - 1
    BY DEF Ids
  <2>4. s[k] \in S /\ Cardinality({y \in S : y < s[k]}) = k - 1
    BY <2>2, <2>3
  <2>5. RankIn(S)[s[k]] = k - 1 + 1
    BY <2>4 DEF RankIn, Below
  <2> QED
    BY <2>4, <2>5
<1>3. s \in [1..c -> S]
  BY <1>2 DEF Ids
<1>4. s \in Seq(S) /\ Len(s) = c
  BY <1>1, <1>3, LenProperties
<1>5. s \in Seq(Nat)
  <2>1. s \in [1..c -> Nat]
    BY <1>3
  <2> QED
    BY <1>1, <2>1, SeqDef
<1>6. Rising(s)
  <2>1. ASSUME NEW i \in 1..c, NEW j \in 1..c, i < j PROVE s[i] < s[j]
    <3>1. s[i] \in S /\ s[j] \in S /\ RankIn(S)[s[i]] = i /\ RankIn(S)[s[j]] = j
      BY <1>2
    <3> DEFINE a == s[i]
               b == s[j]
    <3> HIDE DEF s, a, b
    <3>2. a \in S /\ b \in S /\ RankIn(S)[a] = i /\ RankIn(S)[b] = j
      BY <3>1 DEF a, b
    <3>3. b < a => RankIn(S)[b] < RankIn(S)[a]
      BY <1>1, <3>2
    <3>4. i \in Int /\ j \in Int
      BY <1>1
    <3>5. ~(j < i) /\ i # j
      BY <2>1, <3>4
    <3>6. ~(b < a) /\ a # b
      BY <3>2, <3>3, <3>5
    <3>7. a \in Nat /\ b \in Nat
      BY <3>2
    <3>8. a < b
      BY <3>6, <3>7
    <3> QED
      BY <3>8 DEF a, b
  <2> QED
    BY <1>4, <2>1 DEF Rising
<1>7. ToSet(s) = S
  <2>1. ASSUME NEW m \in S PROVE \E k \in 1..c : s[k] = m
    <3>1. RankIn(S)[m] \in 1..c
      BY <1>1
    <3>2. s[RankIn(S)[m]] \in S /\ RankIn(S)[s[RankIn(S)[m]]] = RankIn(S)[m]
      BY <1>2, <3>1
    <3> DEFINE k == RankIn(S)[m]
               a == s[k]
    <3> HIDE DEF s, k, a
    <3>3. a \in S /\ RankIn(S)[a] = k /\ k \in 1..c /\ RankIn(S)[m] = k
      BY <3>1, <3>2 DEF a, k
    <3>4. (a < m => k < k) /\ (m < a => k < k)
      BY <1>1, <3>3
    <3>5. ~(k < k)
      BY <3>3, <1>1
    <3>6. a \in Nat /\ m \in Nat
      BY <3>3
    <3>7. a = m
      BY <3>4, <3>5, <3>6
    <3> QED
      BY <3>7, <3>3 DEF a
  <2>2. \A k \in 1..c : s[k] \in S
    BY <1>3
  <2>3. DOMAIN s = 1..c /\ ToSet(s) = {s[k] : k \in DOMAIN s}
    BY <1>3 DEF ToSet
  <2> HIDE DEF s
  <2>4. ToSet(s) = {s[k] : k \in 1..c}
    BY ONLY <2>3
  <2>5. \A m \in S : \E k \in 1..c : s[k] = m
    BY ONLY <2>1
  <2> QED
    BY ONLY <2>2, <2>4, <2>5
<1> QED
  BY <1>1, <1>2, <1>4, <1>5, <1>6, <1>7

(* The first and the last of the ids of a set.                             *)
LEMMA EndsOfIds ==
  ASSUME NEW S \in SUBSET Nat, IsFiniteSet(S), S # {}
  PROVE  /\ Head(Ids(S)) \in S /\ \A m \in S : Head(Ids(S)) <= m
         /\ Last(Ids(S)) \in S /\ \A m \in S : m <= Last(Ids(S))
<1> DEFINE s == Ids(S)
<1>1. s \in Seq(Nat) /\ Rising(s) /\ ToSet(s) = S /\ Len(s) \in Nat
  BY IdsFacts
<1> HIDE DEF s
<1>2. Len(s) # 0
  BY <1>1 DEF ToSet
<1>3. Head(s) = s[1] /\ Last(s) = s[Len(s)] /\ 1 \in 1..Len(s) /\ Len(s) \in 1..Len(s)
  BY <1>1, <1>2 DEF Last
<1>4. s[1] \in S /\ s[Len(s)] \in S
  BY <1>1, <1>3 DEF ToSet
<1>5. ASSUME NEW m \in S PROVE s[1] <= m /\ m <= s[Len(s)]
  <2>1. PICK i \in 1..Len(s) : s[i] = m
    BY <1>1 DEF ToSet
  <2>2. i \in Int /\ Len(s) \in Int /\ (1 < i \/ i = 1) /\ (i < Len(s) \/ i = Len(s))
    BY <1>1
  <2>3. (1 < i => s[1] < m) /\ (i < Len(s) => m < s[Len(s)])
    BY <2>1, <1>1, <1>3 DEF Rising
  <2>4. s[1] \in Nat /\ m \in Nat /\ s[Len(s)] \in Nat
    BY <1>4
  <2>5. s[1] < m \/ s[1] = m
    BY <2>1, <2>2, <2>3
  <2>6. m < s[Len(s)] \/ m = s[Len(s)]
    BY <2>1, <2>2, <2>3
  <2> QED
    BY <2>4, <2>5, <2>6
<1> QED
  BY <1>3, <1>4, <1>5 DEF s

(* The last PageSize members of a set lie above the others.                *)
LEMMA NewestFacts ==
  ASSUME NEW S \in SUBSET Nat, IsFiniteSet(S)
  PROVE  /\ Newest(S) \in SUBSET S /\ IsFiniteSet(Newest(S)) /\ Cardinality(S) \in Nat
         /\ \A m \in S \ Newest(S), n \in Newest(S) : m < n
         /\ Cardinality(S) > PageSize => Newest(S) # {}
         /\ ~(Cardinality(S) > PageSize) => Newest(S) = S
<1> DEFINE Above(m) == {x \in S : x > m}
<1>1. Newest(S) \in SUBSET S
  BY DEF Newest
<1>2. ASSUME NEW m \in S
      PROVE  /\ Above(m) \in SUBSET S /\ m \notin Above(m) /\ IsFiniteSet(Above(m))
             /\ Cardinality(Above(m)) \in Nat /\ Cardinality(Above(m)) < Cardinality(S)
  <2>1. Above(m) \in SUBSET S /\ m \notin Above(m)
    OBVIOUS
  <2>2. IsFiniteSet(Above(m)) /\ Cardinality(Above(m)) <= Cardinality(S)
        /\ (Cardinality(S) = Cardinality(Above(m)) => S = Above(m))
    BY <2>1, FS_Subset
  <2>3. Cardinality(Above(m)) \in Nat /\ Cardinality(S) \in Nat
    BY <2>2, FS_CardinalityType
  <2> QED
    BY <2>1, <2>2, <2>3
<1>3. Cardinality(S) \in Nat
  BY FS_CardinalityType
<1>4. ASSUME NEW m \in S, NEW n \in S, n < m
      PROVE  Cardinality(Above(m)) < Cardinality(Above(n))
  <2>1. ASSUME NEW x \in S, x > m PROVE x > n
    <3>1. x \in Nat /\ m \in Nat /\ n \in Nat
      OBVIOUS
    <3> QED
      BY <3>1, <2>1, <1>4
  <2>2. Above(m) \in SUBSET Above(n)
    BY <2>1
  <2>3. m \in Above(n) /\ m \notin Above(m)
    <3>1. m \in Nat /\ n \in Nat
      OBVIOUS
    <3>2. m > n /\ ~(m > m)
      BY <3>1, <1>4
    <3> QED
      BY <3>2
  <2>4. IsFiniteSet(Above(n)) /\ Cardinality(Above(n)) \in Nat /\ Cardinality(Above(m)) \in Nat
    BY <1>2
  <2> HIDE DEF Above
  <2>5. Cardinality(Above(m)) <= Cardinality(Above(n))
        /\ (Cardinality(Above(n)) = Cardinality(Above(m)) => Above(n) = Above(m))
    BY <2>2, <2>4, FS_Subset
  <2> QED
    BY <2>3, <2>4, <2>5
<1>5. \A m \in S : m \in Newest(S) <=> Cardinality(Above(m)) < PageSize
  BY DEF Newest
<1>6. ASSUME NEW m \in S \ Newest(S), NEW n \in Newest(S) PROVE m < n
  <2>1. m \in S /\ n \in S /\ m # n /\ ~(Cardinality(Above(m)) < PageSize)
        /\ Cardinality(Above(n)) < PageSize
    BY <1>1, <1>5
  <2>2. Cardinality(Above(m)) \in Nat /\ Cardinality(Above(n)) \in Nat /\ PageSize \in Nat
    BY <2>1, <1>2, MessageAssumption
  <2>3. n < m => Cardinality(Above(m)) < Cardinality(Above(n))
    BY <1>4, <2>1
  <2> HIDE DEF Above
  <2>4. ~(n < m)
    BY <2>1, <2>2, <2>3
  <2>5. m \in Nat /\ n \in Nat
    BY <2>1
  <2> QED
    BY <2>1, <2>4, <2>5
<1>7. ASSUME Cardinality(S) > PageSize PROVE Newest(S) # {}
  <2>1. S # {}
    BY <1>7, FS_EmptySet, MessageAssumption
  <2>2. PICK m \in S : \A x \in S : x <= m
    BY <2>1, EndsOfIds
  <2>3. ASSUME NEW x \in S PROVE ~(x > m)
    <3>1. x \in Nat /\ m \in Nat /\ x <= m
      BY <2>2
    <3> QED
      BY <3>1
  <2>4. Above(m) = {}
    BY <2>3
  <2>5. Cardinality(Above(m)) < PageSize
    BY <2>4, FS_EmptySet, MessageAssumption
  <2> QED
    BY <2>5, <1>5
<1>8. ASSUME ~(Cardinality(S) > PageSize) PROVE Newest(S) = S
  <2>1. ASSUME NEW m \in S PROVE Cardinality(Above(m)) < PageSize
    <3>1. Cardinality(Above(m)) \in Nat /\ Cardinality(Above(m)) < Cardinality(S)
      BY <1>2
    <3> HIDE DEF Above
    <3> QED
      BY <3>1, <1>8, <1>3, MessageAssumption
  <2> QED
    BY <2>1, <1>5, <1>1
<1> QED
  BY <1>1, <1>3, <1>6, <1>7, <1>8, FS_Subset

(* ... and the first below them.                                           *)
LEMMA OldestFacts ==
  ASSUME NEW S \in SUBSET Nat, IsFiniteSet(S)
  PROVE  /\ Oldest(S) \in SUBSET S /\ IsFiniteSet(Oldest(S)) /\ Cardinality(S) \in Nat
         /\ \A m \in S \ Oldest(S), n \in Oldest(S) : n < m
         /\ Cardinality(S) > PageSize => Oldest(S) # {}
         /\ Cardinality(S) > PageSize => \A n \in Oldest(S) : \E m \in S : n < m
         /\ ~(Cardinality(S) > PageSize) => Oldest(S) = S
<1>1. Oldest(S) \in SUBSET S
  BY DEF Oldest
<1>2. ASSUME NEW m \in S
      PROVE  /\ Below(S, m) \in SUBSET S /\ m \notin Below(S, m) /\ IsFiniteSet(Below(S, m))
             /\ Cardinality(Below(S, m)) \in Nat /\ Cardinality(Below(S, m)) < Cardinality(S)
  <2>1. Below(S, m) \in SUBSET S /\ m \notin Below(S, m)
    BY DEF Below
  <2>2. IsFiniteSet(Below(S, m)) /\ Cardinality(Below(S, m)) <= Cardinality(S)
        /\ (Cardinality(S) = Cardinality(Below(S, m)) => S = Below(S, m))
    BY <2>1, FS_Subset
  <2>3. Cardinality(Below(S, m)) \in Nat /\ Cardinality(S) \in Nat
    BY <2>2, FS_CardinalityType
  <2> QED
    BY <2>1, <2>2, <2>3
<1>3. Cardinality(S) \in Nat
  BY FS_CardinalityType
<1>5. \A m \in S : m \in Oldest(S) <=> Cardinality(Below(S, m)) < PageSize
  BY DEF Oldest, Below
<1>6. ASSUME NEW m \in S \ Oldest(S), NEW n \in Oldest(S) PROVE n < m
  <2>1. m \in S /\ n \in S /\ m # n /\ ~(Cardinality(Below(S, m)) < PageSize)
        /\ Cardinality(Below(S, n)) < PageSize
    BY <1>1, <1>5
  <2>2. Cardinality(Below(S, m)) \in Nat /\ Cardinality(Below(S, n)) \in Nat /\ PageSize \in Nat
    BY <2>1, <1>2, MessageAssumption
  <2>3. m < n => Cardinality(Below(S, m)) < Cardinality(Below(S, n))
    BY <2>1, RankRises
  <2>4. ~(m < n)
    BY <2>1, <2>2, <2>3
  <2>5. m \in Nat /\ n \in Nat
    BY <2>1
  <2> QED
    BY <2>1, <2>4, <2>5
<1>7. ASSUME Cardinality(S) > PageSize PROVE Oldest(S) # {}
  <2>1. S # {}
    BY <1>7, FS_EmptySet, MessageAssumption
  <2>2. PICK m \in S : \A x \in S : m <= x
    BY <2>1, EndsOfIds
  <2>3. ASSUME NEW x \in S PROVE ~(x < m)
    <3>1. x \in Nat /\ m \in Nat /\ m <= x
      BY <2>2
    <3> QED
      BY <3>1
  <2>4. Below(S, m) = {}
    BY <2>3 DEF Below
  <2>5. Cardinality(Below(S, m)) < PageSize
    BY <2>4, FS_EmptySet, MessageAssumption
  <2> QED
    BY <2>5, <1>5
<1>8. ASSUME ~(Cardinality(S) > PageSize) PROVE Oldest(S) = S
  <2>1. ASSUME NEW m \in S PROVE Cardinality(Below(S, m)) < PageSize
    <3>1. Cardinality(Below(S, m)) \in Nat /\ Cardinality(Below(S, m)) < Cardinality(S)
      BY <1>2
    <3> QED
      BY <3>1, <1>8, <1>3, MessageAssumption
  <2> QED
    BY <2>1, <1>5, <1>1
<1>9. ASSUME Cardinality(S) > PageSize, NEW n \in Oldest(S) PROVE \E m \in S : n < m
  <2>1. SUFFICES ASSUME \A m \in S : ~(n < m) PROVE FALSE
    OBVIOUS
  <2>2. n \in S /\ Cardinality(Below(S, n)) < PageSize
    BY <1>1, <1>5
  <2>3. ASSUME NEW x \in S, x # n PROVE x < n
    <3>1. x \in Nat /\ n \in Nat /\ ~(n < x)
      BY <2>1, <2>2
    <3> QED
      BY <3>1, <2>3
  <2>4. n \notin Below(S, n)
    BY <1>2, <2>2
  <2>5. Below(S, n) = S \ {n}
    BY <2>3, <2>4 DEF Below
  <2>6. Cardinality(S \ {n}) = Cardinality(S) - 1
    BY <2>2, FS_RemoveElement
  <2> QED
    BY <2>2, <2>5, <2>6, <1>9, <1>3, MessageAssumption
<1> QED
  BY <1>1, <1>3, <1>6, <1>7, <1>8, <1>9, FS_Subset

(* A page that ends with the last of S, and its cursor.                    *)
LEMMA PageBack ==
  ASSUME NEW S \in SUBSET Nat, IsFiniteSet(S), NEW ids, ids = Ids(Newest(S)),
         NEW more, more = (Cardinality(S) > PageSize)
  PROVE  /\ ids \in Seq(Nat) /\ Rising(ids) /\ ToSet(ids) \in SUBSET S /\ more \in BOOLEAN
         /\ more => /\ Head(ids) \in ToSet(ids) /\ Head(ids) \in Nat
                    /\ \A m \in ToSet(ids) : Head(ids) <= m
         /\ \A m \in S : (more => Head(ids) <= m) => m \in ToSet(ids)
<1>1. /\ Newest(S) \in SUBSET S /\ IsFiniteSet(Newest(S)) /\ Newest(S) \in SUBSET Nat
      /\ \A m \in S \ Newest(S), n \in Newest(S) : m < n
      /\ more => Newest(S) # {}
      /\ ~more => Newest(S) = S
  BY NewestFacts
<1>2. ids \in Seq(Nat) /\ Rising(ids) /\ ToSet(ids) = Newest(S)
  BY <1>1, IdsFacts
<1>3. more => Head(ids) \in Newest(S) /\ \A m \in Newest(S) : Head(ids) <= m
  BY <1>1, EndsOfIds
<1>4. ASSUME NEW m \in S, more => Head(ids) <= m PROVE m \in Newest(S)
  <2>1. CASE ~more
    BY <2>1, <1>1
  <2>2. CASE more /\ m \notin Newest(S)
    <3>1. m < Head(ids) /\ Head(ids) <= m
      BY <2>2, <1>1, <1>3, <1>4
    <3>2. m \in Nat /\ Head(ids) \in Nat
      BY <2>2, <1>1, <1>3
    <3> QED
      BY <3>1, <3>2
  <2> QED
    BY <2>1, <2>2
<1> QED
  BY <1>1, <1>2, <1>3, <1>4

(* A page that begins with the first of S, and its cursor.                 *)
LEMMA PageOn ==
  ASSUME NEW S \in SUBSET Nat, IsFiniteSet(S), NEW ids, ids = Ids(Oldest(S)),
         NEW more, more = (Cardinality(S) > PageSize)
  PROVE  /\ ids \in Seq(Nat) /\ Rising(ids) /\ ToSet(ids) \in SUBSET S /\ more \in BOOLEAN
         /\ more => /\ Last(ids) \in ToSet(ids) /\ Last(ids) \in Nat
                    /\ \A m \in ToSet(ids) : m <= Last(ids)
                    /\ \E m \in S : Last(ids) < m
         /\ \A m \in S : (more => m <= Last(ids)) => m \in ToSet(ids)
<1>1. /\ Oldest(S) \in SUBSET S /\ IsFiniteSet(Oldest(S)) /\ Oldest(S) \in SUBSET Nat
      /\ \A m \in S \ Oldest(S), n \in Oldest(S) : n < m
      /\ more => Oldest(S) # {} /\ \A n \in Oldest(S) : \E m \in S : n < m
      /\ ~more => Oldest(S) = S
  BY OldestFacts
<1>2. ids \in Seq(Nat) /\ Rising(ids) /\ ToSet(ids) = Oldest(S)
  BY <1>1, IdsFacts
<1>3. more => Last(ids) \in Oldest(S) /\ \A m \in Oldest(S) : m <= Last(ids)
  BY <1>1, EndsOfIds
<1>4. ASSUME NEW m \in S, more => m <= Last(ids) PROVE m \in Oldest(S)
  <2>1. CASE ~more
    BY <2>1, <1>1
  <2>2. CASE more /\ m \notin Oldest(S)
    <3>1. Last(ids) < m /\ m <= Last(ids)
      BY <2>2, <1>1, <1>3, <1>4
    <3>2. m \in Nat /\ Last(ids) \in Nat
      BY <2>2, <1>1, <1>3
    <3> QED
      BY <3>1, <3>2
  <2> QED
    BY <2>1, <2>2
<1> QED
  BY <1>1, <1>2, <1>3, <1>4

(* The members of a sequence after another.                                *)
LEMMA JoinedMembers ==
  ASSUME NEW s \in Seq(Nat), NEW t \in Seq(Nat)
  PROVE  s \o t \in Seq(Nat) /\ ToSet(s \o t) = ToSet(s) \union ToSet(t)
<1>1. /\ s \o t \in Seq(Nat) /\ Len(s \o t) = Len(s) + Len(t)
      /\ Len(s) \in Nat /\ Len(t) \in Nat
      /\ \A i \in 1..Len(s \o t) : (s \o t)[i] = IF i <= Len(s) THEN s[i] ELSE t[i - Len(s)]
  BY ConcatProperties, LenProperties
<1> DEFINE r == s \o t
           a == Len(s)
           b == Len(t)
<1>2. /\ a \in Nat /\ b \in Nat /\ Len(r) = a + b
      /\ \A i \in 1..a : i \in 1..Len(r) /\ r[i] = s[i] /\ r[i] \in ToSet(s)
      /\ \A i \in 1..b : (a + i) \in 1..Len(r) /\ r[a + i] = t[i] /\ r[a + i] \in ToSet(t)
  <2>1. ASSUME NEW i \in 1..a PROVE i \in 1..Len(r) /\ r[i] = s[i] /\ r[i] \in ToSet(s)
    <3>1. i \in 1..Len(r) /\ i <= a
      BY <1>1
    <3> QED
      BY <3>1, <1>1 DEF ToSet
  <2>2. ASSUME NEW i \in 1..b PROVE (a + i) \in 1..Len(r) /\ r[a + i] = t[i] /\ r[a + i] \in ToSet(t)
    <3>1. (a + i) \in 1..Len(r) /\ ~(a + i <= a) /\ (a + i) - a = i
      BY <1>1
    <3>2. r[a + i] = t[i]
      BY <3>1, <1>1
    <3> QED
      BY <3>1, <3>2 DEF ToSet
  <2> QED
    BY <1>1, <2>1, <2>2
<1>3. ASSUME NEW i \in 1..Len(r) PROVE i \in 1..a \/ ((i - a) \in 1..b /\ i = a + (i - a))
  BY <1>2
<1>4. r \in Seq(Nat)
  BY <1>1
<1> HIDE DEF r
<1>5. ToSet(r) = ToSet(s) \union ToSet(t)
  <2>1. ASSUME NEW m \in ToSet(r) PROVE m \in ToSet(s) \union ToSet(t)
    <3>1. PICK i \in 1..Len(r) : m = r[i]
      BY <1>4 DEF ToSet
    <3>2. CASE i \in 1..a
      BY <3>1, <3>2, <1>2
    <3>3. CASE i \notin 1..a
      <4> DEFINE k == i - a
      <4>1. k \in 1..b /\ i = a + k
        BY <3>3, <1>3
      <4> HIDE DEF k
      <4> QED
        BY <4>1, <3>1, <1>2
    <3> QED
      BY <3>2, <3>3
  <2>2. ASSUME NEW m \in ToSet(s) PROVE m \in ToSet(r)
    <3>1. PICK i \in 1..a : m = s[i]
      BY DEF ToSet
    <3>2. i \in 1..Len(r) /\ r[i] = m
      BY <3>1, <1>2
    <3> QED
      BY <3>2, <1>4 DEF ToSet
  <2>3. ASSUME NEW m \in ToSet(t) PROVE m \in ToSet(r)
    <3>1. PICK i \in 1..b : m = t[i]
      BY DEF ToSet
    <3>2. (a + i) \in 1..Len(r) /\ r[a + i] = m
      BY <3>1, <1>2
    <3> QED
      BY <3>2, <1>4 DEF ToSet
  <2> QED
    BY <2>1, <2>2, <2>3
<1> QED
  BY <1>4, <1>5 DEF r

(* A sequence after another, all of whose members are smaller.             *)
LEMMA RisingOn ==
  ASSUME NEW s \in Seq(Nat), NEW t \in Seq(Nat), Rising(s), Rising(t),
         \A m \in ToSet(s), n \in ToSet(t) : m < n
  PROVE  s \o t \in Seq(Nat) /\ Rising(s \o t) /\ ToSet(s \o t) = ToSet(s) \union ToSet(t)
<1>1. /\ s \o t \in Seq(Nat) /\ Len(s \o t) = Len(s) + Len(t)
      /\ Len(s) \in Nat /\ Len(t) \in Nat
      /\ \A i \in 1..Len(s \o t) : (s \o t)[i] = IF i <= Len(s) THEN s[i] ELSE t[i - Len(s)]
  BY ConcatProperties, LenProperties
<1> DEFINE r == s \o t
           a == Len(s)
           b == Len(t)
<1>2. /\ a \in Nat /\ b \in Nat /\ Len(r) = a + b
      /\ \A i \in 1..a : i \in 1..Len(r) /\ r[i] = s[i] /\ r[i] \in ToSet(s)
      /\ \A i \in 1..b : (a + i) \in 1..Len(r) /\ r[a + i] = t[i] /\ r[a + i] \in ToSet(t)
  <2>1. ASSUME NEW i \in 1..a PROVE i \in 1..Len(r) /\ r[i] = s[i] /\ r[i] \in ToSet(s)
    <3>1. i \in 1..Len(r) /\ i <= a
      BY <1>1
    <3> QED
      BY <3>1, <1>1 DEF ToSet
  <2>2. ASSUME NEW i \in 1..b PROVE (a + i) \in 1..Len(r) /\ r[a + i] = t[i] /\ r[a + i] \in ToSet(t)
    <3>1. (a + i) \in 1..Len(r) /\ ~(a + i <= a) /\ (a + i) - a = i
      BY <1>1
    <3>2. r[a + i] = t[i]
      BY <3>1, <1>1
    <3> QED
      BY <3>1, <3>2 DEF ToSet
  <2> QED
    BY <1>1, <2>1, <2>2
<1>3. ASSUME NEW i \in 1..Len(r) PROVE i \in 1..a \/ ((i - a) \in 1..b /\ i = a + (i - a))
  BY <1>2
<1>4. r \in Seq(Nat)
  BY <1>1
<1> HIDE DEF r
<1>5. ASSUME NEW i \in 1..Len(r), NEW j \in 1..Len(r), i < j PROVE r[i] < r[j]
  <2>1. CASE i \in 1..a /\ j \in 1..a
    <3>1. s[i] < s[j]
      BY <2>1, <1>5 DEF Rising
    <3> QED
      BY <3>1, <2>1, <1>2
  <2>2. CASE i \in 1..a /\ j \notin 1..a
    <3> DEFINE k == j - a
    <3>1. k \in 1..b /\ j = a + k
      BY <2>2, <1>3
    <3> HIDE DEF k
    <3>2. r[i] \in ToSet(s) /\ r[j] \in ToSet(t)
      BY <3>1, <2>2, <1>2
    <3> QED
      BY <3>2
  <2>3. CASE i \notin 1..a
    <3> DEFINE h == i - a
               k == j - a
    <3>1. h \in 1..b /\ i = a + h
      BY <2>3, <1>3
    <3>2. j \notin 1..a
      BY <3>1, <1>5, <1>2
    <3>3. k \in 1..b /\ j = a + k
      BY <3>2, <1>3
    <3> HIDE DEF h, k
    <3>4. h < k
      BY <3>1, <3>3, <1>5, <1>2
    <3>5. t[h] < t[k]
      BY <3>4, <3>1, <3>3 DEF Rising
    <3> QED
      BY <3>1, <3>3, <3>5, <1>2
  <2> QED
    BY <2>1, <2>2, <2>3
<1> QED
  BY <1>4, <1>5, JoinedMembers DEF r, Rising

(* A page of GetMessages is what the one who asked for it takes it for.    *)
LEMMA PageIsRight ==
  ASSUME NEW last \in Nat, saved \in SUBSET (1..last), NEW ask \in Command,
         ask.op \in {"first", "tail", "reload", "older"},
         ask.op = "older" <=> ask.arg # 0
  PROVE  /\ GetMessages(ask.arg) \in Answer
         /\ AnswerRight(GetMessages(ask.arg), ask, {}, saved, last)
<1> DEFINE older == {m \in saved : ask.arg = 0 \/ m < ask.arg}
           ids == Ids(Newest(older))
           more == Cardinality(older) > PageSize
           a == GetMessages(ask.arg)
<1>1. older \in SUBSET saved /\ older \in SUBSET Nat /\ IsFiniteSet(older)
  <2>1. IsFiniteSet(1..last)
    BY FS_Interval
  <2>2. older \in SUBSET (1..last)
    OBVIOUS
  <2> QED
    BY <2>1, <2>2, FS_Subset
<1>2. a = [ids |-> ids, cursor |-> IF more THEN Head(ids) ELSE 0, hasMore |-> more,
           newer |-> 0, hasMoreNewer |-> FALSE]
  BY DEF GetMessages
<1>3. \A m \in older : ask.op = "older" => m < ask.arg
  OBVIOUS
<1>4. \A m \in saved : (ask.op = "older" => m < ask.arg) => m \in older
  OBVIOUS
<1> HIDE DEF older
<1>5. /\ ids \in Seq(Nat) /\ Rising(ids) /\ ToSet(ids) \in SUBSET older /\ more \in BOOLEAN
      /\ more => /\ Head(ids) \in ToSet(ids) /\ Head(ids) \in Nat
                 /\ \A m \in ToSet(ids) : Head(ids) <= m
      /\ \A m \in older : (more => Head(ids) <= m) => m \in ToSet(ids)
  BY <1>1, PageBack
<1> HIDE DEF ids, more
<1>6. /\ a.ids = ids /\ a.hasMore = more /\ a.newer = 0 /\ a.hasMoreNewer = FALSE
      /\ more => a.cursor = Head(ids)
      /\ ~more => a.cursor = 0
  BY <1>2
<1>7. a \in Answer
  <2>1. (IF more THEN Head(ids) ELSE 0) \in Nat
    BY <1>5
  <2> QED
    BY <1>2, <1>5, <2>1 DEF Answer
<1> HIDE DEF a
<1>8. Spanned(a, ask, {}, saved) \subseteq ToSet(ids)
  <2>1. ASSUME NEW m \in saved, a.hasMore => a.cursor <= m, ask.op = "older" => m < ask.arg
        PROVE  m \in ToSet(ids)
    BY <2>1, <1>4, <1>5, <1>6
  <2> QED
    BY <2>1 DEF Spanned
<1>9. AnswerRight(a, ask, {}, saved, last)
  <2>1. ToSet(a.ids) \subseteq 1..last
    BY <1>1, <1>5, <1>6
  <2>2. a.hasMore => a.cursor \in ToSet(a.ids) /\ \A m \in ToSet(a.ids) : a.cursor <= m
    BY <1>5, <1>6
  <2>3. ask.op = "older" => \A m \in ToSet(a.ids) : m < ask.arg
    BY <1>3, <1>5, <1>6
  <2> QED
    BY <1>5, <1>6, <1>8, <2>1, <2>2, <2>3 DEF AnswerRight
<1> QED
  BY <1>7, <1>9 DEF a

(* So is a page of GetMessagesAfter ...                                    *)
LEMMA NewerPageIsRight ==
  ASSUME NEW last \in Nat, saved \in SUBSET (1..last), NEW ask \in Command,
         ask.op = "after", NEW behind \in SUBSET {last}
  PROVE  /\ GetMessagesAfter(ask.arg) \in Answer
         /\ AnswerRight(GetMessagesAfter(ask.arg), ask, behind, saved, last)
<1> DEFINE newer == {m \in saved : m > ask.arg}
           ids == Ids(Oldest(newer))
           more == Cardinality(newer) > PageSize
           a == GetMessagesAfter(ask.arg)
<1>1. newer \in SUBSET saved /\ newer \in SUBSET Nat /\ IsFiniteSet(newer)
  <2>1. IsFiniteSet(1..last)
    BY FS_Interval
  <2>2. newer \in SUBSET (1..last)
    OBVIOUS
  <2> QED
    BY <2>1, <2>2, FS_Subset
<1>2. a = [ids |-> ids, cursor |-> 0, hasMore |-> FALSE,
           newer |-> IF more THEN Last(ids) ELSE 0, hasMoreNewer |-> more]
  BY DEF GetMessagesAfter
<1>3. \A m \in saved : m \in newer <=> ask.arg < m
  <2>1. \A m \in saved : m > ask.arg <=> ask.arg < m
    OBVIOUS
  <2> QED
    BY <2>1
<1> HIDE DEF newer
<1>5. /\ ids \in Seq(Nat) /\ Rising(ids) /\ ToSet(ids) \in SUBSET newer /\ more \in BOOLEAN
      /\ more => /\ Last(ids) \in ToSet(ids) /\ Last(ids) \in Nat
                 /\ \A m \in ToSet(ids) : m <= Last(ids)
                 /\ \E m \in newer : Last(ids) < m
      /\ \A m \in newer : (more => m <= Last(ids)) => m \in ToSet(ids)
  BY <1>1, PageOn
<1> HIDE DEF ids, more
<1>6. /\ a.ids = ids /\ a.hasMore = FALSE /\ a.hasMoreNewer = more
      /\ more => a.newer = Last(ids)
      /\ ~more => a.newer = 0
  BY <1>2
<1>7. a \in Answer
  <2>1. (IF more THEN Last(ids) ELSE 0) \in Nat
    BY <1>5
  <2> QED
    BY <1>2, <1>5, <2>1 DEF Answer
<1> HIDE DEF a
<1>8. Spanned(a, ask, behind, saved) \subseteq ToSet(ids)
  <2>1. ASSUME NEW m \in saved, a.hasMoreNewer => m <= a.newer, ask.arg < m
        PROVE  m \in ToSet(ids)
    BY <2>1, <1>3, <1>5, <1>6
  <2> QED
    BY <2>1 DEF Spanned
<1>9. AnswerRight(a, ask, behind, saved, last)
  <2>1. ToSet(a.ids) \subseteq 1..last
    BY <1>1, <1>5, <1>6
  <2>2. a.hasMoreNewer => a.newer \in ToSet(a.ids) /\ \A m \in ToSet(a.ids) : m <= a.newer
    BY <1>5, <1>6
  <2>3. \A m \in ToSet(a.ids) : ask.arg < m
    BY <1>1, <1>3, <1>5, <1>6
  <2>4. ASSUME a.hasMoreNewer PROVE a.newer < last
    <3>1. PICK m \in newer : a.newer < m
      BY <2>4, <1>5, <1>6
    <3>2. m \in 1..last
      BY <1>1
    <3>3. a.newer \in Nat
      BY <2>4, <1>5, <1>6
    <3> QED
      BY <3>1, <3>2, <3>3
  <2>5. a.hasMoreNewer => \A m \in behind : a.newer < m
    BY <2>4
  <2> QED
    BY <1>5, <1>6, <1>8, <2>1, <2>2, <2>3, <2>5 DEF AnswerRight
<1> QED
  BY <1>7, <1>9 DEF a

(* ... and a window of GetMessagesAround.                                  *)
LEMMA WindowIsRight ==
  ASSUME NEW last \in Nat, saved \in SUBSET (1..last), NEW ask \in Command,
         ask.op = "around", NEW behind \in SUBSET {last}
  PROVE  /\ GetMessagesAround(ask.arg) \in Answer
         /\ AnswerRight(GetMessagesAround(ask.arg), ask, behind, saved, last)
<1> DEFINE upTo == {m \in saved : m <= ask.arg}
           after == {m \in saved : m > ask.arg}
           old == Ids(Newest(upTo))
           new == Ids(Oldest(after))
           more == Cardinality(upTo) > PageSize
           moreNew == Cardinality(after) > PageSize
           a == GetMessagesAround(ask.arg)
<1>1. /\ upTo \in SUBSET saved /\ upTo \in SUBSET Nat /\ IsFiniteSet(upTo)
      /\ after \in SUBSET saved /\ after \in SUBSET Nat /\ IsFiniteSet(after)
  <2>1. IsFiniteSet(1..last)
    BY FS_Interval
  <2>2. upTo \in SUBSET (1..last) /\ after \in SUBSET (1..last)
    OBVIOUS
  <2> QED
    BY <2>1, <2>2, FS_Subset
<1>2. a = [ids |-> old \o new, hasMore |-> more, cursor |-> IF more THEN Head(old) ELSE 0,
           hasMoreNewer |-> moreNew, newer |-> IF moreNew THEN Last(new) ELSE 0]
  BY DEF GetMessagesAround
<1>3. \A m \in saved : (m \in after <=> ask.arg < m) /\ (m \in upTo <=> m <= ask.arg)
  <2>1. \A m \in saved : m > ask.arg <=> ask.arg < m
    OBVIOUS
  <2> QED
    BY <2>1
<1> HIDE DEF upTo, after
<1>4. /\ old \in Seq(Nat) /\ Rising(old) /\ ToSet(old) \in SUBSET upTo /\ more \in BOOLEAN
      /\ more => /\ Head(old) \in ToSet(old) /\ Head(old) \in Nat
                 /\ \A m \in ToSet(old) : Head(old) <= m
      /\ \A m \in upTo : (more => Head(old) <= m) => m \in ToSet(old)
  BY <1>1, PageBack
<1>5. /\ new \in Seq(Nat) /\ Rising(new) /\ ToSet(new) \in SUBSET after /\ moreNew \in BOOLEAN
      /\ moreNew => /\ Last(new) \in ToSet(new) /\ Last(new) \in Nat
                    /\ \A m \in ToSet(new) : m <= Last(new)
                    /\ \E m \in after : Last(new) < m
      /\ \A m \in after : (moreNew => m <= Last(new)) => m \in ToSet(new)
  BY <1>1, PageOn
<1> HIDE DEF old, new, more, moreNew
<1>6. \A m \in upTo, n \in after : m < n
  <2>1. ASSUME NEW m \in upTo, NEW n \in after PROVE m < n
    <3>1. m \in saved /\ n \in saved /\ m <= ask.arg /\ ask.arg < n
      BY <1>1, <1>3
    <3>2. m \in Nat /\ n \in Nat /\ ask.arg \in Nat
      BY <3>1, <1>1 DEF Command
    <3> QED
      BY <3>1, <3>2
  <2> QED
    BY <2>1
<1>7. /\ old \o new \in Seq(Nat) /\ Rising(old \o new)
      /\ ToSet(old \o new) = ToSet(old) \union ToSet(new)
  <2>1. \A m \in ToSet(old), n \in ToSet(new) : m < n
    BY <1>4, <1>5, <1>6
  <2> QED
    BY <2>1, <1>4, <1>5, RisingOn
<1>8. /\ a.ids = old \o new /\ a.hasMore = more /\ a.hasMoreNewer = moreNew
      /\ more => a.cursor = Head(old)
      /\ moreNew => a.newer = Last(new)
  BY <1>2
<1>9. a \in Answer
  <2>1. (IF more THEN Head(old) ELSE 0) \in Nat /\ (IF moreNew THEN Last(new) ELSE 0) \in Nat
    BY <1>4, <1>5
  <2> QED
    BY <1>2, <1>4, <1>5, <1>7, <2>1 DEF Answer
<1> HIDE DEF a
<1>10. Spanned(a, ask, behind, saved) \subseteq ToSet(a.ids)
  <2>1. ASSUME NEW m \in saved, a.hasMore => a.cursor <= m, a.hasMoreNewer => m <= a.newer,
               m <= ask.arg \/ a.hasMoreNewer
        PROVE  m \in ToSet(a.ids)
    <3>1. CASE m \in upTo
      BY <2>1, <3>1, <1>4, <1>7, <1>8
    <3>2. CASE m \in after /\ a.hasMoreNewer
      BY <2>1, <3>2, <1>5, <1>7, <1>8
    <3>3. m \in upTo \/ m \in after
      <4>1. m \in Nat /\ ask.arg \in Nat
        BY DEF Command
      <4>2. m <= ask.arg \/ ask.arg < m
        BY <4>1
      <4> QED
        BY <4>2, <1>3
    <3>4. ~(m \in upTo) => ~(m <= ask.arg)
      BY <1>3
    <3> QED
      BY <2>1, <3>1, <3>2, <3>3, <3>4
  <2> QED
    BY <2>1 DEF Spanned
<1>11. AnswerRight(a, ask, behind, saved, last)
  <2>1. ToSet(a.ids) \subseteq 1..last
    BY <1>1, <1>4, <1>5, <1>7, <1>8
  <2>2. a.hasMoreNewer => a.newer \in ToSet(a.ids) /\ \A m \in ToSet(a.ids) : m <= a.newer
    <3>1. ASSUME moreNew, NEW m \in ToSet(old) PROVE m <= Last(new)
      <4>1. m < Last(new) /\ m \in Nat /\ Last(new) \in Nat
        BY <3>1, <1>1, <1>4, <1>5, <1>6
      <4> QED
        BY <4>1
    <3> QED
      BY <3>1, <1>5, <1>7, <1>8
  <2>3. a.hasMore => a.cursor \in ToSet(a.ids) /\ \A m \in ToSet(a.ids) : a.cursor <= m
    <3>1. ASSUME more, NEW m \in ToSet(new) PROVE Head(old) <= m
      <4>1. Head(old) < m /\ m \in Nat /\ Head(old) \in Nat
        BY <3>1, <1>1, <1>4, <1>5, <1>6
      <4> QED
        BY <4>1
    <3> QED
      BY <3>1, <1>4, <1>7, <1>8
  <2>4. ASSUME a.hasMoreNewer PROVE a.newer < last
    <3>1. PICK m \in after : a.newer < m
      BY <2>4, <1>5, <1>8
    <3>2. m \in 1..last
      BY <1>1
    <3>3. a.newer \in Nat
      BY <2>4, <1>5, <1>8
    <3> QED
      BY <3>1, <3>2, <3>3
  <2>5. a.hasMoreNewer => \A m \in behind : a.newer < m
    BY <2>4
  <2> QED
    BY <1>7, <1>8, <1>10, <2>1, <2>2, <2>3, <2>5 DEF AnswerRight
<1> QED
  BY <1>9, <1>11 DEF a

(* The messages of queue q behind its i-th frame, with the one that is on  *)
(* its way to it.                                                          *)
After(q, p, i) ==
    {q[j].id : j \in {k \in (i + 1)..Len(q) : q[k].kind = "message"}} \union ({p} \ {0})

Frames == [kind : {"message", "page", "refusal"}, id : Nat, answer : Answer]

LEMMA AfterMembers ==
  ASSUME NEW q, NEW p, NEW i
  PROVE  \A m : m \in After(q, p, i) <=>
              (m = p /\ p # 0)
              \/ \E k \in (i + 1)..Len(q) : q[k].kind = "message" /\ q[k].id = m
<1>1. ASSUME NEW m, m \in After(q, p, i)
      PROVE  (m = p /\ p # 0)
             \/ \E k \in (i + 1)..Len(q) : q[k].kind = "message" /\ q[k].id = m
  BY <1>1, Zenon DEF After
<1>2. ASSUME NEW m, m = p, p # 0 PROVE m \in After(q, p, i)
  BY <1>2 DEF After
<1>3. ASSUME NEW m, NEW k \in (i + 1)..Len(q), q[k].kind = "message", q[k].id = m
      PROVE  m \in After(q, p, i)
  BY <1>3, Zenon DEF After
<1> QED
  BY <1>1, <1>2, <1>3, Zenon

LEMMA ToComeIsAfter == ToCome = After(inbox, pushing, 0)
<1>1. 0 + 1 = 1
  OBVIOUS
<1> QED
  BY <1>1 DEF ToCome, After

LEMMA ToComeIsAfterNext == ToCome' = After(inbox', pushing', 0)
<1>1. 0 + 1 = 1
  OBVIOUS
<1> QED
  BY <1>1 DEF ToCome, After

LEMMA BehindIsAfter == \A i : Behind(i) = After(inbox, pushing, i)
BY DEF Behind, After, IsMessage

LEMMA BehindIsAfterNext == \A i : Behind(i)' = After(inbox', pushing', i)
BY DEF Behind, After, IsMessage

(* A message pushed is one that was on its way.                            *)
LEMMA AfterPush ==
  ASSUME NEW q \in Seq(Frames), NEW p, p # 0, NEW i \in 0..Len(q)
  PROVE  After(Append(q, Frame("message", p, NoAnswer)), 0, i) = After(q, p, i)
<1> DEFINE r == Append(q, Frame("message", p, NoAnswer))
<1>1. /\ Len(q) \in Nat /\ Len(r) = Len(q) + 1
      /\ \A k \in 1..Len(q) : r[k] = q[k]
      /\ r[Len(q) + 1].kind = "message" /\ r[Len(q) + 1].id = p
  <2>1. Len(q) \in Nat /\ Len(r) = Len(q) + 1 /\ (\A k \in 1..Len(q) : r[k] = q[k])
        /\ r[Len(q) + 1] = Frame("message", p, NoAnswer)
    OBVIOUS
  <2> QED
    BY <2>1 DEF Frame
<1> HIDE DEF r
<1>2. ASSUME NEW m, m \in After(r, 0, i) PROVE m \in After(q, p, i)
  <2>1. PICK k \in (i + 1)..Len(r) : r[k].kind = "message" /\ r[k].id = m
    BY <1>2, AfterMembers
  <2>2. k = Len(q) + 1 \/ (k \in (i + 1)..Len(q) /\ k \in 1..Len(q))
    BY <1>1
  <2>3. m = p \/ (k \in (i + 1)..Len(q) /\ q[k].kind = "message" /\ q[k].id = m)
    BY <2>1, <2>2, <1>1
  <2> QED
    BY <2>3, AfterMembers
<1>3. ASSUME NEW m, m \in After(q, p, i) PROVE m \in After(r, 0, i)
  <2>1. m = p \/ \E k \in (i + 1)..Len(q) : q[k].kind = "message" /\ q[k].id = m
    BY <1>3, AfterMembers
  <2>2. Len(q) + 1 \in (i + 1)..Len(r) /\ \A k \in (i + 1)..Len(q) : k \in 1..Len(q) /\ k \in (i + 1)..Len(r)
    BY <1>1
  <2>3. \E k \in (i + 1)..Len(r) : r[k].kind = "message" /\ r[k].id = m
    BY <2>1, <2>2, <1>1
  <2> QED
    BY <2>3, AfterMembers
<1> QED
  BY <1>2, <1>3 DEF r

(* An answer appended hides nothing ...                                    *)
LEMMA AfterAnswer ==
  ASSUME NEW q \in Seq(Frames), NEW p, NEW f \in Frames, f.kind # "message",
         NEW i \in 0..Len(q)
  PROVE  After(Append(q, f), p, i) = After(q, p, i)
<1> DEFINE r == Append(q, f)
<1>1. /\ Len(q) \in Nat /\ Len(r) = Len(q) + 1
      /\ \A k \in 1..Len(q) : r[k] = q[k]
      /\ r[Len(q) + 1].kind # "message"
  OBVIOUS
<1> HIDE DEF r
<1>2. ASSUME NEW m PROVE m \in After(r, p, i) <=> m \in After(q, p, i)
  <2>1. ASSUME NEW k \in (i + 1)..Len(r), r[k].kind = "message"
        PROVE  k \in (i + 1)..Len(q) /\ q[k] = r[k]
    <3>1. k = Len(q) + 1 \/ (k \in (i + 1)..Len(q) /\ k \in 1..Len(q))
      BY <1>1
    <3> QED
      BY <3>1, <2>1, <1>1
  <2>2. ASSUME NEW k \in (i + 1)..Len(q) PROVE k \in (i + 1)..Len(r) /\ q[k] = r[k]
    <3>1. k \in (i + 1)..Len(r) /\ k \in 1..Len(q)
      BY <1>1
    <3> QED
      BY <3>1, <1>1
  <2>3. (\E k \in (i + 1)..Len(r) : r[k].kind = "message" /\ r[k].id = m)
        <=> (\E k \in (i + 1)..Len(q) : q[k].kind = "message" /\ q[k].id = m)
    BY <2>1, <2>2
  <2> QED
    BY <2>3, AfterMembers
<1> QED
  BY <1>2 DEF r

(* ... and has only the last push behind it.                               *)
LEMMA AfterLast ==
  ASSUME NEW q \in Seq(Frames), NEW p, NEW f \in Frames
  PROVE  After(Append(q, f), p, Len(q) + 1) = {p} \ {0}
<1> DEFINE r == Append(q, f)
<1>1. Len(q) \in Nat /\ Len(r) = Len(q) + 1
  OBVIOUS
<1> HIDE DEF r
<1>2. ~ \E k \in ((Len(q) + 1) + 1)..Len(r) : TRUE
  BY <1>1
<1>3. \A m : m \in After(r, p, Len(q) + 1) <=> m = p /\ p # 0
  BY <1>2, AfterMembers
<1> QED
  BY <1>3 DEF r

(* What is behind a frame when the first has gone.                         *)
LEMMA AfterTail ==
  ASSUME NEW q \in Seq(Frames), q # <<>>, NEW p, NEW i \in Nat
  PROVE  After(Tail(q), p, i) = After(q, p, i + 1)
<1> DEFINE r == Tail(q)
<1>1. /\ Len(q) \in Nat /\ Len(r) = Len(q) - 1
      /\ \A k \in 1..(Len(q) - 1) : r[k] = q[k + 1]
  BY HeadTailProperties
<1> HIDE DEF r
<1>2. ASSUME NEW m PROVE m \in After(r, p, i) <=> m \in After(q, p, i + 1)
  <2>1. ASSUME NEW k \in (i + 1)..Len(r), r[k].kind = "message", r[k].id = m
        PROVE  \E h \in ((i + 1) + 1)..Len(q) : q[h].kind = "message" /\ q[h].id = m
    <3>1. (k + 1) \in ((i + 1) + 1)..Len(q) /\ k \in 1..(Len(q) - 1)
      BY <1>1
    <3> QED
      BY <3>1, <2>1, <1>1
  <2>2. ASSUME NEW h \in ((i + 1) + 1)..Len(q), q[h].kind = "message", q[h].id = m
        PROVE  \E k \in (i + 1)..Len(r) : r[k].kind = "message" /\ r[k].id = m
    <3> DEFINE k == h - 1
    <3>1. k \in (i + 1)..Len(r) /\ k \in 1..(Len(q) - 1) /\ k + 1 = h
      BY <1>1
    <3>2. r[k] = q[h]
      BY <3>1, <1>1
    <3> QED
      BY <3>1, <3>2, <2>2
  <2> QED
    BY <2>1, <2>2, AfterMembers
<1> QED
  BY <1>2 DEF r

(* What is behind the first frame, and the first frame.                    *)
LEMMA AfterFirst ==
  ASSUME NEW q \in Seq(Frames), q # <<>>, NEW p
  PROVE  /\ Head(q).kind # "message" => After(q, p, 0) = After(q, p, 1)
         /\ Head(q).kind = "message" => After(q, p, 0) = After(q, p, 1) \union {Head(q).id}
<1>1. Len(q) \in Nat /\ Len(q) # 0 /\ Head(q) = q[1]
  BY HeadTailProperties
<1>2. ASSUME NEW m PROVE m \in After(q, p, 0) <=>
          m \in After(q, p, 1) \/ (Head(q).kind = "message" /\ Head(q).id = m)
  <2>1. ASSUME NEW k PROVE k \in (0 + 1)..Len(q) <=> k = 1 \/ k \in (1 + 1)..Len(q)
    BY <1>1
  <2>2. (\E k \in (0 + 1)..Len(q) : q[k].kind = "message" /\ q[k].id = m)
        <=> \/ q[1].kind = "message" /\ q[1].id = m
            \/ \E k \in (1 + 1)..Len(q) : q[k].kind = "message" /\ q[k].id = m
    BY <2>1
  <2> QED
    BY <2>2, <1>1, AfterMembers
<1> QED
  BY <1>2

(* A list without one of its messages.                                     *)
LEMMA WithoutFacts ==
  ASSUME NEW s \in Seq(Nat), NEW m
  PROVE  /\ Without(s, m) \in Seq(Nat) /\ ToSet(Without(s, m)) = ToSet(s) \ {m}
         /\ Rising(s) => Rising(Without(s, m))
<1> DEFINE I == {i \in 1..Len(s) : s[i] # m}
           kept == Ids(I)
           r == Without(s, m)
<1>1. I \in SUBSET (1..Len(s)) /\ I \in SUBSET Nat /\ IsFiniteSet(I) /\ Len(s) \in Nat
  <2>1. Len(s) \in Nat /\ I \in SUBSET (1..Len(s))
    OBVIOUS
  <2>2. IsFiniteSet(1..Len(s))
    BY <2>1, FS_Interval
  <2>3. IsFiniteSet(I)
    BY <2>1, <2>2, FS_Subset
  <2> QED
    BY <2>1, <2>3
<1>2. \A i \in I : i \in 1..Len(s) /\ s[i] # m /\ s[i] \in Nat
  BY <1>1
<1>3. \A i \in 1..Len(s) : s[i] # m => i \in I
  OBVIOUS
<1>4. r = [k \in 1..Len(kept) |-> s[kept[k]]]
  BY DEF Without
<1> HIDE DEF I
<1>5. kept \in Seq(Nat) /\ Len(kept) \in Nat /\ Rising(kept) /\ ToSet(kept) = I
  BY <1>1, IdsFacts
<1> HIDE DEF kept
<1>6. \A k \in 1..Len(kept) : kept[k] \in I
  BY <1>5 DEF ToSet
<1>7. r \in [1..Len(kept) -> Nat]
  BY <1>2, <1>4, <1>6
<1>8. r \in Seq(Nat) /\ Len(r) = Len(kept)
  <2>1. r \in Seq(Nat)
    BY <1>5, <1>7, SeqDef
  <2> QED
    BY <2>1, <1>5, <1>7, LenProperties
<1>9. \A k \in 1..Len(kept) : r[k] = s[kept[k]]
  BY <1>4
<1> HIDE DEF r
<1>10. ToSet(r) = ToSet(s) \ {m}
  <2>1. ASSUME NEW x \in ToSet(r) PROVE x \in ToSet(s) \ {m}
    <3>1. PICK k \in 1..Len(kept) : x = r[k]
      BY <1>8 DEF ToSet
    <3>2. x = s[kept[k]] /\ kept[k] \in I
      BY <3>1, <1>6, <1>9
    <3> QED
      BY <3>2, <1>2 DEF ToSet
  <2>2. ASSUME NEW x \in ToSet(s) \ {m} PROVE x \in ToSet(r)
    <3>1. PICK i \in 1..Len(s) : x = s[i]
      BY DEF ToSet
    <3>2. i \in ToSet(kept)
      BY <3>1, <1>3, <1>5
    <3>3. PICK k \in 1..Len(kept) : kept[k] = i
      BY <3>2, <1>5 DEF ToSet
    <3>4. r[k] = x
      BY <3>1, <3>3, <1>9
    <3> QED
      BY <3>4, <1>8 DEF ToSet
  <2> QED
    BY <2>1, <2>2
<1>11. ASSUME Rising(s) PROVE Rising(r)
  <2>1. ASSUME NEW j \in 1..Len(kept), NEW k \in 1..Len(kept), j < k PROVE r[j] < r[k]
    <3>1. kept[j] < kept[k] /\ kept[j] \in I /\ kept[k] \in I
      BY <2>1, <1>5, <1>6 DEF Rising
    <3>2. kept[j] \in 1..Len(s) /\ kept[k] \in 1..Len(s)
      BY <3>1, <1>2
    <3>3. s[kept[j]] < s[kept[k]]
      BY <3>1, <3>2, <1>11 DEF Rising
    <3> QED
      BY <3>3, <1>9
  <2> QED
    BY <2>1, <1>8 DEF Rising
<1> QED
  BY <1>8, <1>10, <1>11 DEF r

(* What an answer says stays right while messages go and come.             *)
LEMMA FewerRows ==
  ASSUME NEW a, NEW ask, NEW behind, NEW held, NEW last, NEW fewer \in SUBSET held,
         AnswerRight(a, ask, behind, held, last)
  PROVE  AnswerRight(a, ask, behind, fewer, last)
<1>1. Spanned(a, ask, behind, fewer) \subseteq Spanned(a, ask, behind, held)
  BY DEF Spanned
<1> QED
  BY <1>1 DEF AnswerRight

LEMMA FewerBehind ==
  ASSUME NEW a, NEW ask, NEW behind, NEW held, NEW last, NEW fewer \in SUBSET behind,
         AnswerRight(a, ask, behind, held, last), ask.op \in {"around", "after"}
  PROVE  AnswerRight(a, ask, fewer, held, last)
<1>1. Spanned(a, ask, fewer, held) \subseteq Spanned(a, ask, behind, held)
  BY DEF Spanned
<1> QED
  BY <1>1 DEF AnswerRight

LEMMA OneMoreRow ==
  ASSUME NEW a \in Answer, NEW ask \in Command, NEW behind, NEW last \in Nat,
         NEW held \in SUBSET (1..last), ask.op # "delete", ask.arg <= last,
         AnswerRight(a, ask, behind, held, last)
  PROVE  AnswerRight(a, ask, behind \union {last + 1}, held \union {last + 1}, last + 1)
<1> DEFINE new == last + 1
           later == behind \union {new}
<1>1. ToSet(a.ids) \subseteq 1..last /\ Spanned(a, ask, behind, held) \subseteq ToSet(a.ids)
      /\ (a.hasMoreNewer => a.newer \in ToSet(a.ids))
  BY DEF AnswerRight
<1>2. ask.arg \in Nat /\ ask.op \in {"first", "older", "tail", "reload", "around", "after", "delete"}
      /\ a.hasMoreNewer \in BOOLEAN
  BY DEF Command, Answer
<1>3. ~(new <= ask.arg) /\ ~(new < ask.arg) /\ new \in later /\ new \notin 1..last
  BY <1>2
<1>4. a.hasMoreNewer => ~(new <= a.newer) /\ a.newer < new
  <2>1. a.hasMoreNewer => a.newer \in 1..last
    BY <1>1
  <2> QED
    BY <2>1
<1>5. new \notin Spanned(a, ask, later, held \union {new})
  BY <1>2, <1>3, <1>4 DEF Spanned
<1> HIDE DEF new
<1>6. Spanned(a, ask, later, held \union {new}) \subseteq Spanned(a, ask, behind, held)
  BY <1>5 DEF Spanned
<1>7. ToSet(a.ids) \subseteq 1..new /\ new \notin ToSet(a.ids)
  BY <1>1, <1>3 DEF new
<1>8. ToSet(a.ids) \intersect later = ToSet(a.ids) \intersect behind
  BY <1>7
<1>9. AnswerRight(a, ask, later, held \union {new}, new)
  BY <1>1, <1>4, <1>6, <1>7, <1>8 DEF AnswerRight
<1> QED
  BY <1>9 DEF new

(* The messages of a queue come in order, and none is left out.            *)
Stream(q, p, last) ==
    /\ \A i \in 1..Len(q) : q[i].kind = "message" =>
           q[i].id \in 1..last /\ (p # 0 => q[i].id < p)
    /\ \A i, j \in 1..Len(q) :
           i < j /\ q[i].kind = "message" /\ q[j].kind = "message" => q[i].id < q[j].id
    /\ \A m \in After(q, p, 0) : m..last \subseteq After(q, p, 0)

LEMMA StreamIs ==
  StreamInv <=> /\ Stream(inbox, pushing, sentIds)
                /\ ~online => inbox = <<>> /\ pending = <<>> /\ atServer = "new"
BY ToComeIsAfter DEF StreamInv, Stream, IsMessage

LEMMA StreamIsNext ==
  StreamInv' <=> /\ Stream(inbox', pushing', sentIds')
                 /\ ~online' => inbox' = <<>> /\ pending' = <<>> /\ atServer' = "new"
BY ToComeIsAfterNext DEF StreamInv, Stream, IsMessage

LEMMA StreamSaves ==
  ASSUME NEW q \in Seq(Frames), NEW last \in Nat, Stream(q, 0, last)
  PROVE  /\ Stream(q, last + 1, last + 1)
         /\ \A i : After(q, last + 1, i) = After(q, 0, i) \union {last + 1}
<1> DEFINE new == last + 1
<1>1. \A i : After(q, new, i) = After(q, 0, i) \union {new}
  <2>1. new # 0
    OBVIOUS
  <2> HIDE DEF new
  <2>2. ASSUME NEW i, NEW m PROVE m \in After(q, new, i) <=> m \in After(q, 0, i) \/ m = new
    BY <2>1, AfterMembers
  <2> QED
    BY <2>2
<1>2. \A i \in 1..Len(q) : q[i].kind = "message" => q[i].id \in 1..new /\ q[i].id < new
  <2>1. ASSUME NEW x \in 1..last PROVE x \in 1..new /\ x < new
    OBVIOUS
  <2> QED
    BY <2>1 DEF Stream
<1>3. ASSUME NEW m \in After(q, new, 0) PROVE m..new \subseteq After(q, new, 0)
  <2>1. CASE m = new
    <3>1. m..new = {new}
      BY <2>1
    <3> QED
      BY <3>1, <1>1
  <2>2. CASE m \in After(q, 0, 0)
    <3>1. m..last \subseteq After(q, 0, 0)
      BY <2>2 DEF Stream
    <3>2. \A x \in m..new : x \in m..last \/ x = new
      OBVIOUS
    <3> QED
      BY <3>1, <3>2, <1>1
  <2> QED
    BY <2>1, <2>2, <1>1
<1> QED
  BY <1>1, <1>2, <1>3 DEF Stream

LEMMA StreamPushes ==
  ASSUME NEW q \in Seq(Frames), NEW last \in Nat, last # 0, Stream(q, last, last)
  PROVE  Stream(Append(q, Frame("message", last, NoAnswer)), 0, last)
<1> DEFINE r == Append(q, Frame("message", last, NoAnswer))
<1>1. /\ Len(q) \in Nat /\ Len(r) = Len(q) + 1
      /\ \A k \in 1..Len(q) : r[k] = q[k]
      /\ r[Len(q) + 1].id = last
  <2>1. Len(q) \in Nat /\ Len(r) = Len(q) + 1 /\ (\A k \in 1..Len(q) : r[k] = q[k])
        /\ r[Len(q) + 1] = Frame("message", last, NoAnswer)
    OBVIOUS
  <2> QED
    BY <2>1 DEF Frame
<1>2. After(r, 0, 0) = After(q, last, 0)
  <2>1. 0 \in 0..Len(q)
    BY <1>1
  <2> QED
    BY <2>1, AfterPush
<1> HIDE DEF r
<1>3. \A k \in 1..Len(r) : k \in 1..Len(q) \/ k = Len(q) + 1
  BY <1>1
<1>4. \A k \in 1..Len(q) : q[k].kind = "message" => q[k].id \in 1..last /\ q[k].id < last
  BY DEF Stream
<1>5. \A i \in 1..Len(r) : r[i].kind = "message" => r[i].id \in 1..last
  BY <1>1, <1>3, <1>4
<1>6. ASSUME NEW i \in 1..Len(r), NEW j \in 1..Len(r), i < j,
             r[i].kind = "message", r[j].kind = "message"
      PROVE  r[i].id < r[j].id
  <2>1. i \in 1..Len(q) /\ r[i] = q[i]
    BY <1>1, <1>6
  <2>2. CASE j \in 1..Len(q)
    BY <2>1, <2>2, <1>1, <1>6 DEF Stream
  <2>3. CASE j = Len(q) + 1
    BY <2>1, <2>3, <1>1, <1>4, <1>6
  <2> QED
    BY <2>2, <2>3, <1>3
<1>7. \A m \in After(r, 0, 0) : m..last \subseteq After(r, 0, 0)
  BY <1>2 DEF Stream
<1> QED
  BY <1>5, <1>6, <1>7 DEF r, Stream

LEMMA StreamAnswers ==
  ASSUME NEW q \in Seq(Frames), NEW p, NEW last \in Nat, NEW f \in Frames, f.kind # "message",
         Stream(q, p, last)
  PROVE  Stream(Append(q, f), p, last)
<1> DEFINE r == Append(q, f)
<1>1. /\ Len(q) \in Nat /\ Len(r) = Len(q) + 1
      /\ \A k \in 1..Len(q) : r[k] = q[k]
      /\ r[Len(q) + 1] = f
  OBVIOUS
<1>2. After(r, p, 0) = After(q, p, 0)
  <2>1. 0 \in 0..Len(q)
    BY <1>1
  <2> QED
    BY <2>1, AfterAnswer
<1> HIDE DEF r
<1>3. \A k \in 1..Len(r) : r[k].kind = "message" => k \in 1..Len(q) /\ r[k] = q[k]
  BY <1>1
<1>4. \A i \in 1..Len(r) : r[i].kind = "message" => r[i].id \in 1..last /\ (p # 0 => r[i].id < p)
  BY <1>3 DEF Stream
<1>5. \A i, j \in 1..Len(r) :
           i < j /\ r[i].kind = "message" /\ r[j].kind = "message" => r[i].id < r[j].id
  BY <1>3 DEF Stream
<1>6. \A m \in After(r, p, 0) : m..last \subseteq After(r, p, 0)
  BY <1>2 DEF Stream
<1> QED
  BY <1>4, <1>5, <1>6 DEF r, Stream

LEMMA StreamGoesOn ==
  ASSUME NEW q \in Seq(Frames), q # <<>>, NEW last \in Nat, NEW p \in {0, last},
         Stream(q, p, last)
  PROVE  /\ Stream(Tail(q), p, last)
         /\ Head(q).kind # "message" => After(Tail(q), p, 0) = After(q, p, 0)
         /\ Head(q).kind = "message" =>
               /\ Head(q).id \in 1..last /\ After(q, p, 0) = Head(q).id..last
               /\ After(Tail(q), p, 0) = (Head(q).id + 1)..last
<1> DEFINE r == Tail(q)
           h == Head(q)
<1>1. /\ Len(q) \in Nat /\ Len(q) # 0 /\ Len(r) = Len(q) - 1 /\ h = q[1]
      /\ \A k \in 1..(Len(q) - 1) : r[k] = q[k + 1]
  BY HeadTailProperties
<1>2. After(r, p, 0) = After(q, p, 1)
  <2>1. 0 \in Nat /\ 0 + 1 = 1
    OBVIOUS
  <2> QED
    BY <2>1, AfterTail
<1>3. /\ h.kind # "message" => After(q, p, 0) = After(q, p, 1)
      /\ h.kind = "message" => After(q, p, 0) = After(q, p, 1) \union {h.id}
  BY AfterFirst
<1> HIDE DEF r, h
<1>4. ASSUME NEW k \in 1..Len(r)
      PROVE  k + 1 \in 1..Len(q) /\ r[k] = q[k + 1] /\ 1 < k + 1 /\ 1 \in 1..Len(q)
  <2>1. k + 1 \in 1..Len(q) /\ k \in 1..(Len(q) - 1) /\ 1 < k + 1 /\ 1 \in 1..Len(q)
    BY <1>1
  <2> QED
    BY <2>1, <1>1
<1>5. \A k \in 1..Len(r) : r[k].kind = "message" => r[k].id \in 1..last /\ (p # 0 => r[k].id < p)
  BY <1>4 DEF Stream
<1>6. ASSUME NEW i \in 1..Len(r), NEW j \in 1..Len(r), i < j,
             r[i].kind = "message", r[j].kind = "message"
      PROVE  r[i].id < r[j].id
  <2>1. i + 1 < j + 1
    BY <1>6, <1>1
  <2> QED
    BY <2>1, <1>4, <1>6 DEF Stream
<1>7. ASSUME h.kind = "message"
      PROVE  /\ h.id \in 1..last /\ After(q, p, 0) = h.id..last
             /\ After(r, p, 0) = (h.id + 1)..last
  <2>1. 1 \in 1..Len(q)
    BY <1>1
  <2>2. h.id \in 1..last /\ (p # 0 => h.id < p)
    BY <2>1, <1>1, <1>7 DEF Stream
  <2>3. h.id \in After(q, p, 0)
    BY <1>3, <1>7
  <2>4. h.id..last \subseteq After(q, p, 0)
    BY <2>3 DEF Stream
  <2>5. ASSUME NEW m \in After(r, p, 0) PROVE m \in (h.id + 1)..last
    <3>1. (m = p /\ p # 0) \/ \E k \in (0 + 1)..Len(r) : r[k].kind = "message" /\ r[k].id = m
      BY AfterMembers
    <3>2. CASE m = p /\ p # 0
      <4>1. m = last /\ h.id < m
        BY <3>2, <2>2
      <4> QED
        BY <4>1, <2>2
    <3>3. CASE \E k \in (0 + 1)..Len(r) : r[k].kind = "message" /\ r[k].id = m
      <4>1. PICK k \in 1..Len(r) : r[k].kind = "message" /\ r[k].id = m
        BY <3>3
      <4>2. h.id < m
        BY <4>1, <1>1, <1>4, <1>7 DEF Stream
      <4>3. m \in 1..last
        BY <4>1, <1>5
      <4> QED
        BY <4>2, <4>3, <2>2
    <3> QED
      BY <3>1, <3>2, <3>3
  <2>6. ASSUME NEW m \in (h.id + 1)..last PROVE m \in After(r, p, 0)
    <3>1. m \in h.id..last /\ m # h.id
      BY <2>2
    <3> QED
      BY <3>1, <2>4, <1>2, <1>3, <1>7
  <2>7. After(r, p, 0) = (h.id + 1)..last
    BY <2>5, <2>6
  <2>8. ASSUME NEW m \in After(q, p, 0) PROVE m \in h.id..last
    <3>1. m = h.id \/ m \in (h.id + 1)..last
      BY <2>7, <1>2, <1>3, <1>7
    <3> QED
      BY <3>1, <2>2
  <2>9. After(q, p, 0) = h.id..last
    BY <2>4, <2>8
  <2> QED
    BY <2>2, <2>7, <2>9
<1>8. \A m \in After(r, p, 0) : m..last \subseteq After(r, p, 0)
  <2>1. CASE h.kind = "message"
    <3>1. h.id \in Nat
      BY <2>1, <1>7
    <3>2. ASSUME NEW m \in (h.id + 1)..last PROVE m..last \subseteq (h.id + 1)..last
      BY <3>1
    <3> QED
      BY <2>1, <3>2, <1>7
  <2>2. CASE h.kind # "message"
    BY <2>2, <1>2, <1>3 DEF Stream
  <2> QED
    BY <2>1, <2>2
<1>9. Stream(r, p, last)
  BY <1>5, <1>6, <1>8 DEF Stream
<1> QED
  BY <1>2, <1>3, <1>7, <1>9 DEF r, h

LEMMA StreamCut ==
  ASSUME NEW last \in Nat, NEW p \in {0, last}
  PROVE  /\ Stream(<<>>, p, last) /\ After(<<>>, p, 0) = {p} \ {0}
<1>1. After(<<>>, p, 0) = {p} \ {0}
  <2>1. ~ \E k \in (0 + 1)..Len(<<>>) : TRUE
    OBVIOUS
  <2>2. \A m : m \in After(<<>>, p, 0) <=> m = p /\ p # 0
    BY <2>1, AfterMembers
  <2> QED
    BY <2>2
<1>2. \A m \in {p} \ {0} : m..last = {p}
  OBVIOUS
<1>3. \A m \in {p} \ {0} : {p} = {p} \ {0}
  OBVIOUS
<1>4. ~ \E k \in 1..Len(<<>>) : TRUE
  OBVIOUS
<1> QED
  BY <1>1, <1>2, <1>3, <1>4 DEF Stream

(* The commands of a queue, and the answer on its way to the first.        *)
Queued(todo, last) ==
    \A i \in 1..Len(todo) :
        /\ todo[i].arg <= last
        /\ todo[i].op = "older" => todo[i].arg # 0
        /\ todo[i].op \in {"first", "tail", "reload"} => todo[i].arg = 0

Served(q, todo, at) ==
    /\ at # "new" => todo # <<>>
    /\ at = "read" => Head(todo).op \in {"around", "after"}
    /\ \A i \in 1..Len(q) : q[i].kind # "message" =>
          /\ at = "done"
          /\ q[i].kind = "page" => Head(todo).op # "delete"
          /\ \A j \in 1..Len(q) : q[j].kind # "message" => i = j

Gone == Asked("delete") /\ atServer = "done" => Head(pending).arg \notin saved

LEMMA CommandIs ==
  CommandInv <=> Queued(pending, sentIds) /\ Served(inbox, pending, atServer) /\ Gone
BY DEF CommandInv, Queued, Served, Gone, IsMessage

LEMMA CommandIsNext ==
  CommandInv' <=> Queued(pending', sentIds') /\ Served(inbox', pending', atServer') /\ Gone'
BY DEF CommandInv, Queued, Served, Gone, IsMessage

LEMMA AnswersAre ==
  AnswersInv <=>
    /\ \A i \in 1..Len(inbox) : inbox[i].kind = "page" =>
         AnswerRight(inbox[i].answer, Head(pending), After(inbox, pushing, i), saved, sentIds)
    /\ atServer = "read" =>
         AnswerRight(snapshot, Head(pending), {pushing} \ {0}, saved, sentIds)
BY BehindIsAfter DEF AnswersInv

LEMMA AnswersAreNext ==
  AnswersInv' <=>
    /\ \A i \in 1..Len(inbox') : inbox'[i].kind = "page" =>
         AnswerRight(inbox'[i].answer, Head(pending'), After(inbox', pushing', i), saved', sentIds')
    /\ atServer' = "read" =>
         AnswerRight(snapshot', Head(pending'), {pushing'} \ {0}, saved', sentIds')
BY DEF AnswersInv, Behind, After, IsMessage

(* An operation puts its command behind the others.                        *)
LEMMA QueuedOneMore ==
  ASSUME NEW todo \in Seq(Command), NEW c \in Command, NEW last \in Nat, Queued(todo, last),
         c.arg <= last, c.op = "older" => c.arg # 0,
         c.op \in {"first", "tail", "reload"} => c.arg = 0
  PROVE  /\ Append(todo, c) \in Seq(Command) /\ Queued(Append(todo, c), last)
         /\ todo # <<>> => Head(Append(todo, c)) = Head(todo)
         /\ Append(todo, c) # <<>>
<1> DEFINE r == Append(todo, c)
<1>1. /\ Len(todo) \in Nat /\ Len(r) = Len(todo) + 1 /\ r \in Seq(Command)
      /\ \A k \in 1..Len(todo) : r[k] = todo[k]
      /\ r[Len(todo) + 1] = c
  OBVIOUS
<1>2. todo # <<>> => Len(todo) # 0 /\ Head(todo) = todo[1]
  BY HeadTailProperties
<1> HIDE DEF r
<1>3. r # <<>> /\ Head(r) = r[1]
  BY <1>1, HeadTailProperties
<1>4. Queued(r, last)
  <2>1. ASSUME NEW k \in 1..Len(r) PROVE k = Len(todo) + 1 \/ k \in 1..Len(todo)
    BY <1>1
  <2> QED
    BY <2>1, <1>1 DEF Queued
<1>5. ASSUME todo # <<>> PROVE Head(r) = Head(todo)
  <2>1. 1 \in 1..Len(todo)
    BY <1>1, <1>2, <1>5
  <2> QED
    BY <2>1, <1>1, <1>2, <1>3, <1>5
<1> QED
  BY <1>1, <1>3, <1>4, <1>5 DEF r

(* The first command is taken off the queue; the others keep their op and  *)
(* their argument.                                                         *)
Settled(todo, replaced) ==
    [i \in 1..(Len(todo) - 1) |-> [todo[i + 1] EXCEPT !.stale = @ \/ replaced]]

LEMMA QueuedOneLess ==
  ASSUME NEW todo \in Seq(Command), todo # <<>>, NEW last \in Nat, Queued(todo, last),
         NEW replaced \in BOOLEAN
  PROVE  /\ Settled(todo, replaced) \in Seq(Command) /\ Queued(Settled(todo, replaced), last)
         /\ Len(Settled(todo, replaced)) = Len(todo) - 1
         /\ \A i \in 1..(Len(todo) - 1) :
               /\ i + 1 \in 1..Len(todo)
               /\ Settled(todo, replaced)[i].op = todo[i + 1].op
               /\ Settled(todo, replaced)[i].arg = todo[i + 1].arg
               /\ ~Settled(todo, replaced)[i].stale => ~todo[i + 1].stale
               /\ replaced => Settled(todo, replaced)[i].stale
<1> DEFINE r == Settled(todo, replaced)
<1>1. Len(todo) \in Nat /\ Len(todo) # 0
  BY HeadTailProperties
<1>2. ASSUME NEW i \in 1..(Len(todo) - 1)
      PROVE  /\ i + 1 \in 1..Len(todo) /\ r[i] \in Command
             /\ r[i].op = todo[i + 1].op /\ r[i].arg = todo[i + 1].arg
             /\ ~r[i].stale => ~todo[i + 1].stale
             /\ replaced => r[i].stale
  <2>1. i + 1 \in 1..Len(todo)
    BY <1>1
  <2>2. todo[i + 1] \in Command
    BY <2>1
  <2>3. r[i] = [todo[i + 1] EXCEPT !.stale = @ \/ replaced]
    BY DEF Settled
  <2> DEFINE c == todo[i + 1]
  <2>4. r[i] = [c EXCEPT !.stale = c.stale \/ replaced] /\ c \in Command
    BY <2>2, <2>3
  <2> HIDE DEF c
  <2>5. c.stale \in BOOLEAN /\ (c.stale \/ replaced) \in BOOLEAN
    BY <2>4 DEF Command
  <2>6. r[i] \in Command /\ r[i].op = c.op /\ r[i].arg = c.arg
    BY <2>4, <2>5 DEF Command
  <2>7. r[i].stale = (c.stale \/ replaced)
    BY <2>4 DEF Command
  <2> QED
    BY <2>1, <2>5, <2>6, <2>7 DEF c
<1>3. r \in [1..(Len(todo) - 1) -> Command] /\ Len(todo) - 1 \in Nat
  BY <1>1, <1>2 DEF Settled
<1>4. r \in Seq(Command)
  BY <1>3, SeqDef
<1>5. Len(r) = Len(todo) - 1
  BY <1>3, <1>4, LenProperties
<1> HIDE DEF r
<1>6. Queued(r, last)
  BY <1>2, <1>5 DEF Queued
<1> QED
  BY <1>2, <1>4, <1>5, <1>6 DEF r

LEMMA OnlyMessages ==
  ASSUME NEW q, NEW todo, NEW at, at # "done", Served(q, todo, at)
  PROVE  \A i \in 1..Len(q) : q[i].kind = "message"
BY DEF Served

LEMMA ServedAnswer ==
  ASSUME NEW q \in Seq(Frames), NEW todo, todo # <<>>, NEW f \in Frames,
         \A i \in 1..Len(q) : q[i].kind = "message",
         f.kind = "page" => Head(todo).op # "delete"
  PROVE  Served(Append(q, f), todo, "done")
<1> DEFINE r == Append(q, f)
<1>1. /\ Len(q) \in Nat /\ Len(r) = Len(q) + 1
      /\ \A k \in 1..Len(q) : r[k] = q[k]
      /\ r[Len(q) + 1] = f
  OBVIOUS
<1> HIDE DEF r
<1>2. \A k \in 1..Len(r) : r[k].kind # "message" => k = Len(q) + 1 /\ r[k] = f
  <2>1. ASSUME NEW k \in 1..Len(r) PROVE k = Len(q) + 1 \/ k \in 1..Len(q)
    BY <1>1
  <2> QED
    BY <2>1, <1>1
<1> QED
  BY <1>2 DEF Served, r

LEMMA ServedPush ==
  ASSUME NEW q \in Seq(Frames), NEW todo, NEW at, NEW f \in Frames, f.kind = "message",
         Served(q, todo, at)
  PROVE  Served(Append(q, f), todo, at)
<1> DEFINE r == Append(q, f)
<1>1. /\ Len(q) \in Nat /\ Len(r) = Len(q) + 1
      /\ \A k \in 1..Len(q) : r[k] = q[k]
      /\ r[Len(q) + 1] = f
  OBVIOUS
<1> HIDE DEF r
<1>2. \A k \in 1..Len(r) : r[k].kind # "message" => k \in 1..Len(q) /\ r[k] = q[k]
  <2>1. ASSUME NEW k \in 1..Len(r) PROVE k = Len(q) + 1 \/ k \in 1..Len(q)
    BY <1>1
  <2> QED
    BY <2>1, <1>1
<1> QED
  BY <1>2 DEF Served, r

(* The first frame is taken.                                               *)
LEMMA ServedOn ==
  ASSUME NEW q \in Seq(Frames), q # <<>>, NEW todo, NEW at, Served(q, todo, at)
  PROVE  /\ Served(Tail(q), todo, at)
         /\ Head(q).kind # "message" => \A i \in 1..Len(Tail(q)) : Tail(q)[i].kind = "message"
<1> DEFINE r == Tail(q)
<1>1. /\ Len(q) \in Nat /\ Len(q) # 0 /\ Len(r) = Len(q) - 1 /\ Head(q) = q[1]
      /\ \A k \in 1..(Len(q) - 1) : r[k] = q[k + 1]
  BY HeadTailProperties
<1> HIDE DEF r
<1>2. ASSUME NEW k \in 1..Len(r)
      PROVE  k + 1 \in 1..Len(q) /\ r[k] = q[k + 1] /\ 1 # k + 1 /\ 1 \in 1..Len(q)
  <2>1. k + 1 \in 1..Len(q) /\ k \in 1..(Len(q) - 1) /\ 1 # k + 1 /\ 1 \in 1..Len(q)
    BY <1>1
  <2> QED
    BY <2>1, <1>1
<1>3. \A j, k \in 1..Len(r) : j + 1 = k + 1 => j = k
  BY <1>1
<1>4. ASSUME NEW i \in 1..Len(r), r[i].kind # "message"
      PROVE  /\ at = "done"
             /\ r[i].kind = "page" => Head(todo).op # "delete"
             /\ \A j \in 1..Len(r) : r[j].kind # "message" => i = j
  <2>1. q[i + 1].kind # "message" /\ i + 1 \in 1..Len(q) /\ r[i] = q[i + 1]
    BY <1>2, <1>4
  <2>2. ASSUME NEW j \in 1..Len(r), r[j].kind # "message" PROVE i = j
    <3>1. q[j + 1].kind # "message" /\ j + 1 \in 1..Len(q)
      BY <1>2, <2>2
    <3>2. i + 1 = j + 1
      BY <2>1, <3>1 DEF Served
    <3> QED
      BY <3>2, <1>3
  <2> QED
    BY <2>1, <2>2 DEF Served
<1>5. Served(r, todo, at)
  BY <1>4 DEF Served
<1>6. ASSUME Head(q).kind # "message", NEW i \in 1..Len(r) PROVE r[i].kind = "message"
  <2>1. q[1].kind # "message" /\ 1 \in 1..Len(q) /\ i + 1 \in 1..Len(q) /\ 1 # i + 1
        /\ r[i] = q[i + 1]
    BY <1>1, <1>2, <1>6
  <2> QED
    BY <2>1 DEF Served
<1> QED
  BY <1>5, <1>6 DEF r

LEMMA ServedNew ==
  ASSUME NEW q, NEW todo, \A i \in 1..Len(q) : q[i].kind = "message"
  PROVE  Served(q, todo, "new")
BY DEF Served

(* What the invariant of the wire says, part by part.                      *)
LEMMA WireFacts ==
  ASSUME WireInv
  PROVE  /\ sentIds \in Nat /\ saved \in SUBSET (1..sentIds) /\ pushing \in {0, sentIds}
         /\ online \in BOOLEAN /\ pending \in Seq(Command) /\ inbox \in Seq(Frames)
         /\ atServer \in {"new", "read", "done"} /\ snapshot \in Answer
         /\ Stream(inbox, pushing, sentIds) /\ Queued(pending, sentIds)
         /\ Served(inbox, pending, atServer) /\ Gone
         /\ ~online => inbox = <<>> /\ pending = <<>> /\ atServer = "new"
         /\ \A i \in 1..Len(inbox) : inbox[i].kind = "page" =>
              AnswerRight(inbox[i].answer, Head(pending), After(inbox, pushing, i), saved, sentIds)
         /\ atServer = "read" =>
              AnswerRight(snapshot, Head(pending), {pushing} \ {0}, saved, sentIds)
<1>1. WireTypeOK /\ StreamInv /\ CommandInv /\ AnswersInv
  BY DEF WireInv
<1>2. /\ sentIds \in Nat /\ saved \in SUBSET (1..sentIds) /\ pushing \in {0, sentIds}
      /\ online \in BOOLEAN /\ pending \in Seq(Command) /\ inbox \in Seq(Frames)
      /\ atServer \in {"new", "read", "done"} /\ snapshot \in Answer
  BY <1>1 DEF WireTypeOK, Frames
<1>3. Stream(inbox, pushing, sentIds)
      /\ (~online => inbox = <<>> /\ pending = <<>> /\ atServer = "new")
  BY <1>1, StreamIs
<1>4. Queued(pending, sentIds) /\ Served(inbox, pending, atServer) /\ Gone
  BY <1>1, CommandIs
<1> QED
  BY <1>1, <1>2, <1>3, <1>4, AnswersAre

LEMMA WireHolds ==
  ASSUME sentIds' \in Nat, saved' \in SUBSET (1..sentIds'), pushing' \in {0, sentIds'},
         online' \in BOOLEAN, pending' \in Seq(Command), inbox' \in Seq(Frames),
         atServer' \in {"new", "read", "done"}, snapshot' \in Answer,
         Stream(inbox', pushing', sentIds'), Queued(pending', sentIds'),
         Served(inbox', pending', atServer'), Gone',
         ~online' => inbox' = <<>> /\ pending' = <<>> /\ atServer' = "new",
         \A i \in 1..Len(inbox') : inbox'[i].kind = "page" =>
           AnswerRight(inbox'[i].answer, Head(pending'), After(inbox', pushing', i), saved', sentIds'),
         atServer' = "read" =>
           AnswerRight(snapshot', Head(pending'), {pushing'} \ {0}, saved', sentIds')
  PROVE  WireInv'
<1>1. WireTypeOK'
  BY DEF WireTypeOK, Frames
<1>2. StreamInv'
  BY StreamIsNext
<1>3. CommandInv'
  BY CommandIsNext
<1>4. AnswersInv'
  BY AnswersAreNext
<1> QED
  BY <1>1, <1>2, <1>3, <1>4 DEF WireInv

LEMMA NoAnswerIsOne == NoAnswer \in Answer
<1>1. <<>> \in Seq(Nat)
  OBVIOUS
<1> QED
  BY <1>1 DEF NoAnswer, Answer

LEMMA FrameIsOne ==
  ASSUME NEW kind \in {"message", "page", "refusal"}, NEW id \in Nat, NEW answer \in Answer
  PROVE  /\ Frame(kind, id, answer) \in Frames /\ Frame(kind, id, answer).kind = kind
         /\ Frame(kind, id, answer).id = id /\ Frame(kind, id, answer).answer = answer
BY DEF Frame, Frames

(* The first of the commands.                                              *)
LEMMA FirstCommand ==
  ASSUME NEW todo \in Seq(Command), todo # <<>>, NEW last \in Nat, Queued(todo, last)
  PROVE  /\ Head(todo) \in Command /\ Head(todo).arg <= last
         /\ Head(todo).op = "older" => Head(todo).arg # 0
         /\ Head(todo).op \in {"first", "tail", "reload"} => Head(todo).arg = 0
         /\ 1 \in 1..Len(todo) /\ Head(todo) = todo[1]
<1>1. Len(todo) \in Nat /\ Len(todo) # 0 /\ Head(todo) = todo[1]
  BY HeadTailProperties
<1>2. 1 \in 1..Len(todo)
  BY <1>1
<1>3. todo[1] \in Command
  BY <1>2
<1> QED
  BY <1>1, <1>2, <1>3 DEF Queued

LEMMA SaveKeepsWire == ASSUME WireInv, SaveMessage PROVE WireInv'
<1>1. /\ pushing = 0 /\ sentIds' = sentIds + 1 /\ saved' = saved \union {sentIds'}
      /\ pushing' = sentIds' /\ online' = online /\ inbox' = inbox /\ pending' = pending
      /\ atServer' = atServer /\ snapshot' = snapshot
  BY DEF SaveMessage, wireSide
<1> USE WireFacts
<1>2. sentIds' \in Nat /\ saved' \in SUBSET (1..sentIds') /\ pushing' \in {0, sentIds'}
  BY <1>1
<1>3. /\ Stream(inbox', pushing', sentIds')
      /\ \A i : After(inbox', pushing', i) = After(inbox, pushing, i) \union {sentIds + 1}
  <2>1. inbox \in Seq(Frames) /\ sentIds \in Nat /\ Stream(inbox, 0, sentIds)
    BY <1>1
  <2> QED
    BY <2>1, <1>1, StreamSaves
<1>4. Queued(pending', sentIds')
  <2>1. ASSUME NEW i \in 1..Len(pending) PROVE pending[i].arg <= sentIds + 1
    <3>1. pending[i] \in Command
      OBVIOUS
    <3>2. pending[i].arg \in Nat
      BY <3>1 DEF Command
    <3>3. pending[i].arg <= sentIds
      BY DEF Queued
    <3> QED
      BY <3>2, <3>3
  <2> QED
    BY <2>1, <1>1 DEF Queued
<1>5. Served(inbox', pending', atServer')
  BY <1>1
<1>6. Gone'
  <2>1. ASSUME Asked("delete"), atServer = "done" PROVE Head(pending).arg \notin saved'
    <3>1. Head(pending).arg \notin saved /\ pending # <<>>
      BY <2>1 DEF Gone, Asked
    <3>2. Head(pending).arg <= sentIds /\ Head(pending).arg \in Nat
      BY <3>1, FirstCommand DEF Command
    <3> QED
      BY <3>1, <3>2, <1>1
  <2>2. Asked("delete")' <=> Asked("delete")
    BY <1>1 DEF Asked
  <2> QED
    BY <2>1, <2>2, <1>1 DEF Gone
<1>7. ASSUME NEW a \in Answer, NEW behind, pending # <<>>, Head(pending).op # "delete",
             AnswerRight(a, Head(pending), behind, saved, sentIds)
      PROVE  AnswerRight(a, Head(pending), behind \union {sentIds + 1}, saved', sentIds')
  <2>1. Head(pending) \in Command /\ Head(pending).arg <= sentIds
    BY <1>7, FirstCommand
  <2>2. AnswerRight(a, Head(pending), behind \union {sentIds + 1}, saved \union {sentIds + 1},
                    sentIds + 1)
    BY <2>1, <1>7, OneMoreRow
  <2> QED
    BY <2>2, <1>1
<1>8. ASSUME NEW i \in 1..Len(inbox'), inbox'[i].kind = "page"
      PROVE  AnswerRight(inbox'[i].answer, Head(pending'), After(inbox', pushing', i), saved', sentIds')
  <2>1. inbox[i] \in Frames
    BY <1>1, <1>8
  <2>2. inbox[i].answer \in Answer
    BY <2>1 DEF Frames
  <2>3. pending # <<>> /\ Head(pending).op # "delete"
    BY <1>1, <1>8 DEF Served
  <2>4. AnswerRight(inbox[i].answer, Head(pending), After(inbox, pushing, i), saved, sentIds)
    BY <1>1, <1>8
  <2> QED
    BY <2>2, <2>3, <2>4, <1>1, <1>3, <1>7
<1>9. ASSUME atServer' = "read"
      PROVE  AnswerRight(snapshot', Head(pending'), {pushing'} \ {0}, saved', sentIds')
  <2>1. pending # <<>> /\ Head(pending).op # "delete"
    BY <1>1, <1>9 DEF Served
  <2>2. AnswerRight(snapshot, Head(pending), {pushing} \ {0}, saved, sentIds)
    BY <1>1, <1>9
  <2>3. {pushing'} \ {0} = ({pushing} \ {0}) \union {sentIds + 1}
    BY <1>1
  <2> QED
    BY <2>1, <2>2, <2>3, <1>1, <1>7
<1> QED
  BY <1>1, <1>2, <1>3, <1>4, <1>5, <1>6, <1>8, <1>9, WireHolds

LEMMA PushKeepsWire ==
  ASSUME WireInv, PushMessage
  PROVE  WireInv' /\ (online => After(inbox', pushing', 0) = After(inbox, pushing, 0))
<1>1. /\ pushing # 0 /\ pushing' = 0 /\ saved' = saved /\ sentIds' = sentIds
      /\ inbox' = IF online THEN Append(inbox, Frame("message", pushing, NoAnswer)) ELSE inbox
      /\ online' = online /\ pending' = pending
      /\ atServer' = atServer /\ snapshot' = snapshot
  BY DEF PushMessage
<1> USE WireFacts
<1>2. pushing = sentIds /\ sentIds # 0
  BY <1>1
<1>3. Gone'
  <2>1. Asked("delete")' <=> Asked("delete")
    BY <1>1 DEF Asked
  <2> QED
    BY <2>1, <1>1 DEF Gone
<1>4. CASE online
  <2> DEFINE f == Frame("message", pushing, NoAnswer)
  <2>1. f \in Frames /\ f.kind = "message" /\ inbox' = Append(inbox, f)
    BY <1>1, <1>2, <1>4, FrameIsOne, NoAnswerIsOne
  <2>2. \A i \in 0..Len(inbox) : After(inbox', pushing', i) = After(inbox, pushing, i)
    <3>1. ASSUME NEW i \in 0..Len(inbox)
          PROVE  After(Append(inbox, f), 0, i) = After(inbox, pushing, i)
      BY <1>1, AfterPush
    <3> QED
      BY <3>1, <2>1, <1>1
  <2>3. Stream(inbox', pushing', sentIds')
    <3>1. Stream(Append(inbox, Frame("message", sentIds, NoAnswer)), 0, sentIds)
      BY <1>2, StreamPushes
    <3> QED
      BY <3>1, <1>1, <1>2, <1>4
  <2> HIDE DEF f
  <2>4. Served(inbox', pending', atServer')
    BY <2>1, <1>1, ServedPush
  <2>5. /\ inbox' \in Seq(Frames) /\ Len(inbox') = Len(inbox) + 1 /\ Len(inbox) \in Nat
        /\ \A k \in 1..Len(inbox) : inbox'[k] = inbox[k]
        /\ inbox'[Len(inbox) + 1].kind = "message"
    BY <2>1
  <2>6. ASSUME NEW i \in 1..Len(inbox'), inbox'[i].kind = "page"
        PROVE  AnswerRight(inbox'[i].answer, Head(pending'), After(inbox', pushing', i), saved', sentIds')
    <3>1. i \in 1..Len(inbox) /\ i \in 0..Len(inbox)
      <4>1. i # Len(inbox) + 1
        BY <2>5, <2>6
      <4> QED
        BY <4>1, <2>5
    <3>2. inbox'[i] = inbox[i]
      BY <3>1, <2>5
    <3> QED
      BY <3>1, <3>2, <2>2, <2>6, <1>1
  <2>7. ASSUME atServer' = "read"
        PROVE  AnswerRight(snapshot', Head(pending'), {pushing'} \ {0}, saved', sentIds')
    <3>1. AnswerRight(snapshot, Head(pending), {pushing} \ {0}, saved, sentIds)
          /\ Head(pending).op \in {"around", "after"}
      BY <1>1, <2>7 DEF Served
    <3>2. {pushing'} \ {0} \in SUBSET ({pushing} \ {0})
      BY <1>1
    <3> QED
      BY <3>1, <3>2, <1>1, FewerBehind
  <2>8. After(inbox', pushing', 0) = After(inbox, pushing, 0)
    BY <2>2, <2>5
  <2> QED
    BY <1>1, <1>3, <1>4, <2>3, <2>4, <2>5, <2>6, <2>7, <2>8, WireHolds
<1>5. CASE ~online
  <2>1. inbox' = <<>> /\ pending = <<>> /\ atServer' = "new" /\ pending' = pending
    BY <1>1, <1>5
  <2>2. Stream(inbox', pushing', sentIds')
    <3>1. 0 \in {0, sentIds}
      OBVIOUS
    <3> QED
      BY <3>1, <2>1, <1>1, StreamCut
  <2>3. Served(inbox', pending', atServer')
    BY <2>1, <1>1
  <2> QED
    BY <1>1, <1>3, <1>5, <2>1, <2>2, <2>3, WireHolds
<1> QED
  BY <1>4, <1>5

LEMMA DeletedKeepsWire == ASSUME WireInv, NEW m, DeletedElsewhere(m) PROVE WireInv'
<1>1. /\ saved' = saved \ {m} /\ sentIds' = sentIds /\ pushing' = pushing /\ online' = online
      /\ inbox' = inbox /\ pending' = pending /\ atServer' = atServer /\ snapshot' = snapshot
  BY DEF DeletedElsewhere, wireSide
<1> USE WireFacts
<1>2. saved' \in SUBSET saved
  BY <1>1
<1>3. Gone'
  <2>1. Asked("delete")' <=> Asked("delete")
    BY <1>1 DEF Asked
  <2> QED
    BY <2>1, <1>1 DEF Gone
<1>4. ASSUME NEW i \in 1..Len(inbox'), inbox'[i].kind = "page"
      PROVE  AnswerRight(inbox'[i].answer, Head(pending'), After(inbox', pushing', i), saved', sentIds')
  <2>1. AnswerRight(inbox[i].answer, Head(pending), After(inbox, pushing, i), saved, sentIds)
    BY <1>1, <1>4
  <2>2. AnswerRight(inbox[i].answer, Head(pending), After(inbox, pushing, i), saved', sentIds)
    BY <2>1, <1>2, FewerRows
  <2> QED
    BY <2>2, <1>1
<1>5. ASSUME atServer' = "read"
      PROVE  AnswerRight(snapshot', Head(pending'), {pushing'} \ {0}, saved', sentIds')
  <2>1. AnswerRight(snapshot, Head(pending), {pushing} \ {0}, saved, sentIds)
    BY <1>1, <1>5
  <2>2. AnswerRight(snapshot, Head(pending), {pushing} \ {0}, saved', sentIds)
    BY <2>1, <1>2, FewerRows
  <2> QED
    BY <2>2, <1>1
<1> QED
  BY <1>1, <1>2, <1>3, <1>4, <1>5, WireHolds

(* The hub answers the first command.                                      *)
LEMMA AnswerKeepsWire ==
  ASSUME WireInv, online, pending # <<>>, atServer # "done",
         NEW kind \in {"page", "refusal"}, NEW answer \in Answer, Answers(kind, answer),
         kind = "page" =>
           /\ Head(pending).op # "delete"
           /\ AnswerRight(answer, Head(pending), {pushing} \ {0}, saved, sentIds),
         Head(pending).op = "delete" => Head(pending).arg \notin saved,
         atServer' = "done", saved' = saved, sentIds' = sentIds, pushing' = pushing,
         online' = online, pending' = pending, snapshot' = snapshot
  PROVE  WireInv' /\ After(inbox', pushing', 0) = After(inbox, pushing, 0)
<1> DEFINE f == Frame(kind, 0, answer)
<1>1. f \in Frames /\ f.kind = kind /\ f.answer = answer /\ inbox' = Append(inbox, f)
  BY FrameIsOne DEF Answers
<1> HIDE DEF f
<1> USE WireFacts
<1>2. \A i \in 1..Len(inbox) : inbox[i].kind = "message"
  BY OnlyMessages
<1>3. Served(inbox', pending', atServer')
  BY <1>1, <1>2, ServedAnswer
<1>4. Stream(inbox', pushing', sentIds')
  BY <1>1, StreamAnswers
<1>5. Gone'
  BY DEF Gone, Asked
<1>6. /\ inbox' \in Seq(Frames) /\ Len(inbox') = Len(inbox) + 1 /\ Len(inbox) \in Nat
      /\ \A k \in 1..Len(inbox) : inbox'[k] = inbox[k]
      /\ inbox'[Len(inbox) + 1] = f
  BY <1>1
<1>7. ASSUME NEW i \in 1..Len(inbox'), inbox'[i].kind = "page"
      PROVE  AnswerRight(inbox'[i].answer, Head(pending'), After(inbox', pushing', i), saved', sentIds')
  <2>1. i = Len(inbox) + 1 \/ i \in 1..Len(inbox)
    BY <1>6
  <2>2. i = Len(inbox) + 1 /\ inbox'[i] = f
    BY <2>1, <1>2, <1>6, <1>7
  <2>3. After(inbox', pushing', i) = {pushing} \ {0}
    <3>1. After(Append(inbox, f), pushing, Len(inbox) + 1) = {pushing} \ {0}
      BY <1>1, AfterLast
    <3> QED
      BY <3>1, <2>2, <1>1
  <2>4. kind = "page"
    BY <2>2, <1>1, <1>7
  <2>5. AnswerRight(answer, Head(pending), {pushing} \ {0}, saved, sentIds)
    BY <2>4
  <2> QED
    BY <2>2, <2>3, <2>5, <1>1
<1>8. After(inbox', pushing', 0) = After(inbox, pushing, 0)
  <2>1. 0 \in 0..Len(inbox)
    BY <1>6
  <2>2. After(Append(inbox, f), pushing, 0) = After(inbox, pushing, 0)
    BY <2>1, <1>1, AfterAnswer
  <2> QED
    BY <2>2, <1>1
<1> QED
  BY <1>3, <1>4, <1>5, <1>6, <1>7, <1>8, WireHolds

LEMMA ServeKeepsWire ==
  ASSUME WireInv, ServeGetMessages
  PROVE  WireInv' /\ After(inbox', pushing', 0) = After(inbox, pushing, 0)
<1> DEFINE ask == Head(pending)
<1>1. /\ pending # <<>> /\ ask.op \in {"first", "older", "tail", "reload"}
      /\ online /\ atServer = "new" /\ pushing = 0
      /\ Answers("page", GetMessages(ask.arg)) /\ atServer' = "done"
      /\ saved' = saved /\ sentIds' = sentIds /\ pushing' = pushing /\ online' = online
      /\ pending' = pending /\ snapshot' = snapshot
  BY DEF ServeGetMessages, serverSide
<1> USE WireFacts
<1>2. ask \in Command /\ (ask.op = "older" <=> ask.arg # 0)
  BY <1>1, FirstCommand
<1> HIDE DEF ask
<1>3. GetMessages(ask.arg) \in Answer /\ AnswerRight(GetMessages(ask.arg), ask, {}, saved, sentIds)
  BY <1>1, <1>2, PageIsRight
<1>4. {pushing} \ {0} = {}
  BY <1>1
<1>5. ask.op # "delete"
  BY <1>1
<1> QED
  BY <1>1, <1>3, <1>4, <1>5, AnswerKeepsWire DEF ask

LEMMA AsideKeepsWire ==
  ASSUME WireInv, AnswerAside
  PROVE  WireInv' /\ After(inbox', pushing', 0) = After(inbox, pushing, 0)
<1>1. /\ atServer = "read" /\ atServer' = "done"
      /\ Answers("refusal", NoAnswer) \/ Answers("page", snapshot)
      /\ saved' = saved /\ sentIds' = sentIds /\ pushing' = pushing /\ online' = online
      /\ pending' = pending /\ snapshot' = snapshot
  BY DEF AnswerAside, serverSide
<1> USE WireFacts
<1>2. pending # <<>> /\ Head(pending).op \in {"around", "after"}
  BY <1>1 DEF Served
<1>3. online
  BY <1>1
<1>4. CASE Answers("refusal", NoAnswer)
  BY <1>1, <1>2, <1>3, <1>4, NoAnswerIsOne, AnswerKeepsWire
<1>5. CASE Answers("page", snapshot)
  BY <1>1, <1>2, <1>3, <1>5, AnswerKeepsWire
<1> QED
  BY <1>1, <1>4, <1>5

LEMMA ServeDeleteKeepsWire ==
  ASSUME WireInv, ServeDelete
  PROVE  WireInv' /\ After(inbox', pushing', 0) = After(inbox, pushing, 0)
<1> DEFINE m == Head(pending).arg
<1>1. /\ online /\ pending # <<>> /\ Head(pending).op = "delete"
      /\ atServer = "new" /\ atServer' = "done"
      /\ sentIds' = sentIds /\ pushing' = pushing /\ online' = online
      /\ pending' = pending /\ snapshot' = snapshot
      /\ m \in saved => saved' = saved \ {m} /\ inbox' = inbox
      /\ m \notin saved => saved' = saved /\ Answers("refusal", NoAnswer)
  BY DEF ServeDelete, Asked
<1> USE WireFacts
<1>2. CASE m \notin saved
  BY <1>1, <1>2, NoAnswerIsOne, AnswerKeepsWire
<1>3. CASE m \in saved
  <2>1. saved' = saved \ {m} /\ inbox' = inbox
    BY <1>1, <1>3
  <2>2. \A i \in 1..Len(inbox') : inbox'[i].kind = "message"
    BY <1>1, <2>1, OnlyMessages
  <2>3. Served(inbox', pending', atServer')
    BY <1>1, <2>2 DEF Served
  <2>4. Gone'
    BY <1>1, <2>1 DEF Gone
  <2>5. saved' \in SUBSET (1..sentIds')
    BY <1>1, <2>1
  <2> HIDE DEF m
  <2> QED
    BY <1>1, <2>1, <2>2, <2>3, <2>4, <2>5, WireHolds
<1> QED
  BY <1>2, <1>3

LEMMA ReadKeepsWire == ASSUME WireInv, ReadAside PROVE WireInv'
<1> DEFINE ask == Head(pending)
<1>1. /\ online /\ pending # <<>> /\ ask.op \in {"around", "after"}
      /\ atServer = "new" /\ atServer' = "read"
      /\ ask.op = "after" => snapshot' = GetMessagesAfter(ask.arg)
      /\ ask.op = "around" => snapshot' = GetMessagesAround(ask.arg)
      /\ saved' = saved /\ sentIds' = sentIds /\ pushing' = pushing /\ online' = online
      /\ inbox' = inbox /\ pending' = pending
  BY DEF ReadAside, Asked, serverSide
<1> USE WireFacts
<1>2. ask \in Command
  BY <1>1, FirstCommand
<1>3. {pushing} \ {0} \in SUBSET {sentIds}
  OBVIOUS
<1> HIDE DEF ask
<1>4. snapshot' \in Answer /\ AnswerRight(snapshot', ask, {pushing} \ {0}, saved, sentIds)
  <2>1. CASE ask.op = "after"
    BY <2>1, <1>1, <1>2, <1>3, NewerPageIsRight
  <2>2. CASE ask.op = "around"
    BY <2>2, <1>1, <1>2, <1>3, WindowIsRight
  <2> QED
    BY <2>1, <2>2, <1>1
<1>5. \A i \in 1..Len(inbox') : inbox'[i].kind = "message"
  BY <1>1, OnlyMessages
<1>6. Served(inbox', pending', atServer')
  BY <1>1, <1>5 DEF Served, ask
<1>7. Gone'
  BY <1>1 DEF Gone
<1>8. AnswerRight(snapshot', Head(pending'), {pushing'} \ {0}, saved', sentIds')
  BY <1>1, <1>4 DEF ask
<1>9. snapshot' \in Answer
  BY <1>4
<1> QED
  BY <1>1, <1>5, <1>6, <1>7, <1>8, <1>9, WireHolds

(* The client asks for something more.                                     *)
LEMMA RequestKeepsWire ==
  ASSUME WireInv, NEW op, NEW arg, Requests(op, arg),
         op \in {"first", "older", "tail", "reload", "around", "after", "delete"},
         arg \in Nat, arg <= sentIds, op = "older" => arg # 0,
         op \in {"first", "tail", "reload"} => arg = 0,
         saved' = saved, sentIds' = sentIds, pushing' = pushing, online' = online,
         inbox' = inbox, atServer' = atServer, snapshot' = snapshot
  PROVE  WireInv'
<1> DEFINE c == [op |-> op, arg |-> arg, stale |-> FALSE]
<1>1. /\ c \in Command /\ c.op = op /\ c.arg = arg
      /\ pending' = Append(pending, c) /\ online
  BY DEF Requests, Command
<1> HIDE DEF c
<1> USE WireFacts
<1>2. /\ pending' \in Seq(Command) /\ Queued(pending', sentIds') /\ pending' # <<>>
      /\ pending # <<>> => Head(pending') = Head(pending)
  BY <1>1, QueuedOneMore
<1>3. CASE pending # <<>>
  <2>1. Head(pending') = Head(pending)
    BY <1>2, <1>3
  <2>2. Served(inbox', pending', atServer')
    BY <2>1, <1>2, <1>3 DEF Served
  <2>3. Gone'
    BY <2>1, <1>2, <1>3 DEF Gone, Asked
  <2> QED
    BY <1>1, <1>2, <2>1, <2>2, <2>3, WireHolds
<1>4. CASE pending = <<>>
  <2>1. atServer = "new"
    BY <1>4 DEF Served
  <2>2. \A i \in 1..Len(inbox') : inbox'[i].kind = "message"
    BY <2>1, OnlyMessages
  <2>3. Served(inbox', pending', atServer')
    BY <2>1, <2>2, ServedNew
  <2>4. Gone'
    BY <2>1 DEF Gone
  <2> QED
    BY <1>1, <1>2, <2>1, <2>2, <2>3, <2>4, WireHolds
<1> QED
  BY <1>3, <1>4

(* The client takes a message off the wire, or its place goes by ...       *)
LEMMA MessageKeepsWire ==
  ASSUME WireInv, ReceiveMessage \/ MissMessage
  PROVE  /\ WireInv' /\ Head(inbox).id \in 1..sentIds
         /\ After(inbox, pushing, 0) = Head(inbox).id..sentIds
         /\ After(inbox', pushing', 0) = (Head(inbox).id + 1)..sentIds
<1>1. /\ inbox # <<>> /\ Head(inbox).kind = "message" /\ inbox' = Tail(inbox)
      /\ saved' = saved /\ sentIds' = sentIds /\ pushing' = pushing /\ online' = online
      /\ pending' = pending /\ atServer' = atServer /\ snapshot' = snapshot
  BY DEF ReceiveMessage, MissMessage, Arrives, serverSide
<1> USE WireFacts
<1>2. /\ Stream(inbox', pushing', sentIds')
      /\ Head(inbox).id \in 1..sentIds /\ After(inbox, pushing, 0) = Head(inbox).id..sentIds
      /\ After(inbox', pushing', 0) = (Head(inbox).id + 1)..sentIds
  BY <1>1, StreamGoesOn
<1>3. Served(inbox', pending', atServer')
  BY <1>1, ServedOn
<1>4. Gone'
  BY <1>1 DEF Gone, Asked
<1>5. /\ Len(inbox) \in Nat /\ Len(inbox) # 0 /\ Len(inbox') = Len(inbox) - 1
      /\ \A k \in 1..(Len(inbox) - 1) : inbox'[k] = inbox[k + 1]
      /\ inbox' \in Seq(Frames)
  BY <1>1, HeadTailProperties
<1>6. ASSUME NEW i \in 1..Len(inbox'), inbox'[i].kind = "page"
      PROVE  AnswerRight(inbox'[i].answer, Head(pending'), After(inbox', pushing', i), saved', sentIds')
  <2>1. i \in 1..(Len(inbox) - 1) /\ i + 1 \in 1..Len(inbox) /\ i \in Nat
    BY <1>5
  <2>2. inbox'[i] = inbox[i + 1]
    BY <2>1, <1>5
  <2>3. After(inbox', pushing', i) = After(inbox, pushing, i + 1)
    <3>1. After(Tail(inbox), pushing, i) = After(inbox, pushing, i + 1)
      BY <2>1, <1>1, AfterTail
    <3> QED
      BY <3>1, <1>1
  <2> QED
    BY <2>1, <2>2, <2>3, <1>1, <1>6
<1>7. online
  BY <1>1
<1> QED
  BY <1>1, <1>2, <1>3, <1>4, <1>5, <1>6, <1>7, WireHolds

(* ... or the answer to the first command.                                 *)
LEMMA SettleKeepsWire ==
  ASSUME WireInv, inbox # <<>>, Head(inbox).kind # "message",
         NEW replaced \in BOOLEAN, Settle(replaced),
         saved' = saved, sentIds' = sentIds, pushing' = pushing, online' = online
  PROVE  /\ WireInv' /\ After(inbox', pushing', 0) = After(inbox, pushing, 0)
         /\ pending # <<>> /\ Len(pending') = Len(pending) - 1
         /\ \A i \in 1..Len(pending') :
               /\ i + 1 \in 1..Len(pending)
               /\ pending'[i].op = pending[i + 1].op /\ pending'[i].arg = pending[i + 1].arg
               /\ ~pending'[i].stale => ~pending[i + 1].stale
               /\ replaced => pending'[i].stale
         /\ Head(inbox).kind = "page" =>
               AnswerRight(Head(inbox).answer, Head(pending), After(inbox, pushing, 0), saved, sentIds)
         /\ Head(inbox) \in Frames
<1>1. /\ inbox' = Tail(inbox) /\ atServer' = "new" /\ snapshot' = NoAnswer
      /\ pending' = [i \in 1..(Len(pending) - 1) |->
                       [pending[i + 1] EXCEPT !.stale = @ \/ replaced]]
  BY DEF Settle
<1> USE WireFacts
<1>2. /\ Len(inbox) \in Nat /\ Len(inbox) # 0 /\ Head(inbox) = inbox[1] /\ 1 \in 1..Len(inbox)
      /\ Head(inbox) \in Frames /\ inbox' \in Seq(Frames)
  <2>1. Len(inbox) \in Nat /\ Len(inbox) # 0 /\ Head(inbox) = inbox[1]
        /\ Head(inbox) \in Frames /\ Tail(inbox) \in Seq(Frames)
    BY HeadTailProperties
  <2> QED
    BY <2>1, <1>1
<1>3. atServer = "done" /\ pending # <<>>
  BY <1>2 DEF Served
<1>4. /\ pending' \in Seq(Command) /\ Queued(pending', sentIds) /\ Len(pending') = Len(pending) - 1
      /\ \A i \in 1..Len(pending') :
               /\ i + 1 \in 1..Len(pending)
               /\ pending'[i].op = pending[i + 1].op /\ pending'[i].arg = pending[i + 1].arg
               /\ ~pending'[i].stale => ~pending[i + 1].stale
               /\ replaced => pending'[i].stale
  <2>1. pending' = Settled(pending, replaced)
    BY <1>1 DEF Settled
  <2> DEFINE r == Settled(pending, replaced)
  <2>2. /\ r \in Seq(Command) /\ Queued(r, sentIds) /\ Len(r) = Len(pending) - 1
        /\ \A i \in 1..(Len(pending) - 1) :
               /\ i + 1 \in 1..Len(pending)
               /\ r[i].op = pending[i + 1].op /\ r[i].arg = pending[i + 1].arg
               /\ ~r[i].stale => ~pending[i + 1].stale
               /\ replaced => r[i].stale
    BY <1>3, QueuedOneLess
  <2> HIDE DEF r
  <2>3. pending' = r
    BY <2>1 DEF r
  <2> QED
    BY <2>2, <2>3
<1>5. \A i \in 1..Len(inbox') : inbox'[i].kind = "message"
  BY <1>1, ServedOn
<1>6. Served(inbox', pending', atServer')
  BY <1>1, <1>5, ServedNew
<1>7. /\ Stream(inbox', pushing', sentIds')
      /\ After(inbox', pushing', 0) = After(inbox, pushing, 0)
  BY <1>1, StreamGoesOn
<1>8. Gone'
  BY <1>1 DEF Gone
<1>9. online
  OBVIOUS
<1>10. WireInv'
  BY <1>1, <1>2, <1>4, <1>5, <1>6, <1>7, <1>8, <1>9, NoAnswerIsOne, WireHolds
<1>11. ASSUME Head(inbox).kind = "page"
       PROVE  AnswerRight(Head(inbox).answer, Head(pending), After(inbox, pushing, 0), saved, sentIds)
  <2>1. After(inbox, pushing, 0) = After(inbox, pushing, 1)
    BY AfterFirst
  <2> QED
    BY <2>1, <1>2, <1>11
<1> QED
  BY <1>2, <1>3, <1>4, <1>7, <1>10, <1>11

(* A delete that failed makes way for the reload.                          *)
LEMMA FailKeepsWire ==
  ASSUME WireInv, DeleteFails
  PROVE  /\ WireInv' /\ After(inbox', pushing', 0) = After(inbox, pushing, 0)
         /\ pending # <<>> /\ Head(pending).op = "delete" /\ Head(pending).arg \notin saved
         /\ Len(pending') = Len(pending) /\ Len(pending) \in Nat /\ Len(pending) # 0
         /\ \A i \in 1..(Len(pending) - 1) :
               i + 1 \in 1..Len(pending) /\ pending'[i] = pending[i + 1]
         /\ pending'[Len(pending)].op = "reload"
<1> DEFINE c == [op |-> "reload", arg |-> 0, stale |-> FALSE]
<1>1. /\ online /\ pending # <<>> /\ Head(pending).op = "delete" /\ atServer = "done"
      /\ \/ inbox # <<>> /\ Head(inbox).kind = "refusal" /\ inbox' = Tail(inbox)
         \/ inbox' = inbox /\ \A i \in 1..Len(inbox) : inbox[i].kind # "refusal"
      /\ pending' = Append(Tail(pending), c) /\ atServer' = "new"
      /\ saved' = saved /\ sentIds' = sentIds /\ pushing' = pushing /\ online' = online
      /\ snapshot' = snapshot
  BY DEF DeleteFails, Asked, Arrives, serverSide
<1>2. c \in Command /\ c.op = "reload" /\ c.arg = 0
  BY DEF Command
<1> HIDE DEF c
<1> USE WireFacts
<1>3. /\ Len(pending) \in Nat /\ Len(pending) # 0 /\ Tail(pending) \in Seq(Command)
      /\ Len(Tail(pending)) = Len(pending) - 1
      /\ \A k \in 1..(Len(pending) - 1) : Tail(pending)[k] = pending[k + 1]
  BY <1>1, HeadTailProperties
<1>4. \A k \in 1..(Len(pending) - 1) : k + 1 \in 1..Len(pending)
  BY <1>3
<1>5. Queued(Tail(pending), sentIds)
  BY <1>3, <1>4 DEF Queued
<1>6. pending' \in Seq(Command) /\ Queued(pending', sentIds')
  <2>1. 0 <= sentIds
    OBVIOUS
  <2> QED
    BY <2>1, <1>1, <1>2, <1>3, <1>5, QueuedOneMore
<1>7. /\ Len(pending') = Len(pending) /\ pending'[Len(pending)] = c
      /\ \A k \in 1..(Len(pending) - 1) : pending'[k] = pending[k + 1]
  <2> DEFINE t == Tail(pending)
  <2>1. t \in Seq(Command) /\ Len(t) = Len(pending) - 1 /\ pending' = Append(t, c)
    BY <1>1, <1>3
  <2> HIDE DEF t
  <2>2. /\ Len(pending') = Len(t) + 1 /\ pending'[Len(t) + 1] = c
        /\ \A k \in 1..Len(t) : pending'[k] = t[k]
    BY <2>1, <1>2
  <2> QED
    BY <2>1, <2>2, <1>3 DEF t
<1>8. \A i \in 1..Len(inbox) : inbox[i].kind # "page"
  BY <1>1 DEF Served
<1>9. \A i \in 1..Len(inbox) : inbox[i] \in Frames /\ inbox[i].kind \in {"message", "page", "refusal"}
  <2>1. \A i \in 1..Len(inbox) : inbox[i] \in Frames
    OBVIOUS
  <2>2. \A f \in Frames : f.kind \in {"message", "page", "refusal"}
    BY DEF Frames
  <2> QED
    BY <2>1, <2>2
<1>10. /\ inbox' \in Seq(Frames) /\ \A i \in 1..Len(inbox') : inbox'[i].kind = "message"
       /\ Stream(inbox', pushing', sentIds')
       /\ After(inbox', pushing', 0) = After(inbox, pushing, 0)
  <2>1. CASE inbox # <<>> /\ Head(inbox).kind = "refusal" /\ inbox' = Tail(inbox)
    <3>1. inbox' \in Seq(Frames)
      BY <2>1, HeadTailProperties
    <3>2. \A i \in 1..Len(inbox') : inbox'[i].kind = "message"
      BY <2>1, ServedOn
    <3>3. Stream(inbox', pushing', sentIds') /\ After(inbox', pushing', 0) = After(inbox, pushing, 0)
      BY <2>1, <1>1, StreamGoesOn
    <3> QED
      BY <3>1, <3>2, <3>3
  <2>2. CASE inbox' = inbox /\ \A i \in 1..Len(inbox) : inbox[i].kind # "refusal"
    BY <2>2, <1>1, <1>8, <1>9
  <2> QED
    BY <2>1, <2>2, <1>1
<1>11. Served(inbox', pending', atServer')
  BY <1>1, <1>10, ServedNew
<1>12. Gone'
  BY <1>1 DEF Gone
<1>13. WireInv'
  BY <1>1, <1>6, <1>10, <1>11, <1>12, WireHolds
<1>14. Head(pending).arg \notin saved
  BY <1>1 DEF Gone, Asked
<1> QED
  BY <1>1, <1>2, <1>3, <1>4, <1>7, <1>10, <1>13, <1>14

LEMMA DropKeepsWire ==
  ASSUME WireInv, DropSocket
  PROVE  /\ WireInv' /\ After(inbox', pushing', 0) = {pushing} \ {0} /\ pending' = <<>>
         /\ {pushing} \ {0} \in SUBSET After(inbox, pushing, 0)
<1>1. /\ inbox' = <<>> /\ pending' = <<>> /\ atServer' = "new" /\ online' = FALSE
      /\ snapshot' = NoAnswer /\ saved' = saved /\ sentIds' = sentIds /\ pushing' = pushing
  BY DEF DropSocket, serverSide
<1> USE WireFacts
<1>2. Stream(inbox', pushing', sentIds') /\ After(inbox', pushing', 0) = {pushing} \ {0}
  BY <1>1, StreamCut
<1>3. \A i \in 1..Len(inbox') : inbox'[i].kind = "message"
  BY <1>1
<1>4. Served(inbox', pending', atServer')
  BY <1>1, <1>3, ServedNew
<1>5. Queued(pending', sentIds') /\ pending' \in Seq(Command) /\ inbox' \in Seq(Frames)
  BY <1>1 DEF Queued
<1>6. Gone'
  BY <1>1 DEF Gone
<1>7. WireInv'
  BY <1>1, <1>2, <1>3, <1>4, <1>5, <1>6, NoAnswerIsOne, WireHolds
<1>8. {pushing} \ {0} \in SUBSET After(inbox, pushing, 0)
  BY AfterMembers
<1> QED
  BY <1>1, <1>2, <1>7, <1>8

LEMMA RestoreKeepsWire == ASSUME WireInv, RestoreSocket PROVE WireInv'
<1>1. /\ ~online /\ online' = TRUE /\ inbox' = inbox /\ pending' = pending
      /\ atServer' = atServer /\ snapshot' = snapshot
      /\ saved' = saved /\ sentIds' = sentIds /\ pushing' = pushing
  BY DEF RestoreSocket, serverSide
<1> USE WireFacts
<1>2. inbox = <<>> /\ atServer = "new"
  BY <1>1
<1>3. Gone'
  BY <1>1, <1>2 DEF Gone
<1> QED
  BY <1>1, <1>2, <1>3, WireHolds

LEMMA WireStays ==
  ASSUME WireInv, serverSide' = serverSide, wireSide' = wireSide
  PROVE  WireInv'
<1>1. /\ online' = online /\ inbox' = inbox /\ pending' = pending
      /\ atServer' = atServer /\ snapshot' = snapshot
      /\ saved' = saved /\ sentIds' = sentIds /\ pushing' = pushing
  BY DEF serverSide, wireSide
<1>2. Gone'
  BY <1>1, WireFacts DEF Gone, Asked
<1> QED
  BY <1>1, <1>2, WireFacts, WireHolds

(* The list of a channel, by what it is compared with: what the pagination *)
(* says, the messages to come, the rows of the table and the deletes that  *)
(* are under way.                                                          *)
CoveredBy(p, last, come) ==
    {m \in 1..last : /\ p.hasMore => m >= p.cursor
                     /\ IF p.hasMoreNewer THEN m <= p.newer ELSE m \notin come}

Solid(s, p, last, come, held, going) ==
    /\ Rising(s) /\ ToSet(s) \subseteq CoveredBy(p, last, come)
    /\ (held \intersect CoveredBy(p, last, come)) \ going \subseteq ToSet(s)

PageRight(p, last, come, spoilt) ==
    /\ p.hasMore => p.cursor <= last
    /\ p.hasMoreNewer => p.newer <= last /\ \A m \in come : p.newer < m
    /\ p.known /\ ~spoilt /\ p.hasMore =>
          /\ p.cursor # 0 /\ \A m \in come : p.cursor < m
          /\ p.hasMoreNewer => p.cursor <= p.newer

Stands(todo, op, i) == i \in 1..Len(todo) /\ todo[i].op = op /\ ~todo[i].stale

Asks(todo, p) ==
    /\ \A i : Stands(todo, "older", i) =>
          /\ p.hasMore /\ p.loadingMore /\ todo[i].arg = p.cursor
          /\ \A j : Stands(todo, "older", j) => i = j
    /\ \A i : Stands(todo, "after", i) =>
          /\ p.hasMoreNewer /\ p.loadingNewer /\ todo[i].arg = p.newer
          /\ \A j : Stands(todo, "after", j) => i = j

Going(todo) == {todo[i].arg : i \in {j \in 1..Len(todo) : todo[j].op = "delete"}}

LEMMA AsksIs == AskedInv <=> (~broken => Asks(pending, page))
<1>1. \A op, i : i \in Standing(op) <=> Stands(pending, op, i)
  BY DEF Standing, Stands
<1> QED
  BY <1>1 DEF AskedInv, Asks

LEMMA AsksIsNext == AskedInv' <=> (~broken' => Asks(pending', page'))
<1>1. \A op, i : i \in Standing(op)' <=> Stands(pending', op, i)
  BY DEF Standing, Stands
<1> QED
  BY <1>1 DEF AskedInv, Asks

LEMMA ListFacts ==
  ASSUME ListInv
  PROVE  /\ ListTypeOK /\ ToSet(list) \subseteq 1..sentIds
         /\ PageRight(page, sentIds, After(inbox, pushing, 0), broken)
         /\ ~broken => Asks(pending, page)
         /\ page.known /\ ~broken =>
              Solid(list, page, sentIds, After(inbox, pushing, 0), saved, Going(pending))
<1>1. PageRight(page, sentIds, After(inbox, pushing, 0), broken)
  BY ToComeIsAfter DEF ListInv, PageInv, PageRight
<1>2. ASSUME page.known /\ ~broken
      PROVE  Solid(list, page, sentIds, After(inbox, pushing, 0), saved, Going(pending))
  <2>1. Covered = CoveredBy(page, sentIds, After(inbox, pushing, 0))
    BY ToComeIsAfter DEF Covered, CoveredBy
  <2>2. BeingDeleted = Going(pending)
    BY DEF BeingDeleted, Going
  <2> QED
    BY <1>2, <2>1, <2>2 DEF ListInv, Contiguous, Solid, Rising
<1> QED
  BY <1>1, <1>2, AsksIs DEF ListInv, PageInv

LEMMA ListHolds ==
  ASSUME ListTypeOK', ToSet(list') \subseteq 1..sentIds',
         PageRight(page', sentIds', After(inbox', pushing', 0), broken'),
         ~broken' => Asks(pending', page'),
         page'.known /\ ~broken' =>
           Solid(list', page', sentIds', After(inbox', pushing', 0), saved', Going(pending'))
  PROVE  ListInv'
<1>1. PageInv'
  BY ToComeIsAfterNext DEF PageInv, PageRight
<1>2. Contiguous'
  <2>1. Covered' = CoveredBy(page', sentIds', After(inbox', pushing', 0))
    BY ToComeIsAfterNext DEF Covered, CoveredBy
  <2>2. BeingDeleted' = Going(pending')
    BY DEF BeingDeleted, Going
  <2> QED
    BY <2>1, <2>2 DEF Contiguous, Solid, Rising
<1> QED
  BY <1>1, <1>2, AsksIsNext DEF ListInv

(* A command more, and a command less.                                     *)
LEMMA AsksMore ==
  ASSUME NEW todo \in Seq(Command), NEW c \in Command, NEW p, NEW q, Asks(todo, p),
         q.hasMore = p.hasMore, q.hasMoreNewer = p.hasMoreNewer,
         q.cursor = p.cursor, q.newer = p.newer,
         p.loadingMore => q.loadingMore, p.loadingNewer => q.loadingNewer,
         c.op = "older" => /\ p.hasMore /\ ~p.loadingMore /\ c.arg = p.cursor
                           /\ q.loadingMore,
         c.op = "after" => /\ p.hasMoreNewer /\ ~p.loadingNewer /\ c.arg = p.newer
                           /\ q.loadingNewer
  PROVE  /\ Asks(Append(todo, c), q)
         /\ Going(todo) \subseteq Going(Append(todo, c))
         /\ c.op = "delete" => c.arg \in Going(Append(todo, c))
<1> DEFINE r == Append(todo, c)
           n == Len(todo) + 1
<1>1. /\ Len(todo) \in Nat /\ Len(r) = n
      /\ \A k \in 1..Len(todo) : r[k] = todo[k]
      /\ r[n] = c
  OBVIOUS
<1> HIDE DEF r
<1>2. \A k : k \in 1..Len(r) <=> k = n \/ k \in 1..Len(todo)
  BY <1>1
<1> HIDE DEF n
<1>3. \A op, i : Stands(r, op, i) => (Stands(todo, op, i) /\ r[i] = todo[i]) \/ (i = n /\ c.op = op)
  BY <1>1, <1>2 DEF Stands
<1>4. ASSUME NEW i, Stands(r, "older", i)
      PROVE  /\ q.hasMore /\ q.loadingMore /\ r[i].arg = q.cursor
             /\ \A j : Stands(r, "older", j) => i = j
  <2>1. CASE c.op = "older"
    <3>1. \A j : ~Stands(todo, "older", j)
      BY <2>1 DEF Asks
    <3>2. \A j : Stands(r, "older", j) => j = n
      BY <3>1, <1>3
    <3> QED
      BY <2>1, <3>2, <1>1, <1>4
  <2>2. CASE c.op # "older"
    <3>1. \A j : Stands(r, "older", j) => Stands(todo, "older", j) /\ r[j] = todo[j]
      BY <2>2, <1>3
    <3> QED
      BY <3>1, <1>4 DEF Asks
  <2> QED
    BY <2>1, <2>2
<1>5. ASSUME NEW i, Stands(r, "after", i)
      PROVE  /\ q.hasMoreNewer /\ q.loadingNewer /\ r[i].arg = q.newer
             /\ \A j : Stands(r, "after", j) => i = j
  <2>1. CASE c.op = "after"
    <3>1. \A j : ~Stands(todo, "after", j)
      BY <2>1 DEF Asks
    <3>2. \A j : Stands(r, "after", j) => j = n
      BY <3>1, <1>3
    <3> QED
      BY <2>1, <3>2, <1>1, <1>5
  <2>2. CASE c.op # "after"
    <3>1. \A j : Stands(r, "after", j) => Stands(todo, "after", j) /\ r[j] = todo[j]
      BY <2>2, <1>3
    <3> QED
      BY <3>1, <1>5 DEF Asks
  <2> QED
    BY <2>1, <2>2
<1>6. Going(todo) \subseteq Going(r)
  <2>1. ASSUME NEW i \in 1..Len(todo), todo[i].op = "delete" PROVE todo[i].arg \in Going(r)
    <3>1. i \in 1..Len(r) /\ r[i] = todo[i]
      BY <1>1, <1>2
    <3> QED
      BY <3>1, <2>1 DEF Going
  <2> QED
    BY <2>1 DEF Going
<1>7. c.op = "delete" => c.arg \in Going(r)
  <2>1. n \in 1..Len(r) /\ r[n] = c
    BY <1>1, <1>2
  <2> QED
    BY <2>1 DEF Going
<1> QED
  BY <1>4, <1>5, <1>6, <1>7 DEF Asks, r

LEMMA AsksLess ==
  ASSUME NEW todo \in Seq(Command), todo # <<>>, NEW r, Len(r) = Len(todo) - 1,
         \A i \in 1..Len(r) :
               /\ i + 1 \in 1..Len(todo)
               /\ r[i].op = todo[i + 1].op /\ r[i].arg = todo[i + 1].arg
               /\ ~r[i].stale => ~todo[i + 1].stale,
         NEW p, Asks(todo, p)
  PROVE  /\ Asks(r, p)
         /\ Head(todo).op = "older" /\ ~Head(todo).stale =>
               /\ p.hasMore /\ Head(todo).arg = p.cursor /\ \A i : ~Stands(r, "older", i)
         /\ Head(todo).op = "after" /\ ~Head(todo).stale =>
               /\ p.hasMoreNewer /\ Head(todo).arg = p.newer /\ \A i : ~Stands(r, "after", i)
<1>1. /\ Len(todo) \in Nat /\ Len(todo) # 0 /\ Head(todo) = todo[1] /\ 1 \in 1..Len(todo)
  <2>1. Len(todo) \in Nat /\ Len(todo) # 0 /\ Head(todo) = todo[1]
    BY HeadTailProperties
  <2> QED
    BY <2>1
<1>2. \A i \in 1..Len(r) : i + 1 # 1
  BY <1>1
<1>3. \A i, j \in 1..Len(r) : i + 1 = j + 1 => i = j
  BY <1>1
<1>4. \A op, i : Stands(r, op, i) =>
         i \in 1..Len(r) /\ Stands(todo, op, i + 1) /\ r[i].arg = todo[i + 1].arg
  BY DEF Stands
<1>5. Asks(r, p)
  BY <1>3, <1>4 DEF Asks
<1>6. \A op : Head(todo).op = op /\ ~Head(todo).stale => Stands(todo, op, 1)
  BY <1>1 DEF Stands
<1>7. ASSUME Head(todo).op = "older" /\ ~Head(todo).stale
      PROVE  /\ p.hasMore /\ Head(todo).arg = p.cursor /\ \A i : ~Stands(r, "older", i)
  BY <1>1, <1>2, <1>4, <1>6, <1>7 DEF Asks
<1>8. ASSUME Head(todo).op = "after" /\ ~Head(todo).stale
      PROVE  /\ p.hasMoreNewer /\ Head(todo).arg = p.newer /\ \A i : ~Stands(r, "after", i)
  BY <1>1, <1>2, <1>4, <1>6, <1>8 DEF Asks
<1> QED
  BY <1>5, <1>7, <1>8

LEMMA GoingLess ==
  ASSUME NEW todo \in Seq(Command), todo # <<>>, NEW r, NEW n, n = Len(todo) - 1,
         \A i \in 1..n : i \in 1..Len(r) /\ r[i].op = todo[i + 1].op /\ r[i].arg = todo[i + 1].arg
  PROVE  \A m \in Going(todo) : m \in Going(r) \/ (Head(todo).op = "delete" /\ m = Head(todo).arg)
<1>1. Len(todo) \in Nat /\ Len(todo) # 0 /\ Head(todo) = todo[1]
  BY HeadTailProperties
<1>2. ASSUME NEW k \in 1..Len(todo), todo[k].op = "delete"
      PROVE  todo[k].arg \in Going(r) \/ (Head(todo).op = "delete" /\ todo[k].arg = Head(todo).arg)
  <2>1. CASE k = 1
    BY <2>1, <1>1, <1>2
  <2>2. CASE k # 1
    <3> DEFINE i == k - 1
    <3>1. i \in 1..n /\ i + 1 = k
      BY <2>2, <1>1
    <3> HIDE DEF i
    <3>2. i \in 1..Len(r) /\ r[i].op = "delete" /\ r[i].arg = todo[k].arg
      BY <3>1, <1>2
    <3> QED
      BY <3>2 DEF Going
  <2> QED
    BY <2>1, <2>2
<1>3. ASSUME NEW m \in Going(todo)
      PROVE  \E k \in 1..Len(todo) : todo[k].op = "delete" /\ m = todo[k].arg
  BY DEF Going
<1> QED
  BY <1>2, <1>3

(* Steps that leave the list alone ...                                     *)
LEMMA ListStays ==
  ASSUME ListInv, After(inbox', pushing', 0) = After(inbox, pushing, 0),
         sentIds' = sentIds, saved' \subseteq saved, pending' = pending, list' = list,
         page' = page, broken' = broken, loaded' = loaded, pageSeen' \in BOOLEAN
  PROVE  ListInv'
<1> USE ListFacts
<1>1. ListTypeOK'
  BY DEF ListTypeOK
<1>2. page'.known /\ ~broken' =>
        Solid(list', page', sentIds', After(inbox', pushing', 0), saved', Going(pending'))
  BY DEF Solid
<1> QED
  BY <1>1, <1>2, ListHolds

(* ... or ask for more of it, or for a message to be deleted.              *)
LEMMA ListAsks ==
  ASSUME WireInv, ListInv, NEW op, NEW arg, Requests(op, arg),
         op \in {"first", "older", "tail", "reload", "around", "after", "delete"}, arg \in Nat,
         inbox' = inbox, pushing' = pushing, sentIds' = sentIds, saved' = saved,
         broken' = broken, loaded' \in BOOLEAN, pageSeen' = pageSeen, page' \in Pagination,
         page'.known = page.known, page'.hasMore = page.hasMore,
         page'.hasMoreNewer = page.hasMoreNewer, page'.cursor = page.cursor,
         page'.newer = page.newer, page.loadingMore => page'.loadingMore,
         page.loadingNewer => page'.loadingNewer,
         op = "older" => page.hasMore /\ ~page.loadingMore /\ arg = page.cursor /\ page'.loadingMore,
         op = "after" => page.hasMoreNewer /\ ~page.loadingNewer /\ arg = page.newer /\ page'.loadingNewer,
         list' = list \/ (op = "delete" /\ list' = Without(list, arg))
  PROVE  ListInv'
<1> USE ListFacts, WireFacts
<1> DEFINE c == [op |-> op, arg |-> arg, stale |-> FALSE]
           come == After(inbox, pushing, 0)
<1>1. c \in Command /\ c.op = op /\ c.arg = arg /\ pending' = Append(pending, c)
  BY DEF Requests, Command
<1> HIDE DEF c, come
<1>2. ASSUME Asks(pending, page)
      PROVE  /\ Asks(pending', page') /\ Going(pending) \subseteq Going(pending')
             /\ op = "delete" => arg \in Going(pending')
  BY <1>1, <1>2, AsksMore
<1>3. list' \in Seq(Nat) /\ (Rising(list) => Rising(list'))
      /\ ToSet(list') \subseteq ToSet(list)
      /\ \A m \in ToSet(list) : m \in ToSet(list') \/ (op = "delete" /\ m = arg)
  <2>1. list \in Seq(Nat)
    BY DEF ListTypeOK
  <2>2. CASE list' = list
    BY <2>1, <2>2
  <2>3. CASE op = "delete" /\ list' = Without(list, arg)
    BY <2>1, <2>3, WithoutFacts
  <2> QED
    BY <2>2, <2>3
<1>4. ListTypeOK'
  BY <1>3 DEF ListTypeOK
<1>5. PageRight(page', sentIds', After(inbox', pushing', 0), broken')
  BY DEF PageRight
<1>6. CoveredBy(page', sentIds', After(inbox', pushing', 0)) = CoveredBy(page, sentIds, come)
  BY DEF CoveredBy, come
<1>7. ASSUME page'.known, ~broken'
      PROVE  Solid(list', page', sentIds', After(inbox', pushing', 0), saved', Going(pending'))
  <2>1. Solid(list, page, sentIds, come, saved, Going(pending))
    BY <1>7 DEF come
  <2> QED
    BY <2>1, <1>2, <1>3, <1>6, <1>7 DEF Solid
<1> QED
  BY <1>2, <1>3, <1>4, <1>5, <1>7, ListHolds

LEMMA SaveKeepsList == ASSUME WireInv, ListInv, SaveMessage PROVE ListInv'
<1>1. /\ pushing = 0 /\ sentIds' = sentIds + 1 /\ saved' = saved \union {sentIds'}
      /\ pushing' = sentIds' /\ inbox' = inbox /\ pending' = pending
      /\ list' = list /\ page' = page /\ loaded' = loaded /\ pageSeen' = pageSeen
      /\ broken' = broken
  BY DEF SaveMessage, wireSide, listSide
<1> USE ListFacts, WireFacts
<1> DEFINE come == After(inbox, pushing, 0)
           new == sentIds + 1
<1>2. After(inbox', pushing', 0) = come \union {new}
  <2>1. inbox \in Seq(Frames) /\ sentIds \in Nat /\ Stream(inbox, 0, sentIds)
    BY <1>1
  <2>2. \A i : After(inbox, sentIds + 1, i) = After(inbox, 0, i) \union {sentIds + 1}
    BY <2>1, StreamSaves
  <2> QED
    BY <2>2, <1>1
<1> HIDE DEF come
<1>3. ListTypeOK' /\ ToSet(list') \subseteq 1..sentIds'
  BY <1>1 DEF ListTypeOK
<1>4. page \in Pagination /\ page.cursor \in Nat /\ page.newer \in Nat
      /\ page.hasMore \in BOOLEAN /\ page.hasMoreNewer \in BOOLEAN
  BY DEF ListTypeOK, Pagination
<1>5. PageRight(page, sentIds, come, broken)
  BY DEF come
<1>6. /\ page.hasMore => page.cursor <= new /\ page.cursor < new
      /\ page.hasMoreNewer => page.newer <= new /\ page.newer < new
  <2>1. (page.hasMore => page.cursor <= sentIds) /\ (page.hasMoreNewer => page.newer <= sentIds)
    BY <1>5 DEF PageRight
  <2> QED
    BY <2>1, <1>4
<1>7. PageRight(page', sentIds', After(inbox', pushing', 0), broken')
  <2>1. PageRight(page, new, come \union {new}, broken)
    BY <1>5, <1>6 DEF PageRight
  <2> QED
    BY <2>1, <1>1, <1>2
<1>8. CoveredBy(page, new, come \union {new}) = CoveredBy(page, sentIds, come)
  <2>1. \A m \in 1..sentIds : m # new
    OBVIOUS
  <2>2. \A m : m \in 1..new <=> m \in 1..sentIds \/ m = new
    OBVIOUS
  <2>3. page.hasMoreNewer => ~(new <= page.newer)
    BY <1>4, <1>6
  <2> HIDE DEF new
  <2>4. new \notin CoveredBy(page, new, come \union {new})
    BY <2>3 DEF CoveredBy
  <2>5. ASSUME NEW m \in 1..sentIds
        PROVE  m \in CoveredBy(page, new, come \union {new}) <=> m \in CoveredBy(page, sentIds, come)
    BY <2>1, <2>2 DEF CoveredBy
  <2>6. \A m : /\ m \in CoveredBy(page, new, come \union {new}) => m \in 1..new
               /\ m \in CoveredBy(page, sentIds, come) => m \in 1..sentIds
    BY DEF CoveredBy
  <2> QED
    BY <2>2, <2>4, <2>5, <2>6
<1>9. ASSUME page'.known, ~broken'
      PROVE  Solid(list', page', sentIds', After(inbox', pushing', 0), saved', Going(pending'))
  <2>1. Solid(list, page, sentIds, come, saved, Going(pending))
    BY <1>1, <1>9 DEF come
  <2>2. new \notin CoveredBy(page, sentIds, come)
    <3>1. new \notin 1..sentIds
      OBVIOUS
    <3> QED
      BY <3>1 DEF CoveredBy
  <2>3. saved' = saved \union {new}
    BY <1>1
  <2>4. Solid(list, page, new, come \union {new}, saved \union {new}, Going(pending))
    BY <2>1, <2>2, <1>8 DEF Solid
  <2> QED
    BY <2>3, <2>4, <1>1, <1>2
<1> QED
  BY <1>1, <1>3, <1>7, <1>9, ListHolds

LEMMA PushKeepsList == ASSUME WireInv, ListInv, PushMessage PROVE ListInv'
<1>1. /\ saved' = saved /\ sentIds' = sentIds /\ pending' = pending
      /\ list' = list /\ page' = page /\ loaded' = loaded /\ pageSeen' = pageSeen
      /\ broken' = (broken \/ ~online) /\ pushing' = 0 /\ (~online => inbox' = inbox)
  BY DEF PushMessage, listSide
<1> USE ListFacts, WireFacts
<1>2. CASE online
  <2>1. broken' = broken
    BY <1>1, <1>2 DEF ListTypeOK
  <2> QED
    BY <2>1, <1>1, <1>2, PushKeepsWire, ListStays DEF ListTypeOK
<1>3. CASE ~online
  <2>1. broken' = TRUE
    BY <1>1, <1>3
  <2>2. After(inbox', pushing', 0) = {}
    <3>1. inbox' = <<>> /\ pushing' = 0 /\ 0 \in {0, sentIds}
      BY <1>1, <1>3
    <3> QED
      BY <3>1, StreamCut
  <2>3. ListTypeOK'
    BY <1>1, <2>1 DEF ListTypeOK
  <2>4. PageRight(page', sentIds', After(inbox', pushing', 0), broken')
    BY <1>1, <2>1, <2>2 DEF PageRight
  <2> QED
    BY <1>1, <2>1, <2>3, <2>4, ListHolds
<1> QED
  BY <1>2, <1>3

(* A live message joins a list that is the tail of the channel; one that   *)
(* was dropped matters to no other list.                                   *)
LEMMA MessageKeepsList == ASSUME WireInv, ListInv, ReceiveMessage \/ MissMessage PROVE ListInv'
<1> DEFINE m == Head(inbox).id
           come == After(inbox, pushing, 0)
           left == After(inbox', pushing', 0)
<1>1. /\ saved' = saved /\ sentIds' = sentIds /\ pending' = pending
      /\ list' = list \/ list' = Append(list, m)
      /\ page' = page /\ loaded' = loaded /\ pageSeen' = pageSeen
  BY DEF ReceiveMessage, MissMessage, AppendMessage, serverSide
<1> USE ListFacts, WireFacts
<1>2. m \in 1..sentIds /\ come = m..sentIds /\ left = (m + 1)..sentIds
  BY MessageKeepsWire
<1>3. PageRight(page, sentIds, come, broken)
  OBVIOUS
<1>4. page.known /\ ~broken => Solid(list, page, sentIds, come, saved, Going(pending))
  OBVIOUS
<1> HIDE DEF m, come, left
<1>5. m \in come /\ left \subseteq come /\ m \notin left /\ come = left \union {m} /\ m \in Nat
  BY <1>2
<1>6. list \in Seq(Nat) /\ page \in Pagination /\ pageSeen \in BOOLEAN /\ broken \in BOOLEAN
      /\ loaded \in BOOLEAN
  BY DEF ListTypeOK
<1>7. page.cursor \in Nat /\ page.newer \in Nat
      /\ page.hasMore \in BOOLEAN /\ page.hasMoreNewer \in BOOLEAN
  BY <1>6 DEF Pagination
<1>8. /\ Append(list, m) \in Seq(Nat) /\ ToSet(Append(list, m)) = ToSet(list) \union {m}
      /\ Rising(list) /\ (\A x \in ToSet(list) : x < m) => Rising(Append(list, m))
  <2> DEFINE r == Append(list, m)
             n == Len(list) + 1
  <2>1. /\ Len(list) \in Nat /\ Len(r) = n /\ r \in Seq(Nat)
        /\ \A k \in 1..Len(list) : r[k] = list[k]
        /\ r[n] = m
    BY <1>5, <1>6
  <2> HIDE DEF r
  <2>2. \A k : k \in 1..Len(r) <=> k = n \/ k \in 1..Len(list)
    BY <2>1
  <2>3. ToSet(r) = ToSet(list) \union {m}
    <3>1. ASSUME NEW x \in ToSet(r) PROVE x \in ToSet(list) \/ x = m
      <4>1. PICK k \in 1..Len(r) : x = r[k]
        BY <2>1 DEF ToSet
      <4>2. CASE k = n
        BY <4>1, <4>2, <2>1
      <4>3. CASE k \in 1..Len(list)
        <5>1. x = list[k]
          BY <4>1, <4>3, <2>1
        <5>2. list[k] \in ToSet(list)
          BY <4>3, <1>6 DEF ToSet
        <5> QED
          BY <5>1, <5>2
      <4> QED
        BY <4>1, <4>2, <4>3, <2>2
    <3>2. ASSUME NEW x \in ToSet(list) PROVE x \in ToSet(r)
      <4>1. PICK k \in 1..Len(list) : x = list[k]
        BY <1>6 DEF ToSet
      <4>2. k \in 1..Len(r) /\ r[k] = x
        BY <4>1, <2>1, <2>2
      <4>3. k \in DOMAIN r
        BY <4>2, <2>1
      <4> QED
        BY ONLY <4>2, <4>3 DEF ToSet
    <3>3. m \in ToSet(r)
      <4>1. n \in 1..Len(r) /\ r[n] = m
        BY <2>1, <2>2
      <4>2. n \in DOMAIN r
        BY <4>1, <2>1
      <4> QED
        BY ONLY <4>1, <4>2 DEF ToSet
    <3> QED
      BY <3>1, <3>2, <3>3
  <2>4. ASSUME Rising(list), \A x \in ToSet(list) : x < m,
               NEW i \in 1..Len(r), NEW j \in 1..Len(r), i < j
        PROVE  r[i] < r[j]
    <3>1. i \in 1..Len(list)
      BY <2>1, <2>2, <2>4
    <3>2. r[i] = list[i] /\ list[i] \in ToSet(list)
      BY <3>1, <2>1, <1>6 DEF ToSet
    <3>3. CASE j \in 1..Len(list)
      BY <3>1, <3>2, <3>3, <2>1, <2>4 DEF Rising
    <3>4. CASE j = n
      BY <3>2, <3>4, <2>1, <2>4
    <3> QED
      BY <3>3, <3>4, <2>2
  <2> QED
    BY <2>1, <2>3, <2>4 DEF r, Rising
<1>0. /\ broken' \in BOOLEAN /\ (broken => broken')
      /\ ~broken' => pageSeen = page.hasMoreNewer
      /\ ~broken' => list' = IF pageSeen THEN list ELSE Append(list, m)
  <2>1. CASE ReceiveMessage
    BY <2>1, <1>6 DEF ReceiveMessage, AppendMessage, Rendered, m
  <2>2. CASE MissMessage
    BY <2>2, <1>6 DEF MissMessage, Rendered
  <2> QED
    BY <2>1, <2>2
<1>9. ListTypeOK' /\ ToSet(list') \subseteq 1..sentIds'
  BY <1>0, <1>1, <1>2, <1>6, <1>8 DEF ListTypeOK
<1>10. PageRight(page', sentIds', left, broken')
  BY <1>0, <1>1, <1>3, <1>5, <1>6 DEF PageRight
<1>11. ~broken' => ~broken /\ pageSeen = page.hasMoreNewer
  BY <1>0
<1>12. ASSUME page'.known, ~broken'
       PROVE  Solid(list', page', sentIds', left, saved', Going(pending'))
  <2>1. Solid(list, page, sentIds, come, saved, Going(pending)) /\ page.known /\ ~broken
    BY <1>1, <1>4, <1>11, <1>12
  <2>2. CASE page.hasMoreNewer
    <3>1. list' = list
      BY <1>0, <1>11, <1>12, <2>2
    <3>2. CoveredBy(page, sentIds, left) = CoveredBy(page, sentIds, come)
      BY <2>2 DEF CoveredBy
    <3> QED
      BY <3>1, <3>2, <2>1, <1>1 DEF Solid
  <2>3. CASE ~page.hasMoreNewer
    <3>1. list' = Append(list, m)
      BY <1>0, <1>11, <1>12, <2>3, <1>7
    <3>2. page.hasMore => m >= page.cursor
      <4>1. page.hasMore => page.cursor < m
        BY <1>3, <1>5, <2>1 DEF PageRight
      <4> QED
        BY <4>1, <1>5, <1>7
    <3>3. ASSUME NEW x
          PROVE  x \in CoveredBy(page, sentIds, left) <=> x \in CoveredBy(page, sentIds, come) \/ x = m
      BY <2>3, <3>2, <1>2, <1>5 DEF CoveredBy
    <3>4. ASSUME NEW x \in ToSet(list) PROVE x < m
      <4>1. x \in 1..sentIds /\ x \notin come
        BY <2>1, <2>3 DEF Solid, CoveredBy
      <4> QED
        BY <4>1, <1>2
    <3>5. Rising(list') /\ ToSet(list') = ToSet(list) \union {m}
      BY <3>1, <3>4, <2>1, <1>8 DEF Solid
    <3>6. Solid(list', page, sentIds, left, saved, Going(pending))
      BY <3>3, <3>5, <2>1 DEF Solid
    <3> QED
      BY <3>6, <1>1
  <2> QED
    BY <2>2, <2>3
<1>13. ~broken' => Asks(pending', page')
  BY <1>1, <1>11
<1> QED
  BY <1>9, <1>10, <1>12, <1>13, ListHolds DEF left

(* An answer that fits the tail holds what has gone by and nothing that is *)
(* still to come.                                                          *)
LEMMA FitsTailIs ==
  ASSUME NEW ask, NEW a \in Answer, FitsTail(ask, a), ask.op \in {"around", "after"},
         ~a.hasMoreNewer
  PROVE  /\ ToSet(a.ids) \intersect After(inbox, pushing, 0) = {}
         /\ \A m \in saved \ After(inbox, pushing, 0) : ask.arg < m => m \in ToSet(a.ids)
<1>1. a.ids \in Seq(Nat)
  BY DEF Answer
<1>2. /\ ToSet(a.ids) \intersect After(inbox, pushing, 0) = {}
      /\ \A m \in saved \ After(inbox, pushing, 0) : m > ask.arg => Contains(a.ids, m)
  BY ToComeIsAfter DEF FitsTail
<1>3. \A m : Contains(a.ids, m) => m \in ToSet(a.ids)
  BY <1>1 DEF Contains, ToSet
<1>4. \A m : ask.arg < m <=> m > ask.arg
  OBVIOUS
<1> QED
  BY <1>2, <1>3, <1>4

(* A window replaces whatever was shown.                                   *)
LEMMA WindowKeepsList == ASSUME WireInv, ListInv, ReceiveWindow PROVE ListInv'
<1> DEFINE a == Head(inbox).answer
           ask == Head(pending)
           come == After(inbox, pushing, 0)
<1>1. /\ inbox # <<>> /\ Head(inbox).kind = "page" /\ ask.op \in {"first", "tail", "around"}
      /\ list' = a.ids
      /\ page' = [NoPage EXCEPT !.known = TRUE, !.cursor = a.cursor,
                         !.hasMore = a.hasMore, !.newer = a.newer,
                         !.hasMoreNewer = a.hasMoreNewer]
      /\ broken' = ~FitsTail(ask, a)
      /\ loaded' = TRUE /\ Settle(TRUE) /\ pageSeen' = pageSeen
      /\ saved' = saved /\ sentIds' = sentIds /\ pushing' = pushing /\ online' = online
  BY DEF ReceiveWindow, Arrives, serverSide
<1> USE ListFacts, WireFacts
<1>2. /\ After(inbox', pushing', 0) = come
      /\ pending # <<>> /\ Head(inbox) \in Frames
      /\ AnswerRight(a, ask, come, saved, sentIds)
      /\ \A i \in 1..Len(pending') : pending'[i].stale
  BY <1>1, SettleKeepsWire
<1>3. a \in Answer
  BY <1>2 DEF Frames
<1> HIDE DEF a
<1>4. /\ a.ids \in Seq(Nat) /\ a.cursor \in Nat /\ a.hasMore \in BOOLEAN /\ a.newer \in Nat
      /\ a.hasMoreNewer \in BOOLEAN
  BY <1>3 DEF Answer
<1>5. page' = [known |-> TRUE, cursor |-> a.cursor, hasMore |-> a.hasMore, loadingMore |-> FALSE,
               newer |-> a.newer, hasMoreNewer |-> a.hasMoreNewer, loadingNewer |-> FALSE]
  BY <1>1 DEF NoPage
<1>6. /\ page' \in Pagination /\ page'.known /\ page'.cursor = a.cursor
      /\ page'.hasMore = a.hasMore /\ page'.newer = a.newer
      /\ page'.hasMoreNewer = a.hasMoreNewer
  BY <1>4, <1>5 DEF Pagination
<1>7. broken' \in BOOLEAN /\ (~broken' => FitsTail(ask, a))
  BY <1>1
<1>8. ListTypeOK'
  BY <1>1, <1>4, <1>6, <1>7 DEF ListTypeOK
<1>9. ask \in Command /\ ask.arg \in Nat
  BY <1>2, FirstCommand DEF Command
<1> HIDE DEF ask
<1>10. \A m \in come : m..sentIds \subseteq come
  BY DEF Stream, come
<1> HIDE DEF come
<1>11. /\ Rising(a.ids) /\ ToSet(a.ids) \subseteq 1..sentIds
       /\ Spanned(a, ask, come, saved) \subseteq ToSet(a.ids)
       /\ a.hasMore => a.cursor \in ToSet(a.ids) /\ \A m \in ToSet(a.ids) : a.cursor <= m
       /\ a.hasMoreNewer =>
             /\ a.newer \in ToSet(a.ids) /\ \A m \in ToSet(a.ids) : m <= a.newer
             /\ \A m \in come : a.newer < m
       /\ ask.op # "around" => ~a.hasMoreNewer /\ ToSet(a.ids) \intersect come = {}
  BY <1>1, <1>2 DEF AnswerRight
<1>12. ASSUME ~broken', ~a.hasMoreNewer
       PROVE  /\ ToSet(a.ids) \intersect come = {}
              /\ ask.op = "around" =>
                    \A m \in saved \ come : ask.arg < m => m \in ToSet(a.ids)
  <2>1. CASE ask.op = "around"
    BY <2>1, <1>3, <1>7, <1>12, FitsTailIs DEF come
  <2>2. CASE ask.op # "around"
    BY <2>2, <1>11
  <2> QED
    BY <2>1, <2>2
<1>13. PageRight(page', sentIds', come, broken')
  <2>1. (a.hasMore => a.cursor \in 1..sentIds) /\ (a.hasMoreNewer => a.newer \in 1..sentIds)
    BY <1>11
  <2>2. (a.hasMore => a.cursor <= sentIds /\ a.cursor # 0) /\ (a.hasMoreNewer => a.newer <= sentIds)
    BY <2>1
  <2>3. a.hasMore /\ a.hasMoreNewer => a.cursor <= a.newer
    BY <1>11
  <2>4. ASSUME a.hasMore, ~broken', NEW m \in come PROVE a.cursor < m
    <3>1. CASE a.hasMoreNewer
      <4>1. a.newer < m /\ a.cursor <= a.newer
        BY <3>1, <1>11, <2>3, <2>4
      <4>2. m \in Int
        BY <2>4, AfterMembers DEF come, Stream
      <4> QED
        BY <4>1, <4>2, <1>4
    <3>2. CASE ~a.hasMoreNewer
      <4>1. a.cursor \notin come /\ a.cursor \in 1..sentIds
        BY <3>2, <1>11, <1>12, <2>1, <2>4
      <4>2. m..sentIds \subseteq come /\ m \in Int
        BY <1>10, <2>4, AfterMembers DEF come, Stream
      <4>3. a.cursor \notin m..sentIds
        BY <4>1, <4>2
      <4> QED
        BY <4>1, <4>2, <4>3
    <3> QED
      BY <3>1, <3>2
  <2> QED
    BY <2>2, <2>3, <2>4, <1>1, <1>6, <1>11 DEF PageRight
<1>14. Asks(pending', page')
  <2>1. \A op, i : ~Stands(pending', op, i)
    BY <1>2 DEF Stands
  <2> QED
    BY <2>1 DEF Asks
<1>15. ASSUME ~broken'
       PROVE  Solid(list', page', sentIds', come, saved', Going(pending'))
  <2>1. ToSet(a.ids) \subseteq CoveredBy(page', sentIds, come)
    <3>1. ASSUME NEW m \in ToSet(a.ids) PROVE m \in CoveredBy(page', sentIds, come)
      <4>1. m \in 1..sentIds /\ (a.hasMore => m >= a.cursor)
        BY <1>4, <1>11
      <4>2. IF a.hasMoreNewer THEN m <= a.newer ELSE m \notin come
        BY <1>11, <1>12, <1>15
      <4> QED
        BY <4>1, <4>2, <1>6 DEF CoveredBy
    <3> QED
      BY <3>1
  <2>2. ASSUME NEW m \in saved, m \in CoveredBy(page', sentIds, come) PROVE m \in ToSet(a.ids)
    <3>1. /\ m \in 1..sentIds /\ (a.hasMore => m >= a.cursor)
          /\ IF a.hasMoreNewer THEN m <= a.newer ELSE m \notin come
      BY <2>2, <1>6 DEF CoveredBy
    <3>2. a.hasMore => a.cursor <= m
      BY <3>1, <1>4
    <3>3. CASE ask.op # "around"
      <4>1. ~a.hasMoreNewer /\ m \notin come
        BY <3>1, <3>3, <1>11
      <4>2. m \in Spanned(a, ask, come, saved)
        BY <4>1, <3>2, <3>3, <1>1, <2>2 DEF Spanned, ask
      <4> QED
        BY <4>2, <1>11
    <3>4. CASE ask.op = "around" /\ (a.hasMoreNewer \/ m <= ask.arg)
      <4>1. m \in Spanned(a, ask, come, saved)
        BY <3>1, <3>2, <3>4, <2>2 DEF Spanned
      <4> QED
        BY <4>1, <1>11
    <3>5. CASE ask.op = "around" /\ ~a.hasMoreNewer /\ ~(m <= ask.arg)
      <4>1. ask.arg < m
        BY <3>1, <3>5, <1>9
      <4> QED
        BY <4>1, <3>1, <3>5, <1>12, <1>15, <2>2
    <3> QED
      BY <3>3, <3>4, <3>5
  <2> QED
    BY <2>1, <2>2, <1>1, <1>11 DEF Solid
<1> QED
  BY <1>1, <1>2, <1>8, <1>11, <1>13, <1>14, <1>15, ListHolds

(* The messages to come are numbers.                                       *)
LEMMA ComeAreNumbers ==
  ASSUME WireInv
  PROVE  \A m \in After(inbox, pushing, 0) : m \in 1..sentIds
<1> USE WireFacts
<1>1. ASSUME NEW k \in (0 + 1)..Len(inbox), inbox[k].kind = "message"
      PROVE  inbox[k].id \in 1..sentIds
  <2>1. k \in 1..Len(inbox)
    OBVIOUS
  <2> QED
    BY <2>1, <1>1 DEF Stream
<1>2. pushing # 0 => pushing \in 1..sentIds
  OBVIOUS
<1> QED
  BY <1>1, <1>2, AfterMembers

(* A page in front of the list it was asked for.                           *)
LEMMA OlderKeepsList == ASSUME WireInv, ListInv, ReceiveOlder PROVE ListInv'
<1> DEFINE a == Head(inbox).answer
           ask == Head(pending)
           come == After(inbox, pushing, 0)
<1>1. /\ inbox # <<>> /\ Head(inbox).kind = "page" /\ ask.op = "older"
      /\ list' = a.ids \o list
      /\ page' = [page EXCEPT !.cursor = a.cursor, !.hasMore = a.hasMore, !.loadingMore = FALSE]
      /\ broken' = (broken \/ ask.stale)
      /\ loaded' = loaded /\ Settle(FALSE) /\ pageSeen' = pageSeen
      /\ saved' = saved /\ sentIds' = sentIds /\ pushing' = pushing /\ online' = online
  BY DEF ReceiveOlder, Arrives, Asked, serverSide
<1> USE ListFacts, WireFacts
<1>2. /\ After(inbox', pushing', 0) = come
      /\ pending # <<>> /\ Head(inbox) \in Frames
      /\ AnswerRight(a, ask, come, saved, sentIds)
      /\ Len(pending') = Len(pending) - 1
      /\ \A i \in 1..Len(pending') :
               /\ i + 1 \in 1..Len(pending)
               /\ pending'[i].op = pending[i + 1].op /\ pending'[i].arg = pending[i + 1].arg
               /\ ~pending'[i].stale => ~pending[i + 1].stale
  BY <1>1, SettleKeepsWire
<1>3. a \in Answer
  BY <1>2 DEF Frames
<1> HIDE DEF a
<1>4. /\ a.ids \in Seq(Nat) /\ a.cursor \in Nat /\ a.hasMore \in BOOLEAN
  BY <1>3 DEF Answer
<1>5. list \in Seq(Nat) /\ page \in Pagination /\ broken \in BOOLEAN
  BY DEF ListTypeOK
<1>6. /\ page' \in Pagination /\ page'.known = page.known /\ page'.cursor = a.cursor
      /\ page'.hasMore = a.hasMore /\ page'.newer = page.newer /\ page'.loadingMore = FALSE
      /\ page'.hasMoreNewer = page.hasMoreNewer /\ page'.loadingNewer = page.loadingNewer
  BY <1>1, <1>4, <1>5 DEF Pagination
<1>7. ask \in Command /\ ask.arg \in Nat /\ ask.stale \in BOOLEAN
  BY <1>2, FirstCommand DEF Command
<1>8. broken' \in BOOLEAN /\ (~broken' => ~broken /\ ~ask.stale)
  BY <1>1, <1>5, <1>7
<1>9. \A m \in come : m \in 1..sentIds
  BY ComeAreNumbers
<1> HIDE DEF come
<1>10. ASSUME ~broken'
       PROVE  /\ page.hasMore /\ ask.arg = page.cursor /\ Asks(pending', page')
  <2>1. /\ Asks(pending', page) /\ page.hasMore /\ ask.arg = page.cursor
        /\ \A i : ~Stands(pending', "older", i)
    BY <1>1, <1>2, <1>8, <1>10, AsksLess
  <2>2. Asks(pending', page')
    BY <2>1, <1>6 DEF Asks
  <2> QED
    BY <2>1, <2>2
<1> HIDE DEF ask
<1>11. /\ Rising(a.ids) /\ ToSet(a.ids) \subseteq 1..sentIds
       /\ Spanned(a, ask, come, saved) \subseteq ToSet(a.ids)
       /\ a.hasMore => a.cursor \in ToSet(a.ids) /\ \A m \in ToSet(a.ids) : a.cursor <= m
       /\ ~a.hasMoreNewer /\ \A m \in ToSet(a.ids) : m < ask.arg
  BY <1>1, <1>2 DEF AnswerRight, ask
<1>12. list' \in Seq(Nat) /\ ToSet(list') = ToSet(a.ids) \union ToSet(list)
  BY <1>1, <1>4, <1>5, JoinedMembers
<1>13. ListTypeOK' /\ ToSet(list') \subseteq 1..sentIds'
  BY <1>1, <1>6, <1>8, <1>11, <1>12 DEF ListTypeOK
<1>14. a.hasMore => a.cursor \in 1..sentIds /\ a.cursor < ask.arg
  BY <1>11
<1>15. PageRight(page, sentIds, come, broken)
  BY DEF come
<1>16. page.cursor \in Nat /\ page.newer \in Nat
  BY <1>5 DEF Pagination
<1>17. PageRight(page', sentIds', come, broken')
  <2>1. a.hasMore => a.cursor <= sentIds /\ a.cursor # 0
    BY <1>14
  <2>2. ASSUME page.known, ~broken', a.hasMore, NEW m \in come PROVE a.cursor < m
    <3>1. page.cursor < m /\ a.cursor < page.cursor /\ m \in Int
      BY <2>2, <1>8, <1>9, <1>10, <1>14, <1>15 DEF PageRight
    <3> QED
      BY <3>1, <1>4, <1>16
  <2>3. ASSUME page.known, ~broken', a.hasMore, page.hasMoreNewer PROVE a.cursor <= page.newer
    <3>1. page.cursor <= page.newer /\ a.cursor < page.cursor
      BY <2>3, <1>8, <1>10, <1>14, <1>15 DEF PageRight
    <3> QED
      BY <3>1, <1>4, <1>16
  <2> QED
    BY <2>1, <2>2, <2>3, <1>1, <1>6, <1>15 DEF PageRight
<1>18. ASSUME page'.known, ~broken'
       PROVE  Solid(list', page', sentIds', come, saved', Going(pending'))
  <2>1. /\ Solid(list, page, sentIds, come, saved, Going(pending))
        /\ page.known /\ ~broken /\ page.hasMore /\ ask.arg = page.cursor
    BY <1>6, <1>8, <1>10, <1>18 DEF come
  <2>2. \A m \in ToSet(list) : m \in 1..sentIds /\ m >= page.cursor /\ m \in CoveredBy(page, sentIds, come)
    BY <2>1 DEF Solid, CoveredBy
  <2>3. \A m \in ToSet(a.ids), n \in ToSet(list) : m < n
    <3>1. ASSUME NEW m \in ToSet(a.ids), NEW n \in ToSet(list) PROVE m < n
      <4>1. m \in 1..sentIds /\ n \in 1..sentIds /\ m < page.cursor /\ n >= page.cursor
        BY <2>1, <2>2, <1>11
      <4> QED
        BY <4>1, <1>16
    <3> QED
      BY <3>1
  <2>4. Rising(list')
    BY <2>1, <2>3, <1>1, <1>4, <1>5, <1>11, RisingOn DEF Solid
  <2>5. ASSUME NEW m \in ToSet(a.ids) PROVE m \in CoveredBy(page', sentIds, come)
    <3>1. m \in 1..sentIds /\ (a.hasMore => a.cursor <= m) /\ m < page.cursor
      BY <2>1, <1>11
    <3>2. a.hasMore => m >= a.cursor
      BY <3>1, <1>4
    <3>3. page.hasMoreNewer => m <= page.newer
      <4>1. page.hasMoreNewer => page.cursor <= page.newer
        BY <2>1, <1>15 DEF PageRight
      <4> QED
        BY <4>1, <3>1, <1>16
    <3>4. m \notin come
      <4>1. m \in come => page.cursor < m
        BY <2>1, <1>15 DEF PageRight
      <4> QED
        BY <4>1, <3>1, <1>16
    <3> QED
      BY <3>1, <3>2, <3>3, <3>4, <1>6 DEF CoveredBy
  <2>6. ASSUME NEW m \in ToSet(list) PROVE m \in CoveredBy(page', sentIds, come)
    <3>1. m \in 1..sentIds /\ m >= page.cursor
          /\ IF page.hasMoreNewer THEN m <= page.newer ELSE m \notin come
      BY <2>1, <2>2 DEF CoveredBy
    <3>2. a.hasMore => m >= a.cursor
      <4>1. a.hasMore => a.cursor < page.cursor
        BY <2>1, <1>14
      <4> QED
        BY <4>1, <3>1, <1>4, <1>16
    <3> QED
      BY <3>1, <3>2, <1>6 DEF CoveredBy
  <2>7. ASSUME NEW m \in saved, m \in CoveredBy(page', sentIds, come), m \notin Going(pending')
        PROVE  m \in ToSet(list')
    <3>1. /\ m \in 1..sentIds /\ (a.hasMore => m >= a.cursor)
          /\ IF page.hasMoreNewer THEN m <= page.newer ELSE m \notin come
      BY <2>7, <1>6 DEF CoveredBy
    <3>2. CASE m >= page.cursor
      <4>1. m \in CoveredBy(page, sentIds, come)
        BY <3>1, <3>2 DEF CoveredBy
      <4>2. m \notin Going(pending)
        <5> DEFINE n == Len(pending) - 1
        <5>1. \A i \in 1..n : /\ i \in 1..Len(pending')
                              /\ pending'[i].op = pending[i + 1].op /\ pending'[i].arg = pending[i + 1].arg
          BY <1>2
        <5> HIDE DEF n
        <5>2. \A x \in Going(pending) : x \in Going(pending') \/ Head(pending).op = "delete"
          BY <5>1, <1>2, GoingLess DEF n
        <5> QED
          BY <5>2, <2>7, <1>1 DEF ask
      <4> QED
        BY <4>1, <4>2, <2>1, <1>12 DEF Solid
    <3>3. CASE ~(m >= page.cursor)
      <4>1. m < ask.arg
        BY <3>1, <3>3, <2>1, <1>16
      <4>2. a.hasMore => a.cursor <= m
        BY <3>1, <1>4
      <4>3. m \in Spanned(a, ask, come, saved)
        BY <4>1, <4>2, <2>7, <1>1, <1>11 DEF Spanned, ask
      <4> QED
        BY <4>3, <1>11, <1>12
    <3> QED
      BY <3>2, <3>3
  <2> QED
    BY <2>4, <2>5, <2>6, <2>7, <1>1, <1>12 DEF Solid
<1> QED
  BY <1>1, <1>2, <1>10, <1>13, <1>17, <1>18, ListHolds

(* A page behind it.                                                       *)
LEMMA NewerKeepsList == ASSUME WireInv, ListInv, ReceiveNewer PROVE ListInv'
<1> DEFINE a == Head(inbox).answer
           ask == Head(pending)
           come == After(inbox, pushing, 0)
<1>1. /\ inbox # <<>> /\ Head(inbox).kind = "page" /\ ask.op = "after"
      /\ list' = list \o a.ids
      /\ page' = [page EXCEPT !.newer = a.newer, !.hasMoreNewer = a.hasMoreNewer,
                              !.loadingNewer = FALSE]
      /\ broken' = (broken \/ ask.stale \/ ~FitsTail(ask, a))
      /\ loaded' = loaded /\ Settle(FALSE) /\ pageSeen' = pageSeen
      /\ saved' = saved /\ sentIds' = sentIds /\ pushing' = pushing /\ online' = online
  BY DEF ReceiveNewer, Arrives, Asked, serverSide
<1> USE ListFacts, WireFacts
<1>2. /\ After(inbox', pushing', 0) = come
      /\ pending # <<>> /\ Head(inbox) \in Frames
      /\ AnswerRight(a, ask, come, saved, sentIds)
      /\ Len(pending') = Len(pending) - 1
      /\ \A i \in 1..Len(pending') :
               /\ i + 1 \in 1..Len(pending)
               /\ pending'[i].op = pending[i + 1].op /\ pending'[i].arg = pending[i + 1].arg
               /\ ~pending'[i].stale => ~pending[i + 1].stale
  BY <1>1, SettleKeepsWire
<1>3. a \in Answer
  BY <1>2 DEF Frames
<1> HIDE DEF a
<1>4. /\ a.ids \in Seq(Nat) /\ a.newer \in Nat /\ a.hasMoreNewer \in BOOLEAN
  BY <1>3 DEF Answer
<1>5. list \in Seq(Nat) /\ page \in Pagination /\ broken \in BOOLEAN
  BY DEF ListTypeOK
<1>6. /\ page' \in Pagination /\ page'.known = page.known /\ page'.cursor = page.cursor
      /\ page'.hasMore = page.hasMore /\ page'.newer = a.newer
      /\ page'.hasMoreNewer = a.hasMoreNewer /\ page'.loadingMore = page.loadingMore
  BY <1>1, <1>4, <1>5 DEF Pagination
<1>7. ask \in Command /\ ask.arg \in Nat /\ ask.stale \in BOOLEAN
  BY <1>2, FirstCommand DEF Command
<1>8. broken' \in BOOLEAN /\ (~broken' => ~broken /\ ~ask.stale /\ FitsTail(ask, a))
  BY <1>1, <1>5, <1>7
<1>9. \A m \in come : m \in 1..sentIds
  BY ComeAreNumbers
<1> HIDE DEF come
<1>10. ASSUME ~broken'
       PROVE  /\ page.hasMoreNewer /\ ask.arg = page.newer /\ Asks(pending', page')
  <2>1. /\ Asks(pending', page) /\ page.hasMoreNewer /\ ask.arg = page.newer
        /\ \A i : ~Stands(pending', "after", i)
    BY <1>1, <1>2, <1>8, <1>10, AsksLess
  <2>2. Asks(pending', page')
    BY <2>1, <1>6 DEF Asks
  <2> QED
    BY <2>1, <2>2
<1> HIDE DEF ask
<1>11. /\ Rising(a.ids) /\ ToSet(a.ids) \subseteq 1..sentIds
       /\ Spanned(a, ask, come, saved) \subseteq ToSet(a.ids)
       /\ a.hasMoreNewer =>
             /\ a.newer \in ToSet(a.ids) /\ \A m \in ToSet(a.ids) : m <= a.newer
             /\ \A m \in come : a.newer < m
       /\ ~a.hasMore /\ \A m \in ToSet(a.ids) : ask.arg < m
  BY <1>1, <1>2 DEF AnswerRight, ask
<1>12. list' \in Seq(Nat) /\ ToSet(list') = ToSet(list) \union ToSet(a.ids)
  BY <1>1, <1>4, <1>5, JoinedMembers
<1>13. ListTypeOK' /\ ToSet(list') \subseteq 1..sentIds'
  BY <1>1, <1>6, <1>8, <1>11, <1>12 DEF ListTypeOK
<1>14. a.hasMoreNewer => a.newer \in 1..sentIds /\ ask.arg < a.newer
  BY <1>11
<1>15. PageRight(page, sentIds, come, broken)
  BY DEF come
<1>16. page.cursor \in Nat /\ page.newer \in Nat
  BY <1>5 DEF Pagination
<1>17. PageRight(page', sentIds', come, broken')
  <2>1. a.hasMoreNewer => a.newer <= sentIds
    BY <1>14
  <2>2. ASSUME page.known, ~broken', page.hasMore
        PROVE  page.cursor # 0 /\ \A m \in come : page.cursor < m
    BY <2>2, <1>8, <1>15 DEF PageRight
  <2>3. ASSUME page.known, ~broken', page.hasMore, a.hasMoreNewer PROVE page.cursor <= a.newer
    <3>1. page.cursor <= page.newer /\ page.newer < a.newer
      BY <2>3, <1>8, <1>10, <1>14, <1>15 DEF PageRight
    <3> QED
      BY <3>1, <1>4, <1>16
  <2>4. page.hasMore => page.cursor <= sentIds
    BY <1>15 DEF PageRight
  <2> QED
    BY <2>1, <2>2, <2>3, <2>4, <1>1, <1>6, <1>11 DEF PageRight
<1>18. ASSUME page'.known, ~broken'
       PROVE  Solid(list', page', sentIds', come, saved', Going(pending'))
  <2>1. /\ Solid(list, page, sentIds, come, saved, Going(pending))
        /\ page.known /\ ~broken /\ page.hasMoreNewer /\ ask.arg = page.newer
    BY <1>6, <1>8, <1>10, <1>18 DEF come
  <2>2. \A m \in ToSet(list) :
           m \in 1..sentIds /\ m <= page.newer /\ (page.hasMore => m >= page.cursor)
    BY <2>1 DEF Solid, CoveredBy
  <2>3. \A m \in ToSet(list), n \in ToSet(a.ids) : m < n
    <3>1. ASSUME NEW m \in ToSet(list), NEW n \in ToSet(a.ids) PROVE m < n
      <4>1. m \in 1..sentIds /\ n \in 1..sentIds /\ page.newer < n /\ m <= page.newer
        BY <2>1, <2>2, <1>11
      <4> QED
        BY <4>1, <1>16
    <3> QED
      BY <3>1
  <2>4. Rising(list')
    BY <2>1, <2>3, <1>1, <1>4, <1>5, <1>11, RisingOn DEF Solid
  <2>5. \A m \in come : page.newer < m
    BY <2>1, <1>15 DEF PageRight
  <2>6. ~a.hasMoreNewer => /\ ToSet(a.ids) \intersect come = {}
                           /\ \A m \in saved \ come : ask.arg < m => m \in ToSet(a.ids)
    BY <1>1, <1>3, <1>8, <1>18, FitsTailIs DEF come, ask
  <2>7. ASSUME NEW m \in ToSet(a.ids) PROVE m \in CoveredBy(page', sentIds, come)
    <3>1. m \in 1..sentIds /\ page.newer < m
          /\ IF a.hasMoreNewer THEN m <= a.newer ELSE m \notin come
      BY <2>1, <2>6, <1>11
    <3>2. page.hasMore => m >= page.cursor
      <4>1. page.hasMore => page.cursor <= page.newer
        BY <2>1, <1>15 DEF PageRight
      <4> QED
        BY <4>1, <3>1, <1>16
    <3> QED
      BY <3>1, <3>2, <1>6 DEF CoveredBy
  <2>8. ASSUME NEW m \in ToSet(list) PROVE m \in CoveredBy(page', sentIds, come)
    <3>1. m \in 1..sentIds /\ m <= page.newer /\ (page.hasMore => m >= page.cursor)
      BY <2>2
    <3>2. a.hasMoreNewer => m <= a.newer
      <4>1. a.hasMoreNewer => page.newer < a.newer
        BY <2>1, <1>14
      <4> QED
        BY <4>1, <3>1, <1>4, <1>16
    <3>3. m \notin come
      <4>1. m \in come => page.newer < m
        BY <2>5
      <4> QED
        BY <4>1, <3>1, <1>16
    <3> QED
      BY <3>1, <3>2, <3>3, <1>6 DEF CoveredBy
  <2>9. ASSUME NEW m \in saved, m \in CoveredBy(page', sentIds, come), m \notin Going(pending')
        PROVE  m \in ToSet(list')
    <3>1. /\ m \in 1..sentIds /\ (page.hasMore => m >= page.cursor)
          /\ IF a.hasMoreNewer THEN m <= a.newer ELSE m \notin come
      BY <2>9, <1>6 DEF CoveredBy
    <3>2. CASE m <= page.newer
      <4>1. m \in CoveredBy(page, sentIds, come)
        BY <3>1, <3>2, <2>1 DEF CoveredBy
      <4>2. m \notin Going(pending)
        <5> DEFINE n == Len(pending) - 1
        <5>1. \A i \in 1..n : /\ i \in 1..Len(pending')
                              /\ pending'[i].op = pending[i + 1].op /\ pending'[i].arg = pending[i + 1].arg
          BY <1>2
        <5> HIDE DEF n
        <5>2. \A x \in Going(pending) : x \in Going(pending') \/ Head(pending).op = "delete"
          BY <5>1, <1>2, GoingLess DEF n
        <5> QED
          BY <5>2, <2>9, <1>1 DEF ask
      <4> QED
        BY <4>1, <4>2, <2>1, <1>12 DEF Solid
    <3>3. CASE ~(m <= page.newer)
      <4>1. ask.arg < m
        BY <3>1, <3>3, <2>1, <1>16
      <4>2. CASE a.hasMoreNewer
        <5>1. m \in Spanned(a, ask, come, saved)
          BY <4>1, <4>2, <3>1, <2>9, <1>1, <1>11 DEF Spanned, ask
        <5> QED
          BY <5>1, <1>11, <1>12
      <4>3. CASE ~a.hasMoreNewer
        BY <4>1, <4>3, <3>1, <2>6, <2>9, <1>12
      <4> QED
        BY <4>2, <4>3
    <3> QED
      BY <3>2, <3>3
  <2> QED
    BY <2>4, <2>7, <2>8, <2>9, <1>1, <1>12 DEF Solid
<1> QED
  BY <1>1, <1>2, <1>10, <1>13, <1>17, <1>18, ListHolds

(* The other answers.                                                      *)
LEMMA SettledListStays ==
  ASSUME WireInv, ListInv, inbox # <<>>, Head(inbox).kind # "message", Settle(FALSE),
         saved' = saved, sentIds' = sentIds, pushing' = pushing, online' = online,
         Head(pending).op # "delete", listSide' = listSide, broken' = broken
  PROVE  ListInv'
<1> USE ListFacts, WireFacts
<1>1. /\ After(inbox', pushing', 0) = After(inbox, pushing, 0)
      /\ pending # <<>> /\ Len(pending') = Len(pending) - 1
      /\ \A i \in 1..Len(pending') :
               /\ i + 1 \in 1..Len(pending)
               /\ pending'[i].op = pending[i + 1].op /\ pending'[i].arg = pending[i + 1].arg
               /\ ~pending'[i].stale => ~pending[i + 1].stale
  BY SettleKeepsWire
<1>2. list' = list /\ page' = page /\ loaded' = loaded /\ pageSeen' = pageSeen
  BY DEF listSide
<1>3. \A m \in Going(pending) : m \in Going(pending')
  <2> DEFINE n == Len(pending) - 1
  <2>1. \A i \in 1..n : /\ i \in 1..Len(pending')
                        /\ pending'[i].op = pending[i + 1].op /\ pending'[i].arg = pending[i + 1].arg
    BY <1>1
  <2> HIDE DEF n
  <2>2. \A x \in Going(pending) : x \in Going(pending') \/ Head(pending).op = "delete"
    BY <2>1, <1>1, GoingLess DEF n
  <2> QED
    BY <2>2
<1>4. ~broken' => Asks(pending', page')
  <2>1. ~broken => Asks(pending', page)
    BY <1>1, AsksLess
  <2> QED
    BY <2>1, <1>2
<1>5. ListTypeOK'
  BY <1>2 DEF ListTypeOK
<1>6. page'.known /\ ~broken' =>
        Solid(list', page', sentIds', After(inbox', pushing', 0), saved', Going(pending'))
  BY <1>1, <1>2, <1>3 DEF Solid
<1>7. PageRight(page', sentIds', After(inbox', pushing', 0), broken')
  BY <1>1, <1>2
<1>8. ToSet(list') \subseteq 1..sentIds'
  BY <1>2
<1> QED
  BY <1>4, <1>5, <1>6, <1>7, <1>8, ListHolds

LEMMA ReloadKeepsList == ASSUME WireInv, ListInv, ReceiveReload PROVE ListInv'
<1> DEFINE a == Head(inbox).answer
<1>1. /\ inbox # <<>> /\ Head(inbox).kind = "page"
      /\ list' = a.ids /\ page' = page /\ broken' = TRUE
      /\ loaded' = loaded /\ Settle(TRUE) /\ pageSeen' = pageSeen
      /\ saved' = saved /\ sentIds' = sentIds /\ pushing' = pushing /\ online' = online
  BY DEF ReceiveReload, Arrives, serverSide
<1> USE ListFacts, WireFacts
<1>2. /\ After(inbox', pushing', 0) = After(inbox, pushing, 0)
      /\ Head(inbox) \in Frames
      /\ AnswerRight(a, Head(pending), After(inbox, pushing, 0), saved, sentIds)
  BY <1>1, SettleKeepsWire
<1>3. a \in Answer
  BY <1>2 DEF Frames
<1> HIDE DEF a
<1>4. a.ids \in Seq(Nat) /\ ToSet(a.ids) \subseteq 1..sentIds
  BY <1>2, <1>3 DEF Answer, AnswerRight
<1>5. ListTypeOK'
  BY <1>1, <1>4 DEF ListTypeOK
<1>6. PageRight(page', sentIds', After(inbox', pushing', 0), broken')
  BY <1>1, <1>2 DEF PageRight
<1> QED
  BY <1>1, <1>4, <1>5, <1>6, ListHolds

(* A deletion that failed was of a message that is gone.                   *)
LEMMA FailKeepsList == ASSUME WireInv, ListInv, DeleteFails PROVE ListInv'
<1> USE ListFacts, WireFacts
<1>1. /\ saved' = saved /\ sentIds' = sentIds /\ list' = list /\ page' = page
      /\ loaded' = loaded /\ pageSeen' = pageSeen /\ broken' = broken
  BY DEF DeleteFails, serverSide, listSide
<1> DEFINE n == Len(pending) - 1
<1>2. /\ After(inbox', pushing', 0) = After(inbox, pushing, 0)
      /\ pending # <<>> /\ Head(pending).op = "delete" /\ Head(pending).arg \notin saved
      /\ Len(pending') = n + 1 /\ n \in Nat /\ n = Len(pending) - 1
      /\ \A i \in 1..n : i + 1 \in 1..Len(pending) /\ pending'[i] = pending[i + 1]
      /\ pending'[n + 1].op = "reload"
  BY FailKeepsWire
<1> HIDE DEF n
<1>3. \A i \in 1..n : i \in 1..Len(pending')
  BY <1>2
<1>4. \A m \in Going(pending) : m \in Going(pending') \/ m \notin saved
  <2>1. \A i \in 1..n : /\ i \in 1..Len(pending')
                        /\ pending'[i].op = pending[i + 1].op /\ pending'[i].arg = pending[i + 1].arg
    BY <1>2, <1>3
  <2>2. \A x \in Going(pending) : x \in Going(pending') \/ x = Head(pending).arg
    BY <2>1, <1>2, GoingLess
  <2> QED
    BY <2>2, <1>2
<1>5. ASSUME Asks(pending, page) PROVE Asks(pending', page')
  <2>1. \A i : i \in 1..Len(pending') => i \in 1..n \/ i = n + 1
    BY <1>2
  <2>2. ASSUME NEW op, op # "reload", NEW i, Stands(pending', op, i)
        PROVE  i \in 1..n /\ Stands(pending, op, i + 1) /\ pending'[i].arg = pending[i + 1].arg
    <3>1. i \in 1..n
      BY <2>1, <2>2, <1>2 DEF Stands
    <3> QED
      BY <3>1, <2>2, <1>2 DEF Stands
  <2>3. \A i, j \in 1..n : i + 1 = j + 1 => i = j
    BY <1>2
  <2> QED
    BY <2>2, <2>3, <1>1, <1>5 DEF Asks
<1>6. ListTypeOK' /\ ToSet(list') \subseteq 1..sentIds'
  BY <1>1 DEF ListTypeOK
<1>7. page'.known /\ ~broken' =>
        Solid(list', page', sentIds', After(inbox', pushing', 0), saved', Going(pending'))
  BY <1>1, <1>2, <1>4 DEF Solid
<1>8. PageRight(page', sentIds', After(inbox', pushing', 0), broken')
  BY <1>1, <1>2
<1>9. ~broken' => Asks(pending', page')
  BY <1>1, <1>5
<1> QED
  BY <1>6, <1>7, <1>8, <1>9, ListHolds

(* A lost connection leaves the list right if nothing for it was lost.     *)
LEMMA DropKeepsList == ASSUME WireInv, ListInv, DropSocket PROVE ListInv'
<1> DEFINE come == After(inbox, pushing, 0)
           left == After(inbox', pushing', 0)
<1>1. /\ saved' = saved /\ sentIds' = sentIds /\ list' = list
      /\ page' = [page EXCEPT !.loadingMore = FALSE, !.loadingNewer = FALSE]
      /\ loaded' = loaded /\ pageSeen' = pageSeen
      /\ broken' = (broken \/ come \ {pushing} # {}
                     \/ \E i \in 1..Len(pending) : pending[i].op = "delete")
  BY ToComeIsAfter DEF DropSocket, serverSide
<1> USE ListFacts, WireFacts
<1>2. left = {pushing} \ {0} /\ pending' = <<>> /\ left \subseteq come
  BY DropKeepsWire
<1> HIDE DEF come, left
<1>3. page \in Pagination /\ broken \in BOOLEAN /\ list \in Seq(Nat)
  BY DEF ListTypeOK
<1>4. /\ page' \in Pagination /\ page'.known = page.known /\ page'.cursor = page.cursor
      /\ page'.hasMore = page.hasMore /\ page'.newer = page.newer
      /\ page'.hasMoreNewer = page.hasMoreNewer
  BY <1>1, <1>3 DEF Pagination
<1>5. /\ broken' \in BOOLEAN
      /\ ~broken' => /\ ~broken /\ come \ {pushing} = {}
                     /\ \A i \in 1..Len(pending) : pending[i].op # "delete"
  BY <1>1, <1>3
<1>6. ListTypeOK' /\ ToSet(list') \subseteq 1..sentIds'
  BY <1>1, <1>4, <1>5 DEF ListTypeOK
<1>7. PageRight(page', sentIds', left, broken')
  <2>1. PageRight(page, sentIds, come, broken)
    BY DEF come
  <2> QED
    BY <2>1, <1>1, <1>2, <1>4, <1>5 DEF PageRight
<1>8. Asks(pending', page')
  <2>1. \A op, i : ~Stands(pending', op, i)
    BY <1>2 DEF Stands
  <2> QED
    BY <2>1 DEF Asks
<1>9. ASSUME page'.known, ~broken'
      PROVE  Solid(list', page', sentIds', left, saved', Going(pending'))
  <2>1. Solid(list, page, sentIds, come, saved, Going(pending))
    BY <1>4, <1>5, <1>9 DEF come
  <2>2. come = left
    <3>1. \A m \in come : m # 0
      <4>1. \A m \in come : m \in 1..sentIds
        BY ComeAreNumbers DEF come
      <4> QED
        BY <4>1
    <3> QED
      BY <3>1, <1>2, <1>5, <1>9
  <2>3. Going(pending) = {}
    BY <1>5, <1>9 DEF Going
  <2>4. CoveredBy(page', sentIds, left) = CoveredBy(page, sentIds, come)
    BY <2>2, <1>4 DEF CoveredBy
  <2> QED
    BY <2>1, <2>3, <2>4, <1>1 DEF Solid
<1> QED
  BY <1>6, <1>7, <1>8, <1>9, ListHolds DEF left

-----------------------------------------------------------------------------
(* Every step of the channel                                               *)

LEMMA MessageInitInv == ASSUME MessageInit PROVE MessageInv
<1>1. /\ saved = 1..History /\ sentIds = History /\ pushing = 0
      /\ online = TRUE /\ inbox = <<>> /\ pending = <<>> /\ atServer = "new"
      /\ snapshot = NoAnswer
      /\ list = <<>> /\ page = NoPage /\ loaded = FALSE /\ pageSeen = FALSE
      /\ broken = FALSE
  BY DEF MessageInit
<1>2. History \in Nat
  BY MessageAssumption
<1>3. ~ \E i \in 1..Len(<<>>) : TRUE
  OBVIOUS
<1>4. NoPage \in Pagination /\ ~NoPage.known /\ ~NoPage.hasMore /\ ~NoPage.hasMoreNewer
  BY DEF NoPage, Pagination
<1>5. WireTypeOK /\ ListTypeOK
  <2>1. \A S : <<>> \in Seq(S)
    OBVIOUS
  <2>2. ListTypeOK
    <3>1. list \in Seq(Nat)
      BY <1>1, <2>1
    <3> QED
      BY <3>1, <1>1, <1>4, Zenon DEF ListTypeOK
  <2>3. /\ saved \subseteq 1..sentIds /\ sentIds \in Nat
        /\ pushing \in Nat /\ pushing \in {0, sentIds}
    BY <1>1, <1>2
  <2>4. /\ online \in BOOLEAN /\ broken \in BOOLEAN
        /\ atServer \in {"new", "read", "done"} /\ snapshot \in Answer
    BY <1>1, NoAnswerIsOne
  <2> QED
    BY <2>1, <2>2, <2>3, <2>4, <1>1 DEF WireTypeOK
<1>6. StreamInv
  <2>1. Stream(<<>>, 0, History)
    BY <1>2, StreamCut
  <2> QED
    BY <2>1, <1>1, StreamIs
<1>7. CommandInv
  BY <1>1, <1>3 DEF CommandInv
<1>8. AnswersInv
  BY <1>1, <1>3 DEF AnswersInv
<1>9. PageInv
  BY <1>1, <1>3, <1>4 DEF PageInv, ToSet
<1>10. AskedInv
  BY <1>1, <1>3 DEF AskedInv, Standing
<1>11. Contiguous
  BY <1>1, <1>4 DEF Contiguous
<1> QED
  BY <1>5, <1>6, <1>7, <1>8, <1>9, <1>10, <1>11 DEF MessageInv, WireInv, ListInv

(* What the client asks for.                                               *)
LEMMA RequestKeepsInv ==
  ASSUME MessageInv,
         LoadFirst \/ LoadOlderMessages \/ LoadNewerMessages \/ ResetToLiveTail
         \/ \E m \in Nat : (m <= sentIds /\ JumpToMessage(m)) \/ HandleDeleteMessage(m)
  PROVE  MessageInv'
<1>0. WireInv /\ ListInv
  BY DEF MessageInv
<1> USE WireFacts, ListFacts
<1>1. /\ page \in Pagination /\ page.cursor \in Nat /\ page.newer \in Nat
      /\ page.loadingMore \in BOOLEAN /\ page.loadingNewer \in BOOLEAN
      /\ loaded \in BOOLEAN /\ list \in Seq(Nat)
  BY <1>0 DEF ListTypeOK, Pagination
<1>2. sentIds \in Nat /\ 0 <= sentIds
  BY <1>0
<1>3. CASE LoadFirst
  <2>1. /\ Requests("first", 0) /\ saved' = saved /\ sentIds' = sentIds /\ pushing' = pushing
        /\ online' = online /\ inbox' = inbox /\ atServer' = atServer /\ snapshot' = snapshot
        /\ list' = list /\ page' = page /\ loaded' = loaded /\ pageSeen' = pageSeen
        /\ broken' = broken
    BY <1>3 DEF LoadFirst, serverSide, listSide
  <2>2. WireInv'
    BY <2>1, <1>0, <1>2, RequestKeepsWire
  <2>3. ListInv'
    BY <2>1, <1>0, <1>1, ListAsks
  <2> QED
    BY <2>2, <2>3 DEF MessageInv
<1>4. CASE ResetToLiveTail
  <2>1. /\ Requests("tail", 0) /\ saved' = saved /\ sentIds' = sentIds /\ pushing' = pushing
        /\ online' = online /\ inbox' = inbox /\ atServer' = atServer /\ snapshot' = snapshot
        /\ list' = list /\ page' = page /\ loaded' = loaded /\ pageSeen' = pageSeen
        /\ broken' = broken
    BY <1>4 DEF ResetToLiveTail, serverSide, listSide
  <2>2. WireInv'
    BY <2>1, <1>0, <1>2, RequestKeepsWire
  <2>3. ListInv'
    BY <2>1, <1>0, <1>1, ListAsks
  <2> QED
    BY <2>2, <2>3 DEF MessageInv
<1>5. CASE LoadOlderMessages
  <2>1. /\ page.hasMore /\ ~page.loadingMore /\ page.cursor # 0 /\ Requests("older", page.cursor)
        /\ page' = [page EXCEPT !.loadingMore = TRUE]
        /\ saved' = saved /\ sentIds' = sentIds /\ pushing' = pushing
        /\ online' = online /\ inbox' = inbox /\ atServer' = atServer /\ snapshot' = snapshot
        /\ list' = list /\ loaded' = loaded /\ pageSeen' = pageSeen /\ broken' = broken
    BY <1>5 DEF LoadOlderMessages, serverSide
  <2>2. /\ page' \in Pagination /\ page'.known = page.known /\ page'.hasMore = page.hasMore
        /\ page'.hasMoreNewer = page.hasMoreNewer /\ page'.cursor = page.cursor
        /\ page'.newer = page.newer /\ page'.loadingMore
        /\ page'.loadingNewer = page.loadingNewer
    BY <2>1, <1>1 DEF Pagination
  <2>3. page.cursor <= sentIds
    BY <2>1, <1>0 DEF PageRight
  <2>4. WireInv'
    BY <2>1, <2>3, <1>0, <1>1, RequestKeepsWire
  <2>5. ListInv'
    BY <2>1, <2>2, <1>0, <1>1, ListAsks
  <2> QED
    BY <2>4, <2>5 DEF MessageInv
<1>6. CASE LoadNewerMessages
  <2>1. /\ page.hasMoreNewer /\ ~page.loadingNewer /\ Requests("after", page.newer)
        /\ page' = [page EXCEPT !.loadingNewer = TRUE]
        /\ saved' = saved /\ sentIds' = sentIds /\ pushing' = pushing
        /\ online' = online /\ inbox' = inbox /\ atServer' = atServer /\ snapshot' = snapshot
        /\ list' = list /\ loaded' = loaded /\ pageSeen' = pageSeen /\ broken' = broken
    BY <1>6 DEF LoadNewerMessages, serverSide
  <2>2. /\ page' \in Pagination /\ page'.known = page.known /\ page'.hasMore = page.hasMore
        /\ page'.hasMoreNewer = page.hasMoreNewer /\ page'.cursor = page.cursor
        /\ page'.newer = page.newer /\ page'.loadingNewer
        /\ page'.loadingMore = page.loadingMore
    BY <2>1, <1>1 DEF Pagination
  <2>3. page.newer <= sentIds
    BY <2>1, <1>0 DEF PageRight
  <2>4. WireInv'
    BY <2>1, <2>3, <1>0, <1>1, RequestKeepsWire
  <2>5. ListInv'
    BY <2>1, <2>2, <1>0, <1>1, ListAsks
  <2> QED
    BY <2>4, <2>5 DEF MessageInv
<1>7. ASSUME NEW m \in Nat, m <= sentIds, JumpToMessage(m) PROVE MessageInv'
  <2>1. /\ Requests("around", m) /\ saved' = saved /\ sentIds' = sentIds /\ pushing' = pushing
        /\ online' = online /\ inbox' = inbox /\ atServer' = atServer /\ snapshot' = snapshot
        /\ list' = list /\ page' = page /\ loaded' = TRUE /\ pageSeen' = pageSeen
        /\ broken' = broken
    BY <1>7 DEF JumpToMessage, serverSide
  <2>2. WireInv'
    BY <2>1, <1>0, <1>7, RequestKeepsWire
  <2>3. ListInv'
    BY <2>1, <1>0, <1>1, ListAsks
  <2> QED
    BY <2>2, <2>3 DEF MessageInv
<1>8. ASSUME NEW m \in Nat, HandleDeleteMessage(m) PROVE MessageInv'
  <2>1. /\ Requests("delete", m) /\ saved' = saved /\ sentIds' = sentIds /\ pushing' = pushing
        /\ online' = online /\ inbox' = inbox /\ atServer' = atServer /\ snapshot' = snapshot
        /\ list' = Without(list, m) /\ page' = page /\ loaded' = loaded /\ pageSeen' = pageSeen
        /\ broken' = broken /\ Contains(list, m)
    BY <1>8 DEF HandleDeleteMessage, serverSide
  <2>2. m \in 1..sentIds
    <3>1. m \in ToSet(list)
      BY <2>1, <1>1 DEF Contains, ToSet
    <3> QED
      BY <3>1, <1>0
  <2>3. m <= sentIds
    BY <2>2
  <2>4. WireInv'
    BY <2>1, <2>3, <1>0, RequestKeepsWire
  <2>5. ListInv'
    BY <2>1, <1>0, <1>1, ListAsks
  <2> QED
    BY <2>4, <2>5 DEF MessageInv
<1> QED
  BY <1>3, <1>4, <1>5, <1>6, <1>7, <1>8

(* What the hub does.                                                      *)
LEMMA ServingKeepsInv ==
  ASSUME MessageInv,
         SaveMessage \/ PushMessage \/ ServeGetMessages \/ ServeDelete \/ ReadAside \/ AnswerAside
         \/ \E m \in Nat : DeletedElsewhere(m)
  PROVE  MessageInv'
<1>0. WireInv /\ ListInv
  BY DEF MessageInv
<1>1. pageSeen \in BOOLEAN
  BY <1>0, ListFacts DEF ListTypeOK
<1>2. CASE SaveMessage
  BY <1>0, <1>2, SaveKeepsWire, SaveKeepsList DEF MessageInv
<1>3. CASE PushMessage
  BY <1>0, <1>3, PushKeepsWire, PushKeepsList DEF MessageInv
<1>4. CASE ServeGetMessages
  <2>1. WireInv' /\ After(inbox', pushing', 0) = After(inbox, pushing, 0)
    BY <1>0, <1>4, ServeKeepsWire
  <2>2. /\ sentIds' = sentIds /\ saved' = saved /\ pending' = pending /\ list' = list
        /\ page' = page /\ broken' = broken /\ loaded' = loaded /\ pageSeen' = pageSeen
    BY <1>4 DEF ServeGetMessages, serverSide, listSide
  <2> QED
    BY <2>1, <2>2, <1>0, <1>1, ListStays DEF MessageInv
<1>5. CASE ServeDelete
  <2>1. WireInv' /\ After(inbox', pushing', 0) = After(inbox, pushing, 0)
    BY <1>0, <1>5, ServeDeleteKeepsWire
  <2>2. /\ sentIds' = sentIds /\ saved' \subseteq saved /\ pending' = pending /\ list' = list
        /\ page' = page /\ broken' = broken /\ loaded' = loaded /\ pageSeen' = pageSeen
    BY <1>5 DEF ServeDelete, listSide
  <2> QED
    BY <2>1, <2>2, <1>0, <1>1, ListStays DEF MessageInv
<1>6. CASE ReadAside
  <2>1. WireInv'
    BY <1>0, <1>6, ReadKeepsWire
  <2>2. /\ sentIds' = sentIds /\ saved' = saved /\ pending' = pending /\ list' = list
        /\ page' = page /\ broken' = broken /\ loaded' = loaded /\ pageSeen' = pageSeen
        /\ inbox' = inbox /\ pushing' = pushing
    BY <1>6 DEF ReadAside, serverSide, listSide
  <2> QED
    BY <2>1, <2>2, <1>0, <1>1, ListStays DEF MessageInv
<1>7. CASE AnswerAside
  <2>1. WireInv' /\ After(inbox', pushing', 0) = After(inbox, pushing, 0)
    BY <1>0, <1>7, AsideKeepsWire
  <2>2. /\ sentIds' = sentIds /\ saved' = saved /\ pending' = pending /\ list' = list
        /\ page' = page /\ broken' = broken /\ loaded' = loaded /\ pageSeen' = pageSeen
    BY <1>7 DEF AnswerAside, serverSide, listSide
  <2> QED
    BY <2>1, <2>2, <1>0, <1>1, ListStays DEF MessageInv
<1>8. ASSUME NEW m \in Nat, DeletedElsewhere(m) PROVE MessageInv'
  <2>1. WireInv'
    BY <1>0, <1>8, DeletedKeepsWire
  <2>2. /\ sentIds' = sentIds /\ saved' \subseteq saved /\ pending' = pending /\ list' = list
        /\ page' = page /\ broken' = broken /\ loaded' = loaded /\ pageSeen' = pageSeen
        /\ inbox' = inbox /\ pushing' = pushing
    BY <1>8 DEF DeletedElsewhere, wireSide, listSide
  <2> QED
    BY <2>1, <2>2, <1>0, <1>1, ListStays DEF MessageInv
<1> QED
  BY <1>2, <1>3, <1>4, <1>5, <1>6, <1>7, <1>8

(* What reaches the client, and what happens to the connection.            *)
LEMMA ReceivingKeepsInv ==
  ASSUME MessageInv,
         ReceiveMessage \/ MissMessage \/ ReceiveWindow \/ ReceiveOlder \/ ReceiveNewer
         \/ ReceiveNotFound
         \/ ReceiveReload \/ DeleteFails \/ DropSocket \/ RestoreSocket \/ Render
         \/ UNCHANGED messageVars
  PROVE  MessageInv'
<1>0. WireInv /\ ListInv
  BY DEF MessageInv
<1>1. pageSeen \in BOOLEAN /\ page \in Pagination /\ page.hasMoreNewer \in BOOLEAN
  BY <1>0, ListFacts DEF ListTypeOK, Pagination
<1>2. CASE ReceiveMessage \/ MissMessage
  BY <1>0, <1>2, MessageKeepsWire, MessageKeepsList DEF MessageInv
<1>3. CASE ReceiveWindow
  <2>1. /\ inbox # <<>> /\ Head(inbox).kind # "message" /\ Settle(TRUE)
        /\ saved' = saved /\ sentIds' = sentIds /\ pushing' = pushing /\ online' = online
    BY <1>3 DEF ReceiveWindow, Arrives, serverSide
  <2> QED
    BY <2>1, <1>0, <1>3, SettleKeepsWire, WindowKeepsList DEF MessageInv
<1>4. CASE ReceiveOlder
  <2>1. /\ inbox # <<>> /\ Head(inbox).kind # "message" /\ Settle(FALSE)
        /\ saved' = saved /\ sentIds' = sentIds /\ pushing' = pushing /\ online' = online
    BY <1>4 DEF ReceiveOlder, Arrives, serverSide
  <2> QED
    BY <2>1, <1>0, <1>4, SettleKeepsWire, OlderKeepsList DEF MessageInv
<1>5. CASE ReceiveNewer
  <2>1. /\ inbox # <<>> /\ Head(inbox).kind # "message" /\ Settle(FALSE)
        /\ saved' = saved /\ sentIds' = sentIds /\ pushing' = pushing /\ online' = online
    BY <1>5 DEF ReceiveNewer, Arrives, serverSide
  <2> QED
    BY <2>1, <1>0, <1>5, SettleKeepsWire, NewerKeepsList DEF MessageInv
<1>6. CASE ReceiveNotFound
  <2>1. /\ inbox # <<>> /\ Head(inbox).kind # "message" /\ Settle(FALSE)
        /\ Head(pending).op # "delete" /\ listSide' = listSide /\ broken' = broken
        /\ saved' = saved /\ sentIds' = sentIds /\ pushing' = pushing /\ online' = online
    BY <1>6 DEF ReceiveNotFound, Arrives, Asked, serverSide
  <2> QED
    BY <2>1, <1>0, SettleKeepsWire, SettledListStays DEF MessageInv
<1>7. CASE ReceiveReload
  <2>1. /\ inbox # <<>> /\ Head(inbox).kind # "message" /\ Settle(TRUE)
        /\ saved' = saved /\ sentIds' = sentIds /\ pushing' = pushing /\ online' = online
    BY <1>7 DEF ReceiveReload, Arrives, serverSide
  <2> QED
    BY <2>1, <1>0, <1>7, SettleKeepsWire, ReloadKeepsList DEF MessageInv
<1>8. CASE DeleteFails
  BY <1>0, <1>8, FailKeepsWire, FailKeepsList DEF MessageInv
<1>9. CASE DropSocket
  BY <1>0, <1>9, DropKeepsWire, DropKeepsList DEF MessageInv
<1>10. CASE RestoreSocket
  <2>1. WireInv'
    BY <1>0, <1>10, RestoreKeepsWire
  <2>2. /\ sentIds' = sentIds /\ saved' = saved /\ pending' = pending /\ list' = list
        /\ page' = page /\ broken' = broken /\ loaded' = loaded /\ pageSeen' = pageSeen
        /\ inbox' = inbox /\ pushing' = pushing
    BY <1>10 DEF RestoreSocket, serverSide, listSide
  <2> QED
    BY <2>1, <2>2, <1>0, <1>1, ListStays DEF MessageInv
<1>11. CASE Render
  <2>1. /\ serverSide' = serverSide /\ wireSide' = wireSide /\ list' = list
        /\ page' = page /\ broken' = broken /\ loaded' = loaded
        /\ pageSeen' = page.hasMoreNewer
    BY <1>11 DEF Render
  <2>2. sentIds' = sentIds /\ saved' = saved /\ pending' = pending /\ inbox' = inbox
        /\ pushing' = pushing
    BY <2>1 DEF serverSide, wireSide
  <2> QED
    BY <2>1, <2>2, <1>0, <1>1, WireStays, ListStays DEF MessageInv
<1>12. CASE UNCHANGED messageVars
  <2>1. /\ serverSide' = serverSide /\ wireSide' = wireSide /\ list' = list
        /\ page' = page /\ broken' = broken /\ loaded' = loaded /\ pageSeen' = pageSeen
    BY <1>12 DEF messageVars, listSide
  <2>2. sentIds' = sentIds /\ saved' = saved /\ pending' = pending /\ inbox' = inbox
        /\ pushing' = pushing
    BY <2>1 DEF serverSide, wireSide
  <2> QED
    BY <2>1, <2>2, <1>0, <1>1, WireStays, ListStays DEF MessageInv
<1> QED
  BY <1>2, <1>3, <1>4, <1>5, <1>6, <1>7, <1>8, <1>9, <1>10, <1>11, <1>12

LEMMA MessageNextInv == MessageInv /\ [MessageNext]_messageVars => MessageInv'
<1> SUFFICES ASSUME MessageInv, [MessageNext]_messageVars PROVE MessageInv'
  OBVIOUS
<1>1. \A m \in 1..MaxMessages : m \in Nat
  OBVIOUS
<1>2. \/ SaveMessage \/ PushMessage \/ ServeGetMessages \/ ServeDelete \/ ReadAside \/ AnswerAside
         \/ \E m \in Nat : DeletedElsewhere(m)
      \/ LoadFirst \/ LoadOlderMessages \/ LoadNewerMessages \/ ResetToLiveTail
         \/ \E m \in Nat : (m <= sentIds /\ JumpToMessage(m)) \/ HandleDeleteMessage(m)
      \/ ReceiveMessage \/ MissMessage \/ ReceiveWindow \/ ReceiveOlder \/ ReceiveNewer
         \/ ReceiveNotFound \/ ReceiveReload \/ DeleteFails \/ DropSocket \/ RestoreSocket \/ Render
         \/ UNCHANGED messageVars
  BY <1>1 DEF MessageNext
<1> QED
  BY <1>2, ServingKeepsInv, RequestKeepsInv, ReceivingKeepsInv

MessageSpec == MessageInit /\ [][MessageNext]_messageVars

(* The list, the wire and the pages asked for fit together (useMessages.ts *)
(* over the page queries of websocket.go), whatever the size of a page and *)
(* however many messages, commands and lost connections there are.         *)
THEOREM MessageInvHolds == MessageSpec => []MessageInv
<1>1. MessageInit => MessageInv
  BY MessageInitInv
<1> QED
  BY <1>1, MessageNextInv, PTL DEF MessageSpec

(* The list is a stretch of the channel without a hole (useMessages.ts):   *)
(* in order, each message once, every message between its two cursors, and *)
(* the whole tail when no newer page is announced, until one of the six    *)
(* things named at Contiguous happens to it.                               *)
THEOREM TheListIsContiguous == MessageSpec => []Contiguous
<1>1. MessageInv => Contiguous
  BY DEF MessageInv, ListInv
<1> QED
  BY <1>1, MessageInvHolds, PTL
=============================================================================
