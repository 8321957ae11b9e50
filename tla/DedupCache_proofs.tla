--------------------------- MODULE DedupCache_proofs ---------------------------
(***************************************************************************)
(* What the operations of the deduplication cache do to its length and its *)
(* entries: the lemmas the proofs of both consumers rest on.               *)
(***************************************************************************)
EXTENDS DedupCache, FiniteSetTheorems, TLAPS

(***************************************************************************)
(* Sequences.                                                              *)
(***************************************************************************)
\* Append adds its element to the range.
LEMMA RangeOfAppend ==
  ASSUME NEW S, NEW s \in Seq(S), NEW x \in S
  PROVE  Append(s, x) \in Seq(S) /\ Range(Append(s, x)) = Range(s) \cup {x}
<1>1. Append(s, x) \in Seq(S) /\ Len(Append(s, x)) = Len(s) + 1
  OBVIOUS
<1>2. \A i \in 1 .. Len(s) + 1 : Append(s, x)[i] = IF i = Len(s) + 1 THEN x ELSE s[i]
  OBVIOUS
<1> QED BY <1>1, <1>2 DEF Range

\* So does putting an element in front.
LEMMA RangeOfPush ==
  ASSUME NEW S, NEW s \in Seq(S), NEW x \in S
  PROVE  /\ <<x>> \o s \in Seq(S)
         /\ Len(<<x>> \o s) = Len(s) + 1
         /\ Range(<<x>> \o s) = Range(s) \cup {x}
<1> DEFINE t == <<x>> \o s
<1>1. t \in Seq(S) /\ Len(t) = Len(s) + 1
  OBVIOUS
<1>2. \A i \in 1 .. Len(s) + 1 : t[i] = IF i = 1 THEN x ELSE s[i - 1]
  OBVIOUS
<1> HIDE DEF t
<1>3. DOMAIN t = 1 .. Len(s) + 1 /\ DOMAIN s = 1 .. Len(s)
  BY <1>1
<1>4. Range(t) \subseteq Range(s) \cup {x}
  BY <1>2, <1>3 DEF Range
<1>5. x \in Range(t)
  BY <1>2, <1>3 DEF Range
<1>6. ASSUME NEW i \in DOMAIN s PROVE s[i] \in Range(t)
  <2>1. i + 1 \in DOMAIN t /\ t[i + 1] = s[i]
    BY <1>2, <1>3
  <2> QED BY <2>1 DEF Range
<1>7. Range(t) = Range(s) \cup {x}
  BY <1>4, <1>5, <1>6 DEF Range
<1> QED BY <1>1, <1>7 DEF t

\* A sequence has the elements of its head and its tail.
LEMMA RangeOfHeadAndTail ==
  ASSUME NEW S, NEW s \in Seq(S), s # <<>>
  PROVE  /\ Head(s) \in S /\ Tail(s) \in Seq(S)
         /\ Range(s) = {Head(s)} \cup Range(Tail(s))
<1>1. Head(s) \in S /\ Tail(s) \in Seq(S) /\ Len(Tail(s)) = Len(s) - 1 /\ Len(s) > 0
  OBVIOUS
<1>2. \A i \in 1 .. Len(s) - 1 : Tail(s)[i] = s[i + 1]
  OBVIOUS
<1>3. Head(s) = s[1]
  OBVIOUS
<1>4. Range(Tail(s)) \subseteq Range(s) /\ Head(s) \in Range(s)
  BY <1>1, <1>2, <1>3 DEF Range
<1>5. ASSUME NEW i \in 1 .. Len(s) PROVE s[i] = Head(s) \/ s[i] \in Range(Tail(s))
  <2>1. CASE i = 1 BY <2>1, <1>3
  <2>2. CASE i # 1
    <3>1. i - 1 \in 1 .. Len(s) - 1 /\ s[i] = Tail(s)[i - 1]
      BY <2>2, <1>1, <1>2
    <3>2. i - 1 \in DOMAIN Tail(s)
      BY <3>1, <1>1
    <3> QED BY <3>1, <3>2 DEF Range
  <2> QED BY <2>1, <2>2
<1> QED BY <1>1, <1>4, <1>5 DEF Range

\* Dropping the least recent entries adds nothing, and makes room in a full cache.
LEMMA CulledIsSmaller ==
  ASSUME NEW S, NEW s \in Seq(S), Len(s) <= CacheSize
  PROVE  /\ Culled(s) \in Seq(S)
         /\ Len(Culled(s)) < CacheSize
         /\ Range(Culled(s)) \subseteq Range(s)
<1> DEFINE n == Len(s) - (Len(s) \div 3)
<1>1. CASE Len(s) < CacheSize
  BY <1>1 DEF Culled
<1>2. CASE ~(Len(s) < CacheSize)
  <2>1. Len(s) = CacheSize /\ CacheSize \in Nat /\ CacheSize >= 3
    BY <1>2, CacheSizeAssumption
  <2>2. n \in Nat /\ n <= Len(s) /\ n < CacheSize
    BY <2>1
  <2>3. Culled(s) = SubSeq(s, 1, n)
    BY <1>2 DEF Culled
  <2> HIDE DEF n
  <2>4. SubSeq(s, 1, n) \in Seq(S) /\ Len(SubSeq(s, 1, n)) = n
    BY <2>2
  <2>5. \A i \in 1 .. n : SubSeq(s, 1, n)[i] = s[i]
    BY <2>2
  <2> QED BY <2>2, <2>3, <2>4, <2>5 DEF Range
<1> QED BY <1>1, <1>2

\* Marking a message keeps the cache within its limit.
LEMMA RememberFits ==
  ASSUME NEW S, NEW s \in Seq(S \ Unnamed), Len(s) <= CacheSize, NEW m \in S
  PROVE  /\ Remember(s, m) \in Seq(S \ Unnamed)
         /\ Len(Remember(s, m)) <= CacheSize
         /\ Range(Remember(s, m)) \subseteq Range(s) \cup {m}
<1>1. CASE m \in Unnamed BY <1>1 DEF Remember
<1>2. CASE m \notin Unnamed
  <2>1. /\ Culled(s) \in Seq(S \ Unnamed)
        /\ Len(Culled(s)) < CacheSize
        /\ Range(Culled(s)) \subseteq Range(s)
    BY CulledIsSmaller
  <2>2. Remember(s, m) = <<m>> \o Culled(s)
    BY <1>2 DEF Remember
  <2>3. m \in S \ Unnamed
    BY <1>2
  <2>4. /\ <<m>> \o Culled(s) \in Seq(S \ Unnamed)
        /\ Len(<<m>> \o Culled(s)) = Len(Culled(s)) + 1
        /\ Range(<<m>> \o Culled(s)) = Range(Culled(s)) \cup {m}
    BY <2>1, <2>3, RangeOfPush
  <2>5. Len(Culled(s)) \in Nat /\ CacheSize \in Nat
    BY <2>1, CacheSizeAssumption
  <2> QED BY <2>1, <2>2, <2>4, <2>5
<1> QED BY <1>1, <1>2

\* A look-up that finds its message reorders the cache.
LEMMA TouchReorders ==
  ASSUME NEW S, NEW s \in Seq(S), NEW m \in Range(s)
  PROVE  Touch(s, m) \in Seq(S) /\ Len(Touch(s, m)) = Len(s) /\ Range(Touch(s, m)) \subseteq Range(s)
<1> DEFINE i == CHOOSE i \in 1 .. Len(s) : s[i] = m
           a == SubSeq(s, 1, i - 1)
           b == SubSeq(s, i + 1, Len(s))
           r == RemoveAt(s, i)
<1>1. i \in 1 .. Len(s) /\ s[i] = m
  BY DEF Range
<1> HIDE DEF i
<1>2. a \in Seq(S) /\ Len(a) = i - 1 /\ \A j \in 1 .. i - 1 : a[j] = s[j]
  BY <1>1
<1>3. b \in Seq(S) /\ Len(b) = Len(s) - i /\ \A j \in 1 .. Len(s) - i : b[j] = s[j + i]
  BY <1>1
<1>a. r = a \o b
  BY DEF RemoveAt
<1> HIDE DEF a, b, r
<1>4. r \in Seq(S) /\ Len(r) = Len(s) - 1
  BY <1>1, <1>2, <1>3, <1>a
<1>5. \A j \in 1 .. Len(s) - 1 : r[j] = IF j < i THEN a[j] ELSE b[j - i + 1]
  BY <1>1, <1>2, <1>3, <1>a
<1>6. Range(r) \subseteq Range(s)
  <2>1. ASSUME NEW j \in DOMAIN r PROVE \E k \in DOMAIN s : r[j] = s[k]
    <3>1. j \in 1 .. Len(s) - 1 /\ DOMAIN s = 1 .. Len(s)
      BY <1>4
    <3>2. CASE j < i
      BY <3>1, <3>2, <1>1, <1>2, <1>5
    <3>3. CASE ~(j < i)
      <4>1. j - i + 1 \in 1 .. Len(s) - i /\ r[j] = b[j - i + 1]
        BY <3>1, <3>3, <1>1, <1>5
      <4>2. r[j] = s[j + 1] /\ j + 1 \in DOMAIN s
        BY <4>1, <3>1, <1>1, <1>3
      <4> QED BY <4>2
    <3> QED BY <3>2, <3>3
  <2> QED BY <2>1 DEF Range
<1>7. Touch(s, m) = <<m>> \o r
  BY DEF Touch, i, r
<1>8. m \in S
  BY <1>1
<1> QED BY <1>4, <1>6, <1>7, <1>8, RangeOfPush

(***************************************************************************)
(* A cache with room for all messages forgets none.                        *)
(***************************************************************************)
Distinct(s) == \A i, j \in 1 .. Len(s) : s[i] = s[j] => i = j

HasRoom(messages) ==
  /\ IsFiniteSet(messages \ Unnamed)
  /\ Cardinality(messages \ Unnamed) <= CacheSize

\* It is not full when a message is new to it.
LEMMA RoomForOneMore ==
  ASSUME NEW S, HasRoom(S), NEW s \in Seq(S \ Unnamed), Distinct(s),
         NEW m \in S \ Unnamed, m \notin Range(s)
  PROVE  Len(s) < CacheSize
<1> DEFINE R == Range(s)
<1>1. s \in [1 .. Len(s) -> R] /\ Len(s) \in Nat /\ R \subseteq S \ Unnamed
  BY DEF Range
<1>2. s \in Injection(1 .. Len(s), R)
  BY <1>1 DEF Distinct, Injection, IsInjective
<1>3. IsFiniteSet(R) /\ IsFiniteSet(R \cup {m}) /\ Cardinality(R) \in Nat
      /\ Cardinality(R \cup {m}) = Cardinality(R) + 1
  <2>1. IsFiniteSet(R)
    BY <1>1, FS_Subset DEF HasRoom
  <2> HIDE DEF R
  <2> QED BY <2>1, FS_AddElement, FS_CardinalityType DEF R
<1> HIDE DEF R
<1>4. Cardinality(R \cup {m}) <= Cardinality(S \ Unnamed)
  BY <1>1, FS_Subset DEF HasRoom
<1>5. Cardinality(1 .. Len(s)) <= Cardinality(R)
  BY <1>2, <1>3, FS_Injection
<1>6. Cardinality(1 .. Len(s)) = Len(s)
  <2>1. PICK n : n = Len(s)
    OBVIOUS
  <2>2. n \in Int /\ 1 \in Int /\ n >= 0
    BY <1>1, <2>1
  <2>3. Cardinality(1 .. n) = IF 1 > n THEN 0 ELSE n - 1 + 1
    BY <2>2, FS_Interval
  <2> QED BY <2>1, <2>2, <2>3
<1>7. Cardinality(S \ Unnamed) \in Nat /\ CacheSize \in Nat
  BY FS_CardinalityType, CacheSizeAssumption DEF HasRoom
<1> QED BY <1>1, <1>3, <1>4, <1>5, <1>6, <1>7 DEF HasRoom

LEMMA RememberKeepsAll ==
  ASSUME NEW S, HasRoom(S), NEW s \in Seq(S \ Unnamed), Distinct(s),
         NEW m \in S \ Unnamed, m \notin Range(s)
  PROVE  /\ Range(Remember(s, m)) = Range(s) \cup {m}
         /\ Distinct(Remember(s, m))
<1>1. Remember(s, m) = <<m>> \o s
  BY RoomForOneMore DEF Remember, Culled
<1>2. Range(<<m>> \o s) = Range(s) \cup {m} /\ Len(<<m>> \o s) = Len(s) + 1
  BY RangeOfPush
<1>3. \A i \in 1 .. Len(s) + 1 : (<<m>> \o s)[i] = IF i = 1 THEN m ELSE s[i - 1]
  OBVIOUS
<1>4. \A i \in 1 .. Len(s) : s[i] # m
  BY DEF Range
<1>5. Distinct(<<m>> \o s)
  BY <1>2, <1>3, <1>4 DEF Distinct
<1> QED BY <1>1, <1>2, <1>5

LEMMA TouchKeepsAll ==
  ASSUME NEW S, NEW s \in Seq(S), Distinct(s), NEW m \in Range(s)
  PROVE  Range(Touch(s, m)) = Range(s) /\ Distinct(Touch(s, m))
<1> DEFINE k == CHOOSE i \in 1 .. Len(s) : s[i] = m
           a == SubSeq(s, 1, k - 1)
           b == SubSeq(s, k + 1, Len(s))
           r == RemoveAt(s, k)
<1>1. k \in 1 .. Len(s) /\ s[k] = m
  BY DEF Range
<1> HIDE DEF k
<1>2. a \in Seq(S) /\ Len(a) = k - 1 /\ \A j \in 1 .. k - 1 : a[j] = s[j]
  BY <1>1
<1>3. b \in Seq(S) /\ Len(b) = Len(s) - k /\ \A j \in 1 .. Len(s) - k : b[j] = s[j + k]
  BY <1>1
<1>4. r = a \o b
  BY DEF RemoveAt
<1> HIDE DEF a, b, r
<1>5. r \in Seq(S) /\ Len(r) = Len(s) - 1
  BY <1>1, <1>2, <1>3, <1>4
<1>6. \A j \in 1 .. Len(s) - 1 : r[j] = IF j < k THEN s[j] ELSE s[j + 1]
  <2>1. \A j \in 1 .. Len(s) - 1 : r[j] = IF j < k THEN a[j] ELSE b[j - k + 1]
    BY <1>1, <1>2, <1>3, <1>4
  <2>2. ASSUME NEW j \in 1 .. Len(s) - 1, ~(j < k) PROVE b[j - k + 1] = s[j + 1]
    <3>1. j - k + 1 \in 1 .. Len(s) - k /\ (j - k + 1) + k = j + 1
      BY <1>1, <2>2
    <3> QED BY <1>3, <3>1
  <2> QED BY <1>1, <1>2, <2>1, <2>2
<1>7. Touch(s, m) = <<m>> \o r
  BY DEF Touch, k, r
<1>8. m \in S /\ Len(s) \in Nat
  BY <1>1
<1>9. \A i \in 1 .. Len(s) : (<<m>> \o r)[i] = IF i = 1 THEN m ELSE r[i - 1]
  BY <1>5, <1>8
<1>10. Len(<<m>> \o r) = Len(s) /\ Range(<<m>> \o r) = Range(r) \cup {m}
  BY <1>5, <1>8, RangeOfPush
<1>11. \A j \in 1 .. Len(s) - 1 : r[j] # m
  <2>1. \A i \in 1 .. Len(s) : i # k => s[i] # m
    BY <1>1 DEF Distinct
  <2> QED BY <1>1, <1>6, <2>1
<1>12. \A i, j \in 1 .. Len(s) - 1 : r[i] = r[j] => i = j
  <2>1. ASSUME NEW i \in 1 .. Len(s) - 1, NEW j \in 1 .. Len(s) - 1, r[i] = r[j]
        PROVE  i = j
    BY <1>1, <1>6, <2>1 DEF Distinct
  <2> QED BY <2>1
<1>13. Distinct(<<m>> \o r)
  <2>1. ASSUME NEW i \in 1 .. Len(s), NEW j \in 1 .. Len(s), i # 1, j # 1, r[i - 1] = r[j - 1]
        PROVE  i = j
    <3>1. i - 1 \in 1 .. Len(s) - 1 /\ j - 1 \in 1 .. Len(s) - 1
      BY <1>8, <2>1
    <3>2. i - 1 = j - 1
      BY <1>12, <2>1, <3>1
    <3> QED BY <3>1, <3>2
  <2>2. ASSUME NEW i \in 1 .. Len(s), i # 1 PROVE r[i - 1] # m
    BY <1>8, <1>11, <2>2
  <2> QED BY <1>9, <1>10, <2>1, <2>2 DEF Distinct
<1>14. Range(s) \subseteq Range(r) \cup {m}
  <2>1. ASSUME NEW i \in 1 .. Len(s), i # k PROVE \E j \in 1 .. Len(s) - 1 : r[j] = s[i]
    <3>1. CASE i < k
      <4>1. i \in 1 .. Len(s) - 1
        BY <1>1, <3>1
      <4> QED BY <1>6, <3>1, <4>1
    <3>2. CASE i > k
      <4>1. i - 1 \in 1 .. Len(s) - 1 /\ ~(i - 1 < k) /\ (i - 1) + 1 = i
        BY <1>1, <3>2
      <4> QED BY <1>6, <4>1
    <3> QED BY <1>1, <2>1, <3>1, <3>2
  <2>2. DOMAIN r = 1 .. Len(s) - 1 /\ DOMAIN s = 1 .. Len(s)
    BY <1>5, <1>8
  <2> QED BY <1>1, <2>1, <2>2 DEF Range
<1>15. Range(Touch(s, m)) \subseteq Range(s)
  BY TouchReorders
<1> QED BY <1>7, <1>10, <1>13, <1>14, <1>15

(***************************************************************************)
(* How often an element occurs in a sequence.                              *)
(***************************************************************************)
Positions(s, m) == {i \in 1 .. Len(s) : s[i] = m}

Occurrences(s, m) == Cardinality(Positions(s, m))

LEMMA PositionsFinite ==
  ASSUME NEW S, NEW s \in Seq(S), NEW m
  PROVE  IsFiniteSet(Positions(s, m)) /\ Occurrences(s, m) \in Nat
<1>1. Len(s) \in Int /\ 1 \in Int
  OBVIOUS
<1>2. IsFiniteSet(1 .. Len(s))
  BY <1>1, FS_Interval
<1>3. IsFiniteSet(Positions(s, m))
  BY <1>2, FS_Subset DEF Positions
<1> QED BY <1>3, FS_CardinalityType DEF Occurrences

LEMMA OccursInAppend ==
  ASSUME NEW S, NEW s \in Seq(S), NEW x \in S, NEW m
  PROVE  Occurrences(Append(s, x), m) = Occurrences(s, m) + IF x = m THEN 1 ELSE 0
<1>1. /\ Len(Append(s, x)) = Len(s) + 1 /\ Len(s) \in Nat
      /\ \A i \in 1 .. Len(s) + 1 : Append(s, x)[i] = IF i = Len(s) + 1 THEN x ELSE s[i]
  OBVIOUS
<1>2. IsFiniteSet(Positions(s, m)) /\ Occurrences(s, m) \in Nat
  BY PositionsFinite
<1>3. CASE x = m
  <2>1. Positions(Append(s, x), m) = Positions(s, m) \cup {Len(s) + 1}
    BY <1>1, <1>3 DEF Positions
  <2>2. Len(s) + 1 \notin Positions(s, m)
    BY <1>1 DEF Positions
  <2> QED BY <1>2, <1>3, <2>1, <2>2, FS_AddElement DEF Occurrences
<1>4. CASE x # m
  <2>1. Positions(Append(s, x), m) = Positions(s, m)
    BY <1>1, <1>4 DEF Positions
  <2> QED BY <1>2, <1>4, <2>1 DEF Occurrences
<1> QED BY <1>3, <1>4

LEMMA OccursInPush ==
  ASSUME NEW S, NEW s \in Seq(S), NEW x \in S, NEW m
  PROVE  Occurrences(<<x>> \o s, m) = Occurrences(s, m) + IF x = m THEN 1 ELSE 0
<1> DEFINE t == <<x>> \o s
           P == Positions(s, m)
           Q == Positions(t, m) \ {1}
<1>1. Len(t) = Len(s) + 1 /\ Len(s) \in Nat
  OBVIOUS
<1>2. \A i \in 1 .. Len(s) + 1 : t[i] = IF i = 1 THEN x ELSE s[i - 1]
  OBVIOUS
<1> HIDE DEF t
<1>3. IsFiniteSet(P) /\ Occurrences(s, m) = Cardinality(P) /\ Cardinality(P) \in Nat
  BY PositionsFinite DEF Occurrences
<1>4. [i \in P |-> i + 1] \in Bijection(P, Q)
  <2>1. ASSUME NEW i \in P PROVE i + 1 \in Q /\ i \in Nat
    BY <1>1, <1>2 DEF Positions
  <2>2. ASSUME NEW j \in Q PROVE j - 1 \in P /\ (j - 1) + 1 = j
    BY <1>1, <1>2 DEF Positions
  <2> HIDE DEF P, Q
  <2> QED BY <2>1, <2>2 DEF Bijection, Injection, IsInjective, Surjection
<1>5. IsFiniteSet(Q) /\ Cardinality(Q) = Cardinality(P)
  <2> HIDE DEF P, Q
  <2> QED BY <1>3, <1>4, FS_Bijection DEF ExistsBijection
<1>6. Occurrences(t, m) = Occurrences(s, m) + IF x = m THEN 1 ELSE 0
  <2>1. CASE x = m
    <3>1. Positions(t, m) = Q \cup {1} /\ 1 \notin Q
      BY <1>1, <1>2, <2>1 DEF Positions
    <3>2. Cardinality(Q \cup {1}) = Cardinality(Q) + 1
      <4> HIDE DEF Q
      <4> QED BY <1>5, <3>1, FS_AddElement
    <3> QED BY <1>3, <1>5, <2>1, <3>1, <3>2 DEF Occurrences
  <2>2. CASE x # m
    <3>1. Positions(t, m) = Q
      BY <1>1, <1>2, <2>2 DEF Positions
    <3> HIDE DEF P, Q
    <3> QED BY <1>3, <1>5, <2>2, <3>1 DEF Occurrences
  <2> QED BY <2>1, <2>2
<1> QED BY <1>6 DEF t

LEMMA OccursInTail ==
  ASSUME NEW S, NEW s \in Seq(S), s # <<>>, NEW m
  PROVE  Occurrences(s, m) = Occurrences(Tail(s), m) + IF Head(s) = m THEN 1 ELSE 0
<1>0. Head(s) \in S /\ Tail(s) \in Seq(S)
  OBVIOUS
<1>1. PICK x \in S, t \in Seq(S) : x = Head(s) /\ t = Tail(s)
  BY <1>0
<1>2. s = <<x>> \o t
  BY <1>1
<1>3. Occurrences(<<x>> \o t, m) = Occurrences(t, m) + IF x = m THEN 1 ELSE 0
  BY OccursInPush
<1> QED BY <1>1, <1>2, <1>3
================================================================================
