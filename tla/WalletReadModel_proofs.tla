------------------------ MODULE WalletReadModel_proofs ------------------------
(***************************************************************************)
(* Proofs about the read model: what the events of a wallet add up to, the *)
(* invariant that relates every view to the events it was projected from,  *)
(* and the refinement of the atomic account.                               *)
(***************************************************************************)
EXTENDS ReadModelInvariant, WalletCommandPath_proofs, WellFoundedInduction

USE DEF VersionStep

(***************************************************************************)
(* Sums over sets of rows.  The fold of the community modules is defined   *)
(* by recursion over the subsets of the set; its value is the one function *)
(* that is additive (SumExists, RecursionIsSum), so it grows by the amount *)
(* of each new row (SumGrows).  The inductions take a smallest             *)
(* counterexample among the subsets (MinimalSet).                          *)
(***************************************************************************)

\* A nonempty family of subsets of a finite set has a minimal member.
LEMMA MinimalSet ==
  ASSUME NEW S, IsFiniteSet(S), NEW T, T \subseteq SUBSET S, T # {}
  PROVE  \E x \in T : \A y \in T : y \subseteq x => y = x
<1>1. FiniteSubsetsOf(S) = SUBSET S
  BY FS_FiniteSubsetsOfFinite
<1>2. IsWellFoundedOn(StrictSubsetOrdering(S), SUBSET S)
  BY <1>1, FS_StrictSubsetOrderingWellFounded
<1>3. PICK x \in T : \A y \in T : ~(<<y, x>> \in StrictSubsetOrdering(S))
  BY <1>2, WFMin
<1>4. ASSUME NEW y \in T, y \subseteq x PROVE y = x
  BY <1>3, <1>4 DEF StrictSubsetOrdering
<1> QED BY <1>4

\* A sum of the numbers d over every subset of S.
Additive(g, S, d) ==
  /\ g \in [SUBSET S -> Int]
  /\ g[{}] = 0
  /\ \A T \in SUBSET S : \A x \in T : g[T] = g[T \ {x}] + d[x]

\* Every finite set has such a function: add one element at a time.
LEMMA SumExists ==
  ASSUME NEW S, IsFiniteSet(S), NEW d, \A x \in S : d[x] \in Int
  PROVE  \E g : Additive(g, S, d)
<1> DEFINE Bad == {T \in SUBSET S : ~\E g : Additive(g, T, d)}
<1> SUFFICES ASSUME Bad # {} PROVE FALSE
  OBVIOUS
<1>1. PICK B \in Bad : \A y \in Bad : y \subseteq B => y = B
  <2>1. Bad \subseteq SUBSET S
    OBVIOUS
  <2> HIDE DEF Bad
  <2> QED BY <2>1, MinimalSet
<1>2. B # {}
  <2>1. Additive([T \in SUBSET {} |-> 0], {}, d)
    BY DEF Additive
  <2> QED BY <2>1
<1>3. PICK y : y \in B
  BY <1>2
<1>4. B \ {y} \notin Bad
  BY <1>1, <1>3
<1>5. PICK g : Additive(g, B \ {y}, d)
  BY <1>4
<1> DEFINE h == [T \in SUBSET B |-> IF y \in T THEN g[T \ {y}] + d[y] ELSE g[T]]
<1>6. Additive(h, B, d)
  <2>1. \A T \in SUBSET B : T \ {y} \in SUBSET (B \ {y})
    OBVIOUS
  <2>2. d[y] \in Int
    BY <1>3
  <2>3. \A T \in SUBSET B : (IF y \in T THEN g[T \ {y}] + d[y] ELSE g[T]) \in Int
    BY <1>5, <2>1, <2>2 DEF Additive
  <2>4. h \in [SUBSET B -> Int]
    BY <2>3
  <2>5. h[{}] = 0
    BY <1>5 DEF Additive
  <2>6. ASSUME NEW T \in SUBSET B, NEW x \in T PROVE h[T] = h[T \ {x}] + d[x]
    <3>1. d[x] \in Int
      BY <2>6
    <3>2. CASE x = y
      <4>1. h[T] = g[T \ {y}] + d[y]
        BY <3>2
      <4>2. h[T \ {x}] = g[T \ {x}]
        BY <3>2
      <4> QED BY <4>1, <4>2, <3>2
    <3>3. CASE x # y /\ y \in T
      <4>1. h[T] = g[T \ {y}] + d[y]
        BY <3>3
      <4>2. h[T \ {x}] = g[(T \ {x}) \ {y}] + d[y]
        BY <3>3
      <4>3. g[T \ {y}] = g[(T \ {y}) \ {x}] + d[x]
        BY <1>5, <3>3, <2>1 DEF Additive
      <4>4. (T \ {x}) \ {y} = (T \ {y}) \ {x}
        OBVIOUS
      <4>5. g[(T \ {x}) \ {y}] \in Int
        BY <1>5, <2>1 DEF Additive
      <4> HIDE DEF h, Bad
      <4>6. g[T \ {y}] = g[(T \ {x}) \ {y}] + d[x]
        BY <4>3, <4>4
      <4>7. \A i, j, k \in Int : (i + j) + k = (i + k) + j
        OBVIOUS
      <4>8. g[T \ {y}] + d[y] = (g[(T \ {x}) \ {y}] + d[y]) + d[x]
        BY <4>5, <4>6, <4>7, <3>1, <2>2
      <4> QED BY <4>1, <4>2, <4>8
    <3>4. CASE x # y /\ y \notin T
      <4>1. h[T] = g[T]
        BY <3>4
      <4>2. h[T \ {x}] = g[T \ {x}]
        BY <3>4
      <4>3. g[T] = g[T \ {x}] + d[x]
        BY <1>5, <3>4 DEF Additive
      <4> QED BY <4>1, <4>2, <4>3
    <3> QED BY <3>2, <3>3, <3>4
  <2> QED BY <2>4, <2>5, <2>6 DEF Additive
<1> QED BY <1>6

\* The recursion of the fold: it takes the rows away in the order of CHOOSE.
Pick(s) == CHOOSE x \in s : TRUE

Folded(f, s, d) == IF s = {} THEN 0 ELSE d[Pick(s)] + f[s \ {Pick(s)}]

\* An additive function satisfies the recursion, and nothing else does.
LEMMA RecursionIsSum ==
  ASSUME NEW S, IsFiniteSet(S), NEW d, \A x \in S : d[x] \in Int,
         NEW g, Additive(g, S, d)
  PROVE  /\ g = [s \in SUBSET S |-> Folded(g, s, d)]
         /\ \A f : f = [s \in SUBSET S |-> Folded(f, s, d)] => f[S] = g[S]
<1>1. \A s \in SUBSET S : s # {} => Pick(s) \in s
  BY DEF Pick
<1>2. ASSUME NEW s \in SUBSET S PROVE g[s] = Folded(g, s, d)
  <2>1. CASE s = {}
    BY <2>1 DEF Additive, Folded
  <2>2. CASE s # {}
    <3>1. PICK x \in s : x = Pick(s)
      BY <1>1, <2>2
    <3>2. g[s] = g[s \ {x}] + d[x] /\ g[s \ {x}] \in Int /\ d[x] \in Int
      BY DEF Additive
    <3>3. g[s] = d[x] + g[s \ {x}]
      BY <3>2
    <3> QED BY <2>2, <3>1, <3>3 DEF Folded
  <2> QED BY <2>1, <2>2
<1>3. g = [s \in SUBSET S |-> g[s]]
  BY DEF Additive
<1>4. g = [s \in SUBSET S |-> Folded(g, s, d)]
  BY <1>2, <1>3
<1>5. ASSUME NEW f, f = [s \in SUBSET S |-> Folded(f, s, d)] PROVE f[S] = g[S]
  <2>1. \A s \in SUBSET S : f[s] = Folded(f, s, d)
    BY <1>5
  <2> DEFINE Bad == {T \in SUBSET S : f[T] # g[T]}
  <2> SUFFICES ASSUME Bad # {} PROVE FALSE
    OBVIOUS
  <2>2. PICK B \in Bad : \A y \in Bad : y \subseteq B => y = B
    <3>1. Bad \subseteq SUBSET S
      OBVIOUS
    <3> HIDE DEF Bad
    <3> QED BY <3>1, MinimalSet
  <2>3. B # {}
    BY <1>2, <2>1, <2>2 DEF Folded
  <2>4. PICK x \in B : x = Pick(B)
    BY <1>1, <2>3
  <2>5. f[B] = d[x] + f[B \ {x}] /\ g[B] = d[x] + g[B \ {x}]
    BY <1>2, <2>1, <2>3, <2>4 DEF Folded
  <2>6. B \ {x} \notin Bad /\ B \ {x} \in SUBSET S
    BY <2>2
  <2> QED BY <2>2, <2>5, <2>6
<1> QED BY <1>4, <1>5

\* So what the community modules sum over S is the additive function of S.
LEMMA SumOfDeltas ==
  ASSUME NEW S, IsFiniteSet(S), NEW d, \A x \in S : d[x] \in Int /\ d[x] = Delta(x),
         NEW g, Additive(g, S, d)
  PROVE  MapThenSumSet(Delta, S) = g[S]
<1> DEFINE Eqn(f) == f = [s \in SUBSET S |->
                            IF s = {} THEN 0 ELSE Delta(Pick(s)) + f[s \ {Pick(s)}]]
<1>1. MapThenSumSet(Delta, S) = (CHOOSE f : Eqn(f))[S]
  BY DEF MapThenSumSet, MapThenFoldSet, Pick
<1>2. ASSUME NEW f PROVE Eqn(f) <=> f = [s \in SUBSET S |-> Folded(f, s, d)]
  <2>1. \A s \in SUBSET S : s # {} => d[Pick(s)] = Delta(Pick(s))
    BY DEF Pick
  <2> QED BY <2>1 DEF Folded
<1>3. /\ g = [s \in SUBSET S |-> Folded(g, s, d)]
      /\ \A f : f = [s \in SUBSET S |-> Folded(f, s, d)] => f[S] = g[S]
  <2>1. \A x \in S : d[x] \in Int
    OBVIOUS
  <2> QED BY <2>1, RecursionIsSum
<1> HIDE DEF Eqn
<1>4. Eqn(g) /\ Eqn(CHOOSE f : Eqn(f))
  BY <1>2, <1>3
<1> QED BY <1>1, <1>2, <1>3, <1>4

LEMMA SumOfBookings ==
  ASSUME NEW S, IsFiniteSet(S), NEW d, \A x \in S : d[x] \in Int /\ d[x] = Booked(x),
         NEW g, Additive(g, S, d)
  PROVE  MapThenSumSet(Booked, S) = g[S]
<1> DEFINE Eqn(f) == f = [s \in SUBSET S |->
                            IF s = {} THEN 0 ELSE Booked(Pick(s)) + f[s \ {Pick(s)}]]
<1>1. MapThenSumSet(Booked, S) = (CHOOSE f : Eqn(f))[S]
  BY DEF MapThenSumSet, MapThenFoldSet, Pick
<1>2. ASSUME NEW f PROVE Eqn(f) <=> f = [s \in SUBSET S |-> Folded(f, s, d)]
  <2>1. \A s \in SUBSET S : s # {} => d[Pick(s)] = Booked(Pick(s))
    BY DEF Pick
  <2> QED BY <2>1 DEF Folded
<1>3. /\ g = [s \in SUBSET S |-> Folded(g, s, d)]
      /\ \A f : f = [s \in SUBSET S |-> Folded(f, s, d)] => f[S] = g[S]
  <2>1. \A x \in S : d[x] \in Int
    OBVIOUS
  <2> QED BY <2>1, RecursionIsSum
<1> HIDE DEF Eqn
<1>4. Eqn(g) /\ Eqn(CHOOSE f : Eqn(f))
  BY <1>2, <1>3
<1> QED BY <1>1, <1>2, <1>3, <1>4

LEMMA SumOfNone ==
  ASSUME NEW S, S = {}
  PROVE  MapThenSumSet(Delta, S) = 0 /\ MapThenSumSet(Booked, S) = 0
<1>1. PICK g, d : g = [T \in SUBSET S |-> 0] /\ d = [x \in S |-> 0]
  OBVIOUS
<1>2. IsFiniteSet(S) /\ Additive(g, S, d) /\ g[S] = 0
  BY <1>1, FS_EmptySet DEF Additive
<1>3. \A x \in S : d[x] \in Int /\ d[x] = Delta(x) /\ d[x] = Booked(x)
  OBVIOUS
<1> QED BY <1>2, <1>3, SumOfDeltas, SumOfBookings

\* One more element adds its number to the sum.
LEMMA SumGrows ==
  ASSUME NEW S, IsFiniteSet(S), NEW x, x \notin S,
         NEW d, \A y \in S \cup {x} : d[y] \in Int
  PROVE  \E g, h : /\ Additive(g, S, d) /\ Additive(h, S \cup {x}, d)
                   /\ g[S] \in Int /\ h[S \cup {x}] = g[S] + d[x]
<1>1. IsFiniteSet(S \cup {x})
  BY FS_AddElement
<1>2. PICK h : Additive(h, S \cup {x}, d)
  BY <1>1, SumExists
<1> DEFINE g == [T \in SUBSET S |-> h[T]]
<1>3. Additive(g, S, d)
  BY <1>2 DEF Additive
<1>4. h[S \cup {x}] = h[(S \cup {x}) \ {x}] + d[x]
  BY <1>2 DEF Additive
<1>5. (S \cup {x}) \ {x} = S /\ h[S] \in Int /\ g[S] = h[S]
  BY <1>2 DEF Additive
<1> QED BY <1>2, <1>3, <1>4, <1>5

LEMMA DeltasGrow ==
  ASSUME NEW S, IsFiniteSet(S), NEW x, x \notin S, \A r \in S \cup {x} : Delta(r) \in Int
  PROVE  /\ MapThenSumSet(Delta, S) \in Int
         /\ MapThenSumSet(Delta, S \cup {x}) = MapThenSumSet(Delta, S) + Delta(x)
<1>1. PICK d : d = [r \in S \cup {x} |-> Delta(r)]
  OBVIOUS
<1>2. \A r \in S \cup {x} : d[r] \in Int /\ d[r] = Delta(r)
  BY <1>1
<1>3. PICK g, h : /\ Additive(g, S, d) /\ Additive(h, S \cup {x}, d)
                  /\ g[S] \in Int /\ h[S \cup {x}] = g[S] + d[x]
  <2>1. \A y \in S \cup {x} : d[y] \in Int
    BY <1>2
  <2> QED BY <2>1, SumGrows
<1>4. MapThenSumSet(Delta, S) = g[S]
  BY <1>2, <1>3, SumOfDeltas
<1>5. IsFiniteSet(S \cup {x})
  BY FS_AddElement
<1>6. MapThenSumSet(Delta, S \cup {x}) = h[S \cup {x}]
  BY <1>2, <1>3, <1>5, SumOfDeltas
<1> QED BY <1>2, <1>3, <1>4, <1>6

LEMMA BookingsGrow ==
  ASSUME NEW S, IsFiniteSet(S), NEW x, x \notin S, \A r \in S \cup {x} : Booked(r) \in Int
  PROVE  /\ MapThenSumSet(Booked, S) \in Int
         /\ MapThenSumSet(Booked, S \cup {x}) = MapThenSumSet(Booked, S) + Booked(x)
<1>1. PICK d : d = [r \in S \cup {x} |-> Booked(r)]
  OBVIOUS
<1>2. \A r \in S \cup {x} : d[r] \in Int /\ d[r] = Booked(r)
  BY <1>1
<1>3. PICK g, h : /\ Additive(g, S, d) /\ Additive(h, S \cup {x}, d)
                  /\ g[S] \in Int /\ h[S \cup {x}] = g[S] + d[x]
  <2>1. \A y \in S \cup {x} : d[y] \in Int
    BY <1>2
  <2> QED BY <2>1, SumGrows
<1>4. MapThenSumSet(Booked, S) = g[S]
  BY <1>2, <1>3, SumOfBookings
<1>5. IsFiniteSet(S \cup {x})
  BY FS_AddElement
<1>6. MapThenSumSet(Booked, S \cup {x}) = h[S \cup {x}]
  BY <1>2, <1>3, <1>5, SumOfBookings
<1> QED BY <1>2, <1>3, <1>4, <1>6

(***************************************************************************)
(* Stored amounts and rounded ones.                                        *)
(***************************************************************************)

LEMMA AmountsType ==
  ASSUME NEW r \in EventRows
  PROVE  Delta(r) \in Int /\ Booked(r) \in Int
BY QuantizeIsNear DEF Delta, Booked, Signed, EventRows

\* An event that moves money is stored with at most half a unit of the balance less
\* than it adds to it; any other moves nothing.
LEMMA BookedIsNear ==
  ASSUME NEW r \in EventRows
  PROVE  /\ r.kind \in MoneyKinds => 2 * Booked(r) + QuantizeExp >= 2 * (QuantizeExp * Delta(r))
         /\ r.kind \notin MoneyKinds => Booked(r) = 0 /\ Delta(r) = 0
<1>1. PICK rounded \in Nat : rounded = Quantize(r.amount)
  BY QuantizeIsNear DEF EventRows
<1>2. /\ 2 * r.amount - 2 * (QuantizeExp * rounded) <= QuantizeExp
      /\ 2 * (QuantizeExp * rounded) - 2 * r.amount <= QuantizeExp
      /\ r.amount \in Nat
  BY <1>1, QuantizeIsNear DEF EventRows
<1>3. PICK product \in Int : product = QuantizeExp * rounded
  BY QuantizeExpAssumption
<1>4. QuantizeExp * (-rounded) = -product
  BY <1>3, QuantizeExpAssumption
<1>5. CASE r.kind \in CreditKinds
  <2>1. Delta(r) = rounded /\ Booked(r) = r.amount
    BY <1>1, <1>5 DEF Delta, Booked, Signed, CreditKinds, DebitKinds
  <2>2. 2 * r.amount + QuantizeExp >= 2 * product
    BY <1>2, <1>3, QuantizeExpAssumption
  <2> QED BY <1>3, <1>5, <2>1, <2>2 DEF MoneyKinds
<1>6. CASE r.kind \in DebitKinds
  <2>1. Delta(r) = -rounded /\ Booked(r) = -r.amount
    BY <1>1, <1>6 DEF Delta, Booked, Signed, CreditKinds, DebitKinds
  <2>2. 2 * (-r.amount) + QuantizeExp >= 2 * (-product)
    BY <1>2, <1>3, QuantizeExpAssumption
  <2> QED BY <1>4, <1>6, <2>1, <2>2 DEF MoneyKinds
<1>7. CASE r.kind \notin MoneyKinds
  BY <1>7 DEF Delta, Booked, Signed, MoneyKinds
<1> QED BY <1>5, <1>6, <1>7 DEF MoneyKinds

\* What a set of events stores is at most half a unit for each of its money events
\* less than what they add to the balance.
LEMMA LedgerIsNear ==
  ASSUME NEW S, IsFiniteSet(S), S \subseteq EventRows
  PROVE  /\ MapThenSumSet(Booked, S) \in Int /\ MapThenSumSet(Delta, S) \in Int
         /\ Cardinality(MoneyRows(S)) \in Nat
         /\ 2 * MapThenSumSet(Booked, S) + QuantizeExp * Cardinality(MoneyRows(S))
              >= 2 * (QuantizeExp * MapThenSumSet(Delta, S))
<1> DEFINE Near(T) ==
             /\ MapThenSumSet(Booked, T) \in Int /\ MapThenSumSet(Delta, T) \in Int
             /\ Cardinality(MoneyRows(T)) \in Nat
             /\ 2 * MapThenSumSet(Booked, T) + QuantizeExp * Cardinality(MoneyRows(T))
                  >= 2 * (QuantizeExp * MapThenSumSet(Delta, T))
<1> DEFINE Bad == {T \in SUBSET S : ~Near(T)}
<1> SUFFICES ASSUME Bad # {} PROVE FALSE
  OBVIOUS
<1>1. PICK B \in Bad : \A y \in Bad : y \subseteq B => y = B
  <2>1. Bad \subseteq SUBSET S
    OBVIOUS
  <2> HIDE DEF Bad
  <2> QED BY <2>1, MinimalSet
<1>2. CASE B = {}
  <2>1. MapThenSumSet(Booked, B) = 0 /\ MapThenSumSet(Delta, B) = 0
    BY <1>2, SumOfNone
  <2>2. MoneyRows(B) = {}
    BY <1>2 DEF MoneyRows
  <2>3. Cardinality(MoneyRows(B)) = 0
    BY <2>2, FS_EmptySet
  <2> QED BY <1>1, <2>1, <2>3, QuantizeExpAssumption
<1>3. CASE B # {}
  <2>1. PICK x : x \in B
    BY <1>3
  <2>2. PICK T : T = B \ {x}
    OBVIOUS
  <2>3. /\ x \notin T /\ B = T \cup {x} /\ x \in EventRows /\ T \subseteq EventRows
        /\ T \subseteq S /\ Near(T)
    BY <1>1, <2>1, <2>2
  <2>4. IsFiniteSet(T) /\ IsFiniteSet(MoneyRows(T))
    BY <2>3, FS_Subset DEF MoneyRows
  <2>5. PICK b \in Int, m \in Int, n \in Nat, i \in Int, j \in Int :
          /\ b = MapThenSumSet(Booked, T) /\ m = MapThenSumSet(Delta, T)
          /\ n = Cardinality(MoneyRows(T)) /\ i = Booked(x) /\ j = Delta(x)
          /\ 2 * b + QuantizeExp * n >= 2 * (QuantizeExp * m)
    BY <2>3, AmountsType
  <2>6. \A r \in T \cup {x} : Delta(r) \in Int /\ Booked(r) \in Int
    BY <2>3, AmountsType
  <2>7. MapThenSumSet(Delta, B) = m + j
    BY <2>3, <2>4, <2>5, <2>6, DeltasGrow
  <2>8. MapThenSumSet(Booked, B) = b + i
    BY <2>3, <2>4, <2>5, <2>6, BookingsGrow
  <2>9. /\ QuantizeExp * (m + j) = QuantizeExp * m + QuantizeExp * j
        /\ QuantizeExp * (n + 1) = QuantizeExp * n + QuantizeExp
        /\ QuantizeExp * 0 = 0
    BY QuantizeExpAssumption
  <2>10. PICK qm \in Int, qj \in Int, qn \in Int :
           qm = QuantizeExp * m /\ qj = QuantizeExp * j /\ qn = QuantizeExp * n
    BY QuantizeExpAssumption
  <2>11. CASE x.kind \in MoneyKinds
    <3>1. MoneyRows(B) = MoneyRows(T) \cup {x} /\ x \notin MoneyRows(T)
      BY <2>3, <2>11 DEF MoneyRows
    <3>2. Cardinality(MoneyRows(B)) = n + 1
      BY <2>4, <2>5, <3>1, FS_AddElement
    <3>3. 2 * i + QuantizeExp >= 2 * qj
      BY <2>3, <2>5, <2>10, <2>11, BookedIsNear
    <3>4. 2 * b + qn >= 2 * qm /\ b \in Int /\ i \in Int /\ QuantizeExp \in Nat
      BY <2>5, <2>10, QuantizeExpAssumption
    <3>5. 2 * (b + i) + (qn + QuantizeExp) >= 2 * (qm + qj)
      <4>1. \A q, k, l, y, z, u \in Int :
              2 * k + u >= 2 * y /\ 2 * l + q >= 2 * z
                => 2 * (k + l) + (u + q) >= 2 * (y + z)
        OBVIOUS
      <4> QED BY <3>3, <3>4, <4>1
    <3>6. 2 * (b + i) + QuantizeExp * (n + 1) >= 2 * (QuantizeExp * (m + j))
      BY <2>9, <2>10, <3>5
    <3> QED BY <1>1, <2>7, <2>8, <3>2, <3>6
  <2>12. CASE x.kind \notin MoneyKinds
    <3>1. MoneyRows(B) = MoneyRows(T)
      BY <2>3, <2>12 DEF MoneyRows
    <3>2. i = 0 /\ j = 0
      BY <2>3, <2>5, <2>12, BookedIsNear
    <3> QED BY <1>1, <2>5, <2>7, <2>8, <3>1, <3>2
  <2> QED BY <2>11, <2>12
<1> QED BY <1>2, <1>3

(***************************************************************************)
(* Streams and the views that agree with them.                             *)
(***************************************************************************)

\* A finite set of rows has a last one.
LEMMA FiniteHasLast ==
  ASSUME NEW S, IsFiniteSet(S), \A s \in S : s.version \in Nat
  PROVE  HasLast(S)
<1> DEFINE Bad == {T \in SUBSET S : ~HasLast(T)}
<1> SUFFICES ASSUME Bad # {} PROVE FALSE
  OBVIOUS
<1>1. PICK B \in Bad : \A y \in Bad : y \subseteq B => y = B
  <2>1. Bad \subseteq SUBSET S
    OBVIOUS
  <2> HIDE DEF Bad
  <2> QED BY <2>1, MinimalSet
<1>2. PICK x : x \in B
  BY <1>1 DEF HasLast
<1>3. HasLast(B \ {x}) /\ \A s \in B : s.version \in Nat
  BY <1>1, <1>2
<1>4. CASE B \ {x} = {}
  <2>1. IsLast(x, B)
    BY <1>2, <1>3, <1>4 DEF IsLast
  <2> QED BY <1>1, <1>2, <2>1 DEF HasLast
<1>5. CASE B \ {x} # {}
  <2>1. PICK y \in B \ {x} : \A s \in B \ {x} : s.version <= y.version
    BY <1>3, <1>5 DEF HasLast, IsLast
  <2>2. IsLast(x, B) \/ IsLast(y, B)
    BY <1>2, <1>3, <2>1 DEF IsLast
  <2> QED BY <1>1, <1>2, <2>1, <2>2 DEF HasLast
<1> QED BY <1>4, <1>5

\* Any rows of a stream replay to a status, and to one of an existing wallet when
\* the creation is among them.
LEMMA StatusOfRows ==
  ASSUME NEW S, IsFiniteSet(S), S \subseteq EventRows
  PROVE  /\ StatusOf(S) \in Statuses
         /\ (\E c \in S : c.kind = "created") => StatusOf(S) # "none"
<1>1. IsFiniteSet(LifecycleRows(S)) /\ \A s \in LifecycleRows(S) : s.version \in Nat
  BY FS_Subset DEF LifecycleRows, EventRows
<1>2. HasLast(LifecycleRows(S))
  BY <1>1, FiniteHasLast
<1>3. (\E c \in S : c.kind = "created") => LifecycleRows(S) # {}
  BY DEF LifecycleRows, LifecycleKinds
<1> QED BY <1>2, <1>3, StatusOfType

\* A wallet is created by the first event of its stream and by no other.
LEMMA CreatedIsFirst ==
  ASSUME IInv, NEW r \in event_store
  PROVE  r.kind = "created" <=> r.version = VersionStep
<1> USE DEF IInv, TypeOK
<1>1. ASSUME NEW s \in event_store, s.version = VersionStep PROVE s.kind = "created"
  <2>1. \A z \in Rows(s.wallet) : IsVersion(z.version)
    BY DEF StoreInv, StreamsComplete, Rows
  <2>2. Before(s.wallet, s.version) = {}
    BY <1>1, <2>1 DEF Before, IsVersion
  <2>3. StatusOf(Before(s.wallet, s.version)) = "none"
    BY <2>2 DEF StatusOf, LifecycleRows
  <2>4. Legal(s.kind, "none")
    BY <2>3 DEF StoreInv, LegalHistory, EventsLegal
  <2> QED BY <2>4 DEF Legal
<1>2. ASSUME r.version # VersionStep PROVE r.kind # "created"
  <2>1. IsVersion(r.version) /\ r.version > 2
    BY <1>2 DEF StoreInv, StreamsComplete, IsVersion
  <2>2. PICK s \in Rows(r.wallet) : s.version = 2
    BY <2>1 DEF StoreInv, StreamsComplete, IsVersion
  <2>3. s \in Before(r.wallet, r.version) /\ s.kind = "created"
    BY <1>1, <2>1, <2>2 DEF Before, Rows
  <2>4. IsFiniteSet(Before(r.wallet, r.version)) /\ Before(r.wallet, r.version) \subseteq EventRows
    BY FS_Subset DEF Before, Rows
  <2>5. StatusOf(Before(r.wallet, r.version)) # "none"
    BY <2>3, <2>4, StatusOfRows
  <2>6. Legal(r.kind, StatusOf(Before(r.wallet, r.version)))
    BY DEF StoreInv, LegalHistory, EventsLegal
  <2> QED BY <2>5, <2>6 DEF Legal
<1> QED BY <1>1, <1>2

LEMMA CreatedOnce ==
  ASSUME IInv, NEW r \in event_store, NEW s \in event_store,
         r.wallet = s.wallet, r.kind = "created", s.kind = "created"
  PROVE  r = s
BY CreatedIsFirst DEF IInv, StoreInv, LegalHistory, VersionsUnique

\* Projecting one more row on a view that agrees with some keeps it in agreement.
LEMMA AgreesGrows ==
  ASSUME NEW S, IsFiniteSet(S), S \subseteq EventRows, NEW r \in EventRows, r \notin S,
         NEW v \in Views, Agrees(v, S), Accepts(v, r),
         r.kind = "created" => S = {},
         InOrder => \A s \in S : s.version < r.version
  PROVE  Agrees(Projected(v, r), S \cup {r})
<1>1. /\ MapThenSumSet(Delta, S) \in Int
      /\ MapThenSumSet(Delta, S \cup {r}) = MapThenSumSet(Delta, S) + Delta(r)
  BY DeltasGrow, AmountsType
<1>2. PICK sum : sum = MapThenSumSet(Delta, S)
  OBVIOUS
<1>3. InOrder =>
        StatusOf(S \cup {r}) =
          IF r.kind \in LifecycleKinds THEN StatusAfter(r.kind) ELSE StatusOf(S)
  BY StatusGrows DEF EventRows
<1>4. CASE S = {}
  <2>1. v = NoView /\ sum = 0
    BY <1>2, <1>4, SumOfNone DEF Agrees
  <2>2. r.kind = "created"
    BY <2>1 DEF Accepts, NoView
  <2>3. Projected(v, r) = [user |-> r.user, status |-> "active", balance |-> 0]
    BY <2>2 DEF Projected
  <2>4. Delta(r) = 0
    BY <2>2 DEF Delta, Signed, CreditKinds, DebitKinds
  <2>5. InOrder => StatusOf(S \cup {r}) = "active"
    BY <1>3, <2>2 DEF LifecycleKinds, StatusAfter
  <2>6. r \in LifecycleRows(S \cup {r}) /\ StatusAfter(r.kind) = "active"
    BY <2>2 DEF LifecycleRows, LifecycleKinds, StatusAfter
  <2> QED BY <1>1, <1>2, <2>1, <2>2, <2>3, <2>4, <2>5, <2>6 DEF Agrees
<1>5. CASE S # {}
  <2>1. /\ \E c \in S : c.kind = "created" /\ c.user = v.user
        /\ \E l \in LifecycleRows(S) : v.status = StatusAfter(l.kind)
        /\ v.balance = sum
        /\ InOrder => v.status = StatusOf(S)
    BY <1>2, <1>5 DEF Agrees
  <2>2. PICK n : n = Projected(v, r)
    OBVIOUS
  <2>3. /\ n.user = v.user /\ n.balance = v.balance + Delta(r)
        /\ n.status = IF r.kind \in LifecycleKinds THEN StatusAfter(r.kind) ELSE v.status
    BY <1>5, <2>2 DEF Projected
  <2>4. \E l \in LifecycleRows(S \cup {r}) : n.status = StatusAfter(l.kind)
    BY <2>1, <2>3 DEF LifecycleRows
  <2>5. InOrder => n.status = StatusOf(S \cup {r})
    BY <1>3, <2>1, <2>3
  <2>6. n.balance = MapThenSumSet(Delta, S \cup {r})
    BY <1>1, <1>2, <2>1, <2>3
  <2> QED BY <2>1, <2>2, <2>3, <2>4, <2>5, <2>6 DEF Agrees
<1> QED BY <1>4, <1>5

\* A view that agrees with rows shows them, and is exactly their view where replays
\* are in order.
LEMMA AgreesShows ==
  ASSUME NEW S, NEW v \in Views, Agrees(v, S),
         \A c, d \in S : c.kind = "created" /\ d.kind = "created" => c = d
  PROVE  Shows(v, S) /\ (InOrder => v = ViewOf(S))
<1>1. CASE S = {}
  BY <1>1 DEF Agrees, ViewOf, Shows, NoView
<1>2. CASE S # {}
  <2>1. PICK c \in S : c.kind = "created" /\ c.user = v.user
    BY <1>2 DEF Agrees
  <2>2. Creator(S) = v.user
    BY <2>1 DEF Creator
  <2>3. /\ v.balance = MapThenSumSet(Delta, S)
        /\ \E r \in LifecycleRows(S) : v.status = StatusAfter(r.kind)
        /\ InOrder => v.status = StatusOf(S)
    BY <1>2 DEF Agrees
  <2>4. /\ ViewOf(S) = [user |-> Creator(S), status |-> StatusOf(S),
                        balance |-> MapThenSumSet(Delta, S)]
        /\ v = [user |-> v.user, status |-> v.status, balance |-> v.balance]
    BY <1>2 DEF Views, ViewOf
  <2> QED BY <2>2, <2>3, <2>4 DEF Shows
<1> QED BY <1>1, <1>2

(***************************************************************************)
(* Steps of a worker that commit nothing.                                  *)
(***************************************************************************)

\* With the same events the views and the rebuild mean the same.
LEMMA ViewsKept ==
  ASSUME ReadModelInv, UNCHANGED <<event_store, read_model, rb_pc, rb_model, rb_todo>>
  PROVE  ViewsAgree' /\ Replaying' /\ TodoStored'
<1>1. \A w : Rows(w)' = Rows(w)
  BY DEF Rows
<1>2. \A w, cut : Before(w, cut)' = Before(w, cut)
  BY <1>1 DEF Before
<1>3. \A w : Cuts(w)' = Cuts(w)
  BY <1>1 DEF Cuts
<1>4. \A w, cut : Replayed(w, cut)' = Replayed(w, cut)
  BY <1>2 DEF Replayed
<1>5. ViewsAgree'
  BY <1>1, <1>2, <1>3 DEF ReadModelInv, ViewsAgree, AgreesWithPrefix
<1>6. Replaying'
  BY <1>1, <1>2, <1>3, <1>4 DEF ReadModelInv, Replaying
<1> QED BY <1>5, <1>6 DEF ReadModelInv, TodoStored

\* When the row of an append was inserted, if the clocks agree.
TimeHeld(p) ==
  pc[p] \in TxSteps =>
    /\ row[p].at <= Cardinality(event_store) + ClockOffset[p]
    /\ \A s \in Rows(row[p].wallet) : s.at < row[p].at

\* One worker moves, nothing is committed, and the lock at most changes between
\* that worker and nobody.
LEMMA ViewWorkerStep ==
  ASSUME IInv, ReadModelInv, NEW p \in Workers,
         UNCHANGED <<event_store, read_model, proj_version, rb_pc, rb_model, rb_todo, rebuilds>>,
         \A q \in Workers \ {p} : /\ pc'[q] = pc[q]
                                  /\ row'[q] = row[q]
                                  /\ view'[q] = view[q],
         \/ proj_lock' = proj_lock
         \/ proj_lock \in {p, None} /\ proj_lock' \in {p, None},
         pc'[p] = "project" => Debug,
         pc'[p] = "commit" /\ Debug => proj_lock' = p,
         ViewHeld(p)',
         EqualClocks => TimeHeld(p)'
  PROVE  ReadModelInv'
<1> USE DEF ReadModelInv
<1>1. ViewsAgree' /\ Replaying' /\ TodoStored'
  BY ViewsKept
<1>2. LockHeld'
  BY NoneAssumption, RebuildIsNoWorker DEF LockHeld
<1>3. ViewsHeld'
  <2>1. ASSUME NEW q \in Workers \ {p} PROVE ViewHeld(q)'
    BY DEF ViewsHeld, ViewHeld
  <2> QED BY <2>1 DEF ViewsHeld
<1>4. TimesOrdered'
  <2>1. \A w : Rows(w)' = Rows(w)
    BY DEF Rows
  <2>2. ASSUME EqualClocks, NEW q \in Workers PROVE TimeHeld(q)'
    <3>1. CASE q = p
      BY <2>2, <3>1
    <3>2. CASE q # p
      <4>1. TimeHeld(q)
        BY <2>2 DEF TimesOrdered, TimeHeld
      <4> QED BY <2>1, <3>2, <4>1 DEF TimeHeld
    <3> QED BY <3>1, <3>2
  <2> QED BY <2>2 DEF TimesOrdered, TimeHeld
<1> QED BY <1>1, <1>2, <1>3, <1>4

\* The worker holds no row before the step or none after it: answers, arrivals and
\* decisions.
LEMMA ViewOutsideStep ==
  ASSUME IInv, ReadModelInv, NEW p \in Workers,
         UNCHANGED <<event_store, read_model, proj_version, rb_pc, rb_model, rb_todo, rebuilds>>,
         \A q \in Workers \ {p} : /\ pc'[q] = pc[q]
                                  /\ row'[q] = row[q]
                                  /\ view'[q] = view[q],
         UNCHANGED proj_lock \/ Unlock(p),
         pc'[p] \notin TxSteps
  PROVE  ReadModelInv'
<1>1. \/ proj_lock' = proj_lock
      \/ proj_lock \in {p, None} /\ proj_lock' \in {p, None}
  BY DEF Unlock
<1>2. pc'[p] # "project" /\ pc'[p] # "commit" /\ ViewHeld(p)' /\ TimeHeld(p)'
  BY DEF TxSteps, ViewHeld, TimeHeld
<1> QED BY <1>1, <1>2, ViewWorkerStep

LEMMA ViewOutside ==
  ASSUME IInv, ReadModelInv, NEW p \in Workers,
         \/ Arrival(p)
         \/ \E rows : Emit(p, rows)
         \/ LoadIdempotent(p)
         \/ \E outcome : Answer(p, outcome)
  PROVE  ReadModelInv'
<1> USE DEF IInv, TypeOK, Goto, tables, local, rebuild, TxSteps
<1>1. CASE Arrival(p)
  <2>1. PICK c \in Requests : Receive(p, c) \/ RefuseAmount(p, c)
    BY <1>1 DEF Arrival
  <2>2. CASE Receive(p, c)
    BY <2>2, ViewOutsideStep DEF Receive
  <2>3. CASE RefuseAmount(p, c)
    BY <2>3, ViewOutsideStep DEF RefuseAmount
  <2> QED BY <2>1, <2>2, <2>3
<1>2. ASSUME NEW rows, Emit(p, rows) PROVE ReadModelInv'
  <2>1. PICK r : r = NewRow(request[p], LatestVersion(rows))
    OBVIOUS
  <2>2. row' = [row EXCEPT ![p] = r]
    BY <1>2, <2>1 DEF Emit
  <2> QED BY <1>2, <2>2, ViewOutsideStep DEF Emit
<1>3. CASE LoadIdempotent(p)
  BY <1>3, ViewOutsideStep DEF LoadIdempotent
<1>4. ASSUME NEW outcome, Answer(p, outcome) PROVE ReadModelInv'
  BY <1>4, ViewOutsideStep DEF Answer, Forget
<1> QED BY <1>1, <1>2, <1>3, <1>4

\* The row gets its time: every stored row of its wallet has an earlier one.
LEMMA ViewInsertStep ==
  ASSUME IInv, ReadModelInv, NEW p \in Workers, InsertEvent(p)
  PROVE  ReadModelInv'
<1> USE DEF IInv, TypeOK
<1>1. PICK r : r = [row[p] EXCEPT !.at = Cardinality(event_store) + ClockOffset[p]]
  OBVIOUS
<1>2. row[p] \in EventRows
  BY DEF DecisionsHold, DecisionHolds, Decided, InsertEvent
<1>3. Cardinality(event_store) + ClockOffset[p] \in Int
  BY FS_CardinalityType, ClockAssumption
<1>4. r.at = Cardinality(event_store) + ClockOffset[p] /\ r.at \in Int
  BY <1>1, <1>2, <1>3 DEF EventRows
<1>5. /\ row'[p] = r /\ pc'[p] = "read_slot"
      /\ UNCHANGED <<event_store, read_model, proj_version, rb_pc, rb_model, rb_todo, rebuilds,
                     proj_lock>>
      /\ \A q \in Workers \ {p} : /\ pc'[q] = pc[q]
                                   /\ row'[q] = row[q]
                                   /\ view'[q] = view[q]
  BY <1>1 DEF InsertEvent, Goto, tables, rebuild
<1>6. EqualClocks => TimeHeld(p)'
  <2>1. ASSUME EqualClocks, NEW s \in event_store PROVE s.at < r.at
    BY <1>4, <2>1 DEF ReadModelInv, TimesOrdered
  <2>2. Rows(r.wallet)' \subseteq event_store
    BY <1>5 DEF Rows
  <2> QED BY <1>4, <1>5, <2>1, <2>2 DEF TimeHeld
<1>7. ViewHeld(p)'
  BY <1>5 DEF ViewHeld
<1> QED BY <1>5, <1>6, <1>7, ViewWorkerStep

\* The rest of the transaction: the row is held already.
LEMMA ViewHeldStep ==
  ASSUME IInv, ReadModelInv, NEW p \in Workers, pc[p] \in TxSteps,
         UNCHANGED <<event_store, read_model, proj_version, rb_pc, rb_model, rb_todo, rebuilds, row>>,
         \A q \in Workers \ {p} : pc'[q] = pc[q] /\ view'[q] = view[q],
         \/ proj_lock' = proj_lock
         \/ proj_lock = None /\ proj_lock' = p,
         pc'[p] = "project" => Debug,
         pc'[p] = "commit" /\ Debug => proj_lock' = p,
         ViewHeld(p)'
  PROVE  ReadModelInv'
<1>1. EqualClocks => TimeHeld(p)
  BY DEF ReadModelInv, TimesOrdered, TimeHeld
<1>2. \A w : Rows(w)' = Rows(w)
  BY DEF Rows
<1>3. EqualClocks => TimeHeld(p)'
  BY <1>1, <1>2 DEF TimeHeld
<1> QED BY <1>3, ViewWorkerStep

LEMMA ViewTransactionStep ==
  ASSUME IInv, ReadModelInv, NEW p \in Workers, ReadSlot(p) \/ InsertOutbox(p) \/ Project(p)
  PROVE  ReadModelInv'
<1> USE DEF IInv, TypeOK, Goto, tables, local, rebuild
<1>1. CASE ReadSlot(p)
  <2>1. pc'[p] = "insert_outbox" /\ pc[p] \in TxSteps
    BY <1>1 DEF ReadSlot, TxSteps
  <2>2. ViewHeld(p)'
    BY <2>1 DEF ViewHeld
  <2> QED BY <1>1, <2>1, <2>2, ViewHeldStep DEF ReadSlot
<1>2. CASE InsertOutbox(p)
  <2>1. pc'[p] = (IF Debug THEN "project" ELSE "commit") /\ pc[p] \in TxSteps
    BY <1>2 DEF InsertOutbox, TxSteps
  <2>2. ViewHeld(p)'
    BY <2>1 DEF ViewHeld
  <2> QED BY <1>2, <2>1, <2>2, ViewHeldStep DEF InsertOutbox
<1>3. CASE Project(p)
  <2>1. pc'[p] = "commit" /\ pc[p] \in TxSteps /\ proj_lock' = p /\ proj_lock = None
    BY <1>3 DEF Project, TxSteps
  <2>2. ProjectionEnabled
    BY DEF ReadModelInv, LockHeld, ProjectionEnabled
  <2>3. PICK n : n = Projected(read_model[row[p].wallet], row[p])
    OBVIOUS
  <2>4. view' = [view EXCEPT ![p] = n] /\ Accepts(read_model[row[p].wallet], row[p])
    BY <1>3, <2>2, <2>3 DEF Project
  <2>5. ViewHeld(p)'
    BY <1>3, <2>3, <2>4 DEF ViewHeld, Project
  <2> QED BY <1>3, <2>1, <2>4, <2>5, ViewHeldStep DEF Project
<1> QED BY <1>1, <1>2, <1>3

(***************************************************************************)
(* The commit of an append.                                                *)
(***************************************************************************)

LEMMA RowsFinite ==
  ASSUME IInv, NEW S, S \subseteq event_store
  PROVE  IsFiniteSet(S) /\ S \subseteq EventRows
BY FS_Subset DEF IInv, TypeOK

\* A stream that has events has its creation.
LEMMA StreamHasCreation ==
  ASSUME IInv, NEW w, Rows(w) # {}
  PROVE  \E c \in Rows(w) : c.kind = "created"
<1>1. PICK r \in event_store : r.wallet = w
  BY DEF Rows
<1>2. IsVersion(r.version) /\ 2 \in 1 .. r.version /\ IsVersion(2)
  BY DEF IInv, StoreInv, StreamsComplete, IsVersion
<1>3. PICK s \in Rows(w) : s.version = 2
  BY <1>1, <1>2 DEF IInv, StoreInv, StreamsComplete
<1> QED BY <1>3, CreatedIsFirst DEF Rows

\* What is committed next: a row after its whole stream, legal for it, that
\* creates the wallet exactly when it is the first.
LEMMA CommittedRow ==
  ASSUME IInv, NEW p \in Workers, pc[p] = "commit", NEW r, r = row[p]
  PROVE  /\ r \in EventRows /\ r.wallet \in Wallets /\ r \notin event_store
         /\ \A s \in Rows(r.wallet) : s.version \in Nat /\ s.version < r.version
         /\ Legal(r.kind, StatusOf(Rows(r.wallet)))
         /\ r.kind = "created" => Rows(r.wallet) = {}
<1>1. r \in EventRows /\ r.wallet \in Wallets
  BY DEF IInv, DecisionsHold, DecisionHolds, Decided, TxSteps, EventRows
<1>2. \A s \in Rows(r.wallet) : s.version \in Nat /\ s.version < r.version
  BY HeldRowIsNext DEF TxSteps, IsVersion
<1>3. r \notin event_store
  BY <1>1, <1>2 DEF Rows, EventRows
<1>4. Legal(r.kind, StatusOf(Rows(r.wallet)))
  BY CommitIsLegal DEF TxSteps
<1>5. ASSUME Rows(r.wallet) # {} PROVE r.kind # "created"
  <2>1. StatusOf(Rows(r.wallet)) # "none"
    BY <1>5, StreamHasCreation, RowsFinite, StatusOfRows DEF Rows
  <2> QED BY <1>4, <2>1 DEF Legal
<1> QED BY <1>1, <1>2, <1>3, <1>4, <1>5

\* A prefix stays a prefix when its stream grows.
LEMMA CutsStay ==
  ASSUME IInv, NEW p \in Workers, pc[p] = "commit", event_store' = event_store \cup {row[p]},
         NEW w \in Wallets, NEW cut \in Cuts(w)
  PROVE  cut \in Cuts(w)' /\ Before(w, cut)' = Before(w, cut)
<1>1. PICK r : r = row[p]
  OBVIOUS
<1>2. r \in EventRows /\ \A s \in Rows(r.wallet) : s.version \in Nat /\ s.version < r.version
  BY <1>1, CommittedRow
<1>3. Rows(w)' = Rows(w) \cup {x \in {r} : x.wallet = w}
  BY <1>1 DEF Rows
<1>4. cut \in Cuts(w)'
  BY <1>3 DEF Cuts
<1>5. r.wallet = w => ~(r.version < cut)
  BY <1>2 DEF Cuts, EventRows
<1> QED BY <1>3, <1>4, <1>5 DEF Before

\* The views after the commit: under DEBUG the one of the wallet is projected and
\* committed with its event.
LEMMA CommitViews ==
  ASSUME IInv, ReadModelInv, NEW p \in Workers, pc[p] = "commit",
         event_store' = event_store \cup {row[p]},
         read_model' = IF Debug THEN [read_model EXCEPT ![row[p].wallet] = view[p]]
                       ELSE read_model
  PROVE  ViewsAgree'
<1> USE DEF ReadModelInv
<1>1. PICK r : r = row[p]
  OBVIOUS
<1>2. /\ r \in EventRows /\ r.wallet \in Wallets /\ r \notin event_store
      /\ \A s \in Rows(r.wallet) : s.version \in Nat /\ s.version < r.version
      /\ r.kind = "created" => Rows(r.wallet) = {}
  BY <1>1, CommittedRow
<1>3. SUFFICES ASSUME NEW w \in Wallets
               PROVE  \E cut \in Cuts(w)' : AgreesWithPrefix(read_model[w], w, cut)'
  BY DEF ViewsAgree
<1>4. PICK cut \in Cuts(w) : AgreesWithPrefix(read_model[w], w, cut)
  BY DEF ViewsAgree
<1>5. cut \in Cuts(w)' /\ Before(w, cut)' = Before(w, cut)
  BY CutsStay
<1>6. CASE w # r.wallet \/ ~Debug
  <2>1. read_model'[w] = read_model[w]
    BY <1>1, <1>6 DEF IInv, TypeOK
  <2>2. Debug => Rows(w)' = Rows(w)
    BY <1>1, <1>6 DEF Rows
  <2>3. AgreesWithPrefix(read_model[w], w, cut)'
    BY <1>4, <1>5, <2>1, <2>2 DEF AgreesWithPrefix
  <2> QED BY <1>5, <2>3
<1>7. CASE w = r.wallet /\ Debug
  <2>1. Agrees(read_model[w], Rows(w)) /\ read_model[w] \in Views
    BY <1>4, <1>7 DEF AgreesWithPrefix, IInv, TypeOK
  <2>2. Accepts(read_model[w], r) /\ view[p] = Projected(read_model[w], r)
    BY <1>1, <1>7 DEF ViewsHeld, ViewHeld
  <2>3. IsFiniteSet(Rows(w)) /\ Rows(w) \subseteq EventRows /\ r \notin Rows(w)
    BY <1>2, RowsFinite DEF Rows
  <2>4. Agrees(Projected(read_model[w], r), Rows(w) \cup {r})
    BY <1>2, <1>7, <2>1, <2>2, <2>3, AgreesGrows
  <2>5. Rows(w)' = Rows(w) \cup {r}
    BY <1>1, <1>7 DEF Rows
  <2>6. read_model'[w] = Projected(read_model[w], r)
    BY <1>1, <1>7, <2>2 DEF IInv, TypeOK
  <2>7. r.version + 1 \in Cuts(w)' /\ Before(w, r.version + 1)' = Rows(w)'
    <3>1. \A s \in Rows(w) \cup {r} : s.version < r.version + 1
      BY <1>2, <1>7 DEF EventRows
    <3> QED BY <2>5, <3>1 DEF Cuts, Before
  <2>8. AgreesWithPrefix(read_model[w], w, r.version + 1)'
    BY <2>4, <2>5, <2>6, <2>7 DEF AgreesWithPrefix
  <2> QED BY <2>7, <2>8
<1> QED BY <1>6, <1>7

LEMMA CommitTimes ==
  ASSUME IInv, ReadModelInv, NEW p \in Workers, pc[p] = "commit",
         event_store' = event_store \cup {row[p]},
         \A q \in Workers \ {p} : pc'[q] = pc[q] /\ row'[q] = row[q],
         pc'[p] \notin TxSteps
  PROVE  TimesOrdered'
<1> USE DEF ReadModelInv
<1>1. PICK r : r = row[p]
  OBVIOUS
<1>2. /\ r \in EventRows /\ r \notin event_store
      /\ \A s \in Rows(r.wallet) : s.version \in Nat /\ s.version < r.version
  BY <1>1, CommittedRow
<1>3. Cardinality(event_store) \in Nat /\ Cardinality(event_store') = Cardinality(event_store) + 1
  BY <1>1, <1>2, FS_AddElement, FS_CardinalityType DEF IInv, TypeOK
<1>4. \A q \in Workers : ClockOffset[q] \in Int
  BY ClockAssumption
<1> SUFFICES ASSUME EqualClocks PROVE TimesOrdered'
  BY DEF TimesOrdered
<1>5. /\ r.at <= Cardinality(event_store) + ClockOffset[p]
      /\ \A s \in Rows(r.wallet) : s.at < r.at
  BY <1>1 DEF TimesOrdered, TxSteps
<1>6. \A s \in event_store' : s \in EventRows
  BY <1>1, <1>2 DEF IInv, TypeOK
<1>7. ASSUME NEW x \in event_store', NEW y \in event_store', x.wallet = y.wallet,
             x.version < y.version
      PROVE  x.at < y.at
  <2>1. CASE x = r
    BY <1>1, <1>2, <1>7, <2>1 DEF Rows, EventRows
  <2>2. CASE x # r /\ y = r
    BY <1>1, <1>5, <1>7, <2>2 DEF Rows
  <2>3. CASE x # r /\ y # r
    BY <1>1, <1>7, <2>3 DEF TimesOrdered
  <2> QED BY <2>1, <2>2, <2>3
<1>8. ASSUME NEW x \in event_store', NEW q \in Workers
      PROVE  x.at < Cardinality(event_store') + ClockOffset[q]
  <2>1. CASE x = r
    <3>1. ClockOffset[q] = ClockOffset[p] /\ r.at \in Int
      BY <1>2 DEF EqualClocks, EventRows
    <3> QED BY <1>3, <1>4, <1>5, <2>1, <3>1
  <2>2. CASE x # r
    <3>1. x.at < Cardinality(event_store) + ClockOffset[q] /\ x.at \in Int
      BY <1>1, <1>6, <2>2 DEF TimesOrdered, EventRows
    <3> QED BY <1>3, <1>4, <3>1
  <2> QED BY <2>1, <2>2
<1>9. ASSUME NEW q \in Workers, pc'[q] \in TxSteps PROVE TimeHeld(q)'
  <2>1. q # p /\ pc[q] \in TxSteps /\ row'[q] = row[q] /\ pc[p] \in TxSteps
    BY <1>9 DEF TxSteps
  <2>2. row[q].wallet # r.wallet
    BY <1>1, <2>1, OneWriterPerWallet
  <2>3. Rows(row[q].wallet)' = Rows(row[q].wallet)
    BY <1>1, <2>1, <2>2 DEF Rows
  <2>4. /\ row[q].at <= Cardinality(event_store) + ClockOffset[q]
        /\ \A s \in Rows(row[q].wallet) : s.at < row[q].at
    BY <2>1 DEF TimesOrdered
  <2>5. row[q].at \in Int
    BY <2>1 DEF IInv, DecisionsHold, DecisionHolds, Decided, EventRows
  <2>6. row[q].at <= Cardinality(event_store') + ClockOffset[q]
    BY <1>3, <1>4, <2>4, <2>5
  <2> QED BY <2>1, <2>3, <2>4, <2>6 DEF TimeHeld
<1> QED BY <1>7, <1>8, <1>9 DEF TimesOrdered, TimeHeld

LEMMA ViewCommitStep ==
  ASSUME IInv, ReadModelInv, NEW p \in Workers, Commit(p) \/ CommitUnacknowledged(p)
  PROVE  ReadModelInv'
<1> USE DEF ReadModelInv
<1>1. /\ pc[p] = "commit" /\ Durable(p) /\ pc'[p] \in {"idle", "fetch"}
      /\ \A q \in Workers \ {p} : /\ pc'[q] = pc[q]
                                   /\ row'[q] = row[q]
                                   /\ view'[q] = view[q]
  BY DEF Commit, CommitUnacknowledged, Forget, Goto, IInv, TypeOK
<1>2. /\ event_store' = event_store \cup {row[p]} /\ Unlock(p)
      /\ UNCHANGED <<proj_version, rb_pc, rb_model, rb_todo, rebuilds>>
  BY <1>1 DEF Durable, rebuild
<1>3. ViewsAgree'
  BY <1>1, CommitViews DEF Durable
<1>4. TimesOrdered'
  BY <1>1, <1>2, CommitTimes DEF TxSteps
<1>5. Debug => proj_lock = p
  BY <1>1 DEF LockHeld
<1>6. LockHeld'
  BY <1>1, <1>2, NoneAssumption, RebuildIsNoWorker DEF LockHeld, Unlock
<1>7. ViewsHeld'
  <2>1. ASSUME NEW q \in Workers PROVE ~(pc'[q] = "commit" /\ Debug)
    BY <1>1, <1>5 DEF LockHeld
  <2> QED BY <2>1 DEF ViewsHeld, ViewHeld
<1>8. TodoStored'
  BY <1>2 DEF TodoStored
<1>9. Replaying'
  <2>1. SUFFICES ASSUME rb_pc = "replay", NEW w \in Wallets
                 PROVE  \E cut \in Cuts(w)' :
                          /\ \A r \in rb_todo : r.wallet = w => r \in Before(w, cut)'
                          /\ Debug => Before(w, cut)' = Rows(w)'
                          /\ Agrees(rb_model[w], Replayed(w, cut)')
                          /\ InOrder => \A r \in Replayed(w, cut)', s \in rb_todo :
                                          s.wallet = w => r.version < s.version
    BY <1>2 DEF Replaying
  <2>2. ~Debug
    BY <1>5, <2>1, RebuildIsNoWorker DEF LockHeld
  <2>3. PICK cut \in Cuts(w) :
              /\ \A r \in rb_todo : r.wallet = w => r \in Before(w, cut)
              /\ Agrees(rb_model[w], Replayed(w, cut))
              /\ InOrder => \A r \in Replayed(w, cut), s \in rb_todo :
                              s.wallet = w => r.version < s.version
    BY <2>1 DEF Replaying
  <2>4. cut \in Cuts(w)' /\ Before(w, cut)' = Before(w, cut)
    BY <1>1, <1>2, CutsStay
  <2>5. Replayed(w, cut)' = Replayed(w, cut)
    BY <1>2, <2>4 DEF Replayed
  <2> QED BY <2>2, <2>3, <2>4, <2>5
<1> QED BY <1>3, <1>4, <1>6, <1>7, <1>8, <1>9

(***************************************************************************)
(* rebuild_wallet_projection.                                              *)
(***************************************************************************)

\* The whole stream is a prefix of itself.
LEMMA WholeStream ==
  ASSUME IInv, NEW w \in Wallets
  PROVE  \E cut \in Cuts(w) : Before(w, cut) = Rows(w)
<1>1. \A s \in Rows(w) : s.version \in Nat
  BY DEF IInv, TypeOK, Rows, EventRows
<1>2. CASE Rows(w) = {}
  BY <1>2 DEF Cuts, Before
<1>3. CASE Rows(w) # {}
  <2>1. PICK r \in Rows(w) : \A s \in Rows(w) : s.version <= r.version
    BY <1>3 DEF IInv, StoreInv, StreamsHaveLast, HasLast, IsLast
  <2>2. Before(w, r.version + 1) = Rows(w)
    BY <1>1, <2>1 DEF Before
  <2> QED BY <2>2 DEF Cuts
<1> QED BY <1>2, <1>3

\* The rebuild takes the lock, moves while it holds it, or lets it go.
LEMMA RebuildLocks ==
  ASSUME IInv, ReadModelInv, UNCHANGED <<pc, row, view, event_store>>, proj_version' = 1,
         \/ proj_lock = None /\ rb_pc = "idle" /\ proj_lock' = "rebuild" /\ rebuilds' # 0
         \/ rb_pc # "idle" /\ proj_lock' = "rebuild" /\ rebuilds' = rebuilds
         \/ rb_pc # "idle" /\ rb_pc' = "idle",
         read_model' = read_model \/ rb_pc # "idle"
  PROVE  LockHeld' /\ ViewsHeld' /\ TimesOrdered'
<1> USE DEF ReadModelInv
<1>1. \A p \in Workers : ~(pc[p] = "commit" /\ Debug)
  BY NoneAssumption, RebuildIsNoWorker DEF LockHeld
<1>2. LockHeld' /\ ViewsHeld'
  BY <1>1 DEF LockHeld, ViewsHeld, ViewHeld
<1>3. \A w : Rows(w)' = Rows(w)
  BY DEF Rows
<1>4. TimesOrdered'
  BY <1>3 DEF TimesOrdered
<1> QED BY <1>2, <1>4

LEMMA ReplayStep ==
  ASSUME IInv, ReadModelInv, RebuildReplay
  PROVE  Replaying'
<1> USE DEF IInv, TypeOK, ReadModelInv
<1>1. PICK r \in rb_todo : /\ IsOldest(r)
                           /\ Accepts(rb_model[r.wallet], r)
                           /\ rb_model' = [rb_model EXCEPT ![r.wallet] = Projected(@, r)]
                           /\ rb_todo' = rb_todo \ {r}
  BY DEF RebuildReplay
<1>2. /\ rb_pc = "replay" /\ rb_pc' = rb_pc /\ event_store' = event_store
      /\ r \in event_store /\ r \in EventRows /\ r.wallet \in Wallets
      /\ rb_todo \subseteq event_store
  BY DEF RebuildReplay, tables, TodoStored, EventRows
<1>3. \A w : Rows(w)' = Rows(w)
  BY <1>2 DEF Rows
<1>4. \A w, cut : Before(w, cut)' = Before(w, cut)
  BY <1>3 DEF Before
<1>5. \A w : Cuts(w)' = Cuts(w)
  BY <1>3 DEF Cuts
<1>6. SUFFICES ASSUME NEW w \in Wallets
               PROVE  \E cut \in Cuts(w) :
                        /\ \A s \in rb_todo' : s.wallet = w => s \in Before(w, cut)
                        /\ Debug => Before(w, cut) = Rows(w)
                        /\ Agrees(rb_model'[w], Replayed(w, cut)')
                        /\ InOrder => \A x \in Replayed(w, cut)', s \in rb_todo' :
                                        s.wallet = w => x.version < s.version
  BY <1>3, <1>4, <1>5 DEF Replaying
<1>7. PICK cut \in Cuts(w) :
              /\ \A s \in rb_todo : s.wallet = w => s \in Before(w, cut)
              /\ Debug => Before(w, cut) = Rows(w)
              /\ Agrees(rb_model[w], Replayed(w, cut))
              /\ InOrder => \A x \in Replayed(w, cut), s \in rb_todo :
                              s.wallet = w => x.version < s.version
  BY <1>2 DEF Replaying
<1>8. CASE w # r.wallet
  <2>1. rb_model'[w] = rb_model[w]
    BY <1>1, <1>8
  <2>2. Replayed(w, cut)' = Replayed(w, cut)
    BY <1>1, <1>4, <1>8 DEF Replayed, Before, Rows
  <2> QED BY <1>1, <1>7, <2>1, <2>2
<1>9. CASE w = r.wallet
  <2>1. PICK S : S = Replayed(w, cut)
    OBVIOUS
  <2>2. /\ S \subseteq event_store /\ IsFiniteSet(S) /\ S \subseteq EventRows /\ r \notin S
        /\ \A s \in S : s.wallet = w
    BY <1>1, <2>1, RowsFinite DEF Replayed, Before, Rows
  <2>3. Replayed(w, cut)' = S \cup {r}
    BY <1>1, <1>4, <1>7, <1>9, <2>1 DEF Replayed
  <2>4. r.kind = "created" => S = {}
    <3>1. S # {} => \E c \in S : c.kind = "created"
      BY <1>7, <2>1 DEF Agrees
    <3>2. \A c \in S : c.kind = "created" /\ r.kind = "created" => c = r
      BY <1>2, <1>9, <2>2, CreatedOnce
    <3> QED BY <2>2, <3>1, <3>2
  <2>5. InOrder => \A s \in S : s.version < r.version
    BY <1>1, <1>7, <1>9, <2>1
  <2>6. Agrees(Projected(rb_model[w], r), S \cup {r})
    BY <1>1, <1>2, <1>7, <1>9, <2>1, <2>2, <2>4, <2>5, AgreesGrows
  <2>7. rb_model'[w] = Projected(rb_model[w], r)
    BY <1>1, <1>2, <1>9
  <2>8. ASSUME InOrder, NEW s \in rb_todo \ {r}, s.wallet = w
        PROVE  r.version < s.version
    <3>1. EqualClocks
      BY <1>2, <2>8 DEF InOrder, LockHeld
    <3>2. r.at <= s.at /\ s \in event_store /\ s \in EventRows
      BY <1>1, <1>2, <2>8 DEF IsOldest
    <3>3. ~(s.version < r.version)
      BY <1>2, <1>9, <2>8, <3>1, <3>2 DEF TimesOrdered, EventRows
    <3>4. s.version # r.version
      BY <1>2, <1>9, <2>8, <3>2 DEF StoreInv, LegalHistory, VersionsUnique
    <3>5. s.version \in Nat /\ r.version \in Nat
      BY <1>2, <3>2 DEF EventRows
    <3> QED BY <3>3, <3>4, <3>5
  <2>9. InOrder => \A x \in S \cup {r}, s \in rb_todo' :
                     s.wallet = w => x.version < s.version
    BY <1>1, <1>7, <2>1, <2>8
  <2> QED BY <1>1, <1>7, <2>3, <2>6, <2>7, <2>9
<1> QED BY <1>8, <1>9

LEMMA ViewRebuildStep ==
  ASSUME IInv, ReadModelInv, RebuildBegin \/ RebuildProgress \/ RebuildCrashes
  PROVE  ReadModelInv'
<1> USE DEF IInv, TypeOK, ReadModelInv
<1>0. proj_version = 1 /\ rb_pc # "idle" => proj_lock = "rebuild"
  BY DEF LockHeld
<1>1. CASE RebuildBegin
  <2>1. ViewsAgree' /\ TodoStored' /\ Replaying'
    <3>1. \A w : Rows(w)' = Rows(w)
      BY <1>1 DEF RebuildBegin, tables, Rows
    <3>2. \A w, cut : Before(w, cut)' = Before(w, cut)
      BY <3>1 DEF Before
    <3>3. \A w : Cuts(w)' = Cuts(w)
      BY <3>1 DEF Cuts
    <3>4. ViewsAgree'
      BY <1>1, <3>1, <3>2, <3>3 DEF RebuildBegin, tables, ViewsAgree, AgreesWithPrefix
    <3> QED BY <1>1, <3>4 DEF RebuildBegin, tables, TodoStored, Replaying
  <2>2. LockHeld' /\ ViewsHeld' /\ TimesOrdered'
    BY <1>1, <1>0, MaxRebuildsAssumption, RebuildLocks DEF RebuildBegin, tables, local, LockHeld
  <2> QED BY <2>1, <2>2
<1>2. CASE RebuildSelect
  <2>1. /\ event_store' = event_store /\ read_model' = read_model /\ rb_pc' = "replay"
        /\ rb_model' = EmptyModel /\ rb_todo' = event_store
    BY <1>2 DEF RebuildSelect, tables
  <2>2. \A w : Rows(w)' = Rows(w)
    BY <2>1 DEF Rows
  <2>3. \A w, cut : Before(w, cut)' = Before(w, cut)
    BY <2>2 DEF Before
  <2>4. \A w : Cuts(w)' = Cuts(w)
    BY <2>2 DEF Cuts
  <2>5. ViewsAgree'
    BY <2>1, <2>2, <2>3, <2>4 DEF ViewsAgree, AgreesWithPrefix
  <2>6. Replaying'
    <3>1. SUFFICES ASSUME NEW w \in Wallets
                   PROVE  \E cut \in Cuts(w) :
                            /\ \A r \in event_store : r.wallet = w => r \in Before(w, cut)
                            /\ Debug => Before(w, cut) = Rows(w)
                            /\ Agrees(NoView, Replayed(w, cut)')
                            /\ InOrder => \A r \in Replayed(w, cut)', s \in event_store :
                                            s.wallet = w => r.version < s.version
      BY <2>1, <2>2, <2>3, <2>4 DEF Replaying, EmptyModel
    <3>2. PICK cut \in Cuts(w) : Before(w, cut) = Rows(w)
      BY WholeStream
    <3>3. Replayed(w, cut)' = {}
      BY <2>1, <2>3, <3>2 DEF Replayed, Rows
    <3> QED BY <3>2, <3>3 DEF Agrees, Rows
  <2>7. LockHeld' /\ ViewsHeld' /\ TimesOrdered'
    BY <1>2, <1>0, RebuildLocks DEF RebuildSelect, tables, local, LockHeld
  <2> QED BY <2>1, <2>5, <2>6, <2>7 DEF TodoStored
<1>3. CASE RebuildReplay
  <2>1. /\ UNCHANGED <<event_store, read_model, proj_version, proj_lock, pc, row, view, rb_pc, rebuilds>>
        /\ rb_todo' \subseteq rb_todo /\ rb_pc = "replay"
    BY <1>3 DEF RebuildReplay, tables, local
  <2>2. \A w : Rows(w)' = Rows(w)
    BY <2>1 DEF Rows
  <2>3. \A w, cut : Before(w, cut)' = Before(w, cut)
    BY <2>2 DEF Before
  <2>4. \A w : Cuts(w)' = Cuts(w)
    BY <2>2 DEF Cuts
  <2>5. ViewsAgree'
    BY <2>1, <2>2, <2>3, <2>4 DEF ViewsAgree, AgreesWithPrefix
  <2>6. LockHeld' /\ ViewsHeld' /\ TimesOrdered'
    BY <1>0, <2>1, RebuildLocks DEF LockHeld
  <2> QED BY <1>3, <2>1, <2>5, <2>6, ReplayStep DEF TodoStored
<1>4. CASE RebuildCommit
  <2>1. /\ UNCHANGED <<event_store, pc, row, view>> /\ rb_pc = "replay" /\ rb_todo = {}
        /\ read_model' = rb_model /\ proj_version' = 1 /\ rb_pc' = "idle" /\ rb_todo' = {}
    BY <1>4 DEF RebuildCommit, RebuildOver, local
  <2>2. \A w : Rows(w)' = Rows(w)
    BY <2>1 DEF Rows
  <2>3. \A w, cut : Before(w, cut)' = Before(w, cut) /\ Replayed(w, cut) = Before(w, cut)
    BY <2>1, <2>2 DEF Before, Replayed
  <2>4. \A w : Cuts(w)' = Cuts(w)
    BY <2>2 DEF Cuts
  <2>5. ViewsAgree'
    BY <2>1, <2>2, <2>3, <2>4 DEF Replaying, ViewsAgree, AgreesWithPrefix
  <2>6. LockHeld' /\ ViewsHeld' /\ TimesOrdered'
    BY <2>1, RebuildLocks
  <2> QED BY <2>1, <2>5, <2>6 DEF TodoStored, Replaying
<1>5. CASE RebuildAborts \/ RebuildCrashes
  <2>1. /\ UNCHANGED <<event_store, read_model, proj_version, pc, row, view>>
        /\ rb_pc # "idle" /\ rb_pc' = "idle" /\ rb_todo' = {}
    BY <1>5 DEF RebuildAborts, RebuildCrashes, RebuildOver, local
  <2>2. \A w : Rows(w)' = Rows(w)
    BY <2>1 DEF Rows
  <2>3. \A w, cut : Before(w, cut)' = Before(w, cut)
    BY <2>2 DEF Before
  <2>4. \A w : Cuts(w)' = Cuts(w)
    BY <2>2 DEF Cuts
  <2>5. ViewsAgree'
    BY <2>1, <2>2, <2>3, <2>4 DEF ViewsAgree, AgreesWithPrefix
  <2>6. LockHeld' /\ ViewsHeld' /\ TimesOrdered'
    BY <1>0, <2>1, RebuildLocks DEF LockHeld
  <2> QED BY <2>1, <2>5, <2>6 DEF TodoStored, Replaying
<1> QED BY <1>1, <1>2, <1>3, <1>4, <1>5 DEF RebuildProgress

(***************************************************************************)
(* The invariant and what follows from it.                                 *)
(***************************************************************************)

LEMMA ReadModelInit == Init => ReadModelInv
<1> SUFFICES ASSUME Init PROVE ReadModelInv
  OBVIOUS
<1> USE DEF Init
<1>1. \A w : Rows(w) = {} /\ Before(w, 0) = {} /\ 0 \in Cuts(w)
  BY DEF Rows, Before, Cuts
<1>2. ViewsAgree
  BY <1>1 DEF ViewsAgree, AgreesWithPrefix, Agrees
<1>3. Replaying /\ LockHeld /\ ViewsHeld /\ TodoStored /\ TimesOrdered
  BY DEF Replaying, LockHeld, ViewsHeld, ViewHeld, TodoStored, TimesOrdered, TxSteps
<1> QED BY <1>2, <1>3 DEF ReadModelInv

LEMMA ReadModelInductive == IInv /\ ReadModelInv /\ [Next]_vars => ReadModelInv'
<1> SUFFICES ASSUME IInv, ReadModelInv, [Next]_vars PROVE ReadModelInv'
  OBVIOUS
<1>1. ASSUME NEW p \in Workers, Arrival(p) PROVE ReadModelInv'
  BY <1>1, ViewOutside
<1>2. ASSUME NEW p \in Workers, Progress(p) PROVE ReadModelInv'
  <2>1. CASE Create(p) \/ LoadAndEmit(p) \/ LoadIdempotent(p)
    BY <2>1, ViewOutside DEF Create, LoadAndEmit
  <2>2. CASE LoadMissing(p) \/ LoadRefused(p) \/ InsertConflict(p) \/ ProjectRejected(p)
             \/ FetchView(p)
    <3>1. \E outcome : Answer(p, outcome)
      BY <2>2 DEF LoadMissing, LoadRefused, InsertConflict, ProjectRejected, FetchView
    <3> QED BY <3>1, ViewOutside
  <2>3. CASE InsertEvent(p)
    BY <2>3, ViewInsertStep
  <2>4. CASE ReadSlot(p) \/ InsertOutbox(p) \/ Project(p)
    BY <2>4, ViewTransactionStep
  <2>5. CASE Commit(p)
    BY <2>5, ViewCommitStep
  <2> QED BY <1>2, <2>1, <2>2, <2>3, <2>4, <2>5 DEF Progress
<1>3. ASSUME NEW p \in Workers, Failure(p) PROVE ReadModelInv'
  <2>1. CASE CommitUnacknowledged(p)
    BY <2>1, ViewCommitStep
  <2>2. CASE LoadFails(p) \/ TransactionFails(p) \/ FetchFails(p) \/ Crash(p)
    <3>1. \E outcome : Answer(p, outcome)
      BY <2>2 DEF LoadFails, TransactionFails, FetchFails, Crash
    <3> QED BY <3>1, ViewOutside
  <2> QED BY <1>3, <2>1, <2>2 DEF Failure
<1>4. CASE RebuildBegin \/ RebuildProgress \/ RebuildCrashes
  BY <1>4, ViewRebuildStep
<1>5. CASE UNCHANGED vars
  <2>1. UNCHANGED <<event_store, read_model, proj_version, proj_lock, pc, row, view,
                    rb_pc, rb_model, rb_todo, rebuilds>>
    BY <1>5 DEF vars, tables, local, rebuild
  <2>2. \A w : Rows(w)' = Rows(w)
    BY <2>1 DEF Rows
  <2>3. LockHeld' /\ ViewsHeld' /\ TimesOrdered'
    BY <2>1, <2>2 DEF ReadModelInv, LockHeld, ViewsHeld, ViewHeld, TimesOrdered
  <2> QED BY <2>1, <2>3, ViewsKept DEF ReadModelInv
<1> QED BY <1>1, <1>2, <1>3, <1>4, <1>5 DEF Next

\* The view of every wallet is the projection of stored events of its own, whoever
\* appended or rebuilt: of all of them under settings.DEBUG, of a prefix without.
THEOREM ReadModelInvariant == Spec => []ReadModelInv
BY ReadModelInit, ReadModelInductive, Invariant, PTL DEF Spec

\* With settings.DEBUG the stored events of a wallet never add up to less than zero by
\* more than what rounding hides from the funds check, half a unit of the balance for
\* each event that moved money, whatever withdrawals race and whatever the clocks say:
\* the rounded amounts add up to the balance, which is never negative.
THEOREM LedgerIsSolvent ==
  ASSUME Debug
  PROVE  Spec => []LedgerSolvent
<1>1. ASSUME IInv, ReadModelInv PROVE LedgerSolvent
  <2>1. SUFFICES ASSUME NEW w \in Wallets
                 PROVE  2 * MapThenSumSet(Booked, Rows(w))
                          >= -(QuantizeExp * Cardinality(MoneyRows(Rows(w))))
    BY DEF LedgerSolvent
  <2>2. Agrees(read_model[w], Rows(w)) /\ read_model[w] \in Views
    BY <1>1 DEF IInv, TypeOK, ReadModelInv, ViewsAgree, AgreesWithPrefix
  <2>3. MapThenSumSet(Delta, Rows(w)) \in Nat
    <3>1. PICK sum : sum = MapThenSumSet(Delta, Rows(w))
      OBVIOUS
    <3>2. CASE Rows(w) = {}
      BY <3>2, SumOfNone
    <3>3. CASE Rows(w) # {}
      <4>1. sum \in Nat
        BY <2>2, <3>1, <3>3 DEF Agrees, Views
      <4> QED BY <3>1, <4>1
    <3> QED BY <3>2, <3>3
  <2>4. IsFiniteSet(Rows(w)) /\ Rows(w) \subseteq EventRows
    BY <1>1, RowsFinite DEF Rows
  <2>5. PICK booked \in Int, sum \in Nat, n \in Nat :
          /\ booked = MapThenSumSet(Booked, Rows(w)) /\ sum = MapThenSumSet(Delta, Rows(w))
          /\ n = Cardinality(MoneyRows(Rows(w)))
          /\ 2 * booked + QuantizeExp * n >= 2 * (QuantizeExp * sum)
    BY <2>3, <2>4, LedgerIsNear
  <2>6. QuantizeExp * sum \in Nat /\ QuantizeExp * n \in Nat
    BY QuantizeExpAssumption
  <2>7. 2 * booked >= -(QuantizeExp * n)
    <3>1. PICK x \in Nat, y \in Nat : x = QuantizeExp * sum /\ y = QuantizeExp * n
      BY <2>6
    <3>2. 2 * booked + y >= 2 * x
      BY <2>5, <3>1
    <3>3. 2 * booked >= -y
      BY <3>2
    <3> QED BY <3>1, <3>3
  <2> QED BY <2>5, <2>7
<1> QED BY <1>1, Invariant, ReadModelInvariant, PTL

\* A view that agrees with some rows of a wallet shows these rows.
LEMMA StoredView ==
  ASSUME IInv, NEW w \in Wallets, NEW S, S \subseteq Rows(w), Agrees(read_model[w], S)
  PROVE  Shows(read_model[w], S) /\ (InOrder => read_model[w] = ViewOf(S))
<1>1. read_model[w] \in Views
  BY DEF IInv, TypeOK
<1>2. \A c, d \in S : c.kind = "created" /\ d.kind = "created" => c = d
  <2>1. \A c \in S : c \in event_store /\ c.wallet = w
    BY DEF Rows
  <2> QED BY <2>1, CreatedOnce
<1> QED BY <1>1, <1>2, AgreesShows

\* The view of a wallet always shows a prefix of its stream, never a mixture, although
\* a rebuild replays the events by created_at, which each worker writes from a clock
\* of its own, while other workers append.
THEOREM ViewsArePrefixes == Spec => []ReadModelIsPrefix
<1>1. ASSUME IInv, ReadModelInv PROVE ReadModelIsPrefix
  <2>1. SUFFICES ASSUME NEW w \in Wallets
                 PROVE  \E version \in Cuts(w) : Shows(read_model[w], Before(w, version))
    BY DEF ReadModelIsPrefix, Cuts
  <2>2. PICK cut \in Cuts(w) : Agrees(read_model[w], Before(w, cut))
    BY <1>1 DEF ReadModelInv, ViewsAgree, AgreesWithPrefix
  <2>3. Before(w, cut) \subseteq Rows(w)
    BY DEF Before
  <2> QED BY <1>1, <2>2, <2>3, StoredView
<1> QED BY <1>1, Invariant, ReadModelInvariant, PTL

\* Under settings.DEBUG it shows all the stored events of the wallet, at every commit:
\* an append that races a rebuild is neither lost nor applied twice.
THEOREM ViewsMatchStore == Spec => []ReadModelMatchesStore
<1>1. ASSUME IInv, ReadModelInv PROVE ReadModelMatchesStore
  <2>1. SUFFICES ASSUME Debug, NEW w \in Wallets
                 PROVE  Shows(read_model[w], Rows(w))
    BY DEF ReadModelMatchesStore
  <2>2. Agrees(read_model[w], Rows(w))
    BY <1>1, <2>1 DEF ReadModelInv, ViewsAgree, AgreesWithPrefix
  <2> QED BY <1>1, <2>2, StoredView
<1> QED BY <1>1, Invariant, ReadModelInvariant, PTL

(***************************************************************************)
(* The refinement of the account, under settings.DEBUG.                    *)
(***************************************************************************)

\* A commit is one operation of the account: the row was legal for the stream, and
\* the view that is committed with it was projected from the view it replaces.
LEMMA CommitIsOperation ==
  ASSUME IInv, ReadModelInv, AnswerInv, Debug, InOrder, NEW p \in Workers,
         pc[p] = "commit", Durable(p)
  PROVE  Account!Next
<1>1. PICK r : r = row[p]
  OBVIOUS
<1>2. PICK w : w = r.wallet
  OBVIOUS
<1>3. PICK v : v = read_model[w]
  OBVIOUS
<1>4. r \in EventRows /\ w \in Wallets /\ Legal(r.kind, StatusOf(Rows(w)))
  BY <1>1, <1>2, CommittedRow
<1>5. v \in Views /\ Agrees(v, Rows(w))
  BY <1>3, <1>4 DEF IInv, TypeOK, ReadModelInv, ViewsAgree, AgreesWithPrefix
<1>6. Legal(r.kind, v.status)
  <2>1. CASE Rows(w) = {}
    BY <1>4, <1>5, <2>1 DEF Agrees, NoView, StatusOf, LifecycleRows
  <2>2. CASE Rows(w) # {}
    BY <1>4, <1>5, <2>2 DEF Agrees
  <2> QED BY <2>1, <2>2
<1>7. Accepts(v, r) /\ read_model' = [read_model EXCEPT ![w] = Projected(v, r)]
  BY <1>1, <1>2, <1>3 DEF Durable, ReadModelInv, ViewsHeld, ViewHeld
<1>8. PICK n : n = Projected(v, r)
  OBVIOUS
<1>9. Account!Update(w, n)
  BY <1>7, <1>8 DEF Account!Update
<1>10. PICK c \in Requests : IsAskedBy(r, c)
  BY <1>1 DEF IInv, RequestsHeld, RequestHeld, AnswerInv, DecisionAsAsked, Decided, TxSteps
<1>11. c.type \in CommandTypes /\ c.user \in Users /\ c.amount \in Int
  BY <1>10, RequestsAssumption
<1>12. v = [user |-> v.user, status |-> v.status, balance |-> v.balance]
       /\ v.balance \in Nat /\ Quantize(r.amount) \in Nat
  BY <1>4, <1>5, QuantizeIsNear DEF Views, EventRows
<1>13. CASE r.kind = "created"
  <2>1. c.type = "create"
    BY <1>10, <1>11, <1>13 DEF IsAskedBy, EventOf, CommandTypes, MoneyCommands,
       CreditCommands, DebitCommands, LifecycleCommands
  <2>2. r.user \in Users
    BY <1>10, <1>11, <2>1 DEF IsAskedBy
  <2>3. n = [user |-> r.user, status |-> "active", balance |-> 0]
    BY <1>8, <1>13 DEF Projected
  <2>4. Account!Open(w, r.user)
    BY <1>3, <1>6, <1>9, <1>13, <2>3 DEF Legal, Account!Open
  <2> QED BY <1>4, <2>2, <2>4 DEF Account!Next
<1>14. CASE r.kind \in MoneyKinds
  <2>1. PICK amount \in Nat : amount = Quantize(r.amount)
    BY <1>12
  <2>2. amount \in 0 .. MaxAmount
    BY <1>7, <1>14, <2>1, MaxAmountAssumption
    DEF Accepts, MoneyKinds, CreditKinds, DebitKinds
  <2>3. v.status = "active"
    BY <1>6, <1>14 DEF Legal, MoneyKinds, CreditKinds, DebitKinds
  <2>4. n = [v EXCEPT !.balance = @ + Delta(r)]
    BY <1>8, <1>12, <1>14 DEF Projected, MoneyKinds, CreditKinds, DebitKinds, LifecycleKinds
  <2>5. CASE r.kind \in CreditKinds
    <3>1. Delta(r) = amount
      BY <2>1, <2>5 DEF Delta, Signed, CreditKinds, DebitKinds
    <3>2. Account!Credit(w, amount)
      BY <1>3, <1>9, <2>3, <2>4, <3>1 DEF Account!Credit
    <3> QED BY <1>4, <2>2, <3>2 DEF Account!Next
  <2>6. CASE r.kind \in DebitKinds
    <3>1. Delta(r) = -amount /\ v.balance >= amount
      BY <1>7, <2>1, <2>6 DEF Delta, Signed, Accepts, CreditKinds, DebitKinds
    <3>2. n = [v EXCEPT !.balance = @ - amount]
      BY <1>12, <2>4, <3>1
    <3>3. Account!Debit(w, amount)
      BY <1>3, <1>9, <2>3, <3>1, <3>2 DEF Account!Debit
    <3> QED BY <1>4, <2>2, <3>3 DEF Account!Next
  <2> QED BY <1>14, <2>5, <2>6 DEF MoneyKinds
<1>15. CASE r.kind \in LifecycleKinds \ {"created"}
  <2>1. n = [v EXCEPT !.status = StatusAfter(r.kind)]
    BY <1>8, <1>12, <1>15 DEF Projected, Delta, Signed, CreditKinds, DebitKinds, LifecycleKinds
  <2>2. CASE r.kind = "suspended"
    BY <1>3, <1>4, <1>6, <1>9, <2>1, <2>2
    DEF Legal, StatusAfter, Account!Suspend, Account!Next
  <2>3. CASE r.kind = "activated"
    BY <1>3, <1>4, <1>6, <1>9, <2>1, <2>3
    DEF Legal, StatusAfter, Account!Activate, Account!Next
  <2>4. CASE r.kind = "closed"
    BY <1>3, <1>4, <1>6, <1>9, <2>1, <2>4
    DEF Legal, StatusAfter, Account!Close, Account!Next
  <2> QED BY <1>15, <2>2, <2>3, <2>4 DEF LifecycleKinds
<1> QED BY <1>4, <1>13, <1>14, <1>15 DEF EventRows, EventKinds

\* A rebuild commits the views there were: it has replayed the whole store.
LEMMA RebuildIsInvisible ==
  ASSUME IInv, ReadModelInv, Debug, InOrder, RebuildCommit
  PROVE  read_model' = read_model
<1>1. rb_pc = "replay" /\ rb_todo = {} /\ read_model' = rb_model
  BY DEF RebuildCommit
<1>2. read_model \in [Wallets -> Views] /\ rb_model \in [Wallets -> Views]
  BY DEF IInv, TypeOK
<1>3. ASSUME NEW w \in Wallets PROVE rb_model[w] = read_model[w]
  <2>1. Agrees(read_model[w], Rows(w))
    BY DEF ReadModelInv, ViewsAgree, AgreesWithPrefix
  <2>2. Agrees(rb_model[w], Rows(w))
    BY <1>1 DEF ReadModelInv, Replaying, Replayed
  <2>3. \A x, y \in Rows(w) : x.kind = "created" /\ y.kind = "created" => x = y
    BY CreatedOnce DEF Rows
  <2> QED BY <1>2, <2>1, <2>2, <2>3, AgreesShows
<1> QED BY <1>1, <1>2, <1>3

\* Every other step leaves the read model alone.
LEMMA OnlyCommitsShow ==
  ASSUME [Next]_vars, read_model' # read_model
  PROVE  RebuildCommit \/ \E p \in Workers : pc[p] = "commit" /\ Durable(p)
<1>1. ASSUME NEW p \in Workers, Arrival(p) \/ Progress(p) \/ Failure(p)
      PROVE  pc[p] = "commit" /\ Durable(p)
  BY <1>1 DEF Arrival, Receive, RefuseAmount, Progress, Failure, Create, LoadMissing,
     LoadRefused, LoadIdempotent, LoadAndEmit, Emit, InsertEvent, InsertConflict,
     ReadSlot, InsertOutbox, Project, ProjectRejected, Commit, FetchView, LoadFails,
     TransactionFails, CommitUnacknowledged, FetchFails, Crash, Answer, tables
<1>2. ASSUME RebuildBegin \/ RebuildProgress \/ RebuildCrashes \/ UNCHANGED vars
      PROVE  RebuildCommit
  BY <1>2 DEF RebuildBegin, RebuildProgress, RebuildSelect, RebuildReplay, RebuildAborts,
     RebuildCrashes, vars, tables
<1> QED BY <1>1, <1>2 DEF Next

\* Under settings.DEBUG the command path implements the atomic account, whatever
\* workers race, fail or rebuild: every step that shows is one legal operation.
THEOREM ImplementsAccount ==
  ASSUME Debug, InOrder
  PROVE  Spec => AccountSpec
<1>1. Init => Account!Init
  BY DEF Init, Account!Init, NoView, Account!NoAccount
<1>2. ASSUME IInv, ReadModelInv, AnswerInv, [Next]_vars
      PROVE  [Account!Next]_read_model
  BY <1>2, CommitIsOperation, RebuildIsInvisible, OnlyCommitsShow
<1> QED BY <1>1, <1>2, Invariant, ReadModelInvariant, AnswerInvariant, PTL
    DEF Spec, AccountSpec, Account!Spec

===============================================================================
