-------------------------- MODULE CompactionProofs --------------------------
(***************************************************************************)
(* Proofs about a session that is compacted while it is used: that IInv is *)
(* inductive, and what follows from it; then that PInv is, which only the  *)
(* last theorem needs.                                                     *)
(***************************************************************************)
EXTENDS CompactionInv, FiniteSetTheorems, SequenceTheorems, WellFoundedInduction, TLAPS

(* A nonempty set of naturals has a least element, and Min is it. *)
LEMMA MinIsLeast ==
  ASSUME NEW T, T \subseteq Nat, T # {}
  PROVE  Min(T) \in T /\ \A y \in T : Min(T) <= y
<1> DEFINE R == {ss \in Nat \X Nat : ss[1] < ss[2]}
<1>1. IsWellFoundedOn(R, Nat)
  BY NatLessThanWellFounded DEF OpToRel
<1>2. \A x, y \in Nat : y < x => <<y, x>> \in R
  OBVIOUS
<1> HIDE DEF R
<1>3. PICK x \in T : \A y \in T : <<y, x>> \notin R
  BY <1>1, WFMin
<1>4. \A y \in T : ~(y < x)
  BY <1>3, <1>2
<1>5. \A y \in T : x <= y
  BY <1>4
<1> QED BY <1>5 DEF Min

(* A nonempty bounded set of naturals has a greatest element, Max. *)
LEMMA MaxIsMost ==
  ASSUME NEW n \in Nat, NEW T, T \subseteq 0..n, T # {}
  PROVE  Max(T) \in T /\ \A y \in T : y <= Max(T)
<1> DEFINE U == {n - y : y \in T}
<1>1. U \subseteq Nat /\ U # {}
  OBVIOUS
<1>2. PICK x \in U : \A u \in U : x <= u
  <2> HIDE DEF U
  <2> QED BY <1>1, MinIsLeast
<1>3. PICK m \in T : x = n - m
  BY <1>2
<1>4. \A y \in T : m >= y
  <2> SUFFICES ASSUME NEW y \in T PROVE m >= y
    OBVIOUS
  <2>1. x <= n - y
    BY <1>2
  <2>2. m \in 0..n /\ y \in 0..n
    OBVIOUS
  <2> QED BY <1>3, <2>1, <2>2
<1>5. Max(T) \in T /\ \A y \in T : Max(T) >= y
  BY <1>4 DEF Max
<1> QED BY <1>5

(* A function on 1..n is a sequence of that length. *)
LEMMA FunctionIsSeq ==
  ASSUME NEW S, NEW n \in Nat, NEW f \in [1..n -> S]
  PROVE  f \in Seq(S) /\ Len(f) = n
OBVIOUS

(* Two sequences, one behind the other. *)
LEMMA ConcatProps ==
  ASSUME NEW S, NEW u \in Seq(S), NEW w \in Seq(S)
  PROVE  /\ u \o w \in Seq(S) /\ Len(u \o w) = Len(u) + Len(w)
         /\ \A i \in 1..Len(u) : (u \o w)[i] = u[i]
         /\ \A i \in 1..Len(w) : (u \o w)[Len(u) + i] = w[i]
OBVIOUS

(* Sequences with the same elements are the same. *)
LEMMA SeqsAgree ==
  ASSUME NEW S, NEW u \in Seq(S), NEW w \in Seq(S), Len(u) = Len(w),
         \A i \in 1..Len(u) : u[i] = w[i]
  PROVE  u = w
<1>1. u \in [1..Len(u) -> S] /\ w \in [1..Len(u) -> S]
  OBVIOUS
<1>2. u = [i \in 1..Len(u) |-> u[i]] /\ w = [i \in 1..Len(u) |-> w[i]]
  BY <1>1
<1> QED BY <1>2

(* A sequence over a set is one over every larger set. *)
LEMMA SeqOfMore ==
  ASSUME NEW S, NEW T, S \subseteq T, NEW w \in Seq(S)
  PROVE  w \in Seq(T)
OBVIOUS

-----------------------------------------------------------------------------
(* InOrder: every element has its rank, the number of those below it.      *)

Below(S, i) == {j \in S : j < i}

(* An element has finitely many below it, at most all. *)
LEMMA BelowIsFinite ==
  ASSUME NEW S, \A s \in S : s \in Nat, IsFiniteSet(S), NEW i
  PROVE  /\ IsFiniteSet(Below(S, i)) /\ Cardinality(Below(S, i)) \in Nat
         /\ Cardinality(Below(S, i)) <= Cardinality(S)
         /\ Cardinality(S) \in Nat
BY FS_Subset, FS_CardinalityType DEF Below

(* The rank grows. *)
LEMMA RanksGrow ==
  ASSUME NEW S, \A s \in S : s \in Nat, IsFiniteSet(S), NEW i \in S, NEW j \in S, i < j
  PROVE  Cardinality(Below(S, i)) < Cardinality(Below(S, j))
<1>1. /\ IsFiniteSet(Below(S, i)) /\ Cardinality(Below(S, i)) \in Nat
      /\ IsFiniteSet(Below(S, j)) /\ Cardinality(Below(S, j)) \in Nat
  BY BelowIsFinite
<1>2. i \notin Below(S, i) /\ Below(S, i) \cup {i} \subseteq Below(S, j)
  BY DEF Below
<1>3. Cardinality(Below(S, i) \cup {i}) = Cardinality(Below(S, i)) + 1
  BY <1>1, <1>2, FS_AddElement
<1>4. Cardinality(Below(S, i) \cup {i}) <= Cardinality(Below(S, j))
  BY <1>1, <1>2, FS_Subset
<1> QED BY <1>1, <1>3, <1>4

(* Every rank is taken. *)
LEMMA RankIsTaken ==
  ASSUME NEW S, \A s \in S : s \in Nat, NEW n \in Nat, \A s \in S : s <= n, IsFiniteSet(S),
         NEW k \in 1..Cardinality(S)
  PROVE  \E i \in S : Cardinality(Below(S, i)) = k - 1
<1> DEFINE T == {m \in Nat : Cardinality(Below(S, m)) >= k}
<1>1. Cardinality(S) \in Nat /\ \A m : IsFiniteSet(Below(S, m)) /\ Cardinality(Below(S, m)) \in Nat
  BY BelowIsFinite
<1>2. Below(S, n + 1) = S
  BY DEF Below
<1>3. T \subseteq Nat /\ n + 1 \in T
  BY <1>1, <1>2
<1>4. PICK m \in T : \A y \in T : m <= y
  <2> HIDE DEF T
  <2> QED BY <1>3, MinIsLeast
<1>5. m \in Nat /\ Cardinality(Below(S, m)) >= k
  BY <1>4
<1>6. Below(S, 0) = {} /\ Cardinality(Below(S, 0)) = 0
  BY FS_EmptySet DEF Below
<1>7. m # 0
  BY <1>5, <1>6
<1>8. m - 1 \in Nat /\ m - 1 \notin T
  BY <1>4, <1>5, <1>7
<1>9. Cardinality(Below(S, m - 1)) < k
  BY <1>1, <1>8
<1>10. Below(S, m) = IF m - 1 \in S THEN Below(S, m - 1) \cup {m - 1} ELSE Below(S, m - 1)
  BY <1>5, <1>7 DEF Below
<1>11. m - 1 \in S
  BY <1>5, <1>9, <1>10, <1>1
<1>12. m - 1 \notin Below(S, m - 1)
  BY DEF Below
<1>13. Cardinality(Below(S, m)) = Cardinality(Below(S, m - 1)) + 1
  BY <1>1, <1>10, <1>11, <1>12, FS_AddElement
<1>14. Cardinality(Below(S, m - 1)) = k - 1
  BY <1>1, <1>5, <1>9, <1>13
<1> QED BY <1>11, <1>14

(* The k-th element is the one of rank k - 1. *)
LEMMA InOrderAt ==
  ASSUME NEW S, \A s \in S : s \in Nat, IsFiniteSet(S), NEW k \in 1..Cardinality(S), NEW i \in S,
         Cardinality(Below(S, i)) = k - 1
  PROVE  InOrder(S)[k] = i
<1> DEFINE x == CHOOSE j \in S : Cardinality(Below(S, j)) = k - 1
<1>1. x \in S /\ Cardinality(Below(S, x)) = k - 1
  OBVIOUS
<1>2. Cardinality(Below(S, x)) \in Nat
  BY <1>1
<1> HIDE DEF x
<1>3. ASSUME x # i PROVE FALSE
  <2>1. CASE x < i
    <3>1. Cardinality(Below(S, x)) < Cardinality(Below(S, i))
      BY <1>1, <2>1, RanksGrow
    <3> QED BY <1>1, <1>2, <3>1
  <2>2. CASE i < x
    <3>1. Cardinality(Below(S, i)) < Cardinality(Below(S, x))
      BY <1>1, <2>2, RanksGrow
    <3> QED BY <1>1, <1>2, <3>1
  <2>3. x \in Nat /\ i \in Nat
    BY <1>1
  <2> QED BY <1>3, <2>1, <2>2, <2>3
<1>4. InOrder(S)[k] = x
  BY DEF InOrder, Below, x
<1> QED BY <1>3, <1>4

(* InOrder is a sequence of all the elements. *)
LEMMA InOrderProps ==
  ASSUME NEW S, \A s \in S : s \in Nat, NEW n \in Nat, \A s \in S : s <= n
  PROVE  /\ IsFiniteSet(S) /\ Cardinality(S) \in Nat
         /\ InOrder(S) \in Seq(S) /\ Len(InOrder(S)) = Cardinality(S)
         /\ \A k \in 1..Cardinality(S) :
              InOrder(S)[k] \in S /\ Cardinality(Below(S, InOrder(S)[k])) = k - 1
         /\ \A i \in S : \E k \in 1..Cardinality(S) : InOrder(S)[k] = i
<1>1. IsFiniteSet(S)
  <2>1. S \in SUBSET Nat
    OBVIOUS
  <2> QED BY <2>1, FS_BoundedSetOfNaturals
<1>2. Cardinality(S) \in Nat
  BY <1>1, FS_CardinalityType
<1>3. ASSUME NEW k \in 1..Cardinality(S)
      PROVE  InOrder(S)[k] \in S /\ Cardinality(Below(S, InOrder(S)[k])) = k - 1
  <2>1. PICK i \in S : Cardinality(Below(S, i)) = k - 1
    BY <1>1, RankIsTaken
  <2> QED BY <1>1, <2>1, InOrderAt
<1>4. InOrder(S) \in [1..Cardinality(S) -> S]
  <2>1. InOrder(S) = [k \in 1..Cardinality(S) |-> InOrder(S)[k]]
    <3> DEFINE F(k) == CHOOSE i \in S : Cardinality({j \in S : j < i}) = k - 1
    <3>1. InOrder(S) = [k \in 1..Cardinality(S) |-> F(k)]
      BY DEF InOrder
    <3> HIDE DEF F
    <3> QED BY <3>1
  <2> QED BY <1>3, <2>1
<1>5. InOrder(S) \in Seq(S) /\ Len(InOrder(S)) = Cardinality(S)
  BY <1>2, <1>4, FunctionIsSeq
<1>6. ASSUME NEW i \in S PROVE \E k \in 1..Cardinality(S) : InOrder(S)[k] = i
  <2>1. Cardinality(Below(S, i)) \in Nat
    BY <1>1, BelowIsFinite
  <2>2. Below(S, i) \cup {i} \subseteq S /\ i \notin Below(S, i)
    BY DEF Below
  <2>3. Cardinality(Below(S, i) \cup {i}) = Cardinality(Below(S, i)) + 1
    BY <1>1, <2>2, BelowIsFinite, FS_AddElement
  <2>4. Cardinality(Below(S, i) \cup {i}) <= Cardinality(S)
    BY <1>1, <2>2, FS_Subset
  <2>5. Cardinality(Below(S, i)) + 1 \in 1..Cardinality(S)
    BY <1>2, <2>1, <2>3, <2>4
  <2>6. InOrder(S)[Cardinality(Below(S, i)) + 1] = i
    <3> DEFINE k == Cardinality(Below(S, i)) + 1
    <3>1. Cardinality(Below(S, i)) = k - 1
      BY <2>1
    <3> HIDE DEF k
    <3> QED BY <1>1, <2>5, <3>1, InOrderAt DEF k
  <2> QED BY <2>5, <2>6
<1> QED BY <1>1, <1>2, <1>3, <1>5, <1>6

(* What comes later stands behind. *)
LEMMA InOrderAppends ==
  ASSUME NEW S, \A s \in S : s \in Nat, NEW T, \A s \in T : s \in Nat, NEW n \in Nat,
         \A s \in S : s <= n, \A t \in T : t <= n, \A s \in S, t \in T : s < t
  PROVE  InOrder(S \cup T) = InOrder(S) \o InOrder(T)
<1> DEFINE U == S \cup T
           a == Cardinality(S)
           b == Cardinality(T)
<1>1. /\ IsFiniteSet(S) /\ a \in Nat /\ InOrder(S) \in Seq(S) /\ Len(InOrder(S)) = a
      /\ \A k \in 1..a : InOrder(S)[k] \in S /\ Cardinality(Below(S, InOrder(S)[k])) = k - 1
  BY InOrderProps
<1>2. /\ IsFiniteSet(T) /\ b \in Nat /\ InOrder(T) \in Seq(T) /\ Len(InOrder(T)) = b
      /\ \A k \in 1..b : InOrder(T)[k] \in T /\ Cardinality(Below(T, InOrder(T)[k])) = k - 1
  BY InOrderProps
<1>3. /\ U \in SUBSET Nat /\ \A u \in U : u <= n
  OBVIOUS
<1>4. /\ IsFiniteSet(U) /\ Cardinality(U) = a + b
  <2>1. S \cap T = {}
    OBVIOUS
  <2>2. Cardinality(S \cup T) = a + b - Cardinality(S \cap T) /\ IsFiniteSet(S \cup T)
    BY <1>1, <1>2, FS_Union
  <2>3. Cardinality(S \cap T) = 0
    BY <2>1, FS_EmptySet
  <2> QED BY <1>1, <1>2, <2>2, <2>3
<1>5. InOrder(U) \in Seq(U) /\ Len(InOrder(U)) = a + b
  <2> HIDE DEF U
  <2> QED BY <1>3, <1>4, InOrderProps
<1>6. ASSUME NEW k \in 1..a PROVE InOrder(U)[k] = InOrder(S)[k]
  <2> DEFINE x == InOrder(S)[k]
  <2>1. x \in S /\ Cardinality(Below(S, x)) = k - 1
    BY <1>1
  <2> HIDE DEF x
  <2>2. Below(U, x) = Below(S, x)
    BY <2>1 DEF Below
  <2>3. k \in 1..Cardinality(U)
    BY <1>1, <1>2, <1>4
  <2>4. x \in U /\ Cardinality(Below(U, x)) = k - 1
    BY <2>1, <2>2
  <2> HIDE DEF U
  <2> QED BY <1>3, <1>4, <2>3, <2>4, InOrderAt DEF x
<1>7. ASSUME NEW k \in 1..b PROVE InOrder(U)[a + k] = InOrder(T)[k]
  <2> DEFINE x == InOrder(T)[k]
  <2>1. x \in T /\ Cardinality(Below(T, x)) = k - 1
    BY <1>2
  <2> HIDE DEF x
  <2>2. Below(U, x) = S \cup Below(T, x) /\ S \cap Below(T, x) = {}
    BY <2>1 DEF Below
  <2>3. IsFiniteSet(Below(T, x))
    BY <1>2, BelowIsFinite
  <2>4. Cardinality(Below(U, x)) = a + Cardinality(Below(T, x)) - Cardinality(S \cap Below(T, x))
    BY <1>1, <2>2, <2>3, FS_Union
  <2>5. Cardinality(S \cap Below(T, x)) = 0
    BY <2>2, FS_EmptySet
  <2>6. Cardinality(Below(U, x)) = (a + k) - 1
    BY <1>1, <2>1, <2>4, <2>5
  <2>7. a + k \in 1..Cardinality(U) /\ x \in U
    BY <1>1, <1>2, <1>4, <2>1
  <2> HIDE DEF U
  <2> QED BY <1>3, <1>4, <2>6, <2>7, InOrderAt DEF x
<1> HIDE DEF U, a, b
<1>8. /\ InOrder(S) \o InOrder(T) \in Seq(S \cup T) /\ Len(InOrder(S) \o InOrder(T)) = a + b
      /\ \A k \in 1..a : (InOrder(S) \o InOrder(T))[k] = InOrder(S)[k]
      /\ \A k \in 1..b : (InOrder(S) \o InOrder(T))[a + k] = InOrder(T)[k]
  <2>1. InOrder(S) \in Seq(S \cup T) /\ InOrder(T) \in Seq(S \cup T)
    BY <1>1, <1>2, SeqOfMore
  <2> DEFINE u == InOrder(S)
             w == InOrder(T)
             V == S \cup T
  <2>2. u \in Seq(V) /\ w \in Seq(V) /\ Len(u) = a /\ Len(w) = b
    BY <1>1, <1>2, <2>1
  <2> HIDE DEF u, w, V
  <2>3. /\ u \o w \in Seq(V) /\ Len(u \o w) = Len(u) + Len(w)
        /\ \A k \in 1..Len(u) : (u \o w)[k] = u[k]
        /\ \A k \in 1..Len(w) : (u \o w)[Len(u) + k] = w[k]
    <3>1. u \in Seq(V) /\ w \in Seq(V)
      BY <2>2
    <3> QED BY ONLY <3>1, ConcatProps
  <2>4. /\ u \o w \in Seq(V) /\ Len(u \o w) = a + b
        /\ \A k \in 1..a : (u \o w)[k] = u[k]
        /\ \A k \in 1..b : (u \o w)[a + k] = w[k]
    BY <2>2, <2>3
  <2> QED BY <2>4 DEF u, w, V
<1>9. ASSUME NEW k \in 1..(a + b) PROVE InOrder(U)[k] = (InOrder(S) \o InOrder(T))[k]
  <2>1. CASE k \in 1..a
    BY <1>6, <1>8, <2>1
  <2>2. CASE k \notin 1..a
    <3>1. k - a \in 1..b /\ a + (k - a) = k
      BY <1>1, <1>2, <2>2
    <3> QED BY <1>7, <1>8, <3>1
  <2> QED BY <2>1, <2>2
<1> QED
  <2> DEFINE f == InOrder(U)
             g == InOrder(S) \o InOrder(T)
  <2>1. f \in Seq(U) /\ g \in Seq(U) /\ Len(f) = Len(g) /\ Len(f) = a + b
    BY <1>5, <1>8 DEF U
  <2>2. \A k \in 1..Len(f) : f[k] = g[k]
    BY <1>9, <2>1
  <2> HIDE DEF f, g
  <2>3. f = g
    BY <2>1, <2>2, SeqsAgree
  <2> QED BY <2>3 DEF f, g, U
-----------------------------------------------------------------------------
(* Logs.                                                                   *)

(* The positions of some types lie in the log and hold such events. *)
LEMMA AtProps ==
  ASSUME NEW l \in Seq(Events), NEW types
  PROVE  /\ At(l, types) \subseteq 1..Len(l) /\ Len(l) \in Nat /\ DOMAIN l = 1..Len(l)
         /\ \A i \in At(l, types) : i \in Nat /\ i >= 1 /\ i <= Len(l) /\ l[i] \in Events /\ l[i].type \in types
         /\ \A i \in 1..Len(l) : l[i] \in Events /\ (l[i].type \in types => i \in At(l, types))
BY DEF At

Joins(m, l, e) == m = l \o e

(* What was appended stands behind the log. *)
LEMMA Appended ==
  ASSUME NEW l \in Seq(Events), NEW e \in Seq(Events), NEW m, Joins(m, l, e)
  PROVE  /\ m \in Seq(Events) /\ Len(m) = Len(l) + Len(e)
         /\ \A i \in 1..Len(l) : m[i] = l[i]
         /\ \A i \in 1..Len(e) : m[Len(l) + i] = e[i]
         /\ \A p \in 1..Len(m) : p \in 1..Len(l) \/ (p > Len(l) /\ p - Len(l) \in 1..Len(e)
                                                      /\ m[p] = e[p - Len(l)])
<1>1. /\ m \in Seq(Events) /\ Len(m) = Len(l) + Len(e)
      /\ \A i \in 1..Len(l) : m[i] = l[i]
      /\ \A i \in 1..Len(e) : m[Len(l) + i] = e[i]
  BY ConcatProps DEF Joins
<1>2. Len(l) \in Nat /\ Len(e) \in Nat
  OBVIOUS
<1>3. ASSUME NEW p \in 1..Len(m), p \notin 1..Len(l)
      PROVE  p > Len(l) /\ p - Len(l) \in 1..Len(e) /\ m[p] = e[p - Len(l)]
  <2>1. p > Len(l) /\ p - Len(l) \in 1..Len(e) /\ Len(l) + (p - Len(l)) = p
    BY <1>1, <1>2, <1>3
  <2> QED BY <1>1, <2>1
<1> QED BY <1>1, <1>3

Behind(l, S) == {Len(l) + i : i \in S}

(* Events of some types after something was appended. *)
LEMMA AtAppended ==
  ASSUME NEW l \in Seq(Events), NEW e \in Seq(Events), NEW m, Joins(m, l, e), NEW types
  PROVE  At(m, types) = At(l, types) \cup Behind(l, At(e, types))
<1>1. Len(l) \in Nat /\ Len(e) \in Nat
  OBVIOUS
<1>2. ASSUME NEW p \in At(m, types) PROVE p \in At(l, types) \cup Behind(l, At(e, types))
  <2>1. p \in 1..Len(m) /\ m[p].type \in types
    BY <1>2, Appended, AtProps
  <2>2. CASE p \in 1..Len(l)
    <3>1. m[p] = l[p]
      BY <2>2, Appended
    <3> QED BY <2>1, <2>2, <3>1, AtProps
  <2>3. CASE p > Len(l) /\ p - Len(l) \in 1..Len(e) /\ m[p] = e[p - Len(l)]
    <3>1. p - Len(l) \in At(e, types) /\ p = Len(l) + (p - Len(l))
      BY <1>1, <2>1, <2>3, AtProps
    <3> QED BY <3>1 DEF Behind
  <2> QED BY <2>1, <2>2, <2>3, Appended
<1>3. ASSUME NEW p \in At(l, types) PROVE p \in At(m, types)
  <2>1. p \in 1..Len(l) /\ l[p].type \in types /\ p \in 1..Len(m)
    BY <1>1, <1>3, Appended, AtProps
  <2>2. m[p] = l[p] /\ m \in Seq(Events)
    BY <2>1, Appended
  <2> QED BY <2>1, <2>2, AtProps
<1>4. ASSUME NEW i \in At(e, types) PROVE Len(l) + i \in At(m, types)
  <2>1. i \in 1..Len(e) /\ e[i].type \in types /\ Len(l) + i \in 1..Len(m)
    BY <1>1, <1>4, Appended, AtProps
  <2>2. m[Len(l) + i] = e[i] /\ m \in Seq(Events)
    BY <2>1, Appended
  <2> QED BY <2>1, <2>2, AtProps
<1> QED BY <1>2, <1>3, <1>4 DEF Behind

(* The intervals of the carriers, which lie in front of them. *)
LEMMA HidesProps ==
  ASSUME NEW l, WellFormed(l)
  PROVE  /\ \A k \in At(l, Carriers) :
              /\ l[k].first \in Nat /\ l[k].last \in Nat /\ l[k].last < k /\ k <= Len(l)
              /\ \A p \in Hides(l, k) : p \in Nat /\ p < k
         /\ \A p : p \in Occluded(l) <=> \E k \in At(l, Carriers) : p \in Hides(l, k)
         /\ l \in Seq(Events)
<1>1. l \in Seq(Events) /\ LooksBack(l)
  BY DEF WellFormed
<1>2. ASSUME NEW k \in At(l, Carriers)
      PROVE  /\ l[k].first \in Nat /\ l[k].last \in Nat /\ l[k].last < k /\ k <= Len(l)
             /\ \A p \in Hides(l, k) : p \in Nat /\ p < k
  <2>1. l[k] \in Events /\ k \in Nat /\ k <= Len(l)
    BY <1>1, AtProps
  <2>2. l[k].first \in Nat /\ l[k].last \in Nat /\ l[k].last < k
    BY <1>1, <2>1 DEF Events, LooksBack
  <2>3. ASSUME NEW p \in Hides(l, k) PROVE p \in Nat /\ p < k
    BY <2>1, <2>2 DEF Hides
  <2> QED BY <2>1, <2>2, <2>3
<1>3. \A p : p \in Occluded(l) <=> \E k \in At(l, Carriers) : p \in Hides(l, k)
  BY DEF Occluded, Hides
<1> QED BY <1>1, <1>2, <1>3

(* The positions a projection is made of. *)
LEMMA VisibleProps ==
  ASSUME NEW l \in Seq(Events)
  PROVE  /\ Visible(l) \subseteq 1..Len(l) /\ Len(l) \in Nat
         /\ \A p \in Visible(l) : p \in Nat /\ p <= Len(l)
BY AtProps DEF Visible

(* What was appended and is visible comes last in the projection. *)
LEMMA ProjectionAppends ==
  ASSUME NEW l \in Seq(Events), NEW e \in Seq(Events), NEW m,
         Visible(m) = Visible(l) \cup Behind(l, At(e, Messages))
  PROVE  Projection(m) = Projection(l) \o InOrder(Behind(l, At(e, Messages)))
<1> DEFINE S == Visible(l)
           T == Behind(l, At(e, Messages))
           n == Len(l) + Len(e)
<1>1. n \in Nat /\ Len(l) \in Nat /\ Len(e) \in Nat
  OBVIOUS
<1>2. ASSUME NEW s \in S PROVE s \in Nat /\ s <= Len(l) /\ s <= n
  BY <1>1, <1>2, VisibleProps
<1>3. ASSUME NEW t \in T PROVE t \in Nat /\ t > Len(l) /\ t <= n
  <2>1. PICK i \in At(e, Messages) : t = Len(l) + i
    BY <1>3 DEF Behind
  <2>2. i \in Nat /\ i >= 1 /\ i <= Len(e)
    BY AtProps
  <2> QED BY <1>1, <2>1, <2>2
<1> HIDE DEF S, T, n
<1>4. \A s \in S, t \in T : s < t
  BY <1>1, <1>2, <1>3
<1>5. InOrder(S \cup T) = InOrder(S) \o InOrder(T)
  BY <1>1, <1>2, <1>3, <1>4, InOrderAppends
<1> QED BY <1>5 DEF Projection, S, T

Plain(e) == \A i \in DOMAIN e : e[i].type \notin Carriers \cup {"result"}

(* Plain events neither answer nor hide. *)
LEMMA PlainAt ==
  ASSUME NEW e \in Seq(Events), Plain(e)
  PROVE  At(e, Carriers) = {} /\ At(e, {"surface"}) = {} /\ At(e, {"result"}) = {}
BY DEF Plain, At, Carriers

(* The same for all types at once. *)
LEMMA AllAppended ==
  ASSUME NEW l \in Seq(Events), NEW e \in Seq(Events), NEW m, Joins(m, l, e)
  PROVE  \A types : At(m, types) = At(l, types) \cup Behind(l, At(e, types))
<1> SUFFICES ASSUME NEW types
             PROVE  At(m, types) = At(l, types) \cup Behind(l, At(e, types))
  OBVIOUS
<1> QED BY AtAppended

(* Events that neither answer nor hide keep the log well-formed. *)
LEMMA PlainKeeps ==
  ASSUME NEW l, WellFormed(l), NEW e \in Seq(Events), Plain(e), NEW m, Joins(m, l, e)
  PROVE  /\ WellFormed(m) /\ Occluded(m) = Occluded(l)
         /\ Visible(m) = Visible(l) \cup Behind(l, At(e, Messages))
         /\ Unanswered(m) = Unanswered(l) \cup Behind(l, At(e, {"calls"}))
<1>1. l \in Seq(Events) /\ LooksBack(l) /\ HidesPairs(l) /\ KeepsSummaries(l)
  BY DEF WellFormed
<1>2. At(e, Carriers) = {} /\ At(e, {"surface"}) = {} /\ At(e, {"result"}) = {}
  BY PlainAt
<1>3. /\ At(m, Carriers) = At(l, Carriers) /\ At(m, {"surface"}) = At(l, {"surface"})
      /\ At(m, {"result"}) = At(l, {"result"})
      /\ At(m, {"calls"}) = At(l, {"calls"}) \cup Behind(l, At(e, {"calls"}))
      /\ At(m, Messages) = At(l, Messages) \cup Behind(l, At(e, Messages))
  <2>1. /\ At(m, Carriers) = At(l, Carriers) \cup Behind(l, At(e, Carriers))
        /\ At(m, {"surface"}) = At(l, {"surface"}) \cup Behind(l, At(e, {"surface"}))
        /\ At(m, {"result"}) = At(l, {"result"}) \cup Behind(l, At(e, {"result"}))
        /\ At(m, {"calls"}) = At(l, {"calls"}) \cup Behind(l, At(e, {"calls"}))
        /\ At(m, Messages) = At(l, Messages) \cup Behind(l, At(e, Messages))
    <3>1. l \in Seq(Events) /\ e \in Seq(Events) /\ Joins(m, l, e)
      BY <1>1
    <3>2. \A T : At(m, T) = At(l, T) \cup Behind(l, At(e, T))
      BY ONLY <3>1, AllAppended
    <3> QED BY <3>2
  <2>2. Behind(l, {}) = {}
    BY DEF Behind
  <2> QED BY <1>2, <2>1, <2>2
<1>4. m \in Seq(Events) /\ Len(l) \in Nat /\ \A i \in 1..Len(l) : m[i] = l[i]
  BY <1>1, Appended
<1>5. \A T : \A i \in At(l, T) : i \in 1..Len(l) /\ m[i] = l[i]
  BY <1>1, <1>4, AtProps
<1>6. LooksBack(m)
  BY <1>1, <1>3, <1>5 DEF LooksBack
<1>7. \A k \in At(l, Carriers) : Hides(m, k) = Hides(l, k)
  BY <1>5 DEF Hides
<1>8. HidesPairs(m)
  BY <1>1, <1>3, <1>5, <1>7 DEF HidesPairs
<1>9. KeepsSummaries(m)
  <2> SUFFICES ASSUME NEW i \in At(l, {"surface"})
               PROVE  /\ i > 1 /\ m[i - 1].type = "summary"
                      /\ \A k \in At(l, Carriers) : i - 1 \in Hides(l, k) => l[k].type = "surface" /\ i < k
    BY <1>3, <1>5, <1>7 DEF KeepsSummaries
  <2>1. i - 1 \in 1..Len(l)
    BY <1>1, <1>4, <1>5 DEF KeepsSummaries
  <2> QED BY <1>1, <1>4, <2>1 DEF KeepsSummaries
<1>10. Occluded(m) = Occluded(l)
  BY <1>3, <1>5 DEF Occluded
<1>11. ASSUME NEW S, NEW i \in Behind(l, At(e, S)) PROVE i \notin Occluded(l)
  <2>1. PICK j \in At(e, S) : i = Len(l) + j
    BY <1>11 DEF Behind
  <2>2. j \in Nat /\ j >= 1
    BY AtProps
  <2>3. i \in Nat /\ i > Len(l)
    BY <1>4, <2>1, <2>2
  <2>4. ASSUME NEW k \in At(l, Carriers), i \in Hides(l, k) PROVE FALSE
    <3>1. i < k /\ k <= Len(l) /\ k \in Nat
      BY <2>4, HidesProps, <1>1, AtProps
    <3> QED BY <1>4, <2>3, <3>1
  <2> QED BY <2>4, HidesProps
<1>12. Visible(m) = Visible(l) \cup Behind(l, At(e, Messages))
  BY <1>3, <1>10, <1>11 DEF Visible
<1>13. ASSUME NEW c \in Behind(l, At(e, {"calls"})), NEW r \in At(l, {"result"}) PROVE l[r].first # c
  <2>1. PICK j \in At(e, {"calls"}) : c = Len(l) + j
    BY <1>13 DEF Behind
  <2>2. j \in Nat /\ j >= 1
    BY AtProps
  <2>3. l[r].first \in At(l, {"calls"})
    BY <1>1 DEF LooksBack
  <2>4. l[r].first \in Nat /\ l[r].first <= Len(l)
    BY <1>1, <2>3, AtProps
  <2> QED BY <1>4, <2>1, <2>2, <2>4
<1>14. Unanswered(m) = Unanswered(l) \cup Behind(l, At(e, {"calls"}))
  BY <1>3, <1>5, <1>10, <1>11, <1>13 DEF Unanswered
<1> QED BY <1>4, <1>6, <1>8, <1>9, <1>10, <1>12, <1>14 DEF WellFormed

(* What is behind the log is not hidden by it. *)
LEMMA BehindIsFree ==
  ASSUME NEW l, WellFormed(l), NEW p, p \in Nat, p >= Len(l)
  PROVE  p \notin Occluded(l)
<1>1. l \in Seq(Events) /\ Len(l) \in Nat
  BY DEF WellFormed
<1>2. ASSUME NEW k \in At(l, Carriers), p \in Hides(l, k) PROVE FALSE
  <2>1. p < k /\ k <= Len(l) /\ k \in Nat
    BY <1>2, HidesProps, <1>1, AtProps
  <2> QED BY <1>1, <2>1
<1> QED BY <1>2, HidesProps

(* An unanswered call lies in the log and is visible. *)
LEMMA UnansweredProps ==
  ASSUME NEW l \in Seq(Events), NEW c \in Unanswered(l)
  PROVE  /\ c \in At(l, {"calls"}) /\ c \notin Occluded(l)
         /\ c \in Nat /\ c >= 1 /\ c <= Len(l)
         /\ \A r \in At(l, {"result"}) : l[r].first # c
<1>1. c \in At(l, {"calls"}) /\ c \notin Occluded(l) /\ \A r \in At(l, {"result"}) : l[r].first # c
  BY DEF Unanswered
<1> QED BY <1>1, AtProps

Answers(l, e) ==
  /\ \A i \in 1..Len(e) : e[i].type = "result" /\ e[i].first \in Unanswered(l)
  /\ \A i, j \in 1..Len(e) : e[i].first = e[j].first => i = j

(* Results of calls that have none. *)
LEMMA ResultsKeep ==
  ASSUME NEW l, WellFormed(l), NEW e \in Seq(Events), Answers(l, e), NEW m, Joins(m, l, e)
  PROVE  /\ WellFormed(m) /\ Occluded(m) = Occluded(l)
         /\ Visible(m) = Visible(l) \cup Behind(l, At(e, Messages))
         /\ Unanswered(m) = {c \in Unanswered(l) : \A i \in 1..Len(e) : e[i].first # c}
<1> DEFINE n == Len(l)
<1>1. l \in Seq(Events) /\ LooksBack(l) /\ HidesPairs(l) /\ KeepsSummaries(l) /\ n \in Nat
  BY DEF WellFormed
<1>2. /\ At(e, Carriers) = {} /\ At(e, {"surface"}) = {} /\ At(e, {"calls"}) = {}
      /\ At(e, {"result"}) = 1..Len(e)
  <2>1. DOMAIN e = 1..Len(e) /\ \A i \in 1..Len(e) : e[i].type = "result"
    BY DEF Answers
  <2>2. \A T : At(e, T) = IF "result" \in T THEN 1..Len(e) ELSE {}
    BY <2>1 DEF At
  <2>3. "result" \notin Carriers /\ "result" \notin {"surface"} /\ "result" \notin {"calls"}
        /\ "result" \in {"result"}
    BY DEF Carriers
  <2> QED BY <2>2, <2>3
<1>3. /\ At(m, Carriers) = At(l, Carriers) /\ At(m, {"surface"}) = At(l, {"surface"})
      /\ At(m, {"result"}) = At(l, {"result"}) \cup Behind(l, 1..Len(e))
      /\ At(m, {"calls"}) = At(l, {"calls"})
      /\ At(m, Messages) = At(l, Messages) \cup Behind(l, At(e, Messages))
  <2>1. \A T : At(m, T) = At(l, T) \cup Behind(l, At(e, T))
    <3>1. l \in Seq(Events) /\ e \in Seq(Events) /\ Joins(m, l, e)
      BY <1>1
    <3> QED BY ONLY <3>1, AllAppended
  <2>2. Behind(l, {}) = {}
    BY DEF Behind
  <2> QED BY <1>2, <2>1, <2>2
<1>4. m \in Seq(Events) /\ \A i \in 1..n : m[i] = l[i]
  BY <1>1, Appended
<1>5. \A T : \A i \in At(l, T) : i \in 1..n /\ m[i] = l[i]
  BY <1>1, <1>4, AtProps
<1>6. ASSUME NEW r \in Behind(l, 1..Len(e))
      PROVE  /\ r \in Nat /\ r > n
             /\ m[r].first \in Unanswered(l)
             /\ \E i \in 1..Len(e) : r = n + i /\ m[r].first = e[i].first
  <2>1. PICK i \in 1..Len(e) : r = n + i
    BY <1>6 DEF Behind
  <2>2. m[r] = e[i]
    <3>1. l \in Seq(Events) /\ e \in Seq(Events) /\ Joins(m, l, e)
      BY <1>1
    <3>2. \A k \in 1..Len(e) : m[Len(l) + k] = e[k]
      BY ONLY <3>1, Appended
    <3> QED BY <2>1, <3>2
  <2>3. e[i].first \in Unanswered(l)
    BY DEF Answers
  <2>4. r \in Nat /\ r > n
    BY <1>1, <2>1
  <2> QED BY <2>1, <2>2, <2>3, <2>4
<1>7. ASSUME NEW c \in Unanswered(l)
      PROVE  c \in At(l, {"calls"}) /\ c \in Nat /\ c <= n /\ c \notin Occluded(l)
             /\ \A r \in At(l, {"result"}) : l[r].first # c
  BY <1>1, UnansweredProps
<1> HIDE DEF n
<1>8. LooksBack(m)
  <2>1. ASSUME NEW r \in At(m, {"result"}) PROVE m[r].first \in At(m, {"calls"}) /\ m[r].first < r
    <3>1. CASE r \in At(l, {"result"})
      BY <1>1, <1>3, <1>5, <3>1 DEF LooksBack
    <3>2. CASE r \in Behind(l, 1..Len(e))
      <4>1. r \in Nat /\ r > n /\ m[r].first \in Unanswered(l)
        BY <1>6, <3>2
      <4>2. m[r].first \in At(l, {"calls"}) /\ m[r].first \in Nat /\ m[r].first <= n
        BY <1>7, <4>1
      <4>3. ASSUME NEW a \in Nat, NEW b \in Nat, a <= n, b > n PROVE a < b
        BY <1>1, <4>3
      <4>4. m[r].first < r
        BY <4>1, <4>2, <4>3
      <4> QED BY <1>3, <4>2, <4>4
    <3> QED BY <1>3, <2>1, <3>1, <3>2
  <2>2. ASSUME NEW r \in At(m, {"result"}), NEW q \in At(m, {"result"}), m[r].first = m[q].first
        PROVE  r = q
    <3>1. CASE r \in At(l, {"result"}) /\ q \in At(l, {"result"})
      BY <1>1, <1>5, <2>2, <3>1 DEF LooksBack
    <3>2. CASE r \in At(l, {"result"}) /\ q \in Behind(l, 1..Len(e))
      BY <1>5, <1>6, <1>7, <2>2, <3>2
    <3>3. CASE r \in Behind(l, 1..Len(e)) /\ q \in At(l, {"result"})
      BY <1>5, <1>6, <1>7, <2>2, <3>3
    <3>4. CASE r \in Behind(l, 1..Len(e)) /\ q \in Behind(l, 1..Len(e))
      <4>1. PICK i \in 1..Len(e) : r = n + i /\ m[r].first = e[i].first
        BY <1>6, <3>4
      <4>2. PICK j \in 1..Len(e) : q = n + j /\ m[q].first = e[j].first
        BY <1>6, <3>4
      <4>3. i = j
        BY <2>2, <4>1, <4>2 DEF Answers
      <4> QED BY <4>1, <4>2, <4>3
    <3> QED BY <1>3, <2>2, <3>1, <3>2, <3>3, <3>4
  <2>3. \A k \in At(m, Carriers) : m[k].last < k
    BY <1>1, <1>3, <1>5 DEF LooksBack
  <2> QED BY <2>1, <2>2, <2>3 DEF LooksBack
<1>9. \A k \in At(l, Carriers) : Hides(m, k) = Hides(l, k)
  BY <1>5 DEF Hides
<1>10. \A p \in Nat : p > n => p \notin Occluded(l)
  BY <1>1, BehindIsFree DEF n
<1>11. \A p : p \in Occluded(l) <=> \E k \in At(l, Carriers) : p \in Hides(l, k)
  BY HidesProps
<1>12. HidesPairs(m)
  <2> SUFFICES ASSUME NEW k \in At(m, Carriers), NEW r \in At(m, {"result"})
               PROVE  r \in Hides(m, k) <=> m[r].first \in Hides(m, k)
    BY DEF HidesPairs
  <2>1. k \in At(l, Carriers) /\ Hides(m, k) = Hides(l, k)
    BY <1>3, <1>9
  <2>2. CASE r \in At(l, {"result"})
    <3>1. m[r] = l[r]
      BY <1>5, <2>2
    <3>2. r \in Hides(l, k) <=> l[r].first \in Hides(l, k)
      BY <1>1, <2>1, <2>2 DEF HidesPairs
    <3> QED BY <2>1, <3>1, <3>2
  <2>3. CASE r \in Behind(l, 1..Len(e))
    <3>1. r \notin Occluded(l)
      BY <1>6, <1>10, <2>3
    <3>2. m[r].first \notin Occluded(l)
      BY <1>6, <1>7, <2>3
    <3> QED BY <1>11, <2>1, <3>1, <3>2
  <2> QED BY <1>3, <2>2, <2>3
<1>13. KeepsSummaries(m)
  <2> SUFFICES ASSUME NEW i \in At(l, {"surface"})
               PROVE  /\ i > 1 /\ m[i - 1].type = "summary"
                      /\ \A k \in At(l, Carriers) : i - 1 \in Hides(l, k) => l[k].type = "surface" /\ i < k
    BY <1>3, <1>5, <1>9 DEF KeepsSummaries
  <2>1. i - 1 \in 1..n
    BY <1>1, <1>5 DEF KeepsSummaries
  <2> QED BY <1>1, <1>4, <2>1 DEF KeepsSummaries
<1>14. Occluded(m) = Occluded(l)
  BY <1>3, <1>5 DEF Occluded
<1>15. \A p \in Behind(l, At(e, Messages)) : p \notin Occluded(l)
  <2>1. At(e, Messages) \subseteq 1..Len(e)
    BY AtProps
  <2>2. Behind(l, At(e, Messages)) \subseteq Behind(l, 1..Len(e))
    BY <2>1 DEF Behind
  <2> QED BY <1>6, <1>10, <2>2
<1>16. Visible(m) = Visible(l) \cup Behind(l, At(e, Messages))
  BY <1>3, <1>14, <1>15 DEF Visible
<1>17. Unanswered(m) = {c \in Unanswered(l) : \A i \in 1..Len(e) : e[i].first # c}
  <2>1. ASSUME NEW c \in Unanswered(m)
        PROVE  c \in Unanswered(l) /\ \A i \in 1..Len(e) : e[i].first # c
    <3>1. \A r \in At(m, {"result"}) : m[r].first # c
      BY DEF Unanswered
    <3>2. \A i \in 1..Len(e) : n + i \in At(m, {"result"}) /\ m[n + i] = e[i]
      BY <1>1, <1>3, Appended DEF Behind, n
    <3>3. \A r \in At(l, {"result"}) : l[r].first # c
      BY <1>3, <1>5, <3>1
    <3> QED BY <1>3, <1>14, <3>1, <3>2, <3>3 DEF Unanswered
  <2>2. ASSUME NEW c \in Unanswered(l), \A i \in 1..Len(e) : e[i].first # c
        PROVE  c \in Unanswered(m)
    <3>1. ASSUME NEW r \in At(m, {"result"}) PROVE m[r].first # c
      <4>1. CASE r \in At(l, {"result"})
        BY <1>5, <1>7, <4>1
      <4>2. CASE r \in Behind(l, 1..Len(e))
        BY <1>6, <2>2, <4>2
      <4> QED BY <1>3, <3>1, <4>1, <4>2
    <3> QED BY <1>3, <1>7, <1>14, <3>1 DEF Unanswered
  <2> QED BY <2>1, <2>2
<1> QED BY <1>4, <1>8, <1>12, <1>13, <1>14, <1>16, <1>17 DEF WellFormed

(* An interval that lies in the log and holds a result exactly when it     *)
(* holds its call.                                                         *)
Fits(l, range) ==
  /\ range.first \in Nat /\ range.last \in Nat /\ range.last <= Len(l)
  /\ \A r \in At(l, {"result"}) :
       r \in range.first .. range.last <=> l[r].first \in range.first .. range.last

(* A carrier hides its interval, and no more. *)
LEMMA CarrierKeeps ==
  ASSUME NEW l, WellFormed(l), NEW t \in Carriers, NEW range, Fits(l, range),
         t = "retry" => \A i \in At(l, {"surface"}) : i - 1 \notin range.first .. range.last,
         t = "surface" => /\ Len(l) > 0 /\ l[Len(l)].type = "summary"
                          /\ range.last < Len(l),
         NEW m, Joins(m, l, <<Carrier(t, range)>>)
  PROVE  /\ WellFormed(m) /\ Len(m) = Len(l) + 1
         /\ Occluded(m) = Occluded(l) \cup (range.first .. range.last)
         /\ Visible(m) = Visible(l) \ (range.first .. range.last)
         /\ Unanswered(m) = Unanswered(l) \ (range.first .. range.last)
         /\ \A T : At(m, T) = At(l, T) \cup (IF t \in T THEN {Len(l) + 1} ELSE {})
<1> DEFINE n == Len(l)
           e == <<Carrier(t, range)>>
           X == range.first .. range.last
<1>1. l \in Seq(Events) /\ LooksBack(l) /\ HidesPairs(l) /\ KeepsSummaries(l) /\ n \in Nat
  BY DEF WellFormed
<1>2. Carrier(t, range) \in Events
  BY DEF Carrier, Events, Types, Fits
<1>3. /\ e \in Seq(Events) /\ Len(e) = 1 /\ DOMAIN e = 1..1 /\ e[1] = Carrier(t, range)
      /\ e[1].type = t /\ e[1].first = range.first /\ e[1].last = range.last
  BY <1>2 DEF Carrier
<1>4. /\ t \in {"retry", "surface"} /\ t \notin Messages
  BY DEF Carriers, Messages
<1>5. \A T : At(e, T) = IF t \in T THEN {1} ELSE {}
  <2>1. \A T : At(e, T) = IF t \in T THEN 1..1 ELSE {}
    BY <1>3 DEF At
  <2>2. 1..1 = {1}
    OBVIOUS
  <2> HIDE DEF e
  <2> QED BY ONLY <2>1, <2>2
<1>6. Joins(m, l, e)
  OBVIOUS
<1> HIDE DEF e
<1>7. \A T : At(m, T) = At(l, T) \cup (IF t \in T THEN {n + 1} ELSE {})
  <2>1. \A T : At(m, T) = At(l, T) \cup Behind(l, At(e, T))
    BY ONLY <1>1, <1>3, <1>6, AllAppended
  <2>2. Behind(l, {}) = {} /\ Behind(l, {1}) = {n + 1}
    BY DEF Behind
  <2> HIDE DEF n
  <2> QED BY <1>5, <2>1, <2>2
<1>8. /\ At(m, Carriers) = At(l, Carriers) \cup {n + 1}
      /\ At(m, {"surface"}) = At(l, {"surface"}) \cup (IF t = "surface" THEN {n + 1} ELSE {})
      /\ At(m, {"result"}) = At(l, {"result"}) /\ At(m, {"calls"}) = At(l, {"calls"})
      /\ At(m, Messages) = At(l, Messages)
  <2>1. /\ t \in Carriers /\ t \notin Messages
        /\ (t \in {"surface"} <=> t = "surface") /\ t \notin {"result"} /\ t \notin {"calls"}
    BY <1>4
  <2> HIDE DEF n
  <2> QED BY ONLY <1>7, <2>1
<1>9. m \in Seq(Events) /\ Len(m) = n + 1 /\ (\A i \in 1..n : m[i] = l[i]) /\ m[n + 1] = e[1]
  <2>1. /\ m \in Seq(Events) /\ Len(m) = n + Len(e) /\ (\A i \in 1..n : m[i] = l[i])
        /\ \A i \in 1..Len(e) : m[n + i] = e[i]
    <3>1. l \in Seq(Events) /\ e \in Seq(Events) /\ Joins(m, l, e)
      BY <1>1, <1>3, <1>6
    <3> QED BY ONLY <3>1, Appended
  <2>2. 1 \in 1..Len(e)
    BY <1>3
  <2> QED BY <1>3, <2>1, <2>2
<1>10. \A T : \A i \in At(l, T) : i \in 1..n /\ m[i] = l[i] /\ i # n + 1
  <2>1. \A T : \A i \in At(l, T) : i \in 1..n
    BY <1>1, AtProps
  <2>2. \A i \in 1..n : i # n + 1
    BY <1>1
  <2> HIDE DEF n
  <2> QED BY <1>9, <2>1, <2>2
<1>11. /\ m[n + 1].type = t /\ m[n + 1].first = range.first /\ m[n + 1].last = range.last
       /\ Hides(m, n + 1) = X
  BY <1>3, <1>9 DEF Hides
<1>12. \A k \in At(l, Carriers) : Hides(m, k) = Hides(l, k)
  BY <1>10 DEF Hides
<1>13. /\ range.first \in Nat /\ range.last \in Nat /\ range.last < n + 1
       /\ \A r \in At(l, {"result"}) : r \in X <=> l[r].first \in X
  BY <1>1 DEF Fits
<1>14. t = "retry" => \A i \in At(l, {"surface"}) : i - 1 \notin X
  OBVIOUS
<1>15. t = "surface" => n > 0 /\ l[n].type = "summary" /\ range.last < n
  OBVIOUS
<1> HIDE DEF n, X
<1>16. LooksBack(m)
  <2>1. \A k \in At(m, Carriers) : m[k].last < k
    BY <1>1, <1>8, <1>10, <1>11, <1>13 DEF LooksBack
  <2> QED BY <1>1, <1>8, <1>10, <2>1 DEF LooksBack
<1>17. HidesPairs(m)
  <2> SUFFICES ASSUME NEW k \in At(m, Carriers), NEW r \in At(l, {"result"})
               PROVE  r \in Hides(m, k) <=> l[r].first \in Hides(m, k)
    BY <1>8, <1>10 DEF HidesPairs
  <2>1. CASE k \in At(l, Carriers)
    BY <1>1, <1>12, <2>1 DEF HidesPairs
  <2>2. CASE k = n + 1
    BY <1>11, <1>13, <2>2
  <2> QED BY <1>8, <2>1, <2>2
<1>18. KeepsSummaries(m)
  <2> SUFFICES ASSUME NEW i \in At(m, {"surface"})
               PROVE  /\ i > 1 /\ m[i - 1].type = "summary"
                      /\ \A k \in At(m, Carriers) : i - 1 \in Hides(m, k) => m[k].type = "surface" /\ i < k
    BY DEF KeepsSummaries
  <2>1. CASE i \in At(l, {"surface"})
    <3>1. i > 1 /\ l[i - 1].type = "summary" /\ i \in 1..n
      BY <1>1, <1>10, <2>1 DEF KeepsSummaries
    <3>2. i - 1 \in 1..n /\ i < n + 1
      BY <1>1, <3>1
    <3>3. ASSUME NEW k \in At(m, Carriers), i - 1 \in Hides(m, k) PROVE m[k].type = "surface" /\ i < k
      <4>1. CASE k \in At(l, Carriers)
        BY <1>1, <1>10, <1>12, <2>1, <3>3, <4>1 DEF KeepsSummaries
      <4>2. CASE k = n + 1
        BY <1>4, <1>11, <1>14, <2>1, <3>2, <3>3, <4>2
      <4> QED BY <1>8, <3>3, <4>1, <4>2
    <3> QED BY <1>9, <3>1, <3>2, <3>3
  <2>2. CASE i = n + 1 /\ t = "surface"
    <3>1. i - 1 = n /\ i > 1 /\ n \in 1..n
      BY <1>1, <1>15, <2>2
    <3>2. m[n].type = "summary"
      BY <1>9, <1>15, <2>2, <3>1
    <3>3. ASSUME NEW k \in At(m, Carriers), n \in Hides(m, k) PROVE FALSE
      <4>1. CASE k \in At(l, Carriers)
        <5>1. n \in Occluded(l)
          BY <1>12, <3>3, <4>1, HidesProps
        <5>2. n \in Nat /\ n >= Len(l)
          BY <1>1 DEF n
        <5> QED BY <5>1, <5>2, BehindIsFree
      <4>2. CASE k = n + 1
        <5>1. n \in X
          BY <1>11, <3>3, <4>2
        <5>2. n <= range.last
          BY <5>1, <1>13 DEF X
        <5> QED BY <1>1, <1>13, <1>15, <2>2, <5>2
      <4> QED BY <1>8, <3>3, <4>1, <4>2
    <3> QED BY <3>1, <3>2, <3>3
  <2> QED BY <1>8, <2>1, <2>2
<1>19. Occluded(m) = Occluded(l) \cup X
  <2>1. Occluded(m) = UNION {Hides(m, k) : k \in At(m, Carriers)}
    BY DEF Occluded, Hides
  <2>2. Occluded(l) = UNION {Hides(l, k) : k \in At(l, Carriers)}
    BY DEF Occluded, Hides
  <2>3. {Hides(m, k) : k \in At(m, Carriers)} = {Hides(l, k) : k \in At(l, Carriers)} \cup {X}
    BY <1>8, <1>11, <1>12
  <2> QED BY <2>1, <2>2, <2>3
<1>20. Visible(m) = Visible(l) \ X
  BY <1>8, <1>19 DEF Visible
<1>21. Unanswered(m) = Unanswered(l) \ X
  BY <1>8, <1>10, <1>19 DEF Unanswered
<1> QED BY <1>9, <1>16, <1>17, <1>18, <1>19, <1>20, <1>21, <1>7 DEF WellFormed, n, X

(* What the beginning of a log has. *)
Begins(m, l, n) == m = SubSeq(l, 1, n)

LEMMA PrefixProps ==
  ASSUME NEW l \in Seq(Events), NEW n \in 0..Len(l), NEW m, Begins(m, l, n)
  PROVE  /\ m \in Seq(Events) /\ Len(m) = n /\ n \in Nat /\ \A i \in 1..n : m[i] = l[i]
         /\ \A T, i : i \in At(m, T) <=> i \in At(l, T) /\ i <= n
         /\ \A T : \A i \in At(m, T) : m[i] = l[i] /\ i \in At(l, T) /\ i \in Nat /\ i >= 1 /\ i <= n
<1>1. l \in Seq(Events) /\ Len(l) \in Nat
  OBVIOUS
<1>2. m \in Seq(Events) /\ Len(m) = n /\ \A i \in 1..n : m[i] = l[i]
  <2>1. n \in Int /\ 1 \in Int /\ n <= Len(l) /\ n >= 0
    BY <1>1
  <2>2. \A i \in 1..n : l[i] \in Events
    BY <1>1, <2>1
  <2>3. /\ m \in Seq(Events) /\ Len(m) = (IF 1 <= n THEN n - 1 + 1 ELSE 0)
        /\ \A i \in 1..(n - 1 + 1) : m[i] = l[1 + i - 1]
    BY <2>1, <2>2, SubSeqProperties DEF Begins
  <2> QED BY <2>1, <2>3 DEF Begins
<1>3. ASSUME NEW T, NEW i
      PROVE  i \in At(m, T) <=> i \in At(l, T) /\ i <= n
  <2>1. n <= Len(l) /\ n \in Nat
    BY <1>1
  <2>2. DOMAIN m = 1..n /\ DOMAIN l = 1..Len(l)
    BY <1>1, <1>2
  <2> QED BY <1>1, <1>2, <2>1, <2>2 DEF At
<1>4. \A T : \A i \in At(m, T) : m[i] = l[i] /\ i \in At(l, T) /\ i \in Nat /\ i >= 1 /\ i <= n
  <2> SUFFICES ASSUME NEW T, NEW i \in At(m, T)
               PROVE  m[i] = l[i] /\ i \in At(l, T) /\ i \in Nat /\ i >= 1 /\ i <= n
    OBVIOUS
  <2>1. i \in Nat /\ i >= 1 /\ i <= n /\ i \in At(l, T)
    BY <1>1, <1>2, <1>3, AtProps
  <2>2. i \in 1..n
    BY <2>1
  <2> QED BY <1>2, <2>1, <2>2
<1> QED BY <1>1, <1>2, <1>3, <1>4

(* The beginning of a log is one. *)
LEMMA PrefixKeeps ==
  ASSUME NEW l, WellFormed(l), NEW n \in 0..Len(l), NEW m, m = SubSeq(l, 1, n)
  PROVE  WellFormed(m)
<1>1. l \in Seq(Events) /\ LooksBack(l) /\ HidesPairs(l) /\ KeepsSummaries(l) /\ Len(l) \in Nat
  BY DEF WellFormed
<1>2. Begins(m, l, n)
  BY DEF Begins
<1>3. /\ m \in Seq(Events) /\ Len(m) = n /\ \A i \in 1..n : m[i] = l[i]
      /\ \A T, i : i \in At(m, T) <=> i \in At(l, T) /\ i <= n
      /\ \A T : \A i \in At(m, T) : m[i] = l[i] /\ i \in At(l, T) /\ i \in Nat /\ i >= 1 /\ i <= n
  BY ONLY <1>1, <1>2, n \in 0..Len(l), PrefixProps
<1>4. \A T : \A i \in At(m, T) : m[i] = l[i] /\ i \in At(l, T) /\ i \in Nat /\ i >= 1 /\ i <= n
  BY <1>3
<1>5. n \in Nat
  BY <1>1
<1>6. LooksBack(m)
  <2>1. \A k \in At(m, Carriers) : m[k].last < k
    BY <1>1, <1>4 DEF LooksBack
  <2>2. ASSUME NEW r \in At(m, {"result"}) PROVE m[r].first \in At(m, {"calls"}) /\ m[r].first < r
    <3>1. m[r] = l[r] /\ r \in At(l, {"result"}) /\ r \in Nat /\ r <= n
      BY <1>4
    <3>2. m[r].first \in At(l, {"calls"}) /\ m[r].first < r
      BY <1>1, <3>1 DEF LooksBack
    <3>3. m[r].first \in Nat
      BY <1>1, <3>2, AtProps
    <3>4. \A x \in Nat : x < r => x <= n
      BY <1>5, <3>1
    <3> QED BY <1>3, <3>2, <3>3, <3>4
  <2>3. \A r, q \in At(m, {"result"}) : m[r].first = m[q].first => r = q
    BY <1>1, <1>4 DEF LooksBack
  <2> QED BY <2>1, <2>2, <2>3 DEF LooksBack
<1>7. \A k \in At(m, Carriers) : Hides(m, k) = Hides(l, k)
  BY <1>4 DEF Hides
<1>8. HidesPairs(m)
  BY <1>1, <1>4, <1>7 DEF HidesPairs
<1>9. KeepsSummaries(m)
  <2> SUFFICES ASSUME NEW i \in At(m, {"surface"})
               PROVE  /\ i > 1 /\ m[i - 1].type = "summary"
                      /\ \A k \in At(m, Carriers) : i - 1 \in Hides(m, k) => m[k].type = "surface" /\ i < k
    BY DEF KeepsSummaries
  <2>1. i \in At(l, {"surface"}) /\ i \in Nat /\ i <= n
    BY <1>4
  <2>2. i > 1 /\ l[i - 1].type = "summary"
    BY <1>1, <2>1 DEF KeepsSummaries
  <2>3. i - 1 \in 1..n
    BY <1>5, <2>1, <2>2
  <2>4. m[i - 1] = l[i - 1]
    BY <1>3, <2>3
  <2>5. \A k \in At(m, Carriers) : i - 1 \in Hides(m, k) => m[k].type = "surface" /\ i < k
    BY <1>1, <1>4, <1>7, <2>1 DEF KeepsSummaries
  <2> QED BY <2>2, <2>4, <2>5
<1> QED BY <1>3, <1>6, <1>8, <1>9 DEF WellFormed

(* So many times the same event. *)
LEMMA RepeatIsSeq ==
  ASSUME NEW S, NEW x \in S, NEW n \in Int
  PROVE  /\ [i \in 1..n |-> x] \in Seq(S)
         /\ \A j \in DOMAIN [i \in 1..n |-> x] : [i \in 1..n |-> x][j] = x
<1> DEFINE f == [i \in 1..n |-> x]
<1>1. CASE n >= 0
  <2>1. n \in Nat /\ f \in [1..n -> S]
    BY <1>1
  <2> QED BY <2>1, FunctionIsSeq
<1>2. CASE n < 0
  <2>1. 1..n = 1..0
    BY <1>2
  <2>2. f \in [1..0 -> S] /\ 0 \in Nat
    BY <2>1
  <2> HIDE DEF f
  <2>3. f \in Seq(S)
    BY <2>2, FunctionIsSeq
  <2> QED BY <2>3 DEF f
<1> QED BY <1>1, <1>2

(* The depth of the brackets is a number. *)
LEMMA DepthIsInt ==
  ASSUME NEW l \in Seq(Events), NEW open, NEW close
  PROVE  Depth(l, open, close) \in Int
<1>1. Len(l) \in Nat
  OBVIOUS
<1>2. ASSUME NEW T PROVE Cardinality(At(l, T)) \in Nat
  <2>1. At(l, T) \in SUBSET (1..Len(l))
    BY AtProps
  <2>2. IsFiniteSet(1..Len(l))
    BY <1>1, FS_Interval
  <2> QED BY <2>1, <2>2, FS_Subset, FS_CardinalityType
<1> QED BY <1>2 DEF Depth

(* Recovery appends results, then ends of compactions and of turns. *)
AnsweredFirst(m, l) ==
  \E k, a, d : /\ WellFormed(k) /\ Unanswered(k) = {}
               /\ Joins(k, l, a) /\ Joins(m, k, d) /\ a \in Seq(Events) /\ d \in Seq(Events)
               /\ \A i \in 1..Len(a) : a[i].type = "result"
               /\ \A i \in 1..Len(d) : d[i].type \in {"closed", "turn/end"}

LEMMA ClosersSteps ==
  ASSUME NEW l, WellFormed(l), NEW m, Joins(m, l, Closers(l))
  PROVE  WellFormed(m) /\ Unanswered(m) = {} /\ AnsweredFirst(m, l)
<1> DEFINE U == Unanswered(l)
           calls == InOrder(U)
           a == [i \in DOMAIN calls |-> Result(calls[i])]
           b == [i \in 1..OpenCompactions(l) |-> Event("closed")]
           c == [i \in 1..OpenTurns(l) |-> Event("turn/end")]
           m1 == l \o a
<1>1. l \in Seq(Events) /\ Len(l) \in Nat
  BY DEF WellFormed
<1>2. \A u \in U : u \in Nat /\ u >= 1 /\ u <= Len(l)
  BY <1>1, UnansweredProps
<1>3. /\ IsFiniteSet(U) /\ Cardinality(U) \in Nat /\ calls \in Seq(U) /\ Len(calls) = Cardinality(U)
      /\ \A k \in 1..Cardinality(U) : calls[k] \in U /\ Cardinality(Below(U, calls[k])) = k - 1
      /\ \A i \in U : \E k \in 1..Cardinality(U) : calls[k] = i
  <2> HIDE DEF U
  <2> QED BY <1>1, <1>2, InOrderProps
<1>4. DOMAIN calls = 1..Len(calls) /\ Len(calls) \in Nat
  BY <1>3
<1>5. ASSUME NEW u \in U PROVE Result(u) \in Events /\ Result(u).type = "result" /\ Result(u).first = u
  <2>1. u \in Nat
    BY <1>2
  <2> HIDE DEF U
  <2> QED BY <2>1 DEF Result, Events, Types, Messages
<1>6. a \in Seq(Events) /\ Len(a) = Len(calls) /\ \A i \in 1..Len(a) : a[i] = Result(calls[i])
  <2>1. \A i \in 1..Len(calls) : calls[i] \in U
    BY <1>3
  <2>2. a \in [1..Len(calls) -> Events]
    BY <1>4, <1>5, <2>1
  <2>3. a \in Seq(Events) /\ Len(a) = Len(calls)
    <3> HIDE DEF a
    <3> QED BY <1>4, <2>2, FunctionIsSeq
  <2> QED BY <1>4, <2>3
<1>7. b \in Seq(Events) /\ \A i \in DOMAIN b : b[i] = Event("closed")
  <2>1. Event("closed") \in Events
    BY DEF Event, Events, Types
  <2>2. OpenCompactions(l) \in Int
    BY <1>1, DepthIsInt DEF OpenCompactions
  <2> QED BY <2>1, <2>2, RepeatIsSeq
<1>8. c \in Seq(Events) /\ \A i \in DOMAIN c : c[i] = Event("turn/end")
  <2>1. Event("turn/end") \in Events
    BY DEF Event, Events, Types
  <2>2. OpenTurns(l) \in Int
    BY <1>1, DepthIsInt DEF OpenTurns
  <2> QED BY <2>1, <2>2, RepeatIsSeq
<1>9. Closers(l) = a \o b \o c
  BY DEF Closers
<1> HIDE DEF a, b, c, m1
<1>10. /\ b \o c \in Seq(Events) /\ Plain(b \o c)
       /\ \A i \in DOMAIN (b \o c) : (b \o c)[i] \in {Event("closed"), Event("turn/end")}
  <2>1. /\ b \o c \in Seq(Events) /\ Len(b \o c) = Len(b) + Len(c)
        /\ \A i \in 1..Len(b) : (b \o c)[i] = b[i]
        /\ \A i \in 1..Len(c) : (b \o c)[Len(b) + i] = c[i]
    BY <1>7, <1>8, ConcatProps
  <2>2. ASSUME NEW i \in DOMAIN (b \o c) PROVE (b \o c)[i] \in {Event("closed"), Event("turn/end")}
    <3>1. Len(b) \in Nat /\ Len(c) \in Nat /\ DOMAIN b = 1..Len(b) /\ DOMAIN c = 1..Len(c)
          /\ i \in 1..(Len(b) + Len(c))
      BY <1>7, <1>8, <2>1
    <3>2. CASE i \in 1..Len(b)
      BY <1>7, <2>1, <3>1, <3>2
    <3>3. CASE i \notin 1..Len(b)
      <4>1. i - Len(b) \in 1..Len(c) /\ i = Len(b) + (i - Len(b))
        BY <3>1, <3>3
      <4> QED BY <1>8, <2>1, <3>1, <4>1
    <3> QED BY <3>2, <3>3
  <2>3. \A x \in {Event("closed"), Event("turn/end")} : x.type \notin Carriers \cup {"result"}
    BY DEF Event, Carriers
  <2> QED BY <2>1, <2>2, <2>3 DEF Plain
<1>11. m = m1 \o (b \o c)
  <2>1. m = l \o ((a \o b) \o c)
    BY <1>9 DEF Joins
  <2>2. (a \o b) \o c = a \o (b \o c)
    BY <1>6, <1>7, <1>8, ConcatAssociative
  <2>3. l \o (a \o (b \o c)) = (l \o a) \o (b \o c)
    <3> DEFINE d == b \o c
    <3>1. d \in Seq(Events)
      BY <1>10
    <3> HIDE DEF d
    <3>2. l \o (a \o d) = (l \o a) \o d
      BY <1>1, <1>6, <3>1, ConcatAssociative
    <3> QED BY <3>2 DEF d
  <2> QED BY <2>1, <2>2, <2>3 DEF m1
<1>12. Answers(l, a)
  <2>1. ASSUME NEW i \in 1..Len(a)
        PROVE  a[i].type = "result" /\ a[i].first = calls[i] /\ calls[i] \in Unanswered(l)
    BY <1>3, <1>5, <1>6
  <2>2. ASSUME NEW i \in 1..Len(a), NEW j \in 1..Len(a), calls[i] = calls[j] PROVE i = j
    <3>1. Cardinality(Below(U, calls[i])) = i - 1 /\ Cardinality(Below(U, calls[i])) = j - 1
      BY <1>3, <1>6, <2>2
    <3>2. i \in Int /\ j \in Int
      OBVIOUS
    <3> QED BY ONLY <3>1, <3>2
  <2> QED BY <2>1, <2>2 DEF Answers
<1>13. WellFormed(m1) /\ Unanswered(m1) = {x \in Unanswered(l) : \A i \in 1..Len(a) : a[i].first # x}
  <2>1. Joins(m1, l, a)
    BY DEF Joins, m1
  <2>2. WellFormed(l) /\ a \in Seq(Events)
    BY <1>6
  <2> QED BY ONLY <1>12, <2>1, <2>2, ResultsKeep
<1>14. Unanswered(m1) = {}
  <2>1. ASSUME NEW u \in Unanswered(l) PROVE \E i \in 1..Len(a) : a[i].first = u
    <3>1. PICK k \in 1..Cardinality(U) : calls[k] = u
      BY <1>3
    <3>2. a[k].first = u /\ k \in 1..Len(a)
      BY <1>3, <1>5, <1>6, <3>1
    <3> QED BY <3>2
  <2> QED BY <1>13, <2>1
<1>15. WellFormed(m) /\ Unanswered(m) = Unanswered(m1) \cup Behind(m1, At(b \o c, {"calls"}))
  <2> DEFINE d == b \o c
  <2>1. Joins(m, m1, d) /\ d \in Seq(Events) /\ Plain(d) /\ WellFormed(m1)
    BY <1>10, <1>11, <1>13 DEF Joins
  <2> HIDE DEF d
  <2>2. WellFormed(m) /\ Unanswered(m) = Unanswered(m1) \cup Behind(m1, At(d, {"calls"}))
    BY ONLY <2>1, PlainKeeps
  <2> QED BY <2>2 DEF d
<1>16. At(b \o c, {"calls"}) = {}
  <2>1. \A i \in DOMAIN (b \o c) : (b \o c)[i].type # "calls"
    BY <1>10 DEF Event
  <2> QED BY <2>1 DEF At
<1>17. WellFormed(m) /\ Unanswered(m) = {}
  BY <1>14, <1>15, <1>16 DEF Behind
<1>18. AnsweredFirst(m, l)
  <2> DEFINE d == b \o c
  <2>1. Joins(m1, l, a)
    BY DEF Joins, m1
  <2>2. Joins(m, m1, d) /\ d \in Seq(Events)
    BY <1>10, <1>11 DEF Joins
  <2>3. \A i \in 1..Len(d) : d[i].type \in {"closed", "turn/end"}
    <3>1. DOMAIN d = 1..Len(d)
      BY <2>2
    <3> QED BY <1>10, <3>1 DEF Event
  <2>4. \A i \in 1..Len(a) : a[i].type = "result"
    BY <1>3, <1>5, <1>6
  <2> HIDE DEF d
  <2> QED BY <1>6, <1>13, <1>14, <2>1, <2>2, <2>3, <2>4 DEF AnsweredFirst
<1> QED BY <1>17, <1>18

(* Recovery answers every call. *)
LEMMA ClosersKeep ==
  ASSUME NEW l, WellFormed(l), NEW m, Joins(m, l, Closers(l))
  PROVE  WellFormed(m) /\ Unanswered(m) = {}
BY ClosersSteps

(* What is the highest position. *)
LEMMA HighestProps ==
  ASSUME NEW n \in Nat, NEW S, S \subseteq 1..n
  PROVE  /\ Highest(S) \in Nat
         /\ \A i \in S : i <= Highest(S)
         /\ Highest(S) # 0 => Highest(S) \in S
         /\ S # {} => Highest(S) = Max(S) /\ Max(S) \in S
<1>1. CASE S = {}
  BY <1>1 DEF Highest
<1>2. CASE S # {}
  <2>1. S \subseteq 0..n /\ S \subseteq Nat
    OBVIOUS
  <2>2. Max(S) \in S /\ \A y \in S : y <= Max(S)
    BY <1>2, <2>1, MaxIsMost
  <2> QED BY <1>2, <2>1, <2>2 DEF Highest
<1> QED BY <1>1, <1>2

(* A compaction chooses an interval of closed turns. *)
LEMMA PlanProps ==
  ASSUME NEW l \in Seq(Events), NEW keep \in Nat \ {0}, NEW p, p = PlanSegment(l, keep)
  PROVE  /\ p \in [first : Nat, last : Nat] /\ p.last <= Len(l)
         /\ p # NoInterval => \E t \in At(l, {"turn/end"}) : p.last <= t
<1> DEFINE n == Len(l)
           ends == At(l, {"turn/end"})
           V == Visible(l)
           shown == Projection(l)
           first == PlanFirst(l)
           last == PlanLast(l, first, keep)
<1>1. /\ n \in Nat /\ DOMAIN l = 1..n /\ ends \subseteq 1..n
      /\ At(l, Carriers) \subseteq 1..n /\ \A i \in 1..n : l[i] \in Events
  BY AtProps
<1>2. CASE p = NoInterval
  BY <1>1, <1>2 DEF NoInterval, Interval
<1>3. CASE p # NoInterval
  <2>1. ends # {} /\ Cardinality(V) >= keep + 2 /\ p = Interval(first, last)
    <3>1. /\ ~(ends = {} \/ Cardinality(V) < keep + 2)
          /\ p = Interval(first, last)
      BY <1>3 DEF PlanSegment
    <3>2. Cardinality(V) \in Nat
      <4>1. V \in SUBSET (1..n)
        BY VisibleProps
      <4>2. IsFiniteSet(1..n)
        BY <1>1, FS_Interval
      <4> QED BY <4>1, <4>2, FS_Subset, FS_CardinalityType
    <3> QED BY <3>1, <3>2
  <2>2. first \in Nat
    <3> DEFINE hidden == {l[i].last : i \in At(l, {"surface"})}
               from == IF hidden # {} THEN Max(hidden) ELSE Min(At(l, {"turn/end"}))
               free == {i \in DOMAIN l : i > from} \ (Occluded(l) \cup At(l, Carriers))
    <3>1. first = IF free = {} THEN Len(l) + 1 ELSE Min(free)
      BY DEF PlanFirst
    <3>2. free \subseteq Nat
      BY <1>1
    <3> HIDE DEF free, n
    <3>3. free # {} => Min(free) \in free
      BY <3>2, MinIsLeast
    <3>4. Len(l) + 1 \in Nat
      BY <1>1 DEF n
    <3> QED BY <3>1, <3>2, <3>3, <3>4
  <2>3. Max(ends) \in ends
    <3>1. ends \subseteq 0..n
      BY <1>1
    <3> HIDE DEF ends
    <3> QED BY <1>1, <2>1, <3>1, MaxIsMost
  <2>4. shown[Len(shown) - keep + 1] - 1 \in Nat
    <3>1. /\ Len(shown) = Cardinality(V) /\ Cardinality(V) \in Nat
          /\ \A k \in 1..Cardinality(V) : shown[k] \in V
      <4>1. n \in Nat /\ \A v \in V : v \in Nat /\ v <= n
        BY <1>1, VisibleProps
      <4> HIDE DEF V, n
      <4> QED BY <4>1, InOrderProps DEF Projection, V
    <3>2. Len(shown) - keep + 1 \in 1..Cardinality(V)
      BY <2>1, <3>1
    <3>3. V \subseteq 1..n
      BY VisibleProps
    <3>4. shown[Len(shown) - keep + 1] \in 1..n
      BY <3>1, <3>2, <3>3
    <3> QED BY <1>1, <3>4
  <2>5. last \in Nat /\ last <= Max(ends)
    <3> DEFINE above == {i \in At(l, Carriers) : i > first}
                        \cup {l[i].first : i \in {j \in At(l, Carriers) : l[j].first > first}}
               U == {i - 1 : i \in above}
               T == {Max(ends), shown[Len(shown) - keep + 1] - 1} \cup U
    <3>1. last = Min(T)
      BY DEF PlanLast
    <3>2. \A i \in above : i \in Nat /\ i > first
      <4>1. \A i \in At(l, Carriers) : i \in Nat /\ l[i].first \in Nat
        BY <1>1 DEF Events
      <4> QED BY <4>1
    <3>3. U \subseteq Nat
      <4> HIDE DEF above
      <4> SUFFICES ASSUME NEW i \in above PROVE i - 1 \in Nat
        OBVIOUS
      <4>1. i \in Nat /\ i > first
        BY <3>2
      <4> QED BY <2>2, <4>1
    <3>4. Max(ends) \in Nat
      BY <1>1, <2>3
    <3>5. T \subseteq Nat /\ T # {} /\ Max(ends) \in T
      BY <2>4, <3>3, <3>4
    <3> HIDE DEF T
    <3>6. Min(T) \in T /\ \A y \in T : Min(T) <= y
      BY <3>5, MinIsLeast
    <3> QED BY <3>1, <3>5, <3>6
  <2>6. p.first = first /\ p.last = last /\ p \in [first : Nat, last : Nat]
    BY <2>1, <2>2, <2>5 DEF Interval
  <2>7. Max(ends) <= n /\ Max(ends) \in Nat
    BY <1>1, <2>3
  <2>8. p.last <= n
    BY <1>1, <2>5, <2>6, <2>7
  <2> QED BY <2>3, <2>5, <2>6, <2>8
<1> QED BY <1>2, <1>3
-----------------------------------------------------------------------------
(* The chain: at most one task of each sort.                               *)

Own(c) == \E i \in DOMAIN c : c[i].kind # "overflow"
Over(c) == \E i \in DOMAIN c : c[i].kind = "overflow"
Single(c) ==
  \A i, j \in DOMAIN c : (c[i].kind = "overflow" <=> c[j].kind = "overflow") => i = j

Appends(d, c, t) == d = Append(c, t)

(* A task joins the chain. *)
LEMMA AppendTask ==
  ASSUME NEW c \in Seq(Tasks), NEW t \in Tasks, NEW d, Appends(d, c, t)
  PROVE  /\ d \in Seq(Tasks)
         /\ Own(d) <=> Own(c) \/ t.kind # "overflow"
         /\ Over(d) <=> Over(c) \/ t.kind = "overflow"
         /\ (/\ Single(c)
             /\ t.kind = "overflow" => ~Over(c)
             /\ t.kind # "overflow" => ~Own(c)) => Single(d)
         /\ \A j \in DOMAIN d : d[j] = t \/ \E i \in DOMAIN c : d[j] = c[i]
<1> DEFINE n == Len(c)
<1>1. /\ n \in Nat /\ DOMAIN c = 1..n /\ DOMAIN d = 1..(n + 1) /\ d \in Seq(Tasks)
      /\ (\A i \in 1..n : d[i] = c[i]) /\ d[n + 1] = t
  BY DEF Appends
<1>2. \A j : j \in DOMAIN d <=> j \in DOMAIN c \/ j = n + 1
  BY <1>1
<1>3. /\ \A j \in DOMAIN c : d[j] = c[j] /\ j # n + 1
      /\ d[n + 1] = t
  BY <1>1
<1>4. Own(d) <=> Own(c) \/ t.kind # "overflow"
  BY <1>2, <1>3 DEF Own
<1>5. Over(d) <=> Over(c) \/ t.kind = "overflow"
  BY <1>2, <1>3 DEF Over
<1>6. ASSUME Single(c), t.kind = "overflow" => ~Over(c), t.kind # "overflow" => ~Own(c)
      PROVE  Single(d)
  <2> SUFFICES ASSUME NEW i \in DOMAIN d, NEW j \in DOMAIN d,
                      d[i].kind = "overflow" <=> d[j].kind = "overflow"
               PROVE  i = j
    BY DEF Single
  <2>1. CASE i \in DOMAIN c /\ j \in DOMAIN c
    BY <1>3, <1>6, <2>1 DEF Single
  <2>2. CASE i \in DOMAIN c /\ j = n + 1
    BY <1>3, <1>6, <2>2 DEF Own, Over
  <2>3. CASE i = n + 1 /\ j \in DOMAIN c
    BY <1>3, <1>6, <2>3 DEF Own, Over
  <2> QED BY <1>2, <2>1, <2>2, <2>3
<1>7. \A j \in DOMAIN d : d[j] = t \/ \E i \in DOMAIN c : d[j] = c[i]
  BY <1>2, <1>3
<1> QED BY <1>1, <1>4, <1>5, <1>6, <1>7

(* The first task leaves the chain. *)
LEMMA TailTask ==
  ASSUME NEW c \in Seq(Tasks), c # <<>>, NEW d, d = Tail(c)
  PROVE  /\ d \in Seq(Tasks) /\ Head(c) \in Tasks
         /\ \E i \in DOMAIN c : c[i] = Head(c)
         /\ \A j \in DOMAIN d : \E i \in DOMAIN c : d[j] = c[i]
         /\ Single(c) => /\ Single(d)
                         /\ Own(d) <=> Own(c) /\ Head(c).kind = "overflow"
                         /\ Over(d) <=> Over(c) /\ Head(c).kind # "overflow"
<1> DEFINE n == Len(c)
<1>1. /\ n \in Nat /\ n > 0 /\ DOMAIN c = 1..n /\ DOMAIN d = 1..(n - 1) /\ d \in Seq(Tasks)
      /\ (\A i \in 1..(n - 1) : d[i] = c[i + 1]) /\ Head(c) = c[1] /\ c[1] \in Tasks
  OBVIOUS
<1>2. \A j \in DOMAIN d : j \in Nat /\ j + 1 \in DOMAIN c /\ d[j] = c[j + 1] /\ j + 1 # 1
  BY <1>1
<1>3. \A i \in DOMAIN c : i = 1 \/ \E j \in DOMAIN d : i = j + 1 /\ d[j] = c[i]
  <2> SUFFICES ASSUME NEW i \in DOMAIN c, i # 1 PROVE \E j \in DOMAIN d : i = j + 1 /\ d[j] = c[i]
    OBVIOUS
  <2>1. i - 1 \in DOMAIN d /\ i = (i - 1) + 1
    BY <1>1
  <2>2. d[i - 1] = c[i]
    BY <1>2, <2>1
  <2> QED BY <2>1, <2>2
<1>4. 1 \in DOMAIN c /\ Head(c) = c[1]
  BY <1>1
<1>5. ASSUME Single(c)
      PROVE  /\ Single(d)
             /\ Own(d) <=> Own(c) /\ Head(c).kind = "overflow"
             /\ Over(d) <=> Over(c) /\ Head(c).kind # "overflow"
  <2>1. Single(d)
    <3> SUFFICES ASSUME NEW i \in DOMAIN d, NEW j \in DOMAIN d,
                        d[i].kind = "overflow" <=> d[j].kind = "overflow"
                 PROVE  i = j
      BY DEF Single
    <3>1. i + 1 = j + 1
      BY <1>2, <1>5 DEF Single
    <3> QED BY <1>2, <3>1
  <2>2. Own(d) <=> Own(c) /\ Head(c).kind = "overflow"
    BY <1>2, <1>3, <1>4, <1>5 DEF Own, Single
  <2>3. Over(d) <=> Over(c) /\ Head(c).kind # "overflow"
    BY <1>2, <1>3, <1>4, <1>5 DEF Over, Single
  <2> QED BY <2>1, <2>2, <2>3
<1> QED BY <1>1, <1>2, <1>4, <1>5

(* What is new in the chain is not an overflow, and has no interval yet.   *)
Inherits(c, d) ==
  \A j \in DOMAIN d :
    \/ \E i \in DOMAIN c : d[j] = c[i]
    \/ d[j].plan = NoInterval /\ d[j].kind # "overflow"

(* A new task has neither interval nor anchor. *)
LEMMA TaskProps ==
  ASSUME NEW k \in Kinds
  PROVE  Task(k) \in Tasks /\ Task(k).kind = k /\ Task(k).plan = NoInterval /\ Task(k).anchor = 0
BY DEF Task, Tasks, NoInterval, Interval

(* A compaction of its own joins a chain that has none. *)
LEMMA NewTask ==
  ASSUME NEW c \in Seq(Tasks), Single(c), ~Own(c), NEW k \in Kinds, k # "overflow",
         NEW d, d = Append(c, Task(k))
  PROVE  /\ d \in Seq(Tasks) /\ Single(d) /\ Own(d)
         /\ Over(d) <=> Over(c)
         /\ Inherits(c, d)
<1> DEFINE t == Task(k)
<1>1. t \in Tasks /\ t.kind = k /\ t.plan = NoInterval /\ Appends(d, c, t)
  BY TaskProps DEF Appends
<1> HIDE DEF t
<1>2. /\ d \in Seq(Tasks)
      /\ Own(d) <=> Own(c) \/ t.kind # "overflow"
      /\ Over(d) <=> Over(c) \/ t.kind = "overflow"
      /\ Single(d)
      /\ \A j \in DOMAIN d : d[j] = t \/ \E i \in DOMAIN c : d[j] = c[i]
  <2>1. c \in Seq(Tasks) /\ t \in Tasks /\ Appends(d, c, t) /\ t.kind # "overflow"
    BY <1>1
  <2>2. /\ d \in Seq(Tasks)
        /\ Own(d) <=> Own(c) \/ t.kind # "overflow"
        /\ Over(d) <=> Over(c) \/ t.kind = "overflow"
        /\ (/\ Single(c)
            /\ t.kind = "overflow" => ~Over(c)
            /\ t.kind # "overflow" => ~Own(c)) => Single(d)
        /\ \A j \in DOMAIN d : d[j] = t \/ \E i \in DOMAIN c : d[j] = c[i]
    BY ONLY <2>1, AppendTask
  <2> QED BY <2>1, <2>2
<1>3. Inherits(c, d)
  BY <1>1, <1>2 DEF Inherits
<1> QED BY <1>1, <1>2, <1>3

(* The threshold queues a compaction only where none is. *)
LEMMA EvaluateMoves ==
  ASSUME NEW taken \in BOOLEAN, NEW queue \in Seq(Tasks), Single(queue), taken <=> Own(queue),
         Evaluate(taken, queue)
  PROVE  /\ chain' \in Seq(Tasks) /\ pending' \in BOOLEAN /\ Single(chain')
         /\ pending' <=> Own(chain')
         /\ Over(chain') <=> Over(queue)
         /\ Inherits(queue, chain')
<1>1. CASE pending' = taken /\ chain' = queue
  BY <1>1 DEF Inherits
<1>2. CASE ~taken /\ pending' = TRUE /\ chain' = Append(queue, Task("threshold"))
  <2>1. "threshold" \in Kinds /\ "threshold" # "overflow"
    BY DEF Kinds
  <2> QED BY <1>2, <2>1, NewTask
<1> QED BY <1>1, <1>2 DEF Evaluate

(* A run that settles hands its manual request on, and seats and chain     *)
(* still agree.                                                            *)
LEMMA RunSettledMoves ==
  ASSUME manual \in BOOLEAN, pending \in BOOLEAN, manual => ~pending,
         NEW queue \in Seq(Tasks), Single(queue), pending <=> Own(queue),
         RunSettled(queue)
  PROVE  /\ chain' \in Seq(Tasks) /\ pending' \in BOOLEAN /\ Single(chain') /\ manual' = FALSE
         /\ pending' <=> Own(chain')
         /\ Over(chain') <=> Over(queue)
         /\ Inherits(queue, chain')
<1>1. CASE manual /\ manual' = FALSE /\ pending' = TRUE /\ chain' = Append(queue, Task("drained"))
  <2>1. "drained" \in Kinds /\ "drained" # "overflow"
    BY DEF Kinds
  <2> QED BY <1>1, <2>1, NewTask
<1>2. CASE ~manual /\ UNCHANGED manual /\ Evaluate(pending, queue)
  BY <1>2, EvaluateMoves
<1> QED BY <1>1, <1>2 DEF RunSettled

(* What the steps of the chain owe: the seats, and the types they touch.   *)
Seats ==
  /\ chain \in Seq(Tasks) /\ {pending, manual} \subseteq BOOLEAN
  /\ OneSeat /\ SeatIsHeld

(* What the invariant says of the seats. *)
LEMMA SeatsAre ==
  ASSUME IInv
  PROVE  /\ chain \in Seq(Tasks) /\ pending \in BOOLEAN /\ manual \in BOOLEAN
         /\ Single(chain) /\ (manual => ~pending)
         /\ pending <=> Own(chain)
         /\ run.stage = "overflow" <=> Over(chain)
         /\ manual => run.stage # "idle" \/ run.crashed
BY DEF IInv, TypeOK, OneSeat, SeatIsHeld, Single, Own, Over, Busy

(* What has to be shown of the seats after a step. *)
LEMMA SeatsThen ==
  ASSUME chain' \in Seq(Tasks), pending' \in BOOLEAN, manual' \in BOOLEAN,
         Single(chain'), manual' => ~pending', pending' <=> Own(chain'),
         run'.stage = "overflow" <=> Over(chain'),
         manual' => run'.stage # "idle" \/ run'.crashed
  PROVE  Seats'
BY DEF Seats, OneSeat, SeatIsHeld, Single, Own, Over, Busy

(* To have no run is a state of a run. *)
LEMMA NoRunIsRun == NoRun \in Runs
<1>1. 0 \in 0..MaxRetries
  BY CompactionAssumption
<1> QED BY <1>1 DEF NoRun, Runs

(* A step that touches neither seats nor chain keeps them. *)
LEMMA SeatsStay ==
  ASSUME IInv, UNCHANGED <<pending, manual, chain>>,
         run.stage = "overflow" <=> run'.stage = "overflow",
         manual => run'.stage # "idle" \/ run'.crashed
  PROVE  Seats' /\ Inherits(chain, chain')
<1>1. Seats'
  <2>1. chain' = chain /\ pending' = pending /\ manual' = manual
    OBVIOUS
  <2> QED BY <2>1, SeatsAre, SeatsThen
<1> QED BY <1>1 DEF Inherits

(* A run that ends tells the service.                                      *)
LEMMA SeatsSettle ==
  ASSUME IInv, run.stage # "overflow", run' = NoRun, RunSettled(chain)
  PROVE  Seats' /\ Inherits(chain, chain') /\ ~Over(chain')
<1>1. /\ chain' \in Seq(Tasks) /\ pending' \in BOOLEAN /\ Single(chain') /\ manual' = FALSE
      /\ pending' <=> Own(chain')
      /\ Over(chain') <=> Over(chain)
      /\ Inherits(chain, chain')
  BY SeatsAre, RunSettledMoves
<1>2. ~Over(chain') /\ run'.stage # "overflow"
  BY <1>1, SeatsAre DEF NoRun
<1> QED BY <1>1, <1>2, SeatsThen

(* A task that is over gives its seat back, and its run goes on.           *)
LEMMA TaskIsOver ==
  ASSUME IInv, chain # <<>>, NEW compacted \in BOOLEAN, NEW changed \in BOOLEAN,
         Finish(compacted, changed), Projection(log') \in Seq(Nat),
         ~changed => Projection(log') = Projection(log)
  PROVE  /\ Seats' /\ Inherits(chain, chain')
         /\ context' \in Seq(Nat) /\ run' \in Runs /\ TimelineMatches'
         /\ run'.stage = "batch" <=> run.stage = "batch"
         /\ run'.stage = "hook" => run.stage = "hook"
         /\ run.stage = "overflow" /\ run'.stage = "ready" => compacted /\ Task1.kind = "overflow"
<1>1. /\ chain \in Seq(Tasks) /\ pending \in BOOLEAN /\ manual \in BOOLEAN
      /\ Single(chain) /\ (manual => ~pending)
      /\ pending <=> Own(chain)
      /\ run.stage = "overflow" <=> Over(chain)
      /\ manual => run.stage # "idle" \/ run.crashed
  BY SeatsAre
<1>2. /\ Tail(chain) \in Seq(Tasks) /\ Task1 \in Tasks /\ Single(Tail(chain))
      /\ \E i \in DOMAIN chain : chain[i] = Task1
      /\ \A j \in DOMAIN Tail(chain) : \E i \in DOMAIN chain : Tail(chain)[j] = chain[i]
      /\ Own(Tail(chain)) <=> Own(chain) /\ Task1.kind = "overflow"
      /\ Over(Tail(chain)) <=> Over(chain) /\ Task1.kind # "overflow"
  BY <1>1, TailTask DEF Task1
<1>3. \A d : Inherits(Tail(chain), d) => Inherits(chain, d)
  BY <1>2 DEF Inherits
<1>4. Inherits(chain, Tail(chain))
  BY <1>2 DEF Inherits
<1>5. run \in Runs /\ context \in Seq(Nat) /\ TimelineMatches
  BY DEF IInv, TypeOK
<1>6. CASE Task1.kind # "overflow" /\ Leaves(changed) /\ Yields
  <2>1. Own(chain)
    BY <1>2, <1>6 DEF Own
  <2>2. pending /\ ~manual
    BY <1>1, <2>1
  <2>3. /\ chain' \in Seq(Tasks) /\ pending' \in BOOLEAN /\ manual' = manual
        /\ Single(chain') /\ (pending' <=> Own(chain'))
        /\ Over(chain') <=> Over(chain)
        /\ Inherits(chain, chain')
    <3>1. CASE pending' = FALSE /\ chain' = Tail(chain)
      BY <1>2, <1>4, <1>6, <3>1 DEF Yields
    <3>2. CASE Task1.kind = "drained" /\ Evaluate(FALSE, Tail(chain))
      <4>1. /\ chain' \in Seq(Tasks) /\ pending' \in BOOLEAN /\ Single(chain')
            /\ pending' <=> Own(chain')
            /\ Over(chain') <=> Over(Tail(chain))
            /\ Inherits(Tail(chain), chain')
        BY <1>2, <1>6, <3>2, EvaluateMoves
      <4> QED BY <1>2, <1>3, <1>6, <4>1 DEF Yields
    <3> QED BY <1>6, <3>1, <3>2 DEF Yields
  <2>4. /\ run' \in Runs /\ run'.stage = run.stage /\ run'.crashed = run.crashed
        /\ run'.landed = (run.landed \/ (changed /\ Busy)) /\ context' = context
    BY <1>5, <1>6 DEF Leaves, Runs, Busy
  <2>5. Seats'
    BY <1>1, <2>2, <2>3, <2>4, SeatsThen
  <2>6. TimelineMatches'
    BY <1>5, <2>4 DEF TimelineMatches, Busy
  <2>7. run.stage # "overflow" \/ run'.stage # "ready"
    BY <2>4
  <2> QED BY <1>5, <2>3, <2>4, <2>5, <2>6, <2>7
<1>7. CASE /\ Task1.kind = "overflow" /\ compacted
           /\ run' = [run EXCEPT !.stage = "ready", !.landed = FALSE]
           /\ context' = Projection(log')
           /\ chain' = Tail(chain)
           /\ UNCHANGED <<pending, manual>>
  <2>1. /\ run' \in Runs /\ run'.stage = "ready" /\ context' \in Seq(Nat)
    BY <1>5, <1>7 DEF Runs
  <2>2. run.stage = "overflow"
    BY <1>1, <1>2, <1>7 DEF Over
  <2>3. Seats'
    BY <1>1, <1>2, <1>7, <2>1, SeatsThen
  <2>4. TimelineMatches'
    BY <1>7 DEF TimelineMatches
  <2> QED BY <1>4, <1>7, <2>1, <2>2, <2>3, <2>4
<1>8. CASE Task1.kind = "overflow" /\ ~compacted /\ run' = NoRun /\ RunSettled(Tail(chain)) /\ UNCHANGED context
  <2>1. /\ run' \in Runs /\ run'.stage = "idle" /\ context' \in Seq(Nat)
    BY <1>5, <1>8, NoRunIsRun DEF NoRun
  <2>2. run.stage = "overflow"
    BY <1>1, <1>2, <1>8 DEF Over
  <2>3. /\ chain' \in Seq(Tasks) /\ pending' \in BOOLEAN /\ Single(chain') /\ manual' = FALSE
        /\ pending' <=> Own(chain')
        /\ Over(chain') <=> Over(Tail(chain))
        /\ Inherits(Tail(chain), chain')
    BY <1>1, <1>2, <1>8, RunSettledMoves
  <2>4. Seats'
    BY <1>2, <1>8, <2>1, <2>3, SeatsThen
  <2>5. TimelineMatches'
    BY <2>1 DEF TimelineMatches
  <2> QED BY <1>3, <2>1, <2>2, <2>3, <2>4, <2>5
<1> QED BY <1>6, <1>7, <1>8 DEF Finish
-----------------------------------------------------------------------------
(* What a step does to the log.                                            *)

(* No interval that was chosen reaches behind the log, or a call that is   *)
(* under way.                                                              *)
PlansFit(c) ==
  \A j \in DOMAIN c :
    c[j].plan.last <= Len(log) /\ (run.stage = "batch" => c[j].plan.last < LastCall)

(* Intervals that were chosen before fit afterwards. *)
LEMMA InheritsFits ==
  ASSUME IInv, NEW d, Inherits(chain, d)
  PROVE  PlansFit(d)
<1>1. log \in Seq(Events) /\ Len(log) \in Nat
  BY DEF IInv, WellFormed
<1>2. run.stage = "batch" => LastCall \in Nat /\ LastCall >= 1
  BY <1>1, UnansweredProps DEF IInv, CallIsSafe
<1>3. PlansFit(chain)
  BY DEF IInv, PlansLieInLog, CallIsSafe, PlansFit
<1>4. NoInterval.last = 0
  BY DEF NoInterval, Interval
<1>5. NoInterval.last <= Len(log) /\ (run.stage = "batch" => NoInterval.last < LastCall)
  BY <1>1, <1>2, <1>4
<1> QED BY <1>3, <1>5 DEF PlansFit, Inherits

(* When calls, ends of turns and errors go on, so does what the invariant  *)
(* says of them.                                                           *)
LEMMA LogStays ==
  ASSUME IInv, WellFormed(log'), Len(log) <= Len(log'), Len(log') \in Nat,
         \A T : At(log, T) \subseteq At(log', T),
         At(log', {"calls"}) = At(log, {"calls"}),
         \/ Unanswered(log') = {}
         \/ Unanswered(log') \subseteq Unanswered(log) /\ (run.stage = "batch" => run'.stage = "batch"),
         run'.stage = "batch" => /\ run.stage = "batch" /\ LastCall \in Unanswered(log')
                                 /\ At(log', {"turn/end"}) = At(log, {"turn/end"}),
         run'.stage = "hook" => run.stage = "hook" \/ At(log', {"error"}) # {},
         PlansFit(chain'), \A j \in DOMAIN chain' : chain'[j].plan.last \in Nat
  PROVE  Answered' /\ CallIsSafe' /\ PlansLieInLog' /\ ErrorIsThere'
<1>1. LastCall' = LastCall
  BY DEF LastCall
<1>2. Answered'
  BY <1>1 DEF IInv, Answered
<1>3. CallIsSafe'
  BY <1>1 DEF IInv, CallIsSafe, PlansFit
<1>4. PlansLieInLog'
  <2>1. Len(log) \in Nat
    BY DEF IInv, WellFormed
  <2> QED BY <2>1 DEF PlansLieInLog, PlansFit
<1>5. ErrorIsThere'
  BY DEF IInv, ErrorIsThere
<1> QED BY <1>2, <1>3, <1>4, <1>5

(* An overflow finds what its anchor promised. *)
LEMMA EndsStay ==
  ASSUME IInv, \A T : At(log, T) \subseteq At(log', T), Inherits(chain, chain'),
         \/ ~Over(chain')
         \/ At(log', {"end"}) = At(log, {"end"}) /\ At(log', {"error"}) = At(log, {"error"})
  PROVE  EndsAfterError'
<1>1. CASE ~Over(chain')
  BY <1>1 DEF EndsAfterError, Over
<1>2. CASE At(log', {"end"}) = At(log, {"end"}) /\ At(log', {"error"}) = At(log, {"error"})
  <2> SUFFICES ASSUME NEW j \in DOMAIN chain', chain'[j].kind = "overflow"
               PROVE  /\ chain'[j].anchor \in At(log', {"end"}) \cup {0}
                      /\ \A x \in At(log', {"end"}) : x > chain'[j].anchor =>
                           /\ x - 1 \in At(log', {"surface"})
                           /\ \A e \in At(log', {"error"}) : e < x - 1
    BY DEF EndsAfterError
  <2>1. PICK i \in DOMAIN chain : chain'[j] = chain[i]
    BY DEF Inherits
  <2>2. /\ chain[i].anchor \in At(log, {"end"}) \cup {0}
        /\ \A x \in At(log, {"end"}) : x > chain[i].anchor =>
             /\ x - 1 \in At(log, {"surface"})
             /\ \A e \in At(log, {"error"}) : e < x - 1
    BY <2>1 DEF IInv, EndsAfterError
  <2>3. At(log, {"surface"}) \subseteq At(log', {"surface"})
    OBVIOUS
  <2> QED BY <1>2, <2>1, <2>2, <2>3
<1> QED BY <1>1, <1>2

(* A projection is a sequence of positions. *)
LEMMA ProjectionIsSeq ==
  ASSUME NEW l, WellFormed(l)
  PROVE  Projection(l) \in Seq(Nat)
<1>1. l \in Seq(Events)
  BY DEF WellFormed
<1> DEFINE V == Visible(l)
           n == Len(l)
<1>2. n \in Nat /\ \A v \in V : v \in Nat /\ v <= n
  BY <1>1, VisibleProps
<1> HIDE DEF V, n
<1>3. InOrder(V) \in Seq(V) /\ V \subseteq Nat
  BY <1>2, InOrderProps
<1> QED BY <1>3, SeqOfMore DEF Projection, V

(* Nothing to order. *)
LEMMA InOrderOfNone == InOrder({}) = <<>>
<1> DEFINE S == {}
<1>1. S = {} /\ Cardinality(S) = 0 /\ \A s \in S : s \in Nat /\ s <= 0
  BY FS_EmptySet
<1> HIDE DEF S
<1>2. InOrder(S) \in Seq(S) /\ Len(InOrder(S)) = Cardinality(S)
  BY <1>1, InOrderProps
<1>3. InOrder(S) = <<>>
  BY <1>1, <1>2, EmptySeq
<1> QED BY <1>1, <1>3

(* A step that neither answers nor hides.                                  *)
LEMMA PlainStep ==
  ASSUME NEW l, WellFormed(l), NEW e \in Seq(Events), Plain(e), NEW m, Joins(m, l, e)
  PROVE  /\ WellFormed(m) /\ Len(l) \in Nat /\ Len(m) \in Nat /\ Len(l) <= Len(m)
         /\ \A T : At(m, T) = At(l, T) \cup Behind(l, At(e, T))
         /\ Unanswered(m) = Unanswered(l) \cup Behind(l, At(e, {"calls"}))
         /\ Projection(m) = Projection(l) \o InOrder(Behind(l, At(e, Messages)))
         /\ At(e, Messages) = {} => Projection(m) = Projection(l)
         /\ Projection(m) \in Seq(Nat)
<1>1. l \in Seq(Events) /\ Len(l) \in Nat /\ Len(e) \in Nat
  BY DEF WellFormed
<1>2. /\ WellFormed(m)
      /\ Visible(m) = Visible(l) \cup Behind(l, At(e, Messages))
      /\ Unanswered(m) = Unanswered(l) \cup Behind(l, At(e, {"calls"}))
  BY PlainKeeps
<1>3. \A T : At(m, T) = At(l, T) \cup Behind(l, At(e, T))
  BY <1>1, AllAppended
<1>4. Len(m) = Len(l) + Len(e)
  BY <1>1, Appended
<1>5. Projection(m) = Projection(l) \o InOrder(Behind(l, At(e, Messages)))
  BY <1>1, <1>2, ProjectionAppends
<1>6. ASSUME At(e, Messages) = {} PROVE Projection(m) = Projection(l)
  <2>1. Visible(m) = Visible(l)
    BY <1>2, <1>6 DEF Behind
  <2> QED BY <2>1 DEF Projection
<1>7. Projection(m) \in Seq(Nat)
  BY <1>2, ProjectionIsSeq
<1>8. Len(m) \in Nat /\ Len(l) <= Len(m)
  BY <1>1, <1>4
<1> QED BY <1>1, <1>2, <1>3, <1>5, <1>6, <1>7, <1>8

(* Short sequences of events.                                              *)
Quiet == Types \ (Carriers \cup {"result"})

(* An event has the type it was made with. *)
LEMMA EventProps ==
  ASSUME NEW t \in Types
  PROVE  Event(t) \in Events /\ Event(t).type = t
BY DEF Event, Events

(* Short pieces of log, event by event. *)
LEMMA OneEvent ==
  ASSUME NEW s \in Quiet, NEW e, e = <<Event(s)>>
  PROVE  /\ e \in Seq(Events) /\ Plain(e)
         /\ \A T : At(e, T) = IF s \in T THEN {1} ELSE {}
<1>1. Event(s) \in Events /\ Event(s).type = s
  BY EventProps DEF Quiet
<1>2. e \in Seq(Events) /\ DOMAIN e = {1} /\ e[1].type = s
  BY <1>1
<1> QED BY <1>2 DEF Plain, At, Quiet

LEMMA TwoEvents ==
  ASSUME NEW s \in Quiet, NEW t \in Quiet, NEW e, e = <<Event(s), Event(t)>>
  PROVE  /\ e \in Seq(Events) /\ Plain(e)
         /\ \A T : At(e, T) = (IF s \in T THEN {1} ELSE {}) \cup (IF t \in T THEN {2} ELSE {})
<1>1. Event(s) \in Events /\ Event(s).type = s /\ Event(t) \in Events /\ Event(t).type = t
  BY EventProps DEF Quiet
<1>2. e \in Seq(Events) /\ DOMAIN e = {1, 2} /\ e[1].type = s /\ e[2].type = t
  BY <1>1
<1> QED BY <1>2 DEF Plain, At, Quiet

LEMMA ThreeEvents ==
  ASSUME NEW s \in Quiet, NEW t \in Quiet, NEW u \in Quiet,
         NEW e, e = Append(<<Event(s), Event(t)>>, Event(u))
  PROVE  /\ e \in Seq(Events) /\ Plain(e)
         /\ \A T : s \notin T /\ t \notin T /\ u \notin T => At(e, T) = {}
<1>1. /\ Event(s) \in Events /\ Event(s).type = s /\ Event(t) \in Events /\ Event(t).type = t
      /\ Event(u) \in Events /\ Event(u).type = u
  BY EventProps DEF Quiet
<1>2. /\ e \in Seq(Events) /\ DOMAIN e = {1, 2, 3}
      /\ e[1].type = s /\ e[2].type = t /\ e[3].type = u
  BY <1>1
<1> QED BY <1>2 DEF Plain, At, Quiet

(* The types that neither answer nor hide. *)
LEMMA QuietTypes ==
  {"user", "reply", "calls", "error", "summary", "turn/start", "turn/end", "start", "end", "closed"}
    \subseteq Quiet
BY DEF Quiet, Types, Messages, Carriers

(* A run that neither calls nor answers, while it does not wait for its    *)
(* overflow, appends something.                                            *)
LEMMA RunAppends ==
  ASSUME IInv, NEW e \in Seq(Events), Plain(e), At(e, {"calls"}) = {}, Joins(log', log, e),
         run.stage # "batch", run'.stage # "batch",
         Seats', Inherits(chain, chain'), ~Over(chain'),
         run'.stage = "hook" => At(e, {"error"}) # {}
  PROVE  /\ WellFormed(log') /\ Projection(log') \in Seq(Nat)
         /\ Answered' /\ CallIsSafe' /\ PlansLieInLog' /\ ErrorIsThere' /\ EndsAfterError'
         /\ Projection(log') = Projection(log) \o InOrder(Behind(log, At(e, Messages)))
         /\ At(e, Messages) = {} => Projection(log') = Projection(log)
<1>1. /\ WellFormed(log') /\ Len(log) \in Nat /\ Len(log') \in Nat /\ Len(log) <= Len(log')
      /\ \A T : At(log', T) = At(log, T) \cup Behind(log, At(e, T))
      /\ Unanswered(log') = Unanswered(log) \cup Behind(log, At(e, {"calls"}))
      /\ Projection(log') = Projection(log) \o InOrder(Behind(log, At(e, Messages)))
      /\ At(e, Messages) = {} => Projection(log') = Projection(log)
      /\ Projection(log') \in Seq(Nat)
  <2>1. WellFormed(log)
    BY DEF IInv
  <2> DEFINE l == log
             m == log'
  <2>2. WellFormed(l) /\ e \in Seq(Events) /\ Plain(e) /\ Joins(m, l, e)
    BY <2>1
  <2> HIDE DEF l, m
  <2>3. /\ WellFormed(m) /\ Len(l) \in Nat /\ Len(m) \in Nat /\ Len(l) <= Len(m)
        /\ \A T : At(m, T) = At(l, T) \cup Behind(l, At(e, T))
        /\ Unanswered(m) = Unanswered(l) \cup Behind(l, At(e, {"calls"}))
        /\ Projection(m) = Projection(l) \o InOrder(Behind(l, At(e, Messages)))
        /\ At(e, Messages) = {} => Projection(m) = Projection(l)
        /\ Projection(m) \in Seq(Nat)
    BY ONLY <2>2, PlainStep
  <2> QED BY <2>3 DEF l, m
<1>2. Behind(log, {}) = {}
  BY DEF Behind
<1>3. \A T : At(log, T) \subseteq At(log', T)
  BY <1>1
<1>4. At(log', {"calls"}) = At(log, {"calls"}) /\ Unanswered(log') = Unanswered(log)
  BY <1>1, <1>2
<1>5. ASSUME run'.stage = "hook" PROVE At(log', {"error"}) # {}
  <2>1. At(log', {"error"}) = At(log, {"error"}) \cup Behind(log, At(e, {"error"}))
    BY <1>1
  <2>2. PICK i : i \in At(e, {"error"})
    BY <1>5
  <2>3. Len(log) + i \in Behind(log, At(e, {"error"}))
    BY <2>2 DEF Behind
  <2> QED BY <2>1, <2>3
<1>6. PlansFit(chain')
  BY InheritsFits
<1>7. \A j \in DOMAIN chain' : chain'[j].plan.last \in Nat
  <2>1. chain' \in Seq(Tasks)
    BY DEF Seats
  <2>2. ASSUME NEW j \in DOMAIN chain' PROVE chain'[j] \in Tasks
    BY <2>1
  <2> QED BY <2>2 DEF Tasks
<1>8. Unanswered(log') = {}
  BY <1>4 DEF IInv, Answered
<1>9. Answered' /\ CallIsSafe' /\ PlansLieInLog' /\ ErrorIsThere'
  BY <1>1, <1>3, <1>4, <1>5, <1>6, <1>7, <1>8, LogStays
<1>10. EndsAfterError'
  BY <1>3, EndsStay
<1> QED BY <1>1, <1>9, <1>10

(* A step that leaves the log alone.                                       *)
LEMMA LogSame ==
  ASSUME IInv, log' = log, run'.stage = "batch" <=> run.stage = "batch",
         run'.stage = "hook" => run.stage = "hook",
         Seats', Inherits(chain, chain')
  PROVE  /\ WellFormed(log') /\ Projection(log') \in Seq(Nat)
         /\ Answered' /\ CallIsSafe' /\ PlansLieInLog' /\ ErrorIsThere' /\ EndsAfterError'
<1>1. WellFormed(log') /\ Len(log) <= Len(log') /\ Len(log') \in Nat
  BY DEF IInv, WellFormed
<1>2. /\ \A T : At(log, T) \subseteq At(log', T)
      /\ At(log', {"calls"}) = At(log, {"calls"}) /\ At(log', {"turn/end"}) = At(log, {"turn/end"})
      /\ At(log', {"end"}) = At(log, {"end"}) /\ At(log', {"error"}) = At(log, {"error"})
      /\ Unanswered(log') = Unanswered(log)
  OBVIOUS
<1>3. PlansFit(chain')
  BY InheritsFits
<1>4. \A j \in DOMAIN chain' : chain'[j].plan.last \in Nat
  <2>1. chain' \in Seq(Tasks)
    BY DEF Seats
  <2>2. ASSUME NEW j \in DOMAIN chain' PROVE chain'[j] \in Tasks
    BY <2>1
  <2> QED BY <2>2 DEF Tasks
<1>5. run'.stage = "batch" => run.stage = "batch" /\ LastCall \in Unanswered(log')
  BY <1>2 DEF IInv, CallIsSafe
<1>6. Answered' /\ CallIsSafe' /\ PlansLieInLog' /\ ErrorIsThere'
  BY <1>1, <1>2, <1>3, <1>4, <1>5, LogStays
<1>7. EndsAfterError'
  BY <1>2, EndsStay
<1>8. Projection(log') \in Seq(Nat)
  BY <1>1, ProjectionIsSeq
<1> QED BY <1>1, <1>6, <1>7, <1>8

(* The invariant is what the lemmas above give. *)
LEMMA InvariantThen ==
  ASSUME Seats', WellFormed(log'), context' \in Seq(Nat), run' \in Runs, cooling' \in BOOLEAN,
         asked' \in [user : 0..MaxTurns, manual : 0..MaxManual], crashes' \in 0..1,
         Answered', CallIsSafe', PlansLieInLog', ErrorIsThere', EndsAfterError', TimelineMatches'
  PROVE  IInv'
<1>1. log' \in Seq(Events)
  BY DEF WellFormed
<1>2. TypeOK'
  BY <1>1 DEF TypeOK, Seats
<1> QED BY <1>2 DEF IInv, Seats
-----------------------------------------------------------------------------
(* The steps of the run.                                                   *)

LEMMA StartRunKeeps == ASSUME IInv, StartRun PROVE IInv'
<1> DEFINE e == <<Event("user")>>
<1>1. e \in Seq(Events) /\ Plain(e) /\ \A T : At(e, T) = IF "user" \in T THEN {1} ELSE {}
  BY QuietTypes, OneEvent
<1>2. Joins(log', log, e)
  BY DEF StartRun, Add, Joins
<1>3. /\ run' = [NoRun EXCEPT !.stage = "ready"] /\ run' \in Runs /\ run'.stage = "ready"
      /\ run.stage = "idle"
  BY NoRunIsRun DEF StartRun, Runs, Busy, NoRun
<1>4. Seats' /\ Inherits(chain, chain') /\ ~Over(chain')
  <2>1. UNCHANGED <<pending, manual, chain>>
    BY DEF StartRun, seatVars
  <2> QED BY <1>3, <2>1, SeatsStay, SeatsAre
<1>5. At(e, {"calls"}) = {}
  BY <1>1
<1> HIDE DEF e
<1>6. /\ WellFormed(log') /\ Projection(log') \in Seq(Nat)
      /\ Answered' /\ CallIsSafe' /\ PlansLieInLog' /\ ErrorIsThere' /\ EndsAfterError'
  BY <1>1, <1>2, <1>3, <1>4, <1>5, RunAppends
<1>7. /\ cooling' \in BOOLEAN /\ crashes' \in 0..1
      /\ asked' \in [user : 0..MaxTurns, manual : 0..MaxManual]
  <2>1. /\ cooling \in BOOLEAN /\ crashes \in 0..1
        /\ asked \in [user : 0..MaxTurns, manual : 0..MaxManual]
    BY DEF IInv, TypeOK
  <2>2. /\ cooling' = cooling /\ crashes' = crashes
        /\ asked.user < MaxTurns /\ asked' = [asked EXCEPT !.user = @ + 1]
    BY DEF StartRun, seatVars, AskUser
  <2>3. asked.user + 1 \in 0..MaxTurns
    BY <2>1, <2>2, CompactionAssumption
  <2> QED BY <2>1, <2>2, <2>3
<1>8. context' \in Seq(Nat) /\ TimelineMatches'
  BY <1>6 DEF StartRun, TimelineMatches
<1> QED BY <1>3, <1>4, <1>6, <1>7, <1>8, InvariantThen

LEMMA RequestKeeps == ASSUME IInv, Request PROVE IInv'
<1>1. Turn \in Seq(Events) /\ Plain(Turn) /\ At(Turn, {"calls"}) = {} /\ At(Turn, Messages) = {}
  <2>1. CASE Turn = <<Event("turn/start")>>
    <3>1. Turn \in Seq(Events) /\ Plain(Turn) /\ \A T : At(Turn, T) = IF "turn/start" \in T THEN {1} ELSE {}
      BY <2>1, QuietTypes, OneEvent
    <3> QED BY <3>1 DEF Messages
  <2>2. CASE Turn = <<>>
    BY <2>2 DEF Plain, At
  <2> QED BY <2>1, <2>2 DEF Turn
<1>2. Joins(log', log, Turn)
  BY DEF Request, Add, Joins
<1>3. /\ run' \in Runs /\ run.stage = "ready" /\ run'.stage \in {"asking", "idle"}
      /\ run'.stage = "asking" => context = Projection(log)
      /\ run'.stage = "idle" => run'.crashed
  BY NoRunIsRun DEF Request, Goto, Crashes, IInv, TypeOK, Runs, NoRun
<1>4. Seats' /\ Inherits(chain, chain') /\ ~Over(chain')
  <2>1. UNCHANGED <<pending, manual, chain>>
    BY DEF Request, seatVars
  <2> QED BY <1>3, <2>1, SeatsStay, SeatsAre
<1>5. /\ WellFormed(log') /\ Projection(log') \in Seq(Nat)
      /\ Answered' /\ CallIsSafe' /\ PlansLieInLog' /\ ErrorIsThere' /\ EndsAfterError'
      /\ Projection(log') = Projection(log)
  BY <1>1, <1>2, <1>3, <1>4, RunAppends
<1>6. /\ cooling' \in BOOLEAN /\ crashes' \in 0..1
      /\ asked' \in [user : 0..MaxTurns, manual : 0..MaxManual] /\ context' \in Seq(Nat)
  BY DEF IInv, TypeOK, Request, seatVars
<1>7. TimelineMatches'
  BY <1>3, <1>5 DEF Request, TimelineMatches
<1> QED BY <1>3, <1>4, <1>5, <1>6, <1>7, InvariantThen

(* A position behind the others is the highest.                            *)
LEMMA NextIsMax ==
  ASSUME NEW n \in Nat, NEW S, S \subseteq 1..n
  PROVE  Max(S \cup {n + 1}) = n + 1
<1> DEFINE U == S \cup {n + 1}
<1>1. n + 1 \in Nat /\ U \subseteq 0..(n + 1) /\ U # {} /\ n + 1 \in U
  OBVIOUS
<1> HIDE DEF U
<1>2. Max(U) \in U /\ \A y \in U : y <= Max(U)
  BY <1>1, MaxIsMost
<1>3. Max(U) \in 0..(n + 1) /\ n + 1 <= Max(U)
  BY <1>1, <1>2
<1>4. Max(U) = n + 1
  BY <1>3
<1> QED BY <1>4 DEF U

(* What is pushed to the timeline is positions.                            *)
LEMMA PushIsSeq ==
  ASSUME NEW l \in Seq(Events), NEW e \in Seq(Events), NEW T
  PROVE  InOrder(Behind(l, At(e, T))) \in Seq(Nat)
<1> DEFINE S == Behind(l, At(e, T))
           n == Len(l) + Len(e)
<1>1. Len(l) \in Nat /\ Len(e) \in Nat /\ n \in Nat
  OBVIOUS
<1>2. \A s \in S : s \in Nat /\ s <= n
  <2> SUFFICES ASSUME NEW i \in At(e, T) PROVE Len(l) + i \in Nat /\ Len(l) + i <= n
    BY DEF Behind
  <2>1. i \in Nat /\ i <= Len(e)
    BY AtProps
  <2> QED BY <1>1, <2>1
<1> HIDE DEF S, n
<1>3. InOrder(S) \in Seq(S) /\ S \subseteq Nat
  BY <1>1, <1>2, InOrderProps
<1> QED BY <1>3, SeqOfMore DEF S

LEMMA CallsKeeps == ASSUME IInv, Calls PROVE IInv'
<1> DEFINE e == <<Event("calls")>>
           n == Len(log)
<1>1. e \in Seq(Events) /\ Plain(e) /\ \A T : At(e, T) = IF "calls" \in T THEN {1} ELSE {}
  BY QuietTypes, OneEvent
<1>2. Joins(log', log, e)
  BY DEF Calls, Push, Add, Joins
<1>3. run' \in Runs /\ run'.stage = "batch" /\ run.stage = "asking" /\ run'.landed = run.landed
  BY DEF Calls, Goto, IInv, TypeOK, Runs
<1>4. Seats' /\ Inherits(chain, chain') /\ ~Over(chain') /\ chain' = chain
  <2>1. UNCHANGED <<pending, manual, chain>>
    BY DEF Calls, seatVars
  <2> QED BY <1>3, <2>1, SeatsStay, SeatsAre
<1> HIDE DEF e
<1>5. WellFormed(log) /\ log \in Seq(Events) /\ Unanswered(log) = {}
  BY <1>3 DEF IInv, WellFormed, Answered
<1>6. /\ WellFormed(log') /\ n \in Nat /\ Len(log') \in Nat /\ n <= Len(log')
      /\ \A T : At(log', T) = At(log, T) \cup Behind(log, At(e, T))
      /\ Unanswered(log') = Unanswered(log) \cup Behind(log, At(e, {"calls"}))
      /\ Projection(log') = Projection(log) \o InOrder(Behind(log, At(e, Messages)))
      /\ Projection(log') \in Seq(Nat)
  <2> DEFINE l == log
             m == log'
  <2>1. WellFormed(l) /\ e \in Seq(Events) /\ Plain(e) /\ Joins(m, l, e)
    BY <1>1, <1>2, <1>5
  <2> HIDE DEF l, m
  <2>2. /\ WellFormed(m) /\ Len(l) \in Nat /\ Len(m) \in Nat /\ Len(l) <= Len(m)
        /\ \A T : At(m, T) = At(l, T) \cup Behind(l, At(e, T))
        /\ Unanswered(m) = Unanswered(l) \cup Behind(l, At(e, {"calls"}))
        /\ Projection(m) = Projection(l) \o InOrder(Behind(l, At(e, Messages)))
        /\ Projection(m) \in Seq(Nat)
    BY ONLY <2>1, PlainStep
  <2> QED BY <2>2 DEF l, m
<1>7. At(log', {"calls"}) = At(log, {"calls"}) \cup {n + 1} /\ Unanswered(log') = {n + 1}
  <2>1. Behind(log, {1}) = {n + 1}
    BY DEF Behind
  <2> QED BY <1>1, <1>5, <1>6, <2>1
<1>8. At(log, {"calls"}) \subseteq 1..n
  BY <1>5, AtProps
<1>9. Max(At(log', {"calls"})) = n + 1
  <2> DEFINE S == At(log, {"calls"})
  <2>1. n \in Nat /\ S \subseteq 1..n
    BY <1>6, <1>8
  <2> HIDE DEF S, n
  <2>2. Max(S \cup {n + 1}) = n + 1
    BY <2>1, NextIsMax
  <2> QED BY <1>7, <2>2 DEF S
<1>10. LastCall' = n + 1
  BY <1>9 DEF LastCall
<1> HIDE DEF n
<1>11. Answered'
  BY <1>3, <1>7, <1>10 DEF Answered
<1>12. \A i \in DOMAIN chain : chain[i].plan.last <= n /\ chain[i].plan.last \in Nat
  <2>1. chain \in Seq(Tasks)
    BY SeatsAre
  <2>2. \A i \in DOMAIN chain : chain[i] \in Tasks
    BY <2>1
  <2> QED BY <2>2 DEF Tasks, IInv, PlansLieInLog, n
<1>13. CallIsSafe'
  <2>1. At(log', {"turn/end"}) = At(log, {"turn/end"})
    <3>1. At(log', {"turn/end"}) = At(log, {"turn/end"}) \cup Behind(log, At(e, {"turn/end"}))
      BY <1>6
    <3>2. At(e, {"turn/end"}) = {} /\ Behind(log, {}) = {}
      BY <1>1 DEF Behind
    <3> QED BY <3>1, <3>2
  <2>2. \A t \in At(log, {"turn/end"}) : t \in Nat /\ t <= n
    BY <1>5, AtProps DEF n
  <2>3. \A t \in At(log', {"turn/end"}) : t < n + 1
    BY <1>6, <2>1, <2>2
  <2>4. \A i \in DOMAIN chain' : chain'[i].plan.last < n + 1
    BY <1>4, <1>6, <1>12
  <2> QED BY <1>7, <1>10, <2>3, <2>4 DEF CallIsSafe
<1>14. PlansLieInLog' /\ ErrorIsThere'
  BY <1>3, <1>4, <1>6, <1>12 DEF PlansLieInLog, ErrorIsThere
<1>15. EndsAfterError'
  BY <1>4 DEF EndsAfterError, Over
<1>16. /\ cooling' \in BOOLEAN /\ crashes' \in 0..1
       /\ asked' \in [user : 0..MaxTurns, manual : 0..MaxManual]
  BY DEF IInv, TypeOK, Calls, seatVars
<1>17. context' = context \o InOrder(Behind(log, At(e, Messages)))
  BY DEF Calls, Push, Behind, e
<1>18. context' \in Seq(Nat) /\ TimelineMatches'
  <2>1. ~run.landed => context' = Projection(log')
    BY <1>3, <1>6, <1>17 DEF IInv, TimelineMatches
  <2>2. context' \in Seq(Nat)
    <3> DEFINE w == InOrder(Behind(log, At(e, Messages)))
    <3>1. w \in Seq(Nat) /\ context \in Seq(Nat)
      BY <1>1, <1>5, PushIsSeq DEF IInv, TypeOK
    <3> HIDE DEF w
    <3>2. context \o w \in Seq(Nat)
      BY <3>1, ConcatProps
    <3> QED BY <1>17, <3>2 DEF w
  <2> QED BY <1>3, <2>1, <2>2 DEF TimelineMatches
<1> QED BY <1>3, <1>4, <1>6, <1>11, <1>13, <1>14, <1>15, <1>16, <1>18, InvariantThen

(* What is pushed keeps a timeline that matched.                           *)
LEMMA PushMatches ==
  ASSUME IInv, NEW e \in Seq(Events),
         context' = context \o InOrder(Behind(log, At(e, Messages))),
         Projection(log') = Projection(log) \o InOrder(Behind(log, At(e, Messages)))
  PROVE  /\ context' \in Seq(Nat)
         /\ run.stage \in {"ready", "asking", "batch", "sleep"} /\ ~run.landed
              => context' = Projection(log')
<1>1. log \in Seq(Events) /\ context \in Seq(Nat) /\ TimelineMatches
  BY DEF IInv, TypeOK
<1> DEFINE w == InOrder(Behind(log, At(e, Messages)))
<1>2. w \in Seq(Nat)
  BY <1>1, PushIsSeq
<1>3. context' = context \o w /\ Projection(log') = Projection(log) \o w
  OBVIOUS
<1> HIDE DEF w
<1>4. context \o w \in Seq(Nat)
  BY <1>1, <1>2, ConcatProps
<1> QED BY <1>1, <1>3, <1>4 DEF TimelineMatches

(* How a turn is closed. *)
LEMMA ClosingProps ==
  ASSUME NEW t \in {"reply", "error"}, NEW e, e = Closing(t)
  PROVE  /\ e \in Seq(Events) /\ Plain(e) /\ At(e, {"calls"}) = {}
         /\ t = "error" => At(e, {"error"}) # {}
<1>1. t \in Quiet /\ "turn/end" \in Quiet /\ e = <<Event(t), Event("turn/end")>>
  BY QuietTypes DEF Closing
<1>2. /\ e \in Seq(Events) /\ Plain(e)
      /\ \A T : At(e, T) = (IF t \in T THEN {1} ELSE {}) \cup (IF "turn/end" \in T THEN {2} ELSE {})
  BY <1>1, TwoEvents
<1> HIDE DEF Closing
<1>3. t \notin {"calls"} /\ "turn/end" \notin {"calls"} /\ (t = "error" => t \in {"error"})
  OBVIOUS
<1> QED BY <1>2, <1>3

LEMMA ReplyKeeps == ASSUME IInv, Reply PROVE IInv'
<1> DEFINE e == Closing("reply")
<1>1. e \in Seq(Events) /\ Plain(e) /\ At(e, {"calls"}) = {}
  BY ClosingProps
<1>2. Joins(log', log, e) /\ context' = context \o InOrder(Behind(log, At(e, Messages)))
  BY DEF Reply, Push, Add, Joins, Behind
<1>3. run' = NoRun /\ run' \in Runs /\ run'.stage = "idle" /\ run.stage = "asking"
  BY NoRunIsRun DEF Reply, NoRun
<1>4. Seats' /\ Inherits(chain, chain') /\ ~Over(chain')
  BY <1>3, SeatsSettle DEF Reply
<1> HIDE DEF e
<1>5. /\ WellFormed(log')
      /\ Answered' /\ CallIsSafe' /\ PlansLieInLog' /\ ErrorIsThere' /\ EndsAfterError'
      /\ Projection(log') = Projection(log) \o InOrder(Behind(log, At(e, Messages)))
  BY <1>1, <1>2, <1>3, <1>4, RunAppends
<1>6. /\ cooling' \in BOOLEAN /\ crashes' \in 0..1
      /\ asked' \in [user : 0..MaxTurns, manual : 0..MaxManual]
  BY DEF IInv, TypeOK, Reply
<1>7. context' \in Seq(Nat)
  BY <1>1, <1>2, <1>5, PushMatches
<1>8. TimelineMatches'
  BY <1>3 DEF TimelineMatches
<1> QED BY <1>3, <1>4, <1>5, <1>6, <1>7, <1>8, InvariantThen

LEMMA FollowUpKeeps == ASSUME IInv, FollowUp PROVE IInv'
<1> DEFINE e == Append(Closing("reply"), Event("user"))
<1>1. e \in Seq(Events) /\ Plain(e) /\ At(e, {"calls"}) = {}
  <2>1. {"reply", "turn/end", "user"} \subseteq Quiet
    BY QuietTypes
  <2>2. e = Append(<<Event("reply"), Event("turn/end")>>, Event("user"))
    BY DEF Closing
  <2> HIDE DEF e
  <2>3. /\ e \in Seq(Events) /\ Plain(e)
        /\ \A T : "reply" \notin T /\ "turn/end" \notin T /\ "user" \notin T => At(e, T) = {}
    BY <2>1, <2>2, ThreeEvents
  <2>4. "reply" \notin {"calls"} /\ "turn/end" \notin {"calls"} /\ "user" \notin {"calls"}
    OBVIOUS
  <2> QED BY <2>3, <2>4
<1>2. Joins(log', log, e) /\ context' = context \o InOrder(Behind(log, At(e, Messages)))
  BY DEF FollowUp, Push, Add, Joins, Behind
<1>3. run' \in Runs /\ run'.stage = "ready" /\ run.stage = "asking" /\ run'.landed = run.landed
  BY DEF FollowUp, Goto, IInv, TypeOK, Runs
<1>4. Seats' /\ Inherits(chain, chain') /\ ~Over(chain')
  <2>1. UNCHANGED <<pending, manual, chain>>
    BY DEF FollowUp, seatVars
  <2> QED BY <1>3, <2>1, SeatsStay, SeatsAre
<1> HIDE DEF e
<1>5. /\ WellFormed(log')
      /\ Answered' /\ CallIsSafe' /\ PlansLieInLog' /\ ErrorIsThere' /\ EndsAfterError'
      /\ Projection(log') = Projection(log) \o InOrder(Behind(log, At(e, Messages)))
  BY <1>1, <1>2, <1>3, <1>4, RunAppends
<1>6. /\ cooling' \in BOOLEAN /\ crashes' \in 0..1
      /\ asked' \in [user : 0..MaxTurns, manual : 0..MaxManual]
  BY CompactionAssumption DEF IInv, TypeOK, FollowUp, seatVars, AskUser
<1>7. context' \in Seq(Nat) /\ (~run.landed => context' = Projection(log'))
  BY <1>1, <1>2, <1>3, <1>5, PushMatches
<1>8. TimelineMatches'
  BY <1>3, <1>7 DEF TimelineMatches
<1> QED BY <1>3, <1>4, <1>5, <1>6, <1>7, <1>8, InvariantThen

LEMMA ErrorKeeps == ASSUME IInv, Error PROVE IInv'
<1> DEFINE e == Closing("error")
<1>1. e \in Seq(Events) /\ Plain(e) /\ At(e, {"calls"}) = {} /\ At(e, {"error"}) # {}
  BY ClosingProps
<1>2. Joins(log', log, e) /\ context' = context \o InOrder(Behind(log, At(e, Messages)))
  BY DEF Error, Push, Add, Joins, Behind
<1>3. run' \in Runs /\ run'.stage = "hook" /\ run.stage = "asking"
  BY DEF Error, Goto, IInv, TypeOK, Runs
<1>4. Seats' /\ Inherits(chain, chain') /\ ~Over(chain')
  <2>1. UNCHANGED <<pending, manual, chain>>
    BY DEF Error, seatVars
  <2> QED BY <1>3, <2>1, SeatsStay, SeatsAre
<1> HIDE DEF e
<1>5. /\ WellFormed(log')
      /\ Answered' /\ CallIsSafe' /\ PlansLieInLog' /\ ErrorIsThere' /\ EndsAfterError'
      /\ Projection(log') = Projection(log) \o InOrder(Behind(log, At(e, Messages)))
  BY <1>1, <1>2, <1>3, <1>4, RunAppends
<1>6. /\ cooling' \in BOOLEAN /\ crashes' \in 0..1
      /\ asked' \in [user : 0..MaxTurns, manual : 0..MaxManual]
  BY DEF IInv, TypeOK, Error, seatVars
<1>7. context' \in Seq(Nat)
  BY <1>1, <1>2, <1>5, PushMatches
<1>8. TimelineMatches'
  BY <1>3 DEF TimelineMatches
<1> QED BY <1>3, <1>4, <1>5, <1>6, <1>7, <1>8, InvariantThen

LEMMA BatchDoneKeeps == ASSUME IInv, BatchDone PROVE IInv'
<1> DEFINE e == <<Result(LastCall)>>
<1>1. /\ WellFormed(log) /\ log \in Seq(Events) /\ run.stage = "batch"
      /\ LastCall \in Unanswered(log) /\ \A c \in Unanswered(log) : c = LastCall
  BY DEF BatchDone, IInv, WellFormed, CallIsSafe, Answered
<1>2. LastCall \in Nat
  BY <1>1, UnansweredProps
<1>3. /\ e \in Seq(Events) /\ Len(e) = 1 /\ e[1].type = "result" /\ e[1].first = LastCall
      /\ DOMAIN e = {1}
  <2>1. Result(LastCall) \in Events
    BY <1>2 DEF Result, Events, Types, Messages
  <2> HIDE DEF LastCall
  <2> QED BY <2>1 DEF Result
<1>4. Joins(log', log, e) /\ context' = context \o InOrder(Behind(log, At(e, Messages)))
  BY DEF BatchDone, Push, Add, Joins, Behind, LastCall
<1>5. run' \in Runs /\ run'.stage = "ready" /\ run'.landed = run.landed
  BY DEF BatchDone, Goto, IInv, TypeOK, Runs
<1>6. Seats' /\ Inherits(chain, chain') /\ ~Over(chain') /\ chain' = chain
  <2>1. UNCHANGED <<pending, manual, chain>>
    BY DEF BatchDone, seatVars
  <2> QED BY <1>1, <1>5, <2>1, SeatsStay, SeatsAre
<1> HIDE DEF e
<1>7. Answers(log, e)
  <2>1. \A i \in 1..Len(e) : i = 1
    BY <1>3
  <2> QED BY <1>1, <1>3, <2>1 DEF Answers
<1>8. /\ WellFormed(log')
      /\ Visible(log') = Visible(log) \cup Behind(log, At(e, Messages))
      /\ Unanswered(log') = {c \in Unanswered(log) : \A i \in 1..Len(e) : e[i].first # c}
      /\ \A T : At(log', T) = At(log, T) \cup Behind(log, At(e, T))
      /\ Len(log') = Len(log) + 1
  <2> DEFINE l == log
             m == log'
  <2>1. WellFormed(l) /\ l \in Seq(Events) /\ e \in Seq(Events) /\ Answers(l, e) /\ Joins(m, l, e)
    BY <1>1, <1>3, <1>4, <1>7
  <2> HIDE DEF l, m
  <2>2. /\ WellFormed(m)
        /\ Visible(m) = Visible(l) \cup Behind(l, At(e, Messages))
        /\ Unanswered(m) = {c \in Unanswered(l) : \A i \in 1..Len(e) : e[i].first # c}
    BY ONLY <2>1, ResultsKeep
  <2>3. \A T : At(m, T) = At(l, T) \cup Behind(l, At(e, T))
    BY ONLY <2>1, AllAppended
  <2>4. Len(m) = Len(l) + Len(e)
    BY ONLY <2>1, Appended
  <2> QED BY <1>3, <2>2, <2>3, <2>4 DEF l, m
<1>9. Projection(log') = Projection(log) \o InOrder(Behind(log, At(e, Messages)))
  BY <1>1, <1>3, <1>8, ProjectionAppends
<1>10. Unanswered(log') = {}
  BY <1>1, <1>3, <1>8
<1>11. At(log', {"calls"}) = At(log, {"calls"})
  <2>1. At(e, {"calls"}) = {} /\ Behind(log, {}) = {}
    BY <1>3 DEF At, Behind
  <2> QED BY <1>8, <2>1
<1>12. \A T : At(log, T) \subseteq At(log', T)
  BY <1>8
<1>13. Len(log) <= Len(log') /\ Len(log') \in Nat
  BY <1>1, <1>8
<1>14. PlansFit(chain') /\ \A j \in DOMAIN chain' : chain'[j].plan.last \in Nat
  <2>1. chain' \in Seq(Tasks)
    BY <1>6 DEF Seats
  <2>2. ASSUME NEW j \in DOMAIN chain' PROVE chain'[j] \in Tasks
    BY <2>1
  <2> QED BY <1>6, <2>2, InheritsFits DEF Tasks
<1>15. Answered' /\ CallIsSafe' /\ PlansLieInLog' /\ ErrorIsThere'
  BY <1>5, <1>8, <1>10, <1>11, <1>12, <1>13, <1>14, LogStays
<1>16. EndsAfterError'
  BY <1>6 DEF EndsAfterError, Over
<1>17. /\ cooling' \in BOOLEAN /\ crashes' \in 0..1
       /\ asked' \in [user : 0..MaxTurns, manual : 0..MaxManual]
  BY DEF IInv, TypeOK, BatchDone, seatVars
<1>18. context' \in Seq(Nat) /\ (~run.landed => context' = Projection(log'))
  BY <1>1, <1>3, <1>4, <1>9, PushMatches
<1>19. TimelineMatches'
  BY <1>5, <1>18 DEF TimelineMatches
<1> QED BY <1>5, <1>6, <1>8, <1>15, <1>16, <1>17, <1>18, <1>19, InvariantThen

(* The types that a step leaves alone.                                     *)
LEMMA BoundsStay ==
  ASSUME IInv, cooling' = cooling, asked' = asked, crashes' = crashes
  PROVE  /\ cooling' \in BOOLEAN /\ crashes' \in 0..1
         /\ asked' \in [user : 0..MaxTurns, manual : 0..MaxManual]
BY DEF IInv, TypeOK

LEMMA FailKeeps == ASSUME IInv, Fail \/ AbortInSleep PROVE IInv'
<1>1. /\ run' = NoRun /\ run' \in Runs /\ run'.stage = "idle" /\ run.stage \in {"hook", "sleep"}
      /\ log' = log /\ context' = context /\ cooling' = cooling /\ asked' = asked /\ crashes' = crashes
      /\ RunSettled(chain)
  <2>1. NoRun \in Runs /\ NoRun.stage = "idle"
    BY NoRunIsRun DEF NoRun
  <2>2. CASE Fail
    BY <2>1, <2>2 DEF Fail
  <2>3. CASE AbortInSleep
    BY <2>1, <2>3 DEF AbortInSleep
  <2> QED BY <2>2, <2>3
<1>2. Seats' /\ Inherits(chain, chain')
  BY <1>1, SeatsSettle
<1>3. /\ WellFormed(log')
      /\ Answered' /\ CallIsSafe' /\ PlansLieInLog' /\ ErrorIsThere' /\ EndsAfterError'
  BY <1>1, <1>2, LogSame
<1>4. context' \in Seq(Nat) /\ TimelineMatches'
  BY <1>1 DEF IInv, TypeOK, TimelineMatches
<1> QED BY <1>1, <1>2, <1>3, <1>4, BoundsStay, InvariantThen

LEMMA OccludeFailsKeeps == ASSUME IInv, OccludeFails PROVE IInv'
<1>1. /\ run' \in Runs /\ run'.stage = "idle" /\ run'.crashed /\ run.stage = "hook"
      /\ log' = log /\ context' = context /\ cooling' = cooling /\ asked' = asked /\ crashes' = crashes
      /\ UNCHANGED <<pending, manual, chain>>
  BY NoRunIsRun DEF OccludeFails, Crashes, NoRun, Runs, seatVars
<1>2. Seats' /\ Inherits(chain, chain')
  BY <1>1, SeatsStay
<1>3. /\ WellFormed(log')
      /\ Answered' /\ CallIsSafe' /\ PlansLieInLog' /\ ErrorIsThere' /\ EndsAfterError'
  BY <1>1, <1>2, LogSame
<1>4. context' \in Seq(Nat) /\ TimelineMatches'
  BY <1>1 DEF IInv, TypeOK, TimelineMatches
<1> QED BY <1>1, <1>2, <1>3, <1>4, BoundsStay, InvariantThen

LEMMA WakeKeeps == ASSUME IInv, Wake PROVE IInv'
<1>1. /\ run' \in Runs /\ run'.stage = "ready" /\ run.stage = "sleep" /\ run'.landed = run.landed
      /\ log' = log /\ context' = context /\ cooling' = cooling /\ asked' = asked /\ crashes' = crashes
      /\ UNCHANGED <<pending, manual, chain>>
  BY DEF Wake, Goto, Runs, seatVars, IInv, TypeOK
<1>2. Seats' /\ Inherits(chain, chain')
  BY <1>1, SeatsStay
<1>3. /\ WellFormed(log')
      /\ Answered' /\ CallIsSafe' /\ PlansLieInLog' /\ ErrorIsThere' /\ EndsAfterError'
  BY <1>1, <1>2, LogSame
<1>4. context' \in Seq(Nat) /\ TimelineMatches'
  BY <1>1 DEF IInv, TypeOK, TimelineMatches
<1> QED BY <1>1, <1>2, <1>3, <1>4, BoundsStay, InvariantThen

(* The carrier of a retry hides the failed tail, and whole pairs of it.    *)
LEMMA RetryStep ==
  ASSUME NEW l, WellFormed(l), NEW range, range.first \in Nat, range.last \in Nat,
         AcceptsRetry(l, range), NEW m, Joins(m, l, <<Carrier("retry", range)>>)
  PROVE  /\ WellFormed(m) /\ Len(m) = Len(l) + 1
         /\ Unanswered(m) \subseteq Unanswered(l)
         /\ \A T : At(m, T) = At(l, T) \cup (IF "retry" \in T THEN {Len(l) + 1} ELSE {})
<1>1. /\ l \in Seq(Events) /\ LooksBack(l) /\ Len(l) \in Nat
      /\ range.first <= range.last /\ range.last = Len(l)
      /\ \A p \in range.first .. range.last : p \notin At(l, Carriers)
      /\ \A r \in At(l, {"result"}) :
           r \in range.first .. range.last => l[r].first \in range.first .. range.last
  BY DEF WellFormed, AcceptsRetry, Untouched, WholePairs
<1>2. Fits(l, range)
  <2> SUFFICES ASSUME NEW r \in At(l, {"result"}), l[r].first \in range.first .. range.last
               PROVE  r \in range.first .. range.last
    BY <1>1 DEF Fits
  <2>1. r \in Nat /\ r <= Len(l) /\ l[r].first < r
    BY <1>1, AtProps DEF LooksBack
  <2> DEFINE c == l[r].first
  <2>2. c \in Int /\ c >= range.first /\ c < r
    BY <2>1
  <2> HIDE DEF c
  <2> QED BY <1>1, <2>1, <2>2
<1>3. \A i \in At(l, {"surface"}) : i - 1 \notin range.first .. range.last
  <2> SUFFICES ASSUME NEW i \in At(l, {"surface"}), i - 1 \in range.first .. range.last PROVE FALSE
    OBVIOUS
  <2>1. i \in Nat /\ i <= Len(l)
    BY <1>1, AtProps
  <2>2. i \in range.first .. range.last
    BY <1>1, <2>1
  <2>3. i \in At(l, Carriers)
    BY DEF At, Carriers
  <2> QED BY <1>1, <2>2, <2>3
<1>4. "retry" \in Carriers /\ "retry" # "surface"
  BY DEF Carriers
<1> QED BY <1>2, <1>3, <1>4, CarrierKeeps

(* What Retry and Overflow do to the log. *)
LEMMA OccludeStep ==
  ASSUME IInv, run.stage = "hook", AcceptsRetry(log, FailedTail), Occludes
  PROVE  /\ WellFormed(log') /\ Unanswered(log') = {}
         /\ Projection(log') \in Seq(Nat)
         /\ Len(log) \in Nat /\ Len(log') \in Nat /\ Len(log) <= Len(log')
         /\ \A T : At(log, T) \subseteq At(log', T)
         /\ \A T : "retry" \notin T => At(log', T) = At(log, T)
<1>1. WellFormed(log) /\ log \in Seq(Events) /\ Len(log) \in Nat /\ Unanswered(log) = {}
  BY DEF IInv, WellFormed, Answered
<1>2. FailedTail.first \in Nat /\ FailedTail.last \in Nat
  <2> DEFINE S == At(log, {"reply", "calls", "error"})
  <2>1. S # {}
    BY DEF IInv, ErrorIsThere, At
  <2>2. S \subseteq 0..Len(log)
    <3>1. S \subseteq 1..Len(log)
      BY <1>1, AtProps
    <3> QED BY <1>1, <3>1
  <2> HIDE DEF S
  <2>3. Max(S) \in S
    BY <1>1, <2>1, <2>2, MaxIsMost
  <2>4. \A y \in S : y \in Nat
    BY <2>2
  <2> QED BY <1>1, <2>3, <2>4 DEF FailedTail, Interval, S
<1>3. /\ WellFormed(log') /\ Len(log') = Len(log) + 1
      /\ Unanswered(log') \subseteq Unanswered(log)
      /\ \A T : At(log', T) = At(log, T) \cup (IF "retry" \in T THEN {Len(log) + 1} ELSE {})
  <2> DEFINE l == log
             m == log'
             range == FailedTail
  <2>1. /\ WellFormed(l) /\ range.first \in Nat /\ range.last \in Nat /\ AcceptsRetry(l, range)
        /\ Joins(m, l, <<Carrier("retry", range)>>)
    BY <1>1, <1>2 DEF Occludes, Add, Joins
  <2> HIDE DEF l, m, range
  <2>2. /\ WellFormed(m) /\ Len(m) = Len(l) + 1
        /\ Unanswered(m) \subseteq Unanswered(l)
        /\ \A T : At(m, T) = At(l, T) \cup (IF "retry" \in T THEN {Len(l) + 1} ELSE {})
    BY ONLY <2>1, RetryStep
  <2> QED BY <2>2 DEF l, m
<1>4. Projection(log') \in Seq(Nat)
  BY <1>3, ProjectionIsSeq
<1>5. Len(log') \in Nat /\ Len(log) <= Len(log')
  BY <1>1, <1>3
<1>6. /\ \A T : At(log, T) \subseteq At(log', T)
      /\ \A T : "retry" \notin T => At(log', T) = At(log, T)
  BY <1>3
<1> QED BY <1>1, <1>3, <1>4, <1>5, <1>6

LEMMA RetryKeeps == ASSUME IInv, Retry PROVE IInv'
<1>1. /\ run.stage = "hook" /\ AcceptsRetry(log, FailedTail) /\ Occludes /\ run.retries < MaxRetries
      /\ context' = Projection(log') /\ UNCHANGED <<pending, manual, chain>>
      /\ run' = [run EXCEPT !.stage = "sleep", !.retries = @ + 1, !.landed = FALSE]
      /\ cooling' = cooling /\ asked' = asked /\ crashes' = crashes
  BY DEF Retry, seatVars
<1>2. run' \in Runs /\ run'.stage = "sleep"
  <2>1. run \in Runs /\ MaxRetries \in Nat
    BY CompactionAssumption DEF IInv, TypeOK
  <2>2. run.retries + 1 \in 0..MaxRetries
    BY <1>1, <2>1 DEF Runs
  <2> QED BY <1>1, <2>1, <2>2 DEF Runs
<1>3. Seats' /\ Inherits(chain, chain') /\ ~Over(chain')
  BY <1>1, <1>2, SeatsStay, SeatsAre
<1>4. /\ WellFormed(log') /\ Unanswered(log') = {}
      /\ Projection(log') \in Seq(Nat)
      /\ Len(log) \in Nat /\ Len(log') \in Nat /\ Len(log) <= Len(log')
      /\ \A T : At(log, T) \subseteq At(log', T)
      /\ At(log', {"calls"}) = At(log, {"calls"})
  BY <1>1, OccludeStep
<1>5. PlansFit(chain') /\ \A j \in DOMAIN chain' : chain'[j].plan.last \in Nat
  <2>1. chain' \in Seq(Tasks)
    BY <1>3 DEF Seats
  <2>2. ASSUME NEW j \in DOMAIN chain' PROVE chain'[j] \in Tasks
    BY <2>1
  <2> QED BY <1>3, <2>2, InheritsFits DEF Tasks
<1>6. Answered' /\ CallIsSafe' /\ PlansLieInLog' /\ ErrorIsThere'
  BY <1>2, <1>4, <1>5, LogStays
<1>7. EndsAfterError'
  BY <1>3 DEF EndsAfterError, Over
<1>8. context' \in Seq(Nat) /\ TimelineMatches'
  BY <1>1, <1>4 DEF TimelineMatches
<1> QED BY <1>1, <1>2, <1>3, <1>4, <1>6, <1>7, <1>8, BoundsStay, InvariantThen

LEMMA OverflowKeeps == ASSUME IInv, Overflow PROVE IInv'
<1> DEFINE t == [Task("overflow") EXCEPT !.anchor = LastEnd]
<1>1. /\ run.stage = "hook" /\ AcceptsRetry(log, FailedTail) /\ Occludes
      /\ run' = [run EXCEPT !.stage = "overflow", !.overflowed = TRUE]
      /\ context' = context /\ pending' = pending /\ manual' = manual
      /\ cooling' = cooling /\ asked' = asked /\ crashes' = crashes
      /\ Appends(chain', chain, t)
  BY DEF Overflow, seatVars, Appends
<1>2. run' \in Runs /\ run'.stage = "overflow"
  <2>1. run \in Runs
    BY DEF IInv, TypeOK
  <2> QED BY <1>1, <2>1 DEF Runs
<1>3. /\ WellFormed(log') /\ Unanswered(log') = {}
      /\ Len(log) \in Nat /\ Len(log') \in Nat /\ Len(log) <= Len(log')
      /\ \A T : At(log, T) \subseteq At(log', T)
      /\ \A T : "retry" \notin T => At(log', T) = At(log, T)
  BY <1>1, OccludeStep
<1>4. /\ LastEnd \in Nat /\ LastEnd \in At(log, {"end"}) \cup {0}
      /\ \A x \in At(log, {"end"}) : x \in Nat /\ x <= LastEnd
  <2>1. At(log, {"end"}) \subseteq 1..Len(log)
    BY AtProps DEF IInv, WellFormed
  <2> DEFINE S == At(log, {"end"})
             n == Len(log)
  <2>2. n \in Nat /\ S \subseteq 1..n
    BY <1>3, <2>1
  <2> HIDE DEF S, n
  <2>3. Highest(S) \in Nat /\ (\A i \in S : i <= Highest(S)) /\ (Highest(S) # 0 => Highest(S) \in S)
    BY <2>2, HighestProps
  <2>4. \A x \in S : x \in Nat
    BY <2>2
  <2> QED BY <2>3, <2>4 DEF LastEnd, S
<1>5. t \in Tasks /\ t.kind = "overflow" /\ t.anchor = LastEnd /\ t.plan = NoInterval
  <2>1. "overflow" \in Kinds
    BY DEF Kinds
  <2>2. /\ Task("overflow") \in Tasks /\ Task("overflow").kind = "overflow"
        /\ Task("overflow").plan = NoInterval
    BY <2>1, TaskProps
  <2> QED BY <1>4, <2>2 DEF Tasks
<1> HIDE DEF t
<1>6. /\ chain \in Seq(Tasks) /\ pending \in BOOLEAN /\ manual \in BOOLEAN
      /\ Single(chain) /\ (manual => ~pending)
      /\ pending <=> Own(chain)
      /\ ~Over(chain)
  BY <1>1, SeatsAre
<1>7. /\ chain' \in Seq(Tasks)
      /\ Own(chain') <=> Own(chain)
      /\ Over(chain') /\ Single(chain')
      /\ \A j \in DOMAIN chain' : chain'[j] = t \/ \E i \in DOMAIN chain : chain'[j] = chain[i]
  <2> DEFINE c == chain
             d == chain'
  <2>1. c \in Seq(Tasks) /\ t \in Tasks /\ Appends(d, c, t) /\ Single(c) /\ ~Over(c) /\ t.kind = "overflow"
    BY <1>1, <1>5, <1>6
  <2> HIDE DEF c, d
  <2>2. /\ d \in Seq(Tasks)
        /\ Own(d) <=> Own(c) \/ t.kind # "overflow"
        /\ Over(d) <=> Over(c) \/ t.kind = "overflow"
        /\ (/\ Single(c)
            /\ t.kind = "overflow" => ~Over(c)
            /\ t.kind # "overflow" => ~Own(c)) => Single(d)
        /\ \A j \in DOMAIN d : d[j] = t \/ \E i \in DOMAIN c : d[j] = c[i]
    BY ONLY <2>1, AppendTask
  <2>3. /\ d \in Seq(Tasks)
        /\ Own(d) <=> Own(c)
        /\ Over(d) /\ Single(d)
        /\ \A j \in DOMAIN d : d[j] = t \/ \E i \in DOMAIN c : d[j] = c[i]
    BY <2>1, <2>2
  <2> QED BY <2>3 DEF c, d
<1>8. Seats'
  BY <1>1, <1>2, <1>6, <1>7, SeatsThen
<1>9. PlansFit(chain)
  BY InheritsFits DEF Inherits
<1>10. PlansFit(chain')
  <2>1. t.plan.last = 0
    BY <1>5 DEF NoInterval, Interval
  <2> QED BY <1>1, <1>3, <1>7, <1>9, <2>1 DEF PlansFit
<1>11. \A j \in DOMAIN chain' : chain'[j].plan.last \in Nat
  <2>1. ASSUME NEW j \in DOMAIN chain' PROVE chain'[j] \in Tasks
    BY <1>7
  <2> QED BY <2>1 DEF Tasks
<1>12. Answered' /\ CallIsSafe' /\ PlansLieInLog' /\ ErrorIsThere'
  BY <1>2, <1>3, <1>10, <1>11, LogStays
<1>13. EndsAfterError'
  <2> SUFFICES ASSUME NEW j \in DOMAIN chain', chain'[j].kind = "overflow"
               PROVE  /\ chain'[j].anchor \in At(log', {"end"}) \cup {0}
                      /\ \A x \in At(log', {"end"}) : x > chain'[j].anchor => FALSE
    BY DEF EndsAfterError
  <2>1. chain'[j] = t
    BY <1>6, <1>7 DEF Over
  <2>2. At(log', {"end"}) = At(log, {"end"})
    BY <1>3
  <2>3. \A x \in At(log, {"end"}) : ~(x > LastEnd)
    BY <1>4
  <2> QED BY <1>4, <1>5, <2>1, <2>2, <2>3
<1>14. context' \in Seq(Nat) /\ TimelineMatches'
  BY <1>1, <1>2 DEF IInv, TypeOK, TimelineMatches
<1> QED BY <1>1, <1>2, <1>3, <1>8, <1>12, <1>13, <1>14, BoundsStay, InvariantThen
-----------------------------------------------------------------------------
(* The steps of the service.                                               *)

(* The count of manual requests stays within its bound. *)
LEMMA AskManualTyped ==
  ASSUME IInv, AskManual
  PROVE  asked' \in [user : 0..MaxTurns, manual : 0..MaxManual]
<1>1. asked \in [user : 0..MaxTurns, manual : 0..MaxManual] /\ MaxManual \in Nat
  BY CompactionAssumption DEF IInv, TypeOK
<1>2. asked.manual + 1 \in 0..MaxManual
  BY <1>1 DEF AskManual
<1> QED BY <1>1, <1>2 DEF AskManual

LEMMA CompactNowKeeps == ASSUME IInv, CompactNow PROVE IInv'
<1>1. /\ ~pending /\ ~manual /\ pending' = TRUE /\ manual' = manual
      /\ chain' = Append(chain, Task("manual"))
      /\ run' = run /\ log' = log /\ context' = context /\ cooling' = cooling /\ crashes' = crashes
      /\ AskManual
  BY DEF CompactNow, runVars
<1>2. /\ chain \in Seq(Tasks) /\ Single(chain) /\ ~Own(chain)
      /\ run.stage = "overflow" <=> Over(chain)
  BY <1>1, SeatsAre
<1>3. /\ chain' \in Seq(Tasks) /\ Single(chain') /\ Own(chain')
      /\ Over(chain') <=> Over(chain)
      /\ Inherits(chain, chain')
  <2>1. "manual" \in Kinds /\ "manual" # "overflow"
    BY DEF Kinds
  <2> QED BY <1>1, <1>2, <2>1, NewTask
<1>4. Seats'
  BY <1>1, <1>2, <1>3, SeatsAre, SeatsThen
<1>5. /\ WellFormed(log')
      /\ Answered' /\ CallIsSafe' /\ PlansLieInLog' /\ ErrorIsThere' /\ EndsAfterError'
  BY <1>1, <1>3, <1>4, LogSame
<1>6. context' \in Seq(Nat) /\ TimelineMatches' /\ run' \in Runs
  BY <1>1 DEF IInv, TypeOK, TimelineMatches
<1>7. /\ cooling' \in BOOLEAN /\ crashes' \in 0..1
      /\ asked' \in [user : 0..MaxTurns, manual : 0..MaxManual]
  BY <1>1, AskManualTyped DEF IInv, TypeOK
<1> QED BY <1>4, <1>5, <1>6, <1>7, InvariantThen

LEMMA CompactLaterKeeps == ASSUME IInv, CompactLater PROVE IInv'
<1>1. /\ ~pending /\ run.stage # "idle" /\ pending' = pending /\ manual' = TRUE /\ chain' = chain
      /\ run' = run /\ log' = log /\ context' = context /\ cooling' = cooling /\ crashes' = crashes
      /\ AskManual
  BY DEF CompactLater, runVars, Busy
<1>2. Seats' /\ Inherits(chain, chain')
  BY <1>1, SeatsAre, SeatsThen DEF Inherits
<1>3. /\ WellFormed(log')
      /\ Answered' /\ CallIsSafe' /\ PlansLieInLog' /\ ErrorIsThere' /\ EndsAfterError'
  BY <1>1, <1>2, LogSame
<1>4. context' \in Seq(Nat) /\ TimelineMatches' /\ run' \in Runs
  BY <1>1 DEF IInv, TypeOK, TimelineMatches
<1>5. /\ cooling' \in BOOLEAN /\ crashes' \in 0..1
      /\ asked' \in [user : 0..MaxTurns, manual : 0..MaxManual]
  BY <1>1, AskManualTyped DEF IInv, TypeOK
<1> QED BY <1>2, <1>3, <1>4, <1>5, InvariantThen

(* Nothing that the invariant speaks of changes but the cooldown.          *)
LEMMA StillHolds ==
  ASSUME IInv, UNCHANGED <<log, runVars, pending, manual, chain, asked, crashes>>, cooling' \in BOOLEAN
  PROVE  IInv'
<1>1. /\ log' = log /\ run' = run /\ context' = context /\ pending' = pending /\ manual' = manual
      /\ chain' = chain /\ asked' = asked /\ crashes' = crashes
  BY DEF runVars
<1>2. Seats' /\ Inherits(chain, chain')
  BY <1>1, SeatsAre, SeatsThen DEF Inherits
<1>3. /\ WellFormed(log')
      /\ Answered' /\ CallIsSafe' /\ PlansLieInLog' /\ ErrorIsThere' /\ EndsAfterError'
  BY <1>1, <1>2, LogSame
<1>4. /\ context' \in Seq(Nat) /\ TimelineMatches' /\ run' \in Runs /\ crashes' \in 0..1
      /\ asked' \in [user : 0..MaxTurns, manual : 0..MaxManual]
  BY <1>1 DEF IInv, TypeOK, TimelineMatches
<1> QED BY <1>2, <1>3, <1>4, InvariantThen

LEMMA BeginKeeps == ASSUME IInv, Begin PROVE IInv'
<1> DEFINE p == PlanSegment(log, TailKeep)
<1>1. /\ chain # <<>> /\ p # NoInterval /\ chain' = [chain EXCEPT ![1].plan = p]
      /\ log' = log /\ run' = run /\ context' = context /\ pending' = pending /\ manual' = manual
      /\ cooling' = cooling /\ asked' = asked /\ crashes' = crashes
  BY DEF Begin, Waits, runVars, seatVars
<1>2. /\ chain \in Seq(Tasks) /\ pending \in BOOLEAN /\ manual \in BOOLEAN
      /\ Single(chain) /\ (manual => ~pending)
      /\ pending <=> Own(chain)
      /\ run.stage = "overflow" <=> Over(chain)
      /\ manual => run.stage # "idle" \/ run.crashed
  BY SeatsAre
<1>3. /\ p \in [first : Nat, last : Nat] /\ p.last <= Len(log)
      /\ \E t \in At(log, {"turn/end"}) : p.last <= t
  <2>1. log \in Seq(Events) /\ TailKeep \in Nat \ {0}
    BY CompactionAssumption DEF IInv, WellFormed
  <2>2. /\ p \in [first : Nat, last : Nat] /\ p.last <= Len(log)
        /\ p # NoInterval => \E t \in At(log, {"turn/end"}) : p.last <= t
    BY <2>1, PlanProps
  <2> QED BY <1>1, <2>2
<1> HIDE DEF p
<1>4. /\ chain' \in Seq(Tasks) /\ DOMAIN chain' = DOMAIN chain
      /\ \A j \in DOMAIN chain :
           /\ chain'[j].kind = chain[j].kind /\ chain'[j].anchor = chain[j].anchor
           /\ chain'[j].plan = p \/ chain'[j].plan = chain[j].plan
           /\ chain'[j].plan.last \in Nat
  <2>1. /\ DOMAIN chain' = DOMAIN chain /\ DOMAIN chain = 1..Len(chain) /\ Len(chain) \in Nat
        /\ \A j \in DOMAIN chain : chain[j] \in Tasks
        /\ \A j \in DOMAIN chain :
             chain'[j] = IF j = 1 THEN [chain[1] EXCEPT !.plan = p] ELSE chain[j]
    BY <1>1, <1>2
  <2>2. \A t \in Tasks : /\ [t EXCEPT !.plan = p] \in Tasks /\ [t EXCEPT !.plan = p].kind = t.kind
                         /\ [t EXCEPT !.plan = p].anchor = t.anchor /\ [t EXCEPT !.plan = p].plan = p
                         /\ t.plan.last \in Nat /\ p.last \in Nat
    BY <1>3 DEF Tasks
  <2>3. \A j \in DOMAIN chain :
           /\ chain'[j] \in Tasks
           /\ chain'[j].kind = chain[j].kind /\ chain'[j].anchor = chain[j].anchor
           /\ chain'[j].plan = p \/ chain'[j].plan = chain[j].plan
           /\ chain'[j].plan.last \in Nat
    <3> SUFFICES ASSUME NEW j \in DOMAIN chain
                 PROVE  /\ chain'[j] \in Tasks
                        /\ chain'[j].kind = chain[j].kind /\ chain'[j].anchor = chain[j].anchor
                        /\ chain'[j].plan = p \/ chain'[j].plan = chain[j].plan
                        /\ chain'[j].plan.last \in Nat
      OBVIOUS
    <3>1. CASE j = 1
      <4>1. chain'[j] = [chain[j] EXCEPT !.plan = p] /\ chain[j] \in Tasks
        BY <2>1, <3>1
      <4> QED BY <2>2, <4>1
    <3>2. CASE j # 1
      <4>1. chain'[j] = chain[j] /\ chain[j] \in Tasks
        BY <2>1, <3>2
      <4> QED BY <2>2, <4>1
    <3> QED BY <3>1, <3>2
  <2>4. chain' \in [1..Len(chain) -> Tasks]
    <3>1. chain' = [j \in DOMAIN chain' |-> chain'[j]]
      BY <1>1, <1>2
    <3> QED BY <2>1, <2>3, <3>1
  <2>5. chain' \in Seq(Tasks)
    BY <2>1, <2>4, FunctionIsSeq
  <2> QED BY <2>1, <2>3, <2>5
<1>5. /\ Single(chain')
      /\ Own(chain') <=> Own(chain)
      /\ Over(chain') <=> Over(chain)
  BY <1>2, <1>4 DEF Single, Own, Over
<1>6. Seats'
  BY <1>1, <1>2, <1>4, <1>5, SeatsThen
<1>7. PlansFit(chain)
  BY InheritsFits DEF Inherits
<1>8. p.last <= Len(log) /\ (run.stage = "batch" => p.last < LastCall)
  <2>1. PICK t \in At(log, {"turn/end"}) : p.last <= t
    BY <1>3
  <2>2. t \in Nat
    BY <2>1, AtProps DEF IInv, WellFormed
  <2>3. ASSUME run.stage = "batch" PROVE p.last < LastCall
    <3>1. t < LastCall /\ LastCall \in Nat /\ p.last \in Nat
      BY <1>3, <2>1, <2>3, UnansweredProps DEF IInv, CallIsSafe, WellFormed
    <3> QED BY <2>1, <2>2, <3>1
  <2> QED BY <1>3, <2>3
<1>9. PlansFit(chain')
  BY <1>4, <1>7, <1>8 DEF PlansFit
<1>10. /\ WellFormed(log') /\ Len(log) <= Len(log') /\ Len(log') \in Nat
       /\ \A T : At(log, T) \subseteq At(log', T)
       /\ At(log', {"calls"}) = At(log, {"calls"}) /\ At(log', {"turn/end"}) = At(log, {"turn/end"})
       /\ Unanswered(log') = Unanswered(log)
       /\ run'.stage = run.stage
       /\ run.stage = "batch" => LastCall \in Unanswered(log')
  BY <1>1 DEF IInv, WellFormed, CallIsSafe
<1>11. Answered' /\ CallIsSafe' /\ PlansLieInLog' /\ ErrorIsThere'
  BY <1>4, <1>9, <1>10, LogStays
<1>12. EndsAfterError'
  BY <1>1, <1>4 DEF IInv, EndsAfterError
<1>13. context' \in Seq(Nat) /\ TimelineMatches' /\ run' \in Runs
  BY <1>1 DEF IInv, TypeOK, TimelineMatches
<1> QED BY <1>1, <1>6, <1>10, <1>11, <1>12, <1>13, BoundsStay, InvariantThen

LEMMA BeginNothingKeeps == ASSUME IInv, BeginNothing PROVE IInv'
<1>1. /\ chain # <<>> /\ log' = log /\ cooling' = cooling /\ asked' = asked /\ crashes' = crashes
      /\ \E compacted \in BOOLEAN : Finish(compacted, FALSE)
  BY DEF BeginNothing, Waits
<1>2. PICK compacted \in BOOLEAN : Finish(compacted, FALSE)
  BY <1>1
<1>3. WellFormed(log') /\ Projection(log') \in Seq(Nat) /\ Projection(log') = Projection(log)
  BY <1>1, ProjectionIsSeq DEF IInv
<1>4. /\ Seats' /\ Inherits(chain, chain')
      /\ context' \in Seq(Nat) /\ run' \in Runs /\ TimelineMatches'
      /\ run'.stage = "batch" <=> run.stage = "batch"
      /\ run'.stage = "hook" => run.stage = "hook"
  BY <1>1, <1>2, <1>3, TaskIsOver
<1>5. /\ WellFormed(log')
      /\ Answered' /\ CallIsSafe' /\ PlansLieInLog' /\ ErrorIsThere' /\ EndsAfterError'
  BY <1>1, <1>4, LogSame
<1> QED BY <1>1, <1>4, <1>5, BoundsStay, InvariantThen

(* A compaction that did not reach its surface leaves two events.          *)
LEMMA HalfKeeps ==
  ASSUME IInv, chain # <<>>, NEW s \in {"summary", "closed"},
         Joins(log', log, <<Event("start"), Event(s)>>),
         NEW changed \in BOOLEAN, s = "summary" => changed, Finish(FALSE, changed),
         cooling' = cooling, asked' = asked, crashes' = crashes
  PROVE  IInv'
<1> DEFINE e == <<Event("start"), Event(s)>>
<1>1. /\ e \in Seq(Events) /\ Plain(e)
      /\ \A T : At(e, T) = (IF "start" \in T THEN {1} ELSE {}) \cup (IF s \in T THEN {2} ELSE {})
  <2>1. "start" \in Quiet /\ s \in Quiet
    BY QuietTypes
  <2> QED BY <2>1, TwoEvents
<1> HIDE DEF e
<1>2. /\ At(e, {"calls"}) = {} /\ At(e, {"turn/end"}) = {} /\ At(e, {"end"}) = {}
      /\ At(e, {"error"}) = {} /\ (s = "closed" => At(e, Messages) = {})
  <2>1. /\ "start" \notin {"calls"} \cup {"turn/end"} \cup {"end"} \cup {"error"} \cup Messages
        /\ s \notin {"calls"} \cup {"turn/end"} \cup {"end"} \cup {"error"}
        /\ s = "closed" => s \notin Messages
    BY DEF Messages
  <2> QED BY <1>1, <2>1
<1>3. /\ WellFormed(log') /\ Len(log) \in Nat /\ Len(log') \in Nat /\ Len(log) <= Len(log')
      /\ \A T : At(log', T) = At(log, T) \cup Behind(log, At(e, T))
      /\ Unanswered(log') = Unanswered(log) \cup Behind(log, At(e, {"calls"}))
      /\ At(e, Messages) = {} => Projection(log') = Projection(log)
      /\ Projection(log') \in Seq(Nat)
  <2> DEFINE l == log
             m == log'
  <2>1. WellFormed(l) /\ e \in Seq(Events) /\ Plain(e) /\ Joins(m, l, e)
    BY <1>1 DEF IInv, e
  <2> HIDE DEF l, m
  <2>2. /\ WellFormed(m) /\ Len(l) \in Nat /\ Len(m) \in Nat /\ Len(l) <= Len(m)
        /\ \A T : At(m, T) = At(l, T) \cup Behind(l, At(e, T))
        /\ Unanswered(m) = Unanswered(l) \cup Behind(l, At(e, {"calls"}))
        /\ At(e, Messages) = {} => Projection(m) = Projection(l)
        /\ Projection(m) \in Seq(Nat)
    BY ONLY <2>1, PlainStep
  <2> QED BY <2>2 DEF l, m
<1>4. Behind(log, {}) = {}
  BY DEF Behind
<1>5. /\ \A T : At(log, T) \subseteq At(log', T)
      /\ Unanswered(log') = Unanswered(log) /\ At(log', {"calls"}) = At(log, {"calls"})
      /\ At(log', {"turn/end"}) = At(log, {"turn/end"}) /\ At(log', {"end"}) = At(log, {"end"})
      /\ At(log', {"error"}) = At(log, {"error"})
  <2>1. \A T : At(e, T) = {} => At(log', T) = At(log, T)
    BY <1>3, <1>4
  <2>2. \A T : At(log, T) \subseteq At(log', T)
    BY <1>3
  <2>3. Unanswered(log') = Unanswered(log)
    BY <1>2, <1>3, <1>4
  <2> QED BY <1>2, <2>1, <2>2, <2>3
<1>6. ~changed => Projection(log') = Projection(log)
  BY <1>2, <1>3
<1>7. /\ Seats' /\ Inherits(chain, chain')
      /\ context' \in Seq(Nat) /\ run' \in Runs /\ TimelineMatches'
      /\ run'.stage = "batch" <=> run.stage = "batch"
      /\ run'.stage = "hook" => run.stage = "hook"
  BY <1>3, <1>6, TaskIsOver
<1>8. PlansFit(chain') /\ \A j \in DOMAIN chain' : chain'[j].plan.last \in Nat
  <2>1. chain' \in Seq(Tasks)
    BY <1>7 DEF Seats
  <2>2. ASSUME NEW j \in DOMAIN chain' PROVE chain'[j] \in Tasks
    BY <2>1
  <2> QED BY <1>7, <2>2, InheritsFits DEF Tasks
<1>9. run'.stage = "batch" => run.stage = "batch" /\ LastCall \in Unanswered(log')
  BY <1>5, <1>7 DEF IInv, CallIsSafe
<1>10. Answered' /\ CallIsSafe' /\ PlansLieInLog' /\ ErrorIsThere'
  BY <1>3, <1>5, <1>7, <1>8, <1>9, LogStays
<1>11. EndsAfterError'
  BY <1>5, <1>7, EndsStay
<1> QED BY <1>3, <1>7, <1>10, <1>11, BoundsStay, InvariantThen

LEMMA RefusedKeeps == ASSUME IInv, Refused PROVE IInv'
<1>1. /\ chain # <<>> /\ Finish(FALSE, TRUE) /\ cooling' = cooling /\ asked' = asked
      /\ crashes' = crashes /\ Joins(log', log, <<Event("start"), Event("summary")>>)
  BY DEF Refused, Summarizes, Add, Joins
<1>2. "summary" \in {"summary", "closed"} /\ TRUE \in BOOLEAN
  OBVIOUS
<1> QED BY <1>1, <1>2, HalfKeeps

LEMMA ClosedWithoutKeeps == ASSUME IInv, ClosedWithout PROVE IInv'
<1>1. /\ chain # <<>> /\ Finish(FALSE, FALSE) /\ cooling' = cooling /\ asked' = asked
      /\ crashes' = crashes /\ Joins(log', log, <<Event("start"), Event("closed")>>)
  BY DEF ClosedWithout, Summarizes, Add, Joins
<1>2. "closed" \in {"summary", "closed"} /\ FALSE \in BOOLEAN /\ "closed" # "summary"
  OBVIOUS
<1> QED BY <1>1, <1>2, HalfKeeps

(* A compaction that reaches its end: what it leaves behind the log.       *)
LEMMA SurfaceStep ==
  ASSUME NEW l, WellFormed(l), NEW range, range.first \in Nat, range.last \in Nat,
         AcceptsSurface(l, range),
         NEW m, Joins(m, l, <<Event("start"), Event("summary"), Carrier("surface", range), Event("end")>>)
  PROVE  /\ WellFormed(m) /\ Len(l) \in Nat /\ Len(m) = Len(l) + 4
         /\ Unanswered(m) = Unanswered(l) \ (range.first .. range.last)
         /\ \A T : At(m, T) = At(l, T) \cup (IF "start" \in T THEN {Len(l) + 1} ELSE {})
                                       \cup (IF "summary" \in T THEN {Len(l) + 2} ELSE {})
                                       \cup (IF "surface" \in T THEN {Len(l) + 3} ELSE {})
                                       \cup (IF "end" \in T THEN {Len(l) + 4} ELSE {})
<1> DEFINE n == Len(l)
           e1 == <<Event("start"), Event("summary")>>
           e2 == <<Carrier("surface", range)>>
           e3 == <<Event("end")>>
           m1 == l \o e1
           m2 == m1 \o e2
<1>1. /\ l \in Seq(Events) /\ n \in Nat /\ range.last <= n
      /\ \A r \in At(l, {"result"}) :
           r \in range.first .. range.last <=> l[r].first \in range.first .. range.last
  BY DEF WellFormed, AcceptsSurface, Untouched, WholePairs
<1>2. /\ e1 \in Seq(Events) /\ Plain(e1)
      /\ \A T : At(e1, T) = (IF "start" \in T THEN {1} ELSE {}) \cup (IF "summary" \in T THEN {2} ELSE {})
  <2> DEFINE s == "start"
             t == "summary"
             u == <<Event(s), Event(t)>>
  <2>1. s \in Quiet /\ t \in Quiet /\ e1 = u
    BY QuietTypes
  <2> HIDE DEF s, t
  <2>2. /\ u \in Seq(Events) /\ Plain(u)
        /\ \A T : At(u, T) = (IF s \in T THEN {1} ELSE {}) \cup (IF t \in T THEN {2} ELSE {})
    BY ONLY <2>1, TwoEvents
  <2> HIDE DEF u, e1
  <2>3. /\ e1 \in Seq(Events) /\ Plain(e1)
        /\ \A T : At(e1, T) = (IF s \in T THEN {1} ELSE {}) \cup (IF t \in T THEN {2} ELSE {})
    BY <2>1, <2>2
  <2> QED BY <2>3 DEF s, t
<1>3. /\ e3 \in Seq(Events) /\ Plain(e3) /\ \A T : At(e3, T) = IF "end" \in T THEN {1} ELSE {}
  BY QuietTypes, OneEvent
<1>4. Carrier("surface", range) \in Events /\ "surface" \in Carriers /\ "surface" # "retry"
  BY DEF Carrier, Events, Types, Carriers
<1>5. /\ e1 \in Seq(Events) /\ Len(e1) = 2 /\ e2 \in Seq(Events) /\ Len(e2) = 1
      /\ e3 \in Seq(Events) /\ Len(e3) = 1
  BY <1>2, <1>3, <1>4
<1>6. m = m2 \o e3
  <2>1. <<Event("start"), Event("summary"), Carrier("surface", range), Event("end")>> = (e1 \o e2) \o e3
    <3>1. Event("start") \in Events /\ Event("summary") \in Events /\ Event("end") \in Events
      BY DEF Event, Events, Types, Messages
    <3> DEFINE a == Event("start")
               b == Event("summary")
               c == Carrier("surface", range)
               d == Event("end")
    <3>2. a \in Events /\ b \in Events /\ c \in Events /\ d \in Events
      BY <1>4, <3>1
    <3> HIDE DEF a, b, c, d
    <3>3. <<a, b, c, d>> = (<<a, b>> \o <<c>>) \o <<d>>
      <4> DEFINE u == <<a, b>> \o <<c>>
      <4>1. u \in Seq(Events) /\ Len(u) = 3 /\ u[1] = a /\ u[2] = b /\ u[3] = c
        BY ONLY <3>2
      <4>2. <<d>> \in Seq(Events) /\ Len(<<d>>) = 1 /\ <<d>>[1] = d
        BY ONLY <3>2
      <4> HIDE DEF u
      <4>3. /\ u \o <<d>> \in Seq(Events) /\ Len(u \o <<d>>) = 4
            /\ (u \o <<d>>)[1] = a /\ (u \o <<d>>)[2] = b /\ (u \o <<d>>)[3] = c
            /\ (u \o <<d>>)[4] = d
        <5> DEFINE g == <<d>>
        <5>1. u \in Seq(Events) /\ g \in Seq(Events) /\ Len(u) = 3 /\ Len(g) = 1 /\ g[1] = d
          BY <4>1, <4>2
        <5> HIDE DEF g
        <5>2. /\ u \o g \in Seq(Events) /\ Len(u \o g) = Len(u) + Len(g)
              /\ \A i \in 1..Len(u) : (u \o g)[i] = u[i]
              /\ \A i \in 1..Len(g) : (u \o g)[Len(u) + i] = g[i]
          <6>1. u \in Seq(Events) /\ g \in Seq(Events)
            BY <5>1
          <6> QED BY ONLY <6>1, ConcatProps
        <5>3. 1 \in 1..3 /\ 2 \in 1..3 /\ 3 \in 1..3 /\ 1 \in 1..1 /\ 3 + 1 = 4
          OBVIOUS
        <5>4. /\ u \o g \in Seq(Events) /\ Len(u \o g) = 4
              /\ (u \o g)[1] = u[1] /\ (u \o g)[2] = u[2] /\ (u \o g)[3] = u[3]
              /\ (u \o g)[4] = g[1]
          BY ONLY <5>1, <5>2, <5>3
        <5> QED BY <4>1, <5>1, <5>4 DEF g
      <4> DEFINE v == <<a, b, c, d>>
                 w == u \o <<d>>
      <4>4. v \in Seq(Events) /\ Len(v) = 4 /\ v[1] = a /\ v[2] = b /\ v[3] = c /\ v[4] = d
        BY ONLY <3>2
      <4>5. \A i \in 1..4 : i = 1 \/ i = 2 \/ i = 3 \/ i = 4
        OBVIOUS
      <4>6. w \in Seq(Events) /\ Len(v) = Len(w) /\ \A i \in 1..Len(v) : v[i] = w[i]
        <5> HIDE DEF v
        <5> QED BY ONLY <4>3, <4>4, <4>5 DEF w
      <4> HIDE DEF v, w
      <4>7. v = w
        BY ONLY <4>4, <4>6, SeqsAgree
      <4> QED BY <4>7 DEF u, v, w
    <3> QED BY <3>3 DEF a, b, c, d
  <2>2. m = l \o ((e1 \o e2) \o e3)
    BY <2>1 DEF Joins
  <2> HIDE DEF e1, e2, e3
  <2>3. (e1 \o e2) \o e3 = e1 \o (e2 \o e3) /\ e2 \o e3 \in Seq(Events)
    <3>1. e1 \in Seq(Events) /\ e2 \in Seq(Events) /\ e3 \in Seq(Events)
      BY <1>5
    <3> QED BY ONLY <3>1, ConcatAssociative, ConcatProps
  <2> DEFINE f == e2 \o e3
  <2>4. m = l \o (e1 \o f) /\ f \in Seq(Events)
    BY <2>2, <2>3
  <2>5. m1 \o f = m2 \o e3
    <3>1. m1 \in Seq(Events)
      BY <1>1, <1>5, ConcatProps
    <3> HIDE DEF m1
    <3>2. m1 \in Seq(Events) /\ e2 \in Seq(Events) /\ e3 \in Seq(Events)
      BY <1>5, <3>1
    <3>3. (m1 \o e2) \o e3 = m1 \o (e2 \o e3)
      BY ONLY <3>2, ConcatAssociative
    <3> QED BY <3>3
  <2> HIDE DEF f
  <2>6. l \o (e1 \o f) = (l \o e1) \o f
    <3>1. l \in Seq(Events) /\ e1 \in Seq(Events) /\ f \in Seq(Events)
      BY <1>1, <1>5, <2>4
    <3> QED BY ONLY <3>1, ConcatAssociative
  <2> QED BY <2>4, <2>5, <2>6
<1>7. /\ WellFormed(m1) /\ Len(m1) = n + 2
      /\ \A T : At(m1, T) = At(l, T) \cup Behind(l, At(e1, T))
      /\ Unanswered(m1) = Unanswered(l) \cup Behind(l, At(e1, {"calls"}))
      /\ m1 \in Seq(Events) /\ (\A i \in 1..n : m1[i] = l[i]) /\ m1[n + 2].type = "summary"
  <2>1. WellFormed(l) /\ l \in Seq(Events) /\ e1 \in Seq(Events) /\ Plain(e1) /\ Joins(m1, l, e1)
    BY <1>1, <1>2 DEF Joins
  <2>2. Len(e1) = 2 /\ 2 \in 1..Len(e1) /\ e1[2].type = "summary"
    BY DEF Event
  <2> HIDE DEF e1, m1
  <2>3. /\ WellFormed(m1)
        /\ \A T : At(m1, T) = At(l, T) \cup Behind(l, At(e1, T))
        /\ Unanswered(m1) = Unanswered(l) \cup Behind(l, At(e1, {"calls"}))
    BY ONLY <2>1, PlainStep
  <2>4. /\ m1 \in Seq(Events) /\ Len(m1) = Len(l) + Len(e1)
        /\ \A i \in 1..Len(l) : m1[i] = l[i]
        /\ \A i \in 1..Len(e1) : m1[Len(l) + i] = e1[i]
    BY ONLY <2>1, Appended
  <2> QED BY <2>2, <2>3, <2>4
<1> HIDE DEF e1, e3, m1
<1>8. /\ Behind(l, {}) = {}
      /\ \A T : At(m1, T) = At(l, T) \cup (IF "start" \in T THEN {n + 1} ELSE {})
                                     \cup (IF "summary" \in T THEN {n + 2} ELSE {})
  <2>1. \A A, B : Behind(l, A \cup B) = Behind(l, A) \cup Behind(l, B)
    BY DEF Behind
  <2>2. Behind(l, {}) = {} /\ Behind(l, {1}) = {n + 1} /\ Behind(l, {2}) = {n + 2}
    BY DEF Behind
  <2>3. ASSUME NEW T
        PROVE  At(m1, T) = At(l, T) \cup (IF "start" \in T THEN {n + 1} ELSE {})
                                    \cup (IF "summary" \in T THEN {n + 2} ELSE {})
    <3> DEFINE A == IF "start" \in T THEN {1} ELSE {}
               B == IF "summary" \in T THEN {2} ELSE {}
    <3>1. At(m1, T) = At(l, T) \cup Behind(l, A) \cup Behind(l, B)
      BY <1>2, <1>7, <2>1
    <3>2. /\ Behind(l, A) = (IF "start" \in T THEN {n + 1} ELSE {})
          /\ Behind(l, B) = (IF "summary" \in T THEN {n + 2} ELSE {})
      BY <2>2
    <3> HIDE DEF A, B
    <3> QED BY <3>1, <3>2
  <2> QED BY <2>2, <2>3
<1>9. Unanswered(m1) = Unanswered(l) /\ At(m1, {"result"}) = At(l, {"result"})
  <2>1. At(e1, {"calls"}) = {}
    BY <1>2
  <2>2. Unanswered(m1) = Unanswered(l) \cup Behind(l, {}) /\ Behind(l, {}) = {}
    BY <1>7, <1>8, <2>1
  <2>3. "start" \notin {"result"} /\ "summary" \notin {"result"}
    OBVIOUS
  <2>4. At(m1, {"result"}) = At(l, {"result"})
    BY <1>8, <2>3
  <2> QED BY <2>2, <2>4
<1>10. Fits(m1, range)
  <2>1. \A r \in At(l, {"result"}) : m1[r] = l[r]
    BY <1>1, <1>7, AtProps
  <2> QED BY <1>1, <1>7, <1>9, <2>1 DEF Fits
<1>11. /\ WellFormed(m2) /\ Len(m2) = n + 3
       /\ Unanswered(m2) = Unanswered(l) \ (range.first .. range.last)
       /\ \A T : At(m2, T) = At(m1, T) \cup (IF "surface" \in T THEN {n + 3} ELSE {})
  <2> DEFINE t == "surface"
  <2>1. /\ WellFormed(m1) /\ t \in Carriers /\ Fits(m1, range) /\ t # "retry" /\ Len(m1) > 0
        /\ m1[Len(m1)].type = "summary" /\ range.last < Len(m1)
        /\ Joins(m2, m1, <<Carrier(t, range)>>)
    BY <1>1, <1>4, <1>7, <1>10 DEF Joins
  <2> HIDE DEF m2, t
  <2>2. /\ WellFormed(m2) /\ Len(m2) = Len(m1) + 1
        /\ Unanswered(m2) = Unanswered(m1) \ (range.first .. range.last)
        /\ \A T : At(m2, T) = At(m1, T) \cup (IF t \in T THEN {Len(m1) + 1} ELSE {})
    BY <2>1, CarrierKeeps
  <2>3. Len(m1) + 1 = n + 3
    BY <1>1, <1>7
  <2> QED BY <1>9, <2>2, <2>3 DEF t
<1> HIDE DEF m2
<1>12. /\ WellFormed(m) /\ Len(m) = n + 4
       /\ \A T : At(m, T) = At(m2, T) \cup (IF "end" \in T THEN {n + 4} ELSE {})
       /\ Unanswered(m) = Unanswered(m2)
  <2>1. WellFormed(m2) /\ m2 \in Seq(Events) /\ e3 \in Seq(Events) /\ Plain(e3) /\ Joins(m, m2, e3)
    BY <1>3, <1>6, <1>11 DEF Joins, WellFormed
  <2>2. /\ WellFormed(m)
        /\ \A T : At(m, T) = At(m2, T) \cup Behind(m2, At(e3, T))
        /\ Unanswered(m) = Unanswered(m2) \cup Behind(m2, At(e3, {"calls"}))
    BY ONLY <2>1, PlainStep
  <2>3. Len(m) = Len(m2) + Len(e3)
    BY ONLY <2>1, Appended
  <2>4. Len(m2) + 1 = n + 4 /\ Len(m) = n + 4
    BY <1>1, <1>5, <1>11, <2>3
  <2>5. Behind(m2, {}) = {} /\ Behind(m2, {1}) = {n + 4}
    BY <2>4 DEF Behind
  <2>6. At(e3, {"calls"}) = {}
    BY <1>3
  <2> HIDE DEF n
  <2> QED BY <1>3, <2>2, <2>4, <2>5, <2>6
<1> HIDE DEF n
<1>13. \A T : At(m, T) = At(l, T) \cup (IF "start" \in T THEN {n + 1} ELSE {})
                                  \cup (IF "summary" \in T THEN {n + 2} ELSE {})
                                  \cup (IF "surface" \in T THEN {n + 3} ELSE {})
                                  \cup (IF "end" \in T THEN {n + 4} ELSE {})
  BY <1>8, <1>11, <1>12
<1> QED BY <1>1, <1>11, <1>12, <1>13 DEF n

LEMMA CompletedKeeps == ASSUME IInv, Completed PROVE IInv'
<1> DEFINE n == Len(log)
           range == Task1.plan
<1>1. /\ chain # <<>> /\ AcceptsSurface(log, range) /\ cooling' = TRUE /\ Finish(TRUE, TRUE)
      /\ asked' = asked /\ crashes' = crashes
      /\ Joins(log', log, <<Event("start"), Event("summary"), Carrier("surface", range), Event("end")>>)
  BY DEF Completed, Summarizes, Add, Joins
<1>2. /\ Task1 \in Tasks /\ \E i \in DOMAIN chain : chain[i] = Task1
  BY <1>1, SeatsAre, TailTask DEF Task1
<1>3. range.first \in Nat /\ range.last \in Nat /\ WellFormed(log) /\ log \in Seq(Events)
  BY <1>2 DEF Tasks, IInv, WellFormed
<1>4. /\ WellFormed(log') /\ n \in Nat /\ Len(log') = n + 4
      /\ Unanswered(log') = Unanswered(log) \ (range.first .. range.last)
      /\ \A T : At(log', T) = At(log, T) \cup (IF "start" \in T THEN {n + 1} ELSE {})
                                         \cup (IF "summary" \in T THEN {n + 2} ELSE {})
                                         \cup (IF "surface" \in T THEN {n + 3} ELSE {})
                                         \cup (IF "end" \in T THEN {n + 4} ELSE {})
  <2> DEFINE l == log
             m == log'
  <2>1. /\ WellFormed(l) /\ range.first \in Nat /\ range.last \in Nat /\ AcceptsSurface(l, range)
        /\ Joins(m, l, <<Event("start"), Event("summary"), Carrier("surface", range), Event("end")>>)
    BY <1>1, <1>3
  <2> HIDE DEF l, m, range
  <2>2. /\ WellFormed(m) /\ Len(l) \in Nat /\ Len(m) = Len(l) + 4
        /\ Unanswered(m) = Unanswered(l) \ (range.first .. range.last)
        /\ \A T : At(m, T) = At(l, T) \cup (IF "start" \in T THEN {Len(l) + 1} ELSE {})
                                      \cup (IF "summary" \in T THEN {Len(l) + 2} ELSE {})
                                      \cup (IF "surface" \in T THEN {Len(l) + 3} ELSE {})
                                      \cup (IF "end" \in T THEN {Len(l) + 4} ELSE {})
    BY ONLY <2>1, SurfaceStep
  <2> QED BY <2>2 DEF l, m
<1>5. Projection(log') \in Seq(Nat)
  BY <1>4, ProjectionIsSeq
<1>6. /\ Seats' /\ Inherits(chain, chain')
      /\ context' \in Seq(Nat) /\ run' \in Runs /\ TimelineMatches'
      /\ run'.stage = "batch" <=> run.stage = "batch"
      /\ run'.stage = "hook" => run.stage = "hook"
  <2>1. TRUE \in BOOLEAN
    OBVIOUS
  <2> QED BY <1>1, <1>5, <2>1, TaskIsOver
<1> HIDE DEF n, range
<1>7. /\ \A T : At(log, T) \subseteq At(log', T)
      /\ At(log', {"calls"}) = At(log, {"calls"}) /\ At(log', {"turn/end"}) = At(log, {"turn/end"})
      /\ At(log', {"error"}) = At(log, {"error"})
      /\ At(log', {"end"}) = At(log, {"end"}) \cup {n + 4}
      /\ At(log', {"surface"}) = At(log, {"surface"}) \cup {n + 3}
  BY <1>4
<1>8. run'.stage = "batch" => run.stage = "batch" /\ LastCall \in Unanswered(log')
  <2> SUFFICES ASSUME run'.stage = "batch" PROVE LastCall \in Unanswered(log') /\ run.stage = "batch"
    OBVIOUS
  <2>1. LastCall \in Unanswered(log) /\ range.last < LastCall /\ run.stage = "batch"
    BY <1>2, <1>6 DEF IInv, CallIsSafe, range
  <2>2. LastCall \in Nat
    BY <1>3, <2>1, UnansweredProps
  <2>3. LastCall \notin range.first .. range.last
    BY <1>3, <2>1, <2>2
  <2> QED BY <1>4, <2>1, <2>3
<1>9. PlansFit(chain') /\ \A j \in DOMAIN chain' : chain'[j].plan.last \in Nat
  <2>1. chain' \in Seq(Tasks)
    BY <1>6 DEF Seats
  <2>2. ASSUME NEW j \in DOMAIN chain' PROVE chain'[j] \in Tasks
    BY <2>1
  <2> QED BY <1>6, <2>2, InheritsFits DEF Tasks
<1>10. Len(log) <= Len(log') /\ Len(log') \in Nat
  BY <1>4 DEF n
<1>11. Answered' /\ CallIsSafe' /\ PlansLieInLog' /\ ErrorIsThere'
  <2>1. Unanswered(log') \subseteq Unanswered(log)
    BY <1>4
  <2> QED BY <1>4, <1>6, <1>7, <1>8, <1>9, <1>10, <2>1, LogStays
<1>12. EndsAfterError'
  <2> SUFFICES ASSUME NEW j \in DOMAIN chain', chain'[j].kind = "overflow"
               PROVE  /\ chain'[j].anchor \in At(log', {"end"}) \cup {0}
                      /\ \A x \in At(log', {"end"}) : x > chain'[j].anchor =>
                           /\ x - 1 \in At(log', {"surface"})
                           /\ \A e \in At(log', {"error"}) : e < x - 1
    BY DEF EndsAfterError
  <2>1. PICK i \in DOMAIN chain : chain'[j] = chain[i]
    BY <1>6 DEF Inherits
  <2>2. /\ chain[i].anchor \in At(log, {"end"}) \cup {0}
        /\ \A x \in At(log, {"end"}) : x > chain[i].anchor =>
             /\ x - 1 \in At(log, {"surface"})
             /\ \A e \in At(log, {"error"}) : e < x - 1
    BY <2>1 DEF IInv, EndsAfterError
  <2>3. ASSUME NEW x \in At(log', {"end"}), x > chain'[j].anchor
        PROVE  /\ x - 1 \in At(log', {"surface"})
               /\ \A e \in At(log', {"error"}) : e < x - 1
    <3>1. CASE x \in At(log, {"end"})
      BY <1>7, <2>1, <2>2, <2>3, <3>1
    <3>2. CASE x = n + 4
      <4>1. x - 1 = n + 3
        BY <1>4, <3>2
      <4>2. \A e \in At(log, {"error"}) : e \in Nat /\ e <= n
        BY <1>3, AtProps DEF n
      <4>3. \A e \in At(log, {"error"}) : e < n + 3
        BY <1>4, <4>2
      <4> QED BY <1>7, <4>1, <4>3
    <3> QED BY <1>7, <2>3, <3>1, <3>2
  <2> QED BY <1>7, <2>1, <2>2, <2>3
<1>13. /\ cooling' \in BOOLEAN /\ crashes' \in 0..1
       /\ asked' \in [user : 0..MaxTurns, manual : 0..MaxManual]
  BY <1>1 DEF IInv, TypeOK
<1> QED BY <1>4, <1>6, <1>11, <1>12, <1>13, InvariantThen

(* What a crash leaves of the log. *)
LEMMA KeptProps ==
  ASSUME IInv, NEW kept \in Max({Len(Opening), Len(log) - MaxLost}) .. Len(log)
  PROVE  kept \in 0..Len(log)
<1>1. Len(log) \in Nat /\ Len(Opening) \in Nat /\ MaxLost \in Nat
  BY CompactionAssumption DEF IInv, WellFormed
<1> DEFINE a == Len(Opening)
           b == Len(log) - MaxLost
<1>2. a \in Nat /\ b \in Int
  BY <1>1
<1> HIDE DEF a, b
<1>3. Max({a, b}) = IF a >= b THEN a ELSE b
  BY <1>2 DEF Max
<1>4. Max({a, b}) \in Nat
  BY <1>2, <1>3
<1>5. kept \in Max({a, b}) .. Len(log)
  BY DEF a, b
<1> QED BY <1>1, <1>4, <1>5

LEMMA ReopenKeeps == ASSUME IInv, Reopen PROVE IInv'
<1>1. /\ run' = NoRun /\ pending' = FALSE /\ manual' = FALSE /\ cooling' = FALSE /\ chain' = <<>>
      /\ crashes' = 1 /\ asked' = asked /\ context' = Projection(log')
  BY DEF Reopen
<1>2. PICK kept \in Max({Len(Opening), Len(log) - MaxLost}) .. Len(log) :
        log' = SubSeq(log, 1, kept) \o Closers(SubSeq(log, 1, kept))
  BY DEF Reopen
<1>3. WellFormed(log) /\ Len(log) \in Nat /\ Len(Opening) \in Nat /\ MaxLost \in Nat
  BY CompactionAssumption DEF IInv, WellFormed
<1>4. kept \in 0..Len(log)
  BY KeptProps
<1> DEFINE cut == SubSeq(log, 1, kept)
<1>5. WellFormed(cut)
  BY <1>3, <1>4, PrefixKeeps
<1>6. Joins(log', cut, Closers(cut))
  BY <1>2 DEF Joins
<1> HIDE DEF cut
<1>7. WellFormed(log') /\ Unanswered(log') = {}
  BY <1>5, <1>6, ClosersKeep
<1>8. NoRun \in Runs /\ NoRun.stage = "idle"
  BY NoRunIsRun DEF NoRun
<1>9. <<>> \in Seq(Tasks) /\ DOMAIN <<>> = {}
  OBVIOUS
<1>10. Seats'
  BY <1>1, <1>8, <1>9, SeatsThen DEF Single, Own, Over
<1>11. Answered' /\ CallIsSafe' /\ PlansLieInLog' /\ ErrorIsThere' /\ EndsAfterError' /\ TimelineMatches'
  BY <1>1, <1>7, <1>8, <1>9
     DEF Answered, CallIsSafe, PlansLieInLog, ErrorIsThere, EndsAfterError, TimelineMatches
<1>12. /\ cooling' \in BOOLEAN /\ crashes' \in 0..1 /\ run' \in Runs /\ context' \in Seq(Nat)
       /\ asked' \in [user : 0..MaxTurns, manual : 0..MaxManual]
  <2>1. Projection(log') \in Seq(Nat)
    BY <1>7, ProjectionIsSeq
  <2>2. asked \in [user : 0..MaxTurns, manual : 0..MaxManual]
    BY DEF IInv, TypeOK
  <2>3. cooling' \in BOOLEAN /\ crashes' \in 0..1
    <3>1. FALSE \in BOOLEAN /\ 1 \in 0..1
      OBVIOUS
    <3>2. cooling' = FALSE /\ crashes' = 1
      BY <1>1
    <3> QED BY ONLY <3>1, <3>2
  <2>4. run' \in Runs /\ context' \in Seq(Nat)
    BY <1>1, <1>8, <2>1
  <2>5. asked' \in [user : 0..MaxTurns, manual : 0..MaxManual]
    BY <1>1, <2>2
  <2> QED BY <2>3, <2>4, <2>5
<1> QED BY <1>7, <1>10, <1>11, <1>12, InvariantThen
-----------------------------------------------------------------------------
(* The theorems.                                                           *)

(* The invariant holds at first, and every step keeps it. *)
LEMMA InitHolds == ASSUME Init PROVE IInv
<1>1. /\ log = Opening /\ context = Projection(Opening) /\ run = NoRun
      /\ pending = FALSE /\ manual = FALSE /\ cooling = FALSE
      /\ chain = <<>> /\ asked = [user |-> 0, manual |-> 0] /\ crashes = 0
  BY DEF Init
<1>2. /\ WellFormed(Opening) /\ Unanswered(Opening) = {}
      /\ MaxTurns \in Nat /\ MaxManual \in Nat
  BY CompactionAssumption
<1>3. NoRun \in Runs /\ NoRun.stage = "idle"
  BY NoRunIsRun DEF NoRun
<1>4. <<>> \in Seq(Tasks) /\ DOMAIN <<>> = {}
  OBVIOUS
<1>5. OneSeat /\ SeatIsHeld
  BY <1>1, <1>3, <1>4 DEF OneSeat, SeatIsHeld
<1>6. Answered /\ CallIsSafe /\ PlansLieInLog /\ ErrorIsThere /\ EndsAfterError /\ TimelineMatches
  BY <1>1, <1>2, <1>3, <1>4
     DEF Answered, CallIsSafe, PlansLieInLog, ErrorIsThere, EndsAfterError, TimelineMatches
<1>7. TypeOK
  <2>1. log \in Seq(Events) /\ context \in Seq(Nat) /\ run \in Runs
    BY <1>1, <1>2, <1>3, ProjectionIsSeq DEF WellFormed
  <2>2. {pending, manual, cooling} \subseteq BOOLEAN /\ chain \in Seq(Tasks)
    BY <1>1, <1>4
  <2>3. 0 \in 0..MaxTurns /\ 0 \in 0..MaxManual /\ 0 \in 0..1
    BY <1>2
  <2>4. asked \in [user : 0..MaxTurns, manual : 0..MaxManual] /\ crashes \in 0..1
    BY <1>1, <2>3
  <2> QED BY <2>1, <2>2, <2>4 DEF TypeOK
<1> QED BY <1>1, <1>2, <1>5, <1>6, <1>7 DEF IInv

LEMMA StepHolds == ASSUME IInv, [Next]_vars PROVE IInv'
<1>1. CASE RunStep
  BY <1>1, StartRunKeeps, RequestKeeps, CallsKeeps, BatchDoneKeeps, ReplyKeeps, FollowUpKeeps,
     ErrorKeeps, FailKeeps, OccludeFailsKeeps, RetryKeeps, WakeKeeps, OverflowKeeps DEF RunStep
<1>2. CASE ChainStep
  BY <1>2, BeginKeeps, BeginNothingKeeps, CompletedKeeps, RefusedKeeps, ClosedWithoutKeeps DEF ChainStep
<1>3. CASE CooldownOver
  <2>1. UNCHANGED <<log, runVars, pending, manual, chain, asked, crashes>> /\ cooling' \in BOOLEAN
    BY <1>3 DEF CooldownOver
  <2> QED BY <2>1, StillHolds
<1>4. CASE UNCHANGED vars
  <2>1. UNCHANGED <<log, runVars, pending, manual, chain, asked, crashes>> /\ cooling' = cooling
    BY <1>4 DEF vars, seatVars
  <2>2. cooling' \in BOOLEAN
    BY <2>1 DEF IInv, TypeOK
  <2> QED BY <2>1, <2>2, StillHolds
<1> QED BY <1>1, <1>2, <1>3, <1>4, CompactNowKeeps, CompactLaterKeeps, ReopenKeeps DEF Next

(* The inductive invariant: whatever runs, compactions, failures and a     *)
(* crash do, the log stays one this program could have written, and seats, *)
(* chain and timeline agree with it.                                       *)
THEOREM CompactionAccount == Spec => []IInv
<1>1. Init => IInv
  BY InitHolds
<1>2. IInv /\ [Next]_vars => IInv'
  BY StepHolds
<1> QED BY <1>1, <1>2, PTL DEF Spec

(* Types.  Every variable has its type in every state, for every opening   *)
(* log this program could have written and all bounds.                     *)
THEOREM CompactionTyped == Spec => []TypeOK
<1>1. IInv => TypeOK
  BY DEF IInv
<1> QED BY <1>1, CompactionAccount, PTL

(* The seat of the service is held exactly while a compaction of its own   *)
(* is in the chain, a run waits for its overflow exactly while that is in  *)
(* the chain, and only a crashed run leaves a manual request behind.       *)
THEOREM SeatAlwaysHeld == Spec => []SeatIsHeld
<1>1. IInv => SeatIsHeld
  BY DEF IInv
<1> QED BY <1>1, CompactionAccount, PTL

(* Unless a compaction landed, the live timeline of a run is what the log  *)
(* projects, through retries, overflows, follow-ups and reopening.         *)
THEOREM TimelineAlwaysMatches == Spec => []TimelineMatches
<1>1. IInv => TimelineMatches
  BY DEF IInv
<1> QED BY <1>1, CompactionAccount, PTL

(* A call and its results are visible together, each call with exactly one *)
(* result, whatever was hidden, cut by a crash or closed by recovery.      *)
THEOREM PairsAlwaysComplete == Spec => []PairsComplete
<1>1. ASSUME IInv PROVE PairsComplete
  <2>1. /\ WellFormed(log) /\ log \in Seq(Events) /\ LooksBack(log) /\ HidesPairs(log)
        /\ \A c \in Unanswered(log) : run.stage = "batch"
    BY <1>1 DEF IInv, WellFormed, Answered
  <2>2. ASSUME NEW r \in At(log, {"result"})
        PROVE  r \in Visible(log) <=> log[r].first \in Visible(log)
    <3>1. r \in At(log, Messages) /\ log[r].first \in At(log, Messages)
      BY <2>1 DEF LooksBack, At, Messages
    <3>2. r \in Occluded(log) <=> log[r].first \in Occluded(log)
      BY <2>1, HidesProps DEF HidesPairs
    <3> QED BY <3>1, <3>2 DEF Visible
  <2>3. ASSUME run.stage # "batch", NEW c \in At(log, {"calls"}) \cap Visible(log)
        PROVE  Quantify(At(log, {"result"}) \cap Visible(log), LAMBDA r : log[r].first = c) = 1
    <3>1. c \notin Occluded(log) /\ c \notin Unanswered(log)
      BY <2>1, <2>3 DEF Visible
    <3>2. PICK r \in At(log, {"result"}) : log[r].first = c
      BY <2>3, <3>1 DEF Unanswered
    <3>3. r \in Visible(log)
      BY <2>2, <2>3, <3>2
    <3> DEFINE S == {q \in At(log, {"result"}) \cap Visible(log) : log[q].first = c}
    <3>4. S = {r}
      BY <2>1, <3>2, <3>3 DEF LooksBack
    <3>5. Cardinality(S) = 1
      BY <3>4, FS_Singleton
    <3> QED BY <3>5 DEF Quantify
  <2> QED BY <2>2, <2>3 DEF PairsComplete
<1> QED BY <1>1, CompactionAccount, PTL

(* The summary of the last compaction is in front of the model.            *)
THEOREM NothingEverForgotten == Spec => []NothingForgotten
<1>1. ASSUME IInv PROVE NothingForgotten
  <2> DEFINE S == At(log, {"surface"})
             n == Len(log)
             last == Highest(S)
  <2>1. WellFormed(log) /\ log \in Seq(Events) /\ KeepsSummaries(log)
    BY <1>1 DEF IInv, WellFormed
  <2>2. n \in Nat /\ S \subseteq 1..n
    BY <2>1, AtProps
  <2> SUFFICES ASSUME last # 0 PROVE last - 1 \in Visible(log)
    BY DEF NothingForgotten
  <2>3. last \in S /\ \A i \in S : i <= last
    <3> HIDE DEF S, n
    <3> QED BY <2>2, HighestProps
  <2>4. last \in 1..n
    BY <2>2, <2>3
  <2> HIDE DEF last
  <2>5. /\ last > 1 /\ log[last - 1].type = "summary"
        /\ \A k \in At(log, Carriers) : last - 1 \in Hides(log, k) => log[k].type = "surface" /\ last < k
    BY <2>1, <2>3 DEF KeepsSummaries
  <2>6. last - 1 \in 1..n
    BY <2>2, <2>4, <2>5
  <2>7. last - 1 \in At(log, Messages)
    BY <2>1, <2>5, <2>6 DEF At, Messages
  <2>8. ASSUME NEW k \in At(log, Carriers), last - 1 \in Hides(log, k) PROVE FALSE
    <3>1. k \in S /\ last < k
      BY <2>5, <2>8 DEF At
    <3>2. k <= last
      BY <2>3, <3>1
    <3>3. k \in Nat /\ last \in Nat
      BY <2>2, <2>4, <3>1
    <3> QED BY <3>1, <3>2, <3>3
  <2>9. last - 1 \notin Occluded(log)
    BY <2>1, <2>8, HidesProps
  <2> QED BY <2>7, <2>9 DEF Visible
<1> QED BY <1>1, CompactionAccount, PTL

(* A run goes on after an overflow only when a compaction has hidden       *)
(* something behind its error.                                             *)
THEOREM OverflowAlwaysShrinks == Spec => OverflowShrinks
<1> DEFINE A == run.stage = "overflow" /\ run'.stage = "ready"
                => \E i \in At(log', {"surface"}) : i > Highest(At(log, {"error"}))
<1>1. ASSUME IInv, Next, run.stage = "overflow", run'.stage = "ready"
      PROVE  \E i \in At(log', {"surface"}) : i > Highest(At(log, {"error"}))
  <2>1. /\ WellFormed(log) /\ log \in Seq(Events) /\ Len(log) \in Nat
        /\ chain \in Seq(Tasks) /\ EndsAfterError
    BY <1>1 DEF IInv, WellFormed, TypeOK
  <2>2. At(log, {"error"}) \subseteq 1..Len(log)
    BY <2>1, AtProps
  <2>3. /\ Highest(At(log, {"error"})) \in Nat
        /\ Highest(At(log, {"error"})) # 0 => Highest(At(log, {"error"})) \in At(log, {"error"})
    <3> DEFINE S == At(log, {"error"})
    <3>1. S \subseteq 1..Len(log)
      BY <2>2
    <3> HIDE DEF S
    <3>2. Highest(S) \in Nat /\ (Highest(S) # 0 => Highest(S) \in S)
      BY <2>1, <3>1, HighestProps
    <3> QED BY <3>2 DEF S
  <2>4. ~RunStep
    BY <1>1 DEF RunStep, StartRun, Busy, Request, Calls, BatchDone, Reply, FollowUp, Error, Fail,
                OccludeFails, Retry, Wake, AbortInSleep, Overflow
  <2>5. run' # run /\ run' # NoRun
    BY <1>1 DEF NoRun
  <2>6. ~CompactNow /\ ~CompactLater /\ ~CooldownOver /\ ~Reopen /\ ~Begin
    BY <2>5 DEF CompactNow, CompactLater, CooldownOver, Reopen, Begin, runVars
  <2>7. BeginNothing \/ Completed \/ Refused \/ ClosedWithout
    BY <1>1, <2>4, <2>6 DEF Next, ChainStep
  <2>8. ASSUME NEW compacted \in BOOLEAN, NEW changed \in BOOLEAN, Finish(compacted, changed),
               chain # <<>>
        PROVE  compacted /\ Task1.kind = "overflow"
    <3>1. run' # NoRun
      BY <2>5
    <3>2. \E i \in DOMAIN chain : chain[i] = Task1
      BY <2>1, <2>8, TailTask DEF Task1
    <3>3. CASE Task1.kind # "overflow" /\ Leaves(changed)
      <4>1. run'.stage = run.stage
        BY <1>1, <3>3 DEF Leaves, IInv, TypeOK, Runs
      <4> QED BY <1>1, <4>1
    <3> QED BY <2>8, <3>1, <3>3 DEF Finish
  <2>9. CASE BeginNothing
    <3>1. chain # <<>> /\ log' = log
      BY <2>9 DEF BeginNothing, Waits
    <3>2. AlreadyCompacted /\ Finish(TRUE, FALSE)
      BY <2>8, <2>9, <3>1 DEF BeginNothing
    <3>3. LastEnd # Task1.anchor /\ Task1.kind = "overflow"
      BY <3>2 DEF AlreadyCompacted
    <3>4. PICK j \in DOMAIN chain : chain[j] = Task1
      BY <2>1, <3>1, TailTask DEF Task1
    <3>5. /\ Task1.anchor \in At(log, {"end"}) \cup {0}
          /\ \A x \in At(log, {"end"}) : x > Task1.anchor =>
               /\ x - 1 \in At(log, {"surface"})
               /\ \A e \in At(log, {"error"}) : e < x - 1
      BY <2>1, <3>3, <3>4 DEF EndsAfterError
    <3>6. /\ LastEnd \in Nat /\ (LastEnd # 0 => LastEnd \in At(log, {"end"}))
          /\ \A x \in At(log, {"end"}) : x <= LastEnd /\ x \in Nat
      <4> DEFINE S == At(log, {"end"})
      <4>1. S \subseteq 1..Len(log)
        BY <2>1, AtProps
      <4>2. \A x \in S : x \in Nat
        BY <4>1
      <4> HIDE DEF S
      <4>3. Highest(S) \in Nat /\ (Highest(S) # 0 => Highest(S) \in S) /\ \A x \in S : x <= Highest(S)
        BY <2>1, <4>1, HighestProps
      <4> QED BY <4>2, <4>3 DEF S, LastEnd
    <3>7. LastEnd > Task1.anchor /\ LastEnd \in At(log, {"end"})
      BY <3>3, <3>5, <3>6
    <3>8. LastEnd - 1 \in At(log, {"surface"}) /\ \A e \in At(log, {"error"}) : e < LastEnd - 1
      BY <3>5, <3>7
    <3>9. LastEnd - 1 \in Nat /\ LastEnd - 1 >= 1
      BY <2>1, <3>8, AtProps
    <3>10. LastEnd - 1 > Highest(At(log, {"error"}))
      BY <2>3, <3>8, <3>9
    <3> QED BY <3>1, <3>8, <3>10
  <2>10. CASE Completed
    <3> DEFINE range == Task1.plan
               n == Len(log)
    <3>1. /\ chain # <<>> /\ AcceptsSurface(log, range)
          /\ Joins(log', log, <<Event("start"), Event("summary"), Carrier("surface", range), Event("end")>>)
      BY <2>10 DEF Completed, Summarizes, Add, Joins
    <3>2. Task1 \in Tasks
      BY <2>1, <3>1, TailTask DEF Task1
    <3>3. range.first \in Nat /\ range.last \in Nat
      BY <3>2 DEF Tasks
    <3>4. n + 3 \in At(log', {"surface"})
      <4> DEFINE l == log
                 m == log'
      <4>1. /\ WellFormed(l) /\ range.first \in Nat /\ range.last \in Nat /\ AcceptsSurface(l, range)
            /\ Joins(m, l, <<Event("start"), Event("summary"), Carrier("surface", range), Event("end")>>)
        BY <2>1, <3>1, <3>3
      <4> HIDE DEF l, m, range
      <4>2. \A T : At(m, T) = At(l, T) \cup (IF "start" \in T THEN {Len(l) + 1} ELSE {})
                                       \cup (IF "summary" \in T THEN {Len(l) + 2} ELSE {})
                                       \cup (IF "surface" \in T THEN {Len(l) + 3} ELSE {})
                                       \cup (IF "end" \in T THEN {Len(l) + 4} ELSE {})
        BY ONLY <4>1, SurfaceStep
      <4>3. Len(l) + 3 \in At(m, {"surface"})
        BY <4>2
      <4> QED BY <4>3 DEF l, m
    <3>5. Highest(At(log, {"error"})) <= n
      BY <2>1, <2>2, <2>3
    <3>6. n + 3 > Highest(At(log, {"error"}))
      BY <2>1, <2>3, <3>5
    <3> QED BY <3>4, <3>6
  <2>11. CASE Refused
    <3>1. chain # <<>> /\ Finish(FALSE, TRUE)
      BY <2>11 DEF Refused, Summarizes
    <3> QED BY <2>8, <3>1
  <2>12. CASE ClosedWithout
    <3>1. chain # <<>> /\ Finish(FALSE, FALSE)
      BY <2>12 DEF ClosedWithout, Summarizes
    <3> QED BY <2>8, <3>1
  <2> QED BY <2>7, <2>9, <2>10, <2>11, <2>12
<1>2. IInv /\ [Next]_vars => [A]_vars
  BY <1>1
<1>3. Spec => [][A]_vars
  BY <1>2, CompactionAccount, PTL DEF Spec
<1> QED BY <1>3 DEF OverflowShrinks
-----------------------------------------------------------------------------
(* Plans stay legal.  First what choosing an interval gives.               *)

(* Positions in the order of the log grow. *)
LEMMA InOrderGrows ==
  ASSUME NEW S, \A s \in S : s \in Nat, NEW n \in Nat, \A s \in S : s <= n,
         NEW i \in 1..Cardinality(S), NEW j \in 1..Cardinality(S), i < j
  PROVE  InOrder(S)[i] < InOrder(S)[j]
<1> DEFINE x == InOrder(S)[i]
           y == InOrder(S)[j]
<1>1. IsFiniteSet(S) /\ x \in S /\ y \in S
  BY InOrderProps
<1>2. Cardinality(Below(S, x)) = i - 1 /\ Cardinality(Below(S, y)) = j - 1
  BY InOrderProps
<1>3. i \in Int /\ j \in Int
  <2>1. Cardinality(S) \in Nat
    BY InOrderProps
  <2> QED BY <2>1
<1>4. x \in Nat /\ y \in Nat
  BY <1>1
<1> HIDE DEF x, y
<1>5. x # y
  BY <1>2, <1>3
<1>6. ~(y < x)
  <2> SUFFICES ASSUME y < x PROVE FALSE
    OBVIOUS
  <2>1. Cardinality(Below(S, y)) < Cardinality(Below(S, x))
    BY <1>1, RanksGrow
  <2>2. j - 1 < i - 1
    BY <1>2, <2>1
  <2> QED BY <1>3, <2>2
<1>7. x < y
  BY <1>4, <1>5, <1>6
<1> QED BY <1>7 DEF x, y

(* Where the next compaction begins: the first position from some place on *)
(* that is free.                                                           *)
From(l) ==
  LET hidden == {l[i].last : i \in At(l, {"surface"})}
  IN  IF hidden # {} THEN Max(hidden) ELSE Min(At(l, {"turn/end"}))

Taken(l) == Occluded(l) \cup At(l, Carriers)

LEMMA FromProps ==
  ASSUME NEW l, WellFormed(l), At(l, {"turn/end"}) # {}
  PROVE  From(l) \in Nat
<1> DEFINE hidden == {l[i].last : i \in At(l, {"surface"})}
           ends == At(l, {"turn/end"})
<1>1. l \in Seq(Events) /\ Len(l) \in Nat
  BY DEF WellFormed
<1>2. hidden \subseteq 0..Len(l)
  <2> SUFFICES ASSUME NEW i \in At(l, {"surface"}) PROVE l[i].last \in 0..Len(l)
    OBVIOUS
  <2>1. i \in At(l, Carriers)
    BY DEF At, Carriers
  <2>2. l[i].last \in Nat /\ l[i].last < i /\ i <= Len(l) /\ i \in Nat
    BY <1>1, <2>1, HidesProps, AtProps
  <2> QED BY <1>1, <2>2
<1>3. ends \subseteq Nat
  <2>1. ends \subseteq 1..Len(l)
    BY <1>1, AtProps
  <2> QED BY <1>1, <2>1
<1>4. From(l) = IF hidden # {} THEN Max(hidden) ELSE Min(ends)
  BY DEF From
<1> HIDE DEF hidden
<1>5. hidden # {} => Max(hidden) \in Nat
  <2> SUFFICES ASSUME hidden # {} PROVE Max(hidden) \in Nat
    OBVIOUS
  <2>1. Max(hidden) \in hidden
    BY <1>1, <1>2, MaxIsMost
  <2>2. \A y \in hidden : y \in Nat
    BY <1>1, <1>2
  <2> QED BY <2>1, <2>2
<1>6. Min(ends) \in Nat
  <2> HIDE DEF ends
  <2>1. ends # {}
    BY DEF ends
  <2>2. Min(ends) \in ends
    BY <1>3, <2>1, MinIsLeast
  <2> QED BY <1>3, <2>2
<1> QED BY <1>4, <1>5, <1>6

(* It is behind that place and free, and the first so. *)
LEMMA FirstProps ==
  ASSUME NEW l, WellFormed(l), At(l, {"turn/end"}) # {}
  PROVE  /\ PlanFirst(l) \in Nat /\ PlanFirst(l) >= 1 /\ PlanFirst(l) <= Len(l) + 1
         /\ PlanFirst(l) <= Len(l) => PlanFirst(l) > From(l) /\ PlanFirst(l) \notin Taken(l)
         /\ \A i \in 1..Len(l) : i > From(l) /\ i < PlanFirst(l) => i \in Taken(l)
<1> DEFINE free == {i \in DOMAIN l : i > From(l)} \ Taken(l)
           f == PlanFirst(l)
<1>1. l \in Seq(Events) /\ Len(l) \in Nat /\ DOMAIN l = 1..Len(l)
  BY DEF WellFormed
<1>2. f = IF free = {} THEN Len(l) + 1 ELSE Min(free)
  BY DEF PlanFirst, From, Taken
<1>3. free \subseteq 1..Len(l) /\ free \subseteq Nat
  BY <1>1
<1>4. ASSUME free # {} PROVE Min(free) \in free /\ \A y \in free : Min(free) <= y
  <2> HIDE DEF free
  <2> QED BY <1>3, <1>4, MinIsLeast
<1>5. CASE free = {}
  <2>1. f = Len(l) + 1
    BY <1>2, <1>5
  <2>2. \A i \in 1..Len(l) : i > From(l) => i \in Taken(l)
    BY <1>1, <1>5
  <2>3. f \in Nat /\ f >= 1 /\ f <= Len(l) + 1 /\ ~(f <= Len(l))
    BY <1>1, <2>1
  <2> QED BY <2>2, <2>3
<1>6. CASE free # {}
  <2>1. f = Min(free)
    BY <1>2, <1>6
  <2>2. f \in free /\ \A y \in free : f <= y
    BY <1>4, <1>6, <2>1
  <2>3. f \in 1..Len(l)
    BY <1>3, <2>2
  <2>4. ASSUME NEW i \in 1..Len(l), i > From(l), i < f PROVE i \in Taken(l)
    <3>1. f \in Int /\ i \in Int
      BY <2>3
    <3>2. ~(f <= i)
      BY <2>4, <3>1
    <3>3. i \notin free
      BY <2>2, <3>2
    <3> QED BY <1>1, <2>4, <3>3
  <2>5. f > From(l) /\ f \notin Taken(l)
    BY <2>2
  <2>6. f \in Nat /\ f >= 1 /\ f <= Len(l) + 1
    BY <1>1, <2>3
  <2> HIDE DEF free, f
  <2> QED BY <2>4, <2>5, <2>6 DEF f
<1> QED BY <1>5, <1>6

(* Any such position is the one. *)
LEMMA FirstIs ==
  ASSUME NEW l, WellFormed(l), At(l, {"turn/end"}) # {}, NEW f \in 1..Len(l),
         f > From(l), f \notin Taken(l),
         \A i \in 1..Len(l) : i > From(l) /\ i < f => i \in Taken(l)
  PROVE  PlanFirst(l) = f
<1> DEFINE g == PlanFirst(l)
<1>1. /\ g \in Nat /\ g >= 1 /\ g <= Len(l) + 1
      /\ g <= Len(l) => g > From(l) /\ g \notin Taken(l)
      /\ \A i \in 1..Len(l) : i > From(l) /\ i < g => i \in Taken(l)
  BY FirstProps
<1>2. Len(l) \in Nat
  BY DEF WellFormed
<1> HIDE DEF g
<1>3. ~(f < g)
  BY <1>1
<1>4. ~(g < f)
  <2> SUFFICES ASSUME g < f PROVE FALSE
    OBVIOUS
  <2>1. g \in 1..Len(l)
    BY <1>1, <1>2
  <2>2. g <= Len(l)
    BY <2>1
  <2> QED BY <1>1, <2>1, <2>2
<1>5. g = f
  BY <1>1, <1>2, <1>3, <1>4
<1> QED BY <1>5 DEF g

(* The interval that is chosen: it starts there, takes whole turns, stays  *)
(* in front of the last messages and of every carrier behind its start,    *)
(* and stops for no other reason.                                          *)
LEMMA PlanShape ==
  ASSUME NEW l, WellFormed(l), NEW keep \in Nat \ {0}, NEW p, p = PlanSegment(l, keep), p # NoInterval
  PROVE  /\ At(l, {"turn/end"}) # {}
         /\ p.first = PlanFirst(l) /\ p.first \in Nat /\ p.last \in Nat
         /\ 1 <= p.first /\ p.first <= p.last
         /\ p.last <= Max(At(l, {"turn/end"}))
         /\ \A k \in At(l, Carriers) : k > p.first => p.last < k
         /\ Len(Projection(l)) = Cardinality(Visible(l)) /\ Cardinality(Visible(l)) \in Nat
         /\ Cardinality(Visible(l)) >= keep + 2
         /\ p.last < Projection(l)[Cardinality(Visible(l)) - keep + 1]
         /\ \/ p.last = Max(At(l, {"turn/end"}))
            \/ p.last = Projection(l)[Cardinality(Visible(l)) - keep + 1] - 1
            \/ \E k \in At(l, Carriers) : k > p.first \/ l[k].first > p.first
<1> DEFINE n == Len(l)
           ends == At(l, {"turn/end"})
           V == Visible(l)
           shown == Projection(l)
           first == PlanFirst(l)
           last == PlanLast(l, first, keep)
           behind == Len(shown) - keep + 1
<1>1. /\ l \in Seq(Events) /\ n \in Nat /\ DOMAIN l = 1..n /\ ends \subseteq 1..n
      /\ \A i \in At(l, Carriers) : i \in Nat /\ l[i].first \in Nat
  <2>1. l \in Seq(Events)
    BY DEF WellFormed
  <2> QED BY <2>1, AtProps, HidesProps
<1>2. /\ ~(ends = {} \/ Cardinality(V) < keep + 2)
      /\ V \cap (first .. last) # {}
      /\ p = Interval(first, last)
  BY DEF PlanSegment
<1>3. /\ Len(shown) = Cardinality(V) /\ Cardinality(V) \in Nat
      /\ \A k \in 1..Cardinality(V) : shown[k] \in V
  <2>1. n \in Nat /\ \A v \in V : v \in Nat /\ v <= n
    BY <1>1, VisibleProps
  <2> HIDE DEF V, n
  <2> QED BY <2>1, InOrderProps DEF Projection, V
<1>4. first \in Nat /\ first >= 1
  BY <1>2, FirstProps
<1>5. Max(ends) \in ends
  <2>1. ends \subseteq 0..n
    BY <1>1
  <2> HIDE DEF ends
  <2> QED BY <1>1, <1>2, <2>1, MaxIsMost
<1>6. Cardinality(V) >= keep + 2 /\ behind \in 1..Cardinality(V)
  BY <1>2, <1>3
<1>7. shown[behind] \in 1..n
  <2>1. V \subseteq 1..n
    BY <1>1, VisibleProps
  <2> QED BY <1>3, <1>6, <2>1
<1> DEFINE above == {i \in At(l, Carriers) : i > first}
                    \cup {l[i].first : i \in {j \in At(l, Carriers) : l[j].first > first}}
           U == {i - 1 : i \in above}
           T == {Max(ends), shown[behind] - 1} \cup U
<1>8. last = Min(T)
  BY DEF PlanLast
<1>9. \A i \in above : i \in Nat /\ i > first
  BY <1>1
<1>10. \A i \in above : i - 1 \in U /\ i - 1 \in Nat
  <2> SUFFICES ASSUME NEW i \in above PROVE i - 1 \in U /\ i - 1 \in Nat
    OBVIOUS
  <2>1. i \in Nat /\ i > first
    BY <1>9
  <2> QED BY <1>4, <2>1
<1>11. U \subseteq Nat
  <2> HIDE DEF above
  <2> QED BY <1>10
<1>12. Max(ends) \in Nat /\ Max(ends) <= n
  BY <1>1, <1>5
<1>13. shown[behind] - 1 \in Nat
  BY <1>1, <1>7
<1>14. T \subseteq Nat /\ T # {}
  <2> HIDE DEF U
  <2> QED BY <1>11, <1>12, <1>13
<1>15. last \in T /\ \A y \in T : last <= y
  <2> HIDE DEF T
  <2> QED BY <1>8, <1>14, MinIsLeast
<1>16. last \in Nat
  <2> HIDE DEF T
  <2> QED BY <1>14, <1>15
<1>17. last <= Max(ends) /\ last <= shown[behind] - 1 /\ \A y \in U : last <= y
  <2>1. Max(ends) \in T /\ shown[behind] - 1 \in T /\ \A y \in U : y \in T
    OBVIOUS
  <2> HIDE DEF T
  <2> QED BY <1>15, <2>1
<1>18. first <= last
  <2> HIDE DEF first, last
  <2> QED BY <1>2, <1>4, <1>16
<1>19. ASSUME NEW k \in At(l, Carriers), k > first PROVE last < k
  <2>1. k \in above
    BY <1>19
  <2>2. k - 1 \in U /\ k \in Nat
    BY <1>1, <1>10, <2>1
  <2>3. last <= k - 1
    BY <1>17, <2>2
  <2> QED BY <1>16, <2>2, <2>3
<1>20. \/ last = Max(ends)
       \/ last = shown[behind] - 1
       \/ \E k \in At(l, Carriers) : k > first \/ l[k].first > first
  <2>1. CASE last \in U
    <3>1. above # {}
      BY <2>1
    <3> QED BY <3>1
  <2>2. CASE last \notin U
    BY <1>15, <2>2
  <2> QED BY <2>1, <2>2
<1>21. last < shown[behind]
  <2>1. shown[behind] \in Int
    BY <1>7
  <2> HIDE DEF last, shown, behind
  <2> QED BY <1>16, <1>17, <2>1
<1>22. p.first = first /\ p.last = last
  BY <1>2 DEF Interval
<1>23. behind = Cardinality(V) - keep + 1
  BY <1>3
<1> HIDE DEF first, last, shown, V, ends, behind
<1> QED BY <1>2, <1>3, <1>4, <1>6, <1>16, <1>17, <1>18, <1>19, <1>20, <1>21, <1>22, <1>23
      DEF first, shown, V, ends
-----------------------------------------------------------------------------
(* A log grows: what it has stays where it is, and New is the rest.        *)
Grows(m, l) ==
  /\ WellFormed(l) /\ WellFormed(m) /\ Len(l) <= Len(m)
  /\ \A i \in 1..Len(l) : m[i] = l[i]

New(m, l, types) == {i \in At(m, types) : i > Len(l)}

LEMMA GrowsProps ==
  ASSUME NEW l, NEW m, Grows(m, l)
  PROVE  /\ l \in Seq(Events) /\ m \in Seq(Events) /\ Len(l) \in Nat /\ Len(m) \in Nat
         /\ \A T : \A i : i \in At(m, T) <=> i \in At(l, T) \/ i \in New(m, l, T)
         /\ \A T : \A i \in At(l, T) : m[i] = l[i] /\ i \in 1..Len(l) /\ i \in At(m, T)
         /\ \A T : \A i \in New(m, l, T) : i > Len(l) /\ i \in 1..Len(m) /\ m[i].type \in T
<1>1. l \in Seq(Events) /\ m \in Seq(Events) /\ Len(l) \in Nat /\ Len(m) \in Nat
  BY DEF Grows, WellFormed
<1>2. DOMAIN l = 1..Len(l) /\ DOMAIN m = 1..Len(m) /\ \A i \in 1..Len(l) : i \in 1..Len(m)
  BY <1>1 DEF Grows
<1>3. ASSUME NEW T, NEW i \in At(l, T) PROVE m[i] = l[i] /\ i \in 1..Len(l) /\ i \in At(m, T)
  BY <1>2 DEF At, Grows
<1>4. ASSUME NEW T, NEW i \in New(m, l, T) PROVE i > Len(l) /\ i \in 1..Len(m) /\ m[i].type \in T
  BY <1>2 DEF At, New
<1>5. ASSUME NEW T, NEW i \in At(m, T), i \notin New(m, l, T) PROVE i \in At(l, T)
  <2>1. i \in 1..Len(m) /\ ~(i > Len(l)) /\ m[i].type \in T
    BY <1>2, <1>5 DEF At, New
  <2>2. i \in 1..Len(l)
    BY <1>1, <2>1
  <2> QED BY <1>2, <2>1, <2>2 DEF At, Grows
<1>6. \A T : \A i : i \in At(m, T) <=> i \in At(l, T) \/ i \in New(m, l, T)
  BY <1>3, <1>5 DEF New
<1> QED BY <1>1, <1>3, <1>4, <1>6

(* The log stays as it is. *)
LEMMA GrowsByNone ==
  ASSUME NEW l, WellFormed(l)
  PROVE  Grows(l, l) /\ \A T : New(l, l, T) = {}
<1>1. l \in Seq(Events) /\ Len(l) \in Nat
  BY DEF WellFormed
<1>2. Grows(l, l)
  BY <1>1 DEF Grows
<1>3. ASSUME NEW T, NEW i \in New(l, l, T) PROVE FALSE
  <2>1. i > Len(l) /\ i \in 1..Len(l)
    BY <1>2, GrowsProps
  <2> QED BY <1>1, <2>1
<1> QED BY <1>2, <1>3

(* Events are appended. *)
LEMMA GrowsByAppending ==
  ASSUME NEW l, WellFormed(l), NEW e \in Seq(Events), NEW m, WellFormed(m), Joins(m, l, e)
  PROVE  /\ Grows(m, l) /\ Len(m) = Len(l) + Len(e)
         /\ \A T : \A i \in New(m, l, T) :
              i - Len(l) \in 1..Len(e) /\ m[i] = e[i - Len(l)] /\ e[i - Len(l)].type \in T
         /\ \A j \in 1..Len(e) : m[Len(l) + j] = e[j]
<1>1. l \in Seq(Events) /\ Len(l) \in Nat /\ Len(e) \in Nat
  BY DEF WellFormed
<1>2. /\ Len(m) = Len(l) + Len(e)
      /\ \A i \in 1..Len(l) : m[i] = l[i]
      /\ \A i \in 1..Len(e) : m[Len(l) + i] = e[i]
      /\ \A p \in 1..Len(m) : p \in 1..Len(l) \/ (p > Len(l) /\ p - Len(l) \in 1..Len(e)
                                                   /\ m[p] = e[p - Len(l)])
  BY <1>1, Appended
<1>3. Grows(m, l)
  BY <1>1, <1>2 DEF Grows
<1>4. ASSUME NEW T, NEW i \in New(m, l, T)
      PROVE  i - Len(l) \in 1..Len(e) /\ m[i] = e[i - Len(l)] /\ e[i - Len(l)].type \in T
  <2>1. i > Len(l) /\ i \in 1..Len(m) /\ m[i].type \in T
    BY <1>3, GrowsProps
  <2>2. i \notin 1..Len(l)
    BY <1>1, <2>1
  <2> QED BY <1>2, <2>1, <2>2
<1> QED BY <1>2, <1>3, <1>4

(* Of what is hidden, more. *)
LEMMA OccludedGrows ==
  ASSUME NEW l, NEW m, Grows(m, l), NEW p
  PROVE  p \in Occluded(m) <=> p \in Occluded(l) \/ \E k \in New(m, l, Carriers) : p \in Hides(m, k)
<1>1. /\ p \in Occluded(l) <=> \E k \in At(l, Carriers) : p \in Hides(l, k)
      /\ p \in Occluded(m) <=> \E k \in At(m, Carriers) : p \in Hides(m, k)
  BY HidesProps DEF Grows
<1>2. \A k : k \in At(m, Carriers) <=> k \in At(l, Carriers) \/ k \in New(m, l, Carriers)
  BY GrowsProps
<1>3. \A k \in At(l, Carriers) : Hides(m, k) = Hides(l, k)
  BY GrowsProps DEF Hides
<1> QED BY <1>1, <1>2, <1>3

(* The place where the next compaction begins stays, while none reaches    *)
(* the log and nothing new hides it.                                       *)
LEMMA FirstStays ==
  ASSUME NEW l, NEW m, Grows(m, l), At(l, {"turn/end"}) # {}, PlanFirst(l) <= Len(l),
         New(m, l, {"surface"}) = {},
         \A k \in New(m, l, Carriers) : PlanFirst(l) \notin Hides(m, k)
  PROVE  PlanFirst(m) = PlanFirst(l)
<1> DEFINE f == PlanFirst(l)
<1>1. /\ f \in Nat /\ f >= 1 /\ f > From(l) /\ f \notin Taken(l)
      /\ \A i \in 1..Len(l) : i > From(l) /\ i < f => i \in Taken(l)
  BY FirstProps DEF Grows
<1>2. /\ Len(l) \in Nat /\ Len(m) \in Nat /\ Len(l) <= Len(m) /\ WellFormed(m) /\ f <= Len(l)
  BY GrowsProps DEF Grows
<1>3. At(m, {"turn/end"}) # {}
  BY GrowsProps
<1>4. From(l) \in Nat
  BY FromProps DEF Grows
<1>5. \A p : p \in Taken(l) => p \in Taken(m)
  BY OccludedGrows, GrowsProps DEF Taken
<1>6. f \notin Taken(m)
  <2>1. f \notin Occluded(m)
    BY <1>1, OccludedGrows DEF Taken
  <2>2. f \notin New(m, l, Carriers)
    <3> SUFFICES ASSUME f \in New(m, l, Carriers) PROVE FALSE
      OBVIOUS
    <3>1. f > Len(l)
      BY GrowsProps
    <3> QED BY <1>1, <1>2, <3>1
  <2>3. f \notin At(m, Carriers)
    BY <1>1, <2>2, GrowsProps DEF Taken
  <2> QED BY <2>1, <2>3 DEF Taken
<1>7. From(m) = From(l)
  <2> DEFINE hl == {l[i].last : i \in At(l, {"surface"})}
             hm == {m[i].last : i \in At(m, {"surface"})}
             el == At(l, {"turn/end"})
             em == At(m, {"turn/end"})
  <2>1. hm = hl
    <3>1. \A i : i \in At(m, {"surface"}) <=> i \in At(l, {"surface"}) \/ i \in New(m, l, {"surface"})
      BY GrowsProps
    <3>2. At(m, {"surface"}) = At(l, {"surface"})
      BY <3>1
    <3>3. \A i \in At(l, {"surface"}) : m[i] = l[i]
      BY GrowsProps
    <3> QED BY <3>2, <3>3
  <2>2. Min(em) = Min(el)
    <3>1. el \subseteq Nat /\ em \subseteq Nat /\ el # {} /\ em # {}
      <4>1. el \subseteq 1..Len(l) /\ em \subseteq 1..Len(m)
        BY GrowsProps, AtProps
      <4> QED BY <1>2, <1>3, <4>1
    <3>2. \A i \in em : i \in el \/ i > Len(l)
      BY GrowsProps
    <3>3. \A i \in el : i \in em /\ i <= Len(l)
      <4>1. \A i \in el : i \in em /\ i \in 1..Len(l)
        BY GrowsProps
      <4> QED BY <1>2, <4>1
    <3> HIDE DEF el, em
    <3>4. /\ Min(el) \in el /\ \A y \in el : Min(el) <= y
          /\ Min(em) \in em /\ \A y \in em : Min(em) <= y
      BY <3>1, MinIsLeast
    <3>5. Min(em) <= Min(el) /\ Min(el) <= Len(l) /\ Min(em) \in Nat /\ Min(el) \in Nat
      BY <3>1, <3>3, <3>4
    <3>6. Min(em) \in el
      BY <1>2, <3>2, <3>4, <3>5
    <3> QED BY <3>4, <3>5, <3>6
  <2> QED BY <2>1, <2>2 DEF From
<1>8. ASSUME NEW i \in 1..Len(m), i > From(m), i < f PROVE i \in Taken(m)
  <2>1. i \in 1..Len(l)
    BY <1>1, <1>2, <1>8
  <2> QED BY <1>1, <1>5, <1>7, <1>8, <2>1
<1>9. f \in 1..Len(m) /\ f > From(m)
  BY <1>1, <1>2, <1>7
<1> HIDE DEF f
<1>10. PlanFirst(m) = f
  BY <1>2, <1>3, <1>6, <1>8, <1>9, FirstIs
<1> QED BY <1>10 DEF f

(* Turns still hold their calls when no turn ends, or one ends with every  *)
(* call answered.                                                          *)
LEMMA TurnsStill ==
  ASSUME NEW l, NEW m, Grows(m, l), TurnsHoldCalls(l),
         \A k \in New(m, l, Carriers) : m[k].first <= m[k].last,
         \/ New(m, l, {"turn/end"}) = {}
         \/ New(m, l, {"calls"}) = {} /\ Unanswered(l) = {}
  PROVE  TurnsHoldCalls(m)
<1>1. /\ Len(l) \in Nat
      /\ \A T : \A i : i \in At(m, T) <=> i \in At(l, T) \/ i \in New(m, l, T)
      /\ \A T : \A i \in At(l, T) : m[i] = l[i] /\ i \in Nat /\ i <= Len(l)
      /\ \A T : \A i \in New(m, l, T) : i \in Nat /\ i > Len(l)
  BY GrowsProps
<1>2. \A k \in At(m, Carriers) : m[k].first <= m[k].last
  BY <1>1 DEF TurnsHoldCalls
<1>3. ASSUME NEW c \in At(l, {"calls"}), NEW t \in At(m, {"turn/end"}), c < t,
             \/ \E r \in At(l, {"result"}) : r < t /\ l[r].first = c
             \/ \E k \in At(l, Carriers) : k < t /\ c \in Hides(l, k)
      PROVE  \/ \E r \in At(m, {"result"}) : r < t /\ m[r].first = c
             \/ \E k \in At(m, Carriers) : k < t /\ c \in Hides(m, k)
  <2>1. \A k \in At(l, Carriers) : Hides(m, k) = Hides(l, k)
    BY <1>1 DEF Hides
  <2> QED BY <1>1, <1>3, <2>1
<1>4. ASSUME NEW c \in At(m, {"calls"}), NEW t \in At(m, {"turn/end"}), c < t
      PROVE  \/ \E r \in At(m, {"result"}) : r < t /\ m[r].first = c
             \/ \E k \in At(m, Carriers) : k < t /\ c \in Hides(m, k)
  <2>1. CASE t \in At(l, {"turn/end"})
    <3>1. c \in At(l, {"calls"})
      BY <1>1, <1>4, <2>1
    <3> QED BY <1>3, <1>4, <2>1, <3>1 DEF TurnsHoldCalls
  <2>2. CASE t \in New(m, l, {"turn/end"})
    <3>1. c \in At(l, {"calls"}) /\ Unanswered(l) = {}
      BY <1>1, <1>4, <2>2
    <3>2. \/ c \in Occluded(l)
          \/ \E r \in At(l, {"result"}) : l[r].first = c
      BY <3>1 DEF Unanswered
    <3>3. \/ \E k \in At(l, Carriers) : c \in Hides(l, k)
          \/ \E r \in At(l, {"result"}) : l[r].first = c
      BY <3>2, HidesProps DEF Grows
    <3>4. \A T : \A i \in At(l, T) : i < t
      BY <1>1, <2>2
    <3> QED BY <1>3, <1>4, <3>1, <3>3, <3>4
  <2> QED BY <1>1, <1>4, <2>1, <2>2
<1> QED BY <1>2, <1>4 DEF TurnsHoldCalls

(* An interval stays legal when nothing new hides in it or answers a call  *)
(* in it.                                                                  *)
LEMMA AcceptsStays ==
  ASSUME NEW l, NEW m, Grows(m, l), NEW p, p.first \in Nat, p.last \in Nat, AcceptsSurface(l, p),
         \A k \in New(m, l, Carriers) : \A x \in p.first .. p.last : x \notin Hides(m, k),
         \A r \in New(m, l, {"result"}) : m[r].first \notin p.first .. p.last
  PROVE  AcceptsSurface(m, p)
<1>1. /\ l \in Seq(Events) /\ m \in Seq(Events)
      /\ Len(l) \in Nat /\ Len(m) \in Nat /\ Len(l) <= Len(m)
      /\ \A T : \A i : i \in At(m, T) <=> i \in At(l, T) \/ i \in New(m, l, T)
      /\ \A T : \A i \in At(l, T) : m[i] = l[i] /\ i \in Nat /\ i <= Len(l)
      /\ \A T : \A i \in New(m, l, T) : i \in Nat /\ i > Len(l)
  BY GrowsProps DEF Grows
<1>2. /\ Untouched(l, p) /\ WholePairs(l, p, TRUE)
      /\ \/ p.first = 1
         \/ l[p.first].type = "turn/start"
         \/ l[p.first - 1].type = "turn/end"
         \/ \E i \in At(l, Carriers) : l[i].last = p.first - 1
  BY DEF AcceptsSurface
<1>3. 1 <= p.first /\ p.first <= p.last /\ p.last <= Len(l)
  BY <1>2 DEF Untouched
<1>4. Untouched(m, p)
  <2> SUFFICES ASSUME NEW x \in p.first .. p.last PROVE x \notin Occluded(m) /\ x \notin At(m, Carriers)
    BY <1>1, <1>3 DEF Untouched
  <2>1. x \notin Occluded(l) /\ x \notin At(l, Carriers)
    BY <1>2 DEF Untouched
  <2>2. x \notin Occluded(m)
    BY <2>1, OccludedGrows
  <2>3. x <= Len(l)
    BY <1>1, <1>3
  <2>4. x \notin New(m, l, Carriers)
    BY <1>1, <2>3
  <2> QED BY <1>1, <2>1, <2>2, <2>4
<1>5. WholePairs(m, p, TRUE)
  <2> SUFFICES ASSUME NEW r \in At(m, {"result"})
               PROVE  /\ r \in p.first .. p.last => m[r].first \in p.first .. p.last
                      /\ m[r].first \in p.first .. p.last => r \in p.first .. p.last
    BY DEF WholePairs
  <2>1. CASE r \in At(l, {"result"})
    BY <1>1, <1>2, <2>1 DEF WholePairs
  <2>2. CASE r \in New(m, l, {"result"})
    <3>1. m[r].first \notin p.first .. p.last
      BY <2>2
    <3>2. r \notin p.first .. p.last
      BY <1>1, <1>3, <2>2
    <3> QED BY <3>1, <3>2
  <2> QED BY <1>1, <2>1, <2>2
<1>6. \/ p.first = 1
      \/ m[p.first].type = "turn/start"
      \/ m[p.first - 1].type = "turn/end"
      \/ \E i \in At(m, Carriers) : m[i].last = p.first - 1
  <2>1. p.first \in 1..Len(l) /\ (p.first # 1 => p.first - 1 \in 1..Len(l))
    BY <1>1, <1>3
  <2>2. m[p.first] = l[p.first] /\ (p.first # 1 => m[p.first - 1] = l[p.first - 1])
    BY <2>1 DEF Grows
  <2>3. (\E i \in At(l, Carriers) : l[i].last = p.first - 1)
          => \E i \in At(m, Carriers) : m[i].last = p.first - 1
    BY <1>1
  <2> QED BY <1>2, <2>2, <2>3
<1> QED BY <1>4, <1>5, <1>6 DEF AcceptsSurface

(* It stays refused when nothing new hides or answers. *)
LEMMA RefusedStays ==
  ASSUME NEW l, NEW m, Grows(m, l), NEW p, p.first \in Nat, p.last \in Nat, p.last <= Len(l),
         New(m, l, Carriers) = {}, New(m, l, {"result"}) = {}, AcceptsSurface(m, p)
  PROVE  AcceptsSurface(l, p)
<1>1. /\ l \in Seq(Events) /\ m \in Seq(Events) /\ Len(l) \in Nat
      /\ \A i : i \in At(m, Carriers) <=> i \in At(l, Carriers)
      /\ \A r : r \in At(m, {"result"}) <=> r \in At(l, {"result"})
      /\ \A T : \A i \in At(l, T) : m[i] = l[i]
  BY GrowsProps
<1>2. /\ Untouched(m, p) /\ WholePairs(m, p, TRUE)
      /\ \/ p.first = 1
         \/ m[p.first].type = "turn/start"
         \/ m[p.first - 1].type = "turn/end"
         \/ \E i \in At(m, Carriers) : m[i].last = p.first - 1
  BY DEF AcceptsSurface
<1>3. 1 <= p.first /\ p.first <= p.last
  BY <1>2 DEF Untouched
<1>4. Untouched(l, p)
  <2>1. \A x \in p.first .. p.last : x \notin Occluded(m) /\ x \notin At(m, Carriers)
    BY <1>2 DEF Untouched
  <2>2. \A x \in p.first .. p.last : x \notin Occluded(l) /\ x \notin At(l, Carriers)
    BY <1>1, <2>1, OccludedGrows
  <2> QED BY <1>3, <2>2 DEF Untouched
<1>5. WholePairs(l, p, TRUE)
  BY <1>1, <1>2 DEF WholePairs
<1>6. p.first \in 1..Len(l) /\ (p.first # 1 => p.first - 1 \in 1..Len(l))
  BY <1>1, <1>3
<1>7. m[p.first] = l[p.first] /\ (p.first # 1 => m[p.first - 1] = l[p.first - 1])
  BY <1>6 DEF Grows
<1>8. (\E i \in At(m, Carriers) : m[i].last = p.first - 1)
        => \E i \in At(l, Carriers) : l[i].last = p.first - 1
  BY <1>1
<1> QED BY <1>2, <1>4, <1>5, <1>7, <1>8 DEF AcceptsSurface

(* What is refused, and leaves no result behind, is refused if it takes    *)
(* more.                                                                   *)
LEMMA WiderIsRefused ==
  ASSUME NEW l, WellFormed(l), NEW p, p.first \in Nat, p.last \in Nat,
         1 <= p.first, p.first <= p.last, p.last <= Len(l), ~AcceptsSurface(l, p),
         \A r \in At(l, {"result"}) : l[r].first \in p.first .. p.last => r <= p.last,
         NEW q, q.first = p.first, q.last \in Nat, p.last <= q.last
  PROVE  ~AcceptsSurface(l, q)
<1> SUFFICES ASSUME AcceptsSurface(l, q) PROVE AcceptsSurface(l, p)
  OBVIOUS
<1>1. /\ l \in Seq(Events) /\ Len(l) \in Nat
      /\ \A r \in At(l, {"result"}) : r \in Nat /\ l[r].first \in Nat /\ l[r].first < r
  <2>1. l \in Seq(Events) /\ Len(l) \in Nat /\ LooksBack(l)
    BY DEF WellFormed
  <2> QED BY <2>1, AtProps DEF LooksBack
<1>2. /\ Untouched(l, q) /\ WholePairs(l, q, TRUE)
      /\ \/ q.first = 1
         \/ l[q.first].type = "turn/start"
         \/ l[q.first - 1].type = "turn/end"
         \/ \E i \in At(l, Carriers) : l[i].last = q.first - 1
  BY DEF AcceptsSurface
<1>3. \A x \in p.first .. p.last : x \in q.first .. q.last
  OBVIOUS
<1>4. Untouched(l, p)
  BY <1>2, <1>3 DEF Untouched
<1>5. WholePairs(l, p, TRUE)
  <2> SUFFICES ASSUME NEW r \in At(l, {"result"})
               PROVE  /\ r \in p.first .. p.last => l[r].first \in p.first .. p.last
                      /\ l[r].first \in p.first .. p.last => r \in p.first .. p.last
    BY DEF WholePairs
  <2>1. r \in Nat /\ l[r].first \in Nat /\ l[r].first < r
    BY <1>1
  <2>2. ASSUME r \in p.first .. p.last PROVE l[r].first \in p.first .. p.last
    <3>1. l[r].first \in q.first .. q.last
      BY <1>2, <1>3, <2>2 DEF WholePairs
    <3>2. l[r].first >= p.first
      BY <3>1
    <3> DEFINE c == l[r].first
    <3>3. c \in Nat /\ c >= p.first /\ c < r /\ r <= p.last
      BY <2>1, <2>2, <3>2
    <3> HIDE DEF c
    <3>4. c \in p.first .. p.last
      BY <2>1, <3>3
    <3> QED BY <3>4 DEF c
  <2>3. ASSUME l[r].first \in p.first .. p.last PROVE r \in p.first .. p.last
    <3> DEFINE c == l[r].first
    <3>1. c \in Nat /\ c < r /\ c >= p.first /\ r <= p.last
      BY <2>1, <2>3
    <3> HIDE DEF c
    <3> QED BY <2>1, <3>1
  <2> QED BY <2>2, <2>3
<1> QED BY <1>2, <1>4, <1>5 DEF AcceptsSurface

(* Turns still end behind messages. *)
LEMMA MessagesStill ==
  ASSUME NEW l, NEW m, Grows(m, l), EndsBehindMessages(l),
         \A t \in New(m, l, {"turn/end"}) : t > 1 /\ m[t - 1].type \in {"reply", "error"}
  PROVE  EndsBehindMessages(m)
<1>1. /\ Len(l) \in Nat
      /\ \A T : \A i : i \in At(m, T) <=> i \in At(l, T) \/ i \in New(m, l, T)
      /\ \A T : \A i \in At(l, T) : i \in 1..Len(l) /\ i \in At(m, T)
  BY GrowsProps
<1>2. PICK u \in At(l, Messages) : \A t \in At(l, {"turn/end"}) :
        t > u => t > 1 /\ l[t - 1].type \in {"reply", "error"}
  BY DEF EndsBehindMessages
<1>3. ASSUME NEW t \in At(m, {"turn/end"}), t > u
      PROVE  t > 1 /\ m[t - 1].type \in {"reply", "error"}
  <2>1. CASE t \in At(l, {"turn/end"})
    <3>1. t > 1 /\ l[t - 1].type \in {"reply", "error"} /\ t \in 1..Len(l)
      BY <1>1, <1>2, <1>3, <2>1
    <3>2. t - 1 \in 1..Len(l)
      BY <1>1, <3>1
    <3>3. m[t - 1] = l[t - 1]
      BY <3>2 DEF Grows
    <3> QED BY <3>1, <3>3
  <2>2. CASE t \in New(m, l, {"turn/end"})
    BY <2>2
  <2> QED BY <1>1, <1>3, <2>1, <2>2
<1> QED BY <1>1, <1>3 DEF EndsBehindMessages

(* An interval leaves no result behind while none comes that answers in    *)
(* it, and the place where it begins stays.                                *)
LEMMA NoResultStays ==
  ASSUME NEW l, NEW m, Grows(m, l), NEW p, p.first \in Nat, p.last \in Nat, p.last <= Len(l),
         LeavesNoResult(l, p), New(m, l, {"surface"}) = {},
         \A k \in New(m, l, Carriers) : p.first \notin Hides(m, k),
         \A r \in New(m, l, {"result"}) : m[r].first \notin p.first .. p.last
  PROVE  LeavesNoResult(m, p)
<1>1. /\ Len(l) \in Nat
      /\ \A T : \A i : i \in At(m, T) <=> i \in At(l, T) \/ i \in New(m, l, T)
      /\ \A T : \A i \in At(l, T) : m[i] = l[i]
  BY GrowsProps
<1>2. /\ At(l, {"turn/end"}) # {} /\ p.first = PlanFirst(l)
      /\ 1 <= p.first /\ p.first <= p.last
      /\ \/ \E k \in At(l, Carriers) : k > p.first
         \/ \A r \in At(l, {"result"}) : l[r].first \in p.first .. p.last => r <= p.last
  BY DEF LeavesNoResult
<1>3. PlanFirst(l) <= Len(l)
  BY <1>1, <1>2
<1>4. PlanFirst(m) = PlanFirst(l)
  BY <1>2, <1>3, FirstStays
<1>5. \/ \E k \in At(m, Carriers) : k > p.first
      \/ \A r \in At(m, {"result"}) : m[r].first \in p.first .. p.last => r <= p.last
  BY <1>1, <1>2
<1>6. At(m, {"turn/end"}) # {}
  BY <1>1, <1>2
<1> QED BY <1>2, <1>4, <1>5, <1>6 DEF LeavesNoResult

(* Refused once, it blocks every interval from there that takes the error. *)
LEMMA RefusedBlocks ==
  ASSUME NEW l, WellFormed(l), NEW p, p.first \in Nat, p.last \in Nat, p.last <= Len(l),
         LeavesNoResult(l, p), ~AcceptsSurface(l, p), NEW e \in Nat, p.last < e
  PROVE  Blocked(l, e)
<1>1. /\ 1 <= p.first /\ p.first <= p.last /\ p.first = PlanFirst(l) /\ Len(l) \in Nat
      /\ \/ \E k \in At(l, Carriers) : k > p.first
         \/ \A r \in At(l, {"result"}) : l[r].first \in p.first .. p.last => r <= p.last
  BY DEF LeavesNoResult, WellFormed
<1>2. CASE \E k \in At(l, Carriers) : k > p.first
  BY <1>1, <1>2 DEF Blocked
<1>3. CASE \A r \in At(l, {"result"}) : l[r].first \in p.first .. p.last => r <= p.last
  <2> SUFFICES ASSUME NEW last \in 1..Len(l), last >= e
               PROVE  ~AcceptsSurface(l, Interval(PlanFirst(l), last))
    BY DEF Blocked
  <2> DEFINE q == Interval(PlanFirst(l), last)
  <2>1. q.first = p.first /\ q.last \in Nat /\ p.last <= q.last
    BY <1>1 DEF Interval
  <2> HIDE DEF q
  <2>2. ~AcceptsSurface(l, q)
    BY <1>1, <1>3, <2>1, WiderIsRefused
  <2> QED BY <2>2 DEF q
<1> QED BY <1>1, <1>2, <1>3

(* In a log whose turns hold their calls and, lately, end behind messages, *)
(* an interval up to the last message leaves no result behind: what would  *)
(* cut it from its call is the end of a turn or a message behind it.       *)
LEMMA ChosenLeavesNoResult ==
  ASSUME NEW l, WellFormed(l), TurnsHoldCalls(l), EndsBehindMessages(l),
         NEW p, p = PlanSegment(l, 1), p # NoInterval
  PROVE  LeavesNoResult(l, p)
<1> DEFINE ends == At(l, {"turn/end"})
           V == Visible(l)
           shown == Projection(l)
           n == Len(l)
<1>1. /\ ends # {}
      /\ p.first = PlanFirst(l) /\ p.first \in Nat /\ p.last \in Nat
      /\ 1 <= p.first /\ p.first <= p.last
      /\ p.last <= Max(ends)
      /\ Cardinality(V) \in Nat /\ Cardinality(V) >= 3
      /\ \/ p.last = Max(ends)
         \/ p.last = shown[Cardinality(V) - 1 + 1] - 1
         \/ \E k \in At(l, Carriers) : k > p.first \/ l[k].first > p.first
  <2>1. 1 \in Nat \ {0} /\ 1 + 2 = 3
    OBVIOUS
  <2> QED BY <2>1, PlanShape
<1> SUFFICES ASSUME \A k \in At(l, Carriers) : ~(k > p.first),
                    NEW r \in At(l, {"result"}), l[r].first \in p.first .. p.last, r > p.last
             PROVE  FALSE
  <2>1. ASSUME NEW r \in At(l, {"result"}) PROVE r \in Nat
    BY AtProps DEF WellFormed
  <2> QED BY <1>1, <2>1 DEF LeavesNoResult
<1> DEFINE c == l[r].first
           t == Max(ends)
           s == shown[Cardinality(V)]
<1>2. /\ l \in Seq(Events) /\ n \in Nat /\ LooksBack(l)
      /\ \A T : \A i \in At(l, T) : i \in Nat /\ i >= 1 /\ i <= n /\ l[i].type \in T
  <2>1. l \in Seq(Events)
    BY DEF WellFormed
  <2> QED BY <2>1, AtProps DEF WellFormed
<1>3. t \in ends /\ \A y \in ends : y <= t
  <2>1. ends \subseteq 0..n
    BY <1>2
  <2> HIDE DEF ends
  <2> QED BY <1>1, <1>2, <2>1, MaxIsMost
<1>4. s \in V /\ \A v \in V : v <= s
  <2>1. n \in Nat /\ \A v \in V : v \in Nat /\ v <= n
    BY <1>2, VisibleProps
  <2> DEFINE N == Cardinality(V)
  <2>2. N \in 1..N
    BY <1>1
  <2>3. shown = InOrder(V)
    BY DEF Projection
  <2> HIDE DEF V, n, shown
  <2>4. /\ \A k \in 1..N : InOrder(V)[k] \in V
        /\ \A i \in V : \E k \in 1..N : InOrder(V)[k] = i
    BY <2>1, InOrderProps
  <2>5. s \in V
    BY <2>2, <2>3, <2>4
  <2>6. ASSUME NEW v \in V PROVE v <= s
    <3>1. PICK k \in 1..N : InOrder(V)[k] = v
      BY <2>4
    <3>2. CASE k = N
      BY <2>1, <2>3, <3>1, <3>2
    <3>3. CASE k < N
      <4>1. InOrder(V)[k] < InOrder(V)[N]
        BY <2>1, <2>2, <3>3, InOrderGrows
      <4>2. v < s /\ v \in Nat /\ s \in Nat
        BY <2>1, <2>3, <2>5, <3>1, <4>1
      <4> QED BY <4>2
    <3>4. k = N \/ k < N
      BY <1>1
    <3> QED BY <3>2, <3>3, <3>4
  <2> QED BY <2>5, <2>6
<1>5. \A v : v \in At(l, Messages) /\ v > p.first => v \in V
  <2> SUFFICES ASSUME NEW v \in At(l, Messages), v > p.first, v \in Occluded(l) PROVE FALSE
    BY DEF Visible
  <2>1. PICK k \in At(l, Carriers) : v \in Hides(l, k)
    BY HidesProps
  <2>2. v < k /\ k \in Nat /\ v \in Nat
    BY <1>2, <2>1, HidesProps
  <2> QED BY <1>1, <2>2
<1>6. /\ r \in Nat /\ c \in At(l, {"calls"}) /\ c \in Nat /\ c < r /\ p.first <= c /\ c <= p.last
      /\ t \in Nat /\ s \in Nat
  <2>1. c \in At(l, {"calls"}) /\ c < r
    BY <1>2 DEF LooksBack
  <2>2. c \in p.first .. p.last
    OBVIOUS
  <2>3. c \in Nat /\ r \in Nat /\ t \in Nat
    BY <1>2, <1>3, <2>1
  <2>4. s \in Nat
    BY <1>2, <1>4, VisibleProps
  <2> HIDE DEF c
  <2> QED BY <1>1, <2>1, <2>2, <2>3, <2>4
<1>7. r \in V
  <2>1. r \in At(l, Messages)
    BY <1>2 DEF At, Messages
  <2> HIDE DEF c
  <2>2. r > p.first
    BY <1>1, <1>6
  <2> QED BY <1>5, <2>1, <2>2
<1>8. c < t
  <2>1. c # t
    BY <1>2, <1>3, <1>6 DEF At
  <2> HIDE DEF c, t
  <2> QED BY <1>1, <1>6, <2>1 DEF t
<1>9. r < t
  <2>1. \/ \E q \in At(l, {"result"}) : q < t /\ l[q].first = c
        \/ \E k \in At(l, Carriers) : k < t /\ c \in Hides(l, k)
    BY <1>3, <1>6, <1>8 DEF TurnsHoldCalls
  <2>2. ASSUME NEW k \in At(l, Carriers), c \in Hides(l, k) PROVE FALSE
    <3>1. c < k /\ k \in Nat
      BY <1>2, <2>2, HidesProps
    <3> HIDE DEF c
    <3>2. k > p.first
      BY <1>1, <1>6, <3>1
    <3> QED BY <3>2
  <2>3. PICK q \in At(l, {"result"}) : q < t /\ l[q].first = c
    BY <2>1, <2>2
  <2>4. q = r
    BY <1>2, <2>3 DEF LooksBack
  <2> QED BY <2>3, <2>4
<1>10. \A k \in At(l, Carriers) : ~(l[k].first > p.first)
  <2> SUFFICES ASSUME NEW k \in At(l, Carriers), l[k].first > p.first PROVE FALSE
    OBVIOUS
  <2>1. l[k].first <= l[k].last
    BY DEF TurnsHoldCalls
  <2>2. l[k].first \in Nat /\ l[k].last \in Nat /\ l[k].last < k /\ k \in Nat
    BY <1>2, HidesProps
  <2>3. k > p.first
    BY <1>1, <2>1, <2>2
  <2> QED BY <2>3
<1>11. p.last = s - 1
  <2>1. Cardinality(V) - 1 + 1 = Cardinality(V)
    BY <1>1
  <2>2. p.last = t \/ p.last = s - 1
    BY <1>1, <1>10, <2>1
  <2> HIDE DEF c, t, s
  <2>3. p.last # t
    BY <1>1, <1>6, <1>9
  <2> QED BY <2>2, <2>3
<1>12. r = s
  <2>1. r <= s
    BY <1>4, <1>7
  <2> HIDE DEF c, t, s
  <2> QED BY <1>1, <1>6, <1>11, <2>1
<1>13. PICK u \in At(l, Messages) : \A x \in ends : x > u => x > 1 /\ l[x - 1].type \in {"reply", "error"}
  BY DEF EndsBehindMessages
<1>14. p.first < r
  <2> HIDE DEF c, t, s
  <2> QED BY <1>1, <1>6
<1>15. CASE t > u
  <2>1. t > 1 /\ l[t - 1].type \in {"reply", "error"}
    BY <1>3, <1>13, <1>15
  <2>2. t - 1 \in 1..n
    BY <1>2, <1>3, <1>6, <2>1
  <2>3. t - 1 \in At(l, Messages)
    BY <1>2, <2>1, <2>2 DEF At, Messages
  <2>4. t - 1 # r
    BY <1>2, <2>1
  <2>5. t - 1 > r
    <3> HIDE DEF c, t, s
    <3> QED BY <1>6, <1>9, <2>4
  <2>6. t - 1 > p.first
    <3> HIDE DEF c, t, s
    <3> QED BY <1>1, <1>6, <1>14, <2>5
  <2>7. t - 1 <= s
    BY <1>4, <1>5, <2>3, <2>6
  <2> HIDE DEF c, t, s
  <2> QED BY <1>6, <1>12, <2>5, <2>7
<1>16. CASE ~(t > u)
  <2>1. u \in Nat
    BY <1>2
  <2>2. u > r /\ u > p.first
    <3> HIDE DEF c, t, s
    <3>1. u >= t
      BY <1>6, <1>16, <2>1
    <3> QED BY <1>1, <1>6, <1>9, <1>14, <2>1, <3>1
  <2>3. u <= s
    BY <1>4, <1>5, <1>13, <2>2
  <2> HIDE DEF c, t, s
  <2> QED BY <1>6, <1>12, <2>1, <2>2, <2>3
<1> QED BY <1>15, <1>16

(* An interval chosen behind an error spares it, unless a summary behind   *)
(* the error is all that keeps it away and it is refused.                  *)
LEMMA ChosenSpares ==
  ASSUME NEW l, WellFormed(l), NEW keep \in Nat \ {0}, NEW p, p = PlanSegment(l, keep), p # NoInterval,
         NEW e \in Nat, \A k \in At(l, Carriers) : k < e,
         \A i \in At(l, Messages) : i > e => l[i].type = "summary",
         \A s, q \in At(l, {"summary"}) : s > e /\ q > e => s = q
  PROVE  /\ (\A s \in At(l, {"summary"}) : ~(s > e)) => p.last < e
         /\ (keep = 1 => Blocked(l, e)) => p.last < e \/ ~AcceptsSurface(l, p)
<1> DEFINE V == Visible(l)
           N == Cardinality(V)
           m == N - keep + 1
<1>1. /\ p.first = PlanFirst(l) /\ p.first \in Nat /\ p.last \in Nat
      /\ 1 <= p.first /\ p.first <= p.last
      /\ \A k \in At(l, Carriers) : k > p.first => p.last < k
      /\ N \in Nat /\ N >= keep + 2
      /\ p.last < Projection(l)[m]
      /\ p \in [first : Nat, last : Nat] /\ p.last <= Len(l)
  <2>1. l \in Seq(Events)
    BY DEF WellFormed
  <2>2. p \in [first : Nat, last : Nat] /\ p.last <= Len(l)
    BY <2>1, PlanProps
  <2>3. /\ p.first = PlanFirst(l) /\ p.first \in Nat /\ p.last \in Nat
        /\ 1 <= p.first /\ p.first <= p.last
        /\ \A k \in At(l, Carriers) : k > p.first => p.last < k
        /\ N \in Nat /\ N >= keep + 2
        /\ p.last < Projection(l)[m]
    BY PlanShape
  <2> QED BY <2>2, <2>3
<1>2. /\ l \in Seq(Events) /\ Len(l) \in Nat
      /\ \A v \in V : v \in Nat /\ v <= Len(l) /\ v \in At(l, Messages)
      /\ Projection(l) = InOrder(V)
  <2>1. l \in Seq(Events)
    BY DEF WellFormed
  <2> QED BY <2>1, VisibleProps DEF Visible, Projection
<1>3. \A v \in V : v > e => v \in At(l, {"summary"})
  <2> SUFFICES ASSUME NEW v \in V, v > e PROVE v \in At(l, {"summary"})
    OBVIOUS
  <2>1. v \in At(l, Messages) /\ l[v].type = "summary"
    BY <1>2
  <2> QED BY <2>1 DEF At
<1>4. m \in 1..N
  BY <1>1
<1>5. /\ \A k \in 1..N : InOrder(V)[k] \in V
      /\ \A i, j \in 1..N : i < j => InOrder(V)[i] < InOrder(V)[j]
  <2>1. Len(l) \in Nat /\ \A v \in V : v \in Nat /\ v <= Len(l)
    BY <1>2
  <2> HIDE DEF V
  <2> QED BY <2>1, InOrderProps, InOrderGrows
<1> DEFINE x == InOrder(V)[m]
<1>6. x \in V /\ x \in Nat /\ p.last < x
  BY <1>1, <1>2, <1>4, <1>5
<1>7. ASSUME ~(x > e) PROVE p.last < e
  <2> HIDE DEF x
  <2> QED BY <1>1, <1>6, <1>7
<1>8. ASSUME \A s \in At(l, {"summary"}) : ~(s > e) PROVE p.last < e
  BY <1>3, <1>6, <1>7, <1>8
<1>9. ASSUME keep = 1 => Blocked(l, e) PROVE p.last < e \/ ~AcceptsSurface(l, p)
  <2>1. CASE keep # 1
    <3>1. m + 1 \in 1..N /\ m < m + 1
      BY <1>1, <2>1
    <3> DEFINE y == InOrder(V)[m + 1]
    <3>2. y \in V /\ x < y
      BY <1>4, <1>5, <3>1
    <3>3. y \in Nat
      BY <1>2, <3>2
    <3> HIDE DEF V, m, x, y
    <3>4. ~(x > e)
      <4> SUFFICES ASSUME x > e PROVE FALSE
        OBVIOUS
      <4>1. y > e
        BY <1>6, <3>2, <3>3
      <4>2. x \in At(l, {"summary"}) /\ y \in At(l, {"summary"})
        BY <1>3, <1>6, <3>2, <4>1
      <4>3. x = y
        BY <4>1, <4>2
      <4> QED BY <1>6, <3>2, <4>3
    <3> QED BY <1>7, <3>4
  <2>2. CASE keep = 1
    <3>1. Blocked(l, e)
      BY <1>9, <2>2
    <3>2. CASE \E k \in At(l, Carriers) : k > PlanFirst(l)
      <4>1. PICK k \in At(l, Carriers) : k > p.first
        BY <1>1, <3>2
      <4>2. p.last < k /\ k < e /\ k \in Nat
        BY <1>1, <1>2, <4>1, AtProps
      <4> QED BY <1>1, <4>2
    <3>3. CASE \A last \in 1..Len(l) : last >= e => ~AcceptsSurface(l, Interval(PlanFirst(l), last))
      <4>1. p = Interval(PlanFirst(l), p.last)
        BY <1>1 DEF Interval
      <4>2. p.last \in 1..Len(l) /\ (p.last < e \/ p.last >= e)
        BY <1>1, <1>2
      <4> QED BY <3>3, <4>1, <4>2
    <3> QED BY <3>1, <3>2, <3>3 DEF Blocked
  <2> QED BY <2>1, <2>2
<1> QED BY <1>8, <1>9
-----------------------------------------------------------------------------
(* What the steps other than reopening do to the log.                      *)
Spoken == {"user", "reply", "calls", "result", "error"}

Moves ==
  /\ Grows(log', log)
  /\ \A t \in New(log', log, {"turn/end"}) : t > 1 /\ log'[t - 1].type \in {"reply", "error"}
  /\ New(log', log, {"turn/end"}) # {} => New(log', log, {"calls"}) = {} /\ run.stage = "asking"
  /\ \A r \in New(log', log, {"result"}) : run.stage = "batch" /\ log'[r].first = LastCall
  /\ \A k \in New(log', log, Carriers) : log'[k].first <= log'[k].last
  /\ New(log', log, {"surface"}) # {} => Completed
  /\ \A k \in New(log', log, {"retry"}) :
       /\ run.stage = "hook" /\ AcceptsRetry(log, FailedTail)
       /\ log'[k].first = FailedTail.first
  /\ run.stage = "hook" => New(log', log, Spoken) = {}

(* The log stays. *)
LEMMA MovesNone == ASSUME IInv, log' = log PROVE Moves
<1> DEFINE l == log
<1>1. WellFormed(l)
  BY DEF IInv
<1> HIDE DEF l
<1>2. Grows(l, l) /\ \A T : New(l, l, T) = {}
  BY <1>1, GrowsByNone
<1>3. Grows(log', log) /\ \A T : New(log', log, T) = {}
  BY <1>2 DEF l
<1> QED BY <1>3 DEF Moves

(* What an appended event brings. *)
LEMMA MovesAppend ==
  ASSUME IInv, IInv', NEW e \in Seq(Events), Joins(log', log, e)
  PROVE  /\ Grows(log', log) /\ Len(log) \in Nat
         /\ \A T : \A i \in New(log', log, T) :
              /\ i \in Nat /\ i - Len(log) \in 1..Len(e)
              /\ log'[i] = e[i - Len(log)] /\ e[i - Len(log)].type \in T
         /\ \A j \in 1..Len(e) : log'[Len(log) + j] = e[j]
<1> DEFINE l == log
           m == log'
<1>1. WellFormed(l) /\ WellFormed(m) /\ Joins(m, l, e)
  BY DEF IInv
<1>2. Len(l) \in Nat
  BY <1>1 DEF WellFormed
<1> HIDE DEF l, m
<1>3. /\ Grows(m, l)
      /\ \A T : \A i \in New(m, l, T) :
           i - Len(l) \in 1..Len(e) /\ m[i] = e[i - Len(l)] /\ e[i - Len(l)].type \in T
      /\ \A j \in 1..Len(e) : m[Len(l) + j] = e[j]
  BY <1>1, GrowsByAppending
<1>4. \A T : \A i \in New(m, l, T) : i \in Nat
  <2>1. \A T : \A i \in New(m, l, T) : i \in 1..Len(m)
    BY <1>3, GrowsProps
  <2> QED BY <2>1
<1> QED BY <1>2, <1>3, <1>4 DEF l, m

(* Events that neither end a turn nor answer nor hide. *)
LEMMA MovesPlain ==
  ASSUME IInv, IInv', NEW e \in Seq(Events), Joins(log', log, e),
         \A i \in 1..Len(e) : /\ e[i].type \notin Carriers \cup {"turn/end", "result"}
                              /\ run.stage = "hook" => e[i].type \notin Spoken
  PROVE  Moves
<1>1. /\ Grows(log', log)
      /\ \A T : \A i \in New(log', log, T) :
           i - Len(log) \in 1..Len(e) /\ e[i - Len(log)].type \in T
  BY MovesAppend
<1>2. /\ New(log', log, {"turn/end"}) = {} /\ New(log', log, {"result"}) = {}
      /\ New(log', log, Carriers) = {}
      /\ run.stage = "hook" => New(log', log, Spoken) = {}
  BY <1>1
<1>3. New(log', log, {"surface"}) = {} /\ New(log', log, {"retry"}) = {}
  BY <1>1 DEF Carriers
<1> QED BY <1>1, <1>2, <1>3 DEF Moves

(* A message and the end of its turn, perhaps with one that goes on. *)
LEMMA MovesClosing ==
  ASSUME IInv, IInv', NEW e \in Seq(Events), Joins(log', log, e), run.stage = "asking",
         Len(e) \in {2, 3}, e[1].type \in {"reply", "error"}, e[2].type = "turn/end",
         Len(e) = 3 => e[3].type = "user"
  PROVE  Moves
<1>1. /\ Grows(log', log) /\ Len(log) \in Nat
      /\ \A T : \A i \in New(log', log, T) :
           i \in Nat /\ i - Len(log) \in 1..Len(e) /\ e[i - Len(log)].type \in T
      /\ \A j \in 1..Len(e) : log'[Len(log) + j] = e[j]
  BY MovesAppend
<1>2. \A j \in 1..Len(e) : j = 1 \/ j = 2 \/ (j = 3 /\ Len(e) = 3)
  <2>1. \A j \in 1..2 : j = 1 \/ j = 2
    OBVIOUS
  <2>2. \A j \in 1..3 : j = 1 \/ j = 2 \/ j = 3
    OBVIOUS
  <2> QED BY <2>1, <2>2
<1>9. \A j \in 1..Len(e) : e[j].type \in {"reply", "error", "turn/end", "user"}
  BY <1>2
<1>3. /\ New(log', log, {"calls"}) = {} /\ New(log', log, {"result"}) = {}
      /\ New(log', log, Carriers) = {} /\ New(log', log, {"surface"}) = {}
      /\ New(log', log, {"retry"}) = {}
  <2>1. ASSUME NEW T, T \cap {"reply", "error", "turn/end", "user"} = {} PROVE New(log', log, T) = {}
    BY <1>1, <1>9, <2>1
  <2>2. \A T \in {{"calls"}, {"result"}, Carriers, {"surface"}, {"retry"}} :
          T \cap {"reply", "error", "turn/end", "user"} = {}
    BY DEF Carriers
  <2> QED BY <2>1, <2>2
<1>4. ASSUME NEW t \in New(log', log, {"turn/end"})
      PROVE  t > 1 /\ log'[t - 1].type \in {"reply", "error"}
  <2>1. t \in Nat /\ t - Len(log) = 2
    BY <1>1, <1>2
  <2>2. t > 1 /\ t - 1 = Len(log) + 1
    BY <1>1, <2>1
  <2>3. log'[Len(log) + 1] = e[1]
    BY <1>1
  <2> QED BY <2>2, <2>3
<1> QED BY <1>1, <1>3, <1>4 DEF Moves

LEMMA BatchMoves == ASSUME IInv, IInv', BatchDone PROVE Moves
<1> DEFINE e == <<Result(LastCall)>>
<1>1. run.stage = "batch" /\ LastCall \in Nat
  <2>1. run.stage = "batch" /\ log \in Seq(Events)
    BY DEF BatchDone, IInv, WellFormed
  <2> QED BY <2>1, UnansweredProps DEF IInv, CallIsSafe
<1>2. e \in Seq(Events) /\ Len(e) = 1 /\ e[1].type = "result" /\ e[1].first = LastCall
  <2>1. Result(LastCall) \in Events
    BY <1>1 DEF Result, Events, Types, Messages
  <2> HIDE DEF LastCall
  <2> QED BY <2>1 DEF Result
<1>3. Joins(log', log, e)
  BY DEF BatchDone, Push, Add, Joins, LastCall
<1> HIDE DEF e
<1>4. /\ Grows(log', log)
      /\ \A T : \A i \in New(log', log, T) :
           i - Len(log) \in 1..Len(e) /\ log'[i] = e[i - Len(log)] /\ e[i - Len(log)].type \in T
  BY <1>2, <1>3, MovesAppend
<1>5. \A T : \A i \in New(log', log, T) : log'[i] = e[1] /\ "result" \in T
  <2>1. \A j \in 1..Len(e) : j = 1
    BY <1>2
  <2> QED BY <1>2, <1>4, <2>1
<1>6. /\ New(log', log, {"turn/end"}) = {} /\ New(log', log, {"surface"}) = {}
      /\ New(log', log, {"retry"}) = {} /\ New(log', log, Carriers) = {}
  BY <1>5 DEF Carriers
<1> QED BY <1>1, <1>2, <1>4, <1>5, <1>6 DEF Moves

LEMMA OccludeMoves ==
  ASSUME IInv, IInv', run.stage = "hook", AcceptsRetry(log, FailedTail), Occludes
  PROVE  Moves
<1> DEFINE e == <<Carrier("retry", FailedTail)>>
<1>1. FailedTail.first \in Nat /\ FailedTail.last \in Nat /\ FailedTail.first <= FailedTail.last
  <2>1. FailedTail.first <= FailedTail.last
    BY DEF AcceptsRetry, Untouched
  <2> DEFINE S == At(log, {"reply", "calls", "error"})
  <2>2. S # {} /\ log \in Seq(Events) /\ Len(log) \in Nat
    BY DEF IInv, ErrorIsThere, At, WellFormed
  <2>3. S \subseteq 0..Len(log)
    <3>1. S \subseteq 1..Len(log)
      BY <2>2, AtProps
    <3> QED BY <2>2, <3>1
  <2> HIDE DEF S
  <2>4. Max(S) \in S
    BY <2>2, <2>3, MaxIsMost
  <2>5. \A y \in S : y \in Nat
    BY <2>3
  <2> QED BY <2>1, <2>2, <2>4, <2>5 DEF FailedTail, Interval, S
<1>2. /\ e \in Seq(Events) /\ Len(e) = 1 /\ e[1].type = "retry"
      /\ e[1].first = FailedTail.first /\ e[1].last = FailedTail.last
  <2> DEFINE range == FailedTail
  <2>1. range.first \in Nat /\ range.last \in Nat
    BY <1>1
  <2> HIDE DEF range
  <2>2. Carrier("retry", range) \in Events
    BY <2>1 DEF Carrier, Events, Types, Carriers
  <2>3. e = <<Carrier("retry", range)>>
    BY DEF range
  <2> HIDE DEF e
  <2>4. /\ e \in Seq(Events) /\ Len(e) = 1 /\ e[1].type = "retry"
        /\ e[1].first = range.first /\ e[1].last = range.last
    BY <2>2, <2>3 DEF Carrier
  <2> QED BY <2>4 DEF range
<1>3. Joins(log', log, e)
  BY DEF Occludes, Add, Joins
<1> HIDE DEF e
<1>4. /\ Grows(log', log)
      /\ \A T : \A i \in New(log', log, T) :
           i - Len(log) \in 1..Len(e) /\ log'[i] = e[i - Len(log)] /\ e[i - Len(log)].type \in T
  BY <1>2, <1>3, MovesAppend
<1>5. \A T : \A i \in New(log', log, T) : log'[i] = e[1] /\ "retry" \in T
  <2>1. \A j \in 1..Len(e) : j = 1
    BY <1>2
  <2> QED BY <1>2, <1>4, <2>1
<1>6. /\ New(log', log, {"turn/end"}) = {} /\ New(log', log, {"surface"}) = {}
      /\ New(log', log, {"result"}) = {} /\ New(log', log, Spoken) = {}
  BY <1>5 DEF Spoken
<1>7. \A k \in New(log', log, Carriers) : log'[k].first <= log'[k].last
  BY <1>1, <1>2, <1>5
<1>8. \A k \in New(log', log, {"retry"}) : log'[k].first = FailedTail.first
  BY <1>2, <1>5
<1> QED BY <1>4, <1>6, <1>7, <1>8 DEF Moves

LEMMA CompletedMoves == ASSUME IInv, IInv', Completed PROVE Moves
<1> DEFINE range == Task1.plan
           e == <<Event("start"), Event("summary"), Carrier("surface", range), Event("end")>>
<1>1. /\ chain # <<>> /\ AcceptsSurface(log, range) /\ Joins(log', log, e)
      /\ chain \in Seq(Tasks)
  BY DEF Completed, Summarizes, Add, Joins, IInv, TypeOK
<1>2. Task1 \in Tasks
  BY <1>1, TailTask DEF Task1
<1>3. range.first \in Nat /\ range.last \in Nat
  BY <1>2 DEF Tasks
<1>4. range.first <= range.last
  BY <1>1 DEF AcceptsSurface, Untouched
<1> HIDE DEF range
<1>5. /\ e \in Seq(Events) /\ Len(e) = 4
      /\ e[1].type = "start" /\ e[2].type = "summary" /\ e[4].type = "end"
      /\ e[3].type = "surface" /\ e[3].first = range.first /\ e[3].last = range.last
  <2>1. /\ Event("start") \in Events /\ Event("summary") \in Events /\ Event("end") \in Events
        /\ Event("start").type = "start" /\ Event("summary").type = "summary" /\ Event("end").type = "end"
    BY DEF Event, Events, Types, Messages
  <2>2. /\ Carrier("surface", range) \in Events /\ Carrier("surface", range).type = "surface"
        /\ Carrier("surface", range).first = range.first /\ Carrier("surface", range).last = range.last
    BY <1>3 DEF Carrier, Events, Types, Carriers
  <2> QED BY <2>1, <2>2
<1> HIDE DEF e
<1>6. /\ Grows(log', log)
      /\ \A T : \A i \in New(log', log, T) :
           i - Len(log) \in 1..Len(e) /\ log'[i] = e[i - Len(log)] /\ e[i - Len(log)].type \in T
  BY <1>1, <1>5, MovesAppend
<1>7. \A j \in 1..Len(e) : j = 1 \/ j = 2 \/ j = 3 \/ j = 4
  BY <1>5
<1>8. /\ New(log', log, {"turn/end"}) = {} /\ New(log', log, {"retry"}) = {}
      /\ New(log', log, {"result"}) = {} /\ New(log', log, Spoken) = {}
  BY <1>5, <1>6, <1>7 DEF Spoken
<1>9. ASSUME NEW k \in New(log', log, Carriers) PROVE log'[k].first <= log'[k].last
  <2>1. k - Len(log) = 3
    BY <1>5, <1>6, <1>7 DEF Carriers
  <2>2. log'[k] = e[3]
    BY <1>6, <2>1
  <2> QED BY <1>4, <1>5, <2>2
<1> QED BY <1>6, <1>8, <1>9 DEF Moves

(* Every step but reopening. *)
LEMMA StepMoves == ASSUME IInv, IInv', [Next]_vars, ~Reopen PROVE Moves
<1>1. CASE StartRun
  <2> DEFINE e == <<Event("user")>>
  <2>1. Joins(log', log, e) /\ run.stage # "hook"
    BY <1>1 DEF StartRun, Add, Joins, Busy
  <2>2. e \in Seq(Events) /\ Len(e) = 1 /\ e[1].type = "user"
    BY DEF Event, Events, Types, Messages
  <2> HIDE DEF e
  <2>3. \A i \in 1..Len(e) : e[i].type \notin Carriers \cup {"turn/end", "result"}
    BY <2>2 DEF Carriers
  <2> QED BY <2>1, <2>2, <2>3, MovesPlain
<1>2. CASE Request
  <2>1. Joins(log', log, Turn) /\ run.stage # "hook"
    BY <1>2 DEF Request, Add, Joins
  <2>2. /\ Turn \in Seq(Events)
        /\ \A i \in 1..Len(Turn) : Turn[i].type = "turn/start"
    <3>1. CASE Turn = <<>>
      BY <3>1
    <3>2. CASE Turn = <<Event("turn/start")>>
      BY <3>2 DEF Event, Events, Types, Messages
    <3> QED BY <3>1, <3>2 DEF Turn
  <2>3. \A i \in 1..Len(Turn) : Turn[i].type \notin Carriers \cup {"turn/end", "result"}
    BY <2>2 DEF Carriers
  <2> QED BY <2>1, <2>2, <2>3, MovesPlain
<1>3. CASE Calls
  <2> DEFINE e == <<Event("calls")>>
  <2>1. Joins(log', log, e) /\ run.stage # "hook"
    BY <1>3 DEF Calls, Push, Add, Joins
  <2>2. e \in Seq(Events) /\ Len(e) = 1 /\ e[1].type = "calls"
    BY DEF Event, Events, Types, Messages
  <2> HIDE DEF e
  <2>3. \A i \in 1..Len(e) : e[i].type \notin Carriers \cup {"turn/end", "result"}
    BY <2>2 DEF Carriers
  <2> QED BY <2>1, <2>2, <2>3, MovesPlain
<1>4. CASE Reply \/ Error
  <2>1. PICK t \in {"reply", "error"} : Joins(log', log, Closing(t))
    BY <1>4 DEF Reply, Error, Push, Add, Joins
  <2>2. run.stage = "asking"
    BY <1>4 DEF Reply, Error
  <2>3. /\ Closing(t) \in Seq(Events) /\ Len(Closing(t)) = 2
        /\ Closing(t)[1].type \in {"reply", "error"} /\ Closing(t)[2].type = "turn/end"
    BY DEF Closing, Event, Events, Types, Messages
  <2> QED BY <2>1, <2>2, <2>3, MovesClosing
<1>5. CASE FollowUp
  <2> DEFINE e == Append(Closing("reply"), Event("user"))
  <2>1. Joins(log', log, e) /\ run.stage = "asking"
    BY <1>5 DEF FollowUp, Push, Add, Joins
  <2>2. \A t \in {"reply", "turn/end", "user"} : Event(t) \in Events /\ Event(t).type = t
    BY DEF Event, Events, Types, Messages
  <2>3. /\ e \in Seq(Events) /\ Len(e) = 3
        /\ e[1].type = "reply" /\ e[2].type = "turn/end" /\ e[3].type = "user"
    BY <2>2 DEF Closing
  <2> HIDE DEF e
  <2> QED BY <2>1, <2>3, MovesClosing
<1>6. CASE Refused \/ ClosedWithout
  <2>1. PICK t \in {"summary", "closed"} : Joins(log', log, <<Event("start"), Event(t)>>)
    BY <1>6 DEF Refused, ClosedWithout, Add, Joins
  <2> DEFINE e == <<Event("start"), Event(t)>>
  <2>2. e \in Seq(Events) /\ Len(e) = 2 /\ e[1].type = "start" /\ e[2].type = t
    BY DEF Event, Events, Types, Messages
  <2>3. Joins(log', log, e)
    BY <2>1
  <2> HIDE DEF e
  <2>4. \A i \in 1..Len(e) : i = 1 \/ i = 2
    BY <2>2
  <2>5. \A i \in 1..Len(e) : e[i].type \notin Carriers \cup {"turn/end", "result"} /\ e[i].type \notin Spoken
    BY <2>2, <2>4 DEF Carriers, Spoken
  <2> QED BY <2>2, <2>3, <2>5, MovesPlain
<1>7. CASE Retry \/ Overflow
  BY <1>7, OccludeMoves DEF Retry, Overflow
<1>8. CASE \/ Wake \/ Fail \/ AbortInSleep \/ OccludeFails \/ Begin \/ BeginNothing
           \/ CompactNow \/ CompactLater \/ CooldownOver \/ UNCHANGED vars
  <2>1. log' = log
    BY <1>8 DEF Wake, Fail, AbortInSleep, OccludeFails, Begin, BeginNothing, CompactNow,
                CompactLater, CooldownOver, vars
  <2> QED BY <2>1, MovesNone
<1> QED BY <1>1, <1>2, <1>3, <1>4, <1>5, <1>6, <1>7, <1>8, BatchMoves, CompletedMoves
        DEF Next, RunStep, ChainStep
-----------------------------------------------------------------------------
(* What the steps do to the chain.                                         *)
OnlyHead(c) == \A i \in DOMAIN c : i # 1 => c[i].plan = NoInterval
AllWait(c) == \A i \in DOMAIN c : c[i].plan = NoInterval

(* At most one task joins; it waits, and a manual one was asked for. *)
Queues(c, d) ==
  \/ d = c
  \/ \E t \in Tasks : Appends(d, c, t) /\ t.plan = NoInterval /\ (t.kind = "drained" => manual)

LEMMA QueuesProps ==
  ASSUME NEW c \in Seq(Tasks), NEW d, Queues(c, d)
  PROVE  /\ OnlyHead(c) => OnlyHead(d)
         /\ AllWait(c) => AllWait(d)
         /\ \A j \in DOMAIN d : d[j].plan # NoInterval => \E i \in DOMAIN c : d[j] = c[i]
         /\ (\E j \in DOMAIN d : d[j].kind = "drained")
              => manual \/ \E i \in DOMAIN c : c[i].kind = "drained"
<1>1. CASE d = c
  BY <1>1
<1>2. ASSUME NEW t \in Tasks, Appends(d, c, t), t.plan = NoInterval, t.kind = "drained" => manual
      PROVE  /\ OnlyHead(c) => OnlyHead(d)
             /\ AllWait(c) => AllWait(d)
             /\ \A j \in DOMAIN d : d[j].plan # NoInterval => \E i \in DOMAIN c : d[j] = c[i]
             /\ (\E j \in DOMAIN d : d[j].kind = "drained")
                  => manual \/ \E i \in DOMAIN c : c[i].kind = "drained"
  <2>1. \A j \in DOMAIN d : (j \in DOMAIN c /\ d[j] = c[j]) \/ d[j] = t
    BY <1>2 DEF Appends
  <2> QED BY <1>2, <2>1 DEF OnlyHead, AllWait
<1> QED BY <1>1, <1>2 DEF Queues

LEMMA TaskWaits ==
  ASSUME NEW k \in {"threshold", "manual", "drained"}
  PROVE  Task(k) \in Tasks /\ Task(k).kind = k /\ Task(k).plan = NoInterval
BY TaskProps DEF Kinds

LEMMA EvaluateQueues ==
  ASSUME NEW taken, NEW queue, Evaluate(taken, queue)
  PROVE  Queues(queue, chain')
<1>1. /\ Task("threshold") \in Tasks /\ Task("threshold").plan = NoInterval
      /\ Task("threshold").kind = "threshold"
  BY TaskWaits
<1> QED BY <1>1 DEF Evaluate, Queues, Appends

LEMMA SettledQueues ==
  ASSUME NEW queue, RunSettled(queue)
  PROVE  Queues(queue, chain')
<1>1. CASE manual /\ chain' = Append(queue, Task("drained"))
  <2>1. Task("drained") \in Tasks /\ Task("drained").plan = NoInterval
    BY TaskWaits
  <2> QED BY <1>1, <2>1 DEF Queues, Appends
<1>2. CASE Evaluate(pending, queue)
  BY <1>2, EvaluateQueues
<1> QED BY <1>1, <1>2 DEF RunSettled

LEMMA FinishQueues ==
  ASSUME NEW compacted, NEW changed, Finish(compacted, changed)
  PROVE  Queues(Tail(chain), chain')
<1>1. Yields => Queues(Tail(chain), chain')
  BY EvaluateQueues DEF Yields, Queues
<1> QED BY <1>1, SettledQueues DEF Finish, Queues

(* Behind the first task all wait. *)
LEMMA RestWaits ==
  ASSUME IInv, HeadBegun, chain # <<>>
  PROVE  Tail(chain) \in Seq(Tasks) /\ AllWait(Tail(chain))
<1>1. chain \in Seq(Tasks)
  BY DEF IInv, TypeOK
<1>2. ASSUME NEW i \in DOMAIN Tail(chain) PROVE Tail(chain)[i].plan = NoInterval
  <2>1. i + 1 \in DOMAIN chain /\ i + 1 # 1 /\ Tail(chain)[i] = chain[i + 1]
    BY <1>1
  <2> QED BY <2>1 DEF HeadBegun
<1> QED BY <1>1, <1>2 DEF AllWait

(* The tasks after a step: those with an interval had it before, but for   *)
(* the one that begins; none has when the first is over.                   *)
LEMMA OverTasks ==
  ASSUME IInv, HeadBegun, BeginNothing \/ Completed \/ Refused \/ ClosedWithout
  PROVE  /\ AllWait(chain') /\ HeadBegun'
         /\ (\E j \in DOMAIN chain' : chain'[j].kind = "drained")
              => manual \/ \E i \in DOMAIN chain : chain[i].kind = "drained"
<1>1. chain # <<>> /\ \E compacted, changed : Finish(compacted, changed)
  BY DEF BeginNothing, Waits, Completed, Refused, ClosedWithout, Summarizes
<1>2. Queues(Tail(chain), chain')
  BY <1>1, FinishQueues
<1>3. Tail(chain) \in Seq(Tasks) /\ AllWait(Tail(chain))
  BY <1>1, RestWaits
<1>4. /\ AllWait(chain')
      /\ (\E j \in DOMAIN chain' : chain'[j].kind = "drained")
            => manual \/ \E i \in DOMAIN Tail(chain) : Tail(chain)[i].kind = "drained"
  BY <1>2, <1>3, QueuesProps
<1>5. \A j \in DOMAIN Tail(chain) : \E i \in DOMAIN chain : Tail(chain)[j] = chain[i]
  <2>1. chain \in Seq(Tasks)
    BY DEF IInv, TypeOK
  <2> QED BY <1>1, <2>1, TailTask
<1>6. HeadBegun'
  BY <1>4 DEF HeadBegun, AllWait
<1> QED BY <1>4, <1>5, <1>6

LEMMA OtherTasks ==
  ASSUME IInv, HeadBegun, [Next]_vars, ~Reopen, ~Begin
  PROVE  /\ HeadBegun'
         /\ \A j \in DOMAIN chain' : chain'[j].plan # NoInterval =>
              ~Completed /\ \E i \in DOMAIN chain : chain'[j] = chain[i]
         /\ (\E j \in DOMAIN chain' : chain'[j].kind = "drained")
              => manual \/ \E i \in DOMAIN chain : chain[i].kind = "drained"
<1>1. CASE BeginNothing \/ Completed \/ Refused \/ ClosedWithout
  BY <1>1, OverTasks DEF AllWait
<1>2. CASE ~(BeginNothing \/ Completed \/ Refused \/ ClosedWithout)
  <2>1. Queues(chain, chain')
    <3>1. CASE Reply \/ Fail \/ AbortInSleep
      BY <3>1, SettledQueues DEF Reply, Fail, AbortInSleep
    <3>2. CASE CompactNow
      <4>1. /\ Task("manual") \in Tasks /\ Task("manual").plan = NoInterval
            /\ Task("manual").kind = "manual"
        BY TaskWaits
      <4> QED BY <3>2, <4>1 DEF CompactNow, Queues, Appends
    <3>3. CASE Overflow
      <4> DEFINE t == [Task("overflow") EXCEPT !.anchor = LastEnd]
      <4>1. Appends(chain', chain, t)
        BY <3>3 DEF Overflow, Appends
      <4>2. "overflow" \in Kinds
        BY DEF Kinds
      <4>3. LastEnd \in Nat
        <5>1. At(log, {"end"}) \subseteq 1..Len(log) /\ Len(log) \in Nat
          BY AtProps DEF IInv, WellFormed
        <5> DEFINE S == At(log, {"end"})
                   n == Len(log)
        <5>2. n \in Nat /\ S \subseteq 1..n
          BY <5>1
        <5> HIDE DEF S, n
        <5>3. Highest(S) \in Nat
          BY <5>2, HighestProps
        <5> QED BY <5>3 DEF LastEnd, S
      <4>4. t \in Tasks /\ t.plan = NoInterval /\ t.kind = "overflow"
        <5>1. Task("overflow") \in Tasks /\ Task("overflow").kind = "overflow" /\ Task("overflow").plan = NoInterval
          BY <4>2, TaskProps
        <5> QED BY <4>3, <5>1 DEF Tasks
      <4> HIDE DEF t
      <4> QED BY <4>1, <4>4 DEF Queues
    <3>4. CASE chain' = chain
      BY <3>4 DEF Queues
    <3> QED BY <1>2, <3>1, <3>2, <3>3, <3>4
            DEF Next, RunStep, ChainStep, StartRun, Request, Calls, BatchDone, FollowUp, Error,
                OccludeFails, Retry, Wake, CompactLater, CooldownOver, vars
  <2>2. chain \in Seq(Tasks) /\ OnlyHead(chain)
    BY DEF IInv, TypeOK, HeadBegun, OnlyHead
  <2>3. /\ OnlyHead(chain')
        /\ \A j \in DOMAIN chain' : chain'[j].plan # NoInterval => \E i \in DOMAIN chain : chain'[j] = chain[i]
        /\ (\E j \in DOMAIN chain' : chain'[j].kind = "drained")
              => manual \/ \E i \in DOMAIN chain : chain[i].kind = "drained"
    BY <2>1, <2>2, QueuesProps
  <2> QED BY <1>2, <2>3 DEF HeadBegun, OnlyHead
<1> QED BY <1>1, <1>2

(* A task begins. *)
LEMMA BeginTasks ==
  ASSUME IInv, HeadBegun, Begin
  PROVE  /\ HeadBegun' /\ DOMAIN chain' = DOMAIN chain /\ 1 \in DOMAIN chain
         /\ \A j \in DOMAIN chain : chain'[j].kind = chain[j].kind
         /\ chain'[1].plan = PlanSegment(log, TailKeep)
         /\ \A j \in DOMAIN chain : j # 1 => chain'[j] = chain[j]
<1> DEFINE p == PlanSegment(log, TailKeep)
<1>1. /\ chain \in Seq(Tasks) /\ chain # <<>> /\ chain' = [chain EXCEPT ![1].plan = p]
  BY DEF IInv, TypeOK, Begin, Waits
<1> HIDE DEF p
<1>2. 1 \in DOMAIN chain /\ DOMAIN chain' = DOMAIN chain /\ chain[1] \in Tasks
  BY <1>1
<1>3. \A j \in DOMAIN chain : chain'[j] = IF j = 1 THEN [chain[1] EXCEPT !.plan = p] ELSE chain[j]
  BY <1>1, <1>2
<1>4. [chain[1] EXCEPT !.plan = p].plan = p /\ [chain[1] EXCEPT !.plan = p].kind = chain[1].kind
  BY <1>2 DEF Tasks
<1>5. HeadBegun'
  BY <1>2, <1>3 DEF HeadBegun
<1> QED BY <1>2, <1>3, <1>4, <1>5 DEF p
-----------------------------------------------------------------------------
(* Since the run began.                                                    *)
LEMMA ChainFinishes ==
  ASSUME BeginNothing \/ Completed \/ Refused \/ ClosedWithout
  PROVE  chain # <<>> /\ \E compacted, changed : Finish(compacted, changed)
BY DEF BeginNothing, Waits, Completed, Refused, ClosedWithout, Summarizes

(* A task that is over starts no run and asks for no manual compaction.    *)
LEMMA FinishStages ==
  ASSUME IInv, chain # <<>>, NEW compacted, NEW changed, Finish(compacted, changed)
  PROVE  /\ run'.stage # "idle" => run.stage # "idle"
         /\ run'.stage = "hook" => run.stage = "hook" /\ Task1.kind # "overflow" /\ Yields
         /\ manual' => manual
<1>1. /\ chain \in Seq(Tasks) /\ run \in Runs
      /\ run.stage = "overflow" <=> Over(chain)
      /\ manual \in BOOLEAN
  <2>1. run \in Runs
    BY DEF IInv, TypeOK
  <2> QED BY <2>1, SeatsAre
<1>2. \E i \in DOMAIN chain : chain[i] = Task1
  BY <1>1, TailTask DEF Task1
<1>3. Task1.kind = "overflow" => run.stage = "overflow"
  BY <1>1, <1>2 DEF Over
<1>4. CASE Task1.kind # "overflow" /\ Leaves(changed) /\ Yields
  <2>1. run'.stage = run.stage
    BY <1>1, <1>4 DEF Leaves, Runs
  <2>2. manual' = manual
    BY <1>4 DEF Yields
  <2> QED BY <1>4, <2>1, <2>2
<1>5. CASE /\ Task1.kind = "overflow"
           /\ run' = [run EXCEPT !.stage = "ready", !.landed = FALSE]
           /\ UNCHANGED <<pending, manual>>
  <2>1. run'.stage = "ready"
    BY <1>1, <1>5 DEF Runs
  <2> QED BY <1>3, <1>5, <2>1
<1>6. CASE Task1.kind = "overflow" /\ run' = NoRun /\ RunSettled(Tail(chain))
  <2>1. run'.stage = "idle"
    BY <1>6 DEF NoRun
  <2>2. manual' => manual
    BY <1>6 DEF RunSettled
  <2> QED BY <2>1, <2>2
<1> QED BY <1>4, <1>5, <1>6 DEF Finish

LEMMA RecentStays ==
  ASSUME IInv, HeadBegun, [Next]_vars, ~Reopen, ~StartRun, Recent'
  PROVE  Recent
<1>1. CASE BeginNothing \/ Completed \/ Refused \/ ClosedWithout
  <2>1. PICK compacted, changed : chain # <<>> /\ Finish(compacted, changed)
    BY <1>1, ChainFinishes
  <2>2. (run'.stage # "idle" => run.stage # "idle") /\ (manual' => manual)
    BY <2>1, FinishStages
  <2>3. (\E j \in DOMAIN chain' : chain'[j].kind = "drained")
          => manual \/ \E i \in DOMAIN chain : chain[i].kind = "drained"
    BY <1>1, OverTasks
  <2> QED BY <2>2, <2>3 DEF Recent, Busy
<1>2. CASE Begin
  <2>1. run' = run /\ manual' = manual
    BY <1>2 DEF Begin, runVars, seatVars
  <2>2. DOMAIN chain' = DOMAIN chain /\ \A j \in DOMAIN chain : chain'[j].kind = chain[j].kind
    BY <1>2, BeginTasks
  <2> QED BY <2>1, <2>2 DEF Recent, Busy
<1>3. CASE ~(BeginNothing \/ Completed \/ Refused \/ ClosedWithout \/ Begin)
  <2>1. Busy' => Busy
    BY <1>3 DEF Next, RunStep, ChainStep, Request, Calls, BatchDone, Reply, FollowUp, Error, Fail,
                OccludeFails, Retry, Wake, AbortInSleep, Overflow, CompactNow, CompactLater,
                CooldownOver, vars, runVars, Busy
  <2>2. manual' => manual \/ Busy
    BY <1>3 DEF Next, RunStep, ChainStep, Request, Calls, BatchDone, Reply, FollowUp, Error, Fail,
                OccludeFails, Retry, Wake, AbortInSleep, Overflow, CompactNow, CompactLater,
                CooldownOver, vars, seatVars, Busy, RunSettled
  <2>3. (\E j \in DOMAIN chain' : chain'[j].kind = "drained")
          => manual \/ \E i \in DOMAIN chain : chain[i].kind = "drained"
    BY <1>3, OtherTasks
  <2> QED BY <2>1, <2>2, <2>3 DEF Recent
<1> QED BY <1>1, <1>2, <1>3

LEMMA FreshKeeps ==
  ASSUME IInv, HeadBegun, Fresh, Moves, [Next]_vars, ~Reopen
  PROVE  Fresh'
<1>1. CASE StartRun
  <2> DEFINE u == Len(log) + 1
  <2>1. Joins(log', log, <<Event("user")>>) /\ log \in Seq(Events) /\ Len(log) \in Nat
    BY <1>1 DEF StartRun, Add, Joins, IInv, WellFormed
  <2>2. <<Event("user")>> \in Seq(Events) /\ Len(<<Event("user")>>) = 1 /\ <<Event("user")>>[1].type = "user"
    BY DEF Event, Events, Types, Messages
  <2> DEFINE e == <<Event("user")>>
  <2>3. Joins(log', log, e) /\ e \in Seq(Events) /\ Len(e) = 1 /\ e[1].type = "user"
    BY <2>1, <2>2
  <2> HIDE DEF e
  <2> DEFINE l == log
             m == log'
  <2>4. Joins(m, l, e) /\ l \in Seq(Events) /\ Len(l) \in Nat /\ e \in Seq(Events)
    BY <2>1, <2>3
  <2> HIDE DEF l, m
  <2>5. m \in Seq(Events) /\ Len(m) = Len(l) + Len(e) /\ \A i \in 1..Len(e) : m[Len(l) + i] = e[i]
    BY ONLY <2>4, Appended
  <2>6. m[Len(l) + 1] = e[1] /\ Len(m) = Len(l) + 1
    BY <2>3, <2>5
  <2>7. Len(l) + 1 \in At(m, Messages)
    BY <2>3, <2>4, <2>5, <2>6 DEF At, Messages
  <2>8. \A t \in At(m, {"turn/end"}) : t \in Nat /\ t <= Len(l) + 1
    BY <2>5, <2>6, AtProps
  <2>9. \A t \in At(m, {"turn/end"}) : ~(t > Len(l) + 1)
    BY <2>4, <2>8
  <2>10. EndsBehindMessages(m)
    BY <2>7, <2>9 DEF EndsBehindMessages
  <2> QED BY <2>10 DEF Fresh, m
<1>2. CASE ~StartRun /\ Recent'
  <2>1. EndsBehindMessages(log)
    BY <1>2, RecentStays DEF Fresh
  <2> DEFINE l == log
             m == log'
  <2>2. /\ Grows(m, l) /\ EndsBehindMessages(l)
        /\ \A t \in New(m, l, {"turn/end"}) : t > 1 /\ m[t - 1].type \in {"reply", "error"}
    BY <2>1 DEF Moves
  <2> HIDE DEF l, m
  <2>3. EndsBehindMessages(m)
    BY <2>2, MessagesStill
  <2> QED BY <2>3 DEF Fresh, m
<1>3. CASE ~Recent'
  BY <1>3 DEF Fresh
<1> QED BY <1>1, <1>2, <1>3

(* A turn is closed when nothing runs. *)
LEMMA TurnsKeeps ==
  ASSUME IInv, TurnsHoldCalls(log), Moves
  PROVE  TurnsHoldCalls(log')
<1>1. run.stage = "asking" => Unanswered(log) = {}
  BY DEF IInv, Answered
<1> DEFINE l == log
           m == log'
<1>2. /\ Grows(m, l) /\ TurnsHoldCalls(l)
      /\ \A k \in New(m, l, Carriers) : m[k].first <= m[k].last
      /\ \/ New(m, l, {"turn/end"}) = {}
         \/ New(m, l, {"calls"}) = {} /\ Unanswered(l) = {}
  BY <1>1 DEF Moves
<1> HIDE DEF l, m
<1>3. TurnsHoldCalls(m)
  BY <1>2, TurnsStill
<1> QED BY <1>3 DEF m
-----------------------------------------------------------------------------
(* The error that the hook is about.                                       *)
LEMMA FailedProps ==
  ASSUME IInv, run.stage = "hook"
  PROVE  /\ FailedTail.first \in Nat /\ FailedTail.first >= 1 /\ FailedTail.first <= Len(log)
         /\ FailedTail.last = Len(log) /\ Len(log) \in Nat /\ log \in Seq(Events)
<1> DEFINE S == At(log, {"reply", "calls", "error"})
           n == Len(log)
<1>1. S # {} /\ log \in Seq(Events) /\ n \in Nat
  BY DEF IInv, ErrorIsThere, At, WellFormed
<1>2. S \subseteq 1..n
  BY <1>1, AtProps
<1> HIDE DEF S, n
<1>3. S \subseteq 0..n /\ n \in Nat /\ S # {}
  BY <1>1, <1>2
<1>4. Max(S) \in S
  BY ONLY <1>3, MaxIsMost
<1>5. Max(S) \in 1..n
  BY <1>2, <1>4
<1>6. FailedTail = Interval(Max(S), n)
  BY DEF FailedTail, S, n
<1>7. FailedTail.first = Max(S) /\ FailedTail.last = n
  BY <1>6 DEF Interval
<1> QED BY <1>1, <1>5, <1>7 DEF n

LEMMA FailedStays ==
  ASSUME IInv, Moves, run.stage = "hook"
  PROVE  (FailedTail.first)' = FailedTail.first
<1> DEFINE T == {"reply", "calls", "error"}
           l == log
           m == log'
<1>1. Grows(m, l) /\ New(m, l, Spoken) = {}
  BY DEF Moves
<1> HIDE DEF l, m
<1>2. New(m, l, T) = {}
  BY <1>1 DEF New, At, Spoken
<1>3. \A i : i \in At(m, T) <=> i \in At(l, T)
  BY <1>1, <1>2, GrowsProps
<1>4. At(m, T) = At(l, T)
  BY <1>3
<1> QED BY <1>4 DEF FailedTail, Interval, l, m

(* What a step does that leaves the run in the hook.                       *)
LEMMA HookSteps ==
  ASSUME IInv, [Next]_vars, ~Reopen, run'.stage = "hook"
  PROVE  \/ Error
         \/ /\ run.stage = "hook"
            /\ \/ Begin
               \/ BeginNothing \/ Completed \/ Refused \/ ClosedWithout
               \/ log' = log /\ chain' = chain
<1>1. CASE BeginNothing \/ Completed \/ Refused \/ ClosedWithout
  <2>1. PICK compacted, changed : chain # <<>> /\ Finish(compacted, changed)
    BY <1>1, ChainFinishes
  <2>2. run.stage = "hook"
    BY <2>1, FinishStages
  <2> QED BY <1>1, <2>2
<1>2. CASE Begin
  <2>1. run.stage = "hook"
    BY <1>2 DEF Begin, runVars
  <2> QED BY <1>2, <2>1
<1>3. CASE ~(BeginNothing \/ Completed \/ Refused \/ ClosedWithout \/ Begin)
  <2>1. run \in Runs
    BY DEF IInv, TypeOK
  <2>2. CASE CompactNow
    BY <2>2, <1>3 DEF CompactNow, runVars, Busy
  <2>3. CASE CompactLater \/ CooldownOver \/ UNCHANGED vars
    <3>1. run' = run /\ log' = log /\ chain' = chain
      BY <2>3 DEF CompactLater, CooldownOver, vars, runVars
    <3> QED BY <3>1
  <2>4. CASE RunStep /\ ~Error
    <3>1. run' # NoRun /\ run'.stage \notin {"idle", "ready", "asking", "batch", "sleep", "overflow"}
      BY DEF NoRun
    <3>2. ~StartRun /\ ~Request
      <4>1. NoRun.stage = "idle" /\ [NoRun EXCEPT !.stage = "ready"].stage = "ready"
            /\ [NoRun EXCEPT !.crashed = TRUE].stage = "idle"
        BY DEF NoRun
      <4>2. [run EXCEPT !.stage = "asking"].stage = "asking"
        BY <2>1 DEF Runs
      <4> QED BY <4>1, <4>2, <3>1 DEF StartRun, Request, Goto, Crashes
    <3>3. ~Calls /\ ~BatchDone /\ ~FollowUp /\ ~Wake
      <4>1. [run EXCEPT !.stage = "batch"].stage = "batch" /\ [run EXCEPT !.stage = "ready"].stage = "ready"
        BY <2>1 DEF Runs
      <4> QED BY <4>1, <3>1 DEF Calls, BatchDone, FollowUp, Wake, Goto
    <3>4. ~Reply /\ ~Fail /\ ~AbortInSleep
      BY <3>1 DEF Reply, Fail, AbortInSleep
    <3>5. ~OccludeFails
      BY <3>1 DEF OccludeFails, Crashes, NoRun
    <3>6. ~Retry /\ ~Overflow
      <4>1. /\ [run EXCEPT !.stage = "sleep", !.retries = @ + 1, !.landed = FALSE].stage = "sleep"
            /\ [run EXCEPT !.stage = "overflow", !.overflowed = TRUE].stage = "overflow"
        BY <2>1 DEF Runs
      <4> QED BY <4>1, <3>1 DEF Retry, Overflow
    <3> QED BY <2>4, <3>2, <3>3, <3>4, <3>5, <3>6 DEF RunStep
  <2> QED BY <1>3, <2>2, <2>3, <2>4 DEF Next, ChainStep
<1> QED BY <1>1, <1>2, <1>3

(* A run in the hook: the chain has one task, and is empty when that is    *)
(* over, but for the evaluation behind a manual one.                       *)
LEMMA HookChain ==
  ASSUME IInv, run.stage = "hook", chain # <<>>, NEW compacted, NEW changed, Finish(compacted, changed),
         run'.stage = "hook"
  PROVE  \/ chain' = <<>>
         \/ Task1.kind = "drained" /\ chain' = <<Task("threshold")>>
<1>1. /\ chain \in Seq(Tasks) /\ Single(chain) /\ ~Over(chain)
  BY SeatsAre
<1>2. Len(chain) = 1
  <2>1. Len(chain) \in Nat /\ DOMAIN chain = 1..Len(chain) /\ Len(chain) # 0
    BY <1>1
  <2>2. ~(Len(chain) >= 2)
    <3>1. ASSUME Len(chain) >= 2 PROVE FALSE
      <4>1. 1 \in DOMAIN chain /\ 2 \in DOMAIN chain
        BY <2>1, <3>1
      <4>2. chain[1].kind # "overflow" /\ chain[2].kind # "overflow"
        BY <1>1, <4>1 DEF Over
      <4>3. 1 = 2
        BY <1>1, <4>1, <4>2 DEF Single
      <4> QED BY <4>3
    <3> QED BY <3>1
  <2> QED BY <2>1, <2>2
<1>3. Tail(chain) = <<>>
  <2>1. Tail(chain) \in Seq(Tasks) /\ Len(Tail(chain)) = 0
    BY <1>1, <1>2
  <2> QED BY <2>1
<1>4. Yields
  BY FinishStages
<1>5. CASE chain' = Tail(chain)
  BY <1>3, <1>5
<1>6. CASE Task1.kind = "drained" /\ Evaluate(FALSE, Tail(chain))
  <2>1. chain' = Tail(chain) \/ chain' = Append(Tail(chain), Task("threshold"))
    BY <1>6 DEF Evaluate
  <2>2. Append(<<>>, Task("threshold")) = <<Task("threshold")>>
    OBVIOUS
  <2> QED BY <1>3, <1>6, <2>1, <2>2
<1> QED BY <1>4, <1>5, <1>6 DEF Yields
-----------------------------------------------------------------------------
(* A retry can hide the error only when no carrier came behind it. *)
LEMMA AcceptedMayRetry ==
  ASSUME IInv, run.stage = "hook", AcceptsRetry(log, FailedTail)
  PROVE  MayRetry
<1> DEFINE l == log
           e == FailedTail.first
           n == FailedTail.last
<1>1. /\ e \in Nat /\ n = Len(l) /\ n \in Nat /\ l \in Seq(Events)
      /\ (e .. n) \cap (Occluded(l) \cup At(l, Carriers)) = {}
  BY FailedProps DEF AcceptsRetry, Untouched
<1> HIDE DEF l, e, n
<1>2. ASSUME NEW k \in At(l, Carriers) PROVE k < e
  <2>1. k \in Nat /\ k <= n
    BY <1>1, AtProps
  <2>2. k \notin e .. n
    BY <1>1
  <2> QED BY <1>1, <2>1, <2>2
<1> QED BY <1>2 DEF MayRetry, l, e

(* What comes during the wait for a summary does not touch the interval, if *)
(* that is one of a manual request or may be hidden.                       *)
LEMMA Escapes ==
  ASSUME IInv, SparesError, Moves, ~Completed, NEW i \in DOMAIN chain, chain[i].plan # NoInterval,
         chain[i].kind = "drained" \/ AcceptsSurface(log, chain[i].plan)
  PROVE  LET p == chain[i].plan
         IN  /\ p.first \in Nat /\ p.last \in Nat /\ p.last <= Len(log)
             /\ New(log', log, {"surface"}) = {}
             /\ \A k \in New(log', log, Carriers) : \A x \in p.first .. p.last : x \notin Hides(log', k)
             /\ \A r \in New(log', log, {"result"}) : log'[r].first \notin p.first .. p.last
<1> DEFINE p == chain[i].plan
<1>1. p.first \in Nat /\ p.last \in Nat /\ p.last <= Len(log) /\ (run.stage = "batch" => p.last < LastCall)
  <2>1. chain \in Seq(Tasks) /\ PlansLieInLog /\ CallIsSafe
    BY DEF IInv, TypeOK
  <2>2. chain[i] \in Tasks
    BY <2>1
  <2> QED BY <2>1, <2>2 DEF Tasks, PlansLieInLog, CallIsSafe
<1>2. New(log', log, {"surface"}) = {}
  BY DEF Moves
<1>3. ASSUME NEW k \in New(log', log, Carriers), NEW x \in p.first .. p.last PROVE x \notin Hides(log', k)
  <2>1. k \in New(log', log, {"surface"}) \/ k \in New(log', log, {"retry"})
    BY DEF New, At, Carriers
  <2>2. run.stage = "hook" /\ AcceptsRetry(log, FailedTail) /\ log'[k].first = FailedTail.first
    BY <1>2, <2>1 DEF Moves
  <2>3. FailedTail.first \in Nat /\ MayRetry
    BY <2>2, FailedProps, AcceptedMayRetry
  <2>4. p.last < FailedTail.first
    BY <2>3 DEF SparesError
  <2>5. log'[k].last \in Int
    <3>1. Grows(log', log)
      BY DEF Moves
    <3> DEFINE l == log
               m == log'
    <3>2. m \in Seq(Events) /\ k \in 1..Len(m)
      <4>1. Grows(m, l) /\ k \in New(m, l, Carriers)
        BY <3>1
      <4> HIDE DEF l, m
      <4> QED BY <4>1, GrowsProps
    <3>3. m[k] \in Events
      BY <3>2
    <3> QED BY <3>3 DEF Events
  <2>6. x < FailedTail.first
    BY <1>1, <2>3, <2>4
  <2> DEFINE a == log'[k].first
             b == log'[k].last
  <2>7. a = FailedTail.first /\ b \in Int /\ Hides(log', k) = a .. b
    BY <2>2, <2>5 DEF Hides
  <2> HIDE DEF a, b
  <2> QED BY <1>1, <2>3, <2>6, <2>7
<1>4. ASSUME NEW r \in New(log', log, {"result"}) PROVE log'[r].first \notin p.first .. p.last
  <2>1. run.stage = "batch" /\ log'[r].first = LastCall
    BY DEF Moves
  <2>2. p.last < LastCall
    BY <1>1, <2>1
  <2>3. LastCall \in Nat
    <3>1. log \in Seq(Events)
      BY DEF IInv, WellFormed
    <3> QED BY <2>1, <3>1, UnansweredProps DEF IInv, CallIsSafe
  <2> HIDE DEF p
  <2>4. LastCall \notin p.first .. p.last
    BY <1>1, <2>2, <2>3
  <2> QED BY <2>1, <2>4
<1> QED BY <1>1, <1>2, <1>3, <1>4

(* The intervals of manual requests. *)
LEMMA NotCutKeeps ==
  ASSUME IInv, HeadBegun, TurnsHoldCalls(log), Fresh, SparesError, NotCut, Moves,
         [Next]_vars, ~Reopen
  PROVE  NotCut'
<1>1. ASSUME TailKeep = 1, NEW j \in DOMAIN chain', chain'[j].kind = "drained",
             chain'[j].plan # NoInterval
      PROVE  LeavesNoResult(log', chain'[j].plan)
  <2>1. CASE Begin
    <3>1. /\ log' = log /\ 1 \in DOMAIN chain /\ j \in DOMAIN chain
          /\ chain'[j].kind = chain[j].kind
          /\ chain'[1].plan = PlanSegment(log, TailKeep)
          /\ j # 1 => chain'[j] = chain[j]
      BY <2>1, BeginTasks DEF Begin
    <3>2. CASE j = 1
      <4> DEFINE l == log
                 p == PlanSegment(l, 1)
      <4>1. EndsBehindMessages(l)
        BY <1>1, <3>1 DEF Fresh, Recent
      <4>2. WellFormed(l) /\ TurnsHoldCalls(l) /\ p # NoInterval /\ chain'[j].plan = p
        BY <1>1, <3>1, <3>2 DEF IInv
      <4> HIDE DEF l
      <4>3. LeavesNoResult(l, p)
        BY <4>1, <4>2, ChosenLeavesNoResult
      <4>4. LeavesNoResult(l, chain'[j].plan)
        BY <4>2, <4>3
      <4> QED BY <3>1, <4>4 DEF l
    <3>3. CASE j # 1
      BY <1>1, <3>1, <3>3 DEF NotCut
    <3> QED BY <3>2, <3>3
  <2>2. CASE ~Begin
    <3>1. ~Completed /\ \E i \in DOMAIN chain : chain'[j] = chain[i]
      BY <1>1, <2>2, OtherTasks
    <3>2. PICK i \in DOMAIN chain : chain'[j] = chain[i]
      BY <3>1
    <3> DEFINE p == chain[i].plan
               l == log
               m == log'
    <3>3. chain[i].kind = "drained" /\ p # NoInterval /\ LeavesNoResult(l, p)
      BY <1>1, <3>2 DEF NotCut
    <3>4. /\ p.first \in Nat /\ p.last \in Nat /\ p.last <= Len(l)
          /\ New(m, l, {"surface"}) = {}
          /\ \A k \in New(m, l, Carriers) : \A x \in p.first .. p.last : x \notin Hides(m, k)
          /\ \A r \in New(m, l, {"result"}) : m[r].first \notin p.first .. p.last
      BY <3>1, <3>3, Escapes
    <3>5. Grows(m, l)
      BY DEF Moves
    <3> HIDE DEF p, l, m
    <3>6. p.first \in p.first .. p.last
      <4>1. p.first <= p.last
        BY <3>3 DEF LeavesNoResult
      <4> QED BY <3>4, <4>1
    <3>7. \A k \in New(m, l, Carriers) : p.first \notin Hides(m, k)
      BY <3>4, <3>6
    <3>8. LeavesNoResult(m, p)
      BY <3>3, <3>4, <3>5, <3>7, NoResultStays
    <3> QED BY <3>2, <3>8 DEF p, m
  <2> QED BY <2>1, <2>2
<1> QED BY <1>1 DEF NotCut
-----------------------------------------------------------------------------
(* The run comes to the hook with a new error at the end of the log. *)
LEMMA ErrorStep ==
  ASSUME IInv, IInv', Error
  PROVE  /\ (FailedTail.first)' = Len(log) + 1 /\ Len(log) \in Nat
         /\ log'[Len(log) + 1].type = "error" /\ chain' = chain
         /\ \A T : \A i \in At(log', T) : i > Len(log) + 1 => log'[i].type = "turn/end"
<1> DEFINE e == Closing("error")
           l == log
           m == log'
<1>1. Joins(log', log, e) /\ chain' = chain
  BY DEF Error, Push, Add, Joins
<1>2. e \in Seq(Events) /\ Len(e) = 2 /\ e[1].type = "error" /\ e[2].type = "turn/end"
  BY DEF Closing, Event, Events, Types, Messages
<1>3. l \in Seq(Events) /\ e \in Seq(Events) /\ Joins(m, l, e)
  BY <1>1, <1>2 DEF IInv, WellFormed
<1>4. (FailedTail.first)' = Max(At(m, {"reply", "calls", "error"}))
  BY DEF FailedTail, Interval
<1> HIDE DEF e, l, m
<1>5. /\ m \in Seq(Events) /\ Len(m) = Len(l) + Len(e) /\ Len(l) \in Nat
      /\ \A i \in 1..Len(e) : m[Len(l) + i] = e[i]
  <2>1. m \in Seq(Events) /\ Len(m) = Len(l) + Len(e) /\ \A i \in 1..Len(e) : m[Len(l) + i] = e[i]
    BY ONLY <1>3, Appended
  <2> QED BY <1>3, <2>1
<1>6. Len(m) = Len(l) + 2 /\ m[Len(l) + 1] = e[1] /\ m[Len(l) + 2] = e[2]
  BY <1>2, <1>5
<1>7. ASSUME NEW T, NEW i \in At(m, T), i > Len(l) + 1 PROVE m[i].type = "turn/end"
  <2>1. i \in Nat /\ i <= Len(m)
    BY <1>5, AtProps
  <2>2. i = Len(l) + 2
    BY <1>5, <1>6, <1>7, <2>1
  <2> QED BY <1>2, <1>6, <2>2
<1> DEFINE S == At(m, {"reply", "calls", "error"})
           n == Len(l) + 2
<1>8. Len(l) + 1 \in S
  BY <1>2, <1>5, <1>6 DEF At
<1>9. S \subseteq 0..n /\ n \in Nat /\ S # {}
  <2>1. S \subseteq 1..Len(m)
    BY <1>5, AtProps
  <2> QED BY <1>5, <1>6, <1>8, <2>1
<1>10. \A i \in S : m[i].type # "turn/end"
  BY DEF At
<1>11. \A i \in S : ~(i > Len(l) + 1)
  BY <1>7, <1>10
<1> HIDE DEF S, n
<1>12. Max(S) \in S /\ \A y \in S : y <= Max(S)
  BY ONLY <1>9, MaxIsMost
<1>13. Max(S) \in Nat /\ ~(Max(S) > Len(l) + 1) /\ Len(l) + 1 <= Max(S)
  <2>1. \A y \in S : y \in Nat
    BY <1>9
  <2> QED BY <1>8, <1>11, <1>12, <2>1
<1>14. Max(S) = Len(l) + 1
  BY <1>5, <1>13
<1> QED BY <1>1, <1>2, <1>4, <1>5, <1>6, <1>7, <1>14 DEF S, l, m

LEMMA HookShapeKeeps ==
  ASSUME IInv, IInv', HookShape, Moves, [Next]_vars, ~Reopen
  PROVE  HookShape'
<1>1. CASE Error
  <2> DEFINE n == Len(log) + 1
             m == log'
  <2>1. /\ (FailedTail.first)' = n /\ m[n].type = "error"
        /\ \A i \in At(m, Messages) : i > n => m[i].type = "turn/end"
    BY <1>1, ErrorStep
  <2>2. \A i \in At(m, Messages) : m[i].type # "turn/end"
    BY DEF At, Messages
  <2> QED BY <2>1, <2>2 DEF HookShape
<1>2. CASE ~Error /\ run'.stage = "hook"
  <2>1. run.stage = "hook"
    BY <1>2, HookSteps
  <2> DEFINE e == FailedTail.first
             l == log
             m == log'
  <2>2. /\ (FailedTail.first)' = e /\ e \in Nat /\ e >= 1 /\ e <= Len(l)
        /\ l[e].type = "error" /\ \A i \in At(l, Messages) : i > e => l[i].type = "summary"
        /\ Grows(m, l) /\ New(m, l, Spoken) = {}
    BY <2>1, FailedProps, FailedStays DEF HookShape, Moves
  <2> HIDE DEF e, l, m
  <2>3. m[e] = l[e]
    BY <2>2 DEF Grows
  <2>4. ASSUME NEW i \in At(m, Messages), i > e PROVE m[i].type = "summary"
    <3>1. CASE i \in At(l, Messages)
      <4>1. m[i] = l[i]
        BY <2>2, <3>1, GrowsProps
      <4> QED BY <2>2, <2>4, <3>1, <4>1
    <3>2. CASE i \in New(m, l, Messages)
      <4>1. m[i].type \notin Spoken
        BY <2>2, <3>2 DEF New, At
      <4>2. m[i].type \in Messages
        BY DEF At
      <4> QED BY <4>1, <4>2 DEF Messages, Spoken
    <3>3. i \in At(l, Messages) \/ i \in New(m, l, Messages)
      BY <2>2, GrowsProps
    <3> QED BY <3>1, <3>2, <3>3
  <2> QED BY <2>2, <2>3, <2>4 DEF HookShape, m
<1>3. CASE run'.stage # "hook"
  BY <1>3 DEF HookShape
<1> QED BY <1>1, <1>2, <1>3

(* While the error may be hidden, no carrier comes.                        *)
LEMMA StillMayRetry ==
  ASSUME IInv, Moves, run.stage = "hook", MayRetry'
  PROVE  MayRetry /\ New(log', log, Carriers) = {}
<1> DEFINE e == FailedTail.first
           l == log
           m == log'
<1>1. /\ Grows(m, l) /\ e \in Nat /\ e <= Len(l) /\ Len(l) \in Nat
      /\ \A k \in At(m, Carriers) : k < e
  BY FailedProps, FailedStays DEF MayRetry, Moves
<1> HIDE DEF e, l, m
<1>2. \A k \in At(l, Carriers) : k \in At(m, Carriers)
  BY <1>1, GrowsProps
<1>3. ASSUME NEW k \in New(m, l, Carriers) PROVE FALSE
  <2>1. k > Len(l) /\ k \in 1..Len(m) /\ k < e
    BY <1>1, GrowsProps DEF New
  <2>2. k \in Nat
    BY <2>1
  <2> QED BY <1>1, <2>1, <2>2
<1> QED BY <1>1, <1>2, <1>3 DEF MayRetry, e, l, m

LEMMA SparesErrorKeeps ==
  ASSUME IInv, IInv', HeadBegun, HookShape, SparesError, AfterRefusal, Moves, [Next]_vars, ~Reopen
  PROVE  SparesError'
<1>1. CASE Error
  <2>1. /\ (FailedTail.first)' = Len(log) + 1 /\ Len(log) \in Nat /\ chain' = chain
    BY <1>1, ErrorStep
  <2>2. \A i \in DOMAIN chain : chain[i].plan.last \in Nat /\ chain[i].plan.last <= Len(log)
    <3>1. chain \in Seq(Tasks) /\ PlansLieInLog
      BY DEF IInv, TypeOK
    <3>2. \A i \in DOMAIN chain : chain[i] \in Tasks
      BY <3>1
    <3> QED BY <3>1, <3>2 DEF Tasks, PlansLieInLog
  <2>3. \A i \in DOMAIN chain : chain[i].plan.last < Len(log) + 1
    BY <2>1, <2>2
  <2> QED BY <2>1, <2>3 DEF SparesError
<1>2. ASSUME ~Error, MayRetry', NEW j \in DOMAIN chain'
      PROVE  \/ chain'[j].plan.last < (FailedTail.first)'
             \/ chain'[j].kind # "drained" /\ ~AcceptsSurface(log', chain'[j].plan)
  <2>1. run'.stage = "hook"
    BY <1>2 DEF MayRetry
  <2>2. run.stage = "hook"
    BY <1>2, <2>1, HookSteps
  <2>3. MayRetry /\ (FailedTail.first)' = FailedTail.first
    BY <1>2, <2>2, StillMayRetry, FailedStays
  <2>4. CASE log' = log /\ chain' = chain
    BY <2>3, <2>4 DEF SparesError
  <2>5. CASE Begin
    <3>1. /\ log' = log /\ 1 \in DOMAIN chain /\ j \in DOMAIN chain /\ chain # <<>>
          /\ chain'[j].kind = chain[j].kind
          /\ chain'[1].plan = PlanSegment(log, TailKeep)
          /\ j # 1 => chain'[j] = chain[j]
          /\ PlanSegment(log, TailKeep) # NoInterval /\ Task1.plan = NoInterval
          /\ Task1 = chain[1]
      BY <2>5, BeginTasks DEF Begin, Waits, Task1
    <3>2. CASE j # 1
      BY <2>3, <3>1, <3>2 DEF SparesError
    <3>3. CASE j = 1
      <4> DEFINE l == log
                 p == PlanSegment(l, TailKeep)
                 e == FailedTail.first
      <4>1. /\ WellFormed(l) /\ p # NoInterval /\ e \in Nat /\ TailKeep \in Nat \ {0}
            /\ \A k \in At(l, Carriers) : k < e
            /\ \A i \in At(l, Messages) : i > e => l[i].type = "summary"
        BY <2>2, <2>3, <3>1, FailedProps, CompactionAssumption DEF IInv, HookShape, MayRetry
      <4>2. \A s \in At(l, {"summary"}) : s > e =>
              /\ \A q \in At(l, {"summary"}) : q > e => q = s
              /\ chain[1].kind # "drained"
              /\ TailKeep = 1 => Blocked(l, e)
        BY <2>3, <3>1 DEF AfterRefusal
      <4> HIDE DEF l, e
      <4>3. \A s, q \in At(l, {"summary"}) : s > e /\ q > e => s = q
        BY <4>2
      <4>4. /\ (\A s \in At(l, {"summary"}) : ~(s > e)) => p.last < e
            /\ (TailKeep = 1 => Blocked(l, e)) => p.last < e \/ ~AcceptsSurface(l, p)
        <5> HIDE DEF p
        <5>1. p = PlanSegment(l, TailKeep)
          BY DEF p
        <5> QED BY ONLY <4>1, <4>3, <5>1, ChosenSpares
      <4>5. p.last < e \/ (chain[1].kind # "drained" /\ ~AcceptsSurface(l, p))
        BY <4>2, <4>4
      <4>6. chain'[j].plan = p /\ log' = l /\ (FailedTail.first)' = e /\ chain'[j].kind = chain[1].kind
        BY <2>3, <3>1, <3>3 DEF l, e
      <4> QED BY <4>5, <4>6
    <3> QED BY <3>2, <3>3
  <2>6. CASE BeginNothing \/ Completed \/ Refused \/ ClosedWithout
    <3>1. chain'[j].plan = NoInterval
      BY <2>6, OverTasks DEF AllWait
    <3>2. chain'[j].plan.last = 0
      BY <3>1 DEF NoInterval, Interval
    <3>3. FailedTail.first \in Nat /\ FailedTail.first >= 1
      BY <2>2, FailedProps
    <3> QED BY <2>3, <3>2, <3>3
  <2> QED BY <1>2, <2>1, <2>4, <2>5, <2>6, HookSteps
<1> QED BY <1>1, <1>2 DEF SparesError
-----------------------------------------------------------------------------
(* What the half of a compaction that is refused leaves, and one that is   *)
(* closed without a summary.                                               *)
LEMMA HalfSteps ==
  ASSUME IInv, IInv', NEW t \in {"summary", "closed"}, Joins(log', log, <<Event("start"), Event(t)>>)
  PROVE  /\ New(log', log, Carriers) = {} /\ New(log', log, {"result"}) = {}
         /\ \A s \in New(log', log, {"summary"}) : t = "summary" /\ s = Len(log) + 2
<1> DEFINE e == <<Event("start"), Event(t)>>
<1>1. e \in Seq(Events) /\ Len(e) = 2 /\ e[1].type = "start" /\ e[2].type = t
  BY DEF Event, Events, Types, Messages
<1>2. Joins(log', log, e)
  OBVIOUS
<1> HIDE DEF e
<1>3. /\ Len(log) \in Nat
      /\ \A T : \A i \in New(log', log, T) :
           i \in Nat /\ i - Len(log) \in 1..Len(e) /\ e[i - Len(log)].type \in T
  BY <1>1, <1>2, MovesAppend
<1>4. \A T : \A i \in New(log', log, T) :
        (i - Len(log) = 1 /\ "start" \in T) \/ (i - Len(log) = 2 /\ t \in T)
  <2>1. \A j \in 1..Len(e) : j = 1 \/ j = 2
    BY <1>1
  <2> QED BY <1>1, <1>3, <2>1
<1>5. New(log', log, Carriers) = {} /\ New(log', log, {"result"}) = {}
  BY <1>4 DEF Carriers
<1>6. ASSUME NEW s \in New(log', log, {"summary"}) PROVE t = "summary" /\ s = Len(log) + 2
  <2>1. s - Len(log) = 2 /\ t = "summary" /\ s \in Nat
    BY <1>3, <1>4
  <2> QED BY <1>3, <2>1
<1> QED BY <1>5, <1>6

LEMMA AfterRefusalKeeps ==
  ASSUME IInv, IInv', HeadBegun, SparesError, AfterRefusal, NotCut, Moves, [Next]_vars, ~Reopen
  PROVE  AfterRefusal'
<1> DEFINE e == FailedTail.first
           l == log
           m == log'
           Said(k) == /\ \A q \in At(m, {"summary"}) : q > e => q = k
                      /\ Task1'.kind # "drained"
                      /\ TailKeep = 1 /\ Task1'.plan = NoInterval => Blocked(m, e)
<1>1. CASE Error
  <2>1. /\ (FailedTail.first)' = Len(log) + 1
        /\ \A i \in At(log', {"summary"}) : i > Len(log) + 1 => log'[i].type = "turn/end"
    BY <1>1, ErrorStep
  <2>2. \A i \in At(log', {"summary"}) : log'[i].type = "summary"
    BY DEF At
  <2>3. \A i \in At(log', {"summary"}) : ~(i > Len(log) + 1)
    BY <2>1, <2>2
  <2> QED BY <2>1, <2>3 DEF AfterRefusal
<1>2. ASSUME ~Error, MayRetry', chain' # <<>>, NEW s \in At(m, {"summary"}), s > e,
             run.stage = "hook", MayRetry, New(m, l, Carriers) = {}, Grows(m, l)
      PROVE  Said(s)
  <2>1. run'.stage = "hook"
    BY <1>2 DEF MayRetry
  <2>3. CASE log' = log /\ chain' = chain
    BY <1>2, <2>3 DEF AfterRefusal, Task1
  <2>4. CASE Begin
    <3>1. /\ log' = log /\ 1 \in DOMAIN chain /\ chain # <<>>
          /\ chain'[1].kind = chain[1].kind
          /\ chain'[1].plan # NoInterval
          /\ Task1 = chain[1] /\ Task1' = chain'[1]
      BY <2>4, BeginTasks DEF Begin, Waits, Task1
    <3> QED BY <1>2, <3>1 DEF AfterRefusal
  <2>5. CASE BeginNothing \/ Completed \/ Refused \/ ClosedWithout
    <3>1. PICK compacted, changed : chain # <<>> /\ Finish(compacted, changed)
      BY <2>5, ChainFinishes
    <3>2. Task1.kind = "drained" /\ chain' = <<Task("threshold")>>
      BY <1>2, <2>1, <3>1, HookChain
    <3>3. \A q \in At(l, {"summary"}) : ~(q > e)
      BY <1>2, <3>1, <3>2 DEF AfterRefusal
    <3>4. CASE BeginNothing
      <4>1. m = l
        BY <3>4 DEF BeginNothing
      <4> QED BY <1>2, <3>3, <4>1
    <3>5. CASE ClosedWithout
      <4>1. Joins(log', log, <<Event("start"), Event("closed")>>)
        BY <3>5 DEF ClosedWithout, Add, Joins
      <4>2. \A q \in New(m, l, {"summary"}) : FALSE
        BY <4>1, HalfSteps
      <4> HIDE DEF l, m
      <4>3. s \in At(l, {"summary"})
        BY <1>2, <4>2, GrowsProps
      <4> QED BY <1>2, <3>3, <4>3
    <3>6. CASE Completed
      <4> DEFINE range == Task1.plan
      <4>1. /\ AcceptsSurface(l, range) /\ chain \in Seq(Tasks) /\ WellFormed(l) /\ l \in Seq(Events)
            /\ Joins(m, l, <<Event("start"), Event("summary"), Carrier("surface", range), Event("end")>>)
        BY <3>6 DEF Completed, Add, Joins, IInv, TypeOK, WellFormed
      <4>2. Task1 \in Tasks
        BY <3>1, <4>1, TailTask DEF Task1
      <4>3. range.first \in Nat /\ range.last \in Nat
        BY <4>2 DEF Tasks
      <4>4. /\ WellFormed(l) /\ range.first \in Nat /\ range.last \in Nat /\ AcceptsSurface(l, range)
            /\ Joins(m, l, <<Event("start"), Event("summary"), Carrier("surface", range), Event("end")>>)
        BY <4>1, <4>3
      <4> HIDE DEF l, m, range
      <4>5. \A T : At(m, T) = At(l, T) \cup (IF "start" \in T THEN {Len(l) + 1} ELSE {})
                                       \cup (IF "summary" \in T THEN {Len(l) + 2} ELSE {})
                                       \cup (IF "surface" \in T THEN {Len(l) + 3} ELSE {})
                                       \cup (IF "end" \in T THEN {Len(l) + 4} ELSE {})
        BY ONLY <4>4, SurfaceStep
      <4>6. Len(l) + 3 \in At(m, Carriers)
        BY <4>5 DEF Carriers
      <4>7. Len(l) \in Nat /\ Len(l) + 3 > Len(l)
        BY <4>1
      <4>8. Len(l) + 3 \in New(m, l, Carriers)
        BY <4>6, <4>7 DEF New
      <4> QED BY <1>2, <4>8
    <3>7. CASE Refused
      <4> DEFINE p == Task1.plan
      <4>1. /\ Joins(log', log, <<Event("start"), Event("summary")>>)
            /\ p # NoInterval /\ ~AcceptsSurface(l, p)
        BY <3>7 DEF Refused, Summarizes, Add, Joins
      <4>2. /\ New(m, l, Carriers) = {} /\ New(m, l, {"result"}) = {}
            /\ \A q \in New(m, l, {"summary"}) : q = Len(l) + 2
        BY <4>1, HalfSteps
      <4>3. PICK i \in DOMAIN chain : chain[i] = Task1
        <5>1. chain \in Seq(Tasks)
          BY DEF IInv, TypeOK
        <5> QED BY <3>1, <5>1, TailTask DEF Task1
      <4>4. p.first \in Nat /\ p.last \in Nat /\ p.last <= Len(l)
        <5>1. chain \in Seq(Tasks) /\ PlansLieInLog
          BY DEF IInv, TypeOK
        <5>2. chain[i] \in Tasks
          BY <5>1
        <5> QED BY <4>3, <5>1, <5>2 DEF Tasks, PlansLieInLog
      <4>5. p.last < e
        BY <1>2, <3>2, <4>3 DEF SparesError
      <4>6. TailKeep = 1 => LeavesNoResult(l, p)
        BY <3>2, <4>1, <4>3 DEF NotCut
      <4>7. e \in Nat
        BY <1>2, FailedProps
      <4>8. Task1'.kind = "threshold"
        <5>1. Task("threshold").kind = "threshold"
          BY TaskWaits
        <5>2. Task1' = Head(chain')
          BY DEF Task1
        <5>3. Head(<<Task("threshold")>>) = Task("threshold")
          OBVIOUS
        <5> QED BY <3>2, <5>1, <5>2, <5>3
      <4>9. WellFormed(m)
        BY <1>2 DEF Grows
      <4>10. \A q \in At(m, {"summary"}) : q > e => q = Len(l) + 2
        <5> HIDE DEF l, m, e
        <5>1. \A q \in At(m, {"summary"}) : q \in At(l, {"summary"}) \/ q \in New(m, l, {"summary"})
          BY <1>2, GrowsProps
        <5> QED BY <3>3, <4>2, <5>1
      <4>11. New(m, l, {"surface"}) = {}
        BY <4>2 DEF New, At, Carriers
      <4> HIDE DEF l, m, e, p
      <4>12. ASSUME TailKeep = 1 PROVE Blocked(m, e)
        <5>1. LeavesNoResult(l, p)
          BY <4>6, <4>12
        <5>2. LeavesNoResult(m, p)
          BY <1>2, <4>2, <4>4, <4>11, <5>1, NoResultStays
        <5>3. ~AcceptsSurface(m, p)
          BY <1>2, <4>1, <4>2, <4>4, RefusedStays
        <5>4. p.last <= Len(m)
          <6>1. Len(l) \in Nat /\ Len(m) \in Nat /\ Len(l) <= Len(m)
            BY <1>2, GrowsProps DEF Grows
          <6> QED BY <4>4, <6>1
        <5> QED BY <4>4, <4>5, <4>7, <4>9, <5>2, <5>3, <5>4, RefusedBlocks
      <4> QED BY <1>2, <4>8, <4>10, <4>12
    <3> QED BY <2>5, <3>4, <3>5, <3>6, <3>7
  <2> QED BY <1>2, <2>1, <2>3, <2>4, <2>5, HookSteps
<1>3. ASSUME ~Error, MayRetry', chain' # <<>>, NEW s \in At(m, {"summary"}), s > (FailedTail.first)'
      PROVE  Said(s) /\ (FailedTail.first)' = e
  <2>1. run.stage = "hook"
    BY <1>3, HookSteps DEF MayRetry
  <2>2. MayRetry /\ New(m, l, Carriers) = {} /\ Grows(m, l)
    BY <1>3, <2>1, StillMayRetry DEF Moves
  <2>3. (FailedTail.first)' = e
    BY <2>1, FailedStays
  <2> HIDE DEF Said
  <2> QED BY <1>2, <1>3, <2>1, <2>2, <2>3
<1> QED BY <1>1, <1>3 DEF AfterRefusal
-----------------------------------------------------------------------------
(* Recovery closes turns behind the results it appends. *)
LEMMA TurnsOfPrefix ==
  ASSUME NEW l, WellFormed(l), TurnsHoldCalls(l), NEW n \in 0..Len(l), NEW m, m = SubSeq(l, 1, n)
  PROVE  TurnsHoldCalls(m)
<1>1. /\ n \in Nat
      /\ \A T, i : i \in At(m, T) <=> i \in At(l, T) /\ i <= n
      /\ \A T : \A i \in At(m, T) : m[i] = l[i] /\ i \in At(l, T) /\ i \in Nat /\ i >= 1 /\ i <= n
  <2>1. l \in Seq(Events) /\ n \in 0..Len(l) /\ Begins(m, l, n)
    BY DEF WellFormed, Begins
  <2> QED BY ONLY <2>1, PrefixProps
<1>2. \A T : \A i \in At(l, T) : i \in Nat
  BY AtProps DEF WellFormed
<1>3. \A k \in At(m, Carriers) : m[k].first <= m[k].last /\ Hides(m, k) = Hides(l, k)
  BY <1>1 DEF TurnsHoldCalls, Hides
<1>4. ASSUME NEW c \in At(m, {"calls"}), NEW t \in At(m, {"turn/end"}), c < t
      PROVE  \/ \E r \in At(m, {"result"}) : r < t /\ m[r].first = c
             \/ \E k \in At(m, Carriers) : k < t /\ c \in Hides(m, k)
  <2>1. c \in At(l, {"calls"}) /\ t \in At(l, {"turn/end"}) /\ t \in Nat /\ t <= n
    BY <1>1
  <2>2. CASE \E r \in At(l, {"result"}) : r < t /\ l[r].first = c
    <3>1. PICK r \in At(l, {"result"}) : r < t /\ l[r].first = c
      BY <2>2
    <3>2. r <= n
      BY <1>1, <1>2, <2>1, <3>1
    <3>3. r \in At(m, {"result"}) /\ m[r] = l[r]
      BY <1>1, <3>2
    <3> QED BY <3>1, <3>3
  <2>3. CASE \E k \in At(l, Carriers) : k < t /\ c \in Hides(l, k)
    <3>1. PICK k \in At(l, Carriers) : k < t /\ c \in Hides(l, k)
      BY <2>3
    <3>2. k <= n
      BY <1>1, <1>2, <2>1, <3>1
    <3>3. k \in At(m, Carriers) /\ Hides(m, k) = Hides(l, k)
      BY <1>1, <1>3, <3>2
    <3> QED BY <3>1, <3>3
  <2> QED BY <1>4, <2>1, <2>2, <2>3 DEF TurnsHoldCalls
<1> QED BY <1>3, <1>4 DEF TurnsHoldCalls

LEMMA TurnsOfClosers ==
  ASSUME NEW l, WellFormed(l), TurnsHoldCalls(l), NEW m, Joins(m, l, Closers(l))
  PROVE  TurnsHoldCalls(m)
<1>1. WellFormed(m) /\ AnsweredFirst(m, l)
  BY ClosersSteps
<1>2. PICK k, a, d : /\ WellFormed(k) /\ Unanswered(k) = {}
                     /\ Joins(k, l, a) /\ Joins(m, k, d) /\ a \in Seq(Events) /\ d \in Seq(Events)
                     /\ \A i \in 1..Len(a) : a[i].type = "result"
                     /\ \A i \in 1..Len(d) : d[i].type \in {"closed", "turn/end"}
  BY <1>1 DEF AnsweredFirst
<1>3. /\ Grows(k, l)
      /\ \A T : \A i \in New(k, l, T) : i - Len(l) \in 1..Len(a) /\ a[i - Len(l)].type \in T
  BY <1>2, GrowsByAppending
<1>4. New(k, l, Carriers) = {} /\ New(k, l, {"turn/end"}) = {}
  BY <1>2, <1>3 DEF Carriers
<1>5. TurnsHoldCalls(k)
  BY <1>3, <1>4, TurnsStill
<1>6. /\ Grows(m, k)
      /\ \A T : \A i \in New(m, k, T) : i - Len(k) \in 1..Len(d) /\ d[i - Len(k)].type \in T
  BY <1>1, <1>2, GrowsByAppending
<1>7. New(m, k, Carriers) = {} /\ New(m, k, {"calls"}) = {}
  BY <1>2, <1>6 DEF Carriers
<1> QED BY <1>2, <1>5, <1>6, <1>7, TurnsStill

LEMMA ReopenPlans == ASSUME IInv, PInv, Reopen PROVE PInv'
<1>1. run' = NoRun /\ manual' = FALSE /\ chain' = <<>> /\ NoRun.stage = "idle" /\ DOMAIN <<>> = {}
  BY DEF Reopen, NoRun
<1>2. PICK kept \in Max({Len(Opening), Len(log) - MaxLost}) .. Len(log) :
        log' = SubSeq(log, 1, kept) \o Closers(SubSeq(log, 1, kept))
  BY DEF Reopen
<1>3. kept \in 0..Len(log)
  BY KeptProps
<1> DEFINE l == log
           cut == SubSeq(l, 1, kept)
           m == log'
<1>4. WellFormed(l) /\ TurnsHoldCalls(l) /\ kept \in 0..Len(l) /\ Joins(m, cut, Closers(cut))
  BY <1>2, <1>3 DEF IInv, PInv, Joins
<1>5. cut = SubSeq(l, 1, kept)
  OBVIOUS
<1> HIDE DEF l, cut, m
<1>6. WellFormed(cut) /\ TurnsHoldCalls(cut)
  BY ONLY <1>4, <1>5, PrefixKeeps, TurnsOfPrefix
<1>7. TurnsHoldCalls(m)
  BY ONLY <1>4, <1>6, TurnsOfClosers
<1>8. HeadBegun' /\ HookShape' /\ SparesError' /\ AfterRefusal' /\ NotCut'
  BY <1>1 DEF HeadBegun, HookShape, SparesError, AfterRefusal, NotCut, MayRetry
<1>9. Fresh'
  BY <1>1 DEF Fresh, Recent, Busy
<1> QED BY <1>7, <1>8, <1>9 DEF PInv, m

LEMMA InitPlans == ASSUME Init PROVE PInv
<1>1. /\ log = Opening /\ run = NoRun /\ manual = FALSE /\ chain = <<>>
      /\ NoRun.stage = "idle" /\ DOMAIN <<>> = {} /\ TurnsHoldCalls(Opening)
  BY CompactionAssumption DEF Init, NoRun
<1>2. HeadBegun /\ HookShape /\ SparesError /\ AfterRefusal /\ NotCut
  BY <1>1 DEF HeadBegun, HookShape, SparesError, AfterRefusal, NotCut, MayRetry
<1>3. Fresh
  BY <1>1 DEF Fresh, Recent, Busy
<1> QED BY <1>1, <1>2, <1>3 DEF PInv

LEMMA StepPlans == ASSUME IInv, PInv, [Next]_vars PROVE PInv'
<1>1. CASE Reopen
  BY <1>1, ReopenPlans
<1>2. CASE ~Reopen
  <2>1. IInv'
    BY StepHolds
  <2>2. Moves
    BY <1>2, <2>1, StepMoves
  <2>3. HeadBegun /\ HookShape /\ TurnsHoldCalls(log) /\ Fresh /\ SparesError /\ AfterRefusal /\ NotCut
    BY DEF PInv
  <2>4. HeadBegun'
    BY <1>2, <2>3, OtherTasks, BeginTasks
  <2>5. HookShape'
    BY <1>2, <2>1, <2>2, <2>3, HookShapeKeeps
  <2>6. TurnsHoldCalls(log')
    BY <2>2, <2>3, TurnsKeeps
  <2>7. Fresh'
    BY <1>2, <2>2, <2>3, FreshKeeps
  <2>8. SparesError'
    BY <1>2, <2>1, <2>2, <2>3, SparesErrorKeeps
  <2>9. AfterRefusal'
    BY <1>2, <2>1, <2>2, <2>3, AfterRefusalKeeps
  <2>10. NotCut'
    BY <1>2, <2>2, <2>3, NotCutKeeps
  <2> QED BY <2>4, <2>5, <2>6, <2>7, <2>8, <2>9, <2>10 DEF PInv
<1> QED BY <1>1, <1>2

(* Beside the invariant of the compactions, what concerns the intervals    *)
(* that wait for their summary holds in every state.                       *)
THEOREM PlansAccount == Spec => []PInv
<1>1. Init => PInv
  BY InitPlans
<1>2. IInv /\ PInv /\ [Next]_vars => PInv'
  BY StepPlans
<1> QED BY <1>1, <1>2, CompactionAccount, PTL DEF Spec

(* An interval that may be hidden when it is chosen may be hidden when the *)
(* summary arrives: what a run, a retry of a failed request or another     *)
(* compaction appends during that wait takes it away from none             *)
(* (SurfaceEdits.commit validates when it is called, planSegment chose     *)
(* before the summary was asked for).                                      *)
THEOREM PlansAlwaysLegal == Spec => PlansStayLegal
<1> DEFINE A == \A i \in DOMAIN chain, j \in DOMAIN chain' :
                  /\ chain[i].plan # NoInterval /\ chain'[j] = chain[i]
                  /\ AcceptsSurface(log, chain[i].plan)
                  => AcceptsSurface(log', chain[i].plan)
<1>1. ASSUME IInv, PInv, [Next]_vars, NEW i \in DOMAIN chain, NEW j \in DOMAIN chain',
             chain[i].plan # NoInterval, chain'[j] = chain[i],
             AcceptsSurface(log, chain[i].plan)
      PROVE  AcceptsSurface(log', chain[i].plan)
  <2>1. CASE Begin
    <3>1. log' = log
      BY <2>1 DEF Begin
    <3> QED BY <1>1, <3>1
  <2>2. CASE ~Begin
    <3>1. ~Reopen
      <4>1. Reopen => DOMAIN chain' = {}
        BY DEF Reopen
      <4> QED BY <1>1, <4>1
    <3>2. IInv' /\ HeadBegun /\ SparesError
      BY <1>1, StepHolds DEF PInv
    <3>3. Moves
      BY <1>1, <3>1, <3>2, StepMoves
    <3>4. ~Completed
      BY <1>1, <2>2, <3>1, <3>2, OtherTasks
    <3> DEFINE p == chain[i].plan
               l == log
               m == log'
    <3>5. /\ p.first \in Nat /\ p.last \in Nat
          /\ \A k \in New(m, l, Carriers) : \A x \in p.first .. p.last : x \notin Hides(m, k)
          /\ \A r \in New(m, l, {"result"}) : m[r].first \notin p.first .. p.last
      BY <1>1, <3>2, <3>3, <3>4, Escapes
    <3>6. Grows(m, l) /\ AcceptsSurface(l, p)
      BY <1>1, <3>3 DEF Moves
    <3> HIDE DEF p, l, m
    <3>7. AcceptsSurface(m, p)
      BY <3>5, <3>6, AcceptsStays
    <3> QED BY <3>7 DEF m, p
  <2> QED BY <2>1, <2>2
<1>2. IInv /\ PInv /\ [Next]_vars => [A]_vars
  BY <1>1
<1>3. Spec => [][A]_vars
  BY <1>2, CompactionAccount, PlansAccount, PTL DEF Spec
<1> QED BY <1>3 DEF PlansStayLegal
=============================================================================
