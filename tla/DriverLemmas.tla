---------------------------- MODULE DriverLemmas ----------------------------
(***************************************************************************)
(* Lemmas about the operators of PendingQueue, Driver and DriverInv: what  *)
(* a queue gives up and keeps, how the lineup of jobs and kicks changes,   *)
(* how its jobs are counted and how messages move between their houses.    *)
(***************************************************************************)
EXTENDS DriverInv, FiniteSetTheorems, SequenceTheorems, WellFoundedInduction, TLAPS

(* A nonempty set of naturals has a least element, and Min is one. *)
LEMMA MinIsLeast ==
  ASSUME NEW T, T \subseteq Nat, T # {}
  PROVE  Min(T) \in T /\ \A y \in T : Min(T) <= y
<1> DEFINE R == {ss \in Nat \X Nat : ss[1] < ss[2]}
<1>1. IsWellFoundedOn(R, Nat)
  BY NatLessThanWellFounded DEF OpToRel
<1>2. \A x, y \in Nat : y < x => <<y, x>> \in R
  OBVIOUS
<1> HIDE DEF R
<1>3. PICK x \in T : \A y \in T : <<y, x>> \notin R
  BY <1>1, WFMin
<1>4. \A y \in T : ~(y < x)
  BY <1>3, <1>2
<1>5. \A y \in T : x <= y
  BY <1>4
<1> QED BY <1>5 DEF Min

(* Positions of a sequence are finitely many. *)
LEMMA PositionsFinite ==
  ASSUME NEW n \in Nat, NEW P, P \subseteq 1..n
  PROVE  IsFiniteSet(P) /\ Cardinality(P) \in Nat
<1>1. IsFiniteSet(1..n)
  BY FS_Interval
<1>2. IsFiniteSet(P)
  BY <1>1, FS_Subset
<1> QED BY <1>2, FS_CardinalityType

(* The k-th smallest of the positions P, as Entries finds it. *)
Ranked(P, k) == CHOOSE p \in P : Cardinality({r \in P : r <= p}) = k

(* The ranks of the positions P are 1, 2, ... in their order. *)
LEMMA RankedEnumerates ==
  ASSUME NEW n \in Nat, NEW P, P \subseteq 1..n
  PROVE  /\ \A k \in 1..Cardinality(P) : Ranked(P, k) \in P
         /\ \A j, k \in 1..Cardinality(P) : j < k => Ranked(P, j) < Ranked(P, k)
         /\ \A p \in P : \E k \in 1..Cardinality(P) : Ranked(P, k) = p
<1> DEFINE Below(p) == {r \in P : r <= p}
           f == [p \in P |-> Cardinality(Below(p))]
           N == Cardinality(P)
<1>1. IsFiniteSet(P) /\ N \in Nat
  BY PositionsFinite
<1>2. \A p \in P : IsFiniteSet(Below(p)) /\ f[p] \in 1..N
  <2> TAKE p \in P
  <2>1. IsFiniteSet(Below(p)) /\ Cardinality(Below(p)) <= N
    BY <1>1, FS_Subset
  <2>2. Cardinality(Below(p)) \in Nat
    BY <2>1, FS_CardinalityType
  <2>3. p \in Below(p)
    OBVIOUS
  <2>4. Cardinality(Below(p)) # 0
    BY <2>1, <2>3, FS_EmptySet
  <2> QED BY <2>1, <2>2, <2>4, <1>1
<1>3. \A p, q \in P : p < q => f[p] < f[q]
  <2> TAKE p, q \in P
  <2> HAVE p < q
  <2>1. Below(p) \subseteq Below(q) /\ q \in Below(q) /\ q \notin Below(p)
    <3>1. p \in Nat /\ q \in Nat /\ \A r \in P : r \in Nat
      OBVIOUS
    <3>2. \A r \in P : r <= p => r <= q
      BY <3>1
    <3>3. ~(q <= p) /\ q <= q
      BY <3>1
    <3> QED BY <3>1, <3>2, <3>3
  <2>2. Cardinality(Below(p)) <= Cardinality(Below(q))
        /\ (Cardinality(Below(p)) = Cardinality(Below(q)) => Below(q) = Below(p))
    BY <2>1, <1>2, FS_Subset
  <2>3. f[p] \in 1..N /\ f[q] \in 1..N
    BY <1>2
  <2> QED BY <2>1, <2>2, <2>3
<1>4. f \in [P -> 1..N]
  BY <1>2
<1>5. \A p, q \in P : f[p] = f[q] => p = q
  <2> TAKE p, q \in P
  <2>1. f[p] \in 1..N /\ f[q] \in 1..N /\ p \in Nat /\ q \in Nat
    BY <1>2
  <2> QED BY <2>1, <1>3
<1>6. f \in Injection(P, 1..N)
  BY <1>4, <1>5 DEF Injection, IsInjective
<1>7. IsFiniteSet(1..N) /\ Cardinality(1..N) = N
  BY <1>1, FS_Interval
<1>8. f \in Surjection(P, 1..N)
  BY <1>6, <1>7, FS_Injection
<1>9. \A k \in 1..N : \E p \in P : f[p] = k
  BY <1>8 DEF Surjection
<1>10. \A k \in 1..N : Ranked(P, k) \in P /\ f[Ranked(P, k)] = k
  BY <1>9 DEF Ranked
<1>11. \A p \in P : Ranked(P, f[p]) = p
  BY <1>4, <1>5, <1>10
<1>12. \A j, k \in 1..N : j < k => Ranked(P, j) < Ranked(P, k)
  <2> TAKE j, k \in 1..N
  <2> HAVE j < k
  <2>1. Ranked(P, j) \in P /\ Ranked(P, k) \in P
        /\ f[Ranked(P, j)] = j /\ f[Ranked(P, k)] = k
    BY <1>10
  <2>2. Ranked(P, j) \in Nat /\ Ranked(P, k) \in Nat
    <3>1. \A r \in P : r \in Nat
      OBVIOUS
    <3> QED BY <2>1, <3>1
  <2>3. Ranked(P, k) < Ranked(P, j) => k < j
    BY <2>1, <1>3
  <2>4. Ranked(P, k) # Ranked(P, j)
    BY <2>1
  <2> QED BY <2>2, <2>3, <2>4
<1> QED BY <1>2, <1>10, <1>11, <1>12

(* Entries picks the entries at the given positions, in order, each once.  *)
LEMMA EntriesProps ==
  ASSUME NEW q \in Seq(Item), NEW P, P \subseteq DOMAIN q
  PROVE  /\ Entries(q, P) \in Seq(Item)
         /\ Len(Entries(q, P)) = Cardinality(P) /\ Cardinality(P) <= Len(q)
         /\ \E f \in [DOMAIN Entries(q, P) -> P] :
              /\ \A i, j \in DOMAIN Entries(q, P) : f[i] = f[j] => i = j
              /\ \A p \in P : \E i \in DOMAIN Entries(q, P) : f[i] = p
              /\ \A i \in DOMAIN Entries(q, P) : Entries(q, P)[i] = q[f[i]]
         /\ Entries(q, P) = <<>> <=> P = {}
<1> DEFINE N == Cardinality(P)
           e == Entries(q, P)
           f == [k \in 1..N |-> Ranked(P, k)]
<1>1. Len(q) \in Nat /\ P \subseteq 1..Len(q)
  OBVIOUS
<1>2. IsFiniteSet(P) /\ N \in Nat
  BY <1>1, PositionsFinite
<1>3. /\ \A k \in 1..N : Ranked(P, k) \in P
      /\ \A j, k \in 1..N : j < k => Ranked(P, j) < Ranked(P, k)
      /\ \A p \in P : \E k \in 1..N : Ranked(P, k) = p
  BY <1>1, RankedEnumerates
<1>4. e = [k \in 1..N |-> q[Ranked(P, k)]]
  BY DEF Entries, Ranked
<1>5. \A k \in 1..N : q[Ranked(P, k)] \in Item
  BY <1>3, <1>1
<1>6. e \in Seq(Item) /\ Len(e) = N /\ DOMAIN e = 1..N
  <2> HIDE DEF e, N
  <2> QED BY <1>2, <1>4, <1>5
<1>7. N <= Len(q)
  <2>1. IsFiniteSet(1..Len(q)) /\ Cardinality(1..Len(q)) = Len(q)
    <3>1. Len(q) \in Nat
      BY <1>1
    <3> QED BY <3>1, FS_Interval
  <2>2. N <= Cardinality(1..Len(q))
    BY <2>1, <1>1, FS_Subset
  <2> QED BY <2>1, <2>2
<1>8. f \in [DOMAIN e -> P] /\ \A k \in DOMAIN e : e[k] = q[f[k]]
  BY <1>3, <1>4, <1>6
<1>9. \A i, j \in 1..N : f[i] = f[j] => i = j
  <2> TAKE i, j \in 1..N
  <2>1. Ranked(P, i) \in Nat /\ Ranked(P, j) \in Nat
    BY <1>3, <1>1
  <2>2. i < j \/ j < i \/ i = j
    OBVIOUS
  <2> QED BY <1>3, <2>1, <2>2
<1>10. \A p \in P : \E i \in 1..N : f[i] = p
  BY <1>3
<1>11. e = <<>> <=> P = {}
  <2>1. e = <<>> <=> N = 0
    <3> HIDE DEF e, N
    <3> QED BY <1>2, <1>6
  <2> QED BY <2>1, <1>2, FS_EmptySet
<1> HIDE DEF e, N, f
<1>12. f \in [DOMAIN e -> P] /\ \A i, j \in DOMAIN e : f[i] = f[j] => i = j
  BY <1>6, <1>8, <1>9
<1>13. \A p \in P : \E i \in DOMAIN e : f[i] = p
  BY <1>6, <1>10
<1> QED BY <1>6, <1>7, <1>8, <1>11, <1>12, <1>13 DEF e, N

-----------------------------------------------------------------------------
(* What the operators of PendingQueue do with the messages of a queue. *)

(* A selection of entries of a queue has the messages at the positions,    *)
(* once each.                                                              *)
LEMMA EntriesMsgs ==
  ASSUME NEW q \in Seq(Item), NEW P, P \subseteq DOMAIN q, Distinct(q)
  PROVE  /\ Entries(q, P) \in Seq(Item) /\ Len(Entries(q, P)) <= Len(q)
         /\ Distinct(Entries(q, P))
         /\ Msgs(Entries(q, P)) = {q[i].msg : i \in P}
<1> DEFINE e == Entries(q, P)
<1>1. e \in Seq(Item) /\ Len(e) <= Len(q)
  BY EntriesProps
<1>2. PICK f \in [DOMAIN e -> P] :
         /\ \A i, j \in DOMAIN e : f[i] = f[j] => i = j
         /\ \A p \in P : \E i \in DOMAIN e : f[i] = p
         /\ \A i \in DOMAIN e : e[i] = q[f[i]]
  BY EntriesProps
<1> HIDE DEF e
<1>3. Distinct(e)
  BY <1>2 DEF Distinct
<1>4. Msgs(e) = {q[i].msg : i \in P}
  <2>1. ASSUME NEW i \in DOMAIN e PROVE e[i].msg \in {q[p].msg : p \in P}
    BY <1>2
  <2>2. ASSUME NEW p \in P PROVE q[p].msg \in {e[i].msg : i \in DOMAIN e}
    <3>1. PICK i \in DOMAIN e : f[i] = p
      BY <1>2
    <3> QED BY <1>2, <3>1
  <2> QED BY <2>1, <2>2 DEF Msgs
<1> QED BY <1>1, <1>3, <1>4 DEF e

(* consumeBatch takes entries of the queue only. *)
LEMMA TakenInQueue ==
  ASSUME NEW q \in Seq(Item), NEW skip \in BOOLEAN
  PROVE  TakenAt(q, skip) \subseteq DOMAIN q
<1>1. \A E : E \subseteq DOMAIN q /\ E # {} => Min(E) \in E
  BY MinIsLeast
<1> QED BY <1>1 DEF TakenAt, HeldAt

(* consumeBatch splits the queue into what it takes, keeps and refuses. *)
LEMMA BatchSplits ==
  ASSUME NEW q \in Seq(Item), NEW st, NEW skip \in BOOLEAN, Distinct(q)
  PROVE  LET b == Batch(q, st, skip)
         IN  /\ b.items \in Seq(Item) /\ Distinct(b.items)
             /\ b.rest \in Seq(Item) /\ Distinct(b.rest) /\ Len(b.rest) <= Len(q)
             /\ b.wake \in BOOLEAN
             /\ Msgs(b.items) \cup Msgs(b.rest) \cup b.refused = Msgs(q)
             /\ Msgs(b.items) \cap Msgs(b.rest) = {}
             /\ Msgs(b.items) \cap b.refused = {}
             /\ Msgs(b.rest) \cap b.refused = {}
<1> DEFINE b == Batch(q, st, skip)
           T == TakenAt(q, skip)
           kept == {i \in T : ~(q[i].wake /\ st >= MaxWakes)}
           rest == DOMAIN q \ T
<1>1. T \subseteq DOMAIN q
  BY TakenInQueue
<1>2. /\ b.items = Entries(q, kept) /\ b.rest = Entries(q, rest)
      /\ b.refused = {q[i].msg : i \in T \ kept} /\ b.wake \in BOOLEAN
  BY DEF Batch, Untaken
<1> HIDE DEF b, T
<1>3. /\ b.items \in Seq(Item) /\ Distinct(b.items)
      /\ Msgs(b.items) = {q[i].msg : i \in kept}
  BY <1>1, <1>2, EntriesMsgs
<1>4. /\ b.rest \in Seq(Item) /\ Distinct(b.rest) /\ Len(b.rest) <= Len(q)
      /\ Msgs(b.rest) = {q[i].msg : i \in rest}
  BY <1>1, <1>2, EntriesMsgs
<1>5. DOMAIN q = kept \cup rest \cup (T \ kept)
  BY <1>1
<1>6. /\ Msgs(b.items) \cup Msgs(b.rest) \cup b.refused = Msgs(q)
  BY <1>2, <1>3, <1>4, <1>5 DEF Msgs
<1>7. kept \subseteq DOMAIN q /\ rest \subseteq DOMAIN q /\ T \ kept \subseteq DOMAIN q
      /\ kept \cap rest = {} /\ kept \cap (T \ kept) = {} /\ rest \cap (T \ kept) = {}
  BY <1>1
<1> HIDE DEF kept, rest
<1>8. /\ Msgs(b.items) \cap Msgs(b.rest) = {}
      /\ Msgs(b.items) \cap b.refused = {} /\ Msgs(b.rest) \cap b.refused = {}
  BY <1>2, <1>3, <1>4, <1>7 DEF Distinct
<1> QED BY <1>2, <1>3, <1>4, <1>6, <1>8 DEF b

(* The messages of a queue, as a sequence and as a set. *)
LEMMA MessagesOfProps ==
  ASSUME NEW q \in Seq(Item)
  PROVE  /\ MessagesOf(q) \in Seq(Messages) /\ Len(MessagesOf(q)) = Len(q)
         /\ ToSet(MessagesOf(q)) = Msgs(q)
         /\ \A i \in DOMAIN q : MessagesOf(q)[i] = q[i].msg
         /\ DOMAIN MessagesOf(q) = DOMAIN q
<1>1. \A i \in DOMAIN q : q[i] \in Item
  OBVIOUS
<1>2. MessagesOf(q) = [i \in 1..Len(q) |-> q[i].msg] /\ Len(q) \in Nat
  BY DEF MessagesOf
<1>3. \A i \in 1..Len(q) : q[i].msg \in Messages
  BY <1>1 DEF Item
<1> QED BY <1>2, <1>3 DEF ToSet, Msgs

(* consumeInRun likewise. *)
LEMMA AbsorbedSplits ==
  ASSUME NEW q \in Seq(Item), NEW st \in Nat, Distinct(q)
  PROVE  LET a == Absorbed(q, st)
         IN  /\ a.queue \in Seq(Item) /\ Distinct(a.queue) /\ Len(a.queue) <= Len(q)
             /\ a.streak \in Nat
             /\ Msgs(a.queue) \cup a.landed \cup a.refused = Msgs(q)
             /\ Msgs(a.queue) \cap a.landed = {}
             /\ Msgs(a.queue) \cap a.refused = {}
<1> DEFINE b == Batch(q, st, TRUE)
<1>1. /\ b.items \in Seq(Item)
      /\ b.rest \in Seq(Item) /\ Distinct(b.rest) /\ Len(b.rest) <= Len(q)
      /\ b.wake \in BOOLEAN
      /\ Msgs(b.items) \cup Msgs(b.rest) \cup b.refused = Msgs(q)
      /\ Msgs(b.items) \cap Msgs(b.rest) = {}
      /\ Msgs(b.rest) \cap b.refused = {}
  BY BatchSplits
<1>2. ToSet(MessagesOf(b.items)) = Msgs(b.items)
  <2> HIDE DEF b
  <2> QED BY <1>1, MessagesOfProps
<1> HIDE DEF b
<1>3. Absorbed(q, st) = [queue |-> b.rest, streak |-> IF b.wake THEN st + 1 ELSE st,
                         landed |-> ToSet(MessagesOf(b.items)), refused |-> b.refused]
  BY DEF Absorbed, b
<1> QED BY <1>1, <1>2, <1>3

(* Nothing comes out of an empty queue. *)
LEMMA EmptyQueue ==
  ASSUME NEW st, NEW skip \in BOOLEAN
  PROVE  /\ Batch(<<>>, st, skip).items = <<>> /\ Batch(<<>>, st, skip).rest = <<>>
         /\ Absorbed(<<>>, st).queue = <<>>
<1>1. <<>> \in Seq(Item)
  OBVIOUS
<1>2. \A sk \in BOOLEAN : TakenAt(<<>>, sk) = {}
  <2>1. \A sk \in BOOLEAN : TakenAt(<<>>, sk) \subseteq DOMAIN <<>>
    BY <1>1, TakenInQueue
  <2>2. DOMAIN <<>> = {}
    OBVIOUS
  <2> QED BY <2>1, <2>2
<1>3. Entries(<<>>, {}) = <<>>
  <2>1. {} \subseteq DOMAIN <<>>
    OBVIOUS
  <2> QED BY ONLY <1>1, <2>1, EntriesProps
<1>4. \A sk \in BOOLEAN : Batch(<<>>, st, sk).items = <<>> /\ Batch(<<>>, st, sk).rest = <<>>
  <2>1. DOMAIN <<>> = {}
    OBVIOUS
  <2>2. ASSUME NEW sk \in BOOLEAN
        PROVE  Batch(<<>>, st, sk).items = <<>> /\ Batch(<<>>, st, sk).rest = <<>>
    <3> DEFINE kept == {i \in TakenAt(<<>>, sk) : ~(<<>>[i].wake /\ st >= MaxWakes)}
    <3>1. kept = {} /\ DOMAIN <<>> \ TakenAt(<<>>, sk) = {}
      BY <1>2, <2>1
    <3>2. Untaken(<<>>, sk) = <<>>
      BY <1>3, <3>1 DEF Untaken
    <3>3. Batch(<<>>, st, sk).items = Entries(<<>>, kept) /\ Batch(<<>>, st, sk).rest = Untaken(<<>>, sk)
      BY DEF Batch
    <3> HIDE DEF kept
    <3> QED BY <1>3, <3>1, <3>2, <3>3
  <2> QED BY <2>2
<1> QED BY <1>4 DEF Absorbed

(* enqueue: what is put in is in the queue or pushes something out. *)
LEMMA EnqueuedSplits ==
  ASSUME NEW q \in Seq(Item), NEW new \in Seq(Item), Distinct(q), Distinct(new),
         Msgs(q) \cap Msgs(new) = {}
  PROVE  LET e == Enqueued(q, new)
         IN  /\ e.queue \in Seq(Item) /\ Distinct(e.queue) /\ Len(e.queue) <= QueueCap
             /\ Msgs(e.queue) \cup e.evicted = Msgs(q) \cup Msgs(new)
             /\ Msgs(e.queue) \cap e.evicted = {}
<1> DEFINE all == q \o new
           over == IF Len(all) > QueueCap THEN Len(all) - QueueCap ELSE 0
           kept == SubSeq(all, over + 1, Len(all))
           out == SubSeq(all, 1, over)
<1>1. all \in Seq(Item) /\ Len(all) = Len(q) + Len(new) /\ Len(q) \in Nat /\ Len(new) \in Nat
  OBVIOUS
<1>2. /\ \A i \in 1..Len(q) : all[i] = q[i]
      /\ \A i \in 1..Len(new) : all[Len(q) + i] = new[i]
  OBVIOUS
<1>3. \A i \in 1..Len(all) : i \in 1..Len(q) \/ i - Len(q) \in 1..Len(new)
  BY <1>1
<1>4. Msgs(all) = Msgs(q) \cup Msgs(new)
  <2>1. ASSUME NEW i \in DOMAIN all PROVE all[i].msg \in Msgs(q) \cup Msgs(new)
    BY <1>1, <1>2, <1>3 DEF Msgs
  <2>2. ASSUME NEW i \in DOMAIN q PROVE q[i].msg \in Msgs(all)
    <3>1. i \in DOMAIN all /\ all[i] = q[i]
      BY <1>1, <1>2
    <3> HIDE DEF all
    <3> QED BY <3>1 DEF Msgs
  <2>3. ASSUME NEW i \in DOMAIN new PROVE new[i].msg \in Msgs(all)
    <3>1. Len(q) + i \in DOMAIN all /\ all[Len(q) + i] = new[i]
      BY <1>1, <1>2
    <3> HIDE DEF all
    <3> QED BY <3>1 DEF Msgs
  <2> QED BY <2>1, <2>2, <2>3 DEF Msgs
<1>5. Distinct(all)
  <2> SUFFICES ASSUME NEW i \in 1..Len(all), NEW j \in 1..Len(all), all[i].msg = all[j].msg
               PROVE  i = j
    BY <1>1 DEF Distinct
  <2>1. CASE i \in 1..Len(q) /\ j \in 1..Len(q)
    BY <2>1, <1>2 DEF Distinct
  <2>2. CASE i - Len(q) \in 1..Len(new) /\ j - Len(q) \in 1..Len(new)
    <3>1. all[i] = new[i - Len(q)] /\ all[j] = new[j - Len(q)]
      BY <2>2, <1>1, <1>2
    <3>2. i - Len(q) = j - Len(q)
      BY <2>2, <3>1 DEF Distinct
    <3> QED BY <3>2, <1>1
  <2>3. CASE i \in 1..Len(q) /\ j - Len(q) \in 1..Len(new)
    <3>1. all[i] = q[i] /\ all[j] = new[j - Len(q)]
      BY <2>3, <1>1, <1>2
    <3>2. q[i].msg \in Msgs(q) /\ new[j - Len(q)].msg \in Msgs(new)
      BY <2>3 DEF Msgs
    <3> QED BY <3>1, <3>2
  <2>4. CASE j \in 1..Len(q) /\ i - Len(q) \in 1..Len(new)
    <3>1. all[j] = q[j] /\ all[i] = new[i - Len(q)]
      BY <2>4, <1>1, <1>2
    <3>2. q[j].msg \in Msgs(q) /\ new[i - Len(q)].msg \in Msgs(new)
      BY <2>4 DEF Msgs
    <3> QED BY <3>1, <3>2
  <2> QED BY <2>1, <2>2, <2>3, <2>4, <1>3
<1>6. over \in 0..Len(all) /\ Len(all) - over <= QueueCap
  BY <1>1, PendingAssumption
<1> HIDE DEF all, over
<1>7. /\ kept \in Seq(Item) /\ Len(kept) = Len(all) - over
      /\ \A i \in 1..Len(kept) : kept[i] = all[over + i]
  BY <1>1, <1>6
<1>8. /\ out \in Seq(Item) /\ Len(out) = over /\ \A i \in 1..Len(out) : out[i] = all[i]
  BY <1>1, <1>6
<1>9. Enqueued(q, new) = [queue |-> kept, evicted |-> ToSet(MessagesOf(out))]
  BY DEF Enqueued, all, over
<1> HIDE DEF kept, out
<1>10. ToSet(MessagesOf(out)) = Msgs(out)
  BY <1>8, MessagesOfProps
<1>10a. \A i \in DOMAIN kept : i \in 1..Len(kept) /\ over + i \in DOMAIN all /\ over + i > over
  <2>1. DOMAIN kept = 1..Len(kept) /\ DOMAIN all = 1..Len(all)
    BY <1>1, <1>7
  <2> QED BY <2>1, <1>1, <1>6, <1>7
<1>11. Distinct(kept)
  <2>1. \A i \in 1..Len(kept) : over + i \in 1..Len(all)
    BY <1>6, <1>7, <1>1
  <2>2. \A i, j \in 1..Len(kept) : over + i = over + j => i = j
    BY <1>6, <1>7, <1>1
  <2> QED BY <1>5, <1>7, <2>1, <2>2 DEF Distinct
<1>12. Msgs(kept) \cup Msgs(out) = Msgs(all)
  <2>1. ASSUME NEW i \in 1..Len(all) PROVE all[i].msg \in Msgs(kept) \cup Msgs(out)
    <3>1. CASE i <= over
      <4>1. i \in DOMAIN out /\ out[i] = all[i]
        BY <3>1, <1>8, <1>6, <1>1
      <4> QED BY <4>1 DEF Msgs
    <3>2. CASE i > over
      <4>1. i - over \in DOMAIN kept /\ kept[i - over] = all[i]
        BY <3>2, <1>7, <1>6, <1>1
      <4> QED BY <4>1 DEF Msgs
    <3> QED BY <3>1, <3>2, <1>6, <1>1
  <2>2. ASSUME NEW i \in DOMAIN kept PROVE kept[i].msg \in Msgs(all)
    <3>1. over + i \in DOMAIN all /\ kept[i] = all[over + i]
      BY <1>10a, <1>7
    <3> QED BY <3>1 DEF Msgs
  <2>3. ASSUME NEW i \in DOMAIN out PROVE out[i].msg \in Msgs(all)
    <3>1. i \in DOMAIN all /\ out[i] = all[i]
      BY <1>8, <1>6, <1>1
    <3> QED BY <3>1 DEF Msgs
  <2> QED BY <2>1, <2>2, <2>3, <1>1 DEF Msgs
<1>13. Msgs(kept) \cap Msgs(out) = {}
  <2> SUFFICES ASSUME NEW i \in DOMAIN kept, NEW j \in DOMAIN out, kept[i].msg = out[j].msg
               PROVE  FALSE
    BY DEF Msgs
  <2>1. over + i \in DOMAIN all /\ j \in DOMAIN all /\ over + i # j
        /\ kept[i] = all[over + i] /\ out[j] = all[j]
    BY <1>10a, <1>7, <1>8, <1>6, <1>1
  <2> QED BY <2>1, <1>5 DEF Distinct
<1> QED BY <1>4, <1>6, <1>7, <1>9, <1>10, <1>11, <1>12, <1>13

(* Taking one entry back leaves all the others. *)
LEMMA RemoveAtSplits ==
  ASSUME NEW q \in Seq(Item), Distinct(q), NEW i \in DOMAIN q
  PROVE  /\ RemoveAt(q, i) \in Seq(Item) /\ Distinct(RemoveAt(q, i))
         /\ Len(RemoveAt(q, i)) <= Len(q)
         /\ Msgs(RemoveAt(q, i)) \cup {q[i].msg} = Msgs(q)
         /\ q[i].msg \notin Msgs(RemoveAt(q, i))
         /\ \A j \in DOMAIN RemoveAt(q, i) : \E k \in DOMAIN q : RemoveAt(q, i)[j] = q[k]
<1> DEFINE r == RemoveAt(q, i)
           f == [k \in 1..Len(q) - 1 |-> IF k < i THEN k ELSE k + 1]
<1>1. Len(q) \in Nat /\ i \in 1..Len(q)
  OBVIOUS
<1>2. r \in Seq(Item) /\ Len(r) = Len(q) - 1 /\ \A k \in 1..Len(r) : r[k] = q[f[k]]
  <2> DEFINE front == SubSeq(q, 1, i - 1)
             back == SubSeq(q, i + 1, Len(q))
  <2>1. /\ front \in Seq(Item) /\ Len(front) = i - 1
        /\ \A k \in 1..i - 1 : front[k] = q[k]
    BY <1>1
  <2>2. /\ back \in Seq(Item) /\ Len(back) = Len(q) - i
        /\ \A k \in 1..Len(q) - i : back[k] = q[i + k]
    BY <1>1
  <2>3. r = front \o back
    BY DEF RemoveAt
  <2> HIDE DEF front, back, r
  <2>4. r \in Seq(Item) /\ Len(r) = Len(q) - 1
    BY <1>1, <2>1, <2>2, <2>3
  <2>5. ASSUME NEW k \in 1..Len(r) PROVE r[k] = q[f[k]]
    <3>1. CASE k < i
      <4>1. k \in 1..i - 1 /\ k \in 1..Len(front) /\ k \in 1..Len(q) - 1
        BY <3>1, <1>1, <2>1, <2>4
      <4>2. r[k] = front[k]
        BY ONLY <2>1, <2>2, <2>3, <4>1
      <4>3. front[k] = q[k]
        BY <2>1, <4>1
      <4>4. f[k] = k
        BY <3>1, <4>1
      <4> QED BY <4>2, <4>3, <4>4
    <3>2. CASE k >= i
      <4>1. r[k] = back[k - (i - 1)] /\ k - (i - 1) \in 1..Len(q) - i
        BY <3>2, <1>1, <2>1, <2>2, <2>3, <2>4
      <4>2. back[k - (i - 1)] = q[i + (k - (i - 1))]
        BY <4>1, <2>2
      <4>3. i + (k - (i - 1)) = k + 1 /\ k \in 1..Len(q) - 1
        BY <1>1, <2>4
      <4>4. f[k] = k + 1
        BY <4>3, <3>2, <1>1
      <4> QED BY <4>1, <4>2, <4>3, <4>4
    <3> QED BY <3>1, <3>2, <1>1, <2>4
  <2> QED BY <2>4, <2>5
<1>3. \A k \in 1..Len(q) - 1 : f[k] \in 1..Len(q) /\ f[k] # i
  BY <1>1
<1>4. \A j, k \in 1..Len(q) - 1 : f[j] = f[k] => j = k
  BY <1>1
<1>5. \A p \in 1..Len(q) : p # i => \E k \in 1..Len(q) - 1 : f[k] = p
  <2> TAKE p \in 1..Len(q)
  <2> HAVE p # i
  <2>1. CASE p < i
    <3>1. p \in 1..Len(q) - 1 /\ f[p] = p
      BY <2>1, <1>1
    <3> QED BY <3>1
  <2>2. CASE p > i
    <3>1. p - 1 \in 1..Len(q) - 1 /\ f[p - 1] = p
      BY <2>2, <1>1
    <3> QED BY <3>1
  <2> QED BY <2>1, <2>2, <1>1
<1> HIDE DEF r, f
<1>6. DOMAIN r = 1..Len(q) - 1
  BY <1>2
<1>7. Distinct(r)
  BY <1>2, <1>3, <1>4, <1>6 DEF Distinct
<1>8. Msgs(r) \cup {q[i].msg} = Msgs(q)
  <2>1. ASSUME NEW k \in DOMAIN r PROVE r[k].msg \in Msgs(q)
    <3>1. k \in 1..Len(q) - 1 /\ r[k] = q[f[k]]
      BY <1>2, <1>6
    <3>2. f[k] \in DOMAIN q
      BY <1>3, <3>1
    <3> QED BY <3>1, <3>2 DEF Msgs
  <2>2. ASSUME NEW p \in DOMAIN q, p # i PROVE q[p].msg \in Msgs(r)
    <3>1. PICK k \in 1..Len(q) - 1 : f[k] = p
      BY <2>2, <1>5
    <3> QED BY <3>1, <1>2, <1>6 DEF Msgs
  <2> QED BY <2>1, <2>2 DEF Msgs
<1>9. q[i].msg \notin Msgs(r)
  <2> SUFFICES ASSUME NEW k \in DOMAIN r, r[k].msg = q[i].msg PROVE FALSE
    BY DEF Msgs
  <2>1. k \in 1..Len(q) - 1 /\ r[k] = q[f[k]]
    BY <1>2, <1>6
  <2>2. f[k] \in DOMAIN q /\ f[k] # i
    BY <1>3, <2>1
  <2> QED BY <2>1, <2>2 DEF Distinct
<1>10. \A j \in DOMAIN r : \E k \in DOMAIN q : r[j] = q[k]
  BY <1>1, <1>2, <1>3, <1>6
<1> QED BY <1>2, <1>7, <1>8, <1>9, <1>10, <1>1 DEF r

-----------------------------------------------------------------------------
(* Counting the jobs of a kind in a sequence of jobs. *)

(* A one-to-one correspondence keeps the count. *)
LEMMA SameCount ==
  ASSUME NEW P, IsFiniteSet(P), NEW Q, NEW f \in [P -> Q],
         \A x, y \in P : f[x] = f[y] => x = y, \A z \in Q : \E x \in P : f[x] = z
  PROVE  IsFiniteSet(Q) /\ Cardinality(Q) = Cardinality(P)
<1>1. f \in Surjection(P, Q) /\ f \in Injection(P, Q)
  BY DEF Surjection, Injection, IsInjective
<1> QED BY <1>1, FS_Surjection

(* Positions P that are moved by k above c, where at most one is new in Q. *)
Opened(P, Q, n, c, k) ==
  /\ n \in Nat /\ c \in 0..n /\ k \in Nat
  /\ P \subseteq 1..n /\ Q \subseteq 1..n + k
  /\ \A i \in 1..c : i \in Q <=> i \in P
  /\ \A i \in c + 1..n : i + k \in Q <=> i \in P
  /\ \A i \in c + 1..c + k : i \in Q => i = c + 1

(* Counting around inserted places, of which only the first may count. *)
LEMMA InsertCount ==
  ASSUME NEW P, NEW Q, NEW n, NEW c, NEW k, Opened(P, Q, n, c, k)
  PROVE  /\ Cardinality(P) \in Nat
         /\ Cardinality(Q) = Cardinality(P) + IF k > 0 /\ c + 1 \in Q THEN 1 ELSE 0
<1> DEFINE R == {i \in Q : i <= c \/ i > c + k}
           f == [i \in P |-> IF i <= c THEN i ELSE i + k]
<1>0. /\ n \in Nat /\ c \in 0..n /\ k \in Nat
      /\ P \subseteq 1..n /\ Q \subseteq 1..n + k
      /\ \A i \in 1..c : i \in Q <=> i \in P
      /\ \A i \in c + 1..n : i + k \in Q <=> i \in P
      /\ \A i \in c + 1..c + k : i \in Q => i = c + 1
  BY DEF Opened
<1>1. IsFiniteSet(P) /\ Cardinality(P) \in Nat
  BY <1>0, PositionsFinite
<1>2. \A i \in P : i \in 1..n
  BY <1>0
<1>3. \A i \in Q : i \in 1..n + k
  BY <1>0
<1>4. f \in [P -> R]
  <2> SUFFICES ASSUME NEW i \in P PROVE f[i] \in R
    OBVIOUS
  <2>1. CASE i <= c
    <3>1. i \in 1..c
      BY <2>1, <1>0, <1>2
    <3> QED BY <3>1, <2>1, <1>0
  <2>2. CASE i > c
    <3>1. i \in c + 1..n
      BY <2>2, <1>0, <1>2
    <3>2. i + k \in Q /\ i + k > c + k
      BY <3>1, <2>2, <1>0
    <3> QED BY <3>2, <2>2, <1>0, <1>2
  <2> QED BY <2>1, <2>2, <1>0, <1>2
<1>5. \A x, y \in P : f[x] = f[y] => x = y
  BY <1>0, <1>2
<1>6. \A z \in R : \E x \in P : f[x] = z
  <2> TAKE z \in R
  <2>1. CASE z <= c
    <3>1. z \in 1..c /\ z \in P
      BY <2>1, <1>0, <1>3
    <3> QED BY <3>1, <1>0
  <2>2. CASE z > c + k
    <3>1. z - k \in c + 1..n /\ z - k + k = z
      BY <2>2, <1>0, <1>3
    <3>2. z - k \in P
      BY <3>1, <1>0
    <3>3. f[z - k] = z
      BY <3>1, <3>2, <1>0
    <3> QED BY <3>2, <3>3
  <2> QED BY <2>1, <2>2
<1>7. IsFiniteSet(R) /\ Cardinality(R) = Cardinality(P)
  <2> HIDE DEF R, f
  <2> QED BY <1>1, <1>4, <1>5, <1>6, SameCount
<1>8. \A i \in Q : i \in R \/ i = c + 1
  <2> TAKE i \in Q
  <2>1. CASE i \in c + 1..c + k
    BY <2>1, <1>0
  <2>2. CASE i \notin c + 1..c + k
    BY <2>2, <1>0, <1>3
  <2> QED BY <2>1, <2>2
<1>9. CASE k > 0 /\ c + 1 \in Q
  <2>1. ~(c + 1 <= c) /\ ~(c + 1 > c + k)
    BY <1>0, <1>9
  <2>2. Q = R \cup {c + 1} /\ c + 1 \notin R
    BY <2>1, <1>8, <1>9
  <2> HIDE DEF R
  <2> QED BY <2>2, <1>1, <1>7, <1>9, FS_AddElement
<1>10. CASE ~(k > 0 /\ c + 1 \in Q)
  <2>1. ASSUME c + 1 \in Q PROVE c + 1 \in R
    <3>1. c + 1 > c + k
      BY <2>1, <1>10, <1>0
    <3> QED BY <2>1, <3>1
  <2>2. Q = R
    BY <2>1, <1>8
  <2> HIDE DEF R
  <2> QED BY <2>2, <1>1, <1>7, <1>10
<1> QED BY <1>1, <1>9, <1>10

(* The places of a sequence where a member of X stands. *)
At(u, X) == {i \in DOMAIN u : u[i] \in X}

(* Without its head, a sequence has one job of the kind less, if the head  *)
(* was one.                                                                *)
LEMMA CountTail ==
  ASSUME NEW u \in Seq(Job), u # <<>>, NEW X
  PROVE  /\ Cardinality(At(u, X)) \in Nat /\ Cardinality(At(Tail(u), X)) \in Nat
         /\ Cardinality(At(u, X))
              = Cardinality(At(Tail(u), X)) + IF Head(u) \in X THEN 1 ELSE 0
<1> DEFINE n == Len(u) - 1
           P == At(Tail(u), X)
           Q == At(u, X)
<1>1. n \in Nat /\ Len(u) = n + 1 /\ Len(Tail(u)) = n
  BY EmptySeq
<1>2. P \subseteq 1..n /\ Q \subseteq 1..n + 1
  BY <1>1 DEF At
<1>3. \A i \in 1..n : i + 1 \in Q <=> i \in P
  BY <1>1 DEF At
<1>4. 1 \in Q <=> Head(u) \in X
  BY <1>1 DEF At
<1> HIDE DEF n, P, Q
<1>5. Cardinality(Q) = Cardinality(P) + (IF 1 > 0 /\ 0 + 1 \in Q THEN 1 ELSE 0)
      /\ Cardinality(P) \in Nat
  <2>1. \A i \in 1..0 : i \in Q <=> i \in P
    OBVIOUS
  <2>2. \A i \in 0 + 1..n : i + 1 \in Q <=> i \in P
    BY <1>3
  <2>3. \A i \in 0 + 1..0 + 1 : i \in Q => i = 0 + 1
    OBVIOUS
  <2>4. 0 \in 0..n /\ 1 \in Nat
    BY <1>1
  <2>5. Opened(P, Q, n, 0, 1)
    BY <1>1, <1>2, <2>1, <2>2, <2>3, <2>4 DEF Opened
  <2> QED BY <2>5, InsertCount
<1> QED BY <1>4, <1>5 DEF P, Q

(* The lineup is the jobs, then the kicks in line as the jobs they will    *)
(* become.                                                                 *)
LEMMA LineupType ==
  ASSUME NEW js \in Seq(Job), NEW w \in Seq(Kick)
  PROVE  /\ Lineup(js, w) \in Seq(Job) /\ Len(Lineup(js, w)) = Len(js) + Len(w)
         /\ \A i \in 1..Len(js) : Lineup(js, w)[i] = js[i]
         /\ \A i \in 1..Len(w) : Lineup(js, w)[Len(js) + i] = GrantJob(w[i])
<1> DEFINE g == [i \in DOMAIN w |-> GrantJob(w[i])]
<1>1. \A i \in 1..Len(w) : GrantJob(w[i]) \in Job
  BY DEF Job
<1>2. Len(w) \in Nat /\ DOMAIN w = 1..Len(w)
  OBVIOUS
<1>3. g \in Seq(Job) /\ Len(g) = Len(w) /\ \A i \in 1..Len(w) : g[i] = GrantJob(w[i])
  <2> HIDE DEF Job, GrantJob
  <2> QED BY <1>1, <1>2
<1> HIDE DEF g
<1>4. Lineup(js, w) = js \o g
  BY DEF Lineup, g
<1>5. /\ js \o g \in Seq(Job) /\ Len(js \o g) = Len(js) + Len(g)
      /\ \A i \in 1..Len(js) : (js \o g)[i] = js[i]
      /\ \A i \in 1..Len(g) : (js \o g)[Len(js) + i] = g[i]
  <2>1. g \in Seq(Job)
    BY <1>3
  <2> QED BY <2>1
<1> QED BY <1>2, <1>3, <1>4, <1>5

(* ins is put between js and the kicks in line. *)
LEMMA InsertedPlaces ==
  ASSUME NEW js \in Seq(Job), NEW ins \in Seq(Job), NEW w \in Seq(Kick)
  PROVE  LET u == Lineup(js, w)
             v == Lineup(js \o ins, w)
         IN  /\ u \in Seq(Job) /\ v \in Seq(Job)
             /\ Len(js) \in 0..Len(u) /\ Len(ins) \in Nat /\ Len(v) = Len(u) + Len(ins)
             /\ \A i \in 1..Len(js) : v[i] = u[i]
             /\ \A i \in Len(js) + 1..Len(u) : v[i + Len(ins)] = u[i]
             /\ \A i \in 1..Len(ins) : v[Len(js) + i] = ins[i]
<1> DEFINE u == Lineup(js, w)
           both == js \o ins
           v == Lineup(both, w)
           c == Len(js)
           k == Len(ins)
           n == Len(u)
<1>1. c \in Nat /\ k \in Nat /\ Len(w) \in Nat
  OBVIOUS
<1>2. /\ u \in Seq(Job) /\ n = c + Len(w)
      /\ \A i \in 1..c : u[i] = js[i]
      /\ \A i \in 1..Len(w) : u[c + i] = GrantJob(w[i])
  BY LineupType
<1>3. /\ both \in Seq(Job) /\ Len(both) = c + k
      /\ \A i \in 1..c : both[i] = js[i]
      /\ \A i \in 1..k : both[c + i] = ins[i]
  OBVIOUS
<1> HIDE DEF both
<1>4. /\ v \in Seq(Job) /\ Len(v) = c + k + Len(w)
      /\ \A i \in 1..c + k : v[i] = both[i]
      /\ \A i \in 1..Len(w) : v[c + k + i] = GrantJob(w[i])
  <2>1. both \in Seq(Job)
    BY <1>3
  <2>2. /\ v \in Seq(Job) /\ Len(v) = Len(both) + Len(w)
        /\ \A i \in 1..Len(both) : v[i] = both[i]
        /\ \A i \in 1..Len(w) : v[Len(both) + i] = GrantJob(w[i])
    BY <2>1, LineupType
  <2> HIDE DEF v
  <2> QED BY <1>3, <2>2
<1> HIDE DEF u, v, c, k, n
<1>5. c \in 0..n /\ Len(v) = n + k
  BY <1>1, <1>2, <1>4
<1>6. \A i \in 1..c : v[i] = u[i]
  <2> TAKE i \in 1..c
  <2>1. i \in 1..c + k
    BY <1>1
  <2> QED BY <2>1, <1>2, <1>3, <1>4
<1>7. \A i \in c + 1..n : v[i + k] = u[i]
  <2> TAKE i \in c + 1..n
  <2>1. i - c \in 1..Len(w) /\ c + (i - c) = i /\ c + k + (i - c) = i + k
    BY <1>1, <1>2
  <2> QED BY <2>1, <1>2, <1>4
<1>8. \A i \in 1..k : v[c + i] = ins[i]
  <2> TAKE i \in 1..k
  <2>1. c + i \in 1..c + k
    BY <1>1
  <2> QED BY <2>1, <1>3, <1>4
<1> QED BY <1>1, <1>2, <1>4, <1>5, <1>6, <1>7, <1>8 DEF u, v, c, k, n, both

(* Of what is put there only the first may count. *)
LEMMA CountInsert ==
  ASSUME NEW js \in Seq(Job), NEW ins \in Seq(Job), NEW w \in Seq(Kick), NEW X,
         \A i \in 2..Len(ins) : ins[i] \notin X
  PROVE  /\ Cardinality(At(Lineup(js, w), X)) \in Nat
         /\ Cardinality(At(Lineup(js \o ins, w), X))
              = Cardinality(At(Lineup(js, w), X))
                + IF Len(ins) > 0 /\ ins[1] \in X THEN 1 ELSE 0
<1> DEFINE u == Lineup(js, w)
           v == Lineup(js \o ins, w)
           c == Len(js)
           k == Len(ins)
           n == Len(u)
           P == At(u, X)
           Q == At(v, X)
<1>1. /\ u \in Seq(Job) /\ v \in Seq(Job) /\ c \in 0..n /\ k \in Nat /\ Len(v) = n + k
      /\ \A i \in 1..c : v[i] = u[i]
      /\ \A i \in c + 1..n : v[i + k] = u[i]
      /\ \A i \in 1..k : v[c + i] = ins[i]
  BY InsertedPlaces
<1> HIDE DEF u, v, c, k
<1>2. n \in Nat /\ P \subseteq 1..n /\ Q \subseteq 1..n + k /\ DOMAIN u = 1..n /\ DOMAIN v = 1..n + k
  BY <1>1 DEF At
<1> HIDE DEF n
<1>3. \A i \in 1..c : i \in Q <=> i \in P
  <2> TAKE i \in 1..c
  <2>1. i \in DOMAIN u /\ i \in DOMAIN v
    BY <1>1, <1>2
  <2> QED BY <2>1, <1>1 DEF At
<1>4. \A i \in c + 1..n : i + k \in Q <=> i \in P
  <2> TAKE i \in c + 1..n
  <2>1. i \in DOMAIN u /\ i + k \in DOMAIN v
    BY <1>1, <1>2
  <2> QED BY <2>1, <1>1 DEF At
<1>5. \A i \in 1..k : c + i \in Q <=> ins[i] \in X
  <2> TAKE i \in 1..k
  <2>1. c + i \in DOMAIN v
    BY <1>1, <1>2
  <2> QED BY <2>1, <1>1 DEF At
<1>6. \A i \in c + 1..c + k : i \in Q => i = c + 1
  <2> TAKE i \in c + 1..c + k
  <2>1. i - c \in 1..k /\ c + (i - c) = i
    BY <1>1
  <2>2. i # c + 1 => i - c \in 2..Len(ins)
    BY <1>1 DEF k
  <2> QED BY <2>1, <2>2, <1>5
<1> HIDE DEF P, Q
<1>7. Cardinality(P) \in Nat
      /\ Cardinality(Q) = Cardinality(P) + IF k > 0 /\ c + 1 \in Q THEN 1 ELSE 0
  <2>1. Opened(P, Q, n, c, k)
    BY <1>1, <1>2, <1>3, <1>4, <1>6 DEF Opened
  <2> QED BY <2>1, InsertCount
<1>8. k > 0 => (c + 1 \in Q <=> ins[1] \in X)
  BY <1>1, <1>5
<1> QED BY <1>7, <1>8 DEF u, v, P, Q, k

(* How the steps of the lane change what is upcoming. *)
LEMMA LineupMoves ==
  ASSUME NEW js \in Seq(Job), NEW w \in Seq(Kick)
  PROVE  /\ js # <<>> => Lineup(Tail(js), w) = Tail(Lineup(js, w))
                         /\ Head(Lineup(js, w)) = Head(js) /\ Lineup(js, w) # <<>>
         /\ w # <<>> => Lineup(Append(js, GrantJob(Head(w))), Tail(w)) = Lineup(js, w)
         /\ \A k \in Kick : Lineup(js, Append(w, k)) = Append(Lineup(js, w), GrantJob(k))
<1> DEFINE u == Lineup(js, w)
<1>0. Len(js) \in Nat /\ Len(w) \in Nat
  OBVIOUS
<1>1. /\ u \in Seq(Job) /\ Len(u) = Len(js) + Len(w)
      /\ \A i \in 1..Len(js) : u[i] = js[i]
      /\ \A i \in 1..Len(w) : u[Len(js) + i] = GrantJob(w[i])
  BY LineupType
<1>2. ASSUME js # <<>>
      PROVE  Lineup(Tail(js), w) = Tail(u) /\ Head(u) = Head(js) /\ u # <<>>
  <2> DEFINE a == Tail(js)
             v == Lineup(a, w)
  <2>1. a \in Seq(Job) /\ Len(a) = Len(js) - 1 /\ Len(js) > 0
        /\ \A i \in 1..Len(js) - 1 : a[i] = js[i + 1]
    BY <1>2
  <2> HIDE DEF a
  <2>2. /\ v \in Seq(Job) /\ Len(v) = Len(js) - 1 + Len(w)
        /\ \A i \in 1..Len(js) - 1 : v[i] = a[i]
        /\ \A i \in 1..Len(w) : v[Len(js) - 1 + i] = GrantJob(w[i])
    <3>1a. /\ v \in Seq(Job) /\ Len(v) = Len(a) + Len(w)
           /\ \A i \in 1..Len(a) : v[i] = a[i]
           /\ \A i \in 1..Len(w) : v[Len(a) + i] = GrantJob(w[i])
      BY <2>1, LineupType
    <3> HIDE DEF v
    <3> QED BY <2>1, <3>1a
  <2> HIDE DEF u, v
  <2>3. u # <<>> /\ Head(u) = Head(js)
    BY <1>0, <1>1, <2>1
  <2>4. Tail(u) \in Seq(Job) /\ Len(Tail(u)) = Len(u) - 1
        /\ \A i \in 1..Len(u) - 1 : Tail(u)[i] = u[i + 1]
    BY <1>1, <2>3
  <2>5. \A i \in 1..Len(v) : v[i] = Tail(u)[i]
    <3> TAKE i \in 1..Len(v)
    <3>1. CASE i <= Len(js) - 1
      <4>1. i \in 1..Len(js) - 1 /\ i + 1 \in 1..Len(js) /\ i \in 1..Len(u) - 1
        BY <3>1, <1>0, <1>1, <2>1
      <4> QED BY <4>1, <1>1, <2>1, <2>2, <2>4
    <3>2. CASE i > Len(js) - 1
      <4> DEFINE m == i - (Len(js) - 1)
      <4>1. m \in 1..Len(w) /\ Len(js) - 1 + m = i /\ Len(js) + m = i + 1
            /\ i \in 1..Len(u) - 1
        BY <3>2, <1>0, <1>1, <2>1, <2>2
      <4> HIDE DEF m
      <4> QED BY <4>1, <1>1, <2>2, <2>4
    <3>3. i <= Len(js) - 1 \/ i > Len(js) - 1
      <4>1. i \in Int /\ Len(js) \in Nat
        BY <1>0
      <4> QED BY <4>1
    <3> QED BY <3>1, <3>2, <3>3
  <2>6. v = Tail(u)
    BY <2>2, <2>4, <2>5, <1>0, <1>1, SeqEqual
  <2> QED BY <2>3, <2>6 DEF v, a
<1>3. ASSUME w # <<>>
      PROVE  Lineup(Append(js, GrantJob(Head(w))), Tail(w)) = u
  <2> DEFINE j == GrantJob(Head(w))
             a == Append(js, j)
             t == Tail(w)
             v == Lineup(a, t)
  <2>1. /\ t \in Seq(Kick) /\ Len(t) = Len(w) - 1 /\ Len(w) > 0
        /\ \A i \in 1..Len(w) - 1 : t[i] = w[i + 1]
        /\ Head(w) = w[1] /\ Head(w) \in Kick
    BY <1>3
  <2>2. j \in Job
    BY <2>1 DEF Job
  <2> HIDE DEF j, t
  <2>3. a \in Seq(Job) /\ Len(a) = Len(js) + 1 /\ a[Len(js) + 1] = j
        /\ \A i \in 1..Len(js) : a[i] = js[i]
    BY <2>2
  <2> HIDE DEF a
  <2>4. /\ v \in Seq(Job) /\ Len(v) = Len(js) + 1 + (Len(w) - 1)
        /\ \A i \in 1..Len(js) + 1 : v[i] = a[i]
        /\ \A i \in 1..Len(w) - 1 : v[Len(js) + 1 + i] = GrantJob(t[i])
    <3>1a. /\ v \in Seq(Job) /\ Len(v) = Len(a) + Len(t)
           /\ \A i \in 1..Len(a) : v[i] = a[i]
           /\ \A i \in 1..Len(t) : v[Len(a) + i] = GrantJob(t[i])
      BY <2>1, <2>3, LineupType
    <3> HIDE DEF v
    <3> QED BY <2>1, <2>3, <3>1a
  <2> HIDE DEF u, v
  <2>5. \A i \in 1..Len(u) : v[i] = u[i]
    <3> TAKE i \in 1..Len(u)
    <3>1. CASE i <= Len(js)
      <4>1. i \in 1..Len(js) /\ i \in 1..Len(js) + 1
        BY <3>1, <1>0, <1>1
      <4> QED BY <4>1, <1>1, <2>3, <2>4
    <3>2. CASE i = Len(js) + 1
      <4>1. 1 \in 1..Len(w) /\ i \in 1..Len(js) + 1
        BY <3>2, <1>0, <2>1
      <4>2. v[i] = j /\ u[i] = GrantJob(w[1])
        BY <4>1, <3>2, <1>1, <2>3, <2>4
      <4> QED BY <4>2, <2>1 DEF j
    <3>3. CASE i > Len(js) + 1
      <4> DEFINE m == i - (Len(js) + 1)
      <4>1. m \in 1..Len(w) - 1 /\ m + 1 \in 1..Len(w) /\ Len(js) + 1 + m = i
            /\ Len(js) + (m + 1) = i
        BY <3>3, <1>0, <1>1
      <4> HIDE DEF m
      <4>2. v[i] = GrantJob(t[m])
        BY <4>1, <2>4
      <4>3. u[i] = GrantJob(w[m + 1])
        BY <4>1, <1>1
      <4>4. t[m] = w[m + 1]
        BY <4>1, <2>1
      <4> QED BY <4>2, <4>3, <4>4
    <3>4. i \in Int /\ Len(js) \in Nat
      BY <1>0, <1>1
    <3> QED BY <3>1, <3>2, <3>3, <3>4
  <2>6. v = u
    BY <2>4, <2>5, <1>0, <1>1, SeqEqual
  <2> QED BY <2>6 DEF v, a, j, t
<1>4. ASSUME NEW k \in Kick
      PROVE  Lineup(js, Append(w, k)) = Append(u, GrantJob(k))
  <2> DEFINE more == Append(w, k)
             v == Lineup(js, more)
             j == GrantJob(k)
             t == Append(u, j)
  <2>1. /\ more \in Seq(Kick) /\ Len(more) = Len(w) + 1
        /\ more[Len(w) + 1] = k /\ \A i \in 1..Len(w) : more[i] = w[i]
    OBVIOUS
  <2> HIDE DEF more
  <2>2. /\ v \in Seq(Job) /\ Len(v) = Len(js) + Len(w) + 1
        /\ \A i \in 1..Len(js) : v[i] = js[i]
        /\ \A i \in 1..Len(w) + 1 : v[Len(js) + i] = GrantJob(more[i])
    <3>1a. /\ v \in Seq(Job) /\ Len(v) = Len(js) + Len(more)
           /\ \A i \in 1..Len(js) : v[i] = js[i]
           /\ \A i \in 1..Len(more) : v[Len(js) + i] = GrantJob(more[i])
      BY <2>1, LineupType
    <3> HIDE DEF v
    <3> QED BY <1>0, <2>1, <3>1a
  <2>3. j \in Job
    BY DEF Job
  <2> HIDE DEF u, v, j
  <2>3a. u \in Seq(Job) /\ Len(u) \in Nat
    BY <1>1
  <2>4. /\ t \in Seq(Job) /\ Len(t) = Len(u) + 1 /\ t[Len(u) + 1] = j
        /\ \A i \in 1..Len(u) : t[i] = u[i]
    BY <2>3, <2>3a
  <2> HIDE DEF t
  <2>5. \A i \in 1..Len(t) : v[i] = t[i]
    <3> TAKE i \in 1..Len(t)
    <3>1. CASE i <= Len(js)
      <4>1. i \in 1..Len(js) /\ i \in 1..Len(u)
        BY <3>1, <1>0, <1>1
      <4> QED BY <4>1, <1>1, <2>2, <2>4
    <3>2. CASE i > Len(js) /\ i <= Len(u)
      <4> DEFINE m == i - Len(js)
      <4>1. m \in 1..Len(w) /\ m \in 1..Len(w) + 1 /\ Len(js) + m = i /\ i \in 1..Len(u)
        BY <3>2, <1>0, <1>1
      <4> HIDE DEF m
      <4> QED BY <4>1, <1>1, <2>1, <2>2, <2>4
    <3>3. CASE i = Len(u) + 1
      <4>1. Len(w) + 1 \in 1..Len(w) + 1 /\ i = Len(js) + (Len(w) + 1)
        BY <3>3, <1>0, <1>1
      <4> QED BY <4>1, <3>3, <2>1, <2>2, <2>4 DEF j
    <3> QED BY <3>1, <3>2, <3>3, <1>0, <1>1, <2>4
  <2>6. v = t
    BY <2>2, <2>4, <2>5, <1>0, <1>1, SeqEqual
  <2> QED BY <2>6 DEF v, t, j, more
<1> QED BY <1>2, <1>3, <1>4

(* The four constructors of jobs are told apart by do. *)
LEMMA JobFields ==
  /\ \A j \in Job :
       /\ j.do \in {"grant", "settle", "release", "follow"}
       /\ j.do = "grant" => j.kick \in Kick /\ j = GrantJob(j.kick)
       /\ j.do = "settle" => j.sid \in Sessions /\ j = SettleJob(j.sid)
       /\ j.do = "release" => j.sid \in Sessions /\ j.laned \in BOOLEAN
       /\ j.do = "follow" => j.sid \in Sessions /\ j.status \in Statuses
  /\ \A k \in Kick : GrantJob(k) \in Job /\ GrantJob(k).do = "grant" /\ GrantJob(k).kick = k
  /\ \A s \in Sessions : SettleJob(s) \in Job /\ SettleJob(s).do = "settle" /\ SettleJob(s).sid = s
  /\ \A s \in Sessions, b \in BOOLEAN :
       /\ ReleaseJob(s, b) \in Job /\ ReleaseJob(s, b).do = "release"
       /\ ReleaseJob(s, b).sid = s /\ ReleaseJob(s, b).laned = b
  /\ \A s \in Sessions, x \in Statuses :
       /\ FollowJob(s, x) \in Job /\ FollowJob(s, x).do = "follow"
       /\ FollowJob(s, x).sid = s /\ FollowJob(s, x).status = x
<1>1. ASSUME NEW k \in Kick
      PROVE  GrantJob(k) \in Job /\ GrantJob(k).do = "grant" /\ GrantJob(k).kick = k
  BY DEF Job, GrantJob
<1>2. ASSUME NEW s \in Sessions
      PROVE  SettleJob(s) \in Job /\ SettleJob(s).do = "settle" /\ SettleJob(s).sid = s
  BY DEF Job, SettleJob
<1>3. ASSUME NEW s \in Sessions, NEW b \in BOOLEAN
      PROVE  /\ ReleaseJob(s, b) \in Job /\ ReleaseJob(s, b).do = "release"
             /\ ReleaseJob(s, b).sid = s /\ ReleaseJob(s, b).laned = b
  BY DEF Job, ReleaseJob
<1>4. ASSUME NEW s \in Sessions, NEW x \in Statuses
      PROVE  /\ FollowJob(s, x) \in Job /\ FollowJob(s, x).do = "follow"
             /\ FollowJob(s, x).sid = s /\ FollowJob(s, x).status = x
  BY DEF Job, FollowJob
<1>5. ASSUME NEW j \in Job
      PROVE  /\ j.do \in {"grant", "settle", "release", "follow"}
             /\ j.do = "grant" => j.kick \in Kick /\ j = GrantJob(j.kick)
             /\ j.do = "settle" => j.sid \in Sessions /\ j = SettleJob(j.sid)
             /\ j.do = "release" => j.sid \in Sessions /\ j.laned \in BOOLEAN
             /\ j.do = "follow" => j.sid \in Sessions /\ j.status \in Statuses
  <2>1. CASE \E k \in Kick : j = GrantJob(k)
    BY <2>1, <1>1
  <2>2. CASE \E s \in Sessions : j = SettleJob(s)
    BY <2>2, <1>2
  <2>3. CASE \E s \in Sessions, b \in BOOLEAN : j = ReleaseJob(s, b)
    BY <2>3, <1>3
  <2>4. CASE \E s \in Sessions, x \in Statuses : j = FollowJob(s, x)
    BY <2>4, <1>4
  <2> QED BY <2>1, <2>2, <2>3, <2>4 DEF Job
<1> QED BY <1>1, <1>2, <1>3, <1>4, <1>5

(* The fields of a kick have their types. *)
LEMMA KickFields ==
  \A k \in Kick : /\ k.sid \in Sessions /\ k.seeds \in Seq(Messages) /\ k.wake \in BOOLEAN
                  /\ ToSet(k.seeds) \subseteq Messages
  <1> SUFFICES ASSUME NEW k \in Kick
               PROVE  /\ k.sid \in Sessions /\ k.seeds \in Seq(Messages) /\ k.wake \in BOOLEAN
                      /\ ToSet(k.seeds) \subseteq Messages
    OBVIOUS
  <1>1. k.sid \in Sessions /\ k.seeds \in Seq(Messages) /\ k.wake \in BOOLEAN
    BY DEF Kick
  <1>2. \A i \in DOMAIN k.seeds : k.seeds[i] \in Messages
    BY <1>1
  <1> QED BY <1>1, <1>2 DEF ToSet

(* With nobody in line, the lineup is the jobs. *)
LEMMA LineupAlone ==
  ASSUME NEW js \in Seq(Job)
  PROVE  Lineup(js, <<>>) = js
<1>1. <<>> \in Seq(Kick) /\ Len(<<>>) = 0
  OBVIOUS
<1>2. /\ Lineup(js, <<>>) \in Seq(Job) /\ Len(Lineup(js, <<>>)) = Len(js) + 0
      /\ \A i \in 1..Len(js) : Lineup(js, <<>>)[i] = js[i]
  BY <1>1, LineupType
<1>3. Len(js) + 0 = Len(js)
  OBVIOUS
<1> QED BY <1>2, <1>3, SeqEqual

(* The jobs that the invariant counts. *)
SlotKind == {j \in Job : j.do \in {"release", "grant"}}
OwingKind(s) == {j \in Job : Owes(j, s)}

(* The sets the invariant counts are places of a kind of job. *)
LEMMA CountedKinds ==
  ASSUME NEW u \in Seq(Job)
  PROVE  /\ SlotsIn(u) = At(u, SlotKind)
         /\ \A s \in Sessions : OwedIn(u, s) = At(u, OwingKind(s))
         /\ \A s \in Sessions : SettlesIn(u, s) = At(u, {SettleJob(s)})
<1>1. \A i \in DOMAIN u : u[i] \in Job
  OBVIOUS
<1> QED BY <1>1 DEF SlotsIn, OwedIn, SettlesIn, At, SlotKind, OwingKind

(* What the invariant counts is finite. *)
LEMMA CountedNat ==
  ASSUME NEW u \in Seq(Job)
  PROVE  /\ Cardinality(SlotsIn(u)) \in Nat
         /\ \A s \in Sessions : /\ Cardinality(OwedIn(u, s)) \in Nat
                                /\ Cardinality(SettlesIn(u, s)) \in Nat
<1>1. Len(u) \in Nat /\ DOMAIN u = 1..Len(u)
  OBVIOUS
<1> QED BY <1>1, PositionsFinite DEF SlotsIn, OwedIn, SettlesIn

(* A job that is appended counts once, if it is of the kind. *)
LEMMA CountAppend ==
  ASSUME NEW u \in Seq(Job), NEW j \in Job, NEW X
  PROVE  Cardinality(At(Append(u, j), X)) = Cardinality(At(u, X)) + IF j \in X THEN 1 ELSE 0
<1> DEFINE ins == <<j>>
           v == u \o ins
<1>1. ins \in Seq(Job) /\ Len(ins) = 1 /\ ins[1] = j /\ <<>> \in Seq(Kick)
  OBVIOUS
<1>2. v \in Seq(Job) /\ v = Append(u, j)
  OBVIOUS
<1> HIDE DEF ins
<1>3. \A i \in 2..Len(ins) : ins[i] \notin X
  BY <1>1
<1>4. \A w \in Seq(Kick) :
        Cardinality(At(Lineup(u \o ins, w), X))
          = Cardinality(At(Lineup(u, w), X)) + IF Len(ins) > 0 /\ ins[1] \in X THEN 1 ELSE 0
  BY <1>1, <1>3, CountInsert
<1> HIDE DEF v
<1>5. Lineup(v, <<>>) = v /\ Lineup(u, <<>>) = u
  BY <1>2, LineupAlone
<1>6. Cardinality(At(v, X)) = Cardinality(At(u, X)) + IF ins[1] \in X THEN 1 ELSE 0
  <2>1. Cardinality(At(Lineup(u \o ins, <<>>), X))
          = Cardinality(At(Lineup(u, <<>>), X))
            + IF Len(ins) > 0 /\ ins[1] \in X THEN 1 ELSE 0
    BY <1>1, <1>4
  <2>2. Lineup(u \o ins, <<>>) = v /\ Lineup(u, <<>>) = u
    BY <1>5, Zenon DEF v
  <2>3. Len(ins) > 0
    BY <1>1
  <2> QED BY <2>1, <2>2, <2>3
<1> QED BY <1>1, <1>2, <1>6

-----------------------------------------------------------------------------
(* How messages move between queues and kicks. *)

(* The queue of s becomes q: what was in it leaves P, what is in q joins. *)
LEMMA QueueHouses ==
  ASSUME NEW qs \in [Sessions -> Seq(Item)], NEW u \in Seq(Job), NEW P, HousedIn(qs, u, P),
         NEW s \in Sessions, NEW q \in Seq(Item), Distinct(q),
         Msgs(q) \cap (P \ Msgs(qs[s])) = {}
  PROVE  /\ HousedIn([qs EXCEPT ![s] = q], u, (P \ Msgs(qs[s])) \cup Msgs(q))
         /\ Msgs(qs[s]) \subseteq P /\ Distinct(qs[s])
<1> DEFINE rs == [qs EXCEPT ![s] = q]
           K(n) == ToSet(u[n].kick.seeds)
<1>1. \A t \in Sessions : rs[t] = IF t = s THEN q ELSE qs[t]
  OBVIOUS
<1>2. /\ \A t \in Sessions : Distinct(qs[t])
      /\ \A t, r \in Sessions : t # r => Msgs(qs[t]) \cap Msgs(qs[r]) = {}
      /\ \A n \in GrantsIn(u) : NoRepeat(u[n].kick.seeds)
      /\ \A n, k \in GrantsIn(u) : n # k => K(n) \cap K(k) = {}
      /\ \A t \in Sessions : \A n \in GrantsIn(u) : Msgs(qs[t]) \cap K(n) = {}
      /\ P = (UNION {Msgs(qs[t]) : t \in Sessions}) \cup (UNION {K(n) : n \in GrantsIn(u)})
  BY DEF HousedIn
<1> HIDE DEF K, rs
<1>3. \A t \in Sessions : t # s => Msgs(qs[t]) \cap Msgs(q) = {}
  BY <1>2
<1>4. \A n \in GrantsIn(u) : Msgs(q) \cap K(n) = {}
  BY <1>2
<1>5. \A t \in Sessions : Distinct(rs[t])
  BY <1>1, <1>2
<1>6. \A t, r \in Sessions : t # r => Msgs(rs[t]) \cap Msgs(rs[r]) = {}
  BY <1>1, <1>2, <1>3
<1>7. \A t \in Sessions : \A n \in GrantsIn(u) : Msgs(rs[t]) \cap K(n) = {}
  BY <1>1, <1>2, <1>4
<1>8. (P \ Msgs(qs[s])) \cup Msgs(q)
        = (UNION {Msgs(rs[t]) : t \in Sessions}) \cup (UNION {K(n) : n \in GrantsIn(u)})
  <2>1. \A m : m \in P <=> \/ \E t \in Sessions : m \in Msgs(qs[t])
                           \/ \E n \in GrantsIn(u) : m \in K(n)
    BY <1>2
  <2>2. \A m : m \in (P \ Msgs(qs[s])) \cup Msgs(q)
                 <=> \/ \E t \in Sessions : m \in Msgs(rs[t])
                     \/ \E n \in GrantsIn(u) : m \in K(n)
    BY <1>1, <1>2, <2>1
  <2> QED BY <2>2
<1>9. Msgs(qs[s]) \subseteq P
  BY <1>2
<1> QED BY <1>2, <1>5, <1>6, <1>7, <1>8, <1>9 DEF HousedIn, K, rs

(* A kick with new seeds is added at the end. *)
LEMMA GrantHouses ==
  ASSUME NEW qs, NEW u \in Seq(Job), NEW P, HousedIn(qs, u, P),
         NEW k \in Kick, NoRepeat(k.seeds), ToSet(k.seeds) \cap P = {}
  PROVE  HousedIn(qs, Append(u, GrantJob(k)), P \cup ToSet(k.seeds))
<1> DEFINE v == Append(u, GrantJob(k))
           K(n) == ToSet(v[n].kick.seeds)
           N == Len(u) + 1
<1>1. GrantJob(k) \in Job /\ GrantJob(k).do = "grant" /\ GrantJob(k).kick = k
  BY JobFields
<1>2. /\ v \in Seq(Job) /\ DOMAIN v = DOMAIN u \cup {N} /\ N \notin DOMAIN u
      /\ v[N] = GrantJob(k) /\ \A i \in DOMAIN u : v[i] = u[i]
  <2> HIDE DEF GrantJob
  <2> QED BY <1>1
<1> HIDE DEF v, N
<1>3. GrantsIn(v) = GrantsIn(u) \cup {N} /\ N \notin GrantsIn(u)
  BY <1>1, <1>2 DEF GrantsIn
<1>4. K(N) = ToSet(k.seeds) /\ v[N].kick.seeds = k.seeds
  BY <1>1, <1>2
<1>5. \A n \in GrantsIn(u) : v[n] = u[n]
  BY <1>2 DEF GrantsIn
<1>6. /\ \A t \in Sessions : Distinct(qs[t])
      /\ \A t, r \in Sessions : t # r => Msgs(qs[t]) \cap Msgs(qs[r]) = {}
      /\ \A n \in GrantsIn(u) : NoRepeat(v[n].kick.seeds)
      /\ \A n, i \in GrantsIn(u) : n # i => K(n) \cap K(i) = {}
      /\ \A t \in Sessions : \A n \in GrantsIn(u) : Msgs(qs[t]) \cap K(n) = {}
      /\ P = (UNION {Msgs(qs[t]) : t \in Sessions}) \cup (UNION {K(n) : n \in GrantsIn(u)})
  BY <1>5 DEF HousedIn
<1> HIDE DEF K
<1>7. \A n \in GrantsIn(v) : NoRepeat(v[n].kick.seeds)
  BY <1>3, <1>4, <1>6
<1>8. \A n, i \in GrantsIn(v) : n # i => K(n) \cap K(i) = {}
  BY <1>3, <1>4, <1>6
<1>9. \A t \in Sessions : \A n \in GrantsIn(v) : Msgs(qs[t]) \cap K(n) = {}
  BY <1>3, <1>4, <1>6
<1>10. P \cup ToSet(k.seeds)
         = (UNION {Msgs(qs[t]) : t \in Sessions}) \cup (UNION {K(n) : n \in GrantsIn(v)})
  BY <1>3, <1>4, <1>6
<1> QED BY <1>6, <1>7, <1>8, <1>9, <1>10 DEF HousedIn, K, v

(* The first job runs; if it is a kick, its seeds leave P. *)
LEMMA FirstLeaves ==
  ASSUME NEW qs, NEW u \in Seq(Job), u # <<>>, NEW P, HousedIn(qs, u, P)
  PROVE  /\ Head(u).do # "grant" => HousedIn(qs, Tail(u), P)
         /\ Head(u).do = "grant"
              => LET S == ToSet(Head(u).kick.seeds)
                 IN  /\ HousedIn(qs, Tail(u), P \ S)
                     /\ S \subseteq P /\ NoRepeat(Head(u).kick.seeds)
                     /\ \A s \in Sessions : Msgs(qs[s]) \cap S = {}
<1> DEFINE v == Tail(u)
           K(n) == ToSet(u[n].kick.seeds)
           N == Len(u)
<1>1. N \in Nat /\ N > 0 /\ u[1] = Head(u) /\ DOMAIN u = 1..N
  BY EmptySeq
<1>2. v \in Seq(Job) /\ DOMAIN v = 1..N - 1 /\ \A i \in 1..N - 1 : v[i] = u[i + 1]
  OBVIOUS
<1> HIDE DEF v, N
<1>3. \A i \in 1..N - 1 : i + 1 \in 1..N /\ i + 1 # 1
  BY <1>1
<1>4. \A i \in 1..N : i # 1 => i - 1 \in 1..N - 1 /\ (i - 1) + 1 = i
  BY <1>1
<1>5. \A n \in GrantsIn(v) : /\ n + 1 \in GrantsIn(u) \ {1} /\ v[n] = u[n + 1]
                             /\ ToSet(v[n].kick.seeds) = K(n + 1)
  BY <1>1, <1>2, <1>3 DEF GrantsIn
<1>6. \A n \in GrantsIn(u) \ {1} : n - 1 \in GrantsIn(v) /\ (n - 1) + 1 = n
  BY <1>1, <1>2, <1>4 DEF GrantsIn
<1>7. 1 \in GrantsIn(u) <=> Head(u).do = "grant"
  BY <1>1 DEF GrantsIn
<1>8. /\ \A t \in Sessions : Distinct(qs[t])
      /\ \A t, r \in Sessions : t # r => Msgs(qs[t]) \cap Msgs(qs[r]) = {}
      /\ \A n \in GrantsIn(u) : NoRepeat(u[n].kick.seeds)
      /\ \A n, i \in GrantsIn(u) : n # i => K(n) \cap K(i) = {}
      /\ \A t \in Sessions : \A n \in GrantsIn(u) : Msgs(qs[t]) \cap K(n) = {}
      /\ P = (UNION {Msgs(qs[t]) : t \in Sessions}) \cup (UNION {K(n) : n \in GrantsIn(u)})
  BY DEF HousedIn
<1> DEFINE L(n) == ToSet(v[n].kick.seeds)
           R == (UNION {Msgs(qs[t]) : t \in Sessions}) \cup (UNION {L(n) : n \in GrantsIn(v)})
<1>9. HousedIn(qs, v, R)
  <2>1. \A n \in GrantsIn(v) : NoRepeat(v[n].kick.seeds)
    BY <1>5, <1>8
  <2>2. \A n, i \in GrantsIn(v) : n # i => n + 1 # i + 1
    BY <1>2 DEF GrantsIn
  <2>3. \A n, i \in GrantsIn(v) : n # i => L(n) \cap L(i) = {}
    <3> HIDE DEF K
    <3> QED BY <1>5, <1>8, <2>2
  <2>4. \A t \in Sessions : \A n \in GrantsIn(v) : Msgs(qs[t]) \cap L(n) = {}
    <3> HIDE DEF K
    <3> QED BY <1>5, <1>8
  <2> QED BY <1>8, <2>1, <2>3, <2>4 DEF HousedIn
<1>10. \A m : m \in R <=> \/ \E t \in Sessions : m \in Msgs(qs[t])
                          \/ \E n \in GrantsIn(u) \ {1} : m \in K(n)
  <2>1. \A m : (\E n \in GrantsIn(v) : m \in L(n)) <=> \E n \in GrantsIn(u) \ {1} : m \in K(n)
    <3> HIDE DEF K
    <3> QED BY <1>5, <1>6
  <2> HIDE DEF L, K
  <2> QED BY <2>1
<1> HIDE DEF K, R
<1>11. CASE Head(u).do # "grant"
  <2>1. R = P
    BY <1>7, <1>8, <1>10, <1>11
  <2> QED BY <1>9, <1>11, <2>1 DEF v
<1>12. CASE Head(u).do = "grant"
  <2>1. R = P \ K(1)
    BY <1>7, <1>8, <1>10, <1>12
  <2>2. K(1) \subseteq P /\ NoRepeat(u[1].kick.seeds) /\ \A s \in Sessions : Msgs(qs[s]) \cap K(1) = {}
    BY <1>7, <1>8, <1>12
  <2>3. K(1) = ToSet(Head(u).kick.seeds)
    BY <1>1 DEF K
  <2> QED BY <1>1, <1>9, <1>12, <2>1, <2>2, <2>3 DEF v
<1> QED BY <1>11, <1>12

(* Jobs that are no kicks become ready. *)
LEMMA InsertHouses ==
  ASSUME NEW qs, NEW js \in Seq(Job), NEW ins \in Seq(Job), NEW w \in Seq(Kick), NEW P,
         HousedIn(qs, Lineup(js, w), P), \A i \in DOMAIN ins : ins[i].do # "grant"
  PROVE  HousedIn(qs, Lineup(js \o ins, w), P)
<1> DEFINE u == Lineup(js, w)
           v == Lineup(js \o ins, w)
           c == Len(js)
           k == Len(ins)
           n == Len(u)
           old(i) == IF i <= c THEN i ELSE i - k
           new(i) == IF i <= c THEN i ELSE i + k
           K(i) == ToSet(u[i].kick.seeds)
           L(i) == ToSet(v[i].kick.seeds)
<1>1. /\ u \in Seq(Job) /\ v \in Seq(Job) /\ c \in 0..n /\ k \in Nat /\ Len(v) = n + k
      /\ \A i \in 1..c : v[i] = u[i]
      /\ \A i \in c + 1..n : v[i + k] = u[i]
      /\ \A i \in 1..k : v[c + i] = ins[i]
  BY InsertedPlaces
<1>2. DOMAIN ins = 1..k
  OBVIOUS
<1> HIDE DEF u, v, c, k
<1>3. n \in Nat /\ DOMAIN u = 1..n /\ DOMAIN v = 1..n + k
  BY <1>1
<1> HIDE DEF n
<1>4. \A i \in GrantsIn(v) : /\ old(i) \in GrantsIn(u) /\ u[old(i)] = v[i] /\ K(old(i)) = L(i)
                             /\ new(old(i)) = i
  <2> TAKE i \in GrantsIn(v)
  <2>1. i \in 1..n + k /\ v[i].do = "grant"
    BY <1>3 DEF GrantsIn
  <2>2. CASE i <= c
    <3>1. i \in 1..c /\ i \in DOMAIN u
      BY <1>1, <1>3, <2>1, <2>2
    <3> QED BY <1>1, <2>1, <2>2, <3>1 DEF GrantsIn
  <2>3. CASE i > c /\ i <= c + k
    <3>1. i - c \in 1..k /\ c + (i - c) = i
      BY <1>1, <2>1, <2>3
    <3> QED BY <1>1, <1>2, <2>1, <3>1
  <2>4. CASE i > c + k
    <3>1. i - k \in c + 1..n /\ (i - k) + k = i /\ i - k \in DOMAIN u /\ ~(i <= c) /\ ~(i - k <= c)
      BY <1>1, <1>3, <2>1, <2>4
    <3> QED BY <1>1, <2>1, <3>1 DEF GrantsIn
  <2> QED BY <1>1, <2>1, <2>2, <2>3, <2>4
<1>5. \A i \in GrantsIn(u) : new(i) \in GrantsIn(v) /\ L(new(i)) = K(i)
  <2> TAKE i \in GrantsIn(u)
  <2>1. i \in 1..n /\ u[i].do = "grant"
    BY <1>3 DEF GrantsIn
  <2>2. CASE i <= c
    <3>1. i \in 1..c /\ i \in DOMAIN v
      BY <1>1, <1>3, <2>1, <2>2
    <3> QED BY <1>1, <2>1, <2>2, <3>1 DEF GrantsIn
  <2>3. CASE i > c
    <3>1. i \in c + 1..n /\ i + k \in DOMAIN v /\ ~(i <= c)
      BY <1>1, <1>3, <2>1, <2>3
    <3> QED BY <1>1, <2>1, <3>1 DEF GrantsIn
  <2> QED BY <1>1, <2>1, <2>2, <2>3
<1>6. \A i, j \in GrantsIn(v) : i # j => old(i) # old(j)
  BY <1>4
<1> HIDE DEF old, new
<1>7. /\ \A s \in Sessions : Distinct(qs[s])
      /\ \A s, t \in Sessions : s # t => Msgs(qs[s]) \cap Msgs(qs[t]) = {}
      /\ \A i \in GrantsIn(u) : NoRepeat(u[i].kick.seeds)
      /\ \A i, j \in GrantsIn(u) : i # j => K(i) \cap K(j) = {}
      /\ \A s \in Sessions : \A i \in GrantsIn(u) : Msgs(qs[s]) \cap K(i) = {}
      /\ P = (UNION {Msgs(qs[s]) : s \in Sessions}) \cup (UNION {K(i) : i \in GrantsIn(u)})
  BY DEF HousedIn, u
<1>8. \A i \in GrantsIn(v) : NoRepeat(v[i].kick.seeds)
  BY <1>4, <1>7
<1> HIDE DEF K, L
<1>9. \A i, j \in GrantsIn(v) : i # j => L(i) \cap L(j) = {}
  BY <1>4, <1>6, <1>7
<1>10. \A s \in Sessions : \A i \in GrantsIn(v) : Msgs(qs[s]) \cap L(i) = {}
  BY <1>4, <1>7
<1>11. {K(i) : i \in GrantsIn(u)} = {L(i) : i \in GrantsIn(v)}
  BY <1>4, <1>5
<1> QED BY <1>7, <1>8, <1>9, <1>10, <1>11 DEF HousedIn, L, v

-----------------------------------------------------------------------------
(* Steps of the lane. *)

(* The first job is taken off. *)
LEMMA FirstRuns ==
  ASSUME NEW js \in Seq(Job), js # <<>>, NEW w \in Seq(Kick)
  PROVE  /\ Head(js) \in Job /\ Tail(js) \in Seq(Job)
         /\ Cardinality(SlotsIn(js)) \in Nat /\ Cardinality(SlotsIn(Tail(js))) \in Nat
         /\ Cardinality(SlotsIn(js))
              = Cardinality(SlotsIn(Tail(js))) + IF Head(js) \in SlotKind THEN 1 ELSE 0
         /\ \A s \in Sessions :
              /\ Cardinality(SettlesIn(js, s)) \in Nat
              /\ Cardinality(SettlesIn(Tail(js), s)) \in Nat
              /\ Cardinality(SettlesIn(js, s))
                   = Cardinality(SettlesIn(Tail(js), s)) + IF Head(js) = SettleJob(s) THEN 1 ELSE 0
         /\ \A s \in Sessions :
              /\ Cardinality(OwedIn(Lineup(js, w), s)) \in Nat
              /\ Cardinality(OwedIn(Lineup(Tail(js), w), s)) \in Nat
              /\ Cardinality(OwedIn(Lineup(js, w), s))
                   = Cardinality(OwedIn(Lineup(Tail(js), w), s))
                     + IF Owes(Head(js), s) THEN 1 ELSE 0
<1>1. Head(js) \in Job /\ Tail(js) \in Seq(Job)
  OBVIOUS
<1>2. /\ Lineup(js, w) \in Seq(Job) /\ Lineup(Tail(js), w) = Tail(Lineup(js, w))
      /\ Lineup(js, w) # <<>> /\ Head(Lineup(js, w)) = Head(js)
      /\ Lineup(Tail(js), w) \in Seq(Job)
  BY <1>1, LineupMoves, LineupType
<1>3. \A X : /\ Cardinality(At(js, X)) \in Nat /\ Cardinality(At(Tail(js), X)) \in Nat
             /\ Cardinality(At(js, X))
                  = Cardinality(At(Tail(js), X)) + IF Head(js) \in X THEN 1 ELSE 0
  BY CountTail
<1> DEFINE u == Lineup(js, w)
           v == Lineup(Tail(js), w)
<1>4. \A X : /\ Cardinality(At(u, X)) \in Nat /\ Cardinality(At(v, X)) \in Nat
             /\ Cardinality(At(u, X))
                  = Cardinality(At(v, X)) + IF Head(js) \in X THEN 1 ELSE 0
  <2> HIDE DEF u, v
  <2>1. u \in Seq(Job) /\ u # <<>> /\ v = Tail(u) /\ Head(u) = Head(js)
    BY <1>2 DEF u, v
  <2>2. \A X : /\ Cardinality(At(u, X)) \in Nat /\ Cardinality(At(Tail(u), X)) \in Nat
               /\ Cardinality(At(u, X))
                    = Cardinality(At(Tail(u), X)) + IF Head(u) \in X THEN 1 ELSE 0
    BY <2>1, CountTail
  <2> QED BY <2>1, <2>2
<1> HIDE DEF u, v
<1>5. u \in Seq(Job) /\ v \in Seq(Job)
  BY <1>2 DEF u, v
<1>6. /\ SlotsIn(js) = At(js, SlotKind) /\ SlotsIn(Tail(js)) = At(Tail(js), SlotKind)
      /\ \A s \in Sessions : /\ SettlesIn(js, s) = At(js, {SettleJob(s)})
                             /\ SettlesIn(Tail(js), s) = At(Tail(js), {SettleJob(s)})
                             /\ OwedIn(u, s) = At(u, OwingKind(s))
                             /\ OwedIn(v, s) = At(v, OwingKind(s))
  BY <1>1, <1>5, CountedKinds
<1>7. \A s \in Sessions : Head(js) \in OwingKind(s) <=> Owes(Head(js), s)
  BY <1>1 DEF OwingKind
<1>8. \A s \in Sessions : Head(js) \in {SettleJob(s)} <=> Head(js) = SettleJob(s)
  OBVIOUS
<1>9. /\ Cardinality(SlotsIn(js)) \in Nat /\ Cardinality(SlotsIn(Tail(js))) \in Nat
      /\ Cardinality(SlotsIn(js))
           = Cardinality(SlotsIn(Tail(js))) + IF Head(js) \in SlotKind THEN 1 ELSE 0
  BY <1>3, <1>6
<1>10. ASSUME NEW s \in Sessions
       PROVE  /\ Cardinality(SettlesIn(js, s)) \in Nat
              /\ Cardinality(SettlesIn(Tail(js), s)) \in Nat
              /\ Cardinality(SettlesIn(js, s))
                   = Cardinality(SettlesIn(Tail(js), s)) + IF Head(js) = SettleJob(s) THEN 1 ELSE 0
  BY <1>3, <1>6, <1>8
<1>11. ASSUME NEW s \in Sessions
       PROVE  /\ Cardinality(OwedIn(u, s)) \in Nat /\ Cardinality(OwedIn(v, s)) \in Nat
              /\ Cardinality(OwedIn(u, s))
                   = Cardinality(OwedIn(v, s)) + IF Owes(Head(js), s) THEN 1 ELSE 0
  BY <1>4, <1>6, <1>7
<1> QED BY <1>1, <1>9, <1>10, <1>11 DEF u, v

(* The slot of the first job is released. *)
LEMMA SlotFreed ==
  ASSUME Types, jobs # <<>>, Head(jobs) \in SlotKind, SlotsCounted(jobs),
         FreeSlot(Tail(jobs)), run' = run
  PROVE  /\ SlotsCounted(jobs)' /\ jobs' \in Seq(Job) /\ waiting' \in Seq(Kick)
         /\ inFlight' \in Nat /\ Upcoming' = Tail(Upcoming)
         /\ \A s \in Sessions :
              Cardinality(SettlesIn(jobs', s)) = Cardinality(SettlesIn(Tail(jobs), s))
<1> DEFINE js == Tail(jobs)
<1>1. /\ jobs \in Seq(Job) /\ waiting \in Seq(Kick) /\ inFlight \in Nat
      /\ js \in Seq(Job)
  BY DEF Types
<1>2. /\ Cardinality(SlotsIn(jobs)) = Cardinality(SlotsIn(js)) + 1
      /\ Cardinality(SlotsIn(js)) \in Nat
  BY <1>1, FirstRuns
<1>3. Lineup(js, waiting) = Tail(Upcoming)
  BY <1>1, LineupMoves DEF Upcoming
<1>4. /\ IsFiniteSet(BusySessions) /\ inFlight <= Capacity
      /\ inFlight = Cardinality(BusySessions) + Cardinality(SlotsIn(jobs))
      /\ waiting # <<>> => inFlight = Capacity
      /\ Cardinality(BusySessions) \in Nat
  BY FS_CardinalityType DEF SlotsCounted
<1>5. BusySessions' = BusySessions
  BY DEF BusySessions, Busy
<1> HIDE DEF js
<1>6. CASE waiting = <<>>
  <2>1. inFlight' = inFlight - 1 /\ jobs' = js /\ waiting' = <<>>
    BY <1>6 DEF FreeSlot, js
  <2>2. SlotsCounted(jobs)'
    <3>1. Capacity \in Nat
      BY LaneAssumption
    <3>2. /\ inFlight' <= Capacity
          /\ inFlight' = Cardinality(BusySessions) + Cardinality(SlotsIn(js))
      BY ONLY <2>1, <1>1, <1>2, <1>4, <3>1
    <3> QED BY <2>1, <1>4, <1>5, <3>2 DEF SlotsCounted
  <2>3. Upcoming' = Tail(Upcoming)
    BY <1>3, <1>6, <2>1 DEF Upcoming
  <2>4. inFlight' \in Nat
    BY <2>1, <1>1, <1>2, <1>4
  <2> QED BY <2>1, <2>2, <2>3, <2>4, <1>1, <1>6 DEF js
<1>7. CASE waiting # <<>>
  <2> DEFINE g == GrantJob(Head(waiting))
  <2>1. jobs' = Append(js, g) /\ waiting' = Tail(waiting) /\ inFlight' = inFlight
    BY <1>7 DEF FreeSlot, js
  <2>2. Head(waiting) \in Kick /\ Tail(waiting) \in Seq(Kick)
    BY <1>1, <1>7
  <2>3. g \in Job /\ g.do = "grant" /\ g \in SlotKind
    BY <2>2, JobFields DEF SlotKind
  <2>4. \A s \in Sessions : g \notin {SettleJob(s)}
    BY <2>3, JobFields
  <2>5. Lineup(Append(js, g), Tail(waiting)) = Lineup(js, waiting)
    BY <1>1, <1>7, LineupMoves
  <2> HIDE DEF g
  <2>6. Append(js, g) \in Seq(Job)
    BY <1>1, <2>3
  <2>7. \A X : Cardinality(At(Append(js, g), X))
                 = Cardinality(At(js, X)) + IF g \in X THEN 1 ELSE 0
    BY <1>1, <2>3, CountAppend
  <2> DEFINE a == Append(js, g)
  <2> HIDE DEF a
  <2>8. /\ SlotsIn(a) = At(a, SlotKind) /\ SlotsIn(js) = At(js, SlotKind)
        /\ \A s \in Sessions : SettlesIn(a, s) = At(a, {SettleJob(s)})
        /\ \A s \in Sessions : SettlesIn(js, s) = At(js, {SettleJob(s)})
    <3>1. a \in Seq(Job)
      BY <2>6 DEF a
    <3> QED BY <3>1, <1>1, CountedKinds
  <2>9. Cardinality(SlotsIn(a)) = Cardinality(SlotsIn(js)) + 1
    BY <2>3, <2>7, <2>8 DEF a
  <2>10. ASSUME NEW s \in Sessions
         PROVE  Cardinality(SettlesIn(a, s)) = Cardinality(SettlesIn(js, s))
    <3>0. a \in Seq(Job) /\ IsFiniteSet(At(js, {SettleJob(s)}))
      <4>1. At(js, {SettleJob(s)}) \subseteq 1..Len(js) /\ Len(js) \in Nat
        BY <1>1 DEF At
      <4> QED BY <4>1, <2>6, PositionsFinite DEF a
    <3>1. Cardinality(At(js, {SettleJob(s)})) \in Nat
      BY <3>0, FS_CardinalityType
    <3>2. Cardinality(At(a, {SettleJob(s)})) = Cardinality(At(js, {SettleJob(s)})) + 0
      BY <2>4, <2>7 DEF a
    <3> QED BY <3>1, <3>2, <2>8
  <2>11. jobs' = a
    BY <2>1 DEF a
  <2>12. SlotsCounted(jobs)'
    BY <2>1, <2>9, <2>11, <1>1, <1>2, <1>4, <1>5, <1>7 DEF SlotsCounted
  <2>13. Upcoming' = Tail(Upcoming)
    BY <1>3, <2>1, <2>5 DEF Upcoming
  <2>14. /\ jobs' \in Seq(Job) /\ waiting' \in Seq(Kick) /\ inFlight' \in Nat
    BY <1>1, <2>1, <2>2, <2>6
  <2>15. \A s \in Sessions : Cardinality(SettlesIn(jobs', s)) = Cardinality(SettlesIn(js, s))
    BY <2>10, <2>11
  <2> QED BY <2>12, <2>13, <2>14, <2>15 DEF js
<1> QED BY <1>6, <1>7

(* queuedKicks goes down when a job that owes it runs. *)
LEMMA KickUncounted ==
  ASSUME Types, jobs # <<>>, KicksCounted(jobs), NEW s \in Sessions, NEW laned \in BOOLEAN,
         \A t \in Sessions : Owes(Head(jobs), t) <=> t = s /\ laned,
         Uncount(s, laned), Upcoming' = Tail(Upcoming), run' = run
  PROVE  KicksCounted(jobs)' /\ queuedKicks' \in [Sessions -> Nat]
<1>1. jobs \in Seq(Job) /\ waiting \in Seq(Kick) /\ queuedKicks \in [Sessions -> Nat]
  BY DEF Types
<1>2. Lineup(Tail(jobs), waiting) = Tail(Upcoming)
  BY <1>1, LineupMoves DEF Upcoming
<1>3. \A t \in Sessions :
        /\ Cardinality(OwedIn(Tail(Upcoming), t)) \in Nat
        /\ Cardinality(OwedIn(Upcoming, t))
             = Cardinality(OwedIn(Tail(Upcoming), t)) + IF t = s /\ laned THEN 1 ELSE 0
  <2>1. \A t \in Sessions :
          /\ Cardinality(OwedIn(Lineup(Tail(jobs), waiting), t)) \in Nat
          /\ Cardinality(OwedIn(Lineup(jobs, waiting), t))
               = Cardinality(OwedIn(Lineup(Tail(jobs), waiting), t))
                 + IF Owes(Head(jobs), t) THEN 1 ELSE 0
    BY <1>1, FirstRuns
  <2> QED BY <2>1, <1>2 DEF Upcoming
<1>4. \A t \in Sessions : /\ run[t].laned => Busy(t)
                          /\ queuedKicks[t] = Cardinality(OwedIn(Upcoming, t))
                                              + IF run[t].laned THEN 1 ELSE 0
  BY DEF KicksCounted, Upcoming
<1>5. \A t \in Sessions : queuedKicks'[t] = queuedKicks[t] - IF t = s /\ laned THEN 1 ELSE 0
  BY <1>1 DEF Uncount
<1>6. ASSUME NEW t \in Sessions
      PROVE  /\ queuedKicks'[t] = Cardinality(OwedIn(Tail(Upcoming), t))
                                  + IF run[t].laned THEN 1 ELSE 0
             /\ queuedKicks'[t] \in Nat
  BY <1>3, <1>4, <1>5
<1>7. queuedKicks' \in [Sessions -> Nat]
  <2>1. queuedKicks' = [t \in Sessions |-> queuedKicks'[t]]
    BY <1>1 DEF Uncount
  <2> QED BY <2>1, <1>6
<1>8. Lineup(jobs, waiting)' = Tail(Upcoming)
  BY DEF Upcoming
<1> QED BY <1>4, <1>6, <1>7, <1>8 DEF KicksCounted, Busy

-----------------------------------------------------------------------------
(* Marking fates. *)
LEMMA MarkPends ==
  ASSUME NEW f \in [Messages -> Fates], NEW S, NEW v \in Fates
  PROVE  /\ Mark(f, S, v) \in [Messages -> Fates]
         /\ Pending(Mark(f, S, v)) = IF v = "pending" THEN Pending(f) \cup (S \cap Messages)
                                     ELSE Pending(f) \ S
  BY DEF Mark, Pending, Fates

(* The seeds of a kick that rides as items of the queue. *)
LEMMA SeedItems ==
  ASSUME NEW k \in Kick, NoRepeat(k.seeds)
  PROVE  LET items == [i \in DOMAIN k.seeds |->
                         [msg |-> k.seeds[i], wake |-> k.wake, hold |-> FALSE, ctl |-> FALSE]]
         IN  items \in Seq(Item) /\ Distinct(items) /\ Msgs(items) = ToSet(k.seeds)
<1> DEFINE sd == k.seeds
           items == [i \in DOMAIN sd |->
                       [msg |-> sd[i], wake |-> k.wake, hold |-> FALSE, ctl |-> FALSE]]
<1>1. sd \in Seq(Messages) /\ k.wake \in BOOLEAN
  BY KickFields
<1> HIDE DEF sd
<1>2. DOMAIN sd = 1..Len(sd) /\ Len(sd) \in Nat /\ \A i \in DOMAIN sd : sd[i] \in Messages
  BY <1>1
<1>3. \A i \in DOMAIN sd :
        [msg |-> sd[i], wake |-> k.wake, hold |-> FALSE, ctl |-> FALSE] \in Item
  BY <1>1, <1>2 DEF Item
<1>4. items \in Seq(Item) /\ DOMAIN items = DOMAIN sd /\ \A i \in DOMAIN sd : items[i].msg = sd[i]
  BY <1>2, <1>3
<1> HIDE DEF items
<1>5. Distinct(items) /\ Msgs(items) = ToSet(sd)
  BY <1>4 DEF Distinct, NoRepeat, Msgs, ToSet, sd
<1> QED BY <1>4, <1>5 DEF items, sd

(* A queue without repetition makes seeds without repetition. *)
LEMMA MessagesOnce ==
  ASSUME NEW q \in Seq(Item), Distinct(q)
  PROVE  /\ MessagesOf(q) \in Seq(Messages) /\ ToSet(MessagesOf(q)) = Msgs(q)
         /\ NoRepeat(MessagesOf(q))
         /\ \A m \in Messages \ Msgs(q) :
              LET sd == Append(MessagesOf(q), m)
              IN  sd \in Seq(Messages) /\ ToSet(sd) = Msgs(q) \cup {m} /\ NoRepeat(sd)
<1> DEFINE mo == MessagesOf(q)
<1>1. /\ mo \in Seq(Messages) /\ ToSet(mo) = Msgs(q) /\ DOMAIN mo = DOMAIN q
      /\ \A i \in DOMAIN q : mo[i] = q[i].msg
  BY MessagesOfProps
<1> HIDE DEF mo
<1>2. NoRepeat(mo)
  BY <1>1 DEF NoRepeat, Distinct
<1>3. ASSUME NEW m \in Messages, m \notin Msgs(q)
      PROVE  LET sd == Append(mo, m)
             IN  sd \in Seq(Messages) /\ ToSet(sd) = Msgs(q) \cup {m} /\ NoRepeat(sd)
  <2> DEFINE sd == Append(mo, m)
             N == Len(mo) + 1
  <2>1. /\ sd \in Seq(Messages) /\ DOMAIN sd = DOMAIN mo \cup {N} /\ N \notin DOMAIN mo
        /\ sd[N] = m /\ \A i \in DOMAIN mo : sd[i] = mo[i]
    BY <1>1
  <2> HIDE DEF sd, N
  <2>2. ToSet(sd) = ToSet(mo) \cup {m}
    BY <2>1 DEF ToSet
  <2>3. \A i \in DOMAIN mo : mo[i] # m
    BY <1>1, <1>3 DEF ToSet
  <2>4. NoRepeat(sd)
    BY <2>1, <2>3, <1>2 DEF NoRepeat
  <2> QED BY <1>1, <2>1, <2>2, <2>4 DEF sd
<1> QED BY <1>1, <1>2, <1>3 DEF mo

(* seedQueuedFollowUps: the held messages and the others. *)
LEMMA HeldSplits ==
  ASSUME NEW q \in Seq(Item), Distinct(q)
  PROVE  /\ Held(q) \in Seq(Item) /\ Distinct(Held(q))
         /\ NotHeld(q) \in Seq(Item) /\ Distinct(NotHeld(q)) /\ Len(NotHeld(q)) <= Len(q)
         /\ Msgs(Held(q)) \cup Msgs(NotHeld(q)) = Msgs(q)
         /\ Msgs(Held(q)) \cap Msgs(NotHeld(q)) = {}
<1> DEFINE H == HeldAt(q)
           N == DOMAIN q \ HeldAt(q)
<1>1. H \subseteq DOMAIN q /\ N \subseteq DOMAIN q /\ H \cup N = DOMAIN q /\ H \cap N = {}
  BY DEF HeldAt
<1>2. Held(q) = Entries(q, H) /\ NotHeld(q) = Entries(q, N)
  BY DEF Held, NotHeld
<1> HIDE DEF H, N
<1>3. /\ Held(q) \in Seq(Item) /\ Distinct(Held(q)) /\ Msgs(Held(q)) = {q[i].msg : i \in H}
  BY <1>1, <1>2, EntriesMsgs
<1>4. /\ NotHeld(q) \in Seq(Item) /\ Distinct(NotHeld(q)) /\ Len(NotHeld(q)) <= Len(q)
      /\ Msgs(NotHeld(q)) = {q[i].msg : i \in N}
  BY <1>1, <1>2, EntriesMsgs
<1>5. Msgs(Held(q)) \cup Msgs(NotHeld(q)) = Msgs(q)
  BY <1>1, <1>3, <1>4 DEF Msgs
<1>6. Msgs(Held(q)) \cap Msgs(NotHeld(q)) = {}
  BY <1>1, <1>3, <1>4 DEF Distinct
<1> QED BY <1>3, <1>4, <1>5, <1>6

(* Appended jobs count by their first, if no other is of the kind. *)
LEMMA CountJoin ==
  ASSUME NEW js \in Seq(Job), NEW ins \in Seq(Job), NEW X,
         \A i \in 2..Len(ins) : ins[i] \notin X
  PROVE  Cardinality(At(js \o ins, X))
           = Cardinality(At(js, X)) + IF Len(ins) > 0 /\ ins[1] \in X THEN 1 ELSE 0
<1> DEFINE v == js \o ins
<1>1. <<>> \in Seq(Kick)
  OBVIOUS
<1>2. \A w \in Seq(Kick) :
        Cardinality(At(Lineup(js \o ins, w), X))
          = Cardinality(At(Lineup(js, w), X)) + IF Len(ins) > 0 /\ ins[1] \in X THEN 1 ELSE 0
  BY CountInsert
<1>3. v \in Seq(Job)
  OBVIOUS
<1> HIDE DEF v
<1>4. Lineup(v, <<>>) = v /\ Lineup(js, <<>>) = js
  BY <1>3, LineupAlone
<1>5. Lineup(js \o ins, <<>>) = v
  BY <1>4, Zenon DEF v
<1>6. Cardinality(At(Lineup(js \o ins, <<>>), X))
        = Cardinality(At(Lineup(js, <<>>), X)) + IF Len(ins) > 0 /\ ins[1] \in X THEN 1 ELSE 0
  BY <1>1, <1>2
<1> QED BY <1>4, <1>5, <1>6 DEF v

(* The jobs a settlement makes ready: a release, then the followers. *)
Followers(s, n, x) == [i \in 1..n |-> FollowJob(s, x)]
Readied(r, s, n, x) == <<r>> \o Followers(s, n, x)

(* A settlement readies one release, then the followers. *)
LEMMA ReleaseFirst ==
  ASSUME NEW js \in Seq(Job), NEW r \in Job, NEW s \in Sessions, NEW n \in Nat,
         NEW x \in Statuses
  PROVE  /\ Readied(r, s, n, x) \in Seq(Job) /\ Len(Readied(r, s, n, x)) > 0
         /\ Readied(r, s, n, x)[1] = r
         /\ \A i \in 2..Len(Readied(r, s, n, x)) :
              Readied(r, s, n, x)[i] = FollowJob(s, x)
         /\ Append(js, r) \o Followers(s, n, x)
              = js \o Readied(r, s, n, x)
         /\ js \o Readied(r, s, n, x) \in Seq(Job)
<1> DEFINE fl == [i \in 1..n |-> FollowJob(s, x)]
           ins == <<r>> \o fl
           j == FollowJob(s, x)
<1>1. j \in Job
  BY JobFields
<1> HIDE DEF j
<1>2. fl \in Seq(Job) /\ Len(fl) = n /\ \A i \in 1..n : fl[i] = j
  <2>1. fl = [i \in 1..n |-> j]
    BY DEF j
  <2> HIDE DEF fl
  <2> QED BY <1>1, <2>1
<1> HIDE DEF fl
<1>3. ins \in Seq(Job) /\ Len(ins) = n + 1 /\ ins[1] = r /\ \A i \in 2..n + 1 : ins[i] = j
  <2>1. <<r>> \in Seq(Job) /\ Len(<<r>>) = 1 /\ <<r>>[1] = r
    BY <1>1
  <2>2. ins \in Seq(Job) /\ Len(ins) = n + 1 /\ ins[1] = r /\ \A i \in 1..n : ins[i + 1] = fl[i]
    BY <1>2, <2>1
  <2>3. \A i \in 2..n + 1 : i - 1 \in 1..n /\ (i - 1) + 1 = i
    OBVIOUS
  <2> HIDE DEF ins
  <2> QED BY <1>2, <2>2, <2>3
<1>4. Append(js, r) \o fl = js \o ins
  BY <1>1, <1>2
<1> HIDE DEF ins
<1>5. js \o ins \in Seq(Job)
  BY <1>3
<1>6. fl = Followers(s, n, x) /\ ins = Readied(r, s, n, x)
  BY DEF ins, fl, Followers, Readied
<1> QED BY <1>3, <1>4, <1>5, <1>6 DEF j

(* Nothing is held in an empty queue. *)
LEMMA EmptyHeld == Held(<<>>) = <<>>
<1>1. <<>> \in Seq(Item) /\ HeldAt(<<>>) = {} /\ HeldAt(<<>>) \subseteq DOMAIN <<>>
  BY DEF HeldAt
<1> QED BY <1>1, EntriesProps DEF Held

=============================================================================
