---------------------------- MODULE ShapeProofs ----------------------------
(***************************************************************************)
(* Shape, the part of the inductive invariant of Persistence that speaks   *)
(* of types, flags, wake-ups and bounds, holds in every reachable state.   *)
(*                                                                         *)
(* First the lemmas about the operators of Store and WriteBehind that      *)
(* PersistenceProofs uses as well: positions and what is drawn from the    *)
(* queue, what a transaction leaves behind, what loadEvents reads, and how *)
(* each of these keeps the account of one session sound (SoundFor of       *)
(* PersistenceInv).                                                        *)
(***************************************************************************)
EXTENDS PersistenceInv, FiniteSetTheorems, WellFoundedInduction, TLAPS

(* A nonempty set of naturals has a least element. *)
LEMMA NatMin ==
  ASSUME NEW T, T \subseteq Nat, T # {}
  PROVE  \E x \in T : \A y \in T : x <= y
<1> DEFINE R == {ss \in Nat \X Nat : ss[1] < ss[2]}
<1>1. IsWellFoundedOn(R, Nat)
  BY NatLessThanWellFounded DEF OpToRel
<1>2. \A x, y \in Nat : y < x => <<y, x>> \in R
  OBVIOUS
<1> HIDE DEF R
<1>3. PICK x \in T : \A y \in T : <<y, x>> \notin R
  BY <1>1, WFMin
<1>4. \A y \in T : ~(y < x)
  BY <1>3, <1>2
<1> QED BY <1>4

(* A nonempty set of positions has a last one, and LastOf is it. *)
LEMMA LastOfIsLast ==
  ASSUME NEW n \in Nat, NEW P, P \subseteq 1..n, P # {}
  PROVE  LastOf(P) \in P /\ \A k \in P : k <= LastOf(P)
<1> DEFINE T == {n - p : p \in P}
<1>1. T \subseteq Nat
  OBVIOUS
<1>2. T # {}
  <2>1. PICK p \in P : TRUE
    OBVIOUS
  <2> QED BY <2>1
<1>3. PICK x \in T : \A y \in T : x <= y
  <2> HIDE DEF T
  <2> QED BY <1>1, <1>2, NatMin
<1>4. PICK j \in P : x = n - j
  BY <1>3
<1>5. \A k \in P : k <= j
  BY <1>3, <1>4
<1> QED BY <1>5 DEF LastOf

(* An enumeration of positions picks entries of the queue, each once and   *)
(* in the order of the queue.                                              *)
LEMMA PickProps ==
  ASSUME NEW q \in Seq(Event), NEW P, P \subseteq DOMAIN q, NEW f \in Picks(P)
  PROVE  /\ Pick(q, f) \in Seq(Event)
         /\ f \in [DOMAIN Pick(q, f) -> P]
         /\ \A i, j \in DOMAIN Pick(q, f) : i < j => f[i] < f[j]
         /\ \A p \in P : \E i \in DOMAIN Pick(q, f) : f[i] = p
         /\ \A i \in DOMAIN Pick(q, f) : Pick(q, f)[i] = q[f[i]]
<1>1. Cardinality(P) \in Nat
  <2>1. IsFiniteSet(1..Len(q))
    BY FS_Interval
  <2>2. IsFiniteSet(P)
    BY <2>1, FS_Subset
  <2> QED BY <2>2, FS_CardinalityType
<1>2. f \in [1..Cardinality(P) -> P]
  BY DEF Picks
<1>3. DOMAIN Pick(q, f) = 1..Cardinality(P)
  BY <1>2 DEF Pick
<1>4. \A i \in 1..Cardinality(P) : Pick(q, f)[i] = q[f[i]] /\ q[f[i]] \in Event
  BY <1>2 DEF Pick
<1>5. Pick(q, f) \in Seq(Event)
  BY <1>1, <1>2, <1>4 DEF Pick
<1> QED BY <1>2, <1>3, <1>4, <1>5 DEF Picks

(* TopSeq is the seq of the last event of the session in the batch. *)
LEMMA TopSeqProps ==
  ASSUME NEW b \in Seq(Event), NEW s \in SidsOf(b)
  PROVE  \E i \in DOMAIN b : /\ b[i].sid = s /\ TopSeq(b, s) = b[i].seq
                             /\ \A k \in DOMAIN b : b[k].sid = s => k <= i
<1> DEFINE P == {j \in DOMAIN b : b[j].sid = s}
<1>1. P \subseteq 1..Len(b) /\ P # {} /\ Len(b) \in Nat
  BY DEF SidsOf
<1>2. LastOf(P) \in P /\ \A k \in P : k <= LastOf(P)
  <2> HIDE DEF P
  <2> QED BY <1>1, LastOfIsLast
<1> QED BY <1>2 DEF TopSeq

LEMMA TopSeqType ==
  ASSUME NEW b \in Seq(Event), NEW s \in SidsOf(b)
  PROVE  s \in Sessions /\ TopSeq(b, s) \in Nat
<1>1. PICK i \in DOMAIN b : b[i].sid = s /\ TopSeq(b, s) = b[i].seq
  BY TopSeqProps
<1>2. b[i] \in Event
  OBVIOUS
<1> QED BY <1>1, <1>2 DEF Event

(* The transaction leaves tables of the right type. *)
LEMMA CommitTypes ==
  ASSUME StoreTypeOK, NEW b \in Seq(Event), CommitTables(b)
  PROVE  /\ rows' \subseteq Event /\ present' \subseteq Sessions
         /\ lastSeq' \in [Sessions -> Nat \cup {-1}]
<1>1. EntriesOf(b) \subseteq Event
  BY DEF EntriesOf
<1>2. \A s \in SidsOf(b) : s \in Sessions /\ TopSeq(b, s) \in Nat
  BY TopSeqType
<1> QED BY <1>1, <1>2 DEF CommitTables, StoreTypeOK

LEMMA CursorForType ==
  ASSUME StoreTypeOK, NEW s \in Sessions
  PROVE  CursorFor(s) \in Nat \cup {-1}
BY DEF StoreTypeOK, CursorFor, NoCursor

LEMMA CursorTypes ==
  ASSUME StoreTypeOK, NEW b \in Seq(Event)
  PROVE  /\ CursorsAfter(b) \in [Sessions -> Nat \cup {-1, NoCursor}]
         /\ \A k : LookedUp(b, k) \in [Sessions -> Nat \cup {-1, NoCursor}]
<1>1. \A s \in SidsOf(b) : TopSeq(b, s) \in Nat
  BY TopSeqType
<1>2. \A s \in Sessions : CursorFor(s) \in Nat \cup {-1}
  BY CursorForType
<1> QED BY <1>1, <1>2 DEF CursorsAfter, LookedUp, StoreTypeOK, NoCursor


-----------------------------------------------------------------------------
(* r consists of entries of q, each once and in the order of q. *)
Drawn(q, r, f) ==
  /\ f \in [DOMAIN r -> DOMAIN q]
  /\ \A i, j \in DOMAIN r : i < j => f[i] < f[j]
  /\ \A i \in DOMAIN r : r[i] = q[f[i]]

NumberedFor(s, l) == \A k \in DOMAIN l : l[k].sid = s /\ l[k].seq = k - 1

(* The cursor cursorFor finds for a session that is written is last_seq. *)
LEMMA CursorForTrue ==
  ASSUME StoreTypeOK, RowsRegistered, NEW s \in Sessions, CursorTrue(s)
  PROVE  CursorFor(s) = lastSeq[s]
BY DEF StoreTypeOK, RowsRegistered, CursorTrue, CursorFor, NoCursor

(* Entries leave the queue, those of a tracked session stay. *)
LEMMA ShrinkSound ==
  ASSUME TypeOK, NEW s \in Sessions, NEW l, NumberedFor(s, l), SoundFor(s, l),
         queue' \in Seq(Event), NEW g, Drawn(queue, queue', g),
         Tracked(s)' =>
           /\ Tracked(s) /\ CursorTrue(s)'
           /\ \A i \in PositionsOf(queue, s) : \E k \in DOMAIN queue' : g[k] = i,
         {r \in rows : r.sid = s}' = {r \in rows : r.sid = s},
         lastSeq'[s] = lastSeq[s],
         s \in gone => s \in gone', broken => broken', late => late'
  PROVE  SoundFor(s, l)'
<1>1. s \notin gone' => BackedBy(s, l)'
  BY DEF SoundFor, BackedBy
<1>2. ASSUME Tracked(s)'
      PROVE  PendingOf(s, l)' /\ CursorTrue(s)'
  <2>1. PendingOf(s, l)
    BY <1>2 DEF SoundFor
  <2>2. \A i \in PositionsOf(queue', s) :
          g[i] \in PositionsOf(queue, s) /\ queue'[i] = queue[g[i]]
    BY DEF Drawn, PositionsOf
  <2>3. \A i, j \in PositionsOf(queue', s) : i < j => g[i] < g[j]
    BY DEF Drawn, PositionsOf
  <2> QED BY <1>2, <2>1, <2>2, <2>3 DEF PendingOf
<1>3. ASSUME Tracked(s)', ~broken', ~late'
      PROVE  Covers(s, l)'
  <2> SUFFICES ASSUME NEW k \in DOMAIN l, k > lastSeq'[s] + 1
               PROVE  Queued(l[k])'
    BY DEF Covers
  <2>1. Covers(s, l) /\ BackedBy(s, l)
    BY <1>3 DEF SoundFor, Tracked
  <2>2. PICK i \in DOMAIN queue : queue[i] = l[k]
    BY <2>1 DEF Covers, Queued
  <2>3. i \in PositionsOf(queue, s)
    BY <2>2 DEF NumberedFor, PositionsOf
  <2>4. PICK n \in DOMAIN queue' : g[n] = i
    BY <1>3, <2>3
  <2> QED BY <2>4, <2>2 DEF Drawn, Queued
<1> QED BY <1>1, <1>2, <1>3 DEF SoundFor

(* A transaction over b commits: b leaves the queue for the tables.        *)
LEMMA CommitSound ==
  ASSUME TypeOK, NEW s \in Sessions, NEW l, l \in Seq(Event), NumberedFor(s, l),
         SoundFor(s, l), ~broken, ~late,
         NEW b \in Seq(Event), NEW f, Drawn(queue, b, f),
         queue' \in Seq(Event), NEW g, Drawn(queue, queue', g),
         \A i \in DOMAIN queue : (\E k \in DOMAIN b : f[k] = i)
                                 \/ (\E k \in DOMAIN queue' : g[k] = i),
         \A k \in DOMAIN b, m \in DOMAIN queue' :
            b[k].sid = queue'[m].sid => f[k] < g[m],
         \A k \in DOMAIN b : b[k].sid \notin Cut,
         CommitTables(b),
         cursor'[s] \in {NoCursor, IF s \in SidsOf(b) THEN TopSeq(b, s) ELSE cursor[s]},
         UNCHANGED <<gone, severed, dropped, broken, late>>
  PROVE  SoundFor(s, l)'
<1> USE DEF NumberedFor
<1>0. Len(l) \in Nat /\ lastSeq[s] \in Nat \cup {-1} /\ rows \subseteq Event
  BY DEF TypeOK, StoreTypeOK
<1>1. CASE s \notin SidsOf(b)
  <2>1. {r \in rows : r.sid = s}' = {r \in rows : r.sid = s} /\ lastSeq'[s] = lastSeq[s]
    BY <1>1 DEF CommitTables, EntriesOf, SidsOf
  <2>2. \A i \in PositionsOf(queue, s) : \E k \in DOMAIN queue' : g[k] = i
    <3> SUFFICES ASSUME NEW i \in DOMAIN queue, queue[i].sid = s,
                        NEW k \in DOMAIN b, f[k] = i
                 PROVE  FALSE
      BY DEF PositionsOf
    <3>1. b[k].sid = s
      BY DEF Drawn
    <3> QED BY <1>1, <3>1 DEF SidsOf
  <2>3. Tracked(s) => CursorTrue(s)'
    BY <1>1, <2>1 DEF SoundFor, CursorTrue
  <2>4. Tracked(s)' => Tracked(s)
    BY DEF Tracked, Cut
  <2> QED BY <2>1, <2>2, <2>3, <2>4, ShrinkSound
<1>2. CASE s \in SidsOf(b) /\ s \in gone
  BY <1>2 DEF SoundFor, Tracked
<1>3. CASE s \in SidsOf(b) /\ s \notin gone
  <2>1. Tracked(s)
    BY <1>3 DEF SidsOf, Tracked
  <2>2. BackedBy(s, l) /\ PendingOf(s, l) /\ CursorTrue(s) /\ Covers(s, l)
    BY <1>3, <2>1 DEF SoundFor
  <2>3. PICK m \in DOMAIN b : /\ b[m].sid = s /\ TopSeq(b, s) = b[m].seq
                              /\ \A k \in DOMAIN b : b[k].sid = s => k <= m
    BY <1>3, TopSeqProps
  <2> DEFINE top == TopSeq(b, s)
  <2>4. f[m] \in PositionsOf(queue, s) /\ queue[f[m]].seq = top
    BY <2>3 DEF PositionsOf, Drawn
  <2>5. top \in (lastSeq[s] + 1)..(Len(l) - 1)
    BY <2>2, <2>4 DEF PendingOf
  <2>6. lastSeq'[s] = top
    BY <1>0, <1>3, <2>5 DEF CommitTables
  <2>7. \A k \in DOMAIN b : b[k].sid = s =>
          b[k].seq <= top /\ b[k].seq \in (lastSeq[s] + 1)..(Len(l) - 1) /\ b[k] = l[b[k].seq + 1]
    <3> TAKE k \in DOMAIN b
    <3> HAVE b[k].sid = s
    <3>1. f[k] \in PositionsOf(queue, s) /\ b[k] = queue[f[k]]
      BY DEF PositionsOf, Drawn
    <3>2. k = m \/ f[k] < f[m]
      BY <2>3 DEF Drawn
    <3>3. b[k].seq <= top
      BY <1>0, <2>2, <2>3, <2>4, <2>5, <3>1, <3>2 DEF PendingOf
    <3> QED BY <3>1, <3>3, <2>2 DEF PendingOf
  <2>8. \A k \in DOMAIN queue' : queue'[k].sid = s =>
          /\ g[k] \in PositionsOf(queue, s) /\ queue'[k] = queue[g[k]]
          /\ queue'[k].seq > top
    <3> TAKE k \in DOMAIN queue'
    <3> HAVE queue'[k].sid = s
    <3>1. g[k] \in PositionsOf(queue, s) /\ queue'[k] = queue[g[k]]
      BY DEF PositionsOf, Drawn
    <3>2. f[m] < g[k]
      BY <2>3
    <3> QED BY <2>2, <2>4, <3>1, <3>2 DEF PendingOf
  <2>9. \A k \in DOMAIN l : k > lastSeq[s] + 1 =>
          \/ k <= top + 1 /\ l[k] \in EntriesOf(b)
          \/ k > top + 1 /\ Queued(l[k])'
    <3> TAKE k \in DOMAIN l
    <3> HAVE k > lastSeq[s] + 1
    <3>1. PICK i \in DOMAIN queue : queue[i] = l[k]
      BY <2>2 DEF Covers, Queued
    <3>2. queue[i].seq = k - 1 /\ queue[i].sid = s
      BY <3>1
    <3>3. CASE \E n \in DOMAIN b : f[n] = i
      <4>1. PICK n \in DOMAIN b : f[n] = i
        BY <3>3
      <4>2. b[n] = l[k] /\ b[n].sid = s /\ b[n].seq = k - 1
        BY <4>1, <3>1, <3>2 DEF Drawn
      <4>3. k - 1 <= top
        BY <4>2, <2>7
      <4> HIDE DEF top
      <4> QED BY <2>5, <4>2, <4>3 DEF EntriesOf
    <3>4. CASE \E n \in DOMAIN queue' : g[n] = i
      <4>1. PICK n \in DOMAIN queue' : g[n] = i
        BY <3>4
      <4>2. queue'[n] = l[k] /\ queue'[n].sid = s /\ queue'[n].seq = k - 1
        BY <4>1, <3>1, <3>2 DEF Drawn
      <4>3. k - 1 > top
        BY <4>2, <2>8
      <4> HIDE DEF top
      <4> QED BY <2>5, <4>2, <4>3 DEF Queued
    <3> QED BY <3>3, <3>4
  <2> HIDE DEF top
  <2>10. BackedBy(s, l)'
    <3>1. rows' = rows \cup EntriesOf(b)
      BY DEF CommitTables
    <3>2. ASSUME NEW r \in rows', r.sid = s
          PROVE  \E k \in DOMAIN l : k <= top + 1 /\ l[k] = r
      <4>1. CASE r \in rows
        BY <1>0, <2>2, <2>5, <3>2, <4>1 DEF BackedBy
      <4>2. CASE r \in EntriesOf(b)
        <5>1. PICK k \in DOMAIN b : b[k] = r
          BY <4>2 DEF EntriesOf
        <5>2. r.seq <= top /\ r.seq \in (lastSeq[s] + 1)..(Len(l) - 1) /\ r = l[r.seq + 1]
          BY <2>7, <5>1, <3>2
        <5>3. r.seq + 1 \in 1..Len(l) /\ r.seq + 1 <= top + 1
          <6>1. lastSeq[s] \in Int /\ lastSeq[s] >= -1 /\ Len(l) \in Nat /\ top \in Int
            BY <1>0, <2>5
          <6>2. r.seq <= top /\ r.seq \in (lastSeq[s] + 1)..(Len(l) - 1)
            BY <5>2
          <6> QED BY ONLY <6>1, <6>2
        <5>4. DOMAIN l = 1..Len(l)
          OBVIOUS
        <5> QED BY <5>2, <5>3, <5>4
      <4> QED BY <3>1, <4>1, <4>2
    <3>3. ASSUME NEW k \in DOMAIN l, k <= top + 1
          PROVE  l[k] \in rows' /\ l[k].sid = s
      <4>1. CASE k <= lastSeq[s] + 1
        BY <2>2, <3>1, <4>1 DEF BackedBy
      <4>2. CASE k > lastSeq[s] + 1
        BY <1>0, <2>5, <2>9, <3>1, <3>3, <4>2
      <4> QED BY <1>0, <4>1, <4>2
    <3>4. lastSeq'[s] < Len(l)
      BY <1>0, <2>5, <2>6
    <3> QED BY <3>2, <3>3, <3>4, <2>6 DEF BackedBy
  <2>11. PendingOf(s, l)'
    <3>1. \A k \in PositionsOf(queue', s) :
            /\ queue'[k].seq \in (top + 1)..(Len(l) - 1)
            /\ queue'[k] = l[queue'[k].seq + 1]
      BY <1>0, <2>2, <2>5, <2>8 DEF PendingOf, PositionsOf
    <3>2. \A i, j \in PositionsOf(queue', s) : i < j => queue'[i].seq < queue'[j].seq
      BY <2>2, <2>8 DEF PendingOf, PositionsOf, Drawn
    <3> QED BY <3>1, <3>2, <2>6 DEF PendingOf
  <2>12. Covers(s, l)'
    <3> SUFFICES ASSUME NEW k \in DOMAIN l, k > top + 1
                 PROVE  Queued(l[k])'
      BY <2>6 DEF Covers
    <3>1. k > lastSeq[s] + 1
      BY <1>0, <2>5
    <3>2. ~(k <= top + 1)
      BY <2>5
    <3> QED BY <2>9, <3>1, <3>2
  <2>13. CursorTrue(s)'
    BY <1>3, <2>6 DEF CursorTrue, top
  <2> QED BY <2>10, <2>11, <2>12, <2>13 DEF SoundFor
<1> QED BY <1>1, <1>2, <1>3


-----------------------------------------------------------------------------
(* A batch is the head of the queue, the rest is what remains. *)
LEMMA BatchDrawn ==
  ASSUME queue \in Seq(Event)
  PROVE  /\ BatchLen \in 0..Len(queue) /\ (queue # <<>> => BatchLen > 0)
         /\ Batch \in Seq(Event) /\ Drawn(queue, Batch, [k \in DOMAIN Batch |-> k])
         /\ AfterBatch \in Seq(Event)
         /\ Drawn(queue, AfterBatch, [k \in DOMAIN AfterBatch |-> k + BatchLen])
         /\ Len(Batch) = BatchLen /\ Len(AfterBatch) = Len(queue) - BatchLen
<1>1. Len(queue) \in Nat /\ BatchSize \in Nat \ {0}
  BY QueueAssumption
<1>2. BatchLen \in 0..Len(queue) /\ (queue # <<>> => BatchLen > 0)
  BY <1>1 DEF BatchLen
<1>3. /\ Batch \in Seq(Event) /\ Len(Batch) = BatchLen
      /\ \A i \in 1..BatchLen : Batch[i] = queue[i]
  BY <1>1, <1>2 DEF Batch
<1>4. /\ AfterBatch \in Seq(Event) /\ Len(AfterBatch) = Len(queue) - BatchLen
      /\ \A i \in 1..(Len(queue) - BatchLen) : AfterBatch[i] = queue[i + BatchLen]
  BY <1>1, <1>2 DEF AfterBatch
<1>5. DOMAIN queue = 1..Len(queue) /\ DOMAIN Batch = 1..BatchLen
      /\ DOMAIN AfterBatch = 1..(Len(queue) - BatchLen)
  BY <1>1, <1>2, <1>3, <1>4
<1>6. Drawn(queue, Batch, [k \in DOMAIN Batch |-> k])
  BY <1>1, <1>2, <1>3, <1>5 DEF Drawn
<1>7. Drawn(queue, AfterBatch, [k \in DOMAIN AfterBatch |-> k + BatchLen])
  <2> DEFINE g == [k \in DOMAIN AfterBatch |-> k + BatchLen]
             n == Len(queue) - BatchLen
  <2>1. BatchLen \in Nat /\ n \in Nat /\ Len(queue) = n + BatchLen
    BY <1>1, <1>2
  <2>2. /\ DOMAIN g = 1..n /\ DOMAIN AfterBatch = 1..n /\ DOMAIN queue = 1..Len(queue)
        /\ \A k \in 1..n : g[k] = k + BatchLen /\ AfterBatch[k] = queue[k + BatchLen]
        /\ g = [k \in 1..n |-> g[k]]
    BY <1>4, <1>5
  <2> HIDE DEF g, n
  <2>3. \A k \in 1..n : k + BatchLen \in 1..Len(queue)
    BY <2>1
  <2>4. g \in [1..n -> 1..Len(queue)]
    BY <2>2, <2>3
  <2>5. \A i, j \in 1..n : i < j => i + BatchLen < j + BatchLen
    BY <2>1
  <2>6. \A i, j \in 1..n : i < j => g[i] < g[j]
    BY <2>2, <2>5
  <2>7. \A i \in 1..n : AfterBatch[i] = queue[g[i]]
    BY <2>2
  <2> QED BY <2>2, <2>4, <2>6, <2>7 DEF Drawn, g
<1> QED BY <1>2, <1>3, <1>4, <1>6, <1>7

(* The same for a single row. *)
LEMMA HeadDrawn ==
  ASSUME queue \in Seq(Event), queue # <<>>
  PROVE  /\ Len(queue) \in Nat \ {0} /\ Head(queue) = queue[1] /\ Head(queue) \in Event
         /\ <<Head(queue)>> \in Seq(Event) /\ Drawn(queue, <<Head(queue)>>, <<1>>)
         /\ Tail(queue) \in Seq(Event) /\ Len(Tail(queue)) = Len(queue) - 1
         /\ Drawn(queue, Tail(queue), [k \in DOMAIN Tail(queue) |-> k + 1])
<1>1. Len(queue) \in Nat \ {0} /\ Head(queue) = queue[1] /\ Head(queue) \in Event
  OBVIOUS
<1>2. /\ Tail(queue) \in Seq(Event) /\ Len(Tail(queue)) = Len(queue) - 1
      /\ \A i \in 1..(Len(queue) - 1) : Tail(queue)[i] = queue[i + 1]
  OBVIOUS
<1>3. <<Head(queue)>> \in Seq(Event)
  BY <1>1
<1>4. Drawn(queue, <<Head(queue)>>, <<1>>)
  BY <1>1 DEF Drawn
<1>5. Drawn(queue, Tail(queue), [k \in DOMAIN Tail(queue) |-> k + 1])
  BY <1>1, <1>2 DEF Drawn
<1> QED BY <1>1, <1>2, <1>3, <1>4, <1>5

(* The events of one session, and those of the others, as drawn.           *)
LEMMA MineDrawn ==
  ASSUME queue \in Seq(Event), NEW s, NEW b \in Mine(s)
  PROVE  /\ b \in Seq(Event)
         /\ \E f : /\ Drawn(queue, b, f)
                   /\ \A k \in DOMAIN b : f[k] \in PositionsOf(queue, s)
                   /\ \A p \in PositionsOf(queue, s) : \E k \in DOMAIN b : f[k] = p
<1>1. PICK f \in Picks(PositionsOf(queue, s)) : b = Pick(queue, f)
  BY DEF Mine
<1>2. PositionsOf(queue, s) \subseteq DOMAIN queue
  BY DEF PositionsOf
<1> QED BY <1>1, <1>2, PickProps DEF Drawn

LEMMA OthersDrawn ==
  ASSUME queue \in Seq(Event), NEW s, NEW q \in Others(s)
  PROVE  /\ q \in Seq(Event)
         /\ \E g : /\ Drawn(queue, q, g)
                   /\ \A k \in DOMAIN q : g[k] \in PositionsNotOf(queue, s)
                   /\ \A p \in PositionsNotOf(queue, s) : \E k \in DOMAIN q : g[k] = p
<1>1. PICK f \in Picks(PositionsNotOf(queue, s)) : q = Pick(queue, f)
  BY DEF Others
<1>2. PositionsNotOf(queue, s) \subseteq DOMAIN queue
  BY DEF PositionsNotOf
<1> QED BY <1>1, <1>2, PickProps DEF Drawn

(* What is drawn from the queue holds events of the queue only. *)
LEMMA DrawnEntries ==
  ASSUME queue \in Seq(Event), NEW q, NEW f, Drawn(queue, q, f)
  PROVE  EntriesOf(q) \subseteq EntriesOf(queue) /\ (queue = <<>> => DOMAIN q = {})
BY DEF Drawn, EntriesOf

-----------------------------------------------------------------------------
(* What loadEvents reads: the rows 0, 1, ... up to the first one missing.  *)
ReadsPrefix ==
  \A s \in Sessions :
    /\ StoredLen(s) \in 0..MaxEvents
    /\ StoredLen(s) \notin RowSeqs(s)
    /\ \A k \in 0..(StoredLen(s) - 1) : k \in RowSeqs(s)
    /\ Stored(s) \in Seq(Event)
    /\ Len(Stored(s)) = StoredLen(s)
    /\ \A k \in DOMAIN Stored(s) : /\ Stored(s)[k] \in rows
                                    /\ Stored(s)[k].sid = s /\ Stored(s)[k].seq = k - 1

BoundedRows == rows \subseteq Event /\ \A r \in rows : r.seq < MaxEvents

LEMMA StoredReadsPrefix == BoundedRows => ReadsPrefix
<1> SUFFICES ASSUME BoundedRows, NEW s \in Sessions
    PROVE  /\ StoredLen(s) \in 0..MaxEvents
           /\ StoredLen(s) \notin RowSeqs(s)
           /\ \A k \in 0..(StoredLen(s) - 1) : k \in RowSeqs(s)
           /\ Stored(s) \in Seq(Event)
           /\ Len(Stored(s)) = StoredLen(s)
           /\ \A k \in DOMAIN Stored(s) : /\ Stored(s)[k] \in rows
                                           /\ Stored(s)[k].sid = s /\ Stored(s)[k].seq = k - 1
  BY DEF ReadsPrefix
<1> DEFINE T == {n \in Nat : n \notin RowSeqs(s)}
<1>1. MaxEvents \in Nat
  BY BoundsAssumption
<1>2. \A n \in RowSeqs(s) : n \in Nat /\ n < MaxEvents
  BY DEF RowSeqs, BoundedRows, Event
<1>3. MaxEvents \in T
  BY <1>1, <1>2
<1>4. PICK n \in T : \A m \in T : n <= m
  <2>1. T \subseteq Nat /\ T # {}
    BY <1>3
  <2> HIDE DEF T
  <2> QED BY <2>1, NatMin
<1>5. \A k \in 0..(n - 1) : k \in RowSeqs(s)
  BY <1>4
<1>6. n \in {0} \cup {m + 1 : m \in RowSeqs(s)}
  <2>1. CASE n = 0
    BY <2>1
  <2>2. CASE n # 0
    <3>1. n - 1 \in RowSeqs(s)
      BY <1>4, <1>5, <2>2
    <3>2. n = (n - 1) + 1
      BY <1>4
    <3> QED BY <3>1, <3>2
  <2> QED BY <2>1, <2>2
<1> DEFINE len == StoredLen(s)
<1>7. /\ len \in {0} \cup {m + 1 : m \in RowSeqs(s)}
      /\ len \notin RowSeqs(s) /\ \A k \in 0..(len - 1) : k \in RowSeqs(s)
  BY <1>4, <1>5, <1>6 DEF StoredLen
<1>8. len \in 0..MaxEvents
  BY <1>1, <1>2, <1>7
<1> HIDE DEF len
<1>9. ASSUME NEW k \in 1..len
      PROVE  LET r == CHOOSE r \in rows : r.sid = s /\ r.seq = k - 1
             IN  r \in rows /\ r.sid = s /\ r.seq = k - 1
  <2>1. k - 1 \in RowSeqs(s)
    BY <1>7, <1>8
  <2> QED BY <2>1 DEF RowSeqs
<1>10. Stored(s) = [k \in 1..len |-> CHOOSE r \in rows : r.sid = s /\ r.seq = k - 1]
  BY DEF Stored, len
<1>11. \A k \in 1..len : /\ Stored(s)[k] \in rows
                         /\ Stored(s)[k].sid = s /\ Stored(s)[k].seq = k - 1
  BY <1>9, <1>10
<1>12. DOMAIN Stored(s) = 1..len
  BY <1>10
<1>13. Stored(s) \in [1..len -> Event]
  BY <1>10, <1>11 DEF BoundedRows
<1>14. Stored(s) \in Seq(Event) /\ Len(Stored(s)) = len
  BY <1>8, <1>13
<1> QED BY <1>7, <1>8, <1>11, <1>12, <1>14 DEF len

(* The same of the state after a step. *)
LEMMA StoredReadsPrefixAfter == BoundedRows' => ReadsPrefix'
BY StoredReadsPrefix, PTL

-----------------------------------------------------------------------------
(* Shape.                                                                  *)

(* What a call of drainSessionNow leaves of the queue and the store.       *)
LEMMA DrainNowShape ==
  ASSUME TypeOK, NEW s \in Sessions, NEW retiring \in BOOLEAN,
         DrainNowReturns(s, retiring) \/ DrainNowThrows(s)
  PROVE  /\ StoreTypeOK' /\ queue' \in Seq(Event) /\ dropped' \subseteq Sessions
         /\ EntriesOf(queue') \subseteq EntriesOf(queue)
         /\ rows' \subseteq rows \cup EntriesOf(queue)
         /\ queue' # <<>> => queue # <<>>
<1> USE DEF TypeOK
<1>1. StoreTypeOK /\ queue \in Seq(Event) /\ dropped \subseteq Sessions
  BY DEF QueueTypeOK
<1>2. cursor \in [Sessions -> Nat \cup {-1, NoCursor}] /\ CursorFor(s) \in Nat \cup {-1}
  BY <1>1, CursorForType DEF StoreTypeOK
<1>3. \A q \in Others(s) :
        /\ q \in Seq(Event) /\ EntriesOf(q) \subseteq EntriesOf(queue)
        /\ q # <<>> => queue # <<>>
  <2> TAKE q \in Others(s)
  <2>1. q \in Seq(Event) /\ \E g : Drawn(queue, q, g)
    BY <1>1, OthersDrawn
  <2>2. EntriesOf(q) \subseteq EntriesOf(queue) /\ (queue = <<>> => DOMAIN q = {})
    BY <1>1, <2>1, DrawnEntries
  <2> QED BY <2>1, <2>2
<1>4. CASE DrainNowSkip(s, retiring)
  BY <1>1, <1>2, <1>4 DEF DrainNowSkip, CursorBecomes, StoreTypeOK
<1>5. CASE DrainNowCommit(s, retiring)
  <2>1. PICK b \in Mine(s) : CommitTables(b) /\ CursorBecomes(s, TopSeq(b, s), retiring)
    BY <1>5 DEF DrainNowCommit
  <2>2. PICK f : /\ b \in Seq(Event) /\ Drawn(queue, b, f)
                 /\ \A k \in DOMAIN b : f[k] \in PositionsOf(queue, s)
                 /\ \A p \in PositionsOf(queue, s) : \E k \in DOMAIN b : f[k] = p
    BY <1>1, MineDrawn
  <2>3. s \in SidsOf(b)
    BY <1>5, <2>2 DEF DrainNowCommit, NothingToDrain, SidsOf, PositionsOf, Drawn
  <2>4. TopSeq(b, s) \in Nat
    BY <2>2, <2>3, TopSeqType
  <2>5. /\ rows' \subseteq Event /\ present' \subseteq Sessions
        /\ lastSeq' \in [Sessions -> Nat \cup {-1}]
    BY <1>1, <2>1, <2>2, CommitTypes
  <2>6. rows' \subseteq rows \cup EntriesOf(queue)
    BY <1>1, <2>1, <2>2, DrawnEntries DEF CommitTables
  <2>7. cursor' \in [Sessions -> Nat \cup {-1, NoCursor}]
    BY <1>2, <2>1, <2>4 DEF CursorBecomes
  <2>8. queue' \in Others(s) /\ dropped' = dropped
    BY <1>5 DEF DrainNowCommit
  <2> QED BY <1>1, <1>3, <2>5, <2>6, <2>7, <2>8 DEF StoreTypeOK
<1>6. CASE DrainNowAbsent(s, retiring)
  <2>1. cursor' \in [Sessions -> Nat \cup {-1, NoCursor}]
    BY <1>2, <1>6 DEF DrainNowAbsent, CursorBecomes
  <2> QED BY <1>1, <1>3, <1>6, <2>1 DEF DrainNowAbsent, StoreTypeOK
<1>7. CASE DrainNowThrows(s)
  BY <1>1, <1>2, <1>7 DEF DrainNowThrows, StoreTypeOK
<1> QED BY <1>4, <1>5, <1>6, <1>7 DEF DrainNowReturns

-----------------------------------------------------------------------------
(* A step of the drain keeps every variable in its type.                   *)

LEMMA AbortTypes ==
  ASSUME StoreTypeOK, NEW b \in Seq(Event), NEW k, AbortWrites(b, k)
  PROVE  StoreTypeOK'
BY CursorTypes DEF AbortWrites, StoreTypeOK

LEMMA CommitWritesTypes ==
  ASSUME StoreTypeOK, NEW b \in Seq(Event), CommitWrites(b)
  PROVE  StoreTypeOK' /\ rows' = rows \cup EntriesOf(b)
BY CursorTypes, CommitTypes DEF CommitWrites, CommitTables, StoreTypeOK

(* FailOrBackoff keeps the count of failures within RetryLimit.            *)
LEMMA FailOrBackoffShape ==
  ASSUME failures \in Nat, failures < RetryLimit, FailOrBackoff
  PROVE  /\ failures' \in 0..RetryLimit
         /\ drain' \in {"rejected", "backoff"}
         /\ drain' = "backoff" => failures' < RetryLimit
BY QueueAssumption DEF FailOrBackoff

(* The parts of Shape that a step of the drain can disturb, from what the  *)
(* step does to the queue and the store.                                   *)
LEMMA DrainPartsMakeShape ==
  ASSUME Shape, UNCHANGED <<log, closed, hostVars>>,
         StoreTypeOK', queue' \in Seq(Event), EntriesOf(queue') \subseteq EntriesOf(queue),
         rows' \subseteq rows \cup EntriesOf(queue),
         scheduled' \in BOOLEAN, rowMode' \in BOOLEAN, broken' \in BOOLEAN, late' \in BOOLEAN,
         severed' \subseteq Sessions, dropped' \subseteq Sessions,
         drain' \in DrainStates, failures' \in 0..RetryLimit,
         queue' # <<>> /\ ~broken' => scheduled' \/ drain' # "idle",
         late' => closed',
         scheduled' => drain' = "idle",
         drain' # "idle" => ~broken',
         drain' \in {"running", "backoff"} => failures' < RetryLimit,
         drain' # "running" => failures' < RetryLimit \/ broken' \/ drain' = "rejected"
  PROVE  Shape'
<1>1. TypeOK'
  BY DEF Shape, TypeOK, QueueTypeOK, HostTypeOK, hostVars
<1>2. NoLostWakeup'
  BY DEF NoLostWakeup
<1>3. FlagsAgree'
  BY DEF Shape, FlagsAgree, hostVars
<1>4. WithinBounds'
  <2>1. \A e \in EntriesOf(queue) : e.seq < MaxEvents
    BY DEF Shape, WithinBounds, EntriesOf
  <2>2. \A i \in DOMAIN queue' : queue'[i] \in EntriesOf(queue)
    BY DEF EntriesOf
  <2> QED BY <2>1, <2>2 DEF Shape, WithinBounds
<1> QED BY <1>1, <1>2, <1>3, <1>4 DEF Shape

LEMMA DrainKeepsShape ==
  ASSUME Shape, Drain
  PROVE  Shape'
<1>1. /\ StoreTypeOK /\ queue \in Seq(Event) /\ scheduled \in BOOLEAN
      /\ drain \in DrainStates /\ rowMode \in BOOLEAN /\ failures \in 0..RetryLimit
      /\ broken \in BOOLEAN /\ closed \in BOOLEAN /\ late \in BOOLEAN
      /\ severed \subseteq Sessions /\ dropped \subseteq Sessions
  BY DEF Shape, TypeOK, QueueTypeOK
<1>2. /\ queue # <<>> /\ ~broken => scheduled \/ drain # "idle"
      /\ late => closed
      /\ scheduled => drain = "idle"
      /\ drain # "idle" => ~broken
      /\ drain \in {"running", "backoff"} => failures < RetryLimit
      /\ drain # "running" => failures < RetryLimit \/ broken \/ drain = "rejected"
  BY DEF Shape, NoLostWakeup, FlagsAgree
<1>3. RetryLimit \in Nat \ {0} /\ failures \in Nat
  BY <1>1, QueueAssumption
<1>4. UNCHANGED hostVars
  BY DEF Drain
<1> DEFINE Same == UNCHANGED <<rows, present, lastSeq, cursor>>
<1>5. Same => StoreTypeOK' /\ rows' = rows
  BY <1>1 DEF StoreTypeOK
<1> HIDE DEF Same
<1>6. CASE StartDrain
  BY <1>1, <1>2, <1>4, <1>5, <1>6, DrainPartsMakeShape
     DEF StartDrain, Same, storeVars, LoopFree, DrainStates
<1>7. CASE DrainEmpty
  <2>1. /\ failures' \in 0..RetryLimit /\ failures' < RetryLimit /\ rowMode' = FALSE
        /\ drain = "running" /\ drain' = "settled"
    BY <1>3, <1>7 DEF DrainEmpty
  <2>2. /\ queue' = queue /\ UNCHANGED <<log, scheduled, broken, closed, severed, dropped, late>>
        /\ Same
    BY <1>7 DEF DrainEmpty, Same, storeVars
  <2> QED BY <1>1, <1>2, <1>4, <1>5, <2>1, <2>2, DrainPartsMakeShape DEF DrainStates
<1>8. CASE DrainAbandon
  <2>1. <<>> \in Seq(Event) /\ EntriesOf(<<>>) \subseteq EntriesOf(queue)
    BY DEF EntriesOf
  <2>2. /\ failures' \in 0..RetryLimit /\ failures' < RetryLimit /\ rowMode' = FALSE
        /\ drain = "running" /\ drain' = "settled"
    BY <1>3, <1>8 DEF DrainAbandon
  <2>3. /\ queue' = <<>> /\ late' = TRUE /\ closed /\ Same
        /\ UNCHANGED <<log, scheduled, broken, closed, severed, dropped>>
    BY <1>8 DEF DrainAbandon, Same, storeVars
  <2>4. /\ queue' \in Seq(Event) /\ EntriesOf(queue') \subseteq EntriesOf(queue)
        /\ ~(queue' # <<>>) /\ closed' /\ late' \in BOOLEAN /\ rowMode' \in BOOLEAN
    BY <2>1, <2>2, <2>3
  <2> QED BY <1>1, <1>2, <1>4, <1>5, <2>2, <2>3, <2>4, DrainPartsMakeShape DEF DrainStates
<1>9. CASE BatchCommit
  <2>1. /\ Batch \in Seq(Event) /\ AfterBatch \in Seq(Event)
        /\ EntriesOf(Batch) \subseteq EntriesOf(queue)
        /\ EntriesOf(AfterBatch) \subseteq EntriesOf(queue)
    BY <1>1, BatchDrawn, DrawnEntries
  <2>2. StoreTypeOK' /\ rows' = rows \cup EntriesOf(Batch)
    BY <1>1, <1>9, <2>1, CommitWritesTypes DEF BatchCommit
  <2> QED BY <1>1, <1>2, <1>3, <1>4, <1>9, <2>1, <2>2, DrainPartsMakeShape
          DEF BatchCommit, BatchTurn
<1>10. CASE BatchDiagnose
  <2>1. StoreTypeOK' /\ rows' = rows
    BY <1>1, <1>10, BatchDrawn, AbortTypes DEF BatchDiagnose, AbortWrites
  <2> QED BY <1>1, <1>2, <1>3, <1>4, <1>10, <2>1, DrainPartsMakeShape DEF BatchDiagnose, BatchTurn
<1>11. CASE BatchFail
  <2>1. StoreTypeOK' /\ rows' = rows
    BY <1>1, <1>11, BatchDrawn, AbortTypes DEF BatchFail, AbortWrites
  <2>2. /\ failures' \in 0..RetryLimit /\ drain' \in {"rejected", "backoff"}
        /\ drain' = "backoff" => failures' < RetryLimit
    BY <1>2, <1>3, <1>11, FailOrBackoffShape DEF BatchFail, BatchTurn
  <2> QED BY <1>1, <1>2, <1>3, <1>4, <1>11, <2>1, <2>2, DrainPartsMakeShape
          DEF BatchFail, BatchTurn, DrainStates
<1>12. CASE RowSkip
  <2>1. /\ Tail(queue) \in Seq(Event) /\ EntriesOf(Tail(queue)) \subseteq EntriesOf(queue)
    BY <1>1, <1>12, HeadDrawn, DrawnEntries DEF RowSkip, RowTurn
  <2> QED BY <1>1, <1>2, <1>4, <1>5, <1>12, <2>1, DrainPartsMakeShape
          DEF RowSkip, RowTurn, Same, storeVars
<1>13. CASE RowCommit
  <2>1. /\ Tail(queue) \in Seq(Event) /\ EntriesOf(Tail(queue)) \subseteq EntriesOf(queue)
        /\ <<Head(queue)>> \in Seq(Event) /\ EntriesOf(<<Head(queue)>>) \subseteq EntriesOf(queue)
    BY <1>1, <1>13, HeadDrawn, DrawnEntries DEF RowCommit, RowTurn
  <2>2. StoreTypeOK' /\ rows' = rows \cup EntriesOf(<<Head(queue)>>)
    BY <1>1, <1>13, <2>1, CommitWritesTypes DEF RowCommit
  <2> QED BY <1>1, <1>2, <1>3, <1>4, <1>13, <2>1, <2>2, DrainPartsMakeShape DEF RowCommit, RowTurn
<1>14. CASE RowAbsent
  <2>1. /\ Tail(queue) \in Seq(Event) /\ EntriesOf(Tail(queue)) \subseteq EntriesOf(queue)
        /\ <<Head(queue)>> \in Seq(Event) /\ Head(queue).sid \in Sessions
    BY <1>1, <1>14, HeadDrawn, DrawnEntries DEF RowAbsent, RowTurn, Event
  <2>2. StoreTypeOK' /\ rows' = rows
    BY <1>1, <1>14, <2>1, AbortTypes DEF RowAbsent, AbortWrites
  <2> QED BY <1>1, <1>2, <1>4, <1>14, <2>1, <2>2, DrainPartsMakeShape DEF RowAbsent, RowTurn
<1>15. CASE RowPoison
  <2>1. /\ Tail(queue) \in Seq(Event) /\ EntriesOf(Tail(queue)) \subseteq EntriesOf(queue)
        /\ Head(queue).sid \in Sessions /\ Head(queue).seq \in Nat
    BY <1>1, <1>15, HeadDrawn, DrawnEntries DEF RowPoison, RowTurn, Event
  <2>2. CursorFor(Head(queue).sid) \in Nat \cup {-1}
    BY <1>1, <2>1, CursorForType
  <2>3. StoreTypeOK' /\ rows' = rows
    BY <1>1, <1>15, <2>1, <2>2 DEF RowPoison, AccountDropped, StoreTypeOK
  <2> QED BY <1>1, <1>2, <1>4, <1>15, <2>1, <2>3, DrainPartsMakeShape DEF RowPoison, RowTurn
<1>16. CASE RowFail
  <2>1. <<Head(queue)>> \in Seq(Event)
    BY <1>1, <1>16, HeadDrawn DEF RowFail, RowTurn
  <2>2. StoreTypeOK' /\ rows' = rows
    BY <1>1, <1>16, <2>1, AbortTypes DEF RowFail, AbortWrites
  <2>3. /\ failures' \in 0..RetryLimit /\ drain' \in {"rejected", "backoff"}
        /\ drain' = "backoff" => failures' < RetryLimit
    BY <1>2, <1>3, <1>16, FailOrBackoffShape DEF RowFail, RowTurn
  <2> QED BY <1>1, <1>2, <1>3, <1>4, <1>16, <2>2, <2>3, DrainPartsMakeShape
          DEF RowFail, RowTurn, DrainStates
<1>17. CASE WakeDrain
  BY <1>1, <1>2, <1>4, <1>5, <1>17, DrainPartsMakeShape
     DEF WakeDrain, Same, storeVars, DrainStates
<1>18. CASE FinishDrain
  BY <1>1, <1>2, <1>4, <1>5, <1>18, DrainPartsMakeShape
     DEF FinishDrain, Same, storeVars, DrainStates
<1>19. CASE BreakQueue
  BY <1>1, <1>2, <1>4, <1>5, <1>19, DrainPartsMakeShape
     DEF BreakQueue, Same, storeVars, DrainStates
<1> QED BY <1>6, <1>7, <1>8, <1>9, <1>10, <1>11, <1>12, <1>13, <1>14, <1>15, <1>16, <1>17,
           <1>18, <1>19 DEF Drain, DrainStep

-----------------------------------------------------------------------------
(* The calls of the facade, of another process and a crash.                *)

LEMMA HostPartsMakeShape ==
  ASSUME Shape, UNCHANGED <<drain, rowMode, failures, broken, severed>>,
         StoreTypeOK', HostTypeOK', dropped' \subseteq Sessions,
         log' \in [Sessions -> Seq(Event)], \A s \in Sessions : Len(log'[s]) <= MaxEvents,
         queue' \in Seq(Event), \A e \in EntriesOf(queue') : e.seq < MaxEvents,
         \A r \in rows' : r.seq < MaxEvents,
         scheduled' = scheduled \/ ScheduleDrain,
         late' \in BOOLEAN, closed' \in BOOLEAN,
         late' => closed', closed' => closing' = "done",
         queue' # <<>> => queue # <<>> \/ ScheduleDrain
  PROVE  Shape'
<1>1. scheduled' \in BOOLEAN /\ (scheduled => scheduled')
      /\ (scheduled' => scheduled \/ (drain = "idle" /\ ~broken))
  <2>1. scheduled \in BOOLEAN
    BY DEF Shape, TypeOK, QueueTypeOK
  <2>2. CASE scheduled' = scheduled
    BY <2>1, <2>2
  <2>3. CASE ScheduleDrain
    BY <2>1, <2>3, Zenon DEF ScheduleDrain
  <2> QED BY <2>2, <2>3
<1>2. TypeOK'
  BY <1>1 DEF Shape, TypeOK, QueueTypeOK
<1>3. NoLostWakeup'
  <2> SUFFICES ASSUME queue' # <<>>, ~broken'
               PROVE  scheduled' \/ drain' # "idle"
    BY DEF NoLostWakeup
  <2>1. CASE queue # <<>>
    BY <1>1, <2>1 DEF Shape, NoLostWakeup
  <2>2. CASE ScheduleDrain
    BY <2>2 DEF ScheduleDrain
  <2> QED BY <2>1, <2>2
<1>4. FlagsAgree'
  <2>1. FlagsAgree
    BY DEF Shape
  <2> QED BY <1>1, <2>1 DEF FlagsAgree
<1>5. WithinBounds'
  BY DEF WithinBounds, EntriesOf
<1> QED BY <1>2, <1>3, <1>4, <1>5 DEF Shape

(* What Shape says of the tables, the queue and the logs.                  *)
LEMMA ShapeBounds ==
  ASSUME Shape
  PROVE  /\ StoreTypeOK /\ HostTypeOK /\ queue \in Seq(Event)
         /\ \A e \in EntriesOf(queue) : e.seq < MaxEvents
         /\ BoundedRows
         /\ log \in [Sessions -> Seq(Event)] /\ \A s \in Sessions : Len(log[s]) <= MaxEvents
         /\ severed \subseteq Sessions /\ dropped \subseteq Sessions
         /\ late \in BOOLEAN /\ closed \in BOOLEAN /\ broken \in BOOLEAN
         /\ (late => closed) /\ (closed => closing = "done")
BY DEF Shape, TypeOK, QueueTypeOK, WithinBounds, FlagsAgree, BoundedRows, StoreTypeOK, EntriesOf

(* Steps that touch neither the tables nor the queue nor the logs.         *)
LEMMA FlagStepKeepsShape ==
  ASSUME Shape, UNCHANGED <<storeVars, log, queue, drain, rowMode, failures, broken,
                            severed, dropped, late>>,
         HostTypeOK', scheduled' = scheduled \/ ScheduleDrain,
         closed' \in BOOLEAN, closed => closed', closed' => closing' = "done"
  PROVE  Shape'
<1>1. StoreTypeOK' /\ \A r \in rows' : r.seq < MaxEvents
  BY ShapeBounds DEF StoreTypeOK, BoundedRows, storeVars
<1> QED BY <1>1, ShapeBounds, HostPartsMakeShape

LEMMA CallsKeepShape ==
  ASSUME Shape, NEW s \in Sessions,
         CreateSession(s) \/ DeleteFlushed(s) \/ DeleteFails(s)
  PROVE  Shape'
<1>1. HostTypeOK /\ closed \in BOOLEAN /\ scheduled \in BOOLEAN /\ (closed => closing = "done")
  BY ShapeBounds DEF Shape, TypeOK, QueueTypeOK
<1>2. CASE CreateSession(s)
  BY <1>1, <1>2, FlagStepKeepsShape DEF CreateSession, HostTypeOK, AttStates, queueVars
<1>3. CASE DeleteFlushed(s)
  BY <1>1, <1>3, FlagStepKeepsShape DEF DeleteFlushed, HostTypeOK, FlushStates, queueVars
<1>4. CASE DeleteFails(s)
  BY <1>1, <1>4, FlagStepKeepsShape DEF DeleteFails, HostTypeOK, FlushStates, queueVars
<1> QED BY <1>2, <1>3, <1>4

LEMMA CloseKeepsShape ==
  ASSUME Shape, StartClose \/ CloseFlushed \/ FinishClose
  PROVE  Shape'
<1>1. HostTypeOK /\ closed \in BOOLEAN /\ (closed => closing = "done")
  BY ShapeBounds
<1>2. CASE StartClose
  BY <1>1, <1>2, FlagStepKeepsShape DEF StartClose, HostTypeOK, FlushStates, Callable
<1>3. CASE CloseFlushed
  BY <1>1, <1>3, FlagStepKeepsShape DEF CloseFlushed, HostTypeOK, FlushStates, queueVars
<1>4. CASE FinishClose
  BY <1>1, <1>4, FlagStepKeepsShape DEF FinishClose, HostTypeOK, FlushStates
<1> QED BY <1>2, <1>3, <1>4

(* The steps that write the log of a session by itself.                    *)
LEMMA SeedProps ==
  ASSUME NEW s \in Sessions, NEW n \in 0..MaxEvents
  PROVE  /\ Seed(s, n) \in Seq(Event) /\ Len(Seed(s, n)) = n
         /\ \A k \in DOMAIN Seed(s, n) : /\ Seed(s, n)[k].sid = s /\ Seed(s, n)[k].seq = k - 1
                                         /\ k \in 1..n
<1>1. \A k \in 1..n : [sid |-> s, seq |-> k - 1, poison |-> FALSE, inc |-> 0] \in Event
  BY BoundsAssumption DEF Event
<1>2. n \in Nat
  BY BoundsAssumption
<1>3. Seed(s, n) \in [1..n -> Event]
  BY <1>1 DEF Seed
<1>4. Seed(s, n) \in Seq(Event) /\ Len(Seed(s, n)) = n
  BY <1>2, <1>3
<1> QED BY <1>4 DEF Seed

LEMMA AppendedProps ==
  ASSUME Shape, NEW s \in Sessions, NEW p \in BOOLEAN, Len(log[s]) < MaxEvents
  PROVE  /\ Appended(s, p, inc[s]) \in Event
         /\ Appended(s, p, inc[s]).sid = s /\ Appended(s, p, inc[s]).seq = Len(log[s])
         /\ Append(log[s], Appended(s, p, inc[s])) \in Seq(Event)
         /\ Len(Append(log[s], Appended(s, p, inc[s]))) = Len(log[s]) + 1
<1>1. log[s] \in Seq(Event) /\ Len(log[s]) \in Nat /\ inc[s] \in Nat
  BY ShapeBounds DEF HostTypeOK
<1>2. Appended(s, p, inc[s]) \in Event
  BY <1>1 DEF Appended, Event
<1> QED BY <1>1, <1>2 DEF Appended

LEMMA CreateSeededKeepsShape ==
  ASSUME Shape, NEW s \in Sessions, NEW n \in 0..MaxEvents, CreateSeededSession(s, n)
  PROVE  Shape'
<1>1. Seed(s, n) \in Seq(Event) /\ Len(Seed(s, n)) = n
      /\ \A e \in EntriesOf(Seed(s, n)) : e.seq < MaxEvents
  <2>1. \A k \in DOMAIN Seed(s, n) : Seed(s, n)[k].seq = k - 1 /\ k \in 1..n
    BY SeedProps
  <2>2. n \in Nat /\ n <= MaxEvents /\ MaxEvents \in Nat
    BY BoundsAssumption
  <2>3. \A k \in DOMAIN Seed(s, n) : Seed(s, n)[k].seq < MaxEvents
    BY <2>1, <2>2
  <2> QED BY <2>3, SeedProps DEF EntriesOf
<1>2. StoreTypeOK' /\ \A r \in rows' : r.seq < MaxEvents
  <2>1. CASE n = 0
    BY <2>1, ShapeBounds DEF CreateSeededSession, RegisterSessionRow, StoreTypeOK, BoundedRows
  <2>2. CASE n # 0
    <3>1. CommitWrites(Seed(s, n))
      BY <2>2 DEF CreateSeededSession
    <3>2. StoreTypeOK' /\ rows' = rows \cup EntriesOf(Seed(s, n))
      BY <1>1, <3>1, ShapeBounds, CommitWritesTypes
    <3> QED BY <1>1, <3>2, ShapeBounds DEF BoundedRows
  <2> QED BY <2>1, <2>2
<1>3. log' \in [Sessions -> Seq(Event)] /\ \A t \in Sessions : Len(log'[t]) <= MaxEvents
  BY <1>1, ShapeBounds, BoundsAssumption DEF CreateSeededSession
<1>4. HostTypeOK'
  BY ShapeBounds DEF CreateSeededSession, HostTypeOK, AttStates
<1>5. UNCHANGED <<queue, scheduled, drain, rowMode, failures, broken, closed, severed,
                  dropped, late, closing>>
  BY DEF CreateSeededSession, drainVars
<1> QED BY <1>2, <1>3, <1>4, <1>5, ShapeBounds, HostPartsMakeShape

LEMMA StageSessionTitleKeepsShape ==
  ASSUME Shape, NEW s \in Sessions, StageSessionTitle(s)
  PROVE  Shape'
<1>1. StoreTypeOK' /\ \A r \in rows' : r.seq < MaxEvents
  BY ShapeBounds DEF StageSessionTitle, RegisterSessionRow, StoreTypeOK, BoundedRows
<1>2. HostTypeOK'
  BY ShapeBounds DEF StageSessionTitle, HostTypeOK, hostVars
<1>3. UNCHANGED <<log, queue, scheduled, drain, rowMode, failures, broken, closed, severed,
                  dropped, late, closing>>
  BY DEF StageSessionTitle, queueVars, hostVars
<1> QED BY <1>1, <1>2, <1>3, ShapeBounds, HostPartsMakeShape

LEMMA AppendEventKeepsShape ==
  ASSUME Shape, NEW s \in Sessions, NEW p \in Poisons, AppendEvent(s, p)
  PROVE  Shape'
<1> DEFINE e == Appended(s, p, inc[s])
<1>1. p \in BOOLEAN /\ Len(log[s]) < MaxEvents /\ UNCHANGED hostVars
  BY BoundsAssumption DEF AppendEvent
<1>2. /\ e \in Event /\ e.seq = Len(log[s]) /\ Append(log[s], e) \in Seq(Event)
      /\ Len(Append(log[s], e)) = Len(log[s]) + 1
  BY <1>1, AppendedProps
<1>3. log[s] \in Seq(Event) /\ Len(log[s]) \in Nat /\ MaxEvents \in Nat
  BY ShapeBounds, BoundsAssumption
<1> HIDE DEF e
<1>4. HostTypeOK' /\ closing' = closing
  BY <1>1, ShapeBounds DEF HostTypeOK, hostVars
<1>5. ASSUME AppendToLog(s, e)
      PROVE  log' \in [Sessions -> Seq(Event)] /\ \A t \in Sessions : Len(log'[t]) <= MaxEvents
  BY <1>1, <1>2, <1>3, <1>5, ShapeBounds DEF AppendToLog
<1>6. storeVars' = storeVars => StoreTypeOK' /\ \A r \in rows' : r.seq < MaxEvents
  BY ShapeBounds DEF StoreTypeOK, BoundedRows, storeVars
<1>7. CASE Enqueue(s, p, inc[s])
  <2>1. queue' = Append(queue, e) /\ AppendToLog(s, e) /\ ScheduleDrain
        /\ storeVars' = storeVars
        /\ UNCHANGED <<drain, rowMode, failures, broken, closed, severed, dropped, late>>
    BY <1>7 DEF Enqueue, e
  <2>2. queue' \in Seq(Event) /\ EntriesOf(queue') \subseteq EntriesOf(queue) \cup {e}
    BY <1>2, <2>1, ShapeBounds DEF EntriesOf
  <2>3. \A r \in EntriesOf(queue') : r.seq < MaxEvents
    BY <1>1, <1>2, <2>2, ShapeBounds
  <2> QED BY <1>4, <1>5, <1>6, <2>1, <2>2, <2>3, ShapeBounds, HostPartsMakeShape
<1>8. CASE EnqueueRefused(s, p, inc[s])
  <2>1. AppendToLog(s, e) /\ storeVars' = storeVars
        /\ UNCHANGED <<queue, scheduled, drain, rowMode, failures, broken, closed, severed, dropped>>
        /\ late' = (late \/ (s \notin Cut /\ closed))
    BY <1>8 DEF EnqueueRefused, e
  <2>2. late' \in BOOLEAN /\ (late' => closed')
    <3>1. late \in BOOLEAN /\ (late => closed)
      BY ShapeBounds
    <3> QED BY <2>1, <3>1, Zenon
  <2> QED BY <1>4, <1>5, <1>6, <2>1, <2>2, ShapeBounds, HostPartsMakeShape
<1> QED BY <1>7, <1>8 DEF AppendEvent

(* Steps that end in a call of drainSessionNow.                            *)
LEMMA DrainNowKeepsShape ==
  ASSUME Shape, NEW s \in Sessions, NEW retiring \in BOOLEAN,
         DrainNowReturns(s, retiring) \/ DrainNowThrows(s),
         UNCHANGED <<drain, rowMode, failures, broken, closed, severed, late, closing>>,
         log' \in [Sessions -> Seq(Event)], \A t \in Sessions : Len(log'[t]) <= MaxEvents,
         HostTypeOK', scheduled' = scheduled \/ ScheduleDrain
  PROVE  Shape'
<1>1. /\ StoreTypeOK' /\ queue' \in Seq(Event) /\ dropped' \subseteq Sessions
      /\ EntriesOf(queue') \subseteq EntriesOf(queue)
      /\ rows' \subseteq rows \cup EntriesOf(queue)
      /\ queue' # <<>> => queue # <<>>
  BY DrainNowShape DEF Shape
<1>2. \A r \in rows' : r.seq < MaxEvents
  BY <1>1, ShapeBounds DEF BoundedRows
<1> QED BY <1>1, <1>2, ShapeBounds, HostPartsMakeShape

(* A drainSessionNow that is followed by retireEntries, or not.            *)
LEMMA RetireEntriesDrains ==
  ASSUME NEW s \in Sessions, RetireEntries(s), HostTypeOK
  PROVE  /\ DrainNowReturns(s, TRUE) \/ DrainNowThrows(s)
         /\ registrations' \subseteq Sessions
BY DEF RetireEntries, HostTypeOK

LEMMA DrainingCallsKeepShape ==
  ASSUME Shape, NEW s \in Sessions,
         Retire(s) \/ LoadSession(s) \/ LoadFails(s) \/ CheckpointBarrier(s) \/ StartDelete(s)
  PROVE  Shape'
<1> USE ShapeBounds
<1>1. CASE Retire(s)
  BY <1>1, RetireEntriesDrains, DrainNowKeepsShape DEF Retire, HostTypeOK, AttStates, drainVars
<1>2. CASE LoadSession(s)
  <2>1. DrainNowReturns(s, FALSE) /\ log' = [log EXCEPT ![s] = Stored(s)']
        /\ UNCHANGED <<drainVars, severed, late, deleting, closing, gone, crashes>>
    BY <1>2 DEF LoadSession
  <2>2. /\ StoreTypeOK'
        /\ EntriesOf(queue') \subseteq EntriesOf(queue)
        /\ rows' \subseteq rows \cup EntriesOf(queue)
    BY <2>1, DrainNowShape DEF Shape
  <2>3. BoundedRows'
    BY <2>2 DEF BoundedRows, StoreTypeOK
  <2>4. Stored(s)' \in Seq(Event) /\ Len(Stored(s)') <= MaxEvents
    <3>1. ReadsPrefix'
      BY <2>3, StoredReadsPrefixAfter
    <3>2. Stored(s)' \in Seq(Event) /\ Len(Stored(s)') \in 0..MaxEvents
      BY <3>1 DEF ReadsPrefix
    <3> QED BY <3>2
  <2>5. log' \in [Sessions -> Seq(Event)] /\ \A t \in Sessions : Len(log'[t]) <= MaxEvents
    BY <2>1, <2>4
  <2>6. HostTypeOK'
    BY <1>2 DEF LoadSession, HostTypeOK, AttStates
  <2> QED BY <2>1, <2>5, <2>6, DrainNowKeepsShape DEF drainVars
<1>3. CASE LoadFails(s)
  BY <1>3, DrainNowKeepsShape DEF LoadFails, HostTypeOK, hostVars, drainVars
<1>4. CASE CheckpointBarrier(s)
  BY <1>4, DrainNowKeepsShape DEF CheckpointBarrier, DrainSessionNow, HostTypeOK, hostVars
<1>5. CASE StartDelete(s)
  <2>1. HostTypeOK'
    BY <1>5, RetireEntriesDrains DEF StartDelete, HostTypeOK, AttStates, FlushStates
  <2>2. CASE att[s] = "live"
    BY <1>5, <2>1, <2>2, RetireEntriesDrains, DrainNowKeepsShape DEF StartDelete
  <2>3. CASE att[s] # "live"
    <3>1. StoreTypeOK' /\ \A r \in rows' : r.seq < MaxEvents
      BY <1>5, <2>3 DEF StartDelete, StoreTypeOK, BoundedRows, storeVars
    <3> QED BY <1>5, <2>1, <2>3, <3>1, HostPartsMakeShape DEF StartDelete
  <2> QED BY <2>2, <2>3
<1> QED BY <1>1, <1>2, <1>3, <1>4, <1>5

LEMMA DeletesKeepShape ==
  ASSUME Shape, NEW s \in Sessions, FinishDelete(s) \/ ForeignDelete(s)
  PROVE  Shape'
<1> USE ShapeBounds
<1>1. CASE FinishDelete(s)
  <2>1. queue' \in Others(s) /\ dropped' \subseteq Sessions
    BY <1>1 DEF FinishDelete, DropSession
  <2>2. queue' \in Seq(Event) /\ \E g : Drawn(queue, queue', g)
    BY <2>1, OthersDrawn
  <2>3. EntriesOf(queue') \subseteq EntriesOf(queue) /\ (queue = <<>> => DOMAIN queue' = {})
    BY <2>2, DrawnEntries
  <2>4. StoreTypeOK' /\ rows' \subseteq rows
    BY <1>1 DEF FinishDelete, DeleteSessionRows, DeleteTables, StoreTypeOK, storeVars
  <2>5. HostTypeOK'
    BY <1>1 DEF FinishDelete, HostTypeOK, FlushStates
  <2>6. \A e \in EntriesOf(queue') : e.seq < MaxEvents
    BY <2>3
  <2>7. \A r \in rows' : r.seq < MaxEvents
    BY <2>4 DEF BoundedRows
  <2>8. queue' # <<>> => queue # <<>>
    BY <2>2, <2>3
  <2>9. UNCHANGED <<log, scheduled, drain, rowMode, failures, broken, closed, severed, late, closing>>
    BY <1>1 DEF FinishDelete, drainVars
  <2> QED BY <2>1, <2>2, <2>4, <2>5, <2>6, <2>7, <2>8, <2>9, HostPartsMakeShape
<1>2. CASE ForeignDelete(s)
  <2>1. StoreTypeOK' /\ rows' \subseteq rows
    BY <1>2 DEF ForeignDelete, DeleteTables, StoreTypeOK
  <2>2. \A r \in rows' : r.seq < MaxEvents
    BY <2>1 DEF BoundedRows
  <2>3. HostTypeOK'
    BY <1>2 DEF ForeignDelete, HostTypeOK
  <2> QED BY <1>2, <2>1, <2>2, <2>3, HostPartsMakeShape DEF ForeignDelete, queueVars
<1> QED BY <1>1, <1>2

LEMMA CrashKeepsShape ==
  ASSUME Shape, Crash
  PROVE  Shape'
<1> USE ShapeBounds DEF Crash
<1>1. StoreTypeOK'
  BY DEF StoreTypeOK
<1>2. ReadsPrefix
  BY StoredReadsPrefix
<1>3. log' \in [Sessions -> Seq(Event)] /\ \A s \in Sessions : Len(log'[s]) <= MaxEvents
  BY <1>2 DEF ReadsPrefix
<1>4. HostTypeOK'
  <2>1. att' \in [Sessions -> AttStates]
    BY DEF AttStates
  <2>2. deleting' \in [Sessions -> FlushStates] /\ closing' \in FlushStates
    BY DEF FlushStates
  <2>3. inc' \in [Sessions -> Nat] /\ gone' \subseteq Sessions /\ crashes \in Nat
    BY DEF HostTypeOK
  <2> QED BY <2>1, <2>2, <2>3 DEF HostTypeOK
<1>5. QueueTypeOK'
  <2>1. queue' \in Seq(Event) /\ failures' \in 0..RetryLimit /\ drain' \in DrainStates
    BY QueueAssumption DEF DrainStates
  <2>2. /\ scheduled' \in BOOLEAN /\ rowMode' \in BOOLEAN /\ broken' \in BOOLEAN
        /\ closed' \in BOOLEAN /\ late' \in BOOLEAN
    OBVIOUS
  <2>3. severed' \subseteq Sessions /\ dropped' \subseteq Sessions
    OBVIOUS
  <2> QED BY <1>3, <2>1, <2>2, <2>3 DEF QueueTypeOK
<1>6. NoLostWakeup'
  BY DEF NoLostWakeup
<1>7. FlagsAgree'
  BY QueueAssumption DEF FlagsAgree
<1>8. WithinBounds'
  BY <1>3 DEF WithinBounds, BoundedRows
<1> QED BY <1>1, <1>4, <1>5, <1>6, <1>7, <1>8 DEF Shape, TypeOK

-----------------------------------------------------------------------------
LEMMA InitShape == Init => Shape
<1> SUFFICES ASSUME Init PROVE Shape
  OBVIOUS
<1> USE BoundsAssumption, QueueAssumption DEF Init, StoreInit, QueueInit
<1>1. StoreTypeOK
  BY DEF StoreTypeOK, NoCursor
<1>2. QueueTypeOK
  <2>1. /\ log \in [Sessions -> Seq(Event)] /\ queue \in Seq(Event)
        /\ failures \in 0..RetryLimit /\ drain \in DrainStates
    BY DEF DrainStates
  <2>2. /\ scheduled \in BOOLEAN /\ rowMode \in BOOLEAN /\ broken \in BOOLEAN
        /\ closed \in BOOLEAN /\ late \in BOOLEAN
    OBVIOUS
  <2>3. severed \subseteq Sessions /\ dropped \subseteq Sessions
    OBVIOUS
  <2> QED BY <2>1, <2>2, <2>3 DEF QueueTypeOK
<1>3. HostTypeOK
  BY DEF HostTypeOK, AttStates, FlushStates
<1>4. NoLostWakeup /\ FlagsAgree /\ WithinBounds
  BY DEF NoLostWakeup, FlagsAgree, WithinBounds
<1> QED BY <1>1, <1>2, <1>3, <1>4 DEF Shape, TypeOK

LEMMA NextShape == Shape /\ [Next]_vars => Shape'
<1> SUFFICES ASSUME Shape, [Next]_vars PROVE Shape'
  OBVIOUS
<1>1. CASE Drain
  BY <1>1, DrainKeepsShape
<1>2. CASE \E s \in Sessions : SessionStep(s)
  <2>1. PICK s \in Sessions : SessionStep(s)
    BY <1>2
  <2> QED BY <2>1, CallsKeepShape, CreateSeededKeepsShape, StageSessionTitleKeepsShape,
             AppendEventKeepsShape, DrainingCallsKeepShape, DeletesKeepShape DEF SessionStep
<1>3. CASE StartClose \/ CloseFlushed \/ FinishClose
  BY <1>3, CloseKeepsShape
<1>4. CASE Crash
  BY <1>4, CrashKeepsShape
<1>5. CASE UNCHANGED vars
  BY <1>5 DEF vars, storeVars, queueVars, hostVars, Shape, TypeOK, StoreTypeOK, QueueTypeOK,
              HostTypeOK, NoLostWakeup, FlagsAgree, WithinBounds
<1> QED BY <1>1, <1>2, <1>3, <1>4, <1>5 DEF Next

(* Every reachable state has Shape. *)
THEOREM ShapeInvariant == Spec => []Shape
BY InitShape, NextShape, PTL DEF Spec

(* Every variable has its type, for any number of sessions, batch size and *)
(* retry limit.                                                            *)
THEOREM TypeCorrect == Spec => []TypeOK
<1>1. Shape => TypeOK
  BY DEF Shape
<1> QED BY <1>1, ShapeInvariant, PTL

(* Events in the queue always have a drain under way or scheduled, until   *)
(* the queue is broken (scheduleDrain and the finally of its task).        *)
THEOREM NoWakeupIsLost == Spec => []NoLostWakeup
<1>1. Shape => NoLostWakeup
  BY DEF Shape
<1> QED BY <1>1, ShapeInvariant, PTL
=============================================================================
