------------------------- MODULE PersistenceProofs --------------------------
(***************************************************************************)
(* The theorems about Persistence: IInv is an invariant, with it hold the  *)
(* safety properties of the module and the promises of DurableLog, for all *)
(* sessions, batch sizes, retry limits and bounds.                         *)
(*                                                                         *)
(* Account, the part of IInv that says where every event is, is kept first *)
(* by the drain and drainSessionNow (the heart of it is InOrder: writeTuple*)
(* finds neither a gap nor a missing row in a batch of a session that is   *)
(* accounted for), then by the calls of the facade, other processes and    *)
(* crashes.                                                                *)
(***************************************************************************)
EXTENDS ShapeProofs

Verdicts == {"none", "absent", "corrupt", "constraint"}

LEMMA TupleFaultType ==
  ASSUME NEW b, NEW i
  PROVE  TupleFault(b, i) \in Verdicts
BY DEF TupleFault, Verdicts

(* WriteFault is the verdict on the first faulty event. *)
LEMMA WriteFaultIsFirst ==
  ASSUME NEW b \in Seq(Event)
  PROVE  /\ WriteFault(b) \in Verdicts
         /\ WriteFault(b) # "none" =>
              /\ FirstFault(b) \in 1..Len(b)
              /\ TupleFault(b, FirstFault(b)) = WriteFault(b)
         /\ WriteFault(b) = "none" => \A i \in DOMAIN b : TupleFault(b, i) = "none"
<1>1. CASE Faulty(b) = {}
  BY <1>1 DEF WriteFault, Faulty, Verdicts
<1>2. CASE Faulty(b) # {}
  <2>1. Faulty(b) \subseteq Nat /\ Faulty(b) \subseteq 1..Len(b)
    BY DEF Faulty
  <2>2. \E i \in Faulty(b) : \A j \in Faulty(b) : i <= j
    BY <1>2, <2>1, NatMin
  <2>3. FirstFault(b) \in Faulty(b)
    BY <2>2 DEF FirstFault
  <2>4. TupleFault(b, FirstFault(b)) # "none"
    BY <2>3 DEF Faulty
  <2> QED BY <1>2, <2>1, <2>3, <2>4, TupleFaultType DEF WriteFault
<1> QED BY <1>1, <1>2

(* A transaction looks at events of its batch only. *)
LEMMA FailPointsInBatch ==
  ASSUME NEW b \in Seq(Event), NEW k \in FailPoints(b)
  PROVE  k \in 0..Len(b)
<1>1. Len(b) \in Nat
  OBVIOUS
<1>2. CASE WriteFault(b) = "none"
  BY <1>2 DEF FailPoints
<1>3. CASE WriteFault(b) = "corrupt"
  <2>1. FirstFault(b) \in 1..Len(b)
    BY <1>3, WriteFaultIsFirst
  <2> QED BY <1>1, <1>3, <2>1 DEF FailPoints
<1>4. CASE WriteFault(b) \notin {"none", "corrupt"}
  <2>1. FirstFault(b) \in 1..Len(b)
    BY <1>4, WriteFaultIsFirst
  <2>2. k \in 0..(FirstFault(b) - 1)
    BY <1>4 DEF FailPoints
  <2> QED BY <1>1, <2>1, <2>2
<1> QED BY <1>2, <1>3, <1>4

(* The events of s in b are consecutive from the head of the queue on: no  *)
(* queued event of s before one in b is left out of b.                     *)
DownClosed(s, b, f) ==
  \A p \in PositionsOf(queue, s), k \in DOMAIN b :
    b[k].sid = s /\ p < f[k] => \E m \in DOMAIN b : f[m] = p

(* Of a session that is accounted for, the event after the cursor is the   *)
(* next in the queue: writeTuple finds no gap and no missing row.          *)
LEMMA InOrder ==
  ASSUME TypeOK, RowsRegistered, NEW s \in Sessions, Tracked(s), ~broken, ~late,
         NEW l \in Seq(Event), NumberedFor(s, l), SoundFor(s, l),
         NEW b \in Seq(Event), NEW f, Drawn(queue, b, f), DownClosed(s, b, f),
         NEW i \in DOMAIN b, b[i].sid = s
  PROVE  TupleFault(b, i) \notin {"absent", "corrupt"}
<1>1. BackedBy(s, l) /\ PendingOf(s, l) /\ CursorTrue(s) /\ Covers(s, l)
  BY DEF SoundFor, Tracked
<1>2. /\ Len(l) \in Nat /\ DOMAIN l = 1..Len(l) /\ lastSeq[s] \in Nat \cup {-1}
      /\ DOMAIN b = 1..Len(b) /\ Len(b) \in Nat /\ DOMAIN queue \subseteq Nat
      /\ (lastSeq[s] # -1 => s \in present)
  BY DEF TypeOK, StoreTypeOK, QueueTypeOK, RowsRegistered
<1>3. CursorFor(s) = lastSeq[s]
  BY <1>1, CursorForTrue DEF TypeOK
<1>4. \A k \in DOMAIN b : /\ f[k] \in DOMAIN queue /\ b[k] = queue[f[k]]
                          /\ (b[k].sid = s => f[k] \in PositionsOf(queue, s))
  BY DEF Drawn, PositionsOf
<1>5. \A k \in DOMAIN b : b[k].sid = s =>
         b[k].seq \in (lastSeq[s] + 1)..(Len(l) - 1) /\ b[k].seq \in Nat
  BY <1>1, <1>2, <1>4 DEF PendingOf
<1>6. \A j, k \in DOMAIN b : j < k => f[j] < f[k]
  BY DEF Drawn
<1> DEFINE e == b[i].seq
<1>7. e \in (lastSeq[s] + 1)..(Len(l) - 1) /\ e \in Nat
  BY <1>5
(* An event of s between last_seq and b[i] comes earlier in b. *)
<1>8. ASSUME NEW n \in Nat, n > lastSeq[s], n < e
      PROVE  \E m \in Earlier(b, i) : b[m].seq = n
  <2>1. n + 1 \in DOMAIN l /\ n + 1 > lastSeq[s] + 1
    BY <1>2, <1>7, <1>8
  <2>2. PICK p \in DOMAIN queue : queue[p] = l[n + 1]
    BY <1>1, <2>1 DEF Covers, Queued
  <2>3. queue[p].sid = s /\ queue[p].seq = n
    BY <2>1, <2>2 DEF NumberedFor
  <2>4. p \in PositionsOf(queue, s)
    BY <2>3 DEF PositionsOf
  <2>5. p < f[i]
    <3>1. p # f[i]
      BY <1>4, <1>7, <1>8, <2>3
    <3>2. ~(f[i] < p)
      BY <1>1, <1>4, <1>7, <1>8, <2>3, <2>4 DEF PendingOf
    <3> QED BY <1>2, <1>4, <3>1, <3>2
  <2>6. PICK m \in DOMAIN b : f[m] = p
    BY <2>4, <2>5 DEF DownClosed
  <2>7. b[m].sid = s /\ b[m].seq = n
    BY <1>4, <2>3, <2>6
  <2>8. m < i
    <3>1. m # i
      BY <2>5, <2>6, <1>2, <1>4
    <3>2. ~(i < m)
      BY <1>2, <1>4, <1>6, <2>5, <2>6
    <3> QED BY <1>2, <3>1, <3>2
  <2> QED BY <2>7, <2>8 DEF Earlier
<1>9. CASE Earlier(b, i) = {}
  <2>1. CursorAt(b, i) = lastSeq[s]
    BY <1>3, <1>9 DEF CursorAt
  <2>2. e = lastSeq[s] + 1
    <3>1. ~(lastSeq[s] + 1 < e)
      BY <1>2, <1>8, <1>9
    <3> QED BY <1>2, <1>7, <3>1
  <2>3. (CursorAt(b, i) < 0 /\ b[i].seq = 0) \/ b[i].sid \in present
    BY <1>2, <2>1, <2>2
  <2> QED BY <2>1, <2>2, <2>3 DEF TupleFault
<1>10. CASE Earlier(b, i) # {}
  <2> DEFINE m == LastOf(Earlier(b, i))
  <2>1. m \in Earlier(b, i) /\ \A k \in Earlier(b, i) : k <= m
    <3>1. Earlier(b, i) \subseteq 1..Len(b)
      BY <1>2 DEF Earlier
    <3> QED BY <1>2, <1>10, <3>1, LastOfIsLast
  <2>2. m \in DOMAIN b /\ m < i /\ b[m].sid = s
    BY <2>1 DEF Earlier
  <2>3. CursorAt(b, i) = b[m].seq
    BY <1>10 DEF CursorAt
  <2> HIDE DEF m
  <2>4. f[m] < f[i] /\ b[m].seq < e /\ b[m].seq \in Nat /\ b[m].seq > lastSeq[s]
    <3>1. f[m] < f[i]
      BY <1>6, <2>2
    <3> QED BY <1>1, <1>2, <1>4, <1>5, <2>2, <3>1 DEF PendingOf
  <2>5. e = b[m].seq + 1
    <3> SUFFICES ASSUME b[m].seq + 1 < e PROVE FALSE
      BY <1>7, <2>4
    <3>1. PICK j \in Earlier(b, i) : b[j].seq = b[m].seq + 1
      BY <1>2, <1>8, <2>4
    <3>2. j \in DOMAIN b /\ b[j].sid = s /\ j <= m
      BY <2>1, <3>1 DEF Earlier
    <3>3. j # m
      BY <2>4, <3>1
    <3>4. f[j] < f[m]
      BY <1>2, <1>6, <2>2, <3>2, <3>3
    <3>5. b[j].seq < b[m].seq
      BY <1>1, <1>4, <2>2, <3>2, <3>4 DEF PendingOf
    <3> QED BY <2>4, <3>1, <3>5
  <2> QED BY <1>10, <2>3, <2>5 DEF TupleFault
<1> QED BY <1>9, <1>10

(* The next events of the queue, and the queued events of one session.     *)
LEMMA HeadInOrder ==
  ASSUME TypeOK, RowsRegistered, queue # <<>>, NEW s \in Sessions, s = Head(queue).sid,
         Tracked(s), ~broken, ~late,
         NEW l \in Seq(Event), NumberedFor(s, l), SoundFor(s, l)
  PROVE  WriteFault(<<Head(queue)>>) \notin {"absent", "corrupt"}
<1> DEFINE b == <<Head(queue)>>
<1>1. b \in Seq(Event) /\ Drawn(queue, b, <<1>>) /\ Len(queue) \in Nat
  BY HeadDrawn DEF TypeOK, QueueTypeOK
<1>2. Len(b) = 1 /\ DOMAIN b = {1} /\ b[1].sid = s /\ <<1>>[1] = 1
  OBVIOUS
<1>3. DownClosed(s, b, <<1>>)
  BY <1>1, <1>2 DEF DownClosed, PositionsOf
<1> HIDE DEF b
<1>4. TupleFault(b, 1) \notin {"absent", "corrupt"}
  BY <1>1, <1>2, <1>3, InOrder
<1>5. FirstFault(b) \in 1..1 => FirstFault(b) = 1
  OBVIOUS
<1>6. WriteFault(b) \notin {"absent", "corrupt"}
  BY <1>1, <1>2, <1>4, <1>5, WriteFaultIsFirst
<1> QED BY <1>6 DEF b

LEMMA MineInOrder ==
  ASSUME TypeOK, RowsRegistered, NEW s \in Sessions, Tracked(s), ~broken, ~late,
         NEW l \in Seq(Event), NumberedFor(s, l), SoundFor(s, l), NEW b \in Mine(s)
  PROVE  WriteFault(b) \notin {"absent", "corrupt"}
<1>1. queue \in Seq(Event)
  BY DEF TypeOK, QueueTypeOK
<1>2. PICK f : /\ b \in Seq(Event) /\ Drawn(queue, b, f)
               /\ \A k \in DOMAIN b : f[k] \in PositionsOf(queue, s)
               /\ \A p \in PositionsOf(queue, s) : \E k \in DOMAIN b : f[k] = p
  BY <1>1, MineDrawn
<1>3. DownClosed(s, b, f)
  BY <1>2 DEF DownClosed
<1>4. \A i \in DOMAIN b : b[i].sid = s
  BY <1>2 DEF Drawn, PositionsOf
<1>5. \A i \in DOMAIN b : TupleFault(b, i) \notin {"absent", "corrupt"}
  BY <1>2, <1>3, <1>4, InOrder
<1> QED BY <1>2, <1>5, WriteFaultIsFirst


-----------------------------------------------------------------------------
(* The facts about the unprimed state that the proofs use.                 *)
LEMMA IInvFacts ==
  ASSUME IInv
  PROVE  /\ TypeOK /\ StoreTypeOK /\ queue \in Seq(Event) /\ RowsRegistered
         /\ log \in [Sessions -> Seq(Event)]
         /\ \A s \in Sessions : log[s] \in Seq(Event) /\ NumberedFor(s, log[s]) /\ SoundFor(s, log[s])
         /\ (closed => closing = "done") /\ (late => closed) /\ (drain # "idle" => ~broken)
BY DEF IInv, Shape, Account, TypeOK, QueueTypeOK, FlagsAgree, Numbered, NumberedFor, Accounted

(* The account of a log, carried over to the log it has become.            *)
LEMMA SoundForLog ==
  ASSUME NEW s, NEW l, SoundFor(s, l)', log'[s] = l
  PROVE  SoundFor(s, log[s])'
BY DEF SoundFor, BackedBy, PendingOf, Covers

(* Nothing in the queue, nothing in the tables of s changes.               *)
LEMMA SameSound ==
  ASSUME IInv, NEW s \in Sessions, queue' = queue, log'[s] = log[s],
         Tracked(s)' => Tracked(s) /\ CursorTrue(s)',
         {r \in rows : r.sid = s}' = {r \in rows : r.sid = s},
         lastSeq'[s] = lastSeq[s],
         s \in gone => s \in gone', broken => broken', late => late'
  PROVE  SoundFor(s, log[s])'
<1> SUFFICES ASSUME NEW l, l = log[s] PROVE SoundFor(s, log[s])'
  OBVIOUS
<1> DEFINE g == [i \in DOMAIN queue |-> i]
<1>1. TypeOK /\ l \in Seq(Event) /\ NumberedFor(s, l) /\ SoundFor(s, l) /\ queue' \in Seq(Event)
  BY IInvFacts
<1>2. Drawn(queue, queue', g)
  BY IInvFacts DEF Drawn
<1>3. \A i \in PositionsOf(queue, s) : \E k \in DOMAIN queue' : g[k] = i
  BY DEF PositionsOf
<1> HIDE DEF g
<1>4. SoundFor(s, l)'
  BY <1>1, <1>2, <1>3, ShrinkSound
<1> QED BY <1>4, SoundForLog

-----------------------------------------------------------------------------
(* The transitions of the store.                                           *)

LEMMA CommitKeepsRegistered ==
  ASSUME StoreTypeOK, RowsRegistered, NEW b, CommitTables(b)
  PROVE  RowsRegistered'
BY DEF CommitTables, RowsRegistered, StoreTypeOK

(* A lookup caches the cursor it finds, for sessions of the batch only.    *)
LEMMA LookedUpTrue ==
  ASSUME StoreTypeOK, RowsRegistered, NEW b \in Seq(Event), NEW k \in 0..Len(b),
         AbortWrites(b, k), NEW s \in Sessions
  PROVE  /\ CursorTrue(s) => CursorTrue(s)'
         /\ s \notin SidsOf(b) => cursor'[s] = cursor[s]
<1>1. cursor'[s] = IF \E i \in 1..k : b[i].sid = s THEN CursorFor(s) ELSE cursor[s]
  BY DEF AbortWrites, LookedUp
<1>2. lastSeq'[s] = lastSeq[s]
  BY DEF AbortWrites
<1>3. CursorTrue(s) => CursorTrue(s)'
  BY <1>1, <1>2, CursorForTrue DEF CursorTrue
<1>4. (\E i \in 1..k : b[i].sid = s) => s \in SidsOf(b)
  <2>1. 1..k \subseteq DOMAIN b
    OBVIOUS
  <2> QED BY <2>1 DEF SidsOf
<1> QED BY <1>1, <1>3, <1>4

-----------------------------------------------------------------------------
(* Steps that leave the tables, the logs and the cut sessions alone.       *)
LEMMA QuietKeepsAccount ==
  ASSUME IInv, UNCHANGED <<storeVars, log, queue, severed, dropped, gone>>,
         broken => broken', late => late', closed => closed',
         ~rowMode' => ~rowMode \/ queue = <<>>,
         \A s \in Sessions : att'[s] = "unborn" => att[s] = "unborn" /\ deleting'[s] = deleting[s]
                                                   /\ s \notin registrations' \ registrations,
         \A s \in registrations' \ registrations : att[s] = "unborn",
         registrations' \subseteq Sessions
  PROVE  Account'
<1> USE DEF IInv, Account
<1>1. Numbered'
  BY DEF Numbered
<1>2. Accounted'
  <2> SUFFICES ASSUME NEW s \in Sessions PROVE SoundFor(s, log[s])'
    BY DEF Accounted
  <2>1. rows' = rows /\ lastSeq' = lastSeq /\ cursor' = cursor
    BY DEF storeVars
  <2>2. Tracked(s)' => Tracked(s) /\ CursorTrue(s)'
    BY <2>1, IInvFacts DEF Tracked, Cut, CursorTrue, SoundFor
  <2> QED BY <2>1, <2>2, SameSound
<1>3. RowsRegistered'
  BY DEF RowsRegistered, storeVars
<1>4. CutSkipped'
  BY DEF CutSkipped, Cut
<1>5. UnbornClean'
  BY DEF UnbornClean, Cut, PositionsOf, storeVars
<1>6. DeletedClean'
  BY DEF DeletedClean, UnbornClean, Cut, storeVars, Shape, TypeOK, QueueTypeOK
<1> QED BY <1>1, <1>2, <1>3, <1>4, <1>5, <1>6

(* Steps that write queued events, take entries out of the queue or cut    *)
(* sessions off: the sessions that were not given out are not concerned,   *)
(* and nothing comes back of a deleted session.                            *)
LEMMA WritesKeepAccount ==
  ASSUME IInv, Numbered', Accounted', RowsRegistered', CutSkipped',
         queue' \in Seq(Event), EntriesOf(queue') \subseteq EntriesOf(queue),
         rows' \subseteq rows \cup {r \in EntriesOf(queue) : r.sid \notin Cut},
         present' \subseteq present \cup (SidsOf(queue) \ Cut),
         \A s \in Sessions : s \notin SidsOf(queue) => cursor'[s] \in {cursor[s], NoCursor},
         severed' \subseteq severed \cup SidsOf(queue),
         dropped' \subseteq dropped \cup (SidsOf(queue) \cap gone),
         gone' = gone, closed => closed', registrations' \subseteq registrations \cup Sessions,
         \A s \in Sessions : att'[s] = "unborn" =>
            att[s] = "unborn" /\ deleting'[s] = deleting[s] /\ log'[s] = log[s],
         \A s \in registrations' \ registrations : s \notin dropped' \/ s \in gone,
         \A s \in registrations' \ registrations : att'[s] # "unborn"
  PROVE  Account'
<1> USE DEF IInv, Account
<1>1. \A s \in Sessions : att[s] = "unborn" =>
        /\ s \notin SidsOf(queue) /\ \A e \in EntriesOf(queue) : e.sid # s
        /\ PositionsOf(queue', s) = {}
  <2> TAKE s \in Sessions
  <2> HAVE att[s] = "unborn"
  <2>1. PositionsOf(queue, s) = {}
    BY DEF UnbornClean
  <2>2. \A e \in EntriesOf(queue) : e.sid # s
    BY <2>1 DEF PositionsOf, EntriesOf
  <2>3. s \notin SidsOf(queue)
    BY <2>1 DEF PositionsOf, SidsOf
  <2>4. \A i \in DOMAIN queue' : queue'[i] \in EntriesOf(queue)
    BY DEF EntriesOf
  <2> QED BY <2>2, <2>3, <2>4 DEF PositionsOf
<1>2. UnbornClean'
  <2> SUFFICES ASSUME NEW s \in Sessions, att'[s] = "unborn"
      PROVE  /\ log'[s] = <<>> /\ PositionsOf(queue', s) = {}
             /\ s \notin present' \cup Cut' \cup gone' \cup registrations'
             /\ {r \in rows' : r.sid = s} = {}
             /\ cursor'[s] = NoCursor /\ deleting'[s] = "no"
    BY DEF UnbornClean
  <2>1. /\ log[s] = <<>> /\ s \notin present \cup Cut \cup gone \cup registrations
        /\ {r \in rows : r.sid = s} = {}
        /\ cursor[s] = NoCursor /\ deleting[s] = "no"
    BY DEF UnbornClean
  <2>2. {r \in rows' : r.sid = s} = {}
    BY <1>1, <2>1
  <2>3. s \notin Cut'
    BY <1>1, <2>1 DEF Cut
  <2> QED BY <1>1, <2>1, <2>2, <2>3
<1>3. DeletedClean'
  <2> SUFFICES ASSUME NEW s \in dropped' \ gone', ~closed'
      PROVE  s \notin present' \cup registrations' /\ {r \in rows' : r.sid = s} = {}
    BY DEF DeletedClean
  <2>1. s \in dropped \ gone /\ s \in Cut /\ ~closed
    BY DEF Cut
  <2>2. s \notin present \cup registrations /\ {r \in rows : r.sid = s} = {}
    BY <2>1 DEF DeletedClean
  <2> QED BY <2>1, <2>2
<1> QED BY <1>2, <1>3

(* The head of the queue is an event of a queued session. *)
LEMMA HeadSid ==
  ASSUME queue \in Seq(Event), queue # <<>>
  PROVE  /\ Head(queue).sid \in Sessions /\ Head(queue).sid \in SidsOf(queue)
         /\ Head(queue) \in EntriesOf(queue)
<1>1. 1 \in DOMAIN queue /\ Head(queue) = queue[1] /\ queue[1] \in Event
  OBVIOUS
<1> QED BY <1>1 DEF Event, SidsOf, EntriesOf

(* Taking the head away keeps the rest in its place. *)
LEMMA TailKeeps ==
  ASSUME queue \in Seq(Event), queue # <<>>, NEW s, s # Head(queue).sid
  PROVE  \A i \in PositionsOf(queue, s) :
           \E k \in DOMAIN Tail(queue) : [j \in DOMAIN Tail(queue) |-> j + 1][k] = i
<1> TAKE i \in PositionsOf(queue, s)
<1>1. i \in 1..Len(queue) /\ queue[i].sid = s /\ Len(queue) \in Nat /\ i # 1
  BY DEF PositionsOf
<1>2. DOMAIN Tail(queue) = 1..(Len(queue) - 1)
  BY HeadDrawn
<1>3. i - 1 \in DOMAIN Tail(queue)
  BY <1>1, <1>2
<1>4. [j \in DOMAIN Tail(queue) |-> j + 1][i - 1] = i
  BY <1>1, <1>3
<1> QED BY <1>3, <1>4


-----------------------------------------------------------------------------
(* The account of each session after a step of the drain.                  *)
LEMMA DrainAccounts ==
  ASSUME IInv, Shape', Drain, NEW s \in Sessions, NEW l, l = log[s]
  PROVE  SoundFor(s, l)'
<1>1. /\ TypeOK /\ StoreTypeOK /\ queue \in Seq(Event) /\ RowsRegistered
      /\ l \in Seq(Event) /\ NumberedFor(s, l) /\ SoundFor(s, l)
      /\ (late => closed) /\ (drain # "idle" => ~broken)
  BY IInvFacts
<1>2. UNCHANGED <<log, closed, gone>> /\ queue' \in Seq(Event)
  <2>1. queue' \in Seq(Event)
    BY DEF Shape, TypeOK, QueueTypeOK
  <2>2. UNCHANGED <<log, closed>>
    BY DEF Drain, DrainStep, StartDrain, DrainEmpty, DrainAbandon, BatchCommit, BatchDiagnose,
           BatchFail, RowSkip, RowCommit, RowAbsent, RowPoison, RowFail, WakeDrain,
           FinishDrain, BreakQueue
  <2> QED BY <2>1, <2>2 DEF Drain, hostVars
<1>3. ASSUME queue' = queue, UNCHANGED <<rows, lastSeq, severed, dropped>>,
             broken => broken', late' = late, CursorTrue(s) => CursorTrue(s)'
      PROVE  SoundFor(s, l)'
  <2>1. Tracked(s)' => Tracked(s) /\ CursorTrue(s)'
    BY <1>1, <1>2, <1>3 DEF Tracked, Cut, SoundFor
  <2>2. Drawn(queue, queue', [i \in DOMAIN queue |-> i])
    BY <1>1, <1>3 DEF Drawn
  <2>3. \A i \in PositionsOf(queue, s) : \E k \in DOMAIN queue' : [j \in DOMAIN queue |-> j][k] = i
    BY <1>3 DEF PositionsOf
  <2> QED BY <1>1, <1>2, <1>3, <2>1, <2>2, <2>3, ShrinkSound
<1>4. cursor' = cursor /\ lastSeq' = lastSeq => (CursorTrue(s) => CursorTrue(s)')
  BY DEF CursorTrue
<1>5. CASE StartDrain \/ DrainEmpty \/ WakeDrain \/ FinishDrain \/ BreakQueue
  BY <1>3, <1>4, <1>5 DEF StartDrain, DrainEmpty, WakeDrain, FinishDrain, BreakQueue, storeVars
<1>6. CASE DrainAbandon
  <2>1. queue' = <<>> /\ late' /\ UNCHANGED <<storeVars, severed, dropped, gone>>
    BY <1>2, <1>6 DEF DrainAbandon
  <2>2. PositionsOf(queue', s) = {}
    BY <2>1 DEF PositionsOf
  <2>3. s \notin gone' => BackedBy(s, l)'
    BY <1>1, <2>1 DEF SoundFor, BackedBy, storeVars
  <2>4. Tracked(s)' => PendingOf(s, l)' /\ CursorTrue(s)'
    BY <1>1, <2>1, <2>2 DEF SoundFor, Tracked, Cut, PendingOf, CursorTrue, storeVars
  <2> QED BY <2>1, <2>3, <2>4 DEF SoundFor
<1>7. CASE BatchDiagnose \/ BatchFail \/ RowFail
  <2>1. \E b \in Seq(Event) : \E k \in 0..Len(b) : AbortWrites(b, k)
    <3>1. CASE BatchDiagnose
      <4>1. Batch \in Seq(Event)
        BY <1>1, BatchDrawn
      <4>2. FirstFault(Batch) \in 1..Len(Batch)
        BY <3>1, <4>1, WriteFaultIsFirst DEF BatchDiagnose
      <4>3. FirstFault(Batch) \in 0..Len(Batch)
        BY <4>1, <4>2
      <4> QED BY <3>1, <4>1, <4>3 DEF BatchDiagnose
    <3>2. CASE BatchFail
      BY <1>1, <3>2, BatchDrawn, FailPointsInBatch DEF BatchFail
    <3>3. CASE RowFail
      BY <1>1, <3>3, HeadDrawn, FailPointsInBatch DEF RowFail, RowTurn
    <3> QED BY <1>7, <3>1, <3>2, <3>3
  <2>2. CursorTrue(s) => CursorTrue(s)'
    BY <1>1, <2>1, LookedUpTrue
  <2>3. UNCHANGED <<rows, lastSeq>>
    BY <2>1 DEF AbortWrites
  <2> QED BY <1>3, <1>7, <2>2, <2>3 DEF BatchDiagnose, BatchFail, RowFail
<1>8. CASE BatchCommit
  <2>1. /\ queue' = AfterBatch /\ CommitTables(Batch) /\ cursor' = CursorsAfter(Batch)
        /\ UNCHANGED <<severed, dropped, broken, late>> /\ ~broken /\ ~late /\ ~rowMode
    BY <1>1, <1>8 DEF BatchCommit, BatchTurn, CommitWrites
  <2> DEFINE f == [k \in DOMAIN Batch |-> k]
             g == [k \in DOMAIN AfterBatch |-> k + BatchLen]
  <2>2. /\ BatchLen \in 0..Len(queue) /\ Len(queue) \in Nat
        /\ Batch \in Seq(Event) /\ Drawn(queue, Batch, f) /\ Drawn(queue, AfterBatch, g)
        /\ Len(Batch) = BatchLen /\ Len(AfterBatch) = Len(queue) - BatchLen
        /\ AfterBatch \in Seq(Event)
    BY <1>1, BatchDrawn
  <2>3. /\ DOMAIN Batch = 1..BatchLen /\ DOMAIN AfterBatch = 1..(Len(queue) - BatchLen)
        /\ DOMAIN queue = 1..Len(queue)
    BY <1>1, <2>2
  <2>4. \A i \in DOMAIN queue : (\E k \in DOMAIN Batch : f[k] = i)
                                \/ (\E k \in DOMAIN AfterBatch : g[k] = i)
    <3> TAKE i \in DOMAIN queue
    <3>1. CASE i <= BatchLen
      <4>1. i \in DOMAIN Batch /\ f[i] = i
        BY <2>2, <2>3, <3>1
      <4> QED BY <4>1
    <3>2. CASE i > BatchLen
      <4>1. i - BatchLen \in DOMAIN AfterBatch /\ g[i - BatchLen] = i
        BY <2>2, <2>3, <3>2
      <4> QED BY <4>1
    <3> QED BY <2>2, <2>3, <3>1, <3>2
  <2>5. \A k \in DOMAIN Batch, m \in DOMAIN AfterBatch : f[k] < g[m]
    BY <2>2, <2>3
  <2>6. \A k \in DOMAIN Batch : Batch[k].sid \notin Cut
    BY <2>1, <2>2 DEF IInv, Account, CutSkipped, Drawn
  <2>7. cursor'[s] \in {NoCursor, IF s \in SidsOf(Batch) THEN TopSeq(Batch, s) ELSE cursor[s]}
    BY <2>1 DEF CursorsAfter
  <2> HIDE DEF f, g
  <2>8. /\ Batch \in Seq(Event) /\ Drawn(queue, Batch, f) /\ Drawn(queue, queue', g)
        /\ \A i \in DOMAIN queue : (\E k \in DOMAIN Batch : f[k] = i)
                                  \/ (\E k \in DOMAIN queue' : g[k] = i)
        /\ \A k \in DOMAIN Batch, m \in DOMAIN queue' :
              Batch[k].sid = queue'[m].sid => f[k] < g[m]
    BY <2>1, <2>2, <2>4, <2>5
  <2>9. ~broken /\ ~late /\ CommitTables(Batch) /\ UNCHANGED <<gone, severed, dropped, broken, late>>
    BY <1>2, <2>1
  <2> QED BY <1>1, <1>2, <2>6, <2>7, <2>8, <2>9, CommitSound
<1>9. CASE RowSkip \/ RowCommit \/ RowAbsent \/ RowPoison
  <2>1. /\ queue # <<>> /\ queue' = Tail(queue) /\ drain = "running" /\ ~closed
        /\ UNCHANGED <<broken, late>>
    BY <1>9 DEF RowSkip, RowCommit, RowAbsent, RowPoison, RowTurn
  <2> DEFINE b == <<Head(queue)>>
             f == <<1>>
             g == [k \in DOMAIN Tail(queue) |-> k + 1]
             h == Head(queue).sid
  <2>2. /\ b \in Seq(Event) /\ Drawn(queue, b, f) /\ Drawn(queue, queue', g)
        /\ Len(queue) \in Nat \ {0} /\ Len(Tail(queue)) = Len(queue) - 1 /\ Head(queue) = queue[1]
        /\ h \in Sessions
    BY <1>1, <2>1, HeadDrawn, HeadSid
  <2>3. s # h => \A i \in PositionsOf(queue, s) : \E k \in DOMAIN queue' : g[k] = i
    BY <1>1, <2>1, TailKeeps
  <2>4. ASSUME rows' = rows, lastSeq' = lastSeq, severed \subseteq severed', dropped \subseteq dropped',
               s # h => cursor'[s] = cursor[s], h \in Cut'
        PROVE  SoundFor(s, l)'
    <3>1. Tracked(s)' => Tracked(s) /\ CursorTrue(s)' /\ s # h
      BY <1>1, <1>2, <2>4 DEF Tracked, Cut, SoundFor, CursorTrue
    <3> HIDE DEF g, h
    <3> QED BY <1>1, <1>2, <2>1, <2>2, <2>3, <2>4, <3>1, ShrinkSound
  <2>5. CASE RowSkip
    BY <2>4, <2>5 DEF RowSkip, storeVars, Cut
  <2>6. CASE RowAbsent
    <3>1. AbortWrites(b, 1) /\ dropped' = dropped \cup {h} /\ severed' = severed
      BY <2>6 DEF RowAbsent
    <3>2. s # h => cursor'[s] = cursor[s]
      <4>1. SidsOf(b) = {h} /\ 1 \in 0..Len(b)
        BY DEF SidsOf
      <4> HIDE DEF b, h
      <4> QED BY <1>1, <2>2, <3>1, <4>1, LookedUpTrue
    <3> QED BY <2>4, <3>1, <3>2 DEF AbortWrites, Cut
  <2>7. CASE RowPoison
    <3>1. AccountDropped(Head(queue)) /\ severed' = severed \cup {h} /\ dropped' = dropped
      BY <2>7 DEF RowPoison
    <3>2. s # h => cursor'[s] = cursor[s]
      BY <1>1, <3>1 DEF AccountDropped, StoreTypeOK
    <3> QED BY <2>4, <3>1, <3>2 DEF AccountDropped, Cut
  <2>8. CASE RowCommit
    <3>1. CommitTables(b) /\ cursor' = CursorsAfter(b) /\ h \notin Cut
          /\ UNCHANGED <<severed, dropped>>
      BY <2>8 DEF RowCommit, CommitWrites
    <3>2. ~broken /\ ~late
      BY <1>1, <2>1
    <3>3. DOMAIN queue = 1..Len(queue) /\ DOMAIN Tail(queue) = 1..(Len(queue) - 1) /\ DOMAIN b = {1}
          /\ f[1] = 1 /\ b[1].sid = h
      BY <1>1, <2>2
    <3>4. \A i \in DOMAIN queue : (\E k \in DOMAIN b : f[k] = i) \/ (\E k \in DOMAIN queue' : g[k] = i)
      <4> TAKE i \in DOMAIN queue
      <4>1. CASE i = 1
        BY <3>3, <4>1
      <4>2. CASE i # 1
        <5>1. i - 1 \in DOMAIN Tail(queue) /\ g[i - 1] = i
          BY <2>2, <3>3, <4>2
        <5> QED BY <2>1, <5>1
      <4> QED BY <4>1, <4>2
    <3>5. \A k \in DOMAIN b, m \in DOMAIN queue' : f[k] < g[m]
      BY <2>1, <2>2, <3>3
    <3>6. \A k \in DOMAIN b : b[k].sid \notin Cut
      BY <3>1, <3>3
    <3>7. cursor'[s] \in {NoCursor, IF s \in SidsOf(b) THEN TopSeq(b, s) ELSE cursor[s]}
      BY <3>1 DEF CursorsAfter
    <3> HIDE DEF f, g, b
    <3> QED BY <1>1, <1>2, <2>1, <2>2, <3>1, <3>2, <3>4, <3>5, <3>6, <3>7, CommitSound
  <2> QED BY <1>9, <2>5, <2>6, <2>7, <2>8
<1> QED BY <1>5, <1>6, <1>7, <1>8, <1>9 DEF Drain, DrainStep

(* A step of the drain keeps the account: what it writes is queued and not *)
(* cut off, what it drops another process deleted.                         *)
LEMMA DrainKeepsAccount ==
  ASSUME IInv, Shape', Drain
  PROVE  Account'
<1>1. /\ TypeOK /\ StoreTypeOK /\ queue \in Seq(Event) /\ RowsRegistered
      /\ (late => closed) /\ (drain # "idle" => ~broken)
      /\ \A s \in Sessions : log[s] \in Seq(Event) /\ NumberedFor(s, log[s]) /\ SoundFor(s, log[s])
  BY IInvFacts
<1>2. UNCHANGED <<log, closed, hostVars>>
  BY DEF Drain, DrainStep, StartDrain, DrainEmpty, DrainAbandon, BatchCommit, BatchDiagnose,
         BatchFail, RowSkip, RowCommit, RowAbsent, RowPoison, RowFail, WakeDrain,
         FinishDrain, BreakQueue
<1>3. queue' \in Seq(Event)
  BY DEF Shape, TypeOK, QueueTypeOK
<1>4. Numbered'
  BY <1>2 DEF IInv, Account, Numbered
<1>5. Accounted'
  <2> SUFFICES ASSUME NEW s \in Sessions, NEW l, l = log[s] PROVE SoundFor(s, log[s])'
    BY DEF Accounted
  <2> QED BY <1>2, DrainAccounts, SoundForLog
<1>6. CutSkipped
  BY DEF IInv, Account
<1>7. ASSUME queue' = queue, UNCHANGED <<rows, present, lastSeq, severed, dropped>>,
             ~rowMode' => ~rowMode \/ queue = <<>>,
             \A s \in Sessions : s \notin SidsOf(queue) => cursor'[s] = cursor[s]
      PROVE  Account'
  <2>1. RowsRegistered'
    BY <1>1, <1>7 DEF RowsRegistered
  <2>2. CutSkipped'
    BY <1>6, <1>7 DEF CutSkipped, Cut
  <2> QED BY <1>2, <1>3, <1>4, <1>5, <1>7, <2>1, <2>2, WritesKeepAccount DEF hostVars
<1>8. CASE StartDrain \/ DrainEmpty \/ WakeDrain \/ FinishDrain \/ BreakQueue
  BY <1>7, <1>8 DEF StartDrain, DrainEmpty, WakeDrain, FinishDrain, BreakQueue, storeVars
<1>9. CASE DrainAbandon
  <2>1. queue' = <<>> /\ UNCHANGED <<rows, present, lastSeq, cursor, severed, dropped>>
    BY <1>9 DEF DrainAbandon, storeVars
  <2>2. RowsRegistered' /\ CutSkipped'
    BY <1>1, <2>1 DEF RowsRegistered, CutSkipped
  <2>3. EntriesOf(queue') \subseteq EntriesOf(queue)
    BY <2>1 DEF EntriesOf
  <2> QED BY <1>2, <1>3, <1>4, <1>5, <2>1, <2>2, <2>3, WritesKeepAccount DEF hostVars
<1>10. ASSUME NEW b \in Seq(Event), NEW k \in 0..Len(b), AbortWrites(b, k),
              SidsOf(b) \subseteq SidsOf(queue)
       PROVE  \A s \in Sessions : s \notin SidsOf(queue) => cursor'[s] = cursor[s]
  BY <1>1, <1>10, LookedUpTrue
<1>11. /\ Batch \in Seq(Event) /\ SidsOf(Batch) \subseteq SidsOf(queue)
       /\ EntriesOf(Batch) \subseteq EntriesOf(queue)
       /\ AfterBatch \in Seq(Event) /\ EntriesOf(AfterBatch) \subseteq EntriesOf(queue)
  <2>1. /\ Batch \in Seq(Event) /\ AfterBatch \in Seq(Event)
        /\ Drawn(queue, Batch, [j \in DOMAIN Batch |-> j])
        /\ Drawn(queue, AfterBatch, [j \in DOMAIN AfterBatch |-> j + BatchLen])
    BY <1>1, BatchDrawn
  <2>2. EntriesOf(Batch) \subseteq EntriesOf(queue) /\ EntriesOf(AfterBatch) \subseteq EntriesOf(queue)
    BY <1>1, <2>1, DrawnEntries
  <2>3. SidsOf(Batch) \subseteq SidsOf(queue)
    BY <2>1 DEF SidsOf, Drawn
  <2> QED BY <2>1, <2>2, <2>3
<1>12. CASE BatchDiagnose
  <2>1. FirstFault(Batch) \in 1..Len(Batch)
    BY <1>11, <1>12, WriteFaultIsFirst DEF BatchDiagnose
  <2>2. FirstFault(Batch) \in 0..Len(Batch)
    BY <1>11, <2>1
  <2> QED BY <1>7, <1>10, <1>11, <1>12, <2>2 DEF BatchDiagnose, AbortWrites
<1>13. CASE BatchFail
  <2>1. PICK k \in FailPoints(Batch) : AbortWrites(Batch, k)
    BY <1>13 DEF BatchFail
  <2>2. k \in 0..Len(Batch)
    BY <1>11, FailPointsInBatch
  <2> QED BY <1>7, <1>10, <1>11, <1>13, <2>1, <2>2 DEF BatchFail, AbortWrites
<1>14. CASE BatchCommit
  <2>1. /\ queue' = AfterBatch /\ CommitTables(Batch) /\ cursor' = CursorsAfter(Batch)
        /\ UNCHANGED <<severed, dropped, rowMode>> /\ ~rowMode
    BY <1>14 DEF BatchCommit, BatchTurn, CommitWrites
  <2>2. \A i \in DOMAIN queue : queue[i].sid \notin Cut
    BY <1>6, <2>1 DEF CutSkipped
  <2>3. CutSkipped'
    <3>1. \A i \in DOMAIN queue' : queue'[i] \in EntriesOf(queue)
      BY <1>11, <2>1 DEF EntriesOf
    <3> QED BY <2>1, <2>2, <3>1 DEF CutSkipped, Cut, EntriesOf
  <2>4. RowsRegistered'
    BY <1>1, <2>1, CommitKeepsRegistered
  <2>5. rows' \subseteq rows \cup {r \in EntriesOf(queue) : r.sid \notin Cut}
    BY <1>11, <2>1, <2>2 DEF CommitTables, EntriesOf
  <2>6. present' \subseteq present \cup (SidsOf(queue) \ Cut)
    BY <1>11, <2>1, <2>2 DEF CommitTables, SidsOf
  <2>7. \A s \in Sessions : s \notin SidsOf(queue) => cursor'[s] = cursor[s]
    BY <1>11, <2>1 DEF CursorsAfter
  <2> QED BY <1>2, <1>3, <1>4, <1>5, <1>11, <2>1, <2>3, <2>4, <2>5, <2>6, <2>7, WritesKeepAccount
          DEF hostVars
<1>15. CASE RowFail
  <2>1. <<Head(queue)>> \in Seq(Event) /\ SidsOf(<<Head(queue)>>) \subseteq SidsOf(queue)
    BY <1>1, <1>15, HeadDrawn, HeadSid DEF RowFail, RowTurn, SidsOf
  <2>2. PICK k \in FailPoints(<<Head(queue)>>) : AbortWrites(<<Head(queue)>>, k)
    BY <1>15 DEF RowFail
  <2>3. k \in 0..Len(<<Head(queue)>>)
    BY <2>1, FailPointsInBatch
  <2> QED BY <1>7, <1>10, <1>15, <2>1, <2>2, <2>3 DEF RowFail, AbortWrites
<1>16. CASE RowSkip \/ RowCommit \/ RowAbsent \/ RowPoison
  <2> DEFINE h == Head(queue).sid
             b == <<Head(queue)>>
  <2>1. /\ queue # <<>> /\ queue' = Tail(queue) /\ rowMode /\ rowMode' = rowMode
        /\ drain = "running" /\ ~closed
    BY <1>16 DEF RowSkip, RowCommit, RowAbsent, RowPoison, RowTurn
  <2>2. /\ b \in Seq(Event) /\ SidsOf(b) = {h} /\ EntriesOf(b) = {Head(queue)} /\ Len(b) = 1
        /\ h \in Sessions /\ h \in SidsOf(queue) /\ Head(queue) \in EntriesOf(queue)
    BY <1>1, <2>1, HeadDrawn, HeadSid DEF SidsOf, EntriesOf
  <2>3. EntriesOf(queue') \subseteq EntriesOf(queue)
    BY <1>1, <2>1, HeadDrawn, DrawnEntries
  <2>4. CutSkipped'
    BY <2>1 DEF CutSkipped
  <2>5. CASE RowSkip
    <3>1. UNCHANGED <<rows, present, lastSeq, cursor, severed, dropped>>
      BY <2>5 DEF RowSkip, storeVars
    <3>2. RowsRegistered'
      BY <1>1, <3>1 DEF RowsRegistered
    <3> QED BY <1>2, <1>3, <1>4, <1>5, <2>3, <2>4, <3>1, <3>2, WritesKeepAccount DEF hostVars
  <2>6. CASE RowCommit
    <3>1. /\ CommitTables(b) /\ cursor' = CursorsAfter(b) /\ h \notin Cut
          /\ UNCHANGED <<severed, dropped>>
      BY <2>6 DEF RowCommit, CommitWrites
    <3>2. RowsRegistered'
      BY <1>1, <3>1, CommitKeepsRegistered
    <3>3. rows' \subseteq rows \cup {r \in EntriesOf(queue) : r.sid \notin Cut}
      BY <2>2, <3>1 DEF CommitTables
    <3>4. present' \subseteq present \cup (SidsOf(queue) \ Cut)
      BY <2>2, <3>1 DEF CommitTables
    <3>5. \A s \in Sessions : s \notin SidsOf(queue) => cursor'[s] = cursor[s]
      BY <2>2, <3>1 DEF CursorsAfter
    <3> HIDE DEF b, h
    <3> QED BY <1>2, <1>3, <1>4, <1>5, <2>3, <2>4, <3>1, <3>2, <3>3, <3>4, <3>5, WritesKeepAccount
            DEF hostVars
  <2>7. CASE RowAbsent
    <3>1. /\ AbortWrites(b, 1) /\ dropped' = dropped \cup {h} /\ severed' = severed
          /\ h \notin Cut /\ WriteFault(b) = "absent"
      BY <2>7 DEF RowAbsent
    <3>2. h \in gone
      <4> SUFFICES ASSUME h \notin gone PROVE FALSE
        OBVIOUS
      <4>1. Tracked(h) /\ ~broken /\ ~late
        BY <1>1, <2>1, <3>1 DEF Tracked
      <4> QED BY <1>1, <2>1, <2>2, <3>1, <4>1, HeadInOrder
    <3>3. UNCHANGED <<rows, present, lastSeq>> /\ RowsRegistered'
      BY <1>1, <3>1 DEF AbortWrites, RowsRegistered
    <3> HIDE DEF b, h
    <3>4. \A s \in Sessions : s \notin SidsOf(queue) => cursor'[s] = cursor[s]
      <4>1. 1 \in 0..Len(b) /\ SidsOf(b) \subseteq SidsOf(queue)
        BY <2>2
      <4> QED BY <1>10, <2>2, <3>1, <4>1
    <3> QED BY <1>2, <1>3, <1>4, <1>5, <2>2, <2>3, <2>4, <3>1, <3>2, <3>3, <3>4, WritesKeepAccount
            DEF hostVars
  <2>8. CASE RowPoison
    <3>1. AccountDropped(Head(queue)) /\ severed' = severed \cup {h} /\ dropped' = dropped
      BY <2>8 DEF RowPoison
    <3>2. UNCHANGED <<rows, present, lastSeq>> /\ RowsRegistered'
      BY <1>1, <3>1 DEF AccountDropped, RowsRegistered
    <3>3. \A s \in Sessions : s \notin SidsOf(queue) => cursor'[s] = cursor[s]
      BY <1>1, <2>2, <3>1 DEF AccountDropped, StoreTypeOK
    <3> HIDE DEF b, h
    <3> QED BY <1>2, <1>3, <1>4, <1>5, <2>2, <2>3, <2>4, <3>1, <3>2, <3>3, WritesKeepAccount
            DEF hostVars
  <2> QED BY <1>16, <2>5, <2>6, <2>7, <2>8
<1> QED BY <1>8, <1>9, <1>12, <1>13, <1>14, <1>15, <1>16 DEF Drain, DrainStep

-----------------------------------------------------------------------------
(* The account of each session after a call of drainSessionNow.            *)
LEMMA DrainNowAccounts ==
  ASSUME IInv, queue' \in Seq(Event), NEW s \in Sessions, NEW retiring \in BOOLEAN,
         DrainNowReturns(s, retiring) \/ DrainNowThrows(s), ~closed,
         UNCHANGED <<severed, gone, broken, late>>,
         NEW t \in Sessions, NEW l, l = log[t]
  PROVE  SoundFor(t, l)'
<1>1. /\ TypeOK /\ StoreTypeOK /\ queue \in Seq(Event) /\ RowsRegistered /\ ~late
      /\ l \in Seq(Event) /\ NumberedFor(t, l) /\ SoundFor(t, l)
  BY IInvFacts
<1>2. cursor \in [Sessions -> Nat \cup {-1, NoCursor}]
  BY <1>1 DEF StoreTypeOK
<1>3. ASSUME queue' = queue, UNCHANGED <<rows, lastSeq, dropped>>,
             CursorTrue(t) => CursorTrue(t)'
      PROVE  SoundFor(t, l)'
  <2>1. Tracked(t)' => Tracked(t) /\ CursorTrue(t)'
    BY <1>1, <1>3 DEF Tracked, Cut, SoundFor
  <2>2. Drawn(queue, queue', [i \in DOMAIN queue |-> i])
    BY <1>1, <1>3 DEF Drawn
  <2>3. \A i \in PositionsOf(queue, t) : \E k \in DOMAIN queue' : [j \in DOMAIN queue |-> j][k] = i
    BY <1>3 DEF PositionsOf
  <2> QED BY <1>1, <1>3, <2>1, <2>2, <2>3, ShrinkSound
<1>4. CursorTrue(s) => CursorFor(s) = lastSeq[s]
  BY <1>1, CursorForTrue
<1>5. CASE DrainNowSkip(s, retiring)
  <2>1. CursorTrue(t) => CursorTrue(t)'
    BY <1>2, <1>5 DEF DrainNowSkip, CursorBecomes, CursorTrue
  <2> QED BY <1>3, <1>5, <2>1 DEF DrainNowSkip
<1>6. CASE DrainNowThrows(s)
  <2>1. CursorTrue(t) => CursorTrue(t)'
    BY <1>2, <1>4, <1>6 DEF DrainNowThrows, CursorTrue
  <2> QED BY <1>3, <1>6, <2>1 DEF DrainNowThrows
<1>7. CASE DrainNowCommit(s, retiring) /\ ~broken
  <2>1. PICK b \in Mine(s) : CommitTables(b) /\ CursorBecomes(s, TopSeq(b, s), retiring)
    BY <1>7 DEF DrainNowCommit
  <2>2. PICK f : /\ b \in Seq(Event) /\ Drawn(queue, b, f)
                 /\ \A k \in DOMAIN b : f[k] \in PositionsOf(queue, s)
                 /\ \A p \in PositionsOf(queue, s) : \E k \in DOMAIN b : f[k] = p
    BY <1>1, MineDrawn
  <2>3. PICK g : /\ Drawn(queue, queue', g)
                 /\ \A k \in DOMAIN queue' : g[k] \in PositionsNotOf(queue, s)
                 /\ \A p \in PositionsNotOf(queue, s) : \E k \in DOMAIN queue' : g[k] = p
    BY <1>1, <1>7, OthersDrawn DEF DrainNowCommit
  <2>4. \A i \in DOMAIN queue : (\E k \in DOMAIN b : f[k] = i) \/ (\E k \in DOMAIN queue' : g[k] = i)
    BY <2>2, <2>3 DEF PositionsOf, PositionsNotOf
  <2>5. \A k \in DOMAIN b : b[k].sid = s
    BY <2>2 DEF Drawn, PositionsOf
  <2>6. \A k \in DOMAIN queue' : queue'[k].sid # s
    BY <2>3 DEF Drawn, PositionsNotOf
  <2>7. \A k \in DOMAIN b : b[k].sid \notin Cut
    BY <1>7, <2>5 DEF DrainNowCommit, NothingToDrain
  <2>8. SidsOf(b) = {s}
    BY <1>7, <2>2, <2>5 DEF DrainNowCommit, NothingToDrain, SidsOf, PositionsOf
  <2>9. cursor'[t] \in {NoCursor, IF t \in SidsOf(b) THEN TopSeq(b, t) ELSE cursor[t]}
    BY <1>2, <2>1, <2>8 DEF CursorBecomes
  <2>10. \A k \in DOMAIN b, m \in DOMAIN queue' : b[k].sid = queue'[m].sid => f[k] < g[m]
    BY <2>5, <2>6
  <2>11. dropped' = dropped
    BY <1>7 DEF DrainNowCommit
  <2> QED BY <1>1, <1>7, <2>1, <2>2, <2>3, <2>4, <2>7, <2>9, <2>10, <2>11, CommitSound
<1>8. CASE DrainNowAbsent(s, retiring)
  <2>1. PICK g : /\ Drawn(queue, queue', g)
                 /\ \A k \in DOMAIN queue' : g[k] \in PositionsNotOf(queue, s)
                 /\ \A p \in PositionsNotOf(queue, s) : \E k \in DOMAIN queue' : g[k] = p
    BY <1>1, <1>8, OthersDrawn DEF DrainNowAbsent
  <2>2. /\ CursorBecomes(s, CursorFor(s), retiring) /\ dropped' = dropped \cup {s}
        /\ UNCHANGED <<rows, present, lastSeq>>
    BY <1>8 DEF DrainNowAbsent
  <2>3. Tracked(t)' => Tracked(t) /\ t # s
    BY <2>2 DEF Tracked, Cut
  <2>4. Tracked(t)' => CursorTrue(t)'
    BY <1>1, <1>2, <2>2, <2>3 DEF CursorBecomes, CursorTrue, SoundFor
  <2>5. t # s => \A i \in PositionsOf(queue, t) : \E k \in DOMAIN queue' : g[k] = i
    BY <2>1 DEF PositionsOf, PositionsNotOf
  <2> QED BY <1>1, <2>1, <2>2, <2>3, <2>4, <2>5, ShrinkSound
<1> QED BY <1>5, <1>6, <1>7, <1>8 DEF DrainNowReturns

(* When the call returns, nothing is queued of a session that is not cut.  *)
LEMMA DrainNowEmpties ==
  ASSUME queue \in Seq(Event), NEW s \in Sessions, NEW retiring \in BOOLEAN,
         DrainNowReturns(s, retiring), severed' = severed
  PROVE  s \in Cut' \/ PositionsOf(queue', s) = {}
<1>1. CASE DrainNowSkip(s, retiring)
  BY <1>1 DEF DrainNowSkip, NothingToDrain, Cut
<1>2. CASE DrainNowCommit(s, retiring) \/ DrainNowAbsent(s, retiring)
  <2>1. queue' \in Others(s)
    BY <1>2 DEF DrainNowCommit, DrainNowAbsent
  <2>2. PICK g : /\ Drawn(queue, queue', g)
                 /\ \A k \in DOMAIN queue' : g[k] \in PositionsNotOf(queue, s)
    BY <2>1, OthersDrawn
  <2> QED BY <2>2 DEF Drawn, PositionsOf, PositionsNotOf
<1> QED BY <1>1, <1>2 DEF DrainNowReturns

(* The rest of the account after a call of drainSessionNow, given the logs *)
(* it leaves.                                                              *)
LEMMA DrainNowKeepsAccount ==
  ASSUME IInv, Shape', NEW s \in Sessions, NEW retiring \in BOOLEAN,
         DrainNowReturns(s, retiring) \/ DrainNowThrows(s), ~closed, closed' = closed,
         UNCHANGED <<severed, gone, broken, late, rowMode>>,
         Numbered', Accounted', att[s] # "unborn",
         registrations' \subseteq registrations \cup {s},
         s \notin registrations' \ registrations \/ s \in present' \/ s \in gone,
         \A t \in Sessions : att'[t] = "unborn" =>
            att[t] = "unborn" /\ deleting'[t] = deleting[t] /\ log'[t] = log[t],
         att'[s] # "unborn"
  PROVE  Account'
<1>1. /\ TypeOK /\ StoreTypeOK /\ queue \in Seq(Event) /\ RowsRegistered /\ ~late
      /\ log[s] \in Seq(Event) /\ NumberedFor(s, log[s]) /\ SoundFor(s, log[s])
  BY IInvFacts
<1>2. cursor \in [Sessions -> Nat \cup {-1, NoCursor}] /\ queue' \in Seq(Event)
  BY <1>1 DEF StoreTypeOK, Shape, TypeOK, QueueTypeOK
<1>3. CutSkipped /\ DeletedClean
  BY DEF IInv, Account
<1> DEFINE Goal == /\ RowsRegistered' /\ CutSkipped'
                   /\ EntriesOf(queue') \subseteq EntriesOf(queue)
                   /\ rows' \subseteq rows \cup {r \in EntriesOf(queue) : r.sid \notin Cut}
                   /\ present' \subseteq present \cup (SidsOf(queue) \ Cut)
                   /\ \A t \in Sessions : t \notin SidsOf(queue) => cursor'[t] \in {cursor[t], NoCursor}
                   /\ dropped' \subseteq dropped \cup (SidsOf(queue) \cap gone)
<1>4. ~NothingToDrain(s) => s \in SidsOf(queue) \ Cut
  BY DEF NothingToDrain, SidsOf, PositionsOf
<1>5. ASSUME queue' \in Others(s), dropped' \subseteq dropped \cup {s}
      PROVE  EntriesOf(queue') \subseteq EntriesOf(queue) /\ CutSkipped'
  <2>1. PICK g : /\ Drawn(queue, queue', g)
                 /\ \A k \in DOMAIN queue' : g[k] \in PositionsNotOf(queue, s)
    BY <1>1, <1>5, OthersDrawn
  <2>2. EntriesOf(queue') \subseteq EntriesOf(queue)
    BY <1>1, <2>1, DrawnEntries
  <2>3. \A k \in DOMAIN queue' : queue'[k].sid # s /\ queue'[k] = queue[g[k]] /\ g[k] \in DOMAIN queue
    BY <2>1 DEF Drawn, PositionsNotOf
  <2>4. CutSkipped'
    BY <1>3, <1>5, <2>3 DEF CutSkipped, Cut
  <2> QED BY <2>2, <2>4
<1>6. ASSUME DrainNowSkip(s, retiring) PROVE Goal
  BY <1>1, <1>2, <1>3, <1>6 DEF DrainNowSkip, CursorBecomes, RowsRegistered, CutSkipped, Cut
<1>7. ASSUME DrainNowThrows(s) PROVE Goal
  <2>1. \A t \in Sessions : t \notin SidsOf(queue) => cursor'[t] \in {cursor[t], NoCursor}
    BY <1>2, <1>4, <1>7 DEF DrainNowThrows
  <2> QED BY <1>1, <1>3, <1>7, <2>1 DEF DrainNowThrows, RowsRegistered, CutSkipped, Cut
<1>8. ASSUME DrainNowCommit(s, retiring) PROVE Goal
  <2>1. PICK b \in Mine(s) : CommitTables(b) /\ CursorBecomes(s, TopSeq(b, s), retiring)
    BY <1>8 DEF DrainNowCommit
  <2>2. s \in SidsOf(queue) \ Cut /\ dropped' = dropped /\ queue' \in Others(s)
    BY <1>4, <1>8 DEF DrainNowCommit
  <2>3. PICK f : /\ b \in Seq(Event) /\ Drawn(queue, b, f)
                 /\ \A k \in DOMAIN b : f[k] \in PositionsOf(queue, s)
    BY <1>1, MineDrawn
  <2>4. EntriesOf(b) \subseteq {r \in EntriesOf(queue) : r.sid = s} /\ SidsOf(b) \subseteq {s}
    BY <2>3 DEF Drawn, EntriesOf, PositionsOf, SidsOf
  <2>5. rows' = rows \cup EntriesOf(b) /\ present' = present \cup SidsOf(b)
    BY <2>1 DEF CommitTables
  <2>6. RowsRegistered'
    BY <1>1, <2>1, CommitKeepsRegistered
  <2>7. \A t \in Sessions : t \notin SidsOf(queue) => cursor'[t] = cursor[t]
    BY <1>2, <2>1, <2>2 DEF CursorBecomes
  <2> QED BY <1>5, <2>2, <2>4, <2>5, <2>6, <2>7
<1>9. ASSUME DrainNowAbsent(s, retiring) /\ ~broken PROVE Goal
  <2>1. PICK b \in Mine(s) : WriteFault(b) = "absent"
    BY <1>9 DEF DrainNowAbsent
  <2>2. /\ CursorBecomes(s, CursorFor(s), retiring) /\ dropped' = dropped \cup {s}
        /\ UNCHANGED <<rows, present, lastSeq>> /\ queue' \in Others(s)
        /\ s \in SidsOf(queue) \ Cut
    BY <1>4, <1>9 DEF DrainNowAbsent
  <2>3. s \in gone
    <3> SUFFICES ASSUME s \notin gone PROVE FALSE
      OBVIOUS
    <3>1. Tracked(s)
      BY <2>2 DEF Tracked
    <3> QED BY <1>1, <1>9, <2>1, <3>1, MineInOrder
  <2>4. RowsRegistered'
    BY <1>1, <2>2 DEF RowsRegistered
  <2>5. \A t \in Sessions : t \notin SidsOf(queue) => cursor'[t] = cursor[t]
    BY <1>2, <2>2 DEF CursorBecomes
  <2> QED BY <1>5, <2>2, <2>3, <2>4, <2>5
<1>10. Goal
  BY <1>6, <1>7, <1>8, <1>9 DEF DrainNowReturns
<1>11. s \in registrations' \ registrations => s \notin dropped' \/ s \in gone
  <2> SUFFICES ASSUME s \in registrations' \ registrations, s \in dropped', s \notin gone PROVE FALSE
    OBVIOUS
  <2>1. s \in dropped /\ s \in Cut
    BY <1>10 DEF Cut
  <2>2. s \notin present
    BY <1>3, <2>1 DEF DeletedClean
  <2> QED BY <1>10, <2>1, <2>2
<1> HIDE DEF Goal
<1> QED BY <1>2, <1>10, <1>11, WritesKeepAccount DEF Goal

-----------------------------------------------------------------------------
(* Calls that only move flags.                                             *)
LEMMA FlagCallsKeepAccount ==
  ASSUME IInv, NEW s \in Sessions, CreateSession(s) \/ DeleteFlushed(s) \/ DeleteFails(s)
  PROVE  Account'
<1>1. /\ \A t \in Sessions : deleting[t] # "no" => att[t] # "unborn"
      /\ att \in [Sessions -> AttStates] /\ deleting \in [Sessions -> FlushStates]
      /\ registrations \subseteq Sessions /\ closed \in BOOLEAN
  BY DEF IInv, Account, UnbornClean, Shape, TypeOK, HostTypeOK, QueueTypeOK
<1>2. CASE CreateSession(s)
  BY <1>1, <1>2, QuietKeepsAccount DEF CreateSession, queueVars
<1>3. CASE DeleteFlushed(s) \/ DeleteFails(s)
  BY <1>1, <1>3, QuietKeepsAccount DEF DeleteFlushed, DeleteFails, queueVars
<1> QED BY <1>2, <1>3

LEMMA CloseKeepsAccount ==
  ASSUME IInv, StartClose \/ CloseFlushed \/ FinishClose
  PROVE  Account'
<1>1. registrations \subseteq Sessions /\ closed \in BOOLEAN
  BY DEF IInv, Shape, TypeOK, HostTypeOK, QueueTypeOK
<1>2. CASE StartClose
  BY <1>1, <1>2, QuietKeepsAccount DEF StartClose
<1>3. CASE CloseFlushed
  BY <1>1, <1>3, QuietKeepsAccount DEF CloseFlushed, queueVars
<1>4. CASE FinishClose
  BY <1>1, <1>4, QuietKeepsAccount DEF FinishClose
<1> QED BY <1>2, <1>3, <1>4

(* Calls of drainSessionNow that leave the logs alone.                     *)
LEMMA DrainingCallsKeepAccount ==
  ASSUME IInv, Shape', NEW s \in Sessions,
         Retire(s) \/ LoadFails(s) \/ CheckpointBarrier(s) \/ StartDelete(s)
  PROVE  Account'
<1>1. /\ att \in [Sessions -> AttStates] /\ deleting \in [Sessions -> FlushStates]
      /\ registrations \subseteq Sessions
  BY DEF IInv, Shape, TypeOK, HostTypeOK
<1>2. queue' \in Seq(Event)
  BY DEF Shape, TypeOK, QueueTypeOK
<1>3. ASSUME NEW retiring \in BOOLEAN, DrainNowReturns(s, retiring) \/ DrainNowThrows(s), ~closed,
             UNCHANGED <<log, closed, severed, gone, broken, late, rowMode>>,
             att[s] # "unborn", registrations' \subseteq registrations,
             \A t \in Sessions : att'[t] = "unborn" => att[t] = "unborn" /\ deleting'[t] = deleting[t],
             att'[s] # "unborn"
      PROVE  Account'
  <2>1. Numbered'
    BY <1>3 DEF IInv, Account, Numbered
  <2>2. Accounted'
    <3> SUFFICES ASSUME NEW t \in Sessions, NEW l, l = log[t] PROVE SoundFor(t, log[t])'
      BY DEF Accounted
    <3> QED BY <1>2, <1>3, DrainNowAccounts, SoundForLog
  <2> QED BY <1>3, <2>1, <2>2, DrainNowKeepsAccount
<1>4. RetireEntries(s) => /\ DrainNowReturns(s, TRUE) \/ DrainNowThrows(s)
                          /\ registrations' \subseteq registrations
  BY DEF RetireEntries
<1>5. CASE Retire(s)
  <2>1. /\ RetireEntries(s) /\ ~closed /\ att[s] = "live" /\ att' = [att EXCEPT ![s] = "tail"]
        /\ UNCHANGED <<log, drainVars, severed, late, deleting, gone>>
    BY <1>5 DEF Retire, Callable
  <2> QED BY <1>1, <1>3, <1>4, <2>1 DEF drainVars
<1>6. CASE LoadFails(s)
  <2>1. /\ DrainNowReturns(s, FALSE) \/ DrainNowThrows(s)
        /\ ~closed /\ att[s] \in {"tail", "unloaded"}
        /\ UNCHANGED <<log, drainVars, severed, late, hostVars>>
    BY <1>6 DEF LoadFails, Callable
  <2> QED BY <1>1, <1>3, <2>1 DEF drainVars, hostVars
<1>7. CASE CheckpointBarrier(s)
  BY <1>1, <1>3, <1>7 DEF CheckpointBarrier, DrainSessionNow, Callable, hostVars
<1>8. CASE StartDelete(s)
  <2>1. /\ ~closed /\ att[s] # "unborn" /\ deleting' = [deleting EXCEPT ![s] = IF broken THEN "no" ELSE "flushing"]
        /\ UNCHANGED <<log, drain, rowMode, failures, broken, closed, severed, late, gone>>
    BY <1>8 DEF StartDelete, Callable
  <2>2. CASE att[s] = "live"
    <3>1. RetireEntries(s) /\ att' = [att EXCEPT ![s] = "tail"]
      BY <1>8, <2>2 DEF StartDelete
    <3> QED BY <1>1, <1>3, <1>4, <2>1, <3>1
  <2>3. CASE att[s] # "live"
    <3>1. UNCHANGED <<storeVars, queue, dropped, att, registrations>>
      BY <1>8, <2>3 DEF StartDelete
    <3> QED BY <1>1, <2>1, <3>1, QuietKeepsAccount
  <2> QED BY <2>2, <2>3
<1> QED BY <1>5, <1>6, <1>7, <1>8

(* What is read back of a session nobody else deleted is its log up to     *)
(* last_seq.                                                               *)
LEMMA ReadBack ==
  ASSUME NEW s \in Sessions, NEW l \in Seq(Event), NumberedFor(s, l), StoreTypeOK, BackedBy(s, l),
         ReadsPrefix
  PROVE  /\ StoredLen(s) = lastSeq[s] + 1
         /\ \A k \in DOMAIN Stored(s) : k \in DOMAIN l /\ Stored(s)[k] = l[k]
         /\ BackedBy(s, Stored(s))
<1> DEFINE R == {r \in rows : r.sid = s}
           n == lastSeq[s] + 1
           st == Stored(s)
           len == StoredLen(s)
<1>1. Len(l) \in Nat /\ DOMAIN l = 1..Len(l) /\ n \in Nat /\ n <= Len(l) /\ lastSeq[s] = n - 1
  BY DEF StoreTypeOK, BackedBy
<1>2. R = {l[k] : k \in {j \in DOMAIN l : j <= lastSeq[s] + 1}}
  BY DEF BackedBy
<1>3. \A r \in R : \E k \in 1..n : r = l[k] /\ r.seq = k - 1
  BY <1>1, <1>2 DEF NumberedFor
<1>4. \A k \in 1..n : l[k] \in R /\ l[k].seq = k - 1
  BY <1>1, <1>2 DEF NumberedFor
<1>5. len \in Nat /\ len \notin RowSeqs(s) /\ \A k \in 0..(len - 1) : k \in RowSeqs(s)
  BY BoundsAssumption DEF ReadsPrefix
<1>6. st \in Seq(Event) /\ Len(st) = len /\ \A k \in DOMAIN st : st[k] \in R /\ st[k].seq = k - 1
  BY DEF ReadsPrefix
<1> HIDE DEF R, st, len, n
<1>7. RowSeqs(s) = {r.seq : r \in R}
  BY DEF RowSeqs, R
<1>8. len = n
  <2>1. ~(len < n)
    <3> SUFFICES ASSUME len < n PROVE FALSE
      OBVIOUS
    <3>1. len + 1 \in 1..n /\ (len + 1) - 1 = len
      BY <1>1, <1>5
    <3>2. l[len + 1] \in R /\ l[len + 1].seq = len
      BY <1>4, <3>1
    <3> QED BY <1>5, <1>7, <3>2
  <2>2. ~(n < len)
    <3> SUFFICES ASSUME n < len PROVE FALSE
      OBVIOUS
    <3>1. n \in RowSeqs(s)
      BY <1>1, <1>5
    <3>2. PICK r \in R : r.seq = n
      BY <1>7, <3>1
    <3> QED BY <1>1, <1>3, <3>2
  <2> QED BY <1>1, <1>5, <2>1, <2>2
<1>9. ASSUME NEW k \in DOMAIN st PROVE k \in DOMAIN l /\ k \in 1..n /\ st[k] = l[k]
  <2>1. k \in 1..n
    BY <1>6, <1>8
  <2>2. PICK j \in 1..n : st[k] = l[j] /\ st[k].seq = j - 1
    BY <1>3, <1>6
  <2>3. j = k
    BY <1>1, <1>6, <2>1, <2>2
  <2> QED BY <1>1, <2>1, <2>2, <2>3
<1>10. DOMAIN st = 1..n
  BY <1>6, <1>8
<1>11. R = {st[k] : k \in {j \in DOMAIN st : j <= lastSeq[s] + 1}}
  <2>1. {j \in DOMAIN st : j <= lastSeq[s] + 1} = 1..n
    BY <1>1, <1>10
  <2>2. ASSUME NEW r \in R PROVE \E k \in 1..n : r = st[k]
    BY <1>3, <1>9, <1>10
  <2> QED BY <1>6, <1>10, <2>1, <2>2
<1>12. lastSeq[s] < Len(st)
  BY <1>1, <1>6, <1>8
<1> QED BY <1>8, <1>9, <1>11, <1>12 DEF BackedBy, R, st, len, n

ReadsBack ==
  \A s \in Sessions : \A l \in Seq(Event) :
    (\A k \in DOMAIN l : l[k].sid = s /\ l[k].seq = k - 1) /\ BackedBy(s, l) =>
      /\ StoredLen(s) = lastSeq[s] + 1
      /\ BackedBy(s, Stored(s))

LEMMA LoadReadsBack == StoreTypeOK /\ ReadsPrefix => ReadsBack
BY ReadBack DEF ReadsBack, NumberedFor

LEMMA LoadReadsBackAfter == StoreTypeOK' /\ ReadsPrefix' => ReadsBack'
BY LoadReadsBack, PTL

LEMMA LoadSessionKeepsAccount ==
  ASSUME IInv, Shape', NEW s \in Sessions, LoadSession(s)
  PROVE  Account'
<1>1. /\ queue \in Seq(Event) /\ log \in [Sessions -> Seq(Event)] /\ (late => closed)
      /\ att \in [Sessions -> AttStates]
  BY IInvFacts DEF IInv, Shape, TypeOK, HostTypeOK
<1>2. queue' \in Seq(Event) /\ StoreTypeOK' /\ BoundedRows'
  BY DEF Shape, TypeOK, QueueTypeOK, BoundedRows, StoreTypeOK, WithinBounds
<1>3. /\ ~closed /\ att[s] \in {"tail", "unloaded"} /\ DrainNowReturns(s, FALSE)
      /\ s \in present' /\ log' = [log EXCEPT ![s] = Stored(s)']
      /\ att' = [att EXCEPT ![s] = "live"] /\ registrations' = registrations \cup {s}
      /\ UNCHANGED <<drainVars, severed, late, deleting, gone>>
  BY DEF LoadSession, Callable
<1>4. ReadsPrefix' /\ ReadsBack'
  BY <1>2, StoredReadsPrefixAfter, LoadReadsBackAfter
<1>5. /\ Stored(s)' \in Seq(Event) /\ Len(Stored(s)') = StoredLen(s)'
      /\ \A k \in DOMAIN Stored(s)' : Stored(s)'[k].sid = s /\ Stored(s)'[k].seq = k - 1
  BY <1>4 DEF ReadsPrefix
<1>6. Numbered'
  <2> SUFFICES ASSUME NEW t \in Sessions, NEW k \in DOMAIN log'[t]
               PROVE  log'[t][k].sid = t /\ log'[t][k].seq = k - 1
    BY DEF Numbered
  <2>1. CASE t = s
    BY <1>1, <1>3, <1>5, <2>1
  <2>2. CASE t # s
    BY <1>1, <1>3, <2>2 DEF IInv, Account, Numbered
  <2> QED BY <2>1, <2>2
<1>7. ASSUME NEW t \in Sessions, NEW l, l = log[t] PROVE SoundFor(t, l)'
  BY <1>2, <1>3, <1>7, DrainNowAccounts DEF drainVars
<1>8. s \in Cut' \/ PositionsOf(queue', s) = {}
  BY <1>1, <1>3, DrainNowEmpties
<1>9. Accounted'
  <2> SUFFICES ASSUME NEW t \in Sessions, NEW l, l = log[t] PROVE SoundFor(t, log[t])'
    BY DEF Accounted
  <2>1. SoundFor(t, l)'
    BY <1>7
  <2>2. CASE t # s
    BY <1>1, <1>3, <2>1, <2>2, SoundForLog
  <2>3. CASE t = s
    <3>1. log'[s] = Stored(s)'
      BY <1>1, <1>3
    <3>2. l \in Seq(Event) /\ \A k \in DOMAIN l : l[k].sid = s /\ l[k].seq = k - 1
      BY <1>1, <2>3 DEF IInv, Account, Numbered
    <3>3. ASSUME s \notin gone'
          PROVE  StoredLen(s)' = lastSeq'[s] + 1 /\ BackedBy(s, Stored(s))'
      <4>1. BackedBy(s, l)'
        BY <2>1, <2>3, <3>3 DEF SoundFor
      <4> QED BY <1>4, <3>2, <4>1 DEF ReadsBack
    <3>4. BackedBy(s, Stored(s))' => BackedBy(s, log[s])'
      BY <3>1 DEF BackedBy
    <3>5. ASSUME Tracked(s)' PROVE PendingOf(s, log[s])' /\ CursorTrue(s)' /\ Covers(s, log[s])'
      <4>1. CursorTrue(s)'
        BY <2>1, <2>3, <3>5 DEF SoundFor
      <4>2. PositionsOf(queue', s) = {} /\ s \notin gone'
        BY <1>8, <3>5 DEF Tracked
      <4>3. \A k \in DOMAIN Stored(s)' : k <= lastSeq'[s] + 1
        BY <1>5, <3>3, <4>2
      <4>4. \A k \in DOMAIN log'[s] : ~(k > lastSeq'[s] + 1)
        BY <1>2, <1>5, <3>1, <4>3 DEF StoreTypeOK
      <4> QED BY <4>1, <4>2, <4>4 DEF PendingOf, Covers
    <3> QED BY <2>3, <3>3, <3>4, <3>5 DEF SoundFor
  <2> QED BY <2>2, <2>3
<1>10. \A t \in Sessions : att'[t] = "unborn" =>
          att[t] = "unborn" /\ deleting'[t] = deleting[t] /\ log'[t] = log[t]
  BY <1>1, <1>3
<1>11. att[s] # "unborn" /\ att'[s] # "unborn"
  BY <1>1, <1>3
<1> QED BY <1>3, <1>6, <1>9, <1>10, <1>11, DrainNowKeepsAccount DEF drainVars

-----------------------------------------------------------------------------
(* The log of one session grows by an event.                               *)
LEMMA AppendSound ==
  ASSUME TypeOK, NEW s \in Sessions, NEW l \in Seq(Event), NumberedFor(s, l), SoundFor(s, l),
         NEW e \in Event, e.sid = s, e.seq = Len(l),
         UNCHANGED <<storeVars, gone, severed, dropped, broken>>, late => late',
         queue' = Append(queue, e) \/ (queue' = queue /\ (Tracked(s) => broken \/ late'))
  PROVE  SoundFor(s, Append(l, e))' /\ NumberedFor(s, Append(l, e))
<1> DEFINE l1 == Append(l, e)
<1>1. /\ Len(l) \in Nat /\ l1 \in Seq(Event) /\ Len(l1) = Len(l) + 1 /\ l1[Len(l) + 1] = e
      /\ DOMAIN l = 1..Len(l) /\ DOMAIN l1 = 1..(Len(l) + 1) /\ \A k \in 1..Len(l) : l1[k] = l[k]
      /\ queue \in Seq(Event) /\ lastSeq[s] \in Nat \cup {-1}
  BY DEF TypeOK, StoreTypeOK, QueueTypeOK
<1>2. lastSeq' = lastSeq /\ rows' = rows /\ cursor' = cursor
  BY DEF storeVars
<1> HIDE DEF l1
<1>3. NumberedFor(s, l1)
  BY <1>1 DEF NumberedFor
<1>4. BackedBy(s, l) => BackedBy(s, l1)'
  <2> SUFFICES ASSUME BackedBy(s, l) PROVE BackedBy(s, l1)'
    OBVIOUS
  <2>1. lastSeq[s] + 1 <= Len(l) /\ lastSeq[s] < Len(l1)
    BY <1>1 DEF BackedBy
  <2>2. {j \in DOMAIN l1 : j <= lastSeq[s] + 1} = {j \in DOMAIN l : j <= lastSeq[s] + 1}
    BY <1>1, <2>1
  <2>3. \A k \in {j \in DOMAIN l : j <= lastSeq[s] + 1} : l1[k] = l[k]
    BY <1>1
  <2>4. {l1[k] : k \in {j \in DOMAIN l1 : j <= lastSeq[s] + 1}}
        = {l[k] : k \in {j \in DOMAIN l : j <= lastSeq[s] + 1}}
    BY <2>2, <2>3
  <2> QED BY <1>2, <2>1, <2>4 DEF BackedBy
<1>5. ASSUME Tracked(s), BackedBy(s, l), PendingOf(s, l) PROVE PendingOf(s, l1)'
  <2>1. \A i \in PositionsOf(queue, s) :
          /\ queue[i].seq \in (lastSeq[s] + 1)..(Len(l) - 1) /\ queue[i].seq \in Int
          /\ queue[i] = l1[queue[i].seq + 1]
    BY <1>1, <1>5 DEF PendingOf
  <2>2. CASE queue' = queue
    BY <1>1, <1>2, <1>5, <2>1, <2>2 DEF PendingOf
  <2>3. CASE queue' = Append(queue, e)
    <3>1. /\ Len(queue) \in Nat /\ DOMAIN queue = 1..Len(queue) /\ DOMAIN queue' = 1..(Len(queue) + 1)
          /\ \A i \in 1..Len(queue) : queue'[i] = queue[i]
          /\ queue'[Len(queue) + 1] = e
      BY <1>1, <2>3
    <3>2. \A i \in PositionsOf(queue', s) :
            \/ i \in PositionsOf(queue, s) /\ queue'[i] = queue[i] /\ i <= Len(queue) /\ i \in Nat
            \/ i = Len(queue) + 1 /\ queue'[i] = e
      BY <3>1 DEF PositionsOf
    <3>3. lastSeq[s] + 1 <= Len(l)
      BY <1>1, <1>5 DEF BackedBy
    <3>4. \A i \in PositionsOf(queue', s) :
            /\ queue'[i].seq \in (lastSeq[s] + 1)..(Len(l1) - 1)
            /\ queue'[i] = l1[queue'[i].seq + 1]
      BY <1>1, <2>1, <3>2, <3>3
    <3>5. \A i, j \in PositionsOf(queue', s) : i < j => queue'[i].seq < queue'[j].seq
      <4> TAKE i, j \in PositionsOf(queue', s)
      <4> HAVE i < j
      <4>1. i \in PositionsOf(queue, s) /\ queue'[i] = queue[i]
        BY <3>1, <3>2
      <4>2. CASE j \in PositionsOf(queue, s) /\ queue'[j] = queue[j]
        BY <1>5, <4>1, <4>2 DEF PendingOf
      <4>3. CASE queue'[j] = e
        BY <1>1, <2>1, <4>1, <4>3
      <4> QED BY <3>2, <4>2, <4>3
    <3> QED BY <1>2, <3>4, <3>5 DEF PendingOf
  <2> QED BY <2>2, <2>3
<1>6. ASSUME Tracked(s), ~broken, ~late', Covers(s, l) PROVE Covers(s, l1)'
  <2>1. queue' = Append(queue, e)
    BY <1>6
  <2>2. /\ Len(queue) \in Nat /\ DOMAIN queue = 1..Len(queue) /\ DOMAIN queue' = 1..(Len(queue) + 1)
        /\ \A i \in 1..Len(queue) : queue'[i] = queue[i]
        /\ queue'[Len(queue) + 1] = e
    BY <1>1, <2>1
  <2> SUFFICES ASSUME NEW k \in DOMAIN l1, k > lastSeq[s] + 1
               PROVE  \E i \in DOMAIN queue' : queue'[i] = l1[k]
    BY <1>2 DEF Covers, Queued
  <2>3. CASE k = Len(l) + 1
    <3>1. Len(queue) + 1 \in DOMAIN queue'
      BY <2>2
    <3> QED BY <1>1, <2>2, <2>3, <3>1
  <2>4. CASE k # Len(l) + 1
    <3>1. k \in DOMAIN l /\ l1[k] = l[k]
      BY <1>1, <2>4
    <3>2. PICK i \in DOMAIN queue : queue[i] = l[k]
      BY <1>6, <3>1 DEF Covers, Queued
    <3> QED BY <2>2, <3>1, <3>2
  <2> QED BY <2>3, <2>4
<1>7. Tracked(s)' => Tracked(s)
  BY DEF Tracked, Cut
<1>8. SoundFor(s, l1)'
  <2>1. s \notin gone' => BackedBy(s, l1)'
    BY <1>4 DEF SoundFor
  <2>2. Tracked(s)' => PendingOf(s, l1)'
    BY <1>5, <1>7 DEF SoundFor, Tracked
  <2>3. Tracked(s)' => CursorTrue(s)'
    BY <1>2, <1>7 DEF SoundFor, CursorTrue
  <2>4. Tracked(s)' /\ ~broken' /\ ~late' => Covers(s, l1)'
    BY <1>6, <1>7 DEF SoundFor
  <2> QED BY <2>1, <2>2, <2>3, <2>4 DEF SoundFor
<1> QED BY <1>3, <1>8 DEF l1

LEMMA AppendEventKeepsAccount ==
  ASSUME IInv, Shape', NEW s \in Sessions, NEW p \in Poisons, AppendEvent(s, p)
  PROVE  Account'
<1>1. /\ TypeOK /\ StoreTypeOK /\ queue \in Seq(Event) /\ RowsRegistered /\ (late => closed)
      /\ log \in [Sessions -> Seq(Event)] /\ Shape
      /\ CutSkipped /\ UnbornClean /\ DeletedClean /\ Numbered
  BY IInvFacts DEF IInv, Account
<1>2. /\ p \in BOOLEAN /\ Len(log[s]) < MaxEvents /\ UNCHANGED hostVars
      /\ att[s] \in {"live", "tail"}
  BY BoundsAssumption DEF AppendEvent
<1> DEFINE e == Appended(s, p, inc[s])
<1>3. e \in Event /\ e.sid = s /\ e.seq = Len(log[s])
  BY <1>1, <1>2, AppendedProps
<1> HIDE DEF e
<1>4. /\ UNCHANGED <<storeVars, gone, severed, dropped, broken, closed, rowMode>>
      /\ late => late'
      /\ log' = [log EXCEPT ![s] = Append(@, e)]
      /\ \/ queue' = Append(queue, e) /\ late' = late /\ s \notin Cut
         \/ queue' = queue /\ (Tracked(s) => broken \/ late')
  <2>1. CASE Enqueue(s, p, inc[s])
    BY <1>2, <2>1 DEF Enqueue, AppendToLog, hostVars, e
  <2>2. CASE EnqueueRefused(s, p, inc[s])
    BY <1>2, <2>2 DEF EnqueueRefused, AppendToLog, hostVars, e, Tracked
  <2> QED BY <2>1, <2>2 DEF AppendEvent
<1>5. ASSUME NEW t \in Sessions
      PROVE  SoundFor(t, log[t])' /\ \A k \in DOMAIN log'[t] : log'[t][k].sid = t /\ log'[t][k].seq = k - 1
  <2> SUFFICES ASSUME NEW l, l = log[t]
      PROVE  SoundFor(t, log[t])' /\ \A k \in DOMAIN log'[t] : log'[t][k].sid = t /\ log'[t][k].seq = k - 1
    OBVIOUS
  <2>1. l \in Seq(Event) /\ NumberedFor(t, l) /\ SoundFor(t, l)
    BY IInvFacts
  <2>2. CASE t = s
    <3>1. ASSUME NEW a, a = e PROVE SoundFor(s, Append(l, a))' /\ NumberedFor(s, Append(l, a))
      BY <1>1, <1>3, <1>4, <2>1, <2>2, <3>1, AppendSound
    <3>2. ASSUME NEW a, a = e PROVE SoundFor(s, log[s])' /\ NumberedFor(s, Append(l, a))
      <4>1. log'[s] = Append(l, a)
        BY <1>1, <1>4, <2>2, <3>2
      <4>2. SoundFor(s, Append(l, a))' /\ NumberedFor(s, Append(l, a))
        BY <3>1, <3>2
      <4> QED BY <4>1, <4>2, SoundForLog
    <3>3. log'[s] = Append(l, e)
      BY <1>1, <1>4, <2>2
    <3> QED BY <2>2, <3>2, <3>3 DEF NumberedFor
  <2>3. CASE t # s
    <3>1. log'[t] = l
      BY <1>1, <1>4, <2>3
    <3>2. rows' = rows /\ lastSeq' = lastSeq /\ cursor' = cursor
      BY <1>4 DEF storeVars
    <3>3. Tracked(t)' => Tracked(t) /\ CursorTrue(t)'
      BY <1>4, <2>1, <3>2 DEF Tracked, Cut, SoundFor, CursorTrue
    <3>4. SoundFor(t, log[t])'
      <4>1. CASE queue' = queue
        BY <1>4, <3>1, <3>2, <3>3, <4>1, SameSound
      <4>2. CASE queue' = Append(queue, e)
        <5>1. /\ Len(queue) \in Nat /\ DOMAIN queue = 1..Len(queue) /\ DOMAIN queue' = 1..(Len(queue) + 1)
              /\ \A i \in 1..Len(queue) : queue'[i] = queue[i]
              /\ queue'[Len(queue) + 1] = e
          BY <1>1, <1>3, <4>2
        <5>2. PositionsOf(queue', t) = PositionsOf(queue, t)
              /\ \A i \in PositionsOf(queue, t) : queue'[i] = queue[i]
          BY <1>3, <2>3, <5>1 DEF PositionsOf
        <5>3. \A x : Queued(x) => \E i \in DOMAIN queue' : queue'[i] = x
          BY <5>1 DEF Queued
        <5>4. BackedBy(t, l) => BackedBy(t, l)'
          BY <3>2 DEF BackedBy
        <5>5. PendingOf(t, l) => PendingOf(t, l)'
          BY <3>2, <5>2 DEF PendingOf
        <5>6. Covers(t, l) => Covers(t, l)'
          BY <3>2, <5>3 DEF Covers, Queued
        <5>7. SoundFor(t, l)'
          BY <1>4, <2>1, <3>3, <5>4, <5>5, <5>6 DEF SoundFor
        <5> QED BY <3>1, <5>7, SoundForLog
      <4> QED BY <1>4, <4>1, <4>2
    <3> QED BY <2>1, <3>1, <3>4 DEF NumberedFor
  <2> QED BY <2>2, <2>3
<1>6. Numbered' /\ Accounted'
  BY <1>5 DEF Numbered, Accounted
<1>7. RowsRegistered'
  BY <1>1, <1>4 DEF RowsRegistered, storeVars
<1>8. \A i \in DOMAIN queue' : (i \in DOMAIN queue /\ queue'[i] = queue[i])
                              \/ (queue'[i] = e /\ s \notin Cut)
  <2>1. CASE queue' = queue
    BY <2>1
  <2>2. CASE queue' = Append(queue, e) /\ s \notin Cut
    <3>1. /\ DOMAIN queue = 1..Len(queue) /\ DOMAIN queue' = 1..(Len(queue) + 1) /\ Len(queue) \in Nat
          /\ \A i \in 1..Len(queue) : queue'[i] = queue[i]
          /\ queue'[Len(queue) + 1] = e
      BY <1>1, <1>3, <2>2
    <3> QED BY <2>2, <3>1
  <2> QED BY <1>4, <2>1, <2>2
<1>9. CutSkipped'
  BY <1>1, <1>3, <1>4, <1>8 DEF CutSkipped, Cut
<1>10. UnbornClean'
  <2> SUFFICES ASSUME NEW t \in Sessions, att[t] = "unborn"
      PROVE  /\ log'[t] = <<>> /\ PositionsOf(queue', t) = {}
             /\ t \notin present' \cup Cut' \cup gone' \cup registrations'
             /\ {r \in rows' : r.sid = t} = {}
             /\ cursor'[t] = NoCursor /\ deleting'[t] = "no"
    BY <1>2 DEF UnbornClean, hostVars
  <2>1. t # s
    BY <1>2
  <2>2. PositionsOf(queue', t) = {}
    BY <1>1, <1>3, <1>8, <2>1 DEF UnbornClean, PositionsOf
  <2> QED BY <1>1, <1>2, <1>4, <2>1, <2>2 DEF UnbornClean, Cut, hostVars, storeVars
<1>11. DeletedClean'
  BY <1>1, <1>2, <1>4 DEF DeletedClean, hostVars, storeVars
<1> QED BY <1>6, <1>7, <1>9, <1>10, <1>11 DEF Account

-----------------------------------------------------------------------------
(* A new session whose first events are stored already.                    *)
LEMMA CreateSeededKeepsAccount ==
  ASSUME IInv, Shape', NEW s \in Sessions, NEW n \in 0..MaxEvents, CreateSeededSession(s, n)
  PROVE  Account'
<1>1. /\ TypeOK /\ StoreTypeOK /\ queue \in Seq(Event) /\ RowsRegistered
      /\ log \in [Sessions -> Seq(Event)] /\ att \in [Sessions -> AttStates]
      /\ CutSkipped /\ UnbornClean /\ DeletedClean /\ Numbered
  BY IInvFacts DEF IInv, Account, Shape, TypeOK, HostTypeOK
<1>2. /\ att[s] = "unborn" /\ log' = [log EXCEPT ![s] = Seed(s, n)]
      /\ att' = [att EXCEPT ![s] = "live"] /\ registrations' = registrations \cup {s}
      /\ UNCHANGED <<queue, drainVars, severed, dropped, late, deleting, gone>>
      /\ (n = 0 => RegisterSessionRow(s)) /\ (n # 0 => CommitWrites(Seed(s, n)))
  BY DEF CreateSeededSession
<1>3. /\ PositionsOf(queue, s) = {} /\ {r \in rows : r.sid = s} = {}
      /\ s \notin present \cup Cut \cup gone \cup registrations
      /\ cursor[s] = NoCursor /\ lastSeq[s] = -1
  BY <1>1, <1>2 DEF UnbornClean, RowsRegistered
<1> DEFINE b == Seed(s, n)
<1>4. /\ n \in Nat /\ b \in Seq(Event) /\ Len(b) = n /\ DOMAIN b = 1..n
      /\ \A k \in 1..n : b[k].sid = s /\ b[k].seq = k - 1
  BY SeedProps, BoundsAssumption
<1> HIDE DEF b
<1>5. /\ rows' = rows \cup EntriesOf(b) /\ present' = present \cup {s}
      /\ lastSeq'[s] = n - 1 /\ cursor'[s] \in {NoCursor, n - 1}
      /\ \A t \in Sessions \ {s} : lastSeq'[t] = lastSeq[t] /\ cursor'[t] = cursor[t]
  <2>1. CASE n = 0
    <3>1. EntriesOf(b) = {}
      BY <1>4, <2>1 DEF EntriesOf
    <3> QED BY <1>2, <1>3, <2>1, <3>1 DEF RegisterSessionRow
  <2>2. CASE n # 0
    <3>1. CommitTables(b) /\ cursor' = CursorsAfter(b)
      BY <1>2, <2>2 DEF CommitWrites, b
    <3>2. SidsOf(b) = {s}
      BY <1>4, <2>2 DEF SidsOf
    <3>3. TopSeq(b, s) = n - 1
      <4>1. PICK i \in DOMAIN b : /\ TopSeq(b, s) = b[i].seq
                                 /\ \A k \in DOMAIN b : b[k].sid = s => k <= i
        BY <1>4, <3>2, TopSeqProps
      <4>2. i = n
        BY <1>4, <2>2, <4>1
      <4> QED BY <1>4, <4>1, <4>2
    <3> QED BY <1>1, <1>3, <1>4, <2>2, <3>1, <3>2, <3>3 DEF CommitTables, CursorsAfter, StoreTypeOK
  <2> QED BY <2>1, <2>2
<1>6. log'[s] = b /\ \A t \in Sessions \ {s} : log'[t] = log[t]
  BY <1>1, <1>2 DEF b
<1>7. Numbered'
  <2> SUFFICES ASSUME NEW t \in Sessions, NEW k \in DOMAIN log'[t]
               PROVE  log'[t][k].sid = t /\ log'[t][k].seq = k - 1
    BY DEF Numbered
  <2>1. CASE t = s
    BY <1>4, <1>6, <2>1
  <2>2. CASE t # s
    BY <1>1, <1>6, <2>2 DEF Numbered
  <2> QED BY <2>1, <2>2
<1>8. {r \in rows' : r.sid = s} = EntriesOf(b)
      /\ \A t \in Sessions \ {s} : {r \in rows' : r.sid = t} = {r \in rows : r.sid = t}
  <2>1. \A e \in EntriesOf(b) : e.sid = s
    BY <1>4 DEF EntriesOf
  <2> QED BY <1>3, <1>5, <2>1
<1>9. Accounted'
  <2> SUFFICES ASSUME NEW t \in Sessions PROVE SoundFor(t, log[t])'
    BY DEF Accounted
  <2>1. CASE t # s
    <3>1. SoundFor(t, log[t])
      BY IInvFacts
    <3>2. Tracked(t)' => Tracked(t) /\ CursorTrue(t)'
      BY <1>2, <1>5, <2>1, <3>1 DEF Tracked, Cut, SoundFor, CursorTrue
    <3> QED BY <1>2, <1>5, <1>6, <1>8, <2>1, <3>2, SameSound DEF drainVars
  <2>2. CASE t = s
    <3>1. SoundFor(s, b)'
      <4>1. {j \in DOMAIN b : j <= lastSeq'[s] + 1} = DOMAIN b
        BY <1>4, <1>5
      <4>2. BackedBy(s, b)'
        BY <1>4, <1>5, <1>8, <4>1 DEF BackedBy, EntriesOf
      <4>3. PendingOf(s, b)'
        BY <1>2, <1>3 DEF PendingOf
      <4>4. Covers(s, b)'
        BY <1>4, <1>5 DEF Covers
      <4>5. CursorTrue(s)'
        BY <1>5 DEF CursorTrue
      <4> QED BY <4>2, <4>3, <4>4, <4>5 DEF SoundFor
    <3>2. ASSUME NEW l, l = b PROVE SoundFor(s, log[s])'
      <4>1. log'[s] = l
        BY <1>6, <3>2
      <4>2. SoundFor(s, l)'
        BY <3>1, <3>2 DEF SoundFor, BackedBy, PendingOf, Covers, b
      <4> QED BY <4>1, <4>2, SoundForLog
    <3> QED BY <2>2, <3>2
  <2> QED BY <2>1, <2>2
<1>10. RowsRegistered'
  BY <1>1, <1>5 DEF RowsRegistered
<1>11. CutSkipped'
  BY <1>1, <1>2 DEF CutSkipped, Cut, drainVars
<1>12. UnbornClean'
  <2> SUFFICES ASSUME NEW t \in Sessions, att'[t] = "unborn"
      PROVE  /\ log'[t] = <<>> /\ PositionsOf(queue', t) = {}
             /\ t \notin present' \cup Cut' \cup gone' \cup registrations'
             /\ {r \in rows' : r.sid = t} = {}
             /\ cursor'[t] = NoCursor /\ deleting'[t] = "no"
    BY DEF UnbornClean
  <2>1. t # s /\ att[t] = "unborn"
    BY <1>1, <1>2
  <2> QED BY <1>1, <1>2, <1>5, <1>6, <1>8, <2>1 DEF UnbornClean, Cut
<1>13. DeletedClean'
  <2> SUFFICES ASSUME NEW t \in dropped' \ gone', ~closed'
      PROVE  t \notin present' \cup registrations' /\ {r \in rows' : r.sid = t} = {}
    BY DEF DeletedClean
  <2>1. t \in dropped \ gone /\ ~closed /\ t # s /\ t \in Sessions
    BY <1>1, <1>2, <1>3 DEF Cut, drainVars, TypeOK, QueueTypeOK
  <2> QED BY <1>1, <1>2, <1>5, <1>8, <2>1 DEF DeletedClean
<1> QED BY <1>7, <1>9, <1>10, <1>11, <1>12, <1>13 DEF Account

(* The row is registered before the first event, or again.                 *)
LEMMA StageSessionTitleKeepsAccount ==
  ASSUME IInv, NEW s \in Sessions, StageSessionTitle(s)
  PROVE  Account'
<1>1. /\ s \in registrations /\ present' = present \cup {s} /\ ~closed
      /\ UNCHANGED <<rows, lastSeq, cursor, queueVars, hostVars>>
  BY DEF StageSessionTitle, RegisterSessionRow, Callable
<1>2. Numbered' /\ RowsRegistered' /\ CutSkipped'
  BY <1>1 DEF IInv, Account, Numbered, RowsRegistered, CutSkipped, Cut, queueVars
<1>3. Accounted'
  <2> SUFFICES ASSUME NEW t \in Sessions PROVE SoundFor(t, log[t])'
    BY DEF Accounted
  <2>1. Tracked(t)' => Tracked(t) /\ CursorTrue(t)'
    BY <1>1, IInvFacts DEF Tracked, Cut, SoundFor, CursorTrue, queueVars, hostVars
  <2> QED BY <1>1, <2>1, SameSound DEF queueVars, hostVars
<1>4. UnbornClean'
  BY <1>1 DEF IInv, Account, UnbornClean, Cut, PositionsOf, queueVars, hostVars
<1>5. DeletedClean'
  BY <1>1 DEF IInv, Account, DeletedClean, queueVars, hostVars
<1> QED BY <1>2, <1>3, <1>4, <1>5 DEF Account

(* The session is deleted here: nothing of it stays in the queue, and      *)
(* nothing in the tables unless the store was closed.                      *)
LEMMA FinishDeleteKeepsAccount ==
  ASSUME IInv, Shape', NEW s \in Sessions, FinishDelete(s)
  PROVE  Account'
<1>1. /\ TypeOK /\ StoreTypeOK /\ queue \in Seq(Event) /\ RowsRegistered
      /\ CutSkipped /\ UnbornClean /\ DeletedClean /\ Numbered
      /\ deleting \in [Sessions -> FlushStates]
  BY IInvFacts DEF IInv, Account, Shape, TypeOK, HostTypeOK
<1>2. /\ deleting[s] = "flushed" /\ queue' \in Others(s) /\ dropped' = dropped \cup {s}
      /\ deleting' = [deleting EXCEPT ![s] = "no"]
      /\ UNCHANGED <<log, drainVars, severed, late, att, gone>>
      /\ registrations' \subseteq registrations
      /\ (~closed => DeleteSessionRows(s) /\ s \notin registrations')
      /\ (closed => UNCHANGED storeVars)
  BY DEF FinishDelete, DropSession
<1>3. att[s] # "unborn"
  BY <1>1, <1>2 DEF UnbornClean
<1>4. /\ rows' \subseteq rows /\ present' \subseteq present
      /\ \A t \in Sessions \ {s} : /\ {r \in rows' : r.sid = t} = {r \in rows : r.sid = t}
                                   /\ lastSeq'[t] = lastSeq[t] /\ cursor'[t] = cursor[t]
  BY <1>1, <1>2 DEF DeleteSessionRows, DeleteTables, storeVars, StoreTypeOK
<1>5. \/ /\ {r \in rows' : r.sid = s} = {r \in rows : r.sid = s} /\ lastSeq'[s] = lastSeq[s]
         /\ (s \in present <=> s \in present')
      \/ {r \in rows' : r.sid = s} = {} /\ s \notin present' /\ lastSeq'[s] = -1
  <2>1. CASE closed
    BY <1>2, <2>1 DEF storeVars
  <2>2. CASE ~closed
    BY <1>1, <1>2, <2>2 DEF DeleteSessionRows, DeleteTables, StoreTypeOK
  <2> QED BY <2>1, <2>2
<1>6. PICK g : /\ Drawn(queue, queue', g)
               /\ \A k \in DOMAIN queue' : g[k] \in PositionsNotOf(queue, s)
               /\ \A p \in PositionsNotOf(queue, s) : \E k \in DOMAIN queue' : g[k] = p
  BY <1>1, <1>2, OthersDrawn
<1>7. queue' \in Seq(Event) /\ UNCHANGED <<broken, rowMode, closed>>
  BY <1>2 DEF drainVars, Shape, TypeOK, QueueTypeOK
<1>8. \A k \in DOMAIN queue' : queue'[k].sid # s /\ queue'[k] = queue[g[k]] /\ g[k] \in DOMAIN queue
  BY <1>6 DEF Drawn, PositionsNotOf
<1>9. Numbered'
  BY <1>1, <1>2 DEF Numbered
<1>10. Accounted'
  <2> SUFFICES ASSUME NEW t \in Sessions, NEW l, l = log[t] PROVE SoundFor(t, log[t])'
    BY DEF Accounted
  <2>1. l \in Seq(Event) /\ NumberedFor(t, l) /\ SoundFor(t, l) /\ log'[t] = l
    BY <1>2, IInvFacts
  <2>2. CASE t # s
    <3>1. Tracked(t)' => Tracked(t) /\ CursorTrue(t)'
      BY <1>2, <1>4, <2>1, <2>2 DEF Tracked, Cut, SoundFor, CursorTrue
    <3>2. \A i \in PositionsOf(queue, t) : \E k \in DOMAIN queue' : g[k] = i
      BY <1>6, <2>2 DEF PositionsOf, PositionsNotOf
    <3>3. SoundFor(t, l)'
      BY <1>1, <1>2, <1>4, <1>6, <1>7, <2>1, <2>2, <3>1, <3>2, ShrinkSound
    <3> QED BY <2>1, <3>3, SoundForLog
  <2>3. CASE t = s
    <3>1. ~Tracked(s)'
      BY <1>2 DEF Tracked, Cut
    <3>2. s \notin gone' => BackedBy(s, l)'
      <4> SUFFICES ASSUME s \notin gone PROVE BackedBy(s, l)'
        BY <1>2
      <4>1. BackedBy(s, l)
        BY <2>1, <2>3 DEF SoundFor
      <4>2. CASE {r \in rows' : r.sid = s} = {r \in rows : r.sid = s} /\ lastSeq'[s] = lastSeq[s]
        BY <4>1, <4>2 DEF BackedBy
      <4>3. CASE {r \in rows' : r.sid = s} = {} /\ lastSeq'[s] = -1
        <5>1. {j \in DOMAIN l : j <= lastSeq'[s] + 1} = {} /\ lastSeq'[s] < Len(l)
          BY <2>1, <4>3
        <5> QED BY <4>3, <5>1 DEF BackedBy
      <4> QED BY <1>5, <4>2, <4>3
    <3>3. SoundFor(t, l)'
      BY <2>3, <3>1, <3>2 DEF SoundFor
    <3> QED BY <2>1, <3>3, SoundForLog
  <2> QED BY <2>2, <2>3
<1>11. RowsRegistered'
  <2> SUFFICES ASSUME NEW t \in Sessions, t \notin present' PROVE lastSeq'[t] = -1
    BY DEF RowsRegistered
  <2>1. CASE t = s
    BY <1>1, <1>5, <2>1 DEF RowsRegistered
  <2>2. CASE t # s
    <3>1. t \notin present
      BY <1>2, <2>2 DEF DeleteSessionRows, DeleteTables, storeVars
    <3> QED BY <1>1, <1>4, <2>2, <3>1 DEF RowsRegistered
  <2> QED BY <2>1, <2>2
<1>12. CutSkipped'
  BY <1>1, <1>2, <1>7, <1>8 DEF CutSkipped, Cut
<1>13. UnbornClean'
  <2> SUFFICES ASSUME NEW t \in Sessions, att[t] = "unborn"
      PROVE  /\ log'[t] = <<>> /\ PositionsOf(queue', t) = {}
             /\ t \notin present' \cup Cut' \cup gone' \cup registrations'
             /\ {r \in rows' : r.sid = t} = {}
             /\ cursor'[t] = NoCursor /\ deleting'[t] = "no"
    BY <1>2 DEF UnbornClean
  <2>1. t # s
    BY <1>3
  <2>2. PositionsOf(queue', t) = {}
    BY <1>1, <1>8 DEF UnbornClean, PositionsOf
  <2> QED BY <1>1, <1>2, <1>4, <2>1, <2>2 DEF UnbornClean, Cut
<1>14. DeletedClean'
  <2> SUFFICES ASSUME NEW t \in dropped' \ gone', ~closed'
      PROVE  t \notin present' \cup registrations' /\ {r \in rows' : r.sid = t} = {}
    BY DEF DeletedClean
  <2>1. ~closed /\ DeleteSessionRows(s) /\ s \notin registrations'
    BY <1>2, <1>7
  <2>2. CASE t = s
    BY <2>1, <2>2 DEF DeleteSessionRows, DeleteTables
  <2>3. CASE t # s
    BY <1>1, <1>2, <1>4, <2>1, <2>3 DEF DeletedClean
  <2> QED BY <2>2, <2>3
<1> QED BY <1>9, <1>10, <1>11, <1>12, <1>13, <1>14 DEF Account

-----------------------------------------------------------------------------
(* Another process deletes a session: nothing is promised of it any more.  *)
LEMMA ForeignDeleteKeepsAccount ==
  ASSUME IInv, NEW s \in Sessions, ForeignDelete(s)
  PROVE  Account'
<1>1. /\ StoreTypeOK /\ queue \in Seq(Event) /\ RowsRegistered
      /\ CutSkipped /\ UnbornClean /\ DeletedClean /\ Numbered
  BY IInvFacts DEF IInv, Account
<1>2. /\ s \in present /\ gone' = gone \cup {s} /\ DeleteTables(s)
      /\ UNCHANGED <<cursor, queueVars, att, registrations, deleting>>
  BY DEF ForeignDelete
<1>3. /\ rows' \subseteq rows /\ present' = present \ {s} /\ lastSeq'[s] = -1
      /\ \A t \in Sessions \ {s} : /\ {r \in rows' : r.sid = t} = {r \in rows : r.sid = t}
                                   /\ lastSeq'[t] = lastSeq[t]
  BY <1>1, <1>2 DEF DeleteTables, StoreTypeOK
<1>4. att[s] # "unborn"
  BY <1>1, <1>2 DEF UnbornClean
<1>5. Numbered' /\ CutSkipped'
  BY <1>1, <1>2 DEF Numbered, CutSkipped, Cut, queueVars
<1>6. RowsRegistered'
  BY <1>1, <1>3 DEF RowsRegistered
<1>7. Accounted'
  <2> SUFFICES ASSUME NEW t \in Sessions PROVE SoundFor(t, log[t])'
    BY DEF Accounted
  <2>1. CASE t = s
    BY <1>2, <2>1 DEF SoundFor, Tracked
  <2>2. CASE t # s
    <3>1. SoundFor(t, log[t])
      BY IInvFacts
    <3>2. Tracked(t)' => Tracked(t) /\ CursorTrue(t)'
      BY <1>2, <1>3, <2>2, <3>1 DEF Tracked, Cut, SoundFor, CursorTrue, queueVars
    <3> QED BY <1>2, <1>3, <2>2, <3>2, SameSound DEF queueVars
  <2> QED BY <2>1, <2>2
<1>8. UnbornClean'
  <2> SUFFICES ASSUME NEW t \in Sessions, att[t] = "unborn"
      PROVE  /\ log'[t] = <<>> /\ PositionsOf(queue', t) = {}
             /\ t \notin present' \cup Cut' \cup gone' \cup registrations'
             /\ {r \in rows' : r.sid = t} = {}
             /\ cursor'[t] = NoCursor /\ deleting'[t] = "no"
    BY <1>2 DEF UnbornClean
  <2> QED BY <1>1, <1>2, <1>3, <1>4 DEF UnbornClean, Cut, queueVars
<1>9. DeletedClean'
  BY <1>1, <1>2, <1>3 DEF DeletedClean, queueVars
<1> QED BY <1>5, <1>6, <1>7, <1>8, <1>9 DEF Account

(* After a crash the logs are what the tables hold.                        *)
LEMMA CrashKeepsAccount ==
  ASSUME IInv, Crash
  PROVE  Account'
<1>1. /\ StoreTypeOK /\ RowsRegistered /\ UnbornClean /\ BoundedRows
      /\ \A s \in Sessions : log[s] \in Seq(Event) /\ NumberedFor(s, log[s]) /\ SoundFor(s, log[s])
  BY IInvFacts, ShapeBounds DEF IInv, Account
<1>2. /\ UNCHANGED <<rows, present, lastSeq, gone>> /\ cursor' = [s \in Sessions |-> NoCursor]
      /\ log' = [s \in Sessions |-> Stored(s)] /\ queue' = <<>>
      /\ severed' = {} /\ dropped' = {} /\ registrations' = {}
      /\ deleting' = [s \in Sessions |-> "no"]
      /\ att' = [s \in Sessions |-> IF att[s] = "unborn" THEN "unborn" ELSE "unloaded"]
  BY DEF Crash
<1>3. ReadsPrefix
  BY <1>1, StoredReadsPrefix
<1>4. \A s \in Sessions :
        /\ Stored(s) \in Seq(Event) /\ Len(Stored(s)) = StoredLen(s) /\ StoredLen(s) \in Nat
        /\ \A k \in DOMAIN Stored(s) : Stored(s)[k].sid = s /\ Stored(s)[k].seq = k - 1
        /\ \A k \in DOMAIN Stored(s) : Stored(s)[k] \in rows
  BY <1>3, BoundsAssumption DEF ReadsPrefix
<1>5. Numbered'
  BY <1>2, <1>4 DEF Numbered
<1>6. RowsRegistered' /\ CutSkipped' /\ DeletedClean'
  BY <1>1, <1>2 DEF RowsRegistered, CutSkipped, DeletedClean
<1>7. Accounted'
  <2> SUFFICES ASSUME NEW s \in Sessions, NEW l, l = Stored(s) PROVE SoundFor(s, log[s])'
    BY DEF Accounted
  <2>1. log'[s] = l
    BY <1>2
  <2>2. s \notin gone => StoredLen(s) = lastSeq[s] + 1 /\ BackedBy(s, l)
    <3> SUFFICES ASSUME s \notin gone PROVE StoredLen(s) = lastSeq[s] + 1 /\ BackedBy(s, l)
      OBVIOUS
    <3>1. BackedBy(s, log[s])
      BY <1>1 DEF SoundFor
    <3> QED BY <1>1, <1>3, <3>1, ReadBack
  <2>3. s \notin gone' => BackedBy(s, l)'
    BY <1>2, <2>2 DEF BackedBy
  <2>4. PendingOf(s, l)'
    BY <1>2 DEF PendingOf, PositionsOf
  <2>5. CursorTrue(s)'
    BY <1>2 DEF CursorTrue
  <2>6. Tracked(s)' => Covers(s, l)'
    <3> SUFFICES ASSUME s \notin gone PROVE Covers(s, l)'
      BY <1>2 DEF Tracked
    <3>1. \A k \in DOMAIN l : ~(k > lastSeq[s] + 1)
      BY <1>1, <1>4, <2>2 DEF StoreTypeOK
    <3> QED BY <1>2, <3>1 DEF Covers
  <2>7. SoundFor(s, l)'
    BY <2>3, <2>4, <2>5, <2>6 DEF SoundFor
  <2> QED BY <2>1, <2>7, SoundForLog
<1>8. UnbornClean'
  <2> SUFFICES ASSUME NEW s \in Sessions, att'[s] = "unborn"
      PROVE  /\ log'[s] = <<>> /\ PositionsOf(queue', s) = {}
             /\ s \notin present' \cup Cut' \cup gone' \cup registrations'
             /\ {r \in rows' : r.sid = s} = {}
             /\ cursor'[s] = NoCursor /\ deleting'[s] = "no"
    BY DEF UnbornClean
  <2>1. att[s] = "unborn"
    BY <1>2
  <2>2. {r \in rows : r.sid = s} = {}
    BY <1>1, <2>1 DEF UnbornClean
  <2>3. DOMAIN Stored(s) = {}
    BY <1>4, <2>2
  <2>4. log'[s] = <<>>
    BY <1>2, <1>4, <2>3
  <2> QED BY <1>1, <1>2, <2>1, <2>2, <2>4 DEF UnbornClean, Cut, PositionsOf
<1> QED BY <1>5, <1>6, <1>7, <1>8 DEF Account

-----------------------------------------------------------------------------
LEMMA InitAccount == Init => IInv
<1> SUFFICES ASSUME Init PROVE IInv
  OBVIOUS
<1>1. Shape
  BY InitShape
<1> USE DEF Init, StoreInit, QueueInit
<1>2. Numbered /\ RowsRegistered /\ CutSkipped /\ UnbornClean /\ DeletedClean
  BY DEF Numbered, RowsRegistered, CutSkipped, UnbornClean, DeletedClean, PositionsOf, Cut
<1>3. Accounted
  <2> SUFFICES ASSUME NEW s \in Sessions PROVE SoundFor(s, log[s])
    BY DEF Accounted
  <2>1. log[s] = <<>> /\ lastSeq[s] = -1 /\ rows = {} /\ queue = <<>> /\ cursor[s] = NoCursor
    OBVIOUS
  <2>2. BackedBy(s, <<>>)
    BY <2>1 DEF BackedBy
  <2>3. PendingOf(s, <<>>) /\ Covers(s, <<>>) /\ CursorTrue(s)
    BY <2>1 DEF PendingOf, Covers, CursorTrue, PositionsOf
  <2> QED BY <2>1, <2>2, <2>3 DEF SoundFor
<1> QED BY <1>1, <1>2, <1>3 DEF IInv, Account

LEMMA NextAccount == IInv /\ [Next]_vars => IInv'
<1> SUFFICES ASSUME IInv, [Next]_vars PROVE IInv'
  OBVIOUS
<1>1. Shape'
  BY NextShape DEF IInv
<1>2. CASE Drain
  BY <1>1, <1>2, DrainKeepsAccount DEF IInv
<1>3. CASE \E s \in Sessions : SessionStep(s)
  <2>1. PICK s \in Sessions : SessionStep(s)
    BY <1>3
  <2> QED BY <1>1, <2>1, FlagCallsKeepAccount, CreateSeededKeepsAccount, StageSessionTitleKeepsAccount,
             AppendEventKeepsAccount, DrainingCallsKeepAccount, LoadSessionKeepsAccount,
             FinishDeleteKeepsAccount, ForeignDeleteKeepsAccount DEF SessionStep, IInv
<1>4. CASE StartClose \/ CloseFlushed \/ FinishClose
  BY <1>1, <1>4, CloseKeepsAccount DEF IInv
<1>5. CASE Crash
  BY <1>1, <1>5, CrashKeepsAccount DEF IInv
<1>6. CASE UNCHANGED vars
  <2>1. UNCHANGED <<storeVars, queueVars, hostVars>> /\ registrations \subseteq Sessions
    BY <1>6 DEF vars, IInv, Shape, TypeOK, HostTypeOK
  <2>2. Account'
    BY <2>1, QuietKeepsAccount DEF queueVars, hostVars
  <2> QED BY <1>1, <2>2 DEF IInv
<1> QED BY <1>2, <1>3, <1>4, <1>5, <1>6 DEF Next

-----------------------------------------------------------------------------
(* What follows from the invariant.                                        *)

(* An event of an accounted log is stored, or it is queued. *)
LEMMA EventPlaced ==
  ASSUME StoreTypeOK, NEW s \in Sessions, NEW l \in Seq(Event), SoundFor(s, l),
         Tracked(s), ~broken, ~late, NEW k \in DOMAIN l
  PROVE  l[k] \in rows \/ Queued(l[k])
<1>1. BackedBy(s, l) /\ Covers(s, l)
  BY DEF SoundFor, Tracked
<1>2. CASE k <= lastSeq[s] + 1
  BY <1>1, <1>2 DEF BackedBy
<1>3. CASE k > lastSeq[s] + 1
  BY <1>1, <1>3 DEF Covers
<1>4. k \in Int /\ lastSeq[s] + 1 \in Int
  BY DEF StoreTypeOK
<1> QED BY <1>2, <1>3, <1>4

LEMMA PlacedEverywhere == IInv => NoSilentLoss
<1> SUFFICES ASSUME IInv, NEW s \in Sessions, Tracked(s), ~broken, ~late,
                    NEW k \in DOMAIN log[s]
             PROVE  log[s][k] \in rows \/ Queued(log[s][k])
  BY DEF NoSilentLoss
<1>1. StoreTypeOK /\ log[s] \in Seq(Event) /\ SoundFor(s, log[s])
  BY IInvFacts
<1> QED BY <1>1, EventPlaced

LEMMA RowsArePrefix == IInv => DurablePrefix
<1> SUFFICES ASSUME IInv, NEW s \in Sessions, s \notin gone
             PROVE  {r \in rows : r.sid = s} =
                    {log[s][k] : k \in {j \in DOMAIN log[s] : j <= lastSeq[s] + 1}}
  BY DEF DurablePrefix
<1>1. SoundFor(s, log[s])
  BY IInvFacts
<1> QED BY <1>1 DEF SoundFor, BackedBy

LEMMA QueueInOrder == IInv => OrderKept
<1> SUFFICES ASSUME IInv, NEW s \in Sessions, Tracked(s), ~broken, ~late, NEW b \in Mine(s)
             PROVE  WriteFault(b) \notin {"corrupt", "absent"}
  BY DEF OrderKept
<1>1. TypeOK /\ RowsRegistered /\ log[s] \in Seq(Event)
      /\ NumberedFor(s, log[s]) /\ SoundFor(s, log[s])
  BY IInvFacts
<1> QED BY <1>1, MineInOrder

LEMMA DeletedHaveNoRows == IInv => DeletedStaysDeleted
<1> SUFFICES ASSUME IInv, NEW s \in dropped \ gone, ~closed
             PROVE  s \notin present /\ RowSeqs(s) = {}
  BY DEF DeletedStaysDeleted
<1>1. s \notin present /\ {r \in rows : r.sid = s} = {}
  BY DEF IInv, Account, DeletedClean
<1> QED BY <1>1 DEF RowSeqs

(* A row of the head's session is behind the head, so the head violates a  *)
(* constraint only when it is poisonous.                                   *)
LEMMA ConstraintIsPoison ==
  ASSUME IInv, queue # <<>>, NEW s, s = Head(queue).sid, s \notin Cut, s \notin gone,
         WriteFault(<<Head(queue)>>) = "constraint"
  PROVE  Head(queue).poison
<1>1. /\ Head(queue) \in Event /\ <<Head(queue)>> \in Seq(Event) /\ Head(queue) = queue[1]
      /\ 1 \in DOMAIN queue
  BY HeadDrawn, IInvFacts
<1>2. s \in Sessions /\ Tracked(s)
  BY <1>1 DEF Event, Tracked
<1>3. /\ StoreTypeOK /\ log[s] \in Seq(Event) /\ NumberedFor(s, log[s])
      /\ BackedBy(s, log[s]) /\ PendingOf(s, log[s])
  BY <1>2, IInvFacts DEF SoundFor, Tracked
<1>4. queue[1].seq > lastSeq[s]
  <2>1. 1 \in PositionsOf(queue, s)
    BY <1>1 DEF PositionsOf
  <2>2. lastSeq[s] \in Int /\ Len(log[s]) \in Int
    BY <1>2, <1>3 DEF StoreTypeOK
  <2> QED BY <1>3, <2>1, <2>2 DEF PendingOf
<1>5. \A r \in rows : r.sid = s => r.seq <= lastSeq[s]
  <2> SUFFICES ASSUME NEW r \in rows, r.sid = s PROVE r.seq <= lastSeq[s]
    OBVIOUS
  <2>1. PICK k \in DOMAIN log[s] : k <= lastSeq[s] + 1 /\ r = log[s][k]
    BY <1>3 DEF BackedBy
  <2>2. r.seq = k - 1 /\ k \in Int /\ lastSeq[s] \in Int
    BY <1>2, <1>3, <2>1 DEF NumberedFor, StoreTypeOK
  <2> QED BY <2>1, <2>2
<1>6. TupleFault(<<Head(queue)>>, 1) = "constraint"
  <2>1. FirstFault(<<Head(queue)>>) \in 1..Len(<<Head(queue)>>)
        /\ TupleFault(<<Head(queue)>>, FirstFault(<<Head(queue)>>)) = "constraint"
    BY <1>1, WriteFaultIsFirst
  <2>2. FirstFault(<<Head(queue)>>) = 1
    BY <2>1
  <2> QED BY <2>1, <2>2
<1>7. Head(queue).poison \/ Head(queue).seq \in {r.seq : r \in {x \in rows : x.sid = s}}
  BY <1>6 DEF TupleFault
<1>8. Head(queue).seq \notin {r.seq : r \in {x \in rows : x.sid = s}}
  <2> SUFFICES ASSUME NEW r \in rows, r.sid = s, r.seq = Head(queue).seq PROVE FALSE
    OBVIOUS
  <2>1. r.seq <= lastSeq[s] /\ r.seq > lastSeq[s] /\ r.seq \in Int /\ lastSeq[s] \in Int
    BY <1>1, <1>2, <1>3, <1>4, <1>5 DEF StoreTypeOK, Event
  <2> QED BY <2>1
<1> QED BY <1>7, <1>8

(* The step of OnlyCulpritsCut. *)
CulpritsCut ==
  /\ \A s \in severed' \ severed :
       s \in gone \/ \E i \in DOMAIN queue : queue[i].sid = s /\ queue[i].poison
  /\ \A s \in dropped' \ dropped : s \in gone \/ deleting[s] = "flushed"

LEMMA DrainCutsCulprits ==
  ASSUME IInv, Drain
  PROVE  CulpritsCut
<1>1. CASE RowAbsent
  <2>1. /\ queue # <<>> /\ Head(queue).sid \notin Cut /\ ~closed /\ drain = "running"
        /\ WriteFault(<<Head(queue)>>) = "absent"
        /\ severed' = severed /\ dropped' = dropped \cup {Head(queue).sid}
    BY <1>1 DEF RowAbsent, RowTurn
  <2>2. Head(queue).sid \in gone
    <3> SUFFICES ASSUME Head(queue).sid \notin gone PROVE FALSE
      OBVIOUS
    <3> DEFINE s == Head(queue).sid
    <3>1. s \in Sessions /\ Tracked(s) /\ ~broken /\ ~late
      BY <2>1, HeadSid, IInvFacts DEF Tracked
    <3>2. TypeOK /\ RowsRegistered /\ log[s] \in Seq(Event)
          /\ NumberedFor(s, log[s]) /\ SoundFor(s, log[s])
      BY <3>1, IInvFacts
    <3> QED BY <2>1, <3>1, <3>2, HeadInOrder
  <2> QED BY <2>1, <2>2 DEF CulpritsCut
<1>2. CASE RowPoison
  <2>1. /\ queue # <<>> /\ Head(queue).sid \notin Cut
        /\ WriteFault(<<Head(queue)>>) = "constraint"
        /\ dropped' = dropped /\ severed' = severed \cup {Head(queue).sid}
    BY <1>2 DEF RowPoison, RowTurn
  <2>2. Head(queue).sid \notin gone => Head(queue).poison
    BY <2>1, ConstraintIsPoison
  <2>3. Head(queue) = queue[1] /\ 1 \in DOMAIN queue
    BY <2>1, HeadDrawn, IInvFacts
  <2> QED BY <2>1, <2>2, <2>3 DEF CulpritsCut
<1>3. CASE ~(RowAbsent \/ RowPoison)
  <2>1. severed' = severed /\ dropped' = dropped
    BY <1>3 DEF Drain, DrainStep, StartDrain, DrainEmpty, DrainAbandon, BatchCommit,
                BatchDiagnose, BatchFail, RowSkip, RowCommit, RowFail, WakeDrain, FinishDrain,
                BreakQueue
  <2> QED BY <2>1 DEF CulpritsCut
<1> QED BY <1>1, <1>2, <1>3

LEMMA DrainNowCutsCulprits ==
  ASSUME IInv, NEW s \in Sessions, NEW r,
         (DrainNowReturns(s, r) \/ DrainNowThrows(s)), Callable
  PROVE  \A t \in dropped' \ dropped : t \in gone
<1>1. CASE dropped' = dropped
  BY <1>1
<1>2. CASE DrainNowReturns(s, r) /\ DrainNowAbsent(s, r)
  <2>1. ~broken /\ ~late /\ s \notin Cut /\ dropped' = dropped \cup {s}
    BY <1>2, IInvFacts DEF DrainNowReturns, DrainNowAbsent, NothingToDrain, Callable
  <2>2. PICK b \in Mine(s) : WriteFault(b) = "absent"
    BY <1>2 DEF DrainNowAbsent
  <2>3. TypeOK /\ RowsRegistered /\ log[s] \in Seq(Event)
        /\ NumberedFor(s, log[s]) /\ SoundFor(s, log[s])
    BY IInvFacts
  <2>4. s \in gone
    BY <2>1, <2>2, <2>3, MineInOrder DEF Tracked
  <2> QED BY <2>1, <2>4
<1> QED BY <1>1, <1>2 DEF DrainNowReturns, DrainNowSkip, DrainNowCommit, DrainNowThrows

LEMMA NextCutsCulprits == IInv /\ [Next]_vars => CulpritsCut
<1> SUFFICES ASSUME IInv, [Next]_vars PROVE CulpritsCut
  OBVIOUS
<1>1. CASE Drain
  BY <1>1, DrainCutsCulprits
<1>2. CASE UNCHANGED <<severed, dropped>>
  BY <1>2 DEF CulpritsCut
<1>3. ASSUME NEW s \in Sessions, SessionStep(s) PROVE CulpritsCut
  <2>1. CASE \/ CreateSession(s) \/ \E n \in 0..MaxEvents : CreateSeededSession(s, n)
             \/ StageSessionTitle(s) \/ \E p \in Poisons : AppendEvent(s, p)
             \/ DeleteFlushed(s) \/ DeleteFails(s) \/ ForeignDelete(s)
    BY <1>2, <2>1 DEF CreateSession, CreateSeededSession, StageSessionTitle, AppendEvent,
                      Enqueue, EnqueueRefused, DeleteFlushed, DeleteFails, ForeignDelete, queueVars
  <2>2. CASE Retire(s) \/ LoadSession(s) \/ LoadFails(s) \/ CheckpointBarrier(s) \/ StartDelete(s)
    <3>1. severed' = severed /\ Callable
      BY <2>2 DEF Retire, LoadSession, LoadFails, CheckpointBarrier, DrainSessionNow, StartDelete
    <3>2. \/ \E r : DrainNowReturns(s, r) \/ DrainNowThrows(s)
          \/ dropped' = dropped
      BY <2>2 DEF Retire, RetireEntries, LoadSession, LoadFails, CheckpointBarrier,
                  DrainSessionNow, StartDelete
    <3> QED BY <3>1, <3>2, DrainNowCutsCulprits DEF CulpritsCut
  <2>3. CASE FinishDelete(s)
    BY <2>3 DEF FinishDelete, DropSession, CulpritsCut
  <2> QED BY <1>3, <2>1, <2>2, <2>3 DEF SessionStep
<1>4. CASE StartClose \/ CloseFlushed \/ FinishClose \/ UNCHANGED vars
  BY <1>2, <1>4 DEF StartClose, CloseFlushed, FinishClose, vars, queueVars
<1>5. CASE Crash
  BY <1>5 DEF Crash, CulpritsCut
<1> QED BY <1>1, <1>3, <1>4, <1>5 DEF Next

-----------------------------------------------------------------------------
(* The theorems.                                                           *)

(* In every reachable state every event of every session is accounted for: *)
(* the rows are the log up to last_seq, what comes after it is queued, once*)
(* and in order, and the cached cursors are right (write-behind.ts drain,  *)
(* drainSessionNow; store.ts writeTuple, cursorFor, retireCursor).         *)
THEOREM AccountInvariant == Spec => []IInv
BY InitAccount, NextAccount, PTL DEF Spec

(* No event that SessionLog.append took is lost unless the user was told   *)
(* or the session was cut off or deleted (enqueue, drain, retireEntries).  *)
THEOREM NothingIsLost == Spec => []NoSilentLoss
BY AccountInvariant, PlacedEverywhere, PTL

(* What the tables hold of a session is a prefix of its log that ends at   *)
(* last_seq (writeTuple, loadSession behind its read barrier).             *)
THEOREM StoredIsPrefix == Spec => []DurablePrefix
BY AccountInvariant, RowsArePrefix, PTL

(* The queue order is the transaction order: the continuity check and the  *)
(* row check of writeTuple have nothing to find in a session that only     *)
(* this process writes.                                                    *)
THEOREM OrderIsKept == Spec => []OrderKept
BY AccountInvariant, QueueInOrder, PTL

(* No late write, rename or reopening brings a session back that           *)
(* deleteSession removed (dropSession before the DELETEs).                 *)
THEOREM DeletedStays == Spec => []DeletedStaysDeleted
BY AccountInvariant, DeletedHaveNoRows, PTL

(* isolatePoison and the session-absent paths cut off the sessions that    *)
(* brought it about and no others, whatever batch they shared.             *)
THEOREM CulpritsOnly == Spec => OnlyCulpritsCut
<1>1. IInv /\ [Next]_vars => [CulpritsCut]_vars
  BY NextCutsCulprits
<1>2. Spec => [][CulpritsCut]_vars
  BY <1>1, AccountInvariant, PTL DEF Spec
<1> QED BY <1>2 DEF OnlyCulpritsCut, CulpritsCut

-----------------------------------------------------------------------------
(* The promises of DurableLog.                                             *)

(* What a reader gets of s is the log l up to last_seq.                    *)
ReadOf(s, l) ==
  /\ Stored(s) \in Seq(Event) /\ Len(Stored(s)) = lastSeq[s] + 1
  /\ lastSeq[s] \in Nat \cup {-1} /\ lastSeq[s] + 1 <= Len(l)
  /\ \A k \in 1..(lastSeq[s] + 1) : Stored(s)[k] = l[k]

(* Every numbered log the rows are backed by is read that way. *)
AllRead ==
  \A s \in Sessions : \A l \in Seq(Event) : NumberedFor(s, l) /\ BackedBy(s, l) => ReadOf(s, l)

(* The rows of a session are read back as its log up to last_seq. *)
LEMMA BackedIsRead == Shape => AllRead
<1> SUFFICES ASSUME Shape, NEW s \in Sessions, NEW l \in Seq(Event), NumberedFor(s, l), BackedBy(s, l)
             PROVE  ReadOf(s, l)
  BY DEF AllRead
<1>1. StoreTypeOK /\ ReadsPrefix
  BY ShapeBounds, StoredReadsPrefix
<1>2. /\ StoredLen(s) = lastSeq[s] + 1
      /\ \A k \in DOMAIN Stored(s) : k \in DOMAIN l /\ Stored(s)[k] = l[k]
      /\ lastSeq[s] < Len(l) /\ lastSeq[s] \in Nat \cup {-1} /\ Len(l) \in Nat
  BY <1>1, ReadBack DEF BackedBy, StoreTypeOK
<1>3. Stored(s) \in Seq(Event) /\ Len(Stored(s)) = StoredLen(s)
  BY <1>1 DEF ReadsPrefix
<1>4. DOMAIN Stored(s) = 1..(lastSeq[s] + 1)
  BY <1>2, <1>3
<1> QED BY <1>2, <1>3, <1>4 DEF ReadOf

(* The same after a step. *)
LEMMA BackedIsReadAfter == Shape' => AllRead'
BY BackedIsRead, PTL

(* Rows that stay give the same events to a reader. *)
LEMMA SameStored ==
  ASSUME NEW s \in Sessions, {r \in rows : r.sid = s}' = {r \in rows : r.sid = s}
  PROVE  Stored(s)' = Stored(s)
<1>1. RowSeqs(s)' = RowSeqs(s)
  BY DEF RowSeqs
<1>2. StoredLen(s)' = StoredLen(s)
  BY <1>1 DEF StoredLen
<1>3. ASSUME NEW k
      PROVE  (CHOOSE r \in rows : r.sid = s /\ r.seq = k - 1)'
             = (CHOOSE r \in rows : r.sid = s /\ r.seq = k - 1)
  <2>1. \A r : (r \in rows /\ r.sid = s /\ r.seq = k - 1)
               <=> (r \in rows' /\ r.sid = s /\ r.seq = k - 1)
    OBVIOUS
  <2> QED BY <2>1
<1> DEFINE P(k) == CHOOSE r \in rows : r.sid = s /\ r.seq = k - 1
<1>4. ASSUME NEW n, n = StoredLen(s)
      PROVE  [k \in 1..n |-> P(k)]' = [k \in 1..n |-> P(k)]
  <2>1. \A k : P(k)' = P(k)
    BY <1>3
  <2> HIDE DEF P
  <2> QED BY <2>1, Zenon
<1> QED BY <1>2, <1>4 DEF Stored

(* Without rows there is nothing to read. *)
LEMMA NothingStored ==
  ASSUME ReadsPrefix, NEW s \in Sessions, {r \in rows : r.sid = s} = {}
  PROVE  Stored(s) = <<>>
<1>1. /\ Stored(s) \in Seq(Event)
      /\ \A k \in DOMAIN Stored(s) : Stored(s)[k] \in rows /\ Stored(s)[k].sid = s
  BY DEF ReadsPrefix
<1>2. DOMAIN Stored(s) = {}
  BY <1>1
<1> QED BY <1>1, <1>2

(* Sessions without rows read as empty, as NothingStored says of one. *)
NoRowsNothingStored ==
  \A s \in Sessions : {r \in rows : r.sid = s} = {} => Stored(s) = <<>>

(* NothingStored for every session. *)
LEMMA NothingStoredEverywhere == ReadsPrefix => NoRowsNothingStored
BY NothingStored DEF NoRowsNothingStored

(* The same after a step. *)
LEMMA NothingStoredAfter == ReadsPrefix' => NoRowsNothingStored'
BY NothingStoredEverywhere, PTL

(* While the log stays, what is read of it grows with last_seq. *)
LEMMA GrowsWithLastSeq ==
  ASSUME NEW s, NEW l \in Seq(Event), ReadOf(s, l), ReadOf(s, l)', lastSeq[s] <= lastSeq'[s],
         s \in Cut => lastSeq'[s] = lastSeq[s]
  PROVE  /\ Durable!Prefix(Stored(s), Stored(s)') /\ Durable!Prefix(Stored(s)', l)
         /\ s \in Cut => Stored(s)' = Stored(s)
<1>1. /\ Stored(s) \in Seq(Event) /\ Len(Stored(s)) = lastSeq[s] + 1
      /\ lastSeq[s] \in Nat \cup {-1} /\ lastSeq[s] + 1 <= Len(l)
      /\ \A k \in 1..(lastSeq[s] + 1) : Stored(s)[k] = l[k]
  BY DEF ReadOf
<1>2. /\ Stored(s)' \in Seq(Event) /\ Len(Stored(s)') = lastSeq'[s] + 1
      /\ lastSeq'[s] \in Nat \cup {-1} /\ lastSeq'[s] + 1 <= Len(l)
      /\ \A k \in 1..(lastSeq'[s] + 1) : Stored(s)'[k] = l[k]
  BY DEF ReadOf
<1>3. Durable!Prefix(Stored(s), Stored(s)')
  BY <1>1, <1>2 DEF Durable!Prefix
<1>4. Durable!Prefix(Stored(s)', l)
  BY <1>1, <1>2 DEF Durable!Prefix
<1>5. ASSUME s \in Cut PROVE Stored(s)' = Stored(s)
  <2>1. Len(Stored(s)') = Len(Stored(s)) /\ \A k \in 1..Len(Stored(s)') : Stored(s)'[k] = Stored(s)[k]
    BY <1>1, <1>2, <1>5
  <2> QED BY <1>1, <1>2, <2>1
<1> QED BY <1>3, <1>4, <1>5

(* What the inductive invariant says of a reader of the database. *)
LEMMA IInvReads ==
  ASSUME IInv
  PROVE  /\ ReadsPrefix /\ Shape
         /\ \A s \in Sessions : Stored(s) \in Seq(Event)
         /\ \A s \in Sessions \ gone : ReadOf(s, log[s])
<1>1. Shape /\ AllRead /\ ReadsPrefix
  BY BackedIsRead, ShapeBounds, StoredReadsPrefix DEF IInv
<1>2. ASSUME NEW s \in Sessions \ gone PROVE ReadOf(s, log[s])
  <2>1. log[s] \in Seq(Event) /\ NumberedFor(s, log[s]) /\ SoundFor(s, log[s])
    BY IInvFacts
  <2> QED BY <1>1, <2>1 DEF SoundFor, AllRead
<1> QED BY <1>1, <1>2 DEF ReadsPrefix

(* The same as one formula. *)
ReadFacts ==
  /\ ReadsPrefix /\ Shape
  /\ \A s \in Sessions : Stored(s) \in Seq(Event)
  /\ \A s \in Sessions \ gone : ReadOf(s, log[s])

(* It follows from the invariant, ... *)
LEMMA IInvReadFacts == IInv => ReadFacts
BY IInvReads DEF ReadFacts

(* ... also after a step. *)
LEMMA IInvReadFactsAfter == IInv' => ReadFacts'
BY IInvReadFacts, PTL

(* A step of the write queue: last_seq moves forward, and not for sessions *)
(* that are cut off.                                                       *)
LEMMA PersistStep ==
  ASSUME IInv, IInv', UNCHANGED <<log, gone>>, Cut \subseteq Cut',
         \A s \in Sessions : lastSeq[s] <= lastSeq'[s] /\ (s \in Cut => lastSeq'[s] = lastSeq[s])
  PROVE  Durable!Persist
<1>1. ReadFacts /\ ReadFacts' /\ log \in [Sessions -> Seq(Event)]
  BY IInvReadFacts, IInvReadFactsAfter, IInvFacts
<1>2. ASSUME NEW s \in Sessions, s \notin gone
      PROVE  /\ Durable!Prefix(Stored(s), Stored(s)') /\ Durable!Prefix(Stored(s)', log[s])
             /\ s \in Cut => Stored(s)' = Stored(s)
  <2> SUFFICES ASSUME NEW l, l = log[s]
               PROVE  /\ Durable!Prefix(Stored(s), Stored(s)') /\ Durable!Prefix(Stored(s)', l)
                      /\ s \in Cut => Stored(s)' = Stored(s)
    OBVIOUS
  <2>1. l \in Seq(Event) /\ ReadOf(s, l)
    BY <1>1, <1>2 DEF ReadFacts
  <2>2. ReadOf(s, log[s])' /\ log'[s] = l
    BY <1>1, <1>2 DEF ReadFacts
  <2>3. ReadOf(s, l)'
    BY <2>2 DEF ReadOf
  <2> QED BY <2>1, <2>3, GrowsWithLastSeq
<1>3. \A s \in Sessions : Stored(s)' \in Seq(Event)
  BY <1>1 DEF ReadFacts
<1> QED BY <1>2, <1>3 DEF Durable!Persist, Durable!Kept, Durable!Grows

(* A transaction moves last_seq forward, and that of its sessions only. *)
LEMMA CommitGrows ==
  ASSUME StoreTypeOK, NEW b \in Seq(Event), CommitTables(b), NEW s \in Sessions
  PROVE  lastSeq[s] <= lastSeq'[s] /\ (s \notin SidsOf(b) => lastSeq'[s] = lastSeq[s])
<1>1. lastSeq[s] \in Nat \cup {-1}
  BY DEF StoreTypeOK
<1>2. CASE s \in SidsOf(b) /\ TopSeq(b, s) > lastSeq[s]
  <2>1. lastSeq'[s] = TopSeq(b, s) /\ TopSeq(b, s) \in Nat
    BY <1>2, TopSeqType DEF CommitTables
  <2> QED BY <1>1, <1>2, <2>1
<1>3. CASE ~(s \in SidsOf(b) /\ TopSeq(b, s) > lastSeq[s])
  <2>1. lastSeq'[s] = lastSeq[s]
    BY <1>3 DEF CommitTables
  <2> QED BY <1>1, <2>1
<1> QED BY <1>2, <1>3

(* The queued events of s are events of s. *)
LEMMA MineSids ==
  ASSUME queue \in Seq(Event), NEW s, NEW b \in Mine(s)
  PROVE  b \in Seq(Event) /\ \A i \in DOMAIN b : b[i].sid = s
<1>1. PICK f \in Picks(PositionsOf(queue, s)) : b = Pick(queue, f)
  BY DEF Mine
<1>2. PositionsOf(queue, s) \subseteq DOMAIN queue
  BY DEF PositionsOf
<1>3. /\ b \in Seq(Event) /\ f \in [DOMAIN b -> PositionsOf(queue, s)]
      /\ \A i \in DOMAIN b : b[i] = queue[f[i]]
  BY <1>1, <1>2, PickProps
<1> QED BY <1>3 DEF PositionsOf

(* No last_seq moves back, none of a session that is cut off moves. *)
SeqsAdvance == \A s \in Sessions : lastSeq[s] <= lastSeq'[s] /\ (s \in Cut => lastSeq'[s] = lastSeq[s])

(* It holds when no last_seq changes. *)
LEMMA SameSeqsAdvance == StoreTypeOK /\ lastSeq' = lastSeq => SeqsAdvance
BY DEF StoreTypeOK, SeqsAdvance

(* drainSessionNow, whatever its outcome. *)
LEMMA DrainNowAdvances ==
  ASSUME IInv, NEW s \in Sessions, NEW retiring,
         DrainNowReturns(s, retiring) \/ DrainNowThrows(s)
  PROVE  SeqsAdvance /\ dropped \subseteq dropped'
<1>1. StoreTypeOK /\ queue \in Seq(Event)
  BY IInvFacts
<1>2. CASE UNCHANGED lastSeq
  BY <1>1, <1>2, SameSeqsAdvance
     DEF DrainNowReturns, DrainNowThrows, DrainNowSkip, DrainNowCommit, DrainNowAbsent
<1>3. CASE DrainNowCommit(s, retiring)
  <2>1. PICK b \in Mine(s) : CommitTables(b)
    BY <1>3 DEF DrainNowCommit
  <2>2. s \notin Cut /\ dropped' = dropped
    BY <1>3 DEF DrainNowCommit, NothingToDrain
  <2>3. b \in Seq(Event) /\ \A i \in DOMAIN b : b[i].sid = s
    BY <1>1, MineSids
  <2>4. \A t \in Cut : t \notin SidsOf(b)
    BY <2>2, <2>3 DEF SidsOf
  <2> QED BY <1>1, <2>1, <2>2, <2>3, <2>4, CommitGrows DEF SeqsAdvance
<1>4. lastSeq' = lastSeq \/ DrainNowCommit(s, retiring)
  BY DEF DrainNowReturns, DrainNowThrows, DrainNowSkip, DrainNowAbsent
<1> QED BY <1>2, <1>3, <1>4

(* Every step of the drain. *)
LEMMA DrainAdvances ==
  ASSUME IInv, Drain
  PROVE  SeqsAdvance /\ severed \subseteq severed' /\ dropped \subseteq dropped'
<1>1. StoreTypeOK /\ queue \in Seq(Event) /\ CutSkipped
  BY IInvFacts DEF IInv, Account
<1>2. severed \subseteq severed' /\ dropped \subseteq dropped'
  BY DEF Drain, DrainStep, StartDrain, DrainEmpty, DrainAbandon, BatchCommit, BatchDiagnose,
         BatchFail, RowSkip, RowCommit, RowAbsent, RowPoison, RowFail, WakeDrain,
         FinishDrain, BreakQueue
<1>3. CASE BatchCommit
  <2>1. CommitTables(Batch) /\ ~rowMode
    BY <1>3 DEF BatchCommit, BatchTurn, CommitWrites
  <2>2. Batch \in Seq(Event) /\ Drawn(queue, Batch, [k \in DOMAIN Batch |-> k])
    BY <1>1, BatchDrawn
  <2>3. \A t \in Cut : t \notin SidsOf(Batch)
    BY <1>1, <2>1, <2>2 DEF CutSkipped, SidsOf, Drawn
  <2> QED BY <1>1, <1>2, <2>1, <2>2, <2>3, CommitGrows DEF SeqsAdvance
<1>4. CASE RowCommit
  <2>1. CommitTables(<<Head(queue)>>) /\ Head(queue).sid \notin Cut /\ queue # <<>>
    BY <1>4 DEF RowCommit, RowTurn, CommitWrites
  <2>2. <<Head(queue)>> \in Seq(Event)
    BY <1>1, <2>1, HeadDrawn
  <2>3. \A t \in Cut : t \notin SidsOf(<<Head(queue)>>)
    BY <2>1 DEF SidsOf
  <2> QED BY <1>1, <1>2, <2>1, <2>2, <2>3, CommitGrows DEF SeqsAdvance
<1>5. lastSeq' = lastSeq \/ BatchCommit \/ RowCommit
  BY DEF Drain, DrainStep, StartDrain, DrainEmpty, DrainAbandon, BatchDiagnose,
         BatchFail, RowSkip, RowAbsent, RowPoison, RowFail, WakeDrain,
         FinishDrain, BreakQueue, AbortWrites, AccountDropped, storeVars
<1> QED BY <1>1, <1>2, <1>3, <1>4, <1>5, SameSeqsAdvance

(* A step that leaves rows, logs and the histories alone is no step of     *)
(* DurableLog.                                                             *)
LEMMA SameRowsStutter ==
  ASSUME UNCHANGED <<rows, log, severed, dropped, gone>>
  PROVE  UNCHANGED Durable!vars
<1>1. \A s \in Sessions : Stored(s)' = Stored(s)
  BY SameStored
<1>2. Cut' = Cut
  BY DEF Cut
<1> QED BY <1>1, <1>2 DEF Durable!vars

(* createSeededSession: what it writes is the whole log. *)
LEMMA CreateSeededRefines ==
  ASSUME IInv, IInv', NEW s \in Sessions, NEW n \in 0..MaxEvents, CreateSeededSession(s, n)
  PROVE  Durable!Create(s)
<1> DEFINE e == Seed(s, n)
<1>1. /\ e \in Seq(Event) /\ Len(e) = n /\ n \in Nat
      /\ \A k \in DOMAIN e : e[k].sid = s /\ e[k].seq = k - 1
  <2>1. n \in Nat
    BY BoundsAssumption
  <2>2. /\ e \in Seq(Event) /\ Len(e) = n
        /\ \A k \in DOMAIN e : e[k].sid = s /\ e[k].seq = k - 1
    BY SeedProps
  <2> QED BY <2>1, <2>2
<1>2. /\ att[s] = "unborn" /\ log' = [log EXCEPT ![s] = e]
      /\ UNCHANGED <<severed, dropped, gone>>
      /\ IF n = 0 THEN RegisterSessionRow(s) ELSE CommitTables(e)
  BY DEF CreateSeededSession, CommitWrites
<1> HIDE DEF e
<1>3. /\ log[s] = <<>> /\ s \notin Cut \cup gone /\ {r \in rows : r.sid = s} = {}
      /\ s \notin present
  BY <1>2 DEF IInv, Account, UnbornClean
<1>4. ReadFacts /\ ReadFacts' /\ log \in [Sessions -> Seq(Event)] /\ StoreTypeOK
  BY IInvReadFacts, IInvReadFactsAfter, IInvFacts
<1>5. Stored(s) = <<>>
  BY <1>3, <1>4, NothingStored DEF ReadFacts
<1>6. lastSeq[s] = -1
  BY <1>3 DEF IInv, Account, RowsRegistered
<1>7. lastSeq'[s] = n - 1
  <2>1. CASE n = 0
    BY <1>2, <1>6, <2>1 DEF RegisterSessionRow
  <2>2. CASE n # 0
    <3>1. n \in DOMAIN e /\ DOMAIN e = 1..n
      BY <1>1, <2>2
    <3>2. s \in SidsOf(e)
      BY <1>1, <3>1 DEF SidsOf
    <3>3. PICK i \in DOMAIN e : TopSeq(e, s) = e[i].seq /\ \A k \in DOMAIN e : e[k].sid = s => k <= i
      BY <1>1, <3>2, TopSeqProps
    <3>4. i = n /\ TopSeq(e, s) = n - 1
      BY <1>1, <3>1, <3>3
    <3>5. lastSeq'[s] = TopSeq(e, s)
      BY <1>1, <1>2, <1>6, <2>2, <3>2, <3>4 DEF CommitTables
    <3> QED BY <3>4, <3>5
  <2> QED BY <2>1, <2>2
<1>8. Stored(s)' = e
  <2>1. log'[s] = e /\ ReadOf(s, log[s])'
    BY <1>2, <1>3, <1>4 DEF ReadFacts
  <2>2. ReadOf(s, e)'
    BY <2>1 DEF ReadOf
  <2>3. /\ Stored(s)' \in Seq(Event) /\ Len(Stored(s)') = n
        /\ \A k \in 1..n : Stored(s)'[k] = e[k]
    BY <1>1, <1>7, <2>2 DEF ReadOf
  <2> QED BY <1>1, <2>3
<1>9. ASSUME NEW t \in Sessions, t # s PROVE Stored(t)' = Stored(t)
  <2>1. rows' = rows \/ rows' = rows \cup EntriesOf(e)
    BY <1>2 DEF RegisterSessionRow, CommitTables
  <2>2. \A r \in EntriesOf(e) : r.sid # t
    BY <1>1, <1>9 DEF EntriesOf
  <2>3. {r \in rows : r.sid = t}' = {r \in rows : r.sid = t}
    BY <2>1, <2>2
  <2> QED BY <2>3, SameStored
<1>10. Cut' = Cut
  BY <1>2 DEF Cut
<1>11. [t \in Sessions |-> Stored(t)]' = [[t \in Sessions |-> Stored(t)] EXCEPT ![s] = log'[s]]
  BY <1>2, <1>4, <1>8, <1>9
<1>12. log' \in [Sessions -> Seq(Event)] /\ \A t \in Sessions \ {s} : log'[t] = log[t]
  BY <1>1, <1>2, <1>4
<1> QED BY <1>2, <1>3, <1>5, <1>10, <1>11, <1>12 DEF Durable!Create, Durable!OnlyLog

(* SessionLog.append, queued or refused: the log has one event more. *)
LEMMA AppendRefines ==
  ASSUME IInv, NEW s \in Sessions, NEW p \in Poisons, AppendEvent(s, p)
  PROVE  Durable!Issue(s)
<1>1. /\ Shape /\ log \in [Sessions -> Seq(Event)]
      /\ p \in BOOLEAN /\ Len(log[s]) < MaxEvents
  BY IInvFacts, BoundsAssumption DEF AppendEvent, IInv
<1> DEFINE e == Appended(s, p, inc[s])
<1>2. /\ e \in Event
      /\ UNCHANGED <<rows, severed, dropped, gone>>
      /\ log' = [log EXCEPT ![s] = Append(@, e)]
  BY <1>1, AppendedProps
     DEF AppendEvent, Enqueue, EnqueueRefused, AppendToLog, hostVars, storeVars
<1> HIDE DEF e
<1>3. [t \in Sessions |-> Stored(t)]' = [t \in Sessions |-> Stored(t)]
  BY <1>2, SameStored
<1>4. Cut' = Cut
  BY <1>2 DEF Cut
<1>5. log[s] \in Seq(Event) /\ log'[s] = Append(log[s], e)
  BY <1>1, <1>2
<1>6. Durable!Prefix(log[s], log'[s]) /\ Len(log'[s]) = Len(log[s]) + 1
  BY <1>2, <1>5 DEF Durable!Prefix
<1>7. log' \in [Sessions -> Seq(Event)] /\ \A t \in Sessions \ {s} : log'[t] = log[t]
  BY <1>1, <1>2
<1> QED BY <1>2, <1>3, <1>4, <1>6, <1>7 DEF Durable!Issue, Durable!OnlyLog

(* Calls that only drain the events of a session. *)
LEMMA DrainingCallsRefine ==
  ASSUME IInv, IInv', NEW s \in Sessions,
         Retire(s) \/ LoadFails(s) \/ CheckpointBarrier(s) \/ StartDelete(s)
  PROVE  Durable!Persist
<1>1. StoreTypeOK
  BY IInvFacts
<1>2. UNCHANGED <<log, gone, severed>>
  BY DEF Retire, LoadFails, CheckpointBarrier, StartDelete, DrainSessionNow, hostVars
<1>3. \/ \E r \in BOOLEAN : DrainNowReturns(s, r) \/ DrainNowThrows(s)
      \/ UNCHANGED <<storeVars, dropped>>
  BY DEF Retire, LoadFails, CheckpointBarrier, StartDelete, DrainSessionNow, RetireEntries
<1>4. SeqsAdvance /\ dropped \subseteq dropped'
  BY <1>1, <1>3, DrainNowAdvances, SameSeqsAdvance DEF storeVars
<1>5. Cut \subseteq Cut'
  BY <1>2, <1>4 DEF Cut
<1> QED BY <1>2, <1>4, <1>5, PersistStep DEF SeqsAdvance

(* The background drain. *)
LEMMA DrainRefines ==
  ASSUME IInv, IInv', Drain
  PROVE  Durable!Persist
<1>1. UNCHANGED <<log, gone>>
  BY DEF Drain, DrainStep, StartDrain, DrainEmpty, DrainAbandon, BatchCommit, BatchDiagnose,
         BatchFail, RowSkip, RowCommit, RowAbsent, RowPoison, RowFail, WakeDrain,
         FinishDrain, BreakQueue, hostVars
<1>2. SeqsAdvance /\ severed \subseteq severed' /\ dropped \subseteq dropped'
  BY DrainAdvances
<1>3. Cut \subseteq Cut'
  BY <1>2 DEF Cut
<1> QED BY <1>1, <1>2, <1>3, PersistStep DEF SeqsAdvance

(* loadSession: the read barrier makes the log that is read complete. *)
LEMMA LoadRefines ==
  ASSUME IInv, IInv', NEW s \in Sessions, LoadSession(s)
  PROVE  Durable!Reopen(s)
<1>1. /\ queue \in Seq(Event) /\ log \in [Sessions -> Seq(Event)] /\ (late => closed)
      /\ log[s] \in Seq(Event) /\ NumberedFor(s, log[s]) /\ StoreTypeOK
  BY IInvFacts
<1>2. queue' \in Seq(Event) /\ Shape' /\ AllRead'
  BY BackedIsReadAfter DEF IInv, Shape, TypeOK, QueueTypeOK
<1>3. /\ ~closed /\ DrainNowReturns(s, FALSE) /\ ~broken
      /\ s \in present' /\ log' = [log EXCEPT ![s] = Stored(s)']
      /\ UNCHANGED <<drainVars, severed, late, gone>>
  BY DEF LoadSession, Callable, DrainNowReturns
<1>4. UNCHANGED <<broken, closed>>
  BY <1>3 DEF drainVars
<1>5. SeqsAdvance
  BY <1>3, DrainNowAdvances
<1>6. ReadFacts /\ ReadFacts'
  BY IInvReadFacts, IInvReadFactsAfter
(* The session has a row, so the drain does not find it deleted. *)
<1>7. dropped' = dropped
  <2>1. CASE DrainNowAbsent(s, FALSE)
    <3>1. s \in present
      BY <1>3, <2>1 DEF DrainNowAbsent
    <3>2. PICK b \in Mine(s) : WriteFault(b) = "absent"
      BY <2>1 DEF DrainNowAbsent
    <3>3. b \in Seq(Event) /\ \A i \in DOMAIN b : b[i].sid = s
      BY <1>1, MineSids
    <3>4. PICK i \in DOMAIN b : TupleFault(b, i) = "absent"
      BY <3>2, <3>3, WriteFaultIsFirst
    <3>5. TupleFault(b, i) # "absent"
      BY <3>1, <3>3 DEF TupleFault
    <3> QED BY <3>4, <3>5
  <2> QED BY <1>3, <2>1 DEF DrainNowReturns, DrainNowSkip, DrainNowCommit
<1>8. Cut' = Cut
  BY <1>3, <1>7 DEF Cut
<1>9. ASSUME NEW l, l = log[s] PROVE SoundFor(s, l)'
  BY <1>2, <1>3, <1>4, <1>9, DrainNowAccounts
<1>10. ASSUME NEW t \in Sessions, t \notin gone, NEW l, l = log[t] PROVE ReadOf(t, l) /\ ReadOf(t, l)'
  <2>1. ReadOf(t, l)
    BY <1>6, <1>10 DEF ReadFacts
  <2>2. CASE t # s
    <3>1. log'[t] = l /\ ReadOf(t, log[t])'
      BY <1>1, <1>3, <1>6, <1>10, <2>2 DEF ReadFacts
    <3> QED BY <2>1, <3>1 DEF ReadOf
  <2>3. CASE t = s
    <3>1. BackedBy(s, l)' /\ l \in Seq(Event) /\ NumberedFor(s, l)
      BY <1>1, <1>3, <1>9, <1>10, <2>3 DEF SoundFor
    <3> QED BY <1>2, <2>1, <2>3, <3>1 DEF AllRead
  <2> QED BY <2>2, <2>3
<1>11. ASSUME NEW t \in Sessions, t \notin gone
       PROVE  /\ Durable!Prefix(Stored(t), Stored(t)') /\ Durable!Prefix(Stored(t)', log[t])
              /\ t \in Cut => Stored(t)' = Stored(t)
  <2> SUFFICES ASSUME NEW l, l = log[t]
               PROVE  /\ Durable!Prefix(Stored(t), Stored(t)') /\ Durable!Prefix(Stored(t)', l)
                      /\ t \in Cut => Stored(t)' = Stored(t)
    OBVIOUS
  <2>1. ReadOf(t, l) /\ ReadOf(t, l)' /\ l \in Seq(Event)
    BY <1>1, <1>10, <1>11
  <2> QED BY <1>5, <2>1, GrowsWithLastSeq DEF SeqsAdvance
(* Behind the read barrier nothing of s is queued, so all of it is stored. *)
<1>12. ASSUME s \notin Cut \cup gone PROVE Stored(s)' = log[s]
  <2> SUFFICES ASSUME NEW l, l = log[s] PROVE Stored(s)' = l
    OBVIOUS
  <2>1. PositionsOf(queue', s) = {}
    BY <1>1, <1>3, <1>8, <1>12, DrainNowEmpties
  <2>2. BackedBy(s, l)' /\ Covers(s, l)' /\ ReadOf(s, l)'
    BY <1>1, <1>3, <1>4, <1>8, <1>9, <1>10, <1>12 DEF SoundFor, Tracked, drainVars
  <2>3. l \in Seq(Event) /\ \A k \in DOMAIN l : l[k].sid = s
    BY <1>1 DEF NumberedFor
  <2>4. ASSUME NEW k \in DOMAIN l PROVE k <= lastSeq'[s] + 1
    <3> SUFFICES ASSUME ~(k <= lastSeq'[s] + 1) PROVE FALSE
      OBVIOUS
    <3>1. k > lastSeq'[s] + 1
      BY <2>2, <2>3 DEF ReadOf
    <3>2. PICK i \in DOMAIN queue' : queue'[i] = l[k]
      BY <2>2, <3>1 DEF Covers, Queued
    <3> QED BY <2>1, <2>3, <3>2 DEF PositionsOf
  <2>5. Len(l) = lastSeq'[s] + 1
    BY <2>2, <2>3, <2>4 DEF ReadOf
  <2> QED BY <2>2, <2>3, <2>5 DEF ReadOf
<1>13. \A t \in Sessions : Stored(t)' \in Seq(Event)
  BY <1>6 DEF ReadFacts
<1> QED BY <1>1, <1>3, <1>8, <1>11, <1>12, <1>13 DEF Durable!Reopen, Durable!Kept, Durable!Grows


(* The end of deleteSession; a closed store deletes nothing. *)
LEMMA FinishDeleteRefines ==
  ASSUME IInv, IInv', NEW s \in Sessions, FinishDelete(s)
  PROVE  Durable!Delete(s) \/ Durable!Persist
<1>1. /\ UNCHANGED <<log, severed, gone>> /\ dropped' = dropped \cup {s}
      /\ IF closed THEN UNCHANGED storeVars ELSE DeleteTables(s)
  BY DEF FinishDelete, DropSession, DeleteSessionRows
<1>2. Cut' = Cut \cup {s}
  BY <1>1 DEF Cut
<1>3. CASE closed
  <2>1. SeqsAdvance
    BY <1>1, <1>3, IInvFacts, SameSeqsAdvance DEF storeVars
  <2> QED BY <1>1, <1>2, <2>1, PersistStep DEF SeqsAdvance
<1>4. CASE ~closed
  <2>1. rows' = {r \in rows : r.sid # s}
    BY <1>1, <1>4 DEF DeleteTables
  <2>2. ReadFacts'
    BY IInvReadFactsAfter
  <2>3. Stored(s)' = <<>>
    BY <2>1, <2>2, NothingStoredAfter DEF ReadFacts, NoRowsNothingStored
  <2>4. ASSUME NEW t \in Sessions, t # s PROVE Stored(t)' = Stored(t)
    <3>1. {r \in rows : r.sid = t}' = {r \in rows : r.sid = t}
      BY <2>1, <2>4
    <3> QED BY <3>1, SameStored
  <2>5. [t \in Sessions |-> Stored(t)]' = [[t \in Sessions |-> Stored(t)] EXCEPT ![s] = <<>>]
    BY <2>3, <2>4
  <2> QED BY <1>1, <1>2, <2>5 DEF Durable!Delete
<1> QED BY <1>3, <1>4

(* Another process deletes the session. *)
LEMMA ForeignDeleteRefines ==
  ASSUME IInv, IInv', NEW s \in Sessions, ForeignDelete(s)
  PROVE  Durable!ForeignDelete(s)
<1>1. /\ UNCHANGED <<log, severed, dropped>> /\ gone' = gone \cup {s}
      /\ rows' = {r \in rows : r.sid # s}
  BY DEF ForeignDelete, DeleteTables, queueVars
<1>2. Cut' = Cut
  BY <1>1 DEF Cut
<1>3. ReadFacts'
  BY IInvReadFactsAfter
<1>4. Stored(s)' = <<>>
  BY <1>1, <1>3, NothingStoredAfter DEF ReadFacts, NoRowsNothingStored
<1>5. ASSUME NEW t \in Sessions, t # s PROVE Stored(t)' = Stored(t)
  <2>1. {r \in rows : r.sid = t}' = {r \in rows : r.sid = t}
    BY <1>1, <1>5
  <2> QED BY <2>1, SameStored
<1>6. [t \in Sessions |-> Stored(t)]' = [[t \in Sessions |-> Stored(t)] EXCEPT ![s] = <<>>]
  BY <1>4, <1>5
<1> QED BY <1>1, <1>2, <1>6 DEF Durable!ForeignDelete

(* A crash: the logs are what is stored. *)
LEMMA CrashRefines == Crash => Durable!Crash
<1> SUFFICES ASSUME Crash PROVE Durable!Crash
  OBVIOUS
<1>1. /\ rows' = rows /\ gone' = gone /\ severed' = {} /\ dropped' = {}
      /\ log' = [s \in Sessions |-> Stored(s)]
  BY DEF Crash
<1>2. Cut' = {}
  BY <1>1 DEF Cut
<1>3. [s \in Sessions |-> Stored(s)]' = [s \in Sessions |-> Stored(s)]
  BY <1>1, SameStored
<1> QED BY <1>1, <1>2, <1>3 DEF Durable!Crash

(* Every step of the persistence layer is a step of DurableLog or none.    *)
LEMMA StepRefines ==
  ASSUME IInv, IInv', [Next]_vars
  PROVE  [Durable!Next]_(Durable!vars)
<1>1. CASE Drain
  BY <1>1, DrainRefines DEF Durable!Next
<1>2. ASSUME NEW s \in Sessions, SessionStep(s) PROVE [Durable!Next]_(Durable!vars)
  <2>1. CASE CreateSession(s) \/ StageSessionTitle(s) \/ DeleteFlushed(s) \/ DeleteFails(s)
    <3>1. UNCHANGED <<rows, log, severed, dropped, gone>>
      BY <2>1 DEF CreateSession, StageSessionTitle, DeleteFlushed, DeleteFails,
                  RegisterSessionRow, storeVars, queueVars, hostVars
    <3> QED BY <3>1, SameRowsStutter
  <2>2. CASE \E n \in 0..MaxEvents : CreateSeededSession(s, n)
    BY <2>2, CreateSeededRefines DEF Durable!Next
  <2>3. CASE \E p \in Poisons : AppendEvent(s, p)
    BY <2>3, AppendRefines DEF Durable!Next
  <2>4. CASE Retire(s) \/ LoadFails(s) \/ CheckpointBarrier(s) \/ StartDelete(s)
    BY <2>4, DrainingCallsRefine DEF Durable!Next
  <2>5. CASE LoadSession(s)
    BY <2>5, LoadRefines DEF Durable!Next
  <2>6. CASE FinishDelete(s)
    BY <2>6, FinishDeleteRefines DEF Durable!Next
  <2>7. CASE ForeignDelete(s)
    BY <2>7, ForeignDeleteRefines DEF Durable!Next
  <2> QED BY <1>2, <2>1, <2>2, <2>3, <2>4, <2>5, <2>6, <2>7 DEF SessionStep
<1>3. CASE StartClose \/ CloseFlushed \/ FinishClose \/ UNCHANGED vars
  <2>1. UNCHANGED <<rows, log, severed, dropped, gone>>
    BY <1>3 DEF StartClose, CloseFlushed, FinishClose, vars, storeVars, queueVars, hostVars
  <2> QED BY <2>1, SameRowsStutter
<1>4. CASE Crash
  BY <1>4, CrashRefines DEF Durable!Next
<1> QED BY <1>1, <1>2, <1>3, <1>4 DEF Next

(* The initial states agree. *)
LEMMA InitRefines == Init => Durable!Init
<1> SUFFICES ASSUME Init PROVE Durable!Init
  OBVIOUS
<1>1. ReadFacts
  BY InitAccount, IInvReadFacts
<1>2. /\ rows = {} /\ log = [s \in Sessions |-> <<>>] /\ severed = {} /\ dropped = {} /\ gone = {}
  BY DEF Init, StoreInit, QueueInit
<1>3. \A s \in Sessions : Stored(s) = <<>>
  BY <1>1, <1>2, NothingStored DEF ReadFacts
<1> QED BY <1>2, <1>3 DEF Durable!Init, Cut

(* The write queue, the store and the session lifecycle keep the promises  *)
(* of DurableLog: what is stored is a prefix of the log that only grows, a *)
(* session opened again has lost nothing, one that was cut off or deleted  *)
(* is not written, and a crash loses what was not stored yet.              *)
THEOREM PromisesKept == Spec => KeepsPromises
<1>1. IInv /\ IInv' /\ [Next]_vars => [Durable!Next]_(Durable!vars)
  BY StepRefines
<1>2. Spec => Durable!Init /\ [][Durable!Next]_(Durable!vars)
  BY <1>1, InitRefines, AccountInvariant, PTL DEF Spec
<1> QED BY <1>2 DEF KeepsPromises, Durable!Spec
=============================================================================
