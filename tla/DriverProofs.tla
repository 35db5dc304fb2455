---------------------------- MODULE DriverProofs ----------------------------
(***************************************************************************)
(* The proof that IInv of DriverInv is an invariant of the conversation    *)
(* drivers and their lane, and what follows from it.                       *)
(***************************************************************************)
EXTENDS DriverLemmas

-----------------------------------------------------------------------------
(* Kicks and launches. *)

(* What the callers of kick give it: the seeds and the queue q are apart,  *)
(* and f marks as pending the messages of other places, of q and the seeds.*)
KickReady(u, P, s, seeds, q, f) ==
  /\ HousedIn(queue, u, P)
  /\ seeds \in Seq(Messages) /\ NoRepeat(seeds)
  /\ q \in Seq(Item) /\ Distinct(q) /\ Len(q) <= QueueCap
  /\ Msgs(q) \subseteq Msgs(queue[s])
  /\ ToSet(seeds) \cap Msgs(q) = {}
  /\ ToSet(seeds) \cap (P \ Msgs(queue[s])) = {}
  /\ f \in [Messages -> Fates]
  /\ Pending(f) = (P \ Msgs(queue[s])) \cup Msgs(q) \cup ToSet(seeds)

(* launch stores the seeds and what it takes from the queue, and makes the *)
(* session busy.                                                           *)
LEMMA LaunchRuns ==
  ASSUME Types, NEW u \in Seq(Job), NEW P, NEW s \in Sessions, NEW seeds, NEW wake \in BOOLEAN,
         NEW laned, NEW q, NEW f, KickReady(u, P, s, seeds, q, f),
         Launch(s, seeds, wake, laned, q, f)
  PROVE  /\ HousedIn(queue', u, Pending(fate'))
         /\ queue' \in [Sessions -> Seq(Item)] /\ \A t \in Sessions : Len(queue'[t]) <= QueueCap
         /\ \A t \in Sessions : t # s => queue'[t] = queue[t]
         /\ streak' \in [Sessions -> Nat]
         /\ fate' \in [Messages -> Fates]
<1>1. /\ HousedIn(queue, u, P)
      /\ seeds \in Seq(Messages) /\ NoRepeat(seeds)
      /\ q \in Seq(Item) /\ Distinct(q) /\ Len(q) <= QueueCap
      /\ Msgs(q) \subseteq Msgs(queue[s])
      /\ ToSet(seeds) \cap Msgs(q) = {}
      /\ ToSet(seeds) \cap (P \ Msgs(queue[s])) = {}
      /\ f \in [Messages -> Fates]
      /\ Pending(f) = (P \ Msgs(queue[s])) \cup Msgs(q) \cup ToSet(seeds)
  BY DEF KickReady
<1> DEFINE st == LaunchStreak(s, wake)
           a == Absorbed(q, st)
<1>2. st \in Nat
  BY DEF LaunchStreak, Types
<1> HIDE DEF st
<1>3. /\ a.queue \in Seq(Item) /\ Distinct(a.queue) /\ Len(a.queue) <= Len(q)
      /\ a.streak \in Nat
      /\ Msgs(a.queue) \cup a.landed \cup a.refused = Msgs(q)
      /\ Msgs(a.queue) \cap a.landed = {}
      /\ Msgs(a.queue) \cap a.refused = {}
  BY <1>1, <1>2, AbsorbedSplits
<1>4. /\ queue' = [queue EXCEPT ![s] = a.queue]
      /\ streak' = [streak EXCEPT ![s] = a.streak]
      /\ fate' = Mark(Mark(f, ToSet(seeds) \cup a.landed, "landed"), a.refused, "refused")
  BY DEF Launch, st
<1> HIDE DEF a
<1>5. /\ queue \in [Sessions -> Seq(Item)] /\ \A t \in Sessions : Len(queue[t]) <= QueueCap
      /\ streak \in [Sessions -> Nat]
  BY DEF Types
<1> DEFINE R == (P \ Msgs(queue[s])) \cup Msgs(a.queue)
<1>6. Msgs(a.queue) \cap (P \ Msgs(queue[s])) = {}
  BY <1>1, <1>3
<1>7. HousedIn(queue', u, R)
  BY <1>1, <1>3, <1>4, <1>5, <1>6, QueueHouses
<1>8. fate' \in [Messages -> Fates]
      /\ Pending(fate') = (Pending(f) \ (ToSet(seeds) \cup a.landed)) \ a.refused
  <2> DEFINE g == Mark(f, ToSet(seeds) \cup a.landed, "landed")
  <2>1. g \in [Messages -> Fates] /\ Pending(g) = Pending(f) \ (ToSet(seeds) \cup a.landed)
    BY <1>1, MarkPends DEF Fates
  <2> HIDE DEF g
  <2>2. /\ Mark(g, a.refused, "refused") \in [Messages -> Fates]
        /\ Pending(Mark(g, a.refused, "refused")) = Pending(g) \ a.refused
    BY <2>1, MarkPends DEF Fates
  <2> QED BY <1>4, <2>1, <2>2 DEF g
<1>9. Pending(fate') = R
  BY <1>1, <1>3, <1>8
<1>10. /\ queue' \in [Sessions -> Seq(Item)]
       /\ \A t \in Sessions : queue'[t] = IF t = s THEN a.queue ELSE queue[t]
  BY <1>3, <1>4, <1>5
<1>11. Len(a.queue) <= QueueCap
  BY <1>1, <1>3, PendingAssumption
<1>12. \A t \in Sessions : Len(queue'[t]) <= QueueCap
  BY <1>5, <1>10, <1>11
<1>13. streak' \in [Sessions -> Nat]
  BY <1>3, <1>4, <1>5
<1> QED BY <1>4, <1>7, <1>8, <1>9, <1>10, <1>12, <1>13

(* A launch that throws keeps the queue that was left and fails the seeds. *)
LEMMA ThrowFails ==
  ASSUME Types, NEW u \in Seq(Job), NEW P, NEW s \in Sessions, NEW seeds, NEW wake \in BOOLEAN,
         NEW q, NEW f, KickReady(u, P, s, seeds, q, f), LaunchThrows(s, seeds, wake, q, f)
  PROVE  /\ HousedIn(queue', u, Pending(fate'))
         /\ queue' \in [Sessions -> Seq(Item)] /\ \A t \in Sessions : Len(queue'[t]) <= QueueCap
         /\ \A t \in Sessions : t # s => queue'[t] = queue[t]
         /\ streak' \in [Sessions -> Nat] /\ run' = run
         /\ fate' \in [Messages -> Fates]
<1>1. /\ HousedIn(queue, u, P)
      /\ q \in Seq(Item) /\ Distinct(q) /\ Len(q) <= QueueCap
      /\ Msgs(q) \subseteq Msgs(queue[s])
      /\ ToSet(seeds) \cap Msgs(q) = {}
      /\ ToSet(seeds) \cap (P \ Msgs(queue[s])) = {}
      /\ f \in [Messages -> Fates]
      /\ Pending(f) = (P \ Msgs(queue[s])) \cup Msgs(q) \cup ToSet(seeds)
  BY DEF KickReady
<1>2. /\ queue' = [queue EXCEPT ![s] = q]
      /\ streak' = [streak EXCEPT ![s] = LaunchStreak(s, wake)]
      /\ fate' = Mark(f, ToSet(seeds), "failed")
      /\ run' = run
  BY DEF LaunchThrows
<1>3. /\ queue \in [Sessions -> Seq(Item)] /\ \A t \in Sessions : Len(queue[t]) <= QueueCap
      /\ streak \in [Sessions -> Nat] /\ LaunchStreak(s, wake) \in Nat
  BY DEF Types, LaunchStreak
<1>4. Msgs(q) \cap (P \ Msgs(queue[s])) = {}
  BY <1>1
<1>5. HousedIn(queue', u, (P \ Msgs(queue[s])) \cup Msgs(q))
  BY <1>1, <1>2, <1>3, <1>4, QueueHouses
<1>6. fate' \in [Messages -> Fates] /\ Pending(fate') = Pending(f) \ ToSet(seeds)
  BY <1>1, <1>2, MarkPends DEF Fates
<1>7. Pending(fate') = (P \ Msgs(queue[s])) \cup Msgs(q)
  BY <1>1, <1>6
<1>8. queue' \in [Sessions -> Seq(Item)]
      /\ \A t \in Sessions : queue'[t] = IF t = s THEN q ELSE queue[t]
  BY <1>1, <1>2, <1>3
<1>9. streak' \in [Sessions -> Nat]
  BY <1>2, <1>3
<1> QED BY <1>1, <1>2, <1>3, <1>5, <1>6, <1>7, <1>8, <1>9

(* A kick that is ready keeps the invariant, whether a slot is free or     *)
(* not.                                                                    *)
LEMMA KickKeeps ==
  ASSUME Types, NEW js \in Seq(Job), SettlesEnded(js), SlotsCounted(js), KicksCounted(js),
         DismantledEmpty, NEW s \in Sessions, ~Busy(s), s \notin dismantled,
         NEW P, NEW seeds, NEW wake \in BOOLEAN, NEW q, NEW f,
         KickReady(Lineup(js, waiting), P, s, seeds, q, f), DoKick(s, seeds, wake, q, f),
         jobs' = js, UNCHANGED <<dismantled, abortAsked>>
  PROVE  IInv'
<1> DEFINE u == Lineup(js, waiting)
<1>1. /\ waiting \in Seq(Kick) /\ inFlight \in Nat /\ run \in [Sessions -> Run]
      /\ queuedKicks \in [Sessions -> Nat] /\ queue \in [Sessions -> Seq(Item)]
      /\ dismantled \subseteq Sessions /\ abortAsked \subseteq Sessions
      /\ streak \in [Sessions -> Nat] /\ Capacity \in Nat
  BY LaneAssumption DEF Types
<1>2. u \in Seq(Job)
  BY <1>1, LineupType
<1> HIDE DEF u
<1>3. KickReady(u, P, s, seeds, q, f)
  BY DEF u
<1>4. /\ IsFiniteSet(BusySessions) /\ Cardinality(BusySessions) \in Nat
      /\ inFlight = Cardinality(BusySessions) + Cardinality(SlotsIn(js))
      /\ inFlight <= Capacity
      /\ waiting # <<>> => inFlight = Capacity
  BY FS_CardinalityType DEF SlotsCounted
<1>5. /\ \A t \in Sessions : run[t].laned => Busy(t)
      /\ \A t \in Sessions : queuedKicks[t] = Cardinality(OwedIn(u, t))
                                              + IF run[t].laned THEN 1 ELSE 0
  BY DEF KicksCounted, u
<1>6. ~run[s].laned /\ run[s].stage = "idle"
  BY <1>5 DEF Busy
<1>7. CASE Launch(s, seeds, wake, FALSE, q, f) /\ inFlight < Capacity /\ inFlight' = inFlight + 1
           /\ UNCHANGED <<waiting, queuedKicks>>
  <2>1. /\ HousedIn(queue', u, Pending(fate'))
        /\ queue' \in [Sessions -> Seq(Item)] /\ \A t \in Sessions : Len(queue'[t]) <= QueueCap
        /\ \A t \in Sessions : t # s => queue'[t] = queue[t]
        /\ streak' \in [Sessions -> Nat]
        /\ fate' \in [Messages -> Fates]
    BY <1>2, <1>3, <1>7, LaunchRuns
  <2>2. /\ run' \in [Sessions -> Run] /\ run'[s].stage = "running" /\ ~run'[s].laned
        /\ \A t \in Sessions : t # s => run'[t] = run[t]
    <3>1. run' = [run EXCEPT ![s] = [NoRun EXCEPT !.stage = "running", !.laned = FALSE]]
      BY <1>7 DEF Launch
    <3> QED BY <3>1, <1>1, <1>7 DEF Run, NoRun, Stages, Statuses
  <2>3. u = Upcoming'
    BY <1>7 DEF u, Upcoming
  <2>4. Housed'
    BY <2>1, <2>3 DEF Housed
  <2>5. SettlesEnded(jobs)'
    BY <1>6, <2>2 DEF SettlesEnded
  <2>6. SlotsCounted(jobs)'
    <3>1. BusySessions' = BusySessions \cup {s} /\ s \notin BusySessions
      BY <2>2 DEF BusySessions, Busy
    <3>2. IsFiniteSet(BusySessions') /\ Cardinality(BusySessions') = Cardinality(BusySessions) + 1
      BY <3>1, <1>4, FS_AddElement
    <3>3. waiting' = <<>>
      BY <1>1, <1>4, <1>7
    <3>4. Cardinality(SlotsIn(js)) \in Nat
      BY CountedNat
    <3>5. inFlight' = Cardinality(BusySessions') + Cardinality(SlotsIn(js))
          /\ inFlight' <= Capacity
      BY <1>1, <1>4, <1>7, <3>2, <3>4
    <3> QED BY <3>2, <3>3, <3>5 DEF SlotsCounted
  <2>7. KicksCounted(jobs)'
    BY <1>5, <1>6, <1>7, <2>2, <2>3 DEF KicksCounted, Busy, u
  <2>8. Types'
    BY <1>1, <1>7, <2>1, <2>2 DEF Types
  <2>9. DismantledEmpty'
    BY <1>1, <2>1 DEF DismantledEmpty
  <2> QED BY <2>4, <2>5, <2>6, <2>7, <2>8, <2>9 DEF IInv
<1>8. CASE LaunchThrows(s, seeds, wake, q, f) /\ UNCHANGED <<inFlight, waiting, queuedKicks>>
  <2>1. /\ HousedIn(queue', u, Pending(fate'))
        /\ queue' \in [Sessions -> Seq(Item)] /\ \A t \in Sessions : Len(queue'[t]) <= QueueCap
        /\ \A t \in Sessions : t # s => queue'[t] = queue[t]
        /\ streak' \in [Sessions -> Nat] /\ run' = run
        /\ fate' \in [Messages -> Fates]
    BY <1>2, <1>3, <1>8, ThrowFails
  <2>2. u = Upcoming'
    BY <1>8 DEF u, Upcoming
  <2>3. Housed'
    BY <2>1, <2>2 DEF Housed
  <2>4. SettlesEnded(jobs)'
    BY <2>1 DEF SettlesEnded
  <2>5. SlotsCounted(jobs)'
    <3>1. BusySessions' = BusySessions
      BY <2>1 DEF BusySessions, Busy
    <3> QED BY <3>1, <1>4, <1>8 DEF SlotsCounted
  <2>6. KicksCounted(jobs)'
    BY <1>5, <1>8, <2>1, <2>2 DEF KicksCounted, Busy, u
  <2>7. Types'
    BY <1>1, <1>8, <2>1 DEF Types
  <2>8. DismantledEmpty'
    BY <1>1, <2>1 DEF DismantledEmpty
  <2> QED BY <2>3, <2>4, <2>5, <2>6, <2>7, <2>8 DEF IInv
<1>9. CASE KickLater(s, seeds, wake, q, f)
  <2> DEFINE k == [sid |-> s, seeds |-> seeds, wake |-> wake]
  <2>1. /\ waiting' = Append(waiting, k) /\ inFlight >= Capacity
        /\ queuedKicks' = [queuedKicks EXCEPT ![s] = @ + 1]
        /\ queue' = [queue EXCEPT ![s] = q] /\ fate' = f
        /\ inFlight' = inFlight /\ streak' = streak /\ run' = run
    BY <1>9 DEF KickLater
  <2>2. /\ HousedIn(queue, u, P)
        /\ seeds \in Seq(Messages) /\ NoRepeat(seeds)
        /\ q \in Seq(Item) /\ Distinct(q) /\ Len(q) <= QueueCap
        /\ Msgs(q) \subseteq Msgs(queue[s])
        /\ ToSet(seeds) \cap Msgs(q) = {}
        /\ ToSet(seeds) \cap (P \ Msgs(queue[s])) = {}
        /\ f \in [Messages -> Fates]
        /\ Pending(f) = (P \ Msgs(queue[s])) \cup Msgs(q) \cup ToSet(seeds)
    BY <1>3 DEF KickReady
  <2>3. k \in Kick /\ k.seeds = seeds /\ k.sid = s
    BY <2>2 DEF Kick
  <2> HIDE DEF k
  <2>4. GrantJob(k) \in Job /\ GrantJob(k).do = "grant" /\ GrantJob(k).kick = k
    BY <2>3, JobFields
  <2>5. Upcoming' = Append(u, GrantJob(k))
    <3>1. Lineup(js, Append(waiting, k)) = Append(u, GrantJob(k))
      BY <1>1, <2>3, LineupMoves DEF u
    <3> QED BY <3>1, <2>1 DEF Upcoming
  <2>6. Housed'
    <3> DEFINE R == (P \ Msgs(queue[s])) \cup Msgs(q)
    <3>1. Msgs(q) \cap (P \ Msgs(queue[s])) = {}
      BY <2>2
    <3>2. HousedIn(queue', u, R)
      BY <1>1, <1>2, <2>1, <2>2, <3>1, QueueHouses
    <3>3. ToSet(k.seeds) \cap R = {} /\ NoRepeat(k.seeds)
      BY <2>2, <2>3
    <3> HIDE DEF R
    <3>4. HousedIn(queue', Append(u, GrantJob(k)), R \cup ToSet(k.seeds))
      BY <1>2, <2>3, <3>2, <3>3, GrantHouses
    <3>5. Pending(fate') = R \cup ToSet(k.seeds)
      BY <2>1, <2>2, <2>3 DEF R
    <3> QED BY <3>4, <3>5, <2>5 DEF Housed
  <2>7. SettlesEnded(jobs)'
    BY <2>1 DEF SettlesEnded
  <2>8. SlotsCounted(jobs)'
    <3>1. BusySessions' = BusySessions
      BY <2>1 DEF BusySessions, Busy
    <3>2. inFlight = Capacity
      BY <1>1, <1>4, <2>1
    <3> QED BY <3>1, <3>2, <1>4, <2>1 DEF SlotsCounted
  <2>9. KicksCounted(jobs)' /\ queuedKicks' \in [Sessions -> Nat]
    <3>1. \A t \in Sessions : GrantJob(k) \in OwingKind(t) <=> t = s
      BY <2>3, <2>4 DEF OwingKind, Owes
    <3>2. ASSUME NEW t \in Sessions
          PROVE  Cardinality(OwedIn(Upcoming', t))
                   = Cardinality(OwedIn(u, t)) + IF t = s THEN 1 ELSE 0
      <4> DEFINE v == Append(u, GrantJob(k))
      <4>1. v \in Seq(Job)
        BY <1>2, <2>4
      <4>2. Cardinality(At(v, OwingKind(t)))
              = Cardinality(At(u, OwingKind(t)))
                + IF GrantJob(k) \in OwingKind(t) THEN 1 ELSE 0
        BY <1>2, <2>4, CountAppend
      <4> HIDE DEF v
      <4>3. OwedIn(v, t) = At(v, OwingKind(t)) /\ OwedIn(u, t) = At(u, OwingKind(t))
        BY <1>2, <4>1, CountedKinds
      <4>4. Upcoming' = v
        BY <2>5 DEF v
      <4> QED BY <3>1, <4>2, <4>3, <4>4
    <3>3. \A t \in Sessions : queuedKicks'[t] = queuedKicks[t] + IF t = s THEN 1 ELSE 0
      BY <1>1, <2>1
    <3>4. \A t \in Sessions : Cardinality(OwedIn(u, t)) \in Nat
      BY <1>2, CountedNat
    <3>5. ASSUME NEW t \in Sessions
          PROVE  queuedKicks'[t] = Cardinality(OwedIn(Upcoming', t))
                                   + IF run'[t].laned THEN 1 ELSE 0
      BY <1>5, <2>1, <3>2, <3>3, <3>4
    <3>6. queuedKicks' \in [Sessions -> Nat]
      BY <1>1, <2>1
    <3> QED BY <1>5, <2>1, <3>5, <3>6 DEF KicksCounted, Busy, Upcoming
  <2>10. Types'
    <3>1. waiting' \in Seq(Kick)
      BY <1>1, <2>1, <2>3
    <3>2. queue' \in [Sessions -> Seq(Item)]
          /\ \A t \in Sessions : queue'[t] = IF t = s THEN q ELSE queue[t]
      BY <1>1, <2>1, <2>2
    <3>3. \A t \in Sessions : Len(queue'[t]) <= QueueCap
      BY <2>2, <3>2 DEF Types
    <3> QED BY <1>1, <2>1, <2>2, <2>9, <3>1, <3>2, <3>3 DEF Types
  <2>11. DismantledEmpty'
    BY <1>1, <2>1 DEF DismantledEmpty
  <2> QED BY <2>6, <2>7, <2>8, <2>9, <2>10, <2>11 DEF IInv
<1> QED BY <1>7, <1>8, <1>9 DEF DoKick, KickNow

(* Items are put into the queue of s; P are the pending messages elsewhere. *)
LEMMA EnqueueHouses ==
  ASSUME Types, NEW u \in Seq(Job), NEW P, HousedIn(queue, u, P), NEW s \in Sessions,
         NEW items \in Seq(Item), Distinct(items), Msgs(items) \cap P = {},
         Pending(fate) \cup Msgs(items) = P \cup Msgs(items),
         NEW unnamed, Enqueue(s, items, unnamed)
  PROVE  /\ HousedIn(queue', u, Pending(fate'))
         /\ queue' \in [Sessions -> Seq(Item)] /\ \A t \in Sessions : Len(queue'[t]) <= QueueCap
         /\ \A t \in Sessions : t # s => queue'[t] = queue[t]
         /\ fate' \in [Messages -> Fates]
<1> DEFINE q == queue[s]
           e == Enqueued(q, items)
<1>1. /\ queue \in [Sessions -> Seq(Item)] /\ \A t \in Sessions : Len(queue[t]) <= QueueCap
      /\ fate \in [Messages -> Fates] /\ q \in Seq(Item)
  BY DEF Types
<1>2. /\ queue' = [queue EXCEPT ![s] = e.queue]
      /\ fate' = Mark(Mark(Mark(fate, ToSet(MessagesOf(items)), "pending"),
                           e.evicted \ unnamed, "evicted"),
                      e.evicted \cap unnamed, "lost")
  BY DEF Enqueue
<1>3. Distinct(q) /\ Msgs(q) \subseteq P
  BY DEF HousedIn
<1> HIDE DEF q
<1>4. Msgs(q) \cap Msgs(items) = {}
  BY <1>3
<1>5. /\ e.queue \in Seq(Item) /\ Distinct(e.queue) /\ Len(e.queue) <= QueueCap
      /\ Msgs(e.queue) \cup e.evicted = Msgs(q) \cup Msgs(items)
      /\ Msgs(e.queue) \cap e.evicted = {}
  BY <1>1, <1>3, <1>4, EnqueuedSplits
<1> HIDE DEF e
<1> DEFINE R == (P \ Msgs(q)) \cup Msgs(e.queue)
<1>6. Msgs(e.queue) \cap (P \ Msgs(q)) = {}
  BY <1>5
<1>7. HousedIn(queue', u, R)
  BY <1>1, <1>2, <1>5, <1>6, QueueHouses DEF q
<1>8. fate' \in [Messages -> Fates]
      /\ Pending(fate') = (Pending(fate) \cup Msgs(items)) \ e.evicted
  <2> DEFINE g == Mark(fate, ToSet(MessagesOf(items)), "pending")
             h == Mark(g, e.evicted \ unnamed, "evicted")
  <2>1. ToSet(MessagesOf(items)) = Msgs(items) /\ Msgs(items) \subseteq Messages
    <3>1. \A i \in DOMAIN items : items[i] \in Item
      OBVIOUS
    <3>2. Msgs(items) \subseteq Messages
      BY <3>1 DEF Msgs, Item
    <3> QED BY <3>2, MessagesOfProps
  <2>2. g \in [Messages -> Fates] /\ Pending(g) = Pending(fate) \cup Msgs(items)
    <3>1. /\ g \in [Messages -> Fates]
          /\ Pending(g) = Pending(fate) \cup (ToSet(MessagesOf(items)) \cap Messages)
      BY <1>1, MarkPends DEF Fates
    <3> QED BY <3>1, <2>1
  <2> HIDE DEF g
  <2>3. h \in [Messages -> Fates] /\ Pending(h) = Pending(g) \ (e.evicted \ unnamed)
    BY <2>2, MarkPends DEF Fates
  <2> HIDE DEF h
  <2>4. /\ Mark(h, e.evicted \cap unnamed, "lost") \in [Messages -> Fates]
        /\ Pending(Mark(h, e.evicted \cap unnamed, "lost"))
             = Pending(h) \ (e.evicted \cap unnamed)
    BY <2>3, MarkPends DEF Fates
  <2>5. fate' = Mark(h, e.evicted \cap unnamed, "lost")
    BY <1>2 DEF g, h
  <2> QED BY <2>2, <2>3, <2>4, <2>5
<1>9. Pending(fate') = R
  BY <1>3, <1>4, <1>5, <1>6, <1>8
<1>10. /\ queue' \in [Sessions -> Seq(Item)]
       /\ \A t \in Sessions : queue'[t] = IF t = s THEN e.queue ELSE queue[t]
  BY <1>1, <1>2, <1>5
<1>11. \A t \in Sessions : Len(queue'[t]) <= QueueCap
  BY <1>1, <1>5, <1>10
<1> QED BY <1>7, <1>8, <1>9, <1>10, <1>11

-----------------------------------------------------------------------------
(* The actions that do not touch the lane. *)

(* What is counted stays so when neither lane, jobs nor runs change. *)
LEMMA LaneStill ==
  ASSUME IInv, UNCHANGED <<jobs, inFlight, waiting, queuedKicks>>,
         \A t \in Sessions : /\ run'[t].stage = "idle" <=> run[t].stage = "idle"
                             /\ run'[t].stage = "ended" <=> run[t].stage = "ended"
                             /\ run'[t].laned = run[t].laned
  PROVE  /\ SettlesEnded(jobs)' /\ SlotsCounted(jobs)' /\ KicksCounted(jobs)'
         /\ Upcoming' = Upcoming
<1>1. SettlesEnded(jobs) /\ SlotsCounted(jobs) /\ KicksCounted(jobs)
  BY DEF IInv
<1>2. SettlesEnded(jobs)'
  BY <1>1 DEF SettlesEnded
<1>3. BusySessions' = BusySessions
  BY DEF BusySessions, Busy
<1>4. SlotsCounted(jobs)'
  BY <1>1, <1>3 DEF SlotsCounted
<1>5. KicksCounted(jobs)'
  BY <1>1 DEF KicksCounted, Busy
<1> QED BY <1>2, <1>4, <1>5 DEF Upcoming

(* The queue of one session that is not dismantled loses messages. *)
LEMMA QueueShrinks ==
  ASSUME IInv, NEW s \in Sessions, NEW q \in Seq(Item), Distinct(q), Len(q) <= QueueCap,
         Msgs(q) \subseteq Msgs(queue[s]), s \in dismantled' => q = <<>>,
         queue' = [queue EXCEPT ![s] = q],
         fate' \in [Messages -> Fates],
         Pending(fate') = Pending(fate) \ (Msgs(queue[s]) \ Msgs(q)),
         streak' \in [Sessions -> Nat], run' \in [Sessions -> Run],
         dismantled' \subseteq dismantled \cup {s}, abortAsked' \subseteq Sessions,
         UNCHANGED <<jobs, inFlight, waiting, queuedKicks>>,
         \A t \in Sessions : /\ run'[t].stage = "idle" <=> run[t].stage = "idle"
                             /\ run'[t].stage = "ended" <=> run[t].stage = "ended"
                             /\ run'[t].laned = run[t].laned
  PROVE  IInv'
<1>1. /\ SettlesEnded(jobs)' /\ SlotsCounted(jobs)' /\ KicksCounted(jobs)'
      /\ Upcoming' = Upcoming
  BY LaneStill
<1>2. Types /\ DismantledEmpty /\ HousedIn(queue, Upcoming, Pending(fate))
  BY DEF IInv, Housed
<1>3. Upcoming \in Seq(Job)
  BY <1>2, LineupType DEF Types, Upcoming
<1>4. queue \in [Sessions -> Seq(Item)]
  BY <1>2 DEF Types
<1>5. Msgs(q) \cap (Pending(fate) \ Msgs(queue[s])) = {}
  OBVIOUS
<1>6. /\ HousedIn(queue', Upcoming, (Pending(fate) \ Msgs(queue[s])) \cup Msgs(q))
      /\ Msgs(queue[s]) \subseteq Pending(fate)
  BY <1>2, <1>3, <1>4, <1>5, QueueHouses
<1>7. Pending(fate') = (Pending(fate) \ Msgs(queue[s])) \cup Msgs(q)
  BY <1>6
<1>8. Housed'
  BY <1>1, <1>6, <1>7 DEF Housed
<1>9. /\ queue' \in [Sessions -> Seq(Item)]
      /\ \A t \in Sessions : queue'[t] = IF t = s THEN q ELSE queue[t]
  BY <1>4
<1>10. DismantledEmpty'
  BY <1>2, <1>9 DEF DismantledEmpty, Types
<1>11. \A t \in Sessions : Len(queue'[t]) <= QueueCap
  BY <1>2, <1>9 DEF Types
<1>12. Types'
  BY <1>2, <1>9, <1>11 DEF Types
<1> QED BY <1>1, <1>8, <1>10, <1>12 DEF IInv

(* submit to a dismantled session. *)
LEMMA InjectKeeps ==
  ASSUME IInv, NEW s \in Sessions, NEW m \in Messages, Inject(s, m)
  PROVE  IInv'
<1>1. /\ fate[m] = "new" /\ fate' = Mark(fate, {m}, "landed")
      /\ queue' = queue /\ streak' = streak /\ run' = run /\ dismantled' = dismantled
      /\ abortAsked' = abortAsked /\ queuedKicks' = queuedKicks
      /\ inFlight' = inFlight /\ waiting' = waiting /\ jobs' = jobs
  BY DEF Inject, Fresh, sessionVars, laneVars
<1>2. Types /\ DismantledEmpty /\ HousedIn(queue, Upcoming, Pending(fate))
  BY DEF IInv, Housed
<1>3. /\ SettlesEnded(jobs)' /\ SlotsCounted(jobs)' /\ KicksCounted(jobs)'
      /\ Upcoming' = Upcoming
  BY <1>1, LaneStill
<1>4. fate \in [Messages -> Fates]
  BY <1>2 DEF Types
<1>5. fate' \in [Messages -> Fates] /\ Pending(fate') = Pending(fate) \ {m}
  BY <1>1, <1>4, MarkPends DEF Fates
<1>6. m \notin Pending(fate)
  BY <1>1 DEF Pending
<1>7. Pending(fate') = Pending(fate)
  BY <1>5, <1>6
<1>8. Housed' /\ DismantledEmpty'
  BY <1>1, <1>2, <1>3, <1>7 DEF Housed, DismantledEmpty
<1>9. Types'
  BY <1>1, <1>2, <1>5 DEF Types
<1> QED BY <1>3, <1>8, <1>9 DEF IInv

(* submit and deliverControl to a busy session. *)
LEMMA SteerKeeps ==
  ASSUME IInv, NEW s \in Sessions, NEW m \in Messages, NEW way \in Ways, Steer(s, m, way)
  PROVE  IInv'
<1> DEFINE it == [msg |-> m, wake |-> way = "wake", hold |-> way = "held",
                  ctl |-> way = "control"]
           items == <<it>>
<1>1. /\ fate[m] = "new" /\ s \notin dismantled
      /\ Enqueue(s, items, Unnamed(s, way))
      /\ run' = IF way = "held" THEN [run EXCEPT ![s].riders = @ + 1] ELSE run
      /\ streak' = streak /\ dismantled' = dismantled
      /\ abortAsked' = abortAsked /\ queuedKicks' = queuedKicks
      /\ inFlight' = inFlight /\ waiting' = waiting /\ jobs' = jobs
  BY DEF Steer, Fresh, laneVars
<1>2. Types /\ DismantledEmpty /\ HousedIn(queue, Upcoming, Pending(fate))
  BY DEF IInv, Housed
<1>3. run \in [Sessions -> Run]
  BY <1>2 DEF Types
<1>4. /\ run' \in [Sessions -> Run]
      /\ \A t \in Sessions : /\ run'[t].stage = run[t].stage /\ run'[t].laned = run[t].laned
  BY <1>1, <1>3 DEF Run
<1>5. /\ SettlesEnded(jobs)' /\ SlotsCounted(jobs)' /\ KicksCounted(jobs)'
      /\ Upcoming' = Upcoming
  BY <1>1, <1>4, LaneStill
<1>6. it \in Item /\ it.msg = m
  BY DEF Item
<1> HIDE DEF it
<1>7. items \in Seq(Item) /\ DOMAIN items = {1} /\ items[1].msg = m
  BY <1>6
<1> HIDE DEF items
<1>8. Distinct(items) /\ Msgs(items) = {m}
  BY <1>7 DEF Distinct, Msgs
<1>9. m \notin Pending(fate)
  BY <1>1 DEF Pending
<1>10. Upcoming \in Seq(Job)
  BY <1>2, LineupType DEF Types, Upcoming
<1>11. /\ HousedIn(queue', Upcoming, Pending(fate'))
       /\ queue' \in [Sessions -> Seq(Item)] /\ \A t \in Sessions : Len(queue'[t]) <= QueueCap
       /\ \A t \in Sessions : t # s => queue'[t] = queue[t]
       /\ fate' \in [Messages -> Fates]
  BY <1>1, <1>2, <1>7, <1>8, <1>9, <1>10, EnqueueHouses
<1>12. Housed' /\ DismantledEmpty'
  BY <1>1, <1>2, <1>5, <1>11 DEF Housed, DismantledEmpty, Types
<1>13. Types'
  BY <1>1, <1>2, <1>4, <1>11 DEF Types
<1> QED BY <1>5, <1>12, <1>13 DEF IInv

(* withdrawQueued and popWaitingLast. *)
LEMMA TakeBackKeeps ==
  ASSUME IInv, NEW s \in Sessions, NEW i, TakeBack(s, i)
  PROVE  IInv'
<1> DEFINE q == RemoveAt(queue[s], i)
           m == queue[s][i].msg
<1>1. /\ i \in DOMAIN queue[s]
      /\ fate' = Mark(fate, {m}, "withdrawn")
      /\ streak' = streak /\ run' = run /\ dismantled' = dismantled
      /\ abortAsked' = abortAsked /\ queuedKicks' = queuedKicks
      /\ inFlight' = inFlight /\ waiting' = waiting /\ jobs' = jobs
  BY DEF TakeBack, laneVars
<1>2. /\ Types /\ DismantledEmpty /\ queue[s] \in Seq(Item) /\ Len(queue[s]) <= QueueCap
      /\ Distinct(queue[s]) /\ queue \in [Sessions -> Seq(Item)]
  BY DEF IInv, Types, Housed, HousedIn
<1>3. queue' = [queue EXCEPT ![s] = q]
  BY <1>2 DEF TakeBack
<1>4. /\ q \in Seq(Item) /\ Distinct(q) /\ Len(q) <= Len(queue[s])
      /\ Msgs(q) = Msgs(queue[s]) \ {m}
  BY <1>1, <1>2, RemoveAtSplits
<1> HIDE DEF q
<1>5. m \in Msgs(queue[s])
  BY <1>1 DEF Msgs
<1> HIDE DEF m
<1>6. fate' \in [Messages -> Fates] /\ Pending(fate') = Pending(fate) \ {m}
  BY <1>1, <1>2, MarkPends DEF Fates, Types
<1>7. Pending(fate') = Pending(fate) \ (Msgs(queue[s]) \ Msgs(q))
  BY <1>4, <1>5, <1>6
<1>8. Len(q) <= QueueCap
  BY <1>2, <1>4, PendingAssumption
<1>9. s \notin dismantled
  <2>1. queue[s] # <<>>
    BY <1>1, <1>2
  <2> QED BY <2>1, <1>2 DEF DismantledEmpty
<1>10. /\ streak' \in [Sessions -> Nat] /\ run' \in [Sessions -> Run]
       /\ dismantled' \subseteq dismantled \cup {s} /\ abortAsked' \subseteq Sessions
  BY <1>1, <1>2 DEF Types
<1> QED BY <1>1, <1>3, <1>4, <1>6, <1>7, <1>8, <1>9, <1>10, QueueShrinks

(* What an abort does to the run changes neither its stage nor its lane. *)
LEMMA AbortRunKeeps ==
  ASSUME Types, NEW s \in Sessions, AbortRun(s)
  PROVE  /\ run' \in [Sessions -> Run] /\ abortAsked' \subseteq Sessions
         /\ \A t \in Sessions : /\ run'[t].stage = run[t].stage
                                /\ run'[t].laned = run[t].laned
                                /\ run'[t].status = run[t].status
<1>1. run \in [Sessions -> Run] /\ abortAsked \subseteq Sessions
  BY DEF Types
<1>2. CASE run' = [run EXCEPT ![s].aborted = TRUE] /\ UNCHANGED abortAsked
  BY <1>1, <1>2 DEF Run
<1>3. CASE /\ abortAsked' = IF queuedKicks[s] > 0 THEN abortAsked \cup {s} ELSE abortAsked
           /\ UNCHANGED run
  BY <1>1, <1>3
<1> QED BY <1>2, <1>3 DEF AbortRun

(* abort. *)
LEMMA AbortKeeps ==
  ASSUME IInv, NEW s \in Sessions, Abort(s)
  PROVE  IInv'
<1>1. /\ AbortRun(s) /\ queue' = queue /\ streak' = streak /\ dismantled' = dismantled
      /\ queuedKicks' = queuedKicks /\ fate' = fate
      /\ inFlight' = inFlight /\ waiting' = waiting /\ jobs' = jobs
  BY DEF Abort, laneVars
<1>2. Types /\ DismantledEmpty /\ Housed
  BY DEF IInv
<1>3. /\ run' \in [Sessions -> Run] /\ abortAsked' \subseteq Sessions
      /\ \A t \in Sessions : run'[t].stage = run[t].stage /\ run'[t].laned = run[t].laned
  BY <1>1, <1>2, AbortRunKeeps
<1>4. /\ SettlesEnded(jobs)' /\ SlotsCounted(jobs)' /\ KicksCounted(jobs)'
      /\ Upcoming' = Upcoming
  BY <1>1, <1>3, LaneStill
<1>5. Housed' /\ DismantledEmpty'
  BY <1>1, <1>2, <1>4 DEF Housed, DismantledEmpty
<1>6. Types'
  BY <1>1, <1>2, <1>3 DEF Types
<1> QED BY <1>4, <1>5, <1>6 DEF IInv

(* dismantle. *)
LEMMA DismantleKeeps ==
  ASSUME IInv, NEW s \in Sessions, Dismantle(s)
  PROVE  IInv'
<1>1. /\ AbortRun(s) /\ queue' = [queue EXCEPT ![s] = <<>>] /\ streak' = streak
      /\ dismantled' = dismantled \cup {s}
      /\ fate' = Mark(fate, ToSet(MessagesOf(queue[s])), "cleared")
      /\ queuedKicks' = queuedKicks
      /\ inFlight' = inFlight /\ waiting' = waiting /\ jobs' = jobs
  BY DEF Dismantle, laneVars
<1>2. Types /\ queue[s] \in Seq(Item)
  BY DEF IInv, Types
<1>3. /\ run' \in [Sessions -> Run] /\ abortAsked' \subseteq Sessions
      /\ \A t \in Sessions : run'[t].stage = run[t].stage /\ run'[t].laned = run[t].laned
  BY <1>1, <1>2, AbortRunKeeps
<1>4. fate' = Mark(fate, Msgs(queue[s]), "cleared")
  BY <1>1, <1>2, MessagesOfProps
<1>5. fate' \in [Messages -> Fates] /\ Pending(fate') = Pending(fate) \ Msgs(queue[s])
  BY <1>2, <1>4, MarkPends DEF Fates, Types
<1> DEFINE q == <<>>
<1>6. q \in Seq(Item) /\ Distinct(q) /\ Msgs(q) = {} /\ Len(q) <= QueueCap
  BY PendingAssumption DEF Distinct, Msgs
<1>7. /\ Msgs(q) \subseteq Msgs(queue[s])
      /\ Pending(fate') = Pending(fate) \ (Msgs(queue[s]) \ Msgs(q))
  BY <1>5, <1>6
<1>8. streak' \in [Sessions -> Nat]
  BY <1>1, <1>2 DEF Types
<1> QED BY <1>1, <1>3, <1>5, <1>6, <1>7, <1>8, QueueShrinks

-----------------------------------------------------------------------------
(* The steps of a run. *)

(* A running run takes messages. *)
LEMMA TakeInRunKeeps ==
  ASSUME IInv, NEW s \in Sessions, TakeInRun(s)
  PROVE  IInv'
<1> DEFINE a == Absorbed(queue[s], streak[s])
<1>1. /\ queue' = [queue EXCEPT ![s] = a.queue] /\ streak' = [streak EXCEPT ![s] = a.streak]
      /\ fate' = Mark(Mark(fate, a.landed, "landed"), a.refused, "refused")
      /\ a.queue # queue[s]
      /\ run' = run /\ dismantled' = dismantled
      /\ abortAsked' = abortAsked /\ queuedKicks' = queuedKicks
      /\ inFlight' = inFlight /\ waiting' = waiting /\ jobs' = jobs
  BY DEF TakeInRun, laneVars
<1>2. /\ Types /\ DismantledEmpty /\ queue[s] \in Seq(Item) /\ Len(queue[s]) <= QueueCap
      /\ Distinct(queue[s]) /\ streak[s] \in Nat
  BY DEF IInv, Types, Housed, HousedIn
<1>3. /\ a.queue \in Seq(Item) /\ Distinct(a.queue) /\ Len(a.queue) <= Len(queue[s])
      /\ a.streak \in Nat
      /\ Msgs(a.queue) \cup a.landed \cup a.refused = Msgs(queue[s])
      /\ Msgs(a.queue) \cap a.landed = {}
      /\ Msgs(a.queue) \cap a.refused = {}
  BY <1>2, AbsorbedSplits
<1>4. s \notin dismantled
  <2>1. s \in dismantled => queue[s] = <<>>
    BY <1>2 DEF DismantledEmpty
  <2>2. queue[s] = <<>> => a.queue = <<>>
    BY EmptyQueue
  <2> QED BY <2>1, <2>2, <1>1
<1> HIDE DEF a
<1>5. fate' \in [Messages -> Fates] /\ Pending(fate') = (Pending(fate) \ a.landed) \ a.refused
  <2> DEFINE g == Mark(fate, a.landed, "landed")
  <2>1. g \in [Messages -> Fates] /\ Pending(g) = Pending(fate) \ a.landed
    BY <1>2, MarkPends DEF Fates, Types
  <2> HIDE DEF g
  <2>2. /\ Mark(g, a.refused, "refused") \in [Messages -> Fates]
        /\ Pending(Mark(g, a.refused, "refused")) = Pending(g) \ a.refused
    BY <2>1, MarkPends DEF Fates
  <2> QED BY <1>1, <2>1, <2>2 DEF g
<1>6. /\ Pending(fate') = Pending(fate) \ (Msgs(queue[s]) \ Msgs(a.queue))
      /\ Msgs(a.queue) \subseteq Msgs(queue[s])
  BY <1>3, <1>5
<1>7. Len(a.queue) <= QueueCap
  BY <1>2, <1>3, PendingAssumption
<1>8. /\ streak' \in [Sessions -> Nat] /\ run' \in [Sessions -> Run]
      /\ dismantled' \subseteq dismantled \cup {s} /\ abortAsked' \subseteq Sessions
  BY <1>1, <1>2, <1>3 DEF Types
<1> QED BY <1>1, <1>3, <1>4, <1>5, <1>6, <1>7, <1>8, QueueShrinks

(* The loop of a run returns or throws. *)
LEMMA LoopReturnsKeeps ==
  ASSUME IInv, NEW s \in Sessions, NEW status \in Statuses, LoopReturns(s, status)
  PROVE  IInv'
<1>1. /\ run[s].stage = "running"
      /\ run' = [run EXCEPT ![s].stage = "looped", ![s].status = status]
      /\ queue' = queue /\ streak' = streak /\ dismantled' = dismantled
      /\ abortAsked' = abortAsked /\ queuedKicks' = queuedKicks /\ fate' = fate
      /\ inFlight' = inFlight /\ waiting' = waiting /\ jobs' = jobs
  BY DEF LoopReturns, laneVars
<1>2. Types /\ DismantledEmpty /\ Housed /\ run \in [Sessions -> Run]
  BY DEF IInv, Types
<1>3. /\ run' \in [Sessions -> Run] /\ run'[s].stage = "looped" /\ run'[s].laned = run[s].laned
      /\ \A t \in Sessions : t # s => run'[t] = run[t]
  BY <1>1, <1>2 DEF Run, Stages
<1>4. /\ SettlesEnded(jobs)' /\ SlotsCounted(jobs)' /\ KicksCounted(jobs)'
      /\ Upcoming' = Upcoming
  BY <1>1, <1>3, LaneStill
<1>5. Housed' /\ DismantledEmpty'
  BY <1>1, <1>2, <1>4 DEF Housed, DismantledEmpty
<1>6. Types'
  BY <1>1, <1>2, <1>3 DEF Types
<1> QED BY <1>4, <1>5, <1>6 DEF IInv

(* runTurns starts the loop again with what was left. *)
LEMMA GoOnKeeps ==
  ASSUME IInv, NEW s \in Sessions, GoOn(s)
  PROVE  IInv'
<1> DEFINE b == LeftOver(s)
           st == IF b.wake THEN streak[s] + 1 ELSE streak[s]
           a == Absorbed(b.rest, st)
<1>1. /\ run[s].stage = "looped" /\ b.items # <<>>
      /\ queue' = [queue EXCEPT ![s] = a.queue] /\ streak' = [streak EXCEPT ![s] = a.streak]
      /\ run' = [run EXCEPT ![s].stage = "running", ![s].status = "none"]
      /\ fate' = Mark(Mark(fate, ToSet(MessagesOf(b.items)) \cup a.landed, "landed"),
                      b.refused \cup a.refused, "refused")
      /\ dismantled' = dismantled
      /\ abortAsked' = abortAsked /\ queuedKicks' = queuedKicks
      /\ inFlight' = inFlight /\ waiting' = waiting /\ jobs' = jobs
  BY DEF GoOn, Continues, laneVars
<1>2. /\ Types /\ DismantledEmpty /\ queue[s] \in Seq(Item) /\ Len(queue[s]) <= QueueCap
      /\ Distinct(queue[s]) /\ streak[s] \in Nat /\ run \in [Sessions -> Run]
  BY DEF IInv, Types, Housed, HousedIn
<1>3. s \notin dismantled
  <2>1. s \in dismantled => queue[s] = <<>>
    BY <1>2 DEF DismantledEmpty
  <2>2. queue[s] = <<>> => b.items = <<>>
    BY EmptyQueue DEF LeftOver
  <2> QED BY <2>1, <2>2, <1>1
<1>4. /\ b.items \in Seq(Item)
      /\ b.rest \in Seq(Item) /\ Distinct(b.rest) /\ Len(b.rest) <= Len(queue[s])
      /\ Msgs(b.items) \cup Msgs(b.rest) \cup b.refused = Msgs(queue[s])
      /\ Msgs(b.items) \cap Msgs(b.rest) = {}
      /\ Msgs(b.rest) \cap b.refused = {}
  BY <1>2, BatchSplits DEF LeftOver
<1> HIDE DEF b
<1>5. st \in Nat
  BY <1>2
<1> HIDE DEF st
<1>6. /\ a.queue \in Seq(Item) /\ Distinct(a.queue) /\ Len(a.queue) <= Len(b.rest)
      /\ a.streak \in Nat
      /\ Msgs(a.queue) \cup a.landed \cup a.refused = Msgs(b.rest)
      /\ Msgs(a.queue) \cap a.landed = {}
      /\ Msgs(a.queue) \cap a.refused = {}
  BY <1>4, <1>5, AbsorbedSplits
<1> HIDE DEF a
<1> DEFINE landed == Msgs(b.items) \cup a.landed
           refused == b.refused \cup a.refused
<1>7. fate' = Mark(Mark(fate, landed, "landed"), refused, "refused")
  BY <1>1, <1>4, MessagesOfProps
<1> HIDE DEF landed, refused
<1>8. fate' \in [Messages -> Fates] /\ Pending(fate') = (Pending(fate) \ landed) \ refused
  <2> DEFINE g == Mark(fate, landed, "landed")
  <2>1. g \in [Messages -> Fates] /\ Pending(g) = Pending(fate) \ landed
    BY <1>2, MarkPends DEF Fates, Types
  <2> HIDE DEF g
  <2>2. /\ Mark(g, refused, "refused") \in [Messages -> Fates]
        /\ Pending(Mark(g, refused, "refused")) = Pending(g) \ refused
    BY <2>1, MarkPends DEF Fates
  <2> QED BY <1>7, <2>1, <2>2 DEF g
<1>9. /\ Pending(fate') = Pending(fate) \ (Msgs(queue[s]) \ Msgs(a.queue))
      /\ Msgs(a.queue) \subseteq Msgs(queue[s])
  BY <1>4, <1>6, <1>8 DEF landed, refused
<1>10. Len(a.queue) <= QueueCap
  BY <1>2, <1>4, <1>6, PendingAssumption
<1>11. /\ run' \in [Sessions -> Run] /\ run'[s].stage = "running" /\ run'[s].laned = run[s].laned
       /\ \A t \in Sessions : t # s => run'[t] = run[t]
  BY <1>1, <1>2 DEF Run, Stages, Statuses
<1>12. /\ streak' \in [Sessions -> Nat]
       /\ dismantled' \subseteq dismantled \cup {s} /\ abortAsked' \subseteq Sessions
  BY <1>1, <1>2, <1>6 DEF Types
<1> QED BY <1>1, <1>3, <1>6, <1>8, <1>9, <1>10, <1>11, <1>12, QueueShrinks

(* runTurns ends and readies the settlement. *)
LEMMA EndRunKeeps ==
  ASSUME IInv, NEW s \in Sessions, EndRun(s)
  PROVE  IInv'
<1> DEFINE b == LeftOver(s)
           looked == run[s].status = "completed"
           q == IF looked THEN b.rest ELSE queue[s]
           ins == <<SettleJob(s)>>
           u == Lineup(jobs, waiting)
           v == Lineup(jobs \o ins, waiting)
<1>1. /\ run[s].stage = "looped"
      /\ run' = [run EXCEPT ![s].stage = "ended"]
      /\ queue' = IF looked THEN [queue EXCEPT ![s] = b.rest] ELSE queue
      /\ fate' = IF looked THEN Mark(fate, b.refused, "refused") ELSE fate
      /\ jobs' = Append(jobs, SettleJob(s))
      /\ ~Continues(s)
      /\ streak' = streak /\ dismantled' = dismantled
      /\ abortAsked' = abortAsked /\ queuedKicks' = queuedKicks
      /\ inFlight' = inFlight /\ waiting' = waiting
  BY DEF EndRun, laneVars
<1>2. /\ Types /\ DismantledEmpty /\ HousedIn(queue, u, Pending(fate))
      /\ SettlesEnded(jobs) /\ SlotsCounted(jobs) /\ KicksCounted(jobs)
      /\ queue[s] \in Seq(Item) /\ Len(queue[s]) <= QueueCap
      /\ Distinct(queue[s]) /\ run \in [Sessions -> Run] /\ queue \in [Sessions -> Seq(Item)]
      /\ jobs \in Seq(Job) /\ waiting \in Seq(Kick) /\ fate \in [Messages -> Fates]
  BY DEF IInv, Types, Housed, HousedIn, Upcoming
<1>3. /\ SettleJob(s) \in Job /\ SettleJob(s).do = "settle" /\ SettleJob(s).sid = s
  BY JobFields
<1>4. /\ b.items \in Seq(Item) /\ b.rest \in Seq(Item) /\ Distinct(b.rest)
      /\ Len(b.rest) <= Len(queue[s])
      /\ Msgs(b.items) \cup Msgs(b.rest) \cup b.refused = Msgs(queue[s])
      /\ Msgs(b.rest) \cap b.refused = {}
  BY <1>2, BatchSplits DEF LeftOver
<1>5. Msgs(b.items) = {} \/ ~looked
  BY <1>1 DEF Continues, Msgs
<1>6. queue[s] = <<>> => b.rest = <<>>
  BY EmptyQueue DEF LeftOver
<1> HIDE DEF b
<1>7. /\ run' \in [Sessions -> Run] /\ run'[s].stage = "ended" /\ run'[s].laned = run[s].laned
      /\ \A t \in Sessions : t # s => run'[t] = run[t]
  BY <1>1, <1>2 DEF Run, Stages
<1>8. /\ queue' = [queue EXCEPT ![s] = q] /\ q \in Seq(Item) /\ Distinct(q) /\ Len(q) <= QueueCap
      /\ Msgs(q) \subseteq Msgs(queue[s])
      /\ queue[s] = <<>> => q = <<>>
  <2>1. CASE looked
    <3>1. Len(b.rest) <= QueueCap
      BY <1>2, <1>4, PendingAssumption
    <3> QED BY <1>1, <1>4, <1>6, <2>1, <3>1
  <2>2. CASE ~looked
    <3>1. [queue EXCEPT ![s] = queue[s]] = queue
      BY <1>2
    <3> QED BY <1>1, <1>2, <2>2, <3>1
  <2> QED BY <2>1, <2>2
<1>9. /\ fate' \in [Messages -> Fates]
      /\ Pending(fate') = (Pending(fate) \ Msgs(queue[s])) \cup Msgs(q)
  <2>0. Msgs(queue[s]) \subseteq Pending(fate)
    BY <1>2 DEF HousedIn
  <2>1. CASE looked
    <3>1. fate' \in [Messages -> Fates] /\ Pending(fate') = Pending(fate) \ b.refused
      BY <1>1, <1>2, <2>1, MarkPends DEF Fates
    <3> QED BY <3>1, <2>0, <2>1, <1>4, <1>5
  <2>2. CASE ~looked
    BY <2>0, <2>2, <1>1, <1>2
  <2> QED BY <2>1, <2>2
<1> HIDE DEF q, looked
<1>10. /\ ins \in Seq(Job) /\ Len(ins) = 1 /\ ins[1] = SettleJob(s) /\ DOMAIN ins = {1}
       /\ jobs' = jobs \o ins /\ jobs \o ins \in Seq(Job)
  BY <1>1, <1>2, <1>3
<1> HIDE DEF ins
<1>11. /\ u \in Seq(Job) /\ v \in Seq(Job)
  BY <1>2, <1>10, LineupType
<1>12. Housed'
  <2>1. \A i \in DOMAIN ins : ins[i].do # "grant"
    BY <1>3, <1>10
  <2>2. HousedIn(queue, v, Pending(fate))
    BY <1>2, <1>10, <2>1, InsertHouses
  <2>3. Msgs(q) \cap (Pending(fate) \ Msgs(queue[s])) = {}
    BY <1>8
  <2>4. HousedIn(queue', v, (Pending(fate) \ Msgs(queue[s])) \cup Msgs(q))
    BY <1>2, <1>8, <1>11, <2>2, <2>3, QueueHouses
  <2>5. Upcoming' = v
    BY <1>1, <1>10 DEF Upcoming
  <2> QED BY <1>9, <2>4, <2>5 DEF Housed
<1>13. ASSUME NEW X
       PROVE  /\ Cardinality(At(u, X)) \in Nat
              /\ Cardinality(At(v, X)) = Cardinality(At(u, X)) + IF ins[1] \in X THEN 1 ELSE 0
  <2>1. \A i \in 2..Len(ins) : ins[i] \notin X
    BY <1>10
  <2>2. Len(ins) > 0
    BY <1>10
  <2>3. /\ Cardinality(At(u, X)) \in Nat
        /\ Cardinality(At(v, X))
             = Cardinality(At(u, X)) + IF Len(ins) > 0 /\ ins[1] \in X THEN 1 ELSE 0
    <3>1. jobs \in Seq(Job) /\ ins \in Seq(Job) /\ waiting \in Seq(Kick)
      BY <1>2, <1>10
    <3> QED BY <3>1, <2>1, CountInsert
  <2> HIDE DEF u, v
  <2> QED BY <2>2, <2>3
<1>14. \A X : Cardinality(At(jobs', X)) = Cardinality(At(jobs, X)) + IF SettleJob(s) \in X THEN 1 ELSE 0
  BY <1>1, <1>2, <1>3, CountAppend
<1>15. /\ jobs' \in Seq(Job) /\ Cardinality(SlotsIn(jobs)) \in Nat
       /\ \A t \in Sessions : Cardinality(SettlesIn(jobs, t)) \in Nat
  BY <1>2, <1>10, CountedNat
<1>16. SettlesEnded(jobs)'
  <2>1. \A t \in Sessions : SettleJob(s) \in {SettleJob(t)} <=> t = s
    BY <1>3, JobFields
  <2>2. \A t \in Sessions : Cardinality(SettlesIn(jobs', t))
                              = Cardinality(SettlesIn(jobs, t)) + IF t = s THEN 1 ELSE 0
    <3>1. \A t \in Sessions : SettlesIn(jobs', t) = At(jobs', {SettleJob(t)})
                              /\ SettlesIn(jobs, t) = At(jobs, {SettleJob(t)})
      BY <1>2, <1>15, CountedKinds
    <3> QED BY <3>1, <2>1, <1>14
  <2>3. \A t \in Sessions : Cardinality(SettlesIn(jobs, t))
                              = IF run[t].stage = "ended" THEN 1 ELSE 0
    BY <1>2 DEF SettlesEnded
  <2>4. ASSUME NEW t \in Sessions
        PROVE  Cardinality(SettlesIn(jobs', t)) = IF run'[t].stage = "ended" THEN 1 ELSE 0
    BY <1>1, <1>7, <2>2, <2>3
  <2> QED BY <2>4 DEF SettlesEnded
<1>17. SlotsCounted(jobs)'
  <2>1. BusySessions' = BusySessions
    BY <1>1, <1>7 DEF BusySessions, Busy
  <2>2. SettleJob(s) \notin SlotKind
    BY <1>3 DEF SlotKind
  <2>3. Cardinality(SlotsIn(jobs')) = Cardinality(SlotsIn(jobs))
    <3>1. SlotsIn(jobs') = At(jobs', SlotKind) /\ SlotsIn(jobs) = At(jobs, SlotKind)
      BY <1>2, <1>15, CountedKinds
    <3>2. Cardinality(SlotsIn(jobs')) = Cardinality(SlotsIn(jobs)) + 0
      BY <3>1, <2>2, <1>14
    <3> QED BY <3>2, <1>15
  <2> QED BY <1>1, <1>2, <2>1, <2>3 DEF SlotsCounted
<1>18. KicksCounted(jobs)'
  <2>1. ASSUME NEW t \in Sessions
        PROVE  Cardinality(OwedIn(v, t)) = Cardinality(OwedIn(u, t))
    <3>1. OwedIn(v, t) = At(v, OwingKind(t)) /\ OwedIn(u, t) = At(u, OwingKind(t))
      BY <1>11, CountedKinds
    <3>2. ins[1] \notin OwingKind(t)
      BY <1>3, <1>10 DEF OwingKind, Owes
    <3>3. Cardinality(At(u, OwingKind(t))) \in Nat
          /\ Cardinality(At(v, OwingKind(t))) = Cardinality(At(u, OwingKind(t))) + 0
      BY <1>13, <3>2
    <3> QED BY <3>1, <3>3
  <2>2. \A t \in Sessions : /\ run[t].laned => run[t].stage # "idle"
                            /\ queuedKicks[t] = Cardinality(OwedIn(u, t))
                                                + IF run[t].laned THEN 1 ELSE 0
    BY <1>2 DEF KicksCounted, Busy
  <2>3. Lineup(jobs, waiting)' = v
    BY <1>1, <1>10
  <2> HIDE DEF u, v
  <2>4. ASSUME NEW t \in Sessions
        PROVE  /\ run'[t].laned => run'[t].stage # "idle"
               /\ queuedKicks'[t] = Cardinality(OwedIn(v, t)) + IF run'[t].laned THEN 1 ELSE 0
    BY <1>1, <1>7, <2>1, <2>2
  <2> QED BY <2>3, <2>4 DEF KicksCounted, Busy
<1>19. /\ queue' \in [Sessions -> Seq(Item)]
       /\ \A t \in Sessions : queue'[t] = IF t = s THEN q ELSE queue[t]
  BY <1>2, <1>8
<1>20. Types'
  <2>1. \A t \in Sessions : Len(queue'[t]) <= QueueCap
    BY <1>2, <1>8, <1>19 DEF Types
  <2> QED BY <1>1, <1>2, <1>7, <1>9, <1>15, <1>19, <2>1 DEF Types
<1>21. DismantledEmpty'
  BY <1>1, <1>2, <1>8, <1>19 DEF DismantledEmpty, Types
<1> QED BY <1>12, <1>16, <1>17, <1>18, <1>20, <1>21 DEF IInv

-----------------------------------------------------------------------------
(* The jobs. *)

(* The settlement: the run becomes idle, its release and followers ready. *)
LEMMA SettleKeeps ==
  ASSUME IInv, Settle
  PROVE  IInv'
<1> DEFINE s == Head(jobs).sid
           js == Tail(jobs)
           st == run[s].status
           laned == run[s].laned
           n == IF st = "crashed" THEN 0 ELSE run[s].riders
           ins == Readied(ReleaseJob(s, laned), s, n, st)
           u == Lineup(js, waiting)
           v == Lineup(js \o ins, waiting)
<1>1. /\ Types /\ DismantledEmpty /\ HousedIn(queue, Upcoming, Pending(fate))
      /\ SettlesEnded(jobs) /\ SlotsCounted(jobs) /\ KicksCounted(jobs)
      /\ run \in [Sessions -> Run] /\ jobs \in Seq(Job) /\ waiting \in Seq(Kick)
  BY DEF IInv, Types, Housed
<1>2. /\ jobs # <<>> /\ Head(jobs).do = "settle"
      /\ run' = [run EXCEPT ![s] = [NoRun EXCEPT !.status = st]]
      /\ jobs' = Append(js, ReleaseJob(s, laned)) \o Followers(s, n, st)
      /\ queue' = queue /\ streak' = streak /\ dismantled' = dismantled /\ fate' = fate
      /\ abortAsked' = abortAsked /\ queuedKicks' = queuedKicks
      /\ inFlight' = inFlight /\ waiting' = waiting
  BY DEF Settle, Next1, laneVars, Followers
<1>3. Head(jobs) \in Job /\ js \in Seq(Job)
  <2>1. jobs \in Seq(Job) /\ jobs # <<>>
    BY <1>1, <1>2
  <2> QED BY ONLY <2>1
<1>4. s \in Sessions /\ Head(jobs) = SettleJob(s)
  BY <1>2, <1>3, JobFields
<1>5. \A t \in Sessions : Head(jobs) = SettleJob(t) <=> t = s
  BY <1>4, JobFields
<1>6. Head(jobs) \notin SlotKind /\ \A t \in Sessions : ~Owes(Head(jobs), t)
  BY <1>2 DEF SlotKind, Owes
<1>7. /\ Cardinality(SlotsIn(js)) \in Nat
      /\ Cardinality(SlotsIn(jobs)) = Cardinality(SlotsIn(js)) + 0
      /\ \A t \in Sessions :
           /\ Cardinality(SettlesIn(js, t)) \in Nat
           /\ Cardinality(SettlesIn(jobs, t))
                = Cardinality(SettlesIn(js, t)) + IF t = s THEN 1 ELSE 0
      /\ \A t \in Sessions :
           /\ Cardinality(OwedIn(u, t)) \in Nat
           /\ Cardinality(OwedIn(Upcoming, t)) = Cardinality(OwedIn(u, t)) + 0
  BY <1>1, <1>2, <1>5, <1>6, FirstRuns DEF Upcoming
<1>8. run[s].stage = "ended" /\ run[s] \in Run
  BY <1>1, <1>4, <1>7 DEF SettlesEnded
<1>9. st \in Statuses /\ laned \in BOOLEAN /\ n \in Nat
  BY <1>8 DEF Run
<1> HIDE DEF s, js, st, laned, n
<1>10. /\ ins \in Seq(Job) /\ Len(ins) > 0 /\ ins[1] = ReleaseJob(s, laned)
       /\ \A i \in 2..Len(ins) : ins[i] = FollowJob(s, st)
       /\ jobs' = js \o ins /\ js \o ins \in Seq(Job)
  <2> DEFINE r == ReleaseJob(s, laned)
  <2>1. r \in Job
    BY <1>4, <1>9, JobFields
  <2> HIDE DEF r
  <2>2. js \in Seq(Job) /\ s \in Sessions /\ st \in Statuses /\ n \in Nat
    BY <1>3, <1>4, <1>9
  <2>3. /\ Readied(r, s, n, st) \in Seq(Job) /\ Len(Readied(r, s, n, st)) > 0
        /\ Readied(r, s, n, st)[1] = r
    BY <2>1, <2>2, ReleaseFirst
  <2>4. \A i \in 2..Len(Readied(r, s, n, st)) : Readied(r, s, n, st)[i] = FollowJob(s, st)
    BY <2>1, <2>2, ReleaseFirst
  <2>5. /\ Append(js, r) \o Followers(s, n, st) = js \o Readied(r, s, n, st)
        /\ js \o Readied(r, s, n, st) \in Seq(Job)
    BY <2>1, <2>2, ReleaseFirst
  <2> QED BY <1>2, <2>3, <2>4, <2>5 DEF r
<1> HIDE DEF ins
<1>11. /\ ReleaseJob(s, laned).do = "release" /\ ReleaseJob(s, laned).sid = s
       /\ ReleaseJob(s, laned).laned = laned /\ ReleaseJob(s, laned) \in Job
       /\ FollowJob(s, st).do = "follow"
  BY <1>4, <1>9, JobFields
<1>12. /\ run' \in [Sessions -> Run] /\ run'[s].stage = "idle" /\ run'[s].laned = FALSE
       /\ \A t \in Sessions : t # s => run'[t] = run[t]
  BY <1>1, <1>2, <1>4, <1>9 DEF Run, NoRun, Stages, Statuses
<1>13. u \in Seq(Job) /\ v \in Seq(Job) /\ u = Tail(Upcoming) /\ Upcoming # <<>>
       /\ Head(Upcoming) = Head(jobs) /\ Upcoming \in Seq(Job)
  BY <1>1, <1>2, <1>3, <1>10, LineupMoves, LineupType DEF Upcoming, js
<1>14. Upcoming' = v
  BY <1>2, <1>10 DEF Upcoming
<1>15. Housed'
  <2>1. HousedIn(queue, Lineup(js, waiting), Pending(fate))
    <3>1. Head(Upcoming).do # "grant"
      BY <1>2, <1>13
    <3>2. HousedIn(queue, Tail(Upcoming), Pending(fate))
      BY <1>1, <1>13, <3>1, FirstLeaves
    <3> QED BY <3>2, <1>13
  <2>2. \A i \in DOMAIN ins : ins[i].do # "grant"
    <3>1. \A i \in DOMAIN ins : i = 1 \/ i \in 2..Len(ins)
      BY <1>10
    <3> QED BY <3>1, <1>10, <1>11
  <2>3. HousedIn(queue, v, Pending(fate))
    BY <1>1, <1>3, <1>10, <2>1, <2>2, InsertHouses
  <2> QED BY <1>2, <1>14, <2>3 DEF Housed
<1>16. ASSUME NEW X, FollowJob(s, st) \notin X
       PROVE  /\ Cardinality(At(js \o ins, X))
                   = Cardinality(At(js, X)) + IF ReleaseJob(s, laned) \in X THEN 1 ELSE 0
              /\ Cardinality(At(v, X))
                   = Cardinality(At(u, X)) + IF ReleaseJob(s, laned) \in X THEN 1 ELSE 0
  <2>1. \A i \in 2..Len(ins) : ins[i] \notin X
    BY <1>10, <1>16
  <2>2. js \in Seq(Job) /\ ins \in Seq(Job) /\ waiting \in Seq(Kick)
    BY <1>1, <1>3, <1>10
  <2>3. Cardinality(At(js \o ins, X))
          = Cardinality(At(js, X)) + IF Len(ins) > 0 /\ ins[1] \in X THEN 1 ELSE 0
    BY <2>1, <2>2, CountJoin
  <2>4. Cardinality(At(v, X))
          = Cardinality(At(u, X)) + IF Len(ins) > 0 /\ ins[1] \in X THEN 1 ELSE 0
    BY <2>1, <2>2, CountInsert
  <2>5. Len(ins) > 0 /\ ins[1] = ReleaseJob(s, laned)
    BY <1>10
  <2> HIDE DEF u, v
  <2> QED BY <2>3, <2>4, <2>5
<1> HIDE DEF u, v
<1>17. jobs' \in Seq(Job) /\ jobs' = js \o ins
  BY <1>10
<1>18. SettlesEnded(jobs)'
  <2>1. ASSUME NEW t \in Sessions
        PROVE  Cardinality(SettlesIn(jobs', t)) = Cardinality(SettlesIn(js, t))
    <3>1. SettlesIn(jobs', t) = At(jobs', {SettleJob(t)})
          /\ SettlesIn(js, t) = At(js, {SettleJob(t)})
      BY <1>3, <1>17, CountedKinds
    <3>2. FollowJob(s, st) \notin {SettleJob(t)} /\ ReleaseJob(s, laned) \notin {SettleJob(t)}
      BY <1>11, JobFields
    <3>3. Cardinality(At(jobs', {SettleJob(t)})) = Cardinality(At(js, {SettleJob(t)})) + 0
      BY <1>16, <1>17, <3>2
    <3> QED BY <1>7, <3>1, <3>3
  <2>2. \A t \in Sessions : Cardinality(SettlesIn(jobs, t))
                              = IF run[t].stage = "ended" THEN 1 ELSE 0
    BY <1>1 DEF SettlesEnded
  <2>3. ASSUME NEW t \in Sessions
        PROVE  Cardinality(SettlesIn(jobs', t)) = IF run'[t].stage = "ended" THEN 1 ELSE 0
    BY <1>7, <1>8, <1>12, <2>1, <2>2
  <2> QED BY <2>3 DEF SettlesEnded
<1>19. SlotsCounted(jobs)'
  <2>1. BusySessions' = BusySessions \ {s} /\ s \in BusySessions
    BY <1>4, <1>8, <1>12 DEF BusySessions, Busy
  <2>2. /\ IsFiniteSet(BusySessions) /\ Cardinality(BusySessions) \in Nat
        /\ inFlight = Cardinality(BusySessions) + Cardinality(SlotsIn(jobs))
        /\ inFlight <= Capacity
        /\ waiting # <<>> => inFlight = Capacity
    BY <1>1, FS_CardinalityType DEF SlotsCounted
  <2>3. IsFiniteSet(BusySessions') /\ Cardinality(BusySessions') = Cardinality(BusySessions) - 1
    BY <2>1, <2>2, FS_RemoveElement
  <2>4. Cardinality(SlotsIn(jobs')) = Cardinality(SlotsIn(js)) + 1
    <3>1. SlotsIn(jobs') = At(jobs', SlotKind) /\ SlotsIn(js) = At(js, SlotKind)
      BY <1>3, <1>17, CountedKinds
    <3>2. FollowJob(s, st) \notin SlotKind /\ ReleaseJob(s, laned) \in SlotKind
      BY <1>11 DEF SlotKind
    <3> QED BY <1>16, <1>17, <3>1, <3>2
  <2>5. inFlight = Cardinality(BusySessions') + Cardinality(SlotsIn(jobs'))
    BY <1>7, <2>2, <2>3, <2>4
  <2> QED BY <1>2, <2>2, <2>3, <2>5 DEF SlotsCounted
<1>20. KicksCounted(jobs)'
  <2>1. ASSUME NEW t \in Sessions
        PROVE  Cardinality(OwedIn(v, t))
                 = Cardinality(OwedIn(u, t)) + IF t = s /\ laned THEN 1 ELSE 0
    <3>1. OwedIn(v, t) = At(v, OwingKind(t)) /\ OwedIn(u, t) = At(u, OwingKind(t))
      BY <1>13, CountedKinds
    <3>2. FollowJob(s, st) \notin OwingKind(t)
          /\ (ReleaseJob(s, laned) \in OwingKind(t) <=> t = s /\ laned)
      BY <1>11 DEF OwingKind, Owes
    <3> QED BY <1>16, <3>1, <3>2
  <2>2. \A t \in Sessions : /\ run[t].laned => run[t].stage # "idle"
                            /\ queuedKicks[t] = Cardinality(OwedIn(Upcoming, t))
                                                + IF run[t].laned THEN 1 ELSE 0
    BY <1>1 DEF KicksCounted, Busy, Upcoming
  <2>3. ASSUME NEW t \in Sessions
        PROVE  /\ run'[t].laned => run'[t].stage # "idle"
               /\ queuedKicks'[t] = Cardinality(OwedIn(v, t)) + IF run'[t].laned THEN 1 ELSE 0
    <3>1. CASE t = s
      BY <3>1, <1>2, <1>7, <1>12, <2>1, <2>2 DEF laned
    <3>2. CASE t # s
      BY <3>2, <1>2, <1>7, <1>12, <2>1, <2>2
    <3> QED BY <3>1, <3>2
  <2> QED BY <1>14, <2>3 DEF KicksCounted, Busy, Upcoming
<1>21. Types' /\ DismantledEmpty'
  BY <1>1, <1>2, <1>12, <1>17 DEF Types, DismantledEmpty
<1> QED BY <1>15, <1>18, <1>19, <1>20, <1>21 DEF IInv

(* A job that stands for a slot runs, and the slot is released. *)
LEMMA SlotJobRuns ==
  ASSUME IInv, jobs # <<>>, Head(jobs) \in SlotKind, FreeSlot(Tail(jobs)), run' = run,
         NEW s \in Sessions, NEW laned \in BOOLEAN,
         \A t \in Sessions : Owes(Head(jobs), t) <=> t = s /\ laned, Uncount(s, laned)
  PROVE  /\ SettlesEnded(jobs)' /\ SlotsCounted(jobs)' /\ KicksCounted(jobs)'
         /\ Upcoming' = Tail(Upcoming) /\ Head(Upcoming) = Head(jobs) /\ Upcoming # <<>>
         /\ Upcoming \in Seq(Job) /\ Tail(Upcoming) \in Seq(Job)
         /\ jobs' \in Seq(Job) /\ waiting' \in Seq(Kick) /\ inFlight' \in Nat
         /\ queuedKicks' \in [Sessions -> Nat]
<1>1. /\ Types /\ SettlesEnded(jobs) /\ SlotsCounted(jobs) /\ KicksCounted(jobs)
      /\ jobs \in Seq(Job) /\ waiting \in Seq(Kick)
  BY DEF IInv, Types
<1>2. /\ SlotsCounted(jobs)' /\ jobs' \in Seq(Job) /\ waiting' \in Seq(Kick)
      /\ inFlight' \in Nat /\ Upcoming' = Tail(Upcoming)
      /\ \A t \in Sessions :
           Cardinality(SettlesIn(jobs', t)) = Cardinality(SettlesIn(Tail(jobs), t))
  BY <1>1, SlotFreed
<1>3. KicksCounted(jobs)' /\ queuedKicks' \in [Sessions -> Nat]
  BY <1>1, <1>2, KickUncounted
<1>4. /\ Upcoming \in Seq(Job) /\ Upcoming # <<>> /\ Head(Upcoming) = Head(jobs)
      /\ Tail(Upcoming) \in Seq(Job)
  <2>1. Upcoming \in Seq(Job) /\ Upcoming # <<>> /\ Head(Upcoming) = Head(jobs)
    BY <1>1, LineupMoves, LineupType DEF Upcoming
  <2> QED BY <2>1
<1>5. SettlesEnded(jobs)'
  <2>1. \A t \in Sessions : Head(jobs) # SettleJob(t)
    BY JobFields DEF SlotKind
  <2>2. \A t \in Sessions :
          /\ Cardinality(SettlesIn(Tail(jobs), t)) \in Nat
          /\ Cardinality(SettlesIn(jobs, t))
               = Cardinality(SettlesIn(Tail(jobs), t)) + IF Head(jobs) = SettleJob(t) THEN 1 ELSE 0
    BY <1>1, FirstRuns
  <2>3. \A t \in Sessions :
          Cardinality(SettlesIn(jobs', t)) = IF run[t].stage = "ended" THEN 1 ELSE 0
    BY <1>1, <1>2, <2>1, <2>2 DEF SettlesEnded
  <2> QED BY <2>3 DEF SettlesEnded
<1> QED BY <1>2, <1>3, <1>4, <1>5

(* The slot of a settled run is released. *)
LEMMA ReleaseKeeps ==
  ASSUME IInv, Release
  PROVE  IInv'
<1> DEFINE s == Head(jobs).sid
           laned == Head(jobs).laned
<1>1. /\ Types /\ DismantledEmpty /\ HousedIn(queue, Upcoming, Pending(fate))
      /\ jobs \in Seq(Job)
  BY DEF IInv, Types, Housed
<1>2. /\ jobs # <<>> /\ Head(jobs).do = "release" /\ FreeSlot(Tail(jobs))
      /\ Uncount(s, laned)
      /\ queue' = queue /\ streak' = streak /\ run' = run /\ dismantled' = dismantled
      /\ abortAsked' = abortAsked /\ fate' = fate
  BY DEF Release, Next1
<1>3. Head(jobs) \in Job
  BY <1>1, <1>2
<1>4. s \in Sessions /\ laned \in BOOLEAN /\ Head(jobs) \in SlotKind
  BY <1>2, <1>3, JobFields DEF SlotKind
<1>5. \A t \in Sessions : Owes(Head(jobs), t) <=> t = s /\ laned
  BY <1>2 DEF Owes
<1> HIDE DEF s, laned
<1>6. /\ SettlesEnded(jobs)' /\ SlotsCounted(jobs)' /\ KicksCounted(jobs)'
      /\ Upcoming' = Tail(Upcoming) /\ Head(Upcoming) = Head(jobs) /\ Upcoming # <<>>
      /\ Upcoming \in Seq(Job)
      /\ jobs' \in Seq(Job) /\ waiting' \in Seq(Kick) /\ inFlight' \in Nat
      /\ queuedKicks' \in [Sessions -> Nat]
  BY <1>2, <1>4, <1>5, SlotJobRuns
<1>7. HousedIn(queue, Tail(Upcoming), Pending(fate))
  <2>1. Head(Upcoming).do # "grant"
    BY <1>2, <1>6
  <2> QED BY <1>1, <1>6, <2>1, FirstLeaves
<1>8. Housed' /\ DismantledEmpty'
  BY <1>1, <1>2, <1>6, <1>7 DEF Housed, DismantledEmpty
<1>9. Types'
  BY <1>1, <1>2, <1>6 DEF Types
<1> QED BY <1>6, <1>8, <1>9 DEF IInv

(* seedQueuedFollowUps of a held submission. *)
LEMMA FollowUpKeeps ==
  ASSUME IInv, FollowUp
  PROVE  IInv'
<1> DEFINE s == Head(jobs).sid
           js == Tail(jobs)
           held == Held(queue[s])
           u == Lineup(js, waiting)
<1>1. /\ Types /\ DismantledEmpty /\ HousedIn(queue, Upcoming, Pending(fate))
      /\ SettlesEnded(jobs) /\ SlotsCounted(jobs) /\ KicksCounted(jobs)
      /\ jobs \in Seq(Job) /\ waiting \in Seq(Kick) /\ queue \in [Sessions -> Seq(Item)]
  BY DEF IInv, Types, Housed
<1>2. /\ jobs # <<>> /\ Head(jobs).do = "follow"
      /\ \/ SeedsFollowUps(s, Head(jobs).status)
            /\ DoKick(s, MessagesOf(held), AnyWake(held), NotHeld(queue[s]), fate)
         \/ UNCHANGED <<queue, streak, run, queuedKicks, laneVars, fate>>
      /\ jobs' = js /\ UNCHANGED <<dismantled, abortAsked>>
  BY DEF FollowUp, Next1
<1>3. Head(jobs) \in Job /\ js \in Seq(Job)
  <2>1. jobs \in Seq(Job) /\ jobs # <<>>
    BY <1>1, <1>2
  <2> QED BY ONLY <2>1
<1>4. s \in Sessions
  BY <1>2, <1>3, JobFields
<1>5. /\ Head(jobs) \notin SlotKind /\ \A t \in Sessions : ~Owes(Head(jobs), t)
      /\ \A t \in Sessions : Head(jobs) # SettleJob(t)
  BY <1>2, JobFields DEF SlotKind, Owes
<1>6. /\ Cardinality(SlotsIn(js)) \in Nat
      /\ Cardinality(SlotsIn(jobs)) = Cardinality(SlotsIn(js)) + 0
      /\ \A t \in Sessions :
           /\ Cardinality(SettlesIn(js, t)) \in Nat
           /\ Cardinality(SettlesIn(jobs, t)) = Cardinality(SettlesIn(js, t)) + 0
      /\ \A t \in Sessions :
           /\ Cardinality(OwedIn(u, t)) \in Nat
           /\ Cardinality(OwedIn(Upcoming, t)) = Cardinality(OwedIn(u, t)) + 0
  BY <1>1, <1>2, <1>5, FirstRuns DEF Upcoming
<1>7. /\ Upcoming \in Seq(Job) /\ Upcoming # <<>> /\ Head(Upcoming) = Head(jobs)
      /\ u = Tail(Upcoming)
  BY <1>1, <1>2, LineupMoves, LineupType DEF Upcoming
<1>8. HousedIn(queue, u, Pending(fate))
  <2>1. Head(Upcoming).do # "grant"
    BY <1>2, <1>7
  <2>2. HousedIn(queue, Tail(Upcoming), Pending(fate))
    BY <1>1, <1>7, <2>1, FirstLeaves
  <2> QED BY <1>7, <2>2
<1> HIDE DEF s, js
<1>9. SettlesEnded(js) /\ SlotsCounted(js) /\ KicksCounted(js)
  <2>1. SettlesEnded(js)
    BY <1>1, <1>6 DEF SettlesEnded
  <2>2. SlotsCounted(js)
    BY <1>1, <1>6 DEF SlotsCounted
  <2>3. KicksCounted(js)
    BY <1>1, <1>6 DEF KicksCounted, Upcoming
  <2> QED BY <2>1, <2>2, <2>3
<1>10. CASE /\ SeedsFollowUps(s, Head(jobs).status)
            /\ DoKick(s, MessagesOf(held), AnyWake(held), NotHeld(queue[s]), fate)
  <2> DEFINE q == NotHeld(queue[s])
             seeds == MessagesOf(held)
             wake == AnyWake(held)
             P == Pending(fate)
  <2>1. ~Busy(s) /\ held # <<>>
    BY <1>10 DEF SeedsFollowUps
  <2>2. queue[s] \in Seq(Item) /\ Distinct(queue[s]) /\ Msgs(queue[s]) \subseteq P
        /\ Len(queue[s]) <= QueueCap
    BY <1>1, <1>4 DEF HousedIn, Types
  <2>3. /\ held \in Seq(Item) /\ Distinct(held)
        /\ q \in Seq(Item) /\ Distinct(q) /\ Len(q) <= Len(queue[s])
        /\ Msgs(held) \cup Msgs(q) = Msgs(queue[s])
        /\ Msgs(held) \cap Msgs(q) = {}
    BY <2>2, HeldSplits
  <2>4. s \notin dismantled
    <3>1. s \in dismantled => queue[s] = <<>>
      BY <1>1 DEF DismantledEmpty
    <3>2. queue[s] = <<>> => held = <<>>
      BY EmptyHeld
    <3> QED BY <2>1, <3>1, <3>2
  <2> HIDE DEF held, q
  <2>5. seeds \in Seq(Messages) /\ ToSet(seeds) = Msgs(held) /\ NoRepeat(seeds)
    BY <2>3, MessagesOnce
  <2>6. wake \in BOOLEAN
    BY DEF AnyWake
  <2> HIDE DEF seeds, wake
  <2>7. Len(q) <= QueueCap
    BY <2>2, <2>3, PendingAssumption
  <2>8. fate \in [Messages -> Fates]
    BY <1>1 DEF Types
  <2>9. P = (P \ Msgs(queue[s])) \cup Msgs(q) \cup ToSet(seeds)
    BY <2>2, <2>3, <2>5
  <2>10. KickReady(u, P, s, seeds, q, fate)
    BY <1>8, <2>2, <2>3, <2>5, <2>7, <2>8, <2>9 DEF KickReady
  <2>11. DoKick(s, seeds, wake, q, fate)
    BY <1>10 DEF seeds, wake, q, held
  <2> HIDE DEF P
  <2> QED BY <1>1, <1>2, <1>3, <1>4, <1>9, <2>1, <2>4, <2>6, <2>10, <2>11, KickKeeps DEF js
<1>11. CASE UNCHANGED <<queue, streak, run, queuedKicks, laneVars, fate>>
  <2>1. /\ queue' = queue /\ streak' = streak /\ run' = run /\ queuedKicks' = queuedKicks
        /\ inFlight' = inFlight /\ waiting' = waiting /\ fate' = fate /\ jobs' = js
        /\ dismantled' = dismantled /\ abortAsked' = abortAsked
    BY <1>2, <1>11 DEF laneVars, js
  <2>2. SettlesEnded(jobs)'
    BY <1>9, <2>1 DEF SettlesEnded
  <2>3. SlotsCounted(jobs)'
    <3>1. BusySessions' = BusySessions
      BY <2>1 DEF BusySessions, Busy
    <3> QED BY <1>9, <2>1, <3>1 DEF SlotsCounted
  <2>4. KicksCounted(jobs)'
    BY <1>9, <2>1 DEF KicksCounted, Busy
  <2>5. Housed' /\ DismantledEmpty'
    BY <1>1, <1>8, <2>1 DEF Housed, DismantledEmpty, Upcoming
  <2>6. Types'
    BY <1>1, <1>3, <2>1 DEF Types
  <2> QED BY <2>2, <2>3, <2>4, <2>5, <2>6 DEF IInv
<1> QED BY <1>2, <1>10, <1>11 DEF s

(* What is known when a kick gets its slot. *)
LEMMA GrantRuns ==
  ASSUME IInv, Next1("grant")
  PROVE  LET k == Head(jobs).kick
             P == Pending(fate) \ ToSet(k.seeds)
         IN  /\ jobs # <<>> /\ k \in Kick /\ k.sid \in Sessions /\ k.seeds \in Seq(Messages)
             /\ k.wake \in BOOLEAN /\ Head(jobs) \in SlotKind
             /\ \A t \in Sessions : Owes(Head(jobs), t) <=> t = k.sid /\ TRUE
             /\ NoRepeat(k.seeds) /\ ToSet(k.seeds) \subseteq Pending(fate)
             /\ HousedIn(queue, Tail(Upcoming), P) /\ Tail(Upcoming) \in Seq(Job)
             /\ Lineup(Tail(jobs), waiting) = Tail(Upcoming)
             /\ \A s \in Sessions : Msgs(queue[s]) \subseteq P /\ Distinct(queue[s])
             /\ \A s \in Sessions : Msgs(queue[s]) \cap ToSet(k.seeds) = {}
<1> DEFINE k == Head(jobs).kick
           S == ToSet(k.seeds)
           P == Pending(fate) \ S
<1>1. /\ jobs # <<>> /\ Head(jobs).do = "grant" /\ jobs \in Seq(Job) /\ waiting \in Seq(Kick)
      /\ HousedIn(queue, Upcoming, Pending(fate))
  BY DEF IInv, Types, Housed, Next1
<1>2. Head(jobs) \in Job
  BY <1>1
<1>3. k \in Kick /\ Head(jobs) \in SlotKind
  BY <1>1, <1>2, JobFields DEF SlotKind
<1>4. \A t \in Sessions : Owes(Head(jobs), t) <=> t = k.sid /\ TRUE
  BY <1>1 DEF Owes
<1>5. k.sid \in Sessions /\ k.seeds \in Seq(Messages) /\ k.wake \in BOOLEAN
  BY <1>3, KickFields
<1>6. /\ Upcoming \in Seq(Job) /\ Upcoming # <<>> /\ Head(Upcoming) = Head(jobs)
      /\ Lineup(Tail(jobs), waiting) = Tail(Upcoming)
  BY <1>1, LineupMoves, LineupType DEF Upcoming
<1>7. /\ HousedIn(queue, Tail(Upcoming), P) /\ S \subseteq Pending(fate) /\ NoRepeat(k.seeds)
      /\ \A s \in Sessions : Msgs(queue[s]) \cap S = {}
  <2>1. Head(Upcoming).do = "grant"
    BY <1>1, <1>6
  <2>2. /\ HousedIn(queue, Tail(Upcoming), Pending(fate) \ ToSet(Head(Upcoming).kick.seeds))
        /\ ToSet(Head(Upcoming).kick.seeds) \subseteq Pending(fate)
        /\ NoRepeat(Head(Upcoming).kick.seeds)
        /\ \A s \in Sessions : Msgs(queue[s]) \cap ToSet(Head(Upcoming).kick.seeds) = {}
    BY <1>1, <1>6, <2>1, FirstLeaves
  <2> QED BY <2>2, <1>6
<1>8. \A s \in Sessions : Msgs(queue[s]) \subseteq P /\ Distinct(queue[s])
  BY <1>7 DEF HousedIn
<1>9. Tail(Upcoming) \in Seq(Job)
  BY <1>6
<1> QED BY <1>1, <1>3, <1>4, <1>5, <1>6, <1>7, <1>8, <1>9

(* A kick gets its slot after an abort or dismantle. *)
LEMMA GrantStoppedKeeps ==
  ASSUME IInv, GrantStopped
  PROVE  IInv'
<1> DEFINE k == Head(jobs).kick
           s == k.sid
           P == Pending(fate) \ ToSet(k.seeds)
<1>1. /\ Next1("grant") /\ FreeSlot(Tail(jobs)) /\ Uncount(s, TRUE)
      /\ abortAsked' = abortAsked \ {s} /\ fate' = Mark(fate, ToSet(k.seeds), "landed")
      /\ queue' = queue /\ streak' = streak /\ run' = run /\ dismantled' = dismantled
  BY DEF GrantStopped
<1>2. /\ jobs # <<>> /\ s \in Sessions /\ Head(jobs) \in SlotKind
      /\ \A t \in Sessions : Owes(Head(jobs), t) <=> t = s /\ TRUE
      /\ HousedIn(queue, Tail(Upcoming), P)
  BY <1>1, GrantRuns
<1>3. Types /\ DismantledEmpty
  BY DEF IInv
<1> HIDE DEF k, s
<1>4. /\ SettlesEnded(jobs)' /\ SlotsCounted(jobs)' /\ KicksCounted(jobs)'
      /\ Upcoming' = Tail(Upcoming)
      /\ jobs' \in Seq(Job) /\ waiting' \in Seq(Kick) /\ inFlight' \in Nat
      /\ queuedKicks' \in [Sessions -> Nat]
  BY <1>1, <1>2, SlotJobRuns
<1>5. fate' \in [Messages -> Fates] /\ Pending(fate') = P
  BY <1>1, <1>3, MarkPends DEF Fates, Types
<1>6. Housed' /\ DismantledEmpty'
  BY <1>1, <1>2, <1>3, <1>4, <1>5 DEF Housed, DismantledEmpty
<1>7. Types'
  BY <1>1, <1>3, <1>4, <1>5 DEF Types
<1> QED BY <1>4, <1>6, <1>7 DEF IInv

(* A kick gets its slot while its session runs. *)
LEMMA GrantRidesKeeps ==
  ASSUME IInv, GrantRides
  PROVE  IInv'
<1> DEFINE k == Head(jobs).kick
           s == k.sid
           P == Pending(fate) \ ToSet(k.seeds)
           items == [i \in DOMAIN k.seeds |->
                       [msg |-> k.seeds[i], wake |-> k.wake, hold |-> FALSE, ctl |-> FALSE]]
<1>1. /\ Next1("grant") /\ FreeSlot(Tail(jobs)) /\ Uncount(s, TRUE) /\ ~Stopped(s)
      /\ Enqueue(s, items, {})
      /\ streak' = streak /\ run' = run /\ dismantled' = dismantled /\ abortAsked' = abortAsked
  BY DEF GrantRides
<1>2. /\ jobs # <<>> /\ k \in Kick /\ s \in Sessions /\ Head(jobs) \in SlotKind
      /\ \A t \in Sessions : Owes(Head(jobs), t) <=> t = s /\ TRUE
      /\ NoRepeat(k.seeds) /\ ToSet(k.seeds) \subseteq Pending(fate)
      /\ HousedIn(queue, Tail(Upcoming), P) /\ Tail(Upcoming) \in Seq(Job)
  BY <1>1, GrantRuns
<1>3. Types /\ DismantledEmpty
  BY DEF IInv
<1>4. items \in Seq(Item) /\ Distinct(items) /\ Msgs(items) = ToSet(k.seeds)
  BY <1>2, SeedItems
<1> HIDE DEF k, s, items
<1>5. /\ SettlesEnded(jobs)' /\ SlotsCounted(jobs)' /\ KicksCounted(jobs)'
      /\ Upcoming' = Tail(Upcoming)
      /\ jobs' \in Seq(Job) /\ waiting' \in Seq(Kick) /\ inFlight' \in Nat
      /\ queuedKicks' \in [Sessions -> Nat]
  BY <1>1, <1>2, SlotJobRuns
<1>6. Msgs(items) \cap P = {} /\ Pending(fate) \cup Msgs(items) = P \cup Msgs(items)
  BY <1>2, <1>4
<1>7. /\ HousedIn(queue', Tail(Upcoming), Pending(fate'))
      /\ queue' \in [Sessions -> Seq(Item)] /\ \A t \in Sessions : Len(queue'[t]) <= QueueCap
      /\ \A t \in Sessions : t # s => queue'[t] = queue[t]
      /\ fate' \in [Messages -> Fates]
  BY <1>1, <1>2, <1>3, <1>4, <1>6, EnqueueHouses
<1>8. Housed'
  BY <1>5, <1>7 DEF Housed
<1>9. DismantledEmpty'
  BY <1>1, <1>3, <1>7 DEF DismantledEmpty, Stopped, Types
<1>10. Types'
  BY <1>1, <1>3, <1>5, <1>7 DEF Types
<1> QED BY <1>5, <1>8, <1>9, <1>10 DEF IInv

(* The seeds of a kick that got its slot, before a launch. *)
LEMMA GrantReady ==
  ASSUME IInv, Next1("grant")
  PROVE  LET k == Head(jobs).kick
         IN  KickReady(Tail(Upcoming), Pending(fate) \ ToSet(k.seeds), k.sid, k.seeds,
                       queue[k.sid], fate)
<1> DEFINE k == Head(jobs).kick
           s == k.sid
           S == ToSet(k.seeds)
           P == Pending(fate) \ S
<1>1. /\ s \in Sessions /\ k.seeds \in Seq(Messages)
      /\ NoRepeat(k.seeds) /\ S \subseteq Pending(fate)
      /\ HousedIn(queue, Tail(Upcoming), P)
      /\ \A t \in Sessions : Msgs(queue[t]) \subseteq P /\ Distinct(queue[t])
      /\ \A t \in Sessions : Msgs(queue[t]) \cap S = {}
  BY GrantRuns
<1>2. queue[s] \in Seq(Item) /\ Len(queue[s]) <= QueueCap /\ fate \in [Messages -> Fates]
  BY <1>1 DEF IInv, Types
<1>3. Pending(fate) = (P \ Msgs(queue[s])) \cup Msgs(queue[s]) \cup S
  BY <1>1
<1>4. S \cap (P \ Msgs(queue[s])) = {}
  OBVIOUS
<1> QED BY <1>1, <1>2, <1>3, <1>4 DEF KickReady

(* A kick gets its slot and its launch throws. *)
LEMMA GrantThrowsKeeps ==
  ASSUME IInv, GrantThrows
  PROVE  IInv'
<1> DEFINE k == Head(jobs).kick
           s == k.sid
           P == Pending(fate) \ ToSet(k.seeds)
<1>1. /\ Next1("grant") /\ FreeSlot(Tail(jobs)) /\ Uncount(s, TRUE) /\ ~Stopped(s)
      /\ LaunchThrows(s, k.seeds, k.wake, queue[s], fate)
      /\ dismantled' = dismantled /\ abortAsked' = abortAsked
  BY DEF GrantThrows
<1>2. /\ jobs # <<>> /\ s \in Sessions /\ Head(jobs) \in SlotKind /\ k.wake \in BOOLEAN
      /\ \A t \in Sessions : Owes(Head(jobs), t) <=> t = s /\ TRUE
      /\ Tail(Upcoming) \in Seq(Job)
  BY <1>1, GrantRuns
<1>3. KickReady(Tail(Upcoming), P, s, k.seeds, queue[s], fate)
  BY <1>1, GrantReady
<1>4. Types /\ DismantledEmpty
  BY DEF IInv
<1> HIDE DEF k, s, P
<1>5. /\ HousedIn(queue', Tail(Upcoming), Pending(fate'))
      /\ queue' \in [Sessions -> Seq(Item)] /\ \A t \in Sessions : Len(queue'[t]) <= QueueCap
      /\ \A t \in Sessions : t # s => queue'[t] = queue[t]
      /\ streak' \in [Sessions -> Nat] /\ run' = run
      /\ fate' \in [Messages -> Fates]
  BY <1>1, <1>2, <1>3, <1>4, ThrowFails
<1>6. /\ SettlesEnded(jobs)' /\ SlotsCounted(jobs)' /\ KicksCounted(jobs)'
      /\ Upcoming' = Tail(Upcoming)
      /\ jobs' \in Seq(Job) /\ waiting' \in Seq(Kick) /\ inFlight' \in Nat
      /\ queuedKicks' \in [Sessions -> Nat]
  BY <1>1, <1>2, <1>5, SlotJobRuns
<1>7. Housed'
  BY <1>5, <1>6 DEF Housed
<1>8. DismantledEmpty'
  BY <1>1, <1>4, <1>5 DEF DismantledEmpty, Stopped, Types
<1>9. Types'
  BY <1>1, <1>4, <1>5, <1>6 DEF Types
<1> QED BY <1>6, <1>7, <1>8, <1>9 DEF IInv

(* A kick gets its slot and its run starts. *)
LEMMA GrantLaunchesKeeps ==
  ASSUME IInv, GrantLaunches
  PROVE  IInv'
<1> DEFINE k == Head(jobs).kick
           s == k.sid
           P == Pending(fate) \ ToSet(k.seeds)
           js == Tail(jobs)
           u == Tail(Upcoming)
<1>1. /\ Next1("grant") /\ ~Stopped(s) /\ ~Busy(s)
      /\ Launch(s, k.seeds, k.wake, TRUE, queue[s], fate)
      /\ jobs' = js
      /\ dismantled' = dismantled /\ abortAsked' = abortAsked
      /\ queuedKicks' = queuedKicks /\ inFlight' = inFlight /\ waiting' = waiting
  BY DEF GrantLaunches, laneVars
<1>2. /\ jobs # <<>> /\ s \in Sessions /\ Head(jobs) \in SlotKind /\ k.wake \in BOOLEAN
      /\ \A t \in Sessions : Owes(Head(jobs), t) <=> t = s
      /\ u \in Seq(Job) /\ Lineup(js, waiting) = u
  BY <1>1, GrantRuns
<1>3. KickReady(u, P, s, k.seeds, queue[s], fate)
  BY <1>1, GrantReady
<1>4. /\ Types /\ DismantledEmpty
      /\ SettlesEnded(jobs) /\ SlotsCounted(jobs) /\ KicksCounted(jobs)
      /\ jobs \in Seq(Job) /\ waiting \in Seq(Kick) /\ run \in [Sessions -> Run]
      /\ js \in Seq(Job)
  BY <1>2 DEF IInv, Types
<1>5. \A t \in Sessions : Head(jobs) # SettleJob(t)
  BY <1>2, JobFields DEF SlotKind
<1>6. /\ Cardinality(SlotsIn(js)) \in Nat
      /\ Cardinality(SlotsIn(jobs)) = Cardinality(SlotsIn(js)) + 1
      /\ \A t \in Sessions :
           /\ Cardinality(SettlesIn(js, t)) \in Nat
           /\ Cardinality(SettlesIn(jobs, t)) = Cardinality(SettlesIn(js, t)) + 0
      /\ \A t \in Sessions :
           /\ Cardinality(OwedIn(u, t)) \in Nat
           /\ Cardinality(OwedIn(Upcoming, t))
                = Cardinality(OwedIn(u, t)) + IF t = s THEN 1 ELSE 0
  <2>1. /\ Cardinality(SlotsIn(jobs))
             = Cardinality(SlotsIn(js)) + IF Head(jobs) \in SlotKind THEN 1 ELSE 0
        /\ Cardinality(SlotsIn(js)) \in Nat
        /\ \A t \in Sessions :
             /\ Cardinality(SettlesIn(js, t)) \in Nat
             /\ Cardinality(SettlesIn(jobs, t))
                  = Cardinality(SettlesIn(js, t)) + IF Head(jobs) = SettleJob(t) THEN 1 ELSE 0
    BY <1>2, <1>4, FirstRuns
  <2>2. \A t \in Sessions :
          /\ Cardinality(OwedIn(Lineup(js, waiting), t)) \in Nat
          /\ Cardinality(OwedIn(Lineup(jobs, waiting), t))
               = Cardinality(OwedIn(Lineup(js, waiting), t))
                 + IF Owes(Head(jobs), t) THEN 1 ELSE 0
    BY <1>2, <1>4, FirstRuns
  <2>3. \A t \in Sessions :
          /\ Cardinality(OwedIn(u, t)) \in Nat
          /\ Cardinality(OwedIn(Upcoming, t))
               = Cardinality(OwedIn(u, t)) + IF t = s THEN 1 ELSE 0
    BY <1>2, <2>2 DEF Upcoming
  <2> QED BY <1>2, <1>5, <2>1, <2>3
<1> HIDE DEF k, s, P, js, u
<1>7. /\ HousedIn(queue', u, Pending(fate'))
      /\ queue' \in [Sessions -> Seq(Item)] /\ \A t \in Sessions : Len(queue'[t]) <= QueueCap
      /\ \A t \in Sessions : t # s => queue'[t] = queue[t]
      /\ streak' \in [Sessions -> Nat]
      /\ fate' \in [Messages -> Fates]
  <2> DEFINE seeds == k.seeds
             wake == k.wake
             q == queue[s]
  <2>1. /\ Launch(s, seeds, wake, TRUE, q, fate) /\ KickReady(u, P, s, seeds, q, fate)
        /\ wake \in BOOLEAN
    BY <1>1, <1>2, <1>3
  <2>2. Types /\ u \in Seq(Job) /\ s \in Sessions
    BY <1>2, <1>4
  <2> HIDE DEF seeds, wake, q
  <2> QED BY ONLY <2>1, <2>2, LaunchRuns
<1>8. /\ run' \in [Sessions -> Run] /\ run'[s].stage = "running" /\ run'[s].laned = TRUE
      /\ \A t \in Sessions : t # s => run'[t] = run[t]
  <2>1. run' = [run EXCEPT ![s] = [NoRun EXCEPT !.stage = "running", !.laned = TRUE]]
    BY <1>1 DEF Launch
  <2> QED BY <2>1, <1>1, <1>2, <1>4 DEF Run, NoRun, Stages, Statuses
<1>9. Upcoming' = u
  BY <1>1, <1>2 DEF Upcoming
<1>10. run[s].stage = "idle" /\ ~run[s].laned
  BY <1>1, <1>2, <1>4 DEF Busy, KicksCounted
<1>11. SettlesEnded(jobs)'
  <2>1. \A t \in Sessions : Cardinality(SettlesIn(js, t))
                              = IF run[t].stage = "ended" THEN 1 ELSE 0
    BY <1>4, <1>6 DEF SettlesEnded
  <2>2. ASSUME NEW t \in Sessions
        PROVE  Cardinality(SettlesIn(js, t)) = IF run'[t].stage = "ended" THEN 1 ELSE 0
    BY <1>8, <1>10, <2>1
  <2> QED BY <1>1, <2>2 DEF SettlesEnded
<1>12. SlotsCounted(jobs)'
  <2>1. BusySessions' = BusySessions \cup {s} /\ s \notin BusySessions
    BY <1>2, <1>8, <1>10 DEF BusySessions, Busy
  <2>2. /\ IsFiniteSet(BusySessions) /\ Cardinality(BusySessions) \in Nat
        /\ inFlight = Cardinality(BusySessions) + Cardinality(SlotsIn(jobs))
        /\ inFlight <= Capacity
        /\ waiting # <<>> => inFlight = Capacity
    BY <1>4, FS_CardinalityType DEF SlotsCounted
  <2>3. IsFiniteSet(BusySessions') /\ Cardinality(BusySessions') = Cardinality(BusySessions) + 1
    BY <2>1, <2>2, FS_AddElement
  <2>4. inFlight = Cardinality(BusySessions') + Cardinality(SlotsIn(js))
    BY <1>6, <2>2, <2>3
  <2> QED BY <1>1, <2>2, <2>3, <2>4 DEF SlotsCounted
<1>13. KicksCounted(jobs)'
  <2>1. \A t \in Sessions : /\ run[t].laned => run[t].stage # "idle"
                            /\ queuedKicks[t] = Cardinality(OwedIn(Upcoming, t))
                                                + IF run[t].laned THEN 1 ELSE 0
    BY <1>4 DEF KicksCounted, Busy, Upcoming
  <2>2. ASSUME NEW t \in Sessions
        PROVE  /\ run'[t].laned => run'[t].stage # "idle"
               /\ queuedKicks'[t] = Cardinality(OwedIn(u, t)) + IF run'[t].laned THEN 1 ELSE 0
    <3>1. CASE t = s
      BY <3>1, <1>1, <1>6, <1>8, <1>10, <2>1
    <3>2. CASE t # s
      BY <3>2, <1>1, <1>6, <1>8, <2>1
    <3> QED BY <3>1, <3>2
  <2> QED BY <1>9, <2>2 DEF KicksCounted, Busy, Upcoming
<1>14. Housed'
  BY <1>7, <1>9 DEF Housed
<1>15. DismantledEmpty'
  BY <1>1, <1>4, <1>7 DEF DismantledEmpty, Stopped, Types
<1>16. Types'
  BY <1>1, <1>4, <1>7, <1>8 DEF Types
<1> QED BY <1>11, <1>12, <1>13, <1>14, <1>15, <1>16 DEF IInv

-----------------------------------------------------------------------------
(* A message for an idle session. *)

(* submit to an idle session. *)
LEMMA StartWithKeeps ==
  ASSUME IInv, NEW s \in Sessions, NEW m \in Messages, NEW way \in Ways, StartWith(s, m, way)
  PROVE  IInv'
<1> DEFINE b == Batch(queue[s], streak[s], FALSE)
           seeds == Append(MessagesOf(b.items), m)
           wake == b.wake \/ way = "wake"
           q == b.rest
           f == Mark(Mark(fate, {m}, "pending"), b.refused, "refused")
           P == Pending(fate)
<1>1. /\ fate[m] = "new" /\ s \notin dismantled /\ ~Busy(s)
      /\ DoKick(s, seeds, wake, q, f)
      /\ jobs' = jobs /\ UNCHANGED <<dismantled, abortAsked>>
  BY DEF StartWith, Fresh
<1>2. /\ Types /\ DismantledEmpty /\ HousedIn(queue, Upcoming, P)
      /\ SettlesEnded(jobs) /\ SlotsCounted(jobs) /\ KicksCounted(jobs)
      /\ jobs \in Seq(Job) /\ queue[s] \in Seq(Item) /\ Len(queue[s]) <= QueueCap
      /\ fate \in [Messages -> Fates]
  BY DEF IInv, Types, Housed
<1>3. Distinct(queue[s]) /\ Msgs(queue[s]) \subseteq P
  BY <1>2 DEF HousedIn
<1>4. /\ b.items \in Seq(Item) /\ Distinct(b.items)
      /\ q \in Seq(Item) /\ Distinct(q) /\ Len(q) <= Len(queue[s])
      /\ b.wake \in BOOLEAN
      /\ Msgs(b.items) \cup Msgs(q) \cup b.refused = Msgs(queue[s])
      /\ Msgs(b.items) \cap Msgs(q) = {}
      /\ Msgs(b.items) \cap b.refused = {}
      /\ Msgs(q) \cap b.refused = {}
  BY <1>2, <1>3, BatchSplits
<1>5. m \notin P
  BY <1>1 DEF Pending
<1>6. wake \in BOOLEAN
  BY <1>4
<1> HIDE DEF b, q, wake
<1>7. m \notin Msgs(b.items)
  BY <1>3, <1>4, <1>5
<1>8. /\ seeds \in Seq(Messages) /\ ToSet(seeds) = Msgs(b.items) \cup {m} /\ NoRepeat(seeds)
  BY <1>4, <1>7, MessagesOnce
<1>9. f \in [Messages -> Fates] /\ Pending(f) = (P \cup {m}) \ b.refused
  <2> DEFINE g == Mark(fate, {m}, "pending")
  <2>1. g \in [Messages -> Fates] /\ Pending(g) = P \cup {m}
    <3>1. g \in [Messages -> Fates] /\ Pending(g) = P \cup ({m} \cap Messages)
      BY <1>2, MarkPends DEF Fates
    <3> QED BY <3>1
  <2> HIDE DEF g
  <2>2. /\ Mark(g, b.refused, "refused") \in [Messages -> Fates]
        /\ Pending(Mark(g, b.refused, "refused")) = Pending(g) \ b.refused
    BY <2>1, MarkPends DEF Fates
  <2> QED BY <2>1, <2>2 DEF g
<1> HIDE DEF seeds, f, P
<1>10. Pending(f) = (P \ Msgs(queue[s])) \cup Msgs(q) \cup ToSet(seeds)
  BY <1>3, <1>4, <1>5, <1>8, <1>9
<1>11. /\ ToSet(seeds) \cap Msgs(q) = {} /\ ToSet(seeds) \cap (P \ Msgs(queue[s])) = {}
       /\ Msgs(q) \subseteq Msgs(queue[s])
  BY <1>3, <1>4, <1>5, <1>8
<1>12. Len(q) <= QueueCap
  BY <1>2, <1>4, PendingAssumption
<1>13. KickReady(Lineup(jobs, waiting), P, s, seeds, q, f)
  BY <1>2, <1>4, <1>8, <1>9, <1>10, <1>11, <1>12 DEF KickReady, Upcoming
<1> QED BY <1>1, <1>2, <1>6, <1>13, KickKeeps

(* A wake-up beyond the budget, to an idle session. *)
LEMMA RefuseWakeKeeps ==
  ASSUME IInv, NEW s \in Sessions, NEW m \in Messages, RefuseWake(s, m)
  PROVE  IInv'
<1> DEFINE b == Batch(queue[s], streak[s], FALSE)
           seeds == MessagesOf(b.items)
           q == b.rest
           f == Mark(fate, {m} \cup b.refused, "refused")
           P == Pending(fate)
<1>1. /\ fate[m] = "new" /\ s \notin dismantled /\ ~Busy(s)
      /\ IF b.items = <<>>
         THEN /\ queue' = [queue EXCEPT ![s] = q] /\ fate' = f
              /\ UNCHANGED <<streak, run, queuedKicks, laneVars>>
         ELSE DoKick(s, seeds, FALSE, q, f)
      /\ jobs' = jobs /\ UNCHANGED <<dismantled, abortAsked>>
  BY DEF RefuseWake, Fresh
<1>2. /\ Types /\ DismantledEmpty /\ HousedIn(queue, Upcoming, P)
      /\ SettlesEnded(jobs) /\ SlotsCounted(jobs) /\ KicksCounted(jobs)
      /\ jobs \in Seq(Job) /\ queue[s] \in Seq(Item) /\ Len(queue[s]) <= QueueCap
      /\ fate \in [Messages -> Fates]
  BY DEF IInv, Types, Housed
<1>3. Distinct(queue[s]) /\ Msgs(queue[s]) \subseteq P
  BY <1>2 DEF HousedIn
<1>4. /\ b.items \in Seq(Item) /\ Distinct(b.items)
      /\ q \in Seq(Item) /\ Distinct(q) /\ Len(q) <= Len(queue[s])
      /\ Msgs(b.items) \cup Msgs(q) \cup b.refused = Msgs(queue[s])
      /\ Msgs(b.items) \cap Msgs(q) = {}
      /\ Msgs(b.items) \cap b.refused = {}
      /\ Msgs(q) \cap b.refused = {}
  BY <1>2, <1>3, BatchSplits
<1>5. m \notin P
  BY <1>1 DEF Pending
<1> HIDE DEF b, q
<1>6. /\ seeds \in Seq(Messages) /\ ToSet(seeds) = Msgs(b.items) /\ NoRepeat(seeds)
  BY <1>4, MessagesOnce
<1>7. f \in [Messages -> Fates] /\ Pending(f) = P \ ({m} \cup b.refused)
  BY <1>2, MarkPends DEF Fates
<1> HIDE DEF seeds, f, P
<1>8. Pending(f) = (P \ Msgs(queue[s])) \cup Msgs(q) \cup ToSet(seeds)
  BY <1>3, <1>4, <1>5, <1>6, <1>7
<1>9. /\ ToSet(seeds) \cap Msgs(q) = {} /\ ToSet(seeds) \cap (P \ Msgs(queue[s])) = {}
      /\ Msgs(q) \subseteq Msgs(queue[s])
  BY <1>3, <1>4, <1>5, <1>6
<1>10. Len(q) <= QueueCap
  BY <1>2, <1>4, PendingAssumption
<1>11. CASE b.items = <<>>
  <2>1. /\ queue' = [queue EXCEPT ![s] = q] /\ fate' = f
        /\ streak' = streak /\ run' = run /\ queuedKicks' = queuedKicks
        /\ inFlight' = inFlight /\ waiting' = waiting /\ jobs' = jobs
        /\ dismantled' = dismantled /\ abortAsked' = abortAsked
    BY <1>1, <1>11 DEF laneVars
  <2>2. Msgs(b.items) = {}
    BY <1>11 DEF Msgs
  <2>5. ToSet(seeds) = {} /\ Pending(fate') = Pending(f)
    BY <1>6, <2>1, <2>2
  <2>6. Pending(fate') = P \ (Msgs(queue[s]) \ Msgs(q))
    BY <1>3, <1>8, <1>9, <2>5
  <2>3. Pending(fate') = Pending(fate) \ (Msgs(queue[s]) \ Msgs(q))
    BY <2>6 DEF P
  <2>4. /\ fate' \in [Messages -> Fates] /\ streak' \in [Sessions -> Nat]
        /\ run' \in [Sessions -> Run]
        /\ dismantled' \subseteq dismantled \cup {s} /\ abortAsked' \subseteq Sessions
    BY <1>2, <1>7, <2>1 DEF Types
  <2> QED BY <1>1, <1>4, <1>9, <1>10, <2>1, <2>3, <2>4, QueueShrinks
<1>12. CASE b.items # <<>>
  <2>1. DoKick(s, seeds, FALSE, q, f)
    BY <1>1, <1>12
  <2>2. KickReady(Lineup(jobs, waiting), P, s, seeds, q, f)
    BY <1>2, <1>4, <1>6, <1>7, <1>8, <1>9, <1>10 DEF KickReady, Upcoming
  <2> QED BY <1>1, <1>2, <2>1, <2>2, KickKeeps
<1> QED BY <1>11, <1>12

-----------------------------------------------------------------------------
(* The invariant. *)

(* The invariant holds at first: no slot, no kick, no message. *)
LEMMA InitIInv ==
  ASSUME Init
  PROVE  IInv
<1>1. /\ queue = [s \in Sessions |-> <<>>] /\ streak = [s \in Sessions |-> 0]
      /\ run = [s \in Sessions |-> NoRun] /\ dismantled = {} /\ abortAsked = {}
      /\ queuedKicks = [s \in Sessions |-> 0]
      /\ inFlight = 0 /\ waiting = <<>> /\ jobs = <<>>
      /\ fate = [m \in Messages |-> "new"]
  BY DEF Init
<1>2. NoRun \in Run /\ NoRun.stage = "idle" /\ NoRun.laned = FALSE
  BY DEF NoRun, Run, Stages, Statuses
<1>3. Types
  <2>1. <<>> \in Seq(Item) /\ Len(<<>>) <= QueueCap /\ <<>> \in Seq(Kick) /\ <<>> \in Seq(Job)
    BY PendingAssumption
  <2> QED BY <1>1, <1>2, <2>1 DEF Types, Fates
<1>4. Upcoming = <<>>
  <2>1. <<>> \in Seq(Job)
    OBVIOUS
  <2> QED BY <1>1, <2>1, LineupAlone DEF Upcoming
<1>5. /\ SlotsIn(<<>>) = {} /\ \A s \in Sessions : OwedIn(<<>>, s) = {} /\ SettlesIn(<<>>, s) = {}
      /\ GrantsIn(<<>>) = {}
  BY DEF SlotsIn, OwedIn, SettlesIn, GrantsIn
<1>6. IsFiniteSet({}) /\ Cardinality({}) = 0
  BY FS_EmptySet
<1>7. BusySessions = {}
  BY <1>1, <1>2 DEF BusySessions, Busy
<1>8. SettlesEnded(jobs)
  BY <1>1, <1>2, <1>5, <1>6 DEF SettlesEnded
<1>9. SlotsCounted(jobs)
  <2>1. jobs = <<>> /\ waiting = <<>> /\ inFlight = 0
    BY <1>1
  <2>2. SlotsIn(jobs) = {}
    BY <1>5, <2>1
  <2>3. IsFiniteSet(BusySessions) /\ Cardinality(BusySessions) = 0 /\ Cardinality(SlotsIn(jobs)) = 0
    BY <1>6, <1>7, <2>2
  <2>4. 0 <= Capacity /\ 0 = 0 + 0
    BY LaneAssumption
  <2> QED BY <2>1, <2>3, <2>4 DEF SlotsCounted
<1>10. KicksCounted(jobs)
  <2>1. ASSUME NEW s \in Sessions
        PROVE  /\ ~run[s].laned /\ queuedKicks[s] = 0
               /\ Cardinality(OwedIn(Lineup(jobs, waiting), s)) = 0
    <3>1. OwedIn(Lineup(jobs, waiting), s) = {}
      BY <1>4, <1>5 DEF Upcoming
    <3> QED BY <1>1, <1>2, <1>6, <3>1
  <2> QED BY <2>1 DEF KicksCounted
<1>11. Housed
  <2>1. Distinct(<<>>) /\ Msgs(<<>>) = {}
    BY DEF Distinct, Msgs
  <2>2. Pending(fate) = {}
    BY <1>1 DEF Pending
  <2>3. \A s \in Sessions : queue[s] = <<>>
    BY <1>1
  <2>4. UNION {Msgs(queue[s]) : s \in Sessions} = {}
    BY <2>1, <2>3
  <2> QED BY <1>4, <1>5, <2>1, <2>2, <2>3, <2>4 DEF Housed, HousedIn
<1>12. DismantledEmpty
  BY <1>1 DEF DismantledEmpty
<1> QED BY <1>3, <1>8, <1>9, <1>10, <1>11, <1>12 DEF IInv

(* The invariant is kept by every step. *)
LEMMA NextIInv ==
  ASSUME IInv, [Next]_vars
  PROVE  IInv'
<1>1. CASE JobStep
  BY <1>1, SettleKeeps, ReleaseKeeps, FollowUpKeeps, GrantStoppedKeeps, GrantRidesKeeps,
     GrantLaunchesKeeps, GrantThrowsKeeps DEF JobStep
<1>2. ASSUME NEW s \in Sessions, CallerStep(s)
      PROVE  IInv'
  <2>1. CASE \E m \in Messages : Inject(s, m) \/ RefuseWake(s, m)
    BY <2>1, InjectKeeps, RefuseWakeKeeps
  <2>2. CASE \E m \in Messages, way \in Ways : Steer(s, m, way) \/ StartWith(s, m, way)
    BY <2>2, SteerKeeps, StartWithKeeps
  <2>3. CASE \E i \in 1..QueueCap : TakeBack(s, i)
    BY <2>3, TakeBackKeeps
  <2>4. CASE Abort(s) \/ Dismantle(s)
    BY <2>4, AbortKeeps, DismantleKeeps
  <2> QED BY <1>2, <2>1, <2>2, <2>3, <2>4 DEF CallerStep
<1>3. ASSUME NEW s \in Sessions, RunStep(s)
      PROVE  IInv'
  BY <1>3, TakeInRunKeeps, LoopReturnsKeeps, GoOnKeeps, EndRunKeeps DEF RunStep, LoopEnds
<1>4. CASE UNCHANGED vars
  <2>1. /\ queue' = queue /\ streak' = streak /\ run' = run /\ queuedKicks' = queuedKicks
        /\ inFlight' = inFlight /\ waiting' = waiting /\ fate' = fate /\ jobs' = jobs
        /\ dismantled' = dismantled /\ abortAsked' = abortAsked
    BY <1>4 DEF vars, sessionVars, laneVars
  <2>2. /\ Types /\ DismantledEmpty /\ Housed
    BY DEF IInv
  <2>3. /\ SettlesEnded(jobs)' /\ SlotsCounted(jobs)' /\ KicksCounted(jobs)'
        /\ Upcoming' = Upcoming
    BY <2>1, LaneStill
  <2>4. Types' /\ DismantledEmpty' /\ Housed'
    BY <2>1, <2>2, <2>3 DEF Types, DismantledEmpty, Housed
  <2> QED BY <2>3, <2>4 DEF IInv
<1> QED BY <1>1, <1>2, <1>3, <1>4 DEF Next

(* IInv is an invariant: what slots, kicks and messages are accounted for  *)
(* by is true after every step of callers, runs and jobs.                  *)
THEOREM Accounted == Spec => []IInv
<1>1. Init => IInv
  BY InitIInv
<1>2. IInv /\ [Next]_vars => IInv'
  BY NextIInv
<1> QED BY <1>1, <1>2, PTL DEF Spec

-----------------------------------------------------------------------------
(* What the invariant says in the words of the properties.                 *)

(* The invariant counts release and grant jobs together, the property      *)
(* apart.                                                                  *)
LEMMA LaneAccountsHeld ==
  ASSUME IInv
  PROVE  LaneAccounts
<1> DEFINE R == JobsDoing("release")
           G == JobsDoing("grant")
<1>1. jobs \in Seq(Job) /\ SlotsCounted(jobs)
  BY DEF IInv, Types
<1>2. IsFiniteSet(R) /\ IsFiniteSet(G)
  <2>1. Len(jobs) \in Nat /\ DOMAIN jobs = 1..Len(jobs)
    BY <1>1
  <2> QED BY <2>1, PositionsFinite DEF JobsDoing
<1>3. R \cap G = {} /\ SlotsIn(jobs) = R \cup G
  BY DEF JobsDoing, SlotsIn
<1>4. Cardinality(SlotsIn(jobs)) = Cardinality(R) + Cardinality(G)
  <2>1. Cardinality(R \cup G) = Cardinality(R) + Cardinality(G) - Cardinality(R \cap G)
        /\ Cardinality(R) \in Nat /\ Cardinality(G) \in Nat
    BY <1>2, FS_Union, FS_CardinalityType
  <2>2. Cardinality(R \cap G) = 0
    BY <1>3, FS_EmptySet
  <2> QED BY <1>3, <2>1, <2>2
<1>5. Cardinality(BusySessions) \in Nat /\ Cardinality(R) \in Nat /\ Cardinality(G) \in Nat
  BY <1>1, <1>2, FS_CardinalityType DEF SlotsCounted
<1> HIDE DEF R, G
<1>6. inFlight = Cardinality(BusySessions) + Cardinality(R) + Cardinality(G)
  BY <1>1, <1>4, <1>5 DEF SlotsCounted
<1> QED BY <1>1, <1>6 DEF SlotsCounted, LaneAccounts, BusySessions, R, G

(* The types of the invariant imply those of the component. *)
LEMMA TypesHeld ==
  ASSUME IInv
  PROVE  TypeOK
<1>1. Types /\ SlotsCounted(jobs)
  BY DEF IInv
<1>2. inFlight \in 0..Capacity
  BY <1>1, LaneAssumption DEF Types, SlotsCounted
<1>3. ASSUME NEW i \in DOMAIN jobs, jobs[i].do = "grant"
      PROVE  jobs[i].kick \in Kick
  <2>1. jobs[i] \in Job
    BY <1>1 DEF Types
  <2> QED BY <1>3, <2>1, JobFields
<1> QED BY <1>1, <1>2, <1>3 DEF Types, TypeOK

(* The places of m, in the words of HousedIn. *)
LEMMA PlacesHoused ==
  ASSUME IInv, NEW m \in Messages
  PROVE  /\ \A s \in Sessions : (m \in Msgs(queue[s])
              <=> \E i \in 1..QueueCap : <<s, i>> \in QueuePlaces(m))
         /\ \A i \in GrantPlaces(m) : /\ i \in GrantsIn(Upcoming) /\ i \in 1..Len(jobs)
                                      /\ m \in ToSet(Upcoming[i].kick.seeds)
         /\ \A i \in LinePlaces(m) : /\ Len(jobs) + i \in GrantsIn(Upcoming)
                                     /\ i \in 1..Len(waiting)
                                     /\ m \in ToSet(Upcoming[Len(jobs) + i].kick.seeds)
         /\ \A n \in GrantsIn(Upcoming) :
              m \in ToSet(Upcoming[n].kick.seeds)
                => \/ n \in GrantPlaces(m)
                   \/ n - Len(jobs) \in LinePlaces(m)
<1>1. /\ jobs \in Seq(Job) /\ waiting \in Seq(Kick) /\ queue \in [Sessions -> Seq(Item)]
      /\ \A s \in Sessions : Len(queue[s]) <= QueueCap
  BY DEF IInv, Types
<1>2. /\ Upcoming \in Seq(Job) /\ Len(Upcoming) = Len(jobs) + Len(waiting)
      /\ \A i \in 1..Len(jobs) : Upcoming[i] = jobs[i]
      /\ \A i \in 1..Len(waiting) : Upcoming[Len(jobs) + i] = GrantJob(waiting[i])
  BY <1>1, LineupType DEF Upcoming
<1>3. /\ Len(jobs) \in Nat /\ Len(waiting) \in Nat /\ DOMAIN jobs = 1..Len(jobs)
      /\ DOMAIN waiting = 1..Len(waiting) /\ DOMAIN Upcoming = 1..(Len(jobs) + Len(waiting))
  BY <1>1, <1>2
<1>4. \A i \in 1..Len(waiting) : /\ Len(jobs) + i \in GrantsIn(Upcoming)
                                 /\ Upcoming[Len(jobs) + i].kick = waiting[i]
                                 /\ waiting[i].seeds \in Seq(Messages)
  <2> SUFFICES ASSUME NEW i \in 1..Len(waiting)
               PROVE  /\ Len(jobs) + i \in GrantsIn(Upcoming)
                      /\ Upcoming[Len(jobs) + i].kick = waiting[i]
                      /\ waiting[i].seeds \in Seq(Messages)
    OBVIOUS
  <2>1. waiting[i] \in Kick /\ Len(jobs) + i \in 1..(Len(jobs) + Len(waiting))
    BY <1>1, <1>3
  <2>2. Upcoming[Len(jobs) + i] = GrantJob(waiting[i])
    BY <1>2
  <2> QED BY <1>3, <2>1, <2>2, JobFields, KickFields DEF GrantsIn
<1>5. \A s \in Sessions : (m \in Msgs(queue[s])
              <=> \E i \in 1..QueueCap : <<s, i>> \in QueuePlaces(m))
  <2> SUFFICES ASSUME NEW s \in Sessions
               PROVE  m \in Msgs(queue[s])
                        <=> \E i \in 1..QueueCap : <<s, i>> \in QueuePlaces(m)
    OBVIOUS
  <2>1. queue[s] \in Seq(Item) /\ Len(queue[s]) <= QueueCap /\ DOMAIN queue[s] = 1..Len(queue[s])
    BY <1>1
  <2>2. DOMAIN queue[s] \subseteq 1..QueueCap
    BY <2>1, PendingAssumption
  <2> QED BY <2>2 DEF Msgs, QueuePlaces
<1>6. \A i \in GrantPlaces(m) : /\ i \in GrantsIn(Upcoming) /\ i \in 1..Len(jobs)
                                /\ m \in ToSet(Upcoming[i].kick.seeds)
  <2> SUFFICES ASSUME NEW i \in GrantPlaces(m)
               PROVE  /\ i \in GrantsIn(Upcoming) /\ i \in 1..Len(jobs)
                      /\ m \in ToSet(Upcoming[i].kick.seeds)
    OBVIOUS
  <2>1. /\ i \in 1..Len(jobs) /\ jobs[i].do = "grant"
        /\ \E j \in DOMAIN jobs[i].kick.seeds : jobs[i].kick.seeds[j] = m
    BY <1>3 DEF GrantPlaces, JobsDoing
  <2>2. Upcoming[i] = jobs[i] /\ i \in DOMAIN Upcoming
    BY <1>2, <1>3, <2>1
  <2> QED BY <2>1, <2>2 DEF GrantsIn, ToSet
<1>7. \A i \in LinePlaces(m) : /\ Len(jobs) + i \in GrantsIn(Upcoming)
                               /\ i \in 1..Len(waiting)
                               /\ m \in ToSet(Upcoming[Len(jobs) + i].kick.seeds)
  BY <1>3, <1>4 DEF LinePlaces, ToSet
<1>8. ASSUME NEW n \in GrantsIn(Upcoming), m \in ToSet(Upcoming[n].kick.seeds)
      PROVE  n \in GrantPlaces(m) \/ n - Len(jobs) \in LinePlaces(m)
  <2>1. n \in 1..(Len(jobs) + Len(waiting)) /\ Upcoming[n].do = "grant"
    BY <1>3 DEF GrantsIn
  <2>2. CASE n \in 1..Len(jobs)
    <3>1. Upcoming[n] = jobs[n] /\ n \in DOMAIN jobs
      BY <1>2, <1>3, <2>2
    <3> QED BY <1>8, <2>1, <3>1 DEF GrantPlaces, JobsDoing, ToSet
  <2>3. CASE n \notin 1..Len(jobs)
    <3>1. n - Len(jobs) \in 1..Len(waiting) /\ Len(jobs) + (n - Len(jobs)) = n
      BY <1>3, <2>1, <2>3
    <3>2. Upcoming[n].kick = waiting[n - Len(jobs)]
      BY <1>4, <3>1
    <3> QED BY <1>3, <1>8, <3>1, <3>2 DEF LinePlaces, ToSet
  <2> QED BY <2>2, <2>3
<1> QED BY <1>5, <1>6, <1>7, <1>8 DEF QueuePlaces

(* One place per message, counted. *)
LEMMA ConservedHeld ==
  ASSUME IInv
  PROVE  Conserved
<1> SUFFICES ASSUME NEW m \in Messages
             PROVE  Cardinality(QueuePlaces(m)) + Cardinality(LinePlaces(m))
                      + Cardinality(GrantPlaces(m)) = IF fate[m] = "pending" THEN 1 ELSE 0
  BY DEF Conserved
<1> DEFINE Q == QueuePlaces(m)
           L == LinePlaces(m)
           G == GrantPlaces(m)
           u == Upcoming
           seeds(n) == ToSet(u[n].kick.seeds)
<1>1. /\ \A s \in Sessions : Distinct(queue[s])
      /\ \A s, t \in Sessions : s # t => Msgs(queue[s]) \cap Msgs(queue[t]) = {}
      /\ \A n, k \in GrantsIn(u) : n # k => seeds(n) \cap seeds(k) = {}
      /\ \A s \in Sessions : \A n \in GrantsIn(u) : Msgs(queue[s]) \cap seeds(n) = {}
      /\ fate[m] = "pending" <=> \/ \E s \in Sessions : m \in Msgs(queue[s])
                                 \/ \E n \in GrantsIn(u) : m \in seeds(n)
  <2>1. HousedIn(queue, Upcoming, Pending(fate))
    BY DEF IInv, Housed
  <2>2. fate[m] = "pending" <=> m \in Pending(fate)
    BY DEF Pending
  <2> QED BY <2>1, <2>2 DEF HousedIn
<1>2. /\ \A s \in Sessions : (m \in Msgs(queue[s]) <=> \E i \in 1..QueueCap : <<s, i>> \in Q)
      /\ \A p \in Q : p \in Sessions \X (1..QueueCap)
                      /\ p[2] \in DOMAIN queue[p[1]] /\ queue[p[1]][p[2]].msg = m
      /\ \A i \in G : i \in GrantsIn(u) /\ i \in 1..Len(jobs) /\ m \in seeds(i)
      /\ \A i \in L : Len(jobs) + i \in GrantsIn(u) /\ i \in 1..Len(waiting)
                      /\ m \in seeds(Len(jobs) + i)
      /\ \A n \in GrantsIn(u) : m \in seeds(n) => n \in G \/ n - Len(jobs) \in L
  BY PlacesHoused DEF QueuePlaces
<1>3. Len(jobs) \in Nat /\ Len(waiting) \in Nat /\ GrantsIn(u) \subseteq Nat
  <2>1. jobs \in Seq(Job) /\ waiting \in Seq(Kick) /\ Upcoming \in Seq(Job)
    BY LineupType DEF IInv, Types, Upcoming
  <2>2. DOMAIN Upcoming = 1..Len(Upcoming) /\ Len(Upcoming) \in Nat
    BY <2>1
  <2> QED BY <2>1, <2>2 DEF GrantsIn
<1>4. Cardinality({}) = 0 /\ \A x : Cardinality({x}) = 1
  BY FS_EmptySet, FS_Singleton
<1> HIDE DEF Q, L, G, u, seeds
<1>5. CASE fate[m] # "pending"
  <2>1. Q = {} /\ L = {} /\ G = {}
    BY <1>1, <1>2, <1>5
  <2> QED BY <1>4, <1>5, <2>1 DEF Q, L, G
<1>6. ASSUME NEW s \in Sessions, m \in Msgs(queue[s]), fate[m] = "pending"
      PROVE  Cardinality(Q) + Cardinality(L) + Cardinality(G) = 1
  <2>1. PICK i \in 1..QueueCap : <<s, i>> \in Q
    BY <1>2, <1>6
  <2>2. ASSUME NEW p \in Q
        PROVE  p = <<s, i>>
    <3>1. PICK t \in Sessions, j \in 1..QueueCap : p = <<t, j>>
      BY <1>2, <2>2
    <3>2. j \in DOMAIN queue[t] /\ queue[t][j].msg = m /\ i \in DOMAIN queue[s] /\ queue[s][i].msg = m
      BY <1>2, <2>1, <2>2, <3>1
    <3>3. t = s
      BY <1>1, <1>6, <3>2 DEF Msgs
    <3>4. j = i
      BY <1>1, <3>2, <3>3 DEF Distinct
    <3> QED BY <3>1, <3>3, <3>4
  <2>3. Q = {<<s, i>>}
    BY <2>1, <2>2
  <2>4. L = {} /\ G = {}
    BY <1>1, <1>2, <1>6
  <2>5. Cardinality(Q) = 1 /\ Cardinality(L) = 0 /\ Cardinality(G) = 0
    BY <1>4, <2>3, <2>4
  <2> QED BY <2>5
<1>7. ASSUME NEW n \in GrantsIn(u), m \in seeds(n), fate[m] = "pending"
      PROVE  Cardinality(Q) + Cardinality(L) + Cardinality(G) = 1
  <2>1. Q = {}
    <3> SUFFICES ASSUME NEW p \in Q
                 PROVE  FALSE
      OBVIOUS
    <3>1. p[1] \in Sessions /\ m \in Msgs(queue[p[1]])
      BY <1>2 DEF Msgs
    <3> QED BY <1>1, <1>7, <3>1
  <2>2. \A k \in GrantsIn(u) : m \in seeds(k) => k = n
    BY <1>1, <1>7
  <2>3. (\A i \in G : i = n) /\ (\A i \in L : Len(jobs) + i = n)
    BY <1>2, <2>2
  <2>4. n \in Nat
    BY <1>3, <1>7
  <2>5. CASE n \in G
    <3>1. G = {n} /\ n \in 1..Len(jobs)
      BY <1>2, <2>3, <2>5
    <3>2. L = {}
      BY <1>2, <1>3, <2>3, <2>4, <3>1
    <3>3. Cardinality(Q) = 0 /\ Cardinality(L) = 0 /\ Cardinality(G) = 1
      BY <1>4, <2>1, <3>1, <3>2
    <3> QED BY <3>3
  <2>6. CASE n \notin G
    <3>1. n - Len(jobs) \in L /\ G = {}
      BY <1>2, <1>7, <2>3, <2>6
    <3>2. \A i \in L : i = n - Len(jobs)
      <4> SUFFICES ASSUME NEW i \in L
                   PROVE  i = n - Len(jobs)
        OBVIOUS
      <4>1. i \in 1..Len(waiting) /\ Len(jobs) + i = n
        BY <1>2, <2>3
      <4> QED BY <1>3, <2>4, <4>1
    <3>3. L = {n - Len(jobs)}
      BY <3>1, <3>2
    <3>4. Cardinality(Q) = 0 /\ Cardinality(L) = 1 /\ Cardinality(G) = 0
      BY <1>4, <2>1, <3>1, <3>3
    <3> QED BY <3>4
  <2> QED BY <2>5, <2>6
<1>8. CASE fate[m] = "pending"
  BY <1>1, <1>6, <1>7, <1>8 DEF Q, L, G
<1> QED BY <1>5, <1>8

-----------------------------------------------------------------------------
(* What a step may do to a dismantled session, to the memory of an abort,  *)
(* and to a session that came to rest.                                     *)

(* A kick of s: every other session keeps its queue and its run, and s     *)
(* runs or has the queue that was left.  No kick leaves the line.          *)
LEMMA KickEffect ==
  ASSUME Types, NEW s \in Sessions, NEW seeds, NEW wake, NEW q, NEW f,
         DoKick(s, seeds, wake, q, f)
  PROVE  /\ \A t \in Sessions \ {s} : queue'[t] = queue[t] /\ run'[t] = run[t]
         /\ \/ run'[s].stage = "running"
            \/ run'[s] = run[s] /\ queue'[s] = q
         /\ ToSet(waiting) \subseteq ToSet(waiting')
<1>1. queue \in [Sessions -> Seq(Item)] /\ run \in [Sessions -> Run] /\ waiting \in Seq(Kick)
  BY DEF Types
<1>2. CASE KickNow(s, seeds, wake, q, f)
  <2>1. waiting' = waiting
    BY <1>2 DEF KickNow
  <2>2. CASE LaunchThrows(s, seeds, wake, q, f)
    BY <1>1, <2>1, <2>2 DEF LaunchThrows
  <2>3. CASE Launch(s, seeds, wake, FALSE, q, f)
    <3>1. PICK a \in {Absorbed(q, LaunchStreak(s, wake))} :
            /\ queue' = [queue EXCEPT ![s] = a.queue]
            /\ run' = [run EXCEPT ![s] = [NoRun EXCEPT !.stage = "running", !.laned = FALSE]]
      BY <2>3 DEF Launch
    <3>2. run'[s].stage = "running"
      BY <1>1, <3>1 DEF NoRun
    <3> QED BY <1>1, <2>1, <3>1, <3>2
  <2> QED BY <1>2, <2>2, <2>3 DEF KickNow
<1>3. CASE KickLater(s, seeds, wake, q, f)
  <2>1. /\ waiting' = Append(waiting, [sid |-> s, seeds |-> seeds, wake |-> wake])
        /\ queue' = [queue EXCEPT ![s] = q] /\ run' = run
    BY <1>3 DEF KickLater
  <2>2. ToSet(waiting) \subseteq ToSet(waiting')
    <3>1. \A i \in DOMAIN waiting : i \in DOMAIN waiting' /\ waiting'[i] = waiting[i]
      BY <1>1, <2>1
    <3> QED BY <3>1 DEF ToSet
  <2> QED BY <1>1, <2>1, <2>2
<1> QED BY <1>2, <1>3 DEF DoKick

(* A slot that is given back takes no kick away: the one that leaves the   *)
(* line becomes a job.                                                     *)
LEMMA FreeSlotEffect ==
  ASSUME Types, NEW js \in Seq(Job), FreeSlot(js)
  PROVE  ToSet(waiting) \cup KicksOf(js) \subseteq ToSet(waiting') \cup KicksOf(jobs')
<1>1. waiting \in Seq(Kick)
  BY DEF Types
<1>2. CASE waiting = <<>>
  <2>1. waiting' = waiting /\ jobs' = js
    BY <1>2 DEF FreeSlot
  <2> QED BY <2>1
<1>3. CASE waiting # <<>>
  <2> DEFINE g == GrantJob(Head(waiting))
             n == Len(js) + 1
  <2>1. jobs' = Append(js, g) /\ waiting' = Tail(waiting)
    BY <1>3 DEF FreeSlot
  <2>2. Head(waiting) \in Kick /\ g \in Job /\ g.do = "grant" /\ g.kick = Head(waiting)
    BY <1>1, <1>3, JobFields
  <2>3. /\ DOMAIN jobs' = 1..n /\ jobs'[n] = g
        /\ \A i \in DOMAIN js : i \in DOMAIN jobs' /\ jobs'[i] = js[i]
    BY <2>1, <2>2
  <2>4. ToSet(waiting) \subseteq {Head(waiting)} \cup ToSet(Tail(waiting))
    <3>1. /\ DOMAIN waiting = 1..Len(waiting) /\ Len(waiting) \in Nat /\ Head(waiting) = waiting[1]
          /\ DOMAIN Tail(waiting) = 1..(Len(waiting) - 1)
          /\ \A i \in 2..Len(waiting) :
               i - 1 \in 1..(Len(waiting) - 1) /\ Tail(waiting)[i - 1] = waiting[i]
      BY <1>1, <1>3
    <3>2. ASSUME NEW i \in DOMAIN waiting, i # 1
          PROVE  waiting[i] \in ToSet(Tail(waiting))
      <4>1. i \in 2..Len(waiting)
        BY <3>1, <3>2
      <4>2. i - 1 \in DOMAIN Tail(waiting) /\ Tail(waiting)[i - 1] = waiting[i]
        BY <3>1, <4>1
      <4> QED BY <4>2 DEF ToSet
    <3> QED BY <3>1, <3>2 DEF ToSet
  <2>5. KicksOf(js) \subseteq KicksOf(jobs')
    BY <2>3 DEF KicksOf
  <2>6. Head(waiting) \in KicksOf(jobs')
    <3>1. n \in DOMAIN jobs' /\ jobs'[n].do = "grant" /\ jobs'[n].kick = Head(waiting)
      BY <2>2, <2>3
    <3> QED BY <3>1 DEF KicksOf
  <2> QED BY <2>1, <2>4, <2>5, <2>6
<1> QED BY <1>2, <1>3

(* The job that runs takes at most its own kick away. *)
LEMMA HeadEffect ==
  ASSUME NEW js \in Seq(Job), js # <<>>
  PROVE  /\ KicksOf(js) \subseteq KicksOf(Tail(js)) \cup {Head(js).kick}
         /\ Head(js).do # "grant" => KicksOf(js) \subseteq KicksOf(Tail(js))
<1>1. /\ Len(js) \in Nat /\ DOMAIN js = 1..Len(js) /\ 1 \in DOMAIN js /\ Head(js) = js[1]
      /\ DOMAIN Tail(js) = 1..(Len(js) - 1)
      /\ \A i \in 2..Len(js) : i - 1 \in DOMAIN Tail(js) /\ Tail(js)[i - 1] = js[i]
  OBVIOUS
<1>2. ASSUME NEW i \in DOMAIN js, i # 1, js[i].do = "grant"
      PROVE  js[i].kick \in KicksOf(Tail(js))
  <2>1. i \in 2..Len(js)
    BY <1>1, <1>2
  <2>2. i - 1 \in DOMAIN Tail(js) /\ Tail(js)[i - 1] = js[i]
    BY <1>1, <2>1
  <2> QED BY <1>2, <2>2 DEF KicksOf
<1> QED BY <1>1, <1>2 DEF KicksOf

(* Appended jobs take no kick away. *)
LEMMA JoinEffect ==
  ASSUME NEW js \in Seq(Job), NEW ins \in Seq(Job)
  PROVE  KicksOf(js) \subseteq KicksOf(js \o ins)
<1>1. \A i \in DOMAIN js : i \in DOMAIN (js \o ins) /\ (js \o ins)[i] = js[i]
  OBVIOUS
<1> QED BY <1>1 DEF KicksOf
(* Queues that only hold held messages. *)
AllHeld(q) == \A i \in DOMAIN q : q[i].hold

(* NotHeld is empty when every entry is held. *)
LEMMA NoneButHeld ==
  ASSUME NEW q \in Seq(Item)
  PROVE  NotHeld(q) = <<>> <=> AllHeld(q)
<1>1. NotHeld(q) = <<>> <=> DOMAIN q \ HeldAt(q) = {}
  BY EntriesProps DEF NotHeld
<1>2. DOMAIN q \ HeldAt(q) = {} <=> AllHeld(q)
  BY DEF HeldAt, AllHeld
<1> QED BY <1>1, <1>2

(* A selection of held entries is held. *)
LEMMA HeldEntries ==
  ASSUME NEW q \in Seq(Item), NEW P, P \subseteq DOMAIN q, \A i \in P : q[i].hold
  PROVE  AllHeld(Entries(q, P))
<1>1. PICK f \in [DOMAIN Entries(q, P) -> P] :
        \A i \in DOMAIN Entries(q, P) : Entries(q, P)[i] = q[f[i]]
  BY EntriesProps
<1>2. ASSUME NEW i \in DOMAIN Entries(q, P)
      PROVE  Entries(q, P)[i].hold
  <2>1. f[i] \in P
    BY <1>2
  <2> QED BY <1>1, <2>1
<1> QED BY <1>2 DEF AllHeld

(* What a look at the queue leaves there. *)
LEMMA RestHeld ==
  ASSUME NEW q \in Seq(Item), NEW st, NEW skip \in BOOLEAN
  PROVE  /\ AllHeld(q) => AllHeld(Batch(q, st, skip).rest)
         /\ skip /\ Batch(q, st, skip).items = <<>> => AllHeld(Batch(q, st, skip).rest)
<1> DEFINE T == TakenAt(q, skip)
           R == DOMAIN q \ T
           kept == {i \in T : ~(q[i].wake /\ st >= MaxWakes)}
<1>1. /\ Batch(q, st, skip).rest = Entries(q, R)
      /\ Batch(q, st, skip).items = Entries(q, kept)
  BY DEF Batch, Untaken
<1>2. T \subseteq DOMAIN q /\ R \subseteq DOMAIN q /\ kept \subseteq DOMAIN q
  BY TakenInQueue
<1>3. ASSUME AllHeld(q)
      PROVE  AllHeld(Entries(q, R))
  <2>1. \A i \in R : q[i].hold
    BY <1>2, <1>3 DEF AllHeld
  <2> QED BY <1>2, <2>1, HeldEntries
<1>4. ASSUME skip, Entries(q, kept) = <<>>
      PROVE  AllHeld(Entries(q, R))
  <2> DEFINE E == DOMAIN q \ HeldAt(q)
  <2>1. kept = {}
    BY <1>2, <1>4, EntriesProps
  <2>2. T = IF E = {} \/ q[Min(E)].wake THEN E ELSE {Min(E)}
    BY <1>4 DEF TakenAt
  <2>3. T = E
    <3>1. CASE E = {} \/ q[Min(E)].wake
      BY <2>2, <3>1
    <3>2. CASE ~(E = {} \/ q[Min(E)].wake)
      <4>1. T = {Min(E)} /\ ~q[Min(E)].wake
        BY <2>2, <3>2
      <4>2. Min(E) \in kept
        BY <4>1
      <4> QED BY <2>1, <4>2
    <3> QED BY <3>1, <3>2
  <2>4. \A i \in R : q[i].hold
    BY <2>3 DEF HeldAt
  <2> QED BY <1>2, <2>4, HeldEntries
<1> QED BY <1>1, <1>3, <1>4

(* Taking an entry back from held ones leaves held ones. *)
LEMMA RemovedHeld ==
  ASSUME NEW q \in Seq(Item), Distinct(q), NEW i \in DOMAIN q, AllHeld(q)
  PROVE  AllHeld(RemoveAt(q, i))
<1> DEFINE r == RemoveAt(q, i)
<1>1. \A j \in DOMAIN r : \E k \in DOMAIN q : r[j] = q[k]
  BY RemoveAtSplits
<1> QED BY <1>1 DEF AllHeld
-----------------------------------------------------------------------------
(* The three claims about a step. *)

(* No run of a dismantled session starts. *)
QuietStep ==
  \A t \in dismantled : run'[t].stage = "running" => run[t].stage = "running"

(* The sessions that are at rest with a clean queue stay so; or they do    *)
(* but for a message that joins too late.                                  *)
CleanStep == \A t \in Sessions : Clean(t) => Clean(t)'
LateStep == \A s \in Sessions : Clean(s) => Clean(s)' \/ JoinsTooLate(s)

KicksKept == ToSet(waiting) \cup KicksOf(jobs) \subseteq ToSet(waiting') \cup KicksOf(jobs')

AbortStep == AbortHasTarget => AbortHasTarget'

(* Without a new memory of an abort, and without a kick less, every abort  *)
(* that is remembered still has its kick.                                  *)
LEMMA KicksServe ==
  ASSUME abortAsked' \subseteq abortAsked, KicksKept
  PROVE  AbortStep
<1> SUFFICES ASSUME AbortHasTarget, NEW s \in abortAsked'
             PROVE  \E k \in ToSet(waiting') \cup KicksOf(jobs') : k.sid = s
  BY DEF AbortStep, AbortHasTarget
<1>1. PICK k \in ToSet(waiting) \cup KicksOf(jobs) : k.sid = s
  BY DEF AbortHasTarget
<1> QED BY <1>1 DEF KicksKept

(* Sessions whose queue and run stay as they are. *)
LEMMA CleanStill ==
  ASSUME NEW t, queue'[t] = queue[t], run'[t].stage = run[t].stage,
         run'[t].status = run[t].status
  PROVE  Clean(t) => Clean(t)'
BY DEF Clean

(* A run that is over keeps a settlement ready, so no caller meets it.     *)
LEMMA NoneEnded ==
  ASSUME IInv, Outside, ~Eager, NEW s \in Sessions
  PROVE  jobs = <<>> /\ run[s].stage # "ended"
<1>1. jobs = <<>>
  BY DEF Outside
<1>2. SettlesIn(jobs, s) = {}
  BY <1>1 DEF SettlesIn
<1>3. Cardinality(SettlesIn(jobs, s)) = 0
  BY <1>2, FS_EmptySet
<1>4. SettlesEnded(jobs)
  BY DEF IInv
<1>5. Cardinality(SettlesIn(jobs, s)) = IF run[s].stage = "ended" THEN 1 ELSE 0
  BY <1>4 DEF SettlesEnded
<1> QED BY <1>1, <1>3, <1>5

(* submit to a dismantled session starts nothing. *)
LEMMA InjectEffect ==
  ASSUME NEW s \in Sessions, NEW m \in Messages, Inject(s, m)
  PROVE  QuietStep /\ CleanStep /\ AbortStep
<1>1. queue' = queue /\ run' = run /\ abortAsked' = abortAsked /\ waiting' = waiting /\ jobs' = jobs
  BY DEF Inject, sessionVars, laneVars
<1>2. QuietStep
  BY <1>1 DEF QuietStep
<1>3. CleanStep
  BY <1>1, CleanStill DEF CleanStep
<1>4. AbortStep
  BY <1>1, KicksServe DEF KicksKept
<1> QED BY <1>2, <1>3, <1>4

(* A message for a busy session, whose run may be over. *)
LEMMA SteerEffect ==
  ASSUME IInv, NEW s \in Sessions, NEW m \in Messages, NEW way \in Ways, Steer(s, m, way)
  PROVE  QuietStep /\ LateStep /\ AbortStep
<1>1. /\ Outside /\ Busy(s)
      /\ run' = IF way = "held" THEN [run EXCEPT ![s].riders = @ + 1] ELSE run
      /\ abortAsked' = abortAsked /\ waiting' = waiting /\ jobs' = jobs
  BY DEF Steer, Fresh, laneVars
<1>2. run \in [Sessions -> Run] /\ queue \in [Sessions -> Seq(Item)] /\ dismantled \subseteq Sessions
  BY DEF IInv, Types
<1>3. \A t \in Sessions : run'[t].stage = run[t].stage /\ run'[t].status = run[t].status
  BY <1>1, <1>2 DEF Run
<1>4. \A t \in Sessions \ {s} : queue'[t] = queue[t]
  <2>1. PICK new, unnamed : Enqueue(s, new, unnamed)
    BY DEF Steer
  <2> QED BY <1>2, <2>1 DEF Enqueue
<1>5. QuietStep
  BY <1>2, <1>3 DEF QuietStep
<1>6. LateStep
  <2>1. Clean(s)' \/ JoinsTooLate(s)
    <3>1. CASE run[s].stage = "ended"
      BY <3>1 DEF JoinsTooLate
    <3>2. CASE run[s].stage # "ended"
      BY <1>1, <1>3, <3>2 DEF Clean, Busy
    <3> QED BY <3>1, <3>2
  <2>2. \A t \in Sessions \ {s} : Clean(t) => Clean(t)'
    BY <1>3, <1>4, CleanStill
  <2> QED BY <2>1, <2>2 DEF LateStep
<1>7. AbortStep
  BY <1>1, KicksServe DEF KicksKept
<1> QED BY <1>5, <1>6, <1>7

(* A kick of a session that is not dismantled, by a caller or by a job. *)
LEMMA DoKickEffect ==
  ASSUME IInv, NEW s \in Sessions, s \notin dismantled, NEW seeds, NEW wake, NEW q \in Seq(Item),
         NEW f, DoKick(s, seeds, wake, q, f), AllHeld(queue[s]) => AllHeld(q),
         KicksOf(jobs) \subseteq KicksOf(jobs'), abortAsked' = abortAsked
  PROVE  QuietStep /\ CleanStep /\ AbortStep
<1>1. /\ Types /\ queue \in [Sessions -> Seq(Item)] /\ dismantled \subseteq Sessions
  BY DEF IInv, Types
<1>2. /\ \A t \in Sessions \ {s} : queue'[t] = queue[t] /\ run'[t] = run[t]
      /\ \/ run'[s].stage = "running"
         \/ run'[s] = run[s] /\ queue'[s] = q
      /\ ToSet(waiting) \subseteq ToSet(waiting')
  BY <1>1, KickEffect
<1>3. QuietStep
  BY <1>1, <1>2 DEF QuietStep
<1>4. Clean(s) => Clean(s)'
  <2>1. CASE run'[s].stage = "running"
    BY <2>1 DEF Clean
  <2>2. CASE run'[s] = run[s] /\ queue'[s] = q
    <3>1. queue[s] \in Seq(Item)
      BY <1>1
    <3>2. (NotHeld(queue[s]) = <<>> <=> AllHeld(queue[s])) /\ (NotHeld(q) = <<>> <=> AllHeld(q))
      BY <3>1, NoneButHeld
    <3> QED BY <2>2, <3>2 DEF Clean
  <2> QED BY <1>2, <2>1, <2>2
<1>5. \A t \in Sessions \ {s} : Clean(t) => Clean(t)'
  BY <1>2, CleanStill
<1>6. CleanStep
  BY <1>4, <1>5 DEF CleanStep
<1>7. AbortStep
  BY <1>2, KicksServe DEF KicksKept
<1> QED BY <1>3, <1>6, <1>7

(* The queue of a session, without repetition. *)
LEMMA QueueOf ==
  ASSUME IInv, NEW s \in Sessions
  PROVE  queue[s] \in Seq(Item) /\ Distinct(queue[s])
BY DEF IInv, Types, Housed, HousedIn

(* An idle session is kicked, and is not dismantled. *)
LEMMA StartWithEffect ==
  ASSUME IInv, NEW s \in Sessions, NEW m \in Messages, NEW way \in Ways, StartWith(s, m, way)
  PROVE  QuietStep /\ CleanStep /\ AbortStep
<1> DEFINE b == Batch(queue[s], streak[s], FALSE)
           seeds == Append(MessagesOf(b.items), m)
           wake == b.wake \/ way = "wake"
           q == b.rest
           f == Mark(Mark(fate, {m}, "pending"), b.refused, "refused")
<1>1. /\ s \notin dismantled /\ DoKick(s, seeds, wake, q, f)
      /\ abortAsked' = abortAsked /\ jobs' = jobs
  BY DEF StartWith
<1>2. queue[s] \in Seq(Item) /\ Distinct(queue[s])
  BY QueueOf
<1>3. q \in Seq(Item)
  BY <1>2, BatchSplits
<1>4. AllHeld(queue[s]) => AllHeld(q)
  BY <1>2, RestHeld
<1> HIDE DEF b, seeds, wake, q, f
<1> QED BY <1>1, <1>3, <1>4, DoKickEffect

(* A refused wake-up lets foreground messages run, or nothing. *)
LEMMA RefuseWakeEffect ==
  ASSUME IInv, NEW s \in Sessions, NEW m \in Messages, RefuseWake(s, m)
  PROVE  QuietStep /\ CleanStep /\ AbortStep
<1> DEFINE b == Batch(queue[s], streak[s], FALSE)
           seeds == MessagesOf(b.items)
           q == b.rest
           f == Mark(fate, {m} \cup b.refused, "refused")
<1>1. /\ s \notin dismantled /\ abortAsked' = abortAsked /\ jobs' = jobs
      /\ \/ /\ queue' = [queue EXCEPT ![s] = q] /\ run' = run /\ waiting' = waiting
         \/ DoKick(s, seeds, FALSE, q, f)
  BY DEF RefuseWake, laneVars
<1>2. queue[s] \in Seq(Item) /\ Distinct(queue[s])
  BY QueueOf
<1>3. q \in Seq(Item)
  BY <1>2, BatchSplits
<1>4. AllHeld(queue[s]) => AllHeld(q)
  BY <1>2, RestHeld
<1> HIDE DEF b, seeds, q, f
<1>5. CASE DoKick(s, seeds, FALSE, q, f)
  BY <1>1, <1>3, <1>4, <1>5, DoKickEffect
<1>6. CASE /\ queue' = [queue EXCEPT ![s] = q] /\ run' = run /\ waiting' = waiting
  <2>1. queue \in [Sessions -> Seq(Item)]
    BY DEF IInv, Types
  <2>2. Clean(s) => Clean(s)'
    <3>1. (NotHeld(queue[s]) = <<>> <=> AllHeld(queue[s])) /\ (NotHeld(q) = <<>> <=> AllHeld(q))
      BY <1>2, <1>3, NoneButHeld
    <3>2. queue'[s] = q
      BY <1>6, <2>1
    <3> QED BY <1>4, <1>6, <3>1, <3>2 DEF Clean
  <2>3. \A t \in Sessions \ {s} : Clean(t) => Clean(t)'
    BY <1>6, <2>1, CleanStill
  <2>4. CleanStep
    BY <2>2, <2>3 DEF CleanStep
  <2>5. QuietStep
    BY <1>6 DEF QuietStep
  <2>6. AbortStep
    BY <1>1, <1>6, KicksServe DEF KicksKept
  <2> QED BY <2>4, <2>5, <2>6
<1> QED BY <1>1, <1>5, <1>6

(* Taking a message back starts nothing. *)
LEMMA TakeBackEffect ==
  ASSUME IInv, NEW s \in Sessions, NEW i, TakeBack(s, i)
  PROVE  QuietStep /\ CleanStep /\ AbortStep
<1> DEFINE q == RemoveAt(queue[s], i)
<1>1. /\ i \in DOMAIN queue[s] /\ queue' = [queue EXCEPT ![s] = q]
      /\ run' = run /\ abortAsked' = abortAsked /\ waiting' = waiting /\ jobs' = jobs
  BY DEF TakeBack, laneVars
<1>2. queue[s] \in Seq(Item) /\ Distinct(queue[s]) /\ queue \in [Sessions -> Seq(Item)]
  BY QueueOf DEF IInv, Types
<1>3. q \in Seq(Item) /\ (AllHeld(queue[s]) => AllHeld(q))
  BY <1>1, <1>2, RemoveAtSplits, RemovedHeld
<1> HIDE DEF q
<1>4. Clean(s) => Clean(s)'
  <2>1. (NotHeld(queue[s]) = <<>> <=> AllHeld(queue[s])) /\ (NotHeld(q) = <<>> <=> AllHeld(q))
    BY <1>2, <1>3, NoneButHeld
  <2>2. queue'[s] = q
    BY <1>1, <1>2
  <2> QED BY <1>1, <1>3, <2>1, <2>2 DEF Clean
<1>5. \A t \in Sessions \ {s} : Clean(t) => Clean(t)'
  BY <1>1, <1>2, CleanStill
<1>6. CleanStep
  BY <1>4, <1>5 DEF CleanStep
<1>7. QuietStep
  BY <1>1 DEF QuietStep
<1>8. AbortStep
  BY <1>1, KicksServe DEF KicksKept
<1> QED BY <1>6, <1>7, <1>8

(* An abort that is remembered meets a kick: with no job ready, what       *)
(* queuedKicks counts of an idle session is in line.                       *)
LEMMA AbortRunEffect ==
  ASSUME IInv, Outside, ~Eager, NEW s \in Sessions, AbortRun(s), waiting' = waiting, jobs' = jobs
  PROVE  AbortStep
<1>1. /\ waiting \in Seq(Kick) /\ run \in [Sessions -> Run] /\ queuedKicks \in [Sessions -> Nat]
      /\ KicksCounted(jobs) /\ jobs \in Seq(Job)
  BY DEF IInv, Types
<1>2. jobs = <<>> /\ run[s].stage # "ended"
  BY NoneEnded
<1>3. CASE abortAsked' \subseteq abortAsked
  BY <1>3, KicksServe DEF KicksKept
<1>4. CASE ~(abortAsked' \subseteq abortAsked)
  <2>1. /\ run[s].stage \notin {"running", "looped"} /\ queuedKicks[s] > 0
        /\ abortAsked' = abortAsked \cup {s}
    BY <1>4 DEF AbortRun
  <2>2. ~Busy(s) /\ run[s].stage = "idle"
    <3>1. run[s].stage \in Stages
      BY <1>1 DEF Run
    <3> QED BY <1>2, <2>1, <3>1 DEF Busy, Stages
  <2>3. Cardinality(OwedIn(Lineup(jobs, waiting), s)) # 0
    BY <1>1, <2>1, <2>2 DEF KicksCounted
  <2>4. OwedIn(Lineup(jobs, waiting), s) # {}
    BY <2>3, FS_EmptySet
  <2>5. PICK i \in DOMAIN Lineup(jobs, waiting) : Owes(Lineup(jobs, waiting)[i], s)
    BY <2>4 DEF OwedIn
  <2>6. /\ Len(Lineup(jobs, waiting)) = Len(waiting) /\ Lineup(jobs, waiting) \in Seq(Job)
        /\ \A n \in 1..Len(waiting) : Lineup(jobs, waiting)[n] = GrantJob(waiting[n])
    <3>1. /\ Lineup(jobs, waiting) \in Seq(Job)
          /\ Len(Lineup(jobs, waiting)) = Len(jobs) + Len(waiting)
          /\ \A n \in 1..Len(waiting) : Lineup(jobs, waiting)[Len(jobs) + n] = GrantJob(waiting[n])
      BY <1>1, LineupType
    <3>2. Len(jobs) = 0 /\ Len(waiting) \in Nat
      BY <1>1, <1>2
    <3> QED BY <3>1, <3>2
  <2>7. i \in 1..Len(waiting) /\ waiting[i] \in Kick
    BY <1>1, <2>5, <2>6
  <2>8. waiting[i].sid = s
    <3>1. Owes(GrantJob(waiting[i]), s)
      BY <2>5, <2>6, <2>7
    <3> QED BY <2>7, <3>1, JobFields DEF Owes
  <2>9. waiting[i] \in ToSet(waiting)
    BY <1>1, <2>7 DEF ToSet
  <2> QED BY <2>1, <2>8, <2>9 DEF AbortStep, AbortHasTarget
<1> QED BY <1>3, <1>4

(* abort starts nothing and is remembered for a kick in line only. *)
LEMMA AbortEffect ==
  ASSUME IInv, NEW s \in Sessions, Abort(s)
  PROVE  QuietStep /\ CleanStep /\ (~Eager => AbortStep)
<1>1. /\ Outside /\ AbortRun(s) /\ queue' = queue /\ waiting' = waiting /\ jobs' = jobs
  BY DEF Abort, laneVars
<1>2. Types /\ dismantled \subseteq Sessions
  BY DEF IInv, Types
<1>3. \A t \in Sessions : run'[t].stage = run[t].stage /\ run'[t].status = run[t].status
  BY <1>1, <1>2, AbortRunKeeps
<1>4. QuietStep
  BY <1>2, <1>3 DEF QuietStep
<1>5. CleanStep
  BY <1>1, <1>3, CleanStill DEF CleanStep
<1> QED BY <1>1, <1>4, <1>5, AbortRunEffect

(* dismantle empties the queue and starts nothing. *)
LEMMA DismantleEffect ==
  ASSUME IInv, NEW s \in Sessions, Dismantle(s)
  PROVE  QuietStep /\ CleanStep /\ (~Eager => AbortStep)
<1>1. /\ Outside /\ AbortRun(s) /\ queue' = [queue EXCEPT ![s] = <<>>]
      /\ waiting' = waiting /\ jobs' = jobs
  BY DEF Dismantle, laneVars
<1>2. Types /\ dismantled \subseteq Sessions /\ queue \in [Sessions -> Seq(Item)]
  BY DEF IInv, Types
<1>3. \A t \in Sessions : run'[t].stage = run[t].stage /\ run'[t].status = run[t].status
  BY <1>1, <1>2, AbortRunKeeps
<1>4. QuietStep
  BY <1>2, <1>3 DEF QuietStep
<1>5. Clean(s)'
  <2>1. queue'[s] = <<>>
    BY <1>1, <1>2
  <2>2. <<>> \in Seq(Item) /\ AllHeld(<<>>)
    BY DEF AllHeld
  <2>3. NotHeld(<<>>) = <<>>
    BY <2>2, NoneButHeld
  <2> QED BY <2>1, <2>3 DEF Clean
<1>6. \A t \in Sessions \ {s} : Clean(t) => Clean(t)'
  BY <1>1, <1>2, <1>3, CleanStill
<1>7. CleanStep
  BY <1>5, <1>6 DEF CleanStep
<1> QED BY <1>1, <1>4, <1>7, AbortRunEffect

(* A step of a running or returned run of s, which touches no other        *)
(* session, no kick and no memory of an abort.                             *)
LEMMA RunEffect ==
  ASSUME IInv, NEW s \in Sessions, abortAsked' = abortAsked, waiting' = waiting,
         KicksOf(jobs) \subseteq KicksOf(jobs'),
         \A t \in Sessions \ {s} : queue'[t] = queue[t] /\ run'[t] = run[t],
         Clean(s)',
         run'[s].stage = "running" => run[s].stage = "running" \/ s \notin dismantled
  PROVE  QuietStep /\ CleanStep /\ AbortStep
<1>1. dismantled \subseteq Sessions
  BY DEF IInv, Types
<1>2. QuietStep
  BY <1>1 DEF QuietStep
<1>3. CleanStep
  BY CleanStill DEF CleanStep
<1>4. AbortStep
  BY KicksServe DEF KicksKept
<1> QED BY <1>2, <1>3, <1>4

(* A running run that takes messages goes on running. *)
LEMMA TakeInRunEffect ==
  ASSUME IInv, NEW s \in Sessions, TakeInRun(s)
  PROVE  QuietStep /\ CleanStep /\ AbortStep
<1>1. PICK a \in {Absorbed(queue[s], streak[s])} :
        /\ run[s].stage = "running" /\ queue' = [queue EXCEPT ![s] = a.queue]
        /\ run' = run /\ abortAsked' = abortAsked /\ waiting' = waiting /\ jobs' = jobs
  BY DEF TakeInRun, laneVars
<1>2. \A t \in Sessions \ {s} : queue'[t] = queue[t] /\ run'[t] = run[t]
  BY <1>1 DEF IInv, Types
<1>3. Clean(s)'
  BY <1>1 DEF Clean
<1> QED BY <1>1, <1>2, <1>3, RunEffect

(* A run whose loop returned is not at rest yet. *)
LEMMA LoopReturnsEffect ==
  ASSUME IInv, NEW s \in Sessions, NEW status \in Statuses, LoopReturns(s, status)
  PROVE  QuietStep /\ CleanStep /\ AbortStep
<1>1. /\ run' = [run EXCEPT ![s].stage = "looped", ![s].status = status]
      /\ queue' = queue /\ abortAsked' = abortAsked /\ waiting' = waiting /\ jobs' = jobs
  BY DEF LoopReturns, laneVars
<1>2. run \in [Sessions -> Run]
  BY DEF IInv, Types
<1>3. \A t \in Sessions \ {s} : queue'[t] = queue[t] /\ run'[t] = run[t]
  BY <1>1, <1>2
<1>4. run'[s].stage = "looped"
  BY <1>1, <1>2 DEF Run
<1>5. Clean(s)'
  BY <1>4 DEF Clean
<1> QED BY <1>1, <1>3, <1>4, <1>5, RunEffect

(* A run of a dismantled session does not go on: its queue is empty.       *)
LEMMA GoOnEffect ==
  ASSUME IInv, NEW s \in Sessions, GoOn(s)
  PROVE  QuietStep /\ CleanStep /\ AbortStep
<1>1. PICK b \in {LeftOver(s)} : \E a \in {Absorbed(b.rest, IF b.wake THEN streak[s] + 1 ELSE streak[s])} :
        /\ Continues(s)
        /\ queue' = [queue EXCEPT ![s] = a.queue]
        /\ run' = [run EXCEPT ![s].stage = "running", ![s].status = "none"]
        /\ abortAsked' = abortAsked /\ waiting' = waiting /\ jobs' = jobs
  BY DEF GoOn, laneVars
<1>2. run \in [Sessions -> Run] /\ queue \in [Sessions -> Seq(Item)]
  BY DEF IInv, Types
<1>3. \A t \in Sessions \ {s} : queue'[t] = queue[t] /\ run'[t] = run[t]
  BY <1>1, <1>2
<1>4. run'[s].stage = "running"
  BY <1>1, <1>2 DEF Run
<1>5. Clean(s)'
  BY <1>4 DEF Clean
<1>6. s \notin dismantled
  <2>1. Batch(queue[s], streak[s], TRUE).items # <<>>
    BY <1>1 DEF Continues, LeftOver
  <2>2. Batch(<<>>, streak[s], TRUE).items = <<>>
    BY EmptyQueue
  <2>3. queue[s] # <<>>
    BY <2>1, <2>2
  <2> QED BY <2>3 DEF IInv, DismantledEmpty
<1> QED BY <1>1, <1>3, <1>4, <1>5, <1>6, RunEffect

(* A completed run ends with none but held messages in the queue: it       *)
(* looked once more and found nothing to go on with.                       *)
LEMMA EndRunEffect ==
  ASSUME IInv, NEW s \in Sessions, EndRun(s)
  PROVE  QuietStep /\ CleanStep /\ AbortStep
<1> DEFINE b == Batch(queue[s], streak[s], TRUE)
           looked == run[s].status = "completed"
<1>1. /\ looked => b.items = <<>>
      /\ queue' = IF looked THEN [queue EXCEPT ![s] = b.rest] ELSE queue
      /\ run' = [run EXCEPT ![s].stage = "ended"]
      /\ abortAsked' = abortAsked /\ waiting' = waiting /\ jobs' = Append(jobs, SettleJob(s))
  BY DEF EndRun, LeftOver, Continues, laneVars
<1>2. run \in [Sessions -> Run] /\ queue \in [Sessions -> Seq(Item)] /\ jobs \in Seq(Job)
  BY DEF IInv, Types
<1>3. \A t \in Sessions \ {s} : queue'[t] = queue[t] /\ run'[t] = run[t]
  BY <1>1, <1>2
<1>4. run'[s].stage = "ended" /\ run'[s].status = run[s].status
  BY <1>1, <1>2 DEF Run
<1>5. queue[s] \in Seq(Item) /\ Distinct(queue[s])
  BY QueueOf
<1>6. b.rest \in Seq(Item) /\ (b.items = <<>> => AllHeld(b.rest))
  BY <1>5, BatchSplits, RestHeld
<1> HIDE DEF b
<1>7. Clean(s)'
  <2>1. NotHeld(b.rest) = <<>> <=> AllHeld(b.rest)
    BY <1>6, NoneButHeld
  <2>2. looked => queue'[s] = b.rest
    BY <1>1, <1>2
  <2> QED BY <1>1, <1>4, <1>6, <2>1, <2>2 DEF Clean
<1>8. KicksOf(jobs) \subseteq KicksOf(jobs')
  <2>1. <<SettleJob(s)>> \in Seq(Job) /\ jobs' = jobs \o <<SettleJob(s)>>
    <3> DEFINE j == SettleJob(s)
    <3>1. j \in Job
      BY JobFields
    <3> HIDE DEF j
    <3>2. <<j>> \in Seq(Job) /\ Append(jobs, j) = jobs \o <<j>>
      BY <1>2, <3>1
    <3> QED BY <1>1, <3>2 DEF j
  <2> QED BY <1>2, <2>1, JoinEffect
<1> QED BY <1>1, <1>3, <1>4, <1>7, <1>8, RunEffect

(* A job that keeps the queues and the stages, and that frees a slot.      *)
LEMMA SettleEffect ==
  ASSUME IInv, Settle
  PROVE  QuietStep /\ CleanStep /\ AbortStep
<1> DEFINE s == Head(jobs).sid
           js == Tail(jobs)
           st == run[s].status
           laned == run[s].laned
           n == IF st = "crashed" THEN 0 ELSE run[s].riders
           r == ReleaseJob(s, laned)
<1>1. /\ jobs # <<>> /\ Head(jobs).do = "settle"
      /\ run' = [run EXCEPT ![s] = [NoRun EXCEPT !.status = st]]
      /\ jobs' = Append(js, r) \o Followers(s, n, st)
      /\ queue' = queue /\ abortAsked' = abortAsked /\ waiting' = waiting
  BY DEF Settle, Next1, laneVars, Followers
<1>2. /\ run \in [Sessions -> Run] /\ jobs \in Seq(Job) /\ SettlesEnded(jobs)
      /\ dismantled \subseteq Sessions /\ waiting \in Seq(Kick)
  BY DEF IInv, Types
<1>3. Head(jobs) \in Job /\ js \in Seq(Job)
  <2>1. jobs \in Seq(Job) /\ jobs # <<>>
    BY <1>1, <1>2
  <2> QED BY ONLY <2>1
<1>4. s \in Sessions /\ Head(jobs) = SettleJob(s)
  BY <1>1, <1>3, JobFields
<1>5. run[s].stage = "ended" /\ run[s] \in Run
  <2>1. /\ Cardinality(SettlesIn(jobs, s)) \in Nat
        /\ Cardinality(SettlesIn(js, s)) \in Nat
        /\ Cardinality(SettlesIn(jobs, s))
             = Cardinality(SettlesIn(js, s)) + IF Head(jobs) = SettleJob(s) THEN 1 ELSE 0
    BY <1>1, <1>2, <1>4, FirstRuns
  <2>2. Cardinality(SettlesIn(jobs, s)) # 0
    BY <1>4, <2>1
  <2> QED BY <1>2, <1>4, <2>2 DEF SettlesEnded
<1>6. st \in Statuses /\ laned \in BOOLEAN /\ n \in Nat
  BY <1>5 DEF Run
<1> HIDE DEF s, js, st, laned, n
<1>7. r \in Job
  BY <1>4, <1>6, JobFields
<1> HIDE DEF r
<1>8. run'[s].stage = "idle" /\ run'[s].status = run[s].status
  BY <1>1, <1>2, <1>4 DEF NoRun, st
<1>9. \A t \in Sessions \ {s} : run'[t] = run[t]
  BY <1>1, <1>2
<1>10. ASSUME NEW t \in Sessions
       PROVE  Clean(t) => Clean(t)'
  <2>1. CASE t = s
    BY <1>1, <1>5, <1>8, <2>1 DEF Clean
  <2>2. CASE t # s
    <3>1. run'[t] = run[t] /\ queue'[t] = queue[t]
      BY <1>1, <1>9, <2>2
    <3> QED BY <3>1 DEF Clean
  <2> QED BY <2>1, <2>2
<1>12. CleanStep
  BY <1>10 DEF CleanStep
<1>13. QuietStep
  BY <1>2, <1>8, <1>9 DEF QuietStep
<1>14. KicksOf(jobs) \subseteq KicksOf(jobs')
  <2>1. jobs' = js \o Readied(r, s, n, st) /\ Readied(r, s, n, st) \in Seq(Job)
    BY <1>1, <1>3, <1>4, <1>6, <1>7, ReleaseFirst
  <2>2. KicksOf(js) \subseteq KicksOf(jobs')
    BY <1>3, <2>1, JoinEffect
  <2>3. KicksOf(jobs) \subseteq KicksOf(js)
    BY <1>1, <1>2, HeadEffect DEF js
  <2> QED BY <2>2, <2>3
<1>15. AbortStep
  BY <1>1, <1>14, KicksServe DEF KicksKept
<1> QED BY <1>12, <1>13, <1>15

(* A released slot moves a kick from the line to the jobs. *)
LEMMA ReleaseEffect ==
  ASSUME IInv, Release
  PROVE  QuietStep /\ CleanStep /\ AbortStep
<1>1. /\ jobs # <<>> /\ Head(jobs).do = "release" /\ FreeSlot(Tail(jobs))
      /\ queue' = queue /\ run' = run /\ abortAsked' = abortAsked
  BY DEF Release, Next1
<1>2. Types /\ jobs \in Seq(Job)
  BY DEF IInv, Types
<1>3. Tail(jobs) \in Seq(Job)
  BY <1>1, <1>2
<1>4. KicksKept
  <2>1. ToSet(waiting) \cup KicksOf(Tail(jobs)) \subseteq ToSet(waiting') \cup KicksOf(jobs')
    BY <1>1, <1>2, <1>3, FreeSlotEffect
  <2>2. KicksOf(jobs) \subseteq KicksOf(Tail(jobs))
    BY <1>1, <1>2, HeadEffect
  <2> QED BY <2>1, <2>2 DEF KicksKept
<1>5. QuietStep /\ CleanStep
  BY <1>1, CleanStill DEF QuietStep, CleanStep
<1> QED BY <1>1, <1>4, <1>5, KicksServe
(* A follower starts a run of its session, if at all, with all the held    *)
(* messages; only a session that is not dismantled has any.                *)
LEMMA FollowUpEffect ==
  ASSUME IInv, FollowUp
  PROVE  QuietStep /\ CleanStep /\ AbortStep
<1>1. PICK s : s = Head(jobs).sid
  OBVIOUS
<1> DEFINE held == Held(queue[s])
           q == NotHeld(queue[s])
           seeds == MessagesOf(held)
           wake == AnyWake(held)
<1>2. /\ jobs # <<>> /\ Head(jobs).do = "follow" /\ jobs' = Tail(jobs) /\ abortAsked' = abortAsked
      /\ \/ held # <<>> /\ DoKick(s, seeds, wake, q, fate)
         \/ queue' = queue /\ run' = run /\ waiting' = waiting
  BY <1>1 DEF FollowUp, Next1, SeedsFollowUps, laneVars
<1>3. jobs \in Seq(Job)
  BY DEF IInv, Types
<1>4. s \in Sessions
  <2>1. Head(jobs) \in Job
    BY <1>2, <1>3
  <2> QED BY <1>1, <1>2, <2>1, JobFields
<1>5. queue[s] \in Seq(Item) /\ Distinct(queue[s])
  BY <1>4, QueueOf
<1>6. q \in Seq(Item) /\ (AllHeld(queue[s]) => q = <<>>)
  BY <1>5, HeldSplits, NoneButHeld
<1>7. KicksOf(jobs) \subseteq KicksOf(jobs')
  BY <1>2, <1>3, HeadEffect
<1>8. held # <<>> => s \notin dismantled
  BY EmptyHeld DEF IInv, DismantledEmpty
<1> HIDE DEF held, q, seeds, wake
<1>9. CASE held # <<>> /\ DoKick(s, seeds, wake, q, fate)
  <2>1. AllHeld(queue[s]) => AllHeld(q)
    BY <1>6 DEF AllHeld
  <2> QED BY <1>2, <1>4, <1>6, <1>7, <1>8, <1>9, <2>1, DoKickEffect
<1>10. CASE queue' = queue /\ run' = run /\ waiting' = waiting
  <2>1. QuietStep /\ CleanStep
    BY <1>10, CleanStill DEF QuietStep, CleanStep
  <2>2. KicksKept
    BY <1>7, <1>10 DEF KicksKept
  <2> QED BY <1>2, <2>1, <2>2, KicksServe
<1> QED BY <1>2, <1>9, <1>10

(* A kick that got its slot is gone; an abort of its session that was      *)
(* remembered is forgotten with it.                                        *)
LEMMA GrantServes ==
  ASSUME IInv, Next1("grant"),
         \/ FreeSlot(Tail(jobs))
         \/ jobs' = Tail(jobs) /\ waiting' = waiting,
         abortAsked' \subseteq abortAsked \ {Head(jobs).kick.sid}
  PROVE  AbortStep
<1>1. PICK k : k = Head(jobs).kick
  OBVIOUS
<1>2. Types /\ jobs \in Seq(Job) /\ jobs # <<>>
  BY DEF IInv, Types, Next1
<1>3. Tail(jobs) \in Seq(Job)
  BY <1>2
<1>4. KicksOf(jobs) \subseteq KicksOf(Tail(jobs)) \cup {k}
  BY <1>1, <1>2, HeadEffect
<1>5. ToSet(waiting) \cup KicksOf(Tail(jobs)) \subseteq ToSet(waiting') \cup KicksOf(jobs')
  <2>1. CASE FreeSlot(Tail(jobs))
    BY <1>2, <1>3, <2>1, FreeSlotEffect
  <2>2. CASE jobs' = Tail(jobs) /\ waiting' = waiting
    BY <2>2
  <2> QED BY <2>1, <2>2
<1>6. ASSUME AbortHasTarget, NEW s \in abortAsked'
      PROVE  \E kk \in ToSet(waiting') \cup KicksOf(jobs') : kk.sid = s
  <2>1. s \in abortAsked /\ s # k.sid
    BY <1>1, <1>6
  <2>2. PICK kk \in ToSet(waiting) \cup KicksOf(jobs) : kk.sid = s
    BY <1>6, <2>1 DEF AbortHasTarget
  <2>3. kk # k
    BY <2>1, <2>2
  <2> QED BY <1>4, <1>5, <2>2, <2>3
<1> QED BY <1>6 DEF AbortStep, AbortHasTarget

(* The kick that met the abort forgets it, and starts nothing. *)
LEMMA GrantStoppedEffect ==
  ASSUME IInv, GrantStopped
  PROVE  QuietStep /\ CleanStep /\ AbortStep
<1>1. /\ Next1("grant") /\ FreeSlot(Tail(jobs)) /\ queue' = queue /\ run' = run
      /\ abortAsked' = abortAsked \ {Head(jobs).kick.sid}
  BY DEF GrantStopped
<1>2. QuietStep /\ CleanStep
  BY <1>1, CleanStill DEF QuietStep, CleanStep
<1> QED BY <1>1, <1>2, GrantServes

(* A kick whose session runs already puts its seeds in the queue.  With    *)
(* one slot there is no such kick: the run would hold that slot.           *)
LEMMA GrantRidesEffect ==
  ASSUME IInv, GrantRides
  PROVE  QuietStep /\ LateStep /\ Capacity # 1 /\ AbortStep
<1>1. PICK k : k = Head(jobs).kick
  OBVIOUS
<1>2. /\ Next1("grant") /\ FreeSlot(Tail(jobs)) /\ run' = run /\ abortAsked' = abortAsked
      /\ ~Stopped(k.sid) /\ Busy(k.sid)
  BY <1>1 DEF GrantRides
<1>3. jobs # <<>> /\ jobs \in Seq(Job) /\ Head(jobs).do = "grant" /\ SlotsCounted(jobs)
  BY <1>2 DEF Next1, IInv, Types
<1>4. k.sid \in Sessions
  <2>1. Head(jobs) \in Job
    BY <1>3
  <2> QED BY <1>1, <1>3, <2>1, JobFields, KickFields
<1>5. ASSUME Capacity = 1
      PROVE  FALSE
  <2>1. Cardinality(BusySessions) \in Nat /\ Cardinality(BusySessions) # 0
    <3>1. BusySessions # {} /\ IsFiniteSet(BusySessions)
      BY <1>2, <1>3, <1>4 DEF BusySessions, SlotsCounted
    <3> QED BY <3>1, FS_EmptySet, FS_CardinalityType
  <2>2. Cardinality(SlotsIn(jobs)) \in Nat /\ Cardinality(SlotsIn(jobs)) # 0
    <3>1. 1 \in DOMAIN jobs /\ jobs[1] = Head(jobs) /\ DOMAIN jobs = 1..Len(jobs) /\ Len(jobs) \in Nat
      BY <1>3
    <3>2. SlotsIn(jobs) # {} /\ SlotsIn(jobs) \subseteq 1..Len(jobs)
      BY <1>3, <3>1 DEF SlotsIn
    <3>3. IsFiniteSet(SlotsIn(jobs))
      BY <3>1, <3>2, PositionsFinite
    <3> QED BY <3>2, <3>3, FS_EmptySet, FS_CardinalityType
  <2>3. inFlight = Cardinality(BusySessions) + Cardinality(SlotsIn(jobs)) /\ inFlight <= 1
    BY <1>3, <1>5 DEF SlotsCounted
  <2> QED BY <2>1, <2>2, <2>3
<1>6. QuietStep
  BY <1>2 DEF QuietStep
<1>7. AbortStep
  BY <1>1, <1>2, GrantServes DEF Stopped
<1>8. LateStep
  <2>1. \A t \in Sessions \ {k.sid} : queue'[t] = queue[t]
    <3>1. queue \in [Sessions -> Seq(Item)]
      BY DEF IInv, Types
    <3>2. PICK new, unnamed : Enqueue(k.sid, new, unnamed)
      BY <1>1 DEF GrantRides
    <3> QED BY <3>1, <3>2 DEF Enqueue
  <2>2. \A t \in Sessions \ {k.sid} : Clean(t) => Clean(t)'
    BY <1>2, <2>1, CleanStill
  <2>3. Clean(k.sid)' \/ JoinsTooLate(k.sid)
    <3>1. CASE run[k.sid].stage = "ended"
      BY <1>1, <3>1 DEF JoinsTooLate
    <3>2. CASE run[k.sid].stage # "ended"
      BY <1>2, <3>2 DEF Clean, Busy
    <3> QED BY <3>1, <3>2
  <2> QED BY <2>2, <2>3 DEF LateStep
<1> QED BY <1>5, <1>6, <1>7, <1>8

(* A kick that starts a run: its session was neither aborted nor           *)
(* dismantled.                                                             *)
LEMMA GrantLaunchesEffect ==
  ASSUME IInv, GrantLaunches
  PROVE  QuietStep /\ CleanStep /\ AbortStep
<1>1. PICK k : k = Head(jobs).kick
  OBVIOUS
<1>2. /\ Next1("grant") /\ jobs' = Tail(jobs) /\ waiting' = waiting /\ abortAsked' = abortAsked
      /\ ~Stopped(k.sid) /\ Launch(k.sid, k.seeds, k.wake, TRUE, queue[k.sid], fate)
  BY <1>1 DEF GrantLaunches, laneVars
<1>3. run \in [Sessions -> Run] /\ queue \in [Sessions -> Seq(Item)] /\ dismantled \subseteq Sessions
  BY DEF IInv, Types
<1>4. PICK a \in {Absorbed(queue[k.sid], LaunchStreak(k.sid, k.wake))} :
        /\ queue' = [queue EXCEPT ![k.sid] = a.queue]
        /\ run' = [run EXCEPT ![k.sid] = [NoRun EXCEPT !.stage = "running", !.laned = TRUE]]
  BY <1>2 DEF Launch
<1>5. ASSUME NEW t \in Sessions
      PROVE  /\ t # k.sid => queue'[t] = queue[t] /\ run'[t] = run[t]
             /\ t = k.sid => run'[t].stage = "running"
  BY <1>3, <1>4 DEF NoRun
<1>6. ASSUME NEW t \in Sessions
      PROVE  Clean(t) => Clean(t)'
  <2>1. CASE t = k.sid
    BY <1>5, <2>1 DEF Clean
  <2>2. CASE t # k.sid
    <3>1. run'[t] = run[t] /\ queue'[t] = queue[t]
      BY <1>5, <2>2
    <3> QED BY <3>1 DEF Clean
  <2> QED BY <2>1, <2>2
<1>7. QuietStep
  BY <1>2, <1>3, <1>5 DEF QuietStep, Stopped
<1>8. CleanStep
  BY <1>6 DEF CleanStep
<1>9. AbortStep
  BY <1>1, <1>2, GrantServes DEF Stopped
<1> QED BY <1>7, <1>8, <1>9

(* A launch that throws leaves the session as it was. *)
LEMMA GrantThrowsEffect ==
  ASSUME IInv, GrantThrows
  PROVE  QuietStep /\ CleanStep /\ AbortStep
<1>1. PICK k : k = Head(jobs).kick
  OBVIOUS
<1>2. /\ Next1("grant") /\ FreeSlot(Tail(jobs)) /\ abortAsked' = abortAsked
      /\ ~Stopped(k.sid) /\ LaunchThrows(k.sid, k.seeds, k.wake, queue[k.sid], fate)
  BY <1>1 DEF GrantThrows
<1>3. queue' = [queue EXCEPT ![k.sid] = queue[k.sid]] /\ run' = run
  BY <1>2 DEF LaunchThrows
<1>4. queue' = queue
  BY <1>3 DEF IInv, Types
<1>5. QuietStep /\ CleanStep
  BY <1>3, <1>4, CleanStill DEF QuietStep, CleanStep
<1>6. AbortStep
  BY <1>1, <1>2, GrantServes DEF Stopped
<1> QED BY <1>5, <1>6
(* The claims, for every step. *)
LEMMA NextEffect ==
  ASSUME IInv, [Next]_vars
  PROVE  QuietStep /\ LateStep /\ (~Eager => AbortStep)
<1> USE DEF CleanStep, LateStep
<1>1. CASE JobStep
  BY <1>1, SettleEffect, ReleaseEffect, FollowUpEffect, GrantStoppedEffect, GrantRidesEffect,
     GrantLaunchesEffect, GrantThrowsEffect DEF JobStep
<1>2. ASSUME NEW s \in Sessions, CallerStep(s)
      PROVE  QuietStep /\ LateStep /\ (~Eager => AbortStep)
  <2>1. CASE \E m \in Messages : Inject(s, m) \/ RefuseWake(s, m)
    BY <2>1, InjectEffect, RefuseWakeEffect
  <2>2. CASE \E m \in Messages, way \in Ways : Steer(s, m, way) \/ StartWith(s, m, way)
    BY <2>2, SteerEffect, StartWithEffect
  <2>3. CASE \E i \in 1..QueueCap : TakeBack(s, i)
    BY <2>3, TakeBackEffect
  <2>4. CASE Abort(s) \/ Dismantle(s)
    BY <2>4, AbortEffect, DismantleEffect
  <2> QED BY <1>2, <2>1, <2>2, <2>3, <2>4 DEF CallerStep
<1>3. ASSUME NEW s \in Sessions, RunStep(s)
      PROVE  QuietStep /\ CleanStep /\ AbortStep
  BY <1>3, TakeInRunEffect, LoopReturnsEffect, GoOnEffect, EndRunEffect DEF RunStep, LoopEnds
<1>4. CASE UNCHANGED vars
  <2>1. /\ queue' = queue /\ run' = run /\ waiting' = waiting /\ jobs' = jobs
        /\ abortAsked' = abortAsked
    BY <1>4 DEF vars, sessionVars, laneVars
  <2>2. QuietStep /\ CleanStep
    BY <2>1, CleanStill DEF QuietStep, CleanStep
  <2>3. AbortStep
    BY <2>1, KicksServe DEF KicksKept
  <2> QED BY <2>2, <2>3
<1> QED BY <1>1, <1>2, <1>3, <1>4 DEF Next

-----------------------------------------------------------------------------
(* The theorems. *)

(* The state of the drivers and of the lane has its types; no more slots   *)
(* are taken than the host has and no queue outgrows its capacity.         *)
THEOREM DriverTypes == Spec => []TypeOK
<1>1. IInv => TypeOK
  BY TypesHeld
<1> QED BY <1>1, Accounted, PTL

(* createRunLaneGate neither oversells nor leaks a slot, and nobody waits  *)
(* while one is free.                                                      *)
THEOREM LaneIsAccounted == Spec => []LaneAccounts
<1>1. IInv => LaneAccounts
  BY LaneAccountsHeld
<1> QED BY <1>1, Accounted, PTL

(* A message that submit or deliverControl accepted is in exactly one      *)
(* place until it is stored or given up, and in none afterwards.           *)
THEOREM NoMessageTwice == Spec => []Conserved
<1>1. IInv => Conserved
  BY ConservedHeld
<1> QED BY <1>1, Accounted, PTL

(* After dismantle nothing is queued in the session and no run of it       *)
(* starts, also when its kick was in line or its run about to go on.       *)
THEOREM DismantledIsQuiet == Spec => QuietAfterDismantle
<1> DEFINE Quiet == \A s \in dismantled :
             queue'[s] = <<>> /\ (run'[s].stage = "running" => run[s].stage = "running")
<1>1. ASSUME IInv, IInv', [Next]_vars
      PROVE  [Quiet]_vars
  <2>1. CASE UNCHANGED vars
    BY <2>1
  <2>2. CASE Next
    <3>1. dismantled \subseteq dismantled'
      <4>1. JobStep => dismantled \subseteq dismantled'
        BY DEF JobStep, Settle, Release, FollowUp, GrantStopped, GrantRides, GrantLaunches,
               GrantThrows, sessionVars
      <4>2. ASSUME NEW s \in Sessions, CallerStep(s) PROVE dismantled \subseteq dismantled'
        BY <4>2 DEF CallerStep, Inject, RefuseWake, Steer, StartWith, TakeBack, Abort, Dismantle,
                    sessionVars
      <4>3. ASSUME NEW s \in Sessions, RunStep(s) PROVE dismantled \subseteq dismantled'
        BY <4>3 DEF RunStep, TakeInRun, LoopEnds, LoopReturns, GoOn, EndRun, sessionVars
      <4> QED BY <2>2, <4>1, <4>2, <4>3 DEF Next
    <3>2. \A s \in dismantled : queue'[s] = <<>>
      BY <1>1, <3>1 DEF IInv, DismantledEmpty
    <3>3. QuietStep
      BY <1>1, NextEffect
    <3> QED BY <3>2, <3>3 DEF QuietStep
  <2> QED BY <1>1, <2>1, <2>2
<1>2. Spec => []IInv
  BY Accounted
<1> QED BY <1>1, <1>2, PTL DEF Spec, QuietAfterDismantle

(* An abort is remembered only while a kick is in line that will meet it,  *)
(* so it never waits for a later run.  Callers act between the jobs of     *)
(* others only from timers and input, as the driver's comment has it.      *)
THEOREM AbortIsMet ==
  ASSUME ~Eager
  PROVE  Spec => []AbortHasTarget
<1>1. Init => IInv /\ AbortHasTarget
  BY InitIInv DEF Init, AbortHasTarget
<1>2. IInv /\ AbortHasTarget /\ [Next]_vars => AbortHasTarget'
  BY NextEffect DEF AbortStep
<1> QED BY <1>1, <1>2, Accounted, PTL DEF Spec

(* Whatever the number of slots, and whenever callers act, a message is    *)
(* left behind in a session at rest only when it joins the queue after the *)
(* run has looked for the last time and before it settles.                 *)
THEOREM OnlyLateOnesStrand == Spec => OnlyLateJoinsStrand
<1> DEFINE Late == \A s \in Sessions : Clean(s) => Clean(s)' \/ JoinsTooLate(s)
<1>1. IInv /\ [Next]_vars => [Late]_vars
  BY NextEffect DEF LateStep
<1>2. Spec => []IInv
  BY Accounted
<1> QED BY <1>1, <1>2, PTL DEF Spec, OnlyLateJoinsStrand

(* As long as nothing joins in that window, a session that came to rest    *)
(* after a completed run has no message left that was steered into it.     *)
THEOREM NothingIsStranded ==
  Spec /\ [][\A s \in Sessions : ~JoinsTooLate(s)]_vars => []NothingStranded
<1> DEFINE InTime == \A s \in Sessions : ~JoinsTooLate(s)
<1>1. Init => NothingBehind
  <2> SUFFICES ASSUME Init, NEW s \in Sessions
               PROVE  Clean(s)
    BY DEF NothingBehind
  <2>1. run[s].status = "none"
    BY DEF Init, NoRun
  <2> QED BY <2>1 DEF Clean
<1>2. IInv /\ NothingBehind /\ [Next]_vars /\ [InTime]_vars => NothingBehind'
  <2>1. UNCHANGED vars => (NothingBehind => NothingBehind')
    BY DEF vars, sessionVars, NothingBehind, Clean
  <2>2. IInv /\ NothingBehind /\ [Next]_vars /\ InTime => NothingBehind'
    BY NextEffect DEF LateStep, NothingBehind
  <2> QED BY <2>1, <2>2
<1>3. IInv /\ NothingBehind => NothingStranded
  <2> SUFFICES ASSUME IInv, NothingBehind, NEW s \in Sessions, ~Busy(s),
                      run[s].status = "completed"
               PROVE  NotHeld(queue[s]) = <<>>
    BY DEF NothingStranded
  <2> QED BY DEF NothingBehind, Clean, Busy
<1> QED BY <1>1, <1>2, <1>3, Accounted, PTL DEF Spec

(* In a host with one slot, where callers act from timers and input, there *)
(* is no such step.                                                        *)
COROLLARY OneSlotStrandsNothing ==
  ASSUME ~Eager, Capacity = 1
  PROVE  Spec => []NothingStranded
<1> DEFINE InTime == \A s \in Sessions : ~JoinsTooLate(s)
<1>1. IInv /\ [Next]_vars => [InTime]_vars
  <2> SUFFICES ASSUME IInv, NEW s \in Sessions, JoinsTooLate(s) PROVE FALSE
    OBVIOUS
  <2>1. run[s].stage = "ended"
    BY DEF JoinsTooLate
  <2>2. CASE GrantRides
    BY <2>2, GrantRidesEffect
  <2>3. CASE \E m \in Messages, way \in Ways : Steer(s, m, way)
    BY <2>1, <2>3, NoneEnded DEF Steer, Fresh
  <2> QED BY <2>2, <2>3 DEF JoinsTooLate
<1>2. Spec => [][InTime]_vars
  BY <1>1, Accounted, PTL DEF Spec
<1> QED BY <1>2, NothingIsStranded, PTL
=============================================================================
