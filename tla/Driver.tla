------------------------------- MODULE Driver -------------------------------
(***************************************************************************)
(* The conversation drivers of src/conversation/driver.ts, one per         *)
(* session, and the lane they share (createRunLaneGate of                  *)
(* src/host/conversation-stack.ts): a message given to an idle session     *)
(* starts a run, one given to a busy session waits in the session's        *)
(* pending queue, and at most Capacity runs are under way in the host.     *)
(*                                                                         *)
(* Granularity.  A method of the driver is synchronous up to its first     *)
(* await and is one action.  The reactions of promises run as jobs, in the *)
(* order in which they became ready: the microtask queue of JavaScript.    *)
(* A run is seen at the points where it takes messages and where it ends;  *)
(* the retries after a failed request happen while it is running.          *)
(***************************************************************************)
EXTENDS PendingQueue, FiniteSets

CONSTANTS Sessions,
          Capacity,   \* run slots of the host
          Ways,       \* how messages come: a subset of {"plain", "wake", "held", "control"}
          MayThrow,   \* whether launch may throw (a broken thinking level)
          Eager       \* whether callers may act between two jobs, see Outside

ASSUME LaneAssumption ==
  /\ Capacity \in Nat \ {0}
  /\ Ways \subseteq {"plain", "wake", "held", "control"}
  /\ MayThrow \in BOOLEAN /\ Eager \in BOOLEAN

VARIABLES queue,        \* the pending queue of each session
          streak,       \* wakeStreak: runs in a row started by wake-ups
          run,          \* currentRun, activeController and what its promise is waited for
          dismantled,   \* sessions whose driver was dismantled
          abortAsked,   \* abortRequestedValue
          queuedKicks,  \* queuedKickCount
          inFlight,     \* slots taken
          waiting,      \* kicks waiting for a slot, first come first served
          jobs,         \* promise reactions that are ready, see the job constructors
          fate          \* history: what became of each message, see Fates

sessionVars == <<queue, streak, run, dismantled, abortAsked, queuedKicks>>
laneVars == <<inFlight, waiting>>
vars == <<sessionVars, laneVars, jobs, fate>>

(* "idle": no currentRun.  "running": in the loop.  "looped": the loop     *)
(* returned, runTurns did not go on yet.  "ended": runTurns is over, its   *)
(* settlement has not run, so currentRun is still set.                     *)
Stages == {"idle", "running", "looped", "ended"}

(* How the last run ended, "none" while one is running or before any. *)
Statuses == {"none", "completed", "failed", "aborted", "crashed"}

(* laned: started from the waiting line.  riders: held submissions that    *)
(* wait for the end of this run.                                           *)
Run == [stage : Stages, status : Statuses, aborted : BOOLEAN, laned : BOOLEAN, riders : Nat]

NoRun == [stage |-> "idle", status |-> "none", aborted |-> FALSE, laned |-> FALSE, riders |-> 0]

(* "pending": in a queue or in the seeds of a kick.  "landed": in the      *)
(* durable timeline.  The others were given up: "refused" over the wake    *)
(* budget, "evicted" from a full queue, "lost" likewise but nobody is told,*)
(* "withdrawn" by the sender or popped back, "cleared" by dismantle,       *)
(* "failed" with a launch that threw.                                      *)
Fates == {"new", "pending", "landed", "refused", "evicted", "lost", "withdrawn",
          "cleared", "failed"}

Kick == [sid : Sessions, seeds : Seq(Messages), wake : BOOLEAN]

GrantJob(k) == [do |-> "grant", kick |-> k]
SettleJob(s) == [do |-> "settle", sid |-> s]
ReleaseJob(s, laned) == [do |-> "release", sid |-> s, laned |-> laned]
FollowJob(s, status) == [do |-> "follow", sid |-> s, status |-> status]

Job ==
  {GrantJob(k) : k \in Kick} \cup {SettleJob(s) : s \in Sessions}
  \cup {ReleaseJob(s, b) : s \in Sessions, b \in BOOLEAN}
  \cup {FollowJob(s, x) : s \in Sessions, x \in Statuses}

Init ==
  /\ queue = [s \in Sessions |-> <<>>]
  /\ streak = [s \in Sessions |-> 0]
  /\ run = [s \in Sessions |-> NoRun]
  /\ dismantled = {} /\ abortAsked = {}
  /\ queuedKicks = [s \in Sessions |-> 0]
  /\ inFlight = 0 /\ waiting = <<>> /\ jobs = <<>>
  /\ fate = [m \in Messages |-> "new"]

-----------------------------------------------------------------------------
Busy(s) == run[s].stage # "idle"

(* A caller acts when no promise reaction is ready (an input event, a      *)
(* timer), or, if Eager, also from a reaction of its own between two jobs. *)
Outside == Eager \/ jobs = <<>>

Mark(f, S, v) == [m \in Messages |-> IF m \in S THEN v ELSE f[m]]

(* Mutated forms of FreeSlot: the slot is counted free although it is      *)
(* handed over; or it is counted free and nobody is called.                *)
FreeSlotTwice(ready) ==
  /\ inFlight' = inFlight - 1
  /\ waiting' = IF waiting = <<>> THEN waiting ELSE Tail(waiting)
  /\ jobs' = IF waiting = <<>> THEN ready ELSE Append(ready, GrantJob(Head(waiting)))

FreeSlotForgets(ready) ==
  inFlight' = inFlight - 1 /\ jobs' = ready /\ UNCHANGED waiting

(* releaseSlot: the slot goes to the first kick in line, whose             *)
(* continuation becomes ready.                                             *)
FreeSlot(ready) ==
  IF waiting = <<>>
  THEN /\ inFlight' = inFlight - 1
       /\ jobs' = ready
       /\ UNCHANGED waiting
  ELSE /\ jobs' = Append(ready, GrantJob(Head(waiting)))
       /\ waiting' = Tail(waiting)
       /\ UNCHANGED inFlight

LaunchStreak(s, wake) == IF wake THEN streak[s] + 1 ELSE 0

(* launch: the run starts with the seeds, then takes what is in the queue  *)
(* q at the top of its first turn.                                         *)
Launch(s, seeds, wake, laned, q, f) ==
  \E a \in {Absorbed(q, LaunchStreak(s, wake))} :
      /\ queue' = [queue EXCEPT ![s] = a.queue]
      /\ streak' = [streak EXCEPT ![s] = a.streak]
      /\ run' = [run EXCEPT ![s] = [NoRun EXCEPT !.stage = "running", !.laned = laned]]
      /\ fate' = Mark(Mark(f, ToSet(seeds) \cup a.landed, "landed"), a.refused, "refused")

(* launch throws before the run exists; the seeds are not stored anywhere. *)
LaunchThrows(s, seeds, wake, q, f) ==
  /\ MayThrow
  /\ queue' = [queue EXCEPT ![s] = q]
  /\ streak' = [streak EXCEPT ![s] = LaunchStreak(s, wake)]
  /\ fate' = Mark(f, ToSet(seeds), "failed")
  /\ UNCHANGED run

(* kick with a free slot: the run starts at once, or gives the slot back.  *)
KickNow(s, seeds, wake, q, f) ==
  /\ inFlight < Capacity
  /\ \/ Launch(s, seeds, wake, FALSE, q, f) /\ inFlight' = inFlight + 1
     \/ LaunchThrows(s, seeds, wake, q, f) /\ UNCHANGED inFlight
  /\ UNCHANGED <<waiting, queuedKicks>>

(* kick on a full lane: the seeds wait for a slot, the session stays idle. *)
KickLater(s, seeds, wake, q, f) ==
  /\ inFlight >= Capacity
  /\ waiting' = Append(waiting, [sid |-> s, seeds |-> seeds, wake |-> wake])
  /\ queuedKicks' = [queuedKicks EXCEPT ![s] = @ + 1]
  /\ queue' = [queue EXCEPT ![s] = q]
  /\ fate' = f
  /\ UNCHANGED <<inFlight, streak, run>>

DoKick(s, seeds, wake, q, f) ==
  KickNow(s, seeds, wake, q, f) \/ KickLater(s, seeds, wake, q, f)

(* Items are put in the queue of s, which may evict older ones; unnamed    *)
(* are the messages whose eviction is not reported.                        *)
Enqueue(s, items, unnamed) ==
  \E e \in {Enqueued(queue[s], items)} :
      /\ queue' = [queue EXCEPT ![s] = e.queue]
      /\ fate' = Mark(Mark(Mark(fate, ToSet(MessagesOf(items)), "pending"),
                           e.evicted \ unnamed, "evicted"),
                      e.evicted \cap unnamed, "lost")

-----------------------------------------------------------------------------
(* submit and deliverControl: routeMessage's three channels.               *)

Fresh(m) == Outside /\ fate[m] = "new"

(* Dismantled: the message is stored and nothing runs. *)
Inject(s, m) ==
  /\ Fresh(m) /\ s \in dismantled
  /\ fate' = Mark(fate, {m}, "landed")
  /\ UNCHANGED <<sessionVars, laneVars, jobs>>

(* deliverControl only names an evicted message that has a withdrawal key. *)
Unnamed(s, way) ==
  IF way = "control"
  THEN {queue[s][i].msg : i \in {j \in DOMAIN queue[s] : ~queue[s][j].ctl}}
  ELSE {}

(* Busy: the message waits for the running run, or for its end if held;    *)
(* a held submission also waits for the promise of that run.               *)
Steer(s, m, way) ==
  /\ Fresh(m) /\ s \notin dismantled /\ Busy(s) /\ way \in Ways
  /\ Enqueue(s, <<[msg |-> m, wake |-> way = "wake", hold |-> way = "held",
                   ctl |-> way = "control"]>>, Unnamed(s, way))
  /\ run' = IF way = "held" THEN [run EXCEPT ![s].riders = @ + 1] ELSE run
  /\ UNCHANGED <<streak, dismantled, abortAsked, queuedKicks, laneVars, jobs>>

(* Idle: what is stranded in the queue and the message start a run. *)
StartWith(s, m, way) ==
  \E b \in {Batch(queue[s], streak[s], FALSE)} :
      /\ Fresh(m) /\ s \notin dismantled /\ ~Busy(s) /\ way \in Ways
      /\ ~(way = "wake" /\ streak[s] >= MaxWakes)
      /\ DoKick(s, Append(MessagesOf(b.items), m), b.wake \/ way = "wake", b.rest,
                Mark(Mark(fate, {m}, "pending"), b.refused, "refused"))
      /\ UNCHANGED <<dismantled, abortAsked, jobs>>

(* Idle, and the wake budget is used up: the wake-up is refused, stranded  *)
(* foreground messages start a run without it.                             *)
RefuseWake(s, m) ==
  LET b == Batch(queue[s], streak[s], FALSE)
      f == Mark(fate, {m} \cup b.refused, "refused")
  IN  /\ Fresh(m) /\ s \notin dismantled /\ ~Busy(s) /\ "wake" \in Ways
      /\ streak[s] >= MaxWakes
      /\ IF b.items = <<>>
         THEN /\ queue' = [queue EXCEPT ![s] = b.rest]
              /\ fate' = f
              /\ UNCHANGED <<streak, run, queuedKicks, laneVars>>
         ELSE DoKick(s, MessagesOf(b.items), FALSE, b.rest, f)
      /\ UNCHANGED <<dismantled, abortAsked, jobs>>

(* withdrawQueued of a control message, popWaitingLast of any other one.   *)
TakeBack(s, i) ==
  /\ Outside /\ i \in DOMAIN queue[s]
  /\ queue' = [queue EXCEPT ![s] = RemoveAt(@, i)]
  /\ fate' = Mark(fate, {queue[s][i].msg}, "withdrawn")
  /\ UNCHANGED <<streak, run, dismantled, abortAsked, queuedKicks, laneVars, jobs>>

(* Mutated form of AbortRun: remembered whether or not a kick waits. *)
AbortRunAlways(s) ==
  IF run[s].stage \in {"running", "looped"}
  THEN run' = [run EXCEPT ![s].aborted = TRUE] /\ UNCHANGED abortAsked
  ELSE abortAsked' = abortAsked \cup {s} /\ UNCHANGED run

(* What abort() does to a run, and whether it is remembered for a kick in  *)
(* line because no run is under way.                                       *)
AbortRun(s) ==
  IF run[s].stage \in {"running", "looped"}
  THEN /\ run' = [run EXCEPT ![s].aborted = TRUE]
       /\ UNCHANGED abortAsked
  ELSE /\ abortAsked' = IF queuedKicks[s] > 0 THEN abortAsked \cup {s} ELSE abortAsked
       /\ UNCHANGED run

Abort(s) ==
  /\ Outside
  /\ AbortRun(s)
  /\ UNCHANGED <<queue, streak, dismantled, queuedKicks, laneVars, jobs, fate>>

Dismantle(s) ==
  /\ Outside /\ s \notin dismantled
  /\ dismantled' = dismantled \cup {s}
  /\ AbortRun(s)
  /\ queue' = [queue EXCEPT ![s] = <<>>]
  /\ fate' = Mark(fate, ToSet(MessagesOf(queue[s])), "cleared")
  /\ UNCHANGED <<streak, queuedKicks, laneVars, jobs>>

-----------------------------------------------------------------------------
(* A run.                                                                  *)

(* The top of a later turn, or a natural stop: messages are taken. *)
TakeInRun(s) ==
  \E a \in {Absorbed(queue[s], streak[s])} :
      /\ run[s].stage = "running" /\ a.queue # queue[s]
      /\ queue' = [queue EXCEPT ![s] = a.queue]
      /\ streak' = [streak EXCEPT ![s] = a.streak]
      /\ fate' = Mark(Mark(fate, a.landed, "landed"), a.refused, "refused")
      /\ UNCHANGED <<run, dismantled, abortAsked, queuedKicks, laneVars, jobs>>

(* The loop returns, or throws ("crashed"). *)
LoopReturns(s, status) ==
  /\ run[s].stage = "running"
  /\ status = "aborted" => run[s].aborted
  /\ run' = [run EXCEPT ![s].stage = "looped", ![s].status = status]
  /\ UNCHANGED <<queue, streak, dismantled, abortAsked, queuedKicks, laneVars, jobs, fate>>

LeftOver(s) == Batch(queue[s], streak[s], TRUE)

(* Mutated form of Continues: a run ends whatever is left in the queue. *)
NeverContinues(s) == FALSE

Continues(s) == run[s].status = "completed" /\ LeftOver(s).items # <<>>

(* runTurns after a completed loop: messages the loop did not take start   *)
(* the loop again, which takes more at its top.                            *)
GoOn(s) ==
  \E b \in {LeftOver(s)} :
    \E a \in {Absorbed(b.rest, IF b.wake THEN streak[s] + 1 ELSE streak[s])} :
      /\ run[s].stage = "looped" /\ Continues(s)
      /\ queue' = [queue EXCEPT ![s] = a.queue]
      /\ streak' = [streak EXCEPT ![s] = a.streak]
      /\ run' = [run EXCEPT ![s].stage = "running", ![s].status = "none"]
      /\ fate' = Mark(Mark(fate, ToSet(MessagesOf(b.items)) \cup a.landed, "landed"),
                      b.refused \cup a.refused, "refused")
      /\ UNCHANGED <<dismantled, abortAsked, queuedKicks, laneVars, jobs>>

(* runTurns ends; wake-ups beyond the budget that it looked at are refused.*)
EndRun(s) ==
  LET b == LeftOver(s)
      looked == run[s].status = "completed"
  IN  /\ run[s].stage = "looped" /\ ~Continues(s)
      /\ run' = [run EXCEPT ![s].stage = "ended"]
      /\ queue' = IF looked THEN [queue EXCEPT ![s] = b.rest] ELSE queue
      /\ fate' = IF looked THEN Mark(fate, b.refused, "refused") ELSE fate
      /\ jobs' = Append(jobs, SettleJob(s))
      /\ UNCHANGED <<streak, dismantled, abortAsked, queuedKicks, laneVars>>

-----------------------------------------------------------------------------
(* The jobs.                                                               *)

Next1(do) == jobs # <<>> /\ Head(jobs).do = do

(* The settlement of a run clears currentRun; then its slot is released,   *)
(* then the held submissions go on, unless the run crashed.                *)
Settle ==
  /\ Next1("settle")
  /\ LET s == Head(jobs).sid
         followers == IF run[s].status = "crashed" THEN 0 ELSE run[s].riders
     IN  /\ run' = [run EXCEPT ![s] = [NoRun EXCEPT !.status = run[s].status]]
         /\ jobs' = Append(Tail(jobs), ReleaseJob(s, run[s].laned))
                    \o [i \in 1..followers |-> FollowJob(s, run[s].status)]
  /\ UNCHANGED <<queue, streak, dismantled, abortAsked, queuedKicks, laneVars, fate>>

Uncount(s, laned) ==
  queuedKicks' = IF laned THEN [queuedKicks EXCEPT ![s] = @ - 1] ELSE queuedKicks

Release ==
  /\ Next1("release")
  /\ FreeSlot(Tail(jobs))
  /\ Uncount(Head(jobs).sid, Head(jobs).laned)
  /\ UNCHANGED <<queue, streak, run, dismantled, abortAsked, fate>>

(* Mutated form of SeedsFollowUps: only when a slot is free. *)
SeedsWithoutWaiting(s, status) ==
  ~Busy(s) /\ status = "completed" /\ Held(queue[s]) # <<>> /\ inFlight < Capacity

(* seedQueuedFollowUps: the first follower of a completed run starts a run *)
(* with all the held messages; it does nothing when a run is under way.    *)
SeedsFollowUps(s, status) == ~Busy(s) /\ status = "completed" /\ Held(queue[s]) # <<>>

FollowUp ==
  /\ Next1("follow")
  /\ LET s == Head(jobs).sid
         held == Held(queue[s])
     IN  IF SeedsFollowUps(s, Head(jobs).status)
         THEN DoKick(s, MessagesOf(held), AnyWake(held), NotHeld(queue[s]), fate)
         ELSE UNCHANGED <<queue, streak, run, queuedKicks, laneVars, fate>>
  /\ jobs' = Tail(jobs)
  /\ UNCHANGED <<dismantled, abortAsked>>

(* Mutated form of Stopped: the second look forgets dismantle. *)
StoppedByAbortOnly(s) == s \in abortAsked

(* A kick gets its slot and looks again.  Dismantled or aborted meanwhile: *)
(* the seeds are stored and nothing runs.                                  *)
Stopped(s) == s \in dismantled \cup abortAsked

GrantStopped ==
  /\ Next1("grant")
  /\ LET k == Head(jobs).kick
     IN  /\ Stopped(k.sid)
         /\ abortAsked' = abortAsked \ {k.sid}
         /\ fate' = Mark(fate, ToSet(k.seeds), "landed")
         /\ Uncount(k.sid, TRUE)
  /\ FreeSlot(Tail(jobs))
  /\ UNCHANGED <<queue, streak, run, dismantled>>

(* Another kick of the session was first: the seeds ride on its run, all   *)
(* as wake-ups if the kick was one, and the slot is not needed.            *)
GrantRides ==
  /\ Next1("grant")
  /\ LET k == Head(jobs).kick
     IN  /\ ~Stopped(k.sid) /\ Busy(k.sid)
         /\ Enqueue(k.sid, [i \in DOMAIN k.seeds |->
                              [msg |-> k.seeds[i], wake |-> k.wake, hold |-> FALSE,
                               ctl |-> FALSE]], {})
         /\ Uncount(k.sid, TRUE)
  /\ FreeSlot(Tail(jobs))
  /\ UNCHANGED <<streak, run, dismantled, abortAsked>>

GrantLaunches ==
  /\ Next1("grant")
  /\ LET k == Head(jobs).kick
     IN  /\ ~Stopped(k.sid) /\ ~Busy(k.sid)
         /\ Launch(k.sid, k.seeds, k.wake, TRUE, queue[k.sid], fate)
  /\ jobs' = Tail(jobs)
  /\ UNCHANGED <<dismantled, abortAsked, queuedKicks, laneVars>>

GrantThrows ==
  /\ Next1("grant")
  /\ LET k == Head(jobs).kick
     IN  /\ ~Stopped(k.sid) /\ ~Busy(k.sid)
         /\ LaunchThrows(k.sid, k.seeds, k.wake, queue[k.sid], fate)
         /\ Uncount(k.sid, TRUE)
  /\ FreeSlot(Tail(jobs))
  /\ UNCHANGED <<dismantled, abortAsked>>

JobStep ==
  \/ Settle \/ Release \/ FollowUp
  \/ GrantStopped \/ GrantRides \/ GrantLaunches \/ GrantThrows

-----------------------------------------------------------------------------
CallerStep(s) ==
  \/ \E m \in Messages : Inject(s, m) \/ RefuseWake(s, m)
  \/ \E m \in Messages, way \in Ways : Steer(s, m, way) \/ StartWith(s, m, way)
  \/ \E i \in 1..QueueCap : TakeBack(s, i)
  \/ Abort(s) \/ Dismantle(s)

LoopEnds(s) == \E status \in Statuses \ {"none"} : LoopReturns(s, status)

RunStep(s) == TakeInRun(s) \/ LoopEnds(s) \/ GoOn(s) \/ EndRun(s)

Next == JobStep \/ \E s \in Sessions : CallerStep(s) \/ RunStep(s)

Spec == Init /\ [][Next]_vars

(* Ready promise reactions run, and a run ends: every wait inside it has a *)
(* timeout or can be aborted, and a failed request is retried a bounded    *)
(* number of times.                                                        *)
Fairness ==
  /\ WF_vars(JobStep)
  /\ \A s \in Sessions : WF_vars(LoopEnds(s)) /\ WF_vars(GoOn(s) \/ EndRun(s))

FairSpec == Spec /\ Fairness

-----------------------------------------------------------------------------
(* Properties.                                                             *)

KicksOf(js) == {js[i].kick : i \in {j \in DOMAIN js : js[j].do = "grant"}}
JobsDoing(do) == {i \in DOMAIN jobs : jobs[i].do = do}

TypeOK ==
  /\ queue \in [Sessions -> Seq(Item)] /\ \A s \in Sessions : Len(queue[s]) <= QueueCap
  /\ streak \in [Sessions -> Nat]
  /\ run \in [Sessions -> Run]
  /\ dismantled \subseteq Sessions /\ abortAsked \subseteq Sessions
  /\ queuedKicks \in [Sessions -> Nat]
  /\ inFlight \in 0..Capacity
  /\ waiting \in Seq(Kick)
  /\ \A i \in DOMAIN jobs :
       jobs[i].do = "grant" => jobs[i].kick \in Kick
  /\ fate \in [Messages -> Fates]

(* The lane is neither oversold nor leaked: every taken slot belongs to a  *)
(* run that is not over, to a settled run that is about to release it or   *)
(* to a kick that just got it, and nobody waits while a slot is free       *)
(* (createRunLaneGate, kick, waitForRunLaneIdle).                          *)
LaneAccounts ==
  /\ inFlight = Cardinality({s \in Sessions : Busy(s)})
                + Cardinality(JobsDoing("release")) + Cardinality(JobsDoing("grant"))
  /\ inFlight <= Capacity
  /\ waiting # <<>> => inFlight = Capacity

(* Where a message waits: in a queue or in the seeds of a kick. *)
QueuePlaces(m) ==
  {p \in Sessions \X (1..QueueCap) : p[2] \in DOMAIN queue[p[1]] /\ queue[p[1]][p[2]].msg = m}
LinePlaces(m) ==
  {i \in DOMAIN waiting : \E j \in DOMAIN waiting[i].seeds : waiting[i].seeds[j] = m}
GrantPlaces(m) ==
  {i \in JobsDoing("grant") : \E j \in DOMAIN jobs[i].kick.seeds : jobs[i].kick.seeds[j] = m}

(* A message that was accepted is in exactly one place until it is stored  *)
(* or given up, and in none afterwards: it is neither forgotten nor run    *)
(* twice, whichever way it takes through queues and kicks.                 *)
Conserved ==
  \A m \in Messages :
    Cardinality(QueuePlaces(m)) + Cardinality(LinePlaces(m)) + Cardinality(GrantPlaces(m))
      = IF fate[m] = "pending" THEN 1 ELSE 0

(* Nothing runs and nothing is queued in a dismantled session, also when   *)
(* its kick was waiting for a slot or its run was about to go on           *)
(* (dismantle, the second look after the slot is granted).                 *)
QuietAfterDismantle ==
  [][\A s \in dismantled :
       queue'[s] = <<>> /\ (run'[s].stage = "running" => run[s].stage = "running")]_vars

(* An abort that was remembered has a kick in line that will meet it: it   *)
(* never waits for a later run of the session (abort, "no-op when nothing  *)
(* is in line").                                                           *)
AbortHasTarget ==
  \A s \in abortAsked :
    \E k \in ToSet(waiting) \cup KicksOf(jobs) : k.sid = s

(* No more than MaxWakes runs in a row are started by wake-ups, so agents  *)
(* that wake each other come to rest (consumeBatch, routeMessage).  No run *)
(* lists it: TLC finds it true of one session on its own, and false when   *)
(* another one holds the only slot, since launch does not look at the      *)
(* budget again when a kick had to wait in line.                           *)
WakeBudget == \A s \in Sessions : streak[s] <= MaxWakes

(* When a session came to rest after a run that completed, no message is   *)
(* left that was steered into it, or into an earlier run that failed       *)
(* (consumeInRun, the end of runTurns).  Held messages have HeldRuns.      *)
NothingStranded ==
  \A s \in Sessions :
    jobs = <<>> /\ ~Busy(s) /\ run[s].status = "completed"
      => NotHeld(queue[s]) = <<>>

(* A session that came to rest after a run that completed has none but     *)
(* held messages in its queue.                                             *)
Clean(s) ==
  run[s].status = "completed" /\ run[s].stage \in {"idle", "ended"} => NotHeld(queue[s]) = <<>>

(* A message joins the queue of s when its run has looked for the last     *)
(* time and has not settled: from a kick that stood in line and rides now  *)
(* (the window that the comment in kick names), or from a caller.          *)
JoinsTooLate(s) ==
  /\ run[s].stage = "ended"
  /\ \/ GrantRides /\ Head(jobs).kick.sid = s
     \/ \E m \in Messages, way \in Ways : Steer(s, m, way)

(* In that window only can a message be left behind in a session at rest,  *)
(* whatever the number of slots and whenever callers act (kick,            *)
(* consumeInRun, the end of runTurns).                                     *)
OnlyLateJoinsStrand ==
  [][\A s \in Sessions : Clean(s) => Clean(s)' \/ JoinsTooLate(s)]_vars

(* A kick in line gets its slot, although slots go to other sessions too.  *)
LineMoves ==
  \A m \in Messages : LinePlaces(m) # {} ~> LinePlaces(m) = {}

HeldBy(s, m) == \E i \in DOMAIN queue[s] : queue[s][i].msg = m /\ queue[s][i].hold

(* A held message leaves the queue after the run it was held for, unless a *)
(* run of the session does not complete (seedQueuedFollowUps).             *)
HeldRuns ==
  \A s \in Sessions, m \in Messages :
    HeldBy(s, m) ~> (~HeldBy(s, m) \/ run[s].status \in {"failed", "aborted", "crashed"})

=============================================================================
