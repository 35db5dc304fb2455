----------------------------- MODULE Compaction -----------------------------
(***************************************************************************)
(* A session that is compacted while it is used: createCompactionService   *)
(* of src/compaction/service.ts, the runs of the session's driver that     *)
(* append to the same log (src/conversation/driver.ts), and the death of   *)
(* the process.                                                            *)
(*                                                                         *)
(* Granularity.  A step is what happens between two awaits: a run awaits   *)
(* the model, its tools, the agent_request_error hook, the back-off and    *)
(* compactForOverflow; a compaction awaits its turn in the chain and then  *)
(* the text of the summary.  Other sessions share the chain; they only     *)
(* make the waits longer.                                                  *)
(***************************************************************************)
EXTENDS SessionLog

CONSTANTS Opening,      \* the log of the session when the model begins
          TailKeep,     \* messages at the end that are never compacted
          MaxRetries,   \* transient retries of a run
          MaxTurns, MaxCalls, MaxErrors,   \* bounds: user messages, tool batches, errors
          MaxManual,    \* bound: manual compactions asked for
          MaxLost       \* bound: events at the end of the log that a crash may lose

ASSUME CompactionAssumption ==
  /\ WellFormed(Opening) /\ OpenTurns(Opening) = 0 /\ Unanswered(Opening) = {}
  /\ TurnsHoldCalls(Opening)
  /\ TailKeep \in Nat \ {0}
  /\ {MaxRetries, MaxTurns, MaxCalls, MaxErrors, MaxManual, MaxLost} \subseteq Nat

VARIABLES log,
          context,   \* the live timeline of the driver: positions of its messages
          run,       \* see Runs
          pending,   \* a compaction of this session is queued or under way
          manual,    \* manualQueued: a manual compaction waits for the end of the run
          cooling,   \* the last compaction is less than cooldownMs ago
          chain,     \* queued compactions, the first is under way; see Tasks
          asked,     \* bounds: user messages, manual requests
          crashes

runVars == <<context, run>>
seatVars == <<pending, manual, cooling>>
vars == <<log, runVars, seatVars, chain, asked, crashes>>

(* retries, overflowed: the allowances of this runTurns.  landed, history: *)
(* a compaction reached the log since the timeline was last rebuilt.       *)
(* crashed: the run ended with an exception, so onRunSettled did not fire. *)
Runs == [stage : {"idle", "ready", "asking", "batch", "hook", "sleep", "overflow"},
         retries : 0..MaxRetries, overflowed : BOOLEAN, landed : BOOLEAN, crashed : BOOLEAN]

NoRun == [stage |-> "idle", retries |-> 0, overflowed |-> FALSE, landed |-> FALSE,
          crashed |-> FALSE]

(* plan: the interval that is being summarized.  anchor: lastEndSeq when   *)
(* compactForOverflow was called.                                          *)
Kinds == {"threshold", "manual", "drained", "overflow"}
Tasks == [kind : Kinds, plan : [first : Nat, last : Nat], anchor : Nat]

(* Mutated form of Task: the interval is chosen when the task is queued. *)
TaskPlanned(kind) == [kind |-> kind, plan |-> PlanSegment(log, TailKeep), anchor |-> 0]

Task(kind) == [kind |-> kind, plan |-> NoInterval, anchor |-> 0]

TypeOK ==
  /\ log \in Seq(Events)
  /\ context \in Seq(Nat) /\ run \in Runs
  /\ {pending, manual, cooling} \subseteq BOOLEAN
  /\ chain \in Seq(Tasks)
  /\ asked \in [user : 0..MaxTurns, manual : 0..MaxManual] /\ crashes \in 0..1

Init ==
  /\ log = Opening /\ context = Projection(Opening) /\ run = NoRun
  /\ pending = FALSE /\ manual = FALSE /\ cooling = FALSE
  /\ chain = <<>> /\ asked = [user |-> 0, manual |-> 0] /\ crashes = 0

-----------------------------------------------------------------------------
(* The service between two awaits. *)
Busy == run.stage # "idle"

(* Mutated form of LastEnd: any end counts. *)
LastEndAny == Highest(At(log, {"end", "closed"}))

(* lastEndSeq: only a completed compaction counts. *)
LastEnd == Highest(At(log, {"end"}))

(* runThresholdEvaluation: it fires or not; then the gates. *)
Evaluate(taken, queue) ==
  \/ pending' = taken /\ chain' = queue
  \/ /\ ~taken /\ ~cooling'
     /\ pending' = TRUE /\ chain' = Append(queue, Task("threshold"))

(* Mutated form of RunSettled: the manual compaction is not looked at. *)
RunSettledForgets(queue) == UNCHANGED manual /\ Evaluate(pending, queue)

(* handleRunSettled: a manual compaction that was queued goes first, and   *)
(* the evaluation follows it (see Finish).                                 *)
RunSettled(queue) ==
  \/ /\ manual
     /\ manual' = FALSE /\ pending' = TRUE /\ chain' = Append(queue, Task("drained"))
  \/ ~manual /\ UNCHANGED manual /\ Evaluate(pending, queue)

(* compactNow, asked for while the session is idle, and while it is busy.  *)
AskManual == asked.manual < MaxManual /\ asked' = [asked EXCEPT !.manual = @ + 1]

CompactNow ==
  /\ AskManual /\ ~Busy /\ ~pending /\ ~manual
  /\ pending' = TRUE /\ chain' = Append(chain, Task("manual"))
  /\ UNCHANGED <<log, runVars, manual, cooling, crashes>>

CompactLater ==
  /\ AskManual /\ Busy /\ ~pending /\ ~manual
  /\ manual' = TRUE
  /\ UNCHANGED <<log, runVars, pending, cooling, chain, crashes>>

CooldownOver ==
  cooling /\ cooling' = FALSE /\ UNCHANGED <<log, runVars, pending, manual, chain, asked, crashes>>

-----------------------------------------------------------------------------
(* The run. *)
Add(entries) == log' = log \o entries

(* What the run appends it also pushes to its timeline. *)
Push(entries) ==
  /\ Add(entries)
  /\ context' = context \o InOrder({Len(log) + i : i \in At(entries, Messages)})

Turn == IF OpenTurns(log) = 0 THEN <<Event("turn/start")>> ELSE <<>>

AskUser == asked.user < MaxTurns /\ asked' = [asked EXCEPT !.user = @ + 1]

Goto(stage) == run' = [run EXCEPT !.stage = stage]

(* runTurns: the timeline is rebuilt from the log, the message is pushed.  *)
StartRun ==
  /\ ~Busy /\ AskUser
  /\ Add(<<Event("user")>>)
  /\ context' = Projection(log')
  /\ run' = [NoRun EXCEPT !.stage = "ready"]
  /\ UNCHANGED <<seatVars, chain, crashes>>

Crashes == run' = [NoRun EXCEPT !.crashed = TRUE]

(* A request: turn_start, then assertTimelineReconstructable compares the  *)
(* timeline with what the log says, and throws.                            *)
Request ==
  /\ run.stage = "ready"
  /\ Add(Turn)
  /\ IF context = Projection(log) THEN Goto("asking") ELSE Crashes
  /\ UNCHANGED <<context, seatVars, chain, asked, crashes>>

Calls ==
  /\ run.stage = "asking" /\ Cardinality(At(log, {"calls"})) < MaxCalls
  /\ Push(<<Event("calls")>>)
  /\ Goto("batch")
  /\ UNCHANGED <<seatVars, chain, asked, crashes>>

(* The results of a batch are pushed together, at its end. *)
BatchDone ==
  /\ run.stage = "batch"
  /\ Push(<<Result(Max(At(log, {"calls"})))>>)
  /\ Goto("ready")
  /\ UNCHANGED <<seatVars, chain, asked, crashes>>

Closing(t) == <<Event(t), Event("turn/end")>>

(* A reply ends the run, or a message that waits goes on with it. *)
Reply ==
  /\ run.stage = "asking"
  /\ Push(Closing("reply"))
  /\ run' = NoRun
  /\ UNCHANGED <<cooling, asked, crashes>>
  /\ RunSettled(chain)

FollowUp ==
  /\ run.stage = "asking" /\ AskUser
  /\ Push(Append(Closing("reply"), Event("user")))
  /\ Goto("ready")
  /\ UNCHANGED <<seatVars, chain, crashes>>

Error ==
  /\ run.stage = "asking" /\ Cardinality(At(log, {"error"})) < MaxErrors
  /\ Push(Closing("error"))
  /\ Goto("hook")
  /\ UNCHANGED <<seatVars, chain, asked, crashes>>

(* The run fails for good: its settlement is told. *)
Fail ==
  /\ run.stage = "hook"
  /\ run' = NoRun
  /\ UNCHANGED <<log, context, cooling, asked, crashes>>
  /\ RunSettled(chain)

(* occludeFailedTail: from the last assistant message to the end. *)
FailedTail == Interval(Max(At(log, {"reply", "calls", "error"})), Len(log))

Occludes == Add(<<Carrier("retry", FailedTail)>>)

OccludeFails ==
  /\ run.stage = "hook" /\ ~AcceptsRetry(log, FailedTail)
  /\ Crashes
  /\ UNCHANGED <<log, context, seatVars, chain, asked, crashes>>

(* Mutated forms of Retry: the allowance is not looked at; the timeline is *)
(* not rebuilt.                                                            *)
RetryUnbounded ==
  /\ run.stage = "hook" /\ AcceptsRetry(log, FailedTail)
  /\ Occludes
  /\ context' = Projection(log')
  /\ run' = [run EXCEPT !.stage = "sleep", !.retries = @ + 1, !.landed = FALSE]
  /\ UNCHANGED <<seatVars, chain, asked, crashes>>

RetryStale ==
  /\ run.stage = "hook" /\ run.retries < MaxRetries /\ AcceptsRetry(log, FailedTail)
  /\ Occludes
  /\ run' = [run EXCEPT !.stage = "sleep", !.retries = @ + 1, !.landed = FALSE]
  /\ UNCHANGED <<context, seatVars, chain, asked, crashes>>

Retry ==
  /\ run.stage = "hook" /\ run.retries < MaxRetries /\ AcceptsRetry(log, FailedTail)
  /\ Occludes
  /\ context' = Projection(log')
  /\ run' = [run EXCEPT !.stage = "sleep", !.retries = @ + 1, !.landed = FALSE]
  /\ UNCHANGED <<seatVars, chain, asked, crashes>>

(* The back-off is over, or the run is aborted in it. *)
Wake ==
  /\ run.stage = "sleep"
  /\ Goto("ready")
  /\ UNCHANGED <<log, context, seatVars, chain, asked, crashes>>

AbortInSleep ==
  /\ run.stage = "sleep"
  /\ run' = NoRun
  /\ UNCHANGED <<log, context, cooling, asked, crashes>>
  /\ RunSettled(chain)

(* The overflow leg calls compactForOverflow and awaits it. *)
Overflow ==
  /\ run.stage = "hook" /\ ~run.overflowed /\ AcceptsRetry(log, FailedTail)
  /\ Occludes
  /\ run' = [run EXCEPT !.stage = "overflow", !.overflowed = TRUE]
  /\ chain' = Append(chain, [Task("overflow") EXCEPT !.anchor = LastEnd])
  /\ UNCHANGED <<context, seatVars, asked, crashes>>

-----------------------------------------------------------------------------
(* The chain. *)
Task1 == Head(chain)
Waits == chain # <<>> /\ Task1.plan = NoInterval
Summarizes == chain # <<>> /\ Task1.plan # NoInterval

(* A compaction that changed what the model sees leaves the timeline of a  *)
(* run behind.                                                             *)
Leaves(changed) ==
  run' = [run EXCEPT !.landed = @ \/ (changed /\ Busy)] /\ UNCHANGED context

(* Mutated form of Yields: the seat is kept. *)
YieldsKeepingSeat == UNCHANGED <<pending, manual>> /\ chain' = Tail(chain)

(* The first task gives up its seat.  Behind a drained manual compaction   *)
(* the threshold is evaluated; that comes a few microtasks later, but      *)
(* nothing else of this session runs in between.                           *)
Yields ==
  /\ UNCHANGED manual
  /\ \/ Task1.kind # "drained" /\ pending' = FALSE /\ chain' = Tail(chain)
     \/ Task1.kind = "drained" /\ Evaluate(FALSE, Tail(chain))

(* The first task is over.  An overflow goes back to its run, which goes   *)
(* on if the log was compacted and else ends.                              *)
Finish(compacted, changed) ==
  \/ Task1.kind # "overflow" /\ Leaves(changed) /\ Yields
  \/ /\ Task1.kind = "overflow" /\ compacted
     /\ run' = [run EXCEPT !.stage = "ready", !.landed = FALSE]
     /\ context' = Projection(log')
     /\ chain' = Tail(chain)
     /\ UNCHANGED <<pending, manual>>
  \/ /\ Task1.kind = "overflow" /\ ~compacted
     /\ run' = NoRun
     /\ RunSettled(Tail(chain))
     /\ UNCHANGED context

AlreadyCompacted == Task1.kind = "overflow" /\ LastEnd # Task1.anchor

(* Its turn has come: the interval is chosen on the log as it is now. *)
Begin ==
  /\ Waits /\ ~AlreadyCompacted
  /\ PlanSegment(log, TailKeep) # NoInterval
  /\ chain' = [chain EXCEPT ![1].plan = PlanSegment(log, TailKeep)]
  /\ UNCHANGED <<log, runVars, seatVars, asked, crashes>>

(* Nothing to do: no interval, a threshold that does not fire any more, or *)
(* an overflow that another compaction has answered.                       *)
BeginNothing ==
  /\ Waits
  /\ UNCHANGED <<log, cooling, asked, crashes>>
  /\ \/ AlreadyCompacted /\ Finish(TRUE, FALSE)
     \/ /\ ~AlreadyCompacted
        /\ Task1.kind = "threshold" \/ PlanSegment(log, TailKeep) = NoInterval
        /\ Finish(FALSE, FALSE)

(* fiveStep with a summary: start, summary, surface, end. *)
Completed ==
  /\ Summarizes /\ AcceptsSurface(log, Task1.plan)
  /\ Add(<<Event("start"), Event("summary"), Carrier("surface", Task1.plan), Event("end")>>)
  /\ cooling' = TRUE
  /\ Finish(TRUE, TRUE)
  /\ UNCHANGED <<asked, crashes>>

(* The front door refuses the interval: start and summary stay.  *)
Refused ==
  /\ Summarizes /\ ~AcceptsSurface(log, Task1.plan)
  /\ Add(<<Event("start"), Event("summary")>>)
  /\ UNCHANGED <<cooling, asked, crashes>>
  /\ Finish(FALSE, TRUE)

(* The summary fails, or a plugin vetoes the compaction. *)
ClosedWithout ==
  /\ Summarizes
  /\ Add(<<Event("start"), Event("closed")>>)
  /\ UNCHANGED <<cooling, asked, crashes>>
  /\ Finish(FALSE, FALSE)

-----------------------------------------------------------------------------
(* The process dies; the next one loads a log without its last events and  *)
(* closes what is open.                                                    *)
Reopen ==
  /\ crashes = 0 /\ crashes' = 1
  /\ \E kept \in Max({Len(Opening), Len(log) - MaxLost}) .. Len(log) :
       log' = SubSeq(log, 1, kept) \o Closers(SubSeq(log, 1, kept))
  /\ context' = Projection(log') /\ run' = NoRun
  /\ pending' = FALSE /\ manual' = FALSE /\ cooling' = FALSE /\ chain' = <<>>
  /\ UNCHANGED asked

RunStep == \/ StartRun \/ Request \/ Calls \/ BatchDone \/ Reply \/ FollowUp \/ Error
           \/ Fail \/ OccludeFails \/ Retry \/ Wake \/ AbortInSleep \/ Overflow

ChainStep == Begin \/ BeginNothing \/ Completed \/ Refused \/ ClosedWithout

Next == RunStep \/ ChainStep \/ CompactNow \/ CompactLater \/ CooldownOver \/ Reopen

Spec == Init /\ [][Next]_vars

-----------------------------------------------------------------------------
(* A run sends what the log says: while it can send a request, and unless  *)
(* a compaction reached the log since the timeline was rebuilt, the live   *)
(* timeline is the projection (assertTimelineReconstructable).             *)
TimelineMatches ==
  run.stage \in {"ready", "asking", "batch", "sleep"} /\ ~run.landed => context = Projection(log)

(* The model never sees a call without its result or a result without its  *)
(* call, whatever was hidden, cut by a crash or closed by recovery, except *)
(* while the batch runs.                                                   *)
PairsComplete ==
  /\ \A r \in At(log, {"result"}) \cap Visible(log) : log[r].first \in Visible(log)
  /\ run.stage # "batch" =>
       \A c \in At(log, {"calls"}) \cap Visible(log) :
         Quantify(At(log, {"result"}) \cap Visible(log), LAMBDA r : log[r].first = c) = 1

(* What compactions hid is not forgotten: the summary of the last one, and *)
(* with it those it was made from, is still in front of the model.         *)
NothingForgotten ==
  LET last == Highest(At(log, {"surface"})) IN last # 0 => last - 1 \in Visible(log)

(* An interval that is legal when it is chosen is legal when the summary   *)
(* arrives: nothing that the run or another compaction appends during that *)
(* wait takes it away.                                                     *)
PlansStayLegal ==
  [][\A i \in DOMAIN chain, j \in DOMAIN chain' :
       /\ chain[i].plan # NoInterval /\ chain'[j] = chain[i]
       /\ AcceptsSurface(log, chain[i].plan)
       => AcceptsSurface(log', chain[i].plan)]_vars

(* An overflow makes its run ask again only after a compaction has hidden  *)
(* something since the overflow; else the same overflow would come back.   *)
OverflowShrinks ==
  [][run.stage = "overflow" /\ run'.stage = "ready"
     => \E i \in At(log', {"surface"}) : i > Highest(At(log, {"error"}))]_vars

(* The seat is held exactly while a compaction of its own is in the chain, *)
(* and a run waits for its overflow exactly while that is in the chain: a  *)
(* seat that is kept would refuse every later compaction of the session, a *)
(* forgotten overflow would leave its run waiting for ever.  A manual      *)
(* compaction that was queued during a run is taken up when that run       *)
(* settles; only a run that crashed leaves it where it is.                 *)
SeatIsHeld ==
  /\ pending <=> \E i \in DOMAIN chain : chain[i].kind # "overflow"
  /\ run.stage = "overflow" <=> \E i \in DOMAIN chain : chain[i].kind = "overflow"
  /\ manual => Busy \/ run.crashed

(* Every compaction/start on the log is followed by a compaction/end: the  *)
(* claim of fiveStep that a failure closes the pair at once.               *)
StartsEnd == OpenCompactions(log) = 0

(* A request is sent only with the timeline that the log gives: the claim  *)
(* of assertTimelineReconstructable, which takes anything else for a bug.  *)
RequestsMatch == run.stage = "ready" => context = Projection(log)
=============================================================================
