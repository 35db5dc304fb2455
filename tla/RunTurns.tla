------------------------------ MODULE RunTurns ------------------------------
(***************************************************************************)
(* The runs of a session: runTurns of src/conversation/driver.ts with its  *)
(* legs that try again, over runLoop of src/agent/loop.ts, the tool        *)
(* batches and the approvals.  Retries are enabled and every leg is        *)
(* wired.  Which messages a run takes from the queue is Driver's matter.   *)
(***************************************************************************)
EXTENDS ToolBatch

CONSTANTS Batches,      \* the batches of calls the model may ask for
          MaxRetries,   \* retry.maxRetries
          MaxInputs, MaxBatches   \* bounds: inputs that are taken, batches

ASSUME RunAssumption ==
  {MaxRetries, MaxInputs, MaxBatches} \subseteq Nat /\ Batches \subseteq Seq(Calls)

VARIABLES run,        \* see Runs
          aborted,    \* the signal of the run, or of the last one
          made        \* bounds: inputs, batches

turnVars == <<run, aborted, made>>
vars == <<approvalVars, batchVars, turnVars>>

(* transient, overflow, refresh: allowances used.  last: the leg that      *)
(* continued the run last.  probe: the retry window is open.  owed:        *)
(* failures shown to the user that no closing signal followed yet.  row:   *)
(* the last llm/retry row of this runTurns.                                *)
Buckets == {"none", "transient", "overflow", "quota", "auth"}
Waits == {"hook", "sleep", "compact", "refresh"}
Runs == [stage : {"idle", "request", "tools"} \cup Waits,
         transient : 0..MaxRetries, overflow : 0..1, refresh : 0..1,
         last : {"none", "transient", "hook", "overflow", "refresh"},
         bucket : Buckets, probe : BOOLEAN, owed : Int,
         row : {"none", "scheduled", "aborted", "exhausted"},
         status : {"none", "completed", "aborted", "failed", "length", "crashed"}]

NoRun == [stage |-> "idle", transient |-> 0, overflow |-> 0, refresh |-> 0, last |-> "none",
          bucket |-> "none", probe |-> FALSE, owed |-> 0, row |-> "none", status |-> "none"]

TypeOK ==
  /\ BatchTypeOK
  /\ run \in Runs /\ aborted \in BOOLEAN
  /\ made \in [inputs : 0..MaxInputs, batches : 0..MaxBatches]

Init ==
  /\ BatchInit
  /\ run = NoRun /\ aborted = FALSE /\ made = [inputs |-> 0, batches |-> 0]

At(stage) == run.stage = stage

(* What was decided or answered has reached who waits for it: no new run   *)
(* begins in between.                                                      *)
Quiet ==
  /\ \A a \in Asks : ~Decides(a)
  /\ \A a \in Asks : verdict[a] \notin Decisions

TakesInput == made.inputs < MaxInputs /\ made' = [made EXCEPT !.inputs = @ + 1]

StartRun ==
  /\ At("idle") /\ Quiet /\ TakesInput
  /\ run' = [NoRun EXCEPT !.stage = "request"] /\ aborted' = FALSE
  /\ UNCHANGED <<approvalVars, batchVars>>

-----------------------------------------------------------------------------
(* The end of runTurns. *)

(* Mutated form of Over: the asks are left as they are. *)
OverLeavingAsks(status, from) ==
  /\ run' = [NoRun EXCEPT !.owed = from.owed, !.row = from.row, !.status = status]
  /\ UNCHANGED approvalVars

Over(status, from) ==
  /\ run' = [NoRun EXCEPT !.owed = from.owed, !.row = from.row, !.status = status]
  /\ SettlePending /\ UNCHANGED <<askVars, verdict, sticky>>

OutsideRun == UNCHANGED <<batchVars, aborted>>
Unbounded == UNCHANGED made

(* retry_wait_end{exhausted}, after a row if there is one to write.        *)
GiveUp(row, from) == Over("failed", [from EXCEPT !.owed = @ - 1, !.row = row])

(* enterRun: the loop goes on, with the same counters. *)
Again(from) == run' = [from EXCEPT !.stage = "request", !.bucket = "none"] /\ UNCHANGED approvalVars

(* A run that completed takes what is queued, or is over.                  *)
Completes ==
  \/ Over("completed", run) /\ Unbounded
  \/ TakesInput /\ Again(run)

-----------------------------------------------------------------------------
(* A request of the loop.  The signal only hurries it: what the model had  *)
(* answered by then counts.                                                *)
Stops == At("request") /\ Completes /\ OutsideRun

CallsTools ==
  /\ At("request") /\ made.batches < MaxBatches
  /\ made' = [made EXCEPT !.batches = @ + 1]
  /\ run' = [run EXCEPT !.stage = "tools"]
  /\ \E calls \in Batches : BeginBatch(calls, aborted)
  /\ UNCHANGED aborted

Errs ==
  /\ At("request") /\ ~aborted
  /\ \E bucket \in Buckets \ {"none"} :
       run' = [run EXCEPT !.stage = "hook", !.bucket = bucket, !.owed = @ + 1]
  /\ OutsideRun /\ Unbounded /\ UNCHANGED approvalVars

(* An error of the provider that is none of the abort, met after it.       *)
ErrsAborted ==
  /\ At("request") /\ aborted
  /\ run' = [run EXCEPT !.stage = "hook", !.bucket = "transient", !.owed = @ + 1]
  /\ OutsideRun /\ Unbounded /\ UNCHANGED approvalVars

IsAborted == At("request") /\ aborted /\ Over("aborted", run) /\ OutsideRun /\ Unbounded

(* stopReason length fails without an error message: no leg, no row. *)
IsCut == At("request") /\ Over("length", run) /\ OutsideRun /\ Unbounded

(* A context_transform handler throws: runTurns is left by the exception.  *)
Throws == At("request") /\ Over("crashed", run) /\ OutsideRun /\ Unbounded

ToolsReturn ==
  /\ At("tools") /\ BatchOver
  /\ IF unanimous THEN Completes ELSE Again(run) /\ Unbounded
  /\ Return /\ UNCHANGED aborted

-----------------------------------------------------------------------------
(* The legs, in the order of the code. *)

(* The last row of a run that is given up. *)
Account(from) ==
  IF \/ from.bucket = "overflow" /\ from.overflow > 0
     \/ from.last \in {"refresh", "hook"} \/ from.transient > 0 \/ from.overflow > 0
  THEN "exhausted" ELSE from.row

HookStops == run.bucket # "overflow" /\ GiveUp("exhausted", run)

Scheduled(from) == [from EXCEPT !.row = "scheduled"]

Sleeps(from) ==
  run' = [Scheduled(from) EXCEPT !.stage = "sleep", !.bucket = "none", !.probe = TRUE] /\ UNCHANGED approvalVars

TriesTransient(decision) ==
  run.bucket = "transient" \/ (decision = "retry" /\ run.bucket # "overflow")

(* Mutated form of MayRetry: one retry too many. *)
MayRetryAgain == run.transient <= MaxRetries

MayRetry == run.transient < MaxRetries

HookAnswers(decision) ==
  \/ decision = "stop" /\ HookStops
  \/ /\ decision # "stop" \/ run.bucket = "overflow"
     /\ \/ /\ TriesTransient(decision) /\ MayRetry
           /\ Sleeps([run EXCEPT !.transient = @ + 1,
                                 !.last = IF decision = "retry" THEN "hook" ELSE "transient"])
        \/ /\ run.bucket = "overflow" /\ run.overflow = 0
           /\ run' = [Scheduled(run) EXCEPT !.stage = "compact", !.bucket = "none", !.overflow = 1]
           /\ UNCHANGED approvalVars
        \/ /\ run.bucket = "auth" /\ decision = "none" /\ run.refresh = 0
           /\ run' = [run EXCEPT !.stage = "refresh"] /\ UNCHANGED approvalVars
        \/ /\ TriesTransient(decision) => ~MayRetry
           /\ run.bucket = "overflow" => run.overflow = 1
           /\ run.bucket = "auth" => decision # "none" \/ run.refresh = 1
           /\ GiveUp(Account(run), run)

Hook ==
  /\ At("hook") /\ \E decision \in {"none", "retry", "stop"} : HookAnswers(decision)
  /\ OutsideRun /\ Unbounded

(* retry_wait_end{resumed}. *)
Resumes(from) == Again([from EXCEPT !.owed = @ - 1, !.probe = FALSE])

SleepEnds == At("sleep") /\ ~aborted /\ Resumes(run) /\ OutsideRun /\ Unbounded

(* Mutated form of SleepCut: the window is not closed for the user. *)
SleepCutSilently ==
  At("sleep") /\ aborted /\ Over("failed", [run EXCEPT !.row = "aborted"]) /\ OutsideRun /\ Unbounded

SleepCut == At("sleep") /\ aborted /\ GiveUp("aborted", run) /\ OutsideRun /\ Unbounded

CompactionReturns ==
  /\ At("compact")
  /\ Resumes([run EXCEPT !.last = "overflow"]) \/ GiveUp("exhausted", run)
  /\ OutsideRun /\ Unbounded

RefreshReturns ==
  /\ At("refresh")
  /\ \/ Sleeps([run EXCEPT !.refresh = 1, !.last = "refresh"])
     \/ GiveUp(Account(run), run)
  /\ OutsideRun /\ Unbounded

-----------------------------------------------------------------------------
(* The user, and what goes on beside the run. *)
Abort ==
  /\ ~At("idle") /\ ~aborted
  /\ aborted' = TRUE /\ CancelAsks
  /\ UNCHANGED <<verdict, dropped, sticky, batchVars, run, made>>

AnswerQuestion(b) ==
  Reply(b) /\ UNCHANGED <<verdict, dropped, sticky, batchVars, turnVars>>

AskOther(q) ==
  /\ ~Open(q) /\ Raise(q, FALSE)
  /\ UNCHANGED <<votes, verdict, dropped, sticky, batchVars, turnVars>>

CloseSession == CloseQueue /\ UNCHANGED <<verdict, dropped, sticky, batchVars, turnVars>>

DecideAsk(a) == Decide(a) /\ UNCHANGED <<batchVars, turnVars>>

CallStep(c) == Call(c, aborted) /\ UNCHANGED turnVars

SegmentStep == SegmentDone(aborted) /\ UNCHANGED turnVars

Requests == Stops \/ CallsTools \/ Errs \/ ErrsAborted \/ IsAborted \/ IsCut \/ Throws
RetryLegs == Hook \/ SleepEnds \/ SleepCut \/ CompactionReturns \/ RefreshReturns

Next ==
  \/ StartRun \/ Requests \/ ToolsReturn \/ RetryLegs \/ SegmentStep \/ Abort \/ CloseSession
  \/ \E b \in Backends : AnswerQuestion(b)
  \/ \E q \in Questions \ Approvals : AskOther(q)
  \/ \E a \in Asks : DecideAsk(a)
  \/ \E c \in Calls : CallStep(c)

(* The model and the hooks answer, timers fire, promises are continued;    *)
(* the user need not do anything.                                          *)
Fairness ==
  /\ WF_vars(Requests) /\ WF_vars(ToolsReturn) /\ WF_vars(RetryLegs) /\ WF_vars(SegmentStep)
  /\ \A a \in Asks : WF_vars(DecideAsk(a))
  /\ \A c \in Calls : WF_vars(CallStep(c))

Spec == Init /\ [][Next]_vars /\ Fairness

-----------------------------------------------------------------------------
(* Every failure the user is shown is followed by exactly one signal that  *)
(* closes or resumes it, no retry window outlives its wait, and a run that *)
(* failed after a retry was scheduled ends with a row that says so         *)
(* (driver.ts runTurns; a failure by length has no row).                   *)
RunsAreClosed ==
  /\ run.owed = IF run.stage \in Waits THEN 1 ELSE 0
  /\ run.probe => At("sleep")
  /\ At("idle") /\ run.status = "failed" => run.row # "scheduled"

(* When the run is over no approval of the session waits for an answer:    *)
(* settlePending reaches those whose call was given up at its deadline     *)
(* (driver.ts finally, approval-wiring.ts).                                *)
NoAskOutlivesRun == At("idle") => Pending = {}

(* A run that is aborted ends, whatever it waits for (driver.ts abort, the *)
(* signal in the tool batch, the asks, the back-off).                      *)
AbortEndsRun == aborted /\ ~At("idle") ~> At("idle")
=============================================================================
