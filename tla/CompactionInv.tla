--------------------------- MODULE CompactionInv ---------------------------
(***************************************************************************)
(* The inductive invariant behind the safety properties of Compaction.     *)
(***************************************************************************)
EXTENDS Compaction

(* Of this session at most one compaction of its own and one overflow is   *)
(* queued, and a manual one waits only while none has the seat.            *)
OneSeat ==
  /\ manual => ~pending
  /\ \A i, j \in DOMAIN chain :
       (chain[i].kind = "overflow" <=> chain[j].kind = "overflow") => i = j

(* The last call, which is under way while a batch is. *)
LastCall == Max(At(log, {"calls"}))

(* Every call has its result, but for the one that is under way. *)
Answered ==
  \A c \in Unanswered(log) : run.stage = "batch" /\ c = LastCall

(* No turn was closed and no interval chosen that reaches the call under   *)
(* way: it cannot be hidden before its result is there.                    *)
CallIsSafe ==
  run.stage = "batch" =>
    /\ At(log, {"calls"}) # {} /\ LastCall \in Unanswered(log)
    /\ \A t \in At(log, {"turn/end"}) : t < LastCall
    /\ \A i \in DOMAIN chain : chain[i].plan.last < LastCall

(* An interval that was chosen lies in the log. *)
PlansLieInLog == \A i \in DOMAIN chain : chain[i].plan.last <= Len(log)

(* A run that decides what to do about an error has one. *)
ErrorIsThere == run.stage = "hook" => At(log, {"error"}) # {}

(* An overflow remembers the last compaction that ended before it; one     *)
(* that ended since hid something after the error.                         *)
EndsAfterError ==
  \A i \in DOMAIN chain : chain[i].kind = "overflow" =>
    /\ chain[i].anchor \in At(log, {"end"}) \cup {0}
    /\ \A x \in At(log, {"end"}) : x > chain[i].anchor =>
         /\ x - 1 \in At(log, {"surface"})
         /\ \A e \in At(log, {"error"}) : e < x - 1

IInv ==
  /\ TypeOK /\ WellFormed(log)
  /\ OneSeat /\ SeatIsHeld
  /\ Answered /\ CallIsSafe /\ PlansLieInLog /\ ErrorIsThere
  /\ EndsAfterError
  /\ TimelineMatches

-----------------------------------------------------------------------------
(* What PlansStayLegal needs besides.                                      *)

(* Only the first task has its interval. *)
HeadBegun == \A i \in DOMAIN chain : i # 1 => chain[i].plan = NoInterval

(* The last message is the one the hook is about; only summaries follow. *)
HookShape ==
  run.stage = "hook" =>
    /\ log[FailedTail.first].type = "error"
    /\ \A i \in At(log, Messages) : i > FailedTail.first => log[i].type = "summary"

(* Since the run began, turns end behind a message of the model.  It holds *)
(* for a manual compaction that such a run left behind, too.               *)
EndsBehindMessages(l) ==
  \E u \in At(l, Messages) : \A t \in At(l, {"turn/end"}) :
    t > u => t > 1 /\ l[t - 1].type \in {"reply", "error"}

Recent == Busy \/ manual \/ \E i \in DOMAIN chain : chain[i].kind = "drained"

Fresh == Recent => EndsBehindMessages(log)

(* The error may be hidden: no carrier came behind it. *)
MayRetry == run.stage = "hook" /\ \A k \in At(log, Carriers) : k < FailedTail.first

(* An interval that has the error in it is refused, and is not one of a    *)
(* manual compaction from a run.                                           *)
SparesError ==
  MayRetry =>
    \A i \in DOMAIN chain :
      \/ chain[i].plan.last < FailedTail.first
      \/ chain[i].kind # "drained" /\ ~AcceptsSurface(log, chain[i].plan)

(* An interval that begins where the next one does and takes the error is *)
(* refused; or a carrier keeps any from doing so.                          *)
Blocked(l, error) ==
  \/ \E k \in At(l, Carriers) : k > PlanFirst(l)
  \/ \A last \in 1..Len(l) :
       last >= error => ~AcceptsSurface(l, Interval(PlanFirst(l), last))

(* One compaction may be refused behind the error, and only if it was one  *)
(* of a manual request is there a next: with TailKeep = 1 the summary is   *)
(* all that keeps the next one from the error.                             *)
AfterRefusal ==
  MayRetry /\ chain # <<>> =>
    \A s \in At(log, {"summary"}) : s > FailedTail.first =>
      /\ \A q \in At(log, {"summary"}) : q > FailedTail.first => q = s
      /\ Task1.kind # "drained"
      /\ TailKeep = 1 /\ Task1.plan = NoInterval => Blocked(log, FailedTail.first)

(* With TailKeep = 1, an interval of a manual request begins where the     *)
(* next one would, and does not leave a result behind its call, unless it  *)
(* stopped before a carrier.                                               *)
LeavesNoResult(l, range) ==
  /\ At(l, {"turn/end"}) # {}
  /\ 1 <= range.first /\ range.first <= range.last
  /\ range.first = PlanFirst(l)
  /\ \/ \E k \in At(l, Carriers) : k > range.first
     \/ \A r \in At(l, {"result"}) :
          l[r].first \in range.first .. range.last => r <= range.last

NotCut ==
  TailKeep = 1 =>
    \A i \in DOMAIN chain : chain[i].kind = "drained" /\ chain[i].plan # NoInterval =>
      LeavesNoResult(log, chain[i].plan)

PInv ==
  /\ HeadBegun /\ HookShape /\ TurnsHoldCalls(log) /\ Fresh
  /\ SparesError /\ AfterRefusal /\ NotCut
=============================================================================
