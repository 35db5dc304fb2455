------------------------------ MODULE TurnsInv ------------------------------
(***************************************************************************)
(* The inductive invariant behind the safety properties of RunTurns.  Its  *)
(* core is where a call is: ahead in the answer of the model, in the       *)
(* segment that is executed, or in the ledger, and never in two of them.   *)
(***************************************************************************)
EXTENDS RunTurns

(* Tool calls are executed in the stage "tools" only.                      *)
ToolsAtWork == ~At("tools") => running = <<>> /\ batch = <<>>

(* A call that was begun is in the segment or in the ledger. *)
BegunIsKnown == \A c \in Calls : work[c] # "new" => c \in ledger \cup Segment

(* A call that is not over is in the segment, or was given up. *)
BusyIsHeld == \A c \in Calls : work[c] \notin {"new", "done"} => c \in Segment \cup late

(* A call that will be executed was not begun and does not come twice. *)
AheadIsNew ==
  \A i \in next..Len(batch) : batch[i].leg = "dispatch" =>
    /\ batch[i].call \notin ledger \cup Segment
    /\ \A j \in DOMAIN batch : batch[j].call = batch[i].call => i <= j

(* A segment of several calls has reads only. *)
SegmentAlone ==
  \A c, d \in Segment : c # d => Kind[c] = "read" /\ Kind[d] = "read"

(* An ask is raised once: nothing is open that its call did not come to. *)
AsksInTurn ==
  \A c \in Writing :
    /\ work[c] = "new" => ~Open(Gate(c))
    /\ Kind[c] = "bash" /\ work[c] \in {"new", "gate"} => ~Open(Escalation(c))

(* A retry that was scheduled shows in what the run has used up. *)
Counted(r) == r.last \in {"refresh", "hook"} \/ r.transient > 0 \/ r.overflow > 0

RetryIsCounted ==
  /\ ~At("idle") /\ run.row = "scheduled" => Counted(run)
  /\ At("compact") => run.overflow = 1

IInv ==
  /\ TypeOK
  /\ QueueMoves
  /\ ToolsAtWork /\ BegunIsKnown /\ BusyIsHeld /\ AheadIsNew /\ SegmentAlone
  /\ AsksInTurn
  /\ RetryIsCounted /\ RunsAreClosed
  /\ NoAskOutlivesRun
=============================================================================
