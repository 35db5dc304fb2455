----------------------------- MODULE ToolBatch ------------------------------
(***************************************************************************)
(* The tool calls of one answer of the model: executeToolBatch and         *)
(* executeOne of src/agent/tools-batch.ts, each call through the pipeline  *)
(* of src/tools/pipeline.ts (gate, execution under a deadline) and the     *)
(* gate of src/safety/gate.ts.                                             *)
(*                                                                         *)
(* A deadline ends the call, not the work: execute goes on behind it.      *)
(***************************************************************************)
EXTENDS Approvals, SequencesExt

CONSTANT Cap      \* maxToolCallsPerResponse

VARIABLES batch,     \* the calls, each with the leg it takes; see Plan
          next,      \* index: the first call that is not scheduled
          running,   \* the segment that is executed
          ledger,    \* toolResultLedger: calls that were executed
          unanimous, \* allTerminate
          work,      \* how far each call is; value, error: its segment waits for others
          late       \* calls whose deadline passed, while their work goes on

batchVars == <<batch, next, running, ledger, unanimous, work, late>>

Stages == {"new", "gate", "body", "escalation", "command", "value", "error", "done"}
Working(c) == work[c] \in {"body", "escalation", "command"}
Legs == {"dropped", "replay", "dispatch"}

BatchTypeOK ==
  /\ ApprovalTypeOK
  /\ batch \in Seq([call : Calls, leg : Legs]) /\ next \in 1..(Len(batch) + 1)
  /\ running \in Seq(Calls) /\ ledger \subseteq Calls
  /\ unanimous \in BOOLEAN /\ work \in [Calls -> Stages]
  /\ late \subseteq {c \in Calls : Working(c)}

BatchInit ==
  /\ ApprovalInit
  /\ batch = <<>> /\ next = 1 /\ running = <<>> /\ ledger = {}
  /\ unanimous = TRUE /\ work = [c \in Calls |-> "new"] /\ late = {}

-----------------------------------------------------------------------------
(* The three classes of calls, decided before anything is executed. *)

(* Mutated form of Plan: a call that is repeated in the batch is new. *)
PlanAcross(calls) ==
  [i \in DOMAIN calls |->
    [call |-> calls[i],
     leg |-> IF i > Cap THEN "dropped" ELSE IF calls[i] \in ledger THEN "replay" ELSE "dispatch"]]

Plan(calls) ==
  [i \in DOMAIN calls |->
    [call |-> calls[i],
     leg |-> IF i > Cap THEN "dropped"
             ELSE IF calls[i] \in ledger \/ \E j \in 1..(i - 1) : calls[j] = calls[i] THEN "replay"
             ELSE "dispatch"]]

CallsOf(plan, from, to) == [i \in 1..(to + 1 - from) |-> plan[from + i - 1].call]

(* The first call from i on that is executed. *)
FirstDispatch(plan, i) ==
  Min({j \in i..Len(plan) : plan[j].leg = "dispatch"} \cup {Len(plan) + 1})

(* Mutated form of SegmentEnd: the calls that follow run with it. *)
SegmentEndAny(plan, i) ==
  Min({j \in i..Len(plan) : plan[j].leg # "dispatch"} \cup {Len(plan) + 1}) - 1

(* A segment: reads that follow each other, or one other call. *)
SegmentEnd(plan, i) ==
  IF Kind[plan[i].call] # "read" THEN i
  ELSE Min({j \in i..Len(plan) : plan[j].leg # "dispatch" \/ Kind[plan[j].call] # "read"}
             \cup {Len(plan) + 1}) - 1

(* executeOne up to its first wait.  A read has no gate to wait for.       *)
Enters(c) ==
  CASE Kind[c] = "read" -> "body"
    [] Kind[c] \in sticky -> (IF Kind[c] = "bash" THEN "escalation" ELSE "body")
    [] OTHER -> "gate"

AskOf(c) == IF Enters(c) = "gate" THEN {Gate(c)}
            ELSE IF Enters(c) = "escalation" THEN {Escalation(c)} ELSE {}

Enter(calls, from, aborted) ==
  /\ work' = [c \in Calls |-> IF c \in ToSet(calls) THEN Enters(c) ELSE from[c]]
  /\ LET asks == UNION {AskOf(c) : c \in ToSet(calls)}
     IN IF asks = {} THEN UNCHANGED approvalVars ELSE \E a \in asks : Ask(a, aborted)

(* The loop of executeToolBatch from call i to its next wait: all that is  *)
(* left is answered when the run is aborted, what is not executed is       *)
(* answered in place, and the next segment starts.  Every call gets one    *)
(* result, in the order of the answer: what it says is left out.           *)
Schedule(plan, i, from, aborted) ==
  LET first == FirstDispatch(plan, i)
  IN \/ /\ aborted \/ first > Len(plan)
        /\ next' = Len(plan) + 1 /\ running' = <<>>
        /\ work' = from /\ UNCHANGED approvalVars
     \/ /\ ~aborted /\ first <= Len(plan)
        /\ next' = SegmentEnd(plan, first) + 1
        /\ running' = CallsOf(plan, first, SegmentEnd(plan, first))
        /\ Enter(running', from, aborted)

BeginBatch(calls, aborted) ==
  /\ batch' = Plan(calls) /\ unanimous' = TRUE
  /\ Schedule(batch', 1, work, aborted)
  /\ UNCHANGED <<ledger, late>>

(* All calls of the segment have their result.  Only a tool that answered  *)
(* can vote to end the run.                                                *)
Segment == ToSet(running)

(* Mutated form of SegmentDone: the results of reads are not kept. *)
SegmentDoneForgetsReads(aborted) ==
  /\ running # <<>> /\ \A c \in Segment : work[c] \in {"value", "error"} \/ c \in late
  /\ ledger' = ledger \cup {c \in Segment : Kind[c] # "read"}
  /\ \E vote \in BOOLEAN :
       /\ vote => \A c \in Segment : work[c] = "value"
       /\ unanimous' = (unanimous /\ vote)
  /\ Schedule(batch, next, [c \in Calls |-> IF c \in Segment \ late THEN "done" ELSE work[c]], aborted)
  /\ UNCHANGED <<batch, late>>

SegmentDone(aborted) ==
  /\ running # <<>> /\ \A c \in Segment : work[c] \in {"value", "error"} \/ c \in late
  /\ ledger' = ledger \cup Segment
  /\ \E vote \in BOOLEAN :
       /\ vote => \A c \in Segment : work[c] = "value"
       /\ unanimous' = (unanimous /\ vote)
  /\ Schedule(batch, next, [c \in Calls |-> IF c \in Segment \ late THEN "done" ELSE work[c]], aborted)
  /\ UNCHANGED <<batch, late>>

BatchOver == running = <<>> /\ next > Len(batch)

(* executeToolBatch returns to the loop. *)
Return ==
  /\ batch' = <<>> /\ next' = 1 /\ unanimous' = TRUE
  /\ UNCHANGED <<running, ledger, work, late>>

-----------------------------------------------------------------------------
(* One call.  When its deadline passed, what comes of it is nobody's.      *)
Move(c, stage) == work' = [work EXCEPT ![c] = stage]
SameBatch == UNCHANGED <<batch, next, running, ledger, unanimous>>

Ends(c, result) ==
  /\ Move(c, IF c \in ledger THEN "done" ELSE IF c \in late THEN "error" ELSE result)
  /\ late' = late \ {c}

(* The gate lets the call pass or blocks it. *)
GatePasses(c, aborted) ==
  /\ work[c] = "gate" /\ verdict[Gate(c)] = "allowed-once"
  /\ IF Kind[c] = "bash"
     THEN Move(c, "escalation") /\ TakesAndAsks(Gate(c), Escalation(c), aborted)
     ELSE Move(c, "body") /\ Takes(Gate(c))
  /\ SameBatch /\ UNCHANGED late

GateBlocks(c) ==
  /\ work[c] = "gate" /\ verdict[Gate(c)] = "refused"
  /\ Takes(Gate(c)) /\ Ends(c, "error") /\ SameBatch

(* The rest of execute of bash; spawn looks at the signal first. *)
CommandStarts(c, aborted) ==
  /\ work[c] = "escalation" /\ verdict[Escalation(c)] = "allowed-once" /\ ~aborted
  /\ Takes(Escalation(c)) /\ Move(c, "command")
  /\ SameBatch /\ UNCHANGED late

CommandRefused(c, aborted) ==
  /\ work[c] = "escalation" /\ verdict[Escalation(c)] \in Decisions
  /\ verdict[Escalation(c)] = "allowed-once" => aborted
  /\ Takes(Escalation(c)) /\ Ends(c, "error") /\ SameBatch

WorkEnds(c) ==
  /\ work[c] \in {"body", "command"}
  /\ Ends(c, "value")
  /\ SameBatch /\ UNCHANGED approvalVars

(* The deadline of the pipeline, which counts the wait for an escalation.  *)
Timeout(c) ==
  /\ Working(c) /\ c \notin late
  /\ late' = late \cup {c}
  /\ SameBatch /\ UNCHANGED <<work, approvalVars>>

Call(c, aborted) ==
  \/ GatePasses(c, aborted) \/ GateBlocks(c)
  \/ CommandStarts(c, aborted) \/ CommandRefused(c, aborted)
  \/ WorkEnds(c) \/ Timeout(c)

-----------------------------------------------------------------------------
(* A call that is no read works alone: no other call of the session works  *)
(* at the same time, unless one of the two was given up at its deadline    *)
(* (the segments of tools-batch.ts).                                       *)
WritesAlone ==
  \A c \in Writing, d \in Calls :
    c # d /\ Working(c) /\ Working(d) => c \in late \/ d \in late

(* How far a call is at each stage.                                        *)
Distance == [new |-> 0, gate |-> 1, escalation |-> 2, command |-> 3, body |-> 3,
             value |-> 4, error |-> 4, done |-> 5]

(* An id is executed at most once, however often the model repeats it in   *)
(* one answer or in a later one (toolResultLedger and seenInBatch of       *)
(* tools-batch.ts): a segment takes up only calls that were never begun,   *)
(* each of them once, and a call that moves only ever moves on.            *)
ExecutedOnce ==
  [][/\ next' # next => IsInjective(running') /\ \A c \in ToSet(running') : work[c] = "new"
     /\ \A c \in Calls : work'[c] # work[c] => Distance[work[c]] < Distance[work'[c]]]_batchVars
=============================================================================
