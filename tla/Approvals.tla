----------------------------- MODULE Approvals ------------------------------
(***************************************************************************)
(* The approvals of a session: the service of src/safety/approval.ts and   *)
(* its answerer, src/conversation/approval-wiring.ts.  The answer of the   *)
(* user, the abort of the run and the end of the run race for every ask.   *)
(***************************************************************************)
EXTENDS AskQueue

CONSTANTS Calls,     \* tool call ids
          Kind       \* what each call is, see Kinds

(* A write call passes the gate; a bash call here asks for more rights     *)
(* once it is executed (sandbox_permissions).                              *)
Kinds == {"read", "write", "bash"}
Gate(c) == <<c, "gate">>
Escalation(c) == <<c, "escalation">>
Writing == {c \in Calls : Kind[c] # "read"}
Asks == {Gate(c) : c \in Writing} \cup {Escalation(c) : c \in {d \in Calls : Kind[d] = "bash"}}

ASSUME ApprovalAssumption == Kind \in [Calls -> Kinds] /\ Approvals = Asks

VARIABLES verdict,   \* per ask: asked (the row is written), then what was decided,
                     \* until the caller took it
          dropped,   \* undecided asks whose race settlePending won
          sticky     \* kinds of calls the user always allows

approvalVars == <<askVars, verdict, dropped, sticky>>

(* refused: rejected, cancelled or unavailable. *)
Decisions == {"allowed-once", "refused"}

ApprovalTypeOK ==
  /\ AskTypeOK
  /\ verdict \in [Asks -> Decisions \cup {"none", "asked"}]
  /\ dropped \subseteq Asks /\ sticky \subseteq Kinds

ApprovalInit ==
  /\ AskInit
  /\ verdict = [a \in Asks |-> "none"] /\ dropped = {} /\ sticky = {}

Undecided(a) == verdict[a] = "asked"

(* service.ask, up to the wait: the row, and the question.  The signal of  *)
(* the run is bridged, aborted or not.                                     *)
Ask(a, aborted) ==
  /\ verdict' = [verdict EXCEPT ![a] = "asked"]
  /\ Raise(a, aborted)
  /\ UNCHANGED <<votes, dropped, sticky>>

(* Asks the answerer still waits for. *)
Pending == {a \in Asks : Undecided(a) /\ a \notin dropped /\ ~Finished(a)}

SettlePending == dropped' = dropped \cup Pending

(* The rest of service.ask: what the race gave is decided and recorded.    *)
(* Only the gate offers a draft to keep; keeping it may throw, and then    *)
(* the ask is recorded as unavailable.                                     *)
Answer(a) == IF a \in dropped THEN "refused" ELSE outcome[a]
HasDraft(a) == a[2] = "gate"

Decision(a) == IF Answer(a) = "refused" THEN "refused" ELSE "allowed-once"

Record(a, decision) == verdict' = [verdict EXCEPT ![a] = decision]

Decides(a) == Undecided(a) /\ (a \in dropped \/ Finished(a))

Decide(a) ==
  /\ Decides(a)
  /\ \/ /\ ~(Answer(a) = "always" /\ HasDraft(a))
        /\ Record(a, Decision(a)) /\ UNCHANGED sticky
     \/ /\ Answer(a) = "always" /\ HasDraft(a)
        /\ \/ Record(a, "allowed-once") /\ sticky' = sticky \cup {Kind[a[1]]}
           \/ Record(a, "refused") /\ UNCHANGED sticky
  /\ dropped' = dropped \ {a}
  /\ outcome' = [outcome EXCEPT ![a] = IF Finished(a) THEN "unasked" ELSE @]
  /\ UNCHANGED <<shown, waiting, votes>>

(* The caller goes on with the decision, and may ask again. *)
Takes(a) == verdict' = [verdict EXCEPT ![a] = "none"] /\ UNCHANGED <<askVars, dropped, sticky>>

TakesAndAsks(a, b, aborted) ==
  /\ verdict' = [verdict EXCEPT ![a] = "none", ![b] = "asked"]
  /\ Raise(b, aborted)
  /\ UNCHANGED <<votes, dropped, sticky>>

(* Mutated form of CancelAsks: only what is shown hears of the abort. *)
CancelShown == Finish(Pending \cap {shown}, "refused")

(* The abort of the run reaches every question its asks wait for. *)
CancelAsks == Finish(Pending, "refused")
=============================================================================
