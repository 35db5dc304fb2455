------------------------------ MODULE AskQueue ------------------------------
(***************************************************************************)
(* The questions a session asks its user: UiCore.ask and askApproval of    *)
(* src/channels/ui-core.ts over AskQueue of src/channels/ask-queue.ts.     *)
(* One question is shown at a time; every backend shows it, the first      *)
(* verdict wins.  A question that is given up while it waits stays in the  *)
(* queue and steps aside when its turn comes.                              *)
(***************************************************************************)
EXTENDS Naturals, Sequences, FiniteSets, FiniteSetsExt

CONSTANTS Questions,    \* every question that may be asked
          Approvals,    \* those that ask for an approval; the others: confirm, select, input
          Backends,     \* the backends that can show an approval
          NoQuestion

ASSUME AskAssumption ==
  /\ NoQuestion \notin Questions /\ Approvals \subseteq Questions
  /\ IsFiniteSet(Backends) /\ Backends # {}

VARIABLES shown,     \* active: the question that is shown
          waiting,   \* pending: the questions behind it
          outcome,   \* the promise of ask(), per question, until its asker took it
          votes      \* backends that have nobody to answer what is shown

askVars == <<shown, waiting, outcome, votes>>

(* refused stands for reject, for cancel, which is also the value of what  *)
(* is given up, and for unavailable.                                       *)
Verdicts == {"approve", "always", "refused"}
Outcomes == Verdicts \cup {"unasked", "open"}

AskTypeOK ==
  /\ shown \in Questions \cup {NoQuestion} /\ waiting \in Seq(Questions)
  /\ outcome \in [Questions -> Outcomes] /\ votes \subseteq Backends

AskInit ==
  /\ shown = NoQuestion /\ waiting = <<>>
  /\ outcome = [q \in Questions |-> "unasked"] /\ votes = {}

Open(q) == outcome[q] = "open"
Finished(q) == outcome[q] \notin {"unasked", "open"}

(* settled: the first of the queue that is still open is shown. *)
ShowNext(results) ==
  LET open == {i \in DOMAIN waiting : results[waiting[i]] = "open"}
  IN /\ IF open = {} THEN shown' = NoQuestion /\ waiting' = <<>>
        ELSE /\ shown' = waiting[Min(open)]
             /\ waiting' = SubSeq(waiting, Min(open) + 1, Len(waiting))
     /\ votes' = {}

(* finish, for all the questions in Q at once.  Who asks the others is not *)
(* followed.                                                               *)
Results(Q, value) ==
  [q \in Questions |-> IF q \notin Q THEN outcome[q]
                       ELSE IF q \in Approvals THEN value ELSE "unasked"]

(* Mutated form of Finish: a question that was not shown yet also leaves   *)
(* the shown slot.                                                         *)
FinishAnyway(Q, value) ==
  /\ outcome' = Results(Q, value)
  /\ IF Q # {} THEN ShowNext(outcome') ELSE UNCHANGED <<shown, waiting, votes>>

Finish(Q, value) ==
  /\ outcome' = Results(Q, value)
  /\ IF shown \in Q THEN ShowNext(outcome') ELSE UNCHANGED <<shown, waiting, votes>>

(* ask: an aborted signal answers it before it is shown. *)
Raise(q, aborted) ==
  \/ aborted /\ outcome' = [outcome EXCEPT ![q] = "refused"] /\ UNCHANGED <<shown, waiting>>
  \/ /\ ~aborted
     /\ outcome' = [outcome EXCEPT ![q] = "open"]
     /\ IF shown = NoQuestion THEN shown' = q /\ UNCHANGED waiting
        ELSE waiting' = Append(waiting, q) /\ UNCHANGED shown

(* A backend answers or throws.  One that has nobody to answer does not    *)
(* decide, unless all have nobody.                                         *)
Replies(q) == IF q \in Approvals THEN Verdicts ELSE {"approve"}

Reply(b) ==
  /\ shown # NoQuestion /\ b \notin votes
  /\ \/ \E v \in Replies(shown) : Finish({shown}, v)
     \/ /\ shown \in Approvals
        /\ IF votes \cup {b} = Backends THEN Finish({shown}, "refused")
           ELSE votes' = votes \cup {b} /\ UNCHANGED <<shown, waiting, outcome>>

(* closeSession: the queue is emptied, what was in it is cancelled. *)
Emptied == {q \in Questions : Open(q)}

CloseQueue ==
  /\ Emptied # {}
  /\ outcome' = Results(Emptied, "refused")
  /\ shown' = NoQuestion /\ waiting' = <<>> /\ votes' = {}

(* The question that is shown is open, and as long as an open question     *)
(* waits one is shown: an answer, an abort or the end of another question  *)
(* never leaves the slot taken by a question nobody can answer any more    *)
(* (ui-core.ts finish and start, ask-queue.ts settled).                    *)
QueueMoves ==
  /\ shown # NoQuestion => Open(shown)
  /\ \A q \in Questions : Open(q) => q = shown \/ (shown # NoQuestion /\ \E i \in DOMAIN waiting : waiting[i] = q)
=============================================================================
