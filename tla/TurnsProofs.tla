----------------------------- MODULE TurnsProofs -----------------------------
(***************************************************************************)
(* Proofs about the runs of a session: where every call of a batch is, who *)
(* waits for which ask, and what a run that is retried owes the user.      *)
(***************************************************************************)
EXTENDS TurnsInv, WellFoundedInduction, TLAPS

(* A nonempty set of naturals has a least element, and Min is it. *)
LEMMA MinIsLeast ==
  ASSUME NEW T, T \subseteq Nat, T # {}
  PROVE  Min(T) \in T /\ \A y \in T : Min(T) <= y
<1> DEFINE R == {ss \in Nat \X Nat : ss[1] < ss[2]}
<1>1. IsWellFoundedOn(R, Nat)
  BY NatLessThanWellFounded DEF OpToRel
<1>2. \A x, y \in Nat : y < x => <<y, x>> \in R
  OBVIOUS
<1> HIDE DEF R
<1>3. PICK x \in T : \A y \in T : <<y, x>> \notin R
  BY <1>1, WFMin
<1>4. \A y \in T : ~(y < x)
  BY <1>3, <1>2
<1>5. \A y \in T : x <= y
  BY <1>4
<1> QED BY <1>5 DEF Min

(* A position of a sequence holds an element. *)
LEMMA ElementOf ==
  ASSUME NEW S, NEW w \in Seq(S), NEW m \in 1..Len(w)
  PROVE  w[m] \in S
OBVIOUS

(* A function on 1..n is a sequence of that length. *)
LEMMA FunctionIsSeq ==
  ASSUME NEW S, NEW n \in Nat, NEW f \in [1..n -> S]
  PROVE  f \in Seq(S) /\ Len(f) = n
OBVIOUS

(* What follows position m of a sequence. *)
LEMMA RestProps ==
  ASSUME NEW S, NEW w \in Seq(S), NEW m \in 1..Len(w)
  PROVE  /\ SubSeq(w, m + 1, Len(w)) \in Seq(S)
         /\ Len(SubSeq(w, m + 1, Len(w))) = Len(w) - m
         /\ \A i \in 1..(Len(w) - m) : SubSeq(w, m + 1, Len(w))[i] = w[m + i]
OBVIOUS

-----------------------------------------------------------------------------
(* The questions.                                                          *)

AskOK == AskTypeOK /\ QueueMoves

(* No question that asks for an approval is opened; those that change are  *)
(* answered.                                                               *)
AsksOnlyEnd == \A a \in Approvals : outcome'[a] = outcome[a] \/ outcome'[a] \in Verdicts

(* After settled the first open question of the queue is shown.            *)
LEMMA ShowNextMoves ==
  ASSUME waiting \in Seq(Questions), outcome' \in [Questions -> Outcomes], ShowNext(outcome'),
         \A q \in Questions : outcome'[q] = "open" => \E i \in DOMAIN waiting : waiting[i] = q
  PROVE  AskOK'
<1> DEFINE open == {i \in DOMAIN waiting : outcome'[waiting[i]] = "open"}
<1>1. DOMAIN waiting = 1..Len(waiting) /\ Len(waiting) \in Nat
      /\ \A i \in DOMAIN waiting : waiting[i] \in Questions
  OBVIOUS
<1>2. votes' = {}
  BY DEF ShowNext
<1>3. CASE open = {}
  <2>1. shown' = NoQuestion /\ waiting' = <<>>
    BY <1>3 DEF ShowNext
  <2>2. \A q \in Questions : outcome'[q] # "open"
    BY <1>3
  <2> QED BY <1>2, <2>1, <2>2 DEF AskOK, AskTypeOK, QueueMoves, Open
<1>4. CASE open # {}
  <2> DEFINE m == Min(open)
  <2>1. m \in open /\ \A i \in open : m <= i
    <3>1. open \subseteq Nat
      BY <1>1
    <3> HIDE DEF open
    <3> QED BY <1>4, <3>1, MinIsLeast
  <2>2. shown' = waiting[m] /\ waiting' = SubSeq(waiting, m + 1, Len(waiting))
    BY <1>4 DEF ShowNext
  <2> HIDE DEF m
  <2>3. m \in 1..Len(waiting) /\ outcome'[waiting[m]] = "open"
    BY <1>1, <2>1
  <2>4. waiting' \in Seq(Questions) /\ Len(waiting') = Len(waiting) - m
        /\ \A i \in 1..(Len(waiting) - m) : waiting'[i] = waiting[m + i]
    <3>1. \A n \in 1..Len(waiting) :
            /\ SubSeq(waiting, n + 1, Len(waiting)) \in Seq(Questions)
            /\ Len(SubSeq(waiting, n + 1, Len(waiting))) = Len(waiting) - n
            /\ \A i \in 1..(Len(waiting) - n) :
                 SubSeq(waiting, n + 1, Len(waiting))[i] = waiting[n + i]
      BY RestProps
    <3> QED BY <2>2, <2>3, <3>1
  <2>5. ASSUME NEW q \in Questions, outcome'[q] = "open", q # waiting[m]
        PROVE  \E i \in DOMAIN waiting' : waiting'[i] = q
    <3>1. PICK i \in DOMAIN waiting : waiting[i] = q
      BY <2>5
    <3>2. i \in open /\ i > m
      BY <1>1, <2>1, <2>5, <3>1
    <3>3. i - m \in 1..(Len(waiting) - m) /\ m + (i - m) = i
      BY <1>1, <2>3, <3>1, <3>2
    <3> QED BY <2>4, <3>1, <3>3
  <2>6. waiting[m] \in Questions /\ waiting[m] # NoQuestion
    BY <1>1, <2>3, AskAssumption
  <2> QED BY <1>2, <2>2, <2>3, <2>4, <2>5, <2>6 DEF AskOK, AskTypeOK, QueueMoves, Open
<1> QED BY <1>3, <1>4

(* What the answer to several questions leaves. *)
LEMMA ResultsProps ==
  ASSUME AskTypeOK, NEW Q, NEW value \in Verdicts
  PROVE  /\ Results(Q, value) \in [Questions -> Outcomes]
         /\ \A q \in Questions : q \notin Q => Results(Q, value)[q] = outcome[q]
         /\ \A q \in Questions : q \in Q => Results(Q, value)[q] # "open"
         /\ \A a \in Approvals : Results(Q, value)[a] = outcome[a] \/ Results(Q, value)[a] \in Verdicts
         /\ \A a \in Approvals \cap Q : Results(Q, value)[a] = value
BY AskAssumption DEF AskTypeOK, Results, Outcomes, Verdicts

(* finish: the slot is given on when what it showed is answered. *)
LEMMA FinishMoves ==
  ASSUME AskOK, NEW Q, NEW value \in Verdicts, Finish(Q, value)
  PROVE  /\ AskOK' /\ AsksOnlyEnd
         /\ \A q \in Questions : q \notin Q => outcome'[q] = outcome[q]
         /\ \A a \in Approvals \cap Q : outcome'[a] = value
<1>1. /\ outcome' = Results(Q, value) /\ outcome' \in [Questions -> Outcomes]
      /\ \A q \in Questions : q \notin Q => outcome'[q] = outcome[q]
      /\ \A q \in Questions : q \in Q => outcome'[q] # "open"
      /\ \A a \in Approvals : outcome'[a] = outcome[a] \/ outcome'[a] \in Verdicts
      /\ \A a \in Approvals \cap Q : outcome'[a] = value
  BY ResultsProps DEF AskOK, Finish
<1>2. CASE shown \in Q
  <2>1. \A q \in Questions : outcome'[q] = "open" => \E i \in DOMAIN waiting : waiting[i] = q
    BY <1>1, <1>2 DEF AskOK, QueueMoves, Open
  <2> QED BY <1>1, <1>2, <2>1, ShowNextMoves DEF AskOK, AskTypeOK, Finish, AsksOnlyEnd
<1>3. CASE shown \notin Q
  <2>1. UNCHANGED <<shown, waiting, votes>>
    BY <1>3 DEF Finish
  <2> QED BY <1>1, <1>3, <2>1 DEF AskOK, AskTypeOK, QueueMoves, Open, AsksOnlyEnd
<1> QED BY <1>1, <1>2, <1>3

(* ask: a question that is not open yet is opened or answered at once. *)
LEMMA RaiseMoves ==
  ASSUME AskOK, NEW q \in Questions, ~Open(q), NEW ab, Raise(q, ab), votes' = votes
  PROVE  /\ AskOK'
         /\ outcome'[q] \in {"open", "refused"}
         /\ \A p \in Questions : p # q => outcome'[p] = outcome[p]
<1>1. /\ outcome \in [Questions -> Outcomes] /\ shown \in Questions \cup {NoQuestion}
      /\ waiting \in Seq(Questions) /\ votes \subseteq Backends
      /\ shown # q
  BY AskAssumption DEF AskOK, AskTypeOK, QueueMoves
<1>2. CASE outcome' = [outcome EXCEPT ![q] = "refused"] /\ UNCHANGED <<shown, waiting>>
  BY <1>1, <1>2 DEF AskOK, AskTypeOK, QueueMoves, Open, Outcomes, Verdicts
<1>3. CASE /\ outcome' = [outcome EXCEPT ![q] = "open"]
           /\ shown = NoQuestion /\ shown' = q /\ waiting' = waiting
  BY <1>1, <1>3, AskAssumption DEF AskOK, AskTypeOK, QueueMoves, Open, Outcomes
<1>4. CASE /\ outcome' = [outcome EXCEPT ![q] = "open"]
           /\ shown # NoQuestion /\ waiting' = Append(waiting, q) /\ shown' = shown
  <2>1. waiting' \in Seq(Questions) /\ Len(waiting') = Len(waiting) + 1
        /\ waiting'[Len(waiting) + 1] = q /\ \A i \in DOMAIN waiting : waiting'[i] = waiting[i]
        /\ DOMAIN waiting \subseteq DOMAIN waiting' /\ Len(waiting) + 1 \in DOMAIN waiting'
    BY <1>1, <1>4
  <2>2. AskTypeOK'
    BY <1>1, <1>4, <2>1 DEF AskTypeOK, Outcomes
  <2>3. QueueMoves'
    <3>1. \A p \in Questions : Open(p)' => p = shown' \/ \E i \in DOMAIN waiting' : waiting'[i] = p
      BY <1>1, <1>4, <2>1 DEF AskOK, QueueMoves, Open
    <3> QED BY <1>1, <1>4, <3>1 DEF AskOK, QueueMoves, Open
  <2> QED BY <1>1, <1>4, <2>2, <2>3 DEF AskOK
<1> QED BY <1>2, <1>3, <1>4 DEF Raise

(* A backend answers what is shown, or has nobody to answer it. *)
LEMMA ReplyMoves ==
  ASSUME AskOK, NEW b \in Backends, Reply(b)
  PROVE  AskOK' /\ AsksOnlyEnd
<1>1. CASE \E v \in Replies(shown) : Finish({shown}, v)
  BY <1>1, FinishMoves DEF Replies, Verdicts
<1>2. CASE Finish({shown}, "refused")
  BY <1>2, FinishMoves DEF Verdicts
<1>3. CASE votes' = votes \cup {b} /\ UNCHANGED <<shown, waiting, outcome>>
  BY <1>3 DEF AskOK, AskTypeOK, QueueMoves, Open, AsksOnlyEnd
<1> QED BY <1>1, <1>2, <1>3 DEF Reply

(* closeSession empties the queue. *)
LEMMA CloseMoves ==
  ASSUME AskOK, CloseQueue
  PROVE  AskOK' /\ AsksOnlyEnd
<1>1. /\ outcome' = Results(Emptied, "refused")
      /\ shown' = NoQuestion /\ waiting' = <<>> /\ votes' = {}
  BY DEF CloseQueue
<1>2. /\ outcome' \in [Questions -> Outcomes]
      /\ \A q \in Questions : outcome'[q] # "open"
      /\ \A a \in Approvals : outcome'[a] = outcome[a] \/ outcome'[a] \in Verdicts
  BY <1>1, ResultsProps DEF AskOK, Emptied, Open, Verdicts
<1> QED BY <1>1, <1>2 DEF AskOK, AskTypeOK, QueueMoves, Open, AsksOnlyEnd

-----------------------------------------------------------------------------
(* The approvals.                                                          *)

ApproveOK == ApprovalTypeOK /\ QueueMoves

(* The asks of a call are its own. *)
LEMMA AskNames ==
  ASSUME NEW c, NEW d
  PROVE  /\ Gate(c) # Escalation(d)
         /\ Gate(c) = Gate(d) => c = d
         /\ Escalation(c) = Escalation(d) => c = d
BY DEF Gate, Escalation

LEMMA AskIsQuestion == Asks = Approvals /\ Asks \subseteq Questions
BY AskAssumption, ApprovalAssumption

(* service.ask raises an ask that is not open. *)
LEMMA AskKeeps ==
  ASSUME ApproveOK, NEW a \in Asks, ~Open(a), NEW ab, Ask(a, ab)
  PROVE  ApproveOK' /\ \A b \in Asks : b # a => outcome'[b] = outcome[b]
<1>1. /\ Raise(a, ab) /\ votes' = votes /\ UNCHANGED <<dropped, sticky>>
      /\ verdict' = [verdict EXCEPT ![a] = "asked"]
  BY DEF Ask
<1>2. AskOK' /\ \A p \in Questions : p # a => outcome'[p] = outcome[p]
  BY <1>1, RaiseMoves, AskIsQuestion DEF ApproveOK, ApprovalTypeOK, AskOK
<1> QED BY <1>1, <1>2, AskIsQuestion DEF ApproveOK, ApprovalTypeOK, AskOK

(* The caller takes a decision. *)
LEMMA TakesKeeps ==
  ASSUME ApproveOK, NEW a, Takes(a)
  PROVE  ApproveOK' /\ UNCHANGED <<askVars, dropped>>
BY DEF ApproveOK, ApprovalTypeOK, AskTypeOK, QueueMoves, Open, Takes, askVars

(* It takes a decision and goes on to the next ask. *)
LEMMA TakesAndAsksKeeps ==
  ASSUME ApproveOK, NEW a, NEW b \in Asks, ~Open(b), NEW ab, TakesAndAsks(a, b, ab)
  PROVE  ApproveOK' /\ \A x \in Asks : x # b => outcome'[x] = outcome[x]
<1>1. /\ Raise(b, ab) /\ votes' = votes /\ UNCHANGED <<dropped, sticky>>
      /\ verdict' = [verdict EXCEPT ![a] = "none", ![b] = "asked"]
  BY DEF TakesAndAsks
<1>2. AskOK' /\ \A p \in Questions : p # b => outcome'[p] = outcome[p]
  BY <1>1, RaiseMoves, AskIsQuestion DEF ApproveOK, ApprovalTypeOK, AskOK
<1> QED BY <1>1, <1>2, AskIsQuestion DEF ApproveOK, ApprovalTypeOK, AskOK

(* The service records what the race gave. *)
LEMMA DecideKeeps ==
  ASSUME ApproveOK, NEW a \in Asks, Decide(a)
  PROVE  /\ ApproveOK' /\ Pending' \subseteq Pending
         /\ \A x \in Asks : outcome'[x] = outcome[x] \/ outcome'[x] = "unasked"
<1>1. /\ outcome' = [outcome EXCEPT ![a] = IF Finished(a) THEN "unasked" ELSE @]
      /\ dropped' = dropped \ {a} /\ UNCHANGED <<shown, waiting, votes>>
      /\ sticky' = sticky \/ sticky' = sticky \cup {Kind[a[1]]}
      /\ \E d \in Decisions : verdict' = [verdict EXCEPT ![a] = d]
  BY DEF Decide, Record, Decision, Decisions
<1>2. Kind[a[1]] \in Kinds
  BY ApprovalAssumption DEF Asks, Gate, Escalation, Writing
<1>3. ApprovalTypeOK'
  BY <1>1, <1>2, AskIsQuestion DEF ApproveOK, ApprovalTypeOK, AskTypeOK, Outcomes
<1>4. \A q \in Questions : Open(q)' <=> Open(q)
  BY <1>1, AskIsQuestion DEF ApproveOK, ApprovalTypeOK, AskTypeOK, Open, Finished
<1>5. QueueMoves'
  BY <1>1, <1>4, AskAssumption DEF ApproveOK, ApprovalTypeOK, AskTypeOK, QueueMoves
<1>6. Pending' \subseteq Pending
  <2> SUFFICES ASSUME NEW x \in Asks, Undecided(x)', x \notin dropped', ~Finished(x)'
               PROVE  x \in Pending
    BY DEF Pending
  <2>1. x # a
    BY <1>1 DEF Undecided, Decisions, ApproveOK, ApprovalTypeOK
  <2> QED BY <1>1, <2>1, AskIsQuestion
          DEF Pending, Undecided, Finished, ApproveOK, ApprovalTypeOK, AskTypeOK
<1>7. \A x \in Asks : outcome'[x] = outcome[x] \/ outcome'[x] = "unasked"
  BY <1>1, AskIsQuestion DEF ApproveOK, ApprovalTypeOK, AskTypeOK
<1> QED BY <1>3, <1>5, <1>6, <1>7 DEF ApproveOK

-----------------------------------------------------------------------------
(* Where the calls are.                                                    *)

BatchTypes ==
  /\ batch \in Seq([call : Calls, leg : Legs]) /\ next \in 1..(Len(batch) + 1)
  /\ running \in Seq(Calls) /\ ledger \subseteq Calls
  /\ unanimous \in BOOLEAN /\ work \in [Calls -> Stages]
  /\ late \subseteq {c \in Calls : Working(c)}

Placed == BegunIsKnown /\ BusyIsHeld /\ AheadIsNew /\ SegmentAlone

BatchOK == BatchTypes /\ Placed

(* What is taken up was never begun, and comes once. *)
TakesUpNew ==
  next' # next => IsInjective(running') /\ \A c \in ToSet(running') : work[c] = "new"

OnlyMovesOn == \A c \in Calls : work'[c] # work[c] => Distance[work[c]] < Distance[work'[c]]

(* A step never begins a call again. *)
NoneAgain == TakesUpNew /\ OnlyMovesOn

(* A call that was begun goes on or comes to its end. *)
LEMMA MoveKeeps ==
  ASSUME BatchOK, SameBatch, NEW c \in Calls, work[c] \notin {"new", "done"}, NEW st, Move(c, st),
         \/ late' = late /\ st \in {"body", "escalation", "command"}
         \/ late' = late \ {c} /\ st \in {"value", "error"} /\ c \notin ledger
         \/ late' = late \ {c} /\ st = "done",
         Distance[work[c]] < Distance[st]
  PROVE  BatchOK' /\ NoneAgain
<1>1. /\ UNCHANGED <<batch, next, running, ledger, unanimous>> /\ Segment' = Segment
      /\ work \in [Calls -> Stages] /\ work' = [work EXCEPT ![c] = st]
      /\ st \in Stages \ {"new", "gate"} /\ late' \subseteq late
  BY DEF SameBatch, Segment, BatchOK, BatchTypes, Move, Stages
<1>2. work'[c] = st /\ \A d \in Calls : d # c => work'[d] = work[d]
  BY <1>1
<1>3. c \in ledger \cup Segment /\ c \in Segment \cup late
  BY DEF BatchOK, Placed, BegunIsKnown, BusyIsHeld
<1>4. late' \subseteq {d \in Calls : Working(d)'}
  BY <1>1, <1>2 DEF BatchOK, BatchTypes, Working
<1>5. BatchTypes'
  BY <1>1, <1>4 DEF BatchOK, BatchTypes
<1>6. BegunIsKnown'
  BY <1>1, <1>2, <1>3 DEF BatchOK, Placed, BegunIsKnown
<1>7. BusyIsHeld'
  <2> SUFFICES ASSUME NEW d \in Calls, work'[d] \notin {"new", "done"} PROVE d \in Segment \cup late'
    BY <1>1 DEF BusyIsHeld
  <2>1. CASE d # c
    BY <1>2, <2>1 DEF BatchOK, Placed, BusyIsHeld
  <2>2. CASE d = c
    BY <1>2, <1>3, <2>2
  <2> QED BY <2>1, <2>2
<1>8. AheadIsNew' /\ SegmentAlone'
  BY <1>1 DEF BatchOK, Placed, AheadIsNew, SegmentAlone
<1>9. NoneAgain
  BY <1>1, <1>2 DEF NoneAgain, TakesUpNew, OnlyMovesOn
<1> QED BY <1>5, <1>6, <1>7, <1>8, <1>9 DEF BatchOK, Placed

(* The end of the work of a call, in time or behind its deadline. *)
LEMMA EndsKeeps ==
  ASSUME BatchOK, SameBatch, NEW c \in Calls, work[c] = "gate" \/ Working(c),
         NEW result \in {"value", "error"}, Ends(c, result)
  PROVE  BatchOK' /\ NoneAgain /\ \E st \in {"value", "error", "done"} : Move(c, st)
<1> DEFINE st == IF c \in ledger THEN "done" ELSE IF c \in late THEN "error" ELSE result
<1>1. Move(c, st) /\ late' = late \ {c}
  BY DEF Ends
<1>2. st \in {"value", "error", "done"} /\ (st # "done" => c \notin ledger)
  OBVIOUS
<1>3. /\ work[c] \in {"gate", "body", "escalation", "command"}
      /\ Distance[work[c]] < Distance[st]
  BY <1>2 DEF Working, Distance
<1> HIDE DEF st
<1> QED BY <1>1, <1>2, <1>3, MoveKeeps

(* Asks of calls that were not begun stay closed. *)
LEMMA TurnsStay ==
  ASSUME AsksInTurn, NEW c,
         \A d \in Calls : work'[d] \in {"new", "gate"} => work'[d] = work[d] /\ d # c,
         \A a \in Asks : a # Escalation(c) => outcome'[a] = outcome[a]
  PROVE  AsksInTurn'
<1> SUFFICES ASSUME NEW d \in Writing
             PROVE  /\ work'[d] = "new" => ~Open(Gate(d))'
                    /\ Kind[d] = "bash" /\ work'[d] \in {"new", "gate"} => ~Open(Escalation(d))'
  BY DEF AsksInTurn
<1>1. Gate(d) \in Asks /\ (Kind[d] = "bash" => Escalation(d) \in Asks) /\ d \in Calls
  BY DEF Asks, Writing
<1>2. Gate(d) # Escalation(c) /\ (d # c => Escalation(d) # Escalation(c))
  BY AskNames
<1> QED BY <1>1, <1>2 DEF AsksInTurn, Open

(* One step of a call. *)
LEMMA CallKeeps ==
  ASSUME ApproveOK, BatchOK, AsksInTurn, NEW c \in Calls, NEW ab, Call(c, ab)
  PROVE  /\ ApproveOK' /\ BatchOK' /\ AsksInTurn' /\ NoneAgain
         /\ SameBatch /\ (Pending' \subseteq Pending \/ work[c] = "gate")
<1> USE DEF SameBatch
<1>1. work \in [Calls -> Stages] /\ c \notin {} /\ \A x \in late : Working(x)
  BY DEF BatchOK, BatchTypes
<1>2. ASSUME NEW a, Takes(a) PROVE ApproveOK' /\ Pending' \subseteq Pending
                                   /\ \A x \in Asks : outcome'[x] = outcome[x]
  <2>1. ApproveOK' /\ UNCHANGED <<askVars, dropped>> /\ verdict' = [verdict EXCEPT ![a] = "none"]
    BY <1>2, TakesKeeps DEF Takes
  <2>2. outcome' = outcome
    BY <2>1 DEF askVars
  <2>3. Pending' \subseteq Pending
    BY <2>1, <2>2 DEF Pending, Undecided, Finished, ApproveOK, ApprovalTypeOK
  <2> QED BY <2>1, <2>2, <2>3
<1>3. ASSUME NEW st, Move(c, st), st \notin {"new", "gate"}
      PROVE  \A d \in Calls : work'[d] \in {"new", "gate"} => work'[d] = work[d] /\ d # c
  BY <1>1, <1>3 DEF Move
<1>4. CASE GatePasses(c, ab)
  <2>1. work[c] = "gate" /\ late' = late /\ SameBatch
    BY <1>4 DEF GatePasses
  <2>2. CASE Kind[c] = "bash"
    <3>1. Move(c, "escalation") /\ TakesAndAsks(Gate(c), Escalation(c), ab)
      BY <1>4, <2>2 DEF GatePasses
    <3>2. c \in Writing /\ Escalation(c) \in Asks
      BY <2>2 DEF Writing, Asks
    <3>3. ~Open(Escalation(c))
      BY <2>1, <2>2, <3>2 DEF AsksInTurn
    <3>4. ApproveOK' /\ \A x \in Asks : x # Escalation(c) => outcome'[x] = outcome[x]
      BY <3>1, <3>2, <3>3, TakesAndAsksKeeps
    <3>5. BatchOK' /\ NoneAgain
      BY <2>1, <3>1, MoveKeeps DEF Distance
    <3>6. AsksInTurn'
      BY <1>3, <3>1, <3>4, TurnsStay
    <3> QED BY <2>1, <3>4, <3>5, <3>6
  <2>3. CASE Kind[c] # "bash"
    <3>1. Move(c, "body") /\ Takes(Gate(c))
      BY <1>4, <2>3 DEF GatePasses
    <3>2. BatchOK' /\ NoneAgain
      BY <2>1, <3>1, MoveKeeps DEF Distance
    <3>3. AsksInTurn'
      BY <1>2, <1>3, <3>1, TurnsStay
    <3> QED BY <1>2, <2>1, <3>1, <3>2, <3>3
  <2> QED BY <2>2, <2>3
<1>5. ASSUME NEW a, Takes(a), Ends(c, "error"), SameBatch, work[c] = "gate" \/ Working(c)
      PROVE  /\ ApproveOK' /\ BatchOK' /\ AsksInTurn' /\ NoneAgain
             /\ SameBatch /\ Pending' \subseteq Pending
  <2>1. PICK st \in {"value", "error", "done"} : Move(c, st)
    BY <1>5, EndsKeeps
  <2>2. AsksInTurn'
    BY <1>2, <1>3, <1>5, <2>1, TurnsStay
  <2> QED BY <1>2, <1>5, <2>2, EndsKeeps
<1>6. CASE GateBlocks(c)
  BY <1>5, <1>6 DEF GateBlocks
<1>7. CASE CommandRefused(c, ab)
  BY <1>5, <1>7 DEF CommandRefused, Working
<1>8. CASE CommandStarts(c, ab)
  <2>1. Move(c, "command") /\ Takes(Escalation(c)) /\ work[c] = "escalation" /\ late' = late /\ SameBatch
    BY <1>8 DEF CommandStarts
  <2>2. BatchOK' /\ NoneAgain
    BY <2>1, MoveKeeps DEF Distance
  <2>3. AsksInTurn'
    BY <1>2, <1>3, <2>1, TurnsStay
  <2> QED BY <1>2, <2>1, <2>2, <2>3
<1>9. ASSUME UNCHANGED approvalVars
      PROVE  /\ ApproveOK' /\ Pending' \subseteq Pending
             /\ \A x \in Asks : outcome'[x] = outcome[x]
  BY <1>9 DEF approvalVars, askVars, ApproveOK, ApprovalTypeOK, AskTypeOK, QueueMoves, Open,
              Pending, Undecided, Finished
<1>10. CASE WorkEnds(c)
  <2>1. Ends(c, "value") /\ UNCHANGED approvalVars /\ Working(c) /\ SameBatch
    BY <1>10 DEF WorkEnds, Working
  <2>2. PICK st \in {"value", "error", "done"} : Move(c, st)
    BY <2>1, EndsKeeps
  <2>3. AsksInTurn'
    BY <1>3, <1>9, <2>1, <2>2, TurnsStay
  <2> QED BY <1>9, <2>1, <2>3, EndsKeeps
<1>11. CASE Timeout(c)
  <2>1. Working(c) /\ late' = late \cup {c} /\ work' = work /\ UNCHANGED approvalVars /\ SameBatch
    BY <1>11 DEF Timeout
  <2>2. UNCHANGED <<batch, next, running, ledger, unanimous>> /\ Segment' = Segment
    BY <2>1 DEF Segment
  <2>3. BatchTypes'
    BY <2>1, <2>2 DEF BatchOK, BatchTypes, Working
  <2>4. Placed'
    BY <2>1, <2>2 DEF BatchOK, Placed, BegunIsKnown, BusyIsHeld, AheadIsNew, SegmentAlone
  <2>5. AsksInTurn'
    BY <1>9, <2>1 DEF AsksInTurn, Open, approvalVars, askVars
  <2> QED BY <1>9, <2>1, <2>3, <2>4, <2>5 DEF BatchOK, NoneAgain, TakesUpNew, OnlyMovesOn
<1> QED BY <1>4, <1>6, <1>7, <1>8, <1>10, <1>11 DEF Call

(* The first call from i on that is executed. *)
LEMMA FirstProps ==
  ASSUME NEW plan \in Seq([call : Calls, leg : Legs]), NEW i \in 1..(Len(plan) + 1)
  PROVE  /\ FirstDispatch(plan, i) \in i..(Len(plan) + 1)
         /\ FirstDispatch(plan, i) <= Len(plan) => plan[FirstDispatch(plan, i)].leg = "dispatch"
<1> DEFINE T == {j \in i..Len(plan) : plan[j].leg = "dispatch"} \cup {Len(plan) + 1}
<1>1. T \subseteq Nat /\ T # {} /\ Len(plan) + 1 \in T
  OBVIOUS
<1>2. \A j \in T : j \in i..(Len(plan) + 1) /\ (j <= Len(plan) => plan[j].leg = "dispatch")
  OBVIOUS
<1>3. FirstDispatch(plan, i) = Min(T)
  BY DEF FirstDispatch
<1> HIDE DEF T
<1> QED BY <1>1, <1>2, <1>3, MinIsLeast

(* The segment that begins there: all its calls are executed, several of   *)
(* them only if all are reads.                                             *)
LEMMA SegmentProps ==
  ASSUME NEW plan \in Seq([call : Calls, leg : Legs]), NEW f \in 1..Len(plan),
         plan[f].leg = "dispatch"
  PROVE  /\ SegmentEnd(plan, f) \in f..Len(plan)
         /\ \A j \in f..SegmentEnd(plan, f) : plan[j].leg = "dispatch"
         /\ SegmentEnd(plan, f) # f =>
              \A j \in f..SegmentEnd(plan, f) : Kind[plan[j].call] = "read"
<1>1. CASE Kind[plan[f].call] # "read"
  <2>1. SegmentEnd(plan, f) = f
    BY <1>1 DEF SegmentEnd
  <2> QED BY <2>1
<1>2. CASE Kind[plan[f].call] = "read"
  <2> DEFINE T == {j \in f..Len(plan) : plan[j].leg # "dispatch" \/ Kind[plan[j].call] # "read"}
                    \cup {Len(plan) + 1}
             m == Min(T)
  <2>1. /\ T \subseteq Nat /\ T # {} /\ \A j \in T : j \in f..(Len(plan) + 1) /\ j # f
        /\ \A j \in f..Len(plan) : j \notin T => plan[j].leg = "dispatch" /\ Kind[plan[j].call] = "read"
    BY <1>2
  <2>2. SegmentEnd(plan, f) = m - 1
    BY <1>2 DEF SegmentEnd
  <2>3. m \in T /\ \A j \in T : m <= j
    <3> HIDE DEF T
    <3> QED BY <2>1, MinIsLeast
  <2> HIDE DEF T, m
  <2>4. m \in f..(Len(plan) + 1) /\ m # f
    BY <2>1, <2>3
  <2>5. \A j \in f..(m - 1) : j \in f..Len(plan) /\ j \notin T
    BY <2>3, <2>4
  <2> QED BY <2>1, <2>2, <2>4, <2>5
<1> QED BY <1>1, <1>2

(* What has to hold when the loop comes to call i: from says how far the   *)
(* calls are, nothing is executed any more but what was given up.          *)
ReadyFrom(plan, i, from, done, gone) ==
  /\ plan \in Seq([call : Calls, leg : Legs]) /\ i \in 1..(Len(plan) + 1)
  /\ from \in [Calls -> Stages]
  /\ \A c \in Calls : from[c] # "new" => c \in done
  /\ \A c \in Calls : from[c] \notin {"new", "done"} => c \in gone
  /\ gone \subseteq {c \in Calls : from[c] \in {"body", "escalation", "command"}}
  /\ \A k \in i..Len(plan) : plan[k].leg = "dispatch" =>
       /\ plan[k].call \notin done
       /\ \A j \in DOMAIN plan : plan[j].call = plan[k].call => k <= j
  /\ \A c \in Writing :
       /\ from[c] = "new" => ~Open(Gate(c))
       /\ Kind[c] = "bash" /\ from[c] \in {"new", "gate"} => ~Open(Escalation(c))

(* A segment is entered: its calls begin, those that need an approval with *)
(* their ask.                                                              *)
LEMMA EnterKeeps ==
  ASSUME ApproveOK, NEW calls \in Seq(Calls), NEW from \in [Calls -> Stages], NEW ab,
         Enter(calls, from, ab),
         \A c \in ToSet(calls) : from[c] = "new",
         \A c \in Writing :
           /\ from[c] = "new" => ~Open(Gate(c))
           /\ Kind[c] = "bash" /\ from[c] \in {"new", "gate"} => ~Open(Escalation(c))
  PROVE  /\ ApproveOK' /\ AsksInTurn' /\ work' \in [Calls -> Stages]
         /\ \A c \in Calls : work'[c] = (IF c \in ToSet(calls) THEN Enters(c) ELSE from[c])
         /\ \A c \in Calls : Enters(c) \in {"gate", "escalation", "body"}
<1> DEFINE S == ToSet(calls)
<1>1. S \subseteq Calls
  BY DEF ToSet
<1>2. work' = [c \in Calls |-> IF c \in S THEN Enters(c) ELSE from[c]]
  BY DEF Enter
<1>3. \A c \in Calls : Enters(c) \in {"gate", "escalation", "body"}
  BY DEF Enters
<1> DEFINE asks == UNION {AskOf(c) : c \in S}
<1>4. IF asks = {} THEN UNCHANGED approvalVars ELSE \E a \in asks : Ask(a, ab)
  BY DEF Enter
<1> HIDE DEF S, asks
<1>5. work' \in [Calls -> Stages]
  BY <1>2, <1>3 DEF Stages
<1>6. CASE UNCHANGED approvalVars
  <2>1. ApproveOK' /\ outcome' = outcome
    BY <1>6 DEF approvalVars, askVars, ApproveOK, ApprovalTypeOK, AskTypeOK, QueueMoves, Open
  <2>2. AsksInTurn'
    BY <1>2, <1>3, <2>1 DEF AsksInTurn, Open, S, Writing
  <2> QED BY <1>2, <1>3, <1>5, <2>1, <2>2 DEF S
<1>7. CASE \E a \in asks : Ask(a, ab)
  <2>1. PICK c \in S : \E a \in AskOf(c) : Ask(a, ab)
    BY <1>7 DEF asks
  <2>2. PICK a \in AskOf(c) : Ask(a, ab)
    BY <2>1
  <2>3. c \in Calls /\ from[c] = "new" /\ Kind[c] \in Kinds
    BY <1>1, <2>1, ApprovalAssumption DEF S
  <2>4. \/ a = Gate(c) /\ Enters(c) = "gate" /\ c \in Writing
        \/ a = Escalation(c) /\ Enters(c) = "escalation" /\ c \in Writing /\ Kind[c] = "bash"
    BY <2>2, <2>3 DEF AskOf, Enters, Writing
  <2>5. a \in Asks /\ ~Open(a)
    BY <2>3, <2>4 DEF Asks
  <2>6. ApproveOK' /\ \A b \in Asks : b # a => outcome'[b] = outcome[b]
    BY <2>2, <2>5, AskKeeps
  <2>7. AsksInTurn'
    <3> SUFFICES ASSUME NEW d \in Writing
                 PROVE  /\ work'[d] = "new" => ~Open(Gate(d))'
                        /\ Kind[d] = "bash" /\ work'[d] \in {"new", "gate"} => ~Open(Escalation(d))'
      BY DEF AsksInTurn
    <3>1. d \in Calls /\ Gate(d) \in Asks /\ (Kind[d] = "bash" => Escalation(d) \in Asks)
      BY DEF Writing, Asks
    <3>2. work'[d] = "new" => from[d] = "new" /\ d # c
      BY <1>2, <1>3, <2>1, <3>1
    <3>3. work'[d] \in {"new", "gate"} => from[d] \in {"new", "gate"}
      <4>1. CASE d \in S
        BY <4>1 DEF S
      <4>2. CASE d \notin S
        BY <1>2, <3>1, <4>2
      <4> QED BY <4>1, <4>2
    <3>4. work'[d] \in {"new", "gate"} => a # Escalation(d)
      <4>1. work'[c] = Enters(c)
        BY <1>2, <2>1, <2>3
      <4> QED BY <2>4, <4>1, AskNames
    <3>5. work'[d] = "new" => a # Gate(d)
      BY <2>4, <3>2, AskNames
    <3> QED BY <2>6, <3>1, <3>2, <3>3, <3>4, <3>5 DEF Open
  <2> QED BY <1>2, <1>3, <1>5, <2>6, <2>7 DEF S
<1> QED BY <1>2, <1>4, <1>6, <1>7

(* The loop of the batch goes on from call i. *)
LEMMA ScheduleKeeps ==
  ASSUME ApproveOK, NEW plan, NEW i, NEW from, NEW done, NEW ab,
         batch' = plan, ledger' = done, late' = late, done \subseteq Calls, unanimous' \in BOOLEAN,
         ReadyFrom(plan, i, from, done, late), Schedule(plan, i, from, ab)
  PROVE  /\ ApproveOK' /\ BatchOK' /\ AsksInTurn'
         /\ \A c \in Calls : from[c] # "new" => work'[c] = from[c]
         /\ \A c \in Calls : work'[c] \in {from[c], "gate", "escalation", "body"}
         /\ IsInjective(running') /\ \A c \in Segment' : c \in Calls /\ from[c] = "new"
         /\ running' = <<>> => next' = Len(plan) + 1
         /\ UNCHANGED approvalVars \/ running' # <<>>
<1> DEFINE first == FirstDispatch(plan, i)
<1>1. /\ plan \in Seq([call : Calls, leg : Legs]) /\ i \in 1..(Len(plan) + 1)
      /\ from \in [Calls -> Stages] /\ Len(plan) \in Nat
  BY DEF ReadyFrom
<1>2. CASE /\ next' = Len(plan) + 1 /\ running' = <<>>
           /\ work' = from /\ UNCHANGED approvalVars
  <2>1. Segment' = {}
    BY <1>2 DEF Segment, ToSet
  <2>2. ApproveOK' /\ outcome' = outcome
    BY <1>2 DEF approvalVars, askVars, ApproveOK, ApprovalTypeOK, AskTypeOK, QueueMoves, Open
  <2>3. BatchTypes'
    BY <1>1, <1>2 DEF ReadyFrom, BatchTypes, Working
  <2>4. AheadIsNew'
    BY <1>1, <1>2 DEF AheadIsNew
  <2>5. BegunIsKnown' /\ BusyIsHeld' /\ SegmentAlone'
    BY <1>2, <2>1 DEF ReadyFrom, BegunIsKnown, BusyIsHeld, SegmentAlone
  <2>6. AsksInTurn'
    BY <1>2, <2>2 DEF ReadyFrom, AsksInTurn, Open
  <2>7. IsInjective(running')
    BY <1>2 DEF IsInjective
  <2> QED BY <1>2, <2>1, <2>2, <2>3, <2>4, <2>5, <2>6, <2>7 DEF BatchOK, Placed
<1>3. CASE /\ first <= Len(plan)
           /\ next' = SegmentEnd(plan, first) + 1
           /\ running' = CallsOf(plan, first, SegmentEnd(plan, first))
           /\ Enter(running', from, ab)
  <2> DEFINE last == SegmentEnd(plan, first)
  <2>1. first \in i..Len(plan) /\ first \in 1..Len(plan) /\ plan[first].leg = "dispatch"
    <3>1. /\ first \in i..(Len(plan) + 1)
          /\ first <= Len(plan) => plan[first].leg = "dispatch"
      BY <1>1, FirstProps
    <3> HIDE DEF first
    <3> QED BY <1>1, <1>3, <3>1
  <2>2. /\ last \in first..Len(plan)
        /\ \A j \in first..last : plan[j].leg = "dispatch"
        /\ last # first => \A j \in first..last : Kind[plan[j].call] = "read"
    BY <1>1, <2>1, SegmentProps
  <2> HIDE DEF first
  <2> DEFINE n == last + 1 - first
  <2>3a. running' = [k \in 1..n |-> plan[first + k - 1].call] /\ next' = last + 1
    BY <1>3 DEF CallsOf, first
  <2> HIDE DEF last
  <2>3b. first \in Int /\ last \in Int /\ first <= last
    BY <1>1, <2>1, <2>2
  <2>3. n \in Nat \ {0} /\ running' = [k \in 1..n |-> plan[first + k - 1].call] /\ next' = last + 1
    BY <2>3a, <2>3b
  <2>4. \A k \in 1..n : first + k - 1 \in first..last
    BY <2>1, <2>2, <2>3
  <2>5. \A j \in first..last : j \in i..Len(plan) /\ j \in 1..Len(plan) /\ plan[j].call \in Calls
    <3> SUFFICES ASSUME NEW j \in first..last
                 PROVE  j \in i..Len(plan) /\ j \in 1..Len(plan) /\ plan[j].call \in Calls
      OBVIOUS
    <3>1. j \in i..Len(plan) /\ j \in 1..Len(plan)
      BY <1>1, <2>1, <2>2
    <3>2. plan[j] \in [call : Calls, leg : Legs]
      BY <1>1, <3>1, ElementOf
    <3> QED BY <3>1, <3>2
  <2>6. running' \in Seq(Calls) /\ running' # <<>> /\ Len(running') = n
    <3> HIDE DEF n
    <3>1. \A k \in 1..n : plan[first + k - 1].call \in Calls
      BY <2>4, <2>5
    <3>2. running' \in [1..n -> Calls]
      BY <2>3, <3>1
    <3> QED BY <2>3, <3>2
  <2>7. \A c \in Segment' : \E j \in first..last : c = plan[j].call
    BY <2>3, <2>4 DEF Segment, ToSet
  <2>8. Segment' \subseteq Calls /\ \A c \in Segment' : c \notin done /\ from[c] = "new"
    BY <2>2, <2>5, <2>7 DEF ReadyFrom
  <2>9. /\ ApproveOK' /\ AsksInTurn' /\ work' \in [Calls -> Stages]
        /\ \A c \in Calls : work'[c] = (IF c \in Segment' THEN Enters(c) ELSE from[c])
        /\ \A c \in Calls : Enters(c) \in {"gate", "escalation", "body"}
    BY <1>1, <1>3, <2>6, <2>8, EnterKeeps DEF Segment, ReadyFrom
  <2>10. BatchTypes'
    <3>1. late' \subseteq {c \in Calls : Working(c)'}
      BY <2>8, <2>9 DEF ReadyFrom, Working
    <3>2. next' \in 1..(Len(batch') + 1)
      BY <1>1, <2>1, <2>2, <2>3
    <3> QED BY <1>1, <2>6, <2>9, <3>1, <3>2 DEF BatchTypes
  <2>11. BegunIsKnown' /\ BusyIsHeld'
    BY <2>9 DEF ReadyFrom, BegunIsKnown, BusyIsHeld
  <2>12. AheadIsNew'
    <3> SUFFICES ASSUME NEW k \in next'..Len(plan), plan[k].leg = "dispatch"
                 PROVE  /\ plan[k].call \notin done \cup Segment'
                        /\ \A j \in DOMAIN plan : plan[j].call = plan[k].call => k <= j
      BY DEF AheadIsNew
    <3>1. k \in i..Len(plan) /\ k > last
      BY <1>1, <2>1, <2>2, <2>3
    <3>2. plan[k].call \notin done /\ \A j \in DOMAIN plan : plan[j].call = plan[k].call => k <= j
      BY <3>1 DEF ReadyFrom
    <3>3. plan[k].call \notin Segment'
      <4> SUFFICES ASSUME NEW j \in first..last, plan[j].call = plan[k].call PROVE FALSE
        BY <2>7
      <4>1. j \in DOMAIN plan /\ j < k
        BY <1>1, <2>1, <2>2, <3>1
      <4> QED BY <3>1, <3>2, <4>1
    <3> QED BY <3>2, <3>3
  <2>13. SegmentAlone'
    <3>1. CASE last = first
      <4>1. \A c \in Segment' : c = plan[first].call
        BY <2>1, <2>7, <3>1
      <4> QED BY <4>1 DEF SegmentAlone
    <3>2. CASE last # first
      BY <2>2, <2>7, <3>2 DEF SegmentAlone
    <3> QED BY <3>1, <3>2
  <2>14. /\ \A c \in Calls : from[c] # "new" => work'[c] = from[c]
         /\ \A c \in Calls : work'[c] \in {from[c], "gate", "escalation", "body"}
    BY <2>8, <2>9
  <2>15. IsInjective(running')
    <3> SUFFICES ASSUME NEW a \in 1..n, NEW b \in 1..n, running'[a] = running'[b] PROVE a = b
      BY <2>3 DEF IsInjective
    <3> DEFINE j == first + a - 1
               k == first + b - 1
    <3>1. plan[j].call = plan[k].call
      BY <2>3
    <3>2a. j \in first..last /\ k \in first..last
      BY <2>4
    <3> HIDE DEF j, k
    <3>2b. DOMAIN plan = 1..Len(plan)
      BY <1>1
    <3>2. /\ j \in i..Len(plan) /\ j \in DOMAIN plan /\ plan[j].leg = "dispatch"
          /\ k \in i..Len(plan) /\ k \in DOMAIN plan /\ plan[k].leg = "dispatch"
      BY <2>2, <2>5, <3>2a, <3>2b
    <3>3. j <= k /\ k <= j
      BY <3>1, <3>2 DEF ReadyFrom
    <3>4. j = k
      BY <1>1, <3>2, <3>3
    <3> QED BY <2>3, <2>3b, <3>4 DEF j, k
  <2> QED BY <2>6, <2>8, <2>9, <2>10, <2>11, <2>12, <2>13, <2>14, <2>15 DEF BatchOK, Placed
<1> QED BY <1>2, <1>3 DEF Schedule

(* A new batch: nothing of the last one is executed any more. *)
LEMMA BeginBatchKeeps ==
  ASSUME ApproveOK, BatchOK, AsksInTurn, running = <<>>, NEW calls \in Seq(Calls), NEW ab,
         BeginBatch(calls, ab)
  PROVE  /\ ApproveOK' /\ BatchOK' /\ AsksInTurn' /\ NoneAgain
<1> DEFINE plan == Plan(calls)
<1>1. /\ batch' = plan /\ unanimous' = TRUE /\ Schedule(plan, 1, work, ab)
      /\ ledger' = ledger /\ late' = late
  BY DEF BeginBatch
<1>2. /\ DOMAIN plan = 1..Len(calls)
      /\ \A k \in 1..Len(calls) :
           /\ plan[k].call = calls[k] /\ plan[k].leg \in Legs
           /\ plan[k] \in [call : Calls, leg : Legs]
           /\ plan[k].leg = "dispatch" =>
                calls[k] \notin ledger /\ ~\E j \in 1..(k - 1) : calls[j] = calls[k]
  <2>1. \A k \in 1..Len(calls) : calls[k] \in Calls
    BY ElementOf
  <2>2. plan = [k \in 1..Len(calls) |->
                 [call |-> calls[k],
                  leg |-> IF k > Cap THEN "dropped"
                          ELSE IF calls[k] \in ledger \/ \E j \in 1..(k - 1) : calls[j] = calls[k]
                          THEN "replay" ELSE "dispatch"]]
    BY DEF Plan
  <2> HIDE DEF plan
  <2> QED BY <2>1, <2>2 DEF Legs
<1> HIDE DEF plan
<1>3. Len(calls) \in Nat
  OBVIOUS
<1>4. plan \in Seq([call : Calls, leg : Legs]) /\ Len(plan) = Len(calls)
  <2>1. plan \in [1..Len(calls) -> [call : Calls, leg : Legs]]
    <3>1. plan = [k \in 1..Len(calls) |-> plan[k]]
      BY <1>1, <1>2 DEF plan, Plan
    <3> QED BY <1>2, <3>1
  <2> QED BY <1>3, <2>1, FunctionIsSeq
<1>5. Segment = {}
  BY DEF Segment, ToSet
<1>6. ASSUME NEW k \in 1..Len(plan), plan[k].leg = "dispatch"
      PROVE  plan[k].call \notin ledger /\ \A j \in DOMAIN plan : plan[j].call = plan[k].call => k <= j
  <2>1. k \in 1..Len(calls) /\ calls[k] \notin ledger /\ ~\E j \in 1..(k - 1) : calls[j] = calls[k]
    BY <1>2, <1>4, <1>6
  <2>2. ASSUME NEW j \in 1..Len(calls), calls[j] = calls[k] PROVE k <= j
    BY <1>3, <2>1, <2>2
  <2> QED BY <1>2, <2>1, <2>2
<1>7. ReadyFrom(plan, 1, work, ledger, late)
  <2>1. 1 \in 1..(Len(plan) + 1)
    BY <1>3, <1>4
  <2>2. /\ work \in [Calls -> Stages]
        /\ late \subseteq {c \in Calls : work[c] \in {"body", "escalation", "command"}}
        /\ \A c \in Calls : work[c] # "new" => c \in ledger
        /\ \A c \in Calls : work[c] \notin {"new", "done"} => c \in late
    BY <1>5 DEF BatchOK, BatchTypes, Working, Placed, BegunIsKnown, BusyIsHeld
  <2> QED BY <1>4, <1>6, <2>1, <2>2 DEF ReadyFrom, AsksInTurn
<1>8. ledger \subseteq Calls
  BY DEF BatchOK, BatchTypes
<1>9. /\ ApproveOK' /\ BatchOK' /\ AsksInTurn'
      /\ \A c \in Calls : work[c] # "new" => work'[c] = work[c]
      /\ \A c \in Calls : work'[c] \in {work[c], "gate", "escalation", "body"}
      /\ IsInjective(running') /\ \A c \in Segment' : work[c] = "new"
  BY <1>1, <1>7, <1>8, ScheduleKeeps
<1>10. TakesUpNew
  BY <1>9 DEF TakesUpNew, Segment
<1>11. OnlyMovesOn
  BY <1>9 DEF OnlyMovesOn, Distance
<1> QED BY <1>9, <1>10, <1>11 DEF NoneAgain

(* A segment is over and the batch goes on. *)
LEMMA SegmentDoneKeeps ==
  ASSUME ApproveOK, BatchOK, AsksInTurn, NEW ab, SegmentDone(ab)
  PROVE  /\ ApproveOK' /\ BatchOK' /\ AsksInTurn' /\ NoneAgain
<1> DEFINE from == [c \in Calls |-> IF c \in Segment \ late THEN "done" ELSE work[c]]
           done == ledger \cup Segment
<1>1. /\ ledger' = done /\ batch' = batch /\ late' = late
      /\ Schedule(batch, next, from, ab)
      /\ \E vote \in BOOLEAN : unanimous' = (unanimous /\ vote)
  BY DEF SegmentDone
<1>2. unanimous' \in BOOLEAN
  BY <1>1 DEF BatchOK, BatchTypes
<1>3. Segment \subseteq Calls /\ done \subseteq Calls
  BY DEF BatchOK, BatchTypes, Segment, ToSet
<1>4. /\ batch \in Seq([call : Calls, leg : Legs]) /\ next \in 1..(Len(batch) + 1)
      /\ work \in [Calls -> Stages] /\ late \subseteq {c \in Calls : Working(c)}
  BY DEF BatchOK, BatchTypes
<1>5. /\ from \in [Calls -> Stages]
      /\ \A c \in Calls : from[c] = (IF c \in Segment \ late THEN "done" ELSE work[c])
  BY <1>4 DEF Stages
<1> HIDE DEF from, done
<1>6. ReadyFrom(batch, next, from, done, late)
  <2>1. \A c \in Calls : from[c] # "new" => c \in done
    BY <1>5 DEF BatchOK, Placed, BegunIsKnown, done
  <2>2. \A c \in Calls : from[c] \notin {"new", "done"} => c \in late
    BY <1>5 DEF BatchOK, Placed, BusyIsHeld
  <2>3. late \subseteq {c \in Calls : from[c] \in {"body", "escalation", "command"}}
    BY <1>4, <1>5 DEF Working
  <2>4. \A k \in next..Len(batch) : batch[k].leg = "dispatch" =>
          /\ batch[k].call \notin done
          /\ \A j \in DOMAIN batch : batch[j].call = batch[k].call => k <= j
    BY DEF BatchOK, Placed, AheadIsNew, done
  <2>5. \A c \in Writing :
          /\ from[c] = "new" => ~Open(Gate(c))
          /\ Kind[c] = "bash" /\ from[c] \in {"new", "gate"} => ~Open(Escalation(c))
    BY <1>5 DEF AsksInTurn, Writing
  <2> QED BY <1>4, <1>5, <2>1, <2>2, <2>3, <2>4, <2>5 DEF ReadyFrom
<1>7. /\ ApproveOK' /\ BatchOK' /\ AsksInTurn'
      /\ \A c \in Calls : from[c] # "new" => work'[c] = from[c]
      /\ \A c \in Calls : work'[c] \in {from[c], "gate", "escalation", "body"}
      /\ IsInjective(running') /\ \A c \in Segment' : c \in Calls /\ from[c] = "new"
  BY <1>1, <1>2, <1>3, <1>6, ScheduleKeeps
<1>8. TakesUpNew
  BY <1>5, <1>7 DEF TakesUpNew, Segment
<1>9. OnlyMovesOn
  <2> SUFFICES ASSUME NEW c \in Calls, work'[c] # work[c]
               PROVE  Distance[work[c]] < Distance[work'[c]]
    BY DEF OnlyMovesOn
  <2>1. CASE c \in Segment \ late
    <3>1. work'[c] = "done" /\ work[c] \in {"value", "error"}
      BY <1>5, <1>7, <2>1 DEF SegmentDone
    <3> QED BY <3>1 DEF Distance
  <2>2. CASE c \notin Segment \ late
    <3>1. work[c] = "new" /\ work'[c] \in {"gate", "escalation", "body"}
      BY <1>5, <1>7, <2>2
    <3> QED BY <3>1 DEF Distance
  <2> QED BY <2>1, <2>2
<1> QED BY <1>7, <1>8, <1>9 DEF NoneAgain

-----------------------------------------------------------------------------
(* The run.                                                                *)

(* Types, RunsAreClosed and RetryIsCounted of a run r. *)
RunSound(r) ==
  /\ r \in Runs
  /\ r.owed = (IF r.stage \in Waits THEN 1 ELSE 0)
  /\ r.probe => r.stage = "sleep"
  /\ r.stage = "idle" /\ r.status = "failed" => r.row # "scheduled"
  /\ r.stage # "idle" /\ r.row = "scheduled" => Counted(r)
  /\ r.stage = "compact" => r.overflow = 1

Bounds == aborted \in BOOLEAN /\ made \in [inputs : 0..MaxInputs, batches : 0..MaxBatches]

(* A run leaves the asks alone; when it is over it gave up those that wait.*)
RunLeavesAsks ==
  /\ UNCHANGED <<askVars, verdict, sticky>>
  /\ \/ dropped' = dropped /\ run'.stage # "idle"
     \/ SettlePending

(* A step of the run that starts no batch. *)
RunGoesOn ==
  /\ RunSound(run') /\ RunLeavesAsks /\ run'.stage # "tools"

(* The statuses a run may end with. *)
Endings == {"completed", "aborted", "failed", "length", "crashed"}

(* finally of runTurns. *)
LEMMA OverSound ==
  ASSUME NEW from \in Runs, NEW status \in Endings, from.owed = 0,
         status = "failed" => from.row # "scheduled", Over(status, from)
  PROVE  RunGoesOn
<1>1. run' = [NoRun EXCEPT !.owed = from.owed, !.row = from.row, !.status = status]
      /\ SettlePending /\ UNCHANGED <<askVars, verdict, sticky>>
  BY DEF Over
<1>2. from.row \in {"none", "scheduled", "aborted", "exhausted"}
  BY DEF Runs
<1>3. run' = [stage |-> "idle", transient |-> 0, overflow |-> 0, refresh |-> 0, last |-> "none",
              bucket |-> "none", probe |-> FALSE, owed |-> 0, row |-> from.row, status |-> status]
  BY <1>1 DEF NoRun
<1>4. RunSound(run') /\ run'.stage = "idle"
  BY <1>2, <1>3, RunAssumption DEF RunSound, Runs, Waits, Buckets, Endings, Counted
<1> QED BY <1>1, <1>4 DEF RunGoesOn, RunLeavesAsks

(* retry_wait_end{exhausted} settles what the user was shown. *)
LEMMA GiveUpSound ==
  ASSUME NEW from \in Runs, from.owed = 1, NEW row \in {"none", "aborted", "exhausted"},
         GiveUp(row, from)
  PROVE  RunGoesOn
<1> DEFINE r == [from EXCEPT !.owed = 0, !.row = row]
<1>1. r \in Runs /\ r.owed = 0 /\ r.row = row
  <2>1. \A x \in Int : LET s == [from EXCEPT !.owed = x, !.row = row]
                      IN s \in Runs /\ s.owed = x /\ s.row = row
    BY DEF Runs
  <2>2. 0 \in Int
    OBVIOUS
  <2> QED BY <2>1, <2>2
<1>2. Over("failed", r)
  <2>1. from.owed - 1 = 0
    OBVIOUS
  <2> QED BY <2>1 DEF GiveUp
<1> HIDE DEF r
<1> QED BY <1>1, <1>2, OverSound DEF Endings

(* The loop is entered again with nothing owed. *)
LEMMA AgainSound ==
  ASSUME NEW from \in Runs, from.owed = 0, ~from.probe, from.row = "scheduled" => Counted(from),
         Again(from)
  PROVE  RunGoesOn /\ run'.stage = "request"
<1>1. run' = [from EXCEPT !.stage = "request", !.bucket = "none"] /\ UNCHANGED approvalVars
  BY DEF Again
<1>2. run' \in Runs /\ run'.stage = "request" /\ run'.owed = 0 /\ ~run'.probe
      /\ run'.row = from.row /\ (Counted(from) => Counted(run'))
  BY <1>1 DEF Runs, Buckets, Counted
<1> QED BY <1>1, <1>2 DEF RunGoesOn, RunLeavesAsks, RunSound, Waits, approvalVars

(* The back-off before the loop is entered again. *)
LEMMA SleepsSound ==
  ASSUME NEW from \in Runs, from.owed = 1, Counted(from), Sleeps(from)
  PROVE  RunGoesOn
<1>1. run' = [from EXCEPT !.row = "scheduled", !.stage = "sleep", !.bucket = "none", !.probe = TRUE]
      /\ UNCHANGED approvalVars
  BY DEF Sleeps, Scheduled
<1>2. run' \in Runs /\ run'.stage = "sleep" /\ run'.owed = 1 /\ Counted(run')
  BY <1>1 DEF Runs, Buckets, Waits, Counted
<1> QED BY <1>1, <1>2 DEF RunGoesOn, RunLeavesAsks, RunSound, Waits, approvalVars

(* A run that stops, at its end or with the tools. *)
LEMMA CompletesSound ==
  ASSUME RunSound(run), Bounds, run.stage \in {"request", "tools"}, Completes
  PROVE  RunGoesOn /\ made' \in [inputs : 0..MaxInputs, batches : 0..MaxBatches]
<1>1. run \in Runs /\ run.owed = 0 /\ ~run.probe /\ (run.row = "scheduled" => Counted(run))
  BY DEF RunSound, Waits, Runs
<1>2. CASE Over("completed", run) /\ Unbounded
  BY <1>1, <1>2, OverSound DEF Endings, Unbounded, Bounds
<1>3. CASE TakesInput /\ Again(run)
  <2>1. made' \in [inputs : 0..MaxInputs, batches : 0..MaxBatches]
    BY <1>3, RunAssumption DEF TakesInput, Bounds
  <2> QED BY <1>1, <1>3, <2>1, AgainSound
<1> QED BY <1>2, <1>3 DEF Completes

(* The hook and the legs behind it. *)
LEMMA HookSound ==
  ASSUME RunSound(run), run.stage = "hook", NEW decision, HookAnswers(decision)
  PROVE  RunGoesOn
<1>1. /\ run \in Runs /\ run.owed = 1 /\ ~run.probe /\ (run.row = "scheduled" => Counted(run))
      /\ run.transient \in 0..MaxRetries
  BY DEF RunSound, Waits, Runs
<1>2. CASE HookStops
  BY <1>1, <1>2, GiveUpSound DEF HookStops
<1>3. CASE /\ MayRetry
           /\ Sleeps([run EXCEPT !.transient = @ + 1,
                                 !.last = IF decision = "retry" THEN "hook" ELSE "transient"])
  <2> DEFINE r == [run EXCEPT !.transient = @ + 1,
                              !.last = IF decision = "retry" THEN "hook" ELSE "transient"]
  <2>1. run.transient + 1 \in 0..MaxRetries /\ run.transient + 1 > 0
    BY <1>1, <1>3, RunAssumption DEF MayRetry
  <2>2. r \in Runs /\ r.owed = 1 /\ Counted(r)
    BY <1>1, <2>1 DEF Runs, Counted
  <2> HIDE DEF r
  <2> QED BY <1>3, <2>2, SleepsSound DEF r
<1>4. CASE /\ run' = [Scheduled(run) EXCEPT !.stage = "compact", !.bucket = "none", !.overflow = 1]
           /\ UNCHANGED approvalVars
  <2>1. run' \in Runs /\ run'.stage = "compact" /\ run'.owed = 1 /\ ~run'.probe /\ run'.overflow = 1
    <3>1. \A x \in 0..1 :
            LET s == [Scheduled(run) EXCEPT !.stage = "compact", !.bucket = "none", !.overflow = x]
            IN s \in Runs /\ s.stage = "compact" /\ s.owed = run.owed /\ s.probe = run.probe /\ s.overflow = x
      BY <1>1 DEF Scheduled, Runs, Waits, Buckets
    <3> QED BY <1>1, <1>4, <3>1
  <2> QED BY <1>4, <2>1 DEF RunGoesOn, RunLeavesAsks, RunSound, Waits, Counted, approvalVars
<1>5. CASE run' = [run EXCEPT !.stage = "refresh"] /\ UNCHANGED approvalVars
  <2>1. run' \in Runs /\ run'.stage = "refresh" /\ run'.owed = 1 /\ ~run'.probe
        /\ run'.row = run.row /\ (Counted(run) => Counted(run'))
    BY <1>1, <1>5 DEF Runs, Waits, Counted
  <2> QED BY <1>1, <1>5, <2>1 DEF RunGoesOn, RunLeavesAsks, RunSound, Waits, approvalVars
<1>6. CASE GiveUp(Account(run), run)
  <2>1. Account(run) \in {"none", "aborted", "exhausted"}
    BY <1>1 DEF Account, Counted, Runs
  <2> QED BY <1>1, <1>6, <2>1, GiveUpSound
<1> QED BY <1>2, <1>3, <1>4, <1>5, <1>6 DEF HookAnswers

(* Every step of the run that runs no tools. *)
LEMMA RunStepSound ==
  ASSUME RunSound(run), Bounds,
         StartRun \/ Stops \/ Errs \/ ErrsAborted \/ IsAborted \/ IsCut \/ Throws \/ RetryLegs
  PROVE  RunGoesOn /\ Bounds' /\ UNCHANGED batchVars /\ run.stage # "tools"
<1>1. /\ run \in Runs /\ (run.owed = IF run.stage \in Waits THEN 1 ELSE 0)
      /\ (run.probe => run.stage = "sleep")
      /\ (run.stage # "idle" /\ run.row = "scheduled" => Counted(run))
      /\ (run.stage = "compact" => run.overflow = 1)
  BY DEF RunSound
<1>2. CASE StartRun
  <2>1. run' = [NoRun EXCEPT !.stage = "request"] /\ UNCHANGED approvalVars
    BY <1>2 DEF StartRun
  <2>2. run' \in Runs /\ run'.stage = "request" /\ run'.owed = 0 /\ ~run'.probe /\ run'.row = "none"
    <3>1. \A x \in 0..MaxRetries, y \in 0..1, o \in Int :
            [stage |-> "request", transient |-> x, overflow |-> y, refresh |-> y, last |-> "none",
             bucket |-> "none", probe |-> FALSE, owed |-> o, row |-> "none", status |-> "none"] \in Runs
      BY DEF Runs, Waits, Buckets
    <3>2. 0 \in 0..MaxRetries /\ 0 \in 0..1 /\ 0 \in Int
      BY RunAssumption
    <3>3. run' = [stage |-> "request", transient |-> 0, overflow |-> 0, refresh |-> 0, last |-> "none",
                  bucket |-> "none", probe |-> FALSE, owed |-> 0, row |-> "none", status |-> "none"]
      BY <2>1 DEF NoRun
    <3>4. run' \in Runs
      BY <3>1, <3>2, <3>3
    <3> QED BY <3>3, <3>4
  <2>3. RunGoesOn
    BY <2>1, <2>2 DEF RunGoesOn, RunLeavesAsks, RunSound, Waits, approvalVars
  <2>4. Bounds'
    <3>1. aborted' = FALSE /\ TakesInput
      BY <1>2 DEF StartRun
    <3>2. made' \in [inputs : 0..MaxInputs, batches : 0..MaxBatches]
      BY <3>1, RunAssumption DEF TakesInput, Bounds
    <3> QED BY <3>1, <3>2 DEF Bounds
  <2> QED BY <1>2, <2>3, <2>4 DEF StartRun, At
<1>3. CASE Stops
  BY <1>3, CompletesSound DEF Stops, At, OutsideRun, Bounds
<1> USE DEF At, OutsideRun, Unbounded, Bounds
<1>4. CASE Errs \/ ErrsAborted
  <2>1. PICK b \in Buckets : run' = [run EXCEPT !.stage = "hook", !.bucket = b, !.owed = @ + 1]
    BY <1>4 DEF Errs, ErrsAborted, Buckets
  <2>2. run.stage = "request" /\ UNCHANGED <<approvalVars, batchVars, aborted, made>>
    BY <1>4 DEF Errs, ErrsAborted
  <2>3. run.owed = 0 /\ ~run.probe
    BY <1>1, <2>2 DEF Waits
  <2>4. run' \in Runs /\ run'.stage = "hook" /\ run'.owed = 1 /\ ~run'.probe
        /\ run'.row = run.row /\ (Counted(run) => Counted(run'))
    <3>1. \A x \in Int :
            LET s == [run EXCEPT !.stage = "hook", !.bucket = b, !.owed = x]
            IN s \in Runs /\ s.stage = "hook" /\ s.owed = x /\ s.probe = run.probe
               /\ s.row = run.row /\ (Counted(run) => Counted(s))
      BY <1>1 DEF Runs, Waits, Counted
    <3>2. run.owed + 1 = 1 /\ 1 \in Int
      BY <2>3
    <3> QED BY <2>1, <2>3, <3>1, <3>2
  <2>5. RunGoesOn
    BY <1>1, <2>2, <2>4 DEF RunGoesOn, RunLeavesAsks, RunSound, Waits, approvalVars
  <2> QED BY <2>2, <2>5
<1>5. CASE IsAborted \/ IsCut \/ Throws
  <2>1. PICK status \in Endings \ {"failed"} : Over(status, run)
    BY <1>5 DEF IsAborted, IsCut, Throws, Endings
  <2>2. run.stage = "request" /\ UNCHANGED <<batchVars, aborted, made>>
    BY <1>5 DEF IsAborted, IsCut, Throws
  <2>3. run.owed = 0
    BY <1>1, <2>2 DEF Waits
  <2> QED BY <1>1, <2>1, <2>2, <2>3, OverSound
<1>6. CASE Hook
  <2>1. run.stage = "hook" /\ UNCHANGED <<batchVars, aborted, made>>
        /\ \E decision \in {"none", "retry", "stop"} : HookAnswers(decision)
    BY <1>6 DEF Hook
  <2> QED BY <2>1, HookSound
<1>7. ASSUME NEW from \in Runs, from.owed = 1, from.row = "scheduled" => Counted(from), Resumes(from)
      PROVE  RunGoesOn
  <2> DEFINE r == [from EXCEPT !.owed = 0, !.probe = FALSE]
  <2>1. r \in Runs /\ r.owed = 0 /\ ~r.probe /\ r.row = from.row /\ (Counted(from) => Counted(r))
    <3>1. \A x \in Int :
            LET s == [from EXCEPT !.owed = x, !.probe = FALSE]
            IN s \in Runs /\ s.owed = x /\ ~s.probe /\ s.row = from.row /\ (Counted(from) => Counted(s))
      BY <1>7 DEF Runs, Counted
    <3>2. 0 \in Int
      OBVIOUS
    <3> QED BY <3>1, <3>2
  <2>2. Again(r)
    <3>1. from.owed - 1 = 0
      BY <1>7
    <3> QED BY <1>7, <3>1 DEF Resumes
  <2> HIDE DEF r
  <2> QED BY <1>7, <2>1, <2>2, AgainSound
<1>8. CASE SleepEnds
  <2>1. run.stage = "sleep" /\ Resumes(run) /\ UNCHANGED <<batchVars, aborted, made>>
    BY <1>8 DEF SleepEnds
  <2> QED BY <1>1, <1>7, <2>1 DEF Waits
<1>9. CASE SleepCut
  <2>1. run.stage = "sleep" /\ GiveUp("aborted", run) /\ UNCHANGED <<batchVars, aborted, made>>
    BY <1>9 DEF SleepCut
  <2> QED BY <1>1, <2>1, GiveUpSound DEF Waits
<1>10. CASE CompactionReturns
  <2>1. run.stage = "compact" /\ UNCHANGED <<batchVars, aborted, made>> /\ run.owed = 1 /\ run.overflow = 1
    BY <1>1, <1>10 DEF CompactionReturns, Waits
  <2>2. CASE GiveUp("exhausted", run)
    BY <1>1, <2>1, <2>2, GiveUpSound
  <2>3. CASE Resumes([run EXCEPT !.last = "overflow"])
    <3> DEFINE r == [run EXCEPT !.last = "overflow"]
    <3>1. r \in Runs /\ r.owed = 1 /\ Counted(r)
      BY <1>1, <2>1 DEF Runs, Counted
    <3> HIDE DEF r
    <3> QED BY <1>7, <2>1, <2>3, <3>1 DEF r
  <2> QED BY <1>10, <2>2, <2>3 DEF CompactionReturns
<1>11. CASE RefreshReturns
  <2>1. run.stage = "refresh" /\ UNCHANGED <<batchVars, aborted, made>> /\ run.owed = 1
    BY <1>1, <1>11 DEF RefreshReturns, Waits
  <2>2. CASE GiveUp(Account(run), run)
    <3>1. Account(run) \in {"none", "aborted", "exhausted"}
      BY <1>1, <2>1 DEF Account, Counted, Runs
    <3> QED BY <1>1, <2>1, <2>2, <3>1, GiveUpSound
  <2>3. CASE Sleeps([run EXCEPT !.refresh = 1, !.last = "refresh"])
    <3> DEFINE r == [run EXCEPT !.refresh = 1, !.last = "refresh"]
    <3>1. r \in Runs /\ r.owed = 1 /\ Counted(r)
      <4>1. \A x \in 0..1 : LET s == [run EXCEPT !.refresh = x, !.last = "refresh"]
                            IN s \in Runs /\ s.owed = run.owed /\ Counted(s)
        BY <1>1 DEF Runs, Counted
      <4> QED BY <2>1, <4>1
    <3> HIDE DEF r
    <3> QED BY <2>1, <2>3, <3>1, SleepsSound DEF r
  <2> QED BY <1>11, <2>2, <2>3 DEF RefreshReturns
<1> QED BY <1>2, <1>3, <1>4, <1>5, <1>6, <1>8, <1>9, <1>10, <1>11 DEF RetryLegs
-----------------------------------------------------------------------------
(* The invariant, in the parts that the lemmas keep.                       *)

LEMMA Parts ==
  IInv <=> /\ ApproveOK /\ BatchOK /\ AsksInTurn /\ ToolsAtWork
           /\ RunSound(run) /\ Bounds /\ NoAskOutlivesRun
BY DEF IInv, TypeOK, BatchTypeOK, ApproveOK, BatchOK, BatchTypes, Placed, RunSound, Bounds,
       RunsAreClosed, RetryIsCounted, At

LEMMA PartsNext ==
  IInv' <=> /\ ApproveOK' /\ BatchOK' /\ AsksInTurn' /\ ToolsAtWork'
            /\ RunSound(run') /\ Bounds' /\ NoAskOutlivesRun'
BY DEF IInv, TypeOK, BatchTypeOK, ApproveOK, BatchOK, BatchTypes, Placed, RunSound, Bounds,
       RunsAreClosed, RetryIsCounted, At

(* What the batch and the calls say does not depend on the rest. *)
LEMMA BatchStays ==
  ASSUME BatchOK, UNCHANGED batchVars
  PROVE  BatchOK' /\ NoneAgain
BY DEF batchVars, BatchOK, BatchTypes, Working, Placed, BegunIsKnown, BusyIsHeld, AheadIsNew,
       SegmentAlone, Segment, NoneAgain, TakesUpNew, OnlyMovesOn

(* A step of the run leaves the asks as they were, or settles them all. *)
LEMMA RunKeepsAsks ==
  ASSUME ApproveOK, AsksInTurn, RunLeavesAsks, work' = work
  PROVE  ApproveOK' /\ AsksInTurn' /\ NoAskOutlivesRun'
<1>1. UNCHANGED <<shown, waiting, outcome, votes, verdict, sticky>>
  BY DEF RunLeavesAsks, askVars
<1>2. dropped' \subseteq Asks
  BY DEF RunLeavesAsks, SettlePending, Pending, ApproveOK, ApprovalTypeOK
<1>3. ApproveOK' /\ AsksInTurn'
  BY <1>1, <1>2 DEF ApproveOK, ApprovalTypeOK, AskTypeOK, QueueMoves, Open, AsksInTurn
<1>4. NoAskOutlivesRun'
  <2>1. CASE run'.stage # "idle"
    BY <2>1 DEF NoAskOutlivesRun, At
  <2>2. CASE SettlePending
    BY <1>1, <2>2 DEF NoAskOutlivesRun, SettlePending, Pending, Undecided, Finished
  <2> QED BY <2>1, <2>2 DEF RunLeavesAsks
<1> QED BY <1>3, <1>4

(* Where approvals only end nothing new waits. *)
LEMMA EndingKeeps ==
  ASSUME ApproveOK, AsksInTurn, AskOK', AsksOnlyEnd, UNCHANGED <<verdict, dropped, sticky, work>>
  PROVE  ApproveOK' /\ AsksInTurn' /\ Pending' \subseteq Pending
<1>1. \A a \in Asks : outcome'[a] = outcome[a] \/ outcome'[a] \in Verdicts
  BY AskIsQuestion DEF AsksOnlyEnd
<1>2. ApproveOK'
  BY DEF ApproveOK, ApprovalTypeOK, AskOK
<1>3. \A a \in Asks : Open(a)' => Open(a)
  BY <1>1 DEF Open, Verdicts
<1>4. AsksInTurn'
  BY <1>3 DEF AsksInTurn, Asks, Writing
<1>5. Pending' \subseteq Pending
  BY <1>1 DEF Pending, Undecided, Finished, Verdicts
<1> QED BY <1>2, <1>4, <1>5

(* A step of the run outside the tools. *)
LEMMA RunStep ==
  ASSUME IInv,
         StartRun \/ Stops \/ Errs \/ ErrsAborted \/ IsAborted \/ IsCut \/ Throws \/ RetryLegs
  PROVE  IInv' /\ NoneAgain
<1>1. RunGoesOn /\ Bounds' /\ UNCHANGED batchVars /\ run.stage # "tools"
  BY RunStepSound, Parts
<1>2. work' = work /\ running' = running /\ batch' = batch
  BY <1>1 DEF batchVars
<1>3. ApproveOK' /\ AsksInTurn' /\ NoAskOutlivesRun'
  BY <1>1, <1>2, Parts, RunKeepsAsks DEF RunGoesOn
<1>4. BatchOK' /\ NoneAgain
  BY <1>1, Parts, BatchStays
<1>5. ToolsAtWork'
  BY <1>1, <1>2, Parts DEF ToolsAtWork, At
<1> QED BY <1>1, <1>3, <1>4, <1>5, PartsNext DEF RunGoesOn

(* The model asks for tools. *)
LEMMA CallsToolsStep ==
  ASSUME IInv, CallsTools
  PROVE  IInv' /\ NoneAgain
<1>1. /\ run.stage = "request" /\ run' = [run EXCEPT !.stage = "tools"]
      /\ aborted' = aborted /\ made.batches < MaxBatches
      /\ made' = [made EXCEPT !.batches = @ + 1]
  BY DEF CallsTools, At
<1>2. PICK calls \in Batches : BeginBatch(calls, aborted)
  BY DEF CallsTools
<1>3. calls \in Seq(Calls)
  BY RunAssumption
<1>4. running = <<>>
  BY <1>1, Parts DEF ToolsAtWork, At
<1>5. ApproveOK' /\ BatchOK' /\ AsksInTurn' /\ NoneAgain
  BY <1>2, <1>3, <1>4, Parts, BeginBatchKeeps
<1>6. RunSound(run') /\ run'.stage = "tools"
  <2>1. run \in Runs /\ run.owed = 0 /\ ~run.probe /\ (run.row = "scheduled" => Counted(run))
    BY <1>1, Parts DEF RunSound, Waits
  <2>2. run' \in Runs /\ run'.stage = "tools" /\ run'.owed = 0 /\ ~run'.probe
        /\ run'.row = run.row /\ (Counted(run) => Counted(run'))
    BY <1>1, <2>1 DEF Runs, Waits, Counted
  <2> QED BY <2>1, <2>2 DEF RunSound, Waits
<1>7. Bounds'
  BY <1>1, Parts, RunAssumption DEF Bounds
<1>8. ToolsAtWork' /\ NoAskOutlivesRun'
  BY <1>6 DEF ToolsAtWork, NoAskOutlivesRun, At
<1> QED BY <1>5, <1>6, <1>7, <1>8, PartsNext

(* The batch is over: its calls are all in the ledger. *)
LEMMA ToolsReturnStep ==
  ASSUME IInv, ToolsReturn
  PROVE  IInv' /\ NoneAgain
<1>1. /\ run.stage = "tools" /\ running = <<>> /\ aborted' = aborted
      /\ batch' = <<>> /\ next' = 1 /\ unanimous' = TRUE
      /\ UNCHANGED <<running, ledger, work, late>>
  BY DEF ToolsReturn, BatchOver, Return, At
<1>2. RunSound(run) /\ Bounds
  BY Parts
<1>3. RunGoesOn /\ Bounds'
  <2>1. CASE Completes
    BY <1>1, <1>2, <2>1, CompletesSound DEF Bounds
  <2>2. CASE Again(run) /\ Unbounded
    <3>1. run \in Runs /\ run.owed = 0 /\ ~run.probe /\ (run.row = "scheduled" => Counted(run))
      BY <1>1, <1>2 DEF RunSound, Waits
    <3> QED BY <1>1, <1>2, <2>2, <3>1, AgainSound DEF Bounds, Unbounded
  <2> QED BY <2>1, <2>2 DEF ToolsReturn
<1>4. BatchOK'
  <2>1. BatchOK
    BY Parts
  <2>2. BatchTypes'
    BY <1>1, <2>1 DEF BatchOK, BatchTypes, Working
  <2>3. AheadIsNew'
    BY <1>1 DEF AheadIsNew
  <2> QED BY <1>1, <2>1, <2>2, <2>3
          DEF BatchOK, Placed, BegunIsKnown, BusyIsHeld, SegmentAlone, Segment
<1>5. ApproveOK' /\ AsksInTurn' /\ NoAskOutlivesRun'
  BY <1>1, <1>3, Parts, RunKeepsAsks DEF RunGoesOn
<1>6. ToolsAtWork' /\ NoneAgain
  BY <1>1 DEF ToolsAtWork, NoneAgain, TakesUpNew, OnlyMovesOn, IsInjective, ToSet
<1> QED BY <1>3, <1>4, <1>5, <1>6, PartsNext DEF RunGoesOn

(* The segment is over and the next one starts. *)
LEMMA SegmentStepKeeps ==
  ASSUME IInv, SegmentStep
  PROVE  IInv' /\ NoneAgain
<1>1. SegmentDone(aborted) /\ run' = run /\ aborted' = aborted /\ made' = made
  BY DEF SegmentStep, turnVars
<1>2. run.stage = "tools"
  BY <1>1, Parts DEF SegmentDone, ToolsAtWork, At
<1>3. ApproveOK' /\ BatchOK' /\ AsksInTurn' /\ NoneAgain
  BY <1>1, Parts, SegmentDoneKeeps
<1>4. RunSound(run') /\ Bounds'
  BY <1>1, Parts DEF Bounds
<1>5. ToolsAtWork' /\ NoAskOutlivesRun'
  BY <1>1, <1>2 DEF ToolsAtWork, NoAskOutlivesRun, At
<1> QED BY <1>3, <1>4, <1>5, PartsNext

(* A step beside the run that opens no ask while no run is on. *)
LEMMA BesideKeeps ==
  ASSUME IInv, UNCHANGED <<batch, running>>, run' = run, made' = made, aborted' \in BOOLEAN,
         ApproveOK', BatchOK', AsksInTurn', Pending' \subseteq Pending \/ run.stage # "idle"
  PROVE  IInv'
<1>1. RunSound(run') /\ Bounds'
  BY Parts DEF Bounds
<1>2. ToolsAtWork' /\ NoAskOutlivesRun'
  BY Parts DEF ToolsAtWork, NoAskOutlivesRun, At
<1> QED BY <1>1, <1>2, PartsNext

(* A call goes on.  Without a run it is one that was given up, which does  *)
(* not come to its gate any more.                                          *)
LEMMA CallStepKeeps ==
  ASSUME IInv, NEW c \in Calls, CallStep(c)
  PROVE  IInv' /\ NoneAgain
<1>1. Call(c, aborted) /\ run' = run /\ aborted' = aborted /\ made' = made
  BY DEF CallStep, turnVars
<1>2. /\ ApproveOK' /\ BatchOK' /\ AsksInTurn' /\ NoneAgain
      /\ SameBatch /\ (Pending' \subseteq Pending \/ work[c] = "gate")
  BY <1>1, Parts, CallKeeps
<1>3. ASSUME run.stage = "idle", work[c] = "gate" PROVE FALSE
  <2>1. BatchOK /\ ToolsAtWork
    BY Parts
  <2>2. Segment = {}
    BY <1>3, <2>1 DEF ToolsAtWork, At, Segment, ToSet
  <2>3. c \in late
    BY <1>3, <2>1, <2>2 DEF BatchOK, Placed, BusyIsHeld
  <2> QED BY <1>3, <2>1, <2>3 DEF BatchOK, BatchTypes, Working
<1>4. aborted \in BOOLEAN
  BY Parts DEF Bounds
<1> QED BY <1>1, <1>2, <1>3, <1>4, BesideKeeps DEF SameBatch

(* The user answers, aborts, closes the session, another question comes.   *)
LEMMA UserStepKeeps ==
  ASSUME IInv,
         \/ Abort \/ CloseSession
         \/ \E b \in Backends : AnswerQuestion(b)
         \/ \E q \in Questions \ Approvals : AskOther(q)
  PROVE  IInv' /\ NoneAgain
<1>1. ApproveOK /\ AskOK /\ BatchOK /\ AsksInTurn /\ aborted \in BOOLEAN
  BY Parts DEF ApproveOK, ApprovalTypeOK, AskOK, Bounds
<1>2. ASSUME AskOK', AsksOnlyEnd, UNCHANGED <<verdict, dropped, sticky, batchVars, run, made>>,
             aborted' \in BOOLEAN
      PROVE  IInv' /\ NoneAgain
  <2>1. work' = work /\ batch' = batch /\ running' = running
    BY <1>2 DEF batchVars
  <2>2. ApproveOK' /\ AsksInTurn' /\ Pending' \subseteq Pending
    BY <1>1, <1>2, <2>1, EndingKeeps
  <2>3. BatchOK' /\ NoneAgain
    BY <1>1, <1>2, BatchStays
  <2> QED BY <1>2, <2>1, <2>2, <2>3, BesideKeeps
<1>3. CASE Abort
  <2>1. Finish(Pending, "refused") /\ aborted' = TRUE
    BY <1>3 DEF Abort, CancelAsks
  <2>2. AskOK' /\ AsksOnlyEnd
    BY <1>1, <2>1, FinishMoves DEF Verdicts
  <2> QED BY <1>2, <1>3, <2>1, <2>2 DEF Abort
<1>4. CASE CloseSession
  BY <1>1, <1>2, <1>4, CloseMoves DEF CloseSession, turnVars
<1>5. CASE \E b \in Backends : AnswerQuestion(b)
  BY <1>1, <1>2, <1>5, ReplyMoves DEF AnswerQuestion, turnVars
<1>6. ASSUME NEW q \in Questions \ Approvals, AskOther(q) PROVE IInv' /\ NoneAgain
  <2>1. /\ ~Open(q) /\ Raise(q, FALSE) /\ votes' = votes
        /\ UNCHANGED <<verdict, dropped, sticky, batchVars, run, aborted, made>>
    BY <1>6 DEF AskOther, turnVars
  <2>2. AskOK' /\ \A p \in Questions : p # q => outcome'[p] = outcome[p]
    BY <1>1, <2>1, RaiseMoves
  <2>3. AsksOnlyEnd
    BY <2>2, AskAssumption DEF AsksOnlyEnd
  <2> QED BY <1>1, <1>2, <2>1, <2>2, <2>3
<1> QED BY <1>3, <1>4, <1>5, <1>6

(* The service decides an ask. *)
LEMMA DecideStepKeeps ==
  ASSUME IInv, NEW a \in Asks, DecideAsk(a)
  PROVE  IInv' /\ NoneAgain
<1>1. Decide(a) /\ UNCHANGED batchVars /\ run' = run /\ aborted' = aborted /\ made' = made
  BY DEF DecideAsk, turnVars
<1>2. ApproveOK /\ BatchOK /\ AsksInTurn /\ aborted \in BOOLEAN
  BY Parts DEF Bounds
<1>3. /\ ApproveOK' /\ Pending' \subseteq Pending
      /\ \A x \in Asks : outcome'[x] = outcome[x] \/ outcome'[x] = "unasked"
  BY <1>1, <1>2, DecideKeeps
<1>4. work' = work /\ batch' = batch /\ running' = running
  BY <1>1 DEF batchVars
<1>5. AsksInTurn'
  BY <1>2, <1>3, <1>4 DEF AsksInTurn, Open, Asks, Writing
<1>6. BatchOK' /\ NoneAgain
  BY <1>1, <1>2, BatchStays
<1> QED BY <1>1, <1>2, <1>3, <1>4, <1>5, <1>6, BesideKeeps

-----------------------------------------------------------------------------

LEMMA InitTurns == Init => IInv
<1> SUFFICES ASSUME Init PROVE IInv
  OBVIOUS
<1>1. /\ shown = NoQuestion /\ waiting = <<>> /\ outcome = [q \in Questions |-> "unasked"]
      /\ votes = {} /\ verdict = [a \in Asks |-> "none"] /\ dropped = {} /\ sticky = {}
      /\ batch = <<>> /\ next = 1 /\ running = <<>> /\ ledger = {}
      /\ unanimous = TRUE /\ work = [c \in Calls |-> "new"] /\ late = {}
      /\ run = NoRun /\ aborted = FALSE /\ made = [inputs |-> 0, batches |-> 0]
  BY DEF Init, BatchInit, ApprovalInit, AskInit
<1>2. ApproveOK
  BY <1>1 DEF ApproveOK, ApprovalTypeOK, AskTypeOK, Outcomes, QueueMoves, Open
<1>3. BatchTypes
  BY <1>1 DEF BatchTypes, Stages
<1>4. Placed
  BY <1>1 DEF Placed, BegunIsKnown, BusyIsHeld, AheadIsNew, SegmentAlone, Segment, ToSet
<1>5. AsksInTurn
  BY <1>1, AskIsQuestion DEF AsksInTurn, Open, Asks, Writing
<1>6. ToolsAtWork
  BY <1>1 DEF ToolsAtWork
<1>7. RunSound(run)
  <2>1. \A x \in 0..MaxRetries, y \in 0..1, o \in Int :
          [stage |-> "idle", transient |-> x, overflow |-> y, refresh |-> y, last |-> "none",
           bucket |-> "none", probe |-> FALSE, owed |-> o, row |-> "none", status |-> "none"] \in Runs
    BY DEF Runs, Buckets
  <2>2. 0 \in 0..MaxRetries /\ 0 \in 0..1 /\ 0 \in Int
    BY RunAssumption
  <2>3. run = [stage |-> "idle", transient |-> 0, overflow |-> 0, refresh |-> 0, last |-> "none",
               bucket |-> "none", probe |-> FALSE, owed |-> 0, row |-> "none", status |-> "none"]
    BY <1>1 DEF NoRun
  <2>4. run \in Runs
    BY <2>1, <2>2, <2>3
  <2> QED BY <2>3, <2>4 DEF RunSound, Waits
<1>8. Bounds
  <2>1. 0 \in 0..MaxInputs /\ 0 \in 0..MaxBatches
    BY RunAssumption
  <2> QED BY <1>1, <2>1 DEF Bounds
<1>9. NoAskOutlivesRun
  BY <1>1 DEF NoAskOutlivesRun, Pending, Undecided
<1> QED BY <1>2, <1>3, <1>4, <1>5, <1>6, <1>7, <1>8, <1>9, Parts DEF BatchOK

LEMMA NextTurns == IInv /\ [Next]_vars => IInv' /\ [NoneAgain]_batchVars
<1> SUFFICES ASSUME IInv, [Next]_vars PROVE IInv' /\ (NoneAgain \/ UNCHANGED batchVars)
  OBVIOUS
<1>1. CASE StartRun \/ Requests \/ RetryLegs
  BY <1>1, RunStep, CallsToolsStep DEF Requests
<1>2. CASE ToolsReturn
  BY <1>2, ToolsReturnStep
<1>3. CASE SegmentStep
  BY <1>3, SegmentStepKeeps
<1>4. CASE \/ Abort \/ CloseSession
           \/ \E b \in Backends : AnswerQuestion(b)
           \/ \E q \in Questions \ Approvals : AskOther(q)
  BY <1>4, UserStepKeeps
<1>5. CASE \E a \in Asks : DecideAsk(a)
  BY <1>5, DecideStepKeeps
<1>6. CASE \E c \in Calls : CallStep(c)
  BY <1>6, CallStepKeeps
<1>7. CASE UNCHANGED vars
  <2>1. UNCHANGED batchVars /\ UNCHANGED <<askVars, verdict, dropped, sticky, run, aborted, made>>
    BY <1>7 DEF vars, approvalVars, turnVars
  <2>2. /\ ApproveOK /\ BatchOK /\ AsksInTurn /\ ToolsAtWork
        /\ RunSound(run) /\ Bounds /\ NoAskOutlivesRun
    BY Parts
  <2>3. ApproveOK'
    BY <2>1, <2>2 DEF askVars, ApproveOK, ApprovalTypeOK, AskTypeOK, QueueMoves, Open
  <2>4. AsksInTurn' /\ NoAskOutlivesRun' /\ ToolsAtWork'
    BY <2>1, <2>2 DEF askVars, batchVars, AsksInTurn, Open, NoAskOutlivesRun, Pending, Undecided,
                      Finished, ToolsAtWork, At
  <2>5. BatchOK'
    BY <2>1, <2>2, BatchStays
  <2>6. RunSound(run') /\ Bounds'
    BY <2>1, <2>2 DEF Bounds
  <2> QED BY <2>1, <2>3, <2>4, <2>5, <2>6, PartsNext
<1> QED BY <1>1, <1>2, <1>3, <1>4, <1>5, <1>6, <1>7 DEF Next

(* In every state of every execution the runs account for their calls,     *)
(* asks and retries.                                                       *)
THEOREM TurnsAccount == Spec => []IInv
<1>1. Init => IInv
  BY InitTurns
<1>2. IInv /\ [Next]_vars => IInv'
  BY NextTurns
<1> QED BY <1>1, <1>2, PTL DEF Spec

(* Asks, calls, batches and runs are of their types, for any set of calls  *)
(* and batches, any number of retries and of backends.                     *)
THEOREM TurnsTyped == Spec => []TypeOK
<1>1. IInv => TypeOK
  BY DEF IInv
<1> QED BY <1>1, TurnsAccount, PTL

(* The question that is shown is open, and none waits behind an empty slot.*)
THEOREM QueueServes == Spec => []QueueMoves
<1>1. IInv => QueueMoves
  BY DEF IInv
<1> QED BY <1>1, TurnsAccount, PTL

(* A call that is no read works alone, but for what was given up. *)
THEOREM WritersAlone == Spec => []WritesAlone
<1>1. IInv => WritesAlone
  <2> SUFFICES ASSUME IInv, NEW c \in Writing, NEW d \in Calls, c # d, Working(c), Working(d)
               PROVE  c \in late \/ d \in late
    BY DEF WritesAlone
  <2>1. c \in Segment \cup late /\ d \in Segment \cup late
    BY DEF IInv, BusyIsHeld, Working, Writing
  <2>2. ~(c \in Segment /\ d \in Segment)
    BY DEF IInv, SegmentAlone, Writing
  <2> QED BY <2>1, <2>2
<1> QED BY <1>1, TurnsAccount, PTL

(* A failure the user is shown is closed or resumed exactly once. *)
THEOREM FailuresAreClosed == Spec => []RunsAreClosed
<1>1. IInv => RunsAreClosed
  BY DEF IInv
<1> QED BY <1>1, TurnsAccount, PTL

(* No approval waits for an answer when no run is on. *)
THEOREM AsksEndWithRun == Spec => []NoAskOutlivesRun
<1>1. IInv => NoAskOutlivesRun
  BY DEF IInv
<1> QED BY <1>1, TurnsAccount, PTL

(* No call is executed twice: a segment takes up only calls that were      *)
(* never begun, each of them once, and a call only ever moves on.          *)
THEOREM CallsRunOnce == Spec => ExecutedOnce
<1>1. IInv /\ [Next]_vars => [NoneAgain]_batchVars
  BY NextTurns
<1>2. ExecutedOnce <=> [][NoneAgain]_batchVars
  BY PTL DEF ExecutedOnce, NoneAgain, TakesUpNew, OnlyMovesOn
<1> QED BY <1>1, <1>2, TurnsAccount, PTL DEF Spec
=============================================================================
