----------------------------- MODULE SessionLog -----------------------------
(***************************************************************************)
(* The event log of a session as a value: what of it the model sees        *)
(* (src/session/derive.ts), which intervals may be hidden                  *)
(* (src/session/session.ts), which interval a compaction chooses           *)
(* (src/compaction/policy.ts) and what is added to a log that was cut by a *)
(* crash (src/session/recover.ts).                                         *)
(*                                                                         *)
(* Positions count from 1.  "calls" is an assistant message and its        *)
(* tool/call, "result" a tool/result, "error" an assistant message that    *)
(* ended in error, "retry" an llm/retry in its scheduled phase, "closed" a *)
(* compaction/end whose reason is not completed.                           *)
(***************************************************************************)
EXTENDS Integers, Sequences, FiniteSetsExt, SequencesExt

Messages == {"user", "reply", "calls", "result", "error", "summary"}
Carriers == {"retry", "surface"}
Types == Messages \cup Carriers \cup {"turn/start", "turn/end", "start", "end", "closed"}

(* first, last: the interval that a carrier hides; of a result, its call. *)
Events == [type : Types, first : Nat, last : Nat]

Event(t) == [type |-> t, first |-> 0, last |-> 0]
Result(call) == [type |-> "result", first |-> call, last |-> call]
Carrier(t, range) == [type |-> t, first |-> range.first, last |-> range.last]

Interval(a, b) == [first |-> a, last |-> b]
NoInterval == Interval(0, 0)

(* The positions in S in the order of the log. *)
InOrder(S) == [k \in 1..Cardinality(S) |-> CHOOSE i \in S : Cardinality({j \in S : j < i}) = k - 1]

At(log, types) == {i \in DOMAIN log : log[i].type \in types}

Highest(S) == IF S = {} THEN 0 ELSE Max(S)

-----------------------------------------------------------------------------
(* deriveMessages: the positions of the messages that no carrier hides. *)
Occluded(log) == UNION {log[i].first .. log[i].last : i \in At(log, Carriers)}

Visible(log) == At(log, Messages) \ Occluded(log)

Projection(log) == InOrder(Visible(log))

(* How many brackets are open, as recoverClosers and the wiring count them;*)
(* no log has an end before its start.                                     *)
Depth(log, open, close) == Cardinality(At(log, open)) - Cardinality(At(log, close))

OpenTurns(log) == Depth(log, {"turn/start"}, {"turn/end"})
OpenCompactions(log) == Depth(log, {"start"}, {"end", "closed"})

Unanswered(log) ==
  {c \in At(log, {"calls"}) \ Occluded(log) : \A r \in At(log, {"result"}) : log[r].first # c}

(* Mutated form of Closers: only brackets are closed. *)
ClosersOfBrackets(log) ==
  [i \in 1..OpenCompactions(log) |-> Event("closed")]
  \o [i \in 1..OpenTurns(log) |-> Event("turn/end")]

(* recoverClosers: results for the calls without one, ends for the open    *)
(* compactions, then for the open turns.                                   *)
Closers(log) ==
  LET calls == InOrder(Unanswered(log))
  IN  [i \in DOMAIN calls |-> Result(calls[i])]
      \o [i \in 1..OpenCompactions(log) |-> Event("closed")]
      \o [i \in 1..OpenTurns(log) |-> Event("turn/end")]

-----------------------------------------------------------------------------
(* validateSurfaceOp.  Both forms: the interval lies in the log, nothing   *)
(* in it is hidden yet, and nothing in it hides.                           *)
Untouched(log, range) ==
  /\ 1 <= range.first /\ range.first <= range.last /\ range.last <= Len(log)
  /\ (range.first .. range.last) \cap (Occluded(log) \cup At(log, Carriers)) = {}

WholePairs(log, range, callToo) ==
  \A r \in At(log, {"result"}) :
    /\ r \in range.first .. range.last => log[r].first \in range.first .. range.last
    /\ callToo /\ log[r].first \in range.first .. range.last => r \in range.first .. range.last

(* Mutated form of AcceptsRetry: carriers may be hidden. *)
AcceptsRetryNested(log, range) == log[range.first].type = "error"

(* The form of llm/retry: from an error to the end of the log. *)
AcceptsRetry(log, range) ==
  /\ Untouched(log, range)
  /\ log[range.first].type = "error"
  /\ range.last = Len(log)
  /\ \E i \in At(log, {"turn/end"}) : i \in range.first .. range.last
  /\ WholePairs(log, range, FALSE)

(* The general form: no call without its result, from the start of a turn. *)
AcceptsSurface(log, range) ==
  /\ Untouched(log, range)
  /\ WholePairs(log, range, TRUE)
  /\ \/ range.first = 1
     \/ log[range.first].type = "turn/start"
     \/ log[range.first - 1].type = "turn/end"
     \/ \E i \in At(log, Carriers) : log[i].last = range.first - 1

-----------------------------------------------------------------------------
(* planSegment.  The first position after the first turn, or after what    *)
(* compactions hid so far, that no carrier takes.                          *)
PlanFirst(log) ==
  LET hidden == {log[i].last : i \in At(log, {"surface"})}
      from == IF hidden # {} THEN Max(hidden) ELSE Min(At(log, {"turn/end"}))
      free == {i \in DOMAIN log : i > from} \ (Occluded(log) \cup At(log, Carriers))
  IN  IF free = {} THEN Len(log) + 1 ELSE Min(free)

(* The last position: a closed turn, not into the last tailKeep messages,  *)
(* not into a carrier or what it hides.                                    *)
PlanLast(log, first, tailKeep) ==
  LET shown == Projection(log)
      above == {i \in At(log, Carriers) : i > first}
               \cup {log[i].first : i \in {j \in At(log, Carriers) : log[j].first > first}}
  IN  Min({Max(At(log, {"turn/end"})), shown[Len(shown) - tailKeep + 1] - 1}
          \cup {i - 1 : i \in above})

PlanSegment(log, tailKeep) ==
  IF At(log, {"turn/end"}) = {} \/ Cardinality(Visible(log)) < tailKeep + 2
  THEN NoInterval
  ELSE LET first == PlanFirst(log)
           last == PlanLast(log, first, tailKeep)
       IN  IF Visible(log) \cap (first .. last) = {} THEN NoInterval ELSE Interval(first, last)

-----------------------------------------------------------------------------
(* What every log has that this program wrote, and every beginning of one. *)
Hides(log, k) == log[k].first .. log[k].last

(* A carrier hides what came before it; a result has a call before it, and *)
(* is the only one of that call.                                           *)
LooksBack(log) ==
  /\ \A k \in At(log, Carriers) : log[k].last < k
  /\ \A r \in At(log, {"result"}) : log[r].first \in At(log, {"calls"}) /\ log[r].first < r
  /\ \A r, q \in At(log, {"result"}) : log[r].first = log[q].first => r = q

(* A call and its result are hidden together.                              *)
HidesPairs(log) ==
  \A k \in At(log, Carriers), r \in At(log, {"result"}) :
    r \in Hides(log, k) <=> log[r].first \in Hides(log, k)

(* A compaction has its summary, which only a later compaction hides.      *)
KeepsSummaries(log) ==
  \A i \in At(log, {"surface"}) :
    /\ i > 1 /\ log[i - 1].type = "summary"
    /\ \A k \in At(log, Carriers) : i - 1 \in Hides(log, k) => log[k].type = "surface" /\ i < k

(* A carrier hides something; a turn ends when each call before has its    *)
(* result or is hidden.                                                    *)
TurnsHoldCalls(log) ==
  /\ \A k \in At(log, Carriers) : log[k].first <= log[k].last
  /\ \A c \in At(log, {"calls"}), t \in At(log, {"turn/end"}) : c < t =>
       \/ \E r \in At(log, {"result"}) : r < t /\ log[r].first = c
       \/ \E k \in At(log, Carriers) : k < t /\ c \in Hides(log, k)

WellFormed(log) == log \in Seq(Events) /\ LooksBack(log) /\ HidesPairs(log) /\ KeepsSummaries(log)
=============================================================================
