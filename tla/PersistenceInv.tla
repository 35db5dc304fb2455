--------------------------- MODULE PersistenceInv ---------------------------
(***************************************************************************)
(* The inductive invariant behind the safety properties of Persistence.    *)
(* Per session it says where every event is: the events up to last_seq are *)
(* the rows, the ones after it are in the queue, once and in order, and    *)
(* the cursor, if cached, is last_seq.                                     *)
(***************************************************************************)
EXTENDS Persistence

(* Every log is numbered from 0 and holds its own events only. *)
Numbered ==
  \A s \in Sessions : \A k \in DOMAIN log[s] : log[s][k].sid = s /\ log[s][k].seq = k - 1

(* The rows of s are the events of its log l up to last_seq. *)
BackedBy(s, l) ==
  /\ lastSeq[s] < Len(l)
  /\ {r \in rows : r.sid = s} = {l[k] : k \in {j \in DOMAIN l : j <= lastSeq[s] + 1}}

(* What is queued of s is a part of l after last_seq, in order. *)
PendingOf(s, l) ==
  /\ \A i \in PositionsOf(queue, s) :
       /\ queue[i].seq \in (lastSeq[s] + 1)..(Len(l) - 1)
       /\ queue[i] = l[queue[i].seq + 1]
  /\ \A i, j \in PositionsOf(queue, s) : i < j => queue[i].seq < queue[j].seq

(* Nothing of l after last_seq is missing from the queue. *)
Covers(s, l) == \A k \in DOMAIN l : k > lastSeq[s] + 1 => Queued(l[k])

CursorTrue(s) == cursor[s] \in {NoCursor, lastSeq[s]}

SoundFor(s, l) ==
  /\ s \notin gone => BackedBy(s, l)
  /\ Tracked(s) => PendingOf(s, l) /\ CursorTrue(s) /\ (~broken /\ ~late => Covers(s, l))

Accounted == \A s \in Sessions : SoundFor(s, log[s])

(* A session without a row has no last_seq. *)
RowsRegistered == \A s \in Sessions : s \notin present => lastSeq[s] = -1

(* Sessions that are cut off are in the queue in row mode only, where they *)
(* are skipped.                                                            *)
CutSkipped == ~rowMode => \A i \in DOMAIN queue : queue[i].sid \notin Cut

(* An id that was not given out has left no trace. *)
UnbornClean ==
  \A s \in Sessions : att[s] = "unborn" =>
    /\ log[s] = <<>> /\ PositionsOf(queue, s) = {}
    /\ s \notin present \cup Cut \cup gone \cup registrations
    /\ {r \in rows : r.sid = s} = {}
    /\ cursor[s] = NoCursor /\ deleting[s] = "no"

(* A session deleted here stays deleted: nobody can register its row.      *)
DeletedClean ==
  \A s \in dropped \ gone : ~closed =>
    s \notin present \cup registrations /\ {r \in rows : r.sid = s} = {}

(* The flags of the queue agree with one another and with the bounds.      *)
FlagsAgree ==
  /\ late => closed
  /\ closed => closing = "done"
  /\ scheduled => drain = "idle"
  /\ drain # "idle" => ~broken
  /\ drain \in {"running", "backoff"} => failures < RetryLimit
  /\ drain # "running" => failures < RetryLimit \/ broken \/ drain = "rejected"

(* No event beyond the bound on a log. *)
WithinBounds ==
  /\ \A r \in rows : r.seq < MaxEvents
  /\ \A i \in DOMAIN queue : queue[i].seq < MaxEvents
  /\ \A s \in Sessions : Len(log[s]) <= MaxEvents

(* What holds whatever the events of the logs are. *)
Shape == TypeOK /\ NoLostWakeup /\ FlagsAgree /\ WithinBounds

(* Where every event is, and what was left of the sessions that ended.     *)
Account ==
  /\ Numbered
  /\ Accounted
  /\ RowsRegistered
  /\ CutSkipped
  /\ UnbornClean
  /\ DeletedClean

IInv == Shape /\ Account

=============================================================================
