---------------------------- MODULE WriteBehind ----------------------------
(***************************************************************************)
(* The process-wide write queue of src/persist/write-behind.ts: append     *)
(* pushes an event in memory and one background drain writes the queue to  *)
(* the store, batch by batch.                                              *)
(*                                                                         *)
(* Granularity.  JavaScript runs one piece of synchronous code at a time:  *)
(* a public method is one action, and while the drain runs between two of  *)
(* its suspension points (drain = "running") no other method of this       *)
(* process can run.  The drain suspends only in the backoff sleep; its     *)
(* completion handlers and the microtask that starts it are actions of     *)
(* their own.  Another process may delete a session at any moment.         *)
(***************************************************************************)
EXTENDS Store

CONSTANTS BatchSize,   \* maxBatchSize: events per transaction
          RetryLimit   \* retryLimit: consecutive failures that break the queue

ASSUME QueueAssumption == BatchSize \in Nat \ {0} /\ RetryLimit \in Nat \ {0}

VARIABLES log,        \* the in-memory SessionLog of each session
          queue,      \* events waiting to be written, oldest first
          scheduled,  \* drainScheduled: a microtask will start the drain
          drain,      \* the drain task, see DrainStates
          rowMode,    \* write one event per transaction to find the bad one
          failures,   \* consecutiveFailures
          broken,     \* the retries are exhausted, nothing is written any more
          closed,     \* WriteBehind.close was called
          severed,    \* sessions cut off after a poisonous event
          dropped,    \* sessions deleted here or found deleted by another process
          late        \* onLateWriteFailure fired: an event came after close

queueVars == <<log, queue, scheduled, drain, rowMode, failures, broken, closed,
               severed, dropped, late>>
wbVars == <<storeVars, queueVars>>

(* "idle": drainTask is null.  "running": drain() holds the event loop.    *)
(* "backoff": it sleeps after a failure.  "settled" / "rejected": it       *)
(* returned / threw and the handlers on its promise have not run yet.      *)
DrainStates == {"idle", "running", "backoff", "settled", "rejected"}

QueueTypeOK ==
  /\ log \in [Sessions -> Seq(Event)]
  /\ queue \in Seq(Event)
  /\ scheduled \in BOOLEAN
  /\ drain \in DrainStates
  /\ rowMode \in BOOLEAN
  /\ failures \in 0..RetryLimit
  /\ broken \in BOOLEAN
  /\ closed \in BOOLEAN
  /\ severed \subseteq Sessions
  /\ dropped \subseteq Sessions
  /\ late \in BOOLEAN

QueueInit ==
  /\ log = [s \in Sessions |-> <<>>]
  /\ queue = <<>>
  /\ scheduled = FALSE
  /\ drain = "idle"
  /\ rowMode = FALSE
  /\ failures = 0
  /\ broken = FALSE
  /\ closed = FALSE
  /\ severed = {}
  /\ dropped = {}
  /\ late = FALSE

-----------------------------------------------------------------------------
(* Queue helpers. *)

(* The event loop is free: a method of this process may run. *)
LoopFree == drain # "running"

(* Sessions whose durability has ended in this process. *)
Cut == severed \cup dropped

PositionsOf(q, s) == {i \in DOMAIN q : q[i].sid = s}
PositionsNotOf(q, s) == {i \in DOMAIN q : q[i].sid # s}

(* The increasing enumerations of a finite set of positions (one, in fact).*)
Picks(P) ==
  {f \in [1..Cardinality(P) -> P] :
     /\ \A i, j \in DOMAIN f : i < j => f[i] < f[j]
     /\ \A p \in P : \E i \in DOMAIN f : f[i] = p}

Pick(q, f) == [k \in DOMAIN f |-> q[f[k]]]

(* The queued events of session s, and those of the others, in order: each *)
(* a set of one sequence.                                                  *)
Mine(s) == {Pick(queue, f) : f \in Picks(PositionsOf(queue, s))}
Others(s) == {Pick(queue, f) : f \in Picks(PositionsNotOf(queue, s))}

BatchLen == IF Len(queue) < BatchSize THEN Len(queue) ELSE BatchSize
Batch == SubSeq(queue, 1, BatchLen)
AfterBatch == SubSeq(queue, BatchLen + 1, Len(queue))

(* scheduleDrain: a no-op when scheduled, in flight or broken. *)
ScheduleDrain == scheduled' = (scheduled \/ (drain = "idle" /\ ~broken))

-----------------------------------------------------------------------------
(* enqueue, called by SessionLog.append after the event is in the log.     *)

Appended(s, p, i) == [sid |-> s, seq |-> Len(log[s]), poison |-> p, inc |-> i]

AppendToLog(s, e) == log' = [log EXCEPT ![s] = Append(@, e)]

(* The event is queued. *)
Enqueue(s, p, i) ==
  /\ LoopFree
  /\ s \notin Cut /\ ~closed /\ ~broken
  /\ AppendToLog(s, Appended(s, p, i))
  /\ queue' = Append(queue, Appended(s, p, i))
  /\ ScheduleDrain
  /\ UNCHANGED <<storeVars, drain, rowMode, failures, broken, closed, severed,
                 dropped, late>>

(* The event is not queued: silently for a severed or dropped session, as  *)
(* a late failure after close, with an exception on a broken queue. It     *)
(* stays in the in-memory log in every case.                               *)
EnqueueRefused(s, p, i) ==
  /\ LoopFree
  /\ s \in Cut \/ closed \/ broken
  /\ AppendToLog(s, Appended(s, p, i))
  /\ late' = (late \/ (s \notin Cut /\ closed))
  /\ UNCHANGED <<storeVars, queue, scheduled, drain, rowMode, failures, broken,
                 closed, severed, dropped>>

-----------------------------------------------------------------------------
(* The drain.                                                              *)

(* The microtask of scheduleDrain: starts the drain unless there is        *)
(* nothing to do.                                                          *)
StartDrain ==
  /\ LoopFree /\ scheduled
  /\ scheduled' = FALSE
  /\ drain' = IF broken \/ queue = <<>> THEN drain ELSE "running"
  /\ UNCHANGED <<storeVars, log, queue, rowMode, failures, broken, closed,
                 severed, dropped, late>>

(* The queue is empty: the cycle ends and batch mode is restored. *)
DrainEmpty ==
  /\ drain = "running" /\ queue = <<>>
  /\ drain' = "settled"
  /\ rowMode' = FALSE /\ failures' = 0
  /\ UNCHANGED <<storeVars, log, queue, scheduled, broken, closed, severed,
                 dropped, late>>

(* The store was closed while the drain slept: what is left is given up. *)
DrainAbandon ==
  /\ drain = "running" /\ queue # <<>> /\ closed
  /\ queue' = <<>> /\ late' = TRUE
  /\ drain' = "settled"
  /\ rowMode' = FALSE /\ failures' = 0
  /\ UNCHANGED <<storeVars, log, scheduled, broken, closed, severed, dropped>>

(* Mutated forms of FailOrBackoff: the failures are not counted; one retry *)
(* too many.                                                               *)
NeverGiveUp == failures' = failures /\ drain' = "backoff"

RetryOnceMore ==
  /\ failures' = failures + 1
  /\ drain' = IF failures + 1 > RetryLimit THEN "rejected" ELSE "backoff"

(* failOrBackoff: give up after RetryLimit failures in a row, else sleep. *)
FailOrBackoff ==
  /\ failures' = failures + 1
  /\ drain' = IF failures + 1 >= RetryLimit THEN "rejected" ELSE "backoff"

BatchTurn == drain = "running" /\ queue # <<>> /\ ~closed /\ ~rowMode

BatchCommit ==
  /\ BatchTurn /\ WriteFault(Batch) = "none"
  /\ CommitWrites(Batch)
  /\ queue' = AfterBatch
  /\ failures' = 0
  /\ UNCHANGED <<log, scheduled, drain, rowMode, broken, closed, severed,
                 dropped, late>>

(* Mutated form of BatchDiagnose: the head of the batch is blamed without  *)
(* looking.                                                                *)
BlameBatchHead ==
  /\ BatchTurn /\ WriteFault(Batch) \in {"absent", "constraint"}
  /\ AbortWrites(Batch, FirstFault(Batch))
  /\ severed' = severed \cup {Head(queue).sid}
  /\ queue' = Tail(queue)
  /\ rowMode' = TRUE
  /\ UNCHANGED <<log, scheduled, drain, failures, broken, closed, dropped, late>>

(* A poisonous event or one of a deleted session is in the batch: the      *)
(* batch goes back to the head of the queue and is written row by row.     *)
BatchDiagnose ==
  /\ BatchTurn /\ WriteFault(Batch) \in {"absent", "constraint"}
  /\ AbortWrites(Batch, FirstFault(Batch))
  /\ rowMode' = TRUE
  /\ UNCHANGED <<log, queue, scheduled, drain, failures, broken, closed,
                 severed, dropped, late>>

(* The events of batch b a transaction looks at before it fails: SQLite    *)
(* may fail anywhere up to the commit, the continuity check at one event.  *)
FailPoints(b) ==
  CASE WriteFault(b) = "none" -> 0..Len(b)
    [] WriteFault(b) = "corrupt" -> 0..FirstFault(b)
    [] OTHER -> 0..(FirstFault(b) - 1)

(* Mutated form of BatchFail: the batch does not go back. *)
LoseFailedBatch ==
  /\ BatchTurn
  /\ \E k \in FailPoints(Batch) : AbortWrites(Batch, k)
  /\ FailOrBackoff
  /\ queue' = AfterBatch
  /\ UNCHANGED <<log, scheduled, rowMode, broken, closed, severed, dropped, late>>

(* SQLite fails or the continuity check does: the batch goes back to the   *)
(* head of the queue and the drain backs off.                              *)
BatchFail ==
  /\ BatchTurn
  /\ \E k \in FailPoints(Batch) : AbortWrites(Batch, k)
  /\ FailOrBackoff
  /\ UNCHANGED <<log, queue, scheduled, rowMode, broken, closed, severed,
                 dropped, late>>

RowTurn == drain = "running" /\ queue # <<>> /\ ~closed /\ rowMode

RowSkip ==
  /\ RowTurn /\ Head(queue).sid \in Cut
  /\ queue' = Tail(queue)
  /\ UNCHANGED <<storeVars, log, scheduled, drain, rowMode, failures, broken,
                 closed, severed, dropped, late>>

RowCommit ==
  /\ RowTurn /\ Head(queue).sid \notin Cut
  /\ WriteFault(<<Head(queue)>>) = "none"
  /\ CommitWrites(<<Head(queue)>>)
  /\ queue' = Tail(queue)
  /\ failures' = 0
  /\ UNCHANGED <<log, scheduled, drain, rowMode, broken, closed, severed,
                 dropped, late>>

(* Another process deleted the session: its events are dropped from now on.*)
RowAbsent ==
  /\ RowTurn /\ Head(queue).sid \notin Cut
  /\ WriteFault(<<Head(queue)>>) = "absent"
  /\ AbortWrites(<<Head(queue)>>, 1)
  /\ dropped' = dropped \cup {Head(queue).sid}
  /\ queue' = Tail(queue)
  /\ UNCHANGED <<log, scheduled, drain, rowMode, failures, broken, closed,
                 severed, late>>

(* isolatePoison: the session is cut off, its cursor steps over the event. *)
RowPoison ==
  /\ RowTurn /\ Head(queue).sid \notin Cut
  /\ WriteFault(<<Head(queue)>>) = "constraint"
  /\ severed' = severed \cup {Head(queue).sid}
  /\ AccountDropped(Head(queue))
  /\ queue' = Tail(queue)
  /\ UNCHANGED <<log, scheduled, drain, rowMode, failures, broken, closed,
                 dropped, late>>

RowFail ==
  /\ RowTurn /\ Head(queue).sid \notin Cut
  /\ \E k \in FailPoints(<<Head(queue)>>) : AbortWrites(<<Head(queue)>>, k)
  /\ FailOrBackoff
  /\ UNCHANGED <<log, queue, scheduled, rowMode, broken, closed, severed,
                 dropped, late>>

(* The backoff timer fires. *)
WakeDrain ==
  /\ drain = "backoff"
  /\ drain' = "running"
  /\ UNCHANGED <<storeVars, log, queue, scheduled, rowMode, failures, broken,
                 closed, severed, dropped, late>>

(* Mutated form of FinishDrain: no new drain for what was queued meanwhile.*)
FinishWithoutRearm ==
  /\ drain = "settled"
  /\ drain' = "idle"
  /\ UNCHANGED <<storeVars, log, queue, scheduled, rowMode, failures, broken, closed,
                 severed, dropped, late>>

(* finally: the task is over; events queued since the drain saw the queue  *)
(* empty need a new one.                                                   *)
FinishDrain ==
  /\ drain = "settled"
  /\ drain' = "idle"
  /\ scheduled' = (scheduled \/ (~broken /\ queue # <<>>))
  /\ UNCHANGED <<storeVars, log, queue, rowMode, failures, broken, closed,
                 severed, dropped, late>>

(* catch and finally after the retries ran out. *)
BreakQueue ==
  /\ drain = "rejected"
  /\ broken' = TRUE
  /\ drain' = "idle"
  /\ UNCHANGED <<storeVars, log, queue, scheduled, rowMode, failures, closed,
                 severed, dropped, late>>

DrainStep ==
  \/ StartDrain \/ DrainEmpty \/ DrainAbandon
  \/ BatchCommit \/ BatchDiagnose \/ BatchFail
  \/ RowSkip \/ RowCommit \/ RowAbsent \/ RowPoison \/ RowFail
  \/ WakeDrain \/ FinishDrain \/ BreakQueue

-----------------------------------------------------------------------------
(* drainSessionNow: write the queued events of one session, in one         *)
(* transaction, before returning.  Nothing is done for a session that is   *)
(* cut off or has nothing queued.                                          *)

NothingToDrain(s) == s \in Cut \/ PositionsOf(queue, s) = {}

(* The write of s moves or caches the cursor of s only; when the session   *)
(* is being retired, retireCursor forgets it right after.                  *)
CursorBecomes(s, c, retiring) ==
  cursor' = [cursor EXCEPT ![s] = IF retiring THEN NoCursor ELSE c]

DrainNowSkip(s, retiring) ==
  /\ NothingToDrain(s)
  /\ CursorBecomes(s, cursor[s], retiring)
  /\ UNCHANGED <<rows, present, lastSeq, queue, dropped>>

DrainNowCommit(s, retiring) ==
  /\ ~NothingToDrain(s)
  /\ \E b \in Mine(s) :
       /\ WriteFault(b) = "none"
       /\ CommitTables(b)
       /\ CursorBecomes(s, TopSeq(b, s), retiring)
  /\ queue' \in Others(s)
  /\ UNCHANGED dropped

(* Another process deleted the session: as RowAbsent. *)
DrainNowAbsent(s, retiring) ==
  /\ ~NothingToDrain(s)
  /\ \E b \in Mine(s) : WriteFault(b) = "absent"
  /\ CursorBecomes(s, CursorFor(s), retiring)
  /\ dropped' = dropped \cup {s}
  /\ queue' \in Others(s)
  /\ UNCHANGED <<rows, present, lastSeq>>

(* drainSessionNow returns. *)
DrainNowReturns(s, retiring) ==
  /\ ~broken
  /\ \/ DrainNowSkip(s, retiring)
     \/ DrainNowCommit(s, retiring)
     \/ DrainNowAbsent(s, retiring)

(* It throws: the queue is broken, or the write failed and every event was *)
(* put back where it was.  At most the cursor of s was cached.             *)
DrainNowThrows(s) ==
  /\ \/ broken /\ UNCHANGED cursor
     \/ ~broken /\ ~NothingToDrain(s)
        /\ cursor' \in {cursor, [cursor EXCEPT ![s] = CursorFor(s)]}
  /\ UNCHANGED <<rows, present, lastSeq, queue, dropped>>

(* drainSessionNow on its own, as the checkpoint plugin calls it. *)
DrainSessionNow(s) ==
  /\ LoopFree
  /\ DrainNowReturns(s, FALSE) \/ DrainNowThrows(s)
  /\ UNCHANGED <<log, scheduled, drain, rowMode, failures, broken, closed,
                 severed, late>>

(* Mutated form of DropSession: what is queued stays queued. *)
DropWithoutFiltering(s) ==
  /\ dropped' = dropped \cup {s}
  /\ UNCHANGED queue

(* dropSession: the session was deleted here; nothing of it is kept. *)
DropSession(s) ==
  /\ dropped' = dropped \cup {s}
  /\ queue' \in Others(s)

(* flush schedules the drain and waits until FlushDone holds when its      *)
(* microtask or the drain's promise wakes it up; it throws once broken.    *)
FlushDone == drain = "idle" /\ queue = <<>> /\ ~scheduled

=============================================================================
