---------------------------- MODULE Persistence ----------------------------
(***************************************************************************)
(* The persistence facade of src/persist/persistence.ts, driven by the     *)
(* session manager (src/conversation/sessions.ts) and the retirement       *)
(* cleanup of the host (src/host/conversation-stack.ts): sessions are      *)
(* created, appended to, retired, opened again, renamed and deleted while  *)
(* the write queue drains, another process deletes sessions of the same    *)
(* database, and the process closes or is killed.                          *)
(*                                                                         *)
(* One SessionLog per session appends at a time: once a session has been   *)
(* loaded again the old object stays silent.  This is the single-appender  *)
(* law the callers keep (a live log first, then the held one, then a fresh *)
(* load); log[s] is the object that may append.                            *)
(***************************************************************************)
EXTENDS WriteBehind

CONSTANTS MaxEvents,   \* bound: events per session
          MaxLoads,    \* bound: attachments of one session
          MaxCrashes,  \* bound: process deaths
          MaxGone,     \* bound: sessions another process deletes
          MaxDeleting, \* bound: deleteSession calls in flight
          Poisons      \* {FALSE, TRUE}, or {FALSE} when no event is poisonous

ASSUME BoundsAssumption ==
  /\ MaxEvents \in Nat /\ MaxLoads \in Nat /\ MaxCrashes \in Nat
  /\ MaxGone \in Nat /\ MaxDeleting \in Nat
  /\ Poisons \subseteq BOOLEAN

VARIABLES att,            \* what this process holds of a session, see AttStates
          registrations,  \* Persistence.registrations: ids that may be renamed
          inc,            \* how often the session was loaded
          deleting,       \* deleteSession calls in flight, see FlushStates
          closing,        \* Persistence.close, see FlushStates
          gone,           \* history: sessions another process deleted
          crashes         \* history: process deaths

hostVars == <<att, registrations, inc, deleting, closing, gone, crashes>>
vars == <<storeVars, queueVars, hostVars>>

(* "unborn": the id was not given out yet.  "live": open in the manager.   *)
(* "tail": retired or deleted, late code still holds the log.              *)
(* "unloaded": this process holds nothing of it.                           *)
AttStates == {"unborn", "live", "tail", "unloaded"}

(* A call that flushes first: it waits in flush(), its flush returned but  *)
(* its continuation did not run yet, or (close only) it is over.           *)
FlushStates == {"no", "flushing", "flushed", "done"}

HostTypeOK ==
  /\ att \in [Sessions -> AttStates]
  /\ registrations \subseteq Sessions
  /\ inc \in [Sessions -> Nat]
  /\ deleting \in [Sessions -> FlushStates]
  /\ closing \in FlushStates
  /\ gone \subseteq Sessions
  /\ crashes \in Nat

Init ==
  /\ StoreInit
  /\ QueueInit
  /\ att = [s \in Sessions |-> "unborn"]
  /\ registrations = {}
  /\ inc = [s \in Sessions |-> 0]
  /\ deleting = [s \in Sessions |-> "no"]
  /\ closing = "no"
  /\ gone = {}
  /\ crashes = 0

-----------------------------------------------------------------------------
(* The facade can be called: nothing else runs and it is not closed. *)
Callable == LoopFree /\ ~closed

drainVars == <<scheduled, drain, rowMode, failures, broken, closed>>

(* createSession: a fresh id, no write. *)
CreateSession(s) ==
  /\ Callable /\ att[s] = "unborn"
  /\ att' = [att EXCEPT ![s] = "live"]
  /\ registrations' = registrations \cup {s}
  /\ UNCHANGED <<storeVars, queueVars, inc, deleting, closing, gone, crashes>>

Seed(s, n) == [k \in 1..n |-> [sid |-> s, seq |-> k - 1, poison |-> FALSE, inc |-> 0]]

(* createSeededSession: the n seed events are written before the id is     *)
(* given out; an empty seed still registers the row.                       *)
CreateSeededSession(s, n) ==
  /\ Callable /\ att[s] = "unborn"
  /\ IF n = 0 THEN RegisterSessionRow(s)
     ELSE WriteFault(Seed(s, n)) = "none" /\ CommitWrites(Seed(s, n))
  /\ log' = [log EXCEPT ![s] = Seed(s, n)]
  /\ att' = [att EXCEPT ![s] = "live"]
  /\ registrations' = registrations \cup {s}
  /\ UNCHANGED <<queue, drainVars, severed, dropped, late, inc, deleting, closing,
                 gone, crashes>>

(* renameSession for a session without a row: stageSessionTitle registers  *)
(* the row.                                                                *)
StageSessionTitle(s) ==
  /\ Callable /\ s \in registrations /\ s \notin present
  /\ RegisterSessionRow(s)
  /\ UNCHANGED <<queueVars, hostVars>>

(* SessionLog.append of an attached log, also after retirement or close. *)
AppendEvent(s, p) ==
  /\ att[s] \in {"live", "tail"} /\ Len(log[s]) < MaxEvents
  /\ Enqueue(s, p, inc[s]) \/ EnqueueRefused(s, p, inc[s])
  /\ UNCHANGED hostVars

-----------------------------------------------------------------------------
(* The cleanup of a retired session: drainSessionNow, then retireEntries;  *)
(* when the drain throws the rest is skipped.                              *)
RetireEntries(s) ==
  \/ /\ DrainNowReturns(s, TRUE)
     /\ registrations' = registrations \ {s}
  \/ /\ DrainNowThrows(s)
     /\ UNCHANGED registrations

(* SessionManager.retire of an open session. *)
Retire(s) ==
  /\ Callable /\ att[s] = "live"
  /\ RetireEntries(s)
  /\ att' = [att EXCEPT ![s] = "tail"]
  /\ UNCHANGED <<log, drainVars, severed, late, inc, deleting, closing, gone, crashes>>

(* Mutated form of LoadSession: no read barrier. *)
LoadWithoutBarrier(s) ==
  /\ Callable /\ att[s] \in {"tail", "unloaded"} /\ inc[s] < MaxLoads
  /\ s \in present /\ Intact(s)
  /\ log' = [log EXCEPT ![s] = Stored(s)]
  /\ att' = [att EXCEPT ![s] = "live"]
  /\ registrations' = registrations \cup {s}
  /\ inc' = [inc EXCEPT ![s] = @ + 1]
  /\ UNCHANGED <<storeVars, queue, drainVars, severed, dropped, late, deleting,
                 closing, gone, crashes>>

(* loadSession: the read barrier first.  If the barrier returns and the    *)
(* row is there, the log is built from the stored events.                  *)
LoadSession(s) ==
  /\ Callable /\ att[s] \in {"tail", "unloaded"} /\ inc[s] < MaxLoads
  /\ DrainNowReturns(s, FALSE)
  /\ s \in present' /\ Intact(s)'
  /\ log' = [log EXCEPT ![s] = Stored(s)']
  /\ att' = [att EXCEPT ![s] = "live"]
  /\ registrations' = registrations \cup {s}
  /\ inc' = [inc EXCEPT ![s] = @ + 1]
  /\ UNCHANGED <<drainVars, severed, late, deleting, closing, gone, crashes>>

(* loadSession throws: the barrier threw, or the session has no row. *)
LoadFails(s) ==
  /\ Callable /\ att[s] \in {"tail", "unloaded"}
  /\ \/ DrainNowReturns(s, FALSE) /\ ~(s \in present' /\ Intact(s)')
     \/ DrainNowThrows(s)
  /\ UNCHANGED <<log, drainVars, severed, late, hostVars>>

(* drainSessionNow as the checkpoint barrier. *)
CheckpointBarrier(s) ==
  /\ Callable /\ att[s] = "live"
  /\ DrainSessionNow(s)
  /\ UNCHANGED hostVars

-----------------------------------------------------------------------------
(* SessionManager.deleteSession: retires an open session, then waits in    *)
(* flush, which schedules the drain or throws at once on a broken queue.   *)
StartDelete(s) ==
  /\ Callable /\ att[s] # "unborn" /\ deleting[s] = "no"
  /\ Cardinality({t \in Sessions : deleting[t] # "no"}) < MaxDeleting
  /\ IF att[s] = "live"
     THEN RetireEntries(s) /\ att' = [att EXCEPT ![s] = "tail"]
     ELSE UNCHANGED <<storeVars, queue, dropped, att, registrations>>
  /\ deleting' = [deleting EXCEPT ![s] = IF broken THEN "no" ELSE "flushing"]
  /\ ScheduleDrain
  /\ UNCHANGED <<log, drain, rowMode, failures, broken, closed, severed, late, inc,
                 closing, gone, crashes>>

(* The flush of a deletion returns, or throws on a broken queue. *)
DeleteFlushed(s) ==
  /\ LoopFree /\ deleting[s] = "flushing" /\ FlushDone
  /\ deleting' = [deleting EXCEPT ![s] = "flushed"]
  /\ UNCHANGED <<storeVars, queueVars, att, registrations, inc, closing, gone, crashes>>

DeleteFails(s) ==
  /\ LoopFree /\ deleting[s] = "flushing" /\ broken
  /\ deleting' = [deleting EXCEPT ![s] = "no"]
  /\ UNCHANGED <<storeVars, queueVars, att, registrations, inc, closing, gone, crashes>>

(* Mutated form of FinishDelete: the registration stays. *)
FinishDeleteKeepsRegistration(s) ==
  /\ LoopFree /\ deleting[s] = "flushed"
  /\ DropSession(s)
  /\ IF closed THEN UNCHANGED storeVars ELSE DeleteSessionRows(s)
  /\ deleting' = [deleting EXCEPT ![s] = "no"]
  /\ UNCHANGED <<log, drainVars, severed, late, att, registrations, inc, closing,
                 gone, crashes>>

(* The rest of Persistence.deleteSession: from here on events of s are     *)
(* dropped; the store refuses to delete once it was closed.                *)
FinishDelete(s) ==
  /\ LoopFree /\ deleting[s] = "flushed"
  /\ DropSession(s)
  /\ IF closed THEN UNCHANGED <<storeVars, registrations>>
     ELSE DeleteSessionRows(s) /\ registrations' = registrations \ {s}
  /\ deleting' = [deleting EXCEPT ![s] = "no"]
  /\ UNCHANGED <<log, drainVars, severed, late, att, inc, closing, gone, crashes>>

(* Persistence.close: flush, then whether it returned or threw the write   *)
(* queue and the store are closed.                                         *)
StartClose ==
  /\ Callable /\ closing = "no"
  /\ closing' = IF broken THEN "flushed" ELSE "flushing"
  /\ ScheduleDrain
  /\ UNCHANGED <<storeVars, log, queue, drain, rowMode, failures, broken, closed,
                 severed, dropped, late, att, registrations, inc, deleting, gone, crashes>>

(* Mutated form of CloseFlushed: a broken queue does not end the wait. *)
CloseIgnoresBroken ==
  /\ LoopFree /\ closing = "flushing" /\ FlushDone
  /\ closing' = "flushed"
  /\ UNCHANGED <<storeVars, queueVars, att, registrations, inc, deleting, gone, crashes>>

CloseFlushed ==
  /\ LoopFree /\ closing = "flushing" /\ (FlushDone \/ broken)
  /\ closing' = "flushed"
  /\ UNCHANGED <<storeVars, queueVars, att, registrations, inc, deleting, gone, crashes>>

FinishClose ==
  /\ LoopFree /\ closing = "flushed"
  /\ closing' = "done" /\ closed' = TRUE
  /\ UNCHANGED <<storeVars, log, queue, scheduled, drain, rowMode, failures, broken,
                 severed, dropped, late, att, registrations, inc, deleting, gone, crashes>>

-----------------------------------------------------------------------------
(* Another process deletes the session: the tables change, the memory of   *)
(* this process does not.                                                  *)
ForeignDelete(s) ==
  /\ s \in present /\ s \notin gone /\ Cardinality(gone) < MaxGone
  /\ DeleteTables(s)
  /\ gone' = gone \cup {s}
  /\ UNCHANGED <<cursor, queueVars, att, registrations, inc, deleting, closing, crashes>>

(* The process is killed and started again: the tables survive, and what a *)
(* session can still become is what is stored.                             *)
Crash ==
  /\ crashes < MaxCrashes
  /\ crashes' = crashes + 1
  /\ UNCHANGED <<rows, present, lastSeq, inc, gone>>
  /\ cursor' = [s \in Sessions |-> NoCursor]
  /\ log' = [s \in Sessions |-> Stored(s)]
  /\ queue' = <<>> /\ scheduled' = FALSE /\ drain' = "idle"
  /\ rowMode' = FALSE /\ failures' = 0 /\ broken' = FALSE /\ closed' = FALSE
  /\ severed' = {} /\ dropped' = {} /\ late' = FALSE
  /\ att' = [s \in Sessions |-> IF att[s] = "unborn" THEN "unborn" ELSE "unloaded"]
  /\ registrations' = {}
  /\ deleting' = [s \in Sessions |-> "no"]
  /\ closing' = "no"

-----------------------------------------------------------------------------
Drain == DrainStep /\ UNCHANGED hostVars

SessionStep(s) ==
  \/ CreateSession(s)
  \/ \E n \in 0..MaxEvents : CreateSeededSession(s, n)
  \/ StageSessionTitle(s)
  \/ \E p \in Poisons : AppendEvent(s, p)
  \/ Retire(s) \/ LoadSession(s) \/ LoadFails(s) \/ CheckpointBarrier(s)
  \/ StartDelete(s) \/ DeleteFlushed(s) \/ DeleteFails(s) \/ FinishDelete(s)
  \/ ForeignDelete(s)

Next ==
  \/ Drain
  \/ \E s \in Sessions : SessionStep(s)
  \/ StartClose \/ CloseFlushed \/ FinishClose
  \/ Crash

Spec == Init /\ [][Next]_vars

(* The event loop runs what is ready: microtasks, timers, continuations.   *)
(* A waiting flush looks at the queue in every round of microtasks and     *)
(* again when the drain task ends, so it does not miss forever a condition *)
(* that holds again and again (strong fairness).  Nothing makes a client   *)
(* call, another process or a crash happen.                                *)
Fairness ==
  /\ WF_vars(Drain)
  /\ SF_vars(CloseFlushed) /\ WF_vars(FinishClose)
  /\ \A s \in Sessions :
       SF_vars(DeleteFlushed(s)) /\ WF_vars(DeleteFails(s)) /\ WF_vars(FinishDelete(s))

FairSpec == Spec /\ Fairness

-----------------------------------------------------------------------------
(* Properties.                                                             *)

(* Every variable has its type. *)
TypeOK == StoreTypeOK /\ QueueTypeOK /\ HostTypeOK

(* This process still writes s, and nobody else deleted it. *)
Tracked(s) == s \notin Cut \cup gone

Queued(e) == \E i \in DOMAIN queue : queue[i] = e

(* An event that was appended is stored or still in the queue, unless its  *)
(* session was cut off or deleted or the user was told: the queue is       *)
(* broken (append throws, the process fails) or a late write was reported  *)
(* (enqueue, drain, drainSessionNow, loadSession).                         *)
NoSilentLoss ==
  \A s \in Sessions : Tracked(s) /\ ~broken /\ ~late =>
    \A k \in DOMAIN log[s] : log[s][k] \in rows \/ Queued(log[s][k])

(* What is stored of a session is a prefix of its log, with no hole and no *)
(* event of another attachment, and last_seq is the end of that prefix     *)
(* (writeTuple, loadEvents, the read barrier of loadSession).              *)
DurablePrefix ==
  \A s \in Sessions \ gone :
    {r \in rows : r.sid = s} = {log[s][k] : k \in {j \in DOMAIN log[s] : j <= lastSeq[s] + 1}}

(* The continuity check of writeTuple never fires, so no transaction       *)
(* exhausts the retries for a reason that a retry cannot cure, and no row  *)
(* is missing of a session nobody else deleted (write-behind.ts: the queue *)
(* order is the transaction order).  It speaks of queues that are still    *)
(* written.                                                                *)
OrderKept ==
  \A s \in Sessions : Tracked(s) /\ ~broken /\ ~late /\ PositionsOf(queue, s) # {} =>
    \A b \in Mine(s) : WriteFault(b) \notin {"corrupt", "absent"}

(* Nobody waits for a drain that does not come: events in the queue always *)
(* have a drain under way or scheduled, until the queue is broken          *)
(* (scheduleDrain, its finally handler, flush).                            *)
NoLostWakeup == queue # <<>> /\ ~broken => scheduled \/ drain # "idle"

(* A session deleted here has no rows and gets none from late writes, a    *)
(* rename or a reopening during the flush (dropSession, deleteSession).    *)
DeletedStaysDeleted ==
  \A s \in dropped \ gone : ~closed => s \notin present /\ RowSeqs(s) = {}

(* A session is cut off for its own poisonous event only, and dropped only *)
(* when it was deleted: a batch shared with it costs the others nothing    *)
(* (row mode, isolatePoison).                                              *)
OnlyCulpritsCut ==
  [][/\ \A s \in severed' \ severed :
          s \in gone \/ \E i \in DOMAIN queue : queue[i].sid = s /\ queue[i].poison
     /\ \A s \in dropped' \ dropped : s \in gone \/ deleting[s] = "flushed"]_vars

(* The persistence layer keeps the promises of DurableLog. *)
Durable == INSTANCE DurableLog WITH
  stored <- [s \in Sessions |-> Stored(s)], cut <- Cut

KeepsPromises == Durable!Spec

(* An event in the queue leaves it, unless the queue breaks: retries,      *)
(* backoff and row mode come to an end (drain, failOrBackoff).             *)
EventsSettle ==
  \A s \in Sessions : \A n \in 0..(MaxEvents - 1) :
    (\E i \in DOMAIN queue : queue[i].sid = s /\ queue[i].seq = n)
      ~> (broken \/ ~\E i \in DOMAIN queue : queue[i].sid = s /\ queue[i].seq = n)

(* A deletion and a close come back from their flush, also when the queue  *)
(* breaks under them or events keep arriving.                              *)
CallsReturn ==
  /\ \A s \in Sessions : (deleting[s] # "no") ~> (deleting[s] = "no")
  /\ (closing # "no") ~> (closing \in {"no", "done"})

(* What the row check of writeTuple is there to prevent (store.ts 879-889):*)
(* a deleted session whose events come back in the middle of its log.      *)
NoHole == \A s \in Sessions : Intact(s)

=============================================================================
