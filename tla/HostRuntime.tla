---------------------------- MODULE HostRuntime -----------------------------
(***************************************************************************)
(* The life of a process, src/host/runtime.ts: the marker is taken, the    *)
(* database is opened, and shutdown runs the exit sequence.  Its closers   *)
(* run one after the other under one deadline; one that is given up goes   *)
(* on in the background, and what it writes comes when it comes.           *)
(*                                                                         *)
(* Every closer makes one write at its end, so does the shutdown hook.     *)
(***************************************************************************)
EXTENDS ActiveMarker, FiniteSets

CONSTANTS Closers,    \* registered closers: 1..Closers, drained in this order
          Quitters    \* the processes that are asked to exit

ASSUME ExitAssumption == Closers \in Nat /\ Quitters \subseteq Processes

VARIABLES opened,   \* processes whose database was opened
          exit      \* what the exit sequence of each process works on, see Exits

vars == <<markerVars, opened, exit>>

Hook == 0
Exiting == {"closers", "flush", "hooks", "release", "clear", "close", "closed"}

(* closer: how far each closer is, "late" when it was given up and goes    *)
(* on.  expired: closersMs are over.  queued: the writes in the            *)
(* write-behind queue, by who made them.  broken: that queue gave up.      *)
(* failure: shutdownFlushFailure.                                          *)
Exits == [closer : [1..Closers -> {"waiting", "running", "late", "done"}],
          expired : BOOLEAN, queued : SUBSET (0..Closers), broken : BOOLEAN, failure : BOOLEAN]

NoExit == [closer |-> [c \in 1..Closers |-> "waiting"], expired |-> FALSE, queued |-> {},
           broken |-> FALSE, failure |-> FALSE]

TypeOK ==
  /\ MarkerTypeOK
  /\ at \in [Processes -> Outside \cup Acquiring \cup {"open", "up"} \cup Exiting]
  /\ opened \subseteq Processes
  /\ exit \in [Processes -> Exits]

Init ==
  /\ MarkerInit
  /\ opened = {}
  /\ exit = [p \in Processes |-> NoExit]

Step(p, from, to) == Runs(p) /\ at[p] = from /\ Pass(p, to) /\ UNCHANGED marker

-----------------------------------------------------------------------------
(* Start: the marker, then the database; without it the marker is released.*)
Acquires(p) == (Start(p) \/ Acquire(p)) /\ UNCHANGED <<opened, exit>>

Open(p) ==
  /\ Step(p, "open", "up")
  /\ opened' = opened \cup {p}
  /\ UNCHANGED exit

(* Mutated form of OpenFails: the marker stays. *)
OpenFailsKeeps(p) == Step(p, "open", "refused") /\ UNCHANGED <<opened, exit>>

OpenFails(p) == Step(p, "open", "release") /\ UNCHANGED <<opened, exit>>

AfterRelease(p) == IF p \in opened THEN "close" ELSE "refused"

Releases(p) ==
  /\ Compare(p, AfterRelease(p)) \/ Clear(p, AfterRelease(p))
  /\ UNCHANGED <<opened, exit>>

Crash(p) ==
  /\ Lives(p) /\ Pass(p, "dead")
  /\ opened' = opened \ {p}
  /\ exit' = [exit EXCEPT ![p] = NoExit]
  /\ UNCHANGED marker

-----------------------------------------------------------------------------
(* Exit. *)
Shutdown(p) ==
  p \in Quitters /\ Step(p, "up", "closers") /\ UNCHANGED <<opened, exit>>

State(p, c) == exit[p].closer[c]
SomeRuns(p) == \E c \in 1..Closers : State(p, c) = "running"
NoneWaits(p) == \A c \in 1..Closers : State(p, c) # "waiting"

(* The next closer starts when the one before it is settled. *)
RunCloser(p, c) ==
  /\ at[p] = "closers" /\ ~exit[p].expired /\ ~SomeRuns(p)
  /\ State(p, c) = "waiting" /\ \A d \in 1..(c - 1) : State(p, d) # "waiting"
  /\ exit' = [exit EXCEPT ![p].closer[c] = "running"]
  /\ UNCHANGED <<markerVars, opened>>

(* The append of writer w: accepted into the queue, refused by a broken    *)
(* chain, noted as a late failure once the database is closed.             *)
Appended(p, x, w) ==
  IF at[p] = "closed" THEN [x EXCEPT !.failure = TRUE]
  ELSE IF x.broken THEN x
  ELSE [x EXCEPT !.queued = @ \cup {w}]

CloserEnds(p, c) ==
  /\ Lives(p) /\ State(p, c) \in {"running", "late"}
  /\ exit' = [exit EXCEPT ![p] = Appended(p, [@ EXCEPT !.closer[c] = "done"], c)]
  /\ UNCHANGED <<markerVars, opened>>

(* Mutated form of Expire: the closers are waited for without a deadline. *)
ExpireNever(p) == p \notin Processes /\ UNCHANGED vars

(* The deadline: the running closer is no longer waited for. *)
Expire(p) ==
  /\ at[p] = "closers" /\ ~exit[p].expired
  /\ exit' = [exit EXCEPT ![p].expired = TRUE,
                          ![p].closer = [c \in 1..Closers |->
                                           IF @[c] = "running" THEN "late" ELSE @[c]]]
  /\ UNCHANGED <<markerVars, opened>>

(* Those that did not start by the deadline are skipped. *)
Drained(p) ==
  /\ ~SomeRuns(p) /\ (exit[p].expired \/ NoneWaits(p))
  /\ Step(p, "closers", "flush")
  /\ UNCHANGED <<opened, exit>>

(* The write-behind queue gives up at any time it has something to write.  *)
ChainBreaks(p) ==
  /\ Lives(p) /\ at[p] # "closed" /\ ~exit[p].broken /\ exit[p].queued # {}
  /\ exit' = [exit EXCEPT ![p].broken = TRUE]
  /\ UNCHANGED <<markerVars, opened>>

(* flush waits until the queue is written; on a broken chain it throws,    *)
(* which is noted and does not stop the exit.                              *)
Flushed(x) == IF x.broken THEN [x EXCEPT !.failure = TRUE] ELSE [x EXCEPT !.queued = {}]

Flush(p) ==
  /\ Step(p, "flush", "hooks")
  /\ exit' = [exit EXCEPT ![p] = Flushed(@)]
  /\ UNCHANGED opened

(* The shutdown hooks, each in its own two seconds, then the disposers.    *)
Hooks(p) ==
  /\ Step(p, "hooks", "release")
  /\ exit' = [exit EXCEPT ![p] = Appended(p, @, Hook)] \/ UNCHANGED exit
  /\ UNCHANGED opened

(* Mutated form of Close: the database is closed as it is. *)
CloseWithoutFlush(p) == Step(p, "close", "closed") /\ UNCHANGED <<opened, exit>>

(* Persistence.close: the last flush, then the database is closed. *)
Close(p) ==
  /\ Step(p, "close", "closed")
  /\ exit' = [exit EXCEPT ![p] = Flushed(@)]
  /\ UNCHANGED opened

Leave(p) == Step(p, "closed", "gone") /\ UNCHANGED <<opened, exit>>

ExitStep(p) ==
  \/ Expire(p) \/ Drained(p) \/ Flush(p) \/ Hooks(p) \/ Releases(p) \/ Close(p) \/ Leave(p)

Next ==
  \E p \in Processes :
    \/ Acquires(p) \/ Open(p) \/ OpenFails(p) \/ Shutdown(p) \/ Crash(p)
    \/ \E c \in 1..Closers : RunCloser(p, c) \/ CloserEnds(p, c)
    \/ ChainBreaks(p) \/ ExitStep(p)

Spec == Init /\ [][Next]_vars

(* A process is scheduled and its timers fire.  Nothing is assumed of the  *)
(* closers, nor that another process goes on.                              *)
FairSpec == Spec /\ \A p \in Processes : WF_vars(Acquires(p) \/ ExitStep(p))

-----------------------------------------------------------------------------
Holds(p) == at[p] \in {"open", "up"} \cup (Exiting \ {"close", "closed"})

(* At most one process is between the end of its acquisition and the       *)
(* release of the marker, whoever crashes where (single-instance.ts:4).    *)
OneHolder == \A p, q \in Processes : Holds(p) /\ Holds(q) => p = q

(* A start that ends without the directory leaves no marker of its own: a  *)
(* process that is refused, or cannot open its database, never shuts the   *)
(* next one out.                                                           *)
NoMarkerLeft == \A p \in Processes : at[p] \in {"refused", "gone"} => marker.by # p

(* Every write of a closer or a hook that was accepted before the close is *)
(* in the database when the process leaves, or the exit code says that     *)
(* writes were lost; closers that were given up included.                  *)
ExitIsHonest ==
  \A p \in Processes : at[p] = "gone" => exit[p].queued = {} \/ exit[p].failure

(* The exit ends although closers may never do. *)
ExitEnds == \A p \in Processes : (at[p] = "closers") ~> (at[p] \in {"gone", "dead"})

=============================================================================
