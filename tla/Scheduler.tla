----------------------------- MODULE Scheduler ------------------------------
(***************************************************************************)
(* One row of the jobs table and all who may run it: the engine of the     *)
(* host process (plugins/scheduler/engine.ts), the engine of an earlier    *)
(* generation that a reload has stopped, and processes that the system's   *)
(* cron starts (run --tick, host/run-entry.ts).  They meet in the columns  *)
(* active_pid and active_started_at, which are written with a condition.   *)
(*                                                                         *)
(* Granularity.  A host runs one piece of code up to its first await; the  *)
(* continuations that are ready come before the next timer or command      *)
(* (Calm).  Other processes come in between any two accesses to the row.   *)
(***************************************************************************)
EXTENDS Naturals, Sequences, FiniteSets

CONSTANTS Hosts, Ticks,   \* pids: host processes, run --tick processes
          Nobody,         \* the empty active_pid
          Fires, NoFire,  \* calls of fireRow that are under way
          MaxErrors       \* bound: accesses of the table that fail

ASSUME JobAssumption ==
  /\ Hosts \cap Ticks = {} /\ Nobody \notin Hosts \cup Ticks
  /\ Fires \subseteq Nat /\ NoFire \notin Fires /\ MaxErrors \in Nat

VARIABLES row,      \* by: active_pid, of: the fire that wrote it, old: it was written
                    \* longer ago than the wall timeout, due: next_fire_at has come
          alive,    \* the processes that exist
          ticking,  \* engines whose clock runs
          fire,     \* what is under way, see Records
          active,   \* the registry of an engine
          chain,    \* the calls that wait for the section of the name, its holder first
          errors,
          mistaken  \* history: an entry was taken for an earlier one of the same pid

vars == <<row, alive, ticking, fire, active, chain, errors, mistaken>>

Pids == Hosts \cup Ticks
(* An engine is a process and a generation; a tick process is its own.     *)
Engines == (Hosts \X {1, 2}) \cup (Ticks \X {1})
Pid(e) == e[1]
Other(e) == <<e[1], 3 - e[2]>>

(* look: about to read the row; claim: about to write itself into it, if   *)
(* it is as it was seen; clock: called by a clock, so that the gates are   *)
(* still before it; over: past the wall timeout.  seenOf is history: the   *)
(* code remembers the pid that it saw, not whose entry that was.           *)
Stages == {"none", "queued", "prev", "look", "claim", "spawning", "running", "ended"}
NoEngine == <<Nobody, 1>>
Records == [eng : Engines \cup {NoEngine}, at : Stages, clock : BOOLEAN,
            seen : Pids \cup {Nobody}, seenOf : Fires \cup {NoFire}, over : BOOLEAN]
Unused == [eng |-> NoEngine, at |-> "none", clock |-> FALSE, seen |-> Nobody,
           seenOf |-> NoFire, over |-> FALSE]

StateTypeOK ==
  /\ row \in [by : Pids \cup {Nobody}, of : Fires \cup {NoFire}, old : BOOLEAN, due : BOOLEAN]
  /\ alive \subseteq Pids /\ ticking \subseteq Engines
  /\ fire \in [Fires -> Records]
  /\ active \in [Engines -> Fires \cup {NoFire}]
  /\ \A e \in Engines : active[e] # NoFire => fire[active[e]].eng = e
  /\ chain \in [Engines -> Seq(Fires)]
  /\ errors \in 0..MaxErrors

TypeOK == StateTypeOK /\ mistaken \in BOOLEAN

Init ==
  /\ row = [by |-> Nobody, of |-> NoFire, old |-> FALSE, due |-> FALSE]
  /\ alive = {} /\ ticking = {}
  /\ fire = [f \in Fires |-> Unused]
  /\ active = [e \in Engines |-> NoFire]
  /\ chain = [e \in Engines |-> <<>>]
  /\ errors = 0 /\ mistaken = FALSE

At(f, stage) == fire[f].at = stage
Eng(f) == fire[f].eng
Own(f) == Pid(Eng(f))
FiresOf(e) == {f \in Fires : Eng(f) = e}
Working(f) == fire[f].at \in {"spawning", "running"}
Holder(e) == IF chain[e] = <<>> THEN NoFire ELSE Head(chain[e])

(* What of a process runs before its next timer, command or message. *)
Resumes(f) == At(f, "queued") /\ Holder(Eng(f)) = f
Ready(f) ==
  \/ fire[f].at \in {"look", "claim", "ended"} \/ Resumes(f)
  \/ At(f, "prev") /\ active[Eng(f)] = NoFire
Calm(p) == p \in alive /\ \A f \in Fires : Own(f) = p => ~Ready(f)

-----------------------------------------------------------------------------
(* The row. *)
Claimed(r, f) == [r EXCEPT !.by = Own(f), !.of = f, !.old = FALSE]

(* clearActiveIf: only who is written there is cleared.                    *)
Cleared(r, p) ==
  IF r.by = p THEN [r EXCEPT !.by = Nobody, !.of = NoFire, !.old = FALSE] ELSE r

(* settleFire, settleGated: next_fire_at moves on.                         *)
Advanced(r) == [r EXCEPT !.due = FALSE]

MayFail == errors < MaxErrors /\ errors' = errors + 1

(* Of clearing and writing one fails: the former goes on, the latter       *)
(* throws.                                                                 *)
ClearsHalf(f) == row' \in {Advanced(row), Cleared(row, Own(f))} /\ MayFail

(* The fire is over, and with it a tick process.                           *)
Leave(f) ==
  /\ fire' = [fire EXCEPT ![f] = Unused]
  /\ alive' = alive \ (Ticks \cap {Own(f)})
  /\ UNCHANGED ticking

(* The section is left to the next call.                                   *)
NextCall(f) == chain' = [chain EXCEPT ![Eng(f)] = Tail(@)]

-----------------------------------------------------------------------------
(* The section of the name: one fire at a time is between here and the     *)
(* registration of its instance.  An instance of this engine is told to    *)
(* end and waited for.                                                     *)
Section(e) == IF active[e] # NoFire THEN "prev" ELSE "look"

Stage(e) == IF chain[e] # <<>> THEN "queued" ELSE Section(e)

Free(f) == At(f, "none") /\ row.of # f /\ \A g \in Fires : fire[g].seenOf # f

Launch(e, clocked) ==
  \E f \in Fires :
    /\ Free(f) /\ \A g \in Fires : Free(g) => f <= g
    /\ fire' = [fire EXCEPT ![f] = [Unused EXCEPT !.eng = e, !.at = Stage(e), !.clock = clocked]]
    /\ chain' = [chain EXCEPT ![e] = Append(@, f)]

(* doSweep: a due row is launched unless this engine is at it.             *)
Sweep(e) ==
  /\ e \in ticking /\ Calm(Pid(e)) /\ row.due /\ FiresOf(e) = {}
  /\ Launch(e, TRUE)
  /\ UNCHANGED <<row, alive, ticking, active, errors, mistaken>>

(* fireNow for /tick run.                                                  *)
Manual(e) ==
  /\ e \in ticking /\ Calm(Pid(e)) /\ Launch(e, FALSE)
  /\ UNCHANGED <<row, alive, ticking, active, errors, mistaken>>

(* A pid that the row names, or that a claim under way has seen there, is  *)
(* not given to a new process.                                             *)
Remembered(p) == row.by = p \/ \E f \in Fires : fire[f].seen = p

(* cron starts a process.                                                  *)
TickStarts(t) ==
  /\ t \in Ticks \ alive /\ ~Remembered(t)
  /\ alive' = alive \cup {t}
  /\ Launch(<<t, 1>>, TRUE)
  /\ UNCHANGED <<row, ticking, active, errors, mistaken>>

Resume(f) ==
  /\ Resumes(f)
  /\ fire' = [fire EXCEPT ![f].at = Section(Eng(f))]
  /\ UNCHANGED <<row, alive, ticking, active, chain, errors, mistaken>>

(* prev.settled: the tail of the earlier instance was there first.  If it  *)
(* rejects, so does this call.                                             *)
PrevSettled(f) ==
  /\ At(f, "prev") /\ active[Eng(f)] = NoFire
  /\ UNCHANGED <<row, active, errors, mistaken>>
  /\ \/ fire' = [fire EXCEPT ![f].at = "look"] /\ UNCHANGED <<alive, ticking, chain>>
     \/ Leave(f) /\ NextCall(f)

-----------------------------------------------------------------------------
(* Mutated form of Occupied: the own pid is always one's own.              *)
OccupiedByOthers(f) == row.by \notin {Nobody, Own(f)} /\ row.by \in alive /\ ~row.old

(* Somebody else is at it: another process that lives, or an engine of     *)
(* this process that is not this one, and not for too long.                *)
Occupied(f) ==
  /\ row.by # Nobody /\ (row.by # Own(f) \/ active[Eng(f)] = NoFire)
  /\ row.by \in alive /\ ~row.old

Look(f) ==
  /\ At(f, "look") /\ ~Occupied(f)
  /\ fire' = [fire EXCEPT ![f].at = "claim", ![f].seen = row.by, ![f].seenOf = row.of, ![f].clock = FALSE]
  /\ UNCHANGED <<row, alive, ticking, active, chain, errors, mistaken>>

(* Gives way, or is stopped by a gate.                                     *)
Yield(f) ==
  /\ At(f, "look") /\ (Occupied(f) \/ fire[f].clock)
  /\ row' = Advanced(row) /\ Leave(f) /\ NextCall(f)
  /\ UNCHANGED <<active, errors, mistaken>>

(* clearActiveIf and claimActive compare pids.  So an instance that is     *)
(* told to end and does so late may clear an entry that its process wrote  *)
(* since for another, and a claim may write over an entry that the same    *)
(* process wrote after the look.                                           *)
ClearsLater(f) == fire[f].over /\ row.by = Own(f) /\ row.of # f
ClaimsLater(f) == row.by = fire[f].seen /\ row.of # fire[f].seenOf

(* claimActive writes only over what was seen.                             *)
Claim(f) ==
  /\ At(f, "claim") /\ mistaken' = (mistaken \/ ClaimsLater(f)) /\ UNCHANGED <<active, errors>>
  /\ \/ /\ row.by = fire[f].seen /\ row' = Claimed(row, f)
        /\ fire' = [fire EXCEPT ![f].at = "spawning", ![f].seen = Nobody, ![f].seenOf = NoFire]
        /\ UNCHANGED <<alive, ticking, chain>>
     \/ row.by # fire[f].seen /\ row' = Advanced(row) /\ Leave(f) /\ NextCall(f)

(* An access to the table throws: the call ends as it is.                  *)
Throws(f) ==
  /\ fire[f].at \in {"look", "claim"} /\ MayFail /\ Leave(f) /\ NextCall(f)
  /\ UNCHANGED <<row, active, mistaken>>

(* The runner has started it: it is registered, its entry in the row is    *)
(* written anew, and the section is left to the next call.                 *)
Spawned(f) ==
  /\ At(f, "spawning") /\ Calm(Own(f))
  /\ fire' = [fire EXCEPT ![f].at = "running"]
  /\ active' = [active EXCEPT ![Eng(f)] = f]
  /\ NextCall(f)
  /\ row' = IF row.by = Own(f) THEN Claimed(row, f) ELSE row
  /\ UNCHANGED <<alive, ticking, errors, mistaken>>

SpawnFails(f) ==
  /\ At(f, "spawning") /\ Calm(Own(f))
  /\ Leave(f) /\ NextCall(f) /\ UNCHANGED <<active, mistaken>>
  /\ \/ row' = Advanced(Cleared(row, Own(f))) /\ UNCHANGED errors
     \/ ClearsHalf(f)

-----------------------------------------------------------------------------
Aged(r, f) == IF r.of = f THEN [r EXCEPT !.old = TRUE] ELSE r

(* The wall timeout: the instance is told to end, which it does when it    *)
(* pleases.                                                                *)
WallTimeout(f) ==
  /\ At(f, "running") /\ ~fire[f].over /\ Calm(Own(f))
  /\ fire' = [fire EXCEPT ![f].over = TRUE]
  /\ row' = Aged(row, f)
  /\ UNCHANGED <<alive, ticking, active, chain, errors, mistaken>>

Settles(f) ==
  /\ At(f, "running") /\ Calm(Own(f))
  /\ fire' = [fire EXCEPT ![f].at = "ended"]
  /\ UNCHANGED <<row, alive, ticking, active, chain, errors, mistaken>>

(* Mutated forms of SettleFire: the registry keeps the instance; the next  *)
(* time is not written.                                                    *)
SettleRegistered(f) ==
  /\ At(f, "ended") /\ Leave(f) /\ mistaken' = (mistaken \/ ClearsLater(f)) /\ UNCHANGED chain
  /\ row' = Advanced(Cleared(row, Own(f))) /\ UNCHANGED <<active, errors>>

SettleWithoutNext(f) ==
  /\ At(f, "ended") /\ Leave(f) /\ mistaken' = (mistaken \/ ClearsLater(f)) /\ UNCHANGED chain
  /\ active' = [active EXCEPT ![Eng(f)] = NoFire]
  /\ row' = Cleared(row, Own(f)) /\ UNCHANGED errors

(* The tail of fireRow: out of the registry and of the row, then the       *)
(* result and the next time are written.  A tick process writes first.     *)
SettleFire(f) ==
  /\ At(f, "ended") /\ Leave(f) /\ mistaken' = (mistaken \/ ClearsLater(f)) /\ UNCHANGED chain
  /\ active' = [active EXCEPT ![Eng(f)] = NoFire]
  /\ \/ row' = Advanced(Cleared(row, Own(f))) /\ UNCHANGED errors
     \/ Own(f) \in Hosts /\ ClearsHalf(f)
     \/ Own(f) \in Ticks /\ row' \in {row, Advanced(row)} /\ MayFail

-----------------------------------------------------------------------------
(* start(): an entry of a dead process that is old is cleared, a time that *)
(* has passed is skipped.                                                  *)
Restarted(r, p) ==
  Advanced(IF r.by \notin alive \cup {p} /\ r.old THEN Cleared(r, r.by) ELSE r)

(* One host at a time (ActiveMarker).                                      *)
HostStarts(h) ==
  /\ alive \cap Hosts = {} /\ ~Remembered(h)
  /\ alive' = alive \cup {h} /\ ticking' = {<<h, 1>>}
  /\ row' = Restarted(row, h)
  /\ UNCHANGED <<fire, active, chain, errors, mistaken>>

(* Plugins are reloaded: the engine is stopped, what it runs goes on, and  *)
(* a new one starts.                                                       *)
Reload(e) ==
  /\ e \in ticking /\ Calm(Pid(e)) /\ FiresOf(Other(e)) = {}
  /\ ticking' = {Other(e)}
  /\ row' = Restarted(row, Pid(e))
  /\ UNCHANGED <<alive, fire, active, chain, errors, mistaken>>

Crash(p) ==
  /\ p \in alive /\ alive' = alive \ {p}
  /\ ticking' = {e \in ticking : Pid(e) # p}
  /\ fire' = [f \in Fires |-> IF Own(f) = p THEN Unused ELSE fire[f]]
  /\ active' = [e \in Engines |-> IF Pid(e) = p THEN NoFire ELSE active[e]]
  /\ chain' = [e \in Engines |-> IF Pid(e) = p THEN <<>> ELSE chain[e]]
  /\ UNCHANGED <<row, errors, mistaken>>

(* Time: the row becomes due; an entry nobody stands behind grows old.     *)
DueComes ==
  /\ ~row.due /\ row' = [row EXCEPT !.due = TRUE]
  /\ UNCHANGED <<alive, ticking, fire, active, chain, errors, mistaken>>

EntryAges ==
  /\ row.by # Nobody /\ ~row.old /\ \A f \in Fires : Working(f) => row.of # f
  /\ row' = [row EXCEPT !.old = TRUE]
  /\ UNCHANGED <<alive, ticking, fire, active, chain, errors, mistaken>>

FireStep(f) ==
  \/ Resume(f) \/ PrevSettled(f) \/ Look(f) \/ Yield(f) \/ Claim(f) \/ Throws(f)
  \/ Spawned(f) \/ SpawnFails(f) \/ WallTimeout(f) \/ Settles(f) \/ SettleFire(f)

Next ==
  \/ \E f \in Fires : FireStep(f)
  \/ \E e \in Engines : Sweep(e) \/ Manual(e) \/ Reload(e)
  \/ \E t \in Ticks : TickStarts(t)
  \/ \E h \in Hosts : HostStarts(h)
  \/ \E p \in Pids : Crash(p)
  \/ DueComes \/ EntryAges

Spec == Init /\ [][Next]_vars

(* The event loop of a host runs, its timers fire, and an instance that    *)
(* was told to end does.  Of tick processes nothing is assumed but that    *)
(* they do not stop for ever between a look at the row and the claim,      *)
(* which is one piece of synchronous code.                                 *)
HostStep(h) ==
  \/ \E e \in Engines : Pid(e) = h /\ Sweep(e)
  \/ \E f \in Fires : Own(f) = h /\ FireStep(f)

FairSpec ==
  Spec /\ (\A h \in Hosts : WF_vars(HostStep(h))) /\ (\A f \in Fires : SF_vars(Claim(f)))

-----------------------------------------------------------------------------
Timely(f) == Working(f) /\ ~fire[f].over

(* One engine never has two instances, however long they take (the section *)
(* of the name and the registry).  And the job does not run twice at a     *)
(* time, whoever starts it: engines of two generations, commands, cron,    *)
(* before and after crashes.  While it runs the row says so and names the  *)
(* right process: else the next one would take the job for idle.  Only an  *)
(* instance that did not end at its deadline may meet another, and the     *)
(* only way to more is a pid that stands for two entries (beginInstance,   *)
(* claimActive, clearActiveIf).                                            *)
OneTimelyRun ==
  /\ \A f, g \in Fires : Working(f) /\ Working(g) /\ Eng(f) = Eng(g) => f = g
  /\ ~mistaken => \A f \in Fires : Timely(f) =>
       row.by = Own(f) /\ \A g \in Fires : Timely(g) => g = f

(* Who clears its entry leaves that of another that is under way alone     *)
(* (the rule at clearActiveIf: who claimed clears the own account).  No    *)
(* run lists it: TLC finds it violated with one host and two calls, when   *)
(* an instance that overran ends after a reload, and its entry was taken   *)
(* over under the same pid; that step is one of ClearsLater.               *)
ClearsOwnOnly ==
  [][row.by # Nobody /\ row'.by = Nobody =>
       \A g \in Fires : Timely(g) /\ row.of = g => fire'[g] # fire[g]]_vars

(* A row that is due is taken up, or its time is moved on, while there is  *)
(* a host: no failure, preemption or reload leaves the engine believing    *)
(* that the job is under way.                                              *)
DueIsServed == row.due ~> (~row.due \/ alive \cap Hosts = {})
=============================================================================
