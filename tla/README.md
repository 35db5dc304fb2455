# berry-agent: a TLA+ verification project

berry-agent is an agent host in TypeScript. It keeps every conversation as an
append-only log of events in SQLite, runs one model loop per session and lets
many sessions, plugins and channels share a process. This directory holds
TLA+ models of its core, the TLC configurations that check them, and TLAPS
proofs about them. Paths below are relative to the repository (`src/...` is
the host, `plugins/...` the core plugins).

1. [The system](#1-the-system)
2. [The modules and the code](#2-the-modules-and-the-code)
3. [The runs](#3-the-runs)
4. [Fairness](#4-fairness)
5. [The proofs](#5-the-proofs)
6. [Disagreements found](#6-disagreements-found)
7. [What is not modelled](#7-what-is-not-modelled)
8. [The plan](#8-the-plan)

## 1. The system

Everything runs in one JavaScript thread. A function is atomic up to its first
`await`; what can interleave are the continuations of promises, timers, input
events, and other processes that open the same database.

| Component | State it keeps | Operations | What is hard about it | What makes it correct |
|---|---|---|---|---|
| Event store `src/persist/store.ts` | tables `events`, `sessions`; a cursor per session in memory | write a batch or one event in a transaction, register a row, delete, load | cursor and tables move at different moments; another process changes the tables | rows of a session are a hole-free prefix that ends at `last_seq`; the continuity check never fires in normal operation |
| Write-behind queue `src/persist/write-behind.ts` | queue, drain task, row mode, failure count, flags `broken`/`closed`, sets `severed`/`dropped` | enqueue, drain, isolate a poisonous event, back off, `drainSessionNow`, `flush`, `dropSession`, `close` | partial failures, put-back order, lost wake-ups, waiting in `flush` | no event disappears silently, order per session, innocent sessions unharmed, the queue settles |
| Persistence facade `src/persist/persistence.ts`, session manager `src/conversation/sessions.ts` | registrations, open sessions, calls in flight | create, seed, load, rename, delete, retire, close | deletions and close await a flush, reopening races with queued events, crashes | reopening loses nothing, deleted stays deleted, calls return |
| Session log `src/session/session.ts` | the events of a session, occlusions | append, surface operations, projections | pure but intricate rules for occluding ranges | ranges nest nowhere, every call keeps its result |
| Pending queue `src/agent/queue.ts` | waiting messages of a session | enqueue (drop-oldest), drain, take held, withdraw, clear | overflow, held messages in front of others | messages are neither lost nor run twice |
| Conversation driver `src/conversation/driver.ts` | current run, wake streak, kicks in line, abort memory, dismantled | submit, control delivery, kick, run, retry, abort, dismantle | everything is looked at before an await and used after it | one run per session, every accepted message has one fate, wake budget |
| Run lane `createRunLaneGate` in `src/host/conversation-stack.ts` | slots taken, waiting line | acquire, release | handover, slots lost on error paths | no slot lost or sold twice, first come first served |
| Agent loop `src/agent/loop.ts`, `stream.ts` | context, turn | stream, run tools, take messages | abort in a stream or a batch of tools | the loop ends with a status that says why |
| Tool batch `src/agent/tools-batch.ts`, pipeline `src/tools/pipeline.ts` | ledger of results, segments | gate, execute under a deadline | reads side by side, writes alone, repeated ids, work that outlives its deadline | a writing call works alone, an id is executed once |
| Question queue `src/channels/ask-queue.ts`, `ui-core.ts` | shown question, waiting ones | ask, answer, abort, close a session | several backends race, questions are given up before they are shown | an open question is shown or will be |
| Recovery `src/session/recover.ts`, `derive.ts`, `fork.ts` | none | close open turns of a crashed log, fork at a boundary | arbitrary cut logs | every call of a reopened log has exactly one result |
| Compaction `src/compaction/service.ts` | global chain, pending and manual seats, cooldown, breaker | threshold, overflow and manual compaction | three entries, one chain, re-evaluation after waiting | one at a time, a queued request is answered |
| Approvals `src/safety/approval.ts`, `src/conversation/approval-wiring.ts` | undecided asks, sticky grants | ask, answer, settle at the end of a run | answer, abort and settlement race | one decision per ask, none open after the run |
| LLM runtime `src/llm/*`, budgets `src/session/budget.ts` | in-flight registry, spent tokens | stream, complete, classify failures | retries, late usage reports | usage counted once |
| Runtime `src/host/runtime.ts`, marker `src/host/single-instance.ts` | closers, hooks, the marker file | start, exit in six steps | deadlines, several processes | one process per data directory, events on disk at exit |
| Scheduler `plugins/scheduler/engine.ts`, `src/host/run-entry.ts` (`run --tick`) | the `jobs` table, the registry of an engine, a chain per name | sweep, run now, claim, start, settle, reload | engines of two generations and processes of cron share a row | a job does not run twice at a time, a due time is served or moved on |
| Issue sessions, goals, subagents (`src/host/*`, `plugins/*`) | timers, parked work, budgets | watch, park, wake, delegate | timers against answers, three registrations of one fact | a parked item is woken or reported |
| Credentials, checkpoints, memory, obs, exec, skills, web, mcp, lsp, browser, sdk, webui plugins | tables and processes of their own | adapters | mostly input and output | out of scope for a model checker, except token refresh |
| Channels `src/channels/*` (terminal, web, sdk) | presentation state | show events, submit input | volume, not concurrency | out of scope |

How they interact. A channel or plugin calls `driver.submit`; the driver stores
messages through the session log; `append` calls the facade's `onAppend`,
which puts the event in the write-behind queue; the queue's drain writes
batches through the store. A driver asks the host's run lane for a slot before
it starts a run. Retiring a session drains its queued events and forgets its
registration; reopening drains before it reads. Other processes meet this one
only in the SQLite file (and the marker file).

`PROJECT.json` lists the hazards of this code line by line with the properties
that watch them.

## 2. The modules and the code

### Persistence

| Module | Models | Notes |
|---|---|---|
| `Store` | `src/persist/store.ts` | `rows`, `present`, `lastSeq` are the tables; `cursor` the memory. `TupleFault` is the decision sequence of `writeTuple` for one event given the cursor: row missing, wrong seq, constraint. `CommitWrites`/`AbortWrites` are the two outcomes of a transaction. |
| `WriteBehind` | `src/persist/write-behind.ts` | One action per path of `enqueue` and of a turn of `drain`. `drain` is the program counter of the drain task (idle, running, back-off, rejected...). A SQLite error can hit any transaction; poison is a fixed attribute of an event. |
| `Persistence` | `persistence.ts`, the lifecycle in `sessions.ts`, the retirement cleanup in `conversation-stack.ts` | One action per facade call; a call that awaits `flush` is two actions (`StartDelete` / `FinishDelete`), with the flush condition between. `ForeignDelete` and `Crash` are the environment. Defines `Spec` and the properties. |
| `DurableLog` | the promise of the layer | Per session a log, what a reader finds of it, and whether it was given up. `KeepsPromises` is the refinement `INSTANCE DurableLog WITH stored <- Stored(s), cut <- Cut`. |
| `PersistenceInv` | | The inductive invariant `IInv`, in named parts. |
| `MCPersistence` | | Symmetry for TLC. |

An event is a record of its session, its seq, whether it is poisonous, and
which attachment of the session appended it (`inc`): contents, sizes and the
full-text index do not matter to these properties. The payload check that
throws in `append` before anything is stored is left out for the same reason.
History variables (`gone`, `crashes`) are named as such.

### Driver and lane

| Module | Models | Notes |
|---|---|---|
| `PendingQueue` | `src/agent/queue.ts`, `consumeBatch`/`consumeInRun` of the driver | Pure operators on sequences of items. |
| `Driver` | `src/conversation/driver.ts`, `createRunLaneGate`, the points of `src/agent/loop.ts` where messages are taken | One action per public method and per promise reaction. |
| `DriverInv` | | The inductive invariant `IInv` of the drivers and the lane, in named parts. |
| `MCDriver` | | Symmetry for TLC. |

`jobs` is the microtask queue: the settlement of a run, the release of its
slot, the continuations of held submissions and the grants of slots are
appended when they become ready and run in that order. This keeps exactly the
windows the code has: after `runTurns` ended and before its settlement ran the
session still looks busy (`"ended"`), after the settlement it is idle while its
slot is still taken, and a granted slot belongs to nobody until its kick has
looked again. With `Eager = FALSE` callers act between macrotasks (an input
event, a timer); with `Eager = TRUE` also between any two reactions.

A run is started, takes messages any number of times, returns with a status,
may go on with left-over messages, and ends. Retries, tools and streaming
happen inside "running"; `RunTurns` below looks inside. `fate` is a history
variable that says what became of every message.

### Inside a run

| Module | Models | Notes |
|---|---|---|
| `AskQueue` | `src/channels/ask-queue.ts`, `ask`/`askApproval`/`closeSession` of `src/channels/ui-core.ts` | One question is shown, others wait; `votes` are the backends that have nobody to answer. `outcome` is the promise of `ask`. |
| `Approvals` | `src/safety/approval.ts`, `src/conversation/approval-wiring.ts` | An ask is made by the gate or by the escalation of a sandboxed command. `Decide` is the continuation behind the race of the answer, the abort and `settlePending`. |
| `ToolBatch` | `src/agent/tools-batch.ts`, `src/tools/pipeline.ts`, the escalation in `plugins/exec/bash.ts` | `Plan` classifies the calls of an answer, `Schedule` is the loop from one wait to the next, `late` are calls whose deadline passed while their work goes on. |
| `RunTurns` | `runTurns` of the driver over `src/agent/loop.ts` | `run.stage` is the await of `runTurns`; allowances, the last leg, the retry window, the last `llm/retry` row and the signals that the user still waits for are its other fields. Extends the three modules above. |
| `TurnsInv` | | The inductive invariant `IInv` of runs, batches, approvals and questions, in named parts. |
| `TurnsProofs` | | Theorems about them, for any calls, answers of the model, backends and retry limits. |
| `MCTurns` | | Four calls (a read, two writes, a command that asks for more rights), three answers of the model. |

The model always has the three retry legs enabled and wired. Read calls do not
ask; write calls and commands ask at the gate, and commands once more inside
`execute`. The verdicts reject, cancel and unavailable are one value,
`refused`, for nothing that is checked tells them apart.

### The log and compaction

| Module | Models | Notes |
|---|---|---|
| `SessionLog` | `src/session/derive.ts`, `validateSurfaceOp` of `src/session/session.ts`, `src/session/recover.ts`, `src/compaction/policy.ts` | Operators on logs of typed events: `Projection`, `AcceptsRetry`/`AcceptsSurface`, `Closers`, `PlanSegment`. Positions count from 1. `WellFormed` and `TurnsHoldCalls` say what every log has that this program wrote. |
| `Compaction` | `src/compaction/service.ts`, the timeline and the occlusion of failed turns in the driver, reopening after a crash | `chain` is the promise chain of the service with the tasks of this session, `context` the live timeline of the run as positions in the log. |
| `CompactionInv` | | The inductive invariant `IInv` of log, run, seats and chain, and `PInv` of the intervals that wait for their summary, in named parts. |
| `CompactionProofs` | | Theorems about them, for any opening log and bounds. |
| `MCCompaction` | | A session with two turns. |

### The process

| Module | Models | Notes |
|---|---|---|
| `ActiveMarker` | `src/host/single-instance.ts` | Every call of the file system is an action of a process; the file is who created it and whether it is still empty. |
| `HostRuntime` | `src/host/runtime.ts` | Start, exit sequence, closers that were given up, a write-behind chain reduced to "has writes", "broken", "closed". |
| `HostProofs` | | Theorems about both, for any processes and bounds. |
| `MCHost` | | Symmetry for TLC. |
| `Scheduler` | `plugins/scheduler/engine.ts`, the `--tick` part of `src/host/run-entry.ts`, the conditional writes of `plugins/scheduler/service.ts`, reload in `src/host/core-plugins.ts` | One row of `jobs` and everyone who may run it. A call of `fireRow` is a record with its program counter; the tick process follows the same steps with its own order of the last two writes. |
| `SchedulerProofs` | | Theorems about it, for any processes, calls and failures. |

`Tight` says whether a process can be preempted between a check and the act it
allows (`Windows`). The code has no lock there; with `Tight = FALSE` the
exclusion fails (section 6), with `Tight = TRUE` everything else about the
marker is checked and proved.

In `Scheduler` a host is one thread: what is ready runs before its next timer or
command (`Calm`); another process may come between any two accesses to the row.
Time is two flags of the row: it is due, and its entry is older than the wall
timeout (`old`), which an entry becomes when its instance overruns, or at any
time when nobody stands behind it. An instance that is told to end does so when
it pleases, in any generation, and plugins may be reloaded while one overruns.
The code knows entries by their pid only, and one pid can write several; the
history variable `mistaken` records the moments when that makes a difference:
an overrun instance clears an entry that its process wrote since for another
(`ClearsLater`), or a claim is written over an entry that the same process wrote
after the look (`ClaimsLater`). At most two generations of a host overlap, and a
pid that is remembered anywhere is not given to a new process.

## 3. The runs

All passing runs are exhaustive within their bounds.

| Run | Question | Bounds |
|---|---|---|
| `Lifecycle` | Does one session survive any order of append, retire, reopen, rename, delete, foreign delete, crash, close and failing writes, and does everything settle? (`DurablePrefix`, `DeletedStaysDeleted`, `KeepsPromises`: the layer implements `DurableLog`; `EventsSettle`, `CallsReturn`) | 1 session, 2 events, 2 loads, 1 crash, 1 deletion, 1 foreign deletion, under `FairSpec` |
| `SharedQueue` | Do two sessions that share batches disturb each other when transactions fail and either events are poisonous or another process deletes one? (`TypeOK`, `NoSilentLoss`, `OrderKept`, `NoLostWakeup`, `OnlyCulpritsCut`) | 2 sessions, 2 events each, batches of 2, 2 retries; constraint `OneTrouble` |
| `SharedLane` | Plain messages, wake-ups and messages of other sessions into two sessions on two slots, callers between any two reactions; two kicks of a session can wait in line and be granted while its run is under way (`TypeOK`, `Conserved`, `LaneAccounts`, `QuietAfterDismantle`, `OnlyLateJoinsStrand`) | 4 messages, queue of 2, 1 wake, launches that throw, `Eager` |
| `LaneServes` | Does the line move, do held messages leave, does a remembered abort meet its kick? (`LineMoves`, `HeldRuns`, `AbortHasTarget`) | 2 sessions on one slot, 3 messages, plain or held, queue of 2, launches that throw, under `FairSpec` |
| `Turns` | Do retry legs, tool batches, approvals, aborts and the end of the run fit together? (`TypeOK`, `QueueMoves`, `WritesAlone`, `ExecutedOnce`, `RunsAreClosed`, `NoAskOutlivesRun`, `AbortEndsRun`) | 4 calls, cap of 2, 2 batches, 1 input, 1 retry, 2 backends, 1 other question, under `Spec` with fairness |
| `Compaction` | What do compactions, runs, failures and a crash do to one log? (`TypeOK`, `TimelineMatches`, `PairsComplete`, `NothingForgotten`, `PlansStayLegal`, `OverflowShrinks`, `SeatIsHeld`) | 2 turns to begin with, 2 more messages, 2 tool batches, 2 errors, 1 retry, 1 manual request, 1 crash that loses up to 3 events |
| `Host` | Who holds the directory, and is the exit honest? (`TypeOK`, `OneHolder`, `NoMarkerLeft`, `ExitIsHonest`, `ExitEnds`) | 3 processes, a former one, 1 retry of the acquisition, 2 closers, `Tight`, under `FairSpec` |
| `Scheduler` | Does one job run twice, or never again? (`TypeOK`, `OneTimelyRun`, `DueIsServed`) | 2 hosts one after the other, each with 2 generations, 1 `--tick` process that may come again and again, 3 calls at a time, 1 failing access, overruns of any length, under `FairSpec` |
| `RenameAfterDelete`, `TwoStarts`, `SummaryLands`, `CutPair` | Disagreements between code and comments, section 6 | small |

Why the bounds are enough. Batches of two and two retries make every branch of
the drain reachable: an event can fail first, in the middle or last of a batch,
alone or next to another session's, and the queue can break. Two loads allow
a session to be reopened while events of both earlier lives are about. In the
driver, one slot and two sessions make every kick but one wait, and two slots
let a second kick of a session find the first one running; a queue of two
overflows; three or four messages give a run, its steers or a held message, and
kicks in line at the same time. Held messages are left to `LaneServes`, messages of
other sessions and wake-ups to `SharedLane`; the safety properties of the driver are
proved for all of them together (section 5). `MaxWakes` is 3 in the code and a
parameter here. In `Turns` an answer can be cut by the cap, repeat an id, mix a
read with a write and run into the abort between two segments; two batches let
the work of a call that timed out meet the next batch; the other question makes
an approval wait. In `Compaction` two errors and one retry give a run that
exhausts its allowance, one that overflows twice and one that does both. Three
processes are what a take-over needs to go wrong between two others. In
`Scheduler` three calls let an old instance, the one that replaces it and one of
cron meet; a fourth call takes minutes and finds nothing else. Deadlock is
checked there (the clock goes on for ever) and not in the other runs
(`CHECK_DEADLOCK FALSE`), whose environment is bounded: when all events or
messages are used up the system may rest. Symmetry is used for
safety runs only; sessions, messages and processes are interchangeable in every
definition.

Every property of every run has a mutant in `PROJECT.json`: a plausible bug of
a mapped definition that makes TLC find the property violated under the same
configuration. The mutated forms stand next to the definitions they replace,
marked "Mutated form of". No other definition uses them.

## 4. Fairness

`Persistence!Fairness`: the event loop runs what is ready. The drain task is a
chain of microtasks and one timer, so a drain step that stays enabled happens
(weak fairness). `flush` looks at the queue again whenever the drain task ends
and in every round of microtasks while it is only scheduled, so it does not
miss for ever a condition that holds again and again (strong fairness on its
return). No fairness is assumed for client calls, other processes or crashes.
A write that fails may fail every time: the retry limit, not fairness, ends it.

`Driver!Fairness`: ready promise reactions run, and a run ends (every wait
inside it has a timeout, an abort or a bounded number of retries; this is an
assumption about the model provider and tools, not something `Driver` shows).

`RunTurns!Fairness`: the model and the request hook answer, timers fire,
promises are continued. The user need not answer anything: that a run which was
aborted ends is due to the abort alone (`AbortEndsRun`). A tool need not come
back either: its deadline is what is fair.

`HostRuntime!FairSpec`: a process is scheduled and its timers fire. Nothing is
assumed of closers, hooks excepted: those end within their own two seconds.

`Scheduler!FairSpec`: the event loop of a host runs, its timers fire, and an
instance that was told to end does. A claim follows the look at the row in the
same synchronous code, so it happens although tick processes come and die in
between (strong fairness). Nothing else is assumed of tick processes. The safety
properties use none of this.

## 5. The proofs

The proofs hold for every set of sessions, batch size, retry limit and bound
that satisfies the assumptions `QueueAssumption` and `BoundsAssumption` of the
modules (numbers are naturals, batches and limits positive); those of
`HostProofs` for every set of processes and closers under `MarkerAssumption` and
`ExitAssumption` (the special values are no processes, the bounds are naturals);
those of `SchedulerProofs` for all hosts, tick processes, calls and numbers of
failures under `JobAssumption`; those of `DriverProofs` for every set of
sessions and messages, number of slots, queue capacity and wake budget under
`LaneAssumption` and `PendingAssumption` (the numbers are positive); those of
`TurnsProofs` for every set of calls, questions, backends and answers of the
model, every cap and retry limit under `AskAssumption`, `ApprovalAssumption` and
`RunAssumption` (an answer is a sequence of calls, approvals are questions, the
numbers are naturals); those of `CompactionProofs` for every tail length, retry
limit and bound and for every opening log under `CompactionAssumption`: the log
is one this program could have written (`WellFormed`: carriers look back, calls
and results are hidden together, a summary is hidden only by a later compaction;
`TurnsHoldCalls`: a carrier hides something, a turn ends when each call before has
its result or is hidden), no turn is open in it and no call unanswered. Both are
parts of the invariants, so every log the model reaches in which nothing is open
could be the opening log of another one; the two opening logs of the runs satisfy
them.

* `ShapeProofs`: facts about splicing the queue, batches, cursors, and `Stored`;
  `Spec => []Shape`, hence `TypeCorrect` (`TypeOK`) and `NoWakeupIsLost`
  (`NoLostWakeup`).
* `PersistenceProofs`: `Spec => []IInv`, and from it `NothingIsLost`
  (`NoSilentLoss`), `StoredIsPrefix` (`DurablePrefix`), `OrderIsKept`
  (`OrderKept`), `DeletedStays` (`DeletedStaysDeleted`), the action property
  `CulpritsOnly` (`OnlyCulpritsCut`), and the refinement of `DurableLog`,
  `PromisesKept` (`KeepsPromises`).
* `HostProofs`: `HostTypes` (`TypeOK` of `HostRuntime`), `NoMarkerIsLeft`
  (`NoMarkerLeft`), `ExitHidesNothing` (`ExitIsHonest`) and, assuming `Tight`,
  `OneHolderWhenTight` (`OneHolder`).
* `SchedulerProofs`: `SchedulerTypes` (`TypeOK` of `Scheduler`) and
  `OneRunAtATime` (`OneTimelyRun`).
* `DriverLemmas`: what the queue's operators take, keep and give up, and how the
  jobs of a sequence are counted. `DriverProofs`: `Accounted` (`Spec => []IInv`),
  `DriverTypes` (`TypeOK`), `LaneIsAccounted` (`LaneAccounts`), `NoMessageTwice`
  (`Conserved`), the action property `DismantledIsQuiet`
  (`QuietAfterDismantle`), the action property `OnlyLateOnesStrand`
  (`OnlyLateJoinsStrand`), with it `NothingIsStranded` (in every behaviour where
  nothing joins too late, `NothingStranded`), and, assuming `~Eager`, `AbortIsMet`
  (`AbortHasTarget`).
* `TurnsProofs`: `TurnsAccount` (`Spec => []IInv`), `TurnsTyped` (`TypeOK` of
  `RunTurns`), `QueueServes` (`QueueMoves`), `WritersAlone` (`WritesAlone`),
  `FailuresAreClosed` (`RunsAreClosed`), `AsksEndWithRun` (`NoAskOutlivesRun`)
  and the action property `CallsRunOnce` (`ExecutedOnce`).
* `CompactionProofs`: `CompactionAccount` (`Spec => []IInv`), `CompactionTyped`
  (`TypeOK`), `SeatAlwaysHeld` (`SeatIsHeld`), `TimelineAlwaysMatches`
  (`TimelineMatches`), `PairsAlwaysComplete` (`PairsComplete`),
  `NothingEverForgotten` (`NothingForgotten`) and the action property
  `OverflowAlwaysShrinks` (`OverflowShrinks`); then `PlansAccount`
  (`Spec => []PInv`) and from both invariants the action property
  `PlansAlwaysLegal` (`PlansStayLegal`).

Why an inductive invariant is needed. `NoSilentLoss` says that an event is
stored or queued. That alone is not preserved: a step may write an event with
the wrong seq, reload a log from rows with a hole, or drop what was queued
before a deletion. `IInv` says where every event of a session is:

* `Numbered`: event k of a log has seq k-1;
* `BackedBy`: the rows of a session are exactly the events of its log up to
  `last_seq`;
* `PendingOf` and `Covers`: what is queued are the events after `last_seq`,
  in order, and none is missing unless the queue broke or a late write was
  reported;
* `CursorTrue`: a cached cursor equals `last_seq`. This is what makes the
  continuity check pass, and the part that a rename after a foreign deletion
  destroys (so it is claimed only of sessions nobody else deleted);
* `CutSkipped`, `UnbornClean`, `DeletedClean`, `RowsRegistered`: what severed,
  unborn and deleted sessions have left behind;
* `FlagsAgree`, `WithinBounds`: the flags of the drain and the value ranges.

The step lemmas go action by action. Commit steps use `CommitSound` (writing an
in-order beginning of what is pending moves `last_seq` over it); the drain
steps, `drainSessionNow` and the facade calls are instances of it. `LoadSession`
uses that the barrier left nothing of the session in the queue.

The refinement. Under `IInv` what a reader finds of a session (`Stored`) is the
beginning of its log of length `last_seq + 1`, before and after a step. So a step
implements one of `DurableLog` as soon as it only moves `last_seq` forward (and
not for a session that is cut off), only appends to logs, and drops rows only
where the session is deleted; a log is replaced, by `LoadSession`, only after
the barrier, when the rows are all there is of it.

The host. `NoMarkerLeft` needs to know who may own the marker at each point of
a start: `OwnedWhile` (a marker names a process only while that process holds
it, fills it or has crashed) and `FilledSoon` (only its creator leaves it empty).
`ExitIsHonest` follows from `Honest`: what the write-behind chain still has when
it is closed was reported. For `OneHolder`, `OneWindow` says that with `Tight` at
most one process is between a check and its act; `HolderMarked` and `FillMarked`
that a holder's name is in the marker; `SeenStarted`, `SeenEnded` and
`UnlinkFree` that what a start saw before it unlinks is still nobody's. Each is
preserved only together with the others.

The scheduler. `Shape` ties calls, chains, registries and processes together:
who is in the section of an engine is the first of its chain, who is registered
runs or has just ended. `OneReady` says that of the calls of one process at most
one is about to go on, because a host is one thread; so nothing comes between the
end of an instance and its tail. On top of it come `RowTimely` (an instance in
its time is the one the row names), `SeenPast` (what a claim has seen is not the
entry of an instance in its time) and `EndedOwn` (who is about to clear the row
finds its own entry there, or none of an instance in its time). They hold until
a pid has stood for two entries (`mistaken`), and no longer: TLC finds each of the
two ways to lose them (section 6). That one engine never has two instances does not
need them; it follows from `Shape` alone, for ever.

The drivers. `LaneAccounts` counts slots, but which step gives a slot back
depends on who still has to: `SlotsCounted` ties `inFlight` to busy sessions and
to the jobs that stand for a slot, `SettlesEnded` says that a run that is over,
and only such a run, has exactly one settlement among the jobs (so a settlement
never clears a newer run and releases one slot), and `KicksCounted` says whom
`queuedKickCount` counts: the kicks in line, the granted ones and the runs that
started from the line, until their release. For `Conserved`, `Housed` says that
the pending messages are once each in one queue or in the seeds of one kick of
`Upcoming`, the jobs followed by the line; handing a slot over moves a kick
inside `Upcoming` and changes no place. `DismantledEmpty` is what
`QuietAfterDismantle` rests on: an empty queue gives a finished run nothing to go
on with. There is one lemma `<Action>Keeps` per action for the invariant, and one
`<Action>Effect` for what the action may start, forget or leave behind.

A message can be left behind in one window only: `JoinsTooLate`, when the run of
the session has looked for the last time and has not settled, and either a kick
of the session gets its slot and rides on this run, or a caller steers. The
comment in the code (`driver.ts:966`, the second segment of `kick`) knows the
window and leaves the message to the next one of that session. That no other
step leaves one behind is `OnlyLateOnesStrand`, for any number of slots and
callers that act at any time. With one slot and callers that act from timers and
input the window is never met (`OneSlotStrandsNothing`); with two slots and three sessions TLC finds a kick in it.
`AbortIsMet` alone needs `~Eager`: a caller that acts from a promise reaction of
its own may meet a session whose run is over and not settled, and an abort is
then remembered for a kick that is about to go.

The inside of a run. `WritesAlone` speaks of work, but the code serialises
segments; so the invariant says where a call is. `BegunIsKnown` (what was begun is
in the segment or in the ledger), `BusyIsHeld` (what is not over is in the segment
or was given up at its deadline), `SegmentAlone` (a segment of several calls is of
reads) and `AheadIsNew` (what will be executed was not begun and comes once in the
answer) are kept together by `Schedule`, the loop from one wait to the next; the
lemma `ScheduleKeeps` is about all its uses, with `ReadyFrom` for what holds when
the loop comes to a call. From the first two follows `WritesAlone`, from the last
the first half of `ExecutedOnce`: a segment takes up only calls that were never
begun, each once. The second half, that a call only moves on (`Distance`), is
`MoveKeeps` for single calls and `ScheduleKeeps` for segments; together they
exclude that a call is executed again, also one that needs no approval and
would begin at its body, and one whose first execution still goes on behind its
deadline. `ToolsAtWork` says that no segment exists outside the stage of the
tools: a call that goes on when the run is over was given up, is behind its gate,
and can only end or ask through an escalation that is open already; that is why
`NoAskOutlivesRun` holds although late work goes on. `AsksInTurn` is needed for
the queue of questions: an ask that is raised is not one that is open.
`RunsAreClosed` needs `RetryIsCounted`, the reason why a run that is given up
after a scheduled retry always finds an allowance used, and so writes the row
"exhausted".

The log under compaction. `PairsComplete` is about what is visible, but what
hides something is decided at two moments: an interval is chosen when a
compaction begins (`PlanSegment`) and judged when its summary is there
(`AcceptsSurface`). The proof rests on the judgement alone: an accepted interval
keeps `HidesPairs`. What else it needs is that nothing hides half of the one pair
that is not complete yet. `CallIsSafe` says that the call of the running batch
lies behind every end of a turn and every interval that was chosen, so its result
comes to a visible call; `Answered`, that it is the only one without a result;
`PlansLieInLog` and `ErrorIsThere` keep these two inductive. For `NothingForgotten`
`KeepsSummaries` says that only a later compaction hides a summary: an occlusion
of a failed turn ends at the end of the log and accepts no carrier in its range,
so a summary that landed makes it illegal. `OverflowShrinks` rests on
`EndsAfterError`: an end of a compaction that is newer than the anchor of a queued
overflow has its carrier right before it and behind the error. `OneSeat` is
what ties `pending`, `manual` and the chain together across `drained`.
For a crash, `PrefixKeeps` (every beginning of a well-formed log is well-formed),
`ClosersKeep` and `ResultsKeep` (what recovery appends answers each open call
once). The order of a projection is stated by rank: `InOrder` maps k to the
position that has k - 1 before it. Its lemmas (`RanksGrow`, `InOrderProps`,
`ProjectionAppends`) give what `TimelineMatches` needs, that pushing to
the timeline and projecting the longer log are the same.

Plans stay legal. During the wait for a summary two things could take an
interval away: a result for a call in it (`CallIsSafe` says none comes) and a
retry that hides a failed tail which reaches into it. For the second, `SparesError`
says that while the error may be hidden an interval in the chain ends before it,
or is refused already. When an interval is chosen this follows from the tail: a
plan ends before the last `TailKeep` visible messages, and the error is the last
message (`HookShape`), unless summaries of refused compactions follow it. With
`TailKeep >= 2` one summary more changes nothing; with `TailKeep = 1` a refused
summary is all that the next plan spares, and that plan may reach the error. So
`AfterRefusal` remembers why there was a refusal: at most one compaction is refused
behind an error and has a next one, namely that of a manual request that was
`drained`; and what kept it from being accepted keeps every longer interval from
the same place from being accepted too (`Blocked`), since the place where a plan
begins stays (`FirstStays`) and its interval did not leave a result behind its call
(`NotCut`, `LeavesNoResult`). That last fact is the deepest: a plan of a manual
request ends at the end of a turn or before the last message, turns end behind
their calls' results (`TurnsHoldCalls`) and, since the run began, behind a message
(`Fresh`). It holds for the runs of the program although a log that was closed by
recovery has ends of turns behind nothing, because a manual compaction is drained
only in a process in which a run began. TLC checked `PInv` on `Compaction`'s bounds
with `TailKeep` 1 and 2 and with an opening log that recovery closed.

What is only model-checked. Liveness (`EventsSettle`, `CallsReturn`,
`LineMoves`, `HeldRuns`, `ExitEnds`, `AbortEndsRun`, `DueIsServed`), which the
prover cannot do. Every other property of a passing run is a theorem.
Each `IInv`, and `PInv`, was checked by TLC before it was proved and is not part
of a run.

## 6. Disagreements found

* `RenameAfterDelete` (`NoHole`). The comment at `src/persist/store.ts:879`
  explains that the row check prevents events from coming back in the middle
  of a deleted log. `stageSessionTitle` registers the row of any session that
  is still registered, also one another process deleted, while its old cursor
  is cached; the next event is stored behind a hole and `loadEvents` reports
  corruption.
* `TwoStarts` (`OneHolder`). `src/host/single-instance.ts:4` promises exactly
  one active process per data directory. `unlinkIfStill` looks again and then
  unlinks, and a marker is visible, empty, before its text is written: a second
  start takes the empty marker of a first one for torn, finds it unchanged and
  removes it, and both open the database. The window is small, and nothing
  closes it. The marker is also released before `persistence.close()` is
  awaited (`src/host/runtime.ts:314`), so `OneHolder` is about the time up to
  that release.
* `SummaryLands` (`RequestsMatch`). A compaction that was started when a run
  settled may end while the next run is under way. Its summary and surface make
  the log differ from the live timeline, which is rebuilt only when a run starts
  or is tried again; the assertion before the next request
  (`src/conversation/driver.ts:1594`), meant for bugs of the driver, throws and
  the run is lost. The same late summary between an error and the retry makes
  the occlusion of the failed turn illegal.
* `CutPair` (`StartsEnd`). `planSegment` can end its interval between a call and
  its result, because the messages it keeps are counted without regard to
  pairs. The front door of the log refuses such an interval after
  compaction/start and the summary were appended, and the pair is not closed,
  against `src/compaction/service.ts:732`.

Other observations, made while modelling, that no run states:

* The budget of consecutive wake-ups (`src/conversation/driver.ts:339`) is
  checked at submission. While the lane is full all wake-ups of an idle session
  see the same streak; launched later, one after the other, they pass it. With a
  second session that holds the only slot TLC finds `WakeBudget` violated; with
  one session, where only the session itself can occupy the lane, it holds.
  `WakeBudget` is kept in `Driver` for that, and no run lists it.
* The comment at `src/conversation/driver.ts:312` demands that every eviction
  from a full queue is reported; `deliverControl` (440) reports only evicted
  control messages.
* `seedQueuedFollowUps` (`src/conversation/driver.ts:405`) takes any run under
  way for one that was started by another held message. With `Eager = TRUE` and
  two held messages `HeldRuns` is violated; no caller is known to do this.
* With two slots a kick that rides on a run may miss the last look of that run,
  which the comment at `src/conversation/driver.ts:966` accepts;
  `OnlyLateJoinsStrand` says that this window is the only one.
* The escalation of a command is awaited inside `execute`, so it counts against
  the deadline of the pipeline (`src/tools/pipeline.ts:190`). An approval that
  comes after the deadline still starts the command, which then runs beside the
  next calls; `WritesAlone` therefore excepts calls that were given up.
* An abort before the first segment makes the batch vote to terminate with no
  vote against it (`src/agent/tools-batch.ts:172`); the run then counts as
  completed and takes queued input although it was aborted
  (`src/conversation/driver.ts:1377`).
* A run that is cut by the length limit after a retry was scheduled writes no
  exhausted row (`src/conversation/driver.ts:1139`).
* `settlePending` lets the service go on but leaves the question on the screen
  (`src/conversation/approval-wiring.ts:163`): nobody waits for its answer.
* `clearActiveIf` (`plugins/scheduler/service.ts:223`) is meant to clear only the
  own claim (214: 「判占者方清己账」), and compares pids. An instance of an engine
  that was replaced by a reload, and that overran, has the pid of the new engine;
  the new engine takes its entry over, and when the old instance ends at last its
  tail (`plugins/scheduler/engine.ts:346`) clears the entry of the new one, which
  runs: the next process takes the job for idle, the very outcome line 217
  describes. `kill` only asks a run to end, and does nothing for issue polls
  (`src/host/scheduler-tick.ts:167`), so the overrun is as long as the work. With
  one host, no tick process, two calls and no failing access TLC finds
  `ClearsOwnOnly` of `Scheduler` violated in 13 states: one engine claims, starts
  and overruns; reload; the other engine claims and starts; the first one ends
  and clears. In the run `Scheduler` the step is allowed, `mistaken` records it,
  and the unconditional part of `OneTimelyRun` holds beyond it.
* A claim can be written over an entry that is not the one that was seen: a
  process that reads the entry of an overrun instance, and writes its own only
  after that instance settled and the host claimed the row again under the same
  pid (`ClaimsLater`). Nothing but a stop between two consecutive statements
  makes room for it; `mistaken` records it.

## 7. What is not modelled

The table of components in `PROJECT.json` gives the reason for each part. In
short: rendering, protocols, providers, processes and files are input and
output; pure rules on strings and JSON (policy matching, budgets, redaction)
have no interleavings; the parts named in the plan are worth a model and not
written yet. Within the modelled parts:

* store: the full-text index, search, archive and import/export;
* driver: tool faces, request assembly, model and thinking switches; the
  "bounded" and "all" modes of the pending queue, which nothing configures;
* approvals: the policy "never", answerers of plugins, routing by ownership,
  tiers; the gate's rules;
* compaction: user messages that are injected while a summary is written, more
  than one call in an answer; algorithms of plugins and their strikes, plans a
  plugin adjusts,
  the case without a channel, the eviction of idle states; two sessions;
* exit: what single closers do; memory mode;
* scheduler: the steps of a reload (it is one), an engine that is stopped at exit
  while the process lives on; several rows and the cap of runs side by side; the arithmetic of
  schedules; enabling, adding and removing jobs and their registration with
  cron; the reasons of the gates; what a run does.

`Persistence` assumes what its callers keep: one log object per session appends
at a time (live object, else the held one, else a fresh load). `Compaction`
begins with a session whose first turn is closed. Two deletions of different
sessions at once and longer logs of one session are covered by the proofs of
`IInv`, not by a run.

## 8. The plan

In this order; each step names what would be checked or proved.

1. Proofs: that `Closers` leaves no bracket open; the liveness properties once
   the prover can treat ENABLED.
2. Composition: a run of `Driver` implemented by `RunTurns` (refinement of
   "running"); compactions of two sessions in one chain.
3. `Fork`: `lastClosedBoundary` and the cut, with the closers.
4. `IssueSession` and `Goals` on top of `Driver`: watchdog, park, wake.
5. `Scheduler`: several rows and the cap of runs side by side.
6. Token refresh, plugin reload, budgets.
