---------------------------- MODULE PendingQueue ----------------------------
(***************************************************************************)
(* The pending-message queue of a session (src/agent/queue.ts) and the way *)
(* the driver consumes it (consumeBatch of src/conversation/driver.ts), as *)
(* functions of a sequence of items, oldest first.  The driver never       *)
(* changes the queue's defaults: drop-oldest, one at a time.               *)
(***************************************************************************)
EXTENDS Integers, Sequences, SequencesExt

CONSTANTS Messages,   \* the messages that may be submitted
          QueueCap,   \* capacity of the pending queue
          MaxWakes    \* MAX_CONSECUTIVE_WAKES: runs in a row started by background wakes

ASSUME PendingAssumption == QueueCap \in Nat \ {0} /\ MaxWakes \in Nat \ {0}

(* wake: a background wake-up.  hold: to be run after the current run.     *)
(* ctl: sent by another session, can be withdrawn.                         *)
Item == [msg : Messages, wake : BOOLEAN, hold : BOOLEAN, ctl : BOOLEAN]

MessagesOf(items) == [i \in DOMAIN items |-> items[i].msg]

AnyWake(items) == \E i \in DOMAIN items : items[i].wake

(* The entries of q at the positions P, in the order of q. *)
Entries(q, P) ==
  [n \in 1..Cardinality(P) |->
     q[CHOOSE p \in P : Cardinality({r \in P : r <= p}) = n]]

HeldAt(q) == {i \in DOMAIN q : q[i].hold}
Held(q) == Entries(q, HeldAt(q))
NotHeld(q) == Entries(q, DOMAIN q \ HeldAt(q))

(* Mutated form of Enqueued: the capacity is not enforced. *)
EnqueuedUnbounded(q, items) == [queue |-> q \o items, evicted |-> {}]

(* enqueue of several items one after the other; a full queue drops its    *)
(* oldest item each time.                                                  *)
Enqueued(q, items) ==
  LET all == q \o items
      over == IF Len(all) > QueueCap THEN Len(all) - QueueCap ELSE 0
  IN  [queue |-> SubSeq(all, over + 1, Len(all)),
       evicted |-> ToSet(MessagesOf(SubSeq(all, 1, over)))]

(* What the drains of one consumeBatch take: the oldest eligible item, and *)
(* all the eligible ones when that item is a wake-up.  A running run does  *)
(* not take held items (skip), they do not hide the ones behind them.      *)
TakenAt(q, skip) ==
  LET eligible == IF skip THEN DOMAIN q \ HeldAt(q) ELSE DOMAIN q
  IN  IF eligible = {} \/ q[Min(eligible)].wake THEN eligible ELSE {Min(eligible)}

(* Mutated form of Untaken: one item leaves, also when all were taken. *)
UntakenAllButOne(q, skip) ==
  LET taken == TakenAt(q, skip) IN IF taken = {} THEN q ELSE RemoveAt(q, Min(taken))

Untaken(q, skip) == Entries(q, DOMAIN q \ TakenAt(q, skip))

(* consumeBatch: what was taken without the wake-ups beyond the budget;    *)
(* those are refused with a warning.                                       *)
Batch(q, streak, skip) ==
  LET kept == {i \in TakenAt(q, skip) : ~(q[i].wake /\ streak >= MaxWakes)}
  IN  [items |-> Entries(q, kept), wake |-> \E i \in kept : q[i].wake,
       rest |-> Untaken(q, skip),
       refused |-> {q[i].msg : i \in TakenAt(q, skip) \ kept}]

(* consumeInRun: what a run takes at the top of a turn and when it would   *)
(* stop, and the wake streak after it.                                     *)
Absorbed(q, streak) ==
  LET b == Batch(q, streak, TRUE)
  IN  [queue |-> b.rest, streak |-> IF b.wake THEN streak + 1 ELSE streak,
       landed |-> ToSet(MessagesOf(b.items)), refused |-> b.refused]

=============================================================================
