----------------------------- MODULE DurableLog -----------------------------
(***************************************************************************)
(* What the persistence layer promises of every session, whatever queue,   *)
(* batches, retries and cursors it uses: the stored events are a prefix of *)
(* the log, the prefix only grows, opening a session again loses nothing,  *)
(* and a session that was cut off or deleted is not written any more.  A   *)
(* crash loses what was not stored yet and nothing else.  Of a session     *)
(* another process deleted nothing is promised.                            *)
(***************************************************************************)
EXTENDS Integers, Sequences

CONSTANTS Sessions,
          Event      \* the events that may be appended

VARIABLES log,       \* the events each session's log holds
          stored,    \* the events a reader of the database gets
          cut,       \* sessions this process does not write any more
          gone       \* sessions another process deleted

vars == <<log, stored, cut, gone>>

Init ==
  /\ log = [s \in Sessions |-> <<>>]
  /\ stored = log
  /\ cut = {} /\ gone = {}

Prefix(p, q) == Len(p) <= Len(q) /\ \A k \in 1..Len(p) : p[k] = q[k]

(* stored[s] takes in more of the log, unless s was cut off. *)
Grows(s) ==
  /\ Prefix(stored[s], stored'[s]) /\ Prefix(stored'[s], log[s])
  /\ s \in cut => stored'[s] = stored[s]

Kept == \A s \in Sessions : s \in gone \/ Grows(s)

(* The other logs stay as they are. *)
OnlyLog(s) ==
  /\ log' \in [Sessions -> Seq(Event)]
  /\ \A t \in Sessions \ {s} : log'[t] = log[t]

(* A new session starts with events that are stored already. *)
Create(s) ==
  /\ log[s] = <<>> /\ stored[s] = <<>> /\ s \notin cut
  /\ OnlyLog(s)
  /\ stored' = [stored EXCEPT ![s] = log'[s]]
  /\ UNCHANGED <<cut, gone>>

(* One event is appended. *)
Issue(s) ==
  /\ OnlyLog(s)
  /\ Prefix(log[s], log'[s]) /\ Len(log'[s]) = Len(log[s]) + 1
  /\ UNCHANGED <<stored, cut, gone>>

Persist ==
  /\ stored' \in [Sessions -> Seq(Event)]
  /\ Kept
  /\ cut \subseteq cut'
  /\ UNCHANGED <<log, gone>>

(* The log is read back, with everything that was appended to it. *)
Reopen(s) ==
  /\ stored' \in [Sessions -> Seq(Event)]
  /\ Kept
  /\ s \notin cut \cup gone => stored'[s] = log[s]
  /\ log' = [log EXCEPT ![s] = stored'[s]]
  /\ UNCHANGED <<cut, gone>>

Delete(s) ==
  /\ stored' = [stored EXCEPT ![s] = <<>>]
  /\ cut' = cut \cup {s}
  /\ UNCHANGED <<log, gone>>

ForeignDelete(s) ==
  /\ stored' = [stored EXCEPT ![s] = <<>>]
  /\ gone' = gone \cup {s}
  /\ UNCHANGED <<log, cut>>

Crash ==
  /\ log' = stored
  /\ cut' = {}
  /\ UNCHANGED <<stored, gone>>

Next ==
  \/ \E s \in Sessions :
       Create(s) \/ Issue(s) \/ Reopen(s) \/ Delete(s) \/ ForeignDelete(s)
  \/ Persist
  \/ Crash

Spec == Init /\ [][Next]_vars

=============================================================================
