------------------------------- MODULE Store -------------------------------
(***************************************************************************)
(* The SQLite store of src/persist/store.ts as the write queue sees it:    *)
(* the events table (rows), the sessions table (present, lastSeq) and the  *)
(* in-memory write cursors of the open Store object (cursor).              *)
(*                                                                         *)
(* A write is one IMMEDIATE transaction over a sequence of events: it      *)
(* commits as a whole or leaves the tables and the cursors as they were.   *)
(* WriteFault says how the code judges a batch against the tables; whether *)
(* SQLite itself fails (busy, disk full) is the caller's nondeterminism.   *)
(* The full-text index, titles and first-question summaries travel in the  *)
(* same transaction and are left out.                                      *)
(***************************************************************************)
EXTENDS Integers, Sequences, FiniteSets

CONSTANT Sessions      \* the session ids in play

VARIABLES rows,        \* the events table, a set of events with key (sid, seq)
          present,     \* ids that have a row in the sessions table
          lastSeq,     \* sessions.last_seq, -1 for "no event yet"
          cursor       \* Store.cursors: the last seq written, NoCursor if not cached

storeVars == <<rows, present, lastSeq, cursor>>

(* No entry in the cursors map. *)
NoCursor == -2

(* An event of a session: its position in the log, whether its insertion  *)
(* violates a table constraint, and the attachment of the SessionLog that *)
(* appended it (two attachments may issue different events with one seq). *)
Event == [sid : Sessions, seq : Nat, poison : BOOLEAN, inc : Nat]

StoreTypeOK ==
  /\ rows \subseteq Event
  /\ present \subseteq Sessions
  /\ lastSeq \in [Sessions -> Nat \cup {-1}]
  /\ cursor \in [Sessions -> Nat \cup {-1, NoCursor}]

StoreInit ==
  /\ rows = {}
  /\ present = {}
  /\ lastSeq = [s \in Sessions |-> -1]
  /\ cursor = [s \in Sessions |-> NoCursor]

-----------------------------------------------------------------------------
(* Helpers on a batch, a sequence of events. *)

SidsOf(b) == {b[i].sid : i \in DOMAIN b}
EntriesOf(b) == {b[i] : i \in DOMAIN b}

(* The positions before i whose event belongs to the session of b[i]. *)
Earlier(b, i) == {j \in DOMAIN b : j < i /\ b[j].sid = b[i].sid}

(* The greatest of a nonempty set of positions. *)
LastOf(P) == CHOOSE j \in P : \A k \in P : k <= j

(* The seq of the last event of session s in a batch that has one. *)
TopSeq(b, s) == b[LastOf({j \in DOMAIN b : b[j].sid = s})].seq

-----------------------------------------------------------------------------
(* Mutated form of CursorFor: a session without a cached cursor starts over.*)
CursorStartsOver(s) == IF cursor[s] # NoCursor THEN cursor[s] ELSE -1

(* cursorFor: the cached cursor, else last_seq of the row, else -1.        *)
CursorFor(s) ==
  IF cursor[s] # NoCursor THEN cursor[s]
  ELSE IF s \in present THEN lastSeq[s] ELSE -1

(* A lookup caches what it read, also when its transaction is rolled back: *)
(* the cursors after the first k events of b were looked at.               *)
LookedUp(b, k) ==
  [s \in Sessions |-> IF \E i \in 1..k : b[i].sid = s THEN CursorFor(s) ELSE cursor[s]]

(* The cursor writeTuple compares event i of a batch with: the batch's own *)
(* last event of that session (batchCursors) before the store's cursor.    *)
CursorAt(b, i) ==
  IF Earlier(b, i) = {} THEN CursorFor(b[i].sid) ELSE b[LastOf(Earlier(b, i))].seq

(* The verdict of writeTuple on event i when the events before it went in: *)
(* first the row check (only the first event of a session that never had a *)
(* cursor may create the row), then the continuity check, then the INSERT. *)
TupleFault(b, i) ==
  LET e == b[i]
      rowThere == e.sid \in present \/ Earlier(b, i) # {}
      createsRow == CursorAt(b, i) < 0 /\ e.seq = 0
  IN  IF ~createsRow /\ ~rowThere THEN "absent"
      ELSE IF e.seq # CursorAt(b, i) + 1 THEN "corrupt"
      ELSE IF e.poison \/ e.seq \in {r.seq : r \in {x \in rows : x.sid = e.sid}}
      THEN "constraint" ELSE "none"

Faulty(b) == {i \in DOMAIN b : TupleFault(b, i) # "none"}

FirstFault(b) == CHOOSE i \in Faulty(b) : \A j \in Faulty(b) : i <= j

(* The error the transaction over b stops at, "none" if it commits. *)
WriteFault(b) == IF Faulty(b) = {} THEN "none" ELSE TupleFault(b, FirstFault(b))

(* The tables after the transaction over b commits: the events, and the    *)
(* sessions rows with last_seq = MAX(last_seq, seq).                       *)
CommitTables(b) ==
  /\ rows' = rows \cup EntriesOf(b)
  /\ present' = present \cup SidsOf(b)
  /\ lastSeq' = [s \in Sessions |->
                   IF s \in SidsOf(b) /\ TopSeq(b, s) > lastSeq[s]
                   THEN TopSeq(b, s) ELSE lastSeq[s]]

(* The cursors advance only after the commit. *)
CursorsAfter(b) ==
  [s \in Sessions |-> IF s \in SidsOf(b) THEN TopSeq(b, s) ELSE cursor[s]]

(* writeEvents / writeEventSingle: the transaction commits, ...            *)
CommitWrites(b) == CommitTables(b) /\ cursor' = CursorsAfter(b)

(* ... or it is rolled back after the lookups of its first k events.       *)
AbortWrites(b, k) ==
  /\ cursor' = LookedUp(b, k)
  /\ UNCHANGED <<rows, present, lastSeq>>

(* registerSessionRow: INSERT ... ON CONFLICT DO NOTHING with last_seq -1. *)
RegisterSessionRow(s) ==
  /\ present' = present \cup {s}
  /\ UNCHANGED <<rows, lastSeq, cursor>>

(* accountDropped: the cursor steps over an event that was not stored. *)
AccountDropped(e) ==
  /\ cursor' = [cursor EXCEPT ![e.sid] =
                  IF e.seq > CursorFor(e.sid) THEN e.seq ELSE CursorFor(e.sid)]
  /\ UNCHANGED <<rows, present, lastSeq>>

(* The three DELETEs of deleteSession, one transaction, whoever runs them. *)
DeleteTables(s) ==
  /\ rows' = {r \in rows : r.sid # s}
  /\ present' = present \ {s}
  /\ lastSeq' = [lastSeq EXCEPT ![s] = -1]

(* deleteSession of this process's Store: the tables and the cursor. *)
DeleteSessionRows(s) ==
  /\ DeleteTables(s)
  /\ cursor' = [cursor EXCEPT ![s] = NoCursor]

(* retireCursor: forget the cursor of a session that was closed. *)
RetireCursor(s) ==
  /\ cursor' = [cursor EXCEPT ![s] = NoCursor]
  /\ UNCHANGED <<rows, present, lastSeq>>

-----------------------------------------------------------------------------
(* loadEvents: the rows of a session in seq order, up to the first hole.   *)
(* Rows after a hole make the read fail, which Intact excludes; rows are   *)
(* written whole by SQLite, so the torn-tail repair has nothing to do.     *)
RowSeqs(s) == {r.seq : r \in {x \in rows : x.sid = s}}

Intact(s) == \A n \in RowSeqs(s) : \A k \in 0..n : k \in RowSeqs(s)

StoredLen(s) ==
  CHOOSE n \in {0} \cup {m + 1 : m \in RowSeqs(s)} :
    n \notin RowSeqs(s) /\ \A k \in 0..(n - 1) : k \in RowSeqs(s)

Stored(s) ==
  [k \in 1..StoredLen(s) |-> CHOOSE r \in rows : r.sid = s /\ r.seq = k - 1]

=============================================================================
