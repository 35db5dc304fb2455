--------------------------- MODULE MCPersistence ---------------------------
(* Instances of Persistence for TLC: the sessions are model values. *)
EXTENDS PersistenceInv, TLC

Interchangeable == Permutations(Sessions)

(* With two sessions, either events are poisonous or another process       *)
(* deletes sessions (one session: both). *)
OneTrouble == gone # {} => \A s \in Sessions : \A k \in DOMAIN log[s] : ~log[s][k].poison
=============================================================================
