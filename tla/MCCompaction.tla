---------------------------- MODULE MCCompaction ----------------------------
EXTENDS Compaction

(* Two turns; the first is the one that is never compacted. *)
Opened == <<Event("user"), Event("turn/start"), Event("reply"), Event("turn/end"),
            Event("user"), Event("turn/start"), Event("calls"), Result(7), Event("reply"),
            Event("turn/end")>>
=============================================================================
