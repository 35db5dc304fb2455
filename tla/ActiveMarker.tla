---------------------------- MODULE ActiveMarker ----------------------------
(***************************************************************************)
(* The active marker of src/host/single-instance.ts: the file that keeps a *)
(* second process out of a data directory.  A process reads the marker,    *)
(* refuses to start if its owner lives, clears it if its owner is dead or  *)
(* its text is torn, and writes its own with the flag 'wx'.                *)
(*                                                                         *)
(* Granularity.  Processes run side by side: every call of the file system *)
(* is an action.  'wx' creates an empty file and fills it later.           *)
(***************************************************************************)
EXTENDS Naturals

CONSTANTS Processes,      \* starts of the program, each with a pid of its own
          Former,         \* a process of the past: dead, its marker was left behind
          Nobody,         \* the owner of no marker
          RetryDepthMax,
          Tight           \* no process is preempted inside a check-and-act pair, see Runs

Torn == "torn"

ASSUME MarkerAssumption ==
  /\ RetryDepthMax \in Nat /\ Tight \in BOOLEAN
  /\ {Former, Nobody, Torn} \cap Processes = {} /\ Former # Nobody

VARIABLES marker,   \* the file: who created it, and whether it is still empty
          at,       \* where each process is
          acq       \* the variables of the acquisition: the text it judged, its depth,
                    \* and whether it is past its first EEXIST

markerVars == <<marker, at, acq>>

Owners == Processes \cup {Former, Nobody}
Absent == [by |-> Nobody, torn |-> FALSE]

(* What a reader gets: the identity in the text, pid and start time. *)
Text(m) == IF m.torn THEN Torn ELSE m.by

Acquiring == {"read", "judge", "reread", "unlink", "write", "fill"}
Releasing == {"release", "clear"}

(* The process exists, so that a probe of its pid finds it. *)
Outside == {"new", "refused", "gone", "dead"}
Lives(p) == p \in Processes /\ at[p] \notin Outside

(* The windows between a check and the act it allows: unlinkIfStill and    *)
(* release between reading and unlinking, writeFile between the creation   *)
(* of the file and its text.                                               *)
Windows == {"unlink", "fill", "clear"}
Runs(p) == Tight => \A q \in Processes \ {p} : at[q] \notin Windows

NoAcquisition == [seen |-> Nobody, depth |-> 0, again |-> FALSE]

MarkerTypeOK ==
  /\ marker \in [by : Owners, torn : BOOLEAN]
  /\ acq \in [Processes -> [seen : Owners \cup {Torn}, depth : 0..RetryDepthMax,
                          again : BOOLEAN]]

MarkerInit ==
  /\ marker \in {Absent, [by |-> Former, torn |-> FALSE], [by |-> Former, torn |-> TRUE]}
  /\ at = [p \in Processes |-> "new"]
  /\ acq = [p \in Processes |-> NoAcquisition]

Goto(p, where) == at' = [at EXCEPT ![p] = where]

(* The process goes on, and drops the variables of its acquisition when    *)
(* that is over.                                                           *)
Pass(p, where) ==
  /\ Goto(p, where)
  /\ acq' = IF where \in Acquiring THEN acq ELSE [acq EXCEPT ![p] = NoAcquisition]

-----------------------------------------------------------------------------
Start(p) == at[p] = "new" /\ Pass(p, "read") /\ UNCHANGED marker

(* readMarker; an unreadable marker counts as absent. *)
ReadMarker(p) ==
  /\ Runs(p) /\ at[p] = "read"
  /\ Goto(p, "judge")
  /\ acq' = [acq EXCEPT ![p].seen = Text(marker)]
  /\ UNCHANGED marker

FreeToWrite(p) == acq[p].seen = Nobody /\ ~acq[p].again

(* A living owner refuses the start.  A dead one, or a torn text, is       *)
(* cleared first; after an EEXIST so is a marker that went away.           *)
Judge(p) ==
  /\ Runs(p) /\ at[p] = "judge"
  /\ Pass(p, IF Lives(acq[p].seen) THEN "refused"
             ELSE IF FreeToWrite(p) THEN "write" ELSE "reread")
  /\ UNCHANGED marker

Unchanged(p) == Text(marker) = acq[p].seen

(* Mutated forms of Reread: the marker is cleared without a second look;   *)
(* the rounds are not bounded.                                             *)
RereadNot(p) == Runs(p) /\ at[p] = "reread" /\ Pass(p, "unlink") /\ UNCHANGED marker

RereadForever(p) ==
  /\ Runs(p) /\ at[p] = "reread" /\ UNCHANGED marker
  /\ \/ Unchanged(p) /\ Pass(p, "unlink")
     \/ /\ ~Unchanged(p) /\ Goto(p, "read")
        /\ acq' = [acq EXCEPT ![p] = [NoAcquisition EXCEPT !.depth = acq[p].depth + 1]]

(* unlinkIfStill looks again.  Changed: somebody else took over, and the   *)
(* whole acquisition starts again, a bounded number of times.              *)
Reread(p) ==
  /\ Runs(p) /\ at[p] = "reread" /\ UNCHANGED marker
  /\ \/ Unchanged(p) /\ Pass(p, "unlink")
     \/ /\ ~Unchanged(p) /\ acq[p].depth < RetryDepthMax
        /\ Goto(p, "read")
        /\ acq' = [acq EXCEPT ![p] = [NoAcquisition EXCEPT !.depth = acq[p].depth + 1]]
     \/ ~Unchanged(p) /\ acq[p].depth >= RetryDepthMax /\ Pass(p, "refused")

(* Whatever is there now goes. *)
Unlink(p) == at[p] = "unlink" /\ marker' = Absent /\ Pass(p, "write")

(* The file is created if there is none. *)
Create(p) ==
  /\ Runs(p) /\ at[p] = "write" /\ marker = Absent
  /\ marker' = [by |-> p, torn |-> TRUE]
  /\ Pass(p, "fill")

(* EEXIST: the marker is judged once more; a second EEXIST is not caught.  *)
Exists(p) ==
  /\ Runs(p) /\ at[p] = "write" /\ marker # Absent /\ UNCHANGED marker
  /\ \/ acq[p].again /\ Pass(p, "refused")
     \/ /\ ~acq[p].again /\ Goto(p, "read")
        /\ acq' = [acq EXCEPT ![p].again = TRUE]

(* The text goes into the file that was created, even if it was unlinked.  *)
Fill(p) ==
  /\ at[p] = "fill"
  /\ marker' = IF marker.by = p THEN [marker EXCEPT !.torn = FALSE] ELSE marker
  /\ Pass(p, "open")

(* release: only the process's own marker is removed. *)
Compare(p, next) ==
  /\ Runs(p) /\ at[p] = "release"
  /\ Pass(p, IF Text(marker) = p THEN "clear" ELSE next)
  /\ UNCHANGED marker

Clear(p, next) == at[p] = "clear" /\ marker' = Absent /\ Pass(p, next)

Acquire(p) ==
  \/ ReadMarker(p) \/ Judge(p) \/ Reread(p) \/ Unlink(p)
  \/ Create(p) \/ Exists(p) \/ Fill(p)

=============================================================================
