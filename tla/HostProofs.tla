----------------------------- MODULE HostProofs -----------------------------
(***************************************************************************)
(* For any number of processes, any depth of the acquisition and any       *)
(* number of closers: the marker belongs to who may have it, a start that  *)
(* fails leaves none behind, and an exit does not hide lost writes.  When  *)
(* no process is preempted between a check and its act (Tight), one        *)
(* process at a time holds the directory.                                  *)
(***************************************************************************)
EXTENDS HostRuntime, TLAPS

Markers == [by : Owners, torn : BOOLEAN]
Acquisitions == [seen : Owners \cup {Torn}, depth : 0..RetryDepthMax, again : BOOLEAN]
Places == Outside \cup Acquiring \cup {"open", "up"} \cup Exiting

-----------------------------------------------------------------------------
(* The values the actions write.                                           *)
LEMMA MarkerValues ==
  /\ Absent \in Markers
  /\ \A p \in Processes : [by |-> p, torn |-> TRUE] \in Markers
  /\ \A b \in BOOLEAN : [by |-> Former, torn |-> b] \in Markers
  /\ \A m \in Markers : [m EXCEPT !.torn = FALSE] \in Markers
  /\ \A m \in Markers : Text(m) \in Owners \cup {Torn}
BY DEF Markers, Absent, Owners, Text

LEMMA AcquisitionValues ==
  /\ NoAcquisition \in Acquisitions
  /\ \A d \in 0..RetryDepthMax : [NoAcquisition EXCEPT !.depth = d] \in Acquisitions
  /\ \A a \in Acquisitions : [a EXCEPT !.again = TRUE] \in Acquisitions
<1>1. NoAcquisition \in Acquisitions
  BY MarkerAssumption DEF Acquisitions, NoAcquisition, Owners
<1>2. ASSUME NEW d \in 0..RetryDepthMax
      PROVE  [NoAcquisition EXCEPT !.depth = d] \in Acquisitions
  BY DEF Acquisitions, NoAcquisition, Owners
<1>3. ASSUME NEW a \in Acquisitions
      PROVE  [a EXCEPT !.again = TRUE] \in Acquisitions
  BY DEF Acquisitions
<1> QED BY <1>1, <1>2, <1>3

LEMMA NoExitTyped == NoExit \in Exits
BY SMT DEF NoExit, Exits

LEMMA ExitValues ==
  ASSUME NEW x \in Exits
  PROVE  /\ Flushed(x) \in Exits
         /\ [x EXCEPT !.broken = TRUE] \in Exits
         /\ [x EXCEPT !.expired = TRUE,
                      !.closer = [c \in 1..Closers |-> IF @[c] = "running" THEN "late" ELSE @[c]]]
              \in Exits
         /\ \A c \in 1..Closers, s \in {"running", "done"} : [x EXCEPT !.closer[c] = s] \in Exits
BY DEF Exits, Flushed

LEMMA HookTyped == Hook \in 0..Closers
BY ExitAssumption DEF Hook

LEMMA AppendedTypes ==
  ASSUME NEW p \in Processes, NEW x \in Exits, NEW w \in 0..Closers
  PROVE  Appended(p, x, w) \in Exits
BY DEF Appended, Exits

-----------------------------------------------------------------------------
(* Types.                                                                  *)
LEMMA InitTypes == Init => TypeOK
<1> SUFFICES ASSUME Init PROVE TypeOK
  OBVIOUS
<1>1. marker \in Markers
  BY MarkerValues DEF Init, MarkerInit
<1>2. acq \in [Processes -> Acquisitions]
  BY AcquisitionValues DEF Init, MarkerInit
<1>3. at \in [Processes -> Places]
  BY DEF Init, MarkerInit, Places, Outside
<1>4. exit \in [Processes -> Exits]
  BY NoExitTyped DEF Init
<1> QED BY <1>1, <1>2, <1>3, <1>4 DEF Init, TypeOK, MarkerTypeOK, Markers, Acquisitions, Places

(* What Pass leaves of the types.                                          *)
LEMMA PassTypes ==
  ASSUME TypeOK, NEW p \in Processes, NEW where \in Places, Pass(p, where)
  PROVE  at' \in [Processes -> Places] /\ acq' \in [Processes -> Acquisitions]
BY AcquisitionValues DEF TypeOK, MarkerTypeOK, Pass, Goto, Acquisitions, Places

(* A step that leaves the exit alone, or only that changes.                *)
LEMMA KeepsTypes ==
  ASSUME TypeOK, marker' \in Markers, at' \in [Processes -> Places],
         acq' \in [Processes -> Acquisitions], opened' \subseteq Processes,
         exit' \in [Processes -> Exits]
  PROVE  TypeOK'
BY DEF TypeOK, MarkerTypeOK, Markers, Acquisitions, Places

LEMMA AcquireTypes ==
  ASSUME TypeOK, NEW p \in Processes, Acquires(p)
  PROVE  TypeOK'
<1>1. marker \in Markers /\ Text(marker) \in Owners \cup {Torn}
  BY MarkerValues DEF TypeOK, MarkerTypeOK, Markers
<1>2. opened' \subseteq Processes /\ exit' \in [Processes -> Exits]
  BY DEF Acquires, TypeOK
<1>3. CASE Start(p) \/ Judge(p) \/ Unlink(p) \/ Create(p) \/ Fill(p)
  <2>1. \E where \in Places : Pass(p, where)
    BY <1>3 DEF Start, Judge, Unlink, Create, Fill, Places, Outside, Acquiring
  <2>2. marker' \in Markers
    BY <1>1, <1>3, MarkerValues DEF Start, Judge, Unlink, Create, Fill
  <2> QED BY <1>2, <2>1, <2>2, PassTypes, KeepsTypes
<1>4. CASE ReadMarker(p)
  <2>1. marker' \in Markers /\ at' \in [Processes -> Places]
    BY <1>1, <1>4 DEF ReadMarker, Goto, TypeOK, Places, Acquiring
  <2>2. acq' \in [Processes -> Acquisitions]
    BY <1>1, <1>4 DEF ReadMarker, TypeOK, MarkerTypeOK, Acquisitions
  <2> QED BY <1>2, <2>1, <2>2, KeepsTypes
<1>5. CASE Reread(p)
  <2>1. CASE \E where \in {"unlink", "refused"} : Pass(p, where)
    BY <1>1, <1>2, <1>5, <2>1, PassTypes, KeepsTypes DEF Reread, Places, Outside, Acquiring
  <2>2. CASE ~\E where \in {"unlink", "refused"} : Pass(p, where)
    <3>1. acq[p].depth + 1 \in 0..RetryDepthMax
      BY <1>5, <2>2, MarkerAssumption DEF Reread, TypeOK, MarkerTypeOK
    <3>2. marker' \in Markers /\ at' \in [Processes -> Places]
      BY <1>1, <1>5, <2>2 DEF Reread, Goto, TypeOK, Places, Acquiring
    <3>3. acq' \in [Processes -> Acquisitions]
      BY <1>5, <2>2, <3>1, AcquisitionValues DEF Reread, TypeOK, MarkerTypeOK, Acquisitions
    <3> QED BY <1>2, <3>2, <3>3, KeepsTypes
  <2> QED BY <2>1, <2>2
<1>6. CASE Exists(p)
  <2>1. CASE Pass(p, "refused")
    BY <1>1, <1>2, <1>6, <2>1, PassTypes, KeepsTypes DEF Exists, Places, Outside
  <2>2. CASE ~Pass(p, "refused")
    <3>1. marker' \in Markers /\ at' \in [Processes -> Places]
      BY <1>1, <1>6, <2>2 DEF Exists, Goto, TypeOK, Places, Acquiring
    <3>2. acq' \in [Processes -> Acquisitions]
      <4>1. acq \in [Processes -> Acquisitions]
        BY DEF TypeOK, MarkerTypeOK, Acquisitions
      <4>2. acq' = [acq EXCEPT ![p] = [acq[p] EXCEPT !.again = TRUE]]
        BY <1>6, <2>2 DEF Exists
      <4> QED BY <4>1, <4>2, AcquisitionValues
    <3> QED BY <1>2, <3>1, <3>2, KeepsTypes
  <2> QED BY <2>1, <2>2
<1> QED BY <1>3, <1>4, <1>5, <1>6 DEF Acquires, Acquire

(* The steps of the process after its acquisition.                         *)
Later(p) ==
  \/ Open(p) \/ OpenFails(p) \/ Shutdown(p) \/ Crash(p) \/ ChainBreaks(p) \/ ExitStep(p)
  \/ \E c \in 1..Closers : RunCloser(p, c) \/ CloserEnds(p, c)

LEMMA LaterTypes ==
  ASSUME TypeOK, NEW p \in Processes, Later(p)
  PROVE  TypeOK'
<1>0. /\ marker \in Markers /\ at \in [Processes -> Places] /\ acq \in [Processes -> Acquisitions]
      /\ opened \subseteq Processes /\ exit \in [Processes -> Exits] /\ exit[p] \in Exits
  BY DEF TypeOK, MarkerTypeOK, Markers, Places, Acquisitions
<1>3. CASE Open(p) \/ OpenFails(p) \/ Shutdown(p) \/ Crash(p) \/ Drained(p) \/ Flush(p)
           \/ Close(p) \/ Leave(p)
  <2>1. \E where \in Places : Pass(p, where)
    BY <1>3 DEF Open, OpenFails, Shutdown, Crash, Drained, Flush, Close, Leave, Step,
                Places, Outside, Exiting
  <2>2. marker' \in Markers /\ opened' \subseteq Processes
    BY <1>0, <1>3 DEF Open, OpenFails, Shutdown, Crash, Drained, Flush, Close, Leave, Step
  <2>3. exit' \in [Processes -> Exits]
    BY <1>0, <1>3, ExitValues, NoExitTyped
    DEF Open, OpenFails, Shutdown, Crash, Drained, Flush, Close, Leave
  <2> QED BY <2>1, <2>2, <2>3, PassTypes, KeepsTypes
<1>4. CASE Hooks(p)
  <2>1. Pass(p, "release") /\ "release" \in Places /\ marker' \in Markers /\ opened' \subseteq Processes
    BY <1>0, <1>4 DEF Hooks, Step, Places, Exiting
  <2>2. exit' \in [Processes -> Exits]
    BY <1>0, <1>4, AppendedTypes, HookTyped DEF Hooks
  <2> QED BY <2>1, <2>2, PassTypes, KeepsTypes
<1>5. CASE Releases(p)
  <2>1. \E where \in Places : Pass(p, where)
    BY <1>5 DEF Releases, Compare, Clear, AfterRelease, Places, Outside, Exiting
  <2>2. marker' \in Markers /\ opened' = opened /\ exit' = exit
    BY <1>0, <1>5, MarkerValues DEF Releases, Compare, Clear
  <2> QED BY <1>0, <2>1, <2>2, PassTypes, KeepsTypes
<1>6. CASE ChainBreaks(p) \/ Expire(p)
  <2>1. exit' \in [Processes -> Exits]
    BY <1>0, <1>6, ExitValues DEF ChainBreaks, Expire
  <2> QED BY <1>0, <1>6, <2>1, KeepsTypes DEF ChainBreaks, Expire, markerVars
<1>7. ASSUME NEW c \in 1..Closers, RunCloser(p, c) \/ CloserEnds(p, c)
      PROVE  TypeOK'
  <2>1. /\ [exit[p] EXCEPT !.closer[c] = "done"] \in Exits
        /\ [exit[p] EXCEPT !.closer[c] = "running"] \in Exits
    BY <1>0, ExitValues
  <2>2. Appended(p, [exit[p] EXCEPT !.closer[c] = "done"], c) \in Exits
    BY <2>1, ExitAssumption, AppendedTypes
  <2>3. exit' \in [Processes -> Exits]
    BY <1>0, <1>7, <2>1, <2>2 DEF RunCloser, CloserEnds
  <2> QED BY <1>0, <1>7, <2>3, KeepsTypes DEF RunCloser, CloserEnds, markerVars
<1> QED BY <1>3, <1>4, <1>5, <1>6, <1>7 DEF Later, ExitStep

(* Every step is a step of one process: part of its acquisition, or later. *)
LEMMA NextIs == Next <=> \E p \in Processes : Acquires(p) \/ Later(p)
BY DEF Next, Later

LEMMA NextTypes == TypeOK /\ [Next]_vars => TypeOK'
<1> SUFFICES ASSUME TypeOK, [Next]_vars PROVE TypeOK'
  OBVIOUS
<1>1. CASE Next
  BY <1>1, NextIs, AcquireTypes, LaterTypes
<1>2. CASE UNCHANGED vars
  BY <1>2 DEF vars, markerVars, TypeOK, MarkerTypeOK
<1> QED BY <1>1, <1>2

(* Every variable has its type, for any number of processes and closers.   *)
THEOREM HostTypes == Spec => []TypeOK
BY InitTypes, NextTypes, PTL DEF Spec

-----------------------------------------------------------------------------
(* Whose the marker may be.                                                *)
Ended == {"refused", "gone", "dead"}
Owning == {"fill", "open", "up", "closers", "flush", "hooks", "release", "clear", "dead"}

(* Between its creation and its release, or the death of its owner; empty  *)
(* only until it is filled.                                                *)
OwnedWhile == \A p \in Processes : marker.by = p => at[p] \in Owning
FilledSoon == \A p \in Processes : marker.by = p /\ marker.torn => at[p] \in {"fill", "dead"}
MarkerInv == TypeOK /\ OwnedWhile /\ FilledSoon

(* One process moves.                                                      *)
LEMMA Moves ==
  ASSUME TypeOK, NEW p \in Processes, NEW where, Pass(p, where)
  PROVE  /\ at'[p] = where /\ \A q \in Processes \ {p} : at'[q] = at[q]
         /\ \A q \in Processes \ {p} : acq'[q] = acq[q]
         /\ where \in Acquiring => acq'[p] = acq[p]
BY DEF TypeOK, MarkerTypeOK, Pass, Goto

LEMMA Fields ==
  ASSUME TypeOK, NEW p \in Processes
  PROVE  /\ Absent.by # p
         /\ [by |-> p, torn |-> TRUE].by = p /\ [by |-> p, torn |-> FALSE].by = p
         /\ [marker EXCEPT !.torn = FALSE].by = marker.by /\ ~[marker EXCEPT !.torn = FALSE].torn
BY MarkerAssumption DEF Absent, TypeOK, MarkerTypeOK

LEMMA InitMarker == Init => MarkerInv
<1> SUFFICES ASSUME Init PROVE MarkerInv
  OBVIOUS
<1>1. marker.by \notin Processes
  BY MarkerAssumption DEF Init, MarkerInit, Absent
<1> QED BY <1>1, InitTypes DEF MarkerInv, OwnedWhile, FilledSoon

(* The steps that move p within Owning, or from outside of it, and leave   *)
(* the marker alone.                                                       *)
LEMMA PlainMarker ==
  ASSUME MarkerInv, NEW p \in Processes, NEW where, Pass(p, where), marker' = marker,
         at[p] \notin Owning \/ where = "dead"
           \/ (at[p] # "fill" /\ at[p] # "dead" /\ where \in Owning)
  PROVE  OwnedWhile' /\ FilledSoon'
BY Moves DEF MarkerInv, OwnedWhile, FilledSoon, Owning

LEMMA StepMarker ==
  ASSUME MarkerInv, NEW p \in Processes, Acquires(p) \/ Later(p)
  PROVE  OwnedWhile' /\ FilledSoon'
<1> USE DEF MarkerInv
<1>1. CASE \E where : Pass(p, where) /\ marker' = marker
                 /\ \/ at[p] \notin Owning \/ where = "dead"
                    \/ at[p] # "fill" /\ at[p] # "dead" /\ where \in Owning
  BY <1>1, PlainMarker
<1>2. CASE Start(p) \/ Judge(p) \/ Open(p) \/ OpenFails(p) \/ Shutdown(p) \/ Crash(p)
           \/ Drained(p) \/ Flush(p) \/ Hooks(p) \/ Close(p) \/ Leave(p)
  BY <1>1, <1>2 DEF Start, Judge, Open, OpenFails, Shutdown, Crash, Drained, Flush, Hooks, Close,
                    Leave, Step, Owning
<1>3. CASE ReadMarker(p) \/ Reread(p) \/ Exists(p)
  <2>1. CASE \E where : Pass(p, where)
    BY <1>1, <1>3, <2>1 DEF ReadMarker, Reread, Exists, Owning
  <2>2. CASE Goto(p, "read") \/ Goto(p, "judge")
    <3>1. at[p] \notin Owning /\ marker' = marker
      BY <1>3 DEF ReadMarker, Reread, Exists, Owning
    <3>2. \A q \in Processes \ {p} : at'[q] = at[q]
      BY <2>2 DEF Goto, TypeOK
    <3> QED BY <3>1, <3>2 DEF OwnedWhile, FilledSoon, Owning
  <2> QED BY <1>3, <2>1, <2>2 DEF ReadMarker, Reread, Exists
<1>4. CASE Unlink(p) \/ (at[p] = "clear" /\ marker' = Absent)
  BY <1>4, Fields DEF Unlink, OwnedWhile, FilledSoon
<1>5. CASE Create(p)
  <2>1. marker'.by = p /\ at'[p] = "fill"
    BY <1>5, Moves, Fields DEF Create
  <2> QED BY <2>1 DEF OwnedWhile, FilledSoon, Owning
<1>6. CASE Fill(p)
  <2>1. at'[p] = "open" /\ \A q \in Processes \ {p} : at'[q] = at[q]
    BY <1>6, Moves DEF Fill
  <2>2. CASE marker.by = p
    <3>1. marker'.by = p /\ ~marker'.torn
      BY <1>6, <2>2, Fields DEF Fill
    <3> QED BY <2>1, <3>1 DEF OwnedWhile, FilledSoon, Owning
  <2>3. CASE marker.by # p
    BY <1>6, <2>1, <2>3 DEF Fill, OwnedWhile, FilledSoon
  <2> QED BY <2>2, <2>3
<1>7. CASE Compare(p, AfterRelease(p))
  <2>1. CASE Text(marker) = p
    BY <1>1, <1>7, <2>1 DEF Compare, Owning
  <2>2. CASE Text(marker) # p
    <3>1. marker.by # p
      BY <1>7, <2>2 DEF Compare, Text, FilledSoon
    <3>2. marker' = marker /\ \A q \in Processes \ {p} : at'[q] = at[q]
      BY <1>7, Moves DEF Compare
    <3> QED BY <3>1, <3>2 DEF OwnedWhile, FilledSoon
  <2> QED BY <2>1, <2>2
<1>8. CASE UNCHANGED markerVars
  BY <1>8 DEF markerVars, OwnedWhile, FilledSoon
<1> QED BY <1>2, <1>3, <1>4, <1>5, <1>6, <1>7, <1>8
        DEF Acquires, Acquire, Later, ExitStep, Releases, Clear, RunCloser, CloserEnds,
            ChainBreaks, Expire

LEMMA NextMarker == MarkerInv /\ [Next]_vars => MarkerInv'
<1> SUFFICES ASSUME MarkerInv, [Next]_vars PROVE MarkerInv'
  OBVIOUS
<1>1. TypeOK'
  BY NextTypes DEF MarkerInv
<1>2. CASE Next
  BY <1>1, <1>2, NextIs, StepMarker DEF MarkerInv
<1>3. CASE UNCHANGED vars
  BY <1>1, <1>3 DEF vars, markerVars, MarkerInv, OwnedWhile, FilledSoon
<1> QED BY <1>2, <1>3

LEMMA MarkerHolds == Spec => []MarkerInv
BY InitMarker, NextMarker, PTL DEF Spec

(* A start that ends without the directory leaves no marker of its own,    *)
(* whatever other processes do and however they are preempted.             *)
THEOREM NoMarkerIsLeft == Spec => []NoMarkerLeft
<1>1. MarkerInv => NoMarkerLeft
  BY DEF MarkerInv, OwnedWhile, NoMarkerLeft, Owning
<1> QED BY <1>1, MarkerHolds, PTL

-----------------------------------------------------------------------------
(* The writes of the exit: once the database is closed they are in it, or  *)
(* the exit knows that they are not.                                       *)
Told(p) == exit[p].queued = {} \/ exit[p].failure
Honest == \A p \in Processes : at[p] \in {"closed", "gone"} => Told(p)
HonestInv == TypeOK /\ Honest

LEMMA FlushedTells ==
  ASSUME NEW x \in Exits
  PROVE  Flushed(x).queued = {} \/ Flushed(x).failure
BY DEF Exits, Flushed

LEMMA InitHonest == Init => HonestInv
BY InitTypes DEF Init, MarkerInit, HonestInv, Honest

LEMMA StepHonest ==
  ASSUME HonestInv, NEW p \in Processes, Acquires(p) \/ Later(p)
  PROVE  Honest'
<1> USE DEF HonestInv
<1>0. exit[p] \in Exits /\ exit \in [Processes -> Exits] /\ at \in [Processes -> Places]
  BY DEF TypeOK, Places
<1>1. CASE exit' = exit /\ \E where : at' = [at EXCEPT ![p] = where] /\ where \notin {"closed", "gone"}
  BY <1>0, <1>1 DEF Honest, Told
<1>2. CASE Acquires(p)
  BY <1>1, <1>2 DEF Acquires, Start, Acquire, ReadMarker, Judge, Reread, Unlink, Create, Exists,
                    Fill, Pass, Goto
<1>3. CASE Open(p) \/ OpenFails(p) \/ Shutdown(p) \/ Drained(p) \/ Releases(p)
  BY <1>1, <1>3 DEF Open, OpenFails, Shutdown, Drained, Releases, Compare, Clear, AfterRelease,
                    Step, Pass, Goto
<1>4. CASE Crash(p) \/ Flush(p) \/ Hooks(p)
  <2>1. at'[p] \notin {"closed", "gone"}
    BY <1>0, <1>4 DEF Crash, Flush, Hooks, Step, Pass, Goto
  <2>2. \A q \in Processes \ {p} : at'[q] = at[q] /\ exit'[q] = exit[q]
    BY <1>0, <1>4 DEF Crash, Flush, Hooks, Step, Pass, Goto
  <2> QED BY <2>1, <2>2 DEF Honest, Told
<1>5. CASE Close(p)
  <2>1. exit'[p] = Flushed(exit[p])
    BY <1>0, <1>5 DEF Close
  <2>2. \A q \in Processes \ {p} : at'[q] = at[q] /\ exit'[q] = exit[q]
    BY <1>0, <1>5 DEF Close, Step, Pass, Goto
  <2> QED BY <1>0, <2>1, <2>2, FlushedTells DEF Honest, Told
<1>6. CASE Leave(p)
  <2>1. at[p] = "closed" /\ exit' = exit /\ \A q \in Processes \ {p} : at'[q] = at[q]
    BY <1>0, <1>6 DEF Leave, Step, Pass, Goto
  <2> QED BY <2>1 DEF Honest, Told
<1>7. CASE ChainBreaks(p) \/ Expire(p) \/ \E c \in 1..Closers : RunCloser(p, c)
  <2>1. at' = at /\ at[p] \notin {"closed", "gone"}
    BY <1>7 DEF ChainBreaks, Expire, RunCloser, Lives, Outside, markerVars
  <2>2. \A q \in Processes \ {p} : exit'[q] = exit[q]
    BY <1>0, <1>7 DEF ChainBreaks, Expire, RunCloser
  <2> QED BY <2>1, <2>2 DEF Honest, Told
<1>8. ASSUME NEW c \in 1..Closers, CloserEnds(p, c)
      PROVE  Honest'
  <2>1. at' = at /\ at[p] # "gone" /\ \A q \in Processes \ {p} : exit'[q] = exit[q]
    BY <1>0, <1>8 DEF CloserEnds, Lives, Outside, markerVars
  <2>2. CASE at[p] = "closed"
    <3>1. [exit[p] EXCEPT !.closer[c] = "done"] \in Exits
      BY <1>0, ExitValues
    <3>2. exit'[p].failure
      BY <1>0, <1>8, <2>2, <3>1 DEF CloserEnds, Appended, Exits
    <3> QED BY <2>1, <3>2 DEF Honest, Told
  <2>3. CASE at[p] # "closed"
    BY <2>1, <2>3 DEF Honest, Told
  <2> QED BY <2>2, <2>3
<1> QED BY <1>2, <1>3, <1>4, <1>5, <1>6, <1>7, <1>8 DEF Later, ExitStep

LEMMA NextHonest == HonestInv /\ [Next]_vars => HonestInv'
<1> SUFFICES ASSUME HonestInv, [Next]_vars PROVE HonestInv'
  OBVIOUS
<1>1. TypeOK'
  BY NextTypes DEF HonestInv
<1>2. CASE Next
  BY <1>1, <1>2, NextIs, StepHonest DEF HonestInv
<1>3. CASE UNCHANGED vars
  BY <1>1, <1>3 DEF vars, markerVars, HonestInv, Honest, Told
<1> QED BY <1>2, <1>3

(* Every accepted write of a closer or a hook is in the database when the  *)
(* process leaves, or the exit code says that writes were lost: for any    *)
(* number of closers, given up or not.                                     *)
THEOREM ExitHidesNothing == Spec => []ExitIsHonest
<1>1. HonestInv => ExitIsHonest
  BY DEF HonestInv, Honest, Told, ExitIsHonest
<1> QED BY <1>1, InitHonest, NextHonest, PTL DEF Spec

-----------------------------------------------------------------------------
(* One process at a time holds the directory.  Without the assumption that *)
(* no process is preempted inside a check-and-act pair this is false.      *)
OneWindow == \A p, q \in Processes : at[p] \in Windows /\ at[q] \in Windows => p = q
HolderMarked ==
  \A p \in Processes : Holds(p) => marker.by = p /\ ~marker.torn
FillMarked == \A p \in Processes : at[p] = "fill" => marker.by = p

(* What an acquisition learned of the owner of the marker it saw stays so: *)
(* who was started stays started, who has ended does not come back.  So    *)
(* the marker about to be unlinked is that of a process that died.         *)
SeenStarted ==
  \A p \in Processes :
    at[p] = "judge" /\ acq[p].seen \in Processes => at[acq[p].seen] # "new"
SeenEnded ==
  \A p \in Processes :
    at[p] = "reread" /\ acq[p].seen \in Processes => at[acq[p].seen] \in Ended
UnlinkFree ==
  \A p \in Processes :
    at[p] = "unlink" /\ marker.by \in Processes => at[marker.by] = "dead"

HolderInv ==
  /\ MarkerInv /\ OneWindow /\ HolderMarked /\ FillMarked
  /\ SeenStarted /\ SeenEnded /\ UnlinkFree

HolderParts == OneWindow /\ HolderMarked /\ FillMarked /\ SeenStarted /\ SeenEnded /\ UnlinkFree

LEMMA InitHolder == Init => HolderInv
BY InitMarker
DEF Init, MarkerInit, HolderInv, OneWindow, HolderMarked, FillMarked, SeenStarted, SeenEnded,
    UnlinkFree, Windows, Holds, Exiting

(* A move of p that leaves the marker alone and enters no window.          *)
LEMMA PlainHolder ==
  ASSUME HolderInv, NEW p \in Processes, NEW where, at' = [at EXCEPT ![p] = where],
         marker' = marker, \A q \in Processes \ {p} : acq'[q] = acq[q],
         where \notin Windows \cup {"judge", "reread", "new"},
         where \in {"open", "up"} \cup (Exiting \ {"close", "closed"}) => Holds(p),
         at[p] \notin Ended
  PROVE  HolderParts'
<1> USE DEF HolderInv
<1>1. at'[p] = where /\ \A q \in Processes \ {p} : at'[q] = at[q]
  BY DEF MarkerInv, TypeOK
<1>2. OneWindow' /\ FillMarked' /\ HolderMarked'
  BY <1>1 DEF OneWindow, FillMarked, HolderMarked, Holds, Windows
<1>3. SeenStarted' /\ SeenEnded'
  BY <1>1 DEF SeenStarted, SeenEnded, Ended
<1>4. UnlinkFree'
  BY <1>1 DEF UnlinkFree, Windows, Ended
<1> QED BY <1>2, <1>3, <1>4 DEF HolderParts

LEMMA ReadHolder ==
  ASSUME HolderInv, NEW p \in Processes, ReadMarker(p)
  PROVE  HolderParts'
<1> USE DEF HolderInv
<1>1. /\ at'[p] = "judge" /\ \A q \in Processes \ {p} : at'[q] = at[q] /\ acq'[q] = acq[q]
      /\ acq'[p].seen = Text(marker) /\ marker' = marker /\ at[p] = "read"
  BY DEF ReadMarker, Goto, MarkerInv, TypeOK, MarkerTypeOK
<1>2. OneWindow' /\ FillMarked' /\ HolderMarked' /\ UnlinkFree'
  BY <1>1 DEF OneWindow, FillMarked, HolderMarked, Holds, Exiting, Windows, UnlinkFree
<1>3. SeenEnded'
  BY <1>1 DEF SeenEnded, Ended
<1>4. SeenStarted'
  <2>1. Text(marker) \in Processes => marker.by = Text(marker) /\ at[marker.by] \in Owning
    BY MarkerAssumption DEF Text, MarkerInv, OwnedWhile
  <2> QED BY <1>1, <2>1 DEF SeenStarted, Owning
<1> QED BY <1>2, <1>3, <1>4 DEF HolderParts

LEMMA JudgeHolder ==
  ASSUME HolderInv, NEW p \in Processes, Judge(p)
  PROVE  HolderParts'
<1> USE DEF HolderInv
<1>1. PICK where \in {"refused", "write", "reread"} :
        /\ at' = [at EXCEPT ![p] = where] /\ Pass(p, where)
        /\ where = "reread" => ~Lives(acq[p].seen)
  BY DEF Judge, Pass, Goto
<1>2. /\ at'[p] = where /\ \A q \in Processes \ {p} : at'[q] = at[q] /\ acq'[q] = acq[q]
      /\ marker' = marker /\ at[p] = "judge"
      /\ where = "reread" => acq'[p] = acq[p]
  BY <1>1, Moves DEF Judge, MarkerInv, Acquiring
<1>3. CASE where # "reread"
  BY <1>1, <1>2, <1>3, PlainHolder DEF Windows, Exiting, Ended
<1>4. CASE where = "reread"
  <2>1. OneWindow' /\ FillMarked' /\ HolderMarked' /\ UnlinkFree' /\ SeenStarted'
    BY <1>2, <1>4 DEF OneWindow, FillMarked, HolderMarked, Holds, Exiting, Windows, UnlinkFree,
                      SeenStarted
  <2>2. acq[p].seen \in Processes => acq[p].seen # p /\ at[acq[p].seen] \in Ended
    BY <1>1, <1>2, <1>4 DEF Lives, Outside, SeenStarted, Ended
  <2>3. SeenEnded'
    BY <1>2, <1>4, <2>2 DEF SeenEnded, Ended
  <2> QED BY <2>1, <2>3 DEF HolderParts
<1> QED BY <1>3, <1>4

(* What is unlinked was a dead process's: nobody else can be filling it.   *)
LEMMA RereadHolder ==
  ASSUME HolderInv, Tight, NEW p \in Processes, Reread(p)
  PROVE  HolderParts'
<1> USE DEF HolderInv
<1>1. PICK where \in {"unlink", "read", "refused"} :
        /\ at' = [at EXCEPT ![p] = where]
        /\ where = "unlink" => Unchanged(p)
  BY DEF Reread, Pass, Goto
<1>2. /\ at'[p] = where /\ \A q \in Processes \ {p} : at'[q] = at[q] /\ acq'[q] = acq[q]
      /\ marker' = marker /\ at[p] = "reread"
  BY <1>1 DEF Reread, Pass, MarkerInv, TypeOK, MarkerTypeOK
<1>3. CASE where # "unlink"
  BY <1>1, <1>2, <1>3, PlainHolder DEF Windows, Exiting, Ended
<1>4. CASE where = "unlink"
  <2>1. \A q \in Processes : at[q] \notin Windows
    BY <1>2 DEF Reread, Runs, Windows
  <2>2. OneWindow' /\ FillMarked' /\ HolderMarked' /\ SeenStarted' /\ SeenEnded'
    BY <1>2, <1>4, <2>1 DEF OneWindow, FillMarked, HolderMarked, Holds, Exiting, Windows,
                            SeenStarted, SeenEnded, Ended
  <2>3. marker.by \in Processes => at[marker.by] = "dead"
    <3>1. CASE marker.torn
      BY <2>1, <3>1 DEF MarkerInv, FilledSoon, Windows
    <3>2. CASE ~marker.torn
      <4>1. acq[p].seen = marker.by
        BY <1>1, <1>4, <3>2 DEF Unchanged, Text
      <4> QED BY <1>2, <4>1 DEF SeenEnded, MarkerInv, OwnedWhile, Ended, Owning
    <3> QED BY <3>1, <3>2
  <2>4. UnlinkFree'
    BY <1>2, <2>1, <2>3 DEF UnlinkFree, Windows
  <2> QED BY <2>2, <2>4 DEF HolderParts
<1> QED BY <1>3, <1>4

(* Once the marker is gone nobody holds, and nobody fills.                 *)
LEMMA ClearedHolder ==
  ASSUME HolderInv, NEW p \in Processes, NEW where \in {"write", "close", "refused"},
         Pass(p, where), marker' = Absent,
         at[p] = "unlink" \/ at[p] = "clear"
  PROVE  HolderParts'
<1> USE DEF HolderInv
<1>1. at'[p] = where /\ \A q \in Processes \ {p} : at'[q] = at[q] /\ acq'[q] = acq[q]
  BY Moves DEF MarkerInv
<1>2. \A q \in Processes \ {p} : at[q] \notin Windows
  BY DEF OneWindow, Windows
<1>3. \A q \in Processes \ {p} : ~Holds(q)
  <2>1. SUFFICES ASSUME NEW q \in Processes \ {p}, Holds(q) PROVE FALSE
    OBVIOUS
  <2>2. marker.by = q
    BY <2>1 DEF HolderMarked
  <2>3. CASE at[p] = "unlink"
    BY <2>1, <2>2, <2>3 DEF UnlinkFree, Holds, Exiting
  <2>4. CASE at[p] = "clear"
    BY <2>2, <2>4 DEF HolderMarked, Holds, Exiting
  <2> QED BY <2>3, <2>4
<1>4. HolderMarked'
  BY <1>1, <1>3 DEF HolderMarked, Holds, Exiting
<1>5. OneWindow' /\ FillMarked' /\ UnlinkFree'
  BY <1>1, <1>2 DEF OneWindow, FillMarked, UnlinkFree, Windows
<1>6. SeenStarted' /\ SeenEnded'
  BY <1>1 DEF SeenStarted, SeenEnded, Ended
<1> QED BY <1>4, <1>5, <1>6 DEF HolderParts

LEMMA CreateHolder ==
  ASSUME HolderInv, Tight, NEW p \in Processes, Create(p)
  PROVE  HolderParts'
<1> USE DEF HolderInv
<1>1. /\ at'[p] = "fill" /\ \A q \in Processes \ {p} : at'[q] = at[q] /\ acq'[q] = acq[q]
      /\ marker'.by = p
  BY Moves, Fields DEF Create, MarkerInv
<1>2. \A q \in Processes : at[q] \notin Windows
  BY DEF Create, Runs, Windows
<1>3. \A q \in Processes : ~Holds(q)
  BY Fields DEF Create, HolderMarked, MarkerInv
<1>4. HolderMarked'
  BY <1>1, <1>3 DEF HolderMarked, Holds, Exiting
<1>5. OneWindow' /\ FillMarked' /\ UnlinkFree'
  BY <1>1, <1>2 DEF OneWindow, FillMarked, UnlinkFree, Windows
<1>6. SeenStarted' /\ SeenEnded'
  BY <1>1 DEF Create, SeenStarted, SeenEnded, Ended
<1> QED BY <1>4, <1>5, <1>6 DEF HolderParts

LEMMA ExistsHolder ==
  ASSUME HolderInv, NEW p \in Processes, Exists(p)
  PROVE  HolderParts'
<1> USE DEF HolderInv
<1>1. PICK where \in {"read", "refused"} : at' = [at EXCEPT ![p] = where]
  BY DEF Exists, Pass, Goto
<1>2. marker' = marker /\ at[p] = "write" /\ \A q \in Processes \ {p} : acq'[q] = acq[q]
  BY DEF Exists, Pass, MarkerInv, TypeOK, MarkerTypeOK
<1> QED BY <1>1, <1>2, PlainHolder DEF Windows, Exiting, Ended

LEMMA FillHolder ==
  ASSUME HolderInv, NEW p \in Processes, Fill(p)
  PROVE  HolderParts'
<1> USE DEF HolderInv
<1>1. /\ at'[p] = "open" /\ \A q \in Processes \ {p} : at'[q] = at[q] /\ acq'[q] = acq[q]
      /\ at[p] = "fill" /\ marker.by = p
  BY Moves DEF Fill, MarkerInv, FillMarked
<1>2. marker'.by = p /\ ~marker'.torn
  BY <1>1, Fields DEF Fill, MarkerInv
<1>3. \A q \in Processes \ {p} : ~Holds(q) /\ at[q] \notin Windows
  BY <1>1 DEF HolderMarked, OneWindow, Windows
<1>4. HolderMarked' /\ OneWindow' /\ FillMarked' /\ UnlinkFree'
  BY <1>1, <1>2, <1>3 DEF HolderMarked, Holds, OneWindow, FillMarked, UnlinkFree, Windows
<1>5. SeenStarted' /\ SeenEnded'
  BY <1>1 DEF SeenStarted, SeenEnded, Ended
<1> QED BY <1>4, <1>5 DEF HolderParts

LEMMA CompareHolder ==
  ASSUME HolderInv, Tight, NEW p \in Processes, Compare(p, AfterRelease(p))
  PROVE  HolderParts'
<1> USE DEF HolderInv
<1>1. Text(marker) = p
  BY DEF Compare, HolderMarked, Holds, Exiting, Text
<1>2. /\ at'[p] = "clear" /\ \A q \in Processes \ {p} : at'[q] = at[q] /\ acq'[q] = acq[q]
      /\ at[p] = "release" /\ marker' = marker
  BY <1>1, Moves DEF Compare, MarkerInv
<1>3. \A q \in Processes : at[q] \notin Windows
  BY <1>2 DEF Compare, Runs, Windows
<1>4. HolderMarked' /\ OneWindow' /\ FillMarked' /\ UnlinkFree'
  BY <1>2, <1>3 DEF HolderMarked, Holds, Exiting, OneWindow, FillMarked, UnlinkFree, Windows
<1>5. SeenStarted' /\ SeenEnded'
  BY <1>2 DEF SeenStarted, SeenEnded, Ended
<1> QED BY <1>4, <1>5 DEF HolderParts

LEMMA StepHolder ==
  ASSUME HolderInv, Tight, NEW p \in Processes, Acquires(p) \/ Later(p)
  PROVE  HolderParts'
<1> USE DEF HolderInv
<1>1. CASE Start(p) \/ Open(p) \/ OpenFails(p) \/ Shutdown(p) \/ Crash(p)
           \/ Drained(p) \/ Flush(p) \/ Hooks(p) \/ Close(p) \/ Leave(p)
  <2>1. PICK where \in {"read", "up", "release", "closers", "dead", "flush", "hooks", "closed", "gone"} :
          /\ Pass(p, where) /\ marker' = marker /\ at[p] \notin Ended
          /\ where \in {"up", "release", "closers", "flush", "hooks"} => Holds(p)
    BY <1>1 DEF Start, Open, OpenFails, Shutdown, Crash, Drained, Flush, Hooks, Close, Leave,
                Step, Ended, Lives, Outside, Holds, Exiting
  <2>2. at' = [at EXCEPT ![p] = where] /\ \A q \in Processes \ {p} : acq'[q] = acq[q]
    BY <2>1, Moves DEF Pass, Goto, MarkerInv
  <2> QED BY <2>1, <2>2, PlainHolder DEF Windows, Exiting
<1>2. CASE Acquire(p)
  <2>1. CASE Unlink(p)
    BY <2>1, ClearedHolder DEF Unlink
  <2> QED BY <1>2, <2>1, ReadHolder, JudgeHolder, RereadHolder, CreateHolder, ExistsHolder,
             FillHolder DEF Acquire
<1>3. CASE Releases(p)
  <2>1. CASE Clear(p, AfterRelease(p))
    BY <2>1, ClearedHolder DEF Clear, AfterRelease
  <2> QED BY <1>3, <2>1, CompareHolder DEF Releases
<1>4. CASE UNCHANGED markerVars
  BY <1>4 DEF markerVars, HolderParts, OneWindow, HolderMarked, FillMarked, SeenStarted, SeenEnded,
              UnlinkFree, Holds
<1> QED BY <1>1, <1>2, <1>3, <1>4
        DEF Acquires, Later, ExitStep, RunCloser, CloserEnds, ChainBreaks, Expire

LEMMA NextHolder == Tight /\ HolderInv /\ [Next]_vars => HolderInv'
<1> SUFFICES ASSUME Tight, HolderInv, [Next]_vars PROVE HolderInv'
  OBVIOUS
<1>1. MarkerInv'
  BY NextMarker DEF HolderInv
<1>2. CASE Next
  BY <1>1, <1>2, NextIs, StepHolder DEF HolderInv, HolderParts
<1>3. CASE UNCHANGED vars
  BY <1>1, <1>3 DEF vars, markerVars, HolderInv, OneWindow, HolderMarked, FillMarked,
                    SeenStarted, SeenEnded, UnlinkFree, Holds
<1> QED BY <1>2, <1>3

(* At most one process is between the end of its acquisition and the       *)
(* release of the marker, for any number of processes starting, crashing   *)
(* and exiting in any order, provided that none is preempted between a     *)
(* check of the marker and the act it allows.                              *)
THEOREM OneHolderWhenTight == ASSUME Tight PROVE Spec => []OneHolder
<1>1. HolderInv => OneHolder
  BY DEF HolderInv, HolderMarked, OneHolder
<1>2. HolderInv /\ [Next]_vars => HolderInv'
  BY NextHolder
<1> QED BY <1>1, <1>2, InitHolder, PTL DEF Spec

=============================================================================
