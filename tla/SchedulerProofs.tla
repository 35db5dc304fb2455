-------------------------- MODULE SchedulerProofs ---------------------------
(***************************************************************************)
(* For any hosts, tick processes, calls and failures, and however long     *)
(* instances take to end: the types, and that the job runs once at a time  *)
(* as long as no entry of a process is taken for an earlier one of it.     *)
(***************************************************************************)
EXTENDS Scheduler, TLAPS

InSection == {"prev", "look", "claim", "spawning"}
Registering == {"running", "ended"}

(* A record that is in use has an engine of a process that lives.          *)
Lives ==
  \A f \in Fires :
    IF At(f, "none") THEN Eng(f) = NoEngine ELSE Eng(f) \in Engines /\ Own(f) \in alive

(* A tick process has one call.                                            *)
TickHasOne ==
  \A f, g \in Fires : Own(f) \in Ticks /\ Own(f) = Own(g) => f = g

(* The chain of an engine holds its calls up to their registration, each   *)
(* once; all but the first are queued.                                     *)
ChainHolds ==
  \A e \in Engines :
    /\ \A i \in 1..Len(chain[e]) :
         /\ Eng(chain[e][i]) = e
         /\ fire[chain[e][i]].at \in InSection \cup {"queued"}
         /\ i # 1 => At(chain[e][i], "queued")
    /\ \A i, j \in 1..Len(chain[e]) : chain[e][i] = chain[e][j] => i = j
InChain ==
  \A f \in Fires :
    fire[f].at \in InSection \cup {"queued"} =>
      \E i \in 1..Len(chain[Eng(f)]) : chain[Eng(f)][i] = f

(* The registry names who runs or has just ended; nobody else is past the  *)
(* look for an earlier instance meanwhile.                                 *)
Registered ==
  /\ \A e \in Engines : active[e] # NoFire =>
       Eng(active[e]) = e /\ fire[active[e]].at \in Registering
  /\ \A f \in Fires :
       /\ fire[f].at \in Registering => active[Eng(f)] = f
       /\ fire[f].at \in {"look", "claim", "spawning"} => active[Eng(f)] = NoFire
OverRuns == \A f \in Fires : fire[f].over => fire[f].at \in Registering

(* One host, one engine of it whose clock runs.                            *)
OneHost ==
  /\ \A p, q \in alive \cap Hosts : p = q
  /\ \A e \in ticking : Pid(e) \in alive \cap Hosts
  /\ \A e, d \in ticking : e = d

Shape ==
  /\ StateTypeOK /\ Lives /\ TickHasOne /\ ChainHolds /\ InChain /\ Registered
  /\ OverRuns /\ OneHost

-----------------------------------------------------------------------------
(* Engines and their processes.                                            *)
LEMMA EngineFacts ==
  /\ NoEngine \notin Engines /\ Pid(NoEngine) = Nobody /\ Nobody \notin Pids
  /\ \A e \in Engines : Pid(e) \in Pids
  /\ \A e \in Engines : Pid(e) \in Hosts =>
       Other(e) \in Engines /\ Other(e) # e /\ Pid(Other(e)) = Pid(e) /\ Other(Other(e)) = e
  /\ \A d, e \in Engines : Pid(d) = Pid(e) => d = e \/ (Pid(e) \in Hosts /\ d = Other(e))
  /\ Pids = Hosts \cup Ticks /\ Hosts \cap Ticks = {}
  /\ \A t \in Ticks : <<t, 1>> \in Engines /\ Pid(<<t, 1>>) = t
  /\ \A h \in Hosts : <<h, 1>> \in Engines /\ Pid(<<h, 1>>) = h
<1>1. NoEngine \notin Engines /\ Pid(NoEngine) = Nobody /\ Nobody \notin Pids
  BY JobAssumption DEF NoEngine, Engines, Pid, Pids
<1>2. ASSUME NEW e \in Engines PROVE Pid(e) \in Pids
  BY DEF Engines, Pid, Pids
<1>3. ASSUME NEW e \in Engines, Pid(e) \in Hosts
      PROVE  Other(e) \in Engines /\ Other(e) # e /\ Pid(Other(e)) = Pid(e) /\ Other(Other(e)) = e
  <2>1. PICK h \in Hosts, n \in {1, 2} : e = <<h, n>>
    BY <1>3, JobAssumption DEF Engines, Pid
  <2> QED BY <2>1 DEF Engines, Pid, Other
<1>4. ASSUME NEW d \in Engines, NEW e \in Engines, Pid(d) = Pid(e)
      PROVE  d = e \/ (Pid(e) \in Hosts /\ d = Other(e))
  <2>1. CASE Pid(e) \in Hosts
    <3>1. PICK h \in Hosts, n \in {1, 2} : e = <<h, n>>
      BY <2>1, JobAssumption DEF Engines, Pid
    <3>2. PICK k \in Hosts, m \in {1, 2} : d = <<k, m>>
      BY <1>4, <2>1, JobAssumption DEF Engines, Pid
    <3> QED BY <3>1, <3>2, <1>4 DEF Other, Pid
  <2>2. CASE Pid(e) \notin Hosts
    BY <2>2, <1>4 DEF Engines, Pid
  <2> QED BY <2>1, <2>2
<1>5. \A t \in Ticks : <<t, 1>> \in Engines /\ Pid(<<t, 1>>) = t
  BY DEF Engines, Pid
<1>6. \A h \in Hosts : <<h, 1>> \in Engines /\ Pid(<<h, 1>>) = h
  BY DEF Engines, Pid
<1> QED BY <1>1, <1>2, <1>3, <1>4, <1>5, <1>6, JobAssumption DEF Pids

(* What an assignment to one record leaves.                                *)
LEMMA UnusedFacts ==
  /\ Unused \in Records
  /\ Unused.eng = NoEngine /\ Unused.at = "none" /\ Unused.over = FALSE
BY DEF Unused, Records, NoEngine, Stages

(* The first of a chain is who is in the section.                          *)
LEMMA SectionHead ==
  ASSUME StateTypeOK, Lives, ChainHolds, InChain, NEW f \in Fires, fire[f].at \in InSection
  PROVE  /\ Eng(f) \in Engines /\ chain[Eng(f)] \in Seq(Fires) /\ Len(chain[Eng(f)]) > 0
         /\ chain[Eng(f)][1] = f /\ Holder(Eng(f)) = f
<1>1. Eng(f) \in Engines
  BY DEF Lives, At, InSection
<1>2. chain[Eng(f)] \in Seq(Fires)
  BY <1>1 DEF StateTypeOK
<1>3. PICK i \in 1..Len(chain[Eng(f)]) : chain[Eng(f)][i] = f
  BY DEF InChain
<1>4. i = 1
  BY <1>1, <1>3 DEF ChainHolds, At, InSection
<1> QED BY <1>1, <1>2, <1>3, <1>4 DEF Holder

(* The values the actions write into the row.                              *)
Rows == [by : Pids \cup {Nobody}, of : Fires \cup {NoFire}, old : BOOLEAN, due : BOOLEAN]

(* What a step does to the entry.                                          *)
SameEntry == row'.by = row.by /\ row'.of = row.of /\ row'.old = row.old
Emptied == row'.by = Nobody /\ row'.of = NoFire

LEMMA RowValues ==
  ASSUME NEW r \in Rows
  PROVE  /\ Advanced(r) \in Rows
         /\ \A p : Cleared(r, p) \in Rows
         /\ \A f \in Fires : Own(f) \in Pids => Claimed(r, f) \in Rows
         /\ \A f \in Fires : Aged(r, f) \in Rows
         /\ \A p : Restarted(r, p) \in Rows
         /\ [r EXCEPT !.old = TRUE] \in Rows /\ [r EXCEPT !.due = TRUE] \in Rows
<1>1. ASSUME NEW s \in Rows PROVE Advanced(s) \in Rows /\ \A p : Cleared(s, p) \in Rows
  BY <1>1 DEF Rows, Advanced, Cleared
<1>2. \A f \in Fires : Own(f) \in Pids => Claimed(r, f) \in Rows
  BY DEF Rows, Claimed
<1>3. \A f \in Fires : Aged(r, f) \in Rows
  BY DEF Rows, Aged
<1>4. \A p : Restarted(r, p) \in Rows
  BY <1>1 DEF Restarted
<1>5. [r EXCEPT !.old = TRUE] \in Rows /\ [r EXCEPT !.due = TRUE] \in Rows
  BY DEF Rows
<1> QED BY <1>1, <1>2, <1>3, <1>4, <1>5

LEMMA InitShape == Init => Shape
<1> SUFFICES ASSUME Init PROVE Shape
  OBVIOUS
<1>1. StateTypeOK
  BY JobAssumption, UnusedFacts DEF Init, StateTypeOK
<1>2. \A f \in Fires : fire[f] = Unused
  BY DEF Init
<1>3. Lives /\ TickHasOne /\ OverRuns
  BY <1>2, UnusedFacts, EngineFacts DEF Lives, TickHasOne, OverRuns, At, Eng, Own, Registering
<1>4. \A e \in Engines : chain[e] = <<>> /\ active[e] = NoFire
  BY DEF Init
<1>5. ChainHolds
  BY <1>4 DEF ChainHolds
<1>6. InChain /\ Registered
  BY <1>2, <1>4, UnusedFacts DEF InChain, Registered, At, Registering, InSection
<1>7. OneHost
  BY DEF Init, OneHost
<1> QED BY <1>1, <1>3, <1>5, <1>6, <1>7 DEF Shape

-----------------------------------------------------------------------------
(* What a call does to its record: it goes on, or its record is unused.    *)
Others(f) == \A g \in Fires \ {f} : fire'[g] = fire[g]
GoesOn(f) ==
  /\ fire' \in [Fires -> Records] /\ Others(f)
  /\ fire'[f].eng = fire[f].eng
Ends(f) == fire' \in [Fires -> Records] /\ Others(f) /\ fire'[f] = Unused

(* A call that goes on within the section, or into it.                     *)
LEMMA EnterShape ==
  ASSUME Shape, NEW f \in Fires, GoesOn(f), row' \in Rows,
         UNCHANGED <<alive, ticking, active, chain, errors>>,
         fire[f].at \in InSection \/ Resumes(f),
         fire'[f].at \in InSection, fire'[f].over = fire[f].over,
         fire'[f].at # "prev" => active[Eng(f)] = NoFire
  PROVE  Shape'
<1>1. StateTypeOK'
  BY DEF Shape, StateTypeOK, GoesOn, Others, Rows
<1>2. Lives'
  BY DEF Shape, Lives, GoesOn, Others, At, Eng, Own, InSection, Resumes
<1>3. TickHasOne'
  BY DEF Shape, TickHasOne, GoesOn, Others, Eng, Own
<1>4. Eng(f) \in Engines /\ chain[Eng(f)] \in Seq(Fires) /\ Len(chain[Eng(f)]) > 0
      /\ chain[Eng(f)][1] = f
  <2>1. CASE fire[f].at \in InSection
    BY <2>1, SectionHead DEF Shape
  <2>2. CASE Resumes(f)
    <3>1. Eng(f) \in Engines
      BY <2>2 DEF Resumes, Shape, Lives, At
    <3>2. chain[Eng(f)] \in Seq(Fires)
      BY <3>1 DEF Shape, StateTypeOK
    <3>3. Holder(Eng(f)) = f
      BY <2>2 DEF Resumes
    <3>4. chain[Eng(f)] # <<>>
      BY <3>3, JobAssumption DEF Holder
    <3> QED BY <3>1, <3>2, <3>3, <3>4 DEF Holder
  <2> QED BY <2>1, <2>2
<1>5. ChainHolds'
  <2>1. ASSUME NEW e \in Engines, NEW i \in 1..Len(chain[e])
        PROVE  /\ fire'[chain[e][i]].eng = e
               /\ fire'[chain[e][i]].at \in InSection \cup {"queued"}
               /\ i # 1 => fire'[chain[e][i]].at = "queued"
    <3>1. chain[e] \in Seq(Fires) /\ chain[e][i] \in Fires
      BY DEF Shape, StateTypeOK
    <3>2. CASE chain[e][i] = f
      <4>1. e = Eng(f)
        BY <3>2 DEF Shape, ChainHolds
      <4>2. i = 1
        BY <4>1, <3>2, <1>4 DEF Shape, ChainHolds
      <4> QED BY <3>2, <4>1, <4>2 DEF GoesOn, Eng
    <3>3. CASE chain[e][i] # f
      BY <3>1, <3>3 DEF GoesOn, Others, Shape, ChainHolds, Eng, At
    <3> QED BY <3>2, <3>3
  <2> QED BY <2>1 DEF ChainHolds, Shape, Eng, At
<1>6. InChain'
  BY <1>4 DEF Shape, InChain, GoesOn, Others, Eng, InSection
<1>7. Registered'
  <2>1. fire[f].at \notin Registering /\ fire'[f].at \notin Registering
    BY DEF Resumes, At, InSection, Registering
  <2>2. ASSUME NEW e \in Engines, active[e] # NoFire
        PROVE  fire'[active[e]].eng = e /\ fire'[active[e]].at \in Registering
    BY <2>1, <2>2 DEF Shape, StateTypeOK, Registered, GoesOn, Others, Eng
  <2>3. ASSUME NEW g \in Fires
        PROVE  /\ fire'[g].at \in Registering => active[fire'[g].eng] = g
               /\ fire'[g].at \in {"look", "claim", "spawning"} => active[fire'[g].eng] = NoFire
    BY <2>1 DEF Shape, Registered, GoesOn, Others, Eng
  <2> QED BY <2>2, <2>3 DEF Registered, Eng
<1>8. OverRuns'
  BY DEF Shape, OverRuns, GoesOn, Others, Resumes, At, InSection, Registering
<1>9. OneHost'
  BY DEF Shape, OneHost
<1> QED BY <1>1, <1>2, <1>3, <1>5, <1>6, <1>7, <1>8, <1>9 DEF Shape

(* A registered instance that goes on, or ends.                            *)
LEMMA RunShape ==
  ASSUME Shape, NEW f \in Fires, GoesOn(f), row' \in Rows,
         UNCHANGED <<alive, ticking, active, chain, errors>>,
         fire[f].at = "running", fire'[f].at \in Registering
  PROVE  Shape'
<1>1. StateTypeOK'
  BY DEF Shape, StateTypeOK, GoesOn, Others, Rows
<1>2. Lives'
  BY DEF Shape, Lives, GoesOn, Others, At, Eng, Own, Registering
<1>3. TickHasOne'
  BY DEF Shape, TickHasOne, GoesOn, Others, Eng, Own
<1>4. ASSUME NEW e \in Engines, NEW i \in 1..Len(chain[e])
      PROVE  chain[e][i] \in Fires /\ chain[e][i] # f
  <2>1. chain[e] \in Seq(Fires)
    BY DEF Shape, StateTypeOK
  <2>2. fire[chain[e][i]].at # "running"
    BY DEF Shape, ChainHolds, InSection
  <2> QED BY <2>1, <2>2
<1>5. ChainHolds'
  BY <1>4 DEF Shape, ChainHolds, GoesOn, Others, Eng, At
<1>6. InChain'
  BY DEF Shape, InChain, GoesOn, Others, Eng, InSection, Registering
<1>7. Registered'
  <2>1. ASSUME NEW e \in Engines, active[e] # NoFire
        PROVE  fire'[active[e]].eng = e /\ fire'[active[e]].at \in Registering
    BY <2>1 DEF Shape, StateTypeOK, Registered, GoesOn, Others, Eng
  <2>2. ASSUME NEW g \in Fires
        PROVE  /\ fire'[g].at \in Registering => active[fire'[g].eng] = g
               /\ fire'[g].at \in {"look", "claim", "spawning"} => active[fire'[g].eng] = NoFire
    BY DEF Shape, Registered, GoesOn, Others, Eng, Registering
  <2> QED BY <2>1, <2>2 DEF Registered, Eng
<1>8. OverRuns'
  BY DEF Shape, OverRuns, GoesOn, Others
<1>9. OneHost'
  BY DEF Shape, OneHost
<1> QED BY <1>1, <1>2, <1>3, <1>5, <1>6, <1>7, <1>8, <1>9 DEF Shape

(* A call that is over: what does not depend on chain and registry.        *)
LEMMA LeaveFacts ==
  ASSUME Shape, NEW f \in Fires, Leave(f)
  PROVE  /\ Ends(f) /\ alive' \subseteq alive /\ alive' \cap Hosts = alive \cap Hosts
         /\ Lives' /\ TickHasOne' /\ OverRuns' /\ OneHost'
<1>1. Ends(f)
  BY UnusedFacts DEF Shape, StateTypeOK, Leave, Ends, Others
<1>2. alive' \subseteq alive /\ alive' \cap Hosts = alive \cap Hosts
  BY JobAssumption DEF Leave
<1>3. Lives'
  <2>1. ASSUME NEW g \in Fires \ {f}, ~At(g, "none") PROVE Own(g) \in alive'
    BY <2>1 DEF Shape, Lives, TickHasOne, Leave
  <2> QED BY <2>1, <1>1, UnusedFacts DEF Shape, Lives, Ends, Others, At, Eng, Own
<1>4. TickHasOne'
  BY <1>1, UnusedFacts, EngineFacts DEF Shape, TickHasOne, Ends, Others, Eng, Own
<1>5. OverRuns'
  BY <1>1, UnusedFacts DEF Shape, OverRuns, Ends, Others
<1>6. OneHost'
  BY <1>2 DEF Shape, OneHost, Leave
<1> QED BY <1>1, <1>2, <1>3, <1>4, <1>5, <1>6

(* The section is left to the next call: the others stay where they are.   *)
LEMMA NextCallFacts ==
  ASSUME Shape, NEW f \in Fires, fire[f].at \in InSection, NextCall(f)
  PROVE  /\ chain' \in [Engines -> Seq(Fires)]
         /\ \A e \in Engines : \A i \in 1..Len(chain'[e]) :
              /\ chain'[e][i] \in Fires \ {f} /\ Eng(chain'[e][i]) = e
              /\ fire[chain'[e][i]].at \in InSection \cup {"queued"}
              /\ i # 1 => At(chain'[e][i], "queued")
         /\ \A e \in Engines : \A i, j \in 1..Len(chain'[e]) : chain'[e][i] = chain'[e][j] => i = j
         /\ \A g \in Fires \ {f} : fire[g].at \in InSection \cup {"queued"} =>
              \E i \in 1..Len(chain'[Eng(g)]) : chain'[Eng(g)][i] = g
<1>1. /\ Eng(f) \in Engines /\ chain[Eng(f)] \in Seq(Fires) /\ Len(chain[Eng(f)]) > 0
      /\ chain[Eng(f)][1] = f
  BY SectionHead DEF Shape
<1>2. /\ chain' \in [Engines -> Seq(Fires)] /\ Len(chain'[Eng(f)]) = Len(chain[Eng(f)]) - 1
      /\ \A i \in 1..Len(chain'[Eng(f)]) : chain'[Eng(f)][i] = chain[Eng(f)][i + 1]
      /\ \A e \in Engines \ {Eng(f)} : chain'[e] = chain[e]
  BY <1>1 DEF NextCall, Shape, StateTypeOK
<1>3. ASSUME NEW e \in Engines, NEW i \in 1..Len(chain'[e])
      PROVE  /\ chain'[e][i] \in Fires \ {f} /\ Eng(chain'[e][i]) = e
             /\ fire[chain'[e][i]].at \in InSection \cup {"queued"}
             /\ i # 1 => At(chain'[e][i], "queued")
  <2>1. CASE e = Eng(f)
    <3>1. i + 1 \in 1..Len(chain[e]) /\ chain'[e][i] = chain[e][i + 1] /\ 1 \in 1..Len(chain[e])
      BY <1>1, <1>2, <2>1
    <3>2. chain[e][i + 1] # f
      BY <3>1, <1>1, <2>1 DEF Shape, ChainHolds
    <3>3. chain[e][i + 1] \in Fires
      BY <3>1, <1>1, <2>1
    <3> QED BY <3>1, <3>2, <3>3 DEF Shape, ChainHolds
  <2>2. CASE e # Eng(f)
    <3>1. chain'[e] = chain[e]
      BY <1>2, <2>2
    <3>2. chain[e] \in Seq(Fires) /\ i \in 1..Len(chain[e])
      BY <3>1 DEF Shape, StateTypeOK
    <3>3. chain[e][i] \in Fires
      BY <3>2
    <3> QED BY <3>1, <3>2, <3>3, <2>2 DEF Shape, ChainHolds
  <2> QED BY <2>1, <2>2
<1>4. ASSUME NEW e \in Engines, NEW i \in 1..Len(chain'[e]), NEW j \in 1..Len(chain'[e]),
             chain'[e][i] = chain'[e][j]
      PROVE  i = j
  <2>1. CASE e = Eng(f)
    <3>1. /\ i + 1 \in 1..Len(chain[e]) /\ chain'[e][i] = chain[e][i + 1]
          /\ j + 1 \in 1..Len(chain[e]) /\ chain'[e][j] = chain[e][j + 1]
      BY <1>1, <1>2, <2>1
    <3>2. i + 1 = j + 1
      BY <3>1, <1>4 DEF Shape, ChainHolds
    <3> QED BY <3>2
  <2>2. CASE e # Eng(f)
    <3>1. chain'[e] = chain[e]
      BY <1>2, <2>2
    <3>2. i \in 1..Len(chain[e]) /\ j \in 1..Len(chain[e]) /\ chain[e][i] = chain[e][j]
      BY <3>1, <1>4
    <3> QED BY <3>2 DEF Shape, ChainHolds
  <2> QED BY <2>1, <2>2
<1>5. ASSUME NEW g \in Fires \ {f}, fire[g].at \in InSection \cup {"queued"}
      PROVE  \E i \in 1..Len(chain'[Eng(g)]) : chain'[Eng(g)][i] = g
  <2>1. PICK i \in 1..Len(chain[Eng(g)]) : chain[Eng(g)][i] = g
    BY <1>5 DEF Shape, InChain
  <2>2. Eng(g) \in Engines
    BY <1>5 DEF Shape, Lives, At, InSection
  <2>3. CASE Eng(g) = Eng(f)
    <3>1. i # 1
      BY <1>1, <2>1, <2>3
    <3>2. i - 1 \in 1..Len(chain'[Eng(f)]) /\ chain'[Eng(f)][i - 1] = chain[Eng(f)][(i - 1) + 1]
      BY <1>1, <1>2, <2>1, <2>3, <3>1
    <3>3. chain'[Eng(f)][i - 1] = g
      BY <3>2, <2>1, <2>3, <1>1
    <3> QED BY <3>2, <3>3, <2>3
  <2>4. CASE Eng(g) # Eng(f)
    <3>1. chain'[Eng(g)] = chain[Eng(g)]
      BY <2>2, <2>4, <1>2
    <3> QED BY <3>1, <2>1
  <2> QED BY <2>3, <2>4
<1> QED BY <1>2, <1>3, <1>4, <1>5

(* A call that leaves the section without an instance.                     *)
LEMMA DropShape ==
  ASSUME Shape, NEW f \in Fires, fire[f].at \in InSection, Leave(f), NextCall(f),
         row' \in Rows, errors' \in 0..MaxErrors, UNCHANGED active
  PROVE  Shape'
<1>1. Ends(f) /\ alive' \subseteq alive /\ Lives' /\ TickHasOne' /\ OverRuns' /\ OneHost'
  BY LeaveFacts
<1>2. \A e \in Engines : active[e] # f
  BY JobAssumption DEF Shape, Registered, Registering, InSection
<1>3. StateTypeOK'
  BY <1>1, <1>2, NextCallFacts DEF Shape, StateTypeOK, Ends, Others, Rows, Leave
<1>4. ChainHolds'
  BY <1>1, NextCallFacts DEF ChainHolds, Ends, Others, Eng, At
<1>5. InChain'
  BY <1>1, UnusedFacts, NextCallFacts DEF InChain, Ends, Others, Eng, InSection
<1>6. Registered'
  <2>1. ASSUME NEW e \in Engines, active[e] # NoFire
        PROVE  fire'[active[e]].eng = e /\ fire'[active[e]].at \in Registering
    BY <1>2, <2>1, <1>1 DEF Shape, StateTypeOK, Registered, Ends, Others, Eng
  <2>2. ASSUME NEW g \in Fires
        PROVE  /\ fire'[g].at \in Registering => active[fire'[g].eng] = g
               /\ fire'[g].at \in {"look", "claim", "spawning"} => active[fire'[g].eng] = NoFire
    BY <1>1, UnusedFacts DEF Shape, Registered, Ends, Others, Eng, Registering
  <2> QED BY <2>1, <2>2 DEF Registered, Eng
<1> QED BY <1>1, <1>3, <1>4, <1>5, <1>6 DEF Shape

(* Two calls of an engine are not in the section together.                 *)
LEMMA OneInSection ==
  ASSUME Shape, NEW f \in Fires, NEW g \in Fires, Eng(f) = Eng(g),
         fire[f].at \in InSection, fire[g].at \in InSection
  PROVE  f = g
BY SectionHead DEF Shape

(* A call whose instance has started.                                      *)
LEMMA SpawnedShape ==
  ASSUME Shape, NEW f \in Fires, Spawned(f), row' \in Rows
  PROVE  Shape'
<1>0. /\ At(f, "spawning") /\ fire[f].at \in InSection /\ NextCall(f)
      /\ fire' = [fire EXCEPT ![f].at = "running"] /\ active' = [active EXCEPT ![Eng(f)] = f]
      /\ UNCHANGED <<alive, ticking, errors>>
  BY DEF Spawned, At, InSection
<1>1. GoesOn(f) /\ fire'[f].at = "running"
  <2>1. fire \in [Fires -> Records] /\ fire' = [fire EXCEPT ![f].at = "running"]
    BY <1>0 DEF Shape, StateTypeOK
  <2>2. "running" \in Stages
    BY DEF Stages
  <2>3. \A c \in Records : [c EXCEPT !.at = "running"] \in Records
    BY <2>2 DEF Records
  <2>4. fire' \in [Fires -> Records]
    BY <2>1, <2>3
  <2>5. fire'[f] = [fire[f] EXCEPT !.at = "running"] /\ fire[f] \in Records
    BY <2>1
  <2>6. fire'[f].eng = fire[f].eng /\ fire'[f].at = "running"
    BY <2>5 DEF Records
  <2> QED BY <2>1, <2>4, <2>6 DEF GoesOn, Others
<1>2. Eng(f) \in Engines
  BY <1>0 DEF Shape, Lives, At
<1>3. /\ active' \in [Engines -> Fires \cup {NoFire}] /\ active'[Eng(f)] = f
      /\ \A e \in Engines \ {Eng(f)} : active'[e] = active[e]
  BY <1>0, <1>2 DEF Shape, StateTypeOK
<1>4. \A e \in Engines : active[e] # f
  BY <1>0, JobAssumption DEF Shape, Registered, Registering, At
<1>5. ASSUME NEW e \in Engines, active'[e] # NoFire
      PROVE  fire'[active'[e]].eng = e /\ fire'[active'[e]].at \in Registering
  <2>1. CASE e = Eng(f)
    BY <2>1, <1>1, <1>3 DEF GoesOn, Eng, Registering
  <2>2. CASE e # Eng(f)
    <3>1. active'[e] = active[e] /\ active[e] \in Fires \ {f}
      BY <2>2, <1>3, <1>4, <1>5 DEF Shape, StateTypeOK
    <3> QED BY <3>1, <1>1, <1>5 DEF Shape, Registered, GoesOn, Others, Eng
  <2> QED BY <2>1, <2>2
<1>6. StateTypeOK'
  BY <1>0, <1>1, <1>3, <1>5, NextCallFacts DEF Shape, StateTypeOK, GoesOn, Rows
<1>7. Lives' /\ TickHasOne' /\ OverRuns' /\ OneHost'
  <2>1. Lives'
    BY <1>0, <1>1 DEF Shape, Lives, GoesOn, Others, At, Eng, Own
  <2>2. TickHasOne'
    BY <1>1 DEF Shape, TickHasOne, GoesOn, Others, Eng, Own
  <2>3. OverRuns'
    BY <1>1 DEF Shape, OverRuns, GoesOn, Others, Registering
  <2>4. OneHost'
    BY <1>0 DEF Shape, OneHost
  <2> QED BY <2>1, <2>2, <2>3, <2>4
<1>8. ChainHolds'
  BY <1>0, <1>1, NextCallFacts DEF ChainHolds, GoesOn, Others, Eng, At
<1>9. InChain'
  BY <1>0, <1>1, NextCallFacts DEF InChain, GoesOn, Others, Eng, InSection
<1>10. Registered'
  <2>1. ASSUME NEW g \in Fires, fire'[g].at \in Registering
        PROVE  active'[fire'[g].eng] = g
    <3>1. CASE g = f
      BY <3>1, <1>1, <1>3 DEF GoesOn, Eng
    <3>2. CASE g # f
      <4>1. fire'[g] = fire[g]
        BY <3>2, <1>1 DEF GoesOn, Others
      <4>2. active[Eng(g)] = g /\ Eng(g) \in Engines
        BY <4>1, <2>1 DEF Shape, Registered, Lives, At, Registering
      <4>3. Eng(g) # Eng(f)
        BY <4>2, <1>0, JobAssumption DEF Shape, Registered, At
      <4> QED BY <4>1, <4>2, <4>3, <1>3 DEF Eng
    <3> QED BY <3>1, <3>2
  <2>2. ASSUME NEW g \in Fires, fire'[g].at \in {"look", "claim", "spawning"}
        PROVE  active'[fire'[g].eng] = NoFire
    <3>1. g # f /\ fire'[g] = fire[g]
      BY <2>2, <1>1 DEF GoesOn, Others
    <3>2. active[Eng(g)] = NoFire /\ Eng(g) \in Engines
      BY <3>1, <2>2 DEF Shape, Registered, Lives, At
    <3>3. Eng(g) # Eng(f)
      BY <3>1, <2>2, <1>0, OneInSection DEF InSection
    <3> QED BY <3>1, <3>2, <3>3, <1>3 DEF Eng
  <2> QED BY <1>5, <2>1, <2>2 DEF Registered, Eng
<1> QED BY <1>6, <1>7, <1>8, <1>9, <1>10 DEF Shape

(* The tail of an instance.                                                *)
LEMMA SettleShape ==
  ASSUME Shape, NEW f \in Fires, SettleFire(f), row' \in Rows
  PROVE  Shape'
<1>0. Leave(f) /\ At(f, "ended") /\ active' = [active EXCEPT ![Eng(f)] = NoFire] /\ UNCHANGED chain
  BY DEF SettleFire
<1>1. /\ Ends(f) /\ alive' \subseteq alive /\ Lives' /\ TickHasOne' /\ OverRuns' /\ OneHost'
  BY <1>0, LeaveFacts
<1>2. Eng(f) \in Engines /\ active[Eng(f)] = f
  BY <1>0 DEF Shape, Lives, Registered, Registering, At
<1>3. /\ active' \in [Engines -> Fires \cup {NoFire}] /\ active'[Eng(f)] = NoFire
      /\ \A e \in Engines \ {Eng(f)} : active'[e] = active[e]
  BY <1>0, <1>2 DEF Shape, StateTypeOK
<1>4. ASSUME NEW e \in Engines, active'[e] # NoFire
      PROVE  /\ active'[e] = active[e] /\ active[e] \in Fires \ {f} /\ Eng(active[e]) = e
             /\ fire[active[e]].at \in Registering
  BY <1>2, <1>3, <1>4 DEF Shape, StateTypeOK, Registered
<1>5. StateTypeOK'
  <2>1. errors' \in 0..MaxErrors
    BY JobAssumption DEF SettleFire, ClearsHalf, MayFail, Shape, StateTypeOK
  <2> QED BY <1>0, <1>1, <1>3, <1>4, <2>1 DEF Shape, StateTypeOK, Ends, Others, Rows, Leave, Eng
<1>6. ASSUME NEW e \in Engines, NEW i \in 1..Len(chain[e])
      PROVE  chain[e][i] \in Fires /\ chain[e][i] # f
  <2>1. chain[e] \in Seq(Fires)
    BY DEF Shape, StateTypeOK
  <2>2. fire[chain[e][i]].at # "ended"
    BY DEF Shape, ChainHolds, InSection
  <2> QED BY <2>1, <2>2, <1>0 DEF At
<1>7. ChainHolds'
  BY <1>0, <1>1, <1>6 DEF Shape, ChainHolds, Ends, Others, Eng, At
<1>8. InChain'
  BY <1>0, <1>1, UnusedFacts DEF Shape, InChain, Ends, Others, Eng, InSection
<1>9. Registered'
  <2>1. ASSUME NEW g \in Fires
        PROVE  /\ fire'[g].at \in Registering => active'[fire'[g].eng] = g
               /\ fire'[g].at \in {"look", "claim", "spawning"} => active'[fire'[g].eng] = NoFire
    <3>1. CASE g = f
      BY <3>1, <1>1, UnusedFacts DEF Ends, Registering
    <3>2. CASE g # f /\ fire[g].at \in Registering
      BY <3>2, <1>1, <1>2, <1>3 DEF Shape, Registered, Lives, Ends, Others, Eng, At, Registering
    <3>3. CASE g # f /\ fire[g].at \in {"look", "claim", "spawning"}
      BY <3>3, <1>1, <1>2, <1>3 DEF Shape, Registered, Lives, Ends, Others, Eng, At, Registering
    <3> QED BY <3>1, <3>2, <3>3, <1>1 DEF Ends, Others
  <2> QED BY <2>1, <1>4, <1>1 DEF Registered, Eng, Ends, Others
<1> QED BY <1>1, <1>5, <1>7, <1>8, <1>9 DEF Shape

(* A new call: what it is, and where.                                      *)
Begun(f, e) ==
  /\ fire' \in [Fires -> Records] /\ Others(f)
  /\ At(f, "none") /\ fire'[f].eng = e /\ fire'[f].over = FALSE /\ fire'[f].at = Stage(e)
  /\ row.of # f /\ fire'[f].seenOf = NoFire /\ \A g \in Fires : fire[g].seenOf # f

LEMMA StageValues ==
  ASSUME NEW e
  PROVE  /\ Stage(e) \in {"queued", "prev", "look"}
         /\ Stage(e) # "queued" => chain[e] = <<>>
         /\ Stage(e) = "look" => active[e] = NoFire
BY DEF Stage, Section

LEMMA LaunchFacts ==
  ASSUME Shape, NEW e \in Engines, NEW c \in BOOLEAN, Launch(e, c)
  PROVE  \E f \in Fires :
           /\ Begun(f, e)
           /\ chain' = [chain EXCEPT ![e] = Append(@, f)]
<1>1. PICK f \in Fires :
         /\ Free(f) /\ chain' = [chain EXCEPT ![e] = Append(@, f)]
         /\ fire' = [fire EXCEPT ![f] = [Unused EXCEPT !.eng = e, !.at = Stage(e), !.clock = c]]
  BY DEF Launch
<1>2. Stage(e) \in Stages
  BY StageValues DEF Stages
<1> DEFINE r == [Unused EXCEPT !.eng = e, !.at = Stage(e), !.clock = c]
<1>3. r \in Records /\ r.eng = e /\ r.at = Stage(e) /\ r.over = FALSE
      /\ r.seenOf = NoFire
  BY <1>2 DEF Unused, Records, NoEngine
<1>4. fire' = [fire EXCEPT ![f] = r]
  BY <1>1
<1> HIDE DEF r
<1>5. fire' \in [Fires -> Records] /\ fire'[f] = r /\ Others(f)
  BY <1>3, <1>4 DEF Shape, StateTypeOK, Others
<1>6. Begun(f, e)
  BY <1>1, <1>3, <1>5 DEF Begun, Free
<1> QED BY <1>1, <1>6

LEMMA LaunchShape ==
  ASSUME Shape, NEW e \in Engines, NEW c \in BOOLEAN, Launch(e, c),
         alive' \subseteq Pids, alive' \cap Hosts = alive \cap Hosts,
         alive \subseteq alive', Pid(e) \in alive',
         Pid(e) \in Ticks => Pid(e) \notin alive,
         UNCHANGED <<row, ticking, active, errors>>
  PROVE  Shape'
<1>1. PICK f \in Fires : Begun(f, e) /\ chain' = [chain EXCEPT ![e] = Append(@, f)]
  BY LaunchFacts
<1>2. fire'[f].at \in {"queued", "prev", "look"}
  BY <1>1, StageValues DEF Begun
<1>3. /\ chain[e] \in Seq(Fires) /\ chain' \in [Engines -> Seq(Fires)]
      /\ Len(chain'[e]) = Len(chain[e]) + 1 /\ chain'[e][Len(chain[e]) + 1] = f
      /\ \A i \in 1..Len(chain[e]) : chain'[e][i] = chain[e][i]
      /\ \A d \in Engines \ {e} : chain'[d] = chain[d]
  BY <1>1 DEF Shape, StateTypeOK
<1>4. StateTypeOK'
  <2>1. ASSUME NEW d \in Engines, active[d] # NoFire PROVE fire'[active[d]].eng = d
    <3>1. active[d] \in Fires /\ Eng(active[d]) = d /\ fire[active[d]].at \in Registering
      BY <2>1 DEF Shape, StateTypeOK, Registered
    <3>2. active[d] # f
      BY <3>1, <1>1 DEF Begun, At, Registering
    <3> QED BY <3>1, <3>2, <1>1 DEF Begun, Others, Eng
  <2> QED BY <1>1, <1>3, <2>1 DEF Shape, StateTypeOK, Begun, Rows
<1>5. Lives'
  BY <1>1, <1>2 DEF Shape, Lives, Begun, Others, At, Eng, Own
<1>6. TickHasOne'
  <2>1. ASSUME NEW g \in Fires \ {f}, Pid(e) \in Ticks PROVE Own(g) # Pid(e)
    BY <2>1, EngineFacts, JobAssumption DEF Shape, Lives, Own
  <2> QED BY <2>1, <1>1 DEF Shape, TickHasOne, Begun, Others, Eng, Own
<1>7. OverRuns'
  BY <1>1 DEF Shape, OverRuns, Begun, Others
<1>8. OneHost'
  BY DEF Shape, OneHost
<1>9. ASSUME NEW d \in Engines, NEW i \in 1..Len(chain[d])
      PROVE  chain[d][i] \in Fires \ {f}
  <2>1. chain[d] \in Seq(Fires)
    BY DEF Shape, StateTypeOK
  <2>2. fire[chain[d][i]].at # "none"
    BY DEF Shape, ChainHolds, InSection
  <2> QED BY <2>1, <2>2, <1>1 DEF Begun, At
<1>10. ChainHolds'
  <2>1. ASSUME NEW d \in Engines, NEW i \in 1..Len(chain'[d])
        PROVE  /\ fire'[chain'[d][i]].eng = d
               /\ fire'[chain'[d][i]].at \in InSection \cup {"queued"}
               /\ i # 1 => fire'[chain'[d][i]].at = "queued"
    <3>1. CASE d = e /\ i = Len(chain[e]) + 1
      <4>1. chain'[d][i] = f
        BY <3>1, <1>3
      <4>2. i # 1 => Stage(e) = "queued"
        BY <3>1, StageValues
      <4> QED BY <4>1, <4>2, <3>1, <1>1, <1>2 DEF Begun, InSection
    <3>2. CASE ~(d = e /\ i = Len(chain[e]) + 1)
      <4>1. i \in 1..Len(chain[d]) /\ chain'[d][i] = chain[d][i]
        <5>1. CASE d = e
          BY <5>1, <3>2, <1>3
        <5>2. CASE d # e
          <6>1. chain'[d] = chain[d]
            BY <5>2, <1>3
          <6> QED BY <6>1
        <5> QED BY <5>1, <5>2
      <4>2. fire'[chain[d][i]] = fire[chain[d][i]]
        BY <4>1, <1>9, <1>1 DEF Begun, Others
      <4> QED BY <4>1, <4>2 DEF Shape, ChainHolds, Eng, At
    <3> QED BY <3>1, <3>2
  <2>2. ASSUME NEW d \in Engines, NEW i \in 1..Len(chain'[d]), NEW j \in 1..Len(chain'[d]),
               chain'[d][i] = chain'[d][j]
        PROVE  i = j
    <3>1. CASE d = e
      <4>1. CASE i \in 1..Len(chain[e]) /\ j \in 1..Len(chain[e])
        BY <3>1, <4>1, <1>3, <2>2 DEF Shape, ChainHolds
      <4>2. CASE i = Len(chain[e]) + 1 /\ j \in 1..Len(chain[e])
        BY <3>1, <4>2, <1>3, <1>9, <2>2
      <4>3. CASE i \in 1..Len(chain[e]) /\ j = Len(chain[e]) + 1
        BY <3>1, <4>3, <1>3, <1>9, <2>2
      <4> QED BY <3>1, <4>1, <4>2, <4>3, <1>3
    <3>2. CASE d # e
      <4>1. chain'[d] = chain[d]
        BY <3>2, <1>3
      <4>2. i \in 1..Len(chain[d]) /\ j \in 1..Len(chain[d]) /\ chain[d][i] = chain[d][j]
        BY <4>1, <2>2
      <4> QED BY <4>2 DEF Shape, ChainHolds
    <3> QED BY <3>1, <3>2
  <2> QED BY <2>1, <2>2 DEF ChainHolds, Eng, At
<1>11. InChain'
  <2> SUFFICES ASSUME NEW g \in Fires, fire'[g].at \in InSection \cup {"queued"}
               PROVE  \E i \in 1..Len(chain'[fire'[g].eng]) : chain'[fire'[g].eng][i] = g
    BY DEF InChain, Eng
  <2>1. CASE g = f
    BY <2>1, <1>1, <1>3 DEF Begun
  <2>2. CASE g # f
    <3>1. fire'[g] = fire[g]
      BY <2>2, <1>1 DEF Begun, Others
    <3>2. PICK i \in 1..Len(chain[Eng(g)]) : chain[Eng(g)][i] = g
      BY <3>1 DEF Shape, InChain
    <3>3. Eng(g) \in Engines
      BY <3>1 DEF Shape, Lives, At, InSection
    <3>4. CASE Eng(g) = e
      <4>1. i \in 1..Len(chain'[e]) /\ chain'[e][i] = g
        BY <3>2, <3>4, <1>3
      <4> QED BY <4>1, <3>1, <3>4 DEF Eng
    <3>5. CASE Eng(g) # e
      <4>1. chain'[Eng(g)] = chain[Eng(g)]
        BY <3>3, <3>5, <1>3
      <4> QED BY <4>1, <3>1, <3>2 DEF Eng
    <3> QED BY <3>4, <3>5
  <2> QED BY <2>1, <2>2
<1>12. Registered'
  <2>1. ASSUME NEW d \in Engines, active[d] # NoFire
        PROVE  fire'[active[d]].eng = d /\ fire'[active[d]].at \in Registering
    <3>1. active[d] \in Fires /\ Eng(active[d]) = d /\ fire[active[d]].at \in Registering
      BY <2>1 DEF Shape, StateTypeOK, Registered
    <3>2. active[d] # f
      BY <3>1, <1>1 DEF Begun, At, Registering
    <3> QED BY <3>1, <3>2, <1>1 DEF Begun, Others, Eng
  <2>2. ASSUME NEW g \in Fires, g # f
        PROVE  /\ fire'[g].at \in Registering => active[fire'[g].eng] = g
               /\ fire'[g].at \in {"look", "claim", "spawning"} => active[fire'[g].eng] = NoFire
    BY <2>2, <1>1 DEF Shape, Registered, Begun, Others, Eng
  <2>3. /\ fire'[f].at \in Registering => active[fire'[f].eng] = f
        /\ fire'[f].at \in {"look", "claim", "spawning"} => active[fire'[f].eng] = NoFire
    BY <1>1, <1>2, StageValues DEF Begun, Registering
  <2> QED BY <2>1, <2>2, <2>3 DEF Registered, Eng
<1> QED BY <1>4, <1>5, <1>6, <1>7, <1>8, <1>10, <1>11, <1>12 DEF Shape

(* A process ends.                                                         *)
LEMMA CrashShape ==
  ASSUME Shape, NEW p \in Pids, Crash(p)
  PROVE  Shape'
<1>1. /\ fire' \in [Fires -> Records]
      /\ \A f \in Fires : IF Own(f) = p THEN fire'[f] = Unused ELSE fire'[f] = fire[f]
  BY UnusedFacts DEF Crash, Shape, StateTypeOK
<1>2. /\ active' \in [Engines -> Fires \cup {NoFire}] /\ chain' \in [Engines -> Seq(Fires)]
      /\ \A e \in Engines : /\ Pid(e) = p => active'[e] = NoFire /\ chain'[e] = <<>>
                            /\ Pid(e) # p => active'[e] = active[e] /\ chain'[e] = chain[e]
  BY DEF Crash, Shape, StateTypeOK
<1>3. alive' = alive \ {p} /\ ticking' = {e \in ticking : Pid(e) # p} /\ UNCHANGED <<row, errors>>
  BY DEF Crash
<1>4. StateTypeOK'
  <2>1. ASSUME NEW e \in Engines, active'[e] # NoFire PROVE fire'[active'[e]].eng = e
    <3>1. Pid(e) # p /\ active'[e] = active[e] /\ active[e] \in Fires /\ Eng(active[e]) = e
      BY <2>1, <1>2 DEF Shape, StateTypeOK, Eng
    <3> QED BY <3>1, <1>1 DEF Own, Eng
  <2>2. alive' \subseteq Pids /\ ticking' \subseteq Engines
    <3>1. alive \subseteq Pids /\ ticking \subseteq Engines
      BY DEF Shape, StateTypeOK
    <3> QED BY <1>3, <3>1
  <2>3. row' \in Rows /\ errors' \in 0..MaxErrors
    BY <1>3 DEF Shape, StateTypeOK, Rows
  <2> QED BY <1>1, <1>2, <2>1, <2>2, <2>3 DEF StateTypeOK, Rows
<1>5. Lives'
  BY <1>1, <1>3, UnusedFacts DEF Shape, Lives, At, Eng, Own
<1>6. TickHasOne'
  BY <1>1, UnusedFacts, EngineFacts DEF Shape, TickHasOne, Eng, Own
<1>7. OverRuns'
  BY <1>1, UnusedFacts DEF Shape, OverRuns
<1>8. OneHost'
  BY <1>3 DEF Shape, OneHost
<1>9. ASSUME NEW e \in Engines, NEW i \in 1..Len(chain'[e])
      PROVE  /\ Pid(e) # p /\ chain'[e] = chain[e] /\ chain[e][i] \in Fires
             /\ fire'[chain[e][i]] = fire[chain[e][i]]
  <2>1. Pid(e) # p /\ chain'[e] = chain[e] /\ chain[e] \in Seq(Fires)
    BY <1>2 DEF Shape, StateTypeOK
  <2>2. chain[e][i] \in Fires /\ Eng(chain[e][i]) = e
    BY <2>1 DEF Shape, ChainHolds
  <2> QED BY <2>1, <2>2, <1>1 DEF Own
<1>10. ChainHolds'
  <2>1. ASSUME NEW d \in Engines, NEW i \in 1..Len(chain'[d])
        PROVE  /\ fire'[chain'[d][i]].eng = d
               /\ fire'[chain'[d][i]].at \in InSection \cup {"queued"}
               /\ i # 1 => fire'[chain'[d][i]].at = "queued"
    BY <1>9 DEF Shape, ChainHolds, Eng, At
  <2>2. ASSUME NEW d \in Engines, NEW i \in 1..Len(chain'[d]), NEW j \in 1..Len(chain'[d]),
               chain'[d][i] = chain'[d][j]
        PROVE  i = j
    BY <2>2, <1>9 DEF Shape, ChainHolds
  <2> QED BY <2>1, <2>2 DEF ChainHolds, Eng, At
<1>11. InChain'
  <2> SUFFICES ASSUME NEW g \in Fires, fire'[g].at \in InSection \cup {"queued"}
               PROVE  \E i \in 1..Len(chain'[fire'[g].eng]) : chain'[fire'[g].eng][i] = g
    BY DEF InChain, Eng
  <2>1. Own(g) # p /\ fire'[g] = fire[g]
    BY <1>1, UnusedFacts DEF InSection
  <2>2. Eng(g) \in Engines
    BY <2>1 DEF Shape, Lives, At, InSection
  <2>3. chain'[Eng(g)] = chain[Eng(g)]
    BY <2>1, <2>2, <1>2 DEF Own
  <2> QED BY <2>1, <2>3 DEF Shape, InChain, Eng
<1>12. Registered'
  <2>1. ASSUME NEW e \in Engines, active'[e] # NoFire
        PROVE  fire'[active'[e]].eng = e /\ fire'[active'[e]].at \in Registering
    BY <2>1, <1>1, <1>2 DEF Shape, StateTypeOK, Registered, Eng, Own
  <2>2. ASSUME NEW g \in Fires, fire'[g].at # "none"
        PROVE  /\ fire'[g].at \in Registering => active'[fire'[g].eng] = g
               /\ fire'[g].at \in {"look", "claim", "spawning"} => active'[fire'[g].eng] = NoFire
    <3>1. Own(g) # p /\ fire'[g] = fire[g]
      BY <2>2, <1>1, UnusedFacts
    <3>2. active'[Eng(g)] = active[Eng(g)]
      BY <3>1, <2>2, <1>2 DEF Shape, Lives, At, Own
    <3> QED BY <3>1, <3>2 DEF Shape, Registered, Eng
  <2> QED BY <2>1, <2>2 DEF Registered, Eng, Registering
<1> QED BY <1>4, <1>5, <1>6, <1>7, <1>8, <1>10, <1>11, <1>12 DEF Shape

(* Steps that are about no call.                                           *)
LEMMA QuietShape ==
  ASSUME Shape, UNCHANGED <<fire, active, chain, errors>>, row' \in Rows,
         alive \subseteq alive', alive' \subseteq Pids, ticking' \subseteq Engines, OneHost'
  PROVE  Shape'
<1>1. StateTypeOK'
  BY DEF Shape, StateTypeOK, Rows
<1>2. Lives'
  BY DEF Shape, Lives, At, Eng, Own
<1>3. TickHasOne' /\ ChainHolds' /\ InChain' /\ Registered' /\ OverRuns'
  BY DEF Shape, TickHasOne, ChainHolds, InChain, Registered, OverRuns, At, Eng, Own
<1> QED BY <1>1, <1>2, <1>3 DEF Shape

LEMMA GoesTo ==
  ASSUME Shape, NEW f \in Fires, NEW s \in Stages, fire' = [fire EXCEPT ![f].at = s]
  PROVE  /\ GoesOn(f) /\ fire'[f].at = s
         /\ fire'[f].over = fire[f].over /\ fire'[f].seenOf = fire[f].seenOf
<1>1. fire \in [Fires -> Records]
  BY DEF Shape, StateTypeOK
<1> QED BY <1>1 DEF GoesOn, Others, Records

LEMMA InUse ==
  ASSUME Shape
  PROVE  /\ row \in Rows /\ fire \in [Fires -> Records]
         /\ \A f \in Fires : ~At(f, "none") =>
              Eng(f) \in Engines /\ Own(f) \in Pids /\ Own(f) \in alive
BY EngineFacts DEF Shape, StateTypeOK, Rows, Lives, Own

-----------------------------------------------------------------------------
(* The steps of a call, as they go on or end.                              *)
LEMMA ResumeStep ==
  ASSUME Shape, NEW f \in Fires, Resume(f)
  PROVE  /\ GoesOn(f) /\ fire'[f].at = Section(Eng(f)) /\ fire'[f].over = fire[f].over /\ fire'[f].seenOf = fire[f].seenOf
         /\ UNCHANGED <<row, alive, ticking, active, chain, errors>>
         /\ Shape'
<1>1. Section(Eng(f)) \in {"prev", "look"} /\ (Section(Eng(f)) # "prev" => active[Eng(f)] = NoFire)
  BY DEF Section
<1>2. GoesOn(f) /\ fire'[f].at = Section(Eng(f)) /\ fire'[f].over = fire[f].over /\ fire'[f].seenOf = fire[f].seenOf
  BY <1>1, GoesTo DEF Resume, Stages
<1>3. UNCHANGED <<row, alive, ticking, active, chain, errors>> /\ Resumes(f)
  BY DEF Resume
<1> QED BY <1>1, <1>2, <1>3, EnterShape, InUse DEF InSection

LEMMA PrevStep ==
  ASSUME Shape, NEW f \in Fires, PrevSettled(f)
  PROVE  /\ UNCHANGED <<row, active, errors>> /\ At(f, "prev") /\ active[Eng(f)] = NoFire
         /\ \/ /\ GoesOn(f) /\ fire'[f].at = "look" /\ fire'[f].over = fire[f].over /\ fire'[f].seenOf = fire[f].seenOf
               /\ UNCHANGED <<alive, ticking, chain>>
            \/ Leave(f) /\ NextCall(f)
         /\ Shape'
<1>1. /\ UNCHANGED <<row, active, errors>> /\ At(f, "prev") /\ fire[f].at \in InSection
      /\ active[Eng(f)] = NoFire
  BY DEF PrevSettled, At, InSection
<1>2. CASE fire' = [fire EXCEPT ![f].at = "look"] /\ UNCHANGED <<alive, ticking, chain>>
  <2>1. GoesOn(f) /\ fire'[f].at = "look" /\ fire'[f].over = fire[f].over /\ fire'[f].seenOf = fire[f].seenOf
    BY <1>2, GoesTo DEF Stages
  <2> QED BY <1>1, <1>2, <2>1, EnterShape, InUse DEF InSection
<1>3. CASE Leave(f) /\ NextCall(f)
  <2>1. Shape'
    BY <1>1, <1>3, DropShape, InUse DEF Shape, StateTypeOK
  <2> QED BY <1>1, <1>3, <2>1
<1> QED BY <1>2, <1>3 DEF PrevSettled

LEMMA LookStep ==
  ASSUME Shape, NEW f \in Fires, Look(f)
  PROVE  /\ GoesOn(f) /\ fire'[f].at = "claim" /\ fire'[f].over = fire[f].over
         /\ fire'[f].seenOf = row.of /\ At(f, "look") /\ active[Eng(f)] = NoFire
         /\ UNCHANGED <<row, alive, ticking, active, chain, errors>>
         /\ Shape'
<1>1. /\ UNCHANGED <<row, alive, ticking, active, chain, errors>>
      /\ At(f, "look") /\ fire[f].at \in InSection
  BY DEF Look, At, InSection
<1>2. row.by \in Pids \cup {Nobody} /\ row.of \in Fires \cup {NoFire}
  BY InUse DEF Rows
<1>3. /\ GoesOn(f) /\ fire'[f].at = "claim" /\ fire'[f].over = fire[f].over
      /\ fire'[f].seenOf = row.of
  <2>1. fire[f] \in Records /\ fire \in [Fires -> Records]
    BY InUse
  <2> DEFINE r == [fire[f] EXCEPT !.at = "claim", !.seen = row.by, !.seenOf = row.of, !.clock = FALSE]
  <2>2. /\ r \in Records /\ r.eng = fire[f].eng /\ r.at = "claim"
        /\ r.over = fire[f].over /\ r.seenOf = row.of
    BY <1>2, <2>1 DEF Records, Stages
  <2>3. fire' = [fire EXCEPT ![f] = r]
    BY DEF Look
  <2> HIDE DEF r
  <2> QED BY <2>1, <2>2, <2>3 DEF GoesOn, Others
<1>4. active[Eng(f)] = NoFire
  BY <1>1 DEF Shape, Registered, At
<1> QED BY <1>1, <1>3, <1>4, EnterShape, InUse DEF InSection

(* A call that gives way, loses its claim or throws.                       *)
LEMMA GivesWay ==
  ASSUME Shape, NEW f \in Fires, fire[f].at \in InSection, Leave(f), NextCall(f),
         row' \in {row, Advanced(row)}, errors' \in 0..MaxErrors, UNCHANGED active
  PROVE  /\ Ends(f) /\ row'.by = row.by /\ row'.of = row.of /\ row'.old = row.old
         /\ Shape'
<1>1. row \in Rows /\ Advanced(row) \in Rows
  BY InUse, RowValues
<1>2. row' \in Rows /\ row'.by = row.by /\ row'.of = row.of /\ row'.old = row.old
  BY <1>1 DEF Advanced, Rows
<1> QED BY <1>2, DropShape, LeaveFacts

LEMMA ErrorTyped ==
  ASSUME Shape
  PROVE  /\ errors \in 0..MaxErrors
         /\ MayFail => errors' \in 0..MaxErrors
BY JobAssumption DEF Shape, StateTypeOK, MayFail

Loses(f) ==
  /\ fire[f].at \in {"look", "claim"} /\ Leave(f) /\ NextCall(f)
  /\ row' \in {row, Advanced(row)} /\ errors' \in 0..MaxErrors /\ UNCHANGED active

LEMMA LosesStep ==
  ASSUME Shape, NEW f \in Fires
  PROVE  /\ Yield(f) => Loses(f)
         /\ Throws(f) => Loses(f)
         /\ Claim(f) /\ row.by # fire[f].seen => Loses(f)
BY ErrorTyped DEF Yield, Throws, Claim, Loses, At

LEMMA ClaimStep ==
  ASSUME Shape, NEW f \in Fires, Claim(f), row.by = fire[f].seen
  PROVE  /\ GoesOn(f) /\ fire'[f].at = "spawning" /\ fire'[f].seenOf = NoFire /\ fire'[f].over = fire[f].over
         /\ At(f, "claim")
         /\ row'.by = Own(f) /\ row'.of = f /\ row'.old = FALSE
         /\ UNCHANGED <<alive, ticking, active, chain, errors>>
         /\ Shape'
<1>1. /\ At(f, "claim") /\ fire[f].at \in InSection /\ row' = Claimed(row, f)
      /\ fire' = [fire EXCEPT ![f].at = "spawning", ![f].seen = Nobody, ![f].seenOf = NoFire]
      /\ UNCHANGED <<alive, ticking, active, chain, errors>>
  BY DEF Claim, At, InSection
<1>2. row' \in Rows /\ row'.by = Own(f) /\ row'.of = f /\ row'.old = FALSE
  <2>1. Own(f) \in Pids
    BY <1>1, InUse DEF At
  <2> QED BY <1>1, <2>1, InUse, RowValues DEF Claimed, Rows
<1>3. GoesOn(f) /\ fire'[f].at = "spawning" /\ fire'[f].seenOf = NoFire /\ fire'[f].over = fire[f].over
  BY <1>1, InUse DEF GoesOn, Others, Records, Stages
<1>4. active[Eng(f)] = NoFire
  BY <1>1 DEF Shape, Registered, At
<1> QED BY <1>1, <1>2, <1>3, <1>4, EnterShape DEF InSection

LEMMA SpawnedStep ==
  ASSUME Shape, NEW f \in Fires, Spawned(f)
  PROVE  /\ GoesOn(f) /\ fire'[f].at = "running" /\ fire'[f].over = fire[f].over /\ fire'[f].seenOf = fire[f].seenOf
         /\ At(f, "spawning") /\ Calm(Own(f)) /\ NextCall(f)
         /\ active' = [active EXCEPT ![Eng(f)] = f]
         /\ IF row.by = Own(f)
              THEN row'.by = Own(f) /\ row'.of = f /\ row'.old = FALSE
              ELSE row' = row
         /\ UNCHANGED <<alive, ticking, errors>>
         /\ Shape'
<1>1. /\ At(f, "spawning") /\ Calm(Own(f)) /\ NextCall(f)
      /\ fire' = [fire EXCEPT ![f].at = "running"] /\ active' = [active EXCEPT ![Eng(f)] = f]
      /\ row' = IF row.by = Own(f) THEN Claimed(row, f) ELSE row
      /\ UNCHANGED <<alive, ticking, errors>>
  BY DEF Spawned
<1>2. GoesOn(f) /\ fire'[f].at = "running" /\ fire'[f].over = fire[f].over /\ fire'[f].seenOf = fire[f].seenOf
  BY <1>1, GoesTo DEF Stages
<1>3. /\ row' \in Rows
      /\ IF row.by = Own(f)
           THEN row'.by = Own(f) /\ row'.of = f /\ row'.old = FALSE
           ELSE row' = row
  <2>1. Own(f) \in Pids
    BY <1>1, InUse DEF At
  <2> QED BY <1>1, <2>1, InUse, RowValues DEF Claimed, Rows
<1> QED BY <1>1, <1>2, <1>3, SpawnedShape

(* Only the own entry is cleared.                                          *)
OnlyCleared(f) ==
  SameEntry \/ (row.by = Own(f) /\ Emptied)

LEMMA ClearValues ==
  ASSUME Shape, NEW f \in Fires, MayFail \/ UNCHANGED errors,
         row' \in {row, Advanced(row), Cleared(row, Own(f)), Advanced(Cleared(row, Own(f)))}
  PROVE  row' \in Rows /\ OnlyCleared(f) /\ errors' \in 0..MaxErrors
<1>1. row \in Rows /\ Cleared(row, Own(f)) \in Rows
  BY InUse, RowValues
<1>2. row' \in Rows
  BY <1>1, RowValues
<1>3. /\ row.by # Own(f) => Cleared(row, Own(f)) = row
      /\ row.by = Own(f) =>
           Cleared(row, Own(f)).by = Nobody /\ Cleared(row, Own(f)).of = NoFire
  BY <1>1 DEF Cleared, Rows
<1>4. \A r \in Rows :
        Advanced(r).by = r.by /\ Advanced(r).of = r.of /\ Advanced(r).old = r.old
  BY DEF Advanced, Rows
<1> HIDE DEF Rows
<1> QED BY <1>1, <1>2, <1>3, <1>4, ErrorTyped DEF OnlyCleared, SameEntry, Emptied

LEMMA SpawnFailsStep ==
  ASSUME Shape, NEW f \in Fires, SpawnFails(f)
  PROVE  /\ At(f, "spawning") /\ Calm(Own(f)) /\ Leave(f) /\ NextCall(f) /\ UNCHANGED active
         /\ Ends(f) /\ OnlyCleared(f) /\ Shape'
<1>1. At(f, "spawning") /\ Calm(Own(f)) /\ Leave(f) /\ NextCall(f) /\ UNCHANGED active
  BY DEF SpawnFails
<1>2. row' \in Rows /\ OnlyCleared(f) /\ errors' \in 0..MaxErrors
  BY ClearValues DEF SpawnFails, ClearsHalf
<1> QED BY <1>1, <1>2, DropShape, LeaveFacts DEF At, InSection

LEMMA SettleStep ==
  ASSUME Shape, NEW f \in Fires, SettleFire(f)
  PROVE  /\ At(f, "ended") /\ Leave(f) /\ UNCHANGED chain
         /\ active' = [active EXCEPT ![Eng(f)] = NoFire]
         /\ Ends(f) /\ OnlyCleared(f) /\ Shape'
<1>1. /\ At(f, "ended") /\ Leave(f) /\ UNCHANGED chain
      /\ active' = [active EXCEPT ![Eng(f)] = NoFire]
  BY DEF SettleFire
<1>2. row' \in Rows /\ OnlyCleared(f) /\ errors' \in 0..MaxErrors
  BY ClearValues DEF SettleFire, ClearsHalf
<1> QED BY <1>1, <1>2, SettleShape, LeaveFacts

(* An instance ends, or is told to.                                        *)
LEMMA SettlesStep ==
  ASSUME Shape, NEW f \in Fires, Settles(f)
  PROVE  /\ GoesOn(f) /\ fire'[f].at = "ended" /\ fire'[f].over = fire[f].over /\ fire'[f].seenOf = fire[f].seenOf
         /\ At(f, "running") /\ Calm(Own(f))
         /\ UNCHANGED <<row, alive, ticking, active, chain, errors>>
         /\ Shape'
<1>1. GoesOn(f) /\ fire'[f].at = "ended" /\ fire'[f].over = fire[f].over /\ fire'[f].seenOf = fire[f].seenOf
  BY GoesTo DEF Settles, Stages
<1>2. /\ At(f, "running") /\ Calm(Own(f))
      /\ UNCHANGED <<row, alive, ticking, active, chain, errors>>
  BY DEF Settles
<1> QED BY <1>1, <1>2, RunShape, InUse DEF At, Registering

LEMMA TimeoutStep ==
  ASSUME Shape, NEW f \in Fires, WallTimeout(f)
  PROVE  /\ GoesOn(f) /\ fire'[f].over = TRUE
         /\ fire'[f].at = "running" /\ fire'[f].seenOf = fire[f].seenOf
         /\ At(f, "running") /\ ~fire[f].over /\ Calm(Own(f))
         /\ row'.by = row.by /\ row'.of = row.of
         /\ UNCHANGED <<alive, ticking, active, chain, errors>>
         /\ Shape'
<1>1. /\ At(f, "running") /\ ~fire[f].over /\ Calm(Own(f)) /\ row' = Aged(row, f)
      /\ fire' = [fire EXCEPT ![f].over = TRUE]
      /\ UNCHANGED <<alive, ticking, active, chain, errors>>
  BY DEF WallTimeout
<1>2. row' \in Rows /\ row'.by = row.by /\ row'.of = row.of
  BY <1>1, InUse, RowValues DEF Aged, Rows
<1>3. /\ GoesOn(f) /\ fire'[f].over = TRUE
      /\ fire'[f].at = "running" /\ fire'[f].seenOf = fire[f].seenOf
  BY <1>1, InUse DEF GoesOn, Others, Records, Stages, At
<1> QED BY <1>1, <1>2, <1>3, RunShape DEF At, Registering

-----------------------------------------------------------------------------
(* The steps that begin a call.                                            *)
LEMMA BeginStep ==
  ASSUME Shape, NEW e \in Engines, Sweep(e) \/ Manual(e)
  PROVE  /\ e \in ticking /\ Calm(Pid(e)) /\ Pid(e) \in Hosts
         /\ \E f \in Fires :
              Begun(f, e) /\ chain' = [chain EXCEPT ![e] = Append(@, f)]
         /\ UNCHANGED <<row, alive, ticking, active, errors>>
         /\ Shape'
<1>1. /\ e \in ticking /\ Calm(Pid(e)) /\ (Launch(e, TRUE) \/ Launch(e, FALSE))
      /\ UNCHANGED <<row, alive, ticking, active, errors>>
  BY DEF Sweep, Manual
<1>2. Pid(e) \in Hosts /\ Pid(e) \in alive /\ Pid(e) \notin Ticks
  BY <1>1, EngineFacts DEF Shape, OneHost
<1>3. \E f \in Fires : Begun(f, e) /\ chain' = [chain EXCEPT ![e] = Append(@, f)]
  BY <1>1, LaunchFacts
<1>4. Shape'
  BY <1>1, <1>2, LaunchShape DEF Shape, StateTypeOK
<1> QED BY <1>1, <1>2, <1>3, <1>4

LEMMA TickStep ==
  ASSUME Shape, NEW t \in Ticks, TickStarts(t)
  PROVE  /\ <<t, 1>> \in Engines /\ Pid(<<t, 1>>) = t /\ t \notin alive /\ alive' = alive \cup {t}
         /\ \E f \in Fires :
              /\ Begun(f, <<t, 1>>)
              /\ chain' = [chain EXCEPT ![<<t, 1>>] = Append(@, f)]
         /\ UNCHANGED <<row, ticking, active, errors>>
         /\ Shape'
<1>1. /\ t \notin alive /\ alive' = alive \cup {t} /\ Launch(<<t, 1>>, TRUE)
      /\ UNCHANGED <<row, ticking, active, errors>>
  BY DEF TickStarts
<1>2. <<t, 1>> \in Engines /\ Pid(<<t, 1>>) = t /\ t \in Pids /\ t \notin Hosts
  BY EngineFacts
<1>3. \E f \in Fires :
        /\ Begun(f, <<t, 1>>)
        /\ chain' = [chain EXCEPT ![<<t, 1>>] = Append(@, f)]
  BY <1>1, <1>2, LaunchFacts
<1>4. Shape'
  BY <1>1, <1>2, LaunchShape DEF Shape, StateTypeOK
<1> QED BY <1>1, <1>2, <1>3, <1>4

-----------------------------------------------------------------------------
(* The steps that are about no call.                                       *)
RestartKeeps(p) ==
  SameEntry \/ ((row.by \notin alive \/ row.old) /\ Emptied)

LEMMA RestartValues ==
  ASSUME Shape, NEW p, row' = Restarted(row, p)
  PROVE  row' \in Rows /\ RestartKeeps(p)
<1>1. row \in Rows /\ row' \in Rows
  BY InUse, RowValues
<1>2. ~(row.by \notin alive \cup {p} /\ row.old) => row' = Advanced(row)
  BY DEF Restarted
<1>3. \A r \in Rows :
        Advanced(r).by = r.by /\ Advanced(r).of = r.of /\ Advanced(r).old = r.old
  BY DEF Advanced, Rows
<1>4. Cleared(row, row.by) \in Rows
  BY <1>1, RowValues
<1>5. Cleared(row, row.by).by = Nobody /\ Cleared(row, row.by).of = NoFire
  BY <1>1 DEF Cleared, Rows
<1>6. CASE row.by \notin alive \cup {p} /\ row.old
  <2>1. row' = Advanced(Cleared(row, row.by))
    BY <1>6 DEF Restarted
  <2> QED BY <2>1, <1>1, <1>3, <1>4, <1>5, <1>6 DEF RestartKeeps, Emptied
<1> QED BY <1>1, <1>2, <1>3, <1>6 DEF RestartKeeps, SameEntry

LEMMA StartStep ==
  ASSUME Shape, NEW h \in Hosts, HostStarts(h)
  PROVE  /\ alive \cap Hosts = {} /\ alive' = alive \cup {h} /\ ticking' = {<<h, 1>>}
         /\ UNCHANGED <<fire, active, chain, errors>> /\ RestartKeeps(h)
         /\ Shape'
<1>1. /\ alive \cap Hosts = {} /\ alive' = alive \cup {h} /\ ticking' = {<<h, 1>>}
      /\ UNCHANGED <<fire, active, chain, errors>> /\ row' = Restarted(row, h)
  BY DEF HostStarts
<1>2. h \in Pids /\ <<h, 1>> \in Engines /\ Pid(<<h, 1>>) = h
  BY EngineFacts
<1>3. OneHost'
  BY <1>1, <1>2 DEF OneHost
<1>4. alive \subseteq alive' /\ alive' \subseteq Pids /\ ticking' \subseteq Engines
  BY <1>1, <1>2 DEF Shape, StateTypeOK
<1>5. row' \in Rows /\ RestartKeeps(h)
  BY <1>1, RestartValues
<1> QED BY <1>1, <1>3, <1>4, <1>5, QuietShape

LEMMA ReloadStep ==
  ASSUME Shape, NEW e \in Engines, Reload(e)
  PROVE  /\ e \in ticking /\ Calm(Pid(e)) /\ FiresOf(Other(e)) = {}
         /\ ticking' = {Other(e)} /\ Pid(e) \in Hosts /\ Pid(e) \in alive
         /\ UNCHANGED <<alive, fire, active, chain, errors>> /\ RestartKeeps(Pid(e))
         /\ Shape'
<1>1. /\ e \in ticking /\ Calm(Pid(e)) /\ FiresOf(Other(e)) = {}
      /\ ticking' = {Other(e)} /\ row' = Restarted(row, Pid(e))
      /\ UNCHANGED <<alive, fire, active, chain, errors>>
  BY DEF Reload
<1>2. Pid(e) \in Hosts /\ Pid(e) \in alive
  BY <1>1 DEF Shape, OneHost
<1>3. Other(e) \in Engines /\ Pid(Other(e)) = Pid(e)
  BY <1>2, EngineFacts
<1>4. OneHost'
  BY <1>1, <1>2, <1>3 DEF Shape, OneHost
<1>5. alive \subseteq alive' /\ alive' \subseteq Pids /\ ticking' \subseteq Engines
  BY <1>1, <1>3 DEF Shape, StateTypeOK
<1> QED BY <1>1, <1>2, <1>4, <1>5, RestartValues, QuietShape

LEMMA TimeStep ==
  ASSUME Shape, DueComes \/ EntryAges
  PROVE  /\ UNCHANGED <<alive, ticking, fire, active, chain, errors>>
         /\ row'.by = row.by /\ row'.of = row.of
         /\ row'.old = row.old \/ \A f \in Fires : Working(f) => row.of # f
         /\ Shape'
<1>1. UNCHANGED <<alive, ticking, fire, active, chain, errors>>
  BY DEF DueComes, EntryAges
<1>2. /\ row' \in Rows /\ row'.by = row.by /\ row'.of = row.of
      /\ row'.old = row.old \/ \A f \in Fires : Working(f) => row.of # f
  BY InUse DEF DueComes, EntryAges, Rows
<1>3. OneHost'
  BY <1>1 DEF Shape, OneHost
<1>4. alive \subseteq alive' /\ alive' \subseteq Pids /\ ticking' \subseteq Engines
  BY <1>1 DEF Shape, StateTypeOK
<1> QED BY <1>1, <1>2, <1>3, <1>4, QuietShape

LEMMA NextShape ==
  ASSUME Shape, Next
  PROVE  Shape'
<1>1. ASSUME NEW f \in Fires, FireStep(f) PROVE Shape'
  <2>1. CASE Resume(f)
    BY <2>1, ResumeStep
  <2>2. CASE PrevSettled(f)
    BY <2>2, PrevStep
  <2>3. CASE Look(f)
    BY <2>3, LookStep
  <2>4. CASE Yield(f) \/ Throws(f) \/ (Claim(f) /\ row.by # fire[f].seen)
    BY <2>4, LosesStep, GivesWay DEF Loses, InSection
  <2>5. CASE Claim(f) /\ row.by = fire[f].seen
    BY <2>5, ClaimStep
  <2>6. CASE Spawned(f)
    BY <2>6, SpawnedStep
  <2>7. CASE SpawnFails(f)
    BY <2>7, SpawnFailsStep
  <2>8. CASE WallTimeout(f)
    BY <2>8, TimeoutStep
  <2>9. CASE Settles(f)
    BY <2>9, SettlesStep
  <2>10. CASE SettleFire(f)
    BY <2>10, SettleStep
  <2> QED BY <1>1, <2>1, <2>2, <2>3, <2>4, <2>5, <2>6, <2>7, <2>8, <2>9, <2>10 DEF FireStep
<1>2. ASSUME NEW e \in Engines, Sweep(e) \/ Manual(e) \/ Reload(e) PROVE Shape'
  BY <1>2, BeginStep, ReloadStep
<1>3. ASSUME NEW t \in Ticks, TickStarts(t) PROVE Shape'
  BY <1>3, TickStep
<1>4. ASSUME NEW h \in Hosts, HostStarts(h) PROVE Shape'
  BY <1>4, StartStep
<1>5. ASSUME NEW p \in Pids, Crash(p) PROVE Shape'
  BY <1>5, CrashShape
<1>6. CASE DueComes \/ EntryAges
  BY <1>6, TimeStep
<1> QED BY <1>1, <1>2, <1>3, <1>4, <1>5, <1>6 DEF Next

LEMMA StutterShape ==
  ASSUME Shape, UNCHANGED vars
  PROVE  Shape'
<1>1. OneHost'
  BY DEF Shape, OneHost, vars
<1> QED BY <1>1, QuietShape, InUse DEF Shape, StateTypeOK, vars

(* Calls, chains, registries and processes fit together, whatever fails,   *)
(* crashes or is reloaded.                                                 *)
THEOREM ShapeHolds == Spec => []Shape
<1>1. Init => Shape
  BY InitShape
<1>2. Shape /\ [Next]_vars => Shape'
  BY NextShape, StutterShape
<1> QED BY <1>1, <1>2, PTL DEF Spec

(* Whoever is late or mistaken, the history variable stays what it is.     *)
LEMMA MistakesStay ==
  ASSUME mistaken \in BOOLEAN, [Next]_vars
  PROVE  mistaken' \in BOOLEAN /\ (mistaken => mistaken')
<1>1. ASSUME NEW f \in Fires, FireStep(f) PROVE mistaken' \in BOOLEAN /\ (mistaken => mistaken')
  <2>1. CASE UNCHANGED mistaken
    BY <2>1
  <2>2. CASE Claim(f)
    BY <2>2, Zenon DEF Claim
  <2>3. CASE SettleFire(f)
    BY <2>3, Zenon DEF SettleFire
  <2>4. Claim(f) \/ SettleFire(f) \/ UNCHANGED mistaken
    BY <1>1 DEF FireStep, Resume, PrevSettled, Look, Yield, Throws, Spawned, SpawnFails,
         WallTimeout, Settles
  <2> QED BY <2>1, <2>2, <2>3, <2>4
<1>2. CASE UNCHANGED mistaken
  BY <1>2
<1>3. (\E f \in Fires : FireStep(f)) \/ UNCHANGED mistaken
  BY DEF Next, Sweep, Manual, Reload, TickStarts, HostStarts, Crash, DueComes, EntryAges, vars
<1> QED BY <1>1, <1>2, <1>3

(* The row, the records of calls, the registries, the chains and the count *)
(* of failures keep their types; the registry of an engine names its own   *)
(* instances.                                                              *)
THEOREM SchedulerTypes == Spec => []TypeOK
<1>1. Init => mistaken \in BOOLEAN
  BY DEF Init
<1>2. mistaken \in BOOLEAN /\ [Next]_vars => (mistaken \in BOOLEAN)'
  BY MistakesStay
<1>3. Shape /\ mistaken \in BOOLEAN => TypeOK
  BY DEF Shape, TypeOK
<1> QED BY <1>1, <1>2, <1>3, ShapeHolds, PTL DEF Spec


-----------------------------------------------------------------------------
(* One run at a time.  The inductive invariant.                            *)

(* At most one call of a process is ready to go on.                        *)
OneReady == \A f, g \in Fires : Own(f) = Own(g) /\ Ready(f) /\ Ready(g) => f = g

(* Who has not claimed yet is nowhere to be taken for somebody else.       *)
Early == {"queued", "prev", "look", "claim"}
Fresh ==
  \A f \in Fires : fire[f].at \in Early =>
    row.of # f /\ \A g \in Fires : fire[g].seenOf # f

RowTimely ==
  \A f \in Fires : Timely(f) => row.of = f /\ row.by = Own(f) /\ ~row.old

(* Nobody is about to claim from an instance in its time.                  *)
SeenPast == \A f, g \in Fires : At(g, "claim") /\ Timely(f) => fire[g].seenOf # f

(* Who ends in time clears no entry of another.                            *)
EndedOwn ==
  \A f \in Fires : At(f, "ended") /\ ~fire[f].over /\ row.by = Own(f) => row.of = f

RunInv == RowTimely /\ SeenPast /\ EndedOwn
InTime == ~mistaken => RunInv
IInv == Shape /\ mistaken \in BOOLEAN /\ OneReady /\ Fresh /\ InTime

LEMMA InitIInv == Init => IInv
<1> SUFFICES ASSUME Init PROVE IInv
  OBVIOUS
<1>1. \A f \in Fires : fire[f] = Unused
  BY DEF Init
<1>2. OneReady /\ Fresh /\ RowTimely /\ SeenPast /\ EndedOwn
  BY <1>1, UnusedFacts DEF OneReady, Fresh, Early, RowTimely, SeenPast, EndedOwn,
       Ready, Resumes, Timely, Working, At
<1>3. mistaken \in BOOLEAN
  BY DEF Init
<1> QED BY <1>2, <1>3, InitShape DEF IInv, InTime, RunInv


-----------------------------------------------------------------------------
(* What a step of one process leaves ready.                                *)
LEMMA ReadyKept ==
  ASSUME Shape, OneReady, NEW f \in Fires, NEW x, Others(f),
         fire'[f].eng = fire[f].eng \/ fire'[f] = Unused,
         \A e \in Engines : Pid(e) # Own(f) => chain'[e] = chain[e] /\ active'[e] = active[e],
         \A g \in Fires : Ready(g)' /\ fire'[g].eng = fire[g].eng /\ Own(g) = Own(f) => g = x
  PROVE  OneReady'
<1> SUFFICES ASSUME NEW g \in Fires, NEW k \in Fires, (Own(g))' = (Own(k))', Ready(g)', Ready(k)'
             PROVE  g = k
  BY DEF OneReady
<1>1. ASSUME NEW h \in Fires, Ready(h)' PROVE fire'[h].eng = fire[h].eng
  BY <1>1, UnusedFacts DEF Others, Ready, Resumes, At
<1>2. Own(g) = Own(k)
  BY <1>1 DEF Own, Eng
<1>3. CASE Own(g) = Own(f)
  BY <1>1, <1>2, <1>3
<1>4. CASE Own(g) # Own(f)
  <2>1. ASSUME NEW h \in Fires, Ready(h)', Own(h) # Own(f) PROVE Ready(h)
    <3>1. fire'[h] = fire[h]
      BY <2>1 DEF Others
    <3>2. ~At(h, "none")
      BY <2>1, <3>1 DEF Ready, Resumes, At
    <3>3. chain'[Eng(h)] = chain[Eng(h)] /\ active'[Eng(h)] = active[Eng(h)]
      BY <2>1, <3>2, InUse DEF Own
    <3> QED BY <2>1, <3>1, <3>3 DEF Ready, Resumes, At, Holder, Eng
  <2> QED BY <1>2, <1>4, <2>1 DEF OneReady
<1> QED BY <1>3, <1>4

Alone(f) == \A g \in Fires \ {f} : Own(g) = Own(f) => ~Ready(g)

LEMMA AloneWhenReady ==
  ASSUME NEW f \in Fires, OneReady
  PROVE  /\ Ready(f) => Alone(f)
         /\ Calm(Own(f)) => Alone(f)
BY DEF OneReady, Alone, Calm

LEMMA GoReady ==
  ASSUME Shape, OneReady, NEW f \in Fires, GoesOn(f), UNCHANGED <<chain, active>>, Alone(f)
  PROVE  OneReady'
<1>1. ASSUME NEW g \in Fires, Ready(g)', Own(g) = Own(f) PROVE g = f
  BY <1>1 DEF GoesOn, Others, Alone, Ready, Resumes, At, Holder, Eng
<1> QED BY <1>1, ReadyKept DEF GoesOn

(* After a call has left the section or the registry, only the first in    *)
(* the section of its engine may be ready.                                 *)
NextHolder(e) == IF chain'[e] = <<>> THEN NoFire ELSE Head(chain'[e])

LEMMA NextReady ==
  ASSUME Shape, OneReady, NEW f \in Fires, Alone(f), Others(f),
         fire'[f].eng = fire[f].eng \/ fire'[f] = Unused, fire'[f].at \in {"none", "running"},
         \A e \in Engines : e # Eng(f) => chain'[e] = chain[e] /\ active'[e] = active[e],
         \A g \in Fires \ {f} :
           At(g, "prev") /\ Eng(g) = Eng(f) /\ active'[Eng(f)] = NoFire => g = NextHolder(Eng(f))
  PROVE  OneReady'
<1> DEFINE x == NextHolder(Eng(f))
<1>1. ASSUME NEW g \in Fires, Ready(g)', Own(g) = Own(f) PROVE g = x
  <2>1. g # f /\ fire'[g] = fire[g]
    BY <1>1 DEF Others, Ready, Resumes, At
  <2>2. ~Ready(g)
    BY <1>1, <2>1 DEF Alone
  <2>3. ~At(g, "none") /\ Eng(g) \in Engines
    BY <1>1, <2>1, InUse DEF Ready, Resumes, At
  <2>4. Eng(g) = Eng(f)
    <3>1. ASSUME Eng(g) # Eng(f) PROVE FALSE
      <4>1. chain'[Eng(g)] = chain[Eng(g)] /\ active'[Eng(g)] = active[Eng(g)]
        BY <2>3, <3>1
      <4> QED BY <4>1, <1>1, <2>1, <2>2 DEF Ready, Resumes, At, Holder, Eng
    <3> QED BY <3>1
  <2>5. CASE At(g, "prev")
    <3>1. active'[Eng(f)] = NoFire
      BY <1>1, <2>1, <2>4, <2>5 DEF Ready, Resumes, At, Eng
    <3> QED BY <3>1, <2>1, <2>4, <2>5
  <2>6. CASE ~At(g, "prev")
    <3>1. At(g, "queued") /\ (Holder(Eng(g)))' = g
      BY <1>1, <2>1, <2>2, <2>6 DEF Ready, Resumes, At
    <3>2. (Holder(Eng(g)))' = NextHolder(Eng(f))
      BY <2>1, <2>4 DEF Holder, NextHolder, Eng
    <3> QED BY <3>1, <3>2
  <2> QED BY <2>5, <2>6
<1>2. ASSUME NEW e \in Engines, Pid(e) # Own(f) PROVE chain'[e] = chain[e] /\ active'[e] = active[e]
  BY <1>2 DEF Own
<1> HIDE DEF x
<1> QED BY <1>1, <1>2, ReadyKept

LEMMA DropReady ==
  ASSUME Shape, OneReady, NEW f \in Fires, Alone(f), fire[f].at \in InSection,
         Ends(f), NextCall(f), UNCHANGED active
  PROVE  OneReady'
<1>1. \A e \in Engines : e # Eng(f) => chain'[e] = chain[e]
  BY DEF NextCall, Shape, StateTypeOK
<1>2. \A g \in Fires \ {f} : ~(At(g, "prev") /\ Eng(g) = Eng(f))
  BY OneInSection DEF At, InSection
<1> QED BY <1>1, <1>2, UnusedFacts, NextReady DEF Ends

LEMMA SpawnReady ==
  ASSUME Shape, OneReady, NEW f \in Fires, Alone(f), At(f, "spawning"),
         GoesOn(f), fire'[f].at = "running", NextCall(f), active' = [active EXCEPT ![Eng(f)] = f]
  PROVE  OneReady'
<1>1. \A e \in Engines : e # Eng(f) => chain'[e] = chain[e] /\ active'[e] = active[e]
  BY DEF NextCall, Shape, StateTypeOK
<1>2. \A g \in Fires \ {f} : ~(At(g, "prev") /\ Eng(g) = Eng(f))
  BY OneInSection DEF At, InSection
<1> QED BY <1>1, <1>2, NextReady DEF GoesOn

LEMMA SettleReady ==
  ASSUME Shape, OneReady, NEW f \in Fires, Alone(f), Ends(f),
         UNCHANGED chain, active' = [active EXCEPT ![Eng(f)] = NoFire]
  PROVE  OneReady'
<1>1. \A e \in Engines : e # Eng(f) => active'[e] = active[e]
  BY DEF Shape, StateTypeOK
<1>2. ASSUME NEW g \in Fires \ {f}, At(g, "prev"), Eng(g) = Eng(f) PROVE g = NextHolder(Eng(f))
  <2>1. Holder(Eng(g)) = g
    BY <1>2, SectionHead DEF Shape, At, InSection
  <2> QED BY <2>1, <1>2 DEF Holder, NextHolder
<1> QED BY <1>1, <1>2, UnusedFacts, NextReady DEF Ends

LEMMA BegunReady ==
  ASSUME Shape, OneReady, NEW e \in Engines, NEW f \in Fires, Begun(f, e),
         chain' = [chain EXCEPT ![e] = Append(@, f)], UNCHANGED active,
         \A g \in Fires : Own(g) = Pid(e) => ~Ready(g)
  PROVE  OneReady'
<1>1. ASSUME NEW g \in Fires \ {f}, Ready(g)' PROVE Ready(g) /\ fire'[g] = fire[g]
  <2>1. fire'[g] = fire[g]
    BY DEF Begun, Others
  <2>2. ~At(g, "none") /\ Eng(g) \in Engines
    BY <1>1, <2>1, InUse DEF Ready, Resumes, At
  <2>3. At(g, "queued") /\ (Holder(Eng(g)))' = g => Holder(Eng(g)) = g
    <3> SUFFICES ASSUME At(g, "queued"), (Holder(Eng(g)))' = g PROVE Holder(Eng(g)) = g
      OBVIOUS
    <3>1. (Holder(Eng(g)))' = NextHolder(Eng(g))
      BY <2>1 DEF Holder, NextHolder, Eng
    <3>2. chain[Eng(g)] \in Seq(Fires) /\ chain[Eng(g)] # <<>>
      BY <2>2 DEF Shape, StateTypeOK, InChain, At
    <3>3. CASE Eng(g) = e
      <4>1. chain'[e] = Append(chain[e], f)
        BY DEF Shape, StateTypeOK
      <4>2. Head(chain'[e]) = Head(chain[e]) /\ chain'[e] # <<>>
        BY <4>1, <3>2, <3>3
      <4> QED BY <4>2, <3>1, <3>2, <3>3 DEF Holder, NextHolder
    <3>4. CASE Eng(g) # e
      <4>1. chain'[Eng(g)] = chain[Eng(g)]
        BY <3>4, <2>2 DEF Shape, StateTypeOK
      <4> QED BY <4>1, <3>1 DEF Holder, NextHolder
    <3> QED BY <3>3, <3>4
  <2> QED BY <1>1, <2>1, <2>3 DEF Ready, Resumes, At, Eng
<1>2. (Own(f))' = Pid(e)
  BY DEF Begun, Own, Eng
<1>3. \A g \in Fires \ {f} : Ready(g)' => (Own(g))' = Own(g) /\ (Own(g))' # Pid(e)
  BY <1>1 DEF Own, Eng
<1> QED BY <1>1, <1>2, <1>3 DEF OneReady

LEMMA QuietReady ==
  ASSUME OneReady, UNCHANGED <<fire, active, chain>>
  PROVE  OneReady'
BY DEF OneReady, Ready, Resumes, At, Holder, Own, Eng

LEMMA CrashFacts ==
  ASSUME Shape, NEW p \in Pids, Crash(p)
  PROVE  /\ \A f \in Fires : IF Own(f) = p THEN fire'[f] = Unused ELSE fire'[f] = fire[f]
         /\ \A e \in Engines : Pid(e) # p => active'[e] = active[e] /\ chain'[e] = chain[e]
         /\ UNCHANGED row /\ ticking' = {e \in ticking : Pid(e) # p}
BY DEF Crash, Shape, StateTypeOK

LEMMA CrashReady ==
  ASSUME Shape, OneReady, NEW p \in Pids, Crash(p)
  PROVE  OneReady'
<1>1. ASSUME NEW g \in Fires, Ready(g)' PROVE Ready(g) /\ fire'[g] = fire[g]
  <2>1. fire'[g] = fire[g] /\ Own(g) # p
    BY <1>1, UnusedFacts, CrashFacts DEF Ready, Resumes, At
  <2>2. Eng(g) \in Engines
    BY <1>1, <2>1, InUse DEF Ready, Resumes, At
  <2>3. active'[Eng(g)] = active[Eng(g)] /\ chain'[Eng(g)] = chain[Eng(g)]
    BY <2>1, <2>2, CrashFacts DEF Own
  <2> QED BY <1>1, <2>1, <2>3 DEF Ready, Resumes, At, Holder, Eng
<1> QED BY <1>1 DEF OneReady, Own, Eng

-----------------------------------------------------------------------------
(* What a step leaves of the instances in their time.                      *)
LEMMA OneTimely ==
  ASSUME RowTimely, NEW f \in Fires, Timely(f), NEW g \in Fires, Timely(g)
  PROVE  f = g
BY DEF RowTimely

LEMMA FreshKept ==
  ASSUME Fresh,
         \A f \in Fires : fire'[f].at \in Early =>
           fire[f].at \in Early /\ (row'.of = row.of \/ row'.of # f),
         \A g \in Fires : fire'[g].seenOf \in {fire[g].seenOf, row.of, NoFire}
  PROVE  Fresh'
BY JobAssumption DEF Fresh

(* Nobody begins to work, and who ends was in time or had ended before;    *)
(* the entry is kept, or it is cleared and nobody is in time.              *)
Fewer ==
  /\ \A f \in Fires : Timely(f)' => Timely(f) /\ fire'[f].eng = fire[f].eng
  /\ \A f \in Fires : At(f, "claim")' /\ (\E g \in Fires : Timely(g)') => fire'[f] = fire[f]
  /\ \A f \in Fires : At(f, "ended")' /\ ~fire'[f].over =>
       /\ Timely(f) \/ (At(f, "ended") /\ ~fire[f].over)
       /\ fire'[f].eng = fire[f].eng /\ Own(f) # Nobody

LEMMA FewerTimely ==
  ASSUME RunInv, Fewer,
         (row'.by = row.by /\ row'.of = row.of) \/ Emptied,
         SameEntry \/ \A f \in Fires : ~Timely(f)'
  PROVE  RunInv'
<1>1. EndedOwn'
  <2> SUFFICES ASSUME NEW f \in Fires, At(f, "ended")', ~fire'[f].over, row'.by = (Own(f))'
               PROVE  row'.of = f
    BY DEF EndedOwn
  <2>1. (Own(f))' = Own(f) /\ row'.by # Nobody
    BY DEF Fewer, Own, Eng
  <2>2. row'.by = row.by /\ row'.of = row.of
    BY <2>1 DEF Emptied
  <2>3. Timely(f) \/ (At(f, "ended") /\ ~fire[f].over)
    BY DEF Fewer
  <2> QED BY <2>1, <2>2, <2>3 DEF RunInv, RowTimely, EndedOwn
<1>2. RowTimely'
  BY DEF RunInv, RowTimely, SameEntry, Fewer, Own, Eng
<1>3. SeenPast'
  BY DEF RunInv, SeenPast, Fewer, At
<1> QED BY <1>1, <1>2, <1>3 DEF RunInv

(* An instance of the others is as it was.                                 *)
LEMMA OthersFewer ==
  ASSUME Shape, NEW f \in Fires, Others(f),
         Timely(f)' => Timely(f) /\ fire'[f].eng = fire[f].eng,
         At(f, "claim")' => \A g \in Fires : ~Timely(g)',
         At(f, "ended")' /\ ~fire'[f].over => Timely(f) /\ fire'[f].eng = fire[f].eng
  PROVE  Fewer
<1>1. ASSUME NEW g \in Fires, At(g, "ended") \/ Timely(g) PROVE Own(g) # Nobody
  BY <1>1, InUse, EngineFacts DEF At, Timely, Working
<1>2. \A g \in Fires \ {f} : Timely(g)' => Timely(g)
  BY DEF Others, Timely, Working
<1>3. \A g \in Fires \ {f} : (At(g, "ended"))' => At(g, "ended")
  BY DEF Others, At
<1> QED BY <1>1, <1>2, <1>3 DEF Others, Fewer

LEMMA QuietFewer ==
  ASSUME Shape, UNCHANGED fire
  PROVE  Fewer
<1>1. ASSUME NEW g \in Fires, At(g, "ended") \/ Timely(g) PROVE Own(g) # Nobody
  BY <1>1, InUse, EngineFacts DEF At, Timely, Working
<1> QED BY <1>1 DEF Fewer, Timely, Working, At

(* A call that ends.                                                       *)
LEMMA EndsKept ==
  ASSUME IInv, mistaken => mistaken', NEW f \in Fires, Ends(f), SameEntry \/ Emptied,
         ~mistaken' => SameEntry \/ \A g \in Fires \ {f} : ~Timely(g)
  PROVE  Fresh' /\ InTime'
<1>1. /\ fire'[f].at \notin Early /\ ~At(f, "claim")' /\ ~At(f, "ended")' /\ ~Timely(f)'
      /\ fire'[f].seenOf = NoFire
  BY UnusedFacts DEF Ends, Working, Timely, At, Early, Unused
<1>2. \A g \in Fires \ {f} : fire'[g] = fire[g]
  BY DEF Ends, Others
<1>3. Fresh'
  BY <1>1, <1>2, FreshKept, JobAssumption DEF IInv, SameEntry, Emptied
<1>4. ASSUME ~mistaken' PROVE RunInv'
  <2>1. Fewer
    BY <1>1, OthersFewer DEF IInv, Ends
  <2>2. SameEntry \/ \A g \in Fires : ~Timely(g)'
    BY <1>1, <1>2, <1>4 DEF Timely, Working
  <2>3. RunInv
    BY <1>4 DEF IInv, InTime
  <2> QED BY <2>1, <2>2, <2>3, FewerTimely DEF SameEntry
<1> QED BY <1>3, <1>4 DEF InTime

(* A call that goes on before it claims.                                   *)
LEMMA EnterKept ==
  ASSUME IInv, mistaken => mistaken', NEW f \in Fires, GoesOn(f), UNCHANGED row,
         fire[f].at \in {"queued", "prev"}, fire'[f].at \in {"prev", "look"},
         fire'[f].seenOf = fire[f].seenOf
  PROVE  Fresh' /\ InTime'
<1>1. ~Working(f)' /\ ~At(f, "claim")' /\ ~At(f, "ended")' /\ ~Timely(f)'
  BY DEF Working, Timely, At
<1>2. Fresh'
  BY FreshKept DEF IInv, GoesOn, Others, Early
<1>3. Fewer
  BY <1>1, OthersFewer DEF IInv, GoesOn
<1>4. SameEntry
  BY DEF SameEntry
<1>5. ASSUME ~mistaken' PROVE RunInv'
  BY <1>3, <1>4, <1>5, FewerTimely DEF IInv, InTime, SameEntry
<1> QED BY <1>2, <1>5 DEF InTime

(* Who looks and finds the row free meets no instance in its time.         *)
LEMMA LookKept ==
  ASSUME IInv, mistaken => mistaken', NEW f \in Fires, Look(f)
  PROVE  Fresh' /\ InTime'
<1>1. /\ GoesOn(f) /\ fire'[f].at = "claim" /\ fire'[f].over = fire[f].over
      /\ fire'[f].seenOf = row.of /\ At(f, "look") /\ active[Eng(f)] = NoFire
      /\ UNCHANGED row
  BY LookStep DEF IInv
<1>2. Fresh'
  BY <1>1, FreshKept DEF IInv, GoesOn, Others, Early, At
<1>3. ASSUME ~mistaken' PROVE RunInv'
  <2>0. RunInv
    BY <1>3 DEF IInv, InTime
  <2>1. ASSUME NEW g \in Fires, Timely(g) PROVE FALSE
    <3>1. row.by = Own(g) /\ ~row.old /\ row.of = g
      BY <2>0, <2>1 DEF RunInv, RowTimely
    <3>2. Own(g) \in Pids /\ Own(g) \in alive /\ Own(g) # Nobody
      BY <2>1, InUse, EngineFacts DEF IInv, Timely, Working, At
    <3> QED BY <3>1, <3>2, <1>1 DEF Look, Occupied
  <2>2. ~Timely(f)'
    BY <1>1 DEF Timely, Working
  <2>3. \A g \in Fires : ~Timely(g)'
    BY <2>1, <2>2, <1>1 DEF GoesOn, Others, Timely, Working
  <2>4. Fewer
    BY <1>1, <2>3, OthersFewer DEF IInv, GoesOn, At
  <2> QED BY <2>0, <2>3, <2>4, <1>1, FewerTimely
<1> QED BY <1>2, <1>3 DEF InTime

(* A claim that succeeds: unless it is mistaken, who was seen there is no  *)
(* instance in its time, and nobody of this process is about to end.       *)
LEMMA ClaimKept ==
  ASSUME IInv, mistaken => mistaken', NEW f \in Fires, Claim(f), row.by = fire[f].seen
  PROVE  Fresh' /\ InTime'
<1>1. /\ GoesOn(f) /\ fire'[f].at = "spawning" /\ fire'[f].seenOf = NoFire
      /\ fire'[f].over = fire[f].over /\ At(f, "claim")
      /\ row'.by = Own(f) /\ row'.of = f /\ row'.old = FALSE
  BY ClaimStep DEF IInv
<1>2. \A g \in Fires \ {f} : fire'[g] = fire[g]
  BY <1>1 DEF GoesOn, Others
<1>3. Fresh'
  <2>1. \A g \in Fires : fire'[g].at \in Early => fire[g].at \in Early /\ row'.of # g
    BY <1>1, <1>2 DEF Early
  <2>2. \A g \in Fires : fire'[g].seenOf \in {fire[g].seenOf, NoFire}
    BY <1>1, <1>2
  <2> QED BY <2>1, <2>2, FreshKept DEF IInv
<1>4. ASSUME ~mistaken' PROVE RunInv'
  <2>0. RunInv
    BY <1>4 DEF IInv, InTime
  <2>1. row.of = fire[f].seenOf
    <3>1. ~ClaimsLater(f)
      BY <1>4, Zenon DEF Claim
    <3> QED BY <3>1 DEF ClaimsLater
  <2>2. \A g \in Fires : ~Timely(g)
    BY <2>0, <2>1, <1>1 DEF RunInv, RowTimely, SeenPast
  <2>3. \A g \in Fires \ {f} : ~Timely(g)'
    BY <2>2, <1>2 DEF Timely, Working
  <2>4. RowTimely'
    BY <1>1, <2>3 DEF RowTimely, GoesOn, Own, Eng
  <2>5. SeenPast'
    <3>1. \A g \in Fires : At(g, "claim")' => g # f /\ fire'[g].seenOf = fire[g].seenOf
      BY <1>1, <1>2 DEF At
    <3>2. \A g \in Fires : fire[g].seenOf # f
      BY <1>1 DEF IInv, Fresh, Early, At
    <3> QED BY <3>1, <3>2, <2>3 DEF SeenPast
  <2>6. EndedOwn'
    <3>1. ASSUME NEW g \in Fires, At(g, "ended")', Own(g) = Own(f) PROVE FALSE
      <4>1. g # f /\ Ready(g) /\ Ready(f)
        BY <3>1, <1>1, <1>2 DEF At, Ready
      <4> QED BY <4>1, <3>1 DEF IInv, OneReady
    <3>2. \A g \in Fires : (Own(g))' = Own(g)
      BY <1>1, <1>2 DEF GoesOn, Own, Eng
    <3> QED BY <3>1, <3>2, <1>1 DEF EndedOwn
  <2> QED BY <2>4, <2>5, <2>6 DEF RunInv
<1> QED BY <1>3, <1>4 DEF InTime

(* An instance whose start is told, or that was refused.                   *)
LEMMA SpawningTimely ==
  ASSUME Shape, RunInv, NEW f \in Fires, At(f, "spawning")
  PROVE  /\ Timely(f) /\ row.of = f /\ row.by = Own(f) /\ ~row.old
         /\ \A g \in Fires \ {f} : ~Timely(g)
<1>1. Timely(f)
  BY DEF Shape, OverRuns, Registering, At, Timely, Working
<1> QED BY <1>1, OneTimely DEF RunInv, RowTimely

LEMMA SpawnedKept ==
  ASSUME IInv, mistaken => mistaken', NEW f \in Fires, Spawned(f)
  PROVE  Fresh' /\ InTime'
<1>1. /\ GoesOn(f) /\ fire'[f].at = "running" /\ fire'[f].over = fire[f].over
      /\ fire'[f].seenOf = fire[f].seenOf /\ At(f, "spawning")
      /\ IF row.by = Own(f)
           THEN row'.by = Own(f) /\ row'.of = f /\ row'.old = FALSE
           ELSE row' = row
  BY SpawnedStep DEF IInv
<1>2. \A g \in Fires \ {f} : fire'[g] = fire[g]
  BY <1>1 DEF GoesOn, Others
<1>3. Fresh'
  <2>1. \A g \in Fires : fire'[g].at \in Early =>
          fire[g].at \in Early /\ (row'.of = row.of \/ row'.of # g)
    BY <1>1, <1>2 DEF Early
  <2>2. \A g \in Fires : fire'[g].seenOf = fire[g].seenOf
    BY <1>1, <1>2
  <2> QED BY <2>1, <2>2, FreshKept DEF IInv
<1>4. ASSUME ~mistaken' PROVE RunInv'
  <2>0. RunInv
    BY <1>4 DEF IInv, InTime
  <2>1. SameEntry /\ Timely(f)
    <3>1. row.old \in BOOLEAN
      BY InUse DEF IInv, Rows
    <3> QED BY <2>0, <3>1, <1>1, SpawningTimely DEF IInv, SameEntry
  <2>2. Fewer
    BY <1>1, <2>1, OthersFewer DEF IInv, GoesOn, At
  <2> QED BY <2>0, <2>1, <2>2, FewerTimely DEF SameEntry
<1> QED BY <1>3, <1>4 DEF InTime

(* The wall timeout ends the time of the one instance that had it.         *)
LEMMA TimeoutKept ==
  ASSUME IInv, mistaken => mistaken', NEW f \in Fires, WallTimeout(f)
  PROVE  Fresh' /\ InTime'
<1>1. /\ GoesOn(f) /\ fire'[f].over = TRUE /\ fire'[f].at = "running"
      /\ fire'[f].seenOf = fire[f].seenOf /\ At(f, "running") /\ ~fire[f].over
      /\ row'.by = row.by /\ row'.of = row.of
  BY TimeoutStep DEF IInv
<1>2. \A g \in Fires \ {f} : fire'[g] = fire[g]
  BY <1>1 DEF GoesOn, Others
<1>3. Fresh'
  BY <1>1, <1>2, FreshKept DEF IInv, Early
<1>4. ASSUME ~mistaken' PROVE RunInv'
  <2>0. RunInv
    BY <1>4 DEF IInv, InTime
  <2>1. Timely(f)
    BY <1>1 DEF Timely, Working, At
  <2>2. \A g \in Fires \ {f} : ~Timely(g)
    BY <2>0, <2>1, OneTimely DEF RunInv
  <2>3. \A g \in Fires : ~Timely(g)'
    BY <2>2, <1>1, <1>2 DEF Timely, Working
  <2>4. Fewer
    BY <1>1, <2>3, OthersFewer DEF IInv, GoesOn, At
  <2> QED BY <2>0, <2>3, <2>4, <1>1, FewerTimely
<1> QED BY <1>3, <1>4 DEF InTime

(* An instance that ends in time has written the entry.                    *)
LEMMA SettlesKept ==
  ASSUME IInv, mistaken => mistaken', NEW f \in Fires, Settles(f)
  PROVE  Fresh' /\ InTime'
<1>1. /\ GoesOn(f) /\ fire'[f].at = "ended" /\ fire'[f].over = fire[f].over
      /\ fire'[f].seenOf = fire[f].seenOf /\ At(f, "running") /\ UNCHANGED row
  BY SettlesStep DEF IInv
<1>2. Fresh'
  BY <1>1, FreshKept DEF IInv, GoesOn, Others, Early
<1>3. ASSUME ~mistaken' PROVE RunInv'
  <2>1. ~fire'[f].over => Timely(f)
    BY <1>1 DEF Timely, Working, At
  <2>2. Fewer
    BY <1>1, <2>1, OthersFewer DEF IInv, GoesOn, Timely, Working, At
  <2> QED BY <1>1, <1>3, <2>2, FewerTimely DEF IInv, InTime, SameEntry
<1> QED BY <1>2, <1>3 DEF InTime

(* The ends of a call.                                                     *)
LEMMA LosesKept ==
  ASSUME IInv, mistaken => mistaken', NEW f \in Fires, Loses(f)
  PROVE  Fresh' /\ InTime'
<1>1. Ends(f) /\ SameEntry
  BY GivesWay DEF IInv, Loses, InSection, SameEntry
<1> QED BY <1>1, EndsKept

LEMMA PrevKept ==
  ASSUME IInv, mistaken => mistaken', NEW f \in Fires, PrevSettled(f)
  PROVE  Fresh' /\ InTime'
<1>1. UNCHANGED row /\ At(f, "prev")
  BY PrevStep DEF IInv
<1>2. CASE GoesOn(f) /\ fire'[f].at = "look" /\ fire'[f].seenOf = fire[f].seenOf
  BY <1>1, <1>2, EnterKept DEF At
<1>3. CASE Leave(f)
  BY <1>1, <1>3, LeaveFacts, EndsKept DEF IInv, SameEntry
<1> QED BY <1>2, <1>3, PrevStep DEF IInv

LEMMA SpawnFailsKept ==
  ASSUME IInv, mistaken => mistaken', NEW f \in Fires, SpawnFails(f)
  PROVE  Fresh' /\ InTime'
<1>1. At(f, "spawning") /\ Ends(f) /\ OnlyCleared(f)
  BY SpawnFailsStep DEF IInv
<1>2. ASSUME ~mistaken' PROVE \A g \in Fires \ {f} : ~Timely(g)
  BY <1>1, <1>2, SpawningTimely DEF IInv, InTime
<1> QED BY <1>1, <1>2, EndsKept DEF OnlyCleared

(* Who clears an entry that is its own leaves nobody in time without one.  *)
LEMMA SettleKept ==
  ASSUME IInv, mistaken => mistaken', NEW f \in Fires, SettleFire(f)
  PROVE  Fresh' /\ InTime'
<1>1. At(f, "ended") /\ Ends(f) /\ OnlyCleared(f)
  BY SettleStep DEF IInv
<1>2. ASSUME ~mistaken', row.by = Own(f) PROVE \A g \in Fires \ {f} : ~Timely(g)
  <2>0. RunInv
    BY <1>2 DEF IInv, InTime
  <2>1. ~ClearsLater(f)
    BY <1>2, Zenon DEF SettleFire
  <2>2. row.of = f
    BY <2>0, <2>1, <1>1, <1>2 DEF ClearsLater, RunInv, EndedOwn
  <2> QED BY <2>0, <2>2 DEF RunInv, RowTimely
<1> QED BY <1>1, <1>2, EndsKept DEF OnlyCleared

-----------------------------------------------------------------------------
(* The steps that begin a call.                                            *)
LEMMA BegunKept ==
  ASSUME IInv, mistaken => mistaken', NEW e \in Engines, NEW f \in Fires, Begun(f, e), UNCHANGED row
  PROVE  Fresh' /\ InTime'
<1>1. /\ fire'[f].at \in {"queued", "prev", "look"} /\ fire'[f].seenOf = NoFire
      /\ row.of # f /\ \A g \in Fires : fire[g].seenOf # f
      /\ \A g \in Fires \ {f} : fire'[g] = fire[g]
  BY StageValues DEF Begun, Others
<1>2. Fresh'
  BY <1>1, JobAssumption DEF IInv, Fresh, Early
<1>3. ~Timely(f)' /\ ~At(f, "claim")' /\ ~At(f, "ended")'
  BY <1>1 DEF Timely, Working, At
<1>4. ASSUME ~mistaken' PROVE RunInv'
  <2>1. Fewer
    BY <1>3, OthersFewer DEF IInv, Begun
  <2> QED BY <1>4, <2>1, FewerTimely DEF IInv, InTime, SameEntry
<1> QED BY <1>2, <1>4 DEF InTime

LEMMA BeginKept ==
  ASSUME IInv, mistaken => mistaken', NEW e \in Engines, Sweep(e) \/ Manual(e)
  PROVE  OneReady' /\ Fresh' /\ InTime'
<1>1. PICK f \in Fires : Begun(f, e) /\ chain' = [chain EXCEPT ![e] = Append(@, f)]
  BY BeginStep DEF IInv
<1>2. e \in ticking /\ Calm(Pid(e)) /\ UNCHANGED <<row, active>>
  BY BeginStep DEF IInv
<1>3. OneReady'
  BY <1>1, <1>2, BegunReady DEF IInv, Calm
<1> QED BY <1>1, <1>2, <1>3, BegunKept

LEMMA TickKept ==
  ASSUME IInv, mistaken => mistaken', NEW t \in Ticks, TickStarts(t)
  PROVE  OneReady' /\ Fresh' /\ InTime'
<1> DEFINE e == <<t, 1>>
<1>1. e \in Engines /\ Pid(e) = t /\ t \notin alive /\ UNCHANGED <<row, active>>
  BY TickStep DEF IInv
<1>2. PICK f \in Fires : Begun(f, e) /\ chain' = [chain EXCEPT ![e] = Append(@, f)]
  BY TickStep DEF IInv
<1> HIDE DEF e
<1>3. \A g \in Fires : Own(g) = Pid(e) => ~Ready(g)
  BY <1>1, InUse DEF IInv, Ready, Resumes, At
<1>4. OneReady'
  BY <1>1, <1>2, <1>3, BegunReady DEF IInv
<1> QED BY <1>1, <1>2, <1>4, BegunKept

-----------------------------------------------------------------------------
(* The steps that are about no call.                                       *)
LEMMA QuietKept ==
  ASSUME IInv, mistaken => mistaken', UNCHANGED fire,
         (row'.by = row.by /\ row'.of = row.of) \/ Emptied,
         SameEntry \/ \A f \in Fires : ~Timely(f) \/ mistaken
  PROVE  Fresh' /\ InTime'
<1>1. Fresh'
  BY FreshKept, JobAssumption DEF IInv, Emptied
<1>2. ASSUME ~mistaken' PROVE RunInv'
  <2>1. SameEntry \/ \A f \in Fires : ~Timely(f)'
    BY <1>2 DEF Timely, Working
  <2> QED BY <1>2, <2>1, QuietFewer, FewerTimely DEF IInv, InTime
<1> QED BY <1>1, <1>2 DEF InTime

LEMMA RestartKept ==
  ASSUME IInv, mistaken => mistaken', NEW p, RestartKeeps(p), UNCHANGED fire
  PROVE  Fresh' /\ InTime'
<1>1. ASSUME NEW g \in Fires, Timely(g), ~mistaken PROVE row.by \in alive /\ ~row.old
  BY <1>1, InUse DEF IInv, InTime, RunInv, RowTimely, Timely, Working, At
<1> QED BY <1>1, QuietKept DEF RestartKeeps, SameEntry

LEMMA StartKept ==
  ASSUME IInv, mistaken => mistaken', NEW h \in Hosts, HostStarts(h)
  PROVE  OneReady' /\ Fresh' /\ InTime'
<1>1. UNCHANGED <<fire, active, chain>> /\ RestartKeeps(h)
  BY StartStep DEF IInv
<1> QED BY <1>1, QuietReady, RestartKept DEF IInv

LEMMA ReloadKept ==
  ASSUME IInv, mistaken => mistaken', NEW e \in Engines, Reload(e)
  PROVE  OneReady' /\ Fresh' /\ InTime'
<1>1. UNCHANGED <<fire, active, chain>> /\ RestartKeeps(Pid(e))
  BY ReloadStep DEF IInv
<1> QED BY <1>1, QuietReady, RestartKept DEF IInv

LEMMA TimeKept ==
  ASSUME IInv, mistaken => mistaken', DueComes \/ EntryAges
  PROVE  OneReady' /\ Fresh' /\ InTime'
<1>1. /\ UNCHANGED <<fire, active, chain>>
      /\ row'.by = row.by /\ row'.of = row.of
      /\ row'.old = row.old \/ \A f \in Fires : Working(f) => row.of # f
  BY TimeStep DEF IInv
<1>2. SameEntry \/ \A g \in Fires : ~Timely(g) \/ mistaken
  BY <1>1 DEF SameEntry, Timely, IInv, InTime, RunInv, RowTimely
<1> QED BY <1>1, <1>2, QuietReady, QuietKept DEF IInv

LEMMA CrashKept ==
  ASSUME IInv, mistaken => mistaken', NEW p \in Pids, Crash(p)
  PROVE  OneReady' /\ Fresh' /\ InTime'
<1>1. \A g \in Fires : fire'[g] = Unused \/ fire'[g] = fire[g]
  BY CrashFacts DEF IInv
<1>2. UNCHANGED row
  BY CrashFacts DEF IInv
<1>3. Unused.at = "none" /\ Unused.seenOf = NoFire
  BY DEF Unused
<1>4. Fresh'
  <2>1. \A g \in Fires : fire'[g].at \in Early => fire[g].at \in Early
    BY <1>1, <1>3 DEF Early
  <2>2. \A g \in Fires : fire'[g].seenOf \in {fire[g].seenOf, NoFire}
    BY <1>1, <1>3
  <2> QED BY <2>1, <2>2, <1>2, FreshKept DEF IInv
<1>5. ASSUME ~mistaken' PROVE RunInv'
  <2>1. ASSUME NEW g \in Fires, At(g, "ended") \/ Timely(g) PROVE Own(g) # Nobody
    BY <2>1, InUse, EngineFacts DEF IInv, At, Timely, Working
  <2>2. \A g \in Fires : (At(g, "claim"))' \/ (At(g, "ended"))' \/ Timely(g)' => fire'[g] = fire[g]
    BY <1>1, <1>3 DEF At, Timely, Working
  <2>3. \A g \in Fires : fire'[g] = fire[g] =>
          (Timely(g)' => Timely(g)) /\ ((At(g, "ended"))' => At(g, "ended"))
    BY DEF At, Timely, Working
  <2>4. Fewer
    BY <2>1, <2>2, <2>3 DEF Fewer
  <2> QED BY <1>2, <1>5, <2>4, FewerTimely DEF IInv, InTime, SameEntry
<1> QED BY <1>4, <1>5, CrashReady DEF IInv, InTime

-----------------------------------------------------------------------------
LEMMA FireKept ==
  ASSUME IInv, mistaken => mistaken', NEW f \in Fires, FireStep(f)
  PROVE  OneReady' /\ Fresh' /\ InTime'
<1>0. Shape /\ OneReady
  BY DEF IInv
<1>1. CASE Resume(f)
  <2>1. /\ GoesOn(f) /\ fire'[f].at \in {"prev", "look"} /\ fire'[f].seenOf = fire[f].seenOf
        /\ At(f, "queued") /\ Ready(f) /\ UNCHANGED <<row, active, chain>>
    BY <1>0, <1>1, ResumeStep DEF Resume, Resumes, Ready, Section
  <2> QED BY <1>0, <2>1, AloneWhenReady, GoReady, EnterKept DEF At
<1>2. CASE PrevSettled(f)
  <2>1. Ready(f) /\ fire[f].at \in InSection /\ UNCHANGED active
    BY <1>0, <1>2, PrevStep DEF Ready, At, InSection
  <2>2. CASE GoesOn(f) /\ UNCHANGED chain
    BY <1>0, <1>2, <2>1, <2>2, AloneWhenReady, GoReady, PrevKept
  <2>3. CASE Leave(f) /\ NextCall(f)
    BY <1>0, <1>2, <2>1, <2>3, AloneWhenReady, LeaveFacts, DropReady, PrevKept
  <2> QED BY <1>0, <1>2, <2>2, <2>3, PrevStep
<1>3. CASE Look(f)
  <2>1. Ready(f) /\ GoesOn(f) /\ UNCHANGED <<chain, active>>
    BY <1>0, <1>3, LookStep DEF Ready, At
  <2> QED BY <1>0, <1>3, <2>1, AloneWhenReady, GoReady, LookKept
<1>4. CASE Loses(f)
  <2>1. Ready(f) /\ fire[f].at \in InSection /\ UNCHANGED active /\ NextCall(f) /\ Ends(f)
    BY <1>0, <1>4, LeaveFacts DEF Loses, Ready, InSection
  <2> QED BY <1>0, <1>4, <2>1, AloneWhenReady, DropReady, LosesKept
<1>5. CASE Claim(f) /\ row.by = fire[f].seen
  <2>1. Ready(f) /\ GoesOn(f) /\ UNCHANGED <<chain, active>>
    BY <1>0, <1>5, ClaimStep DEF Ready, At
  <2> QED BY <1>0, <1>5, <2>1, AloneWhenReady, GoReady, ClaimKept
<1>6. CASE Spawned(f)
  BY <1>0, <1>6, SpawnedStep, AloneWhenReady, SpawnReady, SpawnedKept
<1>7. CASE SpawnFails(f)
  <2>1. /\ Calm(Own(f)) /\ fire[f].at \in InSection /\ Ends(f) /\ NextCall(f) /\ UNCHANGED active
    BY <1>0, <1>7, SpawnFailsStep DEF At, InSection
  <2> QED BY <1>0, <1>7, <2>1, AloneWhenReady, DropReady, SpawnFailsKept
<1>8. CASE WallTimeout(f)
  BY <1>0, <1>8, TimeoutStep, AloneWhenReady, GoReady, TimeoutKept
<1>9. CASE Settles(f)
  BY <1>0, <1>9, SettlesStep, AloneWhenReady, GoReady, SettlesKept
<1>10. CASE SettleFire(f)
  <2>1. Ready(f)
    BY <1>0, <1>10, SettleStep DEF Ready, At
  <2> QED BY <1>0, <1>10, <2>1, SettleStep, AloneWhenReady, SettleReady, SettleKept
<1> QED BY <1>0, <1>1, <1>2, <1>3, <1>4, <1>5, <1>6, <1>7, <1>8, <1>9, <1>10, LosesStep DEF FireStep

LEMMA NextIInv ==
  ASSUME IInv, [Next]_vars
  PROVE  IInv'
<1>1. Shape'
  BY NextShape, StutterShape DEF IInv
<1>2. mistaken' \in BOOLEAN /\ (mistaken => mistaken')
  BY MistakesStay DEF IInv
<1>3. OneReady' /\ Fresh' /\ InTime'
  <2>1. ASSUME NEW f \in Fires, FireStep(f) PROVE OneReady' /\ Fresh' /\ InTime'
    BY <1>2, <2>1, FireKept
  <2>2. ASSUME NEW e \in Engines, Sweep(e) \/ Manual(e) \/ Reload(e)
        PROVE  OneReady' /\ Fresh' /\ InTime'
    BY <1>2, <2>2, BeginKept, ReloadKept
  <2>3. ASSUME NEW t \in Ticks, TickStarts(t) PROVE OneReady' /\ Fresh' /\ InTime'
    BY <1>2, <2>3, TickKept
  <2>4. ASSUME NEW h \in Hosts, HostStarts(h) PROVE OneReady' /\ Fresh' /\ InTime'
    BY <1>2, <2>4, StartKept
  <2>5. ASSUME NEW p \in Pids, Crash(p) PROVE OneReady' /\ Fresh' /\ InTime'
    BY <1>2, <2>5, CrashKept
  <2>6. CASE DueComes \/ EntryAges
    BY <1>2, <2>6, TimeKept
  <2>7. CASE UNCHANGED vars
    <3>1. UNCHANGED <<row, fire, active, chain>>
      BY <2>7 DEF vars
    <3>2. SameEntry
      BY <3>1 DEF SameEntry
    <3> QED BY <1>2, <3>1, <3>2, QuietReady, QuietKept DEF IInv, SameEntry
  <2> QED BY <2>1, <2>2, <2>3, <2>4, <2>5, <2>6, <2>7 DEF Next
<1> QED BY <1>1, <1>2, <1>3 DEF IInv

(* An engine never has two instances (beginInstance waits for the earlier  *)
(* one), and the job does not run twice at a time, with the row naming the *)
(* process, unless an entry of a process was taken for an earlier one of   *)
(* it (clearActiveIf and claimActive compare pids only).                   *)
THEOREM OneRunAtATime == Spec => []OneTimelyRun
<1>1. Init => IInv
  BY InitIInv
<1>2. IInv /\ [Next]_vars => IInv'
  BY NextIInv
<1>3. ASSUME IInv PROVE OneTimelyRun
  <2>1. ASSUME NEW f \in Fires, NEW g \in Fires, Working(f), Working(g), Eng(f) = Eng(g)
        PROVE  f = g
    <3>1. CASE At(f, "running") \/ At(g, "running")
      <4>1. active[Eng(f)] \in {NoFire, f} /\ active[Eng(f)] \in {NoFire, g}
            /\ (active[Eng(f)] = f \/ active[Eng(f)] = g)
        BY <1>3, <2>1, <3>1 DEF IInv, Shape, Registered, Registering, Working, At
      <4> QED BY <4>1, JobAssumption
    <3>2. CASE At(f, "spawning") /\ At(g, "spawning")
      BY <1>3, <2>1, <3>2, OneInSection DEF IInv, InSection, At
    <3> QED BY <2>1, <3>1, <3>2 DEF Working, At
  <2>2. ASSUME ~mistaken, NEW f \in Fires, Timely(f)
        PROVE  row.by = Own(f) /\ \A g \in Fires : Timely(g) => g = f
    <3>1. RowTimely
      BY <1>3, <2>2 DEF IInv, InTime, RunInv
    <3> QED BY <2>2, <3>1, OneTimely DEF RowTimely
  <2> QED BY <2>1, <2>2 DEF OneTimelyRun
<1> QED BY <1>1, <1>2, <1>3, PTL DEF Spec
=============================================================================
