----------------------------- MODULE DriverInv ------------------------------
(***************************************************************************)
(* The inductive invariant of Driver: how slots, kicks and messages are    *)
(* accounted for.  DriverProofs proves it.                                 *)
(***************************************************************************)
EXTENDS Driver

(* The jobs, followed by those the kicks in line will become.  FreeSlot    *)
(* moves a kick from the one part to the other, and changes no place here. *)
Lineup(js, w) == js \o [i \in DOMAIN w |-> GrantJob(w[i])]
Upcoming == Lineup(jobs, waiting)

GrantsIn(u) == {i \in DOMAIN u : u[i].do = "grant"}

Types ==
  /\ queue \in [Sessions -> Seq(Item)] /\ \A s \in Sessions : Len(queue[s]) <= QueueCap
  /\ streak \in [Sessions -> Nat]
  /\ run \in [Sessions -> Run]
  /\ dismantled \subseteq Sessions /\ abortAsked \subseteq Sessions
  /\ queuedKicks \in [Sessions -> Nat]
  /\ inFlight \in Nat
  /\ waiting \in Seq(Kick) /\ jobs \in Seq(Job)
  /\ fate \in [Messages -> Fates]

SettlesIn(u, s) == {i \in DOMAIN u : u[i] = SettleJob(s)}

(* The jobs that stand for a slot. *)
SlotsIn(u) == {i \in DOMAIN u : u[i].do \in {"release", "grant"}}

(* The jobs that will take back a count of queuedKicks of s. *)
Owes(j, s) ==
  \/ j.do = "grant" /\ j.kick.sid = s
  \/ j.do = "release" /\ j.sid = s /\ j.laned

OwedIn(u, s) == {i \in DOMAIN u : Owes(u[i], s)}

BusySessions == {s \in Sessions : Busy(s)}

(* What is true of jobs; the job that runs is taken off them first.        *)

(* A run that is over, and only such a run, has its settlement ready.      *)
SettlesEnded(js) ==
  \A s \in Sessions :
    Cardinality(SettlesIn(js, s)) = IF run[s].stage = "ended" THEN 1 ELSE 0

(* Who holds the slots. *)
SlotsCounted(js) ==
  /\ IsFiniteSet(BusySessions)
  /\ inFlight = Cardinality(BusySessions) + Cardinality(SlotsIn(js))
  /\ inFlight <= Capacity
  /\ waiting # <<>> => inFlight = Capacity

(* Whom queuedKicks counts: kicks in line, and runs that one of them       *)
(* started until their slot is released.                                   *)
KicksCounted(js) ==
  \A s \in Sessions :
    /\ run[s].laned => Busy(s)
    /\ queuedKicks[s] = Cardinality(OwedIn(Lineup(js, waiting), s))
                        + IF run[s].laned THEN 1 ELSE 0

DismantledEmpty == \A s \in dismantled : queue[s] = <<>>

(* The messages of a queue, each in one entry only. *)
Msgs(q) == {q[i].msg : i \in DOMAIN q}
Distinct(q) == \A i, j \in DOMAIN q : q[i].msg = q[j].msg => i = j

NoRepeat(sq) == \A i, j \in DOMAIN sq : sq[i] = sq[j] => i = j

(* The messages P are once each in one of the queues qs, or once in the    *)
(* seeds of one kick of the lineup u.                                      *)
HousedIn(qs, u, P) ==
  /\ \A s \in Sessions : Distinct(qs[s])
  /\ \A s, t \in Sessions : s # t => Msgs(qs[s]) \cap Msgs(qs[t]) = {}
  /\ \A n \in GrantsIn(u) : NoRepeat(u[n].kick.seeds)
  /\ \A n, k \in GrantsIn(u) :
       n # k => ToSet(u[n].kick.seeds) \cap ToSet(u[k].kick.seeds) = {}
  /\ \A s \in Sessions : \A n \in GrantsIn(u) :
       Msgs(qs[s]) \cap ToSet(u[n].kick.seeds) = {}
  /\ P = (UNION {Msgs(qs[s]) : s \in Sessions})
         \cup (UNION {ToSet(u[n].kick.seeds) : n \in GrantsIn(u)})

Pending(f) == {m \in Messages : f[m] = "pending"}

Housed == HousedIn(queue, Upcoming, Pending(fate))

IInv ==
  /\ Types /\ SettlesEnded(jobs) /\ SlotsCounted(jobs) /\ KicksCounted(jobs)
  /\ DismantledEmpty /\ Housed

NothingBehind == \A s \in Sessions : Clean(s)
=============================================================================
