----------------------------- MODULE MeshHealth -----------------------------
(***************************************************************************)
(* The health attestors of the mesh at work.  MeshQuorum decides on lists  *)
(* that its caller injects; this module adds the caller: organs that crash *)
(* and recover, a network that splits and heals, attestors that collect    *)
(* heartbeats and views one at a time over a window and then attest on     *)
(* what they hold, which by then may be stale.                             *)
(*                                                                         *)
(* An attestor runs in the organ it is named after.  A Byzantine organ     *)
(* sends heartbeats when it is down and reaches both sides of a split.     *)
(***************************************************************************)
EXTENDS MeshQuorum

CONSTANTS
  Organs,          \* the membership; n is its size
  Attestors,       \* the organs that run an attestor
  Byzantine,       \* the organs that may lie
  F,               \* the faults the attestors are built to tolerate
  BeatsPerWindow,  \* bound: heartbeats of one organ in one list
  Reports,         \* the alive values the environment uses
  Cuts,            \* the sets of organs a split may separate from the rest
  PollsViews,      \* whether attestors supply membership views at all
  MaxFaults,       \* bound: crashes plus splits of a behaviour
  NoVerdict        \* no verdict in this window yet

ASSUME OrgansAssumption   == IsFiniteSet(Organs) /\ Organs # {}
ASSUME FaultsAssumption   == F \in Nat
ASSUME PlacesAssumption   == Attestors \subseteq Organs /\ Byzantine \subseteq Organs
ASSUME CutsAssumption     == Cuts \subseteq SUBSET Organs
ASSUME BoundsAssumption   == /\ BeatsPerWindow \in Nat \ {0}
                             /\ MaxFaults \in Nat
                             /\ Reports \subseteq BOOLEAN
                             /\ PollsViews \in BOOLEAN

N == Cardinality(Organs)

Heartbeats == [organ : Organs, alive : BOOLEAN, seq : 1..BeatsPerWindow]
Views      == SUBSET Organs
Verdicts   == [healthy : BOOLEAN, live : Nat, partition : BOOLEAN, reason : Reasons]

VARIABLES
  up,       \* the organs that run
  cut,      \* the side of the network split off ({} when whole)
  faults,   \* crashes and splits so far, against MaxFaults
  inbox,    \* per attestor: the heartbeats of the open window
  polled,   \* per attestor: the two views supplied, or NotSupplied
  verdict,  \* per attestor: the verdict of the open window
  split,    \* history: the window was opened under the present cut
  seen      \* history: the organs that ran at some time of the window

vars == <<up, cut, faults, inbox, polled, verdict, split, seen>>

SameSide(o, p) == (o \in cut) <=> (p \in cut)

\* What an organ's message reaches: its own side, everything if Byzantine.
Reaches(o, a) == o \in Byzantine \/ SameSide(o, a)

\* The membership an organ on this side sees.
ViewFrom(o) == {p \in up : SameSide(p, o)}

BeatsOf(a, o) == {h \in inbox[a] : h.organ = o}

LiveOrgans(a) == {h.organ : h \in LiveBeats(inbox[a])}

EmptyViews == [first |-> NotSupplied, second |-> NotSupplied]
----------------------------------------------------------------------------
Init ==
  /\ up = Organs
  /\ cut = {}
  /\ faults = 0
  /\ inbox = [a \in Attestors |-> {}]
  /\ polled = [a \in Attestors |-> EmptyViews]
  /\ verdict = [a \in Attestors |-> NoVerdict]
  /\ split = [a \in Attestors |-> FALSE]
  /\ seen = [a \in Attestors |-> Organs]

\* An organ stops; the window its attestor holds in memory goes with it.
Crash(o) ==
  /\ o \in up
  /\ faults < MaxFaults
  /\ faults' = faults + 1
  /\ up' = up \ {o}
  /\ inbox' = [a \in Attestors |-> IF a = o THEN {} ELSE inbox[a]]
  /\ polled' = [a \in Attestors |-> IF a = o THEN EmptyViews ELSE polled[a]]
  /\ verdict' = [a \in Attestors |-> IF a = o THEN NoVerdict ELSE verdict[a]]
  /\ split' = [a \in Attestors |-> IF a = o THEN cut # {} ELSE split[a]]
  /\ seen' = [a \in Attestors |-> IF a = o THEN up \ {o} ELSE seen[a]]
  /\ UNCHANGED cut

Recover(o) ==
  /\ o \in Organs \ up
  /\ up' = up \cup {o}
  /\ seen' = [a \in Attestors |-> seen[a] \cup {o}]
  /\ UNCHANGED <<cut, faults, inbox, polled, verdict, split>>

\* The network splits: every window now open straddles the split.
Split(C) ==
  /\ cut = {}
  /\ C # {}
  /\ faults < MaxFaults
  /\ faults' = faults + 1
  /\ cut' = C
  /\ split' = [a \in Attestors |-> FALSE]
  /\ UNCHANGED <<up, inbox, polled, verdict, seen>>

Heal ==
  /\ cut # {}
  /\ cut' = {}
  /\ split' = [a \in Attestors |-> FALSE]
  /\ UNCHANGED <<up, faults, inbox, polled, verdict, seen>>

\* A heartbeat enters an attestor's list.  alive = TRUE is said by an organ
\* that runs or lies; alive = FALSE may be entered for any organ.
Beat(a, o, alive) ==
  /\ a \in up
  /\ alive => (o \in up \/ o \in Byzantine) /\ Reaches(o, a)
  /\ Cardinality(BeatsOf(a, o)) < BeatsPerWindow
  /\ LET h == [organ |-> o, alive |-> alive, seq |-> Cardinality(BeatsOf(a, o)) + 1]
     IN  inbox' = [inbox EXCEPT ![a] = @ \cup {h}]
  /\ UNCHANGED <<up, cut, faults, polled, verdict, split, seen>>

\* An attestor asks an organ for its view; a Byzantine organ may say that
\* the whole mesh is there.
PollView(a, o, slot) ==
  /\ PollsViews
  /\ a \in up
  /\ o \in up
  /\ Reaches(o, a)
  /\ polled[a][slot] = NotSupplied
  /\ \E view \in {ViewFrom(o)} \cup (IF o \in Byzantine THEN {Organs} ELSE {}) :
       polled' = [polled EXCEPT ![a][slot] = view]
  /\ UNCHANGED <<up, cut, faults, inbox, verdict, split, seen>>

\* The attestor runs healthy() on what it has collected.
Attest(a) ==
  /\ a \in up
  /\ verdict' = [verdict EXCEPT
       ![a] = Healthy(N, F, inbox[a], polled[a].first, polled[a].second)]
  /\ UNCHANGED <<up, cut, faults, inbox, polled, split, seen>>

\* The caller starts over with an empty list.
NewWindow(a) ==
  /\ a \in up
  /\ inbox' = [inbox EXCEPT ![a] = {}]
  /\ polled' = [polled EXCEPT ![a] = EmptyViews]
  /\ verdict' = [verdict EXCEPT ![a] = NoVerdict]
  /\ split' = [split EXCEPT ![a] = cut # {}]
  /\ seen' = [seen EXCEPT ![a] = up]
  /\ UNCHANGED <<up, cut, faults>>

Next ==
  \/ \E o \in Organs : Crash(o)
  \/ \E o \in Organs : Recover(o)
  \/ \E C \in Cuts : Split(C)
  \/ Heal
  \/ \E a \in Attestors, o \in Organs, alive \in Reports : Beat(a, o, alive)
  \/ \E a \in Attestors, o \in Organs, slot \in {"first", "second"} : PollView(a, o, slot)
  \/ \E a \in Attestors : Attest(a)
  \/ \E a \in Attestors : NewWindow(a)

Spec == Init /\ [][Next]_vars
----------------------------------------------------------------------------
ClaimsHealthy(a) == verdict[a] # NoVerdict /\ verdict[a].healthy

(* Every variable holds a value of its type; a list never holds more than  *)
(* BeatsPerWindow heartbeats of one organ.                                 *)
TypeOK ==
  /\ up \subseteq Organs
  /\ cut \subseteq Organs
  /\ faults \in 0..MaxFaults
  /\ inbox \in [Attestors -> SUBSET Heartbeats]
  /\ polled \in [Attestors -> [first  : {NotSupplied} \cup Views,
                               second : {NotSupplied} \cup Views]]
  /\ verdict \in [Attestors -> {NoVerdict} \cup Verdicts]
  /\ split \in [Attestors -> BOOLEAN]
  /\ seen \in [Attestors -> SUBSET Organs]

(* A standing claim of health rests on 2f+1 different organs heard alive   *)
(* in the window (quorum.py lines 4-5: "a quorum of >= 2f+1 organs are     *)
(* observed live").  The code keeps this only if its caller enters every   *)
(* organ once: _count_live adds one per list entry.                        *)
HealthyNeedsDistinctQuorum ==
  \A a \in Attestors :
    ClaimsHealthy(a) => Cardinality(LiveOrgans(a)) >= QuorumSize(F)

(* As long as no more than F organs lie, at least F+1 honest organs really *)
(* ran during the window of a standing claim of health: the claim survives *)
(* heartbeats that went stale, crashes and Byzantine reports.              *)
HealthyMeansHonestMajorityRan ==
  Cardinality(Byzantine) <= F =>
    \A a \in Attestors :
      ClaimsHealthy(a) => Cardinality(seen[a] \ Byzantine) >= F + 1

(* Two attestors on the two sides of a split, in windows opened under that *)
(* split, never both claim health, whatever up to F Byzantine organs tell  *)
(* either side (docs/FLP_CAP_CAVEAT.md lines 22-23).                       *)
NoSplitBrain ==
  Cardinality(Byzantine) <= F =>
    \A a, b \in Attestors :
      split[a] /\ split[b] /\ ~SameSide(a, b)
        => ~(ClaimsHealthy(a) /\ ClaimsHealthy(b))

(* The side of a split that up to F liars and its own organs together keep *)
(* below 2f+1 never claims health in a window opened under the split,      *)
(* however organs crash, recover and report there.                         *)
MinoritySideRefuses ==
  \A a \in Attestors :
    split[a] /\ Cardinality({o \in Organs : Reaches(o, a)}) < QuorumSize(F)
      => ~ClaimsHealthy(a)

Disagree(a) ==
  /\ polled[a].first # NotSupplied
  /\ polled[a].second # NotSupplied
  /\ polled[a].first # polled[a].second

(* Once an attestor holds two views that differ and has not claimed health *)
(* it cannot come to claim it in that window, however many heartbeats keep *)
(* arriving and however often it attests (the CP choice, quorum.py lines   *)
(* 20-22: "Under partition we choose CP").                                 *)
RefusalSticks ==
  [][\A a \in Attestors :
       Disagree(a) /\ ~ClaimsHealthy(a) => ~ClaimsHealthy(a)']_vars
=============================================================================
