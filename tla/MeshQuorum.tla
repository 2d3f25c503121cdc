----------------------------- MODULE MeshQuorum -----------------------------
(***************************************************************************)
(* The pure part of src/mesh/quorum.py: the Byzantine thresholds, the      *)
(* partition guard and the decision MeshQuorum.healthy takes on one list   *)
(* of heartbeats and two optional membership views.                        *)
(*                                                                         *)
(* A heartbeat is the record [organ, alive, seq].  The code receives a     *)
(* list of dicts; seq tells apart two heartbeats of one organ in the same  *)
(* list, so that a list is a finite set here and its length a cardinality. *)
(***************************************************************************)
EXTENDS Integers, FiniteSets

CONSTANT NotSupplied      \* Python's None for a membership view

\* The largest f with n >= 3f + 1 (max_byzantine_faults).
MaxByzantineFaults(n) == IF n < 1 THEN 0 ELSE (n - 1) \div 3

\* Organs that outvote f Byzantine ones (quorum_size).
QuorumSize(f) == 2 * f + 1

\* The structural condition the constructor stores in bft_feasible.
BftFeasible(n, f) == n >= 3 * f + 1

\* The heartbeats _count_live adds up: one per list entry, not per organ.
LiveBeats(heartbeats) == {h \in heartbeats : h.alive = TRUE}

CountLive(heartbeats) == Cardinality(LiveBeats(heartbeats))

\* A partition is asserted only between two views that were both supplied.
PartitionGuard(viewA, viewB) ==
  /\ viewA # NotSupplied
  /\ viewB # NotSupplied
  /\ viewA # viewB

\* Mutations of Reason: a threshold of f + 1; one of 2f; the quorum tested
\* before the partition.
ReasonAtFPlusOne(n, f, live, partition) ==
  CASE ~BftFeasible(n, f)                              -> "infeasible"
    [] BftFeasible(n, f) /\ partition                  -> "partition"
    [] BftFeasible(n, f) /\ ~partition /\ live > f     -> "quorum met"
    [] OTHER                                           -> "quorum not met"

ReasonAtTwoF(n, f, live, partition) ==
  CASE ~BftFeasible(n, f)                              -> "infeasible"
    [] BftFeasible(n, f) /\ partition                  -> "partition"
    [] BftFeasible(n, f) /\ ~partition /\ live >= 2*f  -> "quorum met"
    [] OTHER                                           -> "quorum not met"

ReasonQuorumFirst(n, f, live, partition) ==
  CASE ~BftFeasible(n, f)                              -> "infeasible"
    [] BftFeasible(n, f) /\ live >= QuorumSize(f)      -> "quorum met"
    [] OTHER                                           -> "partition"

\* Which branch of healthy() decides, in the order the code tests them.
Reason(n, f, live, partition) ==
  CASE ~BftFeasible(n, f)                                        -> "infeasible"
    [] BftFeasible(n, f) /\ partition                            -> "partition"
    [] BftFeasible(n, f) /\ ~partition /\ live >= QuorumSize(f)  -> "quorum met"
    [] OTHER                                                     -> "quorum not met"

Reasons == {"infeasible", "partition", "quorum met", "quorum not met"}

\* Mutation of Healthy: the verdict records a view instead of the guard.
HealthyRecordsView(n, f, heartbeats, viewA, viewB) ==
  LET live   == CountLive(heartbeats)
      reason == Reason(n, f, live, PartitionGuard(viewA, viewB))
  IN  [healthy |-> reason = "quorum met", live |-> live, partition |-> viewA,
       reason |-> reason]

\* The verdict healthy() returns (its receipt repeats these fields).
Healthy(n, f, heartbeats, viewA, viewB) ==
  LET live      == CountLive(heartbeats)
      partition == PartitionGuard(viewA, viewB)
      reason    == Reason(n, f, live, partition)
  IN  [healthy   |-> reason = "quorum met",
       live      |-> live,
       partition |-> partition,
       reason    |-> reason]
=============================================================================
