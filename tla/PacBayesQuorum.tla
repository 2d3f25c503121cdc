--------------------------- MODULE PacBayesQuorum ---------------------------
(***************************************************************************)
(* The pure part of the merge gate: mesh/formulas/pac_bayes_quorum.py and  *)
(* the co-signature of mesh/formulas/bls_aggregate.py.                     *)
(*                                                                         *)
(* A verdicts dict is a function v from all organs to decisions, Absent    *)
(* for the keys the dict does not have.  Two decisions are the same when   *)
(* their json_key is, so a decision stands for its key.  The order of the  *)
(* dict only breaks ties between equally supported decisions: a tie is a   *)
(* choice here.  Probabilities are numbers of millionths, the precision    *)
(* the code rounds to; slack is the PAC-Bayes slack of an observation      *)
(* window, the square root the code computes.                              *)
(***************************************************************************)
EXTENDS Integers, FiniteSets

CONSTANT Absent

Micro == 1000000

Present(v) == {o \in DOMAIN v : v[o] # Absent}

Supporters(v, d) == {o \in DOMAIN v : v[o] = d}

\* The decisions sorted() may rank first.
TopDecisions(v) ==
  {d \in {v[o] : o \in Present(v)} :
     \A o \in Present(v) :
       Cardinality(Supporters(v, v[o])) <= Cardinality(Supporters(v, d))}

QuorumMet(v, d, f) ==
  /\ Cardinality(Present(v)) >= 3 * f + 1
  /\ Cardinality(Supporters(v, d)) >= 2 * f + 1

\* The organs flagged suspected_byzantine when d ranks first.
Minority(v, d) == Present(v) \ Supporters(v, d)

\* Mutation of EmpiricalRisk: the share of the majority.
RiskOfMajority(v, d) ==
  (Cardinality(Supporters(v, d)) * Micro) \div Cardinality(Present(v))

EmpiricalRisk(v, d) ==
  (Cardinality(Minority(v, d)) * Micro) \div Cardinality(Present(v))

\* 1 - min(1, risk + slack)
ConfidenceLowerBound(risk, slack) ==
  IF risk + slack >= Micro THEN 0 ELSE Micro - (risk + slack)

Confident(v, d, slack, floor) ==
  ConfidenceLowerBound(EmpiricalRisk(v, d), slack) >= floor

\* Mutations of AllowMerge: one of its two conditions left out.
AllowOnConfidence(v, d, f, slack, floor) == Confident(v, d, slack, floor)

AllowOnQuorum(v, d, f, slack, floor) == QuorumMet(v, d, f)

\* gate_merge's allow when d ranks first, and the reason it gives.
AllowMerge(v, d, f, slack, floor) ==
  QuorumMet(v, d, f) /\ Confident(v, d, slack, floor)

GateReason(v, d, f, slack, floor) ==
  CASE AllowMerge(v, d, f, slack, floor) -> "quorum+confidence OK"
    [] ~QuorumMet(v, d, f)               -> "no BFT quorum"
    [] OTHER                             -> "confidence below floor"

\* cosign_chain: without the library nothing is signed, with it every organ
\* named signs; three or more make an aggregate.
CosignChain(organs, available) ==
  [signed     |-> available,
   signers    |-> IF available THEN organs ELSE {},
   aggregated |-> available /\ Cardinality(organs) >= 3]

NoCosign == [signed |-> FALSE, signers |-> {}, aggregated |-> FALSE]
=============================================================================
