----------------------------- MODULE MeshParts -----------------------------
(***************************************************************************)
(* The parts of the mesh that share no state with any other, side by side: *)
(* `part` is the one that moves, the others stay as they were built.  The  *)
(* reachable states are the sum of the parts', not a product.  The DSSE    *)
(* envelopes and the topology check are extended, the others instances.    *)
(***************************************************************************)
EXTENDS DsseReceipts, A15Complex

CONSTANTS
  Latencies, MaxCount, Scale,                                   \* WelfordStats
  Processes, HmacKeys, Calls, MaxReceipts, MaxEdits,            \* FormulaReceipts
  Consumers, MaxRotations, MaxSigned, MaxChanges,               \* GovernanceReceipts
  PackLists,                                                    \* PackValidator
  MaxRefused                                                    \* MeshDeploy

VARIABLES
  part,
  count, mean, m2, anomalies, observed,                         \* WelfordStats
  hmac_env, hmac_key, receipts, envelopes, emitted, edits,      \* FormulaReceipts
  secrets, keys, verifier, pqc_only, counter, archive, read,    \* GovernanceReceipts
  packs, at, errors, exit,                                      \* PackValidator
  present, commands, line, object, ready, refused, missed       \* MeshDeploy

Stats   == INSTANCE WelfordStats
Formula == INSTANCE FormulaReceipts
Pepr    == INSTANCE GovernanceReceipts
Packs   == INSTANCE PackValidator
Cluster == INSTANCE MeshDeploy

ASSUME PartsAssumption ==
  ComplexAssumption /\ Stats!StatsAssumption /\ Packs!ListsAssumption
----------------------------------------------------------------------------
stats_vars   == <<count, mean, m2, anomalies, observed>>
dsse_vars    == vars
formula_vars == <<hmac_env, hmac_key, receipts, envelopes, emitted, edits>>
pepr_vars    == <<secrets, keys, verifier, pqc_only, counter, archive, read>>
packs_vars   == <<packs, at, errors, exit>>
cluster_vars == <<present, commands, line, object, ready, refused, missed>>

Names == {"complex", "stats", "dsse", "formula", "pepr", "packs", "cluster"}

\* A part that does not move stays in one of its initial states.
PartsInit ==
  /\ part \in Names
  /\ ComplexInit /\ Stats!Init /\ Cluster!Init
  /\ Init /\ (part # "dsse" => pem = "absent")
  /\ Formula!Init /\ (part # "formula" => hmac_env = CHOOSE key \in HmacKeys : TRUE)
  /\ Pepr!Init /\ (part # "pepr" => \A p \in DOMAIN keys : keys[p] = secrets)
  /\ IF part = "packs" THEN TRUE ELSE packs = CHOOSE list \in PackLists : TRUE
  /\ Packs!Init

MoveComplex ==
  /\ part = "complex" /\ ComplexNext
  /\ UNCHANGED <<part, stats_vars, dsse_vars, formula_vars, pepr_vars, packs_vars, cluster_vars>>

MoveStats ==
  /\ part = "stats" /\ Stats!Next
  /\ UNCHANGED <<part, complex_vars, dsse_vars, formula_vars, pepr_vars, packs_vars, cluster_vars>>

MoveDsse ==
  /\ part = "dsse" /\ Next
  /\ UNCHANGED <<part, complex_vars, stats_vars, formula_vars, pepr_vars, packs_vars, cluster_vars>>

MoveFormula ==
  /\ part = "formula" /\ Formula!Next
  /\ UNCHANGED <<part, complex_vars, stats_vars, dsse_vars, pepr_vars, packs_vars, cluster_vars>>

MovePepr ==
  /\ part = "pepr" /\ Pepr!Next
  /\ UNCHANGED <<part, complex_vars, stats_vars, dsse_vars, formula_vars, packs_vars, cluster_vars>>

MovePacks ==
  /\ part = "packs" /\ Packs!Next
  /\ UNCHANGED <<part, complex_vars, stats_vars, dsse_vars, formula_vars, pepr_vars, cluster_vars>>

MoveCluster ==
  /\ part = "cluster" /\ Cluster!Next
  /\ UNCHANGED <<part, complex_vars, stats_vars, dsse_vars, formula_vars, pepr_vars, packs_vars>>

PartsNext ==
  \/ MoveComplex \/ MoveStats \/ MoveDsse \/ MoveFormula
  \/ MovePepr \/ MovePacks \/ MoveCluster

parts_vars == <<part, complex_vars, stats_vars, dsse_vars, formula_vars, pepr_vars, packs_vars,
                cluster_vars>>

PartsSpec == PartsInit /\ [][PartsNext]_parts_vars
----------------------------------------------------------------------------
(* The running statistics are those of the whole stream, and the gate flags*)
(* by the latencies before (StreamingStats.observe).                       *)
StatsAreThoseOfTheStream == Stats!StatsAreThoseOfTheStream

(* Accepted outputs are those the formula gives for the hashed inputs      *)
(* (emit_formula_receipt, verify).                                         *)
AcceptedOutputsAreComputed == Formula!AcceptedOutputsAreComputed

(* A genuine envelope is accepted all through the roll-out                 *)
(* (verifyReceiptLegacy, verifyReceiptDualSign).                           *)
GenuineIsAccepted == Pepr!GenuineIsAccepted

(* Nothing but signed receipts is valid for either verifier, and they agree*)
(* on one HMAC entry (verifyReceiptLegacy, verifyReceiptDualSign).         *)
VerifiersAgree == Pepr!VerifiersAgree

(* Exit code 0 means that every pack is disciplined (main).                *)
ExitZeroMeansDisciplined == Packs!ExitZeroMeansDisciplined

(* The default-deny holds from its first moment to its last                *)
(* (network-policies.yaml).                                                *)
DenyHoldsAgainstOutsiders == Cluster!DenyHoldsAgainstOutsiders

(* The identity layer is there whenever anything that needs it is, but for *)
(* what was refused (MESH_RUNBOOK.md).                                     *)
IdentityFirst == Cluster!IdentityFirst
=============================================================================
