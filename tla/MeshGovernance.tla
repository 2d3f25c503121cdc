--------------------------- MODULE MeshGovernance ---------------------------
(***************************************************************************)
(* A cross-organ decision cycle: coordinators (MeshGovernance objects of   *)
(* mesh/sdk/mesh.py) collect the organs' verdicts one at a time and run    *)
(* decide_and_cosign on the verdicts they hold whenever their caller asks, *)
(* so also on a partial set, and more than once.                           *)
(*                                                                         *)
(* An honest organ has one opinion in a cycle and reports it to everybody; *)
(* a Byzantine organ reports anything, something else to each coordinator, *)
(* and may change its report.  A verdict may never arrive.  A coordinator  *)
(* holds its verdicts in memory: a restart loses them, and what it merged  *)
(* before has left the process.                                            *)
(***************************************************************************)
EXTENDS PacBayesQuorum

CONSTANTS
  Organs, Byzantine, Decisions, Coordinators,
  F,                 \* the faults MeshGovernance is built to tolerate
  ConfidenceFloor,   \* its confidence_floor, in millionths
  Observations,      \* the values of n_obs callers use
  SlackOf,           \* the PAC-Bayes slack of each positive n_obs
  MaxRestarts,       \* bound: coordinator restarts of a behaviour
  NoDecision

ASSUME OrgansAssumption    == IsFiniteSet(Organs) /\ Byzantine \subseteq Organs
ASSUME FaultsAssumption    == F \in Nat
ASSUME DecisionsAssumption == Absent \notin Decisions /\ NoDecision \notin Decisions
ASSUME GateAssumption      == /\ ConfidenceFloor \in Nat
                              /\ Observations \subseteq Int
                              /\ SlackOf \in [Observations -> Nat]
                              /\ MaxRestarts \in Nat

Honest == Organs \ Byzantine

Reasons == {"quorum+confidence OK", "no BFT quorum", "confidence below floor",
            "IndexError", "ValueError"}
Cosigns == [signed : BOOLEAN, signers : SUBSET Organs, aggregated : BOOLEAN]
Results == [value    : BOOLEAN,
            decision : Decisions \cup {NoDecision},
            reason   : Reasons,
            cosign   : Cosigns]

NoResult == [value |-> FALSE, decision |-> NoDecision, reason |-> "no BFT quorum",
             cosign |-> NoCosign]

VARIABLES
  opinion,   \* per honest organ: its verdict in this cycle
  bls,       \* whether py_ecc could be imported (AVAILABLE)
  verdicts,  \* per coordinator: the dict it holds
  result,    \* per coordinator: what decide_and_cosign last returned
  merges,    \* history: every result with value TRUE
  restarts   \* restarts so far, against MaxRestarts

vars == <<opinion, bls, verdicts, result, merges, restarts>>
----------------------------------------------------------------------------
Init ==
  /\ opinion \in [Honest -> Decisions]
  /\ bls \in BOOLEAN
  /\ verdicts = [c \in Coordinators |-> [o \in Organs |-> Absent]]
  /\ result = [c \in Coordinators |-> NoResult]
  /\ merges = {}
  /\ restarts = 0

\* A verdict reaches a coordinator; a second one overwrites the dict entry.
Receive(c, o) ==
  /\ \E d \in Decisions :
       /\ o \in Honest => d = opinion[o]
       /\ verdicts' = [verdicts EXCEPT ![c][o] = d]
  /\ UNCHANGED <<opinion, bls, result, merges, restarts>>

\* Mutation of Outcome: everyone who voted co-signs.
OutcomeAllSign(v, d, slack) ==
  LET allow == AllowMerge(v, d, F, slack, ConfidenceFloor)
  IN  [value    |-> allow,
       decision |-> IF allow THEN d ELSE NoDecision,
       reason   |-> GateReason(v, d, F, slack, ConfidenceFloor),
       cosign   |-> IF allow THEN CosignChain(Present(v), bls) ELSE NoCosign]

\* decide_and_cosign when d ranks first: gate, then co-sign if allowed.
Outcome(v, d, slack) ==
  LET allow == AllowMerge(v, d, F, slack, ConfidenceFloor)
  IN  [value    |-> allow,
       decision |-> IF allow THEN d ELSE NoDecision,
       reason   |-> GateReason(v, d, F, slack, ConfidenceFloor),
       cosign   |-> IF allow THEN CosignChain(Supporters(v, d), bls) ELSE NoCosign]

\* Mutation of Decide: refusals are published like merges.
DecidePublishesAll(c, n) ==
  /\ n > 0
  /\ \E d \in TopDecisions(verdicts[c]) :
       LET r == Outcome(verdicts[c], d, SlackOf[n])
       IN  result' = [result EXCEPT ![c] = r] /\ merges' = merges \cup {r}
  /\ UNCHANGED <<opinion, bls, verdicts, restarts>>

Decide(c, n) ==
  /\ n > 0
  /\ \E d \in TopDecisions(verdicts[c]) :
       LET r == Outcome(verdicts[c], d, SlackOf[n])
       IN  /\ result' = [result EXCEPT ![c] = r]
           /\ merges' = IF r.value THEN merges \cup {r} ELSE merges
  /\ UNCHANGED <<opinion, bls, verdicts, restarts>>

\* No verdicts: ranked[0] is out of range.  No observations: the PAC-Bayes
\* bound rejects the window.  Neither call returns a result.
DecideRaises(c, n) ==
  LET error == IF Present(verdicts[c]) = {} THEN "IndexError" ELSE "ValueError"
  IN  /\ Present(verdicts[c]) = {} \/ n <= 0
      /\ result' = [result EXCEPT ![c] = [NoResult EXCEPT !.reason = error]]
      /\ UNCHANGED <<opinion, bls, verdicts, merges, restarts>>

Restart(c) ==
  /\ restarts < MaxRestarts
  /\ restarts' = restarts + 1
  /\ verdicts' = [verdicts EXCEPT ![c] = [o \in Organs |-> Absent]]
  /\ result' = [result EXCEPT ![c] = NoResult]
  /\ UNCHANGED <<opinion, bls, merges>>

Next ==
  \/ \E c \in Coordinators, o \in Organs : Receive(c, o)
  \/ \E c \in Coordinators, n \in Observations : Decide(c, n)
  \/ \E c \in Coordinators, n \in Observations : DecideRaises(c, n)
  \/ \E c \in Coordinators : Restart(c)

Spec == Init /\ [][Next]_vars

\* Honest organs deliver, and callers keep asking every coordinator.
Fairness ==
  /\ \A c \in Coordinators, o \in Honest : WF_vars(Receive(c, o))
  /\ \A c \in Coordinators, n \in Observations : WF_vars(Decide(c, n))

FairSpec == Spec /\ Fairness
----------------------------------------------------------------------------
AtMostFLie == Cardinality(Byzantine) <= F

Backers(d) == {o \in Honest : opinion[o] = d}

(* Every variable holds a value of its type, and merges are results that   *)
(* allowed a merge.                                                        *)
TypeOK ==
  /\ opinion \in [Honest -> Decisions]
  /\ bls \in BOOLEAN
  /\ verdicts \in [Coordinators -> [Organs -> {Absent} \cup Decisions]]
  /\ result \in [Coordinators -> Results]
  /\ merges \subseteq {r \in Results : r.value /\ r.decision \in Decisions}
  /\ restarts \in 0..MaxRestarts

(* In one cycle no two merges, by one coordinator or several, before or    *)
(* after a restart, on partial or complete verdicts, differ in their       *)
(* decision (pac_bayes_quorum.py lines 9-10: "Is there a Byzantine-safe    *)
(* quorum? ... if no quorum exists we REFUSE").                            *)
MergesAgree ==
  AtMostFLie => \A r, s \in merges : r.decision = s.decision

(* A merged decision is the opinion of at least F+1 honest organs, so the  *)
(* liars alone, or with one honest organ less, can never carry one.        *)
MergedByHonest ==
  AtMostFLie =>
    \A r \in merges : Cardinality(Backers(r.decision)) >= F + 1

(* The organs in whose name a merge is co-signed are a quorum that reported*)
(* the merged decision: no honest organ's key signs what it opposed, even  *)
(* when it has since been outvoted or its verdict came late.               *)
CosignersVoted ==
  \A r \in merges :
    r.cosign.signed =>
      /\ Cardinality(r.cosign.signers) >= 2 * F + 1
      /\ \A o \in r.cosign.signers \cap Honest : opinion[o] = r.decision

(* The arrival order of verdicts never decides what is merged: of the      *)
(* decisions that could be ranked first on the verdicts held, at most one  *)
(* passes the gate.                                                        *)
OrderNeverDecides ==
  \A c \in Coordinators, n \in Observations :
    n > 0 =>
      Cardinality({d \in TopDecisions(verdicts[c]) :
        AllowMerge(verdicts[c], d, F, SlackOf[n], ConfidenceFloor)}) <= 1

MergedDecision ==
  IF merges = {} THEN NoDecision ELSE (CHOOSE r \in merges : TRUE).decision

\* The decisions more honest organs stand for than there can be liars.
CarriedDecisions == {d \in Decisions : Cardinality(Backers(d)) >= F + 1}

Once == INSTANCE MergeOnce WITH decided <- MergedDecision, carried <- CarriedDecisions

(* The cycle as a whole, with its partial and repeated evaluations,        *)
(* restarts and lies, implements one merge of a carried decision.          *)
ImplementsMergeOnce == Once!Spec

Unanimous == \E d \in Decisions : \A o \in Honest : opinion[o] = d

(* When the honest organs are of one mind their decision is merged in the  *)
(* end, whatever the others report, and even if they report nothing.       *)
UnanimityMerges == Unanimous ~> merges # {}
=============================================================================
