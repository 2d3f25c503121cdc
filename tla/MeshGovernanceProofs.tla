------------------------ MODULE MeshGovernanceProofs ------------------------
(***************************************************************************)
(* What the merge gate guarantees for every set of organs, liars and       *)
(* decisions, every confidence floor and every table of slacks.  That no   *)
(* two merges differ, and so that the cycle implements MergeOnce, needs    *)
(* n = 3f + 1 exactly: with five organs and f = 1 two quorums of three may *)
(* have nothing but the liar in common.  That the order of the verdicts    *)
(* never decides needs a floor and a slack that together exceed one half,  *)
(* which the default floor does with any slack at all.                     *)
(***************************************************************************)
EXTENDS MeshGovernance, FiniteSetTheorems, TLAPS

(* An honest organ's entry in a dict is its opinion.                       *)
VoteInv ==
  \A c \in Coordinators, o \in Honest : verdicts[c][o] \in {Absent, opinion[o]}

(* A merge was carried by a quorum S whose honest members are of the       *)
(* merged opinion, and S is what co-signed it.                             *)
Carried(r, S) ==
  /\ Cardinality(S) >= 2 * F + 1
  /\ \A o \in S \cap Honest : opinion[o] = r.decision
  /\ r.cosign.signed => r.cosign.signers = S

MergeInv == \A r \in merges : \E S \in SUBSET Organs : Carried(r, S)

MergeGateInv == TypeOK /\ VoteInv /\ MergeInv
-----------------------------------------------------------------------------
LEMMA TopIsDecision ==
  ASSUME NEW v \in [Organs -> {Absent} \cup Decisions], NEW d \in TopDecisions(v)
  PROVE  d \in Decisions
BY DEF TopDecisions, Present

LEMMA OutcomeType ==
  ASSUME NEW v \in [Organs -> {Absent} \cup Decisions], NEW d \in Decisions,
         NEW slack, bls \in BOOLEAN
  PROVE  /\ Outcome(v, d, slack) \in Results
         /\ Outcome(v, d, slack).value => Outcome(v, d, slack).decision = d
<1>1. Supporters(v, d) \in SUBSET Organs
  BY DEF Supporters
<1>2. CosignChain(Supporters(v, d), bls) \in Cosigns
  BY <1>1 DEF CosignChain, Cosigns
<1>3. NoCosign \in Cosigns
  BY DEF NoCosign, Cosigns
<1>4. AllowMerge(v, d, F, slack, ConfidenceFloor) \in BOOLEAN
  BY DEF AllowMerge, QuorumMet, Confident
<1>5. GateReason(v, d, F, slack, ConfidenceFloor) \in Reasons
  BY DEF GateReason, Reasons
<1>. QED
  BY <1>2, <1>3, <1>4, <1>5 DEF Outcome, Results

LEMMA NoResultType ==
  /\ NoResult \in Results
  /\ [NoResult EXCEPT !.reason = "IndexError"] \in Results
  /\ [NoResult EXCEPT !.reason = "ValueError"] \in Results
BY DEF NoResult, Results, Reasons, NoCosign, Cosigns

LEMMA TypeStep == TypeOK /\ [Next]_vars => TypeOK'
<1> SUFFICES ASSUME TypeOK, [Next]_vars PROVE TypeOK'
  OBVIOUS
<1> USE DEF TypeOK
<1>1. ASSUME NEW c \in Coordinators, NEW o \in Organs, Receive(c, o) PROVE TypeOK'
  BY <1>1 DEF Receive
<1>2. ASSUME NEW c \in Coordinators, NEW n \in Observations, Decide(c, n) PROVE TypeOK'
  <2>1. PICK d \in TopDecisions(verdicts[c]) :
          LET r == Outcome(verdicts[c], d, SlackOf[n])
          IN  /\ result' = [result EXCEPT ![c] = r]
              /\ merges' = IF r.value THEN merges \cup {r} ELSE merges
    BY <1>2, Zenon DEF Decide
  <2> DEFINE r == Outcome(verdicts[c], d, SlackOf[n])
  <2>2. d \in Decisions /\ r \in Results /\ (r.value => r.decision = d)
    BY <2>1, TopIsDecision, OutcomeType
  <2>3. /\ result' = [result EXCEPT ![c] = r]
        /\ merges' = IF r.value THEN merges \cup {r} ELSE merges
    BY <2>1
  <2> HIDE DEF r
  <2>4. result' \in [Coordinators -> Results]
    BY <2>2, <2>3
  <2>5. merges' \subseteq {s \in Results : s.value /\ s.decision \in Decisions}
    BY <2>2, <2>3
  <2>. QED
    BY <1>2, <2>4, <2>5 DEF Decide
<1>3. ASSUME NEW c \in Coordinators, NEW n \in Observations, DecideRaises(c, n)
      PROVE  TypeOK'
  <2> DEFINE error == IF Present(verdicts[c]) = {} THEN "IndexError" ELSE "ValueError"
  <2>1. [NoResult EXCEPT !.reason = error] \in Results
    BY NoResultType
  <2>2. result' = [result EXCEPT ![c] = [NoResult EXCEPT !.reason = error]]
    BY <1>3 DEF DecideRaises
  <2> HIDE DEF error
  <2>3. result' \in [Coordinators -> Results]
    BY <2>1, <2>2
  <2>. QED
    BY <1>3, <2>3 DEF DecideRaises
<1>4. ASSUME NEW c \in Coordinators, Restart(c) PROVE TypeOK'
  BY <1>4, NoResultType, GateAssumption DEF Restart
<1>5. CASE UNCHANGED vars
  BY <1>5 DEF vars
<1>. QED
  BY <1>1, <1>2, <1>3, <1>4, <1>5 DEF Next

LEMMA VoteStep == TypeOK /\ VoteInv /\ [Next]_vars => VoteInv'
BY DEF TypeOK, VoteInv, Next, Receive, Decide, DecideRaises, Restart, vars, Honest

LEMMA MergeStep == TypeOK /\ VoteInv /\ MergeInv /\ [Next]_vars => MergeInv'
<1> SUFFICES ASSUME TypeOK, VoteInv, MergeInv, [Next]_vars PROVE MergeInv'
  OBVIOUS
<1>1. ASSUME merges' = merges, opinion' = opinion PROVE MergeInv'
  BY <1>1 DEF MergeInv, Carried
<1>2. ASSUME NEW c \in Coordinators, NEW n \in Observations, Decide(c, n) PROVE MergeInv'
  <2>1. PICK d \in TopDecisions(verdicts[c]) :
          LET r == Outcome(verdicts[c], d, SlackOf[n])
          IN  /\ result' = [result EXCEPT ![c] = r]
              /\ merges' = IF r.value THEN merges \cup {r} ELSE merges
    BY <1>2, Zenon DEF Decide
  <2> DEFINE v == verdicts[c]
             r == Outcome(v, d, SlackOf[n])
             S == Supporters(v, d)
  <2>2. merges' = IF r.value THEN merges \cup {r} ELSE merges
    BY <2>1
  <2>3. opinion' = opinion
    BY <1>2 DEF Decide
  <2>4. v \in [Organs -> {Absent} \cup Decisions] /\ d \in Decisions
    BY <2>1, TopIsDecision DEF TypeOK
  <2>5. ASSUME r.value PROVE S \in SUBSET Organs /\ Carried(r, S)
    <3>1. AllowMerge(v, d, F, SlackOf[n], ConfidenceFloor)
      BY <2>5 DEF Outcome
    <3>2. Cardinality(S) >= 2 * F + 1
      BY <3>1 DEF AllowMerge, QuorumMet
    <3>3. r.decision = d /\ r.cosign = CosignChain(S, bls)
      BY <3>1 DEF Outcome
    <3>4. \A o \in S \cap Honest : opinion[o] = d
      BY <2>4, DecisionsAssumption DEF Supporters, VoteInv
    <3>5. r.cosign.signed => r.cosign.signers = S
      BY <3>3 DEF CosignChain
    <3>6. S \in SUBSET Organs
      BY <2>4 DEF Supporters
    <3> HIDE DEF S, r
    <3>. QED
      BY <3>2, <3>3, <3>4, <3>5, <3>6 DEF Carried
  <2> HIDE DEF r, S
  <2>6. \A s \in merges' : \E T \in SUBSET Organs : Carried(s, T)
    BY <2>2, <2>5 DEF MergeInv
  <2>. QED
    BY <2>3, <2>6 DEF MergeInv, Carried
<1>. QED
  BY <1>1, <1>2 DEF Next, Receive, DecideRaises, Restart, vars

LEMMA GateInit == Init => MergeGateInv
<1> SUFFICES ASSUME Init PROVE MergeGateInv
  OBVIOUS
<1>1. TypeOK
  BY NoResultType, GateAssumption DEF Init, TypeOK
<1>2. VoteInv /\ MergeInv
  BY DEF Init, VoteInv, MergeInv, Honest
<1>. QED
  BY <1>1, <1>2 DEF MergeGateInv

LEMMA GateInvariant == Spec => []MergeGateInv
<1>1. MergeGateInv /\ [Next]_vars => MergeGateInv'
  BY TypeStep, VoteStep, MergeStep DEF MergeGateInv
<1>. QED
  BY <1>1, GateInit, PTL DEF Spec

(* Type correctness of the decision cycle.                                 *)
THEOREM TypeCorrect == Spec => []TypeOK
<1>1. MergeGateInv => TypeOK
  BY DEF MergeGateInv
<1>. QED
  BY <1>1, GateInvariant, PTL
-----------------------------------------------------------------------------
(* A quorum less F liars still counts F+1.                                 *)
LEMMA HonestPart ==
  ASSUME AtMostFLie, NEW S \in SUBSET Organs, Cardinality(S) >= 2 * F + 1
  PROVE  /\ IsFiniteSet(S \cap Honest)
         /\ Cardinality(S \cap Honest) >= F + 1
<1>1. IsFiniteSet(S) /\ IsFiniteSet(Byzantine)
  BY OrgansAssumption, FS_Subset
<1>2. S \cap Honest = S \ Byzantine
  BY DEF Honest
<1>3. /\ IsFiniteSet(S \ Byzantine)
      /\ Cardinality(S \ Byzantine) = Cardinality(S) - Cardinality(S \cap Byzantine)
  BY <1>1, FS_Difference
<1>4. /\ IsFiniteSet(S \cap Byzantine)
      /\ Cardinality(S \cap Byzantine) <= Cardinality(Byzantine)
  BY <1>1, FS_Intersection, FS_Subset
<1>5. /\ Cardinality(S) \in Nat /\ Cardinality(Byzantine) \in Nat
      /\ Cardinality(S \cap Byzantine) \in Nat
  BY <1>1, <1>4, FS_CardinalityType
<1>. QED
  BY <1>2, <1>3, <1>4, <1>5, FaultsAssumption DEF AtMostFLie

(* With n = 3f + 1 two quorums have an honest organ in common.             *)
LEMMA QuorumsMeet ==
  ASSUME AtMostFLie, Cardinality(Organs) = 3 * F + 1,
         NEW S \in SUBSET Organs, NEW T \in SUBSET Organs,
         Cardinality(S) >= 2 * F + 1, Cardinality(T) >= 2 * F + 1
  PROVE  \E o \in Honest : o \in S /\ o \in T
<1> DEFINE HS == S \cap Honest
           HT == T \cap Honest
<1>1. /\ IsFiniteSet(S) /\ IsFiniteSet(T) /\ IsFiniteSet(S \cup T)
      /\ IsFiniteSet(S \cap T) /\ IsFiniteSet(Byzantine)
  BY OrgansAssumption, FS_Subset, FS_Union, FS_Intersection
<1>2. /\ Cardinality(S \cup T) = Cardinality(S) + Cardinality(T) - Cardinality(S \cap T)
      /\ Cardinality(S \cup T) <= 3 * F + 1
  BY <1>1, OrgansAssumption, FS_Union, FS_Subset
<1>3. /\ Cardinality(S) \in Nat /\ Cardinality(T) \in Nat /\ Cardinality(S \cap T) \in Nat
      /\ Cardinality(S \cup T) \in Nat /\ Cardinality(Byzantine) \in Nat
  BY <1>1, FS_CardinalityType
<1>4. Cardinality(S \cap T) > Cardinality(Byzantine)
  BY <1>2, <1>3, FaultsAssumption DEF AtMostFLie
<1>5. ~(S \cap T \in SUBSET Byzantine)
  BY <1>1, <1>3, <1>4, FS_Subset
<1>. QED
  BY <1>5 DEF Honest

LEMMA CarriedByHonest ==
  ASSUME MergeGateInv, AtMostFLie, NEW r \in merges
  PROVE  Cardinality(Backers(r.decision)) >= F + 1
<1>1. PICK S \in SUBSET Organs : Carried(r, S)
  BY DEF MergeGateInv, MergeInv
<1> DEFINE B == Backers(r.decision)
<1>2. IsFiniteSet(S \cap Honest) /\ Cardinality(S \cap Honest) >= F + 1
  BY <1>1, HonestPart DEF Carried
<1>3. S \cap Honest \in SUBSET B
  BY <1>1 DEF Carried, Backers
<1>4. B \in SUBSET Organs
  BY DEF Honest, Backers
<1>5. IsFiniteSet(B)
  BY <1>4, OrgansAssumption, FS_Subset
<1> HIDE DEF B
<1>6. Cardinality(S \cap Honest) <= Cardinality(B)
  BY <1>3, <1>5, FS_Subset
<1>7. Cardinality(S \cap Honest) \in Nat /\ Cardinality(B) \in Nat
  BY <1>2, <1>5, FS_CardinalityType
<1>8. Cardinality(B) >= F + 1
  BY <1>2, <1>6, <1>7, FaultsAssumption
<1>. QED
  BY <1>8 DEF B

LEMMA MergesCarried == MergeGateInv => MergedByHonest
BY CarriedByHonest DEF MergedByHonest

(* Every merged decision is the opinion of F+1 honest organs.              *)
THEOREM HonestCarry == Spec => []MergedByHonest
BY MergesCarried, GateInvariant, PTL

(* A co-signature is by a quorum that reported the merged decision.        *)
THEOREM CosignersAgree == Spec => []CosignersVoted
<1>1. MergeGateInv => CosignersVoted
  BY DEF MergeGateInv, MergeInv, Carried, CosignersVoted
<1>. QED
  BY <1>1, GateInvariant, PTL

LEMMA MergesCoincide ==
  ASSUME MergeGateInv, Cardinality(Organs) = 3 * F + 1
  PROVE  MergesAgree
<1> SUFFICES ASSUME AtMostFLie, NEW r \in merges, NEW s \in merges
             PROVE  r.decision = s.decision
  BY DEF MergesAgree
<1>1. PICK S \in SUBSET Organs : Carried(r, S)
  BY DEF MergeGateInv, MergeInv
<1>2. PICK T \in SUBSET Organs : Carried(s, T)
  BY DEF MergeGateInv, MergeInv
<1>3. PICK o \in Honest : o \in S /\ o \in T
  BY <1>1, <1>2, QuorumsMeet DEF Carried
<1>. QED
  BY <1>1, <1>2, <1>3 DEF Carried

(* With n = 3f + 1, no two merges of a cycle differ.                       *)
THEOREM NoConflictingMerges ==
  ASSUME Cardinality(Organs) = 3 * F + 1
  PROVE  Spec => []MergesAgree
<1>1. MergeGateInv => MergesAgree
  BY MergesCoincide
<1>. QED
  BY <1>1, GateInvariant, PTL

(* With n = 3f + 1 and no more than F liars, the cycle implements the      *)
(* specification of a single merge.                                        *)
THEOREM Implementation ==
  ASSUME Cardinality(Organs) = 3 * F + 1, AtMostFLie
  PROVE  Spec => ImplementsMergeOnce
<1>1. Init => Once!Init
  BY DEF Init, Once!Init, MergedDecision
<1>2. MergeGateInv /\ MergeGateInv' /\ [Next]_vars
        => [Once!Next]_<<CarriedDecisions, MergedDecision>>
  <2> SUFFICES ASSUME MergeGateInv, MergeGateInv', [Next]_vars
               PROVE  [Once!Next]_<<CarriedDecisions, MergedDecision>>
    OBVIOUS
  <2>1. ASSUME merges' = merges, opinion' = opinion
        PROVE  UNCHANGED <<CarriedDecisions, MergedDecision>>
    BY <2>1 DEF MergedDecision, CarriedDecisions, Backers
  <2>2. ASSUME NEW c \in Coordinators, NEW n \in Observations, Decide(c, n)
        PROVE  [Once!Next]_<<CarriedDecisions, MergedDecision>>
    <3>1. PICK d \in TopDecisions(verdicts[c]) :
            LET r == Outcome(verdicts[c], d, SlackOf[n])
            IN  /\ result' = [result EXCEPT ![c] = r]
                /\ merges' = IF r.value THEN merges \cup {r} ELSE merges
      BY <2>2, Zenon DEF Decide
    <3> DEFINE r == Outcome(verdicts[c], d, SlackOf[n])
    <3>2. merges' = merges \/ merges' = merges \cup {r}
      BY <3>1
    <3>3. opinion' = opinion
      BY <2>2 DEF Decide
    <3> HIDE DEF r
    <3>4. CASE merges' = merges
      BY <2>1, <3>3, <3>4
    <3>5. CASE merges' = merges \cup {r} /\ merges # {}
      <4>1. /\ (CHOOSE s \in merges : TRUE) \in merges
            /\ (CHOOSE s \in merges' : TRUE) \in merges'
        BY <3>5
      <4>2. MergesAgree'
        BY MergesCoincide, PTL
      <4>3. (CHOOSE s \in merges : TRUE).decision = (CHOOSE s \in merges' : TRUE).decision
        BY <3>5, <4>1, <4>2 DEF MergesAgree, AtMostFLie
      <4>4. MergedDecision' = MergedDecision
        BY <3>5, <4>3 DEF MergedDecision
      <4>5. CarriedDecisions' = CarriedDecisions
        BY <3>3 DEF CarriedDecisions, Backers
      <4>. QED
        BY <4>4, <4>5
    <3>6. CASE merges' = merges \cup {r} /\ merges = {}
      <4>1. (CHOOSE s \in merges' : TRUE) = r
        BY <3>6
      <4>2. MergedDecision = NoDecision /\ MergedDecision' = r.decision
        BY <3>6, <4>1 DEF MergedDecision
      <4>3. r \in merges' /\ r.decision \in Decisions
        BY <3>6 DEF MergeGateInv, TypeOK
      <4>4. MergedByHonest'
        BY MergesCarried, PTL
      <4>5. CarriedDecisions' = CarriedDecisions
        BY <3>3 DEF CarriedDecisions, Backers
      <4>6. r.decision \in CarriedDecisions'
        BY <4>3, <4>4 DEF MergedByHonest, AtMostFLie, CarriedDecisions
      <4>7. Once!Decide(r.decision)
        BY <4>2, <4>5, <4>6 DEF Once!Decide
      <4>. QED
        BY <4>3, <4>7 DEF Once!Next
    <3>. QED
      BY <3>2, <3>4, <3>5, <3>6
  <2>. QED
    BY <2>1, <2>2 DEF Next, Receive, DecideRaises, Restart, vars
<1>. QED
  BY <1>1, <1>2, GateInvariant, PTL DEF Spec, ImplementsMergeOnce, Once!Spec
-----------------------------------------------------------------------------
(* A minority that is no smaller than the majority is a risk of one half.  *)
LEMMA HalfTheRisk ==
  ASSUME NEW m \in Nat, NEW n \in Nat, n > 0, 2 * m >= n
  PROVE  (m * Micro) \div n \in Int /\ 2 * ((m * Micro) \div n) >= Micro
<1> DEFINE q == (m * 1000000) \div n
<1>1. q \in Int /\ m * 1000000 < n * (q + 1)
  BY SMT
<1> HIDE DEF q
<1>2. q >= 500000
  <2> SUFFICES ASSUME q <= 499999 PROVE FALSE
    BY <1>1
  <2>1. n * (q + 1) <= n * 500000
    BY <1>1
  <2> QED
    BY <1>1, <2>1
<1> QED
  BY <1>1, <1>2 DEF q, Micro

(* Of two decisions that rank alike each one's minority holds the other's  *)
(* supporters, and so half of the verdicts at least.                       *)
LEMMA TiedMinority ==
  ASSUME NEW v \in [Organs -> {Absent} \cup Decisions],
         NEW d \in TopDecisions(v), NEW e \in TopDecisions(v), d # e
  PROVE  /\ Cardinality(Present(v)) \in Nat /\ Cardinality(Present(v)) > 0
         /\ Cardinality(Minority(v, d)) \in Nat
         /\ 2 * Cardinality(Minority(v, d)) >= Cardinality(Present(v))
<1> DEFINE P == Present(v)
           M == Minority(v, d)
           D == Supporters(v, d)
           E == Supporters(v, e)
<1>1. PICK o \in P : v[o] = d
  BY DEF TopDecisions
<1>2. PICK u \in P : v[u] = e
  BY DEF TopDecisions
<1>3. Cardinality(D) <= Cardinality(E) /\ Cardinality(E) <= Cardinality(D)
  <2>1. Cardinality(Supporters(v, v[o])) <= Cardinality(Supporters(v, e))
    BY DEF TopDecisions
  <2>2. Cardinality(Supporters(v, v[u])) <= Cardinality(Supporters(v, d))
    BY DEF TopDecisions
  <2> QED
    BY <1>1, <1>2, <2>1, <2>2
<1>4. P \in SUBSET Organs /\ D \in SUBSET P /\ E \in SUBSET M /\ M \in SUBSET P /\ o \in D
  BY <1>1, <1>2 DEF Present, Supporters, Minority
<1>5. M = P \ D
  BY DEF Minority
<1> HIDE DEF P, M, D, E
<1>6. IsFiniteSet(P)
  BY <1>4, OrgansAssumption, FS_Subset
<1>7. /\ IsFiniteSet(D) /\ IsFiniteSet(M) /\ IsFiniteSet(E)
      /\ Cardinality(E) <= Cardinality(M)
  <2>1. IsFiniteSet(D) /\ IsFiniteSet(M)
    BY <1>4, <1>6, FS_Subset
  <2> QED
    BY <1>4, <2>1, FS_Subset
<1>8. P \cap D = D
  BY <1>4
<1>9. Cardinality(M) = Cardinality(P) - Cardinality(D)
  <2>1. Cardinality(P \ D) = Cardinality(P) - Cardinality(P \cap D)
    BY <1>6, FS_Difference
  <2> QED
    BY <1>5, <1>8, <2>1
<1>10. /\ Cardinality(P) \in Nat /\ Cardinality(M) \in Nat
       /\ Cardinality(D) \in Nat /\ Cardinality(E) \in Nat
  BY <1>6, <1>7, FS_CardinalityType
<1>11. Cardinality(D) # 0
  BY <1>4, <1>7, FS_EmptySet
<1>12. /\ Cardinality(P) > 0
       /\ 2 * Cardinality(M) >= Cardinality(P)
  BY <1>3, <1>7, <1>9, <1>10, <1>11
<1> QED
  BY <1>10, <1>12 DEF P, M

(* OrderNeverDecides: decisions that tie are too close to half of the      *)
(* verdicts each to pass the confidence floor.                             *)
THEOREM TiesAreRefused ==
  ASSUME ConfidenceFloor > 0,
         \A n \in Observations : n > 0 => 2 * (ConfidenceFloor + SlackOf[n]) > Micro
  PROVE  Spec => []OrderNeverDecides
<1>1. ASSUME TypeOK, NEW c \in Coordinators, NEW n \in Observations, n > 0,
             NEW d \in TopDecisions(verdicts[c]), NEW e \in TopDecisions(verdicts[c]), d # e
      PROVE  ~AllowMerge(verdicts[c], d, F, SlackOf[n], ConfidenceFloor)
  <2> DEFINE v    == verdicts[c]
             risk == EmpiricalRisk(v, d)
  <2>1. v \in [Organs -> {Absent} \cup Decisions]
    BY <1>1 DEF TypeOK
  <2>2. /\ Cardinality(Present(v)) \in Nat /\ Cardinality(Present(v)) > 0
        /\ Cardinality(Minority(v, d)) \in Nat
        /\ 2 * Cardinality(Minority(v, d)) >= Cardinality(Present(v))
    BY <1>1, <2>1, TiedMinority
  <2>3. risk \in Int /\ 2 * risk >= Micro
    BY <2>2, HalfTheRisk DEF EmpiricalRisk
  <2>4. SlackOf[n] \in Nat /\ ConfidenceFloor \in Nat
    BY GateAssumption
  <2>5. ConfidenceFloor > 0 /\ 2 * (ConfidenceFloor + SlackOf[n]) > Micro
    BY <1>1
  <2> HIDE DEF risk
  <2>6. ConfidenceLowerBound(risk, SlackOf[n]) < ConfidenceFloor
    BY <2>3, <2>4, <2>5 DEF ConfidenceLowerBound, Micro
  <2>7. ConfidenceLowerBound(risk, SlackOf[n]) \in Int
    BY <2>3, <2>4 DEF ConfidenceLowerBound, Micro
  <2> QED
    BY <2>4, <2>6, <2>7 DEF AllowMerge, Confident, risk
<1>2. ASSUME TypeOK PROVE OrderNeverDecides
  <2> SUFFICES ASSUME NEW c \in Coordinators, NEW n \in Observations, n > 0
               PROVE  Cardinality({d \in TopDecisions(verdicts[c]) :
                        AllowMerge(verdicts[c], d, F, SlackOf[n], ConfidenceFloor)}) <= 1
    BY DEF OrderNeverDecides
  <2> DEFINE Passes == {d \in TopDecisions(verdicts[c]) :
                          AllowMerge(verdicts[c], d, F, SlackOf[n], ConfidenceFloor)}
  <2>1. \A d, e \in Passes : d = e
    BY <1>1, <1>2
  <2> HIDE DEF Passes
  <2>2. CASE Passes = {}
    BY <2>2, FS_EmptySet DEF Passes
  <2>3. CASE Passes # {}
    <3>1. PICK d \in Passes : Passes = {d}
      BY <2>1, <2>3
    <3>2. Cardinality(Passes) = 1
      BY <3>1, FS_Singleton
    <3> QED
      BY <3>2 DEF Passes
  <2> QED
    BY <2>2, <2>3
<1> QED
  BY <1>2, TypeCorrect, PTL
=============================================================================
