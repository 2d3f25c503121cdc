-------------------------- MODULE MeshHealthProofs --------------------------
(***************************************************************************)
(* What MeshHealth guarantees for every membership, every choice of the    *)
(* Byzantine organs, every set of cuts and every bound.  The facts about   *)
(* quorums hold when an organ appears at most once in a list of heartbeats *)
(* (BeatsPerWindow = 1), which the code does not enforce; run              *)
(* health_duplicate_beats shows what happens otherwise.                    *)
(***************************************************************************)
EXTENDS MeshHealth, FiniteSetTheorems, TLAPS

(* The inductive strengthening of TypeOK: lists are finite, so that their  *)
(* lengths are numbers.                                                    *)
TypeInv == TypeOK /\ \A a \in Attestors : IsFiniteSet(inbox[a])

LEMMA LiveBeatsFinite ==
  ASSUME NEW H, IsFiniteSet(H)
  PROVE  IsFiniteSet(LiveBeats(H)) /\ CountLive(H) \in Nat
<1>1. LiveBeats(H) \in SUBSET H
  BY DEF LiveBeats
<1>2. IsFiniteSet(LiveBeats(H))
  BY <1>1, FS_Subset
<1>. QED
  BY <1>2, FS_CardinalityType DEF CountLive

LEMMA ReasonType ==
  ASSUME NEW n, NEW f, NEW live, NEW p \in BOOLEAN
  PROVE  Reason(n, f, live, p) \in Reasons
BY DEF Reason, Reasons

LEMMA HealthyType ==
  ASSUME NEW H, IsFiniteSet(H), NEW va, NEW vb
  PROVE  Healthy(N, F, H, va, vb) \in Verdicts
<1>1. CountLive(H) \in Nat
  BY LiveBeatsFinite
<1>2. PartitionGuard(va, vb) \in BOOLEAN
  BY DEF PartitionGuard
<1>3. Reason(N, F, CountLive(H), PartitionGuard(va, vb)) \in Reasons
  BY <1>2, ReasonType
<1>. QED
  BY <1>1, <1>2, <1>3 DEF Healthy, Verdicts

LEMMA BeatType ==
  ASSUME TypeInv, NEW a \in Attestors, NEW o \in Organs, NEW alive \in BOOLEAN,
         Cardinality(BeatsOf(a, o)) < BeatsPerWindow
  PROVE  [organ |-> o, alive |-> alive, seq |-> Cardinality(BeatsOf(a, o)) + 1]
           \in Heartbeats
<1>1. BeatsOf(a, o) \in SUBSET inbox[a]
  BY DEF BeatsOf
<1>2. Cardinality(BeatsOf(a, o)) \in Nat
  BY <1>1, FS_Subset, FS_CardinalityType DEF TypeInv
<1>3. Cardinality(BeatsOf(a, o)) + 1 \in 1..BeatsPerWindow
  BY <1>2, BoundsAssumption
<1>. QED
  BY <1>3 DEF Heartbeats

LEMMA TypeStep == TypeInv /\ [Next]_vars => TypeInv'
<1> SUFFICES ASSUME TypeInv, [Next]_vars PROVE TypeInv'
  OBVIOUS
<1> USE DEF TypeInv, TypeOK
<1>0. EmptyViews \in [first : {NotSupplied} \cup Views, second : {NotSupplied} \cup Views]
  BY DEF EmptyViews
<1>e. IsFiniteSet({})
  BY FS_EmptySet
<1>1. ASSUME NEW o \in Organs, Crash(o) PROVE TypeInv'
  <2>1. up' \subseteq Organs /\ cut' \subseteq Organs /\ faults' \in 0..MaxFaults
    BY <1>1, BoundsAssumption DEF Crash
  <2>2. inbox' \in [Attestors -> SUBSET Heartbeats]
    BY <1>1 DEF Crash
  <2>3. \A a \in Attestors : IsFiniteSet(inbox'[a])
    BY <1>1, <1>e DEF Crash
  <2>4. polled' \in [Attestors -> [first  : {NotSupplied} \cup Views,
                                   second : {NotSupplied} \cup Views]]
    BY <1>0, <1>1 DEF Crash
  <2>5. verdict' \in [Attestors -> {NoVerdict} \cup Verdicts]
    BY <1>1 DEF Crash
  <2>6. split' \in [Attestors -> BOOLEAN]
    BY <1>1 DEF Crash
  <2>7. seen' \in [Attestors -> SUBSET Organs]
    BY <1>1 DEF Crash
  <2>. QED
    BY <2>1, <2>2, <2>3, <2>4, <2>5, <2>6, <2>7
<1>2. ASSUME NEW o \in Organs, Recover(o) PROVE TypeInv'
  BY <1>2 DEF Recover
<1>3. ASSUME NEW C \in Cuts, Split(C) PROVE TypeInv'
  BY <1>3, CutsAssumption, BoundsAssumption DEF Split
<1>4. ASSUME Heal PROVE TypeInv'
  BY <1>4 DEF Heal
<1>5. ASSUME NEW a \in Attestors, NEW o \in Organs, NEW alive \in Reports, Beat(a, o, alive)
      PROVE  TypeInv'
  <2> DEFINE h == [organ |-> o, alive |-> alive, seq |-> Cardinality(BeatsOf(a, o)) + 1]
  <2>1. alive \in BOOLEAN
    BY BoundsAssumption
  <2>2. h \in Heartbeats
    BY <1>5, <2>1, BeatType DEF Beat
  <2>3. inbox' = [inbox EXCEPT ![a] = @ \cup {h}]
    BY <1>5 DEF Beat
  <2> HIDE DEF h
  <2>4. IsFiniteSet(inbox[a] \cup {h})
    BY FS_AddElement
  <2>5. inbox' \in [Attestors -> SUBSET Heartbeats]
    BY <2>2, <2>3
  <2>6. \A b \in Attestors : IsFiniteSet(inbox'[b])
    BY <2>3, <2>4
  <2>. QED
    BY <1>5, <2>5, <2>6 DEF Beat
<1>6. ASSUME NEW a \in Attestors, NEW o \in Organs, NEW slot \in {"first", "second"},
             PollView(a, o, slot)
      PROVE  TypeInv'
  <2>1. PICK view \in {ViewFrom(o)} \cup (IF o \in Byzantine THEN {Organs} ELSE {}) :
          polled' = [polled EXCEPT ![a][slot] = view]
    BY <1>6 DEF PollView
  <2>2. view \in Views
    BY <2>1 DEF ViewFrom, Views
  <2>3. polled' \in [Attestors -> [first  : {NotSupplied} \cup Views,
                                   second : {NotSupplied} \cup Views]]
    BY <2>1, <2>2
  <2>. QED
    BY <1>6, <2>3 DEF PollView
<1>7. ASSUME NEW a \in Attestors, Attest(a) PROVE TypeInv'
  BY <1>7, HealthyType DEF Attest
<1>8. ASSUME NEW a \in Attestors, NewWindow(a) PROVE TypeInv'
  BY <1>0, <1>8, <1>e DEF NewWindow
<1>9. CASE UNCHANGED vars
  BY <1>9 DEF vars
<1>. QED
  BY <1>1, <1>2, <1>3, <1>4, <1>5, <1>6, <1>7, <1>8, <1>9 DEF Next

LEMMA TypeInit == Init => TypeInv
<1> SUFFICES ASSUME Init PROVE TypeInv
  OBVIOUS
<1>1. IsFiniteSet({})
  BY FS_EmptySet
<1>2. EmptyViews \in [first : {NotSupplied} \cup Views, second : {NotSupplied} \cup Views]
  BY DEF EmptyViews
<1>. QED
  BY <1>1, <1>2, BoundsAssumption DEF Init, TypeInv, TypeOK

(* Type correctness of the attestors and their environment.                *)
THEOREM TypeCorrect == Spec => []TypeOK
<1>1. TypeInv => TypeOK
  BY DEF TypeInv
<1>. QED
  BY <1>1, TypeInit, TypeStep, PTL DEF Spec
-----------------------------------------------------------------------------
(***************************************************************************)
(* The safety of a claim.  The inductive invariant says what a claim and a *)
(* list are evidence of: a claim that stands was made on a quorum of list  *)
(* entries that are still there; an organ heard alive reached the attestor *)
(* under the present cut if the window was opened under it; and an honest  *)
(* organ heard alive ran during the window.                                *)
(***************************************************************************)
ClaimInv ==
  \A a \in Attestors : ClaimsHealthy(a) => CountLive(inbox[a]) >= QuorumSize(F)

SideInv ==
  \A a \in Attestors : split[a] => \A o \in LiveOrgans(a) : Reaches(o, a)

RanInv ==
  \A a \in Attestors : /\ up \subseteq seen[a]
                       /\ LiveOrgans(a) \ Byzantine \subseteq seen[a]

HealthInv == TypeInv /\ ClaimInv /\ SideInv /\ RanInv

(* A list to which a heartbeat is added counts at least as many live ones. *)
LEMMA CountLiveGrows ==
  ASSUME NEW H, IsFiniteSet(H), NEW h
  PROVE  CountLive(H \cup {h}) >= CountLive(H)
<1>1. IsFiniteSet(H \cup {h})
  BY FS_AddElement
<1>2. IsFiniteSet(LiveBeats(H \cup {h})) /\ CountLive(H) \in Nat
      /\ CountLive(H \cup {h}) \in Nat
  BY <1>1, LiveBeatsFinite
<1>3. LiveBeats(H) \in SUBSET LiveBeats(H \cup {h})
  BY DEF LiveBeats
<1>4. Cardinality(LiveBeats(H)) <= Cardinality(LiveBeats(H \cup {h}))
  BY <1>2, <1>3, FS_Subset
<1>. QED
  BY <1>2, <1>4 DEF CountLive

(* healthy() answers yes only when the entries counted reach the quorum.   *)
LEMMA HealthyCounts ==
  ASSUME NEW H, NEW va, NEW vb, Healthy(N, F, H, va, vb).healthy
  PROVE  CountLive(H) >= QuorumSize(F)
BY DEF Healthy, Reason

LEMMA ClaimStep ==
  TypeInv /\ ClaimInv /\ [Next]_vars => ClaimInv'
<1> SUFFICES ASSUME TypeInv, ClaimInv, [Next]_vars,
                    NEW b \in Attestors, ClaimsHealthy(b)'
             PROVE  CountLive(inbox'[b]) >= QuorumSize(F)
  BY DEF ClaimInv
<1> USE DEF TypeInv, TypeOK, ClaimInv
<1>1. ASSUME NEW o \in Organs, Crash(o) PROVE CountLive(inbox'[b]) >= QuorumSize(F)
  BY <1>1 DEF Crash, ClaimsHealthy
<1>2. ASSUME inbox' = inbox, verdict' = verdict
      PROVE  CountLive(inbox'[b]) >= QuorumSize(F)
  BY <1>2 DEF ClaimsHealthy
<1>3. ASSUME NEW a \in Attestors, NEW o \in Organs, NEW alive \in Reports, Beat(a, o, alive)
      PROVE  CountLive(inbox'[b]) >= QuorumSize(F)
  <2> DEFINE h == [organ |-> o, alive |-> alive, seq |-> Cardinality(BeatsOf(a, o)) + 1]
  <2>1. inbox' = [inbox EXCEPT ![a] = @ \cup {h}] /\ verdict' = verdict
    BY <1>3 DEF Beat
  <2> HIDE DEF h
  <2>2. CountLive(inbox[b]) >= QuorumSize(F)
    BY <2>1 DEF ClaimsHealthy
  <2>3. CountLive(inbox[b] \cup {h}) >= CountLive(inbox[b])
    BY CountLiveGrows
  <2>4. inbox'[b] = inbox[b] \/ inbox'[b] = inbox[b] \cup {h}
    BY <2>1
  <2>5. IsFiniteSet(inbox[b]) /\ IsFiniteSet(inbox[b] \cup {h})
    BY FS_AddElement
  <2>6. CountLive(inbox[b]) \in Nat /\ CountLive(inbox[b] \cup {h}) \in Nat
    BY <2>5, LiveBeatsFinite
  <2>7. QuorumSize(F) \in Nat
    BY FaultsAssumption DEF QuorumSize
  <2>. QED
    <3>1. CASE inbox'[b] = inbox[b]
      BY <2>2, <3>1
    <3>2. CASE inbox'[b] = inbox[b] \cup {h}
      <4>1. CountLive(inbox[b] \cup {h}) >= QuorumSize(F)
        BY <2>2, <2>3, <2>6, <2>7
      <4>. QED
        BY <3>2, <4>1
    <3>. QED
      BY <2>4, <3>1, <3>2
<1>4. ASSUME NEW a \in Attestors, Attest(a) PROVE CountLive(inbox'[b]) >= QuorumSize(F)
  <2>1. CASE a = b
    <3>1. verdict'[b] = Healthy(N, F, inbox[b], polled[b].first, polled[b].second)
          /\ inbox' = inbox
      BY <1>4, <2>1 DEF Attest
    <3>2. Healthy(N, F, inbox[b], polled[b].first, polled[b].second).healthy
      BY <3>1 DEF ClaimsHealthy
    <3>. QED
      BY <3>1, <3>2, HealthyCounts
  <2>2. CASE a # b
    BY <1>4, <2>2 DEF Attest, ClaimsHealthy
  <2>. QED
    BY <2>1, <2>2
<1>5. ASSUME NEW a \in Attestors, NewWindow(a) PROVE CountLive(inbox'[b]) >= QuorumSize(F)
  BY <1>5 DEF NewWindow, ClaimsHealthy
<1>. QED
  BY <1>1, <1>2, <1>3, <1>4, <1>5
  DEF Next, Recover, Split, Heal, PollView, vars

LEMMA EvidenceStep ==
  TypeInv /\ SideInv /\ RanInv /\ [Next]_vars => SideInv' /\ RanInv'
<1> SUFFICES ASSUME TypeInv, SideInv, RanInv, [Next]_vars
             PROVE  SideInv' /\ RanInv'
  OBVIOUS
<1> USE DEF TypeInv, TypeOK, SideInv, RanInv, LiveOrgans, LiveBeats
<1>1. ASSUME NEW o \in Organs, Crash(o) PROVE SideInv' /\ RanInv'
  BY <1>1 DEF Crash, Reaches, SameSide
<1>2. ASSUME NEW o \in Organs, Recover(o) PROVE SideInv' /\ RanInv'
  BY <1>2 DEF Recover, Reaches, SameSide
<1>3. ASSUME NEW C \in Cuts, Split(C) PROVE SideInv' /\ RanInv'
  BY <1>3 DEF Split
<1>4. ASSUME Heal PROVE SideInv' /\ RanInv'
  BY <1>4 DEF Heal
<1>5. ASSUME NEW a \in Attestors, NEW o \in Organs, NEW alive \in Reports, Beat(a, o, alive)
      PROVE  SideInv' /\ RanInv'
  <2> DEFINE h == [organ |-> o, alive |-> alive, seq |-> Cardinality(BeatsOf(a, o)) + 1]
  <2>1. /\ inbox' = [inbox EXCEPT ![a] = @ \cup {h}]
        /\ up' = up /\ cut' = cut /\ split' = split /\ seen' = seen
        /\ h.alive => (o \in up \/ o \in Byzantine) /\ Reaches(o, a)
    BY <1>5 DEF Beat
  <2>2. h.organ = o
    OBVIOUS
  <2> HIDE DEF h
  <2>3. \A b \in Attestors :
          LiveOrgans(b)' \subseteq LiveOrgans(b) \cup (IF b = a /\ h.alive THEN {o} ELSE {})
    BY <2>1, <2>2
  <2>4. \A b \in Attestors : \A p \in LiveOrgans(b)' :
          p \in LiveOrgans(b) \/ (b = a /\ p = o /\ h.alive)
    BY <2>3
  <2>5. SideInv'
    <3> SUFFICES ASSUME NEW b \in Attestors, split'[b], NEW p \in LiveOrgans(b)'
                 PROVE  Reaches(p, b)'
      OBVIOUS
    <3>1. Reaches(p, b)' <=> Reaches(p, b)
      BY <2>1 DEF Reaches, SameSide
    <3>. QED
      BY <2>1, <2>4, <3>1
  <2>6. RanInv'
    <3>1. \A b \in Attestors : up' \subseteq seen'[b]
      BY <2>1
    <3>2. ASSUME NEW b \in Attestors, NEW p \in LiveOrgans(b)', p \notin Byzantine
          PROVE  p \in seen'[b]
      BY <2>1, <2>4, <3>2
    <3>. QED
      BY <3>1, <3>2
  <2>. QED
    BY <2>5, <2>6
<1>6. ASSUME NEW a \in Attestors, NEW o \in Organs, NEW slot \in {"first", "second"},
             PollView(a, o, slot)
      PROVE  SideInv' /\ RanInv'
  BY <1>6 DEF PollView, Reaches, SameSide
<1>7. ASSUME NEW a \in Attestors, Attest(a) PROVE SideInv' /\ RanInv'
  BY <1>7 DEF Attest, Reaches, SameSide
<1>8. ASSUME NEW a \in Attestors, NewWindow(a) PROVE SideInv' /\ RanInv'
  BY <1>8 DEF NewWindow, Reaches, SameSide
<1>9. CASE UNCHANGED vars
  BY <1>9 DEF vars, Reaches, SameSide
<1> HIDE DEF TypeInv, TypeOK, SideInv, RanInv, LiveOrgans, LiveBeats
<1>. QED
  BY <1>1, <1>2, <1>3, <1>4, <1>5, <1>6, <1>7, <1>8, <1>9 DEF Next

LEMMA HealthInit == Init => HealthInv
<1> SUFFICES ASSUME Init PROVE HealthInv
  OBVIOUS
<1>1. TypeInv
  BY TypeInit
<1>2. ClaimInv /\ SideInv /\ RanInv
  BY DEF Init, ClaimInv, SideInv, RanInv, ClaimsHealthy, LiveOrgans, LiveBeats
<1>. QED
  BY <1>1, <1>2 DEF HealthInv

LEMMA HealthInvariant == Spec => []HealthInv
<1>1. HealthInv /\ [Next]_vars => HealthInv'
  BY TypeStep, ClaimStep, EvidenceStep DEF HealthInv
<1>. QED
  BY <1>1, HealthInit, PTL DEF Spec
-----------------------------------------------------------------------------
(* With one heartbeat an organ, the entries counted are organs.            *)
LEMMA EntriesAreOrgans ==
  ASSUME BeatsPerWindow = 1, TypeInv, NEW a \in Attestors
  PROVE  /\ IsFiniteSet(LiveOrgans(a))
         /\ LiveOrgans(a) \subseteq Organs
         /\ CountLive(inbox[a]) <= Cardinality(LiveOrgans(a))
<1>1. inbox[a] \in SUBSET Heartbeats /\ IsFiniteSet(inbox[a])
  BY DEF TypeInv, TypeOK
<1>2. LiveOrgans(a) \in SUBSET Organs
  BY <1>1 DEF LiveOrgans, LiveBeats, Heartbeats
<1>3. IsFiniteSet(LiveOrgans(a))
  BY <1>2, FS_Subset, OrgansAssumption
<1> DEFINE f == [h \in LiveBeats(inbox[a]) |-> h.organ]
<1>4. f \in [LiveBeats(inbox[a]) -> LiveOrgans(a)]
  BY DEF LiveOrgans
<1>5. ASSUME NEW g \in LiveBeats(inbox[a]), NEW h \in LiveBeats(inbox[a]), g.organ = h.organ
      PROVE  g = h
  <2>1. /\ g \in Heartbeats /\ g.alive = TRUE
        /\ h \in Heartbeats /\ h.alive = TRUE
    BY <1>1 DEF LiveBeats
  <2>2. g.seq = 1 /\ h.seq = 1
    BY <2>1 DEF Heartbeats
  <2>. QED
    BY <1>5, <2>1, <2>2 DEF Heartbeats
<1>6. f \in Injection(LiveBeats(inbox[a]), LiveOrgans(a))
  BY <1>4, <1>5 DEF Injection, IsInjective
<1>7. Cardinality(LiveBeats(inbox[a])) <= Cardinality(LiveOrgans(a))
  BY <1>3, <1>6, FS_Injection
<1>. QED
  BY <1>2, <1>3, <1>7 DEF CountLive

LEMMA ClaimRestsOnOrgans ==
  ASSUME BeatsPerWindow = 1, HealthInv, NEW a \in Attestors, ClaimsHealthy(a)
  PROVE  Cardinality(LiveOrgans(a)) >= QuorumSize(F)
<1>1. CountLive(inbox[a]) >= QuorumSize(F)
  BY DEF HealthInv, ClaimInv
<1>2. CountLive(inbox[a]) <= Cardinality(LiveOrgans(a)) /\ IsFiniteSet(LiveOrgans(a))
  BY EntriesAreOrgans DEF HealthInv
<1>3. CountLive(inbox[a]) \in Nat /\ Cardinality(LiveOrgans(a)) \in Nat
      /\ QuorumSize(F) \in Nat
  BY <1>2, LiveBeatsFinite, FS_CardinalityType, FaultsAssumption
  DEF QuorumSize, HealthInv, TypeInv
<1>. QED
  BY <1>1, <1>2, <1>3

(* Two sets of 2f+1 out of 3f+1 organs share an organ that is not one of   *)
(* any f.                                                                  *)
LEMMA QuorumsShareHonest ==
  ASSUME N = 3 * F + 1, Cardinality(Byzantine) <= F,
         NEW P \in SUBSET Organs, NEW Q \in SUBSET Organs,
         Cardinality(P) >= QuorumSize(F), Cardinality(Q) >= QuorumSize(F)
  PROVE  \E o \in P \cap Q : o \notin Byzantine
<1>1. IsFiniteSet(P) /\ IsFiniteSet(Q) /\ IsFiniteSet(Byzantine) /\ IsFiniteSet(P \cup Q)
      /\ IsFiniteSet(P \cap Q)
  BY OrgansAssumption, PlacesAssumption, FS_Subset, FS_Union, FS_Intersection
<1>2. /\ Cardinality(P \cup Q) = Cardinality(P) + Cardinality(Q) - Cardinality(P \cap Q)
      /\ Cardinality(P \cup Q) <= N
  BY <1>1, OrgansAssumption, FS_Union, FS_Subset DEF N
<1>3. /\ Cardinality(P) \in Nat /\ Cardinality(Q) \in Nat /\ Cardinality(P \cap Q) \in Nat
      /\ Cardinality(P \cup Q) \in Nat /\ Cardinality(Byzantine) \in Nat
  BY <1>1, FS_CardinalityType
<1>4. Cardinality(P \cap Q) >= F + 1
  BY <1>2, <1>3, FaultsAssumption DEF QuorumSize
<1>5. ~(P \cap Q \subseteq Byzantine)
  <2> SUFFICES ASSUME P \cap Q \in SUBSET Byzantine PROVE FALSE
    OBVIOUS
  <2>1. Cardinality(P \cap Q) <= Cardinality(Byzantine)
    BY <1>1, FS_Subset
  <2>. QED
    BY <1>3, <1>4, <2>1, FaultsAssumption
<1>. QED
  BY <1>5

(* With n = 3f+1 no split lets both of its sides claim health.             *)
THEOREM SplitBrainFree ==
  ASSUME BeatsPerWindow = 1, N = 3 * F + 1
  PROVE  Spec => []NoSplitBrain
<1>1. HealthInv => NoSplitBrain
  <2> SUFFICES ASSUME HealthInv, Cardinality(Byzantine) <= F,
                      NEW a \in Attestors, NEW b \in Attestors,
                      split[a], split[b], ClaimsHealthy(a), ClaimsHealthy(b)
               PROVE  SameSide(a, b)
    BY DEF NoSplitBrain
  <2>1. /\ LiveOrgans(a) \in SUBSET Organs /\ Cardinality(LiveOrgans(a)) >= QuorumSize(F)
        /\ LiveOrgans(b) \in SUBSET Organs /\ Cardinality(LiveOrgans(b)) >= QuorumSize(F)
    BY EntriesAreOrgans, ClaimRestsOnOrgans DEF HealthInv
  <2>2. PICK o \in LiveOrgans(a) \cap LiveOrgans(b) : o \notin Byzantine
    BY <2>1, QuorumsShareHonest
  <2>3. SameSide(o, a) /\ SameSide(o, b)
    BY <2>2 DEF HealthInv, SideInv, Reaches
  <2>. QED
    BY <2>3 DEF SameSide
<1>. QED
  BY <1>1, HealthInvariant, PTL

(* A claim of health means F+1 honest organs ran in its window.            *)
THEOREM HonestMajorityRan ==
  ASSUME BeatsPerWindow = 1
  PROVE  Spec => []HealthyMeansHonestMajorityRan
<1>1. HealthInv => HealthyMeansHonestMajorityRan
  <2> SUFFICES ASSUME HealthInv, Cardinality(Byzantine) <= F,
                      NEW a \in Attestors, ClaimsHealthy(a)
               PROVE  Cardinality(seen[a] \ Byzantine) >= F + 1
    BY DEF HealthyMeansHonestMajorityRan
  <2> DEFINE L == LiveOrgans(a)
  <2>1. IsFiniteSet(L) /\ Cardinality(L) >= QuorumSize(F)
    BY EntriesAreOrgans, ClaimRestsOnOrgans DEF HealthInv
  <2>2. seen[a] \in SUBSET Organs
    BY DEF HealthInv, TypeInv, TypeOK
  <2>3. IsFiniteSet(seen[a] \ Byzantine) /\ IsFiniteSet(Byzantine)
    BY <2>2, OrgansAssumption, PlacesAssumption, FS_Subset
  <2>4. L \ Byzantine \in SUBSET (seen[a] \ Byzantine)
    BY DEF HealthInv, RanInv
  <2> HIDE DEF L
  <2>5. /\ Cardinality(L \ Byzantine) = Cardinality(L) - Cardinality(L \cap Byzantine)
        /\ Cardinality(L \cap Byzantine) <= Cardinality(Byzantine)
        /\ IsFiniteSet(L \cap Byzantine)
    BY <2>1, <2>3, FS_Difference, FS_Intersection, FS_Subset
  <2>6. Cardinality(L \ Byzantine) <= Cardinality(seen[a] \ Byzantine)
    BY <2>3, <2>4, FS_Subset
  <2>7. /\ Cardinality(L) \in Nat /\ Cardinality(L \cap Byzantine) \in Nat
        /\ Cardinality(Byzantine) \in Nat /\ Cardinality(seen[a] \ Byzantine) \in Nat
    BY <2>1, <2>3, <2>5, FS_CardinalityType
  <2>. QED
    BY <2>1, <2>5, <2>6, <2>7, FaultsAssumption DEF QuorumSize
<1>. QED
  BY <1>1, HealthInvariant, PTL

(* The side of a split that cannot gather 2f+1 reports never claims health *)
(* in a window opened under the split, whatever the size of the mesh.      *)
THEOREM MinorityRefuses ==
  ASSUME BeatsPerWindow = 1
  PROVE  Spec => []MinoritySideRefuses
<1>1. HealthInv => MinoritySideRefuses
  <2> SUFFICES ASSUME HealthInv, NEW a \in Attestors, split[a], ClaimsHealthy(a)
               PROVE  ~(Cardinality({o \in Organs : Reaches(o, a)}) < QuorumSize(F))
    BY DEF MinoritySideRefuses
  <2> DEFINE R == {o \in Organs : Reaches(o, a)}
  <2>1. LiveOrgans(a) \in SUBSET R
    BY EntriesAreOrgans DEF HealthInv, SideInv
  <2>2. IsFiniteSet(R)
    BY OrgansAssumption, FS_Subset
  <2> HIDE DEF R
  <2>3. Cardinality(LiveOrgans(a)) <= Cardinality(R)
    BY <2>1, <2>2, FS_Subset
  <2>4. Cardinality(LiveOrgans(a)) >= QuorumSize(F) /\ IsFiniteSet(LiveOrgans(a))
    BY EntriesAreOrgans, ClaimRestsOnOrgans DEF HealthInv
  <2>5. Cardinality(LiveOrgans(a)) \in Nat /\ Cardinality(R) \in Nat /\ QuorumSize(F) \in Nat
    BY <2>2, <2>4, FS_CardinalityType, FaultsAssumption DEF QuorumSize
  <2>. QED
    BY <2>3, <2>4, <2>5 DEF R
<1>. QED
  BY <1>1, HealthInvariant, PTL

(* Two views that differ bar a claim of health until the window is over.   *)
THEOREM RefusalIsSticky == Spec => RefusalSticks
<1>1. TypeInv /\ [Next]_vars =>
        [\A a \in Attestors : Disagree(a) /\ ~ClaimsHealthy(a) => ~ClaimsHealthy(a)']_vars
  <2> SUFFICES ASSUME TypeInv, Next, NEW b \in Attestors,
                      Disagree(b), ~ClaimsHealthy(b)
               PROVE  ~ClaimsHealthy(b)'
    OBVIOUS
  <2> USE DEF TypeInv, TypeOK, ClaimsHealthy
  <2>1. ASSUME NEW o \in Organs, Crash(o) PROVE ~ClaimsHealthy(b)'
    BY <2>1 DEF Crash
  <2>2. ASSUME NEW a \in Attestors, Attest(a) PROVE ~ClaimsHealthy(b)'
    <3>1. PartitionGuard(polled[b].first, polled[b].second)
      BY DEF PartitionGuard, Disagree
    <3>2. ~Healthy(N, F, inbox[b], polled[b].first, polled[b].second).healthy
      BY <3>1 DEF Healthy, Reason
    <3>. QED
      BY <2>2, <3>2 DEF Attest
  <2>3. ASSUME NEW a \in Attestors, NewWindow(a) PROVE ~ClaimsHealthy(b)'
    BY <2>3 DEF NewWindow
  <2>. QED
    BY <2>1, <2>2, <2>3 DEF Next, Recover, Split, Heal, Beat, PollView
<1>2. Spec => []TypeInv
  BY TypeInit, TypeStep, PTL DEF Spec
<1>. QED
  BY <1>1, <1>2, PTL DEF Spec, RefusalSticks
=============================================================================
