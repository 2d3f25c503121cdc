----------------------------- MODULE PartsProofs -----------------------------
(***************************************************************************)
(* The properties of the parts that stand alone hold in every reachable    *)
(* state, for any packs, calls, keys, consumers, latencies and bounds that *)
(* satisfy PartsAssumption.                                                *)
(*                                                                         *)
(* None is inductive.  Layers says which objects are there or on record as *)
(* refused by how far the operator's commands have come; Ledger, that the  *)
(* errors written down are those of the packs passed; SignaturesStay, that *)
(* a receipt object's signature is over what its formula gave whatever was *)
(* written into it; Signing, where every entry of a governance envelope is *)
(* from, and that ML-DSA stands alone only after the roll-out; Streaming,  *)
(* that count * mean and m2 are exact sums over the stream; SealsInv,      *)
(* where the signatures a relay has at hand are from, which                *)
(* VerifiedWasSealed does not say, and the report between the two lookups  *)
(* of the key, of which MarkersMatchSignatures says nothing.  What is      *)
(* shown of A15Complex is in A15ComplexProofs; of the receipt chain and    *)
(* the payloads, in SensorReceiptChainProofs and AirGapPayloadProofs, from *)
(* where it is carried over to MeshSuite.                                  *)
(***************************************************************************)
EXTENDS MeshSuite, A15ComplexProofs, SequenceTheorems

----------------------------------------------------------------------------
(* MeshDeploy                                                              *)

\* The objects of the four files.
Peer     == {"a11oy-strict-mtls", "sentra-strict-mtls", "amaru-strict-mtls",
             "killinchu-strict-mtls", "rosie-strict-mtls"}
Rules    == {"mesh-otlp-collector-mtls", "organs-istio-mutual"}
Gather   == {"mesh-otel-collector-config", "deployment", "service"}
Policies == {Cluster!DenyAll, Cluster!AllowIngress, Cluster!AllowVsp, Cluster!AllowDns}

Deploying   == commands = Cluster!Deploy
RollingBack == commands = Cluster!Rollback

\* An object that was sent is there, or gone, or its refusal is on record.
Applied(o) == o \in present \/ <<"apply", o>> \in missed
Deleted(o) == o \notin present \/ <<"delete", o>> \in missed
Dealt(o)   == IF Cluster!Verb = "apply" THEN Applied(o) ELSE Deleted(o)

\* The objects of the command under way that were sent.
Underway ==
  Cluster!Going => \A i \in 1..Len(Cluster!File) : i < object => Dealt(Cluster!File[i])

\* IdentityFirst with the four files as sets.
Grounded ==
  \A x \in Gather \cup Policies, y \in Peer \cup Rules :
    x \in present /\ y \notin present => <<"apply", y>> \in missed \/ <<"delete", x>> \in missed

\* How far the commands have come, and what that says of the objects present.
Layers ==
  /\ Deploying \/ RollingBack
  /\ line \in 1..5 /\ object \in Nat \ {0}
  /\ Deploying =>
       /\ line > 1 => \A o \in Peer : Applied(o)
       /\ line > 2 => \A o \in Rules : Applied(o)
       /\ line < 3 => present \cap Gather = {}
       /\ line < 4 => present \cap Policies = {}
  /\ RollingBack =>
       /\ line > 1 => \A o \in Policies : Deleted(o)
       /\ line > 2 => \A o \in Gather : Deleted(o)
  /\ Underway
  /\ Grounded

(* The four manifests as sets (manifests/istio, otel and netpol).          *)
LEMMA Files ==
  /\ Cluster!ToSet(Cluster!PeerAuthentication) = Peer
  /\ Cluster!ToSet(Cluster!DestinationRule) = Rules
  /\ Cluster!ToSet(Cluster!Collector) = Gather
  /\ Cluster!ToSet(Cluster!NetworkPolicies) = Policies
<1>1. Cluster!ToSet(Cluster!PeerAuthentication) = Peer
  BY DEF Cluster!ToSet, Cluster!PeerAuthentication, Peer
<1>2. Cluster!ToSet(Cluster!DestinationRule) = Rules
  BY DEF Cluster!ToSet, Cluster!DestinationRule, Rules
<1>3. Cluster!ToSet(Cluster!Collector) = Gather
  BY DEF Cluster!ToSet, Cluster!Collector, Gather
<1>4. Cluster!ToSet(Cluster!NetworkPolicies) = Policies
  BY DEF Cluster!ToSet, Cluster!NetworkPolicies, Policies
<1> QED BY <1>1, <1>2, <1>3, <1>4

(* No two manifests share an object.                                       *)
LEMMA Distinct ==
  /\ Peer \cap Rules = {} /\ Peer \cap Gather = {} /\ Peer \cap Policies = {}
  /\ Rules \cap Gather = {} /\ Rules \cap Policies = {} /\ Gather \cap Policies = {}
BY DEF Peer, Rules, Gather, Policies, Cluster!DenyAll, Cluster!AllowIngress, Cluster!AllowVsp,
       Cluster!AllowDns

(* The command under way and its file, by how far the operator has come    *)
(* (MESH_RUNBOOK.md).                                                      *)
LEMMA Under ==
  ASSUME Layers, Cluster!Going
  PROVE  /\ line \in 1..4
         /\ Deploying =>
              /\ Cluster!Verb = "apply"
              /\ line = 1 => Cluster!File = Cluster!PeerAuthentication
              /\ line = 2 => Cluster!File = Cluster!DestinationRule
              /\ line = 3 => Cluster!File = Cluster!Collector
              /\ line = 4 => Cluster!File = Cluster!NetworkPolicies
         /\ RollingBack =>
              /\ Cluster!Verb = "delete"
              /\ line = 1 => Cluster!File = Cluster!NetworkPolicies
              /\ line = 2 => Cluster!File = Cluster!Collector
              /\ line = 3 => Cluster!File = Cluster!DestinationRule
              /\ line = 4 => Cluster!File = Cluster!PeerAuthentication
<1>1. CASE Deploying
  <2>1. Cluster!Deploy =
          <<[verb |-> "apply", file |-> Cluster!PeerAuthentication],
            [verb |-> "apply", file |-> Cluster!DestinationRule],
            [verb |-> "apply", file |-> Cluster!Collector],
            [verb |-> "apply", file |-> Cluster!NetworkPolicies]>>
    BY DEF Cluster!Deploy, Cluster!Apply
  <2>2. line \in 1..4 /\ line \in Int
    BY <1>1, <2>1 DEF Layers, Deploying, Cluster!Going
  <2>3. ~RollingBack
    BY <1>1 DEF Deploying, RollingBack, Cluster!Deploy, Cluster!Rollback, Cluster!Apply,
             Cluster!Delete
  <2> QED BY <1>1, <2>1, <2>2, <2>3 DEF Deploying, Cluster!File, Cluster!Verb
<1>2. CASE RollingBack
  <2>1. Cluster!Rollback =
          <<[verb |-> "delete", file |-> Cluster!NetworkPolicies],
            [verb |-> "delete", file |-> Cluster!Collector],
            [verb |-> "delete", file |-> Cluster!DestinationRule],
            [verb |-> "delete", file |-> Cluster!PeerAuthentication]>>
    BY DEF Cluster!Rollback, Cluster!Delete
  <2>2. line \in 1..4 /\ line \in Int
    BY <1>2, <2>1 DEF Layers, RollingBack, Cluster!Going
  <2>3. ~Deploying
    BY <1>2 DEF Deploying, RollingBack, Cluster!Deploy, Cluster!Rollback, Cluster!Apply,
             Cluster!Delete
  <2> QED BY <1>2, <2>1, <2>2, <2>3 DEF RollingBack, Cluster!File, Cluster!Verb
<1> QED BY <1>1, <1>2 DEF Layers

(* Deployment and rollback are different lists of commands.                *)
LEMMA NotBoth == ~(Deploying /\ RollingBack)
BY DEF Deploying, RollingBack, Cluster!Deploy, Cluster!Rollback, Cluster!Apply, Cluster!Delete

(* The same with the set of the file's objects, and the object sent is one *)
(* of them.                                                                *)
LEMMA Sent ==
  ASSUME Layers, Cluster!Going
  PROVE  LET objects == Cluster!ToSet(Cluster!File) IN
         /\ line \in 1..4
         /\ Deploying =>
              /\ Cluster!Verb = "apply"
              /\ line = 1 => objects = Peer
              /\ line = 2 => objects = Rules
              /\ line = 3 => objects = Gather
              /\ line = 4 => objects = Policies
         /\ RollingBack =>
              /\ Cluster!Verb = "delete"
              /\ line = 1 => objects = Policies
              /\ line = 2 => objects = Gather
              /\ line = 3 => objects = Rules
              /\ line = 4 => objects = Peer
         /\ object <= Len(Cluster!File) => Cluster!File[object] \in objects
         /\ DOMAIN Cluster!File = 1..Len(Cluster!File) /\ Len(Cluster!File) \in Nat
<1> DEFINE objects == Cluster!ToSet(Cluster!File)
<1>1. Cluster!File \in {Cluster!PeerAuthentication, Cluster!DestinationRule, Cluster!Collector,
                        Cluster!NetworkPolicies}
  <2>1. Deploying \/ RollingBack
    BY DEF Layers
  <2>2. line \in {1, 2, 3, 4}
    BY Under
  <2> QED BY <2>1, <2>2, Under
<1>2. DOMAIN Cluster!File = 1..Len(Cluster!File) /\ Len(Cluster!File) \in Nat
  <2>1. /\ DOMAIN Cluster!PeerAuthentication = 1..Len(Cluster!PeerAuthentication)
        /\ DOMAIN Cluster!DestinationRule = 1..Len(Cluster!DestinationRule)
    BY DEF Cluster!PeerAuthentication, Cluster!DestinationRule
  <2>2. /\ DOMAIN Cluster!Collector = 1..Len(Cluster!Collector)
        /\ DOMAIN Cluster!NetworkPolicies = 1..Len(Cluster!NetworkPolicies)
    BY DEF Cluster!Collector, Cluster!NetworkPolicies
  <2>3. Len(Cluster!File) \in Nat
    BY <1>1 DEF Cluster!PeerAuthentication, Cluster!DestinationRule, Cluster!Collector,
         Cluster!NetworkPolicies
  <2> QED BY <1>1, <2>1, <2>2, <2>3
<1>6. ASSUME object <= Len(Cluster!File) PROVE Cluster!File[object] \in objects
  <2>1. object \in Nat \ {0}
    BY DEF Layers
  <2>2. object \in DOMAIN Cluster!File
    <3> DEFINE length == Len(Cluster!File)
    <3>1. length \in Nat /\ DOMAIN Cluster!File = 1..length
      BY <1>2
    <3> HIDE DEF length
    <3>2. object \in 1..length
      BY <1>6, <2>1, <3>1 DEF length
    <3> QED BY <3>1, <3>2
  <2> QED BY <2>2 DEF Cluster!ToSet
<1>3. line \in 1..4 /\ line \in {1, 2, 3, 4}
  BY Under
<1> HIDE DEF objects
<1>4. Deploying => /\ Cluster!Verb = "apply"
                   /\ line = 1 => objects = Peer
                   /\ line = 2 => objects = Rules
                   /\ line = 3 => objects = Gather
                   /\ line = 4 => objects = Policies
  BY Under, Files DEF objects
<1>5. RollingBack => /\ Cluster!Verb = "delete"
                     /\ line = 1 => objects = Policies
                     /\ line = 2 => objects = Gather
                     /\ line = 3 => objects = Rules
                     /\ line = 4 => objects = Peer
  BY Under, Files DEF objects
<1> QED BY <1>2, <1>3, <1>4, <1>5, <1>6 DEF objects

(* An empty cluster has its layers in order.                               *)
LEMMA LayersBegin == Cluster!Init => Layers
<1> SUFFICES ASSUME Cluster!Init PROVE Layers
  OBVIOUS
<1>1. present = {} /\ Deploying /\ line = 1 /\ object = 1
  BY DEF Cluster!Init, Deploying
<1>2. ~RollingBack
  BY <1>1, NotBoth
<1>3. Underway
  BY <1>1 DEF Underway
<1> QED BY <1>1, <1>2, <1>3 DEF Layers, Grounded

(* What sending one object does to it and to the others (MESH_RUNBOOK.md). *)
LEMMA Sending ==
  ASSUME Layers, NEW accepted \in BOOLEAN, Cluster!SendObject(accepted)
  PROVE  LET sent == Cluster!File[object] IN
         /\ Cluster!Going /\ object <= Len(Cluster!File)
         /\ object' = object + 1 /\ line' = line /\ commands' = commands
         /\ sent \in Cluster!ToSet(Cluster!File)
         /\ Deploying =>
              /\ present \subseteq present' /\ present' \subseteq present \cup {sent}
              /\ \A o : Applied(o) => Applied(o)'
              /\ \A o : o = sent => Applied(o)'
              /\ \A o : <<"delete", o>> \in missed => <<"delete", o>> \in missed'
         /\ RollingBack =>
              /\ present' \subseteq present /\ present \subseteq present' \cup {sent}
              /\ \A o : Deleted(o) => Deleted(o)'
              /\ \A o : o = sent => Deleted(o)'
              /\ \A o : <<"apply", o>> \in missed => <<"apply", o>> \in missed'
<1> DEFINE sent == Cluster!File[object]
<1>1. /\ Cluster!Going /\ object <= Len(Cluster!File)
      /\ object' = object + 1 /\ line' = line /\ commands' = commands
      /\ present' = IF ~accepted THEN present
                    ELSE IF Cluster!Verb = "apply" THEN present \cup {sent}
                    ELSE present \ {sent}
      /\ missed' = IF accepted THEN missed \ {<<Cluster!Verb, sent>>}
                   ELSE missed \cup {<<Cluster!Verb, sent>>}
  BY DEF Cluster!SendObject
<1>2. /\ sent \in Cluster!ToSet(Cluster!File)
      /\ Deploying => Cluster!Verb = "apply"
      /\ RollingBack => Cluster!Verb = "delete"
  BY <1>1, Sent
<1> HIDE DEF sent
<1>3. \/ present' = present /\ missed' = missed \cup {<<Cluster!Verb, sent>>}
      \/ /\ Cluster!Verb = "apply" /\ present' = present \cup {sent}
         /\ missed' = missed \ {<<Cluster!Verb, sent>>}
      \/ /\ Cluster!Verb # "apply" /\ present' = present \ {sent}
         /\ missed' = missed \ {<<Cluster!Verb, sent>>}
  BY <1>1, Zenon
<1>4. ASSUME Deploying
      PROVE  /\ present \subseteq present' /\ present' \subseteq present \cup {sent}
             /\ \A o : Applied(o) => Applied(o)'
             /\ \A o : o = sent => Applied(o)'
             /\ \A o : <<"delete", o>> \in missed => <<"delete", o>> \in missed'
  <2>1. \/ present' = present /\ missed' = missed \cup {<<"apply", sent>>}
        \/ present' = present \cup {sent} /\ missed' = missed \ {<<"apply", sent>>}
    BY <1>2, <1>3, <1>4
  <2>2. \A o : <<"delete", o>> # <<"apply", sent>>
    OBVIOUS
  <2>3. \A o : <<"apply", o>> = <<"apply", sent>> => o = sent
    OBVIOUS
  <2>4. ASSUME NEW o, Applied(o) PROVE Applied(o)'
    BY <2>1, <2>3, <2>4 DEF Applied
  <2>5. ASSUME NEW o, o = sent PROVE Applied(o)'
    BY <2>1, <2>5 DEF Applied
  <2> QED BY <2>1, <2>2, <2>4, <2>5
<1>5. ASSUME RollingBack
      PROVE  /\ present' \subseteq present /\ present \subseteq present' \cup {sent}
             /\ \A o : Deleted(o) => Deleted(o)'
             /\ \A o : o = sent => Deleted(o)'
             /\ \A o : <<"apply", o>> \in missed => <<"apply", o>> \in missed'
  <2>1. \/ present' = present /\ missed' = missed \cup {<<"delete", sent>>}
        \/ present' = present \ {sent} /\ missed' = missed \ {<<"delete", sent>>}
    BY <1>2, <1>3, <1>5
  <2>2. \A o : <<"apply", o>> # <<"delete", sent>>
    OBVIOUS
  <2>3. \A o : <<"delete", o>> = <<"delete", sent>> => o = sent
    OBVIOUS
  <2>4. ASSUME NEW o, Deleted(o) PROVE Deleted(o)'
    BY <2>1, <2>3, <2>4 DEF Deleted
  <2>5. ASSUME NEW o, o = sent PROVE Deleted(o)'
    BY <2>1, <2>5 DEF Deleted
  <2> QED BY <2>1, <2>2, <2>4, <2>5
<1> QED BY <1>1, <1>2, <1>4, <1>5 DEF sent

(* Once all its objects were sent a command has dealt with its file.       *)
LEMMA AllSent ==
  ASSUME Layers, Cluster!Going, object > Len(Cluster!File)
  PROVE  \A o \in Cluster!ToSet(Cluster!File) :
           (Deploying => Applied(o)) /\ (RollingBack => Deleted(o))
<1> SUFFICES ASSUME NEW o \in Cluster!ToSet(Cluster!File)
             PROVE  (Deploying => Applied(o)) /\ (RollingBack => Deleted(o))
  OBVIOUS
<1>1. /\ Deploying => Cluster!Verb = "apply"
      /\ RollingBack => Cluster!Verb # "apply"
      /\ DOMAIN Cluster!File = 1..Len(Cluster!File) /\ Len(Cluster!File) \in Nat
  BY Sent
<1>2. PICK i \in DOMAIN Cluster!File : o = Cluster!File[i]
  BY DEF Cluster!ToSet
<1>3. object \in Nat
  BY DEF Layers
<1>4. i \in 1..Len(Cluster!File) /\ i < object
  BY <1>1, <1>3
<1>5. Dealt(o)
  BY <1>2, <1>4 DEF Layers, Underway
<1> QED BY <1>1, <1>5 DEF Dealt

(* Sending an object keeps the layers in order.                            *)
LEMMA SendingKeepsLayers ==
  ASSUME Layers, NEW accepted \in BOOLEAN, Cluster!SendObject(accepted)
  PROVE  Layers'
<1> DEFINE sent == Cluster!File[object]
           objects == Cluster!ToSet(Cluster!File)
<1>1. /\ Cluster!Going /\ object <= Len(Cluster!File)
      /\ object' = object + 1 /\ line' = line /\ commands' = commands
      /\ sent \in objects
  BY Sending
<1>2. object \in Nat \ {0} /\ object' \in Nat \ {0} /\ line' \in 1..5
  BY <1>1 DEF Layers
<1>3. Cluster!File' = Cluster!File /\ Cluster!Verb' = Cluster!Verb /\ Len(Cluster!File) \in Nat
  BY <1>1, Sent DEF Cluster!File, Cluster!Verb
<1>4. CASE Deploying
  <2>1. /\ present \subseteq present' /\ present' \subseteq present \cup {sent}
        /\ \A o : Applied(o) => Applied(o)'
        /\ \A o : o = sent => Applied(o)'
        /\ \A o : <<"delete", o>> \in missed => <<"delete", o>> \in missed'
    BY <1>4, Sending
  <2>2. /\ line \in {1, 2, 3, 4} /\ Cluster!Verb = "apply"
        /\ (line = 1 => objects = Peer) /\ (line = 2 => objects = Rules)
        /\ (line = 3 => objects = Gather) /\ (line = 4 => objects = Policies)
    BY <1>1, <1>4, Sent
  <2>3. Underway'
    <3> SUFFICES ASSUME NEW i \in (1..Len(Cluster!File))', i < object'
                 PROVE  Dealt(Cluster!File[i])'
      BY DEF Underway
    <3>1. i \in 1..Len(Cluster!File) /\ i \in Int /\ i < object + 1
      BY <1>1, <1>3
    <3>2. PICK o : o = Cluster!File[i]
      OBVIOUS
    <3>3. ASSUME i = object PROVE Applied(o)'
      BY <2>1, <3>2, <3>3
    <3>4. ASSUME i < object PROVE Applied(o)'
      <4>1. Dealt(Cluster!File[i])
        BY <1>1, <3>1, <3>4 DEF Layers, Underway
      <4>2. Applied(o)
        BY <2>2, <3>2, <4>1 DEF Dealt
      <4> QED BY <2>1, <4>2
    <3>5. Applied(o)'
      BY <1>2, <3>1, <3>3, <3>4
    <3> QED BY <1>3, <2>2, <3>2, <3>5 DEF Dealt, Applied
  <2> HIDE DEF sent, objects
  <2>4. Deploying' /\ ~RollingBack'
    BY <1>1, <1>4, NotBoth DEF Deploying, RollingBack
  <2>5. /\ line > 1 => \A o \in Peer : Applied(o)
        /\ line > 2 => \A o \in Rules : Applied(o)
        /\ line < 3 => present \cap Gather = {}
        /\ line < 4 => present \cap Policies = {}
    BY <1>4 DEF Layers
  <2>6. /\ line < 3 => present' \cap Gather = {}
        /\ line < 4 => present' \cap Policies = {}
    BY <1>1, <2>1, <2>2, <2>5, Distinct
  <2>7. Grounded'
    <3> SUFFICES ASSUME NEW x \in Gather \cup Policies, NEW y \in Peer \cup Rules,
                        x \in present', y \notin present'
                 PROVE  <<"apply", y>> \in missed' \/ <<"delete", x>> \in missed'
      BY DEF Grounded
    <3>1. CASE x \in present /\ <<"delete", x>> \in missed
      BY <2>1, <3>1
    <3>2. CASE Applied(y)
      BY <2>1, <3>2 DEF Applied
    <3>3. CASE x \notin present
      <4>1. x = sent /\ line \in {3, 4}
        BY <1>1, <2>1, <2>2, <3>3, Distinct
      <4>2. Applied(y)
        BY <2>5, <4>1
      <4> QED BY <3>2, <4>2
    <3>4. x \in present => <<"delete", x>> \in missed \/ Applied(y)
      BY <2>1 DEF Layers, Grounded, Applied
    <3> QED BY <3>1, <3>2, <3>3, <3>4
  <2>8. /\ line > 1 => \A o \in Peer : Applied(o)'
        /\ line > 2 => \A o \in Rules : Applied(o)'
    BY <2>1, <2>5
  <2> QED BY <1>1, <1>2, <2>3, <2>4, <2>6, <2>7, <2>8 DEF Layers
<1>5. CASE RollingBack
  <2>1. /\ present' \subseteq present /\ present \subseteq present' \cup {sent}
        /\ \A o : Deleted(o) => Deleted(o)'
        /\ \A o : o = sent => Deleted(o)'
        /\ \A o : <<"apply", o>> \in missed => <<"apply", o>> \in missed'
    BY <1>5, Sending
  <2>2. /\ line \in {1, 2, 3, 4} /\ Cluster!Verb # "apply"
        /\ (line = 1 => objects = Policies) /\ (line = 2 => objects = Gather)
        /\ (line = 3 => objects = Rules) /\ (line = 4 => objects = Peer)
    BY <1>1, <1>5, Sent
  <2>3. Underway'
    <3> SUFFICES ASSUME NEW i \in (1..Len(Cluster!File))', i < object'
                 PROVE  Dealt(Cluster!File[i])'
      BY DEF Underway
    <3>1. i \in 1..Len(Cluster!File) /\ i \in Int /\ i < object + 1
      BY <1>1, <1>3
    <3>2. PICK o : o = Cluster!File[i]
      OBVIOUS
    <3>3. ASSUME i = object PROVE Deleted(o)'
      BY <2>1, <3>2, <3>3
    <3>4. ASSUME i < object PROVE Deleted(o)'
      <4>1. Dealt(Cluster!File[i])
        BY <1>1, <3>1, <3>4 DEF Layers, Underway
      <4>2. Deleted(o)
        BY <2>2, <3>2, <4>1 DEF Dealt
      <4> QED BY <2>1, <4>2
    <3>5. Deleted(o)'
      BY <1>2, <3>1, <3>3, <3>4
    <3> QED BY <1>3, <2>2, <3>2, <3>5 DEF Dealt, Deleted
  <2> HIDE DEF sent, objects
  <2>4. RollingBack' /\ ~Deploying'
    BY <1>1, <1>5, NotBoth DEF Deploying, RollingBack
  <2>5. /\ line > 1 => \A o \in Policies : Deleted(o)
        /\ line > 2 => \A o \in Gather : Deleted(o)
    BY <1>5 DEF Layers
  <2>6. Grounded'
    <3> SUFFICES ASSUME NEW x \in Gather \cup Policies, NEW y \in Peer \cup Rules,
                        x \in present', y \notin present'
                 PROVE  <<"apply", y>> \in missed' \/ <<"delete", x>> \in missed'
      BY DEF Grounded
    <3>1. x \in present
      BY <2>1
    <3>2. CASE Deleted(x)
      BY <2>1, <3>1, <3>2 DEF Deleted
    <3>3. CASE y \in present
      <4>1. y = sent /\ line \in {3, 4}
        BY <1>1, <2>1, <2>2, <3>3, Distinct
      <4>2. Deleted(x)
        BY <2>5, <4>1
      <4> QED BY <3>2, <4>2
    <3>4. y \notin present => <<"apply", y>> \in missed \/ Deleted(x)
      BY <3>1 DEF Layers, Grounded, Deleted
    <3> QED BY <2>1, <3>2, <3>3, <3>4
  <2>7. /\ line > 1 => \A o \in Policies : Deleted(o)'
        /\ line > 2 => \A o \in Gather : Deleted(o)'
    BY <2>1, <2>5
  <2> QED BY <1>1, <1>2, <2>3, <2>4, <2>6, <2>7 DEF Layers
<1> QED BY <1>4, <1>5 DEF Layers

(* Going on or repeating a command keeps the layers in order.              *)
LEMMA NextCommandKeepsLayers ==
  ASSUME Layers, Cluster!NextCommand
  PROVE  Layers'
<1> DEFINE objects == Cluster!ToSet(Cluster!File)
<1>1. /\ Cluster!Going /\ object > Len(Cluster!File)
      /\ object' = 1 /\ commands' = commands /\ present' = present /\ missed' = missed
      /\ line' = line \/ line' = line + 1
  BY DEF Cluster!NextCommand
<1>2. line \in {1, 2, 3, 4} /\ line' \in 1..5 /\ object' \in Nat \ {0}
  BY <1>1, Sent
<1>3. Underway'
  <2> SUFFICES ASSUME NEW i \in (1..Len(Cluster!File))' PROVE ~(i < object')
    BY DEF Underway
  <2>1. i \in Int /\ i >= 1
    OBVIOUS
  <2> QED BY <1>1, <2>1
<1>4. /\ Grounded' /\ (Deploying' <=> Deploying) /\ (RollingBack' <=> RollingBack)
      /\ \A o : (Applied(o)' <=> Applied(o)) /\ (Deleted(o)' <=> Deleted(o))
  BY <1>1 DEF Layers, Grounded, Deploying, RollingBack, Applied, Deleted
<1>5. \A o \in objects : (Deploying => Applied(o)) /\ (RollingBack => Deleted(o))
  BY <1>1, AllSent
<1>6. CASE Deploying
  <2>1. /\ (line = 1 => objects = Peer) /\ (line = 2 => objects = Rules)
    BY <1>1, <1>6, Sent
  <2> HIDE DEF objects
  <2>2. /\ line > 1 => \A o \in Peer : Applied(o)
        /\ line > 2 => \A o \in Rules : Applied(o)
        /\ line < 3 => present \cap Gather = {}
        /\ line < 4 => present \cap Policies = {}
    BY <1>6 DEF Layers
  <2>3. /\ line' > 1 => \A o \in Peer : Applied(o)
        /\ line' > 2 => \A o \in Rules : Applied(o)
        /\ line' < 3 => present \cap Gather = {}
        /\ line' < 4 => present \cap Policies = {}
    BY <1>1, <1>2, <1>5, <1>6, <2>1, <2>2
  <2>4. ~RollingBack
    BY <1>6, NotBoth
  <2> QED BY <1>1, <1>2, <1>3, <1>4, <1>6, <2>3, <2>4 DEF Layers
<1>7. CASE RollingBack
  <2>1. /\ (line = 1 => objects = Policies) /\ (line = 2 => objects = Gather)
    BY <1>1, <1>7, Sent
  <2> HIDE DEF objects
  <2>2. /\ line > 1 => \A o \in Policies : Deleted(o)
        /\ line > 2 => \A o \in Gather : Deleted(o)
    BY <1>7 DEF Layers
  <2>3. /\ line' > 1 => \A o \in Policies : Deleted(o)
        /\ line' > 2 => \A o \in Gather : Deleted(o)
    BY <1>1, <1>2, <1>5, <1>7, <2>1, <2>2
  <2>4. ~Deploying
    BY <1>7, NotBoth
  <2> QED BY <1>1, <1>2, <1>3, <1>4, <1>7, <2>3, <2>4 DEF Layers
<1> QED BY <1>6, <1>7 DEF Layers

(* No object sent, command repeated or rollback begun half-way disturbs    *)
(* the layers.                                                             *)
LEMMA LayersKept == Layers /\ [Cluster!Next]_cluster_vars => Layers'
<1> SUFFICES ASSUME Layers, [Cluster!Next]_cluster_vars PROVE Layers'
  OBVIOUS
<1>1. ASSUME Cluster!TurnBack PROVE Layers'
  <2>1. /\ RollingBack' /\ line' = 1 /\ object' = 1 /\ present' = present /\ missed' = missed
    BY <1>1 DEF Cluster!TurnBack, RollingBack
  <2>2. ~Deploying'
    BY <2>1 DEF Deploying, RollingBack, Cluster!Deploy, Cluster!Rollback, Cluster!Apply,
             Cluster!Delete
  <2>3. Underway'
    <3> SUFFICES ASSUME NEW i \in (1..Len(Cluster!File))' PROVE ~(i < object')
      BY DEF Underway
    <3>1. i \in Int /\ i >= 1
      OBVIOUS
    <3> QED BY <2>1, <3>1
  <2>4. Grounded'
    BY <2>1 DEF Layers, Grounded
  <2> QED BY <2>1, <2>2, <2>3, <2>4 DEF Layers
<1>2. ASSUME UNCHANGED <<present, commands, line, object, missed>> PROVE Layers'
  BY <1>2 DEF Layers, Deploying, RollingBack, Applied, Deleted, Underway, Dealt, Grounded,
              Cluster!Going, Cluster!File, Cluster!Verb, Cluster!Deploy, Cluster!Rollback
<1>3. QED
  BY <1>1, <1>2, SendingKeepsLayers, NextCommandKeepsLayers
     DEF Cluster!Next, Cluster!CollectorStarts, Cluster!CollectorFails, cluster_vars

(* What the layers say of connections and of the identity layer.           *)
LEMMA LayersShow ==
  ASSUME Layers
  PROVE  DenyHoldsAgainstOutsiders /\ IdentityFirst
<1>1. IdentityFirst
  <2>1. Cluster!ToSet(Cluster!Collector \o Cluster!NetworkPolicies) = Gather \cup Policies
    BY DEF Cluster!ToSet, Cluster!Collector, Cluster!NetworkPolicies, Gather, Policies
  <2>2. Cluster!Identity = Peer \cup Rules
    BY DEF Cluster!ToSet, Cluster!PeerAuthentication, Cluster!DestinationRule, Cluster!Identity,
           Peer, Rules
  <2> QED BY <2>1, <2>2 DEF IdentityFirst, Cluster!IdentityFirst, Layers, Grounded
<1>2. DenyHoldsAgainstOutsiders
  <2> SUFFICES ASSUME Cluster!DenyAll \in present, NEW pod \in Cluster!MeshPods,
                      NEW port \in {4317, 4318}
               PROVE  ~Cluster!Connects("outsider", pod, port) /\ ~Cluster!Connects(pod, "outsider", port)
    BY DEF DenyHoldsAgainstOutsiders, Cluster!DenyHoldsAgainstOutsiders
  <2>1. \A direction \in {"ingress", "egress"} :
          Cluster!DenyAll \in Cluster!InForce(pod, direction)
    <3>1. Cluster!DenyAll \in present \cap Cluster!ToSet(Cluster!NetworkPolicies)
      BY Files DEF Policies
    <3>2. pod \in Cluster!Selects(Cluster!DenyAll)
      BY DEF Cluster!Selects
    <3>3. Cluster!Isolates(Cluster!DenyAll) = {"ingress", "egress"}
      BY DEF Cluster!Isolates, Cluster!DenyAll, Cluster!AllowIngress
    <3> QED BY <3>1, <3>2, <3>3 DEF Cluster!InForce
  <2>3. \A policy \in {Cluster!DenyAll, Cluster!AllowIngress, Cluster!AllowVsp, Cluster!AllowDns} :
          <<"outsider", port>> \notin Cluster!Peers(policy)
    BY DEF Cluster!Peers, Cluster!DenyAll, Cluster!AllowIngress, Cluster!AllowVsp, Cluster!AllowDns,
           Cluster!MeshPods, Cluster!Pods
  <2>4. \A direction : Cluster!InForce(pod, direction) \subseteq Policies
    BY Files DEF Cluster!InForce
  <2>5. \A direction \in {"ingress", "egress"} :
          ~Cluster!MayPass(pod, direction, "outsider", port)
    BY <2>1, <2>3, <2>4 DEF Cluster!MayPass, Policies
  <2> QED BY <2>5 DEF Cluster!Connects
<1> QED BY <1>1, <1>2
----------------------------------------------------------------------------
(* PackValidator                                                           *)

\* The error sets there can be, and the ledger of those found so far.
Errors == {Packs!ValidatePack(packs[i]) : i \in DOMAIN packs}

Ledger ==
  /\ packs \in PackLists
  /\ at \in 1..(Len(packs) + 1)
  /\ errors \in Seq(Errors) /\ Len(errors) = at - 1
  /\ \A i \in 1..(at - 1) : errors[i] = Packs!ValidatePack(packs[i])
  /\ exit = "0" => at > Len(packs) /\ \A i \in 1..(at - 1) : errors[i] = {}

(* A pack in which no error is found is disciplined (validate_pack).       *)
LEMMA NoErrors ==
  ASSUME NEW pack, Packs!NumbersIn(pack), Packs!ValidatePack(pack) = {}
  PROVE  Packs!Disciplined(pack)
<1> DEFINE resp == pack.response
           lam == resp.lambda_value
           floor == Packs!FloorGiven(pack)
           lim == Packs!Floor(pack)
           kinds == pack.kinds \cap {"PeerAuthentication", "AuthorizationPolicy"}
<1>1. pack.files = "parsed"
  BY DEF Packs!ValidatePack
<1>2. Packs!ValidateParsed(pack) = {}
  BY <1>1 DEF Packs!ValidatePack
<1>3. kinds = {} /\ Packs!FloorSane(pack)
  <2> DEFINE checks == [wire   |-> "Package" \in pack.kinds,
           mtls   |-> kinds = {},
           organ  |-> pack.organ \in Packs!ORGANS,
           floor  |-> Packs!FloorSane(pack),
           target |-> pack.request.organ \in {"", "absent", pack.organ}
                        \/ pack.organ \in {"", "absent"},
           echo   |-> \/ {0, -1} \cap {pack.request.request_id, pack.response.request_id} # {}
                      \/ pack.request.request_id = pack.response.request_id]
  <2>1. Packs!Failing(checks) = {}
    BY <1>2 DEF Packs!ValidateParsed
  <2>2. "mtls" \in DOMAIN checks /\ "floor" \in DOMAIN checks
    OBVIOUS
  <2>3. checks["mtls"] /\ checks["floor"]
    <3> HIDE DEF checks
    <3> QED BY <2>1, <2>2 DEF Packs!Failing
  <2>4. checks["mtls"] <=> kinds = {}
    OBVIOUS
  <2>5. checks["floor"] <=> Packs!FloorSane(pack)
    OBVIOUS
  <2> QED BY <2>3, <2>4, <2>5
<1>4. Packs!ValidateDecision(resp, lim, pack.organ) = {}
  BY <1>2 DEF Packs!ValidateParsed
<1>5. Packs!ValidateReceipt(resp.receipt) = {}
  BY <1>4 DEF Packs!ValidateDecision
<1>6. resp.receipt.signature \in {"base64", "sentinel"}
  <2> DEFINE receipt == resp.receipt
             checks == [fields |-> "absent" \notin {receipt.receipt_hash, receipt.signature},
           hash        |-> receipt.receipt_hash = "64-hex",
           placeholder |-> receipt.signature # "placeholder",
           signature   |-> receipt.signature \in {"base64", "placeholder", "sentinel"}]
  <2>1. Packs!Failing(checks) = {}
    BY <1>5 DEF Packs!ValidateReceipt
  <2>2. "placeholder" \in DOMAIN checks /\ "signature" \in DOMAIN checks
    OBVIOUS
  <2>3. checks["placeholder"] /\ checks["signature"]
    <3> HIDE DEF checks
    <3> QED BY <2>1, <2>2 DEF Packs!Failing
  <2>4. checks["placeholder"] <=> receipt.signature # "placeholder"
    OBVIOUS
  <2>5. checks["signature"] <=> receipt.signature \in {"base64", "placeholder", "sentinel"}
    OBVIOUS
  <2> QED BY <2>3, <2>4, <2>5
<1>7. /\ Packs!IsNumber(lam)
      /\ lam.value \in 0..100
      /\ resp.governance_drift \in {"true", "false"} =>
           (resp.governance_drift = "true" <=> Packs!Drifts(lam.value, lim))
      /\ pack.organ \in Packs!FAIL_CLOSED_ORGANS =>
           ~(Packs!Drifts(lam.value, lim) /\ resp.verdict = "PERMIT")
  <2> DEFINE checks == [fields  |-> Packs!FieldsPresent(resp),
           verdict |-> resp.verdict \in Packs!VERDICTS \cup {"null", "absent"},
           number  |-> Packs!IsNumber(lam),
           range   |-> Packs!IsNumber(lam) => lam.value \in 0..100,
           drift   |-> Packs!IsNumber(lam) /\ resp.governance_drift \in {"true", "false"} =>
                         (resp.governance_drift = "true" <=> Packs!Drifts(lam.value, lim)),
           closed  |-> Packs!IsNumber(lam) /\ pack.organ \in Packs!FAIL_CLOSED_ORGANS =>
                         ~(Packs!Drifts(lam.value, lim) /\ resp.verdict = "PERMIT")]
  <2>1. Packs!Failing(checks) = {}
    BY <1>4 DEF Packs!ValidateDecision
  <2>2. {"number", "range", "drift", "closed"} \subseteq DOMAIN checks
    OBVIOUS
  <2>3. checks["number"] /\ checks["range"] /\ checks["drift"] /\ checks["closed"]
    <3> HIDE DEF checks
    <3> QED BY <2>1, <2>2 DEF Packs!Failing
  <2>4. checks["number"] <=> Packs!IsNumber(lam)
    OBVIOUS
  <2>5. checks["range"] <=> (Packs!IsNumber(lam) => lam.value \in 0..100)
    OBVIOUS
  <2>6. checks["drift"] <=>
          (Packs!IsNumber(lam) /\ resp.governance_drift \in {"true", "false"} =>
             (resp.governance_drift = "true" <=> Packs!Drifts(lam.value, lim)))
    OBVIOUS
  <2>7. checks["closed"] <=>
          (Packs!IsNumber(lam) /\ pack.organ \in Packs!FAIL_CLOSED_ORGANS =>
             ~(Packs!Drifts(lam.value, lim) /\ resp.verdict = "PERMIT"))
    OBVIOUS
  <2> HIDE DEF checks
  <2> QED BY <2>3, <2>4, <2>5, <2>6, <2>7
<1>8. Packs!IsNumber(floor) /\ floor.value \in 0..100 /\ lim = floor.value
  BY <1>3 DEF Packs!FloorSane, Packs!Floor
<1> DEFINE l == lam.value
           f == floor.value
<1>9. /\ resp.governance_drift = "true" => 0 <= l /\ l < f
      /\ resp.governance_drift = "false" => f <= l /\ l <= 100
      /\ pack.organ = "sentra" /\ resp.verdict = "PERMIT" => f <= l
      /\ 0 <= f /\ f <= 100
  <2>1. l \in 0..100 /\ f \in 0..100 /\ (Packs!Drifts(l, f) <=> l < f \/ l > 100)
    BY <1>7, <1>8 DEF Packs!Drifts
  <2>2. /\ resp.governance_drift = "true" => Packs!Drifts(l, f)
        /\ resp.governance_drift = "false" => ~Packs!Drifts(l, f)
        /\ pack.organ = "sentra" /\ resp.verdict = "PERMIT" => ~Packs!Drifts(l, f)
    BY <1>7, <1>8 DEF Packs!FAIL_CLOSED_ORGANS
  <2> HIDE DEF l, f
  <2> QED BY <2>1, <2>2
<1> QED BY <1>1, <1>3, <1>6, <1>7, <1>8, <1>9 DEF Packs!Disciplined

(* Nothing is in the ledger before the first pack.                         *)
LEMMA LedgerBegins == Packs!ListsAssumption /\ Packs!Init => Ledger
BY DEF Packs!ListsAssumption, Packs!Init, Ledger

(* Every turn of the loop writes the errors of one pack (main).            *)
LEMMA LedgerKept == Packs!ListsAssumption /\ Ledger /\ [Packs!Next]_packs_vars => Ledger'
<1> SUFFICES ASSUME Packs!ListsAssumption, Ledger, [Packs!Next]_packs_vars PROVE Ledger'
  OBVIOUS
<1> DEFINE n == Len(packs)
<1>0. n \in Nat /\ DOMAIN packs = 1..n
  BY DEF Packs!ListsAssumption, Ledger
<1>1. CASE Packs!Validate
  <2>1. /\ exit = "running" /\ at <= n /\ exit' = exit /\ packs' = packs /\ at' = at + 1
        /\ errors' = Append(errors, Packs!ValidatePack(packs[at]))
    BY <1>1 DEF Packs!Validate
  <2>2. Packs!ValidatePack(packs[at]) \in Errors /\ Errors' = Errors /\ at \in Nat \ {0}
    <3>1. at \in 1..(n + 1)
      BY DEF Ledger
    <3>2. at \in DOMAIN packs /\ at \in Nat \ {0}
      <4> HIDE DEF n
      <4> QED BY <1>0, <2>1, <3>1
    <3>3. Packs!ValidatePack(packs[at]) \in Errors
      BY <3>2 DEF Errors
    <3>4. Errors' = Errors
      BY <2>1 DEF Errors
    <3> QED BY <3>2, <3>3, <3>4
  <2> DEFINE new == Packs!ValidatePack(packs[at])
             Valid(i) == Packs!ValidatePack(packs[i])
  <2>3. \A i \in 1..(at - 1) : errors[i] = Valid(i)
    BY DEF Ledger
  <2>4. errors \in Seq(Errors) /\ Len(errors) = at - 1
    BY DEF Ledger
  <2>5. errors' \in Seq(Errors) /\ Len(errors') = at /\ errors'[at] = new
        /\ \A i \in 1..(at - 1) : errors'[i] = errors[i]
    <3> HIDE DEF new
    <3> QED BY <2>1, <2>2, <2>4 DEF new
  <2>6. \A i \in 1..at : errors'[i] = Valid(i)
    <3> TAKE i \in 1..at
    <3>1. CASE i = at
      BY <3>1, <2>5
    <3>2. CASE i # at
      BY <3>2, <2>2, <2>3, <2>5
    <3> QED BY <3>1, <3>2
  <2>7. \A i : (Packs!ValidatePack(packs[i]))' = Valid(i)
    BY <2>1
  <2>8. at' - 1 = at /\ at' \in 1..(n + 1)
    BY <1>0, <2>1, <2>2
  <2> QED BY <2>1, <2>2, <2>5, <2>6, <2>7, <2>8 DEF Ledger
<1>2. ASSUME UNCHANGED <<packs, at, errors>>,
             exit' = "0" => exit = "0" \/ (at > n /\ \A i \in DOMAIN errors : errors[i] = {})
      PROVE  Ledger'
  <2>1. DOMAIN errors = 1..(at - 1)
    BY DEF Ledger
  <2>2. Errors' = Errors /\ \A i : (Packs!ValidatePack(packs[i]))' = Packs!ValidatePack(packs[i])
    BY <1>2 DEF Errors
  <2> QED BY <1>2, <2>1, <2>2 DEF Ledger
<1> QED BY <1>1, <1>2 DEF Packs!Next, Packs!Crash, Packs!Finish, packs_vars

(* Exit code 0 with the ledger complete and empty of errors.               *)
LEMMA LedgerShows == Packs!ListsAssumption /\ Ledger => ExitZeroMeansDisciplined
<1> SUFFICES ASSUME Packs!ListsAssumption, Ledger, exit = "0"
             PROVE  Len(errors) = Len(packs) /\ \A i \in DOMAIN packs : Packs!Disciplined(packs[i])
  BY DEF ExitZeroMeansDisciplined, Packs!ExitZeroMeansDisciplined
<1>1. /\ Len(packs) \in Nat /\ DOMAIN packs = 1..Len(packs)
      /\ \A i \in DOMAIN packs : Packs!NumbersIn(packs[i])
  BY DEF Packs!ListsAssumption, Ledger
<1>2. at = Len(packs) + 1
  BY <1>1 DEF Ledger
<1>3. \A i \in 1..Len(packs) : Packs!ValidatePack(packs[i]) = {}
  BY <1>1, <1>2 DEF Ledger
<1> QED BY <1>1, <1>2, <1>3, NoErrors DEF Ledger
----------------------------------------------------------------------------
(* FormulaReceipts                                                         *)

\* A receipt object's signature is over what its formula gives, whatever was
\* written into the object; a rendered envelope's too.
SignedFor(signature, call) ==
  signature = Formula!SignPayload(Formula!ReceiptBody(call), signature.key)

SignedReceipt(receipt) ==
  DOMAIN receipt = {"body", "signature", "call"} /\ SignedFor(receipt.signature, receipt.call)

SignaturesStay ==
  /\ DOMAIN receipts = Processes
  /\ \A p \in Processes : \A receipt \in receipts[p] : SignedReceipt(receipt)
  /\ \A e \in envelopes :
       SignedFor(e.env.sig, e.call) /\ e.key = e.env.sig.key
       /\ e.env = [payload |-> e.env.payload, sig |-> e.env.sig]

(* There is no receipt and no envelope at the start.                       *)
LEMMA SignaturesBegin == Formula!Init => SignaturesStay
BY DEF Formula!Init, SignaturesStay

(* Signatures stay over what the formula gave, through restarts,           *)
(* rotations, edits and late renderings (emit_formula_receipt,             *)
(* to_dsse_envelope).                                                      *)
LEMMA SignaturesKept == SignaturesStay /\ [Formula!Next]_formula_vars => SignaturesStay'
<1> SUFFICES ASSUME SignaturesStay, [Formula!Next]_formula_vars PROVE SignaturesStay'
  OBVIOUS
<1>1. ASSUME UNCHANGED <<receipts, envelopes>> PROVE SignaturesStay'
  BY <1>1 DEF SignaturesStay
<1>2. ASSUME NEW p \in Processes, Formula!Restart(p) PROVE SignaturesStay'
  BY <1>2 DEF Formula!Restart, SignaturesStay
<1>3. ASSUME NEW p \in Processes, NEW call \in Calls, Formula!EmitFormulaReceipt(p, call)
      PROVE  SignaturesStay'
  <2> DEFINE body == Formula!ReceiptBody(call)
             sig  == Formula!SignPayload(body, hmac_key[p])
             made == [body |-> body, signature |-> sig, call |-> call]
             env  == [env |-> Formula!ToDsseEnvelope(made), call |-> call, key |-> hmac_key[p]]
  <2>1. /\ receipts' = [receipts EXCEPT ![p] = @ \cup {made}]
        /\ envelopes' = envelopes \cup {env}
    BY <1>3 DEF Formula!EmitFormulaReceipt
  <2>2. SignedFor(sig, call) /\ sig.key = hmac_key[p]
    BY DEF SignedFor, Formula!SignPayload
  <2>3. env.env = [payload |-> body, sig |-> sig] /\ env.call = call /\ env.key = hmac_key[p]
    BY DEF Formula!ToDsseEnvelope
  <2> HIDE DEF sig, body
  <2>4. SignedReceipt(made)
    BY <2>2 DEF SignedReceipt
  <2> HIDE DEF made, env
  <2>5. SignedFor(env.env.sig, env.call) /\ env.key = env.env.sig.key
        /\ env.env = [payload |-> env.env.payload, sig |-> env.env.sig]
    BY <2>2, <2>3
  <2>6. \A q \in Processes : \A r \in receipts'[q] : r = made \/ r \in receipts[q]
    BY <2>1 DEF SignaturesStay
  <2>7. DOMAIN receipts' = Processes
    BY <2>1 DEF SignaturesStay
  <2> QED BY <2>1, <2>4, <2>5, <2>6, <2>7 DEF SignaturesStay
<1>4. ASSUME NEW p \in Processes, NEW r \in receipts[p], NEW output \in Formula!Outputs,
             Formula!EditReceipt(p, r, output)
      PROVE  SignaturesStay'
  <2> DEFINE edited == [r EXCEPT !.body.output = output]
  <2>1. envelopes' = envelopes /\ receipts' = [receipts EXCEPT ![p] = (@ \ {r}) \cup {edited}]
    BY <1>4 DEF Formula!EditReceipt
  <2>2. SignedReceipt(r)
    BY DEF SignaturesStay
  <2>3. DOMAIN edited = DOMAIN r /\ edited.signature = r.signature /\ edited.call = r.call
    BY <2>2 DEF SignedReceipt
  <2> HIDE DEF edited
  <2>4. SignedReceipt(edited)
    BY <2>2, <2>3 DEF SignedReceipt
  <2>5. \A q \in Processes : \A s \in receipts'[q] : s = edited \/ s \in receipts[q]
    BY <2>1 DEF SignaturesStay
  <2>6. DOMAIN receipts' = Processes
    BY <2>1 DEF SignaturesStay
  <2> QED BY <2>1, <2>4, <2>5, <2>6 DEF SignaturesStay
<1>5. ASSUME NEW p \in Processes, NEW r \in receipts[p], Formula!RenderAgain(p, r)
      PROVE  SignaturesStay'
  <2> DEFINE env == [env |-> Formula!ToDsseEnvelope(r), call |-> r.call, key |-> r.signature.key]
  <2>1. receipts' = receipts /\ envelopes' = envelopes \cup {env}
    BY <1>5 DEF Formula!RenderAgain
  <2>2. SignedReceipt(r)
    BY DEF SignaturesStay
  <2>3. /\ env.env = [payload |-> r.body, sig |-> r.signature]
        /\ env.call = r.call /\ env.key = r.signature.key
    BY DEF Formula!ToDsseEnvelope
  <2> HIDE DEF env
  <2>4. SignedFor(env.env.sig, env.call) /\ env.key = env.env.sig.key
        /\ env.env = [payload |-> env.env.payload, sig |-> env.env.sig]
    BY <2>2, <2>3 DEF SignedReceipt
  <2> QED BY <2>1, <2>4 DEF SignaturesStay
<1> QED
  BY <1>1, <1>2, <1>3, <1>4, <1>5 DEF Formula!Next, Formula!RotateEnv, formula_vars

(* So an envelope is accepted by the key and the output alone (verify).    *)
LEMMA SignaturesShow == SignaturesStay => AcceptedOutputsAreComputed
<1> SUFFICES ASSUME SignaturesStay, NEW e \in envelopes, NEW p \in Processes
             PROVE  Formula!Verify(e.env, hmac_key[p]) <=>
                      hmac_key[p] = e.key /\ e.env.payload = Formula!ReceiptBody(e.call)
  BY DEF AcceptedOutputsAreComputed, Formula!AcceptedOutputsAreComputed
<1> DEFINE body == Formula!ReceiptBody(e.call)
           key  == hmac_key[p]
           sig  == e.env.sig
<1>1. sig = [key |-> e.key, over |-> body]
  BY DEF SignaturesStay, SignedFor, Formula!SignPayload
<1>2. Formula!Verify(e.env, key) <=> sig = [key |-> key, over |-> e.env.payload]
  BY DEF Formula!Verify, Formula!SignPayload
<1> HIDE DEF body, key, sig
<1>3. [key |-> e.key, over |-> body] = [key |-> key, over |-> e.env.payload]
        <=> e.key = key /\ body = e.env.payload
  <2> DEFINE a == [key |-> e.key, over |-> body]
             b == [key |-> key, over |-> e.env.payload]
  <2>1. a.key = e.key /\ a.over = body /\ b.key = key /\ b.over = e.env.payload
    OBVIOUS
  <2> QED BY <2>1
<1> QED BY <1>1, <1>2, <1>3 DEF body, key, sig
----------------------------------------------------------------------------
(* GovernanceReceipts                                                      *)

Entries == [alg : {"hmac-sha256", "ml-dsa-65"}, key : Int, covers : {"governance-receipt"} \X Int]

KeySets == [hmac : Nat \ {0}, pqc : Nat]

\* An archived envelope is what one of the two signers makes; the second one
\* was at work only after the roll-out.
Archived(a) ==
  /\ a.keys \in KeySets /\ a.keys.pqc # 0
  /\ \E receipt \in Nat :
       \/ a.env = Pepr!SignReceiptDualSign(receipt, a.keys)
       \/ pqc_only /\ a.env = Pepr!SignReceiptPqcOnly(receipt, a.keys)

\* An entry was made by the signer for an archived receipt, or by an organ.
Traced(entry) ==
  \/ entry.key = Pepr!OrganKey /\ entry.alg = "hmac-sha256"
  \/ \E a \in archive :
       /\ entry.covers = Pepr!BuildPAE(Pepr!PayloadType, a.env.payload)
       /\ \/ entry.alg = "hmac-sha256" /\ entry.key = a.keys.hmac
          \/ entry.alg = "ml-dsa-65" /\ entry.key = a.keys.pqc

KeysRead ==
  /\ secrets \in KeySets
  /\ DOMAIN keys = Pepr!Parties /\ \A p \in Pepr!Parties : keys[p] \in KeySets

RollOut ==
  /\ DOMAIN verifier = Consumers
  /\ pqc_only => \A c \in Consumers : verifier[c] = "dual"

Reading ==
  /\ DOMAIN read = {"env", "was", "changes"}
  /\ DOMAIN read.env = {"payloadType", "payload", "signatures"}
  /\ read.env.payload \in Int /\ read.env.signatures \in Seq(Entries)
  /\ \A i \in DOMAIN read.env.signatures : Traced(read.env.signatures[i])
  /\ read.changes \in Nat
  /\ read.was \subseteq archive
  /\ read.changes = 0 => \A a \in read.was : read.env = a.env

Signing ==
  /\ KeysRead /\ RollOut /\ Reading
  /\ counter \in Nat
  /\ \A a \in archive : Archived(a)

(* An archived envelope and its entries (signReceiptDualSign,              *)
(* signReceiptPqcOnly).                                                    *)
LEMMA ArchivedEnvelope ==
  ASSUME NEW a \in archive, Archived(a)
  PROVE  /\ DOMAIN a.env = {"payloadType", "payload", "signatures"}
         /\ a.env.payload \in Int /\ a.env.payloadType = Pepr!PayloadType
         /\ a.env.signatures \in Seq(Entries)
         /\ \A i \in DOMAIN a.env.signatures : Traced(a.env.signatures[i])
         /\ LET pae == Pepr!BuildPAE(Pepr!PayloadType, a.env.payload)
                h == Pepr!HmacEntry(a.keys.hmac, pae)
                q == Pepr!PqcEntry(a.keys.pqc, pae)
            IN  a.env.signatures = <<h, q>> \/ (pqc_only /\ a.env.signatures = <<q>>)
<1>1. PICK receipt \in Nat :
        \/ a.env = Pepr!SignReceiptDualSign(receipt, a.keys)
        \/ pqc_only /\ a.env = Pepr!SignReceiptPqcOnly(receipt, a.keys)
  BY DEF Archived
<1> DEFINE pae == Pepr!BuildPAE(Pepr!PayloadType, receipt)
           h == Pepr!HmacEntry(a.keys.hmac, pae)
           q == Pepr!PqcEntry(a.keys.pqc, pae)
<1>2. \E s \in {<<h, q>>, <<q>>} :
        /\ a.env = [payloadType |-> Pepr!PayloadType, payload |-> receipt, signatures |-> s]
        /\ s = <<q>> => pqc_only
  BY <1>1 DEF Pepr!SignReceiptDualSign, Pepr!SignReceiptPqcOnly, Pepr!Envelope
<1>3. PICK s \in {<<h, q>>, <<q>>} :
        /\ a.env = [payloadType |-> Pepr!PayloadType, payload |-> receipt, signatures |-> s]
        /\ s = <<q>> => pqc_only
  BY <1>2
<1>4. a.env.payload = receipt /\ a.env.payloadType = Pepr!PayloadType /\ a.env.signatures = s
      /\ DOMAIN a.env = {"payloadType", "payload", "signatures"}
  BY <1>3
<1>5. h \in Entries /\ q \in Entries
  BY DEF Archived, KeySets, Entries, Pepr!HmacEntry, Pepr!PqcEntry, Pepr!BuildPAE, Pepr!PayloadType
<1>6. Traced(h) /\ Traced(q)
  <2>1. /\ h.alg = "hmac-sha256" /\ h.key = a.keys.hmac /\ h.covers = pae
        /\ q.alg = "ml-dsa-65" /\ q.key = a.keys.pqc /\ q.covers = pae
    BY DEF Pepr!HmacEntry, Pepr!PqcEntry
  <2> HIDE DEF h, q
  <2> QED BY <2>1, <1>4 DEF Traced
<1> HIDE DEF h, q
<1>7. s \in Seq(Entries) /\ \A i \in DOMAIN s : Traced(s[i])
  <2>1. CASE s = <<h, q>>
    <3>1. DOMAIN s = 1..2 /\ s[1] = h /\ s[2] = q
      BY <2>1
    <3> QED BY <2>1, <3>1, <1>5, <1>6
  <2>2. CASE s = <<q>>
    <3>1. DOMAIN s = 1..1 /\ s[1] = q
      BY <2>2
    <3> QED BY <2>2, <3>1, <1>5, <1>6
  <2> QED BY <2>1, <2>2
<1> QED BY <1>3, <1>4, <1>7 DEF h, q

(* Before the first receipt.                                               *)
LEMMA SigningBegins == Pepr!Init => Signing
<1> SUFFICES ASSUME Pepr!Init PROVE Signing
  OBVIOUS
<1>1. KeysRead
  BY DEF Pepr!Init, KeysRead, KeySets
<1>2. RollOut
  BY DEF Pepr!Init, RollOut
<1>3. Reading
  <2>1. read = [env |-> [payloadType |-> Pepr!PayloadType, payload |-> 0, signatures |-> <<>>],
                was |-> {}, changes |-> 0]
    BY DEF Pepr!Init, Pepr!NothingToRead, Pepr!Envelope
  <2>2. <<>> \in Seq(Entries) /\ DOMAIN <<>> = {}
    OBVIOUS
  <2>3. DOMAIN read = {"env", "was", "changes"}
    BY <2>1
  <2>4. /\ DOMAIN read.env = {"payloadType", "payload", "signatures"}
        /\ read.env.payload = 0 /\ read.env.signatures = <<>>
    BY <2>1
  <2>5. read.was = {} /\ read.changes = 0
    BY <2>1
  <2> QED BY <2>2, <2>3, <2>4, <2>5 DEF Reading
<1> QED BY <1>1, <1>2, <1>3 DEF Signing, Pepr!Init

(* A reversed sequence has the elements it had.                            *)
LEMMA ReverseKeeps ==
  ASSUME NEW S, NEW s \in Seq(S)
  PROVE  /\ Pepr!Reverse(s) \in Seq(S)
         /\ \A i \in DOMAIN Pepr!Reverse(s) : \E j \in DOMAIN s : Pepr!Reverse(s)[i] = s[j]
<1> DEFINE n == Len(s)
           r == [i \in 1..n |-> s[(n - i) + 1]]
<1>1. n \in Nat /\ DOMAIN s = 1..n /\ Pepr!Reverse(s) = r
  BY DEF Pepr!Reverse
<1>2. \A i \in 1..n : (n - i) + 1 \in 1..n
  <2> HIDE DEF n
  <2> QED BY <1>1
<1>3. \A i \in 1..n : r[i] = s[(n - i) + 1] /\ s[(n - i) + 1] \in S
  <2>1. \A j \in 1..n : s[j] \in S
    BY <1>1
  <2> HIDE DEF n
  <2> QED BY <1>1, <1>2, <2>1
<1>4. r \in Seq(S)
  <2> HIDE DEF n
  <2> QED BY <1>1, <1>3
<1>5. DOMAIN r = 1..n
  OBVIOUS
<1> HIDE DEF n, r
<1> QED BY <1>1, <1>2, <1>3, <1>4, <1>5

(* A sequence without one element has none that it did not have.           *)
LEMMA RemoveAtKeeps ==
  ASSUME NEW S, NEW s \in Seq(S), NEW k \in DOMAIN s
  PROVE  /\ Pepr!RemoveAt(s, k) \in Seq(S)
         /\ \A i \in DOMAIN Pepr!RemoveAt(s, k) :
              \E j \in DOMAIN s : Pepr!RemoveAt(s, k)[i] = s[j]
<1> DEFINE n == Len(s)
           a == SubSeq(s, 1, k - 1)
           b == SubSeq(s, k + 1, n)
<1>1. n \in Nat /\ DOMAIN s = 1..n /\ k \in 1..n /\ \A j \in 1..n : s[j] \in S
  OBVIOUS
<1>2. /\ a \in Seq(S) /\ Len(a) = k - 1
      /\ \A i \in 1..(k - 1) : a[i] = s[i]
  <2> HIDE DEF n
  <2>1. /\ a \in Seq(S) /\ Len(a) = IF 1 <= k - 1 THEN (k - 1) - 1 + 1 ELSE 0
        /\ \A i \in 1..((k - 1) - 1 + 1) : a[i] = s[1 + i - 1]
    <3> DEFINE m == k - 1
    <3>1. m \in Int /\ \A i \in 1..m : s[i] \in S
      BY <1>1
    <3> HIDE DEF m
    <3>2. /\ SubSeq(s, 1, m) \in Seq(S)
          /\ Len(SubSeq(s, 1, m)) = IF 1 <= m THEN m - 1 + 1 ELSE 0
          /\ \A i \in 1..(m - 1 + 1) : SubSeq(s, 1, m)[i] = s[1 + i - 1]
      BY <3>1, SubSeqProperties
    <3> QED BY <3>2 DEF m
  <2> HIDE DEF a
  <2> QED BY <2>1, <1>1
<1>3. /\ b \in Seq(S) /\ Len(b) = n - k
      /\ \A i \in 1..(n - k) : b[i] = s[k + i]
  <2> HIDE DEF n
  <2>1. /\ b \in Seq(S) /\ Len(b) = IF k + 1 <= n THEN n - (k + 1) + 1 ELSE 0
        /\ \A i \in 1..(n - (k + 1) + 1) : b[i] = s[(k + 1) + i - 1]
    <3>1. k + 1 \in Int /\ n \in Int /\ \A i \in (k + 1)..n : s[i] \in S
      BY <1>1
    <3> QED BY <3>1, SubSeqProperties DEF b
  <2> HIDE DEF b
  <2> QED BY <2>1, <1>1
<1> HIDE DEF a, b, n
<1>4. /\ a \o b \in Seq(S) /\ Len(a \o b) = (k - 1) + (n - k)
      /\ \A i \in 1..((k - 1) + (n - k)) :
           (a \o b)[i] = IF i <= k - 1 THEN a[i] ELSE b[i - (k - 1)]
  <2> DEFINE c == Len(a)
             d == Len(b)
  <2>1. /\ a \o b \in Seq(S) /\ Len(a \o b) = c + d
        /\ \A i \in 1..(c + d) : (a \o b)[i] = IF i <= c THEN a[i] ELSE b[i - c]
    BY <1>2, <1>3, ConcatProperties
  <2>2. c = k - 1 /\ d = n - k
    BY <1>2, <1>3
  <2> HIDE DEF c, d
  <2> QED BY <2>1, <2>2
<1>5. DOMAIN (a \o b) = 1..((k - 1) + (n - k))
  BY <1>4
<1>6. ASSUME NEW i \in DOMAIN (a \o b) PROVE \E j \in DOMAIN s : (a \o b)[i] = s[j]
  <2>1. CASE i <= k - 1
    <3>1. (a \o b)[i] = s[i] /\ i \in 1..n
      BY <2>1, <1>1, <1>2, <1>4, <1>5, <1>6
    <3> QED BY <3>1, <1>1
  <2>2. CASE i > k - 1
    <3>1. i - (k - 1) \in 1..(n - k) /\ i + 1 \in 1..n
      BY <2>2, <1>1, <1>5, <1>6
    <3>2. (a \o b)[i] = b[i - (k - 1)]
      BY <2>2, <1>1, <1>4, <1>5, <1>6
    <3>3. b[i - (k - 1)] = s[k + (i - (k - 1))] /\ k + (i - (k - 1)) = i + 1
      BY <3>1, <1>1, <1>3
    <3> QED BY <3>1, <3>2, <3>3, <1>1
  <2> QED BY <2>1, <2>2, <1>1, <1>5, <1>6
<1> QED BY <1>4, <1>6 DEF Pepr!RemoveAt, a, b, n

\* An envelope a change may leave.
WellFormed(env) ==
  /\ DOMAIN env = {"payloadType", "payload", "signatures"}
  /\ env.payload \in Int /\ env.signatures \in Seq(Entries)
  /\ \A i \in DOMAIN env.signatures : Traced(env.signatures[i])

(* A change whose entries are traced keeps the invariant.                  *)
LEMMA ChangeKeeps ==
  ASSUME Signing, NEW env, WellFormed(env),
         read' = [read EXCEPT !.env = env, !.changes = @ + 1],
         UNCHANGED <<secrets, keys, verifier, pqc_only, counter, archive>>
  PROVE  Signing'
<1>1. KeysRead' /\ RollOut' /\ counter' \in Nat
  BY DEF Signing, KeysRead, RollOut, Pepr!Parties, Pepr!Signer
<1>2. \A a \in archive' : Archived(a)'
  BY DEF Signing, Archived
<1>3. /\ DOMAIN read' = DOMAIN read /\ read'.env = env /\ read'.was = read.was
      /\ read'.changes = read.changes + 1
  BY DEF Signing, Reading
<1>4. \A e : Traced(e)' <=> Traced(e)
  BY DEF Traced
<1>5. Reading'
  BY <1>3, <1>4 DEF Signing, Reading, WellFormed
<1> QED BY <1>1, <1>2, <1>5 DEF Signing

(* Signing, rotating, loading keys, upgrading, switching, delivering and   *)
(* changing keep the invariant (governance-receipts-pqc.ts).               *)
LEMMA SigningKept == Signing /\ [Pepr!Next]_pepr_vars => Signing'
<1> SUFFICES ASSUME Signing, [Pepr!Next]_pepr_vars PROVE Signing'
  OBVIOUS
<1>1. ASSUME Pepr!SignReceipt PROVE Signing'
  <2> DEFINE receipt == counter + 1
             k == keys[Pepr!Signer]
  <2>1. PICK env : /\ env = IF pqc_only THEN Pepr!SignReceiptPqcOnly(receipt, k)
                            ELSE Pepr!SignReceiptDualSign(receipt, k)
                   /\ archive' = archive \cup {[env |-> env, keys |-> k]}
    BY <1>1 DEF Pepr!SignReceipt
  <2>2. k.pqc # 0 /\ counter' = receipt
        /\ UNCHANGED <<secrets, keys, verifier, pqc_only, read>>
    BY <1>1 DEF Pepr!SignReceipt
  <2>3. k \in KeySets /\ receipt \in Nat
    BY DEF Signing, KeysRead, Pepr!Parties
  <2> HIDE DEF receipt, k
  <2>4. Archived([env |-> env, keys |-> k])
    <3> DEFINE a == [env |-> env, keys |-> k]
    <3>1. a.env = env /\ a.keys = k
      OBVIOUS
    <3> HIDE DEF a
    <3> QED BY <3>1, <2>1, <2>2, <2>3 DEF Archived
  <2>5. \A a : Archived(a)' <=> Archived(a)
    BY <2>2 DEF Archived
  <2>6. \A e : Traced(e) => Traced(e)'
    BY <2>1 DEF Traced
  <2>7. Reading'
    BY <2>1, <2>2, <2>6 DEF Signing, Reading
  <2>8. KeysRead' /\ RollOut'
    BY <2>2 DEF Signing, KeysRead, RollOut, Pepr!Parties, Pepr!Signer
  <2> QED BY <2>1, <2>2, <2>3, <2>4, <2>5, <2>7, <2>8 DEF Signing
<1>2. ASSUME UNCHANGED <<pqc_only, archive, read, counter>>, KeysRead', RollOut' PROVE Signing'
  <2>1. \A a : Archived(a)' <=> Archived(a)
    BY <1>2 DEF Archived
  <2>2. \A e : Traced(e)' <=> Traced(e)
    BY <1>2 DEF Traced
  <2>3. Reading'
    BY <1>2, <2>2 DEF Signing, Reading
  <2> QED BY <1>2, <2>1, <2>3 DEF Signing
<1>3. ASSUME NEW name \in {"hmac", "pqc"}, Pepr!RotateSecret(name) PROVE Signing'
  <2>1. /\ secrets' = [secrets EXCEPT ![name] = @ + 1]
        /\ UNCHANGED <<keys, verifier, pqc_only, counter, archive, read>>
    BY <1>3 DEF Pepr!RotateSecret
  <2>2. secrets' \in KeySets
    BY <2>1 DEF Signing, KeysRead, KeySets
  <2>3. KeysRead' /\ RollOut'
    BY <2>1, <2>2 DEF Signing, KeysRead, RollOut, Pepr!Parties, Pepr!Signer
  <2> QED BY <2>1, <2>3, <1>2
<1>4. ASSUME NEW p \in Pepr!Parties, Pepr!LoadKeysFromEnv(p) PROVE Signing'
  <2>1. /\ keys' = [keys EXCEPT ![p] = secrets]
        /\ UNCHANGED <<secrets, verifier, pqc_only, counter, archive, read>>
    BY <1>4 DEF Pepr!LoadKeysFromEnv
  <2>2. DOMAIN keys' = Pepr!Parties /\ \A q \in Pepr!Parties : keys'[q] \in KeySets
    BY <2>1 DEF Signing, KeysRead
  <2>3. KeysRead' /\ RollOut'
    BY <2>1, <2>2 DEF Signing, KeysRead, RollOut, Pepr!Parties, Pepr!Signer
  <2> QED BY <2>1, <2>3, <1>2
<1>5. ASSUME NEW c \in Consumers, Pepr!UpgradeConsumer(c) PROVE Signing'
  <2>1. /\ verifier' = [verifier EXCEPT ![c] = "dual"]
        /\ UNCHANGED <<secrets, keys, pqc_only, counter, archive, read>>
    BY <1>5 DEF Pepr!UpgradeConsumer
  <2>2. KeysRead' /\ RollOut'
    BY <2>1 DEF Signing, KeysRead, RollOut, Pepr!Parties, Pepr!Signer
  <2> QED BY <2>1, <2>2, <1>2
<1>6. ASSUME Pepr!SwitchSigner PROVE Signing'
  <2>1. /\ \A c \in Consumers : verifier[c] = "dual"
        /\ pqc_only' = TRUE
        /\ UNCHANGED <<secrets, keys, verifier, counter, archive, read>>
    BY <1>6 DEF Pepr!SwitchSigner
  <2>2. KeysRead' /\ RollOut'
    BY <2>1 DEF Signing, KeysRead, RollOut, Pepr!Parties, Pepr!Signer
  <2>3. \A a : Archived(a) => Archived(a)'
    BY <2>1 DEF Archived
  <2>4. \A e : Traced(e)' <=> Traced(e)
    BY <2>1 DEF Traced
  <2>5. Reading'
    BY <2>1, <2>4 DEF Signing, Reading
  <2> QED BY <2>1, <2>2, <2>3, <2>5 DEF Signing
<1>7. ASSUME NEW a \in archive, Pepr!Deliver(a) PROVE Signing'
  <2>1. /\ read' = [env |-> a.env, was |-> {a}, changes |-> 0]
        /\ UNCHANGED <<secrets, keys, verifier, pqc_only, counter, archive>>
    BY <1>7 DEF Pepr!Deliver
  <2>2. /\ DOMAIN read' = {"env", "was", "changes"} /\ read'.env = a.env /\ read'.was = {a}
        /\ read'.changes = 0
    BY <2>1
  <2>3. WellFormed(a.env)
    BY ArchivedEnvelope DEF Signing, WellFormed
  <2>4. \A e : Traced(e)' <=> Traced(e)
    BY <2>1 DEF Traced
  <2>5. Reading'
    BY <2>1, <2>2, <2>3, <2>4 DEF Reading, WellFormed
  <2>6. KeysRead' /\ RollOut'
    BY <2>1 DEF Signing, KeysRead, RollOut, Pepr!Parties, Pepr!Signer
  <2>7. \A x \in archive' : Archived(x)'
    BY <2>1 DEF Signing, Archived
  <2> QED BY <2>1, <2>5, <2>6, <2>7 DEF Signing
<1>8. ASSUME NEW n \in 1..MaxSigned, Pepr!Change([read.env EXCEPT !.payload = n]) PROVE Signing'
  <2>1. PICK env : env = [read.env EXCEPT !.payload = n]
    OBVIOUS
  <2>2. /\ read' = [read EXCEPT !.env = env, !.changes = @ + 1]
        /\ UNCHANGED <<secrets, keys, verifier, pqc_only, counter, archive>>
    BY <1>8, <2>1 DEF Pepr!Change
  <2>3. DOMAIN env = DOMAIN read.env /\ env.payload = n /\ env.signatures = read.env.signatures
    BY <2>1 DEF Signing, Reading
  <2>4. WellFormed(env)
    BY <2>3 DEF WellFormed, Signing, Reading
  <2> QED BY <2>2, <2>4, ChangeKeeps
<1>9. ASSUME NEW s \in Seq(Entries), \A i \in DOMAIN s : Traced(s[i]),
             read' = [read EXCEPT !.env = [read.env EXCEPT !.signatures = s], !.changes = @ + 1],
             UNCHANGED <<secrets, keys, verifier, pqc_only, counter, archive>>
      PROVE  Signing'
  <2>1. PICK env : env = [read.env EXCEPT !.signatures = s]
    OBVIOUS
  <2>2. read' = [read EXCEPT !.env = env, !.changes = @ + 1]
    BY <1>9, <2>1
  <2>3. DOMAIN env = DOMAIN read.env /\ env.payload = read.env.payload /\ env.signatures = s
    BY <2>1 DEF Signing, Reading
  <2>4. WellFormed(env)
    BY <2>3, <1>9 DEF WellFormed, Signing, Reading
  <2> QED BY <1>9, <2>2, <2>4, ChangeKeeps
<1> DEFINE old == read.env.signatures
<1>10. old \in Seq(Entries) /\ \A i \in DOMAIN old : Traced(old[i])
  BY DEF Signing, Reading
<1>11. ASSUME NEW i \in DOMAIN old,
              Pepr!Change([read.env EXCEPT !.signatures = Pepr!RemoveAt(@, i)])
       PROVE  Signing'
  <2>1. PICK s : s = Pepr!RemoveAt(old, i)
    OBVIOUS
  <2>2. /\ read' = [read EXCEPT !.env = [read.env EXCEPT !.signatures = s], !.changes = @ + 1]
        /\ UNCHANGED <<secrets, keys, verifier, pqc_only, counter, archive>>
    BY <1>11, <2>1 DEF Pepr!Change
  <2> HIDE DEF old
  <2>3. s \in Seq(Entries) /\ \A j \in DOMAIN s : \E l \in DOMAIN old : s[j] = old[l]
    BY <2>1, <1>10, <1>11, RemoveAtKeeps
  <2> QED BY <1>9, <1>10, <2>2, <2>3
<1>12. ASSUME Pepr!Change([read.env EXCEPT !.signatures = Pepr!Reverse(@)]) PROVE Signing'
  <2>1. PICK s : s = Pepr!Reverse(old)
    OBVIOUS
  <2>2. /\ read' = [read EXCEPT !.env = [read.env EXCEPT !.signatures = s], !.changes = @ + 1]
        /\ UNCHANGED <<secrets, keys, verifier, pqc_only, counter, archive>>
    BY <1>12, <2>1 DEF Pepr!Change
  <2> HIDE DEF old
  <2>3. s \in Seq(Entries) /\ \A j \in DOMAIN s : \E l \in DOMAIN old : s[j] = old[l]
    BY <2>1, <1>10, ReverseKeeps
  <2> QED BY <1>9, <1>10, <2>2, <2>3
<1>13. ASSUME NEW e \in Pepr!OtherEntries,
              Pepr!Change([read.env EXCEPT !.signatures = Append(@, e)])
       PROVE  Signing'
  <2>1. PICK s : s = Append(old, e)
    OBVIOUS
  <2>2. /\ read' = [read EXCEPT !.env = [read.env EXCEPT !.signatures = s], !.changes = @ + 1]
        /\ UNCHANGED <<secrets, keys, verifier, pqc_only, counter, archive>>
    BY <1>13, <2>1 DEF Pepr!Change
  <2>3. e \in Entries /\ Traced(e)
    <3>1. CASE e = Pepr!HmacEntry(Pepr!OrganKey, Pepr!BuildPAE(Pepr!PayloadType, read.env.payload))
      BY <3>1 DEF Pepr!HmacEntry, Pepr!OrganKey, Pepr!BuildPAE, Pepr!PayloadType, Entries, Traced,
                  Signing, Reading
    <3>2. CASE \E a \in archive : e \in Pepr!ToSet(a.env.signatures)
      <4>1. PICK a \in archive : e \in Pepr!ToSet(a.env.signatures)
        BY <3>2
      <4>2. PICK i \in DOMAIN a.env.signatures : e = a.env.signatures[i]
        BY <4>1 DEF Pepr!ToSet
      <4>3. a.env.signatures \in Seq(Entries) /\ Traced(a.env.signatures[i])
        BY <4>2, ArchivedEnvelope DEF Signing
      <4> QED BY <4>2, <4>3
    <3> QED BY <3>1, <3>2 DEF Pepr!OtherEntries
  <2> HIDE DEF old
  <2>4. s \in Seq(Entries) /\ \A j \in DOMAIN s : s[j] = e \/ \E l \in DOMAIN old : s[j] = old[l]
    <3>1. s \in Seq(Entries) /\ Len(s) = Len(old) + 1 /\ s[Len(old) + 1] = e
          /\ \A j \in 1..Len(old) : s[j] = old[j]
      BY <2>1, <2>3, <1>10, AppendProperties
    <3>2. Len(old) \in Nat /\ DOMAIN old = 1..Len(old)
      BY <1>10
    <3> DEFINE n == Len(old)
    <3>3. DOMAIN s = 1..(n + 1)
      BY <3>1, <3>2
    <3>4. n \in Nat /\ DOMAIN old = 1..n /\ s[n + 1] = e /\ \A j \in 1..n : s[j] = old[j]
      BY <3>1, <3>2
    <3> HIDE DEF n
    <3>5. ASSUME NEW j \in 1..(n + 1) PROVE s[j] = e \/ \E l \in DOMAIN old : s[j] = old[l]
      <4>1. CASE j = n + 1
        BY <4>1, <3>4
      <4>2. CASE j # n + 1
        <5>1. j \in 1..n
          BY <4>2, <3>4, <3>5
        <5> QED BY <5>1, <3>4
      <4> QED BY <4>1, <4>2
    <3> QED BY <3>1, <3>3, <3>5
  <2> QED BY <1>9, <1>10, <2>2, <2>3, <2>4
<1>14. ASSUME Pepr!Next PROVE Signing'
  <2>1. CASE \E p \in Pepr!Parties : Pepr!LoadKeysFromEnv(p)
    BY <2>1, <1>4
  <2>2. CASE \E i \in DOMAIN read.env.signatures :
               Pepr!Change([read.env EXCEPT !.signatures = Pepr!RemoveAt(@, i)])
    BY <2>2, <1>11
  <2>3. CASE \E n \in 1..MaxSigned : Pepr!Change([read.env EXCEPT !.payload = n])
    BY <2>3, <1>8
  <2>4. CASE Pepr!Change([read.env EXCEPT !.signatures = Pepr!Reverse(@)])
    BY <2>4, <1>12
  <2>5. CASE \E s \in Pepr!OtherEntries :
               Pepr!Change([read.env EXCEPT !.signatures = Append(@, s)])
    BY <2>5, <1>13
  <2> QED BY <1>1, <1>3, <1>5, <1>6, <1>7, <1>14, <2>1, <2>2, <2>3, <2>4, <2>5 DEF Pepr!Next
<1>15. ASSUME UNCHANGED pepr_vars PROVE Signing'
  <2>1. UNCHANGED <<secrets, keys, verifier, pqc_only, counter, archive, read>>
    BY <1>15 DEF pepr_vars
  <2>2. KeysRead' /\ RollOut'
    BY <2>1 DEF Signing, KeysRead, RollOut, Pepr!Parties, Pepr!Signer
  <2> QED BY <2>1, <2>2, <1>2
<1> QED BY <1>14, <1>15

(* Entries of one algorithm are equal if their keys and what they cover    *)
(* are.                                                                    *)
LEMMA EntriesDiffer ==
  ASSUME NEW k, NEW l, NEW c, NEW d
  PROVE  /\ Pepr!HmacEntry(k, c) = Pepr!HmacEntry(l, d) <=> k = l /\ c = d
         /\ Pepr!PqcEntry(k, c) = Pepr!PqcEntry(l, d) <=> k = l /\ c = d
         /\ Pepr!HmacEntry(k, c).alg = "hmac-sha256" /\ Pepr!PqcEntry(k, c).alg = "ml-dsa-65"
         /\ Pepr!HmacEntry(k, c).key = k /\ Pepr!PqcEntry(k, c).key = k
         /\ Pepr!HmacEntry(k, c).covers = c /\ Pepr!PqcEntry(k, c).covers = c
<1> DEFINE a == Pepr!HmacEntry(k, c)
           b == Pepr!HmacEntry(l, d)
           x == Pepr!PqcEntry(k, c)
           y == Pepr!PqcEntry(l, d)
<1>1. a.alg = "hmac-sha256" /\ a.key = k /\ a.covers = c /\ b.key = l /\ b.covers = d
  BY DEF Pepr!HmacEntry
<1>2. x.alg = "ml-dsa-65" /\ x.key = k /\ x.covers = c /\ y.key = l /\ y.covers = d
  BY DEF Pepr!PqcEntry
<1>3. (k = l /\ c = d => a = b) /\ (k = l /\ c = d => x = y)
  OBVIOUS
<1> HIDE DEF a, b, x, y
<1>4. (a = b => k = l /\ c = d) /\ (x = y => k = l /\ c = d)
  BY <1>1, <1>2
<1>5. (a = b <=> k = l /\ c = d) /\ (x = y <=> k = l /\ c = d)
  BY <1>3, <1>4
<1> QED BY <1>1, <1>2, <1>5 DEF a, b, x, y

(* An untouched envelope has exactly the entries its signer made.          *)
LEMMA GenuineShows == Signing => GenuineIsAccepted
<1> SUFFICES ASSUME Signing, NEW a \in read.was, NEW c \in Consumers, read.changes = 0
             PROVE  IF verifier[c] = "legacy"
                    THEN Pepr!VerifyReceiptLegacy(read.env, keys[c]) <=> keys[c].hmac = a.keys.hmac
                    ELSE Pepr!VerifyReceiptDualSign(read.env, keys[c]).pqcValid
                           <=> keys[c].pqc = a.keys.pqc
  BY DEF GenuineIsAccepted, Pepr!GenuineIsAccepted
<1> DEFINE env == a.env
           pae == Pepr!BuildPAE(Pepr!PayloadType, env.payload)
           h == Pepr!HmacEntry(a.keys.hmac, pae)
           q == Pepr!PqcEntry(a.keys.pqc, pae)
           k == keys[c]
           s == env.signatures
<1>1. read.env = env /\ Archived(a) /\ a \in archive /\ a.keys.pqc # 0
  BY DEF Signing, Reading, Archived
<1>2. /\ env.payloadType = Pepr!PayloadType
      /\ s = <<h, q>> \/ (pqc_only /\ s = <<q>>)
  BY <1>1, ArchivedEnvelope
<1>3. h.alg = "hmac-sha256" /\ q.alg = "ml-dsa-65"
  BY EntriesDiffer
<1>4. /\ \A i : Pepr!VerifyHmac(pae, i, k.hmac) <=> i = Pepr!HmacEntry(k.hmac, pae)
      /\ \A i : Pepr!VerifyMlDsa65(pae, i, k.pqc) <=> i = Pepr!PqcEntry(k.pqc, pae) /\ k.pqc # 0
  BY DEF Pepr!VerifyHmac, Pepr!VerifyMlDsa65
<1>5. /\ h = Pepr!HmacEntry(k.hmac, pae) <=> k.hmac = a.keys.hmac
      /\ q = Pepr!PqcEntry(k.pqc, pae) <=> k.pqc = a.keys.pqc
  BY EntriesDiffer
<1>6. pae = Pepr!BuildPAE(env.payloadType, env.payload)
  BY <1>2
<1>7. Pepr!VerifyReceiptLegacy(env, k) <=>
        \E i \in Pepr!OfAlg(env, "hmac-sha256") :
          /\ \A j \in Pepr!OfAlg(env, "hmac-sha256") : i <= j
          /\ Pepr!VerifyHmac(pae, s[i], k.hmac)
  BY <1>6 DEF Pepr!VerifyReceiptLegacy
<1>8. Pepr!VerifyReceiptDualSign(env, k).pqcValid <=>
        \E i \in Pepr!OfAlg(env, "ml-dsa-65") :
          /\ \A j \in Pepr!OfAlg(env, "ml-dsa-65") : j <= i
          /\ Pepr!VerifyMlDsa65(pae, s[i], k.pqc)
  BY <1>6 DEF Pepr!VerifyReceiptDualSign
<1>9. \A alg : Pepr!OfAlg(env, alg) = {i \in DOMAIN s : s[i].alg = alg}
  BY DEF Pepr!OfAlg
<1>10. verifier[c] = "legacy" => ~pqc_only
  BY DEF Signing, RollOut
<1> HIDE DEF env, pae, h, q, k, s
<1>11. CASE s = <<h, q>>
  <2>1. DOMAIN s = {1, 2} /\ s[1] = h /\ s[2] = q
    BY <1>11
  <2>2. Pepr!OfAlg(env, "hmac-sha256") = {1} /\ Pepr!OfAlg(env, "ml-dsa-65") = {2}
    BY <2>1, <1>3, <1>9
  <2>3. Pepr!VerifyReceiptLegacy(env, k) <=> k.hmac = a.keys.hmac
    BY <2>1, <2>2, <1>4, <1>5, <1>7
  <2>4. Pepr!VerifyReceiptDualSign(env, k).pqcValid <=> k.pqc = a.keys.pqc
    BY <2>1, <2>2, <1>1, <1>4, <1>5, <1>8
  <2> QED BY <2>3, <2>4, <1>1 DEF k
<1>12. CASE pqc_only /\ s = <<q>>
  <2>1. DOMAIN s = {1} /\ s[1] = q
    BY <1>12
  <2>2. Pepr!OfAlg(env, "ml-dsa-65") = {1}
    BY <2>1, <1>3, <1>9
  <2>3. Pepr!VerifyReceiptDualSign(env, k).pqcValid <=> k.pqc = a.keys.pqc
    BY <2>1, <2>2, <1>1, <1>4, <1>5, <1>8
  <2> QED BY <2>3, <1>1, <1>10, <1>12 DEF k
<1> QED BY <1>2, <1>11, <1>12

(* What verifies is traced to an archived receipt; one HMAC entry is first *)
(* and last at once.                                                       *)
LEMMA AgreementShows == Signing => VerifiersAgree
<1> SUFFICES ASSUME Signing, NEW c \in Consumers
             PROVE  LET dual   == Pepr!VerifyReceiptDualSign(read.env, keys[c])
                        legacy == Pepr!VerifyReceiptLegacy(read.env, keys[c])
                    IN  /\ dual.algorithms # {} =>
                             \E a \in archive :
                               /\ a.env.payload = read.env.payload
                               /\ a.keys.hmac = keys[c].hmac \/ a.keys.pqc = keys[c].pqc
                        /\ dual.hmacValid \/ legacy => "hmac-sha256" \in dual.algorithms
                        /\ (\A i, j \in Pepr!Hmacs : i = j) =>
                             (legacy <=> dual.hmacValid)
                               /\ (legacy <=> "hmac-sha256" \in dual.algorithms)
  BY DEF VerifiersAgree, Pepr!VerifiersAgree
<1> DEFINE env == read.env
           s == env.signatures
           k == keys[c]
           pae == Pepr!BuildPAE(env.payloadType, env.payload)
           dual == Pepr!VerifyReceiptDualSign(env, k)
           legacy == Pepr!VerifyReceiptLegacy(env, k)
           hmacs == Pepr!Hmacs
           Hmac(i) == Pepr!VerifyHmac(pae, s[i], k.hmac)
           Pqc(i) == Pepr!VerifyMlDsa65(pae, s[i], k.pqc)
           hmac == Pepr!HmacEntry(k.hmac, pae)
           pqc == Pepr!PqcEntry(k.pqc, pae)
<1>1. hmacs = {i \in DOMAIN s : s[i].alg = "hmac-sha256"}
  BY DEF Pepr!Hmacs, Pepr!OfAlg
<1>2. legacy <=> \E i \in hmacs : (\A j \in hmacs : i <= j) /\ Hmac(i)
  BY DEF Pepr!VerifyReceiptLegacy, Pepr!Hmacs
<1>3. dual.hmacValid <=> \E i \in hmacs : (\A j \in hmacs : j <= i) /\ Hmac(i)
  BY DEF Pepr!VerifyReceiptDualSign, Pepr!Hmacs
<1>4. dual.algorithms = {e.alg : e \in {e \in Pepr!ToSet(s) :
                           Pepr!VerifyHmac(pae, e, k.hmac) \/ Pepr!VerifyMlDsa65(pae, e, k.pqc)}}
  BY DEF Pepr!VerifyReceiptDualSign
<1>5. Pepr!ToSet(s) = {s[i] : i \in DOMAIN s}
  BY DEF Pepr!ToSet
<1>6. \A i : (Hmac(i) <=> s[i] = hmac) /\ (Pqc(i) => s[i] = pqc)
  BY DEF Pepr!VerifyHmac, Pepr!VerifyMlDsa65
<1>7. /\ hmac.alg = "hmac-sha256" /\ hmac.key = k.hmac /\ hmac.covers = pae
      /\ pqc.alg = "ml-dsa-65" /\ pqc.key = k.pqc /\ pqc.covers = pae
  BY EntriesDiffer
<1>8. s \in Seq(Entries) /\ \A i \in DOMAIN s : Traced(s[i])
  BY DEF Signing, Reading
<1>9. k.hmac # Pepr!OrganKey
  BY DEF Signing, KeysRead, KeySets, Pepr!OrganKey, Pepr!Parties
<1>10. \A alg : alg \in dual.algorithms <=> \E i \in DOMAIN s : s[i].alg = alg /\ (Hmac(i) \/ Pqc(i))
  <2> HIDE DEF s, k, pae, dual
  <2> QED BY <1>4, <1>5
<1> HIDE DEF Hmac, Pqc
<1>11. "hmac-sha256" \in dual.algorithms <=> \E i \in hmacs : Hmac(i)
  <2> HIDE DEF s, hmacs, dual, hmac, pqc
  <2> QED BY <1>1, <1>6, <1>7, <1>10
<1>12. dual.hmacValid \/ legacy => "hmac-sha256" \in dual.algorithms
  BY <1>2, <1>3, <1>11
<1>13. ASSUME \A i, j \in hmacs : i = j
       PROVE  (legacy <=> dual.hmacValid) /\ (legacy <=> "hmac-sha256" \in dual.algorithms)
  <2>1. \A i \in hmacs : i <= i
    BY <1>1, <1>8
  <2> HIDE DEF hmacs, legacy, dual
  <2>2. \A i \in hmacs : (\A j \in hmacs : i <= j) /\ (\A j \in hmacs : j <= i)
    BY <1>13, <2>1
  <2> QED BY <1>2, <1>3, <1>11, <2>2
<1>14. ASSUME dual.algorithms # {}
       PROVE  \E a \in archive : /\ a.env.payload = env.payload
                                 /\ a.keys.hmac = k.hmac \/ a.keys.pqc = k.pqc
  <2>1. PICK i \in DOMAIN s : Hmac(i) \/ Pqc(i)
    BY <1>10, <1>14
  <2>2. s[i].covers = pae /\ (\/ s[i].alg = "hmac-sha256" /\ s[i].key = k.hmac
                              \/ s[i].alg = "ml-dsa-65" /\ s[i].key = k.pqc)
    BY <2>1, <1>6, <1>7
  <2>3. PICK a \in archive :
          /\ s[i].covers = Pepr!BuildPAE(Pepr!PayloadType, a.env.payload)
          /\ \/ s[i].alg = "hmac-sha256" /\ s[i].key = a.keys.hmac
             \/ s[i].alg = "ml-dsa-65" /\ s[i].key = a.keys.pqc
    BY <2>2, <1>8, <1>9 DEF Traced
  <2>4. a.env.payload = env.payload
    BY <2>2, <2>3 DEF Pepr!BuildPAE
  <2> QED BY <2>2, <2>3, <2>4
<1> QED BY <1>12, <1>13, <1>14
----------------------------------------------------------------------------
(* WelfordStats                                                            *)

\* h holds the running sums of the first n of the values v.
SumsOf(h, v, n) ==
  /\ h \in [0..n -> Int]
  /\ \A i \in 0..n : h[i] = IF i = 0 THEN 0 ELSE h[i - 1] + v[i]

Running(v, n) ==
  LET sum[i \in 0..n] == IF i = 0 THEN 0 ELSE sum[i - 1] + v[i]
  IN  sum

Integral(v, n) == \A i \in 1..n : v[i] \in Int

(* The recursion has a solution, so the function it defines is one.        *)
LEMMA RunningSums ==
  ASSUME NEW v, NEW n \in Nat, Integral(v, n)
  PROVE  SumsOf(Running(v, n), v, n)
<1> DEFINE T == {m \in Nat : m <= n => \E h : SumsOf(h, v, m)}
<1>1. 0 \in T
  <2>1. SumsOf([i \in 0..0 |-> 0], v, 0)
    BY DEF SumsOf
  <2> QED BY <2>1
<1>2. ASSUME NEW m \in Nat, m \in T PROVE m + 1 \in T
  <2> SUFFICES ASSUME m + 1 <= n PROVE \E h : SumsOf(h, v, m + 1)
    OBVIOUS
  <2>1. PICK f : SumsOf(f, v, m)
    BY <1>2
  <2> DEFINE g == [i \in 0..(m + 1) |-> IF i = m + 1 THEN f[m] + v[m + 1] ELSE f[i]]
  <2>2. v[m + 1] \in Int
    BY DEF Integral
  <2>3. f \in [0..m -> Int]
    BY <2>1 DEF SumsOf
  <2>4. g \in [0..(m + 1) -> Int]
    BY <2>2, <2>3
  <2>5. ASSUME NEW i \in 0..(m + 1) PROVE g[i] = IF i = 0 THEN 0 ELSE g[i - 1] + v[i]
    <3>1. CASE i = m + 1
      <4>1. i # 0 /\ i - 1 = m /\ m \in 0..(m + 1) /\ m # m + 1
        BY <3>1
      <4>2. g[i] = f[m] + v[i] /\ g[i - 1] = f[m]
        BY <3>1, <4>1
      <4> QED BY <4>1, <4>2
    <3>2. CASE i # m + 1
      <4>1. i \in 0..m /\ (i # 0 => i - 1 \in 0..m)
        BY <3>2
      <4>2. g[i] = f[i] /\ (i # 0 => g[i - 1] = f[i - 1])
        BY <3>2, <4>1
      <4>3. f[i] = IF i = 0 THEN 0 ELSE f[i - 1] + v[i]
        BY <2>1, <4>1 DEF SumsOf
      <4> QED BY <4>2, <4>3
    <3> QED BY <3>1, <3>2
  <2> HIDE DEF g
  <2>6. SumsOf(g, v, m + 1)
    BY <2>4, <2>5 DEF SumsOf
  <2> QED BY <2>6
<1>3. n \in T
  <2> HIDE DEF T
  <2> QED BY <1>1, <1>2, NatSetInduction
<1>4. PICK f : SumsOf(f, v, n)
  BY <1>3
<1> DEFINE D(h) == h = [i \in 0..n |-> IF i = 0 THEN 0 ELSE h[i - 1] + v[i]]
<1>5. D(f) /\ Running(v, n) = CHOOSE h : D(h)
  BY <1>4 DEF Running, SumsOf
<1>6. D(Running(v, n))
  BY <1>5
<1> DEFINE r == Running(v, n)
<1>7. \A i \in 0..n : r[i] = IF i = 0 THEN 0 ELSE r[i - 1] + v[i]
  BY <1>6
<1>8. r = [i \in 0..n |-> r[i]]
  BY <1>6
<1> HIDE DEF D, r
<1> DEFINE N == {m \in Nat : m <= n => r[m] \in Int}
<1>9. 0 \in N
  BY <1>7
<1>10. ASSUME NEW m \in Nat, m \in N PROVE m + 1 \in N
  <2> SUFFICES ASSUME m + 1 <= n PROVE r[m + 1] \in Int
    OBVIOUS
  <2>1. m + 1 \in 0..n /\ m + 1 \in 1..n /\ m + 1 # 0 /\ (m + 1) - 1 = m
    OBVIOUS
  <2>2. r[m + 1] = r[m] + v[m + 1]
    BY <1>7, <2>1
  <2> QED BY <1>10, <2>1, <2>2 DEF Integral
<1>11. Nat \subseteq N
  <2> HIDE DEF N
  <2> QED BY <1>9, <1>10, NatSetInduction
<1>12. r \in [0..n -> Int]
  BY <1>8, <1>11
<1> QED BY <1>7, <1>12 DEF SumsOf, r

(* Running sums depend on no values but those summed.                      *)
LEMMA SumsAgree ==
  ASSUME NEW k \in Nat, NEW v, NEW w, NEW m \in Nat, NEW n \in Nat, NEW f, NEW g,
         SumsOf(f, v, m), SumsOf(g, w, n), k <= m, k <= n, \A i \in 1..k : v[i] = w[i]
  PROVE  f[k] = g[k]
<1> DEFINE T == {j \in Nat : j <= k => f[j] = g[j]}
<1>1. 0 \in T
  BY DEF SumsOf
<1>2. ASSUME NEW j \in Nat, j \in T PROVE j + 1 \in T
  <2> SUFFICES ASSUME j + 1 <= k PROVE f[j + 1] = g[j + 1]
    OBVIOUS
  <2>1. j + 1 \in 0..m /\ j + 1 \in 0..n /\ j + 1 # 0 /\ (j + 1) - 1 = j /\ j + 1 \in 1..k
    OBVIOUS
  <2>2. f[j + 1] = f[j] + v[j + 1] /\ g[j + 1] = g[j] + w[j + 1]
    BY <2>1 DEF SumsOf
  <2> QED BY <1>2, <2>1, <2>2
<1>3. k \in T
  <2> HIDE DEF T
  <2> QED BY <1>1, <1>2, NatSetInduction
<1> QED BY <1>3

(* Total goes by its recursion.                                            *)
LEMMA TotalUnfold ==
  ASSUME NEW v, NEW n \in Nat, Integral(v, n)
  PROVE  /\ Stats!Total(v, n) \in Int
         /\ n = 0 => Stats!Total(v, n) = 0
         /\ n > 0 => Stats!Total(v, n) = Stats!Total(v, n - 1) + v[n]
<1>1. \A k : Stats!Total(v, k) = Running(v, k)[k]
  BY DEF Stats!Total, Running
<1>2. SumsOf(Running(v, n), v, n)
  BY RunningSums
<1>3. Running(v, n)[n] \in Int /\ (n = 0 => Running(v, n)[n] = 0)
      /\ (n > 0 => Running(v, n)[n] = Running(v, n)[n - 1] + v[n])
  BY <1>2 DEF SumsOf
<1>4. ASSUME n > 0 PROVE Running(v, n)[n - 1] = Running(v, n - 1)[n - 1]
  <2>1. n - 1 \in Nat /\ n - 1 <= n /\ n - 1 <= n - 1 /\ Integral(v, n - 1)
    BY <1>4 DEF Integral
  <2>2. SumsOf(Running(v, n - 1), v, n - 1)
    BY <2>1, RunningSums
  <2> QED BY <1>2, <2>1, <2>2, SumsAgree
<1> QED BY <1>1, <1>3, <1>4

(* Totals of the same first n values are the same.                         *)
LEMMA TotalAgree ==
  ASSUME NEW v, NEW w, NEW n \in Nat, Integral(v, n), \A i \in 1..n : v[i] = w[i]
  PROVE  Stats!Total(v, n) = Stats!Total(w, n)
<1>1. Integral(w, n)
  BY DEF Integral
<1>2. SumsOf(Running(v, n), v, n) /\ SumsOf(Running(w, n), w, n)
  BY <1>1, RunningSums
<1>3. Running(v, n)[n] = Running(w, n)[n]
  BY <1>2, SumsAgree
<1> QED BY <1>3 DEF Stats!Total, Running

(* A multiple is divided exactly.                                          *)
LEMMA DivExact ==
  ASSUME NEW n \in Nat \ {0}, NEW z \in Int
  PROVE  (n * z) \div n = z
OBVIOUS

(* One more squared deviation, multiplied out.                             *)
LEMMA ExpandStep ==
  ASSUME NEW s \in Int, NEW m \in Int, NEW x \in Int, NEW k \in Int,
         NEW a \in Int, NEW q \in Int, NEW t \in Int,
         a = s * s * q - 2 * m * s * t + k * m * m
  PROVE  a + (s * x - m) * (s * x - m)
           = s * s * (q + x * x) - 2 * m * s * (t + x) + (k + 1) * m * m
OBVIOUS

\* One step of m2: with b the old sum, m and w the old and the new mean.
SquaresFact(s, n, q, x, m, w, b) ==
  n * w = (n - 1) * m + s * x /\ b = s * s * q - (n - 1) * m * m =>
    b + (s * x - m) * (s * x - w) = s * s * (q + x * x) - n * w * w

(* Welford's step for the sum of squares is an identity                    *)
(* (StreamingStats.update).                                                *)
LEMMA SquaresStep ==
  ASSUME NEW s \in Int, NEW n \in Int, NEW q \in Int, NEW x \in Int, NEW m \in Int,
         NEW w \in Int, NEW b \in Int
  PROVE  SquaresFact(s, n, q, x, m, w, b)
BY DEF SquaresFact

Squared(v, n) == [i \in 1..n |-> v[i] * v[i]]

Deviations(v, s, m, n) == [i \in 1..n |-> (s * v[i] - m) * (s * v[i] - m)]

(* The sum of the squared deviations from m, multiplied out.               *)
LEMMA DeviationsExpand ==
  ASSUME NEW v, NEW n \in Nat, Integral(v, n), NEW s \in Int, NEW m \in Int
  PROVE  Stats!Total(Deviations(v, s, m, n), n)
           = s * s * Stats!Total(Squared(v, n), n) - 2 * m * s * Stats!Total(v, n) + n * m * m
<1> DEFINE d == Deviations(v, s, m, n)
           w == Squared(v, n)
           A(k) == Stats!Total(d, k)
           Q(k) == Stats!Total(w, k)
           T(k) == Stats!Total(v, k)
           N == {k \in Nat : k <= n => A(k) = s * s * Q(k) - 2 * m * s * T(k) + k * m * m}
<1>1. \A i \in 1..n : /\ v[i] \in Int /\ v[i] * v[i] \in Int
                      /\ (s * v[i] - m) * (s * v[i] - m) \in Int
                      /\ d[i] = (s * v[i] - m) * (s * v[i] - m)
                      /\ w[i] = v[i] * v[i]
  BY DEF Integral, Deviations, Squared
<1>2. \A k \in 0..n : Integral(d, k) /\ Integral(w, k) /\ Integral(v, k)
  <2> HIDE DEF d, w
  <2> QED BY <1>1 DEF Integral
<1> HIDE DEF d, w
<1>3. \A k \in 0..n :
        /\ A(k) \in Int /\ Q(k) \in Int /\ T(k) \in Int
        /\ k = 0 => A(k) = 0 /\ Q(k) = 0 /\ T(k) = 0
        /\ k > 0 => A(k) = A(k - 1) + d[k] /\ Q(k) = Q(k - 1) + w[k] /\ T(k) = T(k - 1) + v[k]
  <2> TAKE k \in 0..n
  <2>1. k \in Nat /\ Integral(d, k) /\ Integral(w, k) /\ Integral(v, k)
    BY <1>2
  <2> QED BY <2>1, TotalUnfold
<1> HIDE DEF A, Q, T
<1>4. 0 \in N
  <2>1. A(0) = 0 /\ Q(0) = 0 /\ T(0) = 0
    BY <1>3
  <2> QED BY <2>1
<1>5. ASSUME NEW k \in Nat, k \in N PROVE k + 1 \in N
  <2> DEFINE l == k + 1
  <2> SUFFICES ASSUME l <= n PROVE A(l) = s * s * Q(l) - 2 * m * s * T(l) + l * m * m
    OBVIOUS
  <2>1. k \in 0..n /\ l \in 0..n /\ l > 0 /\ l - 1 = k /\ l \in 1..n
    OBVIOUS
  <2>2. A(k) \in Int /\ Q(k) \in Int /\ T(k) \in Int /\ v[l] \in Int
    BY <1>1, <1>3, <2>1
  <2>3. A(k) = s * s * Q(k) - 2 * m * s * T(k) + k * m * m
    BY <1>5, <2>1
  <2>4. /\ A(l) = A(k) + (s * v[l] - m) * (s * v[l] - m)
        /\ Q(l) = Q(k) + v[l] * v[l]
        /\ T(l) = T(k) + v[l]
    BY <1>1, <1>3, <2>1
  <2>5. A(k) + (s * v[l] - m) * (s * v[l] - m)
          = s * s * (Q(k) + v[l] * v[l]) - 2 * m * s * (T(k) + v[l]) + (k + 1) * m * m
    BY <2>2, <2>3, ExpandStep
  <2> QED BY <2>4, <2>5
<1>6. n \in N
  <2> HIDE DEF N
  <2> QED BY <1>4, <1>5, NatSetInduction
<1> QED BY <1>6 DEF A, Q, T, d, w

\* The accumulator against the stream, free of divisions.
Exact ==
  /\ observed \in Seq(Latencies) /\ count = Len(observed) /\ count <= MaxCount
  /\ mean \in Int /\ m2 \in Int
  /\ count * mean = Scale * Stats!Total(observed, count)
  /\ m2 = Scale * Scale * Stats!Total(Squared(observed, count), count) - count * mean * mean
  /\ count = 0 => mean = 0

Flagged(n) == Stats!Anomalous(Scale * observed[n] - Stats!MeanOf(n - 1), n - 1,
                              Stats!SquaresOf(n - 1))

Streaming == Exact /\ anomalies = {i \in 2..count : Flagged(i)}

(* So mean and m2 are what the two passes give.                            *)
LEMMA TwoPasses ==
  ASSUME Stats!StatsAssumption, Exact, count > 0
  PROVE  mean = Stats!MeanOf(count) /\ m2 = Stats!SquaresOf(count)
<1> DEFINE t == Stats!Total(observed, count)
           q == Stats!Total(Squared(observed, count), count)
<1>1. count \in Nat \ {0} /\ Integral(observed, count)
  <2>1. Latencies \subseteq Nat
    BY DEF Stats!StatsAssumption
  <2>2. count \in Nat /\ \A i \in 1..count : observed[i] \in Latencies
    BY DEF Exact
  <2>3. ASSUME NEW i \in 1..count PROVE observed[i] \in Int
    <3>1. observed[i] \in Latencies
      BY <2>2
    <3>2. observed[i] \in Nat
      BY <2>1, <3>1
    <3> QED BY <3>2
  <2> QED BY <2>2, <2>3 DEF Integral
<1>2. mean \in Int /\ count * mean = Scale * t
      /\ m2 = Scale * Scale * q - count * mean * mean
  BY DEF Exact
<1>3. Scale \in Int
  BY DEF Stats!StatsAssumption
<1>4. t \in Int /\ q \in Int
  <2>1. Integral(Squared(observed, count), count)
    BY <1>1 DEF Integral, Squared
  <2> QED BY <1>1, <2>1, TotalUnfold
<1>5. mean = Stats!MeanOf(count)
  <2>1. (count * mean) \div count = mean
    BY <1>1, <1>2, DivExact
  <2> QED BY <2>1, <1>2 DEF Stats!MeanOf
<1>6. Stats!SquaresOf(count) = Stats!Total(Deviations(observed, Scale, mean, count), count)
  BY <1>5 DEF Stats!SquaresOf, Deviations
<1>7. Stats!SquaresOf(count) = Scale * Scale * q - 2 * mean * Scale * t + count * mean * mean
  BY <1>1, <1>2, <1>3, <1>6, DeviationsExpand
<1> HIDE DEF t, q
<1>8. 2 * mean * Scale * t = 2 * count * mean * mean
  <2>1. 2 * mean * (Scale * t) = 2 * mean * (count * mean)
    BY <1>2
  <2> QED BY <2>1, <1>1, <1>2, <1>3, <1>4
<1>9. m2 = Stats!SquaresOf(count)
  BY <1>1, <1>2, <1>3, <1>4, <1>7, <1>8
<1> QED BY <1>5, <1>9

(* Of an empty stream all sums are 0.                                      *)
LEMMA StreamingBegins == Stats!StatsAssumption /\ Stats!Init => Streaming
<1> SUFFICES ASSUME Stats!StatsAssumption, Stats!Init PROVE Streaming
  OBVIOUS
<1>1. count = 0 /\ mean = 0 /\ m2 = 0 /\ anomalies = {} /\ observed = <<>>
  BY DEF Stats!Init
<1>2. Integral(observed, 0) /\ Integral(Squared(observed, 0), 0)
  BY DEF Integral
<1>3. Stats!Total(observed, 0) = 0 /\ Stats!Total(Squared(observed, 0), 0) = 0
  BY <1>2, TotalUnfold
<1>4. Scale \in Int /\ MaxCount \in Nat
  BY DEF Stats!StatsAssumption
<1>5. Exact
  BY <1>1, <1>3, <1>4 DEF Exact
<1> QED BY <1>1, <1>5 DEF Streaming

(* An observation updates mean and squares exactly, and flags by the       *)
(* stream before it (observe, update).                                     *)
LEMMA StreamingKept ==
  Stats!StatsAssumption /\ Streaming /\ [Stats!Next]_stats_vars => Streaming'
<1> SUFFICES ASSUME Stats!StatsAssumption, Streaming, [Stats!Next]_stats_vars PROVE Streaming'
  OBVIOUS
<1>1. ASSUME UNCHANGED stats_vars PROVE Streaming'
  <2>1. UNCHANGED <<count, mean, m2, anomalies, observed>>
    BY <1>1 DEF stats_vars
  <2>2. \A n : Flagged(n)' <=> Flagged(n)
    BY <2>1 DEF Flagged, Stats!MeanOf, Stats!SquaresOf
  <2>3. Exact'
    BY <2>1 DEF Streaming, Exact
  <2> QED BY <2>1, <2>2, <2>3 DEF Streaming
<1>2. ASSUME NEW x \in Latencies, Stats!Observe(x) PROVE Streaming'
  <2> DEFINE n == count + 1
             delta == Scale * x - mean
  <2>1. /\ count < MaxCount
        /\ anomalies' = IF Stats!Anomalous(delta, count, m2) THEN anomalies \cup {n} ELSE anomalies
        /\ count' = n
        /\ mean' = mean + delta \div n
        /\ m2' = m2 + delta * (Scale * x - mean')
        /\ observed' = Append(observed, x)
    BY <1>2 DEF Stats!Observe, Stats!Update
  <2>2. /\ Latencies \subseteq Nat /\ MaxCount \in Nat /\ Scale \in Nat \ {0}
        /\ \A k \in 1..MaxCount : Scale % k = 0
    BY DEF Stats!StatsAssumption
  <2>3. observed \in Seq(Latencies) /\ count = Len(observed) /\ mean \in Int /\ m2 \in Int
        /\ count \in Nat
    BY DEF Streaming, Exact
  <2>4. n \in 1..MaxCount /\ n \in Nat \ {0} /\ x \in Int /\ n - 1 = count
    BY <2>1, <2>2, <2>3
  <2>5. /\ observed' \in Seq(Latencies) /\ Len(observed') = n /\ observed'[n] = x
        /\ \A i \in 1..count : observed'[i] = observed[i] /\ observed[i] \in Int
    <3>1. /\ observed' \in Seq(Latencies) /\ Len(observed') = Len(observed) + 1
          /\ observed'[Len(observed) + 1] = x
          /\ \A i \in 1..Len(observed) : observed'[i] = observed[i]
      BY <2>1, <2>3, AppendProperties
    <3>2. \A i \in 1..Len(observed) : observed[i] \in Latencies
      BY <2>3
    <3>3. n = Len(observed) + 1 /\ count = Len(observed)
      BY <2>3 DEF n
    <3>4. Len(observed') = n /\ observed'[n] = x
      BY <3>1, <3>3
    <3>5. \A i \in 1..count : observed'[i] = observed[i] /\ observed[i] \in Int
      <4> TAKE i \in 1..count
      <4>1. observed'[i] = observed[i] /\ observed[i] \in Latencies
        BY <3>1, <3>2, <3>3
      <4>2. observed[i] \in Nat
        BY <2>2, <4>1
      <4> QED BY <4>1, <4>2
    <3> QED BY <3>1, <3>4, <3>5
  <2> HIDE DEF n
  <2>6. Integral(observed, count) /\ Integral(observed', n)
    BY <2>2, <2>3, <2>4, <2>5 DEF Integral
  <2> DEFINE t == Stats!Total(observed, count)
             u == Stats!Total(observed', n)
             q == Stats!Total(Squared(observed, count), count)
             r == Stats!Total(Squared(observed', n), n)
  <2>7. t \in Int /\ u = t + x
    <3>1. Stats!Total(observed, count) = Stats!Total(observed', count)
      BY <2>3, <2>5, <2>6, TotalAgree
    <3>2. Stats!Total(observed', n) = Stats!Total(observed', n - 1) + observed'[n]
      BY <2>4, <2>6, TotalUnfold
    <3> QED BY <2>3, <2>4, <2>5, <2>6, <3>1, <3>2, TotalUnfold
  <2>8. q \in Int /\ r = q + x * x
    <3> DEFINE v == Squared(observed, count)
               w == Squared(observed', n)
    <3>1. /\ \A i \in 1..count : v[i] = observed[i] * observed[i] /\ v[i] \in Int
          /\ \A i \in 1..n : w[i] = observed'[i] * observed'[i] /\ w[i] \in Int
      BY <2>6 DEF Squared, Integral
    <3>2. w[n] = x * x /\ \A i \in 1..count : v[i] = w[i]
      BY <2>3, <2>4, <2>5, <3>1
    <3> HIDE DEF v, w
    <3>3. Integral(v, count) /\ Integral(w, n)
      BY <3>1 DEF Integral
    <3>4. Stats!Total(v, count) = Stats!Total(w, count)
      BY <2>3, <3>2, <3>3, TotalAgree
    <3>5. Stats!Total(w, n) = Stats!Total(w, n - 1) + w[n]
      BY <2>4, <3>3, TotalUnfold
    <3>6. Stats!Total(v, count) \in Int
      BY <2>3, <3>3, TotalUnfold
    <3> QED BY <2>4, <3>2, <3>4, <3>5, <3>6 DEF v, w
  <2>9. count * mean = Scale * t /\ m2 = Scale * Scale * q - count * mean * mean
    BY DEF Streaming, Exact
  <2> HIDE DEF t, u, q, r
  <2>10. PICK k \in Int : Scale = k * n
    <3>1. Scale % n = 0
      BY <2>2, <2>4
    <3>2. Scale = n * (Scale \div n) + (Scale % n) /\ Scale \div n \in Int
      BY <2>2, <2>4
    <3> QED BY <2>2, <2>4, <3>1, <3>2
  <2>11. delta = n * (k * (t + x) - mean)
    <3> DEFINE y == Scale * x
    <3>1. y = k * (n * x) /\ k * (n * t) = count * mean
      BY <2>4, <2>7, <2>9, <2>10
    <3>2. n * (k * (t + x) - mean) = k * (n * t) + k * (n * x) - n * mean
      BY <2>3, <2>4, <2>7, <2>10
    <3>3. count * mean - n * mean = -mean
      BY <2>3, <2>4
    <3> HIDE DEF y
    <3>4. y - mean = n * (k * (t + x) - mean)
      BY <2>3, <2>4, <2>7, <2>10, <3>1, <3>2, <3>3
    <3> QED BY <3>4 DEF y
  <2>12. delta \div n = k * (t + x) - mean
    <3> DEFINE z == k * (t + x) - mean
    <3>1. z \in Int
      BY <2>3, <2>4, <2>7, <2>10
    <3> HIDE DEF z, delta
    <3> QED BY <2>4, <2>11, <3>1, DivExact DEF z
  <2>13. mean' = k * (t + x) /\ mean' \in Int
    <3> HIDE DEF delta
    <3>1. mean' = mean + (k * (t + x) - mean)
      BY <2>1, <2>12
    <3>2. k * (t + x) \in Int
      BY <2>4, <2>7, <2>10
    <3> QED BY <2>3, <3>1, <3>2
  <2>14. n * mean' = Scale * u
    BY <2>2, <2>4, <2>7, <2>10, <2>13
  <2>15. n * mean' = (n - 1) * mean + Scale * x
    <3>1. Scale * u = Scale * t + Scale * x
      BY <2>2, <2>4, <2>7
    <3> QED BY <2>4, <2>9, <2>14, <3>1
  <2>16. m2' = Scale * Scale * r - n * mean' * mean'
    <3>1. m2 = Scale * Scale * q - (n - 1) * mean * mean
      BY <2>4, <2>9
    <3>2. m2 + (Scale * x - mean) * (Scale * x - mean')
            = Scale * Scale * (q + x * x) - n * mean' * mean'
      <4>1. /\ Scale \in Int /\ n \in Int /\ q \in Int /\ x \in Int /\ mean \in Int
            /\ mean' \in Int /\ m2 \in Int
        BY <2>2, <2>3, <2>4, <2>8, <2>13
      <4>2. SquaresFact(Scale, n, q, x, mean, mean', m2)
        BY <4>1, SquaresStep
      <4> QED BY <4>2, <2>15, <3>1 DEF SquaresFact
    <3> QED BY <2>1, <2>8, <3>2
  <2>17. m2' \in Int
    <3> DEFINE a == Scale * x
    <3>1. a \in Int
      BY <2>2, <2>4
    <3> QED BY <2>1, <2>3, <2>13, <3>1
  <2>18. Exact'
    <3>1. Len(observed') = count'
      BY <2>1, <2>5
    <3>2. Scale * Stats!Total(observed', count') = count' * mean'
      BY <2>1, <2>14 DEF u
    <3>3. m2' = Scale * Scale * Stats!Total(Squared(observed', count'), count')
                 - count' * mean' * mean'
      BY <2>1, <2>16 DEF r
    <3> QED BY <2>1, <2>4, <2>5, <2>13, <2>17, <3>1, <3>2, <3>3 DEF Exact
  <2>19. \A i \in 1..n : Stats!MeanOf(i - 1)' = Stats!MeanOf(i - 1)
                        /\ Stats!SquaresOf(i - 1)' = Stats!SquaresOf(i - 1)
    <3> TAKE i \in 1..n
    <3> DEFINE j == i - 1
    <3>1. j \in Nat /\ j <= count /\ \A l \in 1..j : observed'[l] = observed[l]
      BY <2>3, <2>4, <2>5
    <3>2. Integral(observed, j)
      BY <2>6, <3>1, <2>3 DEF Integral
    <3> HIDE DEF j
    <3>3. Stats!Total(observed', j) = Stats!Total(observed, j)
      BY <3>1, <3>2, TotalAgree
    <3>4. Stats!MeanOf(j)' = Stats!MeanOf(j)
      BY <3>3 DEF Stats!MeanOf
    <3>5. [l \in 1..j |-> (Scale * observed[l] - Stats!MeanOf(j))
                            * (Scale * observed[l] - Stats!MeanOf(j))]'
            = [l \in 1..j |-> (Scale * observed[l] - Stats!MeanOf(j))
                                * (Scale * observed[l] - Stats!MeanOf(j))]
      BY <3>1, <3>4
    <3>6. Stats!SquaresOf(j)' = Stats!SquaresOf(j)
      BY <3>5 DEF Stats!SquaresOf
    <3> QED BY <3>4, <3>6 DEF j
  <2>20. \A i \in 1..count : Flagged(i)' <=> Flagged(i)
    <3> TAKE i \in 1..count
    <3>1. i \in 1..n /\ observed'[i] = observed[i]
      BY <2>3, <2>4, <2>5
    <3> QED BY <2>19, <3>1 DEF Flagged
  <2>21. ASSUME NEW l, l = n, n >= 2
         PROVE  Flagged(l)' <=> Stats!Anomalous(delta, count, m2)
    <3>1. count > 0 /\ l - 1 = count
      BY <2>3, <2>4, <2>21
    <3>2. mean = Stats!MeanOf(count) /\ m2 = Stats!SquaresOf(count)
      BY <3>1, TwoPasses DEF Streaming
    <3>3. l \in 1..n /\ observed'[l] = x
      BY <2>4, <2>5, <2>21
    <3>4. Stats!MeanOf(l - 1)' = mean /\ Stats!SquaresOf(l - 1)' = m2
      BY <2>19, <3>1, <3>2, <3>3
    <3> QED BY <3>1, <3>3, <3>4 DEF Flagged
  <2>22. n < 2 => ~Stats!Anomalous(delta, count, m2)
    BY <2>3, <2>4 DEF Stats!Anomalous
  <2>23. anomalies = {i \in 2..count : Flagged(i)}
    BY DEF Streaming
  <2>24. anomalies' = {i \in 2..n : Flagged(i)'}
    <3> DEFINE new == Stats!Anomalous(delta, count, m2)
    <3> HIDE DEF new, delta
    <3>1. anomalies' = IF new THEN anomalies \cup {n} ELSE anomalies
      BY <2>1 DEF new
    <3>2. n = count + 1 /\ (n < 2 => ~new)
      BY <2>22 DEF n, new
    <3>3. \A l : l = n /\ n >= 2 => (Flagged(l)' <=> new)
      BY <2>21 DEF new
    <3> HIDE DEF Flagged
    <3>4. ASSUME NEW i PROVE i \in anomalies' <=> i \in 2..n /\ Flagged(i)'
      <4>1. CASE i = n
        <5>1. i \notin anomalies /\ (i \in 2..n <=> n >= 2)
          BY <2>3, <2>4, <2>23, <3>2, <4>1
        <5> QED BY <3>1, <3>2, <3>3, <4>1, <5>1, <2>4
      <4>2. CASE i # n
        <5>1. i \in anomalies' <=> i \in anomalies
          BY <3>1, <4>2
        <5>2. i \in 2..n <=> i \in 2..count
          BY <2>3, <3>2, <4>2
        <5>3. i \in 2..count => (Flagged(i)' <=> Flagged(i))
          BY <2>3, <2>20
        <5> QED BY <2>23, <5>1, <5>2, <5>3
      <4> QED BY <4>1, <4>2
    <3> QED BY <3>4
  <2> QED BY <2>1, <2>18, <2>24 DEF Streaming
<1> QED BY <1>1, <1>2 DEF Stats!Next

(* The invariant in the words of the property.                             *)
LEMMA StreamingShows == Stats!StatsAssumption /\ Streaming => StatsAreThoseOfTheStream
BY TwoPasses DEF Streaming, Exact, Flagged, StatsAreThoseOfTheStream, Stats!StatsAreThoseOfTheStream
----------------------------------------------------------------------------
(* DsseReceipts                                                            *)

Types      == PayloadTypes \cup {PINN_PAYLOAD_TYPE}
Keys       == {"bundles", "org"}
Coverings  == (Types \X Bodies) \cup {<<>>}
Signatures == [key : Keys \cup {Malformed}, covers : Coverings, keyid : KeyIds]
Envelopes  == [payloadType : Types, payload : Bodies, signatures : Seq(Signatures),
               signed : BOOLEAN]
Reports    == [state : {"asking", "returned"}, dsse : Envelopes,
               signing_available : BOOLEAN, rotated : BOOLEAN]

\* Every sealed envelope is what SignPayload makes with the key of its time.
SealsAreSigned ==
  sealed \subseteq
    {[env |-> SignPayload(t, b, LoadPrivateKey(text)), pem |-> text] :
       t \in Types, b \in Bodies, text \in Pems \ {"rsa"}}

\* A signature that can be decoded was made for one of the sealed payloads.
Known(signature) ==
  signature.key # Malformed =>
    \E s \in sealed :
      /\ signature.key = LoadPrivateKey(s.pem)
      /\ signature.covers = Pae(s.env.payloadType, s.env.payload)

SignaturesAreKnown ==
  relayed # NothingRelayed =>
    /\ relayed \in Envelopes
    /\ \A i \in DOMAIN relayed.signatures : Known(relayed.signatures[i])

ReportAgrees ==
  report # NoReport =>
    /\ report \in Reports
    /\ ~report.rotated =>
         report.dsse.signed <=> (IF report.state = "asking" THEN SigningAvailable(pem)
                                 ELSE report.signing_available)

SealsInv ==
  /\ pem \in Pems
  /\ SealsAreSigned
  /\ SignaturesAreKnown
  /\ ReportAgrees
----------------------------------------------------------------------------
(* What SignPayload returns for a key that can sign, or for none           *)
(* (sign_payload).                                                         *)
LEMMA SignedEnvelope ==
  ASSUME NEW t \in Types, NEW b \in Bodies, NEW text \in Pems \ {"rsa"}
  PROVE  LET key == LoadPrivateKey(text)
             env == SignPayload(t, b, key)
         IN  /\ env \in Envelopes
             /\ env.payloadType = t /\ env.payload = b
             /\ env.signed <=> key # "none"
             /\ key \in Keys => env.signatures = <<Signature(key, Pae(t, b), KEYID)>>
             /\ key \notin Keys => key = "none" /\ env.signatures = <<>>
             /\ key # "none" <=> text \in Keys
             /\ key \in Keys => key = text
<1> DEFINE key == LoadPrivateKey(text)
           sig == Signature(key, Pae(t, b), KEYID)
<1>1. key \in Keys \cup {"none"} /\ (key # "none" <=> text \in Keys) /\ (key \in Keys => key = text)
  BY DEF LoadPrivateKey, Pems, Keys
<1>2. key \in Keys => sig \in Signatures
  BY DEF Signature, Signatures, Pae, Coverings, KEYID, KeyIds
<1>3. (key \in Keys => <<sig>> \in Seq(Signatures)) /\ <<>> \in Seq(Signatures)
  BY <1>2
<1>4. "none" \notin Keys
  BY DEF Keys
<1> DEFINE sigs == IF key = "none" THEN <<>> ELSE <<sig>>
<1>5. sigs \in Seq(Signatures)
  BY <1>1, <1>3
<1> DEFINE can == key # "none"
           env == SignPayload(t, b, key)
<1>6. env = [payloadType |-> t, payload |-> b, signatures |-> sigs, signed |-> can]
  BY Zenon DEF SignPayload
<1>7. can \in BOOLEAN
  OBVIOUS
<1>8. (key \in Keys => sigs = <<sig>>) /\ (key \notin Keys => key = "none" /\ sigs = <<>>)
  BY <1>1, <1>4
<1> HIDE DEF sig, can, env, sigs
<1>9. /\ env \in Envelopes /\ env.payloadType = t /\ env.payload = b
      /\ env.signatures = sigs /\ env.signed = can
  BY <1>5, <1>6, <1>7 DEF Envelopes
<1>10. env.signed <=> key # "none"
  BY <1>9, Zenon DEF can
<1> HIDE DEF key
<1>11. /\ env \in Envelopes /\ env.payloadType = t /\ env.payload = b
       /\ env.signed <=> key # "none"
       /\ key \in Keys => env.signatures = <<sig>>
       /\ key \notin Keys => key = "none" /\ env.signatures = <<>>
       /\ key # "none" <=> text \in Keys
       /\ key \in Keys => key = text
  BY <1>1, <1>8, <1>9, <1>10, Zenon
<1> QED
  BY <1>11, Zenon DEF key, sig, env

(* Every signature a relay has at hand is well formed and known.           *)
LEMMA SeenIsKnown ==
  ASSUME SealsAreSigned, NEW s \in SignaturesSeen
  PROVE  s \in Signatures /\ Known(s)
<1>1. CASE s = Signature(Malformed, <<>>, KEYID)
  BY <1>1 DEF Signature, Signatures, Coverings, KeyIds, Known
<1>2. CASE s # Signature(Malformed, <<>>, KEYID)
  <2>1. PICK e \in sealed : \E i \in DOMAIN e.env.signatures : s = e.env.signatures[i]
    BY <1>2 DEF SignaturesSeen
  <2>2. PICK t \in Types, b \in Bodies, text \in Pems \ {"rsa"} :
          e = [env |-> SignPayload(t, b, LoadPrivateKey(text)), pem |-> text]
    BY DEF SealsAreSigned
  <2>3. PICK i \in DOMAIN e.env.signatures : s = e.env.signatures[i]
    BY <2>1
  <2> DEFINE key == LoadPrivateKey(text)
  <2>4. /\ e.env = SignPayload(t, b, key) /\ e.pem = text
    BY <2>2
  <2>5. /\ e.env.payloadType = t /\ e.env.payload = b
        /\ key \in Keys => e.env.signatures = <<Signature(key, Pae(t, b), KEYID)>>
        /\ key \notin Keys => e.env.signatures = <<>>
    BY <2>4, SignedEnvelope
  <2> HIDE DEF key
  <2>6. key \in Keys /\ s = Signature(key, Pae(t, b), KEYID)
    BY <2>3, <2>5
  <2>7. s \in Signatures
    BY <2>6 DEF Signature, Signatures, Coverings, Pae, KeyIds
  <2>8. s.key = LoadPrivateKey(e.pem) /\ s.covers = Pae(e.env.payloadType, e.env.payload)
    BY <2>4, <2>5, <2>6 DEF Signature, key
  <2> QED
    BY <2>7, <2>8 DEF Known
<1> QED
  BY <1>1, <1>2

(* A sealed envelope that is passed on has known signatures only.          *)
LEMMA SealIsKnown ==
  ASSUME SealsAreSigned, NEW s \in sealed
  PROVE  s.env \in Envelopes /\ \A i \in DOMAIN s.env.signatures : Known(s.env.signatures[i])
<1>1. PICK t \in Types, b \in Bodies, text \in Pems \ {"rsa"} :
        s = [env |-> SignPayload(t, b, LoadPrivateKey(text)), pem |-> text]
  BY DEF SealsAreSigned
<1>2. s.env = SignPayload(t, b, LoadPrivateKey(text))
  BY <1>1
<1>3. s.env \in Envelopes
  BY <1>2, SignedEnvelope
<1>4. \A i \in DOMAIN s.env.signatures : s.env.signatures[i] \in SignaturesSeen
  BY DEF SignaturesSeen
<1> QED
  BY <1>3, <1>4, SeenIsKnown

(* The steps that seal an envelope keep what is known known.               *)
LEMMA KnownStaysKnown ==
  ASSUME sealed \subseteq sealed', relayed' = relayed, SignaturesAreKnown
  PROVE  SignaturesAreKnown'
<1>1. ASSUME NEW x, Known(x) PROVE Known(x)'
  BY <1>1 DEF Known
<1> QED
  BY <1>1, Zenon DEF SignaturesAreKnown
----------------------------------------------------------------------------
LEMMA InitSealsInv == Init => SealsInv
  BY DEF Init, SealsInv, SealsAreSigned, SignaturesAreKnown, ReportAgrees

LEMMA SetPemSealsInv ==
  ASSUME SealsInv, NEW text \in Pems, SetPem(text)
  PROVE  SealsInv'
<1> USE DEF SetPem
<1>1. SealsAreSigned' /\ SignaturesAreKnown' /\ pem' \in Pems
  <2>1. sealed' = sealed /\ relayed' = relayed
    OBVIOUS
  <2> QED
    BY <2>1, KnownStaysKnown DEF SealsInv, SealsAreSigned
<1>2. ReportAgrees'
  <2>1. CASE ~Asking
    <3>1. report' = report /\ (report # NoReport => report \in Reports /\ report.state # "asking")
      BY <2>1 DEF SealsInv, ReportAgrees, Asking
    <3> QED
      BY <3>1, Zenon DEF SealsInv, ReportAgrees
  <2>2. CASE Asking
    <3> DEFINE turned == report.rotated \/ text # pem
    <3>1. report # NoReport /\ report \in Reports /\ report.state = "asking"
      BY <2>2 DEF SealsInv, ReportAgrees, Asking
    <3>2. report' = [report EXCEPT !.rotated = turned]
      BY <2>2, Zenon
    <3>3. turned \in BOOLEAN
      OBVIOUS
    <3>4. report' = [state |-> report.state, dsse |-> report.dsse,
                     signing_available |-> report.signing_available, rotated |-> turned]
      <4> HIDE DEF turned
      <4> QED BY <3>1, <3>2 DEF Reports
    <3>5. report' \in Reports
      <4> HIDE DEF turned
      <4> QED BY <3>1, <3>3, <3>4 DEF Reports
    <3>6. /\ report'.state = report.state /\ report'.dsse = report.dsse
          /\ report'.rotated = turned
      <4> HIDE DEF turned
      <4> QED BY <3>4
    <3>7. ~turned => pem' = pem /\ ~report.rotated
      BY <3>1
    <3>8. ~report.rotated => (report.dsse.signed <=> SigningAvailable(pem))
      BY <3>1, Zenon DEF SealsInv, ReportAgrees
    <3>9. ~report'.rotated => (report'.dsse.signed <=> SigningAvailable(pem'))
      <4> HIDE DEF turned
      <4> QED BY <3>6, <3>7, <3>8, Zenon
    <3>10. report'.state = "asking"
      BY <3>1, <3>6
    <3> HIDE DEF SetPem
    <3> QED
      BY <3>5, <3>9, <3>10, Zenon DEF ReportAgrees
  <2> QED
    BY <2>1, <2>2
<1> QED
  BY <1>1, <1>2 DEF SealsInv

(* An envelope is added with the key of the moment.                        *)
LEMMA SealingSealsInv ==
  ASSUME SealsInv, NEW t \in Types, NEW b \in Bodies,
         LoadPrivateKey(pem) # "rsa", pem' = pem, relayed' = relayed,
         sealed' = sealed \cup {[env |-> SignPayload(t, b, LoadPrivateKey(pem)), pem |-> pem]}
  PROVE  pem' \in Pems /\ SealsAreSigned' /\ SignaturesAreKnown'
<1>1. pem \in Pems \ {"rsa"}
  BY DEF SealsInv, LoadPrivateKey
<1>2. SealsAreSigned'
  BY <1>1 DEF SealsInv, SealsAreSigned
<1>3. SignaturesAreKnown'
  BY KnownStaysKnown DEF SealsInv
<1> QED
  BY <1>1, <1>2, <1>3

LEMMA SealLambdaSealsInv ==
  ASSUME SealsInv, NEW b \in Bodies, SealLambda(b)
  PROVE  SealsInv'
<1> DEFINE env == SignPayload(PINN_PAYLOAD_TYPE, b, LoadPrivateKey(pem))
<1>1. /\ LoadPrivateKey(pem) # "rsa" /\ pem' = pem /\ relayed' = relayed
      /\ sealed' = sealed \cup {[env |-> env, pem |-> pem]}
      /\ report' = [state |-> "asking", dsse |-> env, signing_available |-> FALSE,
                    rotated |-> FALSE]
  BY DEF SealLambda
<1>2. PINN_PAYLOAD_TYPE \in Types /\ pem \in Pems \ {"rsa"}
  BY <1>1 DEF Types, SealsInv, LoadPrivateKey
<1>3. pem' \in Pems /\ SealsAreSigned' /\ SignaturesAreKnown'
  BY <1>1, <1>2, SealingSealsInv
<1>4. env \in Envelopes /\ (env.signed <=> LoadPrivateKey(pem) # "none")
  BY <1>2, SignedEnvelope
<1>5. env.signed <=> SigningAvailable(pem')
  BY <1>1, <1>4, Zenon DEF SigningAvailable
<1> HIDE DEF env
<1>6. report' \in Reports
  BY <1>1, <1>4 DEF Reports
<1>7. report'.state = "asking" /\ report'.dsse = env
  BY <1>1
<1>8. ReportAgrees'
  BY <1>5, <1>6, <1>7, Zenon DEF ReportAgrees
<1> QED
  BY <1>3, <1>8 DEF SealsInv

LEMMA ReportAvailabilitySealsInv ==
  ASSUME SealsInv, ReportAvailability
  PROVE  SealsInv'
<1>1. /\ pem' = pem /\ relayed' = relayed /\ sealed' = sealed
      /\ report' = [report EXCEPT !.state = "returned",
                                  !.signing_available = SigningAvailable(pem)]
  BY DEF ReportAvailability
<1>2. report # NoReport /\ report \in Reports /\ report.state = "asking"
  BY DEF ReportAvailability, Asking, SealsInv, ReportAgrees
<1> DEFINE answer == SigningAvailable(pem)
<1>3. answer \in BOOLEAN
  BY DEF SigningAvailable
<1>4. ~report.rotated => (report.dsse.signed <=> answer)
  BY <1>2, Zenon DEF SealsInv, ReportAgrees
<1> HIDE DEF answer
<1>5. report' = [state |-> "returned", dsse |-> report.dsse, signing_available |-> answer,
                 rotated |-> report.rotated]
  BY <1>1, <1>2 DEF Reports, answer
<1>6. report' \in Reports
  BY <1>2, <1>3, <1>5 DEF Reports
<1>7. /\ report'.state = "returned" /\ report'.dsse = report.dsse
      /\ report'.signing_available = answer /\ report'.rotated = report.rotated
  BY <1>5, Zenon
<1>8. report'.state # "asking"
  BY <1>7
<1>9. ReportAgrees'
  BY <1>4, <1>6, <1>7, <1>8, Zenon DEF ReportAgrees
<1>10. SealsAreSigned' /\ SignaturesAreKnown'
  BY <1>1, KnownStaysKnown DEF SealsInv, SealsAreSigned
<1> QED
  BY <1>1, <1>9, <1>10 DEF SealsInv

(* The relay's steps: whatever it passes on, its signatures are known.     *)
LEMMA RelayingSealsInv ==
  ASSUME SealsInv, UNCHANGED <<pem, sealed, report>>,
         relayed' # NothingRelayed =>
           relayed' \in Envelopes /\ \A i \in DOMAIN relayed'.signatures : Known(relayed'.signatures[i])
  PROVE  SealsInv'
<1>1. ASSUME NEW x, Known(x) PROVE Known(x)'
  BY <1>1 DEF Known
<1>2. SignaturesAreKnown'
  BY <1>1, Zenon DEF SignaturesAreKnown
<1>3. SealsAreSigned' /\ pem' \in Pems
  BY DEF SealsInv, SealsAreSigned
<1>4. ReportAgrees'
  BY Zenon DEF SealsInv, ReportAgrees
<1> QED
  BY <1>2, <1>3, <1>4 DEF SealsInv

LEMMA AlterSealsInv ==
  ASSUME SealsInv, NEW env, Alter(env),
         relayed \in Envelopes =>
           /\ env \in Envelopes
           /\ \A i \in DOMAIN env.signatures :
                \/ i \in DOMAIN relayed.signatures /\ env.signatures[i] = relayed.signatures[i]
                \/ env.signatures[i] \in Signatures /\ Known(env.signatures[i])
  PROVE  SealsInv'
<1>1. relayed # NothingRelayed /\ relayed' = env /\ UNCHANGED <<pem, sealed, report>>
  BY DEF Alter
<1>2. relayed \in Envelopes /\ \A i \in DOMAIN relayed.signatures : Known(relayed.signatures[i])
  BY <1>1 DEF SealsInv, SignaturesAreKnown
<1>3. env \in Envelopes /\ \A i \in DOMAIN env.signatures : Known(env.signatures[i])
  BY <1>2
<1> QED
  BY <1>1, <1>3, RelayingSealsInv

(* SealsInv is inductive.                                                      *)
LEMMA NextSealsInv == SealsInv /\ [Next]_vars => SealsInv'
<1> SUFFICES ASSUME SealsInv, [Next]_vars
             PROVE  SealsInv'
  OBVIOUS
<1>1. ASSUME NEW text \in Pems, SetPem(text) PROVE SealsInv'
  BY <1>1, SetPemSealsInv
<1>2. ASSUME NEW t \in PayloadTypes, NEW b \in Bodies, Seal(t, b) PROVE SealsInv'
  <2>1. /\ LoadPrivateKey(pem) # "rsa" /\ pem' = pem /\ relayed' = relayed /\ report' = report
        /\ sealed' = sealed \cup {[env |-> SignPayload(t, b, LoadPrivateKey(pem)), pem |-> pem]}
    BY <1>2 DEF Seal
  <2>2. t \in Types
    BY DEF Types
  <2>3. pem' \in Pems /\ SealsAreSigned' /\ SignaturesAreKnown'
    BY <2>1, <2>2, SealingSealsInv
  <2>4. ReportAgrees'
    BY <2>1, Zenon DEF SealsInv, ReportAgrees
  <2> QED
    BY <2>3, <2>4 DEF SealsInv
<1>3. ASSUME NEW b \in Bodies, SealLambda(b) PROVE SealsInv'
  BY <1>3, SealLambdaSealsInv
<1>4. CASE ReportAvailability
  BY <1>4, ReportAvailabilitySealsInv
<1>5. ASSUME NEW s \in sealed, Relay(s.env) PROVE SealsInv'
  <2>1. s.env \in Envelopes /\ \A i \in DOMAIN s.env.signatures : Known(s.env.signatures[i])
    BY SealIsKnown DEF SealsInv
  <2>2. relayed' = s.env /\ UNCHANGED <<pem, sealed, report>>
    BY <1>5 DEF Relay
  <2> QED
    BY <2>1, <2>2, RelayingSealsInv
<1>6. ASSUME NEW b \in Bodies, Alter([relayed EXCEPT !.payload = b]) PROVE SealsInv'
  <2> DEFINE env == [relayed EXCEPT !.payload = b]
  <2>1. relayed \in Envelopes => env \in Envelopes /\ env.signatures = relayed.signatures
    BY DEF Envelopes
  <2> HIDE DEF env
  <2>2. Alter(env)
    BY <1>6 DEF env
  <2> QED
    BY <2>1, <2>2, AlterSealsInv
<1>7. ASSUME NEW t \in PayloadTypes, Alter([relayed EXCEPT !.payloadType = t]) PROVE SealsInv'
  <2> DEFINE env == [relayed EXCEPT !.payloadType = t]
  <2>1. relayed \in Envelopes => env \in Envelopes /\ env.signatures = relayed.signatures
    BY DEF Envelopes, Types
  <2> HIDE DEF env
  <2>2. Alter(env)
    BY <1>7 DEF env
  <2> QED
    BY <2>1, <2>2, AlterSealsInv
<1>8. ASSUME NEW s \in SignaturesSeen, NEW k \in KeyIds,
             Alter([relayed EXCEPT !.signatures = Append(@, [s EXCEPT !.keyid = k])])
      PROVE  SealsInv'
  <2> DEFINE sig == [s EXCEPT !.keyid = k]
             env == [relayed EXCEPT !.signatures = Append(@, sig)]
  <2>1. s \in Signatures /\ Known(s)
    BY SeenIsKnown DEF SealsInv
  <2>2. sig \in Signatures /\ sig.key = s.key /\ sig.covers = s.covers
    BY <2>1 DEF Signatures
  <2>3. Known(sig)
    BY <2>1, <2>2 DEF Known
  <2> HIDE DEF sig
  <2>4. relayed \in Envelopes =>
          /\ relayed.signatures \in Seq(Signatures)
          /\ env \in Envelopes /\ env.signatures = Append(relayed.signatures, sig)
    BY <2>2 DEF Envelopes
  <2> HIDE DEF env
  <2>5. relayed \in Envelopes =>
          \A i \in DOMAIN env.signatures :
            \/ i \in DOMAIN relayed.signatures /\ env.signatures[i] = relayed.signatures[i]
            \/ env.signatures[i] = sig
    BY <2>2, <2>4
  <2>6. Alter(env)
    BY <1>8 DEF env, sig
  <2> QED
    BY <2>2, <2>3, <2>4, <2>5, <2>6, AlterSealsInv
<1>9. CASE Alter([relayed EXCEPT !.signatures = <<>>])
  <2> DEFINE env == [relayed EXCEPT !.signatures = <<>>]
  <2>1. relayed \in Envelopes => env \in Envelopes /\ env.signatures = <<>>
    <3>1. <<>> \in Seq(Signatures)
      OBVIOUS
    <3> QED
      BY <3>1 DEF Envelopes
  <2> HIDE DEF env
  <2>2. Alter(env)
    BY <1>9 DEF env
  <2> QED
    BY <2>1, <2>2, AlterSealsInv
<1>10. CASE UNCHANGED vars
  <2>1. UNCHANGED <<pem, sealed, report, relayed>>
    BY <1>10 DEF vars
  <2> QED
    BY <2>1, RelayingSealsInv DEF SealsInv, SignaturesAreKnown
<1> QED
  BY <1>1, <1>2, <1>3, <1>4, <1>5, <1>6, <1>7, <1>8, <1>9, <1>10 DEF Next

LEMMA SpecSealsInv == Spec => []SealsInv
  BY InitSealsInv, NextSealsInv, PTL DEF Spec
----------------------------------------------------------------------------
(* Whatever a relay does to the envelopes it sees, what verifies was       *)
(* sealed, as that kind of receipt, with the uds-bundles key               *)
(* (verify_envelope, pae).                                                 *)
THEOREM SpecVerifiedWasSealed == Spec => []VerifiedWasSealed
<1>1. SealsInv => VerifiedWasSealed
  <2> SUFFICES ASSUME SealsInv, relayed # NothingRelayed, VerifyEnvelope(relayed)
               PROVE  \E s \in sealed : /\ s.pem = "bundles"
                                        /\ s.env.payload = relayed.payload
                                        /\ s.env.payloadType = relayed.payloadType
    BY DEF VerifiedWasSealed
  <2> DEFINE pae == Pae(relayed.payloadType, relayed.payload)
  <2>1. PICK i \in DOMAIN relayed.signatures :
          relayed.signatures[i] = Signature("bundles", pae, KEYID)
    BY DEF VerifyEnvelope
  <2>2. Known(relayed.signatures[i])
    BY DEF SealsInv, SignaturesAreKnown
  <2>3. relayed.signatures[i].key = "bundles" /\ relayed.signatures[i].covers = pae
    BY <2>1 DEF Signature
  <2>4. PICK s \in sealed : /\ LoadPrivateKey(s.pem) = "bundles"
                            /\ Pae(s.env.payloadType, s.env.payload) = pae
    BY <2>2, <2>3 DEF Known, Malformed
  <2>5. s.pem = "bundles"
    BY <2>4 DEF LoadPrivateKey
  <2>6. s.env.payload = relayed.payload /\ s.env.payloadType = relayed.payloadType
    BY <2>4 DEF Pae
  <2> QED
    BY <2>5, <2>6
<1> QED
  BY <1>1, SpecSealsInv, PTL

(* Markers go with signatures, envelopes of the uds-bundles key verify for *)
(* good, and the PINN's second answer agrees with its envelope unless the  *)
(* key changed in between (sign_payload, signed_lambda_receipt).           *)
THEOREM SpecMarkersMatchSignatures == Spec => []MarkersMatchSignatures
<1>1. SealsInv => MarkersMatchSignatures
  <2> SUFFICES ASSUME SealsInv PROVE MarkersMatchSignatures
    OBVIOUS
  <2>1. ASSUME NEW s \in sealed
        PROVE  /\ s.env.signed <=> s.env.signatures # <<>>
               /\ VerifyEnvelope(s.env) => s.env.signed
               /\ s.pem = "bundles" => VerifyEnvelope(s.env)
    <3>1. PICK t \in Types, b \in Bodies, text \in Pems \ {"rsa"} :
            s = [env |-> SignPayload(t, b, LoadPrivateKey(text)), pem |-> text]
      BY DEF SealsInv, SealsAreSigned
    <3> DEFINE key == LoadPrivateKey(text)
    <3>2. s.env = SignPayload(t, b, key) /\ s.pem = text
      BY <3>1
    <3>3. /\ s.env.payloadType = t /\ s.env.payload = b
          /\ s.env.signed <=> key # "none"
          /\ key \in Keys => s.env.signatures = <<Signature(key, Pae(t, b), KEYID)>>
          /\ key \notin Keys => s.env.signatures = <<>>
          /\ key # "none" <=> text \in Keys
          /\ key \in Keys => key = text
          /\ key \notin Keys => key = "none"
      BY <3>2, SignedEnvelope
    <3> HIDE DEF key
    <3>4. s.env.signed <=> s.pem \in Keys
      BY <3>2, <3>3, Zenon
    <3>5. CASE key \in Keys
      <4>1. s.pem = key
        BY <3>2, <3>3, <3>5
      <4>2. DOMAIN s.env.signatures = {1}
            /\ s.env.signatures[1] = Signature(key, Pae(s.env.payloadType, s.env.payload), KEYID)
        BY <3>3, <3>5
      <4>3. s.env.signatures # <<>> /\ s.env.signatures[1].key # Malformed
        BY <3>3, <3>5, <4>2 DEF Signature, Keys, Malformed
      <4>4. VerifyEnvelope(s.env) <=>
              Signature(key, Pae(s.env.payloadType, s.env.payload), KEYID)
                = Signature("bundles", Pae(s.env.payloadType, s.env.payload), KEYID)
        BY <4>2, <4>3 DEF VerifyEnvelope
      <4>5. VerifyEnvelope(s.env) <=> key = "bundles"
        BY <4>4 DEF Signature
      <4> QED
        BY <3>4, <3>5, <4>1, <4>3, <4>5, Zenon
    <3>6. CASE key \notin Keys
      <4>1. ~VerifyEnvelope(s.env)
        BY <3>3, <3>6 DEF VerifyEnvelope
      <4>2. s.pem \notin Keys /\ s.pem # "bundles"
        BY <3>2, <3>3, <3>6 DEF Keys
      <4>3. s.env.signatures = <<>>
        BY <3>3, <3>6
      <4> QED
        BY <3>4, <4>1, <4>2, <4>3, Zenon
    <3> QED
      BY <3>5, <3>6
  <2>2. ASSUME report # NoReport, report.state = "returned", ~report.rotated
        PROVE  report.signing_available = report.dsse.signed
    <3>1. report \in Reports /\ report.state # "asking"
      BY <2>2 DEF SealsInv, ReportAgrees
    <3>2. report.dsse.signed <=> report.signing_available
      BY <2>2, <3>1, Zenon DEF SealsInv, ReportAgrees
    <3>3. report.dsse.signed \in BOOLEAN /\ report.signing_available \in BOOLEAN
      BY <3>1 DEF Reports, Envelopes
    <3>4. ASSUME NEW a \in BOOLEAN, NEW b \in BOOLEAN, a <=> b PROVE a = b
      BY <3>4
    <3> QED
      BY <3>2, <3>3, <3>4, Zenon
  <2> QED
    BY <2>1, <2>2, Zenon DEF MarkersMatchSignatures
<1> QED
  BY <1>1, SpecSealsInv, PTL
----------------------------------------------------------------------------
(* The parts together                                                      *)

(* Every step of the parts is a step of the one that moves and a stutter   *)
(* of each of the others.                                                  *)
LEMMA PartsMove ==
  [PartsNext]_parts_vars =>
    /\ [ComplexNext]_complex_vars
    /\ [Stats!Next]_stats_vars
    /\ [Next]_vars
    /\ [Formula!Next]_formula_vars
    /\ [Pepr!Next]_pepr_vars
    /\ [Packs!Next]_packs_vars
    /\ [Cluster!Next]_cluster_vars
BY DEF PartsNext, MoveComplex, MoveStats, MoveDsse, MoveFormula, MovePepr, MovePacks, MoveCluster,
       parts_vars, complex_vars, stats_vars, dsse_vars, formula_vars, pepr_vars, packs_vars,
       cluster_vars, vars

(* The layers are in order in every reachable state.                       *)
LEMMA LayersHold == PartsSpec => []Layers
<1>1. PartsInit => Layers
  BY LayersBegin, PartsAssumption DEF PartsInit
<1>2. [PartsNext]_parts_vars => [Cluster!Next]_cluster_vars
  BY PartsMove
<1>3. Layers /\ [Cluster!Next]_cluster_vars => Layers'
  BY LayersKept, PartsAssumption
<1> QED
  BY <1>1, <1>2, <1>3, PTL DEF PartsSpec

(* The ledger is right in every reachable state.                           *)
LEMMA LedgerHolds == PartsSpec => []Ledger
<1>1. PartsInit => Ledger
  BY LedgerBegins, PartsAssumption DEF PartsInit
<1>2. [PartsNext]_parts_vars => [Packs!Next]_packs_vars
  BY PartsMove
<1>3. Ledger /\ [Packs!Next]_packs_vars => Ledger'
  BY LedgerKept, PartsAssumption
<1> QED
  BY <1>1, <1>2, <1>3, PTL DEF PartsSpec

(* Signatures stay in every reachable state.                               *)
LEMMA SignaturesHold == PartsSpec => []SignaturesStay
<1>1. PartsInit => SignaturesStay
  BY SignaturesBegin, PartsAssumption DEF PartsInit
<1>2. [PartsNext]_parts_vars => [Formula!Next]_formula_vars
  BY PartsMove
<1>3. SignaturesStay /\ [Formula!Next]_formula_vars => SignaturesStay'
  BY SignaturesKept, PartsAssumption
<1> QED
  BY <1>1, <1>2, <1>3, PTL DEF PartsSpec

(* Every entry is traced in every reachable state.                         *)
LEMMA SigningHolds == PartsSpec => []Signing
<1>1. PartsInit => Signing
  BY SigningBegins, PartsAssumption DEF PartsInit
<1>2. [PartsNext]_parts_vars => [Pepr!Next]_pepr_vars
  BY PartsMove
<1>3. Signing /\ [Pepr!Next]_pepr_vars => Signing'
  BY SigningKept, PartsAssumption
<1> QED
  BY <1>1, <1>2, <1>3, PTL DEF PartsSpec

(* The accumulator is exact in every reachable state.                      *)
LEMMA StreamingHolds == PartsSpec => []Streaming
<1>1. PartsInit => Streaming
  BY StreamingBegins, PartsAssumption DEF PartsInit
<1>2. [PartsNext]_parts_vars => [Stats!Next]_stats_vars
  BY PartsMove
<1>3. Streaming /\ [Stats!Next]_stats_vars => Streaming'
  BY StreamingKept, PartsAssumption
<1> QED
  BY <1>1, <1>2, <1>3, PTL DEF PartsSpec

(* The parts' envelopes behave as DsseReceipts says.                       *)
LEMMA PartsSealReceipts == PartsSpec => Spec
<1>1. PartsInit => Init
  BY DEF PartsInit
<1>2. [PartsNext]_parts_vars => [Next]_vars
  BY PartsMove
<1> QED
  BY <1>1, <1>2, PTL DEF PartsSpec, Spec

(* The parts' complex behaves as A15Complex says.                          *)
LEMMA PartsBuildComplex == PartsSpec => ComplexSpec
<1>1. PartsInit => ComplexInit
  BY DEF PartsInit
<1>2. [PartsNext]_parts_vars => [ComplexNext]_complex_vars
  BY PartsMove
<1> QED
  BY <1>1, <1>2, PTL DEF PartsSpec, ComplexSpec

(* Collector and policies are only ever there on top of the identity layer,*)
(* complete but for what the API server refused, wherever a deployment is  *)
(* turned back (MESH_RUNBOOK.md).                                          *)
THEOREM PartsIdentityFirst == PartsSpec => []IdentityFirst
<1>1. Layers => IdentityFirst
  BY LayersShow, PartsAssumption
<1> QED
  BY <1>1, LayersHold, PTL

(* The default-deny holds against outsiders from its first moment to its   *)
(* last (network-policies.yaml).                                           *)
THEOREM PartsDenyHolds == PartsSpec => []DenyHoldsAgainstOutsiders
<1>1. Layers => DenyHoldsAgainstOutsiders
  BY LayersShow, PartsAssumption
<1> QED
  BY <1>1, LayersHold, PTL

(* Exit code 0 means that every pack of the list is disciplined, for lists *)
(* of any length and packs of any values (validate_pack.py main).          *)
THEOREM PartsExitZero == PartsSpec => []ExitZeroMeansDisciplined
<1>1. Ledger => ExitZeroMeansDisciplined
  BY LedgerShows, PartsAssumption
<1> QED
  BY <1>1, LedgerHolds, PTL

(* An envelope is accepted if and only if the keys are the same and the    *)
(* output is the formula's, whatever was rotated, restarted or written in  *)
(* between (formula_receipts.py).                                          *)
THEOREM PartsAcceptedOutputs == PartsSpec => []AcceptedOutputsAreComputed
<1>1. SignaturesStay => AcceptedOutputsAreComputed
  BY SignaturesShow, PartsAssumption
<1> QED
  BY <1>1, SignaturesHold, PTL

(* A genuine envelope is accepted all through the roll-out, however late   *)
(* it arrives (verifyReceiptLegacy, verifyReceiptDualSign).                *)
THEOREM PartsGenuineIsAccepted == PartsSpec => []GenuineIsAccepted
<1>1. Signing => GenuineIsAccepted
  BY GenuineShows, PartsAssumption
<1> QED
  BY <1>1, SigningHolds, PTL

(* Nothing but signed receipts is valid for either verifier after any      *)
(* number of changes, and they agree on one HMAC entry                     *)
(* (verifyReceiptLegacy, verifyReceiptDualSign).                           *)
THEOREM PartsVerifiersAgree == PartsSpec => []VerifiersAgree
<1>1. Signing => VerifiersAgree
  BY AgreementShows, PartsAssumption
<1> QED
  BY <1>1, SigningHolds, PTL

(* Welford's one pass gives the mean and the squares of two passes, and    *)
(* flags by the stream before, for latencies of any values                 *)
(* (StreamingStats.observe).                                               *)
THEOREM PartsStatsAreThoseOfTheStream == PartsSpec => []StatsAreThoseOfTheStream
<1>1. Streaming => StatsAreThoseOfTheStream
  BY StreamingShows, PartsAssumption
<1> QED
  BY <1>1, StreamingHolds, PTL

(* Markers go with signatures, beside the other parts                      *)
(* (sign_payload, signed_lambda_receipt).                                  *)
THEOREM PartsMarkersMatchSignatures == PartsSpec => []MarkersMatchSignatures
  BY PartsSealReceipts, SpecMarkersMatchSignatures, PTL

(* What verifies was sealed, beside the other parts (verify_envelope).     *)
THEOREM PartsVerifiedWasSealed == PartsSpec => []VerifiedWasSealed
  BY PartsSealReceipts, SpecVerifiedWasSealed, PTL

(* Union-find counts the components, beside the other parts                *)
(* (connected_components).                                                 *)
THEOREM PartsComponentsAreReachable == PartsSpec => []ComponentsAreReachable
<1>1. ComplexAssumption
  BY PartsAssumption
<1>2. ComplexSpec => []ComponentsAreReachable
  BY <1>1, ComponentsAlwaysReachable
<1> QED
  BY <1>2, PartsBuildComplex, PTL

(* The bounds on the rank of H_1 hold, beside the other parts              *)
(* (betti_1_upper_bound, check).                                           *)
THEOREM PartsBoundsHold == PartsSpec => []BoundsHold
<1>1. ComplexAssumption
  BY PartsAssumption
<1>2. ComplexSpec => []BoundsHold
  BY <1>1, BoundsAlwaysHold
<1> QED
  BY <1>2, PartsBuildComplex, PTL
----------------------------------------------------------------------------
(* The parts beside the receipt chain and the payloads                     *)

(* The suite's parts behave as MeshParts says: all that is proved above of *)
(* PartsSpec holds of SuiteSpec.                                           *)
LEMMA SuiteMovesParts == SuiteSpec => PartsSpec
<1>1. SuiteInit => PartsInit
  BY DEF SuiteInit
<1>2. [SuiteNext]_suite_vars => [PartsNext]_parts_vars
  BY DEF SuiteNext, MoveParts, MoveChain, MoveLoop, suite_vars
<1> QED
  BY <1>1, <1>2, PTL DEF SuiteSpec, PartsSpec

\* What was proved of the chain and of the payloads, with the suite's names.
ChainFacts == INSTANCE SensorReceiptChainProofs WITH
  Drones <- ChainDrones, Payloads <- ChainPayloads,
  chain <- packets, clock <- wall_clock, set_back <- wall_set_back, misdated <- strays,
  sealed <- chained

LoopFacts == INSTANCE AirGapPayloadProofs WITH Names <- Witnesses

(* Every step of the suite is a step of the chain's users, of the payloads *)
(* or of neither.                                                          *)
LEMMA SuiteMoves ==
  [SuiteNext]_suite_vars =>
    /\ [ChainFacts!Next]_(ChainFacts!vars)
    /\ [LoopFacts!Next]_(LoopFacts!vars)
<1>1. Chain!Next => ChainFacts!Next
  <2>1. ASSUME NEW d, NEW payload, NEW timestamp, Chain!AppendPacket(d, payload, timestamp)
        PROVE  ChainFacts!AppendPacket(d, payload, timestamp)
    BY <2>1, Zenon
       DEF Chain!AppendPacket, Chain!NextPacket, Chain!CanonicalSha, Chain!GENESIS_SHA,
           Chain!auditVars, Chain!consoleVars,
           ChainFacts!AppendPacket, ChainFacts!NextPacket, ChainFacts!CanonicalSha,
           ChainFacts!GENESIS_SHA, ChainFacts!auditVars, ChainFacts!consoleVars
  <2>2. ASSUME NEW t, Chain!SetClock(t) PROVE ChainFacts!SetClock(t)
    BY <2>2, Zenon DEF Chain!SetClock, Chain!auditVars, Chain!consoleVars,
              ChainFacts!SetClock, ChainFacts!auditVars, ChainFacts!consoleVars
  <2>3. ASSUME NEW d, NEW i, NEW payload, Chain!Tamper(d, i, payload)
        PROVE  ChainFacts!Tamper(d, i, payload)
    BY <2>3, Zenon DEF Chain!Tamper, Chain!auditVars, Chain!consoleVars,
              ChainFacts!Tamper, ChainFacts!auditVars, ChainFacts!consoleVars
  <2>4. ASSUME NEW d, Chain!Project(d) PROVE ChainFacts!Project(d)
    BY <2>4, Zenon DEF Chain!Project, Chain!ToSbomChain, Chain!CanonicalSha, Chain!consoleVars,
              ChainFacts!Project, ChainFacts!ToSbomChain, ChainFacts!CanonicalSha,
              ChainFacts!consoleVars
  <2>5. ASSUME NEW d, Chain!ReadPage(d) PROVE ChainFacts!ReadPage(d)
    BY <2>5, Zenon DEF Chain!ReadPage, Chain!PageOf, Chain!PageEnd, Chain!auditVars,
              ChainFacts!ReadPage, ChainFacts!PageOf, ChainFacts!PageEnd, ChainFacts!auditVars
  <2> QED
    BY <2>1, <2>2, <2>3, <2>4, <2>5, Zenon DEF Chain!Next, ChainFacts!Next
<1>2. Loop!Next => LoopFacts!Next
  <2>1. ASSUME NEW d, NEW reading, NEW timestamp, Loop!Tick(d, reading, timestamp)
        PROVE  LoopFacts!Tick(d, reading, timestamp)
    BY <2>1, Zenon
       DEF Loop!Tick, Loop!NextPacket, Loop!CanonicalSha, Loop!GENESIS_SHA,
           LoopFacts!Tick, LoopFacts!NextPacket, LoopFacts!CanonicalSha, LoopFacts!GENESIS_SHA
  <2> QED
    BY <2>1, Zenon
       DEF Loop!Next, Loop!Arm, Loop!DualWitnessDisarm, Loop!RequestRtl, Loop!Abort, Loop!SetClock,
           LoopFacts!Next, LoopFacts!Arm, LoopFacts!DualWitnessDisarm, LoopFacts!RequestRtl,
           LoopFacts!Abort, LoopFacts!SetClock
<1> QED
  BY <1>1, <1>2
     DEF SuiteNext, MoveParts, MoveChain, MoveLoop, suite_vars, chain_vars, loop_vars,
         ChainFacts!vars, ChainFacts!auditVars, ChainFacts!consoleVars, LoopFacts!vars

(* The suite's chains behave as SensorReceiptChain says, its payloads as   *)
(* AirGapPayload does.                                                     *)
LEMMA SuiteBehaves == SuiteSpec => ChainFacts!Spec /\ LoopFacts!Spec
<1>1. SuiteInit => ChainFacts!Init /\ LoopFacts!Init
  BY DEF SuiteInit, Chain!Init, ChainFacts!Init, Loop!Init, LoopFacts!Init
<1> QED
  BY <1>1, SuiteMoves, PTL DEF SuiteSpec, suite_vars, ChainFacts!Spec, LoopFacts!Spec

(* What the theorems about the parts of the suite ask of their constants.  *)
LEMMA SuiteConstants ==
  /\ ChainFacts!ChainAssumption
  /\ LoopFacts!PayloadAssumption
  /\ LoopFacts!ConsoleAssumption
BY SuiteAssumption
   DEF Chain!ChainAssumption, ChainFacts!ChainAssumption, Loop!PayloadAssumption,
       LoopFacts!PayloadAssumption, Loop!ConsoleAssumption, LoopFacts!ConsoleAssumption

(* A write into any packet but the last is seen by the digests, and nothing*)
(* else is taken for one (is_sha_complete).                                *)
THEOREM SuiteTamperingSeen == SuiteSpec => []ShaSeesInnerTampering
<1>1. ChainFacts!Spec => []ChainFacts!ShaSeesInnerTampering
  BY SuiteConstants, ChainFacts!TamperingSeen
<1>2. ChainFacts!ShaSeesInnerTampering => ShaSeesInnerTampering
  BY Zenon DEF ShaSeesInnerTampering, Chain!ShaSeesInnerTampering, Chain!IsShaComplete,
         Chain!CanonicalSha, Chain!GENESIS_SHA,
         ChainFacts!ShaSeesInnerTampering, ChainFacts!IsShaComplete,
         ChainFacts!CanonicalSha, ChainFacts!GENESIS_SHA
<1> QED
  BY <1>1, <1>2, SuiteBehaves, PTL

(* Only a clock set back or a time a caller passed costs a chain its order *)
(* (append, is_total_ordered).                                             *)
THEOREM SuiteOrderKept == SuiteSpec => []OrderBreaksOnlyByClock
<1>1. ChainFacts!Spec => []ChainFacts!OrderBreaksOnlyByClock
  BY SuiteConstants, ChainFacts!OrderKept
<1>2. ChainFacts!OrderBreaksOnlyByClock => OrderBreaksOnlyByClock
  BY Zenon DEF OrderBreaksOnlyByClock, Chain!OrderBreaksOnlyByClock, Chain!IsTotalOrdered,
         ChainFacts!OrderBreaksOnlyByClock, ChainFacts!IsTotalOrdered
<1> QED
  BY <1>1, <1>2, SuiteBehaves, PTL

(* A chain never regains its order (is_total_ordered).                     *)
THEOREM SuiteDisorderIsForever == SuiteSpec => OrderNeverRepaired
<1>1. ChainFacts!Spec => ChainFacts!OrderNeverRepaired
  BY SuiteConstants, ChainFacts!DisorderIsForever
<1>2. [\A d \in ChainDrones : ~ChainFacts!IsTotalOrdered(packets[d])
                               => ~ChainFacts!IsTotalOrdered(packets'[d])]_(ChainFacts!vars)
      => [\A d \in ChainDrones : ~Chain!IsTotalOrdered(packets[d])
                                  => ~Chain!IsTotalOrdered(packets'[d])]_(Chain!vars)
  BY Zenon DEF Chain!IsTotalOrdered, ChainFacts!IsTotalOrdered, Chain!vars, ChainFacts!vars,
         Chain!auditVars, Chain!consoleVars, ChainFacts!auditVars, ChainFacts!consoleVars
<1> QED
  BY <1>1, <1>2, SuiteBehaves, PTL
     DEF OrderNeverRepaired, Chain!OrderNeverRepaired, ChainFacts!OrderNeverRepaired

(* A projection with the chain's digest is of the chain as it is           *)
(* (from_sbom_chain_view, chain_sha256).                                   *)
THEOREM SuiteAuditVouches == SuiteSpec => []ProjectionVouches
<1>1. ChainFacts!Spec => []ChainFacts!ProjectionVouches
  BY SuiteConstants, ChainFacts!AuditVouches
<1>2. ChainFacts!ProjectionVouches => ProjectionVouches
  BY Zenon DEF ProjectionVouches, Chain!ProjectionVouches, Chain!FromSbomChainView, Chain!ChainSha256,
         Chain!CanonicalSha,
         ChainFacts!ProjectionVouches, ChainFacts!FromSbomChainView, ChainFacts!ChainSha256,
         ChainFacts!CanonicalSha
<1> QED
  BY <1>1, <1>2, SuiteBehaves, PTL

(* The pages of a growing chain show every packet once and in order        *)
(* (receipt_chain_pane).                                                   *)
THEOREM SuitePagesGapless == SuiteSpec => []PagesShowEveryPacket
<1>1. ChainFacts!Spec => []ChainFacts!PagesShowEveryPacket
  BY SuiteConstants, ChainFacts!PagesGapless
<1>2. ChainFacts!PagesShowEveryPacket => PagesShowEveryPacket
  BY Zenon DEF PagesShowEveryPacket, Chain!PagesShowEveryPacket, ChainFacts!PagesShowEveryPacket
<1> QED
  BY <1>1, <1>2, SuiteBehaves, PTL

(* Nothing but time stamps costs a payload its invariant                   *)
(* (tick, uds_invariant_holds).                                            *)
THEOREM SuiteControlKeepsTheChain == SuiteSpec => []OnlyStampsBreakTheInvariant
<1>1. LoopFacts!Spec => []LoopFacts!OnlyStampsBreakTheInvariant
  BY SuiteConstants, LoopFacts!ControlKeepsTheChain
<1>2. LoopFacts!OnlyStampsBreakTheInvariant => OnlyStampsBreakTheInvariant
  BY Zenon DEF OnlyStampsBreakTheInvariant, Loop!OnlyStampsBreakTheInvariant, Loop!Axis1Provenance,
         Loop!Axis5Temporal, Loop!UdsInvariantHolds, Loop!WellFormed, Loop!IsShaComplete,
         Loop!IsTotalOrdered, Loop!CanonicalSha, Loop!GENESIS_SHA,
         LoopFacts!OnlyStampsBreakTheInvariant, LoopFacts!Axis1Provenance,
         LoopFacts!Axis5Temporal, LoopFacts!UdsInvariantHolds, LoopFacts!WellFormed,
         LoopFacts!IsShaComplete, LoopFacts!IsTotalOrdered, LoopFacts!CanonicalSha,
         LoopFacts!GENESIS_SHA
<1> QED
  BY <1>1, <1>2, SuiteBehaves, PTL

(* Every disarming a chain shows has its passage of the gate               *)
(* (dual_witness_disarm).                                                  *)
THEOREM SuiteGateCoversDisarms == SuiteSpec => []DisarmsAreWitnessed
<1>1. LoopFacts!Spec => []LoopFacts!DisarmsAreWitnessed
  BY LoopFacts!GateCoversDisarms
<1>2. LoopFacts!DisarmsAreWitnessed => DisarmsAreWitnessed
  BY Zenon DEF DisarmsAreWitnessed, Loop!DisarmsAreWitnessed, Loop!DisarmsShown, Loop!Axis2Witness, Loop!Cardinality,
         LoopFacts!Cardinality, LoopFacts!DisarmsAreWitnessed, LoopFacts!DisarmsShown, LoopFacts!Axis2Witness
<1> QED
  BY <1>1, <1>2, SuiteBehaves, PTL

(* A payload in trouble is on the console, but for the pane of one whose   *)
(* tail number an earlier one has (render, receipt_chain_pane).            *)
THEOREM SuiteShowsTrouble == SuiteSpec => []TroubleIsVisible
<1>1. LoopFacts!Spec => []LoopFacts!TroubleIsVisible
  BY SuiteConstants, LoopFacts!ConsoleShowsTrouble
<1>2. LoopFacts!TroubleIsVisible => TroubleIsVisible
  BY Zenon DEF TroubleIsVisible, Loop!TroubleIsVisible, Loop!Render, Loop!Cardinality, LoopFacts!Cardinality, Loop!HukllaAlerts, Loop!Pending,
         Loop!Match, Loop!ReceiptChainPane, Loop!Shadowed, Loop!UdsInvariantHolds, Loop!WellFormed,
         Loop!IsShaComplete, Loop!IsTotalOrdered, Loop!CanonicalSha, Loop!GENESIS_SHA,
         LoopFacts!TroubleIsVisible, LoopFacts!Render, LoopFacts!HukllaAlerts, LoopFacts!Pending,
         LoopFacts!Match, LoopFacts!ReceiptChainPane, LoopFacts!Shadowed,
         LoopFacts!UdsInvariantHolds, LoopFacts!WellFormed, LoopFacts!IsShaComplete,
         LoopFacts!IsTotalOrdered, LoopFacts!CanonicalSha, LoopFacts!GENESIS_SHA
<1> QED
  BY <1>1, <1>2, SuiteBehaves, PTL

(* The control loops use their chains as SensorReceiptChain says (tick).   *)
THEOREM SuiteLoopImplementsChain == SuiteSpec => ImplementsReceiptChain
<1>1. LoopFacts!Spec => LoopFacts!ImplementsReceiptChain
  BY LoopFacts!LoopImplementsChain
<1>2. LoopFacts!Chains!Init => Loop!Chains!Init
  BY Zenon DEF LoopFacts!Chains!Init, Loop!Chains!Init
<1>3. [LoopFacts!Chains!Next]_(LoopFacts!Chains!vars) =>
        [UNCHANGED loop_vars \/ Loop!Chains!Next]_(Loop!Chains!vars)
  <2>1. ASSUME NEW d, NEW payload, NEW timestamp,
               LoopFacts!Chains!AppendPacket(d, payload, timestamp)
        PROVE  Loop!Chains!AppendPacket(d, payload, timestamp)
    BY <2>1, Zenon
       DEF LoopFacts!Chains!AppendPacket, Loop!Chains!AppendPacket,
           LoopFacts!Chains!NextPacket, Loop!Chains!NextPacket,
           LoopFacts!Chains!CanonicalSha, Loop!Chains!CanonicalSha,
           LoopFacts!Chains!GENESIS_SHA, Loop!Chains!GENESIS_SHA,
           LoopFacts!Chains!auditVars, Loop!Chains!auditVars,
           LoopFacts!Chains!consoleVars, Loop!Chains!consoleVars
  <2>2. ASSUME NEW t, LoopFacts!Chains!SetClock(t)
        PROVE  Loop!Chains!SetClock(t)
    BY <2>2, Zenon
       DEF LoopFacts!Chains!SetClock, Loop!Chains!SetClock,
           LoopFacts!Chains!auditVars, Loop!Chains!auditVars,
           LoopFacts!Chains!consoleVars, Loop!Chains!consoleVars
  <2>3. ASSUME NEW d, NEW i, NEW payload, LoopFacts!Chains!Tamper(d, i, payload)
        PROVE  Loop!Chains!Tamper(d, i, payload)
    BY <2>3, Zenon
       DEF LoopFacts!Chains!Tamper, Loop!Chains!Tamper,
           LoopFacts!Chains!auditVars, Loop!Chains!auditVars,
           LoopFacts!Chains!consoleVars, Loop!Chains!consoleVars
  <2>4. ASSUME NEW d, LoopFacts!Chains!Project(d)
        PROVE  Loop!Chains!Project(d)
    BY <2>4, Zenon
       DEF LoopFacts!Chains!Project, Loop!Chains!Project,
           LoopFacts!Chains!ToSbomChain, Loop!Chains!ToSbomChain,
           LoopFacts!Chains!CanonicalSha, Loop!Chains!CanonicalSha,
           LoopFacts!Chains!consoleVars, Loop!Chains!consoleVars
  <2>5. ASSUME NEW d, LoopFacts!Chains!ReadPage(d)
        PROVE  Loop!Chains!ReadPage(d)
    BY <2>5, Zenon
       DEF LoopFacts!Chains!ReadPage, Loop!Chains!ReadPage,
           LoopFacts!Chains!PageOf, Loop!Chains!PageOf,
           LoopFacts!Chains!PageEnd, Loop!Chains!PageEnd,
           LoopFacts!Chains!auditVars, Loop!Chains!auditVars
  <2>6. LoopFacts!Chains!Next => Loop!Chains!Next
    BY <2>1, <2>2, <2>3, <2>4, <2>5, Zenon
       DEF LoopFacts!Chains!Next, Loop!Chains!Next, LoopFacts!Payloads, Loop!Payloads
  <2> QED
    BY <2>6 DEF LoopFacts!Chains!vars, Loop!Chains!vars,
       LoopFacts!Chains!auditVars, Loop!Chains!auditVars,
       LoopFacts!Chains!consoleVars, Loop!Chains!consoleVars
<1> QED
  BY <1>1, <1>2, <1>3, SuiteBehaves, PTL
     DEF ImplementsReceiptChain, LoopFacts!ImplementsReceiptChain, LoopFacts!Chains!Spec
=============================================================================
