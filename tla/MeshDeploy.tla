----------------------------- MODULE MeshDeploy -----------------------------
(***************************************************************************)
(* The mesh on a cluster: the manifests of manifests/istio, manifests/otel *)
(* and manifests/netpol, applied and rolled back by an operator with the   *)
(* kubectl commands of docs/MESH_RUNBOOK.md, and what the NetworkPolicies  *)
(* in force let through at each moment.                                    *)
(*                                                                         *)
(* kubectl sends the objects of a file one by one in the file's order; any *)
(* of them may be refused, and the rest is sent all the same.  Once a      *)
(* command has returned the operator repeats it or goes on, whatever of it *)
(* was refused; only the collector must be ready before the policies.      *)
(***************************************************************************)
EXTENDS Integers, Sequences, FiniteSets, SequencesExt

CONSTANTS MaxRefused   \* bound: objects the API server refuses

VARIABLES
  present,   \* the objects the cluster has
  commands,  \* the commands the operator is going through
  line,      \* the command under way
  object,    \* the object of its file to be sent next
  ready,     \* the collector's pod is ready
  refused,   \* objects refused, against MaxRefused
  missed     \* history: <<verb, object>> refused and not accepted since

vars == <<present, commands, line, object, ready, refused, missed>>

\* The manifests, each the list of its objects.
PeerAuthentication ==
  <<"a11oy-strict-mtls", "sentra-strict-mtls", "amaru-strict-mtls",
    "killinchu-strict-mtls", "rosie-strict-mtls">>
DestinationRule == <<"mesh-otlp-collector-mtls", "organs-istio-mutual">>
Collector == <<"mesh-otel-collector-config", "deployment", "service">>

DenyAll      == "default-deny-all"
AllowIngress == "allow-otlp-ingress-to-collector"
AllowVsp     == "allow-collector-egress-to-vsp-otel"
AllowDns     == "allow-dns-egress"
NetworkPolicies == <<DenyAll, AllowIngress, AllowVsp, AllowDns>>

Identity == ToSet(PeerAuthentication \o DestinationRule)

Apply(file)  == [verb |-> "apply", file |-> file]
Delete(file) == [verb |-> "delete", file |-> file]

Deploy ==
  <<Apply(PeerAuthentication), Apply(DestinationRule), Apply(Collector),
    Apply(NetworkPolicies)>>

\* Mutation of Rollback: in the order of the deployment.
RollbackInOrder ==
  <<Delete(PeerAuthentication), Delete(DestinationRule), Delete(Collector),
    Delete(NetworkPolicies)>>

Rollback ==
  <<Delete(NetworkPolicies), Delete(Collector), Delete(DestinationRule),
    Delete(PeerAuthentication)>>
----------------------------------------------------------------------------
\* One pod of each kind: an organ's, in a namespace labelled as one; a bridge,
\* the collector and the verifier in szl-mesh; the cluster's DNS; another's.
Pods     == {"organ", "bridge", "collector", "vsp-otel", "dns", "outsider"}
MeshPods == {"bridge", "collector", "vsp-otel"}

\* What each policy selects, for which directions, and whom it lets through.
Selects(policy) == IF policy \in {DenyAll, AllowDns} THEN MeshPods ELSE {"collector"}

Isolates(policy) ==
  CASE policy = DenyAll      -> {"ingress", "egress"}
    [] policy = AllowIngress -> {"ingress"}
    [] OTHER                 -> {"egress"}

\* Mutation of Peers: the ingress selector selects all.
PeersOfAll(policy) ==
  CASE policy = DenyAll      -> {}
    [] policy = AllowIngress -> Pods \X {4317, 4318}
    [] policy = AllowVsp     -> {"vsp-otel"} \X {4318}
    [] policy = AllowDns     -> Pods \X {53}

Peers(policy) ==
  CASE policy = DenyAll      -> {}
    [] policy = AllowIngress -> ({"organ"} \cup MeshPods) \X {4317, 4318}
    [] policy = AllowVsp     -> {"vsp-otel"} \X {4318}
    [] policy = AllowDns     -> Pods \X {53}

InForce(pod, direction) ==
  {policy \in present \cap ToSet(NetworkPolicies) :
     pod \in Selects(policy) /\ direction \in Isolates(policy)}

\* A pod no policy isolates in a direction may do anything in it; another one
\* what one of its policies lets through.
MayPass(pod, direction, peer, port) ==
  LET policies == InForce(pod, direction)
  IN  policies = {} \/ \E policy \in policies : <<peer, port>> \in Peers(policy)

Connects(from, to, port) ==
  MayPass(from, "egress", to, port) /\ MayPass(to, "ingress", from, port)
----------------------------------------------------------------------------
Init ==
  /\ present = {} /\ commands = Deploy /\ line = 1 /\ object = 1
  /\ ready = FALSE /\ refused = 0 /\ missed = {}

Going == line <= Len(commands)
Verb  == commands[line].verb
File  == commands[line].file

\* The next object of the file is sent, and refused or not.
SendObject(accepted) ==
  /\ Going
  /\ object <= Len(File)
  /\ ~accepted => refused < MaxRefused
  /\ refused' = IF accepted THEN refused ELSE refused + 1
  /\ present' = IF ~accepted THEN present
                ELSE IF Verb = "apply" THEN present \cup {File[object]}
                ELSE present \ {File[object]}
  /\ missed' = IF accepted THEN missed \ {<<Verb, File[object]>>}
               ELSE missed \cup {<<Verb, File[object]>>}
  /\ object' = object + 1
  /\ ready' = (ready /\ ToSet(Collector) \subseteq present')
  /\ UNCHANGED <<commands, line>>

\* The command has returned: it is repeated, or the next one follows; after
\* the collector's only when rollout status saw it ready.
NextCommand ==
  /\ Going
  /\ object > Len(File)
  /\ object' = 1
  /\ \/ line' = line
     \/ line' = line + 1 /\ (commands[line] = Apply(Collector) => ready)
  /\ UNCHANGED <<present, commands, ready, refused, missed>>

\* Between two commands the operator turns back.
TurnBack ==
  /\ commands = Deploy
  /\ object = 1
  /\ commands' = Rollback
  /\ line' = 1
  /\ UNCHANGED <<present, object, ready, refused, missed>>

CollectorStarts ==
  /\ ToSet(Collector) \subseteq present
  /\ ready' = TRUE
  /\ UNCHANGED <<present, commands, line, object, refused, missed>>

CollectorFails ==
  /\ ready' = FALSE
  /\ UNCHANGED <<present, commands, line, object, refused, missed>>

Next ==
  \/ \E accepted \in BOOLEAN : SendObject(accepted)
  \/ NextCommand
  \/ TurnBack
  \/ CollectorStarts
  \/ CollectorFails

Spec == Init /\ [][Next]_vars
----------------------------------------------------------------------------
(* Whenever the default-deny is there, organs reach a ready collector: no  *)
(* deployment and no rollback passes through a bare default-deny (runbook  *)
(* lines 63-65: "so there is no window where default-deny is active        *)
(* without its allow-rules"; lines 86-87 of the rollback).                 *)
NoBareDeny == DenyAll \in present /\ ready => Connects("organ", "collector", 4317)

(* While the default-deny is there no pod of another namespace that is not *)
(* an organ's gets into szl-mesh and none of szl-mesh gets out, but to DNS *)
(* ports, however far the file has been applied or deleted.                *)
DenyHoldsAgainstOutsiders ==
  DenyAll \in present =>
    \A pod \in MeshPods, port \in {4317, 4318} :
      ~Connects("outsider", pod, port) /\ ~Connects(pod, "outsider", port)

(* Nothing of the collector or the policies stands without an object of    *)
(* the identity layer unless the API server refused that object when it    *)
(* was applied, or the other's deletion; going on after a refusal, turning *)
(* back half-way and repeating commands lay nothing else bare (runbook     *)
(* lines 55 and 93: mTLS first, removed last).                             *)
IdentityFirst ==
  \A x \in present \cap ToSet(Collector \o NetworkPolicies), y \in Identity \ present :
    <<"apply", y>> \in missed \/ <<"delete", x>> \in missed

(* With all four policies applied, the connections their comments name get *)
(* through: organs and bridges of the namespace to the collector, the      *)
(* collector to vsp-otel, every pod to DNS (network-policies.yaml lines    *)
(* 56, 64-65 and 88-90).                                                   *)
AllowRulesAllow ==
  ToSet(NetworkPolicies) \subseteq present =>
    /\ \A from \in {"organ", "bridge"} : Connects(from, "collector", 4318)
    /\ Connects("collector", "vsp-otel", 4318)
    /\ \A pod \in MeshPods : Connects(pod, "dns", 53)
=============================================================================
