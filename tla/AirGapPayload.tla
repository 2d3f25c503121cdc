---------------------------- MODULE AirGapPayload ----------------------------
(***************************************************************************)
(* UDSAirGapPayload (uds_v18_24_substrate.py): the drone's state flags,    *)
(* its two-witness gate, RTL and abort, and the control loop that appends  *)
(* a packet to the receipt chain on every tick.                            *)
(***************************************************************************)
EXTENDS SensorChain, FiniteSets

CONSTANTS
  Drones,         \* the payloads; a drone stands for its tail number
  Readings,       \* the fused sensor readings a tick may put into a packet
  Times,          \* the times the wall clock may show and a caller may pass
  Names,          \* the witness names a caller may pass
  EmptyName,      \* the empty witness name
  NoProjection,   \* no SBOM projection (see SensorReceiptChain)
  MaxPackets,     \* bound: packets of one chain
  MaxGates        \* bound: passages of the two-witness gate

\* What the constants have to be.
PayloadAssumption ==
  Times \subseteq Nat /\ MaxPackets \in Nat /\ MaxGates \in Nat

VARIABLES
  armed,          \* per drone: state.armed
  rtl,            \* per drone: state.rtl
  chain,          \* per drone: the packets of its receipt chain
  witness_count,  \* per drone: passages of the two-witness gate
  abort_flag,     \* per drone: the latched abort flag
  clock,          \* what time.time_ns() returns
  set_back,       \* history: the clock was set back at some time
  misdated        \* history: drones whose tick was passed another time

vars == <<armed, rtl, chain, witness_count, abort_flag, clock, set_back, misdated>>

\* The payload dict of a tick: the fused reading and the state flags.
Payloads == [reading : Readings, armed : BOOLEAN, rtl : BOOLEAN]

Init ==
  /\ armed = [d \in Drones |-> FALSE]
  /\ rtl = [d \in Drones |-> FALSE]
  /\ chain = [d \in Drones |-> <<>>]
  /\ witness_count = [d \in Drones |-> 0]
  /\ abort_flag = [d \in Drones |-> FALSE]
  /\ clock \in Times
  /\ set_back = FALSE
  /\ misdated = {}

\* Mutation of Tick: the packet is appended twice.
TickTwice(d, reading, timestamp) ==
  /\ Len(chain[d]) < MaxPackets
  /\ LET payload == [reading |-> reading, armed |-> armed[d], rtl |-> rtl[d]]
         packet  == NextPacket(chain[d], d, payload, timestamp)
     IN  chain' = [chain EXCEPT ![d] = Append(Append(@, packet), packet)]
  /\ misdated' = IF timestamp = clock THEN misdated ELSE misdated \cup {d}
  /\ UNCHANGED <<armed, rtl, witness_count, abort_flag, clock, set_back>>

\* One turn of the control loop appends a packet, aborted or not, with the
\* caller's timestamp_ns or, by default, the clock's time.
Tick(d, reading, timestamp) ==
  /\ Len(chain[d]) < MaxPackets
  /\ LET payload == [reading |-> reading, armed |-> armed[d], rtl |-> rtl[d]]
     IN  chain' = [chain EXCEPT
           ![d] = Append(chain[d], NextPacket(chain[d], d, payload, timestamp))]
  /\ misdated' = IF timestamp = clock THEN misdated ELSE misdated \cup {d}
  /\ UNCHANGED <<armed, rtl, witness_count, abort_flag, clock, set_back>>

\* Arming has no method: code outside sets the public field.  That it might
\* clear it as well, past the gate, is left out.
Arm(d) ==
  /\ armed' = [armed EXCEPT ![d] = TRUE]
  /\ UNCHANGED <<rtl, chain, witness_count, abort_flag, clock, set_back, misdated>>

\* The gate counts every passage, whether the drone was armed or not.
DualWitnessDisarm(d, witness_a, witness_b) ==
  /\ witness_count[d] < MaxGates
  /\ witness_a # EmptyName
  /\ witness_b # EmptyName
  /\ witness_a # witness_b
  /\ armed' = [armed EXCEPT ![d] = FALSE]
  /\ witness_count' = [witness_count EXCEPT ![d] = @ + 1]
  /\ UNCHANGED <<rtl, chain, abort_flag, clock, set_back, misdated>>

\* Mutation of RequestRtl: it disarms as well.
RequestRtlDisarms(d) ==
  /\ rtl' = [rtl EXCEPT ![d] = TRUE]
  /\ armed' = [armed EXCEPT ![d] = FALSE]
  /\ UNCHANGED <<chain, witness_count, abort_flag, clock, set_back, misdated>>

RequestRtl(d) ==
  /\ rtl' = [rtl EXCEPT ![d] = TRUE]
  /\ UNCHANGED <<armed, chain, witness_count, abort_flag, clock, set_back, misdated>>

Abort(d) ==
  /\ abort_flag' = [abort_flag EXCEPT ![d] = TRUE]
  /\ UNCHANGED <<armed, rtl, chain, witness_count, clock, set_back, misdated>>

SetClock(t) ==
  /\ clock' = t
  /\ set_back' = (set_back \/ t < clock)
  /\ UNCHANGED <<armed, rtl, chain, witness_count, abort_flag, misdated>>

Next ==
  \/ \E d \in Drones, reading \in Readings, timestamp \in Times :
       Tick(d, reading, timestamp)
  \/ \E d \in Drones : Arm(d)
  \/ \E d \in Drones, a, b \in {EmptyName} \cup Names : DualWitnessDisarm(d, a, b)
  \/ \E d \in Drones : RequestRtl(d)
  \/ \E d \in Drones : Abort(d)
  \/ \E t \in Times : SetClock(t)

Spec == Init /\ [][Next]_vars
----------------------------------------------------------------------------
\* The axes of lambda_axes that the payload's own state decides.
Axis1Provenance(d) == IF IsShaComplete(chain[d]) THEN 1 ELSE 0
Axis2Witness(d)    == IF witness_count[d] < 1 THEN witness_count[d] ELSE 1
Axis5Temporal(d)   == IF IsTotalOrdered(chain[d]) THEN 1 ELSE 0

UdsInvariantHolds(d) == WellFormed(chain[d])

\* Consecutive packets that show the drone armed, then not.
DisarmsShown(d) ==
  {i \in 2..Len(chain[d]) : chain[d][i - 1].payload.armed /\ ~chain[d][i].payload.armed}

(* A drone's chain shows no more disarmings than its two-witness gate let  *)
(* pass, RTL or abort notwithstanding, and none while the witness axis is  *)
(* still at 0 (lines 533-535: "Two-witness gate enforced for any armed ->  *)
(* not-armed transition that is not RTL").                                 *)
DisarmsAreWitnessed ==
  \A d \in Drones :
    /\ Cardinality(DisarmsShown(d)) <= witness_count[d]
    /\ DisarmsShown(d) # {} => Axis2Witness(d) = 1

(* The digests of a payload's chain always match, and its invariant fails  *)
(* only with the temporal axis, after the clock was set back or a tick of  *)
(* this payload was passed another time: no order of ticks, arming, gate,  *)
(* RTL and abort, and no other payload, costs it its well-formed chain     *)
(* (tick, uds_invariant_holds).                                            *)
OnlyStampsBreakTheInvariant ==
  \A d \in Drones :
    /\ Axis1Provenance(d) = 1
    /\ ~UdsInvariantHolds(d) => Axis5Temporal(d) = 0 /\ (set_back \/ d \in misdated)

(* An aborted payload puts out no further packet (abort, line 617: "Abort  *)
(* halts further control output").                                         *)
AbortHaltsOutput ==
  [][\A d \in Drones : abort_flag[d] => chain'[d] = chain[d]]_vars

\* The receipt chains of the payloads, with no one tampering, auditing or
\* reading along.
Chains == INSTANCE SensorReceiptChain WITH
  PageSize   <- 1,
  MaxTampers <- 0,
  tampers    <- 0,
  sealed     <- [d \in Drones |->
                   IF chain[d] = <<>> THEN <<>> ELSE SubSeq(chain[d], 1, Len(chain[d]) - 1)],
  projection <- [d \in Drones |-> NoProjection],
  audited    <- [d \in Drones |-> <<>>],
  page       <- [d \in Drones |-> 0],
  shown      <- [d \in Drones |-> <<>>],
  done       <- [d \in Drones |-> FALSE]

(* The control loop uses its chain as SensorReceiptChain says a chain is   *)
(* used: it only ever appends, and only on a tick.                         *)
ImplementsReceiptChain == Chains!Spec
=============================================================================
