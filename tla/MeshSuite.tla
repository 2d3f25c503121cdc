----------------------------- MODULE MeshSuite -----------------------------
(***************************************************************************)
(* The parts of MeshParts, the receipt chain among its users and the       *)
(* air-gap payloads under their console, side by side: `moving` is the one *)
(* that moves.  They are three specifications checked in one run; the      *)
(* reachable states are the sum of theirs, not a product.                  *)
(***************************************************************************)
EXTENDS MeshParts, Sequences

CONSTANTS
  Times, NoProjection, MaxPackets,                              \* both
  ChainDrones, ChainPayloads, PageSize, MaxTampers,             \* SensorReceiptChain
  Drones, Readings, Witnesses, EmptyName, MaxGates,             \* AirGapPayload
  Fleet, TailNumbers, TokenTails, FirstPage                     \* OperatorConsole

VARIABLES
  moving,
  packets, wall_clock, wall_set_back, strays,                   \* SensorReceiptChain
  tampers, chained, projection, audited, page, shown, done,
  armed, rtl, chain, witness_count, abort_flag,                 \* AirGapPayload
  clock, set_back, misdated

Chain == INSTANCE SensorReceiptChain WITH
  Drones <- ChainDrones, Payloads <- ChainPayloads,
  chain <- packets, clock <- wall_clock, set_back <- wall_set_back, misdated <- strays,
  sealed <- chained

Loop == INSTANCE OperatorConsole WITH Names <- Witnesses

ASSUME SuiteAssumption ==
  Chain!ChainAssumption /\ Loop!PayloadAssumption /\ Loop!ConsoleAssumption
----------------------------------------------------------------------------
chain_vars == <<packets, wall_clock, wall_set_back, strays, tampers, chained, projection,
                audited, page, shown, done>>
loop_vars  == <<armed, rtl, chain, witness_count, abort_flag, clock, set_back, misdated>>
suite_vars == <<moving, parts_vars, chain_vars, loop_vars>>

\* What does not move stays in one of its initial states.
SuiteInit ==
  /\ moving \in {"parts", "chain", "loop"}
  /\ IF moving = "parts" THEN part \in Names ELSE part = "stats"
  /\ PartsInit
  /\ Chain!Init /\ (moving # "chain" => wall_clock = CHOOSE t \in Times : TRUE)
  /\ Loop!Init /\ (moving # "loop" => clock = CHOOSE t \in Times : TRUE)

MoveParts ==
  /\ moving = "parts" /\ PartsNext
  /\ UNCHANGED <<moving, chain_vars, loop_vars>>

MoveChain ==
  /\ moving = "chain" /\ Chain!Next
  /\ UNCHANGED <<moving, parts_vars, loop_vars>>

MoveLoop ==
  /\ moving = "loop" /\ Loop!Next
  /\ UNCHANGED <<moving, parts_vars, chain_vars>>

SuiteNext == MoveParts \/ MoveChain \/ MoveLoop

SuiteSpec == SuiteInit /\ [][SuiteNext]_suite_vars
----------------------------------------------------------------------------
\* What is said of the chain and of the payloads is said where they move:
\* elsewhere each is in one of its initial states.

(* Every packet but the last reads as when its successor was chained to it,*)
(* or is_sha_complete is down.                                             *)
ShaSeesInnerTampering == moving = "chain" => Chain!ShaSeesInnerTampering

(* A chain is out of order only after the clock was set back or a caller   *)
(* passed another time (append, is_total_ordered).                         *)
OrderBreaksOnlyByClock == moving = "chain" => Chain!OrderBreaksOnlyByClock

(* An order once lost stays lost (is_total_ordered).                       *)
OrderNeverRepaired == Chain!OrderNeverRepaired

(* A projection whose digest is the chain's is of that very chain          *)
(* (from_sbom_chain_view, chain_sha256).                                   *)
ProjectionVouches == moving = "chain" => Chain!ProjectionVouches

(* The pages of a growing chain show each packet once (receipt_chain_pane).*)
PagesShowEveryPacket == moving = "chain" => Chain!PagesShowEveryPacket

(* A chain shows no more disarmings than its gate let pass                 *)
(* (dual_witness_disarm).                                                  *)
DisarmsAreWitnessed == moving = "loop" => Loop!DisarmsAreWitnessed

(* Only time stamps cost a payload its invariant (tick,                    *)
(* uds_invariant_holds).                                                   *)
OnlyStampsBreakTheInvariant == moving = "loop" => Loop!OnlyStampsBreakTheInvariant

(* A payload in trouble is on the console, but for one whose tail number   *)
(* an earlier one has (receipt_chain_pane, render).                        *)
TroubleIsVisible == moving = "loop" => Loop!TroubleIsVisible

(* The control loop uses its chain as SensorReceiptChain says.  This is    *)
(* Loop!ImplementsReceiptChain with its stutters written first: a step     *)
(* that moves nothing of the payloads moves nothing of their chains.       *)
ImplementsReceiptChain ==
  Loop!Chains!Init /\ [][UNCHANGED loop_vars \/ Loop!Chains!Next]_(Loop!Chains!vars)
=============================================================================
