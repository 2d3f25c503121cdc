--------------------------- MODULE OperatorConsole ---------------------------
(***************************************************************************)
(* UDSOperatorConsoleDataPlane (uds_v18_24_substrate.py): what the panes   *)
(* say of a fleet of air-gap payloads at any moment of their control       *)
(* loops.  The pane of the A15 check passes its result through (A15Complex)*)
(* and the pages of the chain viewer after the first are read in           *)
(* SensorReceiptChain.                                                     *)
(*                                                                         *)
(* A payload object is a drone of AirGapPayload; the tail number it was    *)
(* built with is an argument here, for two payloads may have the same.     *)
(***************************************************************************)
EXTENDS AirGapPayload

CONSTANTS
  Fleet,          \* the list of payloads the console was built with
  TailNumbers,    \* the tail numbers payloads may be built with
  TokenTails,     \* those that contain a token of HUKLLA_FORBIDDEN_TOKENS
  FirstPage       \* page_size: packets on a page

\* What the constants have to be.
ConsoleAssumption ==
  /\ Fleet \in Seq(Drones)
  /\ TokenTails \subseteq TailNumbers
  /\ FirstPage \in Nat \ {0}

\* A packet's encoding holds numbers, flags and the tail number: a packet with
\* a forbidden token is one of a payload whose tail number contains it.
HukllaAlerts(tails) ==
  LET flagged == {i \in DOMAIN Fleet : tails[Fleet[i]] \in TokenTails}
  IN  UNION {{<<tails[Fleet[i]], n>> : n \in 0..Len(chain[Fleet[i]]) - 1} : i \in flagged}

\* The payloads that wait for two witnesses.
Pending == {i \in DOMAIN Fleet : armed[Fleet[i]] /\ ~rtl[Fleet[i]]}

\* Mutation of Match: the last payload with the tail number.
MatchLast(tails, tail) ==
  CHOOSE i \in DOMAIN Fleet :
    /\ tails[Fleet[i]] = tail
    /\ \A j \in i + 1..Len(Fleet) : tails[Fleet[j]] # tail

\* next(...): the first payload with the tail number.
Match(tails, tail) ==
  CHOOSE i \in DOMAIN Fleet :
    /\ tails[Fleet[i]] = tail
    /\ \A j \in 1..i - 1 : tails[Fleet[j]] # tail

ReceiptChainPane(tails, tail) ==
  LET pkts == chain[Fleet[Match(tails, tail)]]
      end  == IF Len(pkts) < FirstPage THEN Len(pkts) ELSE FirstPage
  IN  [tail_number |-> tail,
       total       |-> Len(pkts),
       packets     |-> [k \in 1..end |-> CanonicalSha(pkts[k])],
       well_formed |-> WellFormed(pkts)]

Render(tails) ==
  [huklla_alerts |-> HukllaAlerts(tails),
   dual_witness  |-> Cardinality(Pending),
   receipt_chain |-> [i \in DOMAIN Fleet |-> ReceiptChainPane(tails, tails[Fleet[i]])]]

Shadowed(tails, i) == \E j \in 1..i - 1 : tails[Fleet[j]] = tails[Fleet[i]]

(* A payload that waits for witnesses or puts a token into its packets is  *)
(* seen on the console, whatever tail numbers the fleet was given; and the *)
(* pane of a payload whose tail number no earlier one has shows the length *)
(* and the health of its own chain (receipt_chain_pane, render).  Nothing  *)
(* is said of a payload that shares the tail number of an earlier one: its *)
(* pane is the earlier one's, and its own chain is on no pane.             *)
TroubleIsVisible ==
  \A tails \in [Drones -> TailNumbers] :
    LET panes == Render(tails) IN
    \A i \in DOMAIN Fleet :
      LET d == Fleet[i] IN
      /\ ~Shadowed(tails, i) =>
           /\ panes.receipt_chain[i].total = Len(chain[d])
           /\ panes.receipt_chain[i].well_formed = UdsInvariantHolds(d)
      /\ chain[d] # <<>> /\ tails[d] \in TokenTails =>
           \E alert \in panes.huklla_alerts : alert[1] = tails[d]
      /\ armed[d] /\ ~rtl[d] => panes.dual_witness > 0
=============================================================================
