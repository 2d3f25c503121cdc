-------------------------- MODULE SensorReceiptChain --------------------------
(***************************************************************************)
(* UDSSensorReceiptChain (uds_v18_24_substrate.py) in use: chains that     *)
(* grow, and around them what the code leaves to others: a wall clock that *)
(* may be set back, holders of packets who write into their payload dicts, *)
(* an auditor who keeps an SBOM projection, and an operator who turns the  *)
(* pages of the console's chain viewer while packets keep coming.          *)
(***************************************************************************)
EXTENDS SensorChain

CONSTANTS
  Drones,         \* one chain per drone; a drone stands for its tail number
  Payloads,       \* what a packet may carry
  Times,          \* the times the wall clock may show and a caller may pass
  NoProjection,   \* the auditor holds no projection
  PageSize,       \* page_size of the chain viewer
  MaxPackets,     \* bound: packets of one chain
  MaxTampers      \* bound: writes into payload dicts

\* What the constants have to be.
ChainAssumption ==
  /\ Times \subseteq Nat
  /\ PageSize \in Nat \ {0}
  /\ MaxPackets \in Nat
  /\ MaxTampers \in Nat

VARIABLES
  chain,       \* per drone: the packets
  clock,       \* what time.time_ns() returns
  set_back,    \* history: the clock was set back at some time
  misdated,    \* history: drones that were passed a time the clock did not show
  tampers,     \* writes into payload dicts, against MaxTampers
  sealed,      \* history, per drone: packet i as packet i + 1 was chained to it
  projection,  \* per drone: the SBOM projection the auditor holds
  audited,     \* history, per drone: the chain it was taken from
  page,        \* per drone: the page the operator reads next
  shown,       \* per drone: the sequence numbers the operator has read
  done         \* per drone: the operator met a page that was not full

auditVars   == <<projection, audited>>
consoleVars == <<page, shown, done>>
vars == <<chain, clock, set_back, misdated, tampers, sealed, auditVars, consoleVars>>

Init ==
  /\ chain = [d \in Drones |-> <<>>]
  /\ clock \in Times
  /\ set_back = FALSE
  /\ misdated = {}
  /\ tampers = 0
  /\ sealed = [d \in Drones |-> <<>>]
  /\ projection = [d \in Drones |-> NoProjection]
  /\ audited = [d \in Drones |-> <<>>]
  /\ page = [d \in Drones |-> 0]
  /\ shown = [d \in Drones |-> <<>>]
  /\ done = [d \in Drones |-> FALSE]

\* append: the time is the caller's timestamp_ns, by default the clock's.
AppendPacket(d, payload, timestamp) ==
  /\ Len(chain[d]) < MaxPackets
  /\ chain' = [chain EXCEPT
       ![d] = Append(chain[d], NextPacket(chain[d], d, payload, timestamp))]
  /\ misdated' = IF timestamp = clock THEN misdated ELSE misdated \cup {d}
  /\ sealed' = [sealed EXCEPT
       ![d] = IF chain[d] = <<>> THEN <<>> ELSE Append(sealed[d], chain[d][Len(chain[d])])]
  /\ UNCHANGED <<clock, set_back, tampers, auditVars, consoleVars>>

\* The wall clock moves on, or is set back.
SetClock(t) ==
  /\ clock' = t
  /\ set_back' = (set_back \/ t < clock)
  /\ UNCHANGED <<chain, misdated, tampers, sealed, auditVars, consoleVars>>

\* A packet is frozen, its payload dict is not: whoever holds the packet,
\* from append() or packets(), can write into the dict the chain reads.
Tamper(d, i, payload) ==
  /\ tampers < MaxTampers
  /\ tampers' = tampers + 1
  /\ chain' = [chain EXCEPT
       ![d] = [chain[d] EXCEPT ![i] = [chain[d][i] EXCEPT !.payload = payload]]]
  /\ UNCHANGED <<clock, set_back, misdated, sealed, auditVars, consoleVars>>

\* An auditor takes the SBOM projection of the chain as it is now.
Project(d) ==
  /\ projection[d] = NoProjection
  /\ projection' = [projection EXCEPT ![d] = ToSbomChain(chain[d])]
  /\ audited' = [audited EXCEPT ![d] = chain[d]]
  /\ UNCHANGED <<chain, clock, set_back, misdated, tampers, sealed, consoleVars>>

\* receipt_chain_pane: pkts[page * size : page * size + size].
PageEnd(packets, p) ==
  IF (p + 1) * PageSize < Len(packets) THEN (p + 1) * PageSize ELSE Len(packets)

\* Mutation of PageOf: a page starts one packet late.
PageOfLate(packets, p) == SubSeq(packets, p * PageSize + 2, PageEnd(packets, p))

PageOf(packets, p) == SubSeq(packets, p * PageSize + 1, PageEnd(packets, p))

\* The operator reads the next page, and stops at one that is not full.
ReadPage(d) ==
  /\ ~done[d]
  /\ LET view == PageOf(chain[d], page[d])
     IN  /\ shown' = [shown EXCEPT ![d] = @ \o [i \in 1..Len(view) |-> view[i].seq]]
         /\ done' = [done EXCEPT ![d] = Len(view) < PageSize]
  /\ page' = [page EXCEPT ![d] = @ + 1]
  /\ UNCHANGED <<chain, clock, set_back, misdated, tampers, sealed, auditVars>>

Next ==
  \/ \E d \in Drones, payload \in Payloads, timestamp \in Times :
       AppendPacket(d, payload, timestamp)
  \/ \E t \in Times : SetClock(t)
  \/ \E d \in Drones, payload \in Payloads :
       \E i \in 1..Len(chain[d]) : Tamper(d, i, payload)
  \/ \E d \in Drones : Project(d)
  \/ \E d \in Drones : ReadPage(d)

Spec == Init /\ [][Next]_vars
----------------------------------------------------------------------------
IsPacket(p) ==
  p \in [tail_number : Drones, seq : Nat, timestamp_ns : Times,
         payload : Payloads, prev_sha : {p.prev_sha}]

(* Every variable holds a value of its type; what a prev_sha is made of is *)
(* left to ShaSeesInnerTampering.                                          *)
TypeOK ==
  /\ DOMAIN chain = Drones
  /\ \A d \in Drones : /\ IsSequence(chain[d])
                       /\ \A i \in 1..Len(chain[d]) : IsPacket(chain[d][i])
  /\ clock \in Times
  /\ set_back \in BOOLEAN
  /\ misdated \subseteq Drones
  /\ tampers \in 0..MaxTampers
  /\ DOMAIN sealed = Drones
  /\ \A d \in Drones : IsSequence(sealed[d])
  /\ page \in [Drones -> Nat]
  /\ shown \in [Drones -> Seq(Nat)]
  /\ done \in [Drones -> BOOLEAN]

(* is_sha_complete holds exactly while every packet but the last reads as  *)
(* it did when its successor was chained to it: a write into an inner      *)
(* payload dict is seen, writing it back clears the alarm, and a write     *)
(* into the last packet before the next append is never seen.              *)
ShaSeesInnerTampering ==
  \A d \in Drones :
    IsShaComplete(chain[d]) <=>
      \A i \in 1..(Len(chain[d]) - 1) : chain[d][i] = sealed[d][i]

(* A chain is totally ordered unless the clock was once set back or a      *)
(* caller of this drone passed a time the clock did not show: appends in   *)
(* the same nanosecond, tampering and other drones' times never cost it    *)
(* its order (append, is_total_ordered).                                   *)
OrderBreaksOnlyByClock ==
  \A d \in Drones : ~IsTotalOrdered(chain[d]) => set_back \/ d \in misdated

(* A chain that has lost its total order never gets it back: the temporal  *)
(* axis and uds_invariant_holds stay down for the life of the payload.     *)
OrderNeverRepaired ==
  [][\A d \in Drones : ~IsTotalOrdered(chain[d]) => ~IsTotalOrdered(chain'[d])]_vars

(* While the digest recomputed from the auditor's projection equals the    *)
(* chain's, the chain is packet for packet the one that was audited, the   *)
(* last packet included, which is_sha_complete does not cover              *)
(* (from_sbom_chain_view, chain_sha256).                                   *)
ProjectionVouches ==
  \A d \in Drones :
    projection[d] # NoProjection =>
      (FromSbomChainView(projection[d]) = ChainSha256(chain[d]) => chain[d] = audited[d])

(* An operator who turns the pages while packets keep coming has read      *)
(* every packet from the first on once and in order, whole pages until the *)
(* end (receipt_chain_pane).                                               *)
PagesShowEveryPacket ==
  \A d \in Drones :
    /\ \A i \in 1..Len(shown[d]) : shown[d][i] = i - 1
    /\ Len(shown[d]) <= Len(chain[d])
    /\ ~done[d] => Len(shown[d]) = page[d] * PageSize
=============================================================================
