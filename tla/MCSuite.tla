------------------------------ MODULE MCSuite ------------------------------
(***************************************************************************)
(* MeshSuite for TLC: the parts as in MCParts; one chain of two payload    *)
(* values, where times are passed or packets written into, not both; and   *)
(* two air-gap payloads, of which one may do all the bounds allow while    *)
(* the other is as it was built, or the two put out two packets together.  *)
(***************************************************************************)
EXTENDS MeshSuite, MCParts

CONSTANTS d1, d2, r1, w1, w2, x1, x2, plain, token

OneDrone    == {d1}
TwoDrones   == {d1, d2}
BothInTurn  == <<d1, d2>>
TwoPayloads == {x1, x2}
TwoTimes    == 1..2
OneReading  == {r1}
TwoPeople   == {w1, w2}
TwoTails    == {plain, token}
TokenTail   == {token}

\* Times are passed or packets written into; and pages are read while
\* packets come, not while they are written into or audited as well.
StampsOrTampers == strays = {} \/ tampers = 0
PagesOrAudits   == page[d1] = 0 \/ (tampers = 0 /\ projection[d1] = NoProjection)

Untouched(d) ==
  ~armed[d] /\ ~rtl[d] /\ ~abort_flag[d] /\ chain[d] = <<>> /\ witness_count[d] = 0

Packets == Len(chain[d1]) + Len(chain[d2])
Gates   == witness_count[d1] + witness_count[d2]

OneLeadsOrTwoPackets ==
  /\ Untouched(d2) \/ (Packets <= 2 /\ Gates <= 1)
  /\ (~set_back /\ misdated = {}) \/ (Packets <= 3 /\ Gates <= 1)

ChainAndLoopBounds == StampsOrTampers /\ PagesOrAudits /\ OneLeadsOrTwoPackets
=============================================================================
