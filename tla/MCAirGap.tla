------------------------------ MODULE MCAirGap ------------------------------
(***************************************************************************)
(* Constants for checking the air-gap payloads with TLC on their own; the  *)
(* run with their console and the chain they implement is MCSuite's.       *)
(***************************************************************************)
EXTENDS OperatorConsole

CONSTANTS d1, d2, r1, w1, w2, plain, token

TwoDrones  == {d1, d2}
BothInTurn == <<d1, d2>>
OneReading == {r1}
TwoPeople  == {w1, w2}
OneTime    == {1}
TwoTails   == {plain, token}
TokenTail  == {token}
=============================================================================
