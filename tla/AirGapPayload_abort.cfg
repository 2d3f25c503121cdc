\* A tick after an abort.
CONSTANTS
  d1 = d1  r1 = r1  w1 = w1  w2 = w2
  EmptyName = EmptyName  NoProjection = NoProjection
  Drones <- TwoDrones
  Readings <- OneReading
  Times <- OneTime
  Names <- TwoPeople
  MaxPackets = 2
  MaxGates = 1
  d2 = d2  plain = plain  token = token
  Fleet <- BothInTurn
  TailNumbers <- TwoTails
  TokenTails <- TokenTail
  FirstPage = 2
SPECIFICATION Spec
PROPERTY AbortHaltsOutput
CHECK_DEADLOCK FALSE
