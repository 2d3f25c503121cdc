\* The parts that stand alone, the receipt chain among its users and the
\* air-gap payloads under their console, one at a time.
CONSTANTS
  p1 = p1  p2 = p2  c1 = c1  c2 = c2
  NoReport = NoReport  NothingRelayed = NothingRelayed
  Vertices <- FiveVertices  Bound = 1
  Latencies = {0, 1, 9}  MaxCount = 5  Scale = 60
  Bodies = {1, 2}  PayloadTypes = {"pinn", "quorum"}  PINN_PAYLOAD_TYPE = "pinn"
  MaxSeals = 2  MaxAlterations = 2
  Processes = {p1, p2}  HmacKeys = {"dev", "rotated"}  Calls <- SomeCalls
  MaxReceipts = 2  MaxEdits = 1
  Consumers = {c1, c2}  MaxRotations = 1  MaxSigned = 2  MaxChanges = 2
  PackLists <- Lists
  MaxRefused = 2
  d1 = d1  d2 = d2  r1 = r1  w1 = w1  w2 = w2  x1 = x1  x2 = x2
  plain = plain  token = token
  EmptyName = EmptyName  NoProjection = NoProjection
  Times <- TwoTimes  MaxPackets = 4
  ChainDrones <- OneDrone  ChainPayloads <- TwoPayloads  PageSize = 2  MaxTampers = 2
  Drones <- TwoDrones  Readings <- OneReading  Witnesses <- TwoPeople  MaxGates = 3
  Fleet <- BothInTurn  TailNumbers <- TwoTails  TokenTails <- TokenTail  FirstPage = 2
CONSTRAINT ChainAndLoopBounds
SPECIFICATION SuiteSpec
INVARIANTS
  ComponentsAreReachable
  BoundsHold
  StatsAreThoseOfTheStream
  MarkersMatchSignatures
  VerifiedWasSealed
  AcceptedOutputsAreComputed
  GenuineIsAccepted
  VerifiersAgree
  ExitZeroMeansDisciplined
  DenyHoldsAgainstOutsiders
  IdentityFirst
  ShaSeesInnerTampering
  OrderBreaksOnlyByClock
  ProjectionVouches
  PagesShowEveryPacket
  DisarmsAreWitnessed
  OnlyStampsBreakTheInvariant
  TroubleIsVisible
PROPERTIES
  OrderNeverRepaired
  ImplementsReceiptChain
CHECK_DEADLOCK FALSE
