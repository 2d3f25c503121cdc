\* Six organs may tie three to three, each side a quorum of 2f + 1; one of them lies
\* or stays silent.
CONSTANTS
  o1 = o1  o2 = o2  o3 = o3  o4 = o4  o5 = o5  o6 = o6
  ship = ship  hold = hold  c1 = c1  c2 = c2
  Absent = Absent
  NoDecision = NoDecision
  Organs <- SixOrgans
  Byzantine <- Liar
  Decisions <- TwoDecisions
  Coordinators <- OneCoordinator
  F = 1
  ConfidenceFloor = 500000
  Observations <- Default
  SlackOf <- DefaultSlack
  MaxRestarts = 0
SPECIFICATION FairSpec
INVARIANT OrderNeverDecides
PROPERTY UnanimityMerges
