\* n = 3f + 1: two coordinators, a restart, a liar that says anything to each.
CONSTANTS
  o1 = o1  o2 = o2  o3 = o3  o4 = o4  o5 = o5  o6 = o6
  ship = ship  hold = hold  c1 = c1  c2 = c2
  Absent = Absent
  NoDecision = NoDecision
  Organs <- FourOrgans
  Byzantine <- Liar
  Decisions <- TwoDecisions
  Coordinators <- TwoCoordinators
  F = 1
  ConfidenceFloor = 500000
  Observations <- DefaultOrBad
  SlackOf <- DefaultOrBadSlack
  MaxRestarts = 1
SPECIFICATION Spec
INVARIANTS TypeOK MergesAgree MergedByHonest CosignersVoted
PROPERTY ImplementsMergeOnce
