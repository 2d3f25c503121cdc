\* Four organs, one of them lies; two attestors on the two sides of a split, or
\* one with views and heartbeats of dead organs.
CONSTANTS
  o1 = o1  o2 = o2  o3 = o3  o4 = o4
  NotSupplied = NotSupplied
  NoVerdict = NoVerdict
  Organs <- FourOrgans
  Attestors <- Two
  Byzantine <- LastOfFour
  F <- FaultsOfFour
  BeatsPerWindow = 1
  Reports <- BothReports
  Cuts <- FourCuts
  PollsViews = TRUE
  MaxFaults = 2
SPECIFICATION Spec
CONSTRAINT HeartbeatsOrOneAttestor
INVARIANTS TypeOK HealthyMeansHonestMajorityRan NoSplitBrain MinoritySideRefuses
PROPERTY RefusalSticks
