\* Two heartbeats of one organ in one list: the count is of list entries.
CONSTANTS
  o1 = o1  o2 = o2  o3 = o3  o4 = o4
  NotSupplied = NotSupplied
  NoVerdict = NoVerdict
  Organs <- FourOrgans
  Attestors <- One
  Byzantine <- NoOrgans
  F <- FaultsOfFour
  BeatsPerWindow = 2
  Reports <- AliveOnly
  Cuts <- OneCut
  PollsViews = FALSE
  MaxFaults = 1
SPECIFICATION Spec
INVARIANT HealthyNeedsDistinctQuorum
