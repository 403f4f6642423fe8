SPECIFICATION FairSpec
CONSTANTS
  CPUs <- MCCPUs
  Primary = 0
  MaxLvl = 2
  Domains <- MCDomains
  Anc <- MCAnc
  Requests <- MCRequests
  None = None
INVARIANTS
  TypeOK
  NeverPanics
  RunsInPoweredDomains
  ShallowestWins
  EntersWithContext
PROPERTIES
  SwitchedOnRuns
CHECK_DEADLOCK FALSE
