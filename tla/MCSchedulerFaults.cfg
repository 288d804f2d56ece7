SPECIFICATION Spec
CONSTANTS
  l1 = l1
  p1 = p1
  p2 = p2
  Location = {l1}
  Proc = {p1, p2}
  Caller <- MCTwoCrons
  MaxJobs = 2
  MaxConcurrent = 1
  ClassEnds <- MCClasses
  Offset <- MCOffset
  Instants = {360, 366}
  Faults = {"crash", "database", "ambiguous"}
INVARIANTS TypeOK RunsOnce OutcomeIsTrue
PROPERTIES SettledStays KeepsJobContract
