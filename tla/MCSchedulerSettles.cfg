SPECIFICATION FairSpec
CONSTANTS
  l1 = l1
  p1 = p1
  p2 = p2
  Location = {l1}
  Proc = {p1}
  Caller <- MCAdminAndCron
  MaxJobs = 3
  MaxConcurrent = 1
  ClassEnds <- MCNoClasses
  Offset <- MCOffset
  Instants = {360}
  Faults = {"crash"}
INVARIANT DuplicatesBounded
PROPERTY DueJobSettles
