SPECIFICATION FairSpec
CONSTANTS
  ann = ann
  ben = ben
  eve = eve
  ida = ida
  yoga = yoga
  open = open
  r1 = r1
  r2 = r2
  q1 = q1
  q2 = q2
  Email = {ann, ben}
  Nameless = {eve, ida}
  Class = {yoga, open}
  Untaught = {open}
  Run = {r1, r2}
  Reset = {q1, q2}
  Upload <- MCUploads
INVARIANTS TypeOK Traceable BookingsOwned FilesKept
PROPERTY TransactionsEnd
CHECK_DEADLOCK FALSE
