SPECIFICATION Spec
CONSTANTS
  c1 = c1
  c2 = c2
  w1 = w1
  w2 = w2
  Caller = {c1, c2}
  Monitor = {w1, w2}
  Budget = 5
  Cost = {1, 2}
  MaxCost = 2
  Months = 2
  Essential = 1
SYMMETRY MCSymmetry
INVARIANTS TypeOK Overshoot MailsBounded
