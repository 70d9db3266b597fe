CONSTANTS
  Managers = {m1, m2}
  Owners = {oa, ob}
  Slots = {i1}
  Sandboxes = {s1, s2, s3}
  MaxFaults = 2
  UncertainPublish = TRUE
  Holders = {m1, m2}
  MaxSequence = 5
  MaxMishaps = 2
  MaxActive = 2
  MaxEffort = 6
  MaxTrouble = 7
SYMMETRY MCSymmetry
SPECIFICATION MCSpec
INVARIANT AuthoritativeIsKept
CHECK_DEADLOCK FALSE
