CONSTANTS
  Managers = {m1, m2}
  Owners = {oa, ob}
  Slots = {i1}
  Sandboxes = {s1, s2, s3}
  MaxFaults = 2
  UncertainPublish = FALSE
  Holders = {m1, m2}
  MaxSequence = 7
  MaxMishaps = 2
  MaxActive = 2
  MaxEffort = 6
  MaxTrouble = 6
SYMMETRY MCSymmetry
SPECIFICATION MCSpec
CHECK_DEADLOCK FALSE
INVARIANTS HomesAreSafe NothingIsLost CallsRespectIntent RequestMatchesIntent
