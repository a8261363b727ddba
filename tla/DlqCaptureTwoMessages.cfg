\* The error trigger and a scan race, nothing fails.
SPECIFICATION Spec
CONSTANTS
  Execs = {1}
  Doubtful = {}
  Runs = {w1, w2}
  NoTarget = NoTarget
  ListLimit = 1
  MaxTries = 1
  MaxFaults = 0
INVARIANTS
  OneMessage
