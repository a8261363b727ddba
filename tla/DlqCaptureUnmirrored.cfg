\* Two failed executions: the error trigger of the second is lost.
SPECIFICATION FairSpec
CONSTANTS
  Execs = {1, 2}
  Doubtful = {}
  Runs = {w1, w2}
  NoTarget = NoTarget
  ListLimit = 2
  MaxTries = 1
  MaxFaults = 1
PROPERTIES
  FailureMirrored
