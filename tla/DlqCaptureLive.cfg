\* One failed execution, with faults until every node has failed for good.
SPECIFICATION FairSpec
CONSTANTS
  Execs = {1}
  Doubtful = {1}
  Runs = {w1, w2}
  NoTarget = NoTarget
  ListLimit = 1
  MaxTries = 2
  MaxFaults = 3
PROPERTIES
  FailureMirrored
  SubmitterNotified
