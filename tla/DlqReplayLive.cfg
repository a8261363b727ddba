\* One scheduler, fair, with a fetch that returns one row at a time.
SPECIFICATION FairSpec
CONSTANTS
  Rows = {r1, r2}
  Runs = {w1, w2}
  Schedulers = {s1}
  Stages = {"mattermost_canonical_post"}
  Poison = {}
  NoOwner = NoOwner
  PageSize = 1
  LeaseTicks = 2
  IntervalTicks = 2
  RunTicks = 1
  MaxTries = 2
  MaxFaults = 2
PROPERTIES
  EveryRowSettles
