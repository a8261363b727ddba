\* One run replays two rows and resolves one.
SPECIFICATION Spec
CONSTANTS
  Rows = {r1, r2}
  Runs = {w1}
  Schedulers = {s1}
  Stages = {"baserow_checkins_write"}
  Poison = {}
  NoOwner = NoOwner
  PageSize = 2
  LeaseTicks = 2
  IntervalTicks = 2
  RunTicks = 1
  MaxTries = 1
  MaxFaults = 0
PROPERTIES
  SuccessfulReplayResolves
