\* Two instances have the workflow active: an active lease is taken over.
SPECIFICATION Spec
CONSTANTS
  Rows = {r1}
  Runs = {w1, w2}
  Schedulers = {s1, s2}
  Stages = {"baserow_checkins_write"}
  Poison = {}
  NoOwner = NoOwner
  PageSize = 1
  LeaseTicks = 2
  IntervalTicks = 2
  RunTicks = 1
  MaxTries = 1
  MaxFaults = 0
PROPERTIES
  LeaseExclusive
