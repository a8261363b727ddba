\* One active scheduler, as the runbook asks for; every stage, two rows,
\* one of which the endpoint never confirms.
SPECIFICATION Spec
CONSTANTS
  Rows = {r1, r2}
  Runs = {w1, w2}
  Schedulers = {s1}
  Stages = {"baserow_checkins_write", "mattermost_canonical_post", "event_dispatch"}
  Poison = {r2}
  NoOwner = NoOwner
  PageSize = 2
  LeaseTicks = 3
  IntervalTicks = 3
  RunTicks = 2
  MaxTries = 3
  MaxFaults = 2
SYMMETRY Symmetry
INVARIANTS
  TypeOK
  ResolvedIsPublished
  ReplayUnderLease
PROPERTIES
  LeaseExclusive
  ImplementsLifecycle
