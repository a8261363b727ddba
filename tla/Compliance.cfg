\* One active scheduler.
SPECIFICATION FairSpec
CONSTANTS
  TicksPerDay = 6
  NudgeBefore = 1
  EscalateAfter = 1
  AnyPod = 0
  NoCode = 0
  Inputs <- MCInputs
  CycleDay = 0
  KeepIds = 5
  MaxTries = 2
  MaxFaults = 1
  Horizon = 2
  MaxSent = 4
INVARIANTS
  TypeOK
  CommittedWasDone
  DigestHasRows
  SendsBounded
  RollupReconciles
PROPERTIES
  OnTimeNotViolated
  SuppressedUntouched
  NothingIsSkipped
  MissedIsRecorded
  LateIsResolved
  GroupEscalated
