\* Each part by itself: two operators deploy, or one while the smoke test runs.
SPECIFICATION Spec
CHECK_DEADLOCK FALSE
CONSTANTS
  N = 2
  ExpectedPathReaders <- MCReaders
  SharedKey <- MCSharedKey
  DocumentationNetworks = {"documentation"}
  Deployers = {d1, d2}
  Configs <- MCConfigs
  Gateways <- MCGateways
  CaFiles = {"ca", "other_ca"}
  FirstAuth <- MCFirstAuth
  Absent = Absent
  Unsaved = Unsaved
  NoStore = NoStore
  MaxRuns = 3
  MaxWrites = 2
  Policies <- MCPolicies
  MaxAttempts = 5
  MaxDelay = 3
  Lease = 4
  ReplayTime = 1
  Statuses = {400, 429, 503}
  Workers = {"worker"}
  None = None
  MaxTime = 20
  Stream <- MCStream
  Expected <- MCExpected
  MaxDeliveries = 3
  MaxUpdates = 3
  FirstYear = 2022
  LastYear = 2024
  Kept = 25
INVARIANTS
  TypesOK
  RolesAreExact
  StoppedIsRecoverable
  SmokeIsolation
  RotationObserved
  RoutesHaveUpstream
  RetriesSlowDown
  MetricsReconcile
  DayReported
PROPERTIES
  FinishedIsDeployed
