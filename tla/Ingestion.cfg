\* One honest event and one reused id, producers that keep sending.
SPECIFICATION FairSpec
CONSTANTS
  e1 = e1
  e2 = e2
  p1 = p1
  p2 = p2
  p3 = p3
  malformed = malformed
  Events = {e1, e2}
  Payloads = {p1, p2, p3, malformed}
  Sent <- AllSent
  Invalid = {malformed}
  Month <- OneMonth
  NoPayload = NoPayload
  Runs = {w1, w2}
  MaxTries = 2
  MaxFaults = 2
INVARIANTS
  TypeOK
  AcknowledgedIsStored
  StoredOnce
  ConflictIsReal
PROPERTIES
  StoredEventKept
  ImplementsLedger
  EventuallyAnswered
