\* An id is reused for other content by two deliveries at once.
SPECIFICATION Spec
CONSTANTS
  e1 = e1
  e2 = e2
  p1 = p1
  p2 = p2
  p3 = p3
  malformed = malformed
  Events = {e2}
  Payloads = {p1, p2, p3, malformed}
  Sent <- ReusedSent
  Invalid = {malformed}
  Month <- OneMonth
  NoPayload = NoPayload
  Runs = {w1, w2}
  MaxTries = 1
  MaxFaults = 0
INVARIANTS
  ConflictNeverAccepted
