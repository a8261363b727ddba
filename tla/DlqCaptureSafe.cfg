\* Two failed executions, the scan and both error triggers at once.
SPECIFICATION Spec
CONSTANTS
  Execs = {1, 2}
  Doubtful = {1}
  Runs = {w1, w2, w3}
  NoTarget = NoTarget
  ListLimit = 2
  MaxTries = 2
  MaxFaults = 2
SYMMETRY Symmetry
INVARIANTS
  TypeOK
  OneRowPerExecution
PROPERTIES
  ReceiptStopsMessages
  ImplementsMirror
