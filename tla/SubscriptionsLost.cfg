\* The first start, no fault: are completed messages handled?
CONSTANTS
  paid = paid  changed = changed  onPaid = onPaid  onChanged = onChanged
  m1 = m1  m2 = m2
  Events = {paid, changed}
  Handlers = {onPaid, onChanged}
  Messages = {m1, m2}
  Workers = {w1, w2}
  EventOf <- MCEventOf
  Startup <- MCStartup
  MaxDeliveries = 2
  MaxRestarts = 1
  Faults = {}
  None = None
  NoWorker = NoWorker
SPECIFICATION Spec
INVARIANTS CompletedIsHandled
CHECK_DEADLOCK FALSE
