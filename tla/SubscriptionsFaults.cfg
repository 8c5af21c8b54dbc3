\* Start-up of Booking.API races with two calls of the pump; a restart, errors.
CONSTANTS
  paid = paid  changed = changed  onPaid = onPaid  onChanged = onChanged
  m1 = m1  m2 = m2
  Events = {paid, changed}
  Handlers = {onPaid, onChanged}
  Messages = {m1, m2}
  Workers = {w1, w2}
  EventOf <- MCEventOf
  Startup <- MCStartup
  MaxDeliveries = 2
  MaxRestarts = 1
  Faults = {"error", "expiry", "crash", "rule"}
  None = None
  NoWorker = NoWorker
SPECIFICATION FairSpec
INVARIANTS TypeOK StartedIsSubscribed
PROPERTIES LateCompletedIsHandled EveryDeliveredIsSettled
CHECK_DEADLOCK FALSE
