\* Two calls of the function and two lookups race for one cached history.
CONSTANTS
  b1 = b1
  Bookings = {b1}
  Messages = {m1, m2}
  BookingOf <- MCBookingOf
  Workers = {f1, f2}
  Readers = {r1}
  MaxDeliveries = 2
  Faults = {"crash", "redis", "lock"}
  None = None
  NoWorker = NoWorker
SPECIFICATION FairSpec
INVARIANTS TypeOK BoundedRepetition
PROPERTIES EventuallyComplete
