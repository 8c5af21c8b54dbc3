\* No fault: is the cached history the whole one?
CONSTANTS
  b1 = b1
  Bookings = {b1}
  Messages = {m1, m2}
  BookingOf <- MCBookingOf
  Workers = {f1, f2}
  Readers = {r1}
  MaxDeliveries = 2
  Faults = {}
  None = None
  NoWorker = NoWorker
SPECIFICATION Spec
INVARIANTS CachedIsComplete
