\* One order through all services; Booking.API fails once, a message has two deliveries.
CONSTANTS
  b1 = b1
  pay = pay  picked = picked  report = report  put = put
  Bookings = {b1}
  Payments = {pay}
  ShippingEvents = {picked}
  Reports = {report}
  OrderOf <- MCOrderOf
  StatusOf <- MCStatusOf
  CauseOf <- MCCauseOf
  Puts = {put}
  PutOrder <- MCPutOrder
  PutValue <- MCPutValue
  Workers = {w1, w2}
  MaxDeliveries = 2
  MaxRecordings = 1
  MaxFailures = 1
  None = None
  NoWorker = NoWorker
SPECIFICATION FairSpec
INVARIANTS TypeOK StatusIsTracked PaidIsCharged
PROPERTIES EventuallyConsistent
CHECK_DEADLOCK FALSE
