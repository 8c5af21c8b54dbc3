\* The events of a delivered order, no fault: does the order end as delivered?
CONSTANTS
  b1 = b1
  pay = pay  change = change  deliver = deliver  put = put  clear = clear
  Bookings = {b1}
  Messages = {pay, change, deliver}
  Puts = {}
  Workers = {w1, w2}
  BookingOf <- MCBookingOfLife
  KindOf <- MCKindOfLife
  ValueOf <- MCValueOfLife
  Values <- MCValues
  MaxDeliveries = 2
  Faults = {}
  None = None
  NoWorker = NoWorker
SPECIFICATION Spec
INVARIANTS StatusIsCurrent
CHECK_DEADLOCK FALSE
