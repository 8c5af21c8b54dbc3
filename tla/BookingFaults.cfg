\* A payment, a change of status and two PUTs race for one order, every fault.
CONSTANTS
  b1 = b1
  pay = pay  change = change  deliver = deliver  put = put  clear = clear
  Bookings = {b1}
  Messages = {pay, change}
  Puts = {put, clear}
  Workers = {w1, w2}
  BookingOf <- MCBookingOf
  KindOf <- MCKindOf
  ValueOf <- MCValueOf
  Values <- MCValues
  MaxDeliveries = 2
  Faults = {"error", "expiry", "crash"}
  None = None
  NoWorker = NoWorker
SPECIFICATION FairSpec
INVARIANTS TypeOK AnnouncedIsBooked CompletedIsKept
PROPERTIES PaymentIsFinal EverySentIsSettled
CHECK_DEADLOCK FALSE
