\* Two events of one booking, one handler call in each replica, every fault.
CONSTANTS
  b1 = b1
  m1 = m1  m2 = m2  m3 = m3
  w1 = w1  w2 = w2  w3 = w3
  p1 = p1  p2 = p2
  Bookings = {b1}
  Messages = {m1, m2}
  Workers = {w1, w2}
  Replicas = {p1, p2}
  BookingOf <- MCBookingOfTwo
  KindOf <- MCKindOfTwo
  ReplicaOf <- MCReplicaOfTwo
  MaxDeliveries = 2
  Faults = {"error", "expiry", "crash"}
  NoMessage = NoMessage
  NoWorker = NoWorker
SPECIFICATION FairSpec
INVARIANTS TypeOK TrailContiguous CompletedIsDone OneRowPerDelivery
PROPERTIES AppendOnly ImplementsOrderTrail EverySentIsSettled
CHECK_DEADLOCK FALSE
