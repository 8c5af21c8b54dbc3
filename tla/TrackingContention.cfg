\* Three events of one booking race in three handler calls without a fault.
CONSTANTS
  b1 = b1
  m1 = m1  m2 = m2  m3 = m3
  w1 = w1  w2 = w2  w3 = w3
  p1 = p1  p2 = p2
  Bookings = {b1}
  Messages = {m1, m2, m3}
  Workers = {w1, w2, w3}
  Replicas = {p1, p2}
  BookingOf <- MCBookingOf
  KindOf <- MCKindOf
  ReplicaOf <- MCReplicaOf
  MaxDeliveries = 3
  Faults = {}
  NoMessage = NoMessage
  NoWorker = NoWorker
SPECIFICATION FairSpec
INVARIANTS ConflictsNeverDrop
PROPERTIES EverySentIsRecorded
CHECK_DEADLOCK FALSE
