\* Requests race for the entries of two orders, with up to three faults.
CONSTANTS
  p1 = p1  p2 = p2
  q1 = q1  q2 = q2
  o1 = o1  o2 = o2
  Orders = {o1, o2}
  NoOrder = NoOrder
  Requests = {q1, q2}
  Replicas = {p1, p2}
  ReplicaOf <- MCReplicaOf
  Faults = {"database", "bus", "crash"}
  MaxFaults = 3
SPECIFICATION FairSpec
INVARIANTS TypeOK PublishedIsBooked QuietIsPublished RepeatsAreConcurrent
PROPERTY EveryEventIsTakenUp
CHECK_DEADLOCK FALSE
