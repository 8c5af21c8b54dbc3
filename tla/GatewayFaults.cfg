\* Two of four requests share the breakers of a replica; each opens at the second failure in a row.
CONSTANTS
  g1 = g1
  book = book  find = find  pay = pay  track = track
  Requests = {book, find, pay, track}
  Replicas = {g1}
  KindOf <- MCKindOf
  ReplicaOf <- MCReplicaOf
  NoBooking = NoBooking
  MaxRetries = 1
  Threshold = 2
  Faults = {"error", "lost", "timeout", "apicrash", "webcrash"}
  MaxSubmitted = 2
SPECIFICATION FairSpec
INVARIANTS TypeOK ConfirmedIsPublished ConfirmedIsFound RefusedOnlyIfFailing
PROPERTIES BreakHolds EveryRequestIsAnswered RefusalsEnd
CHECK_DEADLOCK FALSE
