SPECIFICATION NodeFairSpec
CONSTANTS
  Headers <- MCHeaders
  Deliveries <- MCDeliveries
  Wait = 2
  Rebroadcast = 1
  Buffer = 4
  Horizon = 2
  NoDa = NoDa
  Tasks = {k1}
  Updates = {u1}
  MaxInputs = 4
  r1 = r1
  a = a
  b = b
  t1 = t1
  t2 = t2
INVARIANTS SignedWithItsBlock MissedOnlyWhenLate 
PROPERTIES  EventsTaken
CHECK_DEADLOCK FALSE
