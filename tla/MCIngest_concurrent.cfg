\* Three concurrent requests, four in all, two keys that may expire, one failing call.
SPECIFICATION Spec
CONSTANTS
  k1 = k1
  k2 = k2
  i1 = i1
  i2 = i2
  i3 = i3
  i4 = i4
  c1 = c1
  c2 = c2
  c3 = c3
  NoId = NoId
  Keys = {k1, k2}
  Ids = {i1, i2, i3, i4}
  Clients = {c1, c2, c3}
  MaxRequests = 4
  MaxFaults = 1
SYMMETRY MCSymmetry
INVARIANTS
  OneDeliveryPerKey
  SameAnswer
  
CHECK_DEADLOCK FALSE
