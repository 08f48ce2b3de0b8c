\* Three requests, as many connections as they can use at once, and three
\* failures of the network.
SPECIFICATION FairSpec
CONSTANTS
  Requests = {r1, r2, r3}
  Conns = {c1, c2, c3}
  MaxFaults = 3
CHECK_DEADLOCK FALSE
INVARIANTS TypeOK UsersKeepTheirPlace HarmNeedsFaults
PROPERTIES EveryRequestEnds
