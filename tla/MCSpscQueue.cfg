SPECIFICATION FairSpec
CONSTANTS
  N = 4
  Words = {w1, w2}
  Vals = {a, b}
  Zero = zero
INVARIANTS
  TypeOK
  NoSlotRace
  WholeEvents
PROPERTIES
  ImplementsFifo
  AcceptedEventsArrive
