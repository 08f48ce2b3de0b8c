\* Four slots, events of two words.
SPECIFICATION RSpec
CONSTANTS
  N = 4
  Words = {w1, w2}
  Vals = {a, b}
  Zero = zero
  MaxRestarts = 2
INVARIANTS
  PhantomsNeedInterruptedPush
