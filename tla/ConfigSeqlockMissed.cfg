\* Two words, two configurations, and at most one restart.
SPECIFICATION Spec
CONSTANTS
  Words = {w1, w2}
  Configs = {a, b}
  Zero = zero
  MaxVersion = 4
  MaxRestarts = 1
INVARIANTS
  NoUpdateMissed
