\* Two words, two configurations, and at most one restart.
SPECIFICATION FairSpec
CONSTANTS
  Words = {w1, w2}
  Configs = {a, b}
  Zero = zero
  MaxVersion = 6
  MaxRestarts = 1
INVARIANTS
  TypeOK
  TornOnlyAcrossRestart
  FirstOwnerMissesNone
PROPERTIES
  ImplementsRegister
  WrittenConfigArrives
