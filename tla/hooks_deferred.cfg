CONSTANTS
  Session = {s1, s2}
  MaxResume = 0
  MaxMixed = 1
SPECIFICATION FairSpec
CHECK_DEADLOCK FALSE
PROPERTY DeferredIsCaptured
