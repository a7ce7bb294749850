CHECK_DEADLOCK FALSE
CONSTANTS
  Ingester = {i1, i2}
  Text = {t1, t2}
  Torn = {"append"}
  Yield <- Seen
  MaxEntry = 2
  MaxSession = 2
  MaxDecision = 1
SPECIFICATION Spec
SYMMETRY Symmetry
INVARIANTS Captured BindingHonoured
