SPECIFICATION Spec
CONSTANTS
  Probe = {1}
  MaxSignals = 1
  MaxBeats = 4
INVARIANTS TypeOK AtMostOneLateBeat ProbesAreCurrent StopIsKept FirstSignalGoesOn
PROPERTY StopsOnSignal
CHECK_DEADLOCK FALSE
