SPECIFICATION Spec
CONSTANTS
  Probe = {}
  MaxSignals = 2
  MaxBeats = 1
PROPERTY StopsOnSignal
CHECK_DEADLOCK FALSE
