SPECIFICATION Spec
CONSTANTS
  poller = poller  other = other
  Callers = {poller, other}
  Threshold = 3
  Cooldown = 2
  MaxRetries = 1
  MaxFailures = 5
INVARIANTS
  TripsAtThreshold
PROPERTIES
  NoCallWhileCooling
  TrialEnds
  RecoversAfterOutage
CHECK_DEADLOCK FALSE
