SPECIFICATION FairConnSpec
CONSTANTS
  Antennas = {1}
  ProbeMaxMisses = 2
  MaxTroubles = 2
  MaxRequests = 1
INVARIANTS BoundIsConfigured PresenceIsReal
PROPERTIES RequestsAreTaken Recovers StopEnds
CHECK_DEADLOCK FALSE
