SPECIFICATION MCSpec
CONSTANTS
  Cols = 30
  Rows = 30
  CellLon = 8
  CellLat = 4
  One <- MCOne
  Sin <- MCSin
  MaxRadius = 6
  MaxRingExpansion = 4
  Envs <- MCEnvs
  WorkerEnvs <- MCWorkerEnvs
  HoursPerTick = 12
  MaxAge = 6
  MaxRefills = 2
  Requests <- MCRequests
  Located <- MCLocated
  MaxListed = 2
INVARIANTS SettingsHold RevokedStaysOut KnownIsLocatable CircleIsCovered GuessesAreThrottled
