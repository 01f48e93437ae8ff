SPECIFICATION Spec
CONSTANTS
  Pids = {1, 2, 3, 4}
  Self = 2
  PidReuse = TRUE
  MaxBorn = 5
INVARIANTS
  ListingIsComplete
  ListingIsCurrent
  RecordsAreWhole
  SignalSparesOthers
