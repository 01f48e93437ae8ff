SPECIFICATION Spec
CONSTANTS
  Records <- MCRecords
  Listings <- UserListings
  LineSizes = {18}
  UserNames <- MCUserNames
  None = None
  Garbage = Garbage
INVARIANTS
  LocksListedAccount
