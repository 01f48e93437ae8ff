SPECIFICATION Spec
CONSTANTS
  Records <- MCRecords
  Listings <- PackageListings
  LineSizes = {18}
  UserNames <- MCUserNames
  None = None
  Garbage = Garbage
PROPERTIES
  GShowsUpgrades
