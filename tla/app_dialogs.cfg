SPECIFICATION Spec
CONSTANTS
  Records <- MCRecords
  Listings <- ShortListings
  LineSizes = {18}
  UserNames <- MCUserNames
  None = None
  Garbage = Garbage
INVARIANTS
  ActsOnHighlighted
  TerminalOwner
PROPERTIES
  OnlyConfirmed
