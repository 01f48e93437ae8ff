SPECIFICATION Spec
CONSTANTS
  Records <- MCRecords
  Listings <- LongListings
  LineSizes = {12, 18, 20}
  UserNames <- MCUserNames
  None = None
  Garbage = Garbage
INVARIANTS
  TypeOK
  SelectionInRange
  SelectedOnScreen
  ScrollbarShowsPosition
