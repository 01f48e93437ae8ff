SPECIFICATION FairSpec
CONSTANTS
  Names <- MCNames
  HostTools = {"pw", "pacman", "systemctl", "sudo"}
  Locales = {FALSE}
  MaxChanges = 1
  Rows <- MCRows
  Listings <- MCListings
  LineSizes = {18}
  Garbage <- MCGarbage
  MaxKeys = 4
INVARIANTS
  CallsAreLegal
  ChildHasTerminal
PROPERTIES
  ImplementsConfirmed
  ActionsAreAnswered
