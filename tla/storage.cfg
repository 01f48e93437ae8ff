SPECIFICATION Spec
CONSTANTS
  Dirs = {2, 3}
  Backslashed = {3}
  Sizes = {0, 1, 2}
  MaxMounts = 4
INVARIANTS
  TypeOK
  MountsAreListed
  EachMountOnce
  OwnCapacity
