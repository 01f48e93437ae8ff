SPECIFICATION Spec
CONSTANTS
  Items = {1, 2, 3}
  WithEquals = {2}
  Foreign = {3}
  MaxNotices = 1
INVARIANT VersionShown
