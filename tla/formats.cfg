SPECIFICATION Spec
CONSTANTS
  MaxName = 5
  MaxLines = 4
  Heights = {17, 18, 19, 20, 21, 22, 23, 24, 25, 40}
  Widths = {71, 72, 73, 77, 78, 80, 82, 83, 84, 85, 89, 90, 94, 95, 97, 98, 99, 120, 121, 122, 160}
INVARIANTS
  MountTableIsRead
  StatSurvivesNames
  CommandIsOneLine
  DistributionIsRead
  LookupFindsExecutables
  FiguresAreRead
  FramesAreWhole
CHECK_DEADLOCK FALSE
