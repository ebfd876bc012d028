SPECIFICATION FairSpec
CONSTANTS
  o1 = o1
  o2 = o2
  f = f
  kt = kt
  ann = ann
  x = x
  y = y
  None = None
  Old = {o1, o2}
  Fresh = {f}
  Accounts = {kt, ann}
  Me = kt
  Facts = {x, y}
  Worlds <- OneWorld
  Live <- NoneLive
  MaxOutside = 0
INVARIANT LostPlacesAreNamed
CHECK_DEADLOCK FALSE
