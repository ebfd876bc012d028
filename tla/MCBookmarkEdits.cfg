SPECIFICATION Spec
CONSTANTS
  b1 = b1
  b2 = b2
  old = old
  new = new
  Calls = {c1, c2}
  Items = {b1, b2}
  Times = {0, 1}
  Titles = {old, new}
  None = none
  TurnRequests <- AllRequests
  MaxOutside = 1
  Bookmarks = bookmarks
  Everything = {every}
SYMMETRY Symmetry
INVARIANTS NoOrphans
PROPERTIES NoBookmarkLost AnswerIsTrue
CHECK_DEADLOCK FALSE
