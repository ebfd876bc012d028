SPECIFICATION Spec
CONSTANTS
  k1 = k1
  k2 = k2
  k3 = k3
  p1 = p1
  p2 = p2
  p3 = p3
  a = a
  b = b
  e1 = e1
  e2 = e2
  Calls = {c1, c2}
  Collections = {k1, k2, k3}
  Playlists = {p1, p2, p3}
  Names = {a, b}
  Entries = {e1, e2}
  None = none
  TurnRequests <- AllRequests
  FirstLists <- BothLists
  MaxOutside = 1
  Everything = {every}
SYMMETRY Symmetry
INVARIANT HeldListIsCurrent
PROPERTIES AnswerIsTrue NothingIsEmptied TakenNameIsRefused
CHECK_DEADLOCK FALSE
