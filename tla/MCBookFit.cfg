SPECIFICATION Spec
CONSTANTS
  t1 = t1
  t2 = t2
  e1 = e1
  e2 = e2
  Calls = {c1, c2}
  Tracks = {t1, t2}
  M4b = m4b
  Ebooks = {e1, e2}
  None = none
  Keep = keep
  New = new
  FirstOrder <- Told
  TurnRequests <- FitRequests
  MaxOutside = 0
  Book = book
  Everything = {every}
INVARIANTS ChaptersFollowTracks
CHECK_DEADLOCK FALSE
