SPECIFICATION Spec
CONSTANTS
  b1 = b1
  show = show
  p = p
  q = q
  audible = audible
  google = google
  Calls = {c1, c2}
  Items = {b1, show}
  Podcasts = {show}
  Plain = {p, q}
  Stores = {audible, google}
  TurnRequests <- AllRequests
  BatchSize = 1
  MaxOutside = 1
  Bookmarks = bookmarks
  Everything = {every}
SYMMETRY Symmetry
INVARIANTS HeldReadsAreCurrent SendReportIsTrue
PROPERTIES EveryWriteIsOneRequest KeptIsKept FillOnlyAdds SweepLeavesNone EditsAreDone
CHECK_DEADLOCK FALSE
