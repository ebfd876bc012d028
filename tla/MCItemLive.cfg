SPECIFICATION FairSpec
CONSTANTS
  b1 = b1
  show = show
  p = p
  q = q
  audible = audible
  google = google
  Calls = {c1, c2, c3}
  Items = {b1, show}
  Podcasts = {show}
  Plain = {p}
  Stores = {audible}
  TurnRequests <- LiveRequests
  BatchSize = 1
  MaxOutside = 0
  Bookmarks = bookmarks
  Everything = {every}
PROPERTIES EveryCallEnds
CHECK_DEADLOCK FALSE
