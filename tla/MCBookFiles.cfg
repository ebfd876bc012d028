SPECIFICATION FairSpec
CONSTANTS
  t1 = t1
  t2 = t2
  e1 = e1
  e2 = e2
  Calls = {c1, c2}
  Tracks = {t1, t2}
  M4b = m4b
  Ebooks = {e1, e2}
  None = none
  Keep = keep
  New = new
  FirstOrder <- Told
  TurnRequests <- AllRequests
  MaxOutside = 1
  Book = book
  Everything = {every}
INVARIANTS HeldChaptersFollow
PROPERTIES NoFalseFailure OneMergeAtATime AnswersAreSo EveryCallEnds
CHECK_DEADLOCK FALSE
