SPECIFICATION PodcastsSpec
CONSTANTS
  s1 = s1
  s2 = s2
  f1 = f1
  f2 = f2
  i1 = i1
  i2 = i2
  i3 = i3
  i4 = i4
  Calls = {c1, c2}
  Shows = {s1, s2}
  Feeds = {f1, f2}
  MaxFeed = 3
  Ids = {i1, i2, i3, i4}
  Nothing = nothing
  TurnRequests <- AllRequests
  FirstShows <- OneShow
  FirstEpisodes <- TwoHeld
  FirstFeeds <- TwoFeeds
  MaxOutside = 1
SYMMETRY Symmetry
PROPERTIES HeldIsNotAskedFor AnswersAreSo
CHECK_DEADLOCK FALSE
