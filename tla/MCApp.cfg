\* Two tracks, a query and a queue; one search may overtake another.
CONSTANTS
  t1 = t1  t2 = t2  q1 = q1
  Routes = {"Home", "Search"}
  Tracks = {t1, t2}
  None = None
  Unknown = Unknown
  Results <- Answers
  Plays <- Answered
  Queues <- SomeQueues
  MaxHistory = 1
  MaxSearches = 2
  MaxLyrics = 1
  MaxBehind = 1
SPECIFICATION Spec
INVARIANTS
  ViewIsHonest
  AnswersMatch
PROPERTIES
  ActsOnShown
