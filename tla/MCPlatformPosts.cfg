SPECIFICATION FairSpec
CONSTANTS
  p1 = p1
  o1 = o1
  Posts = {p1, p2}
  Origins = {o1, o2}
  Reposts <- SharedReposts
  Bots = {p1}
  Requests = {i1, i2}
  Awaited = {i1}
  Recurring = {i2}
  MaxRestarts = 1
  Word = 8
 
PROPERTIES ProcessingEnds IncompleteIsRequested
