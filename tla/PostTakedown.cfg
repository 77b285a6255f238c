SPECIFICATION Spec
CONSTANTS
  a = a
  b = b
  P = P
  R = R
  note = note
  list = list
  empty = empty
  main = main
  other = other
  Users = {a, b}
  Posts = {P, R}
  Contents = {note, list, empty}
  Collections = {list}
  Author <- MCAuthor
  Replied <- MCReplied
  Reposted <- MCReposted
  Items <- MCItems
  Mentions <- MCMentions
  Home <- MCHome
  Moderator <- MCModerator
  LiveLoops = {main, other}
  Empty = empty
  NoPost = NoPost
  NoRel = NoRel
  NoCounts = NoCounts
  NoScore <- MCNoScore
  Nothing = Nothing
  MaxOps = 3
  MaxRaceOps = 2
  MaxFaults = 0
INVARIANT TakedownHolds
CHECK_DEADLOCK FALSE
