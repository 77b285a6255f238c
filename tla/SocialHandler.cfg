SPECIFICATION Spec
CONSTANTS
  a = a
  b = b
  P = P
  site = site
  app = app
  main = main
  other = other
  Users = {a, b}
  Posts = {P}
  Labels = {"cool"}
  Names = {"n", "m"}
  Records = {"ab", "ba", "tagP", "appP", "tagA", "tagS", "mark", "meA", "file"}
  Kind <- MCKind
  By <- MCBy
  To <- MCTo
  Label <- MCLabel
  App <- MCApp
  Author <- MCAuthor
  IsReply <- MCIsReply
  Home <- MCHome
  LiveLoops = {main, other}
  Known = {a}
  FirstName = "n"
  NoUser = NoUser
  NoApp = NoApp
  Stub = Stub
  Blank = Blank
  NoScore = NoScore
  Nothing = Nothing
  MaxOps = 3
  MaxRaceOps = 2
  MaxFaults = 1
  MaxRaceFaults = 0
INVARIANTS EdgesAgree CountDrift 
CHECK_DEADLOCK FALSE
