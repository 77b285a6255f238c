SPECIFICATION ReadsSpec
CONSTANTS
  Users = {1, 2, 3}
  Posts = {11, 12, 13, 14, 15}
  Labels = {21, 22}
  Resources = {31}
  Author <- MCAuthor
  PostId <- MCPostId
  PostAt <- MCPostAt
  Parent <- MCParent
  Embed <- MCEmbed
  Mentioned <- MCMentioned
  KindOf <- MCKindOf
  Locked = {12}
  Items <- MCItems
  Trust <- MCTrust
  MinPosts = 1
  ReachLimit = 10
  MaxReachAuthors = 10
  NotifyMaxScan = 2
  Moderated = {}
  Prefixes = {"a", "b"}
  Matches <- MCMatches
  FirstEvents <- MCFirstEvents
  Events <- MCEvents
  Asker = 1
  Asked = 14
  MaxWrites = 2
  MaxLooks = 1
  MaxExpired = 1
  UserBatch = 2
  PostBatch = 2
  BookmarkPage = 1
INVARIANTS
  
  
  
  PagesPartition
CHECK_DEADLOCK FALSE
