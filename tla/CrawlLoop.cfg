SPECIFICATION FairCrawlSpec
CONSTANTS
  home = home
  homeTop = homeTop
  long = long
  short = short
  goal = goal
  beyond = beyond
  hub = hub
  left = left
  right = right
  Page = Page
  NoTask = NoTask
  Task = {t1, t2}
  Url <- MCUrl
  Bit <- MCUrl
  Hash <- MCHash
  StripFragment <- MCStripFragment
  Job <- MCJob
  Mode = "breadth"
  MaxSize = 3
  Seeds <- MCSeeds
  Links <- MCLinks
  Outcome <- MCOutcome
  MaxDepth = 2
  MaxAttempts = 3
INVARIANTS
  DepthIsAChain
  EveryLinkIsFollowed
  BreadthFirstIsComplete
PROPERTIES
  CrawlEnds
