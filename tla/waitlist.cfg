CONSTANTS
  Players = {ann, bob, cid, dan}
  Premium = {ann}
  Privileged = {dan}
  MaxPlayers = 2
  SkipWait = FALSE
  Visits = 2
SPECIFICATION FairSpec
INVARIANTS
  WaitersKeepTheirPlace
PROPERTIES
  NobodyIsOvertaken
  WaitersEnter
CHECK_DEADLOCK FALSE
