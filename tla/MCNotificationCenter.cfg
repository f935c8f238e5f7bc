SPECIFICATION FairSpec
CONSTANTS
  c1 = c1
  c2 = c2
  u1 = u1
  u2 = u2
  here = here
  there = there
  tag = tag
  None = None
  Channels <- MCChannels
  Texts <- MCTexts
  Notices <- MCNotices
  MaxEdits = 1
  MaxGaps = 1
  MaxThrows = 1
  MaxHangs = 1
INVARIANTS TypeOK FollowsConfigMap
PROPERTIES PostedOnce NotifyEnds CatchesUp
CHECK_DEADLOCK FALSE
