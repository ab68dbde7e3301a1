SPECIFICATION WebSpec
CONSTANTS
  Texts = {t0, t1}
  MaxVersion = 3
  MaxOpens = 2
  KnowsUser = FALSE
  MaxPages = 2
  MaxFrames = 1
  MaxLockFaults = 1
  MaxEvents = 1
  MaxAlerts = 1
  MaxBreaks = 1
  MaxSignIns = 2
  Calls = {c1, c2}
  TokenCount = 5
  Hosts = {h1}
  MaxScans = 2
  MaxCancels = 1
  MaxTroubles = 1
  StepCount = 1
  MaxRev = 4
INVARIANTS
  WebTypeOK
  LockReturned
PROPERTIES
  Refines
  TypedTextKept
  BannerHeals
  ChangesAreShown
  BadgeConverges
  JobBarEnds
  NoSpuriousSignOut
  EveryCallSettles
  PanelCatchesUp
  ResumeIsInformed
CHECK_DEADLOCK FALSE
