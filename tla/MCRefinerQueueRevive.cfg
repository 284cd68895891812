CONSTANTS
  Key = {"evidence", "harness"}
  Reg <- MCReg
  FollowUp <- NoFollowUp
  Review = {}
  Evidence = {"evidence"}
  Unpoliced = {"duplicate_crash_reviews"}
  Commands = {"execute", "dispatch", "bridge", "launch"}
  MaxCrashes = 1
  MaxRevivals = 1
  MaxRecords = 2
SPECIFICATION FairSpec
INVARIANTS
  StagesCoherent
  LaunchedOnce
PROPERTY
  PreparedIsLaunched
