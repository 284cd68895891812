CONSTANTS
  Key = {"evidence", "harness"}
  Reg <- MCReg
  FollowUp <- NoFollowUp
  Review = {}
  Evidence = {"evidence"}
  Unpoliced = {"duplicate_crash_reviews"}
  Commands = {"execute", "dispatch", "bridge", "launch", "verify", "policy"}
  MaxCrashes = 0
  MaxRevivals = 0
  MaxRecords = 1
SPECIFICATION Spec
INVARIANT
  FindersFollowLifecycle
