CONSTANTS
  Key = {"review", "corpus", "seed"}
  Reg <- MCReg
  FollowUp <- MCFollowUp
  Review = {"review"}
  Evidence = {}
  Unpoliced = {"duplicate_crash_reviews"}
  Commands = {"execute", "dispatch", "bridge", "launch", "verify", "policy"}
  MaxCrashes = 1
  MaxRevivals = 0
  MaxRecords = 2
SPECIFICATION Spec
INVARIANTS
  TypeOK
  StagesCoherent
PROPERTY
  LifecycleNeverRegresses
