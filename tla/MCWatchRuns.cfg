\* Two watches, each with the follow-ups it grows into, and one kill.
CONSTANTS
  Fingerprints = {"signal", "write"}
  Kind <- MCKind
  Severity <- MCSeverity
  Shallow <- MCShallow
  Deep <- MCDeep
  Writes <- MCWrites
  Signals <- MCSignals
  Seeds = {"seed"}
  Timed = {}
  MinFamilies = 10
  SkipSmoke = "unset"
  MaxWatches = 2
  MaxKills = 1
SPECIFICATION Spec
INVARIANTS TypeOK NestingBounded CrashesAccounted NoFamilySkipsTriage TopLevelTriggersKept
PROPERTY WatchEnds
CHECK_DEADLOCK FALSE
