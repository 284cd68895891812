\* One shallow family that comes back: four crashes, then a build or a smoke test fails.
CONSTANTS
  Fingerprints = {"shallow"}
  Kind <- MCKind
  Severity <- MCSeverity
  Shallow <- MCShallow
  Deep <- MCDeep
  Writes <- MCWrites
  Signals <- MCSignals
  Seeds = {"seed"}
  Timed = {}
  MinFamilies = 10
  SkipSmoke = "unset"
  MaxWatches = 5
  MaxKills = 0
SPECIFICATION Spec
INVARIANT FailuresAreTriggered
CHECK_DEADLOCK FALSE
