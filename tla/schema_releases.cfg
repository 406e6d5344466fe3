SPECIFICATION Spec
CONSTANTS
    Releases = {"base", "added", "branch", "edited", "twice"}
    Files <- History
    Vm = vm
    Migrators = {vm, operator}
    FirstRelease = "base"
    NoOne = NoOne
    MaxRuns = 4
CHECK_DEADLOCK FALSE
INVARIANT AppliedOnce
INVARIANT WholeReleases
INVARIANT ServesKnownSchema
PROPERTY UpgradesEnd
