SPECIFICATION Spec
CONSTANTS
    Releases = {"base", "added", "latest"}
    Files <- ForwardHistory
    Vm = vm
    Migrators = {vm, operator}
    FirstRelease = "base"
    NoOne = NoOne
    MaxRuns = 4
CHECK_DEADLOCK FALSE
INVARIANT RollbackNotRefused
