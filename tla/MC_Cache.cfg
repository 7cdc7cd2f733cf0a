SPECIFICATION FairSpec
CONSTANTS
    None = None
    Short = Short
    Blob = {1, 2}
    Content = {"x", "y"}
    Branch = {"main"}
    Selections = {{1}}
    Captured <- CapturedBytes
    MaxRuns = 2
    MaxSeals = 2
    MaxWrites = 1
    MaxImports = 1
    MaxRestores = 1
    MaxFaults = 2
CHECK_DEADLOCK FALSE
INVARIANTS
    LiveNeverLost
    CollectedUntilPurged
    RunsReadable
PROPERTIES
    InterruptedRunSettles
