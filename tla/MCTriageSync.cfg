SPECIFICATION FairSpec
CONSTANTS
    s1 = s1
    s2 = s2
    Fuzzers = {f1, f2}
    Sigs = {s1, s2}
    Calls = {1, 2}
    BatchCount = 1
    HandOut = 1
    NumProcs = 1
    Garbled = {s2}
    Findable <- MCFindable
    MaxFinds = 2
    MaxCrashes = 1
INVARIANT
    TypeOK
PROPERTIES
    DroppedOnlyBegun
    ReportedIsBegun
