SPECIFICATION Spec
CONSTANTS
    s1 = s1
    s2 = s2
    Fuzzers = {f1}
    Sigs = {s1}
    Calls = {1, 2}
    BatchCount = 1
    HandOut = 1
    NumProcs = 1
    Garbled = {}
    Findable <- MCFindable
    MaxFinds = 2
    MaxCrashes = 1
PROPERTY
    BatchesAdvance
CHECK_DEADLOCK FALSE
