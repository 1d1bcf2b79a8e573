SPECIFICATION Spec
CONSTANTS
    seed = seed
    off = off
    bad = bad
    gen = gen
    small = small
    VMs = {v1, v2}
    Progs = {seed, off, bad, gen}
    Elems = {1, 2}
    Signals <- MCSignals
    Minimal <- MCMinimal
    Seeds = {seed, off, bad}
    DisabledProgs = {off}
    BrokenProgs = {bad}
    Flaky = TRUE
    Generated = {gen}
    Garbled = {gen}
    HubProgs = {}
    HubClient = FALSE
    Procs = 1
    BatchSize = 1
    SplitSize = 2
    MaxCrashes = 0
    MaxRestarts = 1
SYMMETRY VMSymmetry
INVARIANTS
    PersistentCorpus
    FoundSignalReported
CHECK_DEADLOCK FALSE
