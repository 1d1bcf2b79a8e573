SPECIFICATION Spec
CONSTANTS
    seed = seed
    off = off
    bad = bad
    gen = gen
    small = small
    VMs = {v1, v2}
    Progs = {seed, off, bad, gen, small}
    Elems = {1, 2}
    Signals <- MCSignals
    Minimal <- MCMinimal
    Seeds = {seed, off, bad}
    DisabledProgs = {off}
    BrokenProgs = {bad}
    Flaky = TRUE
    Generated = {}
    Garbled = {small}
    HubProgs = {gen}
    HubClient = TRUE
    Procs = 2
    BatchSize = 1
    SplitSize = 1
    MaxCrashes = 1
    MaxRestarts = 0
SYMMETRY VMSymmetry
INVARIANTS
    TypeOK
    CorpusCoversSignal
    NoPhantomCoverage
    MaxSignalReachesAll
CHECK_DEADLOCK FALSE
