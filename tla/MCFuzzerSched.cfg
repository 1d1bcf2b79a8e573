SPECIFICATION FairSpec
CONSTANTS
    Procs = {p1, p2}
    Configs <- MCConfigs
    Supply = 1
    BatchSize = 1
    MaxQueue = 1
    MaxRound = 2
INVARIANTS
    TypeOK
    ReplacedWasSent
PROPERTIES
    BanditEnds
    CandidatesExecuted
    ProcsGoOn
