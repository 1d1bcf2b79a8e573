SPECIFICATION FairSpec
CONSTANTS
    m1 = m1
    m2 = m2
    p1 = p1
    p2 = p2
    p3 = p3
    p4 = p4
    Managers = {m1, m2}
    Progs = {p1, p2, p3, p4}
    Repros = {r1, r2}
    Supports <- MCSupports
    StartCorpus <- MCStartCorpus
    MaxRecords = 0
    CapRecords = 2
    MaxOps = 2
    MaxFaults = 1
INVARIANTS
    TypeOK
    NothingSkipped
    HubMirrors
    CorpusIsUsed
    ReprosNotSkipped
    ReprosSentOnce
PROPERTIES
    ImplementsFeed
    EventuallySent
