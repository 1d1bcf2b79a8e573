-------------------------- MODULE MCManagerCorpus --------------------------
\* TLC instances of ManagerCorpus.  `seed` is a record of corpus.db, `off` one
\* with a disabled syscall and `bad` one that does not parse; `gen` is generated
\* by fuzzers or sent by other managers, its signal covers the seed's, so that
\* minimization drops the seed, and prog.Minimize may make `small` of it, which
\* by itself shows less.
EXTENDS ManagerCorpus, TLC

CONSTANTS seed, off, bad, gen, small

MCSignals == [p \in Progs |-> IF p = gen THEN {{1, 2}} ELSE IF p = small THEN {{2}} ELSE {{1}}]
MCMinimal == [p \in Progs |-> IF p = gen THEN Progs \cap {gen, small} ELSE {p}]
VMSymmetry == Permutations(VMs)
=============================================================================
