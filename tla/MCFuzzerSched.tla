---------------------------- MODULE MCFuzzerSched ----------------------------
\* TLC instances of FuzzerSched: two procs.
EXTENDS FuzzerSched

Off == [algorithm |-> FALSE, seedSelection |-> FALSE, triageFirst |-> FALSE,
        duration |-> 0, generateFirst |-> 0]

\* The bandit for ever; for two rounds after one of generation, with triage first; seed
\* selection only.
MCConfigs ==
    { [Off EXCEPT !.algorithm = TRUE],
      [algorithm |-> TRUE, seedSelection |-> TRUE, triageFirst |-> TRUE, duration |-> 2,
       generateFirst |-> 1],
      [Off EXCEPT !.seedSelection = TRUE] }
=============================================================================
