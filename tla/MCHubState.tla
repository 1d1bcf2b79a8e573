----------------------------- MODULE MCHubState -----------------------------
\* TLC instances of HubState: one manager starts with a corpus, with a program in
\* it that the other cannot execute, the other starts fresh.  A reply carries one
\* number, and three programs are too many to send them all.
EXTENDS HubState

CONSTANTS m1, m2, p1, p2, p3, p4

MCSupports == [m \in Managers |-> (IF m = m1 THEN Progs ELSE Progs \ {p4}) \cup Repros]
MCStartCorpus == [m \in Managers |-> IF m = m1 THEN Progs \ {p3} ELSE {}]
=============================================================================
