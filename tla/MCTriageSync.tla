---------------------------- MODULE MCTriageSync ----------------------------
\* TLC instances of TriageSync: a program with two calls to triage and one with
\* one; batches of one, so that the two triages overflow a batch.
EXTENDS TriageSync

CONSTANTS s1, s2

MCFindable ==
    [sig : {s1}, call : Calls] \cup [sig : Sigs, call : {1}]
=============================================================================
