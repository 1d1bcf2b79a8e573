----------------------------- MODULE MCCorpusDB -----------------------------
\* TLC instances of CorpusDB: two keys, and a ratio at which a file of four
\* entries can already be worth compacting.
EXTENDS CorpusDB
=============================================================================
