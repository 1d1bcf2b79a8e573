----------------------------- MODULE MCLeakGate -----------------------------
\* TLC instance of LeakGate: more processes than slots, so that the level, the
\* window and the drain all block somebody.
EXTENDS LeakGate
=============================================================================
