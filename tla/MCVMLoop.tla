------------------------------ MODULE MCVMLoop ------------------------------
\* TLC instances of VMLoop: two VMs, both needed for a reproduction, so that one has to
\* wait for the other to be stopped.
EXTENDS VMLoop

\* With the hub and the dashboard; with the hub alone; on a kernel that drifts.
MCConfigs ==
    { [reproduce |-> TRUE, dash |-> TRUE, hub |-> TRUE, drifts |-> FALSE, shows |-> {"a"}],
      [reproduce |-> TRUE, dash |-> FALSE, hub |-> TRUE, drifts |-> FALSE, shows |-> Titles],
      [reproduce |-> TRUE, dash |-> FALSE, hub |-> FALSE, drifts |-> TRUE, shows |-> Titles] }
=============================================================================
