---------------------------- MODULE MCAgentLock ----------------------------
\* Small instances of AgentLock for TLC: the operations of agent_control.py
\* and bootstrap_sr.py with the resources they contend for, by rank.
EXTENDS AgentLock

CONSTANTS start, integrate, sync, build   \* processes, after their operation

\* git-metadata 10, task-start 20, integration 30, runtime-sync 40,
\* canonical-runtime 50, build 60
OperationLocks(p) ==
  CASE p = start -> {10, 20}
    [] p = integrate -> {10, 30, 40, 50}
    [] p = sync -> {10, 40, 50}
    [] p = build -> {50, 60}
MCWanted == [p \in Procs |-> OperationLocks(p)]
MCResources == UNION {OperationLocks(p) : p \in Procs}

OneResource == {50}
CanonicalOnly == [p \in Procs |-> {50}]

OneHost == [p \in Procs |-> 1]
=============================================================================
