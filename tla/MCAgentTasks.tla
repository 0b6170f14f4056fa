---------------------------- MODULE MCAgentTasks ----------------------------
\* A small instance of AgentTasks for TLC: any two of two starts of the same
\* topic, an integration, a sync and a build on one host, some of them behind a
\* third process, a sync that was killed with its locks.
EXTENDS AgentTasks

CONSTANTS start, again, integrate, sync, build, dead

MCProcs == {start, again, integrate, sync, build, dead}
MCKind ==
  [p \in MCProcs |->
     CASE p \in {start, again} -> "start"
       [] p = integrate -> "integrate"
       [] p \in {sync, dead} -> "sync"
       [] p = build -> "build"]
MCWanted == [p \in MCProcs |-> Locks(MCKind[p])]
MCResources == {10, 20, 30, 40, 50, 60}
OneHost == [p \in MCProcs |-> 1]

\* One or two processes other than dead are started.
Pairs == {pair \in SUBSET (MCProcs \ {dead}) : pair # {} /\ Cardinality(pair) <= 2}

\* Who meets dead's locks at the same time: two starts at their first, a sync at
\* its last while a build is at its first.
Heirs == {{start, again}, {sync, build}}

\* The state of the locks and processes in which dead, which was started with
\* them, has got its locks and was killed, before any of them took a step.
KilledInit ==
  /\ \E pair \in Heirs :
       pc = [p \in Procs |-> IF p = dead THEN "crashed"
                             ELSE IF p \in pair THEN "try" ELSE "exited"]
  /\ wants = [Wanted EXCEPT ![dead] = {}]
  /\ held = [p \in Procs |-> IF p = dead THEN Wanted[dead] ELSE {}]
  /\ owner = [r \in Resources |-> IF r \in Wanted[dead] THEN dead ELSE NoOne]
  /\ full = [r \in Resources |-> r \in Wanted[dead]]
  /\ seen = [p \in Procs |-> NoOne]
  /\ expired = {} /\ refused = {} /\ crashes = 1
  /\ robbed = [p \in Procs |-> {}]

PairInit == Init /\ pc[dead] = "exited" /\ {p \in Procs : pc[p] = "try"} \in Pairs

MCInit == (PairInit \/ KilledInit) /\ OperationsInit
MCSpec == MCInit /\ [][TasksNext]_allVars /\ TasksFairness
=============================================================================
