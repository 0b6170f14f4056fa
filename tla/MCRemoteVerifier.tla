-------------------------- MODULE MCRemoteVerifier --------------------------
(* Jobs h1 (history1, pytest only) and h2 (history2, with a judge); verify *)
(* is called once for each, or a second time for h2.                       *)
EXTENDS RemoteVerifier

CONSTANTS h1, h2, once, again

CalledOnce == [j \in Jobs |-> {once}]
Repeated == [j \in Jobs |-> IF j = h2 THEN {once, again} ELSE {once}]
Manual == [j \in Jobs |-> "manual"]
Pipeline == [j \in Jobs |-> "pipeline"]
SyncAndManual == [j \in Jobs |-> IF j = h1 THEN "sync" ELSE "manual"]
=============================================================================
