------------------------------ MODULE JobBoard ------------------------------
(***************************************************************************)
(* The verifier host as its controllers see it through submit and          *)
(* result-status: a job becomes known once, may be answered once, and the  *)
(* answer stays.  JobService says how it comes about.                      *)
(***************************************************************************)
CONSTANTS Jobs, Answers, None

VARIABLES
  known,   \* the jobs the host has accepted
  answer   \* job -> its answer, None without one

vars == <<known, answer>>

Init == known = {} /\ answer = [j \in Jobs |-> None]

Accept(j) ==
  /\ j \notin known
  /\ known' = known \cup {j}
  /\ UNCHANGED answer

Answer(j, a) ==
  /\ j \in known /\ answer[j] = None
  /\ answer' = [answer EXCEPT ![j] = a]
  /\ UNCHANGED known

Next == \E j \in Jobs : Accept(j) \/ \E a \in Answers : Answer(j, a)

Spec == Init /\ [][Next]_vars
=============================================================================
