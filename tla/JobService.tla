----------------------------- MODULE JobService -----------------------------
(***************************************************************************)
(* What the verifier host promises for the jobs it accepts, whoever calls  *)
(* it and however often: a job is executed at most once and alone, and its *)
(* answer is given after that and never changes.  A job may be lost.       *)
(***************************************************************************)
CONSTANTS Jobs, Answers, None

VARIABLES
  phase,   \* job -> how far it is
  busy,    \* the job that is being executed
  answer   \* job -> its answer, None without one

vars == <<phase, busy, answer>>

Init ==
  /\ phase = [j \in Jobs |-> "unknown"]
  /\ busy = None
  /\ answer = [j \in Jobs |-> None]

Advance(j, from, to) == phase[j] = from /\ phase' = [phase EXCEPT ![j] = to]

Accept(j) == Advance(j, "unknown", "accepted") /\ UNCHANGED <<busy, answer>>

Claim(j) == Advance(j, "accepted", "claimed") /\ UNCHANGED <<busy, answer>>

Execute(j) ==
  /\ Advance(j, "claimed", "executing")
  /\ busy = None /\ busy' = j
  /\ UNCHANGED answer

Finish(j) ==
  /\ Advance(j, "executing", "executed")
  /\ busy' = None
  /\ UNCHANGED answer

\* The execution fails before it starts.
Skip(j) == Advance(j, "claimed", "executed") /\ UNCHANGED <<busy, answer>>

Answer(j) ==
  /\ Advance(j, "executed", "answered")
  /\ \E a \in Answers : answer' = [answer EXCEPT ![j] = a]
  /\ UNCHANGED busy

Lose(j) ==
  /\ \E p \in {"claimed", "executing", "executed"} : Advance(j, p, "lost")
  /\ busy' = IF busy = j THEN None ELSE busy
  /\ UNCHANGED answer

Next ==
  \E j \in Jobs : \/ Accept(j) \/ Claim(j) \/ Execute(j) \/ Finish(j) \/ Skip(j)
                  \/ Answer(j) \/ Lose(j)

Spec == Init /\ [][Next]_vars
=============================================================================
