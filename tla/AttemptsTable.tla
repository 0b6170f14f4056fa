---------------------------- MODULE AttemptsTable ----------------------------
(***************************************************************************)
(* What a mining run promises of the attempts table, however its workers,  *)
(* queues, signals and stop files behave: an attempt begins only for an    *)
(* undecided sample and within both bounds of the profile, it is recorded  *)
(* once or abandoned when its run is over, and no row ever changes.        *)
(***************************************************************************)
EXTENDS Naturals, FiniteSets

CONSTANTS Samples, Status, Final, MaxAttempts, TargetAccepted

VARIABLES
  run,      \* how many runs there were
  mining,   \* whether the last one is still at it
  begun,    \* the samples of its attempts that have no row
  rows      \* the attempts table

vars == <<run, mining, begun, rows>>

OfRun == {r \in rows : r.run = run}

Decided(s) == \E r \in rows : r.sample = s /\ (r.run = run \/ r.status \in Final)

BelowTarget == Cardinality({r \in OfRun : r.status = "accepted"}) < TargetAccepted

Init == run = 0 /\ mining = FALSE /\ begun = {} /\ rows = {}

StartRun ==
  /\ ~mining /\ mining' = TRUE
  /\ run' = run + 1 /\ begun' = {}
  /\ UNCHANGED rows

Begin(s) ==
  /\ mining /\ BelowTarget
  /\ s \notin begun /\ ~Decided(s)
  /\ Cardinality(begun) + Cardinality(OfRun) < MaxAttempts
  /\ begun' = begun \cup {s}
  /\ UNCHANGED <<run, mining, rows>>

Record(s, st) ==
  /\ mining /\ BelowTarget
  /\ s \in begun /\ begun' = begun \ {s}
  /\ rows' = rows \cup {[run |-> run, sample |-> s, status |-> st]}
  /\ UNCHANGED <<run, mining>>

\* The run is over, by its own decision or not: what has begun stays as it is,
\* or is lost, and gets no row any more.
EndRun ==
  /\ mining /\ mining' = FALSE
  /\ begun' \subseteq begun
  /\ UNCHANGED <<run, rows>>

Next ==
  \/ StartRun \/ EndRun
  \/ \E s \in Samples : Begin(s) \/ \E st \in Status : Record(s, st)

Spec == Init /\ [][Next]_vars
=============================================================================
