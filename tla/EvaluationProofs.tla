-------------------------- MODULE EvaluationProofs --------------------------
(***************************************************************************)
(* Theorems about Evaluation for every command line, number of samples,    *)
(* set of statuses and number of faults: the types, the GPUs of the        *)
(* workers, and that no sample is evaluated twice or disappears.           *)
(***************************************************************************)
EXTENDS Evaluation, FiniteSetTheorems, TLAPS

\* The types proper; GpusApart follows from Started.
VariablesOK ==
  /\ run \in Requests
  /\ pc \in {"start", "sequence", "collect", "check", "join", "summary", "done", "failed"}
  /\ ending \in {"summary", "failed"} /\ summary \in {"complete", "blocked", None}
  /\ phase \in [Workers -> {"absent", "starting", "idle", "taking", "busy", "leaving",
                            "exited", "killed"}]
  /\ taken \in 0 .. NumSamples + Cardinality(Running)
  /\ job \in [Workers -> Samples \cup {0}]
  /\ buffer \in [Workers -> SUBSET Results] /\ pipe \subseteq Results
  /\ rows \subseteq Results
  /\ takeLock \in Workers \cup {0} /\ sendLock \in Workers \cup {0}
  /\ faults \in 0 .. MaxFaults

\* Only workers of a valid command line are ever there, and a worker that waits
\* for a job has none.
Started ==
  \A w \in Workers :
    /\ phase[w] # "absent" => Valid /\ w \in Running /\ pc # "start"
    /\ phase[w] \in {"absent", "starting", "idle", "taking"} => job[w] = 0
    /\ phase[w] = "busy" => job[w] # 0

\* What is with a worker or has a result was taken from the queue before.
WasTaken ==
  /\ \A w \in Workers : job[w] <= taken /\ \A r \in buffer[w] : r.sample <= taken
  /\ \A r \in pipe \cup rows : r.sample <= taken

\* A sample is with one worker, or has one result in one place.
Once ==
  /\ \A v, w \in Workers : job[v] = job[w] /\ job[v] # 0 => v = w
  /\ \A v, w \in Workers : \A r \in buffer[w] : job[v] # r.sample
  /\ \A v, w \in Workers : \A r \in buffer[v], q \in buffer[w] :
       r.sample = q.sample => v = w /\ r = q
  /\ \A r \in pipe \cup rows : \A w \in Workers :
       job[w] # r.sample /\ \A q \in buffer[w] : q.sample # r.sample
  /\ \A r, q \in pipe \cup rows : r.sample = q.sample => r = q
  /\ pipe \cap rows = {}

\* Somebody still has what was taken, unless the run is being given up.
Somewhere(s) ==
  \/ \E w \in Workers : job[w] = s \/ \E r \in buffer[w] : r.sample = s
  \/ \E r \in pipe \cup rows : r.sample = s

NoneLost ==
  \A s \in Samples :
    s <= taken => Somewhere(s) \/ (ending = "failed" /\ pc \in {"join", "failed"})

\* Every sample has a row when the summary is written.
AllRows == \A s \in Samples : \E r \in rows : r.sample = s

Summed ==
  /\ pc \in {"summary", "done"} \/ (pc = "join" /\ ending = "summary") => AllRows
  /\ summary # None =>
       /\ pc = "done"
       /\ summary = "blocked" <=> \A r \in rows : r.status = "failed_infra"

USE DEF vars, main, queues, workerFrame, mainFrame, startFrame, sequenceFrame
-----------------------------------------------------------------------------
(* The command line.                                                       *)

\* What run_evaluation computes from its arguments is a number.
LEMMA Numbers ==
  ASSUME run \in Requests
  PROVE  NumSamples \in Nat /\ WorkerCount \in Int /\ WorkerCount <= NumSamples
<1>1. /\ run.named \in Nat /\ run.limit \in Int \cup {None}
      /\ run.smoke \in BOOLEAN /\ run.workers \in Int
  BY EvaluationAssumption DEF Request
<1>2. NumSamples \in Nat
  BY <1>1 DEF NumSamples
<1>3. WorkerCount \in Int /\ WorkerCount <= NumSamples
  BY <1>1, <1>2 DEF WorkerCount
<1> QED
  BY <1>2, <1>3

LEMMA RunningCount ==
  ASSUME run \in Requests
  PROVE  /\ Cardinality(Running) = IF WorkerCount < 1 THEN 0 ELSE WorkerCount
         /\ IsFiniteSet(Samples) /\ Cardinality(Samples) = NumSamples
<1>1. NumSamples \in Nat /\ WorkerCount \in Int
  BY Numbers
<1>2. \A n \in Int : IsFiniteSet(1 .. n) /\ Cardinality(1 .. n) = IF 1 > n THEN 0 ELSE n
  BY FS_Interval
<1> QED
  BY <1>1, <1>2 DEF Running, Samples

\* The arguments do not change.
LEMMA RunKept ==
  ASSUME [Next]_vars
  PROVE  /\ run' = run /\ NumSamples' = NumSamples /\ WorkerCount' = WorkerCount
         /\ Samples' = Samples /\ Results' = Results /\ Running' = Running
         /\ Valid' = Valid
<1>1. run' = run
  BY DEF Next, MainStep, MainFails, Work, Write, WorkerFails, StartSequence, StartWorkers,
     Refuse, LoadFails, EvaluateNext, SequenceDone, SequenceRaises, Collect, CollectFails,
     Collected, Empty, CheckAlive, Interrupt, Terminate, Joined, Summarize, Boot, BootFails,
     GetJob, TakeJob, Report, ReportFails, Send, Sent, Leave, Die
<1>2. NumSamples' = NumSamples /\ WorkerCount' = WorkerCount
  BY <1>1 DEF NumSamples, WorkerCount
<1>3. Samples' = Samples /\ Results' = Results /\ Running' = Running
  BY <1>2 DEF Samples, Results, Running
<1>4. Valid' = Valid
  BY <1>1, <1>2 DEF Valid, Selected, Used, Gpus, Allowed
<1> QED
  BY <1>1, <1>2, <1>3, <1>4

\* No device is in the slots of two workers.
LEMMA SlotsApart ==
  ASSUME run \in Requests, Valid, NEW v \in Workers, NEW w \in Workers,
         v \in Running, w \in Running, v # w
  PROVE  Slot(v) \cap Slot(w) = {}
<1>1. run.worldSize = 1 /\ WorkerCount \in 1 .. 3
  <2>1. WorkerCount # 1
    BY Numbers DEF Running, Workers
  <2>2. run.worldSize \in Nat \ {0} /\ ~(run.worldSize > 1)
    BY <2>1, EvaluationAssumption DEF Valid, Request
  <2> QED
    BY <2>2 DEF Valid
<1>2. Slot(v) = {Gpus[i] : i \in v .. v} /\ Slot(w) = {Gpus[i] : i \in w .. w}
  BY <1>1 DEF Slot, Workers
<1>3. v \in Used /\ w \in Used
  BY <1>1 DEF Used, Running, Workers
<1>4. Gpus[v] # Gpus[w]
  BY <1>3 DEF Valid
<1> QED
  BY <1>2, <1>4 DEF Workers

-----------------------------------------------------------------------------
(* The types.                                                              *)

LEMMA VariablesStep ==
  ASSUME VariablesOK, Started, [Next]_vars
  PROVE  VariablesOK'
<1> USE EvaluationAssumption
<1>0. /\ run' \in Requests /\ Samples' = Samples /\ Results' = Results
      /\ NumSamples' = NumSamples /\ Cardinality(Running)' = Cardinality(Running)
      /\ NumSamples \in Nat /\ Cardinality(Running) \in Nat
      /\ WorkerCount <= Cardinality(Running) /\ WorkerCount \in Int
  BY RunKept, RunningCount, Numbers DEF VariablesOK
<1>1. CASE StartSequence \/ StartWorkers \/ Refuse \/ LoadFails
  BY <1>0, <1>1 DEF VariablesOK, StartSequence, StartWorkers, Refuse, LoadFails, Fault
<1>2. ASSUME NEW status \in Statuses, EvaluateNext(status) PROVE VariablesOK'
  <2>1. taken + 1 \in Samples /\ taken + 1 \in 0 .. NumSamples + Cardinality(Running)
    BY <1>0, <1>2 DEF EvaluateNext, VariablesOK, Samples
  <2> QED
    BY <1>0, <1>2, <2>1 DEF EvaluateNext, VariablesOK, Results
<1>3. CASE SequenceDone \/ SequenceRaises
  BY <1>0, <1>3 DEF VariablesOK, SequenceDone, SequenceRaises, Fault
<1>4. ASSUME NEW r \in pipe, Collect(r) \/ CollectFails(r) PROVE VariablesOK'
  BY <1>0, <1>4 DEF VariablesOK, Collect, CollectFails, LeaveLoop, Fault
<1>5. CASE Collected \/ Empty \/ CheckAlive \/ Interrupt
  BY <1>0, <1>5 DEF VariablesOK, Collected, Empty, CheckAlive, Interrupt, LeaveLoop, Fault
<1>6. CASE Joined \/ Summarize \/ UNCHANGED vars
  BY <1>0, <1>6 DEF VariablesOK, Joined, Summarize
<1>7. ASSUME NEW w \in Workers, Terminate(w) \/ Boot(w) \/ BootFails(w) \/ GetJob(w)
               \/ ReportFails(w) \/ Send(w) \/ Leave(w) \/ Die(w)
      PROVE  VariablesOK'
  BY <1>0, <1>7 DEF VariablesOK, Terminate, Boot, BootFails, GetJob, ReportFails, Send,
     Leave, Die, Turns, Fault
<1>8. ASSUME NEW w \in Workers, TakeJob(w) PROVE VariablesOK'
  <2>1. taken' \in 0 .. NumSamples + Cardinality(Running)
    BY <1>0, <1>8 DEF TakeJob, VariablesOK
  <2>2. taken < NumSamples => taken + 1 \in Samples
    BY <1>0 DEF VariablesOK, Samples
  <2> QED
    BY <1>0, <1>8, <2>1, <2>2 DEF TakeJob, VariablesOK
<1>9. ASSUME NEW w \in Workers, NEW status \in Statuses, Report(w, status)
      PROVE  VariablesOK'
  <2>1. job[w] \in Samples
    BY <1>9 DEF Report, Turns, Started, VariablesOK
  <2> QED
    BY <1>0, <1>9, <2>1 DEF Report, Turns, VariablesOK, Results
<1>10. ASSUME NEW w \in Workers, NEW r \in buffer[w], Sent(w, r) PROVE VariablesOK'
  BY <1>0, <1>10 DEF Sent, VariablesOK
<1> QED
  BY <1>1, <1>2, <1>3, <1>4, <1>5, <1>6, <1>7, <1>8, <1>9, <1>10
     DEF Next, MainStep, MainFails, Work, Write, WorkerFails

LEMMA StartedStep ==
  ASSUME VariablesOK, Started, [Next]_vars
  PROVE  Started'
<1>0. Valid' = Valid /\ Running' = Running
  BY RunKept
<1>1. CASE StartWorkers
  BY <1>0, <1>1 DEF VariablesOK, Started, StartWorkers
<1>2. CASE StartSequence \/ Refuse \/ LoadFails \/ SequenceDone \/ SequenceRaises
             \/ \E status \in Statuses : EvaluateNext(status)
  BY <1>0, <1>2 DEF Started, StartSequence, Refuse, LoadFails, EvaluateNext, SequenceDone,
     SequenceRaises
<1>3. CASE Collected \/ Empty \/ CheckAlive \/ Interrupt \/ Joined \/ Summarize
             \/ UNCHANGED vars \/ \E r \in pipe : Collect(r) \/ CollectFails(r)
  BY <1>0, <1>3 DEF VariablesOK, Started, LeaveLoop, Collected, Empty, CheckAlive, Interrupt, Joined, Summarize,
     Collect, CollectFails
<1>4. ASSUME NEW w \in Workers, Terminate(w) \/ Boot(w) \/ BootFails(w) \/ GetJob(w)
               \/ ReportFails(w) \/ Send(w) \/ Leave(w) \/ Die(w)
      PROVE  Started'
  BY <1>0, <1>4 DEF VariablesOK, Started, Terminate, Alive, Boot, BootFails, GetJob,
     ReportFails, Send, Leave, Die, Turns
<1>5. ASSUME NEW w \in Workers, TakeJob(w) PROVE Started'
  BY <1>0, <1>5 DEF VariablesOK, Started, TakeJob
<1>6. ASSUME NEW w \in Workers, NEW status \in Statuses, Report(w, status)
      PROVE  Started'
  BY <1>0, <1>6 DEF VariablesOK, Started, Report, Turns
<1>7. ASSUME NEW w \in Workers, NEW r \in buffer[w], Sent(w, r) PROVE Started'
  BY <1>0, <1>7 DEF Started, Sent
<1> QED
  BY <1>1, <1>2, <1>3, <1>4, <1>5, <1>6, <1>7
     DEF Next, MainStep, MainFails, Work, Write, WorkerFails

LEMMA TypesAlways == Spec => [](VariablesOK /\ Started)
<1>1. Init => VariablesOK /\ Started
  <2> SUFFICES ASSUME Init PROVE VariablesOK /\ Started
    OBVIOUS
  <2>1. run \in Requests
    BY DEF Init
  <2>2. NumSamples \in Nat /\ Cardinality(Running) \in Nat
    BY <2>1, Numbers, RunningCount
  <2> QED
    BY <2>2, EvaluationAssumption DEF Init, VariablesOK, Started
<1> QED
  BY <1>1, VariablesStep, StartedStep, PTL DEF Spec

\* Every variable keeps its type, and no two workers that run ever share a GPU,
\* for every list of devices and every --num-workers (glm_eval.py:637-654).
THEOREM EvaluationTypeCorrect == Spec => []EvaluationTypeOK
<1>1. VariablesOK /\ Started => EvaluationTypeOK
  <2> SUFFICES ASSUME VariablesOK, Started PROVE EvaluationTypeOK
    OBVIOUS
  <2>1. GpusApart
    BY SlotsApart DEF GpusApart, Started, Alive, VariablesOK
  <2> QED
    BY <2>1 DEF VariablesOK, EvaluationTypeOK
<1> QED
  BY <1>1, TypesAlways, PTL
-----------------------------------------------------------------------------
(* Where the samples are.                                                  *)

Places == <<job, buffer, pipe, rows, taken>>

\* One process alone has no workers and nothing in a queue.
Alone ==
  pc \in {"start", "sequence"} =>
    pipe = {} /\ \A w \in Workers : phase[w] = "absent" /\ buffer[w] = {}

Accounted == WasTaken /\ Once /\ NoneLost /\ Alone /\ Summed

LEMMA PlacesSteps ==
  ASSUME [Next]_vars
  PROVE  \/ UNCHANGED Places
         \/ \E status \in Statuses : EvaluateNext(status)
         \/ \E r \in pipe : Collect(r) \/ CollectFails(r)
         \/ \E w \in Workers : TakeJob(w)
         \/ \E w \in Workers, status \in Statuses : Report(w, status)
         \/ \E w \in Workers : \E r \in buffer[w] : Sent(w, r)
BY DEF Next, MainStep, MainFails, Work, Write, WorkerFails, StartSequence, StartWorkers,
   Refuse, LoadFails, SequenceDone, SequenceRaises, Collected, Empty, CheckAlive,
   Interrupt, Terminate, Joined, Summarize, Boot, BootFails, GetJob, ReportFails, Send,
   Leave, Die, Places

\* What was taken is counted.
LEMMA WasTakenStep ==
  ASSUME VariablesOK, WasTaken, [Next]_vars
  PROVE  WasTaken'
<1>0. taken \in Nat /\ \A w \in Workers : job[w] \in Nat
  BY Numbers, RunningCount DEF VariablesOK, Samples
<1>0a. \A r \in Results : r.sample \in Nat
  BY DEF Results, Samples
<1>1. CASE UNCHANGED Places
  BY <1>1 DEF WasTaken, Places
<1>2. ASSUME NEW status \in Statuses, EvaluateNext(status) PROVE WasTaken'
  BY <1>0, <1>0a, <1>2 DEF WasTaken, EvaluateNext, VariablesOK
<1>3. ASSUME NEW r \in pipe, Collect(r) \/ CollectFails(r) PROVE WasTaken'
  BY <1>3 DEF WasTaken, Collect, CollectFails
<1>4. ASSUME NEW w \in Workers, TakeJob(w) PROVE WasTaken'
  BY <1>0, <1>0a, <1>4 DEF WasTaken, TakeJob, VariablesOK
<1>5. ASSUME NEW w \in Workers, NEW status \in Statuses, Report(w, status) PROVE WasTaken'
  BY <1>0, <1>5 DEF WasTaken, Report, VariablesOK
<1>6. ASSUME NEW w \in Workers, NEW r \in buffer[w], Sent(w, r) PROVE WasTaken'
  BY <1>6 DEF WasTaken, Sent, VariablesOK
<1> QED
  BY <1>1, <1>2, <1>3, <1>4, <1>5, <1>6, PlacesSteps

\* A sample that is taken is in no place yet, and what moves leaves its place.
LEMMA OnceStep ==
  ASSUME VariablesOK, Started, WasTaken, Once, [Next]_vars
  PROVE  Once'
<1>0. taken \in Nat /\ \A w \in Workers : job[w] \in Nat
  BY Numbers, RunningCount DEF VariablesOK, Samples
<1>0a. \A r \in Results : r.sample \in Nat \ {0}
  BY DEF Results, Samples
<1>1. CASE UNCHANGED Places
  BY <1>1 DEF Once, Places
<1>2. ASSUME NEW status \in Statuses, EvaluateNext(status) PROVE Once'
  <2> DEFINE new == [sample |-> taken + 1, status |-> status]
  <2>1. /\ rows' = rows \cup {new} /\ new.sample = taken + 1
        /\ UNCHANGED <<job, buffer, pipe>>
    BY <1>2 DEF EvaluateNext
  <2>2. /\ \A w \in Workers : job[w] # new.sample /\ \A q \in buffer[w] : q.sample # new.sample
        /\ \A r \in pipe \cup rows : r.sample # new.sample
    BY <1>0, <1>0a, <2>1 DEF WasTaken, VariablesOK
  <2> HIDE DEF new
  <2> QED
    BY <2>1, <2>2 DEF Once
<1>3. ASSUME NEW r \in pipe, Collect(r) \/ CollectFails(r) PROVE Once'
  BY <1>3 DEF Once, Collect, CollectFails
<1>4. ASSUME NEW w \in Workers, TakeJob(w) PROVE Once'
  <2>1. CASE UNCHANGED job
    BY <1>4, <2>1 DEF Once, TakeJob
  <2>2. CASE job' = [job EXCEPT ![w] = taken + 1]
    <3>1. /\ \A v \in Workers : job[v] # taken + 1 /\ \A q \in buffer[v] : q.sample # taken + 1
          /\ \A r \in pipe \cup rows : r.sample # taken + 1
      BY <1>0, <1>0a DEF WasTaken, VariablesOK
    <3>2. UNCHANGED <<buffer, pipe, rows>> /\ \A v \in Workers :
            job'[v] = IF v = w THEN taken + 1 ELSE job[v]
      BY <1>4, <2>2 DEF TakeJob, VariablesOK
    <3> QED
      BY <3>1, <3>2 DEF Once
  <2> QED
    BY <1>4, <2>1, <2>2 DEF TakeJob
<1>5. ASSUME NEW w \in Workers, NEW status \in Statuses, Report(w, status) PROVE Once'
  <2> DEFINE new == [sample |-> job[w], status |-> status]
  <2>1. /\ \A v \in Workers : job'[v] = IF v = w THEN 0 ELSE job[v]
        /\ \A v \in Workers : buffer'[v] = IF v = w THEN buffer[w] \cup {new} ELSE buffer[v]
        /\ new.sample = job[w] /\ job[w] # 0
        /\ UNCHANGED <<pipe, rows>>
    BY <1>5 DEF Report, Turns, VariablesOK, Started
  <2>2. \A v \in Workers : \A q \in buffer[v] : q.sample # 0
    BY <1>0a DEF VariablesOK
  <2>2a. \A q \in pipe \cup rows : q.sample # 0
    BY <1>0a DEF VariablesOK
  <2> HIDE DEF new
  <2>3. \A v, u \in Workers : job'[v] = job'[u] /\ job'[v] # 0 => v = u
    BY <2>1 DEF Once
  <2>4. \A v, u \in Workers : \A r \in buffer'[u] : job'[v] # r.sample
    BY <2>1, <2>2 DEF Once
  <2>5. \A v, u \in Workers : \A r \in buffer'[v], q \in buffer'[u] :
          r.sample = q.sample => v = u /\ r = q
    BY <2>1 DEF Once
  <2>6. \A r \in pipe \cup rows : \A u \in Workers :
          job'[u] # r.sample /\ \A q \in buffer'[u] : q.sample # r.sample
    BY <2>1, <2>2a DEF Once
  <2> QED
    BY <2>1, <2>3, <2>4, <2>5, <2>6 DEF Once
<1>6. ASSUME NEW w \in Workers, NEW r \in buffer[w], Sent(w, r) PROVE Once'
  <2>1. /\ \A v \in Workers : buffer'[v] = IF v = w THEN buffer[w] \ {r} ELSE buffer[v]
        /\ pipe' = pipe \cup {r} /\ UNCHANGED <<job, rows>>
    BY <1>6 DEF Sent, VariablesOK
  <2> QED
    BY <2>1 DEF Once
<1> QED
  BY <1>1, <1>2, <1>3, <1>4, <1>5, <1>6, PlacesSteps

\* Whether the run is being given up.
GivenUp == ending = "failed" /\ pc \in {"join", "failed"}

LEMMA GivenUpStays ==
  ASSUME GivenUp, [Next]_vars
  PROVE  GivenUp'
BY DEF GivenUp, Next, MainStep, MainFails, Work, Write, WorkerFails, StartSequence,
   StartWorkers, Refuse, LoadFails, EvaluateNext, SequenceDone, SequenceRaises, Collect,
   CollectFails, Collected, Empty, CheckAlive, Interrupt, Terminate, Joined, Summarize,
   Boot, BootFails, GetJob, TakeJob, Report, ReportFails, Send, Sent, Leave, Die

\* Only a row that cannot be written loses a result.
LEMMA NoneLostStep ==
  ASSUME VariablesOK, Started, NoneLost, [Next]_vars
  PROVE  NoneLost'
<1>0. taken \in Nat /\ Samples' = Samples /\ \A s \in Samples : s \in Nat \ {0}
  BY Numbers, RunningCount, RunKept DEF VariablesOK, Samples
<1>1. CASE GivenUp
  BY <1>1, GivenUpStays DEF NoneLost, GivenUp
<1>2. SUFFICES ASSUME ~GivenUp, ~GivenUp', NEW s \in Samples, s <= taken'
               PROVE  Somewhere(s)'
  BY <1>0, <1>1 DEF NoneLost, GivenUp
<1>3. s <= taken => Somewhere(s)
  BY <1>2 DEF NoneLost, GivenUp
<1>4. CASE UNCHANGED Places
  BY <1>2, <1>3, <1>4 DEF Somewhere, Places
<1>5. ASSUME NEW status \in Statuses, EvaluateNext(status) PROVE Somewhere(s)'
  <2> DEFINE new == [sample |-> taken + 1, status |-> status]
  <2>1. /\ rows' = rows \cup {new} /\ new.sample = taken + 1 /\ taken' = taken + 1
        /\ UNCHANGED <<job, buffer, pipe>>
    BY <1>5 DEF EvaluateNext
  <2> HIDE DEF new
  <2>2. s <= taken \/ s = new.sample
    BY <1>0, <1>2, <2>1
  <2> QED
    BY <1>3, <2>1, <2>2 DEF Somewhere
<1>6. ASSUME NEW r \in pipe, Collect(r) \/ CollectFails(r) PROVE Somewhere(s)'
  BY <1>2, <1>3, <1>6 DEF Somewhere, Collect, CollectFails, LeaveLoop, GivenUp
<1>7. ASSUME NEW w \in Workers, TakeJob(w) PROVE Somewhere(s)'
  <2>1. UNCHANGED <<buffer, pipe, rows>> /\ taken' = taken + 1
    BY <1>7 DEF TakeJob
  <2>2. CASE s = taken + 1
    <3>1. taken < NumSamples
      BY <1>0, <2>2, Numbers DEF VariablesOK, Samples
    <3>2. job'[w] = s
      BY <1>7, <2>2, <3>1 DEF TakeJob, VariablesOK
    <3> QED
      BY <3>2 DEF Somewhere
  <2>3. CASE s <= taken
    <3>1. \A v \in Workers : job[v] = s => job'[v] = s
      BY <1>0, <1>7 DEF TakeJob, VariablesOK, Started
    <3> QED
      BY <1>3, <2>1, <2>3, <3>1 DEF Somewhere
  <2> QED
    BY <1>0, <1>2, <2>1, <2>2, <2>3
<1>8. ASSUME NEW w \in Workers, NEW status \in Statuses, Report(w, status)
      PROVE  Somewhere(s)'
  <2> DEFINE new == [sample |-> job[w], status |-> status]
  <2>1. /\ \A v \in Workers : v # w => job'[v] = job[v]
        /\ \A v \in Workers : buffer[v] \subseteq buffer'[v]
        /\ new \in buffer'[w] /\ new.sample = job[w]
        /\ UNCHANGED <<pipe, rows, taken>>
    BY <1>8 DEF Report, Turns, VariablesOK
  <2> HIDE DEF new
  <2> QED
    BY <1>2, <1>3, <2>1 DEF Somewhere
<1>9. ASSUME NEW w \in Workers, NEW r \in buffer[w], Sent(w, r) PROVE Somewhere(s)'
  <2>1. /\ \A v \in Workers : buffer'[v] = IF v = w THEN buffer[w] \ {r} ELSE buffer[v]
        /\ pipe' = pipe \cup {r} /\ UNCHANGED <<job, rows, taken>>
    BY <1>9 DEF Sent, VariablesOK
  <2> QED
    BY <1>2, <1>3, <2>1 DEF Somewhere
<1> QED
  BY <1>4, <1>5, <1>6, <1>7, <1>8, <1>9, PlacesSteps

LEMMA AloneStep ==
  ASSUME VariablesOK, Alone, [Next]_vars
  PROVE  Alone'
BY DEF VariablesOK, Alone, Next, MainStep, MainFails, Work, Write, WorkerFails, StartSequence,
   StartWorkers, Refuse, LoadFails, EvaluateNext, SequenceDone, SequenceRaises, Collect,
   CollectFails, Collected, Empty, CheckAlive, Interrupt, Terminate, Joined, Summarize,
   Boot, BootFails, GetJob, TakeJob, Report, ReportFails, Send, Sent, Leave, Die, LeaveLoop,
   Turns, Alive

\* As many rows as samples, and no two of one sample, are all of them.
LEMMA CountedRows ==
  ASSUME VariablesOK, Once, Cardinality(rows) = NumSamples
  PROVE  AllRows
<1> DEFINE f == [r \in rows |-> r.sample]
<1>1. IsFiniteSet(Samples) /\ Cardinality(Samples) = NumSamples
  BY RunningCount DEF VariablesOK
<1>2. f \in Injection(rows, Samples)
  BY DEF VariablesOK, Results, Injection, IsInjective, Once
<1>3. f \in Surjection(rows, Samples)
  BY <1>1, <1>2, FS_Injection
<1> QED
  BY <1>3 DEF Surjection, AllRows

LEMMA SummedStep ==
  ASSUME VariablesOK, Started, Accounted, [Next]_vars
  PROVE  Summed'
<1>0. Samples' = Samples
  BY RunKept
<1>1. rows \subseteq rows' /\ (pc \in {"join", "summary", "done"} => rows' = rows)
  BY DEF Next, MainStep, MainFails, Work, Write, WorkerFails, StartSequence,
   StartWorkers, Refuse, LoadFails, EvaluateNext, SequenceDone, SequenceRaises, Collect,
   CollectFails, Collected, Empty, CheckAlive, Interrupt, Terminate, Joined, Summarize,
   Boot, BootFails, GetJob, TakeJob, Report, ReportFails, Send, Sent, Leave, Die
<1>2. AllRows => AllRows'
  BY <1>0, <1>1 DEF AllRows
<1>3. CASE SequenceDone
  <2>1. \A s \in Samples : s <= taken
    BY <1>3, Numbers DEF SequenceDone, Samples, VariablesOK
  <2>2. \A w \in Workers : job[w] = 0 /\ buffer[w] = {}
    BY <1>3 DEF SequenceDone, Accounted, Alone, Started
  <2>3. AllRows
    BY <1>3, <2>1, <2>2 DEF SequenceDone, Accounted, Alone, NoneLost, Somewhere, AllRows,
       Samples
  <2> QED
    BY <1>2, <1>3, <2>3 DEF SequenceDone, Accounted, Summed
<1>4. CASE Collected
  BY <1>2, <1>4, CountedRows DEF Collected, LeaveLoop, Accounted, Summed
<1>5. CASE Joined \/ Summarize
  BY <1>1, <1>2, <1>5, EvaluationAssumption DEF VariablesOK, Joined, Summarize, Accounted, Summed
<1>6. CASE UNCHANGED main
  BY <1>1, <1>2, <1>6 DEF Accounted, Summed
<1>7. CASE StartSequence \/ StartWorkers \/ Refuse \/ LoadFails \/ SequenceRaises \/ Empty
             \/ CheckAlive \/ Interrupt \/ \E r \in pipe : CollectFails(r)
  BY <1>7 DEF StartSequence, StartWorkers, Refuse, LoadFails, SequenceRaises, Empty,
     CheckAlive, Interrupt, CollectFails, LeaveLoop, Accounted, Summed
<1> QED
  BY <1>3, <1>4, <1>5, <1>6, <1>7 DEF Next, MainStep, MainFails, Work, Write, WorkerFails,
     EvaluateNext, Collect, Terminate, Boot, BootFails, GetJob, TakeJob, Report, ReportFails,
     Send, Sent, Leave, Die

LEMMA AccountedAlways == Spec => []Accounted
<1>1. Init => Accounted
  <2> SUFFICES ASSUME Init PROVE Accounted
    OBVIOUS
  <2>1. NumSamples \in Nat
    BY Numbers DEF Init
  <2> QED
    BY <2>1 DEF Init, Accounted, WasTaken, Once, NoneLost, Alone, Summed, Samples
<1>2. VariablesOK /\ Started /\ Accounted /\ [Next]_vars => Accounted'
  BY WasTakenStep, OnceStep, NoneLostStep, AloneStep, SummedStep DEF Accounted
<1> QED
  BY <1>1, <1>2, TypesAlways, PTL DEF Spec

\* No sample is evaluated twice, none is lost by a run that does not fail, and a
\* summary rests on a row of every sample, whichever workers are killed, fail to
\* start or leave their results unwritten (glm_eval.py:674-728, 816-839, 953-991).
THEOREM EachSampleEvaluatedOnce == Spec => []EachSampleOnce
<1>1. VariablesOK /\ Started /\ Accounted => EachSampleOnce
  <2> SUFFICES ASSUME VariablesOK, Started, Accounted PROVE EachSampleOnce
    OBVIOUS
  <2>1. ASSUME NEW s \in Samples, NEW a \in Copies(s), NEW b \in Copies(s) PROVE a = b
    <3>1. s \in Nat /\ s # 0 /\ taken \in Nat
      BY Numbers, RunningCount DEF VariablesOK, Samples
    <3>2. CASE s > taken
      <4>1. /\ \A w \in Workers : job[w] # s /\ \A r \in buffer[w] : r.sample # s
            /\ \A r \in pipe \cup rows : r.sample # s
        BY <3>1, <3>2 DEF Accounted, WasTaken
      <4> QED
        BY <4>1 DEF Copies, Held, Buffered, Of
    <3>3. CASE ~(s > taken)
      <4>1. ASSUME NEW c \in Copies(s)
            PROVE  \/ \E w \in Workers : c = <<"held", w, s>> /\ job[w] = s
                   \/ \E w \in Workers : \E r \in buffer[w] :
                        c = <<"buffer", w, r>> /\ r.sample = s
                   \/ \E r \in pipe : c = <<"pipe", 0, r>> /\ r.sample = s
                   \/ \E r \in rows : c = <<"rows", 0, r>> /\ r.sample = s
        BY <3>3, <4>1 DEF Copies, Held, Buffered, Of
      <4>2. Once
        BY DEF Accounted
      <4> QED
        BY <3>1, <4>1, <4>2 DEF Once
    <3> QED
      BY <3>2, <3>3
  <2>2. ASSUME NEW s \in Samples, Copies(s) = {} PROVE GivenUp
    <3>1. ~(s > taken)
      BY <2>2 DEF Copies
    <3>2. ~Somewhere(s)
      <4>1. Held(s) = {} /\ Buffered(s) = {} /\ Of(pipe, s, "pipe") = {}
            /\ Of(rows, s, "rows") = {}
        BY <2>2 DEF Copies
      <4>2. \A w \in Workers : job[w] # s
        BY <4>1 DEF Held
      <4>3. \A w \in Workers : \A r \in buffer[w] : r.sample # s
        <5> SUFFICES ASSUME NEW w \in Workers, NEW r \in buffer[w], r.sample = s
                     PROVE  FALSE
          OBVIOUS
        <5>1. <<"buffer", w, r>> \in Buffered(s)
          BY DEF Buffered
        <5> QED
          BY <4>1, <5>1
      <4>4. \A r \in pipe \cup rows : r.sample # s
        BY <4>1 DEF Of
      <4> QED
        BY <4>2, <4>3, <4>4 DEF Somewhere
    <3>3. s <= taken
      BY <3>1, Numbers, RunningCount DEF VariablesOK, Samples
    <3> QED
      BY <3>2, <3>3 DEF Accounted, NoneLost, GivenUp
  <2> QED
    BY <2>1, <2>2 DEF EachSampleOnce, Accounted, Summed, AllRows, GivenUp
<1> QED
  BY <1>1, TypesAlways, AccountedAlways, PTL
=============================================================================
