----------------------------- MODULE Evaluation -----------------------------
(***************************************************************************)
(* A model evaluation run: run_evaluation, run_parallel and _worker_main   *)
(* of glm_eval.py.  One process evaluates the samples in order, or workers *)
(* take them from a queue and put their results into another, which the    *)
(* master empties.  What becomes of one sample is the subject of Episode:  *)
(* here evaluate returns a final_status or raises.                         *)
(*                                                                         *)
(* Both queues are multiprocessing.Queue.  All jobs are put before the     *)
(* first result is awaited, the samples and then one None per worker, so   *)
(* the queue is what is left of that list.  A get holds the reader lock of *)
(* the queue; a put leaves the item to a thread of its process, which      *)
(* writes it under the writer lock and is waited for when the process      *)
(* ends.  A killed process takes its items and its lock with it.           *)
(***************************************************************************)
EXTENDS Integers, Sequences, FiniteSets

CONSTANTS
  Requests,  \* the command lines to consider
  Statuses,  \* the values of final_status
  MaxFaults, \* bound: how often something goes wrong
  None

\* named: how many rows of accepted.jsonl --sample-id asks for, all without it;
\* missing: it asks for another; limit: --max-samples; smoke: the profile.
Request == [named : Nat, missing : BOOLEAN, limit : Int \cup {None}, smoke : BOOLEAN,
            gpus : Seq(Nat) \cup {None}, workers : Int, worldSize : Nat \ {0}]

ASSUME EvaluationAssumption ==
  /\ Requests \subseteq Request /\ MaxFaults \in Nat
  /\ "failed_infra" \in Statuses
  /\ None \notin Int \cup Seq(Nat) \cup {"complete", "blocked"}

VARIABLES
  run,      \* its arguments
  pc,       \* where the main process is
  ending,   \* where it goes when its workers are joined
  phase,    \* worker -> where it is
  taken,    \* how many jobs have been taken from the queue
  job,      \* worker -> the sample it evaluates, or 0
  buffer,   \* worker -> its results that are not written yet
  pipe,     \* the results written and not read
  rows,     \* results, and the lines of results.jsonl
  takeLock, sendLock, \* the worker with the lock of each queue, or 0
  summary,  \* status in summary.json, None without one
  faults

main == <<pc, ending, summary>>
queues == <<taken, buffer, pipe, takeLock, sendLock>>
vars == <<run, main, phase, job, queues, rows, faults>>

\* select_samples: selected[:limit], which drops from the end when it is negative.
NumSamples ==
  IF run.limit # None
    THEN IF run.limit > run.named THEN run.named
         ELSE IF run.limit >= 0 THEN run.limit
         ELSE IF run.named + run.limit > 0 THEN run.named + run.limit ELSE 0
    ELSE IF run.smoke /\ run.named > 0 THEN 1 ELSE run.named

Samples == 1 .. NumSamples
Workers == 1 .. 3    \* validate_eval_gpu_slots allows no more
Results == [sample : Samples, status : Statuses]

Fault == faults < MaxFaults /\ faults' = faults + 1

\* No more than samples; 0 is as if none were asked for.  (Without samples the
\* run has been refused.)
WorkerCount ==
  LET wanted == IF run.workers # 0 THEN run.workers ELSE IF run.smoke THEN 1 ELSE 3
  IN IF wanted > NumSamples THEN NumSamples ELSE wanted

Running == 1 .. WorkerCount

Init ==
  /\ run \in Requests
  /\ pc = "start" /\ ending = "failed" /\ summary = None
  /\ phase = [w \in Workers |-> "absent"] /\ job = [w \in Workers |-> 0]
  /\ taken = 0 /\ buffer = [w \in Workers |-> {}] /\ pipe = {} /\ rows = {}
  /\ takeLock = 0 /\ sendLock = 0 /\ faults = 0

-----------------------------------------------------------------------------
\* parse_gpu_slots cuts the list into slots of worldSize devices.
Gpus == IF run.gpus # None THEN run.gpus ELSE IF run.smoke THEN <<0>> ELSE <<0, 1, 2>>
Slot(w) == {Gpus[i] : i \in (w - 1) * run.worldSize + 1 .. w * run.worldSize}
Used == 1 .. WorkerCount * run.worldSize
Allowed == IF run.worldSize > 1 THEN 0 .. run.worldSize - 1 ELSE 0 .. 2

Selected == ~run.missing /\ NumSamples > 0

\* Deliberately wrong: a device may be in two slots.
MutValid ==
  /\ Selected
  /\ run.worldSize > 1 => WorkerCount = 1
  /\ WorkerCount \in 1 .. 3 /\ WorkerCount * run.worldSize <= Len(Gpus)
  /\ \A i \in Used : Gpus[i] \in Allowed

\* The checks of run_evaluation, parse_gpu_slots and validate_eval_gpu_slots.
Valid ==
  /\ Selected
  /\ run.worldSize > 1 => WorkerCount = 1
  /\ WorkerCount \in 1 .. 3 /\ WorkerCount * run.worldSize <= Len(Gpus)
  /\ \A i \in Used : Gpus[i] \in Allowed
  /\ \A i, j \in Used : i # j => Gpus[i] # Gpus[j]

startFrame == <<run, job, queues, rows, ending, summary>>

StartSequence ==
  /\ pc = "start" /\ Valid /\ WorkerCount = 1
  /\ pc' = "sequence"
  /\ UNCHANGED <<startFrame, phase, faults>>

StartWorkers ==
  /\ pc = "start" /\ Valid /\ WorkerCount > 1
  /\ pc' = "collect"
  /\ phase' = [w \in Workers |-> IF w \in Running THEN "starting" ELSE "absent"]
  /\ UNCHANGED <<startFrame, faults>>

\* A ConfigError.
Refuse ==
  /\ pc = "start" /\ pc' = "failed"
  /\ ~Valid
  /\ UNCHANGED <<startFrame, phase, faults>>

\* accepted.jsonl is not there, one of its rows lacks a field or its source
\* task, or the image cannot be built.
LoadFails ==
  /\ pc = "start" /\ pc' = "failed" /\ Fault
  /\ UNCHANGED <<startFrame, phase>>

-----------------------------------------------------------------------------
\* The loop of one worker, in the main process.
sequenceFrame == <<run, ending, summary, phase, job, buffer, pipe,
                   takeLock, sendLock>>

EvaluateNext(status) ==
  /\ pc = "sequence" /\ taken < NumSamples
  /\ taken' = taken + 1
  /\ rows' = rows \cup {[sample |-> taken + 1, status |-> status]}
  /\ UNCHANGED <<pc, sequenceFrame, faults>>

SequenceDone ==
  /\ pc = "sequence" /\ taken = NumSamples
  /\ pc' = "summary"
  /\ UNCHANGED <<sequenceFrame, taken, rows, faults>>

\* The engine, evaluate or the row raises, or the run is interrupted: nothing
\* catches it here.
SequenceRaises ==
  /\ pc = "sequence" /\ Fault
  /\ pc' = "failed"
  /\ UNCHANGED <<sequenceFrame, taken, rows>>

-----------------------------------------------------------------------------
\* The main process of run_parallel.
Alive(w) == phase[w] \in {"starting", "idle", "taking", "busy", "leaving"}

mainFrame == <<run, job, taken, buffer, takeLock, sendLock>>

LeaveLoop(to) == pc' = "join" /\ ending' = to /\ UNCHANGED summary

Collect(r) ==
  /\ pc = "collect" /\ Cardinality(rows) < NumSamples /\ r \in pipe
  /\ pipe' = pipe \ {r} /\ rows' = rows \cup {r}
  /\ UNCHANGED <<main, mainFrame, phase, faults>>

\* The row cannot be appended: the result is gone.
CollectFails(r) ==
  /\ pc = "collect" /\ Cardinality(rows) < NumSamples /\ r \in pipe /\ Fault
  /\ pipe' = pipe \ {r} /\ LeaveLoop("failed")
  /\ UNCHANGED <<mainFrame, phase, rows>>

MutCollected ==   \* deliberately wrong: the last one is not waited for
  /\ pc = "collect" /\ Cardinality(rows) + 1 >= NumSamples
  /\ LeaveLoop("summary")
  /\ UNCHANGED <<mainFrame, phase, pipe, rows, faults>>

Collected ==
  /\ pc = "collect" /\ Cardinality(rows) = NumSamples
  /\ LeaveLoop("summary")
  /\ UNCHANGED <<mainFrame, phase, pipe, rows, faults>>

\* Nothing arrives in five seconds.
Empty ==
  /\ pc = "collect" /\ Cardinality(rows) < NumSamples /\ pipe = {}
  /\ pc' = "check"
  /\ UNCHANGED <<ending, summary, mainFrame, phase, pipe, rows, faults>>

\* Deliberately wrong: the workers are not looked at.
MutCheckAlive ==
  /\ pc = "check" /\ pc' = "collect" /\ UNCHANGED <<ending, summary>>
  /\ UNCHANGED <<mainFrame, phase, pipe, rows, faults>>

\* "All evaluation workers exited before reporting all samples."
CheckAlive ==
  /\ pc = "check"
  /\ IF \E w \in Workers : Alive(w)
       THEN pc' = "collect" /\ UNCHANGED <<ending, summary>>
       ELSE LeaveLoop("failed")
  /\ UNCHANGED <<mainFrame, phase, pipe, rows, faults>>

Interrupt ==
  /\ pc \in {"collect", "check"} /\ Fault
  /\ LeaveLoop("failed")
  /\ UNCHANGED <<mainFrame, phase, pipe, rows>>

\* The finally block: a worker is joined for 30 seconds, one after the other,
\* and then terminated.
Terminate(w) ==
  /\ pc = "join" /\ Alive(w) /\ \A v \in 1 .. w - 1 : ~Alive(v)
  /\ phase' = [phase EXCEPT ![w] = "killed"]
  /\ UNCHANGED <<main, mainFrame, pipe, rows, faults>>

Joined ==
  /\ pc = "join" /\ \A w \in Workers : ~Alive(w)
  /\ pc' = ending
  /\ UNCHANGED <<ending, summary, mainFrame, phase, pipe, rows, faults>>

Summarize ==
  /\ pc = "summary" /\ pc' = "done"
  /\ summary' = IF \A r \in rows : r.status = "failed_infra" THEN "blocked" ELSE "complete"
  /\ UNCHANGED <<ending, mainFrame, phase, pipe, rows, faults>>

-----------------------------------------------------------------------------
\* A worker.
Turns(w, from, to) == phase[w] = from /\ phase' = [phase EXCEPT ![w] = to]
workerFrame == <<run, main, rows>>

Boot(w) ==
  /\ Turns(w, "starting", "idle")
  /\ UNCHANGED <<workerFrame, job, queues, faults>>

\* The constructor of the engine wrapper or of the evaluator raises: these
\* calls are not inside the try block (the model itself loads inside it).
BootFails(w) ==
  /\ Turns(w, "starting", "exited") /\ Fault
  /\ UNCHANGED <<workerFrame, job, queues>>

GetJob(w) ==
  /\ Turns(w, "idle", "taking") /\ takeLock = 0
  /\ takeLock' = w
  /\ UNCHANGED <<workerFrame, job, taken, buffer, pipe, sendLock, faults>>

MutTakeJob(w) ==   \* deliberately wrong: the job stays in the queue
  /\ phase[w] = "taking" /\ takeLock' = 0
  /\ IF taken < NumSamples
       THEN /\ phase' = [phase EXCEPT ![w] = "busy"]
            /\ job' = [job EXCEPT ![w] = taken + 1]
            /\ taken' \in {taken, taken + 1}
       ELSE /\ phase' = [phase EXCEPT ![w] = "leaving"]
            /\ taken' = taken + 1 /\ UNCHANGED job
  /\ UNCHANGED <<workerFrame, buffer, pipe, sendLock, faults>>

\* What follows the samples is None: the worker returns.
TakeJob(w) ==
  /\ phase[w] = "taking" /\ taken < NumSamples + WorkerCount
  /\ takeLock' = 0 /\ taken' = taken + 1
  /\ IF taken < NumSamples
       THEN /\ phase' = [phase EXCEPT ![w] = "busy"]
            /\ job' = [job EXCEPT ![w] = taken + 1]
       ELSE phase' = [phase EXCEPT ![w] = "leaving"] /\ UNCHANGED job
  /\ UNCHANGED <<workerFrame, buffer, pipe, sendLock, faults>>

\* evaluate returns, or raises and is reported as a worker error.
Report(w, status) ==
  /\ Turns(w, "busy", "idle")
  /\ buffer' = [buffer EXCEPT ![w] = @ \cup {[sample |-> job[w], status |-> status]}]
  /\ job' = [job EXCEPT ![w] = 0]
  /\ UNCHANGED <<workerFrame, taken, pipe, takeLock, sendLock, faults>>

\* The artifact of the worker error cannot be written.
ReportFails(w) ==
  /\ Turns(w, "busy", "leaving") /\ Fault
  /\ UNCHANGED <<workerFrame, job, queues>>

Send(w) ==
  /\ Alive(w) /\ buffer[w] # {} /\ sendLock = 0
  /\ sendLock' = w
  /\ UNCHANGED <<workerFrame, phase, job, taken, buffer, pipe, takeLock, faults>>

Sent(w, r) ==
  /\ Alive(w) /\ sendLock = w /\ r \in buffer[w]
  /\ sendLock' = 0 /\ pipe' = pipe \cup {r}
  /\ buffer' = [buffer EXCEPT ![w] = @ \ {r}]
  /\ UNCHANGED <<workerFrame, phase, job, taken, takeLock, faults>>

\* A process that ends waits for its writing thread.
MutLeave(w) ==   \* deliberately wrong: it does not
  /\ Turns(w, "leaving", "exited")
  /\ buffer' = [buffer EXCEPT ![w] = {}]
  /\ UNCHANGED <<workerFrame, job, taken, pipe, takeLock, sendLock, faults>>

Leave(w) ==
  /\ Turns(w, "leaving", "exited") /\ buffer[w] = {}
  /\ UNCHANGED <<workerFrame, job, queues, faults>>

\* Out of memory, a CUDA fault, a kill: whatever lock it holds stays locked.
Die(w) ==
  /\ Alive(w) /\ Fault
  /\ phase' = [phase EXCEPT ![w] = "killed"]
  /\ UNCHANGED <<workerFrame, job, queues>>

-----------------------------------------------------------------------------
MainStep ==
  \/ StartSequence \/ StartWorkers \/ Refuse
  \/ \E status \in Statuses : EvaluateNext(status)
  \/ SequenceDone \/ \E r \in pipe : Collect(r)
  \/ Collected \/ Empty \/ CheckAlive
  \/ \E w \in Workers : Terminate(w)
  \/ Joined \/ Summarize

MainFails == LoadFails \/ SequenceRaises \/ Interrupt \/ \E r \in pipe : CollectFails(r)

\* The thread of the evaluations, and the thread that writes.
Work(w) ==
  \/ Boot(w) \/ GetJob(w) \/ TakeJob(w) \/ Leave(w)
  \/ \E status \in Statuses : Report(w, status)

Write(w) == Send(w) \/ \E r \in buffer[w] : Sent(w, r)

WorkerFails(w) == BootFails(w) \/ ReportFails(w) \/ Die(w)

Next ==
  \/ MainStep \/ MainFails
  \/ \E w \in Workers : Work(w) \/ Write(w) \/ WorkerFails(w)

Spec == Init /\ [][Next]_vars

\* Every process is scheduled, and an evaluation ends (EpisodeEnds).  The locks
\* need not be fair: the jobs are finitely many.
FairSpec ==
  /\ Spec /\ WF_vars(MainStep)
  /\ \A w \in Workers : WF_vars(Work(w)) /\ WF_vars(Write(w))

-----------------------------------------------------------------------------
\* Every variable keeps its type; in particular workers that run have GPUs of
\* their own (glm_eval.py:637-654).
GpusApart ==
  \A v, w \in Workers : v # w /\ Alive(v) /\ Alive(w) => Slot(v) \cap Slot(w) = {}

EvaluationTypeOK ==
  /\ run \in Requests
  /\ pc \in {"start", "sequence", "collect", "check", "join", "summary", "done", "failed"}
  /\ ending \in {"summary", "failed"} /\ summary \in {"complete", "blocked", None}
  /\ phase \in [Workers -> {"absent", "starting", "idle", "taking", "busy", "leaving",
                            "exited", "killed"}]
  /\ taken \in 0 .. NumSamples + Cardinality(Running)
  /\ job \in [Workers -> Samples \cup {0}]
  /\ buffer \in [Workers -> SUBSET Results] /\ pipe \subseteq Results
  /\ rows \subseteq Results
  /\ takeLock \in Workers \cup {0} /\ sendLock \in Workers \cup {0}
  /\ faults \in 0 .. MaxFaults
  /\ GpusApart

\* Where a sample is: with a worker, in one of the places of its result, in
\* results.jsonl, or still in the queue.
Held(s) == {<<"held", w, s>> : w \in {v \in Workers : job[v] = s}}
Buffered(s) ==
  UNION {{<<"buffer", w, r>> : r \in {q \in buffer[w] : q.sample = s}} : w \in Workers}
Of(results, s, name) == {<<name, 0, r>> : r \in {q \in results : q.sample = s}}
Copies(s) ==
  Held(s) \cup Buffered(s) \cup Of(pipe, s, "pipe") \cup Of(rows, s, "rows")
    \cup {q \in {<<"queue", 0, s>>} : s > taken}

\* No sample is evaluated twice, and none disappears unless the run fails:
\* each has one row or its job is in one place, whichever worker took it, died
\* with it or has its result still unwritten.  A run that writes a summary has
\* a row for every sample, and is "blocked" only if it got nothing but
\* infrastructure failures (glm_eval.py:674-728, 816-839, 953-991).
EachSampleOnce ==
  /\ \A s \in Samples : \A a, b \in Copies(s) : a = b
  /\ \A s \in Samples : Copies(s) = {} => ending = "failed" /\ pc \in {"join", "failed"}
  /\ summary # None =>
       /\ \A s \in Samples : \E r \in rows : r.sample = s
       /\ summary = "blocked" <=> \A r \in rows : r.status = "failed_infra"

\* The main process ends unless a worker was killed with the lock of a queue,
\* whoever else fails to start, is killed or raises: the others take its
\* samples, and their end is noticed (glm_eval.py:820-824).
Orphaned == \E w \in Workers : phase[w] = "killed" /\ w \in {takeLock, sendLock}

EvaluationEnds == <>(pc \in {"done", "failed"} \/ Orphaned)
=============================================================================
