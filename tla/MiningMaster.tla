---------------------------- MODULE MiningMaster ----------------------------
(***************************************************************************)
(* The master-worker controller of multi.py: MultiSampleMaster.run and     *)
(* its helpers, the worker processes of _worker_main, and the part of      *)
(* storage.py they share (the attempts table of MiningIndex and the        *)
(* dataset files DatasetMaterializer derives from it).                     *)
(*                                                                         *)
(* One master process at a time.  It may crash and be started again; each  *)
(* start is a new run, mining the same samples against the same index.     *)
(* Within a run a sample is yielded at most once by the seeded iterator,   *)
(* so <<run, sample>> stands for the attempt and its fresh attempt id.     *)
(*                                                                         *)
(* Left out: the workers of a crashed master.  They are not daemons and    *)
(* outlive it, but they write to queues nobody reads, never to the index.  *)
(***************************************************************************)
EXTENDS Integers, FiniteSets

CONSTANTS
  Samples,         \* what the dataset adapter can yield
  NumWorkers,      \* profile["num_workers"]
  TargetAccepted,  \* profile["target_accepted"]
  MaxAttempts,     \* profile["max_attempts"]
  RerunInfra,      \* the rerun_failed_infra argument of run
  MaxRuns,         \* bound: starts of the master
  MaxFaults,       \* bound: worker deaths, master crashes, raised exceptions
  MaxSignals,      \* bound: SIGINT / SIGTERM deliveries in a run
  StopModes,       \* what an operator may write into the stop file
  None, Poison, Torn

ASSUME ConstantsAssumption ==
  /\ NumWorkers \in Nat \ {0}
  /\ TargetAccepted \in Nat /\ MaxAttempts \in Nat
  /\ MaxRuns \in Nat /\ MaxFaults \in Nat /\ MaxSignals \in Nat
  /\ RerunInfra \in BOOLEAN /\ StopModes \subseteq {"graceful", "hard"}
  /\ None \notin Samples /\ Poison \notin Samples /\ None # Poison

Workers == 1 .. NumWorkers
Status == {"accepted", "rejected", "failed_infra", "uncertain"}

\* The statuses that make the iterator pass over a sample.
SkipStatuses ==
  {"accepted", "rejected"} \cup (IF RerunInfra THEN {} ELSE {"failed_infra"})

Row == [run : Nat, sample : Samples, status : Status]
Result == [w : Workers, sample : Samples, status : Status]

VARIABLES
  pc,         \* where the master is
  run,        \* how many times the master was started
  todo,       \* samples the iterator has not yielded yet
  running,    \* worker -> the sample it was given, None when idle
  assigned, finished, accepted,   \* the counters of the loop
  stop, hard, \* stop_requested, hard_stop_requested
  cur,        \* the result taken from the queue and not yet recorded
  next,       \* the next job queue to poison on the way out
  raised,     \* an exception left the loop
  jobQueue,   \* worker -> what its queue of size 1 holds
  results,    \* the result queue, put by several processes: unordered
  phase,      \* worker -> the state of its process
  job,        \* worker -> the sample its process is mining
  killed,     \* workers sent SIGTERM
  stopFile,   \* what <run_id>.stop says, "none" when absent
  signals,    \* signals delivered in this run
  rows,       \* the attempts table
  view,       \* the rows the dataset files were written from, or Torn
  files,      \* samples whose attempt directory of this run has artefacts
  cancelled,  \* samples whose attempt has attempt_cancel_summary.json
  faults

control  == <<run, todo, assigned, raised, stopFile, signals>>
loopVars == <<finished, accepted, cur>>
flags    == <<stop, hard>>
workVars == <<phase, job, results>>
disk     == <<rows, view, files, cancelled>>
vars == <<pc, control, loopVars, flags, running, next, jobQueue, workVars,
          killed, disk, faults>>

Idle == {w \in Workers : running[w] = None}
Alive == {w \in Workers : phase[w] \in {"starting", "ready", "busy"}}
InFlight == {running[w] : w \in Workers} \ {None}

HasPriorStatus(s) == \E r \in rows : r.sample = s /\ r.status \in SkipStatuses

Init ==
  /\ pc = "off" /\ run = 0 /\ todo = {} /\ next = 1 /\ raised = FALSE
  /\ running = [w \in Workers |-> None]
  /\ assigned = 0 /\ finished = 0 /\ accepted = 0 /\ cur = None
  /\ stop = FALSE /\ hard = FALSE /\ stopFile = "none" /\ signals = 0
  /\ jobQueue = [w \in Workers |-> None] /\ results = {}
  /\ phase = [w \in Workers |-> "exited"]
  /\ job = [w \in Workers |-> None] /\ killed = {}
  /\ rows = {} /\ view = {} /\ files = {} /\ cancelled = {} /\ faults = 0

-----------------------------------------------------------------------------
(* The master.                                                             *)

\* A run starts: fresh counters, queues and processes.  The previous process
\* must be gone, and it joins its own children before it exits.  The operator
\* may reuse the run id, and then the old stop file is still there.
StartRun ==
  /\ pc \in {"off", "crashed"} \/ (pc = "ended" /\ Alive = {})
  /\ run < MaxRuns
  /\ pc' = "loop" /\ run' = run + 1 /\ todo' = Samples /\ next' = 1
  /\ running' = [w \in Workers |-> None]
  /\ assigned' = 0 /\ finished' = 0 /\ accepted' = 0 /\ cur' = None
  /\ stop' = FALSE /\ hard' = FALSE /\ signals' = 0 /\ raised' = FALSE
  /\ stopFile' \in {"none", stopFile}
  /\ jobQueue' = [w \in Workers |-> None] /\ results' = {}
  /\ phase' = [w \in Workers |-> "starting"]
  /\ job' = [w \in Workers |-> None] /\ killed' = {}
  /\ files' = {} /\ cancelled' = {}
  /\ UNCHANGED <<rows, view, faults>>

KeepsMining == finished < MaxAttempts /\ accepted < TargetAccepted

\* Deliberately wrong: the files are not written when the loop is left.
MutLoopEnds ==
  /\ pc = "loop" /\ ~KeepsMining
  /\ pc' = "shutdown"
  /\ UNCHANGED <<control, loopVars, flags, running, next, jobQueue, workVars,
                 killed, disk, faults>>

LoopEnds ==
  /\ pc = "loop" /\ ~KeepsMining
  /\ pc' = "final"
  /\ UNCHANGED <<control, loopVars, flags, running, next, jobQueue, workVars,
                 killed, disk, faults>>

\* The head of the loop: the stop file, when there is one, decides both flags.
ReadStopFile ==
  /\ pc = "loop" /\ KeepsMining
  /\ stop' = (stop \/ stopFile # "none")
  /\ hard' = IF stopFile # "none" THEN stopFile = "hard" ELSE hard
  /\ pc' = IF hard' THEN "hardstop" ELSE "assign"
  /\ UNCHANGED <<control, loopVars, running, next, jobQueue, workVars,
                 killed, disk, faults>>

\* _hard_stop: SIGTERM to every live worker, without waiting for them ...
HardStopTerminate ==
  /\ pc = "hardstop"
  /\ killed' = killed \cup Alive
  /\ pc' = "cleanup"
  /\ UNCHANGED <<control, loopVars, flags, running, next, jobQueue, workVars,
                 disk, faults>>

\* Deliberately wrong: the cleanup takes every attempt of the run.
MutHardStopCleanup ==
  /\ pc = "cleanup"
  /\ files' = {}
  /\ cancelled' = cancelled \cup InFlight
  /\ pc' = "final"
  /\ UNCHANGED <<control, loopVars, flags, running, next, jobQueue, workVars,
                 killed, rows, view, faults>>

\* ... then the partial artefacts of the running attempts are removed and a
\* cancel summary takes their place.
HardStopCleanup ==
  /\ pc = "cleanup"
  /\ files' = files \ InFlight
  /\ cancelled' = cancelled \cup InFlight
  /\ pc' = "final"
  /\ UNCHANGED <<control, loopVars, flags, running, next, jobQueue, workVars,
                 killed, rows, view, faults>>

\* Deliberately wrong: one attempt too many.
MutMayAssign == Idle # {} /\ ~stop /\ assigned <= MaxAttempts

MayAssign == Idle # {} /\ ~stop /\ assigned < MaxAttempts

\* The samples _next_job may return: the iterator's order is a seeded shuffle.
MutYieldable == todo   \* deliberately wrong: the index is not asked

Yieldable == {s \in todo : ~HasPriorStatus(s)}

\* job_queues[w].put blocks while the queue is full.
Assign(w, s) ==
  /\ pc = "assign" /\ MayAssign
  /\ w \in Idle /\ s \in Yieldable
  /\ jobQueue[w] = None
  /\ todo' = todo \ {s}
  /\ running' = [running EXCEPT ![w] = s]
  /\ jobQueue' = [jobQueue EXCEPT ![w] = s]
  /\ assigned' = assigned + 1
  /\ UNCHANGED <<pc, run, raised, stopFile, signals, loopVars, flags, next,
                 workVars, killed, disk, faults>>

\* Deliberately wrong: an exhausted iterator does not end the run.
MutNothingToAssign ==
  /\ pc = "assign" /\ MayAssign /\ Yieldable = {}
  /\ pc' = "loop"
  /\ UNCHANGED <<control, loopVars, flags, running, next, jobQueue, workVars,
                 killed, disk, faults>>

NothingToAssign ==
  /\ pc = "assign" /\ MayAssign /\ Yieldable = {}
  /\ stop' = TRUE
  /\ pc' = "wait"
  /\ UNCHANGED <<control, loopVars, hard, running, next, jobQueue, workVars,
                 killed, disk, faults>>

AssignEnds ==
  /\ pc = "assign" /\ ~MayAssign
  /\ pc' = "wait"
  /\ UNCHANGED <<control, loopVars, flags, running, next, jobQueue, workVars,
                 killed, disk, faults>>

\* Deliberately wrong: a stop request is enough to leave.
MutNothingRuns ==
  /\ pc = "wait" /\ (InFlight = {} \/ stop)
  /\ pc' = "final"
  /\ UNCHANGED <<control, loopVars, flags, running, next, jobQueue, workVars,
                 killed, disk, faults>>

NothingRuns ==
  /\ pc = "wait" /\ InFlight = {}
  /\ pc' = "final"
  /\ UNCHANGED <<control, loopVars, flags, running, next, jobQueue, workVars,
                 killed, disk, faults>>

TakeResult(r) ==
  /\ pc = "wait" /\ InFlight # {}
  /\ r \in results
  /\ results' = results \ {r}
  /\ running' = [running EXCEPT ![r.w] = None]
  /\ finished' = finished + 1
  /\ cur' = r
  /\ pc' = "record"
  /\ UNCHANGED <<control, accepted, flags, next, jobQueue, phase, job, killed,
                 disk, faults>>

\* Deliberately wrong: a timeout frees the workers it waited for.
MutTakeTimesOut ==
  /\ pc = "wait" /\ InFlight # {} /\ results = {}
  /\ running' = [w \in Workers |-> None]
  /\ pc' = "loop"
  /\ UNCHANGED <<control, loopVars, flags, next, jobQueue, workVars, killed,
                 disk, faults>>

\* result_queue.get(timeout=1.0) raises queue.Empty.
TakeTimesOut ==
  /\ pc = "wait" /\ InFlight # {} /\ results = {}
  /\ pc' = "loop"
  /\ UNCHANGED <<control, loopVars, flags, running, next, jobQueue, workVars,
                 killed, disk, faults>>

\* Deliberately wrong: an accepted row waits for the end of the run, and an
\* uncertain one counts as accepted.
MutRecordAttempt ==
  /\ pc = "record"
  /\ rows' = rows \cup {[run |-> run, sample |-> cur.sample, status |-> cur.status]}
  /\ accepted' = IF cur.status \in {"accepted", "uncertain"} THEN accepted + 1
                                                           ELSE accepted
  /\ cur' = None
  /\ pc' = "loop"
  /\ UNCHANGED <<control, finished, flags, running, next, jobQueue, workVars,
                 killed, view, files, cancelled, faults>>

\* record_attempt inserts the row; an accepted one is materialized next.
RecordAttempt ==
  /\ pc = "record"
  /\ rows' = rows \cup {[run |-> run, sample |-> cur.sample, status |-> cur.status]}
  /\ IF cur.status = "accepted"
       THEN accepted' = accepted + 1 /\ pc' = "materialize"
       ELSE accepted' = accepted /\ pc' = "loop"
  /\ cur' = None
  /\ UNCHANGED <<control, finished, flags, running, next, jobQueue, workVars,
                 killed, view, files, cancelled, faults>>

\* materialize_dataset rewrites every dataset file from the table.
Materialize ==
  /\ pc \in {"materialize", "final"}
  /\ view' = rows
  /\ pc' = IF pc = "final" THEN "shutdown" ELSE "loop"
  /\ UNCHANGED <<control, loopVars, flags, running, next, jobQueue, workVars,
                 killed, rows, files, cancelled, faults>>

\* An sqlite or file error leaves the loop by the finally clause.  A write
\* that stops part way leaves the dataset files torn.
Raise ==
  /\ pc \in {"record", "materialize", "final"} /\ faults < MaxFaults
  /\ view' = IF pc = "record" THEN view ELSE Torn
  /\ raised' = TRUE
  /\ cur' = None
  /\ pc' = "shutdown"
  /\ faults' = faults + 1
  /\ UNCHANGED <<run, todo, assigned, finished, accepted, stopFile, signals,
                 flags, running, next, jobQueue, workVars, killed, rows, files,
                 cancelled>>

\* finally: None to each worker's queue in turn, waiting while one is full.
PoisonQueue ==
  /\ pc = "shutdown" /\ next <= NumWorkers
  /\ jobQueue[next] = None
  /\ jobQueue' = [jobQueue EXCEPT ![next] = Poison]
  /\ next' = next + 1
  /\ UNCHANGED <<pc, control, loopVars, flags, running, workVars, killed, disk,
                 faults>>

\* join(30), then terminate() and join(10) for those still alive: run returns.
JoinWorkers ==
  /\ pc = "shutdown" /\ next > NumWorkers
  /\ killed' = killed \cup Alive
  /\ pc' = "ended"
  /\ UNCHANGED <<control, loopVars, flags, running, next, jobQueue, workVars,
                 disk, faults>>

CrashMaster ==
  /\ pc \notin {"off", "ended", "crashed"} /\ faults < MaxFaults
  /\ view' = IF pc \in {"materialize", "final"} THEN Torn ELSE view
  /\ pc' = "crashed"
  /\ cur' = None
  /\ faults' = faults + 1
  /\ UNCHANGED <<control, finished, accepted, flags, running, next, jobQueue,
                 workVars, killed, rows, files, cancelled>>

-----------------------------------------------------------------------------
(* The worker processes.                                                   *)

workerFrame == <<pc, control, loopVars, flags, running, next, killed, rows,
                 view, cancelled>>

\* SingleSampleRunner and LocalVLLMEngine are constructed.
WorkerReady(w) ==
  /\ phase[w] = "starting"
  /\ phase' = [phase EXCEPT ![w] = "ready"]
  /\ UNCHANGED <<workerFrame, jobQueue, job, results, files, faults>>

TakeJob(w) ==
  /\ phase[w] = "ready" /\ jobQueue[w] \in Samples
  /\ job' = [job EXCEPT ![w] = jobQueue[w]]
  /\ jobQueue' = [jobQueue EXCEPT ![w] = None]
  /\ phase' = [phase EXCEPT ![w] = "busy"]
  /\ UNCHANGED <<workerFrame, results, files, faults>>

TakePoison(w) ==
  /\ phase[w] = "ready" /\ jobQueue[w] = Poison
  /\ jobQueue' = [jobQueue EXCEPT ![w] = None]
  /\ phase' = [phase EXCEPT ![w] = "exited"]
  /\ UNCHANGED <<workerFrame, job, results, files, faults>>

\* run_task writes trajectories, snapshots and serving logs as it goes.
WriteArtifacts(w) ==
  /\ phase[w] = "busy" /\ job[w] \notin files
  /\ files' = files \cup {job[w]}
  /\ UNCHANGED <<workerFrame, jobQueue, phase, job, results, faults>>

\* run_task returned a summary, or raised and was turned into failed_infra.
Report(w, st) ==
  /\ phase[w] = "busy"
  /\ st = "failed_infra" \/ job[w] \in files
  /\ results' = results \cup {[w |-> w, sample |-> job[w], status |-> st]}
  /\ job' = [job EXCEPT ![w] = None]
  /\ phase' = [phase EXCEPT ![w] = "ready"]
  /\ UNCHANGED <<workerFrame, jobQueue, files, faults>>

Die(w, how) ==
  /\ phase' = [phase EXCEPT ![w] = how]
  /\ job' = [job EXCEPT ![w] = None]
  /\ UNCHANGED <<workerFrame, jobQueue, results, files>>

\* SingleSampleRunner or LocalVLLMEngine raises in its constructor, outside
\* the try of the loop: the process exits and puts nothing.
WorkerInitFails(w) ==
  /\ phase[w] = "starting" /\ faults < MaxFaults
  /\ faults' = faults + 1
  /\ Die(w, "failed")

\* The process is killed, by the kernel or by a crash of its engine.
WorkerDies(w) ==
  /\ w \in Alive /\ faults < MaxFaults
  /\ faults' = faults + 1
  /\ Die(w, "dead")

\* SIGTERM reaches a worker some time after terminate() was called, or is
\* swallowed: a forked worker inherits the handler that only sets the master's
\* flags, one started by a fork server does not.
WorkerTerminated(w) ==
  /\ w \in Alive \cap killed
  /\ Die(w, "dead") /\ UNCHANGED faults

-----------------------------------------------------------------------------
(* The operator.                                                           *)

\* The handler of SIGINT and SIGTERM: the second signal asks for a hard stop.
Signal ==
  /\ pc \notin {"off", "ended", "crashed"} /\ signals < MaxSignals
  /\ signals' = signals + 1
  /\ hard' = (hard \/ stop)
  /\ stop' = TRUE
  /\ UNCHANGED <<pc, run, todo, assigned, raised, stopFile, loopVars, running,
                 next, jobQueue, workVars, killed, disk, faults>>

\* create_stop_file, or a file the operator wrote by hand.
WriteStopFile(mode) ==
  /\ pc \notin {"off", "ended", "crashed"} /\ stopFile # mode
  /\ stopFile' = mode
  /\ UNCHANGED <<pc, run, todo, assigned, raised, signals, loopVars, flags,
                 running, next, jobQueue, workVars, killed, disk, faults>>

-----------------------------------------------------------------------------
MasterStep ==
  \/ LoopEnds \/ ReadStopFile \/ HardStopTerminate \/ HardStopCleanup
  \/ \E w \in Workers, s \in Samples : Assign(w, s)
  \/ NothingToAssign \/ AssignEnds \/ NothingRuns
  \/ \E r \in results : TakeResult(r)
  \/ TakeTimesOut \/ RecordAttempt \/ Materialize
  \/ PoisonQueue \/ JoinWorkers

WorkerStep(w) ==
  \/ WorkerReady(w) \/ TakeJob(w) \/ TakePoison(w) \/ WriteArtifacts(w)
  \/ \E st \in Status : Report(w, st)

FaultStep ==
  \/ Raise \/ CrashMaster
  \/ \E w \in Workers :
       WorkerInitFails(w) \/ WorkerDies(w) \/ WorkerTerminated(w)

OperatorStep == Signal \/ \E mode \in StopModes : WriteStopFile(mode)

Next ==
  \/ StartRun \/ MasterStep \/ (\E w \in Workers : WorkerStep(w))
  \/ FaultStep \/ OperatorStep

Spec == Init /\ [][Next]_vars

\* The operating system keeps scheduling the master and every live worker, and
\* a worker's attempt ends: its turns, tool calls and verifications are bounded.
FairSpec ==
  /\ Spec
  /\ WF_vars(MasterStep)
  /\ \A w \in Workers : WF_vars(WorkerStep(w))

-----------------------------------------------------------------------------
(* What the run promises.                                                  *)

Pcs == {"off", "loop", "hardstop", "cleanup", "assign", "wait", "record",
        "materialize", "final", "shutdown", "ended", "crashed"}

MasterTypeOK ==
  /\ pc \in Pcs /\ run \in 0 .. MaxRuns /\ todo \subseteq Samples
  /\ running \in [Workers -> Samples \cup {None}]
  /\ assigned \in 0 .. MaxAttempts
  /\ finished \in Nat /\ accepted \in Nat
  /\ stop \in BOOLEAN /\ hard \in BOOLEAN /\ raised \in BOOLEAN
  /\ IF pc = "record" THEN cur \in Result ELSE cur = None
  /\ next \in 1 .. NumWorkers + 1

WorkerTypeOK ==
  /\ jobQueue \in [Workers -> Samples \cup {None, Poison}]
  /\ results \subseteq Result
  /\ phase \in [Workers -> {"starting", "ready", "busy", "exited", "dead", "failed"}]
  /\ job \in [Workers -> Samples \cup {None}]
  /\ killed \subseteq Workers

DiskTypeOK ==
  /\ stopFile \in {"none", "graceful", "hard"} /\ signals \in 0 .. MaxSignals
  /\ rows \subseteq Row /\ (view = Torn \/ view \subseteq Row)
  /\ files \subseteq Samples /\ cancelled \subseteq Samples
  /\ faults \in 0 .. MaxFaults

\* Every variable keeps its type; assigned stays within max_attempts.
TypeOK == MasterTypeOK /\ WorkerTypeOK /\ DiskTypeOK

RunRows == {r \in rows : r.run = run}
Accepted(R) == {r \in R : r.status = "accepted"}

\* The counters the run returns tell the truth about the attempts table: every
\* attempt is in flight or finished, every finished one has its row unless an
\* exception or a crash came first, accepted counts the accepted rows, and
\* neither bound of the profile is overrun (multi.py:216-270).
CountersMatchIndex ==
  /\ assigned = finished + Cardinality({w \in Workers : running[w] # None})
  /\ pc \in {"loop", "assign", "wait"} => finished = Cardinality(RunRows)
  /\ pc # "crashed" => accepted = Cardinality(Accepted(RunRows))
  /\ finished <= MaxAttempts /\ accepted <= TargetAccepted

\* Where the attempt of worker w can be: its queue, its process, the results.
ResultsOf(w) == {r \in results : r.w = w}
Places(w) ==
  ({jobQueue[w]} \cap Samples) \cup ({job[w]} \cap Samples)
    \cup {r.sample : r \in ResultsOf(w)}

\* What the master believes a worker holds is what it holds, in exactly one
\* place; a dead worker holds nothing else (multi.py:207-250, 99-133).
AttemptInOnePlace ==
  \A w \in Workers :
    /\ IF phase[w] \in {"dead", "failed"}
         THEN Places(w) \subseteq {running[w]}
         ELSE Places(w) = {running[w]} \ {None}
    /\ jobQueue[w] \in Samples => job[w] = None /\ ResultsOf(w) = {}
    /\ job[w] # None => ResultsOf(w) = {}
    /\ \A v \in Workers : running[v] = running[w] => v = w \/ running[w] = None

\* The single-slot queue of an idle worker is free whenever the master assigns,
\* so the put in the loop cannot block it (multi.py:225-240).
AssignNeverBlocks ==
  pc = "assign" => \A w \in Idle : jobQueue[w] = None

\* A sample whose outcome is final is never mined again: not twice in a run,
\* not in a later run, not after a crash between recording and assignment
\* (multi.py:182-184, 351-354).
DecidedOnce ==
  \A r, q \in rows :
    r.sample = q.sample /\ r # q =>
      /\ r.run # q.run
      /\ r.run < q.run => r.status \notin SkipStatuses

\* As long as the target is not reached, a run that returns has recorded or
\* cancelled every attempt it assigned: a graceful stop waits for its workers
\* (multi.py:221-243).
NothingLostBelowTarget ==
  pc = "ended" /\ ~raised /\ accepted < TargetAccepted
    => InFlight \subseteq cancelled

\* A hard stop only deletes what is still running: the artefacts of a recorded
\* attempt survive it (multi.py:376-409).
RecordedArtifactsKept ==
  \A r \in RunRows : r.status # "failed_infra" => r.sample \in files

\* When a run returns normally the dataset files show exactly the attempts
\* table, whatever a crash of an earlier run left behind (multi.py:273).
FinalViewCurrent == pc = "ended" /\ ~raised => view = rows

\* The attempts without a row: those in flight and the one in the master's hand.
Begun == InFlight \cup (IF pc = "record" THEN {cur.sample} ELSE {})

Table == INSTANCE AttemptsTable WITH
  Final <- SkipStatuses,
  mining <- pc \in {"loop", "hardstop", "cleanup", "assign", "wait", "record", "materialize"},
  begun <- Begun

\* Over all runs, crashes and stops the master, its queues and its workers act
\* on the attempts table as one process that mines in turn: it begins only what
\* is undecided and within both bounds, also while attempts are in flight, and
\* a row is of an attempt that was begun (multi.py:207-272, 330-374).
ImplementsAttemptsTable == Table!Spec

\* A run returns, or raises, unless a worker dies or it is asked to stop hard:
\* it takes every result, notices that the samples are used up, and its workers
\* empty the queues it poisons (multi.py:216-281).  Both exceptions are real: a
\* dead worker is waited for for ever, and one that a hard stop kills may leave
\* a job in its queue, where the put of the poison never returns.
SomeWorkerDead == \E w \in Workers : phase[w] \in {"dead", "failed"}

RunTerminates ==
  (pc = "loop") ~> (pc \in {"ended", "crashed"} \/ hard \/ SomeWorkerDead)

-----------------------------------------------------------------------------
(* What the documents say and the code does not do.                        *)

\* "Default stop is graceful" (docs/specs/07): one signal, without a stop file,
\* is not a hard stop.
DefaultStopIsGraceful == signals <= 1 /\ stopFile = "none" => ~hard

\* "worker must report failures to master" (multi.py:114): the master learns
\* that a worker failed, or at least stops waiting for it.
FailuresReachMaster ==
  \A w \in Workers :
    (phase[w] = "failed" /\ running[w] # None)
      ~> (running[w] = None \/ pc \in {"ended", "crashed"})
=============================================================================
