# A verification of putpocket_dataset_mining in TLA+

`putpocket_dataset_mining` mines a dataset of two-turn coding tasks: a local model works on a task
in a container (history 1), its work is tested, a follow-up request is made (history 2), tested and
judged, and the sample is accepted or rejected. Around that core is control code with processes,
queues, signals, locks, remote hosts and restarts. These modules model that control code, TLC
checks them on small instances, and TLAPS proves some results for every instance. All source paths
are relative to `src/src/putpocket_dataset_mining/` unless they begin with `src/`.

Sections: 1 the system, 2 the modules and the code, 3 the runs, 4 fairness, 5 what is proved,
6 disagreements between code and documents, 7 what is left out, 8 the plan.

## 1. The system

| Component | State | Operations | Interacts with | Hard behaviour | What makes it correct |
|---|---|---|---|---|---|
| Mining master and workers (`multi.py`) | counters of the loop, `running`, `stop_requested`, `hard_stop_requested`, one job queue of size 1 per worker, one result queue, processes, the stop file | `run`, `_hard_stop`, the signal handler, `_worker_main`, `create_stop_file` | index and materializer (calls), workers (queues, SIGTERM), operator (signals, stop file) | interleaving of workers and master, process death, signals at any point, crash between two writes, blocking `put` | attempts neither lost nor doubled; counters tell the truth; stop loses only what it may; the run ends |
| Mining index and dataset materializer (`storage.py`, `jsonl.py`) | table `attempts`, the dataset files derived from it | `record_attempt`, `has_prior_status`, `materialize_dataset` | called by the master | crash between row and files; files rewritten one by one | files show the table when a run returns; a decided sample is not mined again |
| Agent lock (`agent_control.py`) | one lock file per resource, a payload with host, pid and token, pending requests | `acquire_agent_locks`, `acquire_agent_lock`, `_lock_payload_stale`, `release` | `agent_cli.py`, `bootstrap_sr.py`, `runpod_execution.py` | several processes at system-call grain, death with a lock, deadlines | exclusion, no deadlock, nothing left behind, stale locks go away |
| Remote verifier host (`remote_verifier/`) | `incoming`, `ready`, `running`, `completed` per job, the flock of `worker.lock`, `result.json` | `promote_incoming`, `start_worker`, `verify`, `result_status` | called over ssh, starts containers and the judge | repeated and concurrent `verify`, killed processes, renames | partial jobs never run; at most one execution; results final |
| Verifier transport (`verifier.py`, `ssh_transport.py`) | `submission_receipt.json` | `submit`, `retrieve`, `run` | the host through rsync and ssh | lost replies, timeouts, stopped controller | a failure never looks like a verdict; a receipt can be relied on |
| Distributed workflow (`distributed_workflow.py`) | `workflow_state.json`, `.workflow.lock`, checkpoints, receipts, safe-to-stop markers | `transition`, the four manual stages, the sequential and the pipeline driver | transport, single-sample runner, operator | stages started by hand, overlapping, killed, started again; two hosts never up together | legal transitions only; a safe-to-stop point is one; verdicts decide |
| Single-sample episode (`single.py`, `runtime.py`, `judge.py`, `cline_tools.py`) | trajectory, snapshots, attempt directory | two rollouts, snapshots, verify, judge, decide, finalize, the exception handler | engine, workspace, verifier, index | any call may raise, also the one that leaves the `with` block; turn and parse limits; a second finalization | a decision rests on what it must; summary, row and artifacts agree on every way out |
| Agent tasks (`agent_control.py`, `agent_cli.py`, the locks of `bootstrap_sr.py`) | worktrees, task branches, origin's and the recorded master, runtime checkout, receipts | task start, integrate, runtime sync, build | git, agent lock, other machines | several git calls under one set of locks; a push that succeeds before a sync that does not | what is read under the locks still holds when it is used; history is kept |
| Model evaluation (`model_evaluation/`) | job and result queue, worker processes, `results.jsonl`, `summary.json` | `run_evaluation`, `run_parallel`, `_worker_main`, `evaluate` | GPU processes, episodes | killed workers, late results, queue locks, device lists | each sample scored once, and the run ends |
| Artifact synchronisation (`artifact_sync.py`) | manifests, `.partial` directories | push, pull, verify | rsync | interrupted copies | what is visible is complete |
| Workspace of an episode (`docker_workspace.py`, `remote_workspace.py`) | the controller's directory, the remote one, the container, `_started` | start, stop, exec, read, write, list, search; push and pull around a remote command | docker, rsync and ssh | lost copies, commands that outlive their timeout, a stop that raises | the files are what the tools were told; no container is left |
| RunPod execution, bootstrap | build markers, run directories | build, launch, bootstrap | agent lock, git, shell | partial builds | a marker means a complete build |
| Fresh timing and timing recorder | event records | start, end, merge | runner | overlapping intervals | nothing counted twice |
| Execution configuration, dataset adapters, command line, doctor | none beyond files read | parse, validate, convert | all | none | pure functions |
| Serving engine and kernels | vLLM, CUDA | generate | GPU | numeric | out of TLC's reach |
| Older remote worker (`remote_worker.py`) | as the remote verifier, without a lock | the same | ssh | the same | superseded |

`PROJECT.json` lists them all with their status, and under `hazards` what is hard to test, at its line.

## 2. The modules and the code

```
MiningMaster                     one run root's master, workers, index and files
  MiningMasterProofs             implements AttemptsTable
AttemptsTable                    what a run promises of the attempts table
Sandbox                          a workspace, local or remote, and its tool calls
Episode                          one attempt: extends Sandbox
  EpisodeProofs
Evaluation                       the evaluation's main process, workers and queues
  EvaluationProofs
AgentLock                        lock files at system-call grain
  AgentLockProofs
AgentTasks                       operations over their locks: extends AgentLock
  AgentTasksProofs               implements AgentLock
RemoteVerifier                   the verifier host and its controllers
  RemoteVerifierProofs           implements JobService, and so JobBoard
JobService                       what the host promises
  JobServiceProofs               implements JobBoard
JobBoard                         what a controller needs of it
Workflow                         store and drivers, composed over JobBoard
  WorkflowProofs
MCx                              instances of x for TLC
```

Definitions whose name begins with `Mut` are deliberately wrong variants of a neighbouring
definition. No specification uses them; they are put in its place to see that a property notices.

### MiningMaster

One master over one index; it may crash and be started again (`StartRun`), which is a new run with
fresh queues and processes on the same table. The master's `pc` follows `run` in
`multi.py:160-281`:

| Action | Code |
|---|---|
| `ReadStopFile`, `LoopEnds` | the loop condition and the stop file at the head of the loop |
| `HardStopTerminate`, `HardStopCleanup` | `_hard_stop`: SIGTERM to the workers, then deletion and cancel summary |
| `Assign`, `NothingToAssign`, `AssignEnds` | the `for` over idle workers with `put(job)`; running out of samples sets `stop_requested` |
| `NothingRuns`, `TakeResult`, `TakeTimesOut` | the break when nothing runs, `get(timeout=2)` |
| `RecordAttempt`, `Materialize`, `Raise` | row, then the dataset files; either may raise, and the files may be left torn |
| `PoisonQueue`, `JoinWorkers` | the `None` for each queue (it waits while the queue is full), `join` |
| `CrashMaster` | the process dies between any two steps |
| `WorkerReady`, `TakeJob`, `TakePoison`, `WriteArtifacts`, `Report` | `_worker_main` |
| `WorkerInitFails`, `WorkerDies`, `WorkerTerminated` | constructors outside `try`; kill; SIGTERM (which a worker may also swallow, with the handler it inherited) |
| `Signal`, `WriteStopFile` | the handler at 368-371 at any point; the operator's file |

Samples stand for attempts, `<<run, sample>>` for the attempt id. What an attempt does inside is one
status out of four. `view` is the set of rows the dataset files were written from, or `Torn`.

`AttemptsTable` is what is left of all this for who reads the table: a run begins an attempt only for a
sample that has no row of this run and no final one of another, while fewer than `max_attempts` are begun or
recorded and fewer than `target_accepted` accepted; it records each at most once, or abandons it when it
ends. `MiningMaster!ImplementsAttemptsTable` maps the attempts in flight, and the one whose result the master
has taken and not yet recorded, to the attempts begun; queues, workers, signals and stop files disappear.

### Sandbox and Episode

`Sandbox` is the workspace object. A tool call is one or more steps: reading and writing in the
controller's directory is one (`Look`, `WriteFile`), a command (`Search`, `Command`) is `Push`, a run
and `Pull` on a remote workspace and a run alone on a local one. `PushFails`, `PullFails` and
`RunTimesOut` are the failures of each; a copy that fails has transferred some of its files, a copy
never removes one (rsync is called without `--delete`), and a command that timed out works on
(`pending`, `Linger`). `Start`, `Stop` and their failures are the context manager. `expected` and
`unsure` are history variables: the files as the observations told the model.

`Episode` runs one attempt over that, of the mining (`run_task`) or of the evaluation (`evaluate`); `kind`
tells the two apart wherever they differ:

| Action | Code |
|---|---|
| `WriteStaticArtifacts`, `EnsureImage`, `Preflight`, `CreateWorkspace`, `PrepareHistory1` | what comes before the `with` block, `single.py:108-157`, `glm_eval.py:160-200` |
| `Open`, `Close` | the `with` block; a `return` or an exception inside it leaves through `Close`, which may raise in its turn |
| `Respond`, `RespondMalformed`, `CallTool`, `CallProceeds`, `ResponseDone` | `run_history`: a response with some tool calls and perhaps a completion, or one that does not parse; the turn and the parse-failure limits |
| `TakeSnapshot` | `snapshot_workspace` and where the outcome of the rollout leads |
| `Verify` | `HiddenVerifier.verify` on the snapshot, with the outcomes of either transport; `Leaked`, `Verifiable` when it raises |
| `PrepareHistory2`, `Abandon` | the second query, or the artifacts of what is skipped |
| `DecideRemotely`, `SkipJudge`, `Judge` | `_judge_and_decide`, `_remote_verification2_decision`, `CodexJudge` |
| `Handle` | the exception handler with its placeholders |
| `Finalize`, `Record`, `Materialize` | summary files, row of the index, dataset files |
| `SetUpFails`, `OpenFails`, `GenerateFails`, `SnapshotFails`, `VerifyFails`, `PrepareFails`, `AbandonFails`, `JudgeFails`, `FinalizeFails`, `HandleFails` | an exception of each of those, at any of its calls |

A remote result is taken to carry its output (`Inline = TRUE`), which the documents promise: as the
code is, no remote verification returns (section 6, `verify_fetch`), and nothing behind it could be checked.

### Evaluation

`StartSequence`, `EvaluateNext`, `SequenceDone` and `SequenceRaises` are the loop of one process;
`StartWorkers`, `Collect`, `Empty`, `CheckAlive`, `Joined`, `Terminate` and `Summarize` the main process
of `run_parallel`; `Boot`, `GetJob`, `TakeJob`, `Report` and `Leave` a worker. The queues are
`multiprocessing.Queue`, so `GetJob` holds the lock of the reader while it takes a job, and a
result passes from the buffer of its worker to the pipe in a thread (`Send`, `Sent`) under the lock
of the writer. A worker may fail to boot, raise while it writes a result (`ReportFails`) or be killed
anywhere (`Die`), with its buffer and the locks it holds. `Valid` is what `parse_gpu_slots` and
`validate_eval_gpu_slots` let through.

### AgentLock and AgentTasks

One process is one run of an operation with its set of wanted resources. Each system call is a step:
`os.open` with `O_EXCL` (`Create` / `Exists`), the payload (`WritePayload`), its reading
(`ReadPayload`), the liveness test (`JudgeStale`), the removal (`Steal`), `Sleep`, `Refuse`, `Work`,
and the release in two steps (`ReleaseRead`, `ReleaseUnlink`). Both removals are `Unlink`, by name:
whatever file has it now. When that is not the file whose payload was read, its owner is `robbed` of it,
which an auxiliary variable remembers and no action reads.
`Crash` is possible between any two steps and leaves the file, with or without its payload.

`AgentTasks` puts the bodies of the `with` statements in place of `Work`. A commit is the set of the
changes it contains, so an ancestor is a subset. Each git call is a step: `Allocate`, `Fetch`,
`ReadBase`, `AddWorktree`, `Describe` for `task_start` (334-350), `Integrate`, `Fetch`, `ReadTarget`,
`CheckAncestor`, `Push` for `task_integrate` (375-390), `Guard`, `Fetch`, `Pull`, `WriteReceipt` for
`_runtime_sync_locked` (400-416), `StartBuild`, `EndBuild` for a bootstrap, which builds what the
canonical checkout shows. `GitFails` is any of the calls raising. Outside the locks agents commit and
merge in their worktrees (`Tips`) and another machine pushes (`PushElsewhere`). That an operation over
its locks is still a behaviour of `AgentLock` is proved (`LocksImplemented`).

### RemoteVerifier, JobService, JobBoard

A job is one `submit`, so its id is fresh. The controller (`ctl`) uploads part after part, promotes,
starts a detached worker or calls `verify` and waits, polls, fetches; every call may fail with or
without its effect, and the controller's host may stop and resume from its receipt. A runner is the
process of one `verify` call: `check` (result there? ready?), `admit` (checksum, protocol, image),
`clear` (`rmtree` of an old running directory), `take` (rename), `queue` (flock), `pytest`,
`judge`, `move` (rename), `output`, `publish` (rename of `result.json`).
The `Mode` of a job is how its controller waits: `sync` (`run`), `manual` (`retrieve` with a deadline)
or `pipeline` (polling without one).

`JobService` is what the host promises whoever calls it: at most one execution of a job, one at a
time, an answer after that, final; a job may be lost. `RemoteVerifier!ImplementsJobService` maps the
directories and runners to it; TLC checks it on two jobs, TLAPS for any number. `JobBoard` is what a controller needs of that:
known once, answered at most once; that `JobService` implements it is proved.

### Workflow

The store and the three drivers of `distributed_workflow.py` over one run root. A process carries the
rest of its program as a sequence of state names and steps, the way a stage is a sequence of
`transition` calls with work between. `Load` / `Write` / `Refuse` are `transition` (139-161): flock,
read, check, write. `Infer`, `Submit`, `WriteMarker`, `ReadReceipt`, `Retrieve`, `RetrieveFails` are
the steps of the manual stages, `StartStage` an operator's command, `BreaksOff` and `Kill` an
exception and a killed process. `StartSample`, `RunTask`, `AppendSummary` are the sequential driver
with the transitions it records afterwards (`Recorded`, 817-832), `PipeStart`, `PipeRetrieve1`,
`PipeRetrieve2`, `PipeBreaksOff` the pipeline. `failed` ends a driver; the history variable `broken` has the
states in which a manual stage broke off or was killed midway (`Midway`), until the workflow moves on. The host is `Board`, an instance of `JobBoard` on the
variables `known` and `answer`.

## 3. The runs

`pass` runs find nothing wrong; each property of each has a mutant of the code (`mutants` in
`PROJECT.json`) that breaks it.

| Run | Instance | What it shows |
|---|---|---|
| `mining_run` | 4 samples, 2 workers, target 2, at most 3 attempts, 1 fault, 2 signals, both stop files; samples symmetric | counters, the place of every attempt, what a stop may lose, artefacts of recorded attempts |
| `mining_rerun` | 2 samples, 2 workers, 2 runs, `rerun_failed_infra`, 1 fault (also a crash), graceful stop file; fair | no sample decided twice, final files, implements `AttemptsTable`, the run ends |
| `agent_tasks` | any 2 of 5 operations on one host (two starts of one topic, an integration, a sync, a build), 1 kill; two starts, or the sync and the build, behind a third process that was killed with its locks; 2 tasks, 1 push from elsewhere, any git call may fail; fair | two hold a lock only when one was robbed of it, nothing leaked, not everyone refused; until a robbery what is read under locks still holds, an integration that succeeds is live, origin keeps its history, all operations end |
| `verify_once` | two jobs (one waits synchronously, one is judged and retrieved by hand), rsync, ssh, damage, image, daemon and crash faults, 2 of them; fair | partial jobs, honest receipts, failures are no verdicts but for the daemon's `failed`, the queue moves, every job is classified |
| `verify_repeat` | the same jobs, each verified twice, ssh, daemon and crash faults | results complete; implements `JobService` |
| `workflow_modes` | all three modes, 2 samples, 2 processes, 3 job ids (symmetric), 1 fault | legal transitions, earned verdicts, sound resume points, and who is stranded: only a workflow whose stage was broken off in its present state |
| `episode` | mining and evaluation, local and remote workspace and verifier, 2 files (one of them a test), 2 contents, 2 turns, 1 parse failure, 1 call in a response, 1 fault; fair | decisions earned, workspace as told, no container left, complete artifacts, the attempt ends |
| `evaluation` | 15 command lines (7 served, 8 refused), up to 3 samples and 2 workers, 2 faults; fair | devices apart, each sample once, the run ends |
| `mining_signal`, `mining_failures`, `verify_fetch`, `workflow_sequential` | the smallest instance that shows it | violations, see section 6 |

Five more configurations are kept for runs by hand: `MCAgentLock_race.cfg`, which passes (the locks alone, for
an integration, a sync and a build at a time, one of which may be killed), and four that end in a violation,
`MCAgentLock_stale.cfg`, `MCRemoteVerifier_daemon.cfg`, `MCRemoteVerifier_partial.cfg` and
`MCRemoteVerifier_pipeline.cfg` (section 6).

Why the bounds are enough. *Mining*: two workers are needed for a second result to come while one
is recorded; 3 attempts with a target of 2 make each bound of the profile bite first in some
behaviour, and 4 samples make `NothingToAssign` and the limit on attempts separate events. Two
signals and a stop file cover every change of the two flags. Two runs with a fault are a crash or an
error and the run after it. *Agent tasks*: two operations are the
least to disturb each other, and all pairs are among the initial states; two tasks let both starts
find a free id or neither. Three processes on a host are the least at which a lock changes hands between being
read and being unlinked: its owner, who is gone, and two who find it. So the run also begins (`KilledInit`) in states where
the first of three, a sync, has been killed with all its locks, and two starts meet the same one of them,
or a sync and a build do after the sync has removed others. *Episode*: two
turns and one parse failure make either limit bite first; the two files are one that the model is
to change and one of the hidden tests, which it may create; one fault at any call is every way out
of the code, and what the handler does with a second one it does with one behind a return.
*Evaluation*: two faults are two dead workers, all of a run with two, or a dead one and a late
result; three samples for two workers let one worker take a job after another has died. *Verifier*: two jobs contend
for the flock; two faults are a lost reply and a killed worker; two calls of the same job are the
least at which they race. *Workflow*: two processes are the least to overlap, two samples the
least for one to disturb the other, three job ids allow a second round of a history over the same
run root. `MaxRuns`, `MaxFaults`, `MaxSignals`, `MaxCrashes` and the job ids are the only bounds of
the models; all are constants, and the proofs hold for every value.

`CHECK_DEADLOCK FALSE` is in every configuration: the master returns, processes exit, jobs, attempts and runs end, and
nothing is left to do. That nobody stops too early is what the liveness properties say.

## 4. Fairness

Only progress the system's schedulers give: weak fairness of the master and of each live worker's steps
(`MiningMaster!FairSpec`: an attempt ends because its turns, tool calls and verifications are bounded
by timeouts); of the
controller's steps and of each runner's (`RemoteVerifier!FairSpec`: containers and judge have timeouts,
a kernel gives a free flock to a waiter). For `AgentTasks` it is enough that
some live process gets on and that time passes (`TasksFairSpec`): a process past its deadline polls no
more, so all have finitely many steps; git commands have no timeout and are taken to end. `Episode!FairSpec`
schedules the attempt: tool calls, verifications and the judge have timeouts, `generate` has none and
is taken to return. `Evaluation!FairSpec` gives weak fairness to the main process and to each worker;
that `EvaluationEnds` excepts a worker killed with the lock of a queue is the only wait without end.
Weak fairness for a runner waiting for the flock is enough
in the run because each runner holds it once, so finitely often. No fairness for faults, signals, operators, kills, or the
return of a stopped host. `Workflow` has no liveness property: its stages are an operator's.

## 5. What is proved

For every value of the constants that meets the module's `ASSUME`.

**MiningMasterProofs.** The inductive invariant joins the types, `AttemptInOnePlace`, that an idle
worker's queue, process and results are empty, that what is assigned, in flight, done and still to be yielded
never overlap within a run, and that a sample is yielded only without an earlier decision. `AttemptInOnePlace`
alone is not inductive: a result could be taken for a worker that was given a second sample. From it, over any
number of runs, crashes, workers and samples:
`TypeCorrect` (`TypeOK`), `AttemptTracked`, `AssignmentFree` (the put in the loop never blocks) and
`NeverMinedTwice` (`DecidedOnce`). Three more invariants rest on it. `Ledger` says what the counters and the rows have
to do with each other at each place of the loop (in `record` one row is missing) and gives `CountersTrue`
(`CountersMatchIndex`); that each step adds at most one row, of a new attempt, makes the cardinalities move by one.
`Leaving` says what each way out of the loop owes: `NothingLost` (`NothingLostBelowTarget`) and
`FilesCurrent` (`FinalViewCurrent`). `Backed` ties a status to its artefacts from the report to the row:
`ArtifactsKept` (`RecordedArtifactsKept`).
`TableImplemented` (`ImplementsAttemptsTable`): four actions act on the abstract table, leaving the loop ends
the abstract run, and all else is a stutter. The bound on attempts is the hard part: what is in flight is counted by
busy workers (`InFlightBounded`) and what is recorded by `Ledger`.

**AgentLockProofs.** `TypeCorrect`; `AcquiredUpwards`, that whatever a process holds ranks below what
it wants, which is why no cycle of waiting exists. `SomebodyServed` (`NotEveryoneRefused`) is the other half of that argument,
with no assumption on hosts or on what is taken for stale: who has a lock, or ever had it, wants only higher ones
afterwards (`Climbs`), and who is refused was refused a lock that another has had (`Contended`). Were all
refused, the highest lock any of them was refused would have been had by a process that was refused a higher one;
there are finitely many ranks (`Highest`, a pigeonhole argument on the cardinality of what is above, since induction
is out of reach). `Exclusive` (`MutualExclusion`) and `LeavesNothing` (`NothingLeaked`) hold for any processes on any
hosts, whoever is killed. The first rests on `Owns`: the file of what a process holds is its own, or it was robbed of it.
No step but an unlink changes an owner, and one that follows the release or the death of the process it read of
(`SeesDead`: who is judged stale is not alive) takes a file from the living only by a robbery. The second rests
on `OwnedFile`, that a file's owner holds its resource, is about to, or was killed, and on `ExitsEmpty`. That no live process
is ever robbed is not proved, because it is not true (section 6, 5).

**AgentTasksProofs.** `LocksImplemented`: an operation over its locks is a process of `AgentLock`, so the
lock theorems carry over (`OperationsRelease` is `NothingLeaked`,
`OperationsServed` is `NotEveryoneRefused`). `TasksTypeCorrect` (`TasksTypeOK`). `OperationsUndisturbed`:
for any number of operations, `Undisturbed` holds as long as nobody has been robbed of a lock (`Unrobbed`).
The argument has three parts: a process inside its body holds
exactly the locks of its kind (`Inside`, from the way it got there, `OnItsWay` and `Acquiring`); each
variable it has read is only written by operations that share a lock with it (`Covered`); and so, with
`Exclusive`, what it read stays (`AsRead`). After a robbery two operations may be inside the same lock, and nothing of the
kind can be promised. `HistoryKept` (`MasterKeepsHistory`) and
`IntegrationsLive` (`IntegratedIsLive`, from `Pushed`) need no assumption on the locks at all: the refusal
of a push that is no fast-forward and of a pull that is none are enough.

**EpisodeProofs.** All of `Episode`'s properties but the liveness, for any files, limits and number of faults.
`EpisodeTypeCorrect` rests on `StillParses`: a parse failure beyond the limit ends the rollout.
`NoContainerLeft` on `Contained`: a container exists while the block is open, or a call failed.
`DecisionsEarned` on `Chain`, which says for each place what has happened before it, `Settled`, what stays
afterwards, and `Graded`, which ties each status to the artifacts it rests on (`Proven`, `Refuted`). The property
alone is not inductive: it speaks of saved statuses, which come from `status`, which comes from a
verdict on a snapshot. `EpisodesComplete` adds that what was written is there (`Present`) and that
the finalization now in progress is the last (`Finalized`). `WorkspacesAsTold` rests on `InSync`: between the
push and the pull of a command the remote directory differs from the controller's by that command
only, as far as no failure made it `unsure`.

**EvaluationProofs.** `EvaluationTypeCorrect` (`EvaluationTypeOK`), for every command line: only workers that a valid list of
devices provides are ever started (`Started`), and their slots are disjoint (`SlotsApart`). `EachSampleEvaluatedOnce`
(`EachSampleOnce`) rests on `Accounted`: a sample that was taken from the queue (`WasTaken`) is with one worker or has
one result, in one buffer, in the pipe or in `results.jsonl` (`Once`), nothing taken disappears until the
run is given up (`NoneLost`), and the main process counts as many rows as it has (`CountedRows`: a row for each of as
many rows as samples is a row of each sample). The property alone is not inductive, as the copies of
a sample it counts lie in five places.

**RemoteVerifierProofs.** The inductive invariant `IInv` joins the types, that a job is promoted before
it has a receipt or a worker (`Promoted`), that `completed` is never left and has its outputs before its
result (`Completing`), and that statuses exist before they are used (`HasStatus`). From it
`TypeCorrect`, `ResultsComplete` and `ReceiptsHonest`, with any number of repeated calls and any faults. With one `verify`
call per job `Sole` is inductive too and gives
`PartialSafe` (`PartialNeverExecuted`) and `VerdictsReal` (`InfraIsNoVerdict`, which allows the `failed` of a docker
client without its daemon and nothing else). The assumption is needed: section 6 shows the first failing with repeated calls.

`Implements`: `RemoteVerifier` implements `JobService`, whoever repeats `verify`.
Only one runner gets past the rename to `running` (`TakenOnce`, since a job never returns to `ready`),
it holds the flock exactly while it executes (`LockHeld`), and the phase of the job is where that
runner is, or `lost` without it. Every action is then one action of `JobService` or a stutter.

**JobServiceProofs.** `ImplementsBoard`: `JobService` implements `JobBoard`. `BoardImplemented` (in
RemoteVerifierProofs) puts the two together, and is why `Workflow` may take the host to be a `JobBoard`.

**WorkflowProofs.** All of `Workflow`'s properties, for any samples, processes, job ids and faults, and with all modes.
`MovesLegally` (`StateMovesLegally`) with any number of overlapping, failing
and killed stages: between `Load` and `Write` a process has the flock and what it checked is what the
file still says (`Serialized`). `WorkflowTypeCorrect` (`TypeOK`) needs to know what a program can
look like, since a step takes its next step from it: `ProgramsOK` has each mode's programs as sequences in
which only certain steps follow each other (`Scripted`, `Follows`), and `HostOK` that receipts name accepted jobs. These
are `Sound`. Over it:

- `WorkflowGoesOn` (`NeverStranded`) from `Attended`: a state in which no stage may start was left by one that is
  still on its way (`Behind` relates the state to the next step of its program), or that broke off in it (`broken`).
- `TerminalsEarned` (`VerdictsEarned`), `SecondWaitsForFirst` (`SecondHistoryEarned`) and `StopIsSafe`
  (`ResumePointSound`) from `Piped` for the pipeline, where each receipt and status was earned, and `OneByOne` for the manual
  stages: until two have overlapped, one process at most has a program, and what it carries (`Carries`: its
  ticket is the receipt, the verdict it will write is the host's) and what the state promises (`Standing`: of the state
  just written, of the jobs it waits for, of a marker that is there or about to be, unless its stage was killed: `Unmarked`) hold together. None of the three properties
  is inductive: a terminal state is written two transitions after the verdict was read, and a submission
  replaces the receipt that an earlier round was judged by.

The assumptions on constants: `MiningMaster`, `Evaluation`, `RemoteVerifier`, `Episode` and `AgentTasks` assume what their
`ASSUME` says of bounds and names. `AgentLock` assumes finitely many processes and resources
(`LOCK_RESOURCE_ORDER` is a dictionary of six). `Workflow` assumes that the mark of a
process that has not loaded the state is no state (`RecordAssumption`).

Only model-checked: all liveness (the runs end, every job is classified, the queue moves, attempts, operations and
evaluations end), which needs fairness and `ENABLED` and is out of the prover's
reach. There is no recursion in the models, and so no induction over data. Every invariant and every action
property of a passing run is proved, `PartialNeverExecuted` and `InfraIsNoVerdict` for one `verify` call of each
job, as their run has it.

## 6. Disagreements between the code and what it says

Four runs are expected to end in a violation (`findings` in `PROJECT.json`).

1. `mining_signal`: once samples run out the loop sets `stop_requested` itself, so a *first* signal
   is taken for the second and the attempts still running are killed.
2. `mining_failures`: a worker that fails before its `try`, or is killed, reports nothing, and the
   master waits for ever.
3. `verify_fetch`: `rsync_from_remote` makes a directory of its destination, and `retrieve` uses it for
   `stdout.txt` and `stderr.txt`, which every result of the runner names. Reading the directory
   raises, and no remote verification returns a verdict. The tests give results with their
   output inline, or replace `run` or `retrieve`.
4. `workflow_sequential`: the sequential driver asks for `VERIFICATION1_SUBMITTED` to
   `VERIFICATION1_FAILED`, which the table does not have; the exception ends the workflow.

Four more disagreements can be reproduced by hand:

5. `MCAgentLock_stale.cfg`: between judging a payload stale and unlinking the name (`agent_control.py:284`),
   another process may have removed that file and created its own, which is then removed. With three processes on a host
   the lock of a live one is removed and two work under it, where
   `src/agent/tasks/T20260813-001__advisory-lock-queue-control/handoffs/TO_GPT_20260813-014600.md:35` says that
   stale locks are removed "only when their recorded PID no longer exists".
6. `MCRemoteVerifier_daemon.cfg`: `docker run` exits with 125 when the client cannot reach its daemon, and
   `remote_verifier/runner.py:126` calls every exit code but 0 `failed`, where `src/docs/SR_MULTIHOST_CLOUD.md:187`
   promises `infra_failed` for the Docker daemon. The local verifier does the same (`verifier.py:117-122`); there the
   models take it for a verdict (section 7).
7. `MCRemoteVerifier_partial.cfg`: of two `verify` calls that both found the job ready, the slower
   removes the directory the faster is executing in (`remote_verifier/runner.py:105`).
8. `MCRemoteVerifier_pipeline.cfg`: a refused job leaves no result and the pipeline polls for it for
   ever (`distributed_workflow.py:361`).

In the models and worth knowing, without a run of their own: a worker that inherited the handler
swallows SIGTERM and writes on behind the deletion of its artefacts; attempts in flight when the
target is reached are dropped without a row; after a hard stop a killed worker may leave its job in
the queue and the put of `None` blocks; a process killed between creating its lock file and writing the payload
leaves a lock that is never stale (`agent_control.py:291`), so that everybody after it is refused until the
file is deleted by hand; a manual stage that is broken off in `HISTORY1_INFERENCE_RUNNING`,
`HISTORY1_INFERENCE_COMPLETED`, `HISTORY2_INFERENCE_COMPLETED`, `VERIFICATION1_BUNDLE_READY`, `VERIFICATION2_BUNDLE_READY`,
`VERIFICATION1_COMPLETED`, `VERIFICATION1_FAILED`, `VERIFICATION2_COMPLETED` or `FINALIZING` strands the
workflow, since no stage starts from these: an inference or submission of history 1 that fails, and a kill between two
transitions, also of a stage that retrieves (`distributed_workflow.py:258-260`, `261-264`, `289-292`). `NeverStranded`
excepts exactly that, by `broken`. A stage killed between its last transition and its marker (`250-251`, `281-282`)
leaves no marker, and its repetition writes none (`Unmarked`); two submit stages that overlap leave
the receipt of one and the job id of the other (the properties on receipts except it by `overlapped`).
Of an episode: a file a command removed in a remote workspace comes back with the next copy; an
`InfraError` inside a tool call becomes an observation for the model and not a failure of the attempt
(`cline_tools.py:151`); a failed `workspace-destroy` goes unnoticed, while a `docker stop` that
times out raises on the way out of the `with` block, leaves the container and turns a rejected attempt
that is already finalized into `failed_infra`; materializing may fail after `accepted.jsonl` has the row of an
attempt that then becomes `failed_infra`; a first rollout that fails leaves no judge file in the mining and
no checklist of history 1 in the evaluation; the judge bundle of the evaluation is read from a directory only the
mining writes, so its judge sees neither rules nor query (`Overjudged`). Of an evaluation: one killed
worker loses the summary of the run, although `results.jsonl` has its rows; one killed with the lock
of a queue stops the run for ever; a negative `--max-samples` drops samples from the end.
Outside the models: an interrupted copy of `artifact_sync.py` leaves a `.partial` directory that is merged
into the next copy, whatever its manifest says; `_mode_summary` counts `infra_failed` where the summaries say `failed_infra`, and
`retrieve` does not look at the exit code of the rsync that fetches stdout and stderr.

## 7. What is left out

- Two masters over one index at a time: the code has no lock for it.
- Workers of a crashed master write to queues nobody reads; only their GPU memory would matter.
- A process id used again; clocks that jump.
- File systems lose nothing: rename and write are atomic and durable. `_atomic_write_json` does not
  fsync, so a power loss is stronger than the crashes here.
- `events.jsonl`, logs, timings, texts, metrics and summaries (`_mode_summary` too).
- What a verdict rests on: the tests, the model and the judge are choices among statuses.
- `--task-id`, and people who fetch in or change the canonical checkout while an operation runs. A git
  child that outlives a killed operation, whose stale locks are then removed.
- Files of pending lock requests, which only the status commands read.
- Metrics in the summary of an evaluation; containers of workers that are terminated.
- `artifact_sync.py`: one process, no concurrency; its one hazard is named in section 6. The build steps of
  bootstrap and the RunPod orchestration are commands in a row. Timing records, configuration and
  dataset adapters have no state; kernels and the serving engine are numeric.
- The components marked `not_modelled` in `PROJECT.json`, each with its reason.

## 8. The plan

Done: `MiningMaster`, `Sandbox`, `Episode`, `Evaluation`, `AgentLock`, `AgentTasks`, `RemoteVerifier` with
`JobService` and `JobBoard`, `Workflow`, `AttemptsTable`, their runs, and the proofs of section 5. What is left, in this order:

1. `Episode` as a refinement of the one-step attempt of `MiningMaster`'s workers.
2. A volatile disk under `Workflow` and the materializer: what fsync is missing for.
3. `ArtifactSync`, and pure operators against references: the interval merge of `timing.py`, the checks of the
   finalized dataset.
