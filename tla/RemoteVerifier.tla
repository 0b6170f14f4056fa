--------------------------- MODULE RemoteVerifier ---------------------------
(***************************************************************************)
(* Verification of a sample on the remote host.  The controller's half is  *)
(* verifier.py (SshRsyncVerifierTransport: submit, retrieve, run) and the  *)
(* polling of distributed_workflow.py; the host's half is                  *)
(* remote_verifier/runner.py: promote_incoming, start_worker, verify,      *)
(* result_status.                                                          *)
(*                                                                         *)
(* A job is one submit: its id is fresh, so it has one controller.  Its    *)
(* directory moves by rename from incoming to ready, running and           *)
(* completed.  A runner <<j, c>> is the process of one verify call for j:  *)
(* the call First is the controller's, the others somebody's repetitions   *)
(* of it on the host.  Any rsync or ssh call may fail, with or without its *)
(* effect, and any process may die between two steps.                      *)
(***************************************************************************)
EXTENDS Naturals

CONSTANTS
  Jobs,
  Judged,     \* the jobs whose policy is history2_pytest_then_judge
  Calls,      \* job -> the verify calls made for it
  First,      \* the one its controller makes
  Mode,       \* job -> how its controller waits: "sync" (run), "manual", "pipeline"
  Inline,     \* whether a result carries the output of pytest: the runner of
              \* this commit names files instead (runner.py:171-186)
  FaultKinds, \* what may go wrong
  MaxFaults,  \* bound: how often something goes wrong
  None

ASSUME VerifierAssumption ==
  /\ Judged \subseteq Jobs /\ \A j \in Jobs : First \in Calls[j]
  /\ \A j \in Jobs : Mode[j] \in {"sync", "manual", "pipeline"}
  /\ FaultKinds \subseteq {"rsync", "ssh", "damage", "image", "daemon", "crash"}
  /\ Inline \in BOOLEAN /\ MaxFaults \in Nat
  /\ None \notin (UNION {{j} \X Calls[j] : j \in Jobs}) \cup Jobs \cup
                 {"passed", "failed", "timeout", "uncertain", "infra_failed", "infra"}

VARIABLES
  ctl,      \* job -> where its controller is
  receipts, \* the jobs with a submission_receipt.json
  outcome,  \* job -> what its controller made of it, None while it has nothing
  place,    \* job -> the state directory it is in
  parts,    \* job -> what its directory has of the upload
  damaged,  \* the jobs whose workspace is not the one the manifest describes
  at,       \* runner -> where it is
  verdict,  \* runner -> the status it computed
  input,    \* runner -> what its container and judge were given
  lock,     \* the runner with the flock on worker.lock
  outputs,  \* the jobs with stdout, stderr and judge files in completed
  result,   \* job -> the status in its result.json, None without one
  faults

controller == <<ctl, receipts, outcome>>
store == <<place, parts, damaged, outputs, result>>
runner == <<at, verdict, input, lock>>
vars == <<controller, store, runner, faults>>

Runners == UNION {{j} \X Calls[j] : j \in Jobs}
Verdicts == {"passed", "failed", "timeout", "uncertain"}
Over == {"answered", "refused", "dead"}   \* the process is gone

Needed(j) == {"workspace", "manifest"} \cup IF j \in Judged THEN {"bundle"} ELSE {}

\* submit transfers them in this order.
IsNextPart(j, p) ==
  /\ p \in Needed(j) \ parts[j]
  /\ p = "manifest" => "workspace" \in parts[j]
  /\ p = "bundle" => "manifest" \in parts[j]

Fault(kind) == kind \in FaultKinds /\ faults < MaxFaults /\ faults' = faults + 1

Init ==
  /\ ctl = [j \in Jobs |-> "upload"] /\ receipts = {}
  /\ outcome = [j \in Jobs |-> None]
  /\ place = [j \in Jobs |-> "nowhere"] /\ parts = [j \in Jobs |-> {}]
  /\ damaged = {} /\ outputs = {} /\ result = [j \in Jobs |-> None]
  /\ at = [w \in Runners |-> "idle"] /\ verdict = [w \in Runners |-> None]
  /\ input = [w \in Runners |-> "none"] /\ lock = None
  /\ faults = 0

-----------------------------------------------------------------------------
\* The controller.
Move(j, from, to) == ctl[j] = from /\ ctl' = [ctl EXCEPT ![j] = to]

\* The controller ends, with a status or an InfraError ("infra").
End(j, from, status) ==
  /\ Move(j, from, "ended")
  /\ outcome' = [outcome EXCEPT ![j] = status]
  /\ UNCHANGED receipts

\* rsync of one part to incoming/<job>.partial.
Arrives(j, p) ==
  /\ IsNextPart(j, p)
  /\ place' = [place EXCEPT ![j] = "incoming"]
  /\ parts' = [parts EXCEPT ![j] = @ \cup {p}]

Upload(j, p) ==
  /\ ctl[j] = "upload" /\ Arrives(j, p)
  /\ \/ UNCHANGED <<damaged, faults>>
     \/ p = "workspace" /\ Fault("damage") /\ damaged' = damaged \cup {j}
  /\ UNCHANGED <<controller, outputs, result, runner>>

UploadFails(j) ==
  /\ End(j, "upload", "infra") /\ Fault("rsync")
  /\ UNCHANGED <<store, runner>>

\* promote_incoming: the rename that makes a job executable.
MutPromotes(j) == place[j] = "incoming"   \* deliberately wrong: a partial job

Promotes(j) == place[j] = "incoming" /\ Needed(j) \subseteq parts[j]

\* run submits without a worker: its retrieve makes the verify call itself.
CallsVerify(j) == Mode[j] = "sync"

Promote(j) ==
  /\ Promotes(j)
  /\ place' = [place EXCEPT ![j] = "ready"]
  /\ IF CallsVerify(j)
       THEN Move(j, "upload", "call") /\ receipts' = receipts \cup {j}
       ELSE Move(j, "upload", "start") /\ UNCHANGED receipts
  /\ UNCHANGED <<outcome, parts, damaged, outputs, result, runner, faults>>

PromoteReplyLost(j) ==
  /\ Promotes(j) /\ End(j, "upload", "infra") /\ Fault("ssh")
  /\ place' = [place EXCEPT ![j] = "ready"]
  /\ UNCHANGED <<parts, damaged, outputs, result, runner>>

\* start-worker and verify launch a process; start-worker does so only while
\* there is no result.
Launch(w) ==
  /\ at[w] = "idle"
  /\ at' = [at EXCEPT ![w] = "check"]
  /\ UNCHANGED <<verdict, input, lock>>

LaunchDetached(j) ==
  IF result[j] = None THEN Launch(<<j, First>>) ELSE UNCHANGED runner

\* Deliberately wrong: the receipt does not wait for the worker.
MutStartWorker(j) ==
  /\ Move(j, "start", "poll")
  /\ receipts' = receipts \cup {j}
  /\ UNCHANGED <<outcome, store, runner, faults>>

StartWorker(j) ==
  /\ LaunchDetached(j)
  /\ Move(j, "start", "poll")
  /\ receipts' = receipts \cup {j}
  /\ UNCHANGED <<outcome, store, faults>>

StartReplyLost(j) ==
  /\ LaunchDetached(j) \/ UNCHANGED runner
  /\ End(j, "start", "infra") /\ Fault("ssh")
  /\ UNCHANGED store

CallVerify(j) ==
  /\ Launch(<<j, First>>)
  /\ Move(j, "call", "wait")
  /\ UNCHANGED <<receipts, outcome, store, faults>>

\* Deliberately wrong: the exit code is not looked at.
MutVerifyReturns(j) ==
  /\ at[<<j, First>>] \in Over
  /\ Move(j, "wait", "fetch")
  /\ UNCHANGED <<receipts, outcome, store, runner, faults>>

\* The exit code of verify is 0 for every status but infra_failed.
VerifyReturns(j) ==
  /\ at[<<j, First>>] \in Over
  /\ IF at[<<j, First>>] = "answered" /\ verdict[<<j, First>>] \in Verdicts
       THEN Move(j, "wait", "fetch") /\ UNCHANGED <<receipts, outcome>>
       ELSE End(j, "wait", "infra")
  /\ UNCHANGED <<store, runner, faults>>

\* The ssh client gives up on verify; the process on the host goes on.
CallTimesOut(j) ==
  /\ End(j, "wait", "infra")
  /\ UNCHANGED <<store, runner, faults>>

\* result-status exits with 2 for a result that says infra_failed: the
\* polling goes on as if there were none.
PollFinds(j) ==
  /\ result[j] \in Verdicts
  /\ Move(j, "poll", "fetch")
  /\ UNCHANGED <<receipts, outcome, store, runner, faults>>

\* Only retrieve has a deadline, the polling of the pipeline has none.
MutPollTimesOut(j) == FALSE   \* deliberately wrong: never

PollTimesOut(j) ==
  /\ Mode[j] = "manual"
  /\ End(j, "poll", "infra")
  /\ UNCHANGED <<store, runner, faults>>

\* The status is adapted after the output has been read.  rsync_from_remote
\* makes its destination a directory, so reading a file it fetched raises.
Fetch(j) ==
  /\ End(j, "fetch", IF Inline THEN result[j] ELSE "infra")
  /\ UNCHANGED <<store, runner, faults>>

FetchFails(j) ==
  /\ End(j, "fetch", "infra") /\ Fault("ssh")
  /\ UNCHANGED <<store, runner>>

\* The controller's host stops ...
ControllerStops(j) ==
  /\ ctl[j] # "ended" /\ Move(j, ctl[j], "stopped") /\ Fault("crash")
  /\ UNCHANGED <<receipts, outcome, store, runner>>

\* ... and the operator runs the retrieve stage from the receipt.
Resume(j) ==
  /\ Mode[j] = "manual" /\ j \in receipts
  /\ Move(j, "stopped", "poll")
  /\ UNCHANGED <<receipts, outcome, store, runner, faults>>

-----------------------------------------------------------------------------
\* The verify process.
Goto(w, from, to) == at[w] = from /\ at' = [at EXCEPT ![w] = to]

\* verify answers infra_failed, and records nothing ...
AnswersInfra(w, from) == Goto(w, from, "refused")

\* ... or raises, and main prints an infra_failed in its place.
Raises(w, from) == Goto(w, from, "refused")

\* A repeated verify call for the job, made on the host.
Repeat(w) ==
  /\ w[2] # First /\ Launch(w)
  /\ UNCHANGED <<controller, store, faults>>

Ready(j) == place[j] = "ready"

\* A job with a result is answered from it ...
AnswerAgain(w) ==
  /\ result[w[1]] # None
  /\ Goto(w, "check", "answered")
  /\ verdict' = [verdict EXCEPT ![w] = result[w[1]]]
  /\ UNCHANGED <<controller, store, input, lock, faults>>

\* ... one that is not ready, or no longer, with an infra_failed that is not
\* recorded ...
NotReady(w) ==
  /\ result[w[1]] = None /\ ~Ready(w[1])
  /\ AnswersInfra(w, "check")
  /\ UNCHANGED <<controller, store, verdict, input, lock, faults>>

Begin(w) ==
  /\ result[w[1]] = None /\ Ready(w[1])
  /\ Goto(w, "check", "admit")
  /\ UNCHANGED <<controller, store, verdict, input, lock, faults>>

\* ... and so is one whose checksum or protocol differs, or without an image.
MutSound(j) == place[j] = "ready"   \* deliberately wrong: no checksum

Sound(j) == place[j] = "ready" /\ j \notin damaged

Admit(w) ==
  /\ Sound(w[1])
  /\ Goto(w, "admit", "clear")
  /\ UNCHANGED <<controller, store, verdict, input, lock, faults>>

Reject(w) ==
  /\ \/ ~Sound(w[1]) /\ UNCHANGED faults
     \/ Fault("image")
  /\ AnswersInfra(w, "admit")
  /\ UNCHANGED <<controller, store, verdict, input, lock>>

\* if running.exists(): shutil.rmtree(running)
Clear(w) ==
  /\ Goto(w, "clear", "take")
  /\ IF place[w[1]] = "running"
       THEN /\ place' = [place EXCEPT ![w[1]] = "removed"]
            /\ parts' = [parts EXCEPT ![w[1]] = {}]
       ELSE UNCHANGED <<place, parts>>
  /\ UNCHANGED <<controller, damaged, outputs, result, verdict, input, lock, faults>>

\* ready.replace(running): one of the runners succeeds.
MutTake(w) ==   \* deliberately wrong: the directory may be in running already
  /\ Goto(w, "take", "queue")
  /\ place' = [place EXCEPT ![w[1]] = "running"]
  /\ UNCHANGED <<controller, parts, damaged, outputs, result, verdict, input, lock, faults>>

Take(w) ==
  /\ Ready(w[1])
  /\ Goto(w, "take", "queue")
  /\ place' = [place EXCEPT ![w[1]] = "running"]
  /\ UNCHANGED <<controller, parts, damaged, outputs, result, verdict, input, lock, faults>>

TakeRaises(w) ==
  /\ ~Ready(w[1])
  /\ Raises(w, "take")
  /\ UNCHANGED <<controller, store, verdict, input, lock, faults>>

Whole(j) == Needed(j) \subseteq parts[j]

\* With the flock, docker run: a missing workspace is created, empty.
StartContainer(w) ==
  /\ lock = None /\ lock' = w
  /\ Goto(w, "queue", "pytest")
  /\ input' = [input EXCEPT ![w] = IF Whole(w[1]) THEN "whole" ELSE "partial"]
  /\ place' = [place EXCEPT ![w[1]] = IF @ = "removed" THEN "running" ELSE @]
  /\ UNCHANGED <<controller, parts, damaged, outputs, result, verdict, faults>>

\* docker run cannot reach the daemon: exit code 125, which is a failed test.
DaemonFails(w) ==
  /\ lock = None /\ UNCHANGED lock /\ Fault("daemon")
  /\ Goto(w, "queue", "move")
  /\ verdict' = [verdict EXCEPT ![w] = "failed"]
  /\ UNCHANGED <<controller, store, input>>

\* What is left of the input when a phase ends.
StillWhole(w) ==
  input' = [input EXCEPT ![w] = IF Whole(w[1]) THEN @ ELSE "partial"]

\* Without a judge the flock is released.
EndContainer(w) ==
  /\ \E v \in {"passed", "failed", "timeout"} :
       /\ input[w] = "partial" => v # "passed"
       /\ verdict' = [verdict EXCEPT ![w] = v]
       /\ IF v = "passed" /\ w[1] \in Judged
            THEN Goto(w, "pytest", "judge") /\ UNCHANGED lock
            ELSE Goto(w, "pytest", "move") /\ lock' = None
  /\ StillWhole(w)
  /\ UNCHANGED <<controller, store, faults>>

\* judge_attempt is created below running, whether running is there or not.
EndJudge(w) ==
  /\ Goto(w, "judge", "move")
  /\ \E v \in {"passed", "failed", "uncertain", "infra_failed"} :
       verdict' = [verdict EXCEPT ![w] = v]
  /\ lock' = None
  /\ place' = [place EXCEPT ![w[1]] = IF @ = "removed" THEN "running" ELSE @]
  /\ StillWhole(w)
  /\ UNCHANGED <<controller, parts, damaged, outputs, result, faults>>

\* running.replace(completed)
Complete(w) ==
  /\ place[w[1]] = "running"
  /\ Goto(w, "move", "output")
  /\ place' = [place EXCEPT ![w[1]] = "completed"]
  /\ UNCHANGED <<controller, parts, damaged, outputs, result, verdict, input, lock, faults>>

CompleteRaises(w) ==
  /\ place[w[1]] # "running"
  /\ Raises(w, "move")
  /\ UNCHANGED <<controller, store, verdict, input, lock, faults>>

\* Deliberately wrong: result.json goes first.
MutWriteOutputs(w) ==
  /\ Goto(w, "output", "publish")
  /\ result' = [result EXCEPT ![w[1]] = verdict[w]]
  /\ UNCHANGED <<controller, place, parts, damaged, outputs, verdict, input, lock, faults>>

WriteOutputs(w) ==
  /\ Goto(w, "output", "publish")
  /\ outputs' = outputs \cup {w[1]}
  /\ UNCHANGED <<controller, place, parts, damaged, result, verdict, input, lock, faults>>

\* result.json appears whole, by rename.
Publish(w) ==
  /\ Goto(w, "publish", "answered")
  /\ result' = [result EXCEPT ![w[1]] = verdict[w]]
  /\ UNCHANGED <<controller, place, parts, damaged, outputs, verdict, input, lock, faults>>

\* Deliberately wrong: a lock that outlives its process.
MutUnlocked(w) == lock

\* The kernel drops the flock of a dead process.
Unlocked(w) == IF lock = w THEN None ELSE lock

Die(w) ==
  /\ at[w] \notin Over \cup {"idle"}
  /\ Goto(w, at[w], "dead") /\ Fault("crash")
  /\ lock' = Unlocked(w)
  /\ UNCHANGED <<controller, store, verdict, input>>

-----------------------------------------------------------------------------
ControllerStep(j) ==
  \/ \E p \in {"workspace", "manifest", "bundle"} : Upload(j, p)
  \/ Promote(j) \/ StartWorker(j) \/ CallVerify(j)
  \/ VerifyReturns(j) \/ CallTimesOut(j)
  \/ PollFinds(j) \/ PollTimesOut(j) \/ Fetch(j)

ControllerFails(j) ==
  \/ UploadFails(j) \/ PromoteReplyLost(j) \/ StartReplyLost(j) \/ FetchFails(j)
  \/ ControllerStops(j)

RunnerStep(w) ==
  \/ AnswerAgain(w) \/ NotReady(w) \/ Begin(w) \/ Admit(w) \/ Reject(w)
  \/ Clear(w) \/ Take(w) \/ TakeRaises(w)
  \/ StartContainer(w) \/ EndContainer(w) \/ EndJudge(w)
  \/ Complete(w) \/ CompleteRaises(w) \/ WriteOutputs(w) \/ Publish(w)

Next ==
  \/ \E j \in Jobs : ControllerStep(j) \/ ControllerFails(j) \/ Resume(j)
  \/ \E w \in Runners : Repeat(w) \/ RunnerStep(w) \/ DaemonFails(w) \/ Die(w)

Spec == Init /\ [][Next]_vars

\* The schedulers of both hosts run every process that is not stopped, and a
\* container and a judge end: both have a timeout.
FairSpec ==
  /\ Spec
  /\ \A j \in Jobs : WF_vars(ControllerStep(j))
  /\ \A w \in Runners : WF_vars(RunnerStep(w))

-----------------------------------------------------------------------------
\* The phase of a job is where the runner is that has taken it.
InQueue(j) == \E w \in Runners : w[1] = j /\ at[w] = "queue"
InHand(j) == \E w \in Runners : w[1] = j /\ at[w] \in {"pytest", "judge"}
Afterwards(j) == \E w \in Runners : w[1] = j /\ at[w] \in {"move", "output", "publish"}

Phase(j) ==
  CASE result[j] # None -> "answered"
    [] result[j] = None /\ place[j] \in {"nowhere", "incoming"} -> "unknown"
    [] result[j] = None /\ place[j] = "ready" -> "accepted"
    [] OTHER -> IF InQueue(j) THEN "claimed"
                ELSE IF InHand(j) THEN "executing"
                ELSE IF Afterwards(j) THEN "executed"
                ELSE "lost"

Service == INSTANCE JobService WITH
  Answers <- Verdicts \cup {"infra_failed"},
  phase <- [j \in Jobs |-> Phase(j)],
  busy <- IF lock = None THEN None ELSE lock[1],
  answer <- result

\* Whatever is repeated, lost or killed, verify executes a job at most once,
\* one job at a time, and its result appears after that and stays: "Completed
\* jobs are immutable" (runner.py:87-107, 159, 212).
ImplementsJobService == Service!Spec

-----------------------------------------------------------------------------
ControllerStates == {"upload", "start", "call", "wait", "poll", "fetch", "ended", "stopped"}
Places == {"nowhere", "incoming", "ready", "running", "completed", "removed"}
RunnerStates == {"idle", "check", "admit", "clear", "take", "queue", "pytest", "judge",
                 "move", "output", "publish"} \cup Over
Statuses == Verdicts \cup {"infra_failed"}

ControllerTypeOK ==
  /\ ctl \in [Jobs -> ControllerStates] /\ receipts \subseteq Jobs
  /\ outcome \in [Jobs -> Statuses \cup {"infra", None}]

StoreTypeOK ==
  /\ place \in [Jobs -> Places]
  /\ parts \in [Jobs -> SUBSET {"workspace", "manifest", "bundle"}]
  /\ damaged \subseteq Jobs /\ outputs \subseteq Jobs
  /\ result \in [Jobs -> Statuses \cup {None}]

RunnerTypeOK ==
  /\ at \in [Runners -> RunnerStates]
  /\ verdict \in [Runners -> Statuses \cup {None}]
  /\ input \in [Runners -> {"none", "whole", "partial"}]
  /\ lock \in Runners \cup {None}

\* Every variable keeps its type; in particular a controller that fetches
\* has something to fetch, and no runner publishes without a status.
TypeOK ==
  /\ ControllerTypeOK /\ StoreTypeOK /\ RunnerTypeOK
  /\ faults \in 0 .. MaxFaults
  /\ \A j \in Jobs : ctl[j] = "fetch" => result[j] # None
  /\ \A w \in Runners : at[w] \in {"output", "publish"} => verdict[w] # None

\* "Partial jobs are never executed": what the container and the judge of a
\* runner work on is the whole upload, from beginning to end
\* (runner.py:90-105, 113-121).
PartialNeverExecuted == \A w \in Runners : input[w] # "partial"

\* What the status of a runner rests on: pytest, and the judge, on the whole
\* upload; or a docker client that could not reach its daemon, which is the one
\* failure that the exit code turns into a failed test (runner.py:126).
Computed(w) ==
  \/ input[w] = "whole"
  \/ "daemon" \in FaultKinds /\ input[w] = "none" /\ verdict[w] = "failed"

\* SSH, rsync, image, protocol and integrity failures, lost replies and killed
\* processes never look like a verdict: one that reaches the controller was
\* computed on the workspace that was submitted.  A daemon that is away does
\* look like one, but only like "failed" (runner.py:96-126).
InfraIsNoVerdict ==
  \A j \in Jobs : outcome[j] \in Verdicts =>
    /\ j \notin damaged
    /\ \E w \in Runners : w[1] = j /\ verdict[w] = outcome[j] /\ Computed(w)

\* "Remote SSH, rsync, Docker daemon, image build, protocol, and integrity
\* failures are classified as infra_failed" (docs/SR_MULTIHOST_CLOUD.md:187): a
\* result that is a verdict comes from a container that ran (runner.py:126).
DaemonFailureIsInfra ==
  \A j \in Jobs : result[j] \in Verdicts => \E w \in Runners : w[1] = j /\ input[w] # "none"

\* A visible result.json means that everything it names is in place
\* (runner.py:159-167, 212).
ResultComplete == \A j \in Jobs : result[j] # None => place[j] = "completed" /\ j \in outputs

\* A receipt is a promise the controller's host may stop on: the host has the
\* whole job, and with async_start a worker was started for it or it has its
\* result (verifier.py:206-228, "remote_job_durably_accepted" and
\* "detached_worker_started_or_job_completed" in distributed_workflow.py:771).
ReceiptHonest ==
  \A j \in receipts :
    /\ place[j] \notin {"nowhere", "incoming"}
    /\ Mode[j] # "sync" => at[<<j, First>>] # "idle" \/ result[j] # None

\* A worker that waits for the flock gets its turn and answers, unless it is
\* killed itself: another one that dies in its container does not keep the
\* lock (runner.py:112-157).
QueuedAnswered ==
  \A w \in Runners : at[w] = "queue" ~> at[w] \in {"answered", "dead"}

\* A controller that has its receipt comes to a status or an infrastructure
\* failure, whatever happened to the job (verifier.py:257-271).
EveryJobClassified ==
  \A j \in Jobs : j \in receipts ~> outcome[j] # None \/ ctl[j] = "stopped"

\* "Retrieve completed/<job_id>/result.json, stdout.txt, and stderr.txt.
\* Verify/adapt the structured result" (docs/SR_MULTIHOST_CLOUD.md:163-164):
\* a controller that goes to fetch a result, and whose calls all succeed, ends
\* with its status.
VerdictDelivered ==
  [][\A j \in Jobs : ctl[j] = "fetch" /\ ctl'[j] = "ended" /\ UNCHANGED faults
                       => outcome'[j] = result[j]]_vars
=============================================================================
