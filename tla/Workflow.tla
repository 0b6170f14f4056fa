------------------------------ MODULE Workflow ------------------------------
(***************************************************************************)
(* The distributed workflow of distributed_workflow.py over one run root:  *)
(* the checkpoint store (workflow_state.json under the flock of            *)
(* .workflow.lock) and its three drivers.                                  *)
(*   manual      an operator starts stages, processes that may fail, be    *)
(*               killed, be started again and overlap;                     *)
(*   sequential  one process takes one sample after the other through      *)
(*               run_task and then records its transitions;                *)
(*   pipeline    one process submits all samples and polls; it leaves the  *)
(*               store alone.                                              *)
(* The verifier host is JobBoard, which JobService and so RemoteVerifier   *)
(* implement.                                                              *)
(*                                                                         *)
(* A process carries the rest of its program: names of states to move to   *)
(* and steps of its own.                                                   *)
(***************************************************************************)
EXTENDS Naturals, Sequences, FiniteSets

CONSTANTS
  Modes,      \* the modes a run root may be initialized for
  Samples,
  Lead,       \* sample_ids[0], the only one the manual stages work on
  Procs,      \* the processes that may run stages at the same time
  Driver,     \* the one that runs a sequential workflow
  JobIds,     \* bound: the job ids submit may draw
  MaxFaults,  \* bound: failing inferences and submissions, killed processes
  None

ASSUME WorkflowAssumption ==
  /\ Modes \subseteq {"manual", "sequential", "pipeline"}
  /\ Lead \in Samples /\ Driver \in Procs /\ MaxFaults \in Nat
  /\ None \notin JobIds \cup Procs \cup {"passed", "failed", "uncertain", "infra_failed"}

\* LEGAL_TRANSITIONS
Legal == [
  CREATED |-> {"HISTORY1_INFERENCE_READY"},
  HISTORY1_INFERENCE_READY |-> {"HISTORY1_INFERENCE_RUNNING"},
  HISTORY1_INFERENCE_RUNNING |-> {"HISTORY1_INFERENCE_COMPLETED", "INFRA_FAILED", "REJECTED"},
  HISTORY1_INFERENCE_COMPLETED |-> {"VERIFICATION1_BUNDLE_READY"},
  VERIFICATION1_BUNDLE_READY |-> {"VERIFICATION1_SUBMITTED"},
  VERIFICATION1_SUBMITTED |->
    {"VERIFICATION1_QUEUED", "VERIFICATION1_RUNNING", "VERIFICATION1_COMPLETED"},
  VERIFICATION1_QUEUED |->
    {"VERIFICATION1_RUNNING", "VERIFICATION1_COMPLETED", "VERIFICATION1_FAILED"},
  VERIFICATION1_RUNNING |-> {"VERIFICATION1_COMPLETED", "VERIFICATION1_FAILED"},
  VERIFICATION1_COMPLETED |-> {"HISTORY2_READY", "FINALIZING"},
  VERIFICATION1_FAILED |-> {"FINALIZING"},
  HISTORY2_READY |-> {"HISTORY2_INFERENCE_RUNNING"},
  HISTORY2_INFERENCE_RUNNING |-> {"HISTORY2_INFERENCE_COMPLETED", "INFRA_FAILED", "REJECTED"},
  HISTORY2_INFERENCE_COMPLETED |-> {"VERIFICATION2_BUNDLE_READY"},
  VERIFICATION2_BUNDLE_READY |-> {"VERIFICATION2_SUBMITTED"},
  VERIFICATION2_SUBMITTED |->
    {"VERIFICATION2_QUEUED", "VERIFICATION2_PYTEST_RUNNING", "VERIFICATION2_COMPLETED"},
  VERIFICATION2_QUEUED |->
    {"VERIFICATION2_PYTEST_RUNNING", "VERIFICATION2_COMPLETED", "VERIFICATION2_FAILED"},
  VERIFICATION2_PYTEST_RUNNING |->
    {"VERIFICATION2_JUDGE_RUNNING", "VERIFICATION2_COMPLETED", "VERIFICATION2_FAILED"},
  VERIFICATION2_JUDGE_RUNNING |-> {"VERIFICATION2_COMPLETED", "VERIFICATION2_FAILED"},
  VERIFICATION2_COMPLETED |-> {"FINALIZING"},
  VERIFICATION2_FAILED |-> {"FINALIZING"},
  FINALIZING |-> {"ACCEPTED", "REJECTED", "UNCERTAIN", "INFRA_FAILED"},
  ACCEPTED |-> {"HISTORY1_INFERENCE_READY"},
  REJECTED |-> {"HISTORY1_INFERENCE_READY"},
  UNCERTAIN |-> {"HISTORY1_INFERENCE_READY"},
  INFRA_FAILED |-> {"HISTORY1_INFERENCE_READY"}]

WorkflowStates == DOMAIN Legal
Terminals == {"ACCEPTED", "REJECTED", "UNCERTAIN", "INFRA_FAILED"}
Histories == {"history1", "history2"}
Verdicts == {"passed", "failed", "uncertain"}   \* "failed" is also a timeout

VARIABLES
  mode,
  state,      \* workflow_state.json: current state, state of each sample, job ids
  lock,       \* the process with the flock
  loaded,     \* process -> the state it loaded under the flock, None without
  rest,       \* process -> the rest of its program, << >> when it has none
  sample,     \* process -> the sample it works on
  ticket,     \* process -> the job id or the final status it holds
  receipt,    \* <<sample, history>> -> the job of submission_receipt.json
  checkpoint, \* the <<sample, history>> with checkpoints/after_<history>
  marker,     \* history -> the job of SAFE_TO_STOP_SERVER2_<history>.json
  pipe,       \* sample -> how far the pipeline is with it
  results,    \* sample -> the final status in the driver's results
  failed,     \* an exception or a kill ended a driver
  broken,     \* history, read by no action: the states in which a stage broke off or
              \* was killed midway, since the last transition (the one to QUEUED, with
              \* which a retrieve stage starts, apart)
  overlapped, \* two stages ran at the same time
  faults,
  known, answer   \* of the verifier host

host == <<known, answer>>
files == <<receipt, checkpoint, marker>>
notes == <<failed, broken, overlapped, faults>>
driver == <<pipe, results>>
proc == <<lock, loaded, rest, sample, ticket>>
vars == <<mode, state, proc, files, driver, notes, host>>

Board == INSTANCE JobBoard WITH
  Jobs <- JobIds, Answers <- Verdicts \cup {"infra_failed"}

\* WorkflowCheckpointStore.initialize
Init ==
  /\ mode \in Modes
  /\ state = [current |-> "CREATED", samples |-> [s \in Samples |-> "CREATED"],
              jobs |-> [h \in Histories |-> None]]
  /\ lock = None /\ loaded = [p \in Procs |-> None]
  /\ rest = [p \in Procs |-> << >>] /\ sample = [p \in Procs |-> Lead]
  /\ ticket = [p \in Procs |-> None]
  /\ receipt = [k \in Samples \X Histories |-> None]
  /\ checkpoint = {} /\ marker = [h \in Histories |-> None]
  /\ pipe = [s \in Samples |-> "todo"] /\ results = [s \in Samples |-> None]
  /\ failed = FALSE /\ broken = {} /\ overlapped = FALSE /\ faults = 0
  /\ Board!Init

Running(p) == rest[p] # << >>
Next1(p) == Head(rest[p])
Advance(p) == rest' = [rest EXCEPT ![p] = Tail(@)]
Ends(p) == rest' = [rest EXCEPT ![p] = << >>] /\ ticket' = [ticket EXCEPT ![p] = None]

-----------------------------------------------------------------------------
(* WorkflowCheckpointStore.transition                                      *)

\* Deliberately wrong: a transition to the state one is in is refused.
MutAllowed(old, new) == new \in Legal[old]

Allowed(old, new) == new \in Legal[old] \/ new = old

\* Deliberately wrong: the state is loaded before the flock is there.
MutLoad(p) ==
  /\ Running(p) /\ Next1(p) \in WorkflowStates
  /\ loaded[p] = None
  /\ Allowed(state.current, Next1(p))
  /\ lock' = p
  /\ loaded' = [loaded EXCEPT ![p] = state]
  /\ UNCHANGED <<mode, state, rest, sample, ticket, files, driver, notes, host>>

Load(p) ==
  /\ Running(p) /\ Next1(p) \in WorkflowStates
  /\ lock = None
  /\ Allowed(state.current, Next1(p))
  /\ lock' = p
  /\ loaded' = [loaded EXCEPT ![p] = state]
  /\ UNCHANGED <<mode, state, rest, sample, ticket, files, driver, notes, host>>

\* "illegal workflow transition": the exception ends the stage, or the driver.
Refuse(p) ==
  /\ Running(p) /\ Next1(p) \in WorkflowStates
  /\ lock = None
  /\ ~Allowed(state.current, Next1(p))
  /\ Ends(p)
  /\ failed' = (failed \/ mode = "sequential")
  /\ UNCHANGED <<mode, state, lock, loaded, sample, files, driver, broken, overlapped,
                 faults, host>>

\* The job ids come with the transitions to SUBMITTED of the manual stages.
JobsAfter(p) ==
  CASE mode = "manual" /\ Next1(p) = "VERIFICATION1_SUBMITTED" ->
         [loaded[p].jobs EXCEPT !["history1"] = ticket[p]]
    [] mode = "manual" /\ Next1(p) = "VERIFICATION2_SUBMITTED" ->
         [loaded[p].jobs EXCEPT !["history2"] = ticket[p]]
    [] OTHER -> loaded[p].jobs

Write(p) ==
  /\ loaded[p] # None
  /\ state' = [current |-> Next1(p),
               samples |-> [loaded[p].samples EXCEPT ![sample[p]] = Next1(p)],
               jobs |-> JobsAfter(p)]
  /\ lock' = None
  /\ loaded' = [loaded EXCEPT ![p] = None]
  /\ Advance(p)
  /\ broken' = IF Next1(p) \in {"VERIFICATION1_QUEUED", "VERIFICATION2_QUEUED"}
                  THEN broken ELSE {}
  /\ UNCHANGED <<mode, sample, ticket, files, driver, failed, overlapped, faults, host>>

-----------------------------------------------------------------------------
(* The manual stages, by the history they are about and what they do.      *)

Stages == Histories \X {"infer-submit", "retrieve"}

\* The state in which a stage returns at once what it did before.
AlreadyDone(stage, current) ==
  CASE stage = <<"history1", "infer-submit">> -> current = "VERIFICATION1_SUBMITTED"
    [] stage = <<"history1", "retrieve">> -> current = "HISTORY2_READY"
    [] stage = <<"history2", "infer-submit">> -> current = "VERIFICATION2_SUBMITTED"
    [] stage = <<"history2", "retrieve">> -> current \in Terminals

Program(stage) ==
  CASE stage = <<"history1", "infer-submit">> ->
         <<"HISTORY1_INFERENCE_READY", "HISTORY1_INFERENCE_RUNNING", "infer1", "submit1",
           "HISTORY1_INFERENCE_COMPLETED", "VERIFICATION1_BUNDLE_READY",
           "VERIFICATION1_SUBMITTED", "marker1">>
    [] stage = <<"history1", "retrieve">> ->
         <<"VERIFICATION1_QUEUED", "receipt1", "retrieve1">>
    [] stage = <<"history2", "infer-submit">> ->
         <<"HISTORY2_INFERENCE_RUNNING", "infer2", "submit2",
           "HISTORY2_INFERENCE_COMPLETED", "VERIFICATION2_BUNDLE_READY",
           "VERIFICATION2_SUBMITTED", "marker2">>
    [] stage = <<"history2", "retrieve">> ->
         <<"VERIFICATION2_QUEUED", "receipt2", "retrieve2">>

\* The history a step of a program is about.
About(step) ==
  IF step \in {"infer1", "submit1", "marker1", "receipt1", "retrieve1"}
    THEN "history1" ELSE "history2"

\* Deliberately wrong: an uncertain judge is as good as a pass.
MutTerminal(verdict) ==
  IF verdict = "failed" THEN "REJECTED" ELSE "ACCEPTED"

Terminal(verdict) ==
  CASE verdict = "passed" -> "ACCEPTED"
    [] verdict = "uncertain" -> "UNCERTAIN"
    [] OTHER -> "REJECTED"

\* What is left of a retrieve stage once it has its verdict.
AfterVerdict(h, verdict) ==
  CASE h = "history2" -> <<"VERIFICATION2_COMPLETED", "FINALIZING", Terminal(verdict)>>
    [] h = "history1" /\ verdict = "passed" ->
         <<"VERIFICATION1_COMPLETED", "HISTORY2_READY">>
    [] OTHER -> <<"VERIFICATION1_FAILED", "FINALIZING", "REJECTED">>

StartStage(p, stage) ==
  /\ mode = "manual" /\ ~Running(p)
  /\ ~AlreadyDone(stage, state.current)
  /\ rest' = [rest EXCEPT ![p] = Program(stage)]
  /\ ticket' = [ticket EXCEPT ![p] = None]
  /\ overlapped' = (overlapped \/ \E q \in Procs : Running(q))
  /\ UNCHANGED <<mode, state, lock, loaded, sample, files, driver, failed, broken,
                 faults, host>>

\* History 2 starts from the checkpoint of history 1.
MayInfer(p) == Next1(p) = "infer2" => <<sample[p], "history1">> \in checkpoint

\* _run_history_and_submit up to the checkpoint it leaves.
Infer(p) ==
  /\ Running(p) /\ Next1(p) \in {"infer1", "infer2"} /\ MayInfer(p)
  /\ checkpoint' = checkpoint \cup {<<sample[p], About(Next1(p))>>}
  /\ Advance(p)
  /\ UNCHANGED <<mode, state, lock, loaded, sample, ticket, receipt, marker, driver,
                 notes, host>>

\* Deliberately wrong: an earlier receipt is kept.
MutReceiptAfter(k, j) == IF receipt[k] = None THEN [receipt EXCEPT ![k] = j] ELSE receipt

ReceiptAfter(k, j) == [receipt EXCEPT ![k] = j]

\* submit: a fresh job that the host has accepted, and its receipt.
Submit(p) ==
  /\ Running(p) /\ Next1(p) \in {"submit1", "submit2"}
  /\ \E j \in JobIds :
       /\ Board!Accept(j)
       /\ ticket' = [ticket EXCEPT ![p] = j]
       /\ receipt' = ReceiptAfter(<<sample[p], About(Next1(p))>>, j)
  /\ Advance(p)
  /\ UNCHANGED <<mode, state, lock, loaded, sample, checkpoint, marker, driver, notes>>

\* In the middle of a stage: it has history 1 to infer or to submit, a marker to
\* write or the present state to leave, and that is not its first transition.
Midway(p) ==
  Next1(p) \in {"infer1", "submit1", "marker1", "marker2"} \cup
               (Legal[state.current] \ {Head(Program(stage)) : stage \in Stages})

BreaksMidway(p) ==
  broken' = IF Midway(p) THEN broken \cup {state.current} ELSE broken

\* The inference or the submission raises, the latter with or without the job.
BreaksOff(p) ==
  /\ Running(p) /\ Next1(p) \in {"infer1", "infer2", "submit1", "submit2"}
  /\ IF MayInfer(p) THEN faults < MaxFaults /\ faults' = faults + 1 ELSE UNCHANGED faults
  /\ \/ UNCHANGED host
     \/ Next1(p) \in {"submit1", "submit2"} /\ \E j \in JobIds : Board!Accept(j)
  /\ BreaksMidway(p)
  /\ Ends(p)
  /\ UNCHANGED <<mode, state, lock, loaded, sample, files, driver, failed,
                 overlapped>>

\* _safe_stop_marker
WriteMarker(p) ==
  /\ Running(p) /\ Next1(p) \in {"marker1", "marker2"}
  /\ marker' = [marker EXCEPT ![About(Next1(p))] = ticket[p]]
  /\ Advance(p)
  /\ UNCHANGED <<mode, state, lock, loaded, sample, ticket, receipt, checkpoint,
                 driver, notes, host>>

\* _retrieve_stage: the receipt names the job; a missing one raises.
ReadReceipt(p) ==
  /\ Running(p) /\ Next1(p) \in {"receipt1", "receipt2"}
  /\ LET j == receipt[<<sample[p], About(Next1(p))>>]
     IN  IF j = None THEN Ends(p)
                     ELSE Advance(p) /\ ticket' = [ticket EXCEPT ![p] = j]
  /\ UNCHANGED <<mode, state, lock, loaded, sample, files, driver, notes, host>>

\* retrieve polls result-status, which does not show an infra_failed result.
Retrieve(p) ==
  /\ Running(p) /\ Next1(p) \in {"retrieve1", "retrieve2"}
  /\ answer[ticket[p]] \in Verdicts
  /\ rest' = [rest EXCEPT ![p] = AfterVerdict(About(Next1(p)), answer[ticket[p]])]
  /\ UNCHANGED <<mode, state, lock, loaded, sample, ticket, files, driver, notes, host>>

\* The deadline passes, or the transport fails: InfraError.
RetrieveFails(p) ==
  /\ Running(p) /\ Next1(p) \in {"retrieve1", "retrieve2"}
  /\ Ends(p)
  /\ UNCHANGED <<mode, state, lock, loaded, sample, files, driver, notes, host>>

\* The kernel drops the flock of a killed process; os.replace has happened or not.
Kill(p) ==
  /\ Running(p) /\ faults < MaxFaults
  /\ faults' = faults + 1
  /\ failed' = (failed \/ mode = "sequential")
  /\ BreaksMidway(p)
  /\ lock' = IF lock = p THEN None ELSE lock
  /\ loaded' = [loaded EXCEPT ![p] = None]
  /\ Ends(p)
  /\ UNCHANGED <<mode, state, sample, files, driver, overlapped, host>>

-----------------------------------------------------------------------------
(* The sequential mode.                                                    *)

StartSample(s) ==
  /\ mode = "sequential" /\ ~Running(Driver) /\ ~failed
  /\ results[s] = None
  /\ sample' = [sample EXCEPT ![Driver] = s]
  /\ rest' = [rest EXCEPT ![Driver] =
       <<"HISTORY1_INFERENCE_READY", "HISTORY1_INFERENCE_RUNNING", "run_task">>]
  /\ UNCHANGED <<mode, state, lock, loaded, ticket, files, driver, notes, host>>

\* run_task turns every exception into failed_infra; it may have the remote
\* result of history 2 by then, without it the status is never an accepting one.
Outcomes ==
  {[verified2 |-> TRUE, status |-> t] : t \in Terminals}
    \cup {[verified2 |-> FALSE, status |-> t] : t \in {"REJECTED", "INFRA_FAILED"}}

\* _record_completed_sample_transitions
Recorded(o) ==
  <<"HISTORY1_INFERENCE_COMPLETED", "VERIFICATION1_BUNDLE_READY", "VERIFICATION1_SUBMITTED">>
  \o (IF o.verified2
        THEN <<"VERIFICATION1_COMPLETED", "HISTORY2_READY", "HISTORY2_INFERENCE_RUNNING",
               "HISTORY2_INFERENCE_COMPLETED", "VERIFICATION2_BUNDLE_READY",
               "VERIFICATION2_SUBMITTED", "VERIFICATION2_COMPLETED">>
        ELSE <<"VERIFICATION1_FAILED">>)
  \o <<"FINALIZING", o.status, "append">>

RunTask(o) ==
  /\ Running(Driver) /\ Next1(Driver) = "run_task"
  /\ rest' = [rest EXCEPT ![Driver] = Recorded(o)]
  /\ ticket' = [ticket EXCEPT ![Driver] = o.status]
  /\ UNCHANGED <<mode, state, lock, loaded, sample, files, driver, notes, host>>

\* results.append(summary)
AppendSummary ==
  /\ Running(Driver) /\ Next1(Driver) = "append"
  /\ results' = [results EXCEPT ![sample[Driver]] = ticket[Driver]]
  /\ Advance(Driver)
  /\ UNCHANGED <<mode, state, lock, loaded, sample, ticket, files, pipe, notes, host>>

-----------------------------------------------------------------------------
(* The pipeline mode.                                                      *)

pipeFrame == <<mode, state, proc, marker, broken, overlapped>>

Pipelining == mode = "pipeline" /\ ~failed

\* Inference and asynchronous submission of one history of a sample.
PipeSubmits(s, h) ==
  /\ checkpoint' = checkpoint \cup {<<s, h>>}
  /\ \E j \in JobIds : Board!Accept(j) /\ receipt' = ReceiptAfter(<<s, h>>, j)

PipeStart(s) ==
  /\ Pipelining /\ pipe[s] = "todo"
  /\ PipeSubmits(s, "history1")
  /\ pipe' = [pipe EXCEPT ![s] = "verify1"]
  /\ UNCHANGED <<pipeFrame, results, failed, faults>>

\* Deliberately wrong: history 2 starts whatever the first verdict was.
MutPipeRejects(verdict) == verdict = "uncertain"

PipeRejects(verdict) == verdict # "passed"

\* The first loop: results of history 1 in any order, once all are submitted.
PipeRetrieve1(s) ==
  /\ Pipelining /\ pipe[s] = "verify1" /\ \A t \in Samples : pipe[t] # "todo"
  /\ LET verdict == answer[receipt[<<s, "history1">>]]
     IN  /\ verdict \in Verdicts
         /\ IF PipeRejects(verdict)
              THEN /\ pipe' = [pipe EXCEPT ![s] = "done"]
                   /\ results' = [results EXCEPT ![s] = "REJECTED"]
                   /\ UNCHANGED <<receipt, checkpoint, host>>
              ELSE /\ PipeSubmits(s, "history2")
                   /\ pipe' = [pipe EXCEPT ![s] = "verify2"]
                   /\ UNCHANGED results
  /\ UNCHANGED <<pipeFrame, failed, faults>>

\* The second loop starts when the first has gone over all samples.
PipeRetrieve2(s) ==
  /\ Pipelining /\ pipe[s] = "verify2"
  /\ \A t \in Samples : pipe[t] \in {"verify2", "done"}
  /\ LET verdict == answer[receipt[<<s, "history2">>]]
     IN  /\ verdict \in Verdicts
         /\ results' = [results EXCEPT ![s] = Terminal(verdict)]
  /\ pipe' = [pipe EXCEPT ![s] = "done"]
  /\ UNCHANGED <<pipeFrame, receipt, checkpoint, failed, faults, host>>

\* Any InfraError leaves both loops.
PipeBreaksOff ==
  /\ Pipelining /\ faults < MaxFaults
  /\ \E s \in Samples : pipe[s] # "done"
  /\ faults' = faults + 1 /\ failed' = TRUE
  /\ UNCHANGED <<pipeFrame, receipt, checkpoint, driver, host>>

-----------------------------------------------------------------------------
\* The verifier host answers; history 1 has no judge that could be uncertain.
HostAnswers ==
  /\ \E j \in JobIds, a \in Verdicts \cup {"infra_failed"} : Board!Answer(j, a)
  /\ \A s \in Samples : LET j == receipt[<<s, "history1">>]
                        IN  j # None => answer'[j] # "uncertain"
  /\ UNCHANGED <<mode, state, proc, files, driver, notes>>

StageStep(p) ==
  \/ Load(p) \/ Refuse(p) \/ Write(p)
  \/ Infer(p) \/ Submit(p) \/ BreaksOff(p) \/ WriteMarker(p)
  \/ ReadReceipt(p) \/ Retrieve(p) \/ RetrieveFails(p) \/ Kill(p)

Next ==
  \/ \E p \in Procs : StageStep(p) \/ \E stage \in Stages : StartStage(p, stage)
  \/ \E s \in Samples : StartSample(s) \/ PipeStart(s) \/ PipeRetrieve1(s) \/ PipeRetrieve2(s)
  \/ \E o \in Outcomes : RunTask(o)
  \/ AppendSummary \/ PipeBreaksOff \/ HostAnswers

Spec == Init /\ [][Next]_vars

-----------------------------------------------------------------------------
Steps == WorkflowStates \cup
  {"infer1", "infer2", "submit1", "submit2", "marker1", "marker2",
   "receipt1", "receipt2", "retrieve1", "retrieve2", "run_task", "append"}

StateRecord ==
  [current : WorkflowStates, samples : [Samples -> WorkflowStates],
   jobs : [Histories -> JobIds \cup {None}]]

\* A state that was loaded is not the mark of one that was not.
ASSUME RecordAssumption == None \notin StateRecord

StoreTypeOK ==
  /\ state \in StateRecord
  /\ lock \in Procs \cup {None}
  /\ loaded \in [Procs -> StateRecord \cup {None}]

ProcTypeOK ==
  /\ rest \in [Procs -> Seq(Steps)] /\ sample \in [Procs -> Samples]
  /\ ticket \in [Procs -> JobIds \cup Terminals \cup {None}]
  /\ faults \in 0 .. MaxFaults
  /\ failed \in BOOLEAN /\ overlapped \in BOOLEAN
  /\ broken \subseteq WorkflowStates

FilesTypeOK ==
  /\ mode \in Modes
  /\ receipt \in [Samples \X Histories -> JobIds \cup {None}]
  /\ checkpoint \subseteq Samples \X Histories
  /\ marker \in [Histories -> JobIds \cup {None}]
  /\ pipe \in [Samples -> {"todo", "verify1", "verify2", "done"}]
  /\ results \in [Samples -> Terminals \cup {None}]

\* Every variable keeps its type; whoever loaded the state has the flock.
TypeOK ==
  /\ StoreTypeOK /\ ProcTypeOK /\ FilesTypeOK
  /\ \A p \in Procs : loaded[p] # None <=> lock = p

\* Whatever stages overlap, fail or are killed, the persisted state only ever
\* moves along LEGAL_TRANSITIONS: the check and the write are made on the same
\* version of workflow_state.json (distributed_workflow.py:139-161).
StateMovesLegally ==
  [][state'.current # state.current => state'.current \in Legal[state.current]]_vars

\* What the host answered to the job a receipt names.
AnswerTo(s, h) == IF receipt[<<s, h>>] = None THEN None ELSE answer[receipt[<<s, h>>]]

Earned(status, s) ==
  LET first == AnswerTo(s, "history1")
      second == AnswerTo(s, "history2")
  IN  CASE status = "ACCEPTED" -> first = "passed" /\ second = "passed"
        [] status = "UNCERTAIN" -> first = "passed" /\ second = "uncertain"
        [] status = "REJECTED" -> first = "failed" \/ (first = "passed" /\ second = "failed")
        [] OTHER -> FALSE

\* A terminal status is the one the host's answers to the two jobs of the
\* sample give, also after retries, kills and a second round over the same run
\* root, as long as no two stages overlap (distributed_workflow.py:257-264,
\* 288-293, 354-416).
VerdictsEarned ==
  /\ mode = "manual" /\ ~overlapped /\ state.current \in Terminals
       => Earned(state.current, Lead)
  /\ mode = "pipeline" =>
       \A s \in Samples : results[s] # None => Earned(results[s], s)

SecondHalf ==
  {"HISTORY2_READY", "HISTORY2_INFERENCE_RUNNING", "HISTORY2_INFERENCE_COMPLETED",
   "VERIFICATION2_BUNDLE_READY", "VERIFICATION2_SUBMITTED", "VERIFICATION2_QUEUED",
   "VERIFICATION2_COMPLETED"}

\* The GPU is not spent on history 2 of a sample whose history 1 did not pass
\* its verification (distributed_workflow.py:258-260, 372-375).
SecondHistoryEarned ==
  /\ mode = "manual" /\ ~overlapped /\ state.current \in SecondHalf
       => AnswerTo(Lead, "history1") = "passed"
  /\ \A s \in Samples : pipe[s] = "verify2" => AnswerTo(s, "history1") = "passed"

Waiting(h) ==
  state.current \in IF h = "history1"
    THEN {"VERIFICATION1_SUBMITTED", "VERIFICATION1_QUEUED"}
    ELSE {"VERIFICATION2_SUBMITTED", "VERIFICATION2_QUEUED"}

Quiet == \A p \in Procs : ~Running(p)

\* A stage was killed after its last transition and before it wrote the marker
\* (distributed_workflow.py:250-251, 281-282). No later call writes it: the stage
\* then returns at once (lines 234-236, 269-271).
Unmarked(h) ==
  (IF h = "history1" THEN "VERIFICATION1_SUBMITTED" ELSE "VERIFICATION2_SUBMITTED")
    \in broken

\* The point at which the inference host may be stopped can be resumed from:
\* state and receipt name the same job, which the host has accepted, the
\* checkpoint is there, and the marker names that job as well, unless a stage
\* was killed just before it wrote it (distributed_workflow.py:239-252,
\* 270-283, 765-796).
ResumePointSound ==
  mode = "manual" /\ ~overlapped =>
    \A h \in Histories : Waiting(h) =>
      /\ state.jobs[h] # None /\ state.jobs[h] = receipt[<<Lead, h>>]
      /\ state.jobs[h] \in known
      /\ <<Lead, h>> \in checkpoint
      /\ Quiet /\ ~Unmarked(h) => marker[h] = state.jobs[h]

Startable(stage) ==
  /\ ~AlreadyDone(stage, state.current)
  /\ Allowed(state.current, Head(Program(stage)))

\* Whatever stages overlap, are refused, time out, fail or are killed: when
\* none is running some stage is legal, unless one was broken off in the very
\* state the workflow is in. That strands it for good, since no stage starts
\* from HISTORY1_INFERENCE_RUNNING, from *_INFERENCE_COMPLETED, *_BUNDLE_READY,
\* VERIFICATION1_COMPLETED, VERIFICATION1_FAILED, VERIFICATION2_COMPLETED or
\* FINALIZING: a failing inference or submission of history 1, and a kill
\* between two transitions, of a retrieve stage too. A stage killed or failing
\* anywhere else (waiting for a result, inferring or submitting history 2,
\* about to write its marker) leaves a workflow that goes on
\* (distributed_workflow.py:226-294).
NeverStranded ==
  mode = "manual" /\ Quiet =>
    (\E stage \in Stages : Startable(stage)) \/ state.current \in broken

-----------------------------------------------------------------------------
(* What the code asserts and its own driver does not keep.                 *)

\* "illegal workflow transition" (distributed_workflow.py:146): the sequential
\* driver, the only process on its run root, never asks for one.
SequentialNeverRefused == [][mode = "sequential" => ~Refuse(Driver)]_vars
=============================================================================
