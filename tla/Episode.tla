------------------------------ MODULE Episode ------------------------------
(***************************************************************************)
(* One attempt at one sample: SingleSampleRunner.run_task of single.py     *)
(* ("mining") and GLMSampleEvaluator.evaluate of glm_eval.py               *)
(* ("evaluation"), with the rollouts of runtime.py, HiddenVerifier.verify  *)
(* of verifier.py and CodexJudge of judge.py.                              *)
(*                                                                         *)
(* Two rollouts share one workspace.  The files after each are copied to a *)
(* snapshot, tests are run on the snapshot, and a judge looks at both.  An *)
(* exception anywhere ends in one handler, which saves failed_infra and    *)
(* puts placeholders where artifacts are missing.                          *)
(***************************************************************************)
EXTENDS Sandbox

CONSTANTS
  Kinds,            \* of {"mining", "evaluation"}
  Verifiers,        \* the verifier backends to consider
  Inline,           \* whether a remote result carries its output: retrieve
                    \* cannot read the files the runner of this commit names
  JudgeEnabled,     \* judge.enabled, which only the mining looks at
  Indexed,          \* write_index of the mining
  HiddenTests,      \* the files below tests/, which the model never gets
  MaxTurns,         \* history1_max_turns and history2_max_turns
  MaxParseFailures, \* max_parse_failures_per_history
  MaxCalls          \* bound: tool calls in a response

ASSUME EpisodeAssumption ==
  /\ Kinds \subseteq {"mining", "evaluation"} /\ Verifiers \subseteq {"local", "remote"}
  /\ Inline \in BOOLEAN /\ JudgeEnabled \in BOOLEAN /\ Indexed \in BOOLEAN
  /\ HiddenTests \subseteq Files
  /\ MaxTurns \in Nat \ {0} /\ MaxParseFailures \in Nat /\ MaxCalls \in Nat
  /\ None \notin [Files -> Contents \cup {None}]
  /\ None \notin {"completed", "parse_failed", "max_turns", "messages", "skipped",
                  "placeholder", "passed", "failed", "timeout", "uncertain", "pass",
                  "fail", "accepted", "rejected", "succeeded", "failed_infra"}

VARIABLES
  kind, verifier, \* what runs, and the verifier_backend of its config
  pc,        \* where run_task or evaluate is
  after,     \* where it goes when the with block has been left
  h,         \* the history it works on
  turn, parseFailures,
  calls,     \* tool calls of the response that are left
  completes, \* whether an attempt_completion follows them
  rollout,   \* history -> how its rollout ended, None before
  prepared,  \* history -> what messages_<history>.json is
  snapshots, \* history, or 0 for the initial one -> the files in it, or None
  checklist, \* history -> final_status in its checklist.json
  remoteJudge, \* the decision of the judge in the remote result
  judgeFile, \* the decision in judge_decision.json
  report,    \* evaluation: history -> its status in the result
  stage,     \* evaluation: current_stage
  status,    \* final_status
  handled,   \* the exception handler has run
  saved,     \* the final_status in the summary on disk
  row,       \* the final_status in the index
  published  \* accepted.jsonl has the sample

who == <<kind, verifier>>
rolling == <<turn, parseFailures, calls, completes>>
artifacts == <<rollout, prepared, snapshots, checklist, judgeFile>>
ends == <<saved, row, published>>
vars == <<box, who, pc, after, h, rolling, artifacts, remoteJudge, report, stage,
          status, handled, ends>>

Histories == {1, 2}
Completed(n) == rollout[n] = "completed"
Passed(n) == checklist[n] = "passed"

Init ==
  /\ SandboxInit
  /\ kind \in Kinds /\ verifier \in Verifiers
  /\ pc = "setup" /\ after = "done" /\ h = 1
  /\ turn = 1 /\ parseFailures = 0 /\ calls = 0 /\ completes = FALSE
  /\ rollout = [n \in Histories |-> None] /\ prepared = [n \in Histories |-> None]
  /\ snapshots = [n \in {0} \cup Histories |-> None]
  /\ checklist = [n \in Histories |-> None] /\ judgeFile = None /\ remoteJudge = None
  /\ report = [n \in Histories |-> "not_started"] /\ stage = "prepare"
  /\ status = "failed_infra" /\ handled = FALSE
  /\ saved = None /\ row = None /\ published = FALSE

-----------------------------------------------------------------------------
\* An exception leaves the with block, if it is in one, and reaches the handler.
InBlock == started /\ ~handled

Raise ==
  /\ pc' = IF InBlock THEN "close" ELSE "handle"
  /\ after' = "handle"

\* Deliberately wrong: a return inside the with block goes straight out.
MutReturn == pc' = "done" /\ UNCHANGED after

\* A return leaves the with block too.
Return ==
  /\ pc' = IF InBlock THEN "close" ELSE "done"
  /\ after' = "done"

EnterStage(s) == stage' = IF kind = "evaluation" THEN s ELSE stage

\* The evaluation reports the status of a history, the mining does not.
Reports(n, s) ==
  report' = IF kind = "evaluation" THEN [report EXCEPT ![n] = s] ELSE report

-----------------------------------------------------------------------------
\* What comes before the with block, in this order.  Nothing of it but the
\* workspace and the prompt is looked at later.
setUpFrame == <<who, h, rolling, rollout, checklist, judgeFile, remoteJudge, report,
                stage, status, handled, ends>>

\* An image is needed where a container of this host runs.
NeedsImage == "local" \in {backend, verifier}

\* The mining asks the verifier host, the evaluation does not.
NeedsPreflight == kind = "mining" /\ verifier = "remote"

\* _write_static_artifacts, behind validate_for_evaluation_start.
WriteStaticArtifacts ==
  /\ pc = "setup"
  /\ pc' = IF NeedsImage THEN "image" ELSE IF NeedsPreflight THEN "preflight"
           ELSE "workspace"
  /\ UNCHANGED <<box, after, prepared, snapshots, setUpFrame>>

\* ensure_image: the image is there or is built.
EnsureImage ==
  /\ pc = "image"
  /\ pc' = IF NeedsPreflight THEN "preflight" ELSE "workspace"
  /\ UNCHANGED <<box, after, prepared, snapshots, setUpFrame>>

\* A runner that has passed it does not ask again.
Preflight ==
  /\ pc = "preflight" /\ pc' = "workspace"
  /\ UNCHANGED <<box, after, prepared, snapshots, setUpFrame>>

\* The initial files, without rules or tests directory, whatever the config says.
InitialFiles == [f \in Files |-> IF f \in HiddenTests THEN None ELSE Stub[f]]

\* _create_initial_workspace and its snapshot.
CreateWorkspace ==
  /\ pc = "workspace" /\ pc' = "prompt"
  /\ Create(InitialFiles)
  /\ snapshots' = [snapshots EXCEPT ![0] = InitialFiles]
  /\ UNCHANGED <<after, prepared, setUpFrame>>

PrepareHistory1 ==
  /\ pc = "prompt" /\ pc' = "open"
  /\ prepared' = [prepared EXCEPT ![1] = "messages"]
  /\ UNCHANGED <<box, after, snapshots, setUpFrame>>

\* copytree may fail behind some of the files.
Partly(n, files) ==
  \E some \in SUBSET Files :
    snapshots' = [snapshots EXCEPT
                    ![n] = [f \in Files |-> IF f \in some THEN files[f] ELSE None]]

\* An invalid config, no docker or an image that does not build, a host that is
\* not ready, a full disk, a template that does not render after the messages
\* were written, or an engine that does not start.
SetUpFails ==
  /\ pc \in {"setup", "image", "preflight", "workspace", "prompt", "open"}
  /\ Fault /\ Raise
  /\ prepared' \in {prepared} \cup
       (IF pc = "prompt" THEN {[prepared EXCEPT ![1] = "messages"]} ELSE {})
  /\ \/ UNCHANGED snapshots
     \/ pc = "workspace" /\ Partly(0, InitialFiles)
  /\ UNCHANGED <<lifeFrame, container, started, remote, setUpFrame>>

Open ==
  /\ pc = "open" /\ Start /\ pc' = "generate"
  /\ EnterStage("history1_rollout")
  /\ UNCHANGED <<who, after, h, rolling, artifacts, remoteJudge, report, status,
                 handled, ends>>

OpenFails ==
  /\ pc = "open" /\ (HostNotReady \/ StartFails) /\ Raise
  /\ UNCHANGED <<who, h, rolling, artifacts, remoteJudge, report, stage, status,
                 handled, ends>>

-----------------------------------------------------------------------------
\* run_history.
rollFrame == <<who, after, h, prepared, snapshots, checklist, judgeFile, remoteJudge,
               report, stage, status, handled, ends>>

EndRollout(how) ==
  /\ rollout' = [rollout EXCEPT ![h] = how]
  /\ pc' = "snapshot"
  /\ UNCHANGED turn

MutNextTurn ==   \* deliberately wrong: the turn is not counted
  pc' = "generate" /\ UNCHANGED <<turn, rollout>>

MutLastTurn ==   \* deliberately wrong: one turn too many
  IF turn > MaxTurns THEN EndRollout("max_turns")
  ELSE turn' = turn + 1 /\ pc' = "generate" /\ UNCHANGED rollout

NextTurn ==
  IF turn = MaxTurns THEN EndRollout("max_turns")
  ELSE turn' = turn + 1 /\ pc' = "generate" /\ UNCHANGED rollout

\* The response has tool calls, executed in the order of the text.  Those
\* behind an attempt_completion are dropped.
Respond(n, c) ==
  /\ pc = "generate" /\ pc' = "tools"
  /\ n > 0 \/ c
  /\ calls' = n /\ completes' = c
  /\ UNCHANGED <<box, turn, parseFailures, rollout, rollFrame>>

RespondMalformed ==
  /\ pc = "generate"
  /\ parseFailures' = parseFailures + 1
  /\ IF parseFailures' > MaxParseFailures THEN EndRollout("parse_failed") ELSE NextTurn
  /\ UNCHANGED <<box, calls, completes, rollFrame>>

\* Rendering or generating raises: an InfraError.
GenerateFails ==
  /\ pc = "generate" /\ Fault /\ Raise
  /\ UNCHANGED <<lifeFrame, container, started, remote, who, h, rolling, artifacts,
                 remoteJudge, report, stage, status, handled, ends>>

CallTool ==
  /\ pc = "tools" /\ calls > 0 /\ StartTool
  /\ calls' = calls - 1
  /\ UNCHANGED <<pc, turn, parseFailures, completes, rollout, rollFrame>>

CallProceeds ==
  /\ pc = "tools" /\ ToolStep
  /\ UNCHANGED <<pc, rolling, rollout, rollFrame>>

ResponseDone ==
  /\ pc = "tools" /\ calls = 0 /\ step = "idle"
  /\ IF completes THEN EndRollout("completed") ELSE NextTurn
  /\ UNCHANGED <<box, parseFailures, calls, completes, rollFrame>>

\* A command that timed out runs on, until its container ends.
CommandLingers ==
  /\ container /\ \E c \in pending : Linger(c)
  /\ UNCHANGED <<pc, rolling, rollout, rollFrame>>

-----------------------------------------------------------------------------
\* The rollout summary and the snapshot; the second one leaves the with block.
MutTakeSnapshot ==   \* deliberately wrong: a failed first history goes on
  /\ pc = "snapshot"
  /\ snapshots' = [snapshots EXCEPT ![h] = mirror]
  /\ IF h = 1 THEN pc' = "verify" /\ EnterStage("history1_verification") /\ UNCHANGED after
     ELSE pc' = "close" /\ after' = "verify" /\ UNCHANGED stage
  /\ UNCHANGED <<box, who, h, rolling, rollout, prepared, checklist, judgeFile,
                 remoteJudge, report, status, handled, ends>>

TakeSnapshot ==
  /\ pc = "snapshot"
  /\ snapshots' = [snapshots EXCEPT ![h] = mirror]
  /\ IF h = 2 THEN pc' = "close" /\ UNCHANGED stage
     ELSE IF Completed(1) THEN pc' = "verify" /\ EnterStage("history1_verification")
     ELSE pc' = "abandon" /\ UNCHANGED stage
  /\ after' = IF h = 2 THEN IF Completed(2) THEN "verify" ELSE "abandon" ELSE after
  /\ UNCHANGED <<box, who, h, rolling, rollout, prepared, checklist, judgeFile,
                 remoteJudge, report, status, handled, ends>>

SnapshotFails ==
  /\ pc = "snapshot" /\ Fault /\ Raise
  /\ UNCHANGED snapshots \/ Partly(h, mirror)
  /\ UNCHANGED <<lifeFrame, container, started, remote, who, h, rolling, rollout,
                 prepared, checklist, judgeFile, remoteJudge, report, stage, status,
                 handled, ends>>

Close ==
  /\ pc = "close"
  /\ \/ /\ (Stop \/ StopLost) /\ pc' = after
        /\ EnterStage(IF after = "verify" THEN "history2_verification" ELSE stage)
     \/ StopRaises /\ pc' = "handle" /\ UNCHANGED stage
  /\ UNCHANGED <<who, after, h, rolling, artifacts, remoteJudge, report, status,
                 handled, ends>>

\* The statuses a verification may come to, with the decision of its judge:
\* the remote host judges history 2 when its tests pass.
LocalOutcomes == {"passed", "failed"} \X {None}

Outcomes ==
  IF verifier = "local" THEN LocalOutcomes
  ELSE IF h = 1 THEN {"passed", "failed", "timeout"} \X {None}
  ELSE {<<"passed", "pass">>, <<"failed", "fail">>, <<"uncertain", "uncertain">>,
        <<"failed", None>>, <<"timeout", None>>}

\* verify works on a copy of the snapshot.  One that has a tests directory is
\* taken for a leak of the hidden tests.
Leaked == \E f \in HiddenTests : snapshots[h][f] # None
Verifiable == ~Leaked /\ (verifier = "local" \/ Inline)

MutVerify(o) ==   \* deliberately wrong: history 2 starts whatever the tests say
  /\ pc = "verify" /\ Verifiable
  /\ checklist' = [checklist EXCEPT ![h] = o[1]] /\ remoteJudge' = o[2]
  /\ Reports(h, IF o[1] = "passed" THEN "verification_passed" ELSE "verification_failed")
  /\ pc' = IF h = 1 THEN "prepare" ELSE "judge"
  /\ IF h = 1 THEN EnterStage("history2_prepare") ELSE UNCHANGED stage
  /\ UNCHANGED <<box, who, after, h, rolling, rollout, prepared, snapshots, judgeFile,
                 status, handled, ends>>

Verify(o) ==
  /\ pc = "verify" /\ Verifiable
  /\ checklist' = [checklist EXCEPT ![h] = o[1]] /\ remoteJudge' = o[2]
  /\ Reports(h, IF o[1] = "passed" THEN "verification_passed" ELSE "verification_failed")
  /\ IF h = 2 THEN pc' = "judge" /\ UNCHANGED stage
     ELSE IF o[1] = "passed" THEN pc' = "prepare" /\ EnterStage("history2_prepare")
     ELSE pc' = "abandon" /\ UNCHANGED stage
  /\ UNCHANGED <<box, who, after, h, rolling, rollout, prepared, snapshots, judgeFile,
                 status, handled, ends>>

\* The host or the transport fails, or a write behind the checklist's.
VerifyFails ==
  /\ pc = "verify" /\ Raise
  /\ \/ ~Verifiable /\ UNCHANGED <<faults, checklist>>
     \/ /\ Verifiable /\ Fault
        /\ \/ UNCHANGED checklist
           \/ \E o \in Outcomes : checklist' = [checklist EXCEPT ![h] = o[1]]
  /\ UNCHANGED <<lifeFrame, container, started, remote, who, h, rolling, rollout, prepared,
                 snapshots, judgeFile, remoteJudge, report, stage, status, handled, ends>>

PrepareHistory2 ==
  /\ pc = "prepare" /\ pc' = "generate"
  /\ prepared' = [prepared EXCEPT ![2] = "messages"]
  /\ h' = 2 /\ turn' = 1 /\ parseFailures' = 0 /\ calls' = 0 /\ completes' = FALSE
  /\ EnterStage("history2_rollout")
  /\ UNCHANGED <<box, who, after, rollout, snapshots, checklist, judgeFile,
                 remoteJudge, report, status, handled, ends>>

\* The messages are saved before they are rendered.
PrepareFails ==
  /\ pc = "prepare" /\ Fault /\ Raise
  /\ prepared' \in {prepared, [prepared EXCEPT ![2] = "messages"]}
  /\ UNCHANGED <<lifeFrame, container, started, remote, who, h, rolling, rollout, snapshots,
                 checklist, judgeFile, remoteJudge, report, stage, status, handled, ends>>

-----------------------------------------------------------------------------
Decide(s) == status' = s /\ pc' = "finalize"

Failed == IF kind = "mining" THEN "rejected" ELSE "failed"

\* A rollout or the first verification did not succeed: the rest is skipped.
\* The mining writes no judge decision for a first rollout that failed, the
\* evaluation no checklist.
Skipped ==
  [n \in Histories |->
     IF n = 2 \/ (~Completed(1) /\ kind = "mining") THEN "skipped" ELSE checklist[n]]

MessagesSkipped == IF h = 1 THEN [prepared EXCEPT ![2] = "skipped"] ELSE prepared
SnapshotKept == IF h = 1 THEN [snapshots EXCEPT ![2] = snapshots[1]] ELSE snapshots

RolloutReported ==
  [n \in Histories |-> IF n = h /\ ~Completed(n) THEN "rollout_failed" ELSE report[n]]

Abandon ==
  /\ pc = "abandon" /\ Decide(Failed)
  /\ prepared' = MessagesSkipped
  /\ snapshots' = SnapshotKept
  /\ checklist' = Skipped
  /\ judgeFile' =
       IF kind = "mining" /\ ~Completed(1) THEN judgeFile ELSE "skipped"
  /\ report' =
       IF kind = "mining" THEN report
       ELSE [n \in Histories |-> IF n > h THEN "skipped" ELSE RolloutReported[n]]
  /\ UNCHANGED <<box, who, after, h, rolling, rollout, remoteJudge, stage, handled, ends>>

\* One of these writes fails: the messages, the copy of the snapshot behind some
\* of its files, a checklist or the judge's file, in this order.  The handler
\* sets what the evaluation reports of a skipped history.
AbandonFails ==
  /\ pc = "abandon" /\ Fault /\ Raise
  /\ \/ prepared' \in {prepared, MessagesSkipped} /\ UNCHANGED <<snapshots, checklist>>
     \/ /\ h = 1 /\ snapshots[1] # None /\ Partly(2, snapshots[1])
        /\ prepared' = MessagesSkipped /\ UNCHANGED checklist
     \/ /\ prepared' = MessagesSkipped /\ snapshots' = SnapshotKept
        /\ checklist' \in {checklist, [checklist EXCEPT ![1] = Skipped[1]], Skipped}
  /\ report' = IF kind = "mining" THEN report ELSE RolloutReported
  /\ UNCHANGED <<lifeFrame, container, started, remote, who, h, rolling, rollout,
                 remoteJudge, judgeFile, stage, status, handled, ends>>

judgeFrame == <<box, who, after, h, rolling, rollout, prepared, snapshots, checklist,
                remoteJudge, report, handled, ends>>

\* _remote_verification2_decision: the judge of the remote host has decided.
RemotelyJudged == kind = "mining" /\ verifier = "remote"

DecideRemotely ==
  /\ pc = "judge" /\ RemotelyJudged
  /\ judgeFile' = IF remoteJudge = None THEN "skipped" ELSE remoteJudge
  /\ Decide(CASE checklist[2] = "passed" /\ remoteJudge = "pass" -> "accepted"
              [] checklist[2] = "uncertain" -> "uncertain"
              [] OTHER -> "rejected")
  /\ UNCHANGED <<judgeFrame, stage>>

\* No judge for failed tests, or when the mining has it disabled.
SkipJudge ==
  /\ pc = "judge" /\ ~RemotelyJudged
  /\ ~Passed(2) \/ (kind = "mining" /\ ~JudgeEnabled)
  /\ judgeFile' = "skipped"
  /\ Decide(IF Passed(2) THEN "uncertain" ELSE Failed)
  /\ UNCHANGED <<judgeFrame, stage>>

MutDecision(d) ==   \* deliberately wrong: what is not refused is accepted
  CASE d = "fail" -> Failed
    [] d = "cli_error" -> "failed_infra"
    [] OTHER -> IF kind = "mining" THEN "accepted" ELSE "succeeded"

Decision(d) ==
  CASE d = "pass" -> IF kind = "mining" THEN "accepted" ELSE "succeeded"
    [] d = "fail" -> Failed
    [] d = "cli_error" -> "failed_infra"
    [] OTHER -> "uncertain"

\* A Codex CLI that times out or exits with an error counts as uncertain in the
\* file and as an infrastructure failure in the status.
Judge(d) ==
  /\ pc = "judge" /\ ~RemotelyJudged
  /\ Passed(2) /\ (kind = "evaluation" \/ JudgeEnabled)
  /\ EnterStage("judge")
  /\ judgeFile' = IF d = "cli_error" THEN "uncertain" ELSE d
  /\ Decide(Decision(d))
  /\ UNCHANGED judgeFrame

\* codex is missing, a snapshot is not text, or it timed out with some output,
\* which is bytes then and does not go into a JSON file.
JudgeFails ==
  /\ pc = "judge" /\ Fault /\ Raise
  /\ EnterStage(IF Passed(2) THEN "judge" ELSE stage)
  /\ UNCHANGED <<lifeFrame, container, started, remote, who, h, rolling, artifacts,
                 remoteJudge, report, status, handled, ends>>

-----------------------------------------------------------------------------
\* Placeholders for what is missing.  Only the evaluation copies snapshots.
Filled(history, placeholder) ==
  [n \in Histories |-> IF history[n] = None THEN placeholder ELSE history[n]]

MutHandle ==   \* deliberately wrong: the judge gets no placeholder
  /\ pc = "handle" /\ pc' = "finalize"
  /\ handled' = TRUE /\ status' = "failed_infra"
  /\ prepared' = Filled(prepared, "placeholder")
  /\ checklist' = Filled(checklist, "skipped")
  /\ UNCHANGED <<box, who, after, h, rolling, rollout, snapshots, judgeFile,
                 remoteJudge, report, stage, ends>>

\* _record_infra_failure_stage: the history whose stage it was failed.
Blamed ==
  IF stage = "judge" THEN report
  ELSE IF stage \in {"history2_prepare", "history2_rollout", "history2_verification"}
    THEN [report EXCEPT ![2] = "failed_infra"]
  ELSE [n \in Histories |-> IF n = 1 THEN "failed_infra"
                            ELSE IF report[2] = "not_started" THEN "skipped" ELSE report[2]]

Handle ==
  /\ pc = "handle" /\ pc' = "finalize"
  /\ handled' = TRUE /\ status' = "failed_infra"
  /\ prepared' = Filled(prepared, "placeholder")
  /\ checklist' = Filled(checklist, "skipped")
  /\ judgeFile' = IF judgeFile = None THEN "skipped" ELSE judgeFile
  /\ IF kind = "mining" THEN UNCHANGED <<snapshots, report>>
     ELSE /\ LET first == IF snapshots[1] = None THEN snapshots[0] ELSE snapshots[1]
             IN snapshots' = [snapshots EXCEPT ![1] = first,
                                ![2] = IF @ = None THEN first ELSE @]
          /\ report' = Blamed
  /\ UNCHANGED <<box, who, after, h, rolling, rollout, remoteJudge, stage, ends>>

\* _finalize saves the summary, then records it in the index; an accepted
\* sample is materialized.
endFrame == <<box, who, h, rolling, artifacts, remoteJudge, report, stage, status, handled>>

Finalize ==
  /\ pc = "finalize"
  /\ saved' = status
  /\ IF kind = "mining" /\ Indexed THEN pc' = "record" /\ UNCHANGED after ELSE Return
  /\ UNCHANGED <<row, published, endFrame>>

MutRecord ==   \* deliberately wrong: the first row of an attempt stays
  /\ pc = "record"
  /\ row' = IF row = None THEN status ELSE row
  /\ IF status = "accepted" THEN pc' = "materialize" /\ UNCHANGED after ELSE Return
  /\ UNCHANGED <<saved, published, endFrame>>

Record ==
  /\ pc = "record"
  /\ row' = status
  /\ IF status = "accepted" THEN pc' = "materialize" /\ UNCHANGED after ELSE Return
  /\ UNCHANGED <<saved, published, endFrame>>

Materialize ==
  /\ pc = "materialize" /\ Return
  /\ published' = TRUE
  /\ UNCHANGED <<saved, row, endFrame>>

\* An exception while finalizing is handled once, by finalizing again.
FinalizeFails ==
  /\ pc \in {"finalize", "record", "materialize"} /\ Fault
  /\ \/ UNCHANGED published
     \/ pc = "materialize" /\ published' = TRUE
  /\ IF handled THEN pc' = "raised" /\ UNCHANGED after ELSE Raise
  /\ UNCHANGED <<saved, row, lifeFrame, container, started, remote, who, h, rolling,
                 artifacts, remoteJudge, report, stage, status, handled>>

HandleFails ==
  /\ pc = "handle" /\ Fault /\ pc' = "raised"
  /\ UNCHANGED <<lifeFrame, container, started, remote, who, after, h, rolling,
                 artifacts, remoteJudge, report, stage, status, handled, ends>>

-----------------------------------------------------------------------------
RollStep ==
  \/ \E n \in 0 .. MaxCalls, c \in BOOLEAN : Respond(n, c)
  \/ RespondMalformed \/ CallTool \/ CallProceeds \/ ResponseDone

DecideStep ==
  \/ Abandon \/ DecideRemotely \/ SkipJudge
  \/ \E d \in {"pass", "fail", "uncertain", "cli_error"} : Judge(d)

SetUpStep ==
  \/ WriteStaticArtifacts \/ EnsureImage \/ Preflight
  \/ CreateWorkspace \/ PrepareHistory1

EpisodeStep ==
  \/ SetUpStep \/ Open \/ RollStep \/ TakeSnapshot \/ Close
  \/ \E o \in Outcomes : Verify(o)
  \/ VerifyFails \/ PrepareHistory2 \/ DecideStep
  \/ Handle \/ Finalize \/ Record \/ Materialize

FaultStep ==
  \/ SetUpFails \/ OpenFails \/ GenerateFails \/ SnapshotFails
  \/ PrepareFails \/ AbandonFails \/ JudgeFails \/ FinalizeFails \/ HandleFails

Next == EpisodeStep \/ FaultStep \/ CommandLingers

Spec == Init /\ [][Next]_vars

\* The process is scheduled; tool calls, verifications and the judge have
\* timeouts, and the engine is taken to answer: generate has none.
FairSpec == Spec /\ WF_vars(EpisodeStep)

-----------------------------------------------------------------------------
Pcs == {"setup", "image", "preflight", "workspace", "prompt", "open", "generate",
        "tools", "snapshot", "close", "verify", "prepare", "abandon", "judge",
        "handle", "finalize", "record", "materialize", "done", "raised"}
Stages == {"prepare", "history1_rollout", "history1_verification", "history2_prepare",
           "history2_rollout", "history2_verification", "judge"}
Statuses == {"accepted", "rejected", "succeeded", "failed", "failed_infra", "uncertain"}
Reported == {"not_started", "rollout_failed", "verification_passed", "verification_failed",
             "skipped", "failed_infra"}
Decisions == {"skipped", "pass", "fail", "uncertain"}

ControlTypeOK ==
  /\ kind \in {"mining", "evaluation"} /\ verifier \in {"local", "remote"}
  /\ pc \in Pcs /\ after \in {"done", "handle", "verify", "abandon"} /\ h \in Histories
  /\ turn \in 1 .. MaxTurns /\ parseFailures \in 0 .. MaxParseFailures + 1
  /\ calls \in 0 .. MaxCalls /\ completes \in BOOLEAN /\ handled \in BOOLEAN

ArtifactsTypeOK ==
  /\ rollout \in [Histories -> {"completed", "parse_failed", "max_turns", None}]
  /\ prepared \in [Histories -> {"messages", "skipped", "placeholder", None}]
  /\ snapshots \in [{0} \cup Histories -> [Files -> Values] \cup {None}]
  /\ checklist \in
       [Histories -> {"passed", "failed", "timeout", "uncertain", "skipped", None}]
  /\ judgeFile \in Decisions \cup {None} /\ remoteJudge \in Decisions \cup {None}

ResultTypeOK ==
  /\ report \in [Histories -> Reported] /\ stage \in Stages
  /\ status \in Statuses /\ saved \in Statuses \cup {None}
  /\ row \in Statuses \cup {None} /\ published \in BOOLEAN

\* Every variable keeps its type: neither the turns nor the parse failures of a
\* history overrun their limits.
EpisodeTypeOK == SandboxTypeOK /\ ControlTypeOK /\ ArtifactsTypeOK /\ ResultTypeOK

\* "Accepted means history1 unit tests passed, history2 unit tests passed, and
\* judge returned pass" (docs/specs/02): both models finished, on snapshots
\* without tests of their own.  An accepted.jsonl row is earned too, whatever
\* became of its attempt after it.
Earned ==
  /\ judgeFile = "pass"
  /\ \A n \in Histories :
       /\ Completed(n) /\ Passed(n) /\ prepared[n] = "messages"
       /\ \A f \in HiddenTests : snapshots[n][f] = None

\* And a rejection is the model's doing: a rollout that did not finish, tests
\* that failed, or a judge that said so.
Unearned ==
  \/ \E n \in Histories : rollout[n] \in {"parse_failed", "max_turns"}
                          \/ checklist[n] \in {"failed", "timeout"}
  \/ judgeFile = "fail"

\* The evaluation also counts as failed what a remote judge is uncertain about
\* (glm_eval.py:277-281), a judge that sees neither rules nor query: its bundle
\* is read from the directory of the mining (verifier.py:392-404).
Overjudged == kind = "evaluation" /\ remoteJudge = "uncertain"

DecisionEarned ==
  /\ published \/ saved \in {"accepted", "succeeded"} => Earned
  /\ saved \in {"rejected", "failed"} => Unearned \/ Overjudged

Over == pc \in {"done", "raised"}

\* No container is left behind unless a call that starts or stops one failed,
\* on whichever way the with block was left (single.py:158-216).
SandboxReleased == Over /\ container => faults > 0

\* "A sample is complete when one final status and required artifacts are
\* saved" (docs/specs/02): when the attempt returns, summary and index agree on
\* its last status, and nothing is missing but what a first rollout that failed
\* leaves out.
FirstRolloutFailed == rollout[1] \in {"parse_failed", "max_turns"}

EpisodeComplete ==
  pc = "done" =>
    /\ saved = status /\ (kind = "mining" /\ Indexed => row = saved)
    /\ \A n \in Histories : prepared[n] # None
    /\ checklist[2] # None
    /\ checklist[1] = None => FirstRolloutFailed /\ kind = "evaluation"
    /\ judgeFile = None => FirstRolloutFailed /\ kind = "mining"
    /\ status # "failed_infra" => \A n \in Histories : snapshots[n] # None

\* Every attempt ends, with a status or an exception: turns, calls and parse
\* failures are bounded, and the handler runs once (runtime.py:92-240).
EpisodeEnds == <>Over
=============================================================================
