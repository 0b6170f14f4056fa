--------------------------- MODULE EpisodeProofs ---------------------------
(***************************************************************************)
(* Theorems about Episode for any files, limits and verifiers, and any     *)
(* number of faults.                                                       *)
(***************************************************************************)
EXTENDS Episode, TLAPS

USE DEF box, who, rolling, artifacts, ends, vars, setUpFrame, rollFrame, judgeFrame,
        endFrame, lifeFrame, callFrame
-----------------------------------------------------------------------------
\* rsync and a command make functions on Files of functions on Files.
LEMMA CopiedType ==
  ASSUME NEW from \in [Files -> Values], NEW to \in [Files -> Values], NEW some
  PROVE  Copied(from, to, some) \in [Files -> Values]
BY DEF Copied

LEMMA AppliedType ==
  ASSUME NEW dir \in [Files -> Values], NEW c \in Changes \cup {None}
  PROVE  Applied(dir, c) \in [Files -> Values]
BY DEF Applied, Changes

LEMMA InitialType == InitialFiles \in [Files -> Values]
BY SandboxAssumption DEF InitialFiles, Values

-----------------------------------------------------------------------------
\* Outside the tool calls the sandbox is idle.
Idle == pc # "tools" => step = "idle"

LEMMA IdleStep == ASSUME Idle, [Next]_vars PROVE Idle'
<1> USE DEF Idle, Raise, Return, Decide, EndRollout, NextTurn
<1>1. CASE WriteStaticArtifacts
  BY <1>1 DEF WriteStaticArtifacts
<1>2. CASE EnsureImage
  BY <1>2 DEF EnsureImage
<1>3. CASE Preflight
  BY <1>3 DEF Preflight
<1>4. CASE CreateWorkspace
  BY <1>4 DEF CreateWorkspace, Create
<1>5. CASE PrepareHistory1
  BY <1>5 DEF PrepareHistory1
<1>6. CASE Open
  BY <1>6 DEF Open, Start
<1>7. CASE \E n \in 0 .. MaxCalls, c \in BOOLEAN : Respond(n, c)
  BY <1>7 DEF Respond
<1>8. CASE RespondMalformed
  BY <1>8 DEF RespondMalformed
<1>9. CASE CallTool
  BY <1>9 DEF CallTool, StartTool, Look, Search, WriteFile, Command
<1>10. CASE CallProceeds
  BY <1>10 DEF CallProceeds
<1>11. CASE ResponseDone
  BY <1>11 DEF ResponseDone
<1>12. CASE TakeSnapshot
  BY <1>12 DEF TakeSnapshot
<1>13. CASE Close
  BY <1>13 DEF Close, Stop, StopLost, StopRaises
<1>14. CASE \E o \in Outcomes : Verify(o)
  BY <1>14 DEF Verify
<1>15. CASE VerifyFails
  BY <1>15 DEF VerifyFails
<1>16. CASE PrepareHistory2
  BY <1>16 DEF PrepareHistory2
<1>17. CASE Abandon
  BY <1>17 DEF Abandon, MessagesSkipped, SnapshotKept, RolloutReported
<1>18. CASE DecideRemotely
  BY <1>18 DEF DecideRemotely
<1>19. CASE SkipJudge
  BY <1>19 DEF SkipJudge
<1>20. CASE \E d \in {"pass", "fail", "uncertain", "cli_error"} : Judge(d)
  BY <1>20 DEF Judge
<1>21. CASE Handle
  BY <1>21 DEF Handle
<1>22. CASE Finalize
  BY <1>22 DEF Finalize
<1>23. CASE Record
  BY <1>23 DEF Record
<1>24. CASE Materialize
  BY <1>24 DEF Materialize
<1>25. CASE SetUpFails
  BY <1>25 DEF SetUpFails
<1>26. CASE OpenFails
  BY <1>26 DEF OpenFails, HostNotReady, StartFails
<1>27. CASE GenerateFails
  BY <1>27 DEF GenerateFails
<1>28. CASE SnapshotFails
  BY <1>28 DEF SnapshotFails
<1>29. CASE PrepareFails
  BY <1>29 DEF PrepareFails
<1>35. CASE AbandonFails
  BY <1>35 DEF AbandonFails, MessagesSkipped, SnapshotKept, RolloutReported, Skipped
<1>30. CASE JudgeFails
  BY <1>30 DEF JudgeFails
<1>31. CASE FinalizeFails
  BY <1>31 DEF FinalizeFails
<1>32. CASE HandleFails
  BY <1>32 DEF HandleFails
<1>33. CASE CommandLingers
  BY <1>33 DEF CommandLingers, Linger
<1>34. CASE UNCHANGED vars
  BY <1>34
<1> QED
  BY <1>1, <1>2, <1>3, <1>4, <1>5, <1>6, <1>7, <1>8, <1>9, <1>10, <1>11, <1>12,
     <1>13, <1>14, <1>15, <1>16, <1>17, <1>18, <1>19, <1>20, <1>21, <1>22,
     <1>23, <1>24, <1>25, <1>26, <1>27, <1>28, <1>29, <1>30, <1>31, <1>32,
     <1>33, <1>34, <1>35
  DEF Next, EpisodeStep, FaultStep, SetUpStep, RollStep, DecideStep

\* What a step of an episode may do to its sandbox.
BoxStep ==
  \/ UNCHANGED box
  \/ Fault /\ UNCHANGED <<lifeFrame, container, started, remote>>
  \/ step = "idle" /\ (Create(InitialFiles) \/ Start \/ StartFails)
  \/ Stop \/ StopLost
  \/ StartTool \/ ToolStep \/ \E c \in pending : Linger(c)

LEMMA FaultType == ASSUME faults \in 0 .. MaxFaults, Fault PROVE faults' \in 0 .. MaxFaults
BY SandboxAssumption DEF Fault

LEMMA LearnsType ==
  ASSUME NEW c \in Changes \cup {None}, NEW result, Learns(c, result),
         expected \in [Files -> Values], unsure \subseteq Files
  PROVE  expected' \in [Files -> Values] /\ unsure' \subseteq Files
BY AppliedType DEF Learns, Changes

LEMMA WorksType ==
  ASSUME NEW dir \in [Files -> Values], Works(dir),
         mirror \in [Files -> Values], remote \in [Files -> Values]
  PROVE  mirror' \in [Files -> Values] /\ remote' \in [Files -> Values]
BY DEF Works

LEMMA SandboxStep == ASSUME SandboxTypeOK, BoxStep PROVE SandboxTypeOK'
<1> USE DEF SandboxTypeOK
<1>1. CASE UNCHANGED box
  BY <1>1
<1>2. CASE Fault /\ UNCHANGED <<lifeFrame, container, started, remote>>
  BY <1>2, FaultType
<1>3. CASE Create(InitialFiles)
  BY <1>3, InitialType DEF Create
<1>4. CASE Start
  BY <1>4, CopiedType DEF Start, FirstCopy
<1>5. CASE StartFails
  BY <1>5, CopiedType, FaultType DEF StartFails, FirstCopy
<1>6. CASE Stop \/ StopLost
  BY <1>6, FaultType DEF Stop, StopLost
<1>7. CASE StartTool
  <2>1. CASE \E f \in Files, v \in Contents : WriteFile(f, v)
    <3> PICK f \in Files, v \in Contents : WriteFile(f, v)
      BY <2>1
    <3>1. <<f, v>> \in Changes
      BY DEF Changes, Values
    <3> QED
      BY <3>1, AppliedType, LearnsType DEF WriteFile
  <2>2. CASE Look \/ Search \/ \E c \in Changes : Command(c)
    BY <2>2 DEF Look, Search, Command
  <2> QED
    BY <1>7, <2>1, <2>2 DEF StartTool
<1>8. CASE ToolStep
  <2>1. CASE Push \/ PushFails
    BY <2>1, CopiedType, FaultType DEF Push, PushFails
  <2>2. CASE \E result \in {"ok", "error"} : RunEnds(result)
    <3> PICK result \in {"ok", "error"} : RunEnds(result)
      BY <2>2
    <3>1. Mounted \in [Files -> Values] /\ Applied(Mounted, change) \in [Files -> Values]
      BY AppliedType DEF Mounted
    <3>2. mirror' \in [Files -> Values] /\ remote' \in [Files -> Values]
      BY <3>1, WorksType DEF RunEnds
    <3>3. expected' \in [Files -> Values] /\ unsure' \subseteq Files
      BY LearnsType DEF RunEnds
    <3> QED
      BY <3>2, <3>3 DEF RunEnds, AfterRun
  <2>3. CASE RunTimesOut
    <3>1. expected' \in [Files -> Values] /\ unsure' \subseteq Files
      BY <2>3, LearnsType DEF RunTimesOut
    <3> QED
      BY <2>3, <3>1, FaultType DEF RunTimesOut, AfterRun
  <2>4. CASE Pull
    BY <2>4, CopiedType DEF Pull
  <2>5. CASE PullFails
    <3>1. expected' \in [Files -> Values] /\ unsure' \subseteq Files
      BY <2>5, LearnsType DEF PullFails
    <3> QED
      BY <2>5, <3>1, CopiedType, FaultType DEF PullFails
  <2> QED
    BY <1>8, <2>1, <2>2, <2>3, <2>4, <2>5 DEF ToolStep
<1>9. CASE \E c \in pending : Linger(c)
  <2> PICK c \in pending : Linger(c)
    BY <1>9
  <2>1. Mounted \in [Files -> Values] /\ Applied(Mounted, c) \in [Files -> Values]
    BY AppliedType DEF Mounted
  <2>2. mirror' \in [Files -> Values] /\ remote' \in [Files -> Values]
    BY <2>1, WorksType DEF Linger
  <2>3. expected' \in [Files -> Values] /\ unsure' \subseteq Files
    BY LearnsType DEF Linger
  <2> QED
    BY <2>2, <2>3 DEF Linger
<1> QED
  BY <1>1, <1>2, <1>3, <1>4, <1>5, <1>6, <1>7, <1>8, <1>9 DEF BoxStep

\* Every step of an episode is one of these for its sandbox.
LEMMA BoxSteps == ASSUME Idle, [Next]_vars PROVE BoxStep
<1> USE DEF BoxStep, Idle
<1>1. CASE EpisodeStep
  <2>1. CASE SetUpStep \/ Open
    BY <2>1
    DEF SetUpStep, WriteStaticArtifacts, EnsureImage, Preflight, CreateWorkspace,
                PrepareHistory1, Open
  <2>2. CASE RollStep
    BY <2>2
    DEF RollStep, Respond, RespondMalformed, CallTool, CallProceeds, ResponseDone
  <2>3. CASE TakeSnapshot \/ Close \/ PrepareHistory2
    BY <2>3 DEF TakeSnapshot, Close, StopRaises, PrepareHistory2
  <2>4. CASE VerifyFails \/ \E o \in Outcomes : Verify(o)
    BY <2>4 DEF VerifyFails, Verify
  <2>5. CASE DecideStep
    BY <2>5 DEF DecideStep, Abandon, DecideRemotely, SkipJudge, Judge
  <2>6. CASE Handle \/ Finalize \/ Record \/ Materialize
    BY <2>6 DEF Handle, Finalize, Record, Materialize
  <2> QED
    BY <1>1, <2>1, <2>2, <2>3, <2>4, <2>5, <2>6 DEF EpisodeStep
<1>2. CASE FaultStep
  BY <1>2
  DEF FaultStep, SetUpFails, OpenFails, HostNotReady, GenerateFails, SnapshotFails,
              PrepareFails, AbandonFails, JudgeFails, FinalizeFails,
              HandleFails
<1>3. CASE CommandLingers
  BY <1>3 DEF CommandLingers
<1>4. CASE UNCHANGED vars
  BY <1>4
<1> QED
  BY <1>1, <1>2, <1>3, <1>4 DEF Next

-----------------------------------------------------------------------------
\* A history whose rollout is under way has not failed to parse too often.
StillParses ==
  pc \in {"setup", "image", "preflight", "workspace", "prompt", "open", "generate", "tools"}
    => parseFailures <= MaxParseFailures

LEMMA SnapshotType == ASSUME SandboxTypeOK PROVE mirror \in [Files -> Values]
BY DEF SandboxTypeOK

LEMMA PartlyType ==
  ASSUME NEW n \in {0} \cup Histories, NEW files \in [Files -> Values], Partly(n, files),
         snapshots \in [{0} \cup Histories -> [Files -> Values] \cup {None}]
  PROVE  snapshots' \in [{0} \cup Histories -> [Files -> Values] \cup {None}]
BY DEF Partly, Values, Histories

LEMMA OutcomesType ==
  Outcomes \subseteq {"passed", "failed", "timeout", "uncertain"} \X (Decisions \cup {None})
BY DEF Outcomes, LocalOutcomes, Decisions

LEMMA EpisodeStepTypes ==
  ASSUME SandboxTypeOK, ControlTypeOK, ArtifactsTypeOK, ResultTypeOK, StillParses, [Next]_vars
  PROVE  ControlTypeOK' /\ ArtifactsTypeOK' /\ ResultTypeOK' /\ StillParses'
<1> USE EpisodeAssumption
    DEF ControlTypeOK, ArtifactsTypeOK, ResultTypeOK, StillParses, Pcs, Histories, Stages,
        Statuses, Reported, Decisions, Raise, Return, EnterStage, Decide, EndRollout,
        NextTurn, Failed
<1>1. CASE WriteStaticArtifacts
  BY <1>1 DEF WriteStaticArtifacts
<1>2. CASE EnsureImage
  BY <1>2 DEF EnsureImage
<1>3. CASE Preflight
  BY <1>3 DEF Preflight
<1>4. CASE CreateWorkspace
  BY <1>4, InitialType DEF CreateWorkspace
<1>5. CASE PrepareHistory1
  BY <1>5 DEF PrepareHistory1
<1>6. CASE Open
  BY <1>6 DEF Open
<1>7. CASE \E n \in 0 .. MaxCalls, c \in BOOLEAN : Respond(n, c)
  BY <1>7 DEF Respond
<1>8. CASE RespondMalformed
  BY <1>8 DEF RespondMalformed
<1>9. CASE CallTool
  BY <1>9 DEF CallTool
<1>10. CASE CallProceeds
  BY <1>10 DEF CallProceeds
<1>11. CASE ResponseDone
  BY <1>11 DEF ResponseDone
<1>12. CASE TakeSnapshot
  BY <1>12, SnapshotType DEF TakeSnapshot
<1>13. CASE Close
  BY <1>13 DEF Close
<1>14. CASE \E o \in Outcomes : Verify(o)
  BY <1>14, OutcomesType DEF Verify, Reports
<1>15. CASE VerifyFails
  BY <1>15, OutcomesType DEF VerifyFails
<1>16. CASE PrepareHistory2
  <2>1. ControlTypeOK' /\ StillParses'
    <3>1. /\ pc' = "generate" /\ h' = 2 /\ turn' = 1 /\ parseFailures' = 0 /\ calls' = 0
          /\ completes' \in BOOLEAN /\ UNCHANGED <<kind, verifier, after, handled>>
      BY <1>16 DEF PrepareHistory2
    <3> QED
      BY <3>1
  <2>2. ArtifactsTypeOK'
    BY <1>16 DEF PrepareHistory2
  <2>3. ResultTypeOK'
    BY <1>16 DEF PrepareHistory2
  <2> QED
    BY <2>1, <2>2, <2>3
<1>17. CASE Abandon
  BY <1>17 DEF Abandon, Skipped, MessagesSkipped, SnapshotKept, RolloutReported
<1>18. CASE DecideRemotely
  BY <1>18 DEF DecideRemotely
<1>19. CASE SkipJudge
  BY <1>19 DEF SkipJudge
<1>20. CASE \E d \in {"pass", "fail", "uncertain", "cli_error"} : Judge(d)
  BY <1>20 DEF Judge, Decision
<1>21. CASE Handle
  BY <1>21 DEF Handle, Filled, Blamed
<1>22. CASE Finalize
  BY <1>22 DEF Finalize
<1>23. CASE Record
  BY <1>23 DEF Record
<1>24. CASE Materialize
  BY <1>24 DEF Materialize
<1>25. CASE SetUpFails
  BY <1>25, InitialType, PartlyType DEF SetUpFails
<1>26. CASE OpenFails
  BY <1>26 DEF OpenFails
<1>27. CASE GenerateFails
  BY <1>27 DEF GenerateFails
<1>28. CASE SnapshotFails
  BY <1>28, SnapshotType, PartlyType DEF SnapshotFails
<1>29. CASE PrepareFails
  BY <1>29 DEF PrepareFails
<1>35. CASE AbandonFails
  <2>1. ControlTypeOK' /\ StillParses'
    BY <1>35 DEF AbandonFails
  <2>2. ResultTypeOK'
    BY <1>35 DEF AbandonFails, RolloutReported
  <2>3. snapshots' \in [{0} \cup Histories -> [Files -> Values] \cup {None}]
    <3>1. CASE snapshots[1] # None /\ Partly(2, snapshots[1])
      BY <3>1, PartlyType
    <3>2. CASE UNCHANGED snapshots \/ snapshots' = SnapshotKept
      BY <3>2 DEF SnapshotKept
    <3> QED
      BY <1>35, <3>1, <3>2 DEF AbandonFails
  <2>4. ArtifactsTypeOK'
    BY <1>35, <2>3 DEF AbandonFails, MessagesSkipped, Skipped
  <2> QED
    BY <2>1, <2>2, <2>4
<1>30. CASE JudgeFails
  BY <1>30 DEF JudgeFails
<1>31. CASE FinalizeFails
  <2>1. pc' \in {"close", "handle", "raised"} /\ after' \in {"handle", after}
    BY <1>31 DEF FinalizeFails
  <2>2. ControlTypeOK' /\ StillParses'
    BY <1>31, <2>1 DEF FinalizeFails
  <2>3. published' \in BOOLEAN
    BY <1>31 DEF FinalizeFails
  <2>4. ArtifactsTypeOK' /\ ResultTypeOK'
    BY <1>31, <2>3 DEF FinalizeFails
  <2> QED
    BY <2>2, <2>4
<1>32. CASE HandleFails
  BY <1>32 DEF HandleFails
<1>33. CASE CommandLingers
  BY <1>33 DEF CommandLingers
<1>34. CASE UNCHANGED vars
  BY <1>34
<1> QED
  BY <1>1, <1>2, <1>3, <1>4, <1>5, <1>6, <1>7, <1>8, <1>9, <1>10, <1>11, <1>12,
     <1>13, <1>14, <1>15, <1>16, <1>17, <1>18, <1>19, <1>20, <1>21, <1>22,
     <1>23, <1>24, <1>25, <1>26, <1>27, <1>28, <1>29, <1>30, <1>31, <1>32,
     <1>33, <1>34, <1>35
  DEF Next, EpisodeStep, FaultStep, SetUpStep, RollStep, DecideStep

LEMMA InitTypes ==
  Init => SandboxTypeOK /\ ControlTypeOK /\ ArtifactsTypeOK /\ ResultTypeOK /\ StillParses
<1> SUFFICES ASSUME Init
             PROVE  SandboxTypeOK /\ ControlTypeOK /\ ArtifactsTypeOK /\ ResultTypeOK /\ StillParses
  OBVIOUS
<1> USE EpisodeAssumption, SandboxAssumption DEF Init
<1>1. SandboxTypeOK
  <2>1. container \in BOOLEAN /\ started \in BOOLEAN
    BY DEF SandboxInit
  <2>2. mirror \in [Files -> Values] /\ remote \in [Files -> Values] /\ expected = mirror
    BY DEF SandboxInit, Values
  <2>3. faults \in 0 .. MaxFaults
    BY DEF SandboxInit
  <2>4. pending \subseteq Changes /\ unsure \subseteq Files
    BY DEF SandboxInit
  <2> QED
    BY <2>1, <2>2, <2>3, <2>4 DEF SandboxInit, SandboxTypeOK
<1>2. ControlTypeOK
  <2>1. completes \in BOOLEAN /\ handled \in BOOLEAN
    OBVIOUS
  <2>2. turn \in 1 .. MaxTurns /\ parseFailures \in 0 .. MaxParseFailures + 1
        /\ calls \in 0 .. MaxCalls
    OBVIOUS
  <2> QED
    BY <2>1, <2>2 DEF ControlTypeOK, Pcs, Histories
<1>3. ArtifactsTypeOK
  BY DEF ArtifactsTypeOK
<1>4. ResultTypeOK
  BY DEF ResultTypeOK, Stages, Statuses, Reported
<1>5. StillParses
  BY DEF StillParses
<1> QED
  BY <1>1, <1>2, <1>3, <1>4, <1>5

\* Every variable keeps its type: turns, tool calls and parse failures stay
\* within their limits, whatever the limits are.
THEOREM EpisodeTypeCorrect == Spec => []EpisodeTypeOK
<1>1. Init => EpisodeTypeOK /\ StillParses /\ Idle
  BY InitTypes DEF EpisodeTypeOK, Init, SandboxInit, Idle
<1>2. /\ EpisodeTypeOK /\ StillParses /\ Idle /\ [Next]_vars
      => EpisodeTypeOK' /\ StillParses' /\ Idle'
  BY BoxSteps, SandboxStep, EpisodeStepTypes, IdleStep DEF EpisodeTypeOK
<1> QED
  BY <1>1, <1>2, PTL DEF Spec

-----------------------------------------------------------------------------
\* Behind the handler there is only the end; and a container that is there is
\* the one the with block will stop, unless something failed.
Contained ==
  /\ handled => pc \in {"finalize", "record", "materialize", "done", "raised"}
  /\ container /\ faults = 0 =>
       started /\ ~handled /\ pc \notin {"handle", "done", "raised"}

LEMMA ContainedStep ==
  ASSUME EpisodeTypeOK, Contained, [Next]_vars
  PROVE  Contained'
<1>0. faults \in Nat /\ (Fault => faults' # 0)
  BY SandboxAssumption DEF Fault, EpisodeTypeOK, SandboxTypeOK
<1> USE <1>0 DEF Contained, Raise, Return, InBlock, Decide, EndRollout, NextTurn
<1>1. CASE WriteStaticArtifacts
  BY <1>1 DEF WriteStaticArtifacts
<1>2. CASE EnsureImage
  BY <1>2 DEF EnsureImage
<1>3. CASE Preflight
  BY <1>3 DEF Preflight
<1>4. CASE CreateWorkspace
  BY <1>4 DEF CreateWorkspace, Create
<1>5. CASE PrepareHistory1
  BY <1>5 DEF PrepareHistory1
<1>6. CASE Open
  BY <1>6 DEF Open, Start
<1>7. CASE \E n \in 0 .. MaxCalls, c \in BOOLEAN : Respond(n, c)
  BY <1>7 DEF Respond
<1>8. CASE RespondMalformed
  <2>1. UNCHANGED <<container, faults, started, handled>>
    BY <1>8 DEF RespondMalformed
  <2>2. pc = "generate" /\ pc' \in {"snapshot", "generate"}
    BY <1>8 DEF RespondMalformed
  <2> QED
    BY <2>1, <2>2
<1>9. CASE CallTool
  <2>1. UNCHANGED <<container, faults, started>>
    BY <1>9 DEF CallTool, StartTool, Look, Search, WriteFile, Command
  <2> QED
    BY <1>9, <2>1 DEF CallTool
<1>10. CASE CallProceeds
  BY <1>10
  DEF CallProceeds, ToolStep, Push, PushFails, RunEnds, RunTimesOut, Pull, PullFails
<1>11. CASE ResponseDone
  BY <1>11 DEF ResponseDone
<1>12. CASE TakeSnapshot
  BY <1>12 DEF TakeSnapshot
<1>13. CASE Close
  BY <1>13 DEF Close, Stop, StopLost, StopRaises
<1>14. CASE \E o \in Outcomes : Verify(o)
  BY <1>14 DEF Verify
<1>15. CASE VerifyFails
  BY <1>15 DEF VerifyFails
<1>16. CASE PrepareHistory2
  BY <1>16 DEF PrepareHistory2
<1>17. CASE Abandon
  BY <1>17 DEF Abandon, MessagesSkipped, SnapshotKept, RolloutReported
<1>18. CASE DecideRemotely
  BY <1>18 DEF DecideRemotely
<1>19. CASE SkipJudge
  BY <1>19 DEF SkipJudge
<1>20. CASE \E d \in {"pass", "fail", "uncertain", "cli_error"} : Judge(d)
  BY <1>20 DEF Judge
<1>21. CASE Handle
  BY <1>21 DEF Handle
<1>22. CASE Finalize
  BY <1>22 DEF Finalize
<1>23. CASE Record
  BY <1>23 DEF Record
<1>24. CASE Materialize
  BY <1>24 DEF Materialize
<1>25. CASE SetUpFails
  BY <1>25 DEF SetUpFails
<1>26. CASE OpenFails
  BY <1>26 DEF OpenFails, HostNotReady, StartFails
<1>27. CASE GenerateFails
  BY <1>27 DEF GenerateFails
<1>28. CASE SnapshotFails
  BY <1>28 DEF SnapshotFails
<1>29. CASE PrepareFails
  BY <1>29 DEF PrepareFails
<1>35. CASE AbandonFails
  BY <1>35 DEF AbandonFails, MessagesSkipped, SnapshotKept, RolloutReported, Skipped
<1>30. CASE JudgeFails
  BY <1>30 DEF JudgeFails
<1>31. CASE FinalizeFails
  BY <1>31 DEF FinalizeFails
<1>32. CASE HandleFails
  BY <1>32 DEF HandleFails
<1>33. CASE CommandLingers
  BY <1>33 DEF CommandLingers, Linger
<1>34. CASE UNCHANGED vars
  BY <1>34
<1> QED
  BY <1>1, <1>2, <1>3, <1>4, <1>5, <1>6, <1>7, <1>8, <1>9, <1>10, <1>11, <1>12,
     <1>13, <1>14, <1>15, <1>16, <1>17, <1>18, <1>19, <1>20, <1>21, <1>22,
     <1>23, <1>24, <1>25, <1>26, <1>27, <1>28, <1>29, <1>30, <1>31, <1>32,
     <1>33, <1>34, <1>35
  DEF Next, EpisodeStep, FaultStep, SetUpStep, RollStep, DecideStep

\* An episode that is over has left no container behind, if nothing failed.
THEOREM NoContainerLeft == Spec => []SandboxReleased
<1>1. Init => Contained
  BY DEF Init, SandboxInit, Contained
<1>2. EpisodeTypeOK /\ Contained => SandboxReleased
  BY SandboxAssumption
  DEF Contained, SandboxReleased, Over, EpisodeTypeOK, SandboxTypeOK
<1> QED
  BY <1>1, <1>2, ContainedStep, EpisodeTypeCorrect, PTL DEF Spec

-----------------------------------------------------------------------------
\* What the steps before a place have established there.
Clean(n) == snapshots[n] \in [Files -> Values] /\ \A f \in HiddenTests : snapshots[n][f] = None

FirstDone == Completed(1) /\ Passed(1) /\ prepared[1] = "messages" /\ Clean(1)

GaveUp ==
  \/ rollout[h] \in {"parse_failed", "max_turns"}
  \/ h = 1 /\ Completed(1) /\ checklist[1] \in {"failed", "timeout"}

Leaving(to) == pc = to \/ (pc = "close" /\ after = to)

Chain ==
  /\ pc \in {"open", "generate", "tools", "snapshot", "verify", "prepare", "judge", "abandon"} =>
       prepared[1] = "messages"
  /\ pc = "snapshot" => rollout[h] # None
  /\ Leaving("verify") => Completed(h) /\ snapshots[h] \in [Files -> Values]
  /\ pc = "close" /\ after \in {"verify", "abandon"} => h = 2
  /\ pc = "prepare" => h = 1 /\ FirstDone
  /\ h = 2 => FirstDone /\ prepared[2] = "messages"
  /\ pc = "judge" => h = 2 /\ Completed(2) /\ Clean(2) /\ <<checklist[2], remoteJudge>> \in Outcomes
  /\ Leaving("abandon") => GaveUp /\ snapshots[h] \in [Files -> Values]

LEMMA ChainStep ==
  ASSUME EpisodeTypeOK, Chain, [Next]_vars
  PROVE  Chain'
<1>0. /\ h \in {1, 2} /\ after \in {"done", "handle", "verify", "abandon"}
      /\ mirror \in [Files -> Values]
      /\ rollout \in [{1, 2} -> {"completed", "parse_failed", "max_turns", None}]
      /\ prepared \in [{1, 2} -> {"messages", "skipped", "placeholder", None}]
      /\ snapshots \in [{0, 1, 2} -> [Files -> Values] \cup {None}]
      /\ checklist \in [{1, 2} -> {"passed", "failed", "timeout", "uncertain", "skipped", None}]
  BY DEF EpisodeTypeOK, ControlTypeOK, ArtifactsTypeOK, SandboxTypeOK, Histories
<1> USE <1>0, EpisodeAssumption
    DEF Chain, Leaving, FirstDone, GaveUp, Clean, Completed, Passed, Raise, Return, Decide,
        EndRollout, NextTurn, Histories, Values
<1>1. CASE WriteStaticArtifacts
  BY <1>1 DEF WriteStaticArtifacts
<1>2. CASE EnsureImage
  BY <1>2 DEF EnsureImage
<1>3. CASE Preflight
  BY <1>3 DEF Preflight
<1>4. CASE CreateWorkspace
  BY <1>4 DEF CreateWorkspace
<1>5. CASE PrepareHistory1
  BY <1>5 DEF PrepareHistory1
<1>6. CASE Open
  BY <1>6 DEF Open
<1>7. CASE \E n \in 0 .. MaxCalls, c \in BOOLEAN : Respond(n, c)
  BY <1>7 DEF Respond
<1>8. CASE RespondMalformed
  BY <1>8 DEF RespondMalformed
<1>9. CASE CallTool
  BY <1>9 DEF CallTool
<1>10. CASE CallProceeds
  BY <1>10 DEF CallProceeds
<1>11. CASE ResponseDone
  BY <1>11 DEF ResponseDone
<1>12. CASE TakeSnapshot
  BY <1>12 DEF TakeSnapshot
<1>13. CASE Close
  BY <1>13 DEF Close
<1>14. CASE \E o \in Outcomes : Verify(o)
  BY <1>14 DEF Verify, Verifiable, Leaked, Outcomes, LocalOutcomes
<1>15. CASE VerifyFails
  BY <1>15 DEF VerifyFails
<1>16. CASE PrepareHistory2
  BY <1>16 DEF PrepareHistory2
<1>17. CASE Abandon
  BY <1>17 DEF Abandon, Skipped, MessagesSkipped, SnapshotKept, RolloutReported
<1>18. CASE DecideRemotely
  BY <1>18 DEF DecideRemotely
<1>19. CASE SkipJudge
  BY <1>19 DEF SkipJudge
<1>20. CASE \E d \in {"pass", "fail", "uncertain", "cli_error"} : Judge(d)
  BY <1>20 DEF Judge
<1>21. CASE Handle
  BY <1>21 DEF Handle, Filled
<1>22. CASE Finalize
  BY <1>22 DEF Finalize
<1>23. CASE Record
  BY <1>23 DEF Record
<1>24. CASE Materialize
  BY <1>24 DEF Materialize
<1>25. CASE SetUpFails
  BY <1>25 DEF SetUpFails, Partly
<1>26. CASE OpenFails
  BY <1>26 DEF OpenFails
<1>27. CASE GenerateFails
  BY <1>27 DEF GenerateFails
<1>28. CASE SnapshotFails
  BY <1>28 DEF SnapshotFails, Partly
<1>29. CASE PrepareFails
  BY <1>29 DEF PrepareFails
<1>35. CASE AbandonFails
  BY <1>35 DEF AbandonFails, MessagesSkipped, SnapshotKept, RolloutReported, Skipped
<1>30. CASE JudgeFails
  BY <1>30 DEF JudgeFails
<1>31. CASE FinalizeFails
  BY <1>31 DEF FinalizeFails
<1>32. CASE HandleFails
  BY <1>32 DEF HandleFails
<1>33. CASE CommandLingers
  BY <1>33 DEF CommandLingers, Outcomes, LocalOutcomes
<1>34. CASE UNCHANGED vars
  BY <1>34 DEF Outcomes, LocalOutcomes
<1> QED
  BY <1>1, <1>2, <1>3, <1>4, <1>5, <1>6, <1>7, <1>8, <1>9, <1>10, <1>11, <1>12,
     <1>13, <1>14, <1>15, <1>16, <1>17, <1>18, <1>19, <1>20, <1>21, <1>22,
     <1>23, <1>24, <1>25, <1>26, <1>27, <1>28, <1>29, <1>30, <1>31, <1>32,
     <1>33, <1>34, <1>35
  DEF Next, EpisodeStep, FaultStep, SetUpStep, RollStep, DecideStep

-----------------------------------------------------------------------------
\* Nothing is decided, saved or published before the end of an attempt ...
Late ==
  \/ pc \in {"finalize", "record", "materialize", "handle", "done", "raised"}
  \/ pc = "close" /\ after \in {"done", "handle"}

Settled ==
  /\ status # "failed_infra" \/ saved # None \/ published => Late
  /\ pc = "materialize" => status = "accepted"

LEMMA SettledStep ==
  ASSUME EpisodeTypeOK, Settled, [Next]_vars
  PROVE  Settled' /\ (Late => Late')
<1> USE DEF Settled, Late, Raise, Return, Decide, EndRollout, NextTurn
<1>1. CASE WriteStaticArtifacts
  BY <1>1 DEF WriteStaticArtifacts
<1>2. CASE EnsureImage
  BY <1>2 DEF EnsureImage
<1>3. CASE Preflight
  BY <1>3 DEF Preflight
<1>4. CASE CreateWorkspace
  BY <1>4 DEF CreateWorkspace
<1>5. CASE PrepareHistory1
  BY <1>5 DEF PrepareHistory1
<1>6. CASE Open
  BY <1>6 DEF Open
<1>7. CASE \E n \in 0 .. MaxCalls, c \in BOOLEAN : Respond(n, c)
  BY <1>7 DEF Respond
<1>8. CASE RespondMalformed
  BY <1>8 DEF RespondMalformed
<1>9. CASE CallTool
  BY <1>9 DEF CallTool
<1>10. CASE CallProceeds
  BY <1>10 DEF CallProceeds
<1>11. CASE ResponseDone
  BY <1>11 DEF ResponseDone
<1>12. CASE TakeSnapshot
  BY <1>12 DEF TakeSnapshot
<1>13. CASE Close
  BY <1>13 DEF Close, EpisodeTypeOK, ControlTypeOK
<1>14. CASE \E o \in Outcomes : Verify(o)
  BY <1>14 DEF Verify
<1>15. CASE VerifyFails
  BY <1>15 DEF VerifyFails
<1>16. CASE PrepareHistory2
  BY <1>16 DEF PrepareHistory2
<1>17. CASE Abandon
  BY <1>17 DEF Abandon, MessagesSkipped, SnapshotKept, RolloutReported
<1>18. CASE DecideRemotely
  BY <1>18 DEF DecideRemotely
<1>19. CASE SkipJudge
  BY <1>19 DEF SkipJudge
<1>20. CASE \E d \in {"pass", "fail", "uncertain", "cli_error"} : Judge(d)
  BY <1>20 DEF Judge
<1>21. CASE Handle
  BY <1>21 DEF Handle
<1>22. CASE Finalize
  BY <1>22 DEF Finalize
<1>23. CASE Record
  BY <1>23 DEF Record
<1>24. CASE Materialize
  BY <1>24 DEF Materialize
<1>25. CASE SetUpFails
  BY <1>25 DEF SetUpFails
<1>26. CASE OpenFails
  BY <1>26 DEF OpenFails
<1>27. CASE GenerateFails
  BY <1>27 DEF GenerateFails
<1>28. CASE SnapshotFails
  BY <1>28 DEF SnapshotFails
<1>29. CASE PrepareFails
  BY <1>29 DEF PrepareFails
<1>35. CASE AbandonFails
  BY <1>35 DEF AbandonFails, MessagesSkipped, SnapshotKept, RolloutReported, Skipped
<1>30. CASE JudgeFails
  BY <1>30 DEF JudgeFails
<1>31. CASE FinalizeFails
  BY <1>31 DEF FinalizeFails
<1>32. CASE HandleFails
  BY <1>32 DEF HandleFails
<1>33. CASE CommandLingers
  BY <1>33 DEF CommandLingers
<1>34. CASE UNCHANGED vars
  BY <1>34
<1> QED
  BY <1>1, <1>2, <1>3, <1>4, <1>5, <1>6, <1>7, <1>8, <1>9, <1>10, <1>11, <1>12,
     <1>13, <1>14, <1>15, <1>16, <1>17, <1>18, <1>19, <1>20, <1>21, <1>22,
     <1>23, <1>24, <1>25, <1>26, <1>27, <1>28, <1>29, <1>30, <1>31, <1>32,
     <1>33, <1>34, <1>35
  DEF Next, EpisodeStep, FaultStep, SetUpStep, RollStep, DecideStep

\* ... and at the end the evidence only grows.
Proven ==
  /\ judgeFile = "pass"
  /\ \A n \in {1, 2} : Completed(n) /\ Passed(n) /\ prepared[n] = "messages" /\ Clean(n)

Refuted == Unearned \/ Overjudged

LEMMA EvidenceStep ==
  ASSUME EpisodeTypeOK, Late, [Next]_vars
  PROVE  /\ Proven => Proven'
         /\ Refuted => Refuted'
         /\ status' \in {status, "failed_infra"} /\ saved' \in {saved, status}
         /\ published' => published \/ pc = "materialize"
<1>0. /\ prepared \in [{1, 2} -> {"messages", "skipped", "placeholder", None}]
      /\ snapshots \in [{0, 1, 2} -> [Files -> Values] \cup {None}]
      /\ checklist \in [{1, 2} -> {"passed", "failed", "timeout", "uncertain", "skipped", None}]
  BY DEF EpisodeTypeOK, ArtifactsTypeOK, Histories
<1> USE <1>0, EpisodeAssumption
    DEF Late, Proven, Refuted, Unearned, Overjudged, Clean, Completed, Passed, Histories, Values
<1>1. CASE WriteStaticArtifacts
  BY <1>1 DEF WriteStaticArtifacts
<1>2. CASE EnsureImage
  BY <1>2 DEF EnsureImage
<1>3. CASE Preflight
  BY <1>3 DEF Preflight
<1>4. CASE CreateWorkspace
  BY <1>4 DEF CreateWorkspace
<1>5. CASE PrepareHistory1
  BY <1>5 DEF PrepareHistory1
<1>6. CASE Open
  BY <1>6 DEF Open
<1>7. CASE \E n \in 0 .. MaxCalls, c \in BOOLEAN : Respond(n, c)
  BY <1>7 DEF Respond
<1>8. CASE RespondMalformed
  BY <1>8 DEF RespondMalformed
<1>9. CASE CallTool
  BY <1>9 DEF CallTool
<1>10. CASE CallProceeds
  BY <1>10 DEF CallProceeds
<1>11. CASE ResponseDone
  BY <1>11 DEF ResponseDone
<1>12. CASE TakeSnapshot
  BY <1>12 DEF TakeSnapshot
<1>13. CASE Close
  BY <1>13 DEF Close
<1>14. CASE \E o \in Outcomes : Verify(o)
  BY <1>14 DEF Verify
<1>15. CASE VerifyFails
  BY <1>15 DEF VerifyFails
<1>16. CASE PrepareHistory2
  BY <1>16 DEF PrepareHistory2
<1>17. CASE Abandon
  BY <1>17 DEF Abandon, MessagesSkipped, SnapshotKept, RolloutReported
<1>18. CASE DecideRemotely
  BY <1>18 DEF DecideRemotely
<1>19. CASE SkipJudge
  BY <1>19 DEF SkipJudge
<1>20. CASE \E d \in {"pass", "fail", "uncertain", "cli_error"} : Judge(d)
  BY <1>20 DEF Judge
<1>21. CASE Handle
  BY <1>21 DEF Handle, Filled
<1>22. CASE Finalize
  BY <1>22 DEF Finalize
<1>23. CASE Record
  BY <1>23 DEF Record
<1>24. CASE Materialize
  BY <1>24 DEF Materialize
<1>25. CASE SetUpFails
  BY <1>25 DEF SetUpFails
<1>26. CASE OpenFails
  BY <1>26 DEF OpenFails
<1>27. CASE GenerateFails
  BY <1>27 DEF GenerateFails
<1>28. CASE SnapshotFails
  BY <1>28 DEF SnapshotFails
<1>29. CASE PrepareFails
  BY <1>29 DEF PrepareFails
<1>35. CASE AbandonFails
  BY <1>35 DEF AbandonFails, MessagesSkipped, SnapshotKept, RolloutReported, Skipped
<1>30. CASE JudgeFails
  BY <1>30 DEF JudgeFails
<1>31. CASE FinalizeFails
  BY <1>31 DEF FinalizeFails
<1>32. CASE HandleFails
  BY <1>32 DEF HandleFails
<1>33. CASE CommandLingers
  BY <1>33 DEF CommandLingers
<1>34. CASE UNCHANGED vars
  BY <1>34
<1> QED
  BY <1>1, <1>2, <1>3, <1>4, <1>5, <1>6, <1>7, <1>8, <1>9, <1>10, <1>11, <1>12,
     <1>13, <1>14, <1>15, <1>16, <1>17, <1>18, <1>19, <1>20, <1>21, <1>22,
     <1>23, <1>24, <1>25, <1>26, <1>27, <1>28, <1>29, <1>30, <1>31, <1>32,
     <1>33, <1>34, <1>35
  DEF Next, EpisodeStep, FaultStep, SetUpStep, RollStep, DecideStep

\* A decision is what the evidence says.
Good(s) ==
  /\ s \in {"accepted", "succeeded"} => Proven
  /\ s \in {"rejected", "failed"} => Refuted

LEMMA DecisionStep ==
  ASSUME EpisodeTypeOK, Chain, ~Late, status = "failed_infra", [Next]_vars
  PROVE  /\ Good(status)'
         /\ UNCHANGED <<saved, published>>
<1>0. /\ h \in {1, 2} /\ verifier \in {"local", "remote"} /\ kind \in {"mining", "evaluation"}
      /\ rollout \in [{1, 2} -> {"completed", "parse_failed", "max_turns", None}]
      /\ prepared \in [{1, 2} -> {"messages", "skipped", "placeholder", None}]
      /\ snapshots \in [{0, 1, 2} -> [Files -> Values] \cup {None}]
      /\ checklist \in [{1, 2} -> {"passed", "failed", "timeout", "uncertain", "skipped", None}]
  BY DEF EpisodeTypeOK, ControlTypeOK, ArtifactsTypeOK, Histories
<1> USE <1>0, EpisodeAssumption DEF Late, Decide, Good
<1>1. CASE WriteStaticArtifacts
  BY <1>1 DEF WriteStaticArtifacts
<1>2. CASE EnsureImage
  BY <1>2 DEF EnsureImage
<1>3. CASE Preflight
  BY <1>3 DEF Preflight
<1>4. CASE CreateWorkspace
  BY <1>4 DEF CreateWorkspace
<1>5. CASE PrepareHistory1
  BY <1>5 DEF PrepareHistory1
<1>6. CASE Open
  BY <1>6 DEF Open
<1>7. CASE \E n \in 0 .. MaxCalls, c \in BOOLEAN : Respond(n, c)
  BY <1>7 DEF Respond
<1>8. CASE RespondMalformed
  BY <1>8 DEF RespondMalformed
<1>9. CASE CallTool
  BY <1>9 DEF CallTool
<1>10. CASE CallProceeds
  BY <1>10 DEF CallProceeds
<1>11. CASE ResponseDone
  BY <1>11 DEF ResponseDone
<1>12. CASE TakeSnapshot
  BY <1>12 DEF TakeSnapshot
<1>13. CASE Close
  BY <1>13 DEF Close
<1>14. CASE \E o \in Outcomes : Verify(o)
  BY <1>14 DEF Verify
<1>15. CASE VerifyFails
  BY <1>15 DEF VerifyFails
<1>16. CASE PrepareHistory2
  BY <1>16 DEF PrepareHistory2
<1>17. CASE Abandon
  BY <1>17
  DEF Abandon, MessagesSkipped, SnapshotKept, Failed, Skipped, Chain, Leaving, GaveUp, FirstDone, Refuted, Unearned,
      Completed, Passed, Histories
<1>18. CASE DecideRemotely
  BY <1>18
  DEF DecideRemotely, RemotelyJudged, Chain, FirstDone, Clean, Proven, Refuted,
      Unearned, Completed, Passed, Histories, Outcomes, LocalOutcomes
<1>19. CASE SkipJudge
  BY <1>19
  DEF SkipJudge, RemotelyJudged, Failed, Chain, FirstDone, Refuted, Unearned,
      Overjudged, Completed, Passed, Histories, Outcomes, LocalOutcomes
<1>20. CASE \E d \in {"pass", "fail", "uncertain", "cli_error"} : Judge(d)
  BY <1>20
  DEF Judge, Decision, Failed, Chain, FirstDone, Clean, Proven, Refuted, Unearned,
      Completed, Passed, Histories
<1>21. CASE Handle
  BY <1>21 DEF Handle
<1>22. CASE Finalize
  BY <1>22 DEF Finalize
<1>23. CASE Record
  BY <1>23 DEF Record
<1>24. CASE Materialize
  BY <1>24 DEF Materialize
<1>25. CASE SetUpFails
  BY <1>25 DEF SetUpFails
<1>26. CASE OpenFails
  BY <1>26 DEF OpenFails
<1>27. CASE GenerateFails
  BY <1>27 DEF GenerateFails
<1>28. CASE SnapshotFails
  BY <1>28 DEF SnapshotFails
<1>29. CASE PrepareFails
  BY <1>29 DEF PrepareFails
<1>35. CASE AbandonFails
  BY <1>35 DEF AbandonFails, MessagesSkipped, SnapshotKept, RolloutReported, Skipped
<1>30. CASE JudgeFails
  BY <1>30 DEF JudgeFails
<1>31. CASE FinalizeFails
  BY <1>31 DEF FinalizeFails
<1>32. CASE HandleFails
  BY <1>32 DEF HandleFails
<1>33. CASE CommandLingers
  BY <1>33 DEF CommandLingers
<1>34. CASE UNCHANGED vars
  BY <1>34
<1> QED
  BY <1>1, <1>2, <1>3, <1>4, <1>5, <1>6, <1>7, <1>8, <1>9, <1>10, <1>11, <1>12,
     <1>13, <1>14, <1>15, <1>16, <1>17, <1>18, <1>19, <1>20, <1>21, <1>22,
     <1>23, <1>24, <1>25, <1>26, <1>27, <1>28, <1>29, <1>30, <1>31, <1>32,
     <1>33, <1>34, <1>35
  DEF Next, EpisodeStep, FaultStep, SetUpStep, RollStep, DecideStep

\* "Accepted means history1 unit tests passed, history2 unit tests passed, and
\* judge returned pass": a saved summary or a published row says what the
\* rollouts, the tests and the judge of the attempt said, whatever failed in it.
Graded == Good(status) /\ Good(saved) /\ (published => Proven)

THEOREM DecisionsEarned == Spec => []DecisionEarned
<1>1. Init => Chain /\ Settled /\ Graded
  BY EpisodeAssumption
  DEF Init, Chain, Leaving, GaveUp, Settled, Late, Graded, Good
<1>2. EpisodeTypeOK /\ Chain /\ Settled /\ Graded /\ [Next]_vars => Graded'
  <2> SUFFICES ASSUME EpisodeTypeOK, Chain, Settled, Graded, [Next]_vars
               PROVE  Graded'
    OBVIOUS
  <2>1. CASE Late
    BY <2>1, EvidenceStep, EpisodeAssumption DEF Graded, Good, Settled
  <2>2. CASE ~Late
    BY <2>2, DecisionStep, EpisodeAssumption DEF Graded, Good, Settled
  <2> QED
    BY <2>1, <2>2
<1>3. EpisodeTypeOK /\ Graded => DecisionEarned
  BY DEF Graded, Good, Proven, Refuted, Clean, DecisionEarned, Earned, Histories
<1> QED
  BY <1>1, <1>2, <1>3, ChainStep, SettledStep, EpisodeTypeCorrect, PTL DEF Spec

-----------------------------------------------------------------------------
\* What the decision and the handler leave for _finalize, and what it has done
\* itself at each place behind it.
Present ==
  /\ prepared[1] # None /\ prepared[2] # None /\ checklist[2] # None
  /\ checklist[1] = None => FirstRolloutFailed /\ kind = "evaluation"
  /\ judgeFile = None => FirstRolloutFailed /\ kind = "mining"
  /\ status # "failed_infra" => snapshots[1] # None /\ snapshots[2] # None

Finalized ==
  /\ pc \in {"finalize", "record", "materialize"} \/ Leaving("done") => Present
  /\ pc \in {"record", "materialize"} \/ Leaving("done") => saved = status
  /\ pc = "materialize" \/ Leaving("done") => (kind = "mining" /\ Indexed => row = saved)

LEMMA FinalizedStep ==
  ASSUME EpisodeTypeOK, Chain, Finalized, [Next]_vars
  PROVE  Finalized'
<1>0. /\ h \in {1, 2} /\ after \in {"done", "handle", "verify", "abandon"}
      /\ kind \in {"mining", "evaluation"} /\ verifier \in {"local", "remote"}
      /\ rollout \in [{1, 2} -> {"completed", "parse_failed", "max_turns", None}]
      /\ prepared \in [{1, 2} -> {"messages", "skipped", "placeholder", None}]
      /\ snapshots \in [{0, 1, 2} -> [Files -> Values] \cup {None}]
      /\ checklist \in [{1, 2} -> {"passed", "failed", "timeout", "uncertain", "skipped", None}]
  BY DEF EpisodeTypeOK, ControlTypeOK, ArtifactsTypeOK, Histories
<1> USE <1>0, EpisodeAssumption
    DEF Finalized, Present, FirstRolloutFailed, Leaving, Raise, Return, Decide, EndRollout,
        NextTurn, Histories
<1>1. CASE WriteStaticArtifacts
  BY <1>1 DEF WriteStaticArtifacts
<1>2. CASE EnsureImage
  BY <1>2 DEF EnsureImage
<1>3. CASE Preflight
  BY <1>3 DEF Preflight
<1>4. CASE CreateWorkspace
  BY <1>4 DEF CreateWorkspace
<1>5. CASE PrepareHistory1
  BY <1>5 DEF PrepareHistory1
<1>6. CASE Open
  BY <1>6 DEF Open
<1>7. CASE \E n \in 0 .. MaxCalls, c \in BOOLEAN : Respond(n, c)
  BY <1>7 DEF Respond
<1>8. CASE RespondMalformed
  BY <1>8 DEF RespondMalformed
<1>9. CASE CallTool
  BY <1>9 DEF CallTool
<1>10. CASE CallProceeds
  BY <1>10 DEF CallProceeds
<1>11. CASE ResponseDone
  BY <1>11 DEF ResponseDone
<1>12. CASE TakeSnapshot
  BY <1>12 DEF TakeSnapshot
<1>13. CASE Close
  BY <1>13 DEF Close
<1>14. CASE \E o \in Outcomes : Verify(o)
  BY <1>14 DEF Verify
<1>15. CASE VerifyFails
  BY <1>15 DEF VerifyFails
<1>16. CASE PrepareHistory2
  BY <1>16 DEF PrepareHistory2
<1>17. CASE Abandon
  BY <1>17
  DEF Abandon, MessagesSkipped, SnapshotKept, Chain, GaveUp, FirstDone, Skipped, Completed, Passed, Clean, Values
<1>18. CASE DecideRemotely
  BY <1>18
  DEF DecideRemotely, Chain, FirstDone, Clean, Values, Completed, Passed, Outcomes,
      LocalOutcomes, RemotelyJudged
<1>19. CASE SkipJudge
  BY <1>19
  DEF SkipJudge, Chain, FirstDone, Clean, Values, Completed, Passed, Outcomes,
      LocalOutcomes
<1>20. CASE \E d \in {"pass", "fail", "uncertain", "cli_error"} : Judge(d)
  BY <1>20
  DEF Judge, Chain, FirstDone, Clean, Values, Completed, Passed, Outcomes, LocalOutcomes
<1>21. CASE Handle
  BY <1>21 DEF Handle, Filled
<1>22. CASE Finalize
  BY <1>22 DEF Finalize
<1>23. CASE Record
  BY <1>23 DEF Record
<1>24. CASE Materialize
  BY <1>24 DEF Materialize
<1>25. CASE SetUpFails
  BY <1>25 DEF SetUpFails
<1>26. CASE OpenFails
  BY <1>26 DEF OpenFails
<1>27. CASE GenerateFails
  BY <1>27 DEF GenerateFails
<1>28. CASE SnapshotFails
  BY <1>28 DEF SnapshotFails
<1>29. CASE PrepareFails
  BY <1>29 DEF PrepareFails
<1>35. CASE AbandonFails
  BY <1>35 DEF AbandonFails, MessagesSkipped, SnapshotKept, RolloutReported, Skipped
<1>30. CASE JudgeFails
  BY <1>30 DEF JudgeFails
<1>31. CASE FinalizeFails
  BY <1>31 DEF FinalizeFails
<1>32. CASE HandleFails
  BY <1>32 DEF HandleFails
<1>33. CASE CommandLingers
  BY <1>33 DEF CommandLingers
<1>34. CASE UNCHANGED vars
  BY <1>34
<1> QED
  BY <1>1, <1>2, <1>3, <1>4, <1>5, <1>6, <1>7, <1>8, <1>9, <1>10, <1>11, <1>12,
     <1>13, <1>14, <1>15, <1>16, <1>17, <1>18, <1>19, <1>20, <1>21, <1>22,
     <1>23, <1>24, <1>25, <1>26, <1>27, <1>28, <1>29, <1>30, <1>31, <1>32,
     <1>33, <1>34, <1>35
  DEF Next, EpisodeStep, FaultStep, SetUpStep, RollStep, DecideStep

\* "A sample is complete when one final status and required artifacts are
\* saved": an attempt that returns has both, whatever was raised in it.
THEOREM EpisodesComplete == Spec => []EpisodeComplete
<1>1. Init => Chain /\ Finalized
  BY EpisodeAssumption DEF Init, Chain, Leaving, GaveUp, Finalized
<1>2. Finalized => EpisodeComplete
  BY EpisodeAssumption DEF Finalized, Present, Leaving, EpisodeComplete, Histories
<1> QED
  BY <1>1, <1>2, ChainStep, FinalizedStep, EpisodeTypeCorrect, PTL DEF Spec

-----------------------------------------------------------------------------
\* The copies of a file that no failed call was about, at each place of a call.
InSync ==
  /\ backend = "local" =>
       /\ step \in {"idle", "run"}
       /\ \A f \in Files \ unsure : mirror[f] = expected[f]
  /\ backend = "remote" => \A f \in Files \ unsure : expected[f] # None =>
       /\ step # "pull" => mirror[f] = expected[f]
       /\ step \in {"run", "pull"} => remote[f] = expected[f]
       /\ step = "pull" => mirror[f] = expected[f] \/ (change # None /\ f = change[1])

LEMMA SyncStep ==
  ASSUME SandboxTypeOK, InSync, BoxStep
  PROVE  InSync'
<1> USE DEF SandboxTypeOK, InSync
<1>1. CASE UNCHANGED box
  BY <1>1
<1>2. CASE Fault /\ UNCHANGED <<lifeFrame, container, started, remote>>
  BY <1>2
<1>3. CASE step = "idle" /\ (Create(InitialFiles) \/ Start \/ StartFails)
  BY <1>3 DEF Create, Start, StartFails, FirstCopy
<1>4. CASE Stop \/ StopLost
  BY <1>4 DEF Stop, StopLost
<1>5. CASE StartTool
  <2>1. CASE \E f \in Files, v \in Contents : WriteFile(f, v)
    BY <2>1, SandboxAssumption DEF WriteFile, Learns, Applied, Values
  <2>2. CASE Look \/ Search \/ \E c \in Changes : Command(c)
    BY <2>2 DEF Look, Search, Command
  <2> QED
    BY <1>5, <2>1, <2>2 DEF StartTool
<1>6. CASE Push
  BY <1>6 DEF Push, Copied
<1>7. CASE PushFails
  BY <1>7 DEF PushFails
<1>8. CASE \E result \in {"ok", "error"} : RunEnds(result)
  BY <1>8 DEF RunEnds, Works, Mounted, Applied, Learns, AfterRun, Changes
<1>9. CASE RunTimesOut
  BY <1>9 DEF RunTimesOut, Learns, AfterRun
<1>10. CASE Pull
  BY <1>10 DEF Pull, Copied
<1>11. CASE PullFails
  BY <1>11 DEF PullFails, Copied, Learns
<1>12. CASE \E c \in pending : Linger(c)
  BY <1>12 DEF Linger, Works, Mounted, Applied, Learns, Changes
<1> QED
  BY <1>1, <1>2, <1>3, <1>4, <1>5, <1>6, <1>7, <1>8, <1>9, <1>10, <1>11, <1>12
  DEF BoxStep, ToolStep

\* A file that no failed call was about holds what the model was told, however
\* many commands, copies and lost connections came in between.
THEOREM WorkspacesAsTold == Spec => []WorkspaceAsTold
<1>1. Init => InSync /\ Idle
  BY DEF Init, SandboxInit, InSync, Idle
<1>2. EpisodeTypeOK /\ InSync /\ Idle /\ [Next]_vars => InSync' /\ Idle'
  BY BoxSteps, SyncStep, IdleStep DEF EpisodeTypeOK
<1>3. EpisodeTypeOK /\ InSync => WorkspaceAsTold
  BY DEF EpisodeTypeOK, SandboxTypeOK, InSync, WorkspaceAsTold
<1> QED
  BY <1>1, <1>2, <1>3, EpisodeTypeCorrect, PTL DEF Spec
=============================================================================
