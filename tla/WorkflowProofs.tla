---------------------------- MODULE WorkflowProofs ----------------------------
(***************************************************************************)
(* Theorems about Workflow for any samples, processes, job ids and faults: *)
(* the store is serialized by its flock in every mode, no status is given  *)
(* that the host's answers do not earn, and manual stages can be resumed.  *)
(***************************************************************************)
EXTENDS Workflow, SequenceTheorems, TLAPS

USE DEF vars, host, files, notes, driver, proc, pipeFrame
-----------------------------------------------------------------------------
(* The store.                                                              *)

\* Between its Load and its Write a process has the flock, and what it loaded
\* and checked is still what the file says.
Serialized ==
  /\ loaded = [p \in Procs |-> loaded[p]] /\ rest = [p \in Procs |-> rest[p]]
  /\ \A p \in Procs : loaded[p] # None =>
       /\ lock = p /\ loaded[p] = state
       /\ Running(p) /\ Next1(p) \in WorkflowStates
       /\ Allowed(state.current, Next1(p))

\* The steps between transitions have names of their own.
LEMMA StepNames ==
  WorkflowStates \cap {"infer1", "infer2", "submit1", "submit2", "marker1", "marker2",
                       "receipt1", "receipt2", "retrieve1", "retrieve2", "run_task",
                       "append"} = {}
BY DEF WorkflowStates, Legal

\* An action that leaves the store and every program alone.
LEMMA SerializedKept ==
  ASSUME Serialized, UNCHANGED <<state, lock, loaded, rest>>
  PROVE  Serialized'
BY DEF Serialized, Running, Next1

\* A step of a program that is not a transition.
LEMMA SerializedStep ==
  ASSUME Serialized, NEW p \in Procs, ~(Running(p) /\ Next1(p) \in WorkflowStates),
         NEW program, rest' = [rest EXCEPT ![p] = program], UNCHANGED <<state, lock, loaded>>
  PROVE  Serialized'
BY DEF Serialized, Running, Next1

LEMMA SerializedInvariant ==
  ASSUME Serialized, [Next]_vars
  PROVE  Serialized'
<1> USE StepNames, WorkflowAssumption
<1>1. ASSUME NEW p \in Procs, Load(p) PROVE Serialized'
  BY <1>1 DEF Load, Serialized, Running, Next1
<1>2. ASSUME NEW p \in Procs, Refuse(p) PROVE Serialized'
  <2>1. loaded[p] = None
    BY <1>2 DEF Refuse, Serialized
  <2> QED
    BY <1>2, <2>1 DEF Refuse, Ends, Serialized, Running, Next1
<1>3. ASSUME NEW p \in Procs, Write(p) PROVE Serialized'
  <2>1. \A q \in Procs : q # p => loaded[q] = None
    BY <1>3 DEF Write, Serialized
  <2> QED
    BY <1>3, <2>1 DEF Write, Advance, Serialized
<1>4. ASSUME NEW p \in Procs, Kill(p) PROVE Serialized'
  BY <1>4 DEF Kill, Ends, Serialized, Running, Next1
<1>5. ASSUME NEW p \in Procs, NEW stage \in Stages, StartStage(p, stage) PROVE Serialized'
  BY <1>5, SerializedStep DEF StartStage
<1>6. ASSUME NEW p \in Procs, Infer(p) \/ WriteMarker(p) PROVE Serialized'
  BY <1>6, SerializedStep DEF Infer, WriteMarker, Advance
<1>7. ASSUME NEW p \in Procs, Submit(p) PROVE Serialized'
  BY <1>7, SerializedStep DEF Submit, Advance
<1>8. ASSUME NEW p \in Procs, BreaksOff(p) \/ RetrieveFails(p) PROVE Serialized'
  BY <1>8, SerializedStep DEF BreaksOff, RetrieveFails, Ends
<1>9. ASSUME NEW p \in Procs, ReadReceipt(p) PROVE Serialized'
  BY <1>9, SerializedStep DEF ReadReceipt, Advance, Ends
<1>10. ASSUME NEW p \in Procs, Retrieve(p) PROVE Serialized'
  BY <1>10, SerializedStep DEF Retrieve
<1>11. ASSUME NEW s \in Samples, StartSample(s) PROVE Serialized'
  BY <1>11, SerializedStep DEF StartSample
<1>12. ASSUME NEW o \in Outcomes, RunTask(o) PROVE Serialized'
  BY <1>12, SerializedStep DEF RunTask
<1>13. CASE AppendSummary
  BY <1>13, SerializedStep DEF AppendSummary, Advance
<1>14. ASSUME NEW s \in Samples, PipeStart(s) \/ PipeRetrieve1(s) \/ PipeRetrieve2(s)
       PROVE  Serialized'
  BY <1>14, SerializedKept DEF PipeStart, PipeRetrieve1, PipeRetrieve2
<1>15. CASE PipeBreaksOff \/ HostAnswers \/ UNCHANGED vars
  BY <1>15, SerializedKept DEF PipeBreaksOff, HostAnswers
<1> QED
  BY <1>1, <1>2, <1>3, <1>4, <1>5, <1>6, <1>7, <1>8, <1>9, <1>10, <1>11, <1>12, <1>13,
     <1>14, <1>15 DEF Next, StageStep

LEMMA SerializedAlways == Spec => []Serialized
<1>1. Init => Serialized
  BY DEF Init, Serialized
<1> QED
  BY <1>1, SerializedInvariant, PTL DEF Spec

\* Only Write touches the file, and it writes what Load checked.
LEMMA LegalStep ==
  ASSUME Serialized, [Next]_vars, state'.current # state.current
  PROVE  state'.current \in Legal[state.current]
<1>1. ASSUME NEW p \in Procs, Write(p) PROVE state'.current \in Legal[state.current]
  <2>1. state'.current = Next1(p)
    BY <1>1 DEF Write
  <2>2. Allowed(state.current, Next1(p))
    BY <1>1 DEF Write, Serialized
  <2> QED
    BY <2>1, <2>2 DEF Allowed
<1>2. (\E p \in Procs : Write(p)) \/ UNCHANGED state
  BY DEF Next, StageStep, Load, Refuse, Infer, Submit, BreaksOff, WriteMarker, ReadReceipt,
     Retrieve, RetrieveFails, Kill, StartStage, StartSample, PipeStart, PipeRetrieve1,
     PipeRetrieve2, RunTask, AppendSummary, PipeBreaksOff, HostAnswers
<1> QED
  BY <1>1, <1>2

\* In every mode, whatever stages overlap, fail or are killed, the persisted
\* state only moves along LEGAL_TRANSITIONS (distributed_workflow.py:139-161).
THEOREM MovesLegally == Spec => StateMovesLegally
<1>1. Serialized /\ [Next]_vars
        => [state'.current # state.current => state'.current \in Legal[state.current]]_vars
  BY LegalStep
<1> QED
  BY <1>1, SerializedAlways, PTL DEF Spec, StateMovesLegally

-----------------------------------------------------------------------------
(* The programs.                                                           *)

\* What comes after a step in a manual stage.
Follows == {
  <<"HISTORY1_INFERENCE_READY", "HISTORY1_INFERENCE_RUNNING">>,
  <<"HISTORY1_INFERENCE_RUNNING", "infer1">>, <<"infer1", "submit1">>,
  <<"submit1", "HISTORY1_INFERENCE_COMPLETED">>,
  <<"HISTORY1_INFERENCE_COMPLETED", "VERIFICATION1_BUNDLE_READY">>,
  <<"VERIFICATION1_BUNDLE_READY", "VERIFICATION1_SUBMITTED">>,
  <<"VERIFICATION1_SUBMITTED", "marker1">>,
  <<"VERIFICATION1_QUEUED", "receipt1">>, <<"receipt1", "retrieve1">>,
  <<"VERIFICATION1_COMPLETED", "HISTORY2_READY">>,
  <<"VERIFICATION1_FAILED", "FINALIZING">>,
  <<"HISTORY2_INFERENCE_RUNNING", "infer2">>, <<"infer2", "submit2">>,
  <<"submit2", "HISTORY2_INFERENCE_COMPLETED">>,
  <<"HISTORY2_INFERENCE_COMPLETED", "VERIFICATION2_BUNDLE_READY">>,
  <<"VERIFICATION2_BUNDLE_READY", "VERIFICATION2_SUBMITTED">>,
  <<"VERIFICATION2_SUBMITTED", "marker2">>,
  <<"VERIFICATION2_QUEUED", "receipt2">>, <<"receipt2", "retrieve2">>,
  <<"VERIFICATION2_COMPLETED", "FINALIZING">>} \cup {"FINALIZING"} \X Terminals

Firsts == {"HISTORY1_INFERENCE_READY", "VERIFICATION1_QUEUED",
           "HISTORY2_INFERENCE_RUNNING", "VERIFICATION2_QUEUED"}
Lasts == {"marker1", "retrieve1", "HISTORY2_READY", "marker2", "retrieve2"} \cup Terminals

\* What is left of a manual stage.
Scripted(r) ==
  /\ r \in Seq(Steps)
  /\ \A i \in 1 .. Len(r) - 1 : <<r[i], r[i + 1]>> \in Follows
  /\ r # << >> => r[Len(r)] \in Lasts

\* The state a stage has left behind when it comes to a step.
Behind ==
  {c \in Follows : c[1] \in WorkflowStates} \cup
  {<<"HISTORY1_INFERENCE_RUNNING", "submit1">>,
   <<"HISTORY1_INFERENCE_RUNNING", "HISTORY1_INFERENCE_COMPLETED">>,
   <<"VERIFICATION1_QUEUED", "retrieve1">>,
   <<"VERIFICATION1_QUEUED", "VERIFICATION1_COMPLETED">>,
   <<"VERIFICATION1_QUEUED", "VERIFICATION1_FAILED">>,
   <<"HISTORY2_INFERENCE_RUNNING", "submit2">>,
   <<"HISTORY2_INFERENCE_RUNNING", "HISTORY2_INFERENCE_COMPLETED">>,
   <<"VERIFICATION2_QUEUED", "retrieve2">>,
   <<"VERIFICATION2_QUEUED", "VERIFICATION2_COMPLETED">>}

SequentialSteps == WorkflowStates \cup {"run_task", "append"}

\* In each mode the processes run programs of their own.
ProgramOK(p) ==
  /\ mode = "manual" =>
       Scripted(rest[p]) /\ sample[p] = Lead /\ ticket[p] \in JobIds \cup {None}
  /\ mode = "sequential" =>
       /\ rest[p] \in Seq(SequentialSteps) /\ ticket[p] \in Terminals \cup {None}
       /\ \A i \in 1 .. Len(rest[p]) : rest[p][i] = "append" => ticket[p] \in Terminals
  /\ mode = "pipeline" => rest[p] = << >> /\ ticket[p] = None

ProgramsOK == \A p \in Procs : ProgramOK(p)

-----------------------------------------------------------------------------
(* The host.                                                               *)

\* A job that is not accepted has no answer.
AnswersKnown == \A j \in JobIds : j \notin known => answer[j] = None

\* Receipts name accepted jobs, and no judge has a say in history 1.
HostOK ==
  /\ answer \in [JobIds -> Verdicts \cup {"infra_failed", None}] /\ AnswersKnown
  /\ \A k \in Samples \X Histories : receipt[k] # None => receipt[k] \in known
  /\ \A s \in Samples : AnswerTo(s, "history1") # "uncertain"

-----------------------------------------------------------------------------
(* The pipeline.                                                           *)

\* The receipts a sample goes by are there, and it has a status only when the
\* answers earn it.
SamplePiped(s) ==
  /\ pipe[s] # "todo" => receipt[<<s, "history1">>] # None
  /\ pipe[s] = "verify2" => receipt[<<s, "history2">>] # None
  /\ results[s] # None => pipe[s] = "done"
  /\ pipe[s] = "verify2" => AnswerTo(s, "history1") = "passed"
  /\ results[s] # None => Earned(results[s], s)

Piped ==
  /\ mode = "pipeline" => \A s \in Samples : SamplePiped(s)
  /\ mode # "pipeline" => \A s \in Samples : pipe[s] = "todo"

-----------------------------------------------------------------------------
(* The manual stages.                                                      *)

\* Some stage may start.
Resumable ==
  {"CREATED", "HISTORY1_INFERENCE_READY", "VERIFICATION1_SUBMITTED", "VERIFICATION1_QUEUED",
   "HISTORY2_READY", "HISTORY2_INFERENCE_RUNNING", "VERIFICATION2_SUBMITTED",
   "VERIFICATION2_QUEUED"} \cup Terminals

\* Any other state is left by a stage that is on its way, unless one broke off
\* there.
Attended ==
  mode = "manual" /\ state.current \notin Resumable =>
    \/ state.current \in broken
    \/ \E p \in Procs : Running(p) /\ <<state.current, Next1(p)>> \in Behind

SubmitStep(h) == IF h = "history1" THEN "submit1" ELSE "submit2"
MarkerStep(h) == IF h = "history1" THEN "marker1" ELSE "marker2"
RetrieveStep(h) == IF h = "history1" THEN "retrieve1" ELSE "retrieve2"
AfterSubmit(h) ==
  IF h = "history1"
    THEN {"HISTORY1_INFERENCE_COMPLETED", "VERIFICATION1_BUNDLE_READY",
          "VERIFICATION1_SUBMITTED", "marker1"}
    ELSE {"HISTORY2_INFERENCE_COMPLETED", "VERIFICATION2_BUNDLE_READY",
          "VERIFICATION2_SUBMITTED", "marker2"}

LastStep(p) == rest[p][Len(rest[p])]
Deciding == {"VERIFICATION1_FAILED", "VERIFICATION2_COMPLETED", "FINALIZING"} \cup Terminals

\* What a stage that runs alone knows at its next step.
Carries(p) ==
  /\ Next1(p) \in Firsts \/ <<state.current, Next1(p)>> \in Behind
  /\ \A h \in Histories :
       /\ Next1(p) \in {SubmitStep(h)} \cup AfterSubmit(h) => <<Lead, h>> \in checkpoint
       /\ Next1(p) \in {RetrieveStep(h)} \cup AfterSubmit(h) =>
            ticket[p] # None /\ ticket[p] = receipt[<<Lead, h>>]
       /\ Next1(p) = MarkerStep(h) => state.jobs[h] = ticket[p]
  /\ Next1(p) = "VERIFICATION1_COMPLETED" => AnswerTo(Lead, "history1") = "passed"
  /\ LastStep(p) \in Terminals => Next1(p) \in Deciding /\ Earned(LastStep(p), Lead)

\* What the state promises.
Standing ==
  /\ state.current \in SecondHalf \cup {"VERIFICATION1_COMPLETED"} =>
       AnswerTo(Lead, "history1") = "passed"
  /\ state.current \in Terminals => Earned(state.current, Lead)
  /\ \A h \in Histories : Waiting(h) =>
       /\ state.jobs[h] # None /\ state.jobs[h] = receipt[<<Lead, h>>]
       /\ <<Lead, h>> \in checkpoint
       /\ \/ Unmarked(h) \/ marker[h] = state.jobs[h]
          \/ \E p \in Procs : Running(p) /\ Next1(p) = MarkerStep(h)

\* At most one stage runs, and the state does not promise too much.
Alone(p) ==
  /\ \A q \in Procs : q # p => ~Running(q)
  /\ Running(p) => Carries(p)
  /\ Standing

OneByOne == mode = "manual" /\ ~overlapped => \E p \in Procs : Alone(p)
-----------------------------------------------------------------------------
(* Lemmas about programs.                                                  *)

LEMMA StateNames ==
  WorkflowStates = {"CREATED",
    "HISTORY1_INFERENCE_READY", "HISTORY1_INFERENCE_RUNNING", "HISTORY1_INFERENCE_COMPLETED",
    "VERIFICATION1_BUNDLE_READY", "VERIFICATION1_SUBMITTED", "VERIFICATION1_QUEUED",
    "VERIFICATION1_RUNNING", "VERIFICATION1_COMPLETED", "VERIFICATION1_FAILED",
    "HISTORY2_READY", "HISTORY2_INFERENCE_RUNNING", "HISTORY2_INFERENCE_COMPLETED",
    "VERIFICATION2_BUNDLE_READY", "VERIFICATION2_SUBMITTED", "VERIFICATION2_QUEUED",
    "VERIFICATION2_PYTEST_RUNNING", "VERIFICATION2_JUDGE_RUNNING",
    "VERIFICATION2_COMPLETED", "VERIFICATION2_FAILED", "FINALIZING"} \cup Terminals
BY DEF WorkflowStates, Legal, Terminals

LEMMA AllSteps ==
  /\ WorkflowStates \subseteq Steps /\ SequentialSteps \subseteq Steps
  /\ {"infer1", "infer2", "submit1", "submit2", "marker1", "marker2", "receipt1",
      "receipt2", "retrieve1", "retrieve2"} \subseteq Steps
BY DEF Steps, SequentialSteps

\* A step taken from a list leaves what followed it.
LEMMA TailOf ==
  ASSUME NEW S, NEW r \in Seq(S), r # << >>
  PROVE  /\ Tail(r) \in Seq(S) /\ Head(r) \in S /\ Head(r) = r[1]
         /\ Len(r) \in Nat \ {0} /\ Len(Tail(r)) = Len(r) - 1
         /\ \A i \in 1 .. Len(r) - 1 : Tail(r)[i] = r[i + 1]
         /\ Tail(r) = << >> <=> Len(r) = 1
<1>1. \A s \in Seq(S) : s = << >> <=> Len(s) = 0
  BY EmptySeq
<1>2. Len(r) \in Nat \ {0}
  BY <1>1
<1>3. Tail(r) \in Seq(S) /\ Head(r) \in S /\ Head(r) = r[1] /\ Len(Tail(r)) = Len(r) - 1
      /\ \A i \in 1 .. Len(r) - 1 : Tail(r)[i] = r[i + 1]
  BY <1>2
<1>4. Tail(r) = << >> <=> Len(Tail(r)) = 0
  BY <1>1, <1>3
<1>5. Tail(r) = << >> <=> Len(r) = 1
  BY <1>2, <1>3, <1>4
<1> QED
  BY <1>2, <1>3, <1>5

\* What remains of a manual stage after one of its steps, and that step.
LEMMA ScriptedTail ==
  ASSUME NEW r, Scripted(r), r # << >>
  PROVE  /\ Scripted(Tail(r)) /\ Head(r) \in Steps
         /\ Tail(r) = << >> => Head(r) \in Lasts
         /\ Tail(r) # << >> => /\ <<Head(r), Head(Tail(r))>> \in Follows
                               /\ Tail(r)[Len(Tail(r))] = r[Len(r)]
         /\ Head(r) \in Terminals => Head(r) = r[Len(r)]
<1>1. r \in Seq(Steps) /\ \A i \in 1 .. Len(r) - 1 : <<r[i], r[i + 1]>> \in Follows
  BY DEF Scripted
<1>2. /\ Tail(r) \in Seq(Steps) /\ Head(r) \in Steps /\ Head(r) = r[1]
      /\ Len(r) \in Nat \ {0} /\ Len(Tail(r)) = Len(r) - 1
      /\ \A i \in 1 .. Len(r) - 1 : Tail(r)[i] = r[i + 1]
      /\ Tail(r) = << >> <=> Len(r) = 1
  BY <1>1, TailOf
<1>3. Tail(r) # << >> => /\ Head(Tail(r)) = r[2] /\ Tail(r)[Len(Tail(r))] = r[Len(r)]
                         /\ <<r[1], r[2]>> \in Follows
  <2> SUFFICES ASSUME Tail(r) # << >>
               PROVE  /\ Head(Tail(r)) = r[2] /\ Tail(r)[Len(Tail(r))] = r[Len(r)]
                      /\ <<r[1], r[2]>> \in Follows
    OBVIOUS
  <2>1. Head(Tail(r)) = Tail(r)[1]
    BY <1>2, TailOf
  <2> QED
    BY <1>1, <1>2, <2>1
<1>4. \A i \in 1 .. Len(Tail(r)) - 1 : <<Tail(r)[i], Tail(r)[i + 1]>> \in Follows
  BY <1>1, <1>2
<1>5. Head(r) \in Terminals => Tail(r) = << >>
  BY <1>2, <1>3 DEF Follows, Terminals
<1> QED
  BY <1>2, <1>3, <1>4, <1>5 DEF Scripted

LEMMA EmptyScript == Scripted(<< >>)
<1>1. << >> \in Seq(Steps) /\ Len(<< >>) = 0
  OBVIOUS
<1> QED
  BY <1>1 DEF Scripted

\* The programs of the stages.
LEMMA StagePrograms ==
  ASSUME NEW stage \in Stages
  PROVE  /\ Scripted(Program(stage)) /\ Program(stage) # << >>
         /\ Head(Program(stage)) \in Firsts
         /\ Program(stage)[Len(Program(stage))] \notin Terminals
<1>1. Program(stage) \in Seq(Steps)
  <2>1. CASE stage = <<"history1", "infer-submit">>
    BY StateNames, AllSteps, <2>1 DEF Program
  <2>2. CASE stage = <<"history1", "retrieve">>
    BY StateNames, AllSteps, <2>2 DEF Program
  <2>3. CASE stage = <<"history2", "infer-submit">>
    BY StateNames, AllSteps, <2>3 DEF Program
  <2>4. CASE stage = <<"history2", "retrieve">>
    BY StateNames, AllSteps, <2>4 DEF Program
  <2> QED
    BY <2>1, <2>2, <2>3, <2>4 DEF Stages, Histories
<1>2. Scripted(Program(stage))
  BY <1>1 DEF Scripted, Program, Stages, Follows, Lasts, Histories
<1>3. Head(Program(stage)) \in Firsts /\ Len(Program(stage)) # 0
      /\ Program(stage)[Len(Program(stage))] \notin Terminals
  BY <1>1 DEF Program, Stages, Histories, Firsts, Terminals
<1> QED
  BY <1>1, <1>2, <1>3, EmptySeq

\* And what follows the verdict.
LEMMA VerdictPrograms ==
  ASSUME NEW v \in Verdicts, NEW h \in Histories
  PROVE  LET r == AfterVerdict(h, v)
         IN  /\ Scripted(r) /\ r # << >>
             /\ Head(r) = CASE h = "history2" -> "VERIFICATION2_COMPLETED"
                            [] h = "history1" /\ v = "passed" -> "VERIFICATION1_COMPLETED"
                            [] OTHER -> "VERIFICATION1_FAILED"
             /\ r[Len(r)] = CASE h = "history2" -> Terminal(v)
                              [] h = "history1" /\ v = "passed" -> "HISTORY2_READY"
                              [] OTHER -> "REJECTED"
<1>1. AfterVerdict(h, v) \in Seq(Steps)
  BY StateNames, AllSteps DEF AfterVerdict, Verdicts, Histories, Terminals, Terminal
<1>2. Scripted(AfterVerdict(h, v))
  BY <1>1 DEF AfterVerdict, Verdicts, Histories, Scripted, Follows, Lasts, Terminals, Terminal
<1>3. Len(AfterVerdict(h, v)) # 0
  BY DEF AfterVerdict
<1>4. Head(AfterVerdict(h, v)) = CASE h = "history2" -> "VERIFICATION2_COMPLETED"
                                   [] h = "history1" /\ v = "passed" -> "VERIFICATION1_COMPLETED"
                                   [] OTHER -> "VERIFICATION1_FAILED"
  BY DEF AfterVerdict, Histories
<1>5. AfterVerdict(h, v)[Len(AfterVerdict(h, v))] =
        CASE h = "history2" -> Terminal(v)
          [] h = "history1" /\ v = "passed" -> "HISTORY2_READY"
          [] OTHER -> "REJECTED"
  BY DEF AfterVerdict, Histories
<1> QED
  BY <1>1, <1>2, <1>3, <1>4, <1>5, EmptySeq

\* The transitions of a sequential sample.
LEMMA RecordedProgram ==
  ASSUME NEW o \in Outcomes
  PROVE  Recorded(o) \in Seq(SequentialSteps)
<1> DEFINE second ==
      IF o.verified2
        THEN <<"VERIFICATION1_COMPLETED", "HISTORY2_READY", "HISTORY2_INFERENCE_RUNNING",
               "HISTORY2_INFERENCE_COMPLETED", "VERIFICATION2_BUNDLE_READY",
               "VERIFICATION2_SUBMITTED", "VERIFICATION2_COMPLETED">>
        ELSE <<"VERIFICATION1_FAILED">>
<1>1. WorkflowStates \subseteq SequentialSteps /\ "append" \in SequentialSteps
  BY DEF SequentialSteps
<1>2. <<"HISTORY1_INFERENCE_COMPLETED", "VERIFICATION1_BUNDLE_READY",
        "VERIFICATION1_SUBMITTED">> \in Seq(SequentialSteps)
  BY <1>1, StateNames
<1>3. second \in Seq(SequentialSteps)
  BY <1>1, StateNames
<1>4. <<"FINALIZING", o.status, "append">> \in Seq(SequentialSteps)
  BY <1>1, StateNames DEF Outcomes, Terminals
<1>5. (<<"HISTORY1_INFERENCE_COMPLETED", "VERIFICATION1_BUNDLE_READY",
         "VERIFICATION1_SUBMITTED">> \o second) \in Seq(SequentialSteps)
  BY <1>2, <1>3
<1>6. ((<<"HISTORY1_INFERENCE_COMPLETED", "VERIFICATION1_BUNDLE_READY",
          "VERIFICATION1_SUBMITTED">> \o second) \o <<"FINALIZING", o.status, "append">>)
        \in Seq(SequentialSteps)
  BY <1>4, <1>5
<1> QED
  BY <1>6 DEF Recorded

-----------------------------------------------------------------------------
(* The types.                                                              *)

\* Who touches the store.
LEMMA StoreSteps ==
  ASSUME [Next]_vars
  PROVE  UNCHANGED <<state, lock, loaded>> \/ \E p \in Procs : Load(p) \/ Write(p) \/ Kill(p)
BY DEF Next, StageStep, Refuse, Infer, Submit, BreaksOff, WriteMarker, ReadReceipt,
   Retrieve, RetrieveFails, StartStage, StartSample, PipeStart, PipeRetrieve1,
   PipeRetrieve2, RunTask, AppendSummary, PipeBreaksOff, HostAnswers

\* What is written is a state: its job ids come from a manual stage.
LEMMA StoreStep ==
  ASSUME TypeOK, Serialized, ProgramsOK, [Next]_vars
  PROVE  StoreTypeOK' /\ (\A p \in Procs : loaded[p] # None <=> lock = p)'
<1> USE RecordAssumption, WorkflowAssumption
<1>1. CASE UNCHANGED <<state, lock, loaded>>
  BY <1>1 DEF TypeOK, StoreTypeOK
<1>2. ASSUME NEW p \in Procs, Load(p)
      PROVE  StoreTypeOK' /\ (\A q \in Procs : loaded[q] # None <=> lock = q)'
  BY <1>2 DEF Load, TypeOK, StoreTypeOK
<1>3. ASSUME NEW p \in Procs, Kill(p)
      PROVE  StoreTypeOK' /\ (\A q \in Procs : loaded[q] # None <=> lock = q)'
  BY <1>3 DEF Kill, TypeOK, StoreTypeOK
<1>4. ASSUME NEW p \in Procs, Write(p)
      PROVE  StoreTypeOK' /\ (\A q \in Procs : loaded[q] # None <=> lock = q)'
  <2>1. lock = p /\ loaded[p] = state /\ Next1(p) \in WorkflowStates
    BY <1>4 DEF Write, Serialized
  <2>2. state.current \in WorkflowStates /\ state.samples \in [Samples -> WorkflowStates]
        /\ state.jobs \in [Histories -> JobIds \cup {None}]
    BY DEF TypeOK, StoreTypeOK, StateRecord
  <2>3. mode = "manual" => ticket[p] \in JobIds \cup {None}
    BY DEF ProgramsOK, ProgramOK
  <2>4. JobsAfter(p) \in [Histories -> JobIds \cup {None}]
    BY <2>1, <2>2, <2>3 DEF JobsAfter, Histories
  <2>5. [loaded[p].samples EXCEPT ![sample[p]] = Next1(p)] \in [Samples -> WorkflowStates]
    BY <2>1, <2>2
  <2>6. state' \in StateRecord
    BY <1>4, <2>1, <2>4, <2>5 DEF Write, StateRecord
  <2>7. lock' = None /\ loaded' = [loaded EXCEPT ![p] = None]
    BY <1>4 DEF Write
  <2> QED
    BY <2>1, <2>6, <2>7 DEF TypeOK, StoreTypeOK
<1> QED
  BY <1>1, <1>2, <1>3, <1>4, StoreSteps

\* Who touches a program.
LEMMA ProgramSteps ==
  ASSUME [Next]_vars
  PROVE  \/ UNCHANGED <<rest, sample, ticket>>
         \/ \E p \in Procs : \/ Refuse(p) \/ Write(p) \/ Infer(p) \/ Submit(p) \/ BreaksOff(p)
                             \/ WriteMarker(p) \/ ReadReceipt(p) \/ Retrieve(p)
                             \/ RetrieveFails(p) \/ Kill(p)
                             \/ \E stage \in Stages : StartStage(p, stage)
         \/ \E s \in Samples : StartSample(s)
         \/ \E o \in Outcomes : RunTask(o)
         \/ AppendSummary
BY DEF Next, StageStep, Load, PipeStart, PipeRetrieve1, PipeRetrieve2, PipeBreaksOff,
   HostAnswers

LEMMA ModeKept ==
  ASSUME [Next]_vars
  PROVE  mode' = mode
BY DEF Next, StageStep, Load, Refuse, Write, Infer, Submit, BreaksOff, WriteMarker,
   ReadReceipt, Retrieve, RetrieveFails, Kill, StartStage, StartSample, PipeStart,
   PipeRetrieve1, PipeRetrieve2, RunTask, AppendSummary, PipeBreaksOff, HostAnswers

\* Inferences, submissions, markers and retrievals belong to manual stages, the
\* other steps that are no transitions to the sequential driver.
LEMMA StepMode ==
  ASSUME TypeOK, ProgramsOK, NEW p \in Procs, Running(p)
  PROVE  /\ Next1(p) \notin SequentialSteps => mode = "manual"
         /\ Next1(p) \in {"run_task", "append"} => mode = "sequential"
<1>1. mode \in {"manual", "sequential", "pipeline"}
  BY WorkflowAssumption DEF TypeOK, FilesTypeOK
<1>2. mode # "pipeline"
  BY DEF ProgramsOK, ProgramOK, Running
<1>3. mode = "sequential" => Next1(p) \in SequentialSteps
  BY TailOf DEF ProgramsOK, ProgramOK, Running, Next1
<1>4. mode = "manual" => Next1(p) \notin {"run_task", "append"}
  <2> SUFFICES ASSUME mode = "manual" PROVE Next1(p) \notin {"run_task", "append"}
    OBVIOUS
  <2>1. Scripted(rest[p]) /\ rest[p] # << >>
    BY DEF ProgramsOK, ProgramOK, Running
  <2>2. Next1(p) \in Lasts \/ <<Next1(p), Head(Tail(rest[p]))>> \in Follows
    BY <2>1, ScriptedTail DEF Next1
  <2> QED
    BY <2>2 DEF Lasts, Follows, Terminals
<1> QED
  BY <1>1, <1>2, <1>3, <1>4

\* A program that ends.
LEMMA ProgramEnds ==
  ASSUME NEW p \in Procs, rest'[p] = << >>, ticket'[p] = None,
         sample'[p] = sample[p], mode' = mode, ProgramOK(p)
  PROVE  ProgramOK(p)'
<1>1. << >> \in Seq(SequentialSteps) /\ Len(<< >>) = 0
  OBVIOUS
<1> QED
  BY <1>1, EmptyScript DEF ProgramOK

\* One that goes on.
LEMMA ProgramAdvances ==
  ASSUME NEW p \in Procs, ProgramOK(p), Running(p), rest'[p] = Tail(rest[p]),
         ticket'[p] = ticket[p] \/ (mode = "manual" /\ ticket'[p] \in JobIds),
         sample'[p] = sample[p], mode' = mode
  PROVE  ProgramOK(p)'
<1>1. mode = "manual" => ProgramOK(p)'
  BY ScriptedTail DEF ProgramOK, Running
<1>2. mode = "sequential" => ProgramOK(p)'
  <2> SUFFICES ASSUME mode = "sequential" PROVE ProgramOK(p)'
    OBVIOUS
  <2>1. rest[p] \in Seq(SequentialSteps) /\ rest[p] # << >>
    BY DEF ProgramOK, Running
  <2>2. /\ rest'[p] \in Seq(SequentialSteps) /\ Len(rest[p]) \in Nat
        /\ Len(rest'[p]) = Len(rest[p]) - 1
        /\ \A i \in 1 .. Len(rest[p]) - 1 : rest'[p][i] = rest[p][i + 1]
    BY <2>1, TailOf
  <2>3. ASSUME NEW i \in 1 .. Len(rest'[p]), rest'[p][i] = "append"
        PROVE  ticket[p] \in Terminals
    <3>1. i + 1 \in 1 .. Len(rest[p]) /\ rest[p][i + 1] = "append"
      BY <2>2, <2>3
    <3> QED
      BY <3>1 DEF ProgramOK
  <2> QED
    BY <2>2, <2>3 DEF ProgramOK
<1>3. mode # "pipeline"
  BY DEF ProgramOK, Running
<1> QED
  BY <1>1, <1>2, <1>3 DEF ProgramOK

LEMMA ProgramsStep ==
  ASSUME TypeOK, Serialized, ProgramsOK, [Next]_vars
  PROVE  ProgramsOK'
<1>0. mode' = mode
  BY ModeKept
<1> USE DEF ProcTypeOK, TypeOK
<1>1. CASE UNCHANGED <<rest, sample, ticket>>
  BY <1>0, <1>1 DEF ProgramsOK, ProgramOK
<1>2. ASSUME NEW p \in Procs,
             \A q \in Procs : q # p => rest'[q] = rest[q] /\ sample'[q] = sample[q]
                                         /\ ticket'[q] = ticket[q],
             ProgramOK(p)'
      PROVE  ProgramsOK'
  BY <1>0, <1>2 DEF ProgramsOK, ProgramOK
<1>3. ASSUME NEW p \in Procs, Refuse(p) \/ BreaksOff(p) \/ RetrieveFails(p) \/ Kill(p)
      PROVE  ProgramsOK'
  <2>1. Ends(p) /\ sample' = sample
    BY <1>3 DEF Refuse, BreaksOff, RetrieveFails, Kill
  <2>2. ProgramOK(p)'
    BY <1>0, <2>1, ProgramEnds DEF Ends, ProgramsOK
  <2> QED
    BY <1>2, <2>1, <2>2 DEF Ends
<1>4. ASSUME NEW p \in Procs, Write(p) \/ Infer(p) \/ WriteMarker(p) PROVE ProgramsOK'
  <2>1. Running(p) /\ Advance(p) /\ ticket' = ticket /\ sample' = sample
    BY <1>4 DEF Write, Infer, WriteMarker, Serialized
  <2>2. ProgramOK(p)'
    BY <1>0, <2>1, ProgramAdvances DEF Advance, ProgramsOK
  <2> QED
    BY <1>2, <2>1, <2>2 DEF Advance
<1>5. ASSUME NEW p \in Procs, Submit(p) PROVE ProgramsOK'
  <2>1. Running(p) /\ Advance(p) /\ sample' = sample
        /\ \E j \in JobIds : ticket' = [ticket EXCEPT ![p] = j]
    BY <1>5 DEF Submit
  <2>2. mode = "manual"
    BY <1>5, StepMode, StepNames DEF Submit, SequentialSteps
  <2>3. ProgramOK(p)'
    BY <1>0, <2>1, <2>2, ProgramAdvances DEF Advance, ProgramsOK
  <2> QED
    BY <1>2, <2>1, <2>3 DEF Advance
<1>6. ASSUME NEW p \in Procs, ReadReceipt(p) PROVE ProgramsOK'
  <2> DEFINE j == receipt[<<sample[p], About(Next1(p))>>]
  <2>0. mode = "manual" /\ sample' = sample /\ Running(p)
    BY <1>6, StepMode, StepNames DEF ReadReceipt, SequentialSteps
  <2>1. j \in JobIds \cup {None}
    BY DEF About, Histories, FilesTypeOK
  <2>2. CASE j = None
    <3>1. Ends(p)
      BY <1>6, <2>2 DEF ReadReceipt
    <3>2. ProgramOK(p)'
      BY <1>0, <2>0, <3>1, ProgramEnds DEF Ends, ProgramsOK
    <3> QED
      BY <1>2, <2>0, <3>1, <3>2 DEF Ends
  <2>3. CASE j # None
    <3>1. Advance(p) /\ ticket' = [ticket EXCEPT ![p] = j]
      BY <1>6, <2>3 DEF ReadReceipt
    <3> HIDE DEF j
    <3>2. ProgramOK(p)'
      BY <1>0, <2>0, <2>1, <2>3, <3>1, ProgramAdvances DEF Advance, ProgramsOK
    <3> QED
      BY <1>2, <2>0, <3>1, <3>2 DEF Advance
  <2> QED
    BY <2>2, <2>3
<1>7. ASSUME NEW p \in Procs, Retrieve(p) PROVE ProgramsOK'
  <2> DEFINE r == AfterVerdict(About(Next1(p)), answer[ticket[p]])
  <2>1. mode = "manual"
    BY <1>7, StepMode, StepNames DEF Retrieve, SequentialSteps
  <2>2. Scripted(r)
    BY <1>7, VerdictPrograms DEF Retrieve, About, Histories
  <2>3. rest' = [rest EXCEPT ![p] = r] /\ ticket' = ticket /\ sample' = sample
    BY <1>7 DEF Retrieve
  <2> HIDE DEF r
  <2>4. ProgramOK(p)'
    BY <1>0, <2>1, <2>2, <2>3 DEF ProgramsOK, ProgramOK
  <2> QED
    BY <1>2, <2>3, <2>4
<1>8. ASSUME NEW p \in Procs, NEW stage \in Stages, StartStage(p, stage) PROVE ProgramsOK'
  <2>1. ProgramOK(p)'
    BY <1>0, <1>8, StagePrograms DEF StartStage, ProgramsOK, ProgramOK
  <2> QED
    BY <1>2, <1>8, <2>1 DEF StartStage
<1>9. ASSUME NEW s \in Samples, StartSample(s) PROVE ProgramsOK'
  <2> DEFINE r == <<"HISTORY1_INFERENCE_READY", "HISTORY1_INFERENCE_RUNNING", "run_task">>
  <2>1. WorkflowStates \subseteq SequentialSteps /\ "run_task" \in SequentialSteps
    BY DEF SequentialSteps
  <2>2. r \in Seq(SequentialSteps)
    BY <2>1, StateNames
  <2>3. \A i \in 1 .. Len(r) : r[i] # "append"
    OBVIOUS
  <2>4. /\ rest' = [rest EXCEPT ![Driver] = r] /\ ticket' = ticket /\ mode = "sequential"
        /\ sample' = [sample EXCEPT ![Driver] = s] /\ Driver \in Procs
    BY <1>9, WorkflowAssumption DEF StartSample
  <2> HIDE DEF r
  <2>5. ProgramOK(Driver)'
    BY <1>0, <2>2, <2>3, <2>4 DEF ProgramsOK, ProgramOK
  <2> QED
    BY <1>2, <2>4, <2>5
<1>10. ASSUME NEW o \in Outcomes, RunTask(o) PROVE ProgramsOK'
  <2>1. Driver \in Procs /\ mode = "sequential"
    BY <1>10, WorkflowAssumption, StepMode DEF RunTask
  <2>2. /\ rest' = [rest EXCEPT ![Driver] = Recorded(o)] /\ sample' = sample
        /\ ticket' = [ticket EXCEPT ![Driver] = o.status]
    BY <1>10 DEF RunTask
  <2>3. o.status \in Terminals
    BY DEF Outcomes, Terminals
  <2>4. ProgramOK(Driver)'
    BY <1>0, <2>1, <2>2, <2>3, RecordedProgram DEF ProgramsOK, ProgramOK
  <2> QED
    BY <1>2, <2>1, <2>2, <2>4
<1>11. CASE AppendSummary
  <2>1. Driver \in Procs /\ Running(Driver) /\ Advance(Driver) /\ ticket' = ticket
        /\ sample' = sample
    BY <1>11, WorkflowAssumption DEF AppendSummary
  <2>2. ProgramOK(Driver)'
    BY <1>0, <2>1, ProgramAdvances DEF Advance, ProgramsOK
  <2> QED
    BY <1>2, <2>1, <2>2 DEF Advance
<1> QED
  BY <1>1, <1>3, <1>4, <1>5, <1>6, <1>7, <1>8, <1>9, <1>10, <1>11, ProgramSteps

\* A process' own variables keep their types.
LEMMA ProcStep ==
  ASSUME TypeOK, Serialized, ProgramsOK, [Next]_vars
  PROVE  ProcTypeOK'
<1>1. mode' \in {"manual", "sequential", "pipeline"}
  BY ModeKept, WorkflowAssumption DEF TypeOK, FilesTypeOK
<1>2. ProgramsOK'
  BY ProgramsStep
<1>3. /\ rest' = [p \in Procs |-> rest'[p]]
      /\ ticket' = [p \in Procs |-> ticket'[p]]
      /\ sample' \in [Procs -> Samples]
  <2>0. /\ rest = [p \in Procs |-> rest[p]] /\ ticket = [p \in Procs |-> ticket[p]]
        /\ sample \in [Procs -> Samples]
    BY DEF TypeOK, ProcTypeOK
  <2>1. CASE UNCHANGED <<rest, sample, ticket>>
    BY <2>0, <2>1
  <2>2. ASSUME NEW p \in Procs, Refuse(p) \/ BreaksOff(p) \/ RetrieveFails(p) \/ Kill(p)
        PROVE  <1>3!1 /\ <1>3!2 /\ <1>3!3
    BY <2>0, <2>2 DEF Refuse, BreaksOff, RetrieveFails, Kill, Ends
  <2>3. ASSUME NEW p \in Procs, Write(p) \/ Infer(p) \/ WriteMarker(p) \/ Retrieve(p)
        PROVE  <1>3!1 /\ <1>3!2 /\ <1>3!3
    BY <2>0, <2>3 DEF Write, Infer, WriteMarker, Retrieve, Advance
  <2>4. ASSUME NEW p \in Procs, Submit(p) \/ ReadReceipt(p)
        PROVE  <1>3!1 /\ <1>3!2 /\ <1>3!3
    BY <2>0, <2>4 DEF Submit, ReadReceipt, Advance, Ends
  <2>5. ASSUME NEW p \in Procs, NEW stage \in Stages, StartStage(p, stage)
        PROVE  <1>3!1 /\ <1>3!2 /\ <1>3!3
    BY <2>0, <2>5 DEF StartStage
  <2>6. CASE AppendSummary \/ (\E s \in Samples : StartSample(s)) \/ \E o \in Outcomes : RunTask(o)
    BY <2>0, <2>6 DEF AppendSummary, StartSample, RunTask, Advance
  <2> QED
    BY <2>1, <2>2, <2>3, <2>4, <2>5, <2>6, ProgramSteps
<1>4. ASSUME NEW p \in Procs
      PROVE  rest'[p] \in Seq(Steps) /\ ticket'[p] \in JobIds \cup Terminals \cup {None}
  <2>1. CASE mode' = "manual"
    BY <1>2, <2>1 DEF ProgramsOK, ProgramOK, Scripted
  <2>2. CASE mode' = "sequential"
    BY <1>2, <2>2, AllSteps DEF ProgramsOK, ProgramOK
  <2>3. CASE mode' = "pipeline"
    <3>1. << >> \in Seq(Steps)
      OBVIOUS
    <3> QED
      BY <1>2, <2>3, <3>1 DEF ProgramsOK, ProgramOK
  <2> QED
    BY <1>1, <2>1, <2>2, <2>3
<1>5. faults' \in 0 .. MaxFaults /\ failed' \in BOOLEAN /\ overlapped' \in BOOLEAN
  <2>1. faults' = faults \/ (faults < MaxFaults /\ faults' = faults + 1)
    BY DEF Next, StageStep, Load, Refuse, Write, Infer, Submit,
       BreaksOff, WriteMarker, ReadReceipt, Retrieve, RetrieveFails, Kill, StartStage,
       StartSample, PipeStart, PipeRetrieve1, PipeRetrieve2, RunTask, AppendSummary,
       PipeBreaksOff, HostAnswers
  <2>2. failed' \in {failed, TRUE, failed \/ mode = "sequential"}
          \/ \E p \in Procs : Kill(p)
    BY DEF Next, StageStep, Load, Refuse, Write, Infer, Submit,
       BreaksOff, WriteMarker, ReadReceipt, Retrieve, RetrieveFails, StartStage,
       StartSample, PipeStart, PipeRetrieve1, PipeRetrieve2, RunTask, AppendSummary,
       PipeBreaksOff, HostAnswers
  <2>3. overlapped' = overlapped \/ \E p \in Procs, stage \in Stages : StartStage(p, stage)
    BY DEF Next, StageStep, Load, Refuse, Write, Infer, Submit,
       BreaksOff, WriteMarker, ReadReceipt, Retrieve, RetrieveFails, Kill,
       StartSample, PipeStart, PipeRetrieve1, PipeRetrieve2, RunTask, AppendSummary,
       PipeBreaksOff, HostAnswers
  <2>4. failed \in BOOLEAN /\ overlapped \in BOOLEAN /\ faults \in 0 .. MaxFaults
    BY DEF TypeOK, ProcTypeOK
  <2>5. failed' \in BOOLEAN
    BY <2>2, <2>4 DEF Kill
  <2>6. overlapped' \in BOOLEAN
    BY <2>3, <2>4 DEF StartStage
  <2> QED
    BY <2>1, <2>4, <2>5, <2>6, WorkflowAssumption
<1>6. broken' \subseteq WorkflowStates
  <2>1. broken \subseteq WorkflowStates /\ state.current \in WorkflowStates
    BY DEF TypeOK, ProcTypeOK, StoreTypeOK, StateRecord
  <2>2. broken' = broken \/ broken' = {} \/ \E p \in Procs : BreaksMidway(p)
    BY DEF Next, StageStep, Load, Refuse, Write, Infer, Submit,
       BreaksOff, WriteMarker, ReadReceipt, Retrieve, RetrieveFails, Kill, StartStage,
       StartSample, PipeStart, PipeRetrieve1, PipeRetrieve2, RunTask, AppendSummary,
       PipeBreaksOff, HostAnswers, pipeFrame, notes, vars
  <2> QED
    BY <2>1, <2>2 DEF BreaksMidway
<1> QED
  BY <1>3, <1>4, <1>5, <1>6 DEF ProcTypeOK

-----------------------------------------------------------------------------
(* The answers.                                                            *)

\* What a step does to the jobs and the receipts.
LEMMA HostSteps ==
  ASSUME TypeOK, ProgramsOK, [Next]_vars
  PROVE  \/ UNCHANGED <<known, answer, receipt>>
         \/ (\E j \in JobIds : Board!Accept(j)) /\ receipt' = receipt
         \/ \E s \in Samples, h \in Histories, j \in JobIds :
              Board!Accept(j) /\ receipt' = [receipt EXCEPT ![<<s, h>>] = j]
         \/ HostAnswers
<1>1. ASSUME NEW p \in Procs, Submit(p)
      PROVE  \E s \in Samples, h \in Histories, j \in JobIds :
               Board!Accept(j) /\ receipt' = [receipt EXCEPT ![<<s, h>>] = j]
  <2>1. sample[p] \in Samples /\ About(Next1(p)) \in Histories
    BY DEF TypeOK, ProcTypeOK, About, Histories
  <2> QED
    BY <1>1, <2>1 DEF Submit, ReceiptAfter
<1>2. ASSUME NEW s \in Samples, NEW h \in Histories, PipeSubmits(s, h)
      PROVE  \E j \in JobIds : Board!Accept(j) /\ receipt' = [receipt EXCEPT ![<<s, h>>] = j]
  BY <1>2 DEF PipeSubmits, ReceiptAfter
<1>3. ASSUME NEW s \in Samples, PipeStart(s) \/ PipeRetrieve1(s)
      PROVE  \/ UNCHANGED <<known, answer, receipt>>
             \/ \E h \in Histories : PipeSubmits(s, h)
  BY <1>3 DEF PipeStart, PipeRetrieve1, Histories
<1>4. ASSUME NEW p \in Procs, BreaksOff(p)
      PROVE  \/ UNCHANGED <<known, answer, receipt>>
             \/ (\E j \in JobIds : Board!Accept(j)) /\ receipt' = receipt
  BY <1>4 DEF BreaksOff
<1>5. \/ UNCHANGED <<known, answer, receipt>>
      \/ \E p \in Procs : Submit(p) \/ BreaksOff(p)
      \/ \E s \in Samples : PipeStart(s) \/ PipeRetrieve1(s)
      \/ HostAnswers
  BY DEF Next, StageStep, Load, Refuse, Write, Infer, WriteMarker, ReadReceipt, Retrieve,
     RetrieveFails, Kill, StartStage, StartSample, PipeRetrieve2, RunTask, AppendSummary,
     PipeBreaksOff
<1> QED
  BY <1>1, <1>2, <1>3, <1>4, <1>5

\* A job that is accepted has no answer, and changes none.
LEMMA Accepted ==
  ASSUME HostOK, NEW j \in JobIds, Board!Accept(j)
  PROVE  /\ known' = known \cup {j} /\ answer' = answer /\ answer[j] = None /\ j # None
         /\ AnswersKnown'
BY WorkflowAssumption DEF Board!Accept, HostOK, AnswersKnown

\* A submission changes the answers to nothing but its own history.
LEMMA Submitted ==
  ASSUME HostOK, FilesTypeOK, NEW s \in Samples, NEW h \in Histories, NEW j \in JobIds,
         Board!Accept(j), receipt' = [receipt EXCEPT ![<<s, h>>] = j]
  PROVE  /\ answer' = answer /\ known \subseteq known'
         /\ receipt' \in [Samples \X Histories -> JobIds \cup {None}]
         /\ receipt'[<<s, h>>] = j /\ j # None /\ AnswerTo(s, h)' = None
         /\ \A t \in Samples, g \in Histories : <<t, g>> # <<s, h>> =>
              receipt'[<<t, g>>] = receipt[<<t, g>>] /\ AnswerTo(t, g)' = AnswerTo(t, g)
         /\ HostOK'
<1>0. "uncertain" # None
  BY WorkflowAssumption
<1>1. known' = known \cup {j} /\ answer' = answer /\ answer[j] = None /\ j # None /\ AnswersKnown'
  BY Accepted
<1>2. receipt \in [Samples \X Histories -> JobIds \cup {None}] /\ <<s, h>> \in Samples \X Histories
  BY DEF FilesTypeOK
<1>3. /\ receipt' \in [Samples \X Histories -> JobIds \cup {None}]
      /\ receipt'[<<s, h>>] = j
      /\ \A k \in Samples \X Histories : k # <<s, h>> => receipt'[k] = receipt[k]
  BY <1>2
<1>4. AnswerTo(s, h)' = None
  BY <1>1, <1>3 DEF AnswerTo
<1>5. ASSUME NEW t \in Samples, NEW g \in Histories, <<t, g>> # <<s, h>>
      PROVE  receipt'[<<t, g>>] = receipt[<<t, g>>] /\ AnswerTo(t, g)' = AnswerTo(t, g)
  BY <1>1, <1>3, <1>5 DEF AnswerTo
<1>6. \A k \in Samples \X Histories : receipt'[k] # None => receipt'[k] \in known'
  BY <1>1, <1>3 DEF HostOK
<1>7. \A t \in Samples : AnswerTo(t, "history1")' # "uncertain"
  <2> SUFFICES ASSUME NEW t \in Samples PROVE AnswerTo(t, "history1")' # "uncertain"
    OBVIOUS
  <2>1. CASE <<t, "history1">> = <<s, h>>
    BY <1>0, <1>4, <2>1
  <2>2. CASE <<t, "history1">> # <<s, h>>
    BY <1>5, <2>2 DEF HostOK, Histories
  <2> QED
    BY <2>1, <2>2
<1> QED
  BY <1>1, <1>3, <1>4, <1>5, <1>6, <1>7 DEF HostOK

\* The host answers a job that has no answer, and history 1 without a judge.
LEMMA Answered ==
  ASSUME HostOK, FilesTypeOK, HostAnswers
  PROVE  /\ UNCHANGED <<mode, state, rest, ticket, receipt, checkpoint, marker, pipe, results,
                        broken, overlapped>>
         /\ \A s \in Samples, h \in Histories :
              AnswerTo(s, h) # None => AnswerTo(s, h)' = AnswerTo(s, h)
         /\ HostOK'
<1>1. PICK j \in JobIds, a \in Verdicts \cup {"infra_failed"} : Board!Answer(j, a)
  BY DEF HostAnswers
<1>2. /\ j \in known /\ answer[j] = None /\ answer' = [answer EXCEPT ![j] = a]
      /\ known' = known
  BY <1>1 DEF Board!Answer
<1>3. UNCHANGED <<mode, state, rest, ticket, receipt, checkpoint, marker, pipe, results,
                  broken, overlapped>>
  BY DEF HostAnswers
<1>4. \A s \in Samples, h \in Histories :
        AnswerTo(s, h) # None => AnswerTo(s, h)' = AnswerTo(s, h)
  BY <1>2, <1>3 DEF AnswerTo, HostOK, FilesTypeOK
<1>5. \A s \in Samples : AnswerTo(s, "history1")' # "uncertain"
  <2>1. "uncertain" # None
    BY WorkflowAssumption
  <2>2. \A s \in Samples : receipt[<<s, "history1">>] # None =>
          answer'[receipt[<<s, "history1">>]] # "uncertain"
    BY DEF HostAnswers
  <2> QED
    BY <1>3, <2>1, <2>2 DEF AnswerTo
<1>6. answer' \in [JobIds -> Verdicts \cup {"infra_failed", None}] /\ AnswersKnown'
  BY <1>2 DEF HostOK, AnswersKnown
<1> QED
  BY <1>2, <1>3, <1>4, <1>5, <1>6 DEF HostOK

LEMMA HostStep ==
  ASSUME TypeOK, ProgramsOK, HostOK, [Next]_vars
  PROVE  HostOK'
<1>0. FilesTypeOK
  BY DEF TypeOK
<1>1. CASE UNCHANGED <<known, answer, receipt>>
  BY <1>1 DEF HostOK, AnswersKnown, AnswerTo
<1>2. ASSUME NEW j \in JobIds, Board!Accept(j), receipt' = receipt PROVE HostOK'
  <2>1. known' = known \cup {j} /\ answer' = answer /\ AnswersKnown'
    BY <1>2, Accepted
  <2> QED
    BY <1>2, <2>1 DEF HostOK, AnswerTo
<1>3. ASSUME NEW s \in Samples, NEW h \in Histories, NEW j \in JobIds,
             Board!Accept(j), receipt' = [receipt EXCEPT ![<<s, h>>] = j]
      PROVE  HostOK'
  BY <1>0, <1>3, Submitted
<1>4. CASE HostAnswers
  BY <1>0, <1>4, Answered
<1> QED
  BY <1>1, <1>2, <1>3, <1>4, HostSteps

\* The files and the driver's table keep their types.
LEMMA FilesStep ==
  ASSUME TypeOK, ProgramsOK, HostOK, [Next]_vars
  PROVE  FilesTypeOK'
<1>0. mode' = mode
  BY ModeKept
<1>1. receipt' \in [Samples \X Histories -> JobIds \cup {None}]
  BY HostSteps DEF TypeOK, FilesTypeOK, HostAnswers
<1>2. checkpoint' \subseteq Samples \X Histories
  <2>1. \A p \in Procs : sample[p] \in Samples /\ About(Next1(p)) \in Histories
    BY DEF TypeOK, ProcTypeOK, About, Histories
  <2>2. \/ checkpoint' = checkpoint
        \/ \E s \in Samples, h \in Histories : checkpoint' = checkpoint \cup {<<s, h>>}
    BY <2>1 DEF Next, StageStep, Load, Refuse, Write, Infer, Submit, BreaksOff, WriteMarker,
       ReadReceipt, Retrieve, RetrieveFails, Kill, StartStage, StartSample, PipeStart,
       PipeRetrieve1, PipeRetrieve2, RunTask, AppendSummary, PipeBreaksOff, HostAnswers,
       PipeSubmits, Histories
  <2> QED
    BY <2>2 DEF TypeOK, FilesTypeOK
<1>3. marker' \in [Histories -> JobIds \cup {None}]
  <2>1. ASSUME NEW p \in Procs, WriteMarker(p) PROVE marker' \in [Histories -> JobIds \cup {None}]
    <3>1. mode = "manual"
      BY <2>1, StepMode, StepNames DEF WriteMarker, SequentialSteps
    <3>2. ticket[p] \in JobIds \cup {None}
      BY <3>1 DEF ProgramsOK, ProgramOK
    <3> QED
      BY <2>1, <3>2 DEF WriteMarker, TypeOK, FilesTypeOK
  <2>2. marker' = marker \/ \E p \in Procs : WriteMarker(p)
    BY DEF Next, StageStep, Load, Refuse, Write, Infer, Submit, BreaksOff,
       ReadReceipt, Retrieve, RetrieveFails, Kill, StartStage, StartSample, PipeStart,
       PipeRetrieve1, PipeRetrieve2, RunTask, AppendSummary, PipeBreaksOff, HostAnswers
  <2> QED
    BY <2>1, <2>2 DEF TypeOK, FilesTypeOK
<1>4. pipe' \in [Samples -> {"todo", "verify1", "verify2", "done"}]
      /\ results' \in [Samples -> Terminals \cup {None}]
  <2>1. CASE UNCHANGED driver
    BY <2>1 DEF TypeOK, FilesTypeOK
  <2>2. ASSUME NEW s \in Samples, PipeStart(s) \/ PipeRetrieve1(s)
        PROVE  <1>4!1 /\ <1>4!2
    BY <2>2 DEF TypeOK, FilesTypeOK, PipeStart, PipeRetrieve1, Terminals
  <2>3. ASSUME NEW s \in Samples, PipeRetrieve2(s) PROVE <1>4!1 /\ <1>4!2
    BY <2>3 DEF TypeOK, FilesTypeOK, PipeRetrieve2, Terminals, Terminal
  <2>4. CASE AppendSummary
    <3>1. Running(Driver) /\ Next1(Driver) = "append" /\ Driver \in Procs
      BY <2>4, WorkflowAssumption DEF AppendSummary
    <3>2. mode = "sequential"
      BY <3>1, StepMode
    <3>3. ticket[Driver] \in Terminals
      BY <3>1, <3>2, TailOf DEF ProgramsOK, ProgramOK, Running, Next1
    <3> QED
      BY <2>4, <3>3 DEF AppendSummary, TypeOK, FilesTypeOK
  <2>5. \/ UNCHANGED driver \/ AppendSummary
        \/ \E s \in Samples : PipeStart(s) \/ PipeRetrieve1(s) \/ PipeRetrieve2(s)
    BY DEF Next, StageStep, Load, Refuse, Write, Infer, Submit, BreaksOff, WriteMarker,
       ReadReceipt, Retrieve, RetrieveFails, Kill, StartStage, StartSample, RunTask,
       PipeBreaksOff, HostAnswers
  <2> QED
    BY <2>1, <2>2, <2>3, <2>4, <2>5
<1> QED
  BY <1>0, <1>1, <1>2, <1>3, <1>4 DEF TypeOK, FilesTypeOK

\* What holds in every mode.
Sound == TypeOK /\ Serialized /\ ProgramsOK /\ HostOK

LEMMA SoundAlways == Spec => []Sound
<1>1. Init => Sound
  <2> SUFFICES ASSUME Init PROVE Sound
    OBVIOUS
  <2>1. "CREATED" \in WorkflowStates
    BY StateNames
  <2>2. StoreTypeOK /\ FilesTypeOK /\ \A p \in Procs : loaded[p] # None <=> lock = p
    BY <2>1, WorkflowAssumption DEF Init, StoreTypeOK, FilesTypeOK, StateRecord
  <2>3. << >> \in Seq(Steps) /\ << >> \in Seq(SequentialSteps) /\ Len(<< >>) = 0
    OBVIOUS
  <2>4. ProcTypeOK
    <3>1. rest \in [Procs -> Seq(Steps)]
      BY <2>3 DEF Init
    <3>2. 0 \in 0 .. MaxFaults
      BY WorkflowAssumption
    <3> QED
      BY <3>1, <3>2, WorkflowAssumption DEF Init, ProcTypeOK
  <2>5. Serialized
    BY DEF Init, Serialized
  <2>6. ProgramsOK
    BY <2>3, EmptyScript DEF Init, ProgramsOK, ProgramOK
  <2>7. HostOK
    BY WorkflowAssumption DEF Init, Board!Init, HostOK, AnswersKnown, AnswerTo, Histories
  <2> QED
    BY <2>2, <2>4, <2>5, <2>6, <2>7 DEF Sound, TypeOK
<1>2. Sound /\ [Next]_vars => Sound'
  BY StoreStep, SerializedInvariant, ProgramsStep, ProcStep, HostStep, FilesStep
     DEF Sound, TypeOK
<1> QED
  BY <1>1, <1>2, PTL DEF Spec

\* Every variable of the store, the processes, the files and the driver keeps
\* its type, and the flock is held by the process that has loaded the state, in
\* each of the three modes (distributed_workflow.py:104-161).
THEOREM WorkflowTypeCorrect == Spec => []TypeOK
<1>1. Sound => TypeOK
  BY DEF Sound
<1> QED
  BY <1>1, SoundAlways, PTL

-----------------------------------------------------------------------------
(* The pipeline.                                                           *)

\* Answers stay, and so does what they earn.
LEMMA EarnedStays ==
  ASSUME NEW s, NEW status, Earned(status, s),
         \A h \in Histories : AnswerTo(s, h) # None => AnswerTo(s, h)' = AnswerTo(s, h)
  PROVE  Earned(status, s)'
<1>1. "passed" # None /\ "failed" # None /\ "uncertain" # None
  BY WorkflowAssumption
<1>2. /\ AnswerTo(s, "history1") # None => AnswerTo(s, "history1")' = AnswerTo(s, "history1")
      /\ AnswerTo(s, "history2") # None => AnswerTo(s, "history2")' = AnswerTo(s, "history2")
  BY DEF Histories
<1> QED
  BY <1>1, <1>2 DEF Earned

\* A step about one sample keeps what is said of the others.
LEMMA OtherSample ==
  ASSUME NEW s \in Samples, SamplePiped(s), pipe'[s] = pipe[s], results'[s] = results[s],
         \A h \in Histories :
           /\ receipt'[<<s, h>>] = receipt[<<s, h>>]
           /\ AnswerTo(s, h) # None => AnswerTo(s, h)' = AnswerTo(s, h)
  PROVE  SamplePiped(s)'
<1>1. ASSUME results[s] # None PROVE Earned(results[s], s)'
  <2>1. Earned(results[s], s)
    BY <1>1 DEF SamplePiped
  <2>2. ASSUME NEW status, Earned(status, s) PROVE Earned(status, s)'
    BY <2>2, EarnedStays
  <2>3. PICK status : status = results[s]
    OBVIOUS
  <2>4. Earned(status, s)'
    BY <2>1, <2>2, <2>3
  <2> QED
    BY <2>3, <2>4 DEF Earned
<1>2. "passed" # None
  BY WorkflowAssumption
<1> QED
  BY <1>1, <1>2 DEF SamplePiped, Histories, Earned

\* Who touches the driver's table or a receipt.
LEMMA PipeSteps ==
  ASSUME TypeOK, ProgramsOK, mode = "pipeline", [Next]_vars
  PROVE  \/ UNCHANGED <<pipe, results, receipt, known, answer>>
         \/ \E s \in Samples : PipeStart(s) \/ PipeRetrieve1(s) \/ PipeRetrieve2(s)
         \/ HostAnswers
<1>1. \A p \in Procs : ~Running(p)
  BY DEF ProgramsOK, ProgramOK, Running
<1>2. Driver \in Procs
  BY WorkflowAssumption
<1> QED
  BY <1>1, <1>2 DEF Next, StageStep, Load, Refuse, Write, Infer, Submit, BreaksOff,
     WriteMarker, ReadReceipt, Retrieve, RetrieveFails, Kill, StartStage, StartSample,
     RunTask, AppendSummary, PipeBreaksOff

\* Every step of the pipeline keeps what its table says.
LEMMA PipedStep ==
  ASSUME Sound, Piped, [Next]_vars, mode = "pipeline"
  PROVE  \A s \in Samples : SamplePiped(s)'
<1>0. /\ "passed" # None /\ "failed" # None /\ "uncertain" # None /\ "infra_failed" # None
      /\ TypeOK /\ FilesTypeOK /\ HostOK /\ ProgramsOK
      /\ pipe \in [Samples -> {"todo", "verify1", "verify2", "done"}]
      /\ results \in [Samples -> Terminals \cup {None}]
      /\ \A s \in Samples : SamplePiped(s)
  BY WorkflowAssumption DEF Sound, TypeOK, FilesTypeOK, Piped
<1>1. ASSUME NEW s \in Samples, PipeStart(s) PROVE \A t \in Samples : SamplePiped(t)'
  <2>1. pipe[s] = "todo" /\ results[s] = None
    BY <1>0, <1>1 DEF PipeStart, SamplePiped
  <2>2. /\ pipe' = [pipe EXCEPT ![s] = "verify1"] /\ results' = results
        /\ \E j \in JobIds :
             Board!Accept(j) /\ receipt' = [receipt EXCEPT ![<<s, "history1">>] = j]
    BY <1>1 DEF PipeStart, PipeSubmits, ReceiptAfter
  <2>3. /\ receipt'[<<s, "history1">>] # None
        /\ \A t \in Samples, g \in Histories : <<t, g>> # <<s, "history1">> =>
             receipt'[<<t, g>>] = receipt[<<t, g>>] /\ AnswerTo(t, g)' = AnswerTo(t, g)
    BY <1>0, <2>2, Submitted DEF Histories
  <2>4. SamplePiped(s)'
    BY <1>0, <2>1, <2>2, <2>3 DEF SamplePiped
  <2>5. ASSUME NEW t \in Samples, t # s PROVE SamplePiped(t)'
    BY <1>0, <2>2, <2>3, <2>5, OtherSample DEF Histories
  <2> QED
    BY <2>4, <2>5
<1>2. ASSUME NEW s \in Samples, PipeRetrieve1(s) PROVE \A t \in Samples : SamplePiped(t)'
  <2>1. /\ pipe[s] = "verify1" /\ results[s] = None
        /\ AnswerTo(s, "history1") \in Verdicts
        /\ AnswerTo(s, "history1") = answer[receipt[<<s, "history1">>]]
    BY <1>0, <1>2 DEF PipeRetrieve1, SamplePiped, AnswerTo
  <2>2. CASE PipeRejects(AnswerTo(s, "history1"))
    <3>1. /\ pipe' = [pipe EXCEPT ![s] = "done"] /\ results' = [results EXCEPT ![s] = "REJECTED"]
          /\ UNCHANGED <<receipt, known, answer>>
      BY <1>2, <2>1, <2>2 DEF PipeRetrieve1
    <3>2. AnswerTo(s, "history1") = "failed"
      BY <1>0, <2>1, <2>2 DEF PipeRejects, HostOK, Verdicts
    <3>3. \A t \in Samples, h \in Histories : AnswerTo(t, h)' = AnswerTo(t, h)
      BY <3>1 DEF AnswerTo
    <3>4. SamplePiped(s)'
      BY <3>1, <3>2, <3>3, <2>1, <1>0 DEF SamplePiped, Earned, Histories
    <3>5. ASSUME NEW t \in Samples, t # s PROVE SamplePiped(t)'
      BY <1>0, <3>1, <3>3, <3>5, OtherSample
    <3> QED
      BY <3>4, <3>5
  <2>3. CASE ~PipeRejects(AnswerTo(s, "history1"))
    <3>1. /\ pipe' = [pipe EXCEPT ![s] = "verify2"] /\ results' = results
          /\ AnswerTo(s, "history1") = "passed"
          /\ \E j \in JobIds :
               Board!Accept(j) /\ receipt' = [receipt EXCEPT ![<<s, "history2">>] = j]
      BY <1>2, <2>1, <2>3 DEF PipeRetrieve1, PipeRejects, PipeSubmits, ReceiptAfter
    <3>2. /\ receipt'[<<s, "history2">>] # None
          /\ \A t \in Samples, g \in Histories : <<t, g>> # <<s, "history2">> =>
               receipt'[<<t, g>>] = receipt[<<t, g>>] /\ AnswerTo(t, g)' = AnswerTo(t, g)
      BY <1>0, <3>1, Submitted DEF Histories
    <3>3. SamplePiped(s)'
      BY <3>1, <3>2, <2>1, <1>0 DEF SamplePiped, Histories
    <3>4. ASSUME NEW t \in Samples, t # s PROVE SamplePiped(t)'
      BY <1>0, <3>1, <3>2, <3>4, OtherSample DEF Histories
    <3> QED
      BY <3>3, <3>4
  <2> QED
    BY <2>2, <2>3
<1>3. ASSUME NEW s \in Samples, PipeRetrieve2(s) PROVE \A t \in Samples : SamplePiped(t)'
  <2>1. /\ pipe[s] = "verify2"
        /\ pipe' = [pipe EXCEPT ![s] = "done"]
        /\ results' = [results EXCEPT ![s] = Terminal(AnswerTo(s, "history2"))]
        /\ UNCHANGED <<receipt, known, answer>>
        /\ AnswerTo(s, "history2") \in Verdicts
    BY <1>0, <1>3 DEF PipeRetrieve2, SamplePiped, AnswerTo
  <2>2. \A t \in Samples, h \in Histories : AnswerTo(t, h)' = AnswerTo(t, h)
    BY <2>1 DEF AnswerTo
  <2>3. Earned(Terminal(AnswerTo(s, "history2")), s)
    BY <1>0, <2>1 DEF Terminal, Earned, Verdicts, SamplePiped
  <2>4. SamplePiped(s)'
    BY <2>1, <2>2, <2>3, <1>0 DEF SamplePiped, Earned, Histories
  <2>5. ASSUME NEW t \in Samples, t # s PROVE SamplePiped(t)'
    BY <1>0, <2>1, <2>2, <2>5, OtherSample
  <2> QED
    BY <2>4, <2>5
<1>4. CASE HostAnswers
  BY <1>0, <1>4, Answered, OtherSample
<1>5. CASE UNCHANGED <<pipe, results, receipt, known, answer>>
  <2>1. \A s \in Samples, h \in Histories : AnswerTo(s, h)' = AnswerTo(s, h)
    BY <1>5 DEF AnswerTo
  <2> QED
    BY <1>0, <1>5, <2>1, OtherSample
<1> QED
  BY <1>0, <1>1, <1>2, <1>3, <1>4, <1>5, PipeSteps

LEMMA PipedAlways == Spec => []Piped
<1>1. Init => Piped
  BY WorkflowAssumption DEF Init, Piped, SamplePiped
<1>2. ASSUME Sound, Piped, [Next]_vars PROVE Piped'
  <2>0. mode' = mode
    BY <1>2, ModeKept
  <2>1. CASE mode = "pipeline"
    BY <1>2, <2>0, <2>1, PipedStep DEF Piped
  <2>2. CASE mode # "pipeline"
    <3>1. pipe' = pipe
      BY <1>2, <2>2 DEF Next, StageStep, Load, Refuse, Write, Infer, Submit, BreaksOff,
         WriteMarker, ReadReceipt, Retrieve, RetrieveFails, Kill, StartStage, StartSample,
         PipeStart, PipeRetrieve1, PipeRetrieve2, RunTask, AppendSummary, PipeBreaksOff,
         HostAnswers, Pipelining
    <3> QED
      BY <1>2, <2>0, <2>2, <3>1 DEF Piped
  <2> QED
    BY <2>1, <2>2
<1> QED
  BY <1>1, <1>2, SoundAlways, PTL DEF Spec

-----------------------------------------------------------------------------
(* The way on.                                                             *)

\* From where the first transition of a stage is legal.
LEMMA FirstAllowed ==
  ASSUME NEW c \in WorkflowStates
  PROVE  /\ Allowed(c, "HISTORY1_INFERENCE_READY") <=>
              c \in {"CREATED", "HISTORY1_INFERENCE_READY"} \cup Terminals
         /\ Allowed(c, "VERIFICATION1_QUEUED") <=>
              c \in {"VERIFICATION1_SUBMITTED", "VERIFICATION1_QUEUED"}
         /\ Allowed(c, "HISTORY2_INFERENCE_RUNNING") <=>
              c \in {"HISTORY2_READY", "HISTORY2_INFERENCE_RUNNING"}
         /\ Allowed(c, "VERIFICATION2_QUEUED") <=>
              c \in {"VERIFICATION2_SUBMITTED", "VERIFICATION2_QUEUED"}
BY StateNames DEF Allowed, Legal, Terminals

\* A stage is not refused on its way.
LEMMA WayAllowed ==
  ASSUME NEW c, NEW n, <<c, n>> \in Behind, n \in WorkflowStates, c \notin Resumable
  PROVE  Allowed(c, n)
BY StateNames DEF Behind, Follows, Allowed, Legal, Resumable, Terminals

\* From where a stage may start, one may start.
LEMMA ResumableStartable ==
  ASSUME state.current \in Resumable
  PROVE  \E stage \in Stages : Startable(stage)
<1>0. state.current \in WorkflowStates
  BY StateNames DEF Resumable
<1>1. CASE state.current \in {"CREATED", "HISTORY1_INFERENCE_READY"} \cup Terminals
  <2>1. Startable(<<"history1", "infer-submit">>)
    BY <1>0, <1>1, FirstAllowed DEF Startable, AlreadyDone, Program, Terminals
  <2> QED
    BY <2>1 DEF Stages, Histories
<1>2. CASE state.current \in {"VERIFICATION1_SUBMITTED", "VERIFICATION1_QUEUED"}
  <2>1. Startable(<<"history1", "retrieve">>)
    BY <1>0, <1>2, FirstAllowed DEF Startable, AlreadyDone, Program
  <2> QED
    BY <2>1 DEF Stages, Histories
<1>3. CASE state.current \in {"HISTORY2_READY", "HISTORY2_INFERENCE_RUNNING"}
  <2>1. Startable(<<"history2", "infer-submit">>)
    BY <1>0, <1>3, FirstAllowed DEF Startable, AlreadyDone, Program
  <2> QED
    BY <2>1 DEF Stages, Histories
<1>4. CASE state.current \in {"VERIFICATION2_SUBMITTED", "VERIFICATION2_QUEUED"}
  <2>1. Startable(<<"history2", "retrieve">>)
    BY <1>0, <1>4, FirstAllowed DEF Startable, AlreadyDone, Program, Terminals
  <2> QED
    BY <2>1 DEF Stages, Histories
<1> QED
  BY <1>1, <1>2, <1>3, <1>4 DEF Resumable

\* The pairs of Behind, by the step.
LEMMA BehindPairs ==
  ASSUME NEW c, NEW n, <<c, n>> \in Behind
  PROVE  /\ n \in {"infer1", "submit1"} => c = "HISTORY1_INFERENCE_RUNNING"
         /\ n \in {"infer2", "submit2"} => c = "HISTORY2_INFERENCE_RUNNING"
         /\ n \in {"receipt1", "retrieve1"} => c = "VERIFICATION1_QUEUED"
         /\ n \in {"receipt2", "retrieve2"} => c = "VERIFICATION2_QUEUED"
         /\ n = "marker1" => c = "VERIFICATION1_SUBMITTED"
         /\ n = "marker2" => c = "VERIFICATION2_SUBMITTED"
<1>1. CASE <<c, n>> \in Follows /\ c \in WorkflowStates
  <2>1. c \notin {"infer1", "infer2", "submit1", "submit2", "receipt1", "receipt2"}
    BY <1>1, StepNames
  <2> QED
    BY <1>1, <2>1 DEF Follows, Terminals
<1>2. CASE <<c, n>> \notin {d \in Follows : d[1] \in WorkflowStates}
  BY <1>2 DEF Behind
<1> QED
  BY <1>1, <1>2

\* A stage that comes to its next step still has its last transition behind it.
LEMMA WayOn ==
  ASSUME NEW n, NEW m, <<n, m>> \in Follows
  PROVE  /\ n \in WorkflowStates => <<n, m>> \in Behind
         /\ \A c : n \notin WorkflowStates /\ <<c, n>> \in Behind => <<c, m>> \in Behind
<1>1. n \in WorkflowStates => <<n, m>> \in Behind
  BY DEF Behind
<1>2. ASSUME NEW c, n \notin WorkflowStates, <<c, n>> \in Behind PROVE <<c, m>> \in Behind
  <2>1. \/ <<n, m>> = <<"infer1", "submit1">>
        \/ <<n, m>> = <<"submit1", "HISTORY1_INFERENCE_COMPLETED">>
        \/ <<n, m>> = <<"receipt1", "retrieve1">>
        \/ <<n, m>> = <<"infer2", "submit2">>
        \/ <<n, m>> = <<"submit2", "HISTORY2_INFERENCE_COMPLETED">>
        \/ <<n, m>> = <<"receipt2", "retrieve2">>
    BY <1>2, StateNames DEF Follows
  <2>2. /\ n \in {"infer1", "submit1"} => c = "HISTORY1_INFERENCE_RUNNING"
        /\ n = "receipt1" => c = "VERIFICATION1_QUEUED"
        /\ n \in {"infer2", "submit2"} => c = "HISTORY2_INFERENCE_RUNNING"
        /\ n = "receipt2" => c = "VERIFICATION2_QUEUED"
    BY <1>2, BehindPairs
  <2> QED
    BY <2>1, <2>2, StateNames DEF Behind, Follows
<1> QED
  BY <1>1, <1>2

\* A stage waits with a state from which another can go on.
LEMMA WaitingResumable ==
  ASSUME NEW c, NEW n, <<c, n>> \in Behind,
         n \in {"marker1", "receipt1", "retrieve1", "marker2", "receipt2", "retrieve2"}
  PROVE  c \in Resumable
BY BehindPairs DEF Resumable

\* What a step of a stage leaves to do.
LEMMA Advanced ==
  ASSUME Sound, mode = "manual", NEW p \in Procs, Running(p), Advance(p)
  PROVE  /\ \A q \in Procs : q # p => rest'[q] = rest[q]
         /\ ~Running(p)' => Next1(p) \in Lasts
         /\ Running(p)' => /\ <<Next1(p), Next1(p)'>> \in Follows
                           /\ rest'[p][Len(rest'[p])] = rest[p][Len(rest[p])]
         /\ Next1(p) \in Terminals => Next1(p) = rest[p][Len(rest[p])]
<1>1. Scripted(rest[p]) /\ rest[p] # << >>
  BY DEF Sound, ProgramsOK, ProgramOK, Running
<1>2. rest' = [rest EXCEPT ![p] = Tail(rest[p])] /\ rest = [q \in Procs |-> rest[q]]
  BY DEF Advance, Sound, Serialized
<1> QED
  BY <1>1, <1>2, ScriptedTail DEF Running, Next1

\* What broke off is forgotten only by a transition.
LEMMA BrokenStays ==
  ASSUME [Next]_vars, state' = state
  PROVE  broken \subseteq broken' \/ \E p \in Procs : Write(p)
BY DEF Next, StageStep, Load, Refuse, Infer, Submit, BreaksOff, WriteMarker,
   ReadReceipt, Retrieve, RetrieveFails, Kill, BreaksMidway, StartStage, StartSample,
   PipeStart, PipeRetrieve1, PipeRetrieve2, RunTask, AppendSummary, PipeBreaksOff,
   HostAnswers, pipeFrame, notes, vars

\* A stage that is to leave a state from which none can start is midway.
LEMMA WayMidway ==
  ASSUME NEW p \in Procs, state.current \in WorkflowStates,
         <<state.current, Next1(p)>> \in Behind, state.current \notin Resumable
  PROVE  Midway(p)
<1> DEFINE c == state.current
           n == Next1(p)
<1>1. {Head(Program(stage)) : stage \in Stages} \subseteq Firsts
  BY StagePrograms
<1>2. n \in {"infer1", "submit1"} \/ (n \in Legal[c] /\ n \notin Firsts)
  BY StateNames DEF Behind, Follows, Legal, Resumable, Terminals, Firsts
<1> QED
  BY <1>1, <1>2 DEF Midway

\* In the manual mode.
LEMMA ManualSteps ==
  ASSUME Sound, mode = "manual", [Next]_vars
  PROVE  \/ UNCHANGED <<state, rest, ticket, files, broken, overlapped, host>>
         \/ \E p \in Procs : \/ Refuse(p) \/ Write(p) \/ Infer(p) \/ Submit(p)
                             \/ BreaksOff(p) \/ WriteMarker(p) \/ ReadReceipt(p)
                             \/ Retrieve(p) \/ RetrieveFails(p) \/ Kill(p)
                             \/ \E stage \in Stages : StartStage(p, stage)
         \/ HostAnswers
<1>1. ~(Running(Driver) /\ Next1(Driver) \in {"run_task", "append"})
  BY StepMode, WorkflowAssumption DEF Sound
<1> QED
  BY <1>1 DEF Next, StageStep, Load, StartSample, PipeStart, PipeRetrieve1, PipeRetrieve2,
     RunTask, AppendSummary, PipeBreaksOff, Pipelining

LEMMA AttendedStep ==
  ASSUME Sound, Attended, [Next]_vars
  PROVE  Attended'
<1>0. mode' = mode
  BY ModeKept
<1> SUFFICES ASSUME mode = "manual", state'.current \notin Resumable,
                    state'.current \notin broken'
             PROVE  \E p \in Procs : Running(p)' /\ <<state'.current, Next1(p)'>> \in Behind
  BY <1>0 DEF Attended
<1>1. ASSUME NEW p \in Procs, Write(p)
      PROVE  \E q \in Procs : Running(q)' /\ <<state'.current, Next1(q)'>> \in Behind
  <2>1. Running(p) /\ Advance(p) /\ Next1(p) \in WorkflowStates /\ state'.current = Next1(p)
    BY <1>1 DEF Write, Sound, Serialized
  <2>2. Next1(p) \notin Lasts
    BY <2>1, StateNames DEF Lasts, Resumable
  <2>3. Running(p)' /\ <<Next1(p), Next1(p)'>> \in Follows
    BY <2>1, <2>2, Advanced
  <2>4. <<state'.current, Next1(p)'>> \in Behind
    BY <2>1, <2>3, WayOn
  <2> QED
    BY <2>3, <2>4
<1>2. SUFFICES ASSUME state' = state, \A p \in Procs : ~Write(p)
               PROVE  \E p \in Procs : Running(p)' /\ <<state'.current, Next1(p)'>> \in Behind
  BY <1>1, ManualSteps DEF Refuse, Infer, Submit, BreaksOff, WriteMarker,
     ReadReceipt, Retrieve, RetrieveFails, Kill, StartStage, HostAnswers
<1>3. PICK p \in Procs : Running(p) /\ <<state.current, Next1(p)>> \in Behind
  BY <1>2, BrokenStays DEF Attended
<1>4. Next1(p) \notin {"marker1", "receipt1", "retrieve1", "marker2", "receipt2", "retrieve2"}
  BY <1>2, <1>3, WaitingResumable
<1>5. CASE rest'[p] = rest[p]
  BY <1>2, <1>3, <1>5 DEF Running, Next1
<1>6. CASE Infer(p) \/ Submit(p)
  <2>1. Advance(p) /\ Next1(p) \in {"infer1", "infer2", "submit1", "submit2"}
    BY <1>6 DEF Infer, Submit
  <2>2. Next1(p) \notin Lasts /\ Next1(p) \notin WorkflowStates
    BY <2>1, StepNames DEF Lasts, Terminals
  <2>3. Running(p)' /\ <<Next1(p), Next1(p)'>> \in Follows
    BY <1>3, <2>1, <2>2, Advanced
  <2>4. <<state'.current, Next1(p)'>> \in Behind
    BY <1>2, <1>3, <2>2, <2>3, WayOn
  <2> QED
    BY <2>3, <2>4
<1>7. ~Refuse(p)
  BY <1>2, <1>3, WayAllowed DEF Refuse
<1>8. ~WriteMarker(p) /\ ~ReadReceipt(p) /\ ~Retrieve(p) /\ ~RetrieveFails(p)
  BY <1>4 DEF WriteMarker, ReadReceipt, Retrieve, RetrieveFails
<1>9. \A stage \in Stages : ~StartStage(p, stage)
  BY <1>3 DEF StartStage
<1>10. ~BreaksOff(p) /\ ~Kill(p)
  <2>1. state.current \in WorkflowStates
    BY DEF Sound, TypeOK, StoreTypeOK, StateRecord
  <2>2. Midway(p)
    BY <1>2, <1>3, <2>1, WayMidway
  <2> QED
    BY <1>2, <2>2 DEF BreaksOff, Kill, BreaksMidway
<1>11. ASSUME NEW q \in Procs, q # p,
              \/ Refuse(q) \/ Infer(q) \/ Submit(q)
              \/ BreaksOff(q) \/ WriteMarker(q) \/ ReadReceipt(q)
              \/ Retrieve(q) \/ RetrieveFails(q) \/ Kill(q)
              \/ \E stage \in Stages : StartStage(q, stage)
       PROVE  rest'[p] = rest[p]
  <2>1. rest = [r \in Procs |-> rest[r]]
    BY DEF Sound, Serialized
  <2> QED
    BY <1>11, <2>1 DEF Refuse, Infer, Submit, BreaksOff, WriteMarker, ReadReceipt,
       Retrieve, RetrieveFails, Kill, StartStage, Ends, Advance
<1> QED
  BY <1>2, <1>5, <1>6, <1>7, <1>8, <1>9, <1>10, <1>11, ManualSteps DEF HostAnswers

LEMMA AttendedAlways == Spec => []Attended
<1>1. Init => Attended
  BY DEF Init, Attended, Resumable
<1> QED
  BY <1>1, AttendedStep, SoundAlways, PTL DEF Spec

\* A manual workflow whose stages are at rest can go on, whatever stages overlap,
\* are refused, wait in vain, fail or are killed, unless a stage was broken off
\* midway in the very state it is in: any other state is one from which a stage
\* may start (distributed_workflow.py:226-294).
THEOREM WorkflowGoesOn == Spec => []NeverStranded
<1>1. Attended => NeverStranded
  BY ResumableStartable DEF Attended, NeverStranded, Quiet
<1> QED
  BY <1>1, AttendedAlways, PTL

-----------------------------------------------------------------------------
(* One stage at a time.                                                    *)

\* Where a transition of a stage comes from.
LEMMA ComesFrom ==
  ASSUME NEW c \in WorkflowStates, NEW n \in WorkflowStates, Allowed(c, n),
         n \in Firsts \/ <<c, n>> \in Behind
  PROVE  /\ n \in SecondHalf => c \in SecondHalf \cup {"VERIFICATION1_COMPLETED"}
         /\ n = "VERIFICATION1_QUEUED" => c \in {"VERIFICATION1_SUBMITTED", n}
         /\ n = "VERIFICATION2_QUEUED" => c \in {"VERIFICATION2_SUBMITTED", n}
<1>1. CASE n \in Firsts
  BY <1>1, FirstAllowed DEF Firsts, SecondHalf
<1>2. CASE n \notin Firsts
  <2>1. CASE <<c, n>> \in Follows
    BY <1>2, <2>1, StepNames DEF Follows, Firsts, SecondHalf, Terminals
  <2>2. CASE <<c, n>> \notin {d \in Follows : d[1] \in WorkflowStates}
    BY <1>2, <2>2 DEF Behind, SecondHalf
  <2> QED
    BY <1>2, <2>1, <2>2
<1> QED
  BY <1>1, <1>2

\* What the state promises does not depend on the programs but for a marker.
LEMMA StandingStays ==
  ASSUME Standing, state' = state, receipt' = receipt, checkpoint \subseteq checkpoint',
         \A h \in Histories : AnswerTo(Lead, h) # None => AnswerTo(Lead, h)' = AnswerTo(Lead, h),
         \A h \in Histories : Waiting(h) =>
           \/ Unmarked(h)' \/ marker'[h] = state.jobs[h]
           \/ \E p \in Procs : Running(p)' /\ Next1(p)' = MarkerStep(h)
  PROVE  Standing'
<1>1. "passed" # None
  BY WorkflowAssumption
<1>2. ASSUME state.current \in Terminals PROVE Earned(state.current, Lead)'
  <2>1. PICK status : status = state.current
    OBVIOUS
  <2>2. Earned(status, Lead)'
    BY <1>2, <2>1, EarnedStays DEF Standing
  <2> QED
    BY <2>1, <2>2 DEF Earned
<1>3. \A h \in Histories : Waiting(h)' <=> Waiting(h)
  BY DEF Waiting
<1> QED
  BY <1>1, <1>2, <1>3 DEF Standing, Histories

LEMMA UnmarkedStays ==
  ASSUME broken' = broken
  PROVE  \A h \in Histories : Unmarked(h)' <=> Unmarked(h)
BY DEF Unmarked

\* A stage that ends where no marker is due, or is killed before it writes it.
LEMMA EndsAlone ==
  ASSUME Sound, mode = "manual", [Next]_vars, NEW p \in Procs, Running(p), Alone(p),
         rest' = [rest EXCEPT ![p] = << >>], broken \subseteq broken',
         \A h \in Histories : Next1(p) = MarkerStep(h) => Unmarked(h)',
         UNCHANGED <<state, receipt, checkpoint, marker, answer>>
  PROVE  Alone(p)'
<1>1. \A q \in Procs : ~Running(q)'
  BY DEF Alone, Running, Sound, Serialized
<1>2. \A h \in Histories : AnswerTo(Lead, h)' = AnswerTo(Lead, h)
  BY DEF AnswerTo
<1>3. ASSUME NEW h \in Histories, Waiting(h), ~Unmarked(h)'
      PROVE  marker'[h] = state.jobs[h]
  <2>1. ~Unmarked(h)
    BY <1>3 DEF Unmarked
  <2>2. Next1(p) # MarkerStep(h)
    BY <1>3
  <2> QED
    BY <1>3, <2>1, <2>2 DEF Alone, Standing
<1>4. Standing'
  BY <1>2, <1>3, StandingStays DEF Alone
<1> QED
  BY <1>1, <1>4 DEF Alone

\* A stage that starts when none runs.
LEMMA StartsAlone ==
  ASSUME Sound, OneByOne, mode = "manual", ~overlapped', NEW p \in Procs, NEW stage \in Stages,
         StartStage(p, stage)
  PROVE  Alone(p)'
<1>1. ~overlapped /\ \A q \in Procs : ~Running(q)
  BY DEF StartStage
<1>2. PICK r \in Procs : Alone(r)
  BY <1>1 DEF OneByOne
<1>3. /\ rest' = [rest EXCEPT ![p] = Program(stage)]
      /\ UNCHANGED <<state, receipt, checkpoint, marker, broken, answer>>
  BY DEF StartStage
<1>4. \A q \in Procs : q # p => ~Running(q)'
  BY <1>1, <1>3 DEF Running, Sound, Serialized
<1>5. rest'[p] = Program(stage)
  BY <1>3 DEF Sound, Serialized
<1>6. Next1(p)' \in Firsts /\ LastStep(p)' \notin Terminals
  BY <1>5, StagePrograms DEF Next1, LastStep
<1>7. Carries(p)'
  BY <1>6 DEF Carries, Firsts, AfterSubmit, SubmitStep, RetrieveStep, MarkerStep
<1>8. \A h \in Histories : AnswerTo(Lead, h)' = AnswerTo(Lead, h)
  BY <1>3 DEF AnswerTo
<1>9. Standing'
  BY <1>1, <1>2, <1>3, <1>8, StandingStays, UnmarkedStays DEF Alone, Standing
<1> QED
  BY <1>4, <1>7, <1>9 DEF Alone

\* The inference, the receipt and the marker.
LEMMA InfersAlone ==
  ASSUME Sound, mode = "manual", NEW p \in Procs, Alone(p), Infer(p)
  PROVE  Alone(p)'
<1>1. /\ Running(p) /\ Advance(p) /\ Carries(p) /\ sample[p] = Lead
      /\ checkpoint' = checkpoint \cup {<<Lead, About(Next1(p))>>}
      /\ UNCHANGED <<state, ticket, receipt, marker, broken, answer>>
      /\ Next1(p) \in {"infer1", "infer2"}
  BY DEF Infer, Alone, Sound, ProgramsOK, ProgramOK
<1>2. /\ \A q \in Procs : q # p => ~Running(q)'
      /\ Running(p)' => <<Next1(p), Next1(p)'>> \in Follows /\ LastStep(p)' = LastStep(p)
  BY <1>1, Advanced DEF Alone, Running, LastStep
<1>3. LastStep(p) \notin Terminals
  BY <1>1 DEF Carries, Deciding, Terminals
<1>4. ASSUME Running(p)' PROVE Carries(p)'
  <2>1. \/ Next1(p) = "infer1" /\ Next1(p)' = "submit1"
        \/ Next1(p) = "infer2" /\ Next1(p)' = "submit2"
    BY <1>1, <1>2, <1>4 DEF Follows
  <2>2. <<state'.current, Next1(p)'>> \in Behind
    <3>1. <<state.current, Next1(p)>> \in Behind
      BY <1>1 DEF Carries, Firsts
    <3>2. Next1(p) \notin WorkflowStates
      BY <1>1, StepNames
    <3> QED
      BY <1>1, <1>2, <1>4, <3>1, <3>2, WayOn
  <2> QED
    BY <1>1, <1>2, <1>3, <1>4, <2>1, <2>2 DEF Carries, AfterSubmit, SubmitStep, RetrieveStep,
       MarkerStep, About, Histories
<1>5. \A h \in Histories : AnswerTo(Lead, h)' = AnswerTo(Lead, h) /\ Next1(p) # MarkerStep(h)
  BY <1>1 DEF AnswerTo, MarkerStep
<1>6. Standing'
  BY <1>1, <1>5, StandingStays, UnmarkedStays DEF Alone, Standing
<1> QED
  BY <1>2, <1>4, <1>6 DEF Alone

LEMMA ReadsAlone ==
  ASSUME Sound, mode = "manual", [Next]_vars, NEW p \in Procs, Alone(p), ReadReceipt(p)
  PROVE  Alone(p)'
<1> DEFINE h == About(Next1(p))
           j == receipt[<<Lead, h>>]
<1>1. /\ Running(p) /\ Carries(p) /\ sample[p] = Lead
      /\ UNCHANGED <<state, checkpoint, receipt, marker, broken, answer>>
      /\ Next1(p) \in {"receipt1", "receipt2"}
  BY DEF ReadReceipt, Alone, Sound, ProgramsOK, ProgramOK
<1>2. CASE j = None
  <2>1. Ends(p)
    BY <1>1, <1>2 DEF ReadReceipt
  <2>2. \A g \in Histories : Next1(p) # MarkerStep(g)
    BY <1>1 DEF MarkerStep
  <2> QED
    BY <1>1, <2>1, <2>2, EndsAlone DEF Ends
<1>3. CASE j # None
  <2>1. Advance(p) /\ ticket' = [ticket EXCEPT ![p] = j]
    BY <1>1, <1>3 DEF ReadReceipt
  <2>2. /\ \A q \in Procs : q # p => ~Running(q)'
        /\ Running(p)' => <<Next1(p), Next1(p)'>> \in Follows /\ LastStep(p)' = LastStep(p)
    BY <1>1, <2>1, Advanced DEF Alone, Running, LastStep
  <2>3. LastStep(p) \notin Terminals
    BY <1>1 DEF Carries, Deciding, Terminals
  <2>4. ticket'[p] = j
    BY <2>1 DEF Sound, TypeOK, ProcTypeOK
  <2>5. ASSUME Running(p)' PROVE Carries(p)'
    <3>1. \/ Next1(p) = "receipt1" /\ Next1(p)' = "retrieve1"
          \/ Next1(p) = "receipt2" /\ Next1(p)' = "retrieve2"
      BY <1>1, <2>2, <2>5 DEF Follows
    <3>2. <<state'.current, Next1(p)'>> \in Behind
      <4>1. <<state.current, Next1(p)>> \in Behind
        BY <1>1 DEF Carries, Firsts
      <4>2. Next1(p) \notin WorkflowStates
        BY <1>1, StepNames
      <4> QED
        BY <1>1, <2>2, <2>5, <4>1, <4>2, WayOn
    <3> QED
      BY <1>1, <1>3, <2>2, <2>3, <2>4, <2>5, <3>1, <3>2 DEF Carries, AfterSubmit, SubmitStep,
         RetrieveStep, MarkerStep, About, Histories
  <2>6. \A g \in Histories : AnswerTo(Lead, g)' = AnswerTo(Lead, g) /\ Next1(p) # MarkerStep(g)
    BY <1>1 DEF AnswerTo, MarkerStep
  <2>7. Standing'
    BY <1>1, <2>6, StandingStays, UnmarkedStays DEF Alone, Standing
  <2> QED
    BY <2>2, <2>5, <2>7 DEF Alone
<1> QED
  BY <1>2, <1>3

LEMMA MarksAlone ==
  ASSUME Sound, mode = "manual", NEW p \in Procs, Alone(p), WriteMarker(p)
  PROVE  Alone(p)'
<1> DEFINE h == About(Next1(p))
<1>1. /\ Running(p) /\ Advance(p) /\ Carries(p)
      /\ marker' = [marker EXCEPT ![h] = ticket[p]]
      /\ UNCHANGED <<state, ticket, receipt, checkpoint, broken, answer>>
      /\ Next1(p) \in {"marker1", "marker2"}
  BY DEF WriteMarker, Alone
<1>2. h \in Histories /\ Next1(p) = MarkerStep(h)
  BY <1>1 DEF About, Histories, MarkerStep
<1>3. \A q \in Procs : ~Running(q)'
  <2>1. \A m : <<Next1(p), m>> \notin Follows
    BY <1>1 DEF Follows
  <2> QED
    BY <1>1, <2>1, Advanced DEF Alone, Running
<1>4. marker'[h] = state.jobs[h]
  BY <1>1, <1>2 DEF Carries, Sound, TypeOK, FilesTypeOK
<1>5. \A g \in Histories : Waiting(g) => g = h
  <2>1. <<state.current, Next1(p)>> \in Behind
    BY <1>1 DEF Carries, Firsts
  <2> QED
    BY <1>1, <2>1, BehindPairs DEF Waiting, Histories, About
<1>6. \A g \in Histories : AnswerTo(Lead, g)' = AnswerTo(Lead, g)
  BY <1>1 DEF AnswerTo
<1>7. Standing'
  BY <1>1, <1>4, <1>5, <1>6, StandingStays DEF Alone
<1> QED
  BY <1>3, <1>7 DEF Alone

\* A submission replaces the receipt of a history the state does not vouch for.
LEMMA SubmitsAlone ==
  ASSUME Sound, mode = "manual", NEW p \in Procs, Alone(p), Submit(p)
  PROVE  Alone(p)'
<1> DEFINE h == About(Next1(p))
<1>1. /\ Running(p) /\ Advance(p) /\ Carries(p) /\ sample[p] = Lead /\ h \in Histories
      /\ UNCHANGED <<state, checkpoint, marker, broken>>
      /\ Next1(p) \in {"submit1", "submit2"} /\ Next1(p) = SubmitStep(h)
  BY DEF Submit, Alone, Sound, ProgramsOK, ProgramOK, About, Histories, SubmitStep
<1>2. PICK j \in JobIds : /\ Board!Accept(j) /\ ticket' = [ticket EXCEPT ![p] = j]
                          /\ receipt' = [receipt EXCEPT ![<<Lead, h>>] = j]
  BY <1>1 DEF Submit, ReceiptAfter
<1>3. /\ receipt'[<<Lead, h>>] = j /\ j # None
      /\ \A g \in Histories : g # h =>
           receipt'[<<Lead, g>>] = receipt[<<Lead, g>>] /\ AnswerTo(Lead, g)' = AnswerTo(Lead, g)
  <2>1. <<Lead, h>> \in Samples \X Histories /\ Lead \in Samples /\ FilesTypeOK /\ HostOK
    BY <1>1, WorkflowAssumption DEF Sound, TypeOK
  <2>2. PICK g \in Histories : g = h
    BY <1>1
  <2>3. Board!Accept(j) /\ receipt' = [receipt EXCEPT ![<<Lead, g>>] = j]
    BY <1>2, <2>2
  <2>4. receipt'[<<Lead, g>>] = j /\ j # None
    BY <2>1, <2>3, Submitted
  <2>5. ASSUME NEW f \in Histories, f # g
        PROVE  receipt'[<<Lead, f>>] = receipt[<<Lead, f>>] /\ AnswerTo(Lead, f)' = AnswerTo(Lead, f)
    <3>1. <<Lead, f>> # <<Lead, g>>
      BY <2>5
    <3> QED
      BY <2>1, <2>3, <3>1, Submitted
  <2> HIDE DEF h
  <2> QED
    BY <2>2, <2>4, <2>5
<1>4. /\ \A q \in Procs : q # p => ~Running(q)'
      /\ Running(p)' => <<Next1(p), Next1(p)'>> \in Follows /\ LastStep(p)' = LastStep(p)
  BY <1>1, Advanced DEF Alone, Running, LastStep
<1>5. LastStep(p) \notin Terminals
  BY <1>1 DEF Carries, Deciding, Terminals
<1>6. <<state.current, Next1(p)>> \in Behind
  BY <1>1 DEF Carries, Firsts
<1>7. ASSUME Running(p)' PROVE Carries(p)'
  <2>1. \/ h = "history1" /\ Next1(p)' = "HISTORY1_INFERENCE_COMPLETED"
        \/ h = "history2" /\ Next1(p)' = "HISTORY2_INFERENCE_COMPLETED"
    BY <1>1, <1>4, <1>7 DEF Follows, About
  <2>2. <<state'.current, Next1(p)'>> \in Behind
    <3>1. Next1(p) \notin WorkflowStates
      BY <1>1, StepNames
    <3> QED
      BY <1>1, <1>4, <1>6, <1>7, <3>1, WayOn
  <2>3. ticket'[p] = j
    BY <1>2 DEF Sound, TypeOK, ProcTypeOK
  <2>4. <<Lead, h>> \in checkpoint
    BY <1>1 DEF Carries
  <2> HIDE DEF h
  <2> QED
    BY <1>1, <1>3, <1>4, <1>5, <1>7, <2>1, <2>2, <2>3, <2>4 DEF Carries, AfterSubmit,
       SubmitStep, RetrieveStep, MarkerStep, Histories
<1>8. Standing'
  <2>1. \/ state.current = "HISTORY1_INFERENCE_RUNNING"
        \/ state.current = "HISTORY2_INFERENCE_RUNNING" /\ h = "history2"
    BY <1>1, <1>6, BehindPairs DEF About
  <2>2. \A g \in Histories : ~Waiting(g)'
    BY <1>1, <2>1 DEF Waiting
  <2>3. state'.current \notin Terminals
    BY <1>1, <2>1 DEF Terminals
  <2>4. state'.current \in SecondHalf \cup {"VERIFICATION1_COMPLETED"}
          => AnswerTo(Lead, "history1")' = "passed"
    BY <1>1, <1>3, <2>1 DEF Alone, Standing, SecondHalf, Histories
  <2> QED
    BY <2>2, <2>3, <2>4 DEF Standing
<1> QED
  BY <1>4, <1>7, <1>8 DEF Alone

\* The verdict is the answer to the receipt, and decides what comes next.
LEMMA RetrievesAlone ==
  ASSUME Sound, mode = "manual", NEW p \in Procs, Alone(p), Retrieve(p)
  PROVE  Alone(p)'
<1> DEFINE h == About(Next1(p))
           v == answer[ticket[p]]
           r == AfterVerdict(h, v)
<1>1. /\ Running(p) /\ Carries(p) /\ h \in Histories /\ v \in Verdicts
      /\ rest' = [rest EXCEPT ![p] = r]
      /\ UNCHANGED <<state, ticket, receipt, checkpoint, marker, broken, answer>>
      /\ Next1(p) \in {"retrieve1", "retrieve2"} /\ Next1(p) = RetrieveStep(h)
  BY DEF Retrieve, Alone, About, Histories, RetrieveStep
<1>2. AnswerTo(Lead, h) = v
  BY <1>1 DEF Carries, AnswerTo
<1>3. rest'[p] = r /\ \A q \in Procs : q # p => ~Running(q)'
  BY <1>1 DEF Alone, Running, Sound, Serialized
<1>4. <<state.current, Next1(p)>> \in Behind
  BY <1>1 DEF Carries, Firsts
<1>5. state.current = IF h = "history1" THEN "VERIFICATION1_QUEUED" ELSE "VERIFICATION2_QUEUED"
  BY <1>1, <1>4, BehindPairs DEF About
<1>6. h = "history1" => v # "uncertain"
  BY <1>2, WorkflowAssumption DEF Sound, HostOK
<1>7. h = "history2" => AnswerTo(Lead, "history1") = "passed"
  BY <1>5 DEF Alone, Standing, SecondHalf
<1>8. \A g \in Histories : AnswerTo(Lead, g)' = AnswerTo(Lead, g)
  BY <1>1 DEF AnswerTo
<1>9. /\ Next1(p)' = CASE h = "history2" -> "VERIFICATION2_COMPLETED"
                       [] h = "history1" /\ v = "passed" -> "VERIFICATION1_COMPLETED"
                       [] OTHER -> "VERIFICATION1_FAILED"
      /\ LastStep(p)' = CASE h = "history2" -> Terminal(v)
                          [] h = "history1" /\ v = "passed" -> "HISTORY2_READY"
                          [] OTHER -> "REJECTED"
  BY <1>1, <1>3, VerdictPrograms DEF Next1, LastStep
<1> HIDE DEF h, v, r
<1>10. \/ /\ h = "history2" /\ Next1(p)' = "VERIFICATION2_COMPLETED" /\ LastStep(p)' = Terminal(v)
          /\ Earned(Terminal(v), Lead)
       \/ /\ h = "history1" /\ v = "passed" /\ Next1(p)' = "VERIFICATION1_COMPLETED"
          /\ LastStep(p)' = "HISTORY2_READY"
       \/ /\ h = "history1" /\ v = "failed" /\ Next1(p)' = "VERIFICATION1_FAILED"
          /\ LastStep(p)' = "REJECTED" /\ Earned("REJECTED", Lead)
  <2>1. CASE h = "history2"
    <3>1. Earned(Terminal(v), Lead)
      BY <1>1, <1>2, <1>7, <2>1 DEF Earned, Terminal, Verdicts
    <3> QED
      BY <1>9, <2>1, <3>1
  <2>2. CASE h = "history1" /\ v = "passed"
    BY <1>9, <2>2
  <2>3. CASE h = "history1" /\ v = "failed"
    BY <1>2, <1>9, <2>3 DEF Earned
  <2> QED
    BY <1>1, <1>6, <2>1, <2>2, <2>3 DEF Histories, Verdicts
<1>11. \A status : Earned(status, Lead)' <=> Earned(status, Lead)
  BY <1>8 DEF Earned, Histories
<1>12. <<state'.current, Next1(p)'>> \in Behind
  BY <1>1, <1>5, <1>10 DEF Behind
<1>13. Carries(p)'
  <2>1. /\ Next1(p)' \notin {"submit1", "submit2", "marker1", "marker2", "retrieve1", "retrieve2"}
        /\ Next1(p)' \notin AfterSubmit("history1") \cup AfterSubmit("history2")
    BY <1>10 DEF AfterSubmit
  <2>2. (Next1(p) = "VERIFICATION1_COMPLETED")' => AnswerTo(Lead, "history1")' = "passed"
    BY <1>2, <1>8, <1>10 DEF Histories
  <2>3. LastStep(p)' \in Terminals => Next1(p)' \in Deciding /\ Earned(LastStep(p)', Lead)
    BY <1>10 DEF Deciding, Terminals
  <2>4. LastStep(p)' \in Terminals => Next1(p)' \in Deciding /\ Earned(LastStep(p), Lead)'
    BY <1>8, <2>3 DEF Earned, Histories
  <2> QED
    BY <1>12, <2>1, <2>2, <2>4 DEF Carries, SubmitStep, RetrieveStep, MarkerStep, Histories
<1>14. \A g \in Histories : Next1(p) # MarkerStep(g)
  BY <1>1 DEF MarkerStep
<1>15. Standing'
  BY <1>1, <1>8, <1>14, StandingStays, UnmarkedStays DEF Alone, Standing
<1> QED
  BY <1>3, <1>13, <1>15 DEF Alone

\* The host answers.
LEMMA AnsweredAlone ==
  ASSUME Sound, NEW p \in Procs, Alone(p), HostAnswers
  PROVE  Alone(p)'
<1>1. /\ UNCHANGED <<state, rest, ticket, receipt, checkpoint, marker, broken>>
      /\ \A h \in Histories : AnswerTo(Lead, h) # None => AnswerTo(Lead, h)' = AnswerTo(Lead, h)
  BY Answered, WorkflowAssumption DEF Sound, TypeOK
<1>2. "passed" # None
  BY WorkflowAssumption
<1>3. /\ \A q \in Procs : Running(q)' <=> Running(q)
      /\ \A q \in Procs : Next1(q)' = Next1(q) /\ LastStep(q)' = LastStep(q)
  BY <1>1 DEF Running, Next1, LastStep
<1>4. ASSUME Running(p) PROVE Carries(p)'
  <2>1. Carries(p)
    BY <1>4 DEF Alone
  <2>2. LastStep(p)' \in Terminals => Earned(LastStep(p), Lead)'
    <3>1. PICK status : status = LastStep(p)
      OBVIOUS
    <3>2. status \in Terminals => Earned(status, Lead)'
      BY <1>1, <2>1, <3>1, EarnedStays DEF Carries
    <3> QED
      BY <1>3, <3>1, <3>2 DEF Earned
  <2>3. AnswerTo(Lead, "history1") = "passed" => AnswerTo(Lead, "history1")' = "passed"
    BY <1>1, <1>2 DEF Histories
  <2> QED
    BY <1>1, <1>3, <2>1, <2>2, <2>3 DEF Carries
<1>5. Standing'
  BY <1>1, <1>3, StandingStays, UnmarkedStays DEF Alone, Standing
<1> QED
  BY <1>3, <1>4, <1>5 DEF Alone

\* What a transition writes, it has earned.
LEMMA WritesAlone ==
  ASSUME Sound, mode = "manual", NEW p \in Procs, Alone(p), Write(p)
  PROVE  Alone(p)'
<1> DEFINE n == Next1(p)
<1>1. /\ Running(p) /\ Carries(p) /\ n \in WorkflowStates /\ Allowed(state.current, n)
      /\ loaded[p] = state
  BY DEF Write, Alone, Sound, Serialized
<1>2. /\ Advance(p) /\ UNCHANGED <<ticket, receipt, checkpoint, marker, answer>>
      /\ state'.current = n /\ state'.jobs = JobsAfter(p)
  BY DEF Write
<1>3. state.current \in WorkflowStates /\ state.jobs \in [Histories -> JobIds \cup {None}]
  BY DEF Sound, TypeOK, StoreTypeOK, StateRecord
<1>4. /\ state'.jobs["history1"] = IF n = "VERIFICATION1_SUBMITTED" THEN ticket[p]
                                   ELSE state.jobs["history1"]
      /\ state'.jobs["history2"] = IF n = "VERIFICATION2_SUBMITTED" THEN ticket[p]
                                   ELSE state.jobs["history2"]
  BY <1>1, <1>2, <1>3 DEF JobsAfter, Histories
<1>5. /\ \A q \in Procs : q # p => ~Running(q)'
      /\ ~Running(p)' => n \in Lasts
      /\ Running(p)' => <<n, Next1(p)'>> \in Follows /\ LastStep(p)' = LastStep(p)
      /\ n \in Terminals => n = LastStep(p)
  BY <1>1, <1>2, Advanced DEF Alone, Running, LastStep
<1>6. \A h \in Histories : AnswerTo(Lead, h)' = AnswerTo(Lead, h)
  BY <1>2 DEF AnswerTo
<1>7. \A status : Earned(status, Lead)' <=> Earned(status, Lead)
  BY <1>6 DEF Earned, Histories
<1>8. n \in Firsts \/ <<state.current, n>> \in Behind
  BY <1>1 DEF Carries
<1>9. /\ n \in SecondHalf => state.current \in SecondHalf \cup {"VERIFICATION1_COMPLETED"}
      /\ n = "VERIFICATION1_QUEUED" => state.current \in {"VERIFICATION1_SUBMITTED", n}
      /\ n = "VERIFICATION2_QUEUED" => state.current \in {"VERIFICATION2_SUBMITTED", n}
  BY <1>1, <1>3, <1>8, ComesFrom
<1>10. n \notin {"submit1", "submit2", "marker1", "marker2", "retrieve1", "retrieve2",
                 "receipt1", "receipt2", "infer1", "infer2"}
  BY <1>1, StepNames
<1> HIDE DEF n
<1>11. ASSUME Running(p)' PROVE Carries(p)'
  <2> DEFINE m == Next1(p)'
  <2>1. <<n, m>> \in Follows /\ LastStep(p)' = LastStep(p)
    BY <1>5, <1>11
  <2>2. <<state'.current, m>> \in Behind
    BY <1>1, <1>2, <2>1, WayOn DEF n
  <2>3. /\ m \notin {"submit1", "submit2", "retrieve1", "retrieve2", "VERIFICATION1_COMPLETED"}
        /\ \A h \in Histories : m \in AfterSubmit(h) => n \in AfterSubmit(h)
        /\ m = "marker1" => n = "VERIFICATION1_SUBMITTED"
        /\ m = "marker2" => n = "VERIFICATION2_SUBMITTED"
    BY <1>10, <2>1 DEF Follows, AfterSubmit, Histories, Terminals
  <2>4. n \in Deciding => m \in Deciding
    BY <2>1 DEF Follows, Deciding, Terminals
  <2>5. ASSUME LastStep(p)' \in Terminals PROVE m \in Deciding /\ Earned(LastStep(p), Lead)'
    <3>1. LastStep(p) \in Terminals /\ n \in Deciding /\ Earned(LastStep(p), Lead)
      BY <1>1, <2>1, <2>5 DEF Carries, n
    <3>2. PICK status : status = LastStep(p)
      OBVIOUS
    <3>3. Earned(status, Lead)'
      BY <1>7, <3>1, <3>2
    <3> QED
      BY <2>1, <2>4, <3>1, <3>2, <3>3 DEF Earned
  <2>6. ASSUME NEW h \in Histories
        PROVE  /\ m \in {SubmitStep(h)} \cup AfterSubmit(h) => <<Lead, h>> \in checkpoint'
               /\ m \in {RetrieveStep(h)} \cup AfterSubmit(h) =>
                    ticket'[p] # None /\ ticket'[p] = receipt'[<<Lead, h>>]
               /\ m = MarkerStep(h) => state'.jobs[h] = ticket'[p]
    <3>1. m # SubmitStep(h) /\ m # RetrieveStep(h)
      BY <2>3 DEF SubmitStep, RetrieveStep
    <3>2. n \in AfterSubmit(h) =>
            <<Lead, h>> \in checkpoint /\ ticket[p] # None /\ ticket[p] = receipt[<<Lead, h>>]
      BY <1>1 DEF Carries, n
    <3>3. m = MarkerStep(h) => state'.jobs[h] = ticket[p]
      BY <1>4, <2>3 DEF MarkerStep, Histories
    <3> QED
      BY <1>2, <2>3, <3>1, <3>2, <3>3
  <2> HIDE DEF m
  <2>7. m # "VERIFICATION1_COMPLETED"
    BY <2>3
  <2> QED
    BY <2>2, <2>5, <2>6, <2>7 DEF Carries, m
<1>12. ASSUME n \in SecondHalf \cup {"VERIFICATION1_COMPLETED"}
       PROVE  AnswerTo(Lead, "history1")' = "passed"
  <2>1. AnswerTo(Lead, "history1") = "passed"
    BY <1>1, <1>9, <1>12 DEF Carries, Alone, Standing, n
  <2> QED
    BY <1>6, <2>1 DEF Histories
<1>13. ASSUME n \in Terminals PROVE Earned(n, Lead)
  BY <1>1, <1>5, <1>13 DEF Carries
<1>14. ASSUME NEW h \in Histories, Waiting(h)'
       PROVE  /\ state'.jobs[h] # None /\ state'.jobs[h] = receipt'[<<Lead, h>>]
              /\ <<Lead, h>> \in checkpoint'
              /\ \/ Unmarked(h)' \/ marker'[h] = state'.jobs[h]
                 \/ Running(p)' /\ Next1(p)' = MarkerStep(h)
  <2> DEFINE submitted == IF h = "history1" THEN "VERIFICATION1_SUBMITTED"
                                            ELSE "VERIFICATION2_SUBMITTED"
             queued == IF h = "history1" THEN "VERIFICATION1_QUEUED"
                                         ELSE "VERIFICATION2_QUEUED"
  <2>1. n \in {submitted, queued}
    BY <1>2, <1>14 DEF Waiting
  <2>2. CASE n = submitted
    <3>1. n \in AfterSubmit(h)
      BY <2>2 DEF AfterSubmit
    <3>2. <<Lead, h>> \in checkpoint /\ ticket[p] # None /\ ticket[p] = receipt[<<Lead, h>>]
      BY <1>1, <3>1 DEF Carries, n
    <3>3. state'.jobs[h] = ticket[p]
      BY <1>4, <2>2 DEF Histories
    <3>4. Running(p)'
      BY <1>5, <2>2 DEF Lasts, Terminals
    <3>5. Next1(p)' = MarkerStep(h)
      BY <1>5, <2>2, <3>4 DEF Follows, MarkerStep
    <3> QED
      BY <1>2, <3>2, <3>3, <3>4, <3>5
  <2>3. CASE n = queued
    <3>1. Waiting(h)
      BY <1>9, <2>3 DEF Waiting
    <3>2. n # MarkerStep(h)
      BY <1>10 DEF MarkerStep
    <3>3. /\ state.jobs[h] # None /\ state.jobs[h] = receipt[<<Lead, h>>]
          /\ <<Lead, h>> \in checkpoint
          /\ Unmarked(h) \/ marker[h] = state.jobs[h]
      BY <3>1, <3>2 DEF Alone, Standing, n
    <3>4. state'.jobs[h] = state.jobs[h]
      BY <1>4, <2>3 DEF Histories
    <3>5. broken' = broken
      BY <2>3 DEF Write, n, Histories
    <3> QED
      BY <1>2, <3>3, <3>4, <3>5 DEF Unmarked
  <2> QED
    BY <2>1, <2>2, <2>3
<1>15. Standing'
  <2>1. (state.current \in SecondHalf \cup {"VERIFICATION1_COMPLETED"} =>
           AnswerTo(Lead, "history1") = "passed")'
    BY <1>2, <1>12
  <2>2. (state.current \in Terminals => Earned(state.current, Lead))'
    <3> SUFFICES ASSUME n \in Terminals PROVE Earned(state.current, Lead)'
      BY <1>2
    <3>1. PICK status : status = n
      OBVIOUS
    <3>2. Earned(status, Lead)'
      BY <1>7, <1>13, <3>1
    <3> QED
      BY <1>2, <3>1, <3>2 DEF Earned
  <2> QED
    BY <1>14, <2>1, <2>2 DEF Standing
<1> QED
  BY <1>5, <1>11, <1>15 DEF Alone

LEMMA OverlappedStays ==
  ASSUME [Next]_vars, overlapped
  PROVE  overlapped'
BY DEF Next, StageStep, Load, Refuse, Write, Infer, Submit, BreaksOff, WriteMarker,
   ReadReceipt, Retrieve, RetrieveFails, Kill, StartStage, StartSample, PipeStart,
   PipeRetrieve1, PipeRetrieve2, RunTask, AppendSummary, PipeBreaksOff, HostAnswers

\* The steps that end a stage: a refusal, a failure, a kill.
LEMMA BreaksAlone ==
  ASSUME Sound, mode = "manual", [Next]_vars, NEW p \in Procs, Alone(p),
         Refuse(p) \/ BreaksOff(p) \/ RetrieveFails(p) \/ Kill(p)
  PROVE  Alone(p)'
<1>1. /\ Running(p) /\ rest' = [rest EXCEPT ![p] = << >>]
      /\ UNCHANGED <<state, receipt, checkpoint, marker, answer>>
  BY DEF Refuse, BreaksOff, RetrieveFails, Kill, Ends, Board!Accept
<1>2. broken \subseteq broken'
  BY DEF Refuse, BreaksOff, RetrieveFails, Kill, BreaksMidway, notes
<1>3. ASSUME NEW h \in Histories, Next1(p) = MarkerStep(h) PROVE Unmarked(h)'
  <2>1. Next1(p) \in {"marker1", "marker2"} /\ Kill(p)
    BY <1>3, StepNames DEF MarkerStep, Refuse, BreaksOff, RetrieveFails
  <2>2. <<state.current, Next1(p)>> \in Behind
    BY <1>1, <2>1 DEF Alone, Carries, Firsts
  <2>3. state.current = IF h = "history1" THEN "VERIFICATION1_SUBMITTED"
                                          ELSE "VERIFICATION2_SUBMITTED"
    BY <1>3, <2>2, BehindPairs DEF MarkerStep, Histories
  <2>4. state.current \in broken'
    BY <2>1 DEF Kill, BreaksMidway, Midway
  <2> QED
    BY <2>3, <2>4 DEF Unmarked
<1> QED
  BY <1>1, <1>2, <1>3, EndsAlone

LEMMA OneByOneStep ==
  ASSUME Sound, OneByOne, [Next]_vars
  PROVE  OneByOne'
<1>0. mode' = mode
  BY ModeKept
<1> SUFFICES ASSUME mode = "manual", ~overlapped'
             PROVE  \E p \in Procs : Alone(p)'
  BY <1>0 DEF OneByOne
<1>1. PICK r \in Procs : Alone(r)
  BY OverlappedStays DEF OneByOne
<1>2. ASSUME NEW p \in Procs, NEW stage \in Stages, StartStage(p, stage) PROVE Alone(p)'
  BY <1>2, StartsAlone
<1>3. ASSUME NEW p \in Procs, Running(p) PROVE Alone(p)
  BY <1>1, <1>3 DEF Alone
<1>4. ASSUME NEW p \in Procs,
             \/ Refuse(p) \/ Write(p) \/ Infer(p) \/ Submit(p)
             \/ BreaksOff(p) \/ WriteMarker(p) \/ ReadReceipt(p)
             \/ Retrieve(p) \/ RetrieveFails(p) \/ Kill(p)
      PROVE  Alone(p)'
  <2>1. Running(p)
    BY <1>4 DEF Refuse, Write, Infer, Submit, BreaksOff, WriteMarker, ReadReceipt, Retrieve,
       RetrieveFails, Kill, Sound, Serialized
  <2>2. Alone(p)
    BY <1>3, <2>1
  <2> QED
    BY <1>4, <2>2, BreaksAlone, WritesAlone, InfersAlone, SubmitsAlone, MarksAlone,
       ReadsAlone, RetrievesAlone
<1>5. CASE UNCHANGED <<state, rest, ticket, files, broken, overlapped, host>>
  <2>1. /\ \A q \in Procs : Running(q)' <=> Running(q)
        /\ \A q \in Procs : Next1(q)' = Next1(q) /\ LastStep(q)' = LastStep(q)
        /\ \A h \in Histories : AnswerTo(Lead, h)' = AnswerTo(Lead, h)
    BY <1>5 DEF Running, Next1, LastStep, AnswerTo
  <2>2. Standing'
    BY <1>1, <1>5, <2>1, StandingStays, UnmarkedStays DEF Alone, Standing
  <2>3. ASSUME Running(r) PROVE Carries(r)'
    <3>1. Earned(LastStep(r), Lead) => Earned(LastStep(r), Lead)'
      <4>1. LastStep(r)' = LastStep(r)
        BY <2>1
      <4> QED
        BY <2>1, <4>1 DEF Earned, Histories
    <3> QED
      BY <1>1, <1>5, <2>1, <2>3, <3>1 DEF Alone, Carries, Histories
  <2> QED
    BY <1>1, <2>1, <2>2, <2>3 DEF Alone
<1> QED
  BY <1>1, <1>2, <1>4, <1>5, AnsweredAlone, ManualSteps

LEMMA OneByOneAlways == Spec => []OneByOne
<1>1. ASSUME Init PROVE OneByOne
  <2>1. \A q \in Procs : ~Running(q)
    BY <1>1 DEF Init, Running
  <2>2. Standing
    BY <1>1 DEF Init, Standing, SecondHalf, Terminals, Waiting
  <2> QED
    BY <2>1, <2>2, WorkflowAssumption DEF OneByOne, Alone
<1> QED
  BY <1>1, OneByOneStep, SoundAlways, PTL DEF Spec

-----------------------------------------------------------------------------
(* What the stages promise.                                                *)

\* In both modes that give a verdict of their own: a terminal status is the one
\* the host's answers to the jobs of the receipts give. For the manual stages
\* this holds as long as no two of them overlap, whatever is refused, retried
\* or killed; for the pipeline always (distributed_workflow.py:257-264, 288-293,
\* 354-416).
THEOREM TerminalsEarned == Spec => []VerdictsEarned
<1>1. Piped /\ OneByOne => VerdictsEarned
  BY DEF Piped, SamplePiped, OneByOne, Alone, Standing, VerdictsEarned
<1> QED
  BY <1>1, PipedAlways, OneByOneAlways, PTL

\* No inference of history 2 without a passed history 1, in either mode
\* (distributed_workflow.py:258-260, 372-375).
THEOREM SecondWaitsForFirst == Spec => []SecondHistoryEarned
<1>1. Piped /\ OneByOne => SecondHistoryEarned
  BY DEF Piped, SamplePiped, OneByOne, Alone, Standing, SecondHistoryEarned
<1> QED
  BY <1>1, PipedAlways, OneByOneAlways, PTL

\* When the state says that the inference host may be stopped, state, receipt
\* and marker name one job (the marker unless its stage was killed just before
\* it), the host has it, and the checkpoint is there (distributed_workflow.py:239-252, 270-283, 765-796).
THEOREM StopIsSafe == Spec => []ResumePointSound
<1>1. ASSUME Sound, OneByOne PROVE ResumePointSound
  <2> SUFFICES ASSUME mode = "manual", ~overlapped, NEW h \in Histories, Waiting(h)
               PROVE  /\ state.jobs[h] # None /\ state.jobs[h] = receipt[<<Lead, h>>]
                      /\ state.jobs[h] \in known
                      /\ <<Lead, h>> \in checkpoint
                      /\ Quiet /\ ~Unmarked(h) => marker[h] = state.jobs[h]
    BY DEF ResumePointSound
  <2>1. Standing
    BY <1>1 DEF OneByOne, Alone
  <2>2. state.jobs[h] # None /\ state.jobs[h] = receipt[<<Lead, h>>] /\ <<Lead, h>> \in checkpoint
    BY <2>1 DEF Standing
  <2>3. state.jobs[h] \in known
    BY <1>1, <2>2, WorkflowAssumption DEF Sound, HostOK
  <2>4. Quiet /\ ~Unmarked(h) => marker[h] = state.jobs[h]
    BY <2>1 DEF Standing, Quiet
  <2> QED
    BY <2>2, <2>3, <2>4
<1> QED
  BY <1>1, SoundAlways, OneByOneAlways, PTL
=============================================================================
