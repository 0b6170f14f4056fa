------------------------- MODULE RemoteVerifierProofs -------------------------
(***************************************************************************)
(* Theorems about RemoteVerifier for any jobs, policies, ways to wait,     *)
(* repeated calls and faults.                                              *)
(***************************************************************************)
EXTENDS RemoteVerifier, TLAPS

\* A runner that has executed, or answers from a result, has a status.
HasStatus ==
  \A w \in Runners :
    /\ at[w] \in {"move", "output", "publish"} => verdict[w] # None
    /\ at[w] = "answered" => result[w[1]] # None

\* A controller that still uploads has an unpromoted job and no receipt; one
\* about to start the worker has a promoted one.
Promoted ==
  \A j \in Jobs :
    /\ ctl[j] = "upload" => place[j] \in {"nowhere", "incoming"} /\ j \notin receipts
    /\ ctl[j] = "start" => place[j] \notin {"nowhere", "incoming"}

\* completed is final, and its outputs are there before its result.
Completing ==
  \A w \in Runners :
    /\ at[w] \in {"output", "publish"} => place[w[1]] = "completed"
    /\ at[w] = "publish" => w[1] \in outputs

IInv == TypeOK /\ HasStatus /\ Promoted /\ Completing /\ ResultComplete /\ ReceiptHonest

USE DEF vars, controller, store, runner
-----------------------------------------------------------------------------

\* A runner is a job and a call, and never None.
LEMMA RunnerParts ==
  /\ \A w \in Runners : w[1] \in Jobs
  /\ \A j \in Jobs : <<j, First>> \in Runners /\ <<j, First>>[1] = j
  /\ None \notin Runners
  /\ None \notin Jobs
  /\ None \notin Verdicts \cup {"infra_failed", "infra"}
<1>1. ASSUME NEW w \in Runners PROVE w[1] \in Jobs
  <2>1. PICK j \in Jobs : w \in {j} \X Calls[j]
    BY DEF Runners
  <2> QED
    BY <2>1
<1>2. ASSUME NEW j \in Jobs PROVE <<j, First>> \in Runners /\ <<j, First>>[1] = j
  <2>1. <<j, First>> \in {j} \X Calls[j]
    BY VerifierAssumption
  <2> QED
    BY <2>1 DEF Runners
<1>3. None \notin Runners /\ None \notin Jobs
  BY VerifierAssumption DEF Runners
<1>4. None \notin Verdicts \cup {"infra_failed", "infra"}
  BY VerifierAssumption DEF Verdicts
<1> QED
  BY <1>1, <1>2, <1>3, <1>4

\* The types are kept by every step.
LEMMA TypeStep ==
  ASSUME TypeOK, HasStatus, [Next]_vars
  PROVE  TypeOK'
<1> USE RunnerParts, VerifierAssumption DEF TypeOK, ControllerTypeOK, StoreTypeOK,
         RunnerTypeOK, HasStatus,
         ControllerStates, Places, RunnerStates, Statuses, Verdicts, Over
<1>1. ASSUME NEW j \in Jobs, NEW p \in {"workspace", "manifest", "bundle"}, Upload(j, p)
      PROVE TypeOK'
  BY <1>1 DEF Upload, Arrives, IsNextPart, Fault
<1>2. ASSUME NEW j \in Jobs, Promote(j) PROVE TypeOK'
  BY <1>2 DEF Promote, CallsVerify, Promotes, Move
<1>3. ASSUME NEW j \in Jobs, PromoteReplyLost(j) PROVE TypeOK'
  BY <1>3 DEF PromoteReplyLost, Promotes, End, Move, Fault
<1>4. ASSUME NEW j \in Jobs, StartWorker(j) PROVE TypeOK'
  <2>1. CASE result[j] # None
    BY <1>4, <2>1 DEF StartWorker, LaunchDetached, Move
  <2>2. CASE Launch(<<j, First>>)
    BY <1>4, <2>2 DEF StartWorker, Launch, Move
  <2> QED
    BY <1>4, <2>1, <2>2 DEF StartWorker, LaunchDetached
<1>5. ASSUME NEW j \in Jobs, StartReplyLost(j) PROVE TypeOK'
  <2>1. CASE UNCHANGED runner
    BY <1>5, <2>1 DEF StartReplyLost, End, Move, Fault
  <2>2. CASE Launch(<<j, First>>)
    BY <1>5, <2>2 DEF StartReplyLost, Launch, End, Move, Fault
  <2> QED
    BY <1>5, <2>1, <2>2 DEF StartReplyLost, LaunchDetached
<1>6. ASSUME NEW j \in Jobs, CallVerify(j) PROVE TypeOK'
  BY <1>6 DEF CallVerify, Launch, Move
<1>7. ASSUME NEW j \in Jobs, VerifyReturns(j) PROVE TypeOK'
  BY <1>7 DEF VerifyReturns, End, Move
<1>8. ASSUME NEW j \in Jobs, PollFinds(j) PROVE TypeOK'
  BY <1>8 DEF PollFinds, Move
<1>9. ASSUME NEW j \in Jobs, Fetch(j) PROVE TypeOK'
  BY <1>9 DEF Fetch, End, Move
<1>10. ASSUME NEW j \in Jobs, Resume(j) PROVE TypeOK'
  BY <1>10 DEF Resume, Move
<1>11. ASSUME NEW w \in Runners, Repeat(w) PROVE TypeOK'
  BY <1>11, RunnerParts DEF Repeat, Launch
<1>12. ASSUME NEW w \in Runners, AnswerAgain(w) PROVE TypeOK'
  BY <1>12, RunnerParts DEF AnswerAgain, Goto
<1>13. ASSUME NEW w \in Runners, Clear(w) PROVE TypeOK'
  BY <1>13, RunnerParts DEF Clear, Goto
<1>14. ASSUME NEW w \in Runners, Take(w) PROVE TypeOK'
  BY <1>14, RunnerParts DEF Take, Ready, Goto
<1>15. ASSUME NEW w \in Runners, StartContainer(w) PROVE TypeOK'
  BY <1>15, RunnerParts DEF StartContainer, Goto
<1>16. ASSUME NEW w \in Runners, EndContainer(w) PROVE TypeOK'
  BY <1>16, RunnerParts DEF EndContainer, StillWhole, Goto
<1>17. ASSUME NEW w \in Runners, EndJudge(w) PROVE TypeOK'
  BY <1>17, RunnerParts DEF EndJudge, StillWhole, Goto
<1>18. ASSUME NEW w \in Runners, Complete(w) PROVE TypeOK'
  BY <1>18, RunnerParts DEF Complete, Goto
<1>19. ASSUME NEW w \in Runners, WriteOutputs(w) PROVE TypeOK'
  BY <1>19, RunnerParts DEF WriteOutputs, Goto
<1>20. ASSUME NEW w \in Runners, Publish(w) PROVE TypeOK'
  BY <1>20, RunnerParts DEF Publish, Goto
<1>21. ASSUME NEW w \in Runners, DaemonFails(w) PROVE TypeOK'
  BY <1>21, RunnerParts DEF DaemonFails, Goto, Fault
<1>22. ASSUME NEW w \in Runners, Die(w) PROVE TypeOK'
  BY <1>22, RunnerParts DEF Die, Unlocked, Goto, Fault
<1>23. ASSUME NEW j \in Jobs, UploadFails(j) \/ FetchFails(j) \/ CallTimesOut(j) \/
       PollTimesOut(j) \/ ControllerStops(j)
      PROVE  TypeOK'
  BY <1>23 DEF UploadFails, End, Move, Fault, FetchFails, CallTimesOut, PollTimesOut,
     ControllerStops
<1>24. ASSUME NEW w \in Runners, NotReady(w) \/ Begin(w) \/ Admit(w) \/ Reject(w) \/
       TakeRaises(w) \/ CompleteRaises(w)
      PROVE  TypeOK'
  BY <1>24, RunnerParts DEF NotReady, AnswersInfra, Raises, Goto, Begin,
     Ready, Admit, Sound, Reject, Fault,
     TakeRaises, CompleteRaises
<1>25. CASE UNCHANGED vars
  BY <1>25
<1> QED
    BY <1>1, <1>2, <1>3, <1>4, <1>5, <1>6, <1>7, <1>8, <1>9, <1>10, <1>11, <1>12, <1>13,
     <1>14, <1>15, <1>16, <1>17, <1>18, <1>19, <1>20, <1>21, <1>22, <1>23, <1>24, <1>25
     DEF Next, ControllerStep, ControllerFails, RunnerStep

\* Statuses are computed before they are used.
LEMMA StatusStep ==
  ASSUME TypeOK, HasStatus, [Next]_vars
  PROVE  HasStatus'
<1> USE RunnerParts, VerifierAssumption DEF TypeOK, ControllerTypeOK, StoreTypeOK,
         RunnerTypeOK, HasStatus,
         ControllerStates, Places, RunnerStates, Statuses, Verdicts, Over
<1>1. ASSUME NEW j \in Jobs, NEW p \in {"workspace", "manifest", "bundle"}, Upload(j, p)
      PROVE HasStatus'
  BY <1>1 DEF Upload, Arrives, IsNextPart, Fault
<1>2. ASSUME NEW j \in Jobs, Promote(j) PROVE HasStatus'
  BY <1>2 DEF Promote, CallsVerify, Promotes, Move
<1>3. ASSUME NEW j \in Jobs, PromoteReplyLost(j) PROVE HasStatus'
  BY <1>3 DEF PromoteReplyLost, Promotes, End, Move, Fault
<1>4. ASSUME NEW j \in Jobs, StartWorker(j) PROVE HasStatus'
  <2>1. CASE result[j] # None
    BY <1>4, <2>1 DEF StartWorker, LaunchDetached, Move
  <2>2. CASE Launch(<<j, First>>)
    BY <1>4, <2>2 DEF StartWorker, Launch, Move
  <2> QED
    BY <1>4, <2>1, <2>2 DEF StartWorker, LaunchDetached
<1>5. ASSUME NEW j \in Jobs, StartReplyLost(j) PROVE HasStatus'
  <2>1. CASE UNCHANGED runner
    BY <1>5, <2>1 DEF StartReplyLost, End, Move, Fault
  <2>2. CASE Launch(<<j, First>>)
    BY <1>5, <2>2 DEF StartReplyLost, Launch, End, Move, Fault
  <2> QED
    BY <1>5, <2>1, <2>2 DEF StartReplyLost, LaunchDetached
<1>6. ASSUME NEW j \in Jobs, CallVerify(j) PROVE HasStatus'
  BY <1>6 DEF CallVerify, Launch, Move
<1>7. ASSUME NEW w \in Runners, Repeat(w) PROVE HasStatus'
  BY <1>7, RunnerParts DEF Repeat, Launch
<1>8. ASSUME NEW w \in Runners, AnswerAgain(w) PROVE HasStatus'
  BY <1>8, RunnerParts DEF AnswerAgain, Goto
<1>9. ASSUME NEW w \in Runners, Clear(w) PROVE HasStatus'
  BY <1>9, RunnerParts DEF Clear, Goto
<1>10. ASSUME NEW w \in Runners, Take(w) PROVE HasStatus'
  BY <1>10, RunnerParts DEF Take, Ready, Goto
<1>11. ASSUME NEW w \in Runners, StartContainer(w) PROVE HasStatus'
  BY <1>11, RunnerParts DEF StartContainer, Goto
<1>12. ASSUME NEW w \in Runners, EndContainer(w) PROVE HasStatus'
  BY <1>12, RunnerParts DEF EndContainer, StillWhole, Goto
<1>13. ASSUME NEW w \in Runners, EndJudge(w) PROVE HasStatus'
  BY <1>13, RunnerParts DEF EndJudge, StillWhole, Goto
<1>14. ASSUME NEW w \in Runners, Complete(w) PROVE HasStatus'
  BY <1>14, RunnerParts DEF Complete, Goto
<1>15. ASSUME NEW w \in Runners, WriteOutputs(w) PROVE HasStatus'
  BY <1>15, RunnerParts DEF WriteOutputs, Goto
<1>16. ASSUME NEW w \in Runners, Publish(w) PROVE HasStatus'
  BY <1>16, RunnerParts DEF Publish, Goto
<1>17. ASSUME NEW w \in Runners, DaemonFails(w) PROVE HasStatus'
  BY <1>17, RunnerParts DEF DaemonFails, Goto, Fault
<1>18. ASSUME NEW w \in Runners, Die(w) PROVE HasStatus'
  BY <1>18, RunnerParts DEF Die, Unlocked, Goto, Fault
<1>19. ASSUME NEW j \in Jobs, UploadFails(j) \/ FetchFails(j) \/ CallTimesOut(j) \/
       PollTimesOut(j) \/ ControllerStops(j) \/ PollFinds(j) \/ Resume(j) \/
       VerifyReturns(j) \/ Fetch(j)
      PROVE  HasStatus'
  BY <1>19 DEF UploadFails, End, Move, Fault, FetchFails, CallTimesOut, PollTimesOut,
     ControllerStops, PollFinds, Resume, VerifyReturns, Fetch
<1>20. ASSUME NEW w \in Runners, NotReady(w) \/ Begin(w) \/ Admit(w) \/ Reject(w) \/
       TakeRaises(w) \/ CompleteRaises(w)
      PROVE  HasStatus'
  BY <1>20, RunnerParts DEF NotReady, AnswersInfra, Raises, Goto, Begin,
     Ready, Admit, Sound, Reject, Fault,
     TakeRaises, CompleteRaises
<1>21. CASE UNCHANGED vars
  BY <1>21
<1> QED
    BY <1>1, <1>2, <1>3, <1>4, <1>5, <1>6, <1>7, <1>8, <1>9, <1>10, <1>11, <1>12, <1>13,
     <1>14, <1>15, <1>16, <1>17, <1>18, <1>19, <1>20, <1>21 DEF Next, ControllerStep,
     ControllerFails, RunnerStep

\* Promotion is not undone.
LEMMA PromotedStep ==
  ASSUME TypeOK, Promoted, [Next]_vars
  PROVE  Promoted'
<1> USE RunnerParts, VerifierAssumption DEF StoreTypeOK, RunnerTypeOK, ControllerTypeOK, TypeOK,
         Promoted, Completing, ResultComplete, Over
<1>1. ASSUME NEW j \in Jobs, NEW p \in {"workspace", "manifest", "bundle"}, Upload(j, p)
      PROVE Promoted'
  BY <1>1 DEF Upload, Arrives, IsNextPart, Fault
<1>2. ASSUME NEW j \in Jobs, Promote(j) PROVE Promoted'
  BY <1>2 DEF Promote, CallsVerify, Promotes, Move
<1>3. ASSUME NEW j \in Jobs, PromoteReplyLost(j) PROVE Promoted'
  BY <1>3 DEF PromoteReplyLost, Promotes, End, Move, Fault
<1>4. ASSUME NEW j \in Jobs, StartWorker(j) PROVE Promoted'
  <2>1. CASE result[j] # None
    BY <1>4, <2>1 DEF StartWorker, LaunchDetached, Move
  <2>2. CASE Launch(<<j, First>>)
    BY <1>4, <2>2 DEF StartWorker, Launch, Move
  <2> QED
    BY <1>4, <2>1, <2>2 DEF StartWorker, LaunchDetached
<1>5. ASSUME NEW j \in Jobs, StartReplyLost(j) PROVE Promoted'
  <2>1. CASE UNCHANGED runner
    BY <1>5, <2>1 DEF StartReplyLost, End, Move, Fault
  <2>2. CASE Launch(<<j, First>>)
    BY <1>5, <2>2 DEF StartReplyLost, Launch, End, Move, Fault
  <2> QED
    BY <1>5, <2>1, <2>2 DEF StartReplyLost, LaunchDetached
<1>6. ASSUME NEW j \in Jobs, CallVerify(j) PROVE Promoted'
  BY <1>6 DEF CallVerify, Launch, Move
<1>7. ASSUME NEW w \in Runners, Repeat(w) PROVE Promoted'
  BY <1>7, RunnerParts DEF Repeat, Launch
<1>8. ASSUME NEW w \in Runners, AnswerAgain(w) PROVE Promoted'
  BY <1>8, RunnerParts DEF AnswerAgain, Goto
<1>9. ASSUME NEW w \in Runners, Clear(w) PROVE Promoted'
  BY <1>9, RunnerParts DEF Clear, Goto
<1>10. ASSUME NEW w \in Runners, Take(w) PROVE Promoted'
  BY <1>10, RunnerParts DEF Take, Ready, Goto
<1>11. ASSUME NEW w \in Runners, StartContainer(w) PROVE Promoted'
  BY <1>11, RunnerParts DEF StartContainer, Goto
<1>12. ASSUME NEW w \in Runners, EndContainer(w) PROVE Promoted'
  BY <1>12, RunnerParts DEF EndContainer, StillWhole, Goto
<1>13. ASSUME NEW w \in Runners, EndJudge(w) PROVE Promoted'
  BY <1>13, RunnerParts DEF EndJudge, StillWhole, Goto
<1>14. ASSUME NEW w \in Runners, Complete(w) PROVE Promoted'
  BY <1>14, RunnerParts DEF Complete, Goto
<1>15. ASSUME NEW w \in Runners, WriteOutputs(w) PROVE Promoted'
  BY <1>15, RunnerParts DEF WriteOutputs, Goto
<1>16. ASSUME NEW w \in Runners, Publish(w) PROVE Promoted'
  BY <1>16, RunnerParts DEF Publish, Goto
<1>17. ASSUME NEW w \in Runners, DaemonFails(w) PROVE Promoted'
  BY <1>17, RunnerParts DEF DaemonFails, Goto, Fault
<1>18. ASSUME NEW w \in Runners, Die(w) PROVE Promoted'
  BY <1>18, RunnerParts DEF Die, Unlocked, Goto, Fault
<1>19. ASSUME NEW j \in Jobs, UploadFails(j) \/ FetchFails(j) \/ CallTimesOut(j) \/
       PollTimesOut(j) \/ ControllerStops(j)
      PROVE  Promoted'
  BY <1>19 DEF UploadFails, End, Move, Fault, FetchFails, CallTimesOut, PollTimesOut,
     ControllerStops
<1>20. ASSUME NEW j \in Jobs, PollFinds(j) \/ Resume(j) \/ VerifyReturns(j) \/ Fetch(j)
      PROVE  Promoted'
  BY <1>20 DEF PollFinds, Move, Resume, VerifyReturns, End, Fetch
<1>21. ASSUME NEW w \in Runners, NotReady(w) \/ Begin(w) \/ Admit(w) \/ Reject(w) \/
       TakeRaises(w) \/ CompleteRaises(w)
      PROVE  Promoted'
  BY <1>21, RunnerParts DEF NotReady, AnswersInfra, Raises, Goto, Begin,
     Ready, Admit, Sound, Reject, Fault,
     TakeRaises, CompleteRaises
<1>22. CASE UNCHANGED vars
  BY <1>22
<1> QED
    BY <1>1, <1>2, <1>3, <1>4, <1>5, <1>6, <1>7, <1>8, <1>9, <1>10, <1>11, <1>12, <1>13,
     <1>14, <1>15, <1>16, <1>17, <1>18, <1>19, <1>20, <1>21, <1>22 DEF Next,
     ControllerStep, ControllerFails, RunnerStep

\* completed is not left.
LEMMA CompletingStep ==
  ASSUME TypeOK, Promoted, Completing, [Next]_vars
  PROVE  Completing'
<1> USE RunnerParts, VerifierAssumption DEF StoreTypeOK, RunnerTypeOK, ControllerTypeOK, TypeOK,
         Promoted, Completing, ResultComplete, Over
<1>1. ASSUME NEW j \in Jobs, NEW p \in {"workspace", "manifest", "bundle"}, Upload(j, p)
      PROVE Completing'
  BY <1>1 DEF Upload, Arrives, IsNextPart, Fault
<1>2. ASSUME NEW j \in Jobs, Promote(j) PROVE Completing'
  BY <1>2 DEF Promote, CallsVerify, Promotes, Move
<1>3. ASSUME NEW j \in Jobs, PromoteReplyLost(j) PROVE Completing'
  BY <1>3 DEF PromoteReplyLost, Promotes, End, Move, Fault
<1>4. ASSUME NEW j \in Jobs, StartWorker(j) PROVE Completing'
  <2>1. CASE result[j] # None
    BY <1>4, <2>1 DEF StartWorker, LaunchDetached, Move
  <2>2. CASE Launch(<<j, First>>)
    BY <1>4, <2>2 DEF StartWorker, Launch, Move
  <2> QED
    BY <1>4, <2>1, <2>2 DEF StartWorker, LaunchDetached
<1>5. ASSUME NEW j \in Jobs, StartReplyLost(j) PROVE Completing'
  <2>1. CASE UNCHANGED runner
    BY <1>5, <2>1 DEF StartReplyLost, End, Move, Fault
  <2>2. CASE Launch(<<j, First>>)
    BY <1>5, <2>2 DEF StartReplyLost, Launch, End, Move, Fault
  <2> QED
    BY <1>5, <2>1, <2>2 DEF StartReplyLost, LaunchDetached
<1>6. ASSUME NEW j \in Jobs, CallVerify(j) PROVE Completing'
  BY <1>6 DEF CallVerify, Launch, Move
<1>7. ASSUME NEW w \in Runners, Repeat(w) PROVE Completing'
  BY <1>7, RunnerParts DEF Repeat, Launch
<1>8. ASSUME NEW w \in Runners, AnswerAgain(w) PROVE Completing'
  BY <1>8, RunnerParts DEF AnswerAgain, Goto
<1>9. ASSUME NEW w \in Runners, Clear(w) PROVE Completing'
  BY <1>9, RunnerParts DEF Clear, Goto
<1>10. ASSUME NEW w \in Runners, Take(w) PROVE Completing'
  BY <1>10, RunnerParts DEF Take, Ready, Goto
<1>11. ASSUME NEW w \in Runners, StartContainer(w) PROVE Completing'
  BY <1>11, RunnerParts DEF StartContainer, Goto
<1>12. ASSUME NEW w \in Runners, EndContainer(w) PROVE Completing'
  BY <1>12, RunnerParts DEF EndContainer, StillWhole, Goto
<1>13. ASSUME NEW w \in Runners, EndJudge(w) PROVE Completing'
  BY <1>13, RunnerParts DEF EndJudge, StillWhole, Goto
<1>14. ASSUME NEW w \in Runners, Complete(w) PROVE Completing'
  BY <1>14, RunnerParts DEF Complete, Goto
<1>15. ASSUME NEW w \in Runners, WriteOutputs(w) PROVE Completing'
  BY <1>15, RunnerParts DEF WriteOutputs, Goto
<1>16. ASSUME NEW w \in Runners, Publish(w) PROVE Completing'
  BY <1>16, RunnerParts DEF Publish, Goto
<1>17. ASSUME NEW w \in Runners, DaemonFails(w) PROVE Completing'
  BY <1>17, RunnerParts DEF DaemonFails, Goto, Fault
<1>18. ASSUME NEW w \in Runners, Die(w) PROVE Completing'
  BY <1>18, RunnerParts DEF Die, Unlocked, Goto, Fault
<1>19. ASSUME NEW j \in Jobs, UploadFails(j) \/ FetchFails(j) \/ CallTimesOut(j) \/
       PollTimesOut(j) \/ ControllerStops(j) \/ PollFinds(j) \/ Resume(j) \/
       VerifyReturns(j) \/ Fetch(j)
      PROVE  Completing'
  BY <1>19 DEF UploadFails, End, Move, Fault, FetchFails, CallTimesOut, PollTimesOut,
     ControllerStops, PollFinds, Resume, VerifyReturns, Fetch
<1>20. ASSUME NEW w \in Runners, NotReady(w) \/ Begin(w) \/ Admit(w) \/ Reject(w) \/
       TakeRaises(w) \/ CompleteRaises(w)
      PROVE  Completing'
  BY <1>20, RunnerParts DEF NotReady, AnswersInfra, Raises, Goto, Begin,
     Ready, Admit, Sound, Reject, Fault,
     TakeRaises, CompleteRaises
<1>21. CASE UNCHANGED vars
  BY <1>21
<1> QED
    BY <1>1, <1>2, <1>3, <1>4, <1>5, <1>6, <1>7, <1>8, <1>9, <1>10, <1>11, <1>12, <1>13,
     <1>14, <1>15, <1>16, <1>17, <1>18, <1>19, <1>20, <1>21 DEF Next, ControllerStep,
     ControllerFails, RunnerStep

\* Results come last.
LEMMA ResultStep ==
  ASSUME TypeOK, Promoted, Completing, ResultComplete, [Next]_vars
  PROVE  ResultComplete'
<1> USE RunnerParts, VerifierAssumption DEF StoreTypeOK, RunnerTypeOK, ControllerTypeOK, TypeOK,
         Promoted, Completing, ResultComplete, Over
<1>1. ASSUME NEW j \in Jobs, NEW p \in {"workspace", "manifest", "bundle"}, Upload(j, p)
      PROVE ResultComplete'
  BY <1>1 DEF Upload, Arrives, IsNextPart, Fault
<1>2. ASSUME NEW j \in Jobs, Promote(j) PROVE ResultComplete'
  BY <1>2 DEF Promote, CallsVerify, Promotes, Move
<1>3. ASSUME NEW j \in Jobs, PromoteReplyLost(j) PROVE ResultComplete'
  BY <1>3 DEF PromoteReplyLost, Promotes, End, Move, Fault
<1>4. ASSUME NEW j \in Jobs, StartWorker(j) PROVE ResultComplete'
  <2>1. CASE result[j] # None
    BY <1>4, <2>1 DEF StartWorker, LaunchDetached, Move
  <2>2. CASE Launch(<<j, First>>)
    BY <1>4, <2>2 DEF StartWorker, Launch, Move
  <2> QED
    BY <1>4, <2>1, <2>2 DEF StartWorker, LaunchDetached
<1>5. ASSUME NEW j \in Jobs, StartReplyLost(j) PROVE ResultComplete'
  <2>1. CASE UNCHANGED runner
    BY <1>5, <2>1 DEF StartReplyLost, End, Move, Fault
  <2>2. CASE Launch(<<j, First>>)
    BY <1>5, <2>2 DEF StartReplyLost, Launch, End, Move, Fault
  <2> QED
    BY <1>5, <2>1, <2>2 DEF StartReplyLost, LaunchDetached
<1>6. ASSUME NEW j \in Jobs, CallVerify(j) PROVE ResultComplete'
  BY <1>6 DEF CallVerify, Launch, Move
<1>7. ASSUME NEW w \in Runners, Repeat(w) PROVE ResultComplete'
  BY <1>7, RunnerParts DEF Repeat, Launch
<1>8. ASSUME NEW w \in Runners, AnswerAgain(w) PROVE ResultComplete'
  BY <1>8, RunnerParts DEF AnswerAgain, Goto
<1>9. ASSUME NEW w \in Runners, Clear(w) PROVE ResultComplete'
  BY <1>9, RunnerParts DEF Clear, Goto
<1>10. ASSUME NEW w \in Runners, Take(w) PROVE ResultComplete'
  BY <1>10, RunnerParts DEF Take, Ready, Goto
<1>11. ASSUME NEW w \in Runners, StartContainer(w) PROVE ResultComplete'
  BY <1>11, RunnerParts DEF StartContainer, Goto
<1>12. ASSUME NEW w \in Runners, EndContainer(w) PROVE ResultComplete'
  BY <1>12, RunnerParts DEF EndContainer, StillWhole, Goto
<1>13. ASSUME NEW w \in Runners, EndJudge(w) PROVE ResultComplete'
  BY <1>13, RunnerParts DEF EndJudge, StillWhole, Goto
<1>14. ASSUME NEW w \in Runners, Complete(w) PROVE ResultComplete'
  BY <1>14, RunnerParts DEF Complete, Goto
<1>15. ASSUME NEW w \in Runners, WriteOutputs(w) PROVE ResultComplete'
  BY <1>15, RunnerParts DEF WriteOutputs, Goto
<1>16. ASSUME NEW w \in Runners, Publish(w) PROVE ResultComplete'
  BY <1>16, RunnerParts DEF Publish, Goto
<1>17. ASSUME NEW w \in Runners, DaemonFails(w) PROVE ResultComplete'
  BY <1>17, RunnerParts DEF DaemonFails, Goto, Fault
<1>18. ASSUME NEW w \in Runners, Die(w) PROVE ResultComplete'
  BY <1>18, RunnerParts DEF Die, Unlocked, Goto, Fault
<1>19. ASSUME NEW j \in Jobs, UploadFails(j) \/ FetchFails(j) \/ CallTimesOut(j) \/
       PollTimesOut(j) \/ ControllerStops(j) \/ PollFinds(j) \/ Resume(j) \/
       VerifyReturns(j) \/ Fetch(j)
      PROVE  ResultComplete'
  BY <1>19 DEF UploadFails, End, Move, Fault, FetchFails, CallTimesOut, PollTimesOut,
     ControllerStops, PollFinds, Resume, VerifyReturns, Fetch
<1>20. ASSUME NEW w \in Runners, NotReady(w) \/ Begin(w) \/ Admit(w) \/ Reject(w) \/
       TakeRaises(w) \/ CompleteRaises(w)
      PROVE  ResultComplete'
  BY <1>20, RunnerParts DEF NotReady, AnswersInfra, Raises, Goto, Begin,
     Ready, Admit, Sound, Reject, Fault,
     TakeRaises, CompleteRaises
<1>21. CASE UNCHANGED vars
  BY <1>21
<1> QED
    BY <1>1, <1>2, <1>3, <1>4, <1>5, <1>6, <1>7, <1>8, <1>9, <1>10, <1>11, <1>12, <1>13,
     <1>14, <1>15, <1>16, <1>17, <1>18, <1>19, <1>20, <1>21 DEF Next, ControllerStep,
     ControllerFails, RunnerStep

\* A receipt stays honest.
LEMMA ReceiptStep ==
  ASSUME TypeOK, Promoted, HasStatus, ReceiptHonest, [Next]_vars
  PROVE  ReceiptHonest'
<1> USE RunnerParts, VerifierAssumption DEF StoreTypeOK, RunnerTypeOK, ControllerTypeOK, TypeOK,
         Promoted, ReceiptHonest, HasStatus, Over
<1>1. ASSUME NEW j \in Jobs, NEW p \in {"workspace", "manifest", "bundle"}, Upload(j, p)
      PROVE ReceiptHonest'
  BY <1>1 DEF Upload, Arrives, IsNextPart, Fault
<1>2. ASSUME NEW j \in Jobs, Promote(j) PROVE ReceiptHonest'
  BY <1>2 DEF Promote, CallsVerify, Promotes, Move
<1>3. ASSUME NEW j \in Jobs, PromoteReplyLost(j) PROVE ReceiptHonest'
  BY <1>3 DEF PromoteReplyLost, Promotes, End, Move, Fault
<1>4. ASSUME NEW j \in Jobs, StartWorker(j) PROVE ReceiptHonest'
  <2>1. CASE result[j] # None
    BY <1>4, <2>1 DEF StartWorker, LaunchDetached, Move
  <2>2. CASE Launch(<<j, First>>)
    BY <1>4, <2>2 DEF StartWorker, Launch, Move
  <2> QED
    BY <1>4, <2>1, <2>2 DEF StartWorker, LaunchDetached
<1>5. ASSUME NEW j \in Jobs, StartReplyLost(j) PROVE ReceiptHonest'
  <2>1. CASE UNCHANGED runner
    BY <1>5, <2>1 DEF StartReplyLost, End, Move, Fault
  <2>2. CASE Launch(<<j, First>>)
    BY <1>5, <2>2 DEF StartReplyLost, Launch, End, Move, Fault
  <2> QED
    BY <1>5, <2>1, <2>2 DEF StartReplyLost, LaunchDetached
<1>6. ASSUME NEW j \in Jobs, CallVerify(j) PROVE ReceiptHonest'
  BY <1>6 DEF CallVerify, Launch, Move
<1>7. ASSUME NEW w \in Runners, Repeat(w) PROVE ReceiptHonest'
  BY <1>7, RunnerParts DEF Repeat, Launch
<1>8. ASSUME NEW w \in Runners, AnswerAgain(w) PROVE ReceiptHonest'
  BY <1>8, RunnerParts DEF AnswerAgain, Goto
<1>9. ASSUME NEW w \in Runners, Clear(w) PROVE ReceiptHonest'
  BY <1>9, RunnerParts DEF Clear, Goto
<1>10. ASSUME NEW w \in Runners, Take(w) PROVE ReceiptHonest'
  BY <1>10, RunnerParts DEF Take, Ready, Goto
<1>11. ASSUME NEW w \in Runners, StartContainer(w) PROVE ReceiptHonest'
  BY <1>11, RunnerParts DEF StartContainer, Goto
<1>12. ASSUME NEW w \in Runners, EndContainer(w) PROVE ReceiptHonest'
  BY <1>12, RunnerParts DEF EndContainer, StillWhole, Goto
<1>13. ASSUME NEW w \in Runners, EndJudge(w) PROVE ReceiptHonest'
  BY <1>13, RunnerParts DEF EndJudge, StillWhole, Goto
<1>14. ASSUME NEW w \in Runners, Complete(w) PROVE ReceiptHonest'
  BY <1>14, RunnerParts DEF Complete, Goto
<1>15. ASSUME NEW w \in Runners, WriteOutputs(w) PROVE ReceiptHonest'
  BY <1>15, RunnerParts DEF WriteOutputs, Goto
<1>16. ASSUME NEW w \in Runners, Publish(w) PROVE ReceiptHonest'
  BY <1>16, RunnerParts DEF Publish, Goto
<1>17. ASSUME NEW w \in Runners, DaemonFails(w) PROVE ReceiptHonest'
  BY <1>17, RunnerParts DEF DaemonFails, Goto, Fault
<1>18. ASSUME NEW w \in Runners, Die(w) PROVE ReceiptHonest'
  BY <1>18, RunnerParts DEF Die, Unlocked, Goto, Fault
<1>19. ASSUME NEW j \in Jobs, UploadFails(j) \/ FetchFails(j) \/ CallTimesOut(j) \/
       PollTimesOut(j) \/ ControllerStops(j) \/ PollFinds(j) \/ Resume(j) \/
       VerifyReturns(j) \/ Fetch(j)
      PROVE  ReceiptHonest'
  BY <1>19 DEF UploadFails, End, Move, Fault, FetchFails, CallTimesOut, PollTimesOut,
     ControllerStops, PollFinds, Resume, VerifyReturns, Fetch
<1>20. ASSUME NEW w \in Runners, NotReady(w) \/ Begin(w) \/ Admit(w) \/ Reject(w) \/
       TakeRaises(w) \/ CompleteRaises(w)
      PROVE  ReceiptHonest'
  BY <1>20, RunnerParts DEF NotReady, AnswersInfra, Raises, Goto, Begin,
     Ready, Admit, Sound, Reject, Fault,
     TakeRaises, CompleteRaises
<1>21. CASE UNCHANGED vars
  BY <1>21
<1> QED
    BY <1>1, <1>2, <1>3, <1>4, <1>5, <1>6, <1>7, <1>8, <1>9, <1>10, <1>11, <1>12, <1>13,
     <1>14, <1>15, <1>16, <1>17, <1>18, <1>19, <1>20, <1>21 DEF Next, ControllerStep,
     ControllerFails, RunnerStep

LEMMA InitIInv == Init => IInv
BY RunnerParts, VerifierAssumption
   DEF Init, IInv, TypeOK, ControllerTypeOK, StoreTypeOK, RunnerTypeOK, ControllerStates,
       Places, RunnerStates, Statuses, HasStatus, Promoted, Completing, ResultComplete,
       ReceiptHonest

\* The inductive invariant.
LEMMA Invariance == Spec => []IInv
<1>1. IInv /\ [Next]_vars => IInv'
  BY TypeStep, StatusStep, PromotedStep, CompletingStep, ResultStep, ReceiptStep DEF IInv
<1> QED
  BY <1>1, InitIInv, PTL DEF Spec

\* Types for any instance: in particular nobody fetches or publishes what is not there.
THEOREM TypeCorrect == Spec => []TypeOK
BY Invariance, PTL DEF IInv

\* Whoever repeats verify, and whoever is killed, a visible result.json means
\* that everything it names is in place (runner.py:159-167, 212).
THEOREM ResultsComplete == Spec => []ResultComplete
BY Invariance, PTL DEF IInv

\* The controller's host may be stopped on the strength of a receipt, whatever
\* replies were lost (verifier.py:206-228).
THEOREM ReceiptsHonest == Spec => []ReceiptHonest
BY Invariance, PTL DEF IInv
-----------------------------------------------------------------------------
(* Jobs whose verify is called once, which is what the controllers do.     *)

CalledOnce == \A j \in Jobs : Calls[j] = {First}

\* Until its rename the runner finds its job where it was promoted to; it works
\* on the whole of it, and what it publishes is what it found.
Sole ==
  /\ \A j \in Jobs :
       /\ place[j] # "removed"
       /\ place[j] \notin {"nowhere", "incoming"} => Whole(j)
       /\ result[j] \in Verdicts =>
            /\ j \notin damaged /\ place[j] \notin {"nowhere", "incoming"}
            /\ at[<<j, First>>] = "answered" /\ Computed(<<j, First>>)
            /\ verdict[<<j, First>>] = result[j]
       /\ outcome[j] \in Verdicts => outcome[j] = result[j]
  /\ \A w \in Runners :
       /\ input[w] # "partial"
       /\ at[w] \in {"admit", "clear", "take"} => place[w[1]] = "ready"
       /\ at[w] \in {"clear", "take", "queue", "pytest", "judge", "move", "output", "publish"} =>
            w[1] \notin damaged /\ place[w[1]] \notin {"nowhere", "incoming"}
       /\ at[w] \in {"pytest", "judge"} => input[w] = "whole"
       /\ at[w] \in {"move", "output", "publish"} /\ verdict[w] \in Verdicts => Computed(w)

\* The runner of a job is its controller's.
LEMMA SoleRunner == CalledOnce => \A w \in Runners : w = <<w[1], First>>
<1> SUFFICES ASSUME CalledOnce, NEW w \in Runners PROVE w = <<w[1], First>>
  OBVIOUS
<1>1. PICK j \in Jobs : w \in {j} \X Calls[j]
  BY DEF Runners
<1> QED
  BY <1>1 DEF CalledOnce

\* A runner that has no container yet has been given nothing.
Before == {"idle", "check", "admit", "clear", "take", "queue"}
Unfed == \A w \in Runners : at[w] \in Before => input[w] = "none"

LEMMA UnfedStep ==
  ASSUME TypeOK, Unfed, [Next]_vars
  PROVE  Unfed'
<1> USE DEF TypeOK, RunnerTypeOK, Unfed, Before
<1>1. ASSUME NEW w \in Runners,
             StartContainer(w) \/ EndContainer(w) \/ EndJudge(w)
      PROVE  Unfed'
  BY <1>1 DEF StartContainer, EndContainer, EndJudge, StillWhole, Goto
<1>2. ASSUME UNCHANGED input, NEW w \in Runners, at'[w] \in Before
      PROVE  at[w] \in Before
  <2>1. CASE UNCHANGED at
    BY <1>2, <2>1
  <2>2. ASSUME NEW v \in Runners, Launch(v)
        PROVE  at[w] \in Before
    BY <1>2, <2>2 DEF Launch
  <2>3. ASSUME NEW v \in Runners, RunnerStep(v) \/ DaemonFails(v) \/ Die(v)
        PROVE  at[w] \in Before
    BY <1>2, <2>3
       DEF RunnerStep, AnswerAgain, NotReady, Begin, Admit, Reject, Clear, Take, TakeRaises,
           StartContainer, EndContainer, EndJudge, Complete, CompleteRaises, WriteOutputs,
           Publish, DaemonFails, Die, AnswersInfra, Raises, Goto, Over
  <2>4. \/ UNCHANGED at
        \/ \E v \in Runners : Launch(v) \/ RunnerStep(v) \/ DaemonFails(v) \/ Die(v)
    BY RunnerParts
       DEF Next, ControllerStep, ControllerFails, Upload, Promote, StartWorker, CallVerify,
           VerifyReturns, CallTimesOut, PollFinds, PollTimesOut, Fetch, UploadFails,
           PromoteReplyLost, StartReplyLost, FetchFails, ControllerStops, Resume, Repeat,
           LaunchDetached
  <2> QED
    BY <2>1, <2>2, <2>3, <2>4
<1>3. \/ UNCHANGED input
      \/ \E w \in Runners : StartContainer(w) \/ EndContainer(w) \/ EndJudge(w)
  BY DEF Next, ControllerStep, ControllerFails, Upload, Promote, StartWorker, CallVerify,
         VerifyReturns, CallTimesOut, PollFinds, PollTimesOut, Fetch, UploadFails,
         PromoteReplyLost, StartReplyLost, FetchFails, ControllerStops, Resume, Repeat,
         LaunchDetached, Launch, RunnerStep, AnswerAgain, NotReady, Begin, Admit, Reject,
         Clear, Take, TakeRaises, Complete, CompleteRaises, WriteOutputs, Publish,
         DaemonFails, Die
<1> QED
  BY <1>1, <1>2, <1>3

\* With one runner for a job nothing is removed under it.
LEMMA SoleStep ==
  ASSUME CalledOnce, TypeOK, Promoted, HasStatus, Unfed, Sole, [Next]_vars
  PROVE  Sole'
<1> USE RunnerParts, SoleRunner, VerifierAssumption DEF CalledOnce, StoreTypeOK, RunnerTypeOK,
         ControllerTypeOK, TypeOK, Promoted, HasStatus, Sole, Computed, Whole, Over, Verdicts,
         Statuses
<1>1. ASSUME NEW j \in Jobs, NEW p \in {"workspace", "manifest", "bundle"}, Upload(j, p)
      PROVE Sole'
  BY <1>1 DEF Upload, Arrives, IsNextPart, Fault
<1>2. ASSUME NEW j \in Jobs, Promote(j) PROVE Sole'
  BY <1>2 DEF Promote, CallsVerify, Promotes, Move
<1>3. ASSUME NEW j \in Jobs, PromoteReplyLost(j) PROVE Sole'
  BY <1>3 DEF PromoteReplyLost, Promotes, End, Move, Fault
<1>4. ASSUME NEW j \in Jobs, StartWorker(j) PROVE Sole'
  <2>1. CASE result[j] # None
    BY <1>4, <2>1 DEF StartWorker, LaunchDetached, Move
  <2>2. CASE Launch(<<j, First>>)
    BY <1>4, <2>2 DEF StartWorker, Launch, Move
  <2> QED
    BY <1>4, <2>1, <2>2 DEF StartWorker, LaunchDetached
<1>5. ASSUME NEW j \in Jobs, StartReplyLost(j) PROVE Sole'
  <2>1. CASE UNCHANGED runner
    BY <1>5, <2>1 DEF StartReplyLost, End, Move, Fault
  <2>2. CASE Launch(<<j, First>>)
    BY <1>5, <2>2 DEF StartReplyLost, Launch, End, Move, Fault
  <2> QED
    BY <1>5, <2>1, <2>2 DEF StartReplyLost, LaunchDetached
<1>6. ASSUME NEW j \in Jobs, CallVerify(j) PROVE Sole'
  BY <1>6 DEF CallVerify, Launch, Move
<1>7. ASSUME NEW j \in Jobs, VerifyReturns(j) PROVE Sole'
  BY <1>7 DEF VerifyReturns, End, Move
<1>8. ASSUME NEW j \in Jobs, PollFinds(j) PROVE Sole'
  BY <1>8 DEF PollFinds, Move
<1>9. ASSUME NEW j \in Jobs, Fetch(j) PROVE Sole'
  BY <1>9 DEF Fetch, End, Move
<1>10. ASSUME NEW j \in Jobs, Resume(j) PROVE Sole'
  BY <1>10 DEF Resume, Move
<1>11. ASSUME NEW w \in Runners, Repeat(w) PROVE Sole'
  BY <1>11, RunnerParts DEF Repeat, Launch
<1>12. ASSUME NEW w \in Runners, AnswerAgain(w) PROVE Sole'
  BY <1>12, RunnerParts DEF AnswerAgain, Goto
<1>13. ASSUME NEW w \in Runners, NotReady(w) PROVE Sole'
  BY <1>13, RunnerParts DEF NotReady, AnswersInfra, Goto
<1>14. ASSUME NEW w \in Runners, Begin(w) PROVE Sole'
  BY <1>14, RunnerParts DEF Begin, Ready, Goto
<1>15. ASSUME NEW w \in Runners, Admit(w) PROVE Sole'
  BY <1>15, RunnerParts DEF Admit, Sound, Goto
<1>16. ASSUME NEW w \in Runners, Reject(w) PROVE Sole'
  BY <1>16, RunnerParts DEF Reject, AnswersInfra, Goto, Fault
<1>17. ASSUME NEW w \in Runners, Clear(w) PROVE Sole'
  BY <1>17, RunnerParts DEF Clear, Goto
<1>18. ASSUME NEW w \in Runners, Take(w) PROVE Sole'
  BY <1>18, RunnerParts DEF Take, Ready, Goto
<1>19. ASSUME NEW w \in Runners, TakeRaises(w) PROVE Sole'
  BY <1>19, RunnerParts DEF TakeRaises, Raises, Goto
<1>20. ASSUME NEW w \in Runners, StartContainer(w) PROVE Sole'
  BY <1>20, RunnerParts DEF StartContainer, Goto
<1>21. ASSUME NEW w \in Runners, EndContainer(w) PROVE Sole'
  BY <1>21, RunnerParts DEF EndContainer, StillWhole, Goto
<1>22. ASSUME NEW w \in Runners, EndJudge(w) PROVE Sole'
  BY <1>22, RunnerParts DEF EndJudge, StillWhole, Goto
<1>23. ASSUME NEW w \in Runners, Complete(w) PROVE Sole'
  BY <1>23, RunnerParts DEF Complete, Goto
<1>24. ASSUME NEW w \in Runners, CompleteRaises(w) PROVE Sole'
  BY <1>24, RunnerParts DEF CompleteRaises, Raises, Goto
<1>25. ASSUME NEW w \in Runners, WriteOutputs(w) PROVE Sole'
  BY <1>25, RunnerParts DEF WriteOutputs, Goto
<1>26. ASSUME NEW w \in Runners, Publish(w) PROVE Sole'
  <2>1. /\ at[w] = "publish" /\ at' = [at EXCEPT ![w] = "answered"]
        /\ result' = [result EXCEPT ![w[1]] = verdict[w]]
        /\ UNCHANGED <<place, parts, damaged, outcome, verdict, input>>
    BY <1>26 DEF Publish, Goto
  <2>2. w = <<w[1], First>> /\ w[1] \in Jobs
    BY SoleRunner, RunnerParts
  <2>3. ASSUME NEW j \in Jobs PROVE outcome[j] \in Verdicts => outcome'[j] = result'[j]
    <3>1. CASE j = w[1]
      <4>1. at[<<j, First>>] # "answered"
        BY <2>1, <2>2, <3>1
      <4> QED
        BY <2>1, <4>1 DEF Sole
    <3>2. CASE j # w[1]
      <4>1. outcome[j] \in Verdicts => outcome[j] = result[j]
        BY DEF Sole
      <4>2. result'[j] = result[j] /\ outcome' = outcome
        BY <2>1, <3>2
      <4> HIDE DEF Sole, TypeOK, HasStatus, Promoted
      <4> QED
        BY <4>1, <4>2
    <3> QED
      BY <3>1, <3>2
  <2>4. ASSUME NEW j \in Jobs, result'[j] \in Verdicts
        PROVE  /\ j \notin damaged' /\ place'[j] \notin {"nowhere", "incoming"}
               /\ at'[<<j, First>>] = "answered" /\ Computed(<<j, First>>)'
               /\ verdict'[<<j, First>>] = result'[j]
    <3>1. CASE j = w[1]
      <4>1. <<j, First>> = w
        BY <2>2, <3>1
      <4>2. result'[j] = verdict[w]
        BY <2>1, <3>1
      <4>3. Computed(w) /\ place[j] = place'[j] /\ j \notin damaged
            /\ place[j] \notin {"nowhere", "incoming"}
        BY <2>1, <2>4, <3>1, <4>2
      <4>4. at'[w] = "answered"
        BY <2>1
      <4> HIDE DEF Sole, TypeOK, HasStatus, Promoted
      <4> QED
        BY <2>1, <4>1, <4>2, <4>3, <4>4 DEF Computed
    <3>2. CASE j # w[1]
      BY <2>1, <2>4, <3>2, RunnerParts
    <3> QED
      BY <3>1, <3>2
  <2> QED
    BY <2>1, <2>3, <2>4
<1>27. ASSUME NEW w \in Runners, DaemonFails(w) PROVE Sole'
  BY <1>27, RunnerParts DEF DaemonFails, Goto, Fault, Unfed, Before
<1>28. ASSUME NEW w \in Runners, Die(w) PROVE Sole'
  BY <1>28, RunnerParts DEF Die, Unlocked, Goto, Fault
<1>29. ASSUME NEW j \in Jobs, UploadFails(j) \/ FetchFails(j) \/ CallTimesOut(j) \/
       PollTimesOut(j) \/ ControllerStops(j)
      PROVE  Sole'
  BY <1>29 DEF UploadFails, End, Move, Fault, FetchFails, CallTimesOut, PollTimesOut,
     ControllerStops
<1>30. CASE UNCHANGED vars
  BY <1>30
<1> QED
    BY <1>1, <1>2, <1>3, <1>4, <1>5, <1>6, <1>7, <1>8, <1>9, <1>10, <1>11, <1>12, <1>13,
     <1>14, <1>15, <1>16, <1>17, <1>18, <1>19, <1>20, <1>21, <1>22, <1>23, <1>24, <1>25,
     <1>26, <1>27, <1>28, <1>29, <1>30 DEF Next, ControllerStep, ControllerFails,
     RunnerStep

LEMMA SoleInvariance ==
  ASSUME CalledOnce
  PROVE  Spec => []Sole
<1>1. Init => Sole /\ Unfed
  BY RunnerParts, VerifierAssumption DEF Init, Sole, Unfed, Verdicts
<1>2. IInv /\ Sole /\ Unfed /\ [Next]_vars => Sole' /\ Unfed'
  BY SoleStep, UnfedStep DEF IInv
<1> QED
  BY <1>1, <1>2, Invariance, PTL DEF Spec

\* "Partial jobs are never executed", as long as nobody repeats verify
\* (runner.py:90-105, 113-121).
THEOREM PartialSafe ==
  ASSUME CalledOnce
  PROVE  Spec => []PartialNeverExecuted
<1>1. Sole => PartialNeverExecuted
  BY DEF Sole, PartialNeverExecuted
<1> QED
  BY <1>1, SoleInvariance, PTL

\* A verdict that reaches the controller was computed on the workspace that was
\* submitted, whatever replies, uploads and processes were lost, or is the
\* "failed" of a docker without its daemon (runner.py:96-126, verifier.py:246-300).
THEOREM VerdictsReal ==
  ASSUME CalledOnce
  PROVE  Spec => []InfraIsNoVerdict
<1>1. ASSUME Sole, NEW j \in Jobs, outcome[j] \in Verdicts
      PROVE  /\ j \notin damaged
             /\ \E w \in Runners : w[1] = j /\ verdict[w] = outcome[j] /\ Computed(w)
  <2>1. result[j] = outcome[j]
    BY <1>1 DEF Sole
  <2> DEFINE w == <<j, First>>
  <2>2. j \notin damaged /\ verdict[w] = outcome[j] /\ Computed(w)
    BY <1>1, <2>1 DEF Sole
  <2>3. w \in Runners /\ w[1] = j
    BY RunnerParts
  <2> HIDE DEF w
  <2> QED
    BY <2>2, <2>3
<1>2. Sole => InfraIsNoVerdict
  BY <1>1 DEF InfraIsNoVerdict
<1> QED
  BY <1>2, SoleInvariance, PTL
-----------------------------------------------------------------------------
(* RemoteVerifier implements JobService, for any jobs, repeated calls and  *)
(* faults.  The argument: only one runner ever gets past the rename to     *)
(* running (TakenOnce), it has the flock exactly while it executes         *)
(* (LockHeld), and the phase of a job is where that runner is.             *)

Hand == {"pytest", "judge"}
After == {"move", "output", "publish"}
Taken == {"queue"} \cup Hand \cup After

\* A runner that has taken its job is alone, and the job has no result yet.
TakenOnce ==
  \A w \in Runners : at[w] \in Taken =>
    /\ place[w[1]] \notin {"nowhere", "incoming", "ready"} /\ result[w[1]] = None
    /\ \A v \in Runners : v[1] = w[1] /\ at[v] \in Taken => v = w

LockHeld == \A w \in Runners : at[w] \in Hand <=> lock = w

RInv == IInv /\ TakenOnce /\ LockHeld

-----------------------------------------------------------------------------

\* One runner gets past the rename.
LEMMA TakenStep ==
  ASSUME TypeOK, Promoted, ResultComplete, TakenOnce, [Next]_vars
  PROVE  TakenOnce'
<1> USE RunnerParts, VerifierAssumption DEF StoreTypeOK, RunnerTypeOK, ControllerTypeOK, TypeOK,
         Promoted, ResultComplete, TakenOnce, Taken, Hand, After, Over
<1>1. ASSUME NEW j \in Jobs, NEW p \in {"workspace", "manifest", "bundle"}, Upload(j, p)
      PROVE TakenOnce'
  BY <1>1 DEF Upload, Arrives, IsNextPart, Fault
<1>2. ASSUME NEW j \in Jobs, Promote(j) PROVE TakenOnce'
  BY <1>2 DEF Promote, CallsVerify, Promotes, Move
<1>3. ASSUME NEW j \in Jobs, PromoteReplyLost(j) PROVE TakenOnce'
  BY <1>3 DEF PromoteReplyLost, Promotes, End, Move, Fault
<1>4. ASSUME NEW j \in Jobs, StartWorker(j) PROVE TakenOnce'
  <2>1. CASE result[j] # None
    BY <1>4, <2>1 DEF StartWorker, LaunchDetached, Move
  <2>2. CASE Launch(<<j, First>>)
    BY <1>4, <2>2 DEF StartWorker, Launch, Move
  <2> QED
    BY <1>4, <2>1, <2>2 DEF StartWorker, LaunchDetached
<1>5. ASSUME NEW j \in Jobs, StartReplyLost(j) PROVE TakenOnce'
  <2>1. CASE UNCHANGED runner
    BY <1>5, <2>1 DEF StartReplyLost, End, Move, Fault
  <2>2. CASE Launch(<<j, First>>)
    BY <1>5, <2>2 DEF StartReplyLost, Launch, End, Move, Fault
  <2> QED
    BY <1>5, <2>1, <2>2 DEF StartReplyLost, LaunchDetached
<1>6. ASSUME NEW j \in Jobs, CallVerify(j) PROVE TakenOnce'
  BY <1>6 DEF CallVerify, Launch, Move
<1>7. ASSUME NEW w \in Runners, Repeat(w) PROVE TakenOnce'
  BY <1>7, RunnerParts DEF Repeat, Launch
<1>8. ASSUME NEW w \in Runners, AnswerAgain(w) PROVE TakenOnce'
  BY <1>8, RunnerParts DEF AnswerAgain, Goto
<1>9. ASSUME NEW w \in Runners, Clear(w) PROVE TakenOnce'
  BY <1>9, RunnerParts DEF Clear, Goto
<1>10. ASSUME NEW w \in Runners, Take(w) PROVE TakenOnce'
  BY <1>10, RunnerParts DEF Take, Ready, Goto
<1>11. ASSUME NEW w \in Runners, StartContainer(w) PROVE TakenOnce'
  BY <1>11, RunnerParts DEF StartContainer, Goto
<1>12. ASSUME NEW w \in Runners, EndContainer(w) PROVE TakenOnce'
  BY <1>12, RunnerParts DEF EndContainer, StillWhole, Goto
<1>13. ASSUME NEW w \in Runners, EndJudge(w) PROVE TakenOnce'
  BY <1>13, RunnerParts DEF EndJudge, StillWhole, Goto
<1>14. ASSUME NEW w \in Runners, Complete(w) PROVE TakenOnce'
  BY <1>14, RunnerParts DEF Complete, Goto
<1>15. ASSUME NEW w \in Runners, WriteOutputs(w) PROVE TakenOnce'
  BY <1>15, RunnerParts DEF WriteOutputs, Goto
<1>16. ASSUME NEW w \in Runners, Publish(w) PROVE TakenOnce'
  BY <1>16, RunnerParts DEF Publish, Goto
<1>17. ASSUME NEW w \in Runners, DaemonFails(w) PROVE TakenOnce'
  BY <1>17, RunnerParts DEF DaemonFails, Goto, Fault
<1>18. ASSUME NEW w \in Runners, Die(w) PROVE TakenOnce'
  BY <1>18, RunnerParts DEF Die, Unlocked, Goto, Fault
<1>19. ASSUME NEW j \in Jobs, UploadFails(j) \/ FetchFails(j) \/ CallTimesOut(j) \/
       PollTimesOut(j) \/ ControllerStops(j) \/ PollFinds(j) \/ Resume(j) \/
       VerifyReturns(j) \/ Fetch(j)
      PROVE  TakenOnce'
  BY <1>19 DEF UploadFails, End, Move, Fault, FetchFails, CallTimesOut, PollTimesOut,
     ControllerStops, PollFinds, Resume, VerifyReturns, Fetch
<1>20. ASSUME NEW w \in Runners, NotReady(w) \/ Begin(w) \/ Admit(w) \/ Reject(w) \/
       TakeRaises(w) \/ CompleteRaises(w)
      PROVE  TakenOnce'
  BY <1>20, RunnerParts DEF NotReady, AnswersInfra, Raises, Goto, Begin,
     Ready, Admit, Sound, Reject, Fault,
     TakeRaises, CompleteRaises
<1>21. CASE UNCHANGED vars
  BY <1>21
<1> QED
    BY <1>1, <1>2, <1>3, <1>4, <1>5, <1>6, <1>7, <1>8, <1>9, <1>10, <1>11, <1>12, <1>13,
     <1>14, <1>15, <1>16, <1>17, <1>18, <1>19, <1>20, <1>21 DEF Next, ControllerStep,
     ControllerFails, RunnerStep

\* The flock is held during the execution.
LEMMA LockStep ==
  ASSUME TypeOK, LockHeld, [Next]_vars
  PROVE  LockHeld'
<1> USE RunnerParts, VerifierAssumption DEF RunnerTypeOK, TypeOK, LockHeld, Hand, Over
<1>1. ASSUME NEW j \in Jobs, NEW p \in {"workspace", "manifest", "bundle"}, Upload(j, p)
      PROVE LockHeld'
  BY <1>1 DEF Upload, Arrives, IsNextPart, Fault
<1>2. ASSUME NEW j \in Jobs, Promote(j) PROVE LockHeld'
  BY <1>2 DEF Promote, CallsVerify, Promotes, Move
<1>3. ASSUME NEW j \in Jobs, PromoteReplyLost(j) PROVE LockHeld'
  BY <1>3 DEF PromoteReplyLost, Promotes, End, Move, Fault
<1>4. ASSUME NEW j \in Jobs, StartWorker(j) PROVE LockHeld'
  <2>1. CASE result[j] # None
    BY <1>4, <2>1 DEF StartWorker, LaunchDetached, Move
  <2>2. CASE Launch(<<j, First>>)
    BY <1>4, <2>2 DEF StartWorker, Launch, Move
  <2> QED
    BY <1>4, <2>1, <2>2 DEF StartWorker, LaunchDetached
<1>5. ASSUME NEW j \in Jobs, StartReplyLost(j) PROVE LockHeld'
  <2>1. CASE UNCHANGED runner
    BY <1>5, <2>1 DEF StartReplyLost, End, Move, Fault
  <2>2. CASE Launch(<<j, First>>)
    BY <1>5, <2>2 DEF StartReplyLost, Launch, End, Move, Fault
  <2> QED
    BY <1>5, <2>1, <2>2 DEF StartReplyLost, LaunchDetached
<1>6. ASSUME NEW j \in Jobs, CallVerify(j) PROVE LockHeld'
  BY <1>6 DEF CallVerify, Launch, Move
<1>7. ASSUME NEW w \in Runners, Repeat(w) PROVE LockHeld'
  BY <1>7, RunnerParts DEF Repeat, Launch
<1>8. ASSUME NEW w \in Runners, AnswerAgain(w) PROVE LockHeld'
  BY <1>8, RunnerParts DEF AnswerAgain, Goto
<1>9. ASSUME NEW w \in Runners, Clear(w) PROVE LockHeld'
  BY <1>9, RunnerParts DEF Clear, Goto
<1>10. ASSUME NEW w \in Runners, Take(w) PROVE LockHeld'
  BY <1>10, RunnerParts DEF Take, Ready, Goto
<1>11. ASSUME NEW w \in Runners, StartContainer(w) PROVE LockHeld'
  BY <1>11, RunnerParts DEF StartContainer, Goto
<1>12. ASSUME NEW w \in Runners, EndContainer(w) PROVE LockHeld'
  BY <1>12, RunnerParts DEF EndContainer, StillWhole, Goto
<1>13. ASSUME NEW w \in Runners, EndJudge(w) PROVE LockHeld'
  BY <1>13, RunnerParts DEF EndJudge, StillWhole, Goto
<1>14. ASSUME NEW w \in Runners, Complete(w) PROVE LockHeld'
  BY <1>14, RunnerParts DEF Complete, Goto
<1>15. ASSUME NEW w \in Runners, WriteOutputs(w) PROVE LockHeld'
  BY <1>15, RunnerParts DEF WriteOutputs, Goto
<1>16. ASSUME NEW w \in Runners, Publish(w) PROVE LockHeld'
  BY <1>16, RunnerParts DEF Publish, Goto
<1>17. ASSUME NEW w \in Runners, DaemonFails(w) PROVE LockHeld'
  BY <1>17, RunnerParts DEF DaemonFails, Goto, Fault
<1>18. ASSUME NEW w \in Runners, Die(w) PROVE LockHeld'
  BY <1>18, RunnerParts DEF Die, Unlocked, Goto, Fault
<1>19. ASSUME NEW j \in Jobs, UploadFails(j) \/ FetchFails(j) \/ CallTimesOut(j) \/
       PollTimesOut(j) \/ ControllerStops(j) \/ PollFinds(j) \/ Resume(j) \/
       VerifyReturns(j) \/ Fetch(j)
      PROVE  LockHeld'
  BY <1>19 DEF UploadFails, End, Move, Fault, FetchFails, CallTimesOut, PollTimesOut,
     ControllerStops, PollFinds, Resume, VerifyReturns, Fetch
<1>20. ASSUME NEW w \in Runners, NotReady(w) \/ Begin(w) \/ Admit(w) \/ Reject(w) \/
       TakeRaises(w) \/ CompleteRaises(w)
      PROVE  LockHeld'
  BY <1>20, RunnerParts DEF NotReady, AnswersInfra, Raises, Goto, Begin,
     Ready, Admit, Sound, Reject, Fault,
     TakeRaises, CompleteRaises
<1>21. CASE UNCHANGED vars
  BY <1>21
<1> QED
    BY <1>1, <1>2, <1>3, <1>4, <1>5, <1>6, <1>7, <1>8, <1>9, <1>10, <1>11, <1>12, <1>13,
     <1>14, <1>15, <1>16, <1>17, <1>18, <1>19, <1>20, <1>21 DEF Next, ControllerStep,
     ControllerFails, RunnerStep

LEMMA RInvariance == Spec => []RInv
<1>1. Init => TakenOnce /\ LockHeld
  BY RunnerParts DEF Init, TakenOnce, LockHeld, Taken, Hand, After
<1>2. RInv /\ [Next]_vars => TakenOnce' /\ LockHeld'
  BY TakenStep, LockStep DEF RInv, IInv
<1> QED
  BY <1>1, <1>2, Invariance, PTL DEF Spec, RInv

-----------------------------------------------------------------------------
(* Phases.                                                                 *)

\* What the phase of a job depends on.
LEMMA PhaseKept ==
  ASSUME NEW j \in Jobs,
         result'[j] = result[j],
         place'[j] \in {"nowhere", "incoming"} <=> place[j] \in {"nowhere", "incoming"},
         place'[j] = "ready" <=> place[j] = "ready",
         \A w \in Runners : w[1] = j =>
           /\ at'[w] = "queue" <=> at[w] = "queue"
           /\ at'[w] \in Hand <=> at[w] \in Hand
           /\ at'[w] \in After <=> at[w] \in After
  PROVE  Phase(j)' = Phase(j)
<1>1. InQueue(j)' = InQueue(j)
  BY DEF InQueue
<1>2. InHand(j)' = InHand(j)
  BY DEF InHand, Hand
<1>3. Afterwards(j)' = Afterwards(j)
  BY DEF Afterwards, After
<1> QED
  BY <1>1, <1>2, <1>3 DEF Phase

\* Where the runner of a job that is taken is; what the directories say of a
\* job that nobody has, or has any more.
PhaseRules ==
  /\ \A w \in Runners :
       /\ at[w] = "queue" => Phase(w[1]) = "claimed"
       /\ at[w] \in Hand => Phase(w[1]) = "executing"
       /\ at[w] \in After => Phase(w[1]) = "executed"
  /\ \A j \in Jobs :
       /\ result[j] # None => Phase(j) = "answered"
       /\ result[j] = None /\ place[j] \in {"nowhere", "incoming"} => Phase(j) = "unknown"
       /\ result[j] = None /\ place[j] = "ready" => Phase(j) = "accepted"
       /\ (/\ result[j] = None /\ place[j] \notin {"nowhere", "incoming", "ready"}
           /\ \A w \in Runners : w[1] = j => at[w] \notin Taken)
            => Phase(j) = "lost"

LEMMA PhasesFollow == TakenOnce => PhaseRules
<1> SUFFICES ASSUME TakenOnce PROVE PhaseRules
  OBVIOUS
<1>1. ASSUME NEW w \in Runners, at[w] \in Taken
      PROVE  /\ at[w] = "queue" => Phase(w[1]) = "claimed"
             /\ at[w] \in Hand => Phase(w[1]) = "executing"
             /\ at[w] \in After => Phase(w[1]) = "executed"
  <2>1. result[w[1]] = None /\ place[w[1]] \notin {"nowhere", "incoming", "ready"}
    BY <1>1 DEF TakenOnce
  <2>2. InQueue(w[1]) <=> at[w] = "queue"
    BY <1>1 DEF TakenOnce, InQueue, Taken
  <2>3. InHand(w[1]) <=> at[w] \in Hand
    BY <1>1 DEF TakenOnce, InHand, Taken, Hand
  <2> QED
    BY <1>1, <2>1, <2>2, <2>3 DEF Phase, Hand, After, Afterwards
<1>2. ASSUME NEW j \in Jobs
      PROVE  /\ result[j] # None => Phase(j) = "answered"
             /\ result[j] = None /\ place[j] \in {"nowhere", "incoming"}
                  => Phase(j) = "unknown"
             /\ result[j] = None /\ place[j] = "ready" => Phase(j) = "accepted"
             /\ (/\ result[j] = None /\ place[j] \notin {"nowhere", "incoming", "ready"}
                 /\ \A w \in Runners : w[1] = j => at[w] \notin Taken)
                  => Phase(j) = "lost"
  BY DEF Phase, InQueue, InHand, Afterwards, Taken, Hand, After
<1> QED
  BY <1>1, <1>2 DEF PhaseRules, Taken

\* A step of one runner leaves the phases of the other jobs alone.
LEMMA OthersKept ==
  ASSUME TypeOK, NEW w \in Runners, NEW x, at' = [at EXCEPT ![w] = x],
         \A i \in Jobs : i # w[1] => place'[i] = place[i] /\ result'[i] = result[i]
  PROVE  \A i \in Jobs : i # w[1] => Phase(i)' = Phase(i)
<1> SUFFICES ASSUME NEW i \in Jobs, i # w[1] PROVE Phase(i)' = Phase(i)
  OBVIOUS
<1>1. \A v \in Runners : v[1] = i => at'[v] = at[v]
  BY DEF TypeOK, RunnerTypeOK
<1> QED
  BY <1>1, PhaseKept

\* Phases as JobService sees them: nothing changes, or one job moves on.
LEMMA Stutters ==
  ASSUME \A j \in Jobs : Phase(j)' = Phase(j), lock' = lock, result' = result
  PROVE  UNCHANGED Service!vars
BY DEF Service!vars

LEMMA Advances ==
  ASSUME NEW j \in Jobs, NEW from, NEW to, Phase(j) = from, Phase(j)' = to,
         \A i \in Jobs : i # j => Phase(i)' = Phase(i)
  PROVE  Service!Advance(j, from, to)
BY DEF Service!Advance

\* A runner's step that leaves place, result, lock and whether it has taken
\* its job alone.
LEMMA Idles ==
  ASSUME TypeOK, NEW w \in Runners, NEW x, at' = [at EXCEPT ![w] = x],
         x = "queue" <=> at[w] = "queue", x \in Hand <=> at[w] \in Hand,
         x \in After <=> at[w] \in After,
         \A j \in Jobs :
           /\ place'[j] \in {"nowhere", "incoming"} <=> place[j] \in {"nowhere", "incoming"}
           /\ place'[j] = "ready" <=> place[j] = "ready",
         lock' = lock, result' = result
  PROVE  UNCHANGED Service!vars
<1>1. ASSUME NEW j \in Jobs PROVE Phase(j)' = Phase(j)
  <2>1. \A v \in Runners :
          /\ at'[v] = "queue" <=> at[v] = "queue"
          /\ at'[v] \in Hand <=> at[v] \in Hand
          /\ at'[v] \in After <=> at[v] \in After
    BY DEF TypeOK, RunnerTypeOK
  <2> QED
    BY <2>1, PhaseKept
<1> QED
  BY <1>1, Stutters

-----------------------------------------------------------------------------
(* The steps.                                                              *)

\* What the controllers do is a promotion or nothing.
LEMMA ControllerMaps ==
  ASSUME RInv, RInv', PhaseRules, PhaseRules', NEW j \in Jobs,
         ControllerStep(j) \/ ControllerFails(j) \/ Resume(j)
  PROVE  Service!Accept(j) \/ UNCHANGED Service!vars
<1> USE RunnerParts DEF RInv, IInv
<1>1. CASE \E p \in {"workspace", "manifest", "bundle"} : Upload(j, p)
  <2>1. \A i \in Jobs :
          place'[i] \in {"nowhere", "incoming"} <=> place[i] \in {"nowhere", "incoming"}
    BY <1>1 DEF Upload, Arrives, Promoted, TypeOK, StoreTypeOK
  <2>2. \A i \in Jobs : place'[i] = "ready" <=> place[i] = "ready"
    BY <1>1 DEF Upload, Arrives, Promoted, TypeOK, StoreTypeOK
  <2>3. at' = at /\ lock' = lock /\ result' = result
    BY <1>1 DEF Upload
  <2> QED
    BY <2>1, <2>2, <2>3, PhaseKept, Stutters
<1>2. CASE Promote(j) \/ PromoteReplyLost(j)
  <2>1. /\ place[j] = "incoming" /\ place' = [place EXCEPT ![j] = "ready"]
        /\ at' = at /\ lock' = lock /\ result' = result
    BY <1>2 DEF Promote, CallsVerify, PromoteReplyLost, Promotes
  <2>2. result[j] = None /\ place'[j] = "ready"
    BY <2>1 DEF ResultComplete, TypeOK, StoreTypeOK
  <2>3. Phase(j) = "unknown" /\ Phase(j)' = "accepted"
    BY <2>1, <2>2 DEF PhaseRules
  <2>4. \A i \in Jobs : i # j => Phase(i)' = Phase(i)
    BY <2>1, PhaseKept DEF TypeOK, StoreTypeOK
  <2>5. Service!Advance(j, "unknown", "accepted")
    BY <2>3, <2>4, Advances
  <2> QED
    BY <2>1, <2>5 DEF Service!Accept
<1>3. CASE UNCHANGED <<place, at, lock, result>>
  BY <1>3, PhaseKept, Stutters
<1>4. ASSUME Launch(<<j, First>>), UNCHANGED store PROVE UNCHANGED Service!vars
  BY <1>4, Idles DEF Launch, Hand, After
<1>5. CASE StartWorker(j) \/ StartReplyLost(j)
  BY <1>5, <1>3, <1>4 DEF StartWorker, StartReplyLost, LaunchDetached
<1>6. CASE CallVerify(j)
  BY <1>6, <1>4 DEF CallVerify
<1>7. CASE \/ UploadFails(j) \/ VerifyReturns(j) \/ CallTimesOut(j) \/ PollFinds(j)
           \/ PollTimesOut(j) \/ Fetch(j) \/ FetchFails(j) \/ ControllerStops(j) \/ Resume(j)
  BY <1>7, <1>3 DEF UploadFails, VerifyReturns, CallTimesOut, PollFinds, PollTimesOut, Fetch,
     FetchFails, ControllerStops, Resume
<1> QED
  BY <1>1, <1>2, <1>5, <1>6, <1>7 DEF ControllerStep, ControllerFails

\* What a runner does before it has its job, and between two phases.
LEMMA RunnerIdles ==
  ASSUME RInv, NEW w \in Runners,
         \/ Repeat(w) \/ AnswerAgain(w) \/ NotReady(w) \/ Begin(w) \/ Admit(w) \/ Reject(w)
         \/ Clear(w) \/ TakeRaises(w) \/ Complete(w) \/ WriteOutputs(w)
         \/ (Die(w) /\ at[w] \notin Taken)
  PROVE  UNCHANGED Service!vars
<1> USE RunnerParts DEF RInv, IInv, Hand, After
<1>1. CASE Repeat(w)
  BY <1>1, Idles DEF Repeat, Launch
<1>2. CASE AnswerAgain(w) \/ NotReady(w) \/ Begin(w) \/ Admit(w) \/ Reject(w) \/ TakeRaises(w)
  BY <1>2, Idles DEF AnswerAgain, NotReady, Begin, Admit, Reject, TakeRaises,
     AnswersInfra, Raises, Goto
<1>3. CASE Clear(w)
  <2>1. \A j \in Jobs :
          /\ place'[j] \in {"nowhere", "incoming"} <=> place[j] \in {"nowhere", "incoming"}
          /\ place'[j] = "ready" <=> place[j] = "ready"
    BY <1>3 DEF Clear, TypeOK, StoreTypeOK
  <2> QED
    BY <1>3, <2>1, Idles DEF Clear, Goto
<1>4. CASE Complete(w)
  <2>1. \A j \in Jobs :
          /\ place'[j] \in {"nowhere", "incoming"} <=> place[j] \in {"nowhere", "incoming"}
          /\ place'[j] = "ready" <=> place[j] = "ready"
    BY <1>4 DEF Complete, TypeOK, StoreTypeOK
  <2> QED
    BY <1>4, <2>1, Idles DEF Complete, Goto
<1>5. CASE WriteOutputs(w)
  BY <1>5, Idles DEF WriteOutputs, Goto
<1>6. CASE Die(w) /\ at[w] \notin Taken
  <2>1. lock' = lock
    BY <1>6 DEF Die, Unlocked, LockHeld, Taken
  <2> QED
    BY <1>6, <2>1, Idles DEF Die, Goto, Taken
<1> QED
  BY <1>1, <1>2, <1>3, <1>4, <1>5, <1>6

\* A runner that has taken its job and stops short of an answer has lost it.
LEMMA Loses ==
  ASSUME RInv, RInv', PhaseRules, PhaseRules', NEW w \in Runners, at[w] \in Taken,
         NEW x, x \notin Taken, at' = [at EXCEPT ![w] = x],
         UNCHANGED store, lock' = Unlocked(w)
  PROVE  Service!Lose(w[1])
<1> USE RunnerParts DEF RInv, IInv
<1>1. result[w[1]] = None /\ place[w[1]] \notin {"nowhere", "incoming", "ready"}
  BY DEF TakenOnce
<1>2. \A v \in Runners : v[1] = w[1] => at'[v] \notin Taken
  BY DEF TakenOnce, TypeOK, RunnerTypeOK
<1>3. Phase(w[1])' = "lost"
  BY <1>1, <1>2 DEF PhaseRules
<1>4. Phase(w[1]) \in {"claimed", "executing", "executed"}
  BY DEF PhaseRules, Taken
<1>5. Service!Advance(w[1], Phase(w[1]), "lost")
  BY <1>3, OthersKept, Advances
<1>6. lock = w \/ lock = None \/ (lock \in Runners /\ lock[1] # w[1])
  BY DEF TakenOnce, LockHeld, Taken, TypeOK, RunnerTypeOK
<1> QED
  BY <1>4, <1>5, <1>6 DEF Service!Lose, Unlocked

\* What a runner does from the rename to its answer.
LEMMA RunnerMaps ==
  ASSUME RInv, RInv', PhaseRules, PhaseRules', NEW w \in Runners,
         RunnerStep(w) \/ Repeat(w) \/ DaemonFails(w) \/ Die(w)
  PROVE  \/ Service!Claim(w[1]) \/ Service!Execute(w[1]) \/ Service!Finish(w[1])
         \/ Service!Skip(w[1]) \/ Service!Answer(w[1]) \/ Service!Lose(w[1])
         \/ UNCHANGED Service!vars
<1> USE RunnerParts DEF RInv, IInv
<1> DEFINE j == w[1]
<1>1. CASE Take(w)
  <2>1. place[j] = "ready" /\ result[j] = None
    BY <1>1 DEF Take, Ready, ResultComplete
  <2>2. at'[w] = "queue"
    BY <1>1 DEF Take, Goto, TypeOK, RunnerTypeOK
  <2>3. Phase(j) = "accepted" /\ Phase(j)' = "claimed"
    BY <2>1, <2>2 DEF PhaseRules
  <2>4. \A i \in Jobs : i # j => Phase(i)' = Phase(i)
    BY <1>1, OthersKept DEF Take, Goto, TypeOK, StoreTypeOK
  <2> QED
    BY <1>1, <2>3, <2>4, Advances DEF Service!Claim, Take
<1>2. CASE StartContainer(w)
  <2>1. at[w] = "queue" /\ at'[w] = "pytest"
    BY <1>2 DEF StartContainer, Goto, TypeOK, RunnerTypeOK
  <2>2. Phase(j) = "claimed" /\ Phase(j)' = "executing"
    BY <2>1 DEF PhaseRules, Hand
  <2>3. \A i \in Jobs : i # j => Phase(i)' = Phase(i)
    BY <1>2, OthersKept DEF StartContainer, Goto, TypeOK, StoreTypeOK
  <2> QED
    BY <1>2, <2>2, <2>3, Advances DEF Service!Execute, StartContainer
<1>3. CASE DaemonFails(w)
  <2>1. at[w] = "queue" /\ at'[w] = "move"
    BY <1>3 DEF DaemonFails, Goto, TypeOK, RunnerTypeOK
  <2>2. Phase(j) = "claimed" /\ Phase(j)' = "executed"
    BY <2>1 DEF PhaseRules, After
  <2>3. \A i \in Jobs : i # j => Phase(i)' = Phase(i)
    BY <1>3, OthersKept DEF DaemonFails, Goto
  <2> QED
    BY <1>3, <2>2, <2>3, Advances DEF Service!Skip, DaemonFails
<1>4. ASSUME at[w] \in Hand, at' = [at EXCEPT ![w] = "move"], lock' = None, result' = result,
             \A i \in Jobs : i # j => place'[i] = place[i]
      PROVE  Service!Finish(j)
  <2>1. at'[w] = "move"
    BY <1>4 DEF TypeOK, RunnerTypeOK
  <2>2. Phase(j) = "executing" /\ Phase(j)' = "executed"
    BY <1>4, <2>1 DEF PhaseRules, After
  <2>3. \A i \in Jobs : i # j => Phase(i)' = Phase(i)
    BY <1>4, OthersKept
  <2> QED
    BY <1>4, <2>2, <2>3, Advances DEF Service!Finish
<1>5. CASE EndContainer(w)
  <2>1. CASE at' = [at EXCEPT ![w] = "move"]
    BY <1>4, <1>5, <2>1 DEF EndContainer, Goto, Hand, TypeOK, RunnerTypeOK
  <2>2. CASE at' = [at EXCEPT ![w] = "judge"] /\ lock' = lock
    BY <1>5, <2>2, Idles DEF EndContainer, Goto, Hand, After
  <2> QED
    BY <1>5, <2>1, <2>2 DEF EndContainer, Goto
<1>6. CASE EndJudge(w)
  BY <1>4, <1>6 DEF EndJudge, Goto, Hand, TypeOK, StoreTypeOK
<1>7. CASE Publish(w)
  <2>1. /\ at[w] = "publish" /\ at' = [at EXCEPT ![w] = "answered"]
        /\ result' = [result EXCEPT ![j] = verdict[w]]
        /\ verdict[w] \in Verdicts \cup {"infra_failed"}
        /\ UNCHANGED <<place, lock>>
    BY <1>7 DEF Publish, Goto, TypeOK, RunnerTypeOK, Statuses
  <2>2. result'[j] # None
    BY <2>1 DEF TypeOK, StoreTypeOK
  <2>3. Phase(j) = "executed" /\ Phase(j)' = "answered"
    BY <2>1, <2>2 DEF PhaseRules, After
  <2>4. \A i \in Jobs : i # j => Phase(i)' = Phase(i)
    BY <2>1, OthersKept DEF TypeOK, StoreTypeOK
  <2> QED
    BY <2>1, <2>3, <2>4, Advances DEF Service!Answer
<1>8. CASE CompleteRaises(w)
  <2>1. lock' = Unlocked(w)
    BY <1>8 DEF CompleteRaises, Raises, Goto, Unlocked, LockHeld, Hand
  <2> QED
    BY <1>8, <2>1, Loses DEF CompleteRaises, Raises, Goto, Taken, Hand, After
<1>9. CASE Die(w) /\ at[w] \in Taken
  BY <1>9, Loses DEF Die, Goto, Taken, Hand, After
<1> QED
  BY <1>1, <1>2, <1>3, <1>5, <1>6, <1>7, <1>8, <1>9, RunnerIdles DEF RunnerStep

\* What the runs check on two jobs, for any number of them: whatever is
\* repeated, lost or killed, the host keeps JobService (runner.py:87-107, 159,
\* 212).
THEOREM Implements == Spec => ImplementsJobService
<1>1. Init => Service!Init
  BY RunnerParts DEF Init, Service!Init, Phase
<1>2. RInv /\ RInv' /\ PhaseRules /\ PhaseRules' /\ [Next]_vars => [Service!Next]_Service!vars
  <2> SUFFICES ASSUME RInv, RInv', PhaseRules, PhaseRules', [Next]_vars
               PROVE  [Service!Next]_Service!vars
    OBVIOUS
  <2>1. CASE UNCHANGED vars
    BY <2>1, PhaseKept, Stutters
  <2>2. ASSUME NEW j \in Jobs, ControllerStep(j) \/ ControllerFails(j) \/ Resume(j)
        PROVE  [Service!Next]_Service!vars
    BY <2>2, ControllerMaps DEF Service!Next
  <2>3. ASSUME NEW w \in Runners, RunnerStep(w) \/ Repeat(w) \/ DaemonFails(w) \/ Die(w)
        PROVE  [Service!Next]_Service!vars
    BY <2>3, RunnerMaps, RunnerParts DEF Service!Next
  <2> QED
    BY <2>1, <2>2, <2>3 DEF Next
<1>3. Spec => []RInv
  BY RInvariance
<1>4. RInv => PhaseRules
  BY PhasesFollow DEF RInv
<1> QED
  BY <1>1, <1>2, <1>3, <1>4, PTL DEF Spec, ImplementsJobService, Service!Spec

-----------------------------------------------------------------------------
(* And so it implements JobBoard, which is all that Workflow knows of it.  *)

Host == INSTANCE JobServiceProofs WITH
  Answers <- Verdicts \cup {"infra_failed"},
  phase <- [j \in Jobs |-> Phase(j)],
  busy <- IF lock = None THEN None ELSE lock[1],
  answer <- result

\* The jobs its controllers can know of are those that are not "unknown".
ImplementsJobBoard == Host!Board!Spec

\* The controllers of the workflow see a board, whoever repeats verify calls,
\* loses replies or dies: JobService stands between (runner.py:83-107, 212).
THEOREM BoardImplemented == Spec => ImplementsJobBoard
<1>1. Service!Init <=> Host!Init
  BY DEF Service!Init, Host!Init
<1>2. [Service!Next]_Service!vars <=> [Host!Next]_Host!vars
  BY DEF Service!Next, Host!Next, Service!vars, Host!vars, Service!Advance, Host!Advance,
     Service!Accept, Host!Accept, Service!Claim, Host!Claim, Service!Execute, Host!Execute,
     Service!Finish, Host!Finish, Service!Skip, Host!Skip, Service!Answer, Host!Answer,
     Service!Lose, Host!Lose
<1>3. Service!Spec => Host!Spec
  BY <1>1, <1>2, PTL DEF Service!Spec, Host!Spec
<1> QED
  BY <1>3, Implements, Host!ImplementsBoard, PTL DEF ImplementsJobService, ImplementsJobBoard
=============================================================================
