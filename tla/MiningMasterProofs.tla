------------------------- MODULE MiningMasterProofs -------------------------
(***************************************************************************)
(* Theorems about MiningMaster, for every number of workers, every set of  *)
(* samples and every value of the bounds.                                  *)
(***************************************************************************)
EXTENDS MiningMaster, FiniteSetTheorems, TLAPS

\* Where an attempt is, and that it is in one place only: each conjunct is what
\* a step of one side needs to know of the other.
HandOver ==
  \A w \in Workers :
    /\ phase[w] = "busy" <=> job[w] # None
    /\ jobQueue[w] \in Samples =>
         running[w] = jobQueue[w] /\ job[w] = None /\ \A r \in results : r.w # w
    /\ job[w] # None => running[w] = job[w] /\ \A r \in results : r.w # w
    /\ \A r \in results : r.w = w => running[w] = r.sample
    /\ \A v \in Workers : running[v] = running[w] => v = w \/ running[w] = None

\* A live worker that was given an attempt still has it.
NotLost ==
  \A w \in Workers :
    running[w] # None /\ phase[w] \notin {"dead", "failed"} =>
      \/ jobQueue[w] = running[w]
      \/ job[w] = running[w]
      \/ \E r \in results : r.w = w

\* Queues are poisoned only on the way out.
PoisonLate ==
  pc \notin {"shutdown", "ended", "crashed"} =>
    \A w \in Workers : jobQueue[w] # Poison

\* A result is the only one of its worker.
OneResult == \A r, q \in results : r.w = q.w => r = q

\* Nothing final is known of s, and nothing at all in this run.
Open(s) ==
  \A r \in rows : r.sample = s => r.run # run /\ r.status \notin SkipStatuses

\* What is in flight or in the master's hand was yielded once and is open.
Undecided ==
  /\ \A r \in rows : r.run <= run
  /\ \A s \in todo : \A r \in rows : r.sample = s => r.run # run
  /\ \A w \in Workers :
       running[w] # None => running[w] \notin todo /\ Open(running[w])
  /\ pc = "record" =>
       /\ cur.sample \notin todo /\ Open(cur.sample)
       /\ \A w \in Workers : running[w] # cur.sample

IInv ==
  /\ TypeOK /\ HandOver /\ OneResult /\ NotLost /\ PoisonLate
  /\ Undecided /\ DecidedOnce

-----------------------------------------------------------------------------
USE DEF vars, control, loopVars, flags, workVars, disk, workerFrame

\* The types of the master's variables are kept by every step.
LEMMA MasterTypeStep ==
  ASSUME MasterTypeOK, WorkerTypeOK, [Next]_vars
  PROVE  MasterTypeOK'
<1> USE ConstantsAssumption DEF MasterTypeOK, Pcs
<1>1. CASE StartRun
  <2>1. run' \in 0 .. MaxRuns
    BY <1>1 DEF StartRun
  <2>2. running' \in [Workers -> Samples \cup {None}]
    BY <1>1 DEF StartRun
  <2>3. assigned' \in 0 .. MaxAttempts /\ next' \in 1 .. NumWorkers + 1
    BY <1>1 DEF StartRun
  <2> QED
    BY <1>1, <2>1, <2>2, <2>3 DEF StartRun
<1>2. CASE LoopEnds
  BY <1>2 DEF LoopEnds
<1>3. CASE ReadStopFile
  BY <1>3 DEF ReadStopFile
<1>4. CASE HardStopTerminate
  BY <1>4 DEF HardStopTerminate, Alive
<1>5. CASE HardStopCleanup
  BY <1>5 DEF HardStopCleanup, InFlight
<1>6. CASE NothingToAssign
  BY <1>6 DEF NothingToAssign
<1>7. CASE AssignEnds
  BY <1>7 DEF AssignEnds
<1>8. CASE NothingRuns
  BY <1>8 DEF NothingRuns
<1>9. CASE TakeTimesOut
  BY <1>9 DEF TakeTimesOut
<1>10. CASE RecordAttempt
  BY <1>10 DEF RecordAttempt, Result
<1>11. CASE Materialize
  BY <1>11 DEF Materialize
<1>12. CASE PoisonQueue
  BY <1>12 DEF PoisonQueue, Workers
<1>13. CASE JoinWorkers
  BY <1>13 DEF JoinWorkers, Alive
<1>14. CASE Raise
  BY <1>14 DEF Raise
<1>15. CASE CrashMaster
  BY <1>15 DEF CrashMaster
<1>16. CASE Signal
  BY <1>16 DEF Signal
<1>17. ASSUME NEW w \in Workers, NEW x \in Samples, Assign(w, x)
      PROVE  MasterTypeOK'
  BY <1>17 DEF Assign, MayAssign, Idle, Yieldable
<1>18. ASSUME NEW r \in results, TakeResult(r)
      PROVE  MasterTypeOK'
  BY <1>18 DEF TakeResult, WorkerTypeOK, Result
<1>19. ASSUME NEW w \in Workers, WorkerReady(w)
      PROVE  MasterTypeOK'
  BY <1>19 DEF WorkerReady
<1>20. ASSUME NEW w \in Workers, TakeJob(w)
      PROVE  MasterTypeOK'
  BY <1>20 DEF TakeJob
<1>21. ASSUME NEW w \in Workers, TakePoison(w)
      PROVE  MasterTypeOK'
  BY <1>21 DEF TakePoison
<1>22. ASSUME NEW w \in Workers, WriteArtifacts(w)
      PROVE  MasterTypeOK'
  BY <1>22 DEF WriteArtifacts
<1>23. ASSUME NEW w \in Workers, WorkerInitFails(w)
      PROVE  MasterTypeOK'
  BY <1>23 DEF WorkerInitFails, Die
<1>24. ASSUME NEW w \in Workers, WorkerDies(w)
      PROVE  MasterTypeOK'
  BY <1>24 DEF WorkerDies, Die, Alive
<1>25. ASSUME NEW w \in Workers, WorkerTerminated(w)
      PROVE  MasterTypeOK'
  BY <1>25 DEF WorkerTerminated, Die, Alive
<1>26. ASSUME NEW w \in Workers, NEW st \in Status, Report(w, st)
      PROVE  MasterTypeOK'
  BY <1>26 DEF Report
<1>27. ASSUME NEW mode \in StopModes, WriteStopFile(mode)
      PROVE  MasterTypeOK'
  BY <1>27 DEF WriteStopFile
<1>28. CASE UNCHANGED vars
  BY <1>28
<1> QED
  BY <1>1, <1>2, <1>3, <1>4, <1>5, <1>6, <1>7, <1>8, <1>9, <1>10, <1>11,
     <1>12, <1>13, <1>14, <1>15, <1>16, <1>17, <1>18, <1>19, <1>20,
     <1>21, <1>22, <1>23, <1>24, <1>25, <1>26, <1>27, <1>28
     DEF Next, MasterStep, WorkerStep, FaultStep, OperatorStep

\* The types of the workers and the queues are kept by every step.
LEMMA WorkerTypeStep ==
  ASSUME MasterTypeOK, WorkerTypeOK, HandOver, [Next]_vars
  PROVE  WorkerTypeOK'
<1> USE ConstantsAssumption DEF WorkerTypeOK
<1>1. CASE StartRun
  BY <1>1 DEF StartRun
<1>2. CASE LoopEnds
  BY <1>2 DEF LoopEnds
<1>3. CASE ReadStopFile
  BY <1>3 DEF ReadStopFile
<1>4. CASE HardStopTerminate
  BY <1>4 DEF HardStopTerminate, Alive
<1>5. CASE HardStopCleanup
  BY <1>5 DEF HardStopCleanup, InFlight
<1>6. CASE NothingToAssign
  BY <1>6 DEF NothingToAssign
<1>7. CASE AssignEnds
  BY <1>7 DEF AssignEnds
<1>8. CASE NothingRuns
  BY <1>8 DEF NothingRuns
<1>9. CASE TakeTimesOut
  BY <1>9 DEF TakeTimesOut
<1>10. CASE RecordAttempt
  BY <1>10 DEF RecordAttempt
<1>11. CASE Materialize
  BY <1>11 DEF Materialize
<1>12. CASE PoisonQueue
  BY <1>12 DEF PoisonQueue, MasterTypeOK, Workers
<1>13. CASE JoinWorkers
  BY <1>13 DEF JoinWorkers, Alive
<1>14. CASE Raise
  BY <1>14 DEF Raise
<1>15. CASE CrashMaster
  BY <1>15 DEF CrashMaster
<1>16. CASE Signal
  BY <1>16 DEF Signal
<1>17. ASSUME NEW w \in Workers, NEW x \in Samples, Assign(w, x)
      PROVE  WorkerTypeOK'
  BY <1>17 DEF Assign, MayAssign, Idle, Yieldable
<1>18. ASSUME NEW r \in results, TakeResult(r)
      PROVE  WorkerTypeOK'
  BY <1>18 DEF TakeResult
<1>19. ASSUME NEW w \in Workers, WorkerReady(w)
      PROVE  WorkerTypeOK'
  BY <1>19 DEF WorkerReady
<1>20. ASSUME NEW w \in Workers, TakeJob(w)
      PROVE  WorkerTypeOK'
  BY <1>20 DEF TakeJob
<1>21. ASSUME NEW w \in Workers, TakePoison(w)
      PROVE  WorkerTypeOK'
  BY <1>21 DEF TakePoison
<1>22. ASSUME NEW w \in Workers, WriteArtifacts(w)
      PROVE  WorkerTypeOK'
  BY <1>22 DEF WriteArtifacts
<1>23. ASSUME NEW w \in Workers, WorkerInitFails(w)
      PROVE  WorkerTypeOK'
  BY <1>23 DEF WorkerInitFails, Die
<1>24. ASSUME NEW w \in Workers, WorkerDies(w)
      PROVE  WorkerTypeOK'
  BY <1>24 DEF WorkerDies, Die, Alive
<1>25. ASSUME NEW w \in Workers, WorkerTerminated(w)
      PROVE  WorkerTypeOK'
  BY <1>25 DEF WorkerTerminated, Die, Alive
<1>26. ASSUME NEW w \in Workers, NEW st \in Status, Report(w, st)
      PROVE  WorkerTypeOK'
  BY <1>26 DEF Report, HandOver, Result
<1>27. ASSUME NEW mode \in StopModes, WriteStopFile(mode)
      PROVE  WorkerTypeOK'
  BY <1>27 DEF WriteStopFile
<1>28. CASE UNCHANGED vars
  BY <1>28
<1> QED
  BY <1>1, <1>2, <1>3, <1>4, <1>5, <1>6, <1>7, <1>8, <1>9, <1>10, <1>11,
     <1>12, <1>13, <1>14, <1>15, <1>16, <1>17, <1>18, <1>19, <1>20,
     <1>21, <1>22, <1>23, <1>24, <1>25, <1>26, <1>27, <1>28
     DEF Next, MasterStep, WorkerStep, FaultStep, OperatorStep

\* The types of what is on disk are kept by every step.
LEMMA DiskTypeStep ==
  ASSUME TypeOK, HandOver, [Next]_vars
  PROVE  DiskTypeOK'
<1> USE ConstantsAssumption DEF DiskTypeOK, TypeOK
<1>1. CASE StartRun
  BY <1>1 DEF StartRun
<1>2. CASE LoopEnds
  BY <1>2 DEF LoopEnds
<1>3. CASE ReadStopFile
  BY <1>3 DEF ReadStopFile
<1>4. CASE HardStopTerminate
  BY <1>4 DEF HardStopTerminate, Alive
<1>5. CASE HardStopCleanup
  BY <1>5 DEF HardStopCleanup, InFlight, MasterTypeOK
<1>6. CASE NothingToAssign
  BY <1>6 DEF NothingToAssign
<1>7. CASE AssignEnds
  BY <1>7 DEF AssignEnds
<1>8. CASE NothingRuns
  BY <1>8 DEF NothingRuns
<1>9. CASE TakeTimesOut
  BY <1>9 DEF TakeTimesOut
<1>10. CASE RecordAttempt
  BY <1>10 DEF RecordAttempt, MasterTypeOK, Result, Row
<1>11. CASE Materialize
  BY <1>11 DEF Materialize
<1>12. CASE PoisonQueue
  BY <1>12 DEF PoisonQueue
<1>13. CASE JoinWorkers
  BY <1>13 DEF JoinWorkers, Alive
<1>14. CASE Raise
  BY <1>14 DEF Raise
<1>15. CASE CrashMaster
  BY <1>15 DEF CrashMaster
<1>16. CASE Signal
  BY <1>16 DEF Signal
<1>17. ASSUME NEW w \in Workers, NEW x \in Samples, Assign(w, x)
      PROVE  DiskTypeOK'
  BY <1>17 DEF Assign, MayAssign, Idle, Yieldable
<1>18. ASSUME NEW r \in results, TakeResult(r)
      PROVE  DiskTypeOK'
  BY <1>18 DEF TakeResult
<1>19. ASSUME NEW w \in Workers, WorkerReady(w)
      PROVE  DiskTypeOK'
  BY <1>19 DEF WorkerReady
<1>20. ASSUME NEW w \in Workers, TakeJob(w)
      PROVE  DiskTypeOK'
  BY <1>20 DEF TakeJob
<1>21. ASSUME NEW w \in Workers, TakePoison(w)
      PROVE  DiskTypeOK'
  BY <1>21 DEF TakePoison
<1>22. ASSUME NEW w \in Workers, WriteArtifacts(w)
      PROVE  DiskTypeOK'
  BY <1>22 DEF WriteArtifacts, HandOver, WorkerTypeOK
<1>23. ASSUME NEW w \in Workers, WorkerInitFails(w)
      PROVE  DiskTypeOK'
  BY <1>23 DEF WorkerInitFails, Die
<1>24. ASSUME NEW w \in Workers, WorkerDies(w)
      PROVE  DiskTypeOK'
  BY <1>24 DEF WorkerDies, Die, Alive
<1>25. ASSUME NEW w \in Workers, WorkerTerminated(w)
      PROVE  DiskTypeOK'
  BY <1>25 DEF WorkerTerminated, Die, Alive
<1>26. ASSUME NEW w \in Workers, NEW st \in Status, Report(w, st)
      PROVE  DiskTypeOK'
  BY <1>26 DEF Report
<1>27. ASSUME NEW mode \in StopModes, WriteStopFile(mode)
      PROVE  DiskTypeOK'
  BY <1>27 DEF WriteStopFile
<1>28. CASE UNCHANGED vars
  BY <1>28
<1> QED
  BY <1>1, <1>2, <1>3, <1>4, <1>5, <1>6, <1>7, <1>8, <1>9, <1>10, <1>11,
     <1>12, <1>13, <1>14, <1>15, <1>16, <1>17, <1>18, <1>19, <1>20,
     <1>21, <1>22, <1>23, <1>24, <1>25, <1>26, <1>27, <1>28
     DEF Next, MasterStep, WorkerStep, FaultStep, OperatorStep

\* Every step keeps an attempt in one place and the master informed of it.
LEMMA HandOverStep ==
  ASSUME MasterTypeOK, WorkerTypeOK, HandOver, OneResult, Undecided, [Next]_vars
  PROVE  HandOver'
<1> USE ConstantsAssumption DEF HandOver
<1>1. CASE StartRun
  BY <1>1 DEF StartRun
<1>2. CASE LoopEnds
  BY <1>2 DEF LoopEnds
<1>3. CASE ReadStopFile
  BY <1>3 DEF ReadStopFile
<1>4. CASE HardStopTerminate
  BY <1>4 DEF HardStopTerminate, Alive
<1>5. CASE HardStopCleanup
  BY <1>5 DEF HardStopCleanup, InFlight
<1>6. CASE NothingToAssign
  BY <1>6 DEF NothingToAssign
<1>7. CASE AssignEnds
  BY <1>7 DEF AssignEnds
<1>8. CASE NothingRuns
  BY <1>8 DEF NothingRuns
<1>9. CASE TakeTimesOut
  BY <1>9 DEF TakeTimesOut
<1>10. CASE RecordAttempt
  BY <1>10 DEF RecordAttempt
<1>11. CASE Materialize
  BY <1>11 DEF Materialize
<1>12. CASE PoisonQueue
  BY <1>12 DEF PoisonQueue, WorkerTypeOK
<1>13. CASE JoinWorkers
  BY <1>13 DEF JoinWorkers, Alive
<1>14. CASE Raise
  BY <1>14 DEF Raise
<1>15. CASE CrashMaster
  BY <1>15 DEF CrashMaster
<1>16. CASE Signal
  BY <1>16 DEF Signal
<1>17. ASSUME NEW w \in Workers, NEW x \in Samples, Assign(w, x)
      PROVE  HandOver'
  BY <1>17 DEF Assign, MayAssign, Idle, Yieldable, MasterTypeOK, WorkerTypeOK, Result, Undecided
<1>18. ASSUME NEW r \in results, TakeResult(r)
      PROVE  HandOver'
  BY <1>18 DEF TakeResult, MasterTypeOK, WorkerTypeOK, Result, OneResult
<1>19. ASSUME NEW w \in Workers, WorkerReady(w)
      PROVE  HandOver'
  BY <1>19 DEF WorkerReady, WorkerTypeOK
<1>20. ASSUME NEW w \in Workers, TakeJob(w)
      PROVE  HandOver'
  BY <1>20 DEF TakeJob, WorkerTypeOK, Alive
<1>21. ASSUME NEW w \in Workers, TakePoison(w)
      PROVE  HandOver'
  BY <1>21 DEF TakePoison, WorkerTypeOK
<1>22. ASSUME NEW w \in Workers, WriteArtifacts(w)
      PROVE  HandOver'
  BY <1>22 DEF WriteArtifacts
<1>23. ASSUME NEW w \in Workers, WorkerInitFails(w)
      PROVE  HandOver'
  BY <1>23 DEF WorkerInitFails, Die, WorkerTypeOK
<1>24. ASSUME NEW w \in Workers, WorkerDies(w)
      PROVE  HandOver'
  BY <1>24 DEF WorkerDies, Die, Alive, WorkerTypeOK
<1>25. ASSUME NEW w \in Workers, WorkerTerminated(w)
      PROVE  HandOver'
  BY <1>25 DEF WorkerTerminated, Die, Alive, WorkerTypeOK
<1>26. ASSUME NEW w \in Workers, NEW st \in Status, Report(w, st)
      PROVE  HandOver'
  BY <1>26 DEF Report, WorkerTypeOK, Result
<1>27. ASSUME NEW mode \in StopModes, WriteStopFile(mode)
      PROVE  HandOver'
  BY <1>27 DEF WriteStopFile
<1>28. CASE UNCHANGED vars
  BY <1>28
<1> QED
  BY <1>1, <1>2, <1>3, <1>4, <1>5, <1>6, <1>7, <1>8, <1>9, <1>10, <1>11,
     <1>12, <1>13, <1>14, <1>15, <1>16, <1>17, <1>18, <1>19, <1>20,
     <1>21, <1>22, <1>23, <1>24, <1>25, <1>26, <1>27, <1>28
     DEF Next, MasterStep, WorkerStep, FaultStep, OperatorStep

\* A worker reports once per attempt.
LEMMA OneResultStep ==
  ASSUME WorkerTypeOK, HandOver, OneResult, [Next]_vars
  PROVE  OneResult'
<1> USE DEF OneResult
<1>1. CASE StartRun
  BY <1>1 DEF StartRun
<1>2. CASE LoopEnds
  BY <1>2 DEF LoopEnds
<1>3. CASE ReadStopFile
  BY <1>3 DEF ReadStopFile
<1>4. CASE HardStopTerminate
  BY <1>4 DEF HardStopTerminate, Alive
<1>5. CASE HardStopCleanup
  BY <1>5 DEF HardStopCleanup, InFlight
<1>6. CASE NothingToAssign
  BY <1>6 DEF NothingToAssign
<1>7. CASE AssignEnds
  BY <1>7 DEF AssignEnds
<1>8. CASE NothingRuns
  BY <1>8 DEF NothingRuns
<1>9. CASE TakeTimesOut
  BY <1>9 DEF TakeTimesOut
<1>10. CASE RecordAttempt
  BY <1>10 DEF RecordAttempt
<1>11. CASE Materialize
  BY <1>11 DEF Materialize
<1>12. CASE PoisonQueue
  BY <1>12 DEF PoisonQueue
<1>13. CASE JoinWorkers
  BY <1>13 DEF JoinWorkers, Alive
<1>14. CASE Raise
  BY <1>14 DEF Raise
<1>15. CASE CrashMaster
  BY <1>15 DEF CrashMaster
<1>16. CASE Signal
  BY <1>16 DEF Signal
<1>17. ASSUME NEW w \in Workers, NEW x \in Samples, Assign(w, x)
      PROVE  OneResult'
  BY <1>17 DEF Assign, MayAssign, Idle, Yieldable
<1>18. ASSUME NEW r \in results, TakeResult(r)
      PROVE  OneResult'
  BY <1>18 DEF TakeResult
<1>19. ASSUME NEW w \in Workers, WorkerReady(w)
      PROVE  OneResult'
  BY <1>19 DEF WorkerReady
<1>20. ASSUME NEW w \in Workers, TakeJob(w)
      PROVE  OneResult'
  BY <1>20 DEF TakeJob
<1>21. ASSUME NEW w \in Workers, TakePoison(w)
      PROVE  OneResult'
  BY <1>21 DEF TakePoison
<1>22. ASSUME NEW w \in Workers, WriteArtifacts(w)
      PROVE  OneResult'
  BY <1>22 DEF WriteArtifacts
<1>23. ASSUME NEW w \in Workers, WorkerInitFails(w)
      PROVE  OneResult'
  BY <1>23 DEF WorkerInitFails, Die
<1>24. ASSUME NEW w \in Workers, WorkerDies(w)
      PROVE  OneResult'
  BY <1>24 DEF WorkerDies, Die, Alive
<1>25. ASSUME NEW w \in Workers, WorkerTerminated(w)
      PROVE  OneResult'
  BY <1>25 DEF WorkerTerminated, Die, Alive
<1>26. ASSUME NEW w \in Workers, NEW st \in Status, Report(w, st)
      PROVE  OneResult'
  BY <1>26 DEF Report, HandOver
<1>27. ASSUME NEW mode \in StopModes, WriteStopFile(mode)
      PROVE  OneResult'
  BY <1>27 DEF WriteStopFile
<1>28. CASE UNCHANGED vars
  BY <1>28
<1> QED
  BY <1>1, <1>2, <1>3, <1>4, <1>5, <1>6, <1>7, <1>8, <1>9, <1>10, <1>11,
     <1>12, <1>13, <1>14, <1>15, <1>16, <1>17, <1>18, <1>19, <1>20,
     <1>21, <1>22, <1>23, <1>24, <1>25, <1>26, <1>27, <1>28
     DEF Next, MasterStep, WorkerStep, FaultStep, OperatorStep

\* No step loses the attempt of a live worker.
LEMMA NotLostStep ==
  ASSUME MasterTypeOK, WorkerTypeOK, HandOver, NotLost, [Next]_vars
  PROVE  NotLost'
<1> USE ConstantsAssumption DEF NotLost
<1>1. CASE StartRun
  BY <1>1 DEF StartRun
<1>2. CASE LoopEnds
  BY <1>2 DEF LoopEnds
<1>3. CASE ReadStopFile
  BY <1>3 DEF ReadStopFile
<1>4. CASE HardStopTerminate
  BY <1>4 DEF HardStopTerminate, Alive
<1>5. CASE HardStopCleanup
  BY <1>5 DEF HardStopCleanup, InFlight
<1>6. CASE NothingToAssign
  BY <1>6 DEF NothingToAssign
<1>7. CASE AssignEnds
  BY <1>7 DEF AssignEnds
<1>8. CASE NothingRuns
  BY <1>8 DEF NothingRuns
<1>9. CASE TakeTimesOut
  BY <1>9 DEF TakeTimesOut
<1>10. CASE RecordAttempt
  BY <1>10 DEF RecordAttempt
<1>11. CASE Materialize
  BY <1>11 DEF Materialize
<1>12. CASE PoisonQueue
  BY <1>12 DEF PoisonQueue, WorkerTypeOK, MasterTypeOK
<1>13. CASE JoinWorkers
  BY <1>13 DEF JoinWorkers, Alive
<1>14. CASE Raise
  BY <1>14 DEF Raise
<1>15. CASE CrashMaster
  BY <1>15 DEF CrashMaster
<1>16. CASE Signal
  BY <1>16 DEF Signal
<1>17. ASSUME NEW w \in Workers, NEW x \in Samples, Assign(w, x)
      PROVE  NotLost'
  BY <1>17 DEF Assign, MayAssign, Idle, Yieldable, MasterTypeOK, WorkerTypeOK
<1>18. ASSUME NEW r \in results, TakeResult(r)
      PROVE  NotLost'
  BY <1>18 DEF TakeResult, MasterTypeOK, WorkerTypeOK, Result, HandOver
<1>19. ASSUME NEW w \in Workers, WorkerReady(w)
      PROVE  NotLost'
  BY <1>19 DEF WorkerReady, WorkerTypeOK, HandOver
<1>20. ASSUME NEW w \in Workers, TakeJob(w)
      PROVE  NotLost'
  BY <1>20 DEF TakeJob, WorkerTypeOK, HandOver
<1>21. ASSUME NEW w \in Workers, TakePoison(w)
      PROVE  NotLost'
  BY <1>21 DEF TakePoison, WorkerTypeOK, MasterTypeOK
<1>22. ASSUME NEW w \in Workers, WriteArtifacts(w)
      PROVE  NotLost'
  BY <1>22 DEF WriteArtifacts
<1>23. ASSUME NEW w \in Workers, WorkerInitFails(w)
      PROVE  NotLost'
  BY <1>23 DEF WorkerInitFails, Die, WorkerTypeOK
<1>24. ASSUME NEW w \in Workers, WorkerDies(w)
      PROVE  NotLost'
  BY <1>24 DEF WorkerDies, Die, Alive, WorkerTypeOK
<1>25. ASSUME NEW w \in Workers, WorkerTerminated(w)
      PROVE  NotLost'
  BY <1>25 DEF WorkerTerminated, Die, Alive, WorkerTypeOK
<1>26. ASSUME NEW w \in Workers, NEW st \in Status, Report(w, st)
      PROVE  NotLost'
  <2> DEFINE new == [w |-> w, sample |-> job[w], status |-> st]
  <2>1. new \in results' /\ new.w = w
    BY <1>26 DEF Report
  <2>2. ASSUME NEW v \in Workers, v # w, running'[v] # None,
               phase'[v] \notin {"dead", "failed"}
        PROVE  \/ jobQueue'[v] = running'[v] \/ job'[v] = running'[v]
               \/ \E r \in results' : r.w = v
    BY <1>26, <2>2 DEF Report, WorkerTypeOK
  <2> QED
    BY <2>1, <2>2
<1>27. ASSUME NEW mode \in StopModes, WriteStopFile(mode)
      PROVE  NotLost'
  BY <1>27 DEF WriteStopFile
<1>28. CASE UNCHANGED vars
  BY <1>28
<1> QED
  BY <1>1, <1>2, <1>3, <1>4, <1>5, <1>6, <1>7, <1>8, <1>9, <1>10, <1>11,
     <1>12, <1>13, <1>14, <1>15, <1>16, <1>17, <1>18, <1>19, <1>20,
     <1>21, <1>22, <1>23, <1>24, <1>25, <1>26, <1>27, <1>28
     DEF Next, MasterStep, WorkerStep, FaultStep, OperatorStep

\* No step poisons a queue before the loop is left.
LEMMA PoisonLateStep ==
  ASSUME MasterTypeOK, WorkerTypeOK, PoisonLate, [Next]_vars
  PROVE  PoisonLate'
<1> USE ConstantsAssumption DEF PoisonLate
<1>1. CASE StartRun
  BY <1>1 DEF StartRun
<1>2. CASE LoopEnds
  BY <1>2 DEF LoopEnds
<1>3. CASE ReadStopFile
  BY <1>3 DEF ReadStopFile
<1>4. CASE HardStopTerminate
  BY <1>4 DEF HardStopTerminate, Alive
<1>5. CASE HardStopCleanup
  BY <1>5 DEF HardStopCleanup, InFlight
<1>6. CASE NothingToAssign
  BY <1>6 DEF NothingToAssign
<1>7. CASE AssignEnds
  BY <1>7 DEF AssignEnds
<1>8. CASE NothingRuns
  BY <1>8 DEF NothingRuns
<1>9. CASE TakeTimesOut
  BY <1>9 DEF TakeTimesOut
<1>10. CASE RecordAttempt
  BY <1>10 DEF RecordAttempt, MasterTypeOK
<1>11. CASE Materialize
  BY <1>11 DEF Materialize
<1>12. CASE PoisonQueue
  BY <1>12 DEF PoisonQueue
<1>13. CASE JoinWorkers
  BY <1>13 DEF JoinWorkers, Alive
<1>14. CASE Raise
  BY <1>14 DEF Raise
<1>15. CASE CrashMaster
  BY <1>15 DEF CrashMaster
<1>16. CASE Signal
  BY <1>16 DEF Signal
<1>17. ASSUME NEW w \in Workers, NEW x \in Samples, Assign(w, x)
      PROVE  PoisonLate'
  BY <1>17 DEF Assign, MayAssign, Idle, Yieldable, WorkerTypeOK
<1>18. ASSUME NEW r \in results, TakeResult(r)
      PROVE  PoisonLate'
  BY <1>18 DEF TakeResult
<1>19. ASSUME NEW w \in Workers, WorkerReady(w)
      PROVE  PoisonLate'
  BY <1>19 DEF WorkerReady
<1>20. ASSUME NEW w \in Workers, TakeJob(w)
      PROVE  PoisonLate'
  BY <1>20 DEF TakeJob, WorkerTypeOK
<1>21. ASSUME NEW w \in Workers, TakePoison(w)
      PROVE  PoisonLate'
  BY <1>21 DEF TakePoison, WorkerTypeOK
<1>22. ASSUME NEW w \in Workers, WriteArtifacts(w)
      PROVE  PoisonLate'
  BY <1>22 DEF WriteArtifacts
<1>23. ASSUME NEW w \in Workers, WorkerInitFails(w)
      PROVE  PoisonLate'
  BY <1>23 DEF WorkerInitFails, Die
<1>24. ASSUME NEW w \in Workers, WorkerDies(w)
      PROVE  PoisonLate'
  BY <1>24 DEF WorkerDies, Die, Alive
<1>25. ASSUME NEW w \in Workers, WorkerTerminated(w)
      PROVE  PoisonLate'
  BY <1>25 DEF WorkerTerminated, Die, Alive
<1>26. ASSUME NEW w \in Workers, NEW st \in Status, Report(w, st)
      PROVE  PoisonLate'
  BY <1>26 DEF Report
<1>27. ASSUME NEW mode \in StopModes, WriteStopFile(mode)
      PROVE  PoisonLate'
  BY <1>27 DEF WriteStopFile
<1>28. CASE UNCHANGED vars
  BY <1>28
<1> QED
  BY <1>1, <1>2, <1>3, <1>4, <1>5, <1>6, <1>7, <1>8, <1>9, <1>10, <1>11,
     <1>12, <1>13, <1>14, <1>15, <1>16, <1>17, <1>18, <1>19, <1>20,
     <1>21, <1>22, <1>23, <1>24, <1>25, <1>26, <1>27, <1>28
     DEF Next, MasterStep, WorkerStep, FaultStep, OperatorStep

\* No step puts a decided sample in flight.
LEMMA UndecidedStep ==
  ASSUME MasterTypeOK, WorkerTypeOK, DiskTypeOK, HandOver, Undecided, [Next]_vars
  PROVE  Undecided'
<1> USE ConstantsAssumption DEF Undecided, Open
<1>1. CASE StartRun
  BY <1>1 DEF StartRun, MasterTypeOK, DiskTypeOK, Row
<1>2. CASE LoopEnds
  BY <1>2 DEF LoopEnds
<1>3. CASE ReadStopFile
  BY <1>3 DEF ReadStopFile
<1>4. CASE HardStopTerminate
  BY <1>4 DEF HardStopTerminate, Alive
<1>5. CASE HardStopCleanup
  BY <1>5 DEF HardStopCleanup, InFlight
<1>6. CASE NothingToAssign
  BY <1>6 DEF NothingToAssign
<1>7. CASE AssignEnds
  BY <1>7 DEF AssignEnds
<1>8. CASE NothingRuns
  BY <1>8 DEF NothingRuns
<1>9. CASE TakeTimesOut
  BY <1>9 DEF TakeTimesOut
<1>10. CASE RecordAttempt
  BY <1>10 DEF RecordAttempt, MasterTypeOK, Result, DiskTypeOK, Row
<1>11. CASE Materialize
  BY <1>11 DEF Materialize
<1>12. CASE PoisonQueue
  BY <1>12 DEF PoisonQueue
<1>13. CASE JoinWorkers
  BY <1>13 DEF JoinWorkers, Alive
<1>14. CASE Raise
  BY <1>14 DEF Raise
<1>15. CASE CrashMaster
  BY <1>15 DEF CrashMaster
<1>16. CASE Signal
  BY <1>16 DEF Signal
<1>17. ASSUME NEW w \in Workers, NEW x \in Samples, Assign(w, x)
      PROVE  Undecided'
  BY <1>17 DEF Assign, MayAssign, Idle, Yieldable, MasterTypeOK, HasPriorStatus, Yieldable
<1>18. ASSUME NEW r \in results, TakeResult(r)
      PROVE  Undecided'
  BY <1>18 DEF TakeResult, MasterTypeOK, WorkerTypeOK, Result, HandOver
<1>19. ASSUME NEW w \in Workers, WorkerReady(w)
      PROVE  Undecided'
  BY <1>19 DEF WorkerReady
<1>20. ASSUME NEW w \in Workers, TakeJob(w)
      PROVE  Undecided'
  BY <1>20 DEF TakeJob
<1>21. ASSUME NEW w \in Workers, TakePoison(w)
      PROVE  Undecided'
  BY <1>21 DEF TakePoison
<1>22. ASSUME NEW w \in Workers, WriteArtifacts(w)
      PROVE  Undecided'
  BY <1>22 DEF WriteArtifacts
<1>23. ASSUME NEW w \in Workers, WorkerInitFails(w)
      PROVE  Undecided'
  BY <1>23 DEF WorkerInitFails, Die
<1>24. ASSUME NEW w \in Workers, WorkerDies(w)
      PROVE  Undecided'
  BY <1>24 DEF WorkerDies, Die, Alive
<1>25. ASSUME NEW w \in Workers, WorkerTerminated(w)
      PROVE  Undecided'
  BY <1>25 DEF WorkerTerminated, Die, Alive
<1>26. ASSUME NEW w \in Workers, NEW st \in Status, Report(w, st)
      PROVE  Undecided'
  BY <1>26 DEF Report
<1>27. ASSUME NEW mode \in StopModes, WriteStopFile(mode)
      PROVE  Undecided'
  BY <1>27 DEF WriteStopFile
<1>28. CASE UNCHANGED vars
  BY <1>28
<1> QED
  BY <1>1, <1>2, <1>3, <1>4, <1>5, <1>6, <1>7, <1>8, <1>9, <1>10, <1>11,
     <1>12, <1>13, <1>14, <1>15, <1>16, <1>17, <1>18, <1>19, <1>20,
     <1>21, <1>22, <1>23, <1>24, <1>25, <1>26, <1>27, <1>28
     DEF Next, MasterStep, WorkerStep, FaultStep, OperatorStep

\* Recording an open sample decides it for the first time.
LEMMA DecidedOnceStep ==
  ASSUME MasterTypeOK, DiskTypeOK, Undecided, DecidedOnce, [Next]_vars
  PROVE  DecidedOnce'
<1> USE DEF DecidedOnce
<1>1. CASE StartRun
  BY <1>1 DEF StartRun
<1>2. CASE LoopEnds
  BY <1>2 DEF LoopEnds
<1>3. CASE ReadStopFile
  BY <1>3 DEF ReadStopFile
<1>4. CASE HardStopTerminate
  BY <1>4 DEF HardStopTerminate, Alive
<1>5. CASE HardStopCleanup
  BY <1>5 DEF HardStopCleanup, InFlight
<1>6. CASE NothingToAssign
  BY <1>6 DEF NothingToAssign
<1>7. CASE AssignEnds
  BY <1>7 DEF AssignEnds
<1>8. CASE NothingRuns
  BY <1>8 DEF NothingRuns
<1>9. CASE TakeTimesOut
  BY <1>9 DEF TakeTimesOut
<1>10. CASE RecordAttempt
  BY <1>10 DEF RecordAttempt, MasterTypeOK, Result, DiskTypeOK, Row, Undecided, Open
<1>11. CASE Materialize
  BY <1>11 DEF Materialize
<1>12. CASE PoisonQueue
  BY <1>12 DEF PoisonQueue
<1>13. CASE JoinWorkers
  BY <1>13 DEF JoinWorkers, Alive
<1>14. CASE Raise
  BY <1>14 DEF Raise
<1>15. CASE CrashMaster
  BY <1>15 DEF CrashMaster
<1>16. CASE Signal
  BY <1>16 DEF Signal
<1>17. ASSUME NEW w \in Workers, NEW x \in Samples, Assign(w, x)
      PROVE  DecidedOnce'
  BY <1>17 DEF Assign, MayAssign, Idle, Yieldable
<1>18. ASSUME NEW r \in results, TakeResult(r)
      PROVE  DecidedOnce'
  BY <1>18 DEF TakeResult
<1>19. ASSUME NEW w \in Workers, WorkerReady(w)
      PROVE  DecidedOnce'
  BY <1>19 DEF WorkerReady
<1>20. ASSUME NEW w \in Workers, TakeJob(w)
      PROVE  DecidedOnce'
  BY <1>20 DEF TakeJob
<1>21. ASSUME NEW w \in Workers, TakePoison(w)
      PROVE  DecidedOnce'
  BY <1>21 DEF TakePoison
<1>22. ASSUME NEW w \in Workers, WriteArtifacts(w)
      PROVE  DecidedOnce'
  BY <1>22 DEF WriteArtifacts
<1>23. ASSUME NEW w \in Workers, WorkerInitFails(w)
      PROVE  DecidedOnce'
  BY <1>23 DEF WorkerInitFails, Die
<1>24. ASSUME NEW w \in Workers, WorkerDies(w)
      PROVE  DecidedOnce'
  BY <1>24 DEF WorkerDies, Die, Alive
<1>25. ASSUME NEW w \in Workers, WorkerTerminated(w)
      PROVE  DecidedOnce'
  BY <1>25 DEF WorkerTerminated, Die, Alive
<1>26. ASSUME NEW w \in Workers, NEW st \in Status, Report(w, st)
      PROVE  DecidedOnce'
  BY <1>26 DEF Report
<1>27. ASSUME NEW mode \in StopModes, WriteStopFile(mode)
      PROVE  DecidedOnce'
  BY <1>27 DEF WriteStopFile
<1>28. CASE UNCHANGED vars
  BY <1>28
<1> QED
  BY <1>1, <1>2, <1>3, <1>4, <1>5, <1>6, <1>7, <1>8, <1>9, <1>10, <1>11,
     <1>12, <1>13, <1>14, <1>15, <1>16, <1>17, <1>18, <1>19, <1>20,
     <1>21, <1>22, <1>23, <1>24, <1>25, <1>26, <1>27, <1>28
     DEF Next, MasterStep, WorkerStep, FaultStep, OperatorStep

-----------------------------------------------------------------------------
\* The inductive invariant holds of every reachable state.
THEOREM Invariance == Spec => []IInv
<1>1. Init => IInv
  <2> SUFFICES ASSUME Init PROVE IInv
    OBVIOUS
  <2> USE ConstantsAssumption DEF Init
  <2>1. MasterTypeOK
    <3>1. assigned \in 0 .. MaxAttempts /\ run \in 0 .. MaxRuns
      OBVIOUS
    <3>2. next \in 1 .. NumWorkers + 1
      OBVIOUS
    <3>3. running \in [Workers -> Samples \cup {None}]
      OBVIOUS
    <3> QED
      BY <3>1, <3>2, <3>3 DEF MasterTypeOK, Pcs
  <2>2. WorkerTypeOK /\ DiskTypeOK
    BY DEF WorkerTypeOK, DiskTypeOK
  <2>3. HandOver /\ OneResult /\ NotLost /\ PoisonLate
    BY DEF HandOver, OneResult, NotLost, PoisonLate
  <2>4. Undecided /\ DecidedOnce
    BY DEF Undecided, DecidedOnce
  <2> QED
    BY <2>1, <2>2, <2>3, <2>4 DEF IInv, TypeOK
<1>2. IInv /\ [Next]_vars => IInv'
  BY MasterTypeStep, WorkerTypeStep, DiskTypeStep, HandOverStep, OneResultStep,
     NotLostStep, PoisonLateStep, UndecidedStep, DecidedOnceStep
  DEF IInv, TypeOK
<1> QED
  BY <1>1, <1>2, PTL DEF Spec

\* Type correctness: in particular no more than max_attempts attempts are ever
\* assigned.
THEOREM TypeCorrect == Spec => []TypeOK
<1>1. IInv => TypeOK
  BY DEF IInv
<1> QED
  BY <1>1, Invariance, PTL

\* A sample whose outcome is final is never mined again, in any run, through
\* any crash, hard stop or death of a worker.
THEOREM NeverMinedTwice == Spec => []DecidedOnce
<1>1. IInv => DecidedOnce
  BY DEF IInv
<1> QED
  BY <1>1, Invariance, PTL

\* The master and its workers agree on who has which attempt.
THEOREM AttemptTracked == Spec => []AttemptInOnePlace
<1>1. IInv => AttemptInOnePlace
  BY ConstantsAssumption
  DEF IInv, TypeOK, MasterTypeOK, WorkerTypeOK, HandOver, NotLost, Result,
      AttemptInOnePlace, Places, ResultsOf
<1> QED
  BY <1>1, Invariance, PTL

\* The put of an assignment finds the worker's queue empty.
THEOREM AssignmentFree == Spec => []AssignNeverBlocks
<1>1. IInv => AssignNeverBlocks
  BY ConstantsAssumption
  DEF IInv, TypeOK, WorkerTypeOK, HandOver, PoisonLate, AssignNeverBlocks, Idle
<1> QED
  BY <1>1, Invariance, PTL

-----------------------------------------------------------------------------
(* The counters and the attempts table.                                    *)

Busy == {w \in Workers : running[w] # None}

\* Where the master is between two results.
Counting == {"loop", "assign", "wait", "materialize"}

\* Where it is only as long as the target was not reached at the loop's head.
Below == {"hardstop", "cleanup", "assign", "wait", "record"}

\* The counters and the rows of this run, where the master is.  The row of the
\* result in the master's hand is the one that is missing.
Ledger ==
  /\ IsFiniteSet(rows)
  /\ assigned = finished + Cardinality(Busy)
  /\ pc \in Counting => finished = Cardinality(RunRows)
  /\ pc = "record" => finished = Cardinality(RunRows) + 1
  /\ accepted = Cardinality(Accepted(RunRows))
  /\ accepted <= TargetAccepted
  /\ pc \in Below => accepted < TargetAccepted

\* The five actions that touch the counters or the table, and how the master
\* moves in all the others.
LEMMA LedgerSteps ==
  ASSUME [Next]_vars
  PROVE  \/ StartRun
         \/ \E w \in Workers, s \in Samples : Assign(w, s)
         \/ \E r \in results : TakeResult(r)
         \/ RecordAttempt
         \/ /\ UNCHANGED <<run, running, assigned, finished, accepted, rows>>
            /\ pc' \in Counting => pc \in Counting
            /\ pc' = "record" => pc = "record"
            /\ pc' \in Below => pc \in Below \/ KeepsMining
<1> USE DEF Counting, Below
<1>1. CASE LoopEnds \/ ReadStopFile \/ HardStopTerminate \/ HardStopCleanup
  BY <1>1 DEF LoopEnds, ReadStopFile, HardStopTerminate, HardStopCleanup
<1>2. CASE NothingToAssign \/ AssignEnds \/ NothingRuns \/ TakeTimesOut
  BY <1>2 DEF NothingToAssign, AssignEnds, NothingRuns, TakeTimesOut
<1>3. CASE Materialize \/ PoisonQueue \/ JoinWorkers \/ Raise \/ CrashMaster
  BY <1>3 DEF Materialize, PoisonQueue, JoinWorkers, Raise, CrashMaster
<1>4. ASSUME NEW w \in Workers, WorkerStep(w) PROVE UNCHANGED <<control, loopVars, running, rows, pc>>
  BY <1>4 DEF WorkerStep, WorkerReady, TakeJob, TakePoison, WriteArtifacts, Report
<1>5. ASSUME NEW w \in Workers, WorkerInitFails(w) \/ WorkerDies(w) \/ WorkerTerminated(w)
      PROVE  UNCHANGED <<control, loopVars, running, rows, pc>>
  BY <1>5 DEF WorkerInitFails, WorkerDies, WorkerTerminated, Die
<1>6. CASE OperatorStep \/ UNCHANGED vars
  BY <1>6 DEF OperatorStep, Signal, WriteStopFile
<1> QED
  BY <1>1, <1>2, <1>3, <1>4, <1>5, <1>6 DEF Next, MasterStep, FaultStep

\* The workers are finitely many, and so are those that are busy.
LEMMA BusyFinite == IsFiniteSet(Busy) /\ Cardinality(Busy) \in Nat
<1>1. IsFiniteSet(Workers)
  BY FS_Interval, ConstantsAssumption DEF Workers
<1>2. Busy \in SUBSET Workers
  BY DEF Busy
<1> QED
  BY <1>1, <1>2, FS_Subset, FS_CardinalityType

LEMMA RunRowsFinite ==
  ASSUME IsFiniteSet(rows)
  PROVE  /\ IsFiniteSet(RunRows) /\ Cardinality(RunRows) \in Nat
         /\ IsFiniteSet(Accepted(RunRows)) /\ Cardinality(Accepted(RunRows)) \in Nat
<1>1. RunRows \in SUBSET rows /\ Accepted(RunRows) \in SUBSET rows
  BY DEF RunRows, Accepted
<1> QED
  BY <1>1, FS_Subset, FS_CardinalityType

LEMMA LedgerStep ==
  ASSUME IInv, Ledger, [Next]_vars
  PROVE  Ledger'
<1> USE ConstantsAssumption, BusyFinite
<1>0. MasterTypeOK
  BY DEF IInv, TypeOK
<1>1. CASE StartRun
  <2>1. Busy' = {}
    BY <1>1 DEF StartRun, Busy
  <2>2. RunRows' = {} /\ Accepted(RunRows)' = {}
    BY <1>1 DEF StartRun, RunRows, Accepted, IInv, Undecided, TypeOK, MasterTypeOK, DiskTypeOK, Row
  <2>3. rows' = rows /\ finished' = 0 /\ accepted' = 0 /\ assigned' = 0 /\ pc' = "loop"
    BY <1>1 DEF StartRun
  <2>4. Cardinality({}) = 0
    BY FS_EmptySet
  <2> QED
    BY <2>1, <2>2, <2>3, <2>4 DEF Ledger, Counting, Below
<1>2. ASSUME NEW w \in Workers, NEW s \in Samples, Assign(w, s)
      PROVE  Ledger'
  <2>1. w \notin Busy /\ Busy' = Busy \cup {w}
    BY <1>0, <1>2 DEF Assign, Idle, Busy, MasterTypeOK
  <2>2. Cardinality(Busy') = Cardinality(Busy) + 1
    BY <2>1, FS_AddElement
  <2>3. UNCHANGED <<pc, run, rows, finished, accepted>> /\ assigned' = assigned + 1
    BY <1>2 DEF Assign
  <2>4. UNCHANGED <<RunRows, Accepted(RunRows)>>
    BY <2>3 DEF RunRows, Accepted
  <2> QED
    BY <1>0, <2>2, <2>3, <2>4 DEF Ledger, MasterTypeOK
<1>3. ASSUME NEW r \in results, TakeResult(r)
      PROVE  Ledger'
  <2>1. r.w \in Workers /\ running[r.w] = r.sample /\ r.sample # None
    BY DEF IInv, TypeOK, WorkerTypeOK, Result, HandOver
  <2>2. r.w \in Busy /\ Busy' = Busy \ {r.w}
    BY <1>0, <1>3, <2>1 DEF TakeResult, Busy, MasterTypeOK
  <2>3. Cardinality(Busy') = Cardinality(Busy) - 1
    BY <2>2, FS_RemoveElement
  <2>4. /\ UNCHANGED <<run, rows, assigned, accepted>> /\ finished' = finished + 1
        /\ pc = "wait" /\ pc' = "record"
    BY <1>3 DEF TakeResult
  <2>5. UNCHANGED <<RunRows, Accepted(RunRows)>>
    BY <2>4 DEF RunRows, Accepted
  <2> QED
    BY <1>0, <2>3, <2>4, <2>5, RunRowsFinite DEF Ledger, MasterTypeOK, Counting, Below
<1>4. CASE RecordAttempt
  <2> DEFINE row == [run |-> run, sample |-> cur.sample, status |-> cur.status]
  <2>1. /\ rows' = rows \cup {row} /\ pc = "record"
        /\ UNCHANGED <<run, running, assigned, finished>>
        /\ pc' \in {"materialize", "loop"}
        /\ accepted' = IF cur.status = "accepted" THEN accepted + 1 ELSE accepted
    BY <1>4 DEF RecordAttempt
  <2>2. row \notin rows
    BY <2>1 DEF IInv, Undecided, Open
  <2>3. RunRows' = RunRows \cup {row} /\ row \notin RunRows
    BY <2>1, <2>2 DEF RunRows
  <2>4. Accepted(RunRows)' = IF cur.status = "accepted" THEN Accepted(RunRows) \cup {row}
                                                        ELSE Accepted(RunRows)
    BY <2>3 DEF Accepted
  <2>5. row \notin Accepted(RunRows)
    BY <2>3 DEF Accepted
  <2>6. IsFiniteSet(rows')
    BY <2>1, FS_AddElement DEF Ledger
  <2>7. IsFiniteSet(RunRows) /\ IsFiniteSet(Accepted(RunRows))
    BY RunRowsFinite DEF Ledger
  <2>8. Cardinality(RunRows') = Cardinality(RunRows) + 1
    BY <2>3, <2>7, FS_AddElement
  <2>9. Cardinality(Accepted(RunRows)') = IF cur.status = "accepted"
          THEN Cardinality(Accepted(RunRows)) + 1 ELSE Cardinality(Accepted(RunRows))
    <3>1. CASE cur.status = "accepted"
      <4>1. Accepted(RunRows)' = Accepted(RunRows) \cup {row}
        BY <2>4, <3>1
      <4>2. Cardinality(Accepted(RunRows) \cup {row}) = Cardinality(Accepted(RunRows)) + 1
        BY <2>5, <2>7, FS_AddElement
      <4> QED
        BY <3>1, <4>1, <4>2
    <3>2. CASE cur.status # "accepted"
      BY <2>4, <3>2
    <3> QED
      BY <3>1, <3>2
  <2>10. Busy' = Busy
    BY <2>1 DEF Busy
  <2> QED
    BY <1>0, <2>1, <2>6, <2>8, <2>9, <2>10, RunRowsFinite DEF Ledger, MasterTypeOK, Counting, Below
<1>5. CASE /\ UNCHANGED <<run, running, assigned, finished, accepted, rows>>
           /\ pc' \in Counting => pc \in Counting
           /\ pc' = "record" => pc = "record"
           /\ pc' \in Below => pc \in Below \/ KeepsMining
  <2>1. UNCHANGED <<RunRows, Accepted(RunRows), Busy>>
    BY <1>5 DEF RunRows, Accepted, Busy
  <2> QED
    BY <1>5, <2>1 DEF Ledger, KeepsMining
<1> QED
  BY <1>1, <1>2, <1>3, <1>4, <1>5, LedgerSteps

LEMMA LedgerInvariance == Spec => [](IInv /\ Ledger)
<1>1. Init => Ledger
  <2> SUFFICES ASSUME Init PROVE Ledger
    OBVIOUS
  <2>1. rows = {} /\ Busy = {} /\ RunRows = {} /\ Accepted(RunRows) = {}
    BY DEF Init, Busy, RunRows, Accepted
  <2>2. IsFiniteSet({}) /\ Cardinality({}) = 0
    BY FS_EmptySet
  <2> QED
    BY <2>1, <2>2, ConstantsAssumption DEF Init, Ledger, Counting, Below
<1>2. IInv /\ Ledger /\ [Next]_vars => Ledger'
  BY LedgerStep
<1> QED
  BY <1>1, <1>2, Invariance, PTL DEF Spec

\* What a run returns is what the attempts table says, and neither bound of
\* the profile is overrun, for every number of workers (multi.py:216-270).
THEOREM CountersTrue == Spec => []CountersMatchIndex
<1>1. IInv /\ Ledger => CountersMatchIndex
  <2> SUFFICES ASSUME IInv, Ledger PROVE CountersMatchIndex
    OBVIOUS
  <2>1. assigned = finished + Cardinality(Busy) /\ assigned <= MaxAttempts /\ finished \in Nat
    BY DEF Ledger, IInv, TypeOK, MasterTypeOK
  <2>2. finished <= MaxAttempts
    BY <2>1, BusyFinite, ConstantsAssumption
  <2> QED
    BY <2>1, <2>2 DEF Ledger, CountersMatchIndex, Counting, Busy
<1> QED
  BY <1>1, LedgerInvariance, PTL
-----------------------------------------------------------------------------
(* How a run ends.                                                         *)

Ending == {"final", "shutdown", "ended"}

\* What a run that is being left without an exception has to show: nobody has
\* an attempt that is neither recorded nor cancelled, unless the target was
\* reached, and the dataset files are those of the table.
Leaving ==
  /\ pc \in Ending /\ ~raised /\ accepted < TargetAccepted => InFlight \subseteq cancelled
  /\ pc \in {"shutdown", "ended"} /\ ~raised => view = rows

\* The ways out of the loop, and what happens after them.
LEMMA EndingSteps ==
  ASSUME [Next]_vars, pc' \in Ending
  PROVE  \/ LoopEnds \/ HardStopCleanup \/ NothingRuns \/ Raise \/ Materialize
         \/ /\ pc \in Ending /\ UNCHANGED <<running, accepted, cancelled, raised, rows, view>>
            /\ pc' \in {"shutdown", "ended"} => pc \in {"shutdown", "ended"}
<1> USE DEF Ending
<1>1. CASE StartRun \/ ReadStopFile \/ HardStopTerminate
  BY <1>1 DEF StartRun, ReadStopFile, HardStopTerminate
<1>2. CASE NothingToAssign \/ AssignEnds \/ TakeTimesOut \/ RecordAttempt
  BY <1>2 DEF NothingToAssign, AssignEnds, TakeTimesOut, RecordAttempt
<1>3. CASE PoisonQueue \/ JoinWorkers \/ CrashMaster
  BY <1>3 DEF PoisonQueue, JoinWorkers, CrashMaster
<1>4. ASSUME NEW w \in Workers, NEW s \in Samples, Assign(w, s) PROVE FALSE
  BY <1>4 DEF Assign
<1>5. ASSUME NEW r \in results, TakeResult(r) PROVE FALSE
  BY <1>5 DEF TakeResult
<1>6. ASSUME NEW w \in Workers, WorkerStep(w)
      PROVE  UNCHANGED <<pc, running, accepted, cancelled, raised, rows, view>>
  BY <1>6 DEF WorkerStep, WorkerReady, TakeJob, TakePoison, WriteArtifacts, Report
<1>7. ASSUME NEW w \in Workers, WorkerInitFails(w) \/ WorkerDies(w) \/ WorkerTerminated(w)
      PROVE  UNCHANGED <<pc, running, accepted, cancelled, raised, rows, view>>
  BY <1>7 DEF WorkerInitFails, WorkerDies, WorkerTerminated, Die
<1>8. CASE OperatorStep \/ UNCHANGED vars
  BY <1>8 DEF OperatorStep, Signal, WriteStopFile
<1> QED
  BY <1>1, <1>2, <1>3, <1>4, <1>5, <1>6, <1>7, <1>8 DEF Next, MasterStep, FaultStep

\* A loop that has finished max_attempts attempts has nobody left at work.
LEMMA NobodyBusy ==
  ASSUME IInv, Ledger, finished >= MaxAttempts
  PROVE  InFlight = {}
<1>1. Cardinality(Busy) = 0
  <2>1. assigned \in Nat /\ finished \in Nat /\ assigned <= MaxAttempts
    BY ConstantsAssumption DEF IInv, TypeOK, MasterTypeOK
  <2> QED
    BY <2>1, BusyFinite, ConstantsAssumption DEF Ledger
<1>2. Busy = {}
  BY <1>1, BusyFinite, FS_EmptySet
<1> QED
  BY <1>2 DEF Busy, InFlight

LEMMA LeavingStep ==
  ASSUME IInv, Ledger, Leaving, [Next]_vars
  PROVE  Leaving'
<1> USE DEF Ending
<1>1. CASE pc' \notin Ending
  BY <1>1 DEF Leaving
<1>2. CASE LoopEnds
  <2>1. /\ finished >= MaxAttempts \/ accepted >= TargetAccepted
        /\ UNCHANGED <<running, accepted, cancelled, raised>> /\ pc' = "final"
    BY <1>2, ConstantsAssumption DEF LoopEnds, KeepsMining, IInv, TypeOK, MasterTypeOK
  <2>2. InFlight' = InFlight
    BY <2>1 DEF InFlight
  <2>3. accepted < TargetAccepted => InFlight = {}
    BY <2>1, NobodyBusy, ConstantsAssumption DEF IInv, TypeOK, MasterTypeOK
  <2> QED
    BY <2>1, <2>2, <2>3 DEF Leaving
<1>3. CASE HardStopCleanup \/ NothingRuns
  BY <1>3 DEF HardStopCleanup, NothingRuns, InFlight, Leaving
<1>4. CASE Raise
  BY <1>4 DEF Raise, Leaving
<1>5. CASE Materialize
  BY <1>5 DEF Materialize, Leaving, InFlight
<1>6. CASE /\ pc \in Ending /\ UNCHANGED <<running, accepted, cancelled, raised, rows, view>>
           /\ pc' \in {"shutdown", "ended"} => pc \in {"shutdown", "ended"}
  BY <1>6 DEF Leaving, InFlight
<1> QED
  BY <1>1, <1>2, <1>3, <1>4, <1>5, <1>6, EndingSteps

LEMMA LeavingAlways == Spec => []Leaving
<1>1. Init => Leaving
  BY DEF Init, Leaving, Ending
<1>2. IInv /\ Ledger /\ Leaving /\ [Next]_vars => Leaving'
  BY LeavingStep
<1> QED
  BY <1>1, <1>2, LedgerInvariance, PTL DEF Spec

\* As long as the target is not reached, a run that returns leaves no attempt
\* that is neither recorded nor cancelled (multi.py:221-243).
THEOREM NothingLost == Spec => []NothingLostBelowTarget
<1>1. Leaving => NothingLostBelowTarget
  BY DEF Leaving, Ending, NothingLostBelowTarget
<1> QED
  BY <1>1, LeavingAlways, PTL

\* A run that returns normally leaves dataset files that are the table's,
\* whatever an earlier crash did to them (multi.py:273).
THEOREM FilesCurrent == Spec => []FinalViewCurrent
<1>1. Leaving => FinalViewCurrent
  BY DEF Leaving, FinalViewCurrent
<1> QED
  BY <1>1, LeavingAlways, PTL

-----------------------------------------------------------------------------
(* The artefacts.                                                          *)

Mining == {"loop", "hardstop", "cleanup", "assign", "wait", "record", "materialize"}

\* A status other than failed_infra came with artefacts, from its report until
\* it is recorded and after.  The cleanup of a hard stop may take those of a
\* result nobody reads any more.
Backed ==
  /\ \A r \in RunRows : r.status # "failed_infra" => r.sample \in files
  /\ pc = "record" /\ cur.status # "failed_infra" => cur.sample \in files
  /\ pc \in Mining =>
       \A r \in results : r.status # "failed_infra" => r.sample \in files

LEMMA BackedSteps ==
  ASSUME [Next]_vars
  PROVE  \/ StartRun \/ HardStopCleanup \/ RecordAttempt
         \/ \E r \in results : TakeResult(r)
         \/ \E w \in Workers, st \in Status : Report(w, st)
         \/ /\ UNCHANGED <<run, rows, results>> /\ files \subseteq files'
            /\ pc' \in Mining => pc \in Mining
            /\ pc' = "record" => pc = "record" /\ cur' = cur
<1> USE DEF Mining
<1>1. CASE LoopEnds \/ ReadStopFile \/ HardStopTerminate
  BY <1>1 DEF LoopEnds, ReadStopFile, HardStopTerminate
<1>2. CASE NothingToAssign \/ AssignEnds \/ NothingRuns \/ TakeTimesOut
  BY <1>2 DEF NothingToAssign, AssignEnds, NothingRuns, TakeTimesOut
<1>3. CASE Materialize \/ PoisonQueue \/ JoinWorkers \/ Raise \/ CrashMaster
  BY <1>3 DEF Materialize, PoisonQueue, JoinWorkers, Raise, CrashMaster
<1>4. ASSUME NEW w \in Workers, NEW s \in Samples, Assign(w, s)
      PROVE  UNCHANGED <<pc, run, rows, results, files, cur>>
  BY <1>4 DEF Assign
<1>5. ASSUME NEW w \in Workers, WorkerReady(w) \/ TakeJob(w) \/ TakePoison(w) \/ WriteArtifacts(w)
      PROVE  UNCHANGED <<pc, run, rows, results, cur>> /\ files \subseteq files'
  BY <1>5 DEF WorkerReady, TakeJob, TakePoison, WriteArtifacts
<1>6. ASSUME NEW w \in Workers, WorkerInitFails(w) \/ WorkerDies(w) \/ WorkerTerminated(w)
      PROVE  UNCHANGED <<pc, run, rows, results, files, cur>>
  BY <1>6 DEF WorkerInitFails, WorkerDies, WorkerTerminated, Die
<1>7. CASE OperatorStep \/ UNCHANGED vars
  BY <1>7 DEF OperatorStep, Signal, WriteStopFile
<1> QED
  BY <1>1, <1>2, <1>3, <1>4, <1>5, <1>6, <1>7 DEF Next, MasterStep, WorkerStep, FaultStep

LEMMA BackedStep ==
  ASSUME IInv, Backed, [Next]_vars
  PROVE  Backed'
<1> USE DEF Mining
<1>1. CASE StartRun
  BY <1>1 DEF StartRun, Backed, RunRows, IInv, Undecided, TypeOK, MasterTypeOK, DiskTypeOK, Row
<1>2. CASE HardStopCleanup
  <2>1. \A r \in RunRows : r.sample \notin InFlight
    BY DEF RunRows, InFlight, IInv, Undecided, Open
  <2> QED
    BY <1>2, <2>1 DEF HardStopCleanup, Backed, RunRows
<1>3. CASE RecordAttempt
  BY <1>3 DEF RecordAttempt, Backed, RunRows
<1>4. ASSUME NEW r \in results, TakeResult(r)
      PROVE  Backed'
  BY <1>4 DEF TakeResult, Backed, RunRows
<1>5. ASSUME NEW w \in Workers, NEW st \in Status, Report(w, st)
      PROVE  Backed'
  BY <1>5 DEF Report, Backed, RunRows
<1>6. CASE /\ UNCHANGED <<run, rows, results>> /\ files \subseteq files'
           /\ pc' \in Mining => pc \in Mining
           /\ pc' = "record" => pc = "record" /\ cur' = cur
  BY <1>6 DEF Backed, RunRows
<1> QED
  BY <1>1, <1>2, <1>3, <1>4, <1>5, <1>6, BackedSteps

\* A hard stop only deletes what is still running: the artefacts of a recorded
\* attempt survive it, and every later step of the run (multi.py:376-409).
THEOREM ArtifactsKept == Spec => []RecordedArtifactsKept
<1>1. Init => Backed
  BY DEF Init, Backed, RunRows, Mining
<1>2. IInv /\ Backed /\ [Next]_vars => Backed'
  BY BackedStep
<1>3. Backed => RecordedArtifactsKept
  BY DEF Backed, RecordedArtifactsKept
<1> QED
  BY <1>1, <1>2, <1>3, Invariance, PTL DEF Spec

-----------------------------------------------------------------------------
(* The attempts table, whatever happens around it.                         *)

\* Where a run begins, hands over, records and ends; all other steps leave the
\* table, its open attempts and the run alone.
LEMMA TableSteps ==
  ASSUME [Next]_vars
  PROVE  \/ StartRun
         \/ \E w \in Workers, s \in Samples : Assign(w, s)
         \/ \E r \in results : TakeResult(r)
         \/ RecordAttempt
         \/ /\ UNCHANGED <<run, running, rows>>
            /\ pc' \in Mining => pc \in Mining /\ (pc = "record" => pc' = "record")
            /\ pc' = "record" => pc = "record" /\ cur' = cur
<1> USE DEF Mining
<1>1. CASE LoopEnds \/ ReadStopFile \/ HardStopTerminate \/ HardStopCleanup
  BY <1>1 DEF LoopEnds, ReadStopFile, HardStopTerminate, HardStopCleanup
<1>2. CASE NothingToAssign \/ AssignEnds \/ NothingRuns \/ TakeTimesOut
  BY <1>2 DEF NothingToAssign, AssignEnds, NothingRuns, TakeTimesOut
<1>3. CASE Materialize \/ PoisonQueue \/ JoinWorkers \/ Raise \/ CrashMaster
  BY <1>3 DEF Materialize, PoisonQueue, JoinWorkers, Raise, CrashMaster
<1>4. ASSUME NEW w \in Workers, WorkerStep(w) PROVE UNCHANGED <<control, loopVars, running, rows, pc>>
  BY <1>4 DEF WorkerStep, WorkerReady, TakeJob, TakePoison, WriteArtifacts, Report
<1>5. ASSUME NEW w \in Workers, WorkerInitFails(w) \/ WorkerDies(w) \/ WorkerTerminated(w)
      PROVE  UNCHANGED <<control, loopVars, running, rows, pc>>
  BY <1>5 DEF WorkerInitFails, WorkerDies, WorkerTerminated, Die
<1>6. CASE OperatorStep \/ UNCHANGED vars
  BY <1>6 DEF OperatorStep, Signal, WriteStopFile
<1> QED
  BY <1>1, <1>2, <1>3, <1>4, <1>5, <1>6 DEF Next, MasterStep, FaultStep

\* A sample in flight keeps a worker busy.
LEMMA InFlightBounded ==
  /\ IsFiniteSet(InFlight)
  /\ Cardinality(InFlight) \in Nat /\ Cardinality(InFlight) <= Cardinality(Busy)
<1> DEFINE given == [w \in Busy |-> running[w]]
<1>1. InFlight = {running[w] : w \in Busy}
  BY DEF InFlight, Busy
<1>2. given \in Surjection(Busy, InFlight)
  BY <1>1 DEF Surjection
<1> HIDE DEF given
<1>3. IsFiniteSet(InFlight) /\ Cardinality(InFlight) <= Cardinality(Busy)
  BY <1>2, BusyFinite, FS_Surjection
<1> QED
  BY <1>3, FS_CardinalityType

\* What the abstract table counts is what is counted here.
LEMMA SameSize == \A S : Table!Cardinality(S) = Cardinality(S)
  BY SMT DEF Table!Cardinality, Cardinality

\* An assignment begins an attempt within both bounds.
LEMMA AssignBegins ==
  ASSUME IInv, Ledger, NEW w \in Workers, NEW s \in Samples, Assign(w, s)
  PROVE  Table!Begin(s)
<1> USE ConstantsAssumption
<1>1. /\ pc = "assign" /\ pc' = "assign" /\ assigned < MaxAttempts
      /\ running[w] = None /\ running' = [running EXCEPT ![w] = s]
      /\ s \in todo /\ ~HasPriorStatus(s) /\ UNCHANGED <<run, rows>>
  BY DEF Assign, MayAssign, Idle, Yieldable
<1>2. running \in [Workers -> Samples \cup {None}] /\ s # None
  BY DEF IInv, TypeOK, MasterTypeOK
<1>3. Begun = InFlight /\ Begun' = InFlight'
  BY <1>1 DEF Begun
<1>4. InFlight' = InFlight \cup {s}
  BY <1>1, <1>2 DEF InFlight
<1>5. s \notin InFlight
  BY <1>1, <1>2 DEF InFlight, IInv, Undecided
<1>6. ~Table!Decided(s)
  BY <1>1 DEF Table!Decided, HasPriorStatus, IInv, Undecided
<1>7. Table!OfRun = RunRows
  BY DEF Table!OfRun, RunRows
<1>8. Table!BelowTarget
  BY <1>1, <1>7, SameSize DEF Table!BelowTarget, Ledger, Below, Accepted
<1>9. Cardinality(InFlight) + Cardinality(RunRows) < MaxAttempts
  <2>1. finished = Cardinality(RunRows) /\ assigned = finished + Cardinality(Busy)
    BY <1>1 DEF Ledger, Counting
  <2>2. assigned \in Nat /\ finished \in Nat
    BY DEF IInv, TypeOK, MasterTypeOK
  <2> QED
    BY <1>1, <2>1, <2>2, InFlightBounded, BusyFinite
<1> QED
  BY <1>1, <1>3, <1>4, <1>5, <1>6, <1>7, <1>8, <1>9, SameSize DEF Table!Begin

\* The row that is inserted is that of the attempt in the master's hand.
LEMMA RecordRecords ==
  ASSUME IInv, Ledger, RecordAttempt
  PROVE  Table!Record(cur.sample, cur.status) /\ cur.sample \in Samples /\ cur.status \in Status
<1>1. /\ pc = "record" /\ pc' \in {"materialize", "loop"} /\ UNCHANGED <<run, running>>
      /\ rows' = rows \cup {[run |-> run, sample |-> cur.sample, status |-> cur.status]}
  BY DEF RecordAttempt
<1>2. cur.sample \in Samples /\ cur.status \in Status
  BY <1>1 DEF IInv, TypeOK, MasterTypeOK, Result
<1>3. cur.sample \notin InFlight /\ InFlight' = InFlight
  BY <1>1 DEF InFlight, IInv, Undecided
<1>4. Begun = InFlight \cup {cur.sample} /\ Begun' = InFlight
  BY <1>1, <1>3 DEF Begun
<1>5. Table!BelowTarget
  BY <1>1, SameSize DEF Table!BelowTarget, Table!OfRun, Ledger, Below, Accepted, RunRows
<1> QED
  BY <1>1, <1>2, <1>3, <1>4, <1>5 DEF Table!Record

\* A result changes hands: its attempt is still without a row.
LEMMA TakeKeeps ==
  ASSUME IInv, NEW r \in results, TakeResult(r)
  PROVE  UNCHANGED Table!vars
<1>1. /\ pc = "wait" /\ pc' = "record" /\ cur' = r /\ UNCHANGED <<run, rows>>
      /\ running' = [running EXCEPT ![r.w] = None]
  BY DEF TakeResult
<1>2. /\ running \in [Workers -> Samples \cup {None}] /\ r.w \in Workers
      /\ running[r.w] = r.sample /\ r.sample # None
  BY ConstantsAssumption DEF IInv, TypeOK, MasterTypeOK, WorkerTypeOK, Result, HandOver
<1>3. InFlight = InFlight' \cup {r.sample}
  BY <1>1, <1>2 DEF InFlight
<1>4. Begun' = Begun
  BY <1>1, <1>3 DEF Begun
<1> QED
  BY <1>1, <1>4 DEF Table!vars

LEMMA TableStep ==
  ASSUME IInv, Ledger, [Next]_vars
  PROVE  [Table!Next]_Table!vars
<1>1. CASE StartRun
  <2>1. Begun' = {}
    BY <1>1 DEF StartRun, Begun, InFlight
  <2> QED
    BY <1>1, <2>1 DEF StartRun, Table!Next, Table!StartRun
<1>2. ASSUME NEW w \in Workers, NEW s \in Samples, Assign(w, s)
      PROVE  [Table!Next]_Table!vars
  BY <1>2, AssignBegins DEF Table!Next
<1>3. ASSUME NEW r \in results, TakeResult(r)
      PROVE  [Table!Next]_Table!vars
  BY <1>3, TakeKeeps
<1>4. CASE RecordAttempt
  BY <1>4, RecordRecords DEF Table!Next
<1>5. CASE /\ UNCHANGED <<run, running, rows>>
           /\ pc' \in Mining => pc \in Mining /\ (pc = "record" => pc' = "record")
           /\ pc' = "record" => pc = "record" /\ cur' = cur
  <2>1. InFlight' = InFlight
    BY <1>5 DEF InFlight
  <2>2. Begun' \subseteq Begun
    BY <1>5, <2>1 DEF Begun
  <2>3. CASE pc \in Mining /\ pc' \notin Mining
    BY <1>5, <2>2, <2>3 DEF Table!Next, Table!EndRun, Mining
  <2>4. CASE ~(pc \in Mining /\ pc' \notin Mining)
    <3>1. (pc \in Mining) = (pc' \in Mining) /\ Begun' = Begun
      BY <1>5, <2>1, <2>4 DEF Begun, Mining
    <3> QED
      BY <1>5, <3>1 DEF Table!vars, Mining
  <2> QED
    BY <2>3, <2>4
<1> QED
  BY <1>1, <1>2, <1>3, <1>4, <1>5, TableSteps

\* For every number of workers, samples, runs and faults, master and workers
\* act on the attempts table as one process that mines the samples in turn
\* (multi.py:207-272, 330-374).
THEOREM TableImplemented == Spec => ImplementsAttemptsTable
<1>1. Init => Table!Init
  BY DEF Init, Table!Init, Begun, InFlight
<1>2. IInv /\ Ledger /\ [Next]_vars => [Table!Next]_Table!vars
  BY TableStep
<1> QED
  BY <1>1, <1>2, LedgerInvariance, PTL DEF Spec, ImplementsAttemptsTable, Table!Spec
=============================================================================
