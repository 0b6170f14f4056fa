-------------------------- MODULE AgentTasksProofs --------------------------
(***************************************************************************)
(* Theorems about AgentTasks for any processes and any number of tasks.    *)
(* The locks of AgentTasks behave as AgentLock says, so that its theorems  *)
(* hold here too.  What an operation reads under its locks stays true as   *)
(* long as nobody was robbed of a lock; that no change gets lost does not  *)
(* depend on the locks.                                                    *)
(***************************************************************************)
EXTENDS AgentTasks, AgentLockProofs

USE DEF files, vars, tasksVars, repo, allVars
-----------------------------------------------------------------------------
\* Every step of an operation is a step of its locks, or none.
LEMMA LockStep == ASSUME [TasksNext]_allVars PROVE [Next]_vars
<1> USE DEF Go, Finish, Step, Next
<1>1. ASSUME NEW p \in Procs, Runs(p)
      PROVE  [Next]_vars
  BY <1>1 DEF Runs, Operates, Allocate, Fetch, ReadBase, AddWorktree, Describe, Integrate,
              ReadTarget, CheckAncestor, Push, Guard, Pull, WriteReceipt, StartBuild,
              EndBuild, GitFails
<1>2. ASSUME Environment
      PROVE  [Next]_vars
  BY <1>2 DEF Environment, PushElsewhere
<1> QED
  BY <1>1, <1>2 DEF TasksNext

\* Whatever holds of the locks alone holds under TasksSpec.
THEOREM LocksImplemented == TasksSpec => Spec
<1>1. TasksInit => Init
  BY DEF TasksInit
<1> QED
  BY <1>1, LockStep, PTL DEF TasksSpec, Spec

-----------------------------------------------------------------------------
\* The places of each operation, and those it reaches with its locks only.
PlacesOf(kind) ==
  CASE kind = "start" -> {"start", "fetch", "base", "add", "describe", "done", "failed"}
    [] kind = "integrate" -> {"integrate", "fetch", "target", "check", "push", "guard",
                              "refetch", "pull", "receipt", "done", "failed"}
    [] kind = "sync" -> {"guard", "refetch", "pull", "receipt", "done", "failed"}
    [] kind = "build" -> {"build", "building", "done", "failed"}

Within == {"fetch", "base", "add", "describe", "target", "check", "push", "refetch", "pull",
           "receipt", "building"}

OnItsWay ==
  \A p \in Procs : /\ at[p] \in PlacesOf(Kind[p])
                   /\ at[p] = "describe" => task[p] \in tasks

\* Who is past its entry has acquired everything ...
Inside == \A p \in Procs : Alive(p) /\ at[p] \in Within => Body(p)

\* ... and what it does not want any more it holds, until it releases.
Acquiring ==
  \A p \in Procs : pc[p] \in {"try", "write", "read", "judge", "steal"} =>
    Wanted[p] \subseteq wants[p] \cup held[p]

\* An acquisition takes the resources from wants to held.
LEMMA AcquiringStep ==
  ASSUME TypeOK, Acquiring, [Next]_vars
  PROVE  Acquiring'
<1> USE DEF TypeOK, Labels, Acquiring, Goto
<1>1. ASSUME NEW p \in Procs, NEW r \in Resources, WritePayload(p, r)
      PROVE  Acquiring'
  BY <1>1 DEF WritePayload
<1>2. ASSUME NEW p \in Procs, NEW r \in Resources, ReleaseUnlink(p, r)
      PROVE  Acquiring'
  BY <1>2 DEF ReleaseUnlink
<1>3. ASSUME NEW p \in Procs, Locking(p) \/ Work(p) \/ Expire(p) \/ Crash(p),
             UNCHANGED <<wants, held>>
      PROVE  Acquiring'
  BY <1>3 DEF Locking, Create, WritePayload, Exists, ReadPayload, Steal, ReleaseRead,
              ReleaseUnlink, JudgeStale, Sleep, Refuse, Exit, Work, Expire, Crash
<1>4. ASSUME NEW p \in Procs, Locking(p) \/ Work(p) \/ Expire(p) \/ Crash(p)
      PROVE  \/ UNCHANGED <<wants, held>>
             \/ \E r \in Resources : WritePayload(p, r) \/ ReleaseUnlink(p, r)
  BY <1>4 DEF Locking, Create, Exists, ReadPayload, Steal, ReleaseRead,
              JudgeStale, Sleep, Refuse, Exit, Work, Expire, Crash
<1>5. CASE UNCHANGED vars
  BY <1>5
<1> QED
  BY <1>1, <1>2, <1>3, <1>4, <1>5 DEF Next, Step


LocksOnly == UNCHANGED vars \/ \E p \in Procs : Locking(p) \/ Expire(p) \/ Crash(p)

\* A step of TasksNext is one of an operation, of the locks, or of another
\* machine.
LEMMA Steps ==
  ASSUME [TasksNext]_allVars
  PROVE  \/ \E p \in Procs : Operates(p)
         \/ LocksOnly /\ UNCHANGED tasksVars
         \/ PushElsewhere
BY DEF TasksNext, Runs, Environment, LocksOnly

\* An operation that goes on keeps its locks; it moves nobody but itself.
LEMMA OperatesFrame ==
  ASSUME TasksTypeOK, NEW p \in Procs, Operates(p)
  PROVE  /\ Body(p)
         /\ \A q \in Procs \ {p} : /\ at'[q] = at[q] /\ pc'[q] = pc[q]
                                   /\ task'[q] = task[q] /\ tip'[q] = tip[q]
         /\ UNCHANGED <<wants, held>>
         /\ \/ pc'[p] = "try"
            \/ pc'[p] = "release" /\ at'[p] \in {"done", "failed"}
<1> USE DEF At, Body, Go, Finish, Work, Goto, TypeOK, TasksTypeOK
<1>1. CASE Allocate(p)
  BY <1>1 DEF Allocate
<1>2. CASE Fetch(p)
  BY <1>2 DEF Fetch
<1>3. CASE ReadBase(p)
  BY <1>3 DEF ReadBase
<1>4. CASE AddWorktree(p)
  BY <1>4 DEF AddWorktree
<1>5. CASE Describe(p)
  BY <1>5 DEF Describe
<1>6. CASE \E t \in Tasks : Integrate(p, t)
  BY <1>6 DEF Integrate
<1>7. CASE ReadTarget(p)
  BY <1>7 DEF ReadTarget
<1>8. CASE CheckAncestor(p)
  BY <1>8 DEF CheckAncestor
<1>9. CASE Push(p)
  BY <1>9 DEF Push
<1>10. CASE Guard(p)
  BY <1>10 DEF Guard
<1>11. CASE Pull(p)
  BY <1>11 DEF Pull
<1>12. CASE WriteReceipt(p)
  BY <1>12 DEF WriteReceipt
<1>13. CASE StartBuild(p)
  BY <1>13 DEF StartBuild
<1>14. CASE EndBuild(p)
  BY <1>14 DEF EndBuild
<1>15. CASE GitFails(p)
  BY <1>15 DEF GitFails
<1> QED
  BY <1>1, <1>2, <1>3, <1>4, <1>5, <1>6, <1>7, <1>8, <1>9, <1>10, <1>11, <1>12,
     <1>13, <1>14, <1>15 DEF Operates

\* Every step keeps the types, and nobody leaves the places of its operation.
LEMMA TasksTypeStep ==
  ASSUME TasksTypeOK, OnItsWay, [TasksNext]_allVars
  PROVE  TasksTypeOK' /\ OnItsWay'
<1>1. TypeOK' /\ [Next]_vars
  <2>1. [Next]_vars
    BY LockStep
  <2> QED
    BY <2>1, TypeStep DEF TasksTypeOK
<1>2. ASSUME NEW p \in Procs, Operates(p)
      PROVE  TasksTypeOK' /\ OnItsWay'
  <2>0. UNCHANGED wants
    BY <1>2, OperatesFrame
  <2> USE TasksAssumption, <1>1, <2>0
      DEF At, Body, Go, Finish, TasksTypeOK, OnItsWay, PlacesOf, Places, Kinds, Changes, Entry
  <2>1. CASE Allocate(p)
    BY <2>1 DEF Allocate, Free
  <2>2. CASE Fetch(p)
    BY <2>2 DEF Fetch
  <2>3. CASE ReadBase(p)
    BY <2>3 DEF ReadBase
  <2>4. CASE AddWorktree(p)
    BY <2>4 DEF AddWorktree
  <2>5. CASE Describe(p)
    BY <2>5 DEF Describe
  <2>6. CASE \E t \in Tasks : Integrate(p, t)
    BY <2>6 DEF Integrate
  <2>7. CASE ReadTarget(p)
    BY <2>7 DEF ReadTarget, Tips
  <2>8. CASE CheckAncestor(p)
    BY <2>8 DEF CheckAncestor
  <2>9. CASE Push(p)
    BY <2>9 DEF Push
  <2>10. CASE Guard(p)
    BY <2>10 DEF Guard
  <2>11. CASE Pull(p)
    BY <2>11 DEF Pull
  <2>12. CASE WriteReceipt(p)
    BY <2>12 DEF WriteReceipt, Context
  <2>13. CASE StartBuild(p)
    BY <2>13 DEF StartBuild
  <2>14. CASE EndBuild(p)
    BY <2>14 DEF EndBuild
  <2>15. CASE GitFails(p)
    BY <2>15 DEF GitFails
  <2> QED
    BY <1>2, <2>1, <2>2, <2>3, <2>4, <2>5, <2>6, <2>7, <2>8, <2>9, <2>10, <2>11,
       <2>12, <2>13, <2>14, <2>15 DEF Operates
<1>3. ASSUME LocksOnly, UNCHANGED tasksVars
      PROVE  TasksTypeOK' /\ OnItsWay'
  <2>1. \A p \in Procs : wants'[p] # {} => wants[p] # {}
    BY <1>3 DEF LocksOnly, Locking, Create, WritePayload, Exists, ReadPayload, Steal,
                ReleaseRead, ReleaseUnlink, JudgeStale, Sleep, Refuse, Exit, Expire,
                Crash, TypeOK, TasksTypeOK
  <2> QED
    BY <1>1, <1>3, <2>1 DEF TasksTypeOK, OnItsWay
<1>4. CASE PushElsewhere
  BY <1>1, <1>4 DEF PushElsewhere, TasksTypeOK, OnItsWay, Changes
<1> QED
  BY <1>2, <1>3, <1>4, Steps

LEMMA OnItsWayAlways == TasksSpec => [](TasksTypeOK /\ OnItsWay)
<1>1. TasksInit => TasksTypeOK /\ OnItsWay
  BY TasksAssumption, LockAssumption
  DEF TasksInit, OperationsInit, Init, TasksTypeOK, OnItsWay, TypeOK, Labels, Places, PlacesOf, Kinds, Entry,
      Tasks, Context
<1> QED
  BY <1>1, TasksTypeStep, PTL DEF TasksSpec

\* Every variable of the operations keeps its type, and an operation that has
\* not acquired its locks has not begun, whatever the operations are.
THEOREM TasksTypeCorrect == TasksSpec => []TasksTypeOK
BY OnItsWayAlways, PTL

-----------------------------------------------------------------------------
\* A process that is past its entry neither loses its locks nor works without.
LEMMA InsideStep ==
  ASSUME TasksTypeOK, Inside, [TasksNext]_allVars
  PROVE  Inside'
<1> USE DEF TasksTypeOK, TypeOK, Labels, Inside, Body, Alive
<1>1. ASSUME NEW p \in Procs, Operates(p)
      PROVE  Inside'
  BY <1>1, OperatesFrame DEF Within
<1>2. ASSUME LocksOnly, UNCHANGED tasksVars
      PROVE  Inside'
  <2>1. ASSUME NEW p \in Procs, Body(p)
        PROVE  Body(p)' \/ ~Alive(p)'
    BY <1>2, <2>1 DEF LocksOnly, Locking, Create, WritePayload, Exists, ReadPayload, Steal,
                ReleaseRead, ReleaseUnlink, JudgeStale, Sleep, Refuse, Exit, Expire,
                Crash, Goto, IsNext
  <2>2. \A p \in Procs : Alive(p)' => Alive(p)
    BY <1>2 DEF LocksOnly, Locking, Create, WritePayload, Exists, ReadPayload, Steal,
                ReleaseRead, ReleaseUnlink, JudgeStale, Sleep, Refuse, Exit, Expire,
                Crash, Goto
  <2> QED
    BY <1>2, <2>1, <2>2
<1> QED
  BY <1>1, <1>2, Steps DEF PushElsewhere

\* An operation that is past its entry holds all its locks.
Covered ==
  \A p \in Procs : Alive(p) /\ at[p] \in Within => Body(p) /\ Locks(Kind[p]) \subseteq held[p]

LEMMA CoveredAlways == TasksSpec => []Covered
<1>1. TasksInit => Inside /\ Acquiring
  BY TasksAssumption, LockAssumption
  DEF TasksInit, OperationsInit, Init, Inside, Acquiring, Entry, Within, Kinds
<1>2. TasksTypeOK /\ Inside /\ Acquiring /\ [TasksNext]_allVars => Inside' /\ Acquiring'
  BY InsideStep, AcquiringStep, LockStep DEF TasksTypeOK
<1>3. TasksTypeOK /\ Inside /\ Acquiring => Covered
  BY TasksAssumption DEF TasksTypeOK, TypeOK, Inside, Acquiring, Covered, Body
<1> QED
  BY <1>1, <1>2, <1>3, TasksTypeCorrect, PTL DEF TasksSpec

\* A robbery is not undone.
LEMMA UnrobbedBefore ==
  ASSUME TypeOK, [Next]_vars, Unrobbed'
  PROVE  Unrobbed
<1> USE DEF TypeOK, Unrobbed
<1>1. ASSUME NEW p \in Procs, NEW r \in Resources, Unlink(p, r)
      PROVE  Unrobbed
  BY <1>1 DEF Unlink
<1>2. \/ robbed' = robbed
      \/ \E p \in Procs, r \in Resources : Unlink(p, r)
  BY DEF Next, Step, Locking, Create, WritePayload, Exists, ReadPayload, Steal, ReleaseRead,
         ReleaseUnlink, JudgeStale, Sleep, Refuse, Work, Exit, Expire, Crash
<1> QED
  BY <1>1, <1>2

\* Two operations that share a lock are not both past their entries.
LEMMA Alone ==
  ASSUME TasksTypeOK, Covered, MutualExclusion, Unrobbed,
         NEW p \in Procs, NEW q \in Procs, p # q,
         Alive(p), Alive(q), at[p] \in Within, at[q] \in Within
  PROVE  Locks(Kind[p]) \cap Locks(Kind[q]) = {}
BY DEF Covered, MutualExclusion, Unrobbed

-----------------------------------------------------------------------------
\* What an operation has read under its locks: Undisturbed, in parts.
TaskFree ==
  \A p \in Procs : Alive(p) /\ at[p] \in {"fetch", "base", "add"} /\ Kind[p] = "start" =>
    task[p] \notin tasks
Recorded == \A p \in Procs : Alive(p) /\ at[p] = "push" => tracking \subseteq tip[p]
OneCommit == \A p \in Procs : Alive(p) /\ at[p] = "building" => canon = tip[p]
Shown ==
  /\ receipt.head = receipt.originMaster
  /\ \A p \in Procs : Alive(p) /\ at[p] = "receipt" => canon = tracking

AsRead == TaskFree /\ Recorded /\ OneCommit /\ Shown

\* Who changes what the others may have read.
LEMMA Disturbs ==
  ASSUME TasksTypeOK, NEW p \in Procs, Operates(p)
  PROVE  /\ tasks' = tasks \/ at[p] = "add"
         /\ tracking' = tracking \/ at[p] \in {"fetch", "push", "refetch", "pull"}
         /\ canon' = canon \/ at[p] = "pull"
         /\ receipt' # receipt => at[p] = "receipt" /\ receipt' = Context
<1> USE DEF At
<1>1. CASE Allocate(p)
  BY <1>1 DEF Allocate
<1>2. CASE Fetch(p)
  BY <1>2 DEF Fetch
<1>3. CASE ReadBase(p)
  BY <1>3 DEF ReadBase
<1>4. CASE AddWorktree(p)
  BY <1>4 DEF AddWorktree
<1>5. CASE Describe(p)
  BY <1>5 DEF Describe
<1>6. CASE \E t \in Tasks : Integrate(p, t)
  BY <1>6 DEF Integrate
<1>7. CASE ReadTarget(p)
  BY <1>7 DEF ReadTarget
<1>8. CASE CheckAncestor(p)
  BY <1>8 DEF CheckAncestor
<1>9. CASE Push(p)
  BY <1>9 DEF Push
<1>10. CASE Guard(p)
  BY <1>10 DEF Guard
<1>11. CASE Pull(p)
  BY <1>11 DEF Pull
<1>12. CASE WriteReceipt(p)
  BY <1>12 DEF WriteReceipt
<1>13. CASE StartBuild(p)
  BY <1>13 DEF StartBuild
<1>14. CASE EndBuild(p)
  BY <1>14 DEF EndBuild
<1>15. CASE GitFails(p)
  BY <1>15 DEF GitFails
<1> QED
  BY <1>1, <1>2, <1>3, <1>4, <1>5, <1>6, <1>7, <1>8, <1>9, <1>10, <1>11, <1>12,
     <1>13, <1>14, <1>15 DEF Operates

\* An operation begins from what it reads itself.
LEMMA ReadsItself ==
  ASSUME TasksTypeOK, OnItsWay, AsRead, NEW p \in Procs, Operates(p), Alive(p)'
  PROVE  /\ at'[p] \in {"fetch", "base", "add"} /\ Kind[p] = "start" => task'[p] \notin tasks'
         /\ at'[p] = "push" => tracking' \subseteq tip'[p]
         /\ at'[p] = "building" => canon' = tip'[p]
         /\ at'[p] = "receipt" => canon' = tracking'
<1>0. Alive(p)
  BY OperatesFrame DEF Body, Alive
<1> USE <1>0, TasksAssumption
    DEF At, Go, Finish, AsRead, TaskFree, Recorded, OneCommit, TasksTypeOK, OnItsWay, PlacesOf,
        Kinds
<1>1. CASE Allocate(p)
  BY <1>1 DEF Allocate, Free
<1>2. CASE Fetch(p)
  BY <1>2 DEF Fetch
<1>3. CASE ReadBase(p)
  BY <1>3 DEF ReadBase
<1>4. CASE AddWorktree(p)
  BY <1>4 DEF AddWorktree
<1>5. CASE Describe(p)
  BY <1>5 DEF Describe
<1>6. CASE \E t \in Tasks : Integrate(p, t)
  BY <1>6 DEF Integrate
<1>7. CASE ReadTarget(p)
  BY <1>7 DEF ReadTarget
<1>8. CASE CheckAncestor(p)
  BY <1>8 DEF CheckAncestor
<1>9. CASE Push(p)
  BY <1>9 DEF Push
<1>10. CASE Guard(p)
  BY <1>10 DEF Guard
<1>11. CASE Pull(p)
  BY <1>11 DEF Pull
<1>12. CASE WriteReceipt(p)
  BY <1>12 DEF WriteReceipt
<1>13. CASE StartBuild(p)
  BY <1>13 DEF StartBuild
<1>14. CASE EndBuild(p)
  BY <1>14 DEF EndBuild
<1>15. CASE GitFails(p)
  BY <1>15 DEF GitFails
<1> QED
  BY <1>1, <1>2, <1>3, <1>4, <1>5, <1>6, <1>7, <1>8, <1>9, <1>10, <1>11, <1>12,
     <1>13, <1>14, <1>15 DEF Operates

\* No other step undoes what an operation has read, unless there is a robbery.
LEMMA AsReadStep ==
  ASSUME TasksTypeOK, OnItsWay, Covered, MutualExclusion, Unrobbed, AsRead, [TasksNext]_allVars
  PROVE  AsRead'
<1>1. ASSUME NEW p \in Procs, Operates(p)
      PROVE  AsRead'
  <2>0. Alive(p) /\ \A q \in Procs : Alive(q)' => Alive(q)
    BY <1>1, OperatesFrame DEF Body, Alive, TasksTypeOK, TypeOK
  <2>1. ASSUME NEW q \in Procs \ {p}, Alive(q), at[q] \in Within, at[p] \in Within
        PROVE  Locks(Kind[p]) \cap Locks(Kind[q]) = {}
    BY <2>0, <2>1, Alone
  <2>2. \A q \in Procs : at[q] \in PlacesOf(Kind[q]) /\ Kind[q] \in Kinds
    BY TasksAssumption DEF OnItsWay
  <2>3. ASSUME NEW q \in Procs \ {p}, Alive(q)
        PROVE  /\ at[q] \in {"fetch", "base", "add"} /\ Kind[q] = "start" => tasks' = tasks
               /\ at[q] = "push" => tracking' = tracking
               /\ at[q] = "building" => canon' = canon
               /\ at[q] = "receipt" => canon' = canon /\ tracking' = tracking
    BY <1>1, <2>1, <2>2, <2>3, Disturbs DEF Within, Locks, PlacesOf, Kinds
  <2>4. \A q \in Procs \ {p} : at'[q] = at[q] /\ task'[q] = task[q] /\ tip'[q] = tip[q]
    BY <1>1, OperatesFrame
  <2>5. receipt'.head = receipt'.originMaster
    BY <1>1, <2>0, Disturbs DEF AsRead, Shown, Context
  <2> QED
    BY <1>1, <2>0, <2>3, <2>4, <2>5, ReadsItself
    DEF AsRead, TaskFree, Recorded, OneCommit, Shown
<1>2. ASSUME LocksOnly, UNCHANGED tasksVars
      PROVE  AsRead'
  <2>1. \A p \in Procs : Alive(p)' => Alive(p)
    BY <1>2 DEF LocksOnly, Locking, Create, WritePayload, Exists, ReadPayload, Steal,
                ReleaseRead, ReleaseUnlink, JudgeStale, Sleep, Refuse, Exit, Expire,
                Crash, Goto, TasksTypeOK, TypeOK, Alive
  <2> QED
    BY <1>2, <2>1 DEF AsRead, TaskFree, Recorded, OneCommit, Shown
<1>3. CASE PushElsewhere
  BY <1>3 DEF PushElsewhere, AsRead, TaskFree, Recorded, OneCommit, Shown, Alive
<1> QED
  BY <1>1, <1>2, <1>3, Steps

\* However many operations run and wherever, what one of them has read under its
\* locks still holds when it acts on it, as long as nobody was robbed of a lock.
THEOREM OperationsUndisturbed == TasksSpec => []Undisturbed
<1>1. TasksInit => AsRead
  BY TasksAssumption
  DEF TasksInit, OperationsInit, AsRead, TaskFree, Recorded, OneCommit, Shown, Entry, Kinds, Context
<1>2. ASSUME TasksTypeOK, OnItsWay, Covered, MutualExclusion, Unrobbed => AsRead,
             [TasksNext]_allVars
      PROVE  (Unrobbed => AsRead)'
  BY <1>2, LockStep, UnrobbedBefore, AsReadStep DEF TasksTypeOK
<1>3. (Unrobbed => AsRead) => Undisturbed
  BY DEF AsRead, TaskFree, Recorded, OneCommit, Shown, Undisturbed
<1>4. TasksSpec => []MutualExclusion
  BY Exclusive, LocksImplemented, PTL
<1> QED
  BY <1>1, <1>2, <1>3, <1>4, OnItsWayAlways, CoveredAlways, PTL DEF TasksSpec

\* An operation leaves no lock behind, refused or not.
THEOREM OperationsRelease == TasksSpec => []NothingLeaked
BY LeavesNothing, LocksImplemented, PTL

\* Wherever they run, operations that nobody kills do not all refuse each other.
THEOREM OperationsServed == TasksSpec => []NotEveryoneRefused
BY SomebodyServed, LocksImplemented, PTL

-----------------------------------------------------------------------------
\* "Never force-push or rewrite implementation history": origin's master keeps
\* every change, whether the locks exclude or not.
THEOREM HistoryKept == TasksSpec => MasterKeepsHistory
<1>1. ASSUME TasksTypeOK, [TasksNext]_allVars
      PROVE  origin \subseteq origin'
  <2>1. ASSUME NEW p \in Procs, Operates(p)
        PROVE  origin \subseteq origin'
    BY <2>1 DEF Operates, Allocate, Fetch, ReadBase, AddWorktree, Describe, Integrate,
                ReadTarget, CheckAncestor, Push, Guard, Pull, WriteReceipt, StartBuild,
                EndBuild, GitFails
  <2> QED
    BY <1>1, <2>1, Steps DEF PushElsewhere
<1>2. TasksTypeOK /\ [TasksNext]_allVars => [origin \subseteq origin']_allVars
  BY <1>1
<1> QED
  BY <1>2, TasksTypeCorrect, PTL DEF TasksSpec, MasterKeepsHistory

\* From its push on, what an integration has read is on origin's master, and
\* from its pull on in the canonical checkout; neither loses a change.
Pushed ==
  \A p \in Procs : Kind[p] = "integrate" =>
    /\ at[p] \in {"guard", "refetch", "pull", "receipt", "done"} => tip[p] \subseteq origin
    /\ at[p] \in {"receipt", "done"} => tip[p] \subseteq canon

LEMMA PushedStep ==
  ASSUME TasksTypeOK, OnItsWay, Pushed, [TasksNext]_allVars
  PROVE  Pushed'
<1>1. ASSUME NEW p \in Procs, Operates(p)
      PROVE  Pushed'
  <2>1. origin \subseteq origin' /\ canon \subseteq canon'
    BY <1>1 DEF Operates, Allocate, Fetch, ReadBase, AddWorktree, Describe, Integrate,
                ReadTarget, CheckAncestor, Push, Guard, Pull, WriteReceipt, StartBuild,
                EndBuild, GitFails
  <2>2. ASSUME NEW q \in Procs \ {p}, Kind[q] = "integrate"
        PROVE  /\ at'[q] \in {"guard", "refetch", "pull", "receipt", "done"} =>
                    tip'[q] \subseteq origin'
               /\ at'[q] \in {"receipt", "done"} => tip'[q] \subseteq canon'
    BY <1>1, <2>1, <2>2, OperatesFrame DEF Pushed
  <2>3. ASSUME Kind[p] = "integrate"
        PROVE  /\ at'[p] \in {"guard", "refetch", "pull", "receipt", "done"} =>
                    tip'[p] \subseteq origin'
               /\ at'[p] \in {"receipt", "done"} => tip'[p] \subseteq canon'
    <3> USE <2>3 DEF At, Go, Finish, Pushed, TasksTypeOK, OnItsWay, PlacesOf
    <3>1. CASE Allocate(p)
      BY <3>1 DEF Allocate
    <3>2. CASE Fetch(p)
      BY <3>2 DEF Fetch
    <3>3. CASE ReadBase(p)
      BY <3>3 DEF ReadBase
    <3>4. CASE AddWorktree(p)
      BY <3>4 DEF AddWorktree
    <3>5. CASE Describe(p)
      BY <3>5 DEF Describe
    <3>6. CASE \E t \in Tasks : Integrate(p, t)
      BY <3>6 DEF Integrate
    <3>7. CASE ReadTarget(p)
      BY <3>7 DEF ReadTarget
    <3>8. CASE CheckAncestor(p)
      BY <3>8 DEF CheckAncestor
    <3>9. CASE Push(p)
      BY <3>9 DEF Push
    <3>10. CASE Guard(p)
      BY <3>10 DEF Guard
    <3>11. CASE Pull(p)
      BY <3>11 DEF Pull
    <3>12. CASE WriteReceipt(p)
      BY <3>12 DEF WriteReceipt
    <3>13. CASE StartBuild(p)
      BY <3>13 DEF StartBuild
    <3>14. CASE EndBuild(p)
      BY <3>14 DEF EndBuild
    <3>15. CASE GitFails(p)
      BY <3>15 DEF GitFails
    <3> QED
      BY <1>1, <3>1, <3>2, <3>3, <3>4, <3>5, <3>6, <3>7, <3>8, <3>9, <3>10, <3>11,
         <3>12, <3>13, <3>14, <3>15 DEF Operates
  <2> QED
    BY <2>2, <2>3 DEF Pushed
<1> QED
  BY <1>1, Steps DEF Pushed, PushElsewhere

\* An integration that succeeds is on origin's master and in the canonical
\* checkout, whatever other machines push and other agents do meanwhile.
THEOREM IntegrationsLive == TasksSpec => []IntegratedIsLive
<1>1. TasksInit => Pushed
  BY TasksAssumption DEF TasksInit, OperationsInit, Pushed, Entry, Kinds
<1>2. Pushed => IntegratedIsLive
  BY DEF Pushed, IntegratedIsLive
<1> QED
  BY <1>1, <1>2, PushedStep, OnItsWayAlways, PTL DEF TasksSpec
=============================================================================
