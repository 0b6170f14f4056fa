----------------------------- MODULE AgentTasks -----------------------------
(***************************************************************************)
(* What the operations of agent_control.py do while they hold their locks: *)
(* task_start, task_integrate, runtime_sync, and the builds of             *)
(* bootstrap_sr.py, over one repository shared by the canonical checkout   *)
(* and the task worktrees.                                                 *)
(*                                                                         *)
(* A commit is known by its history: the set of the changes it contains.   *)
(* An ancestor is a subset, and a fast-forward goes to a superset.  Agents *)
(* commit and merge in their worktrees, and other machines push to origin, *)
(* without any lock.  External: git.  Left out: --task-id, and people who  *)
(* change the canonical checkout or fetch while an operation runs.         *)
(***************************************************************************)
EXTENDS AgentLock

CONSTANTS
  Kind,    \* process -> its operation
  MaxTasks \* allocate_task_id counts to this (999 in the code)

Kinds == {"start", "integrate", "sync", "build"}
Tasks == 1 .. MaxTasks
Elsewhere == 0             \* the change that another machine pushes
Changes == Tasks \cup {Elsewhere}

\* The locks of each operation, by rank: git-metadata 10, task-start 20,
\* integration 30, runtime-sync 40, canonical-runtime 50, build 60.
MutLocks(kind) ==   \* deliberately wrong: a start takes its own lock only
  CASE kind = "start" -> {20}
    [] kind = "integrate" -> {10, 30, 40, 50}
    [] kind = "sync" -> {10, 40, 50}
    [] kind = "build" -> {50, 60}

MutSyncLocks(kind) ==   \* deliberately wrong: a sync leaves the checkout unlocked
  CASE kind = "start" -> {10, 20}
    [] kind = "integrate" -> {10, 30, 40, 50}
    [] kind = "sync" -> {10, 40}
    [] kind = "build" -> {50, 60}

Locks(kind) ==
  CASE kind = "start" -> {10, 20}
    [] kind = "integrate" -> {10, 30, 40, 50}
    [] kind = "sync" -> {10, 40, 50}
    [] kind = "build" -> {50, 60}

ASSUME TasksAssumption ==
  /\ Kind \in [Procs -> Kinds] /\ MaxTasks \in Nat \ {0}
  /\ Wanted = [p \in Procs |-> Locks(Kind[p])]

VARIABLES
  at,        \* process -> where its operation is, "done" or "failed" behind it
  task,      \* process -> the task it works on
  tip,       \* process -> the commit it has read
  origin,    \* master of origin
  tracking,  \* refs/remotes/origin/master, shared by all worktrees
  tasks,     \* the tasks that have a branch and a worktree
  branch,    \* task -> the commit its branch started from
  described, \* the tasks whose TASK.md is written
  canon,     \* HEAD of the canonical checkout
  receipt    \* head and origin_master in the last receipt of a sync

repo == <<origin, tracking, tasks, branch, described, canon, receipt>>
tasksVars == <<at, task, tip, repo>>
allVars == <<vars, tasksVars>>

\* detect_context, as far as the repository goes.
Context == [head |-> canon, originMaster |-> tracking]

Entry(kind) == IF kind = "sync" THEN "guard" ELSE kind

OperationsInit ==
  /\ at = [p \in Procs |-> Entry(Kind[p])]
  /\ task = [p \in Procs |-> 1]
  /\ tip = [p \in Procs |-> {}]
  /\ origin = {} /\ tracking = {} /\ canon = {}
  /\ tasks = {1} /\ branch = [t \in Tasks |-> {}] /\ described = {1}
  /\ receipt = Context

TasksInit == Init /\ OperationsInit

\* The body of the with statement: every lock has been acquired.
Body(p) == pc[p] = "try" /\ wants[p] = {}
At(p, l) == Body(p) /\ at[p] = l
Go(p, l) == at' = [at EXCEPT ![p] = l] /\ UNCHANGED vars
\* The operation returns or raises: either way the locks are released.
Finish(p, how) == Work(p) /\ at' = [at EXCEPT ![p] = how]

\* A git command that fails raises: the network, or a refusal of the remote.
GitFails(p) ==
  /\ \E l \in {"fetch", "base", "add", "check", "push", "refetch", "pull"} :
       At(p, l)
  /\ Finish(p, "failed")
  /\ UNCHANGED <<task, tip, repo>>

-----------------------------------------------------------------------------
\* task_start.
Free == Tasks \ tasks

MutAllocate(p) ==   \* deliberately wrong: the number of tasks, not a free one
  /\ At(p, "start") /\ Free # {}
  /\ task' = [task EXCEPT ![p] = Cardinality(tasks)] /\ Go(p, "fetch")
  /\ UNCHANGED <<tip, repo>>

Allocate(p) ==
  /\ At(p, "start")
  /\ \/ Free = {} /\ Finish(p, "failed") /\ UNCHANGED task
     \/ \E t \in Free :
          /\ \A u \in Free : t <= u
          /\ task' = [task EXCEPT ![p] = t] /\ Go(p, "fetch")
  /\ UNCHANGED <<tip, repo>>

Fetch(p) ==
  /\ \/ At(p, "fetch") /\ Go(p, IF Kind[p] = "start" THEN "base" ELSE "target")
     \/ At(p, "refetch") /\ Go(p, "pull")
  /\ tracking' = origin
  /\ UNCHANGED <<task, tip, origin, tasks, branch, described, canon, receipt>>

ReadBase(p) ==
  /\ At(p, "base") /\ Go(p, "add")
  /\ tip' = [tip EXCEPT ![p] = tracking]
  /\ UNCHANGED <<task, repo>>

\* git worktree add -b refuses a branch that exists.
AddWorktree(p) ==
  /\ At(p, "add")
  /\ IF task[p] \in tasks THEN Finish(p, "failed") /\ UNCHANGED <<tasks, branch>>
     ELSE /\ Go(p, "describe")
          /\ tasks' = tasks \cup {task[p]} /\ branch' = [branch EXCEPT ![task[p]] = tip[p]]
  /\ UNCHANGED <<task, tip, origin, tracking, described, canon, receipt>>

Describe(p) ==
  /\ At(p, "describe") /\ Finish(p, "done")
  /\ described' = described \cup {task[p]}
  /\ UNCHANGED <<task, tip, origin, tracking, tasks, branch, canon, receipt>>

-----------------------------------------------------------------------------
\* task_integrate.
Integrate(p, t) ==
  /\ At(p, "integrate") /\ Go(p, "fetch")
  /\ task' = [task EXCEPT ![p] = t]
  /\ UNCHANGED <<tip, repo>>

\* What its agent may have made of a branch by now: commits, and a merge of
\* the origin/master that this repository knows.
Tips(t) == {branch[t], branch[t] \cup {t}, branch[t] \cup {t} \cup tracking}

ReadTarget(p) ==
  /\ At(p, "target")
  /\ IF task[p] \in tasks
     THEN /\ Go(p, "check")
          /\ \E c \in Tips(task[p]) : tip' = [tip EXCEPT ![p] = c]
     ELSE Finish(p, "failed") /\ UNCHANGED tip
  /\ UNCHANGED <<task, repo>>

\* merge-base --is-ancestor, of the origin/master that this repository knows.
CheckAncestor(p) ==
  /\ At(p, "check")
  /\ IF tracking \subseteq tip[p] THEN Go(p, "push") ELSE Finish(p, "failed")
  /\ UNCHANGED <<task, tip, repo>>

MutPush(p) ==   \* deliberately wrong: push --force
  /\ At(p, "push") /\ Go(p, "guard")
  /\ origin' = tip[p] /\ tracking' = tip[p]
  /\ UNCHANGED <<task, tip, tasks, branch, described, canon, receipt>>

\* Without force: origin refuses what is no fast-forward of its master of now.
Push(p) ==
  /\ At(p, "push")
  /\ IF origin \subseteq tip[p] THEN Go(p, "guard") /\ origin' = tip[p] /\ tracking' = tip[p]
     ELSE Finish(p, "failed") /\ UNCHANGED <<origin, tracking>>
  /\ UNCHANGED <<task, tip, tasks, branch, described, canon, receipt>>

-----------------------------------------------------------------------------
\* Deliberately wrong: an integration that cannot sync is reported as done.
MutGuard(p) ==
  /\ At(p, "guard")
  /\ Go(p, "refetch") \/ Finish(p, "done")
  /\ UNCHANGED <<task, tip, repo>>

\* _runtime_sync_locked refuses a checkout that people have left dirty or on
\* another branch.
Guard(p) ==
  /\ At(p, "guard")
  /\ Go(p, "refetch") \/ Finish(p, "failed")
  /\ UNCHANGED <<task, tip, repo>>

MutPull(p) ==   \* deliberately wrong: pull without --ff-only, from the last fetch
  /\ At(p, "pull") /\ Go(p, "receipt")
  /\ canon' = canon \cup tracking /\ tracking' = origin
  /\ UNCHANGED <<task, tip, origin, tasks, branch, described, receipt>>

\* pull fetches once more, and merges if that is a fast-forward.
Pull(p) ==
  /\ At(p, "pull")
  /\ tracking' = origin
  /\ IF canon \subseteq origin THEN Go(p, "receipt") /\ canon' = origin
     ELSE Finish(p, "failed") /\ UNCHANGED canon
  /\ UNCHANGED <<task, tip, origin, tasks, branch, described, receipt>>

WriteReceipt(p) ==
  /\ At(p, "receipt") /\ Finish(p, "done")
  /\ receipt' = Context
  /\ UNCHANGED <<task, tip, origin, tracking, tasks, branch, described, canon>>

-----------------------------------------------------------------------------
\* A bootstrap: it builds what the canonical checkout shows.
StartBuild(p) ==
  /\ At(p, "build") /\ Go(p, "building")
  /\ tip' = [tip EXCEPT ![p] = canon]
  /\ UNCHANGED <<task, repo>>

EndBuild(p) ==
  /\ At(p, "building")
  /\ Finish(p, "done") \/ Finish(p, "failed")
  /\ UNCHANGED <<task, tip, repo>>

-----------------------------------------------------------------------------
\* What happens on other machines.
PushElsewhere ==
  /\ Elsewhere \notin origin
  /\ origin' = origin \cup {Elsewhere}
  /\ UNCHANGED <<vars, at, task, tip, tracking, tasks, branch, described, canon, receipt>>

-----------------------------------------------------------------------------
Operates(p) ==
  \/ Allocate(p) \/ Fetch(p) \/ ReadBase(p) \/ AddWorktree(p) \/ Describe(p)
  \/ \E t \in Tasks : Integrate(p, t)
  \/ ReadTarget(p) \/ CheckAncestor(p) \/ Push(p)
  \/ Guard(p) \/ Pull(p) \/ WriteReceipt(p) \/ StartBuild(p) \/ EndBuild(p)
  \/ GitFails(p)

Runs(p) ==
  \/ Operates(p)
  \/ Locking(p) /\ UNCHANGED tasksVars

Environment ==
  \/ \E p \in Procs : (Expire(p) \/ Crash(p)) /\ UNCHANGED tasksVars
  \/ PushElsewhere

TasksNext ==
  \/ \E p \in Procs : Runs(p)
  \/ Environment

TasksSpec == TasksInit /\ [][TasksNext]_allVars

\* Some live process gets on, git commands and builds end, and time passes.
\* This is enough for all of them: whoever is past its deadline polls no more,
\* so that every process has finitely many steps.
TasksFairness ==
  /\ WF_allVars(\E p \in Procs : Runs(p))
  /\ WF_allVars(\E p \in Procs : Expire(p) /\ UNCHANGED tasksVars)

TasksFairSpec == TasksSpec /\ TasksFairness

-----------------------------------------------------------------------------
Places == {"start", "fetch", "base", "add", "describe", "integrate", "target", "check",
           "push", "guard", "refetch", "pull", "receipt", "build", "building", "done",
           "failed"}

\* Every variable keeps its type, and an operation that has not acquired its
\* locks has not begun.
TasksTypeOK ==
  /\ TypeOK
  /\ at \in [Procs -> Places] /\ task \in [Procs -> Tasks]
  /\ tip \in [Procs -> SUBSET Changes]
  /\ origin \subseteq Changes /\ tracking \subseteq Changes /\ canon \subseteq Changes
  /\ tasks \subseteq Tasks /\ described \subseteq tasks
  /\ branch \in [Tasks -> SUBSET Changes]
  /\ receipt \in [head : SUBSET Changes, originMaster : SUBSET Changes]
  /\ \A p \in Procs : wants[p] # {} => at[p] = Entry(Kind[p])

\* What an operation has read under its locks still holds when it acts on it,
\* whoever else runs, as long as nobody has been robbed of a lock: the task id is free until its branch exists, the
\* ancestor check is about the origin/master that is recorded, a receipt shows
\* the commit that was pulled, and a build compiles one commit
\* (agent_control.py:336-345, 382-387, 408-414, bootstrap_sr.py:388-396).
Undisturbed ==
  Unrobbed =>
    /\ \A p \in Procs : Alive(p) =>
         /\ at[p] \in {"fetch", "base", "add"} /\ Kind[p] = "start" => task[p] \notin tasks
         /\ at[p] = "push" => tracking \subseteq tip[p]
         /\ at[p] = "building" => canon = tip[p]
    /\ receipt.head = receipt.originMaster

\* "Never force-push or rewrite implementation history": no step takes a
\* change out of origin's master, even when another machine has pushed since
\* the ancestor check (agent_control.py:385-387).
MasterKeepsHistory == [][origin \subseteq origin']_allVars

\* Every operation gets its locks or is refused, and releases what it has: in
\* the end nobody waits for anybody (agent_control.py:250-258, 286-290).
EveryoneEnds == <>(\A p \in Procs : ~Alive(p))

\* An integration that succeeds has its branch on origin's master and in the
\* canonical checkout (agent_control.py:387-389).
IntegratedIsLive ==
  \A p \in Procs :
    Kind[p] = "integrate" /\ at[p] = "done" => tip[p] \subseteq origin /\ tip[p] \subseteq canon
=============================================================================
