----------------------------- MODULE AgentLock -----------------------------
(***************************************************************************)
(* The advisory locks of agent_control.py, one file per resource under     *)
(* <git-common-dir>/putpocket-locks, at the grain of its system calls:     *)
(* acquire_agent_locks, acquire_agent_lock, _lock_payload_stale and        *)
(* AgentLockHandle.release.                                                *)
(*                                                                         *)
(* A process is one run of putpocket-agent or of a bootstrap: it takes the *)
(* locks of its operation in rank order, works, releases them in reverse   *)
(* and exits.  Any process may be killed between two steps.  Left out: a   *)
(* process id that is used again, which only makes a stale lock look held. *)
(***************************************************************************)
EXTENDS Integers, FiniteSets

CONSTANTS
  Procs,
  Resources,   \* by their rank in LOCK_RESOURCE_ORDER
  Wanted,      \* process -> the resources of its operation
  Host,        \* process -> the host it runs on
  MaxRunning,  \* bound: processes that are started
  MaxCrashes,  \* bound: processes killed
  NoOne

ASSUME LockAssumption ==
  /\ Resources \subseteq Nat /\ IsFiniteSet(Resources) /\ IsFiniteSet(Procs)
  /\ MaxCrashes \in Nat /\ MaxRunning \in Nat
  /\ Wanted \in [Procs -> SUBSET Resources]
  /\ NoOne \notin Procs

VARIABLES
  pc,       \* process -> where it is
  wants,    \* process -> the resources it has still to acquire
  held,     \* process -> the resources whose handles it has
  owner,    \* resource -> who created its lock file, NoOne without a file
  full,     \* resource -> its lock file has its payload
  seen,     \* process -> whose payload it has read, until it has judged it
  expired,  \* the processes whose deadline has passed
  refused,  \* the processes that gave up and recorded a pending request
  crashes,
  robbed    \* auxiliary, read by no action: process -> the resources whose file
            \* was its own when an unlink removed it in the place of another

files == <<owner, full>>
vars == <<pc, wants, held, files, seen, expired, refused, crashes, robbed>>

Alive(p) == pc[p] \notin {"exited", "crashed"}

\* sorted(..., key = rank): the next resource is the lowest one wanted.  The
\* finally clause releases the last one acquired first.
MutIsNext(p, r) == r \in wants[p]   \* deliberately wrong: not sorted

IsNext(p, r) == r \in wants[p] /\ \A s \in wants[p] : r <= s
IsLast(p, r) == r \in held[p] /\ \A s \in held[p] : s <= r

\* What _read_json_file returns: the payload's owner, or nobody for a file
\* that is missing or not written yet.
Payload(r) == IF full[r] THEN owner[r] ELSE NoOne

\* _lock_payload_stale: same host, and no process has the recorded pid.
MutStaleAlive(p, q) == q # NoOne  \* deliberately wrong: every written lock is

Stale(p, q) == q # NoOne /\ Host[q] = Host[p] /\ ~Alive(q)

Goto(p, l) == pc' = [pc EXCEPT ![p] = l]

\* The processes that are not started count as exited.
Init ==
  /\ \E started \in SUBSET Procs :
       /\ started # {} /\ Cardinality(started) <= MaxRunning
       /\ pc = [p \in Procs |-> IF p \in started THEN "try" ELSE "exited"]
  /\ wants = Wanted /\ held = [p \in Procs |-> {}]
  /\ owner = [r \in Resources |-> NoOne] /\ full = [r \in Resources |-> FALSE]
  /\ seen = [p \in Procs |-> NoOne]
  /\ expired = {} /\ refused = {} /\ crashes = 0
  /\ robbed = [p \in Procs |-> {}]

\* unlink removes whatever file has the name now, whichever was read before.
Unlink(p, r) ==
  /\ owner' = [owner EXCEPT ![r] = NoOne]
  /\ full' = [full EXCEPT ![r] = FALSE]
  /\ robbed' = IF owner[r] \in {NoOne, seen[p]} THEN robbed
               ELSE [robbed EXCEPT ![owner[r]] = @ \cup {r}]

-----------------------------------------------------------------------------
\* os.open(O_CREAT | O_EXCL) succeeds ...
Create(p, r) ==
  /\ pc[p] = "try" /\ IsNext(p, r) /\ owner[r] = NoOne
  /\ owner' = [owner EXCEPT ![r] = p]
  /\ Goto(p, "write")
  /\ UNCHANGED <<wants, held, full, seen, expired, refused, crashes, robbed>>

\* Deliberately wrong: the resource is asked for again.
MutWritePayload(p, r) ==
  /\ pc[p] = "write" /\ IsNext(p, r)
  /\ full' = [full EXCEPT ![r] = @ \/ owner[r] = p]
  /\ held' = [held EXCEPT ![p] = @ \cup {r}]
  /\ Goto(p, "try")
  /\ UNCHANGED <<wants, owner, seen, expired, refused, crashes, robbed>>

\* ... and the payload is written through the descriptor, to a file that may
\* have been unlinked meanwhile.
WritePayload(p, r) ==
  /\ pc[p] = "write" /\ IsNext(p, r)
  /\ full' = [full EXCEPT ![r] = @ \/ owner[r] = p]
  /\ wants' = [wants EXCEPT ![p] = @ \ {r}]
  /\ held' = [held EXCEPT ![p] = @ \cup {r}]
  /\ Goto(p, "try")
  /\ UNCHANGED <<owner, seen, expired, refused, crashes, robbed>>

Exists(p, r) ==
  /\ pc[p] = "try" /\ IsNext(p, r) /\ owner[r] # NoOne
  /\ Goto(p, "read")
  /\ UNCHANGED <<wants, held, files, seen, expired, refused, crashes, robbed>>

ReadPayload(p, r) ==
  /\ pc[p] = "read" /\ IsNext(p, r)
  /\ seen' = [seen EXCEPT ![p] = Payload(r)]
  /\ Goto(p, "judge")
  /\ UNCHANGED <<wants, held, files, expired, refused, crashes, robbed>>

JudgeStale(p) ==
  /\ pc[p] = "judge" /\ Stale(p, seen[p])
  /\ Goto(p, "steal")
  /\ UNCHANGED <<wants, held, files, seen, expired, refused, crashes, robbed>>

\* lock_path.unlink(missing_ok=True).
Steal(p, r) ==
  /\ pc[p] = "steal" /\ IsNext(p, r) /\ Unlink(p, r)
  /\ seen' = [seen EXCEPT ![p] = NoOne]
  /\ Goto(p, "try")
  /\ UNCHANGED <<wants, held, expired, refused, crashes>>

\* Deliberately wrong: the deadline does not end the polling.
MutSleep(p) ==
  /\ pc[p] = "judge" /\ ~Stale(p, seen[p])
  /\ Goto(p, "try")
  /\ seen' = [seen EXCEPT ![p] = NoOne]
  /\ UNCHANGED <<wants, held, files, expired, refused, crashes, robbed>>

Sleep(p) ==
  /\ pc[p] = "judge" /\ ~Stale(p, seen[p]) /\ p \notin expired
  /\ Goto(p, "try")
  /\ seen' = [seen EXCEPT ![p] = NoOne]
  /\ UNCHANGED <<wants, held, files, expired, refused, crashes, robbed>>

\* Deliberately wrong: the process exits without its finally clause.
MutRefuse(p) ==
  /\ pc[p] = "judge" /\ ~Stale(p, seen[p]) /\ p \in expired
  /\ refused' = refused \cup {p}
  /\ Goto(p, "exited")
  /\ UNCHANGED <<wants, held, files, seen, expired, crashes, robbed>>

\* Past the deadline: a pending request is written, and SystemExit unwinds.
Refuse(p) ==
  /\ pc[p] = "judge" /\ ~Stale(p, seen[p]) /\ p \in expired
  /\ refused' = refused \cup {p}
  /\ Goto(p, "release")
  /\ UNCHANGED <<wants, held, files, seen, expired, crashes, robbed>>

\* All locks are held: the operation runs.
Work(p) ==
  /\ pc[p] = "try" /\ wants[p] = {}
  /\ Goto(p, "release")
  /\ UNCHANGED <<wants, held, files, seen, expired, refused, crashes, robbed>>

\* release reads the payload ...
ReleaseRead(p, r) ==
  /\ pc[p] = "release" /\ IsLast(p, r)
  /\ seen' = [seen EXCEPT ![p] = Payload(r)]
  /\ Goto(p, "unlink")
  /\ UNCHANGED <<wants, held, files, expired, refused, crashes, robbed>>

\* ... and unlinks the file when the token it read is its own.
ReleaseUnlink(p, r) ==
  /\ pc[p] = "unlink" /\ IsLast(p, r)
  /\ IF seen[p] = p THEN Unlink(p, r) ELSE UNCHANGED <<files, robbed>>
  /\ held' = [held EXCEPT ![p] = @ \ {r}]
  /\ seen' = [seen EXCEPT ![p] = NoOne]
  /\ Goto(p, "release")
  /\ UNCHANGED <<wants, expired, refused, crashes>>

Exit(p) ==
  /\ pc[p] = "release" /\ held[p] = {}
  /\ Goto(p, "exited")
  /\ UNCHANGED <<wants, held, files, seen, expired, refused, crashes, robbed>>

\* time.monotonic() reaches the deadline of an acquisition.
Expire(p) ==
  /\ pc[p] \in {"try", "read", "judge"} /\ wants[p] # {} /\ p \notin expired
  /\ expired' = expired \cup {p}
  /\ UNCHANGED <<pc, wants, held, files, seen, refused, crashes, robbed>>

Crash(p) ==
  /\ Alive(p) /\ crashes < MaxCrashes
  /\ crashes' = crashes + 1
  /\ seen' = [seen EXCEPT ![p] = NoOne]
  /\ Goto(p, "crashed")
  /\ UNCHANGED <<wants, held, files, expired, refused, robbed>>

-----------------------------------------------------------------------------
Locking(p) ==
  \/ \E r \in Resources :
       \/ Create(p, r) \/ WritePayload(p, r) \/ Exists(p, r) \/ ReadPayload(p, r)
       \/ Steal(p, r) \/ ReleaseRead(p, r) \/ ReleaseUnlink(p, r)
  \/ JudgeStale(p) \/ Sleep(p) \/ Refuse(p) \/ Exit(p)

Step(p) == Locking(p) \/ Work(p)

Next == \E p \in Procs : Step(p) \/ Expire(p) \/ Crash(p)

Spec == Init /\ [][Next]_vars

-----------------------------------------------------------------------------
Labels == {"try", "write", "read", "judge", "steal", "release", "unlink",
           "exited", "crashed"}

\* Every variable keeps its type, and no resource is both wanted and held.
TypeOK ==
  /\ pc \in [Procs -> Labels]
  /\ wants \in [Procs -> SUBSET Resources] /\ held \in [Procs -> SUBSET Resources]
  /\ \A p \in Procs : wants[p] \cap held[p] = {}
  /\ owner \in [Resources -> Procs \cup {NoOne}]
  /\ full \in [Resources -> BOOLEAN]
  /\ seen \in [Procs -> Procs \cup {NoOne}]
  /\ expired \subseteq Procs /\ refused \subseteq Procs
  /\ crashes \in 0 .. MaxCrashes /\ robbed \in [Procs -> SUBSET Resources]

\* Two live processes have the handle of the same resource only if the file of
\* one of them was removed in the place of another that had been read: that an
\* unlink does not say which file it means is the one thing that breaks the
\* exclusion, among any number of contenders, kills and hand-overs
\* (agent_control.py:213-222, 243-294).
MutualExclusion ==
  \A p, q \in Procs : p # q /\ Alive(p) /\ Alive(q) =>
    held[p] \cap held[q] \subseteq robbed[p] \cup robbed[q]

\* Nobody has lost a lock to an unlink that meant another's file.
Unrobbed == \A p \in Procs : robbed[p] = {}

\* Ordered acquisition: when everybody has exited without a crash, somebody has
\* had all its locks; they did not refuse each other (agent_control.py:250).
NotEveryoneRefused ==
  (\A p \in Procs : pc[p] = "exited") => \E p \in Procs : wants[p] = {}

\* Whatever the outcome, a process that exits leaves no lock behind
\* (agent_control.py:256-258).
NothingLeaked ==
  \A r \in Resources : owner[r] # NoOne => pc[owner[r]] # "exited"

\* "Same-host stale locks are automatically removed only when their recorded
\* PID no longer exists": a lock file that disappears was released by its
\* owner, or its owner is gone (agent_control.py:282-285).
OnlyStaleRemoved ==
  [][\A r \in Resources :
       owner[r] # NoOne /\ owner'[r] = NoOne =>
         pc[owner[r]] = "unlink" \/ ~Alive(owner[r])]_vars
=============================================================================
