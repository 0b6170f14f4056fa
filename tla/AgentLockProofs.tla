-------------------------- MODULE AgentLockProofs --------------------------
(***************************************************************************)
(* Theorems about AgentLock for any processes on any hosts, any resources  *)
(* and operations, and any number of kills.  The variable robbed records   *)
(* the one race by which a live process loses its lock                     *)
(* (MCAgentLock_stale.cfg), and the proofs show that there is no other.    *)
(***************************************************************************)
EXTENDS AgentLock, FiniteSetTheorems, TLAPS

\* What a process holds ranks below what it still wants.
Ordered == \A p \in Procs : \A r \in held[p], s \in wants[p] : r < s

\* Who is about to remove a lock has read the payload of a dead process.
SeesDead ==
  \A p \in Procs : pc[p] = "steal" => seen[p] # NoOne /\ ~Alive(seen[p])

\* The files of a live process that was not robbed of them: those it has
\* handles of, and the one it is about to write.
Owns ==
  \A p \in Procs : Alive(p) =>
    /\ \A r \in held[p] : r \in robbed[p] \/ owner[r] = p
    /\ pc[p] = "write" =>
         \A r \in Resources : IsNext(p, r) => r \in robbed[p] \/ owner[r] = p

\* A lock file is that of a process that has it, or was killed; when a process
\* is about to release it, the token it has read is its own.
OwnedFile ==
  \A r \in Resources : owner[r] # NoOne =>
    LET p == owner[r] IN
      /\ \/ pc[p] = "crashed"
         \/ r \in held[p] /\ full[r]
         \/ pc[p] = "write" /\ IsNext(p, r)
      /\ pc[p] = "unlink" /\ IsLast(p, r) => seen[p] = p

\* A process about to exit has nothing left to release.
ExitsEmpty == \A p \in Procs : pc[p] = "exited" => held[p] = {}

\* A process has had a lock, or will have it once its payload is written.
Took(p, r) == r \in Wanted[p] \ wants[p] \/ (pc[p] = "write" /\ IsNext(p, r))

\* The next lock of a process has been another's.
Outrun(p) == \E r \in Resources, q \in Procs : IsNext(p, r) /\ Took(q, r)

\* What a process has had ranks below what it still wants.
Climbs ==
  \A p \in Procs :
    /\ wants[p] \subseteq Wanted[p]
    /\ \A r \in Wanted[p] \ wants[p], s \in wants[p] : r < s

\* A process ends with all its locks or refused, if it was started; one was.
Decided ==
  /\ \A p \in Procs :
       /\ pc[p] \in {"release", "unlink"} => wants[p] = {} \/ p \in refused
       /\ pc[p] = "exited" /\ wants[p] # Wanted[p] => wants[p] = {} \/ p \in refused
       /\ p \in refused => pc[p] \in {"release", "unlink", "exited", "crashed"}
  /\ \E p \in Procs : pc[p] # "exited" \/ wants[p] = {} \/ p \in refused

\* Until a process is killed, only a lock that another has had stops one.
Contended ==
  (\A p \in Procs : pc[p] # "crashed") =>
    /\ \A r \in Resources : owner[r] # NoOne => Took(owner[r], r)
    /\ \A p \in Procs : pc[p] \in {"read", "judge"} \/ p \in refused => Outrun(p)

USE DEF files, vars
-----------------------------------------------------------------------------

\* What an unlink leaves.
LEMMA UnlinkTypes ==
  ASSUME TypeOK, NEW p \in Procs, NEW r \in Resources, Unlink(p, r)
  PROVE  /\ owner' \in [Resources -> Procs \cup {NoOne}] /\ full' \in [Resources -> BOOLEAN]
         /\ robbed' \in [Procs -> SUBSET Resources]
BY DEF TypeOK, Unlink

\* The types are kept by every step.
LEMMA TypeStep ==
  ASSUME TypeOK, [Next]_vars
  PROVE  TypeOK'
<1> USE LockAssumption DEF TypeOK, Labels
<1>1. ASSUME NEW p \in Procs, NEW r \in Resources, Create(p, r)
      PROVE  TypeOK'
  BY <1>1 DEF Create, Goto
<1>2. ASSUME NEW p \in Procs, NEW r \in Resources, WritePayload(p, r)
      PROVE  TypeOK'
  BY <1>2 DEF WritePayload, Goto, IsNext
<1>3. ASSUME NEW p \in Procs, NEW r \in Resources, Exists(p, r)
      PROVE  TypeOK'
  BY <1>3 DEF Exists, Goto
<1>4. ASSUME NEW p \in Procs, NEW r \in Resources, ReadPayload(p, r)
      PROVE  TypeOK'
  BY <1>4 DEF ReadPayload, Goto, Payload
<1>5. ASSUME NEW p \in Procs, NEW r \in Resources, Steal(p, r)
      PROVE  TypeOK'
  BY <1>5 DEF Steal, Unlink, Goto
<1>6. ASSUME NEW p \in Procs, NEW r \in Resources, ReleaseRead(p, r)
      PROVE  TypeOK'
  BY <1>6 DEF ReleaseRead, Goto, Payload
<1>7. ASSUME NEW p \in Procs, NEW r \in Resources, ReleaseUnlink(p, r)
      PROVE  TypeOK'
  <2>1. CASE seen[p] = p
    BY <1>7, <2>1, UnlinkTypes DEF ReleaseUnlink, Goto
  <2>2. CASE seen[p] # p
    BY <1>7, <2>2 DEF ReleaseUnlink, Goto
  <2> QED
    BY <2>1, <2>2
<1>8. ASSUME NEW p \in Procs, JudgeStale(p)
      PROVE  TypeOK'
  BY <1>8 DEF JudgeStale, Goto
<1>9. ASSUME NEW p \in Procs, Sleep(p)
      PROVE  TypeOK'
  BY <1>9 DEF Sleep, Goto
<1>10. ASSUME NEW p \in Procs, Refuse(p)
      PROVE  TypeOK'
  BY <1>10 DEF Refuse, Goto
<1>11. ASSUME NEW p \in Procs, Work(p)
      PROVE  TypeOK'
  BY <1>11 DEF Work, Goto
<1>12. ASSUME NEW p \in Procs, Exit(p)
      PROVE  TypeOK'
  BY <1>12 DEF Exit, Goto
<1>13. ASSUME NEW p \in Procs, Expire(p)
      PROVE  TypeOK'
  BY <1>13 DEF Expire, Goto
<1>14. ASSUME NEW p \in Procs, Crash(p)
      PROVE  TypeOK'
  BY <1>14 DEF Crash, Goto
<1>15. CASE UNCHANGED vars
  BY <1>15
<1> QED
  BY <1>1, <1>2, <1>3, <1>4, <1>5, <1>6, <1>7, <1>8, <1>9, <1>10, <1>11,
     <1>12, <1>13, <1>14, <1>15 DEF Next, Step, Locking

\* Acquiring the lowest wanted resource keeps the ranks apart.
LEMMA OrderStep ==
  ASSUME TypeOK, Ordered, [Next]_vars
  PROVE  Ordered'
<1> USE LockAssumption DEF TypeOK, Ordered
<1>1. ASSUME NEW p \in Procs, NEW r \in Resources, Create(p, r)
      PROVE  Ordered'
  BY <1>1 DEF Create, Goto
<1>2. ASSUME NEW p \in Procs, NEW r \in Resources, WritePayload(p, r)
      PROVE  Ordered'
  <2>1. /\ wants' = [wants EXCEPT ![p] = @ \ {r}] /\ held' = [held EXCEPT ![p] = @ \cup {r}]
        /\ \A s \in wants[p] : r <= s
    BY <1>2 DEF WritePayload, IsNext
  <2> QED
    BY <2>1
<1>3. ASSUME NEW p \in Procs, NEW r \in Resources, Exists(p, r)
      PROVE  Ordered'
  BY <1>3 DEF Exists, Goto
<1>4. ASSUME NEW p \in Procs, NEW r \in Resources, ReadPayload(p, r)
      PROVE  Ordered'
  BY <1>4 DEF ReadPayload, Goto
<1>5. ASSUME NEW p \in Procs, NEW r \in Resources, Steal(p, r)
      PROVE  Ordered'
  BY <1>5 DEF Steal, Goto
<1>6. ASSUME NEW p \in Procs, NEW r \in Resources, ReleaseRead(p, r)
      PROVE  Ordered'
  BY <1>6 DEF ReleaseRead, Goto
<1>7. ASSUME NEW p \in Procs, NEW r \in Resources, ReleaseUnlink(p, r)
      PROVE  Ordered'
  BY <1>7 DEF ReleaseUnlink, Goto
<1>8. ASSUME NEW p \in Procs, JudgeStale(p)
      PROVE  Ordered'
  BY <1>8 DEF JudgeStale, Goto
<1>9. ASSUME NEW p \in Procs, Sleep(p)
      PROVE  Ordered'
  BY <1>9 DEF Sleep, Goto
<1>10. ASSUME NEW p \in Procs, Refuse(p)
      PROVE  Ordered'
  BY <1>10 DEF Refuse, Goto
<1>11. ASSUME NEW p \in Procs, Work(p)
      PROVE  Ordered'
  BY <1>11 DEF Work, Goto
<1>12. ASSUME NEW p \in Procs, Exit(p)
      PROVE  Ordered'
  BY <1>12 DEF Exit, Goto
<1>13. ASSUME NEW p \in Procs, Expire(p)
      PROVE  Ordered'
  BY <1>13 DEF Expire, Goto
<1>14. ASSUME NEW p \in Procs, Crash(p)
      PROVE  Ordered'
  BY <1>14 DEF Crash, Goto
<1>15. CASE UNCHANGED vars
  BY <1>15
<1> QED
  BY <1>1, <1>2, <1>3, <1>4, <1>5, <1>6, <1>7, <1>8, <1>9, <1>10, <1>11,
     <1>12, <1>13, <1>14, <1>15 DEF Next, Step, Locking

\* The dead do not come back to life.
LEMMA SeesDeadStep ==
  ASSUME TypeOK, SeesDead, [Next]_vars
  PROVE  SeesDead'
<1> USE LockAssumption DEF TypeOK, SeesDead, Alive
<1>1. ASSUME NEW p \in Procs, NEW r \in Resources, Create(p, r)
      PROVE  SeesDead'
  BY <1>1 DEF Create, Goto
<1>2. ASSUME NEW p \in Procs, NEW r \in Resources, WritePayload(p, r)
      PROVE  SeesDead'
  BY <1>2 DEF WritePayload, Goto
<1>3. ASSUME NEW p \in Procs, NEW r \in Resources, Exists(p, r)
      PROVE  SeesDead'
  BY <1>3 DEF Exists, Goto
<1>4. ASSUME NEW p \in Procs, NEW r \in Resources, ReadPayload(p, r)
      PROVE  SeesDead'
  BY <1>4 DEF ReadPayload, Goto
<1>5. ASSUME NEW p \in Procs, NEW r \in Resources, Steal(p, r)
      PROVE  SeesDead'
  BY <1>5 DEF Steal, Goto
<1>6. ASSUME NEW p \in Procs, NEW r \in Resources, ReleaseRead(p, r)
      PROVE  SeesDead'
  BY <1>6 DEF ReleaseRead, Goto
<1>7. ASSUME NEW p \in Procs, NEW r \in Resources, ReleaseUnlink(p, r)
      PROVE  SeesDead'
  BY <1>7 DEF ReleaseUnlink, Goto
<1>8. ASSUME NEW p \in Procs, JudgeStale(p)
      PROVE  SeesDead'
  BY <1>8 DEF JudgeStale, Goto, Stale, Alive
<1>9. ASSUME NEW p \in Procs, Sleep(p)
      PROVE  SeesDead'
  BY <1>9 DEF Sleep, Goto
<1>10. ASSUME NEW p \in Procs, Refuse(p)
      PROVE  SeesDead'
  BY <1>10 DEF Refuse, Goto
<1>11. ASSUME NEW p \in Procs, Work(p)
      PROVE  SeesDead'
  BY <1>11 DEF Work, Goto
<1>12. ASSUME NEW p \in Procs, Exit(p)
      PROVE  SeesDead'
  BY <1>12 DEF Exit, Goto
<1>13. ASSUME NEW p \in Procs, Expire(p)
      PROVE  SeesDead'
  BY <1>13 DEF Expire, Goto
<1>14. ASSUME NEW p \in Procs, Crash(p)
      PROVE  SeesDead'
  BY <1>14 DEF Crash, Goto
<1>15. CASE UNCHANGED vars
  BY <1>15
<1> QED
  BY <1>1, <1>2, <1>3, <1>4, <1>5, <1>6, <1>7, <1>8, <1>9, <1>10, <1>11,
     <1>12, <1>13, <1>14, <1>15 DEF Next, Step, Locking

\* A step that takes the lock file of a live process robs it.
LEMMA OwnsStep ==
  ASSUME TypeOK, SeesDead, Owns, [Next]_vars
  PROVE  Owns'
<1> USE DEF TypeOK, Owns, Alive, IsNext
<1>1. ASSUME NEW p \in Procs, NEW r \in Resources, Create(p, r)
      PROVE  Owns'
  BY <1>1, LockAssumption DEF Create, Goto
<1>2. ASSUME NEW p \in Procs, NEW r \in Resources, WritePayload(p, r)
      PROVE  Owns'
  BY <1>2, LockAssumption DEF WritePayload, Goto
<1>3. ASSUME NEW p \in Procs, NEW r \in Resources, Exists(p, r)
      PROVE  Owns'
  BY <1>3 DEF Exists, Goto
<1>4. ASSUME NEW p \in Procs, NEW r \in Resources, ReadPayload(p, r)
      PROVE  Owns'
  BY <1>4 DEF ReadPayload, Goto
<1>5. ASSUME NEW p \in Procs, NEW r \in Resources, Steal(p, r)
      PROVE  Owns'
  BY <1>5 DEF Steal, Unlink, Goto, SeesDead
<1>6. ASSUME NEW p \in Procs, NEW r \in Resources, ReleaseRead(p, r)
      PROVE  Owns'
  BY <1>6 DEF ReleaseRead, Goto
<1>7. ASSUME NEW p \in Procs, NEW r \in Resources, ReleaseUnlink(p, r)
      PROVE  Owns'
  BY <1>7 DEF ReleaseUnlink, Unlink, Goto
<1>8. ASSUME NEW p \in Procs, JudgeStale(p)
      PROVE  Owns'
  BY <1>8 DEF JudgeStale, Goto
<1>9. ASSUME NEW p \in Procs, Sleep(p)
      PROVE  Owns'
  BY <1>9 DEF Sleep, Goto
<1>10. ASSUME NEW p \in Procs, Refuse(p)
      PROVE  Owns'
  BY <1>10 DEF Refuse, Goto
<1>11. ASSUME NEW p \in Procs, Work(p)
      PROVE  Owns'
  BY <1>11 DEF Work, Goto
<1>12. ASSUME NEW p \in Procs, Exit(p)
      PROVE  Owns'
  BY <1>12 DEF Exit, Goto
<1>13. ASSUME NEW p \in Procs, Expire(p)
      PROVE  Owns'
  BY <1>13 DEF Expire, Goto
<1>14. ASSUME NEW p \in Procs, Crash(p)
      PROVE  Owns'
  BY <1>14 DEF Crash, Goto
<1>15. CASE UNCHANGED vars
  BY <1>15
<1> QED
  BY <1>1, <1>2, <1>3, <1>4, <1>5, <1>6, <1>7, <1>8, <1>9, <1>10, <1>11,
     <1>12, <1>13, <1>14, <1>15 DEF Next, Step, Locking

\* No step leaves a lock file without its process.
LEMMA OwnedFileStep ==
  ASSUME TypeOK, OwnedFile, ExitsEmpty, [Next]_vars
  PROVE  OwnedFile'
<1> USE LockAssumption DEF TypeOK, OwnedFile, IsNext, IsLast
<1>1. ASSUME NEW p \in Procs, NEW r \in Resources, Create(p, r)
      PROVE  OwnedFile'
  BY <1>1 DEF Create, Goto
<1>2. ASSUME NEW p \in Procs, NEW r \in Resources, WritePayload(p, r)
      PROVE  OwnedFile'
  <2>1. /\ full' = [full EXCEPT ![r] = @ \/ owner[r] = p] /\ owner' = owner /\ seen' = seen
        /\ wants' = [wants EXCEPT ![p] = @ \ {r}] /\ held' = [held EXCEPT ![p] = @ \cup {r}]
        /\ pc' = [pc EXCEPT ![p] = "try"] /\ pc[p] = "write" /\ IsNext(p, r)
    BY <1>2 DEF WritePayload, Goto
  <2>2. ASSUME NEW s \in Resources, owner[s] = p
        PROVE  s \in held'[p] /\ full'[s] /\ pc'[p] = "try"
    <3>1. (s \in held[p] /\ full[s]) \/ s = r
      BY <2>1, <2>2
    <3> QED
      BY <2>1, <2>2, <3>1
  <2>3. ASSUME NEW s \in Resources, NEW q \in Procs, owner[s] = q, q # p
        PROVE  /\ full'[s] = full[s] /\ pc'[q] = pc[q] /\ seen'[q] = seen[q]
               /\ held'[q] = held[q] /\ wants'[q] = wants[q]
    BY <2>1, <2>3
  <2>4. ASSUME NEW s \in Resources, NEW q \in Procs, owner'[s] = q
        PROVE  /\ \/ pc'[q] = "crashed"
                  \/ s \in held'[q] /\ full'[s]
                  \/ pc'[q] = "write" /\ IsNext(q, s)'
               /\ pc'[q] = "unlink" /\ IsLast(q, s)' => seen'[q] = q
    <3>1. owner[s] = q /\ q # NoOne
      BY <2>1, <2>4
    <3>2. CASE q = p
      BY <2>2, <3>1, <3>2
    <3>3. CASE q # p
      <4>1. /\ \/ pc[q] = "crashed"
               \/ s \in held[q] /\ full[s]
               \/ pc[q] = "write" /\ IsNext(q, s)
            /\ pc[q] = "unlink" /\ IsLast(q, s) => seen[q] = q
        BY <3>1
      <4>2. /\ full'[s] = full[s] /\ pc'[q] = pc[q] /\ seen'[q] = seen[q]
            /\ held'[q] = held[q] /\ wants'[q] = wants[q]
        BY <2>3, <3>1, <3>3
      <4> HIDE DEF TypeOK, OwnedFile
      <4> QED
        BY <4>1, <4>2
    <3> QED
      BY <3>2, <3>3
  <2>5. \A s \in Resources : owner'[s] \in Procs \cup {NoOne}
    BY <2>1
  <2> HIDE DEF TypeOK, IsNext, IsLast
  <2> QED
    BY <2>4, <2>5
<1>3. ASSUME NEW p \in Procs, NEW r \in Resources, Exists(p, r)
      PROVE  OwnedFile'
  BY <1>3 DEF Exists, Goto
<1>4. ASSUME NEW p \in Procs, NEW r \in Resources, ReadPayload(p, r)
      PROVE  OwnedFile'
  BY <1>4 DEF ReadPayload, Goto
<1>5. ASSUME NEW p \in Procs, NEW r \in Resources, Steal(p, r)
      PROVE  OwnedFile'
  BY <1>5 DEF Steal, Unlink, Goto
<1>6. ASSUME NEW p \in Procs, NEW r \in Resources, ReleaseRead(p, r)
      PROVE  OwnedFile'
  BY <1>6 DEF ReleaseRead, Payload, Goto
<1>7. ASSUME NEW p \in Procs, NEW r \in Resources, ReleaseUnlink(p, r)
      PROVE  OwnedFile'
  BY <1>7 DEF ReleaseUnlink, Unlink, Goto
<1>8. ASSUME NEW p \in Procs, JudgeStale(p)
      PROVE  OwnedFile'
  BY <1>8 DEF JudgeStale, Goto
<1>9. ASSUME NEW p \in Procs, Sleep(p)
      PROVE  OwnedFile'
  BY <1>9 DEF Sleep, Goto
<1>10. ASSUME NEW p \in Procs, Refuse(p)
      PROVE  OwnedFile'
  BY <1>10 DEF Refuse, Goto
<1>11. ASSUME NEW p \in Procs, Work(p)
      PROVE  OwnedFile'
  BY <1>11 DEF Work, Goto
<1>12. ASSUME NEW p \in Procs, Exit(p)
      PROVE  OwnedFile'
  BY <1>12 DEF Exit, Goto
<1>13. ASSUME NEW p \in Procs, Expire(p)
      PROVE  OwnedFile'
  BY <1>13 DEF Expire, Goto
<1>14. ASSUME NEW p \in Procs, Crash(p)
      PROVE  OwnedFile'
  BY <1>14 DEF Crash, Goto
<1>15. CASE UNCHANGED vars
  BY <1>15
<1> QED
  BY <1>1, <1>2, <1>3, <1>4, <1>5, <1>6, <1>7, <1>8, <1>9, <1>10, <1>11,
     <1>12, <1>13, <1>14, <1>15 DEF Next, Step, Locking

\* A process exits once everything is released.
LEMMA ExitsStep ==
  ASSUME TypeOK, ExitsEmpty, [Next]_vars
  PROVE  ExitsEmpty'
<1> USE DEF TypeOK, ExitsEmpty
<1>1. ASSUME NEW p \in Procs, NEW r \in Resources, Create(p, r)
      PROVE  ExitsEmpty'
  BY <1>1 DEF Create, Goto
<1>2. ASSUME NEW p \in Procs, NEW r \in Resources, WritePayload(p, r)
      PROVE  ExitsEmpty'
  BY <1>2 DEF WritePayload, Goto
<1>3. ASSUME NEW p \in Procs, NEW r \in Resources, Exists(p, r)
      PROVE  ExitsEmpty'
  BY <1>3 DEF Exists, Goto
<1>4. ASSUME NEW p \in Procs, NEW r \in Resources, ReadPayload(p, r)
      PROVE  ExitsEmpty'
  BY <1>4 DEF ReadPayload, Goto
<1>5. ASSUME NEW p \in Procs, NEW r \in Resources, Steal(p, r)
      PROVE  ExitsEmpty'
  BY <1>5 DEF Steal, Goto
<1>6. ASSUME NEW p \in Procs, NEW r \in Resources, ReleaseRead(p, r)
      PROVE  ExitsEmpty'
  BY <1>6 DEF ReleaseRead, Goto
<1>7. ASSUME NEW p \in Procs, NEW r \in Resources, ReleaseUnlink(p, r)
      PROVE  ExitsEmpty'
  BY <1>7 DEF ReleaseUnlink, Goto
<1>8. ASSUME NEW p \in Procs, JudgeStale(p)
      PROVE  ExitsEmpty'
  BY <1>8 DEF JudgeStale, Goto
<1>9. ASSUME NEW p \in Procs, Sleep(p)
      PROVE  ExitsEmpty'
  BY <1>9 DEF Sleep, Goto
<1>10. ASSUME NEW p \in Procs, Refuse(p)
      PROVE  ExitsEmpty'
  BY <1>10 DEF Refuse, Goto
<1>11. ASSUME NEW p \in Procs, Work(p)
      PROVE  ExitsEmpty'
  BY <1>11 DEF Work, Goto
<1>12. ASSUME NEW p \in Procs, Exit(p)
      PROVE  ExitsEmpty'
  BY <1>12 DEF Exit, Goto
<1>13. ASSUME NEW p \in Procs, Expire(p)
      PROVE  ExitsEmpty'
  BY <1>13 DEF Expire, Goto
<1>14. ASSUME NEW p \in Procs, Crash(p)
      PROVE  ExitsEmpty'
  BY <1>14 DEF Crash, Goto
<1>15. CASE UNCHANGED vars
  BY <1>15
<1> QED
  BY <1>1, <1>2, <1>3, <1>4, <1>5, <1>6, <1>7, <1>8, <1>9, <1>10, <1>11,
     <1>12, <1>13, <1>14, <1>15 DEF Next, Step, Locking

-----------------------------------------------------------------------------
\* Every variable keeps its type, whatever the hosts and the operations.
THEOREM TypeCorrect == Spec => []TypeOK
<1>1. Init => TypeOK
  BY LockAssumption DEF Init, TypeOK, Labels
<1> QED
  BY <1>1, TypeStep, PTL DEF Spec

\* Locks are acquired upwards: a process never waits for a resource that ranks
\* below one it holds, so no set of processes waits in a circle.
THEOREM AcquiredUpwards == Spec => []Ordered
<1>1. Init => Ordered
  BY DEF Init, Ordered
<1> QED
  BY <1>1, OrderStep, TypeCorrect, PTL DEF Spec

LEMMA Invariance == Spec => [](SeesDead /\ Owns /\ OwnedFile /\ ExitsEmpty)
<1>1. Init => SeesDead /\ Owns /\ OwnedFile /\ ExitsEmpty
  BY DEF Init, SeesDead, Owns, OwnedFile, ExitsEmpty, IsNext
<1>2. /\ TypeOK /\ [Next]_vars
      /\ SeesDead /\ Owns /\ OwnedFile /\ ExitsEmpty
      => (SeesDead /\ Owns /\ OwnedFile /\ ExitsEmpty)'
  BY SeesDeadStep, OwnsStep, OwnedFileStep, ExitsStep
<1> QED
  BY <1>1, <1>2, TypeCorrect, PTL DEF Spec

\* Live processes hold the same resource only when one of them was robbed of its
\* file, however many there are, wherever they run, whoever is killed and
\* whenever (agent_control.py:213-222, 243-294).
THEOREM Exclusive == Spec => []MutualExclusion
<1>1. TypeOK /\ Owns => MutualExclusion
  BY DEF TypeOK, Owns, MutualExclusion
<1> QED
  BY <1>1, Invariance, TypeCorrect, PTL

\* A process that exits, refused or not, robbed or not, leaves no lock behind
\* (agent_control.py:218-222, 256-258).
THEOREM LeavesNothing == Spec => []NothingLeaked
<1>1. TypeOK /\ OwnedFile /\ ExitsEmpty => NothingLeaked
  BY DEF TypeOK, OwnedFile, ExitsEmpty, NothingLeaked
<1> QED
  BY <1>1, Invariance, TypeCorrect, PTL

-----------------------------------------------------------------------------
(* Somebody is served, on whatever hosts.                                  *)

\* There are finitely many ranks, so any resources have a highest one.
LEMMA Highest ==
  ASSUME NEW S \in SUBSET Resources, S # {}
  PROVE  \E r \in S : \A s \in S : s <= r
<1> DEFINE Above(r) == {s \in S : r < s}
           n == Cardinality(S)
           f == [r \in S |-> Cardinality(Above(r))]
<1>1. S \subseteq Nat /\ IsFiniteSet(S) /\ n \in Nat
  BY LockAssumption, FS_Subset, FS_CardinalityType
<1> SUFFICES ASSUME \A r \in S : \E s \in S : ~(s <= r) PROVE FALSE
  OBVIOUS
<1>2. ASSUME NEW r \in S
      PROVE  IsFiniteSet(Above(r)) /\ f[r] \in 1 .. n - 1
  <2>1. IsFiniteSet(S \ {r}) /\ Cardinality(S \ {r}) = n - 1
    BY <1>1, FS_RemoveElement
  <2>2. Above(r) \in SUBSET (S \ {r})
    BY <1>1
  <2>3. IsFiniteSet(Above(r)) /\ Cardinality(Above(r)) <= n - 1
    BY <2>1, <2>2, FS_Subset
  <2>4. Above(r) # {}
    BY <1>1
  <2>5. Cardinality(Above(r)) \in Nat /\ Cardinality(Above(r)) # 0
    BY <2>3, <2>4, FS_CardinalityType, FS_EmptySet
  <2> QED
    BY <1>1, <2>3, <2>5
<1>3. ASSUME NEW r \in S, NEW s \in S, r < s
      PROVE  f[r] # f[s]
  <2>1. Above(s) \in SUBSET Above(r) /\ s \in Above(r) /\ s \notin Above(s)
    <3>1. \A x \in S : s < x => r < x
      BY <1>1, <1>3
    <3>2. ~(s < s)
      BY <1>1
    <3> QED
      BY <1>3, <3>1, <3>2
  <2>2. Cardinality(Above(r)) # Cardinality(Above(s))
    BY <1>2, <2>1, FS_Subset
  <2> QED
    BY <2>2
<1>4. n # 0
  BY <1>1, FS_EmptySet
<1>5. IsFiniteSet(1 .. n - 1) /\ Cardinality(1 .. n - 1) < n
  <2> HIDE DEF n
  <2>1. PICK m \in Nat : m = n - 1
    BY <1>1, <1>4
  <2>2. IsFiniteSet(1 .. m) /\ Cardinality(1 .. m) = m
    BY FS_Interval
  <2> QED
    BY <1>1, <2>1, <2>2
<1>6. f \in [S -> 1 .. n - 1]
  BY <1>2
<1> HIDE DEF f, n
<1>7. PICK r \in S, s \in S : r # s /\ f[r] = f[s]
  BY <1>1, <1>5, <1>6, FS_PigeonHole DEF n
<1> QED
  BY <1>1, <1>3, <1>7

\* Only WritePayload changes what is wanted.
LEMMA WantsStep ==
  ASSUME TypeOK, [Next]_vars
  PROVE  \/ wants' = wants
         \/ \E p \in Procs, r \in Resources : WritePayload(p, r)
BY DEF Next, Step, Locking, Create, Exists, ReadPayload, Steal, ReleaseRead, ReleaseUnlink,
   JudgeStale, Sleep, Refuse, Work, Exit, Expire, Crash

LEMMA ClimbsStep ==
  ASSUME TypeOK, Climbs, [Next]_vars
  PROVE  Climbs'
<1>1. CASE wants' = wants
  BY <1>1 DEF Climbs
<1>2. ASSUME NEW p \in Procs, NEW r \in Resources, WritePayload(p, r) PROVE Climbs'
  <2>1. wants' = [wants EXCEPT ![p] = @ \ {r}] /\ IsNext(p, r)
    BY <1>2 DEF WritePayload
  <2>2. \A s \in wants[p] \ {r} : r < s
    BY <2>1, LockAssumption DEF IsNext, TypeOK
  <2> QED
    BY <2>1, <2>2 DEF Climbs, TypeOK
<1> QED
  BY <1>1, <1>2, WantsStep

\* Who has had a lock has had it, unless it is killed before the payload.
LEMMA TookStays ==
  ASSUME TypeOK, Climbs, [Next]_vars, NEW p \in Procs, NEW r \in Resources, Took(p, r),
         pc'[p] # "crashed"
  PROVE  Took(p, r)'
<1> USE DEF TypeOK
<1>1. CASE r \in Wanted[p] \ wants[p]
  BY <1>1, WantsStep DEF WritePayload, Took
<1>2. CASE pc[p] = "write" /\ IsNext(p, r)
  <2>1. ASSUME NEW q \in Procs, NEW s \in Resources, WritePayload(q, s), q = p
        PROVE  Took(p, r)'
    <3>1. s = r
      BY <1>2, <2>1, LockAssumption DEF WritePayload, IsNext
    <3> QED
      BY <1>2, <2>1, <3>1 DEF WritePayload, IsNext, Climbs, Took
  <2>2. CASE pc'[p] = "write" /\ wants'[p] = wants[p]
    BY <1>2, <2>2 DEF Took, IsNext
  <2>3. \/ pc'[p] = "write" /\ wants'[p] = wants[p]
        \/ \E q \in Procs, s \in Resources : WritePayload(q, s) /\ q = p
    BY <1>2 DEF Next, Step, Locking, Create, WritePayload, Exists, ReadPayload, Steal,
       ReleaseRead, ReleaseUnlink, JudgeStale, Sleep, Refuse, Work, Exit, Expire, Crash, Goto
  <2> QED
    BY <2>1, <2>2, <2>3
<1> QED
  BY <1>1, <1>2 DEF Took

LEMMA DecidedStep ==
  ASSUME TypeOK, Decided, [Next]_vars
  PROVE  Decided'
<1> USE DEF TypeOK, Decided, Goto
<1>1. ASSUME NEW p \in Procs, NEW r \in Resources,
             \/ Create(p, r) \/ WritePayload(p, r) \/ Exists(p, r) \/ ReadPayload(p, r)
             \/ Steal(p, r)
      PROVE  Decided'
  BY <1>1 DEF Create, WritePayload, Exists, ReadPayload, Steal
<1>2. ASSUME NEW p \in Procs, NEW r \in Resources, ReleaseRead(p, r) \/ ReleaseUnlink(p, r)
      PROVE  Decided'
  BY <1>2 DEF ReleaseRead, ReleaseUnlink
<1>3. ASSUME NEW p \in Procs, JudgeStale(p) \/ Sleep(p) \/ Work(p) PROVE Decided'
  BY <1>3 DEF JudgeStale, Sleep, Work
<1>4. ASSUME NEW p \in Procs, Refuse(p) \/ Exit(p) PROVE Decided'
  BY <1>4 DEF Refuse, Exit
<1>5. ASSUME NEW p \in Procs, Expire(p) \/ Crash(p) PROVE Decided'
  BY <1>5 DEF Expire, Crash
<1>6. CASE UNCHANGED vars
  BY <1>6
<1> QED
  BY <1>1, <1>2, <1>3, <1>4, <1>5, <1>6 DEF Next, Step, Locking

LEMMA ContendedStep ==
  ASSUME TypeOK, Climbs, Decided, Contended, [Next]_vars
  PROVE  Contended'
<1> USE DEF TypeOK
<1> SUFFICES ASSUME \A p \in Procs : pc'[p] # "crashed"
             PROVE  /\ \A r \in Resources : owner'[r] # NoOne => Took(owner[r], r)'
                    /\ \A p \in Procs : pc'[p] \in {"read", "judge"} \/ p \in refused'
                         => Outrun(p)'
  BY DEF Contended
<1>1. \A p \in Procs : pc[p] # "crashed"
  BY DEF Next, Step, Locking, Create, WritePayload, Exists, ReadPayload, Steal,
     ReleaseRead, ReleaseUnlink, JudgeStale, Sleep, Refuse, Work, Exit, Expire, Crash, Goto
<1>2. /\ \A r \in Resources : owner[r] # NoOne => Took(owner[r], r)
      /\ \A p \in Procs : pc[p] \in {"read", "judge"} \/ p \in refused => Outrun(p)
  BY <1>1 DEF Contended
<1>3. ASSUME NEW r \in Resources, owner'[r] # NoOne PROVE Took(owner[r], r)'
  <2>1. CASE owner'[r] = owner[r]
    <3>1. PICK q \in Procs : q = owner[r]
      BY <1>3, <2>1
    <3>2. Took(q, r)'
      BY <1>2, <1>3, <2>1, <3>1, TookStays
    <3> QED
      BY <2>1, <3>1, <3>2 DEF Took, IsNext
  <2>2. CASE owner'[r] # owner[r]
    <3>1. PICK q \in Procs : Create(q, r)
      BY <1>3, <2>2 DEF Next, Step, Locking, Create, WritePayload, Exists, ReadPayload,
         Steal, ReleaseRead, ReleaseUnlink, Unlink, JudgeStale, Sleep, Refuse, Work, Exit,
         Expire, Crash
    <3> QED
      BY <3>1 DEF Create, Goto, Took, IsNext
  <2> QED
    BY <2>1, <2>2
<1>4. ASSUME NEW p \in Procs, pc'[p] \in {"read", "judge"} \/ p \in refused'
      PROVE  Outrun(p)'
  <2>1. wants'[p] = wants[p]
    BY <1>4, WantsStep DEF WritePayload, Goto, Decided
  <2>2. Outrun(p)
    <3>1. CASE pc[p] \in {"read", "judge"} \/ p \in refused
      BY <1>2, <3>1
    <3>2. ASSUME NEW r \in Resources, Exists(p, r) PROVE Outrun(p)
      BY <1>2, <3>2 DEF Exists, Outrun
    <3>3. \/ pc[p] \in {"read", "judge"} \/ p \in refused
          \/ \E r \in Resources : Exists(p, r)
      BY <1>4 DEF Next, Step, Locking, Create, WritePayload, Exists, ReadPayload, Steal,
         ReleaseRead, ReleaseUnlink, JudgeStale, Sleep, Refuse, Work, Exit, Expire, Crash,
         Goto
    <3> QED
      BY <3>1, <3>2, <3>3
  <2>3. PICK r \in Resources, q \in Procs : IsNext(p, r) /\ Took(q, r)
    BY <2>2 DEF Outrun
  <2>4. IsNext(p, r)' /\ Took(q, r)'
    BY <2>1, <2>3, TookStays DEF IsNext
  <2> QED
    BY <2>4 DEF Outrun
<1> QED
  BY <1>3, <1>4

\* A started process that exits refused was outrun, and among the resources
\* that refused processes wait for there is a highest one.
LEMMA HighestServed ==
  ASSUME TypeOK, Climbs, Decided, Contended, \A p \in Procs : pc[p] = "exited"
  PROVE  \E p \in Procs : wants[p] = {}
<1> DEFINE S == {r \in Resources : \E p \in refused, q \in Procs : IsNext(p, r) /\ Took(q, r)}
<1> SUFFICES ASSUME \A p \in Procs : wants[p] # {} PROVE FALSE
  OBVIOUS
<1>1. \A p \in refused : \E r \in S : IsNext(p, r)
  BY DEF Contended, Outrun, TypeOK
<1>2. refused # {}
  BY DEF Decided
<1>3. PICK r \in S : \A s \in S : s <= r
  BY <1>1, <1>2, Highest
<1>4. PICK q \in Procs : Took(q, r)
  BY <1>3
<1>5. r \in Wanted[q] \ wants[q] /\ q \in refused
  BY <1>4 DEF Took, Decided
<1>6. PICK s \in S : IsNext(q, s)
  BY <1>1, <1>5
<1>7. r < s
  BY <1>4, <1>5, <1>6 DEF Climbs, IsNext
<1> QED
  BY <1>3, <1>6, <1>7, LockAssumption

\* Ordered acquisition serves somebody: processes that nobody kills do not all
\* refuse each other, whatever they ask for and whatever locks are taken for
\* stale (agent_control.py:250-258).
THEOREM SomebodyServed == Spec => []NotEveryoneRefused
<1>1. Init => Climbs /\ Decided /\ Contended
  <2> SUFFICES ASSUME Init PROVE Climbs /\ Decided /\ Contended
    OBVIOUS
  <2>1. Climbs
    BY DEF Init, Climbs
  <2>2. Decided
    BY LockAssumption DEF Init, Decided
  <2>3. Contended
    BY DEF Init, Contended
  <2> QED
    BY <2>1, <2>2, <2>3
<1>2. TypeOK /\ Climbs /\ Decided /\ Contended /\ [Next]_vars
        => (Climbs /\ Decided /\ Contended)'
  BY ClimbsStep, DecidedStep, ContendedStep
<1>3. TypeOK /\ Climbs /\ Decided /\ Contended => NotEveryoneRefused
  BY HighestServed DEF NotEveryoneRefused
<1> QED
  BY <1>1, <1>2, <1>3, TypeCorrect, PTL DEF Spec
=============================================================================
