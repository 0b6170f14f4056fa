-------------------------- MODULE JobServiceProofs --------------------------
(***************************************************************************)
(* JobService implements JobBoard: what Workflow takes for granted of the  *)
(* verifier host follows from what RemoteVerifier implements.              *)
(***************************************************************************)
EXTENDS JobService, TLAPS

Board == INSTANCE JobBoard WITH known <- {j \in Jobs : phase[j] # "unknown"}

\* Only an answered job has an answer.
AnswersLast ==
  /\ phase \in [Jobs -> {"unknown", "accepted", "claimed", "executing", "executed",
                         "answered", "lost"}]
  /\ answer \in [Jobs -> Answers \cup {None}]
  /\ \A j \in Jobs : phase[j] # "answered" => answer[j] = None

LEMMA InitAnswersLast == Init => AnswersLast
BY DEF Init, AnswersLast

LEMMA NextAnswersLast == AnswersLast /\ [Next]_vars => AnswersLast'
<1> SUFFICES ASSUME AnswersLast, [Next]_vars PROVE AnswersLast'
  OBVIOUS
<1> USE DEF AnswersLast
<1>1. CASE UNCHANGED vars
  BY <1>1 DEF vars
<1>2. ASSUME NEW j \in Jobs, Answer(j) PROVE AnswersLast'
  BY <1>2 DEF Answer, Advance
<1>3. ASSUME NEW j \in Jobs, Accept(j) \/ Claim(j) \/ Execute(j) \/ Finish(j) \/ Skip(j)
      PROVE  AnswersLast'
  BY <1>3 DEF Accept, Claim, Execute, Finish, Skip, Advance
<1>4. ASSUME NEW j \in Jobs, Lose(j) PROVE AnswersLast'
  BY <1>4 DEF Lose, Advance
<1> QED
  BY <1>1, <1>2, <1>3, <1>4 DEF Next

\* A step of the host is an acceptance, an answer, or nothing on the board.
LEMMA StepOnBoard == AnswersLast /\ [Next]_vars => [Board!Next]_Board!vars
<1> SUFFICES ASSUME AnswersLast, [Next]_vars PROVE [Board!Next]_Board!vars
  OBVIOUS
<1> DEFINE Known == {j \in Jobs : phase[j] # "unknown"}
<1>1. CASE UNCHANGED vars
  BY <1>1 DEF vars, Board!vars
<1>2. ASSUME NEW j \in Jobs, Accept(j) PROVE Board!Accept(j)
  <2>1. Known' = Known \cup {j} /\ j \notin Known
    BY <1>2 DEF Accept, Advance, AnswersLast
  <2> QED
    BY <2>1, <1>2 DEF Accept, Board!Accept
<1>3. ASSUME NEW j \in Jobs, Answer(j) PROVE \E a \in Answers : Board!Answer(j, a)
  <2>1. Known' = Known /\ j \in Known /\ answer[j] = None
    BY <1>3 DEF Answer, Advance, AnswersLast
  <2>2. PICK a \in Answers : answer' = [answer EXCEPT ![j] = a]
    BY <1>3 DEF Answer
  <2> QED
    BY <2>1, <2>2 DEF Board!Answer
<1>4. ASSUME NEW j \in Jobs, Claim(j) \/ Execute(j) \/ Finish(j) \/ Skip(j) \/ Lose(j)
      PROVE  UNCHANGED Board!vars
  <2>1. Known' = Known
    BY <1>4 DEF Claim, Execute, Finish, Skip, Lose, Advance, AnswersLast
  <2> QED
    BY <2>1, <1>4 DEF Claim, Execute, Finish, Skip, Lose, Board!vars
<1> QED
  BY <1>1, <1>2, <1>3, <1>4 DEF Next, Board!Next

\* Whatever the host does with the jobs it has accepted, a controller sees a
\* board: a job appears once, is answered at most once, and keeps its answer
\* (runner.py:87-107, 212).
THEOREM ImplementsBoard == Spec => Board!Spec
<1>1. Init => Board!Init
  BY DEF Init, Board!Init
<1> QED
  BY <1>1, InitAnswersLast, NextAnswersLast, StepOnBoard, PTL DEF Spec, Board!Spec
=============================================================================
