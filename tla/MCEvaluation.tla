---------------------------- MODULE MCEvaluation ----------------------------
\* Three samples or fewer for one worker or two, and command lines that are
\* refused: too few devices, one twice, one that is not allowed, a
\* sample that is not there, nothing left of the selection.
EXTENDS Evaluation

Plain == [named |-> 3, missing |-> FALSE, limit |-> None, smoke |-> FALSE,
          gpus |-> None, workers |-> 0, worldSize |-> 1]

Served ==
  {[Plain EXCEPT !.workers = 2], [Plain EXCEPT !.named = 2, !.gpus = <<2, 0>>],
   [Plain EXCEPT !.limit = -1, !.workers = 3], [Plain EXCEPT !.limit = 1],
   [Plain EXCEPT !.smoke = TRUE],
   [Plain EXCEPT !.gpus = <<0, 1>>, !.workers = 1, !.worldSize = 2],
   [Plain EXCEPT !.smoke = TRUE, !.limit = 5, !.workers = 2, !.gpus = <<0, 1>>]}

Refused ==
  {[Plain EXCEPT !.gpus = <<0, 1>>], [Plain EXCEPT !.gpus = <<1, 1>>, !.workers = 2],
   [Plain EXCEPT !.gpus = <<0, 3>>, !.workers = 2], [Plain EXCEPT !.workers = -1],
   [Plain EXCEPT !.missing = TRUE], [Plain EXCEPT !.limit = 0], [Plain EXCEPT !.limit = -3],
   [Plain EXCEPT !.gpus = <<0, 1>>, !.workers = 2, !.worldSize = 2]}

CommandLines == Served \cup Refused
=============================================================================
