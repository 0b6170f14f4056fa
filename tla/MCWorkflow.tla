----------------------------- MODULE MCWorkflow -----------------------------
\* Small instances of Workflow for TLC.
EXTENDS Workflow, TLC

CONSTANTS p1, p2

\* The job ids are interchangeable, and so are the stage processes; in the
\* other modes the driver is the only process.
JobSymmetry == Permutations(JobIds)
=============================================================================
