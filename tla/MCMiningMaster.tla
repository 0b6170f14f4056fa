--------------------------- MODULE MCMiningMaster ---------------------------
\* Small instances of MiningMaster for TLC.
EXTENDS MiningMaster, TLC

SampleSymmetry == Permutations(Samples)
=============================================================================
