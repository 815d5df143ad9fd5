---------------------------- MODULE MCMakerTask ----------------------------
\* Small instances of MakerTask for TLC.
EXTENDS MakerTask, TLC

WorkerSymmetry == Permutations(Workers)
=============================================================================
