------------------------ MODULE MCCheckpointPhases ------------------------
(* CheckpointPhases on a small set of sessions.                            *)
EXTENDS CheckpointPhases, TLC

CONSTANTS t1, t2, t3

TxnSymmetry == Permutations(Txn)
=============================================================================
