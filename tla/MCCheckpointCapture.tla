------------------------ MODULE MCCheckpointCapture ------------------------
(* CheckpointCapture on small sets of sessions, keys and values.           *)
EXTENDS CheckpointCapture, TLC

CONSTANTS t1, t2, t3, k1, k2, v1, v2

ModelSymmetry == Permutations(Txn) \cup Permutations(Key) \cup Permutations(Val)
=============================================================================
