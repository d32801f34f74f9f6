--------------------------- MODULE MCGroupRedoLog ---------------------------
(* GroupRedoLog on a small set of transactions and NUMA nodes.             *)
EXTENDS GroupRedoLog, TLC

CONSTANTS c1, c2, c3, n1, n2

CallSymmetry == Permutations(Call)
=============================================================================
