----------------------------- MODULE MCMvccOcc ------------------------------
(* MvccOcc with two sessions.                                              *)
EXTENDS MvccOcc, TLC

CONSTANTS t1, t2

TxnSymmetry == Permutations(Txn)

\* Two keys and one more commit, or one key and two.
TwoKeys == {[rows |-> <<"present", "absent">>, clock |-> 4]}
OneKey == {[rows |-> <<r>>, clock |-> 3] : r \in {"present", "deleted"}}
MixedStores == TwoKeys \cup OneKey
=============================================================================
