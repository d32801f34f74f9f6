--------------------------- MODULE MCParallelRedo ---------------------------
(* ParallelRedo on two page workers and short logs.                        *)
EXTENDS ParallelRedo

R(kind, to) == [kind |-> kind, to |-> to, sync |-> FALSE]
Sync(kind, to) == [kind |-> kind, to |-> to, sync |-> TRUE]

\* Logs of three records: what a worker or the startup thread waits for, what it
\* meets meanwhile, and what may overtake.
MixedLogs == <<
    {R("page", {1}), R("create", {1, 2}), R("clean", {1}), R("txn", {}), R("all", {1, 2}),
     R("share", {1, 2}), R("block", {2})},
    {R("page", {2}), R("page", {1, 2}), R("clean", {1}), R("txn", {}), Sync("txn", {}),
     R("share", {2}), R("block", {1}), Sync("all", {1, 2})},
    {R("page", {1}), R("page", {1, 2}), R("txn", {}), R("seg", {})} >>
=============================================================================
