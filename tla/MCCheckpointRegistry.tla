-------------------------- MODULE MCCheckpointRegistry --------------------------
(* Request sets for TLC: creates and a delete of one name; operation UUIDs  *)
(* reused for other operations, with deletes enough to prune; and enough    *)
(* creates to send a pruned delete again.                                   *)
EXTENDS CheckpointRegistry, TLC

CONSTANTS c1, c2, c3, d1, d2, n1, n2

Create(o, n) == [op |-> o, kind |-> "create", name |-> n]
Delete(o, n) == [op |-> o, kind |-> "delete", name |-> n]

\* Processes are interchangeable.
Symmetry == Permutations(Procs)

OneName    == {Create(c1, n1), Create(c2, n1), Delete(d1, n1)}
UuidReused == {Create(c1, n1), Create(c2, n1), Create(d1, n2),
               Delete(d1, n1), Delete(c1, n1), Delete(d2, n1)}
Pruning    == {Create(c1, n1), Create(c2, n1), Create(c3, n1), Delete(d1, n1), Delete(d2, n1)}
=============================================================================
