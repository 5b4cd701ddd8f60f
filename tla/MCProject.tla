-------------------------------- MODULE MCProject --------------------------------
(* Instances of the project for TLC.                                        *)
EXTENDS Project, TLC

\* Processes, readers and transactions of one kind are interchangeable.
Symmetry ==
    Permutations(Procs) \cup Permutations(Readers)
        \cup Permutations(Exclusive \ Optimistic) \cup Permutations(Optimistic \ Exclusive)
        \cup Permutations(Exclusive \cap Optimistic)
=============================================================================
