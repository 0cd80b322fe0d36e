--------------------------- MODULE MCSquashMerge ---------------------------
(***************************************************************************)
(* Instances of SquashMerge for TLC: attempts and threads are              *)
(* interchangeable.                                                        *)
(***************************************************************************)
EXTENDS SquashMerge, TLC

Symmetry == Permutations(Attempt) \union Permutations(Thread)

=============================================================================
