---------------------------- MODULE MCWriteQueue ----------------------------
(* Instances of WriteQueue for TLC: interchangeable clients. *)
EXTENDS WriteQueue, TLC

ClientSymmetry ==
    Permutations(Writers) \cup Permutations(Txs) \cup Permutations(Kids)

=============================================================================
