--------------------------- MODULE MCMemoryStore ---------------------------
(* Instances of MemoryStore for TLC: what the memories of a run say. *)
EXTENDS MemoryStore, TLC

\* Every memory says something of its own.
Distinct == [m \in Memories |-> m]
\* All memories say the same.
Same == [m \in Memories |-> "fact"]

=============================================================================
