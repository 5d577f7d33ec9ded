------------------------------ MODULE MCSaga ------------------------------
(* Instances of Saga for TLC. *)
EXTENDS Saga, TLC

CONSTANTS a, b, c, p, z

\* a precedes b and the pivot p, which both precede z; c stands alone.
Diamond ==
    (a :> {}) @@ (b :> {a}) @@ (c :> {}) @@ (p :> {a}) @@ (z :> {b, p})

\* A chain beside a step that stands alone, without a pivot.
Chain == (a :> {}) @@ (b :> {a}) @@ (c :> {b}) @@ (p :> {}) @@ (z :> {c})

=============================================================================
