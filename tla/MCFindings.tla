----------------------------- MODULE MCFindings ------------------------------
(* Findings on a small instance: each finding is of a detector of its own. *)
EXTENDS Findings, TLC

OfItsOwn == [k \in Keys |-> k]

Symmetry == Permutations(Audits)
=============================================================================
