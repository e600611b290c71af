--------------------------- MODULE MCAuditTrail ---------------------------
(* Model checking of AuditTrail: the threads are interchangeable. *)
EXTENDS AuditTrail, TLC

Symmetry == Permutations(Writers)
===========================================================================
