------------------------ MODULE MCClientApplications ------------------------
(* Model checking of ClientApplications: documents are interchangeable, and *)
(* so are the threads.                                                      *)
EXTENDS ClientApplications, TLC

Symmetry == Permutations(Docs) \cup Permutations(Workers)
=============================================================================
