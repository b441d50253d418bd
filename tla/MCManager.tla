------------------------------ MODULE MCManager ------------------------------
(* Bounds for the package manager and its diagnosis: see MCManager.cfg.    *)
EXTENDS ManagerDiagnosis, TLC

Symmetry == Permutations(Ops) \cup Permutations(Versions)
=============================================================================
