--------------------------- MODULE MCStateMigration ---------------------------
(* Bounds for the session store and its migration: see the .cfg files.     *)
EXTENDS StateMigration, TLC

CONSTANTS c1, c2, p, q, r

\* p and q spell one channel, r another
TwoSpellings == (p :> c1) @@ (q :> c1) @@ (r :> c2)

Symmetry ==
  Permutations(Adapters) \cup Permutations(Tmps) \cup Permutations(Owners)
    \cup Permutations({p, q})
=============================================================================
