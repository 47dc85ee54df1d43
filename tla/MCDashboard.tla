---------------------------- MODULE MCDashboard ----------------------------
(* Small instances of Dashboard.                                           *)
EXTENDS DashboardView, TLC

CONSTANTS top, sub, out, t1, t2, i1, i2, outer, inner

\* A repository with a submodule, both under the root.
Nested == (top :> outer) @@ (sub :> inner)
Flat == top :> outer

Symmetry == Permutations(Inodes)

\* t1 goes in and out of the root, t2 stays in the submodule.
InAndOut == pwd[t1] # sub /\ pwd[t2] = sub

Uninterrupted == keep_running

=============================================================================
