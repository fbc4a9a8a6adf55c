---------------------------- MODULE MCReconcile ----------------------------
(* Model-checking instance of Reconcile: two packages (or one), two good    *)
(* outputs and one that has been garbage-collected, two processes.          *)
EXTENDS Reconcile, TLC

CONSTANTS k1, k2, s1, s2, gone, p1, p2

Want(k, s) == [pkg |-> k, state |-> "present", store |-> s]
Drop(k)    == [pkg |-> k, state |-> "absent", store |-> gone]

MCStores == {s1, s2, gone}
MCGood   == {s1, s2}

\* Both present; one absent; one omitted; a duplicate key; an output that is gone.
MCManifests ==
    { {Want(k1, s1), Want(k2, s1)},
      {Want(k1, s2), Drop(k2)},
      {Want(k2, s1)},
      {Want(k1, s1), Drop(k1)},
      {Want(k1, gone)} }

\* For one package: initialise, upgrade, reset.
OnePackageManifests == { {Want(k1, s1)}, {Want(k1, s2)}, {Drop(k1)}, {Want(k1, gone)} }

Symmetric == Permutations({p1, p2})
=============================================================================
