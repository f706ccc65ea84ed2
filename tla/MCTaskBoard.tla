---------------------------- MODULE MCTaskBoard ----------------------------
(* Model values and symmetry for the runs of TaskBoard. *)
EXTENDS TaskBoard, TLC

CONSTANTS w1, w2, w3, r1, r2, t1, t2,
          i1, i2, i3, i4, i5

Symmetry == Permutations(Workers) \union Permutations(Inodes) \union Permutations(Tasks)
            \union Permutations(Recoverers)

\* One failure at a time: a killed session or an NFS outage.
OneFault == deaths + outages <= 1
=============================================================================
