--------------------------- MODULE MCNodeLifecycle ---------------------------
(* Small structures and numbers that soon wrap, and configurations for     *)
(* memory sizes up to eleven slots with each choice of explicit counts:    *)
(* too small, just right, too much, with and without a rest, and sums of   *)
(* slots or of ring entries that exceed a word.                            *)
EXTENDS NodeLifecycle

MCPlans ==
  {c \in [memory : {5, 9, 12, 13, 22, 32, 47, 62}, requests : {0, 1, 30},
          slots : [PlanKinds -> {0, 1, 2, 62}], explicit : SUBSET PlanKinds,
          replication : {1, 2}] :
     \A k \in PlanKinds \ c.explicit : c.slots[k] = 0}
=============================================================================
