------------------------------ MODULE MCBucket ------------------------------
(* Small instances of RateContract. *)
EXTENDS RateContract

Steady == << [flow |-> 2, burst |-> 4], [flow |-> 1, burst |-> 5] >>

(* The same first policy in every configuration; the second one comes,     *)
(* goes and changes.                                                       *)
Reloaded == { << Steady[1], [flow |-> 1, burst |-> 5] >>,
              << Steady[1], [flow |-> 1, burst |-> 2] >>,
              << Steady[1] >> }

SteadyOnly == {Steady}
FirstOnly == << Steady[1] >>

PositiveCosts == {1, 3, 6}
SignedCosts == {-2, 0, 3}
=============================================================================
