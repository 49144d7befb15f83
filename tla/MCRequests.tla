----------------------------- MODULE MCRequests -----------------------------
(* Small instances of RequestPath.                                         *)
EXTENDS RequestPath

CONSTANTS r1, r2

One3 == << [flow |-> 1, burst |-> 3] >>
One1 == << [flow |-> 1, burst |-> 1] >>

TwoLists == << One3, One1 >>

(* Costs that are refused twice in a row, and a bucket that is filled      *)
(* before its burst shrinks and a cost is given back.                      *)
RefusedOrGivenBack == [r \in {r1, r2} |-> IF r = r1 THEN {3, 4} ELSE {-1, 4}]
=============================================================================
