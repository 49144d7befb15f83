------------------------------ MODULE MCRetry ------------------------------
(* Small instances of RetryingClient. *)
EXTENDS RetryingClient

TwoRates == {<< [flow |-> 2, burst |-> 4], [flow |-> 1, burst |-> 5] >>}
OneRate == {<< [flow |-> 1, burst |-> 3] >>}
=============================================================================
