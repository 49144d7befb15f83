----------------------------- MODULE MCService -----------------------------
(* A small instance of Service: a check that spends, one that spends or    *)
(* gives back, and a status call.                                          *)
EXTENDS Service

CONSTANTS r1, r2, r3

(* Under Slow, a cost of 3 needs an expiry longer than MaxTTL.             *)
Fast == << [flow |-> 4, burst |-> 3] >>
Slow == << [flow |-> 1, burst |-> 1] >>

FastThenSlow == << Fast, Slow >>

SpendOrGiveBack == [r \in {r1, r2} |-> IF r = r1 THEN {3} ELSE {3, -1}]

OneTaken(port) == [vars |-> [REDIS_MAX_CONN |-> 2], file_fits |-> TRUE, taken |-> {port}]

NoConnections == [vars |-> [REDIS_MAX_CONN |-> 0], file_fits |-> TRUE, taken |-> {}]

WithTLS == [vars |-> [REDIS_MAX_CONN |-> 2, REDIS_CLUSTER_URL |-> "rediss"],
            file_fits |-> TRUE, taken |-> {}]

HostByName == [vars |-> [REDIS_MAX_CONN |-> 2, GRPC_HOST |-> "name"],
               file_fits |-> TRUE, taken |-> {}]

BadFile == [vars |-> [REDIS_MAX_CONN |-> 2], file_fits |-> FALSE, taken |-> {}]

SoundAlone == {OneTaken(9090)}

(* The service can run where only the metrics port is taken.               *)
SixEnvironments ==
    {OneTaken(9090), OneTaken(50051), NoConnections, WithTLS, HostByName, BadFile}
=============================================================================
