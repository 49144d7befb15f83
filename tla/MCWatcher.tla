----------------------------- MODULE MCWatcher -----------------------------
(* Small instances of ConfigWatcher. *)
EXTENDS ConfigWatcher

Rate(flow, burst) == [name |-> "r", flow |-> flow, burst |-> burst]
For(prefix, policies) == [domain |-> "api", prefix |-> prefix, policies |-> policies]

Plain == [domains |-> << For("user", << Rate(1, 2) >>) >>, default |-> Absent]

(* The first two entries are for one key. *)
Doubled ==
    [domains |-> << For("user", << Rate(1, 2) >>), For("user", << Rate(3, 4), Rate(1, 9) >>),
                    For("admin", << Rate(5, 6) >>) >>,
     default |-> For("any", << Rate(7, 8) >>)]

NoPolicies == [domains |-> << For("user", <<>>) >>, default |-> Absent]

NoFlow == [domains |-> <<>>, default |-> For("any", << Rate(1, 1), Rate(0, 1) >>)]

AllDocuments == {Plain, Doubled, NoPolicies, NoFlow, Malformed, Missing}

AllQueries == {<< "api", "user" >>, << "api", "admin" >>, << "shop", "user" >>}
=============================================================================
