--------------------------- MODULE RetryingClient ---------------------------
(***************************************************************************)
(* Who gets through: a client that asks for the same cost again and again, *)
(* leaving RetryAfter ticks between two attempts, on a key that others use *)
(* too, though only so many times.  No faults, one configuration: this     *)
(* module asks what a client may expect of the limiter alone.              *)
(***************************************************************************)
EXTENDS RateBucket

CONSTANTS
    Cost,           \* what the client asks for
    RetryAfter,     \* the ticks it waits after each attempt
    OtherCalls      \* bound: how often the others call

VARIABLES
    waited,         \* ticks since the client's last attempt
    others          \* calls the others have left

vars == << bucket, answer, waited, others >>

Init == BucketInit /\ waited = RetryAfter /\ others = OtherCalls

TimePasses ==
    /\ Tick
    /\ waited' = Smaller(waited + 1, RetryAfter)
    /\ UNCHANGED others

Attempt == \E p \in Configs :
    /\ waited = RetryAfter
    /\ Check(Cost, p)
    /\ waited' = 0
    /\ UNCHANGED others

OthersCall == \E c \in Costs, p \in Configs :
    /\ others > 0
    /\ Check(c, p)
    /\ others' = others - 1
    /\ UNCHANGED waited

Next == TimePasses \/ Attempt \/ OthersCall

(* The clock of Redis does not stop, and the client does not give up.      *)
Spec == Init /\ [][Next]_vars /\ WF_vars(TimePasses) /\ WF_vars(Attempt)
-----------------------------------------------------------------------------
(* TRD section 5.1: "smooth traffic flow with constant output rate per     *)
(* policy", level = max(0, level - flow x elapsed).  The client is let     *)
(* through again and again.  It is when it leaves the bucket time to drain *)
(* its cost between attempts; when it is quicker, each denial stores the   *)
(* undrained levels with a new last_time, and it is refused for ever.      *)
NotStarved == []<>(answer.cost = Cost /\ answer.decision.allowed)
=============================================================================
