---------------------------- MODULE AtomicChecks ----------------------------
(***************************************************************************)
(* What concurrent checks on one key amount to, without pool, connections, *)
(* script cache or failures.  A check is invoked with a cost and the       *)
(* policies of some version of the configuration; at one moment after that *)
(* the bucket is charged for it, once, as if it were alone; and it is      *)
(* answered with that verdict, or let through unchecked, or given up by    *)
(* its caller.  For those let through or given up the charge may be made,  *)
(* may still come, or never be; all charges may be forgotten together.     *)
(*                                                                         *)
(* The charge lies between call and answer for every check that is         *)
(* answered with a verdict: these are linearizable, whatever the script    *)
(* computes.                                                               *)
(***************************************************************************)
CONSTANTS
    Checks,             \* the calls
    Costs,              \* check |-> the costs it may ask for
    Lists,              \* the policies of the key, version by version
    NoBucket,           \* the bucket before any charge
    Storable(_, _, _),  \* bucket, cost, policies |-> whether it can be charged
    Stored(_, _, _),    \* bucket, cost, policies |-> the bucket once charged
    Reply(_, _, _),     \* bucket, cost, policies |-> the verdict
    NoReply,            \* no verdict yet
    Decision(_),        \* verdict |-> what a caller is told
    FailOpen            \* what a caller is told who is let through unchecked

VARIABLES
    stage,          \* check |-> "new", "open", "heard", "done" or "gone"
    cost,           \* check |-> what it asks for
    policies,       \* check |-> the policies it is judged by
    charged,        \* the checks the bucket has been charged for
    verdict,        \* check |-> what the script said, once it is heard
    decision,       \* check |-> what its caller was told
    bucket          \* the entry under the key

vars == << stage, cost, policies, charged, verdict, decision, bucket >>

Move(c, s) == stage' = [stage EXCEPT ![c] = s]

Init ==
    /\ stage = [c \in Checks |-> "new"]
    /\ cost = [c \in Checks |-> 0]
    /\ policies = [c \in Checks |-> Lists[1]]
    /\ charged = {}
    /\ verdict = [c \in Checks |-> NoReply]
    /\ decision = [c \in Checks |-> FailOpen]
    /\ bucket = NoBucket

Invoke(c) ==
    /\ stage[c] = "new"
    /\ Move(c, "open")
    /\ \E amount \in Costs[c] : cost' = [cost EXCEPT ![c] = amount]
    /\ \E i \in DOMAIN Lists : policies' = [policies EXCEPT ![c] = Lists[i]]
    /\ UNCHANGED << charged, verdict, decision, bucket >>

(* The script runs for a check; its verdict is heard, or is lost.          *)
Charge(c) ==
    /\ stage[c] # "new" /\ c \notin charged
    /\ charged' = charged \cup {c}
    /\ Storable(bucket, cost[c], policies[c])
    /\ bucket' = Stored(bucket, cost[c], policies[c])
    /\ \/ /\ stage[c] = "open"
          /\ Move(c, "heard")
          /\ verdict' = [verdict EXCEPT ![c] = Reply(bucket, cost[c], policies[c])]
       \/ UNCHANGED << stage, verdict >>
    /\ UNCHANGED << cost, policies, decision >>

Answer(c) ==
    /\ stage[c] = "heard"
    /\ Move(c, "done")
    /\ decision' = [decision EXCEPT ![c] = Decision(verdict[c])]
    /\ UNCHANGED << cost, policies, charged, verdict, bucket >>

LetThrough(c) ==
    /\ stage[c] \in {"open", "heard"}
    /\ Move(c, "done")
    /\ decision' = [decision EXCEPT ![c] = FailOpen]
    /\ UNCHANGED << cost, policies, charged, verdict, bucket >>

(* One caller gives up, or all that are waiting when the process dies.     *)
GiveUp ==
    /\ \E S \in SUBSET {c \in Checks : stage[c] \in {"open", "heard"}} :
          stage' = [c \in Checks |-> IF c \in S THEN "gone" ELSE stage[c]]
    /\ UNCHANGED << cost, policies, charged, verdict, decision, bucket >>

Forget ==
    /\ bucket' = NoBucket
    /\ UNCHANGED << stage, cost, policies, charged, verdict, decision >>

Next ==
    \/ \E c \in Checks : Invoke(c) \/ Charge(c) \/ Answer(c) \/ LetThrough(c)
    \/ GiveUp \/ Forget

Spec == Init /\ [][Next]_vars
=============================================================================
