----------------------------- MODULE RateBucket -----------------------------
(***************************************************************************)
(* One bucket key in Redis and every call the service instances make on it. *)
(* The script is atomic and each instance reads its own configuration      *)
(* snapshot, so a call is one step with any of the policy lists in Configs. *)
(* Between calls time passes, the key expires, Redis may lose the key      *)
(* (eviction, restart without persistence, failover to a replica that lags) *)
(* and its clock, which is the wall clock, may be set back or forward.     *)
(***************************************************************************)
EXTENDS LeakyBucket

CONSTANTS
    Configs,        \* the policy lists requests on this key may carry
    Costs,          \* the costs of requests
    Faults,         \* which of the faults below can happen
    Jumps,          \* by how many ticks the clock of Redis may be set
    MaxSkew         \* bound: how far last_time may lie in the future

FaultKinds == {"unreachable", "reply lost", "key lost", "set back", "set forward"}

ASSUME RateBucketAssumption ==
    /\ \A p \in Configs : p \in Seq(Policy) /\ p # <<>>
    /\ Costs \subseteq Int
    /\ Faults \subseteq FaultKinds
    /\ Jumps \subseteq Nat \ {0}
    /\ MaxSkew \in Nat

VARIABLES
    bucket,         \* the entry under the key
    answer          \* the last call on the key and what its caller was told

bucketVars == << bucket, answer >>

NoAnswer == [cost |-> 0, policies |-> <<>>, decision |-> FailOpen]

Answer(c, p, d) == [cost |-> c, policies |-> p, decision |-> d]

(* Mutant: the levels of an expired key are still read.                    *)
AgedPastDeadline(b, n) ==
    IF b.live
      THEN [b EXCEPT !.age = b.age + n, !.ttl = Larger(0, b.ttl - n), !.live = b.ttl >= n]
      ELSE b

(* An entry n ticks later: gone once its deadline is past.                 *)
Aged(b, n) ==
    IF b.live /\ b.ttl >= n
      THEN [b EXCEPT !.age = b.age + n, !.ttl = b.ttl - n]
      ELSE NoBucket
-----------------------------------------------------------------------------
BucketInit == bucket = NoBucket /\ answer = NoAnswer

Tick == bucket' = Aged(bucket, 1) /\ UNCHANGED answer

(* The script runs and its reply arrives.                                  *)
Check(c, p) ==
    /\ Storable(bucket, c, p)
    /\ bucket' = Stored(bucket, c, p)
    /\ answer' = Answer(c, p, Decision(Reply(bucket, c, p)))

(* SETEX refuses the expiry: the script raises and the request passes.     *)
CheckRaises(c, p) ==
    /\ ~Storable(bucket, c, p)
    /\ answer' = Answer(c, p, FailOpen)
    /\ UNCHANGED bucket

(* No connection, or the call fails before the script has run.             *)
CheckUnreachable(c, p) ==
    /\ "unreachable" \in Faults
    /\ answer' = Answer(c, p, FailOpen)
    /\ UNCHANGED bucket

(* The script runs, then the connection breaks: the caller sees an error.  *)
CheckReplyLost(c, p) ==
    /\ "reply lost" \in Faults
    /\ Storable(bucket, c, p)
    /\ bucket' = Stored(bucket, c, p)
    /\ answer' = Answer(c, p, FailOpen)

LoseKey ==
    /\ "key lost" \in Faults
    /\ bucket.live
    /\ bucket' = NoBucket
    /\ UNCHANGED answer

(* Both last_time and the deadline are absolute: setting the clock moves   *)
(* the age and the time left by the same amount, in opposite directions.   *)
SetBack(n) ==
    /\ "set back" \in Faults
    /\ bucket.live
    /\ bucket.age - n >= -MaxSkew
    /\ bucket' = Aged(bucket, -n)
    /\ UNCHANGED answer

SetForward(n) ==
    /\ "set forward" \in Faults
    /\ bucket.live
    /\ bucket' = Aged(bucket, n)
    /\ UNCHANGED answer

Call == \E c \in Costs, p \in Configs :
          \/ Check(c, p)
          \/ CheckRaises(c, p)
          \/ CheckUnreachable(c, p)
          \/ CheckReplyLost(c, p)

BucketNext ==
    \/ Tick
    \/ Call
    \/ LoseKey
    \/ \E n \in Jumps : SetBack(n) \/ SetForward(n)

BucketSpec == BucketInit /\ [][BucketNext]_bucketVars
-----------------------------------------------------------------------------
(* What the documents say of one key, and the code does not do.            *)

(* TRD section 4.2: GetBucketStatus "returns current bucket state without  *)
(* consuming tokens".  The decoder never accepts what the script packed.   *)
StatusShowsBucket ==
    bucket.live => BucketStatus(bucket) = [levels |-> bucket.levels, deny_count |-> bucket.deny]

(* TRD section 5.1, TTL calculation: "ensures key doesn't expire while     *)
(* buckets still have tokens", whichever configuration the tokens of a     *)
(* policy were charged under.                                              *)
NeverExpiresCharged ==
    \A p \in Configs : \A i \in DOMAIN p :
        bucket.live => Level(bucket, i) <= (bucket.age + bucket.ttl) * p[i].flow
=============================================================================
