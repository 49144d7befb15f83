---------------------------- MODULE LeakyBucket ----------------------------
(***************************************************************************)
(* The multi-rate leaky bucket: scripts/leaky_bucket.lua as a function from *)
(* the entry Redis holds for one key to the entry it holds afterwards and  *)
(* the reply, and the decision src/limiter/leaky_bucket.rs makes from the  *)
(* outcome of the call.  Redis runs the script atomically, so one operator *)
(* is the whole of it; the modules that use it own the variables.          *)
(*                                                                         *)
(* Time is counted in ticks.  The script stores the absolute last_time and *)
(* SETEX an absolute deadline, and both are only ever compared with now:   *)
(* an entry here holds the age of last_time and the ttl left before the    *)
(* deadline.  Levels, costs and bursts are counted in the unit that makes  *)
(* each policy's flow per tick a whole number of units; the script's       *)
(* arithmetic on doubles is exact at that grain.                           *)
(***************************************************************************)
EXTENDS Integers, Sequences, FiniteSetsExt

CONSTANTS
    TicksPerSecond,     \* SETEX takes whole seconds: a ttl is a multiple of this
    MaxTTL,             \* the longest expiry, in seconds, that SETEX accepts
    MaxDeny,            \* where the deny count stops: a double saturates at 2^53
    Unlimited           \* f64::MAX, the capacity told to a request that fails open

ASSUME LeakyBucketAssumption ==
    /\ TicksPerSecond \in Nat \ {0}
    /\ MaxTTL \in Nat
    /\ MaxDeny \in Nat

(* A RatePolicy that validate_rate_policy accepts: both numbers positive.  *)
Policy == [flow : Nat \ {0}, burst : Nat \ {0}]

(* The entry under one key.                                                *)
Bucket == [live : BOOLEAN, age : Int, ttl : Nat, deny : -MaxDeny .. MaxDeny,
           levels : Seq(Int)]

(* NoBucket, an absent key, reads as the bucket the script starts from     *)
(* when there is nothing to unpack.                                        *)
NoBucket == [live |-> FALSE, age |-> 0, ttl |-> 0, deny |-> 0, levels |-> <<>>]

Larger(a, b) == IF a >= b THEN a ELSE b
Smaller(a, b) == IF a <= b THEN a ELSE b

(* The stored level of policy i; a policy the entry has no level for is at 0. *)
Level(b, i) == IF i \in DOMAIN b.levels THEN b.levels[i] ELSE 0

-----------------------------------------------------------------------------
(* The loop of the script over the policies p of one request of cost c.    *)

(* Mutants: nothing stops a level at 0; time measured in whole seconds.    *)
LeakedBelowZero(b, p, i) == Level(b, i) - b.age * p[i].flow

LeakedPerSecond(b, p, i) ==
    Larger(0, Level(b, i) - (b.age \div TicksPerSecond) * TicksPerSecond * p[i].flow)

Leaked(b, p, i) == Larger(0, Level(b, i) - b.age * p[i].flow)

NextLevels(b, c, p) == [i \in DOMAIN p |-> Leaked(b, p, i) + c]

Remaining(b, c, p, i) == p[i].burst - NextLevels(b, c, p)[i]

FreeCapacity(b, c, p) == Min({Remaining(b, c, p, i) : i \in DOMAIN p})

(* The loop replaces the index only on a strictly smaller remainder: the   *)
(* first of the most restrictive policies, counted from 1 as Lua does.     *)
LimitingIndex(b, c, p) ==
    Min({i \in DOMAIN p : Remaining(b, c, p, i) = FreeCapacity(b, c, p)})

CeilDiv(a, b) == (a + b - 1) \div b

(* Mutant: math.floor for math.ceil.                                       *)
SecondsRoundedDown(b, c, p, i) ==
    Larger(p[i].burst, NextLevels(b, c, p)[i]) \div (p[i].flow * TicksPerSecond)

SecondsToDrain(b, c, p, i) ==
    CeilDiv(Larger(p[i].burst, NextLevels(b, c, p)[i]), p[i].flow * TicksPerSecond)

ExpireTime(b, c, p) == Max({SecondsToDrain(b, c, p, i) : i \in DOMAIN p})

-----------------------------------------------------------------------------
(* Mutants: room is looked for before the cost is added; one token too     *)
(* many; the last one withheld.                                            *)
AllowedBeforeCost(b, c, p) == FreeCapacity(b, 0, p) >= 0

AllowedOneOver(b, c, p) == FreeCapacity(b, c, p) >= -1

AllowedBelowBurst(b, c, p) == FreeCapacity(b, c, p) > 0

Allowed(b, c, p) == FreeCapacity(b, c, p) >= 0

(* deny_count + cost, kept within the range the model counts.              *)
DenyCount(b, c) == Larger(-MaxDeny, Smaller(MaxDeny, b.deny + c))

(* Mutants: last_time is left as it was; a denied request is charged.      *)
StoredWithOldTime(b, c, p) ==
    [live   |-> TRUE,
     age    |-> b.age,
     ttl    |-> ExpireTime(b, c, p) * TicksPerSecond,
     deny   |-> IF Allowed(b, c, p) THEN 0 ELSE DenyCount(b, c),
     levels |-> IF Allowed(b, c, p) THEN NextLevels(b, c, p) ELSE b.levels]

StoredCharged(b, c, p) ==
    [live   |-> TRUE,
     age    |-> 0,
     ttl    |-> ExpireTime(b, c, p) * TicksPerSecond,
     deny   |-> IF Allowed(b, c, p) THEN 0 ELSE DenyCount(b, c),
     levels |-> NextLevels(b, c, p)]

(* What SETEX stores: the new levels when the request is allowed, the old  *)
(* ones, not even leaked, when it is denied; last_time is now either way.  *)
Stored(b, c, p) ==
    [live   |-> TRUE,
     age    |-> 0,
     ttl    |-> ExpireTime(b, c, p) * TicksPerSecond,
     deny   |-> IF Allowed(b, c, p) THEN 0 ELSE DenyCount(b, c),
     levels |-> IF Allowed(b, c, p) THEN NextLevels(b, c, p) ELSE b.levels]

(* Mutant: the capacity reported is the one before the charge.             *)
ReplyBeforeCost(b, c, p) ==
    [allowed          |-> Allowed(b, c, p),
     capacity_or_deny |-> IF Allowed(b, c, p) THEN FreeCapacity(b, 0, p)
                                              ELSE DenyCount(b, c),
     limiting_index   |-> LimitingIndex(b, c, p)]

Reply(b, c, p) ==
    [allowed          |-> Allowed(b, c, p),
     capacity_or_deny |-> IF Allowed(b, c, p) THEN FreeCapacity(b, c, p)
                                              ELSE DenyCount(b, c),
     limiting_index   |-> LimitingIndex(b, c, p)]

(* SETEX raises on an expiry it cannot represent; the script then ends with *)
(* an error and nothing stored.                                            *)
Storable(b, c, p) == ExpireTime(b, c, p) \in 1 .. MaxTTL

-----------------------------------------------------------------------------
(* check_limit: what the caller is told.                                   *)

(* Mutant: fail closed.                                                    *)
FailClosed == [allowed |-> FALSE, remaining_capacity |-> Unlimited,
               limiting_rate_index |-> 0, deny_count |-> 0]

(* Any error on the way to Redis or back lets the request pass.            *)
FailOpen == [allowed |-> TRUE, remaining_capacity |-> Unlimited,
             limiting_rate_index |-> 0, deny_count |-> 0]

Decision(r) ==
    [allowed             |-> r.allowed,
     remaining_capacity  |-> IF r.allowed THEN r.capacity_or_deny
                                          ELSE -r.capacity_or_deny,
     limiting_rate_index |-> r.limiting_index,
     deny_count          |-> IF r.allowed THEN 0 ELSE r.capacity_or_deny]

-----------------------------------------------------------------------------
(* get_bucket_status: the value read back.  cmsgpack.pack(now, deny,       *)
(* levels) writes its three arguments one after the other; the decoder     *)
(* reads one object and wants it to be an array of three.                  *)

Number(n) == [kind |-> "number", value |-> n]
Array(s) == [kind |-> "array", items |-> s]

Packed(b) == << Number(b.age), Number(b.deny), Array(b.levels) >>

Decodable(stream) ==
    /\ stream[1].kind = "array"
    /\ Len(stream[1].items) = 3

EmptyStatus == [levels |-> <<>>, deny_count |-> 0]

BucketStatus(b) ==
    IF ~b.live \/ ~Decodable(Packed(b))
      THEN EmptyStatus
      ELSE LET state == Head(Packed(b)).items
           IN  [levels |-> state[3].items, deny_count |-> state[2].value]
=============================================================================
