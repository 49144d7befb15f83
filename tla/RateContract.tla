---------------------------- MODULE RateContract ----------------------------
(***************************************************************************)
(* The bucket in Redis beside the promise of RateLimit: the steps of       *)
(* RateBucket, each with the step of the promised limiter it stands for.   *)
(* level and window are history: nothing in the bucket reads them.  The    *)
(* promise is made for the Stable policies, those that every configuration *)
(* a request may carry has at the same position.                           *)
(***************************************************************************)
EXTENDS RateBucket

CONSTANTS
    Stable,         \* index |-> policy common to all Configs at that index
    MaxWindow,      \* bound: ticks after which a window closes
    MaxLosses       \* bound: losses of state after which a window closes

ASSUME StableAssumption ==
    /\ DOMAIN Stable \subseteq Nat
    /\ \A i \in DOMAIN Stable : Stable[i] \in Policy
    /\ \A p \in Configs : \A i \in DOMAIN Stable : i \in DOMAIN p /\ p[i] = Stable[i]
    /\ MaxWindow \in Nat /\ MaxLosses \in Nat

VARIABLES
    level,          \* what the promised buckets hold
    window,         \* what an observer has counted
    exact           \* no denial, no clock correction since the key was created

Contract == INSTANCE RateLimit WITH Rates <- Stable

vars == << bucket, answer, level, window, exact >>

(* The level of stable policy i that is left in entry b: what the script   *)
(* would start from, were last_time never in the future.                   *)
Effective(b, i) == Larger(0, Level(b, i) - Larger(0, b.age) * Stable[i].flow)
-----------------------------------------------------------------------------
Init ==
    /\ BucketInit
    /\ Contract!Init
    /\ exact = TRUE

(* What a run of the script is to the promise: a charge when it allows the *)
(* request, nothing when it denies it.                                     *)
Charged(c, p) ==
    IF Allowed(bucket, c, p)
      THEN /\ level' = Contract!Charge(level, c)
           /\ window' = Contract!Spend(window, c)
           /\ UNCHANGED exact
      ELSE exact' = FALSE /\ UNCHANGED << level, window >>

TimePasses ==
    /\ Tick
    /\ level' = Contract!Drain(level)
    /\ window' = Contract!Lengthen(window)
    /\ exact' = (exact \/ ~bucket'.live)

Scripted == \E c \in Costs, p \in Configs :
    (Check(c, p) \/ CheckReplyLost(c, p)) /\ Charged(c, p)

Bypassed == \E c \in Costs, p \in Configs :
    /\ CheckRaises(c, p) \/ CheckUnreachable(c, p)
    /\ UNCHANGED << level, window, exact >>

(* A clock set forward drains the bucket of more than it should: at worst  *)
(* of everything, which is how the promise accounts for it.                *)
StateLost ==
    /\ LoseKey \/ \E n \in Jumps : SetForward(n)
    /\ level' = Contract!Empty
    /\ window' = Contract!Damage(window)
    /\ exact' = ~bucket'.live

ClockSetBack ==
    /\ \E n \in Jumps : SetBack(n)
    /\ exact' = FALSE
    /\ UNCHANGED << level, window >>

Observe == Contract!Observe /\ UNCHANGED << bucket, answer, exact >>

Next == TimePasses \/ Scripted \/ Bypassed \/ StateLost \/ ClockSetBack \/ Observe

Spec == Init /\ [][Next]_vars
-----------------------------------------------------------------------------
Windows ==
    [open : BOOLEAN, ticks : 0 .. MaxWindow, spent : Nat, losses : 0 .. MaxLosses]

TypeOK ==
    /\ bucket \in Bucket
    /\ bucket.age >= -MaxSkew
    /\ ~bucket.live => bucket = NoBucket
    /\ answer.cost \in Costs \cup {0}
    /\ answer.policies \in Configs \cup {<<>>}
    /\ level \in [DOMAIN Stable -> Nat]
    /\ window \in Windows
    /\ exact \in BOOLEAN

(* A key does not expire while one of its buckets still holds tokens: what *)
(* is stored for a stable policy has drained by the deadline.  ("Ensures   *)
(* key doesn't expire while buckets still have tokens", lua:65-66.)        *)
NoEarlyExpiry ==
    \A i \in DOMAIN Stable :
        bucket.live => Level(bucket, i) <= (bucket.age + bucket.ttl) * Stable[i].flow

(* Whatever calls, expiries, lost replies, configurations and clock        *)
(* corrections there have been, the bucket never believes itself emptier   *)
(* than the promised one: a denial may forget drained tokens, nothing      *)
(* forgets charged ones.                                                   *)
NeverUnderCharged == \A i \in DOMAIN Stable : level[i] <= Effective(bucket, i)

(* The rate limit in the terms of its users: see RateLimit.  It counts the *)
(* requests that the script allowed, heard or not.  A request that fails   *)
(* open without a charge is not counted, nor is one that passes because    *)
(* the reply that denies it was lost: no rate holds for those.             *)
WindowBound == Contract!WindowBound

(* Until a request is denied or the clock is set, back or forward, the     *)
(* bucket is not stricter than the promised one either: it enforces        *)
(* exactly the policy.                                                     *)
ExactUntilDenied == exact => \A i \in DOMAIN Stable : level[i] = Effective(bucket, i)

(* The capacity an allowed caller is told is really there: until the next  *)
(* call on the key, at any later time, a request with the same policies    *)
(* that costs no more than that is allowed.                                *)
RemainingIsHonest ==
    LET d == answer.decision
    IN  (d.allowed /\ d.remaining_capacity # Unlimited) =>
            \A c \in Costs :
                c <= d.remaining_capacity => Allowed(bucket, c, answer.policies)

(* A request is never refused because of a stable policy once the key has  *)
(* been left alone for as long as the policy takes to drain its cost,      *)
(* however many denials went before.                                       *)
AdmittedAfterQuiet ==
    \A c \in Costs, p \in Configs : \A i \in DOMAIN Stable :
        (c <= Stable[i].burst /\ c <= bucket.age * Stable[i].flow)
            => Remaining(bucket, c, p, i) >= 0

(* What the proofs add.  The script stores no level above the burst, and   *)
(* what a window has let through and not drained is still in the buckets.  *)
StoredFits == \A i \in DOMAIN Stable : Level(bucket, i) <= Stable[i].burst

Covers(l, w) ==
    /\ ~w.open => w = Contract!Closed
    /\ \A i \in DOMAIN Stable :
          w.spent <= l[i] + Stable[i].flow * w.ticks + Stable[i].burst * w.losses

SpentCovered == Covers(level, window)

(* The inductive invariant.                                                *)
IInv == TypeOK /\ StoredFits /\ NoEarlyExpiry /\ NeverUnderCharged /\ SpentCovered

(* Every step of the bucket is a step of the promised limiter or none.     *)
KeepsPromise == Contract!Spec
=============================================================================
