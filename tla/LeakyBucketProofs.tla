------------------------- MODULE LeakyBucketProofs -------------------------
(***************************************************************************)
(* Facts about the operators of LeakyBucket, for every policy list, entry   *)
(* and cost: what the minimum and the maximum over the policies mean, and   *)
(* what the expiry covers.                                                  *)
(***************************************************************************)
EXTENDS LeakyBucket, FiniteLemmas, SequenceTheorems

-----------------------------------------------------------------------------
(* Rounding up covers what was divided. *)
LEMMA CeilDivCovers ==
    ASSUME NEW a \in Int, NEW b \in Nat \ {0}
    PROVE  CeilDiv(a, b) \in Int /\ a <= CeilDiv(a, b) * b
BY SMTT(30) DEF CeilDiv

-----------------------------------------------------------------------------
(* The positions of a policy list and what is found there. *)
LEMMA PolicyList ==
    ASSUME NEW p \in Seq(Policy), p # <<>>
    PROVE  /\ Len(p) \in Nat \ {0}
           /\ DOMAIN p = 1 .. Len(p)
           /\ \A i \in DOMAIN p : p[i].flow \in Nat \ {0} /\ p[i].burst \in Nat \ {0}
<1>1. Len(p) \in Nat \ {0} /\ DOMAIN p = 1 .. Len(p)
    BY EmptySeq, LenProperties
<1>2. \A i \in 1 .. Len(p) : p[i] \in Policy
    BY ElementOfSeq
<1> QED
    BY <1>1, <1>2 DEF Policy

(* A level read from a well-formed entry is an integer, whether stored or  *)
(* not.                                                                    *)
LEMMA LevelType ==
    ASSUME NEW b \in Bucket, NEW i
    PROVE  Level(b, i) \in Int
<1>1. b.levels \in Seq(Int)
    BY DEF Bucket
<1>2. \A k \in DOMAIN b.levels : b.levels[k] \in Int
    BY <1>1, ElementOfSeq, LenProperties
<1> QED
    BY <1>2 DEF Level

(* What the loop computes for one policy. *)
LEMMA LoopTypes ==
    ASSUME NEW b \in Bucket, NEW c \in Int, NEW p \in Seq(Policy), p # <<>>
    PROVE  /\ NextLevels(b, c, p) \in Seq(Int)
           /\ \A i \in DOMAIN p :
                 /\ Leaked(b, p, i) \in Nat
                 /\ NextLevels(b, c, p)[i] = Leaked(b, p, i) + c
                 /\ Remaining(b, c, p, i) = p[i].burst - (Leaked(b, p, i) + c)
                 /\ Remaining(b, c, p, i) \in Int
<1>1. b.age \in Int
    BY DEF Bucket
<1>2. \A i \in DOMAIN p : Leaked(b, p, i) \in Nat
  <2> SUFFICES ASSUME NEW i \in DOMAIN p PROVE Leaked(b, p, i) \in Nat
      OBVIOUS
  <2>1. b.age * p[i].flow \in Int
      BY <1>1, PolicyList
  <2> QED
      BY <2>1, LevelType DEF Leaked, Larger
<1>3. NextLevels(b, c, p) \in [1 .. Len(p) -> Int]
    BY <1>2, PolicyList DEF NextLevels
<1>4. NextLevels(b, c, p) \in Seq(Int)
    BY <1>3, PolicyList, SeqDef
<1>5. \A i \in DOMAIN p : NextLevels(b, c, p)[i] = Leaked(b, p, i) + c
    BY DEF NextLevels
<1> QED
    BY <1>2, <1>4, <1>5, PolicyList DEF Remaining

(* A request is allowed exactly when every policy has room for it. *)
LEMMA AllowedMeansRoom ==
    ASSUME NEW b \in Bucket, NEW c \in Int, NEW p \in Seq(Policy), p # <<>>
    PROVE  Allowed(b, c, p) <=> \A i \in DOMAIN p : Remaining(b, c, p, i) >= 0
<1> DEFINE f == [i \in 1 .. Len(p) |-> Remaining(b, c, p, i)]
           S == {f[i] : i \in 1 .. Len(p)}
<1>1. Len(p) \in Nat \ {0} /\ DOMAIN p = 1 .. Len(p)
    BY PolicyList
<1>2. f \in [1 .. Len(p) -> Int]
    BY <1>1, LoopTypes
<1>3. \A i \in DOMAIN p : f[i] = Remaining(b, c, p, i)
    BY <1>1
<1>4. {Remaining(b, c, p, i) : i \in DOMAIN p} = S
    BY <1>1, <1>3
<1> HIDE DEF f
<1>5. Min(S) \in S /\ \A i \in 1 .. Len(p) : Min(S) <= f[i]
    BY <1>1, <1>2, MinOfSequence
<1>6. Min(S) \in Int /\ \A i \in 1 .. Len(p) : f[i] \in Int
    BY <1>2, <1>5
<1> QED
    BY <1>1, <1>3, <1>4, <1>5, <1>6 DEF Allowed, FreeCapacity

(* The capacity reported is what some policy has left, and none has less.  *)
LEMMA FreeCapacityFits ==
    ASSUME NEW b \in Bucket, NEW c \in Int, NEW p \in Seq(Policy), p # <<>>
    PROVE  /\ FreeCapacity(b, c, p) \in Int
           /\ \A i \in DOMAIN p : FreeCapacity(b, c, p) <= Remaining(b, c, p, i)
           /\ \E i \in DOMAIN p : FreeCapacity(b, c, p) = Remaining(b, c, p, i)
<1> DEFINE f == [i \in 1 .. Len(p) |-> Remaining(b, c, p, i)]
           S == {f[i] : i \in 1 .. Len(p)}
<1>1. Len(p) \in Nat \ {0} /\ DOMAIN p = 1 .. Len(p)
    BY PolicyList
<1>2. f \in [1 .. Len(p) -> Int]
    BY <1>1, LoopTypes
<1>3. \A i \in DOMAIN p : f[i] = Remaining(b, c, p, i)
    BY <1>1
<1>4. {Remaining(b, c, p, i) : i \in DOMAIN p} = S
    BY <1>1, <1>3
<1> HIDE DEF f
<1>5. Min(S) \in S /\ \A i \in 1 .. Len(p) : Min(S) <= f[i]
    BY <1>1, <1>2, MinOfSequence
<1> QED
    BY <1>1, <1>2, <1>3, <1>4, <1>5 DEF FreeCapacity

(* What is left of a level is a natural number.                            *)
LEMMA LeakedType ==
    ASSUME NEW b \in Bucket, NEW p \in Seq(Policy), p # <<>>, NEW i \in DOMAIN p
    PROVE  Leaked(b, p, i) \in Nat
<1>1. b.age \in Int
    BY DEF Bucket
<1>2. b.age * p[i].flow \in Int
    BY <1>1, PolicyList
<1> QED
    BY <1>2, LevelType DEF Leaked, Larger

(* The limiting index is that of a policy, counted from 1.                 *)
LEMMA LimitingIndexType ==
    ASSUME NEW b \in Bucket, NEW c \in Int, NEW p \in Seq(Policy), p # <<>>
    PROVE  LimitingIndex(b, c, p) \in DOMAIN p
<1> DEFINE S == {i \in DOMAIN p : Remaining(b, c, p, i) = FreeCapacity(b, c, p)}
           f == [i \in 1 .. Len(p) |-> IF i \in S THEN i ELSE Len(p) + 1]
<1>1. Len(p) \in Nat \ {0} /\ DOMAIN p = 1 .. Len(p)
    BY PolicyList
<1>2. PICK s \in DOMAIN p : s \in S
    BY FreeCapacityFits
<1>3. \A i \in S : i \in 1 .. Len(p)
    BY <1>1
<1> HIDE DEF S
<1>4. f \in [1 .. Len(p) -> Int]
    BY <1>1
<1> HIDE DEF f
<1>5. LET F == {f[i] : i \in 1 .. Len(p)}
      IN  Min(F) \in F /\ \A i \in 1 .. Len(p) : Min(F) <= f[i]
    BY <1>1, <1>4, MinOfSequence
<1>6. PICK k \in 1 .. Len(p) : \A i \in 1 .. Len(p) : f[k] <= f[i]
    BY <1>5
<1> USE DEF f
<1>7. f[k] <= s
    BY <1>1, <1>2, <1>6
<1>8. k \in S
  <2> SUFFICES ASSUME k \notin S PROVE FALSE
      OBVIOUS
  <2>1. f[k] = Len(p) + 1 /\ s \in 1 .. Len(p)
      BY <1>1
  <2> QED
      BY <1>1, <1>7, <2>1
<1>9. f[k] = k
    BY <1>8
<1>10. \A i \in S : k =< i
  <2> SUFFICES ASSUME NEW i \in S PROVE k =< i
      OBVIOUS
  <2>1. i \in 1 .. Len(p) /\ f[i] = i
      BY <1>3
  <2> QED
      BY <1>6, <1>9, <2>1
<1>11. Min(S) \in S
    BY <1>8, <1>10 DEF Min
<1>12. LimitingIndex(b, c, p) = Min(S)
    BY DEF LimitingIndex, S
<1> QED
    BY <1>11, <1>12 DEF S

(* The expiry is long enough for every policy to drain both its burst and  *)
(* the level with the request.                                             *)
LEMMA ExpireTimeCovers ==
    ASSUME NEW b \in Bucket, NEW c \in Int, NEW p \in Seq(Policy), p # <<>>,
           NEW i \in DOMAIN p
    PROVE  LET ticks == ExpireTime(b, c, p) * TicksPerSecond
           IN  /\ ticks \in Int
               /\ p[i].burst <= ticks * p[i].flow
               /\ NextLevels(b, c, p)[i] <= ticks * p[i].flow
<1> DEFINE f == [k \in 1 .. Len(p) |-> SecondsToDrain(b, c, p, k)]
           S == {f[k] : k \in 1 .. Len(p)}
           Rate(k) == p[k].flow * TicksPerSecond
           Full(k) == Larger(p[k].burst, NextLevels(b, c, p)[k])
<1>1. Len(p) \in Nat \ {0} /\ DOMAIN p = 1 .. Len(p) /\ TicksPerSecond \in Nat \ {0}
    BY PolicyList, LeakyBucketAssumption
<1>2. \A k \in DOMAIN p : Rate(k) \in Nat \ {0} /\ Full(k) \in Int
  <2> SUFFICES ASSUME NEW k \in DOMAIN p PROVE Rate(k) \in Nat \ {0} /\ Full(k) \in Int
      OBVIOUS
  <2>1. \A x, y \in Nat \ {0} : x * y \in Nat \ {0}
      OBVIOUS
  <2>2. Rate(k) \in Nat \ {0}
      BY <1>1, <2>1, PolicyList
  <2>3. Full(k) \in Int
      BY PolicyList, LoopTypes DEF Larger
  <2> QED
      BY <2>2, <2>3
<1>3. \A k \in DOMAIN p : /\ SecondsToDrain(b, c, p, k) \in Int
                         /\ Full(k) <= SecondsToDrain(b, c, p, k) * Rate(k)
    BY <1>2, CeilDivCovers DEF SecondsToDrain
<1>4. f \in [1 .. Len(p) -> Int]
    BY <1>1, <1>3
<1>5. {SecondsToDrain(b, c, p, k) : k \in DOMAIN p} = S
    BY <1>1
<1>6. f[i] = SecondsToDrain(b, c, p, i)
    BY <1>1
<1> HIDE DEF f
<1>7. Max(S) \in S /\ f[i] <= Max(S)
    BY <1>1, <1>4, MaxOfSequence
<1>8. ExpireTime(b, c, p) = Max(S)
    BY <1>5 DEF ExpireTime
<1>9. ExpireTime(b, c, p) \in Int /\ SecondsToDrain(b, c, p, i) <= ExpireTime(b, c, p)
    BY <1>4, <1>6, <1>7, <1>8
<1>10. \A x, y \in Int, r \in Nat : x <= y => x * r <= y * r
    OBVIOUS
<1>11. Full(i) <= ExpireTime(b, c, p) * Rate(i)
  <2> HIDE DEF Full, Rate
  <2>1. SecondsToDrain(b, c, p, i) * Rate(i) <= ExpireTime(b, c, p) * Rate(i)
      BY <1>2, <1>3, <1>9, <1>10
  <2>2. \A x, y \in Int : x * y \in Int
      OBVIOUS
  <2> QED
      BY <1>2, <1>3, <1>9, <2>1, <2>2
<1>12. \A x \in Int, r, t \in Nat : x * (r * t) = (x * t) * r
    OBVIOUS
<1>13. ExpireTime(b, c, p) * Rate(i) = (ExpireTime(b, c, p) * TicksPerSecond) * p[i].flow
    BY <1>1, <1>9, <1>12, PolicyList
<1>14. p[i].burst <= Full(i) /\ NextLevels(b, c, p)[i] <= Full(i)
    BY PolicyList, LoopTypes DEF Larger
<1>15. p[i].burst \in Int /\ NextLevels(b, c, p)[i] \in Int
    BY PolicyList, LoopTypes
<1> HIDE DEF Full, Rate
<1> QED
    BY <1>1, <1>2, <1>9, <1>11, <1>13, <1>14, <1>15

(* A longer drain takes no fewer seconds, and any drain at least one.      *)
LEMMA CeilDivMonotone ==
    ASSUME NEW a1 \in Int, NEW a2 \in Int, a1 <= a2, NEW b \in Nat \ {0}
    PROVE  CeilDiv(a1, b) <= CeilDiv(a2, b) /\ (1 <= a1 => 1 <= CeilDiv(a1, b))
<1> DEFINE x1 == a1 + b - 1
           x2 == a2 + b - 1
           q1 == x1 \div b
           q2 == x2 \div b
<1>1. x1 \in Int /\ x2 \in Int /\ x1 <= x2 /\ (1 <= a1 => b <= x1)
    OBVIOUS
<1> HIDE DEF x1, x2
<1>2. q1 \in Int /\ b * q1 <= x1 /\ x1 < b * q1 + b
    BY <1>1, SMTT(30)
<1>3. q2 \in Int /\ b * q2 <= x2 /\ x2 < b * q2 + b
    BY <1>1, SMTT(30)
<1> HIDE DEF q1, q2
<1>4. \A k, n \in Int : k + 1 <= n => b * k + b <= b * n
  <2> SUFFICES ASSUME NEW k \in Int, NEW n \in Int, k + 1 <= n PROVE b * k + b <= b * n
      OBVIOUS
  <2>1. \A d \in Nat, e \in Nat : d * e \in Nat
      OBVIOUS
  <2>2. b * (n - (k + 1)) \in Nat
      BY <2>1
  <2>3. b * (n - (k + 1)) = b * n - (b * k + b) /\ b * n \in Int /\ b * k \in Int
      OBVIOUS
  <2> QED
      BY <2>2, <2>3
<1>5. \A k \in Int : b * k \in Int
    OBVIOUS
<1>6. q1 <= q2
  <2> SUFFICES ASSUME q2 + 1 <= q1 PROVE FALSE
      BY <1>2, <1>3
  <2>1. b * q2 + b <= b * q1
      BY <1>2, <1>3, <1>4
  <2> QED
      BY <1>1, <1>2, <1>3, <1>5, <2>1
<1>7. 1 <= a1 => 1 <= q1
  <2> SUFFICES ASSUME b <= x1, q1 + 1 <= 1 PROVE FALSE
      BY <1>1, <1>2
  <2>1. b * q1 + b <= b * 1
      BY <1>2, <1>4
  <2> QED
      BY <1>1, <1>2, <1>5, <2>1
<1> QED
    BY <1>6, <1>7 DEF CeilDiv, q1, q2, x1, x2

(* The expiry of an entry that holds no more, policy by policy, is no      *)
(* later; no expiry is less than a second.                                 *)
LEMMA ExpireTimeMonotone ==
    ASSUME NEW b1 \in Bucket, NEW b2 \in Bucket, NEW c \in Int,
           NEW p \in Seq(Policy), p # <<>>,
           \A i \in DOMAIN p : \/ Leaked(b1, p, i) <= Leaked(b2, p, i)
                               \/ NextLevels(b1, c, p)[i] <= p[i].burst
    PROVE  /\ ExpireTime(b1, c, p) \in Int /\ ExpireTime(b2, c, p) \in Int
           /\ 1 <= ExpireTime(b1, c, p)
           /\ ExpireTime(b1, c, p) <= ExpireTime(b2, c, p)
<1> DEFINE f1 == [k \in 1 .. Len(p) |-> SecondsToDrain(b1, c, p, k)]
           f2 == [k \in 1 .. Len(p) |-> SecondsToDrain(b2, c, p, k)]
           S1 == {f1[k] : k \in 1 .. Len(p)}
           S2 == {f2[k] : k \in 1 .. Len(p)}
           Rate(k) == p[k].flow * TicksPerSecond
           Full1(k) == Larger(p[k].burst, NextLevels(b1, c, p)[k])
           Full2(k) == Larger(p[k].burst, NextLevels(b2, c, p)[k])
<1>1. Len(p) \in Nat \ {0} /\ DOMAIN p = 1 .. Len(p) /\ TicksPerSecond \in Nat \ {0}
    BY PolicyList, LeakyBucketAssumption
<1>2. ASSUME NEW k \in DOMAIN p
      PROVE  /\ Rate(k) \in Nat \ {0} /\ Full1(k) \in Int /\ Full2(k) \in Int
             /\ 1 <= Full1(k) /\ Full1(k) <= Full2(k)
  <2>1. \A x, y \in Nat \ {0} : x * y \in Nat \ {0}
      OBVIOUS
  <2>2. Rate(k) \in Nat \ {0}
      BY <1>1, <2>1, PolicyList
  <2>3. p[k].burst \in Nat \ {0}
      BY PolicyList
  <2>4. /\ NextLevels(b1, c, p)[k] = Leaked(b1, p, k) + c /\ Leaked(b1, p, k) \in Int
        /\ NextLevels(b2, c, p)[k] = Leaked(b2, p, k) + c /\ Leaked(b2, p, k) \in Int
      BY LoopTypes
  <2>5. \/ NextLevels(b1, c, p)[k] <= NextLevels(b2, c, p)[k]
        \/ NextLevels(b1, c, p)[k] <= p[k].burst
      BY <2>4
  <2> QED
      BY <2>2, <2>3, <2>4, <2>5 DEF Larger
<1>3. ASSUME NEW k \in DOMAIN p
      PROVE  /\ SecondsToDrain(b1, c, p, k) \in Int /\ SecondsToDrain(b2, c, p, k) \in Int
             /\ 1 <= SecondsToDrain(b1, c, p, k)
             /\ SecondsToDrain(b1, c, p, k) <= SecondsToDrain(b2, c, p, k)
  <2> HIDE DEF Rate, Full1, Full2
  <2>1. SecondsToDrain(b1, c, p, k) = CeilDiv(Full1(k), Rate(k))
      BY DEF SecondsToDrain, Rate, Full1
  <2>2. SecondsToDrain(b2, c, p, k) = CeilDiv(Full2(k), Rate(k))
      BY DEF SecondsToDrain, Rate, Full2
  <2> QED
      BY <1>2, <2>1, <2>2, CeilDivCovers, CeilDivMonotone
<1>4. f1 \in [1 .. Len(p) -> Int] /\ f2 \in [1 .. Len(p) -> Int]
    BY <1>1, <1>3
<1>5. \A k \in 1 .. Len(p) : 1 <= f1[k] /\ f1[k] <= f2[k]
    BY <1>1, <1>3
<1>6. ExpireTime(b1, c, p) = Max(S1) /\ ExpireTime(b2, c, p) = Max(S2)
  <2>1. {SecondsToDrain(b1, c, p, k) : k \in DOMAIN p} = S1
      BY <1>1
  <2>2. {SecondsToDrain(b2, c, p, k) : k \in DOMAIN p} = S2
      BY <1>1
  <2> QED
      BY <2>1, <2>2 DEF ExpireTime
<1> HIDE DEF f1, f2
<1>7. Max(S1) \in S1
    BY <1>1, <1>4, MaxOfSequence
<1>8. Max(S2) \in S2 /\ \A k \in 1 .. Len(p) : f2[k] <= Max(S2)
    BY <1>1, <1>4, MaxOfSequence
<1>9. PICK k \in 1 .. Len(p) : Max(S1) = f1[k]
    BY <1>7
<1>10. f1[k] \in Int /\ f2[k] \in Int /\ Max(S2) \in Int
    BY <1>4, <1>8
<1>11. 1 <= f1[k] /\ f1[k] <= f2[k] /\ f2[k] <= Max(S2)
    BY <1>5, <1>8
<1> QED
    BY <1>6, <1>9, <1>10, <1>11

(* What the script answers.                                                *)
LEMMA ReplyType ==
    ASSUME NEW b \in Bucket, NEW c \in Int, NEW p \in Seq(Policy), p # <<>>
    PROVE  /\ Reply(b, c, p).allowed = Allowed(b, c, p) /\ Allowed(b, c, p) \in BOOLEAN
           /\ Reply(b, c, p).capacity_or_deny \in Int
           /\ Reply(b, c, p).limiting_index \in Nat \ {0}
           /\ DenyCount(b, c) \in -MaxDeny .. MaxDeny
           /\ b.deny + c >= 0 => DenyCount(b, c) >= 0
<1>1. /\ DenyCount(b, c) \in -MaxDeny .. MaxDeny
      /\ b.deny + c >= 0 => DenyCount(b, c) >= 0
    BY LeakyBucketAssumption DEF DenyCount, Larger, Smaller, Bucket
<1>2. LimitingIndex(b, c, p) \in Nat \ {0}
    BY LimitingIndexType, PolicyList
<1>3. FreeCapacity(b, c, p) \in Int
    BY FreeCapacityFits
<1>4. Allowed(b, c, p) \in BOOLEAN
    BY DEF Allowed
<1> QED
    BY <1>1, <1>2, <1>3, <1>4, LeakyBucketAssumption DEF Reply

(* What the script stores is a well-formed entry again.                    *)
LEMMA StoredType ==
    ASSUME NEW b \in Bucket, NEW c \in Int, NEW p \in Seq(Policy), p # <<>>,
           Storable(b, c, p)
    PROVE  Stored(b, c, p) \in Bucket
<1>1. ExpireTime(b, c, p) * TicksPerSecond \in Nat
    BY LeakyBucketAssumption DEF Storable
<1>2. DenyCount(b, c) \in -MaxDeny .. MaxDeny
    BY LeakyBucketAssumption DEF DenyCount, Larger, Smaller, Bucket
<1>3. 0 \in -MaxDeny .. MaxDeny
    BY LeakyBucketAssumption
<1>4. NextLevels(b, c, p) \in Seq(Int) /\ b.levels \in Seq(Int)
    BY LoopTypes DEF Bucket
<1> QED
    BY <1>1, <1>2, <1>3, <1>4 DEF Stored, Bucket
=============================================================================
