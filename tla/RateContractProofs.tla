------------------------- MODULE RateContractProofs -------------------------
(***************************************************************************)
(* The promise is kept for every set of configurations, costs and faults,  *)
(* until a request is denied or the clock is set back exactly, and a       *)
(* caller is told the truth about what it left.                            *)
(*                                                                         *)
(* The argument.  What the script starts from, the effective level of a    *)
(* policy, is never below the promised level (NeverUnderCharged).  A tick  *)
(* preserves that unless the key expires, which it does only once it has   *)
(* drained (NoEarlyExpiry), which in turn rests on every stored level      *)
(* being within the burst the ttl was computed from (StoredFits): these    *)
(* two make an entry Sound.  An allowed request therefore fits in the      *)
(* promised buckets too.  The window is bounded because what it let        *)
(* through and did not drain is still in the buckets (SpentCovered).       *)
(* IInv, their conjunction, is inductive: one lemma per action below.      *)
(*                                                                         *)
(* Then what the answers are worth.  Exactness: with last_time not in the  *)
(* future, what the script starts from is the effective level, which       *)
(* drains as the promised level does and takes the same charges.  When the *)
(* key goes, NeverUnderCharged leaves nothing in the promised bucket       *)
(* either.  Honesty: an allowed request stores the levels it was measured  *)
(* by, so what it leaves of each burst is at least the capacity it is      *)
(* told; afterwards levels only leak or go.  A negative cost is told of    *)
(* more than a burst when it takes a level below zero, and a clock set     *)
(* back raises levels: both are excluded.                                  *)
(***************************************************************************)
EXTENDS RateContract, LeakyBucketProofs

-----------------------------------------------------------------------------
(* Arithmetic the solver is not asked to find twice. *)
LEMMA TimesType == \A x, y \in Int : x * y \in Int
OBVIOUS

(* Products grow with their first factor.                                  *)
LEMMA TimesMonotone == \A x, y \in Int, f \in Nat : x <= y => x * f <= y * f
OBVIOUS

(* One more tick, or one more unit of flow.                                *)
LEMMA TimesSuccessor == \A x, f \in Int : (x + 1) * f = x * f + f /\ f * (x + 1) = f * x + f
OBVIOUS

(* The numbers of a stable policy are positive, as validation demands.     *)
LEMMA StableRate ==
    ASSUME NEW i \in DOMAIN Stable
    PROVE  Stable[i].flow \in Nat \ {0} /\ Stable[i].burst \in Nat \ {0}
BY StableAssumption DEF Policy

(* Every list a request may carry is one the script can run over, and has  *)
(* each stable policy in its place.                                        *)
LEMMA ConfigShape ==
    ASSUME NEW p \in Configs
    PROVE  /\ p \in Seq(Policy) /\ p # <<>>
           /\ \A i \in DOMAIN Stable : i \in DOMAIN p /\ p[i] = Stable[i]
BY RateBucketAssumption, StableAssumption

(* What is left of a level is a natural number.                            *)
LEMMA EffectiveType ==
    ASSUME NEW b \in Bucket, NEW i \in DOMAIN Stable
    PROVE  Effective(b, i) \in Nat
<1>1. Larger(0, b.age) \in Int
    BY DEF Bucket, Larger
<1>2. Larger(0, b.age) * Stable[i].flow \in Int
    BY <1>1, StableRate, TimesType
<1> QED
    BY <1>2, LevelType DEF Effective, Larger

(* An absent key is a well-formed, empty entry.                            *)
LEMMA NoBucketType == NoBucket \in Bucket /\ \A i : Level(NoBucket, i) = 0
<1>1. <<>> \in Seq(Int) /\ DOMAIN <<>> = {}
    BY EmptySeq
<1> QED
    BY <1>1, LeakyBucketAssumption DEF NoBucket, Bucket, Level

-----------------------------------------------------------------------------
(* The entry as time and the clock move it: the levels stay, what the age  *)
(* gains the time to live loses, and the levels are drained by no more     *)
(* than n ticks allow.                                                     *)
LEMMA AgedBucket ==
    ASSUME NEW b \in Bucket, NEW n \in Int
    PROVE  /\ Aged(b, n) \in Bucket
           /\ \/ Aged(b, n) = NoBucket /\ ~(b.live /\ b.ttl >= n)
              \/ /\ b.live /\ b.ttl >= n
                 /\ Aged(b, n).live
                 /\ Aged(b, n).age = b.age + n
                 /\ Aged(b, n).ttl = b.ttl - n
                 /\ \A i : Level(Aged(b, n), i) = Level(b, i)
<1>1. CASE b.live /\ b.ttl >= n
  <2>1. Aged(b, n) = [b EXCEPT !.age = b.age + n, !.ttl = b.ttl - n]
      BY <1>1 DEF Aged
  <2>2. b.age \in Int /\ b.ttl \in Nat /\ b.ttl - n \in Nat
      BY <1>1 DEF Bucket
  <2>3. /\ Aged(b, n) \in Bucket
        /\ Aged(b, n).levels = b.levels /\ Aged(b, n).live = b.live
        /\ Aged(b, n).age = b.age + n /\ Aged(b, n).ttl = b.ttl - n
    <3>1. Aged(b, n) = [live |-> b.live, age |-> b.age + n, ttl |-> b.ttl - n,
                        deny |-> b.deny, levels |-> b.levels]
        BY <2>1 DEF Bucket
    <3>2. b.live \in BOOLEAN /\ b.deny \in -MaxDeny .. MaxDeny /\ b.levels \in Seq(Int)
        BY DEF Bucket
    <3> HIDE DEF Aged
    <3> QED
        BY <3>1, <3>2, <2>2 DEF Bucket
  <2>4. \A i : Level(Aged(b, n), i) = Level(b, i)
      BY <2>3 DEF Level
  <2> QED
      BY <1>1, <2>3, <2>4
<1>2. CASE ~(b.live /\ b.ttl >= n)
    BY <1>2, NoBucketType DEF Aged
<1> QED
    BY <1>1, <1>2

(* An entry whose time to live is over has drained. *)
LEMMA DrainedAtExpiry ==
    ASSUME NEW b \in Bucket, NEW i \in DOMAIN Stable, b.ttl = 0,
           Level(b, i) <= (b.age + b.ttl) * Stable[i].flow
    PROVE  Effective(b, i) = 0
<1>1. b.age \in Int /\ b.age <= Larger(0, b.age) /\ Larger(0, b.age) \in Int
    BY DEF Bucket, Larger
<1>2. b.age * Stable[i].flow <= Larger(0, b.age) * Stable[i].flow
    BY <1>1, StableRate, TimesMonotone
<1>3. Level(b, i) <= b.age * Stable[i].flow
    BY <1>1
<1> DEFINE x == Larger(0, b.age) * Stable[i].flow
           y == b.age * Stable[i].flow
<1>4. x \in Int /\ y \in Int /\ Level(b, i) \in Int
    BY <1>1, StableRate, TimesType, LevelType
<1>5. Effective(b, i) = Larger(0, Level(b, i) - x)
    BY DEF Effective
<1> HIDE DEF x, y
<1>6. Level(b, i) <= x
    BY <1>2, <1>3, <1>4 DEF x, y
<1> QED
    BY <1>4, <1>5, <1>6 DEF Larger

(* One tick drains at most one tick's flow. *)
LEMMA EffectiveAfterTick ==
    ASSUME NEW b \in Bucket, NEW i \in DOMAIN Stable,
           b.live => Level(b, i) <= (b.age + b.ttl) * Stable[i].flow,
           ~b.live => b = NoBucket
    PROVE  Contract!Positive(Effective(b, i) - Stable[i].flow) <= Effective(Aged(b, 1), i)
<1> DEFINE f == Stable[i].flow
           a == Larger(0, b.age)
           a1 == Larger(0, b.age + 1)
<1>1. f \in Nat /\ Level(b, i) \in Int /\ b.age \in Int
    BY StableRate, LevelType DEF Bucket
<1>2. a \in Nat /\ a1 \in Nat /\ a1 <= a + 1
    BY <1>1 DEF Larger
<1>3. Effective(Aged(b, 1), i) \in Nat /\ Effective(b, i) \in Nat
    BY AgedBucket, EffectiveType
<1>4. CASE b.live /\ b.ttl >= 1
  <2>1. Effective(Aged(b, 1), i) = Larger(0, Level(b, i) - a1 * f)
      BY <1>4, AgedBucket DEF Effective, NoBucket
  <2>2. Effective(b, i) = Larger(0, Level(b, i) - a * f)
      BY DEF Effective
  <2> HIDE DEF f, a, a1
  <2>3. a1 * f <= a * f + f
    <3>1. a1 * f <= (a + 1) * f
        BY <1>1, <1>2, TimesMonotone
    <3>2. (a + 1) * f = a * f + f
        BY <1>1, <1>2, TimesSuccessor
    <3> QED
        BY <3>1, <3>2
  <2>4. a1 * f \in Int /\ a * f \in Int
      BY <1>1, <1>2, TimesType
  <2>5. Contract!Positive(Effective(b, i) - f) <= Effective(Aged(b, 1), i)
      BY <1>1, <2>1, <2>2, <2>3, <2>4 DEF Larger, Contract!Positive
  <2> QED
      BY <2>5 DEF f
<1>5. CASE ~(b.live /\ b.ttl >= 1)
  <2>1. Effective(b, i) = 0
    <3>1. CASE b.live
      <4>1. b.ttl = 0
          BY <1>5, <3>1 DEF Bucket
      <4> QED
          BY <3>1, <4>1, DrainedAtExpiry
    <3>2. CASE ~b.live
      <4>1. b = NoBucket /\ Level(b, i) = 0
          BY <3>2, NoBucketType
      <4>2. Larger(0, b.age) = 0
          BY <4>1 DEF NoBucket, Larger
      <4> QED
          BY <1>1, <4>1, <4>2 DEF Effective, Larger
    <3> QED
        BY <3>1, <3>2
  <2> QED
      BY <1>1, <1>3, <2>1 DEF Contract!Positive
<1> QED
    BY <1>4, <1>5

(* A clock set back drains nothing. *)
LEMMA EffectiveAfterSetBack ==
    ASSUME NEW b \in Bucket, NEW i \in DOMAIN Stable, NEW n \in Nat, b.live
    PROVE  Effective(b, i) <= Effective(Aged(b, -n), i)
<1> DEFINE f == Stable[i].flow
           a == Larger(0, b.age)
           a1 == Larger(0, b.age - n)
<1>1. f \in Nat /\ Level(b, i) \in Int /\ b.age \in Int /\ b.ttl \in Nat
    BY StableRate, LevelType DEF Bucket
<1>2. a \in Nat /\ a1 \in Nat /\ a1 <= a
    BY <1>1 DEF Larger
<1>3. -n \in Int /\ b.ttl >= -n /\ b.age + (-n) = b.age - n
    BY <1>1
<1>4. Effective(Aged(b, -n), i) = Larger(0, Level(b, i) - a1 * f)
    BY <1>3, AgedBucket DEF Effective
<1>5. Effective(b, i) = Larger(0, Level(b, i) - a * f)
    BY DEF Effective
<1> HIDE DEF f, a, a1
<1>6. a1 * f <= a * f /\ a1 * f \in Int /\ a * f \in Int
    BY <1>1, <1>2, TimesMonotone, TimesType
<1> QED
    BY <1>1, <1>4, <1>5, <1>6 DEF Larger
-----------------------------------------------------------------------------
(* The entry as a run of the script leaves it. *)
LEMMA ScriptedBucket ==
    ASSUME NEW b \in Bucket, NEW c \in Costs, NEW p \in Configs, Storable(b, c, p),
           NEW i \in DOMAIN Stable, Level(b, i) <= Stable[i].burst
    PROVE  LET s == Stored(b, c, p)
           IN  /\ s \in Bucket /\ s.live /\ s.age = 0
               /\ Allowed(b, c, p) => Level(s, i) = Leaked(b, p, i) + c
               /\ ~Allowed(b, c, p) => Level(s, i) = Level(b, i)
               /\ Level(s, i) <= Stable[i].burst
               /\ Level(s, i) <= (s.age + s.ttl) * Stable[i].flow
               /\ Effective(s, i) = Larger(0, Level(s, i))
<1> DEFINE s == Stored(b, c, p)
<1>1. c \in Int /\ p \in Seq(Policy) /\ p # <<>> /\ i \in DOMAIN p /\ p[i] = Stable[i]
    BY RateBucketAssumption, ConfigShape
<1>2. s \in Bucket
    BY <1>1, StoredType
<1>3. s.live /\ s.age = 0 /\ s.ttl = ExpireTime(b, c, p) * TicksPerSecond
    BY DEF Stored
<1>4. /\ s.ttl \in Int
      /\ Stable[i].burst <= s.ttl * Stable[i].flow
      /\ NextLevels(b, c, p)[i] <= s.ttl * Stable[i].flow
    BY <1>1, <1>3, ExpireTimeCovers
<1>5. Allowed(b, c, p) => Level(s, i) = NextLevels(b, c, p)[i]
  <2> SUFFICES ASSUME Allowed(b, c, p) PROVE Level(s, i) = NextLevels(b, c, p)[i]
      OBVIOUS
  <2>1. s.levels = NextLevels(b, c, p)
      BY DEF Stored
  <2>2. i \in DOMAIN NextLevels(b, c, p)
      BY <1>1 DEF NextLevels
  <2> QED
      BY <2>1, <2>2 DEF Level
<1>6. ~Allowed(b, c, p) => Level(s, i) = Level(b, i)
    BY DEF Stored, Level
<1>7. /\ NextLevels(b, c, p)[i] = Leaked(b, p, i) + c
      /\ Remaining(b, c, p, i) = Stable[i].burst - NextLevels(b, c, p)[i]
      /\ NextLevels(b, c, p)[i] \in Int
    BY <1>1, LoopTypes DEF Remaining
<1>8. Allowed(b, c, p) => NextLevels(b, c, p)[i] <= Stable[i].burst
    BY <1>1, <1>7, AllowedMeansRoom, StableRate
<1>9. Level(b, i) \in Int /\ Level(s, i) \in Int
    BY <1>2, LevelType
<1> HIDE DEF s
<1>10. Level(s, i) <= Stable[i].burst
    BY <1>5, <1>6, <1>8
<1>11. Level(s, i) <= (s.age + s.ttl) * Stable[i].flow
  <2>1. s.age + s.ttl = s.ttl
      BY <1>3, <1>4
  <2>2. s.ttl * Stable[i].flow \in Int
      BY <1>4, StableRate, TimesType
  <2> QED
      BY <1>4, <1>9, <1>10, <2>1, <2>2, StableRate
<1>12. Effective(s, i) = Larger(0, Level(s, i))
  <2>1. Larger(0, s.age) = 0
      BY <1>3 DEF Larger
  <2>2. 0 * Stable[i].flow = 0
      BY StableRate
  <2> QED
      BY <1>9, <2>1, <2>2 DEF Effective
<1> QED
    BY <1>2, <1>3, <1>5, <1>6, <1>7, <1>10, <1>11, <1>12 DEF s

(* The script starts from no less than what is left in the entry. *)
LEMMA LeakedCoversEffective ==
    ASSUME NEW b \in Bucket, NEW p \in Configs, NEW i \in DOMAIN Stable
    PROVE  Leaked(b, p, i) \in Nat /\ Effective(b, i) <= Leaked(b, p, i)
<1> DEFINE f == Stable[i].flow
           a == Larger(0, b.age)
<1>1. f \in Nat /\ Level(b, i) \in Int /\ b.age \in Int
    BY StableRate, LevelType DEF Bucket
<1>2. a \in Nat /\ b.age <= a
    BY <1>1 DEF Larger
<1>3. Leaked(b, p, i) = Larger(0, Level(b, i) - b.age * f)
    BY ConfigShape DEF Leaked
<1>4. Effective(b, i) = Larger(0, Level(b, i) - a * f)
    BY DEF Effective
<1> HIDE DEF f, a
<1>5. b.age * f <= a * f /\ b.age * f \in Int /\ a * f \in Int
    BY <1>1, <1>2, TimesMonotone, TimesType
<1> QED
    BY <1>1, <1>3, <1>4, <1>5 DEF Larger
-----------------------------------------------------------------------------
(* The observer's window beside the promised buckets. *)
LEMMA ClosedWindow ==
    /\ Contract!Closed \in Windows
    /\ \A l \in [DOMAIN Stable -> Nat] : Covers(l, Contract!Closed)
<1>1. Contract!Closed \in Windows
    BY StableAssumption DEF Contract!Closed, Windows
<1>2. ASSUME NEW l \in [DOMAIN Stable -> Nat], NEW i \in DOMAIN Stable
      PROVE  Contract!Closed.spent <= l[i] + Stable[i].flow * Contract!Closed.ticks
                                           + Stable[i].burst * Contract!Closed.losses
  <2>1. Contract!Closed.spent = 0 /\ Contract!Closed.ticks = 0 /\ Contract!Closed.losses = 0
      BY DEF Contract!Closed
  <2>2. l[i] \in Nat
      OBVIOUS
  <2> QED
      BY <2>1, <2>2, StableRate
<1> QED
    BY <1>1, <1>2 DEF Covers

(* The fields of a window, and the record they make.                       *)
LEMMA WindowType ==
    ASSUME NEW w \in Windows
    PROVE  /\ w.open \in BOOLEAN /\ w.spent \in Nat
           /\ w.ticks \in 0 .. MaxWindow /\ w.losses \in 0 .. MaxLosses
           /\ w = [open |-> w.open, ticks |-> w.ticks, spent |-> w.spent, losses |-> w.losses]
BY DEF Windows

(* A tick keeps the tokens of a window covered: what drains from the       *)
(* bucket is what the flow adds to its allowance.                          *)
LEMMA WindowOverTick ==
    ASSUME NEW l \in [DOMAIN Stable -> Nat], NEW w \in Windows, Covers(l, w)
    PROVE  /\ Contract!Drain(l) \in [DOMAIN Stable -> Nat]
           /\ Contract!Lengthen(w) \in Windows
           /\ Covers(Contract!Drain(l), Contract!Lengthen(w))
<1>1. Contract!Drain(l) \in [DOMAIN Stable -> Nat]
    BY StableRate DEF Contract!Drain, Contract!Positive
<1>2. CASE ~w.open \/ w.ticks >= MaxWindow
  <2>1. Contract!Lengthen(w) = Contract!Closed
      BY <1>2 DEF Contract!Lengthen
  <2> QED
      BY <1>1, <2>1, ClosedWindow
<1>3. CASE w.open /\ w.ticks < MaxWindow
  <2> DEFINE v == [open |-> w.open, ticks |-> w.ticks + 1, spent |-> w.spent, losses |-> w.losses]
  <2>1. Contract!Lengthen(w) = v
    <3>1. Contract!Lengthen(w) = [w EXCEPT !.ticks = w.ticks + 1]
        BY <1>3, WindowType, StableAssumption DEF Contract!Lengthen
    <3>2. [w EXCEPT !.ticks = w.ticks + 1] = v
        BY DEF Windows
    <3> QED
        BY <3>1, <3>2
  <2>2. v \in Windows
      BY <1>3, WindowType, StableAssumption DEF Windows
  <2>3. ASSUME NEW i \in DOMAIN Stable
        PROVE  w.spent <= Contract!Drain(l)[i] + Stable[i].flow * (w.ticks + 1)
                                               + Stable[i].burst * w.losses
    <3> DEFINE f == Stable[i].flow
               n == Stable[i].burst * w.losses
    <3>1. l[i] \in Nat /\ f \in Nat /\ w.ticks \in Nat /\ w.spent \in Nat /\ w.losses \in Nat
        BY StableRate, WindowType
    <3>2. n \in Int /\ f * w.ticks \in Int
        BY <3>1, StableRate, TimesType
    <3>3. Contract!Drain(l)[i] = Contract!Positive(l[i] - f)
        BY DEF Contract!Drain
    <3>4. w.spent <= l[i] + f * w.ticks + n
        BY DEF Covers
    <3> HIDE DEF f, n
    <3>5. f * (w.ticks + 1) = f * w.ticks + f
        BY <3>1, TimesSuccessor
    <3>6. w.spent <= Contract!Positive(l[i] - f) + f * (w.ticks + 1) + n
        BY <3>1, <3>2, <3>4, <3>5 DEF Contract!Positive
    <3> QED
        BY <3>3, <3>6 DEF f, n
  <2>4. Covers(Contract!Drain(l), v)
      BY <1>3, <2>3 DEF Covers
  <2> QED
      BY <1>1, <2>1, <2>2, <2>4
<1> QED
    BY <1>2, <1>3, WindowType, StableAssumption

(* A request that is let through adds its cost to both sides.              *)
LEMMA WindowOverCharge ==
    ASSUME NEW l \in [DOMAIN Stable -> Nat], NEW w \in Windows, Covers(l, w), NEW c \in Int
    PROVE  /\ Contract!Charge(l, c) \in [DOMAIN Stable -> Nat]
           /\ Contract!Spend(w, c) \in Windows
           /\ Covers(Contract!Charge(l, c), Contract!Spend(w, c))
<1>1. Contract!Charge(l, c) \in [DOMAIN Stable -> Nat]
    BY DEF Contract!Charge, Contract!Positive
<1>2. CASE ~w.open
  <2>1. Contract!Spend(w, c) = Contract!Closed
      BY <1>2 DEF Contract!Spend, Covers
  <2> QED
      BY <1>1, <2>1, ClosedWindow
<1>3. CASE w.open
  <2> DEFINE v == [open |-> w.open, ticks |-> w.ticks,
                   spent |-> Contract!Positive(w.spent + c), losses |-> w.losses]
  <2>1. Contract!Spend(w, c) = v
    <3>1. Contract!Spend(w, c) = [w EXCEPT !.spent = Contract!Positive(w.spent + c)]
        BY <1>3, WindowType DEF Contract!Spend
    <3>2. [w EXCEPT !.spent = Contract!Positive(w.spent + c)] = v
        BY DEF Windows
    <3> QED
        BY <3>1, <3>2
  <2>2. v \in Windows
      BY WindowType DEF Windows, Contract!Positive
  <2>3. ASSUME NEW i \in DOMAIN Stable
        PROVE  Contract!Positive(w.spent + c)
                  <= Contract!Charge(l, c)[i] + Stable[i].flow * w.ticks
                                              + Stable[i].burst * w.losses
    <3> DEFINE m == Stable[i].flow * w.ticks
               n == Stable[i].burst * w.losses
    <3>1. l[i] \in Nat /\ w.spent \in Nat
        BY WindowType
    <3>2. m \in Nat /\ n \in Nat
      <4>1. \A x, y \in Nat : x * y \in Nat
          OBVIOUS
      <4> QED
          BY <4>1, WindowType, StableRate, StableAssumption
    <3>3. Contract!Charge(l, c)[i] = Contract!Positive(l[i] + c)
        BY DEF Contract!Charge
    <3>4. w.spent <= l[i] + m + n
        BY DEF Covers
    <3> HIDE DEF m, n
    <3>5. Contract!Positive(w.spent + c) <= Contract!Positive(l[i] + c) + m + n
        BY <3>1, <3>2, <3>4 DEF Contract!Positive
    <3> QED
        BY <3>3, <3>5 DEF m, n
  <2>4. Covers(Contract!Charge(l, c), v)
      BY <1>3, <2>3 DEF Covers
  <2> QED
      BY <1>1, <2>1, <2>2, <2>4
<1> QED
    BY <1>2, <1>3, WindowType

(* Losing the state adds a burst to the allowance, and no more than a      *)
(* burst was lost.                                                         *)
LEMMA WindowOverLoss ==
    ASSUME NEW l \in [DOMAIN Stable -> Nat], NEW w \in Windows, Covers(l, w),
           \A i \in DOMAIN Stable : l[i] <= Stable[i].burst
    PROVE  /\ Contract!Empty \in [DOMAIN Stable -> Nat]
           /\ Contract!Damage(w) \in Windows
           /\ Covers(Contract!Empty, Contract!Damage(w))
<1>1. Contract!Empty \in [DOMAIN Stable -> Nat]
    BY DEF Contract!Empty
<1>2. CASE ~w.open \/ w.losses >= MaxLosses
  <2>1. Contract!Damage(w) = Contract!Closed
      BY <1>2 DEF Contract!Damage
  <2> QED
      BY <1>1, <2>1, ClosedWindow
<1>3. CASE w.open /\ w.losses < MaxLosses
  <2> DEFINE v == [open |-> w.open, ticks |-> w.ticks, spent |-> w.spent, losses |-> w.losses + 1]
  <2>1. Contract!Damage(w) = v
    <3>1. Contract!Damage(w) = [w EXCEPT !.losses = w.losses + 1]
        BY <1>3, WindowType, StableAssumption DEF Contract!Damage
    <3>2. [w EXCEPT !.losses = w.losses + 1] = v
        BY DEF Windows
    <3> QED
        BY <3>1, <3>2
  <2>2. v \in Windows
      BY <1>3, WindowType, StableAssumption DEF Windows
  <2>3. ASSUME NEW i \in DOMAIN Stable
        PROVE  w.spent <= Contract!Empty[i] + Stable[i].flow * w.ticks
                                            + Stable[i].burst * (w.losses + 1)
    <3> DEFINE m == Stable[i].flow * w.ticks
               n == Stable[i].burst * w.losses
               k == Stable[i].burst * (w.losses + 1)
    <3>1. l[i] \in Nat /\ w.spent \in Nat /\ w.losses \in Int /\ w.ticks \in Int
          /\ Stable[i].burst \in Int
        BY WindowType, StableRate
    <3>2. m \in Int /\ n \in Int
        BY <3>1, StableRate, TimesType
    <3>3. Contract!Empty[i] = 0
        BY DEF Contract!Empty
    <3>4. w.spent <= l[i] + m + n /\ l[i] <= Stable[i].burst
        BY DEF Covers
    <3>5. k = n + Stable[i].burst
        BY <3>1, TimesSuccessor
    <3> HIDE DEF m, n, k
    <3>6. w.spent <= 0 + m + k
        BY <3>1, <3>2, <3>4, <3>5
    <3> QED
        BY <3>3, <3>6 DEF m, k
  <2>4. Covers(Contract!Empty, v)
      BY <1>3, <2>3 DEF Covers
  <2> QED
      BY <1>1, <2>1, <2>2, <2>4
<1> QED
    BY <1>2, <1>3, WindowType, StableAssumption
-----------------------------------------------------------------------------
(* What the invariant says of an entry for one stable policy. *)
Sound(b, i) ==
    /\ Level(b, i) <= Stable[i].burst
    /\ b.live => Level(b, i) <= (b.age + b.ttl) * Stable[i].flow

(* An absent key is sound.                                                 *)
LEMMA SoundNoBucket ==
    ASSUME NEW i \in DOMAIN Stable
    PROVE  Sound(NoBucket, i)
<1>1. Level(NoBucket, i) = 0 /\ NoBucket.live = FALSE
    BY NoBucketType DEF NoBucket
<1> QED
    BY <1>1, StableRate DEF Sound

(* Time and clock steps keep an entry sound: levels do not change and the  *)
(* deadline does not move.                                                 *)
LEMMA SoundAged ==
    ASSUME NEW b \in Bucket, NEW n \in Int, NEW i \in DOMAIN Stable, Sound(b, i)
    PROVE  Sound(Aged(b, n), i)
<1>1. CASE Aged(b, n) = NoBucket
    BY <1>1, SoundNoBucket
<1>2. CASE Aged(b, n) # NoBucket
  <2>1. b.live /\ Level(Aged(b, n), i) = Level(b, i)
      BY <1>2, AgedBucket
  <2>2. Aged(b, n).age + Aged(b, n).ttl = b.age + b.ttl
    <3>1. b.age \in Int /\ b.ttl \in Int
        BY DEF Bucket
    <3>2. Aged(b, n).age = b.age + n /\ Aged(b, n).ttl = b.ttl - n
        BY <1>2, AgedBucket
    <3> QED
        BY <3>1, <3>2
  <2> QED
      BY <2>1, <2>2 DEF Sound
<1> QED
    BY <1>1, <1>2

(* What the script stores is sound, whatever it started from.              *)
LEMMA SoundStored ==
    ASSUME NEW b \in Bucket, NEW c \in Costs, NEW p \in Configs, Storable(b, c, p),
           NEW i \in DOMAIN Stable, Sound(b, i)
    PROVE  Sound(Stored(b, c, p), i)
BY ScriptedBucket DEF Sound

(* The invariant policy by policy.                                         *)
LEMMA InvariantParts ==
    IInv <=> /\ TypeOK
             /\ \A i \in DOMAIN Stable : Sound(bucket, i) /\ level[i] <= Effective(bucket, i)
             /\ Covers(level, window)
BY DEF IInv, StoredFits, NoEarlyExpiry, NeverUnderCharged, SpentCovered, Sound

(* The same in the next state.                                             *)
LEMMA InvariantPartsNext ==
    IInv' <=> /\ TypeOK'
              /\ \A i \in DOMAIN Stable : Sound(bucket', i) /\ level'[i] <= Effective(bucket', i)
              /\ Covers(level', window')
BY DEF IInv, StoredFits, NoEarlyExpiry, NeverUnderCharged, SpentCovered, Sound

(* A level drained of anything is no more than the level. *)
LEMMA EffectiveAtMostLevel ==
    ASSUME NEW b \in Bucket, NEW i \in DOMAIN Stable
    PROVE  /\ Effective(b, i) <= Larger(0, Level(b, i))
           /\ Effective(b, i) \in Nat /\ Larger(0, Level(b, i)) \in Nat
<1> DEFINE x == Larger(0, b.age) * Stable[i].flow
<1>1. Larger(0, b.age) \in Nat
    BY DEF Bucket, Larger
<1>2. x \in Nat
  <2>1. \A m, n \in Nat : m * n \in Nat
      OBVIOUS
  <2> QED
      BY <1>1, <2>1, StableRate
<1>3. Effective(b, i) = Larger(0, Level(b, i) - x)
    BY DEF Effective
<1> HIDE DEF x
<1> QED
    BY <1>2, <1>3, LevelType DEF Larger

(* The promised buckets never hold more than their bursts. *)
LEMMA LevelFits ==
    ASSUME IInv, NEW i \in DOMAIN Stable
    PROVE  level[i] <= Stable[i].burst
<1>1. /\ bucket \in Bucket /\ level[i] \in Nat /\ level[i] <= Effective(bucket, i)
      /\ Level(bucket, i) <= Stable[i].burst
    BY InvariantParts DEF TypeOK, Sound
<1> QED
    BY <1>1, EffectiveAtMostLevel, LevelType, StableRate DEF Larger

-----------------------------------------------------------------------------
(* The invariant holds when there is no key yet.                           *)
LEMMA InitIInv == Init => IInv
<1> SUFFICES ASSUME Init PROVE IInv
    OBVIOUS
<1>1. /\ bucket = NoBucket /\ answer = NoAnswer /\ level = Contract!Empty
      /\ window = Contract!Closed /\ exact = TRUE
    BY DEF Init, BucketInit, Contract!Init
<1>2. level \in [DOMAIN Stable -> Nat]
    BY <1>1 DEF Contract!Empty
<1>3. TypeOK
    BY <1>1, <1>2, NoBucketType, ClosedWindow, RateBucketAssumption
    DEF TypeOK, NoAnswer, NoBucket
<1>4. \A i \in DOMAIN Stable : level[i] <= Effective(bucket, i)
    BY <1>1, NoBucketType, EffectiveType DEF Contract!Empty
<1> QED
    BY <1>1, <1>2, <1>3, <1>4, InvariantParts, SoundNoBucket, ClosedWindow

(* A tick drains the promised bucket by no less than the effective level   *)
(* falls, an expired key included.                                         *)
LEMMA TimePassesKeepsIInv == IInv /\ TimePasses => IInv'
<1> SUFFICES ASSUME IInv, TimePasses PROVE IInv'
    OBVIOUS
<1>1. /\ bucket' = Aged(bucket, 1) /\ answer' = answer
      /\ level' = Contract!Drain(level) /\ window' = Contract!Lengthen(window)
      /\ exact' = (exact \/ ~bucket'.live)
    BY DEF TimePasses, Tick
<1>2. /\ bucket \in Bucket /\ (~bucket.live => bucket = NoBucket)
      /\ level \in [DOMAIN Stable -> Nat] /\ window \in Windows /\ Covers(level, window)
    BY InvariantParts DEF TypeOK
<1>3. bucket' \in Bucket /\ (~bucket'.live => bucket' = NoBucket) /\ bucket'.age >= -MaxSkew
  <2>1. bucket.age \in Int /\ bucket.age >= -MaxSkew /\ MaxSkew \in Nat
      BY <1>2, RateBucketAssumption, InvariantParts DEF TypeOK, Bucket
  <2>2. CASE Aged(bucket, 1) = NoBucket
    <3>1. NoBucket.age >= -MaxSkew
        BY <2>1 DEF NoBucket
    <3> QED
        BY <1>1, <2>2, <3>1, NoBucketType
  <2>3. CASE Aged(bucket, 1) # NoBucket
      BY <1>1, <1>2, <2>1, <2>3, AgedBucket
  <2> QED
      BY <2>2, <2>3
<1>4. level' \in [DOMAIN Stable -> Nat] /\ window' \in Windows /\ Covers(level', window')
    BY <1>1, <1>2, WindowOverTick
<1>5. TypeOK'
    BY <1>1, <1>3, <1>4, InvariantParts DEF TypeOK
<1>6. ASSUME NEW i \in DOMAIN Stable
      PROVE  Sound(bucket', i) /\ level'[i] <= Effective(bucket', i)
  <2>1. Sound(bucket, i) /\ level[i] <= Effective(bucket, i) /\ level[i] \in Nat
      BY <1>2, InvariantParts
  <2>2. Sound(bucket', i)
      BY <1>1, <1>2, <2>1, SoundAged
  <2>3. Contract!Positive(Effective(bucket, i) - Stable[i].flow) <= Effective(bucket', i)
      BY <1>1, <1>2, <2>1, EffectiveAfterTick DEF Sound
  <2>4. level'[i] = Contract!Positive(level[i] - Stable[i].flow)
      BY <1>1 DEF Contract!Drain
  <2>5. Effective(bucket, i) \in Nat /\ Effective(bucket', i) \in Nat
      BY <1>2, <1>3, EffectiveType
  <2> QED
      BY <2>1, <2>2, <2>3, <2>4, <2>5, StableRate DEF Contract!Positive
<1> QED
    BY <1>4, <1>5, <1>6, InvariantPartsNext
(* A run of the script, whether its reply arrives or not. *)
LEMMA ScriptedStep ==
    ASSUME IInv, NEW c \in Costs, NEW p \in Configs, Storable(bucket, c, p),
           bucket' = Stored(bucket, c, p), Charged(c, p),
           answer'.cost = c, answer'.policies = p
    PROVE  IInv' /\ (Allowed(bucket, c, p) => Contract!Fits(level, c))
<1>1. /\ bucket \in Bucket /\ c \in Int /\ exact \in BOOLEAN
      /\ level \in [DOMAIN Stable -> Nat] /\ window \in Windows /\ Covers(level, window)
    BY InvariantParts, RateBucketAssumption DEF TypeOK
<1>2. bucket' \in Bucket /\ bucket'.live /\ bucket'.age >= -MaxSkew
  <2>1. bucket' \in Bucket
      BY <1>1, StoredType, ConfigShape
  <2>2. bucket'.live /\ bucket'.age = 0
      BY DEF Stored
  <2> QED
      BY <2>1, <2>2, RateBucketAssumption
<1>3. \A i \in DOMAIN Stable : Sound(bucket, i) /\ level[i] <= Effective(bucket, i) /\ level[i] \in Nat
    BY <1>1, InvariantParts
<1>4. \A i \in DOMAIN Stable : Sound(bucket', i)
    BY <1>1, <1>3, SoundStored
<1>5. CASE Allowed(bucket, c, p)
  <2>1. level' = Contract!Charge(level, c) /\ window' = Contract!Spend(window, c) /\ exact' = exact
      BY <1>5 DEF Charged
  <2>2. level' \in [DOMAIN Stable -> Nat] /\ window' \in Windows /\ Covers(level', window')
      BY <1>1, <2>1, WindowOverCharge
  <2>3. TypeOK'
      BY <1>1, <1>2, <2>1, <2>2 DEF TypeOK
  <2>4. ASSUME NEW i \in DOMAIN Stable
        PROVE  level'[i] <= Effective(bucket', i) /\ level[i] + c <= Stable[i].burst
    <3>1. Effective(bucket', i) = Larger(0, Leaked(bucket, p, i) + c)
          /\ Leaked(bucket, p, i) + c <= Stable[i].burst
        BY <1>1, <1>3, <1>5, ScriptedBucket DEF Sound
    <3>2. Effective(bucket, i) \in Nat /\ Leaked(bucket, p, i) \in Nat
          /\ Effective(bucket, i) <= Leaked(bucket, p, i)
        BY <1>1, EffectiveType, LeakedCoversEffective
    <3>3. level'[i] = Contract!Positive(level[i] + c)
        BY <2>1 DEF Contract!Charge
    <3> QED
        BY <1>1, <1>3, <3>1, <3>2, <3>3, StableRate DEF Larger, Contract!Positive
  <2> QED
      BY <1>4, <2>2, <2>3, <2>4, InvariantPartsNext DEF Contract!Fits
<1>6. CASE ~Allowed(bucket, c, p)
  <2>1. level' = level /\ window' = window /\ exact' = FALSE
      BY <1>6 DEF Charged
  <2>2. TypeOK'
      BY <1>1, <1>2, <2>1 DEF TypeOK
  <2>3. ASSUME NEW i \in DOMAIN Stable PROVE level'[i] <= Effective(bucket', i)
    <3>1. Effective(bucket', i) = Larger(0, Level(bucket, i))
        BY <1>1, <1>3, <1>6, ScriptedBucket DEF Sound
    <3> QED
        BY <1>1, <1>3, <2>1, <3>1, EffectiveAtMostLevel
  <2> QED
      BY <1>1, <1>4, <1>6, <2>1, <2>2, <2>3, InvariantPartsNext
<1> QED
    BY <1>5, <1>6

(* A run of the script, its reply lost or not.                             *)
LEMMA ScriptedKeepsIInv == IInv /\ Scripted => IInv'
<1> SUFFICES ASSUME IInv, NEW c \in Costs, NEW p \in Configs,
                    Check(c, p) \/ CheckReplyLost(c, p), Charged(c, p)
             PROVE  IInv'
    BY DEF Scripted
<1>1. /\ Storable(bucket, c, p) /\ bucket' = Stored(bucket, c, p)
      /\ \E d : answer' = Answer(c, p, d)
    BY DEF Check, CheckReplyLost
<1>2. answer'.cost = c /\ answer'.policies = p
    BY <1>1 DEF Answer
<1> QED
    BY <1>1, <1>2, ScriptedStep

(* A step that leaves bucket, level and window alone. *)
LEMMA BypassedKeepsIInv == IInv /\ Bypassed => IInv'
<1> SUFFICES ASSUME IInv, NEW c \in Costs, NEW p \in Configs,
                    CheckRaises(c, p) \/ CheckUnreachable(c, p),
                    UNCHANGED << level, window, exact >>
             PROVE  IInv'
    BY DEF Bypassed
<1>1. /\ bucket' = bucket /\ level' = level /\ window' = window /\ exact' = exact
      /\ answer'.cost = c /\ answer'.policies = p
    BY DEF CheckRaises, CheckUnreachable, Answer
<1>2. TypeOK'
    BY <1>1, InvariantParts DEF TypeOK
<1> QED
    BY <1>1, <1>2, InvariantParts, InvariantPartsNext

(* A lost key or a clock set forward, booked as a loss of the state.       *)
LEMMA StateLostKeepsIInv == IInv /\ StateLost => IInv'
<1> SUFFICES ASSUME IInv, StateLost PROVE IInv'
    OBVIOUS
<1>1. /\ bucket \in Bucket /\ bucket.age \in Int /\ bucket.age >= -MaxSkew
      /\ level \in [DOMAIN Stable -> Nat] /\ window \in Windows /\ Covers(level, window)
    BY InvariantParts DEF TypeOK, Bucket
<1>2. /\ level' = Contract!Empty /\ window' = Contract!Damage(window)
      /\ exact' \in BOOLEAN /\ answer' = answer
    BY DEF StateLost, LoseKey, SetForward
<1>3. bucket' = NoBucket \/ \E n \in Jumps : bucket' = Aged(bucket, n)
    BY DEF StateLost, LoseKey, SetForward
<1>4. /\ bucket' \in Bucket /\ (~bucket'.live => bucket' = NoBucket) /\ bucket'.age >= -MaxSkew
      /\ \A i \in DOMAIN Stable : Sound(bucket', i)
  <2>1. CASE bucket' = NoBucket
    <3>1. NoBucket.age >= -MaxSkew
        BY RateBucketAssumption DEF NoBucket
    <3> QED
        BY <2>1, <3>1, NoBucketType, SoundNoBucket
  <2>2. ASSUME NEW n \in Jumps, bucket' = Aged(bucket, n), bucket' # NoBucket
        PROVE  /\ bucket' \in Bucket /\ bucket'.live /\ bucket'.age >= -MaxSkew
               /\ \A i \in DOMAIN Stable : Sound(bucket', i)
    <3>1. n \in Nat /\ n \in Int /\ MaxSkew \in Nat
        BY RateBucketAssumption
    <3>2. bucket' \in Bucket /\ bucket'.live /\ bucket'.age = bucket.age + n
        BY <1>1, <2>2, <3>1, AgedBucket
    <3>3. \A i \in DOMAIN Stable : Sound(bucket', i)
        BY <1>1, <2>2, <3>1, SoundAged, InvariantParts
    <3> QED
        BY <1>1, <3>1, <3>2, <3>3
  <2> QED
      BY <1>3, <2>1, <2>2
<1>5. level' \in [DOMAIN Stable -> Nat] /\ window' \in Windows /\ Covers(level', window')
  <2>1. \A i \in DOMAIN Stable : level[i] <= Stable[i].burst
      BY LevelFits
  <2> QED
      BY <1>1, <1>2, <2>1, WindowOverLoss
<1>6. TypeOK'
    BY <1>2, <1>4, <1>5, InvariantParts DEF TypeOK
<1>7. \A i \in DOMAIN Stable : level'[i] <= Effective(bucket', i)
    BY <1>2, <1>4, EffectiveType DEF Contract!Empty
<1> QED
    BY <1>4, <1>5, <1>6, <1>7, InvariantPartsNext

(* A clock set back only makes the entry look fuller.                      *)
LEMMA ClockSetBackKeepsIInv == IInv /\ ClockSetBack => IInv'
<1> SUFFICES ASSUME IInv, NEW n \in Jumps, SetBack(n), exact' = FALSE,
                    UNCHANGED << level, window >>
             PROVE  IInv'
    BY DEF ClockSetBack
<1>1. /\ bucket \in Bucket /\ bucket.age \in Int /\ bucket.ttl \in Nat
      /\ level \in [DOMAIN Stable -> Nat]
    BY InvariantParts DEF TypeOK, Bucket
<1>2. n \in Nat /\ -n \in Int
    BY RateBucketAssumption
<1>3. /\ bucket' = Aged(bucket, -n) /\ bucket.live /\ bucket.age - n >= -MaxSkew
      /\ level' = level /\ window' = window /\ answer' = answer
    BY DEF SetBack
<1>4. bucket' \in Bucket /\ bucket'.live /\ bucket'.age >= -MaxSkew
  <2>1. bucket.ttl >= -n /\ bucket.age + (-n) >= -MaxSkew
      BY <1>1, <1>2, <1>3, RateBucketAssumption
  <2> QED
      BY <1>1, <1>2, <1>3, <2>1, AgedBucket
<1>5. TypeOK'
    BY <1>3, <1>4, InvariantParts DEF TypeOK
<1>6. ASSUME NEW i \in DOMAIN Stable
      PROVE  Sound(bucket', i) /\ level'[i] <= Effective(bucket', i)
  <2>1. Sound(bucket, i) /\ level[i] <= Effective(bucket, i) /\ level[i] \in Nat
      BY <1>1, InvariantParts
  <2>2. Effective(bucket, i) <= Effective(bucket', i)
      BY <1>1, <1>2, <1>3, EffectiveAfterSetBack
  <2>3. Effective(bucket, i) \in Nat /\ Effective(bucket', i) \in Nat
      BY <1>1, <1>4, EffectiveType
  <2>4. Sound(bucket', i)
      BY <1>1, <1>2, <1>3, <2>1, SoundAged
  <2> QED
      BY <1>3, <2>1, <2>2, <2>3, <2>4
<1> QED
    BY <1>3, <1>5, <1>6, InvariantParts, InvariantPartsNext

(* A window opens empty.                                                   *)
LEMMA ObserveKeepsIInv == IInv /\ Observe => IInv'
<1> SUFFICES ASSUME IInv, Observe PROVE IInv'
    OBVIOUS
<1>1. /\ bucket' = bucket /\ answer' = answer /\ exact' = exact /\ level' = level
      /\ window' = Contract!Opened
    BY DEF Observe, Contract!Observe
<1>2. level \in [DOMAIN Stable -> Nat]
    BY InvariantParts DEF TypeOK
<1>3. /\ Contract!Opened.open
      /\ Contract!Opened.spent = Contract!Closed.spent
      /\ Contract!Opened.ticks = Contract!Closed.ticks
      /\ Contract!Opened.losses = Contract!Closed.losses
    BY DEF Contract!Opened, Contract!Closed
<1>4. Contract!Opened \in Windows
    BY StableAssumption DEF Contract!Opened, Windows
<1>5. Covers(level, Contract!Opened)
    BY <1>2, <1>3, ClosedWindow DEF Covers
<1>6. TypeOK'
    BY <1>1, <1>4, InvariantParts DEF TypeOK
<1> QED
    BY <1>1, <1>5, <1>6, InvariantParts, InvariantPartsNext

(* Every step keeps the invariant. *)
LEMMA NextKeepsIInv == IInv /\ [Next]_vars => IInv'
<1> SUFFICES ASSUME IInv, [Next]_vars PROVE IInv'
    OBVIOUS
<1>1. CASE TimePasses
    BY <1>1, TimePassesKeepsIInv
<1>2. CASE Scripted
    BY <1>2, ScriptedKeepsIInv
<1>3. CASE Bypassed
    BY <1>3, BypassedKeepsIInv
<1>4. CASE StateLost
    BY <1>4, StateLostKeepsIInv
<1>5. CASE ClockSetBack
    BY <1>5, ClockSetBackKeepsIInv
<1>6. CASE Observe
    BY <1>6, ObserveKeepsIInv
<1>7. CASE UNCHANGED vars
  <2>1. /\ bucket' = bucket /\ answer' = answer /\ level' = level /\ window' = window
        /\ exact' = exact
      BY <1>7 DEF vars
  <2>2. TypeOK'
      BY <2>1, InvariantParts DEF TypeOK
  <2> QED
      BY <2>1, <2>2, InvariantParts, InvariantPartsNext
<1> QED
    BY <1>1, <1>2, <1>3, <1>4, <1>5, <1>6, <1>7 DEF Next
-----------------------------------------------------------------------------
(* The state of the key is always well-formed, whatever its callers ask    *)
(* for, however Redis loses it and its clock is set (leaky_bucket.lua).    *)
THEOREM InvariantHolds == Spec => []IInv
<1>1. Init => IInv
    BY InitIInv
<1>2. IInv /\ [Next]_vars => IInv'
    BY NextKeepsIInv
<1> QED
    BY <1>1, <1>2, PTL DEF Spec

(* Type correctness of the bucket, the answer and the history. *)
THEOREM TypeCorrect == Spec => []TypeOK
<1>1. IInv => TypeOK
    BY DEF IInv
<1> QED
    BY <1>1, InvariantHolds, PTL

(* SETEX's expiry (lua:66) never removes a key in which a policy common to *)
(* all configurations still has tokens to drain.                           *)
THEOREM ExpiryIsSafe == Spec => []NoEarlyExpiry
<1>1. IInv => NoEarlyExpiry
    BY DEF IInv
<1> QED
    BY <1>1, InvariantHolds, PTL

(* No sequence of calls, denials, expiries, lost replies and clock          *)
(* corrections makes the stored levels (lua:51-54) forget a charge.        *)
THEOREM ChargesAreKept == Spec => []NeverUnderCharged
<1>1. IInv => NeverUnderCharged
    BY DEF IInv
<1> QED
    BY <1>1, InvariantHolds, PTL

(* The limit its users configured: in any window, for every policy common  *)
(* to all configurations, the script allows at most burst + flow x time,   *)
(* and one more burst for each loss of the stored state.  What passes      *)
(* without its consent, Redis having failed, is not counted.               *)
THEOREM RateIsLimited == Spec => []WindowBound
<1>1. IInv => WindowBound
  <2> SUFFICES ASSUME IInv, NEW i \in DOMAIN Stable
               PROVE  window.spent <= Stable[i].burst * (1 + window.losses)
                                         + Stable[i].flow * window.ticks
      BY DEF WindowBound, Contract!WindowBound
  <2> DEFINE b == Stable[i].burst
             m == Stable[i].flow * window.ticks
             n == b * window.losses
  <2>1. window \in Windows /\ level[i] \in Nat
      BY InvariantParts DEF TypeOK
  <2>2. b \in Int /\ window.losses \in Int /\ window.ticks \in Int /\ window.spent \in Int
      BY <2>1, WindowType, StableRate
  <2>3. m \in Int /\ n \in Int
      BY <2>2, StableRate, TimesType
  <2>4. window.spent <= level[i] + m + n /\ level[i] <= b
      BY InvariantParts, LevelFits DEF Covers
  <2>5. b * (1 + window.losses) = n + b
    <3> HIDE DEF b, n
    <3>1. 1 + window.losses = window.losses + 1
        BY <2>2
    <3> QED
        BY <2>2, <3>1, TimesSuccessor DEF n
  <2> HIDE DEF b, m, n
  <2>6. window.spent <= b * (1 + window.losses) + m
      BY <2>1, <2>2, <2>3, <2>4, <2>5
  <2> QED
      BY <2>6 DEF b, m
<1> QED
    BY <1>1, InvariantHolds, PTL

(* Denials take nothing away from a caller who waits: once the key has     *)
(* been left alone for cost / flow, no stable policy refuses the cost.     *)
THEOREM QuietIsRewarded == Spec => []AdmittedAfterQuiet
<1>1. IInv => AdmittedAfterQuiet
  <2> SUFFICES ASSUME IInv, NEW c \in Costs, NEW p \in Configs, NEW i \in DOMAIN Stable,
                      c <= Stable[i].burst, c <= bucket.age * Stable[i].flow
               PROVE  Remaining(bucket, c, p, i) >= 0
      BY DEF AdmittedAfterQuiet
  <2> DEFINE d == bucket.age * Stable[i].flow
  <2>1. bucket \in Bucket /\ Level(bucket, i) <= Stable[i].burst /\ c \in Int
      BY InvariantParts, RateBucketAssumption DEF TypeOK, Sound
  <2>2. d \in Int /\ Level(bucket, i) \in Int
      BY <2>1, StableRate, TimesType, LevelType DEF Bucket
  <2>3. Leaked(bucket, p, i) = Larger(0, Level(bucket, i) - d)
      BY ConfigShape DEF Leaked
  <2>4. Remaining(bucket, c, p, i) = Stable[i].burst - (Leaked(bucket, p, i) + c)
    <3>1. p \in Seq(Policy) /\ p # <<>> /\ i \in DOMAIN p /\ p[i] = Stable[i]
        BY ConfigShape
    <3>2. Remaining(bucket, c, p, i) = p[i].burst - (Leaked(bucket, p, i) + c)
        BY <2>1, <3>1, LoopTypes
    <3> QED
        BY <3>1, <3>2
  <2>5. c <= d
      OBVIOUS
  <2> HIDE DEF d
  <2> QED
      BY <2>1, <2>2, <2>3, <2>4, <2>5, StableRate DEF Larger
<1> QED
    BY <1>1, InvariantHolds, PTL

(* The script, its store and its faults implement the promised limiter:    *)
(* every step admits what fits, drains, forgets, or changes nothing.       *)
THEOREM PromiseIsKept == Spec => KeepsPromise
<1>1. Init => Contract!Init
    BY DEF Init
<1>2. IInv /\ [Next]_vars => [Contract!Next]_(Contract!vars)
  <2> SUFFICES ASSUME IInv, [Next]_vars PROVE [Contract!Next]_(Contract!vars)
      OBVIOUS
  <2>1. CASE TimePasses
      BY <2>1 DEF TimePasses, Contract!Next, Contract!Pass
  <2>2. CASE Scripted
    <3>1. PICK c \in Costs, p \in Configs :
              (Check(c, p) \/ CheckReplyLost(c, p)) /\ Charged(c, p)
        BY <2>2 DEF Scripted
    <3>2. /\ Storable(bucket, c, p) /\ bucket' = Stored(bucket, c, p)
          /\ \E d : answer' = Answer(c, p, d)
        BY <3>1 DEF Check, CheckReplyLost
    <3>3. answer'.cost = c /\ answer'.policies = p
        BY <3>2 DEF Answer
    <3>4. CASE Allowed(bucket, c, p)
      <4>1. Contract!Fits(level, c)
          BY <3>1, <3>2, <3>3, <3>4, ScriptedStep
      <4>2. level' = Contract!Charge(level, c) /\ window' = Contract!Spend(window, c)
          BY <3>1, <3>4 DEF Charged
      <4> QED
          BY <4>1, <4>2 DEF Contract!Next, Contract!Admit
    <3>5. CASE ~Allowed(bucket, c, p)
        BY <3>1, <3>5 DEF Charged, Contract!vars
    <3> QED
        BY <3>4, <3>5
  <2>3. CASE Bypassed
      BY <2>3 DEF Bypassed, Contract!vars
  <2>4. CASE StateLost
      BY <2>4 DEF StateLost, Contract!Next, Contract!Forget
  <2>5. CASE ClockSetBack
      BY <2>5 DEF ClockSetBack, Contract!vars
  <2>6. CASE Observe
      BY <2>6 DEF Observe, Contract!Next
  <2>7. CASE UNCHANGED vars
      BY <2>7 DEF vars, Contract!vars
  <2> QED
      BY <2>1, <2>2, <2>3, <2>4, <2>5, <2>6, <2>7 DEF Next
<1> QED
    BY <1>1, <1>2, InvariantHolds, PTL DEF Spec, KeepsPromise, Contract!Spec

-----------------------------------------------------------------------------

(* An exact bucket, and what keeps it so.                                  *)
Exact == exact => /\ bucket.age >= 0
                  /\ \A i \in DOMAIN Stable : level[i] = Effective(bucket, i)

-----------------------------------------------------------------------------
(* With last_time in the past, a tick drains exactly one tick's flow.      *)
LEMMA ExactTick ==
    ASSUME NEW b \in Bucket, NEW i \in DOMAIN Stable, b.age >= 0, Aged(b, 1).live
    PROVE  Effective(Aged(b, 1), i) = Contract!Positive(Effective(b, i) - Stable[i].flow)
<1> DEFINE f == Stable[i].flow
           x == b.age * f
           y == (b.age + 1) * f
<1>1. b.age \in Int /\ f \in Nat /\ Level(b, i) \in Int
    BY StableRate, LevelType DEF Bucket
<1>2. Aged(b, 1).age = b.age + 1 /\ Level(Aged(b, 1), i) = Level(b, i)
    BY AgedBucket DEF NoBucket
<1>3. Larger(0, b.age) = b.age /\ Larger(0, b.age + 1) = b.age + 1
    BY <1>1 DEF Larger
<1>4. /\ Effective(b, i) = Larger(0, Level(b, i) - x)
      /\ Effective(Aged(b, 1), i) = Larger(0, Level(b, i) - y)
    BY <1>2, <1>3 DEF Effective
<1>5. x \in Int /\ y = x + f
    BY <1>1, TimesType, TimesSuccessor
<1> HIDE DEF x, y, f
<1>6. Larger(0, Level(b, i) - y) = Contract!Positive(Larger(0, Level(b, i) - x) - f)
    BY <1>1, <1>5 DEF Larger, Contract!Positive
<1> QED
    BY <1>4, <1>6 DEF f

(* With last_time in the past, the script starts from the effective level. *)
LEMMA ExactLeak ==
    ASSUME NEW b \in Bucket, NEW p \in Configs, NEW i \in DOMAIN Stable, b.age >= 0
    PROVE  Leaked(b, p, i) = Effective(b, i)
<1>1. Larger(0, b.age) = b.age
    BY DEF Larger, Bucket
<1>2. i \in DOMAIN p /\ p[i] = Stable[i]
    BY ConfigShape
<1> QED
    BY <1>1, <1>2 DEF Leaked, Effective

(* A key that is gone holds what the promised bucket holds: nothing.       *)
LEMMA ExactWhenGone ==
    ASSUME IInv', bucket' = NoBucket
    PROVE  Exact'
<1>1. bucket'.age = 0
    BY DEF NoBucket
<1>2. ASSUME NEW i \in DOMAIN Stable PROVE level'[i] = Effective(bucket', i)
  <2>1. level'[i] \in Nat /\ level'[i] <= Effective(bucket', i)
      BY InvariantPartsNext DEF TypeOK
  <2>2. Effective(bucket', i) \in Nat /\ Effective(bucket', i) <= Larger(0, Level(bucket', i))
      BY NoBucketType, EffectiveAtMostLevel
  <2>3. Level(bucket', i) = 0
      BY NoBucketType
  <2> QED
      BY <2>1, <2>2, <2>3 DEF Larger
<1> QED
    BY <1>1, <1>2 DEF Exact

(* Every step keeps an exact bucket exact.                                 *)
LEMMA NextKeepsExact == IInv /\ Exact /\ [Next]_vars => Exact'
<1> SUFFICES ASSUME IInv, Exact, [Next]_vars, exact' PROVE Exact'
    BY DEF Exact
<1>1. IInv' /\ bucket \in Bucket
    BY NextKeepsIInv DEF IInv, TypeOK
<1>2. CASE TimePasses
  <2>1. /\ bucket' = Aged(bucket, 1) /\ level' = Contract!Drain(level)
        /\ exact' = (exact \/ ~bucket'.live)
      BY <1>2 DEF TimePasses, Tick
  <2>2. CASE bucket' = NoBucket
      BY <1>1, <2>2, ExactWhenGone
  <2>3. CASE bucket' # NoBucket
    <3>1. bucket'.live /\ bucket'.age = bucket.age + 1
        BY <1>1, <2>1, <2>3, AgedBucket
    <3>2. exact /\ bucket.age >= 0 /\ bucket.age \in Int
        BY <1>1, <2>1, <3>1 DEF Exact, Bucket
    <3>3. ASSUME NEW i \in DOMAIN Stable PROVE level'[i] = Effective(bucket', i)
      <4>1. level'[i] = Contract!Positive(level[i] - Stable[i].flow)
          BY <2>1 DEF Contract!Drain
      <4>2. level[i] = Effective(bucket, i)
          BY <3>2 DEF Exact
      <4> QED
          BY <1>1, <2>1, <3>1, <3>2, <4>1, <4>2, ExactTick
    <3> QED
        BY <3>1, <3>2, <3>3 DEF Exact
  <2> QED
      BY <2>2, <2>3
<1>3. CASE Scripted
  <2>1. PICK c \in Costs, p \in Configs :
            (Check(c, p) \/ CheckReplyLost(c, p)) /\ Charged(c, p)
      BY <1>3 DEF Scripted
  <2>2. Storable(bucket, c, p) /\ bucket' = Stored(bucket, c, p)
      BY <2>1 DEF Check, CheckReplyLost
  <2>3. Allowed(bucket, c, p) /\ level' = Contract!Charge(level, c) /\ exact
      BY <2>1 DEF Charged
  <2>4. bucket'.age = 0 /\ bucket.age >= 0
      BY <2>2, <2>3 DEF Stored, Exact
  <2>5. ASSUME NEW i \in DOMAIN Stable PROVE level'[i] = Effective(bucket', i)
    <3>1. level'[i] = Contract!Positive(level[i] + c)
        BY <2>3 DEF Contract!Charge
    <3>2. level[i] = Effective(bucket, i) /\ Leaked(bucket, p, i) = Effective(bucket, i)
        BY <1>1, <2>3, <2>4, ExactLeak DEF Exact
    <3>3. Effective(bucket', i) = Larger(0, Leaked(bucket, p, i) + c)
      <4>1. Level(bucket, i) <= Stable[i].burst
          BY InvariantParts DEF Sound
      <4> QED
          BY <1>1, <2>2, <2>3, <4>1, ScriptedBucket
    <3>4. Effective(bucket, i) \in Int /\ c \in Int
        BY <1>1, EffectiveType, RateBucketAssumption
    <3> QED
        BY <3>1, <3>2, <3>3, <3>4 DEF Larger, Contract!Positive
  <2> QED
      BY <2>4, <2>5 DEF Exact
<1>4. CASE StateLost
  <2>1. ~bucket'.live
      BY <1>4 DEF StateLost
  <2>2. bucket' = NoBucket
      BY <1>1, <2>1 DEF IInv, TypeOK
  <2> QED
      BY <1>1, <2>2, ExactWhenGone
<1>5. CASE ClockSetBack
    BY <1>5 DEF ClockSetBack
<1>6. CASE Bypassed \/ Observe \/ UNCHANGED vars
  <2>1. bucket' = bucket /\ level' = level /\ exact' = exact
      BY <1>6 DEF Bypassed, CheckRaises, CheckUnreachable, Observe, Contract!Observe, vars
  <2> QED
      BY <2>1 DEF Exact
<1> QED
    BY <1>2, <1>3, <1>4, <1>5, <1>6 DEF Next

-----------------------------------------------------------------------------
(* The service is no stricter than its policies while nobody has been      *)
(* denied and the clock has not been set: what the script finds is what    *)
(* the promised buckets hold.                                              *)
THEOREM NoStricterThanPromised == Spec => []ExactUntilDenied
<1>1. Init => IInv /\ Exact
  <2> SUFFICES ASSUME Init PROVE IInv /\ Exact
      OBVIOUS
  <2>1. IInv
      BY InitIInv
  <2>2. bucket = NoBucket /\ level = Contract!Empty
      BY DEF Init, BucketInit, Contract!Init
  <2>3. ASSUME NEW i \in DOMAIN Stable PROVE level[i] = Effective(bucket, i)
    <3>1. Effective(NoBucket, i) \in Nat /\ Effective(NoBucket, i) <= Larger(0, Level(NoBucket, i))
        BY NoBucketType, EffectiveAtMostLevel
    <3>2. Level(NoBucket, i) = 0
        BY NoBucketType
    <3> QED
        BY <2>2, <3>1, <3>2 DEF Larger, Contract!Empty
  <2>4. bucket.age = 0
      BY <2>2 DEF NoBucket
  <2> QED
      BY <2>1, <2>3, <2>4 DEF Exact
<1>2. IInv /\ Exact /\ [Next]_vars => IInv' /\ Exact'
    BY NextKeepsIInv, NextKeepsExact
<1>3. Exact => ExactUntilDenied
    BY DEF Exact, ExactUntilDenied
<1> QED
    BY <1>1, <1>2, <1>3, PTL DEF Spec
-----------------------------------------------------------------------------
(* Each policy of the last allowed request has the capacity it was told.   *)
Honest ==
    LET d == answer.decision
        p == answer.policies
    IN  (d.allowed /\ d.remaining_capacity # Unlimited) =>
            /\ p \in Configs /\ d.remaining_capacity \in Int
            /\ \A i \in DOMAIN p :
                  Leaked(bucket, p, i) + d.remaining_capacity <= p[i].burst

-----------------------------------------------------------------------------
(* A cost within what is left of a burst fits.                             *)
LEMMA RoomLeft ==
    \A x, b \in Nat, r, c \in Int : x + r <= b /\ c <= r => b - (x + c) >= 0
OBVIOUS

(* Levels leak while the clock goes forward, and an absent key has none.   *)
LEMMA LeakedAged ==
    ASSUME NEW b \in Bucket, NEW n \in Nat, NEW p \in Seq(Policy), p # <<>>,
           NEW i \in DOMAIN p
    PROVE  /\ Leaked(Aged(b, n), p, i) \in Nat
           /\ Leaked(Aged(b, n), p, i) <= Leaked(b, p, i)
           /\ Leaked(NoBucket, p, i) \in Nat
           /\ Leaked(NoBucket, p, i) <= Leaked(b, p, i)
<1>1. Leaked(b, p, i) \in Nat /\ Leaked(Aged(b, n), p, i) \in Nat
  <2>1. n \in Int
      OBVIOUS
  <2>2. Aged(b, n) \in Bucket
      BY <2>1, AgedBucket
  <2>3. Leaked(b, p, i) \in Nat
      BY LeakedType
  <2>4. Leaked(Aged(b, n), p, i) \in Nat
      BY <2>2, LeakedType
  <2> QED
      BY <2>3, <2>4
<1>2. p[i].flow \in Nat
    BY PolicyList
<1>3. Leaked(NoBucket, p, i) = 0
  <2>1. Level(NoBucket, i) = 0 /\ NoBucket.age = 0
      BY NoBucketType DEF NoBucket
  <2>2. 0 * p[i].flow = 0
      BY <1>2
  <2> QED
      BY <2>1, <2>2 DEF Leaked, Larger
<1>4. CASE Aged(b, n) = NoBucket
    BY <1>1, <1>3, <1>4
<1>5. CASE Aged(b, n) # NoBucket
  <2>1. Aged(b, n).age = b.age + n /\ Level(Aged(b, n), i) = Level(b, i)
      BY <1>5, AgedBucket
  <2>2. b.age \in Int /\ b.age + n \in Int /\ b.age <= b.age + n
      BY DEF Bucket
  <2> DEFINE x == b.age * p[i].flow
             y == (b.age + n) * p[i].flow
  <2>3. x <= y /\ x \in Int /\ y \in Int
      BY <1>2, <2>2, TimesMonotone, TimesType
  <2>4. /\ Leaked(b, p, i) = Larger(0, Level(b, i) - x)
        /\ Leaked(Aged(b, n), p, i) = Larger(0, Level(b, i) - y)
      BY <2>1 DEF Leaked
  <2>5. Level(b, i) \in Int
      BY LevelType
  <2> HIDE DEF x, y
  <2>6. Leaked(Aged(b, n), p, i) <= Leaked(b, p, i)
      BY <2>3, <2>4, <2>5 DEF Larger
  <2> QED
      BY <1>1, <1>3, <2>6
<1> QED
    BY <1>4, <1>5

(* Right after an allowed request the script would start from its levels.  *)
LEMMA LeakedStored ==
    ASSUME NEW b \in Bucket, NEW c \in Nat, NEW p \in Seq(Policy), p # <<>>,
           NEW i \in DOMAIN p, Allowed(b, c, p)
    PROVE  Leaked(Stored(b, c, p), p, i) = Leaked(b, p, i) + c
<1> DEFINE s == Stored(b, c, p)
<1>1. s.age = 0 /\ s.levels = NextLevels(b, c, p)
    BY DEF Stored
<1> DEFINE n == Leaked(b, p, i) + c
<1>2. Leaked(b, p, i) \in Nat /\ n \in Nat
    BY LeakedType
<1>3. i \in DOMAIN s.levels /\ s.levels[i] = n
    BY <1>1 DEF NextLevels
<1>4. Level(s, i) = n
    BY <1>3 DEF Level
<1>5. 0 * p[i].flow = 0
    BY PolicyList
<1> HIDE DEF s, n
<1>6. Leaked(s, p, i) = Larger(0, n)
    BY <1>1, <1>2, <1>4, <1>5 DEF Leaked
<1> QED
    BY <1>2, <1>6 DEF Larger, s, n

-----------------------------------------------------------------------------
(* A step that lets levels leak, or the key go, leaves an answer true.     *)
LEMMA HonestWhileLeaking ==
    ASSUME IInv, Honest, answer' = answer,
           bucket' = NoBucket \/ (\E n \in Nat : bucket' = Aged(bucket, n))
    PROVE  Honest'
<1> DEFINE d == answer.decision
           p == answer.policies
<1>1. bucket \in Bucket
    BY DEF IInv, TypeOK
<1> SUFFICES ASSUME d.allowed, d.remaining_capacity # Unlimited
             PROVE  /\ p \in Configs /\ d.remaining_capacity \in Int
                    /\ \A i \in DOMAIN p :
                          Leaked(bucket', p, i) + d.remaining_capacity <= p[i].burst
    BY DEF Honest
<1>2. /\ p \in Configs /\ d.remaining_capacity \in Int
      /\ \A i \in DOMAIN p : Leaked(bucket, p, i) + d.remaining_capacity <= p[i].burst
    BY DEF Honest
<1>3. p \in Seq(Policy) /\ p # <<>>
    BY <1>2, ConfigShape
<1> HIDE DEF d, p
<1>4. ASSUME NEW i \in DOMAIN p
      PROVE  Leaked(bucket', p, i) + d.remaining_capacity <= p[i].burst
  <2>1. Leaked(bucket, p, i) \in Nat /\ p[i].burst \in Nat
      BY <1>1, <1>3, LeakedType, PolicyList
  <2>2. Leaked(bucket', p, i) \in Nat /\ Leaked(bucket', p, i) <= Leaked(bucket, p, i)
      BY <1>1, <1>3, LeakedAged
  <2> QED
      BY <1>2, <2>1, <2>2
<1> QED
    BY <1>2, <1>4

(* An answer is true when it is given.                                     *)
LEMMA HonestWhenGiven ==
    ASSUME IInv, Costs \subseteq Nat, NEW c \in Costs, NEW p \in Configs, Check(c, p)
    PROVE  Honest'
<1>1. bucket \in Bucket /\ c \in Nat /\ c \in Int /\ p \in Seq(Policy) /\ p # <<>>
    BY ConfigShape DEF IInv, TypeOK
<1>2. bucket' = Stored(bucket, c, p) /\ answer'.policies = p
      /\ answer'.decision = Decision(Reply(bucket, c, p))
    BY DEF Check, Answer
<1>3. CASE ~Allowed(bucket, c, p)
  <2>1. ~answer'.decision.allowed
      BY <1>2, <1>3 DEF Decision, Reply
  <2> QED
      BY <2>1 DEF Honest
<1>4. CASE Allowed(bucket, c, p)
  <2>1. answer'.decision.remaining_capacity = FreeCapacity(bucket, c, p)
      BY <1>2, <1>4 DEF Decision, Reply
  <2>2. ASSUME NEW i \in DOMAIN p
        PROVE  Leaked(bucket', p, i) + FreeCapacity(bucket, c, p) <= p[i].burst
    <3>1. Leaked(bucket', p, i) = Leaked(bucket, p, i) + c
        BY <1>1, <1>2, <1>4, LeakedStored
    <3>2. /\ Remaining(bucket, c, p, i) = p[i].burst - (Leaked(bucket, p, i) + c)
          /\ Leaked(bucket, p, i) \in Nat
        BY <1>1, LoopTypes
    <3>3. FreeCapacity(bucket, c, p) \in Int
          /\ FreeCapacity(bucket, c, p) <= Remaining(bucket, c, p, i)
        BY <1>1, FreeCapacityFits
    <3>4. p[i].burst \in Nat
        BY <1>1, PolicyList
    <3> QED
        BY <1>1, <3>1, <3>2, <3>3, <3>4
  <2>3. FreeCapacity(bucket, c, p) \in Int
      BY <1>1, FreeCapacityFits
  <2> QED
      BY <1>2, <2>1, <2>2, <2>3 DEF Honest
<1> QED
    BY <1>3, <1>4

(* Every step leaves the last answer true.                                 *)
LEMMA NextKeepsHonest ==
    ASSUME "set back" \notin Faults, Costs \subseteq Nat
    PROVE  IInv /\ Honest /\ [Next]_vars => Honest'
<1> SUFFICES ASSUME IInv, Honest, [Next]_vars PROVE Honest'
    OBVIOUS
<1>1. CASE TimePasses
  <2>1. bucket' = Aged(bucket, 1) /\ answer' = answer /\ 1 \in Nat
      BY <1>1 DEF TimePasses, Tick
  <2> QED
      BY <2>1, HonestWhileLeaking
<1>2. CASE Scripted \/ Bypassed
  <2>1. PICK c \in Costs, p \in Configs :
            \/ Check(c, p) \/ CheckReplyLost(c, p)
            \/ CheckRaises(c, p) \/ CheckUnreachable(c, p)
      BY <1>2 DEF Scripted, Bypassed
  <2>2. CASE Check(c, p)
      BY <2>2, HonestWhenGiven
  <2>3. CASE CheckReplyLost(c, p) \/ CheckRaises(c, p) \/ CheckUnreachable(c, p)
    <3>1. answer' = Answer(c, p, FailOpen)
        BY <2>3 DEF CheckReplyLost, CheckRaises, CheckUnreachable
    <3> QED
        BY <3>1 DEF Honest, Answer, FailOpen
  <2> QED
      BY <2>1, <2>2, <2>3
<1>3. CASE StateLost
  <2>1. answer' = answer
        /\ (bucket' = NoBucket \/ \E n \in Nat : bucket' = Aged(bucket, n))
      BY <1>3, RateBucketAssumption DEF StateLost, LoseKey, SetForward
  <2> QED
      BY <2>1, HonestWhileLeaking
<1>4. CASE ClockSetBack
    BY <1>4, "set back" \notin Faults DEF ClockSetBack, SetBack
<1>5. CASE Observe \/ UNCHANGED vars
  <2>1. bucket' = bucket /\ answer' = answer
      BY <1>5 DEF Observe, vars
  <2> QED
      BY <2>1 DEF Honest
<1> QED
    BY <1>1, <1>2, <1>3, <1>4, <1>5 DEF Next

-----------------------------------------------------------------------------
(* Until the next call on its key, a caller that was allowed may rely on   *)
(* the capacity it was told, whatever else happens but a clock set back.   *)
THEOREM AnswersAreHonest ==
    ASSUME "set back" \notin Faults, Costs \subseteq Nat
    PROVE  Spec => []RemainingIsHonest
<1>1. Init => IInv /\ Honest
  <2> SUFFICES ASSUME Init PROVE IInv /\ Honest
      OBVIOUS
  <2>1. IInv
      BY InitIInv
  <2>2. answer.decision.remaining_capacity = Unlimited
      BY DEF Init, BucketInit, NoAnswer, FailOpen
  <2> QED
      BY <2>1, <2>2 DEF Honest
<1>2. IInv /\ Honest /\ [Next]_vars => IInv' /\ Honest'
    BY NextKeepsIInv, NextKeepsHonest
<1>3. IInv /\ Honest => RemainingIsHonest
  <2> DEFINE d == answer.decision
             p == answer.policies
  <2> SUFFICES ASSUME IInv, Honest, d.allowed, d.remaining_capacity # Unlimited,
                      NEW c \in Costs, c <= d.remaining_capacity
               PROVE  Allowed(bucket, c, p)
      BY DEF RemainingIsHonest
  <2>1. /\ p \in Configs /\ d.remaining_capacity \in Int
        /\ \A i \in DOMAIN p : Leaked(bucket, p, i) + d.remaining_capacity <= p[i].burst
      BY DEF Honest
  <2>2. bucket \in Bucket /\ c \in Int /\ p \in Seq(Policy) /\ p # <<>>
      BY <2>1, ConfigShape, RateBucketAssumption DEF IInv, TypeOK
  <2> HIDE DEF d, p
  <2>3. ASSUME NEW i \in DOMAIN p PROVE Remaining(bucket, c, p, i) >= 0
    <3>1. Leaked(bucket, p, i) \in Nat /\ p[i].burst \in Nat
        BY <2>2, LeakedType, PolicyList
    <3>3. Remaining(bucket, c, p, i) = p[i].burst - (Leaked(bucket, p, i) + c)
        BY <2>2, LoopTypes
    <3>2. Leaked(bucket, p, i) + d.remaining_capacity <= p[i].burst
        BY <2>1
    <3>4. d.remaining_capacity \in Int /\ c \in Int /\ c <= d.remaining_capacity
        BY <2>1, <2>2 DEF d
    <3> QED
        BY <3>1, <3>2, <3>3, <3>4, RoomLeft
  <2> QED
      BY <2>2, <2>3, AllowedMeansRoom
<1> QED
    BY <1>1, <1>2, <1>3, PTL DEF Spec
=============================================================================
