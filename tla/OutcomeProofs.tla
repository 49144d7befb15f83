--------------------------- MODULE OutcomeProofs ---------------------------
(***************************************************************************)
(* What calls end in: when a check fails open, what the counters say of it *)
(* and how much is admitted, for any requests, pool, policies and bounds.  *)
(*                                                                         *)
(* The argument.  Orderly ties the stage of a call to the state of Redis   *)
(* and of its connection, and bounds what a bucket may hold; so a call     *)
(* that fails has met an outage, a broken connection or an error of Redis, *)
(* or asked for an expiry that SETEX refuses.  Counted ties the counters   *)
(* to how many calls have ended, each of the two ways; Denials bounds,     *)
(* without refunds, a deny count by the costs charged, and DenialsBounded  *)
(* the counter of denials by as many times the largest count as there are  *)
(* answers, so that it cannot come round.  Fits compares what was charged to those who passed with what    *)
(* their bucket holds: one script decides both, a restart of Redis empties *)
(* the bucket and is worth one burst more, and a refund takes from the     *)
(* level no more than it returns.  It is stated of every set of callers,   *)
(* since a restart may come between any two of them.                       *)
(***************************************************************************)
EXTENDS RequestPathProofs

-----------------------------------------------------------------------------
(* Faults.                                                                 *)

(* While Redis is down, every call under way has met it so, and every      *)
(* connection is broken; whoever sits on a broken connection has met it.   *)
Broken ==
    /\ \A r \in Requests : redis = "down" /\ stage[r] \in Ongoing => r \in met
    /\ \A r \in Requests : redis = "down" /\ stage[r] \in Connected => r \in severed
    /\ \A r \in severed : /\ stage[r] \notin {"new", "waiting", "connecting"}
                          /\ stage[r] \in Connected => r \in met

(* A call has one command on the wire, and Redis has the script for whoever *)
(* sent EVALSHA again on a connection that is whole.                       *)
Scripted == \A r \in Checks :
    /\ stage[r] = "loading" => ~OnWire(r, "evalsha")
    /\ stage[r] = "resent" /\ r \notin severed => cached

(* A call that moves on, on a whole connection to a Redis that is up, or   *)
(* that ends.                                                              *)
LEMMA MoveKeepsBroken ==
    ASSUME stage \in [Requests -> Stages], Broken, NEW r \in Requests, NEW s, Move(r, s),
           UNCHANGED << redis, severed >>, met \subseteq met',
           \/ s \in {"done", "cancelled"}
           \/ stage[r] = "waiting" /\ s = "connecting"
           \/ s \in Connected /\ redis = "up" /\ r \notin severed
    PROVE  Broken'
BY DEF Broken, Move, Ongoing, Holding, Connected

(* How a call fails.                                                       *)
LEMMA FailWithTells ==
    ASSUME NEW r \in Requests, NEW error, FailWith(r, error)
    PROVE  Move(r, "done") /\ UNCHANGED << args, severed, reply >>
BY DEF FailWith, AnswerWith, Tell

(* What an error of Redis itself does.                                     *)
LEMMA RefuseTells ==
    ASSUME NEW r \in Requests, Refuse(r)
    PROVE  /\ redis = "up" /\ inflight' \subseteq inflight /\ met' = met \cup {r}
           /\ UNCHANGED << args, severed, reply, redis, cached, bucket, losses, runs >>
           /\ \/ UNCHANGED << stage, decision, metrics >>
              \/ stage[r] \in Connected /\ Move(r, "done") /\ FailWith(r, "command")
<1>1. CASE Listening(r)
    BY <1>1, FailWithTells DEF Refuse, Listening
<1>2. CASE ~Listening(r)
    BY <1>2 DEF Refuse, callVars
<1> QED
    BY <1>1, <1>2

(* Every step keeps Broken.                                                *)
LEMMA NextKeepsBroken ==
    ASSUME IInv, Broken, Next
    PROVE  Broken'
<1>1. stage \in [Requests -> Stages]
    BY InvariantParts
<1>2. ASSUME NEW r \in Requests, Arrive(r)
      PROVE  Broken'
    BY <1>1, <1>2 DEF Arrive, Move, Broken, Ongoing, Holding, Connected
<1>3. ASSUME NEW r \in Requests, Acquire(r) \/ Connect(r) \/ Cancel(r)
      PROVE  Broken'
  <2>1. CASE Acquire(r)
    BY <1>1, <2>1, MoveKeepsBroken DEF Acquire, redisVars
  <2>2. CASE Connect(r)
    <3>1. r \notin severed
        BY <2>2 DEF Connect, Broken
    <3> QED
        BY <1>1, <2>2, <3>1, MoveKeepsBroken DEF Connect, redisVars, Connected
  <2>3. CASE Cancel(r)
    BY <1>1, <2>3, MoveKeepsBroken DEF Cancel, redisVars
  <2> QED
    BY <1>3, <2>1, <2>2, <2>3
<1>4. ASSUME NEW r \in Requests, Answer(r) \/ Fail(r)
      PROVE  Broken'
  <2>1. Move(r, "done") /\ severed' = severed
    BY <1>4, FailWithTells DEF Answer, AnswerWith, Tell, Fail
  <2>2. UNCHANGED << redis, met >>
    BY <1>4 DEF Answer, Fail, redisVars
  <2> QED
    BY <1>1, <2>1, <2>2, MoveKeepsBroken
<1>5. ASSUME NEW r \in Requests, Server(r)
      PROVE  Broken'
  <2>1. UNCHANGED << redis, met, severed >> /\ redis = "up"
    <3>1. CASE Raise(r) \/ NoScript(r)
        BY <3>1, FailWithTells DEF Raise, NoScript, callVars, redisVars
    <3>2. CASE Execute(r) \/ LoadScript(r) \/ ReadBucket(r)
        BY <3>2 DEF Execute, LoadScript, ReadBucket, redisVars
    <3> QED
        BY <1>5, <3>1, <3>2 DEF Server
  <2>2. \/ stage' = stage
        \/ Move(r, "done")
        \/ Listening(r) /\ \E s \in Connected : Move(r, s)
    <3>1. CASE Raise(r) \/ NoScript(r)
        BY <3>1, FailWithTells DEF Raise, NoScript, callVars, Connected
    <3>2. CASE Execute(r) \/ LoadScript(r) \/ ReadBucket(r)
        BY <3>2 DEF Execute, LoadScript, ReadBucket, Connected
    <3> QED
        BY <1>5, <3>1, <3>2 DEF Server
  <2>3. CASE stage' = stage
    BY <2>1, <2>3 DEF Broken
  <2>4. CASE Move(r, "done")
    BY <1>1, <2>1, <2>4, MoveKeepsBroken
  <2>5. CASE Listening(r) /\ \E s \in Connected : Move(r, s)
    BY <1>1, <2>1, <2>5, MoveKeepsBroken DEF Listening
  <2> QED
    BY <2>2, <2>3, <2>4, <2>5
<1>6. CASE GoDown
    BY <1>1, <1>6 DEF GoDown, Broken, Ongoing, Holding, Connected, IInv, TypeOK
<1>7. CASE Crash
    BY <1>1, <1>7 DEF Crash, Broken, Ongoing, Holding, Connected, IInv, TypeOK
<1>8. CASE ComeBack \/ Restart \/ Stall \/ Resume
    BY <1>8 DEF ComeBack, Restart, Stall, Resume, callVars, Broken
<1>9. CASE Reload \/ Register \/ \E r \in Requests : LoseCommand(r)
    BY <1>9 DEF Reload, Register, LoseCommand, callVars, redisVars, Broken
<1>10. ASSUME NEW r \in Requests, Reset(r)
       PROVE  Broken'
    BY <1>1, <1>10 DEF Reset, Broken, Ongoing, Holding, Connected
<1>11. ASSUME NEW r \in Requests, Refuse(r)
       PROVE  Broken'
  <2>1. UNCHANGED << redis, severed >> /\ met \subseteq met'
    BY <1>11, RefuseTells
  <2>2. CASE stage' = stage
    BY <2>1, <2>2 DEF Broken
  <2>3. CASE Move(r, "done")
    BY <1>1, <2>1, <2>3, MoveKeepsBroken
  <2> QED
    BY <1>11, <2>2, <2>3, RefuseTells
<1> QED
    BY <1>2, <1>3, <1>4, <1>5, <1>6, <1>7, <1>8, <1>9, <1>10, <1>11
       DEF Next, Task, RedisFault

(* Every step keeps Scripted.                                              *)
LEMMA NextKeepsScripted ==
    ASSUME IInv, Broken, Scripted, Next
    PROVE  Scripted'
<1>1. stage \in [Requests -> Stages] /\ Checks \subseteq Requests
    BY InvariantParts DEF Requests
<1>2. ASSUME NEW r \in Requests, NEW s, Move(r, s), s \notin {"loading", "resent"},
             \A q \in Checks : q # r /\ OnWire(q, "evalsha")' => OnWire(q, "evalsha"),
             UNCHANGED << severed, cached >>
      PROVE  Scripted'
    BY <1>1, <1>2 DEF Scripted, Move, OnWire
<1>3. ASSUME UNCHANGED << stage, severed, cached >>, inflight' \subseteq inflight
      PROVE  Scripted'
    BY <1>3 DEF Scripted, OnWire
<1>4. ASSUME NEW r \in Requests,
             Arrive(r) \/ Acquire(r) \/ Connect(r) \/ Cancel(r) \/ Answer(r) \/ Fail(r)
      PROVE  Scripted'
  <2>1. \E s : Move(r, s) /\ s \notin {"loading", "resent"}
    BY <1>4, FailWithTells
       DEF Arrive, Acquire, Connect, Cancel, Answer, AnswerWith, Tell, Fail
  <2>2. \A q \in Checks : q # r /\ OnWire(q, "evalsha")' => OnWire(q, "evalsha")
    BY <1>4 DEF Arrive, Acquire, Connect, Cancel, Answer, Fail, OnWire
  <2>3. UNCHANGED << severed, cached >>
    BY <1>4, FailWithTells
       DEF Arrive, Acquire, Connect, Cancel, Answer, AnswerWith, Tell, Fail, redisVars
  <2> QED
    BY <1>2, <2>1, <2>2, <2>3
<1>5. ASSUME NEW r \in Requests, Server(r)
      PROVE  Scripted'
  <2>1. CASE Raise(r) \/ Execute(r) \/ ReadBucket(r)
    <3>1. stage' = stage \/ Move(r, "done") \/ Move(r, "replied")
        BY <2>1, FailWithTells DEF Raise, Execute, ReadBucket, callVars
    <3>2. inflight' \subseteq inflight /\ UNCHANGED << severed, cached >>
        BY <2>1, FailWithTells DEF Raise, Execute, ReadBucket, callVars, redisVars
    <3> QED
        BY <1>2, <1>3, <3>1, <3>2 DEF OnWire
  <2>2. CASE NoScript(r) /\ (stage' = stage \/ Move(r, "done"))
    <3>1. inflight' \subseteq inflight \cup {<< r, "load" >>} /\ UNCHANGED << severed, cached >>
        BY <2>2, FailWithTells DEF NoScript, callVars, redisVars
    <3>2. CASE stage' = stage
        BY <3>1, <3>2 DEF Scripted, OnWire
    <3>3. CASE Move(r, "done")
        BY <1>2, <3>1, <3>3 DEF OnWire
    <3> QED
        BY <2>2, <3>2, <3>3
  <2>3. CASE NoScript(r) /\ ~(stage' = stage \/ Move(r, "done"))
    <3>1. /\ Move(r, "loading") /\ UNCHANGED << severed, cached >>
          /\ inflight' = (inflight \ {<< r, "evalsha" >>}) \cup {<< r, "load" >>}
        BY <2>3, FailWithTells DEF NoScript, callVars, redisVars
    <3> QED
        BY <1>1, <3>1 DEF Scripted, Move, OnWire
  <2>4. CASE LoadScript(r) /\ Listening(r)
    <3>1. /\ Move(r, "resent") /\ cached' = TRUE /\ severed' = severed
          /\ inflight' = (inflight \ {<< r, "load" >>}) \cup {<< r, "evalsha" >>}
        BY <2>4 DEF LoadScript
    <3> QED
        BY <1>1, <3>1 DEF Scripted, Move, OnWire
  <2>5. CASE LoadScript(r) /\ ~Listening(r)
    BY <2>5 DEF LoadScript, Scripted, OnWire
  <2>6. NoScript(r) => stage' = stage \/ Move(r, "done") \/ ~(stage' = stage \/ Move(r, "done"))
    OBVIOUS
  <2> QED
    BY <1>5, <2>1, <2>2, <2>3, <2>4, <2>5 DEF Server
<1>6. CASE Restart
  <2>1. \A r \in Checks : stage[r] = "resent" => r \in severed
    BY <1>1, <1>6 DEF Restart, Broken, Connected
  <2> QED
    BY <1>6, <2>1 DEF Restart, callVars, Scripted, OnWire
<1>7. CASE GoDown \/ Crash
  <2>1. CASE GoDown
    BY <2>1 DEF GoDown, Scripted, OnWire
  <2>2. CASE Crash
    BY <1>1, <2>2 DEF Crash, Scripted, OnWire, Ongoing, Holding, Connected
  <2> QED
    BY <1>7, <2>1, <2>2
<1>8. CASE ComeBack \/ Stall \/ Resume \/ Reload \/ \E r \in Requests : LoseCommand(r)
    BY <1>3, <1>8 DEF ComeBack, Stall, Resume, Reload, LoseCommand, callVars, redisVars
<1>9. CASE Register
    BY <1>9 DEF Register, callVars, Scripted, OnWire
<1>10. ASSUME NEW r \in Requests, Reset(r)
       PROVE  Scripted'
    BY <1>10 DEF Reset, Scripted, OnWire
<1>11. ASSUME NEW r \in Requests, Refuse(r)
       PROVE  Scripted'
    BY <1>2, <1>3, <1>11, RefuseTells DEF OnWire
<1> QED
    BY <1>4, <1>5, <1>6, <1>7, <1>8, <1>9, <1>10, <1>11 DEF Next, Task, RedisFault

-----------------------------------------------------------------------------
(* What the script finds and says.                                         *)

Bursts == UNION {{Lists[i][j].burst : j \in DOMAIN Lists[i]} : i \in DOMAIN Lists}

(* No time passes, and no level is above the largest burst.                *)
LowBucket ==
    /\ bucket.age = 0
    /\ \A i \in DOMAIN bucket.levels : bucket.levels[i] <= Max(Bursts)

(* A reply that waits for its caller is one of the script's.               *)
Replies ==
    /\ DOMAIN reply = Checks
    /\ \A r \in Checks : stage[r] = "replied" =>
          /\ reply[r].allowed \in BOOLEAN
          /\ reply[r].capacity_or_deny \in Int
          /\ reply[r].limiting_index \in Nat \ {0}

(* The bursts of a snapshot are among them.                                *)
LEMMA BurstsBounded ==
    ASSUME IInv
    PROVE  /\ Max(Bursts) \in Nat
           /\ \A r \in Checks : \A i \in DOMAIN snapshot[r] : snapshot[r][i].burst <= Max(Bursts)
<1> DEFINE Of(i) == {Lists[i][j].burst : j \in DOMAIN Lists[i]}
           top == [i \in 1 .. Len(Lists) |-> Max(Of(i))]
           Tops == {top[i] : i \in 1 .. Len(Lists)}
<1>1. Len(Lists) \in Nat \ {0} /\ DOMAIN Lists = 1 .. Len(Lists)
    BY EmptySeq, LenProperties, RequestPathAssumption
<1>2. \A i \in DOMAIN Lists : Lists[i] \in Seq(Policy) /\ Lists[i] # <<>>
    BY <1>1, ElementOfSeq, RequestPathAssumption
<1>3. ASSUME NEW i \in DOMAIN Lists
      PROVE  Max(Of(i)) \in Of(i) /\ \A x \in Of(i) : x \in Nat /\ x <= Max(Of(i))
  <2> DEFINE n == Len(Lists[i])
             f == [j \in 1 .. n |-> Lists[i][j].burst]
             F == {f[j] : j \in 1 .. n}
  <2>1. /\ n \in Nat \ {0} /\ DOMAIN Lists[i] = 1 .. n
        /\ \A j \in DOMAIN Lists[i] : Lists[i][j].burst \in Nat
      BY <1>2, PolicyList
  <2>2. f \in [1 .. n -> Int] /\ Of(i) = F
      BY <2>1
  <2>3. \A x \in Of(i) : x \in Nat
      BY <2>1
  <2>4. \A x \in Of(i) : \E j \in 1 .. n : x = f[j]
      BY <2>2
  <2> HIDE DEF f, n, Of
  <2>5. Max(F) \in F /\ \A j \in 1 .. n : f[j] <= Max(F)
      BY <2>1, <2>2, MaxOfSequence
  <2> HIDE DEF F
  <2> QED
      BY <2>2, <2>3, <2>4, <2>5
<1>4. Bursts = UNION {Of(i) : i \in DOMAIN Lists}
    BY DEF Bursts
<1> HIDE DEF Of
<1>5. top \in [1 .. Len(Lists) -> Int]
    BY <1>1, <1>3
<1>6. \A i \in DOMAIN Lists : top[i] = Max(Of(i))
    BY <1>1
<1> HIDE DEF top
<1>7. Max(Tops) \in Tops /\ \A i \in 1 .. Len(Lists) : top[i] <= Max(Tops)
    BY <1>1, <1>5, MaxOfSequence
<1>8. PICK k \in DOMAIN Lists : \A i \in DOMAIN Lists : top[i] <= top[k]
    BY <1>1, <1>7
<1>9. ASSUME NEW i \in DOMAIN Lists, NEW x \in Of(i)
      PROVE  x \in Nat /\ x <= top[k]
  <2>1. x \in Nat /\ x <= top[i] /\ top[i] \in Int
      BY <1>1, <1>3, <1>5, <1>6
  <2>2. top[i] <= top[k] /\ top[k] \in Int
      BY <1>1, <1>5, <1>8
  <2> QED
      BY <2>1, <2>2
<1>10. top[k] \in Bursts
    BY <1>3, <1>4, <1>6
<1>11. \A x \in Bursts : x \in Nat /\ top[k] >= x
    BY <1>4, <1>9
<1>12. Max(Bursts) \in Bursts /\ \A x \in Bursts : Max(Bursts) >= x
    BY <1>10, <1>11 DEF Max
<1>13. ASSUME NEW r \in Checks, NEW i \in DOMAIN snapshot[r]
       PROVE  snapshot[r][i].burst \in Bursts
  <2>1. PICK v \in DOMAIN Lists : snapshot[r] = Lists[v]
      BY DEF IInv, TypeOK
  <2>2. snapshot[r][i].burst \in Of(v)
      BY <2>1 DEF Of
  <2> QED
      BY <1>4, <2>2
<1> QED
    BY <1>11, <1>12, <1>13

(* The script runs only in Execute, and only a restart empties the bucket. *)
LEMMA ScriptRuns ==
    ASSUME Next
    PROVE  \/ UNCHANGED << bucket, runs, losses >>
           \/ Restart
           \/ \E r \in Checks : Execute(r)
<1>1. ASSUME NEW r \in Requests,
             Arrive(r) \/ Task(r) \/ Cancel(r) \/ LoseCommand(r)
      PROVE  UNCHANGED << bucket, runs, losses >>
    BY <1>1 DEF Arrive, Task, Acquire, Connect, Answer, Fail, Cancel, LoseCommand, redisVars
<1>2. ASSUME NEW r \in Requests, Server(r), ~(r \in Checks /\ Execute(r))
      PROVE  UNCHANGED << bucket, runs, losses >>
    BY <1>2 DEF Server, Raise, NoScript, LoadScript, ReadBucket, redisVars
<1>3. Reload \/ Register \/ Crash \/ GoDown \/ ComeBack \/ Stall \/ Resume
          => UNCHANGED << bucket, runs, losses >>
    BY DEF Reload, Register, Crash, GoDown, ComeBack, Stall, Resume, redisVars
<1>4. ASSUME NEW r \in Requests, Reset(r) \/ Refuse(r)
      PROVE  UNCHANGED << bucket, runs, losses >>
    BY <1>4, RefuseTells DEF Reset
<1> QED
    BY <1>1, <1>2, <1>3, <1>4 DEF Next, RedisFault

(* What one run of the script does to the levels.                          *)
LEMMA LevelsAfter ==
    ASSUME IInv, LowBucket, NEW r \in Checks, Execute(r)
    PROVE  /\ bucket'.age = 0
           /\ ~Allowed(bucket, cost[r], snapshot[r]) => bucket'.levels = bucket.levels
           /\ Allowed(bucket, cost[r], snapshot[r]) =>
                /\ DOMAIN bucket'.levels = DOMAIN snapshot[r]
                /\ \A i \in DOMAIN snapshot[r] :
                      /\ bucket'.levels[i] = Larger(0, Level(bucket, i)) + cost[r]
                      /\ bucket'.levels[i] <= snapshot[r][i].burst
                      /\ bucket'.levels[i] \in Int
<1> DEFINE c == cost[r]
           p == snapshot[r]
<1>1. bucket \in Bucket /\ c \in Int /\ p \in Seq(Policy) /\ p # <<>>
    BY ArgsType DEF IInv, TypeOK
<1>2. bucket' = Stored(bucket, c, p)
    BY DEF Execute
<1>3. bucket.age = 0
    BY DEF LowBucket
<1> HIDE DEF c, p
<1>4. bucket'.age = 0
    BY <1>2 DEF Stored
<1>5. CASE ~Allowed(bucket, c, p)
  <2>1. bucket'.levels = bucket.levels
      BY <1>2, <1>5 DEF Stored
  <2> QED
      BY <1>4, <1>5, <2>1 DEF c, p
<1>6. CASE Allowed(bucket, c, p)
  <2>1. bucket'.levels = NextLevels(bucket, c, p)
      BY <1>2, <1>6 DEF Stored
  <2>2. DOMAIN bucket'.levels = DOMAIN p
      BY <2>1 DEF NextLevels
  <2>3. ASSUME NEW i \in DOMAIN p
        PROVE  /\ bucket'.levels[i] = Larger(0, Level(bucket, i)) + c
               /\ bucket'.levels[i] <= p[i].burst
               /\ bucket'.levels[i] \in Int
    <3>1. bucket'.levels[i] = Leaked(bucket, p, i) + c /\ Leaked(bucket, p, i) \in Nat
        BY <1>1, <2>1, LoopTypes
    <3>2. p[i].burst - (Leaked(bucket, p, i) + c) >= 0 /\ p[i].burst \in Nat /\ p[i].flow \in Nat
      <4>1. Remaining(bucket, c, p, i) >= 0
          BY <1>1, <1>6, AllowedMeansRoom
      <4>2. Remaining(bucket, c, p, i) = p[i].burst - (Leaked(bucket, p, i) + c)
          BY <1>1, LoopTypes
      <4>3. p[i].burst \in Nat /\ p[i].flow \in Nat
          BY <1>1, PolicyList
      <4> QED
          BY <4>1, <4>2, <4>3
    <3>3. Level(bucket, i) \in Int
        BY <1>1, LevelType
    <3>4. Leaked(bucket, p, i) = Larger(0, Level(bucket, i))
        BY <1>3, <3>2, <3>3 DEF Leaked
    <3>5. c \in Int
        BY <1>1
    <3> QED
        BY <3>1, <3>2, <3>4, <3>5
  <2> QED
      BY <1>4, <1>6, <2>2, <2>3 DEF c, p
<1> QED
    BY <1>5, <1>6

(* Every step keeps LowBucket.                                             *)
LEMMA NextKeepsLowBucket ==
    ASSUME IInv, LowBucket, Next
    PROVE  LowBucket'
<1>1. Max(Bursts) \in Nat
    BY BurstsBounded
<1>2. CASE Restart
  <2>1. bucket'.age = 0 /\ DOMAIN bucket'.levels = {}
      BY <1>2, EmptySeq DEF Restart, NoBucket
  <2> QED
      BY <2>1 DEF LowBucket
<1>3. ASSUME NEW r \in Checks, Execute(r)
      PROVE  LowBucket'
  <2>1. CASE ~Allowed(bucket, cost[r], snapshot[r])
    BY <1>3, <2>1, LevelsAfter DEF LowBucket
  <2>2. CASE Allowed(bucket, cost[r], snapshot[r])
    <3>1. /\ bucket'.age = 0 /\ DOMAIN bucket'.levels = DOMAIN snapshot[r]
          /\ \A i \in DOMAIN snapshot[r] :
                bucket'.levels[i] <= snapshot[r][i].burst /\ bucket'.levels[i] \in Int
        BY <1>3, <2>2, LevelsAfter
    <3>2. \A i \in DOMAIN snapshot[r] :
              snapshot[r][i].burst \in Nat /\ snapshot[r][i].burst <= Max(Bursts)
        BY ArgsType, PolicyList, BurstsBounded
    <3> QED
        BY <1>1, <3>1, <3>2 DEF LowBucket
  <2> QED
    BY <2>1, <2>2
<1>4. CASE UNCHANGED bucket
    BY <1>4 DEF LowBucket
<1> QED
    BY <1>2, <1>3, <1>4, ScriptRuns

(* If the script raises, it would in a full bucket too.                    *)
LEMMA FullIsWorse ==
    ASSUME IInv, LowBucket, NEW r \in Checks, ~Storable(bucket, cost[r], snapshot[r])
    PROVE  ~Storable(Full(r), cost[r], snapshot[r])
<1> DEFINE c == cost[r]
           p == snapshot[r]
           top == Max(Bursts)
           full == Full(r)
<1>1. bucket \in Bucket /\ c \in Int /\ p \in Seq(Policy) /\ p # <<>>
    BY ArgsType DEF IInv, TypeOK
<1>2. top \in Nat
    BY BurstsBounded
<1>3. full = [NoBucket EXCEPT !.levels = [j \in DOMAIN p |-> top]]
    BY DEF Full, Bursts
<1>4. DOMAIN p = 1 .. Len(p) /\ Len(p) \in Nat
    BY <1>1, PolicyList
<1> HIDE DEF top, p, c, full
<1>5. [j \in DOMAIN p |-> top] \in Seq(Int)
    BY <1>2, <1>4, SeqDef
<1>6. full \in Bucket
    BY <1>3, <1>5, NoBucketOK DEF NoBucket, Bucket
<1>7. full.age = 0 /\ \A i \in DOMAIN p : Level(full, i) = top
    BY <1>3 DEF NoBucket, Level
<1>8. ASSUME NEW i \in DOMAIN p
      PROVE  Leaked(bucket, p, i) <= Leaked(full, p, i)
  <2>1. bucket.age = 0 /\ p[i].flow \in Nat
      BY <1>1, PolicyList DEF LowBucket
  <2>2. Level(bucket, i) \in Int /\ Level(bucket, i) <= top
      BY <1>1, <1>2, LevelType DEF LowBucket, Level, top
  <2>3. /\ Leaked(bucket, p, i) = Larger(0, Level(bucket, i))
        /\ Leaked(full, p, i) = Larger(0, top)
      BY <1>2, <1>7, <2>1, <2>2 DEF Leaked
  <2> QED
      BY <1>2, <2>2, <2>3 DEF Larger
<1>9. /\ ExpireTime(bucket, c, p) \in Int /\ ExpireTime(full, c, p) \in Int
      /\ 1 <= ExpireTime(bucket, c, p)
      /\ ExpireTime(bucket, c, p) <= ExpireTime(full, c, p)
    BY <1>1, <1>6, <1>8, ExpireTimeMonotone
<1>10. ExpireTime(bucket, c, p) \notin 1 .. MaxTTL
    BY DEF Storable, c, p
<1>11. ExpireTime(full, c, p) \notin 1 .. MaxTTL
    BY <1>9, <1>10, LeakyBucketAssumption
<1> QED
    BY <1>11 DEF Storable, c, p, full

(* The reply that a run of the script leaves for its caller.               *)
LEMMA ReplyAfter ==
    ASSUME IInv, NEW r \in Checks, Execute(r)
    PROVE  \/ UNCHANGED << reply, stage >>
           \/ /\ Move(r, "replied") /\ stage[r] \in Connected
              /\ reply' = [reply EXCEPT ![r] = Reply(bucket, cost[r], snapshot[r])]
BY DEF Execute, Listening

(* Nobody else writes replies, or has one.                                 *)
LEMMA NoReplyElsewhere ==
    ASSUME IInv, Next, ~(\E r \in Checks : Execute(r))
    PROVE  reply' = reply /\ \A r \in Checks : (stage[r] = "replied")' => stage[r] = "replied"
<1>1. stage \in [Requests -> Stages] /\ Checks \subseteq Requests /\ Checks \cap StatusCalls = {}
    BY InvariantParts, RequestPathAssumption DEF Requests
<1>2. ASSUME NEW r \in Requests, NEW s, Move(r, s), s # "replied"
      PROVE  \A q \in Checks : (stage[q] = "replied")' => stage[q] = "replied"
    BY <1>1, <1>2 DEF Move
<1>3. ASSUME NEW r \in Requests,
             Arrive(r) \/ Acquire(r) \/ Connect(r) \/ Cancel(r) \/ Answer(r) \/ Fail(r)
      PROVE  reply' = reply /\ \E s : Move(r, s) /\ s # "replied"
    BY <1>3, FailWithTells
       DEF Arrive, Acquire, Connect, Cancel, Answer, AnswerWith, Tell, Fail
<1>4. ASSUME NEW r \in Requests, Server(r)
      PROVE  reply' = reply /\ \A q \in Checks : (stage[q] = "replied")' => stage[q] = "replied"
  <2>1. CASE Raise(r) \/ NoScript(r) \/ LoadScript(r)
    <3>1. /\ reply' = reply
          /\ stage' = stage \/ \E s : Move(r, s) /\ s # "replied"
        BY <2>1, FailWithTells DEF Raise, NoScript, LoadScript, callVars
    <3> QED
        BY <1>2, <3>1
  <2>2. CASE r \in StatusCalls /\ ReadBucket(r)
    BY <1>1, <2>2 DEF ReadBucket, Move
  <2> QED
    BY <1>4, <2>1, <2>2 DEF Server
<1>5. ASSUME Reload \/ RedisFault \/ Register \/ \E r \in Requests : LoseCommand(r)
      PROVE  UNCHANGED << reply, stage >>
    BY <1>5 DEF Reload, RedisFault, GoDown, ComeBack, Restart, Stall, Resume, Register,
                LoseCommand, callVars
<1>6. Crash => reply' = reply /\ \A r \in Checks : (stage[r] = "replied")' => stage[r] = "replied"
    BY <1>1 DEF Crash
<1>7. ASSUME NEW r \in Requests, Reset(r) \/ Refuse(r)
      PROVE  reply' = reply /\ (stage' = stage \/ Move(r, "done"))
    BY <1>7, RefuseTells DEF Reset
<1> QED
    BY <1>2, <1>3, <1>4, <1>5, <1>6, <1>7 DEF Next, Task

(* Every step keeps Replies.                                               *)
LEMMA NextKeepsReplies ==
    ASSUME IInv, Replies, Next
    PROVE  Replies'
<1>1. ASSUME NEW r \in Checks, Execute(r)
      PROVE  Replies'
  <2>1. CASE UNCHANGED << reply, stage >>
    BY <2>1 DEF Replies
  <2>2. CASE /\ Move(r, "replied")
             /\ reply' = [reply EXCEPT ![r] = Reply(bucket, cost[r], snapshot[r])]
    <3>1. /\ Reply(bucket, cost[r], snapshot[r]).allowed \in BOOLEAN
          /\ Reply(bucket, cost[r], snapshot[r]).capacity_or_deny \in Int
          /\ Reply(bucket, cost[r], snapshot[r]).limiting_index \in Nat \ {0}
        BY ReplyType, ArgsType DEF IInv, TypeOK
    <3>2. \A q \in Checks : q # r => reply'[q] = reply[q] /\ stage'[q] = stage[q]
        BY <2>2, InvariantParts DEF Move, Requests
    <3>3. DOMAIN reply' = Checks /\ reply'[r] = Reply(bucket, cost[r], snapshot[r])
        BY <2>2 DEF Replies
    <3> QED
        BY <3>1, <3>2, <3>3 DEF Replies
  <2> QED
    BY <1>1, <2>1, <2>2, ReplyAfter
<1> QED
    BY <1>1, NoReplyElsewhere DEF Replies

-----------------------------------------------------------------------------
(* How calls end.                                                          *)

Orderly == Broken /\ Scripted /\ LowBucket /\ Replies

(* Nothing is under way.                                                   *)
LEMMA InitOrderly == Init => Orderly
<1> SUFFICES ASSUME Init PROVE Orderly
    OBVIOUS
<1>1. \A r \in Requests : stage[r] = "new"
    BY DEF Init
<1>2. redis = "up" /\ severed = {} /\ bucket = NoBucket /\ DOMAIN reply = Checks
    BY DEF Init
<1>3. Checks \subseteq Requests
    BY DEF Requests
<1>4. Broken /\ Scripted /\ Replies
    BY <1>1, <1>2, <1>3 DEF Broken, Scripted, Replies
<1>5. LowBucket
    BY <1>2, EmptySeq DEF LowBucket, NoBucket
<1> QED
    BY <1>4, <1>5 DEF Orderly

(* Every step keeps Orderly.                                               *)
LEMMA NextKeepsOrderly ==
    ASSUME IInv, Orderly, [Next]_vars
    PROVE  Orderly'
<1>1. CASE Next
    BY <1>1, NextKeepsBroken, NextKeepsScripted, NextKeepsLowBucket, NextKeepsReplies
       DEF Orderly
<1>2. CASE UNCHANGED vars
  <2>1. UNCHANGED << stage, severed, met, redis, cached, inflight, bucket, reply >>
    BY <1>2 DEF vars, callVars, redisVars
  <2> QED
    BY <2>1 DEF Orderly, Broken, Scripted, OnWire, LowBucket, Replies
<1> QED
    BY <1>1, <1>2

(* A check hears what the script said; a status call reads the bucket; a   *)
(* call fails, and why.                                                    *)
Heard(r) ==
    /\ r \in Checks /\ stage[r] = "replied"
    /\ AnswerWith(r, Decision(reply[r]), "none")

Read(r) == r \notin Checks /\ Tell(r, StatusAnswer) /\ UNCHANGED metrics

Excused(r) == r \in met \/ (r \in Checks /\ ~Storable(Full(r), cost[r], snapshot[r]))

Failed(r) ==
    /\ Excused(r) \/ r \in met'
    /\ \E error \in {"connection", "command"} : FailWith(r, error)

NobodyEnds ==
    /\ \A r \in Requests : (stage[r] = "done")' <=> stage[r] = "done"
    /\ decision' = decision
    /\ metrics' \in {metrics, NoMetrics}

(* NOSCRIPT is never the last word: whoever gets it has sent EVALSHA for   *)
(* the first time.                                                         *)
LEMMA NoScriptGoesOn ==
    ASSUME IInv, Orderly, NEW r \in Checks, NoScript(r), Listening(r)
    PROVE  stage[r] = "sent" /\ Move(r, "loading") /\ UNCHANGED << decision, metrics >>
<1>1. stage[r] \notin {"new", "waiting", "connecting", "replied"} /\ OnWire(r, "evalsha")
    BY NotChargedYet DEF NoScript, OnWire
<1>2. stage[r] # "loading"
    BY <1>1 DEF Orderly, Scripted
<1>3. stage[r] # "resent"
    BY DEF NoScript, Listening, Orderly, Scripted
<1>4. stage[r] = "sent"
    BY <1>1, <1>2, <1>3 DEF Listening, Connected
<1> QED
    BY <1>4 DEF NoScript

(* There is no other way to end.                                           *)
LEMMA HowCallsEnd ==
    ASSUME IInv, Orderly, Next
    PROVE  \/ NobodyEnds
           \/ \E r \in Requests : stage[r] \in Holding /\ (Heard(r) \/ Read(r) \/ Failed(r))
<1>1. stage \in [Requests -> Stages] /\ Checks \subseteq Requests /\ Checks \cap StatusCalls = {}
    BY InvariantParts, RequestPathAssumption DEF Requests
<1>2. ASSUME NEW r \in Requests, NEW s, Move(r, s), s # "done", stage[r] # "done",
             UNCHANGED << decision, metrics >>
      PROVE  NobodyEnds
    BY <1>1, <1>2 DEF Move, NobodyEnds
<1>3. ASSUME UNCHANGED << stage, decision, metrics >>
      PROVE  NobodyEnds
    BY <1>3 DEF NobodyEnds
<1>4. ASSUME NEW r \in Requests, Arrive(r) \/ Acquire(r) \/ Connect(r) \/ Cancel(r)
      PROVE  NobodyEnds
  <2>1. UNCHANGED << decision, metrics >> /\ stage[r] # "done"
    BY <1>4 DEF Arrive, Acquire, Connect, Cancel, Ongoing, Holding, Connected
  <2>2. \E s : Move(r, s) /\ s # "done"
    BY <1>4 DEF Arrive, Acquire, Connect, Cancel
  <2> QED
    BY <1>2, <2>1, <2>2
<1>5. ASSUME NEW r \in Requests, Answer(r)
      PROVE  stage[r] \in Holding /\ (Heard(r) \/ Read(r))
    BY <1>5 DEF Answer, Heard, Read, Holding, Connected
<1>6. ASSUME NEW r \in Requests, Fail(r)
      PROVE  stage[r] \in Holding /\ Failed(r)
  <2>1. stage[r] \in Holding
    BY <1>6 DEF Fail, Holding
  <2>2. r \in met
    BY <1>6 DEF Fail, Orderly, Broken, Ongoing, Holding
  <2>3. \E error \in {"connection", "command"} : FailWith(r, error)
    BY <1>6 DEF Fail
  <2> QED
    BY <2>1, <2>2, <2>3 DEF Failed, Excused
<1>7. ASSUME NEW r \in Checks, Raise(r), Listening(r)
      PROVE  stage[r] \in Holding /\ Failed(r)
  <2>1. FailWith(r, "command") /\ stage[r] \in Holding
    BY <1>7 DEF Raise, Listening, Holding
  <2>2. ~Storable(Full(r), cost[r], snapshot[r])
    BY <1>7, FullIsWorse DEF Raise, Orderly
  <2> QED
    BY <2>1, <2>2 DEF Failed, Excused
<1>8. ASSUME NEW r \in Checks, (Raise(r) \/ NoScript(r)) /\ ~Listening(r)
      PROVE  NobodyEnds
    BY <1>3, <1>8 DEF Raise, NoScript, callVars
<1>9. ASSUME NEW r \in Checks, NoScript(r), Listening(r)
      PROVE  NobodyEnds
    BY <1>1, <1>2, <1>9, NoScriptGoesOn
<1>10. ASSUME NEW r \in Requests, Execute(r) \/ LoadScript(r) \/ ReadBucket(r)
       PROVE  NobodyEnds
  <2>1. UNCHANGED << decision, metrics >>
    BY <1>10 DEF Execute, LoadScript, ReadBucket
  <2>2. \/ stage' = stage
        \/ Listening(r) /\ \E s : Move(r, s) /\ s # "done"
    BY <1>10 DEF Execute, LoadScript, ReadBucket
  <2>3. Listening(r) => stage[r] # "done"
    BY DEF Listening, Connected
  <2> QED
    BY <1>2, <1>3, <2>1, <2>2, <2>3
<1>11. ASSUME Reload \/ RedisFault \/ Register \/ \E r \in Requests : LoseCommand(r)
       PROVE  NobodyEnds
    BY <1>3, <1>11 DEF Reload, RedisFault, GoDown, ComeBack, Restart, Stall, Resume, Register,
                       LoseCommand, callVars
<1>12. ASSUME Crash
       PROVE  NobodyEnds
    BY <1>1, <1>12 DEF Crash, NobodyEnds, Ongoing, Holding, Connected
<1>13. ASSUME NEW r \in Requests, Server(r)
       PROVE  NobodyEnds \/ (stage[r] \in Holding /\ Failed(r))
    BY <1>7, <1>8, <1>9, <1>10, <1>13 DEF Server
<1>14. ASSUME NEW r \in Requests, Refuse(r)
       PROVE  NobodyEnds \/ (stage[r] \in Holding /\ Failed(r))
    BY <1>3, <1>14, RefuseTells DEF Failed, Holding
<1>15. ASSUME NEW r \in Requests, Reset(r)
       PROVE  NobodyEnds
    BY <1>3, <1>15 DEF Reset
<1> QED
    BY <1>4, <1>5, <1>6, <1>11, <1>12, <1>13, <1>14, <1>15 DEF Next, Task

(* What a call asked for, is judged by and has met stays with it.          *)
LEMMA WhatStays ==
    ASSUME IInv, Next
    PROVE  /\ met \subseteq met'
           /\ \A r \in Checks : stage[r] # "new" =>
                  cost'[r] = cost[r] /\ snapshot'[r] = snapshot[r]
<1>1. ASSUME NEW r \in Requests, Arrive(r)
      PROVE  /\ met \subseteq met'
             /\ \A q \in Checks : stage[q] # "new" =>
                    cost'[q] = cost[q] /\ snapshot'[q] = snapshot[q]
  <2>1. \A q \in Checks : q # r => cost'[q] = cost[q] /\ snapshot'[q] = snapshot[q]
    BY <1>1 DEF Arrive, IInv, TypeOK
  <2> QED
    BY <1>1, <2>1 DEF Arrive
<1>2. ASSUME NEW r \in Requests,
             Acquire(r) \/ Connect(r) \/ Cancel(r) \/ Answer(r) \/ Fail(r) \/ LoseCommand(r)
      PROVE  UNCHANGED << args, met >>
    BY <1>2, FailWithTells DEF Acquire, Connect, Cancel, Answer, AnswerWith, Tell, Fail,
                               LoseCommand, callVars, redisVars
<1>3. ASSUME NEW r \in Requests, Server(r)
      PROVE  UNCHANGED << args, met >>
  <2>1. CASE Raise(r) \/ NoScript(r)
    BY <2>1, FailWithTells DEF Raise, NoScript, callVars, redisVars
  <2>2. CASE Execute(r) \/ LoadScript(r) \/ ReadBucket(r)
    BY <2>2 DEF Execute, LoadScript, ReadBucket, redisVars
  <2> QED
    BY <1>3, <2>1, <2>2 DEF Server
<1>4. ASSUME Reload \/ RedisFault \/ Register \/ Crash
      PROVE  args' = args /\ met \subseteq met'
    BY <1>4 DEF Reload, RedisFault, GoDown, ComeBack, Restart, Stall, Resume, Register, Crash,
                callVars, redisVars
<1>5. ASSUME NEW r \in Requests, Reset(r) \/ Refuse(r)
      PROVE  args' = args /\ met \subseteq met'
    BY <1>5, RefuseTells DEF Reset
<1>6. args' = args /\ met \subseteq met' =>
          /\ met \subseteq met'
          /\ \A r \in Checks : cost'[r] = cost[r] /\ snapshot'[r] = snapshot[r]
    BY DEF args
<1> QED
    BY <1>1, <1>2, <1>3, <1>4, <1>5, <1>6 DEF Next, Task

(* An excuse stays good.                                                   *)
LEMMA StaysExcused ==
    ASSUME IInv, Next, NEW r \in Requests, stage[r] # "new", Excused(r)
    PROVE  Excused(r)'
<1>1. CASE r \in met
    BY <1>1, WhatStays DEF Excused
<1>2. CASE r \notin met
  <2>1. r \in Checks /\ ~Storable(Full(r), cost[r], snapshot[r])
      BY <1>2 DEF Excused
  <2>2. cost'[r] = cost[r] /\ snapshot'[r] = snapshot[r]
      BY <2>1, WhatStays
  <2>3. Full(r)' = Full(r)
      BY <2>2 DEF Full
  <2>4. ~Storable(Full(r)', cost'[r], snapshot'[r])
      BY <2>1, <2>2, <2>3
  <2> QED
      BY <2>1, <2>4 DEF Excused
<1> QED
    BY <1>1, <1>2

(* The script's word is not mistaken for a failure: it names a policy.     *)
LEMMA ScriptNamesPolicy ==
    ASSUME Replies, NEW r \in Checks, stage[r] = "replied"
    PROVE  Decision(reply[r]) # FailOpen
<1>1. Decision(reply[r]).limiting_rate_index # 0
    BY DEF Replies, Decision
<1> QED
    BY <1>1 DEF FailOpen

(* Whoever failed open has an excuse, and so has a status call that failed. *)
LEMMA OpensMeansExcused ==
    OpensOnlyOnFault <=>
        /\ \A r \in Checks : Opened(r) => Excused(r)
        /\ \A r \in StatusCalls : Answered(r) /\ decision[r] # StatusAnswer => Excused(r)
BY RequestPathAssumption DEF OpensOnlyOnFault, Excused

(* Every step keeps OpensOnlyOnFault.                                      *)
LEMMA OpensNext ==
    ASSUME IInv, Orderly, OpensOnlyOnFault, Next
    PROVE  OpensOnlyOnFault'
<1>1. Checks \subseteq Requests /\ StatusCalls \subseteq Requests /\ Checks \cap StatusCalls = {}
    BY RequestPathAssumption DEF Requests
<1>2. ASSUME NEW r \in Requests, (stage[r] = "done")'
      PROVE  \/ stage[r] = "done" /\ decision'[r] = decision[r]
             \/ stage[r] # "new" /\ (Excused(r) \/ r \in met')
             \/ decision'[r] # FailOpen /\ (r \notin Checks => decision'[r] = StatusAnswer)
  <2>1. CASE NobodyEnds
    BY <1>2, <2>1 DEF NobodyEnds
  <2>2. ASSUME NEW q \in Requests, stage[q] \in Holding, Heard(q) \/ Read(q) \/ Failed(q)
        PROVE  \/ stage[r] = "done" /\ decision'[r] = decision[r]
               \/ stage[r] # "new" /\ (Excused(r) \/ r \in met')
               \/ decision'[r] # FailOpen /\ (r \notin Checks => decision'[r] = StatusAnswer)
    <3>1. PICK d : Tell(q, d)
        BY <2>2 DEF Heard, Read, Failed, FailWith, AnswerWith
    <3>2. stage \in [Requests -> Stages] /\ DOMAIN decision = Requests
        BY DEF IInv, TypeOK, Stages
    <3>3. CASE r # q
        BY <1>2, <3>1, <3>2, <3>3 DEF Tell, Move
    <3>4. CASE r = q /\ Failed(q)
        BY <2>2, <3>4 DEF Failed, Holding, Connected
    <3>5. CASE r = q /\ Heard(q)
      <4>1. decision'[r] = Decision(reply[r])
          BY <3>2, <3>5 DEF Heard, AnswerWith, Tell
      <4>2. r \in Checks /\ stage[r] = "replied" /\ Replies
          BY <3>5 DEF Heard, Orderly
      <4>3. Decision(reply[r]) # FailOpen
          BY <4>2, ScriptNamesPolicy
      <4> QED
          BY <4>1, <4>2, <4>3
    <3>6. CASE r = q /\ Read(q)
      <4>1. decision'[r] = StatusAnswer /\ r \notin Checks
          BY <3>2, <3>6 DEF Read, Tell
      <4>2. StatusAnswer # FailOpen
          BY DEF StatusAnswer, FailOpen
      <4> QED
          BY <4>1, <4>2
    <3> QED
        BY <2>2, <3>3, <3>4, <3>5, <3>6
  <2> QED
    BY <2>1, <2>2, HowCallsEnd
<1>3. ASSUME NEW r \in Checks, Opened(r)'
      PROVE  Excused(r)'
  <2>1. r \in Requests /\ (stage[r] = "done")' /\ decision'[r] = FailOpen
    BY <1>1, <1>3 DEF Opened, Answered
  <2>2. CASE stage[r] = "done" /\ decision'[r] = decision[r]
    <3>1. Excused(r)
        BY <2>1, <2>2, OpensMeansExcused DEF Opened, Answered
    <3> QED
        BY <2>1, <2>2, <3>1, StaysExcused
  <2>3. CASE stage[r] # "new" /\ (Excused(r) \/ r \in met')
    BY <2>1, <2>3, StaysExcused DEF Excused
  <2> QED
    BY <1>2, <2>1, <2>2, <2>3
<1>4. ASSUME NEW r \in StatusCalls, (stage[r] = "done")', decision'[r] # StatusAnswer
      PROVE  Excused(r)'
  <2>1. r \in Requests /\ r \notin Checks
    BY <1>1
  <2>2. CASE stage[r] = "done" /\ decision'[r] = decision[r]
    <3>1. Excused(r)
        BY <1>4, <2>2, OpensMeansExcused DEF Answered
    <3> QED
        BY <2>1, <2>2, <3>1, StaysExcused
  <2>3. CASE stage[r] # "new" /\ (Excused(r) \/ r \in met')
    BY <2>1, <2>3, StaysExcused DEF Excused
  <2> QED
    BY <1>2, <1>4, <2>1, <2>2, <2>3
<1>5. \A r \in StatusCalls : (stage[r] = "done")' /\ decision'[r] # StatusAnswer => r \in met'
    BY <1>1, <1>4 DEF Excused
<1>6. \A r \in Checks : Opened(r)' => r \in met' \/ ~Storable(Full(r), cost[r], snapshot[r])'
    BY <1>3 DEF Excused
<1> QED
    BY <1>5, <1>6 DEF OpensOnlyOnFault, Answered

(* Nobody has failed open yet.                                             *)
LEMMA InitOpens == Init => OpensOnlyOnFault
<1> SUFFICES ASSUME Init PROVE OpensOnlyOnFault
    OBVIOUS
<1>1. \A r \in Requests : stage[r] = "new"
    BY DEF Init
<1> QED
    BY <1>1 DEF OpensOnlyOnFault, Opened, Answered, Requests

(* Every step keeps it so.                                                 *)
LEMMA StepOpens ==
    ASSUME IInv, Orderly, OpensOnlyOnFault, [Next]_vars
    PROVE  OpensOnlyOnFault'
<1>1. CASE Next
    BY <1>1, OpensNext
<1>2. CASE UNCHANGED vars
  <2>1. UNCHANGED << stage, decision, met, cost, snapshot >>
    BY <1>2 DEF vars, callVars, redisVars, args
  <2> QED
    BY <2>1 DEF OpensOnlyOnFault, Opened, Answered, Full
<1> QED
    BY <1>1, <1>2

(* A check fails open, and a status call fails, only on an outage, a       *)
(* broken connection or an error of Redis itself while it was under way,   *)
(* or on an expiry that is too long for SETEX in a full bucket:            *)
(* check_limit's Err arm has no other way in.                              *)
THEOREM OpensOnlyWhenRedisFails == Spec => []OpensOnlyOnFault
<1>1. Init => IInv /\ Orderly /\ OpensOnlyOnFault
    BY InitIInv, InitOrderly, InitOpens
<1>2. IInv /\ Orderly /\ OpensOnlyOnFault /\ [Next]_vars
          => IInv' /\ Orderly' /\ OpensOnlyOnFault'
    BY NextKeepsIInv, NextKeepsOrderly, StepOpens
<1> QED
    BY <1>1, <1>2, PTL DEF Spec

-----------------------------------------------------------------------------
(* Counters.                                                               *)

(* Who was told what the script said, and who was let through without it.  *)
ByScript == {r \in Checks : Answered(r) /\ decision[r] # FailOpen}

LetThrough == {r \in Checks : Opened(r)}

(* The counters add up, and count no more than there was.                  *)
Counted ==
    /\ metrics \in [allowed : Nat, denied : Nat, tokens : Int, deny_tokens : Int,
                    connection_errors : Nat, script_errors : Nat, executions : Nat]
    /\ metrics.allowed + metrics.denied
           = metrics.connection_errors + metrics.script_errors + metrics.executions
    /\ metrics.executions <= Cardinality(ByScript)
    /\ metrics.connection_errors + metrics.script_errors <= Cardinality(LetThrough)

(* They can be counted, before a step and after it.                        *)
LEMMA ToldFinite ==
    /\ IsFiniteSet(ByScript) /\ Cardinality(ByScript) \in Nat
    /\ Cardinality(ByScript) <= Cardinality(Checks) /\ Cardinality(Checks) \in Nat
    /\ IsFiniteSet(LetThrough) /\ Cardinality(LetThrough) \in Nat
<1>1. ByScript \subseteq Checks /\ LetThrough \subseteq Checks /\ IsFiniteSet(Checks)
    BY RequestPathAssumption DEF ByScript, LetThrough
<1> QED
    BY <1>1, FS_Subset, FS_CardinalityType

(* What a step does to the counters, and to those they count.              *)
LEMMA HowCounted ==
    ASSUME IInv, Orderly, Next
    PROVE  \/ /\ ByScript' = ByScript /\ LetThrough' = LetThrough
              /\ metrics' \in {metrics, NoMetrics}
           \/ \E q \in Checks :
                 /\ q \notin ByScript /\ ByScript' = ByScript \cup {q}
                 /\ LetThrough' = LetThrough
                 /\ stage[q] = "replied" /\ stage'[q] = "done"
                 /\ metrics' = Recorded(q, Decision(reply[q]), "none")
           \/ \E q \in Checks :
                 /\ q \notin LetThrough /\ LetThrough' = LetThrough \cup {q}
                 /\ ByScript' = ByScript
                 /\ stage[q] # "done" /\ stage'[q] = "done"
                 /\ \E error \in {"connection", "command"} :
                        metrics' = Recorded(q, FailOpen, error)
<1>1. stage \in [Requests -> Stages] /\ DOMAIN decision = Requests /\ Checks \subseteq Requests
    BY DEF IInv, TypeOK, Stages, Requests
<1>2. CASE NobodyEnds
    BY <1>1, <1>2 DEF NobodyEnds, ByScript, LetThrough, Opened, Answered
<1>3. ASSUME NEW q \in Requests, NEW d, Tell(q, d), stage[q] \in Holding
      PROVE  /\ stage[q] # "done" /\ stage'[q] = "done" /\ decision'[q] = d
             /\ \A r \in Checks : r # q => /\ (stage'[r] = "done") <=> (stage[r] = "done")
                                           /\ decision'[r] = decision[r]
    BY <1>1, <1>3 DEF Tell, Move, Holding, Connected
<1>4. ASSUME NEW q \in Requests, stage[q] \in Holding, Heard(q)
      PROVE  /\ q \in Checks /\ q \notin ByScript /\ ByScript' = ByScript \cup {q}
             /\ LetThrough' = LetThrough
             /\ stage[q] = "replied" /\ stage'[q] = "done"
             /\ metrics' = Recorded(q, Decision(reply[q]), "none")
  <2>1. q \in Checks /\ stage[q] = "replied" /\ Decision(reply[q]) # FailOpen
    BY <1>4, ScriptNamesPolicy DEF Heard, Orderly
  <2>2. Tell(q, Decision(reply[q])) /\ metrics' = Recorded(q, Decision(reply[q]), "none")
    BY <1>4 DEF Heard, AnswerWith
  <2> QED
    BY <1>3, <1>4, <2>1, <2>2 DEF ByScript, LetThrough, Opened, Answered
<1>5. ASSUME NEW q \in Requests, stage[q] \in Holding, Read(q)
      PROVE  ByScript' = ByScript /\ LetThrough' = LetThrough /\ metrics' = metrics
  <2>1. Tell(q, StatusAnswer) /\ q \notin Checks /\ metrics' = metrics
    BY <1>5 DEF Read
  <2> QED
    BY <1>3, <1>5, <2>1 DEF ByScript, LetThrough, Opened, Answered
<1>6. ASSUME NEW q \in Requests, stage[q] \in Holding, Failed(q), q \notin Checks
      PROVE  ByScript' = ByScript /\ LetThrough' = LetThrough /\ metrics' = metrics
  <2>1. \E d : Tell(q, d) /\ metrics' = metrics
    BY <1>6 DEF Failed, FailWith
  <2> QED
    BY <1>3, <1>6, <2>1 DEF ByScript, LetThrough, Opened, Answered
<1>7. ASSUME NEW q \in Checks, stage[q] \in Holding, Failed(q)
      PROVE  /\ q \notin LetThrough /\ LetThrough' = LetThrough \cup {q}
             /\ ByScript' = ByScript
             /\ stage[q] # "done" /\ stage'[q] = "done"
             /\ \E error \in {"connection", "command"} : metrics' = Recorded(q, FailOpen, error)
  <2>1. \E error \in {"connection", "command"} :
            Tell(q, FailOpen) /\ metrics' = Recorded(q, FailOpen, error)
    BY <1>7 DEF Failed, FailWith, AnswerWith
  <2> QED
    BY <1>1, <1>3, <1>7, <2>1 DEF ByScript, LetThrough, Opened, Answered
<1> QED
    BY <1>2, <1>4, <1>5, <1>6, <1>7, HowCallsEnd

(* A record of one more answer.                                            *)
LEMMA RecordedFields ==
    ASSUME IInv, Orderly, Counted, NEW q \in Checks, NEW d, NEW error,
           d.deny_count \in Int
    PROVE  /\ Recorded(q, d, error) \in
                  [allowed : Nat, denied : Nat, tokens : Int, deny_tokens : Int,
                   connection_errors : Nat, script_errors : Nat, executions : Nat]
           /\ Recorded(q, d, error).allowed + Recorded(q, d, error).denied
                  = metrics.allowed + metrics.denied + 1
           /\ Recorded(q, d, error).tokens = metrics.tokens + cost[q]
           /\ Recorded(q, d, error).deny_tokens
                  = (metrics.deny_tokens + d.deny_count) % CounterSize
           /\ Recorded(q, d, error).connection_errors
                  = metrics.connection_errors + One(error = "connection")
           /\ Recorded(q, d, error).script_errors
                  = metrics.script_errors + One(error = "command")
           /\ Recorded(q, d, error).executions
                  = metrics.executions + One(error = "none")
<1>1. cost[q] \in Int /\ CounterSize \in Nat \ {0}
    BY ArgsType, RequestPathAssumption
<1>2. /\ metrics \in [allowed : Nat, denied : Nat, tokens : Int, deny_tokens : Int,
                      connection_errors : Nat, script_errors : Nat, executions : Nat]
    BY DEF Counted
<1>3. (metrics.deny_tokens + d.deny_count) % CounterSize \in Int
    BY <1>1, <1>2
<1>4. \A b : One(b) \in {0, 1} /\ One(b) + One(~b) = 1
    BY DEF One
<1> DEFINE n == (metrics.deny_tokens + d.deny_count) % CounterSize
<1>5. Recorded(q, d, error) =
        [metrics EXCEPT !.connection_errors = @ + One(error = "connection"),
                        !.script_errors = @ + One(error = "command"),
                        !.executions = @ + One(error = "none"),
                        !.allowed = @ + One(d.allowed),
                        !.denied = @ + One(~d.allowed),
                        !.tokens = @ + cost[q],
                        !.deny_tokens = n]
    BY <1>2 DEF Recorded, ScriptRecorded
<1>6. n \in Int
    BY <1>3
<1> HIDE DEF n
<1> DEFINE a == One(d.allowed)
           b == One(~d.allowed)
           x == One(error = "connection")
           y == One(error = "command")
           z == One(error = "none")
           R == Recorded(q, d, error)
<1>7. a \in Nat /\ b \in Nat /\ a + b = 1 /\ x \in Nat /\ y \in Nat /\ z \in Nat
    BY <1>4
<1>8. R = [allowed |-> metrics.allowed + a, denied |-> metrics.denied + b,
           tokens |-> metrics.tokens + cost[q], deny_tokens |-> n,
           connection_errors |-> metrics.connection_errors + x,
           script_errors |-> metrics.script_errors + y,
           executions |-> metrics.executions + z]
    BY <1>2, <1>5
<1> HIDE DEF a, b, x, y, z, R
<1>9. R \in [allowed : Nat, denied : Nat, tokens : Int, deny_tokens : Int,
             connection_errors : Nat, script_errors : Nat, executions : Nat]
    BY <1>1, <1>2, <1>6, <1>7, <1>8
<1>10. R.allowed + R.denied = metrics.allowed + metrics.denied + 1
    BY <1>2, <1>7, <1>8
<1>11. /\ R.tokens = metrics.tokens + cost[q] /\ R.deny_tokens = n
       /\ R.connection_errors = metrics.connection_errors + x
       /\ R.script_errors = metrics.script_errors + y
       /\ R.executions = metrics.executions + z
    BY <1>8
<1> QED
    BY <1>9, <1>10, <1>11 DEF R, n, x, y, z

(* Every step keeps Counted.                                               *)
LEMMA NextKeepsCounted ==
    ASSUME IInv, Orderly, Counted, Next
    PROVE  Counted'
<1> DEFINE Fields == [allowed : Nat, denied : Nat, tokens : Int, deny_tokens : Int,
                      connection_errors : Nat, script_errors : Nat, executions : Nat]
<1>1. metrics \in Fields
    BY DEF Counted
<1>2. CASE ByScript' = ByScript /\ LetThrough' = LetThrough /\ metrics' = metrics
    BY <1>2 DEF Counted
<1>3. CASE ByScript' = ByScript /\ LetThrough' = LetThrough /\ metrics' = NoMetrics
    BY <1>3, ToldFinite DEF Counted, NoMetrics
<1>4. ASSUME NEW q \in Checks,
             q \notin ByScript, ByScript' = ByScript \cup {q}, LetThrough' = LetThrough,
             stage[q] = "replied", metrics' = Recorded(q, Decision(reply[q]), "none")
      PROVE  Counted'
  <2>1. Decision(reply[q]).deny_count \in Int
    BY <1>4 DEF Orderly, Replies, Decision
  <2>2. /\ metrics' \in Fields
        /\ metrics'.allowed + metrics'.denied = metrics.allowed + metrics.denied + 1
        /\ metrics'.connection_errors = metrics.connection_errors
        /\ metrics'.script_errors = metrics.script_errors
        /\ metrics'.executions = metrics.executions + 1
    BY <1>1, <1>4, <2>1, RecordedFields DEF One
  <2>3. Cardinality(ByScript') = Cardinality(ByScript) + 1
    BY <1>4, FS_AddElement, ToldFinite
  <2> HIDE DEF Fields
  <2>4. metrics'.executions <= Cardinality(ByScript')
    BY <2>2, <2>3, ToldFinite, <1>1 DEF Counted, Fields
  <2>5. metrics'.allowed + metrics'.denied
            = metrics'.connection_errors + metrics'.script_errors + metrics'.executions
    BY <2>2, <1>1 DEF Counted, Fields
  <2>6. metrics'.connection_errors + metrics'.script_errors <= Cardinality(LetThrough')
    BY <1>4, <2>2 DEF Counted
  <2> QED
    BY <2>2, <2>4, <2>5, <2>6 DEF Counted, Fields
<1>5. ASSUME NEW q \in Checks, NEW error \in {"connection", "command"},
             q \notin LetThrough, LetThrough' = LetThrough \cup {q}, ByScript' = ByScript,
             metrics' = Recorded(q, FailOpen, error)
      PROVE  Counted'
  <2>1. FailOpen.deny_count \in Int
    BY DEF FailOpen
  <2>2. /\ metrics' \in Fields
        /\ metrics'.allowed + metrics'.denied = metrics.allowed + metrics.denied + 1
        /\ metrics'.connection_errors = metrics.connection_errors + One(error = "connection")
        /\ metrics'.script_errors = metrics.script_errors + One(error = "command")
        /\ metrics'.executions = metrics.executions
    BY <1>1, <1>5, <2>1, RecordedFields DEF One
  <2>3. Cardinality(LetThrough') = Cardinality(LetThrough) + 1
    BY <1>5, FS_AddElement, ToldFinite
  <2>4. metrics'.connection_errors + metrics'.script_errors
            = metrics.connection_errors + metrics.script_errors + 1
    BY <1>1, <2>2 DEF One
  <2> HIDE DEF Fields
  <2>5. metrics'.connection_errors + metrics'.script_errors <= Cardinality(LetThrough')
    BY <2>2, <2>3, <2>4, ToldFinite, <1>1 DEF Counted, Fields
  <2>6. metrics'.allowed + metrics'.denied
            = metrics'.connection_errors + metrics'.script_errors + metrics'.executions
    BY <2>2, <2>4, <1>1 DEF Counted, Fields
  <2>7. metrics'.executions <= Cardinality(ByScript')
    BY <1>5, <2>2 DEF Counted
  <2> QED
    BY <2>2, <2>5, <2>6, <2>7 DEF Counted, Fields
<1> QED
    BY <1>2, <1>3, <1>4, <1>5, HowCounted

(* The counters agree with each other, and what they show as failed open   *)
(* is what failed open: record_request, record_redis_error and             *)
(* record_script_execution are called once each for every answer.          *)
LEMMA CountedMeansAgreement ==
    ASSUME IInv, Counted
    PROVE  CountersAgree
<1>1. ByScript \subseteq Charged
    BY DEF IInv, Once, ByScript, Charged
<1>2. IsFiniteSet(Charged)
    BY FS_Subset, RequestPathAssumption DEF Charged
<1>3. Cardinality(ByScript) <= Cardinality(Charged)
    BY <1>1, <1>2, FS_Subset
<1>4. Cardinality(Charged) \in Nat /\ Cardinality(ByScript) \in Nat
    BY <1>2, ToldFinite, FS_CardinalityType
<1>5. metrics.executions <= Cardinality(Charged)
    BY <1>3, <1>4 DEF Counted
<1> QED
    BY <1>5 DEF CountersAgree, Counted, Charged, LetThrough

(* The counters of Init are at zero. *)
LEMMA InitCounted == Init => Counted
BY ToldFinite DEF Init, Counted, NoMetrics

(* Every step keeps the three together.                                    *)
LEMMA StepCounted ==
    ASSUME IInv, Orderly, Counted, [Next]_vars
    PROVE  Counted'
<1>1. CASE Next
    BY <1>1, NextKeepsCounted
<1>2. CASE UNCHANGED vars
  <2>1. UNCHANGED << stage, decision, metrics >>
    BY <1>2 DEF vars, callVars
  <2> QED
    BY <2>1 DEF Counted, ByScript, LetThrough, Opened, Answered
<1> QED
    BY <1>1, <1>2

(* Every answered check is counted once, as an execution of the script or  *)
(* as an error, across failures and restarts: the records of check_limit   *)
(* and of the client do not drift apart.                                   *)
THEOREM CountersStayInAgreement == Spec => []CountersAgree
<1>1. Init => IInv /\ Orderly /\ Counted
    BY InitIInv, InitOrderly, InitCounted
<1>2. IInv /\ Orderly /\ Counted /\ [Next]_vars => IInv' /\ Orderly' /\ Counted'
    BY NextKeepsIInv, NextKeepsOrderly, StepCounted
<1>3. IInv /\ Counted => CountersAgree
    BY CountedMeansAgreement
<1> QED
    BY <1>1, <1>2, <1>3, PTL DEF Spec

-----------------------------------------------------------------------------
(* What falls, and when.                                                   *)

NoRefunds == \A r \in Charged : ~Refund(r)

(* No check asks for more than this.                                       *)
CostsUpTo(most) == \A r \in Checks : \A c \in Costs[r] : c <= most

(* What no deny count exceeds, without refunds: where the script's number  *)
(* stops, or all that the checks together may ask for.                     *)
DenialBound(m) ==
    /\ m \in Nat
    /\ \/ m >= MaxDeny
       \/ \E most \in Nat : CostsUpTo(most) /\ m = most * Cardinality(Checks)

(* A number that k checks could have asked for together; the deny count in *)
(* the bucket is one for those charged.                                    *)
AmongCosts(n, k) == \A most \in Nat : CostsUpTo(most) => n <= most * k

Denials ==
    /\ \A r \in Checks : stage[r] # "new" => cost[r] \in Costs[r]
    /\ NoRefunds => bucket.deny >= 0 /\ AmongCosts(bucket.deny, Cardinality(Charged))

(* So those that are told are bounded, and the counter that sums them has  *)
(* not come round.                                                         *)
DenialsBounded(m) ==
    /\ Denials
    /\ NoRefunds =>
        /\ \A r \in Checks : stage[r] = "replied" => Decision(reply[r]).deny_count \in 0 .. m
        /\ metrics.deny_tokens \in 0 .. m * Cardinality(ByScript)

(* Who has been charged stays so, for the same cost.                       *)
LEMMA ChargedStays ==
    ASSUME IInv, Next, NEW r \in Charged
    PROVE  r \in Charged' /\ cost'[r] = cost[r] /\ snapshot'[r] = snapshot[r] /\ stage[r] # "new"
<1>1. r \in Checks /\ runs[r] > 0 /\ runs \in [Checks -> Nat]
    BY DEF Charged, IInv, TypeOK
<1>2. stage[r] # "new"
    BY <1>1 DEF IInv, Once
<1>3. ASSUME NEW e \in Checks, Execute(e)
      PROVE  runs'[r] > 0
    BY <1>1, <1>3 DEF Execute
<1>4. Restart => runs' = runs
    BY DEF Restart
<1>5. runs'[r] > 0
    BY <1>1, <1>3, <1>4, ScriptRuns
<1> QED
    BY <1>1, <1>2, <1>5, WhatStays DEF Charged

(* If there is no refund after a step, there was none before.              *)
LEMMA RefundsStay ==
    ASSUME IInv, Next, NoRefunds'
    PROVE  NoRefunds
<1>1. ASSUME NEW r \in Charged, Refund(r)
      PROVE  FALSE
  <2>1. r \in Charged' /\ cost'[r] = cost[r]
    BY ChargedStays
  <2> QED
    BY <1>1, <2>1 DEF NoRefunds, Refund
<1> QED
    BY <1>1 DEF NoRefunds

(* Those charged can be counted.                                           *)
LEMMA ChargedFinite ==
    /\ IsFiniteSet(Charged) /\ Cardinality(Charged) \in Nat
    /\ Cardinality(Charged) <= Cardinality(Checks) /\ Cardinality(Checks) \in Nat
<1>1. Charged \subseteq Checks /\ IsFiniteSet(Checks)
    BY RequestPathAssumption DEF Charged
<1> QED
    BY <1>1, FS_Subset, FS_CardinalityType

(* A product of natural numbers, and the next.                             *)
LEMMA NextProduct ==
    ASSUME NEW m \in Nat, NEW k \in Nat
    PROVE  m * k \in Nat /\ m * (k + 1) = m * k + m
OBVIOUS

(* And a smaller factor.                                                   *)
LEMMA SmallerProduct ==
    ASSUME NEW m \in Nat, NEW k \in Nat, NEW n \in Nat, k <= n
    PROVE  m * k <= m * n
OBVIOUS

(* The script charges one check more.                                      *)
LEMMA OneMoreCharged ==
    ASSUME IInv, NEW e \in Checks, Execute(e)
    PROVE  /\ e \notin Charged /\ Charged' = Charged \cup {e}
           /\ Cardinality(Charged') = Cardinality(Charged) + 1
<1>1. runs \in [Checks -> Nat] /\ runs[e] = 0 /\ runs' = [runs EXCEPT ![e] = @ + 1]
    BY NotChargedYet DEF Execute, IInv, TypeOK
<1>2. e \notin Charged /\ Charged' = Charged \cup {e}
    BY <1>1 DEF Charged
<1> QED
    BY <1>2, ChargedFinite, FS_AddElement

(* What a run of the script adds to the deny count and tells its caller.   *)
LEMMA DeniedAfter ==
    ASSUME IInv, Denials, NoRefunds, NEW e \in Checks, Execute(e), ~Refund(e)
    PROVE  \E d \in 0 .. MaxDeny :
               /\ AmongCosts(d, Cardinality(Charged'))
               /\ bucket'.deny \in {0, d}
               /\ Decision(Reply(bucket, cost[e], snapshot[e])).deny_count \in {0, d}
<1> DEFINE c == cost[e]
           p == snapshot[e]
           k == Cardinality(Charged)
           d == DenyCount(bucket, c)
<1>1. bucket \in Bucket /\ c \in Int /\ p \in Seq(Policy) /\ p # <<>>
    BY ArgsType DEF IInv, TypeOK
<1>2. /\ c >= 0 /\ bucket' = Stored(bucket, c, p)
      /\ bucket.deny \in 0 .. MaxDeny /\ MaxDeny \in Nat
  <2>1. bucket.deny \in -MaxDeny .. MaxDeny /\ bucket.deny >= 0
    BY <1>1 DEF Bucket, Denials
  <2> QED
    BY <1>1, <2>1, LeakyBucketAssumption DEF Refund, Execute
<1>3. c \in Costs[e] /\ AmongCosts(bucket.deny, k)
    BY NotChargedYet DEF Denials, Execute
<1>4. Cardinality(Charged') = k + 1 /\ k \in Nat
    BY OneMoreCharged, ChargedFinite
<1>5. Reply(bucket, cost[e], snapshot[e]) = Reply(bucket, c, p)
    OBVIOUS
<1> HIDE DEF c, p, k
<1>6. d \in 0 .. MaxDeny /\ d <= bucket.deny + c
    BY <1>1, <1>2 DEF DenyCount, Larger, Smaller
<1>7. bucket'.deny \in {0, d} /\ Decision(Reply(bucket, c, p)).deny_count \in {0, d}
    BY <1>2 DEF Stored, Decision, Reply
<1> HIDE DEF d
<1>8. ASSUME NEW most \in Nat, CostsUpTo(most)
      PROVE  d <= most * (k + 1)
  <2>1. c <= most /\ bucket.deny <= most * k
    BY <1>3, <1>8 DEF CostsUpTo, AmongCosts
  <2>2. most * k \in Nat /\ most * (k + 1) = most * k + most
    BY <1>4, <1>8, NextProduct
  <2> DEFINE x == most * k
  <2>3. bucket.deny <= x /\ x \in Nat /\ most * (k + 1) = x + most
    BY <2>1, <2>2
  <2> HIDE DEF x
  <2> QED
    BY <1>1, <1>2, <1>6, <2>1, <2>3
<1>9. AmongCosts(d, Cardinality(Charged'))
    BY <1>4, <1>8 DEF AmongCosts
<1> QED
    BY <1>5, <1>6, <1>7, <1>9

(* Such a number is within the bound.                                      *)
LEMMA WithinBound ==
    ASSUME NEW m, DenialBound(m), NEW d \in 0 .. MaxDeny, NEW k \in Nat,
           k <= Cardinality(Checks), AmongCosts(d, k)
    PROVE  d \in 0 .. m
<1>1. m \in Nat /\ MaxDeny \in Nat /\ Cardinality(Checks) \in Nat
    BY LeakyBucketAssumption, ChargedFinite DEF DenialBound
<1>2. CASE m >= MaxDeny
    BY <1>1, <1>2
<1>3. ASSUME NEW most \in Nat, CostsUpTo(most), m = most * Cardinality(Checks)
      PROVE  d \in 0 .. m
  <2>1. d <= most * k /\ most * k <= most * Cardinality(Checks) /\ most * k \in Nat
    BY <1>1, <1>3, SmallerProduct, NextProduct DEF AmongCosts
  <2> DEFINE x == most * k
  <2>2. d <= x /\ x <= m /\ x \in Nat
    BY <1>3, <2>1
  <2> HIDE DEF x
  <2> QED
    BY <1>1, <2>2
<1> QED
    BY <1>2, <1>3 DEF DenialBound

(* A call begins by arriving.                                              *)
LEMMA BeginsByArriving ==
    ASSUME IInv, Next, NEW q \in Checks, stage[q] = "new", stage'[q] # "new"
    PROVE  Arrive(q)
<1>1. stage \in [Requests -> Stages] /\ q \in Requests
    BY InvariantParts DEF Requests
<1>2. ASSUME NEW r \in Requests, NEW s, Move(r, s), stage[r] # "new"
      PROVE  stage'[q] = "new"
    BY <1>1, <1>2 DEF Move
<1>3. ASSUME NEW r \in Requests, Arrive(r)
      PROVE  r = q
    BY <1>1, <1>3 DEF Arrive, Move
<1>4. ASSUME NEW r \in Requests, Task(r) \/ Cancel(r) \/ LoseCommand(r)
      PROVE  stage'[q] = "new"
    BY <1>2, <1>4, FailWithTells
       DEF Task, Acquire, Connect, Answer, AnswerWith, Tell, Fail, Cancel, LoseCommand,
           callVars, Ongoing, Holding, Connected
<1>5. ASSUME NEW r \in Requests, Server(r)
      PROVE  stage'[q] = "new"
  <2>1. Listening(r) => stage[r] # "new"
    BY DEF Listening, Connected
  <2> QED
    BY <1>2, <1>5, <2>1, FailWithTells
       DEF Server, Execute, Raise, NoScript, LoadScript, ReadBucket, callVars
<1>6. Reload \/ RedisFault \/ Register \/ Crash => stage'[q] = "new"
    BY <1>1 DEF Reload, RedisFault, GoDown, ComeBack, Restart, Stall, Resume, Register, Crash,
                callVars, Ongoing, Holding, Connected
<1>7. ASSUME NEW r \in Requests, Reset(r) \/ Refuse(r)
      PROVE  stage'[q] = "new"
    BY <1>2, <1>7, RefuseTells DEF Reset, Connected
<1> QED
    BY <1>3, <1>4, <1>5, <1>6, <1>7 DEF Next

(* Every step keeps the deny count among the costs.                        *)
LEMMA NextKeepsCount ==
    ASSUME IInv, Denials, Next
    PROVE  Denials'
<1>1. ASSUME NEW r \in Checks, stage'[r] # "new"
      PROVE  cost'[r] \in Costs[r]
  <2>1. CASE stage[r] = "new"
    <3>1. Arrive(r) /\ r \in DOMAIN cost
        BY <1>1, <2>1, BeginsByArriving DEF IInv, TypeOK
    <3> QED
        BY <3>1 DEF Arrive
  <2>2. CASE stage[r] # "new"
    BY <2>2, WhatStays DEF Denials
  <2> QED
    BY <2>1, <2>2
<1>2. ASSUME NoRefunds'
      PROVE  bucket'.deny >= 0 /\ AmongCosts(bucket'.deny, Cardinality(Charged'))
  <2>1. NoRefunds
    BY <1>2, RefundsStay
  <2>2. \A k \in Nat : AmongCosts(0, k)
    BY NextProduct DEF AmongCosts
  <2>3. ASSUME NEW e \in Checks, Execute(e)
        PROVE  bucket'.deny >= 0 /\ AmongCosts(bucket'.deny, Cardinality(Charged'))
    <3>1. ~Refund(e)
      <4>1. e \in Charged' /\ cost'[e] = cost[e]
        BY <2>3 DEF Execute, Charged, IInv, TypeOK, args
      <4> QED
        BY <1>2, <4>1 DEF NoRefunds, Refund
    <3>2. PICK d \in 0 .. MaxDeny :
              AmongCosts(d, Cardinality(Charged')) /\ bucket'.deny \in {0, d}
        BY <2>1, <2>3, <3>1, DeniedAfter
    <3>3. Cardinality(Charged') \in Nat
        BY <2>3, OneMoreCharged, ChargedFinite
    <3> QED
        BY <2>2, <3>2, <3>3, LeakyBucketAssumption
  <2>4. CASE Restart
    BY <2>2, <2>4, ChargedFinite DEF Restart, NoBucket, Charged
  <2>5. CASE UNCHANGED << bucket, runs, losses >>
    BY <2>1, <2>5 DEF Denials, Charged
  <2> QED
    BY <2>3, <2>4, <2>5, ScriptRuns
<1> QED
    BY <1>1, <1>2 DEF Denials

(* A remainder that is the number itself.                                  *)
LEMMA BelowModulus ==
    ASSUME NEW n \in Nat, NEW m \in Nat, n < m
    PROVE  n % m = n
OBVIOUS

(* A reply that is recorded keeps the sum of the deny counts in its range. *)
LEMMA DenialRecorded ==
    ASSUME IInv, Orderly, Counted, NEW m, DenialBound(m), DenialsBounded(m), NoRefunds,
           m * Cardinality(Checks) < CounterSize,
           NEW q \in Checks, q \notin ByScript, ByScript' = ByScript \cup {q},
           stage[q] = "replied", metrics' = Recorded(q, Decision(reply[q]), "none")
    PROVE  /\ metrics'.deny_tokens \in 0 .. m * Cardinality(ByScript')
           /\ metrics'.deny_tokens >= metrics.deny_tokens
<1> DEFINE d == Decision(reply[q]).deny_count
           k == Cardinality(ByScript)
           n == Cardinality(Checks)
<1>1. /\ d \in 0 .. m
      /\ metrics.deny_tokens \in 0 .. m * k
    BY DEF DenialsBounded
<1>2. m \in Nat /\ CounterSize \in Nat /\ k \in Nat /\ n \in Nat
    BY RequestPathAssumption, ToldFinite DEF DenialBound
<1>3. metrics'.deny_tokens = (metrics.deny_tokens + d) % CounterSize
    BY <1>1, RecordedFields
<1>4. Cardinality(ByScript') = k + 1
    BY FS_AddElement, ToldFinite
<1>5. k + 1 <= n
  <2>1. ByScript' \subseteq Checks /\ IsFiniteSet(Checks)
    BY RequestPathAssumption DEF ByScript
  <2> QED
    BY <1>4, <2>1, FS_Subset
<1>6. m * n < CounterSize
    OBVIOUS
<1> HIDE DEF d, k, n
<1>7. m * k \in Nat /\ m * (k + 1) = m * k + m
    BY <1>2, NextProduct
<1>8. m * (k + 1) <= m * n /\ m * n \in Nat
    BY <1>2, <1>5, SmallerProduct, NextProduct
<1> DEFINE x == m * k
           y == m * (k + 1)
           z == m * n
<1>9. /\ x \in Nat /\ y = x + m /\ y <= z /\ z < CounterSize /\ z \in Nat
      /\ metrics.deny_tokens \in 0 .. x
    BY <1>1, <1>6, <1>7, <1>8
<1>10. metrics'.deny_tokens \in 0 .. y => metrics'.deny_tokens \in 0 .. m * Cardinality(ByScript')
    BY <1>4
<1> HIDE DEF x, y, z
<1>11. metrics.deny_tokens + d \in Nat /\ metrics.deny_tokens + d <= y
       /\ metrics.deny_tokens + d < CounterSize /\ metrics.deny_tokens + d >= metrics.deny_tokens
    BY <1>1, <1>2, <1>9
<1>12. metrics'.deny_tokens = metrics.deny_tokens + d
    BY <1>2, <1>3, <1>11, BelowModulus
<1> QED
    BY <1>2, <1>9, <1>10, <1>11, <1>12

(* An error adds nothing to it.                                            *)
LEMMA ErrorRecorded ==
    ASSUME IInv, Orderly, Counted, NEW m, DenialBound(m), DenialsBounded(m), NoRefunds,
           m * Cardinality(Checks) < CounterSize,
           NEW q \in Checks, NEW error, metrics' = Recorded(q, FailOpen, error)
    PROVE  metrics'.deny_tokens = metrics.deny_tokens
<1> DEFINE k == Cardinality(ByScript)
           n == Cardinality(Checks)
<1>1. metrics.deny_tokens \in 0 .. m * k
    BY DEF DenialsBounded
<1>2. /\ m \in Nat /\ CounterSize \in Nat /\ k \in Nat /\ n \in Nat /\ k <= n
    BY RequestPathAssumption, ToldFinite DEF DenialBound
<1>3. metrics'.deny_tokens = (metrics.deny_tokens + 0) % CounterSize
    BY RecordedFields DEF FailOpen
<1>4. m * n < CounterSize
    OBVIOUS
<1> HIDE DEF k, n
<1>5. m * k <= m * n /\ m * n \in Nat /\ m * k \in Nat
    BY <1>2, SmallerProduct, NextProduct
<1> DEFINE x == m * k
           z == m * n
<1>6. x \in Nat /\ x <= z /\ z < CounterSize /\ z \in Nat /\ metrics.deny_tokens \in 0 .. x
    BY <1>1, <1>4, <1>5
<1> HIDE DEF x, z
<1>7. metrics.deny_tokens \in Nat /\ metrics.deny_tokens < CounterSize
    BY <1>2, <1>6
<1>8. metrics.deny_tokens % CounterSize = metrics.deny_tokens
    BY <1>2, <1>7, BelowModulus
<1> QED
    BY <1>3, <1>7, <1>8

(* Every step keeps the deny counts as they should be.                     *)
LEMMA NextKeepsDenials ==
    ASSUME IInv, Orderly, Counted, NEW m, DenialBound(m), DenialsBounded(m), Next,
           m * Cardinality(Checks) < CounterSize
    PROVE  DenialsBounded(m)'
<1> SUFFICES ASSUME NoRefunds'
             PROVE  /\ \A r \in Checks : stage'[r] = "replied" =>
                            Decision(reply'[r]).deny_count \in 0 .. m
                    /\ metrics'.deny_tokens \in 0 .. m * Cardinality(ByScript')
    BY NextKeepsCount DEF DenialsBounded
<1>1. NoRefunds
    BY RefundsStay
<1>2. /\ \A r \in Checks : stage[r] = "replied" => Decision(reply[r]).deny_count \in 0 .. m
      /\ metrics.deny_tokens \in 0 .. m * Cardinality(ByScript)
    BY <1>1 DEF DenialsBounded
<1>3. ASSUME NEW e \in Checks, Execute(e)
      PROVE  \A r \in Checks : stage'[r] = "replied" =>
                 Decision(reply'[r]).deny_count \in 0 .. m
  <2>1. ~Refund(e)
    <3>1. e \in Charged' /\ cost'[e] = cost[e]
        BY <1>3 DEF Execute, Charged, IInv, TypeOK, args
    <3> QED
        BY <3>1 DEF NoRefunds, Refund
  <2>2. Decision(Reply(bucket, cost[e], snapshot[e])).deny_count \in 0 .. m
    <3>1. Denials
        BY DEF DenialsBounded
    <3>2. PICK d \in 0 .. MaxDeny :
              /\ AmongCosts(d, Cardinality(Charged'))
              /\ Decision(Reply(bucket, cost[e], snapshot[e])).deny_count \in {0, d}
        BY <1>1, <1>3, <2>1, <3>1, DeniedAfter
    <3>3. Cardinality(Charged') \in Nat /\ Cardinality(Charged') <= Cardinality(Checks)
      <4>1. Charged' \subseteq Checks /\ IsFiniteSet(Checks)
        BY RequestPathAssumption DEF Charged
      <4> QED
        BY <4>1, FS_Subset, FS_CardinalityType
    <3>4. d \in 0 .. m /\ m \in Nat
        BY <3>2, <3>3, WithinBound DEF DenialBound
    <3> QED
        BY <3>2, <3>4
  <2>3. CASE UNCHANGED << reply, stage >>
    BY <1>2, <2>3
  <2>4. CASE /\ Move(e, "replied")
             /\ reply' = [reply EXCEPT ![e] = Reply(bucket, cost[e], snapshot[e])]
    <3>1. \A q \in Checks : q # e => reply'[q] = reply[q] /\ stage'[q] = stage[q]
        BY <2>4, InvariantParts DEF Move, Requests
    <3>2. reply'[e] = Reply(bucket, cost[e], snapshot[e])
        BY <2>4 DEF Orderly, Replies
    <3> QED
        BY <1>2, <2>2, <3>1, <3>2
  <2> QED
    BY <1>3, <2>3, <2>4, ReplyAfter
<1>4. ASSUME ~(\E e \in Checks : Execute(e))
      PROVE  \A r \in Checks : stage'[r] = "replied" =>
                 Decision(reply'[r]).deny_count \in 0 .. m
    BY <1>2, <1>4, NoReplyElsewhere
<1>5. metrics'.deny_tokens \in 0 .. m * Cardinality(ByScript')
  <2>1. CASE ByScript' = ByScript /\ metrics' = metrics
    BY <1>2, <2>1
  <2>2. CASE ByScript' = ByScript /\ metrics' = NoMetrics
    <3>1. m * Cardinality(ByScript) \in Nat
        BY NextProduct, ToldFinite DEF DenialBound
    <3>2. metrics'.deny_tokens = 0
        BY <2>2 DEF NoMetrics
    <3> QED
        BY <2>2, <3>1, <3>2
  <2>3. ASSUME NEW q \in Checks,
               q \notin ByScript, ByScript' = ByScript \cup {q},
               stage[q] = "replied", metrics' = Recorded(q, Decision(reply[q]), "none")
        PROVE  metrics'.deny_tokens \in 0 .. m * Cardinality(ByScript')
    BY <1>1, <2>3, DenialRecorded
  <2>4. ASSUME NEW q \in Checks, NEW error, ByScript' = ByScript,
               metrics' = Recorded(q, FailOpen, error)
        PROVE  metrics'.deny_tokens \in 0 .. m * Cardinality(ByScript')
    <3>1. metrics'.deny_tokens = metrics.deny_tokens
        BY <1>1, <2>4, ErrorRecorded
    <3> QED
        BY <1>2, <2>4, <3>1
  <2> QED
    BY <2>1, <2>2, <2>3, <2>4, HowCounted
<1> QED
    BY <1>3, <1>4, <1>5

(* The step of CountersFallOnlyAfterRefund.                                *)
LEMMA FallsOnlyAfterRefund ==
    ASSUME IInv, Orderly, Counted, NEW m, DenialBound(m), DenialsBounded(m), Next,
           m * Cardinality(Checks) < CounterSize
    PROVE  \/ metrics' = NoMetrics
           \/ /\ metrics'.tokens < metrics.tokens
                     => \E r \in Checks : Refund(r) /\ Answered(r)' /\ ~Answered(r)
              /\ metrics'.deny_tokens < metrics.deny_tokens
                     => \E r \in Checks : Refund(r) /\ runs[r] > 0
<1>1. metrics.tokens \in Int /\ metrics.deny_tokens \in Int
    BY DEF Counted
<1>2. CASE metrics' = metrics
    BY <1>1, <1>2
<1>3. ASSUME NEW q \in Checks, NEW d, NEW error, d.deny_count \in Int,
             stage[q] # "done", stage'[q] = "done", metrics' = Recorded(q, d, error)
      PROVE  metrics'.tokens < metrics.tokens
                 => \E r \in Checks : Refund(r) /\ Answered(r)' /\ ~Answered(r)
  <2>1. metrics'.tokens = metrics.tokens + cost[q] /\ cost[q] \in Int
    BY <1>3, RecordedFields, ArgsType
  <2> QED
    BY <1>1, <1>3, <2>1 DEF Refund, Answered
<1>4. ~NoRefunds => \E r \in Checks : Refund(r) /\ runs[r] > 0
    BY DEF NoRefunds, Charged
<1>5. ASSUME NEW q \in Checks, q \notin ByScript, ByScript' = ByScript \cup {q},
             stage[q] = "replied", stage'[q] = "done",
             metrics' = Recorded(q, Decision(reply[q]), "none")
      PROVE  /\ metrics'.tokens < metrics.tokens
                   => \E r \in Checks : Refund(r) /\ Answered(r)' /\ ~Answered(r)
             /\ metrics'.deny_tokens < metrics.deny_tokens
                   => \E r \in Checks : Refund(r) /\ runs[r] > 0
  <2>1. Decision(reply[q]).deny_count \in Int
    BY <1>5 DEF Orderly, Replies, Decision
  <2>2. NoRefunds => metrics'.deny_tokens >= metrics.deny_tokens
                     /\ metrics'.deny_tokens \in Int
    <3>1. NoRefunds => metrics'.deny_tokens >= metrics.deny_tokens
        BY <1>5, DenialRecorded
    <3>2. metrics'.deny_tokens \in Int
        BY <1>5, <2>1, RecordedFields
    <3> QED
        BY <3>1, <3>2
  <2> QED
    BY <1>1, <1>3, <1>4, <1>5, <2>1, <2>2
<1>6. ASSUME NEW q \in Checks, NEW error, stage[q] # "done", stage'[q] = "done",
             metrics' = Recorded(q, FailOpen, error)
      PROVE  /\ metrics'.tokens < metrics.tokens
                   => \E r \in Checks : Refund(r) /\ Answered(r)' /\ ~Answered(r)
             /\ metrics'.deny_tokens < metrics.deny_tokens
                   => \E r \in Checks : Refund(r) /\ runs[r] > 0
  <2>1. FailOpen.deny_count \in Int
    BY DEF FailOpen
  <2>2. NoRefunds => metrics'.deny_tokens = metrics.deny_tokens
    BY <1>6, ErrorRecorded
  <2> QED
    BY <1>1, <1>3, <1>4, <1>6, <2>1, <2>2
<1> QED
    BY <1>2, <1>5, <1>6, HowCounted

(* Nothing has been denied yet.                                            *)
LEMMA InitDenials ==
    ASSUME NEW m, DenialBound(m), Init
    PROVE  DenialsBounded(m)
<1>1. m * Cardinality(ByScript) \in Nat /\ m \in Nat
    BY NextProduct, ToldFinite DEF DenialBound
<1>2. metrics.deny_tokens = 0 /\ bucket.deny = 0
    BY DEF Init, NoMetrics, NoBucket
<1>3. \A r \in Checks : stage[r] = "new"
    BY DEF Init, Requests
<1>4. AmongCosts(0, Cardinality(Charged))
    BY ChargedFinite, NextProduct DEF AmongCosts
<1> QED
    BY <1>1, <1>2, <1>3, <1>4 DEF DenialsBounded, Denials

(* Every step keeps the denials adding up.                                 *)
LEMMA StepDenials ==
    ASSUME IInv, Orderly, Counted, NEW m, DenialBound(m), DenialsBounded(m), [Next]_vars,
           m * Cardinality(Checks) < CounterSize
    PROVE  DenialsBounded(m)'
<1>1. CASE Next
    BY <1>1, NextKeepsDenials
<1>2. CASE UNCHANGED vars
  <2>1. UNCHANGED << stage, decision, metrics, cost, runs, bucket, reply >>
    BY <1>2 DEF vars, callVars, redisVars, args
  <2> QED
    BY <2>1 DEF DenialsBounded, Denials, NoRefunds, Refund, Charged, ByScript, Answered
<1> QED
    BY <1>1, <1>2

(* What a step may do to the counters.                                     *)
Rises ==
    \/ metrics' = NoMetrics
    \/ /\ metrics'.tokens < metrics.tokens
              => \E r \in Checks : Refund(r) /\ Answered(r)' /\ ~Answered(r)
       /\ metrics'.deny_tokens < metrics.deny_tokens
              => \E r \in Checks : Refund(r) /\ runs[r] > 0

(* And does, if the denials add up.                                        *)
LEMMA StepRises ==
    ASSUME IInv, Orderly, Counted, NEW m, DenialBound(m), DenialsBounded(m), [Next]_vars,
           m * Cardinality(Checks) < CounterSize
    PROVE  [Rises]_metrics
<1>1. UNCHANGED vars => metrics' = metrics
    BY DEF vars, callVars
<1> QED
    BY <1>1, FallsOnlyAfterRefund DEF Rises

(* TOKENS_TOTAL and DENY_COUNT_TOTAL rise, as a Prometheus counter must,   *)
(* until the process is replaced, but for a negative cost that is answered *)
(* or has been charged: as long as all the denials that can be told stay   *)
(* below the size of the integer counter, which wraps there.               *)
THEOREM CountersRiseWithoutRefunds ==
    ASSUME NEW m, DenialBound(m), m * Cardinality(Checks) < CounterSize
    PROVE  Spec => CountersFallOnlyAfterRefund
<1>1. Init => IInv /\ Orderly /\ Counted /\ DenialsBounded(m)
    BY InitIInv, InitOrderly, InitCounted, InitDenials
<1>2. IInv /\ Orderly /\ Counted /\ DenialsBounded(m) /\ [Next]_vars
          => IInv' /\ Orderly' /\ Counted' /\ DenialsBounded(m)'
    BY NextKeepsIInv, NextKeepsOrderly, StepCounted, StepDenials
<1>3. IInv /\ Orderly /\ Counted /\ DenialsBounded(m) /\ [Next]_vars => [Rises]_metrics
    BY StepRises
<1> QED
    BY <1>1, <1>2, <1>3, PTL DEF Spec, CountersFallOnlyAfterRefund, Rises

-----------------------------------------------------------------------------
(* What is admitted.                                                       *)

(* Who has been told to pass on a count, or is about to be.                *)
Passed == {r \in Checks : (stage[r] = "replied" /\ reply[r].allowed) \/ r \in Admitted}

(* Who has given something back.                                           *)
Returned == {r \in Charged : Refund(r)}

Shared(i) == \A s \in Charged : i \in DOMAIN snapshot[s]

Below(A, i, m) == \A s \in A : snapshot[s][i].burst <= m

(* What any of those who passed asked for, less what was given back, is in *)
(* the bucket, but for at most one burst for each loss of the data; and no *)
(* restart will take it above one burst more.                              *)
Bounded(A, i, m) ==
    /\ Sum(cost, A \cup Returned) <= m * losses + Level(bucket, i)
    /\ Sum(cost, A \cup Returned) <= m * losses + m

Fits == \A A \in SUBSET Passed : \A i, m \in Nat :
            Shared(i) /\ Below(A, i, m) => Bounded(A, i, m)

(* Costs can be summed, and one more adds its own.                         *)
LEMMA CostsSum ==
    ASSUME IInv, NEW S \in SUBSET Checks
    PROVE  /\ Sum(cost, S) \in Int
           /\ \A e \in Checks \ S : cost[e] \in Int /\ Sum(cost, S \cup {e}) = cost[e] + Sum(cost, S)
<1>1. \A r \in Checks : cost[r] \in Int
    BY ArgsType
<1>2. \A T \in SUBSET Checks : IsFiniteSet(T)
    BY FS_Subset, RequestPathAssumption
<1>3. Sum(cost, S) \in Int
    BY <1>1, <1>2, SumType
<1>4. ASSUME NEW e \in Checks \ S
      PROVE  Sum(cost, S \cup {e}) = cost[e] + Sum(cost, S)
  <2> DEFINE T == S \cup {e}
  <2>1. IsFiniteSet(T) /\ e \in T /\ T \ {e} = S /\ \A x \in T : cost[x] \in Int
      BY <1>1, <1>2
  <2> HIDE DEF T
  <2>2. Sum(cost, T) = cost[e] + Sum(cost, T \ {e})
      BY <2>1, SumAdds
  <2> QED
      BY <2>1, <2>2 DEF T
<1> QED
    BY <1>1, <1>3, <1>4

(* Whoever passed has been charged.                                        *)
LEMMA PassedCharged ==
    ASSUME IInv
    PROVE  Passed \subseteq Charged /\ Admitted \subseteq Passed /\ Charged \subseteq Checks
<1>1. \A r \in Passed : runs[r] = 1
    BY DEF IInv, Once, Passed, Admitted, Opened, Answered
<1> QED
    BY <1>1 DEF Passed, Charged, Admitted

(* Sums over the charged stay as they are.                                 *)
LEMMA SumStays ==
    ASSUME IInv, Next, NEW S \in SUBSET Charged
    PROVE  Sum(cost', S) = Sum(cost, S)
<1>1. IsFiniteSet(S)
    BY PassedCharged, FS_Subset, RequestPathAssumption
<1>2. \A r \in S : cost'[r] = cost[r]
    BY ChargedStays
<1> QED
    BY <1>1, <1>2, SumAgrees

(* Without a run of the script nobody new passes.                          *)
LEMMA NobodyPasses ==
    ASSUME IInv, Orderly, Next, ~(\E e \in Checks : Execute(e))
    PROVE  Passed' \subseteq Passed
<1> SUFFICES ASSUME NEW r \in Passed' PROVE r \in Passed
    OBVIOUS
<1>1. r \in Checks /\ r \in Requests /\ DOMAIN decision = Requests
    BY DEF Passed, Requests, IInv, TypeOK
<1>2. CASE (stage[r] = "replied" /\ reply[r].allowed)'
    BY <1>1, <1>2, NoReplyElsewhere DEF Passed
<1>3. CASE (r \in Admitted)'
  <2>1. (stage[r] = "done")' /\ decision'[r] # FailOpen /\ decision'[r].allowed
    BY <1>3 DEF Admitted, Opened, Answered
  <2>2. CASE stage[r] = "done" /\ decision'[r] = decision[r]
    BY <1>1, <2>1, <2>2 DEF Passed, Admitted, Opened, Answered
  <2>3. CASE NobodyEnds
    BY <1>1, <2>1, <2>2, <2>3 DEF NobodyEnds
  <2>4. ASSUME NEW q \in Requests, stage[q] \in Holding, Heard(q) \/ Read(q) \/ Failed(q)
        PROVE  r \in Passed
    <3>1. PICK d : Tell(q, d)
        BY <2>4 DEF Heard, Read, Failed, FailWith, AnswerWith
    <3>2. stage \in [Requests -> Stages]
        BY DEF IInv, TypeOK, Stages
    <3>3. CASE r # q
        BY <1>1, <2>1, <2>2, <3>1, <3>2, <3>3 DEF Tell, Move
    <3>4. CASE r = q /\ Failed(q)
        BY <1>1, <2>1, <3>4 DEF Failed, FailWith, AnswerWith, Tell
    <3>5. CASE r = q /\ Heard(q)
      <4>1. decision'[r] = Decision(reply[r]) /\ stage[r] = "replied"
          BY <1>1, <3>5 DEF Heard, AnswerWith, Tell
      <4> QED
          BY <1>1, <2>1, <4>1 DEF Passed, Decision
    <3>6. CASE r = q /\ Read(q)
        BY <1>1, <3>6 DEF Read
    <3> QED
        BY <2>4, <3>3, <3>4, <3>5, <3>6
  <2> QED
    BY <2>3, <2>4, HowCallsEnd
<1> QED
    BY <1>2, <1>3 DEF Passed

(* A run of the script lets its own caller pass, if anyone.                *)
LEMMA OnePasses ==
    ASSUME IInv, Orderly, NEW e \in Checks, Execute(e)
    PROVE  /\ e \notin Charged /\ Charged' = Charged \cup {e}
           /\ \A r \in Checks : r \in Passed' =>
                 r \in Passed \/ (r = e /\ Allowed(bucket, cost[e], snapshot[e]))
           /\ cost' = cost /\ snapshot' = snapshot /\ losses' = losses
<1>1. runs \in [Checks -> Nat] /\ runs[e] = 0 /\ runs' = [runs EXCEPT ![e] = @ + 1]
    BY NotChargedYet DEF Execute, IInv, TypeOK
<1>2. e \notin Charged /\ Charged' = Charged \cup {e}
    BY <1>1 DEF Charged
<1>3. e \notin Passed
    BY <1>2, PassedCharged
<1>4. UNCHANGED << cost, snapshot, losses, decision >>
    BY DEF Execute, args
<1>5. CASE UNCHANGED << reply, stage >>
    BY <1>2, <1>4, <1>5 DEF Passed, Admitted, Opened, Answered
<1>6. CASE /\ Move(e, "replied")
           /\ reply' = [reply EXCEPT ![e] = Reply(bucket, cost[e], snapshot[e])]
  <2>1. \A q \in Checks : q # e => reply'[q] = reply[q] /\ stage'[q] = stage[q]
      BY <1>6, InvariantParts DEF Move, Requests
  <2>2. reply'[e] = Reply(bucket, cost[e], snapshot[e]) /\ stage'[e] = "replied"
      BY <1>6, InvariantParts DEF Orderly, Replies, Move, Requests
  <2>3. reply'[e].allowed = Allowed(bucket, cost[e], snapshot[e])
      BY <2>2 DEF Reply
  <2>4. \A r \in Checks : r # e /\ r \in Passed' => r \in Passed
      BY <1>4, <2>1 DEF Passed, Admitted, Opened, Answered
  <2>5. e \in Passed' => Allowed(bucket, cost[e], snapshot[e])
      BY <2>2, <2>3 DEF Passed, Admitted, Answered
  <2> QED
      BY <1>2, <1>4, <2>4, <2>5
<1> QED
    BY <1>5, <1>6, ReplyAfter

(* A step without a run of the script keeps Fits.                          *)
LEMMA QuietKeepsFits ==
    ASSUME IInv, Orderly, Fits, Next, ~(\E e \in Checks : Execute(e))
    PROVE  Fits'
<1> SUFFICES ASSUME NEW A \in SUBSET Passed', NEW i \in Nat, NEW m \in Nat,
                    Shared(i)', Below(A, i, m)'
             PROVE  /\ Sum(cost', A \cup Returned') <= m * losses' + Level(bucket', i)
                    /\ Sum(cost', A \cup Returned') <= m * losses' + m
    BY DEF Fits, Bounded
<1>1. A \subseteq Passed /\ Passed \subseteq Charged /\ Charged \subseteq Checks
    BY NobodyPasses, PassedCharged
<1>2. runs' = runs
    BY ScriptRuns DEF Restart
<1>3. Charged' = Charged
    BY <1>2 DEF Charged
<1>4. \A r \in Charged : cost'[r] = cost[r] /\ snapshot'[r] = snapshot[r]
    BY ChargedStays
<1>5. Returned' = Returned /\ Returned \subseteq Charged
    BY <1>3, <1>4 DEF Returned, Refund
<1>6. Shared(i) /\ Below(A, i, m)
    BY <1>1, <1>3, <1>4 DEF Shared, Below
<1>7. Bounded(A, i, m)
    BY <1>1, <1>6 DEF Fits
<1> DEFINE S == A \cup Returned
           x == Sum(cost, S)
<1>8. S \subseteq Charged
    BY <1>1, <1>5
<1> HIDE DEF S
<1>9. Sum(cost', S) = x
    BY <1>8, SumStays
<1>10. x \in Int
    BY <1>1, <1>8, CostsSum
<1>11. x <= m * losses + Level(bucket, i) /\ x <= m * losses + m
    BY <1>7 DEF Bounded, S
<1>12. Sum(cost', A \cup Returned') = x
    BY <1>5, <1>9 DEF S
<1> HIDE DEF x
<1>13. CASE UNCHANGED << bucket, runs, losses >>
    BY <1>11, <1>12, <1>13
<1>14. CASE Restart
  <2>1. Level(bucket', i) = 0 /\ losses' = losses + 1 /\ losses \in Nat
      BY <1>14, EmptySeq DEF Restart, NoBucket, Level, IInv, TypeOK
  <2>2. m * losses \in Nat /\ m * losses' = m * losses + m
      BY <2>1, NextProduct
  <2> DEFINE y == m * losses
             z == m * losses'
  <2>3. y \in Nat /\ z = y + m /\ x <= y + m
      BY <1>11, <2>2
  <2>4. Sum(cost', A \cup Returned') = x /\ Level(bucket', i) = 0
      BY <1>12, <2>1
  <2> HIDE DEF y, z
  <2>5. x <= z + 0 /\ x <= z + m
      BY <1>10, <2>3
  <2> QED
      BY <2>4, <2>5 DEF z
<1> QED
    BY <1>13, <1>14, ScriptRuns

(* A run of the script keeps it: what it admits is in the bucket, below    *)
(* the burst, and what it is given back leaves the bucket.                 *)
LEMMA ExecuteKeepsFits ==
    ASSUME IInv, Orderly, Fits, Next, NEW e \in Checks, Execute(e)
    PROVE  Fits'
<1> SUFFICES ASSUME NEW A \in SUBSET Passed', NEW i \in Nat, NEW m \in Nat,
                    Shared(i)', Below(A, i, m)'
             PROVE  /\ Sum(cost', A \cup Returned') <= m * losses' + Level(bucket', i)
                    /\ Sum(cost', A \cup Returned') <= m * losses' + m
    BY DEF Fits, Bounded
<1> DEFINE c == cost[e]
           B == A \ {e}
           S == B \cup Returned
           x == Sum(cost, S)
           l == Level(bucket, i)
           y == m * losses
           ok == Allowed(bucket, cost[e], snapshot[e])
<1>1. /\ e \notin Charged /\ Charged' = Charged \cup {e}
      /\ UNCHANGED << cost, snapshot, losses >>
    BY OnePasses
<1>2. Passed \subseteq Charged /\ Charged \subseteq Checks /\ Returned \subseteq Charged
    BY PassedCharged DEF Returned
<1>3. B \subseteq Passed /\ (e \in A => ok)
  <2>1. \A r \in A : r \in Checks /\ r \in Passed'
      BY DEF Passed
  <2>2. \A r \in Checks : r \in Passed' => r \in Passed \/ (r = e /\ ok)
      BY OnePasses
  <2>3. e \notin Passed
      BY <1>1, <1>2
  <2> HIDE DEF ok
  <2>4. \A r \in A : r \in Passed \/ (r = e /\ ok)
      BY <2>1, <2>2
  <2> QED
      BY <2>3, <2>4
<1>4. Shared(i) /\ Below(B, i, m) /\ i \in DOMAIN snapshot[e]
    BY <1>1 DEF Shared, Below
<1>5. c \in Int /\ l \in Int /\ y \in Nat
    BY ArgsType, LevelType, NextProduct DEF IInv, TypeOK
<1>6. x <= y + l /\ x <= y + m
    BY <1>3, <1>4 DEF Fits, Bounded
<1>7. S \subseteq Charged /\ S \in SUBSET Checks /\ e \in Checks \ S
    BY <1>1, <1>2, <1>3
<1>8. Returned' = Returned \cup (IF c < 0 THEN {e} ELSE {})
    BY <1>1, <1>2 DEF Returned, Refund
<1>9. A \cup Returned' = IF e \in A \/ c < 0 THEN S \cup {e} ELSE S
    BY <1>8
<1> HIDE DEF S
<1>10. x \in Int /\ Sum(cost, S \cup {e}) = c + x
    BY <1>7, CostsSum
<1>11. Sum(cost', A \cup Returned') = IF e \in A \/ c < 0 THEN c + x ELSE x
    BY <1>1, <1>9, <1>10
<1>12. m * losses' = y
    BY <1>1
<1>13. ~ok => Level(bucket', i) = l
    BY LevelsAfter DEF Orderly, Level
<1>14. ok => Level(bucket', i) = Larger(0, l) + c /\ Level(bucket', i) <= snapshot[e][i].burst
  <2>1. ok => /\ i \in DOMAIN bucket'.levels
              /\ bucket'.levels[i] = Larger(0, l) + c
              /\ bucket'.levels[i] <= snapshot[e][i].burst
      BY <1>4, LevelsAfter DEF Orderly
  <2> QED
      BY <2>1 DEF Level
<1>15. e \in A => snapshot[e][i].burst <= m
    BY <1>1 DEF Below
<1>16. snapshot[e][i].burst \in Nat
    BY <1>4, ArgsType, PolicyList
<1> DEFINE n == Level(bucket', i)
           b == snapshot[e][i].burst
           w == Sum(cost', A \cup Returned')
<1>17. /\ w = IF e \in A \/ c < 0 THEN c + x ELSE x
       /\ ~ok => n = l
       /\ ok => n = Larger(0, l) + c /\ n <= b
       /\ e \in A => b <= m
       /\ e \in A => ok
       /\ b \in Nat
    BY <1>3, <1>11, <1>13, <1>14, <1>15, <1>16
<1> HIDE DEF c, B, x, l, y, ok, n, b, w
<1>18. w \in Int /\ n \in Int
    BY <1>5, <1>10, <1>17 DEF Larger
<1>19. w <= y + n /\ w <= y + m
  <2>1. CASE e \in A
      BY <1>5, <1>6, <1>10, <1>17, <1>18, <2>1 DEF Larger
  <2>2. CASE e \notin A /\ c < 0
      BY <1>5, <1>6, <1>10, <1>17, <1>18, <2>2 DEF Larger
  <2>3. CASE e \notin A /\ ~(c < 0)
      BY <1>5, <1>6, <1>10, <1>17, <1>18, <2>3 DEF Larger
  <2> QED
      BY <2>1, <2>2, <2>3
<1> QED
    BY <1>12, <1>19 DEF w, n

(* Nothing has been charged. *)
LEMMA InitFits == Init => Fits
<1> SUFFICES ASSUME Init PROVE Fits
    OBVIOUS
<1>1. /\ \A r \in Checks : runs[r] = 0 /\ stage[r] = "new"
      /\ losses = 0
    BY DEF Init, Requests
<1>2. Passed = {} /\ Returned = {}
    BY <1>1 DEF Passed, Admitted, Answered, Returned, Charged
<1>3. \A i : Level(bucket, i) = 0
    BY EmptySeq DEF Init, NoBucket, Level
<1>4. \A A \in SUBSET Passed : Sum(cost, A \cup Returned) = 0
  <2>1. \A A \in SUBSET Passed : A \cup Returned = {}
      BY <1>2
  <2> QED
      BY <2>1, SumEmpty
<1>5. ASSUME NEW A \in SUBSET Passed, NEW i \in Nat, NEW m \in Nat
      PROVE  Bounded(A, i, m)
  <2>1. m * losses = 0
      BY <1>1
  <2>2. Sum(cost, A \cup Returned) = 0 /\ Level(bucket, i) = 0
      BY <1>3, <1>4
  <2> QED
      BY <2>1, <2>2 DEF Bounded
<1> QED
    BY <1>5 DEF Fits

(* Every step keeps it.                                                    *)
LEMMA StepKeepsFits ==
    ASSUME IInv, Orderly, Fits, [Next]_vars
    PROVE  Fits'
<1>1. CASE Next
    BY <1>1, QuietKeepsFits, ExecuteKeepsFits
<1>2. CASE UNCHANGED vars
  <2>1. UNCHANGED << stage, decision, cost, snapshot, runs, reply, losses, bucket >>
      BY <1>2 DEF vars, callVars, redisVars, args
  <2>2. Passed' = Passed /\ Returned' = Returned /\ Charged' = Charged
      BY <2>1 DEF Passed, Admitted, Opened, Answered, Returned, Charged, Refund
  <2> SUFFICES ASSUME NEW A \in SUBSET Passed', NEW i \in Nat, NEW m \in Nat,
                      Shared(i)', Below(A, i, m)'
               PROVE  /\ Sum(cost', A \cup Returned') <= m * losses' + Level(bucket', i)
                      /\ Sum(cost', A \cup Returned') <= m * losses' + m
      BY DEF Fits, Bounded
  <2>3. Shared(i) /\ Below(A, i, m) /\ A \in SUBSET Passed
      BY <2>1, <2>2 DEF Shared, Below
  <2>4. Bounded(A, i, m)
      BY <2>3 DEF Fits
  <2> QED
      BY <2>1, <2>2, <2>4 DEF Bounded
<1> QED
    BY <1>1, <1>2

(* What Fits says of those who have been admitted.                         *)
LEMMA FitsMeansAdmittedFits ==
    ASSUME IInv, Fits
    PROVE  AdmittedFits
<1> SUFFICES ASSUME NEW r \in Admitted, NEW i \in DOMAIN snapshot[r],
                    \A s \in Charged : i \in DOMAIN snapshot[s]
             PROVE  Total(Admitted \cup Returned)
                        <= Max({snapshot[s][i].burst : s \in Admitted}) * (1 + losses)
    BY DEF AdmittedFits, Charged, Returned
<1> DEFINE M == {snapshot[s][i].burst : s \in Admitted}
           x == Sum(cost, Admitted \cup Returned)
<1>1. Admitted \subseteq Passed /\ Admitted \subseteq Charged /\ Charged \subseteq Checks
    BY PassedCharged
<1>2. \A s \in Admitted : /\ snapshot[s] \in Seq(Policy) /\ snapshot[s] # <<>>
                          /\ i \in DOMAIN snapshot[s]
    BY <1>1, ArgsType
<1>3. \A s \in Admitted : snapshot[s][i].burst \in Nat
    BY <1>2, PolicyList
<1>4. i \in Nat
  <2>1. DOMAIN snapshot[r] = 1 .. Len(snapshot[r]) /\ Len(snapshot[r]) \in Nat
      BY <1>2, PolicyList
  <2> QED
      BY <2>1
<1>5. IsFiniteSet(M)
  <2>1. IsFiniteSet(Admitted)
      BY <1>1, FS_Subset, RequestPathAssumption
  <2> DEFINE f == [s \in Admitted |-> snapshot[s][i].burst]
  <2>2. f \in Surjection(Admitted, M)
      BY DEF Surjection
  <2> HIDE DEF M, f
  <2> QED
      BY <2>1, <2>2, FS_Surjection
<1>6. M \subseteq Nat /\ M # {} /\ M \subseteq Int
    BY <1>3
<1>7. \A s \in Admitted : snapshot[s][i].burst \in M
    OBVIOUS
<1> HIDE DEF M
<1>8. Max(M) \in Nat /\ \A z \in M : z <= Max(M)
    BY <1>5, <1>6, MaxOfFinite
<1>9. Shared(i) /\ Below(Admitted, i, Max(M))
    BY <1>7, <1>8 DEF Shared, Below
<1>10. x <= Max(M) * losses + Max(M)
    BY <1>1, <1>4, <1>8, <1>9 DEF Fits, Bounded
<1>11. Max(M) * (1 + losses) = Max(M) * losses + Max(M)
  <2>1. losses \in Nat
      BY DEF IInv, TypeOK
  <2>2. 1 + losses = losses + 1
      BY <2>1
  <2> QED
      BY <1>8, <2>1, <2>2, NextProduct
<1>12. Total(Admitted \cup Returned) = x
    BY DEF Total, Sum
<1> QED
    BY <1>10, <1>11, <1>12 DEF M

(* What callers were admitted on a count of fits the burst of every bucket *)
(* they share, once for each life of the data: however many calls, pools   *)
(* and policies there are, and whatever breaks under them.                 *)
THEOREM AdmittedWithinBurst == Spec => []AdmittedFits
<1>1. Init => IInv /\ Orderly /\ Fits
    BY InitIInv, InitOrderly, InitFits
<1>2. IInv /\ Orderly /\ Fits /\ [Next]_vars => IInv' /\ Orderly' /\ Fits'
    BY NextKeepsIInv, NextKeepsOrderly, StepKeepsFits
<1>3. IInv /\ Fits => AdmittedFits
    BY FitsMeansAdmittedFits
<1> QED
    BY <1>1, <1>2, <1>3, PTL DEF Spec

-----------------------------------------------------------------------------
(* Why checks are refused.                                                 *)

(* Who was refused by the script, as far as a reply came back, and those   *)
(* charged who may have taken room.                                        *)
Denied == {r \in Charged : reply[r] # NoReply /\ ~reply[r].allowed}

Held == Charged \ Denied

(* A reply is there only after a charge, and behind every decision that is *)
(* not to fail open.                                                       *)
Spoken == \A r \in Checks :
    /\ runs[r] = 0 => reply[r] = NoReply
    /\ decision[r] # FailOpen => reply[r] # NoReply

(* No level is above what those asked for, and with this the refused do    *)
(* not fit.                                                                *)
Caused ==
    /\ Spoken
    /\ \A i \in DOMAIN bucket.levels : bucket.levels[i] <= Sum(Outlay, Held)
    /\ \A r \in Denied : \E i \in DOMAIN snapshot[r] :
          cost[r] + Sum(Outlay, Held) > snapshot[r][i].burst

(* Outlays can be summed, and one more adds its own.                       *)
LEMMA OutlaysSum ==
    ASSUME IInv
    PROVE  /\ \A S, T \in SUBSET Checks : S \subseteq T =>
                  Sum(Outlay, S) \in Nat /\ Sum(Outlay, T) \in Nat
                      /\ Sum(Outlay, S) <= Sum(Outlay, T)
           /\ \A S \in SUBSET Checks : \A e \in Checks \ S :
                  Outlay[e] \in Nat /\ Sum(Outlay, S \cup {e}) = Outlay[e] + Sum(Outlay, S)
<1>1. \A r \in Checks : Outlay[r] \in Nat
    BY ArgsType DEF Outlay, Larger
<1>2. \A T \in SUBSET Checks : IsFiniteSet(T)
    BY FS_Subset, RequestPathAssumption
<1>3. ASSUME NEW S \in SUBSET Checks, NEW T \in SUBSET Checks, S \subseteq T
      PROVE  Sum(Outlay, S) \in Nat /\ Sum(Outlay, T) \in Nat
                 /\ Sum(Outlay, S) <= Sum(Outlay, T)
    BY <1>1, <1>2, <1>3, SumGrows
<1>4. ASSUME NEW S \in SUBSET Checks, NEW e \in Checks \ S
      PROVE  Sum(Outlay, S \cup {e}) = Outlay[e] + Sum(Outlay, S)
  <2> DEFINE T == S \cup {e}
  <2>1. IsFiniteSet(T) /\ e \in T /\ T \ {e} = S /\ \A x \in T : Outlay[x] \in Int
      BY <1>1, <1>2
  <2> HIDE DEF T
  <2>2. Sum(Outlay, T) = Outlay[e] + Sum(Outlay, T \ {e})
      BY <2>1, SumAdds
  <2> QED
      BY <2>1, <2>2 DEF T
<1> QED
    BY <1>1, <1>3, <1>4

(* What the script says is not mistaken for silence.                       *)
LEMMA RepliesAreSpoken ==
    ASSUME NEW x, x.limiting_index \in Nat \ {0}
    PROVE  x # NoReply
BY DEF NoReply

(* Every step keeps Spoken.                                                *)
LEMMA NextKeepsSpoken ==
    ASSUME IInv, Orderly, Spoken, Next
    PROVE  Spoken'
<1> SUFFICES ASSUME NEW r \in Checks
             PROVE  /\ runs'[r] = 0 => reply'[r] = NoReply
                    /\ decision'[r] # FailOpen => reply'[r] # NoReply
    BY DEF Spoken
<1>1. r \in Requests /\ DOMAIN decision = Requests /\ DOMAIN reply = Checks
    BY DEF Requests, IInv, TypeOK
<1>2. decision'[r] # FailOpen => decision[r] # FailOpen \/ stage[r] = "replied"
  <2>1. ASSUME NEW q \in Requests, Heard(q) \/ Read(q) \/ Failed(q)
        PROVE  decision'[r] # FailOpen => decision[r] # FailOpen \/ stage[r] = "replied"
    <3>1. CASE r # q
        BY <1>1, <2>1, <3>1 DEF Heard, Read, Failed, FailWith, AnswerWith, Tell
    <3>2. CASE r = q
        BY <1>1, <2>1, <3>2 DEF Heard, Read, Failed, FailWith, AnswerWith, Tell
    <3> QED
        BY <3>1, <3>2
  <2> QED
    BY <2>1, HowCallsEnd DEF NobodyEnds
<1>3. decision'[r] # FailOpen => reply[r] # NoReply
    BY <1>2, RepliesAreSpoken DEF Spoken, Orderly, Replies
<1>4. ASSUME NEW e \in Checks, Execute(e)
      PROVE  /\ runs'[r] = 0 => reply'[r] = NoReply
             /\ decision'[r] # FailOpen => reply'[r] # NoReply
  <2>1. runs' = [runs EXCEPT ![e] = @ + 1] /\ runs \in [Checks -> Nat]
    BY <1>4 DEF Execute, IInv, TypeOK
  <2>2. CASE r = e
    <3>1. runs'[r] # 0
        BY <2>1, <2>2
    <3>2. Reply(bucket, cost[e], snapshot[e]) # NoReply
      <4>1. Reply(bucket, cost[e], snapshot[e]).limiting_index \in Nat \ {0}
          BY ReplyType, ArgsType DEF IInv, TypeOK
      <4> QED
          BY <4>1, RepliesAreSpoken
    <3>3. reply' = reply \/ reply' = [reply EXCEPT ![e] = Reply(bucket, cost[e], snapshot[e])]
        BY <1>4, ReplyAfter
    <3> HIDE DEF NoReply
    <3> QED
        BY <1>1, <1>3, <2>2, <3>1, <3>2, <3>3
  <2>3. CASE r # e
    <3>1. reply'[r] = reply[r] /\ runs'[r] = runs[r]
        BY <1>1, <1>4, <2>1, <2>3, ReplyAfter
    <3> QED
        BY <1>3, <3>1 DEF Spoken
  <2> QED
    BY <2>2, <2>3
<1>5. CASE ~(\E e \in Checks : Execute(e))
  <2>1. reply' = reply
    BY <1>5, NoReplyElsewhere
  <2>2. runs' = runs
    BY <1>5, ScriptRuns DEF Restart
  <2> QED
    BY <1>3, <2>1, <2>2 DEF Spoken
<1> QED
    BY <1>4, <1>5

(* A step without a run of the script keeps Caused.                        *)
LEMMA QuietKeepsCaused ==
    ASSUME IInv, Orderly, Caused, Next, ~(\E e \in Checks : Execute(e))
    PROVE  Caused'
<1>1. runs' = runs /\ reply' = reply
    BY ScriptRuns, NoReplyElsewhere DEF Restart
<1>2. Charged' = Charged /\ Denied' = Denied /\ Held' = Held
    BY <1>1 DEF Charged, Denied, Held
<1>3. \A r \in Charged : cost'[r] = cost[r] /\ snapshot'[r] = snapshot[r]
    BY ChargedStays
<1>4. Sum(Outlay', Held) = Sum(Outlay, Held)
  <2>1. Held \subseteq Charged /\ Held \subseteq Checks
    BY DEF Held, Charged
  <2>2. \A r \in Held : Outlay'[r] = Outlay[r]
    BY <1>3, <2>1 DEF Outlay
  <2>3. IsFiniteSet(Held)
    BY <2>1, FS_Subset, RequestPathAssumption
  <2> QED
    BY <2>2, <2>3, SumAgrees
<1>5. \A i \in DOMAIN bucket'.levels : bucket'.levels[i] <= Sum(Outlay, Held)
  <2>1. CASE Restart
    BY <2>1, EmptySeq DEF Restart, NoBucket
  <2>2. CASE bucket' = bucket
    BY <2>2 DEF Caused
  <2> QED
    BY <2>1, <2>2, ScriptRuns
<1>6. ASSUME NEW r \in Denied
      PROVE  \E i \in DOMAIN snapshot'[r] :
                 cost'[r] + Sum(Outlay, Held) > snapshot'[r][i].burst
  <2>1. cost'[r] = cost[r] /\ snapshot'[r] = snapshot[r]
    BY <1>3 DEF Denied
  <2> QED
    BY <2>1 DEF Caused
<1>7. Spoken'
    BY NextKeepsSpoken DEF Caused
<1> QED
    BY <1>2, <1>4, <1>5, <1>6, <1>7 DEF Caused

(* A run of the script that refuses finds too little room, and one that    *)
(* admits adds no more than its own cost.                                  *)
LEMMA ExecuteKeepsCaused ==
    ASSUME IInv, Orderly, Caused, Next, NEW e \in Checks, Execute(e)
    PROVE  Caused'
<1> DEFINE c == cost[e]
           p == snapshot[e]
           ok == Allowed(bucket, cost[e], snapshot[e])
           x == Sum(Outlay, Held)
<1>1. /\ e \notin Charged /\ Charged' = Charged \cup {e} /\ Charged \subseteq Checks
      /\ cost' = cost /\ snapshot' = snapshot /\ Outlay' = Outlay
  <2>1. cost' = cost /\ snapshot' = snapshot
    BY DEF Execute, args
  <2> QED
    BY <2>1, OneMoreCharged DEF Charged, Outlay
<1>2. Held \subseteq Charged /\ Held \in SUBSET Checks /\ e \in Checks \ Held
    BY <1>1 DEF Held
<1>3. /\ c \in Int /\ x \in Nat /\ Outlay[e] = Larger(0, c)
      /\ Sum(Outlay, Held \cup {e}) = Outlay[e] + x
    BY <1>2, OutlaysSum, ArgsType DEF Outlay
<1>4. p \in Seq(Policy) /\ p # <<>> /\ bucket \in Bucket
    BY ArgsType DEF IInv, TypeOK
<1>5. \A i : Level(bucket, i) \in Int /\ Level(bucket, i) <= x
    BY <1>3, <1>4, LevelType DEF Level, Caused
<1>6. reply[e] = NoReply /\ DOMAIN reply = Checks
  <2>1. runs[e] = 0
    BY NotChargedYet DEF Execute
  <2> QED
    BY <2>1 DEF Caused, Spoken, IInv, TypeOK
<1>7. \/ Denied' = Denied /\ Held' = Held \cup {e}
      \/ Denied' = Denied \cup {e} /\ Held' = Held /\ ~ok
  <2>1. CASE reply' = reply
    BY <1>1, <1>6, <2>1 DEF Denied, Held
  <2>2. CASE reply' = [reply EXCEPT ![e] = Reply(bucket, cost[e], snapshot[e])]
    <3>1. reply'[e].allowed = ok
        BY <1>6, <2>2 DEF Reply
    <3>2. \A r \in Charged : reply'[r] = reply[r]
        BY <1>1, <2>2
    <3>3. reply'[e] # NoReply
      <4>1. reply'[e] = Reply(bucket, cost[e], snapshot[e])
          BY <1>6, <2>2
      <4>2. Reply(bucket, cost[e], snapshot[e]).limiting_index \in Nat \ {0}
          BY ReplyType, ArgsType DEF IInv, TypeOK
      <4> QED
          BY <4>1, <4>2, RepliesAreSpoken
    <3> HIDE DEF ok
    <3> QED
        BY <1>1, <3>1, <3>2, <3>3 DEF Denied, Held
  <2> QED
    BY <2>1, <2>2, ReplyAfter
<1>8. ~ok => \E i \in DOMAIN p : c + x > p[i].burst
  <2> SUFFICES ASSUME ~ok PROVE \E i \in DOMAIN p : c + x > p[i].burst
    OBVIOUS
  <2>1. PICK i \in DOMAIN p : ~(Remaining(bucket, c, p, i) >= 0)
    BY <1>3, <1>4, AllowedMeansRoom
  <2>2. Remaining(bucket, c, p, i) = p[i].burst - (Leaked(bucket, p, i) + c)
    BY <1>3, <1>4, LoopTypes
  <2>3. p[i].burst \in Nat /\ p[i].flow \in Nat
    BY <1>4, PolicyList
  <2>4. Leaked(bucket, p, i) = Larger(0, Level(bucket, i))
    <3>1. bucket.age = 0 /\ Level(bucket, i) \in Int
        BY <1>5 DEF Orderly, LowBucket
    <3> QED
        BY <2>3, <3>1 DEF Leaked
  <2>5. Leaked(bucket, p, i) \in Nat /\ Leaked(bucket, p, i) <= x
    BY <1>3, <1>5, <2>4 DEF Larger
  <2> HIDE DEF c, p, x, ok
  <2>6. p[i].burst < Leaked(bucket, p, i) + c
    BY <1>3, <2>1, <2>2, <2>3, <2>5
  <2> QED
    BY <1>3, <2>3, <2>5, <2>6
<1>9. x <= Sum(Outlay, Held') /\ Sum(Outlay, Held') \in Nat
  <2>1. Larger(0, c) \in Nat
    BY <1>3 DEF Larger
  <2> HIDE DEF c, x, ok
  <2> QED
    BY <1>3, <1>7, <2>1 DEF x
<1>10. \A i \in DOMAIN bucket'.levels : bucket'.levels[i] <= Sum(Outlay, Held')
  <2>1. CASE ~ok
    <3>1. bucket'.levels = bucket.levels
        BY <2>1, LevelsAfter DEF Orderly
    <3>2. \A i \in DOMAIN bucket.levels : bucket.levels[i] = Level(bucket, i)
        BY DEF Level
    <3> QED
        BY <1>3, <1>5, <1>9, <3>1, <3>2
  <2>2. CASE ok
    <3>1. \A i \in DOMAIN bucket'.levels : bucket'.levels[i] = Larger(0, Level(bucket, i)) + c
        BY <2>2, LevelsAfter DEF Orderly
    <3>2. Sum(Outlay, Held') = Larger(0, c) + x
        BY <1>3, <1>7, <2>2
    <3> HIDE DEF c, x, ok
    <3>3. \A i \in DOMAIN bucket'.levels :
              Larger(0, Level(bucket, i)) + c <= Larger(0, c) + x
        BY <1>3, <1>5 DEF Larger
    <3> QED
        BY <3>1, <3>2, <3>3
  <2> QED
    BY <2>1, <2>2
<1>11. ASSUME NEW r \in Denied'
       PROVE  \E i \in DOMAIN snapshot'[r] :
                  cost'[r] + Sum(Outlay', Held') > snapshot'[r][i].burst
  <2>1. r \in Checks /\ \E i \in DOMAIN snapshot[r] : cost[r] + x > snapshot[r][i].burst
    <3>1. CASE r \in Denied
        BY <3>1, <1>1 DEF Caused, Denied
    <3>2. CASE r = e /\ ~ok
        BY <1>8, <3>2
    <3> HIDE DEF ok, x
    <3> QED
        BY <1>7, <3>1, <3>2
  <2>2. PICK i \in DOMAIN snapshot[r] : cost[r] + x > snapshot[r][i].burst
    BY <2>1
  <2>3. cost[r] \in Int /\ snapshot[r][i].burst \in Int
    BY <2>1, ArgsType, PolicyList
  <2> HIDE DEF x
  <2>4. cost[r] + Sum(Outlay, Held') > snapshot[r][i].burst
    BY <1>3, <1>9, <2>2, <2>3
  <2> QED
    BY <1>1, <2>4
<1>12. Spoken'
    BY NextKeepsSpoken DEF Caused
<1> QED
    BY <1>1, <1>10, <1>11, <1>12 DEF Caused

(* Nobody has been refused.                                                *)
LEMMA InitCaused == Init => Caused
<1> SUFFICES ASSUME Init PROVE Caused
    OBVIOUS
<1>1. \A r \in Checks : runs[r] = 0 /\ reply[r] = NoReply /\ decision[r] = FailOpen
    BY DEF Init, Requests
<1>2. Denied = {} /\ Spoken
    BY <1>1 DEF Denied, Charged, Spoken
<1>3. DOMAIN bucket.levels = {}
    BY EmptySeq DEF Init, NoBucket
<1> QED
    BY <1>2, <1>3 DEF Caused

(* Every step keeps it.                                                    *)
LEMMA StepKeepsCaused ==
    ASSUME IInv, Orderly, Caused, [Next]_vars
    PROVE  Caused'
<1>1. CASE Next
    BY <1>1, QuietKeepsCaused, ExecuteKeepsCaused
<1>2. CASE UNCHANGED vars
  <2>1. UNCHANGED << decision, cost, snapshot, runs, reply, bucket >>
      BY <1>2 DEF vars, callVars, redisVars, args
  <2>2. Held' = Held /\ Denied' = Denied /\ Outlay' = Outlay /\ Spoken'
      BY <2>1 DEF Held, Denied, Charged, Outlay, Spoken, Caused
  <2> QED
      BY <2>1, <2>2 DEF Caused
<1> QED
    BY <1>1, <1>2

(* What Caused says of those who were told so.                             *)
LEMMA CausedMeansRefusedForCause ==
    ASSUME IInv, Caused
    PROVE  RefusedForCause
<1>1. Refused \subseteq Denied
  <2> SUFFICES ASSUME NEW r \in Refused PROVE r \in Denied
      OBVIOUS
  <2>1. r \in Checks /\ ~decision[r].allowed
      BY DEF Refused
  <2>2. decision[r] # FailOpen
      BY <2>1 DEF FailOpen
  <2>3. runs[r] = 1 /\ decision[r] = Decision(reply[r]) /\ reply[r] # NoReply
      BY <2>1, <2>2 DEF IInv, Once, Caused, Spoken
  <2>4. ~reply[r].allowed
      BY <2>1, <2>3 DEF Decision
  <2> QED
      BY <2>1, <2>3, <2>4 DEF Denied, Charged
<1> SUFFICES ASSUME NEW r \in Refused
             PROVE  \E i \in DOMAIN snapshot[r] :
                        cost[r] + Sum(Outlay, Charged \ Refused) > snapshot[r][i].burst
    BY DEF RefusedForCause, Spent, Sum
<1>2. r \in Checks /\ r \in Denied
    BY <1>1 DEF Refused
<1>3. PICK i \in DOMAIN snapshot[r] : cost[r] + Sum(Outlay, Held) > snapshot[r][i].burst
    BY <1>2 DEF Caused
<1>4. /\ Sum(Outlay, Held) \in Nat /\ Sum(Outlay, Charged \ Refused) \in Nat
      /\ Sum(Outlay, Held) <= Sum(Outlay, Charged \ Refused)
  <2>1. Held \subseteq Charged \ Refused /\ Charged \subseteq Checks
      BY <1>1 DEF Held, Charged
  <2> DEFINE T == Charged \ Refused
  <2>2. Held \in SUBSET Checks /\ T \in SUBSET Checks /\ Held \subseteq T
      BY <2>1
  <2> HIDE DEF T
  <2>3. Sum(Outlay, Held) \in Nat /\ Sum(Outlay, T) \in Nat /\ Sum(Outlay, Held) <= Sum(Outlay, T)
      BY <2>2, OutlaysSum
  <2> QED
      BY <2>3 DEF T
<1>5. cost[r] \in Int /\ snapshot[r][i].burst \in Int
    BY <1>2, ArgsType, PolicyList
<1>6. cost[r] + Sum(Outlay, Charged \ Refused) > snapshot[r][i].burst
    BY <1>3, <1>4, <1>5
<1> QED
    BY <1>6

(* Nobody is refused without a cause: what was asked for, and not refused, *)
(* leaves too little of the burst, whatever was retried, given up or lost  *)
(* on the way.                                                             *)
THEOREM RefusesForCause == Spec => []RefusedForCause
<1>1. Init => IInv /\ Orderly /\ Caused
    BY InitIInv, InitOrderly, InitCaused
<1>2. IInv /\ Orderly /\ Caused /\ [Next]_vars => IInv' /\ Orderly' /\ Caused'
    BY NextKeepsIInv, NextKeepsOrderly, StepKeepsCaused
<1>3. IInv /\ Caused => RefusedForCause
    BY CausedMeansRefusedForCause
<1> QED
    BY <1>1, <1>2, <1>3, PTL DEF Spec
=============================================================================
