------------------------- MODULE RequestPathProofs -------------------------
(***************************************************************************)
(* Permits and charges, for any number of calls, permits, reloads and      *)
(* faults.                                                                 *)
(*                                                                         *)
(* The argument.  A call holds a permit exactly in the stages of Holding,  *)
(* so a step keeps PermitsBalance if the permits change by one when, and   *)
(* only when, it moves a call into Holding or out of it.  The script runs  *)
(* for a check only on an EVALSHA on the wire, and puts none there; who    *)
(* has one on the wire has no other command there and has not been charged *)
(* (Once).  Every action therefore charges at most one check, and that one *)
(* for the first time.  The same fact makes the step that charges it the   *)
(* one moment of AtomicChecks.                                             *)
(***************************************************************************)
EXTENDS RequestPath, LeakyBucketProofs

Stages == Ongoing \cup {"new", "done", "cancelled"}

Holders == {r \in Requests : stage[r] \in Holding}

-----------------------------------------------------------------------------
(* Permits.                                                                *)

(* The calls are finitely many.                                            *)
LEMMA RequestsFinite == IsFiniteSet(Requests)
BY FS_Union, RequestPathAssumption DEF Requests

(* Those who hold a permit can be counted.                                 *)
LEMMA HoldersFinite == IsFiniteSet(Holders) /\ Cardinality(Holders) \in Nat
BY FS_Subset, FS_CardinalityType, RequestsFinite DEF Holders

(* The same after a step.                                                  *)
LEMMA HoldersFiniteNext == IsFiniteSet(Holders') /\ Cardinality(Holders') \in Nat
BY FS_Subset, FS_CardinalityType, RequestsFinite DEF Holders

(* A permit stays with a request that moves on within Holding, or outside. *)
LEMMA MoveWithin ==
    ASSUME stage \in [Requests -> Stages], NEW r \in Requests, NEW s, Move(r, s),
           stage[r] \in Holding <=> s \in Holding,
           permits' = permits, PermitsBalance
    PROVE  PermitsBalance'
<1>1. Holders' = Holders
    BY DEF Holders, Move
<1> QED
    BY <1>1 DEF PermitsBalance, Holders

(* One permit less for one holder more.                                    *)
LEMMA MoveIn ==
    ASSUME stage \in [Requests -> Stages], permits \in Nat,
           NEW r \in Requests, NEW s \in Holding, Move(r, s),
           stage[r] \notin Holding, permits' = permits - 1, PermitsBalance
    PROVE  PermitsBalance'
<1>1. Holders' = Holders \cup {r} /\ r \notin Holders
    BY DEF Holders, Move
<1>2. Cardinality(Holders') = Cardinality(Holders) + 1
    BY <1>1, HoldersFinite, FS_AddElement
<1> QED
    BY <1>2, HoldersFinite, RequestPathAssumption DEF PermitsBalance, Holders

(* A call that ends gives back the permit it holds, and no other.          *)
LEMMA MoveOut ==
    ASSUME stage \in [Requests -> Stages], permits \in Nat,
           NEW r \in Requests, NEW s, s \notin Holding, Move(r, s), Release(r),
           PermitsBalance
    PROVE  PermitsBalance' /\ permits' \in Nat
<1>1. Holders' = Holders \ {r} /\ (r \in Holders <=> stage[r] \in Holding)
    BY DEF Holders, Move
<1>2. Cardinality(Holders') = IF r \in Holders THEN Cardinality(Holders) - 1
                                               ELSE Cardinality(Holders)
    BY <1>1, HoldersFinite, FS_RemoveElement
<1>3. permits' = IF r \in Holders THEN permits + 1 ELSE permits
    BY <1>1 DEF Release
<1>4. Cardinality(Holders) + permits = PoolSize
    BY HoldersFinite DEF PermitsBalance, Holders
<1>5. Cardinality(Holders') + permits' = PoolSize
    BY <1>2, <1>3, <1>4, HoldersFinite, RequestPathAssumption
<1> QED
    BY <1>3, <1>5, HoldersFiniteNext DEF PermitsBalance, Holders

(* Permits in balance are within the pool's size.                          *)
LEMMA PermitsInRange ==
    ASSUME PermitsBalance', permits' \in Nat
    PROVE  permits' \in 0 .. PoolSize
BY HoldersFiniteNext, RequestPathAssumption DEF PermitsBalance, Holders
-----------------------------------------------------------------------------
(* The actions.                                                            *)

(* An absent key is a well-formed entry.                                   *)
LEMMA NoBucketOK == NoBucket \in Bucket
<1>1. <<>> \in Seq(Int)
    BY EmptySeq
<1> QED
    BY <1>1, LeakyBucketAssumption DEF NoBucket, Bucket

(* What the lemmas on permits need of the invariant.                       *)
LEMMA InvariantParts ==
    ASSUME IInv
    PROVE  stage \in [Requests -> Stages] /\ permits \in Nat /\ PermitsBalance
BY RequestPathAssumption DEF IInv, TypeOK, Stages

(* What a check asks for and is judged by, once it has arrived.            *)
LEMMA ArgsType ==
    ASSUME IInv, NEW r \in Checks
    PROVE  cost[r] \in Int /\ snapshot[r] \in Seq(Policy) \ {<<>>}
<1>1. PICK i \in DOMAIN Lists : snapshot[r] = Lists[i]
    BY DEF IInv, TypeOK
<1>2. Lists[i] \in Seq(Policy) \ {<<>>}
    BY ElementOfSeq, LenProperties, RequestPathAssumption
<1> QED
    BY <1>1, <1>2 DEF IInv, TypeOK

(* The first version is one.                                               *)
LEMMA FirstVersion == 1 \in DOMAIN Lists
<1>1. Len(Lists) \in Nat /\ Len(Lists) # 0 /\ DOMAIN Lists = 1 .. Len(Lists)
    BY EmptySeq, LenProperties, RequestPathAssumption
<1> QED
    BY <1>1

(* No call has begun: nothing is held, on the wire or charged.             *)
LEMMA InitIInv == Init => IInv
<1> SUFFICES ASSUME Init PROVE IInv
    OBVIOUS
<1>1. Holders = {}
    BY DEF Init, Holders, Holding, Connected
<1>2. PermitsBalance
  <2>1. permits = PoolSize
    BY DEF Init
  <2>2. Cardinality(Holders) = 0
    BY <1>1, FS_EmptySet
  <2>3. permits + Cardinality(Holders) = PoolSize
    BY <2>1, <2>2, RequestPathAssumption
  <2> QED
    BY <2>3 DEF PermitsBalance, Holders
<1>3. TypeOK
    BY NoBucketOK, FirstVersion, RequestPathAssumption DEF Init, TypeOK
<1>4. Once /\ AtMostOnce
    BY DEF Init, Once, OnWire, AtMostOnce, Requests
<1>5. losses + One(redis = "down") <= faults
  <2>1. losses = 0 /\ faults = 0 /\ redis # "down"
    BY DEF Init
  <2> QED
    BY <2>1 DEF One
<1> QED
    BY <1>2, <1>3, <1>4, <1>5 DEF IInv

(* Steps that move no call, and commands only leave the wire.              *)
LEMMA QuietStep ==
    ASSUME IInv, UNCHANGED << stage, args, permits, reply, decision, runs >>,
           version' \in DOMAIN Lists,
           inflight' \subseteq inflight, severed' \subseteq Requests, met' \subseteq Requests,
           redis' \in {"up", "down", "stalled"}, cached' \in BOOLEAN, bucket' \in Bucket,
           faults' \in 0 .. MaxFaults, losses' \in Nat,
           losses' + One(redis' = "down") <= faults'
    PROVE  IInv'
<1>1. PermitsBalance'
    BY DEF IInv, PermitsBalance
<1>2. losses' \in 0 .. MaxFaults
  <2>1. One(redis' = "down") \in {0, 1}
    BY DEF One
  <2>2. losses' <= faults' /\ faults' <= MaxFaults /\ MaxFaults \in Nat
    BY <2>1, RequestPathAssumption
  <2> QED
    BY <2>2
<1>3. TypeOK'
    BY <1>2 DEF IInv, TypeOK, args
<1>4. Once' /\ AtMostOnce'
    BY DEF IInv, Once, OnWire, AtMostOnce
<1> QED
    BY <1>1, <1>3, <1>4 DEF IInv

(* Those in which Redis, what it holds and the faults stay as they are.    *)
LEMMA WireStep ==
    ASSUME IInv, UNCHANGED << version, callVars, redisVars, runs >>, inflight' \subseteq inflight
    PROVE  IInv'
<1>1. UNCHANGED << stage, args, permits, reply, decision, runs >> /\ severed' \subseteq Requests
    BY DEF callVars, IInv, TypeOK
<1>2. UNCHANGED << version, redis, cached, bucket, faults, losses, met >>
    BY DEF redisVars
<1>3. /\ version' \in DOMAIN Lists /\ met' \subseteq Requests
      /\ redis' \in {"up", "down", "stalled"} /\ cached' \in BOOLEAN /\ bucket' \in Bucket
      /\ faults' \in 0 .. MaxFaults /\ losses' \in Nat
      /\ losses' + One(redis' = "down") <= faults'
    BY <1>2 DEF IInv, TypeOK
<1> QED
    BY <1>1, <1>3, QuietStep

(* A call that had a permit hears its end: a check hears the script's word *)
(* only if the script ran for it.                                          *)
LEMMA TellStep ==
    ASSUME IInv, NEW r \in Requests, NEW d, Tell(r, d), stage[r] \in Holding,
           r \in Checks /\ d # FailOpen => runs[r] = 1 /\ d = Decision(reply[r]),
           inflight' \subseteq inflight, met' \subseteq Requests,
           faults' \in 0 .. MaxFaults, faults <= faults',
           UNCHANGED << version, redis, cached, bucket, losses, runs >>
    PROVE  IInv'
<1>1. PermitsBalance' /\ permits' \in Nat
  <2>1. stage \in [Requests -> Stages] /\ permits \in Nat /\ PermitsBalance
    BY InvariantParts
  <2>2. Move(r, "done") /\ Release(r)
    BY DEF Tell
  <2>3. "done" \notin Holding
    BY DEF Holding, Connected
  <2> QED
    BY <2>1, <2>2, <2>3, MoveOut
<1>2. permits' \in 0 .. PoolSize
    BY <1>1, PermitsInRange
<1>3. TypeOK'
    BY <1>2 DEF IInv, TypeOK, Tell, Move, args
<1>4. Once' /\ AtMostOnce'
    BY DEF IInv, TypeOK, Once, OnWire, AtMostOnce, Tell, Move, Requests
<1>5. losses' + One(redis' = "down") <= faults'
  <2>1. losses + One(redis = "down") <= faults /\ losses \in Nat /\ faults \in Nat
    BY DEF IInv, TypeOK
  <2>2. One(redis = "down") \in Nat
    BY DEF One
  <2> QED
    BY <2>1, <2>2
<1> QED
    BY <1>1, <1>3, <1>4, <1>5 DEF IInv

(* What a step that is no fault leaves as it is.                           *)
LEMMA NoFault ==
    ASSUME IInv, UNCHANGED redisVars
    PROVE  /\ met' \subseteq Requests /\ faults' \in 0 .. MaxFaults /\ faults <= faults'
           /\ UNCHANGED << redis, cached, bucket, losses >>
BY DEF redisVars, IInv, TypeOK

(* It fails.                                                               *)
LEMMA FailWithStep ==
    ASSUME IInv, NEW r \in Requests, NEW error, FailWith(r, error), stage[r] \in Holding,
           inflight' \subseteq inflight, met' \subseteq Requests,
           faults' \in 0 .. MaxFaults, faults <= faults',
           UNCHANGED << version, redis, cached, bucket, losses, runs >>
    PROVE  IInv'
<1>1. CASE r \in Checks
    BY <1>1, TellStep DEF FailWith, AnswerWith
<1>2. CASE r \notin Checks
    BY <1>2, TellStep DEF FailWith
<1> QED
    BY <1>1, <1>2

(* A call joins the queue for a permit.                                    *)
LEMMA ArriveStep ==
    ASSUME IInv, NEW r \in Requests, Arrive(r)
    PROVE  IInv'
<1>1. PermitsBalance'
    BY InvariantParts, MoveWithin DEF Arrive, Holding, Connected
<1>2. cost' \in [Checks -> Int]
  <2>1. CASE r \in Checks
    <3>1. PICK c \in Costs[r] : cost' = [cost EXCEPT ![r] = c]
        BY <2>1 DEF Arrive
    <3>2. c \in Int
        BY <2>1, RequestPathAssumption
    <3> QED
        BY <3>1, <3>2 DEF IInv, TypeOK
  <2>2. CASE r \notin Checks
    BY <2>2 DEF Arrive, IInv, TypeOK
  <2> QED
    BY <2>1, <2>2
<1>3. snapshot' \in [Checks -> {Lists[i] : i \in DOMAIN Lists}]
    BY DEF Arrive, IInv, TypeOK
<1>4. TypeOK'
    BY <1>2, <1>3 DEF IInv, TypeOK, Arrive, Move, Ongoing
<1>5. Once' /\ AtMostOnce'
    BY DEF IInv, TypeOK, Once, OnWire, AtMostOnce, Arrive, Move
<1> QED
    BY <1>1, <1>4, <1>5 DEF IInv, Arrive

(* It takes one.                                                           *)
LEMMA AcquireStep ==
    ASSUME IInv, NEW r \in Requests, Acquire(r)
    PROVE  IInv'
<1>1. PermitsBalance'
    BY InvariantParts, MoveIn DEF Acquire, Holding, Connected
<1>2. TypeOK'
    BY RequestPathAssumption
       DEF IInv, TypeOK, Acquire, Move, Ongoing, Holding, redisVars, args
<1>3. Once' /\ AtMostOnce'
    BY DEF IInv, TypeOK, Once, OnWire, AtMostOnce, Acquire, Move
<1> QED
    BY <1>1, <1>2, <1>3 DEF IInv, Acquire, redisVars

(* Its first command goes out, the only one of it there is.                *)
LEMMA ConnectStep ==
    ASSUME IInv, NEW r \in Requests, Connect(r)
    PROVE  IInv'
<1>1. PermitsBalance'
    BY InvariantParts, MoveWithin DEF Connect, Holding, Connected
<1>2. inflight' \subseteq (Checks \X {"evalsha", "load"}) \cup (StatusCalls \X {"get"})
    BY DEF IInv, TypeOK, Connect, FirstCommand, Requests
<1>3. TypeOK'
    BY <1>2 DEF IInv, TypeOK, Connect, Move, Ongoing, Holding, Connected, redisVars, args
<1>4. Once' /\ AtMostOnce'
    BY DEF IInv, TypeOK, Once, OnWire, AtMostOnce, Connect, FirstCommand, Move
<1> QED
    BY <1>1, <1>3, <1>4 DEF IInv, Connect, redisVars

(* Who has an EVALSHA on the wire has begun and has not been charged.      *)
LEMMA NotChargedYet ==
    ASSUME IInv, NEW r \in Checks, << r, "evalsha" >> \in inflight
    PROVE  /\ runs[r] = 0 /\ ~OnWire(r, "load") /\ decision[r] = FailOpen
           /\ stage[r] \notin {"new", "waiting", "connecting", "replied"}
BY DEF IInv, Once, OnWire

(* The script runs for a check that has not been charged.                  *)
LEMMA ExecuteStep ==
    ASSUME IInv, NEW r \in Checks, Execute(r)
    PROVE  IInv'
<1>1. r \in Requests
    BY DEF Requests
<1>2. PermitsBalance'
  <2>1. CASE Listening(r)
    BY <1>1, <2>1, InvariantParts, MoveWithin DEF Execute, Listening, Holding, Connected
  <2>2. CASE ~Listening(r)
    BY <2>2 DEF IInv, PermitsBalance, Execute
  <2> QED
    BY <2>1, <2>2
<1>3. bucket' \in Bucket
  <2>1. bucket \in Bucket
    BY DEF IInv, TypeOK
  <2> QED
    BY <2>1, StoredType, ArgsType DEF Execute
<1>4. /\ runs' = [runs EXCEPT ![r] = 1]
      /\ inflight' = inflight \ {<< r, "evalsha" >>}
      /\ stage' = stage \/ stage' = [stage EXCEPT ![r] = "replied"]
      /\ \A s \in Checks : s # r => reply'[s] = reply[s]
      /\ DOMAIN reply' = Checks
      /\ UNCHANGED << version, args, permits, severed, decision, redis, cached, faults,
                      losses, met >>
  <2>1. runs' = [runs EXCEPT ![r] = 1] /\ inflight' = inflight \ {<< r, "evalsha" >>}
    <3>1. runs[r] = 0
        BY NotChargedYet DEF Execute
    <3> QED
        BY <3>1 DEF Execute
  <2>2. stage' = stage \/ stage' = [stage EXCEPT ![r] = "replied"]
    BY DEF Execute, Move
  <2>3. (\A s \in Checks : s # r => reply'[s] = reply[s]) /\ DOMAIN reply' = Checks
    <3>1. DOMAIN reply = Checks
        BY DEF IInv, TypeOK
    <3>2. \/ reply' = reply
          \/ reply' = [reply EXCEPT ![r] = Reply(bucket, cost[r], snapshot[r])]
        BY DEF Execute
    <3> HIDE DEF Reply
    <3> QED
        BY <3>1, <3>2
  <2> QED
    BY <2>1, <2>2, <2>3 DEF Execute
<1>5. TypeOK'
    BY <1>3, <1>4 DEF IInv, TypeOK, Ongoing, Holding, Connected, args
<1>6. Once' /\ AtMostOnce'
  <2>1. /\ runs[r] = 0 /\ ~OnWire(r, "load") /\ decision[r] = FailOpen
        /\ stage[r] \notin {"new", "waiting", "connecting"}
    BY NotChargedYet DEF Execute
  <2> QED
    BY <1>4, <2>1 DEF IInv, TypeOK, Once, OnWire, AtMostOnce, Requests
<1> QED
    BY <1>2, <1>4, <1>5, <1>6 DEF IInv

(* NOSCRIPT: SCRIPT LOAD takes the place of EVALSHA, or the check ends.    *)
LEMMA NoScriptStep ==
    ASSUME IInv, NEW r \in Checks, NoScript(r)
    PROVE  IInv'
<1>1. r \in Requests
    BY DEF Requests
<1>2. CASE ~Listening(r)
    BY <1>2, WireStep DEF NoScript
<1>3. CASE Listening(r) /\ stage[r] = "sent"
  <2>1. PermitsBalance'
    BY <1>1, <1>3, InvariantParts, MoveWithin DEF NoScript, Holding, Connected
  <2>2. inflight' \subseteq (Checks \X {"evalsha", "load"}) \cup (StatusCalls \X {"get"})
    BY <1>3 DEF IInv, TypeOK, NoScript
  <2>3. TypeOK'
    BY <1>1, <1>3, <2>2
       DEF IInv, TypeOK, NoScript, Move, Ongoing, Holding, Connected, redisVars, args
  <2>4. Once' /\ AtMostOnce'
    BY <1>3 DEF IInv, TypeOK, Once, OnWire, AtMostOnce, NoScript, Move, Requests
  <2> QED
    BY <1>3, <2>1, <2>3, <2>4 DEF IInv, NoScript, redisVars
<1>4. CASE Listening(r) /\ stage[r] # "sent"
  <2>1. FailWith(r, "command") /\ stage[r] \in Holding /\ inflight' \subseteq inflight
    BY <1>4 DEF NoScript, Listening, Holding
  <2>2. UNCHANGED << version, redisVars, runs >>
    BY DEF NoScript
  <2> QED
    BY <1>1, <2>1, <2>2, FailWithStep, NoFault
<1> QED
    BY <1>2, <1>3, <1>4

(* The script is loaded, and EVALSHA takes its place again.                *)
LEMMA LoadScriptStep ==
    ASSUME IInv, NEW r \in Checks, LoadScript(r)
    PROVE  IInv'
<1>1. r \in Requests
    BY DEF Requests
<1>2. CASE ~Listening(r)
    BY <1>2, QuietStep DEF LoadScript, IInv, TypeOK
<1>3. CASE Listening(r)
  <2>1. PermitsBalance'
    BY <1>1, <1>3, InvariantParts, MoveWithin DEF LoadScript, Listening, Holding, Connected
  <2>2. inflight' \subseteq (Checks \X {"evalsha", "load"}) \cup (StatusCalls \X {"get"})
    BY <1>3 DEF IInv, TypeOK, LoadScript
  <2>3. TypeOK'
    BY <1>1, <1>3, <2>2 DEF IInv, TypeOK, LoadScript, Move, Ongoing, Holding, Connected, args
  <2>4. Once' /\ AtMostOnce'
    BY <1>3 DEF IInv, TypeOK, Once, OnWire, AtMostOnce, LoadScript, Listening, Connected, Move,
          Requests
  <2> QED
    BY <1>3, <2>1, <2>3, <2>4 DEF IInv, LoadScript
<1> QED
    BY <1>2, <1>3

(* SETEX refuses: an error, or nobody to tell.                             *)
LEMMA RaiseStep ==
    ASSUME IInv, NEW r \in Checks, Raise(r)
    PROVE  IInv'
<1>1. CASE ~Listening(r)
    BY <1>1, WireStep DEF Raise
<1>2. CASE Listening(r)
  <2>1. FailWith(r, "command") /\ stage[r] \in Holding /\ inflight' \subseteq inflight
    BY <1>2 DEF Raise, Listening, Holding
  <2>2. UNCHANGED << version, redisVars, runs >> /\ r \in Requests
    BY DEF Raise, Requests
  <2> QED
    BY <2>1, <2>2, FailWithStep, NoFault
<1> QED
    BY <1>1, <1>2

(* Redis answers with an error: the same, and it counts as a fault.        *)
LEMMA RefuseStep ==
    ASSUME IInv, NEW r \in Requests, Refuse(r)
    PROVE  IInv'
<1>1. inflight' \subseteq inflight /\ met' \subseteq Requests
    BY DEF Refuse, IInv, TypeOK
<1>2. faults' \in 0 .. MaxFaults /\ faults <= faults'
    BY RequestPathAssumption DEF Refuse, Fault, IInv, TypeOK
<1>3. UNCHANGED << version, redis, cached, bucket, losses, runs >>
    BY DEF Refuse
<1>4. CASE Listening(r)
  <2>1. FailWith(r, "command") /\ stage[r] \in Holding
    BY <1>4 DEF Refuse, Listening, Holding
  <2> QED
    BY <1>1, <1>2, <1>3, <2>1, FailWithStep
<1>5. CASE ~Listening(r)
  <2>1. UNCHANGED << stage, args, permits, severed, reply, decision >>
    BY <1>5 DEF Refuse, callVars
  <2>2. /\ version' \in DOMAIN Lists /\ severed' \subseteq Requests
        /\ redis' \in {"up", "down", "stalled"} /\ cached' \in BOOLEAN /\ bucket' \in Bucket
        /\ losses' \in Nat
    BY <1>3, <2>1 DEF IInv, TypeOK
  <2>3. losses' + One(redis' = "down") <= faults'
    <3>1. losses + One(redis = "down") <= faults /\ losses \in Nat /\ faults \in Nat
        BY DEF IInv, TypeOK
    <3>2. One(redis = "down") \in Nat
        BY DEF One
    <3> QED
        BY <1>2, <1>3, <3>1, <3>2
  <2> QED
    BY <1>1, <1>2, <1>3, <2>1, <2>2, <2>3, QuietStep
<1> QED
    BY <1>4, <1>5

(* The entry is read for a status call.                                    *)
LEMMA ReadBucketStep ==
    ASSUME IInv, NEW r \in StatusCalls, ReadBucket(r)
    PROVE  IInv'
<1>1. r \in Requests /\ r \notin Checks
    BY RequestPathAssumption DEF Requests
<1>2. CASE ~Listening(r)
    BY <1>2, WireStep DEF ReadBucket, callVars
<1>3. CASE Listening(r)
  <2>1. PermitsBalance'
    BY <1>1, <1>3, InvariantParts, MoveWithin DEF ReadBucket, Listening, Holding, Connected
  <2>2. TypeOK'
    BY <1>1, <1>3
       DEF IInv, TypeOK, ReadBucket, Move, Ongoing, Holding, Connected, redisVars, args
  <2>3. Once' /\ AtMostOnce'
    BY <1>1, <1>3 DEF IInv, TypeOK, Once, OnWire, AtMostOnce, ReadBucket, Move, Requests
  <2> QED
    BY <1>3, <2>1, <2>2, <2>3 DEF IInv, ReadBucket, redisVars
<1> QED
    BY <1>2, <1>3

(* The reply reaches the caller.                                           *)
LEMMA AnswerStep ==
    ASSUME IInv, NEW r \in Requests, Answer(r)
    PROVE  IInv'
<1>1. stage[r] \in Holding /\ inflight' = inflight /\ UNCHANGED << version, redisVars, runs >>
    BY DEF Answer, Listening, Holding
<1>2. CASE r \in Checks
  <2>1. runs[r] = 1
    BY <1>2 DEF IInv, Once, Answer
  <2>2. Tell(r, Decision(reply[r]))
    BY <1>2 DEF Answer, AnswerWith
  <2> QED
    BY <1>1, <1>2, <2>1, <2>2, TellStep, NoFault
<1>3. CASE r \notin Checks
    BY <1>1, <1>3, TellStep, NoFault DEF Answer
<1> QED
    BY <1>2, <1>3

(* No connection, or a broken one.                                         *)
LEMMA FailStep ==
    ASSUME IInv, NEW r \in Requests, Fail(r)
    PROVE  IInv'
<1>1. stage[r] \in Holding /\ inflight' = inflight /\ UNCHANGED << version, redisVars, runs >>
    BY DEF Fail, Holding
<1> QED
    BY <1>1, FailWithStep, NoFault DEF Fail

(* The caller has gone: what is on the wire stays there.                   *)
LEMMA CancelStep ==
    ASSUME IInv, NEW r \in Requests, Cancel(r)
    PROVE  IInv'
<1>1. PermitsBalance' /\ permits' \in Nat
    BY InvariantParts, MoveOut DEF Cancel, Holding, Connected
<1>2. permits' \in 0 .. PoolSize
    BY <1>1, PermitsInRange
<1>3. TypeOK'
    BY <1>2 DEF IInv, TypeOK, Cancel, Move, redisVars, args
<1>4. Once' /\ AtMostOnce'
    BY DEF IInv, TypeOK, Once, OnWire, AtMostOnce, Cancel, Move
<1> QED
    BY <1>1, <1>3, <1>4 DEF IInv, Cancel, redisVars

(* The process dies: nobody holds a permit of the new pool.                *)
LEMMA CrashStep ==
    ASSUME IInv, Crash
    PROVE  IInv'
<1> DEFINE Kept(r) == IF stage[r] \in Ongoing THEN "cancelled" ELSE stage[r]
<1>0. stage' = [r \in Requests |-> Kept(r)]
    BY DEF Crash
<1>1. Holders' = {}
    BY <1>0 DEF Holders, Ongoing, Holding, Connected
<1>2. PermitsBalance'
  <2>1. permits' = PoolSize /\ Cardinality(Holders') = 0
    BY <1>1, FS_EmptySet DEF Crash
  <2>2. permits' + Cardinality(Holders') = PoolSize
    BY <2>1, RequestPathAssumption
  <2> QED
    BY <2>2 DEF PermitsBalance, Holders
<1>3. permits' \in 0 .. PoolSize
    BY RequestPathAssumption DEF Crash
<1>4. faults' \in 0 .. MaxFaults /\ faults <= faults'
    BY RequestPathAssumption DEF IInv, TypeOK, Crash, Fault
<1>5. TypeOK'
  <2>1. stage' \in [Requests -> Ongoing \cup {"new", "done", "cancelled"}]
    BY <1>0 DEF IInv, TypeOK
  <2> QED
    BY <1>3, <1>4, <2>1 DEF IInv, TypeOK, Crash, args
<1>6. Once' /\ AtMostOnce'
    BY DEF IInv, TypeOK, Once, OnWire, AtMostOnce, Crash, Ongoing, Requests
<1>7. (losses + One(redis = "down") <= faults)'
  <2>1. redis' = redis /\ losses' = losses
    BY DEF Crash
  <2>2. losses + One(redis = "down") <= faults /\ losses \in Nat /\ faults \in Nat
    BY DEF IInv, TypeOK
  <2>3. One(redis = "down") \in Nat
    BY DEF One
  <2> QED
    BY <1>4, <2>1, <2>2, <2>3
<1> QED
    BY <1>2, <1>5, <1>6, <1>7 DEF IInv

(* What breaks, a reload or a second process charge nobody and hold no     *)
(* permit.                                                                 *)
LEMMA QuietSteps ==
    ASSUME IInv, \/ Reload \/ Register \/ RedisFault
                 \/ \E r \in Requests : LoseCommand(r) \/ Reset(r)
    PROVE  IInv'
<1>1. CASE \E r \in Requests : LoseCommand(r)
  <2>1. inflight' \subseteq inflight /\ UNCHANGED << version, callVars, redisVars, runs >>
    BY <1>1 DEF LoseCommand
  <2> QED
    BY <2>1, WireStep
<1>2. CASE Reload
  <2>1. version' \in DOMAIN Lists
    <3>1. version \in 1 .. Len(Lists) /\ DOMAIN Lists = 1 .. Len(Lists) /\ Len(Lists) \in Nat
        BY LenProperties, RequestPathAssumption DEF IInv, TypeOK
    <3> QED
        BY <1>2, <3>1 DEF Reload
  <2> QED
    BY <1>2, <2>1, QuietStep DEF Reload, IInv, TypeOK, callVars, redisVars
<1>3. CASE Register
    BY <1>3, QuietStep DEF Register, IInv, TypeOK, callVars
<1>4. CASE GoDown
  <2>1. losses' + One(redis' = "down") <= faults' /\ faults' \in 0 .. MaxFaults
    BY <1>4, RequestPathAssumption DEF GoDown, Fault, IInv, TypeOK, One
  <2> QED
    BY <1>4, <2>1, QuietStep DEF GoDown, IInv, TypeOK
<1>5. CASE ComeBack
  <2>1. losses' + One(redis' = "down") <= faults'
    BY <1>5 DEF ComeBack, IInv, TypeOK, One
  <2> QED
    BY <1>5, <2>1, QuietStep DEF ComeBack, IInv, TypeOK, callVars
<1>6. CASE Restart
  <2>1. bucket' \in Bucket /\ inflight' \subseteq inflight
    BY <1>6, NoBucketOK DEF Restart
  <2>2. /\ UNCHANGED << stage, args, permits, severed, reply, decision, runs, met, version >>
        /\ redis' = "up" /\ cached' = FALSE
    BY <1>6 DEF Restart, callVars
  <2>3. /\ faults' \in 0 .. MaxFaults /\ losses' \in Nat
        /\ losses' + One(redis' = "down") <= faults'
    BY <1>6 DEF Restart, IInv, TypeOK, One
  <2>4. severed' \subseteq Requests /\ met' \subseteq Requests /\ version' \in DOMAIN Lists
    BY <2>2 DEF IInv, TypeOK
  <2> QED
    BY <2>1, <2>2, <2>3, <2>4, QuietStep
<1>7. CASE Stall
  <2>1. losses' + One(redis' = "down") <= faults' /\ faults' \in 0 .. MaxFaults
    BY <1>7, RequestPathAssumption DEF Stall, Fault, IInv, TypeOK, One
  <2> QED
    BY <1>7, <2>1, QuietStep DEF Stall, IInv, TypeOK, callVars
<1>8. CASE Resume
  <2>1. losses' + One(redis' = "down") <= faults'
    BY <1>8 DEF Resume, IInv, TypeOK, One
  <2> QED
    BY <1>8, <2>1, QuietStep DEF Resume, IInv, TypeOK, callVars
<1>9. CASE \E r \in Requests : Reset(r)
  <2>1. faults' \in 0 .. MaxFaults /\ losses' + One(redis' = "down") <= faults'
    BY <1>9, RequestPathAssumption DEF Reset, Fault, IInv, TypeOK, One
  <2> QED
    BY <1>9, <2>1, QuietStep DEF Reset, IInv, TypeOK
<1> QED
    BY <1>1, <1>2, <1>3, <1>4, <1>5, <1>6, <1>7, <1>8, <1>9 DEF RedisFault

(* Every step keeps the invariant.                                         *)
LEMMA NextKeepsIInv == IInv /\ [Next]_vars => IInv'
<1> SUFFICES ASSUME IInv, [Next]_vars PROVE IInv'
    OBVIOUS
<1>1. CASE UNCHANGED vars
    BY <1>1, WireStep DEF vars
<1>2. ASSUME NEW r \in Requests, Arrive(r) \/ Task(r) \/ Cancel(r)
      PROVE  IInv'
    BY <1>2, ArriveStep, AcquireStep, ConnectStep, AnswerStep, FailStep, CancelStep DEF Task
<1>3. ASSUME NEW r \in Requests, Server(r)
      PROVE  IInv'
    BY <1>3, ExecuteStep, RaiseStep, NoScriptStep, LoadScriptStep, ReadBucketStep DEF Server
<1> QED
    BY <1>1, <1>2, <1>3, QuietSteps, CrashStep, RefuseStep DEF Next

-----------------------------------------------------------------------------
(* The invariant of the request path, for any calls, pool and faults.      *)
THEOREM InvariantHolds == Spec => []IInv
<1>1. Init => IInv
    BY InitIInv
<1>2. IInv /\ [Next]_vars => IInv'
    BY NextKeepsIInv
<1> QED
    BY <1>1, <1>2, PTL DEF Spec

(* Type correctness: among others, the pool never has more permits than    *)
(* connections.                                                            *)
THEOREM TypeCorrect == Spec => []TypeOK
<1>1. IInv => TypeOK
    BY DEF IInv
<1> QED
    BY <1>1, InvariantHolds, PTL

(* No exit of a request keeps a permit or gives one back twice.            *)
THEOREM PermitsAreKept == Spec => []PermitsBalance
<1>1. IInv => PermitsBalance
    BY DEF IInv
<1> QED
    BY <1>1, InvariantHolds, PTL

(* However connections, script cache and Redis fail, nobody is charged     *)
(* twice.                                                                  *)
THEOREM ChargedAtMostOnce == Spec => []AtMostOnce
<1>1. IInv => AtMostOnce
    BY DEF IInv
<1> QED
    BY <1>1, InvariantHolds, PTL

(* Whoever is refused, or admitted on a count, is told what the script     *)
(* returned for that very request, for which it ran once.                  *)
THEOREM ScriptDecides == Spec => []DecidedByScript
<1>1. IInv => DecidedByScript
    BY DEF IInv, Once, DecidedByScript, Admitted, Refused, Opened, Answered, FailOpen
<1> QED
    BY <1>1, InvariantHolds, PTL
-----------------------------------------------------------------------------
(* The refinement of AtomicChecks.                                         *)

(* What AtomicChecks sees of the variables.                                *)
Stage == [r \in Checks |-> View(stage[r])]
Told == [r \in Checks |-> decision[r]]

(* A step it does not see.                                                 *)
LEMMA Unseen ==
    ASSUME UNCHANGED << Stage, cost, snapshot, Charged, reply, Told, bucket >>
    PROVE  UNCHANGED Atomic!vars
BY DEF Atomic!vars, Stage, Told

(* The calls begin as those of AtomicChecks.                               *)
LEMMA InitIsAtomic == Init => Atomic!Init
<1> SUFFICES ASSUME Init PROVE Atomic!Init
    OBVIOUS
<1>1. Stage = [c \in Checks |-> "new"] /\ Told = [c \in Checks |-> FailOpen]
    BY DEF Init, Stage, Told, View, Requests
<1>2. Charged = {}
    BY DEF Init, Charged
<1>3. snapshot = [c \in Checks |-> Lists[1]]
    BY DEF Init
<1>4. cost = [c \in Checks |-> 0] /\ reply = [c \in Checks |-> NoReply] /\ bucket = NoBucket
    BY DEF Init
<1> QED
    BY <1>1, <1>2, <1>3, <1>4 DEF Atomic!Init, Stage, Told

(* A move of a call is a move of what it shows, if it is a check.          *)
LEMMA MoveSeen ==
    ASSUME IInv, NEW r \in Requests, NEW s, Move(r, s)
    PROVE  /\ r \in Checks => Stage' = [Stage EXCEPT ![r] = View(s)]
           /\ r \notin Checks \/ View(s) = View(stage[r]) => Stage' = Stage
<1>1. stage' = [stage EXCEPT ![r] = s] /\ DOMAIN stage = Requests
    BY DEF Move, IInv, TypeOK
<1>2. Checks \subseteq Requests
    BY DEF Requests
<1> QED
    BY <1>1, <1>2 DEF Stage

(* A check that arrives is invoked.                                        *)
LEMMA ArriveIsAtomic ==
    ASSUME IInv, NEW r \in Requests, Arrive(r)
    PROVE  Atomic!Next \/ UNCHANGED Atomic!vars
<1>1. UNCHANGED << Charged, reply, Told, bucket >>
    BY DEF Arrive, Charged, Told
<1>2. CASE r \in Checks
  <2>1. Stage[r] = "new" /\ Stage' = [Stage EXCEPT ![r] = "open"]
    BY <1>2, MoveSeen DEF Arrive, Stage, View
  <2>2. \E amount \in Costs[r] : cost' = [cost EXCEPT ![r] = amount]
    BY <1>2 DEF Arrive
  <2>3. version \in DOMAIN Lists /\ snapshot' = [snapshot EXCEPT ![r] = Lists[version]]
    BY <1>2 DEF Arrive, IInv, TypeOK
  <2>4. Atomic!Invoke(r)
    BY <1>1, <2>1, <2>2, <2>3 DEF Atomic!Invoke, Atomic!Move, Stage, Told
  <2> QED
    BY <1>2, <2>4 DEF Atomic!Next
<1>3. CASE r \notin Checks
  <2>1. UNCHANGED << Stage, cost, snapshot >>
    BY <1>3, MoveSeen DEF Arrive, IInv, TypeOK
  <2> QED
    BY <1>1, <2>1, Unseen
<1> QED
    BY <1>2, <1>3

(* A call that hears its end is answered with the script's word, or let    *)
(* through, or no check.                                                   *)
LEMMA TellIsAtomic ==
    ASSUME IInv, NEW r \in Requests, NEW d, Tell(r, d), UNCHANGED << runs, bucket >>,
           r \in Checks => \/ View(stage[r]) \in {"open", "heard"} /\ d = FailOpen
                           \/ View(stage[r]) = "heard" /\ d = Decision(reply[r])
    PROVE  Atomic!Next \/ UNCHANGED Atomic!vars
<1>1. UNCHANGED << cost, snapshot, Charged, reply, bucket >>
    BY DEF Tell, args, Charged
<1>2. decision' = [decision EXCEPT ![r] = d] /\ DOMAIN decision = Requests
    BY DEF Tell, IInv, TypeOK
<1>3. CASE r \in Checks
  <2>1. Stage' = [Stage EXCEPT ![r] = "done"] /\ Stage[r] = View(stage[r])
    BY <1>3, MoveSeen DEF Tell, View, Stage
  <2>2. Told' = [Told EXCEPT ![r] = d]
    BY <1>2, <1>3 DEF Told, Requests
  <2>3. Atomic!LetThrough(r) \/ Atomic!Answer(r)
    BY <1>1, <1>3, <2>1, <2>2
       DEF Atomic!LetThrough, Atomic!Answer, Atomic!Move, Stage, Told
  <2> QED
    BY <1>3, <2>3 DEF Atomic!Next
<1>4. CASE r \notin Checks
  <2>1. UNCHANGED << Stage, Told >>
    BY <1>2, <1>4, MoveSeen DEF Tell, Told, Requests
  <2> QED
    BY <1>1, <2>1, Unseen
<1> QED
    BY <1>3, <1>4

(* A check that fails is let through.                                      *)
LEMMA FailWithIsAtomic ==
    ASSUME IInv, NEW r \in Requests, NEW error, FailWith(r, error),
           stage[r] \in Holding, UNCHANGED << runs, bucket >>
    PROVE  Atomic!Next \/ UNCHANGED Atomic!vars
<1>1. View(stage[r]) \in {"open", "heard"}
    BY DEF View, Holding, Connected
<1>2. r \in Checks => Tell(r, FailOpen)
    BY DEF FailWith, AnswerWith
<1>3. r \notin Checks => Tell(r, StatusError(error))
    BY DEF FailWith
<1> QED
    BY <1>1, <1>2, <1>3, TellIsAtomic

(* The steps that lead a call to its command and back.                     *)
LEMMA TaskIsAtomic ==
    ASSUME IInv, NEW r \in Requests, Task(r)
    PROVE  Atomic!Next \/ UNCHANGED Atomic!vars
<1>1. CASE Acquire(r) \/ Connect(r)
  <2>1. Stage' = Stage
    BY <1>1, MoveSeen DEF Acquire, Connect, View
  <2>2. UNCHANGED << cost, snapshot, Charged, reply, Told, bucket >>
    BY <1>1 DEF Acquire, Connect, args, redisVars, Charged, Told
  <2> QED
    BY <2>1, <2>2, Unseen
<1>2. CASE Answer(r)
  <2>1. View(stage[r]) = "heard" /\ UNCHANGED << runs, bucket >>
    BY <1>2 DEF Answer, View, redisVars
  <2>2. r \in Checks => Tell(r, Decision(reply[r]))
    BY <1>2 DEF Answer, AnswerWith
  <2>3. r \notin Checks => Tell(r, StatusAnswer)
    BY <1>2 DEF Answer
  <2> QED
    BY <2>1, <2>2, <2>3, TellIsAtomic
<1>3. CASE Fail(r)
  <2>1. stage[r] \in Holding /\ UNCHANGED << runs, bucket >>
    BY <1>3 DEF Fail, Holding, redisVars
  <2> QED
    BY <1>3, <2>1, FailWithIsAtomic DEF Fail
<1> QED
    BY <1>1, <1>2, <1>3 DEF Task

(* The caller gives up.                                                    *)
LEMMA CancelIsAtomic ==
    ASSUME IInv, NEW r \in Requests, Cancel(r)
    PROVE  Atomic!Next \/ UNCHANGED Atomic!vars
<1>1. UNCHANGED << cost, snapshot, Charged, reply, Told, bucket >>
    BY DEF Cancel, args, redisVars, Charged, Told
<1>2. CASE r \in Checks
  <2>1. Stage[r] \in {"open", "heard"} /\ Stage' = [Stage EXCEPT ![r] = "gone"]
    BY <1>2, MoveSeen DEF Cancel, Stage, View, Ongoing, Holding, Connected
  <2>2. \E S \in SUBSET {c \in Checks : Stage[c] \in {"open", "heard"}} :
            Stage' = [c \in Checks |-> IF c \in S THEN "gone" ELSE Stage[c]]
    <3>1. Stage' = [c \in Checks |-> IF c \in {r} THEN "gone" ELSE Stage[c]]
        BY <1>2, <2>1 DEF Stage
    <3> QED
        BY <1>2, <2>1, <3>1
  <2>3. Atomic!GiveUp
    BY <1>1, <2>2 DEF Atomic!GiveUp, Stage, Told
  <2> QED
    BY <2>3 DEF Atomic!Next
<1>3. CASE r \notin Checks
    BY <1>1, <1>3, MoveSeen, Unseen DEF Cancel
<1> QED
    BY <1>2, <1>3

(* Every caller does.                                                      *)
LEMMA CrashIsAtomic ==
    ASSUME IInv, Crash
    PROVE  Atomic!Next
<1> DEFINE S == {c \in Checks : Stage[c] \in {"open", "heard"}}
<1>1. UNCHANGED << cost, snapshot, Charged, reply, Told, bucket >>
    BY DEF Crash, args, Charged, Told
<1>2. Stage' = [c \in Checks |-> IF c \in S THEN "gone" ELSE Stage[c]]
  <2>1. ASSUME NEW c \in Checks
        PROVE  View(stage'[c]) = IF c \in S THEN "gone" ELSE Stage[c]
    <3>1. stage'[c] = IF stage[c] \in Ongoing THEN "cancelled" ELSE stage[c]
        BY DEF Crash, Requests
    <3>2. stage[c] \in Ongoing \cup {"new", "done", "cancelled"}
        BY DEF IInv, TypeOK, Requests
    <3> QED
        BY <3>1, <3>2 DEF Stage, View, Ongoing, Holding, Connected
  <2> QED
    BY <2>1 DEF Stage
<1>3. Atomic!GiveUp
    BY <1>1, <1>2 DEF Atomic!GiveUp, Stage, Told
<1> QED
    BY <1>3 DEF Atomic!Next

(* The script runs: the moment a check is charged.                         *)
LEMMA ExecuteIsAtomic ==
    ASSUME IInv, NEW r \in Checks, Execute(r)
    PROVE  Atomic!Next
<1>1. runs[r] = 0 /\ stage[r] \notin {"new", "waiting", "connecting", "replied"}
    BY NotChargedYet DEF Execute
<1>2. /\ Storable(bucket, cost[r], snapshot[r])
      /\ bucket' = Stored(bucket, cost[r], snapshot[r])
      /\ UNCHANGED << cost, snapshot, Told >>
    BY DEF Execute, args, Told
<1>3. Stage[r] # "new" /\ r \notin Charged /\ Charged' = Charged \cup {r}
  <2>1. runs' = [runs EXCEPT ![r] = 1] /\ DOMAIN runs = Checks
    BY <1>1 DEF Execute, IInv, TypeOK
  <2>2. r \notin Charged /\ Charged' = Charged \cup {r}
    BY <1>1, <2>1 DEF Charged
  <2>3. Stage[r] # "new"
    BY <1>1 DEF Stage, View
  <2> QED
    BY <2>2, <2>3
<1>4. \/ /\ Stage[r] = "open"
         /\ Stage' = [Stage EXCEPT ![r] = "heard"]
         /\ reply' = [reply EXCEPT ![r] = Reply(bucket, cost[r], snapshot[r])]
      \/ UNCHANGED << Stage, reply >>
  <2>1. CASE Listening(r)
    BY <1>1, <2>1, MoveSeen DEF Execute, Listening, Connected, Stage, View, Requests
  <2>2. CASE ~Listening(r)
    BY <2>2 DEF Execute, Stage
  <2> QED
    BY <2>1, <2>2
<1>5. Atomic!Charge(r)
    BY <1>2, <1>3, <1>4 DEF Atomic!Charge, Atomic!Move, Stage, Told
<1> QED
    BY <1>5 DEF Atomic!Next

(* A command that fails lets its check through, or nobody listens.         *)
LEMMA ErrorIsAtomic ==
    ASSUME IInv, NEW r \in Requests, (r \in Checks /\ Raise(r)) \/ Refuse(r)
    PROVE  Atomic!Next \/ UNCHANGED Atomic!vars
<1>1. UNCHANGED << runs, bucket >>
    BY DEF Raise, Refuse, redisVars
<1>2. CASE Listening(r)
  <2>1. FailWith(r, "command") /\ stage[r] \in Holding
    BY <1>2 DEF Raise, Refuse, Listening, Holding
  <2> QED
    BY <1>1, <2>1, FailWithIsAtomic
<1>3. CASE ~Listening(r)
  <2>1. UNCHANGED << Stage, cost, snapshot, Charged, reply, Told, bucket >>
    BY <1>1, <1>3 DEF Raise, Refuse, callVars, args, Stage, Charged, Told
  <2> QED
    BY <2>1, Unseen
<1> QED
    BY <1>2, <1>3

(* NOSCRIPT goes unseen, but for a check that fails on it.                 *)
LEMMA NoScriptIsAtomic ==
    ASSUME IInv, NEW r \in Checks, NoScript(r)
    PROVE  Atomic!Next \/ UNCHANGED Atomic!vars
<1>1. UNCHANGED << runs, bucket >> /\ r \in Requests
    BY DEF NoScript, redisVars, Requests
<1>2. CASE Listening(r) /\ stage[r] # "sent"
  <2>1. FailWith(r, "command") /\ stage[r] \in Holding
    BY <1>2 DEF NoScript, Listening, Holding
  <2> QED
    BY <1>1, <2>1, FailWithIsAtomic
<1>3. CASE ~Listening(r)
  <2>1. UNCHANGED << Stage, cost, snapshot, Charged, reply, Told, bucket >>
    BY <1>1, <1>3 DEF NoScript, callVars, args, Stage, Charged, Told
  <2> QED
    BY <2>1, Unseen
<1>4. CASE Listening(r) /\ stage[r] = "sent"
  <2>1. Stage' = Stage
    BY <1>1, <1>4, MoveSeen DEF NoScript, View
  <2>2. UNCHANGED << cost, snapshot, Charged, reply, Told, bucket >>
    BY <1>1, <1>4 DEF NoScript, args, Charged, Told
  <2> QED
    BY <2>1, <2>2, Unseen
<1> QED
    BY <1>2, <1>3, <1>4

(* So do SCRIPT LOAD and GET.                                              *)
LEMMA LoadAndReadAreAtomic ==
    ASSUME IInv, NEW r \in Requests,
           \/ r \in Checks /\ LoadScript(r)
           \/ r \in StatusCalls /\ ReadBucket(r)
    PROVE  UNCHANGED Atomic!vars
<1>1. UNCHANGED << cost, snapshot, Charged, reply, Told, bucket >>
    BY DEF LoadScript, ReadBucket, args, redisVars, Charged, Told
<1>2. Stage' = Stage
  <2>1. CASE ~Listening(r)
    BY <2>1 DEF LoadScript, ReadBucket, Stage
  <2>2. CASE Listening(r) /\ r \in Checks /\ LoadScript(r)
    <3>1. stage[r] \in {"sent", "loading", "resent"}
      <4>1. OnWire(r, "load") /\ stage[r] \in Connected
        BY <2>2 DEF LoadScript, Listening, OnWire
      <4>2. stage[r] # "replied"
        BY <2>2, <4>1 DEF IInv, Once
      <4> QED
        BY <4>1, <4>2 DEF Connected
    <3> QED
        BY <2>2, <3>1, MoveSeen DEF LoadScript, View
  <2>3. CASE Listening(r) /\ r \in StatusCalls /\ ReadBucket(r)
    BY <2>3, MoveSeen, RequestPathAssumption DEF ReadBucket
  <2> QED
    BY <2>1, <2>2, <2>3
<1> QED
    BY <1>1, <1>2, Unseen

(* Faults, reloads and second processes go unseen, but for lost data.      *)
LEMMA QuietIsAtomic ==
    ASSUME IInv, \/ Reload \/ Register \/ RedisFault
                 \/ \E r \in Requests : LoseCommand(r) \/ Reset(r)
    PROVE  Atomic!Next \/ UNCHANGED Atomic!vars
<1>1. UNCHANGED << Stage, cost, snapshot, Charged, reply, Told >>
  <2>1. UNCHANGED << stage, cost, snapshot, runs, reply, decision >>
    BY DEF Reload, Register, RedisFault, GoDown, ComeBack, Restart, Stall, Resume,
           LoseCommand, Reset, callVars, args
  <2> QED
    BY <2>1 DEF Stage, Charged, Told
<1>2. CASE Restart
  <2>1. Atomic!Forget
    BY <1>1, <1>2 DEF Restart, Atomic!Forget, Stage, Told
  <2> QED
    BY <2>1 DEF Atomic!Next
<1>3. CASE ~Restart
  <2>1. bucket' = bucket
    BY <1>3 DEF Reload, Register, RedisFault, GoDown, ComeBack, Stall, Resume,
                LoseCommand, Reset, redisVars
  <2> QED
    BY <1>1, <2>1, Unseen
<1> QED
    BY <1>2, <1>3

(* Every step is one of AtomicChecks, or unseen.                           *)
LEMMA NextIsAtomic == IInv /\ [Next]_vars => [Atomic!Next]_(Atomic!vars)
<1> SUFFICES ASSUME IInv, [Next]_vars PROVE Atomic!Next \/ UNCHANGED Atomic!vars
    OBVIOUS
<1>1. CASE UNCHANGED vars
  <2>1. UNCHANGED << Stage, cost, snapshot, Charged, reply, Told, bucket >>
    BY <1>1 DEF vars, callVars, redisVars, args, Stage, Charged, Told
  <2> QED
    BY <2>1, Unseen
<1>2. ASSUME NEW r \in Requests, Arrive(r) \/ Task(r) \/ Cancel(r)
      PROVE  Atomic!Next \/ UNCHANGED Atomic!vars
    BY <1>2, ArriveIsAtomic, TaskIsAtomic, CancelIsAtomic
<1>3. ASSUME NEW r \in Requests, Server(r)
      PROVE  Atomic!Next \/ UNCHANGED Atomic!vars
  <2>1. CASE r \in Checks /\ Execute(r)
    BY <2>1, ExecuteIsAtomic
  <2>2. CASE r \in Checks /\ Raise(r)
    BY <1>3, <2>2, ErrorIsAtomic
  <2>3. CASE r \in Checks /\ NoScript(r)
    BY <2>3, NoScriptIsAtomic
  <2>4. CASE r \in Checks /\ LoadScript(r)
    BY <2>4, LoadAndReadAreAtomic
  <2>5. CASE r \in StatusCalls /\ ReadBucket(r)
    BY <2>5, LoadAndReadAreAtomic
  <2>6. \/ r \in Checks /\ (Execute(r) \/ Raise(r) \/ NoScript(r) \/ LoadScript(r))
        \/ r \in StatusCalls /\ ReadBucket(r)
    BY <1>3 DEF Server
  <2> QED
    BY <2>1, <2>2, <2>3, <2>4, <2>5, <2>6
<1>4. CASE Crash
    BY <1>4, CrashIsAtomic
<1>5. CASE \/ Reload \/ Register \/ RedisFault
           \/ \E r \in Requests : LoseCommand(r) \/ Reset(r)
    BY <1>5, QuietIsAtomic
<1>6. CASE \E r \in Requests : Refuse(r)
    BY <1>6, ErrorIsAtomic
<1> QED
    BY <1>1, <1>2, <1>3, <1>4, <1>5, <1>6 DEF Next

(* The request path implements AtomicChecks: every check that is answered  *)
(* with a verdict is charged, alone and once, between its call and its     *)
(* answer, by its own cost and snapshot.                                   *)
THEOREM ChecksAreLinearizable == Spec => ChecksAreAtomic
<1>1. Init => Atomic!Init
    BY InitIsAtomic
<1>2. IInv /\ [Next]_vars => [Atomic!Next]_(Atomic!vars)
    BY NextIsAtomic
<1> QED
    BY <1>1, <1>2, InvariantHolds, PTL DEF Spec, ChecksAreAtomic, Atomic!Spec
=============================================================================
