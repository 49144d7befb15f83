---------------------------- MODULE RequestPath ----------------------------
(***************************************************************************)
(* The calls that reach Redis, from their arrival to their answer.  A check *)
(* (consume_and_check_limit) takes a snapshot of the policies in force, a  *)
(* permit of the connection pool and a connection, sends EVALSHA, SCRIPT   *)
(* LOAD and EVALSHA again when Redis no longer knows the script, and turns *)
(* the reply or the error into a decision and into metrics.  A status call *)
(* (get_bucket_status) takes a permit for one GET.  Several calls for one  *)
(* key are under way at once, each a task of its own that may be dropped   *)
(* at any await; the policies are reloaded meanwhile; the process dies;    *)
(* Redis goes down, comes back with or without its data, answers with an   *)
(* error, or just stops answering; a single connection breaks.             *)
(*                                                                         *)
(* Redis holds the bucket of LeakyBucket.  The calls are simultaneous: no  *)
(* time passes (RateContract is about time).                               *)
(***************************************************************************)
EXTENDS LeakyBucket

CONSTANTS
    Checks,         \* calls of ConsumeAndCheckLimit
    StatusCalls,    \* calls of GetBucketStatus
    Costs,          \* check |-> the costs it may ask for
    Lists,          \* the policies of the key, version by version of the configuration
    PoolSize,       \* max_connections
    CounterSize,    \* 2^64, where an integer counter wraps
    Impatient,      \* calls whose callers may go away
    Faults,         \* which of the faults below can happen
    MaxFaults       \* bound: how many faults happen

Requests == Checks \cup StatusCalls

ASSUME RequestPathAssumption ==
    /\ IsFiniteSet(Checks) /\ IsFiniteSet(StatusCalls)
    /\ Checks \cap StatusCalls = {}
    /\ Costs \in [Checks -> SUBSET Int]
    /\ Lists \in Seq(Seq(Policy) \ {<<>>}) \ {<<>>}
    /\ PoolSize \in Nat \ {0} /\ CounterSize \in Nat \ {0}
    /\ Impatient \subseteq Requests
    /\ Faults \subseteq {"down", "restart", "stall", "crash", "reset", "refuse"}
    /\ MaxFaults \in Nat

VARIABLES
    version,        \* the version of the configuration in the cache
    stage,          \* call |-> where its task is
    cost,           \* check |-> what it asks for
    snapshot,       \* check |-> the policies it took
    permits,        \* the permits left in the pool's semaphore
    inflight,       \* << call, command >> pairs on their way to Redis
    severed,        \* calls whose connection is broken
    reply,          \* check |-> what the script returned for it
    decision,       \* call |-> what its caller was told
    redis,          \* whether Redis answers
    cached,         \* Redis has the script in its cache
    bucket,         \* the entry under the key
    metrics,        \* the counters of the process
    faults,         \* faults so far
    losses,         \* history: restarts of Redis without its data
    runs,           \* history: check |-> how often the script ran for it
    met             \* history: calls that met an outage, a broken connection or
                    \* an error of Redis itself

args == << cost, snapshot >>
callVars == << stage, args, permits, severed, reply, decision, metrics >>
redisVars == << redis, cached, bucket, faults, losses, met >>
vars == << version, callVars, redisVars, inflight, runs >>

NoReply == [allowed |-> FALSE, capacity_or_deny |-> 0, limiting_index |-> 0]

NoMetrics == [allowed |-> 0, denied |-> 0, tokens |-> 0, deny_tokens |-> 0,
              connection_errors |-> 0, script_errors |-> 0, executions |-> 0]

Connected == {"sent", "loading", "resent", "replied"}
Holding == Connected \cup {"connecting"}
Ongoing == Holding \cup {"waiting"}

Listening(r) == stage[r] \in Connected /\ r \notin severed

Move(r, s) == stage' = [stage EXCEPT ![r] = s]
-----------------------------------------------------------------------------
(* Nothing is under way.  Whether Redis has the script is another matter:  *)
(* it may have lost it since start-up loaded it.                           *)
Init ==
    /\ version = 1
    /\ stage = [r \in Requests |-> "new"]
    /\ snapshot = [r \in Checks |-> Lists[version]]
    /\ cost = [r \in Checks |-> 0]
    /\ permits = PoolSize
    /\ inflight = {} /\ severed = {}
    /\ reply = [r \in Checks |-> NoReply]
    /\ decision = [r \in Requests |-> FailOpen]
    /\ redis = "up" /\ cached \in BOOLEAN /\ bucket = NoBucket
    /\ metrics = NoMetrics
    /\ faults = 0 /\ losses = 0
    /\ runs = [r \in Checks |-> 0]
    /\ met = {}

(* The watcher swaps the cache (ConfigWatcher), and may skip versions.     *)
Reload ==
    /\ version' \in version + 1 .. Len(Lists)
    /\ UNCHANGED << callVars, redisVars, inflight, runs >>

Arrive(r) ==
    /\ stage[r] = "new"
    /\ Move(r, "waiting")
    /\ snapshot' = [s \in Checks |-> IF s = r THEN Lists[version] ELSE snapshot[s]]
    /\ cost' \in IF r \in Checks THEN {[cost EXCEPT ![r] = c] : c \in Costs[r]} ELSE {cost}
    /\ met' = IF redis = "down" THEN met \cup {r} ELSE met
    /\ UNCHANGED << version, permits, severed, reply, decision, metrics, redis, cached,
                    bucket, faults, losses, inflight, runs >>

(* pool.get: no timeout is configured, neither for the permit nor for what *)
(* follows.                                                                *)
Acquire(r) ==
    /\ stage[r] = "waiting"
    /\ permits > 0
    /\ permits' = permits - 1
    /\ Move(r, "connecting")
    /\ UNCHANGED << version, args, severed, reply, decision, metrics, redisVars,
                    inflight, runs >>

FirstCommand(r) == IF r \in Checks THEN "evalsha" ELSE "get"

(* A pooled connection answers a PING or a new one is made; the first      *)
(* command goes out on it.                                                 *)
Connect(r) ==
    /\ stage[r] = "connecting"
    /\ redis = "up"
    /\ Move(r, "sent")
    /\ inflight' = inflight \cup {<< r, FirstCommand(r) >>}
    /\ UNCHANGED << version, args, permits, severed, reply, decision, metrics,
                    redisVars, runs >>

-----------------------------------------------------------------------------
(* Mutant: a permit comes back even from a task that had none yet.         *)
ReleaseAlways(r) == permits' = permits + 1

(* How a task ends: the permit goes back, whichever way.                   *)
Release(r) == permits' = IF stage[r] \in Holding THEN permits + 1 ELSE permits

One(b) == IF b THEN 1 ELSE 0

(* record_redis_error and record_script_execution.                         *)
ScriptRecorded(error) ==
    [metrics EXCEPT
        !.connection_errors = @ + One(error = "connection"),
        !.script_errors = @ + One(error = "command"),
        !.executions = @ + One(error = "none")]

(* Mutant: what was refused is taken off the tokens again.                 *)
RecordedNet(r, d, error) ==
    [ScriptRecorded(error) EXCEPT
        !.allowed = @ + One(d.allowed),
        !.denied = @ + One(~d.allowed),
        !.tokens = IF d.allowed THEN @ + cost[r] ELSE @ - cost[r],
        !.deny_tokens = (@ + d.deny_count) % CounterSize]

(* record_request, record_tokens_consumed and record_denied, after the     *)
(* records of the client.  DENY_COUNT_TOTAL is an integer counter:         *)
(* deny_count as u64 is added modulo its size.                             *)
Recorded(r, d, error) ==
    [ScriptRecorded(error) EXCEPT
        !.allowed = @ + One(d.allowed),
        !.denied = @ + One(~d.allowed),
        !.tokens = @ + cost[r],
        !.deny_tokens = (@ + d.deny_count) % CounterSize]

Tell(r, d) ==
    /\ Move(r, "done")
    /\ Release(r)
    /\ decision' = [decision EXCEPT ![r] = d]
    /\ UNCHANGED << args, severed, reply >>

AnswerWith(r, d, error) ==
    /\ Tell(r, d)
    /\ metrics' = Recorded(r, d, error)

(* A status call: no metrics, and an error is its caller's (errors.rs).    *)
StatusAnswer == [code |-> "ok"]

StatusError(error) ==
    [code |-> IF error = "connection" THEN "unavailable" ELSE "internal"]

FailWith(r, error) ==
    IF r \in Checks THEN AnswerWith(r, FailOpen, error)
    ELSE Tell(r, StatusError(error)) /\ UNCHANGED metrics

(* Mutant: connections are mixed up, a check gets the reply to another.    *)
AnswerAny(r) ==
    /\ stage[r] = "replied"
    /\ Listening(r)
    /\ redis # "stalled"
    /\ \E s \in Checks :
          /\ stage[s] = "replied"
          /\ IF r \in Checks THEN AnswerWith(r, Decision(reply[s]), "none")
                             ELSE Tell(r, StatusAnswer) /\ UNCHANGED metrics
    /\ UNCHANGED << version, redisVars, inflight, runs >>

(* The reply arrives and check_limit turns it into a decision.             *)
Answer(r) ==
    /\ stage[r] = "replied"
    /\ Listening(r)
    /\ redis # "stalled"
    /\ IF r \in Checks THEN AnswerWith(r, Decision(reply[r]), "none")
                       ELSE Tell(r, StatusAnswer) /\ UNCHANGED metrics
    /\ UNCHANGED << version, redisVars, inflight, runs >>

(* Mutant: the call is tried again on a new connection.                    *)
FailAndRetry(r) ==
    /\ stage[r] \in Connected /\ r \in severed
    /\ Move(r, "connecting")
    /\ severed' = severed \ {r}
    /\ UNCHANGED << version, args, permits, reply, decision, metrics, redisVars,
                    inflight, runs >>

(* No connection can be made, or the one in use breaks.                    *)
Fail(r) ==
    /\ \/ stage[r] = "connecting" /\ redis = "down" /\ FailWith(r, "connection")
       \/ stage[r] \in Connected /\ r \in severed /\ FailWith(r, "command")
    /\ UNCHANGED << version, redisVars, inflight, runs >>

(* Mutant: a dropped task keeps its permit.                                *)
CancelKeepingPermit(r) ==
    /\ r \in Impatient
    /\ stage[r] \in Ongoing
    /\ Move(r, "cancelled")
    /\ UNCHANGED << version, args, permits, severed, reply, decision, metrics,
                    redisVars, inflight, runs >>

(* The caller goes away and tonic drops the future.  What was sent is not  *)
(* taken back.                                                             *)
Cancel(r) ==
    /\ r \in Impatient
    /\ stage[r] \in Ongoing
    /\ Move(r, "cancelled")
    /\ Release(r)
    /\ UNCHANGED << version, args, severed, reply, decision, metrics, redisVars,
                    inflight, runs >>
-----------------------------------------------------------------------------
(* Redis takes an EVALSHA off the wire and runs the script.                *)
Execute(r) ==
    /\ redis = "up" /\ cached
    /\ << r, "evalsha" >> \in inflight
    /\ Storable(bucket, cost[r], snapshot[r])
    /\ bucket' = Stored(bucket, cost[r], snapshot[r])
    /\ runs' = [runs EXCEPT ![r] = @ + 1]
    /\ inflight' = inflight \ {<< r, "evalsha" >>}
    /\ IF Listening(r)
         THEN /\ reply' = [reply EXCEPT ![r] = Reply(bucket, cost[r], snapshot[r])]
              /\ Move(r, "replied")
         ELSE UNCHANGED << reply, stage >>
    /\ UNCHANGED << version, args, permits, severed, decision, metrics, redis, cached,
                    faults, losses, met >>

(* The script raises on an expiry SETEX refuses: an error for the caller.  *)
Raise(r) ==
    /\ redis = "up" /\ cached
    /\ << r, "evalsha" >> \in inflight
    /\ ~Storable(bucket, cost[r], snapshot[r])
    /\ inflight' = inflight \ {<< r, "evalsha" >>}
    /\ IF Listening(r) THEN FailWith(r, "command") ELSE UNCHANGED callVars
    /\ UNCHANGED << version, redisVars, runs >>

(* Mutants: NOSCRIPT is an error like any other; it is counted as one and  *)
(* the call goes on.                                                       *)
NoScriptFails(r) ==
    /\ redis = "up" /\ ~cached
    /\ << r, "evalsha" >> \in inflight
    /\ inflight' = inflight \ {<< r, "evalsha" >>}
    /\ IF Listening(r) THEN FailWith(r, "command") ELSE UNCHANGED callVars
    /\ UNCHANGED << version, redisVars, runs >>

NoScriptCounted(r) ==
    /\ redis = "up" /\ ~cached
    /\ << r, "evalsha" >> \in inflight
    /\ Listening(r) /\ stage[r] = "sent"
    /\ inflight' = (inflight \ {<< r, "evalsha" >>}) \cup {<< r, "load" >>}
    /\ Move(r, "loading")
    /\ metrics' = [metrics EXCEPT !.script_errors = @ + 1]
    /\ UNCHANGED << version, args, permits, severed, reply, decision, redisVars, runs >>

(* NOSCRIPT: Script::invoke_async loads the script and tries once more.    *)
NoScript(r) ==
    /\ redis = "up" /\ ~cached
    /\ << r, "evalsha" >> \in inflight
    /\ IF ~Listening(r)
         THEN /\ inflight' = inflight \ {<< r, "evalsha" >>}
              /\ UNCHANGED callVars
       ELSE IF stage[r] = "sent"
         THEN /\ inflight' = (inflight \ {<< r, "evalsha" >>}) \cup {<< r, "load" >>}
              /\ Move(r, "loading")
              /\ UNCHANGED << args, permits, severed, reply, decision, metrics >>
       ELSE /\ inflight' = inflight \ {<< r, "evalsha" >>}
            /\ FailWith(r, "command")
    /\ UNCHANGED << version, redisVars, runs >>

LoadScript(r) ==
    /\ redis = "up"
    /\ << r, "load" >> \in inflight
    /\ cached' = TRUE
    /\ IF Listening(r)
         THEN /\ inflight' = (inflight \ {<< r, "load" >>}) \cup {<< r, "evalsha" >>}
              /\ Move(r, "resent")
         ELSE /\ inflight' = inflight \ {<< r, "load" >>}
              /\ UNCHANGED stage
    /\ UNCHANGED << version, args, permits, severed, reply, decision, metrics, redis,
                    bucket, faults, losses, met, runs >>

(* SCRIPT LOAD by a process that starts, this one or another.              *)
Register ==
    /\ redis = "up"
    /\ cached' = TRUE
    /\ UNCHANGED << version, callVars, redis, bucket, faults, losses, met, inflight, runs >>

(* GET.  What the caller makes of the entry is LeakyBucket!BucketStatus.   *)
ReadBucket(r) ==
    /\ redis = "up"
    /\ << r, "get" >> \in inflight
    /\ inflight' = inflight \ {<< r, "get" >>}
    /\ IF Listening(r) THEN Move(r, "replied") ELSE UNCHANGED stage
    /\ UNCHANGED << version, args, permits, severed, reply, decision, metrics,
                    redisVars, runs >>

(* What was sent on a broken connection may never reach Redis.             *)
LoseCommand(r) ==
    /\ r \in severed
    /\ \E command \in {"evalsha", "load", "get"} :
          /\ << r, command >> \in inflight
          /\ inflight' = inflight \ {<< r, command >>}
    /\ UNCHANGED << version, callVars, redisVars, runs >>
-----------------------------------------------------------------------------
Fault(kind) ==
    /\ kind \in Faults
    /\ faults < MaxFaults
    /\ faults' = faults + 1

GoDown ==
    /\ Fault("down")
    /\ redis # "down"
    /\ redis' = "down"
    /\ severed' = severed \cup {r \in Requests : stage[r] \in Connected}
    /\ met' = met \cup {r \in Requests : stage[r] \in Ongoing}
    /\ UNCHANGED << version, stage, args, permits, reply, decision, metrics, cached,
                    bucket, losses, inflight, runs >>

ComeBack ==
    /\ redis = "down"
    /\ redis' = "up"
    /\ UNCHANGED << version, callVars, cached, bucket, faults, losses, met, inflight, runs >>

(* One connection breaks, closed by Redis or by the network between.       *)
Reset(r) ==
    /\ Fault("reset")
    /\ stage[r] \in Connected /\ r \notin severed
    /\ severed' = severed \cup {r}
    /\ met' = met \cup {r}
    /\ UNCHANGED << version, stage, args, permits, reply, decision, metrics, redis, cached,
                    bucket, losses, inflight, runs >>

(* Redis is there and answers with an error: it loads its data, is out of  *)
(* memory, cannot save, has become a replica.  A script that it lets run   *)
(* ends at SETEX all the same, with nothing stored.                        *)
Refuse(r) ==
    /\ Fault("refuse")
    /\ redis = "up"
    /\ \E command \in {"evalsha", "load", "get"} :
          /\ << r, command >> \in inflight
          /\ inflight' = inflight \ {<< r, command >>}
    /\ IF Listening(r) THEN FailWith(r, "command") ELSE UNCHANGED callVars
    /\ met' = met \cup {r}
    /\ UNCHANGED << version, redis, cached, bucket, losses, runs >>

(* A new process: no data, no script cache, no connections.                *)
Restart ==
    /\ "restart" \in Faults
    /\ redis = "down"
    /\ redis' = "up"
    /\ cached' = FALSE
    /\ bucket' = NoBucket
    /\ inflight' = {}
    /\ losses' = losses + 1
    /\ UNCHANGED << version, callVars, faults, met, runs >>

(* A partition that drops packets, a process that is stopped: nothing is   *)
(* refused, nothing is answered.                                           *)
Stall ==
    /\ Fault("stall")
    /\ redis = "up"
    /\ redis' = "stalled"
    /\ UNCHANGED << version, callVars, cached, bucket, losses, met, inflight, runs >>

Resume ==
    /\ redis = "stalled"
    /\ redis' = "up"
    /\ UNCHANGED << version, callVars, cached, bucket, faults, losses, met, inflight, runs >>

(* The process dies, with its tasks, pool and counters.  Redis still holds *)
(* the bucket and what was sent.                                           *)
Crash ==
    /\ Fault("crash")
    /\ stage' = [r \in Requests |-> IF stage[r] \in Ongoing THEN "cancelled" ELSE stage[r]]
    /\ severed' = severed \cup {r \in Requests : stage[r] \in Connected}
    /\ permits' = PoolSize
    /\ metrics' = NoMetrics
    /\ UNCHANGED << version, args, reply, decision, redis, cached, bucket, losses, met,
                    inflight, runs >>
-----------------------------------------------------------------------------
Task(r) == Acquire(r) \/ Connect(r) \/ Answer(r) \/ Fail(r)

Server(r) ==
    \/ r \in Checks /\ (Execute(r) \/ Raise(r) \/ NoScript(r) \/ LoadScript(r))
    \/ r \in StatusCalls /\ ReadBucket(r)

RedisFault == GoDown \/ ComeBack \/ Restart \/ Stall \/ Resume

Next ==
    \/ \E r \in Requests : \/ Arrive(r) \/ Task(r) \/ Cancel(r)
                           \/ Server(r) \/ LoseCommand(r)
                           \/ Reset(r) \/ Refuse(r)
    \/ Reload \/ RedisFault \/ Register \/ Crash

(* Tasks that can go on do, and a Redis that is up serves what reaches it. *)
(* Nothing promises that Redis comes back.                                 *)
Fairness == \A r \in Requests : WF_vars(Task(r)) /\ WF_vars(Server(r))

Spec == Init /\ [][Next]_vars /\ Fairness
-----------------------------------------------------------------------------
Answered(r) == stage[r] = "done"

Opened(r) == Answered(r) /\ decision[r] = FailOpen

Admitted == {r \in Checks : Answered(r) /\ ~Opened(r) /\ decision[r].allowed}

Refused == {r \in Checks : Answered(r) /\ ~decision[r].allowed}

Total(S) == MapThenSumSet(LAMBDA r : cost[r], S)

Refund(r) == cost[r] < 0

TypeOK ==
    /\ version \in DOMAIN Lists
    /\ stage \in [Requests -> Ongoing \cup {"new", "done", "cancelled"}]
    /\ cost \in [Checks -> Int]
    /\ snapshot \in [Checks -> {Lists[i] : i \in DOMAIN Lists}]
    /\ permits \in 0 .. PoolSize
    /\ inflight \subseteq (Checks \X {"evalsha", "load"}) \cup (StatusCalls \X {"get"})
    /\ severed \subseteq Requests /\ met \subseteq Requests
    /\ DOMAIN reply = Checks /\ DOMAIN decision = Requests
    /\ redis \in {"up", "down", "stalled"} /\ cached \in BOOLEAN
    /\ bucket \in Bucket
    /\ faults \in 0 .. MaxFaults /\ losses \in 0 .. MaxFaults
    /\ runs \in [Checks -> Nat]

(* No way out of a call, cancelled at an await, failed or answered, keeps  *)
(* a permit or gives one back twice, and a new process has them all.       *)
PermitsBalance == permits + Cardinality({r \in Requests : stage[r] \in Holding}) = PoolSize

(* A check is charged at most once, through NOSCRIPT, the retry, broken    *)
(* connections, restarts of Redis and of the service.                      *)
AtMostOnce == \A r \in Checks : runs[r] <= 1

(* Only the script refuses, and a caller that is told a count is told what *)
(* the script returned for its own check, which it ran for once: no reply  *)
(* to another, none left over on a pooled connection, none made up.        *)
DecidedByScript ==
    \A r \in Admitted \cup Refused : runs[r] = 1 /\ decision[r] = Decision(reply[r])

(* A check is refused for a cause: together with what others were charged  *)
(* and not refused it exceeds the burst of a policy of its snapshot.  What *)
(* was refused, retried after NOSCRIPT, given up or answered on a broken   *)
(* connection takes no room twice, and none by being refused.              *)
Outlay == [r \in Checks |-> Larger(0, cost[r])]

Spent(S) == MapThenSumSet(LAMBDA r : Outlay[r], S)

Charged == {r \in Checks : runs[r] > 0}

RefusedForCause ==
    \A r \in Refused : \E i \in DOMAIN snapshot[r] :
        cost[r] + Spent(Charged \ Refused) > snapshot[r][i].burst

(* What callers were admitted on a count of, less all negative costs that  *)
(* reached the script, is at most one burst for each life of the data, in  *)
(* every bucket that all checks charged: however many were under way at    *)
(* once, whatever broke, whichever snapshots they held.  A negative cost   *)
(* is subtracted even where it was refused or its caller heard nothing, so *)
(* that for one of these the bound is looser than what was given back.     *)
(* When the burst changed in between, it is the largest any of them knew.  *)
AdmittedFits ==
    LET balance == Total(Admitted \cup {r \in Charged : Refund(r)})
    IN  \A r \in Admitted : \A i \in DOMAIN snapshot[r] :
            (\A s \in Charged : i \in DOMAIN snapshot[s])
                => balance <= Max({snapshot[s][i].burst : s \in Admitted}) * (1 + losses)

(* A bucket as full as any version of the policies allows.                 *)
Full(r) ==
    LET bursts == UNION {{Lists[i][j].burst : j \in DOMAIN Lists[i]} : i \in DOMAIN Lists}
    IN  [NoBucket EXCEPT !.levels = [j \in DOMAIN snapshot[r] |-> Max(bursts)]]

(* A check fails open, or a status call fails, only if while it was under  *)
(* way Redis was down, its connection broke or Redis answered with an      *)
(* error of its own, or if its expiry could be too long for SETEX in a     *)
(* full bucket: that Redis has forgotten the script is not enough.         *)
OpensOnlyOnFault ==
    /\ \A r \in Checks : Opened(r) => r \in met \/ ~Storable(Full(r), cost[r], snapshot[r])
    /\ \A r \in StatusCalls : Answered(r) /\ decision[r] # StatusAnswer => r \in met

(* The counters agree with each other and with Redis: every answered check *)
(* is counted once as an execution or an error, and no more executions are *)
(* counted than there were, so what a dashboard shows as failed open is    *)
(* what failed open.  The client counts an execution or an error           *)
(* (client.rs:77-85) and the handler the answer (handler.rs:78-85), with   *)
(* no await in between: one step here, though a scrape on another thread   *)
(* may fall between the two.                                               *)
CountersAgree ==
    /\ metrics.allowed + metrics.denied
           = metrics.connection_errors + metrics.script_errors + metrics.executions
    /\ metrics.executions <= Cardinality({r \in Checks : runs[r] > 0})
    /\ metrics.connection_errors + metrics.script_errors
           <= Cardinality({r \in Checks : Opened(r)})

(* A Prometheus counter only rises, but for a new process.  Of these two   *)
(* the tokens fall only where a negative cost is answered, and the denials *)
(* only where one has been charged: retries, failures and several denials  *)
(* in a row never make them fall.                                          *)
CountersFallOnlyAfterRefund ==
    [][ \/ metrics' = NoMetrics
        \/ /\ metrics'.tokens < metrics.tokens
               => \E r \in Checks : Refund(r) /\ Answered(r)' /\ ~Answered(r)
           /\ metrics'.deny_tokens < metrics.deny_tokens
               => \E r \in Checks : Refund(r) /\ runs[r] > 0 ]_metrics

(* The calls amount to atomic ones: whatever becomes of the pool, of the   *)
(* connections, of the script cache and of Redis, each check is charged at *)
(* one moment, by its own cost and snapshot, and its caller hears that     *)
(* verdict or is let through (AtomicChecks).                               *)
View(s) ==
    IF s \in {"new", "done"} THEN s
    ELSE IF s = "replied" THEN "heard"
    ELSE IF s = "cancelled" THEN "gone"
    ELSE "open"

Atomic == INSTANCE AtomicChecks WITH
    stage    <- [r \in Checks |-> View(stage[r])],
    policies <- snapshot,
    charged  <- Charged,
    verdict  <- reply,
    decision <- [r \in Checks |-> decision[r]]

ChecksAreAtomic == Atomic!Spec

(* What the proofs add.  Who has not connected yet, or has a command on    *)
(* the wire, has not been charged; nobody has two commands on the wire;    *)
(* and whoever was told something else than to pass has been charged.      *)
OnWire(r, command) == << r, command >> \in inflight

Once == \A r \in Checks :
    /\ stage[r] \in {"new", "waiting", "connecting"} =>
            ~OnWire(r, "evalsha") /\ ~OnWire(r, "load") /\ runs[r] = 0
    /\ OnWire(r, "evalsha") \/ OnWire(r, "load") => runs[r] = 0
    /\ ~(OnWire(r, "evalsha") /\ OnWire(r, "load"))
    /\ stage[r] = "replied" \/ decision[r] # FailOpen => runs[r] = 1
    /\ decision[r] # FailOpen => decision[r] = Decision(reply[r])

(* The inductive invariant.                                                *)
IInv == TypeOK /\ losses + One(redis = "down") <= faults /\ PermitsBalance /\ AtMostOnce /\ Once

(* A call is answered, or dropped by its caller, unless Redis ends up      *)
(* silent: nobody waits for ever for a permit, a connection or a reply     *)
(* because of what others went through.                                    *)
Settled(r) == stage[r] \in {"done", "cancelled"}

AnsweredUnlessSilent == <>[](redis = "stalled" \/ \A r \in Requests : stage[r] \notin Ongoing)

(* metrics.rs:29, "Accumulated denied tokens": no more than what the       *)
(* refused requests asked for, however many are refused in a row and       *)
(* whatever the sign of their costs.                                       *)
DenialsAddUp == metrics.deny_tokens <= Total(Refused)
=============================================================================
