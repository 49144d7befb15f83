# limitr in TLA+

limitr is a rate limiting service. Callers ask it over gRPC whether a request
may pass; it keeps one *multi-rate leaky bucket* per key in Redis, updated by a
Lua script, and takes its policies from a JSON file that it reloads while it
runs. This directory specifies that system in TLA+: modules translated from
the source, TLC configurations that check them on small instances, and proofs
for every value of the constants where a proof is in reach.

    tlasany M.tla                              parse
    tlc -config X.cfg M                        check a run (M: the MC module)
    tlapm M.tla                                check the proofs of M

## 1. Inventory

| Component | State | Operations | Interacts with |
|---|---|---|---|
| Lua script (`scripts/leaky_bucket.lua`) | the entry under a key: last_time, deny_count, levels, expiry | one atomic check-and-charge per call | called by the client through EVALSHA; reads the clock of Redis |
| Limiter (`src/limiter`) | none | `check_limit` (fail-open on any error), `get_bucket_status` | handlers above, Redis client below |
| Redis client, pool, script cache (`src/redis`) | permits and connections of the pool; the script cache of Redis | `execute_rate_limit_script`, `get_bucket_state`, `health_check` | limiter above, Redis below, across awaits |
| gRPC handlers (`src/server/handler.rs`) | none of their own; one task per request | `consume_and_check_limit`, `get_bucket_status`, `get_current_config`, `health_check` | read the shared `ArcSwap<ConfigCache>`, bump metrics |
| Configuration data (`src/config/mod.rs`) | `ConfigCache`: policies by domain and prefix, the default, the file as loaded | `new`, `get_policies`, `get_full_config` | built by the loader, swapped by the watcher, read by handlers |
| Loader and validator | none | read, parse, default, validate | file system |
| Watcher (`src/config/watcher.rs`) | the watch, a channel of one place | receive an event, reload, swap | notify's thread, file system, the cache |
| Start-up (`src/main.rs`, `src/server/mod.rs`) | how far main is | load, spawn the watcher, connect, load the script, serve | environment, file, Redis, ports; Docker restarts it |
| Metrics (`src/metrics.rs`) | Prometheus counters and gauges | `record_*` | handlers, client, watcher |
| Metrics server (`src/metrics_server.rs`) | a listener | bind, answer with the registry | a task beside main, competes with it for ports |

What is hard about them:

- **Time and arithmetic in the script.** The ttl is rounded up to seconds, a
  denial stores levels that have *not* leaked together with a *new* last_time,
  costs may be negative, the clock is the wall clock of Redis, and a reload
  makes one key see several policy lists in turn.
- **A call that crosses a network.** The reply may be lost after the script has
  run, Redis may restart without data and without the script, fall silent, or
  refuse an expiry; the caller may go away at any await; permits are scarce.
- **Start and end.** The first failure of a start ends the process, nothing has
  a timeout, the servers start side by side, and the process may die with
  commands on their way; Docker starts it again, perhaps elsewhere.
- **Reload.** A file edited in place or renamed, before or after it is watched,
  read half written, by a task that gets events through a bounded channel from
  a thread that blocks, and that causes events itself by reading.

What correctness means for each:

- *Script and limiter*: in any stretch of time the script allows no more than a
  burst plus what the flow drains; what was charged is not forgotten; what a
  caller is told is true; quiet keys admit.
- *Client, pool, handlers*: concurrent checks amount to atomic ones; a check is
  charged at most once; permits are conserved; only the script refuses, and for
  a cause; a check passes unchecked only when there was a fault; everybody is answered; the
  counters say what happened.
- *Start-up*: a start never hangs while Redis answers; whoever is served finds
  the script loaded; what can serve serves in the end.
- *Configuration*: handlers always see a whole, validated configuration; no
  noticed edit is lost; the service never steps back to an older version.

## 2. Modules

| Module | Models | State | Actions |
|---|---|---|---|
| `LeakyBucket` | the script as operators on an entry; the decision of `check_limit`; the decoding of `get_bucket_status` | – | – |
| `RateBucket` | one key and all calls on it, with expiry, losses, lost replies and clock corrections | `bucket`, `answer` | `Check`, `CheckRaises`, `CheckUnreachable`, `CheckReplyLost`, `Tick`, `LoseKey`, `SetBack`, `SetForward` |
| `RateLimit` | **abstract specification**: an ideal bucket per rate that drains all the time, and an observer's window | `level`, `window` | `Pass`, `Admit`, `Forget`, `Observe` |
| `RateContract` | `RateBucket` beside `RateLimit`: each step of the code with the step of the promise it stands for | both, and `exact` | one per kind of step |
| `RetryingClient` | a client that retries on a shared key | `RateBucket`'s, `waited`, `others` | `Attempt`, `OthersCall`, `TimePasses` |
| `BucketKey` | splitting `limit_key`, the policy lookup key, the bucket key | two requests | – |
| `ConfigCache` | serde's defaults, validation and its errors, the cache and its lookup | – | – |
| `ConfigWatcher` | main's load, the watcher task, notify's thread, the editor of the file | `file`, `attached`, `pending`, `channel`, `phase`, `found`, `cache`, gauge and counters | `Load`, `Watch`, `Deliver`, `Receive`, `Read`, `Store`, `Write`, `Replace`, `NotifyFails` |
| `RequestPath` | the calls under way at once on one key, from arrival to answer: `consume_and_check_limit` and `get_bucket_status`, with pool, connections, reloads and Redis; uses `LeakyBucket` for what the script does | `stage`, `snapshot`, `permits`, `inflight`, `severed`, `bucket`, `metrics`, … | `Reload`, `Arrive`, `Acquire`, `Connect`, `Execute`, `NoScript`, `LoadScript`, `Register`, `Raise`, `ReadBucket`, `Answer`, `Fail`, `Cancel`, and the faults `GoDown`, `ComeBack`, `Restart`, `Stall`, `Resume`, `Reset`, `Refuse`, `LoseCommand`, `Crash` |
| `AtomicChecks` | **abstract specification**: checks that are charged at one moment, without pool, connections, script cache or failures | `stage`, `policies`, `charged`, `verdict`, `decision`, `bucket` | `Invoke`, `Charge`, `Answer`, `LetThrough`, `GiveUp`, `Forget` |
| `Service` | the process over its lives, composed with `RequestPath`: environment, `main` and its servers, exits, restarts | `RequestPath`'s, `env`, `main`, `metrics_server` | `Load`, `ConnectFirst`, `Ping`, `Reconnect`, `RegisterScript`, `GiveUp`, `Bind`, `BindMetrics`, `Reboot`, `Die`, `LoseRedis`, `HotReload`, `Call` |
| `MC*` | small values for constants | | |
| `FiniteLemmas` | proofs about sums, largest and least members, which the others cite | | |
| `LeakyBucketProofs`, `RateContractProofs`, `BucketKeyProofs`, `ConfigWatcherProofs`, `RequestPathProofs`, `OutcomeProofs`, `ServiceProofs` | proofs | | |

How the state corresponds to the code:

- *Time* is counted in ticks, `TicksPerSecond` of them to a second. The script
  stores an absolute `last_time` and SETEX an absolute deadline; both are only
  ever compared with `now`, so an entry holds the `age` of `last_time` and the
  `ttl` left. This makes the state space finite without a clock variable; a
  clock set back makes `age` negative exactly when the script's `delta` is.
- *Levels, costs, bursts* are integers in a unit in which the flow per tick is
  whole. The script computes in doubles; on such values doubles are exact.
  Rounding of other values is not modelled.
- *The deny count* saturates at `MaxDeny`, as a double stops counting at 2^53.
- *An instance of the service* keeps no state between calls on a key, so any
  number of instances is any interleaving of calls. Requests that read their
  snapshot before a reload and reach Redis after it are calls with different
  lists from `Configs`.
- *A document* is a record with the fields of the structs serde fills in, its
  strings members of small sets in the runs. A file in the middle of being
  written is `Malformed`. `validate_config` stops at the first entry that is
  wrong, the default's coming last: `ConfigError` takes the error of the least
  position that has one. Versions of the file are numbered,
  which only properties look at.
- *An event* is one of the kinds `should_reload` tells apart. inotify merges an
  event with an equal one at the end of its queue (`Post`).
- *A broken connection* is a call in `severed`, alone (`Reset`) or with all others
  in an outage (`GoDown`): what it sent may still reach Redis (`Execute`), or not
  (`LoseCommand`), but no reply comes back.
- *An error reply* of a Redis that is up (`Refuse`: it loads its data, is out of
  memory, cannot save, has become a replica) takes the command off the wire with
  nothing stored. `met` remembers which calls met an outage, a broken connection
  or such an error; an expiry SETEX refuses (`Raise`) is not in it, since it is the
  policy's doing.
- *Counters* are bumped in two places, by the client when the script has returned
  or failed (`redis/client.rs:77-85`) and by the handler (`handler.rs:78-85`),
  with no await in between: one step here. A scrape on another thread may see the
  one without the other.
- *The process dies* in `Crash`: its tasks, permits and counters are gone, Redis
  keeps the bucket and what is on the wire. In `Service` main goes with it.
- *An environment* is what a start meets: variables that are set and readable,
  whether the policy file loads, the ports others hold. A URL counts by its
  scheme, a host by whether it is numeric.

Each module names its bounds among its constants: `MaxDeny`, `MaxSkew`,
`MaxWindow`, `MaxLosses`, `OtherCalls`, `MaxEdits`, `MaxErrors`, `MaxFaults`.

## 3. Properties and runs

| Run | Checks | Shows |
|---|---|---|
| `MCBucket_steady` | `TypeOK` `NoEarlyExpiry` `NeverUnderCharged` `WindowBound` `ExactUntilDenied` `RemainingIsHonest` `AdmittedAfterQuiet` `KeepsPromise` | two policies, lost replies, lost keys: the rate is enforced, exactly until the first denial, and answers are honest |
| `MCBucket_faults` | `IInv` `WindowBound` `ExactUntilDenied` `AdmittedAfterQuiet` `KeepsPromise` | three configurations that share their first policy, costs -2, 0 and 3, all faults, expiries SETEX refuses: the shared policy is enforced all the same |
| `MCRetry_patient` | `NotStarved` | a client that lets the bucket drain its cost between attempts gets through again and again |
| `MCKeys` | `BucketsAreApart` | all pairs of requests over domains of up to two parts and keys of up to three, colons included |
| `MCWatcher_edits` | `TypeOK` `PoliciesInForce` `NothingMissed` `Settled` `NeverGoesBack` `FollowsEvents` `ComesToRest` | three edits of any kind at any time, one error of notify |
| `MCRequests_outage` (module `MCService`) | `TypeOK` `PermitsBalance` `AtMostOnce` `DecidedByScript` `RefusedForCause` `AdmittedFits` `OpensOnlyOnFault` `CountersAgree` `ScriptIsLoaded` `ChecksAreAtomic` `AnsweredUnlessSilent` `CountersFallOnlyAfterRefund` `EndsOrServes` `ServesInTheEnd` | `Service` over its lives, in six environments, with two checks and a status call on two connections, a reload, and one fault of five kinds at any point (an outage may also lose the data) |
| `MCBucket_status` | `StatusShowsBucket` — violated | finding 1 |
| `MCBucket_expiry` | `NeverExpiresCharged` — violated | finding 2 |
| `MCRetry_eager` | `NotStarved` — violated | finding 3 |
| `MCWatcher_missed` | `FollowsFile` — violated | finding 4 |
| `MCService_silent` | `WaitsEnd` — violated | finding 5 |
| `MCRequests_denials` | `DenialsAddUp` — violated | finding 6 |

Some of the properties that hold say less than their names may suggest:

- `WindowBound` and the refinement `KeepsPromise` bound what the *script allows*.
  A request that fails open without a charge is not counted, nor one that passes
  because the reply that denies it was lost: fail-open knows no rate.
- `BucketsAreApart` excepts two domains of which one extends the other at a colon,
  since nothing keeps colons out of domains and these do share buckets.
- `KeepsPromise`, `WindowBound` and `NeverUnderCharged` are about the policies that
  all snapshots have at the same place. Of a policy that moves or changes in a
  reload, `AdmittedFits` says how much passes, and finding 2 what goes wrong.
- `OpensOnlyOnFault` excuses an expiry SETEX refuses, `ServesInTheEnd` a `rediss`
  URL, `CountersFallOnlyAfterRefund` negative costs; section 4 has what happens then.
  `EndsOrServes` and `AnsweredUnlessSilent` excuse a silent Redis (finding 5),
  `FollowsEvents` edits that raise no event (finding 4).

**Bounds, and why they are enough.** The bucket runs use flows of 1 and 2,
bursts up to 5 and costs that are smaller than, equal to a part of and larger
than a burst, so that every policy is at times the limiting one, every request
is at times allowed and denied, ttls differ between policies, and rounding to
seconds (2 ticks) matters. In `MCBucket_faults` `MaxTTL = 2` makes one of the
configurations unstorable. Windows of 3 ticks span an expiry; with a clock
that jumps and signed costs they are kept to 1 tick, the bound for longer ones
being proved (section 5). A reload run has the three relations two lists can
have: same, changed, shorter. Three edits are enough for a rename, an edit
that is missed and one that is not; events queue behind a full channel of one
place.

`MCRequests_outage` has two checks and a status call on two permits, so that one
waits; two versions of the policies, so that checks of either version meet in
one bucket; a check that asks for 3 and one that asks for 3 or gives 1 back, so
that together they exceed the burst, and denials of negative costs are counted;
and, under the second version, a cost whose expiry SETEX refuses. One fault is an
outage, from which Redis comes back with its data or without it and without the
script, a stall, a broken connection, an error reply, or a crash of the process;
each may come at any step, start-up included (the broken connection and the error
reply are those of calls), and the gRPC port, the file, the host name, the pool size or TLS may
fail a start at any time and any number of times. One caller may go away, which
counts as no fault. The environments include none where both servers want the
same port: `Bind` and `BindMetrics` model that race, and a second environment
that serves would double the states. The run takes less than three
minutes on two workers; its faults are proved harmless in any number (section 5).

**Deadlock** is checked in every run but those of `ConfigWatcher` and
`RequestPath`, alone or in `Service`: main may have ended, all edits made, all
calls answered.

### Fairness

- `RetryingClient`: the clock goes on and the client does not give up (weak
  fairness of `TimePasses` and `Attempt`); the others on the key call a bounded
  number of times, otherwise they could always come first, which the code does
  not prevent.
- `ConfigWatcher`: weak fairness of main, of the watcher task (tokio runs
  a task that can go on) and of notify's thread (the operating system does).
  None of the editor.
- `RequestPath`: weak fairness of each call's task and of Redis serving
  what reaches it *while it is up*. Nothing says that Redis comes back, that a
  stalled one resumes, or that a caller arrives or leaves: `ComeBack`, `Resume`,
  `Arrive` and `Cancel` are not fair. That is why `WaitsEnd` is false
  and `AnsweredUnlessSilent` is what holds.
- `Service`: less than that for the calls (as long as some call can go on, some
  call does, which is enough since each has finitely many steps), weak fairness
  of main and of the metrics server's task, and of `Reboot`: the sample deployment says `restart:
  unless-stopped` (`example/deployment/docker-compose-example.yml:20`). None of
  any fault, of a reload, or of the environment's becoming sound:
  `ServesInTheEnd` has that as its hypothesis.

## 4. What the code does otherwise than its documents say

With a run whose counterexample shows it:

1. `GetBucketStatus` always shows an empty bucket: the script packs three
   objects in a row, the decoder wants one array of three.
2. A denied request stores the old levels under a ttl computed from its own
   snapshot's policies: levels of a policy of another snapshot can expire
   before they drain. (Under one configuration they cannot: `NoEarlyExpiry`.)
3. Each denial restarts the leak: a client that retries faster than its cost
   drains is refused for ever, though the bucket should have drained.
4. An edit of the file between main's load and the watcher's `watch()` is served
   only after another edit, which is the trace TLC prints. With the same property
   and `Hazards = {"replace"}` it prints another: `watch()` follows the inode, so
   after a file is renamed over the watched one, as many editors save, the rename
   is still noticed and loaded, but no edit after it. A third way is a file that is
   missing when the task reaches `watch()`: the task ends (`deaf`), and the service
   runs on without hot reload.
5. Neither the wait for a permit, nor connecting, nor a command has a timeout:
   with a Redis that is silent rather than gone, no call is answered and no start
   ends, so that Docker sees nothing to restart. `connection_timeout_secs` and
   `command_timeout_secs` are validated and never used; TRD 10.3 asks for a retry
   and then for the request to pass.
6. The deny count an answer carries is already a sum over the denials in a row,
   and is added to the counter at each of them: two refusals of 4 count as 8 with
   the second answer alone. The costs of the run include one that gives back: when
   it is denied, which a burst that shrinks in a reload makes possible, the sum is
   negative, and the cast to an unsigned number (`metrics.rs:109`) lifts the
   counter to just below 2^64; with the next such denial it falls.

Seen while modelling, with no run of their own, since they are a matter of one
line: `limiting_rate_index` counts from 1 (`limiter/mod.rs:16` says
0-indexed); a reload that fails to read, parse or validate is not counted
(`watcher.rs:92`, TRD 11.2); tokens of refused requests are counted as consumed
(`handler.rs:79`); a policy with an expiry SETEX does not take passes validation,
and every check under it passes while Redis is well (`leaky_bucket.lua:73`); a colon
in a domain makes two domains share a bucket key (`leaky_bucket.rs:22`); `rediss://`
passes validation (`validator.rs:34`), but no TLS feature of the redis crate is
enabled, so that no start gets past the pool; `GetCurrentConfig` lists an entry
that a later one for the same key has replaced; the service does not start
without Redis, though it passes requests without it later; `REDIS_USE_TLS`, the
user name and the password are read and never used but in logs; an answered
negative cost makes the counter of tokens fall (`metrics.rs:116`), and
`CountersFallOnlyAfterRefund` says that nothing else does.

## 5. Proofs

**Assumptions.** Those named in the modules and nothing else:
`LeakyBucketAssumption` (a second has ticks, limits are naturals),
`RateBucketAssumption` (policy lists are non-empty with positive numbers, which
is what `validate_rate_policy` enforces before a list can be served; costs are
any integers), `StableAssumption` (the policies the promise is about are in
every configuration, at the same place), `BucketKeyAssumption`,
`RequestPathAssumption` (finitely many calls, at least one connection, policy
lists that are not empty), `ServiceAssumption` (the pool has the size the
environment asks for),
`ConfigWatcherAssumption` (what the file may hold, the unreadable apart, is a
`Document`: what serde requires). One theorem has a hypothesis besides,
`CountersRiseWithoutRefunds`; it is explained there. TLC
evaluates each on every run of its module.

**The rate limit** (`RateContractProofs`, on the lemmas of `LeakyBucketProofs`).
For every set of configurations, costs, faults and clock jumps, but for the last:

| Theorem | States |
|---|---|
| `InvariantHolds` | `Spec => []IInv` |
| `TypeCorrect`, `ExpiryIsSafe`, `ChargesAreKept` | `TypeOK`, `NoEarlyExpiry`, `NeverUnderCharged` |
| `RateIsLimited` | `WindowBound`: what the script allows in a window |
| `QuietIsRewarded` | `AdmittedAfterQuiet` |
| `PromiseIsKept` | `RateContract` implements `RateLimit` |
| `NoStricterThanPromised` | `ExactUntilDenied` |
| `AnswersAreHonest` | `RemainingIsHonest`, if no cost is negative and no fault sets the clock back |

`NeverUnderCharged` alone is not inductive. A tick may expire the key, and then
the bucket forgets; that it forgets only drained levels is `NoEarlyExpiry`;
that the ttl covers a stored level rests on `StoredFits`, since the script takes
the larger of burst and level on a denial but stores older levels. `WindowBound`
needs `SpentCovered`: what a window has let through and not drained is still in
the buckets. `IInv` is their conjunction with `TypeOK`; TLC checks it in
`MCBucket_faults`, and the proof has one lemma per action. `PromiseIsKept`
follows since an allowed request fits in buckets that are at least as full.

Exactness: while `last_time` is not in the future, the script starts from the
effective level, which a tick drains and an allowed request charges just as it
does the promised one; when the key goes, `NeverUnderCharged` leaves nothing in
the promised bucket either. Honesty: an allowed request stores the levels it
was measured by, and what they leave of each burst only grows as they leak. Its
two hypotheses are needed: a negative cost is told of more than a burst when it
takes a level below zero, and a clock set back raises levels after the answer.

**Keys** (`BucketKeyProofs`): `ApartForAll`, for all domains and keys. A bucket key is
read back unambiguously by whoever knows how many parts its domain has (`Joined`),
and if two readings differ in that, one domain extends the other.

**Calls** (`RequestPathProofs`), for any number of calls, permits, versions and
faults: `InvariantHolds` (`IInv`), `TypeCorrect`, `ChargedAtMostOnce`,
`ScriptDecides`, `PermitsAreKept`, `ChecksAreLinearizable`. A run of the
script must follow an EVALSHA, of which a check has one on the wire only
before its first run: `Once` says that whoever has not connected yet or has a
command on the wire has not been charged, and has one command there at most. It
also says that whoever was told something else than to pass was told what the
script returned for it, which is `DecidedByScript`. No run checks this `IInv` or
that of the watcher as a whole: what they add to properties of the runs serves the
proofs only.
`PermitsBalance` is inductive with the types: a step changes the permits exactly
when it moves a call into or out of the stages that hold one, and a crash resets
both.

`ChecksAreLinearizable` is the refinement `Spec => ChecksAreAtomic`. The mapping
(`Atomic` in `RequestPath`) forgets pool and wire: every stage between arrival
and reply is `open`, `charged` are the checks the script has run for. `Execute`
maps to `Charge`, `Arrive` to `Invoke`, an answer or a failure to `Answer` or
`LetThrough`, `Cancel` and `Crash` to `GiveUp`, `Restart` to `Forget`; all else
stutters. `IInv` is needed for `Charge`, which must be a check's first.

**What calls end in** (`OutcomeProofs`), for any number of calls, permits,
versions and faults:

| Theorem | States |
|---|---|
| `OpensOnlyWhenRedisFails` | `OpensOnlyOnFault` |
| `CountersStayInAgreement` | `CountersAgree` |
| `CountersRiseWithoutRefunds` | `CountersFallOnlyAfterRefund`, if `m * Cardinality(Checks) < CounterSize` for some `DenialBound(m)` |
| `AdmittedWithinBurst` | `AdmittedFits` |
| `RefusesForCause` | `RefusedForCause` |

The first four rest on `Orderly`, which ties stages to the state of Redis. While Redis
is down every call under way has met it so and its connection is broken
(`Broken`). Whoever sent EVALSHA again on a whole connection finds the script,
because a restart that loses it breaks the connection first, so the second
NOSCRIPT, which would end in an error, never reaches a caller who has met no
outage, broken connection or error (`Scripted`). No level is above the largest burst of any version
(`LowBucket`), so a check whose expiry SETEX refuses would also be refused in a
full bucket: `OpensOnlyOnFault` must say *full*, since a denial under a list
with a smaller burst keeps higher levels, and their expiry is then what counts.

`CountersAgree` bounds the counters by how many checks have been answered either
way (`Counted`), which each answer raises by one on both sides. Without refunds
a deny count is never negative, and no larger than what the checks charged so
far may have asked for (`Denials`); so the counter of denials is at most the
largest count times the number of answers (`DenialsBounded`). Only below
`CounterSize` does it follow that it does not fall: the counter is an
`AtomicU64`, which wraps (`metrics.rs:109`), and that is what the hypothesis
excludes. `DenialBound(m)` says that `m` is at least `MaxDeny`, where the
script's number stops, or what all checks together may ask for: for a million
checks that ask for at most a million each, `m` times their number is 10^18,
below 2^64. In the runs it is 12, and `CounterSize` 64.

`AdmittedFits` is about callers, but the script knows only who it charged, whether
they will hear of it or not. `Fits` bounds, for every set of callers that passed
on a count, or whose reply on its way says they may, the sum of their costs and of
all refunds by what the bucket holds plus a burst per loss of the data. It must
speak of every such set and of every bound on the bursts: a caller may be
cancelled between charge and answer, the lists differ from caller to caller,
and a restart moves what the bucket held into the losses.

`RefusedForCause` is about callers too, and its invariant (`Caused`) is again about
charges. No level is above the sum of what was charged and not denied to a caller
still there to hear it (`Held`), where a negative cost counts as nothing, since
the script stops at an empty bucket. Whoever was denied asked for more than that
sum left of some burst of its snapshot, which stays true since the sum only grows.
And behind every decision but to fail open there is a reply (`Spoken`), so that
who is refused was denied.

**The service** (`ServiceProofs`): `InvariantHoldsForService`,
`ServiceChecksAreLinearizable`, `ServesWithScript`, and the five theorems on
outcomes for the service in all its lives (`ServiceOpensOnlyWhenRedisFails`,
`ServiceCountersStayInAgreement`, `ServiceCountersRiseWithoutRefunds`,
`ServiceAdmitsWithinBurst`, `ServiceRefusesForCause`), which is how the run checks them. Every step of
`Service` is one of `RequestPath` or leaves it alone, so its invariants and the
refinement carry over; `ScriptIsLoaded` is inductive once `RegisterScript` has
made it true, since only `Restart` empties the script cache and it counts a loss.

**Reload** (`ConfigWatcherProofs`), for any documents, edits and errors of
notify: `InvariantHolds`, `TypeCorrect`, `NoEditIsLost` (`NothingMissed`),
`CacheSettles` (`Settled`), `VersionsOnlyGrow` (`NeverGoesBack`),
`PoliciesStayInForce` (`PoliciesInForce`). `NothingMissed` needs to know
that nothing is watched before `Watch` and that an edit before it leaves `seen`
false; `Settled` and `NeverGoesBack` that what is about to be stored is what was
read last and fit to serve. `InStep` says these things.

`PoliciesInForce` needs two things. The cache of a service that has loaded is
that of some version that loaded (`Serves`), so that every list in it has passed
`validate_config`. And what `ConfigCache::new` builds entry by entry is the
table that has, for each key, the list of its last entry. `FoldLeft` is a
function on sets of positions, defined by recursion on the last of them; the
table satisfies the same equation (`TableBuilds`), and two functions that do
agree (`BuildsAgree`): a least set on which they differ would have a smaller
one. That argument from a minimal counterexample (`MinimalSubset` in
`FiniteLemmas`) is also how the lemmas on sums are proved; it takes the place
of an induction, which the provers cannot instantiate.

**Model-checked only.** Liveness (`NotStarved`, `FollowsEvents`, `ComesToRest`,
`AnsweredUnlessSilent`, `EndsOrServes`, `ServesInTheEnd`), which is out of the
prover's reach, as is all that speaks of ENABLED; and the violated properties of
section 4, which TLC refutes. Every invariant and every action property of a
passing run is a theorem.

## 6. Not modelled

The wording of logs; histograms, which only observe; the replies of the metrics
HTTP server, which are pure I/O, and `GetCurrentConfig`, which copies the
snapshot; the gRPC health check, which always says Serving; `health_check` and
`get_pool_stats` of the Redis client, which nothing calls; the reflection
service; generated code; the sample configuration. A process that is told to stop
(SIGTERM) just ends, which is `Die`. Rounding of doubles is abstracted as said
above. An overflow of the kernel's event queue is left out: it holds 16384 events and merges
equal ones, so a single file's do not fill it. An error reply or a broken
connection during a start has no action of its own: the start ends as it does when
Redis goes down (`LoseRedis`, `GiveUp`).

## 7. Plan

Done: the bucket, its promise and their proofs; keys and reload; the request
path as a refinement of atomic checks; the service over its lives, composed with
it; the safety of each proved, all that the passing runs check of it.

Next, in order:

1. Proofs: the bucket of `RequestPath`, whose calls take no time, as a
   `RateBucket`, so that the rate limit over time is stated of concurrent calls.
2. Rounding: the script over fixed-point numbers, to bound how far doubles can
   be from the promise.
