------------------------------ MODULE Service ------------------------------
(***************************************************************************)
(* The whole process, over its lives: main reads the environment and the   *)
(* policies, tests Redis, loads the script, starts the metrics server and  *)
(* the gRPC server, in this order and without a timeout anywhere; then the *)
(* calls of RequestPath arrive.  The first thing that fails ends the       *)
(* process, and Docker starts it again, perhaps in another environment.    *)
(*                                                                         *)
(* An environment is a record: vars, the environment variables that are    *)
(* set and can be read (a number that does not parse counts as not set);   *)
(* file_fits, whether the policy file loads; taken, the ports that other   *)
(* processes listen on.                                                    *)
(***************************************************************************)
EXTENDS RequestPath

CONSTANT Environments

VARIABLES
    env,            \* the environment of this life of the process
    main,           \* "loading", "connecting", "pinging", "reconnecting",
                    \* "registering", "disconnected", "binding", "serving" or "exited"
    metrics_server  \* its task: "none", "spawned", "listening" or "ended"

service == << env, main, metrics_server >>
allVars == << vars, service >>
-----------------------------------------------------------------------------
(* from_env of RedisConfig and ServerConfig.  A URL counts by its scheme,  *)
(* a host by whether it is an address or a name.                           *)
Setting(vs, name, default) == IF name \in DOMAIN vs THEN vs[name] ELSE default

RedisConfig(vs) ==
    [url                     |-> Setting(vs, "REDIS_CLUSTER_URL", "redis"),
     max_connections         |-> Setting(vs, "REDIS_MAX_CONN", 50),
     connection_timeout_secs |-> Setting(vs, "REDIS_CONNECT_TIMEOUT_SECS", 5),
     command_timeout_secs    |-> Setting(vs, "REDIS_COMMAND_TIMEOUT_SECS", 2)]

ServerConfig(vs) ==
    [host |-> Setting(vs, "GRPC_HOST", "address"),
     port |-> Setting(vs, "GRPC_PORT", 50051)]

MetricsPort(vs) == Setting(vs, "METRICS_PORT", 9090)

(* Mutant: a pool without connections is let through.                      *)
TimeoutsFit(cfg) ==
    /\ cfg.url \in {"redis", "rediss"}
    /\ cfg.connection_timeout_secs > 0
    /\ cfg.command_timeout_secs > 0

RedisConfigFits(cfg) ==
    /\ cfg.url \in {"redis", "rediss"}
    /\ cfg.max_connections > 0
    /\ cfg.connection_timeout_secs > 0
    /\ cfg.command_timeout_secs > 0

(* TLS is not among the features the redis crate is built with.            *)
ClientOpens(cfg) == cfg.url = "redis"

(* The pool of RequestPath is the one REDIS_MAX_CONN asks for.             *)
ASSUME ServiceAssumption ==
    \A e \in Environments : RedisConfig(e.vars).max_connections \in {0, PoolSize}
-----------------------------------------------------------------------------
ServiceInit ==
    /\ Init
    /\ cached = FALSE
    /\ env \in Environments
    /\ main = "loading"
    /\ metrics_server = "none"

(* The process ends, and its tasks with it.                                *)
Exit == main' = "exited" /\ metrics_server' = "none"

GoOn(next) == main' = next /\ UNCHANGED metrics_server

(* load_config and build_config_cache.  The file may have changed since    *)
(* the last life of the process.                                           *)
Load ==
    /\ main = "loading"
    /\ IF env.file_fits /\ RedisConfigFits(RedisConfig(env.vars))
         THEN /\ GoOn("connecting")
              /\ Reload \/ UNCHANGED vars
         ELSE Exit /\ UNCHANGED vars
    /\ UNCHANGED env

(* create_redis_pool: the pool, its first connection and a PING on it.     *)
ConnectFirst ==
    /\ main = "connecting"
    /\ IF ~ClientOpens(RedisConfig(env.vars)) THEN Exit
       ELSE /\ RedisConfig(env.vars).max_connections > 0
            /\ \/ redis = "up" /\ GoOn("pinging")
               \/ redis = "down" /\ Exit
    /\ UNCHANGED << env, vars >>

Ping ==
    /\ main = "pinging"
    /\ redis = "up"
    /\ GoOn("reconnecting")
    /\ UNCHANGED << env, vars >>

(* RedisClientImpl::new: the pooled connection, or a new one if it does    *)
(* not answer, and SCRIPT LOAD on it.                                      *)
Reconnect ==
    /\ main = "reconnecting"
    /\ \/ redis = "up" /\ GoOn("registering")
       \/ redis = "down" /\ Exit
    /\ UNCHANGED << env, vars >>

(* Mutant: the script is left to the first check that misses it.           *)
RegisterNothing ==
    /\ main = "registering"
    /\ main' = "binding" /\ metrics_server' = "spawned"
    /\ UNCHANGED << env, vars >>

RegisterScript ==
    /\ main = "registering"
    /\ Register
    /\ main' = "binding" /\ metrics_server' = "spawned"
    /\ UNCHANGED env

(* The connection broke under a PING or a SCRIPT LOAD.                     *)
GiveUp ==
    /\ main = "disconnected"
    /\ Exit
    /\ UNCHANGED << env, vars >>

(* Mutant: the gRPC server starts once the metrics can be read.            *)
BindLast ==
    /\ main = "binding"
    /\ metrics_server = "listening"
    /\ GoOn("serving")
    /\ UNCHANGED << env, vars >>

(* start_server: the address must be numeric and its port free.            *)
Bind ==
    /\ main = "binding"
    /\ LET config == ServerConfig(env.vars)
           held == env.taken \cup (IF metrics_server = "listening"
                                     THEN {MetricsPort(env.vars)} ELSE {})
       IN  IF config.host = "address" /\ config.port \notin held
             THEN GoOn("serving") ELSE Exit
    /\ UNCHANGED << env, vars >>

(* start_metrics_server, a task of its own: main does not hear of its end. *)
BindMetrics ==
    /\ metrics_server = "spawned"
    /\ LET held == env.taken \cup (IF main = "serving"
                                     THEN {ServerConfig(env.vars).port} ELSE {})
       IN  metrics_server' = IF MetricsPort(env.vars) \in held THEN "ended" ELSE "listening"
    /\ UNCHANGED << env, main, vars >>

(* restart: unless-stopped.                                                *)
Reboot ==
    /\ main = "exited"
    /\ main' = "loading"
    /\ env' \in Environments
    /\ UNCHANGED << metrics_server, vars >>
-----------------------------------------------------------------------------
(* The process dies, wherever main is.                                     *)
Die ==
    /\ main # "exited"
    /\ Crash
    /\ Exit
    /\ UNCHANGED env

LoseRedis ==
    /\ GoDown
    /\ main' = IF main \in {"pinging", "registering"} THEN "disconnected" ELSE main
    /\ UNCHANGED << env, metrics_server >>

(* The watcher runs once the cache is built.                               *)
HotReload ==
    /\ main \notin {"loading", "exited"}
    /\ Reload
    /\ UNCHANGED service

Call(r) ==
    /\ \/ main = "serving" /\ Arrive(r)
       \/ Task(r) \/ Cancel(r) \/ Server(r) \/ LoseCommand(r) \/ Reset(r) \/ Refuse(r)
    /\ UNCHANGED service

Startup == \/ Load \/ ConnectFirst \/ Ping \/ Reconnect \/ RegisterScript \/ GiveUp \/ Bind

ServiceNext ==
    \/ Startup \/ BindMetrics \/ Reboot \/ Die \/ LoseRedis \/ HotReload
    \/ (ComeBack \/ Restart \/ Stall \/ Resume) /\ UNCHANGED service
    \/ \E r \in Requests : Call(r)

(* As long as some call can go on, some call does; main and the metrics    *)
(* server run on; Docker starts the process again.                         *)
ServiceFairness ==
    /\ WF_allVars(\E r \in Requests : (Task(r) \/ Server(r)) /\ UNCHANGED service)
    /\ WF_allVars(Startup) /\ WF_allVars(BindMetrics) /\ WF_allVars(Reboot)

ServiceSpec == ServiceInit /\ [][ServiceNext]_allVars /\ ServiceFairness
-----------------------------------------------------------------------------
(* Whoever is served finds the script in Redis, unless Redis has lost its  *)
(* data since a process loaded it: NOSCRIPT is never the price of a start, *)
(* a crash, an outage or a second process.                                 *)
ScriptIsLoaded ==
    main \in {"binding", "serving"} /\ ~cached => losses > 0

(* A start never hangs but on a silent Redis: over and over it serves, has *)
(* ended, or Redis is silent.                                              *)
EndsOrServes == []<>(main \in {"serving", "exited"} \/ redis = "stalled")

(* What the service needs, and nothing of it is the metrics port, as long  *)
(* as it is not also the gRPC port.                                        *)
Sound(e) ==
    LET config == ServerConfig(e.vars)
    IN  /\ e.file_fits
        /\ RedisConfigFits(RedisConfig(e.vars)) /\ ClientOpens(RedisConfig(e.vars))
        /\ config.host = "address" /\ config.port \notin e.taken
        /\ config.port # MetricsPort(e.vars)

(* Where Redis stays up and every new life finds a sound environment, some *)
(* life serves for ever, whatever failed before and even when the metrics  *)
(* server could not start.                                                 *)
ServesInTheEnd == <>[](redis = "up" /\ Sound(env)) => <>[](main = "serving")

(* config/mod.rs:37 and :40, "Connection timeout in seconds" and "Command  *)
(* timeout in seconds": nobody waits for ever, whatever Redis does.  Over  *)
(* and over a start has served or has ended, and every call is answered or *)
(* has been dropped by its caller (README:13, "requests pass through if    *)
(* Redis becomes unavailable").  No timeout ends the wait for a Redis that *)
(* is silent.                                                              *)
WaitsEnd ==
    /\ \A r \in Requests : []<>(stage[r] \notin Ongoing)
    /\ []<>(main \in {"serving", "exited"})
=============================================================================
