--------------------------- MODULE ServiceProofs ---------------------------
(***************************************************************************)
(* What is proved of RequestPath holds for the whole process, over all its *)
(* lives: whatever start-up, exits and reboots do, the calls see a run of  *)
(* RequestPath.  The argument: each step of Service is a step of           *)
(* RequestPath or leaves its variables alone.                              *)
(***************************************************************************)
EXTENDS Service, OutcomeProofs

(* Start-up and the metrics server touch what calls see only to load a     *)
(* newer configuration or the script.                                      *)
LEMMA StartupOnPath == Startup \/ BindMetrics \/ Reboot => [Next]_vars
<1>1. Load => Reload \/ UNCHANGED vars
    BY DEF Load
<1>2. RegisterScript => Register
    BY DEF RegisterScript
<1>3. ConnectFirst \/ Ping \/ Reconnect \/ GiveUp \/ Bind \/ BindMetrics \/ Reboot
          => UNCHANGED vars
    BY DEF ConnectFirst, Ping, Reconnect, GiveUp, Bind, BindMetrics, Reboot
<1> QED
    BY <1>1, <1>2, <1>3 DEF Startup, Next

(* Calls and faults are those of RequestPath.                              *)
LEMMA RestOnPath ==
    ASSUME \/ Die \/ LoseRedis \/ HotReload
           \/ (ComeBack \/ Restart \/ Stall \/ Resume) /\ UNCHANGED service
           \/ \E r \in Requests : Call(r)
    PROVE  Next
<1>1. CASE Die
    BY <1>1 DEF Die, Next
<1>2. CASE LoseRedis \/ ComeBack \/ Restart \/ Stall \/ Resume
    BY <1>2 DEF LoseRedis, RedisFault, Next
<1>3. CASE HotReload
    BY <1>3 DEF HotReload, Next
<1>4. CASE \E r \in Requests : Call(r)
    BY <1>4 DEF Call, Next
<1> QED
    BY <1>1, <1>2, <1>3, <1>4

(* So every step of the service is one of the request path, or none.       *)
LEMMA ServiceOnPath == [ServiceNext]_allVars => [Next]_vars
<1> SUFFICES ASSUME [ServiceNext]_allVars PROVE [Next]_vars
    OBVIOUS
<1>1. CASE UNCHANGED allVars
    BY <1>1 DEF allVars
<1> QED
    BY <1>1, StartupOnPath, RestOnPath DEF ServiceNext

(* The invariant of the request path holds in every life of the process:   *)
(* permits balance and nobody is charged twice, through any number of      *)
(* crashes, failed starts and reboots.                                     *)
THEOREM InvariantHoldsForService == ServiceSpec => []IInv
<1>1. ServiceInit => IInv
    BY InitIInv DEF ServiceInit
<1>2. IInv /\ [ServiceNext]_allVars => IInv'
    BY ServiceOnPath, NextKeepsIInv
<1> QED
    BY <1>1, <1>2, PTL DEF ServiceSpec

(* The checks of a service that starts, fails, dies and starts again are   *)
(* still atomic ones.                                                      *)
THEOREM ServiceChecksAreLinearizable == ServiceSpec => ChecksAreAtomic
<1>1. ServiceInit => Atomic!Init
    BY InitIsAtomic DEF ServiceInit
<1>2. IInv /\ [ServiceNext]_allVars => [Atomic!Next]_(Atomic!vars)
    BY ServiceOnPath, NextIsAtomic
<1> QED
    BY <1>1, <1>2, InvariantHoldsForService, PTL DEF ServiceSpec, ChecksAreAtomic, Atomic!Spec

(* A check of such a service fails open, and a status call fails, only on  *)
(* an outage, a broken connection or an error of Redis meanwhile, or on an *)
(* expiry too long for SETEX: no start, reload or exit is a cause.         *)
THEOREM ServiceOpensOnlyWhenRedisFails == ServiceSpec => []OpensOnlyOnFault
<1>1. ServiceInit => Orderly /\ OpensOnlyOnFault
    BY InitOrderly, InitOpens DEF ServiceInit
<1>2. IInv /\ Orderly /\ OpensOnlyOnFault /\ [ServiceNext]_allVars
          => Orderly' /\ OpensOnlyOnFault'
    BY ServiceOnPath, NextKeepsOrderly, StepOpens
<1> QED
    BY <1>1, <1>2, InvariantHoldsForService, PTL DEF ServiceSpec

(* Its counters agree in every life of the process.                        *)
THEOREM ServiceCountersStayInAgreement == ServiceSpec => []CountersAgree
<1>1. ServiceInit => Orderly /\ Counted
    BY InitOrderly, InitCounted DEF ServiceInit
<1>2. IInv /\ Orderly /\ Counted /\ [ServiceNext]_allVars => Orderly' /\ Counted'
    BY ServiceOnPath, NextKeepsOrderly, StepCounted
<1>3. IInv /\ Counted => CountersAgree
    BY CountedMeansAgreement
<1> QED
    BY <1>1, <1>2, <1>3, InvariantHoldsForService, PTL DEF ServiceSpec

(* They fall only when the process is replaced, or after a refund, as long *)
(* as all that can be denied stays below the size of the integer counter.  *)
THEOREM ServiceCountersRiseWithoutRefunds ==
    ASSUME NEW m, DenialBound(m), m * Cardinality(Checks) < CounterSize
    PROVE  ServiceSpec => CountersFallOnlyAfterRefund
<1>1. ServiceInit => Orderly /\ Counted /\ DenialsBounded(m)
    BY InitOrderly, InitCounted, InitDenials DEF ServiceInit
<1>2. IInv /\ Orderly /\ Counted /\ DenialsBounded(m) /\ [ServiceNext]_allVars
          => Orderly' /\ Counted' /\ DenialsBounded(m)' /\ [Rises]_metrics
    BY ServiceOnPath, NextKeepsOrderly, StepCounted, StepDenials, StepRises
<1> QED
    BY <1>1, <1>2, InvariantHoldsForService, PTL
       DEF ServiceSpec, CountersFallOnlyAfterRefund, Rises

(* What such a service has admitted on a count, in all its lives together, *)
(* fits the burst of each bucket, once for each life of the data: a crash  *)
(* of the service is worth nothing to its callers.                         *)
THEOREM ServiceAdmitsWithinBurst == ServiceSpec => []AdmittedFits
<1>1. ServiceInit => Orderly /\ Fits
    BY InitOrderly, InitFits DEF ServiceInit
<1>2. IInv /\ Orderly /\ Fits /\ [ServiceNext]_allVars => Orderly' /\ Fits'
    BY ServiceOnPath, NextKeepsOrderly, StepKeepsFits
<1>3. IInv /\ Fits => AdmittedFits
    BY FitsMeansAdmittedFits
<1> QED
    BY <1>1, <1>2, <1>3, InvariantHoldsForService, PTL DEF ServiceSpec

(* Nor is a check of it refused without a cause, whichever lives of the    *)
(* process charged the others.                                             *)
THEOREM ServiceRefusesForCause == ServiceSpec => []RefusedForCause
<1>1. ServiceInit => Orderly /\ Caused
    BY InitOrderly, InitCaused DEF ServiceInit
<1>2. IInv /\ Orderly /\ Caused /\ [ServiceNext]_allVars => Orderly' /\ Caused'
    BY ServiceOnPath, NextKeepsOrderly, StepKeepsCaused
<1>3. IInv /\ Caused => RefusedForCause
    BY CausedMeansRefusedForCause
<1> QED
    BY <1>1, <1>2, <1>3, InvariantHoldsForService, PTL DEF ServiceSpec

(* Only a Redis that has lost its data answers NOSCRIPT to a service that  *)
(* serves: start-up binds the port after the script is loaded, and nothing *)
(* else takes the script away.                                             *)
THEOREM ServesWithScript == ServiceSpec => []ScriptIsLoaded
<1>1. ServiceInit => ScriptIsLoaded
    BY DEF ServiceInit, ScriptIsLoaded
<1>2. IInv /\ ScriptIsLoaded /\ [ServiceNext]_allVars => ScriptIsLoaded'
  <2> SUFFICES ASSUME IInv, ScriptIsLoaded, [ServiceNext]_allVars PROVE ScriptIsLoaded'
    OBVIOUS
  <2>1. losses \in Nat
    BY DEF IInv, TypeOK
  <2>2. CASE RegisterScript
    BY <2>2 DEF RegisterScript, Register, ScriptIsLoaded
  <2>3. CASE Restart
    BY <2>1, <2>3 DEF Restart, ScriptIsLoaded
  <2>4. CASE ~RegisterScript /\ ~Restart
    <3>1. losses' = losses /\ (cached' = cached \/ cached' = TRUE)
      <4>1. [Next]_vars
        BY ServiceOnPath
      <4>2. ASSUME NEW r \in Requests,
                   Arrive(r) \/ Task(r) \/ Cancel(r) \/ Server(r) \/ LoseCommand(r)
            PROVE  losses' = losses /\ (cached' = cached \/ cached' = TRUE)
        BY <4>2 DEF Arrive, Task, Acquire, Connect, Answer, Fail, Cancel, Server, Execute,
                    Raise, NoScript, LoadScript, ReadBucket, LoseCommand, redisVars
      <4>4. ASSUME NEW r \in Requests, Reset(r) \/ Refuse(r)
            PROVE  losses' = losses /\ cached' = cached
        BY <4>4, RefuseTells DEF Reset
      <4>3. CASE Reload \/ RedisFault \/ Register \/ Crash
        BY <2>4, <4>3 DEF Reload, RedisFault, GoDown, ComeBack, Stall, Resume, Register, Crash,
                          redisVars
      <4> QED
        BY <4>1, <4>2, <4>3, <4>4 DEF Next, vars, redisVars
    <3>2. main' \in {"binding", "serving"} => main \in {"binding", "serving"}
        BY <2>4 DEF ServiceNext, Startup, Load, ConnectFirst, Ping, Reconnect, GiveUp, Bind,
                    BindMetrics, Reboot, Die, LoseRedis, HotReload, Call, Exit, GoOn, service,
                    allVars
    <3> QED
        BY <3>1, <3>2 DEF ScriptIsLoaded
  <2> QED
    BY <2>2, <2>3, <2>4
<1> QED
    BY <1>1, <1>2, InvariantHoldsForService, PTL DEF ServiceSpec
=============================================================================
