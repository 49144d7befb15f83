------------------------ MODULE ConfigWatcherProofs ------------------------
(***************************************************************************)
(* Reloading never loses an edit it has been told of and never goes back,  *)
(* and every request finds the policies in force, all of them usable: for  *)
(* any documents, queries, hazards, edits and errors of notify.            *)
(*                                                                         *)
(* The argument.  An edit that raises an event puts it in the queue of the *)
(* kernel; it leaves the queue for the channel and the channel for a Read, *)
(* which looks at the file only then.  So while the file is newer than     *)
(* what was found, an event is in the queue, in the channel or about to be *)
(* acted upon.  Versions only grow because what is stored is what was read *)
(* last, and what is read is what the file holds.                          *)
(*                                                                         *)
(* The cache is always that of a version that loaded, so all its policies  *)
(* are fit to serve; and the map built by inserting one entry of the file  *)
(* after another is, on every set of positions, the table of the last      *)
(* entry for each key: the same recursion determines both.                 *)
(***************************************************************************)
EXTENDS ConfigWatcher, FiniteLemmas, SequenceTheorems

-----------------------------------------------------------------------------
(* Events in queues.                                                       *)

(* An event more.                                                          *)
LEMMA ComingAppend ==
    ASSUME NEW q \in Seq(Events), NEW e \in Events
    PROVE  /\ Append(q, e) \in Seq(Events)
           /\ Coming(Append(q, e)) <=> Coming(q) \/ should_reload(e)
<1>1. /\ Append(q, e) \in Seq(Events)
      /\ Len(Append(q, e)) = Len(q) + 1
      /\ \A i \in 1 .. Len(q) : Append(q, e)[i] = q[i]
      /\ Append(q, e)[Len(q) + 1] = e
    BY AppendProperties
<1>2. DOMAIN q = 1 .. Len(q) /\ DOMAIN Append(q, e) = 1 .. (Len(q) + 1) /\ Len(q) \in Nat
    BY <1>1, LenProperties
<1> QED
    BY <1>1, <1>2 DEF Coming

(* An event less.                                                          *)
LEMMA ComingTail ==
    ASSUME NEW q \in Seq(Events), q # <<>>
    PROVE  /\ Head(q) \in Events /\ Tail(q) \in Seq(Events)
           /\ Len(Tail(q)) = Len(q) - 1
           /\ Coming(q) <=> should_reload(Head(q)) \/ Coming(Tail(q))
<1>1. /\ Head(q) \in Events /\ Head(q) = q[1]
      /\ Tail(q) \in Seq(Events) /\ Len(Tail(q)) = Len(q) - 1
      /\ \A i \in 1 .. (Len(q) - 1) : Tail(q)[i] = q[i + 1]
    BY HeadTailProperties
<1>2. /\ DOMAIN q = 1 .. Len(q) /\ DOMAIN Tail(q) = 1 .. (Len(q) - 1)
      /\ Len(q) \in Nat \ {0}
    BY <1>1, LenProperties, EmptySeq
<1>3. ASSUME NEW i \in 1 .. Len(q)
      PROVE  i = 1 \/ (i - 1 \in 1 .. (Len(q) - 1) /\ q[i] = Tail(q)[i - 1])
  <2>1. \A n \in Nat \ {0} : \A k \in 1 .. n : k # 1 => k - 1 \in 1 .. (n - 1) /\ (k - 1) + 1 = k
    OBVIOUS
  <2>2. i # 1 => i - 1 \in 1 .. (Len(q) - 1) /\ (i - 1) + 1 = i
    BY <1>2, <2>1
  <2> QED
    BY <1>1, <2>2
<1>4. ASSUME NEW i \in 1 .. (Len(q) - 1)
      PROVE  i + 1 \in 1 .. Len(q) /\ Tail(q)[i] = q[i + 1]
    BY <1>1, <1>2
<1>5. ASSUME Coming(q) PROVE should_reload(Head(q)) \/ Coming(Tail(q))
    BY <1>1, <1>2, <1>3, <1>5 DEF Coming
<1>6. ASSUME Coming(Tail(q)) PROVE Coming(q)
    BY <1>2, <1>4, <1>6 DEF Coming
<1>7. ASSUME should_reload(Head(q)) PROVE Coming(q)
  <2>1. 1 \in DOMAIN q
    BY <1>2
  <2> QED
    BY <1>1, <1>7, <2>1 DEF Coming
<1> QED
    BY <1>1, <1>5, <1>6, <1>7

(* inotify merges equal events and loses none.                             *)
LEMMA ComingPost ==
    ASSUME NEW q \in Seq(Events), NEW e \in Events
    PROVE  /\ Post(q, e) \in Seq(Events)
           /\ Coming(Post(q, e)) <=> Coming(q) \/ should_reload(e)
<1>1. CASE q # <<>> /\ Last(q) = e
  <2>1. Len(q) \in DOMAIN q
    BY <1>1, LenProperties, EmptySeq
  <2> QED
    BY <1>1, <2>1 DEF Post, Last, Coming
<1>2. CASE ~(q # <<>> /\ Last(q) = e)
    BY <1>2, ComingAppend DEF Post
<1> QED
    BY <1>1, <1>2
-----------------------------------------------------------------------------
(* Configurations.                                                         *)

(* The bounds are numbers.                                                 *)
LEMMA Bounds == MaxEdits \in Nat /\ MaxErrors \in Nat
BY ConfigWatcherAssumption

(* So is everything bounded by them.                                       *)
LEMMA Numbers ==
    ASSUME TypeOK
    PROVE  cache.no \in Int /\ found.no \in Int /\ file.no \in Int /\ errors \in Int
BY Bounds DEF TypeOK, Versions

(* A document that loads is one.                                           *)
LEMMA FitDocument ==
    ASSUME NEW doc \in Documents, LoadError(doc) = NoError
    PROVE  /\ doc \in Document
           /\ doc = [domains |-> doc.domains, default |-> doc.default]
           /\ DomainCount(doc) \in Nat
<1>1. doc \notin {Missing, Malformed}
    BY DEF LoadError, NoError
<1>2. doc \in Document
    BY <1>1, ConfigWatcherAssumption
<1>3. doc.domains \in Seq(DomainConfig) /\ doc = [domains |-> doc.domains, default |-> doc.default]
    BY <1>2 DEF Document
<1>4. Len(doc.domains) \in Nat
    BY <1>3, LenProperties
<1> QED
    BY <1>2, <1>3, <1>4 DEF DomainCount

(* Its cache keeps its number and its domains, and is never that of no     *)
(* document.                                                               *)
LEMMA FitCache ==
    ASSUME NEW v \in Versions, LoadError(v.doc) = NoError
    PROVE  /\ CacheOf(v).no = v.no
           /\ Len(CacheOf(v).full_config.domains) = DomainCount(v.doc)
           /\ CacheOf(v) # NoCache
<1>1. v.doc \in Documents
    BY DEF Versions
<1>2. v.doc = [domains |-> v.doc.domains, default |-> v.doc.default]
    BY <1>1, FitDocument
<1>3. CacheOf(v).no = v.no /\ CacheOf(v).full_config = RateLimitConfig(v.doc)
    BY DEF CacheOf, Cached
<1>4. /\ RateLimitConfig(v.doc).domains = v.doc.domains
      /\ DOMAIN RateLimitConfig(v.doc) = {"domains", "default"}
    BY <1>2 DEF RateLimitConfig
<1>5. DOMAIN NoCache.full_config = {}
    BY EmptySeq DEF NoCache
<1>6. CacheOf(v) # NoCache
    BY <1>3, <1>4, <1>5
<1> QED
    BY <1>3, <1>4, <1>6 DEF DomainCount

-----------------------------------------------------------------------------
(* The actions.                                                            *)

(* Before main has loaded anything there is nothing to keep in step.       *)
LEMMA InitIInv == Init => IInv
<1> SUFFICES ASSUME Init PROVE IInv
    OBVIOUS
<1>1. <<>> \in Seq(Events) /\ Len(<<>>) = 0
    BY EmptySeq
<1>2. file \in Versions /\ found = file /\ file.no = 0
  <2>1. PICK doc \in Documents : file = Version(0, doc)
    BY DEF Init
  <2> QED
    BY <2>1, Bounds DEF Init, Version, Versions
<1>3. cache.no = 0
    BY DEF Init, NoCache
<1>4. TypeOK
  <2>1. /\ pending = <<>> /\ channel = <<>> /\ attached = FALSE /\ seen = FALSE
        /\ phase = "loading" /\ active_domains = 0 /\ errors = 0
        /\ reloads = [success |-> 0, error |-> 0]
    BY DEF Init
  <2>2. 0 \in 0 .. MaxEdits /\ 0 \in 0 .. MaxErrors
    BY Bounds
  <2>3. cache.no \in 0 .. MaxEdits /\ errors \in 0 .. MaxErrors
    BY <1>3, <2>1, <2>2
  <2>4. /\ pending \in Seq(Events)
        /\ channel \in Seq(Events) /\ Len(channel) <= ChannelCapacity
    BY <1>1, <2>1 DEF ChannelCapacity
  <2>5. reloads \in [success : Nat, error : Nat] /\ active_domains \in Nat
    BY <2>1
  <2>6. /\ attached \in BOOLEAN /\ seen \in BOOLEAN
        /\ phase \in {"loading", "exited", "spawned", "deaf", "idle", "reading", "storing"}
    BY <2>1
  <2>7. found \in Versions
    BY <1>2
  <2> QED
    BY <1>2, <2>3, <2>4, <2>5, <2>6, <2>7 DEF TypeOK
<1>5. InStep
    BY <1>2, <1>3 DEF Init, InStep, Watching
<1> QED
    BY <1>4, <1>5 DEF IInv, Init, NothingMissed, Watching

(* main serves what the file holds, or exits.                              *)
LEMMA LoadStep == IInv /\ Load => IInv'
<1> SUFFICES ASSUME IInv, Load PROVE IInv'
    OBVIOUS
<1>1. file \in Versions /\ file.doc \in Documents /\ file.no \in 0 .. MaxEdits
    BY DEF IInv, TypeOK, Versions
<1>2. CASE LoadError(file.doc) = NoError
  <2>1. /\ phase' = "spawned" /\ cache' = CacheOf(file) /\ found' = file
        /\ active_domains' = DomainCount(file.doc)
    BY <1>2 DEF Load
  <2>2. cache'.no = file.no /\ active_domains' \in Nat
    BY <1>1, <1>2, <2>1, FitCache, FitDocument
  <2>3. TypeOK'
    BY <1>1, <2>1, <2>2 DEF IInv, TypeOK, Load
  <2>4. InStep'
    BY <1>1, <1>2, <2>1, <2>2, FitCache DEF IInv, InStep, Watching, Load
  <2> QED
    BY <2>1, <2>3, <2>4 DEF IInv, NothingMissed, Watching
<1>3. CASE LoadError(file.doc) # NoError
  <2>1. phase' = "exited" /\ found' = file /\ UNCHANGED << file, cache, active_domains >>
    BY <1>3 DEF Load
  <2>2. TypeOK'
    BY <1>1, <2>1 DEF IInv, TypeOK, Load
  <2>3. cache'.no <= found'.no /\ found'.no <= file'.no
    BY <1>1, <2>1, Bounds, Numbers DEF IInv, TypeOK, InStep, Versions
  <2>4. InStep'
    BY <2>1, <2>3 DEF IInv, InStep, Watching, Load
  <2> QED
    BY <2>1, <2>2, <2>4 DEF IInv, NothingMissed, Watching
<1> QED
    BY <1>2, <1>3

(* The watch begins; an edit before it has not been seen.                  *)
LEMMA WatchStep == IInv /\ Watch => IInv'
<1> SUFFICES ASSUME IInv, Watch PROVE IInv'
    OBVIOUS
<1>1. TypeOK'
    BY DEF IInv, TypeOK, Watch
<1>2. InStep'
    BY DEF IInv, InStep, Watching, Watch
<1>3. NothingMissed'
    BY DEF IInv, InStep, NothingMissed, Watching, Watch
<1> QED
    BY <1>1, <1>2, <1>3 DEF IInv

(* An event goes from the queue to the channel.                            *)
LEMMA DeliverStep == IInv /\ Deliver => IInv'
<1> SUFFICES ASSUME IInv, Deliver PROVE IInv'
    OBVIOUS
<1>1. pending \in Seq(Events) /\ channel \in Seq(Events) /\ pending # <<>>
    BY DEF IInv, TypeOK, Deliver
<1>2. Head(pending) \in Events
    BY <1>1, ComingTail
<1>3. /\ pending' \in Seq(Events) /\ channel' \in Seq(Events)
      /\ Coming(pending) => should_reload(Head(pending)) \/ Coming(pending')
      /\ Coming(channel) \/ should_reload(Head(pending)) => Coming(channel')
    BY <1>1, <1>2, ComingTail, ComingAppend DEF Deliver
<1>4. Len(channel') <= ChannelCapacity
  <2>1. Len(channel') = Len(channel) + 1
    BY <1>1, <1>2, AppendProperties DEF Deliver
  <2> QED
    BY <1>1, <2>1, LenProperties DEF Deliver, ChannelCapacity
<1>5. TypeOK'
    BY <1>3, <1>4 DEF IInv, TypeOK, Deliver
<1>6. InStep'
    BY DEF IInv, InStep, Watching, Deliver
<1>7. NothingMissed'
    BY <1>3 DEF IInv, NothingMissed, Watching, Deliver
<1> QED
    BY <1>5, <1>6, <1>7 DEF IInv

(* An event out of the channel makes the task read, if it should.          *)
LEMMA ReceiveStep == IInv /\ Receive => IInv'
<1> SUFFICES ASSUME IInv, Receive PROVE IInv'
    OBVIOUS
<1>1. channel \in Seq(Events) /\ channel # <<>>
    BY DEF IInv, TypeOK, Receive
<1>2. /\ channel' \in Seq(Events) /\ Len(channel') = Len(channel) - 1
      /\ Coming(channel) => should_reload(Head(channel)) \/ Coming(channel')
    BY <1>1, ComingTail DEF Receive
<1>3. phase = "idle" /\ phase' = IF should_reload(Head(channel)) THEN "reading" ELSE "idle"
    BY DEF Receive
<1>4. Len(channel') <= ChannelCapacity
    BY <1>1, <1>2, LenProperties DEF IInv, TypeOK, ChannelCapacity
<1>5. reloads' \in [success : Nat, error : Nat]
    BY DEF IInv, TypeOK, Receive
<1>6. TypeOK'
    BY <1>2, <1>3, <1>4, <1>5 DEF IInv, TypeOK, Receive
<1>7. InStep'
    BY <1>3 DEF IInv, InStep, Watching, Receive
<1>8. NothingMissed'
    BY <1>2, <1>3 DEF IInv, NothingMissed, Watching, Receive
<1> QED
    BY <1>6, <1>7, <1>8 DEF IInv

(* The task reads what the file holds now; nothing older can be missing.   *)
LEMMA ReadStep == IInv /\ Read => IInv'
<1> SUFFICES ASSUME IInv, Read PROVE IInv'
    OBVIOUS
<1>1. /\ file \in Versions /\ file.doc \in Documents
      /\ pending \in Seq(Events) /\ "open" \in Events
    BY DEF IInv, TypeOK, Versions, Events
<1>2. pending' \in Seq(Events)
    BY <1>1, ComingPost DEF Read
<1>3. found' = file /\ file' = file /\ cache' = cache
    BY DEF Read
<1>4. \/ /\ LoadError(file.doc) = NoError /\ phase' = "storing"
         /\ active_domains' = DomainCount(file.doc) /\ reloads' = reloads
      \/ /\ LoadError(file.doc) # NoError /\ phase' = "idle"
         /\ active_domains' = active_domains
         /\ reloads' = reloads \/ reloads' = [reloads EXCEPT !.error = @ + 1]
    BY DEF Read
<1>5. active_domains' \in Nat /\ reloads' \in [success : Nat, error : Nat]
    BY <1>1, <1>4, FitDocument DEF IInv, TypeOK
<1>6. TypeOK'
    BY <1>1, <1>2, <1>3, <1>4, <1>5 DEF IInv, TypeOK, Read
<1>7. cache'.no <= found'.no /\ found'.no <= file'.no
    BY <1>3, <1>1, Bounds, Numbers DEF IInv, TypeOK, InStep, Versions
<1>8. InStep'
    BY <1>3, <1>4, <1>7 DEF IInv, InStep, Watching, Read
<1> QED
    BY <1>3, <1>6, <1>8 DEF IInv, NothingMissed

(* What was read last is served.                                           *)
LEMMA StoreStep == IInv /\ Store => IInv'
<1> SUFFICES ASSUME IInv, Store PROVE IInv'
    OBVIOUS
<1>1. found \in Versions /\ found.no \in 0 .. MaxEdits /\ LoadError(found.doc) = NoError
    BY DEF IInv, TypeOK, InStep, Versions, Store
<1>2. /\ cache' = CacheOf(found) /\ cache'.no = found.no
      /\ Len(cache'.full_config.domains) = DomainCount(found.doc)
    BY <1>1, FitCache DEF Store
<1>3. TypeOK'
    BY <1>1, <1>2 DEF IInv, TypeOK, Store
<1>4. InStep'
    BY <1>1, <1>2 DEF IInv, InStep, Watching, Store
<1>5. NothingMissed'
    BY DEF IInv, NothingMissed, Watching, Store
<1> QED
    BY <1>3, <1>4, <1>5 DEF IInv

(* An edit: with an event if the file is the one watched, unseen if not.   *)
LEMMA EditStep ==
    ASSUME NEW doc \in Documents, IInv, Write(doc) \/ Replace(doc)
    PROVE  IInv'
<1>1. pending \in Seq(Events) /\ {"modify", "metadata", "remove"} \subseteq Events
    BY DEF IInv, TypeOK, Events
<1>2. should_reload("modify") /\ should_reload("metadata")
    BY DEF should_reload
<1>3. pending' \in Seq(Events) /\ (attached => Coming(pending'))
  <2>1. CASE Write(doc)
    BY <1>1, <1>2, <2>1, ComingPost DEF Write
  <2>2. CASE Replace(doc)
    <3>1. /\ Post(pending, "metadata") \in Seq(Events)
          /\ Coming(Post(pending, "metadata"))
      BY <1>1, <1>2, ComingPost
    <3>2. /\ Post(Post(pending, "metadata"), "remove") \in Seq(Events)
          /\ Coming(Post(Post(pending, "metadata"), "remove"))
      BY <1>1, <3>1, ComingPost
    <3> QED
      BY <1>1, <2>2, <3>2 DEF Replace
  <2> QED
    BY <2>1, <2>2
<1>4. file.no \in 0 .. MaxEdits /\ file.no < MaxEdits /\ found.no \in 0 .. MaxEdits
    BY DEF IInv, TypeOK, Versions, Write, Replace, Editable
<1>5. file' = [no |-> file.no + 1, doc |-> doc] /\ file' \in Versions
    BY <1>4, Bounds DEF Write, Replace, Version, Versions
<1>6. /\ seen' = attached /\ attached' \in BOOLEAN /\ (attached' => attached)
      /\ UNCHANGED << channel, phase, found, cache, active_domains, reloads, errors >>
  <2>1. attached \in BOOLEAN
    BY DEF IInv, TypeOK
  <2>2. CASE Write(doc)
    BY <2>1, <2>2 DEF Write
  <2>3. CASE Replace(doc)
    BY <2>1, <2>3 DEF Replace
  <2> QED
    BY <2>2, <2>3
<1>7. TypeOK'
    BY <1>3, <1>5, <1>6 DEF IInv, TypeOK
<1>8. found'.no <= file'.no
    BY <1>4, <1>5, <1>6, Bounds, Numbers DEF IInv, InStep
<1>9. InStep'
    BY <1>6, <1>8 DEF IInv, InStep, Watching
<1>10. NothingMissed'
    BY <1>3, <1>6 DEF NothingMissed
<1> QED
    BY <1>7, <1>9, <1>10 DEF IInv

(* An error joins the queue.                                               *)
LEMMA NotifyFailsStep == IInv /\ NotifyFails => IInv'
<1> SUFFICES ASSUME IInv, NotifyFails PROVE IInv'
    OBVIOUS
<1>1. pending \in Seq(Events) /\ "error" \in Events
    BY DEF IInv, TypeOK, Events
<1>2. pending' \in Seq(Events) /\ (Coming(pending) => Coming(pending'))
    BY <1>1, ComingAppend DEF NotifyFails
<1>3. errors' \in 0 .. MaxErrors
    BY Bounds, Numbers DEF IInv, TypeOK, NotifyFails
<1>4. TypeOK'
    BY <1>2, <1>3 DEF IInv, TypeOK, NotifyFails
<1>5. InStep' /\ NothingMissed'
    BY <1>2 DEF IInv, InStep, NothingMissed, Watching, NotifyFails
<1> QED
    BY <1>4, <1>5 DEF IInv

(* Every step keeps the invariant.                                         *)
LEMMA NextKeepsIInv == IInv /\ [Next]_vars => IInv'
<1> SUFFICES ASSUME IInv, [Next]_vars PROVE IInv'
    OBVIOUS
<1>1. CASE UNCHANGED vars
    BY <1>1 DEF IInv, TypeOK, InStep, NothingMissed, Watching, vars
<1>2. CASE Next
    BY <1>2, LoadStep, WatchStep, DeliverStep, ReceiveStep, ReadStep, StoreStep, EditStep,
       NotifyFailsStep DEF Next, Main, Watcher, Editor
<1> QED
    BY <1>1, <1>2

-----------------------------------------------------------------------------
(* The invariant of the watcher, for any documents, edits and errors.      *)
THEOREM InvariantHolds == Spec => []IInv
<1>1. Init => IInv
    BY InitIInv
<1>2. IInv /\ [Next]_vars => IInv'
    BY NextKeepsIInv
<1> QED
    BY <1>1, <1>2, PTL DEF Spec

(* The variables of the watcher keep their types.                          *)
THEOREM TypeCorrect == Spec => []TypeOK
<1>1. IInv => TypeOK
    BY DEF IInv
<1> QED
    BY <1>1, InvariantHolds, PTL

(* No edit that raised an event is lost between the kernel, notify's       *)
(* thread, the channel and the task.                                       *)
THEOREM NoEditIsLost == Spec => []NothingMissed
<1>1. IInv => NothingMissed
    BY DEF IInv
<1> QED
    BY <1>1, InvariantHolds, PTL

(* Between reloads the cache is that of the version read last, if it was   *)
(* fit to serve, and the gauge is right.                                   *)
THEOREM CacheSettles == Spec => []Settled
<1>1. IInv => Settled
    BY DEF IInv, InStep, Settled
<1> QED
    BY <1>1, InvariantHolds, PTL

(* The service never returns to an older configuration, and never to none. *)
THEOREM VersionsOnlyGrow == Spec => NeverGoesBack
<1>1. IInv /\ IInv' /\ [Next]_vars => [cache'.no >= cache.no /\ cache' # NoCache]_cache
  <2> SUFFICES ASSUME IInv, [Next]_vars, cache' # cache
               PROVE  cache'.no >= cache.no /\ cache' # NoCache
    OBVIOUS
  <2>1. \/ Load /\ LoadError(file.doc) = NoError /\ cache' = CacheOf(file)
        \/ Store /\ cache' = CacheOf(found)
    BY DEF vars, Next, Main, Watcher, Editor, Load, Watch, Deliver, Receive, Read, Store,
           Write, Replace, NotifyFails
  <2>2. /\ file \in Versions /\ found \in Versions
        /\ cache.no <= found.no /\ found.no <= file.no
        /\ cache.no \in Int /\ found.no \in Int /\ file.no \in Int
    BY Bounds, Numbers DEF IInv, TypeOK, InStep, Versions
  <2>3. Store => LoadError(found.doc) = NoError
    BY DEF IInv, InStep, Store
  <2> QED
    BY <2>1, <2>2, <2>3, FitCache
<1> QED
    BY <1>1, InvariantHolds, PTL DEF Spec, NeverGoesBack

-----------------------------------------------------------------------------
(* What validation lets through.                                           *)

(* The policies of a DomainConfig that is fit: some, and all usable.       *)
Usable(policies) ==
    /\ policies # <<>>
    /\ \A i \in DOMAIN policies : policies[i].flow > 0 /\ policies[i].burst > 0

(* They are, in an entry that validation lets through.                     *)
LEMMA FitDomain ==
    ASSUME NEW d \in DomainConfig, DomainError(d) = NoError
    PROVE  Usable(d.policies)
<1>1. d.policies \in Seq(RatePolicy)
    BY DEF DomainConfig
<1>2. d.policies # <<>> /\ \A i \in DOMAIN d.policies : ~InvalidRate(d.policies[i])
    BY DEF DomainError, NoError
<1>3. ASSUME NEW i \in DOMAIN d.policies
      PROVE  d.policies[i].flow \in Int /\ d.policies[i].burst \in Int
  <2>1. d.policies[i] \in RatePolicy
      BY <1>1, ElementOfSeq, LenProperties
  <2> QED
      BY <2>1 DEF RatePolicy
<1>4. ASSUME NEW i \in DOMAIN d.policies
      PROVE  d.policies[i].flow > 0 /\ d.policies[i].burst > 0
  <2>1. ~(d.policies[i].flow <= 0) /\ ~(d.policies[i].burst <= 0)
      BY <1>2 DEF InvalidRate
  <2> QED
      BY <1>3, <2>1
<1> QED
    BY <1>2, <1>4 DEF Usable

(* So are those of default_rate_policy.                                    *)
LEMMA DefaultFits == Usable(DefaultRatePolicy.policies)
<1> DEFINE a == [name |-> "per_second", flow |-> 600, burst |-> 100]
           b == [name |-> "per_minute", flow |-> 100, burst |-> 1000]
<1>1. DefaultRatePolicy.policies = << a, b >>
    BY DEF DefaultRatePolicy
<1>2. a.flow > 0 /\ a.burst > 0 /\ b.flow > 0 /\ b.burst > 0
    OBVIOUS
<1> HIDE DEF a, b
<1>3. << a, b >> # <<>> /\ \A i \in DOMAIN << a, b >> : << a, b >>[i] \in {a, b}
    OBVIOUS
<1> QED
    BY <1>1, <1>2, <1>3 DEF Usable

(* What is served of a document that loads.                                *)
LEMMA FitConfig ==
    ASSUME NEW doc \in Documents, LoadError(doc) = NoError, NEW cfg, cfg = RateLimitConfig(doc)
    PROVE  /\ cfg.domains \in Seq(DomainConfig)
           /\ \A i \in DOMAIN cfg.domains : Usable(cfg.domains[i].policies)
           /\ Usable(cfg.default.policies)
<1>1. doc \in Document /\ doc = [domains |-> doc.domains, default |-> doc.default]
    BY FitDocument
<1>2. /\ cfg.domains = doc.domains
      /\ cfg.default = IF doc.default = Absent THEN DefaultRatePolicy ELSE doc.default
    BY <1>1 DEF RateLimitConfig
<1> DEFINE Entry == DomainConfig \cup {DefaultRatePolicy}
<1>3. /\ cfg.domains \in Seq(DomainConfig) /\ cfg.domains \in Seq(Entry)
      /\ cfg.default \in Entry
      /\ cfg.default \in DomainConfig \/ cfg.default = DefaultRatePolicy
    BY <1>1, <1>2 DEF Document
<1>4. ConfigError(cfg) = NoError
    BY DEF LoadError, NoError
<1> DEFINE entries == Append(cfg.domains, cfg.default)
           wrong == {i \in DOMAIN entries : DomainError(entries[i]) # NoError}
           n == Len(cfg.domains)
<1>5. /\ n \in Nat /\ DOMAIN cfg.domains = 1 .. n
      /\ DOMAIN entries = 1 .. (n + 1)
      /\ \A i \in 1 .. n : entries[i] = cfg.domains[i]
      /\ entries[n + 1] = cfg.default
    BY <1>3, LenProperties, AppendProperties
<1>6. wrong = {}
  <2> SUFFICES ASSUME wrong # {} PROVE FALSE
      OBVIOUS
  <2>1. IsFiniteSet(wrong) /\ wrong \subseteq Int
    <3> HIDE DEF entries, n
    <3>1. wrong \subseteq 1 .. (n + 1) /\ 1 \in Int /\ n + 1 \in Int
        BY <1>5
    <3> HIDE DEF wrong
    <3>2. IsFiniteSet(1 .. (n + 1)) /\ 1 .. (n + 1) \subseteq Int
        BY <3>1, FS_Interval
    <3> QED
        BY <3>1, <3>2, FS_Subset
  <2>2. ConfigError(cfg) = DomainError(entries[Min(wrong)])
      BY DEF ConfigError
  <2>3. \A i \in wrong : DomainError(entries[i]) # NoError
      OBVIOUS
  <2> HIDE DEF entries, wrong
  <2>4. Min(wrong) \in wrong
      BY <2>1, MinOfFinite
  <2> QED
      BY <1>4, <2>2, <2>3, <2>4
<1>7. \A i \in 1 .. (n + 1) : DomainError(entries[i]) = NoError
    BY <1>5, <1>6
<1> HIDE DEF entries, wrong, n
<1>8. DomainError(cfg.default) = NoError
    BY <1>5, <1>7
<1>9. \A i \in DOMAIN cfg.domains :
          cfg.domains[i] \in DomainConfig /\ DomainError(cfg.domains[i]) = NoError
  <2>1. ASSUME NEW i \in DOMAIN cfg.domains
        PROVE  DomainError(cfg.domains[i]) = NoError
      BY <1>5, <1>7
  <2>2. ASSUME NEW i \in DOMAIN cfg.domains
        PROVE  cfg.domains[i] \in DomainConfig
      BY <1>3, ElementOfSeq, LenProperties
  <2> QED
      BY <2>1, <2>2
<1> QED
    BY <1>3, <1>8, <1>9, FitDomain, DefaultFits

-----------------------------------------------------------------------------
(* The lookup table.                                                       *)

(* The fold that builds it, entry by entry of the file.                    *)
Builds(g, d) ==
    g = [s \in SUBSET DOMAIN d |-> IF s = {} THEN <<>> ELSE Insert(g[s \ {Max(s)}], d[Max(s)])]

(* FoldLeft is by definition one such function, of all the positions.      *)
LEMMA FoldBuilds ==
    \A d : FoldLeft(Insert, <<>>, d) = (CHOOSE g : Builds(g, d))[DOMAIN d]
BY Zenon DEF FoldLeft, MapThenFoldSet, Builds

(* What it comes to: for each key, the policies of its last entry.         *)
Entries(d, s, k) == {j \in s : Key(d[j]) = k}

Table(d) == [s \in SUBSET DOMAIN d |->
                [k \in {Key(d[j]) : j \in s} |-> d[Max(Entries(d, s, k))].policies]]

(* Some positions of a list, and the last of them.                         *)
LEMMA Positions ==
    ASSUME NEW d, NEW n \in Nat, DOMAIN d = 1 .. n, NEW s \in SUBSET DOMAIN d, s # {}
    PROVE  s \subseteq Int /\ IsFiniteSet(s) /\ Max(s) \in s /\ \A x \in s : x <= Max(s)
<1>1. s \subseteq Int /\ IsFiniteSet(s)
    BY FS_Interval, FS_Subset
<1> QED
    BY <1>1, MaxOfFinite

(* A later entry for a key takes the place of an earlier one.              *)
LEMMA TableBuilds ==
    ASSUME NEW d, NEW n \in Nat, DOMAIN d = 1 .. n
    PROVE  Builds(Table(d), d)
<1> DEFINE T == Table(d)
<1>1. ASSUME NEW s \in SUBSET DOMAIN d, s = {}
      PROVE  T[s] = <<>>
  <2>1. T[s] = [k \in {} |-> d[Max(Entries(d, s, k))].policies]
      BY <1>1 DEF Table
  <2> QED
      BY <2>1
<1>2. ASSUME NEW s \in SUBSET DOMAIN d, s # {}
      PROVE  T[s] = Insert(T[s \ {Max(s)}], d[Max(s)])
  <2> DEFINE m == Max(s)
             r == s \ {m}
             e == d[m]
  <2>1. m \in s /\ s \subseteq Int /\ (\A x \in s : x <= m) /\ r \in SUBSET DOMAIN d
      BY <1>2, Positions
  <2> HIDE DEF m
  <2>2. /\ DOMAIN T[s] = {Key(d[j]) : j \in s}
        /\ DOMAIN T[r] = {Key(d[j]) : j \in r}
      BY <2>1 DEF Table
  <2>3. DOMAIN T[s] = DOMAIN T[r] \cup {Key(e)}
      BY <2>1, <2>2
  <2>4. ASSUME NEW k \in DOMAIN T[s]
        PROVE  T[s][k] = IF k = Key(e) THEN e.policies ELSE T[r][k]
    <3>1. T[s][k] = d[Max(Entries(d, s, k))].policies
        BY <2>2, <2>4 DEF Table
    <3>2. CASE k = Key(e)
      <4>1. m \in Entries(d, s, k) /\ Entries(d, s, k) \subseteq s
          BY <2>1, <3>2 DEF Entries
      <4>2. Max(Entries(d, s, k)) = m
          BY <2>1, <4>1, MaxIs
      <4> QED
          BY <3>1, <3>2, <4>2
    <3>3. CASE k # Key(e)
      <4>1. Entries(d, s, k) = Entries(d, r, k)
          BY <3>3 DEF Entries
      <4>2. k \in {Key(d[j]) : j \in r}
          BY <2>2, <2>3, <2>4, <3>3
      <4>3. T[r][k] = d[Max(Entries(d, r, k))].policies
          BY <2>1, <4>2 DEF Table
      <4> QED
          BY <3>1, <3>3, <4>1, <4>3
    <3> QED
        BY <3>2, <3>3
  <2>5. T[s] = [k \in DOMAIN T[s] |-> T[s][k]]
    <3>1. T[s] = [k \in {Key(d[j]) : j \in s} |-> d[Max(Entries(d, s, k))].policies]
        BY DEF Table
    <3> QED
        BY <3>1
  <2> HIDE DEF T, r, e
  <2>6. T[s] = [k \in DOMAIN T[r] \cup {Key(e)} |-> IF k = Key(e) THEN e.policies ELSE T[r][k]]
      BY <2>3, <2>4, <2>5
  <2>7. T[s] = Insert(T[r], e)
      BY <2>6 DEF Insert
  <2> QED
      BY <2>7 DEF r, e, m
<1>3. T = [s \in SUBSET DOMAIN d |-> T[s]]
    BY DEF Table
<1> HIDE DEF T
<1>4. T = [s \in SUBSET DOMAIN d |-> IF s = {} THEN <<>> ELSE Insert(T[s \ {Max(s)}], d[Max(s)])]
    BY <1>1, <1>2, <1>3
<1> QED
    BY <1>4 DEF Builds, T

(* There is only one such fold.                                            *)
LEMMA BuildsAgree ==
    ASSUME NEW d, NEW n \in Nat, DOMAIN d = 1 .. n, NEW g, NEW h, Builds(g, d), Builds(h, d)
    PROVE  g[DOMAIN d] = h[DOMAIN d]
<1> DEFINE D == DOMAIN d
           Bad == {s \in SUBSET D : g[s] # h[s]}
<1> SUFFICES ASSUME g[D] # h[D] PROVE FALSE
    OBVIOUS
<1>1. PICK B \in Bad : \A C \in Bad : C \subseteq B => C = B
  <2>1. IsFiniteSet(D) /\ Bad \subseteq SUBSET D /\ Bad # {}
      BY FS_Interval
  <2> HIDE DEF Bad, D
  <2> QED
      BY <2>1, MinimalSubset
<1>2. B \in SUBSET D /\ g[B] # h[B]
    OBVIOUS
<1>3. /\ \A s \in SUBSET D : g[s] = IF s = {} THEN <<>> ELSE Insert(g[s \ {Max(s)}], d[Max(s)])
      /\ \A s \in SUBSET D : h[s] = IF s = {} THEN <<>> ELSE Insert(h[s \ {Max(s)}], d[Max(s)])
    BY DEF Builds
<1>4. B # {}
    BY <1>2, <1>3
<1>5. Max(B) \in B
    BY <1>2, <1>4, Positions
<1>6. g[B \ {Max(B)}] = h[B \ {Max(B)}]
    BY <1>1, <1>2, <1>5
<1> QED
    BY <1>2, <1>3, <1>4, <1>6

(* ConfigCache::new builds that table.                                     *)
LEMMA CachedTable ==
    ASSUME NEW d, NEW n \in Nat, DOMAIN d = 1 .. n
    PROVE  FoldLeft(Insert, <<>>, d) = Table(d)[DOMAIN d]
<1>1. Builds(Table(d), d)
    BY TableBuilds
<1>2. Builds(CHOOSE g : Builds(g, d), d)
    BY <1>1
<1>3. (CHOOSE g : Builds(g, d))[DOMAIN d] = Table(d)[DOMAIN d]
    BY <1>1, <1>2, BuildsAgree
<1> QED
    BY <1>3, FoldBuilds

(* What is found in the table is in force, and usable.                     *)
LEMMA FoundInTable ==
    ASSUME NEW v \in Versions, LoadError(v.doc) = NoError, NEW domain, NEW prefix
    PROVE  LET c == CacheOf(v)
           IN  /\ GetPolicies(c, domain, prefix) = InForce(c.full_config, domain, prefix)
               /\ Usable(GetPolicies(c, domain, prefix))
<1> DEFINE cfg == RateLimitConfig(v.doc)
           d == cfg.domains
           k == << domain, prefix >>
           mine == Entries(d, DOMAIN d, k)
           c == CacheOf(v)
<1>1. v.doc \in Documents
    BY DEF Versions
<1>2. /\ d \in Seq(DomainConfig)
      /\ \A i \in DOMAIN d : Usable(d[i].policies)
      /\ Usable(cfg.default.policies)
    BY <1>1, FitConfig
<1>3. PICK n \in Nat : DOMAIN d = 1 .. n
    BY <1>2, LenProperties
<1>4. /\ c.policies = FoldLeft(Insert, <<>>, d)
      /\ c.default_policy = cfg.default.policies
      /\ c.full_config = cfg
    BY DEF CacheOf, Cached
<1> HIDE DEF c, cfg, d
<1>5. c.policies = Table(d)[DOMAIN d]
    BY <1>3, <1>4, CachedTable
<1>6. /\ DOMAIN c.policies = {Key(d[j]) : j \in DOMAIN d}
      /\ k \in DOMAIN c.policies => c.policies[k] = d[Max(mine)].policies
    BY <1>5 DEF Table
<1>7. mine = {i \in DOMAIN d : Key(d[i]) = k}
    BY DEF Entries
<1>8. InForce(cfg, domain, prefix) = IF mine = {} THEN cfg.default.policies ELSE d[Max(mine)].policies
    BY <1>7 DEF InForce, d
<1>9. mine = {} <=> k \notin DOMAIN c.policies
    BY <1>6, <1>7
<1>10. mine # {} => Max(mine) \in DOMAIN d
  <2>1. mine \in SUBSET DOMAIN d
      BY <1>7
  <2> HIDE DEF mine
  <2> QED
      BY <1>3, <2>1, Positions
<1>11. GetPolicies(c, domain, prefix) = InForce(cfg, domain, prefix)
    BY <1>4, <1>6, <1>8, <1>9 DEF GetPolicies
<1>12. Usable(InForce(cfg, domain, prefix))
    BY <1>2, <1>8, <1>10
<1> QED
    BY <1>4, <1>11, <1>12 DEF c

-----------------------------------------------------------------------------
(* What is served.                                                         *)

(* A service that has loaded serves some version that was fit to.          *)
Serves == Loaded => \E v \in Versions : LoadError(v.doc) = NoError /\ cache = CacheOf(v)

(* Only Load and Store replace the cache, and only with such a version.    *)
LEMMA NextKeepsServes ==
    ASSUME IInv, Serves, [Next]_vars
    PROVE  Serves'
<1>1. CASE Load
  <2>1. file \in Versions
      BY DEF IInv, TypeOK
  <2>2. CASE LoadError(file.doc) = NoError
      BY <1>1, <2>1, <2>2 DEF Load, Serves
  <2>3. CASE LoadError(file.doc) # NoError
      BY <1>1, <2>3 DEF Load, Serves, Loaded
  <2> QED
      BY <2>2, <2>3
<1>2. CASE Store
  <2>1. found \in Versions /\ LoadError(found.doc) = NoError
      BY <1>2 DEF IInv, TypeOK, InStep, Store
  <2> QED
      BY <1>2, <2>1 DEF Store, Serves
<1>3. CASE ~Load /\ ~Store
  <2>1. cache' = cache /\ (Loaded' => Loaded)
      BY <1>3 DEF vars, Next, Main, Watcher, Editor, Watch, Deliver, Receive, Read, Write,
                  Replace, NotifyFails, Loaded
  <2> QED
      BY <2>1 DEF Serves
<1> QED
    BY <1>1, <1>2, <1>3

(* Every request of a running service, whatever the file has held, finds   *)
(* the policies its key has in the version served: the last entry for the  *)
(* key in that file, or its default, and in either case at least one, with *)
(* a flow to divide by and a burst.                                        *)
THEOREM PoliciesStayInForce == Spec => []PoliciesInForce
<1>1. Init => Serves
    BY DEF Init, Serves, Loaded
<1>2. IInv /\ Serves /\ [Next]_vars => Serves'
    BY NextKeepsServes
<1>3. Serves => PoliciesInForce
  <2> SUFFICES ASSUME Serves, Loaded, NEW q \in Queries
               PROVE  /\ GetPolicies(cache, q[1], q[2]) = InForce(cache.full_config, q[1], q[2])
                      /\ Usable(GetPolicies(cache, q[1], q[2]))
      BY DEF PoliciesInForce, Usable
  <2>1. PICK v \in Versions : LoadError(v.doc) = NoError /\ cache = CacheOf(v)
      BY DEF Serves
  <2> QED
      BY <2>1, FoundInTable
<1> QED
    BY <1>1, <1>2, <1>3, InvariantHolds, PTL DEF Spec
=============================================================================
