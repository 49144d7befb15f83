--------------------------- MODULE ConfigWatcher ---------------------------
(***************************************************************************)
(* Hot reload: main reads the configuration file, fills the cache that the *)
(* request handlers share and spawns watch_config_file; the watcher takes  *)
(* file system events from notify through a channel of one place and       *)
(* reloads, one event at a time.  Beside them run whoever edits the file,  *)
(* in place or by renaming another file over it, and the notify thread.    *)
(* A save in place is two edits, a truncation and a write: what the file   *)
(* holds in between is Malformed.                                          *)
(***************************************************************************)
EXTENDS ConfigCache, FiniteSets

CONSTANTS
    Documents,      \* what the file may hold, Missing and Malformed included
    Queries,        \* the << domain, prefix >> pairs asked for
    Hazards,        \* which of the kinds of edit below happen
    MaxEdits,       \* bound: edits of the file
    MaxErrors       \* bound: errors that notify reports

ASSUME ConfigWatcherAssumption ==
    /\ Missing \in Documents
    /\ Documents \ {Missing, Malformed} \subseteq Document
    /\ Hazards \subseteq {"edit before watch", "replace"}
    /\ MaxEdits \in Nat /\ MaxErrors \in Nat

VARIABLES
    file,           \* the version the path names: its number and content
    attached,       \* the inode under watch is the one the path names
    pending,        \* events the kernel and the notify thread hold
    channel,        \* the mpsc channel between the notify thread and the task
    phase,          \* where main and then the watcher task are
    found,          \* the version read last
    cache,          \* the ConfigCache in the ArcSwap, and its version
    active_domains, \* the gauge
    reloads,        \* config_reloads_total, by result
    seen,           \* history: main or an event has had notice of the last edit
    errors          \* errors notify has reported

vars == << file, attached, pending, channel, phase, found, cache,
           active_domains, reloads, seen, errors >>

ChannelCapacity == 1

Version(n, doc) == [no |-> n, doc |-> doc]

NoCache == [no |-> 0, policies |-> <<>>, default_policy |-> <<>>, full_config |-> <<>>]

CacheOf(version) ==
    LET built == Cached(RateLimitConfig(version.doc))
    IN  [no |-> version.no, policies |-> built.policies,
         default_policy |-> built.default_policy, full_config |-> built.full_config]

DomainCount(doc) == Len(doc.domains)

Loaded == phase \in {"spawned", "idle", "reading", "storing", "deaf"}
Watching == phase \in {"idle", "reading", "storing"}

(* inotify merges an event into an equal one at the end of the queue.      *)
Post(q, e) == IF q # <<>> /\ Last(q) = e THEN q ELSE Append(q, e)

(* Mutant: every event but an error counts, the watcher's own reads too.   *)
any_event(event) == event # "error"

should_reload(event) == event \in {"modify", "metadata", "create"}
-----------------------------------------------------------------------------
Init ==
    /\ file \in {Version(0, doc) : doc \in Documents}
    /\ attached = FALSE
    /\ pending = <<>> /\ channel = <<>>
    /\ phase = "loading"
    /\ found = file
    /\ cache = NoCache
    /\ active_domains = 0
    /\ reloads = [success |-> 0, error |-> 0]
    /\ seen = FALSE
    /\ errors = 0

(* main: load_config, build_config_cache, spawn; any error ends the process. *)
Load ==
    /\ phase = "loading"
    /\ found' = file
    /\ seen' = TRUE
    /\ IF LoadError(file.doc) = NoError
         THEN /\ phase' = "spawned"
              /\ cache' = CacheOf(file)
              /\ active_domains' = DomainCount(file.doc)
         ELSE /\ phase' = "exited"
              /\ UNCHANGED << cache, active_domains >>
    /\ UNCHANGED << file, attached, pending, channel, reloads, errors >>

(* watch() fails when there is no file at that moment, and the task ends.  *)
Watch ==
    /\ phase = "spawned"
    /\ IF file.doc = Missing
         THEN phase' = "deaf" /\ UNCHANGED attached
         ELSE phase' = "idle" /\ attached' = TRUE
    /\ UNCHANGED << file, pending, channel, found, cache, active_domains,
                    reloads, seen, errors >>

(* Mutants: an unbounded channel; try_send, which drops when it is full.   *)
DeliverUnbounded ==
    /\ pending # <<>>
    /\ channel' = Append(channel, Head(pending))
    /\ pending' = Tail(pending)
    /\ UNCHANGED << file, attached, phase, found, cache, active_domains,
                    reloads, seen, errors >>

DeliverOrDrop ==
    /\ pending # <<>>
    /\ channel' = IF Len(channel) < ChannelCapacity
                    THEN Append(channel, Head(pending)) ELSE channel
    /\ pending' = Tail(pending)
    /\ UNCHANGED << file, attached, phase, found, cache, active_domains,
                    reloads, seen, errors >>

(* The notify thread: blocking_send waits for the place in the channel.    *)
Deliver ==
    /\ pending # <<>>
    /\ Len(channel) < ChannelCapacity
    /\ channel' = Append(channel, Head(pending))
    /\ pending' = Tail(pending)
    /\ UNCHANGED << file, attached, phase, found, cache, active_domains,
                    reloads, seen, errors >>

Receive ==
    /\ phase = "idle"
    /\ channel # <<>>
    /\ channel' = Tail(channel)
    /\ phase' = IF should_reload(Head(channel)) THEN "reading" ELSE "idle"
    /\ reloads' = IF Head(channel) = "error" THEN [reloads EXCEPT !.error = @ + 1] ELSE reloads
    /\ UNCHANGED << file, attached, pending, found, cache, active_domains, seen, errors >>

(* Mutants: the gauge is set before validation; an invalid file takes the  *)
(* old configuration away.                                                 *)
ReadGaugeFirst ==
    /\ phase = "reading"
    /\ found' = file
    /\ pending' = IF attached THEN Post(pending, "open") ELSE pending
    /\ phase' = IF LoadError(file.doc) = NoError THEN "storing" ELSE "idle"
    /\ active_domains' = IF LoadError(file.doc) \in {"FileSystemError", "JsonError"}
                           THEN active_domains ELSE DomainCount(file.doc)
    /\ UNCHANGED << file, attached, channel, cache, reloads, seen, errors >>

ReadOrReset ==
    /\ phase = "reading"
    /\ found' = file
    /\ pending' = IF attached THEN Post(pending, "open") ELSE pending
    /\ phase' = IF LoadError(file.doc) = NoError THEN "storing" ELSE "idle"
    /\ cache' = IF LoadError(file.doc) = NoError THEN cache ELSE NoCache
    /\ UNCHANGED << file, attached, channel, active_domains, reloads, seen, errors >>

(* reload_config up to the swap: opening the file raises an event of its   *)
(* own; three of the four errors are only logged.                          *)
Read ==
    /\ phase = "reading"
    /\ found' = file
    /\ pending' = IF attached THEN Post(pending, "open") ELSE pending
    /\ LET e == LoadError(file.doc)
       IN  IF e = NoError
             THEN /\ phase' = "storing"
                  /\ active_domains' = DomainCount(file.doc)
                  /\ UNCHANGED reloads
             ELSE /\ phase' = "idle"
                  /\ reloads' = IF e \in {"FileSystemError", "JsonError", "ConfigurationError"}
                                  THEN reloads ELSE [reloads EXCEPT !.error = @ + 1]
                  /\ UNCHANGED active_domains
    /\ UNCHANGED << file, attached, channel, cache, seen, errors >>

Store ==
    /\ phase = "storing"
    /\ cache' = CacheOf(found)
    /\ reloads' = [reloads EXCEPT !.success = @ + 1]
    /\ phase' = "idle"
    /\ UNCHANGED << file, attached, pending, channel, found, active_domains, seen, errors >>
-----------------------------------------------------------------------------
Editable ==
    /\ file.no < MaxEdits
    /\ phase = "spawned" => "edit before watch" \in Hazards

(* An edit through the inode the path names.                               *)
Write(doc) ==
    /\ Editable
    /\ file.doc # Missing /\ doc # Missing
    /\ file' = Version(file.no + 1, doc)
    /\ pending' = IF attached THEN Post(pending, "modify") ELSE pending
    /\ seen' = attached
    /\ UNCHANGED << attached, channel, phase, found, cache, active_domains,
                    reloads, errors >>

(* The path comes to name another inode, or none.  The watch stays with    *)
(* the old one, whose links change and which then goes away.               *)
Replace(doc) ==
    /\ Editable
    /\ "replace" \in Hazards
    /\ file' = Version(file.no + 1, doc)
    /\ pending' = IF attached THEN Post(Post(pending, "metadata"), "remove") ELSE pending
    /\ attached' = FALSE
    /\ seen' = attached
    /\ UNCHANGED << channel, phase, found, cache, active_domains, reloads, errors >>

NotifyFails ==
    /\ Watching
    /\ errors < MaxErrors
    /\ errors' = errors + 1
    /\ pending' = Append(pending, "error")
    /\ UNCHANGED << file, attached, channel, phase, found, cache, active_domains,
                    reloads, seen >>

Main == Load
Watcher == Watch \/ Receive \/ Read \/ Store
Editor == \E doc \in Documents : Write(doc) \/ Replace(doc)

Next == Main \/ Watcher \/ Deliver \/ Editor \/ NotifyFails

(* Each of main, the watcher task and the notify thread keeps running; the *)
(* editor owes nobody an edit.                                             *)
Spec == Init /\ [][Next]_vars /\ WF_vars(Main) /\ WF_vars(Watcher) /\ WF_vars(Deliver)
-----------------------------------------------------------------------------
Events == {"modify", "metadata", "create", "open", "remove", "error"}

Versions == [no : 0 .. MaxEdits, doc : Documents]

TypeOK ==
    /\ file \in Versions /\ found \in Versions
    /\ attached \in BOOLEAN
    /\ pending \in Seq(Events)
    /\ channel \in Seq(Events) /\ Len(channel) <= ChannelCapacity
    /\ phase \in {"loading", "exited", "spawned", "deaf", "idle", "reading", "storing"}
    /\ cache.no \in 0 .. MaxEdits
    /\ active_domains \in Nat
    /\ reloads \in [success : Nat, error : Nat]
    /\ seen \in BOOLEAN /\ errors \in 0 .. MaxErrors

(* Whatever the file has held, every request of a running service finds    *)
(* the policies its key has in the version loaded last, at least one, with *)
(* a flow to divide by and a burst: what the script takes for granted.     *)
PoliciesInForce ==
    Loaded => \A q \in Queries :
        LET policies == GetPolicies(cache, q[1], q[2])
        IN  /\ policies = InForce(cache.full_config, q[1], q[2])
            /\ policies # <<>>
            /\ \A i \in DOMAIN policies : policies[i].flow > 0 /\ policies[i].burst > 0

(* No edit that raised an event is lost between the kernel, the channel    *)
(* and the task: while the file is newer than what was read last, an event *)
(* that will make the watcher read it is on its way, or it is about to.    *)
Coming(q) == \E i \in DOMAIN q : should_reload(q[i])

NothingMissed ==
    (Watching /\ seen /\ found # file) =>
        phase = "reading" \/ Coming(pending) \/ Coming(channel)

(* Between reloads the cache holds the version read last, if that one was  *)
(* fit to serve, and the gauge counts the domains of the version served.   *)
Settled ==
    phase = "idle" =>
        /\ LoadError(found.doc) = NoError => cache = CacheOf(found)
        /\ active_domains = Len(cache.full_config.domains)

(* A reload never puts back an older version than the one served, nor      *)
(* takes the configuration away.                                           *)
NeverGoesBack == [][cache'.no >= cache.no /\ cache' # NoCache]_cache

(* What the proofs add: nothing is watched before Watch, what was read     *)
(* first is what the file still holds unless an edit went unseen, and the  *)
(* gauge is ahead of the cache only between Read and Store.                *)
InStep ==
    /\ ~Watching => ~attached
    /\ phase = "spawned" /\ seen => found = file
    /\ cache.no <= found.no /\ found.no <= file.no
    /\ phase \in {"spawned", "idle"} /\ LoadError(found.doc) = NoError => cache = CacheOf(found)
    /\ phase \in {"spawned", "idle", "reading"} => active_domains = Len(cache.full_config.domains)
    /\ phase = "storing" => /\ LoadError(found.doc) = NoError
                            /\ active_domains = DomainCount(found.doc)

(* The inductive invariant.                                                *)
IInv == TypeOK /\ InStep /\ NothingMissed

(* What is in the file in the end, if it is fit to serve and its last edit *)
(* raised an event, is served in the end, whatever was missed before.      *)
FollowsEvents ==
    <>[](Watching /\ seen /\ LoadError(file.doc) = NoError => cache = CacheOf(file))

(* Reading the file raises an event on the file; it does not make the      *)
(* watcher read it again.                                                  *)
ComesToRest == <>[](phase \in {"exited", "deaf"} \/ (phase = "idle" /\ channel = <<>>))

(* README:12, hot reloading: what is in the file in the end, if it is fit  *)
(* to serve, is served in the end: whether the last edit came before the   *)
(* watch, after a rename, or where the watch could not start.              *)
FollowsFile ==
    <>[](Loaded /\ LoadError(file.doc) = NoError => cache = CacheOf(file))
=============================================================================
