---------------------------- MODULE ConfigCache ----------------------------
(***************************************************************************)
(* The rate limit configuration as data: what a document in the file means *)
(* once serde has filled in its defaults, which documents validate_config  *)
(* refuses and with which error, the lookup table ConfigCache::new builds, *)
(* and the policies get_policies finds in it for a request.                *)
(***************************************************************************)
EXTENDS Integers, Sequences, SequencesExt

CONSTANTS
    Missing,        \* the content of a path that names no file
    Malformed,      \* any content that is not a document: truncated, half written
    Absent          \* the "default" of a document that has none

(* What serde accepts: numbers of any size and sign, names of any length.  *)
RatePolicy == [name : STRING, flow : Int, burst : Int]

DomainConfig == [domain : STRING, prefix : STRING, policies : Seq(RatePolicy)]

Document == [domains : Seq(DomainConfig), default : DomainConfig \cup {Absent}]

(* default_rate_policy.  Flows are counted per minute.                     *)
DefaultRatePolicy ==
    [domain |-> "default", prefix |-> "default",
     policies |-> << [name |-> "per_second", flow |-> 600, burst |-> 100],
                     [name |-> "per_minute", flow |-> 100, burst |-> 1000] >>]

RateLimitConfig(doc) ==
    [doc EXCEPT !.default = IF doc.default = Absent THEN DefaultRatePolicy ELSE @]
-----------------------------------------------------------------------------
NoError == "none"

(* Mutant: zero is let through.                                            *)
NegativeRate(p) == p.name = "" \/ p.flow < 0 \/ p.burst < 0

InvalidRate(p) == p.name = "" \/ p.flow <= 0 \/ p.burst <= 0

DomainError(d) ==
    IF d.domain = "" \/ d.prefix = "" \/ d.policies = <<>> THEN "ConfigurationError"
    ELSE IF \E i \in DOMAIN d.policies : InvalidRate(d.policies[i]) THEN "InvalidRate"
    ELSE NoError

(* validate_config stops at the first error, the default's coming last.    *)
ConfigError(cfg) ==
    LET entries == Append(cfg.domains, cfg.default)
        wrong == {i \in DOMAIN entries : DomainError(entries[i]) # NoError}
    IN  IF wrong = {} THEN NoError ELSE DomainError(entries[Min(wrong)])

(* load_rate_limit_config_from_file, as the error it ends in.              *)
LoadError(doc) ==
    IF doc = Missing THEN "FileSystemError"
    ELSE IF doc = Malformed THEN "JsonError"
    ELSE ConfigError(RateLimitConfig(doc))
-----------------------------------------------------------------------------
Key(d) == << d.domain, d.prefix >>

(* Mutant: entry().or_insert(), the first entry for a key stays.           *)
InsertIfAbsent(map, d) ==
    [k \in DOMAIN map \cup {Key(d)} |-> IF k \in DOMAIN map THEN map[k] ELSE d.policies]

(* One insertion into the map per entry of the file: a later entry for the *)
(* same key replaces an earlier one.                                       *)
Insert(map, d) == [k \in DOMAIN map \cup {Key(d)} |-> IF k = Key(d) THEN d.policies ELSE map[k]]

Cached(cfg) ==
    [policies       |-> FoldLeft(Insert, <<>>, cfg.domains),
     default_policy |-> cfg.default.policies,
     full_config    |-> cfg]

GetPolicies(cache, domain, prefix) ==
    IF << domain, prefix >> \in DOMAIN cache.policies
      THEN cache.policies[<< domain, prefix >>] ELSE cache.default_policy
-----------------------------------------------------------------------------
(* The reference for the lookup: the last entry of the file for the key,   *)
(* or its default.                                                         *)
InForce(cfg, domain, prefix) ==
    LET mine == {i \in DOMAIN cfg.domains : Key(cfg.domains[i]) = << domain, prefix >>}
    IN  IF mine = {} THEN cfg.default.policies ELSE cfg.domains[Max(mine)].policies
=============================================================================
