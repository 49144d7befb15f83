----------------------------- MODULE BucketKey -----------------------------
(***************************************************************************)
(* Which requests share a bucket.  A handler cuts the prefix off limit_key *)
(* at the first colon and looks up the policies under domain and prefix;   *)
(* construct_bucket_key joins domain, prefix and key with colons again.    *)
(* Only colons matter here: a string is the sequence of the parts that its *)
(* colons separate, and joining two strings with a colon is concatenation. *)
(***************************************************************************)
EXTENDS Integers, Sequences

CONSTANTS
    Parts,          \* texts without a colon
    Domains,        \* the domains requests name
    LimitKeys,      \* the limit_keys they carry
    NoDomain        \* a request that names none

Default == << "default" >>

Strings == Seq(Parts) \ {<<>>}

ASSUME BucketKeyAssumption ==
    /\ "default" \in Parts /\ "bucket" \in Parts
    /\ Domains \subseteq Strings /\ LimitKeys \subseteq Strings

Request == [domain : Domains \cup {NoDomain}, limit_key : LimitKeys]

DomainOf(req) == IF req.domain = NoDomain THEN Default ELSE req.domain

HasColon(s) == Len(s) > 1

Prefix(limit_key) == IF HasColon(limit_key) THEN << Head(limit_key) >> ELSE Default

ActualKey(limit_key) == IF HasColon(limit_key) THEN Tail(limit_key) ELSE limit_key

(* Mutant: the prefix is left out of the key.                              *)
key_without_prefix(domain, prefix, key) == << "bucket" >> \o domain \o key

construct_bucket_key(domain, prefix, key) == << "bucket" >> \o domain \o prefix \o key

Bucket(req) == construct_bucket_key(DomainOf(req), Prefix(req.limit_key),
                                    ActualKey(req.limit_key))

(* What get_policies is asked for.                                         *)
PolicyKey(req) == << DomainOf(req), Prefix(req.limit_key) >>
-----------------------------------------------------------------------------
VARIABLES first, second         \* two requests

vars == << first, second >>

Init == first \in Request /\ second \in Request

Next == second' \in Request /\ UNCHANGED first

Spec == Init /\ [][Next]_vars
-----------------------------------------------------------------------------
(* The one domain goes on after a colon where the other ends.              *)
Extends(d, e) == Len(d) < Len(e) /\ \A i \in DOMAIN d : d[i] = e[i]

(* Requests that share a bucket are held to the same policies and have the *)
(* same key, so that the levels stored by one mean the same to the other,  *)
(* whatever colons domain and limit_key came with: unless the one domain   *)
(* extends the other.  That is a real exception, since nothing in the code *)
(* keeps colons out of a domain: "a:b" with key "c:k" and "a" with key     *)
(* "b:c:k" share bucket:a:b:c:k, under the policies of two domains.        *)
BucketsAreApart ==
    Bucket(first) = Bucket(second) =>
        \/ /\ PolicyKey(first) = PolicyKey(second)
           /\ ActualKey(first.limit_key) = ActualKey(second.limit_key)
        \/ Extends(DomainOf(first), DomainOf(second))
        \/ Extends(DomainOf(second), DomainOf(first))
=============================================================================
