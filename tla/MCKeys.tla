------------------------------- MODULE MCKeys -------------------------------
(* A small instance of BucketKey. *)
EXTENDS BucketKey

AllParts == {"a", "bucket", "default"}
SomeParts == {"a", "default"}

UpTo(n) == UNION {[1 .. m -> SomeParts] : m \in 1 .. n}

AllDomains == UpTo(2)
AllKeys == UpTo(3)
=============================================================================
