-------------------------- MODULE BucketKeyProofs --------------------------
(***************************************************************************)
(* BucketsAreApart for every set of domains and keys: a bucket key is read *)
(* back unambiguously by whoever knows how many parts its domain has.      *)
(***************************************************************************)
EXTENDS BucketKey, SequenceTheorems, TLAPS

(* Two strings joined, by name.                                            *)
LEMMA Appended ==
    ASSUME NEW s \in Seq(Parts), NEW t \in Seq(Parts), NEW w, w = s \o t
    PROVE  /\ w \in Seq(Parts) /\ Len(w) = Len(s) + Len(t)
           /\ \A i \in 1 .. Len(s) + Len(t) :
                 w[i] = IF i <= Len(s) THEN s[i] ELSE t[i - Len(s)]
<1>1. /\ s \o t \in Seq(Parts) /\ Len(s \o t) = Len(s) + Len(t)
      /\ \A i \in 1 .. Len(s) + Len(t) :
            (s \o t)[i] = IF i <= Len(s) THEN s[i] ELSE t[i - Len(s)]
    BY ConcatProperties
<1> QED
    BY <1>1, Zenon

(* Where the parts of a bucket key are: the domain after the first part,   *)
(* the prefix after the domain, the key behind.                            *)
LEMMA Joined ==
    ASSUME NEW b \in Parts, NEW d \in Seq(Parts), NEW p \in Parts, NEW k \in Seq(Parts),
           NEW w, w = << b >> \o d \o << p >> \o k
    PROVE  /\ Len(w) = Len(d) + Len(k) + 2
           /\ \A i \in 1 .. Len(d) : w[i + 1] = d[i]
           /\ w[Len(d) + 2] = p
           /\ \A i \in 1 .. Len(k) : w[i + Len(d) + 2] = k[i]
<1> DEFINE bs == << b >>
           ps == << p >>
           head == bs \o d
           front == head \o ps
<1>1. Len(d) \in Nat /\ Len(k) \in Nat
    OBVIOUS
<1>2. bs \in Seq(Parts) /\ Len(bs) = 1 /\ ps \in Seq(Parts) /\ Len(ps) = 1 /\ ps[1] = p
    OBVIOUS
<1>3. head = bs \o d /\ front = head \o ps /\ w = front \o k
    OBVIOUS
<1> HIDE DEF bs, ps, head, front
<1>4. /\ head \in Seq(Parts) /\ Len(head) = Len(bs) + Len(d)
      /\ \A i \in 1 .. Len(bs) + Len(d) :
            head[i] = IF i <= Len(bs) THEN bs[i] ELSE d[i - Len(bs)]
    BY <1>2, <1>3, Appended
<1>5. Len(head) = Len(d) + 1
    BY <1>1, <1>2, <1>4
<1>6. ASSUME NEW i \in 1 .. Len(d) PROVE head[i + 1] = d[i]
    BY <1>1, <1>2, <1>4
<1>7. /\ front \in Seq(Parts) /\ Len(front) = Len(head) + Len(ps)
      /\ \A i \in 1 .. Len(head) + Len(ps) :
            front[i] = IF i <= Len(head) THEN head[i] ELSE ps[i - Len(head)]
    BY <1>2, <1>3, <1>4, Appended
<1>8. Len(front) = Len(d) + 2
    BY <1>1, <1>2, <1>5, <1>7
<1>9. ASSUME NEW i \in 1 .. Len(d) PROVE front[i + 1] = d[i]
  <2>1. i + 1 \in 1 .. Len(head) + Len(ps) /\ i + 1 <= Len(head)
      BY <1>1, <1>2, <1>5
  <2> QED
      BY <1>6, <1>7, <2>1
<1>10. front[Len(d) + 2] = p
  <2>1. /\ Len(d) + 2 \in 1 .. Len(head) + Len(ps) /\ ~(Len(d) + 2 <= Len(head))
        /\ Len(d) + 2 - Len(head) = 1
      BY <1>1, <1>2, <1>5
  <2> QED
      BY <1>2, <1>7, <2>1
<1>11. /\ Len(w) = Len(front) + Len(k)
       /\ \A i \in 1 .. Len(front) + Len(k) :
             w[i] = IF i <= Len(front) THEN front[i] ELSE k[i - Len(front)]
  <2>1. front \in Seq(Parts) /\ w = front \o k
      BY <1>3, <1>7
  <2> QED
      BY <2>1, Appended
<1>12. ASSUME NEW i \in 1 .. Len(d) + 2 PROVE w[i] = front[i]
    BY <1>1, <1>8, <1>11
<1>13. ASSUME NEW i \in 1 .. Len(k) PROVE w[i + Len(d) + 2] = k[i]
  <2>1. /\ i + Len(d) + 2 \in 1 .. Len(front) + Len(k) /\ ~(i + Len(d) + 2 <= Len(front))
        /\ i + Len(d) + 2 - Len(front) = i
      BY <1>1, <1>8
  <2> QED
      BY <1>11, <2>1
<1>14. ASSUME NEW i \in 1 .. Len(d) PROVE w[i + 1] = d[i]
    BY <1>1, <1>9, <1>12
<1>15. w[Len(d) + 2] = p
    BY <1>1, <1>10, <1>12
<1>16. Len(w) = Len(d) + Len(k) + 2
    BY <1>1, <1>8, <1>11
<1> QED
    BY <1>13, <1>14, <1>15, <1>16

(* What a request's domain, prefix and key are made of.                    *)
LEMMA PartsOfRequest ==
    ASSUME NEW r \in Request
    PROVE  /\ DomainOf(r) \in Seq(Parts)
           /\ ActualKey(r.limit_key) \in Seq(Parts)
           /\ \E p \in Parts : Prefix(r.limit_key) = << p >>
<1>1. r.domain \in Domains \cup {NoDomain} /\ r.limit_key \in LimitKeys
    BY DEF Request
<1>2. Default \in Strings
    BY BucketKeyAssumption DEF Default, Strings
<1>3. DomainOf(r) \in Strings /\ r.limit_key \in Strings
    BY <1>1, <1>2, BucketKeyAssumption DEF DomainOf
<1>4. Head(r.limit_key) \in Parts /\ Tail(r.limit_key) \in Seq(Parts)
    BY <1>3, HeadTailProperties DEF Strings
<1>5. \E p \in Parts : Prefix(r.limit_key) = << p >>
    BY <1>4, BucketKeyAssumption DEF Prefix, Default
<1>6. ActualKey(r.limit_key) \in Seq(Parts)
    BY <1>3, <1>4 DEF ActualKey, Strings
<1> QED
    BY <1>3, <1>5, <1>6 DEF Strings

(* The same for every pair of requests there can be.                       *)
LEMMA ApartOrExtended ==
    ASSUME NEW r \in Request, NEW s \in Request, Bucket(r) = Bucket(s)
    PROVE  \/ PolicyKey(r) = PolicyKey(s) /\ ActualKey(r.limit_key) = ActualKey(s.limit_key)
           \/ Extends(DomainOf(r), DomainOf(s))
           \/ Extends(DomainOf(s), DomainOf(r))
<1> DEFINE d == DomainOf(r)
           e == DomainOf(s)
           k == ActualKey(r.limit_key)
           m == ActualKey(s.limit_key)
           w == Bucket(r)
<1>1. PICK p \in Parts : Prefix(r.limit_key) = << p >>
    BY PartsOfRequest
<1>2. PICK q \in Parts : Prefix(s.limit_key) = << q >>
    BY PartsOfRequest
<1>3. d \in Seq(Parts) /\ e \in Seq(Parts) /\ k \in Seq(Parts) /\ m \in Seq(Parts)
    BY PartsOfRequest
<1>4. w = << "bucket" >> \o d \o << p >> \o k
    BY <1>1 DEF Bucket, construct_bucket_key
<1>5. w = << "bucket" >> \o e \o << q >> \o m
    BY <1>2 DEF Bucket, construct_bucket_key
<1>6. "bucket" \in Parts
    BY BucketKeyAssumption
<1> HIDE DEF d, e, k, m, w
<1>7. /\ Len(w) = Len(d) + Len(k) + 2
      /\ \A i \in 1 .. Len(d) : w[i + 1] = d[i]
      /\ w[Len(d) + 2] = p
      /\ \A i \in 1 .. Len(k) : w[i + Len(d) + 2] = k[i]
    BY <1>3, <1>4, <1>6, Joined
<1>8. /\ Len(w) = Len(e) + Len(m) + 2
      /\ \A i \in 1 .. Len(e) : w[i + 1] = e[i]
      /\ w[Len(e) + 2] = q
      /\ \A i \in 1 .. Len(m) : w[i + Len(e) + 2] = m[i]
    BY <1>3, <1>5, <1>6, Joined
<1>9. Len(d) \in Nat /\ Len(e) \in Nat /\ Len(k) \in Nat /\ Len(m) \in Nat
    BY <1>3
<1>10. \A i \in 1 .. Len(d) : i \in 1 .. Len(e) => d[i] = e[i]
    BY <1>7, <1>8
<1>11. DOMAIN d = 1 .. Len(d) /\ DOMAIN e = 1 .. Len(e)
    BY <1>3
<1>12. CASE Len(d) = Len(e)
  <2>1. d = e
      BY <1>3, <1>10, <1>12, SeqEqual
  <2>2. p = q
      BY <1>7, <1>8, <1>12
  <2>3. Len(k) = Len(m)
      BY <1>7, <1>8, <1>9, <1>12
  <2>4. \A i \in 1 .. Len(k) : k[i] = m[i]
      BY <1>7, <1>8, <1>12, <2>3
  <2>5. k = m
      BY <1>3, <2>3, <2>4, SeqEqual
  <2> QED
      BY <1>1, <1>2, <2>1, <2>2, <2>5 DEF PolicyKey, d, e, k, m
<1>13. CASE Len(d) < Len(e)
  <2>1. \A i \in DOMAIN d : d[i] = e[i]
      BY <1>9, <1>10, <1>11, <1>13
  <2>2. Extends(d, e)
      BY <1>13, <2>1 DEF Extends
  <2> QED
      BY <2>2 DEF d, e
<1>14. CASE Len(e) < Len(d)
  <2>1. \A i \in DOMAIN e : e[i] = d[i]
      BY <1>9, <1>10, <1>11, <1>14
  <2>2. Extends(e, d)
      BY <1>14, <2>1 DEF Extends
  <2> QED
      BY <2>2 DEF d, e
<1> QED
    BY <1>9, <1>12, <1>13, <1>14

(* Whatever colons domains and keys have, requests that share a bucket of  *)
(* construct_bucket_key (leaky_bucket.rs:22) have the same policies and    *)
(* key, unless the domain of one extends that of the other.                *)
THEOREM ApartForAll == Spec => []BucketsAreApart
<1>1. first \in Request /\ second \in Request => BucketsAreApart
    BY ApartOrExtended DEF BucketsAreApart
<1>2. Init => first \in Request /\ second \in Request
    BY DEF Init
<1>3. (first \in Request /\ second \in Request) /\ [Next]_vars
          => (first \in Request /\ second \in Request)'
    BY DEF Next, vars
<1> QED
    BY <1>1, <1>2, <1>3, PTL DEF Spec
=============================================================================
