------------------------------- MODULE RateLimit -------------------------------
(***************************************************************************)
(* The limit on the requests of a client (internal/server/middleware.go).  *)
(* Every address has a token bucket (golang.org/x/time/rate); the buckets  *)
(* of at most maxIPs addresses are kept, the most recently used ones.  One *)
(* unit of time brings one token.                                          *)
(***************************************************************************)
EXTENDS Integers, Sequences, SequencesExt, FiniteSets, TLC

CONSTANTS IPs,
          Caps, Default,        \* what may be configured; the package's default
          MaxIPs,               \* ipLimiterCap
          MaxCalls, MaxNow      \* bounds on the requests and on time

VARIABLES
  perMinute,  \* the cap of the configuration
  now,
  lru,        \* the addresses that have a bucket, the most recent one first
  bucket,     \* by address: [tokens, at], the level at that time
  \* history: the requests, [ip, at, ok]
  calls

vars == <<perMinute, now, lru, bucket, calls>>

\* buildRateLimiter and newIPRateLimiter: 0 is the default, negative no limit.
Unlimited == perMinute < 0
Burst == IF perMinute = 0 THEN Default ELSE perMinute

Init == perMinute \in Caps /\ now = 0 /\ lru = <<>> /\ bucket = <<>> /\ calls = <<>>
-----------------------------------------------------------------------------
\* NewLimiter and Allow of the library: the bucket is full at first, it fills with
\* time up to the burst, and a request takes one token, if there is one.
NewLimiter == [tokens |-> Burst, at |-> now]
Level(b) == IF b.tokens + (now - b.at) > Burst THEN Burst ELSE b.tokens + (now - b.at)
Allow(b) == Level(b) > 0
After(b) == IF Allow(b) THEN [tokens |-> Level(b) - 1, at |-> now] ELSE b

\* Mutant of MovedToFront: the place in the list is that of the first request.
KeptInPlace(ip) == lru

MovedToFront(ip) ==
  LET place == CHOOSE p \in DOMAIN lru : lru[p] = ip
  IN  [p \in DOMAIN lru |-> IF p = 1 THEN ip ELSE IF p <= place THEN lru[p - 1] ELSE lru[p]]

\* Room for a new bucket: the last one goes when all are in use.
Evicted == IF Len(lru) >= MaxIPs THEN Front(lru) ELSE lru

\* take
Take(ip) ==
  LET known == ip \in ToSet(lru)
      b == IF known THEN bucket[ip] ELSE NewLimiter
      order == IF known THEN MovedToFront(ip) ELSE <<ip>> \o Evicted
  IN  /\ lru' = order
      /\ bucket' = [x \in ToSet(order) |-> IF x = ip THEN After(b) ELSE bucket[x]]
      /\ calls' = Append(calls, [ip |-> ip, at |-> now, ok |-> Allow(b)])

\* rateLimit: a request that is not allowed is a 429.
Request(ip) ==
  /\ Len(calls) < MaxCalls
  /\ \/ ~Unlimited /\ Take(ip)
     \/ /\ Unlimited /\ UNCHANGED <<lru, bucket>>
        /\ calls' = Append(calls, [ip |-> ip, at |-> now, ok |-> TRUE])
  /\ UNCHANGED <<perMinute, now>>

Tick == now < MaxNow /\ now' = now + 1 /\ UNCHANGED <<perMinute, lru, bucket, calls>>

Next == Tick \/ \E ip \in IPs : Request(ip)

Spec == Init /\ [][Next]_vars
-----------------------------------------------------------------------------
\* Every variable has its type.
TypeOK ==
  /\ perMinute \in Caps /\ now \in 0..MaxNow
  /\ lru \in Seq(IPs) /\ IsInjective(lru) /\ Len(lru) <= MaxIPs
  /\ bucket \in [ToSet(lru) -> [tokens : 0..Burst, at : 0..now]]
  /\ calls \in Seq([ip : IPs, at : 0..now, ok : BOOLEAN])

\* The requests of an address from the i-th to the j-th of all that were allowed.
Allowed(ip, i, j) == Cardinality({k \in i..j : calls[k].ip = ip /\ calls[k].ok})

\* Between two requests of the address so few others came that its bucket is there.
Kept(ip, i, j) ==
  \A k \in i..j : \A l \in k + 1 .. j :
    calls[k].ip = ip /\ calls[l].ip = ip /\ (\A m \in k + 1 .. l - 1 : calls[m].ip # ip) =>
      Cardinality({calls[m].ip : m \in k + 1 .. l - 1}) < MaxIPs

\* "allows `burst` calls per `window` per IP", and evicts the least recently used.
\* While fewer than maxIPs others come between its requests, an address gets the
\* burst and one request more per unit of time; and it is refused only when it has
\* itself used up what some stretch of time, ending there, brings, whatever the
\* others do.
LimitIsPerAddress ==
  ~Unlimited =>
    \A j \in DOMAIN calls :
      LET ip == calls[j].ip IN
      IF calls[j].ok
      THEN \A i \in 1..j : calls[i].ip = ip /\ Kept(ip, i, j) =>
             Allowed(ip, i, j) <= Burst + calls[j].at - calls[i].at
      ELSE \E i \in 1 .. j - 1 : calls[i].ip = ip /\
             Allowed(ip, i, j) >= Burst + calls[j].at - calls[i].at
-----------------------------------------------------------------------------
\* The others that came since the last request of an address.
Since(ip) ==
  {calls[m].ip : m \in {m \in DOMAIN calls : \A k \in m..Len(calls) : calls[k].ip # ip}}

\* The list has the addresses in the order of their last requests, and those that
\* have left it were followed by as many others as there are places.
ListOK ==
  /\ \A p \in DOMAIN lru :
       /\ \E k \in DOMAIN calls : calls[k].ip = lru[p]
       /\ Since(lru[p]) = {lru[q] : q \in 1 .. p - 1}
  /\ \A k \in DOMAIN calls :
       calls[k].ip \notin ToSet(lru) => Cardinality(Since(calls[k].ip)) >= MaxIPs

\* What a bucket lacks was taken by the requests since some request of its address,
\* and no stretch that it was kept for has taken more than it lacks.
Lacks(ip, i) == Burst + bucket[ip].at - calls[i].at - bucket[ip].tokens

BucketsOK ==
  \A ip \in ToSet(lru) :
    /\ \E i \in DOMAIN calls : calls[i].ip = ip /\ Allowed(ip, i, Len(calls)) = Lacks(ip, i)
    /\ \A i \in DOMAIN calls :
         calls[i].ip = ip /\ Kept(ip, i, Len(calls)) => Allowed(ip, i, Len(calls)) <= Lacks(ip, i)

\* The inductive invariant behind LimitIsPerAddress.
IInv == TypeOK /\ LimitIsPerAddress /\ (~Unlimited => ListOK /\ BucketsOK)
=============================================================================
