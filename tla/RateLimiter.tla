---------------------------- MODULE RateLimiter ----------------------------
(***************************************************************************)
(* The rate limiter of one client address: RateLimiterMiddelware and       *)
(* RedisRateLimiter.AllowRequest (internal/adapters/http/middleware), with *)
(* the Lua script that Redis runs as one atomic step. The handlers run     *)
(* concurrently; each reads its clock first and runs the script later, so  *)
(* the stamps reach Redis out of order. go-redis runs the script again,    *)
(* with the same stamp, when the answer does not come in.                  *)
(*                                                                         *)
(* The time is counted in units in which fillRate is one: a bucket gains   *)
(* one unit with every tick of the clock, and a token is Cost of them.     *)
(***************************************************************************)
EXTENDS Integers

CONSTANTS
  Handlers,    \* the goroutines that serve the address, one request after another
  Capacity, Cost, TTL,
  MaxDelay,    \* a client of Redis gives up this long after the stamp, at the latest
  MaxClock, MaxLost   \* bounds: the clock, and the calls whose answer does not come in

ASSUME ConstantsAssumption ==
  /\ Capacity \in Nat /\ Cost \in Nat /\ TTL \in Nat /\ MaxDelay \in Nat
  /\ MaxClock \in Nat /\ MaxLost \in Nat

\* The configuration: a bucket holds at least one token, and is full again before
\* its keys expire (TTL is one hour).
ASSUME ConfigAssumption == 0 < Cost /\ Cost <= Capacity /\ Capacity + MaxDelay <= TTL

VARIABLES
  clock,     \* of the machine: Redis runs on it too
  bucket,    \* the two keys of the address, and when they expire
  request,   \* per handler: its stamp
  lost,      \* how many answers did not come in, to bound them
  granted,   \* history: the units taken by the requests the script allowed
  since,     \* history: the stamp of the last of them
  rewound    \* history: the time by which the last key was set back, in sum

hist == <<granted, since, rewound>>
vars == <<clock, bucket, request, lost, hist>>

Bucket   == [tokens: Nat, last: Nat, expiry: Nat]
NoBucket == [tokens |-> 0, last |-> 0, expiry |-> 0]

Request   == [at: {"stamp", "script"}, now: Nat]
NoRequest == [at |-> "stamp", now |-> 0]

Init ==
  /\ clock = 0 /\ lost = 0
  /\ bucket = NoBucket
  /\ request = [h \in Handlers |-> NoRequest]
  /\ granted = 0 /\ since = 0 /\ rewound = 0

-----------------------------------------------------------------------------
(* The script.                                                              *)

\* math.min and math.max.
Lower(a, b)  == IF a < b THEN a ELSE b
Higher(a, b) == IF a > b THEN a ELSE b

\* Both keys are set by the same script, with the same expiration.
Present == clock < bucket.expiry

Overfilled(now) ==   \* mutant: not capped
  IF Present THEN bucket.tokens + Higher(0, now - bucket.last) ELSE Capacity
Refilled(now) ==
  IF Present THEN Lower(Capacity, bucket.tokens + Higher(0, now - bucket.last)) ELSE Capacity

AllowedEarly(tokens) == tokens > 0   \* mutant: part of a token is enough
Allowed(tokens) == tokens >= Cost
Charge(tokens)  == IF Allowed(tokens) THEN tokens - Cost ELSE tokens

\* Mutants: the keys live for less than the bucket takes to fill; a refused request
\* moves last and leaves the tokens as they were.
ExpiresEarly == clock + MaxDelay
Expires == clock + TTL
KeptIfAllowed(now) ==
  LET refilled == Refilled(now) IN
  [tokens |-> IF Allowed(refilled) THEN Charge(refilled) ELSE bucket.tokens,
   last |-> now, expiry |-> Expires]
Stored(now) == [tokens |-> Charge(Refilled(now)), last |-> now, expiry |-> Expires]

Script(now) ==
  /\ bucket' = Stored(now)
  /\ IF Allowed(Refilled(now)) THEN granted' = granted + Cost /\ since' = now
                               ELSE UNCHANGED <<granted, since>>
  /\ rewound' = rewound + IF Present THEN Higher(0, bucket.last - now) ELSE 0

-----------------------------------------------------------------------------
(* The handlers.                                                            *)

\* now := time.Now(), before a connection to Redis is taken from the pool.
Stamp(h) ==
  /\ request[h].at = "stamp"
  /\ request' = [request EXCEPT ![h] = [at |-> "script", now |-> clock]]
  /\ UNCHANGED <<clock, bucket, lost, hist>>

Answered(h) == request' = [request EXCEPT ![h] = NoRequest]

\* The request is let through, or refused with 429.
AllowRequest(h) ==
  /\ request[h].at = "script"
  /\ Script(request[h].now)
  /\ Answered(h)
  /\ UNCHANGED <<clock, lost>>

\* The script ran and its answer does not come in; it will be run again.
LoseReply(h) ==
  /\ request[h].at = "script"
  /\ lost < MaxLost /\ lost' = lost + 1
  /\ Script(request[h].now)
  /\ UNCHANGED <<clock, request>>

\* The client gives up: 503, whether or not the script ran.
Unavailable(h) ==
  /\ request[h].at = "script"
  /\ lost < MaxLost /\ lost' = lost + 1
  /\ Script(request[h].now) \/ UNCHANGED <<bucket, hist>>
  /\ Answered(h)
  /\ UNCHANGED clock

\* No call of the client outlives its timeouts.
Tick ==
  /\ clock < MaxClock
  /\ \A h \in Handlers : request[h].at = "script" => clock < request[h].now + MaxDelay
  /\ clock' = clock + 1
  /\ UNCHANGED <<bucket, request, lost, hist>>

Next ==
  \/ Tick
  \/ \E h \in Handlers : Stamp(h) \/ AllowRequest(h) \/ LoseReply(h) \/ Unavailable(h)

Spec == Init /\ [][Next]_vars

-----------------------------------------------------------------------------
\* Every variable stays in its domain: no bucket is overdrawn.
TypeOK ==
  /\ clock \in Nat /\ lost \in Nat
  /\ bucket \in Bucket
  /\ request \in [Handlers -> Request]
  /\ granted \in Nat /\ since \in Nat /\ rewound \in Nat

\* "AllowRequest implements a distributed token bucket": since the start, no more
\* has been granted than one full bucket and what the time refills. What is granted
\* beyond is the time a late stamp sets last back, for the next request is given
\* that time again. The expiration of the keys, which makes a full bucket, and the
\* answers that are lost add nothing.
GrantedBounded == granted <= Capacity + clock + rewound

\* Refused requests do not put off the next token, although each of them moves
\* last, and some set it back: a request stamped Cost or more after the last one
\* granted is granted.
NotStarved == Allowed(Refilled(since + Cost))

-----------------------------------------------------------------------------
(* What makes the two inductive.                                            *)

\* A stamp is as old as its call.
StampsOK ==
  \A h \in Handlers : request[h].at = "script" =>
    request[h].now <= clock /\ clock <= request[h].now + MaxDelay

\* The keys are set by a request stamped earlier, and expire TTL after they are set.
BucketOK ==
  /\ bucket.tokens <= Capacity
  /\ bucket.last <= clock
  /\ bucket.expiry # 0 => bucket.last + TTL <= bucket.expiry

\* What was granted and what is left come from one full bucket and the time until
\* last; once the keys have expired the time has refilled the bucket.
FundedOK ==
  /\ bucket.expiry = 0 => granted = 0
  /\ granted + bucket.tokens <= Capacity + bucket.last + rewound

\* What was refilled since the last grant is still there.
KeptOK == bucket.tokens < Capacity => bucket.last <= since + bucket.tokens

\* The inductive invariant.
IInv ==
  /\ TypeOK
  /\ StampsOK /\ BucketOK /\ FundedOK /\ KeptOK
=============================================================================
