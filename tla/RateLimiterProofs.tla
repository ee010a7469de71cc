------------------------- MODULE RateLimiterProofs -------------------------
(***************************************************************************)
(* RateLimiter: for any number of handlers and any configuration that      *)
(* fills a bucket before its keys expire, IInv is inductive; with it, what *)
(* is granted is bounded, and refused requests starve nobody.              *)
(***************************************************************************)
EXTENDS RateLimiter, TLAPS

USE DEF Lower, Higher, Present

\* The domains of the state, in the form the arithmetic below needs.
LEMMA Numbers ==
  ASSUME TypeOK
  PROVE  /\ clock \in Nat /\ lost \in Nat /\ granted \in Nat /\ since \in Nat /\ rewound \in Nat
         /\ bucket.tokens \in Nat /\ bucket.last \in Nat /\ bucket.expiry \in Nat
         /\ \A h \in Handlers : request[h].now \in Nat
BY DEF TypeOK, Bucket, Request

\* What the script finds in the bucket is at most a full one.
LEMMA RefilledBounded ==
  ASSUME TypeOK, BucketOK, ConstantsAssumption, NEW now \in Nat
  PROVE  Refilled(now) \in Nat /\ Refilled(now) <= Capacity
<1>1. bucket.tokens \in Nat /\ bucket.last \in Nat /\ bucket.tokens <= Capacity /\ Capacity \in Nat
  BY Numbers DEF BucketOK, ConstantsAssumption
<1> QED BY <1>1 DEF Refilled

\* The script keeps what is granted within one full bucket and the time until
\* last, and loses nothing of what was refilled since the last grant.
LEMMA ScriptKeeps ==
  ASSUME IInv, ConstantsAssumption, ConfigAssumption, NEW h \in Handlers,
         request[h].at = "script", Script(request[h].now), clock' = clock
  PROVE  /\ bucket' \in Bucket /\ granted' \in Nat /\ since' \in Nat /\ rewound' \in Nat
         /\ BucketOK' /\ FundedOK' /\ KeptOK'
<1> DEFINE now == request[h].now
           full == Refilled(now)
<1>1. /\ clock \in Nat /\ granted \in Nat /\ since \in Nat /\ rewound \in Nat
      /\ bucket.tokens \in Nat /\ bucket.last \in Nat /\ bucket.expiry \in Nat /\ now \in Nat
  BY Numbers DEF IInv
<1>2. /\ Capacity \in Nat /\ Cost \in Nat /\ TTL \in Nat /\ MaxDelay \in Nat
      /\ 0 < Cost /\ Cost <= Capacity /\ Capacity + MaxDelay <= TTL
  BY DEF ConstantsAssumption, ConfigAssumption
<1>3. now <= clock /\ clock <= now + MaxDelay
  BY DEF IInv, StampsOK
<1>4. full \in Nat /\ full <= Capacity
  BY <1>1, RefilledBounded DEF IInv
<1>5. bucket' = [tokens |-> Charge(full), last |-> now, expiry |-> clock + TTL]
  BY DEF Script, Stored, Expires
<1>6. Charge(full) \in Nat /\ Charge(full) <= full
  BY <1>2, <1>4 DEF Charge, Allowed
<1>7. /\ bucket'.tokens = Charge(full) /\ bucket'.last = now /\ bucket'.expiry = clock + TTL
      /\ bucket' \in Bucket
  BY <1>1, <1>2, <1>5, <1>6 DEF Bucket
<1>8. /\ granted' \in Nat /\ since' \in Nat
      /\ granted' + bucket'.tokens = granted + full
  <2>1. CASE Allowed(full)
    <3>1. granted' = granted + Cost /\ since' = now /\ bucket'.tokens = full - Cost
      BY <1>7, <2>1 DEF Script, Charge
    <3> QED BY <1>1, <1>2, <1>4, <3>1
  <2>2. CASE ~Allowed(full)
    <3>1. granted' = granted /\ since' = since /\ bucket'.tokens = full
      BY <1>7, <2>2 DEF Script, Charge
    <3> QED BY <1>1, <1>4, <3>1
  <2> QED BY <2>1, <2>2
<1>9. rewound' \in Nat
  BY <1>1 DEF Script
<1>10. BucketOK'
  BY <1>1, <1>2, <1>3, <1>4, <1>6, <1>7 DEF BucketOK
<1>11. FundedOK'
  <2>1. granted + full <= Capacity + now + rewound'
    <3>1. granted + bucket.tokens <= Capacity + bucket.last + rewound
      BY DEF IInv, FundedOK
    <3>2. CASE Present
      <4>1. full <= bucket.tokens + Higher(0, now - bucket.last)
        BY <1>1, <1>2, <3>2 DEF Refilled
      <4>2. rewound' = rewound + Higher(0, bucket.last - now)
        BY <3>2 DEF Script
      <4> HIDE DEF full, now
      <4> QED BY <1>1, <1>2, <1>4, <3>1, <4>1, <4>2
    <3>3. CASE ~Present /\ bucket.expiry = 0
      <4>1. granted = 0 /\ rewound' = rewound + 0
        BY <3>3 DEF IInv, FundedOK, Script
      <4> HIDE DEF full, now
      <4> QED BY <1>1, <1>2, <1>4, <4>1
    <3>4. CASE ~Present /\ bucket.expiry # 0
      <4>1. bucket.last + TTL <= bucket.expiry /\ bucket.expiry <= clock /\ rewound' = rewound + 0
        BY <1>1, <3>4 DEF IInv, BucketOK, Script
      <4> HIDE DEF full, now
      <4>2. bucket.last + Capacity <= now
        BY <1>1, <1>2, <1>3, <4>1
      <4> QED BY <1>1, <1>2, <1>4, <3>1, <4>1, <4>2
    <3> QED BY <3>2, <3>3, <3>4
  <2>2. bucket'.expiry # 0
    BY <1>1, <1>2, <1>7
  <2> QED BY <1>7, <1>8, <2>1, <2>2 DEF FundedOK
<1>12. KeptOK'
  <2>1. CASE Allowed(full)
    <3>1. since' = now
      BY <2>1 DEF Script
    <3> QED BY <1>1, <1>6, <1>7, <3>1 DEF KeptOK
  <2>2. CASE ~Allowed(full)
    <3>1. since' = since /\ bucket'.tokens = full
      BY <1>7, <2>2 DEF Script, Charge
    <3>2. full < Cost /\ full < Capacity
      BY <1>2, <1>4, <2>2 DEF Allowed
    <3>3. Present /\ full = bucket.tokens + Higher(0, now - bucket.last) /\ bucket.tokens < Capacity
      BY <1>1, <1>2, <3>2 DEF Refilled
    <3>4. bucket.last <= since + bucket.tokens
      BY <3>3 DEF IInv, KeptOK
    <3>5. now <= since + full
      BY <1>1, <3>3, <3>4
    <3> QED BY <1>7, <3>1, <3>5 DEF KeptOK
  <2> QED BY <2>1, <2>2
<1> QED
  BY <1>7, <1>8, <1>9, <1>10, <1>11, <1>12

\* A handler's stamp is new, or the one it had.
LEMMA HandlerStep ==
  ASSUME IInv, ConstantsAssumption, NEW h \in Handlers, clock' = clock,
         \/ request' = request
         \/ Answered(h)
         \/ request' = [request EXCEPT ![h] = [at |-> "script", now |-> clock]]
  PROVE  request' \in [Handlers -> Request] /\ StampsOK'
<1>1. clock \in Nat /\ MaxDelay \in Nat /\ request \in [Handlers -> Request]
  BY Numbers DEF IInv, TypeOK, ConstantsAssumption
<1>2. CASE request' = request
  BY <1>1, <1>2 DEF IInv, StampsOK
<1>3. CASE Answered(h)
  <2>1. NoRequest \in Request /\ NoRequest.at = "stamp"
    BY DEF NoRequest, Request
  <2> QED BY <1>1, <1>3, <2>1 DEF Answered, IInv, StampsOK
<1>4. CASE request' = [request EXCEPT ![h] = [at |-> "script", now |-> clock]]
  <2>1. [at |-> "script", now |-> clock] \in Request
    BY <1>1 DEF Request
  <2> QED BY <1>1, <1>4, <2>1 DEF IInv, StampsOK
<1> QED
  BY <1>2, <1>3, <1>4

\* Every step keeps the invariant.
LEMMA Inductive ==
  ASSUME IInv, ConstantsAssumption, ConfigAssumption, [Next]_vars
  PROVE  IInv'
<1>0. TypeOK /\ StampsOK /\ BucketOK /\ FundedOK /\ KeptOK
  BY DEF IInv
<1>1. ASSUME NEW h \in Handlers, Stamp(h) PROVE IInv'
  <2>1. request' \in [Handlers -> Request] /\ StampsOK'
    BY <1>1, HandlerStep DEF Stamp
  <2> QED BY <1>0, <1>1, <2>1 DEF Stamp, hist, IInv, TypeOK, BucketOK, FundedOK, KeptOK
<1>2. ASSUME NEW h \in Handlers, request[h].at = "script", clock' = clock, lost' \in Nat,
             \/ Script(request[h].now)
             \/ UNCHANGED <<bucket, hist>>,
             Answered(h) \/ request' = request
      PROVE  IInv'
  <2>1. request' \in [Handlers -> Request] /\ StampsOK'
    BY <1>2, HandlerStep
  <2>2. CASE Script(request[h].now)
    <3>1. /\ bucket' \in Bucket /\ granted' \in Nat /\ since' \in Nat /\ rewound' \in Nat
          /\ BucketOK' /\ FundedOK' /\ KeptOK'
      BY <1>2, <2>2, ScriptKeeps
    <3> QED BY <1>0, <1>2, <2>1, <3>1 DEF IInv, TypeOK
  <2>3. CASE UNCHANGED <<bucket, hist>>
    BY <1>0, <1>2, <2>1, <2>3 DEF hist, IInv, TypeOK, BucketOK, FundedOK, KeptOK
  <2> QED BY <1>2, <2>2, <2>3
<1>3. lost + 1 \in Nat /\ lost \in Nat
  BY <1>0 DEF TypeOK
<1>4. ASSUME NEW h \in Handlers, AllowRequest(h) \/ LoseReply(h) \/ Unavailable(h) PROVE IInv'
  BY <1>2, <1>3, <1>4 DEF AllowRequest, LoseReply, Unavailable
<1>5. CASE Tick
  <2>1. clock' = clock + 1 /\ UNCHANGED <<bucket, request, lost, granted, since, rewound>>
    BY <1>5 DEF Tick, hist
  <2>2. clock \in Nat /\ bucket.last \in Nat /\ MaxDelay \in Nat
    BY <1>0, Numbers DEF ConstantsAssumption
  <2>3. TypeOK' /\ BucketOK' /\ FundedOK' /\ KeptOK'
    BY <1>0, <2>1, <2>2 DEF TypeOK, BucketOK, FundedOK, KeptOK
  <2>4. ASSUME NEW h \in Handlers, request[h].at = "script"
        PROVE  request[h].now <= clock + 1 /\ clock + 1 <= request[h].now + MaxDelay
    <3>1. request[h].now \in Nat /\ request[h].now <= clock /\ clock < request[h].now + MaxDelay
      BY <1>0, <1>5, <2>4, Numbers DEF StampsOK, Tick
    <3> QED BY <2>2, <3>1
  <2>5. StampsOK'
    BY <2>1, <2>4 DEF StampsOK
  <2> QED BY <2>3, <2>5 DEF IInv
<1>6. CASE UNCHANGED vars
  BY <1>0, <1>6 DEF vars, hist, IInv, TypeOK, StampsOK, BucketOK, FundedOK, KeptOK
<1> QED
  BY <1>1, <1>4, <1>5, <1>6 DEF Next

\* In every reachable state the invariant holds.
THEOREM Invariance == Spec => []IInv
<1>1. Init => IInv
  <2>1. ASSUME Init PROVE TypeOK
    BY <2>1 DEF Init, TypeOK, NoBucket, Bucket, NoRequest, Request
  <2>2. ASSUME Init PROVE StampsOK /\ BucketOK /\ FundedOK /\ KeptOK
    BY <2>2, ConstantsAssumption
       DEF Init, NoBucket, NoRequest, StampsOK, BucketOK, FundedOK, KeptOK, ConstantsAssumption
  <2> QED BY <2>1, <2>2 DEF IInv
<1>2. IInv /\ [Next]_vars => IInv'
  BY ConstantsAssumption, ConfigAssumption, Inductive
<1> QED
  BY <1>1, <1>2, PTL DEF Spec

\* Every variable stays in its domain: no bucket is overdrawn.
THEOREM TypeCorrect == Spec => []TypeOK
<1>1. IInv => TypeOK
  BY DEF IInv
<1> QED
  BY <1>1, Invariance, PTL

\* What was granted since the start is at most one full bucket, what the time has
\* refilled, and the time the late stamps have set back.
THEOREM GrantsAreBounded == Spec => []GrantedBounded
<1>1. IInv => GrantedBounded
  <2>1. ASSUME IInv PROVE GrantedBounded
    <3>1. granted + bucket.tokens <= Capacity + bucket.last + rewound /\ bucket.last <= clock
      BY <2>1 DEF IInv, FundedOK, BucketOK
    <3> QED BY <2>1, <3>1, Numbers, ConstantsAssumption DEF IInv, GrantedBounded, ConstantsAssumption
  <2> QED BY <2>1
<1> QED
  BY <1>1, Invariance, PTL

\* A request stamped Cost after the last one granted is granted, however many
\* requests were refused in between.
THEOREM NobodyStarves == Spec => []NotStarved
<1>1. IInv => NotStarved
  <2>1. ASSUME IInv PROVE NotStarved
    <3>1. /\ bucket.tokens < Capacity => bucket.last <= since + bucket.tokens
          /\ bucket.tokens \in Nat /\ bucket.last \in Nat /\ since \in Nat
      BY <2>1, Numbers DEF IInv, KeptOK
    <3>2. Capacity \in Nat /\ Cost \in Nat /\ Cost <= Capacity
      BY ConstantsAssumption, ConfigAssumption DEF ConstantsAssumption, ConfigAssumption
    <3> QED BY <3>1, <3>2 DEF NotStarved, Allowed, Refilled
  <2> QED BY <2>1
<1> QED
  BY <1>1, Invariance, PTL
=============================================================================
