------------------------- MODULE RegistrationProofs -------------------------
(***************************************************************************)
(* Registration: for any emails, registrations, handlers and failures, the *)
(* invariant IInv is inductive; with it, every account was proved by the   *)
(* OTP mailed for it, and the guesses at an OTP are bounded.               *)
(***************************************************************************)
EXTENDS Registration, FiniteSetTheorems, TLAPS

\* The control variables: what VerifyGoesTo, VerifyEnds and RegisterGoesTo do.
LEMMA RegisterMoves ==
  ASSUME TypeOK, NEW r \in Registrations,
         NEW call \in {"CreateUser", "SaveVerificationData", "send", "end"}, RegisterGoesTo(r, call)
  PROVE  /\ register' \in [Registrations -> Registering]
         /\ register'[r].call = call /\ register'[r].email = register[r].email
         /\ register'[r].saving = register[r].saving
         /\ \A s \in Registrations \ {r} : register'[s] = register[s]
BY DEF RegisterGoesTo, TypeOK, Registering

LEMMA VerifyMoves ==
  ASSUME TypeOK, NEW v \in Attempts,
         NEW call \in {"DelExhausted", "DelProved", "PersistUserInfo", "PersistUserPreferenes",
                       "DeleteUserFromStaging"}, VerifyGoesTo(v, call)
  PROVE  /\ verify' \in [Attempts -> Verifying]
         /\ verify'[v].call = call /\ verify'[v].email = verify[v].email
         /\ \A w \in Attempts \ {v} : verify'[w] = verify[w]
BY DEF VerifyGoesTo, TypeOK, Verifying

LEMMA VerifyReturns ==
  ASSUME TypeOK, NEW v \in Attempts, VerifyEnds(v)
  PROVE  /\ verify' \in [Attempts -> Verifying]
         /\ verify'[v] = NoRequest
         /\ \A w \in Attempts \ {v} : verify'[w] = verify[w]
BY DEF VerifyEnds, NoRequest, TypeOK, Verifying

LEMMA AgainstNone ==
  ASSUME TypeOK, NEW v \in Attempts, CountAgain(v)
  PROVE  /\ verify' \in [Attempts -> Verifying]
         /\ verify'[v] = [verify[v] EXCEPT !.against = None]
         /\ \A w \in Attempts \ {v} : verify'[w] = verify[w]
<1>1. verify' = [verify EXCEPT ![v] = [verify[v] EXCEPT !.against = None]]
  BY DEF CountAgain, TypeOK
<1>2. [verify[v] EXCEPT !.against = None] \in Verifying
  BY DEF TypeOK, Verifying
<1> QED
  BY <1>1, <1>2 DEF TypeOK

\* Every step keeps the variables in their domains: one lemma for each handler.
LEMMA RegisterTypes ==
  ASSUME TypeOK, ControlOK, NEW r \in Registrations, RegisterStep(r)
  PROVE  TypeOK'
<1> DEFINE e == register[r].email
<1>0. Registers(r, "CreateUser") \/ Registers(r, "SaveVerificationData") \/ Registers(r, "send") => e \in Emails
  BY DEF ControlOK, Registers
<1>1. CASE GetUserByEmail(r)
  <2>1. register' \in [Registrations -> Registering]
    <3>1. CASE RegisterGoesTo(r, "end")
      BY <3>1, RegisterMoves
    <3>2. ASSUME NEW f \in Emails,
                 register' = [register EXCEPT ![r].call = "CreateUser", ![r].email = f]
          PROVE  register' \in [Registrations -> Registering]
      <4>1. register' = [register EXCEPT ![r] = [register[r] EXCEPT !.call = "CreateUser", !.email = f]]
        BY <3>2 DEF TypeOK
      <4>2. [register[r] EXCEPT !.call = "CreateUser", !.email = f] \in Registering
        BY DEF TypeOK, Registering
      <4> QED BY <4>1, <4>2 DEF TypeOK
    <3> QED BY <1>1, <3>1, <3>2 DEF GetUserByEmail
  <2> QED BY <1>1, <2>1 DEF GetUserByEmail, TypeOK, Fault, NoFault, rows, hist
<1>2. CASE CreateUser(r)
  <2>1. register' \in [Registrations -> Registering]
    BY <1>2, RegisterMoves DEF CreateUser
  <2> QED BY <1>2, <2>1 DEF CreateUser, TypeOK, Fault, NoFault, hist
<1>3. CASE SaveVerificationData(r)
  <2>1. register' \in [Registrations -> Registering]
    BY <1>3, RegisterMoves DEF SaveVerificationData
  <2>2. e \in Emails
    BY <1>0, <1>3 DEF SaveVerificationData
  <2> QED BY <1>3, <2>1, <2>2 DEF SaveVerificationData, TypeOK, Fault, NoFault, hist
<1>4. CASE SaveOtp(r) \/ SaveAgain(r)
  <2>1. e \in Emails /\ otp \in [Emails -> OtpHash] /\ saves \in [Registrations -> Nat]
    BY <1>0, <1>4 DEF SaveOtp, SaveAgain, TypeOK
  <2>2. HSet(r) \in OtpHash /\ HExpire(otp[e]) \in OtpHash
    BY <2>1 DEF HSet, HExpire, OtpHash
  <2>3. Saved(r) \/ Timed(r) \/ UNCHANGED <<otp, saves>>
    BY <1>4 DEF SaveOtp, SaveAgain
  <2>4. otp' \in [Emails -> OtpHash] /\ saves' \in [Registrations -> Nat]
    BY <2>1, <2>2, <2>3 DEF Saved, Timed
  <2>5. register' \in [Registrations -> Registering]
    BY <1>4 DEF SaveOtp, SaveAgain, TypeOK, Registering
  <2> QED BY <1>4, <2>4, <2>5 DEF SaveOtp, SaveAgain, TypeOK, Fault, NoFault, rows
<1>5. CASE SendVerificationEmail(r)
  BY <1>5 DEF SendVerificationEmail, TypeOK, Registering, rows, hist
<1> QED
  BY <1>1, <1>2, <1>3, <1>4, <1>5 DEF RegisterStep

LEMMA VerifyTypes ==
  ASSUME TypeOK, ControlOK, NEW v \in Attempts, VerifyStep(v)
  PROVE  TypeOK'
<1> DEFINE e == verify[v].email
<1>0. /\ verify[v].call # "RetrieveVerificationData" => e \in Emails
      /\ verify[v] \in Verifying /\ otp \in [Emails -> OtpHash] /\ users \in [Emails -> User]
  BY DEF ControlOK, TypeOK
<1>1. CASE RetrieveVerificationData(v)
  <2>1. PICK f \in verification, guess \in mailed \cup {None} :
          verify' = [verify EXCEPT ![v].call = "HGetAll", ![v].email = f, ![v].guess = guess]
    BY <1>1 DEF RetrieveVerificationData
  <2>2. verify' = [verify EXCEPT ![v] = [verify[v] EXCEPT !.call = "HGetAll", !.email = f, !.guess = guess]]
    BY <2>1 DEF TypeOK
  <2>3. guess \in Registrations \cup {None} /\ f \in Emails
    BY DEF TypeOK
  <2>4. [verify[v] EXCEPT !.call = "HGetAll", !.email = f, !.guess = guess] \in Verifying
    BY <1>0, <2>3 DEF Verifying
  <2> QED BY <1>1, <2>2, <2>4 DEF RetrieveVerificationData, TypeOK, rows, hist
<1>2. CASE HGetAll(v)
  <2>1. e \in Emails /\ otp[e] \in OtpHash
    BY <1>0, <1>2 DEF HGetAll, Verifies
  <2>2. verify' \in [Attempts -> Verifying]
    <3>1. CASE VerifyEnds(v) \/ VerifyGoesTo(v, "DelExhausted") \/ VerifyGoesTo(v, "DelProved")
      BY <3>1, VerifyMoves, VerifyReturns
    <3>2. CASE verify' = [verify EXCEPT ![v].call = "HIncrBy", ![v].against = otp[e].otp]
      <4>1. [verify[v] EXCEPT !.call = "HIncrBy", !.against = otp[e].otp] \in Verifying
        BY <1>0, <2>1 DEF Verifying, OtpHash
      <4>2. verify' = [verify EXCEPT ![v] = [verify[v] EXCEPT !.call = "HIncrBy", !.against = otp[e].otp]]
        BY <3>2 DEF TypeOK
      <4> QED BY <4>1, <4>2 DEF TypeOK
    <3> QED BY <1>2, <3>1, <3>2 DEF HGetAll
  <2>3. proved' \in SUBSET Registrations
    BY <1>2, <2>1 DEF HGetAll, Matches, OtpHash, TypeOK
  <2>4. wrong' \in [Registrations -> Nat]
    BY <1>2 DEF HGetAll, TypeOK
  <2> QED BY <1>2, <2>2, <2>3, <2>4 DEF HGetAll, TypeOK, Fault, NoFault, rows
<1>3. CASE DelExhausted(v) \/ DelProved(v) \/ DelAgain(v)
  <2>1. verify' \in [Attempts -> Verifying]
    BY <1>3, VerifyMoves, VerifyReturns DEF DelExhausted, DelProved, DelAgain, TypeOK
  <2>2. otp' \in [Emails -> OtpHash]
    <3>1. NoHash \in OtpHash
      BY DEF NoHash, OtpHash
    <3> QED BY <1>0, <1>3, <3>1 DEF DelExhausted, DelProved, Del, DelAgain
  <2> QED BY <1>3, <2>1, <2>2 DEF DelExhausted, DelProved, Del, DelAgain, TypeOK, Fault, NoFault, rows, hist
<1>4. CASE CountTry(v)
  <2>1. verify' \in [Attempts -> Verifying]
    BY <1>4, VerifyReturns DEF CountTry
  <2>2. e \in Emails /\ HIncrBy(otp[e]) \in OtpHash
    BY <1>0, <1>4 DEF CountTry, Verifies, HIncrBy, OtpHash
  <2>3. otp' \in [Emails -> OtpHash]
    BY <1>0, <1>4, <2>2 DEF CountTry
  <2>4. uncounted' \in [Registrations -> Nat]
    BY <1>4 DEF CountTry, NotCounted, TypeOK
  <2> QED BY <1>4, <2>1, <2>3, <2>4 DEF CountTry, TypeOK, Fault, NoFault, rows
<1>8. CASE CountAgain(v)
  <2>1. e \in Emails /\ HIncrBy(otp[e]) \in OtpHash
    BY <1>0, <1>8 DEF CountAgain, Verifies, HIncrBy, OtpHash
  <2>2. otp' \in [Emails -> OtpHash]
    BY <1>0, <1>8, <2>1 DEF CountAgain
  <2>3. verify' \in [Attempts -> Verifying]
    BY <1>8, AgainstNone
  <2> QED BY <1>8, <2>2, <2>3 DEF CountAgain, TypeOK, Fault, rows, hist
<1>5. CASE PersistUserInfo(v)
  <2>1. verify' \in [Attempts -> Verifying]
    BY <1>5, VerifyMoves, VerifyReturns DEF PersistUserInfo
  <2>2. e \in Emails /\ staging[e] \in Registrations \cup {None}
    BY <1>0, <1>5 DEF PersistUserInfo, Verifies, TypeOK
  <2>3. [info |-> staging[e], by |-> v, preferences |-> FALSE] \in User
    BY <2>2 DEF User
  <2>4. users' \in [Emails -> User]
    BY <1>0, <1>5, <2>3 DEF PersistUserInfo
  <2>5. interrupted' \in SUBSET Emails
    BY <1>5, <2>2 DEF PersistUserInfo, TypeOK
  <2> QED BY <1>5, <2>1, <2>4, <2>5 DEF PersistUserInfo, TypeOK, Fault, NoFault
<1>6. CASE PersistUserPreferenes(v)
  <2>1. verify' \in [Attempts -> Verifying]
    BY <1>6, VerifyMoves, VerifyReturns DEF PersistUserPreferenes
  <2>2. users' \in [Emails -> User]
    <3>1. e \in Emails /\ users[e] \in User
      BY <1>0, <1>6 DEF PersistUserPreferenes, Verifies
    <3>2. [users[e] EXCEPT !.preferences = TRUE] \in User
      BY <3>1 DEF User
    <3>3. [users EXCEPT ![e].preferences = TRUE] = [users EXCEPT ![e] = [users[e] EXCEPT !.preferences = TRUE]]
      BY <1>0
    <3>4. [users EXCEPT ![e].preferences = TRUE] \in [Emails -> User]
      BY <1>0, <3>1, <3>2, <3>3
    <3> QED BY <1>0, <1>6, <3>4 DEF PersistUserPreferenes
  <2>3. interrupted' \in SUBSET Emails
    BY <1>0, <1>6 DEF PersistUserPreferenes, Interrupts, Verifies, TypeOK
  <2> QED BY <1>6, <2>1, <2>2, <2>3 DEF PersistUserPreferenes, TypeOK, Fault, NoFault
<1>7. CASE DeleteUserFromStaging(v)
  <2>1. verify' \in [Attempts -> Verifying]
    BY <1>7, VerifyReturns DEF DeleteUserFromStaging
  <2>2. interrupted' \in SUBSET Emails
    BY <1>0, <1>7 DEF DeleteUserFromStaging, Interrupts, Verifies, TypeOK
  <2> QED BY <1>7, <2>1, <2>2 DEF DeleteUserFromStaging, TypeOK, Fault, NoFault
<1> QED
  BY <1>1, <1>2, <1>3, <1>4, <1>5, <1>6, <1>7, <1>8 DEF VerifyStep

\* A restart counts the guesses it loses, and there are finitely many.
LEMMA PendingFinite ==
  ASSUME ConstantsAssumption, NEW r
  PROVE  IsFiniteSet(Pending(r)) /\ Cardinality(Pending(r)) \in Nat
<1>1. Pending(r) \subseteq Attempts /\ IsFiniteSet(Attempts)
  BY DEF Pending, ConstantsAssumption
<1> QED BY <1>1, FS_Subset, FS_CardinalityType

LEMMA TypeStep ==
  ASSUME TypeOK, ControlOK, ConstantsAssumption, [Next]_vars
  PROVE  TypeOK'
<1>1. ASSUME NEW e \in Emails, Expire(e) PROVE TypeOK'
  BY <1>1 DEF Expire, TypeOK, OtpHash, NoHash, rows, hist
<1>2. ASSUME NEW e \in Emails, DeleteUser(e) PROVE TypeOK'
  BY <1>2 DEF DeleteUser, TypeOK, User, NoUser
<1>3. CASE Restart
  <2>1. register' \in [Registrations -> Registering]
    BY <1>3 DEF Restart, TypeOK, Registering
  <2>2. verify' \in [Attempts -> Verifying]
    BY <1>3 DEF Restart, TypeOK, Verifying, NoRequest
  <2>3. uncounted' \in [Registrations -> Nat]
    BY <1>3, PendingFinite DEF Restart, TypeOK
  <2>4. interrupted' \in SUBSET Emails
    BY <1>3 DEF Restart, Unfinished, ControlOK, TypeOK
  <2> QED BY <1>3, <2>1, <2>2, <2>3, <2>4 DEF Restart, TypeOK, Fault, rows
<1>4. CASE UNCHANGED vars
  BY <1>4 DEF vars, TypeOK, rows, hist
<1> QED
  BY <1>1, <1>2, <1>3, <1>4, RegisterTypes, VerifyTypes DEF Next

-----------------------------------------------------------------------------
\* A step of one registration, or of one handler, leaves the others alone.
LEMMA RegisterLocal ==
  ASSUME TypeOK, NEW r \in Registrations, RegisterStep(r)
  PROVE  /\ \A s \in Registrations \ {r} : register'[s] = register[s]
         /\ UNCHANGED <<users, verify, proved, wrong, uncounted, deleted, interrupted>>
BY DEF RegisterStep, GetUserByEmail, CreateUser, SaveVerificationData, SaveOtp, SaveAgain,
       SendVerificationEmail, RegisterGoesTo, TypeOK, rows, hist

LEMMA VerifyLocal ==
  ASSUME TypeOK, NEW v \in Attempts, VerifyStep(v)
  PROVE  /\ \A w \in Attempts \ {v} : verify'[w] = verify[w]
         /\ UNCHANGED <<register, mailed, saves, deleted>>
<1>1. CASE CountAgain(v)
  BY <1>1, AgainstNone DEF CountAgain, hist
<1> QED
  BY <1>1 DEF VerifyStep, RetrieveVerificationData, HGetAll, DelExhausted, DelProved, Del, DelAgain,
     CountTry, PersistUserInfo, PersistUserPreferenes, DeleteUserFromStaging, VerifyGoesTo, VerifyEnds,
     TypeOK, hist

\* Where a step of a registration leads, and what it keeps.
LEMMA RegisterControl ==
  ASSUME TypeOK, ControlOK, NEW r \in Registrations, RegisterStep(r)
  PROVE  /\ register'[r].call # "GetUserByEmail"
         /\ register'[r].call \in {"CreateUser", "SaveVerificationData", "send"} =>
              /\ register'[r].email \in Emails
              /\ register'[r].call = "CreateUser" => register[r].call = "GetUserByEmail"
              /\ register'[r].call = "SaveVerificationData" => register[r].call = "CreateUser"
              /\ register'[r].call = "send" => register[r].call \in {"SaveVerificationData", "send"}
         /\ register[r].call # "GetUserByEmail" => register'[r].email = register[r].email
         /\ register'[r].call \in {"CreateUser", "SaveVerificationData"} => register'[r].saving = "HSet"
         /\ register'[r].saving = "HSet" => register[r].saving = "HSet"
<1> USE DEF Registers
<1>0. register[r] \in Registering
  BY DEF TypeOK
<1>1. CASE GetUserByEmail(r)
  <2>1. CASE RegisterGoesTo(r, "end")
    BY <1>0, <1>1, <2>1, RegisterMoves DEF GetUserByEmail
  <2>2. ASSUME NEW f \in Emails,
               register' = [register EXCEPT ![r].call = "CreateUser", ![r].email = f]
        PROVE  /\ register'[r].call = "CreateUser" /\ register'[r].email = f
               /\ register'[r].saving = register[r].saving
    <3>1. register'[r] = [register[r] EXCEPT !.call = "CreateUser", !.email = f]
      BY <2>2 DEF TypeOK
    <3> QED BY <1>0, <3>1 DEF Registering
  <2> QED BY <1>0, <1>1, <2>1, <2>2, RegisterMoves DEF GetUserByEmail, ControlOK
<1>2. CASE CreateUser(r)
  BY <1>2, RegisterMoves DEF CreateUser, ControlOK
<1>3. CASE SaveVerificationData(r)
  BY <1>3, RegisterMoves DEF SaveVerificationData, ControlOK
<1>4. CASE SaveOtp(r) \/ SaveAgain(r)
  BY <1>0, <1>4 DEF SaveOtp, SaveAgain, ControlOK, TypeOK, Registering
<1>5. CASE SendVerificationEmail(r)
  BY <1>0, <1>5 DEF SendVerificationEmail, ControlOK, TypeOK, Registering
<1> QED
  BY <1>1, <1>2, <1>3, <1>4, <1>5 DEF RegisterStep

\* The same of a handler that verifies.
LEMMA VerifyControl ==
  ASSUME TypeOK, ControlOK, NEW v \in Attempts, VerifyStep(v)
  PROVE  /\ verify'[v].call # "RetrieveVerificationData" => verify'[v].email \in Emails
         /\ verify'[v].call \notin {"RetrieveVerificationData", "HGetAll"}
              => verify'[v].email = verify[v].email
         /\ verify'[v].call = "DelProved" => HGetAll(v) \/ (DelAgain(v) /\ verify' = verify)
         /\ verify'[v].call = "HIncrBy" =>
              \/ HGetAll(v) /\ verify'[v].against = otp[verify[v].email].otp
              \/ CountAgain(v) /\ verify'[v].against = None
         /\ verify'[v].call = "PersistUserInfo" => verify[v].call = "DelProved"
         /\ verify'[v].call = "PersistUserPreferenes" => PersistUserInfo(v) /\ HasUser(verify[v].email)'
         /\ verify'[v].call = "DeleteUserFromStaging" => verify[v].call = "PersistUserPreferenes"
<1> USE DEF Verifies
<1>0. verify[v] \in Verifying
  BY DEF TypeOK
<1>1. CASE RetrieveVerificationData(v)
  <2>1. PICK f \in verification, guess \in mailed \cup {None} :
          verify' = [verify EXCEPT ![v].call = "HGetAll", ![v].email = f, ![v].guess = guess]
    BY <1>1 DEF RetrieveVerificationData
  <2>2. verify'[v] = [verify[v] EXCEPT !.call = "HGetAll", !.email = f, !.guess = guess]
    BY <2>1 DEF TypeOK
  <2>3. verify'[v].call = "HGetAll" /\ verify'[v].email = f /\ f \in Emails
    BY <1>0, <2>2 DEF Verifying, TypeOK
  <2> QED BY <2>3
<1>2. CASE HGetAll(v)
  <2>1. CASE VerifyGoesTo(v, "DelExhausted") \/ VerifyGoesTo(v, "DelProved")
    <3>1. verify[v].call = "HGetAll"
      BY <1>2 DEF HGetAll
    <3> QED BY <1>2, <2>1, <3>1, VerifyMoves DEF ControlOK
  <2>3. CASE VerifyEnds(v)
    BY <2>3, VerifyReturns DEF NoRequest
  <2>2. CASE verify' = [verify EXCEPT ![v].call = "HIncrBy", ![v].against = otp[verify[v].email].otp]
    <3>1. verify'[v] = [verify[v] EXCEPT !.call = "HIncrBy", !.against = otp[verify[v].email].otp]
      BY <2>2 DEF TypeOK
    <3>2. /\ verify'[v].call = "HIncrBy" /\ verify'[v].email = verify[v].email
          /\ verify'[v].against = otp[verify[v].email].otp
      BY <1>0, <3>1 DEF Verifying
    <3> QED BY <1>2, <3>2 DEF ControlOK, HGetAll
  <2> QED BY <1>2, <2>1, <2>2, <2>3 DEF HGetAll
<1>3. CASE DelExhausted(v) \/ CountTry(v) \/ DeleteUserFromStaging(v)
  BY <1>3, VerifyReturns DEF DelExhausted, CountTry, DeleteUserFromStaging, NoRequest
<1>4. CASE DelProved(v)
  BY <1>4, VerifyMoves DEF DelProved, ControlOK
<1>5. CASE PersistUserInfo(v)
  <2>1. CASE VerifyEnds(v)
    BY <2>1, VerifyReturns DEF NoRequest
  <2>2. CASE ~VerifyEnds(v)
    <3>1. verify[v].email \in Emails /\ staging[verify[v].email] # None
      BY <1>5, <2>2 DEF PersistUserInfo, ControlOK
    <3>2. VerifyGoesTo(v, "PersistUserPreferenes") /\ HasUser(verify[v].email)'
      <4>1. users'[verify[v].email] = [info |-> staging[verify[v].email], by |-> v, preferences |-> FALSE]
        BY <1>5, <2>2, <3>1 DEF PersistUserInfo, TypeOK
      <4>2. verify'[v].email = verify[v].email
        BY <1>5, <2>2, VerifyMoves DEF PersistUserInfo
      <4> QED BY <1>5, <2>2, <3>1, <4>1, <4>2 DEF PersistUserInfo, HasUser
    <3> QED BY <1>5, <3>1, <3>2, VerifyMoves
  <2> QED BY <2>1, <2>2
<1>6. CASE PersistUserPreferenes(v)
  BY <1>6, VerifyMoves, VerifyReturns DEF PersistUserPreferenes, ControlOK, NoRequest
<1>7. CASE DelAgain(v)
  BY <1>7 DEF DelAgain, ControlOK
<1>8. CASE CountAgain(v)
  <2>1. verify'[v].call = "HIncrBy" /\ verify'[v].email = verify[v].email /\ verify'[v].against = None
    BY <1>0, <1>8, AgainstNone DEF CountAgain, Verifying
  <2> QED BY <1>8, <2>1 DEF ControlOK, CountAgain
<1> QED
  BY <1>1, <1>2, <1>3, <1>4, <1>5, <1>6, <1>7, <1>8 DEF VerifyStep

\* A handler always knows its email.
LEMMA ControlStep ==
  ASSUME TypeOK, ControlOK, [Next]_vars
  PROVE  ControlOK'
<1>1. ASSUME NEW r \in Registrations, RegisterStep(r) PROVE ControlOK'
  BY <1>1, RegisterControl, RegisterLocal DEF ControlOK
<1>2. ASSUME NEW v \in Attempts, VerifyStep(v) PROVE ControlOK'
  BY <1>2, VerifyControl, VerifyLocal DEF ControlOK
<1>3. CASE Restart
  BY <1>3 DEF Restart, ControlOK, TypeOK, Registering, NoRequest
<1>4. CASE UNCHANGED <<register, verify>>
  BY <1>4 DEF ControlOK
<1> QED
  BY <1>1, <1>2, <1>3, <1>4 DEF Next, vars, Expire, DeleteUser

-----------------------------------------------------------------------------
\* What is needed of HGetAll: a handler that goes on to DelProved found its guess
\* to be the saved OTP; one that goes on to HIncrBy had a try left.
LEMMA HGetAllFacts ==
  ASSUME TypeOK, ControlOK, NEW v \in Attempts, HGetAll(v)
  PROVE  /\ verify[v].email \in Emails
         /\ verify'[v].call = "DelProved" =>
              /\ otp[verify[v].email].otp # None
              /\ proved' = proved \cup {otp[verify[v].email].otp}
         /\ proved \subseteq proved' /\ proved' \subseteq proved \cup ({verify[v].guess} \ {None})
         /\ verify'[v].call = "HIncrBy" => otp[verify[v].email].tries < MaxTries
         /\ \/ UNCHANGED wrong
            \/ /\ verify'[v].call = "HIncrBy"
               /\ wrong' = [r \in Registrations |->
                              wrong[r] + IF r = otp[verify[v].email].otp THEN 1 ELSE 0]
         /\ verify'[v].call # "HIncrBy" => UNCHANGED wrong
<1>0. verify[v] \in Verifying /\ verify[v].email \in Emails /\ otp[verify[v].email] \in OtpHash
  BY DEF HGetAll, Verifies, ControlOK, TypeOK
<1>1. CASE VerifyEnds(v) /\ UNCHANGED <<proved, wrong>>
  BY <1>0, <1>1, VerifyReturns DEF NoRequest
<1>2. CASE VerifyGoesTo(v, "DelExhausted") /\ UNCHANGED <<proved, wrong>>
  BY <1>0, <1>2, VerifyMoves
<1>3. CASE /\ ~Exhausted(otp[verify[v].email])
           /\ verify' = [verify EXCEPT ![v].call = "HIncrBy", ![v].against = otp[verify[v].email].otp]
           /\ wrong' = [r \in Registrations |-> wrong[r] + IF r = otp[verify[v].email].otp THEN 1 ELSE 0]
           /\ UNCHANGED proved
  <2>1. verify'[v] = [verify[v] EXCEPT !.call = "HIncrBy", !.against = otp[verify[v].email].otp]
    BY <1>3 DEF TypeOK
  <2>2. verify'[v].call = "HIncrBy"
    BY <1>0, <2>1 DEF Verifying
  <2>3. otp[verify[v].email].tries < MaxTries
    BY <1>0, <1>3, ConstantsAssumption DEF Exhausted, OtpHash, ConstantsAssumption
  <2> QED BY <1>0, <1>3, <2>2, <2>3
<1>4. CASE /\ Matches(otp[verify[v].email], verify[v].guess)
           /\ VerifyGoesTo(v, "DelProved")
           /\ proved' = proved \cup {otp[verify[v].email].otp}
           /\ UNCHANGED wrong
  BY <1>0, <1>4, VerifyMoves DEF Matches
<1> QED
  BY <1>1, <1>2, <1>3, <1>4 DEF HGetAll

\* The preferences are a field of their own.
LEMMA SameInfo ==
  ASSUME TypeOK, NEW v \in Attempts, PersistUserPreferenes(v), NEW e \in Emails
  PROVE  users'[e].info = users[e].info /\ users'[e].by = users[e].by
<1>1. users \in [Emails -> User] /\ users[e] \in User
  BY DEF TypeOK
<1>2. users' \in {users, [users EXCEPT ![verify[v].email].preferences = TRUE]}
  BY DEF PersistUserPreferenes
<1> QED
  BY <1>1, <1>2 DEF User

\* Only a handler that persists makes an account, and only DeleteUser ends one:
\* once an email is not fresh it never is again.
LEMMA FreshStep ==
  ASSUME TypeOK, ControlOK, [Next]_vars
  PROVE  \A e \in Emails : Fresh(e)' => Fresh(e)
<1>1. ASSUME NEW r \in Registrations, RegisterStep(r) PROVE \A e \in Emails : Fresh(e)' => Fresh(e)
  BY <1>1, RegisterLocal DEF Fresh, HasUser, hist
<1>2. ASSUME NEW v \in Attempts, VerifyStep(v) PROVE \A e \in Emails : Fresh(e)' => Fresh(e)
  <2>1. CASE UNCHANGED users
    BY <1>2, <2>1, VerifyLocal DEF Fresh, HasUser
  <2>2. CASE PersistUserInfo(v)
    <3>1. \A e \in Emails : users[e].info # None => users'[e].info # None
      BY <2>2 DEF PersistUserInfo, TypeOK, HasUser
    <3> QED BY <1>2, <3>1, VerifyLocal DEF Fresh, HasUser
  <2>3. CASE PersistUserPreferenes(v)
    <3>1. \A e \in Emails : users'[e].info = users[e].info
      BY <2>3, SameInfo
    <3> QED BY <1>2, <3>1, VerifyLocal DEF Fresh, HasUser
  <2> QED BY <1>2, <2>1, <2>2, <2>3 DEF VerifyStep, RetrieveVerificationData, HGetAll,
             DelExhausted, DelProved, Del, DelAgain, CountTry, CountAgain, DeleteUserFromStaging, rows
<1>3. ASSUME NEW f \in Emails, DeleteUser(f) PROVE \A e \in Emails : Fresh(e)' => Fresh(e)
  BY <1>3 DEF DeleteUser, Fresh, HasUser, TypeOK
<1>4. CASE UNCHANGED <<users, deleted>>
  BY <1>4 DEF Fresh, HasUser
<1> QED
  BY <1>1, <1>2, <1>3, <1>4 DEF Next, vars, Expire, Restart, rows, hist

\* While an email is fresh its staging row stays, once it is there.
LEMMA StagingRow ==
  ASSUME TypeOK, ControlOK, StagingOK, [Next]_vars, NEW e \in Emails, Fresh(e)', staging[e] # None
  PROVE  staging'[e] = staging[e]
<1>1. ASSUME NEW r \in Registrations, RegisterStep(r) PROVE staging'[e] = staging[e]
  BY <1>1 DEF RegisterStep, GetUserByEmail, CreateUser, SaveVerificationData, SaveOtp, SaveAgain,
              SendVerificationEmail, TypeOK, rows
<1>2. ASSUME NEW v \in Attempts, DeleteUserFromStaging(v) PROVE staging'[e] = staging[e]
  <2>1. ~Fresh(verify[v].email) /\ Fresh(e)
    BY <1>2, FreshStep DEF StagingOK, DeleteUserFromStaging, Verifies
  <2> QED BY <1>2, <2>1 DEF DeleteUserFromStaging, TypeOK
<1>3. CASE UNCHANGED staging
  BY <1>3
<1> QED
  BY <1>1, <1>2, <1>3 DEF Next, vars, VerifyStep, RetrieveVerificationData, HGetAll, DelExhausted,
     DelProved, Del, DelAgain, CountTry, CountAgain, PersistUserInfo, PersistUserPreferenes, Expire,
     DeleteUser, Restart, rows

\* Only the HSET of SaveOTP puts an OTP into a hash.
LEMMA OtpField ==
  ASSUME TypeOK, ControlOK, [Next]_vars, NEW e \in Emails
  PROVE  \/ otp'[e].otp \in {None, otp[e].otp}
         \/ \E r \in Registrations : /\ RegisterStep(r) /\ register[r].call = "send" /\ register[r].email = e
                                     /\ Saved(r) /\ otp'[e] = HSet(r)
<1>0. otp[e] \in OtpHash
  BY DEF TypeOK
<1>1. ASSUME NEW r \in Registrations, SaveOtp(r) \/ SaveAgain(r)
      PROVE  \/ otp'[e].otp = otp[e].otp
             \/ /\ RegisterStep(r) /\ register[r].call = "send" /\ register[r].email = e
                /\ Saved(r) /\ otp'[e] = HSet(r)
  <2>1. RegisterStep(r) /\ register[r].call = "send" /\ (Saved(r) \/ Timed(r) \/ otp' = otp)
    BY <1>1 DEF SaveOtp, SaveAgain, RegisterStep, Registers
  <2>2. CASE Saved(r)
    BY <2>1, <2>2 DEF Saved, TypeOK
  <2>3. CASE Timed(r)
    <3>1. HExpire(otp[e]).otp = otp[e].otp
      BY <1>0 DEF HExpire, OtpHash
    <3> QED BY <2>3, <3>1 DEF Timed, TypeOK
  <2> QED BY <2>1, <2>2, <2>3
<1>2. ASSUME NEW v \in Attempts, VerifyStep(v) PROVE otp'[e].otp \in {None, otp[e].otp}
  <2>1. CASE UNCHANGED otp
    BY <2>1
  <2>2. CASE otp' = [otp EXCEPT ![verify[v].email] = NoHash]
    BY <2>2 DEF NoHash, TypeOK
  <2>3. CASE otp' = [otp EXCEPT ![verify[v].email] = HIncrBy(@)]
    BY <1>0, <2>3 DEF HIncrBy, TypeOK, OtpHash
  <2> QED BY <1>2, <2>1, <2>2, <2>3 DEF VerifyStep, RetrieveVerificationData, HGetAll, DelExhausted,
             DelProved, Del, DelAgain, CountTry, CountAgain, PersistUserInfo, PersistUserPreferenes,
             DeleteUserFromStaging
<1>3. ASSUME NEW f \in Emails, Expire(f) PROVE otp'[e].otp \in {None, otp[e].otp}
  BY <1>3 DEF Expire, NoHash, TypeOK
<1>4. CASE UNCHANGED otp
  BY <1>4
<1> QED
  BY <1>1, <1>2, <1>3, <1>4 DEF Next, vars, RegisterStep, GetUserByEmail, CreateUser,
     SaveVerificationData, SendVerificationEmail, DeleteUser, Restart

\* While an email is fresh, what registers, what is saved and what was proved for
\* it is the registration in its staging row.
LEMMA StagingStep ==
  ASSUME TypeOK, ControlOK, StagingOK, ConstantsAssumption, [Next]_vars
  PROVE  StagingOK'
<1> USE DEF StagingOK
<1>0. None \notin Registrations /\ ControlOK' /\ TypeOK'
  BY ControlStep, TypeStep DEF ConstantsAssumption
<1>1. ASSUME NEW r \in Registrations, NEW e \in Emails, register'[r].email = e, Fresh(e)',
             register'[r].call \in {"SaveVerificationData", "send"}
      PROVE  staging'[e] = r
  <2>1. Fresh(e)
    BY <1>1, FreshStep
  <2>2. CASE register[r].call \in {"SaveVerificationData", "send"} /\ register[r].email = e
    <3>1. staging[e] = r
      BY <2>1, <2>2
    <3> QED BY <1>0, <1>1, <3>1, StagingRow
  <2>3. CASE CreateUser(r)
    BY <1>1, <2>3, RegisterMoves DEF CreateUser, TypeOK
  <2>4. ASSUME RegisterStep(r), ~CreateUser(r)
        PROVE  /\ register[r].call \in {"SaveVerificationData", "send"}
               /\ register[r].email = register'[r].email
    <3>1. register[r].call \in {"CreateUser", "SaveVerificationData", "send"}
      BY <1>1, <2>4, RegisterControl
    <3>2. register[r].call # "CreateUser"
      BY <2>4 DEF RegisterStep, GetUserByEmail, SaveVerificationData, SaveOtp, SaveAgain,
                  SendVerificationEmail, Registers
    <3> QED BY <2>4, <3>1, <3>2, RegisterControl
  <2>5. ASSUME ~RegisterStep(r)
        PROVE  register'[r] = register[r]
    <3>1. CASE Restart
      BY <1>1, <3>1 DEF Restart, TypeOK, Registering
    <3>2. CASE UNCHANGED register
      BY <3>2
    <3> QED BY <2>5, <3>1, <3>2, RegisterLocal, VerifyLocal DEF Next, vars, Expire, DeleteUser
  <2> QED BY <1>1, <2>2, <2>3, <2>4, <2>5
<1>2. ASSUME NEW e \in Emails, Fresh(e)', otp'[e].otp # None
      PROVE  staging'[e] = otp'[e].otp
  <2>1. Fresh(e)
    BY <1>2, FreshStep
  <2>2. CASE otp'[e].otp = otp[e].otp
    BY <1>0, <1>2, <2>1, <2>2, StagingRow
  <2>3. ASSUME NEW r \in Registrations, register[r].call = "send", register[r].email = e, otp'[e] = HSet(r)
        PROVE  staging'[e] = otp'[e].otp
    <3>1. staging[e] = r
      BY <2>1, <2>3
    <3> QED BY <1>0, <1>2, <2>3, <3>1, StagingRow DEF HSet
  <2> QED BY <1>2, <2>2, <2>3, OtpField
<1>3. proved \subseteq proved'
  <2>1. ASSUME NEW v \in Attempts, VerifyStep(v) PROVE proved \subseteq proved'
    BY <2>1, HGetAllFacts DEF VerifyStep, RetrieveVerificationData, DelExhausted, DelProved, Del, DelAgain,
       CountTry, CountAgain, PersistUserInfo, PersistUserPreferenes, DeleteUserFromStaging, hist
  <2> QED BY <2>1, RegisterLocal DEF Next, vars, Expire, DeleteUser, Restart, hist
<1>4. ASSUME NEW v \in Attempts, NEW e \in Emails, verify'[v].email = e, Fresh(e)',
             verify'[v].call \in {"DelProved", "PersistUserInfo"}
      PROVE  staging'[e] \in proved'
  <2>1. Fresh(e)
    BY <1>4, FreshStep
  <2>2. CASE verify[v].call \in {"DelProved", "PersistUserInfo"} /\ verify[v].email = e
    <3>1. staging[e] \in proved
      BY <2>1, <2>2
    <3>2. staging[e] # None
      BY <1>0, <3>1 DEF TypeOK
    <3> QED BY <1>3, <1>4, <2>1, <3>1, <3>2, StagingRow
  <2>3. CASE HGetAll(v)
    <3>1. verify'[v].call = "DelProved" /\ verify'[v].email = verify[v].email
      BY <1>4, <2>3, VerifyControl DEF VerifyStep, HGetAll, Verifies
    <3>2. staging[e] = otp[e].otp /\ otp[e].otp \in proved'
      BY <1>4, <2>1, <2>3, <3>1, HGetAllFacts
    <3> QED BY <2>3, <3>2 DEF HGetAll, rows
  <2>4. ASSUME VerifyStep(v), ~HGetAll(v)
        PROVE  verify[v].call \in {"DelProved", "PersistUserInfo"} /\ verify[v].email = verify'[v].email
    BY <1>4, <2>4, VerifyControl
  <2>5. ASSUME ~VerifyStep(v)
        PROVE  verify'[v] = verify[v]
    <3>1. ~Restart
      BY <1>4 DEF Restart, NoRequest
    <3> QED BY <2>5, <3>1, VerifyLocal, RegisterLocal DEF Next, vars, Expire, DeleteUser
  <2> QED BY <1>4, <2>2, <2>3, <2>4, <2>5
<1>5. ASSUME NEW v \in Attempts, NEW e \in Emails, verify'[v].email = e,
             verify'[v].call \in {"PersistUserPreferenes", "DeleteUserFromStaging"}
      PROVE  ~Fresh(e)'
  <2>1. CASE /\ verify[v].call \in {"PersistUserPreferenes", "DeleteUserFromStaging"}
             /\ verify[v].email = e
    BY <2>1, FreshStep
  <2>2. CASE HasUser(verify[v].email)'
    BY <1>5, <2>2 DEF Fresh, HasUser
  <2>3. CASE VerifyStep(v)
    BY <1>5, <2>1, <2>2, <2>3, VerifyControl
  <2>4. ASSUME ~VerifyStep(v)
        PROVE  verify'[v] = verify[v]
    <3>1. ~Restart
      BY <1>5 DEF Restart, NoRequest
    <3> QED BY <2>4, <3>1, VerifyLocal, RegisterLocal DEF Next, vars, Expire, DeleteUser
  <2> QED BY <1>5, <2>1, <2>3, <2>4
<1>6. \A r \in Registrations :
        register'[r].call \in {"SaveVerificationData", "send"} => register'[r].email \in Emails
  BY <1>0 DEF ControlOK
<1>7. \A v \in Attempts : verify'[v].call # "RetrieveVerificationData" => verify'[v].email \in Emails
  BY <1>0 DEF ControlOK
<1> QED
  BY <1>1, <1>2, <1>4, <1>5, <1>6, <1>7 DEF Fresh, HasUser

-----------------------------------------------------------------------------
\* OTPs are presented after they were mailed.
LEMMA MailedStep ==
  ASSUME TypeOK, ControlOK, MailedOK, [Next]_vars
  PROVE  MailedOK'
<1> USE DEF MailedOK
<1>1. ASSUME NEW r \in Registrations, RegisterStep(r) PROVE MailedOK'
  <2>1. mailed \subseteq mailed'
    BY <1>1 DEF RegisterStep, GetUserByEmail, CreateUser, SaveVerificationData, SaveOtp, SaveAgain,
                SendVerificationEmail
  <2> QED BY <1>1, <2>1, RegisterLocal DEF hist
<1>2. ASSUME NEW v \in Attempts, VerifyStep(v) PROVE MailedOK'
  <2>1. mailed' = mailed /\ \A w \in Attempts \ {v} : verify'[w] = verify[w]
    BY <1>2, VerifyLocal
  <2>2. CASE RetrieveVerificationData(v)
    <3>1. PICK f \in verification, guess \in mailed \cup {None} :
            verify' = [verify EXCEPT ![v].call = "HGetAll", ![v].email = f, ![v].guess = guess]
      BY <2>2 DEF RetrieveVerificationData
    <3>2. verify'[v] = [verify[v] EXCEPT !.call = "HGetAll", !.email = f, !.guess = guess]
      BY <3>1 DEF TypeOK
    <3>3. verify'[v].guess = guess
      BY <3>2 DEF TypeOK, Verifying
    <3> QED BY <2>1, <2>2, <3>3 DEF RetrieveVerificationData, hist
  <2>3. CASE ~RetrieveVerificationData(v)
    <3>1. verify'[v].guess \in {verify[v].guess, None}
      BY <1>2, <2>3 DEF VerifyStep, HGetAll, DelExhausted, DelProved, DelAgain, CountTry, CountAgain,
         PersistUserInfo, PersistUserPreferenes, DeleteUserFromStaging, VerifyGoesTo, VerifyEnds,
         NoRequest, TypeOK, Verifying
    <3>2. proved' \subseteq proved \cup ({verify[v].guess} \ {None})
      BY <1>2, <2>3, HGetAllFacts DEF VerifyStep, DelExhausted, DelProved, Del, DelAgain, CountTry, CountAgain,
         PersistUserInfo, PersistUserPreferenes, DeleteUserFromStaging, hist
    <3> QED BY <2>1, <3>1, <3>2
  <2> QED BY <2>2, <2>3
<1>3. CASE Restart
  BY <1>3 DEF Restart, NoRequest
<1>4. CASE UNCHANGED <<mailed, proved, verify>>
  BY <1>4
<1> QED
  BY <1>1, <1>2, <1>3, <1>4 DEF Next, vars, Expire, DeleteUser, hist

\* A new account is the one a handler persists from the staging row.
LEMMA AccountStep ==
  ASSUME TypeOK, ControlOK, StagingOK, MailedOK, AccountWasProved, ConstantsAssumption, [Next]_vars
  PROVE  AccountWasProved'
<1>0. MailedOK' /\ TypeOK'
  BY MailedStep, TypeStep
<1>1. SUFFICES ASSUME NEW e \in Emails, HasUser(e)', e \notin deleted'
               PROVE  users'[e].info \in proved'
  BY <1>0 DEF AccountWasProved, MailedOK
<1>2. proved \subseteq proved' /\ deleted \subseteq deleted'
  <2>1. ASSUME NEW v \in Attempts, VerifyStep(v) PROVE proved \subseteq proved' /\ deleted' = deleted
    BY <2>1, HGetAllFacts, VerifyLocal DEF VerifyStep, RetrieveVerificationData, DelExhausted, DelProved,
       Del, DelAgain, CountTry, CountAgain, PersistUserInfo, PersistUserPreferenes, DeleteUserFromStaging, hist
  <2> QED BY <2>1, RegisterLocal DEF Next, vars, Expire, DeleteUser, Restart, hist
<1>3. CASE users'[e].info = users[e].info
  BY <1>1, <1>2, <1>3 DEF AccountWasProved, HasUser
<1>4. ASSUME NEW v \in Attempts, PersistUserInfo(v) PROVE users'[e].info \in proved'
  <2>1. CASE users'[e] = users[e]
    BY <1>3, <2>1
  <2>2. CASE users'[e] # users[e]
    <3>1. e = verify[v].email /\ ~HasUser(e) /\ users'[e].info = staging[e]
      BY <1>4, <2>2 DEF PersistUserInfo, TypeOK
    <3>2. Fresh(e)
      BY <1>1, <1>2, <3>1 DEF Fresh
    <3> QED BY <1>2, <1>4, <3>1, <3>2 DEF StagingOK, PersistUserInfo, Verifies
  <2> QED BY <2>1, <2>2
<1>5. ASSUME NEW v \in Attempts, PersistUserPreferenes(v) PROVE users'[e].info = users[e].info
  BY <1>5, SameInfo
<1>6. ASSUME NEW f \in Emails, DeleteUser(f) PROVE users'[e].info = users[e].info
  BY <1>1, <1>6 DEF DeleteUser, TypeOK, HasUser, NoUser
<1> QED
  BY <1>3, <1>4, <1>5, <1>6, RegisterLocal DEF Next, vars, VerifyStep, RetrieveVerificationData, HGetAll,
     DelExhausted, DelProved, Del, DelAgain, CountTry, CountAgain, DeleteUserFromStaging, Expire, Restart, rows

-----------------------------------------------------------------------------
\* A handler's step on what is counted for one registration: nothing, a wrong
\* guess that waits for its increment, or the end of such a wait.
LEMMA GuessMoves ==
  ASSUME TypeOK, ControlOK, ConstantsAssumption,
         NEW v \in Attempts, VerifyStep(v), NEW r \in Registrations
  PROVE  \/ /\ wrong'[r] = wrong[r] /\ uncounted'[r] = uncounted[r]
            /\ Pending(r)' = Pending(r)
         \/ /\ HGetAll(v) /\ verify[v].email \in Emails
            /\ otp[verify[v].email].otp = r /\ otp[verify[v].email].tries < MaxTries
            /\ wrong'[r] = wrong[r] + 1 /\ uncounted'[r] = uncounted[r]
            /\ v \notin Pending(r) /\ Pending(r)' = Pending(r) \cup {v}
         \/ /\ v \in Pending(r)
            /\ wrong'[r] = wrong[r] /\ Pending(r)' = Pending(r) \ {v}
            /\ \/ /\ uncounted'[r] = uncounted[r]
                  /\ otp' = [otp EXCEPT ![verify[v].email] = HIncrBy(@)]
               \/ uncounted'[r] = uncounted[r] + 1 /\ UNCHANGED otp
<1> USE DEF Verifies
<1>0. \A w \in Attempts \ {v} : verify'[w] = verify[w]
  BY VerifyLocal
<1>1. CASE HGetAll(v)
  <2>1. v \notin Pending(r) /\ uncounted' = uncounted /\ verify[v].email \in Emails
    BY <1>1 DEF HGetAll, Pending, ControlOK
  <2>2. CASE verify'[v].call # "HIncrBy"
    <3>1. wrong' = wrong /\ Pending(r)' = Pending(r)
      BY <1>0, <1>1, <2>1, <2>2, HGetAllFacts DEF Pending
    <3> QED BY <2>1, <3>1
  <2>5. verify'[v].call = "HIncrBy" => verify'[v].against = otp[verify[v].email].otp
    <3>1. ~CountAgain(v)
      BY <1>1 DEF HGetAll, CountAgain
    <3> QED BY <3>1, VerifyControl
  <2>3. CASE verify'[v].call = "HIncrBy" /\ otp[verify[v].email].otp # r
    <3>1. Pending(r)' = Pending(r)
      BY <1>0, <2>1, <2>3, <2>5 DEF Pending
    <3>2. wrong'[r] = wrong[r]
      BY <1>1, <2>3, HGetAllFacts DEF TypeOK
    <3> QED BY <2>1, <3>1, <3>2
  <2>4. CASE verify'[v].call = "HIncrBy" /\ otp[verify[v].email].otp = r
    <3>1. Pending(r)' = Pending(r) \cup {v}
      BY <1>0, <2>1, <2>4, <2>5 DEF Pending
    <3>2. wrong'[r] = wrong[r] + 1
      BY <1>1, <2>4 DEF HGetAll, VerifyEnds, VerifyGoesTo, NoRequest, TypeOK, Verifying
    <3>3. otp[verify[v].email].tries < MaxTries
      BY <1>1, <2>4, HGetAllFacts
    <3> QED BY <1>1, <2>1, <2>4, <3>1, <3>2, <3>3
  <2> QED BY <2>2, <2>3, <2>4
<1>2. CASE CountTry(v)
  <2>1. verify'[v].call # "HIncrBy" /\ verify[v].call = "HIncrBy" /\ wrong' = wrong
    BY <1>2, VerifyReturns DEF CountTry, NoRequest
  <2>2. CASE v \notin Pending(r)
    <3>1. verify[v].against # r /\ Pending(r)' = Pending(r)
      BY <1>0, <2>1, <2>2 DEF Pending
    <3>2. uncounted'[r] = uncounted[r]
      BY <1>2, <3>1 DEF CountTry, NotCounted, TypeOK
    <3> QED BY <2>1, <3>1, <3>2
  <2>3. CASE v \in Pending(r)
    <3>1. Pending(r)' = Pending(r) \ {v}
      BY <1>0, <2>1, <2>3 DEF Pending
    <3>2. verify[v].against = r
      BY <2>3 DEF Pending
    <3>3. \/ uncounted'[r] = uncounted[r] /\ otp' = [otp EXCEPT ![verify[v].email] = HIncrBy(@)]
          \/ uncounted'[r] = uncounted[r] + 1 /\ UNCHANGED otp
      BY <1>2, <3>2 DEF CountTry, NotCounted, TypeOK
    <3> QED BY <1>2, <2>1, <2>3, <3>1, <3>3
  <2> QED BY <2>2, <2>3
<1>3. CASE CountAgain(v)
  <2>1. /\ verify[v].call = "HIncrBy" /\ wrong' = wrong /\ uncounted' = uncounted
        /\ otp' = [otp EXCEPT ![verify[v].email] = HIncrBy(@)]
    BY <1>3 DEF CountAgain, hist
  <2>2. verify'[v].against # r
    <3>1. verify'[v] = [verify[v] EXCEPT !.against = None]
      BY <1>3, AgainstNone
    <3>2. verify'[v].against = None
      BY <3>1 DEF TypeOK, Verifying
    <3> QED BY <3>2 DEF ConstantsAssumption
  <2>3. Pending(r)' = Pending(r) \ {v}
    BY <1>0, <2>2 DEF Pending
  <2>4. CASE v \in Pending(r)
    BY <2>1, <2>3, <2>4
  <2>5. CASE v \notin Pending(r)
    BY <2>1, <2>3, <2>5
  <2> QED BY <2>4, <2>5
<1>4. CASE ~HGetAll(v) /\ ~CountTry(v) /\ ~CountAgain(v)
  <2>1. wrong' = wrong /\ uncounted' = uncounted
    BY <1>4 DEF VerifyStep, RetrieveVerificationData, DelExhausted, DelProved, Del, DelAgain, PersistUserInfo,
       PersistUserPreferenes, DeleteUserFromStaging, hist
  <2>2. verify[v].call # "HIncrBy"
    BY <1>4 DEF VerifyStep, RetrieveVerificationData, DelExhausted, DelProved, DelAgain, PersistUserInfo,
       PersistUserPreferenes, DeleteUserFromStaging
  <2>3. verify'[v].call # "HIncrBy"
    BY <1>4, VerifyControl
  <2>4. Pending(r)' = Pending(r)
    BY <1>0, <2>2, <2>3 DEF Pending
  <2> QED BY <2>1, <2>4
<1> QED
  BY <1>1, <1>2, <1>3, <1>4

\* The HSET of a registration takes effect in its SaveOTP, and again for a failure only.
LEMMA FailuresGrow ==
  ASSUME TypeOK, [Next]_vars
  PROVE  Fault \/ NoFault
<1>1. ASSUME NEW r \in Registrations, RegisterStep(r) PROVE Fault \/ NoFault
  BY <1>1 DEF RegisterStep, GetUserByEmail, CreateUser, SaveVerificationData, SaveOtp, SaveAgain,
     SendVerificationEmail, NoFault
<1>2. ASSUME NEW v \in Attempts, VerifyStep(v) PROVE Fault \/ NoFault
  BY <1>2 DEF VerifyStep, RetrieveVerificationData, HGetAll, DelExhausted, DelProved, Del, DelAgain,
     CountTry, CountAgain, PersistUserInfo, PersistUserPreferenes, DeleteUserFromStaging, NoFault
<1> QED
  BY <1>1, <1>2 DEF Next, vars, Expire, DeleteUser, Restart, NoFault

LEMMA SavesMove ==
  ASSUME TypeOK, [Next]_vars, NEW r \in Registrations
  PROVE  \/ saves'[r] = saves[r]
         \/ /\ RegisterStep(r) /\ Saved(r) /\ saves'[r] = saves[r] + 1
            /\ register[r].call = "send" /\ register[r].saving = "HSet"
            /\ Fault \/ (NoFault /\ register'[r].saving # "HSet")
<1>1. ASSUME NEW q \in Registrations, SaveOtp(q) \/ SaveAgain(q), saves'[r] # saves[r]
      PROVE  /\ q = r /\ Saved(r) /\ saves'[r] = saves[r] + 1
             /\ register[r].call = "send" /\ register[r].saving = "HSet"
             /\ Fault \/ (NoFault /\ register'[r].saving # "HSet")
  <2>1. /\ Saved(q) /\ register[q].call = "send" /\ register[q].saving = "HSet"
        /\ Fault \/ (NoFault /\ register' = [register EXCEPT ![q].saving = "HExpire"])
    BY <1>1 DEF SaveOtp, SaveAgain, Timed, Registers
  <2>2. q = r /\ saves'[r] = saves[r] + 1
    BY <1>1, <2>1 DEF Saved, TypeOK
  <2> QED BY <2>1, <2>2 DEF TypeOK, Registering
<1>2. ASSUME NEW q \in Registrations, RegisterStep(q), ~SaveOtp(q), ~SaveAgain(q)
      PROVE  saves' = saves
  BY <1>2 DEF RegisterStep, GetUserByEmail, CreateUser, SaveVerificationData, SendVerificationEmail, hist
<1> QED
  BY <1>1, <1>2, VerifyLocal DEF RegisterStep, Next, vars, Expire, DeleteUser, Restart, hist

\* What an OTP allows is a number, and grows with every HSET.
LEMMA Allowances ==
  ASSUME ConstantsAssumption, NEW n \in Nat
  PROVE  /\ Allowance \in Nat /\ Allowance * n \in Nat /\ Allowance * (n - 1) \in Int
         /\ Allowance * (n + 1) = Allowance * n + Allowance
         /\ Allowance * (n - 1) + Allowance = Allowance * n
<1>1. Cardinality(Attempts) \in Nat /\ MaxTries \in Nat \ {0}
  BY FS_CardinalityType DEF ConstantsAssumption
<1>2. Allowance \in Nat
  BY <1>1 DEF Allowance
<1> HIDE DEF Allowance
<1> QED
  BY <1>2

\* A hash whose OTP is kept, and not saved again, keeps its counter, or raises it.
LEMMA TriesKept ==
  ASSUME TypeOK, ControlOK, [Next]_vars, NEW e \in Emails, NEW r \in Registrations,
         otp[e].otp = r, otp'[e].otp = r, saves'[r] = saves[r], ConstantsAssumption
  PROVE  otp'[e].tries \in Nat /\ otp'[e].tries >= otp[e].tries
<1>0. otp[e] \in OtpHash /\ otp[e].tries \in Nat /\ r # None /\ saves[r] \in Nat
  BY DEF TypeOK, OtpHash, ConstantsAssumption
<1>1. ASSUME NEW s \in Registrations, SaveOtp(s) \/ SaveAgain(s)
      PROVE  otp'[e].tries \in {otp[e].tries, otp[e].tries + 1}
  <2>1. otp' = otp \/ Timed(s) \/ Saved(s)
    BY <1>1 DEF SaveOtp, SaveAgain
  <2>2. CASE Timed(s)
    <3>1. HExpire(otp[e]).tries = otp[e].tries
      BY <1>0 DEF HExpire, OtpHash
    <3> QED BY <2>2, <3>1 DEF Timed, TypeOK
  <2>3. CASE Saved(s)
    <3>1. s # r
      BY <1>0, <2>3 DEF Saved, TypeOK
    <3>2. register[s].email # e
      BY <2>3, <3>1 DEF Saved, HSet, TypeOK
    <3> QED BY <2>3, <3>2 DEF Saved, TypeOK
  <2> QED BY <2>1, <2>2, <2>3
<1>2. ASSUME otp' = otp PROVE otp'[e].tries \in {otp[e].tries, otp[e].tries + 1}
  BY <1>2
<1>3. ASSUME NEW f \in Emails, otp' = [otp EXCEPT ![f] = NoHash] PROVE otp'[e].tries \in {otp[e].tries, otp[e].tries + 1}
  BY <1>0, <1>3 DEF NoHash, TypeOK
<1>4. ASSUME NEW f, otp' = [otp EXCEPT ![f] = HIncrBy(@)]
      PROVE  otp'[e].tries \in {otp[e].tries, otp[e].tries + 1}
  BY <1>0, <1>4 DEF HIncrBy, TypeOK, OtpHash
<1>5. ASSUME NEW v \in Attempts, VerifyStep(v)
      PROVE  otp'[e].tries \in {otp[e].tries, otp[e].tries + 1}
  <2>1. CASE otp' = [otp EXCEPT ![verify[v].email] = NoHash]
    BY <1>0, <2>1 DEF NoHash, TypeOK
  <2>2. CASE otp' = [otp EXCEPT ![verify[v].email] = HIncrBy(@)]
    BY <1>4, <2>2
  <2> QED BY <1>2, <1>5, <2>1, <2>2 DEF VerifyStep, RetrieveVerificationData, HGetAll, DelExhausted,
     DelProved, Del, DelAgain, CountTry, CountAgain, PersistUserInfo, PersistUserPreferenes,
     DeleteUserFromStaging
<1>6. otp'[e].tries \in {otp[e].tries, otp[e].tries + 1}
  BY <1>1, <1>2, <1>3, <1>5 DEF Next, vars, RegisterStep, GetUserByEmail, CreateUser,
     SaveVerificationData, SendVerificationEmail, Expire, DeleteUser, Restart
<1> QED
  BY <1>0, <1>6

\* While the OTP of r is not saved again, what is counted and what is compared agree.
LEMMA CountKept ==
  ASSUME TypeOK, ControlOK, CountOK, ConstantsAssumption, [Next]_vars,
         NEW e \in Emails, NEW r \in Registrations,
         otp[e].otp = r, otp'[e].otp = r, saves'[r] = saves[r]
  PROVE  wrong'[r] <= Allowance * (saves'[r] - 1) + otp'[e].tries + Cardinality(Pending(r))' + uncounted'[r]
<1> DEFINE K == Allowance * (saves[r] - 1)
           Goal == wrong'[r] <= K + otp'[e].tries + Cardinality(Pending(r))' + uncounted'[r]
<1>0. /\ TypeOK' /\ otp[e] \in OtpHash
      /\ otp[e].tries \in Nat /\ wrong[r] \in Nat /\ uncounted[r] \in Nat /\ saves[r] \in Nat
      /\ wrong'[r] \in Nat /\ uncounted'[r] \in Nat
  BY TypeStep DEF TypeOK, OtpHash
<1>1. /\ IsFiniteSet(Pending(r)) /\ Cardinality(Pending(r)) \in Nat
      /\ IsFiniteSet(Pending(r))' /\ Cardinality(Pending(r))' \in Nat
  <2>1. Pending(r) \subseteq Attempts /\ Pending(r)' \subseteq Attempts /\ IsFiniteSet(Attempts)
    BY DEF Pending, ConstantsAssumption
  <2> QED BY <2>1, FS_Subset, FS_CardinalityType
<1>2. K \in Int
  BY <1>0, Allowances
<1>3. register[r].email = e /\ wrong[r] <= K + otp[e].tries + Cardinality(Pending(r)) + uncounted[r]
  BY DEF CountOK
<1>4. otp'[e].tries \in Nat /\ otp'[e].tries >= otp[e].tries
  BY TriesKept
<1> HIDE DEF K
<1>5. CASE wrong'[r] = wrong[r] /\ uncounted'[r] = uncounted[r] /\ Pending(r)' = Pending(r)
  <2>1. Goal
    BY <1>0, <1>1, <1>2, <1>3, <1>4, <1>5
  <2> QED BY <2>1 DEF K
<1>6. CASE Restart
  <2>1. wrong' = wrong /\ uncounted'[r] = uncounted[r] + Cardinality(Pending(r)) /\ otp' = otp
    BY <1>6 DEF Restart
  <2>2. Goal
    BY <1>0, <1>1, <1>2, <1>3, <2>1
  <2> QED BY <2>2 DEF K
<1>7. ASSUME NEW v \in Attempts, v \notin Pending(r), Pending(r)' = Pending(r) \cup {v},
             wrong'[r] = wrong[r] + 1, uncounted'[r] = uncounted[r]
      PROVE  Goal
  <2>1. Cardinality(Pending(r))' = Cardinality(Pending(r)) + 1
    BY <1>1, <1>7, FS_AddElement
  <2> QED BY <1>0, <1>1, <1>2, <1>3, <1>4, <1>7, <2>1
<1>8. ASSUME NEW v \in Attempts, v \in Pending(r), Pending(r)' = Pending(r) \ {v},
             wrong'[r] = wrong[r],
             \/ /\ uncounted'[r] = uncounted[r]
                /\ otp' = [otp EXCEPT ![verify[v].email] = HIncrBy(@)]
             \/ uncounted'[r] = uncounted[r] + 1 /\ UNCHANGED otp
      PROVE  Goal
  <2>1. Cardinality(Pending(r))' = Cardinality(Pending(r)) - 1
    BY <1>1, <1>8, FS_RemoveElement
  <2>2. verify[v].email = e
    BY <1>3, <1>8 DEF CountOK
  <2>3. otp'[e].tries = otp[e].tries + 1 \/ uncounted'[r] = uncounted[r] + 1
    BY <1>0, <1>8, <2>2 DEF HIncrBy, TypeOK, OtpHash
  <2>4. uncounted'[r] >= uncounted[r]
    BY <1>0, <1>8
  <2> QED BY <1>0, <1>1, <1>2, <1>3, <1>4, <1>8, <2>1, <2>3, <2>4
<1>9. ASSUME NEW v \in Attempts, VerifyStep(v) PROVE Goal
  <2>1. \/ wrong'[r] = wrong[r] /\ uncounted'[r] = uncounted[r] /\ Pending(r)' = Pending(r)
        \/ /\ v \notin Pending(r) /\ Pending(r)' = Pending(r) \cup {v}
           /\ wrong'[r] = wrong[r] + 1 /\ uncounted'[r] = uncounted[r]
        \/ /\ v \in Pending(r) /\ Pending(r)' = Pending(r) \ {v} /\ wrong'[r] = wrong[r]
           /\ \/ /\ uncounted'[r] = uncounted[r]
                 /\ otp' = [otp EXCEPT ![verify[v].email] = HIncrBy(@)]
              \/ uncounted'[r] = uncounted[r] + 1 /\ UNCHANGED otp
    BY <1>9, GuessMoves
  <2>2. CASE wrong'[r] = wrong[r] /\ uncounted'[r] = uncounted[r] /\ Pending(r)' = Pending(r)
    BY <1>0, <1>1, <1>2, <1>3, <1>4, <2>2
  <2> QED BY <1>7, <1>8, <2>1, <2>2
<1>10. CASE UNCHANGED <<verify, wrong, uncounted>>
  BY <1>5, <1>10 DEF Pending
<1>11. UNCHANGED <<verify, wrong, uncounted>> \/ Restart \/ \E v \in Attempts : VerifyStep(v)
  BY RegisterLocal DEF Next, vars, Expire, DeleteUser, hist
<1> QED
  BY <1>6, <1>9, <1>10, <1>11 DEF K

\* Each wrong guess since the OTP was saved is in the counter, pending or lost.
LEMMA CountStep ==
  ASSUME TypeOK, ControlOK, CountOK, GuessesBounded, ConstantsAssumption, [Next]_vars
  PROVE  CountOK'
<1>0. TypeOK' /\ ControlOK' /\ None \notin Registrations
  BY TypeStep, ControlStep DEF ConstantsAssumption
<1>1. ASSUME NEW r \in Registrations
      PROVE  /\ register'[r].saving = "HSet" => register[r].saving = "HSet"
             /\ register'[r].call = "GetUserByEmail" => register[r].call = "GetUserByEmail"
             /\ register[r].call # "GetUserByEmail" => register'[r].email = register[r].email
  <2>1. CASE RegisterStep(r)
    BY <2>1, RegisterControl
  <2>2. CASE Restart
    BY <2>2 DEF Restart, TypeOK, Registering
  <2>3. CASE UNCHANGED register
    BY <2>3
  <2> QED BY <2>1, <2>2, <2>3, RegisterLocal, VerifyLocal DEF Next, vars, Expire, DeleteUser
<1>2. ASSUME NEW r \in Registrations
      PROVE  /\ saves[r] \in Nat /\ saves'[r] \in Nat /\ failures \in Nat /\ failures' \in Nat
             /\ saves'[r] >= saves[r] /\ failures' >= failures
  <2>1. saves[r] \in Nat /\ saves'[r] \in Nat /\ failures \in Nat /\ failures' \in Nat
    BY <1>0 DEF TypeOK
  <2> QED BY <2>1, SavesMove, FailuresGrow DEF Fault, NoFault
<1>3. ASSUME NEW r \in Registrations, register'[r].saving = "HSet"
      PROVE  saves'[r] <= failures'
  <2>1. saves[r] <= failures
    BY <1>1, <1>3 DEF CountOK
  <2>2. CASE saves'[r] = saves[r]
    BY <1>2, <2>1, <2>2
  <2>3. CASE saves'[r] = saves[r] + 1 /\ Fault
    BY <1>2, <2>1, <2>3 DEF Fault
  <2> QED BY <1>3, <2>2, <2>3, SavesMove
<1>4. ASSUME NEW r \in Registrations, register'[r].call = "GetUserByEmail"
      PROVE  saves'[r] = 0
  <2>1. register[r].call = "GetUserByEmail" /\ saves[r] = 0
    BY <1>1, <1>4 DEF CountOK
  <2> QED BY <2>1, SavesMove
<1>5. ASSUME NEW r \in Registrations, NEW v \in Pending(r)'
      PROVE  verify'[v].email = register'[r].email /\ saves'[r] > 0
  <2>0. v \in Attempts /\ verify'[v].call = "HIncrBy" /\ verify'[v].against = r
    BY <1>5 DEF Pending
  <2>1. ASSUME verify'[v].email = verify[v].email, verify[v].email = register[r].email, saves[r] > 0
        PROVE  verify'[v].email = register'[r].email /\ saves'[r] > 0
    <3>1. register[r].call # "GetUserByEmail"
      BY <2>1 DEF CountOK
    <3> QED BY <1>1, <1>2, <2>1, <3>1
  <2>2. CASE verify'[v] = verify[v]
    <3>1. v \in Pending(r)
      BY <2>0, <2>2 DEF Pending
    <3> QED BY <2>1, <2>2, <3>1 DEF CountOK
  <2>3. CASE VerifyStep(v)
    <3>1. HGetAll(v) /\ verify'[v].email = verify[v].email /\ otp[verify[v].email].otp = r
      BY <1>0, <2>0, <2>3, VerifyControl
    <3>2. verify[v].email \in Emails
      BY <2>0, <3>1, HGetAllFacts
    <3> QED BY <2>1, <3>1, <3>2 DEF CountOK
  <2>4. CASE ~VerifyStep(v)
    <3>1. ~Restart
      BY <2>0 DEF Restart, NoRequest
    <3>2. verify'[v] = verify[v]
      BY <2>0, <2>4, <3>1, VerifyLocal, RegisterLocal DEF Next, vars, Expire, DeleteUser
    <3> QED BY <2>2, <3>2
  <2> QED BY <2>3, <2>4
<1>6. ASSUME NEW e \in Emails, NEW r \in Registrations, otp'[e].otp = r
      PROVE  /\ register'[r].email = e /\ saves'[r] > 0
             /\ wrong'[r] <= Allowance * (saves'[r] - 1) + otp'[e].tries
                              + Cardinality(Pending(r))' + uncounted'[r]
  <2>1. CASE saves'[r] = saves[r]
    <3>1. otp[e].otp = r
      <4>1. ASSUME NEW s \in Registrations, Saved(s), otp'[e] = HSet(s) PROVE FALSE
        <5>1. s = r
          BY <1>6, <4>1 DEF HSet
        <5>2. saves'[r] = saves[r] + 1
          BY <4>1, <5>1 DEF Saved, TypeOK
        <5> QED BY <1>2, <2>1, <5>2
      <4> QED BY <1>0, <1>6, <4>1, OtpField
    <3>2. register'[r].email = e /\ saves'[r] > 0
      <4>1. register[r].email = e /\ saves[r] > 0 /\ register[r].call # "GetUserByEmail"
        BY <3>1 DEF CountOK
      <4> QED BY <1>1, <1>2, <4>1
    <3> QED BY <1>6, <2>1, <3>1, <3>2, CountKept
  <2>2. CASE saves'[r] # saves[r]
    <3>1. /\ RegisterStep(r) /\ Saved(r) /\ saves'[r] = saves[r] + 1 /\ register[r].call = "send"
      BY <2>2, SavesMove
    <3>2. register[r].email = e
      <4>1. CASE otp'[e] = otp[e]
        BY <1>6, <4>1 DEF CountOK
      <4> QED BY <3>1, <4>1 DEF Saved, TypeOK
    <3>3. otp'[e].tries = 0 /\ register'[r].email = e
      BY <1>1, <3>1, <3>2 DEF Saved, HSet, TypeOK
    <3>4. wrong'[r] = wrong[r] /\ uncounted'[r] = uncounted[r]
      BY <3>1, RegisterLocal
    <3>5. wrong[r] <= Allowance * saves[r] + uncounted[r] /\ saves'[r] - 1 = saves[r]
      BY <1>2, <3>1 DEF GuessesBounded
    <3>6. /\ Cardinality(Pending(r))' \in Nat /\ Allowance * saves[r] \in Nat
          /\ wrong[r] \in Nat /\ uncounted[r] \in Nat
      <4>1. Pending(r)' \subseteq Attempts /\ IsFiniteSet(Attempts)
        BY DEF Pending, ConstantsAssumption
      <4> QED BY <1>2, <4>1, FS_Subset, FS_CardinalityType, Allowances DEF TypeOK
    <3> QED BY <1>2, <3>1, <3>3, <3>4, <3>5, <3>6
  <2> QED BY <2>1, <2>2
<1> QED
  BY <1>3, <1>4, <1>5, <1>6 DEF CountOK

\* A handler compares a guess only while the counter is below MaxTries, and the
\* other handlers are the only ones that may be about to count.
LEMMA GuessStep ==
  ASSUME TypeOK, ControlOK, CountOK, GuessesBounded, ConstantsAssumption, [Next]_vars
  PROVE  GuessesBounded'
<1> SUFFICES ASSUME NEW r \in Registrations
             PROVE  wrong'[r] <= Allowance * saves'[r] + uncounted'[r] /\ saves'[r] <= 1 + failures'
  BY DEF GuessesBounded, Allowance
<1>0. /\ wrong[r] \in Nat /\ uncounted[r] \in Nat /\ saves[r] \in Nat /\ failures \in Nat
      /\ wrong[r] <= Allowance * saves[r] + uncounted[r] /\ saves[r] <= 1 + failures
  BY DEF TypeOK, GuessesBounded
<1>1. saves'[r] <= 1 + failures'
  <2>1. register[r].saving = "HSet" => saves[r] <= failures
    BY DEF CountOK
  <2> QED BY <1>0, <2>1, SavesMove, FailuresGrow DEF Fault, NoFault
<1>2. /\ Allowance \in Nat /\ Allowance * saves[r] \in Nat /\ Allowance * (saves[r] - 1) \in Int
      /\ Allowance * (saves[r] + 1) = Allowance * saves[r] + Allowance
      /\ Allowance * (saves[r] - 1) + Allowance = Allowance * saves[r]
  BY <1>0, Allowances
<1>3. CASE saves'[r] # saves[r]
  <2>1. RegisterStep(r) /\ saves'[r] = saves[r] + 1
    BY <1>3, SavesMove
  <2>2. wrong'[r] = wrong[r] /\ uncounted'[r] = uncounted[r]
    BY <2>1, RegisterLocal
  <2>3. wrong'[r] <= Allowance * (saves[r] + 1) + uncounted'[r]
    BY <1>0, <1>2, <2>2
  <2> QED BY <1>1, <2>1, <2>3
<1>4. ASSUME saves'[r] = saves[r] PROVE wrong'[r] <= Allowance * saves[r] + uncounted'[r]
  <2>1. CASE Restart
    <3>1. wrong'[r] = wrong[r] /\ uncounted'[r] = uncounted[r] + Cardinality(Pending(r))
      BY <2>1 DEF Restart
    <3> QED BY <1>0, <1>2, <3>1, PendingFinite
  <2>2. CASE wrong'[r] = wrong[r] /\ uncounted'[r] \in {uncounted[r], uncounted[r] + 1}
    BY <1>0, <1>2, <2>2
  <2>3. ASSUME NEW v \in Attempts, NEW e \in Emails, otp[e].otp = r, otp[e].tries < MaxTries,
               v \notin Pending(r), wrong'[r] = wrong[r] + 1, uncounted'[r] = uncounted[r]
        PROVE  wrong'[r] <= Allowance * saves[r] + uncounted'[r]
    <3>1. /\ otp[e].tries \in Nat
          /\ wrong[r] <= Allowance * (saves[r] - 1) + otp[e].tries + Cardinality(Pending(r)) + uncounted[r]
      BY <2>3 DEF CountOK, TypeOK, OtpHash
    <3>2. /\ IsFiniteSet(Pending(r)) /\ Cardinality(Pending(r)) \in Nat
          /\ Cardinality(Pending(r) \cup {v}) = Cardinality(Pending(r)) + 1
      BY <2>3, PendingFinite, FS_AddElement
    <3>3. /\ IsFiniteSet(Attempts) /\ Cardinality(Attempts) \in Nat /\ MaxTries \in Nat
          /\ Cardinality(Pending(r) \cup {v}) <= Cardinality(Attempts)
      <4>1. Pending(r) \cup {v} \subseteq Attempts /\ IsFiniteSet(Attempts)
        BY DEF Pending, ConstantsAssumption
      <4> QED BY <4>1, FS_Subset, FS_CardinalityType DEF ConstantsAssumption
    <3>4. otp[e].tries + Cardinality(Pending(r)) + 1 <= Allowance
      BY <2>3, <3>1, <3>2, <3>3 DEF Allowance
    <3> HIDE DEF Allowance
    <3> QED BY <1>0, <1>2, <2>3, <3>1, <3>2, <3>4
  <2>4. ASSUME NEW v \in Attempts, VerifyStep(v)
        PROVE  wrong'[r] <= Allowance * saves[r] + uncounted'[r]
    BY <2>2, <2>3, <2>4, GuessMoves
  <2>5. CASE UNCHANGED <<wrong, uncounted>>
    BY <2>2, <2>5
  <2> QED BY <2>1, <2>4, <2>5, RegisterLocal DEF Next, vars, Expire, DeleteUser, hist
<1> QED
  BY <1>1, <1>3, <1>4

\* The invariant holds initially, and every step preserves it.
LEMMA InitIInv ==
  ASSUME ConstantsAssumption, Init
  PROVE  IInv
<1>1. TypeOK
  BY DEF Init, TypeOK, User, NoUser, OtpHash, NoHash, Registering, NewRegistration, Verifying, NoRequest
<1>2. ControlOK /\ StagingOK /\ MailedOK /\ AccountWasProved
  BY DEF Init, ControlOK, StagingOK, MailedOK, AccountWasProved, HasUser, NoUser, NoHash,
         NewRegistration, NoRequest
<1>3. \A r \in Registrations : Pending(r) = {} /\ wrong[r] = 0
  BY DEF Init, Pending, NoRequest
<1>4. CountOK
  <2>1. None \notin Registrations
    BY DEF ConstantsAssumption
  <2> QED BY <1>3, <2>1 DEF CountOK, Init, NoHash
<1>5. GuessesBounded
  <2>1. Allowance * 0 \in Nat
    BY Allowances
  <2> QED BY <2>1 DEF GuessesBounded, Init
<1> QED
  BY <1>1, <1>2, <1>4, <1>5 DEF IInv

\* In every reachable state the invariant holds.
THEOREM Invariance == Spec => []IInv
<1>1. Init => IInv
  BY InitIInv, ConstantsAssumption
<1>2. IInv /\ [Next]_vars => IInv'
  BY ConstantsAssumption, TypeStep, ControlStep, StagingStep, CountStep, MailedStep, AccountStep,
     GuessStep DEF IInv
<1> QED
  BY <1>1, <1>2, PTL DEF Spec

\* Whose data became an account presented the OTP mailed for that registration,
\* whatever handlers, expirations, failures and restarts interleave.
THEOREM AccountsAreProved == Spec => []AccountWasProved
<1>1. IInv => AccountWasProved
  BY DEF IInv
<1> QED
  BY <1>1, Invariance, PTL

\* The guesses that VerifyOTP compares with one OTP are bounded by the times its HSET
\* took effect, for any number of handlers that race between HGETALL and HINCRBY.
THEOREM GuessesAreBounded == Spec => []GuessesBounded
<1>1. IInv => GuessesBounded
  BY DEF IInv
<1> QED
  BY <1>1, Invariance, PTL

-----------------------------------------------------------------------------
\* Whoever is found proved stays so, under the email of his registration.
LEMMA PresentedStays ==
  ASSUME IInv, IInv', PresentedOK, [Next]_vars, NEW e \in Emails, Presented(e)
  PROVE  Presented(e)'
<1>0. TypeOK /\ ControlOK /\ mailed \subseteq Registrations
  BY DEF IInv, TypeOK
<1>1. PICK r \in proved \cap mailed : register[r].email = e
  BY DEF Presented
<1>2. r \in Registrations /\ register[r].call # "GetUserByEmail"
  BY <1>0, <1>1 DEF PresentedOK
<1>3. ASSUME NEW q \in Registrations, RegisterStep(q)
      PROVE  register'[r].email = e /\ proved' = proved /\ mailed \subseteq mailed'
  <2>1. mailed \subseteq mailed'
    BY <1>3 DEF RegisterStep, GetUserByEmail, CreateUser, SaveVerificationData, SaveOtp, SaveAgain,
                SendVerificationEmail
  <2> QED BY <1>0, <1>1, <1>2, <1>3, <2>1, RegisterControl, RegisterLocal
<1>4. ASSUME NEW v \in Attempts, VerifyStep(v)
      PROVE  register' = register /\ proved \subseteq proved' /\ mailed' = mailed
  BY <1>0, <1>4, HGetAllFacts, VerifyLocal DEF VerifyStep, RetrieveVerificationData, DelExhausted, DelProved,
     Del, DelAgain, CountTry, CountAgain, PersistUserInfo, PersistUserPreferenes, DeleteUserFromStaging, hist
<1>5. CASE Restart
  <2>1. register'[r].email = register[r].email
    BY <1>0, <1>2, <1>5 DEF Restart, TypeOK, Registering
  <2> QED BY <1>1, <1>5, <2>1 DEF Restart, Presented
<1>6. CASE UNCHANGED <<register, proved, mailed>>
  BY <1>6 DEF Presented
<1> QED
  BY <1>1, <1>3, <1>4, <1>5, <1>6 DEF Next, vars, Expire, DeleteUser, hist, Presented

\* A handler persists for an email of which it found an OTP proved.
LEMMA PresentedStep ==
  ASSUME IInv, IInv', PresentedOK, ConstantsAssumption, [Next]_vars
  PROVE  PresentedOK'
<1>0. TypeOK /\ ControlOK /\ mailed \subseteq Registrations
  BY DEF IInv, TypeOK
<1>1. ASSUME NEW r \in mailed' PROVE register'[r].call # "GetUserByEmail"
  <2>0. r \in Registrations
    BY DEF IInv, TypeOK
  <2>1. ASSUME NEW q \in Registrations, RegisterStep(q) PROVE register'[r].call # "GetUserByEmail"
    <3>1. mailed' \subseteq mailed \cup {q}
      BY <2>1 DEF RegisterStep, GetUserByEmail, CreateUser, SaveVerificationData, SaveOtp, SaveAgain,
                  SendVerificationEmail
    <3> QED BY <1>0, <2>0, <2>1, <3>1, RegisterControl, RegisterLocal DEF PresentedOK
  <2>2. ASSUME NEW v \in Attempts, VerifyStep(v) PROVE register'[r].call # "GetUserByEmail"
    BY <1>0, <2>2, VerifyLocal DEF PresentedOK
  <2>3. CASE Restart
    BY <1>0, <2>0, <2>3 DEF Restart, PresentedOK, TypeOK, Registering
  <2> QED BY <2>1, <2>2, <2>3 DEF Next, vars, Expire, DeleteUser, PresentedOK
<1>4. \A e \in Emails : Presented(e) => \E r \in proved' \cap mailed' : register'[r].email = e
  <2> SUFFICES ASSUME NEW e \in Emails, Presented(e)
               PROVE  \E r \in proved' \cap mailed' : register'[r].email = e
    OBVIOUS
  <2>1. Presented(e)'
    BY PresentedStays
  <2> QED BY <2>1 DEF Presented
<1>2. ASSUME NEW v \in Attempts, verify'[v].call \in {"DelProved", "PersistUserInfo"}
      PROVE  \E r \in proved' \cap mailed' : register'[r].email = verify'[v].email
  <2>0. ASSUME verify'[v] = verify[v]
        PROVE  \E r \in proved' \cap mailed' : register'[r].email = verify'[v].email
    <3>1. verify[v].email \in Emails /\ Presented(verify[v].email)
      BY <1>0, <1>2, <2>0 DEF ControlOK, PresentedOK
    <3> QED BY <1>4, <2>0, <3>1
  <2>1. CASE VerifyStep(v)
    <3>1. verify'[v].email = verify[v].email
      BY <1>0, <1>2, <2>1, VerifyControl
    <3>2. CASE HGetAll(v) /\ verify'[v].call = "DelProved"
      <4> DEFINE r == otp[verify[v].email].otp
      <4>1. verify[v].email \in Emails /\ r # None /\ proved' = proved \cup {r}
        BY <1>0, <3>2, HGetAllFacts
      <4>2. r \in Registrations
        BY <1>0, <4>1 DEF TypeOK, OtpHash
      <4>3. register[r].email = verify[v].email
        BY <4>1, <4>2 DEF IInv, CountOK
      <4>4. register' = register /\ r \in proved' \cap mailed'
        BY <1>0, <2>1, <4>1, VerifyLocal DEF IInv, MailedOK
      <4> QED BY <3>1, <4>3, <4>4
    <3>3. CASE verify' = verify
      BY <2>0, <3>3
    <3>4. CASE verify'[v].call = "PersistUserInfo"
      <4>1. verify[v].call = "DelProved"
        BY <1>0, <2>1, <3>4, VerifyControl
      <4>2. verify[v].email \in Emails /\ Presented(verify[v].email)
        BY <1>0, <4>1 DEF ControlOK, PresentedOK
      <4> QED BY <1>4, <3>1, <4>2
    <3> QED BY <1>0, <1>2, <2>1, <3>2, <3>3, <3>4, VerifyControl
  <2>2. ASSUME NEW w \in Attempts, w # v, VerifyStep(w) PROVE verify'[v] = verify[v]
    BY <1>0, <2>2, VerifyLocal
  <2>3. CASE Restart
    BY <1>2, <2>3 DEF Restart, NoRequest
  <2> QED BY <2>0, <2>1, <2>2, <2>3, <1>0, RegisterLocal DEF Next, vars, Expire, DeleteUser
<1>3. ASSUME NEW e \in Emails, HasUser(e)' PROVE Presented(e)'
  <2>1. CASE HasUser(e)
    BY <2>1, PresentedStays DEF PresentedOK, EmailWasProved
  <2>2. ASSUME NEW v \in Attempts, PersistUserInfo(v), ~HasUser(e) PROVE Presented(e)'
    <3>1. e = verify[v].email /\ verify[v].call = "PersistUserInfo"
      BY <1>0, <1>3, <2>2 DEF PersistUserInfo, Verifies, HasUser, TypeOK
    <3>2. Presented(e)
      BY <3>1 DEF PresentedOK
    <3> QED BY <3>2, PresentedStays
  <2>3. ASSUME NEW v \in Attempts, PersistUserPreferenes(v) PROVE users'[e].info = users[e].info
    BY <1>0, <2>3, SameInfo
  <2>4. ASSUME NEW f \in Emails, DeleteUser(f) PROVE users'[e].info = users[e].info
    BY <1>0, <1>3, <2>4 DEF DeleteUser, TypeOK, HasUser, NoUser
  <2> QED
    BY <1>0, <1>3, <2>1, <2>2, <2>3, <2>4, RegisterLocal DEF HasUser, Next, vars, VerifyStep,
       RetrieveVerificationData, HGetAll, DelExhausted, DelProved, Del, DelAgain, CountTry, CountAgain,
       DeleteUserFromStaging, Expire, Restart, rows
<1>5. \A v \in Attempts :
        verify'[v].call \in {"DelProved", "PersistUserInfo"} => Presented(verify[v].email)'
  BY <1>2 DEF Presented
<1> QED
  BY <1>1, <1>3, <1>5 DEF PresentedOK, EmailWasProved

\* No account exists of an address at which no OTP was received and presented, also
\* when an account of it was deleted while handlers were verifying.
THEOREM EmailsAreProved == Spec => []EmailWasProved
<1>1. Init => PresentedOK
  BY DEF Init, PresentedOK, EmailWasProved, HasUser, NoUser, NoRequest
<1>2. IInv /\ IInv' /\ PresentedOK /\ [Next]_vars => PresentedOK'
  BY ConstantsAssumption, PresentedStep
<1>3. PresentedOK => EmailWasProved
  BY DEF PresentedOK
<1> QED
  BY <1>1, <1>2, <1>3, Invariance, PTL DEF Spec

-----------------------------------------------------------------------------
\* A registration is inserted into staging_users once, by its CreateUser.
LEMMA InsertedOnceStep ==
  ASSUME TypeOK, ControlOK, ConstantsAssumption, InsertedOnce, [Next]_vars
  PROVE  InsertedOnce'
<1> SUFFICES ASSUME NEW r \in Registrations, register'[r].call \in {"GetUserByEmail", "CreateUser"},
                    NEW e \in Emails
             PROVE  staging'[e] # r /\ users'[e].info # r
  BY DEF InsertedOnce
<1>0. None \notin Registrations
  BY DEF ConstantsAssumption
<1>1. ASSUME NEW q \in Registrations, RegisterStep(q) PROVE staging'[e] # r /\ users'[e].info # r
  <2>1. CASE q = r
    <3>1. register[r].call = "GetUserByEmail"
      BY <1>1, <2>1, RegisterControl
    <3>2. GetUserByEmail(r)
      BY <1>1, <2>1, <3>1 DEF RegisterStep, CreateUser, SaveVerificationData, SaveOtp, SaveAgain,
         SendVerificationEmail, Registers
    <3> QED BY <3>1, <3>2 DEF InsertedOnce, GetUserByEmail, rows
  <2>2. CASE q # r
    <3>1. register[r].call \in {"GetUserByEmail", "CreateUser"} /\ users' = users
      BY <1>1, <2>2, RegisterLocal
    <3>2. staging'[e] \in {staging[e], q}
      BY <1>1 DEF RegisterStep, GetUserByEmail, CreateUser, SaveVerificationData, SaveOtp, SaveAgain,
         SendVerificationEmail, TypeOK, rows
    <3> QED BY <2>2, <3>1, <3>2 DEF InsertedOnce
  <2> QED BY <2>1, <2>2
<1>2. ASSUME staging[e] # r, users[e].info # r, NEW v \in Attempts, VerifyStep(v)
      PROVE  staging'[e] # r /\ users'[e].info # r
  <2>1. CASE PersistUserInfo(v)
    <3>1. users'[e].info \in {users[e].info, staging[e]}
      BY <2>1 DEF PersistUserInfo, TypeOK
    <3> QED BY <1>2, <2>1, <3>1 DEF PersistUserInfo
  <2>2. CASE PersistUserPreferenes(v)
    <3>1. users'[e].info = users[e].info
      BY <2>2, SameInfo
    <3> QED BY <1>2, <2>2, <3>1 DEF PersistUserPreferenes
  <2>3. CASE DeleteUserFromStaging(v)
    BY <1>0, <1>2, <2>3 DEF DeleteUserFromStaging, TypeOK
  <2>4. CASE UNCHANGED rows
    BY <1>2, <2>4 DEF rows
  <2> QED BY <1>2, <2>1, <2>2, <2>3, <2>4 DEF VerifyStep, RetrieveVerificationData, HGetAll,
             DelExhausted, DelProved, Del, DelAgain, CountTry, CountAgain
<1>3. ASSUME NEW v \in Attempts, VerifyStep(v) PROVE staging'[e] # r /\ users'[e].info # r
  BY <1>2, <1>3, VerifyLocal DEF InsertedOnce
<1>4. ASSUME NEW f \in Emails, Expire(f) \/ DeleteUser(f) PROVE staging'[e] # r /\ users'[e].info # r
  <2>1. register' = register /\ staging' = staging /\ users'[e].info \in {users[e].info, None}
    BY <1>4 DEF Expire, DeleteUser, TypeOK, NoUser, rows
  <2> QED BY <1>0, <2>1 DEF InsertedOnce
<1>5. CASE Restart
  <2>1. register[r].call = "GetUserByEmail" /\ staging' = staging /\ users' = users
    BY <1>5 DEF Restart, TypeOK, Registering, rows
  <2> QED BY <2>1 DEF InsertedOnce
<1>6. CASE UNCHANGED vars
  BY <1>6 DEF vars, rows, InsertedOnce
<1> QED
  BY <1>1, <1>3, <1>4, <1>5, <1>6 DEF Next

\* The handler that inserted the row of an account completes it, unless an error or
\* a stop has kept that handler from it.
LEMMA CompletingStep ==
  ASSUME TypeOK, ControlOK, ConstantsAssumption, CompletingOK, [Next]_vars
  PROVE  \A e \in Emails : HasUser(e)' /\ e \notin deleted' \cup interrupted' => Completing(e)'
<1> SUFFICES ASSUME NEW e \in Emails, HasUser(e)', e \notin deleted', e \notin interrupted'
             PROVE  Completing(e)'
  OBVIOUS
<1>0. InsertedOnce /\ InsertedOnce' /\ TypeOK' /\ failures \in Nat
  BY InsertedOnceStep, TypeStep DEF CompletingOK, TypeOK
<1>8. interrupted \subseteq interrupted'
  <2>1. ASSUME NEW v \in Attempts, VerifyStep(v) PROVE interrupted \subseteq interrupted'
    BY <2>1 DEF VerifyStep, RetrieveVerificationData, HGetAll, DelExhausted, DelProved, Del, DelAgain,
       CountTry, CountAgain, PersistUserInfo, PersistUserPreferenes, DeleteUserFromStaging, Interrupts, hist
  <2> QED BY <2>1, RegisterLocal DEF Next, vars, Expire, DeleteUser, Restart, hist
<1>1. ASSUME HasUser(e), e \notin deleted PROVE Completing(e)
  BY <1>1, <1>8 DEF CompletingOK
<1>2. ASSUME users'[e] = users[e], verify' = verify, deleted' = deleted,
             staging'[e] = staging[e] \/ staging'[e] # users[e].info
      PROVE  Completing(e)'
  BY <1>1, <1>2 DEF Completing, FinishedBy, HasUser
<1>3. ASSUME NEW r \in Registrations, RegisterStep(r) PROVE Completing(e)'
  <2>1. users' = users /\ verify' = verify /\ deleted' = deleted
    BY <1>3, RegisterLocal
  <2>2. CASE CreateUser(r)
    <3>1. staging'[e] \in {staging[e], r}
      BY <2>2 DEF CreateUser, TypeOK
    <3>2. users[e].info # r
      BY <1>0, <2>2 DEF CreateUser, Registers, InsertedOnce
    <3> QED BY <1>2, <2>1, <3>1, <3>2
  <2>3. CASE staging' = staging
    BY <1>2, <2>1, <2>3
  <2> QED BY <1>3, <2>2, <2>3 DEF RegisterStep, GetUserByEmail, SaveVerificationData, SaveOtp, SaveAgain,
             SendVerificationEmail, rows
<1>4. ASSUME NEW v \in Attempts, VerifyStep(v) PROVE Completing(e)'
  <2>0. /\ \A w \in Attempts \ {v} : verify'[w] = verify[w]
        /\ deleted' = deleted
    BY <1>4, VerifyLocal
  <2>1. CASE PersistUserInfo(v) /\ users' # users
    <3>1. /\ staging' = staging /\ verify[v].email \in Emails
          /\ users' = [users EXCEPT ![verify[v].email] =
                         [info |-> staging[verify[v].email], by |-> v, preferences |-> FALSE]]
      BY <1>0, <2>1 DEF PersistUserInfo, Verifies, ControlOK
    <3>3. CASE e = verify[v].email
      <4>1. users'[e].by = v
        BY <3>1, <3>3 DEF TypeOK
      <4>2. NoFault
        BY <2>1, <3>3 DEF PersistUserInfo, NoFault
      <4>3. VerifyGoesTo(v, "PersistUserPreferenes")
        BY <1>0, <2>1, <4>2 DEF PersistUserInfo, NoFault, Fault
      <4>4. verify'[v].call = "PersistUserPreferenes" /\ verify'[v].email = verify[v].email
        BY <4>3, VerifyMoves
      <4> QED BY <3>3, <4>1, <4>4 DEF Completing, FinishedBy
    <3>4. CASE e # verify[v].email
      <4>1. users'[e] = users[e]
        BY <3>1, <3>4 DEF TypeOK
      <4>2. PICK w \in Attempts :
              /\ users[e].by = w
              /\ users[e].preferences \/ FinishedBy(e, w, "PersistUserPreferenes")
              /\ staging[e] = users[e].info
                   => FinishedBy(e, w, "PersistUserPreferenes") \/ FinishedBy(e, w, "DeleteUserFromStaging")
        BY <1>1, <2>0, <4>1 DEF Completing, HasUser
      <4>3. \A call : FinishedBy(e, w, call) => FinishedBy(e, w, call)'
        BY <2>0, <3>4 DEF FinishedBy
      <4> QED BY <3>1, <4>1, <4>2, <4>3 DEF Completing
    <3> QED BY <3>3, <3>4
  <2>2. CASE PersistUserPreferenes(v) /\ users' # users
    <3>1. /\ staging' = staging
          /\ users[verify[v].email].by = v /\ verify[v].email \in Emails
          /\ users' = [users EXCEPT ![verify[v].email].preferences = TRUE]
      BY <1>0, <2>2 DEF PersistUserPreferenes, Verifies, ControlOK
    <3>3. users'[e].info = users[e].info /\ users'[e].by = users[e].by
      BY <2>2, SameInfo
    <3>4. CASE e = verify[v].email
      <4>2. NoFault
        BY <2>2, <3>4 DEF PersistUserPreferenes, Interrupts, NoFault
      <4>3. VerifyGoesTo(v, "DeleteUserFromStaging")
        BY <1>0, <2>2, <4>2 DEF PersistUserPreferenes, NoFault, Fault
      <4>4. verify'[v].call = "DeleteUserFromStaging" /\ verify'[v].email = verify[v].email
        BY <4>3, VerifyMoves
      <4>1. users'[e].preferences = TRUE /\ users'[e].by = v
        BY <3>1, <3>3, <3>4 DEF TypeOK, User
      <4> QED BY <3>4, <4>1, <4>4 DEF Completing, FinishedBy
    <3>5. CASE e # verify[v].email
      <4>1. users'[e] = users[e]
        BY <3>1, <3>5 DEF TypeOK
      <4>2. PICK w \in Attempts :
              /\ users[e].by = w
              /\ users[e].preferences \/ FinishedBy(e, w, "PersistUserPreferenes")
              /\ staging[e] = users[e].info
                   => FinishedBy(e, w, "PersistUserPreferenes") \/ FinishedBy(e, w, "DeleteUserFromStaging")
        BY <1>1, <2>0, <4>1 DEF Completing, HasUser
      <4>3. \A call : FinishedBy(e, w, call) => FinishedBy(e, w, call)'
        BY <2>0, <3>5 DEF FinishedBy
      <4> QED BY <3>1, <4>1, <4>2, <4>3 DEF Completing
    <3> QED BY <3>4, <3>5
  <2>3. ASSUME users' = users PROVE Completing(e)'
    <3>1. PICK w \in Attempts :
            /\ users[e].by = w
            /\ users[e].preferences \/ FinishedBy(e, w, "PersistUserPreferenes")
            /\ staging[e] = users[e].info
                 => FinishedBy(e, w, "PersistUserPreferenes") \/ FinishedBy(e, w, "DeleteUserFromStaging")
      BY <1>1, <2>0, <2>3 DEF Completing, HasUser
    <3>2. staging'[e] \in {staging[e], None}
      BY <1>4 DEF VerifyStep, RetrieveVerificationData, HGetAll, DelExhausted, DelProved, Del,
         DelAgain, CountTry, CountAgain,
         PersistUserInfo, PersistUserPreferenes, DeleteUserFromStaging, TypeOK, rows
    <3>3. users[e].info # None
      BY <2>3 DEF HasUser
    <3>4. CASE w # v \/ ~(FinishedBy(e, v, "PersistUserPreferenes") \/ FinishedBy(e, v, "DeleteUserFromStaging"))
      <4>1. \A call \in {"PersistUserPreferenes", "DeleteUserFromStaging"} :
               FinishedBy(e, w, call) => FinishedBy(e, w, call)'
        BY <2>0, <3>4 DEF FinishedBy
      <4> QED BY <2>3, <3>1, <3>2, <3>3, <4>1 DEF Completing
    <3>5. CASE w = v /\ FinishedBy(e, v, "DeleteUserFromStaging")
      <4>1. DeleteUserFromStaging(v)
        BY <1>4, <3>5 DEF VerifyStep, RetrieveVerificationData, HGetAll, DelExhausted, DelProved, DelAgain,
           CountTry, CountAgain, PersistUserInfo, PersistUserPreferenes, Verifies, FinishedBy
      <4>4. NoFault
        BY <3>5, <4>1 DEF DeleteUserFromStaging, Interrupts, FinishedBy, NoFault
      <4>2. staging'[e] = None
        BY <1>0, <3>5, <4>1, <4>4 DEF DeleteUserFromStaging, FinishedBy, TypeOK, NoFault, Fault
      <4>3. users[e].preferences
        BY <3>1, <3>5 DEF FinishedBy
      <4> QED BY <2>3, <3>1, <3>3, <4>2, <4>3 DEF Completing
    <3>6. CASE w = v /\ FinishedBy(e, v, "PersistUserPreferenes")
      <4>1. PersistUserPreferenes(v)
        BY <1>4, <3>6 DEF VerifyStep, RetrieveVerificationData, HGetAll, DelExhausted, DelProved,
           DelAgain, CountTry, CountAgain, PersistUserInfo, DeleteUserFromStaging, Verifies, FinishedBy
      <4>5. NoFault
        BY <3>6, <4>1 DEF PersistUserPreferenes, Interrupts, FinishedBy, NoFault
      <4>2. /\ users' = [users EXCEPT ![e].preferences = TRUE] /\ staging' = staging
            /\ VerifyGoesTo(v, "DeleteUserFromStaging")
        BY <1>0, <3>1, <3>6, <4>1, <4>5 DEF PersistUserPreferenes, FinishedBy, NoFault, Fault
      <4>3. verify'[v].call = "DeleteUserFromStaging" /\ verify'[v].email = e
        BY <3>6, <4>2, VerifyMoves DEF FinishedBy
      <4>4. users'[e].preferences
        BY <4>2 DEF TypeOK, User
      <4> QED BY <2>3, <3>1, <3>6, <4>3, <4>4 DEF Completing, FinishedBy
    <3> QED BY <3>4, <3>5, <3>6
  <2>4. users' = users \/ PersistUserInfo(v) \/ PersistUserPreferenes(v)
    BY <1>4 DEF VerifyStep, RetrieveVerificationData, HGetAll, DelExhausted, DelProved, Del, DelAgain,
       CountTry, CountAgain, DeleteUserFromStaging, rows
  <2> QED BY <2>1, <2>2, <2>3, <2>4
<1>5. ASSUME NEW f \in Emails, Expire(f) PROVE Completing(e)'
  BY <1>2, <1>5 DEF Expire, rows, hist
<1>6. ASSUME NEW f \in Emails, DeleteUser(f) PROVE Completing(e)'
  <2>1. f # e
    BY <1>6 DEF DeleteUser
  <2>2. users'[e] = users[e] /\ staging' = staging /\ verify' = verify /\ e \notin deleted
    BY <1>6, <2>1 DEF DeleteUser, TypeOK
  <2> QED BY <1>1, <2>2 DEF Completing, FinishedBy, HasUser
<1>7. CASE UNCHANGED vars
  BY <1>2, <1>7 DEF vars, rows, hist
<1>9. CASE Restart
  <2>1. users' = users /\ staging' = staging /\ deleted' = deleted /\ e \notin Unfinished
    BY <1>9 DEF Restart, rows
  <2>2. \A v \in Attempts : ~FinishedBy(e, v, "PersistUserPreferenes") /\ ~FinishedBy(e, v, "DeleteUserFromStaging")
    BY <2>1 DEF Unfinished, FinishedBy
  <2> QED BY <1>1, <2>1, <2>2 DEF Completing, HasUser
<1> QED
  BY <1>3, <1>4, <1>5, <1>6, <1>7, <1>9 DEF Next

\* Every account gets its preferences and leaves staging_users, or a handler is about
\* to do it, unless an error or a stop met that very handler after its first write.
THEOREM AccountsAreCompleted == Spec => []AccountIsCompleted
<1>1. Init => CompletingOK
  <2>1. ASSUME Init PROVE InsertedOnce /\ \A e \in Emails : ~HasUser(e)
    BY <2>1, ConstantsAssumption DEF Init, InsertedOnce, HasUser, NoUser, ConstantsAssumption
  <2> QED BY <2>1 DEF CompletingOK
<1>2. IInv /\ CompletingOK /\ [Next]_vars => CompletingOK'
  BY ConstantsAssumption, InsertedOnceStep, CompletingStep DEF CompletingOK, IInv
<1>3. CompletingOK => AccountIsCompleted
  <2>1. \A e \in Emails, v \in Attempts : \A call : FinishedBy(e, v, call) => Finishing(e, call)
    BY DEF FinishedBy, Finishing
  <2> QED BY <2>1 DEF CompletingOK, Completing, AccountIsCompleted
<1> QED
  BY <1>1, <1>2, <1>3, Invariance, PTL DEF Spec

\* Every variable stays in its domain.
THEOREM TypeCorrect == Spec => []TypeOK
<1>1. IInv => TypeOK
  BY DEF IInv
<1> QED
  BY <1>1, Invariance, PTL
=============================================================================
