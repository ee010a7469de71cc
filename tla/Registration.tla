---------------------------- MODULE Registration ----------------------------
(***************************************************************************)
(* Registration by one-time password: RegisterUser and VerifyUser          *)
(* (internal/usecase/user_service.go), the rows of users, staging_users    *)
(* and email_verification in PostgreSQL, and the hash users:otp:<email> in *)
(* Redis (infrastructure/repository/redis/redis_otp.go).                   *)
(*                                                                         *)
(* The handlers run concurrently; each query, Redis command and mail is    *)
(* one action. A registration r is one call of RegisterUser: it stands for *)
(* the personal data of the form and for the OTP drawn for it (two OTPs    *)
(* are taken to differ). None in the place of a guess is a wrong OTP.      *)
(* The Redis client is made with its default options                       *)
(* (infrastructure/repository/redis/client.go), so it issues a command     *)
(* again when the answer is lost, and the command takes effect twice.      *)
(***************************************************************************)
EXTENDS Integers, FiniteSets

CONSTANTS
  Emails,
  Registrations,   \* the calls of RegisterUser
  Attempts,        \* the goroutines that run VerifyUser, one request after another
  MaxTries,        \* wrong guesses until VerifyOTP deletes the hash (3)
  MaxFailures,     \* bound: failed queries and Redis commands, and restarts
  None

ASSUME ConstantsAssumption ==
  /\ IsFiniteSet(Attempts)
  /\ None \notin Registrations \cup Attempts \cup Emails
  /\ MaxTries \in Nat \ {0} /\ MaxFailures \in Nat

VARIABLES
  users,         \* per email: the row of users, with its row of users_preferences
  staging,       \* per email: the registration whose data staging_users holds
  verification,  \* the emails that have a row in email_verification
  otp,           \* per email: the hash in Redis
  register,      \* per registration: the next call of RegisterUser
  verify,        \* per goroutine: the next call of VerifyUser
  mailed,        \* the registrations whose OTP the SMTP server has accepted
  failures,      \* how many failed calls and restarts there were, to bound them
  proved,        \* history: the registrations whose OTP was presented and accepted
  wrong,         \* history: the wrong guesses compared with a registration's OTP
  uncounted,     \* history: those of them whose HINCRBY did not happen
  saves,         \* history: how often the HSET of a registration took effect
  deleted,       \* history: the emails an account of which was deleted
  interrupted    \* history: the emails whose account was made by a VerifyUser that
                 \* an error or a stop has kept from its remaining writes

rows == <<users, staging, verification>>
hist == <<proved, wrong, uncounted, saves, deleted, interrupted>>
vars == <<rows, otp, register, verify, mailed, failures, hist>>

-----------------------------------------------------------------------------
(* PostgreSQL and Redis.                                                    *)

\* by is the primary key: the VerifyUser that inserted the row.
User   == [info: Registrations \cup {None}, by: Attempts \cup {None}, preferences: BOOLEAN]
NoUser == [info |-> None, by |-> None, preferences |-> FALSE]

HasUser(e) == users[e].info # None

\* otp is None when the field is missing; expires says that HEXPIRE was done.
OtpHash == [otp: Registrations \cup {None}, tries: Nat, expires: BOOLEAN]
NoHash  == [otp |-> None, tries |-> 0, expires |-> FALSE]

\* HSET takes the expiration of the fields away; HINCRBY keeps it, and makes
\* the hash anew when there is none.
HSet(r) == [otp |-> r, tries |-> 0, expires |-> FALSE]
HExpire(h) == [h EXCEPT !.expires = (h # NoHash)]
CountDown(h) == [h EXCEPT !.tries = @ - 1]   \* mutant
HIncrBy(h) == [h EXCEPT !.tries = @ + 1]

-----------------------------------------------------------------------------
(***************************************************************************)
(* The control of RegisterUser: call is the call that is made next. At     *)
(* "send" two goroutines run, one saving the OTP and one mailing it; the   *)
(* answer depends on both, and neither is stopped when the other fails.    *)
(***************************************************************************)
Registering == [call: {"GetUserByEmail", "CreateUser", "SaveVerificationData", "send", "end"},
                email: Emails \cup {None}, saving: {"HSet", "HExpire", "end"}, mailing: BOOLEAN]
NewRegistration ==
  [call |-> "GetUserByEmail", email |-> None, saving |-> "HSet", mailing |-> TRUE]

Verifying == [call: {"RetrieveVerificationData", "HGetAll", "DelExhausted", "HIncrBy", "DelProved",
                     "PersistUserInfo", "PersistUserPreferenes", "DeleteUserFromStaging"},
              email: Emails \cup {None}, guess: Registrations \cup {None},
              against: Registrations \cup {None}]   \* whose OTP a guess to count was wrong for
NoRequest ==
  [call |-> "RetrieveVerificationData", email |-> None, guess |-> None, against |-> None]

Init ==
  /\ users = [e \in Emails |-> NoUser]
  /\ staging = [e \in Emails |-> None]
  /\ verification = {}
  /\ otp = [e \in Emails |-> NoHash]
  /\ register = [r \in Registrations |-> NewRegistration]
  /\ verify = [v \in Attempts |-> NoRequest]
  /\ mailed = {}
  /\ failures = 0
  /\ proved = {} /\ deleted = {} /\ interrupted = {}
  /\ wrong = [r \in Registrations |-> 0]
  /\ uncounted = [r \in Registrations |-> 0]
  /\ saves = [r \in Registrations |-> 0]

Fault   == failures < MaxFailures /\ failures' = failures + 1
NoFault == UNCHANGED failures

-----------------------------------------------------------------------------
(* RegisterUser                                                             *)

Registers(r, call) == register[r].call = call
RegisterGoesTo(r, call) == register' = [register EXCEPT ![r].call = call]

\* Only a row found ends the registration: with an error of the query it goes on.
GetUserByEmail(r) ==
  /\ Registers(r, "GetUserByEmail")
  /\ \E e \in Emails :
       \/ /\ (~HasUser(e) /\ NoFault) \/ Fault
          /\ register' = [register EXCEPT ![r].call = "CreateUser", ![r].email = e]
       \/ HasUser(e) /\ NoFault /\ RegisterGoesTo(r, "end")
  /\ UNCHANGED <<rows, otp, verify, mailed, hist>>

\* The email is unique in staging_users.
CreateUser(r) ==
  LET e == register[r].email
      inserted == [staging EXCEPT ![e] = r]
  IN
  /\ Registers(r, "CreateUser")
  /\ \/ staging[e] = None /\ staging' = inserted /\ RegisterGoesTo(r, "SaveVerificationData") /\ NoFault
     \/ staging[e] # None /\ UNCHANGED staging /\ RegisterGoesTo(r, "end") /\ NoFault
     \/ /\ staging' \in {staging, IF staging[e] = None THEN inserted ELSE staging}
        /\ RegisterGoesTo(r, "end") /\ Fault
  /\ UNCHANGED <<users, verification, otp, verify, mailed, hist>>

\* The email is unique in email_verification, and a foreign key into staging_users.
SaveVerificationData(r) ==
  LET e == register[r].email
      free == staging[e] # None /\ e \notin verification
      inserted == verification \cup {e}
  IN
  /\ Registers(r, "SaveVerificationData")
  /\ \/ free /\ verification' = inserted /\ RegisterGoesTo(r, "send") /\ NoFault
     \/ ~free /\ UNCHANGED verification /\ RegisterGoesTo(r, "end") /\ NoFault
     \/ /\ verification' \in {verification, IF free THEN inserted ELSE verification}
        /\ RegisterGoesTo(r, "end") /\ Fault
  /\ UNCHANGED <<users, staging, otp, verify, mailed, hist>>

\* SaveOTP, in two commands. An error may be reported for one that took effect.
Saved(r) ==
  /\ otp' = [otp EXCEPT ![register[r].email] = HSet(r)]
  /\ saves' = [saves EXCEPT ![r] = @ + 1]
Timed(r) == otp' = [otp EXCEPT ![register[r].email] = HExpire(@)] /\ UNCHANGED saves

SaveOtp(r) ==
  /\ Registers(r, "send")
  /\ \/ /\ register[r].saving = "HSet"
        /\ \/ Saved(r) /\ NoFault /\ register' = [register EXCEPT ![r].saving = "HExpire"]
           \/ /\ Saved(r) \/ UNCHANGED <<otp, saves>>
              /\ Fault /\ register' = [register EXCEPT ![r].saving = "end"]
     \/ /\ register[r].saving = "HExpire"
        /\ register' = [register EXCEPT ![r].saving = "end"]
        /\ (Timed(r) /\ NoFault) \/ ((Timed(r) \/ UNCHANGED <<otp, saves>>) /\ Fault)
  /\ UNCHANGED <<rows, verify, mailed, proved, wrong, uncounted, deleted, interrupted>>

\* The command took effect, its answer is lost, and the client will issue it again:
\* an HSET then resets the counter of guesses, or brings back a hash that is gone.
SaveAgain(r) ==
  /\ Registers(r, "send")
  /\ (register[r].saving = "HSet" /\ Saved(r)) \/ (register[r].saving = "HExpire" /\ Timed(r))
  /\ Fault
  /\ UNCHANGED <<rows, register, verify, mailed, proved, wrong, uncounted, deleted, interrupted>>

\* SendVerificationEmail, in a goroutine of its own: the mailer may fail, and
\* the OTP is mailed although it could not be saved.
SendVerificationEmail(r) ==
  /\ Registers(r, "send") /\ register[r].mailing
  /\ register' = [register EXCEPT ![r].mailing = FALSE]
  /\ mailed' \in {mailed, mailed \cup {r}}
  /\ UNCHANGED <<rows, otp, verify, failures, hist>>

RegisterStep(r) ==
  \/ GetUserByEmail(r) \/ CreateUser(r) \/ SaveVerificationData(r)
  \/ SaveOtp(r) \/ SaveAgain(r) \/ SendVerificationEmail(r)

-----------------------------------------------------------------------------
(* VerifyUser                                                               *)

Verifies(v, call) == verify[v].call = call
VerifyGoesTo(v, call) == verify' = [verify EXCEPT ![v].call = call]
VerifyEnds(v) == verify' = [verify EXCEPT ![v] = NoRequest]

\* The client names the row by the request id it sends, and presents an OTP that
\* was mailed or a wrong one.
RetrieveVerificationData(v) ==
  /\ Verifies(v, "RetrieveVerificationData")
  /\ \E e \in verification, guess \in mailed \cup {None} :
       verify' = [verify EXCEPT ![v].call = "HGetAll", ![v].email = e, ![v].guess = guess]
  /\ UNCHANGED <<rows, otp, register, mailed, failures, hist>>

\* Mutants: one try too many; a missing field equals an empty guess.
ExhaustedLate(h)     == h.tries > MaxTries
MatchesEmpty(h, guess) == h.otp = guess

Exhausted(h)      == h.tries >= MaxTries
Matches(h, guess) == h.otp # None /\ h.otp = guess

\* VerifyOTP: what HGETALL returns decides which command comes next.
HGetAll(v) ==
  LET h == otp[verify[v].email]
      matches == Matches(h, verify[v].guess)
  IN
  /\ Verifies(v, "HGetAll")
  /\ \/ /\ (h = NoHash /\ NoFault) \/ Fault
        /\ VerifyEnds(v)
        /\ UNCHANGED <<proved, wrong>>
     \/ /\ Exhausted(h) /\ NoFault
        /\ VerifyGoesTo(v, "DelExhausted")
        /\ UNCHANGED <<proved, wrong>>
     \/ /\ h # NoHash /\ ~Exhausted(h) /\ ~matches /\ NoFault
        /\ verify' = [verify EXCEPT ![v].call = "HIncrBy", ![v].against = h.otp]
        /\ wrong' = [r \in Registrations |-> wrong[r] + IF r = h.otp THEN 1 ELSE 0]
        /\ UNCHANGED proved
     \/ /\ h # NoHash /\ ~Exhausted(h) /\ matches /\ NoFault
        /\ VerifyGoesTo(v, "DelProved")
        /\ proved' = proved \cup {h.otp}
        /\ UNCHANGED wrong
  /\ UNCHANGED <<rows, otp, register, mailed, uncounted, saves, deleted, interrupted>>

\* DEL; VerifyOTP does not look at its error.
Del(v) ==
  /\ \/ otp' = [otp EXCEPT ![verify[v].email] = NoHash] /\ NoFault
     \/ UNCHANGED otp /\ Fault
  /\ UNCHANGED <<rows, register, mailed, hist>>

DelExhausted(v) == Verifies(v, "DelExhausted") /\ VerifyEnds(v) /\ Del(v)
DelProved(v)    == Verifies(v, "DelProved") /\ VerifyGoesTo(v, "PersistUserInfo") /\ Del(v)

\* The answer is lost and the client will issue DEL again, whatever is saved by then.
DelAgain(v) ==
  /\ verify[v].call \in {"DelExhausted", "DelProved"}
  /\ otp' = [otp EXCEPT ![verify[v].email] = NoHash]
  /\ Fault
  /\ UNCHANGED <<rows, register, verify, mailed, hist>>

\* A wrong guess of v that will not be counted any more.
NotCounted(v) == [r \in Registrations |-> uncounted[r] + IF r = verify[v].against THEN 1 ELSE 0]

CountTry(v) ==
  LET counted == [otp EXCEPT ![verify[v].email] = HIncrBy(@)] IN
  /\ Verifies(v, "HIncrBy")
  /\ VerifyEnds(v)
  /\ \/ otp' = counted /\ UNCHANGED uncounted /\ (NoFault \/ Fault)
     \/ UNCHANGED otp /\ uncounted' = NotCounted(v) /\ Fault
  /\ UNCHANGED <<rows, register, mailed, proved, wrong, saves, deleted, interrupted>>

\* HINCRBY once more: the guess is counted (no longer against an OTP), and again.
CountAgain(v) ==
  /\ Verifies(v, "HIncrBy")
  /\ otp' = [otp EXCEPT ![verify[v].email] = HIncrBy(@)]
  /\ verify' = [verify EXCEPT ![v].against = None]
  /\ Fault
  /\ UNCHANGED <<rows, register, mailed, hist>>

\* INSERT ... SELECT from staging_users: no staging row, no insert; the email is
\* unique in users.
PersistUserInfo(v) ==
  LET e == verify[v].email
      can == staging[e] # None /\ ~HasUser(e)
      inserted == [users EXCEPT ![e] = [info |-> staging[e], by |-> v, preferences |-> FALSE]]
  IN
  /\ Verifies(v, "PersistUserInfo")
  /\ \/ can /\ users' = inserted /\ VerifyGoesTo(v, "PersistUserPreferenes") /\ NoFault
     \/ ~can /\ UNCHANGED users /\ VerifyEnds(v) /\ NoFault
     \/ users' \in {users, IF can THEN inserted ELSE users} /\ VerifyEnds(v) /\ Fault
  /\ interrupted' = IF failures' # failures /\ users' # users THEN interrupted \cup {e} ELSE interrupted
  /\ UNCHANGED <<staging, verification, otp, register, mailed, proved, wrong, uncounted, saves, deleted>>

\* A failed call keeps the handler from the writes that remain.
Interrupts(e) == interrupted' = IF failures' # failures THEN interrupted \cup {e} ELSE interrupted

\* The foreign key is the id PersistUserInfo returned.
PersistUserPreferenes(v) ==
  LET e == verify[v].email
      inserted == [users EXCEPT ![e].preferences = TRUE]
      exists == users[e].by = v
  IN
  /\ Verifies(v, "PersistUserPreferenes")
  /\ \/ exists /\ users' = inserted /\ VerifyGoesTo(v, "DeleteUserFromStaging") /\ NoFault
     \/ ~exists /\ UNCHANGED users /\ VerifyEnds(v) /\ NoFault
     \/ users' \in {users, IF exists THEN inserted ELSE users} /\ VerifyEnds(v) /\ Fault
  /\ Interrupts(e)
  /\ UNCHANGED <<staging, verification, otp, register, mailed, proved, wrong, uncounted, saves, deleted>>

\* Mutant: only the row of email_verification is deleted.
DeleteVerificationOnly(v) ==
  /\ Verifies(v, "DeleteUserFromStaging")
  /\ VerifyEnds(v) /\ NoFault
  /\ verification' = verification \ {verify[v].email}
  /\ UNCHANGED <<users, staging, otp, register, mailed, hist>>

\* email_verification cascades.
DeleteUserFromStaging(v) ==
  LET e == verify[v].email IN
  /\ Verifies(v, "DeleteUserFromStaging")
  /\ VerifyEnds(v)
  /\ \/ /\ staging' = [staging EXCEPT ![e] = None]
        /\ verification' = verification \ {e}
        /\ NoFault \/ Fault
     \/ UNCHANGED <<staging, verification>> /\ Fault
  /\ Interrupts(e)
  /\ UNCHANGED <<users, otp, register, mailed, proved, wrong, uncounted, saves, deleted>>

VerifyStep(v) ==
  \/ RetrieveVerificationData(v) \/ HGetAll(v) \/ DelExhausted(v) \/ DelProved(v) \/ DelAgain(v)
  \/ CountTry(v) \/ CountAgain(v) \/ PersistUserInfo(v) \/ PersistUserPreferenes(v) \/ DeleteUserFromStaging(v)

-----------------------------------------------------------------------------
\* The fields of the hash reach their expiration, both at the same time.
Expire(e) ==
  /\ otp[e].expires
  /\ otp' = [otp EXCEPT ![e] = NoHash]
  /\ UNCHANGED <<rows, register, verify, mailed, failures, hist>>

\* DeleteUser, of whoever the id in the payload names; users_preferences cascades.
DeleteUser(e) ==
  /\ HasUser(e)
  /\ users' = [users EXCEPT ![e] = NoUser]
  /\ deleted' = deleted \cup {e}
  /\ UNCHANGED <<staging, verification, otp, register, verify, mailed, failures,
                 proved, wrong, uncounted, saves, interrupted>>

\* The handlers that have found a guess at the OTP of r wrong and not counted it yet.
Pending(r) == {v \in Attempts : verify[v].call = "HIncrBy" /\ verify[v].against = r}

\* The accounts whose handler has writes left to make.
Unfinished ==
  {verify[v].email : v \in {w \in Attempts :
     verify[w].call \in {"PersistUserPreferenes", "DeleteUserFromStaging"}}}

\* The process is stopped or killed and started again; what a request had not
\* done stays undone.
Restart ==
  /\ Fault
  /\ register' = [r \in Registrations |->
       IF register[r].call = "GetUserByEmail" THEN register[r] ELSE [register[r] EXCEPT !.call = "end"]]
  /\ verify' = [v \in Attempts |-> NoRequest]
  /\ uncounted' = [r \in Registrations |-> uncounted[r] + Cardinality(Pending(r))]
  /\ interrupted' = interrupted \cup Unfinished
  /\ UNCHANGED <<rows, otp, mailed, proved, wrong, saves, deleted>>

Next ==
  \/ \E r \in Registrations : RegisterStep(r)
  \/ \E v \in Attempts : VerifyStep(v)
  \/ \E e \in Emails : Expire(e) \/ DeleteUser(e)
  \/ Restart

Spec == Init /\ [][Next]_vars

-----------------------------------------------------------------------------
\* Every variable stays in its domain.
TypeOK ==
  /\ users \in [Emails -> User]
  /\ staging \in [Emails -> Registrations \cup {None}]
  /\ verification \in SUBSET Emails
  /\ otp \in [Emails -> OtpHash]
  /\ register \in [Registrations -> Registering]
  /\ verify \in [Attempts -> Verifying]
  /\ mailed \in SUBSET Registrations /\ proved \in SUBSET Registrations
  /\ deleted \in SUBSET Emails /\ interrupted \in SUBSET Emails
  /\ saves \in [Registrations -> Nat]
  /\ failures \in Nat
  /\ wrong \in [Registrations -> Nat] /\ uncounted \in [Registrations -> Nat]

\* README "User registration is protected using One-Time Passwords": whose data
\* became an account presented the OTP mailed for exactly that registration,
\* also when several handlers verify at once. (An account of the same email that
\* was deleted in between is the exception: a handler that had passed VerifyOTP
\* for the old registration persists whatever is in staging_users by then.)
AccountWasProved ==
  \A e \in Emails : HasUser(e) /\ e \notin deleted => users[e].info \in proved \cap mailed

\* Somebody presented an OTP that was mailed to the address e.
Presented(e) == \E r \in proved \cap mailed : register[r].email = e

\* The same of the address, without exception: there is no account of an email at
\* which no OTP was received. VerifyUser knows the email and not the registration, so
\* after a deletion the data may be those of a registration that was not proved, but
\* they are stored under an address that was (user_service.go:203-213).
EmailWasProved == \A e \in Emails : HasUser(e) => Presented(e)

\* The wrong guesses one HSET of an OTP allows: MaxTries, and one more for every
\* other handler that has read the counter before the increments of the rest.
Allowance == MaxTries + Cardinality(Attempts) - 1

\* An OTP is compared with at most Allowance wrong guesses for every time its HSET
\* took effect, and with one more for every guess whose increment was lost. The
\* HSET takes effect once, and again for a failed call only: then the client has
\* set the counter back.
GuessesBounded ==
  \A r \in Registrations :
    /\ wrong[r] <= Allowance * saves[r] + uncounted[r]
    /\ saves[r] <= 1 + failures

-----------------------------------------------------------------------------
(* What makes the two properties inductive.                                 *)

\* No account of e has existed yet.
Fresh(e) == ~HasUser(e) /\ e \notin deleted

\* A handler knows the email it works for.
ControlOK ==
  /\ \A r \in Registrations :
       /\ register[r].call \in {"CreateUser", "SaveVerificationData", "send"} => register[r].email \in Emails
       /\ register[r].call \in {"GetUserByEmail", "CreateUser", "SaveVerificationData"}
            => register[r].saving = "HSet"
  /\ \A v \in Attempts : verify[v].call # "RetrieveVerificationData" => verify[v].email \in Emails

\* Before there is an account, staging_users holds the registration that is under
\* way, the one whose OTP is saved, and one that a handler found proved.
StagingOK ==
  /\ \A r \in Registrations :
       register[r].call \in {"SaveVerificationData", "send"} /\ Fresh(register[r].email)
         => staging[register[r].email] = r
  /\ \A e \in Emails : Fresh(e) /\ otp[e].otp # None => staging[e] = otp[e].otp
  /\ \A v \in Attempts :
       /\ verify[v].call \in {"DelProved", "PersistUserInfo"} /\ Fresh(verify[v].email)
            => staging[verify[v].email] \in proved
       /\ verify[v].call \in {"PersistUserPreferenes", "DeleteUserFromStaging"}
            => ~Fresh(verify[v].email)

\* While the OTP of r can be guessed, each wrong guess since its last HSET is in the
\* counter, about to be counted, or lost.
CountOK ==
  /\ \A r \in Registrations :
       /\ register[r].saving = "HSet" => saves[r] <= failures
       /\ register[r].call = "GetUserByEmail" => saves[r] = 0
       /\ \A v \in Pending(r) : verify[v].email = register[r].email /\ saves[r] > 0
  /\ \A e \in Emails : \A r \in Registrations : otp[e].otp = r =>
       /\ register[r].email = e /\ saves[r] > 0
       /\ wrong[r] <= Allowance * (saves[r] - 1) + otp[e].tries + Cardinality(Pending(r)) + uncounted[r]

\* Nobody presents an OTP before it is mailed.
MailedOK ==
  /\ proved \subseteq mailed
  /\ \A v \in Attempts : verify[v].guess \in mailed \cup {None}

\* The inductive invariant.
IInv ==
  /\ TypeOK /\ ControlOK /\ StagingOK /\ CountOK /\ MailedOK
  /\ AccountWasProved /\ GuessesBounded

-----------------------------------------------------------------------------
Finishing(e, call) == \E v \in Attempts : verify[v].email = e /\ verify[v].call = call

\* The three writes of VerifyUser are no transaction: an account without its
\* preferences belongs to a handler that is about to store them, and a verified
\* registration leaves staging_users, unless an error or a stop met that very handler
\* after its first write. Whatever else fails, or verifies at the same time, is
\* harmless.
AccountIsCompleted ==
  \A e \in Emails : HasUser(e) /\ e \notin deleted \cup interrupted =>
    /\ users[e].preferences \/ Finishing(e, "PersistUserPreferenes")
    /\ staging[e] = users[e].info
         => Finishing(e, "PersistUserPreferenes") \/ Finishing(e, "DeleteUserFromStaging")

\* What makes it inductive: a registration is inserted into staging_users once, and
\* the handler that must complete an account is the one that inserted its row.
InsertedOnce ==
  \A r \in Registrations : register[r].call \in {"GetUserByEmail", "CreateUser"} =>
    \A e \in Emails : staging[e] # r /\ users[e].info # r

FinishedBy(e, v, call) == verify[v].email = e /\ verify[v].call = call

Completing(e) ==
  \E v \in Attempts :
    /\ users[e].by = v
    /\ users[e].preferences \/ FinishedBy(e, v, "PersistUserPreferenes")
    /\ staging[e] = users[e].info
         => FinishedBy(e, v, "PersistUserPreferenes") \/ FinishedBy(e, v, "DeleteUserFromStaging")

CompletingOK ==
  /\ InsertedOnce
  /\ \A e \in Emails : HasUser(e) /\ e \notin deleted \cup interrupted => Completing(e)

-----------------------------------------------------------------------------
\* What makes EmailWasProved inductive: a registration keeps its email once its OTP was
\* mailed, and a handler that is about to persist has found an OTP of the email proved.
PresentedOK ==
  /\ \A r \in mailed : register[r].call # "GetUserByEmail"
  /\ \A v \in Attempts :
       verify[v].call \in {"DelProved", "PersistUserInfo"} => Presented(verify[v].email)
  /\ EmailWasProved
=============================================================================
