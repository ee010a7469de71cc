------------------------------ MODULE Sessions ------------------------------
(***************************************************************************)
(* Sessions: login, token refresh and account deletion (AuthenticateUser,  *)
(* RefreshJwtToken and DeleteUser in internal/usecase/user_service.go) on  *)
(* the tables users and refresh_tokens of PostgreSQL.                      *)
(*                                                                         *)
(* The requests run concurrently, and each query is one action, but for    *)
(* UpdateRefreshToken: its subquery reads a snapshot and its update then   *)
(* waits for the row, so it is two (at READ COMMITTED the condition        *)
(* "id = (subquery)" still holds when the row has been revoked meanwhile). *)
(*                                                                         *)
(* A refresh token is a JWT that carries the user and the second it was    *)
(* issued in, and nothing that makes it unique: the tokens issued to a     *)
(* user within one second are the same. A token of a user is therefore     *)
(* that second, and one tick of the clock is one second.                   *)
(***************************************************************************)
EXTENDS Integers, Sequences, FiniteSets

CONSTANTS
  Users,        \* the registered users
  Requests,     \* the goroutines that serve requests, one after another
  Lifetime,     \* seconds until a token expires
  MaxClock,     \* bound: seconds
  MaxRows,      \* bound: rows of refresh_tokens per user
  MaxFailures,  \* bound: failed queries and restarts
  None

ASSUME ConstantsAssumption ==
  /\ IsFiniteSet(Requests)
  /\ None \notin Users \cup Nat
  /\ Lifetime \in Nat \ {0}
  /\ MaxFailures \in Nat

VARIABLES
  clock,
  users,     \* the users who have a row in users
  rows,      \* per user: the rows of refresh_tokens, by created_at
  request,   \* per goroutine: the next query of its request
  known,     \* per user: the tokens that were sent to a client
  failures,  \* how many failed queries and restarts there were, to bound them
  logins,    \* history, per user: rows stored by AuthenticateUser
  lost,      \* history, per user: refreshes that revoked a row and stored none
  twice,     \* history, per user: refreshes that revoked a row already revoked
  rotated    \* history, per user: tokens a refresh has answered with another one

counts == <<logins, lost, twice>>
hist   == <<counts, rotated>>
vars   == <<clock, users, rows, request, known, failures, hist>>

-----------------------------------------------------------------------------
(* The table refresh_tokens.                                                *)

Row == [token: Nat, expires: Nat, revoked: BOOLEAN]

Live(u) == {i \in DOMAIN rows[u] : ~rows[u][i].revoked}

\* ... revoked_at IS NULL ORDER BY created_at DESC LIMIT 1
Newest(u) == {i \in Live(u) : \A j \in Live(u) : j <= i}

\* Mutant: a second token, made for the row and sent to nobody.
InsertAnother(u, t) == [rows EXCEPT ![u] = Append(@, [token |-> clock, expires |-> clock + Lifetime, revoked |-> FALSE])]

Insert(u, t) == [rows EXCEPT ![u] = Append(@, [token |-> t, expires |-> clock + Lifetime, revoked |-> FALSE])]

\* Mutant: every row of the user.
RevokeAll(u, i) == [rows EXCEPT ![u] = [j \in DOMAIN @ |-> [@[j] EXCEPT !.revoked = TRUE]]]

Revoke(u, i) == [rows EXCEPT ![u][i].revoked = TRUE]

\* The rows of deleted users, by the cascade.
Cascade(u) == [rows EXCEPT ![u] = <<>>]

-----------------------------------------------------------------------------
(***************************************************************************)
(* The control of a request: call is the query it makes next, shown the    *)
(* token the client sent (None for a login), minted the token made for the *)
(* answer, picked the row the subquery of UpdateRefreshToken returned.     *)
(***************************************************************************)
Request ==
  [call: {"idle", "RetrieveRefreshToken", "UpdateRefreshToken", "Revoke", "StoreRefreshToken"},
   user: Users \cup {None}, shown: Nat \cup {None}, minted: Nat, picked: Nat]
Idle == [call |-> "idle", user |-> None, shown |-> None, minted |-> 0, picked |-> 0]

Init ==
  /\ clock = 0
  /\ users = Users
  /\ rows = [u \in Users |-> <<>>]
  /\ request = [q \in Requests |-> Idle]
  /\ known = [u \in Users |-> {}]
  /\ failures = 0
  /\ logins = [u \in Users |-> 0]
  /\ lost = [u \in Users |-> 0]
  /\ twice = [u \in Users |-> 0]
  /\ rotated = [u \in Users |-> {}]

Fault   == failures < MaxFailures /\ failures' = failures + 1
NoFault == UNCHANGED failures

At(q, call)     == request[q].call = call
GoesTo(q, call) == request' = [request EXCEPT ![q].call = call]
Ends(q)         == request' = [request EXCEPT ![q] = Idle]

\* CreateJWTToken: exp is the Lifetime after the second of issue.
MintPast   == clock - Lifetime   \* mutant
Mint       == clock
Valid(t)   == clock < t + Lifetime
Expired(r) == r.expires < clock

-----------------------------------------------------------------------------
\* AuthenticateUser up to the token. (A login that finds no user, or whose
\* password is wrong, changes nothing.)
Login(q) ==
  /\ At(q, "idle")
  /\ \E u \in users :
       request' = [request EXCEPT ![q] = [Idle EXCEPT !.call = "StoreRefreshToken", !.user = u, !.minted = Mint]]
  /\ UNCHANGED <<clock, users, rows, known, failures, hist>>

\* RefreshJwtToken: the token is verified as a JWT and GetUserByID finds the user.
\* (Otherwise the request is over: by an error, or, when there is no user, by the
\* panic of user.ID on nil, which PanicRecoveryMiddleware answers.)
RefreshJwtToken(q) ==
  /\ At(q, "idle")
  /\ \E u \in users : \E t \in known[u] :
       /\ Valid(t)
       /\ request' = [request EXCEPT ![q] = [Idle EXCEPT !.call = "RetrieveRefreshToken", !.user = u, !.shown = t]]
  /\ UNCHANGED <<clock, users, rows, known, failures, hist>>

\* The newest row that is not revoked is the only one the token is compared with.
Accepts(u, t) == \E i \in Newest(u) : rows[u][i].token = t /\ ~Expired(rows[u][i])

RetrieveRefreshToken(q) ==
  LET accepted == Accepts(request[q].user, request[q].shown) IN
  /\ At(q, "RetrieveRefreshToken")
  /\ \/ /\ accepted /\ NoFault
        /\ request' = [request EXCEPT ![q].call = "UpdateRefreshToken", ![q].minted = Mint]
     \/ ((~accepted /\ NoFault) \/ Fault) /\ Ends(q)
  /\ UNCHANGED <<clock, users, rows, known, hist>>

\* Mutant: no row found is not an error.
UpdateUnchecked(q) ==
  LET newest == Newest(request[q].user) IN
  /\ At(q, "UpdateRefreshToken")
  /\ \E i \in IF newest = {} THEN {0} ELSE newest :
       request' = [request EXCEPT ![q].call = "Revoke", ![q].picked = i] /\ NoFault
  /\ UNCHANGED <<clock, users, rows, known, hist>>

\* The subquery looks for the newest row again, not for the one compared.
UpdateRefreshToken(q) ==
  LET newest == Newest(request[q].user) IN
  /\ At(q, "UpdateRefreshToken")
  /\ \/ \E i \in newest :
          request' = [request EXCEPT ![q].call = "Revoke", ![q].picked = i] /\ NoFault
     \/ ((newest = {} /\ NoFault) \/ Fault) /\ Ends(q)
  /\ UNCHANGED <<clock, users, rows, known, hist>>

OneIf(b)     == IF b THEN 1 ELSE 0
Add(f, u, n) == [f EXCEPT ![u] = @ + n]

\* The update: no row is left when the user was deleted.
RevokePicked(q) ==
  LET u == request[q].user
      i == request[q].picked
      exists == i \in DOMAIN rows[u]
      again == exists /\ rows[u][i].revoked
  IN
  /\ At(q, "Revoke")
  /\ \/ /\ exists /\ rows' = Revoke(u, i) /\ NoFault
        /\ GoesTo(q, "StoreRefreshToken")
        /\ twice' = Add(twice, u, OneIf(again)) /\ UNCHANGED lost
     \/ /\ ~exists /\ NoFault /\ Ends(q)
        /\ UNCHANGED <<rows, twice, lost>>
     \/ /\ Fault /\ Ends(q)
        /\ \/ UNCHANGED <<rows, twice, lost>>
           \/ /\ exists /\ rows' = Revoke(u, i)
              /\ twice' = Add(twice, u, OneIf(again))
              /\ lost' = Add(lost, u, 1)
  /\ UNCHANGED <<clock, users, known, logins, rotated>>

IsRefresh(q) == request[q].shown # None

\* The last query of both operations; the token reaches the client with the
\* answer. user_id is a foreign key into users.
StoreRefreshToken(q) ==
  LET u == request[q].user
      t == request[q].minted
      inserted == rows' = Insert(u, t) /\ logins' = Add(logins, u, OneIf(~IsRefresh(q))) /\ UNCHANGED lost
      refused == UNCHANGED <<rows, logins>> /\ lost' = Add(lost, u, OneIf(IsRefresh(q)))
      exists == u \in users
  IN
  /\ At(q, "StoreRefreshToken")
  /\ exists => Len(rows[u]) < MaxRows
  /\ Ends(q)
  /\ \/ /\ exists /\ inserted /\ NoFault
        /\ known' = [known EXCEPT ![u] = @ \cup {t}]
        /\ rotated' = [rotated EXCEPT ![u] = @ \cup ({request[q].shown} \ {None, t})]
     \/ ~exists /\ refused /\ NoFault /\ UNCHANGED <<known, rotated>>
     \/ (refused \/ (exists /\ inserted)) /\ Fault /\ UNCHANGED <<known, rotated>>
  /\ UNCHANGED <<clock, users, twice>>

\* DeleteUser: DELETE FROM users, and refresh_tokens cascades. The ids of users
\* are not used again.
DeleteUser(u) ==
  /\ u \in users
  /\ users' = users \ {u}
  /\ rows' = Cascade(u)
  /\ UNCHANGED <<clock, request, known, failures, hist>>

Tick ==
  /\ clock < MaxClock
  /\ clock' = clock + 1
  /\ UNCHANGED <<users, rows, request, known, failures, hist>>

\* The refreshes of u that have revoked a row and not stored the next one.
Rotating(u) == {q \in Requests : At(q, "StoreRefreshToken") /\ request[q].user = u /\ IsRefresh(q)}

\* The process is stopped or killed and started again.
Restart ==
  /\ Fault
  /\ request' = [q \in Requests |-> Idle]
  /\ lost' = [u \in Users |-> lost[u] + Cardinality(Rotating(u))]
  /\ UNCHANGED <<clock, users, rows, known, logins, twice, rotated>>

Step(q) ==
  \/ Login(q) \/ RefreshJwtToken(q) \/ RetrieveRefreshToken(q)
  \/ UpdateRefreshToken(q) \/ RevokePicked(q) \/ StoreRefreshToken(q)

Next ==
  \/ \E q \in Requests : Step(q)
  \/ \E u \in Users : DeleteUser(u)
  \/ Tick
  \/ Restart

Spec == Init /\ [][Next]_vars

-----------------------------------------------------------------------------
\* Every variable stays in its domain.
TypeOK ==
  /\ clock \in Nat
  /\ users \in SUBSET Users
  /\ rows \in [Users -> Seq(Row)]
  /\ request \in [Requests -> Request]
  /\ known \in [Users -> SUBSET Nat] /\ rotated \in [Users -> SUBSET Nat]
  /\ failures \in Nat
  /\ logins \in [Users -> Nat] /\ lost \in [Users -> Nat] /\ twice \in [Users -> Nat]

\* Rotation replaces tokens (RefreshJwtToken revokes one row and stores one): the
\* rows of a user that are not revoked, and those about to be stored again, are
\* one for each login, less the refreshes that were cut off after the revocation,
\* and plus those that revoked a row which another one had revoked at once.
SessionsConserved ==
  \A u \in users :
    Cardinality(Live(u)) + Cardinality(Rotating(u)) + lost[u] = logins[u] + twice[u]

\* RetrieveRefreshToken looks at the newest row that is not revoked: unless a
\* refresh is between its two writes or was cut off there, that is the last row
\* stored, and as long as no query failed a client has its token. A race never
\* leaves a user without a token to refresh with.
LastTokenUsable ==
  \A u \in users : rows[u] # <<>> =>
    LET last == rows[u][Len(rows[u])] IN
    /\ last.revoked => Rotating(u) # {} \/ lost[u] > 0
    /\ failures = 0 => last.token \in known[u]

-----------------------------------------------------------------------------
(* What makes them inductive.                                               *)

\* A request knows its user, and the row it picked is there unless the user is
\* gone.
ControlOK ==
  \A q \in Requests :
    /\ ~At(q, "idle") => request[q].user \in Users
    /\ At(q, "Revoke") /\ request[q].user \in users => request[q].picked \in DOMAIN rows[request[q].user]
    /\ request[q].call \in {"RetrieveRefreshToken", "UpdateRefreshToken", "Revoke"} => IsRefresh(q)

\* Whatever was in flight when a user was deleted, he gets no session any more.
DeletedHaveNone == \A u \in Users \ users : rows[u] = <<>>

\* The inductive invariant.
IInv == TypeOK /\ ControlOK /\ DeletedHaveNone /\ SessionsConserved /\ LastTokenUsable

-----------------------------------------------------------------------------
\* No two tokens of u were issued in the same second.
AllDifferent(u) == \A i, j \in DOMAIN rows[u] : rows[u][i].token = rows[u][j].token => i = j

\* README "Refresh tokens: ... Support rotation and revocation": a token that a
\* refresh has replaced by another one is not accepted any more. It is, even when
\* every token of the user is different: a login between RetrieveRefreshToken and
\* UpdateRefreshToken makes the refresh revoke the token of that login, and the
\* token it replaces is compared with again once the next refresh has revoked.
RotatedIsRefused ==
  [][\A q \in Requests :
       At(q, "RetrieveRefreshToken") /\ request'[q].call = "UpdateRefreshToken"
         => \/ request[q].shown \notin rotated[request[q].user]
            \/ ~AllDifferent(request[q].user)]_vars
=============================================================================
