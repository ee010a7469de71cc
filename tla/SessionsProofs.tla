--------------------------- MODULE SessionsProofs ---------------------------
(***************************************************************************)
(* Proofs about Sessions, for any number of users and requests, any        *)
(* lifetime of a token and any number of failures: the invariants of the   *)
(* refresh tokens hold.                                                    *)
(***************************************************************************)
EXTENDS Sessions, FiniteSetTheorems, TLAPS

-----------------------------------------------------------------------------
(* The table.                                                               *)

\* A row is added behind the others.
LEMMA Inserted ==
  ASSUME TypeOK, ConstantsAssumption, NEW u \in Users, NEW t \in Nat, rows' = Insert(u, t)
  PROVE  /\ rows' \in [Users -> Seq(Row)]
         /\ \A w \in Users \ {u} : rows'[w] = rows[w]
         /\ Len(rows'[u]) = Len(rows[u]) + 1
         /\ DOMAIN rows'[u] = DOMAIN rows[u] \cup {Len(rows[u]) + 1}
         /\ \A i \in DOMAIN rows[u] : rows'[u][i] = rows[u][i]
         /\ ~rows'[u][Len(rows[u]) + 1].revoked
         /\ rows'[u][Len(rows[u]) + 1].token = t
<1> DEFINE r == [token |-> t, expires |-> clock + Lifetime, revoked |-> FALSE]
<1>1. r \in Row
  BY DEF TypeOK, ConstantsAssumption, Row
<1>2. rows[u] \in Seq(Row) /\ rows'[u] = Append(rows[u], r)
  BY DEF TypeOK, Insert
<1>3. \A w \in Users \ {u} : rows'[w] = rows[w]
  BY DEF TypeOK, Insert
<1>4. rows'[u] \in Seq(Row)
  BY <1>1, <1>2
<1>5. rows' \in [Users -> Seq(Row)]
  BY <1>3, <1>4 DEF TypeOK, Insert
<1>6. /\ Len(rows'[u]) = Len(rows[u]) + 1
      /\ DOMAIN rows'[u] = DOMAIN rows[u] \cup {Len(rows[u]) + 1}
      /\ \A i \in DOMAIN rows[u] : rows'[u][i] = rows[u][i]
      /\ rows'[u][Len(rows[u]) + 1] = r
  BY <1>1, <1>2
<1> QED BY <1>3, <1>5, <1>6

\* A row is marked; the number and the tokens of the rows stay.
LEMMA Revoked ==
  ASSUME TypeOK, NEW u \in Users, NEW i \in DOMAIN rows[u], rows' = Revoke(u, i)
  PROVE  /\ rows' \in [Users -> Seq(Row)]
         /\ \A w \in Users \ {u} : rows'[w] = rows[w]
         /\ Len(rows'[u]) = Len(rows[u])
         /\ DOMAIN rows'[u] = DOMAIN rows[u]
         /\ \A j \in DOMAIN rows[u] \ {i} : rows'[u][j] = rows[u][j]
         /\ \A j \in DOMAIN rows[u] : rows'[u][j].token = rows[u][j].token
         /\ rows'[u][i].revoked
<1>1. rows[u] \in Seq(Row) /\ rows[u][i] \in Row
  BY DEF TypeOK
<1>2. rows'[u] = [rows[u] EXCEPT ![i] = [rows[u][i] EXCEPT !.revoked = TRUE]]
  BY DEF TypeOK, Revoke
<1>3. [rows[u][i] EXCEPT !.revoked = TRUE] \in Row
  BY <1>1 DEF Row
<1>4. rows'[u] \in Seq(Row) /\ Len(rows'[u]) = Len(rows[u]) /\ DOMAIN rows'[u] = DOMAIN rows[u]
  BY <1>1, <1>2, <1>3
<1>5. \A w \in Users \ {u} : rows'[w] = rows[w]
  BY DEF TypeOK, Revoke
<1>6. rows' \in [Users -> Seq(Row)]
  BY <1>4, <1>5 DEF TypeOK, Revoke
<1>7. /\ \A j \in DOMAIN rows[u] \ {i} : rows'[u][j] = rows[u][j]
      /\ rows'[u][i] = [rows[u][i] EXCEPT !.revoked = TRUE]
  BY <1>1, <1>2
<1>8. rows'[u][i].revoked /\ rows'[u][i].token = rows[u][i].token
  BY <1>1, <1>7 DEF Row
<1> QED BY <1>4, <1>5, <1>6, <1>7, <1>8

\* The rows that are not revoked, and the refreshes on their way, can be counted.
LEMMA Countable ==
  ASSUME TypeOK, ConstantsAssumption, NEW u \in Users
  PROVE  /\ IsFiniteSet(Live(u)) /\ Cardinality(Live(u)) \in Nat
         /\ IsFiniteSet(Rotating(u)) /\ Cardinality(Rotating(u)) \in Nat
<1>1. IsFiniteSet(DOMAIN rows[u])
  <2>1. rows[u] \in Seq(Row)
    BY DEF TypeOK
  <2>2. DOMAIN rows[u] = 1 .. Len(rows[u]) /\ Len(rows[u]) \in Nat
    BY <2>1
  <2> QED BY <2>2, FS_Interval
<1>2. IsFiniteSet(Live(u))
  BY <1>1, FS_Subset DEF Live
<1>3. IsFiniteSet(Rotating(u))
  BY FS_Subset DEF Rotating, ConstantsAssumption
<1> QED BY <1>2, <1>3, FS_CardinalityType

\* An insertion adds one to the rows that are not revoked.
LEMMA InsertedLive ==
  ASSUME TypeOK, ConstantsAssumption, NEW u \in Users, NEW t \in Nat, rows' = Insert(u, t)
  PROVE  Cardinality(Live(u)') = Cardinality(Live(u)) + 1
<1>1. Live(u)' = Live(u) \cup {Len(rows[u]) + 1}
  BY Inserted DEF Live
<1>2. Len(rows[u]) + 1 \notin Live(u)
  <2>1. rows[u] \in Seq(Row)
    BY DEF TypeOK
  <2>2. DOMAIN rows[u] = 1 .. Len(rows[u]) /\ Len(rows[u]) \in Nat
    BY <2>1
  <2> QED BY <2>2 DEF Live
<1> QED BY <1>1, <1>2, Countable, FS_AddElement

\* A revocation takes one from them, unless the row was revoked already.
LEMMA RevokedLive ==
  ASSUME TypeOK, ConstantsAssumption, NEW u \in Users, NEW i \in DOMAIN rows[u], rows' = Revoke(u, i)
  PROVE  /\ rows[u][i].revoked => Cardinality(Live(u)') = Cardinality(Live(u))
         /\ ~rows[u][i].revoked => Cardinality(Live(u)') = Cardinality(Live(u)) - 1
<1>1. Live(u)' = Live(u) \ {i}
  BY Revoked DEF Live
<1>2. CASE rows[u][i].revoked
  <2>1. Live(u)' = Live(u)
    BY <1>1, <1>2 DEF Live
  <2> QED BY <1>2, <2>1
<1>3. CASE ~rows[u][i].revoked
  <2>1. i \in Live(u)
    BY <1>3 DEF Live
  <2> QED BY <1>1, <1>3, <2>1, Countable, FS_RemoveElement
<1> QED BY <1>2, <1>3

-----------------------------------------------------------------------------
(* The requests.                                                            *)

\* What a step of a request never touches.
LEMMA StepLocal ==
  ASSUME TypeOK, NEW q \in Requests, Step(q)
  PROVE  /\ \A p \in Requests \ {q} : request'[p] = request[p]
         /\ UNCHANGED <<clock, users>>
BY DEF Step, Login, RefreshJwtToken, RetrieveRefreshToken, UpdateRefreshToken, RevokePicked,
       StoreRefreshToken, GoesTo, Ends, TypeOK, hist

\* How a step of a request changes the rows.
LEMMA RowsStep ==
  ASSUME TypeOK, NEW q \in Requests, Step(q)
  PROVE  \/ rows' = rows
         \/ /\ At(q, "Revoke") /\ request[q].picked \in DOMAIN rows[request[q].user]
            /\ rows' = Revoke(request[q].user, request[q].picked)
         \/ /\ At(q, "StoreRefreshToken") /\ request[q].user \in users
            /\ rows' = Insert(request[q].user, request[q].minted)
BY DEF Step, Login, RefreshJwtToken, RetrieveRefreshToken, UpdateRefreshToken, RevokePicked,
       StoreRefreshToken

\* A request that does not rotate, and is not going to, leaves the count alone.
LEMMA NotRotating ==
  ASSUME TypeOK, NEW q \in Requests, NEW u \in Users,
         \A p \in Requests \ {q} : request'[p] = request[p],
         q \notin Rotating(u), q \notin Rotating(u)'
  PROVE  Rotating(u)' = Rotating(u)
BY DEF Rotating, At, IsRefresh

LEMMA StartsRotating ==
  ASSUME TypeOK, ConstantsAssumption, NEW q \in Requests, NEW u \in Users,
         \A p \in Requests \ {q} : request'[p] = request[p],
         q \notin Rotating(u), q \in Rotating(u)'
  PROVE  Cardinality(Rotating(u)') = Cardinality(Rotating(u)) + 1
<1>1. Rotating(u)' = Rotating(u) \cup {q}
  BY DEF Rotating, At, IsRefresh
<1> QED BY <1>1, Countable, FS_AddElement

LEMMA StopsRotating ==
  ASSUME TypeOK, ConstantsAssumption, NEW q \in Requests, NEW u \in Users,
         \A p \in Requests \ {q} : request'[p] = request[p],
         q \in Rotating(u), q \notin Rotating(u)'
  PROVE  Cardinality(Rotating(u)') = Cardinality(Rotating(u)) - 1
<1>1. Rotating(u)' = Rotating(u) \ {q}
  BY DEF Rotating, At, IsRefresh
<1> QED BY <1>1, Countable, FS_RemoveElement

-----------------------------------------------------------------------------
(* The types and the control.                                               *)

\* The queries that touch no history.
Quiet(q) == Login(q) \/ RefreshJwtToken(q) \/ RetrieveRefreshToken(q) \/ UpdateRefreshToken(q)

\* Where each query leads. Becomes(q, ...): the control of q after the step.
Becomes(q, call, user, shown, minted, picked) ==
  /\ request'[q].call = call /\ request'[q].user = user /\ request'[q].shown = shown
  /\ request'[q].minted = minted /\ request'[q].picked = picked

LEMMA Fields ==
  ASSUME NEW q \in Requests,
         NEW call \in {"idle", "RetrieveRefreshToken", "UpdateRefreshToken", "Revoke", "StoreRefreshToken"},
         NEW user \in Users \cup {None}, NEW shown \in Nat \cup {None}, NEW minted \in Nat, NEW picked \in Nat,
         request'[q] = [call |-> call, user |-> user, shown |-> shown, minted |-> minted, picked |-> picked]
  PROVE  request'[q] \in Request /\ Becomes(q, call, user, shown, minted, picked)
<1>1. Becomes(q, call, user, shown, minted, picked)
  BY DEF Becomes
<1>2. request'[q] \in Request
  BY DEF Request
<1> QED BY <1>1, <1>2

LEMMA IdleMoves ==
  ASSUME NEW q \in Requests, request'[q] = Idle
  PROVE  request'[q] \in Request /\ request'[q].call = "idle" /\ request'[q].shown = None
BY DEF Idle, Request

LEMMA LoginMoves ==
  ASSUME TypeOK, NEW q \in Requests, Login(q)
  PROVE  /\ request'[q] \in Request
         /\ \E w \in users : Becomes(q, "StoreRefreshToken", w, None, clock, 0)
<1>1. PICK w \in users :
        request' = [request EXCEPT ![q] =
                      [Idle EXCEPT !.call = "StoreRefreshToken", !.user = w, !.minted = Mint]]
  BY DEF Login
<1>2. request'[q] = [Idle EXCEPT !.call = "StoreRefreshToken", !.user = w, !.minted = Mint]
  BY <1>1 DEF TypeOK
<1>3. request'[q] = [call |-> "StoreRefreshToken", user |-> w, shown |-> None, minted |-> clock, picked |-> 0]
  BY <1>2 DEF Idle, Mint
<1>4. w \in Users /\ clock \in Nat
  BY DEF TypeOK
<1> QED BY <1>3, <1>4, Fields

LEMMA RefreshMoves ==
  ASSUME TypeOK, NEW q \in Requests, RefreshJwtToken(q)
  PROVE  /\ request'[q] \in Request
         /\ \E w \in users : \E t \in known[w] : Becomes(q, "RetrieveRefreshToken", w, t, 0, 0)
<1>1. PICK w \in users : \E t \in known[w] :
        request' = [request EXCEPT ![q] =
                      [Idle EXCEPT !.call = "RetrieveRefreshToken", !.user = w, !.shown = t]]
  BY DEF RefreshJwtToken
<1>2. PICK t \in known[w] :
        request' = [request EXCEPT ![q] =
                      [Idle EXCEPT !.call = "RetrieveRefreshToken", !.user = w, !.shown = t]]
  BY <1>1
<1>3. request'[q] = [Idle EXCEPT !.call = "RetrieveRefreshToken", !.user = w, !.shown = t]
  BY <1>2 DEF TypeOK
<1>4. request'[q] = [call |-> "RetrieveRefreshToken", user |-> w, shown |-> t, minted |-> 0, picked |-> 0]
  BY <1>3 DEF Idle
<1>5. w \in Users /\ t \in Nat
  BY DEF TypeOK
<1> QED BY <1>4, <1>5, Fields

LEMMA RetrieveMoves ==
  ASSUME TypeOK, NEW q \in Requests, RetrieveRefreshToken(q)
  PROVE  \/ request'[q] = Idle
         \/ /\ request'[q] \in Request
            /\ Becomes(q, "UpdateRefreshToken", request[q].user, request[q].shown, clock, request[q].picked)
<1>1. CASE Ends(q)
  BY <1>1 DEF Ends, TypeOK
<1>2. CASE request' = [request EXCEPT ![q].call = "UpdateRefreshToken", ![q].minted = Mint]
  <2>1. request'[q] = [request[q] EXCEPT !.call = "UpdateRefreshToken", !.minted = Mint]
    BY <1>2 DEF TypeOK
  <2>2. request[q] \in Request /\ clock \in Nat
    BY DEF TypeOK
  <2> QED BY <2>1, <2>2 DEF Request, Mint, Becomes
<1> QED BY <1>1, <1>2 DEF RetrieveRefreshToken

LEMMA UpdateMoves ==
  ASSUME TypeOK, ControlOK, NEW q \in Requests, UpdateRefreshToken(q)
  PROVE  \/ request'[q] = Idle
         \/ \E i \in Live(request[q].user) :
              /\ request'[q] \in Request
              /\ Becomes(q, "Revoke", request[q].user, request[q].shown, request[q].minted, i)
<1>1. CASE Ends(q)
  BY <1>1 DEF Ends, TypeOK
<1>2. CASE \E i \in Newest(request[q].user) :
             request' = [request EXCEPT ![q].call = "Revoke", ![q].picked = i]
  <2>1. PICK i \in Newest(request[q].user) :
          request' = [request EXCEPT ![q].call = "Revoke", ![q].picked = i]
    BY <1>2
  <2>2. request'[q] = [request[q] EXCEPT !.call = "Revoke", !.picked = i]
    BY <2>1 DEF TypeOK
  <2>3. request[q] \in Request
    BY DEF TypeOK
  <2>4. i \in Live(request[q].user)
    BY <2>1 DEF Newest
  <2>5. request[q].user \in Users
    BY DEF UpdateRefreshToken, At, ControlOK
  <2>6. rows[request[q].user] \in Seq(Row)
    BY <2>5 DEF TypeOK
  <2>7. DOMAIN rows[request[q].user] = 1 .. Len(rows[request[q].user]) /\ Len(rows[request[q].user]) \in Nat
    BY <2>6
  <2>8. i \in Nat
    BY <2>4, <2>7 DEF Live
  <2>9. request'[q] \in Request /\ Becomes(q, "Revoke", request[q].user, request[q].shown, request[q].minted, i)
    BY <2>2, <2>3, <2>8 DEF Request, Becomes
  <2> QED BY <2>4, <2>9
<1> QED BY <1>1, <1>2 DEF UpdateRefreshToken

LEMMA RevokeMoves ==
  ASSUME TypeOK, NEW q \in Requests, RevokePicked(q)
  PROVE  \/ request'[q] = Idle
         \/ /\ request'[q] \in Request
            /\ Becomes(q, "StoreRefreshToken", request[q].user, request[q].shown, request[q].minted,
                       request[q].picked)
<1>1. CASE Ends(q)
  BY <1>1 DEF Ends, TypeOK
<1>2. CASE GoesTo(q, "StoreRefreshToken")
  <2>1. request'[q] = [request[q] EXCEPT !.call = "StoreRefreshToken"]
    BY <1>2 DEF GoesTo, TypeOK
  <2>2. request[q] \in Request
    BY DEF TypeOK
  <2> QED BY <2>1, <2>2 DEF Request, Becomes
<1> QED BY <1>1, <1>2 DEF RevokePicked

LEMMA StoreMoves ==
  ASSUME TypeOK, NEW q \in Requests, StoreRefreshToken(q)
  PROVE  request'[q] = Idle
BY DEF StoreRefreshToken, Ends, TypeOK

\* A step of a request changes its own control and keeps it in its domain.
LEMMA StepRequest ==
  ASSUME TypeOK, ControlOK, ConstantsAssumption, NEW q \in Requests, Step(q)
  PROVE  request' \in [Requests -> Request] /\ request'[q] \in Request
<1>1. request'[q] \in Request
  BY IdleMoves, LoginMoves, RefreshMoves, RetrieveMoves, UpdateMoves, RevokeMoves, StoreMoves DEF Step
<1>2. \E x : request' = [request EXCEPT ![q] = x]
  <2>1. CASE Ends(q)
    BY <2>1 DEF Ends
  <2>2. CASE GoesTo(q, "StoreRefreshToken")
    <3>1. request' = [request EXCEPT ![q] = [request[q] EXCEPT !.call = "StoreRefreshToken"]]
      BY <2>2 DEF GoesTo, TypeOK
    <3> QED BY <3>1
  <2>3. CASE Login(q) \/ RefreshJwtToken(q)
    BY <2>3 DEF Login, RefreshJwtToken
  <2>4. CASE RetrieveRefreshToken(q) /\ ~Ends(q)
    <3>1. request' = [request EXCEPT ![q] = [request[q] EXCEPT !.call = "UpdateRefreshToken", !.minted = Mint]]
      BY <2>4 DEF RetrieveRefreshToken, TypeOK
    <3> QED BY <3>1
  <2>5. CASE UpdateRefreshToken(q) /\ ~Ends(q)
    <3>1. \E i : request' = [request EXCEPT ![q] = [request[q] EXCEPT !.call = "Revoke", !.picked = i]]
      BY <2>5 DEF UpdateRefreshToken, TypeOK
    <3> QED BY <3>1
  <2> QED BY <2>1, <2>2, <2>3, <2>4, <2>5 DEF Step, RevokePicked, StoreRefreshToken
<1>3. DOMAIN request' = Requests
  BY <1>2 DEF TypeOK
<1>4. request' = [p \in Requests |-> request'[p]]
  BY <1>2, <1>3 DEF TypeOK
<1> QED BY <1>1, <1>4, StepLocal DEF TypeOK

\* The counts are only added to.
LEMMA Adds ==
  ASSUME NEW f \in [Users -> Nat], NEW u \in Users, NEW n \in Nat
  PROVE  /\ Add(f, u, n) \in [Users -> Nat]
         /\ Add(f, u, n)[u] = f[u] + n
         /\ \A w \in Users \ {u} : Add(f, u, n)[w] = f[w]
BY DEF Add

\* Which counts a step of a request adds to.
LEMMA CountsStep ==
  ASSUME TypeOK, ControlOK, NEW q \in Requests, Step(q)
  PROVE  /\ Quiet(q) => UNCHANGED <<logins, lost, twice>>
         /\ ~Quiet(q) =>
              /\ request[q].user \in Users
              /\ logins' = logins \/ \E n \in {0, 1} : logins' = Add(logins, request[q].user, n)
              /\ lost'   = lost   \/ \E n \in {0, 1} : lost'   = Add(lost, request[q].user, n)
              /\ twice'  = twice  \/ \E n \in {0, 1} : twice'  = Add(twice, request[q].user, n)
<1>1. CASE Quiet(q)
  BY <1>1 DEF Quiet, Login, RefreshJwtToken, RetrieveRefreshToken, UpdateRefreshToken, hist, counts
<1>2. CASE RevokePicked(q)
  <2>1. request[q].user \in Users
    BY <1>2 DEF RevokePicked, ControlOK, At
  <2>2. logins' = logins
    BY <1>2 DEF RevokePicked
  <2>3. \A b \in BOOLEAN : OneIf(b) \in {0, 1}
    BY DEF OneIf
  <2>4. twice' = twice \/ \E b \in BOOLEAN : twice' = Add(twice, request[q].user, OneIf(b))
    <3>1. DEFINE u == request[q].user
                 again == request[q].picked \in DOMAIN rows[u] /\ rows[u][request[q].picked].revoked
    <3>2. twice' = twice \/ twice' = Add(twice, u, OneIf(again))
      BY <1>2 DEF RevokePicked
    <3>3. again \in BOOLEAN
      <4>1. rows[u] \in Seq(Row)
        BY <2>1 DEF TypeOK
      <4>2. request[q].picked \in DOMAIN rows[u] => rows[u][request[q].picked] \in Row
        BY <4>1
      <4> QED BY <4>2 DEF Row
    <3> HIDE DEF again, u
    <3> QED BY <3>2, <3>3 DEF u
  <2>5. lost' = lost \/ lost' = Add(lost, request[q].user, 1)
    BY <1>2 DEF RevokePicked
  <2> QED BY <1>1, <2>1, <2>2, <2>3, <2>4, <2>5
<1>3. CASE StoreRefreshToken(q)
  <2>1. request[q].user \in Users
    BY <1>3 DEF StoreRefreshToken, ControlOK, At
  <2>2. twice' = twice
    BY <1>3 DEF StoreRefreshToken
  <2>3. OneIf(IsRefresh(q)) \in {0, 1} /\ OneIf(~IsRefresh(q)) \in {0, 1}
    BY DEF OneIf
  <2>4. /\ logins' = logins \/ logins' = Add(logins, request[q].user, OneIf(~IsRefresh(q)))
        /\ lost' = lost \/ lost' = Add(lost, request[q].user, OneIf(IsRefresh(q)))
    BY <1>3 DEF StoreRefreshToken
  <2> QED BY <1>1, <2>1, <2>2, <2>3, <2>4
<1> QED BY <1>1, <1>2, <1>3 DEF Step, Quiet

\* A step of a request keeps the variables in their domains.
LEMMA StepTypes ==
  ASSUME TypeOK, ControlOK, ConstantsAssumption, NEW q \in Requests, Step(q)
  PROVE  TypeOK'
<1> DEFINE u == request[q].user
<1>1. request[q] \in Request
  BY DEF TypeOK
<1>2. rows' \in [Users -> Seq(Row)]
  <2>1. CASE At(q, "Revoke") /\ request[q].picked \in DOMAIN rows[u] /\ rows' = Revoke(u, request[q].picked)
    BY <2>1, Revoked DEF ControlOK, At
  <2>2. CASE At(q, "StoreRefreshToken") /\ u \in users /\ rows' = Insert(u, request[q].minted)
    BY <1>1, <2>2, Inserted DEF TypeOK, Request
  <2>3. CASE rows' = rows
    BY <2>3 DEF TypeOK
  <2> QED BY <2>1, <2>2, <2>3, RowsStep
<1>3. failures' \in Nat
  <2>1. failures' = failures \/ failures' = failures + 1
    BY DEF Step, Login, RefreshJwtToken, RetrieveRefreshToken, UpdateRefreshToken, RevokePicked,
           StoreRefreshToken, Fault, NoFault
  <2> QED BY <2>1 DEF TypeOK
<1>4. /\ logins' \in [Users -> Nat] /\ lost' \in [Users -> Nat] /\ twice' \in [Users -> Nat]
  <2>1. logins \in [Users -> Nat] /\ lost \in [Users -> Nat] /\ twice \in [Users -> Nat]
    BY DEF TypeOK
  <2>2. CASE Quiet(q)
    BY <2>1, <2>2, CountsStep
  <2>3. CASE ~Quiet(q)
    <3>1. u \in Users
      BY <2>3, CountsStep
    <3>2. \A f \in [Users -> Nat], n \in {0, 1} : Add(f, u, n) \in [Users -> Nat]
      BY <3>1, Adds
    <3> QED BY <2>1, <2>3, <3>2, CountsStep
  <2> QED BY <2>2, <2>3
<1>5. known' \in [Users -> SUBSET Nat] /\ rotated' \in [Users -> SUBSET Nat]
  <2>1. CASE Quiet(q) \/ RevokePicked(q)
    <3>1. UNCHANGED <<known, rotated>>
      BY <2>1 DEF Quiet, Login, RefreshJwtToken, RetrieveRefreshToken, UpdateRefreshToken, RevokePicked, hist
    <3> QED BY <3>1 DEF TypeOK
  <2>2. CASE StoreRefreshToken(q)
    <3>1. request[q].minted \in Nat /\ {request[q].shown} \ {None, request[q].minted} \subseteq Nat
      BY <1>1 DEF Request
    <3>2. \A f \in [Users -> SUBSET Nat], S \in SUBSET Nat : [f EXCEPT ![u] = @ \cup S] \in [Users -> SUBSET Nat]
      OBVIOUS
    <3>3. \/ known' = known /\ rotated' = rotated
          \/ /\ known' = [known EXCEPT ![u] = @ \cup {request[q].minted}]
             /\ rotated' = [rotated EXCEPT ![u] = @ \cup ({request[q].shown} \ {None, request[q].minted})]
      BY <2>2 DEF StoreRefreshToken
    <3>4. known \in [Users -> SUBSET Nat] /\ rotated \in [Users -> SUBSET Nat]
      BY DEF TypeOK
    <3> QED BY <3>1, <3>2, <3>3, <3>4
  <2> QED BY <2>1, <2>2 DEF Step, Quiet
<1>6. clock' \in Nat /\ users' \in SUBSET Users
  BY StepLocal DEF TypeOK
<1> QED BY <1>2, <1>3, <1>4, <1>5, <1>6, StepRequest DEF TypeOK

\* A step of a request knows its user, and picks a row that is there.
LEMMA StepControl ==
  ASSUME TypeOK, ControlOK, ConstantsAssumption, NEW q \in Requests, Step(q)
  PROVE  ControlOK'
<1> DEFINE u == request[q].user
<1>1. \A w \in users : DOMAIN rows[w] \subseteq DOMAIN rows'[w]
  <2>1. CASE At(q, "Revoke") /\ request[q].picked \in DOMAIN rows[u] /\ rows' = Revoke(u, request[q].picked)
    <3>1. u \in Users
      BY <2>1 DEF ControlOK, At
    <3> QED BY <2>1, <3>1, Revoked DEF TypeOK
  <2>2. CASE At(q, "StoreRefreshToken") /\ u \in users /\ rows' = Insert(u, request[q].minted)
    <3>1. u \in Users /\ request[q].minted \in Nat
      BY <2>2 DEF TypeOK, Request
    <3> QED BY <2>2, <3>1, Inserted DEF TypeOK
  <2>3. CASE rows' = rows
    BY <2>3
  <2> QED BY <2>1, <2>2, <2>3, RowsStep
<1>2. ASSUME NEW p \in Requests, p # q
      PROVE  /\ ~At(p, "idle")' => request'[p].user \in Users
             /\ At(p, "Revoke")' /\ request'[p].user \in users' => request'[p].picked \in DOMAIN rows'[request'[p].user]
             /\ request'[p].call \in {"RetrieveRefreshToken", "UpdateRefreshToken", "Revoke"} => IsRefresh(p)'
  BY <1>1, <1>2, StepLocal DEF ControlOK, At, IsRefresh
<1>3. /\ request'[q].call # "idle" => request'[q].user \in Users
      /\ request'[q].call = "Revoke" => request'[q].picked \in DOMAIN rows'[request'[q].user]
      /\ request'[q].call \in {"RetrieveRefreshToken", "UpdateRefreshToken", "Revoke"} => request'[q].shown # None
  <2>1. CASE request'[q] = Idle
    BY <2>1, IdleMoves
  <2>2. CASE Login(q)
    <3>1. users \subseteq Users
      BY DEF TypeOK
    <3> QED BY <2>2, <3>1, LoginMoves DEF Becomes
  <2>3. CASE RefreshJwtToken(q)
    <3>1. \A w \in users : w \in Users /\ None \notin known[w]
      BY DEF TypeOK, ConstantsAssumption
    <3> QED BY <2>3, <3>1, RefreshMoves DEF Becomes
  <2>4. CASE RetrieveRefreshToken(q) /\ request'[q] # Idle
    <3>1. request[q].user \in Users /\ request[q].shown # None
      BY <2>4 DEF RetrieveRefreshToken, ControlOK, At, IsRefresh
    <3> QED BY <2>4, <3>1, RetrieveMoves DEF Becomes
  <2>5. CASE UpdateRefreshToken(q) /\ request'[q] # Idle
    <3>1. request[q].user \in Users /\ request[q].shown # None /\ rows' = rows
      BY <2>5 DEF UpdateRefreshToken, ControlOK, At, IsRefresh
    <3> QED BY <2>5, <3>1, UpdateMoves DEF Live, Becomes
  <2>6. CASE RevokePicked(q) /\ request'[q] # Idle
    <3>1. request[q].user \in Users
      BY <2>6 DEF RevokePicked, ControlOK, At
    <3> QED BY <2>6, <3>1, RevokeMoves DEF Becomes
  <2>7. CASE StoreRefreshToken(q)
    BY <2>1, <2>7, StoreMoves
  <2> QED BY <2>1, <2>2, <2>3, <2>4, <2>5, <2>6, <2>7 DEF Step
<1> QED BY <1>2, <1>3 DEF ControlOK, At, IsRefresh

\* A deleted user gets no row: the update finds none, the insert fails.
LEMMA StepDeleted ==
  ASSUME TypeOK, ControlOK, DeletedHaveNone, ConstantsAssumption, NEW q \in Requests, Step(q)
  PROVE  DeletedHaveNone'
<1> DEFINE u == request[q].user
<1>1. users' = users
  BY StepLocal
<1>2. CASE At(q, "Revoke") /\ request[q].picked \in DOMAIN rows[u] /\ rows' = Revoke(u, request[q].picked)
  <2>1. u \in Users
    BY <1>2 DEF ControlOK, At
  <2>2. u \in users
    BY <1>2, <2>1 DEF DeletedHaveNone
  <2> QED BY <1>1, <1>2, <2>1, <2>2, Revoked DEF DeletedHaveNone
<1>3. CASE At(q, "StoreRefreshToken") /\ u \in users /\ rows' = Insert(u, request[q].minted)
  <2>1. u \in Users /\ request[q].minted \in Nat
    BY <1>3 DEF TypeOK, Request
  <2> QED BY <1>1, <1>3, <2>1, Inserted DEF DeletedHaveNone
<1>4. CASE rows' = rows
  BY <1>1, <1>4 DEF DeletedHaveNone
<1> QED BY <1>2, <1>3, <1>4, RowsStep

-----------------------------------------------------------------------------
(* The count of the sessions, and the last token.                           *)

\* The queries before the update do not touch the refreshes on their way.
LEMMA QuietStep ==
  ASSUME TypeOK, ControlOK, ConstantsAssumption, NEW q \in Requests, Quiet(q), NEW w \in Users
  PROVE  UNCHANGED <<users, rows, known, logins, lost, twice>> /\ Rotating(w)' = Rotating(w)
<1>1. Step(q)
  BY DEF Step, Quiet
<1>2. UNCHANGED <<users, rows, known, logins, lost, twice>>
  BY DEF Quiet, Login, RefreshJwtToken, RetrieveRefreshToken, UpdateRefreshToken, hist, counts
<1>3. q \notin Rotating(w)
  BY DEF Quiet, Login, RefreshJwtToken, RetrieveRefreshToken, UpdateRefreshToken, Rotating, At
<1>4. request'[q].call # "StoreRefreshToken" \/ request'[q].shown = None
  <2>1. CASE request'[q] = Idle
    BY <2>1, IdleMoves
  <2>2. CASE request'[q] # Idle
    BY <2>2, LoginMoves, RefreshMoves, RetrieveMoves, UpdateMoves DEF Quiet, Becomes
  <2> QED BY <2>1, <2>2
<1>5. q \notin Rotating(w)'
  BY <1>4 DEF Rotating, At, IsRefresh
<1> QED BY <1>1, <1>2, <1>3, <1>5, StepLocal, NotRotating

\* The step of a request for another user.
LEMMA OtherUser ==
  ASSUME TypeOK, ControlOK, ConstantsAssumption, NEW q \in Requests, Step(q), ~Quiet(q),
         NEW w \in Users, request[q].user # w
  PROVE  /\ rows'[w] = rows[w] /\ known'[w] = known[w] /\ Rotating(w)' = Rotating(w)
         /\ logins'[w] = logins[w] /\ lost'[w] = lost[w] /\ twice'[w] = twice[w]
<1> DEFINE u == request[q].user
<1>1. u \in Users
  BY CountsStep
<1>2. logins'[w] = logins[w] /\ lost'[w] = lost[w] /\ twice'[w] = twice[w]
  <2>1. logins \in [Users -> Nat] /\ lost \in [Users -> Nat] /\ twice \in [Users -> Nat]
    BY DEF TypeOK
  <2>2. \A f \in [Users -> Nat], n \in {0, 1} : Add(f, u, n)[w] = f[w]
    BY <1>1 DEF Add
  <2> QED BY <2>1, <2>2, CountsStep
<1>3. rows'[w] = rows[w]
  <2>1. CASE At(q, "Revoke") /\ request[q].picked \in DOMAIN rows[u] /\ rows' = Revoke(u, request[q].picked)
    BY <1>1, <2>1, Revoked
  <2>2. CASE At(q, "StoreRefreshToken") /\ u \in users /\ rows' = Insert(u, request[q].minted)
    BY <1>1, <2>2, Inserted DEF TypeOK, Request
  <2> QED BY <2>1, <2>2, RowsStep
<1>4. known'[w] = known[w]
  BY DEF Step, Quiet, RevokePicked, StoreRefreshToken, TypeOK
<1>5. q \notin Rotating(w)
  BY DEF Rotating
<1>6. request'[q] = Idle \/ request'[q].user = u
  BY RevokeMoves, StoreMoves DEF Step, Quiet, Becomes
<1>7. q \notin Rotating(w)'
  BY <1>6, IdleMoves DEF Rotating, IsRefresh
<1> QED BY <1>2, <1>3, <1>4, <1>5, <1>7, StepLocal, NotRotating

\* RevokePicked, for its user: a row is revoked, and the refresh is on its way to
\* the next one or lost; or nothing happens.
LEMMA RevokeUser ==
  ASSUME TypeOK, ControlOK, ConstantsAssumption, NEW q \in Requests, RevokePicked(q),
         NEW u, u = request[q].user
  PROVE  LET i == request[q].picked
         IN  /\ u \in Users /\ IsRefresh(q) /\ q \notin Rotating(u) /\ known' = known /\ logins' = logins
             /\ \/ rows' = rows /\ lost' = lost /\ twice' = twice /\ request'[q] = Idle
                \/ /\ i \in DOMAIN rows[u] /\ rows' = Revoke(u, i)
                   /\ twice'[u] = twice[u] + OneIf(rows[u][i].revoked)
                   /\ \/ lost' = lost /\ q \in Rotating(u)'
                      \/ lost'[u] = lost[u] + 1 /\ request'[q] = Idle
<1> DEFINE i == request[q].picked
<1>1. u \in Users /\ IsRefresh(q) /\ q \notin Rotating(u) /\ known' = known /\ logins' = logins
  BY DEF RevokePicked, ControlOK, At, Rotating
<1>2. CASE Ends(q)
  <2>1. request'[q] = Idle
    BY <1>2 DEF Ends, TypeOK
  <2>2. lost \in [Users -> Nat] /\ twice \in [Users -> Nat]
    BY DEF TypeOK
  <2>3. \/ rows' = rows /\ lost' = lost /\ twice' = twice
        \/ /\ i \in DOMAIN rows[u] /\ rows' = Revoke(u, i)
           /\ twice' = Add(twice, u, OneIf(i \in DOMAIN rows[u] /\ rows[u][i].revoked))
           /\ lost' = Add(lost, u, 1)
    <3>1. CASE GoesTo(q, "StoreRefreshToken")
      <4>1. request'[q].call = "StoreRefreshToken"
        BY <3>1 DEF GoesTo, TypeOK
      <4> QED BY <2>1, <4>1, IdleMoves
    <3> QED BY <3>1 DEF RevokePicked
  <2>4. \A n \in {0, 1} : Add(twice, u, n)[u] = twice[u] + n
    BY <1>1, <2>2 DEF Add
  <2>5. \A b : OneIf(b) \in {0, 1}
    BY DEF OneIf
  <2>6. Add(lost, u, 1)[u] = lost[u] + 1
    BY <1>1, <2>2 DEF Add
  <2>7. CASE rows' = rows /\ lost' = lost /\ twice' = twice
    BY <1>1, <2>1, <2>7
  <2>8. CASE /\ i \in DOMAIN rows[u] /\ rows' = Revoke(u, i)
             /\ twice' = Add(twice, u, OneIf(i \in DOMAIN rows[u] /\ rows[u][i].revoked))
             /\ lost' = Add(lost, u, 1)
    <3>1. twice'[u] = twice[u] + OneIf(rows[u][i].revoked)
      BY <2>4, <2>8 DEF OneIf
    <3> QED BY <1>1, <2>1, <2>6, <2>8, <3>1
  <2> QED BY <2>3, <2>7, <2>8
<1>3. CASE GoesTo(q, "StoreRefreshToken") /\ ~Ends(q)
  <2>1. /\ i \in DOMAIN rows[u] /\ rows' = Revoke(u, i) /\ lost' = lost
        /\ twice' = Add(twice, u, OneIf(i \in DOMAIN rows[u] /\ rows[u][i].revoked))
    BY <1>3 DEF RevokePicked
  <2>2. twice \in [Users -> Nat]
    BY DEF TypeOK
  <2>3. \A n \in {0, 1} : Add(twice, u, n)[u] = twice[u] + n
    BY <1>1, <2>2 DEF Add
  <2>4. twice'[u] = twice[u] + OneIf(rows[u][i].revoked)
    BY <2>1, <2>3 DEF OneIf
  <2>5. request'[q].call = "StoreRefreshToken" /\ request'[q].user = u /\ request'[q].shown = request[q].shown
    <3>1. request'[q] = [request[q] EXCEPT !.call = "StoreRefreshToken"]
      BY <1>3 DEF GoesTo, TypeOK
    <3>2. request[q] \in Request
      BY DEF TypeOK
    <3> QED BY <3>1, <3>2 DEF Request
  <2>6. q \in Rotating(u)'
    BY <1>1, <2>5 DEF Rotating, At, IsRefresh
  <2> QED BY <1>1, <2>1, <2>4, <2>6
<1> QED BY <1>2, <1>3 DEF RevokePicked

\* StoreRefreshToken, for its user: a row is added, or the refresh is lost.
LEMMA StoreUser ==
  ASSUME TypeOK, ControlOK, ConstantsAssumption, NEW q \in Requests, StoreRefreshToken(q)
  PROVE  LET u == request[q].user
             t == request[q].minted
         IN  /\ u \in Users /\ t \in Nat /\ (q \in Rotating(u) <=> IsRefresh(q)) /\ request'[q] = Idle
             /\ twice' = twice
             /\ \/ /\ u \in users /\ rows' = Insert(u, t) /\ lost' = lost
                   /\ logins'[u] = logins[u] + OneIf(~IsRefresh(q))
                   /\ t \in known'[u] \/ failures' > failures
                \/ /\ rows' = rows /\ logins' = logins /\ known' = known
                   /\ lost'[u] = lost[u] + OneIf(IsRefresh(q))
<1> DEFINE u == request[q].user
           t == request[q].minted
<1>1. /\ u \in Users /\ (q \in Rotating(u) <=> IsRefresh(q)) /\ twice' = twice
      /\ request'[q] = Idle
  BY StoreMoves DEF StoreRefreshToken, ControlOK, At, Rotating
<1>2. t \in Nat
  BY DEF TypeOK, Request
<1>3. logins \in [Users -> Nat] /\ lost \in [Users -> Nat] /\ known \in [Users -> SUBSET Nat] /\ failures \in Nat
  BY DEF TypeOK
<1>4. \A f \in [Users -> Nat], n \in {0, 1} : Add(f, u, n)[u] = f[u] + n
  BY <1>1, Adds
<1>5. OneIf(IsRefresh(q)) \in {0, 1} /\ OneIf(~IsRefresh(q)) \in {0, 1}
  BY DEF OneIf
<1>6. CASE u \in users /\ rows' = Insert(u, t) /\ logins' = Add(logins, u, OneIf(~IsRefresh(q))) /\ lost' = lost
  <2>1. t \in known'[u] \/ failures' > failures
    BY <1>1, <1>2, <1>3, <1>6 DEF StoreRefreshToken, Fault
  <2> QED BY <1>1, <1>2, <1>3, <1>4, <1>5, <1>6, <2>1
<1>7. CASE rows' = rows /\ logins' = logins /\ lost' = Add(lost, u, OneIf(IsRefresh(q))) /\ known' = known
  BY <1>1, <1>2, <1>3, <1>4, <1>5, <1>7
<1> QED BY <1>6, <1>7 DEF StoreRefreshToken

\* A step of a request keeps the balance of every user, and his last token usable.
LEMMA StepConserves ==
  ASSUME TypeOK, ControlOK, ConstantsAssumption, SessionsConserved, LastTokenUsable,
         NEW q \in Requests, Step(q)
  PROVE  SessionsConserved' /\ LastTokenUsable'
<1> DEFINE u == request[q].user
           i == request[q].picked
           t == request[q].minted
<1>0. users' = users /\ users \subseteq Users
  BY StepLocal DEF TypeOK
<1> SUFFICES ASSUME NEW w \in users
             PROVE  /\ Cardinality(Live(w)') + Cardinality(Rotating(w)') + lost'[w] = logins'[w] + twice'[w]
                    /\ rows'[w] # <<>> =>
                         /\ rows'[w][Len(rows'[w])].revoked => Rotating(w)' # {} \/ lost'[w] > 0
                         /\ failures' = 0 => rows'[w][Len(rows'[w])].token \in known'[w]
  BY <1>0 DEF SessionsConserved, LastTokenUsable
<1>1. /\ w \in Users
      /\ Cardinality(Live(w)) + Cardinality(Rotating(w)) + lost[w] = logins[w] + twice[w]
      /\ rows[w] # <<>> =>
           /\ rows[w][Len(rows[w])].revoked => Rotating(w) # {} \/ lost[w] > 0
           /\ failures = 0 => rows[w][Len(rows[w])].token \in known[w]
  BY <1>0 DEF SessionsConserved, LastTokenUsable
<1>2. /\ rows[w] \in Seq(Row) /\ Len(rows[w]) \in Nat /\ DOMAIN rows[w] = 1 .. Len(rows[w])
      /\ lost[w] \in Nat /\ logins[w] \in Nat /\ twice[w] \in Nat
      /\ Cardinality(Live(w)) \in Nat /\ Cardinality(Rotating(w)) \in Nat
  <2>1. rows[w] \in Seq(Row) /\ lost[w] \in Nat /\ logins[w] \in Nat /\ twice[w] \in Nat
    BY <1>1 DEF TypeOK
  <2> QED BY <1>1, <2>1, Countable
<1>3. failures' = 0 => failures = 0
  <2>1. failures' = failures \/ failures' = failures + 1
    BY DEF Step, Login, RefreshJwtToken, RetrieveRefreshToken, UpdateRefreshToken, RevokePicked,
           StoreRefreshToken, Fault, NoFault
  <2> QED BY <2>1 DEF TypeOK
<1>4. CASE rows'[w] = rows[w] /\ known'[w] = known[w] /\ Rotating(w)' = Rotating(w) /\ logins'[w] = logins[w]
             /\ lost'[w] = lost[w] /\ twice'[w] = twice[w]
  <2>1. Live(w)' = Live(w)
    BY <1>4 DEF Live
  <2> QED BY <1>1, <1>3, <1>4, <2>1
<1>5. CASE Quiet(q)
  BY <1>1, <1>4, <1>5, QuietStep
<1>6. CASE ~Quiet(q) /\ u # w
  BY <1>1, <1>4, <1>6, OtherUser
<1>7. CASE RevokePicked(q) /\ u = w
  <2>1. u \in Users /\ IsRefresh(q) /\ q \notin Rotating(w) /\ known' = known /\ logins' = logins
    BY <1>7, RevokeUser
  <2>2. CASE rows' = rows /\ lost' = lost /\ twice' = twice /\ request'[q] = Idle
    <3>1. q \notin Rotating(w)'
      BY <2>2, IdleMoves DEF Rotating, IsRefresh
    <3>2. Rotating(w)' = Rotating(w)
      BY <1>1, <2>1, <3>1, StepLocal, NotRotating
    <3> QED BY <1>4, <2>1, <2>2, <3>2
  <2>3. CASE /\ i \in DOMAIN rows[w] /\ rows' = Revoke(w, i)
             /\ twice'[w] = twice[w] + OneIf(rows[w][i].revoked)
             /\ \/ lost' = lost /\ q \in Rotating(w)'
                \/ lost'[w] = lost[w] + 1 /\ request'[q] = Idle
    <3>1. Cardinality(Live(w)') = Cardinality(Live(w)) - 1 + OneIf(rows[w][i].revoked)
      <4>1. CASE rows[w][i].revoked
        <5>1. Cardinality(Live(w)') = Cardinality(Live(w))
          BY <1>1, <2>3, <4>1, RevokedLive
        <5> QED BY <1>2, <4>1, <5>1 DEF OneIf
      <4>2. CASE ~rows[w][i].revoked
        <5>1. Cardinality(Live(w)') = Cardinality(Live(w)) - 1
          BY <1>1, <2>3, <4>2, RevokedLive
        <5> QED BY <1>2, <4>2, <5>1 DEF OneIf
      <4> QED BY <4>1, <4>2
    <3>2. \/ /\ lost'[w] = lost[w] /\ q \in Rotating(w)'
             /\ Cardinality(Rotating(w)') = Cardinality(Rotating(w)) + 1
          \/ lost'[w] = lost[w] + 1 /\ Rotating(w)' = Rotating(w)
      <4>1. CASE lost' = lost /\ q \in Rotating(w)'
        BY <1>1, <2>1, <4>1, StepLocal, StartsRotating
      <4>2. CASE lost'[w] = lost[w] + 1 /\ request'[q] = Idle
        <5>1. q \notin Rotating(w)'
          BY <4>2, IdleMoves DEF Rotating, IsRefresh
        <5> QED BY <1>1, <2>1, <4>2, <5>1, StepLocal, NotRotating
      <4> QED BY <2>3, <4>1, <4>2
    <3>3. OneIf(rows[w][i].revoked) \in {0, 1}
      BY DEF OneIf
    <3>4. Cardinality(Live(w)') + Cardinality(Rotating(w)') + lost'[w] = logins'[w] + twice'[w]
      <4> DEFINE live == Cardinality(Live(w))
                 live1 == Cardinality(Live(w)')
                 rotating == Cardinality(Rotating(w))
                 rotating1 == Cardinality(Rotating(w)')
                 again == OneIf(rows[w][i].revoked)
      <4>1. /\ live \in Int /\ rotating \in Int /\ lost[w] \in Int /\ logins[w] \in Int /\ twice[w] \in Int
            /\ live + rotating + lost[w] = logins[w] + twice[w]
        BY <1>1, <1>2
      <4>2. /\ again \in Int /\ logins'[w] = logins[w] /\ twice'[w] = twice[w] + again
            /\ live1 = live - 1 + again
        BY <2>1, <2>3, <3>1, <3>3
      <4>3. (lost'[w] = lost[w] /\ rotating1 = rotating + 1) \/ (lost'[w] = lost[w] + 1 /\ rotating1 = rotating)
        <5>1. CASE lost'[w] = lost[w] /\ Cardinality(Rotating(w)') = Cardinality(Rotating(w)) + 1
          BY <5>1
        <5>2. CASE lost'[w] = lost[w] + 1 /\ Rotating(w)' = Rotating(w)
          BY <5>2
        <5> QED BY <3>2, <5>1, <5>2
      <4> HIDE DEF again, live, live1, rotating, rotating1
      <4>4. live1 + rotating1 + lost'[w] = logins'[w] + twice'[w]
        BY <4>1, <4>2, <4>3
      <4> QED BY <4>4 DEF live1, rotating1
    <3>5. /\ Len(rows'[w]) = Len(rows[w]) /\ rows[w] # <<>> /\ Len(rows[w]) \in DOMAIN rows[w]
          /\ \A j \in DOMAIN rows[w] : rows'[w][j].token = rows[w][j].token
      BY <1>1, <1>2, <2>3, Revoked
    <3>6. Rotating(w)' # {} \/ lost'[w] > 0
      BY <1>2, <3>2
    <3> QED BY <1>1, <1>3, <2>1, <3>4, <3>5, <3>6
  <2> QED BY <1>7, <2>2, <2>3, RevokeUser
<1>8. CASE StoreRefreshToken(q) /\ u = w
  <2>1. t \in Nat /\ (q \in Rotating(w) <=> IsRefresh(q)) /\ request'[q] = Idle /\ twice' = twice
    BY <1>8, StoreUser
  <2>2. q \notin Rotating(w)'
    BY <2>1, IdleMoves DEF Rotating, IsRefresh
  <2>3. Cardinality(Rotating(w)') = Cardinality(Rotating(w)) - OneIf(IsRefresh(q))
    <3>1. CASE IsRefresh(q)
      BY <1>1, <2>1, <2>2, <3>1, StepLocal, StopsRotating DEF OneIf
    <3>2. CASE ~IsRefresh(q)
      <4>1. Rotating(w)' = Rotating(w)
        BY <1>1, <2>1, <2>2, <3>2, StepLocal, NotRotating
      <4> QED BY <1>2, <3>2, <4>1 DEF OneIf
    <3> QED BY <3>1, <3>2
  <2>4. CASE /\ rows' = Insert(w, t) /\ lost' = lost /\ logins'[w] = logins[w] + OneIf(~IsRefresh(q))
             /\ t \in known'[w] \/ failures' > failures
    <3>1. Cardinality(Live(w)') = Cardinality(Live(w)) + 1
      BY <1>1, <2>1, <2>4, InsertedLive
    <3>2. OneIf(IsRefresh(q)) + OneIf(~IsRefresh(q)) = 1 /\ OneIf(IsRefresh(q)) \in {0, 1}
      BY DEF OneIf
    <3>3. OneIf(~IsRefresh(q)) \in {0, 1}
      BY DEF OneIf
    <3>4. Cardinality(Live(w)') + Cardinality(Rotating(w)') + lost'[w] = logins'[w] + twice'[w]
      <4> DEFINE live == Cardinality(Live(w))
                 live1 == Cardinality(Live(w)')
                 rotating == Cardinality(Rotating(w))
                 rotating1 == Cardinality(Rotating(w)')
                 old == OneIf(IsRefresh(q))
                 new == OneIf(~IsRefresh(q))
      <4>1. /\ live \in Int /\ rotating \in Int /\ lost[w] \in Int /\ logins[w] \in Int /\ twice[w] \in Int
            /\ live + rotating + lost[w] = logins[w] + twice[w]
        BY <1>1, <1>2
      <4>2. /\ old \in Int /\ new \in Int /\ old + new = 1
            /\ logins'[w] = logins[w] + new /\ twice'[w] = twice[w] /\ lost'[w] = lost[w]
            /\ live1 = live + 1 /\ rotating1 = rotating - old
        BY <2>1, <2>3, <2>4, <3>1, <3>2, <3>3
      <4> HIDE DEF old, new, live, live1, rotating, rotating1
      <4>3. live1 + rotating1 + lost'[w] = logins'[w] + twice'[w]
        BY <4>1, <4>2
      <4> QED BY <4>3 DEF live1, rotating1
    <3>5. Len(rows'[w]) = Len(rows[w]) + 1 /\ ~rows'[w][Len(rows[w]) + 1].revoked
            /\ rows'[w][Len(rows[w]) + 1].token = t
      BY <1>1, <2>1, <2>4, Inserted
    <3>6. failures' = 0 => t \in known'[w]
      BY <1>3, <2>4
    <3> QED BY <3>4, <3>5, <3>6
  <2>5. CASE rows' = rows /\ logins' = logins /\ known' = known /\ lost'[w] = lost[w] + OneIf(IsRefresh(q))
    <3>1. OneIf(IsRefresh(q)) \in {0, 1}
      BY DEF OneIf
    <3>2. Live(w)' = Live(w)
      BY <2>5 DEF Live
    <3>3. Cardinality(Live(w)') + Cardinality(Rotating(w)') + lost'[w] = logins'[w] + twice'[w]
      <4> DEFINE live == Cardinality(Live(w))
                 live1 == Cardinality(Live(w)')
                 rotating == Cardinality(Rotating(w))
                 rotating1 == Cardinality(Rotating(w)')
                 old == OneIf(IsRefresh(q))
      <4>1. /\ live \in Int /\ rotating \in Int /\ lost[w] \in Int /\ logins[w] \in Int /\ twice[w] \in Int
            /\ live + rotating + lost[w] = logins[w] + twice[w]
        BY <1>1, <1>2
      <4>2. /\ old \in Int /\ logins'[w] = logins[w] /\ twice'[w] = twice[w] /\ lost'[w] = lost[w] + old
            /\ live1 = live /\ rotating1 = rotating - old
        BY <1>8, <2>1, <2>3, <2>5, <3>1, <3>2
      <4> HIDE DEF old, live, live1, rotating, rotating1
      <4>3. live1 + rotating1 + lost'[w] = logins'[w] + twice'[w]
        BY <4>1, <4>2
      <4> QED BY <4>3 DEF live1, rotating1
    <3>4. Rotating(w) # {} \/ lost[w] > 0 => Rotating(w)' # {} \/ lost'[w] > 0
      <4>1. CASE IsRefresh(q)
        BY <1>2, <2>5, <4>1 DEF OneIf
      <4>2. CASE ~IsRefresh(q)
        <5>1. Rotating(w)' = Rotating(w)
          BY <1>1, <2>1, <2>2, <4>2, StepLocal, NotRotating
        <5> QED BY <1>2, <2>5, <4>2, <5>1 DEF OneIf
      <4> QED BY <4>1, <4>2
    <3> QED BY <1>1, <1>3, <2>5, <3>3, <3>4
  <2> QED BY <1>8, <2>4, <2>5, StoreUser
<1> QED BY <1>5, <1>6, <1>7, <1>8 DEF Step, Quiet

-----------------------------------------------------------------------------
(* The theorems.                                                            *)

LEMMA InitOK == ASSUME ConstantsAssumption, Init PROVE IInv
<1>1. TypeOK
  <2>1. Idle \in Request
    BY DEF Idle, Request
  <2>2. <<>> \in Seq(Row)
    OBVIOUS
  <2> QED BY <2>1, <2>2 DEF Init, TypeOK
<1>2. ControlOK /\ DeletedHaveNone /\ LastTokenUsable
  BY DEF Init, Idle, ControlOK, DeletedHaveNone, LastTokenUsable, At, IsRefresh
<1>3. SessionsConserved
  <2> SUFFICES ASSUME NEW u \in users
               PROVE  Cardinality(Live(u)) + Cardinality(Rotating(u)) + lost[u] = logins[u] + twice[u]
    BY DEF SessionsConserved
  <2>1. Live(u) = {} /\ Rotating(u) = {} /\ lost[u] = 0 /\ logins[u] = 0 /\ twice[u] = 0
    BY DEF Init, Live, Rotating, At, Idle
  <2> QED BY <2>1, FS_EmptySet
<1> QED BY <1>1, <1>2, <1>3 DEF IInv

\* DELETE FROM users: the other users keep everything they have.
LEMMA DeleteOK ==
  ASSUME IInv, ConstantsAssumption, NEW d \in Users, DeleteUser(d)
  PROVE  IInv'
<1> USE DEF IInv
<1>1. /\ users' = users \ {d} /\ rows' \in [Users -> Seq(Row)] /\ rows'[d] = <<>>
      /\ \A w \in Users \ {d} : rows'[w] = rows[w]
      /\ UNCHANGED <<clock, request, known, failures, logins, lost, twice, rotated>>
  BY DEF DeleteUser, Cascade, TypeOK, hist, counts
<1>2. TypeOK'
  BY <1>1 DEF TypeOK
<1>3. ControlOK' /\ DeletedHaveNone'
  BY <1>1 DEF ControlOK, DeletedHaveNone, At, IsRefresh, TypeOK
<1>4. \A w \in users' : /\ w \in users /\ w \in Users /\ rows'[w] = rows[w]
                        /\ Live(w)' = Live(w) /\ Rotating(w)' = Rotating(w)
  BY <1>1 DEF TypeOK, Live, Rotating, At, IsRefresh
<1>5. SessionsConserved'
  BY <1>1, <1>4 DEF SessionsConserved
<1>6. LastTokenUsable'
  BY <1>1, <1>4 DEF LastTokenUsable
<1> QED BY <1>2, <1>3, <1>5, <1>6

\* A stop loses the refreshes on their way.
LEMMA RestartOK ==
  ASSUME IInv, ConstantsAssumption, Restart
  PROVE  IInv'
<1> USE DEF IInv
<1>1. /\ UNCHANGED <<clock, users, rows, known, logins, twice, rotated>>
      /\ failures' = failures + 1 /\ failures \in Nat
      /\ request' = [q \in Requests |-> Idle] /\ Idle \in Request
      /\ lost' = [u \in Users |-> lost[u] + Cardinality(Rotating(u))]
  BY DEF Restart, Fault, Idle, Request, TypeOK
<1>2. TypeOK'
  <2>1. \A u \in Users : lost[u] \in Nat /\ Cardinality(Rotating(u)) \in Nat
    BY Countable DEF TypeOK
  <2>2. lost' \in [Users -> Nat]
    BY <1>1, <2>1
  <2> QED BY <1>1, <2>2 DEF TypeOK
<1>3. ControlOK' /\ DeletedHaveNone'
  BY <1>1 DEF ControlOK, DeletedHaveNone, At, IsRefresh, Idle
<1>4. \A w \in users : /\ Live(w)' = Live(w) /\ Rotating(w)' = {} /\ lost'[w] = lost[w] + Cardinality(Rotating(w))
                       /\ lost[w] \in Nat /\ logins[w] \in Nat /\ twice[w] \in Nat
                       /\ Cardinality(Live(w)) \in Nat /\ Cardinality(Rotating(w)) \in Nat
  <2>1. \A w \in users : w \in Users
    BY DEF TypeOK
  <2>2. \A w \in Users : Live(w)' = Live(w) /\ Rotating(w)' = {}
    BY <1>1 DEF Live, Rotating, At, Idle
  <2> QED BY <1>1, <2>1, <2>2, Countable DEF TypeOK
<1>5. SessionsConserved'
  <2> SUFFICES ASSUME NEW w \in users
               PROVE  Cardinality(Live(w)') + Cardinality(Rotating(w)') + lost'[w] = logins'[w] + twice'[w]
    BY <1>1 DEF SessionsConserved
  <2>1. Cardinality(Rotating(w)') = 0
    BY <1>4, FS_EmptySet
  <2> QED BY <1>1, <1>4, <2>1 DEF SessionsConserved
<1>6. LastTokenUsable'
  <2> SUFFICES ASSUME NEW w \in users, rows[w] # <<>>, rows[w][Len(rows[w])].revoked
               PROVE  lost'[w] > 0
    BY <1>1 DEF LastTokenUsable
  <2>1. Rotating(w) # {} \/ lost[w] > 0
    BY DEF LastTokenUsable
  <2>2. Rotating(w) # {} => Cardinality(Rotating(w)) # 0
    <3>1. w \in Users
      BY DEF TypeOK
    <3> QED BY <3>1, Countable, FS_EmptySet
  <2> QED BY <1>4, <2>1, <2>2
<1> QED BY <1>2, <1>3, <1>5, <1>6

LEMMA NextOK == ASSUME IInv, ConstantsAssumption, [Next]_vars PROVE IInv'
<1>1. ASSUME NEW q \in Requests, Step(q) PROVE IInv'
  BY <1>1, StepTypes, StepControl, StepDeleted, StepConserves DEF IInv
<1>2. ASSUME Tick \/ UNCHANGED vars PROVE IInv'
  <2>1. /\ UNCHANGED <<users, rows, request, known, failures, logins, lost, twice, rotated>>
        /\ clock' = clock \/ clock' = clock + 1
    BY <1>2 DEF Tick, vars, hist, counts
  <2>2. TypeOK'
    BY <2>1 DEF IInv, TypeOK
  <2>3. ControlOK' /\ DeletedHaveNone'
    BY <2>1 DEF IInv, ControlOK, DeletedHaveNone, At, IsRefresh
  <2>4. SessionsConserved' /\ LastTokenUsable'
    <3>1. \A u : Live(u)' = Live(u) /\ Rotating(u)' = Rotating(u)
      BY <2>1 DEF Live, Rotating, At, IsRefresh
    <3> QED BY <2>1, <3>1 DEF IInv, SessionsConserved, LastTokenUsable
  <2> QED BY <2>2, <2>3, <2>4 DEF IInv
<1> QED BY <1>1, <1>2, DeleteOK, RestartOK DEF Next

\* The inductive invariant holds in every reachable state: whatever the requests,
\* deletions, failed queries and restarts do to users and refresh_tokens.
THEOREM Invariance == Spec => []IInv
<1>1. Init => IInv
  BY InitOK, ConstantsAssumption
<1>2. IInv /\ [Next]_vars => IInv'
  BY NextOK, ConstantsAssumption
<1> QED BY <1>1, <1>2, PTL DEF Spec

\* The tables and the control of the requests stay in their domains.
THEOREM TypeCorrect == Spec => []TypeOK
<1>1. IInv => TypeOK
  BY DEF IInv
<1> QED BY <1>1, Invariance, PTL

\* RefreshJwtToken revokes one row and stores one: however the requests of a user
\* interleave, his rows that are not revoked are one for each login, less the
\* refreshes cut off in between, plus those that revoked the same row.
THEOREM RotationConserves == Spec => []SessionsConserved
<1>1. IInv => SessionsConserved
  BY DEF IInv
<1> QED BY <1>1, Invariance, PTL

\* RetrieveRefreshToken finds the last row stored, unless a refresh is between its
\* two writes or was cut off there: no race of requests locks a user out.
THEOREM NoLockout == Spec => []LastTokenUsable
<1>1. IInv => LastTokenUsable
  BY DEF IInv
<1> QED BY <1>1, Invariance, PTL
=============================================================================
