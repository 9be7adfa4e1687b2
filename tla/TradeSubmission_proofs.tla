------------------------ MODULE TradeSubmission_proofs ------------------------
(***************************************************************************)
(* Theorems of the trade submissions, for any trades, requests, payments   *)
(* and delegations, whatever interleaves, times out or crashes.  A request *)
(* acts on what it read some statements ago; the invariant says for each   *)
(* place in it what has become of its payment, its operation and its vault *)
(* by then, and that no two requests are about to settle one payload.  At  *)
(* the end, the listings of the same service: for each row that was there  *)
(* all the time, where it is with respect to the cursor.                   *)
(***************************************************************************)
EXTENDS TradeSubmission, Listings, FiniteSetTheorems, WellFoundedInduction, TLAPS

\* Places of a request: before it asks for its settlement, while it holds a
\* payment of its trade, and once an operation is on record.
Asking    == {"unpaid", "verify", "settling"}
Holding   == Asking \union {"settle", "after", "insert"}
Deployed  == {"balance", "legs", "relay", "commit"}
Recorded  == Deployed \union {"paid", "activate", "deploying", "caught"}
Requests  == [at : {"idle"} \union Holding \union Recorded, payment : Payment \union {None},
              before : Nat, leg : Nat]
Transactions == ({"register"} \X {None}) \union ({"deploy"} \X Request)
                \union ({"activate", "cancel"} \X Trade)

Typed ==
    /\ TypeOK
    /\ scene \in [Request -> Trade]
    /\ request \in [Request -> Requests]
    /\ payment \in [Payment -> [trade : Trade \union {None},
                                state : {"new", "signed", "asked", "mined", "refused"}]]
    /\ relayed \subseteq Transactions
    /\ today \in Nat

RequestSound(r) ==
    LET t == scene[r]
        p == request[r].payment
    IN  /\ ~At(r, "idle") => preview[t] # None
        /\ request[r].at \in Holding => p \in Payment /\ payment[p].trade = t
        /\ request[r].at \in Asking => payment[p].state = "signed"
        /\ At(r, "settle") => payment[p].state \in {"asked", "mined", "refused"}
        /\ request[r].at \in {"after", "insert"} => payment[p].state = "mined"
        /\ request[r].at \in Recorded => operation[t] # None
        /\ request[r].at \in Deployed => vault[t].deployer # None

PaymentsApart ==
    \A r, s \in Request :
        request[r].at \in Asking /\ request[s].at \in Asking
            /\ request[r].payment = request[s].payment => r = s

Invariant ==
    /\ Typed
    /\ \A r \in Request : RequestSound(r)
    /\ PaymentsApart
    /\ RecordedPaymentIsReal
    /\ LegsHaveVault

\* Only operations on record are cancelled.
OfferedOnRecord ==
    /\ cancelling \in [Trade -> {"none", "offered", "used"}]
    /\ \A t \in Trade : cancelling[t] # "none" => operation[t] # None

-----------------------------------------------------------------------------
LEMMA InitEstablishes == ASSUME Init PROVE Invariant
<1> USE SubmissionAssumption DEF SubmissionAssumption, Init
<1>1. Typed
  <2>1. TypeOK
      BY DEF TypeOK
  <2>2. [at |-> "idle", payment |-> None, before |-> 0, leg |-> 0] \in Requests
      BY DEF Requests
  <2> QED
      BY <2>1, <2>2 DEF Typed
<1>2. \A r \in Request : RequestSound(r)
    BY DEF RequestSound, At, Holding, Asking, Recorded, Deployed
<1>3. PaymentsApart
    BY DEF PaymentsApart, Asking
<1>4. RecordedPaymentIsReal /\ LegsHaveVault
    BY DEF RecordedPaymentIsReal, LegsHaveVault
<1> QED
    BY <1>1, <1>2, <1>3, <1>4 DEF Invariant

-----------------------------------------------------------------------------
(* What a step leaves sound.                                                *)

\* The tables keep what they have: no preview, operation or deployment is lost.
TablesKept ==
    \A t \in Trade :
        /\ preview[t] # None => preview'[t] # None
        /\ operation[t] # None => operation'[t] # None
        /\ vault[t].deployer # None => vault'[t].deployer # None

\* A request that did not move is as sound as before.
LEMMA StaysSound ==
    ASSUME Invariant, NEW s \in Request, request'[s] = request[s], scene' = scene, TablesKept,
           request[s].at \in Holding => payment'[request[s].payment] = payment[request[s].payment]
    PROVE  RequestSound(s)'
<1>1. scene[s] \in Trade /\ RequestSound(s)
    BY DEF Invariant, Typed
<1>2. Asking \subseteq Holding /\ {"settle", "after", "insert"} \subseteq Holding
    BY DEF Holding
<1> QED
    BY <1>1, <1>2 DEF RequestSound, At, TablesKept

\* One request moves, the others stay.
LEMMA OneMoves ==
    ASSUME Invariant, NEW r \in Request, scene' = scene, TablesKept,
           request' = [request EXCEPT ![r] = request'[r]], request'[r] \in Requests,
           \A s \in Request \ {r} : request[s].at \in Holding =>
               payment'[request[s].payment] = payment[request[s].payment],
           RequestSound(r)',
           request'[r].at \in Asking =>
               request[r].at \in Asking /\ request'[r].payment = request[r].payment
    PROVE  /\ request' \in [Request -> Requests]
           /\ (\A s \in Request : RequestSound(s))'
           /\ PaymentsApart'
<1>1. request \in [Request -> Requests]
    BY DEF Invariant, Typed
<1>2. \A s \in Request \ {r} : request'[s] = request[s]
    BY <1>1
<1>3. request' \in [Request -> Requests]
    BY <1>1
<1>4. (\A s \in Request : RequestSound(s))'
    BY <1>2, StaysSound
<1>5. PaymentsApart'
    BY <1>1, <1>2 DEF Invariant, PaymentsApart
<1> QED
    BY <1>3, <1>4, <1>5

\* Nobody moves.
LEMMA NoneMoves ==
    ASSUME Invariant, UNCHANGED <<scene, request>>, TablesKept,
           \A s \in Request : request[s].at \in Holding =>
               payment'[request[s].payment] = payment[request[s].payment]
    PROVE  /\ request' \in [Request -> Requests]
           /\ (\A s \in Request : RequestSound(s))'
           /\ PaymentsApart'
<1>1. request \in [Request -> Requests]
    BY DEF Invariant, Typed
<1>2. (\A s \in Request : RequestSound(s))'
    BY StaysSound
<1>3. PaymentsApart'
    BY DEF Invariant, PaymentsApart
<1> QED
    BY <1>1, <1>2, <1>3

Places == {"idle"} \union Holding \union Recorded

LEMMA GotoValue ==
    ASSUME Typed, NEW r \in Request, NEW place \in Places, Goto(r, place)
    PROVE  /\ request' = [request EXCEPT ![r] = request'[r]]
           /\ request'[r] \in Requests
           /\ request'[r].at = place /\ request'[r].payment = request[r].payment
           /\ request'[r].before = request[r].before
<1>1. request \in [Request -> Requests] /\ request[r] \in Requests
    BY DEF Typed
<1>2. request' = [request EXCEPT ![r] = [request[r] EXCEPT !.at = place]]
    BY DEF Goto
<1>3. [request[r] EXCEPT !.at = place] \in Requests
    BY <1>1 DEF Requests, Places
<1> QED
    BY <1>1, <1>2, <1>3 DEF Requests

LEMMA EndValue ==
    ASSUME Typed, NEW r \in Request, End(r)
    PROVE  /\ request' = [request EXCEPT ![r] = request'[r]]
           /\ request'[r] \in Requests
           /\ request'[r].at = "idle"
           /\ RequestSound(r)'
<1>1. request \in [Request -> Requests]
    BY DEF Typed
<1> DEFINE rest == [at |-> "idle", payment |-> None, before |-> 0, leg |-> 0]
<1>2. request' = [request EXCEPT ![r] = rest] /\ rest \in Requests
    BY DEF End, Requests
<1>3. request'[r] = rest
    BY <1>1, <1>2
<1>4. RequestSound(r)'
    BY <1>3 DEF RequestSound, At, Holding, Asking, Recorded, Deployed
<1>5. request'[r].at = "idle"
    BY <1>3
<1> HIDE DEF rest
<1> QED
    BY <1>2, <1>3, <1>4, <1>5

\* What the tables say, when a step leaves them and the payments alone.
Tables == <<preview, operation, settlement, legs, vault, payment, scene, today>>

LEMMA TablesStay ==
    ASSUME Invariant, UNCHANGED Tables
    PROVE  TablesKept /\ TypeOK' /\ RecordedPaymentIsReal' /\ LegsHaveVault'
<1> USE DEF Tables, Invariant
<1>1. TablesKept /\ TypeOK'
    BY DEF TablesKept, Typed, TypeOK
<1>2. RecordedPaymentIsReal' /\ LegsHaveVault'
    BY DEF RecordedPaymentIsReal, LegsHaveVault
<1> QED
    BY <1>1, <1>2

\* A request ends, or goes on to a place that it is ready for.
LEMMA EndPreserves ==
    ASSUME Invariant, NEW r \in Request, End(r), UNCHANGED Tables, relayed' \subseteq Transactions
    PROVE  Invariant'
<1>1. /\ request' = [request EXCEPT ![r] = request'[r]] /\ request'[r] \in Requests
      /\ RequestSound(r)' /\ request'[r].at = "idle"
    BY EndValue DEF Invariant
<1>2. /\ request' \in [Request -> Requests]
      /\ (\A s \in Request : RequestSound(s))' /\ PaymentsApart'
    BY <1>1, TablesStay, OneMoves DEF Tables, Asking
<1>3. Typed'
    BY <1>2, TablesStay DEF Typed, Invariant, Tables
<1> QED
    BY <1>2, <1>3, TablesStay DEF Invariant

LEMMA GotoPreserves ==
    ASSUME Invariant, NEW r \in Request, NEW place \in Places, Goto(r, place),
           UNCHANGED Tables, relayed' \subseteq Transactions,
           ~At(r, "idle"), place # "settle",
           place \in Holding => request[r].at \in Holding,
           place \in Asking => request[r].at \in Asking,
           place \in {"after", "insert"} => payment[request[r].payment].state = "mined",
           place \in Recorded => operation[scene[r]] # None,
           place \in Deployed => vault[scene[r]].deployer # None
    PROVE  Invariant'
<1>1. /\ request' = [request EXCEPT ![r] = request'[r]] /\ request'[r] \in Requests
      /\ request'[r].at = place /\ request'[r].payment = request[r].payment
    BY GotoValue DEF Invariant
<1>2. RequestSound(r)'
  <2>1. RequestSound(r)
      BY DEF Invariant
  <2> QED
      BY <1>1, <2>1 DEF Tables, RequestSound, At
<1>3. /\ request' \in [Request -> Requests]
      /\ (\A s \in Request : RequestSound(s))' /\ PaymentsApart'
    BY <1>1, <1>2, TablesStay, OneMoves DEF Tables
<1>4. Typed'
    BY <1>3, TablesStay DEF Typed, Invariant, Tables
<1> QED
    BY <1>3, <1>4, TablesStay DEF Invariant

\* The payments on record are payments, and were mined; mined ones stay.
LEMMA OnRecord ==
    ASSUME Invariant, NEW t \in Trade
    PROVE  /\ operation[t] # None =>
                operation[t] \in Operations /\ operation[t].payment \in Payment
                /\ payment[operation[t].payment].trade = t
                /\ payment[operation[t].payment].state = "mined"
           /\ settlement[t].payment # None =>
                settlement[t].payment \in Payment
                /\ payment[settlement[t].payment].trade = t
                /\ payment[settlement[t].payment].state = "mined"
    BY DEF Invariant, Typed, TypeOK, Operations, RecordedPaymentIsReal

MinedStay == \A p \in Payment : payment[p].state = "mined" => payment'[p] = payment[p]

LEMMA RecordsStayReal ==
    ASSUME Invariant, UNCHANGED <<operation, settlement, legs>>, MinedStay, TablesKept
    PROVE  RecordedPaymentIsReal' /\ LegsHaveVault'
<1>1. RecordedPaymentIsReal'
  <2> SUFFICES ASSUME NEW t \in Trade
               PROVE  LET Real(p) == payment'[p].trade = t /\ payment'[p].state = "mined" IN
                      /\ operation[t] # None => Real(operation[t].payment)
                      /\ settlement[t].payment # None => Real(settlement[t].payment)
                      /\ settlement[t].state \in {"settled", "failed"} => settlement[t].payment # None
      BY DEF RecordedPaymentIsReal
  <2> QED
      BY OnRecord DEF MinedStay, Invariant, RecordedPaymentIsReal
<1>2. LegsHaveVault'
    BY DEF Invariant, LegsHaveVault, MinedStay, TablesKept
<1> QED
    BY <1>1, <1>2

-----------------------------------------------------------------------------
(* The steps of a submission.                                               *)

LEMMA PlacesApart ==
    /\ Asking \subseteq Holding /\ Deployed \subseteq Recorded
    /\ Holding \cap Recorded = {} /\ "idle" \notin Holding \union Recorded
BY DEF Asking, Holding, Deployed, Recorded

LEMMA SubmitPreserves ==
    ASSUME Invariant, NEW r \in Request, NEW p \in Payment \union {None}, Submit(r, p)
    PROVE  Invariant'
<1> DEFINE t == scene[r]
           place == IF operation[t] = None THEN "unpaid" ELSE "paid"
<1>1. /\ t \in Trade /\ request \in [Request -> Requests] /\ None \notin Payment
      /\ UNCHANGED <<preview, operation, settlement, legs, vault, relayed, scene, today>>
      /\ preview[t] # None
      /\ operation[t] = None => p # None
    BY SubmissionAssumption
       DEF Invariant, Typed, SubmissionAssumption, Submit, apiVars, chainVars
<1>2. /\ request' = [request EXCEPT ![r] = request'[r]] /\ request'[r] \in Requests
      /\ request'[r].at = place /\ request'[r].payment = p
  <2>1. request' = [request EXCEPT ![r] = [[request[r] EXCEPT !.at = place] EXCEPT !.payment = p]]
      BY <1>1 DEF Submit
  <2>2. [[request[r] EXCEPT !.at = place] EXCEPT !.payment = p] \in Requests
      BY <1>1 DEF Requests, Holding, Asking, Recorded
  <2> QED
      BY <1>1, <2>1, <2>2 DEF Requests
<1>3. /\ payment' \in [Payment -> [trade : Trade \union {None},
                                   state : {"new", "signed", "asked", "mined", "refused"}]]
      /\ \A other \in Payment : payment[other].state # "new" => payment'[other] = payment[other]
      /\ p # None => /\ payment[p].state = "new"
                     /\ payment'[p].trade = t /\ payment'[p].state = "signed"
    BY <1>1 DEF Submit, Fresh, Invariant, Typed
<1>4. \A s \in Request : request[s].at \in Holding =>
          /\ request[s].payment \in Payment /\ payment[request[s].payment].state # "new"
    BY DEF Invariant, RequestSound, At, Holding
<1> HIDE DEF place
<1>5. TablesKept
    BY <1>1 DEF TablesKept
<1>6. RequestSound(r)'
    BY <1>1, <1>2, <1>3, PlacesApart DEF place, RequestSound, At, Holding, Asking, Recorded, Deployed
<1>7. /\ request' \in [Request -> Requests]
      /\ (\A s \in Request : RequestSound(s))'
  <2>1. \A s \in Request \ {r} : request'[s] = request[s]
      BY <1>1, <1>2
  <2>2. \A s \in Request \ {r} : RequestSound(s)'
      BY <1>1, <1>3, <1>4, <1>5, <2>1, StaysSound
  <2> QED
      BY <1>1, <1>2, <1>6, <2>2
<1>8. PaymentsApart'
  <2> SUFFICES ASSUME NEW s \in Request, NEW u \in Request, s # u,
                      request'[s].at \in Asking, request'[u].at \in Asking,
                      request'[s].payment = request'[u].payment
               PROVE  FALSE
      BY DEF PaymentsApart
  <2>1. \A v \in Request \ {r} : request'[v] = request[v]
      BY <1>1, <1>2
  <2>2. CASE s # r /\ u # r
      BY <2>1, <2>2 DEF Invariant, PaymentsApart
  <2>3. CASE s = r \/ u = r
    <3>1. p \in Payment /\ payment[p].state = "new"
        BY <1>1, <1>2, <1>3, <2>3 DEF place, Asking
    <3> QED
        BY <1>2, <1>4, <2>1, <2>3, <3>1, PlacesApart
  <2> QED
      BY <2>2, <2>3
<1>9. Typed'
    BY <1>1, <1>3, <1>7 DEF Invariant, Typed, TypeOK
<1>10. RecordedPaymentIsReal' /\ LegsHaveVault'
  <2>1. MinedStay
      BY <1>3 DEF MinedStay
  <2> QED
      BY <1>1, <1>5, <2>1, RecordsStayReal
<1> QED
    BY <1>7, <1>8, <1>9, <1>10 DEF Invariant

LEMMA CheckPreserves ==
    ASSUME Invariant, NEW r \in Request, CheckDelegation(r)
    PROVE  Invariant'
<1>1. UNCHANGED Tables /\ relayed' \subseteq Transactions /\ RequestSound(r)
    BY DEF CheckDelegation, Tables, apiVars, chainVars, Invariant, Typed
<1>2. CASE ~Allowed(scene[r])
    BY <1>1, <1>2, EndPreserves DEF CheckDelegation
<1>3. CASE Allowed(scene[r]) /\ At(r, "paid")
  <2>1. Goto(r, "activate") /\ operation[scene[r]] # None
      BY <1>1, <1>3 DEF CheckDelegation, RequestSound, At, Recorded
  <2> QED
      BY <1>1, <1>3, <2>1, GotoPreserves DEF Places, Recorded, Deployed, Holding, Asking, At
<1>4. CASE Allowed(scene[r]) /\ At(r, "unpaid")
  <2>1. Goto(r, "verify")
      BY <1>4 DEF CheckDelegation, At
  <2> QED
      BY <1>1, <1>4, <2>1, GotoPreserves DEF Places, Recorded, Deployed, Holding, Asking, At
<1> QED
    BY <1>2, <1>3, <1>4 DEF CheckDelegation, At

LEMMA VerifyPreserves ==
    ASSUME Invariant, NEW r \in Request, Verify(r)
    PROVE  Invariant'
<1>1. UNCHANGED Tables /\ UNCHANGED relayed /\ relayed' \subseteq Transactions
    BY DEF Verify, Tables, apiVars, chainVars, Invariant, Typed
<1>2. CASE End(r)
    BY <1>1, <1>2, EndPreserves
<1>3. CASE request' = [request EXCEPT ![r].at = "settling", ![r].before = vault[scene[r]].balance]
  <2> DEFINE next == [[request[r] EXCEPT !.at = "settling"] EXCEPT !.before = vault[scene[r]].balance]
  <2>1. request \in [Request -> Requests] /\ scene[r] \in Trade /\ vault[scene[r]].balance \in Nat
      BY DEF Invariant, Typed, TypeOK
  <2>2. next \in Requests /\ next.at = "settling" /\ next.payment = request[r].payment
      BY <2>1 DEF Requests, Holding, Asking
  <2>3. request' = [request EXCEPT ![r] = next] /\ request'[r] = next
      BY <1>3, <2>1
  <2> HIDE DEF next
  <2>4. request[r].at \in Asking /\ RequestSound(r)
      BY DEF Verify, At, Asking, Invariant
  <2>5. RequestSound(r)'
      BY <1>1, <2>2, <2>3, <2>4 DEF RequestSound, At, Tables, Verify, Holding, Asking, Recorded, Deployed
  <2>6. /\ request' \in [Request -> Requests]
        /\ (\A s \in Request : RequestSound(s))' /\ PaymentsApart'
      BY <1>1, <2>2, <2>3, <2>4, <2>5, TablesStay, OneMoves DEF Tables
  <2>7. Typed'
      BY <1>1, <2>6, TablesStay DEF Typed, Invariant, Tables
  <2> QED
      BY <1>1, <2>6, <2>7, TablesStay DEF Invariant
<1> QED
    BY <1>2, <1>3 DEF Verify

LEMMA StartPreserves ==
    ASSUME Invariant, NEW r \in Request, StartSettlement(r)
    PROVE  Invariant'
<1> DEFINE t == scene[r]
           p == request[r].payment
<1>1. /\ t \in Trade /\ At(r, "settling") /\ p \in Payment
      /\ payment[p].state = "signed" /\ payment[p].trade = t /\ preview[t] # None
      /\ UNCHANGED <<preview, operation, legs, vault, relayed, scene, today>>
    BY DEF Invariant, Typed, RequestSound, At, Holding, Asking, StartSettlement, chainVars
<1>2. /\ request' = [request EXCEPT ![r] = request'[r]] /\ request'[r] \in Requests
      /\ request'[r].at = "settle" /\ request'[r].payment = p
    BY GotoValue DEF StartSettlement, Invariant, Places, Holding
<1>3. /\ payment' \in [Payment -> [trade : Trade \union {None},
                                   state : {"new", "signed", "asked", "mined", "refused"}]]
      /\ payment'[p].state = "asked" /\ payment'[p].trade = t
      /\ \A other \in Payment \ {p} : payment'[other] = payment[other]
    BY <1>1 DEF StartSettlement, Invariant, Typed
<1>4. settlement' = [settlement EXCEPT ![t] = [state |-> "settling", payment |-> settlement[t].payment]]
    BY DEF StartSettlement, Settlement
<1>5. /\ settlement' \in [Trade -> [state : {"none", "settling", "pending", "settled", "failed"},
                                    payment : Payment \union {None}]]
      /\ \A u \in Trade : settlement'[u].payment = settlement[u].payment
      /\ \A u \in Trade : settlement'[u].state \in {"settled", "failed"} =>
                             settlement[u].state \in {"settled", "failed"}
    BY <1>1, <1>4 DEF Invariant, Typed, TypeOK
<1>6. TablesKept
    BY <1>1 DEF TablesKept
<1>7. RequestSound(r)'
    BY <1>1, <1>2, <1>3 DEF RequestSound, At, Holding, Asking, Recorded, Deployed
<1>8. \A s \in Request \ {r} : request[s].at \in Holding => request[s].payment \in Payment \ {p}
  <2> SUFFICES ASSUME NEW s \in Request \ {r}, request[s].at \in Holding, request[s].payment = p
               PROVE  FALSE
      BY DEF Invariant, RequestSound
  <2>1. request[s].at \notin Asking
      BY <1>1 DEF Invariant, PaymentsApart, At, Asking
  <2>2. payment[p].state # "signed"
      BY <2>1 DEF Invariant, RequestSound, At, Holding
  <2> QED
      BY <1>1, <2>2
<1>9. /\ request' \in [Request -> Requests]
      /\ (\A s \in Request : RequestSound(s))' /\ PaymentsApart'
  <2>1. request'[r].at \notin Asking
      BY <1>2 DEF Asking
  <2> QED
      BY <1>1, <1>2, <1>3, <1>6, <1>7, <1>8, <2>1, OneMoves
<1>10. Typed'
    BY <1>1, <1>3, <1>5, <1>9 DEF Invariant, Typed, TypeOK
<1>11. MinedStay
    BY <1>1, <1>3 DEF MinedStay
<1>12. RecordedPaymentIsReal'
  <2> SUFFICES ASSUME NEW u \in Trade
               PROVE  LET Real(q) == payment'[q].trade = u /\ payment'[q].state = "mined" IN
                      /\ operation'[u] # None => Real(operation'[u].payment)
                      /\ settlement'[u].payment # None => Real(settlement'[u].payment)
                      /\ settlement'[u].state \in {"settled", "failed"} => settlement'[u].payment # None
      BY DEF RecordedPaymentIsReal
  <2> HIDE DEF p, t
  <2> QED
      BY <1>1, <1>5, <1>11, OnRecord DEF MinedStay, Invariant, RecordedPaymentIsReal
<1>13. LegsHaveVault'
    BY <1>1, <1>11 DEF Invariant, LegsHaveVault, MinedStay
<1> QED
    BY <1>9, <1>10, <1>12, <1>13 DEF Invariant

\* A request ends and leaves a settlement as pending.
LEMMA PendingPreserves ==
    ASSUME Invariant, NEW r \in Request, End(r), Settlement(scene[r], "pending", None),
           UNCHANGED <<preview, operation, legs, vault, payment, scene, today, relayed>>
    PROVE  Invariant'
<1> DEFINE t == scene[r]
<1>1. /\ request' = [request EXCEPT ![r] = request'[r]] /\ request'[r] \in Requests
      /\ RequestSound(r)' /\ request'[r].at = "idle"
    BY EndValue DEF Invariant
<1>2. t \in Trade
    BY DEF Invariant, Typed
<1>3. settlement' = [settlement EXCEPT ![t] = [state |-> "pending", payment |-> settlement[t].payment]]
    BY DEF Settlement
<1>4. /\ settlement' \in [Trade -> [state : {"none", "settling", "pending", "settled", "failed"},
                                    payment : Payment \union {None}]]
      /\ \A u \in Trade : settlement'[u].payment = settlement[u].payment
      /\ \A u \in Trade : settlement'[u].state \in {"settled", "failed"} =>
                             settlement[u].state \in {"settled", "failed"}
    BY <1>2, <1>3 DEF Invariant, Typed, TypeOK
<1>5. TablesKept
    BY DEF TablesKept
<1>6. /\ request' \in [Request -> Requests]
      /\ (\A s \in Request : RequestSound(s))' /\ PaymentsApart'
    BY <1>1, <1>5, OneMoves DEF Asking
<1>7. Typed'
    BY <1>4, <1>6 DEF Invariant, Typed, TypeOK
<1>8. RecordedPaymentIsReal' /\ LegsHaveVault'
    BY <1>4 DEF Invariant, RecordedPaymentIsReal, LegsHaveVault
<1> QED
    BY <1>6, <1>7, <1>8 DEF Invariant

LEMMA AnswerPreserves ==
    ASSUME Invariant, NEW r \in Request, SettleAnswer(r)
    PROVE  Invariant'
<1>1. /\ UNCHANGED <<preview, operation, legs, vault, payment, scene, today, relayed>>
      /\ relayed' \subseteq Transactions /\ RequestSound(r)
    BY DEF SettleAnswer, chainVars, Invariant, Typed
<1>2. CASE UNCHANGED settlement /\ End(r)
    BY <1>1, <1>2, EndPreserves DEF Tables
<1>3. CASE UNCHANGED settlement /\ Goto(r, "after") /\ payment[request[r].payment].state = "mined"
    BY <1>1, <1>3, GotoPreserves
       DEF SettleAnswer, At, Tables, Places, Recorded, Deployed, Holding, Asking
<1>4. CASE Settlement(scene[r], "pending", None) /\ End(r)
    BY <1>1, <1>4, PendingPreserves
<1> QED
    BY <1>2, <1>3, <1>4 DEF SettleAnswer

\* The transaction that a settlement names is the one that this request paid.
LEMMA RecordPreserves ==
    ASSUME Invariant, NEW r \in Request, RecordSettlement(r)
    PROVE  Invariant'
<1> DEFINE t == scene[r]
           p == request[r].payment
<1>1. /\ t \in Trade /\ p \in Payment /\ p # None
      /\ payment[p].trade = t /\ payment[p].state = "mined" /\ preview[t] # None
      /\ UNCHANGED <<preview, operation, legs, vault, payment, scene, today, relayed>>
    BY SubmissionAssumption
       DEF Invariant, Typed, RequestSound, At, Holding, RecordSettlement, chainVars, SubmissionAssumption
<1>2. /\ request' = [request EXCEPT ![r] = request'[r]] /\ request'[r] \in Requests
      /\ \/ request'[r].at = "insert" /\ request'[r].payment = p
         \/ request'[r].at = "idle"
  <2>1. Goto(r, "insert") \/ End(r)
      BY DEF RecordSettlement
  <2> QED
      BY <2>1, GotoValue, EndValue DEF Invariant, Places, Holding
<1>3. PICK verdict \in {"settled", "failed"} :
          settlement' = [settlement EXCEPT ![t] = [state |-> verdict, payment |-> p]]
    BY <1>1 DEF RecordSettlement, Settlement
<1> HIDE DEF t, p
<1>4. /\ settlement' \in [Trade -> [state : {"none", "settling", "pending", "settled", "failed"},
                                    payment : Payment \union {None}]]
      /\ settlement'[t].payment = p
      /\ \A u \in Trade \ {t} : settlement'[u] = settlement[u]
    BY <1>1, <1>3 DEF Invariant, Typed, TypeOK
<1>5. TablesKept
    BY <1>1 DEF TablesKept
<1>6. RequestSound(r)'
    BY <1>1, <1>2 DEF RequestSound, At, Holding, Asking, Recorded, Deployed, t
<1>7. /\ request' \in [Request -> Requests]
      /\ (\A s \in Request : RequestSound(s))' /\ PaymentsApart'
    BY <1>1, <1>2, <1>5, <1>6, OneMoves DEF Asking
<1>8. Typed'
    BY <1>1, <1>4, <1>7 DEF Invariant, Typed, TypeOK
<1>9. RecordedPaymentIsReal' /\ LegsHaveVault'
    BY <1>1, <1>4 DEF Invariant, RecordedPaymentIsReal, LegsHaveVault
<1> QED
    BY <1>7, <1>8, <1>9 DEF Invariant

\* What a table of records holds, and keeps for all but one trade, after one
\* row is written.
LEMMA OperationWritten ==
    ASSUME Invariant, NEW t \in Trade, NEW row \in Operations,
           operation' = [operation EXCEPT ![t] = row]
    PROVE  /\ operation' \in [Trade -> Operations \union {None}]
           /\ operation'[t] = row /\ row # None
           /\ \A u \in Trade \ {t} : operation'[u] = operation[u]
           /\ \A u \in Trade : operation[u] # None => operation'[u] # None
    BY SubmissionAssumption DEF Invariant, Typed, TypeOK, SubmissionAssumption

LEMMA InsertPreserves ==
    ASSUME Invariant, NEW r \in Request, InsertOperation(r)
    PROVE  Invariant'
<1> DEFINE t == scene[r]
           p == request[r].payment
           row == [state |-> "fundedActivationPending", payment |-> p,
                   lifecycle |-> IF operation[t] = None THEN None ELSE operation[t].lifecycle]
<1>1. /\ t \in Trade /\ p \in Payment
      /\ payment[p].trade = t /\ payment[p].state = "mined" /\ preview[t] # None
      /\ UNCHANGED <<settlement, legs, vault, payment, scene, today, relayed>>
    BY DEF Invariant, Typed, RequestSound, At, Holding, InsertOperation, chainVars
<1>2. /\ request' = [request EXCEPT ![r] = request'[r]] /\ request'[r] \in Requests
      /\ request'[r].at = "activate"
    BY GotoValue DEF InsertOperation, Invariant, Places, Recorded
<1>3. row \in Operations
    BY <1>1, OnRecord DEF Operations
<1>4. /\ operation' = [operation EXCEPT ![t] = row]
      /\ row.payment = p
      /\ row.lifecycle # None => operation[t] # None /\ operation[t].lifecycle # None
    BY DEF InsertOperation
<1>5. preview' = [preview EXCEPT ![t] = [preview[t] EXCEPT !.state = "submitted"]]
    BY DEF InsertOperation
<1>6. PICK shown \in Previews : shown = [preview[t] EXCEPT !.state = "submitted"]
  <2>1. preview[t] \in Previews
      BY <1>1 DEF Invariant, Typed, TypeOK
  <2> HIDE DEF t
  <2> QED
      BY <2>1 DEF Previews
<1>7. /\ preview' \in [Trade -> Previews \union {None}]
      /\ \A u \in Trade : preview[u] # None => preview'[u] # None
  <2>1. preview' = [preview EXCEPT ![t] = shown]
      BY <1>5, <1>6
  <2>2. preview \in [Trade -> Previews \union {None}] /\ shown # None
      BY <1>6, SubmissionAssumption DEF Invariant, Typed, TypeOK, SubmissionAssumption
  <2> QED
      BY <1>1, <2>1, <2>2
<1> HIDE DEF row, t, p
<1>8. /\ operation' \in [Trade -> Operations \union {None}]
      /\ operation'[t] = row /\ row # None
      /\ \A u \in Trade \ {t} : operation'[u] = operation[u]
      /\ \A u \in Trade : operation[u] # None => operation'[u] # None
    BY <1>1, <1>3, <1>4, OperationWritten
<1>9. TablesKept
    BY <1>1, <1>7, <1>8 DEF TablesKept
<1>10. RequestSound(r)'
    BY <1>1, <1>2, <1>7, <1>8 DEF t, RequestSound, At, Holding, Asking, Recorded, Deployed
<1>11. /\ request' \in [Request -> Requests]
       /\ (\A s \in Request : RequestSound(s))' /\ PaymentsApart'
    BY <1>1, <1>2, <1>9, <1>10, OneMoves DEF Asking
<1>12. Typed'
    BY <1>1, <1>7, <1>8, <1>11 DEF Invariant, Typed, TypeOK
<1>13. RecordedPaymentIsReal'
    BY <1>1, <1>4, <1>8 DEF Invariant, RecordedPaymentIsReal
<1>14. LegsHaveVault'
    BY <1>1, <1>4, <1>8 DEF Invariant, LegsHaveVault
<1> QED
    BY <1>11, <1>12, <1>13, <1>14 DEF Invariant

-----------------------------------------------------------------------------
(* activateFunded.                                                          *)

LEMMA FindPreserves ==
    ASSUME Invariant, NEW r \in Request, FindCode(r)
    PROVE  Invariant'
<1>1. UNCHANGED Tables /\ operation[scene[r]] # None
    BY DEF FindCode, Tables, apiVars, Invariant, RequestSound, At, Recorded
<1>2. relayed' \subseteq Transactions
    BY DEF FindCode, Invariant, Typed, Transactions
<1>3. PICK place \in {"balance", "deploying", "caught"} :
          Goto(r, place) /\ (place = "balance" => vault[scene[r]].deployer # None)
    BY DEF FindCode
<1> QED
    BY <1>1, <1>2, <1>3, GotoPreserves DEF FindCode, At, Places, Holding, Asking, Recorded, Deployed

LEMMA AwaitPreserves ==
    ASSUME Invariant, NEW r \in Request, AwaitDeployment(r)
    PROVE  Invariant'
<1>1. UNCHANGED Tables /\ relayed' \subseteq Transactions /\ operation[scene[r]] # None
    BY DEF AwaitDeployment, Tables, apiVars, chainVars, Invariant, Typed, RequestSound, At, Recorded
<1>2. CASE End(r)
    BY <1>1, <1>2, EndPreserves
<1>3. CASE ~End(r)
  <2>1. PICK place \in {"balance", "caught"} : Goto(r, place) /\ vault[scene[r]].deployer # None
      BY <1>3 DEF AwaitDeployment
  <2> QED
      BY <1>1, <2>1, GotoPreserves
         DEF AwaitDeployment, At, Places, Holding, Asking, Recorded, Deployed
<1> QED
    BY <1>2, <1>3

LEMMA FundsPreserves ==
    ASSUME Invariant, NEW r \in Request, CheckFunds(r)
    PROVE  Invariant'
<1>1. /\ UNCHANGED Tables /\ relayed' \subseteq Transactions
      /\ operation[scene[r]] # None /\ vault[scene[r]].deployer # None
    BY DEF CheckFunds, Tables, apiVars, chainVars, Invariant, Typed, RequestSound, At, Recorded, Deployed
<1>2. PICK place \in {"caught", "legs", "relay"} : Goto(r, place)
    BY DEF CheckFunds
<1> QED
    BY <1>1, <1>2, GotoPreserves DEF CheckFunds, At, Places, Holding, Asking, Recorded, Deployed

LEMMA RelayPreserves ==
    ASSUME Invariant, NEW r \in Request, RelayActivation(r)
    PROVE  Invariant'
<1>1. /\ UNCHANGED Tables /\ scene[r] \in Trade
      /\ operation[scene[r]] # None /\ vault[scene[r]].deployer # None
    BY DEF RelayActivation, Tables, apiVars, Invariant, Typed, RequestSound, At, Recorded, Deployed
<1>2. relayed' \subseteq Transactions
    BY <1>1 DEF RelayActivation, Invariant, Typed, Transactions
<1>3. PICK place \in {"commit", "caught"} : Goto(r, place)
    BY DEF RelayActivation
<1> QED
    BY <1>1, <1>2, <1>3, GotoPreserves
       DEF RelayActivation, At, Places, Holding, Asking, Recorded, Deployed

LEMMA CrashPreserves ==
    ASSUME Invariant, NEW r \in Request, Crash(r)
    PROVE  Invariant'
    BY EndPreserves DEF Crash, Tables, apiVars, chainVars, Invariant, Typed

LEMMA FailurePreserves ==
    ASSUME Invariant, NEW r \in Request, StatementFails(r)
    PROVE  Invariant'
<1>1. /\ UNCHANGED Tables /\ relayed' \subseteq Transactions /\ operation[scene[r]] # None
    BY DEF StatementFails, Tables, apiVars, chainVars, Invariant, Typed, RequestSound, At, Recorded, Deployed
<1> QED
    BY <1>1, GotoPreserves DEF StatementFails, At, Places, Holding, Asking, Recorded, Deployed

\* A leg is inserted, or a state or an activation recorded, only for a vault
\* that was deployed and paid for.
LEMMA DeployedIsPaid ==
    ASSUME Invariant, NEW r \in Request, request[r].at \in Deployed
    PROVE  /\ scene[r] \in Trade /\ operation[scene[r]] # None
           /\ vault[scene[r]].deployer # None
           /\ \E p \in Payment : payment[p].trade = scene[r] /\ payment[p].state = "mined"
<1>1. /\ scene[r] \in Trade /\ operation[scene[r]] # None /\ vault[scene[r]].deployer # None
    BY DEF Invariant, Typed, RequestSound, Recorded
<1> QED
    BY <1>1, OnRecord

LEMMA LegPreserves ==
    ASSUME Invariant, NEW r \in Request, InsertLeg(r)
    PROVE  Invariant'
<1> DEFINE t == scene[r]
           place == IF request[r].leg + 1 = preview[t].legs THEN "commit" ELSE "legs"
           next == [[request[r] EXCEPT !.leg = @ + 1] EXCEPT !.at = place]
<1>1. /\ UNCHANGED <<preview, operation, settlement, vault, payment, scene, today, relayed>>
      /\ request[r].at = "legs" /\ request \in [Request -> Requests]
    BY DEF InsertLeg, At, chainVars, Invariant, Typed
<1>2. /\ t \in Trade /\ operation[t] # None /\ vault[t].deployer # None
      /\ \E p \in Payment : payment[p].trade = t /\ payment[p].state = "mined"
    BY <1>1, DeployedIsPaid DEF Deployed
<1>3. preview[t] # None
    BY <1>1 DEF Invariant, RequestSound, At
<1>4. /\ next \in Requests /\ next.at \in {"legs", "commit"}
  <2>1. request[r] \in Requests /\ place \in {"legs", "commit"}
      BY <1>1
  <2>2. PICK grown \in Requests : grown = [request[r] EXCEPT !.leg = @ + 1]
    <3>1. request[r].leg \in Nat /\ request[r].leg + 1 \in Nat
        BY <2>1 DEF Requests
    <3> QED
        BY <2>1, <3>1 DEF Requests
  <2>3. next = [grown EXCEPT !.at = place]
      BY <2>2
  <2> HIDE DEF place, next
  <2> QED
      BY <2>1, <2>2, <2>3 DEF Requests, Recorded, Deployed
<1>5. request' = [request EXCEPT ![r] = next] /\ request'[r] = next
  <2>1. request' = [request EXCEPT ![r] = next]
      BY <1>1 DEF InsertLeg
  <2> QED
      BY <1>1, <2>1
<1>6. legs' \in [Trade -> Nat] /\ \A u \in Trade \ {t} : legs'[u] = legs[u]
  <2>1. legs \in [Trade -> Nat]
      BY DEF Invariant, Typed, TypeOK
  <2>2. legs' = [legs EXCEPT ![t] = legs'[t]] /\ legs'[t] \in {legs[t], legs[t] + 1}
      BY <1>2, <2>1 DEF InsertLeg
  <2> QED
      BY <1>2, <2>1, <2>2
<1> HIDE DEF next, t
<1>7. TablesKept
    BY <1>1 DEF TablesKept
<1>8. RequestSound(r)'
    BY <1>1, <1>2, <1>3, <1>4, <1>5 DEF t, RequestSound, At, Holding, Asking, Recorded, Deployed
<1>9. /\ request' \in [Request -> Requests]
      /\ (\A s \in Request : RequestSound(s))' /\ PaymentsApart'
    BY <1>1, <1>4, <1>5, <1>7, <1>8, OneMoves DEF Asking
<1>10. Typed'
    BY <1>1, <1>6, <1>9 DEF Invariant, Typed, TypeOK
<1>11. RecordedPaymentIsReal'
    BY <1>1 DEF Invariant, RecordedPaymentIsReal
<1>12. LegsHaveVault'
    BY <1>1, <1>2, <1>6 DEF Invariant, LegsHaveVault
<1> QED
    BY <1>9, <1>10, <1>11, <1>12 DEF Invariant

\* An operation's state is changed, its payment stays, and its lifecycle stays
\* or is recorded for a vault that is deployed and paid for; the request ends.
LEMMA StatePreserves ==
    ASSUME Invariant, NEW r \in Request, End(r), NEW row \in Operations,
           operation[scene[r]] # None, operation' = [operation EXCEPT ![scene[r]] = row],
           row.payment = operation[scene[r]].payment,
           \/ row.lifecycle = operation[scene[r]].lifecycle
           \/ request[r].at \in Deployed,
           UNCHANGED <<preview, settlement, legs, vault, payment, scene, today, relayed>>
    PROVE  Invariant'
<1> DEFINE t == scene[r]
<1>1. /\ request' = [request EXCEPT ![r] = request'[r]] /\ request'[r] \in Requests
      /\ RequestSound(r)' /\ request'[r].at = "idle"
    BY EndValue DEF Invariant
<1>2. t \in Trade
    BY DEF Invariant, Typed
<1>3. /\ operation' \in [Trade -> Operations \union {None}]
      /\ operation'[t] = row /\ row # None
      /\ \A u \in Trade \ {t} : operation'[u] = operation[u]
      /\ \A u \in Trade : operation[u] # None => operation'[u] # None
    BY <1>2, OperationWritten
<1>4. TablesKept
    BY <1>3 DEF TablesKept
<1>5. /\ request' \in [Request -> Requests]
      /\ (\A s \in Request : RequestSound(s))' /\ PaymentsApart'
    BY <1>1, <1>4, OneMoves DEF Asking
<1>6. Typed'
    BY <1>3, <1>5 DEF Invariant, Typed, TypeOK
<1>7. RecordedPaymentIsReal'
    BY <1>2, <1>3 DEF Invariant, RecordedPaymentIsReal
<1>8. LegsHaveVault'
    BY <1>2, <1>3, DeployedIsPaid DEF Invariant, LegsHaveVault
<1> QED
    BY <1>5, <1>6, <1>7, <1>8 DEF Invariant

LEMMA CommitPreserves ==
    ASSUME Invariant, NEW r \in Request, Commit(r)
    PROVE  Invariant'
<1> DEFINE t == scene[r]
<1>1. /\ request[r].at \in Deployed /\ End(r)
      /\ UNCHANGED <<preview, settlement, legs, vault, payment, scene, today, relayed>>
    BY DEF Commit, At, Deployed, chainVars
<1>2. operation[t] # None /\ operation[t] \in Operations
    BY <1>1, DeployedIsPaid, OnRecord
<1>3. PICK row \in {[operation[t] EXCEPT !.state = "armed"], operation[t],
                    [[operation[t] EXCEPT !.state = "broadcast"] EXCEPT !.lifecycle = r]} :
          operation' = [operation EXCEPT ![t] = row]
    BY DEF Commit
<1>4. row \in Operations /\ row.payment = operation[t].payment
    BY <1>2, <1>3 DEF Operations
<1> QED
    BY <1>1, <1>2, <1>3, <1>4, StatePreserves

LEMMA CaughtPreserves ==
    ASSUME Invariant, NEW r \in Request, Caught(r)
    PROVE  Invariant'
<1> DEFINE t == scene[r]
           row == [operation[t] EXCEPT !.state = "fundedActivationPending"]
<1>1. /\ End(r) /\ t \in Trade /\ operation[t] # None
      /\ UNCHANGED <<preview, settlement, legs, vault, payment, scene, today, relayed>>
    BY DEF Caught, At, Recorded, chainVars, Invariant, Typed, RequestSound
<1>2. operation' = [operation EXCEPT ![t] = row]
    BY DEF Caught
<1>3. /\ row \in Operations /\ row.payment = operation[t].payment
      /\ row.lifecycle = operation[t].lifecycle
    BY <1>1, OnRecord DEF Operations
<1> QED
    BY <1>1, <1>2, <1>3, StatePreserves

-----------------------------------------------------------------------------
(* The steps of no request: previews, mandates, cancellations, the          *)
(* facilitator and the chain.                                               *)

\* Only previews, the chain and the day move, and lose nothing.
LEMMA QuietPreserves ==
    ASSUME Invariant, UNCHANGED <<operation, settlement, legs, request, payment, scene>>, TablesKept,
           preview' \in [Trade -> Previews \union {None}],
           vault' \in [Trade -> [balance : Nat, deployer : Request \union {None}, executed : BOOLEAN]],
           relayed' \subseteq Transactions, today' \in Nat
    PROVE  Invariant'
<1>1. /\ request' \in [Request -> Requests]
      /\ (\A s \in Request : RequestSound(s))' /\ PaymentsApart'
    BY NoneMoves
<1>2. Typed'
    BY <1>1 DEF Invariant, Typed, TypeOK
<1>3. RecordedPaymentIsReal' /\ LegsHaveVault'
    BY RecordsStayReal DEF MinedStay
<1> QED
    BY <1>1, <1>2, <1>3 DEF Invariant

LEMMA PreviewPreserves ==
    ASSUME Invariant, NEW t \in Trade, NEW wish \in Wishes, CreatePreview(t, wish)
    PROVE  Invariant'
<1>1. /\ UNCHANGED <<operation, settlement, legs, request, payment, scene, vault, relayed, today>>
      /\ preview[t] = None /\ Kind(wish) # None /\ today \in Nat /\ ArmedDays \in Nat
    BY SubmissionAssumption
       DEF CreatePreview, chainVars, Invariant, Typed, SubmissionAssumption
<1>2. Kind(wish) \in {"resting", "market", "armed"}
    BY <1>1 DEF Kind
<1>3. Len(Roles(wish)) \in Nat
    BY DEF Roles
<1> DEFINE row == [state |-> IF Safe(wish) THEN "ready" ELSE "unsafe", kind |-> Kind(wish),
                   legs |-> Len(Roles(wish)), deadline |-> today + ArmedDays, expired |-> FALSE]
<1>4. row \in Previews
    BY <1>1, <1>2, <1>3 DEF Previews
<1>5. preview' = [preview EXCEPT ![t] = row]
    BY DEF CreatePreview
<1>6. preview \in [Trade -> Previews \union {None}]
    BY DEF Invariant, Typed, TypeOK
<1> HIDE DEF row
<1>7. preview' \in [Trade -> Previews \union {None}]
    BY <1>4, <1>5, <1>6
<1>8. TablesKept
    BY <1>1, <1>5, <1>6 DEF TablesKept
<1>9. vault' \in [Trade -> [balance : Nat, deployer : Request \union {None}, executed : BOOLEAN]]
      /\ relayed' \subseteq Transactions
    BY <1>1 DEF Invariant, Typed, TypeOK
<1> QED
    BY <1>1, <1>7, <1>8, <1>9, QuietPreserves

LEMMA DelegationPreserves ==
    ASSUME Invariant, NEW d \in Delegations, SubmitDelegation(d)
    PROVE  Invariant'
<1>1. relayed' \subseteq Transactions
    BY DEF SubmitDelegation, Invariant, Typed, Transactions
<1>2. UNCHANGED Tables /\ UNCHANGED request
    BY DEF SubmitDelegation, Tables
<1> QED
    BY <1>1, <1>2, TablesStay, QuietPreserves DEF Tables, Typed, TypeOK, Invariant

LEMMA OfferPreserves ==
    ASSUME Invariant, NEW t \in Trade, CreateCancellation(t)
    PROVE  Invariant'
<1>1. UNCHANGED Tables /\ UNCHANGED <<request, relayed>>
    BY DEF CreateCancellation, Tables, chainVars
<1> QED
    BY <1>1, TablesStay, QuietPreserves DEF Tables, Typed, TypeOK, Invariant

\* A cancellation keeps the payment and the activation on record; what it
\* forgets are the triggers.
LEMMA CancellationPreserves ==
    ASSUME Invariant, OfferedOnRecord, NEW t \in Trade, SubmitCancellation(t)
    PROVE  Invariant'
<1> DEFINE row == [operation[t] EXCEPT !.state = "cancelled"]
<1>1. UNCHANGED <<preview, settlement, vault, request, payment, today, scene>>
    BY DEF SubmitCancellation
<1>2. operation \in [Trade -> Operations \union {None}] /\ legs \in [Trade -> Nat]
    BY DEF Invariant, Typed, TypeOK
<1>3. operation' = [operation EXCEPT ![t] = row] /\ legs' = [legs EXCEPT ![t] = 0]
    BY DEF SubmitCancellation
<1>4. relayed' \subseteq Transactions
    BY DEF SubmitCancellation, Invariant, Typed, Transactions
<1>5. operation[t] # None
    BY DEF SubmitCancellation, OfferedOnRecord
<1>6. /\ row \in Operations /\ row.payment = operation[t].payment
      /\ row.lifecycle = operation[t].lifecycle
    BY <1>2, <1>5 DEF Operations
<1> HIDE DEF row
<1>7. /\ operation' \in [Trade -> Operations \union {None}]
      /\ operation'[t] = row /\ row # None
      /\ \A u \in Trade \ {t} : operation'[u] = operation[u]
      /\ \A u \in Trade : operation[u] # None => operation'[u] # None
    BY <1>3, <1>6, OperationWritten
<1>8. TablesKept
    BY <1>1, <1>7 DEF TablesKept
<1>9. /\ request' \in [Request -> Requests]
      /\ (\A s \in Request : RequestSound(s))' /\ PaymentsApart'
    BY <1>1, <1>8, NoneMoves
<1>10. Typed'
    BY <1>1, <1>2, <1>3, <1>4, <1>7, <1>9 DEF Invariant, Typed, TypeOK
<1>11. RecordedPaymentIsReal'
    BY <1>1, <1>5, <1>6, <1>7 DEF Invariant, RecordedPaymentIsReal
<1>12. LegsHaveVault'
    BY <1>1, <1>2, <1>3, <1>5, <1>6, <1>7 DEF Invariant, LegsHaveVault
<1> QED
    BY <1>9, <1>10, <1>11, <1>12 DEF Invariant

\* The facilitator decides of a payload that was asked for; whoever asked is
\* waiting for the answer, or has given up.
LEMMA SettlePreserves ==
    ASSUME Invariant, NEW p \in Payment, Settle(p)
    PROVE  Invariant'
<1>1. /\ UNCHANGED <<preview, operation, settlement, legs, relayed, request, today, scene>>
      /\ payment[p].state = "asked"
    BY DEF Settle, apiVars
<1>2. PICK verdict \in {"mined", "refused"} : payment' = [payment EXCEPT ![p].state = verdict]
    BY DEF Settle
<1>3. /\ payment' \in [Payment -> [trade : Trade \union {None},
                                   state : {"new", "signed", "asked", "mined", "refused"}]]
      /\ payment'[p].trade = payment[p].trade /\ payment'[p].state = verdict
      /\ \A other \in Payment \ {p} : payment'[other] = payment[other]
    BY <1>2 DEF Invariant, Typed
<1>4. /\ vault' \in [Trade -> [balance : Nat, deployer : Request \union {None}, executed : BOOLEAN]]
      /\ \A t \in Trade : vault'[t].deployer = vault[t].deployer
  <2> DEFINE paid == payment[p].trade
  <2>1. vault \in [Trade -> [balance : Nat, deployer : Request \union {None}, executed : BOOLEAN]]
      BY DEF Invariant, Typed, TypeOK
  <2>2. CASE UNCHANGED vault
      BY <2>1, <2>2
  <2>3. CASE vault' = Funded(paid) /\ paid \in Trade
    <3>1. Amount[paid] \in Nat
        BY <2>3, SubmissionAssumption DEF SubmissionAssumption
    <3> QED
        BY <2>1, <2>3, <3>1 DEF Funded
  <2>4. CASE vault' = Funded(paid) /\ paid \notin Trade
      BY <2>1, <2>4 DEF Funded
  <2> QED
      BY <2>2, <2>3, <2>4 DEF Settle
<1>5. TablesKept
    BY <1>1, <1>4 DEF TablesKept
<1>6. ASSUME NEW s \in Request PROVE RequestSound(s)'
  <2>1. RequestSound(s)
      BY DEF Invariant
  <2>2. CASE request[s].at \in Holding /\ request[s].payment = p
    <3>1. At(s, "settle")
        BY <1>1, <2>1, <2>2 DEF RequestSound, At, Holding
    <3> QED
        BY <1>1, <1>3, <1>5, <2>1, <2>2, <3>1, PlacesApart
           DEF RequestSound, At, Asking, Recorded, Deployed
  <2>3. CASE ~(request[s].at \in Holding /\ request[s].payment = p)
    <3>1. request[s].at \in Holding => request[s].payment \in Payment \ {p}
        BY <2>1, <2>3 DEF RequestSound
    <3> QED
        BY <1>1, <1>3, <1>5, <3>1, StaysSound
  <2> QED
      BY <2>2, <2>3
<1>7. PaymentsApart'
    BY <1>1 DEF Invariant, PaymentsApart
<1>8. Typed'
    BY <1>1, <1>3, <1>4 DEF Invariant, Typed, TypeOK
<1>9. MinedStay
    BY <1>1, <1>3 DEF MinedStay
<1>10. RecordedPaymentIsReal' /\ LegsHaveVault'
    BY <1>1, <1>5, <1>9, RecordsStayReal
<1> QED
    BY <1>6, <1>7, <1>8, <1>10 DEF Invariant

LEMMA MinePreserves ==
    ASSUME Invariant, NEW tx \in relayed, Mine(tx)
    PROVE  Invariant'
<1>1. /\ UNCHANGED <<preview, operation, settlement, legs, request, payment, today, scene>>
      /\ today \in Nat /\ preview \in [Trade -> Previews \union {None}]
    BY DEF Mine, apiVars, Invariant, Typed, TypeOK
<1>2. relayed' \subseteq Transactions /\ tx \in Transactions
    BY DEF Mine, Invariant, Typed
<1> DEFINE Vaults == [Trade -> [balance : Nat, deployer : Request \union {None}, executed : BOOLEAN]]
<1>3. vault \in Vaults /\ scene \in [Request -> Trade] /\ Amount \in [Trade -> Nat]
      /\ None \notin Request
    BY SubmissionAssumption DEF Invariant, Typed, TypeOK, SubmissionAssumption
<1>4. vault' \in Vaults /\ \A t \in Trade : vault[t].deployer # None => vault'[t].deployer # None
  <2>1. CASE tx[1] = "deploy"
    <3>1. tx[2] \in Request
        BY <1>2, <2>1 DEF Transactions
    <3>2. vault' = [vault EXCEPT ![scene[tx[2]]].deployer = tx[2]]
        BY <2>1 DEF Mine
    <3> QED
        BY <1>3, <3>1, <3>2
  <2>2. CASE tx[1] = "activate" /\ Executable(tx[2])
    <3>1. tx[2] \in Trade
        BY <1>2, <2>2 DEF Transactions
    <3>2. /\ vault[tx[2]].balance \in Nat /\ Amount[tx[2]] \in Nat
          /\ vault[tx[2]].balance >= Amount[tx[2]]
        BY <1>3, <2>2, <3>1 DEF Executable
    <3> DEFINE rest == IF preview[tx[2]].kind = "market" THEN vault[tx[2]].balance - Amount[tx[2]]
                       ELSE vault[tx[2]].balance
    <3>3. rest \in Nat
        BY <3>2
    <3>4. vault' = [vault EXCEPT ![tx[2]].executed = TRUE, ![tx[2]].balance = rest]
        BY <2>2 DEF Mine
    <3> HIDE DEF rest
    <3>5. PICK spent : /\ vault' = [vault EXCEPT ![tx[2]] = spent]
                       /\ spent = [[vault[tx[2]] EXCEPT !.executed = TRUE] EXCEPT !.balance = rest]
        BY <1>3, <3>1, <3>4
    <3>6. /\ spent \in [balance : Nat, deployer : Request \union {None}, executed : BOOLEAN]
          /\ spent.deployer = vault[tx[2]].deployer
        BY <1>3, <3>1, <3>3, <3>5
    <3> QED
        BY <1>3, <3>1, <3>5, <3>6
  <2>3. CASE tx[1] = "cancel" /\ preview[tx[2]].kind = "armed"
    <3>1. tx[2] \in Trade
        BY <1>2, <2>3 DEF Transactions
    <3>2. vault' = [vault EXCEPT ![tx[2]].balance = 0]
        BY <2>3 DEF Mine
    <3> QED
        BY <1>3, <3>1, <3>2
  <2>4. CASE ~(tx[1] = "deploy") /\ ~(tx[1] = "activate" /\ Executable(tx[2]))
             /\ ~(tx[1] = "cancel" /\ preview[tx[2]].kind = "armed")
    <3>1. vault' = vault
        BY <2>4 DEF Mine
    <3> QED
        BY <1>3, <3>1
  <2> QED
      BY <2>1, <2>2, <2>3, <2>4
<1>5. TablesKept
    BY <1>1, <1>4 DEF TablesKept
<1> QED
    BY <1>1, <1>2, <1>4, <1>5, QuietPreserves

LEMMA NewDayPreserves ==
    ASSUME Invariant, NewDay
    PROVE  Invariant'
<1>1. /\ UNCHANGED <<operation, settlement, legs, request, payment, scene, vault, relayed>>
      /\ today' \in Nat
    BY DEF NewDay, chainVars, Invariant, Typed
<1>2. ASSUME NEW t \in Trade
      PROVE  /\ preview'[t] \in Previews \union {None}
             /\ preview[t] # None => preview'[t] # None
  <2>1. preview'[t] = IF preview[t] = None THEN None ELSE [preview[t] EXCEPT !.expired = TRUE]
      BY DEF NewDay
  <2>2. CASE preview[t] = None
      BY <2>1, <2>2
  <2>3. CASE preview[t] # None
    <3>1. preview[t] \in Previews
        BY <2>3 DEF Invariant, Typed, TypeOK
    <3>2. preview'[t] \in Previews
        BY <2>1, <2>3, <3>1 DEF Previews
    <3> QED
        BY <3>2, SubmissionAssumption DEF SubmissionAssumption
  <2> QED
      BY <2>2, <2>3
<1>3. preview' \in [Trade -> Previews \union {None}]
  <2>1. preview' = [t \in Trade |-> preview'[t]]
      BY DEF NewDay
  <2> QED
      BY <1>2, <2>1
<1>4. TablesKept
    BY <1>1, <1>2 DEF TablesKept
<1> QED
    BY <1>1, <1>3, <1>4, QuietPreserves DEF Invariant, Typed, TypeOK

-----------------------------------------------------------------------------
(* Operations stay on record, with the activation that was recorded.        *)

OperationsKept ==
    /\ \A t \in Trade : operation[t] # None => operation'[t] # None
    /\ LifecycleStays

LEMMA RowKeeps ==
    ASSUME Invariant, NEW t \in Trade, NEW row \in Operations,
           operation' = [operation EXCEPT ![t] = row],
           operation[t] # None /\ operation[t].lifecycle # None =>
               row.lifecycle = operation[t].lifecycle
    PROVE  OperationsKept
    BY OperationWritten DEF OperationsKept, LifecycleStays

\* The four statements that write an operation, and all the others.
LEMMA StepKeeps ==
    ASSUME Invariant, OfferedOnRecord, [Next]_vars
    PROVE  OperationsKept
<1>1. ASSUME NEW r \in Request, InsertOperation(r)
      PROVE  OperationsKept
  <2> DEFINE t == scene[r]
             p == request[r].payment
             row == [state |-> "fundedActivationPending", payment |-> p,
                     lifecycle |-> IF operation[t] = None THEN None ELSE operation[t].lifecycle]
  <2>1. t \in Trade /\ p \in Payment
      BY <1>1 DEF Invariant, Typed, RequestSound, At, Holding, InsertOperation
  <2>2. row \in Operations
      BY <2>1, OnRecord DEF Operations
  <2>3. operation' = [operation EXCEPT ![t] = row]
      BY <1>1 DEF InsertOperation
  <2> QED
      BY <2>1, <2>2, <2>3, RowKeeps
<1>2. ASSUME NEW r \in Request, Commit(r)
      PROVE  OperationsKept
  <2> DEFINE t == scene[r]
  <2>1. t \in Trade /\ operation[t] \in Operations
      BY <1>2, DeployedIsPaid, OnRecord DEF Commit, At, Deployed
  <2>2. CASE preview[t].kind = "armed"
    <3> DEFINE row == [operation[t] EXCEPT !.state = "armed"]
    <3>1. operation' = [operation EXCEPT ![t] = row]
        BY <1>2, <2>2 DEF Commit
    <3>2. row \in Operations /\ row.lifecycle = operation[t].lifecycle
        BY <2>1 DEF Operations
    <3> QED
        BY <2>1, <3>1, <3>2, RowKeeps
  <2>3. CASE preview[t].kind # "armed" /\ operation[t].lifecycle = None
    <3> DEFINE row == [[operation[t] EXCEPT !.state = "broadcast"] EXCEPT !.lifecycle = r]
    <3>1. operation' = [operation EXCEPT ![t] = row]
        BY <1>2, <2>3 DEF Commit
    <3>2. row \in Operations
        BY <2>1 DEF Operations
    <3> QED
        BY <2>1, <2>3, <3>1, <3>2, RowKeeps
  <2>4. CASE preview[t].kind # "armed" /\ operation[t].lifecycle # None
    <3>1. operation' = [operation EXCEPT ![t] = operation[t]]
        BY <1>2, <2>4 DEF Commit
    <3> QED
        BY <2>1, <3>1, RowKeeps
  <2> QED
      BY <2>2, <2>3, <2>4
<1>3. ASSUME NEW r \in Request, Caught(r)
      PROVE  OperationsKept
  <2> DEFINE t == scene[r]
             row == [operation[t] EXCEPT !.state = "fundedActivationPending"]
  <2>1. t \in Trade /\ operation[t] \in Operations
      BY <1>3, OnRecord DEF Caught, At, Recorded, Invariant, Typed, RequestSound
  <2>2. operation' = [operation EXCEPT ![t] = row]
      BY <1>3 DEF Caught
  <2>3. row \in Operations /\ row.lifecycle = operation[t].lifecycle
      BY <2>1 DEF Operations
  <2> QED
      BY <2>1, <2>2, <2>3, RowKeeps
<1>4. ASSUME NEW t \in Trade, SubmitCancellation(t)
      PROVE  OperationsKept
  <2> DEFINE row == [operation[t] EXCEPT !.state = "cancelled"]
  <2>1. operation[t] \in Operations
      BY <1>4, OnRecord DEF SubmitCancellation, OfferedOnRecord
  <2>2. operation' = [operation EXCEPT ![t] = row]
      BY <1>4 DEF SubmitCancellation
  <2>3. row \in Operations /\ row.lifecycle = operation[t].lifecycle
      BY <2>1 DEF Operations
  <2> QED
      BY <2>1, <2>2, <2>3, RowKeeps
<1>5. UNCHANGED operation => OperationsKept
    BY DEF OperationsKept, LifecycleStays
<1>6. CASE UNCHANGED vars
    BY <1>5, <1>6 DEF vars, apiVars
<1>7. CASE Next
  <2>1. ASSUME NEW r \in Request,
               CheckDelegation(r) \/ Verify(r) \/ StartSettlement(r) \/ SettleAnswer(r)
                 \/ RecordSettlement(r) \/ FindCode(r) \/ AwaitDeployment(r) \/ CheckFunds(r)
                 \/ InsertLeg(r) \/ RelayActivation(r) \/ StatementFails(r) \/ Crash(r)
        PROVE  OperationsKept
      BY <1>5, <2>1
         DEF CheckDelegation, Verify, StartSettlement, SettleAnswer, RecordSettlement, FindCode,
             AwaitDeployment, CheckFunds, InsertLeg, RelayActivation, StatementFails, Crash, apiVars
  <2>2. ASSUME NEW t \in Trade, CreateCancellation(t) \/ \E wish \in Wishes : CreatePreview(t, wish)
        PROVE  OperationsKept
      BY <1>5, <2>2 DEF CreateCancellation, CreatePreview
  <2>3. ASSUME \/ \E d \in Delegations : SubmitDelegation(d)
               \/ \E r \in Request, p \in Payment \union {None} : Submit(r, p)
               \/ \E p \in Payment : Settle(p)
               \/ \E tx \in relayed : Mine(tx)
               \/ NewDay
        PROVE  OperationsKept
      BY <1>5, <2>3 DEF SubmitDelegation, Submit, Settle, Mine, NewDay, apiVars
  <2> QED
      BY <1>1, <1>2, <1>3, <1>4, <1>7, <2>1, <2>2, <2>3 DEF Next
<1> QED
    BY <1>6, <1>7

LEMMA StepKeepsOffers ==
    ASSUME Invariant, OfferedOnRecord, [Next]_vars
    PROVE  OfferedOnRecord'
<1>1. OperationsKept
    BY StepKeeps
<1>2. CASE \E t \in Trade : CreateCancellation(t) \/ SubmitCancellation(t)
  <2>1. PICK t \in Trade, state \in {"offered", "used"} :
            cancelling' = [cancelling EXCEPT ![t] = state] /\ operation[t] # None
      BY <1>2 DEF CreateCancellation, SubmitCancellation, OfferedOnRecord
  <2> QED
      BY <1>1, <2>1 DEF OfferedOnRecord, OperationsKept
<1>3. CASE ~\E t \in Trade : CreateCancellation(t) \/ SubmitCancellation(t)
  <2>1. UNCHANGED cancelling
    <3>1. CASE UNCHANGED vars
        BY <3>1 DEF vars, apiVars
    <3>2. ASSUME NEW r \in Request,
                 CheckDelegation(r) \/ Verify(r) \/ StartSettlement(r) \/ SettleAnswer(r)
                   \/ RecordSettlement(r) \/ InsertOperation(r) \/ FindCode(r)
                   \/ AwaitDeployment(r) \/ CheckFunds(r) \/ InsertLeg(r)
                   \/ RelayActivation(r) \/ StatementFails(r) \/ Commit(r) \/ Caught(r)
                   \/ Crash(r)
          PROVE  UNCHANGED cancelling
        BY <3>2
           DEF CheckDelegation, Verify, StartSettlement, SettleAnswer, RecordSettlement,
               InsertOperation, FindCode, AwaitDeployment, CheckFunds, InsertLeg,
               RelayActivation, StatementFails, Commit, Caught, Crash, apiVars
    <3>3. ASSUME \/ \E t \in Trade, wish \in Wishes : CreatePreview(t, wish)
                 \/ \E d \in Delegations : SubmitDelegation(d)
                 \/ \E r \in Request, p \in Payment \union {None} : Submit(r, p)
                 \/ \E p \in Payment : Settle(p)
                 \/ \E tx \in relayed : Mine(tx)
                 \/ NewDay
          PROVE  UNCHANGED cancelling
        BY <3>3 DEF CreatePreview, SubmitDelegation, Submit, Settle, Mine, NewDay, apiVars
    <3> QED
        BY <1>3, <3>1, <3>2, <3>3 DEF Next
  <2> QED
      BY <1>1, <2>1 DEF OfferedOnRecord, OperationsKept
<1> QED
    BY <1>2, <1>3

-----------------------------------------------------------------------------
LEMMA StepPreserves ==
    ASSUME Invariant, OfferedOnRecord, [Next]_vars
    PROVE  Invariant'
<1>1. CASE UNCHANGED vars
  <2>1. UNCHANGED Tables /\ UNCHANGED <<request, relayed>>
      BY <1>1 DEF vars, apiVars, chainVars, Tables
  <2> QED
      BY <2>1, TablesStay, QuietPreserves DEF Tables, Invariant, Typed, TypeOK
<1>2. CASE Next
  <2>1. ASSUME NEW t \in Trade, NEW wish \in Wishes, CreatePreview(t, wish)
        PROVE  Invariant'
      BY <2>1, PreviewPreserves
  <2>2. ASSUME NEW t \in Trade, CreateCancellation(t) \/ SubmitCancellation(t)
        PROVE  Invariant'
      BY <2>2, OfferPreserves, CancellationPreserves
  <2>3. ASSUME NEW d \in Delegations, SubmitDelegation(d)
        PROVE  Invariant'
      BY <2>3, DelegationPreserves
  <2>4. ASSUME NEW r \in Request, NEW p \in Payment \union {None}, Submit(r, p)
        PROVE  Invariant'
      BY <2>4, SubmitPreserves
  <2>5. ASSUME NEW r \in Request,
               CheckDelegation(r) \/ Verify(r) \/ StartSettlement(r) \/ SettleAnswer(r)
                 \/ RecordSettlement(r) \/ InsertOperation(r)
        PROVE  Invariant'
      BY <2>5, CheckPreserves, VerifyPreserves, StartPreserves, AnswerPreserves,
         RecordPreserves, InsertPreserves
  <2>6. ASSUME NEW r \in Request,
               FindCode(r) \/ AwaitDeployment(r) \/ CheckFunds(r) \/ InsertLeg(r)
                 \/ RelayActivation(r) \/ StatementFails(r) \/ Commit(r) \/ Caught(r) \/ Crash(r)
        PROVE  Invariant'
      BY <2>6, FindPreserves, AwaitPreserves, FundsPreserves, LegPreserves, RelayPreserves,
         FailurePreserves, CommitPreserves, CaughtPreserves, CrashPreserves
  <2>7. ASSUME NEW p \in Payment, Settle(p)
        PROVE  Invariant'
      BY <2>7, SettlePreserves
  <2>8. ASSUME NEW tx \in relayed, Mine(tx)
        PROVE  Invariant'
      BY <2>8, MinePreserves
  <2>9. CASE NewDay
      BY <2>9, NewDayPreserves
  <2> QED
      BY <1>2, <2>1, <2>2, <2>3, <2>4, <2>5, <2>6, <2>7, <2>8, <2>9 DEF Next
<1> QED
    BY <1>1, <1>2

LEMMA Invariance == Spec => [](Invariant /\ OfferedOnRecord)
<1>1. Init => Invariant /\ OfferedOnRecord
  <2>1. Init => OfferedOnRecord
      BY DEF Init, OfferedOnRecord
  <2> QED
      BY <2>1, InitEstablishes
<1>2. Invariant /\ OfferedOnRecord /\ [Next]_vars => (Invariant /\ OfferedOnRecord)'
    BY StepPreserves, StepKeepsOffers
<1> QED
    BY <1>1, <1>2, PTL DEF Spec

-----------------------------------------------------------------------------
(* What a set of trades sells: its recursive definition has a value for    *)
(* every set, and adds up in any order.                                    *)

LEMMA FewestFirst ==
  ASSUME NEW T \in SUBSET Nat, T # {}
  PROVE  \E n \in T : \A m \in T : n <= m
<1>1. PICK n \in T : \A m \in T : <<m, n>> \notin OpToRel(<, Nat)
    BY NatLessThanWellFounded, WFMin
<1>2. \A m \in T : ~(m < n)
    BY <1>1 DEF OpToRel
<1> QED
    BY <1>2

LEMMA TradesCounted ==
  ASSUME NEW S \in SUBSET Trade
  PROVE  /\ Cardinality(S) \in 0..Cardinality(Trade) /\ Cardinality(Trade) \in Nat
         /\ S # {} => LET t == CHOOSE x \in S : TRUE IN t \in S
         /\ \A t \in S : Cardinality(S \ {t}) = Cardinality(S) - 1 /\ Cardinality(S) > 0
<1>1. IsFiniteSet(Trade)
    BY SubmissionAssumption DEF SubmissionAssumption
<1>2. IsFiniteSet(S) /\ Cardinality(S) <= Cardinality(Trade)
    BY <1>1, FS_Subset
<1>3. Cardinality(S) \in Nat /\ Cardinality(Trade) \in Nat
    BY <1>1, <1>2, FS_CardinalityType
<1>4. \A t \in S : Cardinality(S \ {t}) = Cardinality(S) - 1 /\ Cardinality(S) > 0
  <2> TAKE t \in S
  <2>1. Cardinality(S \ {t}) = Cardinality(S) - 1
      BY <1>2, FS_RemoveElement
  <2>2. Cardinality(S) # 0
      BY <1>2, FS_EmptySet
  <2> QED
      BY <1>3, <2>1, <2>2
<1>5. S # {} => LET t == CHOOSE x \in S : TRUE IN t \in S
    BY Zenon
<1> QED
    BY <1>2, <1>3, <1>4, <1>5

Body(f, S) == IF S = {} THEN 0 ELSE LET t == CHOOSE x \in S : TRUE IN Amount[t] + f[S \ {t}]
Smaller(n) == {S \in SUBSET Trade : Cardinality(S) < n}

LEMMA TotalOfSmaller ==
  ASSUME NEW n \in Nat
  PROVE  \E f : \A S \in Smaller(n) : f[S] = Body(f, S)
<1> DEFINE Given(m) == \E f : \A S \in Smaller(m) : f[S] = Body(f, S)
           lacking == {m \in Nat : ~Given(m)}
<1>1. ASSUME lacking # {} PROVE FALSE
  <2>1. lacking \in SUBSET Nat
      OBVIOUS
  <2>2. PICK m \in lacking : \A k \in lacking : m <= k
    <3> HIDE DEF lacking
    <3> QED
        BY <1>1, <2>1, FewestFirst
  <2>3. m \in Nat /\ ~Given(m)
      OBVIOUS
  <2>4. m # 0
    <3>1. Smaller(0) = {}
        BY TradesCounted DEF Smaller
    <3> QED
        BY <2>3, <3>1
  <2>5. m - 1 \in Nat /\ m - 1 < m
      BY <2>3, <2>4
  <2>6. Given(m - 1)
    <3>1. m - 1 \notin lacking
      <4> HIDE DEF lacking
      <4> QED
          BY <2>2, <2>3, <2>5
    <3> QED
        BY <2>5, <3>1
  <2>7. PICK f : \A S \in Smaller(m - 1) : f[S] = Body(f, S)
      BY <2>6
  <2>8. PICK g : g = [S \in SUBSET Trade |-> Body(f, S)]
      OBVIOUS
  <2>9. ASSUME NEW S \in Smaller(m) PROVE g[S] = Body(g, S)
    <3>1. S \in SUBSET Trade /\ Cardinality(S) < m
        BY DEF Smaller
    <3>2. CASE S = {}
        BY <2>8, <3>1, <3>2 DEF Body
    <3>3. CASE S # {}
      <4>1. PICK t : t = CHOOSE x \in S : TRUE
          OBVIOUS
      <4>2. t \in S
          BY <3>3, <4>1
      <4>3. PICK R : R = S \ {t}
          OBVIOUS
      <4>4. R \in SUBSET Trade /\ Cardinality(R) < m - 1
        <5>1. R \in SUBSET Trade
            BY <3>1, <4>3
        <5>2. Cardinality(R) = Cardinality(S) - 1 /\ Cardinality(S) \in Nat
            BY <3>1, <4>2, <4>3, TradesCounted
        <5> QED
            BY <2>3, <3>1, <5>1, <5>2
      <4>5. g[R] = f[R]
        <5>1. R \in Smaller(m - 1)
            BY <4>4 DEF Smaller
        <5> QED
            BY <2>7, <2>8, <4>4, <5>1
      <4>6. Body(g, S) = Amount[t] + g[R] /\ Body(f, S) = Amount[t] + f[R]
          BY <3>3, <4>1, <4>3, Zenon DEF Body
      <4> QED
          BY <2>8, <3>1, <4>5, <4>6
    <3> QED
        BY <3>2, <3>3
  <2> QED
      BY <2>3, <2>9
<1> QED
    BY <1>1

LEMMA TotalUnfolds == \A S \in SUBSET Trade : Total[S] = Body(Total, S)
<1>1. PICK f : \A S \in Smaller(Cardinality(Trade) + 1) : f[S] = Body(f, S)
    BY TradesCounted, TotalOfSmaller
<1>2. \A S \in SUBSET Trade : f[S] = Body(f, S)
    BY <1>1, TradesCounted DEF Smaller
<1>3. PICK g : g = [S \in SUBSET Trade |-> f[S]]
    OBVIOUS
<1>4. \A S \in SUBSET Trade : g[S] = Body(g, S)
  <2> TAKE S \in SUBSET Trade
  <2>1. PICK t : t = CHOOSE x \in S : TRUE
      OBVIOUS
  <2>2. S \ {t} \in SUBSET Trade
      OBVIOUS
  <2>3. g[S] = f[S] /\ g[S \ {t}] = f[S \ {t}]
      BY <1>3, <2>2
  <2> QED
      BY <1>2, <2>1, <2>3 DEF Body
<1>5. g = [S \in SUBSET Trade |-> Body(g, S)]
    BY <1>3, <1>4
<1> DEFINE Sums(h) == h = [S \in SUBSET Trade |-> IF S = {} THEN 0
                           ELSE LET t == CHOOSE x \in S : TRUE IN Amount[t] + h[S \ {t}]]
<1>6. Sums(g)
    BY <1>5 DEF Body
<1>7. Total = CHOOSE h : Sums(h)
    BY DEF Total
<1>8. Sums(Total)
  <2> HIDE DEF Sums
  <2> QED
      BY <1>6, <1>7
<1> QED
    BY <1>8 DEF Body

LEMMA TotalAddsUp ==
  /\ \A S \in SUBSET Trade : Total[S] \in Nat
  /\ \A S \in SUBSET Trade : \A t \in S : Total[S] = Amount[t] + Total[S \ {t}]
<1> DEFINE Right(S) == Total[S] \in Nat /\ \A t \in S : Total[S] = Amount[t] + Total[S \ {t}]
           wrong == {Cardinality(S) : S \in {R \in SUBSET Trade : ~Right(R)}}
<1>1. ASSUME wrong # {} PROVE FALSE
  <2>1. wrong \in SUBSET Nat
      BY TradesCounted
  <2>2. PICK n \in wrong : \A m \in wrong : n <= m
    <3> HIDE DEF wrong
    <3> QED
        BY <1>1, <2>1, FewestFirst
  <2>3. PICK S \in SUBSET Trade : ~Right(S) /\ n = Cardinality(S)
      BY <2>2
  <2>4. ASSUME NEW R \in SUBSET Trade, Cardinality(R) < Cardinality(S) PROVE Right(R)
    <3>1. ~Right(R) => Cardinality(R) \in wrong
        OBVIOUS
    <3>2. Cardinality(R) \in Nat /\ Cardinality(S) \in Nat
        BY TradesCounted
    <3> HIDE DEF wrong, Right
    <3> QED
        BY <2>2, <2>3, <2>4, <3>1, <3>2
  <2>5. \A t \in Trade : Amount[t] \in Nat
      BY SubmissionAssumption DEF SubmissionAssumption
  <2>6. Total[S] = Body(Total, S)
      BY TotalUnfolds
  <2>7. CASE S = {}
      BY <2>3, <2>6, <2>7 DEF Body
  <2>8. CASE S # {}
    <3>1. PICK c : c = CHOOSE x \in S : TRUE
        OBVIOUS
    <3>2. c \in S
        BY <2>8, <3>1
    <3>3. Total[S] = Amount[c] + Total[S \ {c}]
        BY <2>6, <2>8, <3>1, Zenon DEF Body
    <3>4. \A t \in S : Right(S \ {t})
      <4> TAKE t \in S
      <4>1. S \ {t} \in SUBSET Trade /\ Cardinality(S \ {t}) < Cardinality(S)
          BY TradesCounted
      <4> HIDE DEF Right
      <4> QED
          BY <2>4, <4>1
    <3>5. Total[S] \in Nat
      <4>1. Right(S \ {c})
          BY <3>2, <3>4
      <4>2. Total[S \ {c}] \in Nat /\ Amount[c] \in Nat
          BY <2>5, <3>2, <4>1
      <4> HIDE DEF Right
      <4> QED
          BY <3>3, <4>2
    <3>6. ASSUME NEW t \in S PROVE Total[S] = Amount[t] + Total[S \ {t}]
      <4>1. CASE t = c
          BY <3>3, <4>1
      <4>2. CASE t # c
        <5>1. PICK R : R = (S \ {c}) \ {t}
            OBVIOUS
        <5>2. R = (S \ {t}) \ {c} /\ t \in S \ {c} /\ c \in S \ {t}
            BY <3>2, <4>2, <5>1
        <5>3. Total[S \ {c}] = Amount[t] + Total[R] /\ Total[S \ {t}] = Amount[c] + Total[R]
            BY <3>2, <3>4, <5>1, <5>2
        <5>4. Right(S \ {c}) /\ Right(S \ {t}) /\ Amount[t] \in Nat /\ Amount[c] \in Nat
            BY <2>5, <3>2, <3>4
        <5>5. Total[R] \in Nat
          <6>1. R \in SUBSET Trade /\ Cardinality(R) < Cardinality(S)
            <7>1. S \ {c} \in SUBSET Trade /\ Cardinality(S \ {c}) < Cardinality(S)
                    /\ Cardinality(S \ {c}) \in Nat /\ Cardinality(S) \in Nat
                BY <3>2, TradesCounted
            <7>2. PICK T \in SUBSET Trade : T = S \ {c}
                OBVIOUS
            <7>3. \A x \in T : Cardinality(T \ {x}) = Cardinality(T) - 1
                BY TradesCounted
            <7>4. R \in SUBSET Trade /\ Cardinality(R) = Cardinality(S \ {c}) - 1
                BY <5>1, <5>2, <7>2, <7>3
            <7> HIDE DEF Right, wrong
            <7> QED
                BY <7>1, <7>4
          <6>2. Right(R)
            <7> HIDE DEF Right
            <7> QED
                BY <2>4, <6>1
          <6> QED
              BY <6>2
        <5> HIDE DEF Right
        <5> QED
            BY <3>3, <5>3, <5>4, <5>5
      <4> QED
          BY <4>1, <4>2
    <3> QED
        BY <2>3, <3>5, <3>6
  <2> QED
      BY <2>7, <2>8
<1> QED
    BY <1>1

LEMMA OneMoreTotals ==
  ASSUME NEW S \in SUBSET Trade, NEW t \in Trade
  PROVE  Total[S \union {t}] <= Amount[t] + Total[S] /\ Total[{}] = 0
<1>1. Amount[t] \in Nat /\ Total[S] \in Nat
    BY TotalAddsUp, SubmissionAssumption DEF SubmissionAssumption
<1>2. Total[{}] = 0
    BY TotalUnfolds DEF Body
<1>3. CASE t \in S
  <2>1. S \union {t} = S
      BY <1>3
  <2>2. Total[S \union {t}] = Total[S]
      BY <2>1
  <2> QED
      BY <1>1, <1>2, <2>2
<1>4. CASE t \notin S
  <2>1. S \union {t} \in SUBSET Trade /\ t \in S \union {t} /\ (S \union {t}) \ {t} = S
      BY <1>4
  <2>2. Total[S \union {t}] = Amount[t] + Total[S]
      BY <2>1, TotalAddsUp
  <2> QED
      BY <1>1, <1>2, <2>2
<1> QED
    BY <1>3, <1>4

LEMMA OneLessTotals ==
  ASSUME NEW S \in SUBSET Trade, NEW t \in Trade
  PROVE  Total[S \ {t}] <= Total[S]
<1>1. Total[S] \in Nat /\ Total[S \ {t}] \in Nat /\ Amount[t] \in Nat
    BY TotalAddsUp, SubmissionAssumption DEF SubmissionAssumption
<1>2. CASE t \in S
  <2>1. Total[S] = Amount[t] + Total[S \ {t}]
      BY <1>2, TotalAddsUp
  <2> QED
      BY <1>1, <2>1
<1>3. CASE t \notin S
  <2>1. S \ {t} = S
      BY <1>3
  <2>2. Total[S \ {t}] = Total[S]
      BY <2>1
  <2> QED
      BY <1>1, <2>2
<1> QED
    BY <1>2, <1>3

-----------------------------------------------------------------------------
(* The spending of the day.                                                 *)

\* Places of a request that has not asked for the delegation.
Unchecked == {"idle", "unpaid", "paid"}

SpendInvariant ==
    /\ acted \subseteq Trade
    /\ projection \in Projections \union {None}
    /\ \A r \in Request : request[r].at \notin Unchecked => projection # None
    /\ SpentCoversActivations

\* A trade may cease to be accounted for, and then the rest is covered all the more.
LEMMA LessIsCovered ==
  ASSUME Invariant, SpendInvariant, acted' \subseteq Trade, UNCHANGED <<projection, today>>,
         \A r \in Request : request'[r].at \notin Unchecked =>
             request[r].at \notin Unchecked \/ projection # None,
         Accountable' = Accountable \/ \E t \in Trade : Accountable' = Accountable \ {t}
  PROVE  SpendInvariant'
<1>1. Spent' = Spent
    BY DEF Spent
<1>2. ASSUME projection # None PROVE Total[Accountable'] <= Spent
  <2>1. Total[Accountable] <= Spent
      BY <1>2 DEF SpendInvariant, SpentCoversActivations
  <2>2. PICK S \in SUBSET Trade : S = Accountable
      BY DEF SpendInvariant, Accountable
  <2>3. CASE Accountable' = Accountable
      BY <2>1, <2>3
  <2>4. ASSUME NEW t \in Trade, Accountable' = Accountable \ {t} PROVE Total[Accountable'] <= Spent
    <3>1. Total[S \ {t}] <= Total[S] /\ Total[S \ {t}] \in Nat /\ Total[S] \in Nat
        BY OneLessTotals, TotalAddsUp
    <3>2. Spent \in Nat
        BY <1>2, SubmissionAssumption DEF SpendInvariant, Projections, Spent
    <3>3. Accountable' = S \ {t}
        BY <2>2, <2>4
    <3> QED
        BY <2>1, <2>2, <3>1, <3>2, <3>3
  <2> QED
      BY <2>3, <2>4
<1>3. SpentCoversActivations'
    BY <1>1, <1>2 DEF SpentCoversActivations
<1> QED
    BY <1>3 DEF SpendInvariant

LEMMA SpendStays ==
  ASSUME Invariant, SpendInvariant, UNCHANGED <<projection, history, request, scene, today>>
  PROVE  SpendInvariant'
<1>1. Accountable' = Accountable
    BY DEF Accountable, UnderWay, At, history
<1>2. acted' \subseteq Trade
    BY DEF SpendInvariant, history
<1> QED
    BY <1>1, <1>2, LessIsCovered

\* Only the trade of the request that moves may change its place.
LEMMA OneAccounts ==
  ASSUME Invariant, NEW r \in Request, scene' = scene, NEW s, request' = [request EXCEPT ![r] = s],
         acted' \in {acted, acted \union {scene[r]}},
         cut' \in {cut, cut \union {scene[r]}, cut \ {scene[r]}}
  PROVE  /\ Accountable' \ {scene[r]} = Accountable \ {scene[r]}
         /\ \A q \in Request \ {r} : UnderWay(q)' <=> UnderWay(q)
<1>1. request \in [Request -> Requests]
    BY DEF Invariant, Typed
<1>2. \A q \in Request \ {r} : request'[q] = request[q]
    BY <1>1
<1>3. \A q \in Request \ {r} : UnderWay(q)' <=> UnderWay(q)
    BY <1>2 DEF UnderWay, At
<1>4. \A u : u # scene[r] => (u \in acted' <=> u \in acted) /\ (u \in cut' <=> u \in cut)
    OBVIOUS
<1>5. \A u : u # scene[r] => (u \in Accountable' <=> u \in Accountable)
    BY <1>3, <1>4 DEF Accountable
<1> QED
    BY <1>3, <1>5

\* A request that has left no mark moves, or leaves one and has yet to charge it, or is cut off.
LEMMA SpendMoves ==
  ASSUME Invariant, SpendInvariant, UNCHANGED <<projection, scene, today>>, NEW r \in Request, NEW s,
         request' = [request EXCEPT ![r] = s],
         s.at \notin Unchecked => request[r].at \notin Unchecked \/ projection # None,
         acted' \in {acted, acted \union {scene[r]}},
         cut' \in {cut, cut \union {scene[r]}},
         \/ UNCHANGED history /\ ~UnderWay(r)
         \/ UnderWay(r)'
         \/ scene[r] \in cut'
  PROVE  SpendInvariant'
<1>1. request \in [Request -> Requests] /\ scene[r] \in Trade
    BY DEF Invariant, Typed
<1>2. request'[r] = s /\ \A q \in Request \ {r} : request'[q] = request[q]
    BY <1>1
<1>3. /\ Accountable' \ {scene[r]} = Accountable \ {scene[r]}
      /\ \A q \in Request \ {r} : UnderWay(q)' <=> UnderWay(q)
    BY OneAccounts
<1>4. scene[r] \in Accountable' => scene[r] \in Accountable
  <2>1. CASE UNCHANGED history /\ ~UnderWay(r)
      BY <1>3, <2>1 DEF Accountable, history
  <2>2. CASE UnderWay(r)'
      BY <2>2 DEF Accountable
  <2>3. CASE scene[r] \in cut'
      BY <2>3 DEF Accountable
  <2> QED
      BY <2>1, <2>2, <2>3
<1>5. Accountable' = Accountable \/ Accountable' = Accountable \ {scene[r]}
    BY <1>3, <1>4
<1>6. acted' \subseteq Trade
    BY <1>1 DEF SpendInvariant
<1>7. \A q \in Request : request'[q].at \notin Unchecked => request[q].at \notin Unchecked \/ projection # None
    BY <1>2
<1> QED
    BY <1>1, <1>5, <1>6, <1>7, LessIsCovered

LEMMA SpendEnds ==
  ASSUME Invariant, SpendInvariant, UNCHANGED <<projection, scene, today>>, NEW r \in Request, End(r),
         acted' = acted, cut' \in {cut, cut \union {scene[r]}},
         \/ UNCHANGED history /\ ~UnderWay(r)
         \/ scene[r] \in cut'
  PROVE  SpendInvariant'
<1>1. PICK s : s = [at |-> "idle", payment |-> None, before |-> 0, leg |-> 0]
    OBVIOUS
<1>2. s.at \in Unchecked /\ request' = [request EXCEPT ![r] = s]
    BY <1>1 DEF End, Unchecked
<1> QED
    BY <1>2, SpendMoves

LEMMA SpendGoes ==
  ASSUME Invariant, SpendInvariant, UNCHANGED <<projection, scene, today>>, NEW r \in Request,
         NEW place, Goto(r, place),
         place \notin Unchecked => request[r].at \notin Unchecked \/ projection # None,
         acted' \in {acted, acted \union {scene[r]}},
         cut' \in {cut, cut \union {scene[r]}},
         \/ UNCHANGED history /\ ~UnderWay(r)
         \/ place = "commit"
         \/ scene[r] \in cut'
  PROVE  SpendInvariant'
<1>1. request \in [Request -> Requests]
    BY DEF Invariant, Typed
<1>2. PICK s : s = [request[r] EXCEPT !.at = place]
    OBVIOUS
<1>3. s.at = place /\ request' = [request EXCEPT ![r] = s]
    BY <1>1, <1>2 DEF Goto, Requests
<1>4. place = "commit" => UnderWay(r)'
    BY <1>1, <1>3 DEF UnderWay, At
<1> QED
    BY <1>3, <1>4, SpendMoves

\* Until the delegation is checked a request goes no further; behind that it goes on or ends.
LEMMA RequestSpends ==
  ASSUME Invariant, SpendInvariant, NEW r \in Request,
         \/ CheckDelegation(r) \/ Verify(r) \/ StartSettlement(r) \/ SettleAnswer(r)
         \/ RecordSettlement(r) \/ InsertOperation(r) \/ FindCode(r) \/ AwaitDeployment(r)
         \/ CheckFunds(r) \/ Caught(r)
  PROVE  SpendInvariant'
<1>1. CASE CheckDelegation(r)
  <2>1. UNCHANGED <<projection, history, scene, today>> /\ ~UnderWay(r)
      BY <1>1 DEF CheckDelegation, apiVars, UnderWay, At
  <2>2. CASE End(r)
      BY <2>1, <2>2, SpendEnds DEF history
  <2>3. CASE ~End(r)
    <3>1. projection # None
        BY <1>1, <2>3 DEF CheckDelegation, Allowed
    <3>2. \E place : Goto(r, place)
        BY <1>1, <2>3 DEF CheckDelegation
    <3> QED
        BY <2>1, <3>1, <3>2, SpendGoes DEF history
  <2> QED
      BY <2>2, <2>3
<1>2. CASE Verify(r)
  <2>1. UNCHANGED <<projection, history, scene, today>> /\ ~UnderWay(r) /\ request[r].at \notin Unchecked
      BY <1>2 DEF Verify, apiVars, UnderWay, At, Unchecked
  <2>2. End(r) \/ \E s : request' = [request EXCEPT ![r] = s]
    <3>1. End(r) \/ request' = [request EXCEPT ![r] = [request[r] EXCEPT !.at = "settling",
                                    !.before = vault[scene[r]].balance]]
        BY <1>2 DEF Verify
    <3> QED
        BY <3>1
  <2> QED
      BY <2>1, <2>2, SpendEnds, SpendMoves DEF history
<1>3. CASE ~CheckDelegation(r) /\ ~Verify(r)
  <2>1. UNCHANGED <<projection, history, scene, today>> /\ ~UnderWay(r) /\ request[r].at \notin Unchecked
      BY <1>3 DEF StartSettlement, SettleAnswer, RecordSettlement, InsertOperation, FindCode,
         AwaitDeployment, CheckFunds, Caught, apiVars, UnderWay, At, Unchecked
  <2>2. End(r) \/ \E place : Goto(r, place)
      BY <1>3 DEF StartSettlement, SettleAnswer, RecordSettlement, InsertOperation, FindCode,
         AwaitDeployment, CheckFunds, Caught
  <2> QED
      BY <2>1, <2>2, SpendEnds, SpendGoes DEF history
<1> QED
    BY <1>1, <1>2, <1>3

\* Whoever leaves a mark has its charge before it, and whoever is cut off there is named.
LEMMA MarkSpends ==
  ASSUME Invariant, SpendInvariant, NEW r \in Request,
         InsertLeg(r) \/ RelayActivation(r) \/ StatementFails(r) \/ Crash(r)
  PROVE  SpendInvariant'
<1> USE DEF history
<1>1. CASE InsertLeg(r)
  <2>1. /\ UNCHANGED <<projection, cut, scene, today>> /\ request[r].at \notin Unchecked
        /\ acted' = acted \union {scene[r]}
      BY <1>1 DEF InsertLeg, At, Unchecked
  <2>2. request[r] \in Requests /\ request[r].leg \in Nat /\ request \in [Request -> Requests]
      BY DEF Invariant, Typed, Requests
  <2>3. PICK place \in {"commit", "legs"} : request' = [request EXCEPT ![r].leg = @ + 1, ![r].at = place]
      BY <1>1 DEF InsertLeg, At
  <2>4. PICK s : s = [request[r] EXCEPT !.leg = request[r].leg + 1, !.at = place]
      OBVIOUS
  <2>5. request' = [request EXCEPT ![r] = s]
      BY <2>3, <2>4
  <2>6. s.at = place /\ s.leg > 0
      BY <2>2, <2>4 DEF Requests
  <2>7. UnderWay(r)'
      BY <2>2, <2>5, <2>6 DEF UnderWay, At
  <2> QED
      BY <2>1, <2>5, <2>7, SpendMoves
<1>2. CASE RelayActivation(r)
  <2>1. UNCHANGED <<projection, scene, today>> /\ request[r].at \notin Unchecked /\ ~UnderWay(r)
      BY <1>2 DEF RelayActivation, apiVars, At, Unchecked, UnderWay
  <2>2. \/ acted' = acted \union {scene[r]} /\ cut' = cut /\ Goto(r, "commit")
        \/ acted' = acted \union {scene[r]} /\ cut' = cut \union {scene[r]} /\ Goto(r, "caught")
        \/ UNCHANGED history /\ Goto(r, "caught")
      BY <1>2 DEF RelayActivation
  <2> QED
      BY <2>1, <2>2, SpendGoes
<1>3. CASE StatementFails(r) \/ Crash(r)
  <2>1. /\ UNCHANGED <<projection, acted, scene, today>>
        /\ \/ UNCHANGED history /\ ~UnderWay(r)
           \/ cut' = cut \union {scene[r]}
      BY <1>3 DEF StatementFails, Crash, CutOff, apiVars
  <2>2. End(r) \/ (Goto(r, "caught") /\ request[r].at \notin Unchecked)
      BY <1>3 DEF StatementFails, Crash, Unchecked
  <2> QED
      BY <2>1, <2>2, SpendEnds, SpendGoes
<1> QED
    BY <1>1, <1>2, <1>3

\* A charge is of this day, and covers whatever the trade has left in it.
LEMMA CommitSpends ==
  ASSUME Invariant, SpendInvariant, NEW r \in Request, Commit(r)
  PROVE  SpendInvariant'
<1>1. PICK t \in Trade : t = scene[r]
    BY DEF Invariant, Typed
<1>2. projection \in Projections /\ projection # None
  <2>1. request[r].at \notin Unchecked
      BY DEF Commit, At, Unchecked
  <2> QED
      BY <2>1 DEF SpendInvariant
<1>3. PICK S \in SUBSET Trade : S = Accountable
    BY DEF SpendInvariant, Accountable
<1>4. Total[S] <= Spent /\ Spent \in Nat /\ Total[S] \in Nat
  <2>1. Spent \in Nat
      BY <1>2 DEF Projections, Spent
  <2> QED
      BY <1>2, <1>3, <2>1, TotalAddsUp DEF SpendInvariant, SpentCoversActivations
<1>5. Amount[t] \in Nat /\ today \in Nat
    BY SubmissionAssumption DEF SubmissionAssumption, Invariant, Typed
<1>6. projection' = [projection EXCEPT !.spent = Spent + Amount[t], !.day = today]
    BY <1>1 DEF Commit, Charges
<1>7. /\ projection' \in Projections /\ projection' # None
      /\ projection'.spent = Spent + Amount[t] /\ projection'.day = today
  <2>1. Spent + Amount[t] \in Nat
      BY <1>4, <1>5
  <2>2. projection' \in Projections /\ projection'.spent = Spent + Amount[t] /\ projection'.day = today
      BY <1>2, <1>5, <1>6, <2>1 DEF Projections
  <2> QED
      BY <2>2, SubmissionAssumption DEF SubmissionAssumption
<1>8. Spent' = Spent + Amount[t]
  <2>1. today' = today
      BY DEF Commit
  <2> QED
      BY <1>7, <2>1 DEF Spent
<1>9. Accountable' = S \/ Accountable' = S \union {t}
  <2>1. UnderWay(r) /\ t \notin S
      BY <1>1, <1>3 DEF Commit, UnderWay, Accountable
  <2>2. PICK s : request' = [request EXCEPT ![r] = s]
      BY DEF Commit, End
  <2>3. Accountable' \ {t} = Accountable \ {t}
      BY <1>1, <2>2, OneAccounts DEF Commit
  <2> QED
      BY <1>3, <2>1, <2>3
<1>10. Total[S \union {t}] <= Amount[t] + Total[S] /\ Total[S \union {t}] \in Nat
    BY OneMoreTotals, TotalAddsUp
<1>11. Total[Accountable'] <= Spent'
    BY <1>4, <1>5, <1>8, <1>9, <1>10
<1>12. acted' \subseteq Trade
    BY DEF Commit, SpendInvariant
<1> QED
    BY <1>7, <1>11, <1>12 DEF SpendInvariant, SpentCoversActivations

\* With a registration, and with a new day, the marks are forgotten.
LEMMA NothingToCover ==
  ASSUME acted' = {}, projection' \in Projections \union {None}, today' \in Nat,
         \A r \in Request : request'[r].at \notin Unchecked => projection' # None
  PROVE  SpendInvariant'
<1>1. Total[{}] = 0
    BY TotalUnfolds DEF Body
<1>2. Accountable' = {}
    BY DEF Accountable
<1>3. ASSUME projection' # None PROVE Total[Accountable'] <= Spent'
  <2>1. Spent' \in Nat
      BY <1>3 DEF Projections, Spent
  <2> QED
      BY <1>1, <1>2, <2>1
<1> QED
    BY <1>3 DEF SpendInvariant, SpentCoversActivations

LEMMA DelegationSpends ==
  ASSUME Invariant, SpendInvariant, NEW d \in Delegations, SubmitDelegation(d)
  PROVE  SpendInvariant'
<1>1. request' = request /\ scene' = scene /\ today' = today /\ today \in Nat
    BY DEF SubmitDelegation, Invariant, Typed
<1>2. CASE UNCHANGED <<projection, history>>
    BY <1>1, <1>2, SpendStays
<1>3. CASE projection' = [perOrder |-> d.perOrder, perDay |-> d.perDay, until |-> d.until,
                          spent |-> 0, day |-> today] /\ acted' = {}
  <2>1. projection' \in Projections
      BY <1>1, <1>3 DEF Projections
  <2>2. projection' # None
      BY <2>1, SubmissionAssumption DEF SubmissionAssumption
  <2> QED
      BY <1>1, <1>3, <2>1, <2>2, NothingToCover
<1> QED
    BY <1>2, <1>3 DEF SubmitDelegation

LEMMA StepSpends ==
  ASSUME Invariant, SpendInvariant, [Next]_vars
  PROVE  SpendInvariant'
<1>1. CASE UNCHANGED vars
  <2>1. UNCHANGED <<projection, history, request, scene, today>>
      BY <1>1 DEF vars, apiVars
  <2> QED
      BY <2>1, SpendStays
<1>2. ASSUME \/ \E t \in Trade, wish \in Wishes : CreatePreview(t, wish)
             \/ \E t \in Trade : CreateCancellation(t) \/ SubmitCancellation(t)
             \/ \E p \in Payment : Settle(p)
             \/ \E tx \in relayed : Mine(tx)
      PROVE  SpendInvariant'
  <2>1. UNCHANGED <<projection, history, request, scene, today>>
      BY <1>2 DEF CreatePreview, CreateCancellation, SubmitCancellation, Settle, Mine, apiVars
  <2> QED
      BY <2>1, SpendStays
<1>3. ASSUME NEW r \in Request, NEW p \in Payment \union {None}, Submit(r, p)
      PROVE  SpendInvariant'
  <2>1. UNCHANGED <<projection, history, scene, today>> /\ ~UnderWay(r)
      BY <1>3 DEF Submit, apiVars, UnderWay, At
  <2>2. PICK place \in {"unpaid", "paid"} : request' = [request EXCEPT ![r].at = place, ![r].payment = p]
      BY <1>3 DEF Submit
  <2>3. PICK s : s = [request[r] EXCEPT !.at = place, !.payment = p]
      OBVIOUS
  <2>4. request' = [request EXCEPT ![r] = s]
      BY <2>2, <2>3
  <2>5. s.at \in Unchecked
    <3>1. request[r] \in Requests
        BY DEF Invariant, Typed
    <3> QED
        BY <2>3, <3>1 DEF Requests, Unchecked
  <2> QED
      BY <2>1, <2>4, <2>5, SpendMoves DEF history
<1>4. CASE NewDay
  <2>1. UNCHANGED <<projection, request>> /\ acted' = {} /\ today' \in Nat
      BY <1>4 DEF NewDay, Invariant, Typed
  <2> QED
      BY <2>1, NothingToCover DEF SpendInvariant
<1> QED
    BY <1>1, <1>2, <1>3, <1>4, RequestSpends, MarkSpends, CommitSpends, DelegationSpends DEF Next

\* Whatever times out, crashes, is paid twice or deployed by another request: a
\* payment the tables name was transferred to that trade's vault, and triggers and
\* recorded activations are of a vault that exists and was paid for (submit,
\* activateFunded, recordSettlement).
THEOREM SubmissionsAreReal == Spec => []RecordsAreReal
<1>1. Invariant => RecordsAreReal
    BY DEF Invariant, Typed, RecordsAreReal
<1> QED
    BY <1>1, Invariance, PTL

\* The activation recorded for an operation is never replaced or forgotten: not
\* by a second payment of the trade, nor a retry, a failure or a cancellation
\* (insertOperation's conflict clause, the last transaction of activateFunded).
THEOREM LifecycleNeverChanges == Spec => LifecycleIsFinal
<1>1. Invariant /\ OfferedOnRecord /\ [Next]_vars => [LifecycleStays]_vars
    BY StepKeeps DEF OperationsKept
<1> QED
    BY <1>1, Invariance, PTL DEF Spec, LifecycleIsFinal

\* What was spent of the day's limit covers every trade that has triggers inserted or
\* an activation sent under the registration and on the day, though requests leave
\* these marks, and commit their charge, some statements apart, and a trade may see
\* several; but for a trade that a request has yet to charge, or was cut off before it
\* could with nobody after it (activateFunded).
THEOREM ActivationsAreCharged == Spec => []SpentCoversActivations
<1>1. Init => SpendInvariant
  <2> SUFFICES ASSUME Init PROVE SpendInvariant
      OBVIOUS
  <2> QED
      BY DEF Init, SpendInvariant, SpentCoversActivations, Unchecked
<1>2. Invariant /\ SpendInvariant /\ [Next]_vars => SpendInvariant'
    BY StepSpends
<1>3. SpendInvariant => SpentCoversActivations
    BY DEF SpendInvariant
<1> QED
    BY <1>1, <1>2, <1>3, Invariance, PTL DEF Spec

-----------------------------------------------------------------------------
(* Listings.                                                                *)
Rows == [source : {"own", "subscriptions"}, occurredAt : Nat, updatedAt : Nat]

\* Does the row come behind the cursor?
Ahead(id) == Beyond(query, Key(query, id), id, cursor.key, cursor.id)

Reading ==
    /\ now \in Nat /\ rows \in [RowId -> Rows \union {NoRow, Wiped}]
    /\ query \in Queries \union {NoQuery} /\ cursor \in Cursor \union {NoCursor}
    /\ listed \in [RowId -> Nat] /\ steady \subseteq RowId /\ ends \subseteq Nat
    /\ ended \in BOOLEAN /\ crowded \in BOOLEAN
    /\ query = NoQuery => /\ steady = {} /\ cursor = NoCursor /\ ~ended
                          /\ listed = [id \in RowId |-> 0]
    /\ query # NoQuery => (ended <=> cursor = NoCursor)
    /\ steady \subseteq Matching(query)

\* A row that is there all the time has been listed once and lies before the cursor,
\* or it is still to come, unless its millisecond was lost.
Accounted(id) ==
    \/ listed[id] = 1 /\ (ended \/ ~Ahead(id))
    \/ listed[id] = 0 /\ (crowded \/ LostWithFraction(id) \/ (~ended /\ Ahead(id)))

ListingInvariant == Reading /\ \A id \in steady : Accounted(id)

LEMMA ListingBegins == ASSUME ListingsInit PROVE ListingInvariant
BY ListingAssumption DEF ListingsInit, ListingInvariant, Reading

LEMMA SameMillisecond ==
    ASSUME NEW m \in Nat \ {0}, NEW a \in Nat, NEW b \in Nat, b - (b % m) <= a, a <= b
    PROVE  a \div m = b \div m
<1> DEFINE d == b \div m
<1>1. /\ d \in Nat /\ b = m * d + (b % m) /\ b % m \in 0..(m - 1)
    BY SMT
<1>2. m * d <= a /\ a < m * d + m
    BY <1>1, SMT
<1> QED
    BY <1>1, <1>2, SMT

\* The date in the cursor of the orders is not after what it was made from, and a
\* key it does not leave behind any more is of the same millisecond.
LEMMA CursorsTruncate ==
    ASSUME NEW q \in Queries, NEW key \in Nat
    PROVE  /\ CursorKey(q, key) \in Nat /\ CursorKey(q, key) <= key
           /\ q # Orders => CursorKey(q, key) = key
           /\ key % Milli = 0 => CursorKey(q, key) = key
           /\ \A a \in Nat : CursorKey(q, key) <= a /\ a <= key => a \div Milli = key \div Milli \/ a = key
<1>1. /\ Milli \in Nat \ {0} /\ q \in Trades \union {Orders}
    BY ListingAssumption
<1>2. /\ key % Milli \in 0..(Milli - 1) /\ key % Milli <= key
    BY <1>1, SMT
<1>3. CASE q = Orders
  <2>1. CursorKey(q, key) = key - (key % Milli)
      BY <1>3 DEF CursorKey, Orders
  <2>2. \A a \in Nat : CursorKey(q, key) <= a /\ a <= key => a \div Milli = key \div Milli
    <3> SUFFICES ASSUME NEW a \in Nat, CursorKey(q, key) <= a, a <= key PROVE a \div Milli = key \div Milli
        OBVIOUS
    <3>1. key - (key % Milli) <= a
        BY <2>1
    <3> QED
        BY <1>1, <3>1, SameMillisecond
  <2> QED
      BY <1>2, <1>3, <2>1, <2>2, SMT
<1>4. CASE q # Orders
  <2>1. CursorKey(q, key) = key
      BY <1>1, <1>4 DEF CursorKey, Trades
  <2> QED
      BY <1>4, <2>1, SMT
<1> QED
    BY <1>3, <1>4

LEMMA KeysTyped ==
    ASSUME Reading, NEW q \in Queries, NEW id \in Matching(q)
    PROVE  /\ id \in RowId /\ rows[id] \in Rows
           /\ Key(q, id) \in Nat /\ rows[id][q.sort] \in Nat
<1>1. q \in Trades \union {Orders} /\ Milli \in Nat \ {0}
    BY ListingAssumption
<1>2. id \in RowId /\ rows[id] \in Rows
    BY <1>1 DEF Reading, Matching, NoRow, Wiped, Trades, Orders
<1>3. q.sort \in {"occurredAt", "updatedAt"}
    BY <1>1 DEF Trades, Orders
<1>4. rows[id][q.sort] \in Nat
    BY <1>2, <1>3 DEF Rows
<1> QED
    BY <1>1, <1>2, <1>4, SMT DEF Key

\* While rows come, change and go, what is there all the time keeps its place.
LEMMA RowsMove ==
    ASSUME ListingInvariant, Reading', UNCHANGED readerVars, steady' \subseteq steady,
           \A id \in steady' : /\ Key(query, id)' = Key(query, id)
                               /\ query = Orders => rows'[id].updatedAt = rows[id].updatedAt
    PROVE  ListingInvariant'
<1> SUFFICES ASSUME NEW id \in steady' PROVE Accounted(id)'
    BY DEF ListingInvariant
<1>1. Accounted(id) /\ id \in steady
    BY DEF ListingInvariant
<1>2. /\ query' = query /\ cursor' = cursor /\ ended' = ended /\ listed' = listed
      /\ ends' = ends /\ crowded' = crowded
    BY DEF readerVars
<1>3. Key(query, id)' = Key(query, id)
    OBVIOUS
<1>4. Ahead(id)' = Ahead(id)
    BY <1>2, <1>3 DEF Ahead, Beyond
<1>5. query \in Trades \union {Orders} \union {NoQuery}
    BY ListingAssumption DEF ListingInvariant, Reading
<1>6. query # NoQuery
    BY <1>1 DEF ListingInvariant, Reading
<1>7. LostWithFraction(id)' = LostWithFraction(id)
  <2>1. CASE query = Orders
      BY <1>2, <2>1 DEF LostWithFraction
  <2>2. CASE query \in Trades
    <3>1. query.resource # "orders"
        BY <2>2 DEF Trades
    <3> QED
        BY <1>2, <3>1 DEF LostWithFraction
  <2> QED
      BY <1>5, <1>6, <2>1, <2>2
<1> QED
    BY <1>1, <1>2, <1>4, <1>7 DEF Accounted

LEMMA AddKeeps ==
    ASSUME ListingInvariant, NEW id \in RowId, NEW source \in {"own", "subscriptions"}, NEW at \in Nat,
           Add(id, source, at)
    PROVE  ListingInvariant'
<1>1. Reading /\ now \in Nat
    BY DEF ListingInvariant, Reading
<1>2. [source |-> source, occurredAt |-> at, updatedAt |-> now] \in Rows
    BY <1>1 DEF Rows
<1>3. \A i \in RowId : i # id => rows'[i] = rows[i]
    BY <1>1 DEF Add, Reading
<1>4. rows[id].source = "none"
    BY DEF Add, NoRow
<1>5. steady' = steady /\ now' = now /\ readerVars' = readerVars
    BY DEF Add
<1>6. steady \subseteq Matching(query)
    BY <1>1 DEF Reading
<1>7. \A i \in steady : rows'[i] = rows[i] /\ i \in RowId
  <2> SUFFICES ASSUME NEW i \in steady PROVE rows'[i] = rows[i] /\ i \in RowId
      OBVIOUS
  <2>1. query \in Queries /\ i \in Matching(query)
      BY <1>1, <1>6 DEF Reading
  <2>2. i \in RowId /\ rows[i].source # "none"
      BY <1>1, <2>1, KeysTyped DEF Rows
  <2> QED
      BY <1>3, <1>4, <2>2
<1>8. (steady \subseteq Matching(query))'
    BY <1>5, <1>6, <1>7 DEF Matching, readerVars
<1>9. Reading'
    BY <1>1, <1>2, <1>5, <1>8 DEF Reading, readerVars, Add
<1>10. \A i \in steady' : /\ Key(query, i)' = Key(query, i)
                          /\ query = Orders => rows'[i].updatedAt = rows[i].updatedAt
    BY <1>5, <1>7 DEF Key, readerVars
<1> QED
    BY <1>5, <1>9, <1>10, RowsMove

LEMMA TouchKeeps ==
    ASSUME ListingInvariant, NEW id \in RowId, TouchRow(id)
    PROVE  ListingInvariant'
<1>1. Reading /\ now \in Nat /\ rows[id] \in Rows
    BY DEF ListingInvariant, Reading, TouchRow
<1>2. [rows[id] EXCEPT !.updatedAt = now] \in Rows
    BY <1>1 DEF Rows
<1>3. /\ rows' = [rows EXCEPT ![id] = [rows[id] EXCEPT !.updatedAt = now]]
      /\ \A i \in RowId : rows'[i].source = rows[i].source
      /\ \A i \in RowId : i # id => rows'[i] = rows[i]
      /\ rows'[id] \in Rows /\ rows'[id].occurredAt = rows[id].occurredAt
    BY <1>1, <1>2 DEF Reading, TouchRow, Rows
<1>4. steady' \subseteq steady /\ now' = now /\ readerVars' = readerVars
    BY DEF TouchRow
<1>5. (Matching(query))' = Matching(query)
    BY <1>3, <1>4 DEF Matching, readerVars
<1>6. Reading'
    BY <1>1, <1>3, <1>4, <1>5 DEF Reading, readerVars
<1>7. \A i \in steady' : /\ Key(query, i)' = Key(query, i)
                         /\ query = Orders => rows'[i].updatedAt = rows[i].updatedAt
  <2> SUFFICES ASSUME NEW i \in steady'
               PROVE  /\ Key(query, i)' = Key(query, i)
                      /\ query = Orders => rows'[i].updatedAt = rows[i].updatedAt
      OBVIOUS
  <2>1. i \in RowId /\ query' = query
      BY <1>4, <1>1 DEF Reading, readerVars
  <2>2. CASE i # id
      BY <1>3, <2>1, <2>2 DEF Key
  <2>3. CASE i = id
    <3>1. query # NoQuery
        BY <1>1, <1>4 DEF Reading
    <3>2. query.sort # "updatedAt"
        BY <2>3, <3>1 DEF TouchRow
    <3>3. query \in Trades /\ query.sort = "occurredAt" /\ query # Orders
        BY <1>1, <3>1, <3>2, ListingAssumption DEF Reading, Trades, Orders
    <3>4. rows'[i][query.sort] = rows[i][query.sort]
        BY <1>3, <2>3, <3>3
    <3> QED
        BY <2>1, <3>3, <3>4 DEF Key
  <2> QED
      BY <2>2, <2>3
<1> QED
    BY <1>4, <1>6, <1>7, RowsMove

LEMMA WipeKeeps ==
    ASSUME ListingInvariant, WipeRows
    PROVE  ListingInvariant'
<1>1. Reading
    BY DEF ListingInvariant
<1> DEFINE gone == {id \in RowId : rows[id].source = "subscriptions"}
<1>2. /\ rows' = [id \in RowId |-> IF id \in gone THEN Wiped ELSE rows[id]]
      /\ steady' = steady \ gone /\ now' = now /\ readerVars' = readerVars
    BY DEF WipeRows
<1>3. \A i \in steady' : i \in RowId /\ rows'[i] = rows[i]
    BY <1>1, <1>2 DEF Reading
<1>4. (steady \subseteq Matching(query))'
    BY <1>1, <1>2, <1>3 DEF Reading, Matching, readerVars
<1>5. rows' \in [RowId -> Rows \union {NoRow, Wiped}] /\ steady' \subseteq RowId
    BY <1>1, <1>2 DEF Reading
<1>6. steady = {} => steady' = {}
    BY <1>2
<1> HIDE DEF gone
<1>7. Reading'
    BY <1>1, <1>2, <1>4, <1>5, <1>6 DEF Reading, readerVars
<1>8. \A i \in steady' : /\ Key(query, i)' = Key(query, i)
                         /\ query = Orders => rows'[i].updatedAt = rows[i].updatedAt
    BY <1>2, <1>3 DEF Key, readerVars
<1>9. steady' \subseteq steady
    BY <1>2
<1> QED
    BY <1>2, <1>7, <1>8, <1>9, RowsMove

\* Three keys and ids in the order of a listing.
LEMMA OrderOfListing ==
    ASSUME NEW q, NEW k1 \in Int, NEW k2 \in Int, NEW k3 \in Int,
           NEW i1 \in Int, NEW i2 \in Int, NEW i3 \in Int,
           ~Beyond(q, k1, i1, k2, i2), Beyond(q, k3, i3, k2, i2)
    PROVE  Beyond(q, k3, i3, k1, i1)
BY SMT DEF Beyond

\* What has been listed before the last row of a page is not listed after the cursor
\* made of it; what comes after that row is, or its millisecond is lost.
LEMMA CursorsDivide ==
    ASSUME NEW q \in Queries, NEW k \in Nat, NEW i \in Nat, NEW key \in Nat, NEW last \in Nat
    PROVE  /\ k = key /\ i = last => ~Beyond(q, k, i, CursorKey(q, key), last)
           /\ Beyond(q, key, last, k, i) => ~Beyond(q, k, i, CursorKey(q, key), last)
           /\ Beyond(q, k, i, key, last) =>
                \/ Beyond(q, k, i, CursorKey(q, key), last)
                \/ q = Orders /\ key % Milli # 0 /\ key \div Milli = k \div Milli
<1> DEFINE c == CursorKey(q, key)
<1>1. /\ c \in Nat /\ c <= key
      /\ q # Orders => c = key
      /\ key % Milli = 0 => c = key
      /\ c <= k /\ k <= key => k \div Milli = key \div Milli \/ k = key
    BY CursorsTruncate
<1>2. q = Orders => q.direction # "asc"
    BY DEF Orders
<1>3. CASE q = Orders
  <2>1. CASE key % Milli = 0
      BY <1>1, <1>2, <1>3, <2>1, SMT DEF Beyond
  <2>2. CASE key % Milli # 0
      BY <1>1, <1>2, <1>3, <2>2, SMT DEF Beyond
  <2> QED
      BY <2>1, <2>2
<1>4. CASE q # Orders
    BY <1>1, <1>4, SMT DEF Beyond
<1> QED
    BY <1>3, <1>4

\* A page of what was fetched: the first of the rows that the cursor leaves.
PageOf(q, fetched, rest, page) ==
    /\ fetched \in Fetched(q)
    /\ rest = {id \in fetched : cursor # NoCursor => Beyond(q, Key(q, id), id, cursor.key, cursor.id)}
    /\ page \subseteq rest
    /\ \A i \in page, j \in rest \ page : Before(q, i, j)
    /\ \/ /\ ~ended'
          /\ \E last \in page :
               /\ \A i \in page \ {last} : Before(q, i, last)
               /\ cursor' = [key |-> CursorKey(q, Key(q, last)), id |-> last]
               /\ ends' = ends \union {rows[last][q.sort]}
       \/ ended' /\ page = rest /\ cursor' = NoCursor /\ ends' = ends
    /\ listed' = [id \in RowId |-> listed[id] + (IF id \in page THEN 1 ELSE 0)]
    /\ ended' \in BOOLEAN
    /\ crowded' = (crowded \/ fetched # Matching(q))

LEMMA PageListed ==
    ASSUME NEW q \in Queries, ListPage(q)
    PROVE  \E fetched, rest, page : PageOf(q, fetched, rest, page)
<1> DEFINE Rest(fetched) ==
        {id \in fetched : cursor # NoCursor => Beyond(q, Key(q, id), id, cursor.key, cursor.id)}
<1>1. PICK fetched \in Fetched(q) :
        \E page \in SUBSET Rest(fetched) :
          LET more == Cardinality(Rest(fetched)) > PageSize
          IN   /\ IF more THEN Cardinality(page) = PageSize ELSE page = Rest(fetched)
               /\ \A i \in page, j \in Rest(fetched) \ page : Before(q, i, j)
               /\ \/ /\ more
                     /\ \E last \in page :
                          /\ \A i \in page \ {last} : Before(q, i, last)
                          /\ cursor' = [key |-> CursorKey(q, Key(q, last)), id |-> last]
                          /\ ends' = ends \union {rows[last][q.sort]}
                  \/ ~more /\ cursor' = NoCursor /\ ends' = ends
               /\ listed' = [id \in RowId |-> listed[id] + (IF id \in page THEN 1 ELSE 0)]
               /\ ended' = ~more
               /\ crowded' = (crowded \/ fetched # Matching(q))
    BY Zenon DEF ListPage
<1> DEFINE rest == Rest(fetched)
           more == Cardinality(rest) > PageSize
<1>2. PICK page \in SUBSET rest :
          /\ IF more THEN Cardinality(page) = PageSize ELSE page = rest
          /\ \A i \in page, j \in rest \ page : Before(q, i, j)
          /\ \/ /\ more
                /\ \E last \in page :
                     /\ \A i \in page \ {last} : Before(q, i, last)
                     /\ cursor' = [key |-> CursorKey(q, Key(q, last)), id |-> last]
                     /\ ends' = ends \union {rows[last][q.sort]}
             \/ ~more /\ cursor' = NoCursor /\ ends' = ends
          /\ listed' = [id \in RowId |-> listed[id] + (IF id \in page THEN 1 ELSE 0)]
          /\ ended' = ~more
          /\ crowded' = (crowded \/ fetched # Matching(q))
    BY <1>1, Zenon
<1>3. PageOf(q, fetched, rest, page)
  <2>1. CASE more
      BY <1>2, <2>1, Zenon DEF PageOf
  <2>2. CASE ~more
      BY <1>2, <2>2, Zenon DEF PageOf
  <2> QED
      BY <2>1, <2>2
<1> QED
    BY <1>3

LEMMA FetchedMatches ==
    ASSUME NEW q, NEW fetched \in Fetched(q)
    PROVE  fetched \subseteq Matching(q)
<1>1. CASE q.resource = "orders"
    BY <1>1 DEF Fetched
<1>2. CASE q.resource # "orders"
    BY <1>2 DEF Fetched
<1> QED
    BY <1>1, <1>2

LEMMA PageKeeps ==
    ASSUME ListingInvariant, NEW q \in Queries, ListPage(q)
    PROVE  ListingInvariant'
<1>1. PICK fetched, rest, page : PageOf(q, fetched, rest, page)
    BY PageListed
<1>2. /\ query \in {NoQuery, q} /\ ~ended /\ query' = q
      /\ steady' = (IF query = NoQuery THEN Matching(q) ELSE steady)
      /\ rows' = rows /\ now' = now
    BY DEF ListPage, rowVars
<1>3. Reading /\ q # NoQuery /\ RowId \subseteq Nat
    BY ListingAssumption DEF ListingInvariant
<1>4. page \subseteq rest /\ rest \subseteq fetched /\ fetched \subseteq Matching(q)
    BY <1>1, FetchedMatches DEF PageOf
<1>5. \A id \in Matching(q) : /\ id \in RowId /\ rows[id] \in Rows
                              /\ Key(q, id) \in Nat /\ rows[id][q.sort] \in Nat
    BY <1>3, KeysTyped
<1>6. /\ (Matching(q))' = Matching(q)
      /\ \A id : Key(q, id)' = Key(q, id)
    BY <1>2 DEF Matching, Key
<1>7. steady' \subseteq Matching(q) /\ steady' \subseteq RowId
    BY <1>2, <1>3, <1>5 DEF Reading
<1>8. /\ ends' \subseteq Nat /\ ends \subseteq ends'
      /\ cursor' \in Cursor \union {NoCursor}
      /\ ended' <=> cursor' = NoCursor
  <2>1. CASE ended'
      BY <1>1, <1>3, <2>1 DEF PageOf, Reading
  <2>2. CASE ~ended'
    <3>1. PICK last \in page :
             /\ cursor' = [key |-> CursorKey(q, Key(q, last)), id |-> last]
             /\ ends' = ends \union {rows[last][q.sort]}
        BY <1>1, <2>2 DEF PageOf
    <3>2. last \in RowId /\ Key(q, last) \in Nat /\ rows[last][q.sort] \in Nat
        BY <1>4, <1>5
    <3>3. CursorKey(q, Key(q, last)) \in Nat
        BY <3>2, CursorsTruncate
    <3>4. cursor' \in Cursor
        BY <3>1, <3>2, <3>3 DEF Cursor
    <3> QED
        BY <1>3, <2>2, <3>1, <3>2, <3>4, ListingAssumption DEF Reading
  <2> QED
      BY <2>1, <2>2
<1>9. Reading'
  <2>1. listed' \in [RowId -> Nat]
      BY <1>1, <1>3 DEF PageOf, Reading
  <2>2. ended' \in BOOLEAN /\ crowded' \in BOOLEAN
      BY <1>1, <1>3 DEF PageOf, Reading
  <2>3. (steady \subseteq Matching(query))'
      BY <1>2, <1>6, <1>7
  <2> QED
      BY <1>2, <1>3, <1>7, <1>8, <2>1, <2>2, <2>3 DEF Reading
<1> SUFFICES ASSUME NEW id \in steady' PROVE Accounted(id)'
    BY <1>9 DEF ListingInvariant
<1>10. /\ id \in RowId /\ id \in Nat /\ id \in Matching(q) /\ Key(q, id) \in Nat
       /\ listed[id] \in Nat
    BY <1>3, <1>5, <1>7 DEF Reading
<1>11. LostWithFraction(id) /\ query # NoQuery => LostWithFraction(id)'
    BY <1>2, <1>8 DEF LostWithFraction
\* Before the page: listed and not to come again, or to come or lost.
<1>12. \/ listed[id] = 1 /\ id \notin rest
          /\ cursor \in Cursor /\ ~Beyond(q, Key(q, id), id, cursor.key, cursor.id)
       \/ listed[id] = 0 /\ (crowded' \/ LostWithFraction(id)' \/ id \in rest)
  <2>1. CASE query = NoQuery
    <3>1. listed[id] = 0 /\ cursor = NoCursor
        BY <1>3, <1>10, <2>1 DEF Reading
    <3> QED
        BY <1>1, <1>10, <3>1 DEF PageOf
  <2>2. CASE query # NoQuery
    <3>1. query = q /\ id \in steady /\ cursor \in Cursor /\ cursor # NoCursor
        BY <1>2, <1>3, <2>2 DEF Reading
    <3>2. Accounted(id)
        BY <3>1 DEF ListingInvariant
    <3>3. Ahead(id) <=> Beyond(q, Key(q, id), id, cursor.key, cursor.id)
        BY <3>1 DEF Ahead
    <3>4. id \in rest <=> id \in fetched /\ Ahead(id)
        BY <1>1, <3>1, <3>3 DEF PageOf
    <3>5. CASE listed[id] = 1 /\ ~Ahead(id)
        BY <3>1, <3>3, <3>4, <3>5
    <3>6. CASE listed[id] = 0 /\ (crowded \/ LostWithFraction(id) \/ Ahead(id))
      <4>1. crowded' = (crowded \/ fetched # Matching(q))
          BY <1>1 DEF PageOf
      <4>2. crowded' \/ id \in fetched
          BY <1>10, <4>1
      <4>3. crowded => crowded'
          BY <4>1
      <4> QED
          BY <1>11, <2>2, <3>4, <3>6, <4>2, <4>3
    <3> QED
        BY <1>2, <3>2, <3>5, <3>6 DEF Accounted
  <2> QED
      BY <2>1, <2>2
<1>13. listed'[id] = listed[id] + (IF id \in page THEN 1 ELSE 0)
    BY <1>1, <1>10 DEF PageOf
<1>14. CASE ended'
  <2>1. page = rest
      BY <1>1, <1>14 DEF PageOf
  <2>2. CASE id \in page
      BY <1>4, <1>10, <1>12, <1>13, <1>14, <2>2, SMT DEF Accounted
  <2>3. CASE id \notin page
      BY <1>10, <1>12, <1>13, <1>14, <2>1, <2>3, SMT DEF Accounted
  <2> QED
      BY <2>2, <2>3
<1>15. CASE ~ended'
  <2>1. PICK last \in page :
           /\ \A i \in page \ {last} : Before(q, i, last)
           /\ cursor' = [key |-> CursorKey(q, Key(q, last)), id |-> last]
           /\ ends' = ends \union {rows[last][q.sort]}
      BY <1>1, <1>15 DEF PageOf
  <2> DEFINE key == Key(q, last)
             k == Key(q, id)
  <2>2. last \in Nat /\ key \in Nat /\ last \in rest
      BY <1>3, <1>4, <1>5
  <2>3. Ahead(id)' <=> Beyond(q, k, id, CursorKey(q, key), last)
      BY <1>2, <1>6, <2>1 DEF Ahead
  <2>4. /\ k = key /\ id = last => ~Ahead(id)'
        /\ Beyond(q, key, last, k, id) => ~Ahead(id)'
        /\ Beyond(q, k, id, key, last) =>
             Ahead(id)' \/ (q = Orders /\ key % Milli # 0 /\ key \div Milli = k \div Milli)
      BY <1>10, <2>2, <2>3, CursorsDivide
  <2>5. \A i, j : Before(q, i, j) <=> Beyond(q, Key(q, j), j, Key(q, i), i)
      BY SMT DEF Before, Beyond
  <2>6. CASE id \in page
    <3>1. ~Ahead(id)'
        BY <2>1, <2>4, <2>5, <2>6
    <3> QED
        BY <1>4, <1>10, <1>12, <1>13, <2>6, <3>1, SMT DEF Accounted
  <2>7. CASE id \notin page /\ listed[id] = 1
    <3>1. /\ cursor \in Cursor /\ ~Beyond(q, k, id, cursor.key, cursor.id)
          /\ cursor.key \in Int /\ cursor.id \in Int
      <4>1. cursor \in Cursor /\ ~Beyond(q, k, id, cursor.key, cursor.id)
          BY <1>12, <2>7
      <4>2. cursor.key \in Nat /\ cursor.id \in RowId
          BY <4>1 DEF Cursor
      <4>3. cursor.key \in Int /\ cursor.id \in Int
        <5>1. \A x : x \in Nat => x \in Int
            BY SMT
        <5>2. cursor.id \in Nat
            BY <1>3, <4>2, Zenon
        <5> QED
            BY <4>2, <5>1, <5>2, Zenon
      <4> QED
          BY <4>1, <4>3
    <3>2. Beyond(q, key, last, cursor.key, cursor.id)
        BY <1>1, <2>2, <3>1, ListingAssumption DEF PageOf
    <3>3. k \in Int /\ key \in Int /\ id \in Int /\ last \in Int
        BY <1>10, <2>2
    <3>4. Beyond(q, key, last, k, id)
        BY <3>1, <3>2, <3>3, OrderOfListing
    <3> QED
        BY <1>10, <1>13, <2>4, <2>7, <3>4, SMT DEF Accounted
  <2>8. CASE id \notin page /\ listed[id] = 0
    <3>1. listed'[id] = 0
        BY <1>13, <2>8
    <3>2. CASE id \in rest
      <4>1. Beyond(q, k, id, key, last)
          BY <1>1, <2>1, <2>5, <2>8, <3>2 DEF PageOf
      <4>2. ASSUME q = Orders, key % Milli # 0, key \div Milli = k \div Milli
            PROVE  LostWithFraction(id)'
        <5>1. /\ query'.resource = "orders"
              /\ key = rows[last].updatedAt /\ k = rows[id].updatedAt
            BY <1>2, <4>2 DEF Orders, Key
        <5>2. key \in ends'
            BY <2>1, <4>2, <5>1 DEF Orders
        <5> QED
            BY <1>2, <4>2, <5>1, <5>2 DEF LostWithFraction
      <4> QED
          BY <1>15, <2>4, <3>1, <4>1, <4>2 DEF Accounted
    <3>3. CASE id \notin rest
        BY <1>12, <2>8, <3>1, <3>3 DEF Accounted
    <3> QED
        BY <3>2, <3>3
  <2> QED
      BY <1>12, <2>6, <2>7, <2>8
<1> QED
    BY <1>14, <1>15

\* Whoever follows the cursor to the end gets every row that was there all the time
\* once and only once, for any rows, queries, page size and order of events, unless
\* a page left rows out for the limit of what is fetched, or a date in a cursor cut
\* off the fraction of its order's time (listTrades, listOrders).
THEOREM RowsAreListedOnce == ListingsSpec => []ListedOnce
<1>1. ListingInvariant /\ [ListingsNext]_listingVars => ListingInvariant'
  <2> SUFFICES ASSUME ListingInvariant, [ListingsNext]_listingVars PROVE ListingInvariant'
      OBVIOUS
  <2>1. Reading
      BY DEF ListingInvariant
  <2>2. ASSUME NEW id \in RowId, AddOwn(id) PROVE ListingInvariant'
      BY <2>1, <2>2, AddKeeps DEF AddOwn, Reading
  <2>3. ASSUME NEW id \in RowId, NEW block \in 0..now, AddSubscribed(id, block) PROVE ListingInvariant'
    <3>1. block \in Nat
        BY <2>1 DEF Reading
    <3> QED
        BY <2>3, <3>1, AddKeeps DEF AddSubscribed
  <2>4. CASE Elapse
    <3>1. Reading' /\ steady' = steady /\ rows' = rows /\ readerVars' = readerVars
        BY <2>1, <2>4 DEF Elapse, Reading, readerVars, Matching
    <3>2. \A id \in steady' : /\ Key(query, id)' = Key(query, id)
                              /\ query = Orders => rows'[id].updatedAt = rows[id].updatedAt
        BY <3>1 DEF Key, readerVars
    <3> QED
        BY <3>1, <3>2, RowsMove
  <2>5. CASE UNCHANGED listingVars
    <3>1. /\ now' = now /\ rows' = rows /\ steady' = steady
          /\ readerVars' = readerVars
        BY <2>5 DEF listingVars, rowVars
    <3>2. Reading'
        BY <2>1, <3>1 DEF Reading, readerVars, Matching
    <3>3. \A id \in steady' : /\ Key(query, id)' = Key(query, id)
                              /\ query = Orders => rows'[id].updatedAt = rows[id].updatedAt
        BY <3>1 DEF Key, readerVars
    <3> QED
        BY <3>1, <3>2, <3>3, RowsMove
  <2> QED
      BY <2>2, <2>3, <2>4, <2>5, TouchKeeps, WipeKeeps, PageKeeps DEF ListingsNext
<1>2. ListingInvariant => ListedOnce
  <2> SUFFICES ASSUME ListingInvariant, NEW id \in steady
               PROVE  /\ listed[id] <= 1
                      /\ ended /\ ~crowded => listed[id] = 1 \/ LostWithFraction(id)
      BY DEF ListedOnce
  <2> QED
      BY DEF ListingInvariant, Accounted
<1> QED
    BY <1>1, <1>2, ListingBegins, PTL DEF ListingsSpec

=============================================================================
