-------------------------- MODULE Accounts_proofs --------------------------
(***************************************************************************)
(* Theorems about the accounts, for any numbers of users, bodies, requests *)
(* and tokens.                                                             *)
(***************************************************************************)
EXTENDS Accounts, Listing_proofs

\* The arguments a request needs where it is.
ArgsOK(q) ==
  /\ q.at \in {"checkingName", "writing"} => q.update \in Update
  /\ q.at \in {"checkingName", "writing", "deleting"} => q.id \in Ids
  /\ q.at = "signing" => q.identity \in Identity

ArgsInv == \A h \in Requests : ArgsOK(request[h])
TypeInv == TypeOK /\ ArgsInv

LEMMA UpdatedTyped ==
  ASSUME NEW row \in Row, NEW update \in Update
  PROVE  Updated(row, update) \in Row
  BY DEF Updated, Value, Row, Update, Fields

LEMMA RowOfTyped ==
  ASSUME NEW body \in Body
  PROVE  RowOf(body) \in Row
  BY DEF RowOf, Row, Body, Roles

LEMMA IdentityTyped ==
  ASSUME NEW i \in Ids, NEW row \in Row, NEW p \in Passwords
  PROVE  IdentityOf(i, row, p) \in Identity
  BY DEF IdentityOf, Identity, Row

LEMMA IdleTyped == Idle \in Request /\ ArgsOK(Idle) /\ Idle.at = "idle"
  BY BodiesAssumption DEF Idle, Request, Steps, ArgsOK

\* A request that goes on to another step, or ends, leaves the others alone.
LEMMA RequestTyped ==
  ASSUME TypeInv, NEW h \in Requests, NEW q \in Request, ArgsOK(q),
         request' = [request EXCEPT ![h] = q]
  PROVE  request' \in [Requests -> Request] /\ ArgsInv'
  BY DEF TypeInv, TypeOK, ArgsInv, ArgsOK

LEMMA InitTyped == Init => TypeInv
  <1> SUFFICES ASSUME Init PROVE TypeInv
    OBVIOUS
  <1> USE IdleTyped DEF Init
  <1>1. TypeOK
    BY BoundsAssumption DEF TypeOK, Ids
  <1>2. ArgsInv
    BY DEF ArgsInv
  <1> QED
    BY <1>1, <1>2 DEF TypeInv

LEMMA WriteTyped ==
  ASSUME TypeInv, NEW id \in Ids, NEW row \in Row, Write(id, row)
  PROVE  /\ users' \in [Ids -> Row \cup {None}]
         /\ stored' \subseteq [id : Ids, row : Row]
  BY DEF Write, TypeInv, TypeOK

LEMMA InsertedTyped ==
  ASSUME TypeInv, NEW h \in Requests, NEW row \in Row, Inserted(h, row)
  PROVE  TypeInv'
  <1>1. created + 1 \in Ids /\ created' \in 0 .. MaxUsers
    BY BoundsAssumption DEF TypeInv, TypeOK, Inserted, Ids
  <1>2. Write(created + 1, row)
    BY DEF Inserted
  <1> DEFINE i == IdentityOf(created + 1, row, request[h].body.password)
             q == IF request[h].from # "auth" THEN Idle
                  ELSE [Idle EXCEPT !.at = "signing", !.identity = i]
  <1>3. i \in Identity
    BY <1>1, IdentityTyped DEF TypeInv, TypeOK, Request, Body
  <1>4. q \in Request /\ ArgsOK(q)
    BY <1>3, IdleTyped DEF Request, ArgsOK, Steps, Idle
  <1>5. request' = [request EXCEPT ![h] = q]
    BY DEF Inserted
  <1> HIDE DEF q
  <1>6. request' \in [Requests -> Request] /\ ArgsInv'
    BY <1>4, <1>5, RequestTyped
  <1> QED
    BY <1>1, <1>2, <1>6, WriteTyped DEF TypeInv, TypeOK, Inserted

LEMMA NextTyped == TypeInv /\ [Next]_vars => TypeInv'
  <1> SUFFICES ASSUME TypeInv, [Next]_vars PROVE TypeInv'
    OBVIOUS
  <1> USE IdleTyped, RequestTyped DEF TypeInv, database
  <1>1. ASSUME NEW h \in Requests, NEW body \in Bodies, createUser(h, body)
        PROVE  TypeInv'
    <2> DEFINE q == [Idle EXCEPT !.at = "inserting", !.body = body]
    <2>1. q \in Request /\ ArgsOK(q)
      BY BodiesAssumption DEF Request, Steps, ArgsOK, Idle
    <2> QED
      BY <1>1, <2>1 DEF createUser, Start, TypeOK
  <1>16. ASSUME NEW h \in Requests, NEW body \in Bodies, register(h, body)
         PROVE  TypeInv'
    <2> DEFINE given == [body EXCEPT !.role = None]
               q == [Idle EXCEPT !.at = "inserting", !.from = "auth", !.body = given]
    <2>1. given \in Body
      BY BodiesAssumption DEF Body
    <2>2. q \in Request /\ ArgsOK(q)
      BY <2>1 DEF Request, Steps, ArgsOK, Idle
    <2> QED
      BY <1>16, <2>2 DEF register, Start, TypeOK
  <1>2. ASSUME NEW h \in Requests, onModuleInit(h)
        PROVE  TypeInv'
    <2> DEFINE q == [Idle EXCEPT !.at = "creating", !.from = "seeder"]
    <2>1. q \in Request /\ ArgsOK(q)
      BY DEF Request, Steps, ArgsOK, Idle
    <2> QED
      BY <1>2, <2>1 DEF onModuleInit, Start, TypeOK
  <1>3. ASSUME NEW h \in Requests, createAdmin(h)
        PROVE  TypeInv'
    <2> DEFINE q == [request[h] EXCEPT !.at = "inserting"]
    <2>1. q \in Request /\ ArgsOK(q)
      BY <1>3 DEF Request, Steps, ArgsOK, TypeOK
    <2> QED
      BY <1>3, <2>1 DEF createAdmin, Goto, TypeOK
  <1>4. ASSUME NEW h \in Requests, createNewUser(h)
        PROVE  TypeInv'
    BY <1>4, RowOfTyped, InsertedTyped DEF createNewUser, TypeOK, Request
  <1>5. ASSUME NEW h \in Requests, NEW id \in Ids, NEW update \in Updates,
               updateUserById(h, id, update)
        PROVE  TypeInv'
    <2>1. PICK step \in {"checkingName", "writing"} :
            request' = [request EXCEPT ![h] =
                          [Idle EXCEPT !.id = id, !.update = update, !.at = step]]
      BY <1>5 DEF updateUserById, Start
    <2> DEFINE q == [Idle EXCEPT !.id = id, !.update = update, !.at = step]
    <2>2. q \in Request /\ ArgsOK(q)
      BY BodiesAssumption DEF Request, Steps, ArgsOK, Idle
    <2> QED
      BY <1>5, <2>1, <2>2 DEF updateUserById, TypeOK
  <1>6. ASSUME NEW h \in Requests, NEW id \in Ids, deleteUserById(h, id)
        PROVE  TypeInv'
    <2> DEFINE q == [Idle EXCEPT !.at = "deleting", !.id = id]
    <2>1. q \in Request /\ ArgsOK(q)
      BY DEF Request, Steps, ArgsOK, Idle
    <2> QED
      BY <1>6, <2>1 DEF deleteUserById, Start, TypeOK
  <1>7. ASSUME NEW h \in Requests, checkName(h)
        PROVE  TypeInv'
    <2> DEFINE q == [request[h] EXCEPT !.at = "writing"]
    <2>1. q \in Request /\ ArgsOK(q)
      BY <1>7 DEF Request, Steps, ArgsOK, TypeOK, checkName, ArgsInv
    <2> QED
      BY <1>7, <2>1 DEF checkName, Goto, TypeOK
  <1>8. ASSUME NEW h \in Requests, writeUpdate(h)
        PROVE  TypeInv'
    <2> DEFINE row == Updated(users[request[h].id], request[h].update)
    <2>1. request[h].id \in Ids /\ request[h].update \in Update
      BY <1>8 DEF writeUpdate, ArgsInv, ArgsOK
    <2>2. row \in Row
      BY <1>8, <2>1, UpdatedTyped DEF writeUpdate, Present, TypeOK
    <2>3. Write(request[h].id, row) /\ request' = [request EXCEPT ![h] = Idle]
      BY <1>8 DEF writeUpdate, Finish
    <2> QED
      BY <1>8, <2>1, <2>2, <2>3, WriteTyped DEF writeUpdate, TypeOK
  <1>9. ASSUME NEW h \in Requests, deleteRow(h)
        PROVE  TypeInv'
    BY <1>9 DEF deleteRow, Finish, TypeOK
  <1>10. ASSUME NEW h \in Requests, NEW name \in Names, NEW p \in Passwords,
                validateUser(h, name, p)
         PROVE  TypeInv'
    <2>1. PICK i \in Named(name) :
            request' = [request EXCEPT ![h] = [Idle EXCEPT !.at = "signing",
                          !.identity = IdentityOf(i, users[i], p)]]
      BY <1>10 DEF validateUser, Start
    <2> DEFINE q == [Idle EXCEPT !.at = "signing",
                                 !.identity = IdentityOf(i, users[i], p)]
    <2>2. IdentityOf(i, users[i], p) \in Identity
      BY IdentityTyped DEF Named, Present, TypeOK
    <2>3. q \in Request /\ ArgsOK(q)
      BY <2>2 DEF Request, Steps, ArgsOK, Idle
    <2> QED
      BY <1>10, <2>1, <2>3 DEF validateUser, TypeOK
  <1>11. ASSUME NEW h \in Requests, login(h)
         PROVE  TypeInv'
    BY <1>11 DEF login, Finish, TypeOK, ArgsInv, ArgsOK
  <1>12. ASSUME NEW h \in Requests, Abandon(h)
         PROVE  TypeInv'
    BY <1>12 DEF Abandon, Finish, TypeOK
  <1>13. ASSUME NEW token \in tokens, expire(token) \/ canActivate(token)
         PROVE  TypeInv'
    BY <1>13 DEF expire, canActivate, TypeOK, ArgsInv, ArgsOK
  <1>14. CASE disconnect
    BY <1>14 DEF disconnect, TypeOK, ArgsInv, ArgsOK
  <1>15. CASE UNCHANGED vars
    BY <1>15 DEF vars, TypeOK, ArgsInv, ArgsOK
  <1> QED
    BY <1>1, <1>2, <1>3, <1>4, <1>5, <1>6, <1>7, <1>8, <1>9, <1>10, <1>11, <1>12,
       <1>13, <1>14, <1>15, <1>16 DEF Next

LEMMA TypeInvAlways == Spec => []TypeInv
  BY InitTyped, NextTyped, PTL DEF Spec

\* Everything keeps its type: no request reads an argument it was not given.
THEOREM TypeCorrect == Spec => []TypeOK
  <1>1. TypeInv => TypeOK
    BY DEF TypeInv
  <1> QED
    BY <1>1, TypeInvAlways, PTL
-----------------------------------------------------------------------------
(* What changes the table: an insert of the next id, an update or a delete *)
(* of a row that is there.                                                 *)

Inserts(h) == LET row == RowOf(request[h].body) IN
  /\ created + 1 \in Ids
  /\ created' = created + 1
  /\ row \in Row
  /\ Unique(None, row)
  /\ Write(created + 1, row)

Overwrites(h) == LET me == request[h]
                     row == Updated(users[me.id], me.update) IN
  /\ me.at = "writing"
  /\ me.id \in Present
  /\ row \in Row
  /\ Unique(me.id, row)
  /\ Write(me.id, row)
  /\ UNCHANGED created

Deletes(h) ==
  /\ request[h].at = "deleting"
  /\ request[h].id \in Present
  /\ users' = [users EXCEPT ![request[h].id] = None]
  /\ UNCHANGED <<created, stored>>

LEMMA TableSteps ==
  ASSUME TypeInv, [Next]_vars
  PROVE  \/ \E h \in Requests : Inserts(h) \/ Overwrites(h) \/ Deletes(h)
         \/ UNCHANGED database
  <1> USE DEF database
  <1>1. ASSUME NEW h \in Requests, createNewUser(h) PROVE Inserts(h)
    BY <1>1, RowOfTyped, BoundsAssumption
    DEF createNewUser, Inserted, Inserts, TypeInv, TypeOK, Request, Ids
  <1>2. ASSUME NEW h \in Requests, writeUpdate(h) PROVE Overwrites(h)
    BY <1>2, UpdatedTyped
    DEF writeUpdate, Overwrites, TypeInv, TypeOK, ArgsInv, ArgsOK, Present
  <1>3. ASSUME NEW h \in Requests, deleteRow(h) PROVE Deletes(h)
    BY <1>3 DEF deleteRow, Deletes
  <1>4. ASSUME NEW h \in Requests,
               \/ \E body \in Bodies : createUser(h, body) \/ register(h, body)
               \/ onModuleInit(h) \/ createAdmin(h)
               \/ \E id \in Ids :
                    \/ \E update \in Updates : updateUserById(h, id, update)
                    \/ deleteUserById(h, id)
               \/ checkName(h) \/ login(h) \/ Abandon(h)
               \/ \E name \in Names, password \in Passwords :
                    validateUser(h, name, password)
        PROVE  UNCHANGED database
    BY <1>4 DEF createUser, register, onModuleInit, createAdmin, updateUserById,
      deleteUserById, checkName, login, Abandon, validateUser
  <1>5. ASSUME \/ \E token \in tokens : expire(token) \/ canActivate(token)
               \/ disconnect
               \/ UNCHANGED vars
        PROVE  UNCHANGED database
    BY <1>5 DEF expire, canActivate, disconnect, vars
  <1> QED
    BY <1>1, <1>2, <1>3, <1>4, <1>5 DEF Next

LEMMA LoginsStay == TypeInv /\ OneAccountPerLogin /\ [Next]_vars => OneAccountPerLogin'
  <1> SUFFICES ASSUME TypeInv, OneAccountPerLogin, [Next]_vars
               PROVE  OneAccountPerLogin'
    OBVIOUS
  <1> USE NoneAssumption DEF OneAccountPerLogin, Present, Unique, Write, TypeInv, TypeOK
  <1>1. ASSUME NEW h \in Requests, Inserts(h) PROVE OneAccountPerLogin'
    BY <1>1 DEF Inserts
  <1>2. ASSUME NEW h \in Requests, Overwrites(h) PROVE OneAccountPerLogin'
    BY <1>2 DEF Overwrites
  <1>3. ASSUME NEW h \in Requests, Deletes(h) PROVE OneAccountPerLogin'
    BY <1>3 DEF Deletes
  <1>4. CASE UNCHANGED database
    BY <1>4 DEF database
  <1> QED
    BY <1>1, <1>2, <1>3, <1>4, TableSteps

\* Two accounts never share a username or an email, however creations, renamings
\* and the seeders of several instances interleave.
THEOREM OneAccountPerLoginAlways == Spec => []OneAccountPerLogin
  <1>1. Init => OneAccountPerLogin
    BY DEF Init, OneAccountPerLogin, Present
  <1> QED
    BY <1>1, LoginsStay, TypeInvAlways, PTL DEF Spec

\* A row changes only by an update that gives the fields that change, or by its
\* delete; and a deleted account never returns.
THEOREM OnlyAskedChangesAlways == Spec => OnlyAskedChanges
  <1> DEFINE A == \A i \in 1 .. created : users'[i] # users[i] =>
       /\ users[i] # None
       /\ \E h \in Requests :
            /\ request[h].id = i
            /\ \/ request[h].at = "deleting" /\ users'[i] = None
               \/ /\ request[h].at = "writing"
                  /\ users'[i] = Updated(users[i], request[h].update)
  <1>1. ASSUME TypeInv, [Next]_vars PROVE A
    <2> USE <1>1 DEF TypeInv, TypeOK, Present, Write
    <2>1. 1 .. created \subseteq Ids
      BY BoundsAssumption DEF Ids
    <2>2. ASSUME NEW h \in Requests, Inserts(h) PROVE A
      BY <2>1, <2>2 DEF Inserts
    <2>3. ASSUME NEW h \in Requests, Overwrites(h) PROVE A
      BY <2>1, <2>3 DEF Overwrites
    <2>4. ASSUME NEW h \in Requests, Deletes(h) PROVE A
      BY <2>1, <2>4 DEF Deletes
    <2>5. CASE UNCHANGED database
      BY <2>5 DEF database
    <2> QED
      BY <2>2, <2>3, <2>4, <2>5, TableSteps
  <1>2. TypeInv /\ [Next]_vars => [A]_vars
    BY <1>1
  <1> QED
    BY <1>2, TypeInvAlways, PTL DEF Spec, OnlyAskedChanges
-----------------------------------------------------------------------------
(* Tokens: what a request is about to sign is what it has read.  *)

EarnedBy(t, s) == /\ s.id = t.id
                  /\ s.row.username = t.username
                  /\ s.row.role = t.role
                  /\ s.row.password = Hash(t.provenBy)
Earned(t) == \E s \in stored : EarnedBy(t, s)
EarnedAfter(t) == \E s \in stored' : EarnedBy(t, s)

\* Rows are in the history, and so is what tokens, the socket and the requests
\* that are about to sign were read from.
EarnedInv ==
  /\ \A i \in Present : [id |-> i, row |-> users[i]] \in stored
  /\ \A t \in InUse : Earned(t)
  /\ \A h \in Requests : request[h].at = "signing" => Earned(request[h].identity)

LEMMA RowEarns ==
  ASSUME NEW i \in Ids, NEW row \in Row, NEW p \in Passwords, row.password = Hash(p)
  PROVE  EarnedBy(IdentityOf(i, row, p), [id |-> i, row |-> row])
  BY DEF EarnedBy, IdentityOf

LEMMA HistoryGrows ==
  ASSUME TypeInv, EarnedInv, [Next]_vars
  PROVE  /\ stored \subseteq stored'
         /\ (\A i \in Present : [id |-> i, row |-> users[i]] \in stored)'
  <1> USE DEF EarnedInv, Present, Write, TypeInv, TypeOK
  <1>1. ASSUME NEW h \in Requests, Inserts(h) \/ Overwrites(h) \/ Deletes(h)
        PROVE  stored \subseteq stored'
    BY <1>1 DEF Inserts, Overwrites, Deletes
  <1>2. ASSUME NEW h \in Requests, Inserts(h)
        PROVE  (\A i \in Present : [id |-> i, row |-> users[i]] \in stored)'
    BY <1>2 DEF Inserts
  <1>3. ASSUME NEW h \in Requests, Overwrites(h)
        PROVE  (\A i \in Present : [id |-> i, row |-> users[i]] \in stored)'
    BY <1>3 DEF Overwrites
  <1>4. ASSUME NEW h \in Requests, Deletes(h)
        PROVE  (\A i \in Present : [id |-> i, row |-> users[i]] \in stored)'
    BY <1>4 DEF Deletes
  <1>5. CASE UNCHANGED database
    BY <1>5 DEF database
  <1> QED
    BY <1>1, <1>2, <1>3, <1>4, <1>5, TableSteps

LEMMA EarnedStays == TypeInv /\ EarnedInv /\ [Next]_vars => EarnedInv'
  <1> SUFFICES ASSUME TypeInv, EarnedInv, [Next]_vars PROVE EarnedInv'
    OBVIOUS
  <1>1. \A t : Earned(t) => EarnedAfter(t)
    BY HistoryGrows DEF Earned, EarnedAfter
  <1> DEFINE Use == \A t \in InUse' : EarnedAfter(t)
             Signing == \A h \in Requests :
               request'[h].at = "signing" => EarnedAfter(request'[h].identity)
  <1>2. ASSUME NEW h \in Requests, NEW q, q.at = "signing" => EarnedAfter(q.identity),
               request' = [request EXCEPT ![h] = q]
        PROVE  Signing
    <2> SUFFICES ASSUME NEW g \in Requests, request'[g].at = "signing"
                 PROVE  EarnedAfter(request'[g].identity)
      OBVIOUS
    <2> QED
      BY <1>1, <1>2 DEF EarnedInv, TypeInv, TypeOK
  <1>3. ASSUME UNCHANGED <<tokens, socket>> PROVE Use
    BY <1>1, <1>3 DEF InUse, EarnedInv
  <1>4. ASSUME NEW h \in Requests, NEW body \in Bodies, createUser(h, body)
        PROVE  Use /\ Signing
    <2> DEFINE q == [Idle EXCEPT !.at = "inserting", !.body = body]
    <2>1. q.at # "signing"
      BY DEF Idle
    <2> QED
      BY <1>2, <1>3, <1>4, <2>1 DEF createUser, Start
  <1>5. ASSUME NEW h \in Requests, NEW body \in Bodies, register(h, body)
        PROVE  Use /\ Signing
    <2> DEFINE q == [Idle EXCEPT !.at = "inserting", !.from = "auth",
                                 !.body = [body EXCEPT !.role = None]]
    <2>1. q.at # "signing"
      BY DEF Idle
    <2> QED
      BY <1>2, <1>3, <1>5, <2>1 DEF register, Start
  <1>6. ASSUME NEW h \in Requests, onModuleInit(h)
        PROVE  Use /\ Signing
    <2> DEFINE q == [Idle EXCEPT !.at = "creating", !.from = "seeder"]
    <2>1. q.at # "signing"
      BY DEF Idle
    <2> QED
      BY <1>2, <1>3, <1>6, <2>1 DEF onModuleInit, Start
  <1>7. ASSUME NEW h \in Requests, NEW step \in {"inserting", "writing"}, Goto(h, step),
               UNCHANGED <<tokens, socket>>
        PROVE  Use /\ Signing
    <2> DEFINE q == [request[h] EXCEPT !.at = step]
    <2>1. q.at # "signing"
      BY DEF TypeInv, TypeOK, Request
    <2> QED
      BY <1>2, <1>3, <1>7, <2>1 DEF Goto
  <1>8. ASSUME NEW h \in Requests, createNewUser(h)
        PROVE  Use /\ Signing
    <2> DEFINE row == RowOf(request[h].body)
               i == IdentityOf(created + 1, row, request[h].body.password)
               q == IF request[h].from # "auth" THEN Idle
                    ELSE [Idle EXCEPT !.at = "signing", !.identity = i]
    <2>1. /\ created + 1 \in Ids
          /\ request[h].body \in Body
          /\ request[h].body.password \in Passwords
      BY <1>8, BoundsAssumption
      DEF createNewUser, Inserted, TypeInv, TypeOK, Ids, Request, Body
    <2>2. row \in Row /\ row.password = Hash(request[h].body.password)
      BY <2>1, RowOfTyped DEF RowOf
    <2>3. EarnedBy(i, [id |-> created + 1, row |-> row])
      BY <2>1, <2>2, RowEarns
    <2>4. [id |-> created + 1, row |-> row] \in stored'
      BY <1>8 DEF createNewUser, Inserted, Write
    <2>5. EarnedAfter(i)
      BY <2>3, <2>4 DEF EarnedAfter
    <2>6. q.at = "signing" => q.identity = i
      BY DEF Idle
    <2>7. q.at = "signing" => EarnedAfter(q.identity)
      BY <2>5, <2>6
    <2>8. request' = [request EXCEPT ![h] = q] /\ UNCHANGED <<tokens, socket>>
      BY <1>8 DEF createNewUser, Inserted
    <2> HIDE DEF q
    <2> QED
      BY <1>2, <1>3, <2>7, <2>8
  <1>9. ASSUME NEW h \in Requests, NEW id \in Ids, NEW update \in Updates,
               updateUserById(h, id, update)
        PROVE  Use /\ Signing
    <2>1. PICK step \in {"checkingName", "writing"} :
            request' = [request EXCEPT ![h] =
                          [Idle EXCEPT !.id = id, !.update = update, !.at = step]]
      BY <1>9 DEF updateUserById, Start
    <2> DEFINE q == [Idle EXCEPT !.id = id, !.update = update, !.at = step]
    <2>2. q.at # "signing"
      BY DEF Idle
    <2> QED
      BY <1>2, <1>3, <1>9, <2>1, <2>2 DEF updateUserById
  <1>10. ASSUME NEW h \in Requests, NEW id \in Ids, deleteUserById(h, id)
         PROVE  Use /\ Signing
    <2> DEFINE q == [Idle EXCEPT !.at = "deleting", !.id = id]
    <2>1. q.at # "signing"
      BY DEF Idle
    <2> QED
      BY <1>2, <1>3, <1>10, <2>1 DEF deleteUserById, Start
  <1>11. ASSUME NEW h \in Requests, NEW name \in Names, NEW p \in Passwords,
                validateUser(h, name, p)
         PROVE  Use /\ Signing
    <2>1. PICK i \in Named(name) :
            /\ users[i].password = Hash(p)
            /\ request' = [request EXCEPT ![h] = [Idle EXCEPT !.at = "signing",
                             !.identity = IdentityOf(i, users[i], p)]]
      BY <1>11 DEF validateUser, Start
    <2> DEFINE q == [Idle EXCEPT !.at = "signing",
                                 !.identity = IdentityOf(i, users[i], p)]
    <2>2. i \in Present /\ i \in Ids /\ users[i] \in Row
      BY DEF Named, Present, TypeInv, TypeOK
    <2>3. EarnedBy(IdentityOf(i, users[i], p), [id |-> i, row |-> users[i]])
      BY <2>1, <2>2, RowEarns
    <2>4. Earned(IdentityOf(i, users[i], p))
      BY <2>2, <2>3 DEF Earned, EarnedInv
    <2>5. q.identity = IdentityOf(i, users[i], p)
      BY DEF Idle
    <2>6. EarnedAfter(q.identity)
      BY <1>1, <2>4, <2>5
    <2> QED
      BY <1>2, <1>3, <1>11, <2>1, <2>6 DEF validateUser
  <1>12. ASSUME NEW h \in Requests, Finish(h) PROVE Signing
    BY <1>2, <1>12, IdleTyped DEF Finish
  <1>13. ASSUME NEW h \in Requests, login(h) PROVE Use
    BY <1>1, <1>13 DEF login, InUse, EarnedInv
  <1>14. ASSUME UNCHANGED request PROVE Signing
    BY <1>1, <1>14 DEF EarnedInv
  <1>15. ASSUME \E token \in tokens : expire(token) \/ canActivate(token)
         PROVE  Use /\ Signing
    BY <1>1, <1>14, <1>15 DEF expire, canActivate, InUse, EarnedInv
  <1>16. ASSUME disconnect PROVE Use /\ Signing
    BY <1>1, <1>14, <1>16 DEF disconnect, InUse, EarnedInv
  <1>17. Use /\ Signing
    <2>1. ASSUME NEW h \in Requests, createAdmin(h) \/ checkName(h) PROVE Use /\ Signing
      BY <1>7, <2>1 DEF createAdmin, checkName
    <2>2. ASSUME NEW h \in Requests, writeUpdate(h) \/ deleteRow(h) \/ Abandon(h)
          PROVE  Use /\ Signing
      BY <1>3, <1>12, <2>2 DEF writeUpdate, deleteRow, Abandon
    <2>3. ASSUME NEW h \in Requests, login(h) PROVE Use /\ Signing
      BY <1>12, <1>13, <2>3 DEF login
    <2>4. CASE UNCHANGED vars
      BY <1>3, <1>14, <2>4 DEF vars
    <2> HIDE DEF Use, Signing
    <2> QED
      BY <1>4, <1>5, <1>6, <1>8, <1>9, <1>10, <1>11, <1>15, <1>16, <2>1, <2>2, <2>3, <2>4
      DEF Next
  <1> QED
    BY <1>17, HistoryGrows DEF EarnedInv, Earned, EarnedAfter

\* A token, and the user a socket keeps after the guard's first look, is what the
\* account was when the password it was issued for was the account's, whatever
\* has become of the account since it was read.
THEOREM TokensEarnedAlways == Spec => []TokensEarned
  <1>1. Init => EarnedInv
    BY IdleTyped DEF Init, EarnedInv, Present, InUse
  <1>2. EarnedInv => TokensEarned
    BY DEF EarnedInv, TokensEarned, Earned, EarnedBy
  <1> QED
    BY <1>1, <1>2, EarnedStays, TypeInvAlways, PTL DEF Spec
----------------------------------------------------------------------------
(* The pages of the lists of users.  *)

SortKey(column) ==
  [i \in Present |-> CASE column = "username" -> users[i].username
                       [] column = "role" -> RoleRank[users[i].role]
                       [] OTHER -> i]
Columns == {"createdAt", "username"}

\* No account has the id of the next.
CreatedInv == Present \subseteq 1 .. created

\* The columns leave no ties.
ListedInv ==
  /\ IsFiniteSet(Present)
  /\ CreatedInv
  /\ \A column \in Columns : Distinct(Present, SortKey(column))

LEMMA PresentCreated == TypeInv /\ CreatedInv /\ [Next]_vars => CreatedInv'
  <1> SUFFICES ASSUME TypeInv, CreatedInv, [Next]_vars PROVE CreatedInv'
    OBVIOUS
  <1> USE DEF CreatedInv, Present, Write, TypeInv, TypeOK, Ids
  <1>1. ASSUME NEW h \in Requests, Inserts(h) PROVE CreatedInv'
    BY <1>1, BoundsAssumption DEF Inserts
  <1>2. ASSUME NEW h \in Requests, Overwrites(h) PROVE CreatedInv'
    BY <1>2 DEF Overwrites
  <1>3. ASSUME NEW h \in Requests, Deletes(h) PROVE CreatedInv'
    BY <1>3 DEF Deletes
  <1>4. CASE UNCHANGED database
    BY <1>4 DEF database
  <1> QED
    BY <1>1, <1>2, <1>3, <1>4, TableSteps

LEMMA NoTies ==
  ASSUME TypeInv, OneAccountPerLogin
  PROVE  IsFiniteSet(Present) /\ \A column \in Columns : Distinct(Present, SortKey(column))
  <1>1. Present \subseteq Ids /\ Ids \subseteq Nat /\ IsFiniteSet(Ids)
    BY BoundsAssumption, FS_Interval DEF Present, Ids
  <1>2. \A i \in Present : users[i].username \in Nat
    BY NamesAssumption DEF Present, TypeInv, TypeOK, Row
  <1>3. Distinct(Present, SortKey("username"))
    BY <1>2 DEF Distinct, SortKey, OneAccountPerLogin
  <1>4. Distinct(Present, SortKey("createdAt"))
    BY <1>1 DEF Distinct, SortKey
  <1> QED
    BY <1>1, <1>3, <1>4, FS_Subset DEF Columns

LEMMA ListedInvAlways == Spec => []ListedInv
  <1>1. Init => CreatedInv
    BY DEF Init, CreatedInv, Present
  <1>2. Spec => []CreatedInv
    BY <1>1, PresentCreated, TypeInvAlways, PTL DEF Spec
  <1>3. TypeInv /\ OneAccountPerLogin /\ CreatedInv => ListedInv
    BY NoTies DEF ListedInv
  <1> QED
    BY <1>2, <1>3, TypeInvAlways, OneAccountPerLoginAlways, PTL

\* Who pages through the users, sorted by a column without ties, misses none of
\* those there were because another is created between two pages, whatever the size
\* of the table and of the pages.
THEOREM CreationHidesNoneAlways == Spec => CreationHidesNone
  <1> DEFINE A ==
        created' # created =>
          \A column \in {"createdAt", "username"}, ascending \in BOOLEAN,
             n, limit \in 1 .. MaxUsers :
            \A before \in findAllUsers(column, ascending),
               after \in findAllUsers(column, ascending)' :
              Hidden(before, after, n, limit) = {}
  <1>1. ASSUME TypeInv, ListedInv, ListedInv', [Next]_vars PROVE A
    <2> SUFFICES ASSUME created' # created,
                        NEW column \in Columns, NEW ascending \in BOOLEAN,
                        NEW n \in 1 .. MaxUsers, NEW limit \in 1 .. MaxUsers,
                        NEW before \in findAllUsers(column, ascending),
                        NEW after \in findAllUsers(column, ascending)'
                 PROVE  Hidden(before, after, n, limit) = {}
      BY DEF Columns
    <2>1. PICK h \in Requests : Inserts(h)
      BY <1>1, TableSteps DEF Overwrites, Deletes, database
    <2>2. /\ before \in Sorted(Present, SortKey(column), ascending)
          /\ after \in Sorted(Present', SortKey(column)', ascending)
      BY DEF findAllUsers, SortKey
    <2>3. \A i \in Present : i \in Present' /\ users'[i] = users[i]
      BY <1>1, <2>1 DEF Inserts, Write, ListedInv, CreatedInv, Present, TypeInv, TypeOK
    <2>4. Present \subseteq Present' /\ \A i \in Present : SortKey(column)'[i] = SortKey(column)[i]
      BY <2>3 DEF SortKey, Columns
    <2>5. n \in Nat /\ limit \in Nat \ {0}
      BY BoundsAssumption
    <2>6. /\ IsFiniteSet(Present) /\ Distinct(Present, SortKey(column))
          /\ IsFiniteSet(Present') /\ Distinct(Present', SortKey(column)')
      BY <1>1 DEF ListedInv
    <2> QED
      BY <2>2, <2>4, <2>5, <2>6, AddedHideNone
  <1>2. TypeInv /\ ListedInv /\ ListedInv' /\ [Next]_vars => [A]_vars
    BY <1>1
  <1> QED
    BY <1>2, TypeInvAlways, ListedInvAlways, PTL DEF Spec, CreationHidesNone
=============================================================================
