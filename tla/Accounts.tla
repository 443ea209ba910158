------------------------------ MODULE Accounts ------------------------------
(***************************************************************************)
(* The accounts (src/users) and what is issued to them (src/auth): users   *)
(* are created by the AdminSeeder, by registration and by a superuser,     *)
(* changed and deleted by a superuser, and log in for a token, which HTTP  *)
(* requests carry and a socket shows once.                                 *)
(*                                                                         *)
(* A request runs from one `await` to the next: an action is a database    *)
(* statement with the code that follows it.  bcrypt and the JWT library    *)
(* touch nothing shared, so their awaits are no steps of their own.  An    *)
(* account's id (a uuid) stands for the moment of its creation, by which   *)
(* accounts are listed; usernames are naturals in their alphabetical order.*)
(***************************************************************************)
EXTENDS Listing

CONSTANTS
  Names,      \* usernames
  Emails,
  Passwords,
  Admin,      \* the account of the environment's ADMIN_ variables
  Bodies,     \* bodies of requests to create a user or to register
  Updates,    \* bodies of requests to update a user
  Requests,   \* bound: requests in flight at once
  MaxUsers,   \* bound: accounts ever created
  MaxTokens,  \* bound: identities in tokens and on the socket at once
  None        \* an absent row, a field not given

Roles == {"USER", "ADMIN", "SUPERUSER"}
Ids == 1 .. MaxUsers

Fields == {"username", "email", "password", "role"}
Body == [username : Names, email : Emails, password : Passwords,
         role : Roles \cup {None}]
\* given: the fields the body gives.
Update == [given : SUBSET Fields, username : Names, email : Emails,
           password : Passwords, role : Roles]

ASSUME NamesAssumption == Names \subseteq Nat
ASSUME BoundsAssumption == MaxUsers \in Nat /\ MaxTokens \in Nat
ASSUME BodiesAssumption == /\ Admin \in Body
                           /\ Bodies \subseteq Body
                           /\ Updates \subseteq Update

VARIABLES
  users,    \* User: the row of each id, None where there is none
  created,  \* the number of accounts created so far
  tokens,   \* the tokens that have not expired
  socket,   \* client.data.user of a socket
  request,  \* the requests in flight
  stored    \* history: every row there has been

vars == <<users, created, tokens, socket, request, stored>>
database == <<users, created, stored>>

\* hashValue: what a hash says is which password it is of.
Hash(password) == [hashOf |-> password]

Row == [username : Names, email : Emails, password : {Hash(p) : p \in Passwords},
        role : Roles]

\* RequestUser; provenBy is history: the password it was issued for.
Identity == [id : Ids, username : Names, role : Roles, provenBy : Passwords]

\* Where a request is: what it is about to do.
Steps == {"idle", "creating", "inserting", "checkingName", "writing", "deleting",
          "signing"}

\* from: who has called createUser; identity: whom a token is to be issued to.
Request == [at : Steps, from : {"users", "auth", "seeder"}, id : Ids \cup {None},
            body : Body, update : Update \cup {None},
            identity : Identity \cup {None}]

ASSUME NoneAssumption == /\ None \notin Ids
                         /\ None \notin Row
                         /\ None \notin Identity
                         /\ None \notin Roles

Idle == [at |-> "idle", from |-> "users", id |-> None, body |-> Admin,
         update |-> None, identity |-> None]

Init == /\ users = [i \in Ids |-> None]
        /\ created = 0
        /\ tokens = {}
        /\ socket = None
        /\ request = [h \in Requests |-> Idle]
        /\ stored = {}
----------------------------------------------------------------------------
Present == {i \in Ids : users[i] # None}
Named(name) == {i \in Present : users[i].username = name}

\* The unique indexes let row be that of id.
Unique(id, row) == \A i \in Present \ {id} : /\ users[i].username # row.username
                                             /\ users[i].email # row.email

IdentityOf(id, row, password) ==
  [id |-> id, username |-> row.username, role |-> row.role, provenBy |-> password]

\* JwtAuthGuard and RolesGuard: they believe the token.
Superuser == \E t \in tokens : t.role = "SUPERUSER"

\* Whom a token or the socket stands for.
InUse == tokens \cup ({socket} \ {None})

Goto(h, step) == request' = [request EXCEPT ![h].at = step]
Start(h, args) == request[h] = Idle /\ request' = [request EXCEPT ![h] = args]
Finish(h) == request' = [request EXCEPT ![h] = Idle]

Write(id, row) == /\ users' = [users EXCEPT ![id] = row]
                  /\ stored' = stored \cup {[id |-> id, row |-> row]}
----------------------------------------------------------------------------
(* POST /users, POST /auth/register and the start of an instance all end   *)
(* in createUser: is the username free, then the insert.                   *)

createUser(h, body) ==
  /\ Superuser
  /\ Named(body.username) = {}
  /\ Start(h, [Idle EXCEPT !.at = "inserting", !.body = body])
  /\ UNCHANGED <<database, tokens, socket>>

\* RegisterDto has no role, and the validation strips what a DTO has not.
register(h, body) ==
  /\ Named(body.username) = {}
  /\ Start(h, [Idle EXCEPT !.at = "inserting", !.from = "auth",
                           !.body = [body EXCEPT !.role = None]])
  /\ UNCHANGED <<database, tokens, socket>>

\* AdminSeeder, in development: it looks before createUser looks again.
onModuleInit(h) ==
  /\ Named(Admin.username) = {}
  /\ Start(h, [Idle EXCEPT !.at = "creating", !.from = "seeder"])
  /\ UNCHANGED <<database, tokens, socket>>

createAdmin(h) ==
  /\ request[h].at = "creating"
  /\ Named(Admin.username) = {}
  /\ Goto(h, "inserting")
  /\ UNCHANGED <<database, tokens, socket>>

RowOf(body) == [username |-> body.username, email |-> body.email,
                password |-> Hash(body.password),
                role |-> IF body.role = None THEN "USER" ELSE body.role]

Inserted(h, row) ==
  /\ request[h].at = "inserting"
  /\ created < MaxUsers
  /\ created' = created + 1
  /\ Write(created + 1, row)
  /\ request' = [request EXCEPT ![h] =
       IF request[h].from # "auth" THEN Idle
       ELSE [Idle EXCEPT !.at = "signing",
               !.identity = IdentityOf(created + 1, row, request[h].body.password)]]
  /\ UNCHANGED <<tokens, socket>>

\* Mistake: without the unique indexes the look alone keeps logins apart.
createNewUserUnindexed(h) == Inserted(h, RowOf(request[h].body))

createNewUser(h) == LET row == RowOf(request[h].body) IN
  Unique(None, row) /\ Inserted(h, row)
----------------------------------------------------------------------------
(* PATCH and DELETE /users/:id.  *)

updateUserById(h, id, update) ==
  /\ Superuser
  /\ id \in Present
  /\ Start(h, [Idle EXCEPT !.id = id, !.update = update,
       !.at = IF "username" \in update.given /\ update.username # users[id].username
                THEN "checkingName" ELSE "writing"])
  /\ UNCHANGED <<database, tokens, socket>>

checkName(h) ==
  /\ request[h].at = "checkingName"
  /\ Named(request[h].update.username) \subseteq {request[h].id}
  /\ Goto(h, "writing")
  /\ UNCHANGED <<database, tokens, socket>>

\* Mistake: the password is written as it was given.
ValueUnhashed(update, field) == update[field]

\* The value an update has for a field of the row.
Value(update, field) == IF field = "password" THEN Hash(update.password)
                                              ELSE update[field]

Updated(row, update) ==
  [f \in Fields |-> IF f \in update.given THEN Value(update, f) ELSE row[f]]

\* Mistake: an update of a row that is gone creates it again.
writeUpdateUpserting(h) == LET me == request[h] IN
  /\ me.at = "writing"
  /\ LET row == IF me.id \in Present THEN users[me.id]
                ELSE (CHOOSE s \in stored : s.id = me.id).row IN
     Write(me.id, Updated(row, me.update))
  /\ Finish(h)
  /\ UNCHANGED <<created, tokens, socket>>

\* prisma.user.update writes the fields given, if the row is still there.
writeUpdate(h) == LET me == request[h] IN
  /\ me.at = "writing"
  /\ me.id \in Present
  /\ LET row == Updated(users[me.id], me.update) IN
     Unique(me.id, row) /\ Write(me.id, row)
  /\ Finish(h)
  /\ UNCHANGED <<created, tokens, socket>>

deleteUserById(h, id) ==
  /\ Superuser
  /\ id \in Present
  /\ Start(h, [Idle EXCEPT !.at = "deleting", !.id = id])
  /\ UNCHANGED <<database, tokens, socket>>

deleteRow(h) ==
  /\ request[h].at = "deleting"
  /\ request[h].id \in Present
  /\ users' = [users EXCEPT ![request[h].id] = None]
  /\ Finish(h)
  /\ UNCHANGED <<created, stored, tokens, socket>>
----------------------------------------------------------------------------
(* POST /auth/login, the tokens and the socket.  *)

\* Mistake: the password is not compared.
validateUserByName(h, name, password) ==
  /\ \E i \in Named(name) :
       Start(h, [Idle EXCEPT !.at = "signing",
                             !.identity = IdentityOf(i, users[i], password)])
  /\ UNCHANGED <<database, tokens, socket>>

\* The row that is compared is the one the identity is taken from.
validateUser(h, name, password) ==
  /\ \E i \in Named(name) :
       /\ users[i].password = Hash(password)
       /\ Start(h, [Idle EXCEPT !.at = "signing",
                                !.identity = IdentityOf(i, users[i], password)])
  /\ UNCHANGED <<database, tokens, socket>>

\* Signed after an await: the account may be another by now, or gone.
login(h) ==
  /\ request[h].at = "signing"
  /\ Cardinality(InUse) < MaxTokens
  /\ tokens' = tokens \cup {request[h].identity}
  /\ Finish(h)
  /\ UNCHANGED <<database, socket>>

expire(token) ==
  /\ tokens' = tokens \ {token}
  /\ UNCHANGED <<database, socket, request>>

\* The guard asks for a token only until the socket has a user.
canActivate(token) ==
  /\ socket = None
  /\ socket' = token
  /\ UNCHANGED <<database, tokens, request>>

disconnect ==
  /\ socket # None
  /\ socket' = None
  /\ UNCHANGED <<database, tokens, request>>
----------------------------------------------------------------------------
\* A request ends early: a conflict, a row that is gone, a violated index, a
\* failure of the database, the end of the process.
Abandon(h) ==
  /\ request[h] # Idle
  /\ Finish(h)
  /\ UNCHANGED <<database, tokens, socket>>

Next ==
  \/ \E h \in Requests :
       \/ \E body \in Bodies : createUser(h, body) \/ register(h, body)
       \/ onModuleInit(h) \/ createAdmin(h) \/ createNewUser(h)
       \/ \E id \in Ids : \/ \E update \in Updates : updateUserById(h, id, update)
                          \/ deleteUserById(h, id)
       \/ checkName(h) \/ writeUpdate(h) \/ deleteRow(h)
       \/ \E name \in Names, password \in Passwords : validateUser(h, name, password)
       \/ login(h)
       \/ Abandon(h)
  \/ \E token \in tokens : expire(token) \/ canActivate(token)
  \/ disconnect

Spec == Init /\ [][Next]_vars
----------------------------------------------------------------------------
RoleRank == [role \in Roles |-> CASE role = "USER" -> 1 [] role = "ADMIN" -> 2
                                  [] role = "SUPERUSER" -> 3]

\* GET /users: the lists the database may cut the pages from.  A column that is
\* not allowed is replaced by createdAt.
findAllUsers(sortColumn, ascending) ==
  Sorted(Present,
         [i \in Present |-> CASE sortColumn = "username" -> users[i].username
                              [] sortColumn = "role" -> RoleRank[users[i].role]
                              [] OTHER -> i],
         ascending)
----------------------------------------------------------------------------
\* Everything in the table, in the tokens and in the requests has its type.
TypeOK == /\ users \in [Ids -> Row \cup {None}]
          /\ created \in 0 .. MaxUsers
          /\ tokens \subseteq Identity
          /\ socket \in Identity \cup {None}
          /\ request \in [Requests -> Request]
          /\ stored \subseteq [id : Ids, row : Row]

\* createUser and updateUserById look for the username and write later, and look
\* for no email at all: still no two accounts share either.
OneAccountPerLogin ==
  \A i, j \in Present : i # j => /\ users[i].username # users[j].username
                                 /\ users[i].email # users[j].email

\* updateUserById reads the row and writes it later: what another request has
\* changed in between stays changed, and what it has deleted stays deleted.
OnlyAskedChanges ==
  [][\A i \in 1 .. created : users'[i] # users[i] =>
       /\ users[i] # None
       /\ \E h \in Requests :
            /\ request[h].id = i
            /\ \/ request[h].at = "deleting" /\ users'[i] = None
               \/ /\ request[h].at = "writing"
                  /\ users'[i] = Updated(users[i], request[h].update)]_vars

\* Tokens and sockets outlive changes of the account, and are issued an await
\* after it was read: each says what the account was when the password that it
\* was issued for was the account's.
TokensEarned ==
  \A t \in InUse : \E s \in stored :
    /\ s.id = t.id
    /\ s.row.username = t.username
    /\ s.row.role = t.role
    /\ s.row.password = Hash(t.provenBy)

\* Who pages through the users while one is created sees all those there were,
\* sorted by any column that leaves no ties.
CreationHidesNone ==
  [][created' # created =>
       \A column \in {"createdAt", "username"}, ascending \in BOOLEAN,
          n, limit \in 1 .. MaxUsers :
         \A before \in findAllUsers(column, ascending),
            after \in findAllUsers(column, ascending)' :
           Hidden(before, after, n, limit) = {}]_vars
=============================================================================
