------------------------------ MODULE Metrics ------------------------------
(***************************************************************************)
(* The metric definitions (src/metrics) under concurrent requests: their   *)
(* unique names, their range of values, which a partial update checks      *)
(* against the row it has read before, the lookup rows every start makes   *)
(* sure of, and what each request is told.  Catalog follows the results    *)
(* and the lists that refer to a definition.                               *)
(*                                                                         *)
(* A request runs from one `await` to the next: an action is a database    *)
(* statement with the code that follows it.  A definition's id (a uuid)    *)
(* stands for the moment of its creation; names are naturals in their      *)
(* alphabetical order.                                                     *)
(***************************************************************************)
EXTENDS Listing

CONSTANTS
  Names,       \* names of metrics
  Bounds,      \* what minValue and maxValue may be
  Bodies,      \* bodies of requests to create
  Updates,     \* bodies of requests to update
  Requests,    \* bound: requests in flight at once
  MaxMetrics,  \* bound: definitions ever created
  None         \* an absent row, null, nothing told

Ids == 1 .. MaxMetrics
Defaults == <<"primary", "secondary", "higher_is_better", "lower_is_better">>
Lookups == Range(Defaults)

Fields == {"name", "min", "max"}
Row == [name : Names, min : Bounds \cup {None}, max : Bounds \cup {None}]
\* lookups: the priority and the direction a body gives; given: the fields.
Body == [row : Row, lookups : SUBSET (Lookups \cup {"unknown"})]
Update == [given : SUBSET Fields, row : Row, lookups : SUBSET (Lookups \cup {"unknown"})]

ASSUME NamesAssumption == Names \subseteq Nat /\ Bounds \subseteq Int
ASSUME MaxAssumption == MaxMetrics \in Nat
ASSUME BodiesAssumption == Bodies \subseteq Body /\ Updates \subseteq Update

VARIABLES
  starting,  \* the lookup rows this start of the process is through with
  lookups,   \* MetricPriorityLookup and MetricDirectionLookup, by code
  metrics,   \* MetricDefinition: the row of each id, None where there is none
  created,   \* the number of definitions created so far
  request,   \* the requests in flight
  told       \* the answer of the last step, None when it gave none

vars == <<starting, lookups, metrics, created, request, told>>
process == <<starting, lookups>>
table == <<metrics, created>>

\* Where a request is: what it is about to do.
Steps == {"idle", "creating", "checkingName", "writing", "deleting"}

\* read: the row the request has found.
Request == [at : Steps, id : Ids \cup {None}, body : Body \cup {None},
            update : Update \cup {None}, read : Row \cup {None}]
Idle == [at |-> "idle", id |-> None, body |-> None, update |-> None, read |-> None]

Answer == [to : {"create", "update", "delete"},
           is : {"ok", "bad request", "not found", "conflict", "internal error"},
           id : Ids \cup {None}, name : Names \cup {None}]

ASSUME NoneAssumption == /\ None \notin Ids
                         /\ None \notin Row
                         /\ None \notin Body
                         /\ None \notin Update
                         /\ None \notin Answer
                         /\ None \notin Names
                         /\ None \notin Bounds

Init == /\ starting = 0
        /\ lookups = {}
        /\ metrics = [i \in Ids |-> None]
        /\ created = 0
        /\ request = [h \in Requests |-> Idle]
        /\ told = None
----------------------------------------------------------------------------
(* The process: onModuleInit runs before the first request is served.  *)

Serving == starting = Len(Defaults)

\* Mistake: rows of an earlier start are taken for all of them.
ensureDefaultLookupsOnce ==
  /\ ~Serving
  /\ IF starting = 0 /\ lookups # {}
       THEN starting' = Len(Defaults) /\ UNCHANGED lookups
       ELSE /\ starting' = starting + 1
            /\ lookups' = lookups \cup {Defaults[starting + 1]}
  /\ told' = None
  /\ UNCHANGED <<table, request>>

\* One upsert after the other.
ensureDefaultLookups ==
  /\ ~Serving
  /\ starting' = starting + 1
  /\ lookups' = lookups \cup {Defaults[starting + 1]}
  /\ told' = None
  /\ UNCHANGED <<table, request>>

Crash == /\ starting' = 0
         /\ request' = [h \in Requests |-> Idle]
         /\ told' = None
         /\ UNCHANGED <<lookups, table>>
----------------------------------------------------------------------------
Present == {i \in Ids : metrics[i] # None}
Named(name) == {i \in Present : metrics[i].name = name}

\* assertValueRange
Ordered(row) == row.min # None /\ row.max # None => row.min <= row.max

Updated(row, update) ==
  [f \in Fields |-> IF f \in update.given THEN update.row[f] ELSE row[f]]

Start(h, args) == request' = [request EXCEPT ![h] = args] /\ told' = None

Finish(h, to, answer, id, name) ==
  /\ request' = [request EXCEPT ![h] = Idle]
  /\ told' = [to |-> to, is |-> answer, id |-> id, name |-> name]

Insert(row) == /\ created < MaxMetrics
               /\ created' = created + 1
               /\ metrics' = [metrics EXCEPT ![created + 1] = row]
----------------------------------------------------------------------------
(* POST /metrics  *)

createMetric(h, body) ==
  LET valid == body.lookups \subseteq lookups /\ Ordered(body.row)
      Refuse(answer) == Finish(h, "create", answer, None, body.row.name)
  IN
  /\ Serving
  /\ request[h] = Idle
  /\ \/ ~valid /\ Refuse("bad request")
     \/ valid /\ Named(body.row.name) # {} /\ Refuse("conflict")
     \/ /\ valid /\ Named(body.row.name) = {}
        /\ Start(h, [Idle EXCEPT !.at = "creating", !.body = body])
  /\ UNCHANGED <<process, table>>

\* Mistake: the body is written as it came.
saveMetricAsGiven(h) ==
  /\ request[h].at = "creating"
  /\ Insert(request[h].body)
  /\ Finish(h, "create", "ok", created + 1, None)
  /\ UNCHANGED process

\* Nobody turns the violated index of a lost race into an answer.
saveMetric(h) == LET row == request[h].body.row IN
  /\ request[h].at = "creating"
  /\ \/ /\ Named(row.name) = {}
        /\ Insert(row)
        /\ Finish(h, "create", "ok", created + 1, row.name)
     \/ /\ Named(row.name) # {}
        /\ Finish(h, "create", "internal error", None, row.name)
        /\ UNCHANGED table
  /\ UNCHANGED process

\* The catalog defines the metrics it is given by a name nobody has.
replaceMetrics(name) ==
  /\ Serving
  /\ Named(name) = {}
  /\ Insert([name |-> name, min |-> None, max |-> None])
  /\ told' = None
  /\ UNCHANGED <<process, request>>
----------------------------------------------------------------------------
(* PATCH /metrics/:id  *)

\* Mistake: the range is checked of the body alone, as it is on create.
ValidateBody(h, q) ==
  IF /\ q.update.lookups \subseteq lookups
     /\ {"min", "max"} \subseteq q.update.given => Ordered(q.update.row)
    THEN Start(h, [q EXCEPT !.at = "writing"])
    ELSE Finish(h, "update", "bad request", q.id, None)

\* The checks between the look at the name and the write.
Validate(h, q) ==
  IF q.update.lookups \subseteq lookups /\ Ordered(Updated(q.read, q.update))
    THEN Start(h, [q EXCEPT !.at = "writing"])
    ELSE Finish(h, "update", "bad request", q.id, None)

updateMetricById(h, id, update) ==
  LET q == [Idle EXCEPT !.id = id, !.update = update, !.read = metrics[id]] IN
  /\ Serving
  /\ request[h] = Idle
  /\ IF id \notin Present THEN Finish(h, "update", "not found", id, None)
     ELSE IF "name" \in update.given /\ update.row.name # metrics[id].name
            THEN Start(h, [q EXCEPT !.at = "checkingName"])
            ELSE Validate(h, q)
  /\ UNCHANGED <<process, table>>

checkName(h) == LET me == request[h] IN
  /\ me.at = "checkingName"
  /\ IF Named(me.update.row.name) \subseteq {me.id} THEN Validate(h, me)
     ELSE Finish(h, "update", "conflict", me.id, me.update.row.name)
  /\ UNCHANGED <<process, table>>

\* Mistakes: the whole row is written as it was read; a row that is gone is taken
\* for a taken name.
writeMetricWhole(h) == LET me == request[h] IN
  /\ me.at = "writing"
  /\ me.id \in Present
  /\ metrics' = [metrics EXCEPT ![me.id] = Updated(me.read, me.update)]
  /\ Finish(h, "update", "ok", me.id, None)
  /\ UNCHANGED <<process, created>>
writeMetricMistold(h) == LET me == request[h] IN
  /\ me.at = "writing"
  /\ Finish(h, "update", IF me.id \in Present THEN "ok" ELSE "conflict",
            me.id, me.update.row.name)
  /\ UNCHANGED <<process, table>>

\* The fields given are written; a lost race is told by the error's code.
writeMetric(h) ==
  LET me == request[h]
      End(answer) == Finish(h, "update", answer, me.id, me.update.row.name)
      taken == "name" \in me.update.given /\ ~(Named(me.update.row.name) \subseteq {me.id})
  IN
  /\ me.at = "writing"
  /\ \/ me.id \notin Present /\ End("not found") /\ UNCHANGED metrics
     \/ me.id \in Present /\ taken /\ End("conflict") /\ UNCHANGED metrics
     \/ /\ me.id \in Present /\ ~taken
        /\ metrics' = [metrics EXCEPT ![me.id] = Updated(@, me.update)]
        /\ End("ok")
  /\ UNCHANGED <<process, created>>
----------------------------------------------------------------------------
(* DELETE /metrics/:id  *)

deleteMetricById(h, id) ==
  /\ Serving
  /\ request[h] = Idle
  /\ IF id \in Present THEN Start(h, [Idle EXCEPT !.at = "deleting", !.id = id])
                       ELSE Finish(h, "delete", "not found", id, None)
  /\ UNCHANGED <<process, table>>

deleteRow(h) == LET id == request[h].id IN
  /\ request[h].at = "deleting"
  /\ IF id \in Present THEN /\ metrics' = [metrics EXCEPT ![id] = None]
                            /\ Finish(h, "delete", "ok", id, None)
                       ELSE /\ UNCHANGED metrics
                            /\ Finish(h, "delete", "not found", id, None)
  /\ UNCHANGED <<process, created>>
----------------------------------------------------------------------------
\* A statement fails for a reason of the database's own.
Abandon(h) ==
  /\ request[h] # Idle
  /\ Start(h, Idle)
  /\ UNCHANGED <<process, table>>

Next ==
  \/ ensureDefaultLookups \/ Crash
  \/ \E name \in Names : replaceMetrics(name)
  \/ \E h \in Requests :
       \/ \E body \in Bodies : createMetric(h, body)
       \/ \E id \in Ids : \/ \E update \in Updates : updateMetricById(h, id, update)
                          \/ deleteMetricById(h, id)
       \/ saveMetric(h) \/ checkName(h) \/ writeMetric(h) \/ deleteRow(h)
       \/ Abandon(h)

Spec == Init /\ [][Next]_vars
----------------------------------------------------------------------------
\* GET /metrics: the lists the database may cut the pages from, sorted on one of
\* the columns that leave no ties.
findAllMetrics(sortColumn, ascending) ==
  Sorted(Present,
         [i \in Present |-> IF sortColumn = "name" THEN metrics[i].name ELSE i],
         ascending)
----------------------------------------------------------------------------
\* Everything in the tables, in the requests and in the answers has its type.
TypeOK == /\ starting \in 0 .. Len(Defaults)
          /\ lookups \subseteq Lookups
          /\ metrics \in [Ids -> Row \cup {None}]
          /\ created \in 0 .. MaxMetrics
          /\ request \in [Requests -> Request]
          /\ told \in Answer \cup {None}

\* Whatever crashes between the upserts of a start, the application serves requests
\* only when every default lookup is there.
ServingHasLookups == Serving => Lookups \subseteq lookups

\* minValue is at most maxValue, as assertValueRange demands, until two updates race:
\* only one whose bounds have changed since it read the row can turn them round.
RangeKeptUnlessRaced ==
  [][\A i \in Ids :
       metrics'[i] # None /\ ~Ordered(metrics'[i]) =>
         /\ metrics[i] # None
         /\ Ordered(metrics[i]) =>
              \E h \in Requests :
                /\ request[h].at = "writing"
                /\ request[h].id = i
                /\ \/ request[h].read.min # metrics[i].min
                   \/ request[h].read.max # metrics[i].max]_vars

\* A row changes only by an update, in the fields it gives, or by its delete, and a
\* deleted metric does not come back: no request writes what it has read.
OnlyAskedChanges ==
  [][\A i \in 1 .. created : metrics'[i] # metrics[i] =>
       /\ metrics[i] # None
       /\ \E h \in Requests :
            /\ request[h].id = i
            /\ \/ request[h].at = "deleting" /\ metrics'[i] = None
               \/ /\ request[h].at = "writing"
                  /\ metrics'[i] = Updated(metrics[i], request[h].update)]_vars

\* "Race condition: ...": an update or a delete that loses a race is told what it has
\* lost to, and whatever the answer, the table agrees with it when it is given.
AnswersTrue == told # None =>
  /\ told.is = "internal error" => told.to = "create"
  /\ told.is = "not found" => told.id \notin Present
  /\ told.is = "conflict" => Named(told.name) \ {told.id} # {}
  /\ told.is = "ok" => (told.id \in Present <=> told.to # "delete")

\* Who pages through the definitions, sorted by a column that leaves no ties, while
\* another request creates, renames or deletes one, misses at most one of those
\* that stay.
OneWriteHidesOne ==
  [][metrics' # metrics =>
       \A column \in {"createdAt", "name"}, ascending \in BOOLEAN,
          n, limit \in 1 .. MaxMetrics :
         \A before \in findAllMetrics(column, ascending),
            after \in findAllMetrics(column, ascending)' :
           Cardinality(Hidden(before, after, n, limit)) <= 1]_vars
=============================================================================
