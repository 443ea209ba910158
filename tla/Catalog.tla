------------------------------ MODULE Catalog ------------------------------
(***************************************************************************)
(* The catalog (src/catalog) and the results entered against it            *)
(* (src/metrics): the requests of the two services as they interleave over *)
(* the tables they share.                                                  *)
(*                                                                         *)
(* A request runs from one `await` on the database to the next.  Outside a *)
(* transaction each statement takes effect by itself; inside one           *)
(* (updateBenchmarkById) the statements interleave with those of others as *)
(* PostgreSQL's READ COMMITTED lets them: a statement sees what had been   *)
(* committed when it began, a row another transaction has deleted or       *)
(* inserted is waited for, and what a transaction writes is seen by others *)
(* when it commits.                                                        *)
(*                                                                         *)
(* The relations of a test are rows [test, rel, value].  "skills" stands   *)
(* for the six lists of strings and the modalities, which are replaced and *)
(* keyed alike; the key of a sub-dataset is its own id, whatever its test. *)
(* A metric is its definition's id, which is known by name to the catalog. *)
(***************************************************************************)
CONSTANTS
  Tests,     \* ids of benchmark tests
  Suites,    \* ids of benchmark suites
  Skills,    \* what a list of strings may hold
  Metrics,   \* metric definitions
  Subsets,   \* ids of sub-datasets
  Requests,  \* bound: requests in flight at once
  Dtos,      \* bodies of requests to create and to update
  None       \* an absent row, an argument that is not given

Relations == {"skills", "metrics", "subDatasets"}
Values == [skills |-> Skills, metrics |-> Metrics, subDatasets |-> Subsets]

\* A body: whether it gives any field of the test's own row, the relations it
\* gives, and their values.
Dto == [scalars : BOOLEAN, given : SUBSET Relations, skills : SUBSET Skills,
        metrics : SUBSET Metrics, subDatasets : SUBSET Subsets]

ASSUME DtosAssumption == Dtos \subseteq Dto
ASSUME NoneAssumption == None \notin Tests \cup Suites \cup Metrics \cup Subsets

VARIABLES
  suites,       \* Benchmark
  suiteOf,      \* BenchmarkTest: its benchmarkId, None where there is no row
  softDeleted,  \* BenchmarkTest: the rows with a deletedAt
  rows,         \* the rows of the relations of tests
  definitions,  \* MetricDefinition
  results,      \* MetricResult
  request,      \* the requests in flight
  asked,        \* history: the skills and sub-datasets last asked for
  raced,        \* history: of each update in its transaction, the lists that another
                \* one has replaced meanwhile
  mixed         \* history: the lists of tests last replaced by an update that raced

tests == <<suites, suiteOf, softDeleted>>
tables == <<suites, suiteOf, softDeleted, rows, definitions, results>>
history == <<asked, raced, mixed>>
vars == <<suites, suiteOf, softDeleted, rows, definitions, results, request,
          asked, raced, mixed>>

Row == UNION {[test : Tests, rel : {rel}, value : Values[rel]] : rel \in Relations}
Result == [test : Tests, suite : Suites, subset : Subsets \cup {None},
           metric : Metrics]

\* Where a request is: what the await it is in is for.
Steps == {"idle",
          "updating", "replacing", "deleting", "creating",
          "softDeleting", "deletingMetric",
          "findingTest", "findingSubset", "savingResult", "listingMetric"}
InTransaction == {"replacing", "deleting", "creating"}

NoDto == [scalars |-> FALSE, given |-> {}, skills |-> {}, metrics |-> {},
          subDatasets |-> {}]

\* test, dto, metric, subset: the request's arguments; suite: what it has read;
\* done: the relations its transaction is through with; seen: the rows its
\* deleteMany has found and that are still there; deleted, inserted: what its
\* transaction has written and not committed.
Request == [at : Steps, test : Tests \cup {None}, dto : Dto,
            metric : Metrics \cup {None}, subset : Subsets \cup {None},
            suite : Suites \cup {None}, done : SUBSET Relations,
            seen : SUBSET Row, deleted : SUBSET Row, inserted : SUBSET Row]

Idle == [at |-> "idle", test |-> None, dto |-> NoDto, metric |-> None,
         subset |-> None, suite |-> None, done |-> {}, seen |-> {},
         deleted |-> {}, inserted |-> {}]

Init == /\ suites = {}
        /\ suiteOf = [t \in Tests |-> None]
        /\ softDeleted = {}
        /\ rows = {}
        /\ definitions = {}
        /\ results = {}
        /\ request = [h \in Requests |-> Idle]
        /\ asked = {}
        /\ raced = [h \in Requests |-> {}]
        /\ mixed = {}
----------------------------------------------------------------------------
Exists(t) == suiteOf[t] # None
Active(t) == Exists(t) /\ t \notin softDeleted

RowsFor(t, rel, values) == [test : {t}, rel : {rel}, value : values]
RowsOf(t, dto) == UNION {RowsFor(t, rel, dto[rel]) : rel \in dto.given}

\* Two rows with the same primary key.
Clash(r, q) == /\ r.rel = q.rel
               /\ r.value = q.value
               /\ r.rel = "subDatasets" \/ r.test = q.test

\* What the transactions of other requests hold.
DeletedByOthers(h) == UNION {request[g].deleted : g \in Requests \ {h}}
InsertedByOthers(h) == UNION {request[g].inserted : g \in Requests \ {h}}
HeldByOthers(h) == DeletedByOthers(h) \cup InsertedByOthers(h)

\* The row of test t is locked by a transaction that has updated it.
LockedByOther(h, t) == \E g \in Requests \ {h} : /\ request[g].at \in InTransaction
                                                 /\ request[g].test = t
                                                 /\ request[g].dto.scalars

\* The rows may be inserted by h: nobody holds their keys, and the keys are free.
Insertable(h, new) ==
  \A n \in new : /\ \A q \in HeldByOthers(h) : ~Clash(n, q)
                 /\ \A q \in rows \ request[h].deleted : ~Clash(n, q)

\* A definition's id is new: nothing remembers it, and no other transaction is
\* defining the same name.
Fresh(h, m) == \A g \in Requests \ {h} :
                 /\ request[g].metric # m
                 /\ \A q \in request[g].inserted : ~(q.rel = "metrics" /\ q.value = m)

MetricsIn(new) == {n.value : n \in {q \in new : q.rel = "metrics"}}
Definable(h, new) == \A m \in MetricsIn(new) \ definitions : Fresh(h, m)

\* onDelete: SetNull of a result's sub-dataset.
WithoutSubsets(gone) ==
  {IF \E q \in gone : q.rel = "subDatasets" /\ q.value = r.subset
     THEN [r EXCEPT !.subset = None] ELSE r : r \in results}

Goto(h, step) == request' = [request EXCEPT ![h].at = step]
Start(h, args) == /\ request[h] = Idle
                  /\ request' = [request EXCEPT ![h] = args]
Finish(h) == request' = [request EXCEPT ![h] = Idle]
----------------------------------------------------------------------------
(* POST /catalog: one transaction that inserts only, so that it is seen as *)
(* a whole or, when the id or a key is taken, not at all.                  *)

\* Mistake: the suite is written outside the transaction.
createBenchmarkInSteps(h, t, suite, dto) ==
  /\ request[h] = Idle
  /\ suites' = suites \cup {suite}
  /\ UNCHANGED <<suiteOf, softDeleted, rows, definitions, results, request, history>>

createBenchmark(h, t, suite, dto) ==
  LET new == RowsOf(t, dto) IN
  /\ request[h] = Idle
  /\ dto.scalars  \* the name is required
  /\ ~Exists(t)
  /\ Insertable(h, new)
  /\ Definable(h, new)
  /\ suites' = suites \cup {suite}
  /\ suiteOf' = [suiteOf EXCEPT ![t] = suite]
  /\ rows' = rows \cup new
  /\ definitions' = definitions \cup MetricsIn(new)
  /\ asked' = asked \cup {n \in new : n.rel # "metrics"}
  /\ UNCHANGED <<softDeleted, results, request, raced, mixed>>
----------------------------------------------------------------------------
(* PATCH /catalog/:id: a look whether the test is there, then a            *)
(* transaction: the test's row, and each relation given, in this order.    *)

Earlier == [skills |-> {}, metrics |-> {"skills"},
            subDatasets |-> {"skills", "metrics"}]

Pending(h) == request[h].dto.given \ request[h].done
IsNext(h, rel) == rel \in Pending(h) /\ Earlier[rel] \cap Pending(h) = {}

updateBenchmarkById(h, t, dto) ==
  /\ Active(t)
  /\ Start(h, [Idle EXCEPT !.at = "updating", !.test = t, !.dto = dto])
  /\ UNCHANGED <<tables, history>>

\* Mistake: the suite is updated with the other fields.
updateScalarsAndSuite(h) ==
  /\ request[h].at = "updating"
  /\ Goto(h, "replacing")
  /\ \E s \in suites : suiteOf' = [suiteOf EXCEPT ![request[h].test] = s]
  /\ UNCHANGED <<suites, softDeleted, rows, definitions, results, history>>

\* Only a body with a field of the row writes the row, and so locks it.
updateScalars(h) ==
  /\ request[h].at = "updating"
  /\ request[h].dto.scalars => ~LockedByOther(h, request[h].test)
  /\ Goto(h, "replacing")
  /\ UNCHANGED <<tables, history>>

\* deleteMany begins: these are the rows it sees.
replaceRelation(h, rel) ==
  /\ request[h].at = "replacing"
  /\ IsNext(h, rel)
  /\ request' = [request EXCEPT ![h].at = "deleting",
                                ![h].seen = rows \cap RowsFor(request[h].test, rel, Values[rel])]
  /\ UNCHANGED <<tables, history>>

\* Mistake: the old rows are left.
deleteManyNothing(h) ==
  /\ request[h].at = "deleting"
  /\ request' = [request EXCEPT ![h].at = "creating", ![h].seen = {}]
  /\ UNCHANGED <<tables, history>>

\* deleteMany ends, after those who hold one of the rows.
deleteMany(h) ==
  /\ request[h].at = "deleting"
  /\ request[h].seen \cap HeldByOthers(h) = {}
  /\ request' = [request EXCEPT ![h].at = "creating", ![h].seen = {},
                                ![h].deleted = @ \cup request[h].seen]
  /\ UNCHANGED <<tables, history>>

createMany(h, rel) ==
  LET new == RowsFor(request[h].test, rel, request[h].dto[rel]) IN
  /\ request[h].at = "creating"
  /\ IsNext(h, rel)
  /\ Insertable(h, new)
  /\ Definable(h, new)
  /\ request' = [request EXCEPT ![h].at = "replacing",
                                ![h].done = @ \cup {rel},
                                ![h].inserted = @ \cup new]
  /\ UNCHANGED <<tables, history>>

\* The lists h replaces that g, in its transaction, is about to replace as well, for
\* the same test and without the lock of its row between them.
Overtaken(h, g) ==
  {rel \in (request[g].dto.given \cap request[h].dto.given) \ {"metrics"} :
     /\ request[g].at \in InTransaction
     /\ request[g].test = request[h].test
     /\ ~(request[g].dto.scalars /\ request[h].dto.scalars)}

Pairs(t, rels) == {t} \X rels

commit(h) ==
  LET me == request[h]
      replaced == {r \in asked : r.test = me.test /\ r.rel \in me.dto.given}
  IN
  /\ me.at = "replacing"
  /\ Pending(h) = {}
  /\ rows' = (rows \ me.deleted) \cup me.inserted
  /\ definitions' = definitions \cup MetricsIn(me.inserted)
  /\ results' = WithoutSubsets(me.deleted)
  /\ asked' = (asked \ replaced) \cup
                 {n \in me.inserted : n.rel \notin {"metrics"} \cup raced[h]}
  /\ request' = [g \in Requests |-> IF g = h THEN Idle
                   ELSE [request[g] EXCEPT !.seen = @ \ me.deleted]]
  /\ mixed' = (mixed \ Pairs(me.test, me.dto.given)) \cup Pairs(me.test, raced[h])
  /\ raced' = [g \in Requests |-> IF g = h THEN {} ELSE raced[g] \cup Overtaken(h, g)]
  /\ UNCHANGED tests
----------------------------------------------------------------------------
(* DELETE /catalog/:id: a look, then the mark.  *)

softDeleteBenchmarkById(h, t) ==
  /\ Active(t)
  /\ Start(h, [Idle EXCEPT !.at = "softDeleting", !.test = t])
  /\ UNCHANGED <<tables, history>>

markDeleted(h) ==
  /\ request[h].at = "softDeleting"
  /\ ~LockedByOther(h, request[h].test)
  /\ softDeleted' = softDeleted \cup {request[h].test}
  /\ Finish(h)
  /\ UNCHANGED <<suites, suiteOf, rows, definitions, results, history>>
----------------------------------------------------------------------------
(* The metric definitions: POST and DELETE /metrics.  *)

createMetric(h, m) ==
  /\ request[h] = Idle
  /\ m \notin definitions
  /\ Fresh(h, m)
  /\ definitions' = definitions \cup {m}
  /\ UNCHANGED <<tests, rows, results, request, history>>

deleteMetricById(h, m) ==
  /\ m \in definitions
  /\ Start(h, [Idle EXCEPT !.at = "deletingMetric", !.metric = m])
  /\ UNCHANGED <<tables, history>>

\* The definition goes with the rows and results that refer to it, after the
\* transactions that hold such a row.
deleteMetric(h) ==
  LET m == request[h].metric
      Refers(q) == q.rel = "metrics" /\ q.value = m
      gone == {q \in rows : Refers(q)}
  IN
  /\ request[h].at = "deletingMetric"
  /\ m \in definitions
  /\ \A q \in HeldByOthers(h) : ~Refers(q)
  /\ definitions' = definitions \ {m}
  /\ rows' = rows \ gone
  /\ results' = {r \in results : r.metric # m}
  /\ request' = [g \in Requests |-> IF g = h THEN Idle
                   ELSE [request[g] EXCEPT !.seen = @ \ gone]]
  /\ UNCHANGED <<tests, history>>
----------------------------------------------------------------------------
(* POST /metrics/results: five statements and no transaction.  *)

createMetricResult(h, t, m, subset) ==
  /\ m \in definitions
  /\ Start(h, [Idle EXCEPT !.at = "findingTest", !.test = t, !.metric = m,
                           !.subset = subset])
  /\ UNCHANGED <<tables, history>>

\* Mistake: the test's suite is not selected.
findTestIdOnly(h) ==
  /\ request[h].at = "findingTest"
  /\ Active(request[h].test)
  /\ Goto(h, IF request[h].subset = None THEN "savingResult" ELSE "findingSubset")
  /\ UNCHANGED <<tables, history>>

findTest(h) ==
  /\ request[h].at = "findingTest"
  /\ Active(request[h].test)
  /\ request' = [request EXCEPT
       ![h].suite = suiteOf[request[h].test],
       ![h].at = IF request[h].subset = None THEN "savingResult" ELSE "findingSubset"]
  /\ UNCHANGED <<tables, history>>

findSubset(h) ==
  /\ request[h].at = "findingSubset"
  /\ RowsFor(request[h].test, "subDatasets", {request[h].subset}) \subseteq rows
  /\ Goto(h, "savingResult")
  /\ UNCHANGED <<tables, history>>

SubsetConnects(h) ==
  request[h].subset # None =>
    \E q \in rows \ DeletedByOthers(h) : /\ q.rel = "subDatasets"
                                         /\ q.value = request[h].subset

ResultOf(h) == [test |-> request[h].test, suite |-> request[h].suite,
                subset |-> request[h].subset, metric |-> request[h].metric]

\* Mistake: the sub-dataset's id is written without connecting to its row.
saveResultUnconnected(h) ==
  /\ request[h].at = "savingResult"
  /\ request[h].metric \in definitions
  /\ results' = results \cup {ResultOf(h)}
  /\ Goto(h, "listingMetric")
  /\ UNCHANGED <<tests, rows, definitions, history>>

\* The rows the result connects to are found by their ids alone.
saveResult(h) ==
  /\ request[h].at = "savingResult"
  /\ request[h].metric \in definitions
  /\ SubsetConnects(h)
  /\ results' = results \cup {ResultOf(h)}
  /\ Goto(h, "listingMetric")
  /\ UNCHANGED <<tests, rows, definitions, history>>

\* upsert of the test's list of metrics.
listMetric(h) ==
  LET new == RowsFor(request[h].test, "metrics", {request[h].metric}) IN
  /\ request[h].at = "listingMetric"
  /\ new \subseteq rows \/ (Insertable(h, new) /\ request[h].metric \in definitions)
  /\ rows' = rows \cup new
  /\ Finish(h)
  /\ UNCHANGED <<tests, definitions, results, history>>
----------------------------------------------------------------------------
\* A request ends early: it has not found what it looked for, a statement fails
\* (a key is taken, a deadlock, a timeout) or the process dies.  What its
\* transaction has written is undone.
Abandon(h) ==
  /\ request[h] # Idle
  /\ Finish(h)
  /\ raced' = [raced EXCEPT ![h] = {}]
  /\ UNCHANGED <<tables, asked, mixed>>

Next == \E h \in Requests :
  \/ \E t \in Tests, dto \in Dtos : \/ \E s \in Suites : createBenchmark(h, t, s, dto)
                                   \/ updateBenchmarkById(h, t, dto)
  \/ \E rel \in Relations : replaceRelation(h, rel) \/ createMany(h, rel)
  \/ updateScalars(h) \/ deleteMany(h) \/ commit(h)
  \/ \E t \in Tests : softDeleteBenchmarkById(h, t)
  \/ markDeleted(h)
  \/ \E m \in Metrics : createMetric(h, m) \/ deleteMetricById(h, m)
  \/ deleteMetric(h)
  \/ \E t \in Tests, m \in Metrics, subset \in Subsets \cup {None} :
       createMetricResult(h, t, m, subset)
  \/ findTest(h) \/ findSubset(h) \/ saveResult(h) \/ listMetric(h)
  \/ Abandon(h)

Spec == Init /\ [][Next]_vars
----------------------------------------------------------------------------
\* Everything in the tables and in the requests in flight has its type.
TypeOK == /\ suites \subseteq Suites
          /\ suiteOf \in [Tests -> Suites \cup {None}]
          /\ softDeleted \subseteq Tests
          /\ rows \subseteq Row
          /\ definitions \subseteq Metrics
          /\ results \subseteq Result
          /\ request \in [Requests -> Request]
          /\ asked \subseteq Row
          /\ raced \in [Requests -> SUBSET Relations]
          /\ mixed \subseteq Tests \X Relations

\* "Updates BenchmarkTest and replaces array-like relations": of every list, a test has
\* what the last committed request that gave it asked for, whatever was in flight at
\* once, unless that update raced: another one, not kept out by the lock of the row,
\* replaced the list while it was in its transaction.  Then both may have left rows;
\* the next update that does not race puts the list right.
ReplacedWholeUnlessRaced ==
  {r \in rows : r.rel # "metrics" /\ <<r.test, r.rel>> \notin mixed} = asked

\* createMetricResult uses the benchmarkId it read before two or three awaits: it
\* is still that of the result's test.
ResultInItsSuite == \A r \in results : r.suite = suiteOf[r.test]

\* A create that fails after its upsert of the suite leaves no suite behind.
NoEmptySuite == \A s \in suites : \E t \in Tests : suiteOf[t] = s

\* Whatever is deleted while a request that has found it is in flight, no row
\* names a metric without a definition, and no result a test, a metric or a
\* sub-dataset that is not there.
LinksResolve ==
  /\ \A r \in rows : Exists(r.test) /\ (r.rel = "metrics" => r.value \in definitions)
  /\ \A r \in results :
       /\ Exists(r.test)
       /\ r.metric \in definitions
       /\ r.subset # None =>
            \E q \in rows : q.rel = "subDatasets" /\ q.value = r.subset

\* "Dataset subset ... was not found for benchmark test": a result's sub-dataset is
\* one of its test.
SubsetOfItsTest ==
  \A r \in results : r.subset # None =>
    RowsFor(r.test, "subDatasets", {r.subset}) \subseteq rows
=============================================================================
