--------------------------- MODULE Catalog_proofs ---------------------------
(***************************************************************************)
(* Theorems about the catalog, for any numbers of tests, suites, bodies    *)
(* and requests.                                                           *)
(***************************************************************************)
EXTENDS CatalogReads, FiniteSetTheorems, WellFoundedInduction, TLAPS

ResultSteps == {"findingSubset", "savingResult", "listingMetric"}
TestFound == {"updating", "replacing", "deleting", "creating", "softDeleting"}
               \cup ResultSteps
WithMetric == {"findingTest", "deletingMetric"} \cup ResultSteps

\* The arguments a request needs where it is, the test it has found, and the
\* suite it has read.
ArgsOK(q) ==
  /\ q.at = "findingTest" => q.test \in Tests
  /\ q.at \in TestFound => q.test \in Tests /\ Exists(q.test)
  /\ q.at \in WithMetric => q.metric \in Metrics
  /\ q.at = "findingSubset" => q.subset \in Subsets
  /\ q.at \in ResultSteps => q.suite = suiteOf[q.test]

ArgsInv == \A h \in Requests : ArgsOK(request[h])
TypeInv == TypeOK /\ ArgsInv

\* The statements inside a transaction.
LEMMA FindingTyped ==
  ASSUME NEW r \in Request, NEW found \in SUBSET Row
  PROVE  [r EXCEPT !.at = "deleting", !.seen = found] \in Request
  BY DEF Request, Steps

LEMMA DeletingTyped ==
  ASSUME NEW r \in Request
  PROVE  [r EXCEPT !.at = "creating", !.seen = {}, !.deleted = @ \cup r.seen] \in Request
  BY DEF Request, Steps

LEMMA CreatingTyped ==
  ASSUME NEW r \in Request, NEW rel \in Relations, NEW new \in SUBSET Row
  PROVE  [r EXCEPT !.at = "replacing", !.done = @ \cup {rel},
                   !.inserted = @ \cup new] \in Request
  BY DEF Request, Steps

USE DEF Values, Relations

LEMMA IdleTyped == Idle \in Request /\ Idle.at = "idle"
  BY DEF Idle, NoDto, Request, Dto, Steps

LEMMA RowsTyped ==
  ASSUME NEW t \in Tests, NEW rel \in Relations, NEW V, V \subseteq Values[rel]
  PROVE  /\ RowsFor(t, rel, V) \subseteq Row
         /\ \A r \in RowsFor(t, rel, V) : r.test = t /\ r.rel = rel /\ r.value \in V
  BY DEF RowsFor, Row

LEMMA RowTyped ==
  ASSUME NEW r \in Row
  PROVE  /\ r.test \in Tests
         /\ r.rel \in Relations
         /\ r.rel = "metrics" => r.value \in Metrics
         /\ r.rel = "subDatasets" => r.value \in Subsets
  BY DEF Row

LEMMA BodyTyped ==
  ASSUME NEW dto \in Dto, NEW rel \in Relations
  PROVE  dto[rel] \subseteq Values[rel]
  <1>1. CASE rel = "skills"
    BY <1>1 DEF Dto
  <1>2. CASE rel = "metrics"
    BY <1>2 DEF Dto
  <1>3. CASE rel = "subDatasets"
    BY <1>3 DEF Dto
  <1>4. QED
    BY <1>1, <1>2, <1>3

LEMMA MetricsTyped ==
  ASSUME NEW new \in SUBSET Row
  PROVE  MetricsIn(new) \subseteq Metrics
  BY RowTyped DEF MetricsIn

LEMMA NewRowsTyped ==
  ASSUME NEW t \in Tests, NEW dto \in Dto
  PROVE  /\ RowsOf(t, dto) \subseteq Row
         /\ \A r \in RowsOf(t, dto) : r.test = t
  <1>1. \A rel \in dto.given : rel \in Relations
    BY DEF Dto
  <1>2. \A rel \in dto.given :
          /\ RowsFor(t, rel, dto[rel]) \subseteq Row
          /\ \A r \in RowsFor(t, rel, dto[rel]) : r.test = t
    BY <1>1, BodyTyped, RowsTyped
  <1>3. QED
    BY <1>2 DEF RowsOf

\* A step that gives one request a new record, and leaves the tests alone.
LEMMA RequestStep ==
  ASSUME TypeInv, suiteOf' = suiteOf, NEW h \in Requests, NEW q \in Request,
         ArgsOK(q), request' = [request EXCEPT ![h] = q]
  PROVE  request' \in [Requests -> Request] /\ ArgsInv'
  <1>1. request \in [Requests -> Request]
    BY DEF TypeInv, TypeOK
  <1>2. request' \in [Requests -> Request]
    BY <1>1
  <1>3. ASSUME NEW g \in Requests PROVE ArgsOK(request[g])'
    <2>1. CASE g = h
      BY <1>1, <2>1 DEF ArgsOK, Exists
    <2>2. CASE g # h
      <3>1. ArgsOK(request[g]) /\ request'[g] = request[g]
        BY <1>1, <2>2 DEF TypeInv, ArgsInv
      <3>2. QED
        BY <3>1 DEF ArgsOK, Exists
    <2>3. QED
      BY <2>1, <2>2
  <1>4. QED
    BY <1>2, <1>3 DEF ArgsInv

\* A commit or a cascade takes rows from what the others have seen.
LEMMA RequestsShrink ==
  ASSUME TypeInv, suiteOf' = suiteOf, NEW h \in Requests, NEW gone,
         request' = [g \in Requests |-> IF g = h THEN Idle
                       ELSE [request[g] EXCEPT !.seen = @ \ gone]]
  PROVE  request' \in [Requests -> Request] /\ ArgsInv'
  <1>1. request \in [Requests -> Request]
    BY DEF TypeInv, TypeOK
  <1>2. ASSUME NEW g \in Requests
        PROVE  request'[g] \in Request /\ ArgsOK(request[g])'
    <2>1. CASE g = h
      BY <2>1, IdleTyped DEF ArgsOK, TestFound, WithMetric, ResultSteps
    <2>2. CASE g # h
      <3>1. /\ request'[g] = [request[g] EXCEPT !.seen = @ \ gone]
            /\ request[g] \in Request
            /\ ArgsOK(request[g])
        BY <1>1, <2>2 DEF TypeInv, ArgsInv
      <3>2. QED
        BY <3>1 DEF Request, ArgsOK, Exists
    <2>3. QED
      BY <2>1, <2>2
  <1>3. QED
    BY <1>2 DEF ArgsInv

LEMMA StartStep ==
  ASSUME TypeInv, suiteOf' = suiteOf, NEW h \in Requests, NEW q \in Request,
         ArgsOK(q), Start(h, q)
  PROVE  request' \in [Requests -> Request] /\ ArgsInv'
  BY RequestStep DEF Start

LEMMA GotoStep ==
  ASSUME TypeInv, suiteOf' = suiteOf, NEW h \in Requests, NEW step \in Steps,
         ArgsOK([request[h] EXCEPT !.at = step]), Goto(h, step)
  PROVE  request' \in [Requests -> Request] /\ ArgsInv'
  <1>1. request[h] \in Request
    BY DEF TypeInv, TypeOK
  <1>2. [request[h] EXCEPT !.at = step] \in Request
    BY <1>1 DEF Request
  <1>3. request' = [request EXCEPT ![h] = [request[h] EXCEPT !.at = step]]
    BY DEF Goto
  <1>4. QED
    BY <1>2, <1>3, RequestStep

LEMMA FinishStep ==
  ASSUME TypeInv, suiteOf' = suiteOf, NEW h \in Requests, Finish(h)
  PROVE  request' \in [Requests -> Request] /\ ArgsInv'
  <1>1. ArgsOK(Idle)
    BY IdleTyped DEF ArgsOK, TestFound, WithMetric, ResultSteps
  <1>2. QED
    BY <1>1, IdleTyped, RequestStep DEF Finish

LEMMA TypeInvInit == Init => TypeInv
  BY IdleTyped DEF Init, TypeInv, TypeOK, ArgsInv, ArgsOK, TestFound, WithMetric,
     ResultSteps

LEMMA TypeInvNext == TypeInv /\ [Next]_vars => TypeInv'
  <1> SUFFICES ASSUME TypeInv, [Next]_vars PROVE TypeInv'
    OBVIOUS
  <1> USE DEF TypeInv, history
  <1>a. /\ suites \subseteq Suites
        /\ suiteOf \in [Tests -> Suites \cup {None}]
        /\ softDeleted \subseteq Tests
        /\ rows \subseteq Row
        /\ definitions \subseteq Metrics
        /\ results \subseteq Result
        /\ request \in [Requests -> Request]
        /\ asked \subseteq Row
        /\ raced \in [Requests -> SUBSET Relations]
        /\ mixed \subseteq Tests \X Relations
    BY DEF TypeOK
  <1>1. ASSUME NEW h \in Requests, NEW t \in Tests, NEW dto \in Dtos,
               NEW s \in Suites, createBenchmark(h, t, s, dto)
        PROVE  TypeInv'
    <2>1. RowsOf(t, dto) \subseteq Row /\ MetricsIn(RowsOf(t, dto)) \subseteq Metrics
      BY NewRowsTyped, MetricsTyped, DtosAssumption
    <2>2. TypeOK'
      BY <1>1, <1>a, <2>1 DEF createBenchmark, TypeOK
    <2>3. ASSUME NEW g \in Requests PROVE ArgsOK(request[g])'
      <3>1. ArgsOK(request[g]) /\ request'[g] = request[g]
        BY <1>1 DEF createBenchmark, ArgsInv
      <3>2. \A u \in Tests : Exists(u) => Exists(u)' /\ suiteOf'[u] = suiteOf[u]
        BY <1>1, <1>a DEF createBenchmark, Exists
      <3>3. QED
        BY <3>1, <3>2 DEF ArgsOK, TestFound, ResultSteps
    <2>4. QED
      BY <2>2, <2>3 DEF ArgsInv
  <1>2. ASSUME NEW h \in Requests, NEW t \in Tests, NEW dto \in Dtos,
               updateBenchmarkById(h, t, dto)
        PROVE  TypeInv'
    <2> DEFINE q == [Idle EXCEPT !.at = "updating", !.test = t, !.dto = dto]
    <2>1. q \in Request /\ q.at = "updating" /\ q.test = t
      BY IdleTyped, DtosAssumption DEF Request, Steps, Idle
    <2>2. ArgsOK(q)
      BY <1>2, <2>1 DEF ArgsOK, updateBenchmarkById, Active, TestFound, WithMetric,
         ResultSteps
    <2>3. Start(h, q) /\ UNCHANGED <<tables, history>>
      BY <1>2 DEF updateBenchmarkById
    <2>4. QED
      BY <1>a, <2>1, <2>2, <2>3, StartStep DEF tables, TypeOK
  <1>3. ASSUME NEW h \in Requests, updateScalars(h) PROVE TypeInv'
    <2>1. ArgsOK([request[h] EXCEPT !.at = "replacing"])
      BY <1>3, <1>a DEF ArgsInv, ArgsOK, updateScalars, TestFound, WithMetric,
         ResultSteps, Request
    <2>2. QED
      BY <1>3, <1>a, <2>1, GotoStep DEF updateScalars, tables, TypeOK, Steps
  <1>4. ASSUME NEW h \in Requests, NEW rel \in Relations, replaceRelation(h, rel)
        PROVE  TypeInv'
    <2> DEFINE found == rows \cap RowsFor(request[h].test, rel, Values[rel])
               q == [request[h] EXCEPT !.at = "deleting", !.seen = found]
    <2>1. q \in Request
      BY <1>a, FindingTyped
    <2>2. ArgsOK(q)
      BY <1>4, <1>a DEF ArgsInv, ArgsOK, replaceRelation, TestFound, WithMetric,
         ResultSteps, Request
    <2>3. request' = [request EXCEPT ![h] = q] /\ UNCHANGED <<tables, history>>
      BY <1>4 DEF replaceRelation
    <2>4. QED
      BY <1>a, <2>1, <2>2, <2>3, RequestStep DEF tables, TypeOK
  <1>5. ASSUME NEW h \in Requests, deleteMany(h) PROVE TypeInv'
    <2> DEFINE q == [request[h] EXCEPT !.at = "creating", !.seen = {},
                                       !.deleted = @ \cup request[h].seen]
    <2>1. q \in Request
      BY <1>a, DeletingTyped
    <2>2. ArgsOK(q)
      BY <1>5, <1>a DEF ArgsInv, ArgsOK, deleteMany, TestFound, WithMetric,
         ResultSteps, Request
    <2>3. request' = [request EXCEPT ![h] = q] /\ UNCHANGED <<tables, history>>
      BY <1>5 DEF deleteMany
    <2>4. QED
      BY <1>a, <2>1, <2>2, <2>3, RequestStep DEF tables, TypeOK
  <1>6. ASSUME NEW h \in Requests, NEW rel \in Relations, createMany(h, rel)
        PROVE  TypeInv'
    <2> DEFINE new == RowsFor(request[h].test, rel, request[h].dto[rel])
               q == [request[h] EXCEPT !.at = "replacing", !.done = @ \cup {rel},
                                       !.inserted = @ \cup new]
    <2>1. request[h].test \in Tests /\ request[h].dto \in Dto
      BY <1>6, <1>a DEF ArgsInv, ArgsOK, createMany, TestFound, Request
    <2>2. new \subseteq Row
      BY <2>1, BodyTyped, RowsTyped
    <2>3. q \in Request
      BY <1>a, <2>2, CreatingTyped
    <2>4. ArgsOK(q)
      BY <1>6, <1>a DEF ArgsInv, ArgsOK, createMany, TestFound, WithMetric,
         ResultSteps, Request
    <2>5. request' = [request EXCEPT ![h] = q] /\ UNCHANGED <<tables, history>>
      BY <1>6 DEF createMany
    <2>6. QED
      BY <1>a, <2>3, <2>4, <2>5, RequestStep DEF tables, TypeOK
  <1>7. ASSUME NEW h \in Requests, commit(h) PROVE TypeInv'
    <2>1. /\ request[h].inserted \subseteq Row
          /\ MetricsIn(request[h].inserted) \subseteq Metrics
      BY <1>a, MetricsTyped DEF Request
    <2>2. WithoutSubsets(request[h].deleted) \subseteq Result
      BY <1>a DEF WithoutSubsets, Result
    <2>3. request' \in [Requests -> Request] /\ ArgsInv'
      BY <1>7, RequestsShrink DEF commit, tests
    <2>4. raced' \in [Requests -> SUBSET Relations]
      BY <1>7, <1>a DEF commit, Overtaken, Request, Dto
    <2>5. request[h].test \in Tests
      BY <1>7, <1>a DEF ArgsInv, ArgsOK, commit, TestFound
    <2>6. mixed' \subseteq Tests \X Relations
      BY <1>7, <1>a, <2>5 DEF commit, Pairs
    <2>7. QED
      BY <1>7, <1>a, <2>1, <2>2, <2>3, <2>4, <2>6 DEF commit, tests, TypeOK
  <1>8. ASSUME NEW h \in Requests, NEW t \in Tests, softDeleteBenchmarkById(h, t)
        PROVE  TypeInv'
    <2> DEFINE q == [Idle EXCEPT !.at = "softDeleting", !.test = t]
    <2>1. q \in Request /\ q.at = "softDeleting" /\ q.test = t
      BY IdleTyped DEF Request, Steps, Idle
    <2>2. ArgsOK(q)
      BY <1>8, <2>1 DEF ArgsOK, softDeleteBenchmarkById, Active, TestFound,
         WithMetric, ResultSteps
    <2>3. Start(h, q) /\ UNCHANGED <<tables, history>>
      BY <1>8 DEF softDeleteBenchmarkById
    <2>4. QED
      BY <1>a, <2>1, <2>2, <2>3, StartStep DEF tables, TypeOK
  <1>9. ASSUME NEW h \in Requests, markDeleted(h) PROVE TypeInv'
    <2>1. request[h].test \in Tests
      BY <1>9, <1>a DEF ArgsInv, ArgsOK, markDeleted, TestFound
    <2>2. QED
      BY <1>9, <1>a, <2>1, FinishStep DEF markDeleted, TypeOK
  <1>10. ASSUME NEW h \in Requests, NEW m \in Metrics, createMetric(h, m)
         PROVE  TypeInv'
    BY <1>10, <1>a DEF createMetric, tests, TypeOK, ArgsInv, ArgsOK, Exists
  <1>11. ASSUME NEW h \in Requests, NEW m \in Metrics, deleteMetricById(h, m)
         PROVE  TypeInv'
    <2> DEFINE q == [Idle EXCEPT !.at = "deletingMetric", !.metric = m]
    <2>1. q \in Request /\ q.at = "deletingMetric" /\ q.metric = m
      BY IdleTyped DEF Request, Steps, Idle
    <2>2. ArgsOK(q)
      BY <2>1 DEF ArgsOK, TestFound, WithMetric, ResultSteps
    <2>3. Start(h, q) /\ UNCHANGED <<tables, history>>
      BY <1>11 DEF deleteMetricById
    <2>4. QED
      BY <1>a, <2>1, <2>2, <2>3, StartStep DEF tables, TypeOK
  <1>12. ASSUME NEW h \in Requests, deleteMetric(h) PROVE TypeInv'
    <2>1. request' \in [Requests -> Request] /\ ArgsInv'
      BY <1>12, RequestsShrink DEF deleteMetric, tests
    <2>2. QED
      BY <1>12, <1>a, <2>1 DEF deleteMetric, tests, TypeOK
  <1>13. ASSUME NEW h \in Requests, NEW t \in Tests, NEW m \in Metrics,
                NEW subset \in Subsets \cup {None},
                createMetricResult(h, t, m, subset)
         PROVE  TypeInv'
    <2> DEFINE q == [Idle EXCEPT !.at = "findingTest", !.test = t, !.metric = m,
                                 !.subset = subset]
    <2>1. q \in Request /\ q.at = "findingTest" /\ q.test = t /\ q.metric = m
      BY IdleTyped DEF Request, Steps, Idle
    <2>2. ArgsOK(q)
      BY <2>1 DEF ArgsOK, TestFound, WithMetric, ResultSteps
    <2>3. Start(h, q) /\ UNCHANGED <<tables, history>>
      BY <1>13 DEF createMetricResult
    <2>4. QED
      BY <1>a, <2>1, <2>2, <2>3, StartStep DEF tables, TypeOK
  <1>14. ASSUME NEW h \in Requests, findTest(h) PROVE TypeInv'
    <2> DEFINE step == IF request[h].subset = None THEN "savingResult"
                       ELSE "findingSubset"
               q == [request[h] EXCEPT !.suite = suiteOf[request[h].test],
                                       !.at = step]
    <2>1. /\ request[h].test \in Tests /\ Exists(request[h].test)
          /\ request[h].metric \in Metrics
          /\ request[h].subset \in Subsets \cup {None}
      BY <1>14, <1>a DEF ArgsInv, ArgsOK, findTest, Active, WithMetric, Request
    <2>2. q \in Request
      <3>1. step \in Steps /\ suiteOf[request[h].test] \in Suites \cup {None}
        BY <1>a, <2>1 DEF Steps
      <3> HIDE DEF step
      <3>2. QED
        BY <1>a, <3>1 DEF Request
    <2>3. /\ q.at = step /\ q.test = request[h].test
          /\ q.suite = suiteOf[q.test] /\ q.metric = request[h].metric
          /\ q.subset = request[h].subset
      BY <1>a DEF Request
    <2>4. ArgsOK(q)
      BY <2>1, <2>3 DEF ArgsOK, TestFound, WithMetric, ResultSteps
    <2>5. request' = [request EXCEPT ![h] = q] /\ UNCHANGED <<tables, history>>
      BY <1>14 DEF findTest
    <2>6. QED
      BY <1>a, <2>2, <2>4, <2>5, RequestStep DEF tables, TypeOK
  <1>15. ASSUME NEW h \in Requests, findSubset(h) PROVE TypeInv'
    <2>1. ArgsOK([request[h] EXCEPT !.at = "savingResult"])
      BY <1>15, <1>a DEF ArgsInv, ArgsOK, findSubset, TestFound, WithMetric,
         ResultSteps, Request
    <2>2. QED
      BY <1>15, <1>a, <2>1, GotoStep DEF findSubset, tables, TypeOK, Steps
  <1>16. ASSUME NEW h \in Requests, saveResult(h) PROVE TypeInv'
    <2>1. ArgsOK([request[h] EXCEPT !.at = "listingMetric"])
      BY <1>16, <1>a DEF ArgsInv, ArgsOK, saveResult, TestFound, WithMetric,
         ResultSteps, Request
    <2>2. ResultOf(h) \in Result
      BY <1>16, <1>a DEF ArgsInv, ArgsOK, saveResult, TestFound, WithMetric,
         ResultSteps, Request, ResultOf, Result, Exists
    <2>3. QED
      BY <1>16, <1>a, <2>1, <2>2, GotoStep DEF saveResult, tests, TypeOK, Steps
  <1>17. ASSUME NEW h \in Requests, listMetric(h) PROVE TypeInv'
    <2>1. request[h].test \in Tests /\ request[h].metric \in Metrics
      BY <1>17, <1>a DEF ArgsInv, ArgsOK, listMetric, TestFound, WithMetric,
         ResultSteps
    <2>2. RowsFor(request[h].test, "metrics", {request[h].metric}) \subseteq Row
      BY <2>1, RowsTyped
    <2>3. QED
      BY <1>17, <1>a, <2>2, FinishStep DEF listMetric, tests, TypeOK
  <1>18. ASSUME NEW h \in Requests, Abandon(h) PROVE TypeInv'
    BY <1>18, <1>a, FinishStep DEF Abandon, tables, TypeOK
  <1>19. CASE UNCHANGED vars
    BY <1>19 DEF vars, TypeOK, ArgsInv, ArgsOK, Exists
  <1>20. QED
    BY <1>1, <1>2, <1>3, <1>4, <1>5, <1>6, <1>7, <1>8, <1>9, <1>10, <1>11, <1>12,
       <1>13, <1>14, <1>15, <1>16, <1>17, <1>18, <1>19 DEF Next

\* Everything in the tables and in the requests in flight has its type.
THEOREM TypeCorrect == Spec => []TypeOK
  <1>1. TypeInv => TypeOK
    BY DEF TypeInv
  <1>2. QED
    BY <1>1, TypeInvInit, TypeInvNext, PTL DEF Spec
----------------------------------------------------------------------------
(* What a transaction has found, deleted and inserted is of its own test,  *)
(* and nothing is left of it outside the transaction.                      *)

Contained(q) == \A r \in q.seen \cup q.deleted \cup q.inserted :
                  q.at \in InTransaction /\ r.test = q.test
ContainedInv == \A h \in Requests : Contained(request[h])

LEMMA IdleContained ==
  ASSUME NEW q, q.seen = {}, q.deleted = {}, q.inserted = {}
  PROVE  Contained(q)
  BY DEF Contained

LEMMA ContainedStep ==
  ASSUME TypeOK, ContainedInv, NEW h \in Requests, NEW q, Contained(q),
         request' = [request EXCEPT ![h] = q]
  PROVE  ContainedInv'
  BY DEF TypeOK, ContainedInv, Contained

LEMMA ContainedShrink ==
  ASSUME TypeOK, ContainedInv, NEW h \in Requests, NEW gone,
         request' = [g \in Requests |-> IF g = h THEN Idle
                       ELSE [request[g] EXCEPT !.seen = @ \ gone]]
  PROVE  ContainedInv'
  <1>1. ASSUME NEW g \in Requests PROVE Contained(request'[g])
    <2>1. CASE g = h
      BY <2>1, IdleContained DEF Idle
    <2>2. CASE g # h
      <3>1. /\ request'[g] = [request[g] EXCEPT !.seen = @ \ gone]
            /\ request[g] \in Request
            /\ Contained(request[g])
        BY <2>2 DEF TypeOK, ContainedInv
      <3>2. QED
        BY <3>1 DEF Request, Contained
    <2>3. QED
      BY <2>1, <2>2
  <1>2. QED
    BY <1>1 DEF ContainedInv, Contained

\* Outside its transaction a request may go anywhere.
LEMMA ContainedGoto ==
  ASSUME TypeOK, ContainedInv, NEW h \in Requests, NEW step,
         request[h].at \notin InTransaction, Goto(h, step)
  PROVE  ContainedInv'
  <1>1. request[h] \in Request /\ Contained(request[h])
    BY DEF TypeOK, ContainedInv
  <1>2. Contained([request[h] EXCEPT !.at = step])
    BY <1>1 DEF Request, Contained
  <1>3. request' = [request EXCEPT ![h] = [request[h] EXCEPT !.at = step]]
    BY DEF Goto
  <1>4. QED
    BY <1>2, <1>3, ContainedStep

LEMMA ContainedFinish ==
  ASSUME TypeOK, ContainedInv, NEW h \in Requests, Finish(h)
  PROVE  ContainedInv'
  BY IdleContained, ContainedStep DEF Finish, Idle

LEMMA ContainedNext == TypeInv /\ ContainedInv /\ [Next]_vars => ContainedInv'
  <1> SUFFICES ASSUME TypeInv, ContainedInv, [Next]_vars PROVE ContainedInv'
    OBVIOUS
  <1>a. TypeOK /\ request \in [Requests -> Request]
    BY DEF TypeInv, TypeOK
  <1>1. ASSUME NEW h \in Requests, NEW t \in Tests, NEW dto \in Dtos,
               NEW s \in Suites, createBenchmark(h, t, s, dto)
        PROVE  ContainedInv'
    BY <1>1 DEF createBenchmark, ContainedInv, Contained
  <1>2. ASSUME NEW h \in Requests, NEW t \in Tests, NEW dto \in Dtos,
               updateBenchmarkById(h, t, dto)
        PROVE  ContainedInv'
    <2> DEFINE q == [Idle EXCEPT !.at = "updating", !.test = t, !.dto = dto]
    <2>1. Contained(q)
      BY IdleContained DEF Idle
    <2>2. QED
      BY <1>2, <1>a, <2>1, ContainedStep DEF updateBenchmarkById, Start
  <1>3. ASSUME NEW h \in Requests, updateScalars(h) PROVE ContainedInv'
    BY <1>3, <1>a, ContainedGoto DEF updateScalars, InTransaction
  <1>4. ASSUME NEW h \in Requests, NEW rel \in Relations, replaceRelation(h, rel)
        PROVE  ContainedInv'
    <2> DEFINE found == rows \cap RowsFor(request[h].test, rel, Values[rel])
               q == [request[h] EXCEPT !.at = "deleting", !.seen = found]
    <2>1. \A r \in found : r.test = request[h].test
      BY DEF RowsFor
    <2>2. Contained(q)
      BY <1>a, <2>1 DEF ContainedInv, Contained, Request, InTransaction
    <2>3. QED
      BY <1>4, <1>a, <2>2, ContainedStep DEF replaceRelation
  <1>5. ASSUME NEW h \in Requests, deleteMany(h) PROVE ContainedInv'
    <2> DEFINE q == [request[h] EXCEPT !.at = "creating", !.seen = {},
                                       !.deleted = @ \cup request[h].seen]
    <2>1. Contained(q)
      BY <1>a DEF ContainedInv, Contained, Request, InTransaction
    <2>2. QED
      BY <1>5, <1>a, <2>1, ContainedStep DEF deleteMany
  <1>6. ASSUME NEW h \in Requests, NEW rel \in Relations, createMany(h, rel)
        PROVE  ContainedInv'
    <2> DEFINE new == RowsFor(request[h].test, rel, request[h].dto[rel])
               q == [request[h] EXCEPT !.at = "replacing", !.done = @ \cup {rel},
                                       !.inserted = @ \cup new]
    <2>1. \A r \in new : r.test = request[h].test
      BY DEF RowsFor
    <2>2. Contained(q)
      BY <1>a, <2>1 DEF ContainedInv, Contained, Request, InTransaction
    <2>3. QED
      BY <1>6, <1>a, <2>2, ContainedStep DEF createMany
  <1>7. ASSUME NEW h \in Requests, commit(h) PROVE ContainedInv'
    BY <1>7, <1>a, ContainedShrink DEF commit
  <1>8. ASSUME NEW h \in Requests, NEW t \in Tests, softDeleteBenchmarkById(h, t)
        PROVE  ContainedInv'
    <2> DEFINE q == [Idle EXCEPT !.at = "softDeleting", !.test = t]
    <2>1. Contained(q)
      BY IdleContained DEF Idle
    <2>2. QED
      BY <1>8, <1>a, <2>1, ContainedStep DEF softDeleteBenchmarkById, Start
  <1>9. ASSUME NEW h \in Requests, markDeleted(h) PROVE ContainedInv'
    BY <1>9, <1>a, ContainedFinish DEF markDeleted
  <1>10. ASSUME NEW h \in Requests, NEW m \in Metrics, createMetric(h, m)
         PROVE  ContainedInv'
    BY <1>10 DEF createMetric, ContainedInv, Contained
  <1>11. ASSUME NEW h \in Requests, NEW m \in Metrics, deleteMetricById(h, m)
         PROVE  ContainedInv'
    <2> DEFINE q == [Idle EXCEPT !.at = "deletingMetric", !.metric = m]
    <2>1. Contained(q)
      BY IdleContained DEF Idle
    <2>2. QED
      BY <1>11, <1>a, <2>1, ContainedStep DEF deleteMetricById, Start
  <1>12. ASSUME NEW h \in Requests, deleteMetric(h) PROVE ContainedInv'
    BY <1>12, <1>a, ContainedShrink DEF deleteMetric
  <1>13. ASSUME NEW h \in Requests, NEW t \in Tests, NEW m \in Metrics,
                NEW subset \in Subsets \cup {None},
                createMetricResult(h, t, m, subset)
         PROVE  ContainedInv'
    <2> DEFINE q == [Idle EXCEPT !.at = "findingTest", !.test = t, !.metric = m,
                                 !.subset = subset]
    <2>1. Contained(q)
      BY IdleContained DEF Idle
    <2>2. QED
      BY <1>13, <1>a, <2>1, ContainedStep DEF createMetricResult, Start
  <1>14. ASSUME NEW h \in Requests, findTest(h) PROVE ContainedInv'
    <2> DEFINE step == IF request[h].subset = None THEN "savingResult"
                       ELSE "findingSubset"
               q == [request[h] EXCEPT !.suite = suiteOf[request[h].test],
                                       !.at = step]
    <2>1. /\ request[h].seen = {} /\ request[h].deleted = {}
          /\ request[h].inserted = {}
      BY <1>14, <1>a DEF findTest, ContainedInv, Contained, InTransaction
    <2>2. q.seen = {} /\ q.deleted = {} /\ q.inserted = {}
      BY <1>a, <2>1 DEF Request
    <2>3. request' = [request EXCEPT ![h] = q]
      BY <1>14 DEF findTest
    <2> HIDE DEF q
    <2>4. QED
      BY <1>a, <2>2, <2>3, IdleContained, ContainedStep
  <1>15. ASSUME NEW h \in Requests, findSubset(h) PROVE ContainedInv'
    BY <1>15, <1>a, ContainedGoto DEF findSubset, InTransaction
  <1>16. ASSUME NEW h \in Requests, saveResult(h) PROVE ContainedInv'
    BY <1>16, <1>a, ContainedGoto DEF saveResult, InTransaction
  <1>17. ASSUME NEW h \in Requests, listMetric(h) PROVE ContainedInv'
    BY <1>17, <1>a, ContainedFinish DEF listMetric
  <1>18. ASSUME NEW h \in Requests, Abandon(h) PROVE ContainedInv'
    BY <1>18, <1>a, ContainedFinish DEF Abandon
  <1>19. CASE UNCHANGED vars
    BY <1>19 DEF vars, ContainedInv, Contained
  <1>20. QED
    BY <1>1, <1>2, <1>3, <1>4, <1>5, <1>6, <1>7, <1>8, <1>9, <1>10, <1>11, <1>12,
       <1>13, <1>14, <1>15, <1>16, <1>17, <1>18, <1>19 DEF Next
----------------------------------------------------------------------------
(* The links between tables.  *)

LinkInv == ResultInItsSuite /\ NoEmptySuite /\ LinksResolve

LEMMA QuietLinks ==
  LinkInv /\ UNCHANGED <<suites, suiteOf, rows, definitions, results>> => LinkInv'
  BY DEF LinkInv, ResultInItsSuite, NoEmptySuite, LinksResolve, Exists

LEMMA LinksNext == TypeInv /\ ContainedInv /\ LinkInv /\ [Next]_vars => LinkInv'
  <1> SUFFICES ASSUME TypeInv, ContainedInv, LinkInv, [Next]_vars PROVE LinkInv'
    OBVIOUS
  <1>a. /\ suites \subseteq Suites
        /\ suiteOf \in [Tests -> Suites \cup {None}]
        /\ rows \subseteq Row
        /\ results \subseteq Result
        /\ request \in [Requests -> Request]
    BY DEF TypeInv, TypeOK
  <1>b. ResultInItsSuite /\ NoEmptySuite /\ LinksResolve
    BY DEF LinkInv
  <1> USE DEF tables, tests
  <1>1. ASSUME NEW h \in Requests, NEW t \in Tests, NEW dto \in Dtos,
               NEW s \in Suites, createBenchmark(h, t, s, dto)
        PROVE  LinkInv'
    <2> DEFINE new == RowsOf(t, dto)
    <2>1. new \subseteq Row /\ \A r \in new : r.test = t
      BY NewRowsTyped, DtosAssumption
    <2>2. /\ suites' = suites \cup {s} /\ suiteOf' = [suiteOf EXCEPT ![t] = s]
          /\ rows' = rows \cup new /\ definitions' = definitions \cup MetricsIn(new)
          /\ results' = results /\ suiteOf[t] = None
      BY <1>1 DEF createBenchmark, Exists
    <2>3. s # None /\ None \notin suites
      BY <1>a, NoneAssumption
    <2>4. suiteOf'[t] = s /\ \A u \in Tests : u # t => suiteOf'[u] = suiteOf[u]
      BY <1>a, <2>2
    <2>5. \A u \in Tests : Exists(u) => u # t /\ Exists(u)'
      BY <2>2, <2>4 DEF Exists
    <2>6. ResultInItsSuite'
      BY <1>a, <1>b, <2>2, <2>4, <2>5 DEF ResultInItsSuite, LinksResolve, Result
    <2>7. NoEmptySuite'
      BY <1>a, <1>b, <2>2, <2>3, <2>4 DEF NoEmptySuite
    <2>8. \A r \in rows' : Exists(r.test)'
      BY <1>a, <1>b, <2>1, <2>2, <2>3, <2>4, <2>5, RowTyped DEF LinksResolve, Exists
    <2>9. \A r \in rows' : r.rel = "metrics" => r.value \in definitions'
      BY <1>b, <2>2 DEF LinksResolve, MetricsIn
    <2>10. \A r \in results : Exists(r.test)'
      BY <1>a, <1>b, <2>5 DEF LinksResolve, Result
    <2>11. \A r \in results : /\ r.metric \in definitions'
                              /\ r.subset # None =>
                                   \E q \in rows' : q.rel = "subDatasets" /\ q.value = r.subset
      BY <1>b, <2>2 DEF LinksResolve
    <2>12. QED
      BY <2>2, <2>6, <2>7, <2>8, <2>9, <2>10, <2>11 DEF LinkInv, LinksResolve
  <1>2. ASSUME NEW h \in Requests, commit(h) PROVE LinkInv'
    <2> DEFINE gone == request[h].deleted
               new == request[h].inserted
    <2>1. /\ rows' = (rows \ gone) \cup new
          /\ definitions' = definitions \cup MetricsIn(new)
          /\ results' = WithoutSubsets(gone)
          /\ suites' = suites /\ suiteOf' = suiteOf
      BY <1>2 DEF commit
    <2>2. \A r \in new : Exists(r.test)
      <3>1. request[h].at \in TestFound
        BY <1>2 DEF commit, TestFound
      <3>2. Exists(request[h].test)
        BY <3>1 DEF TypeInv, ArgsInv, ArgsOK
      <3>3. QED
        BY <3>2 DEF ContainedInv, Contained
    <2>3. \A r \in rows' : Exists(r.test)' /\ (r.rel = "metrics" => r.value \in definitions')
      BY <1>b, <2>1, <2>2 DEF LinksResolve, MetricsIn, Exists
    <2>4. \A r \in results' : \E p \in results :
            /\ r.test = p.test /\ r.suite = p.suite /\ r.metric = p.metric
            /\ r.subset # None => /\ r.subset = p.subset
                                  /\ ~\E q \in gone : q.rel = "subDatasets"
                                                     /\ q.value = p.subset
      <3>1. ASSUME NEW p \in results, NEW r,
                   r = IF \E q \in gone : q.rel = "subDatasets" /\ q.value = p.subset
                         THEN [p EXCEPT !.subset = None] ELSE p
            PROVE  /\ r.test = p.test /\ r.suite = p.suite /\ r.metric = p.metric
                   /\ r.subset # None => /\ r.subset = p.subset
                                         /\ ~\E q \in gone : q.rel = "subDatasets"
                                                            /\ q.value = p.subset
        <4>1. p \in Result
          BY <1>a
        <4>2. QED
          BY <3>1, <4>1 DEF Result
      <3>2. QED
        BY <2>1, <3>1 DEF WithoutSubsets
    <2>5. \A r \in results' :
            /\ Exists(r.test)' /\ r.metric \in definitions'
            /\ r.suite = suiteOf'[r.test]
            /\ r.subset # None =>
                 \E q \in rows' : q.rel = "subDatasets" /\ q.value = r.subset
      BY <1>b, <2>1, <2>4 DEF LinksResolve, ResultInItsSuite, Exists
    <2>6. NoEmptySuite'
      BY <1>b, <2>1 DEF NoEmptySuite
    <2>7. QED
      BY <2>3, <2>5, <2>6 DEF LinkInv, LinksResolve, ResultInItsSuite
  <1>3. ASSUME NEW h \in Requests, NEW m \in Metrics, createMetric(h, m)
        PROVE  LinkInv'
    BY <1>3, <1>b DEF createMetric, LinkInv, LinksResolve, ResultInItsSuite,
       NoEmptySuite, Exists
  <1>4. ASSUME NEW h \in Requests, deleteMetric(h) PROVE LinkInv'
    <2> DEFINE m == request[h].metric
    <2>1. /\ definitions' = definitions \ {m}
          /\ rows' = rows \ {q \in rows : q.rel = "metrics" /\ q.value = m}
          /\ results' = {r \in results : r.metric # m}
          /\ suites' = suites /\ suiteOf' = suiteOf
      BY <1>4 DEF deleteMetric
    <2> HIDE DEF m
    <2>2. QED
      BY <1>b, <2>1 DEF LinkInv, LinksResolve, ResultInItsSuite, NoEmptySuite, Exists
  <1>5. ASSUME NEW h \in Requests, saveResult(h) PROVE LinkInv'
    <2> DEFINE q == request[h]
    <2>1. /\ Exists(q.test) /\ q.suite = suiteOf[q.test] /\ q.metric \in definitions
      BY <1>5 DEF saveResult, TypeInv, ArgsInv, ArgsOK, TestFound, ResultSteps
    <2>2. q.subset # None =>
            \E r \in rows : r.rel = "subDatasets" /\ r.value = q.subset
      BY <1>5 DEF saveResult, SubsetConnects
    <2>3. /\ results' = results \cup {ResultOf(h)}
          /\ UNCHANGED <<suites, suiteOf, rows, definitions>>
      BY <1>5 DEF saveResult
    <2>4. /\ ResultOf(h).test = q.test /\ ResultOf(h).suite = q.suite
          /\ ResultOf(h).subset = q.subset /\ ResultOf(h).metric = q.metric
      BY DEF ResultOf
    <2> HIDE DEF q
    <2>5. QED
      BY <1>b, <2>1, <2>2, <2>3, <2>4 DEF LinkInv, LinksResolve, ResultInItsSuite,
         NoEmptySuite, Exists
  <1>6. ASSUME NEW h \in Requests, listMetric(h) PROVE LinkInv'
    <2> DEFINE new == RowsFor(request[h].test, "metrics", {request[h].metric})
    <2>1. Exists(request[h].test)
      BY <1>6 DEF listMetric, TypeInv, ArgsInv, ArgsOK, TestFound, ResultSteps
    <2>2. \A r \in new : r.test = request[h].test /\ r.value = request[h].metric
      BY DEF RowsFor
    <2>3. new \subseteq rows \/ request[h].metric \in definitions
      BY <1>6 DEF listMetric
    <2>4. rows' = rows \cup new /\ UNCHANGED <<suites, suiteOf, definitions, results>>
      BY <1>6 DEF listMetric
    <2> HIDE DEF new
    <2>5. QED
      BY <1>b, <2>1, <2>2, <2>3, <2>4 DEF LinkInv, LinksResolve, ResultInItsSuite,
         NoEmptySuite, Exists
  <1>7. ASSUME NEW h \in Requests, NEW t \in Tests, NEW dto \in Dtos,
               updateBenchmarkById(h, t, dto)
        PROVE  LinkInv'
    BY <1>7, QuietLinks DEF updateBenchmarkById
  <1>8. ASSUME NEW h \in Requests, NEW t \in Tests, softDeleteBenchmarkById(h, t)
        PROVE  LinkInv'
    BY <1>8, QuietLinks DEF softDeleteBenchmarkById
  <1>9. ASSUME NEW h \in Requests, NEW rel \in Relations,
               replaceRelation(h, rel) \/ createMany(h, rel)
        PROVE  LinkInv'
    BY <1>9, QuietLinks DEF replaceRelation, createMany
  <1>10. ASSUME NEW h \in Requests,
                \/ updateScalars(h) \/ deleteMany(h) \/ markDeleted(h)
                \/ findTest(h) \/ findSubset(h) \/ Abandon(h)
         PROVE  LinkInv'
    BY <1>10, QuietLinks DEF updateScalars, deleteMany, markDeleted, findTest,
       findSubset, Abandon
  <1>11. ASSUME NEW h \in Requests, NEW m \in Metrics, deleteMetricById(h, m)
         PROVE  LinkInv'
    BY <1>11, QuietLinks DEF deleteMetricById
  <1>12. ASSUME NEW h \in Requests, NEW t \in Tests, NEW m \in Metrics,
                NEW subset \in Subsets \cup {None},
                createMetricResult(h, t, m, subset)
         PROVE  LinkInv'
    BY <1>12, QuietLinks DEF createMetricResult
  <1>13. CASE UNCHANGED vars
    BY <1>13, QuietLinks DEF vars
  <1>14. QED
    BY <1>1, <1>2, <1>3, <1>4, <1>5, <1>6, <1>7, <1>8, <1>9, <1>10, <1>11, <1>12,
       <1>13 DEF Next

LEMMA LinksInvariant == Spec => [](TypeInv /\ ContainedInv /\ LinkInv)
  <1>1. Init => ContainedInv
    BY IdleContained DEF Init, ContainedInv, Idle
  <1>2. Init => LinkInv
    BY DEF Init, LinkInv, ResultInItsSuite, NoEmptySuite, LinksResolve
  <1>3. QED
    BY <1>1, <1>2, TypeInvInit, TypeInvNext, ContainedNext, LinksNext, PTL DEF Spec

\* A result names the suite its test is in.
THEOREM ResultInItsSuiteAlways == Spec => []ResultInItsSuite
  <1>1. LinkInv => ResultInItsSuite
    BY DEF LinkInv
  <1>2. QED
    BY <1>1, LinksInvariant, PTL

\* No suite is without a test.
THEOREM NoEmptySuiteAlways == Spec => []NoEmptySuite
  <1>1. LinkInv => NoEmptySuite
    BY DEF LinkInv
  <1>2. QED
    BY <1>1, LinksInvariant, PTL

\* Rows and results refer to what is there.
THEOREM LinksResolveAlways == Spec => []LinksResolve
  <1>1. LinkInv => LinksResolve
    BY DEF LinkInv
  <1>2. QED
    BY <1>1, LinksInvariant, PTL
-----------------------------------------------------------------------------
(* Whose sub-dataset a result has: a row is found by its own id, so that   *)
(* the look at the test's rows counts for as long as the id stays with     *)
(* that test.                                                              *)

\* No id of a sub-dataset is used for a test other than its owner.
OwnedBy(owner) ==
  \A r \in rows : r.rel = "subDatasets" => r.test = owner[r.value]

OfOwner(owner, q) ==
  q.at \in {"savingResult", "listingMetric"} /\ q.subset # None =>
    q.test = owner[q.subset]

\* A request has found the sub-dataset it is to save a result for, if it names one.
Belongs(owner) ==
  /\ \A h \in Requests : OfOwner(owner, request[h])
  /\ \A r \in results : r.subset # None => r.test = owner[r.subset]

LEMMA BelongsStep ==
  ASSUME NEW owner, TypeOK, Belongs(owner), results' = results,
         NEW h \in Requests, NEW q, OfOwner(owner, q),
         request' = [request EXCEPT ![h] = q]
  PROVE  Belongs(owner)'
  <1>1. request \in [Requests -> Request]
    BY DEF TypeOK
  <1>2. ASSUME NEW g \in Requests PROVE OfOwner(owner, request'[g])
    <2>1. request'[g] = IF g = h THEN q ELSE request[g]
      BY <1>1
    <2>2. QED
      BY <2>1 DEF Belongs
  <1>3. QED
    BY <1>2 DEF Belongs, OfOwner

\* What is taken from the rows that others have seen changes nothing here.
LEMMA BelongsShrinks ==
  ASSUME NEW owner, TypeOK, Belongs(owner), NEW h \in Requests, NEW gone,
         request' = [g \in Requests |-> IF g = h THEN Idle
                       ELSE [request[g] EXCEPT !.seen = @ \ gone]]
  PROVE  \A g \in Requests : OfOwner(owner, request'[g])
  <1>1. request \in [Requests -> Request]
    BY DEF TypeOK
  <1>2. ASSUME NEW g \in Requests PROVE OfOwner(owner, request'[g])
    <2>1. CASE g = h
      BY <2>1, IdleTyped DEF OfOwner
    <2>2. CASE g # h
      <3>1. /\ request[g] \in Request
            /\ request'[g] = [request[g] EXCEPT !.seen = @ \ gone]
            /\ OfOwner(owner, request[g])
        BY <1>1, <2>2 DEF Belongs
      <3>2. QED
        BY <3>1 DEF Request, OfOwner
    <2>3. QED
      BY <2>1, <2>2
  <1>3. QED
    BY <1>2

LEMMA BelongsNext ==
  ASSUME NEW owner, TypeInv, OwnedBy(owner), Belongs(owner), [Next]_vars
  PROVE  Belongs(owner)'
  <1> USE DEF tables, tests
  <1>0. TypeOK /\ request \in [Requests -> Request]
    BY DEF TypeInv, TypeOK
  <1>1. ASSUME NEW h \in Requests, NEW q, Start(h, q), OfOwner(owner, q), UNCHANGED results
        PROVE  Belongs(owner)'
    BY <1>0, <1>1, BelongsStep DEF Start
  <1>2. ASSUME NEW h \in Requests, NEW step, Goto(h, step), UNCHANGED results,
               step \notin {"savingResult", "listingMetric"}
        PROVE  Belongs(owner)'
    <2>1. OfOwner(owner, [request[h] EXCEPT !.at = step])
      BY <1>0, <1>2 DEF OfOwner, Request
    <2>2. QED
      BY <1>0, <1>2, <2>1, BelongsStep DEF Goto
  <1>3. ASSUME NEW h \in Requests, Finish(h), UNCHANGED results
        PROVE  Belongs(owner)'
    <2>1. OfOwner(owner, Idle)
      BY IdleTyped DEF OfOwner
    <2>2. QED
      BY <1>0, <1>3, <2>1, BelongsStep DEF Finish
  <1>4. ASSUME NEW h \in Requests, NEW q, request' = [request EXCEPT ![h] = q],
               q.at \in {"deleting", "creating", "replacing"}, UNCHANGED results
        PROVE  Belongs(owner)'
    BY <1>0, <1>4, BelongsStep DEF OfOwner
  <1>5. ASSUME NEW h \in Requests, NEW t \in Tests, NEW dto \in Dtos,
               \/ \E s \in Suites : createBenchmark(h, t, s, dto)
               \/ updateBenchmarkById(h, t, dto)
        PROVE  Belongs(owner)'
    <2>1. CASE \E s \in Suites : createBenchmark(h, t, s, dto)
      BY <2>1 DEF createBenchmark, Belongs, OfOwner
    <2>2. CASE updateBenchmarkById(h, t, dto)
      BY <1>1, <2>2, IdleTyped DEF updateBenchmarkById, OfOwner, Request
    <2>3. QED
      BY <1>5, <2>1, <2>2
  <1>6. ASSUME NEW h \in Requests, NEW rel \in Relations,
               replaceRelation(h, rel) \/ createMany(h, rel)
        PROVE  Belongs(owner)'
    <2> DEFINE found == rows \cap RowsFor(request[h].test, rel, Values[rel])
               new == RowsFor(request[h].test, rel, request[h].dto[rel])
               p == [request[h] EXCEPT !.at = "deleting", !.seen = found]
               q == [request[h] EXCEPT !.at = "replacing", !.done = @ \cup {rel},
                                       !.inserted = @ \cup new]
    <2>1. p.at = "deleting" /\ q.at = "replacing"
      BY <1>0 DEF Request
    <2>2. UNCHANGED results /\ (request' = [request EXCEPT ![h] = p] \/
                                request' = [request EXCEPT ![h] = q])
      BY <1>6 DEF replaceRelation, createMany
    <2> HIDE DEF p, q
    <2>3. QED
      BY <1>4, <2>1, <2>2
  <1>7. ASSUME NEW h \in Requests, deleteMany(h)
        PROVE  Belongs(owner)'
    <2> DEFINE q == [request[h] EXCEPT !.at = "creating", !.seen = {},
                                       !.deleted = @ \cup request[h].seen]
    <2>1. q.at = "creating"
      BY <1>0 DEF Request
    <2>2. UNCHANGED results /\ request' = [request EXCEPT ![h] = q]
      BY <1>7 DEF deleteMany
    <2> HIDE DEF q
    <2>3. QED
      BY <1>4, <2>1, <2>2
  <1>8. ASSUME NEW h \in Requests, updateScalars(h) \/ markDeleted(h)
        PROVE  Belongs(owner)'
    BY <1>2, <1>3, <1>8 DEF updateScalars, markDeleted
  \* A commit only takes the sub-dataset from a result.
  <1>9. ASSUME NEW h \in Requests, commit(h)
        PROVE  Belongs(owner)'
    <2>1. \A g \in Requests : OfOwner(owner, request'[g])
      BY <1>0, <1>9, BelongsShrinks DEF commit
    <2>2. ASSUME NEW r \in results', r.subset # None
          PROVE  r.test = owner[r.subset]
      <3>1. PICK s \in results : r = s \/ r = [s EXCEPT !.subset = None]
        BY <1>9, <2>2 DEF commit, WithoutSubsets
      <3>2. s \in Result
        BY <1>0 DEF TypeOK
      <3>3. r = s
        BY <2>2, <3>1, <3>2 DEF Result
      <3>4. QED
        BY <2>2, <3>3 DEF Belongs
    <2>3. QED
      BY <2>1, <2>2 DEF Belongs, OfOwner
  <1>10. ASSUME NEW h \in Requests, NEW t \in Tests, softDeleteBenchmarkById(h, t)
         PROVE  Belongs(owner)'
    BY <1>1, <1>10, IdleTyped DEF softDeleteBenchmarkById, OfOwner, Request
  <1>11. ASSUME NEW h \in Requests, NEW m \in Metrics,
                createMetric(h, m) \/ deleteMetricById(h, m)
         PROVE  Belongs(owner)'
    <2>1. CASE createMetric(h, m)
      BY <2>1 DEF createMetric, Belongs, OfOwner
    <2>2. CASE deleteMetricById(h, m)
      BY <1>1, <2>2, IdleTyped DEF deleteMetricById, OfOwner, Request
    <2>3. QED
      BY <1>11, <2>1, <2>2
  <1>12. ASSUME NEW h \in Requests, deleteMetric(h)
         PROVE  Belongs(owner)'
    <2>1. \A g \in Requests : OfOwner(owner, request'[g])
      BY <1>0, <1>12, BelongsShrinks DEF deleteMetric
    <2>2. results' \subseteq results
      BY <1>12 DEF deleteMetric
    <2>3. QED
      BY <2>1, <2>2 DEF Belongs, OfOwner
  <1>13. ASSUME NEW h \in Requests, NEW t \in Tests, NEW m \in Metrics,
                NEW subset \in Subsets \cup {None}, createMetricResult(h, t, m, subset)
         PROVE  Belongs(owner)'
    BY <1>1, <1>13, IdleTyped DEF createMetricResult, OfOwner, Request
  \* A request that names no sub-dataset goes on without a look.
  <1>14. ASSUME NEW h \in Requests, findTest(h)
         PROVE  Belongs(owner)'
    <2> DEFINE step == IF request[h].subset = None THEN "savingResult"
                       ELSE "findingSubset"
               q == [request[h] EXCEPT !.suite = suiteOf[request[h].test], !.at = step]
    <2>1. q.at = step /\ q.subset = request[h].subset
      BY <1>0 DEF Request
    <2>2. OfOwner(owner, q)
      BY <2>1 DEF OfOwner
    <2>3. request' = [request EXCEPT ![h] = q] /\ UNCHANGED results
      BY <1>14 DEF findTest
    <2>4. QED
      BY <1>0, <2>2, <2>3, BelongsStep
  \* The row that is found is the test's, and its owner's.
  <1>15. ASSUME NEW h \in Requests, findSubset(h)
         PROVE  Belongs(owner)'
    <2> DEFINE row == [test |-> request[h].test, rel |-> "subDatasets",
                       value |-> request[h].subset]
               q == [request[h] EXCEPT !.at = "savingResult"]
    <2>1. row \in rows
      BY <1>15 DEF findSubset, RowsFor
    <2>2. request[h].test = owner[request[h].subset]
      BY <2>1 DEF OwnedBy
    <2>3. q.test = request[h].test /\ q.subset = request[h].subset
      BY <1>0 DEF Request
    <2>4. OfOwner(owner, q)
      BY <2>2, <2>3 DEF OfOwner
    <2>5. request' = [request EXCEPT ![h] = q] /\ UNCHANGED results
      BY <1>15 DEF findSubset, Goto
    <2>6. QED
      BY <1>0, <2>4, <2>5, BelongsStep
  <1>16. ASSUME NEW h \in Requests, saveResult(h)
         PROVE  Belongs(owner)'
    <2> DEFINE q == [request[h] EXCEPT !.at = "listingMetric"]
    <2>1. request[h].subset # None => request[h].test = owner[request[h].subset]
      BY <1>16 DEF saveResult, Belongs, OfOwner
    <2>2. q.test = request[h].test /\ q.subset = request[h].subset
      BY <1>0 DEF Request
    <2>3. OfOwner(owner, q)
      BY <2>1, <2>2 DEF OfOwner
    <2>4. request' = [request EXCEPT ![h] = q] /\ results' = results \cup {ResultOf(h)}
      BY <1>16 DEF saveResult, Goto
    <2>5. \A g \in Requests : request'[g] = IF g = h THEN q ELSE request[g]
      BY <1>0, <2>4
    <2>6. \A g \in Requests : OfOwner(owner, request'[g])
      BY <2>3, <2>5 DEF Belongs
    <2>7. \A r \in results' : r.subset # None => r.test = owner[r.subset]
      BY <2>1, <2>4 DEF ResultOf, Belongs
    <2>8. QED
      BY <2>6, <2>7 DEF Belongs, OfOwner
  <1>17. ASSUME NEW h \in Requests, listMetric(h) \/ Abandon(h)
         PROVE  Belongs(owner)'
    BY <1>3, <1>17 DEF listMetric, Abandon
  <1>18. CASE UNCHANGED vars
    BY <1>18 DEF vars, Belongs, OfOwner
  <1>19. QED
    BY <1>5, <1>6, <1>7, <1>8, <1>9, <1>10, <1>11, <1>12, <1>13, <1>14, <1>15, <1>16,
       <1>17, <1>18 DEF Next

\* The reuse of a sub-dataset's id for another test is all that can make a result name
\* a sub-dataset that is not its test's: while each id is used for one test, results
\* saved three awaits after the look, and rows deleted and created in between, do not.
THEOREM SubsetOfItsTestWhileIdsAreKept ==
  ASSUME NEW owner \in [Subsets -> Tests]
  PROVE  Spec /\ []OwnedBy(owner) => []SubsetOfItsTest
  <1> DEFINE Kept == OwnedBy(owner)
             Inv == Belongs(owner)
  <1>1. Init => Inv
    BY IdleTyped DEF Init, Belongs, OfOwner
  <1>2. TypeInv /\ Kept /\ Inv /\ [Next]_vars => Inv'
    BY BelongsNext
  <1>3. TypeInv /\ LinkInv /\ Kept /\ Inv => SubsetOfItsTest
    <2> SUFFICES ASSUME TypeInv, LinkInv, Kept, Inv, NEW r \in results, r.subset # None
                 PROVE  RowsFor(r.test, "subDatasets", {r.subset}) \subseteq rows
      BY DEF SubsetOfItsTest
    <2>1. PICK q \in rows : q.rel = "subDatasets" /\ q.value = r.subset
      BY DEF LinkInv, LinksResolve
    <2>2. q.test = owner[r.subset] /\ r.test = owner[r.subset]
      BY <2>1 DEF OwnedBy, Belongs
    <2>3. q = [test |-> r.test, rel |-> "subDatasets", value |-> r.subset]
      BY <2>1, <2>2 DEF TypeInv, TypeOK, Row
    <2>4. QED
      BY <2>1, <2>3 DEF RowsFor
  <1> HIDE DEF Kept, Inv
  <1>4. Spec /\ []Kept => []SubsetOfItsTest
    BY <1>1, <1>2, <1>3, LinksInvariant, PTL DEF Spec
  <1>5. QED
    BY <1>4 DEF Kept
----------------------------------------------------------------------------
(* Updates: a transaction deletes all that was there before, unless        *)
(* another one, which the lock of the row did not keep out, replaces the   *)
(* same list meanwhile.                                                    *)

InTx(h) == request[h].at \in InTransaction

\* Two transactions that write the row are never on one test.
Locked == \A g, h \in Requests :
            /\ g # h /\ InTx(g) /\ InTx(h)
            /\ request[g].dto.scalars /\ request[h].dto.scalars
            => request[g].test # request[h].test

\* A row of a list that h replaces and that nobody else has replaced meanwhile.
Concerns(h, r) ==
  /\ r.test = request[h].test
  /\ r.rel \in request[h].dto.given \ ({"metrics"} \cup raced[h])

\* What the transaction has deleted is all there is of the lists it is through with.
Covers(h) ==
  /\ raced[h] \subseteq IF InTx(h) THEN request[h].dto.given ELSE {}
  /\ request[h].at = "updating" => request[h].done = {}
  /\ InTx(h) =>
       \A r \in request[h].deleted \cup request[h].seen \cup request[h].inserted :
         r.rel \in request[h].dto.given
  /\ InTx(h) =>
       \A r \in rows : Concerns(h, r) =>
         /\ r.rel \in request[h].done => r \in request[h].deleted
         /\ request[h].at = "deleting" /\ IsNext(h, r.rel) => r \in request[h].seen
         /\ request[h].at = "creating" /\ IsNext(h, r.rel) => r \in request[h].deleted

CoverInv == Locked /\ \A h \in Requests : Covers(h)
MixedInv == \A t \in Tests, rel \in Relations : <<t, rel>> \in mixed => Exists(t)
ReplaceInv == CoverInv /\ MixedInv /\ ReplacedWholeUnlessRaced

LEMMA NextUnique ==
  ASSUME NEW h, NEW r1 \in Relations, NEW r2 \in Relations, IsNext(h, r1), IsNext(h, r2)
  PROVE  r1 = r2
  BY DEF IsNext, Earlier

\* A step of others: what comes to the rows is no concern of g, and g has lost none
\* of the rows it has seen that are.
LEMMA CoversKept ==
  ASSUME NEW g \in Requests, Covers(g),
         request'[g].at = request[g].at, request'[g].test = request[g].test,
         request'[g].dto = request[g].dto, request'[g].done = request[g].done,
         request'[g].deleted = request[g].deleted,
         request'[g].inserted = request[g].inserted,
         request'[g].seen \subseteq request[g].seen,
         raced[g] \subseteq raced'[g],
         raced'[g] \subseteq IF InTx(g) THEN request[g].dto.given ELSE {},
         InTx(g) => \A r \in rows' : Concerns(g, r)' =>
                      r \in rows /\ (r \in request[g].seen => r \in request'[g].seen)
  PROVE  Covers(g)'
  <1>1. InTx(g)' <=> InTx(g)
    BY DEF InTx
  <1>2. \A rel : IsNext(g, rel)' <=> IsNext(g, rel)
    BY DEF IsNext, Pending
  <1>3. \A r : Concerns(g, r)' => Concerns(g, r)
    BY DEF Concerns
  <1>4. InTx(g)' => \A r \in rows' : Concerns(g, r)' =>
          /\ r.rel \in request'[g].done => r \in request'[g].deleted
          /\ request'[g].at = "deleting" /\ IsNext(g, r.rel)' => r \in request'[g].seen
          /\ request'[g].at = "creating" /\ IsNext(g, r.rel)' => r \in request'[g].deleted
    BY <1>1, <1>2, <1>3 DEF Covers
  <1>5. InTx(g)' =>
          \A r \in request'[g].deleted \cup request'[g].seen \cup request'[g].inserted :
            r.rel \in request'[g].dto.given
    BY <1>1 DEF Covers
  <1>6. /\ raced'[g] \subseteq IF InTx(g)' THEN request'[g].dto.given ELSE {}
        /\ request'[g].at = "updating" => request'[g].done = {}
    BY <1>1 DEF Covers
  <1>7. QED
    BY <1>4, <1>5, <1>6 DEF Covers

\* A request outside its transaction.
LEMMA CoversOutside ==
  ASSUME NEW h \in Requests, ~InTx(h)', raced'[h] = {},
         request'[h].at = "updating" => request'[h].done = {}
  PROVE  Covers(h)'
  BY DEF Covers, InTx

LEMMA LockedKept ==
  ASSUME Locked,
         \A g \in Requests : InTx(g)' =>
           InTx(g) /\ request'[g].test = request[g].test /\ request'[g].dto = request[g].dto
  PROVE  Locked'
  BY DEF Locked

\* The others go on as before when h alone moves and no list changes.
LEMMA OthersKept ==
  ASSUME TypeOK, CoverInv, NEW h \in Requests, NEW q, request' = [request EXCEPT ![h] = q],
         \A r \in rows' : r.rel # "metrics" => r \in rows,
         \A g \in Requests : g # h => raced'[g] = raced[g]
  PROVE  /\ request'[h] = q
         /\ \A g \in Requests : g # h => request'[g] = request[g] /\ Covers(g)'
  <1>1. request'[h] = q /\ \A g \in Requests : g # h => request'[g] = request[g]
    BY DEF TypeOK
  <1>2. ASSUME NEW g \in Requests, g # h PROVE Covers(g)'
    <2>1. Covers(g) /\ request'[g] = request[g] /\ raced'[g] = raced[g]
      BY <1>1, <1>2 DEF CoverInv
    <2>2. \A r \in rows' : Concerns(g, r)' => r \in rows
      BY DEF Concerns
    <2>3. raced[g] \subseteq IF InTx(g) THEN request[g].dto.given ELSE {}
      BY <2>1 DEF Covers
    <2>4. QED
      BY <2>1, <2>2, <2>3, CoversKept
  <1>3. QED
    BY <1>1, <1>2

\* A step of h that is not in a transaction afterwards and leaves the lists alone.
LEMMA CoverOutsideStep ==
  ASSUME TypeOK, CoverInv, NEW h \in Requests, NEW q, request' = [request EXCEPT ![h] = q],
         \A r \in rows' : r.rel # "metrics" => r \in rows,
         \A g \in Requests : g # h => raced'[g] = raced[g],
         raced'[h] = {}, q.at \notin InTransaction,
         q.at = "updating" => q.done = {}
  PROVE  CoverInv'
  <1>1. /\ request'[h] = q
        /\ \A g \in Requests : g # h => request'[g] = request[g] /\ Covers(g)'
    BY OthersKept
  <1>2. Covers(h)'
    BY <1>1, CoversOutside DEF InTx
  <1>3. Locked'
    BY <1>1, LockedKept DEF CoverInv, InTx
  <1>4. QED
    BY <1>1, <1>2, <1>3 DEF CoverInv

LEMMA CoverGoto ==
  ASSUME TypeOK, CoverInv, NEW h \in Requests, NEW step \in Steps,
         Goto(h, step), rows' = rows, raced' = raced, ~InTx(h), step \notin InTransaction,
         step # "updating"
  PROVE  CoverInv'
  <1> DEFINE q == [request[h] EXCEPT !.at = step]
  <1>1. q.at = step
    BY DEF TypeOK, Request
  <1>2. request' = [request EXCEPT ![h] = q]
    BY DEF Goto
  <1>3. raced'[h] = {}
    BY DEF CoverInv, Covers
  <1> HIDE DEF q
  <1>4. QED
    BY <1>1, <1>2, <1>3, CoverOutsideStep

\* Requests end, and the lists stay.
LEMMA CoverFinish ==
  ASSUME TypeOK, CoverInv, NEW h \in Requests, Finish(h),
         \A r \in rows' : r.rel # "metrics" => r \in rows,
         (raced' = raced /\ ~InTx(h)) \/ raced' = [raced EXCEPT ![h] = {}]
  PROVE  CoverInv'
  <1>1. Idle.at = "idle"
    BY DEF Idle
  <1>2. raced'[h] = {} /\ \A g \in Requests : g # h => raced'[g] = raced[g]
    BY DEF CoverInv, Covers, TypeOK
  <1>3. QED
    BY <1>1, <1>2, CoverOutsideStep DEF Finish, InTransaction

\* Rows come and go, and no request moves.
LEMMA CoverRows ==
  ASSUME CoverInv, request' = request, raced' = raced,
         \A h \in Requests : InTx(h) =>
           \A r \in rows' \ rows : r.test # request[h].test \/ r.rel = "metrics"
  PROVE  CoverInv'
  <1>1. ASSUME NEW h \in Requests PROVE Covers(h)'
    <2>1. Covers(h)
      BY DEF CoverInv
    <2>2. InTx(h) => \A r \in rows' : Concerns(h, r)' => r \in rows
      BY DEF Concerns
    <2>3. QED
      BY <2>1, <2>2, CoversKept DEF Covers
  <1>2. Locked'
    BY LockedKept DEF CoverInv, InTx
  <1>3. QED
    BY <1>1, <1>2 DEF CoverInv

LEMMA SameLists ==
  ASSUME ReplacedWholeUnlessRaced, asked' = asked, mixed' = mixed,
         \A r : r.rel # "metrics" => (r \in rows <=> r \in rows')
  PROVE  ReplacedWholeUnlessRaced'
  BY DEF ReplacedWholeUnlessRaced

LEMMA MixedKept ==
  ASSUME MixedInv, mixed' = mixed, \A t \in Tests : Exists(t) => Exists(t)'
  PROVE  MixedInv'
  BY DEF MixedInv

\* Another transaction beside one that commits.
LEMMA CommitKeepsOthers ==
  ASSUME TypeInv, ContainedInv, CoverInv, NEW h \in Requests, commit(h),
         NEW g \in Requests, g # h
  PROVE  /\ Covers(g)'
         /\ InTx(g)' <=> InTx(g)
         /\ request'[g].test = request[g].test
         /\ request'[g].dto = request[g].dto
  <1> DEFINE gone == request[h].deleted
             new == request[h].inserted
  <1>1. /\ InTx(h)
        /\ rows' = (rows \ gone) \cup new
        /\ request' = [k \in Requests |-> IF k = h THEN Idle
                         ELSE [request[k] EXCEPT !.seen = @ \ gone]]
        /\ raced' = [k \in Requests |-> IF k = h THEN {} ELSE raced[k] \cup Overtaken(h, k)]
    BY DEF commit, InTx, InTransaction
  <1>2. request[g] \in Request /\ Covers(g) /\ Covers(h)
    BY DEF TypeInv, TypeOK, CoverInv
  <1>3. /\ request'[g].at = request[g].at /\ request'[g].test = request[g].test
        /\ request'[g].dto = request[g].dto /\ request'[g].done = request[g].done
        /\ request'[g].deleted = request[g].deleted
        /\ request'[g].inserted = request[g].inserted
        /\ request'[g].seen = request[g].seen \ gone
    BY <1>1, <1>2 DEF Request
  <1>4. raced'[g] = raced[g] \cup Overtaken(h, g)
    BY <1>1
  <1>5. raced'[g] \subseteq IF InTx(g) THEN request[g].dto.given ELSE {}
    BY <1>2, <1>4 DEF Covers, Overtaken, InTx
  <1>6. ASSUME InTx(g), NEW r \in new, Concerns(g, r)' PROVE FALSE
    <2>1. r.test = request[h].test /\ r.rel \in request[h].dto.given
      BY <1>1, <1>2, <1>6 DEF ContainedInv, Contained, Covers
    <2>2. /\ r.test = request[g].test
          /\ r.rel \in request[g].dto.given
          /\ r.rel # "metrics"
          /\ r.rel \notin Overtaken(h, g)
      BY <1>3, <1>4, <1>6 DEF Concerns
    <2>3. request[g].dto.scalars /\ request[h].dto.scalars
      BY <1>6, <2>1, <2>2 DEF Overtaken, InTx
    <2>4. QED
      BY <1>1, <1>6, <2>1, <2>2, <2>3 DEF CoverInv, Locked
  <1>7. InTx(g) => \A r \in rows' : Concerns(g, r)' =>
          r \in rows /\ (r \in request[g].seen => r \in request'[g].seen)
    <2> SUFFICES ASSUME InTx(g), NEW r \in rows', Concerns(g, r)'
                 PROVE  r \in rows /\ (r \in request[g].seen => r \in request'[g].seen)
      OBVIOUS
    <2>1. r \notin new
      BY <1>6
    <2>2. r \in rows /\ r \notin gone
      BY <1>1, <2>1
    <2> HIDE DEF gone, new
    <2>3. QED
      BY <1>3, <2>2
  <1> HIDE DEF gone, new
  <1>8. Covers(g)'
    BY <1>2, <1>3, <1>4, <1>5, <1>7, CoversKept
  <1>9. QED
    BY <1>3, <1>8 DEF InTx

LEMMA CommitReplaces ==
  ASSUME TypeInv, ContainedInv, ReplaceInv, NEW h \in Requests, commit(h)
  PROVE  ReplaceInv'
  <1> DEFINE gone == request[h].deleted
             new == request[h].inserted
             t == request[h].test
             given == request[h].dto.given
             replaced == {r \in asked : r.test = t /\ r.rel \in given}
             kept == {n \in new : n.rel \notin {"metrics"} \cup raced[h]}
  <1>a. /\ request \in [Requests -> Request]
        /\ CoverInv /\ ReplacedWholeUnlessRaced /\ MixedInv /\ Covers(h)
    BY DEF TypeInv, TypeOK, ReplaceInv, CoverInv
  <1>b. /\ InTx(h) /\ given \subseteq request[h].done
        /\ rows' = (rows \ gone) \cup new
        /\ asked' = (asked \ replaced) \cup kept
        /\ mixed' = (mixed \ Pairs(t, given)) \cup Pairs(t, raced[h])
        /\ request'[h] = Idle /\ raced'[h] = {}
        /\ suiteOf' = suiteOf
    BY DEF commit, InTx, InTransaction, Pending, tests
  <1>c. \A r \in gone \cup new : r.test = t /\ r.rel \in given
    BY <1>a, <1>b DEF ContainedInv, Contained, Covers
  <1>d. raced[h] \subseteq given
    BY <1>a, <1>b DEF Covers
  <1>e. ASSUME NEW r \in rows, r.test = t, r.rel \in given \ ({"metrics"} \cup raced[h])
        PROVE  r \in gone
    BY <1>a, <1>b, <1>e DEF Covers, Concerns
  <1>f. \A u, rel : <<u, rel>> \in mixed' <=>
          \/ <<u, rel>> \in mixed /\ ~(u = t /\ rel \in given)
          \/ u = t /\ rel \in raced[h]
    BY <1>b DEF Pairs
  <1>1. \A g \in Requests : g # h =>
          /\ Covers(g)'
          /\ InTx(g)' <=> InTx(g)
          /\ request'[g].test = request[g].test
          /\ request'[g].dto = request[g].dto
    BY <1>a, CommitKeepsOthers
  <1>2. Covers(h)' /\ ~InTx(h)'
    BY <1>b, CoversOutside DEF InTx, InTransaction, Idle
  <1>3. Locked'
    BY <1>1, <1>2, <1>a, LockedKept DEF CoverInv
  <1>4. CoverInv'
    BY <1>1, <1>2, <1>3 DEF CoverInv
  <1>5. MixedInv'
    <2>1. Exists(t)
      BY <1>b DEF TypeInv, ArgsInv, ArgsOK, TestFound, InTx, InTransaction
    <2>2. \A u : Exists(u)' <=> Exists(u)
      BY <1>b DEF Exists
    <2>3. QED
      BY <1>a, <1>f, <2>1, <2>2 DEF MixedInv
  <1>6. ReplacedWholeUnlessRaced'
    <2> HIDE DEF gone, new, t, given
    <2>1. ASSUME NEW r, r.test # t \/ r.rel \notin given
          PROVE  /\ r \in rows' <=> r \in rows
                 /\ r \in asked' <=> r \in asked
                 /\ <<r.test, r.rel>> \in mixed' <=> <<r.test, r.rel>> \in mixed
      BY <1>b, <1>c, <1>d, <1>f, <2>1
    <2>2. ASSUME NEW r, r.test = t, r.rel \in given, r.rel \in raced[h]
          PROVE  <<r.test, r.rel>> \in mixed' /\ r \notin asked'
      BY <1>b, <1>f, <2>2
    <2>3. ASSUME NEW r, r.test = t, r.rel \in given \ ({"metrics"} \cup raced[h])
          PROVE  /\ r \in rows' <=> r \in new
                 /\ r \in asked' <=> r \in new
                 /\ <<r.test, r.rel>> \notin mixed'
      BY <1>b, <1>e, <1>f, <2>3
    <2>4. ASSUME NEW r, r.rel = "metrics" PROVE r \notin asked'
      BY <1>a, <1>b, <2>4 DEF ReplacedWholeUnlessRaced
    <2>5. ASSUME NEW r
          PROVE  r \in asked' <=>
                   r \in rows' /\ r.rel # "metrics" /\ <<r.test, r.rel>> \notin mixed'
      <3>1. CASE r.rel = "metrics"
        BY <2>4, <3>1
      <3>2. CASE r.rel # "metrics" /\ (r.test # t \/ r.rel \notin given)
        BY <1>a, <2>1, <3>2 DEF ReplacedWholeUnlessRaced
      <3>3. CASE r.test = t /\ r.rel \in given /\ r.rel \in raced[h]
        BY <2>2, <3>3
      <3>4. CASE r.test = t /\ r.rel \in given \ ({"metrics"} \cup raced[h])
        BY <2>3, <3>4
      <3>5. QED
        BY <3>1, <3>2, <3>3, <3>4
    <2>6. QED
      BY <2>5 DEF ReplacedWholeUnlessRaced
  <1>7. QED
    BY <1>4, <1>5, <1>6 DEF ReplaceInv

LEMMA DeleteMetricReplaces ==
  ASSUME TypeInv, ReplaceInv, NEW h \in Requests, deleteMetric(h)
  PROVE  ReplaceInv'
  <1> DEFINE gone == {q \in rows : q.rel = "metrics" /\ q.value = request[h].metric}
  <1>a. /\ request \in [Requests -> Request]
        /\ CoverInv /\ ReplacedWholeUnlessRaced /\ MixedInv
    BY DEF TypeInv, TypeOK, ReplaceInv
  <1>b. /\ ~InTx(h) /\ rows' = rows \ gone
        /\ asked' = asked /\ mixed' = mixed /\ raced' = raced
        /\ request' = [g \in Requests |-> IF g = h THEN Idle
                         ELSE [request[g] EXCEPT !.seen = @ \ gone]]
        /\ suiteOf' = suiteOf
    BY DEF deleteMetric, InTx, InTransaction, history, tests
  <1>1. \A g \in Requests : g # h =>
          /\ request'[g].at = request[g].at /\ request'[g].test = request[g].test
          /\ request'[g].dto = request[g].dto /\ request'[g].done = request[g].done
          /\ request'[g].deleted = request[g].deleted
          /\ request'[g].inserted = request[g].inserted
          /\ request'[g].seen = request[g].seen \ gone
    BY <1>a, <1>b DEF Request
  <1>2. ASSUME NEW g \in Requests, g # h PROVE Covers(g)'
    <2>1. Covers(g)
      BY <1>a DEF CoverInv
    <2>2. \A r \in rows' : Concerns(g, r)' => r \in rows /\ r \notin gone
      BY <1>b
    <2> HIDE DEF gone
    <2>3. raced[g] \subseteq IF InTx(g) THEN request[g].dto.given ELSE {}
      BY <2>1 DEF Covers
    <2>4. QED
      BY <1>1, <1>2, <1>b, <2>1, <2>2, <2>3, CoversKept
  <1>3. request'[h] = Idle /\ raced'[h] = {}
    BY <1>a, <1>b DEF CoverInv, Covers
  <1>4. Covers(h)' /\ ~InTx(h)'
    BY <1>3, CoversOutside DEF InTx, InTransaction, Idle
  <1>5. Locked'
    BY <1>1, <1>4, <1>a, LockedKept DEF CoverInv, InTx
  <1>6. ReplacedWholeUnlessRaced'
    BY <1>a, <1>b, SameLists
  <1>7. MixedInv'
    BY <1>a, <1>b, MixedKept DEF Exists
  <1>8. QED
    BY <1>2, <1>4, <1>5, <1>6, <1>7 DEF ReplaceInv, CoverInv

LEMMA CreateKeepsReplaced ==
  ASSUME TypeInv, ReplaceInv, NEW h \in Requests, NEW t \in Tests, NEW dto \in Dtos,
         NEW s \in Suites, createBenchmark(h, t, s, dto)
  PROVE  ReplaceInv'
  <1> DEFINE new == RowsOf(t, dto)
  <1>1. \A r \in new : r.test = t /\ r.rel \in Relations
    BY NewRowsTyped, RowTyped, DtosAssumption
  <1>2. /\ rows' = rows \cup new /\ request' = request /\ ~Exists(t)
        /\ asked' = asked \cup {n \in new : n.rel # "metrics"}
        /\ raced' = raced /\ mixed' = mixed
        /\ suiteOf' = [suiteOf EXCEPT ![t] = s]
    BY DEF createBenchmark
  <1> HIDE DEF new
  <1>3. \A g \in Requests : InTx(g) => request[g].test # t
    BY <1>2 DEF TypeInv, ArgsInv, ArgsOK, TestFound, InTx, InTransaction
  <1>4. CoverInv'
    <2>1. \A g \in Requests : InTx(g) => \A r \in rows' \ rows : r.test # request[g].test
      BY <1>1, <1>2, <1>3
    <2>2. QED
      BY <1>2, <2>1, CoverRows DEF ReplaceInv
  <1>5. \A r \in new : <<r.test, r.rel>> \notin mixed
    BY <1>1, <1>2 DEF ReplaceInv, MixedInv
  <1>6. ReplacedWholeUnlessRaced'
    BY <1>2, <1>5 DEF ReplaceInv, ReplacedWholeUnlessRaced
  <1>7. MixedInv'
    <2>1. \A u \in Tests : Exists(u) => Exists(u)'
      BY <1>2, NoneAssumption DEF Exists, TypeInv, TypeOK
    <2>2. QED
      BY <1>2, <2>1, MixedKept DEF ReplaceInv
  <1>8. QED
    BY <1>4, <1>6, <1>7 DEF ReplaceInv

LEMMA ListMetricKeepsReplaced ==
  ASSUME TypeInv, ReplaceInv, NEW h \in Requests, listMetric(h)
  PROVE  ReplaceInv'
  <1> DEFINE new == RowsFor(request[h].test, "metrics", {request[h].metric})
  <1>1. \A r \in new : r.rel = "metrics"
    BY DEF RowsFor
  <1>2. /\ rows' = rows \cup new /\ asked' = asked /\ mixed' = mixed /\ raced' = raced
        /\ Finish(h) /\ ~InTx(h) /\ suiteOf' = suiteOf
    BY DEF listMetric, history, tests, InTx, InTransaction
  <1> HIDE DEF new
  <1>3. CoverInv'
    BY <1>1, <1>2, CoverFinish DEF TypeInv, ReplaceInv
  <1>4. ReplacedWholeUnlessRaced'
    BY <1>1, <1>2, SameLists DEF ReplaceInv
  <1>5. MixedInv'
    BY <1>2, MixedKept DEF ReplaceInv, Exists
  <1>6. QED
    BY <1>3, <1>4, <1>5 DEF ReplaceInv

\* A step inside the transaction of h.
LEMMA CoverInside ==
  ASSUME TypeOK, CoverInv, NEW h \in Requests, NEW q, request' = [request EXCEPT ![h] = q],
         rows' = rows, raced' = raced, InTx(h), q.test = request[h].test,
         q.dto = request[h].dto, Covers(h)'
  PROVE  CoverInv'
  <1>1. /\ request'[h] = q
        /\ \A g \in Requests : g # h => request'[g] = request[g] /\ Covers(g)'
    BY OthersKept
  <1>2. Locked'
    BY <1>1, LockedKept DEF CoverInv, InTx
  <1>3. QED
    BY <1>1, <1>2 DEF CoverInv

\* The lock on the row keeps two transactions that write it off one test.
LEMMA UpdateScalarsCovers ==
  ASSUME TypeInv, ContainedInv, CoverInv, NEW h \in Requests, updateScalars(h)
  PROVE  CoverInv'
  <1> DEFINE q == [request[h] EXCEPT !.at = "replacing"]
  <1>a. request[h] \in Request /\ TypeOK
    BY DEF TypeInv, TypeOK
  <1>1. /\ request[h].at = "updating" /\ request' = [request EXCEPT ![h] = q]
        /\ rows' = rows /\ raced' = raced
        /\ request[h].dto.scalars => ~LockedByOther(h, request[h].test)
    BY DEF updateScalars, Goto, tables, history
  <1>2. /\ request[h].deleted = {} /\ request[h].seen = {} /\ request[h].inserted = {}
        /\ request[h].done = {} /\ raced[h] = {}
    BY <1>1 DEF ContainedInv, Contained, InTransaction, CoverInv, Covers, InTx
  <1>3. /\ q.at = "replacing" /\ q.test = request[h].test /\ q.dto = request[h].dto
        /\ q.deleted = {} /\ q.seen = {} /\ q.inserted = {} /\ q.done = {}
    BY <1>a, <1>2 DEF Request
  <1> HIDE DEF q
  <1>4. /\ request'[h] = q
        /\ \A g \in Requests : g # h => request'[g] = request[g] /\ Covers(g)'
    BY <1>a, <1>1, OthersKept
  <1>5. Covers(h)'
    BY <1>1, <1>2, <1>3, <1>4 DEF Covers
  <1>6. ASSUME request[h].dto.scalars, NEW g \in Requests, g # h, InTx(g),
               request[g].dto.scalars
        PROVE  request[g].test # request[h].test
    BY <1>1, <1>6 DEF LockedByOther, InTx
  <1>7. Locked'
    BY <1>3, <1>4, <1>6 DEF CoverInv, Locked, InTx
  <1>8. QED
    BY <1>4, <1>5, <1>7 DEF CoverInv

LEMMA ReplaceRelationCovers ==
  ASSUME TypeInv, CoverInv, NEW h \in Requests, NEW rel \in Relations,
         replaceRelation(h, rel)
  PROVE  CoverInv'
  <1> DEFINE found == rows \cap RowsFor(request[h].test, rel, Values[rel])
             q == [request[h] EXCEPT !.at = "deleting", !.seen = found]
  <1>a. request[h] \in Request /\ TypeOK /\ Covers(h) /\ rows \subseteq Row
    BY DEF TypeInv, TypeOK, CoverInv
  <1>1. /\ request[h].at = "replacing" /\ request' = [request EXCEPT ![h] = q]
        /\ rows' = rows /\ raced' = raced /\ IsNext(h, rel)
    BY DEF replaceRelation, tables, history
  <1>2. /\ q.at = "deleting" /\ q.seen = found
        /\ q.test = request[h].test /\ q.dto = request[h].dto
        /\ q.deleted = request[h].deleted /\ q.done = request[h].done
        /\ q.inserted = request[h].inserted
    BY <1>a DEF Request
  <1>3. \A r \in found : r.rel = rel
    BY DEF RowsFor
  <1>4. \A r \in rows : r.test = request[h].test /\ r.rel = rel => r \in found
    BY <1>a DEF Row, RowsFor
  <1>5. rel \in request[h].dto.given
    BY <1>1 DEF IsNext, Pending
  <1>6. InTx(h)
    BY <1>1 DEF InTx, InTransaction
  <1> HIDE DEF q, found
  <1>7. request'[h] = q
    BY <1>a, <1>1, OthersKept
  <1>8. Covers(h)'
    <2>1. \A r1 \in Relations : IsNext(h, r1)' => r1 = rel
      <3>1. \A r1 \in Relations : IsNext(h, r1)' => IsNext(h, r1)
        BY <1>2, <1>7 DEF IsNext, Pending
      <3>2. QED
        BY <1>1, <3>1, NextUnique
    <2>2. \A r \in rows : r.rel \in Relations
      BY <1>a, RowTyped
    <2>3. \A r : Concerns(h, r)' => Concerns(h, r)
      BY <1>1, <1>2, <1>7 DEF Concerns
    <2>4. \A r \in rows : Concerns(h, r)' =>
            /\ r.rel \in q.done => r \in q.deleted
            /\ IsNext(h, r.rel)' => r \in q.seen
      <3>1. \A r \in rows : Concerns(h, r)' => (r.rel \in q.done => r \in q.deleted)
        BY <1>a, <1>2, <1>6, <2>3 DEF Covers
      <3>2. \A r \in rows : Concerns(h, r)' => (IsNext(h, r.rel)' => r \in q.seen)
        BY <1>2, <1>4, <2>1, <2>2, <2>3 DEF Concerns
      <3>3. QED
        BY <3>1, <3>2
    <2>5. \A r \in q.deleted \cup q.seen \cup q.inserted : r.rel \in q.dto.given
      BY <1>a, <1>2, <1>3, <1>5, <1>6 DEF Covers
    <2>6. InTx(h)' /\ raced'[h] \subseteq q.dto.given
      BY <1>a, <1>1, <1>2, <1>6, <1>7 DEF Covers, InTx, InTransaction
    <2>7. QED
      BY <1>1, <1>2, <1>7, <2>4, <2>5, <2>6 DEF Covers
  <1>9. QED
    BY <1>a, <1>1, <1>2, <1>6, <1>8, CoverInside

LEMMA DeleteManyCovers ==
  ASSUME TypeInv, CoverInv, NEW h \in Requests, deleteMany(h)
  PROVE  CoverInv'
  <1> DEFINE q == [request[h] EXCEPT !.at = "creating", !.seen = {},
                                     !.deleted = @ \cup request[h].seen]
  <1>a. request[h] \in Request /\ TypeOK /\ Covers(h)
    BY DEF TypeInv, TypeOK, CoverInv
  <1>1. /\ request[h].at = "deleting" /\ request' = [request EXCEPT ![h] = q]
        /\ rows' = rows /\ raced' = raced
    BY DEF deleteMany, tables, history
  <1>2. /\ q.at = "creating" /\ q.seen = {}
        /\ q.test = request[h].test /\ q.dto = request[h].dto
        /\ q.deleted = request[h].deleted \cup request[h].seen
        /\ q.done = request[h].done /\ q.inserted = request[h].inserted
    BY <1>a DEF Request
  <1>3. InTx(h)
    BY <1>1 DEF InTx, InTransaction
  <1> HIDE DEF q
  <1>4. request'[h] = q
    BY <1>a, <1>1, OthersKept
  <1>5. Covers(h)'
    <2>1. \A r : IsNext(h, r)' => IsNext(h, r)
      BY <1>2, <1>4 DEF IsNext, Pending
    <2>2. \A r : Concerns(h, r)' => Concerns(h, r)
      BY <1>1, <1>2, <1>4 DEF Concerns
    <2>3. \A r \in rows : Concerns(h, r)' =>
            /\ r.rel \in q.done => r \in q.deleted
            /\ IsNext(h, r.rel)' => r \in q.deleted
      BY <1>a, <1>1, <1>2, <1>3, <2>1, <2>2 DEF Covers
    <2>4. \A r \in q.deleted \cup q.seen \cup q.inserted : r.rel \in q.dto.given
      BY <1>a, <1>2, <1>3 DEF Covers
    <2>5. InTx(h)' /\ raced'[h] \subseteq q.dto.given
      BY <1>a, <1>1, <1>2, <1>3, <1>4 DEF Covers, InTx, InTransaction
    <2>6. QED
      BY <1>1, <1>2, <1>4, <2>3, <2>4, <2>5 DEF Covers
  <1>6. QED
    BY <1>a, <1>1, <1>2, <1>3, <1>5, CoverInside

LEMMA CreateManyCovers ==
  ASSUME TypeInv, CoverInv, NEW h \in Requests, NEW rel \in Relations,
         createMany(h, rel)
  PROVE  CoverInv'
  <1> DEFINE new == RowsFor(request[h].test, rel, request[h].dto[rel])
             q == [request[h] EXCEPT !.at = "replacing", !.done = @ \cup {rel},
                                     !.inserted = @ \cup new]
  <1>a. request[h] \in Request /\ TypeOK /\ Covers(h)
    BY DEF TypeInv, TypeOK, CoverInv
  <1>1. /\ request[h].at = "creating" /\ request' = [request EXCEPT ![h] = q]
        /\ rows' = rows /\ raced' = raced /\ IsNext(h, rel)
    BY DEF createMany, tables, history
  <1>2. /\ q.at = "replacing" /\ q.seen = request[h].seen
        /\ q.test = request[h].test /\ q.dto = request[h].dto
        /\ q.deleted = request[h].deleted /\ q.done = request[h].done \cup {rel}
        /\ q.inserted = request[h].inserted \cup new
    BY <1>a DEF Request
  <1>3. InTx(h)
    BY <1>1 DEF InTx, InTransaction
  <1>4. \A r \in new : r.rel = rel
    BY DEF RowsFor
  <1>5. rel \in request[h].dto.given
    BY <1>1 DEF IsNext, Pending
  <1> HIDE DEF q, new
  <1>6. request'[h] = q
    BY <1>a, <1>1, OthersKept
  <1>7. Covers(h)'
    <2>1. \A r : Concerns(h, r)' => Concerns(h, r)
      BY <1>1, <1>2, <1>6 DEF Concerns
    <2>2. \A r \in rows : Concerns(h, r)' /\ r.rel \in q.done => r \in q.deleted
      BY <1>a, <1>1, <1>2, <1>3, <2>1 DEF Covers
    <2>3. \A r \in q.deleted \cup q.seen \cup q.inserted : r.rel \in q.dto.given
      BY <1>a, <1>2, <1>3, <1>4, <1>5 DEF Covers
    <2>4. InTx(h)' /\ raced'[h] \subseteq q.dto.given
      BY <1>a, <1>1, <1>2, <1>3, <1>6 DEF Covers, InTx, InTransaction
    <2>5. QED
      BY <1>1, <1>2, <1>6, <2>2, <2>3, <2>4 DEF Covers
  <1>8. QED
    BY <1>a, <1>1, <1>2, <1>3, <1>7, CoverInside

LEMMA ReplaceNext ==
  ASSUME TypeInv, ContainedInv, ReplaceInv, [Next]_vars
  PROVE  ReplaceInv'
  <1> DEFINE Still == /\ rows' = rows /\ asked' = asked /\ mixed' = mixed
                     /\ raced' = raced /\ suiteOf' = suiteOf
  <1>a. TypeOK /\ CoverInv /\ ReplacedWholeUnlessRaced /\ MixedInv
    BY DEF TypeInv, ReplaceInv
  <1>b. rows' = rows /\ asked' = asked /\ mixed' = mixed /\ suiteOf' = suiteOf
          => ReplacedWholeUnlessRaced' /\ MixedInv'
    BY <1>a, SameLists, MixedKept DEF Exists
  <1>c. Idle.at = "idle" /\ Idle.done = {}
    BY DEF Idle
  <1>d. \A h \in Requests : ~InTx(h) => raced[h] = {}
    BY <1>a DEF CoverInv, Covers
  <1> USE DEF tables, tests, history
  <1>1. ASSUME NEW h \in Requests, NEW t \in Tests, NEW dto \in Dtos,
               NEW s \in Suites, createBenchmark(h, t, s, dto)
        PROVE  ReplaceInv'
    BY <1>1, CreateKeepsReplaced
  <1>2. ASSUME NEW h \in Requests, NEW t \in Tests, NEW dto \in Dtos,
               updateBenchmarkById(h, t, dto)
        PROVE  ReplaceInv'
    <2> DEFINE q == [Idle EXCEPT !.at = "updating", !.test = t, !.dto = dto]
    <2>1. /\ q.at = "updating" /\ q.dto = dto
          /\ q.done = {}
      BY DEF Idle
    <2>2. /\ request' = [request EXCEPT ![h] = q]
          /\ Still /\ ~InTx(h)
      BY <1>2, <1>c DEF updateBenchmarkById, Start, InTx, InTransaction
    <2> HIDE DEF q
    <2>3. CoverInv'
      BY <1>a, <1>d, <2>1, <2>2, CoverOutsideStep DEF InTransaction
    <2>4. QED
      BY <1>b, <2>2, <2>3 DEF ReplaceInv
  <1>3. ASSUME NEW h \in Requests, updateScalars(h) PROVE ReplaceInv'
    BY <1>3, <1>a, <1>b, UpdateScalarsCovers DEF updateScalars, ReplaceInv
  <1>4. ASSUME NEW h \in Requests, NEW rel \in Relations, replaceRelation(h, rel)
        PROVE  ReplaceInv'
    BY <1>4, <1>a, <1>b, ReplaceRelationCovers DEF replaceRelation, ReplaceInv
  <1>5. ASSUME NEW h \in Requests, deleteMany(h) PROVE ReplaceInv'
    BY <1>5, <1>a, <1>b, DeleteManyCovers DEF deleteMany, ReplaceInv
  <1>6. ASSUME NEW h \in Requests, NEW rel \in Relations, createMany(h, rel)
        PROVE  ReplaceInv'
    BY <1>6, <1>a, <1>b, CreateManyCovers DEF createMany, ReplaceInv
  <1>7. ASSUME NEW h \in Requests, commit(h) PROVE ReplaceInv'
    BY <1>7, CommitReplaces
  <1>8. ASSUME NEW h \in Requests, NEW t \in Tests, softDeleteBenchmarkById(h, t)
        PROVE  ReplaceInv'
    <2> DEFINE q == [Idle EXCEPT !.at = "softDeleting", !.test = t]
    <2>1. q.at = "softDeleting"
      BY DEF Idle
    <2>2. /\ request' = [request EXCEPT ![h] = q]
          /\ Still /\ ~InTx(h)
      BY <1>8, <1>c DEF softDeleteBenchmarkById, Start, InTx, InTransaction
    <2> HIDE DEF q
    <2>3. CoverInv'
      BY <1>a, <1>d, <2>1, <2>2, CoverOutsideStep DEF InTransaction
    <2>4. QED
      BY <1>b, <2>2, <2>3 DEF ReplaceInv
  <1>9. ASSUME NEW h \in Requests, markDeleted(h) \/ Abandon(h) PROVE ReplaceInv'
    <2>1. /\ Finish(h) /\ rows' = rows
          /\ (raced' = raced /\ ~InTx(h)) \/ raced' = [raced EXCEPT ![h] = {}]
      BY <1>9 DEF markDeleted, Abandon, InTx, InTransaction
    <2>2. CoverInv'
      BY <1>a, <2>1, CoverFinish
    <2>3. QED
      BY <1>9, <1>b, <2>2 DEF markDeleted, Abandon, ReplaceInv
  <1>10. ASSUME NEW h \in Requests, NEW m \in Metrics, createMetric(h, m)
         PROVE  ReplaceInv'
    <2>1. Still /\ request' = request
      BY <1>10 DEF createMetric
    <2>2. CoverInv'
      BY <1>a, <2>1, CoverRows
    <2>3. QED
      BY <1>b, <2>1, <2>2 DEF ReplaceInv
  <1>11. ASSUME NEW h \in Requests, NEW m \in Metrics, deleteMetricById(h, m)
         PROVE  ReplaceInv'
    <2> DEFINE q == [Idle EXCEPT !.at = "deletingMetric", !.metric = m]
    <2>1. q.at = "deletingMetric"
      BY DEF Idle
    <2>2. /\ request' = [request EXCEPT ![h] = q]
          /\ Still /\ ~InTx(h)
      BY <1>11, <1>c DEF deleteMetricById, Start, InTx, InTransaction
    <2> HIDE DEF q
    <2>3. CoverInv'
      BY <1>a, <1>d, <2>1, <2>2, CoverOutsideStep DEF InTransaction
    <2>4. QED
      BY <1>b, <2>2, <2>3 DEF ReplaceInv
  <1>12. ASSUME NEW h \in Requests, deleteMetric(h) PROVE ReplaceInv'
    BY <1>12, DeleteMetricReplaces
  <1>13. ASSUME NEW h \in Requests, NEW t \in Tests, NEW m \in Metrics,
                NEW subset \in Subsets \cup {None},
                createMetricResult(h, t, m, subset)
         PROVE  ReplaceInv'
    <2> DEFINE q == [Idle EXCEPT !.at = "findingTest", !.test = t, !.metric = m,
                                 !.subset = subset]
    <2>1. q.at = "findingTest"
      BY DEF Idle
    <2>2. /\ request' = [request EXCEPT ![h] = q]
          /\ Still /\ ~InTx(h)
      BY <1>13, <1>c DEF createMetricResult, Start, InTx, InTransaction
    <2> HIDE DEF q
    <2>3. CoverInv'
      BY <1>a, <1>d, <2>1, <2>2, CoverOutsideStep DEF InTransaction
    <2>4. QED
      BY <1>b, <2>2, <2>3 DEF ReplaceInv
  <1>14. ASSUME NEW h \in Requests, findTest(h) PROVE ReplaceInv'
    <2> DEFINE step == IF request[h].subset = None THEN "savingResult"
                       ELSE "findingSubset"
               q == [request[h] EXCEPT !.suite = suiteOf[request[h].test],
                                       !.at = step]
    <2>1. request[h] \in Request /\ ~InTx(h)
      BY <1>14, <1>a DEF findTest, InTx, InTransaction, TypeOK
    <2>2. q.at \notin InTransaction /\ q.at # "updating"
      BY <2>1 DEF Request, InTransaction
    <2>3. /\ request' = [request EXCEPT ![h] = q]
          /\ Still
      BY <1>14 DEF findTest
    <2> HIDE DEF q
    <2>4. CoverInv'
      BY <1>a, <1>d, <2>1, <2>2, <2>3, CoverOutsideStep
    <2>5. QED
      BY <1>b, <2>3, <2>4 DEF ReplaceInv
  <1>15. ASSUME NEW h \in Requests, findSubset(h) \/ saveResult(h) PROVE ReplaceInv'
    <2>1. \E step \in {"savingResult", "listingMetric"} : Goto(h, step)
      BY <1>15 DEF findSubset, saveResult
    <2>2. Still /\ ~InTx(h)
      BY <1>15 DEF findSubset, saveResult, InTx, InTransaction
    <2>3. CoverInv'
      BY <1>a, <2>1, <2>2, CoverGoto DEF Steps, InTransaction
    <2>4. QED
      BY <1>b, <2>2, <2>3 DEF ReplaceInv
  <1>16. ASSUME NEW h \in Requests, listMetric(h) PROVE ReplaceInv'
    BY <1>16, ListMetricKeepsReplaced
  <1>17. CASE UNCHANGED vars
    <2>1. Still /\ request' = request
      BY <1>17 DEF vars
    <2>2. CoverInv'
      BY <1>a, <2>1, CoverRows
    <2>3. QED
      BY <1>b, <2>1, <2>2 DEF ReplaceInv
  <1>18. QED
    BY <1>1, <1>2, <1>3, <1>4, <1>5, <1>6, <1>7, <1>8, <1>9, <1>10, <1>11, <1>12,
       <1>13, <1>14, <1>15, <1>16, <1>17 DEF Next

\* Whatever the bodies and however many requests are in flight, only an update that
\* another one, not kept out by the lock of the row, overtook can leave a list that
\* nobody asked for, and the next that is not overtaken replaces it.
THEOREM ReplacedWholeUnlessRacedAlways == Spec => []ReplacedWholeUnlessRaced
  <1>1. Init => ReplaceInv
    <2> SUFFICES ASSUME Init PROVE ReplaceInv
      OBVIOUS
    <2>1. \A h \in Requests : request[h] = Idle /\ raced[h] = {}
      BY DEF Init
    <2>2. Idle.at = "idle"
      BY DEF Idle
    <2>3. CoverInv
      BY <2>1, <2>2 DEF CoverInv, Locked, Covers, InTx, InTransaction
    <2>4. ReplacedWholeUnlessRaced /\ MixedInv
      BY DEF Init, ReplacedWholeUnlessRaced, MixedInv
    <2>5. QED
      BY <2>3, <2>4 DEF ReplaceInv
  <1>2. TypeInv /\ ContainedInv /\ ReplaceInv /\ [Next]_vars => ReplaceInv'
    BY ReplaceNext
  <1>3. ReplaceInv => ReplacedWholeUnlessRaced
    BY DEF ReplaceInv
  <1>4. Spec => [](TypeInv /\ ContainedInv)
    <2>1. TypeInv /\ ContainedInv /\ LinkInv => TypeInv /\ ContainedInv
      OBVIOUS
    <2>2. QED
      BY <2>1, LinksInvariant, PTL
  <1>5. QED
    BY <1>1, <1>2, <1>3, <1>4, PTL DEF Spec
-----------------------------------------------------------------------------
(* What the catalog shows.  *)

\* A row is that of its test for its value.
LEMMA RowIsOf ==
  ASSUME NEW r \in Row, r.rel = "skills"
  PROVE  /\ r.test \in Tests
         /\ \A values : r.value \in values => r \in RowsFor(r.test, "skills", values)
  BY DEF Row, Relations, RowsFor

\* The filter's options and the filtered list are read by queries of different
\* tables: what is offered finds a test, and a test with a skill is found by what is
\* offered, in every state the requests leave the tables in.
THEOREM OptionsFindAlways == Spec => []OptionsFind
  <1>1. TypeInv => OptionsFind
    <2> SUFFICES ASSUME TypeInv PROVE OptionsFind
      OBVIOUS
    <2>1. rows \subseteq Row
      BY DEF TypeInv, TypeOK
    <2>2. ASSUME NEW skill \in getFilterOptions PROVE findAllBenchmark({skill}) # {}
      <3>1. PICK r \in rows : r.rel = "skills" /\ Active(r.test) /\ r.value = skill
        BY DEF getFilterOptions
      <3>2. r.test \in Tests /\ r \in RowsFor(r.test, "skills", {skill})
        BY <2>1, <3>1, RowIsOf
      <3>3. r.test \in findAllBenchmark({skill})
        BY <3>1, <3>2 DEF findAllBenchmark
      <3> QED
        BY <3>3
    <2>3. ASSUME NEW t \in findAllBenchmark({}),
                 RowsFor(t, "skills", Skills) \cap rows # {}
          PROVE  t \in findAllBenchmark(getFilterOptions)
      <3>1. t \in Tests /\ Active(t)
        BY DEF findAllBenchmark
      <3>2. PICK r \in rows : r.rel = "skills" /\ r.test = t
        BY <2>3 DEF RowsFor
      <3>3. r.value \in getFilterOptions
        BY <3>1, <3>2 DEF getFilterOptions
      <3>4. r \in RowsFor(t, "skills", getFilterOptions)
        BY <2>1, <3>2, <3>3, RowIsOf
      <3> QED
        BY <3>1, <3>2, <3>4 DEF findAllBenchmark
    <2> QED
      BY <2>2, <2>3 DEF OptionsFind
  <1> QED
    BY <1>1, LinksInvariant, PTL
----------------------------------------------------------------------------
(* The scores of a test.                                                   *)

HIDE DEF Values, Relations

\* A non-empty set of naturals has a least element: what the inductions below use.
LEMMA LeastNatural ==
  ASSUME NEW S \in SUBSET Nat, S # {}
  PROVE  \E n \in S : \A k \in S : n <= k
  <1>1. \E n \in S : \A k \in S : ~(<<k, n>> \in OpToRel(<, Nat))
    BY NatLessThanWellFounded, WFMin
  <1>2. \E n \in S : \A k \in S : ~(k < n)
    BY <1>1, Zenon DEF OpToRel
  <1>3. QED
    BY <1>2

\* One turn of the loop: the map after list[n], when it was scores before.
Turn(list, n, scores) ==
  IF Counts(list[n], list) /\ \A i \in DOMAIN scores : scores[i].model # list[n].model
    THEN Append(scores, list[n])
    ELSE scores

\* f is the map after each of the first m turns.
TurnsTo(f, m, list) ==
  f = [n \in 0 .. m |-> IF n = 0 THEN << >> ELSE Turn(list, n, f[n - 1])]

\* There is such a map for every number of turns.
LEMMA TurnsExist ==
  ASSUME NEW list, NEW m \in Nat
  PROVE  \E f : TurnsTo(f, m, list)
  <1> DEFINE Without == {k \in Nat : ~ \E f : TurnsTo(f, k, list)}
  <1> SUFFICES ASSUME Without # {} PROVE FALSE
    OBVIOUS
  <1>1. PICK k \in Without : \A j \in Without : k <= j
    BY LeastNatural
  <1>2. k # 0
    <2> DEFINE none == [n \in 0 .. 0 |-> << >>]
    <2>1. none = [n \in 0 .. 0 |-> IF n = 0 THEN << >> ELSE Turn(list, n, none[n - 1])]
      OBVIOUS
    <2>2. TurnsTo(none, 0, list)
      BY <2>1 DEF TurnsTo
    <2>3. QED
      BY <2>2, <1>1
  <1>3. k - 1 \in Nat /\ k - 1 \notin Without
    BY <1>1, <1>2
  <1>4. PICK f : TurnsTo(f, k - 1, list)
    BY <1>3
  <1> DEFINE g == [n \in 0 .. k |-> IF n = k THEN Turn(list, k, f[k - 1]) ELSE f[n]]
  <1>5. ASSUME NEW n \in 0 .. k
        PROVE  g[n] = IF n = 0 THEN << >> ELSE Turn(list, n, g[n - 1])
    <2>1. CASE n = k
      <3>1. n # 0 /\ k - 1 \in 0 .. k /\ k - 1 # k
        BY <2>1, <1>2, <1>3
      <3>2. g[n - 1] = f[k - 1]
        BY <3>1, <2>1
      <3>3. QED
        BY <3>1, <3>2, <2>1
    <2>2. CASE n # k
      <3>1. n \in 0 .. k - 1
        BY <2>2, <1>3
      <3>2. f[n] = IF n = 0 THEN << >> ELSE Turn(list, n, f[n - 1])
        BY <3>1, <1>4 DEF TurnsTo
      <3>3. n # 0 => n - 1 \in 0 .. k /\ n - 1 # k
        BY <3>1, <1>3
      <3>4. n # 0 => g[n - 1] = f[n - 1]
        BY <3>3
      <3>5. QED
        BY <3>2, <3>4, <2>2
    <2>3. QED
      BY <2>1, <2>2
  <1>6. g = [n \in 0 .. k |-> IF n = 0 THEN << >> ELSE Turn(list, n, g[n - 1])]
    <2>1. \A n \in 0 .. k : g[n] = IF n = 0 THEN << >> ELSE Turn(list, n, g[n - 1])
      BY <1>5
    <2>2. g = [n \in 0 .. k |-> g[n]]
      OBVIOUS
    <2> HIDE DEF g
    <2>3. QED
      BY <2>1, <2>2
  <1>7. TurnsTo(g, k, list)
    BY <1>6 DEF TurnsTo
  <1>8. QED
    BY <1>7, <1>1

\* The loop starts with an empty map and takes one turn for each result.
LEMMA ByModelTurns ==
  ASSUME NEW T, NEW list \in Seq(T)
  PROVE  /\ byModel(list)[0] = << >>
         /\ \A n \in 1 .. Len(list) : byModel(list)[n] = Turn(list, n, byModel(list)[n - 1])
  <1>1. Len(list) \in Nat
    OBVIOUS
  <1>2. byModel(list) = CHOOSE f : TurnsTo(f, Len(list), list)
    BY DEF byModel, TurnsTo, Turn
  <1>3. TurnsTo(byModel(list), Len(list), list)
    BY <1>1, <1>2, TurnsExist
  <1>4. QED
    BY <1>1, <1>3 DEF TurnsTo

\* What the map is after the first n results: each score is the first result of its
\* model among those that count, each such result's model has a score, and no model two.
FirstOfEach(scores, n, list) ==
  /\ \A i \in DOMAIN scores : \E p \in 1 .. n :
       /\ scores[i] = list[p] /\ Counts(list[p], list)
       /\ \A q \in 1 .. p - 1 : Counts(list[q], list) => list[q].model # list[p].model
  /\ \A q \in 1 .. n : Counts(list[q], list) =>
       \E i \in DOMAIN scores : scores[i].model = list[q].model
  /\ \A i, j \in DOMAIN scores : scores[i].model = scores[j].model => i = j

\* One turn keeps it.
LEMMA TurnKeepsFirst ==
  ASSUME NEW T, NEW list \in Seq(T), NEW n \in 1 .. Len(list),
         NEW scores \in Seq(T), FirstOfEach(scores, n - 1, list)
  PROVE  /\ Turn(list, n, scores) \in Seq(T)
         /\ FirstOfEach(Turn(list, n, scores), n, list)
  <1>1. Len(list) \in Nat /\ n \in Nat /\ n - 1 \in Nat /\ list[n] \in T
    OBVIOUS
  <1>2. CASE Counts(list[n], list) /\ \A i \in DOMAIN scores : scores[i].model # list[n].model
    <2> DEFINE new == Append(scores, list[n])
    <2>1. /\ new \in Seq(T)
          /\ DOMAIN new = 1 .. Len(scores) + 1 /\ DOMAIN scores = 1 .. Len(scores)
          /\ Len(scores) \in Nat
          /\ \A i \in 1 .. Len(scores) : new[i] = scores[i]
          /\ new[Len(scores) + 1] = list[n]
      BY <1>1
    <2>2. Turn(list, n, scores) = new
      BY <1>2 DEF Turn
    <2> HIDE DEF new
    <2>3. \A q \in 1 .. n - 1 : Counts(list[q], list) => list[q].model # list[n].model
      BY <1>2 DEF FirstOfEach
    <2>4. ASSUME NEW i \in DOMAIN new
          PROVE  \E p \in 1 .. n :
                   /\ new[i] = list[p] /\ Counts(list[p], list)
                   /\ \A q \in 1 .. p - 1 : Counts(list[q], list) => list[q].model # list[p].model
      <3>1. CASE i = Len(scores) + 1
        BY <3>1, <2>1, <2>3, <1>2, <1>1
      <3>2. CASE i # Len(scores) + 1
        <4>1. i \in DOMAIN scores /\ new[i] = scores[i]
          BY <3>2, <2>1
        <4>2. PICK p \in 1 .. n - 1 :
                /\ scores[i] = list[p] /\ Counts(list[p], list)
                /\ \A q \in 1 .. p - 1 : Counts(list[q], list) => list[q].model # list[p].model
          BY <4>1 DEF FirstOfEach
        <4>3. p \in 1 .. n
          BY <1>1
        <4>4. QED
          BY <4>1, <4>2, <4>3
      <3>3. QED
        BY <3>1, <3>2
    <2>5. ASSUME NEW q \in 1 .. n, Counts(list[q], list)
          PROVE  \E i \in DOMAIN new : new[i].model = list[q].model
      <3>1. CASE q = n
        BY <3>1, <2>1
      <3>2. CASE q # n
        <4>1. q \in 1 .. n - 1
          BY <3>2, <1>1
        <4>2. PICK i \in DOMAIN scores : scores[i].model = list[q].model
          BY <4>1, <2>5 DEF FirstOfEach
        <4>3. i \in DOMAIN new /\ new[i] = scores[i]
          BY <2>1
        <4>4. QED
          BY <4>2, <4>3
      <3>3. QED
        BY <3>1, <3>2
    <2>6. ASSUME NEW i \in DOMAIN new, NEW j \in DOMAIN new, new[i].model = new[j].model
          PROVE  i = j
      <3>1. \A k \in DOMAIN new : k # Len(scores) + 1 =>
              k \in DOMAIN scores /\ new[k] = scores[k]
        BY <2>1
      <3>2. CASE i # Len(scores) + 1 /\ j # Len(scores) + 1
        BY <3>1, <3>2, <2>6 DEF FirstOfEach
      <3>3. CASE i = Len(scores) + 1 \/ j = Len(scores) + 1
        BY <3>1, <3>3, <2>6, <2>1, <1>2
      <3>4. QED
        BY <3>2, <3>3
    <2>7. QED
      BY <2>1, <2>2, <2>4, <2>5, <2>6 DEF FirstOfEach
  <1>3. CASE ~(Counts(list[n], list) /\ \A i \in DOMAIN scores : scores[i].model # list[n].model)
    <2>1. Turn(list, n, scores) = scores
      BY <1>3 DEF Turn
    <2>2. ASSUME NEW q \in 1 .. n, Counts(list[q], list)
          PROVE  \E i \in DOMAIN scores : scores[i].model = list[q].model
      <3>1. CASE q = n
        BY <3>1, <1>3, <2>2
      <3>2. CASE q # n
        <4>1. q \in 1 .. n - 1
          BY <3>2, <1>1
        <4>2. QED
          BY <4>1, <2>2 DEF FirstOfEach
      <3>3. QED
        BY <3>1, <3>2
    <2>3. ASSUME NEW i \in DOMAIN scores
          PROVE  \E p \in 1 .. n :
                   /\ scores[i] = list[p] /\ Counts(list[p], list)
                   /\ \A q \in 1 .. p - 1 : Counts(list[q], list) => list[q].model # list[p].model
      <3>1. PICK p \in 1 .. n - 1 :
                /\ scores[i] = list[p] /\ Counts(list[p], list)
                /\ \A q \in 1 .. p - 1 : Counts(list[q], list) => list[q].model # list[p].model
        BY DEF FirstOfEach
      <3>2. p \in 1 .. n
        BY <1>1
      <3>3. QED
        BY <3>1, <3>2
    <2>4. QED
      BY <2>1, <2>2, <2>3 DEF FirstOfEach
  <1>4. QED
    BY <1>2, <1>3

\* So the scores are the first result of each model, among those that count.
LEMMA ScoresAreFirst ==
  ASSUME NEW T, NEW list \in Seq(T)
  PROVE  /\ toPrimaryScores(list) \in Seq(T)
         /\ FirstOfEach(toPrimaryScores(list), Len(list), list)
  <1> DEFINE Good(n) == byModel(list)[n] \in Seq(T) /\ FirstOfEach(byModel(list)[n], n, list)
             Failing == {n \in 0 .. Len(list) : ~Good(n)}
  <1>1. Len(list) \in Nat
    OBVIOUS
  <1>2. Good(0)
    <2>1. byModel(list)[0] = << >>
      BY ByModelTurns
    <2>2. << >> \in Seq(T) /\ FirstOfEach(<< >>, 0, list)
      BY DEF FirstOfEach
    <2>3. QED
      BY <2>1, <2>2
  <1>3. ASSUME NEW n \in 1 .. Len(list), Good(n - 1)
        PROVE  Good(n)
    BY <1>3, ByModelTurns, TurnKeepsFirst
  <1> HIDE DEF Good
  <1>4. Failing = {}
    <2> SUFFICES ASSUME Failing # {} PROVE FALSE
      OBVIOUS
    <2>1. Failing \in SUBSET Nat
      OBVIOUS
    <2>2. PICK n \in Failing : \A k \in Failing : n <= k
      BY <2>1, LeastNatural
    <2>3. n \in 1 .. Len(list)
      BY <1>1, <1>2
    <2>4. n - 1 \in 0 .. Len(list) /\ n - 1 \notin Failing
      BY <1>1, <2>2, <2>3
    <2>5. QED
      BY <1>3, <2>3, <2>4
  <1>5. Good(Len(list))
    BY <1>1, <1>4
  <1>6. QED
    BY <1>5 DEF toPrimaryScores, Good

\* Of any number of results, of any models and times, the newest first, the scores are
\* the newest of each model that count: what CatalogMapper.toPrimaryScores is for.
THEOREM ScoresOfEveryList ==
  ASSUME NEW Models,
         NEW list \in Seq([model : Models, primary : BOOLEAN, obtainedAt : Int]),
         \A i, j \in DOMAIN list : i < j => list[i].obtainedAt >= list[j].obtainedAt
  PROVE  AreScoresOf(toPrimaryScores(list), list)
  <1> DEFINE Entry == [model : Models, primary : BOOLEAN, obtainedAt : Int]
             scores == toPrimaryScores(list)
             primary == {r \in ToSet(list) : r.primary}
             eligible == IF primary # {} THEN primary ELSE ToSet(list)
             newest == {r \in eligible : \A q \in eligible :
                          q.model = r.model => q.obtainedAt <= r.obtainedAt}
  <1>1. scores \in Seq(Entry) /\ FirstOfEach(scores, Len(list), list)
    BY ScoresAreFirst
  <1>2. /\ Len(list) \in Nat /\ DOMAIN list = 1 .. Len(list)
        /\ \A p \in DOMAIN list : list[p] \in Entry
    <2>1. list \in Seq(Entry)
      OBVIOUS
    <2> HIDE DEF Entry
    <2>2. QED
      BY <2>1
  <1>3. eligible = {list[p] : p \in {q \in DOMAIN list : Counts(list[q], list)}}
    BY <1>2 DEF ToSet, Counts
  <1>4. \A r \in Entry : r.obtainedAt \in Int
    OBVIOUS
  <1> HIDE DEF scores, eligible, Entry
  <1>5. ASSUME NEW i \in DOMAIN scores
        PROVE  scores[i] \in newest
    <2>1. PICK p \in 1 .. Len(list) :
            /\ scores[i] = list[p] /\ Counts(list[p], list)
            /\ \A q \in 1 .. p - 1 : Counts(list[q], list) => list[q].model # list[p].model
      BY <1>1 DEF FirstOfEach
    <2>2. scores[i] \in eligible
      BY <1>2, <1>3, <2>1
    <2>3. ASSUME NEW q \in DOMAIN list, Counts(list[q], list), list[q].model = list[p].model
          PROVE  list[q].obtainedAt <= list[p].obtainedAt
      <3>1. q \notin 1 .. p - 1
        BY <2>1, <2>3
      <3>2. p \in DOMAIN list /\ p \in Int /\ q \in Int /\ q >= 1
        BY <1>2
      <3>3. list[p].obtainedAt \in Int
        BY <1>2, <1>4, <3>2
      <3>4. CASE p = q
        BY <3>3, <3>4
      <3>5. CASE p < q
        <4>1. list[q].obtainedAt \in Int
          BY <1>2, <1>4
        <4>2. list[p].obtainedAt >= list[q].obtainedAt
          BY <3>2, <3>5
        <4>3. QED
          BY <3>3, <4>1, <4>2
      <3>6. QED
        BY <3>1, <3>2, <3>4, <3>5
    <2>4. QED
      BY <1>3, <2>1, <2>2, <2>3
  <1>6. ASSUME NEW r \in eligible
        PROVE  Cardinality({i \in DOMAIN scores : scores[i].model = r.model}) = 1
    <2>1. PICK i \in DOMAIN scores : scores[i].model = r.model
      BY <1>1, <1>2, <1>3 DEF FirstOfEach
    <2>2. {j \in DOMAIN scores : scores[j].model = r.model} = {i}
      BY <1>1, <2>1 DEF FirstOfEach
    <2>3. QED
      BY <2>2, FS_Singleton
  <1>7. ToSet(scores) \subseteq newest
    BY <1>5 DEF ToSet
  <1>8. QED
    BY <1>6, <1>7 DEF AreScoresOf, scores, eligible

\* So a listed test with results shows the scores it is to have.
THEOREM ScoresMeetDefinitionAlways == Spec => []ScoresMeetDefinition
  <1> DEFINE Models == {"m1", "m2"}
             Entry == [model : Models, primary : BOOLEAN, obtainedAt : 1 .. 2]
  <1>1. ASSUME NEW list \in ResultLists(Models, 1 .. 2, 4)
        PROVE  AreScoresOf(toPrimaryScores(list), list)
    <2>1. PICK k \in 0 .. 4 : list \in [1 .. k -> Entry]
      BY DEF ResultLists
    <2>2. list \in Seq([model : Models, primary : BOOLEAN, obtainedAt : Int])
      <3> DEFINE Timed == [model : Models, primary : BOOLEAN, obtainedAt : Int]
      <3>1. Entry \subseteq Timed
        OBVIOUS
      <3> HIDE DEF Entry, Timed
      <3>2. list \in [1 .. k -> Timed]
        BY <2>1, <3>1
      <3>3. list \in Seq(Timed)
        BY <3>2
      <3>4. QED
        BY <3>3 DEF Timed
    <2>3. \A i, j \in DOMAIN list : i < j => list[i].obtainedAt >= list[j].obtainedAt
      BY DEF ResultLists
    <2>4. QED
      BY <2>2, <2>3, ScoresOfEveryList
  <1>2. ScoresMeetDefinition
    BY <1>1 DEF ScoresMeetDefinition, ScoresOfAnyResults
  <1>3. QED
    BY <1>2, PTL
=============================================================================
