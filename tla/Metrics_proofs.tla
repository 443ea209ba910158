--------------------------- MODULE Metrics_proofs ---------------------------
(***************************************************************************)
(* Theorems about the metric definitions, for any numbers of metrics,      *)
(* bodies and requests.                                                    *)
(***************************************************************************)
EXTENDS Metrics, Listing_proofs

Ops == {"create", "update", "delete"}
Kinds == {"ok", "bad request", "not found", "conflict", "internal error"}

\* The arguments a request needs where it is; what it is about to write is in order
\* as far as it knows.
ArgsOK(q) ==
  /\ q.at = "creating" => q.body \in Body /\ Ordered(q.body.row)
  /\ q.at \in {"checkingName", "writing"} =>
       q.id \in Ids /\ q.update \in Update /\ q.read \in Row
  /\ q.at = "writing" => Ordered(Updated(q.read, q.update))
  /\ q.at = "deleting" => q.id \in Ids

ArgsInv == \A h \in Requests : ArgsOK(request[h])
TypeInv == TypeOK /\ ArgsInv

LEMMA UpdatedTyped ==
  ASSUME NEW row \in Row, NEW update \in Update
  PROVE  Updated(row, update) \in Row
  BY DEF Updated, Row, Update, Fields

LEMMA IdleTyped == Idle \in Request /\ ArgsOK(Idle) /\ Idle.at = "idle"
  BY DEF Idle, Request, Steps, ArgsOK

LEMMA DefaultsTyped ==
  /\ Len(Defaults) = 4
  /\ \A n \in 1 .. 4 : Defaults[n] \in Lookups
  /\ \A code \in Lookups : \E n \in 1 .. 4 : Defaults[n] = code
  BY DEF Defaults, Lookups, Range

LEMMA StartTyped ==
  ASSUME TypeInv, NEW h \in Requests, NEW q \in Request, ArgsOK(q), Start(h, q)
  PROVE  request' \in [Requests -> Request] /\ ArgsInv' /\ told' = None
  BY DEF TypeInv, TypeOK, ArgsInv, ArgsOK, Start

LEMMA FinishTyped ==
  ASSUME TypeInv, NEW h \in Requests, NEW to \in Ops, NEW answer \in Kinds,
         NEW id \in Ids \cup {None}, NEW name \in Names \cup {None},
         Finish(h, to, answer, id, name)
  PROVE  /\ request' \in [Requests -> Request] /\ ArgsInv'
         /\ told' \in Answer
         /\ told'.to = to /\ told'.is = answer /\ told'.id = id /\ told'.name = name
  BY IdleTyped DEF TypeInv, TypeOK, ArgsInv, ArgsOK, Finish, Answer, Ops, Kinds

LEMMA InsertTyped ==
  ASSUME TypeInv, NEW row \in Row, Insert(row)
  PROVE  /\ created + 1 \in Ids
         /\ created' \in 0 .. MaxMetrics
         /\ metrics' \in [Ids -> Row \cup {None}]
  BY MaxAssumption DEF TypeInv, TypeOK, Insert, Ids

LEMMA ValidateTyped ==
  ASSUME TypeInv, NEW h \in Requests, NEW q \in Request, q.id \in Ids,
         q.update \in Update, q.read \in Row, Validate(h, q)
  PROVE  /\ request' \in [Requests -> Request] /\ ArgsInv'
         /\ \/ told' = None
            \/ told' \in Answer /\ told'.is = "bad request"
  <1>1. CASE Start(h, [q EXCEPT !.at = "writing"]) /\ Ordered(Updated(q.read, q.update))
    <2> DEFINE w == [q EXCEPT !.at = "writing"]
    <2>1. w \in Request /\ ArgsOK(w)
      BY <1>1 DEF Request, Steps, ArgsOK
    <2> QED
      BY <1>1, <2>1, StartTyped
  <1>2. CASE Finish(h, "update", "bad request", q.id, None)
    BY <1>2, FinishTyped DEF Ops, Kinds
  <1> QED
    BY <1>1, <1>2 DEF Validate

LEMMA InitTyped == Init => TypeInv
  <1> SUFFICES ASSUME Init PROVE TypeInv
    OBVIOUS
  <1> USE IdleTyped, DefaultsTyped, MaxAssumption DEF Init
  <1>1. TypeOK
    BY DEF TypeOK
  <1>2. ArgsInv
    BY DEF ArgsInv
  <1> QED
    BY <1>1, <1>2 DEF TypeInv
-----------------------------------------------------------------------------
(* What a step does to the table, with the answer it gives.  *)

\* The table changes in one of these ways.
Inserts == /\ created + 1 \in Ids /\ created' = created + 1
           /\ \E row \in Row : /\ Ordered(row)
                               /\ Named(row.name) = {}
                               /\ metrics' = [metrics EXCEPT ![created + 1] = row]
Overwrites(h) == LET me == request[h] IN
  /\ me.at = "writing" /\ me.id \in Present
  /\ "name" \in me.update.given => Named(me.update.row.name) \subseteq {me.id}
  /\ metrics' = [metrics EXCEPT ![me.id] = Updated(metrics[me.id], me.update)]
  /\ UNCHANGED created
Deletes(h) == /\ request[h].at = "deleting" /\ request[h].id \in Present
              /\ metrics' = [metrics EXCEPT ![request[h].id] = None]
              /\ UNCHANGED created

TableStep == Inserts \/ (\E h \in Requests : Overwrites(h) \/ Deletes(h)) \/ UNCHANGED table

\* Each step keeps the types, answers truly and changes the table in one of the ways.
StepOK == TypeInv' /\ (UNCHANGED vars \/ AnswersTrue') /\ TableStep

LEMMA QuietStep ==
  ASSUME TypeInv, request' \in [Requests -> Request], ArgsInv', UNCHANGED process,
         UNCHANGED table,
         told' = None \/ (told' \in Answer /\ told'.is = "bad request")
  PROVE  StepOK
  BY DEF StepOK, TypeInv, TypeOK, process, table, AnswersTrue, TableStep

LEMMA StepsOK == TypeInv /\ [Next]_vars => StepOK
  <1> SUFFICES ASSUME TypeInv, [Next]_vars PROVE StepOK
    OBVIOUS
  <1> USE DEF Ops, Kinds
  <1>1. CASE ensureDefaultLookups
    <2>1. starting' \in 0 .. Len(Defaults) /\ lookups' \subseteq Lookups
      BY <1>1, DefaultsTyped DEF ensureDefaultLookups, Serving, TypeInv, TypeOK
    <2> QED
      BY <1>1, <2>1 DEF ensureDefaultLookups, StepOK, TypeInv, TypeOK, ArgsInv, ArgsOK,
        table, AnswersTrue, TableStep
  <1>2. CASE Crash
    BY <1>2, IdleTyped, DefaultsTyped DEF Crash, StepOK, TypeInv, TypeOK, ArgsInv,
      ArgsOK, table, AnswersTrue, TableStep
  <1>3. ASSUME NEW name \in Names, replaceMetrics(name) PROVE StepOK
    <2> DEFINE row == [name |-> name, min |-> None, max |-> None]
    <2>1. row \in Row /\ Ordered(row) /\ Insert(row)
      BY <1>3 DEF replaceMetrics, Row, Ordered
    <2>2. Inserts
      BY <1>3, <2>1, InsertTyped DEF Inserts, Insert, replaceMetrics
    <2> QED
      BY <1>3, <2>1, <2>2, InsertTyped DEF replaceMetrics, StepOK, TypeInv, TypeOK,
        ArgsInv, ArgsOK, process, AnswersTrue, TableStep
  <1>4. ASSUME NEW h \in Requests, NEW body \in Bodies, createMetric(h, body)
        PROVE  StepOK
    <2>1. body \in Body /\ body.row.name \in Names
      BY BodiesAssumption DEF Body, Row
    <2>2. CASE Finish(h, "create", "bad request", None, body.row.name)
      BY <1>4, <2>1, <2>2, FinishTyped, QuietStep DEF createMetric
    <2>3. CASE /\ Finish(h, "create", "conflict", None, body.row.name)
               /\ Named(body.row.name) # {}
      <3>1. /\ request' \in [Requests -> Request] /\ ArgsInv' /\ told' \in Answer
            /\ told'.is = "conflict" /\ told'.id = None /\ told'.name = body.row.name
        BY <2>1, <2>3, FinishTyped
      <3>2. AnswersTrue'
        BY <1>4, <2>3, <3>1, NoneAssumption
        DEF AnswersTrue, createMetric, table, Named, Present
      <3> QED
        BY <1>4, <3>1, <3>2 DEF createMetric, StepOK, TypeInv, TypeOK, process, table,
          TableStep
    <2>4. CASE /\ Start(h, [Idle EXCEPT !.at = "creating", !.body = body])
               /\ Ordered(body.row)
      <3> DEFINE q == [Idle EXCEPT !.at = "creating", !.body = body]
      <3>1. q \in Request /\ ArgsOK(q)
        BY <2>1, <2>4 DEF Request, Steps, ArgsOK, Idle
      <3> QED
        BY <1>4, <2>4, <3>1, StartTyped, QuietStep DEF createMetric
    <2> QED
      BY <1>4, <2>2, <2>3, <2>4 DEF createMetric
  <1>5. ASSUME NEW h \in Requests, saveMetric(h) PROVE StepOK
    <2> DEFINE row == request[h].body.row
    <2>1. row \in Row /\ Ordered(row) /\ row.name \in Names
      BY <1>5 DEF saveMetric, TypeInv, ArgsInv, ArgsOK, Body, Row
    <2>2. CASE /\ Named(row.name) = {} /\ Insert(row)
               /\ Finish(h, "create", "ok", created + 1, row.name)
      <3>1. Inserts /\ created + 1 \in Ids /\ metrics'[created + 1] = row
        BY <2>1, <2>2, InsertTyped DEF Inserts, Insert, TypeInv, TypeOK
      <3>2. /\ request' \in [Requests -> Request] /\ ArgsInv' /\ told' \in Answer
            /\ told'.to = "create" /\ told'.is = "ok" /\ told'.id = created + 1
        BY <2>1, <2>2, <3>1, FinishTyped DEF Finish
      <3>3. AnswersTrue'
        BY <2>1, <3>1, <3>2, NoneAssumption DEF AnswersTrue, Present
      <3> QED
        BY <1>5, <2>1, <2>2, <3>1, <3>2, <3>3, InsertTyped DEF saveMetric, StepOK,
          TypeInv, TypeOK, process, TableStep
    <2>3. CASE Finish(h, "create", "internal error", None, row.name) /\ UNCHANGED table
      <3>1. /\ request' \in [Requests -> Request] /\ ArgsInv' /\ told' \in Answer
            /\ told'.to = "create" /\ told'.is = "internal error"
        BY <2>1, <2>3, FinishTyped
      <3> QED
        BY <1>5, <2>3, <3>1 DEF saveMetric, StepOK, TypeInv, TypeOK, process, table,
          TableStep, AnswersTrue
    <2> QED
      BY <1>5, <2>2, <2>3 DEF saveMetric
  <1>6. ASSUME NEW h \in Requests, NEW id \in Ids, NEW update \in Updates,
               updateMetricById(h, id, update)
        PROVE  StepOK
    <2> DEFINE q == [Idle EXCEPT !.id = id, !.update = update, !.read = metrics[id]]
    <2>1. update \in Update
      BY BodiesAssumption
    <2>2. CASE id \notin Present
      <3>1. /\ request' \in [Requests -> Request] /\ ArgsInv' /\ told' \in Answer
            /\ told'.is = "not found" /\ told'.id = id
        BY <1>6, <2>2, FinishTyped DEF updateMetricById
      <3>2. AnswersTrue'
        BY <1>6, <2>2, <3>1 DEF AnswersTrue, updateMetricById, table, Present
      <3> QED
        BY <1>6, <3>1, <3>2 DEF updateMetricById, StepOK, TypeInv, TypeOK, process,
          table, TableStep
    <2>3. CASE id \in Present
      <3>1. q \in Request /\ q.id \in Ids /\ q.update \in Update /\ q.read \in Row
        BY <2>1, <2>3 DEF Request, Steps, Idle, Present, TypeInv, TypeOK
      <3>2. CASE Start(h, [q EXCEPT !.at = "checkingName"])
        <4>1. [q EXCEPT !.at = "checkingName"] \in Request
          BY <3>1 DEF Request, Steps
        <4>2. ArgsOK([q EXCEPT !.at = "checkingName"])
          BY <3>1 DEF ArgsOK, Request
        <4> HIDE DEF q
        <4> QED
          BY <1>6, <3>2, <4>1, <4>2, StartTyped, QuietStep DEF updateMetricById
      <3>3. CASE Validate(h, q)
        <4> HIDE DEF q
        <4> QED
          BY <1>6, <3>1, <3>3, ValidateTyped, QuietStep DEF updateMetricById
      <3> QED
        BY <1>6, <2>3, <3>2, <3>3 DEF updateMetricById
    <2> QED
      BY <2>2, <2>3
  <1>7. ASSUME NEW h \in Requests, checkName(h) PROVE StepOK
    <2> DEFINE me == request[h]
    <2>1. /\ me \in Request /\ me.id \in Ids /\ me.update \in Update /\ me.read \in Row
          /\ me.update.row.name \in Names
      BY <1>7 DEF checkName, TypeInv, TypeOK, ArgsInv, ArgsOK, Update, Row
    <2>2. CASE Validate(h, me)
      BY <1>7, <2>1, <2>2, ValidateTyped, QuietStep DEF checkName
    <2>3. CASE /\ Finish(h, "update", "conflict", me.id, me.update.row.name)
               /\ ~(Named(me.update.row.name) \subseteq {me.id})
      <3>1. /\ request' \in [Requests -> Request] /\ ArgsInv' /\ told' \in Answer
            /\ told'.is = "conflict" /\ told'.id = me.id
            /\ told'.name = me.update.row.name
        BY <2>1, <2>3, FinishTyped DEF Finish
      <3>2. AnswersTrue'
        BY <1>7, <2>3, <3>1 DEF AnswersTrue, checkName, table, Named, Present
      <3> QED
        BY <1>7, <3>1, <3>2 DEF checkName, StepOK, TypeInv, TypeOK, process, table,
          TableStep
    <2> QED
      BY <1>7, <2>2, <2>3 DEF checkName
  <1>8. ASSUME NEW h \in Requests, writeMetric(h) PROVE StepOK
    <2> DEFINE me == request[h]
               name == me.update.row.name
    <2>1. me.id \in Ids /\ me.update \in Update /\ name \in Names
      BY <1>8 DEF writeMetric, TypeInv, ArgsInv, ArgsOK, Update, Row
    <2>2. CASE /\ me.id \notin Present /\ Finish(h, "update", "not found", me.id, name)
               /\ UNCHANGED metrics
      <3>1. /\ request' \in [Requests -> Request] /\ ArgsInv' /\ told' \in Answer
            /\ told'.is = "not found" /\ told'.id = me.id
        BY <2>1, <2>2, FinishTyped DEF Finish
      <3>2. AnswersTrue'
        BY <2>2, <3>1 DEF AnswersTrue, Present
      <3> QED
        BY <1>8, <2>2, <3>1, <3>2 DEF writeMetric, StepOK, TypeInv, TypeOK, process,
          table, TableStep
    <2>3. CASE /\ ~(Named(name) \subseteq {me.id})
               /\ Finish(h, "update", "conflict", me.id, name) /\ UNCHANGED metrics
      <3>1. /\ request' \in [Requests -> Request] /\ ArgsInv' /\ told' \in Answer
            /\ told'.is = "conflict" /\ told'.id = me.id /\ told'.name = name
        BY <2>1, <2>3, FinishTyped DEF Finish
      <3>2. AnswersTrue'
        BY <2>3, <3>1 DEF AnswersTrue, Named, Present
      <3> QED
        BY <1>8, <2>3, <3>1, <3>2 DEF writeMetric, StepOK, TypeInv, TypeOK, process,
          table, TableStep
    <2>4. CASE /\ me.id \in Present /\ Finish(h, "update", "ok", me.id, name)
               /\ "name" \in me.update.given => Named(name) \subseteq {me.id}
               /\ metrics' = [metrics EXCEPT ![me.id] = Updated(@, me.update)]
      <3>1. /\ request' \in [Requests -> Request] /\ ArgsInv' /\ told' \in Answer
            /\ told'.to = "update" /\ told'.is = "ok" /\ told'.id = me.id
        BY <2>1, <2>4, FinishTyped DEF Finish
      <3>2. Overwrites(h)
        BY <1>8, <2>1, <2>4 DEF Overwrites, writeMetric, TypeInv, TypeOK
      <3>3. Updated(metrics[me.id], me.update) \in Row
        BY <2>1, <2>4, UpdatedTyped DEF Present, TypeInv, TypeOK
      <3>4. metrics' \in [Ids -> Row \cup {None}] /\ metrics'[me.id] # None
        BY <2>1, <2>4, <3>3, NoneAssumption DEF TypeInv, TypeOK
      <3>5. AnswersTrue'
        BY <2>1, <3>1, <3>4 DEF AnswersTrue, Present
      <3> QED
        BY <1>8, <3>1, <3>2, <3>4, <3>5 DEF writeMetric, StepOK, TypeInv, TypeOK,
          process, TableStep
    <2> QED
      BY <1>8, <2>2, <2>3, <2>4 DEF writeMetric
  <1>9. ASSUME NEW h \in Requests, NEW id \in Ids, deleteMetricById(h, id)
        PROVE  StepOK
    <2>1. CASE Start(h, [Idle EXCEPT !.at = "deleting", !.id = id])
      <3> DEFINE q == [Idle EXCEPT !.at = "deleting", !.id = id]
      <3>1. q \in Request /\ ArgsOK(q)
        BY DEF Request, Steps, ArgsOK, Idle
      <3> QED
        BY <1>9, <2>1, <3>1, StartTyped, QuietStep DEF deleteMetricById
    <2>2. CASE id \notin Present /\ Finish(h, "delete", "not found", id, None)
      <3>1. /\ request' \in [Requests -> Request] /\ ArgsInv' /\ told' \in Answer
            /\ told'.is = "not found" /\ told'.id = id
        BY <2>2, FinishTyped
      <3>2. AnswersTrue'
        BY <1>9, <2>2, <3>1 DEF AnswersTrue, Present, deleteMetricById, table
      <3> QED
        BY <1>9, <3>1, <3>2 DEF deleteMetricById, StepOK, TypeInv, TypeOK, process,
          table, TableStep
    <2> QED
      BY <1>9, <2>1, <2>2 DEF deleteMetricById
  <1>10. ASSUME NEW h \in Requests, deleteRow(h) PROVE StepOK
    <2> DEFINE id == request[h].id
    <2>1. id \in Ids
      BY <1>10 DEF deleteRow, TypeInv, ArgsInv, ArgsOK
    <2>2. CASE /\ id \in Present /\ Finish(h, "delete", "ok", id, None)
               /\ metrics' = [metrics EXCEPT ![id] = None]
      <3>1. /\ request' \in [Requests -> Request] /\ ArgsInv' /\ told' \in Answer
            /\ told'.to = "delete" /\ told'.is = "ok" /\ told'.id = id
        BY <2>1, <2>2, FinishTyped
      <3>2. Deletes(h)
        BY <1>10, <2>2 DEF Deletes, deleteRow
      <3>3. metrics' \in [Ids -> Row \cup {None}] /\ metrics'[id] = None
        BY <2>1, <2>2 DEF TypeInv, TypeOK
      <3>4. AnswersTrue'
        BY <3>1, <3>3 DEF AnswersTrue, Present
      <3> QED
        BY <1>10, <3>1, <3>2, <3>3, <3>4 DEF deleteRow, StepOK, TypeInv, TypeOK,
          process, TableStep
    <2>3. CASE /\ id \notin Present /\ UNCHANGED metrics
               /\ Finish(h, "delete", "not found", id, None)
      <3>1. /\ request' \in [Requests -> Request] /\ ArgsInv' /\ told' \in Answer
            /\ told'.is = "not found" /\ told'.id = id
        BY <2>1, <2>3, FinishTyped
      <3>2. AnswersTrue'
        BY <2>3, <3>1 DEF AnswersTrue, Present
      <3> QED
        BY <1>10, <2>3, <3>1, <3>2 DEF deleteRow, StepOK, TypeInv, TypeOK, process,
          table, TableStep
    <2> QED
      BY <1>10, <2>2, <2>3 DEF deleteRow
  <1>11. ASSUME NEW h \in Requests, Abandon(h) PROVE StepOK
    BY <1>11, IdleTyped, StartTyped, QuietStep DEF Abandon
  <1>12. CASE UNCHANGED vars
    BY <1>12 DEF vars, StepOK, TypeInv, TypeOK, ArgsInv, ArgsOK, TableStep, table
  <1> QED
    BY <1>1, <1>2, <1>3, <1>4, <1>5, <1>6, <1>7, <1>8, <1>9, <1>10, <1>11, <1>12
    DEF Next

LEMMA TypeInvAlways == Spec => []TypeInv
  <1>1. TypeInv /\ [Next]_vars => TypeInv'
    BY StepsOK DEF StepOK
  <1> QED
    BY <1>1, InitTyped, PTL DEF Spec
-----------------------------------------------------------------------------
\* Everything keeps its type, the answers included.
THEOREM TypeCorrect == Spec => []TypeOK
  <1>1. TypeInv => TypeOK
    BY DEF TypeInv
  <1> QED
    BY <1>1, TypeInvAlways, PTL

\* The application never serves a request without the default lookups, wherever
\* earlier starts have died.
THEOREM ServingHasLookupsAlways == Spec => []ServingHasLookups
  <1> DEFINE Done == \A n \in 1 .. starting : Defaults[n] \in lookups
  <1>1. Init => Done
    BY DEF Init
  <1>2. TypeInv /\ Done /\ [Next]_vars => Done'
    <2> SUFFICES ASSUME TypeInv, Done, [Next]_vars PROVE Done'
      OBVIOUS
    <2>1. CASE ensureDefaultLookups
      BY <2>1, DefaultsTyped DEF ensureDefaultLookups, TypeInv, TypeOK
    <2>2. CASE Crash
      BY <2>2 DEF Crash
    <2>3. CASE UNCHANGED process
      BY <2>3 DEF process
    <2>4. ensureDefaultLookups \/ Crash \/ UNCHANGED process
      BY DEF Next, vars, process, replaceMetrics, createMetric, saveMetric,
        updateMetricById, checkName, writeMetric, deleteMetricById, deleteRow, Abandon
    <2> QED
      BY <2>1, <2>2, <2>3, <2>4
  <1>3. Done => ServingHasLookups
    BY DefaultsTyped DEF ServingHasLookups, Serving
  <1> QED
    BY <1>1, <1>2, <1>3, TypeInvAlways, PTL DEF Spec

\* Every answer agrees with the table, and only a create that loses a race is told
\* of an internal error.
THEOREM AnswersTrueAlways == Spec => []AnswersTrue
  <1>1. Init => AnswersTrue
    BY DEF Init, AnswersTrue
  <1>2. TypeInv /\ AnswersTrue /\ [Next]_vars => AnswersTrue'
    <2> SUFFICES ASSUME TypeInv, AnswersTrue, [Next]_vars PROVE AnswersTrue'
      OBVIOUS
    <2>1. CASE UNCHANGED vars
      BY <2>1 DEF vars, AnswersTrue, Named, Present
    <2> QED
      BY <2>1, StepsOK DEF StepOK
  <1> QED
    BY <1>1, <1>2, TypeInvAlways, PTL DEF Spec

\* A row changes only in the fields that an update gives, and a deleted metric does
\* not come back.
THEOREM OnlyAskedChangesAlways == Spec => OnlyAskedChanges
  <1> DEFINE A == \A i \in 1 .. created : metrics'[i] # metrics[i] =>
       /\ metrics[i] # None
       /\ \E h \in Requests :
            /\ request[h].id = i
            /\ \/ request[h].at = "deleting" /\ metrics'[i] = None
               \/ /\ request[h].at = "writing"
                  /\ metrics'[i] = Updated(metrics[i], request[h].update)
  <1>1. TypeInv /\ [Next]_vars => A
    <2> SUFFICES ASSUME TypeInv, TableStep PROVE A
      BY StepsOK DEF StepOK
    <2> USE DEF TypeInv, TypeOK, Present
    <2>1. CASE Inserts
      BY <2>1 DEF Inserts
    <2>2. ASSUME NEW h \in Requests, Overwrites(h) PROVE A
      BY <2>2 DEF Overwrites
    <2>3. ASSUME NEW h \in Requests, Deletes(h) PROVE A
      BY <2>3 DEF Deletes
    <2>4. CASE UNCHANGED table
      BY <2>4 DEF table
    <2> QED
      BY <2>1, <2>2, <2>3, <2>4 DEF TableStep
  <1>2. TypeInv /\ [Next]_vars => [A]_vars
    BY <1>1
  <1> QED
    BY <1>2, TypeInvAlways, PTL DEF Spec, OnlyAskedChanges

\* A range is turned round only by an update of which a bound has changed since it
\* read the row: two racing updates, each in order by itself.
THEOREM RangeKeptUnlessRacedAlways == Spec => RangeKeptUnlessRaced
  <1> DEFINE Raced(i) ==
               \E h \in Requests :
                 /\ request[h].at = "writing"
                 /\ request[h].id = i
                 /\ \/ request[h].read.min # metrics[i].min
                    \/ request[h].read.max # metrics[i].max
             A == \A i \in Ids :
               metrics'[i] # None /\ ~Ordered(metrics'[i]) =>
                 /\ metrics[i] # None
                 /\ Ordered(metrics[i]) => Raced(i)
  <1>1. TypeInv /\ [Next]_vars => [A]_vars
    <2> SUFFICES ASSUME TypeInv, TableStep, ~UNCHANGED vars PROVE A
      BY StepsOK DEF StepOK
    <2> SUFFICES ASSUME NEW i \in Ids, metrics'[i] # None, ~Ordered(metrics'[i])
                 PROVE  metrics[i] # None /\ (Ordered(metrics[i]) => Raced(i))
      OBVIOUS
    <2>1. CASE Inserts
      <3>1. metrics'[i] = metrics[i]
        BY <2>1 DEF Inserts, TypeInv, TypeOK
      <3> QED
        BY <3>1
    <2>2. ASSUME NEW h \in Requests, Overwrites(h)
          PROVE  metrics[i] # None /\ (Ordered(metrics[i]) => Raced(i))
      <3> DEFINE me == request[h]
      <3>1. CASE i = me.id
        <4>1. /\ metrics[i] # None /\ metrics[i] \in Row
              /\ metrics'[i] = Updated(metrics[i], me.update)
          BY <2>2, <3>1 DEF Overwrites, Present, TypeInv, TypeOK
        <4>2. /\ me.at = "writing" /\ me.read \in Row /\ me.update \in Update
              /\ Ordered(Updated(me.read, me.update))
          BY <2>2 DEF Overwrites, TypeInv, ArgsInv, ArgsOK
        <4>3. ASSUME me.read.min = metrics[i].min, me.read.max = metrics[i].max
              PROVE  FALSE
          <5>1. /\ Updated(me.read, me.update).min = Updated(metrics[i], me.update).min
                /\ Updated(me.read, me.update).max = Updated(metrics[i], me.update).max
            BY <4>3 DEF Updated, Fields
          <5> QED
            BY <4>1, <4>2, <5>1 DEF Ordered
        <4> QED
          BY <3>1, <4>1, <4>2, <4>3
      <3>2. CASE i # me.id
        <4>1. metrics'[i] = metrics[i]
          BY <2>2, <3>2 DEF Overwrites, TypeInv, TypeOK
        <4> QED
          BY <4>1
      <3> QED
        BY <3>1, <3>2
    <2>3. ASSUME NEW h \in Requests, Deletes(h)
          PROVE  metrics[i] # None /\ (Ordered(metrics[i]) => Raced(i))
      <3>1. metrics'[i] = metrics[i]
        BY <2>3 DEF Deletes, TypeInv, TypeOK
      <3> QED
        BY <3>1
    <2>4. CASE UNCHANGED table
      BY <2>4 DEF table
    <2> QED
      BY <2>1, <2>2, <2>3, <2>4 DEF TableStep
  <1> QED
    BY <1>1, TypeInvAlways, PTL DEF Spec, RangeKeptUnlessRaced-----------------------------------------------------------------------------
(* The pages of the list of metrics.  *)

UniqueNames == \A i, j \in Present : metrics[i].name = metrics[j].name => i = j

\* Two definitions never share a name, however creations, renamings and the
\* catalog's own definitions interleave: by the unique index, not by the looks.
THEOREM UniqueNamesAlways == Spec => []UniqueNames
  <1>1. Init => UniqueNames
    BY DEF Init, UniqueNames, Present
  <1>2. TypeInv /\ UniqueNames /\ [Next]_vars => UniqueNames'
    <2> SUFFICES ASSUME TypeInv, UniqueNames, TableStep PROVE UniqueNames'
      BY StepsOK DEF StepOK
    <2> USE NoneAssumption DEF UniqueNames, Present, TypeInv, TypeOK
    <2>1. CASE Inserts
      BY <2>1 DEF Inserts, Named
    <2>2. ASSUME NEW h \in Requests, Overwrites(h) PROVE UniqueNames'
      <3> DEFINE me == request[h]
                 row == Updated(metrics[me.id], me.update)
      <3>1. metrics' = [metrics EXCEPT ![me.id] = row] /\ me.id \in Present
        BY <2>2 DEF Overwrites
      <3>2. row.name = IF "name" \in me.update.given THEN me.update.row.name
                                                     ELSE metrics[me.id].name
        BY DEF Updated, Fields
      <3>3. \A i \in Present \ {me.id} : metrics[i].name # row.name
        BY <2>2, <3>1, <3>2 DEF Overwrites, Named
      <3> HIDE DEF me, row
      <3> QED
        BY <3>1, <3>3
    <2>3. ASSUME NEW h \in Requests, Deletes(h) PROVE UniqueNames'
      BY <2>3 DEF Deletes
    <2>4. CASE UNCHANGED table
      BY <2>4 DEF table
    <2> QED
      BY <2>1, <2>2, <2>3, <2>4 DEF TableStep
  <1> QED
    BY <1>1, <1>2, TypeInvAlways, PTL DEF Spec

SortKey(column) ==
  [i \in Present |-> IF column = "name" THEN metrics[i].name ELSE i]
Columns == {"createdAt", "name"}

\* The columns leave no ties.
ListedInv ==
  IsFiniteSet(Present) /\ \A column \in Columns : Distinct(Present, SortKey(column))

LEMMA ListedInvAlways == Spec => []ListedInv
  <1>1. TypeInv /\ UniqueNames => ListedInv
    <2> SUFFICES ASSUME TypeInv, UniqueNames PROVE ListedInv
      OBVIOUS
    <2>1. Present \subseteq Ids /\ Ids \subseteq Nat /\ IsFiniteSet(Ids)
      BY MaxAssumption, FS_Interval DEF Present, Ids
    <2>2. \A i \in Present : metrics[i].name \in Nat
      BY NamesAssumption DEF Present, TypeInv, TypeOK, Row
    <2>3. Distinct(Present, SortKey("name"))
      BY <2>2 DEF Distinct, SortKey, UniqueNames
    <2>4. Distinct(Present, SortKey("createdAt"))
      BY <2>1 DEF Distinct, SortKey
    <2> QED
      BY <2>1, <2>3, <2>4, FS_Subset DEF Columns, ListedInv
  <1> QED
    BY <1>1, TypeInvAlways, UniqueNamesAlways, PTL

\* A step leaves all definitions but one as they are.
LEMMA OneRowChanges ==
  ASSUME TypeInv, TableStep
  PROVE  \E x : /\ Present \ {x} = Present' \ {x}
                /\ \A i \in Present \ {x} : metrics'[i] = metrics[i]
  <1> USE DEF Present, TypeInv, TypeOK
  <1>1. CASE Inserts
    <2> WITNESS created + 1
    <2> QED
      BY <1>1 DEF Inserts
  <1>2. ASSUME NEW h \in Requests, Overwrites(h) \/ Deletes(h)
        PROVE  \E x : /\ Present \ {x} = Present' \ {x}
                      /\ \A i \in Present \ {x} : metrics'[i] = metrics[i]
    <2> WITNESS request[h].id
    <2> QED
      BY <1>2 DEF Overwrites, Deletes
  <1>3. CASE UNCHANGED table
    BY <1>3 DEF table
  <1> QED
    BY <1>1, <1>2, <1>3 DEF TableStep

\* Who pages through the definitions, sorted by a column without ties, misses at most
\* one of those that stay because another request creates, renames or deletes one
\* between two pages, whatever the size of the table and of the pages.
THEOREM OneWriteHidesOneAlways == Spec => OneWriteHidesOne
  <1> DEFINE A ==
        metrics' # metrics =>
          \A column \in {"createdAt", "name"}, ascending \in BOOLEAN,
             n, limit \in 1 .. MaxMetrics :
            \A before \in findAllMetrics(column, ascending),
               after \in findAllMetrics(column, ascending)' :
              Cardinality(Hidden(before, after, n, limit)) <= 1
  <1>1. ASSUME TypeInv, ListedInv, ListedInv', [Next]_vars PROVE A
    <2> SUFFICES ASSUME NEW column \in Columns, NEW ascending \in BOOLEAN,
                        NEW n \in 1 .. MaxMetrics, NEW limit \in 1 .. MaxMetrics,
                        NEW before \in findAllMetrics(column, ascending),
                        NEW after \in findAllMetrics(column, ascending)'
                 PROVE  Cardinality(Hidden(before, after, n, limit)) <= 1
      BY DEF Columns
    <2>1. PICK x : /\ Present \ {x} = Present' \ {x}
                   /\ \A i \in Present \ {x} : metrics'[i] = metrics[i]
      BY <1>1, StepsOK, OneRowChanges DEF StepOK
    <2>2. /\ before \in Sorted(Present, SortKey(column), ascending)
          /\ after \in Sorted(Present', SortKey(column)', ascending)
      BY DEF findAllMetrics, SortKey
    <2>3. \A i \in Present \ {x} : SortKey(column)'[i] = SortKey(column)[i]
      BY <2>1 DEF SortKey
    <2>4. n \in Nat /\ limit \in Nat \ {0}
      BY MaxAssumption
    <2>5. /\ IsFiniteSet(Present) /\ Distinct(Present, SortKey(column))
          /\ IsFiniteSet(Present') /\ Distinct(Present', SortKey(column)')
      BY <1>1 DEF ListedInv
    <2> QED
      BY <2>1, <2>2, <2>3, <2>4, <2>5, OneChangeHidesOne
  <1>2. TypeInv /\ ListedInv /\ ListedInv' /\ [Next]_vars => [A]_vars
    BY <1>1
  <1> QED
    BY <1>2, TypeInvAlways, ListedInvAlways, PTL DEF Spec, OneWriteHidesOne
=============================================================================
