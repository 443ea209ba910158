---------------------------- MODULE CatalogReads ----------------------------
(***************************************************************************)
(* What the catalog shows: the filtered list of tests, the options offered *)
(* for the filters, and the scores of a test.  The lists of strings are    *)
(* filtered and offered alike, so "skills" stands for them here as well.   *)
(***************************************************************************)
EXTENDS Catalog, Sequences, FiniteSets, SequencesExt

\* GET /catalog: a filter that is given and not empty asks for one of its values.
\* (A suite is never marked as deleted.)
findAllBenchmark(skills) ==
  {t \in Tests : /\ Active(t)
                 /\ skills # {} => RowsFor(t, "skills", skills) \cap rows # {}}

\* Mistake: the rows are not asked for their test.
getFilterOptionsOfAll == {r.value : r \in {q \in rows : q.rel = "skills"}}

\* GET /catalog/filters: the values that occur among the active tests.
getFilterOptions == {r.value : r \in {q \in rows : q.rel = "skills" /\ Active(q.test)}}
----------------------------------------------------------------------------
(* CatalogMapper: a test's results, the newest first, become its scores.   *)

\* The primary results count, or all of them when none is primary.
Counts(r, list) == r.primary \/ \A i \in DOMAIN list : ~list[i].primary

\* Mistake: a later entry of the list replaces an earlier one.
byModelLast(list) ==
  LET after[n \in 0 .. Len(list)] ==
        IF n = 0 THEN << >>
        ELSE IF Counts(list[n], list)
          THEN Append(SelectSeq(after[n - 1], LAMBDA s : s.model # list[n].model), list[n])
          ELSE after[n - 1]
  IN  after

\* The loop over the results: byModel(list)[n] is the map after the first n of them.
byModel(list) ==
  LET after[n \in 0 .. Len(list)] ==
        IF n = 0 THEN << >>
        ELSE IF Counts(list[n], list)
                /\ \A i \in DOMAIN after[n - 1] : after[n - 1][i].model # list[n].model
          THEN Append(after[n - 1], list[n])
          ELSE after[n - 1]
  IN  after

toPrimaryScores(list) == byModel(list)[Len(list)]

\* metricResults of benchmarkTestFullInclude: lists of up to n results, by obtainedAt,
\* the newest first; results entered in the same moment come in any order.
ResultLists(models, times, n) ==
  {list \in UNION {[1 .. k -> [model : models, primary : BOOLEAN, obtainedAt : times]]
                     : k \in 0 .. n} :
     \A i, j \in DOMAIN list : i < j => list[i].obtainedAt >= list[j].obtainedAt}
----------------------------------------------------------------------------
\* The filter's options and the filtered list agree, though they are queries of
\* different tables: an option, chosen alone, finds a test, and a test that is listed
\* and has any skill is found by the options offered.
OptionsFind ==
  /\ \A skill \in getFilterOptions : findAllBenchmark({skill}) # {}
  /\ \A t \in findAllBenchmark({}) :
       RowsFor(t, "skills", Skills) \cap rows # {} => t \in findAllBenchmark(getFilterOptions)

\* What the scores of a test are to be: of the primary results, or of all when none
\* is primary, the newest of each model.
AreScoresOf(scores, list) ==
  LET all == ToSet(list)
      primary == {r \in all : r.primary}
      eligible == IF primary # {} THEN primary ELSE all
      newest == {r \in eligible : \A q \in eligible :
                   q.model = r.model => q.obtainedAt <= r.obtainedAt}
  IN  /\ ToSet(scores) \subseteq newest
      /\ \A r \in eligible :
           Cardinality({i \in DOMAIN scores : scores[i].model = r.model}) = 1

\* A row of `results` stands for any number of them, each with a model and a time.
ScoresOfAnyResults ==
  \A list \in ResultLists({"m1", "m2"}, 1 .. 2, 4) : AreScoresOf(toPrimaryScores(list), list)

\* A listed test with results shows the scores it is to have: toPrimaryScores takes
\* the first result it meets of each model, and the query puts the newest first.
ScoresMeetDefinition ==
  (\E t \in findAllBenchmark({}), r \in results : r.test = t) => ScoresOfAnyResults
=============================================================================
