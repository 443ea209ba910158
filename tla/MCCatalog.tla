----------------------------- MODULE MCCatalog -----------------------------
(* Catalog on small instances: bodies that replace some of the relations. *)
EXTENDS CatalogReads, TLC

CONSTANTS a, b, d, accuracy

Body(scalars, given, skills, metrics, subDatasets) ==
  [scalars |-> scalars, given |-> given, skills |-> skills,
   metrics |-> metrics, subDatasets |-> subDatasets]

\* One body writes the test's row, and so locks it; the other gives lists only.
Bodies == {Body(TRUE, {"skills", "subDatasets"}, {a}, {}, {d}),
           Body(FALSE, Relations, {b}, {accuracy}, {})}

\* Bounds: the lists of one test are mixed at a time, and one result is there when
\* the next request moves.
OneTestMixed == Cardinality({pair[1] : pair \in mixed}) <= 1
OneResult == Cardinality(results) <= 1

Symmetry == Permutations(Tests) \cup Permutations(Suites) \cup Permutations(Requests)
=============================================================================
