----------------------------- MODULE MCMetrics -----------------------------
(* Metrics on small instances: updates that are each in order and together  *)
(* are not, a rename, and bodies that are refused.                          *)
EXTENDS Metrics, TLC

R(name, min, max) == [name |-> name, min |-> min, max |-> max]
B(row, codes) == [row |-> row, lookups |-> codes]
U(given, row, codes) == [given |-> given, row |-> row, lookups |-> codes]

ThreeBodies == {B(R(1, 1, 3), {"primary", "lower_is_better"}),
                B(R(2, 3, 1), {"primary", "lower_is_better"}),
                B(R(2, 1, 3), {"primary", "unknown"})}
FourUpdates == {U({"min"}, R(1, 2, None), {}),
                U({"max"}, R(1, None, 1), {"secondary"}),
                U({"name"}, R(2, None, None), {}),
                U({"name", "max"}, R(1, None, None), {"unknown"})}

Symmetry == Permutations(Requests)
=============================================================================
