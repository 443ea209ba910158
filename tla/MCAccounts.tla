----------------------------- MODULE MCAccounts -----------------------------
(* Accounts on small instances: the administrator, someone who registers or *)
(* is created, and updates that make the one's login clash with the other's.*)
EXTENDS Accounts, TLC

CONSTANTS e1, e2, p1, p2

A(username, email, password, role) ==
  [username |-> username, email |-> email, password |-> password, role |-> role]

Root == A(1, e1, p1, "SUPERUSER")
People == {A(2, e2, p2, None)}

Change(given, username, email, password, role) ==
  [given |-> given, username |-> username, email |-> email, password |-> password,
   role |-> role]
Changes == {Change({"username"}, 2, e1, p1, "USER"),
            Change({"password", "role"}, 1, e1, p2, "ADMIN")}

Symmetry == Permutations(Requests)
=============================================================================
