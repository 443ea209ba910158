------------------------------ MODULE Listing ------------------------------
(***************************************************************************)
(* What the list endpoints have in common: the rows that match are sorted  *)
(* on one column and cut into pages by OFFSET and LIMIT.  Each page is a   *)
(* query of its own, so that rows may change between one page and the next.*)
(***************************************************************************)
EXTENDS Integers, Sequences, FiniteSets, Functions

\* ORDER BY one column, of which `key` is the value in each row: rows that tie
\* come in any order, and not the same one in every query.
Sorted(rows, key, ascending) ==
  {list \in [1 .. Cardinality(rows) -> rows] :
     /\ IsInjective(list)
     /\ \A i, j \in DOMAIN list : i < j =>
          IF ascending THEN key[list[i]] <= key[list[j]]
                       ELSE key[list[i]] >= key[list[j]]}

\* Mistake: pages are counted from zero.
PageFromZero(list, page, limit) ==
  LET skip == page * limit
      last == IF skip + limit < Len(list) THEN skip + limit ELSE Len(list)
  IN  SubSeq(list, skip + 1, last)

\* skip, take: the page may be short, or empty.
Page(list, page, limit) ==
  LET skip == (page - 1) * limit
      last == IF skip + limit < Len(list) THEN skip + limit ELSE Len(list)
  IN  SubSeq(list, skip + 1, last)

\* What one sees on some of the pages.
Shown(list, pages, limit) == UNION {Range(Page(list, p, limit)) : p \in pages}

\* Who reads the first n pages, then waits while `before` becomes `after`, and
\* reads the rest does not see these rows, though they were there all the time.
Hidden(before, after, n, limit) ==
  (Range(before) \cap Range(after))
    \ (Shown(before, 1 .. n, limit) \cup Shown(after, n + 1 .. Len(after), limit))
=============================================================================
