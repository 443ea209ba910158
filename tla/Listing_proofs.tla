--------------------------- MODULE Listing_proofs ---------------------------
(***************************************************************************)
(* What a reader of pages may miss, for lists of any length, pages of any  *)
(* size and a change between any two of them: the theory the theorems      *)
(* about the lists of users and of metrics rest on.                        *)
(*                                                                         *)
(* On a column without ties the place of a row in the list is the number   *)
(* of rows up to it (RankOf), and the pages read so far are the first      *)
(* places (OnPages).  A row is hidden when its place was behind them       *)
(* before the change and is among them after it (HiddenMovesUp); counting  *)
(* the rows up to it on both sides says for which rows that can be.        *)
(***************************************************************************)
EXTENDS Listing, TLAPS, FiniteSetTheorems

\* The key of each row is a number, and no two rows share it.
Distinct(rows, key) ==
  /\ \A r \in rows : key[r] \in Int
  /\ \A q, r \in rows : key[q] = key[r] => q = r

\* The rows up to r, and how many they are.
UpTo(rows, key, ascending, r) ==
  {q \in rows : IF ascending THEN key[q] <= key[r] ELSE key[q] >= key[r]}
Rank(rows, key, ascending, r) == Cardinality(UpTo(rows, key, ascending, r))
-----------------------------------------------------------------------------
(* The place of a row.  *)

\* The list holds all the rows.
LEMMA ListHasAll ==
  ASSUME NEW rows, IsFiniteSet(rows), NEW key, NEW ascending \in BOOLEAN,
         NEW list \in Sorted(rows, key, ascending)
  PROVE  /\ Cardinality(rows) \in Nat
         /\ list \in Seq(rows) /\ Len(list) = Cardinality(rows)
         /\ Range(list) = rows
  <1> DEFINE count == Cardinality(rows)
  <1>1. count \in Nat
    BY FS_CardinalityType
  <1>2. list \in Injection(1 .. count, rows)
    BY DEF Sorted, Injection
  <1>3. list \in Surjection(1 .. count, rows)
    BY <1>1, <1>2, FS_Interval, FS_Injection
  <1>4. list \in [1 .. count -> rows]
    BY DEF Sorted
  <1>5. Range(list) = rows
    BY <1>3, <1>4 DEF Surjection, Range
  <1> QED
    BY <1>1, <1>4, <1>5

\* The i-th row is that with i rows up to it.
LEMMA RankOfPlace ==
  ASSUME NEW rows, IsFiniteSet(rows), NEW key, Distinct(rows, key),
         NEW ascending \in BOOLEAN, NEW list \in Sorted(rows, key, ascending),
         NEW i \in 1 .. Len(list)
  PROVE  Rank(rows, key, ascending, list[i]) = i
  <1> DEFINE upTo == UpTo(rows, key, ascending, list[i])
             first == [j \in 1 .. i |-> list[j]]
  <1>1. /\ list \in [1 .. Len(list) -> rows] /\ Len(list) \in Nat
        /\ Range(list) = rows /\ IsInjective(list)
    <2>1. /\ list \in [1 .. Cardinality(rows) -> rows] /\ IsInjective(list)
      BY DEF Sorted
    <2>2. /\ Cardinality(rows) \in Nat /\ Len(list) = Cardinality(rows)
          /\ Range(list) = rows
      BY ListHasAll
    <2> QED
      BY <2>1, <2>2
  <1>2. \A j, k \in 1 .. Len(list) : j < k =>
          IF ascending THEN key[list[j]] <= key[list[k]] ELSE key[list[j]] >= key[list[k]]
    BY <1>1 DEF Sorted
  <1>3. \A j \in 1 .. i : j \in 1 .. Len(list) /\ list[j] \in rows /\ key[list[j]] \in Int
    BY <1>1 DEF Distinct
  <1>4. first \in [1 .. i -> upTo]
    <2> SUFFICES ASSUME NEW j \in 1 .. i PROVE list[j] \in upTo
      OBVIOUS
    <2>1. CASE j = i
      BY <1>3, <2>1 DEF UpTo
    <2>2. CASE j < i
      BY <1>2, <1>3, <2>2 DEF UpTo
    <2> QED
      BY <2>1, <2>2
  <1>5. IsInjective(first)
    BY <1>1, <1>3 DEF IsInjective
  <1>6. ASSUME NEW r \in upTo PROVE \E j \in 1 .. i : first[j] = r
    <2>1. PICK k \in 1 .. Len(list) : r = list[k]
      BY <1>1 DEF UpTo, Range
    <2>2. k <= i
      <3> SUFFICES ASSUME i < k PROVE FALSE
        BY <1>1
      <3>1. key[list[k]] \in Int /\ key[list[i]] \in Int
        BY <1>1 DEF Distinct
      <3>2. key[list[k]] = key[list[i]]
        BY <1>2, <2>1, <3>1 DEF UpTo
      <3>3. list[k] = list[i]
        BY <1>1, <3>2 DEF Distinct
      <3> QED
        BY <1>1, <3>3 DEF IsInjective
    <2> QED
      BY <2>1, <2>2
  <1>7. first \in Bijection(1 .. i, upTo)
    BY <1>4, <1>5, <1>6 DEF Bijection, Injection, Surjection
  <1>8. i \in Nat
    OBVIOUS
  <1> HIDE DEF first, upTo
  <1>9. Cardinality(upTo) = i
    BY <1>7, <1>8, FS_CountingElements DEF ExistsBijection
  <1> QED
    BY <1>9 DEF Rank, upTo

\* A row stands at the place that is the number of rows up to it.
LEMMA RankOf ==
  ASSUME NEW rows, IsFiniteSet(rows), NEW key, Distinct(rows, key),
         NEW ascending \in BOOLEAN, NEW list \in Sorted(rows, key, ascending),
         NEW r \in rows
  PROVE  /\ Rank(rows, key, ascending, r) \in 1 .. Len(list)
         /\ list[Rank(rows, key, ascending, r)] = r
  <1>1. PICK i \in 1 .. Len(list) : r = list[i]
    BY ListHasAll DEF Range
  <1> QED
    BY <1>1, RankOfPlace-----------------------------------------------------------------------------
(* The page of a row.  *)

\* The page of the i-th row, which is not after the i-th page.
LEMMA PageOf ==
  ASSUME NEW i \in Nat \ {0}, NEW limit \in Nat \ {0}
  PROVE  \E p \in 1 .. i : (p - 1) * limit < i /\ i <= (p - 1) * limit + limit
  <1> DEFINE d == (i - 1) \div limit
  <1>1. d \in Nat /\ d * limit <= i - 1 /\ i - 1 < d * limit + limit
    BY SMTT(30)
  <1>2. d <= d * limit
    <2> HIDE DEF d
    <2> QED
      BY <1>1
  <1> HIDE DEF d
  <1>3. d + 1 \in 1 .. i /\ (d + 1) - 1 = d
    BY <1>1, <1>2
  <1>4. ((d + 1) - 1) * limit < i /\ i <= ((d + 1) - 1) * limit + limit
    BY <1>1, <1>3
  <1> QED
    BY <1>3, <1>4

\* A row between the first and the last of a page is on it.
LEMMA PageElement ==
  ASSUME NEW S, NEW list \in Seq(S), NEW i \in 1 .. Len(list), NEW skip \in Nat,
         NEW last \in Nat, skip < i, i <= last, last <= Len(list)
  PROVE  list[i] \in Range(SubSeq(list, skip + 1, last))
  <1> DEFINE part == SubSeq(list, skip + 1, last)
             j == i - skip
  <1>1. j \in 1 .. Len(part) /\ part[j] = list[i]
    OBVIOUS
  <1>2. DOMAIN part = 1 .. Len(part)
    OBVIOUS
  <1> QED
    BY <1>1, <1>2 DEF Range

\* The first n pages show the first n * limit rows, the other pages the others.
LEMMA OnPages ==
  ASSUME NEW S, NEW list \in Seq(S), NEW i \in 1 .. Len(list),
         NEW n \in Nat, NEW limit \in Nat \ {0}
  PROVE  /\ i <= n * limit => list[i] \in Shown(list, 1 .. n, limit)
         /\ i > n * limit => list[i] \in Shown(list, n + 1 .. Len(list), limit)
  <1>1. PICK p \in 1 .. i : (p - 1) * limit < i /\ i <= (p - 1) * limit + limit
    <2>1. i \in Nat \ {0}
      OBVIOUS
    <2> QED
      BY <2>1, PageOf
  <1> DEFINE skip == (p - 1) * limit
             last == IF skip + limit < Len(list) THEN skip + limit ELSE Len(list)
  <1>2. skip \in Nat
    OBVIOUS
  <1>3. p <= n => p * limit <= n * limit
    OBVIOUS
  <1>4. p > n => n * limit <= skip
    <2> SUFFICES ASSUME p > n PROVE n * limit <= (p - 1) * limit
      OBVIOUS
    <2> DEFINE more == (p - 1) - n
    <2>1. more \in Nat /\ p - 1 = n + more
      OBVIOUS
    <2>2. more * limit \in Nat /\ (n + more) * limit = n * limit + more * limit
      <3> HIDE DEF more
      <3> QED
        BY <2>1
    <2> HIDE DEF more
    <2>3. n * limit \in Nat
      OBVIOUS
    <2> QED
      BY <2>1, <2>2, <2>3
  <1>5. skip + limit = p * limit
    OBVIOUS
  <1>6. n * limit \in Nat /\ p * limit \in Nat
    OBVIOUS
  <1> HIDE DEF skip
  <1>7. last \in Nat /\ skip < i /\ i <= last /\ last <= Len(list)
    BY <1>1, <1>2 DEF skip
  <1> HIDE DEF last
  <1>8. list[i] \in Range(SubSeq(list, skip + 1, last))
    BY <1>2, <1>7, PageElement
  <1>9. list[i] \in Range(Page(list, p, limit))
    BY <1>8 DEF Page, skip, last
  <1>10. i <= n * limit => p \in 1 .. n
    BY <1>2, <1>4, <1>6, <1>7
  <1>11. i > n * limit => p \in n + 1 .. Len(list)
    <2>1. i <= p * limit
      BY <1>1, <1>5 DEF skip
    <2> QED
      BY <1>3, <1>6, <2>1
  <1> QED
    BY <1>9, <1>10, <1>11 DEF Shown

\* While nothing changes, the pages show every row, whatever their size, and none
\* is hidden from who goes on reading later.
THEOREM NothingHiddenAtRest ==
  ASSUME NEW S, NEW list \in Seq(S), NEW n \in Nat, NEW limit \in Nat \ {0}
  PROVE  Hidden(list, list, n, limit) = {}
  <1> SUFFICES ASSUME NEW row \in Range(list)
               PROVE  row \in Shown(list, 1 .. n, limit)
                                \cup Shown(list, n + 1 .. Len(list), limit)
    BY DEF Hidden
  <1>1. PICK i \in 1 .. Len(list) : row = list[i]
    BY DEF Range
  <1>2. n * limit \in Nat /\ i \in Nat
    OBVIOUS
  <1>3. i <= n * limit \/ i > n * limit
    BY <1>2
  <1> QED
    BY <1>1, <1>3, OnPages
-----------------------------------------------------------------------------
(* What is hidden by a change of the table.  *)

\* A row that is hidden was behind the pages read and has moved up among them.
LEMMA HiddenMovesUp ==
  ASSUME NEW old, IsFiniteSet(old), NEW oldKey, Distinct(old, oldKey),
         NEW new, IsFiniteSet(new), NEW newKey, Distinct(new, newKey),
         NEW ascending \in BOOLEAN,
         NEW before \in Sorted(old, oldKey, ascending),
         NEW after \in Sorted(new, newKey, ascending),
         NEW n \in Nat, NEW limit \in Nat \ {0},
         NEW r \in Hidden(before, after, n, limit)
  PROVE  /\ r \in old \cap new
         /\ Rank(old, oldKey, ascending, r) > n * limit
         /\ Rank(new, newKey, ascending, r) <= n * limit
  <1>1. r \in old \cap new
    BY ListHasAll DEF Hidden
  <1> DEFINE i == Rank(old, oldKey, ascending, r)
             j == Rank(new, newKey, ascending, r)
  <1>2. i \in 1 .. Len(before) /\ before[i] = r
    BY <1>1, RankOf
  <1>3. j \in 1 .. Len(after) /\ after[j] = r
    BY <1>1, RankOf
  <1> HIDE DEF i, j
  <1>4. before \in Seq(old) /\ after \in Seq(new) /\ n * limit \in Nat
    BY ListHasAll
  <1>5. ~(i <= n * limit)
    BY <1>2, <1>4, OnPages DEF Hidden
  <1>6. ~(j > n * limit)
    BY <1>3, <1>4, OnPages DEF Hidden
  <1>7. i \in Nat /\ j \in Nat
    BY <1>2, <1>3, <1>4
  <1> QED
    BY <1>1, <1>4, <1>5, <1>6, <1>7 DEF i, j

\* Rows that are added hide none of those there were: no row moves up.
THEOREM AddedHideNone ==
  ASSUME NEW old, IsFiniteSet(old), NEW oldKey, Distinct(old, oldKey),
         NEW new, IsFiniteSet(new), NEW newKey, Distinct(new, newKey),
         old \subseteq new, \A r \in old : newKey[r] = oldKey[r],
         NEW ascending \in BOOLEAN,
         NEW before \in Sorted(old, oldKey, ascending),
         NEW after \in Sorted(new, newKey, ascending),
         NEW n \in Nat, NEW limit \in Nat \ {0}
  PROVE  Hidden(before, after, n, limit) = {}
  <1> SUFFICES ASSUME NEW r \in Hidden(before, after, n, limit) PROVE FALSE
    OBVIOUS
  <1> DEFINE upToOld == UpTo(old, oldKey, ascending, r)
             upToNew == UpTo(new, newKey, ascending, r)
  <1>1. /\ r \in old \cap new
        /\ Cardinality(upToOld) > n * limit /\ Cardinality(upToNew) <= n * limit
    BY HiddenMovesUp DEF Rank
  <1>2. upToOld \subseteq upToNew /\ upToNew \subseteq new
    BY <1>1 DEF UpTo
  <1> HIDE DEF upToOld, upToNew
  <1>3. IsFiniteSet(upToNew)
    BY <1>2, FS_Subset
  <1>4. Cardinality(upToOld) <= Cardinality(upToNew) /\ IsFiniteSet(upToOld)
    BY <1>2, <1>3, FS_Subset
  <1>5. Cardinality(upToOld) \in Nat /\ Cardinality(upToNew) \in Nat /\ n * limit \in Nat
    BY <1>3, <1>4, FS_CardinalityType
  <1> QED
    BY <1>1, <1>4, <1>5
\* Whatever becomes of the row x, another row is hidden only when it was the first
\* behind the pages read, and x was before it.
LEMMA OthersHidden ==
  ASSUME NEW old, IsFiniteSet(old), NEW oldKey, Distinct(old, oldKey),
         NEW new, IsFiniteSet(new), NEW newKey, Distinct(new, newKey),
         NEW x, old \ {x} = new \ {x}, \A r \in old \ {x} : newKey[r] = oldKey[r],
         NEW ascending \in BOOLEAN,
         NEW before \in Sorted(old, oldKey, ascending),
         NEW after \in Sorted(new, newKey, ascending),
         NEW n \in Nat, NEW limit \in Nat \ {0},
         NEW r \in Hidden(before, after, n, limit), r # x
  PROVE  /\ r \in old
         /\ Rank(old, oldKey, ascending, r) = n * limit + 1
         /\ x \in UpTo(old, oldKey, ascending, r)
  <1> DEFINE upToOld == UpTo(old, oldKey, ascending, r)
             upToNew == UpTo(new, newKey, ascending, r)
  <1>1. /\ r \in old \cap new
        /\ Cardinality(upToOld) > n * limit /\ Cardinality(upToNew) <= n * limit
    BY HiddenMovesUp DEF Rank
  <1>2. upToOld \ {x} = upToNew \ {x}
    BY <1>1 DEF UpTo
  <1>3. upToOld \subseteq old /\ upToNew \subseteq new
    BY DEF UpTo
  <1> HIDE DEF upToOld, upToNew
  <1>4. IsFiniteSet(upToOld) /\ IsFiniteSet(upToNew)
    BY <1>3, FS_Subset
  <1>5. /\ Cardinality(upToOld) \in Nat /\ Cardinality(upToNew) \in Nat
        /\ n * limit \in Nat
    BY <1>4, FS_CardinalityType
  <1>6. Cardinality(upToOld \ {x})
          = IF x \in upToOld THEN Cardinality(upToOld) - 1 ELSE Cardinality(upToOld)
    BY <1>4, FS_RemoveElement
  <1>7. Cardinality(upToOld \ {x}) <= Cardinality(upToNew)
    <2>1. Cardinality(upToNew \ {x}) <= Cardinality(upToNew)
      BY <1>4, <1>5, FS_RemoveElement
    <2> QED
      BY <1>2, <2>1
  <1> DEFINE readRows == n * limit
             rankOld == Cardinality(upToOld)
             rankNew == Cardinality(upToNew)
  <1>8. /\ readRows \in Nat /\ rankOld \in Nat /\ rankNew \in Nat
        /\ rankOld > readRows /\ rankNew <= readRows
        /\ (IF x \in upToOld THEN rankOld - 1 ELSE rankOld) <= rankNew
    BY <1>1, <1>5, <1>6, <1>7
  <1> HIDE DEF readRows, rankOld, rankNew
  <1>9. x \in upToOld /\ rankOld = readRows + 1
    BY <1>8
  <1> QED
    BY <1>1, <1>9 DEF Rank, upToOld, readRows, rankOld

\* One row that is changed, added or removed, wherever it moves to, hides one row
\* at most from who reads the pages: itself or one other.
THEOREM OneChangeHidesOne ==
  ASSUME NEW old, IsFiniteSet(old), NEW oldKey, Distinct(old, oldKey),
         NEW new, IsFiniteSet(new), NEW newKey, Distinct(new, newKey),
         NEW x, old \ {x} = new \ {x}, \A r \in old \ {x} : newKey[r] = oldKey[r],
         NEW ascending \in BOOLEAN,
         NEW before \in Sorted(old, oldKey, ascending),
         NEW after \in Sorted(new, newKey, ascending),
         NEW n \in Nat, NEW limit \in Nat \ {0}
  PROVE  Cardinality(Hidden(before, after, n, limit)) <= 1
  <1> DEFINE hidden == Hidden(before, after, n, limit)
             rank(r) == Rank(old, oldKey, ascending, r)
  <1>1. ASSUME NEW r \in hidden
        PROVE  r \in old /\ rank(r) \in Nat /\ rank(r) > n * limit
                 /\ before[rank(r)] = r
    <2>1. r \in old /\ rank(r) > n * limit
      BY HiddenMovesUp
    <2>2. rank(r) \in 1 .. Len(before) /\ before[rank(r)] = r
      BY <2>1, RankOf
    <2> QED
      BY <2>1, <2>2
  <1>2. ASSUME NEW r \in hidden, r # x
        PROVE  rank(r) = n * limit + 1 /\ x \in UpTo(old, oldKey, ascending, r)
    BY <1>2, OthersHidden
  \* When x is hidden and so behind the pages read, no other row is the first there.
  <1>3. ASSUME NEW r \in hidden, r # x, x \in hidden PROVE FALSE
    <2> DEFINE upToX == UpTo(old, oldKey, ascending, x)
               upToR == UpTo(old, oldKey, ascending, r)
    <2>1. x \in upToR /\ Cardinality(upToR) = n * limit + 1
      BY <1>2, <1>3 DEF Rank
    <2>2. Cardinality(upToX) > n * limit
      BY <1>1, <1>3 DEF Rank
    <2>3. \A q \in old : oldKey[q] \in Int
      BY DEF Distinct
    <2>4. r \in old /\ x \in old /\ oldKey[r] # oldKey[x]
      BY <1>1, <1>3 DEF Distinct
    <2>5. r \in upToR /\ upToX \subseteq upToR \ {r} /\ upToR \subseteq old
      BY <2>1, <2>3, <2>4 DEF UpTo
    <2> HIDE DEF upToX, upToR
    <2>6. IsFiniteSet(upToR)
      BY <2>5, FS_Subset
    <2>7. IsFiniteSet(upToR \ {r}) /\ Cardinality(upToR \ {r}) = Cardinality(upToR) - 1
      BY <2>5, <2>6, FS_RemoveElement
    <2>8. Cardinality(upToX) <= Cardinality(upToR \ {r}) /\ IsFiniteSet(upToX)
      BY <2>5, <2>7, FS_Subset
    <2>9. Cardinality(upToX) \in Nat /\ n * limit \in Nat
      BY <2>8, FS_CardinalityType
    <2> QED
      BY <2>1, <2>2, <2>7, <2>8, <2>9
  <1>4. ASSUME NEW q \in hidden, NEW r \in hidden PROVE q = r
    <2>1. CASE q # x /\ r # x
      BY <1>1, <1>2, <2>1
    <2> HIDE DEF hidden
    <2> QED
      BY <1>3, <2>1
  <1> HIDE DEF hidden
  <1>5. CASE hidden = {}
    BY <1>5, FS_EmptySet DEF hidden
  <1>6. CASE hidden # {}
    <2>1. PICK r \in hidden : TRUE
      BY <1>6
    <2>2. hidden = {r}
      BY <1>4, <2>1
    <2>3. Cardinality({r}) = 1
      BY FS_Singleton
    <2> QED
      BY <2>2, <2>3 DEF hidden
  <1> QED
    BY <1>5, <1>6
=============================================================================
