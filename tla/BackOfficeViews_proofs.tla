------------------------ MODULE BackOfficeViews_proofs ------------------------
(***************************************************************************)
(* Of the parts of MCBackOffice, those that show others what is recorded:  *)
(* lists that are read page by page, the mails about a booking, and the    *)
(* statements of owners.                                                   *)
(***************************************************************************)
EXTENDS BackOffice_proofs

-----------------------------------------------------------------------------
(***************************************************************************)
(* Pages.  A record has a place, as many as come before it, and what the   *)
(* reader has not seen of the places that he has passed is what he misses. *)
(* Every change lets one more record get there, or come to be beyond the   *)
(* total that he was told, and is counted as left or late (AllAccounted).  *)
(***************************************************************************)

list == x1
records == x2
ids == x3
page == x4
total == x5
rows == x6
seen == x7
done == x8
changes == x9
stayed == x10
left == x11
late == x12

USE DEF list, records, ids, page, total, rows, seen, done, changes, stayed, left, late

\* The pages' finite sets and their numbers are those of the theorems about sets.
LEMMA SameNumbers ==
    \A S : Lists!IsFiniteSet(S) = IsFiniteSet(S) /\ Lists!Cardinality(S) = Cardinality(S)
<1> SUFFICES ASSUME NEW S
             PROVE  Lists!IsFiniteSet(S) = IsFiniteSet(S) /\ Lists!Cardinality(S) = Cardinality(S)
  OBVIOUS
<1>1. Lists!IsFiniteSet(S) = IsFiniteSet(S)
  BY DEF Lists!IsFiniteSet, IsFiniteSet
<1>2. Lists!Cardinality(S) = Cardinality(S)
  BY DEF Lists!Cardinality, Cardinality
<1> QED
  BY <1>1, <1>2

LEMMA ListEmptySet == Lists!Cardinality({}) = 0
BY FS_EmptySet, SameNumbers

LEMMA ListCardinalityType ==
    ASSUME NEW S, Lists!IsFiniteSet(S)
    PROVE  Lists!Cardinality(S) \in Nat
BY FS_CardinalityType, SameNumbers

LEMMA ListSubset ==
    ASSUME NEW S, Lists!IsFiniteSet(S), NEW T \in SUBSET S
    PROVE  /\ Lists!IsFiniteSet(T) /\ Lists!Cardinality(T) <= Lists!Cardinality(S)
           /\ Lists!Cardinality(S) = Lists!Cardinality(T) => S = T
BY FS_Subset, SameNumbers

LEMMA ListInterval ==
    ASSUME NEW a \in Int, NEW b \in Int
    PROVE  /\ Lists!IsFiniteSet(a .. b)
           /\ Lists!Cardinality(a .. b) = IF a > b THEN 0 ELSE b - a + 1
BY FS_Interval, SameNumbers

LEMMA ListAddElement ==
    ASSUME NEW S, Lists!IsFiniteSet(S), NEW x
    PROVE  /\ Lists!IsFiniteSet(S \cup {x})
           /\ Lists!Cardinality(S \cup {x})
                = IF x \in S THEN Lists!Cardinality(S) ELSE Lists!Cardinality(S) + 1
BY FS_AddElement, SameNumbers

LEMMA ListUnion ==
    ASSUME NEW S, Lists!IsFiniteSet(S), NEW T, Lists!IsFiniteSet(T)
    PROVE  /\ Lists!IsFiniteSet(S \cup T)
           /\ Lists!Cardinality(S \cup T)
                = Lists!Cardinality(S) + Lists!Cardinality(T) - Lists!Cardinality(S \cap T)
BY FS_Union, SameNumbers

LEMMA ListInjection ==
    ASSUME NEW S, NEW T, Lists!IsFiniteSet(T), NEW f \in Injection(S, T)
    PROVE  /\ Lists!IsFiniteSet(S) /\ Lists!Cardinality(S) <= Lists!Cardinality(T)
           /\ Lists!Cardinality(S) = Lists!Cardinality(T) => f \in Surjection(S, T)
BY FS_Injection, SameNumbers

\* What the records are.
LEMMA RecordsAre ==
    ASSUME Lists!Assumptions, Lists!TypeOK
    PROVE  /\ DOMAIN records = 1 .. Len(records) /\ Len(records) \in Nat
           /\ \A i \in DOMAIN records : /\ records[i] \in [listed : BOOLEAN, name : ListedNames]
                                        /\ records[i].name \in Nat /\ records[i].listed \in BOOLEAN
           /\ Lists!Listed \subseteq DOMAIN records /\ Lists!Matching \subseteq Lists!Listed
           /\ Lists!IsFiniteSet(DOMAIN records) /\ Lists!IsFiniteSet(Lists!Listed)
           /\ Lists!IsFiniteSet(Lists!Matching)
           /\ stayed \subseteq Lists!Matching /\ Lists!IsFiniteSet(stayed)
<1>1. DOMAIN records = 1 .. Len(records) /\ Len(records) \in Nat
  BY DEF Lists!TypeOK
<1>2. \A i \in DOMAIN records : /\ records[i] \in [listed : BOOLEAN, name : ListedNames]
                                /\ records[i].name \in Nat /\ records[i].listed \in BOOLEAN
  <2> DEFINE R == [listed : BOOLEAN, name : ListedNames]
  <2>0. records \in Seq(R)
    BY DEF Lists!TypeOK
  <2>1. \A i \in DOMAIN records : records[i] \in R
    <3> HIDE DEF R
    <3> QED
      BY <2>0
  <2> QED
    BY <2>1 DEF Lists!Assumptions
<1>3. Lists!IsFiniteSet(DOMAIN records)
  BY <1>1, ListInterval
<1>4. Lists!Listed \subseteq DOMAIN records /\ Lists!Matching \subseteq Lists!Listed
  BY DEF Lists!Listed, Lists!Matching
<1>5. stayed \subseteq Lists!Matching
  BY DEF Lists!TypeOK, Lists!Matching
<1>6. Lists!IsFiniteSet(Lists!Listed)
  BY <1>3, <1>4, ListSubset
<1>7. Lists!IsFiniteSet(Lists!Matching)
  BY <1>6, <1>4, ListSubset
<1>8. Lists!IsFiniteSet(stayed)
  BY <1>5, <1>7, ListSubset
<1> QED
  BY <1>1, <1>2, <1>3, <1>4, <1>5, <1>6, <1>7, <1>8

\* Each list is ordered.
LEMMA BeforeIsAnOrder ==
    ASSUME Lists!Assumptions, Lists!TypeOK, NEW i \in DOMAIN records, NEW j \in DOMAIN records
    PROVE  /\ ~Lists!Before(i, i)
           /\ i # j => Lists!Before(i, j) \/ Lists!Before(j, i)
           /\ \A k \in DOMAIN records : Lists!Before(i, j) /\ Lists!Before(j, k) => Lists!Before(i, k)
<1>1. DOMAIN records \subseteq Nat /\ \A k \in DOMAIN records : records[k].name \in Nat
  BY RecordsAre
<1>2. i # j => records[i].name # records[j].name
  BY DEF Lists!TypeOK
<1>3. \/ list \in Lists!NewestFirst /\ \A k, l \in DOMAIN records : Lists!Before(k, l) <=> (k > l)
      \/ list = "users" /\ \A k, l \in DOMAIN records : Lists!Before(k, l) <=> (k < l)
      \/ list = "owners" /\ \A k, l \in DOMAIN records :
          Lists!Before(k, l) <=> (records[k].name < records[l].name)
  <2>1. CASE list \in Lists!NewestFirst
    BY <2>1 DEF Lists!Before, Lists!NewestFirst, Lists!ByName
  <2>2. CASE list = "users"
    BY <2>2 DEF Lists!Before, Lists!NewestFirst, Lists!ByName
  <2>3. CASE list = "owners"
    BY <2>3 DEF Lists!Before, Lists!NewestFirst, Lists!ByName
  <2> QED
    BY <2>1, <2>2, <2>3 DEF Lists!TypeOK, Lists!Lists, Lists!NewestFirst
<1> QED
  BY <1>1, <1>2, <1>3

\* One element more than a finite set.
LEMMA AtMostOneMore ==
    ASSUME NEW S, Lists!IsFiniteSet(S), NEW x, NEW T, T \subseteq S \cup {x}
    PROVE  /\ Lists!IsFiniteSet(T) /\ Lists!Cardinality(T) \in Nat /\ Lists!Cardinality(S) \in Nat
           /\ Lists!Cardinality(T) <= Lists!Cardinality(S) + 1
<1>1. Lists!IsFiniteSet(S \cup {x}) /\ Lists!Cardinality(S \cup {x}) <= Lists!Cardinality(S) + 1
      /\ Lists!Cardinality(S) \in Nat
  BY ListAddElement, ListCardinalityType
<1>2. Lists!IsFiniteSet(T) /\ Lists!Cardinality(T) <= Lists!Cardinality(S \cup {x})
  BY <1>1, ListSubset
<1>3. Lists!Cardinality(T) \in Nat /\ Lists!Cardinality(S \cup {x}) \in Nat
  BY <1>1, <1>2, ListCardinalityType
<1> QED
  BY <1>1, <1>2, <1>3

\* A part of a finite set.
LEMMA NoMore ==
    ASSUME NEW S, Lists!IsFiniteSet(S), NEW T, T \subseteq S
    PROVE  /\ Lists!IsFiniteSet(T) /\ Lists!Cardinality(T) \in Nat /\ Lists!Cardinality(S) \in Nat
           /\ Lists!Cardinality(T) <= Lists!Cardinality(S)
BY ListSubset, ListCardinalityType

\* Every record that is found has a place of its own.
LEMMA ListPlaces ==
    ASSUME Lists!Assumptions, Lists!TypeOK
    PROVE  /\ \A i : Lists!Place(i) \in Nat
           /\ \A i \in Lists!Matching : Lists!Place(i) < Lists!Cardinality(Lists!Matching)
           /\ \A i, j \in Lists!Matching : Lists!Before(i, j) => Lists!Place(i) < Lists!Place(j)
           /\ \A i, j \in Lists!Matching : i # j => Lists!Place(i) # Lists!Place(j)
<1> DEFINE B(i) == {j \in Lists!Matching : Lists!Before(j, i)}
<1>1. Lists!IsFiniteSet(Lists!Matching) /\ Lists!Matching \subseteq DOMAIN records
  BY RecordsAre
<1>2. \A i : Lists!IsFiniteSet(B(i)) /\ Lists!Cardinality(B(i)) \in Nat
  BY <1>1, NoMore
<1>3. \A i : Lists!Place(i) = Lists!Cardinality(B(i))
  BY DEF Lists!Place
<1>4. ASSUME NEW S, NEW T, Lists!IsFiniteSet(T), S \subseteq T, NEW x \in T, x \notin S
      PROVE  Lists!Cardinality(S) < Lists!Cardinality(T)
  <2>1. S # T
    BY <1>4
  <2> QED
    BY <1>4, <2>1, NoMore, ListSubset
<1>5. ASSUME NEW i \in Lists!Matching
      PROVE  Lists!Place(i) < Lists!Cardinality(Lists!Matching)
  <2>1. i \notin B(i) /\ B(i) \subseteq Lists!Matching
    BY <1>1, BeforeIsAnOrder
  <2> HIDE DEF B
  <2> QED
    BY <1>1, <1>3, <1>4, <2>1
<1>6. ASSUME NEW i \in Lists!Matching, NEW j \in Lists!Matching, Lists!Before(i, j)
      PROVE  Lists!Place(i) < Lists!Place(j)
  <2>1. i \notin B(i) /\ i \in B(j)
    BY <1>1, <1>6, BeforeIsAnOrder
  <2>2. B(i) \subseteq B(j)
    BY <1>1, <1>6, BeforeIsAnOrder
  <2>3. Lists!IsFiniteSet(B(j))
    BY <1>2
  <2>4. Lists!Place(i) = Lists!Cardinality(B(i)) /\ Lists!Place(j) = Lists!Cardinality(B(j))
    BY <1>3
  <2> HIDE DEF B
  <2> QED
    BY <1>4, <2>1, <2>2, <2>3, <2>4
<1>7. ASSUME NEW i \in Lists!Matching, NEW j \in Lists!Matching, i # j
      PROVE  Lists!Place(i) # Lists!Place(j)
  <2>1. Lists!Before(i, j) \/ Lists!Before(j, i)
    BY <1>1, <1>7, BeforeIsAnOrder
  <2>2. Lists!Place(i) \in Nat /\ Lists!Place(j) \in Nat
    BY <1>2, <1>3
  <2>3. Lists!Before(i, j) => Lists!Place(i) < Lists!Place(j)
    BY <1>6
  <2>4. Lists!Before(j, i) => Lists!Place(j) < Lists!Place(i)
    BY <1>6
  <2> QED
    BY <2>1, <2>2, <2>3, <2>4
<1>8. \A i : Lists!Place(i) \in Nat
  BY <1>2, <1>3
<1> QED
  BY <1>5, <1>6, <1>7, <1>8

\* Every place is taken.
LEMMA PlacesAreTaken ==
    ASSUME Lists!Assumptions, Lists!TypeOK, NEW k \in 0 .. Lists!Cardinality(Lists!Matching) - 1
    PROVE  \E i \in Lists!Matching : Lists!Place(i) = k
<1> DEFINE n == Lists!Cardinality(Lists!Matching)
           T == 0 .. n - 1
           f == [i \in Lists!Matching |-> Lists!Place(i)]
<1>1. Lists!IsFiniteSet(Lists!Matching) /\ n \in Nat
  BY RecordsAre, ListCardinalityType
<1>2. Lists!IsFiniteSet(T) /\ Lists!Cardinality(T) = n
  BY <1>1, ListInterval
<1>3. f \in [Lists!Matching -> T]
  BY <1>1, ListPlaces
<1>4. \A i, j \in Lists!Matching : f[i] = f[j] => i = j
  BY ListPlaces
<1>5. f \in Injection(Lists!Matching, T)
  BY <1>3, <1>4 DEF Injection, IsInjective
<1>6. f \in Surjection(Lists!Matching, T)
  <2> HIDE DEF f, T
  <2> QED
    BY <1>2, <1>5, ListInjection
<1>7. \E i \in Lists!Matching : f[i] = k
  <2>1. k \in T
    OBVIOUS
  <2> HIDE DEF f, T
  <2> QED
    BY <1>6, <2>1 DEF Surjection
<1> QED
  BY <1>7

\* So the sorted list holds every record that is found, each at its place.
LEMMA SortedIs ==
    ASSUME Lists!Assumptions, Lists!TypeOK
    PROVE  /\ Lists!Sorted \in Seq(Lists!Index)
           /\ Len(Lists!Sorted) = Lists!Cardinality(Lists!Matching)
           /\ DOMAIN Lists!Sorted = 1 .. Lists!Cardinality(Lists!Matching)
           /\ Lists!Cardinality(Lists!Matching) \in Nat
           /\ \A k \in DOMAIN Lists!Sorted : Lists!Sorted[k] \in Lists!Matching
               /\ Lists!Place(Lists!Sorted[k]) = k - 1
           /\ \A i \in Lists!Matching : Lists!Place(i) + 1 \in DOMAIN Lists!Sorted
               /\ Lists!Sorted[Lists!Place(i) + 1] = i
<1> DEFINE n == Lists!Cardinality(Lists!Matching)
<1>1. n \in Nat /\ Lists!Matching \subseteq Lists!Index
  BY RecordsAre, ListCardinalityType DEF Lists!Index
<1>2. DOMAIN Lists!Sorted = 1 .. n
  BY DEF Lists!Sorted
<1>3. ASSUME NEW k \in 1 .. n
      PROVE  Lists!Sorted[k] \in Lists!Matching /\ Lists!Place(Lists!Sorted[k]) = k - 1
  <2>1. Lists!Sorted[k] = CHOOSE i \in Lists!Matching : Lists!Place(i) = k - 1
    BY DEF Lists!Sorted
  <2>2. \E i \in Lists!Matching : Lists!Place(i) = k - 1
    BY <1>1, PlacesAreTaken
  <2> QED
    BY <2>1, <2>2
<1>4. Lists!Sorted \in [1 .. n -> Lists!Index]
  <2>1. Lists!Sorted = [k \in 1 .. n |-> Lists!Sorted[k]]
    BY DEF Lists!Sorted
  <2>2. \A k \in 1 .. n : Lists!Sorted[k] \in Lists!Index
    BY <1>1, <1>3
  <2> HIDE DEF n
  <2> QED
    BY <2>1, <2>2
<1>5. Lists!Sorted \in Seq(Lists!Index) /\ Len(Lists!Sorted) = n
  <2> HIDE DEF n
  <2> QED
    BY <1>1, <1>4
<1>6. ASSUME NEW i \in Lists!Matching
      PROVE  Lists!Place(i) + 1 \in 1 .. n /\ Lists!Sorted[Lists!Place(i) + 1] = i
  <2>1. Lists!Place(i) \in Nat /\ Lists!Place(i) < n
    BY ListPlaces
  <2> DEFINE k == Lists!Place(i) + 1
  <2>2. k \in 1 .. n
    BY <1>1, <2>1
  <2>3. Lists!Sorted[k] \in Lists!Matching /\ Lists!Place(Lists!Sorted[k]) = k - 1
    <3> HIDE DEF k
    <3> QED
      BY <1>3, <2>2
  <2> QED
    BY <2>1, <2>2, <2>3, ListPlaces
<1> QED
  BY <1>1, <1>2, <1>3, <1>5, <1>6

\* The smaller of two.
LEMMA MinOf ==
    ASSUME NEW m \in Int, NEW n \in Int
    PROVE  Lists!Min({m, n}) = IF m <= n THEN m ELSE n
<1>1. PICK x \in {m, n} : \A y \in {m, n} : x <= y
  OBVIOUS
<1>2. Lists!Min({m, n}) \in {m, n} /\ \A y \in {m, n} : Lists!Min({m, n}) <= y
  BY <1>1 DEF Lists!Min
<1> QED
  BY <1>2

\* A page holds the records of its places.
LEMMA PageIs ==
    ASSUME Lists!Assumptions, Lists!TypeOK
    PROVE  /\ Lists!Page \in Seq(Lists!Index) /\ (page - 1) * PageRows \in Nat
           /\ page * PageRows \in Nat
           /\ page * PageRows = (page - 1) * PageRows + PageRows
           /\ DOMAIN Lists!Page
               = {k \in 1 .. PageRows : (page - 1) * PageRows + k <= Len(Lists!Sorted)}
           /\ \A k \in DOMAIN Lists!Page : Lists!Page[k] = Lists!Sorted[(page - 1) * PageRows + k]
           /\ Lists!ToSet(Lists!Page)
               = {i \in Lists!Matching : (page - 1) * PageRows <= Lists!Place(i)
                 /\ Lists!Place(i) < page * PageRows}
<1> DEFINE skip == (page - 1) * PageRows
           n == Len(Lists!Sorted)
           m == Lists!Min({PageRows, Lists!MaxZero(n - skip)})
<1>1. PageRows \in Nat \ {0} /\ page \in Nat \ {0}
  BY DEF Lists!Assumptions, Lists!TypeOK
<1>2. skip \in Nat /\ page * PageRows \in Nat /\ page * PageRows = skip + PageRows
  <2>1. PICK p \in Nat : page = p + 1
    BY <1>1
  <2>2. (p + 1) * PageRows = p * PageRows + PageRows
    BY <1>1
  <2> QED
    BY <1>1, <2>1, <2>2
<1>3. n \in Nat /\ n = Lists!Cardinality(Lists!Matching)
  BY SortedIs
<1>4. Lists!Page = [k \in 1 .. m |-> Lists!Sorted[skip + k]]
  BY DEF Lists!Page, Lists!RowsFrom
<1> HIDE DEF skip, n
<1>5. Lists!MaxZero(n - skip) = IF n < skip THEN 0 ELSE n - skip
  BY <1>2, <1>3 DEF Lists!MaxZero
<1>6. m \in Nat /\ m = IF n < skip THEN 0 ELSE IF n - skip <= PageRows THEN n - skip ELSE PageRows
  BY <1>1, <1>2, <1>3, <1>5, MinOf
<1> HIDE DEF m
<1>7. 1 .. m = {k \in 1 .. PageRows : skip + k <= n}
  BY <1>1, <1>2, <1>3, <1>6
<1>8. \A k \in 1 .. m : skip + k \in 1 .. n
  BY <1>1, <1>2, <1>3, <1>6
<1>9. DOMAIN Lists!Page = 1 .. m /\ \A k \in 1 .. m : Lists!Page[k] = Lists!Sorted[skip + k]
  BY <1>4
<1>10. \A k \in 1 .. m : Lists!Page[k] \in Lists!Matching /\ Lists!Place(Lists!Page[k]) = skip + k - 1
  <2> TAKE k \in 1 .. m
  <2> DEFINE l == skip + k
  <2>1. l \in 1 .. n /\ Lists!Page[k] = Lists!Sorted[l]
    BY <1>8, <1>9
  <2> HIDE DEF l
  <2>2. Lists!Sorted[l] \in Lists!Matching /\ Lists!Place(Lists!Sorted[l]) = l - 1
    BY <1>3, <2>1, SortedIs
  <2>3. Lists!Place(Lists!Page[k]) = l - 1 /\ Lists!Page[k] \in Lists!Matching
    BY <2>1, <2>2
  <2> QED
    BY <1>2, <1>6, <2>3 DEF l
<1>11. Lists!Matching \subseteq Lists!Index
  BY RecordsAre DEF Lists!Index
<1>12. Lists!Page \in Seq(Lists!Index)
  <2>1. Lists!Page \in [1 .. m -> Lists!Index]
    BY <1>4, <1>9, <1>10, <1>11
  <2> QED
    BY <1>6, <2>1
<1>13. Lists!ToSet(Lists!Page) = {Lists!Page[k] : k \in 1 .. m}
  BY <1>9 DEF Lists!ToSet
<1>14. \A i \in Lists!Matching : /\ Lists!Place(i) \in Nat /\ Lists!Place(i) < n
                           /\ Lists!Sorted[Lists!Place(i) + 1] = i
  BY <1>3, SortedIs, ListPlaces
<1>15. ASSUME NEW i \in Lists!Matching, skip <= Lists!Place(i), Lists!Place(i) < page * PageRows
       PROVE  i \in Lists!ToSet(Lists!Page)
  <2>1. Lists!Place(i) \in Nat /\ Lists!Place(i) < n
    BY <1>14
  <2>2. PICK k \in Int : k = Lists!Place(i) - skip + 1
    BY <1>2, <2>1
  <2>3. k \in 1 .. PageRows /\ skip + k <= n /\ skip + k = Lists!Place(i) + 1
    BY <1>1, <1>2, <1>3, <1>15, <2>1, <2>2
  <2>4. k \in 1 .. m
    BY <1>7, <2>3
  <2>5. Lists!Page[k] = i
    BY <1>9, <1>14, <2>3, <2>4
  <2> QED
    BY <1>13, <2>4, <2>5
<1>16. ASSUME NEW i \in Lists!ToSet(Lists!Page)
       PROVE  i \in Lists!Matching /\ skip <= Lists!Place(i) /\ Lists!Place(i) < page * PageRows
  <2>1. PICK k \in 1 .. m : i = Lists!Page[k]
    BY <1>13
  <2>2. i \in Lists!Matching /\ Lists!Place(i) = skip + k - 1 /\ k \in Int /\ 1 <= k /\ k <= PageRows
    BY <1>10, <1>7, <1>1, <2>1
  <2> QED
    BY <1>1, <1>2, <2>2
<1>17. Lists!ToSet(Lists!Page)
         = {i \in Lists!Matching : skip <= Lists!Place(i) /\ Lists!Place(i) < page * PageRows}
  BY <1>15, <1>16
<1> QED
  BY <1>2, <1>7, <1>9, <1>12, <1>17 DEF skip, n

\* A record of a list.
ListRow == [listed : BOOLEAN, name : ListedNames]

\* The types hold at first,
LEMMA InitTyped == ASSUME Lists!Assumptions, Lists!Init PROVE Lists!TypeOK
<1>1. records \in Seq(ListRow)
  <2>1. PICK m \in 0 .. MaxListed : records \in [1 .. m -> ListRow]
    BY DEF Lists!Init, Lists!SeqOf, ListRow
  <2>2. m \in Nat
    BY DEF Lists!Assumptions
  <2> HIDE DEF ListRow
  <2> QED
    BY <2>1, <2>2
<1>2. seen \in Seq(Lists!Index)
  BY DEF Lists!Init
<1>3. list \in Lists!Lists /\ done \in BOOLEAN
  BY Zenon DEF Lists!Init
<1>4. page \in Nat \ {0} /\ {changes, left, late} \subseteq Nat
  <2>1. page = 1 /\ changes = 0 /\ left = 0 /\ late = 0
    BY DEF Lists!Init
  <2> QED
    BY <2>1
<1>5. total \in Nat \cup {Lists!Unread}
  BY DEF Lists!Init
<1> QED
  BY <1>1, <1>2, <1>3, <1>4, <1>5 DEF Lists!Init, Lists!TypeOK, ListRow

\* A change of one record.
LEMMA RecordChanged ==
    ASSUME Lists!Assumptions, Lists!TypeOK, NEW i \in DOMAIN records, NEW row \in ListRow,
           \A j \in DOMAIN records : j # i => records[j].name # row.name,
           records' = [records EXCEPT ![i] = row]
    PROVE  /\ records' \in Seq(ListRow) /\ DOMAIN records' = DOMAIN records
           /\ \A j, k \in DOMAIN records' : j # k => records'[j].name # records'[k].name
           /\ Lists!Listed' \ {i} = Lists!Listed \ {i}
           /\ \A j \in DOMAIN records : j # i => records'[j] = records[j]
           /\ records'[i] = row
<1>1. records \in Seq(ListRow)
  BY DEF Lists!TypeOK, ListRow
<1> HIDE DEF ListRow
<1>2. records' \in Seq(ListRow) /\ DOMAIN records' = DOMAIN records
      /\ \A j \in DOMAIN records : j # i => records'[j] = records[j]
      /\ records'[i] = row
  BY <1>1
<1>3. Lists!Listed' \ {i} = Lists!Listed \ {i}
  BY <1>2 DEF Lists!Listed
<1>4. \A j, k \in DOMAIN records : j # k => records[j].name # records[k].name
  BY DEF Lists!TypeOK
<1>5. \A j, k \in DOMAIN records' : j # k => records'[j].name # records'[k].name
  BY <1>2, <1>4
<1> QED
  BY <1>2, <1>3, <1>5

\* after a record is made,
LEMMA AddTyped ==
    ASSUME Lists!Assumptions, Lists!TypeOK, NEW name \in ListedNames, Lists!Add(name)
    PROVE  /\ Lists!TypeOK' /\ DOMAIN records' = DOMAIN records \cup {Len(records) + 1}
           /\ Len(records) + 1 \notin DOMAIN records
           /\ Lists!Listed' = Lists!Listed \cup {Len(records) + 1}
           /\ \A j \in DOMAIN records : records'[j] = records[j]
<1> DEFINE row == [listed |-> TRUE, name |-> name]
<1>1. records \in Seq(ListRow) /\ row \in ListRow /\ records' = Append(records, row)
  BY DEF Lists!TypeOK, ListRow, Lists!Add
<1>2. DOMAIN records = 1 .. Len(records) /\ Len(records) \in Nat
  BY RecordsAre
<1>3. records' \in Seq(ListRow) /\ DOMAIN records' = DOMAIN records \cup {Len(records) + 1}
      /\ records'[Len(records) + 1] = row
      /\ Len(records) + 1 \notin DOMAIN records
      /\ \A j \in DOMAIN records : records'[j] = records[j]
  <2> HIDE DEF row, ListRow
  <2> QED
    BY <1>1, <1>2
<1>4. \A j, k \in DOMAIN records' : j # k => records'[j].name # records'[k].name
  <2>1. \A j, k \in DOMAIN records : j # k => records[j].name # records[k].name
    BY DEF Lists!TypeOK
  <2>2. \A j \in DOMAIN records : records[j].name # name
    BY DEF Lists!Add
  <2> QED
    BY <1>3, <2>1, <2>2
<1>5. Lists!Listed' = Lists!Listed \cup {Len(records) + 1}
  BY <1>3 DEF Lists!Listed
<1>6. {changes, left, late} \subseteq Nat
  BY DEF Lists!TypeOK
<1>7. changes' = changes + 1 /\ left' = left /\ late' \in {late, late + 1} /\ stayed' = stayed
      /\ UNCHANGED <<list, ids, page, total, rows, seen, done>>
  BY DEF Lists!Add, Lists!Changes, Lists!Arrived
<1>8. {changes, left, late}' \subseteq Nat
  BY <1>6, <1>7
<1>9. stayed' \subseteq Lists!Listed'
  BY <1>5, <1>7 DEF Lists!TypeOK
<1>10. ids' = Lists!NoIds \/ (list \in Lists!SearchesIds /\ stayed' \subseteq ids'
         /\ ids' \subseteq DOMAIN records')
  BY <1>3, <1>7 DEF Lists!TypeOK
<1> QED
  BY <1>3, <1>4, <1>5, <1>7, <1>8, <1>9, <1>10 DEF Lists!TypeOK, ListRow

\* is listed,
LEMMA ShowTyped ==
    ASSUME Lists!Assumptions, Lists!TypeOK, NEW i \in DOMAIN records, Lists!Show(i)
    PROVE  /\ Lists!TypeOK' /\ DOMAIN records' = DOMAIN records
           /\ i \notin Lists!Listed /\ Lists!Listed' = Lists!Listed \cup {i}
           /\ \A j \in DOMAIN records : records'[j].name = records[j].name
<1> DEFINE row == [records[i] EXCEPT !.listed = TRUE]
<1>1. records[i] \in ListRow
  BY RecordsAre DEF ListRow
<1>2. row \in ListRow /\ row.name = records[i].name
  BY <1>1 DEF ListRow
<1>12. row.listed = TRUE
  BY <1>1 DEF ListRow
<1>3. records' = [records EXCEPT ![i] = row]
  BY DEF Lists!Show
<1>4. \A j \in DOMAIN records : j # i => records[j].name # row.name
  BY <1>2 DEF Lists!TypeOK
<1> HIDE DEF row
<1>5. /\ records' \in Seq(ListRow) /\ DOMAIN records' = DOMAIN records
      /\ \A j, k \in DOMAIN records' : j # k => records'[j].name # records'[k].name
      /\ Lists!Listed' \ {i} = Lists!Listed \ {i}
      /\ \A j \in DOMAIN records : j # i => records'[j] = records[j]
      /\ records'[i] = row
  BY <1>2, <1>3, <1>4, RecordChanged
<1>6. {changes, left, late} \subseteq Nat
  BY DEF Lists!TypeOK
<1>7. changes' = changes + 1 /\ left' = left /\ late' \in {late, late + 1} /\ stayed' = stayed
      /\ UNCHANGED <<list, ids, page, total, rows, seen, done>> /\ i \notin Lists!Listed
  BY DEF Lists!Show, Lists!Changes, Lists!Arrived
<1>8. {changes, left, late}' \subseteq Nat
  BY <1>6, <1>7
<1>9. Lists!Listed' = Lists!Listed \cup {i}
  <2>1. i \in Lists!Listed'
    BY <1>12, <1>5 DEF Lists!Listed
  <2> QED
    BY <1>5, <2>1
<1>10. stayed' \subseteq Lists!Listed'
  BY <1>7, <1>9 DEF Lists!TypeOK
<1>11. \A j \in DOMAIN records : records'[j].name = records[j].name
  BY <1>2, <1>5
<1> QED
  BY <1>5, <1>7, <1>8, <1>9, <1>10, <1>11 DEF Lists!TypeOK, ListRow

\* is hidden
LEMMA HideTyped ==
    ASSUME Lists!Assumptions, Lists!TypeOK, NEW i \in DOMAIN records, Lists!Hide(i)
    PROVE  /\ Lists!TypeOK' /\ DOMAIN records' = DOMAIN records
           /\ i \in Lists!Listed /\ Lists!Listed' = Lists!Listed \ {i}
           /\ \A j \in DOMAIN records : records'[j].name = records[j].name
<1> DEFINE row == [records[i] EXCEPT !.listed = FALSE]
<1>1. records[i] \in ListRow
  BY RecordsAre DEF ListRow
<1>2. row \in ListRow /\ row.name = records[i].name /\ row.listed = FALSE
  BY <1>1 DEF ListRow
<1>3. records' = [records EXCEPT ![i] = row]
  BY DEF Lists!Hide
<1>4. \A j \in DOMAIN records : j # i => records[j].name # row.name
  BY <1>2 DEF Lists!TypeOK
<1> HIDE DEF row
<1>5. /\ records' \in Seq(ListRow) /\ DOMAIN records' = DOMAIN records
      /\ \A j, k \in DOMAIN records' : j # k => records'[j].name # records'[k].name
      /\ Lists!Listed' \ {i} = Lists!Listed \ {i}
      /\ \A j \in DOMAIN records : j # i => records'[j] = records[j]
      /\ records'[i] = row
  BY <1>2, <1>3, <1>4, RecordChanged
<1>6. {changes, left, late} \subseteq Nat
  BY DEF Lists!TypeOK
<1>7. changes' = changes + 1 /\ left' = left + 1 /\ late' = late /\ stayed' = stayed \ {i}
      /\ UNCHANGED <<list, ids, page, total, rows, seen, done>> /\ i \in Lists!Listed
  BY DEF Lists!Hide, Lists!Changes
<1>8. {changes, left, late}' \subseteq Nat
  BY <1>6, <1>7
<1>9. Lists!Listed' = Lists!Listed \ {i}
  <2>1. i \notin Lists!Listed'
    BY <1>2, <1>5 DEF Lists!Listed
  <2> QED
    BY <1>5, <2>1
<1>10. stayed' \subseteq Lists!Listed'
  BY <1>7, <1>9 DEF Lists!TypeOK
<1>11. \A j \in DOMAIN records : records'[j].name = records[j].name
  BY <1>2, <1>5
<1> QED
  BY <1>5, <1>7, <1>8, <1>9, <1>10, <1>11 DEF Lists!TypeOK, ListRow

\* or renamed,
LEMMA RenameTyped ==
    ASSUME Lists!Assumptions, Lists!TypeOK, NEW i \in DOMAIN records, NEW name \in ListedNames,
           Lists!Rename(i, name)
    PROVE  /\ Lists!TypeOK' /\ DOMAIN records' = DOMAIN records /\ Lists!Listed' = Lists!Listed
           /\ \A j \in DOMAIN records : j # i => records'[j] = records[j]
<1> DEFINE row == [records[i] EXCEPT !.name = name]
<1>1. records[i] \in ListRow
  BY RecordsAre DEF ListRow
<1>2. row \in ListRow /\ row.name = name /\ row.listed = records[i].listed
  BY <1>1 DEF ListRow
<1>3. records' = [records EXCEPT ![i] = row]
  BY DEF Lists!Rename
<1>4. \A j \in DOMAIN records : j # i => records[j].name # row.name
  BY <1>2 DEF Lists!Rename
<1> HIDE DEF row
<1>5. /\ records' \in Seq(ListRow) /\ DOMAIN records' = DOMAIN records
      /\ \A j, k \in DOMAIN records' : j # k => records'[j].name # records'[k].name
      /\ Lists!Listed' \ {i} = Lists!Listed \ {i}
      /\ \A j \in DOMAIN records : j # i => records'[j] = records[j]
      /\ records'[i] = row
  BY <1>2, <1>3, <1>4, RecordChanged
<1>6. {changes, left, late} \subseteq Nat
  BY DEF Lists!TypeOK
<1>7. changes' = changes + 1 /\ left' = left + 1 /\ late' \in {late, late + 1} /\ stayed' = stayed
      /\ UNCHANGED <<list, ids, page, total, rows, seen, done>> /\ i \in Lists!Listed
  BY DEF Lists!Rename, Lists!Changes, Lists!Arrived
<1>8. {changes, left, late}' \subseteq Nat
  BY <1>6, <1>7
<1>9. Lists!Listed' = Lists!Listed
  BY <1>2, <1>5, <1>7 DEF Lists!Listed
<1>10. stayed' \subseteq Lists!Listed'
  BY <1>7, <1>9 DEF Lists!TypeOK
<1> QED
  BY <1>5, <1>7, <1>8, <1>9, <1>10 DEF Lists!TypeOK, ListRow

\* after each query and at the end of a page;
LEMMA ReadsTyped ==
    ASSUME Lists!Assumptions, Lists!TypeOK,
           Lists!ReadIds \/ Lists!ReadTotal \/ Lists!ReadRows \/ Lists!Turn
    PROVE  Lists!TypeOK'
<1>1. UNCHANGED <<list, records, changes, stayed, left, late>>
  BY DEF Lists!ReadIds, Lists!ReadTotal, Lists!ReadRows, Lists!Turn
<1>2. Lists!Listed' = Lists!Listed
  BY <1>1 DEF Lists!Listed
<1>3. CASE Lists!ReadIds
  BY <1>1, <1>2, <1>3, RecordsAre DEF Lists!TypeOK, Lists!ReadIds
<1>4. CASE Lists!ReadTotal
  <2>1. total' \in Nat
    BY <1>4, RecordsAre, ListCardinalityType DEF Lists!ReadTotal
  <2> QED
    BY <1>1, <1>2, <1>4, <2>1 DEF Lists!TypeOK, Lists!ReadTotal
<1>5. CASE Lists!ReadRows
  <2>1. rows' \in Seq(Lists!Index)
    BY <1>5, PageIs DEF Lists!ReadRows
  <2> QED
    BY <1>1, <1>2, <1>5, <2>1 DEF Lists!TypeOK, Lists!ReadRows
<1>6. CASE Lists!Turn
  <2>1. seen' \in Seq(Lists!Index)
    <3>1. seen \in Seq(Lists!Index) /\ rows \in Seq(Lists!Index)
      BY <1>6 DEF Lists!TypeOK, Lists!Turn
    <3> QED
      BY <1>6, <3>1 DEF Lists!Turn
  <2>2. total' = Lists!Unread /\ rows' = Lists!NotRead /\ ids' = Lists!NoIds
    BY <1>6 DEF Lists!Turn
  <2>3. done' \in BOOLEAN
    <3>1. done \in BOOLEAN
      BY DEF Lists!TypeOK
    <3> QED
      BY Zenon, <1>6, <3>1 DEF Lists!Turn
  <2>4. page' \in Nat \ {0}
    <3>1. page \in Nat \ {0} /\ page' \in {page, page + 1}
      BY <1>6 DEF Lists!Turn, Lists!TypeOK
    <3> QED
      BY <3>1
  <2> QED
    BY <1>1, <1>2, <2>1, <2>2, <2>3, <2>4 DEF Lists!TypeOK
<1> QED
  BY <1>3, <1>4, <1>5, <1>6

\* hence after every step.
LEMMA StepTyped ==
    ASSUME Lists!Assumptions, Lists!TypeOK, [Lists!Next]_(Lists!vars)
    PROVE  Lists!TypeOK'
<1>1. CASE UNCHANGED Lists!vars
  BY <1>1 DEF Lists!TypeOK, Lists!vars, Lists!Listed
<1>2. CASE Lists!ReadIds \/ Lists!ReadTotal \/ Lists!ReadRows \/ Lists!Turn
  BY <1>2, ReadsTyped
<1>3. CASE \E name \in ListedNames : Lists!Add(name)
  BY <1>3, AddTyped
<1>4. CASE \E i \in DOMAIN records : Lists!Show(i) \/ Lists!Hide(i)
  BY <1>4, ShowTyped, HideTyped
<1>5. CASE \E i \in DOMAIN records, name \in ListedNames : Lists!Rename(i, name)
  BY <1>5, RenameTyped
<1> QED
  BY <1>1, <1>2, <1>3, <1>4, <1>5 DEF Lists!Next

\* What is finite, and what is a natural number.
Bounds ==
    /\ Lists!IsFiniteSet(Lists!Matching) /\ Lists!Cardinality(Lists!Matching) \in Nat
    /\ stayed \subseteq Lists!Matching /\ Lists!IsFiniteSet(stayed)
    /\ Lists!Matching \subseteq DOMAIN records
    /\ Lists!IsFiniteSet(Lists!Missed) /\ Lists!Cardinality(Lists!Missed) \in Nat
    /\ Lists!Reach \in Nat /\ Lists!Beyond \in Nat
    /\ \A i : Lists!Place(i) \in Nat
    /\ \A i \in Lists!Matching : Lists!Place(i) < Lists!Cardinality(Lists!Matching)
    /\ \A i, j \in Lists!Matching : i # j => Lists!Place(i) # Lists!Place(j)

\* They are true in every state and in the next.
LEMMA BoundsHold == Lists!TypeOK => (Lists!Assumptions => Bounds)
<1> SUFFICES ASSUME Lists!Assumptions, Lists!TypeOK
             PROVE  Bounds
  OBVIOUS
<1>1. /\ Lists!IsFiniteSet(Lists!Matching) /\ Lists!Cardinality(Lists!Matching) \in Nat
      /\ stayed \subseteq Lists!Matching /\ Lists!IsFiniteSet(stayed)
      /\ Lists!Matching \subseteq DOMAIN records
  BY RecordsAre, ListCardinalityType
<1>2. Lists!IsFiniteSet(Lists!Missed) /\ Lists!Cardinality(Lists!Missed) \in Nat
  BY <1>1, NoMore DEF Lists!Missed
<1>3. Lists!Reach \in Nat
  BY PageIs DEF Lists!Reach
<1>4. Lists!Beyond \in Nat
  BY <1>1 DEF Lists!Beyond, Lists!MaxZero, Lists!TypeOK, Lists!Unread
<1> QED
  BY <1>1, <1>2, <1>3, <1>4, ListPlaces DEF Bounds

LEMMA BoundsKeep == Lists!TypeOK' => (Lists!Assumptions => Bounds)'
BY BoundsHold, PTL

\* Rows that were read are not those that stand for none.
LEMMA NothingIsRead ==
    ASSUME Lists!Assumptions, Lists!TypeOK
    PROVE  /\ rows = Lists!NotRead \/ rows \in Seq(Lists!Index)
           /\ Lists!NotRead \notin Seq(Lists!Index)
<1>1. Lists!NotRead \notin Seq(Lists!Index)
  <2>1. Len(Lists!NotRead) = 1 /\ Lists!NotRead[1] = 0
    BY DEF Lists!NotRead
  <2>2. 0 \notin Lists!Index
    BY DEF Lists!Index
  <2>3. ASSUME Lists!NotRead \in Seq(Lists!Index)
        PROVE  Lists!NotRead[1] \in Lists!Index
    BY <2>1, <2>3
  <2> QED
    BY <2>1, <2>2, <2>3
<1> QED
  BY <1>1 DEF Lists!TypeOK

\* At first nothing is missed.
LEMMA InitAccounted == ASSUME Lists!Assumptions, Lists!Init PROVE Lists!AllAccounted
<1>1. Bounds
  BY InitTyped, BoundsHold
<1>2. Lists!Reach = 0
  <2>1. page = 1 /\ rows = Lists!NotRead
    BY DEF Lists!Init
  <2>2. PageRows \in Nat
    BY DEF Lists!Assumptions
  <2> QED
    BY <2>1, <2>2 DEF Lists!Reach
<1>3. Lists!Missed = {}
  BY <1>1, <1>2 DEF Lists!Missed, Bounds
<1>4. Lists!Cardinality(Lists!Missed) = 0
  BY <1>3, ListEmptySet
<1>5. Lists!Beyond = 0 /\ ~done /\ left = 0 /\ late = 0
  BY DEF Lists!Init, Lists!Beyond
<1> QED
  BY <1>4, <1>5 DEF Lists!AllAccounted

\* Fewer that are missed, and no more beyond.
LEMMA FewerMissed ==
    ASSUME Lists!Assumptions, Lists!TypeOK, Lists!TypeOK', Lists!AllAccounted, ~done, ~done',
           Lists!Missed' \subseteq Lists!Missed, Lists!Beyond' <= Lists!Beyond, left' = left,
           late' = late
    PROVE  Lists!AllAccounted'
<1>1. Bounds /\ Bounds'
  BY BoundsHold, BoundsKeep
<1>2. Lists!Cardinality(Lists!Missed') <= Lists!Cardinality(Lists!Missed)
        /\ Lists!Cardinality(Lists!Missed') \in Nat
  BY <1>1, NoMore DEF Bounds
<1>3. Lists!Cardinality(Lists!Missed) + Lists!Beyond <= left + late
  BY DEF Lists!AllAccounted
<1>4. {left, late} \subseteq Nat
  BY DEF Lists!TypeOK
<1>5. Lists!Cardinality(Lists!Missed') + Lists!Beyond' <= left' + late'
  BY <1>1, <1>2, <1>3, <1>4 DEF Bounds
<1> QED
  BY <1>5 DEF Lists!AllAccounted

\* While no record changes all keep their places.
LEMMA SamePlaces ==
    ASSUME UNCHANGED <<list, records>>
    PROVE  /\ Lists!Listed' = Lists!Listed
           /\ \A i, j : Lists!Before(i, j)' = Lists!Before(i, j)
           /\ Lists!Matching' = Lists!Matching => \A i : Lists!Place(i)' = Lists!Place(i)
<1>1. Lists!Listed' = Lists!Listed
  BY DEF Lists!Listed
<1>2. \A i, j : Lists!Before(i, j)' = Lists!Before(i, j)
  BY Zenon DEF Lists!Before, Lists!ByName
<1>3. ASSUME Lists!Matching' = Lists!Matching, NEW i
      PROVE  Lists!Place(i)' = Lists!Place(i)
  <2>1. {j \in Lists!Matching : Lists!Before(j, i)}' = {j \in Lists!Matching : Lists!Before(j, i)}
    BY Zenon, <1>2, <1>3
  <2> QED
    BY <2>1 DEF Lists!Place
<1> QED
  BY <1>1, <1>2, <1>3

\* The queries of a page.
LEMMA ReadsAccounted ==
    ASSUME Lists!Assumptions, Lists!TypeOK, Lists!TypeOK', Lists!AllAccounted,
           Lists!ReadIds \/ Lists!ReadTotal \/ Lists!ReadRows
    PROVE  Lists!AllAccounted'
<1>1. Bounds /\ Bounds'
  BY BoundsHold, BoundsKeep
<1>2. /\ UNCHANGED <<list, records, page, seen, done, changes, stayed, left, late>>
      /\ ~done /\ ~done'
  BY DEF Lists!ReadIds, Lists!ReadTotal, Lists!ReadRows
<1>3. Lists!Matching' = Lists!Matching
  <2>1. Lists!Listed' = Lists!Listed
    BY <1>2 DEF Lists!Listed
  <2> QED
    BY <2>1, <1>2 DEF Lists!Matching, Lists!ReadIds, Lists!ReadTotal, Lists!ReadRows
<1>4. \A i : Lists!Place(i)' = Lists!Place(i)
  BY <1>2, <1>3, SamePlaces
<1>5. CASE Lists!ReadIds
  <2>1. UNCHANGED <<total, rows>>
    BY <1>5 DEF Lists!ReadIds
  <2>2. Lists!Beyond' = Lists!Beyond /\ Lists!Missed' = Lists!Missed
    BY <1>2, <1>3, <1>4, <2>1 DEF Lists!Beyond, Lists!Missed, Lists!Read, Lists!Reach
  <2> QED
    BY <1>1, <1>2, <2>2, FewerMissed DEF Bounds
<1>6. CASE Lists!ReadTotal
  <2>1. UNCHANGED rows /\ total' = Lists!Cardinality(Lists!Matching)
    BY <1>6 DEF Lists!ReadTotal
  <2>2. Lists!Missed' = Lists!Missed
    BY <1>2, <1>3, <1>4, <2>1 DEF Lists!Missed, Lists!Read, Lists!Reach
  <2>3. Lists!Beyond' = 0
    BY <1>1, <1>3, <2>1 DEF Lists!Beyond, Bounds, Lists!MaxZero
  <2> QED
    BY <1>1, <1>2, <2>2, <2>3, FewerMissed DEF Bounds
<1>7. CASE Lists!ReadRows
  <2>1. UNCHANGED total /\ rows' = Lists!Page /\ rows = Lists!NotRead
    BY <1>7 DEF Lists!ReadRows
  <2>2. Lists!Beyond' = Lists!Beyond
    BY <1>3, <2>1 DEF Lists!Beyond
  <2>3. /\ Lists!ToSet(Lists!Page)
            = {i \in Lists!Matching : (page - 1) * PageRows <= Lists!Place(i)
              /\ Lists!Place(i) < page * PageRows}
        /\ Lists!Page \in Seq(Lists!Index) /\ (page - 1) * PageRows \in Nat /\ page * PageRows \in Nat
    BY PageIs
  <2>4. rows' # Lists!NotRead
    BY <2>1, <2>3, NothingIsRead
  <2>5. Lists!Read' = Lists!ToSet(seen) \cup Lists!ToSet(Lists!Page) /\ Lists!Read = Lists!ToSet(seen)
    BY <1>2, <2>1, <2>4 DEF Lists!Read
  <2>6. Lists!Reach' = page * PageRows /\ Lists!Reach = (page - 1) * PageRows
    BY <1>2, <2>1, <2>4 DEF Lists!Reach
  <2>7. ASSUME NEW i \in Lists!Missed'
        PROVE  i \in Lists!Missed
    <3>1. i \in stayed /\ i \notin Lists!ToSet(seen) /\ i \notin Lists!ToSet(Lists!Page)
            /\ Lists!Place(i) < page * PageRows
      BY <1>2, <1>4, <2>5, <2>6 DEF Lists!Missed
    <3>2. i \in Lists!Matching /\ Lists!Place(i) \in Nat
      BY <1>1, <3>1 DEF Bounds
    <3>3. Lists!Place(i) < (page - 1) * PageRows
      BY <2>3, <3>1, <3>2
    <3> QED
      BY <2>5, <2>6, <3>1, <3>3 DEF Lists!Missed
  <2>8. Lists!Missed' \subseteq Lists!Missed
    BY <2>7
  <2> QED
    BY <1>1, <1>2, <2>2, <2>8, FewerMissed DEF Bounds
<1> QED
  BY <1>5, <1>6, <1>7

\* At most as many come after the first ones as there are more than those.
LEMMA FewAfter ==
    ASSUME Lists!Assumptions, Lists!TypeOK, NEW r \in Nat
    PROVE  /\ Lists!IsFiniteSet({i \in Lists!Matching : Lists!Place(i) >= r})
           /\ Lists!Cardinality({i \in Lists!Matching : Lists!Place(i) >= r}) \in Nat
           /\ Lists!Cardinality({i \in Lists!Matching : Lists!Place(i) >= r})
               <= Lists!MaxZero(Lists!Cardinality(Lists!Matching) - r)
<1> DEFINE S == {i \in Lists!Matching : Lists!Place(i) >= r}
           n == Lists!Cardinality(Lists!Matching)
           T == r .. n - 1
           f == [i \in S |-> Lists!Place(i)]
<1>1. Bounds
  BY BoundsHold
<1>2. Lists!IsFiniteSet(S) /\ Lists!Cardinality(S) \in Nat
  BY <1>1, NoMore DEF Bounds
<1>3. n \in Nat
  BY <1>1 DEF Bounds
<1>4. Lists!IsFiniteSet(T) /\ Lists!Cardinality(T) = IF r > n - 1 THEN 0 ELSE n - 1 - r + 1
  <2>1. r \in Int /\ n - 1 \in Int
    BY <1>3
  <2> HIDE DEF n
  <2> QED
    BY <1>3, <2>1, ListInterval
<1>5. f \in [S -> T]
  BY <1>1 DEF Bounds
<1>6. \A i, j \in S : f[i] = f[j] => i = j
  BY <1>1 DEF Bounds
<1> HIDE DEF f, S, T
<1>7. f \in Injection(S, T)
  BY <1>5, <1>6 DEF Injection, IsInjective
<1>8. Lists!Cardinality(S) <= Lists!Cardinality(T)
  BY <1>2, <1>4, <1>7, ListInjection
<1>9. Lists!Cardinality(T) = Lists!MaxZero(n - r)
  BY <1>3, <1>4 DEF Lists!MaxZero
<1> QED
  BY <1>2, <1>8, <1>9 DEF S

\* Two finite sets.
LEMMA UnionIsAsMany ==
    ASSUME NEW S, Lists!IsFiniteSet(S), NEW T, Lists!IsFiniteSet(T), NEW U, U \subseteq S \cup T
    PROVE  Lists!Cardinality(U) <= Lists!Cardinality(S) + Lists!Cardinality(T)
             /\ Lists!Cardinality(U) \in Nat
<1>1. Lists!IsFiniteSet(S \cup T)
  BY ListUnion
<1>2. Lists!Cardinality(S \cup T)
        = Lists!Cardinality(S) + Lists!Cardinality(T) - Lists!Cardinality(S \cap T)
  BY ListUnion
<1>3. Lists!Cardinality(S \cap T) \in Nat /\ Lists!Cardinality(S) \in Nat
        /\ Lists!Cardinality(T) \in Nat
  <2>1. Lists!IsFiniteSet(S \cap T)
    BY ListSubset
  <2> QED
    BY <2>1, ListCardinalityType
<1>4. Lists!Cardinality(U) <= Lists!Cardinality(S \cup T) /\ Lists!Cardinality(U) \in Nat
  BY <1>1, NoMore
<1>5. Lists!Cardinality(S \cup T) \in Nat
  BY <1>1, ListCardinalityType
<1> QED
  BY <1>2, <1>3, <1>4, <1>5

\* At the end of the last page those beyond the total are missed too.
LEMMA TurnAccounted ==
    ASSUME Lists!Assumptions, Lists!TypeOK, Lists!TypeOK', Lists!AllAccounted, Lists!Turn
    PROVE  Lists!AllAccounted'
<1>1. Bounds /\ Bounds'
  BY BoundsHold, BoundsKeep
<1>2. /\ UNCHANGED <<list, records, changes, stayed, left, late>>
      /\ ~done /\ total # Lists!Unread /\ rows # Lists!NotRead
      /\ seen' = seen \o rows /\ total' = Lists!Unread /\ rows' = Lists!NotRead /\ ids' = Lists!NoIds
  BY DEF Lists!Turn
<1>3. /\ \A i, j : Lists!Before(i, j)' = Lists!Before(i, j)
      /\ Lists!Matching' = Lists!Listed /\ Lists!Matching \subseteq Lists!Listed
  BY <1>2, SamePlaces DEF Lists!Matching
<1>4. \A i : Lists!Place(i)' \in Nat /\ Lists!Place(i) \in Nat /\ Lists!Place(i)' >= Lists!Place(i)
  <2> TAKE i
  <2> DEFINE S == {j \in Lists!Matching : Lists!Before(j, i)}
             T == {j \in Lists!Matching' : Lists!Before(j, i)'}
  <2>1. S \subseteq T
    BY <1>3
  <2>2. Lists!IsFiniteSet(T)
    BY <1>1, NoMore DEF Bounds
  <2>3. Lists!Place(i) = Lists!Cardinality(S) /\ Lists!Place(i)' = Lists!Cardinality(T)
    BY DEF Lists!Place
  <2> HIDE DEF S, T
  <2> QED
    BY <2>1, <2>2, <2>3, NoMore
<1>5. Lists!ToSet(seen') = Lists!ToSet(seen) \cup Lists!ToSet(rows)
  <2>1. seen \in Seq(Lists!Index) /\ rows \in Seq(Lists!Index)
    BY <1>2 DEF Lists!TypeOK
  <2>2. /\ DOMAIN (seen \o rows) = 1 .. Len(seen) + Len(rows)
        /\ Len(seen) \in Nat /\ Len(rows) \in Nat
        /\ \A k \in 1 .. Len(seen) : (seen \o rows)[k] = seen[k]
        /\ \A k \in 1 .. Len(rows) : (seen \o rows)[Len(seen) + k] = rows[k]
        /\ DOMAIN seen = 1 .. Len(seen) /\ DOMAIN rows = 1 .. Len(rows)
    BY <2>1
  <2>3. Lists!ToSet(seen \o rows) \subseteq Lists!ToSet(seen) \cup Lists!ToSet(rows)
    <3> SUFFICES ASSUME NEW k \in 1 .. Len(seen) + Len(rows)
                 PROVE  (seen \o rows)[k] \in Lists!ToSet(seen) \cup Lists!ToSet(rows)
      BY <2>2 DEF Lists!ToSet
    <3>1. CASE k <= Len(seen)
      BY <2>2, <3>1 DEF Lists!ToSet
    <3>2. CASE k > Len(seen)
      <4>1. PICK l \in 1 .. Len(rows) : k = Len(seen) + l
        <5>1. k - Len(seen) \in 1 .. Len(rows) /\ k = Len(seen) + (k - Len(seen))
          BY <2>2, <3>2
        <5> QED
          BY <5>1
      <4> QED
        BY <2>2, <4>1 DEF Lists!ToSet
    <3> QED
      BY <2>2, <3>1, <3>2
  <2>4. Lists!ToSet(seen) \cup Lists!ToSet(rows) \subseteq Lists!ToSet(seen \o rows)
    <3>1. \A k \in 1 .. Len(seen) : k \in 1 .. Len(seen) + Len(rows)
      BY <2>2
    <3>2. \A k \in 1 .. Len(rows) : Len(seen) + k \in 1 .. Len(seen) + Len(rows)
      BY <2>2
    <3>3. \A k \in 1 .. Len(seen) : seen[k] \in Lists!ToSet(seen \o rows)
      BY <2>2, <3>1 DEF Lists!ToSet
    <3>4. \A k \in 1 .. Len(rows) : rows[k] \in Lists!ToSet(seen \o rows)
      BY <2>2, <3>2 DEF Lists!ToSet
    <3> QED
      BY <2>2, <3>3, <3>4 DEF Lists!ToSet
  <2> QED
    BY <1>2, <2>3, <2>4
<1>6. Lists!Read = Lists!ToSet(seen') /\ Lists!Read' = Lists!ToSet(seen')
        /\ Lists!Reach = page * PageRows
  BY <1>2, <1>5 DEF Lists!Read, Lists!Reach
<1>7. /\ PageRows \in Nat \ {0} /\ page \in Nat \ {0} /\ total \in Nat /\ {left, late} \subseteq Nat
      /\ page * PageRows \in Nat
  BY <1>2, PageIs DEF Lists!Assumptions, Lists!TypeOK
<1>8. CASE page < Lists!TotalPages
  <2>1. page' = page + 1 /\ done' = done
    BY <1>2, <1>8 DEF Lists!Turn
  <2>2. Lists!Reach' = page * PageRows
    <3>1. page' - 1 = page
      BY <2>1, <1>7
    <3> QED
      BY <1>2, <3>1 DEF Lists!Reach
  <2>3. Lists!Beyond' = 0
    BY <1>2 DEF Lists!Beyond
  <2>4. ASSUME NEW i \in Lists!Missed'
        PROVE  i \in Lists!Missed
    <3>1. i \in stayed /\ i \notin Lists!Read /\ Lists!Place(i)' < Lists!Reach
      BY <1>2, <1>6, <2>2 DEF Lists!Missed
    <3>2. Lists!Place(i) < Lists!Reach
      BY <1>1, <1>4, <3>1 DEF Bounds
    <3> QED
      BY <3>1, <3>2 DEF Lists!Missed
  <2>5. Lists!Missed' \subseteq Lists!Missed
    BY <2>4
  <2> QED
    BY <1>1, <1>2, <2>1, <2>3, <2>5, FewerMissed DEF Bounds
<1>9. CASE ~(page < Lists!TotalPages)
  <2>1. done'
    BY <1>2, <1>9 DEF Lists!Turn
  <2>2. total <= page * PageRows
    <3>1. PICK q \in Nat : q = Lists!TotalPages
      BY <1>7 DEF Lists!TotalPages
    <3>2. total + PageRows - 1 < (q + 1) * PageRows
      BY <1>7, <3>1 DEF Lists!TotalPages
    <3>3. (q + 1) * PageRows = q * PageRows + PageRows /\ q * PageRows \in Nat
      BY <1>7, <3>1
    <3>4. q <= page
      BY <1>9, <1>7, <3>1
    <3>5. q * PageRows <= page * PageRows
      BY <1>7, <3>1, <3>4
    <3> QED
      BY <1>7, <3>2, <3>3, <3>5
  <2> DEFINE A == {i \in Lists!Matching : Lists!Place(i) >= page * PageRows}
  <2>3. stayed \ Lists!ToSet(seen') \subseteq Lists!Missed \cup A
    <3> SUFFICES ASSUME NEW i \in stayed, i \notin Lists!Read, i \notin Lists!Missed
                 PROVE  i \in A
      BY <1>6
    <3>1. i \in Lists!Matching /\ Lists!Place(i) \in Nat /\ ~(Lists!Place(i) < page * PageRows)
      BY <1>1, <1>6 DEF Lists!Missed, Bounds
    <3> QED
      BY <1>7, <3>1
  <2>4. /\ Lists!IsFiniteSet(A) /\ Lists!Cardinality(A) \in Nat
        /\ Lists!Cardinality(A) <= Lists!MaxZero(Lists!Cardinality(Lists!Matching) - page * PageRows)
    BY <1>7, FewAfter
  <2> HIDE DEF A
  <2>5. Lists!Beyond = Lists!MaxZero(Lists!Cardinality(Lists!Matching) - total)
    BY <1>2 DEF Lists!Beyond
  <2>6. Lists!MaxZero(Lists!Cardinality(Lists!Matching) - page * PageRows) <= Lists!Beyond
    BY <1>1, <1>7, <2>2, <2>5 DEF Lists!MaxZero, Bounds
  <2>7. /\ Lists!Cardinality(stayed \ Lists!ToSet(seen'))
            <= Lists!Cardinality(Lists!Missed) + Lists!Cardinality(A)
        /\ Lists!Cardinality(stayed \ Lists!ToSet(seen')) \in Nat
    BY <1>1, <2>3, <2>4, UnionIsAsMany DEF Bounds
  <2>8. Lists!Cardinality(Lists!Missed) + Lists!Beyond <= left + late
    BY <1>2 DEF Lists!AllAccounted
  <2>9. Lists!MaxZero(Lists!Cardinality(Lists!Matching) - page * PageRows) \in Int
    BY <1>1, <1>7 DEF Lists!MaxZero, Bounds
  <2>10. Lists!Cardinality(stayed \ Lists!ToSet(seen')) <= left + late
    BY <1>1, <1>7, <2>4, <2>6, <2>7, <2>8, <2>9 DEF Bounds
  <2> QED
    BY <1>2, <2>1, <2>10 DEF Lists!AllAccounted
<1> QED
  BY <1>8, <1>9

\* What every change leaves.
LEMMA ChangesAre ==
    ASSUME Lists!Assumptions, Lists!TypeOK, Lists!Changes
    PROVE  /\ UNCHANGED <<list, ids, page, total, rows, seen, done>> /\ changes' = changes + 1
           /\ ~done /\ ~done' /\ Lists!Read' = Lists!Read /\ Lists!Reach' = Lists!Reach
           /\ {left, late} \subseteq Nat
BY DEF Lists!Changes, Lists!Read, Lists!Reach, Lists!TypeOK

\* Who comes pushes others back, and is beyond the total if that is known.
LEMMA ArrivalAccounted ==
    ASSUME Lists!Assumptions, Lists!TypeOK, Lists!TypeOK', Lists!AllAccounted, Lists!Changes,
           Lists!Arrived, UNCHANGED <<stayed, left>>,
           NEW x, Lists!Matching \subseteq Lists!Matching',
           Lists!Matching' \subseteq Lists!Matching \cup {x},
           \A i, j \in Lists!Matching : Lists!Before(j, i) => Lists!Before(j, i)'
    PROVE  Lists!AllAccounted'
<1>1. Bounds /\ Bounds'
  BY BoundsHold, BoundsKeep
<1>2. /\ UNCHANGED <<list, ids, page, total, rows, seen, done>>
      /\ ~done /\ ~done' /\ Lists!Read' = Lists!Read /\ Lists!Reach' = Lists!Reach
      /\ {left, late} \subseteq Nat
  BY ChangesAre
<1>3. ASSUME NEW i \in Lists!Matching
      PROVE  Lists!Place(i)' >= Lists!Place(i)
  <2> DEFINE S == {j \in Lists!Matching : Lists!Before(j, i)}
             T == {j \in Lists!Matching' : Lists!Before(j, i)'}
  <2>1. S \subseteq T
    BY <1>3
  <2>2. Lists!IsFiniteSet(T)
    BY <1>1, NoMore DEF Bounds
  <2>3. Lists!Place(i) = Lists!Cardinality(S) /\ Lists!Place(i)' = Lists!Cardinality(T)
    BY DEF Lists!Place
  <2> HIDE DEF S, T
  <2> QED
    BY <2>1, <2>2, <2>3, NoMore
<1>4. ASSUME NEW i \in Lists!Missed'
      PROVE  i \in Lists!Missed
  <2>1. i \in stayed /\ i \notin Lists!Read /\ Lists!Place(i)' < Lists!Reach
    BY <1>2 DEF Lists!Missed
  <2>2. i \in Lists!Matching /\ Lists!Place(i)' >= Lists!Place(i)
    BY <1>1, <1>3, <2>1 DEF Bounds
  <2>3. Lists!Place(i) \in Nat /\ Lists!Place(i)' \in Nat /\ Lists!Reach \in Nat
    BY <1>1 DEF Bounds
  <2>4. Lists!Place(i) < Lists!Reach
    BY <2>1, <2>2, <2>3
  <2> QED
    BY <2>1, <2>4 DEF Lists!Missed
<1>5. Lists!Cardinality(Lists!Missed') <= Lists!Cardinality(Lists!Missed)
  <2>1. Lists!Missed' \subseteq Lists!Missed
    BY <1>4
  <2> QED
    BY <1>1, <2>1, NoMore DEF Bounds
<1>6. Lists!Cardinality(Lists!Matching') <= Lists!Cardinality(Lists!Matching) + 1
  BY <1>1, AtMostOneMore DEF Bounds
<1>7. late' = IF Lists!HalfRead THEN late + 1 ELSE late
  BY DEF Lists!Arrived
<1>8. Lists!Beyond' - Lists!Beyond <= late' - late
  <2>1. CASE total = Lists!Unread
    <3>1. Lists!Beyond = 0 /\ Lists!Beyond' = 0
      BY <1>2, <2>1 DEF Lists!Beyond
    <3> QED
      BY <1>2, <1>7, <3>1
  <2>2. CASE total # Lists!Unread
    <3>1. late' = late + 1
      BY <1>7, <2>2 DEF Lists!HalfRead
    <3>2. /\ Lists!Beyond = Lists!MaxZero(Lists!Cardinality(Lists!Matching) - total)
          /\ Lists!Beyond' = Lists!MaxZero(Lists!Cardinality(Lists!Matching') - total)
      BY <1>2, <2>2 DEF Lists!Beyond
    <3>3. total \in Nat /\ Lists!Cardinality(Lists!Matching) \in Nat
            /\ Lists!Cardinality(Lists!Matching') \in Nat
      BY <1>1, <2>2 DEF Lists!TypeOK, Bounds
    <3>4. Lists!Beyond' <= Lists!Beyond + 1 /\ Lists!Beyond \in Int /\ Lists!Beyond' \in Int
      BY <1>6, <3>2, <3>3 DEF Lists!MaxZero
    <3> QED
      BY <1>2, <3>1, <3>4
  <2> QED
    BY <2>1, <2>2
<1>9. Lists!Cardinality(Lists!Missed) + Lists!Beyond <= left + late
  BY <1>2 DEF Lists!AllAccounted
<1>10. /\ Lists!Cardinality(Lists!Missed) \in Nat /\ Lists!Cardinality(Lists!Missed') \in Nat
       /\ Lists!Beyond \in Nat /\ Lists!Beyond' \in Nat /\ left' = left /\ late' \in Nat
  BY <1>1, <1>2, <1>7 DEF Bounds
<1>11. Lists!Cardinality(Lists!Missed') + Lists!Beyond' <= left' + late'
  BY <1>2, <1>5, <1>8, <1>9, <1>10
<1> QED
  BY <1>2, <1>11 DEF Lists!AllAccounted

\* That is what a new record does,
LEMMA AddAccounted ==
    ASSUME Lists!Assumptions, Lists!TypeOK, Lists!AllAccounted, NEW name \in ListedNames,
           Lists!Add(name)
    PROVE  Lists!AllAccounted'
<1> DEFINE x == Len(records) + 1
<1>1. /\ Lists!TypeOK' /\ x \notin DOMAIN records /\ Lists!Listed' = Lists!Listed \cup {x}
      /\ \A j \in DOMAIN records : records'[j] = records[j]
  BY AddTyped
<1> HIDE DEF x
<1>2. Lists!Changes /\ Lists!Arrived /\ UNCHANGED <<stayed, left>>
  BY DEF Lists!Add
<1>3. UNCHANGED <<list, ids>>
  BY <1>2 DEF Lists!Changes
<1>4. Lists!Matching \subseteq Lists!Matching' /\ Lists!Matching' \subseteq Lists!Matching \cup {x}
  BY <1>1, <1>3 DEF Lists!Matching
<1>5. \A i, j \in Lists!Matching : Lists!Before(j, i) => Lists!Before(j, i)'
  <2>1. \A i \in Lists!Matching : records'[i] = records[i]
    BY <1>1, RecordsAre
  <2> QED
    BY <1>3, <2>1 DEF Lists!Before, Lists!ByName
<1> QED
  BY <1>1, <1>2, <1>4, <1>5, ArrivalAccounted

\* and one that is listed.
LEMMA ShowAccounted ==
    ASSUME Lists!Assumptions, Lists!TypeOK, Lists!AllAccounted, NEW i \in DOMAIN records, Lists!Show(i)
    PROVE  Lists!AllAccounted'
<1>1. /\ Lists!TypeOK' /\ i \notin Lists!Listed /\ Lists!Listed' = Lists!Listed \cup {i}
      /\ \A j \in DOMAIN records : records'[j].name = records[j].name
  BY ShowTyped
<1>2. Lists!Changes /\ Lists!Arrived /\ UNCHANGED <<stayed, left>>
  BY DEF Lists!Show
<1>3. UNCHANGED <<list, ids>>
  BY <1>2 DEF Lists!Changes
<1>4. Lists!Matching \subseteq Lists!Matching' /\ Lists!Matching' \subseteq Lists!Matching \cup {i}
  BY <1>1, <1>3 DEF Lists!Matching
<1>5. \A k, j \in Lists!Matching : Lists!Before(j, k) => Lists!Before(j, k)'
  <2>1. \A k \in Lists!Matching : records'[k].name = records[k].name
    BY <1>1, RecordsAre
  <2> QED
    BY <1>3, <2>1 DEF Lists!Before, Lists!ByName
<1> QED
  BY <1>1, <1>2, <1>4, <1>5, ArrivalAccounted

\* One more is missed for one that left or moved.
LEMMA OneMoreMissed ==
    ASSUME Lists!Assumptions, Lists!TypeOK, Lists!TypeOK', Lists!AllAccounted, Lists!Changes,
           left' = left + 1, late' \in {late, late + 1},
           NEW x, Lists!Missed' \subseteq Lists!Missed \cup {x}, Lists!Beyond' <= Lists!Beyond
    PROVE  Lists!AllAccounted'
<1>1. Bounds /\ Bounds'
  BY BoundsHold, BoundsKeep
<1>2. ~done /\ ~done' /\ {left, late} \subseteq Nat
  BY ChangesAre
<1>3. Lists!Cardinality(Lists!Missed') <= Lists!Cardinality(Lists!Missed) + 1
  BY <1>1, AtMostOneMore DEF Bounds
<1>4. Lists!Cardinality(Lists!Missed) + Lists!Beyond <= left + late
  BY <1>2 DEF Lists!AllAccounted
<1>5. /\ Lists!Cardinality(Lists!Missed) \in Nat /\ Lists!Cardinality(Lists!Missed') \in Nat
      /\ Lists!Beyond \in Nat /\ Lists!Beyond' \in Nat
  BY <1>1 DEF Bounds
<1>6. Lists!Cardinality(Lists!Missed') + Lists!Beyond' <= left' + late'
  BY <1>2, <1>3, <1>4, <1>5
<1> QED
  BY <1>2, <1>6 DEF Lists!AllAccounted

\* Only one is at a place.
LEMMA OneAtPlace ==
    ASSUME Lists!Assumptions, Lists!TypeOK
    PROVE  \E x : \A i \in Lists!Matching : Lists!Place(i) = Lists!Reach => i = x
<1>1. \A i, j \in Lists!Matching : i # j => Lists!Place(i) # Lists!Place(j)
  BY ListPlaces
<1>2. CASE \E x \in Lists!Matching : Lists!Place(x) = Lists!Reach
  BY <1>1, <1>2
<1>3. CASE ~ \E x \in Lists!Matching : Lists!Place(x) = Lists!Reach
  BY <1>3
<1> QED
  BY <1>2, <1>3

\* One that leaves lets one of those behind it slip past the reader.
LEMMA HideAccounted ==
    ASSUME Lists!Assumptions, Lists!TypeOK, Lists!AllAccounted, NEW i \in DOMAIN records, Lists!Hide(i)
    PROVE  Lists!AllAccounted'
<1>1. /\ Lists!TypeOK' /\ i \in Lists!Listed /\ Lists!Listed' = Lists!Listed \ {i}
      /\ \A j \in DOMAIN records : records'[j].name = records[j].name
  BY HideTyped
<1>2. Lists!Changes /\ left' = left + 1 /\ late' = late /\ stayed' = stayed \ {i}
  BY DEF Lists!Hide
<1>3. /\ UNCHANGED <<list, ids, page, total, rows, seen, done>>
      /\ Lists!Read' = Lists!Read /\ Lists!Reach' = Lists!Reach
  BY <1>2, ChangesAre
<1>4. Lists!Matching' = Lists!Matching \ {i}
  BY <1>1, <1>3 DEF Lists!Matching
<1>5. Bounds /\ Bounds'
  BY <1>1, BoundsHold, BoundsKeep
<1>6. \A k, j \in Lists!Matching : Lists!Before(j, k) => Lists!Before(j, k)'
  <2>1. \A k \in Lists!Matching : records'[k].name = records[k].name
    BY <1>1, RecordsAre
  <2> QED
    BY <1>3, <2>1 DEF Lists!Before, Lists!ByName
<1>7. ASSUME NEW k \in Lists!Matching
      PROVE  Lists!Place(k)' >= Lists!Place(k) - 1
  <2> DEFINE S == {j \in Lists!Matching : Lists!Before(j, k)}
             T == {j \in Lists!Matching' : Lists!Before(j, k)'}
  <2>1. S \subseteq T \cup {i}
    BY <1>4, <1>6, <1>7
  <2>2. Lists!IsFiniteSet(T)
    BY <1>5, NoMore DEF Bounds
  <2>3. Lists!Place(k) = Lists!Cardinality(S) /\ Lists!Place(k)' = Lists!Cardinality(T)
    BY DEF Lists!Place
  <2> HIDE DEF S, T
  <2>4. Lists!Cardinality(S) <= Lists!Cardinality(T) + 1 /\ Lists!Cardinality(S) \in Nat
          /\ Lists!Cardinality(T) \in Nat
    BY <2>1, <2>2, AtMostOneMore
  <2> QED
    BY <2>3, <2>4
<1>8. PICK x : \A k \in Lists!Matching : Lists!Place(k) = Lists!Reach => k = x
  BY OneAtPlace
<1>9. ASSUME NEW k \in Lists!Missed'
      PROVE  k \in Lists!Missed \cup {x}
  <2>1. k \in stayed /\ k \notin Lists!Read /\ Lists!Place(k)' < Lists!Reach
    BY <1>2, <1>3 DEF Lists!Missed
  <2>2. k \in Lists!Matching /\ Lists!Place(k)' >= Lists!Place(k) - 1
    BY <1>5, <1>7, <2>1 DEF Bounds
  <2>3. Lists!Place(k) \in Nat /\ Lists!Place(k)' \in Nat /\ Lists!Reach \in Nat
    BY <1>5 DEF Bounds
  <2>4. Lists!Place(k) < Lists!Reach \/ Lists!Place(k) = Lists!Reach
    BY <2>1, <2>2, <2>3
  <2> QED
    BY <1>8, <2>1, <2>2, <2>4 DEF Lists!Missed
<1>10. Lists!Beyond' <= Lists!Beyond
  <2>1. Lists!Cardinality(Lists!Matching') <= Lists!Cardinality(Lists!Matching)
    BY <1>4, <1>5, NoMore DEF Bounds
  <2>2. Lists!Cardinality(Lists!Matching) \in Nat /\ Lists!Cardinality(Lists!Matching') \in Nat
    BY <1>5 DEF Bounds
  <2> QED
    BY <1>3, <2>1, <2>2 DEF Lists!Beyond, Lists!MaxZero, Lists!TypeOK, Lists!Unread
<1>11. Lists!Missed' \subseteq Lists!Missed \cup {x}
  BY <1>9
<1> QED
  BY <1>1, <1>2, <1>10, <1>11, OneMoreMissed

\* One that moves does the same, or slips past the reader itself.
LEMMA RenameAccounted ==
    ASSUME Lists!Assumptions, Lists!TypeOK, Lists!AllAccounted, NEW i \in DOMAIN records,
           NEW name \in ListedNames,
           Lists!Rename(i, name)
    PROVE  Lists!AllAccounted'
<1>1. /\ Lists!TypeOK' /\ Lists!Listed' = Lists!Listed
      /\ \A j \in DOMAIN records : j # i => records'[j] = records[j]
  BY RenameTyped
<1>2. /\ Lists!Changes /\ left' = left + 1 /\ late' \in {late, late + 1} /\ stayed' = stayed
      /\ Lists!ByName /\ i \in Lists!Listed
  BY DEF Lists!Rename, Lists!Arrived
<1>3. /\ UNCHANGED <<list, ids, page, total, rows, seen, done>>
      /\ Lists!Read' = Lists!Read /\ Lists!Reach' = Lists!Reach
  BY <1>2, ChangesAre
<1>4. Lists!Matching' = Lists!Matching /\ Lists!Matching = Lists!Listed
  BY <1>1, <1>2, <1>3 DEF Lists!Matching, Lists!TypeOK, Lists!ByName, Lists!SearchesIds
<1>5. Bounds /\ Bounds'
  BY <1>1, BoundsHold, BoundsKeep
<1>6. \A k, j \in Lists!Matching : k # i /\ j # i /\ Lists!Before(j, k) => Lists!Before(j, k)'
  <2>1. \A k \in Lists!Matching : k # i => records'[k] = records[k]
    BY <1>1, RecordsAre
  <2> QED
    BY <1>3, <2>1 DEF Lists!Before, Lists!ByName
<1>7. ASSUME NEW k \in Lists!Matching, k # i
      PROVE  /\ Lists!Place(k)' >= Lists!Place(k) - 1
             /\ ~Lists!Before(i, k) => Lists!Place(k)' >= Lists!Place(k)
  <2> DEFINE S == {j \in Lists!Matching : Lists!Before(j, k)}
             T == {j \in Lists!Matching' : Lists!Before(j, k)'}
  <2>1. S \subseteq T \cup {i}
    BY <1>4, <1>6, <1>7
  <2>2. Lists!IsFiniteSet(T)
    BY <1>5, NoMore DEF Bounds
  <2>3. Lists!Place(k) = Lists!Cardinality(S) /\ Lists!Place(k)' = Lists!Cardinality(T)
    BY DEF Lists!Place
  <2>4. ~Lists!Before(i, k) => S \subseteq T
    BY <2>1
  <2> HIDE DEF S, T
  <2>5. Lists!Cardinality(S) <= Lists!Cardinality(T) + 1 /\ Lists!Cardinality(S) \in Nat
          /\ Lists!Cardinality(T) \in Nat
    BY <2>1, <2>2, AtMostOneMore
  <2>6. ~Lists!Before(i, k) => Lists!Cardinality(S) <= Lists!Cardinality(T)
    BY <2>2, <2>4, NoMore
  <2> QED
    BY <2>3, <2>5, <2>6
<1>8. Lists!Beyond' <= Lists!Beyond
  BY <1>3, <1>4, <1>5 DEF Lists!Beyond, Bounds
<1>9. ASSUME NEW k \in Lists!Missed', k # i
      PROVE  /\ k \in stayed /\ k \notin Lists!Read /\ k \in Lists!Matching
             /\ k \notin Lists!Missed => Lists!Place(k) = Lists!Reach /\ Lists!Before(i, k)
  <2>1. k \in stayed /\ k \notin Lists!Read /\ Lists!Place(k)' < Lists!Reach
    BY <1>2, <1>3 DEF Lists!Missed
  <2>2. k \in Lists!Matching
    BY <1>5, <2>1 DEF Bounds
  <2>3. Lists!Place(k) \in Nat /\ Lists!Place(k)' \in Nat /\ Lists!Reach \in Nat
    BY <1>5 DEF Bounds
  <2>4. Lists!Place(k) < Lists!Reach \/ Lists!Place(k) = Lists!Reach
    BY <1>7, <1>9, <2>1, <2>2, <2>3
  <2>5. Lists!Place(k) = Lists!Reach => Lists!Before(i, k)
    BY <1>7, <1>9, <2>1, <2>2, <2>3
  <2> QED
    BY <2>1, <2>2, <2>4, <2>5 DEF Lists!Missed
<1>10. i \in Lists!Matching /\ Lists!Place(i) \in Nat /\ Lists!Reach \in Nat
  BY <1>2, <1>4, <1>5 DEF Bounds
<1>11. CASE Lists!Place(i) < Lists!Reach
  <2>1. PICK x : \A k \in Lists!Matching : Lists!Place(k) = Lists!Reach => k = x
    BY OneAtPlace
  <2>2. ASSUME NEW k \in Lists!Missed'
        PROVE  k \in Lists!Missed \cup {x}
    <3>1. CASE k = i
      <4>1. k \in stayed /\ k \notin Lists!Read
        BY <1>2, <1>3 DEF Lists!Missed
      <4> QED
        BY <1>11, <3>1, <4>1 DEF Lists!Missed
    <3>2. CASE k # i
      BY <1>9, <2>1, <3>2
    <3> QED
      BY <3>1, <3>2
  <2>3. Lists!Missed' \subseteq Lists!Missed \cup {x}
    BY <2>2
  <2> QED
    BY <1>1, <1>2, <1>8, <2>3, OneMoreMissed
<1>12. CASE ~(Lists!Place(i) < Lists!Reach)
  <2>1. ASSUME NEW k \in Lists!Missed', k # i
        PROVE  k \in Lists!Missed
    <3>1. SUFFICES ASSUME k \notin Lists!Missed
                   PROVE  FALSE
      OBVIOUS
    <3>2. Lists!Place(k) = Lists!Reach /\ Lists!Before(i, k) /\ k \in Lists!Matching
      BY <1>9, <2>1, <3>1
    <3>3. Lists!Place(i) < Lists!Place(k)
      BY <1>10, <3>2, ListPlaces
    <3> QED
      BY <1>12, <3>2, <3>3
  <2>2. Lists!Missed' \subseteq Lists!Missed \cup {i}
    BY <2>1
  <2> QED
    BY <1>1, <1>2, <1>8, <2>2, OneMoreMissed
<1> QED
  BY <1>11, <1>12

\* So every step accounts for what it lets the reader miss.
LEMMA StepAccounted ==
    ASSUME Lists!Assumptions, Lists!TypeOK, Lists!AllAccounted, [Lists!Next]_(Lists!vars)
    PROVE  Lists!AllAccounted'
<1>1. Lists!TypeOK'
  BY StepTyped
<1>2. CASE UNCHANGED Lists!vars
  <2>1. UNCHANGED <<list, records>> /\ Lists!Matching' = Lists!Matching
    BY <1>2 DEF Lists!vars, Lists!Matching, Lists!Listed
  <2>2. \A i : Lists!Place(i)' = Lists!Place(i)
    BY <2>1, SamePlaces
  <2>3. Lists!Missed' = Lists!Missed /\ Lists!Beyond' = Lists!Beyond
    BY <1>2, <2>1, <2>2 DEF Lists!Missed, Lists!Beyond, Lists!Read, Lists!Reach, Lists!vars
  <2> QED
    BY <1>2, <2>3 DEF Lists!AllAccounted, Lists!vars
<1>3. CASE Lists!ReadIds \/ Lists!ReadTotal \/ Lists!ReadRows \/ Lists!Turn
  BY <1>1, <1>3, ReadsAccounted, TurnAccounted
<1>4. CASE \E name \in ListedNames : Lists!Add(name)
  BY <1>4, AddAccounted
<1>5. CASE \E i \in DOMAIN records : Lists!Show(i) \/ Lists!Hide(i)
  BY <1>5, ShowAccounted, HideAccounted
<1>6. CASE \E i \in DOMAIN records, name \in ListedNames : Lists!Rename(i, name)
  BY <1>6, RenameAccounted
<1> QED
  BY <1>2, <1>3, <1>4, <1>5, <1>6 DEF Lists!Next

\* The list stays as it is if nobody changes it.
LEMMA SameSorted ==
    ASSUME UNCHANGED <<list, records>>, Lists!Matching' = Lists!Matching
    PROVE  Lists!Sorted' = Lists!Sorted /\ (page' = page => Lists!Page' = Lists!Page)
<1>1. \A i : Lists!Place(i)' = Lists!Place(i)
  BY SamePlaces
<1>2. Lists!Sorted' = Lists!Sorted
  <2>1. \A k : (CHOOSE i \in Lists!Matching' : Lists!Place(i)' = k - 1)
          = CHOOSE i \in Lists!Matching : Lists!Place(i) = k - 1
    BY Zenon, <1>1
  <2> QED
    BY <2>1 DEF Lists!Sorted
<1> QED
  BY <1>2 DEF Lists!Page, Lists!RowsFrom

\* At first nothing is read,
LEMMA InitInOrder == ASSUME Lists!Assumptions, Lists!Init PROVE Lists!ReadInOrder
<1>1. Lists!TypeOK
  BY InitTyped
<1>2. /\ ids = Lists!NoIds /\ page = 1 /\ total = Lists!Unread /\ rows = Lists!NotRead
      /\ seen = <<>> /\ ~done
  BY DEF Lists!Init
<1>3. (page - 1) * PageRows = 0
  BY <1>2 DEF Lists!Assumptions
<1>4. Len(Lists!Sorted) \in Nat
  BY <1>1, SortedIs
<1>5. seen = [k \in 1 .. 0 |-> Lists!Sorted[k]]
  BY <1>2
<1> QED
  BY <1>2, <1>3, <1>4, <1>5 DEF Lists!ReadInOrder

\* and of a list that changed nothing is said.
LEMMA ChangesDisturb ==
    ASSUME Lists!Assumptions, Lists!TypeOK, Lists!Changes
    PROVE  Lists!ReadInOrder'
<1>1. changes' = changes + 1 /\ changes \in Nat
  BY DEF Lists!Changes, Lists!TypeOK
<1>2. changes' # 0
  BY <1>1
<1> QED
  BY <1>2 DEF Lists!ReadInOrder

\* The length of a sequence, and a sequence as a function.
LEMMA LengthIs ==
    ASSUME NEW S, NEW s \in Seq(S), NEW n \in Nat, DOMAIN s = 1 .. n
    PROVE  Len(s) = n
<1>1. DOMAIN s = 1 .. Len(s) /\ Len(s) \in Nat
  OBVIOUS
<1> QED
  BY <1>1

LEMMA SequenceIs ==
    ASSUME NEW S, NEW s \in Seq(S)
    PROVE  s = [k \in 1 .. Len(s) |-> s[k]]
OBVIOUS

\* A sequence that continues another.
LEMMA Continued ==
    ASSUME NEW S, NEW q, NEW s \in Seq(S), NEW t \in Seq(S)
    PROVE  (\A k \in 1 .. Len(s) : s[k] = q[k]) /\ (\A k \in 1 .. Len(t) : t[k] = q[Len(s) + k])
             => s \o t = [k \in 1 .. Len(s) + Len(t) |-> q[k]]
<1> DEFINE u == s \o t
           a == Len(s)
           b == Len(t)
<1>1. /\ u \in Seq(S) /\ Len(u) = a + b /\ a \in Nat /\ b \in Nat
      /\ \A k \in 1 .. a : u[k] = s[k]
      /\ \A k \in 1 .. b : u[a + k] = t[k]
  OBVIOUS
<1> HIDE DEF u, a, b
<1> SUFFICES ASSUME \A k \in 1 .. a : s[k] = q[k], \A k \in 1 .. b : t[k] = q[a + k]
             PROVE  u = [k \in 1 .. a + b |-> q[k]]
  BY DEF u, a, b
<1>2. ASSUME NEW k \in 1 .. a + b
      PROVE  u[k] = q[k]
  <2>1. CASE k <= a
    BY <1>1, <2>1
  <2>2. CASE k > a
    <3>1. PICK l \in Int : l = k - a
      BY <1>1
    <3>2. l \in 1 .. b /\ a + l = k
      BY <1>1, <2>2, <3>1
    <3>3. t[l] = q[k] /\ u[k] = t[l]
      BY <1>1, <3>2
    <3> QED
      BY <3>3
  <2> QED
    BY <1>1, <2>1, <2>2
<1>3. u = [k \in 1 .. a + b |-> u[k]]
  BY <1>1, SequenceIs
<1> QED
  BY <1>2, <1>3, Zenon

\* A page continues the list.
LEMMA PageContinues ==
    ASSUME Lists!Assumptions, Lists!TypeOK
    PROVE  (page - 1) * PageRows <= Len(Lists!Sorted)
             /\ seen = [k \in 1 .. (page - 1) * PageRows |-> Lists!Sorted[k]]
             => LET m == IF page * PageRows
               <= Len(Lists!Sorted) THEN page * PageRows ELSE Len(Lists!Sorted)
                IN  seen \o Lists!Page = [k \in 1 .. m |-> Lists!Sorted[k]]
<1> DEFINE skip == (page - 1) * PageRows
           n == Len(Lists!Sorted)
           m == IF page * PageRows <= n THEN page * PageRows ELSE n
           b == m - skip
<1>1. n \in Nat
  BY SortedIs
<1>2. /\ Lists!Page \in Seq(Lists!Index) /\ skip \in Nat /\ page * PageRows = skip + PageRows
      /\ DOMAIN Lists!Page = {k \in 1 .. PageRows : skip + k <= n}
      /\ \A k \in DOMAIN Lists!Page : Lists!Page[k] = Lists!Sorted[skip + k]
  BY PageIs
<1>3. seen \in Seq(Lists!Index) /\ PageRows \in Nat
  BY DEF Lists!TypeOK, Lists!Assumptions
<1>4. (\A k \in 1 .. Len(seen) : seen[k] = Lists!Sorted[k])
        /\ (\A k \in 1 .. Len(Lists!Page) : Lists!Page[k] = Lists!Sorted[Len(seen) + k])
        => seen \o Lists!Page = [k \in 1 .. Len(seen) + Len(Lists!Page) |-> Lists!Sorted[k]]
  <2>1. Lists!Page \in Seq(Lists!Index) /\ seen \in Seq(Lists!Index)
    BY <1>2, <1>3
  <2> QED
    BY Z3, <2>1, Continued
<1> SUFFICES ASSUME skip <= n, seen = [k \in 1 .. skip |-> Lists!Sorted[k]]
             PROVE  seen \o Lists!Page = [k \in 1 .. m |-> Lists!Sorted[k]]
  OBVIOUS
<1>5. DOMAIN seen = 1 .. skip /\ \A k \in 1 .. skip : seen[k] = Lists!Sorted[k]
  OBVIOUS
<1> HIDE DEF skip, n
<1>6. m \in Nat /\ m = IF skip + PageRows <= n THEN skip + PageRows ELSE n
  BY <1>1, <1>2, <1>3
<1> HIDE DEF m
<1>7. Len(seen) = skip
  BY <1>2, <1>3, <1>5, LengthIs
<1>8. b \in Nat /\ skip + b = m /\ DOMAIN Lists!Page = 1 .. b
  BY <1>1, <1>2, <1>3, <1>6
<1> HIDE DEF b
<1>9. Len(Lists!Page) = b
  BY <1>2, <1>8, LengthIs
<1>10. \A k \in 1 .. b : Lists!Page[k] = Lists!Sorted[skip + k]
  BY <1>2, <1>8
<1>11. (\A k \in 1 .. Len(seen) : seen[k] = Lists!Sorted[k])
         /\ (\A k \in 1 .. Len(Lists!Page) : Lists!Page[k] = Lists!Sorted[Len(seen) + k])
  BY Zenon, <1>5, <1>7, <1>9, <1>10
<1>12. seen \o Lists!Page = [k \in 1 .. Len(seen) + Len(Lists!Page) |-> Lists!Sorted[k]]
  BY Zenon, <1>4, <1>11
<1>13. Len(seen) + Len(Lists!Page) = m
  BY <1>7, <1>8, <1>9
<1> QED
  BY <1>12, <1>13, Zenon

\* Queries read what is next.
LEMMA ReadsInOrder ==
    ASSUME Lists!Assumptions, Lists!TypeOK, Lists!TypeOK', Lists!ReadInOrder,
           Lists!ReadIds \/ Lists!ReadTotal \/ Lists!ReadRows \/ Lists!Turn
    PROVE  Lists!ReadInOrder'
<1> SUFFICES ASSUME changes = 0
             PROVE  Lists!ReadInOrder'
  BY DEF Lists!ReadInOrder, Lists!ReadIds, Lists!ReadTotal, Lists!ReadRows, Lists!Turn
<1>1. UNCHANGED <<list, records, changes, stayed, left, late>> /\ ~done
  BY DEF Lists!ReadIds, Lists!ReadTotal, Lists!ReadRows, Lists!Turn
<1>2. Lists!Listed' = Lists!Listed
  BY <1>1, SamePlaces
<1>3. /\ ids \in {Lists!NoIds, Lists!Listed}
      /\ total \in {Lists!Unread, Lists!Cardinality(Lists!Listed)}
      /\ rows \in {Lists!NotRead, Lists!Page}
      /\ (page - 1) * PageRows <= Len(Lists!Sorted)
      /\ seen = [k \in 1 .. (page - 1) * PageRows |-> Lists!Sorted[k]]
  BY <1>1 DEF Lists!ReadInOrder
<1>4. ids' \in {Lists!NoIds, Lists!Listed}
  BY <1>3 DEF Lists!ReadIds, Lists!ReadTotal, Lists!ReadRows, Lists!Turn
<1>5. Lists!Matching = Lists!Listed /\ Lists!Matching' = Lists!Listed
  BY <1>2, <1>3, <1>4 DEF Lists!Matching
<1>6. Lists!Sorted' = Lists!Sorted /\ (page' = page => Lists!Page' = Lists!Page)
  BY <1>1, <1>5, SameSorted
<1>7. CASE Lists!ReadIds \/ Lists!ReadTotal \/ Lists!ReadRows
  <2>1. UNCHANGED <<page, seen, done>>
    BY <1>7 DEF Lists!ReadIds, Lists!ReadTotal, Lists!ReadRows
  <2>2. total' \in {Lists!Unread, Lists!Cardinality(Lists!Listed)}
          /\ rows' \in {Lists!NotRead, Lists!Page}
    BY <1>3, <1>5, <1>7 DEF Lists!ReadIds, Lists!ReadTotal, Lists!ReadRows
  <2> QED
    BY <1>1, <1>2, <1>3, <1>4, <1>6, <2>1, <2>2 DEF Lists!ReadInOrder
<1>8. CASE Lists!Turn
  <2> DEFINE n == Len(Lists!Sorted)
  <2>1. /\ total = Lists!Cardinality(Lists!Listed) /\ rows = Lists!Page /\ rows' = Lists!NotRead
        /\ total' = Lists!Unread
        /\ seen' = seen \o Lists!Page
    BY <1>3, <1>8 DEF Lists!Turn
  <2>2. n \in Nat /\ n = total
    BY <1>5, <2>1, SortedIs
  <2>3. page \in Nat \ {0} /\ PageRows \in Nat \ {0} /\ page * PageRows \in Nat
    BY PageIs DEF Lists!TypeOK, Lists!Assumptions
  <2>4. seen' = [k \in 1 .. (IF page * PageRows <= n THEN page * PageRows ELSE n) |-> Lists!Sorted[k]]
    BY <1>3, <2>1, PageContinues
  <2> HIDE DEF n
  <2>5. PICK q \in Nat : q = Lists!TotalPages
    BY <2>2, <2>3 DEF Lists!TotalPages
  <2>6. q * PageRows <= n + PageRows - 1 /\ n + PageRows - 1 < (q + 1) * PageRows
    BY <2>2, <2>3, <2>5 DEF Lists!TotalPages
  <2>7. (q + 1) * PageRows = q * PageRows + PageRows /\ q * PageRows \in Nat
    BY <2>3
  <2>8. CASE page < Lists!TotalPages
    <3>1. page' = page + 1 /\ done' = done
      BY <1>8, <2>8 DEF Lists!Turn
    <3>2. page + 1 <= q
      BY <2>3, <2>5, <2>8
    <3>3. (page + 1) * PageRows <= q * PageRows
      BY <2>3, <3>2
    <3>4. (page + 1) * PageRows = page * PageRows + PageRows
      BY <2>3
    <3>5. page * PageRows <= n
      BY <2>2, <2>3, <2>6, <2>7, <3>3, <3>4
    <3>6. seen' = [k \in 1 .. page * PageRows |-> Lists!Sorted[k]]
      BY <2>4, <3>5
    <3>7. page' - 1 = page
      BY <2>3, <3>1
    <3>8. /\ (page' - 1) * PageRows <= Len(Lists!Sorted')
          /\ seen' = [k \in 1 .. (page' - 1) * PageRows |-> Lists!Sorted'[k]]
      BY <1>6, <3>5, <3>6, <3>7 DEF n
    <3> QED
      BY <1>1, <1>2, <1>4, <2>1, <3>1, <3>8 DEF Lists!ReadInOrder
  <2>9. CASE ~(page < Lists!TotalPages)
    <3>1. done'
      BY <1>8, <2>9 DEF Lists!Turn
    <3>2. q <= page
      BY <2>3, <2>5, <2>9
    <3>3. q * PageRows <= page * PageRows
      BY <2>3, <3>2
    <3>4. n <= page * PageRows
      BY <2>2, <2>3, <2>6, <2>7, <3>3
    <3>5. seen' = [k \in 1 .. n |-> Lists!Sorted[k]]
      BY <2>2, <2>3, <2>4, <3>4
    <3>6. Lists!Sorted = [k \in 1 .. n |-> Lists!Sorted[k]]
      BY SortedIs DEF n
    <3>7. seen' = Lists!Sorted'
      BY <1>6, <3>5, <3>6
    <3> QED
      BY <1>2, <1>4, <2>1, <3>1, <3>7 DEF Lists!ReadInOrder
  <2> QED
    BY <2>8, <2>9
<1> QED
  BY <1>7, <1>8

\* So what is read is always how the list begins.
LEMMA StepInOrder ==
    ASSUME Lists!Assumptions, Lists!TypeOK, Lists!ReadInOrder, [Lists!Next]_(Lists!vars)
    PROVE  Lists!ReadInOrder'
<1>1. Lists!TypeOK'
  BY StepTyped
<1>2. CASE UNCHANGED Lists!vars
  <2>1. UNCHANGED <<list, records>> /\ Lists!Matching' = Lists!Matching /\ page' = page
    BY <1>2 DEF Lists!vars, Lists!Matching, Lists!Listed
  <2>2. Lists!Sorted' = Lists!Sorted /\ Lists!Page' = Lists!Page /\ Lists!Listed' = Lists!Listed
    BY <2>1, SameSorted, SamePlaces
  <2> QED
    BY <1>2, <2>2 DEF Lists!ReadInOrder, Lists!vars
<1>3. CASE Lists!ReadIds \/ Lists!ReadTotal \/ Lists!ReadRows \/ Lists!Turn
  BY <1>1, <1>3, ReadsInOrder
<1>4. CASE \E name \in ListedNames : Lists!Add(name)
  BY <1>4, ChangesDisturb DEF Lists!Add
<1>5. CASE \E i \in DOMAIN records : Lists!Show(i) \/ Lists!Hide(i)
  BY <1>5, ChangesDisturb DEF Lists!Show, Lists!Hide
<1>6. CASE \E i \in DOMAIN records, name \in ListedNames : Lists!Rename(i, name)
  BY <1>6, ChangesDisturb DEF Lists!Rename
<1> QED
  BY <1>2, <1>3, <1>4, <1>5, <1>6 DEF Lists!Next

\* What is true of every state of the lists.
PagesInv == Lists!TypeOK /\ Lists!AllAccounted /\ Lists!ReadInOrder

\* All of this is always true.
LEMMA PagesInvariance == Lists!Assumptions => (Lists!Spec => []PagesInv)
<1> SUFFICES ASSUME Lists!Assumptions
             PROVE  Lists!Spec => []PagesInv
  OBVIOUS
<1>1. Lists!Init => PagesInv
  BY InitTyped, InitAccounted, InitInOrder DEF PagesInv
<1>2. PagesInv /\ [Lists!Next]_(Lists!vars) => PagesInv'
  BY StepTyped, StepAccounted, StepInOrder DEF PagesInv
<1> QED
  BY <1>1, <1>2, PTL DEF Lists!Spec

\* Who has read the sorted list to its end has read every record once and in order.
LEMMA QuietAreReadOnce ==
    ASSUME Lists!Assumptions, Lists!TypeOK, Lists!ReadInOrder
    PROVE  Lists!QuietListsAreReadOnce
<1> SUFFICES ASSUME done, changes = 0
             PROVE  /\ Lists!ToSet(seen) = Lists!Listed /\ Lists!IsInjective(seen)
                    /\ \A k \in 1..Len(seen) - 1 :
                          /\ list \in Lists!NewestFirst => seen[k] > seen[k + 1]
                          /\ Lists!ByName => records[seen[k]].name < records[seen[k + 1]].name
  BY DEF Lists!QuietListsAreReadOnce
<1>1. seen = Lists!Sorted /\ Lists!Matching = Lists!Listed
  BY DEF Lists!ReadInOrder, Lists!Matching
<1>2. /\ DOMAIN Lists!Sorted = 1 .. Len(Lists!Sorted) /\ Len(Lists!Sorted) \in Nat
      /\ \A k \in DOMAIN Lists!Sorted : Lists!Sorted[k] \in Lists!Matching
          /\ Lists!Place(Lists!Sorted[k]) = k - 1
      /\ \A i \in Lists!Matching : Lists!Place(i) + 1 \in DOMAIN Lists!Sorted
          /\ Lists!Sorted[Lists!Place(i) + 1] = i
  BY SortedIs
<1>3. Lists!ToSet(Lists!Sorted) = Lists!Matching
  BY <1>2 DEF Lists!ToSet
<1>4. Lists!IsInjective(Lists!Sorted)
  <2> SUFFICES ASSUME NEW k \in DOMAIN Lists!Sorted, NEW l \in DOMAIN Lists!Sorted,
                      Lists!Sorted[k] = Lists!Sorted[l]
               PROVE  k = l
    BY DEF Lists!IsInjective
  <2>1. k - 1 = l - 1 /\ k \in Nat /\ l \in Nat
    BY <1>2
  <2> QED
    BY <2>1
<1>5. ASSUME NEW k \in 1 .. Len(Lists!Sorted) - 1
      PROVE  Lists!Before(Lists!Sorted[k], Lists!Sorted[k + 1])
  <2> DEFINE i == Lists!Sorted[k]
             l == k + 1
             j == Lists!Sorted[l]
  <2>1. k \in DOMAIN Lists!Sorted /\ l \in DOMAIN Lists!Sorted /\ k \in Nat
    BY <1>2
  <2>2. i \in Lists!Matching /\ j \in Lists!Matching /\ Lists!Place(i) = k - 1
          /\ Lists!Place(j) = l - 1
    BY <1>2, <2>1
  <2>3. Lists!Place(i) < Lists!Place(j)
    BY <2>1, <2>2
  <2>4. i \in DOMAIN records /\ j \in DOMAIN records
    BY <2>2, RecordsAre
  <2> HIDE DEF i, j
  <2>5. i # j
    BY <2>1, <2>2
  <2>6. ~Lists!Before(j, i)
    <3>1. Lists!Before(j, i) => Lists!Place(j) < Lists!Place(i)
      BY <2>2, ListPlaces
    <3>2. Lists!Place(i) \in Nat /\ Lists!Place(j) \in Nat
      BY ListPlaces
    <3> QED
      BY <2>3, <3>1, <3>2
  <2>7. Lists!Before(i, j)
    BY <2>4, <2>5, <2>6, BeforeIsAnOrder
  <2> QED
    BY <2>7 DEF i, j
<1>6. ASSUME NEW k \in 1 .. Len(Lists!Sorted) - 1
      PROVE  /\ list \in Lists!NewestFirst => Lists!Sorted[k] > Lists!Sorted[k + 1]
             /\ Lists!ByName => records[Lists!Sorted[k]].name < records[Lists!Sorted[k + 1]].name
  BY <1>5 DEF Lists!Before, Lists!NewestFirst, Lists!ByName
<1> QED
  BY <1>1, <1>3, <1>4, <1>6

\* The paged lists of BookingRepository, ContractRepository, MovementRepository, UserRepository
\* and VehicleOwnerRepository: who pages through one misses at most one record for each that left
\* the list, moved in it or came between the queries of a page, however long the list and its
\* pages are; and who reads a list that does not change reads every record once and in order.
THEOREM OfficePagesAreComplete == OfficeSpec => []PagesAreComplete
<1>1. Lists!Spec => []PagesInv
  BY PartsAssumption, PagesInvariance
<1>2. PagesInv => Lists!MissesOnlyWhatMoved /\ Lists!QuietListsAreReadOnce
  BY PartsAssumption, QuietAreReadOnce
  DEF PagesInv, Lists!AllAccounted, Lists!MissesOnlyWhatMoved
<1>3. part = "pages" /\ OfficeInit => Lists!Init
  BY DEF OfficeInit
<1>4. part = "pages" /\ [OfficeNext]_vars => [Lists!Next]_(Lists!vars)
  BY DEF OfficeNext, vars, Lists!vars
<1>5. part = "pages" /\ [OfficeNext]_vars => (part = "pages")'
  BY PartStays
<1>6. ~(part = "pages") /\ [OfficeNext]_vars => (~(part = "pages"))'
  BY PartStays
<1>7. part = "pages" /\ OfficeSpec => Lists!Spec
  BY <1>3, <1>4, <1>5, PTL DEF OfficeSpec, Lists!Spec
<1>8. ~(part = "pages") /\ OfficeSpec => [](~(part = "pages"))
  BY <1>6, PTL DEF OfficeSpec
<1> QED
  BY <1>1, <1>2, <1>7, <1>8, PTL DEF PagesAreComplete

-----------------------------------------------------------------------------
(***************************************************************************)
(* MailTexts.  A total is that of the cart and its delivery or recorded as *)
(* left over from before (Settled); the rest is what the templates make of *)
(* any booking.  Their rows are those of a few kinds, each from a function *)
(* that gives a line's row and one that gives the fields it tells.         *)
(***************************************************************************)

order == x1
offer == x2
unsettled == x3

USE DEF order, offer, unsettled

\* The sums of the mails are those of the dashboard.
LEMMA SameSum == \A w : Texts!SumOf(w) = Dash!SumOf(w)
BY DEF Texts!SumOf, Texts!MapThenSumSet, Texts!MapThenFoldSet,
       Dash!SumOf, Dash!MapThenSumSet, Dash!MapThenFoldSet

\* A sum of natural numbers is one,
LEMMA SumIsNat ==
    ASSUME NEW n \in Nat, NEW w \in [1 .. n -> Nat]
    PROVE  Texts!SumOf(w) \in Nat
<1>1. IsFiniteSet(1 .. n)
  BY FS_Interval
<1>2. w \in [1 .. n -> Int] /\ \A i \in 1 .. n : w[i] \in Nat
  OBVIOUS
<1>3. Dash!SumOf(w) \in Nat
  BY <1>1, <1>2, SumIsInt
<1> QED
  BY <1>3, SameSum

\* and of one number that number.
LEMMA SumOfThat ==
    ASSUME NEW k \in Nat
    PROVE  Texts!SumOf(<<k>>) = k
<1> DEFINE w == <<k>>
<1>1. w[1] = k /\ w[1] \in Int
  OBVIOUS
<1>2. w = [x \in {1} |-> w[x]]
  OBVIOUS
<1> HIDE DEF w
<1>3. Dash!SumOf([x \in {1} |-> w[x]]) = w[1]
  BY <1>1, SumOfOne
<1>4. Dash!SumOf(w) = k
  BY <1>1, <1>2, <1>3
<1> QED
  BY <1>4, SameSum DEF w

\* Lines are records,
LEMMA LineHas ==
    ASSUME NEW l \in Texts!Line
    PROVE  /\ l.kind \in Texts!Kinds /\ l.item \in Goods /\ l.held \in BOOLEAN
           /\ l.category \in BOOLEAN
           /\ l.price \in Nat /\ l.quantity \in Nat /\ l.day \in Nat /\ l.evening \in BOOLEAN
           /\ l.days \in Nat /\ l.passengers \in Seq(Nat) /\ l.passengers # <<>>
BY DEF Texts!Line

\* What a line costs is a natural number,
LEMMA UnitsIs ==
    ASSUME NEW l \in Texts!Line
    PROVE  /\ Texts!Units(l) \in Nat /\ Texts!Units(l) >= 1
           /\ Texts!Units(l) = IF l.quantity > 1 THEN l.quantity ELSE 1
           /\ Texts!LineTotal(l) \in Nat
<1>1. l.price \in Nat /\ l.quantity \in Nat
  BY LineHas
<1>2. Texts!Units(l) \in Nat /\ Texts!Units(l) >= 1
        /\ Texts!Units(l) = IF l.quantity > 1 THEN l.quantity ELSE 1
  BY <1>1 DEF Texts!Units
<1>3. l.price * Texts!Units(l) \in Nat
  <2> DEFINE p == l.price
             u == Texts!Units(l)
  <2>1. p \in Nat /\ u \in Nat
    BY <1>1, <1>2
  <2> HIDE DEF p, u
  <2>2. p * u \in Nat
    BY <2>1
  <2> QED
    BY <2>2 DEF p, u
<1> QED
  BY <1>1, <1>2, <1>3 DEF Texts!LineTotal

\* and so is what a cart costs.
LEMMA CartCosts ==
    ASSUME NEW cart \in Seq(Texts!Line)
    PROVE  Texts!CartTotal(cart) \in Nat
<1>1. \A i \in DOMAIN cart : cart[i] \in Texts!Line
  OBVIOUS
<1>2. [i \in DOMAIN cart |-> Texts!LineTotal(cart[i])] \in [DOMAIN cart -> Nat]
  BY <1>1, UnitsIs
<1>3. DOMAIN cart = 1 .. Len(cart) /\ Len(cart) \in Nat
  OBVIOUS
<1> QED
  BY <1>2, <1>3, SumIsNat DEF Texts!CartTotal

\* What is sold is a cart of the same lines.
LEMMA LineWith ==
    ASSUME NEW l \in Texts!Line, NEW p \in Nat
    PROVE  /\ [l EXCEPT !.price = p] \in Texts!Line
           /\ [l EXCEPT !.held = TRUE, !.price = p] \in Texts!Line
BY DEF Texts!Line

\* What is offered has a price.
LEMMA PriceIs ==
    ASSUME Texts!Assumptions, Texts!TypeOK, NEW l \in Texts!Line, offer[l.item] # Texts!Gone
    PROVE  offer[l.item] \in Nat
<1>1. l.item \in Goods
  BY LineHas
<1> QED
  BY <1>1 DEF Texts!TypeOK, Texts!Assumptions

\* A function of the places of a sequence is one.
LEMMA MappedSequence ==
    ASSUME NEW S, NEW s \in Seq(S), NEW f, f \in [DOMAIN s -> S]
    PROVE  f \in Seq(S)
<1>1. DOMAIN s = 1 .. Len(s) /\ Len(s) \in Nat
  OBVIOUS
<1>2. f \in [1 .. Len(s) -> S]
  BY <1>1
<1> QED
  BY <1>1, <1>2

\* Hence what is sold is a cart,
LEMMA SoldIs ==
    ASSUME Texts!Assumptions, Texts!TypeOK, NEW cart \in Seq(Texts!Line), Texts!Offered(cart)
    PROVE  Texts!Sold(cart) \in Seq(Texts!Line)
<1>1. ASSUME NEW i \in DOMAIN cart
      PROVE  (IF cart[i].kind = "vehicle" \/ cart[i].held THEN cart[i]
              ELSE [cart[i] EXCEPT !.price = offer[cart[i].item]]) \in Texts!Line
  <2>1. cart[i] \in Texts!Line
    OBVIOUS
  <2>2. offer[cart[i].item] \in Nat
    BY <2>1, PriceIs DEF Texts!Offered
  <2> QED
    BY <2>1, <2>2, LineWith
<1>2. Texts!Sold(cart) \in [DOMAIN cart -> Texts!Line]
  BY <1>1 DEF Texts!Sold
<1> QED
  BY <1>2, MappedSequence

\* A cart that holds its items.
HeldCart(cart) ==
    [i \in DOMAIN cart |->
       [cart[i] EXCEPT !.held = TRUE,
           !.price = IF cart[i].kind = "vehicle" THEN @ ELSE offer[cart[i].item]]]

\* in both ways.
LEMMA HeldIs ==
    ASSUME Texts!Assumptions, Texts!TypeOK, NEW cart \in Seq(Texts!Line), Texts!Offered(cart)
    PROVE  HeldCart(cart) \in Seq(Texts!Line)
<1>1. ASSUME NEW i \in DOMAIN cart
      PROVE  [cart[i] EXCEPT !.held = TRUE,
                 !.price = IF cart[i].kind = "vehicle" THEN @ ELSE offer[cart[i].item]] \in Texts!Line
  <2>1. cart[i] \in Texts!Line
    OBVIOUS
  <2>2. offer[cart[i].item] \in Nat /\ cart[i].price \in Nat
    BY <2>1, PriceIs, LineHas DEF Texts!Offered
  <2> DEFINE p == IF cart[i].kind = "vehicle" THEN cart[i].price ELSE offer[cart[i].item]
  <2>3. p \in Nat
    BY <2>2
  <2> HIDE DEF p
  <2>4. [cart[i] EXCEPT !.held = TRUE, !.price = p] \in Texts!Line
    BY <2>1, <2>3, LineWith
  <2>5. [cart[i] EXCEPT !.held = TRUE,
           !.price = IF cart[i].kind = "vehicle" THEN @ ELSE offer[cart[i].item]]
          = [cart[i] EXCEPT !.held = TRUE, !.price = p]
    BY DEF p
  <2> QED
    BY <2>4, <2>5
<1>2. HeldCart(cart) \in [DOMAIN cart -> Texts!Line]
  BY <1>1 DEF HeldCart
<1> QED
  BY <1>2, MappedSequence

\* What a booking is.
Orders == [cart : Seq(Texts!Line), total : Nat, paid : Nat, delivery : Nat, contract : BOOLEAN]

\* A booking is what its fields are.
LEMMA OrderIs ==
    ASSUME Texts!TypeOK
    PROVE  /\ order \in Orders
           /\ order.cart \in Seq(Texts!Line) /\ order.total \in Nat /\ order.paid \in Nat
           /\ order.delivery \in Nat /\ order.contract \in BOOLEAN
BY DEF Texts!TypeOK, Orders

\* A delivery costs a natural number.
LEMMA CostIs ==
    ASSUME Texts!Assumptions, NEW delivery \in {0, DeliveryFee}
    PROVE  delivery \in Nat
BY DEF Texts!Assumptions

\* No cart is one, too.
LEMMA EmptyCart == <<>> \in Seq(Texts!Line)
OBVIOUS

\* At first there is nothing to settle.
LEMMA InitSettled == Texts!Assumptions => (Texts!Init => Texts!TypeOK /\ Texts!Settled)
<1> SUFFICES ASSUME Texts!Assumptions, Texts!Init PROVE Texts!TypeOK /\ Texts!Settled
  OBVIOUS
<1>1. Texts!NoBooking \in Orders
  BY EmptyCart DEF Texts!NoBooking, Orders
<1>2. offer \in [Goods -> GoodsPrices \cup {Texts!Gone}]
  BY DEF Texts!Init
<1>3. Texts!TypeOK
  BY <1>1, <1>2 DEF Texts!Init, Texts!TypeOK, Orders
<1>4. Texts!Settled
  BY DEF Texts!Init, Texts!Settled
<1> QED
  BY <1>3, <1>4

\* A total that is cart and delivery.
LEMMA SettledBy ==
    ASSUME Texts!TypeOK, NEW b \in Orders, order' = b, offer' = offer, unsettled' \in BOOLEAN,
           ~unsettled' => b.total = Texts!CartTotal(b.cart) + b.delivery
    PROVE  Texts!TypeOK' /\ Texts!Settled'
<1>1. Texts!TypeOK'
  BY DEF Texts!TypeOK, Orders
<1>2. Texts!CartTotal(b.cart) = Texts!CartTotal(order.cart)'
  BY DEF Texts!CartTotal, Texts!LineTotal, Texts!Units, Texts!SumOf, Texts!MapThenSumSet,
     Texts!MapThenFoldSet
<1>3. Texts!Settled'
  BY <1>2 DEF Texts!Settled
<1> QED
  BY <1>1, <1>3

\* A booking is settled when it is made,
LEMMA RequestSettles ==
    ASSUME Texts!Assumptions, Texts!TypeOK, Texts!Settled, NEW cart \in Bought,
           NEW delivery \in {0, DeliveryFee},
           Texts!Request(cart, delivery)
    PROVE  Texts!TypeOK' /\ Texts!Settled'
<1> DEFINE sold == Texts!Sold(cart)
           t == Texts!CartTotal(sold)
           b == [Texts!NoBooking EXCEPT !.cart = sold, !.delivery = delivery, !.total = t + delivery]
<1>1. cart \in Seq(Texts!Line) /\ delivery \in Nat
  BY CostIs DEF Texts!Assumptions
<1>2. sold \in Seq(Texts!Line)
  BY <1>1, SoldIs DEF Texts!Request
<1>3. t \in Nat
  BY <1>2, CartCosts
<1>4. order' = b /\ offer' = offer /\ unsettled' = unsettled
  BY DEF Texts!Request
<1>5. unsettled' \in BOOLEAN
  BY <1>4 DEF Texts!TypeOK
<1> HIDE DEF sold
<1>6. b.cart = sold /\ b.total = t + b.delivery
  BY DEF Texts!NoBooking
<1>7. b \in Orders
  <2> HIDE DEF t
  <2>1. t + delivery \in Nat
    BY <1>1, <1>3
  <2> QED
    BY <1>1, <1>2, <2>1 DEF Texts!NoBooking, Orders
<1>8. b.total = Texts!CartTotal(b.cart) + b.delivery
  BY <1>6
<1> HIDE DEF b
<1> QED
  BY <1>4, <1>5, <1>7, <1>8, SettledBy

\* or bought, unless its total forgets the delivery,
LEMMA PurchaseSettles ==
    ASSUME Texts!Assumptions, Texts!TypeOK, Texts!Settled, NEW cart \in Bought,
           NEW delivery \in {0, DeliveryFee},
           NEW named \in BOOLEAN, Texts!Purchase(cart, delivery, named)
    PROVE  Texts!TypeOK' /\ Texts!Settled'
<1> DEFINE sold == HeldCart(cart)
           t == Texts!CartTotal(sold)
           whole == t + IF named THEN delivery ELSE 0
           b == [Texts!NoBooking EXCEPT !.cart = sold, !.delivery = delivery,
                                  !.total = whole, !.paid = whole]
<1>1. cart \in Seq(Texts!Line) /\ delivery \in Nat
  BY CostIs DEF Texts!Assumptions
<1>2. sold \in Seq(Texts!Line)
  BY <1>1, HeldIs DEF Texts!Purchase
<1>3. t \in Nat
  BY <1>2, CartCosts
<1>4. order' = b /\ offer' = offer /\ unsettled' = (~named /\ delivery > 0)
  BY DEF Texts!Purchase, HeldCart
<1>5. unsettled' \in BOOLEAN
  BY <1>4
<1> HIDE DEF sold
<1>6. b.cart = sold /\ b.total = whole /\ b.delivery = delivery
  BY DEF Texts!NoBooking
<1>7. b \in Orders
  <2> HIDE DEF t
  <2>1. whole \in Nat
    BY <1>1, <1>3
  <2> HIDE DEF whole
  <2> QED
    BY <1>1, <1>2, <2>1 DEF Texts!NoBooking, Orders
<1>8. ~unsettled' => b.total = Texts!CartTotal(b.cart) + b.delivery
  <2> HIDE DEF b
  <2>1. b.total = t + IF named THEN delivery ELSE 0
    BY <1>6
  <2>2. Texts!CartTotal(b.cart) = t
    BY <1>6
  <2> HIDE DEF t
  <2> SUFFICES ASSUME ~unsettled' PROVE b.total = Texts!CartTotal(b.cart) + b.delivery
    OBVIOUS
  <2>3. named \/ delivery = 0
    <3>1. named \/ ~(delivery > 0)
      BY <1>4, Zenon
    <3> QED
      BY <1>1, <3>1
  <2> QED
    BY <1>1, <1>3, <1>6, <2>1, <2>2, <2>3
<1> HIDE DEF b
<1> QED
  BY <1>4, <1>5, <1>7, <1>8, SettledBy

\* and stays so when it is paid;
LEMMA KeptSettled ==
    ASSUME Texts!Assumptions, Texts!TypeOK, Texts!Settled,
           Texts!OpenContract \/ (\E amount \in GoodsPrices : Texts!Pay(amount))
    PROVE  Texts!TypeOK' /\ Texts!Settled'
<1>1. PICK b \in Orders : /\ order' = b /\ b.cart = order.cart /\ b.total = order.total
                          /\ b.delivery = order.delivery
  <2>1. CASE Texts!OpenContract
    <3> DEFINE b == [order EXCEPT !.contract = TRUE]
    <3>1. order' = b
      BY <2>1 DEF Texts!OpenContract
    <3>2. /\ b \in Orders /\ b.cart = order.cart /\ b.total = order.total
          /\ b.delivery = order.delivery
      BY OrderIs DEF Orders
    <3> QED
      BY <3>1, <3>2
  <2>2. CASE \E amount \in GoodsPrices : Texts!Pay(amount)
    <3>1. PICK amount \in GoodsPrices : Texts!Pay(amount)
      BY <2>2
    <3> DEFINE b == [order EXCEPT !.paid = amount]
    <3>2. order' = b
      BY <3>1 DEF Texts!Pay
    <3>3. amount \in Nat
      BY DEF Texts!Assumptions
    <3>4. /\ b \in Orders /\ b.cart = order.cart /\ b.total = order.total
          /\ b.delivery = order.delivery
      BY <3>3, OrderIs DEF Orders
    <3> QED
      BY <3>2, <3>4
  <2> QED
    BY <2>1, <2>2
<1>2. order # Texts!NoBooking /\ offer' = offer /\ unsettled' = unsettled
  BY DEF Texts!OpenContract, Texts!Pay
<1>3. unsettled' \in BOOLEAN
  BY <1>2 DEF Texts!TypeOK
<1>4. ~unsettled' => b.total = Texts!CartTotal(b.cart) + b.delivery
  BY <1>1, <1>2 DEF Texts!Settled
<1> QED
  BY <1>1, <1>2, <1>3, <1>4, SettledBy

\* and when the cart is edited: what is written back when a delivery goes is settled, too,
LEMMA EditSettles ==
    ASSUME Texts!Assumptions, Texts!TypeOK, Texts!Settled, NEW cart \in Bought, NEW drops \in BOOLEAN,
           NEW entry \in {"none", "start", "later"}, Texts!Edit(cart, drops, entry)
    PROVE  Texts!TypeOK' /\ Texts!Settled'
<1> DEFINE sold == Texts!Sold(cart)
           t == Texts!CartTotal(sold)
           whole == t + IF drops THEN 0 ELSE order.delivery
           written == [order EXCEPT !.cart = sold, !.total = whole,
                                      !.delivery = IF drops THEN 0 ELSE @]
           less == Texts!MaxZero(order.total - order.delivery)
           taken == IF entry = "none" THEN written
                    ELSE [written EXCEPT !.paid = Texts!MaxZero(@ - order.delivery),
                            !.total = IF entry = "start" THEN less ELSE @]
           back == [taken EXCEPT !.cart = order.cart]
<1>0. /\ order \in Orders
      /\ order.cart \in Seq(Texts!Line) /\ order.total \in Nat /\ order.paid \in Nat
      /\ order.delivery \in Nat /\ order.contract \in BOOLEAN
  BY OrderIs
<1>1. cart \in Seq(Texts!Line)
  BY DEF Texts!Assumptions
<1>2. sold \in Seq(Texts!Line)
  BY <1>1, SoldIs DEF Texts!Edit
<1>3. t \in Nat
  BY <1>2, CartCosts
<1>4. /\ order # Texts!NoBooking /\ offer' = offer
      /\ IF drops /\ order.contract
         THEN order' = back /\ unsettled' = IF entry = "start" THEN unsettled ELSE sold # order.cart
         ELSE order' = written /\ unsettled' = FALSE
  BY DEF Texts!Edit
<1>5. unsettled' \in BOOLEAN
  BY <1>4 DEF Texts!TypeOK
<1>6. whole \in Nat /\ less \in Nat /\ Texts!MaxZero(order.paid - order.delivery) \in Nat
  <2> HIDE DEF t
  <2> QED
    BY <1>0, <1>3 DEF Texts!MaxZero
<1> HIDE DEF sold, whole, less
<1>7. /\ written \in Orders /\ written.cart = sold /\ written.total = whole
      /\ written.delivery = IF drops THEN 0 ELSE order.delivery
      /\ written.paid = order.paid
  BY <1>0, <1>2, <1>6 DEF Orders
<1> HIDE DEF written
<1>8. /\ back \in Orders /\ back.cart = order.cart /\ back.delivery = written.delivery
      /\ back.total = IF entry = "start" THEN less ELSE whole
  <2>1. CASE entry = "none"
    BY <1>0, <1>6, <1>7, <2>1 DEF Orders
  <2>2. CASE entry # "none"
    <3> DEFINE p == Texts!MaxZero(written.paid - order.delivery)
               s == IF entry = "start" THEN less ELSE written.total
               k == [written EXCEPT !.paid = p, !.total = s]
    <3>1. p \in Nat /\ s \in Nat
      BY <1>6, <1>7
    <3>2. taken = k
      BY <2>2
    <3> HIDE DEF p, taken
    <3>3. k \in Orders /\ k.total = s /\ k.delivery = written.delivery
      BY <1>7, <3>1 DEF Orders
    <3>4. back = [k EXCEPT !.cart = order.cart]
      BY <3>2
    <3> HIDE DEF k
    <3>5. /\ back \in Orders /\ back.cart = order.cart /\ back.delivery = k.delivery
          /\ back.total = k.total
      BY <1>0, <3>3, <3>4 DEF Orders
    <3> QED
      BY <3>3, <3>5, <1>7
  <2> QED
    BY <2>1, <2>2
<1> HIDE DEF back
<1>9. whole = t + IF drops THEN 0 ELSE order.delivery
  BY DEF whole
<1>10. CASE drops /\ order.contract
  <2>1. back.delivery = 0 /\ whole = t
    <3> HIDE DEF t
    <3> QED
      BY <1>3, <1>7, <1>8, <1>9, <1>10
  <2>2. ~unsettled' => back.total = Texts!CartTotal(back.cart) + back.delivery
    <3>1. CASE entry = "start"
      <4>1. ASSUME ~unsettled'
            PROVE  back.total = Texts!CartTotal(back.cart) + back.delivery
        <5> DEFINE c == Texts!CartTotal(order.cart)
        <5>1. order.total = c + order.delivery
          BY <1>4, <1>10, <3>1, <4>1 DEF Texts!Settled
        <5>2. c \in Nat
          BY <1>0, CartCosts
        <5> HIDE DEF c
        <5>3. less = c
          BY <1>0, <5>1, <5>2 DEF less, Texts!MaxZero
        <5>4. back.total = c
          BY <1>8, <3>1, <5>3
        <5>5. c + 0 = c
          BY <5>2
        <5> QED
          BY <1>8, <2>1, <5>4, <5>5 DEF c
      <4> QED
        BY <4>1
    <3>2. CASE entry # "start"
      <4>1. ASSUME ~unsettled'
            PROVE  back.total = Texts!CartTotal(back.cart) + back.delivery
        <5>1. sold = order.cart
          BY <1>4, <1>10, <3>2, <4>1
        <5>2. Texts!CartTotal(back.cart) = t
          BY <1>8, <5>1
        <5>3. back.total = t
          BY <1>8, <2>1, <3>2
        <5> HIDE DEF t
        <5> QED
          BY <1>3, <2>1, <5>2, <5>3
      <4> QED
        BY <4>1
    <3> QED
      BY <3>1, <3>2
  <2>3. order' = back
    BY <1>4, <1>10
  <2> QED
    BY <1>4, <1>5, <1>8, <2>2, <2>3, SettledBy
<1>11. CASE ~(drops /\ order.contract)
  <2>1. order' = written
    BY <1>4, <1>11
  <2>2. written.total = Texts!CartTotal(written.cart) + written.delivery
    BY <1>7, <1>9
  <2> QED
    BY <1>4, <1>5, <1>7, <2>1, <2>2, SettledBy
<1> QED
  BY <1>10, <1>11

\* and the catalogue does not matter.
LEMMA CatalogueSettles ==
    ASSUME Texts!Assumptions, Texts!TypeOK, Texts!Settled, NEW item \in Goods,
           Texts!Withdraw(item) \/ \E price \in GoodsPrices : Texts!Reprice(item, price)
    PROVE  Texts!TypeOK' /\ Texts!Settled'
<1>1. order' = order /\ unsettled' = unsettled
  BY DEF Texts!Withdraw, Texts!Reprice
<1>2. offer' \in [Goods -> GoodsPrices \cup {Texts!Gone}]
  BY DEF Texts!Withdraw, Texts!Reprice, Texts!TypeOK
<1>3. Texts!TypeOK'
  BY <1>1, <1>2 DEF Texts!TypeOK
<1>4. Texts!Settled'
  BY <1>1 DEF Texts!Settled, Texts!CartTotal, Texts!LineTotal, Texts!Units, Texts!SumOf,
     Texts!MapThenSumSet, Texts!MapThenFoldSet
<1> QED
  BY <1>3, <1>4

\* So after every step,
LEMMA StepSettles == Texts!Assumptions
  => (Texts!TypeOK /\ Texts!Settled /\ [Texts!Next]_(Texts!vars) => Texts!TypeOK' /\ Texts!Settled')
<1> SUFFICES ASSUME Texts!Assumptions, Texts!TypeOK, Texts!Settled, [Texts!Next]_(Texts!vars)
             PROVE  Texts!TypeOK' /\ Texts!Settled'
  OBVIOUS
<1>1. ASSUME NEW cart \in Bought, NEW delivery \in {0, DeliveryFee}, Texts!Request(cart, delivery)
      PROVE  Texts!TypeOK' /\ Texts!Settled'
  BY <1>1, RequestSettles
<1>2. ASSUME NEW cart \in Bought, NEW delivery \in {0, DeliveryFee}, NEW named \in BOOLEAN,
             Texts!Purchase(cart, delivery, named)
      PROVE  Texts!TypeOK' /\ Texts!Settled'
  BY <1>2, PurchaseSettles
<1>3. CASE Texts!OpenContract \/ \E amount \in GoodsPrices : Texts!Pay(amount)
  BY <1>3, KeptSettled
<1>4. ASSUME NEW cart \in Bought, NEW drops \in BOOLEAN, NEW entry \in {"none", "start", "later"},
             Texts!Edit(cart, drops, entry)
      PROVE  Texts!TypeOK' /\ Texts!Settled'
  BY <1>4, EditSettles
<1>5. ASSUME NEW item \in Goods,
             Texts!Withdraw(item) \/ \E price \in GoodsPrices : Texts!Reprice(item, price)
      PROVE  Texts!TypeOK' /\ Texts!Settled'
  BY <1>5, CatalogueSettles
<1>6. CASE UNCHANGED Texts!vars
  <2>1. Texts!TypeOK'
    BY <1>6 DEF Texts!vars, Texts!TypeOK
  <2>2. Texts!Settled'
    BY <1>6 DEF Texts!vars, Texts!Settled, Texts!CartTotal, Texts!LineTotal, Texts!Units,
       Texts!SumOf, Texts!MapThenSumSet, Texts!MapThenFoldSet
  <2> QED
    BY <2>1, <2>2
<1> QED
  BY <1>1, <1>2, <1>3, <1>4, <1>5, <1>6 DEF Texts!Next

\* always.
LEMMA TextsInvariance == Texts!Assumptions => (Texts!Spec => [](Texts!TypeOK /\ Texts!Settled))
<1> SUFFICES ASSUME Texts!Assumptions PROVE Texts!Spec => [](Texts!TypeOK /\ Texts!Settled)
  OBVIOUS
<1> QED
  BY InitSettled, StepSettles, PTL DEF Texts!Spec

\* The customer's mails change what a line names, not what it is.
LEMMA EnrichedIs ==
    ASSUME NEW l \in Texts!Line
    PROVE  /\ Texts!Enriched(l).kind = l.kind /\ Texts!Enriched(l).quantity = l.quantity
           /\ Texts!Enriched(l).passengers = l.passengers /\ Texts!Enriched(l).day = l.day
           /\ l.held => Texts!Enriched(l) = l
           /\ l.kind = "vehicle" => Texts!Enriched(l).price = l.price
           /\ ~l.held /\ offer[l.item] # Texts!Gone /\ l.kind # "vehicle"
                => Texts!Enriched(l).price = offer[l.item] /\ Texts!Enriched(l).held
BY DEF Texts!Enriched, Texts!Line

\* Facts are told by their field.
LEMMA FactsAre ==
    ASSUME NEW i, NEW row, NEW fields, NEW t
    PROVE  t \in Texts!Facts(i, row, fields) <=>
             \E f \in fields : /\ f = "quantity" => row[f] > 1
                               /\ f = "passengers" => row[f] # <<0>>
                               /\ t = <<f, i, row[f]>>
BY Zenon DEF Texts!Facts

\* Rows of the lines, made from a row and a set of fields for each.
RowsOf(rw, ds) == UNION {Texts!Facts(i, rw[i], ds[i]) : i \in DOMAIN rw}

\* What they tell.
LEMMA RowsTold ==
    ASSUME NEW rw, NEW ds, NEW t
    PROVE  t \in RowsOf(rw, ds) <=>
             \E i \in DOMAIN rw : \E f \in ds[i] :
                /\ f = "quantity" => rw[i][f] > 1
                /\ f = "passengers" => rw[i][f] # <<0>>
                /\ t = <<f, i, rw[i][f]>>
<1>1. t \in RowsOf(rw, ds) <=> \E i \in DOMAIN rw : t \in Texts!Facts(i, rw[i], ds[i])
  BY DEF RowsOf
<1>2. ASSUME NEW i
      PROVE  t \in Texts!Facts(i, rw[i], ds[i]) <=>
                \E f \in ds[i] : /\ f = "quantity" => rw[i][f] > 1
                                 /\ f = "passengers" => rw[i][f] # <<0>>
                                 /\ t = <<f, i, rw[i][f]>>
  BY FactsAre
<1> QED
  BY <1>1, <1>2, Zenon

\* What is told of a field is in the row of that line.
LEMMA ToldIs ==
    ASSUME NEW rw, NEW ds, NEW mail, mail.rows = RowsOf(rw, ds), NEW field, NEW i \in DOMAIN rw,
           NEW default
    PROVE  /\ field \in ds[i] /\ (field = "quantity" => rw[i][field] > 1)
              /\ (field = "passengers" => rw[i][field] # <<0>>)
              => Texts!Told(mail, field, i, default) = rw[i][field]
           /\ field \notin ds[i] => Texts!Told(mail, field, i, default) = default
           /\ field = "quantity" /\ ~(rw[i][field] > 1)
               => Texts!Told(mail, field, i, default) = default
<1> DEFINE Mentions == \E t \in mail.rows : t[1] = field /\ t[2] = i
<1>1. ASSUME NEW t \in mail.rows, t[1] = field, t[2] = i
      PROVE  /\ field \in ds[i] /\ t[3] = rw[i][field]
             /\ field = "quantity" => rw[i][field] > 1
  <2>4. PICK j \in DOMAIN rw :
          \E f \in ds[j] : /\ f = "quantity" => rw[j][f] > 1
                           /\ f = "passengers" => rw[j][f] # <<0>>
                           /\ t = <<f, j, rw[j][f]>>
    BY <1>1, RowsTold
  <2>1. PICK f \in ds[j] : /\ f = "quantity" => rw[j][f] > 1
                           /\ f = "passengers" => rw[j][f] # <<0>>
                           /\ t = <<f, j, rw[j][f]>>
    BY <2>4
  <2>2. t[1] = f /\ t[2] = j /\ t[3] = rw[j][f]
    BY <2>1
  <2> QED
    BY <1>1, <2>1, <2>2
<1>2. Mentions => Texts!Told(mail, field, i, default) = rw[i][field]
  <2> DEFINE u == CHOOSE t \in mail.rows : t[1] = field /\ t[2] = i
  <2> SUFFICES ASSUME Mentions PROVE Texts!Told(mail, field, i, default) = rw[i][field]
    OBVIOUS
  <2>1. u \in mail.rows /\ u[1] = field /\ u[2] = i
    OBVIOUS
  <2>2. Texts!Told(mail, field, i, default) = u[3]
    BY DEF Texts!Told
  <2> HIDE DEF u
  <2> QED
    BY <1>1, <2>1, <2>2
<1>3. ~Mentions => Texts!Told(mail, field, i, default) = default
  BY DEF Texts!Told
<1>4. ASSUME field \in ds[i], field = "quantity" => rw[i][field] > 1,
             field = "passengers" => rw[i][field] # << 0 >>
      PROVE  Mentions
  <2> DEFINE t == <<field, i, rw[i][field]>>
  <2>1. t \in RowsOf(rw, ds)
    BY <1>4, RowsTold
  <2>2. t[1] = field /\ t[2] = i
    OBVIOUS
  <2> QED
    BY <2>1, <2>2
<1>5. Mentions => field \in ds[i] /\ (field = "quantity" => rw[i][field] > 1)
  BY <1>1
<1> HIDE DEF Mentions
<1> QED
  BY <1>2, <1>3, <1>4, <1>5

\* The customer's rows.
CustomersRows == [i \in Texts!Lines |-> Texts!Row(Texts!Customer(i))]

\* The fields of the full rows,
FullRows == [i \in Texts!Lines |-> Texts!Details(i)]
\* and of those that leave out the days.
CutRows == [i \in Texts!Lines |-> Texts!Details(i) \ {"days"}]

\* The detailed mails are made of these.
LEMMA CustomersRowsAre ==
    /\ Texts!ConfirmationRows = RowsOf(CustomersRows, FullRows)
    /\ Texts!ConfirmationRowsEn = RowsOf(CustomersRows, FullRows)
    /\ Texts!PendingRows = RowsOf(CustomersRows, FullRows)
    /\ Texts!RejectedRows = RowsOf(CustomersRows, FullRows)
    /\ Texts!CancelledRows = RowsOf(CustomersRows, CutRows)
    /\ Texts!CancelledRowsEn = RowsOf(CustomersRows, CutRows)
<1>1. \A i \in Texts!Lines : /\ CustomersRows[i] = Texts!Row(Texts!Customer(i))
        /\ FullRows[i] = Texts!Details(i)
                             /\ CutRows[i] = Texts!Details(i) \ {"days"}
  BY DEF CustomersRows, FullRows, CutRows
<1>2. DOMAIN CustomersRows = Texts!Lines
  BY DEF CustomersRows
<1>3. RowsOf(CustomersRows, FullRows)
        = UNION {Texts!Facts(i, Texts!Row(Texts!Customer(i)), Texts!Details(i)) : i \in Texts!Lines}
  BY <1>1, <1>2 DEF RowsOf
<1>4. RowsOf(CustomersRows, CutRows)
        = UNION {Texts!Facts(i, Texts!Row(Texts!Customer(i)), Texts!Details(i) \ {"days"}) :
          i \in Texts!Lines}
  BY <1>1, <1>2 DEF RowsOf
<1> QED
  BY <1>3, <1>4 DEF Texts!ConfirmationRows, Texts!ConfirmationRowsEn, Texts!PendingRows,
     Texts!RejectedRows,
                    Texts!CancelledRows, Texts!CancelledRowsEn, Texts!RowEn

\* Each of the detailed mails to the customer.
LEMMA DetailedMails ==
    ASSUME NEW mail \in Texts!OfCustomers
    PROVE  /\ mail.rows = RowsOf(CustomersRows, FullRows) \/ mail.rows = RowsOf(CustomersRows, CutRows)
           /\ <<"total", order.total>> \in mail.sums
<1>1. \A m \in {Texts!Confirmation, Texts!ConfirmationEn, Texts!Pending, Texts!Rejected} :
        m.rows = RowsOf(CustomersRows, FullRows) /\ <<"total", order.total>> \in m.sums
  BY CustomersRowsAre DEF Texts!Confirmation, Texts!ConfirmationEn, Texts!Pending, Texts!Rejected,
     Texts!Sums
<1>2. \A m \in {Texts!Cancelled, Texts!CancelledEn} :
        m.rows = RowsOf(CustomersRows, CutRows) /\ <<"total", order.total>> \in m.sums
  BY CustomersRowsAre DEF Texts!Cancelled, Texts!CancelledEn
<1> QED
  BY <1>1, <1>2 DEF Texts!OfCustomers

\* The lines of the cart.
LEMMA LinesAre ==
    ASSUME Texts!TypeOK, NEW i \in Texts!Lines
    PROVE  order.cart[i] \in Texts!Line
BY OrderIs DEF Texts!Lines

\* What a row says of its line.
LEMMA RowIs ==
    ASSUME Texts!TypeOK, NEW i \in Texts!Lines
    PROVE  /\ Texts!Row(Texts!Customer(i)).price = IF Texts!Customer(i).held
               \/ Texts!Rental(i) THEN Texts!Customer(i).price ELSE 0
           /\ Texts!Row(Texts!Customer(i)).quantity = Texts!Units(order.cart[i])
           /\ Texts!Row(Texts!Customer(i)).day = order.cart[i].day
<1>1. order.cart[i] \in Texts!Line
  BY LinesAre
<1>2. /\ Texts!Customer(i).kind = order.cart[i].kind
      /\ Texts!Customer(i).quantity = order.cart[i].quantity
      /\ Texts!Customer(i).day = order.cart[i].day
  BY <1>1, EnrichedIs DEF Texts!Customer
<1> QED
  BY <1>2 DEF Texts!Row, Texts!Units, Texts!LocalDay, Texts!Rental

\* What is told of a line comes to what it costs.
LEMMA LineAddsUp ==
    ASSUME Texts!Assumptions, Texts!TypeOK, NEW i \in Texts!Lines,
           \/ order.cart[i].held \/ Texts!Rental(i)
           \/ offer[order.cart[i].item] = order.cart[i].price,
           NEW mail \in Texts!OfCustomers
    PROVE  Texts!Told(mail, "price", i, 0) * Texts!Told(mail, "quantity", i, 1)
             = Texts!LineTotal(order.cart[i])
<1> DEFINE l == order.cart[i]
<1>1. l \in Texts!Line
  BY LinesAre
<1>2. l.price \in Nat /\ Texts!Units(l) \in Nat /\ Texts!Units(l) >= 1
  BY <1>1, LineHas, UnitsIs
<1>3. CustomersRows[i].price = l.price
  <2>1. CASE l.held
    <3>1. Texts!Customer(i) = l
      BY <1>1, <2>1, EnrichedIs DEF Texts!Customer
    <3> QED
      BY <2>1, <3>1, RowIs DEF CustomersRows
  <2>2. CASE Texts!Rental(i)
    <3>1. Texts!Customer(i).price = l.price
      BY <1>1, <2>2, EnrichedIs DEF Texts!Customer, Texts!Rental
    <3> QED
      BY <2>2, <3>1, RowIs DEF CustomersRows
  <2>3. CASE ~l.held /\ ~Texts!Rental(i)
    <3>1. offer[l.item] = l.price /\ offer[l.item] # Texts!Gone
      BY <1>2, <2>3 DEF Texts!Gone
    <3>2. Texts!Customer(i).price = l.price /\ Texts!Customer(i).held
      BY <1>1, <2>3, <3>1, EnrichedIs DEF Texts!Customer, Texts!Rental
    <3> QED
      BY <3>2, RowIs DEF CustomersRows
  <2> QED
    BY <2>1, <2>2, <2>3
<1>4. CustomersRows[i].quantity = Texts!Units(l) /\ DOMAIN CustomersRows = Texts!Lines
  BY RowIs DEF CustomersRows
<1>5. /\ "price" \in FullRows[i] /\ "price" \in CutRows[i]
      /\ Texts!Rental(i) => "quantity" \notin FullRows[i] /\ "quantity" \notin CutRows[i]
      /\ ~Texts!Rental(i) => "quantity" \in FullRows[i] /\ "quantity" \in CutRows[i]
  BY DEF FullRows, CutRows, Texts!Details
<1>6. ASSUME NEW ds \in {FullRows, CutRows}, mail.rows = RowsOf(CustomersRows, ds)
      PROVE  /\ Texts!Told(mail, "price", i, 0) = l.price
             /\ Texts!Told(mail, "quantity", i, 1) = IF Texts!Rental(i) THEN 1 ELSE Texts!Units(l)
  <2>1. Texts!Told(mail, "price", i, 0) = CustomersRows[i]["price"]
    BY <1>4, <1>5, <1>6, ToldIs
  <2>2. Texts!Rental(i) => Texts!Told(mail, "quantity", i, 1) = 1
    BY <1>4, <1>5, <1>6, ToldIs
  <2>3. ~Texts!Rental(i) /\ CustomersRows[i]["quantity"] > 1
          => Texts!Told(mail, "quantity", i, 1) = CustomersRows[i]["quantity"]
    BY <1>4, <1>5, <1>6, ToldIs
  <2>4. ~(CustomersRows[i]["quantity"] > 1) => Texts!Told(mail, "quantity", i, 1) = 1
    BY <1>4, <1>6, ToldIs
  <2>5. CustomersRows[i]["quantity"] = Texts!Units(l) /\ CustomersRows[i]["price"] = l.price
    BY <1>3, <1>4
  <2> QED
    BY <1>2, <2>1, <2>2, <2>3, <2>4, <2>5
<1>7. /\ Texts!Told(mail, "price", i, 0) = l.price
      /\ Texts!Told(mail, "quantity", i, 1) = IF Texts!Rental(i) THEN 1 ELSE Texts!Units(l)
  BY <1>6, DetailedMails
<1> QED
  BY <1>2, <1>7 DEF Texts!LineTotal, Texts!Rental

\* So the mail adds up.
LEMMA TextsAddUp == Texts!Assumptions => (Texts!TypeOK /\ Texts!Settled => Texts!RowsAddUp)
<1> SUFFICES ASSUME Texts!Assumptions, Texts!TypeOK, Texts!Settled, order # Texts!NoBooking,
                    ~unsettled,
                    \A i \in Texts!Lines : \/ order.cart[i].held \/ Texts!Rental(i)
                                           \/ offer[order.cart[i].item] = order.cart[i].price,
                    NEW mail \in Texts!OfCustomers
             PROVE  <<"total", order.delivery +
                        Texts!SumOf([i \in Texts!Lines |-> Texts!Told(mail, "price", i, 0)
                                                 * Texts!Told(mail, "quantity", i, 1)])>> \in mail.sums
  BY DEF Texts!RowsAddUp
<1>1. \A i \in Texts!Lines : Texts!Told(mail, "price", i, 0) * Texts!Told(mail, "quantity", i, 1)
                         = Texts!LineTotal(order.cart[i])
  BY LineAddsUp
<1>2. [i \in Texts!Lines |-> Texts!Told(mail, "price", i, 0) * Texts!Told(mail, "quantity", i, 1)]
        = [i \in Texts!Lines |-> Texts!LineTotal(order.cart[i])]
  BY <1>1
<1>3. Texts!SumOf([i \in Texts!Lines |->
              Texts!Told(mail, "price", i, 0) * Texts!Told(mail, "quantity", i, 1)])
        = Texts!CartTotal(order.cart)
  BY <1>2 DEF Texts!CartTotal, Texts!Lines
<1> DEFINE c == Texts!CartTotal(order.cart)
<1>4. c \in Nat /\ order.delivery \in Nat /\ order.total = c + order.delivery
  BY OrderIs, CartCosts DEF Texts!Settled
<1> HIDE DEF c
<1>5. order.total = order.delivery + c
  BY <1>4
<1> QED
  BY <1>3, <1>5, DetailedMails DEF c

\* The rows of the short English mails, and of the staff's.
BriefRows == [i \in Texts!Lines |-> Texts!ShortRow(Texts!Customer(i))]

\* and the fields of the short ones.
FewFields == [i \in Texts!Lines |-> Texts!Short(i)]

\* What the staff is told.
StaffRows == [i \in Texts!Lines |-> Texts!StaffRow(order.cart[i])]

\* The mails are made of these.
LEMMA OtherRowsAre ==
    /\ Texts!PendingRowsEn = RowsOf(BriefRows, FewFields)
    /\ Texts!RejectedRowsEn = RowsOf(BriefRows, FewFields)
    /\ Texts!StaffFacts = RowsOf(StaffRows, CutRows)
    /\ Texts!StaffPendingFacts = RowsOf(StaffRows, CutRows)
<1>1. \A i \in Texts!Lines : /\ BriefRows[i] = Texts!ShortRow(Texts!Customer(i))
        /\ FewFields[i] = Texts!Short(i)
                             /\ StaffRows[i] = Texts!StaffRow(order.cart[i])
                             /\ CutRows[i] = Texts!Details(i) \ {"days"}
  BY DEF BriefRows, FewFields, StaffRows, CutRows
<1>2. DOMAIN BriefRows = Texts!Lines /\ DOMAIN StaffRows = Texts!Lines
  BY DEF BriefRows, StaffRows
<1>3. RowsOf(BriefRows, FewFields)
        = UNION {Texts!Facts(i, Texts!ShortRow(Texts!Customer(i)), Texts!Short(i)) : i \in Texts!Lines}
  BY <1>1, <1>2 DEF RowsOf
<1>4. RowsOf(StaffRows, CutRows)
        = UNION {Texts!Facts(i, Texts!StaffRow(order.cart[i]), Texts!Details(i) \ {"days"}) :
          i \in Texts!Lines}
  BY <1>1, <1>2 DEF RowsOf
<1> QED
  BY <1>3, <1>4 DEF Texts!PendingRowsEn, Texts!RejectedRowsEn, Texts!StaffFacts,
     Texts!StaffPendingFacts

\* One number of passengers is what they count.
LEMMA CountOfOne ==
    ASSUME NEW l \in Texts!Line, ~(Len(l.passengers) > 1)
    PROVE  <<Texts!Count(l.passengers)>> = l.passengers
<1> DEFINE p == l.passengers
<1>1. p \in Seq(Nat) /\ p # <<>>
  BY LineHas
<1> HIDE DEF p
<1>2. Len(p) = 1
  <2>1. Len(p) \in Nat /\ Len(p) # 0
    BY <1>1
  <2>2. ~(Len(p) > 1)
    BY DEF p
  <2> DEFINE n == Len(p)
  <2>3. n \in Nat /\ n # 0 /\ ~(n > 1)
    BY <2>1, <2>2
  <2> HIDE DEF n
  <2>4. n = 1
    BY <2>3
  <2> QED
    BY <2>4 DEF n
<1>3. p = <<p[1]>> /\ p[1] \in Nat
  BY <1>1, <1>2
<1>4. Texts!SumOf(p) = p[1]
  BY <1>3, SumOfThat
<1> QED
  BY <1>3, <1>4 DEF Texts!Count, p

\* What a short row says is what the long one does, but for the passengers.
LEMMA ShortIs ==
    ASSUME Texts!TypeOK, NEW i \in Texts!Lines
    PROVE  /\ FewFields[i] \subseteq FullRows[i] /\ "price" \in FewFields[i]
           /\ BriefRows[i].name = CustomersRows[i].name /\ BriefRows[i].price = CustomersRows[i].price
           /\ BriefRows[i].day = CustomersRows[i].day /\ BriefRows[i].days = CustomersRows[i].days
           /\ BriefRows[i].passengers = order.cart[i].passengers
           /\ CustomersRows[i].passengers = <<Texts!Count(order.cart[i].passengers)>>
           /\ FewFields[i] \subseteq {"name", "price", "passengers", "days", "day"}
<1>1. Texts!Customer(i).passengers = order.cart[i].passengers
  BY LinesAre, EnrichedIs DEF Texts!Customer
<1> QED
  BY <1>1 DEF FewFields, FullRows, Texts!Short, Texts!Details, BriefRows, CustomersRows,
     Texts!ShortRow, Texts!Row

\* Hence the short mails tell nothing else.
LEMMA ShortAgrees ==
    ASSUME Texts!TypeOK
    PROVE  /\ \A t \in RowsOf(BriefRows, FewFields) :
                ~(t[1] = "passengers" /\ Len(order.cart[t[2]].passengers) > 1)
                => t \in RowsOf(CustomersRows, FullRows)
           /\ \A t \in RowsOf(CustomersRows, FullRows) : t[1] = "price"
               => t \in RowsOf(BriefRows, FewFields)
<1>1. DOMAIN BriefRows = Texts!Lines /\ DOMAIN CustomersRows = Texts!Lines
  BY DEF BriefRows, CustomersRows
<1>2. ASSUME NEW t \in RowsOf(BriefRows, FewFields),
             ~(t[1] = "passengers" /\ Len(order.cart[t[2]].passengers) > 1)
      PROVE  t \in RowsOf(CustomersRows, FullRows)
  <2>1. PICK i \in Texts!Lines : \E f \in FewFields[i] : /\ f = "quantity" => BriefRows[i][f] > 1
                                                         /\ f = "passengers" => BriefRows[i][f] # <<0>>
                                                         /\ t = <<f, i, BriefRows[i][f]>>
    BY <1>1, RowsTold
  <2>2. PICK f \in FewFields[i] : /\ f = "quantity" => BriefRows[i][f] > 1
                                  /\ f = "passengers" => BriefRows[i][f] # <<0>>
                                  /\ t = <<f, i, BriefRows[i][f]>>
    BY <2>1
  <2>3. t[1] = f /\ t[2] = i
    BY <2>2
  <2>4. f \in FullRows[i] /\ f # "quantity"
    BY ShortIs
  <2>5. BriefRows[i][f] = CustomersRows[i][f]
    <3>1. CASE f = "passengers"
      <4>1. order.cart[i] \in Texts!Line /\ ~(Len(order.cart[i].passengers) > 1)
        BY <1>2, <2>3, <3>1, LinesAre
      <4> QED
        BY <3>1, <4>1, CountOfOne, ShortIs
    <3>2. CASE f # "passengers"
      BY <3>2, ShortIs
    <3> QED
      BY <3>1, <3>2
  <2>6. /\ f = "quantity" => CustomersRows[i][f] > 1
        /\ f = "passengers" => CustomersRows[i][f] # <<0>>
        /\ t = <<f, i, CustomersRows[i][f]>>
    BY <2>2, <2>4, <2>5
  <2> QED
    BY <1>1, <2>4, <2>6, RowsTold
<1>3. ASSUME NEW t \in RowsOf(CustomersRows, FullRows), t[1] = "price"
      PROVE  t \in RowsOf(BriefRows, FewFields)
  <2>1. PICK i \in Texts!Lines : \E f \in FullRows[i] : /\ f = "quantity" => CustomersRows[i][f] > 1
                                                        /\ f = "passengers"
                                                            => CustomersRows[i][f] # <<0>>
                                                        /\ t = <<f, i, CustomersRows[i][f]>>
    BY <1>1, RowsTold
  <2>2. PICK f \in FullRows[i] : t = <<f, i, CustomersRows[i][f]>>
    BY <2>1
  <2>3. t[1] = f /\ f = "price" /\ f # "quantity" /\ f # "passengers"
    BY <1>3, <2>2
  <2>4. BriefRows[i][f] = CustomersRows[i][f] /\ f \in FewFields[i]
    BY <2>3, ShortIs
  <2>5. t = <<f, i, BriefRows[i][f]>>
    BY <2>2, <2>4
  <2> QED
    BY <1>1, <2>3, <2>4, <2>5, RowsTold
<1> QED
  BY <1>2, <1>3

\* Both languages tell the same.
LEMMA TextsInBothLanguages == Texts!TypeOK => Texts!LanguagesAgree
<1> SUFFICES ASSUME Texts!TypeOK PROVE Texts!LanguagesAgree
  OBVIOUS
<1> DEFINE Ages(mail) == {f \in mail.rows : f[1] = "passengers"
      /\ Len(order.cart[f[2]].passengers) > 1}
<1>1. Texts!ConfirmationEn = Texts!Confirmation /\ Texts!CancelledEn = Texts!Cancelled
  BY CustomersRowsAre DEF Texts!ConfirmationEn, Texts!Confirmation, Texts!CancelledEn, Texts!Cancelled
<1>2. /\ Texts!PendingEn.rows = RowsOf(BriefRows, FewFields)
      /\ Texts!RejectedEn.rows = RowsOf(BriefRows, FewFields)
      /\ Texts!Pending.rows = RowsOf(CustomersRows, FullRows)
      /\ Texts!Rejected.rows = RowsOf(CustomersRows, FullRows)
      /\ Texts!PendingEn.sums \subseteq Texts!Pending.sums
      /\ Texts!RejectedEn.sums \subseteq Texts!Rejected.sums
  BY CustomersRowsAre, OtherRowsAre DEF Texts!PendingEn, Texts!RejectedEn, Texts!Pending,
     Texts!Rejected
<1>3. ASSUME NEW a, NEW b, a.rows = RowsOf(BriefRows, FewFields),
             b.rows = RowsOf(CustomersRows, FullRows)
      PROVE  /\ a.rows \ Ages(a) \subseteq b.rows
             /\ {f \in b.rows : f[1] = "price"} \subseteq a.rows
  <2>1. ASSUME NEW t \in a.rows \ Ages(a)
        PROVE  t \in b.rows
    BY <1>3, <2>1, ShortAgrees
  <2>2. ASSUME NEW t \in b.rows, t[1] = "price"
        PROVE  t \in a.rows
    BY <1>3, <2>2, ShortAgrees
  <2> QED
    BY <2>1, <2>2
<1>4. /\ Texts!PendingEn.rows \ Ages(Texts!PendingEn) \subseteq Texts!Pending.rows
      /\ {f \in Texts!Pending.rows : f[1] = "price"} \subseteq Texts!PendingEn.rows
  BY <1>2, <1>3
<1>5. /\ Texts!RejectedEn.rows \ Ages(Texts!RejectedEn) \subseteq Texts!Rejected.rows
      /\ {f \in Texts!Rejected.rows : f[1] = "price"} \subseteq Texts!RejectedEn.rows
  BY <1>2, <1>3
<1>6. \A pair \in {<<Texts!PendingEn, Texts!Pending>>, <<Texts!RejectedEn, Texts!Rejected>>} :
        \/ pair[1] = Texts!PendingEn /\ pair[2] = Texts!Pending
        \/ pair[1] = Texts!RejectedEn /\ pair[2] = Texts!Rejected
  OBVIOUS
<1>7. ASSUME NEW pair \in {<<Texts!PendingEn, Texts!Pending>>, <<Texts!RejectedEn, Texts!Rejected>>}
      PROVE  /\ pair[1].rows \ Ages(pair[1]) \subseteq pair[2].rows
             /\ pair[1].sums \subseteq pair[2].sums
             /\ {f \in pair[2].rows : f[1] = "price"} \subseteq pair[1].rows
  <2> HIDE DEF Ages
  <2> QED
    BY <1>2, <1>4, <1>5, <1>6
<1> QED
  BY <1>1, <1>7 DEF Texts!LanguagesAgree

\* What the staff is told of a cart that holds its items.
LEMMA StaffIs ==
    ASSUME Texts!TypeOK, Texts!Printable, NEW i \in Texts!Lines
    PROVE  /\ StaffRows[i].name = CustomersRows[i].name /\ StaffRows[i].price = CustomersRows[i].price
           /\ StaffRows[i].quantity = CustomersRows[i].quantity
           /\ StaffRows[i].passengers = CustomersRows[i].passengers
           /\ StaffRows[i].category = CustomersRows[i].category
<1> DEFINE l == order.cart[i]
<1>1. l \in Texts!Line /\ l.held /\ l.category
  BY LinesAre DEF Texts!Printable
<1>2. Texts!Customer(i) = l
  BY <1>1, EnrichedIs DEF Texts!Customer
<1>3. (l.held /\ l.category) = TRUE
  BY <1>1, Zenon
<1>4. StaffRows[i] = Texts!StaffRow(l) /\ CustomersRows[i] = Texts!Row(l)
  BY <1>2 DEF StaffRows, CustomersRows
<1> HIDE DEF l
<1>5. Texts!Row(l).category = (l.held /\ l.category) /\ Texts!StaffRow(l).category = TRUE
  BY Zenon DEF Texts!Row, Texts!StaffRow
<1>6. /\ Texts!StaffRow(l).name = l.item /\ Texts!StaffRow(l).price = l.price
      /\ Texts!StaffRow(l).quantity = Texts!Units(l)
      /\ Texts!StaffRow(l).passengers = <<Texts!Count(l.passengers)>>
  BY DEF Texts!StaffRow
<1>7. /\ Texts!Row(l).name = l.item /\ Texts!Row(l).price = l.price
      /\ Texts!Row(l).quantity = Texts!Units(l)
      /\ Texts!Row(l).passengers = <<Texts!Count(l.passengers)>>
  BY <1>1 DEF Texts!Row
<1>8. StaffRows[i].category = CustomersRows[i].category
  BY <1>3, <1>4, <1>5, Zenon
<1> QED
  BY <1>4, <1>6, <1>7, <1>8

\* The fields of the rows.
LEMMA FieldsAre ==
    ASSUME NEW i \in Texts!Lines
    PROVE  /\ CutRows[i] = FullRows[i] \ {"days"}
           /\ FullRows[i] \subseteq {"name", "category", "price", "passengers", "day", "days",
                                  "quantity"}
BY DEF CutRows, FullRows, Texts!Details

\* The staff is told the same, but for days.
LEMMA StaffAgrees ==
    ASSUME Texts!TypeOK, Texts!Printable
    PROVE  {f \in RowsOf(StaffRows, CutRows) : f[1] # "day"}
             = {f \in RowsOf(CustomersRows, FullRows) : f[1] \notin {"day", "days"}}
<1>1. DOMAIN StaffRows = Texts!Lines /\ DOMAIN CustomersRows = Texts!Lines
  BY DEF StaffRows, CustomersRows
<1>2. ASSUME NEW i \in Texts!Lines, NEW f \in FullRows[i], f # "day", f # "days"
      PROVE  StaffRows[i][f] = CustomersRows[i][f] /\ f \in CutRows[i]
  <2>1. \/ f = "name" \/ f = "category" \/ f = "price" \/ f = "passengers" \/ f = "quantity"
    BY <1>2, FieldsAre
  <2>2. CASE f = "category"
    <3>1. StaffRows[i].category = CustomersRows[i].category
      BY StaffIs
    <3>2. f \in CutRows[i]
      BY <1>2, FieldsAre
    <3> QED
      BY <2>2, <3>1, <3>2, Zenon
  <2>3. CASE f # "category"
    BY <1>2, <2>1, <2>3, StaffIs, FieldsAre
  <2> QED
    BY <2>2, <2>3
<1>3. ASSUME NEW t, t \in RowsOf(StaffRows, CutRows), t[1] # "day"
      PROVE  t \in RowsOf(CustomersRows, FullRows) /\ t[1] \notin {"day", "days"}
  <2>1. PICK i \in Texts!Lines : \E f \in CutRows[i] : /\ f = "quantity" => StaffRows[i][f] > 1
                                                       /\ f = "passengers" => StaffRows[i][f] # <<0>>
                                                       /\ t = <<f, i, StaffRows[i][f]>>
    BY <1>1, <1>3, RowsTold
  <2>2. PICK f \in CutRows[i] : /\ f = "quantity" => StaffRows[i][f] > 1
                                /\ f = "passengers" => StaffRows[i][f] # <<0>>
                                /\ t = <<f, i, StaffRows[i][f]>>
    BY <2>1, Zenon
  <2>3. t[1] = f
    BY <2>2
  <2>4. f \in FullRows[i] /\ f # "days" /\ f # "day"
    BY <1>3, <2>3, FieldsAre
  <2>5. StaffRows[i][f] = CustomersRows[i][f]
    BY <1>2, <2>4
  <2>6. /\ f = "quantity" => CustomersRows[i][f] > 1
        /\ f = "passengers" => CustomersRows[i][f] # <<0>>
        /\ t = <<f, i, CustomersRows[i][f]>>
    BY <2>2, <2>5, Zenon
  <2>7. t \in RowsOf(CustomersRows, FullRows)
    BY <1>1, <2>4, <2>6, RowsTold, Zenon
  <2> QED
    BY <2>3, <2>4, <2>7
<1>4. ASSUME NEW t, t \in RowsOf(CustomersRows, FullRows), t[1] \notin {"day", "days"}
      PROVE  t \in RowsOf(StaffRows, CutRows) /\ t[1] # "day"
  <2>1. PICK i \in Texts!Lines : \E f \in FullRows[i] : /\ f = "quantity" => CustomersRows[i][f] > 1
                                                        /\ f = "passengers"
                                                            => CustomersRows[i][f] # <<0>>
                                                        /\ t = <<f, i, CustomersRows[i][f]>>
    BY <1>1, <1>4, RowsTold
  <2>2. PICK f \in FullRows[i] : /\ f = "quantity" => CustomersRows[i][f] > 1
                                 /\ f = "passengers" => CustomersRows[i][f] # <<0>>
                                 /\ t = <<f, i, CustomersRows[i][f]>>
    BY <2>1, Zenon
  <2>3. t[1] = f
    BY <2>2
  <2>4. f # "days" /\ f # "day"
    BY <1>4, <2>3
  <2>5. StaffRows[i][f] = CustomersRows[i][f] /\ f \in CutRows[i]
    BY <1>2, <2>4
  <2>6. /\ f = "quantity" => StaffRows[i][f] > 1
        /\ f = "passengers" => StaffRows[i][f] # <<0>>
        /\ t = <<f, i, StaffRows[i][f]>>
    BY <2>2, <2>5, Zenon
  <2>7. t \in RowsOf(StaffRows, CutRows)
    BY <1>1, <2>5, <2>6, RowsTold, Zenon
  <2> QED
    BY <1>4, <2>7
<1> QED
  BY <1>3, <1>4, Zenon

\* The amount that the staff is told of a line when a booking is cancelled.
LEMMA StaffCancelledIs ==
    ASSUME Texts!TypeOK, Texts!Printable, NEW i \in Texts!Lines
    PROVE  Texts!Told(Texts!StaffCancelled, "amount", i, 0) = Texts!LineTotal(order.cart[i])
<1> DEFINE A(j) == <<"amount", j, IF order.cart[j].held \/ Texts!Rental(j)
                                  THEN Texts!LineTotal(order.cart[j]) ELSE 0>>
           N(j) == <<"name", j, IF order.cart[j].held THEN order.cart[j].item ELSE Texts!Default>>
           u == CHOOSE f \in Texts!StaffCancelled.rows : f[1] = "amount" /\ f[2] = i
<1>1. Texts!StaffCancelled.rows = UNION {{N(j), A(j)} : j \in Texts!Lines}
  BY DEF Texts!StaffCancelled, Texts!StaffCancelledFacts
<1>2. \A j \in Texts!Lines : /\ N(j)[1] = "name" /\ A(j)[1] = "amount" /\ A(j)[2] = j
                             /\ A(j)[3] = IF order.cart[j].held \/ Texts!Rental(j)
                                          THEN Texts!LineTotal(order.cart[j]) ELSE 0
  OBVIOUS
<1>3. A(i) \in Texts!StaffCancelled.rows
  BY <1>1
<1> HIDE DEF A, N
<1>4. \E f \in Texts!StaffCancelled.rows : f[1] = "amount" /\ f[2] = i
  BY <1>2, <1>3
<1>5. u \in Texts!StaffCancelled.rows /\ u[1] = "amount" /\ u[2] = i
  BY <1>4
<1>6. Texts!Told(Texts!StaffCancelled, "amount", i, 0) = u[3]
  BY <1>4 DEF Texts!Told
<1> HIDE DEF u
<1>7. u = A(i)
  <2>1. PICK j \in Texts!Lines : u \in {N(j), A(j)}
    BY <1>1, <1>5
  <2> QED
    BY <1>2, <1>5, <2>1
<1>8. order.cart[i].held
  BY DEF Texts!Printable
<1> QED
  BY <1>2, <1>6, <1>7, <1>8

\* So all that the staff is told agrees.
LEMMA TextsForStaff == Texts!Assumptions => (Texts!TypeOK => Texts!StaffToldTheSame)
<1> SUFFICES ASSUME Texts!Assumptions, Texts!TypeOK, Texts!Printable
             PROVE  /\ \A pair
                        \in {<<Texts!StaffNew, Texts!Confirmation>>, <<Texts!StaffPending,
                        Texts!Pending>>} :
                         /\ {f \in pair[1].rows : f[1] # "day"}
                              = {f \in pair[2].rows : f[1] \notin {"day", "days"}}
                         /\ pair[1].sums = pair[2].sums
                    /\ \A i \in Texts!Lines : Texts!Told(Texts!StaffCancelled, "amount", i, 0)
                         = Texts!Told(Texts!Cancelled, "price", i, 0) * Texts!Told(Texts!Cancelled,
                         "quantity", i, 1)
  BY DEF Texts!StaffToldTheSame
<1>1. /\ Texts!StaffNew.rows = RowsOf(StaffRows, CutRows)
      /\ Texts!StaffPending.rows = RowsOf(StaffRows, CutRows)
      /\ Texts!Confirmation.rows = RowsOf(CustomersRows, FullRows)
      /\ Texts!Pending.rows = RowsOf(CustomersRows, FullRows)
      /\ Texts!StaffNew.sums = Texts!Confirmation.sums /\ Texts!StaffPending.sums = Texts!Pending.sums
  BY CustomersRowsAre, OtherRowsAre DEF Texts!StaffNew, Texts!StaffPending, Texts!Confirmation,
     Texts!Pending
<1>2. ASSUME NEW pair \in {<<Texts!StaffNew, Texts!Confirmation>>, <<Texts!StaffPending,
             Texts!Pending>>}
      PROVE  /\ pair[1].rows = RowsOf(StaffRows, CutRows)
             /\ pair[2].rows = RowsOf(CustomersRows, FullRows)
             /\ pair[1].sums = pair[2].sums
  <2>1. \/ pair[1] = Texts!StaffNew /\ pair[2] = Texts!Confirmation
        \/ pair[1] = Texts!StaffPending /\ pair[2] = Texts!Pending
    OBVIOUS
  <2> QED
    BY <1>1, <2>1
<1>3. \A pair \in {<<Texts!StaffNew, Texts!Confirmation>>, <<Texts!StaffPending, Texts!Pending>>} :
        /\ {f \in pair[1].rows : f[1] # "day"}
             = {f \in pair[2].rows : f[1] \notin {"day", "days"}}
        /\ pair[1].sums = pair[2].sums
  BY <1>2, StaffAgrees, Zenon
<1>4. ASSUME NEW i \in Texts!Lines
      PROVE  Texts!Told(Texts!StaffCancelled, "amount", i, 0)
               = Texts!Told(Texts!Cancelled, "price", i, 0) * Texts!Told(Texts!Cancelled,
               "quantity", i, 1)
  <2>1. order.cart[i].held /\ Texts!Cancelled \in Texts!OfCustomers
    BY DEF Texts!Printable, Texts!OfCustomers
  <2> QED
    BY <2>1, LineAddsUp, StaffCancelledIs
<1> QED
  BY <1>3, <1>4

\* The days of rows.
LEMMA DayTold ==
    ASSUME NEW rw, NEW ds, NEW t \in RowsOf(rw, ds), t[1] = "day"
    PROVE  t[2] \in DOMAIN rw /\ t[3] = rw[t[2]]["day"]
<1>1. PICK i \in DOMAIN rw : \E f \in ds[i] : /\ f = "quantity" => rw[i][f] > 1
                                              /\ f = "passengers" => rw[i][f] # <<0>>
                                              /\ t = <<f, i, rw[i][f]>>
  BY RowsTold
<1>2. PICK f \in ds[i] : t = <<f, i, rw[i][f]>>
  BY <1>1
<1> QED
  BY <1>2

\* Every day that is told is that of Cancun but for the ticket of an evening.
LEMMA TextsAreLocal == Texts!TypeOK => Texts!DaysAreLocal
<1> SUFFICES ASSUME Texts!TypeOK PROVE Texts!DaysAreLocal
  OBVIOUS
<1>1. DOMAIN CustomersRows = Texts!Lines /\ DOMAIN BriefRows = Texts!Lines
        /\ DOMAIN StaffRows = Texts!Lines
  BY DEF CustomersRows, BriefRows, StaffRows
<1>2. ASSUME NEW i \in Texts!Lines
      PROVE  CustomersRows[i].day = order.cart[i].day /\ BriefRows[i].day = order.cart[i].day
  <2>1. CustomersRows[i].day = order.cart[i].day
    BY RowIs DEF CustomersRows
  <2> QED
    BY <2>1, ShortIs
<1>3. ASSUME NEW mail \in Texts!OfCustomers \cup {Texts!PendingEn, Texts!RejectedEn},
             NEW t \in mail.rows,
             t[1] = "day"
      PROVE  t[3] = order.cart[t[2]].day
  <2>1. \/ mail.rows = RowsOf(CustomersRows, FullRows) \/ mail.rows = RowsOf(CustomersRows, CutRows)
        \/ mail.rows = RowsOf(BriefRows, FewFields)
    <3>1. Texts!PendingEn.rows = RowsOf(BriefRows, FewFields)
            /\ Texts!RejectedEn.rows = RowsOf(BriefRows, FewFields)
      BY OtherRowsAre DEF Texts!PendingEn, Texts!RejectedEn
    <3> QED
      BY <3>1, DetailedMails
  <2> QED
    BY <1>1, <1>2, <1>3, <2>1, DayTold
<1>4. ASSUME NEW mail \in {Texts!StaffNew, Texts!StaffPending}, NEW t \in mail.rows, t[1] = "day"
      PROVE  LET l == order.cart[t[2]]
             IN  t[3] # l.day <=> l.kind = "ticket" /\ l.evening
  <2>1. mail.rows = RowsOf(StaffRows, CutRows)
    BY OtherRowsAre DEF Texts!StaffNew, Texts!StaffPending
  <2>2. t[2] \in Texts!Lines /\ t[3] = StaffRows[t[2]].day
    BY <1>1, <1>4, <2>1, DayTold
  <2> DEFINE l == order.cart[t[2]]
  <2>3. l \in Texts!Line
    BY <2>2, LinesAre
  <2>4. l.day \in Nat
    BY <2>3, LineHas
  <2>5. t[3] = IF l.kind = "ticket" THEN (IF l.evening THEN l.day + 1 ELSE l.day) ELSE l.day
    BY <2>2 DEF StaffRows, Texts!StaffRow, Texts!ServerDay, Texts!LocalDay
  <2> HIDE DEF l
  <2>6. t[3] # l.day => l.kind = "ticket" /\ l.evening
    BY <2>5
  <2>7. l.kind = "ticket" /\ l.evening => t[3] # l.day
    BY <2>4, <2>5
  <2> QED
    BY <2>6, <2>7, Zenon DEF l
<1> QED
  BY <1>3, <1>4, Zenon DEF Texts!DaysAreLocal

\* NotificationEventService and its templates: rows and delivery come to the total that is told
\* through edits of the cart and changes of the catalogue, both languages and the staff's mails
\* tell the same, and days are those of Cancun, except for the staff's evening tickets; whatever
\* the catalogue offers and however carts are made of it.
THEOREM OfficeMailsAddUp == OfficeSpec => []MailsAddUp
<1>1. Texts!Spec => [](Texts!TypeOK /\ Texts!Settled)
  BY PartsAssumption, TextsInvariance
<1>2. Texts!TypeOK /\ Texts!Settled => /\ Texts!RowsAddUp /\ Texts!LanguagesAgree
                                       /\ Texts!StaffToldTheSame /\ Texts!DaysAreLocal
  BY PartsAssumption, TextsAddUp, TextsInBothLanguages, TextsForStaff, TextsAreLocal
<1>3. part = "texts" /\ OfficeInit => Texts!Init
  BY DEF OfficeInit
<1>4. part = "texts" /\ [OfficeNext]_vars => [Texts!Next]_(Texts!vars)
  BY DEF OfficeNext, vars, Texts!vars
<1>5. part = "texts" /\ [OfficeNext]_vars => (part = "texts")'
  BY PartStays
<1>6. ~(part = "texts") /\ [OfficeNext]_vars => (~(part = "texts"))'
  BY PartStays
<1>7. part = "texts" /\ OfficeSpec => Texts!Spec
  BY <1>3, <1>4, <1>5, PTL DEF OfficeSpec, Texts!Spec
<1>8. ~(part = "texts") /\ OfficeSpec => [](~(part = "texts"))
  BY <1>6, PTL DEF OfficeSpec
<1> QED
  BY <1>1, <1>2, <1>7, <1>8, PTL DEF MailsAddUp
-----------------------------------------------------------------------------
(***************************************************************************)
(* OwnerIncome: what owners are paid of a rental that changes hands.       *)
(***************************************************************************)

USE DEF today, rental, timeline, snapshots

\* What is true of every state besides, for the amounts.
OwnersInv == IncomeInv /\ Income!DatesPassed /\ Income!SameRental /\ Income!SnapshotsStand

\* As many items at the same prices.
LEMMA PricesAgree ==
    ASSUME NEW b, NEW c, NEW d, Income!SamePrices(b, c)
    PROVE  /\ Income!SamePrices(c, c)
           /\ Income!SamePrices(b, d) /\ b \in Income!Cart /\ c \in Income!Cart
                => Income!SamePrices(c, d)
           /\ Income!SamePrices(c, d) /\ b \in Income!Cart /\ c \in Income!Cart
                => Income!SamePrices(b, d)
BY DEF Income!SamePrices, Income!Cart

\* A replacement keeps the price of its item,
LEMMA ReplacementsKeepPrices ==
    ASSUME Income!TypeOK, NEW i \in DOMAIN rental.cart, NEW cart \in Income!Replacements(i)
    PROVE  Income!SamePrices(rental.cart, cart)
<1>1. PICK v \in Vehicles, start \in {rental.cart[i].start, today} \cap 0 .. rental.cart[i].end - 1,
           end \in {rental.cart[i].end, LastRental} :
        cart = [rental.cart EXCEPT ![i] = [vehicle |-> v, start |-> start, end |-> end,
                                            total |-> rental.cart[i].total]]
  BY DEF Income!Replacements
<1>2. rental.cart \in Income!Cart
  BY DEF Income!TypeOK
<1> QED
  BY <1>1, <1>2 DEF Income!SamePrices, Income!Cart

\* and so does an extension.
LEMMA ExtensionsKeepPrices ==
    ASSUME Income!TypeOK, NEW i \in DOMAIN rental.cart, NEW end
    PROVE  Income!SamePrices(rental.cart, [rental.cart EXCEPT ![i].end = end])
<1>1. rental.cart \in Income!Cart
  BY DEF Income!TypeOK
<1>2. \A k \in DOMAIN rental.cart : rental.cart[k] \in Income!Item
  BY <1>1 DEF Income!Cart
<1> QED
  BY <1>1, <1>2 DEF Income!SamePrices, Income!Cart, Income!Item

\* A new entry is of today; its snapshot has the cart before and the cart after.
LEMMA RecordKeepsPrices ==
    ASSUME OwnersInv, NEW event, NEW amount, NEW cart \in Income!Cart,
           Income!SamePrices(rental.cart, cart), Income!Record(event, amount, cart)
    PROVE  Income!DatesPassed' /\ Income!SameRental' /\ Income!SnapshotsStand'
<1> DEFINE e == [event |-> event, amount |-> amount, date |-> today, deleted |-> FALSE]
           s == [at |-> today, old |-> rental.cart, new |-> cart, entry |-> Len(timeline) + 1]
<1>1. /\ timeline' = Append(timeline, e)
      /\ snapshots' = snapshots \/ snapshots' = Append(snapshots, s)
      /\ rental' = [rental EXCEPT !.cart = cart]
      /\ today' = today
  BY DEF Income!Record
<1>2. /\ timeline \in Seq(Income!Entry) /\ snapshots \in Seq(Income!Snapshot)
      /\ rental.cart \in Income!Cart /\ rental'.cart = cart
      /\ rental'.paid = rental.paid /\ rental'.status = rental.status
      /\ rental'.method = rental.method
  BY <1>1 DEF OwnersInv, IncomeInv, Income!TypeOK
<1>3. /\ s.entry = Len(timeline) + 1 /\ s.old = rental.cart /\ s.new = cart
      /\ e.date = today /\ ~e.deleted
  OBVIOUS
<1> HIDE DEF e, s
<1>4. /\ DOMAIN timeline' = DOMAIN timeline \cup {Len(timeline) + 1}
      /\ \A k \in DOMAIN timeline : timeline'[k] = timeline[k]
      /\ timeline'[Len(timeline) + 1] = e
  BY <1>1, <1>2
<1>5. /\ DOMAIN snapshots \subseteq DOMAIN snapshots'
      /\ \A k \in DOMAIN snapshots : snapshots'[k] = snapshots[k]
      /\ \A k \in DOMAIN snapshots' \ DOMAIN snapshots : snapshots'[k] = s
  <2>1. CASE snapshots' = snapshots
    BY <2>1
  <2>2. CASE snapshots' = Append(snapshots, s)
    BY <1>2, <2>2
  <2> QED
    BY <1>1, <2>1, <2>2
<1>6. Income!DatesPassed'
  <2>1. today \in Income!Day /\ \A k \in DOMAIN timeline : timeline[k].date <= today
    BY DEF OwnersInv, Income!DatesPassed
  <2>2. \A k \in DOMAIN timeline' : timeline'[k].date <= today
    BY <1>3, <1>4, <2>1 DEF Income!Day
  <2> QED
    BY <1>1, <1>2, <2>1, <2>2 DEF OwnersInv, Income!DatesPassed, Income!Unpaid
<1>7. Income!SameRental'
  <2>1. ASSUME NEW k \in DOMAIN snapshots'
        PROVE  /\ Income!SamePrices(cart, snapshots'[k].old)
               /\ Income!SamePrices(cart, snapshots'[k].new)
    <3>1. CASE k \in DOMAIN snapshots
      BY <1>2, <1>5, <3>1, PricesAgree DEF OwnersInv, Income!SameRental
    <3>2. CASE k \notin DOMAIN snapshots
      <4>1. Income!SamePrices(rental.cart, rental.cart)
        BY DEF Income!SamePrices
      <4>2. Income!SamePrices(cart, rental.cart) /\ Income!SamePrices(cart, cart)
        BY <1>2, <4>1, PricesAgree
      <4> QED
        BY <1>3, <1>5, <2>1, <3>2, <4>2
    <3> QED
      BY <3>1, <3>2
  <2> QED
    BY <1>2, <2>1 DEF Income!SameRental
<1>8. Income!SnapshotsStand'
  BY <1>3, <1>4, <1>5 DEF OwnersInv, Income!SnapshotsStand, Income!Standing
<1> QED
  BY <1>6, <1>7, <1>8

\* What a deletion takes out.
LEMMA UndoTakesOut ==
    ASSUME OwnersInv, Income!Undo
    PROVE  \E e \in DOMAIN timeline :
             /\ DOMAIN timeline' = DOMAIN timeline
             /\ \A k \in DOMAIN timeline : /\ timeline'[k].date = timeline[k].date
                                           /\ k # e => timeline'[k] = timeline[k]
             /\ today' = today
             /\ rental'.paid = rental.paid /\ rental'.status = rental.status
             /\ rental'.method = rental.method
             /\ \/ rental'.cart = rental.cart
                \/ \E r \in DOMAIN snapshots : rental'.cart = snapshots[r].old
             /\ \A k \in DOMAIN snapshots' : \E j \in DOMAIN snapshots :
                  snapshots'[k] = snapshots[j] /\ snapshots[j].entry # e
<1>1. PICK e \in DOMAIN timeline :
        /\ timeline' = [timeline EXCEPT ![e].deleted = TRUE]
        /\ snapshots' = Income!SnapshotsWithout(e)
        /\ rental' = [rental EXCEPT !.cart =
                         IF Income!SnapshotsOf(e) = {} THEN @
                         ELSE snapshots[CHOOSE s \in Income!SnapshotsOf(e) : TRUE].old]
        /\ UNCHANGED today
  BY DEF Income!Undo
<1> DEFINE r == CHOOSE s \in Income!SnapshotsOf(e) : TRUE
<1>2. /\ DOMAIN timeline' = DOMAIN timeline
      /\ \A k \in DOMAIN timeline : /\ timeline'[k].date = timeline[k].date
                                    /\ k # e => timeline'[k] = timeline[k]
  <2>1. timeline \in Seq(Income!Entry) /\ timeline[e] \in Income!Entry
    BY DEF OwnersInv, IncomeInv, Income!TypeOK
  <2>2. [timeline[e] EXCEPT !.deleted = TRUE].date = timeline[e].date
    BY <2>1 DEF Income!Entry
  <2> QED
    BY <1>1, <2>1, <2>2
<1>3. /\ rental'.paid = rental.paid /\ rental'.status = rental.status
      /\ rental'.method = rental.method
      /\ rental'.cart = IF Income!SnapshotsOf(e) = {} THEN rental.cart ELSE snapshots[r].old
  BY <1>1 DEF OwnersInv, IncomeInv, Income!TypeOK
<1>4. CASE Income!SnapshotsOf(e) = {}
  <2>1. snapshots' = snapshots
    BY <1>1, <1>4 DEF Income!SnapshotsWithout
  <2>2. \A k \in DOMAIN snapshots : snapshots[k].entry # e
    BY <1>4 DEF Income!SnapshotsOf
  <2> QED
    BY <1>1, <1>2, <1>3, <1>4, <2>1, <2>2
<1>5. CASE Income!SnapshotsOf(e) # {}
  <2>1. /\ r \in 1 .. Len(snapshots) /\ r \in DOMAIN snapshots /\ snapshots[r].entry = e
        /\ snapshots \in Seq(Income!Snapshot)
    BY <1>5 DEF Income!SnapshotsOf, OwnersInv, IncomeInv, Income!TypeOK
  <2> DEFINE before == SubSeq(snapshots, 1, r - 1)
             after  == SubSeq(snapshots, r + 1, Len(snapshots))
  <2>2. snapshots' = before \o after
    BY <1>1, <1>5 DEF Income!SnapshotsWithout
  <2>6. rental'.cart = snapshots[r].old
    BY <1>3, <1>5
  <2> HIDE DEF r
  <2>3. /\ before \in Seq(Income!Snapshot) /\ Len(before) = r - 1
        /\ \A k \in 1 .. r - 1 : before[k] = snapshots[k]
    BY <2>1
  <2>4. /\ after \in Seq(Income!Snapshot) /\ Len(after) = Len(snapshots) - r
        /\ \A k \in 1 .. Len(snapshots) - r : after[k] = snapshots[r + k]
    BY <2>1
  <2> HIDE DEF before, after
  <2>5. /\ snapshots' \in Seq(Income!Snapshot) /\ Len(snapshots') = Len(snapshots) - 1
        /\ \A k \in DOMAIN snapshots' :
             snapshots'[k] = IF k < r THEN snapshots[k] ELSE snapshots[k + 1]
    BY <2>1, <2>2, <2>3, <2>4
  <2>7. ASSUME NEW k \in DOMAIN snapshots'
        PROVE  \E j \in DOMAIN snapshots : snapshots'[k] = snapshots[j] /\ snapshots[j].entry # e
    <3>1. PICK j \in DOMAIN snapshots : snapshots'[k] = snapshots[j] /\ j # r
      BY <2>1, <2>5
    <3>2. snapshots[j].entry # e
      BY <2>1, <3>1 DEF OwnersInv, IncomeInv, Income!OneSnapshotEach
    <3> QED
      BY <3>1, <3>2
  <2> QED
    BY <1>1, <1>2, <1>3, <2>1, <2>6, <2>7
<1> QED
  BY <1>4, <1>5

\* Nothing else in them changes.
LEMMA UndoKeepsPrices ==
    ASSUME OwnersInv, Income!Undo
    PROVE  Income!DatesPassed' /\ Income!SameRental' /\ Income!SnapshotsStand'
<1>1. PICK e \in DOMAIN timeline :
             /\ DOMAIN timeline' = DOMAIN timeline
             /\ \A k \in DOMAIN timeline : /\ timeline'[k].date = timeline[k].date
                                           /\ k # e => timeline'[k] = timeline[k]
             /\ today' = today
             /\ rental'.paid = rental.paid /\ rental'.status = rental.status
             /\ rental'.method = rental.method
             /\ \/ rental'.cart = rental.cart
                \/ \E r \in DOMAIN snapshots : rental'.cart = snapshots[r].old
             /\ \A k \in DOMAIN snapshots' : \E j \in DOMAIN snapshots :
                  snapshots'[k] = snapshots[j] /\ snapshots[j].entry # e
  BY UndoTakesOut
<1>2. Income!DatesPassed'
  BY <1>1 DEF OwnersInv, Income!DatesPassed
<1>3. Income!SnapshotsStand'
  BY <1>1 DEF OwnersInv, Income!SnapshotsStand, Income!Standing
<1>4. /\ rental.cart \in Income!Cart
      /\ \A j \in DOMAIN snapshots : snapshots[j].old \in Income!Cart
  <2>1. rental.cart \in Income!Cart /\ \A j \in DOMAIN snapshots : snapshots[j] \in Income!Snapshot
    BY DEF OwnersInv, IncomeInv, Income!TypeOK
  <2> QED
    BY <2>1 DEF Income!Snapshot
<1>5. ASSUME NEW j \in DOMAIN snapshots
      PROVE  /\ Income!SamePrices(rental'.cart, snapshots[j].old)
             /\ Income!SamePrices(rental'.cart, snapshots[j].new)
  <2>1. /\ Income!SamePrices(rental.cart, snapshots[j].old)
        /\ Income!SamePrices(rental.cart, snapshots[j].new)
    BY DEF OwnersInv, Income!SameRental
  <2>2. CASE rental'.cart = rental.cart
    BY <2>1, <2>2
  <2>3. ASSUME NEW r \in DOMAIN snapshots, rental'.cart = snapshots[r].old
        PROVE  /\ Income!SamePrices(rental'.cart, snapshots[j].old)
               /\ Income!SamePrices(rental'.cart, snapshots[j].new)
    <3>1. Income!SamePrices(rental.cart, snapshots[r].old)
      BY DEF OwnersInv, Income!SameRental
    <3>2. /\ Income!SamePrices(snapshots[r].old, snapshots[j].old)
          /\ Income!SamePrices(snapshots[r].old, snapshots[j].new)
      BY <1>4, <2>1, <3>1, PricesAgree
    <3> QED
      BY <2>3, <3>2
  <2> QED
    BY <1>1, <2>2, <2>3
<1>6. Income!SameRental'
  BY <1>1, <1>5 DEF Income!SameRental
<1> QED
  BY <1>2, <1>3, <1>6

\* Every step.
LEMMA OwnersStep ==
    ASSUME Income!ConstantsAssumption
    PROVE  OwnersInv /\ [Income!Next]_(Income!vars) => OwnersInv'
<1> SUFFICES ASSUME OwnersInv, [Income!Next]_(Income!vars) PROVE OwnersInv'
  OBVIOUS
<1>0. IncomeInv' /\ Income!TypeOK
  BY IncomeStep DEF OwnersInv, IncomeInv
<1> SUFFICES Income!DatesPassed' /\ Income!SameRental' /\ Income!SnapshotsStand'
  BY <1>0 DEF OwnersInv
<1>1. CASE UNCHANGED Income!vars
  BY <1>1 DEF Income!vars, OwnersInv, Income!DatesPassed, Income!SameRental, Income!SnapshotsStand,
              Income!Standing
<1>2. CASE Income!Tick
  <2>1. Income!DatesPassed'
    <3>1. today \in Nat /\ rental.paid \in Nat /\ LastRental \in Nat /\ today < LastRental
          /\ today' = today + 1
      BY <1>0, <1>2 DEF Income!TypeOK, Income!Tick, Income!ConstantsAssumption
    <3>2. \A k \in DOMAIN timeline : timeline[k].date \in Nat
      <4>1. \A k \in DOMAIN timeline : timeline[k] \in Income!Entry
        BY <1>0 DEF Income!TypeOK
      <4> QED
        BY <4>1 DEF Income!Entry
    <3> QED
      BY <1>2, <3>1, <3>2 DEF Income!Tick, OwnersInv, Income!DatesPassed, Income!Day, Income!Unpaid
  <2> QED
    BY <1>2, <2>1
       DEF Income!Tick, OwnersInv, Income!SameRental, Income!SnapshotsStand, Income!Standing
<1>3. CASE Income!Deposit \/ Income!Approve \/ Income!Cancel
  <2>1. /\ rental'.cart = rental.cart /\ rental'.method = rental.method
        /\ rental'.paid = rental.paid \/ rental'.paid = today
        /\ rental'.status = "APROBADO" /\ rental'.status # rental.status =>
             rental.method = "none" \/ rental.paid # Income!Unpaid \/ rental'.paid = today
        /\ timeline' = timeline /\ snapshots' = snapshots /\ today' = today
    BY <1>0, <1>3
       DEF Income!Deposit, Income!Approve, Income!Cancel, Income!Paid, Income!TypeOK
  <2>2. today <= today
    BY <1>0 DEF Income!TypeOK
  <2> QED
    BY <2>1, <2>2
       DEF OwnersInv, Income!DatesPassed, Income!SameRental, Income!SnapshotsStand, Income!Standing,
           Income!Unpaid
<1>4. CASE Income!Extend
  <2>1. PICK amount \in ServicePrices \ {0}, i \in DOMAIN rental.cart :
          \E end \in rental.cart[i].end + 1 .. LastRental :
            Income!Record(Income!Extension, amount, [rental.cart EXCEPT ![i].end = end])
    BY <1>4 DEF Income!Extend
  <2> QED
    BY <1>0, <2>1, ExtendedIsCart, ExtensionsKeepPrices, RecordKeepsPrices
<1>5. CASE Income!Change
  <2>1. PICK amount \in ServicePrices, i \in DOMAIN rental.cart :
          \E cart \in Income!Replacements(i) : Income!Record(Income!VehicleChange, amount, cart)
    BY <1>5 DEF Income!Change
  <2> QED
    BY <1>0, <2>1, ReplacementsAreCarts, ReplacementsKeepPrices, RecordKeepsPrices
<1>6. CASE Income!Charge
  <2>1. PICK amount \in ServicePrices : Income!Record(Income!ExtraHours, amount, rental.cart)
    BY <1>6 DEF Income!Charge
  <2>2. rental.cart \in Income!Cart /\ Income!SamePrices(rental.cart, rental.cart)
    BY <1>0 DEF Income!TypeOK, Income!SamePrices
  <2> QED
    BY <2>1, <2>2, RecordKeepsPrices
<1>7. CASE Income!Edit
  <2>1. PICK i \in DOMAIN rental.cart :
          \E cart \in Income!Replacements(i) : rental' = [rental EXCEPT !.cart = cart]
    BY <1>7 DEF Income!Edit
  <2>2. PICK cart \in Income!Replacements(i) : rental' = [rental EXCEPT !.cart = cart]
    BY <2>1
  <2>3. /\ rental.cart \in Income!Cart /\ cart \in Income!Cart
        /\ Income!SamePrices(rental.cart, cart)
        /\ rental'.cart = cart /\ rental'.method = rental.method /\ rental'.status = rental.status
        /\ rental'.paid = rental.paid
        /\ timeline' = timeline /\ snapshots' = snapshots /\ today' = today
    BY <1>0, <1>7, <2>2, ReplacementsAreCarts, ReplacementsKeepPrices DEF Income!Edit, Income!TypeOK
  <2>4. Income!SameRental'
    BY <2>3, PricesAgree DEF OwnersInv, Income!SameRental
  <2> QED
    BY <2>3, <2>4
       DEF OwnersInv, Income!DatesPassed, Income!SnapshotsStand, Income!Standing
<1> QED
  BY <1>1, <1>2, <1>3, <1>4, <1>5, <1>6, <1>7, UndoKeepsPrices DEF Income!Next

\* Hence they are always true.
LEMMA OwnersInvariance ==
    ASSUME Income!ConstantsAssumption
    PROVE  Income!Spec => []OwnersInv
<1>1. Income!Init => OwnersInv
  <2>1. SUFFICES ASSUME Income!Init PROVE OwnersInv
    OBVIOUS
  <2>2. IncomeInv /\ LastRental \in Nat
    BY <2>1, IncomeStart DEF Income!ConstantsAssumption
  <2> QED
    BY <2>1, <2>2
       DEF OwnersInv, Income!Init, Income!DatesPassed, Income!SameRental, Income!SnapshotsStand,
           Income!Day
<1>2. OwnersInv /\ [Income!Next]_(Income!vars) => OwnersInv'
  BY OwnersStep
<1> QED
  BY <1>1, <1>2, PTL DEF Income!Spec

\* The sums of the statements are those of the dashboard.
LEMMA SameTotals == \A w : Income!SumOf(w) = Dash!SumOf(w)
BY DEF Income!SumOf, Income!MapThenSumSet, Income!MapThenFoldSet,
       Dash!SumOf, Dash!MapThenSumSet, Dash!MapThenFoldSet

\* The sets of the statements are finite as the library's are, and as large.
LEMMA SameSizes ==
    \A S : Income!IsFiniteSet(S) = IsFiniteSet(S) /\ Income!Cardinality(S) = Cardinality(S)
<1> SUFFICES ASSUME NEW S
             PROVE  Income!IsFiniteSet(S) = IsFiniteSet(S) /\ Income!Cardinality(S) = Cardinality(S)
  OBVIOUS
<1>1. Income!IsFiniteSet(S) = IsFiniteSet(S)
  BY DEF Income!IsFiniteSet, IsFiniteSet
<1>2. Income!Cardinality(S) = Cardinality(S)
  BY DEF Income!Cardinality, Cardinality
<1> QED
  BY <1>1, <1>2

\* What some entries come to is a sum,
LEMMA AmountIsPart ==
    ASSUME NEW h, NEW some, IsFiniteSet(some), \A x \in some : h[x].amount \in Int
    PROVE  Income!AmountOf(h, some) = Dash!SumOf([x \in some |-> h[x].amount])
<1> DEFINE w == [x \in some |-> h[x].amount]
<1>1. w \in [some -> Int] /\ \A x \in some : w[x] = h[x].amount /\ w[x] \in Int
  OBVIOUS
<1> HIDE DEF w
<1>2. PICK g : IsSum(g, w, some)
  BY <1>1, SumsExist
<1>3. Dash!SumOf(w) = g[some] /\ Income!AmountOf(h, some) = g[some]
  BY <1>1, <1>2, SumOfIs, AmountIsSum
<1> QED
  BY <1>3 DEF w

\* of more entries a greater one.
LEMMA MoreIsMore ==
    ASSUME NEW h \in Seq(Income!Entry), NEW some \in SUBSET (DOMAIN h), NEW few \in SUBSET some
    PROVE  Income!AmountOf(h, few) <= Income!AmountOf(h, some)
<1> DEFINE w == [x \in DOMAIN h |-> h[x].amount]
<1>1. IsFiniteSet(some) /\ IsFiniteSet(few) /\ few \in SUBSET (DOMAIN h)
  <2>1. IsFiniteSet(1 .. Len(h)) /\ some \in SUBSET (1 .. Len(h))
    BY FS_Interval
  <2> QED
    BY <2>1, FS_Subset
<1>2. \A x \in DOMAIN h : w[x] \in Nat /\ w[x] = h[x].amount
  <2>1. \A x \in DOMAIN h : h[x] \in Income!Entry
    OBVIOUS
  <2> QED
    BY <2>1 DEF Income!Entry
<1> HIDE DEF w
<1>3. /\ \A x \in some : w[x] \in Nat /\ h[x].amount \in Int
      /\ \A x \in few : h[x].amount \in Int
  BY <1>1, <1>2
<1>4. Dash!SumOf([x \in few |-> w[x]]) <= Dash!SumOf([x \in some |-> w[x]])
  BY <1>1, <1>3, SumOfSome
<1>5. /\ [x \in few |-> w[x]] = [x \in few |-> h[x].amount]
      /\ [x \in some |-> w[x]] = [x \in some |-> h[x].amount]
  BY <1>1, <1>2
<1>6. /\ Income!AmountOf(h, few) = Dash!SumOf([x \in few |-> h[x].amount])
      /\ Income!AmountOf(h, some) = Dash!SumOf([x \in some |-> h[x].amount])
  BY <1>1, <1>3, AmountIsPart
<1> QED
  BY <1>4, <1>5, <1>6

\* One payment, or two.
LEMMA AmountOfTwo ==
    ASSUME NEW h, h[1].amount \in Int, h[2].amount \in Int
    PROVE  /\ Income!AmountOf(h, {}) = 0
           /\ Income!AmountOf(h, {1}) = h[1].amount
           /\ Income!AmountOf(h, {2}) = h[2].amount
           /\ Income!AmountOf(h, {1, 2}) = h[1].amount + h[2].amount
<1> DEFINE w == [x \in {1, 2} |-> h[x].amount]
<1>1. IsFiniteSet({1, 2}) /\ IsFiniteSet({1}) /\ IsFiniteSet({2}) /\ IsFiniteSet({})
  <2>1. IsFiniteSet({1}) /\ IsFiniteSet({2}) /\ IsFiniteSet({})
    BY FS_Singleton, FS_EmptySet
  <2>2. {1, 2} = {1} \cup {2}
    OBVIOUS
  <2> QED
    BY <2>1, <2>2, FS_Union
<1>2. /\ w[1] = h[1].amount /\ w[2] = h[2].amount /\ \A x \in {1, 2} : w[x] \in Int
      /\ [x \in {1, 2} |-> h[x].amount] = [x \in {1, 2} |-> w[x]]
      /\ [x \in {1} |-> h[x].amount] = [x \in {1} |-> w[x]]
      /\ [x \in {2} |-> h[x].amount] = [x \in {2} |-> w[x]]
      /\ [x \in {} |-> h[x].amount] \in [{} -> Int]
  OBVIOUS
<1> HIDE DEF w
<1>3. /\ Income!AmountOf(h, {}) = Dash!SumOf([x \in {} |-> h[x].amount])
      /\ Income!AmountOf(h, {1}) = Dash!SumOf([x \in {1} |-> h[x].amount])
      /\ Income!AmountOf(h, {2}) = Dash!SumOf([x \in {2} |-> h[x].amount])
      /\ Income!AmountOf(h, {1, 2}) = Dash!SumOf([x \in {1, 2} |-> h[x].amount])
  <2>1. \A S \in SUBSET {1, 2} : \A x \in S : h[x].amount \in Int
    OBVIOUS
  <2> QED
    BY <1>1, <2>1, AmountIsPart
<1>4. Dash!SumOf([x \in {} |-> h[x].amount]) = 0
  BY <1>1, <1>2, SumIsInt
<1>5. /\ Dash!SumOf([x \in {1} |-> w[x]]) = w[1]
      /\ Dash!SumOf([x \in {2} |-> w[x]]) = w[2]
  BY <1>2, SumOfOne
<1>6. Part(w, {1, 2}) = Part(w, {1}) + Part(w, {2})
  <2>1. {1} \in SUBSET {1, 2} /\ {2} \in SUBSET {1, 2} /\ {1} \cap {2} = {}
        /\ {1, 2} \in SUBSET {1, 2} /\ {1, 2} = {1} \cup {2}
    OBVIOUS
  <2> QED
    BY <1>1, <1>2, <2>1, PartsAddUp
<1> QED
  BY <1>2, <1>3, <1>4, <1>5, <1>6 DEF Part

\* A rounded quotient is off by a half at most, and grows with what is divided.
LEMMA Rounded ==
    ASSUME NEW n \in Nat, NEW d \in Nat \ {0}
    PROVE  /\ Income!Round(n, d) \in Nat
           /\ 2 * (d * Income!Round(n, d)) <= 2 * n + d
           /\ 2 * n + d < 2 * (d * Income!Round(n, d)) + 2 * d
           /\ \A m \in Nat : n <= m => Income!Round(n, d) <= Income!Round(m, d)
<1>1. ASSUME NEW k \in Nat
      PROVE  /\ Income!Round(k, d) \in Nat
             /\ 2 * (d * Income!Round(k, d)) <= 2 * k + d
             /\ 2 * k + d < 2 * (d * Income!Round(k, d)) + 2 * d
  <2> DEFINE a == 2 * k + d
             b == 2 * d
             q == a \div b
             r == a % b
  <2>1. a \in Nat /\ b \in Nat /\ b > 0
    OBVIOUS
  <2> HIDE DEF a, b
  <2>2. q \in Int /\ r \in 0 .. b - 1 /\ a = b * q + r
    BY <2>1
  <2>3. q = Income!Round(k, d)
    BY DEF Income!Round, a, b
  <2> HIDE DEF q, r
  <2>4. q >= 0
    <3>1. ASSUME q <= -1 PROVE FALSE
      <4>1. b * q <= b * (-1)
        BY <2>1, <2>2, <3>1
      <4> QED
        BY <2>1, <2>2, <4>1
    <3> QED
      BY <2>2, <3>1
  <2>5. b * q = 2 * (d * q)
    BY <2>2 DEF b
  <2> QED
    BY <2>1, <2>2, <2>3, <2>4, <2>5 DEF a, b
<1>2. ASSUME NEW m \in Nat, n <= m
      PROVE  Income!Round(n, d) <= Income!Round(m, d)
  <2> DEFINE x == Income!Round(n, d)
             y == Income!Round(m, d)
  <2>1. /\ x \in Nat /\ y \in Nat
        /\ 2 * (d * x) <= 2 * n + d
        /\ 2 * m + d < 2 * (d * y) + 2 * d
    BY <1>1
  <2> HIDE DEF x, y
  <2>2. ASSUME y + 1 <= x PROVE FALSE
    <3>1. d * (y + 1) <= d * x
      BY <2>1, <2>2
    <3>2. d * (y + 1) = d * y + d
      BY <2>1
    <3> QED
      BY <1>2, <2>1, <3>1, <3>2
  <2>3. x <= y
    BY <2>1, <2>2
  <2> QED
    BY <2>3 DEF x, y
<1> QED
  BY <1>1, <1>2

\* What is paid when the booking is made,
AtFirst(amount, whole) ==
    CASE rental.method = "cash" -> Income!Round(amount, 5 * whole)
      [] rental.method = "transfer" -> 0
      [] OTHER -> Income!Round(amount, whole)

\* and what when it is paid.
Later(amount, whole) ==
    CASE rental.method = "cash" -> Income!Round(4 * amount, 5 * whole)
      [] rental.method = "transfer" -> Income!Round(amount, whole)
      [] OTHER -> 0

\* Both are numbers, and more of a greater amount.
LEMMA PaymentsGrow ==
    ASSUME NEW amount \in Nat, NEW whole \in Nat \ {0}
    PROVE  /\ AtFirst(amount, whole) \in Nat /\ Later(amount, whole) \in Nat
           /\ \A more \in Nat : amount <= more =>
                /\ AtFirst(amount, whole) <= AtFirst(more, whole)
                /\ Later(amount, whole) <= Later(more, whole)
<1>1. ASSUME NEW more \in Nat, amount <= more
      PROVE  /\ AtFirst(amount, whole) \in Nat /\ Later(amount, whole) \in Nat
             /\ AtFirst(amount, whole) <= AtFirst(more, whole)
             /\ Later(amount, whole) <= Later(more, whole)
  <2>1. 5 * whole \in Nat \ {0} /\ 4 * amount \in Nat /\ 4 * more \in Nat /\ 4 * amount <= 4 * more
    BY <1>1
  <2>2. /\ Income!Round(amount, 5 * whole) \in Nat
        /\ Income!Round(amount, 5 * whole) <= Income!Round(more, 5 * whole)
    BY <1>1, <2>1, Rounded
  <2>3. /\ Income!Round(4 * amount, 5 * whole) \in Nat
        /\ Income!Round(4 * amount, 5 * whole) <= Income!Round(4 * more, 5 * whole)
    BY <2>1, Rounded
  <2>4. /\ Income!Round(amount, whole) \in Nat
        /\ Income!Round(amount, whole) <= Income!Round(more, whole)
    BY <1>1, Rounded
  <2> QED
    BY <2>2, <2>3, <2>4 DEF AtFirst, Later
<1>2. amount <= amount
  OBVIOUS
<1> QED
  BY <1>1, <1>2

\* The payments of a period.
LEMMA PaidInIs ==
    ASSUME NEW v, NEW period, Income!VehicleTotal(v, period) * Income!Used(v) \in Nat,
           Income!OutOf(v) \in Nat \ {0}
    PROVE  Income!PaidIn(Income!Parts(v, period), period)
             = (IF Income!Within(0, period)
                THEN AtFirst(Income!VehicleTotal(v, period) * Income!Used(v), Income!OutOf(v))
                ELSE 0)
               + (IF Income!Within(rental.paid, period)
                  THEN Later(Income!VehicleTotal(v, period) * Income!Used(v), Income!OutOf(v))
                  ELSE 0)
<1> DEFINE n == Income!VehicleTotal(v, period) * Income!Used(v)
           o == Income!OutOf(v)
           p == Income!Parts(v, period)
           In == {i \in DOMAIN p : Income!Within(p[i].date, period)}
           early == Income!Within(0, period)
           then == Income!Within(rental.paid, period)
<1>1. Income!PaidIn(p, period) = Income!AmountOf(p, In)
  BY DEF Income!PaidIn, Income!AmountOf
<1>2. p = CASE rental.method = "cash" ->
                 <<[date |-> 0, amount |-> Income!Round(n, 5 * o)],
                   [date |-> rental.paid, amount |-> Income!Round(4 * n, 5 * o)]>>
            [] rental.method = "transfer" ->
                 <<[date |-> rental.paid, amount |-> Income!Round(n, o)]>>
            [] OTHER -> <<[date |-> 0, amount |-> Income!Round(n, o)]>>
  BY DEF Income!Parts
<1>3. AtFirst(n, o) \in Nat /\ Later(n, o) \in Nat
  BY PaymentsGrow
<1>4. ASSUME NEW w, NEW i \in {1, 2}, w[i].amount \in Int
      PROVE  /\ Income!AmountOf(w, {}) = 0
             /\ Income!AmountOf(w, {i}) = w[i].amount
  <2>1. /\ IsFiniteSet({}) /\ \A x \in {} : w[x].amount \in Int
        /\ IsFiniteSet({i}) /\ \A x \in {i} : w[x].amount \in Int
    BY <1>4, FS_EmptySet, FS_Singleton
  <2>2. /\ Income!AmountOf(w, {}) = Dash!SumOf([x \in {} |-> w[x].amount])
        /\ Income!AmountOf(w, {i}) = Dash!SumOf([x \in {i} |-> w[x].amount])
    BY <2>1, AmountIsPart
  <2>3. Dash!SumOf([x \in {} |-> w[x].amount]) = 0
    <3>1. [x \in {} |-> w[x].amount] \in [{} -> Int]
      OBVIOUS
    <3> QED
      BY <2>1, <3>1, SumIsInt
  <2>4. Dash!SumOf([x \in {i} |-> w[x].amount]) = w[i].amount
    <3> DEFINE u == [x \in {i} |-> w[x].amount]
    <3>1. u[i] \in Int /\ u[i] = w[i].amount /\ [x \in {i} |-> u[x]] = u
      BY <1>4
    <3> HIDE DEF u
    <3>2. Dash!SumOf([x \in {i} |-> u[x]]) = u[i]
      BY <3>1, SumOfOne
    <3> QED
      BY <3>1, <3>2 DEF u
  <2> QED
    BY <2>2, <2>3, <2>4
<1>5. CASE rental.method = "cash"
  <2>1. /\ DOMAIN p = {1, 2}
        /\ p[1].date = 0 /\ p[1].amount = AtFirst(n, o)
        /\ p[2].date = rental.paid /\ p[2].amount = Later(n, o)
    BY <1>2, <1>5 DEF AtFirst, Later
  <2> HIDE DEF n, o, p
  <2>2. /\ early /\ then => In = {1, 2}
        /\ early /\ ~then => In = {1}
        /\ ~early /\ then => In = {2}
        /\ ~early /\ ~then => In = {}
    BY <2>1
  <2>3. /\ Income!AmountOf(p, {}) = 0
        /\ Income!AmountOf(p, {1}) = p[1].amount
        /\ Income!AmountOf(p, {2}) = p[2].amount
        /\ Income!AmountOf(p, {1, 2}) = p[1].amount + p[2].amount
    BY <1>3, <2>1, AmountOfTwo
  <2> HIDE DEF early, then, In
  <2>4. Income!AmountOf(p, In)
          = (IF early THEN AtFirst(n, o) ELSE 0) + (IF then THEN Later(n, o) ELSE 0)
    <3>1. CASE early /\ then
      BY <2>1, <2>2, <2>3, <3>1
    <3>2. CASE early /\ ~then
      <4>1. In = {1}
        BY <2>2, <3>2
      <4>2. Income!AmountOf(p, In) = AtFirst(n, o)
        BY <2>1, <2>3, <4>1
      <4> QED
        BY <1>3, <3>2, <4>2
    <3>3. CASE ~early /\ then
      <4>1. In = {2}
        BY <2>2, <3>3
      <4>2. Income!AmountOf(p, In) = Later(n, o)
        BY <2>1, <2>3, <4>1
      <4> QED
        BY <1>3, <3>3, <4>2
    <3>4. CASE ~early /\ ~then
      BY <2>2, <2>3, <3>4
    <3> QED
      BY <3>1, <3>2, <3>3, <3>4
  <2> QED
    BY <1>1, <2>4 DEF n, o, p, early, then
<1>6. CASE rental.method # "cash"
  <2> DEFINE day == IF rental.method = "transfer" THEN rental.paid ELSE 0
             sum == IF rental.method = "transfer" THEN Later(n, o) ELSE AtFirst(n, o)
  <2>1. /\ DOMAIN p = {1} /\ p[1].date = day /\ p[1].amount = sum
        /\ rental.method = "transfer" => AtFirst(n, o) = 0
        /\ rental.method # "transfer" => Later(n, o) = 0
    BY <1>2, <1>6 DEF AtFirst, Later
  <2> HIDE DEF n, o, p
  <2>2. /\ Income!Within(day, period) => In = {1}
        /\ ~Income!Within(day, period) => In = {}
    BY <2>1
  <2>3. /\ Income!AmountOf(p, {}) = 0
        /\ Income!AmountOf(p, {1}) = sum
    BY <1>3, <1>4, <2>1
  <2> HIDE DEF In
  <2>4. Income!AmountOf(p, In) = IF Income!Within(day, period) THEN sum ELSE 0
    BY <2>2, <2>3
  <2>5. (IF early THEN AtFirst(n, o) ELSE 0) + (IF then THEN Later(n, o) ELSE 0)
          = IF Income!Within(day, period) THEN sum ELSE 0
    <3>1. CASE rental.method = "transfer"
      BY <1>3, <2>1, <3>1
    <3>2. CASE rental.method # "transfer"
      BY <1>3, <2>1, <3>2
    <3> QED
      BY <3>1, <3>2
  <2> QED
    BY <1>1, <2>4, <2>5 DEF n, o, p
<1> QED
  BY <1>5, <1>6

\* The item that a report starts from is one of a cart.
LEMMA BaseIs ==
    ASSUME IncomeInv, NEW v, Income!TookPart(v)
    PROVE  /\ Income!BaseItem(v).start \in Nat /\ Income!BaseItem(v).end \in Nat
           /\ Income!BaseItem(v).start < Income!BaseItem(v).end
           /\ Income!BaseItem(v).total \in Nat
           /\ ~Income!Removed(v) => /\ Income!Names(rental.cart, v)
                                    /\ Income!BaseItem(v) = Income!ItemOf(rental.cart, v)
           /\ Income!Removed(v) =>
                \E k \in DOMAIN snapshots :
                  /\ Income!Names(snapshots[k].old, v)
                  /\ Income!BaseItem(v) = Income!ItemOf(snapshots[k].old, v)
<1>1. /\ rental.cart \in Income!Cart
      /\ DOMAIN snapshots = 1 .. Len(snapshots)
      /\ \A k \in DOMAIN snapshots : snapshots[k].old \in Income!Cart
  <2>1. /\ rental.cart \in Income!Cart /\ snapshots \in Seq(Income!Snapshot)
        /\ \A k \in DOMAIN snapshots : snapshots[k] \in Income!Snapshot
    BY DEF IncomeInv, Income!TypeOK
  <2> QED
    BY <2>1 DEF Income!Snapshot
<1>2. CASE ~Income!Removed(v)
  <2>1. Income!Names(rental.cart, v) /\ Income!BaseItem(v) = Income!ItemOf(rental.cart, v)
    BY <1>2 DEF Income!Removed, Income!BaseItem
  <2> QED
    BY <1>1, <1>2, <2>1, ItemsAre
<1>3. CASE Income!Removed(v)
  <2>1. Income!Left(v) # {} /\ Income!Left(v) \in SUBSET Nat
    BY <1>1, <1>3 DEF Income!TookPart, Income!Left
  <2>2. Income!Min(Income!Left(v)) \in Income!Left(v)
    BY <2>1, LeastIsIn
  <2>3. PICK k \in Income!Left(v) : Income!BaseItem(v) = Income!ItemOf(snapshots[k].old, v)
    BY <1>3, <2>2 DEF Income!BaseItem
  <2>4. k \in DOMAIN snapshots /\ Income!Names(snapshots[k].old, v)
    BY DEF Income!Left
  <2> QED
    BY <1>1, <1>3, <2>3, <2>4, ItemsAre
<1> QED
  BY <1>2, <1>3

\* The snapshot that decides when a vehicle was used.
LEMMA LastMove ==
    ASSUME IncomeInv, NEW v, Income!Moves(v) # {}
    PROVE  /\ Income!Max(Income!Moves(v)) \in Income!Moves(v)
           /\ Income!Max(Income!Moves(v)) \in DOMAIN snapshots
           /\ snapshots[Income!Max(Income!Moves(v))] \in Income!Snapshot
<1>1. snapshots \in Seq(Income!Snapshot) /\ Len(snapshots) \in Nat
  BY DEF IncomeInv, Income!TypeOK
<1>2. Income!Moves(v) \in SUBSET (1 .. Len(snapshots))
  BY <1>1 DEF Income!Moves
<1>3. Income!Max(Income!Moves(v)) \in Income!Moves(v)
  BY <1>1, <1>2, GreatestIsIn
<1>4. Income!Max(Income!Moves(v)) \in DOMAIN snapshots
  BY <1>3 DEF Income!Moves
<1> QED
  BY <1>1, <1>3, <1>4

\* The days that a vehicle was used and those it is a share of, which are not less.
LEMMA UseIs ==
    ASSUME IncomeInv, NEW v, Income!TookPart(v)
    PROVE  /\ Income!Used(v) \in Int /\ Income!OutOf(v) \in Int
           /\ Income!Used(v) <= Income!OutOf(v)
           /\ Income!Moves(v) = {} =>
                /\ Income!Used(v) = Income!BaseItem(v).end - Income!BaseItem(v).start
                /\ Income!OutOf(v) = Income!Used(v)
                /\ Income!Use(v).start = Income!BaseItem(v).start
                /\ Income!Use(v).end = Income!BaseItem(v).end
<1>1. /\ Income!Use(v).start \in Int /\ Income!Use(v).end \in Int
      /\ Income!Use(v).from \in Int /\ Income!Use(v).to \in Int
  <2>1. CASE Income!Moves(v) = {}
    <3>1. Income!BaseItem(v).start \in Nat /\ Income!BaseItem(v).end \in Nat
      BY BaseIs
    <3> QED
      BY <2>1, <3>1 DEF Income!Use
  <2>2. CASE Income!Moves(v) # {}
    <3> DEFINE k == Income!Max(Income!Moves(v))
               s == snapshots[k]
    <3>1. /\ s \in Income!Snapshot
          /\ Income!Names(s.old, v) # Income!Names(s.new, v)
      BY <2>2, LastMove DEF Income!Moves
    <3>2. Income!Use(v) = IF Income!Names(s.old, v)
                          THEN Income!UseOfRemoved(Income!ItemOf(s.old, v), s)
                          ELSE Income!UseOfAdded(Income!ItemOf(s.new, v), s)
      BY <2>2 DEF Income!Use
    <3> HIDE DEF k, s
    <3>3. /\ s.old \in Income!Cart /\ s.new \in Income!Cart /\ s.at \in Nat
          /\ s.old # <<>> => s.old[1].start \in Nat
          /\ s.new # <<>> => s.new[1].start \in Nat
      <4>1. s.old \in Income!Cart /\ s.new \in Income!Cart /\ s.at \in Nat
        BY <3>1 DEF Income!Snapshot
      <4>2. \A c \in Income!Cart : c # <<>> => c[1] \in Income!Item
        BY DEF Income!Cart
      <4> QED
        BY <4>1, <4>2 DEF Income!Item
    <3>4. CASE Income!Names(s.old, v)
      <4> DEFINE item == Income!ItemOf(s.old, v)
      <4>1. item.start \in Nat /\ item.end \in Nat
        BY <3>3, <3>4, ItemsAre
      <4>2. Income!Use(v) = Income!UseOfRemoved(item, s)
        BY <3>2, <3>4
      <4> HIDE DEF item
      <4> QED
        BY <3>3, <4>1, <4>2 DEF Income!UseOfRemoved
    <3>5. CASE ~Income!Names(s.old, v)
      <4> DEFINE item == Income!ItemOf(s.new, v)
      <4>0. Income!Names(s.new, v)
        BY <3>1, <3>5 DEF Income!Names
      <4>1. item.start \in Nat /\ item.end \in Nat
        BY <3>3, <4>0, ItemsAre
      <4>2. Income!Use(v) = Income!UseOfAdded(item, s)
        BY <3>2, <3>5
      <4> HIDE DEF item
      <4> QED
        BY <3>3, <4>1, <4>2 DEF Income!UseOfAdded
    <3> QED
      BY <3>4, <3>5
  <2> QED
    BY <2>1, <2>2
<1>2. /\ Income!Used(v) \in Int /\ Income!OutOf(v) \in Int
      /\ Income!Used(v) <= Income!OutOf(v)
  BY <1>1 DEF Income!Used, Income!OutOf
<1>3. ASSUME Income!Moves(v) = {}
      PROVE  /\ Income!Used(v) = Income!BaseItem(v).end - Income!BaseItem(v).start
             /\ Income!OutOf(v) = Income!Used(v)
             /\ Income!Use(v).start = Income!BaseItem(v).start
             /\ Income!Use(v).end = Income!BaseItem(v).end
  <2>1. /\ Income!Use(v).start = Income!BaseItem(v).start
        /\ Income!Use(v).end = Income!BaseItem(v).end
        /\ Income!Use(v).from = Income!BaseItem(v).start
        /\ Income!Use(v).to = Income!BaseItem(v).end
    BY <1>3 DEF Income!Use
  <2>2. Income!Used(v) = Income!BaseItem(v).end - Income!BaseItem(v).start
    BY <2>1 DEF Income!Used
  <2>3. Income!OutOf(v) = Income!Used(v)
    BY <1>1, <2>1, <2>2 DEF Income!OutOf
  <2> QED
    BY <2>1, <2>2, <2>3
<1> QED
  BY <1>2, <1>3

\* The share is of something.
LEMMA ReportedIs ==
    ASSUME IncomeInv, NEW v, Income!Reported(v)
    PROVE  /\ Income!TookPart(v) /\ rental.status = "APROBADO"
           /\ Income!Used(v) \in Nat \ {0} /\ Income!OutOf(v) \in Nat \ {0}
           /\ Income!Used(v) <= Income!OutOf(v)
<1>1. Income!TookPart(v) /\ rental.status = "APROBADO" /\ Income!Used(v) > 0
  BY DEF Income!Reported
<1> QED
  BY <1>1, UseIs

\* The total of a vehicle is a number, and in a part of the time not more.
LEMMA TotalsAre ==
    ASSUME Income!ConstantsAssumption, OwnersInv, NEW v, Income!TookPart(v), NEW period
    PROVE  /\ Income!VehicleTotal(v, period) \in Nat
           /\ Income!VehicleTotal(v, period) <= Income!VehicleTotal(v, Income!Always)
           /\ Income!VehicleTotal(v, period)
                = Income!BaseItem(v).total
                  + Income!AmountOf(timeline, Income!Adjustments(v, period))
           /\ Income!AmountOf(timeline, Income!Adjustments(v, period)) \in Nat
<1>1. timeline \in Seq(Income!Entry) /\ Income!BaseItem(v).total \in Nat
  BY BaseIs DEF OwnersInv, IncomeInv, Income!TypeOK
<1>2. \A p : Income!Adjustments(v, p) \in SUBSET (DOMAIN timeline)
  BY DEF Income!Adjustments
<1>3. Income!Adjustments(v, period) \in SUBSET Income!Adjustments(v, Income!Always)
  <2>1. ASSUME NEW e \in DOMAIN timeline PROVE Income!Within(timeline[e].date, Income!Always)
    <3>1. timeline[e] \in Income!Entry
      BY <1>1
    <3>2. timeline[e].date \in Nat
      BY <3>1 DEF Income!Entry
    <3>3. /\ today \in 0 .. LastRental /\ LastRental \in Nat /\ timeline[e].date <= today
      BY DEF OwnersInv, Income!DatesPassed, Income!Day, Income!ConstantsAssumption
    <3> QED
      BY <3>2, <3>3 DEF Income!Within, Income!Always, Income!Unpaid
  <2> QED
    BY <2>1 DEF Income!Adjustments
<1>4. \A p : Income!AmountOf(timeline, Income!Adjustments(v, p)) \in Nat
  BY <1>1, <1>2, AmountsAre
<1>5. Income!AmountOf(timeline, Income!Adjustments(v, period))
        <= Income!AmountOf(timeline, Income!Adjustments(v, Income!Always))
  BY <1>1, <1>2, <1>3, MoreIsMore
<1> DEFINE few == Income!AmountOf(timeline, Income!Adjustments(v, period))
           all == Income!AmountOf(timeline, Income!Adjustments(v, Income!Always))
<1>6. few \in Nat /\ all \in Nat /\ few <= all
  BY <1>4, <1>5
<1>7. /\ Income!VehicleTotal(v, period) = Income!BaseItem(v).total + few
      /\ Income!VehicleTotal(v, Income!Always) = Income!BaseItem(v).total + all
  BY DEF Income!VehicleTotal
<1> HIDE DEF few, all
<1>8. /\ Income!VehicleTotal(v, period) \in Nat
      /\ Income!VehicleTotal(v, period) <= Income!VehicleTotal(v, Income!Always)
  BY <1>1, <1>6, <1>7
<1> QED
  BY <1>6, <1>7, <1>8 DEF few

\* What a report says of a period.
LEMMA IncomeIs ==
    ASSUME Income!ConstantsAssumption, OwnersInv, NEW v, NEW period
    PROVE  /\ ~Income!Reported(v) => Income!Income(v, period) = 0
           /\ Income!Reported(v) =>
                /\ Income!VehicleTotal(v, period) * Income!Used(v) \in Nat
                /\ Income!Income(v, period)
                     = (IF Income!Within(0, period)
                        THEN AtFirst(Income!VehicleTotal(v, period) * Income!Used(v),
                                     Income!OutOf(v))
                        ELSE 0)
                       + (IF Income!Within(rental.paid, period)
                          THEN Later(Income!VehicleTotal(v, period) * Income!Used(v),
                                     Income!OutOf(v))
                          ELSE 0)
<1>1. CASE ~Income!Reported(v)
  BY <1>1 DEF Income!Income
<1>2. CASE Income!Reported(v)
  <2>1. /\ Income!VehicleTotal(v, period) \in Nat
        /\ Income!Used(v) \in Nat /\ Income!OutOf(v) \in Nat \ {0}
    BY <1>2, ReportedIs, TotalsAre DEF OwnersInv
  <2>2. Income!VehicleTotal(v, period) * Income!Used(v) \in Nat
    BY <2>1
  <2>3. Income!Income(v, period) = Income!PaidIn(Income!Parts(v, period), period)
    BY <1>2 DEF Income!Income
  <2> QED
    BY <1>2, <2>1, <2>2, <2>3, PaidInIs
<1> QED
  BY <1>1, <1>2

\* What comes in a day comes in one of the months.
LEMMA InOneMonth ==
    ASSUME Income!ConstantsAssumption, NEW day \in Income!Day, NEW k \in Nat,
           NEW w, \A m \in StatementMonths : /\ w[m] \in Nat /\ w[m] <= k
                                             /\ ~Income!Within(day, m) => w[m] = 0
    PROVE  Dash!SumOf([m \in StatementMonths |-> w[m]]) <= k
<1> DEFINE In == {m \in StatementMonths : m.from <= day /\ day < m.to}
<1>1. IsFiniteSet(StatementMonths) /\ IsFiniteSet(In) /\ Cardinality(In) = 1
  <2>1. IsFiniteSet(StatementMonths) /\ Cardinality(In) = 1
    BY SameSizes DEF Income!ConstantsAssumption
  <2>2. In \in SUBSET StatementMonths
    OBVIOUS
  <2> QED
    BY <2>1, <2>2, FS_Subset
<1>2. PICK m : In = {m}
  BY <1>1, FS_Singleton
<1>3. m \in StatementMonths /\ {m} \in SUBSET StatementMonths
  BY <1>2
<1>4. \A l \in StatementMonths \ {m} : w[l] = 0
  <2>1. \A l \in StatementMonths \ {m} : ~Income!Within(day, l)
    BY <1>2 DEF Income!Within
  <2> QED
    BY <2>1
<1>5. Dash!SumOf([l \in {m} |-> w[l]]) = Dash!SumOf([l \in StatementMonths |-> w[l]])
  BY <1>1, <1>3, <1>4, SumOfSome
<1>6. Dash!SumOf([l \in {m} |-> w[l]]) = w[m]
  <2>1. w[m] \in Int
    BY <1>3
  <2> QED
    BY <2>1, SumOfOne
<1> QED
  BY <1>3, <1>5, <1>6

\* Monthly statements come to no more than what a vehicle earned: each payment is in one of
\* them, of a total that is not more than that of all the time.
LEMMA IncomeCountedOnce ==
    Income!ConstantsAssumption => (OwnersInv => Income!NothingCountedTwice)
<1> SUFFICES ASSUME Income!ConstantsAssumption, OwnersInv, NEW v \in Vehicles
             PROVE  Dash!SumOf([m \in StatementMonths |-> Income!Income(v, m)])
                      <= Income!Income(v, Income!Always)
  BY SameTotals DEF Income!NothingCountedTwice
<1>0. IsFiniteSet(StatementMonths)
  BY SameSizes DEF Income!ConstantsAssumption
<1>1. CASE ~Income!Reported(v)
  <2> DEFINE w == [m \in StatementMonths |-> Income!Income(v, m)]
  <2>1. \A p : Income!Income(v, p) = 0
    BY <1>1, IncomeIs
  <2>2. w \in [StatementMonths -> Int] /\ \A m \in StatementMonths : w[m] = 0
    BY <2>1
  <2> HIDE DEF w
  <2>3. Dash!SumOf(w) = 0
    BY <1>0, <2>2, SumIsInt
  <2> QED
    BY <2>1, <2>3 DEF w
<1>2. CASE Income!Reported(v)
  <2> DEFINE n(p) == Income!VehicleTotal(v, p) * Income!Used(v)
             o == Income!OutOf(v)
             all == Income!VehicleTotal(v, Income!Always) * Income!Used(v)
             f == [m \in StatementMonths |->
                     IF Income!Within(0, m) THEN AtFirst(n(m), o) ELSE 0]
             g == [m \in StatementMonths |->
                     IF Income!Within(rental.paid, m) THEN Later(n(m), o) ELSE 0]
  <2>1. /\ o \in Nat \ {0} /\ all \in Nat
        /\ \A p : n(p) \in Nat /\ n(p) <= all
    <3>1. /\ Income!TookPart(v) /\ o \in Nat \ {0} /\ Income!Used(v) \in Nat
      BY <1>2, ReportedIs DEF OwnersInv
    <3>2. ASSUME NEW p PROVE n(p) \in Nat /\ n(p) <= all /\ all \in Nat
      <4>1. /\ Income!VehicleTotal(v, p) \in Nat /\ Income!VehicleTotal(v, Income!Always) \in Nat
            /\ Income!VehicleTotal(v, p) <= Income!VehicleTotal(v, Income!Always)
        BY <3>1, TotalsAre
      <4> QED
        BY <3>1, <4>1
    <3> QED
      BY <3>1, <3>2
  <2>2. ASSUME NEW m \in StatementMonths
        PROVE  /\ f[m] \in Nat /\ g[m] \in Nat
               /\ f[m] <= AtFirst(all, o) /\ g[m] <= Later(all, o)
               /\ ~Income!Within(0, m) => f[m] = 0
               /\ ~Income!Within(rental.paid, m) => g[m] = 0
               /\ Income!Income(v, m) = f[m] + g[m]
    <3>1. n(m) \in Nat /\ n(m) <= all /\ all \in Nat /\ o \in Nat \ {0}
      BY <2>1
    <3>2. /\ f[m] = IF Income!Within(0, m) THEN AtFirst(n(m), o) ELSE 0
          /\ g[m] = IF Income!Within(rental.paid, m) THEN Later(n(m), o) ELSE 0
      OBVIOUS
    <3>3. Income!Income(v, m) = (IF Income!Within(0, m) THEN AtFirst(n(m), o) ELSE 0)
                                + (IF Income!Within(rental.paid, m) THEN Later(n(m), o) ELSE 0)
      BY <1>2, IncomeIs
    <3> HIDE DEF n, o, all, f, g
    <3>4. /\ AtFirst(n(m), o) \in Nat /\ Later(n(m), o) \in Nat
          /\ AtFirst(n(m), o) <= AtFirst(all, o) /\ Later(n(m), o) <= Later(all, o)
          /\ AtFirst(all, o) \in Nat /\ Later(all, o) \in Nat
      BY <3>1, PaymentsGrow
    <3> QED
      BY <3>2, <3>3, <3>4
  <2>3. AtFirst(all, o) \in Nat /\ Later(all, o) \in Nat
    BY <2>1, PaymentsGrow
  <2>4. Income!Income(v, Income!Always) = AtFirst(all, o) + Later(all, o)
    <3>1. rental.paid \in Nat /\ LastRental \in Nat
      BY DEF OwnersInv, IncomeInv, Income!TypeOK, Income!ConstantsAssumption
    <3>2. today \in 0 .. LastRental /\ (rental.paid = Income!Unpaid \/ rental.paid <= today)
      BY DEF OwnersInv, Income!DatesPassed, Income!Day
    <3>3. Income!Within(0, Income!Always) /\ Income!Within(rental.paid, Income!Always)
      BY <3>1, <3>2 DEF Income!Within, Income!Always, Income!Unpaid
    <3> QED
      BY <1>2, <3>3, IncomeIs
  <2> HIDE DEF n, o, all, f, g
  <2>5. Dash!SumOf([m \in StatementMonths |-> f[m]]) <= AtFirst(all, o)
    <3>1. 0 \in Income!Day
      BY DEF Income!Day, Income!ConstantsAssumption
    <3> QED
      BY <2>2, <2>3, <3>1, InOneMonth
  <2>6. Dash!SumOf([m \in StatementMonths |-> g[m]]) <= Later(all, o)
    <3>1. CASE rental.paid \in Income!Day
      BY <2>2, <2>3, <3>1, InOneMonth
    <3>2. CASE rental.paid \notin Income!Day
      <4>1. /\ rental.paid \in Nat /\ LastRental \in Nat /\ today \in 0 .. LastRental
            /\ rental.status = "APROBADO" /\ rental.method # "none" => rental.paid <= today
        BY DEF OwnersInv, IncomeInv, Income!TypeOK, Income!ConstantsAssumption, Income!DatesPassed,
               Income!Day
      <4>2. rental.method = "none"
        BY <1>2, <3>2, <4>1, ReportedIs DEF OwnersInv, Income!Day
      <4>3. \A x, y : Later(x, y) = 0
        BY <4>2 DEF Later
      <4>4. \A m \in StatementMonths : g[m] = 0
        BY <4>3 DEF g
      <4> DEFINE w == [m \in StatementMonths |-> g[m]]
      <4>5. w \in [StatementMonths -> Int] /\ \A m \in StatementMonths : w[m] = 0
        BY <4>4
      <4> HIDE DEF w
      <4>6. Dash!SumOf(w) = 0
        BY <1>0, <4>5, SumIsInt
      <4> QED
        BY <2>3, <4>6 DEF w
    <3> QED
      BY <3>1, <3>2
  <2>7. Dash!SumOf([m \in StatementMonths |-> f[m] + g[m]])
          = Dash!SumOf([m \in StatementMonths |-> f[m]])
            + Dash!SumOf([m \in StatementMonths |-> g[m]])
    BY <1>0, <2>2, SumOfSums
  <2>8. [m \in StatementMonths |-> Income!Income(v, m)] = [m \in StatementMonths |-> f[m] + g[m]]
    BY <2>2
  <2>9. /\ Dash!SumOf([m \in StatementMonths |-> f[m]]) \in Int
        /\ Dash!SumOf([m \in StatementMonths |-> g[m]]) \in Int
    <3>1. /\ [m \in StatementMonths |-> f[m]] \in [StatementMonths -> Int]
          /\ [m \in StatementMonths |-> g[m]] \in [StatementMonths -> Int]
      BY <2>2
    <3> QED
      BY <1>0, <3>1, SumIsInt
  <2> DEFINE x == Dash!SumOf([m \in StatementMonths |-> f[m]])
             y == Dash!SumOf([m \in StatementMonths |-> g[m]])
             z == Dash!SumOf([m \in StatementMonths |-> Income!Income(v, m)])
             i == Income!Income(v, Income!Always)
             c == AtFirst(all, o)
             d == Later(all, o)
  <2>10. z = x + y
    BY <2>7, <2>8
  <2>11. x \in Int /\ y \in Int /\ x <= c /\ y <= d /\ c \in Nat /\ d \in Nat /\ i = c + d
    BY <2>3, <2>4, <2>5, <2>6, <2>9
  <2> HIDE DEF c, d, i, x, y, z
  <2>12. z <= i
    BY <2>10, <2>11
  <2> QED
    BY <2>12 DEF i, z
<1> QED
  BY <1>1, <1>2

\* No entries come to nothing.
LEMMA NoAmount == \A h : Income!AmountOf(h, {}) = 0
<1> SUFFICES ASSUME NEW h PROVE Income!AmountOf(h, {}) = 0
  OBVIOUS
<1>1. IsFiniteSet({}) /\ \A x \in {} : h[x].amount \in Int
  BY FS_EmptySet
<1>2. Income!AmountOf(h, {}) = Dash!SumOf([x \in {} |-> h[x].amount])
  BY <1>1, AmountIsPart
<1>3. [x \in {} |-> h[x].amount] \in [{} -> Int]
  OBVIOUS
<1> QED
  BY <1>1, <1>2, <1>3, SumIsInt

\* A deleted entry leaves no trace: its snapshot is gone with it.
LEMMA UndoneLeavesNothing ==
    Income!ConstantsAssumption => (OwnersInv => Income!UndoneIsForgotten)
<1> SUFFICES ASSUME Income!ConstantsAssumption, OwnersInv, Income!Standing = {}, NEW v \in Vehicles
             PROVE  /\ Income!Removed(v) => Income!Income(v, Income!Always) = 0
                    /\ ~Income!Removed(v) =>
                         /\ Income!RentalDays(v, Income!Always)
                              = Income!BaseItem(v).end - Income!BaseItem(v).start
                         /\ Income!VehicleTotal(v, Income!Always) = Income!BaseItem(v).total
  BY DEF Income!UndoneIsForgotten
<1>1. \A s \in DOMAIN snapshots : FALSE
  BY DEF OwnersInv, Income!SnapshotsStand
<1>2. Income!Left(v) = {} /\ Income!Moves(v) = {}
  BY <1>1 DEF Income!Left, Income!Moves
<1>3. CASE Income!Removed(v)
  <2>1. ~Income!Reported(v)
    BY <1>2, <1>3 DEF Income!Reported, Income!TookPart
  <2> QED
    BY <1>3, <2>1, IncomeIs
<1>4. CASE ~Income!Removed(v)
  <2>1. Income!TookPart(v)
    BY <1>4 DEF Income!TookPart
  <2>2. Income!RentalDays(v, Income!Always) = Income!Use(v).end - Income!Use(v).start
    BY <1>2 DEF Income!RentalDays, Income!OriginalEnd
  <2>3. /\ Income!Use(v).start = Income!BaseItem(v).start
        /\ Income!Use(v).end = Income!BaseItem(v).end
    BY <1>2, <2>1, UseIs DEF OwnersInv
  <2>4. Income!Adjustments(v, Income!Always) = {}
    BY DEF Income!Adjustments, Income!Standing
  <2>5. Income!VehicleTotal(v, Income!Always) = Income!BaseItem(v).total + 0
    BY <2>4, NoAmount DEF Income!VehicleTotal
  <2>6. Income!BaseItem(v).total \in Nat
    BY <2>1, BaseIs DEF OwnersInv
  <2> QED
    BY <1>4, <2>2, <2>3, <2>5, <2>6
<1> QED
  BY <1>3, <1>4

\* Of a whole use the payments do not depend on how long it is; together they are the total,
\* but for rounding, unless it is paid in one: then they are.
LEMMA WholePayments ==
    ASSUME NEW sum \in Nat, NEW used \in Nat \ {0}
    PROVE  /\ rental.method = "cash" =>
                sum - (AtFirst(sum * used, used) + Later(sum * used, used)) \in -1 .. 1
           /\ rental.method = "transfer" =>
                AtFirst(sum * used, used) = 0 /\ Later(sum * used, used) = sum
           /\ rental.method \notin {"cash", "transfer"} =>
                AtFirst(sum * used, used) = sum /\ Later(sum * used, used) = 0
<1>1. /\ Income!Round(sum * used, 5 * used) = Income!Round(sum, 5)
      /\ Income!Round(4 * (sum * used), 5 * used) = Income!Round(4 * sum, 5)
  <2>1. 4 * sum \in Nat /\ (4 * sum) * used = 4 * (sum * used)
    OBVIOUS
  <2> QED
    BY <2>1, RoundScales
<1>2. Income!Round(sum * used, used) = Income!Round(sum, 1)
  <2>1. 1 * used = used
    OBVIOUS
  <2>2. Income!Round(sum * used, 1 * used) = Income!Round(sum, 1)
    BY RoundScales
  <2> QED
    BY <2>1, <2>2
<1>3. Income!Round(sum, 1) = sum
  BY DEF Income!Round
<1>4. sum - (Income!Round(sum, 5) + Income!Round(4 * sum, 5)) \in -1 .. 1
  BY DEF Income!Round
<1> QED
  BY <1>1, <1>2, <1>3, <1>4 DEF AtFirst, Later

\* The rows of a workbook come to the income of its summary.
LEMMA RowsAreIncome ==
    Income!ConstantsAssumption => (OwnersInv => Income!StatementAddsUp)
<1> SUFFICES ASSUME Income!ConstantsAssumption, OwnersInv, NEW v \in Vehicles, Income!Reported(v),
                    ~Income!Removed(v), Income!Used(v) = Income!OutOf(v), NEW period,
                    rental.method = "cash" =>
                      Income!Within(0, period) /\ Income!Within(rental.paid, period)
             PROVE  Income!RowsTotal(v, period) - Income!Income(v, period) \in -1 .. 1
  BY DEF Income!StatementAddsUp
<1> DEFINE sum == Income!VehicleTotal(v, period)
           u == Income!Used(v)
           early == Income!Within(0, period)
           then == Income!Within(rental.paid, period)
           paid == \E i \in DOMAIN Income!Parts(v, period) :
                     Income!Within(Income!Parts(v, period)[i].date, period)
<1>1. /\ Income!TookPart(v) /\ u \in Nat \ {0} /\ Income!OutOf(v) = u
      /\ sum \in Nat
  BY ReportedIs, TotalsAre DEF OwnersInv
<1>2. Income!RowsTotal(v, period) = IF paid THEN sum ELSE 0
  <2>1. {e \in DOMAIN timeline : /\ ~timeline[e].deleted /\ timeline[e].amount > 0
                                 /\ Income!Within(timeline[e].date, period)}
          = Income!Adjustments(v, period)
    BY DEF Income!Adjustments
  <2> QED
    BY <2>1 DEF Income!RowsTotal, Income!VehicleTotal
<1>3. Income!Income(v, period) = (IF early THEN AtFirst(sum * u, u) ELSE 0)
                                 + (IF then THEN Later(sum * u, u) ELSE 0)
  BY <1>1, IncomeIs
<1>4. /\ rental.method = "cash" => (early => paid)
      /\ rental.method = "transfer" => (then => paid) /\ (paid => then)
      /\ rental.method \notin {"cash", "transfer"} => (early => paid) /\ (paid => early)
  BY DEF Income!Parts
<1> HIDE DEF sum, u, paid
<1>5. CASE rental.method = "cash"
  <2>1. early /\ then /\ paid
    BY <1>4, <1>5
  <2>2. Income!RowsTotal(v, period) = sum
    BY <1>2, <2>1
  <2>3. Income!Income(v, period) = AtFirst(sum * u, u) + Later(sum * u, u)
    BY <1>3, <2>1
  <2>4. sum - (AtFirst(sum * u, u) + Later(sum * u, u)) \in -1 .. 1
    BY <1>1, <1>5, WholePayments
  <2> QED
    BY <2>2, <2>3, <2>4
<1>6. CASE rental.method = "transfer"
  <2>1. AtFirst(sum * u, u) = 0 /\ Later(sum * u, u) = sum
    BY <1>1, <1>6, WholePayments
  <2>2. CASE then
    BY <1>1, <1>2, <1>3, <1>4, <1>6, <2>1, <2>2
  <2>3. CASE ~then
    BY <1>1, <1>2, <1>3, <1>4, <1>6, <2>1, <2>3
  <2> QED
    BY <2>2, <2>3
<1>7. CASE rental.method \notin {"cash", "transfer"}
  <2>1. AtFirst(sum * u, u) = sum /\ Later(sum * u, u) = 0
    BY <1>1, <1>7, WholePayments
  <2>2. CASE early
    BY <1>1, <1>2, <1>3, <1>4, <1>7, <2>1, <2>2
  <2>3. CASE ~early
    BY <1>1, <1>2, <1>3, <1>4, <1>7, <2>1, <2>3
  <2> QED
    BY <2>2, <2>3
<1> QED
  BY <1>5, <1>6, <1>7

\* A cart of one vehicle.
LEMMA CartsOfOne ==
    ASSUME NEW c \in Income!Cart, Len(c) = 1
    PROVE  /\ c # <<>> /\ c[1] \in Income!Item /\ c[1].start < c[1].end
           /\ c[1].vehicle \in Vehicles /\ c[1].start \in Nat /\ c[1].end \in Nat
           /\ c[1].total \in Nat
           /\ Income!Names(c, c[1].vehicle) /\ Income!ItemOf(c, c[1].vehicle) = c[1]
           /\ \A v : Income!Names(c, v) => v = c[1].vehicle
<1>1. DOMAIN c = {1} /\ c # <<>> /\ c[1] \in Income!Item /\ c[1].start < c[1].end
  BY DEF Income!Cart
<1>2. /\ Income!Names(c, c[1].vehicle)
      /\ \A v : Income!Names(c, v) => v = c[1].vehicle
  BY <1>1 DEF Income!Names
<1> DEFINE T == {i \in DOMAIN c : c[i].vehicle = c[1].vehicle}
<1>3. T \in SUBSET Nat /\ T # {} /\ T \in SUBSET {1}
  BY <1>1
<1>4. Income!Min(T) = 1
  <2> HIDE DEF T
  <2>1. Income!Min(T) \in T
    BY <1>3, LeastIsIn
  <2> QED
    BY <1>3, <2>1
<1>5. Income!ItemOf(c, c[1].vehicle) = c[1]
  BY <1>4 DEF Income!ItemOf
<1> QED
  BY <1>1, <1>2, <1>5 DEF Income!Item

\* The snapshot with the one change of vehicles, and what it means for the others.
IsChange(k) ==
    LET old(j) == snapshots[j].old[1]
        new(j) == snapshots[j].new[1]
    IN  /\ k \in DOMAIN snapshots
        /\ old(k).vehicle # new(k).vehicle
        /\ old(k).start <= new(k).start /\ new(k).start < old(k).end /\ new(k).end = old(k).end
        /\ \A j \in DOMAIN snapshots :
             /\ j < k => old(j).vehicle = old(k).vehicle /\ new(j).vehicle = old(k).vehicle
             /\ k < j => old(j).vehicle = new(k).vehicle /\ new(j).vehicle = new(k).vehicle
        /\ rental.cart[1].vehicle = new(k).vehicle

\* Rentals of one vehicle have a vehicle in each snapshot.
LEMMA OneEach ==
    ASSUME OwnersInv, Len(rental.cart) = 1
    PROVE  /\ rental.cart \in Income!Cart
           /\ Len(snapshots) \in Nat /\ DOMAIN snapshots = 1 .. Len(snapshots)
           /\ \A j \in DOMAIN snapshots :
                /\ snapshots[j].old \in Income!Cart /\ Len(snapshots[j].old) = 1
                /\ snapshots[j].new \in Income!Cart /\ Len(snapshots[j].new) = 1
                /\ snapshots[j].old[1].total = rental.cart[1].total
                /\ snapshots[j].new[1].total = rental.cart[1].total
<1>1. /\ rental.cart \in Income!Cart /\ snapshots \in Seq(Income!Snapshot)
      /\ \A j \in DOMAIN snapshots : snapshots[j] \in Income!Snapshot
  BY DEF OwnersInv, IncomeInv, Income!TypeOK
<1>2. \A j \in DOMAIN snapshots : snapshots[j].old \in Income!Cart /\ snapshots[j].new \in Income!Cart
  BY <1>1 DEF Income!Snapshot
<1>3. 1 \in DOMAIN rental.cart
  BY <1>1 DEF Income!Cart
<1> QED
  BY <1>1, <1>2, <1>3 DEF OwnersInv, Income!SameRental, Income!SamePrices

\* There is one: by the last snapshot before it, and the first after it, for which this fails.
LEMMA OneChange ==
    ASSUME OwnersInv, Income!OneReplacement
    PROVE  Len(rental.cart) = 1 /\ \E k \in DOMAIN snapshots : IsChange(k)
<1> DEFINE n == Len(snapshots)
           old(j) == snapshots[j].old[1]
           new(j) == snapshots[j].new[1]
           Changed == {s \in DOMAIN snapshots : old(s).vehicle # new(s).vehicle}
<1>1. /\ Len(rental.cart) = 1 /\ Cardinality(Changed) = 1 /\ Income!Recorded
      /\ \A s \in Changed :
           /\ old(s).start <= new(s).start /\ new(s).start < old(s).end /\ new(s).end = old(s).end
  BY SameSizes DEF Income!OneReplacement
<1>2. n \in Nat /\ DOMAIN snapshots = 1 .. n
  BY <1>1, OneEach
<1>3. PICK k : Changed = {k}
  <2>1. Changed \in SUBSET (1 .. n)
    BY <1>2
  <2>2. IsFiniteSet(Changed)
    <3> HIDE DEF n, Changed
    <3>1. IsFiniteSet(1 .. n)
      BY <1>2, FS_Interval
    <3> QED
      BY <2>1, <3>1, FS_Subset
  <2> QED
    BY <1>1, <2>2, FS_Singleton
<1>4. /\ k \in 1 .. n /\ old(k).vehicle # new(k).vehicle
      /\ \A j \in 1 .. n : j # k => old(j).vehicle = new(j).vehicle
  <2>1. k \in Changed /\ \A j \in DOMAIN snapshots : j # k => j \notin Changed
    BY <1>3
  <2> QED
    BY <1>2, <2>1
<1>5. \A j \in 1 .. n : new(j) = IF j = n THEN rental.cart[1] ELSE old(j + 1)
  BY <1>1, <1>2 DEF Income!Recorded
<1> HIDE DEF n, Changed, old, new
<1>6. \A j \in 1 .. k - 1 : new(j).vehicle = old(k).vehicle
  <2> DEFINE Bad == {j \in 1 .. k - 1 : new(j).vehicle # old(k).vehicle}
  <2> SUFFICES ASSUME Bad # {} PROVE FALSE
    OBVIOUS
  <2>1. Bad \in SUBSET (1 .. n)
    BY <1>2, <1>4
  <2>2. PICK j \in Bad : \A l \in Bad : l <= j
    <3> HIDE DEF Bad
    <3> QED
      BY <1>2, <2>1, GreatestIsIn
  <2>3. j \in 1 .. k - 1 /\ j + 1 \in 1 .. n /\ j # n /\ new(j) = old(j + 1)
    BY <1>2, <1>4, <1>5
  <2>4. j + 1 # k
    BY <2>3
  <2>5. j + 1 \in 1 .. k - 1 /\ j + 1 \notin Bad
    BY <1>4, <2>2, <2>3, <2>4
  <2>6. new(j + 1).vehicle = old(k).vehicle /\ old(j + 1).vehicle = new(j + 1).vehicle
    BY <1>4, <2>3, <2>4, <2>5
  <2> QED
    BY <2>3, <2>6
<1>7. \A j \in k + 1 .. n : old(j).vehicle = new(k).vehicle
  <2> DEFINE Bad == {j \in k + 1 .. n : old(j).vehicle # new(k).vehicle}
  <2> SUFFICES ASSUME Bad # {} PROVE FALSE
    OBVIOUS
  <2>1. Bad \in SUBSET Nat
    BY <1>2, <1>4
  <2>2. PICK j \in Bad : \A l \in Bad : j <= l
    <3> HIDE DEF Bad
    <3> QED
      BY <2>1, LeastNumber
  <2> DEFINE i == j - 1
  <2>3. j \in k + 1 .. n /\ i \in 1 .. n /\ i # n /\ i + 1 = j
    BY <1>2, <1>4
  <2> HIDE DEF i
  <2>4. new(i) = old(j)
    BY <1>5, <2>3
  <2>5. i # k
    BY <2>4
  <2>6. i \in k + 1 .. n /\ i \notin Bad
    BY <1>2, <1>4, <2>2, <2>3, <2>5
  <2>7. old(i).vehicle = new(k).vehicle /\ old(i).vehicle = new(i).vehicle
    BY <1>4, <2>3, <2>5, <2>6
  <2> QED
    BY <2>4, <2>7
<1>8. rental.cart[1].vehicle = new(k).vehicle
  <2>1. n \in 1 .. n /\ new(n) = rental.cart[1]
    BY <1>2, <1>4, <1>5
  <2>2. CASE n = k
    BY <2>1, <2>2
  <2>3. CASE n # k
    <3>1. n \in k + 1 .. n
      BY <1>2, <1>4, <2>3
    <3>2. new(n).vehicle = old(n).vehicle
      BY <1>4, <2>1, <2>3
    <3> QED
      BY <1>7, <2>1, <3>1, <3>2
  <2> QED
    BY <2>2, <2>3
<1>9. ASSUME NEW j \in 1 .. n
      PROVE  /\ j < k => old(j).vehicle = old(k).vehicle /\ new(j).vehicle = old(k).vehicle
             /\ k < j => old(j).vehicle = new(k).vehicle /\ new(j).vehicle = new(k).vehicle
  <2>1. j # k => old(j).vehicle = new(j).vehicle
    BY <1>4
  <2>2. j < k => j \in 1 .. k - 1
    BY <1>4
  <2>3. k < j => j \in k + 1 .. n
    BY <1>2, <1>4
  <2>4. ASSUME j < k PROVE old(j).vehicle = old(k).vehicle /\ new(j).vehicle = old(k).vehicle
    BY <1>4, <1>6, <2>1, <2>2, <2>4
  <2>5. ASSUME k < j PROVE old(j).vehicle = new(k).vehicle /\ new(j).vehicle = new(k).vehicle
    BY <1>4, <1>7, <2>1, <2>3, <2>5
  <2> QED
    BY <2>4, <2>5
<1>10. k \in DOMAIN snapshots /\ k \in Changed
  BY <1>2, <1>3, <1>4
<1>11. old(k).start <= new(k).start /\ new(k).start < old(k).end /\ new(k).end = old(k).end
  BY <1>1, <1>10 DEF old, new
<1> QED
  BY <1>1, <1>2, <1>4, <1>8, <1>9, <1>10, <1>11 DEF IsChange, old, new

\* Of the two vehicles the first was used until the second started, the second since, both out
\* of the days of the first.
LEMMA SharesAre ==
    ASSUME OwnersInv, Len(rental.cart) = 1, NEW k, IsChange(k)
    PROVE  \E a \in Vehicles, b \in Vehicles :
             /\ a # b /\ Income!Removed(a) /\ ~Income!Removed(b)
             /\ \A v : Income!TookPart(v) = (v \in {a, b})
             /\ Income!Used(a) \in Nat /\ Income!Used(b) \in Nat
             /\ Income!Used(a) + Income!Used(b) \in Nat \ {0}
             /\ Income!OutOf(a) = Income!Used(a) + Income!Used(b)
             /\ Income!OutOf(b) = Income!Used(a) + Income!Used(b)
             /\ Income!BaseItem(a).total = rental.cart[1].total
             /\ Income!BaseItem(b).total = rental.cart[1].total
<1> DEFINE old(j) == snapshots[j].old[1]
           new(j) == snapshots[j].new[1]
           a == old(k).vehicle
           b == new(k).vehicle
<1>1. /\ rental.cart \in Income!Cart /\ Len(snapshots) \in Nat
      /\ DOMAIN snapshots = 1 .. Len(snapshots)
      /\ \A j \in DOMAIN snapshots :
           /\ snapshots[j].old \in Income!Cart /\ Len(snapshots[j].old) = 1
           /\ snapshots[j].new \in Income!Cart /\ Len(snapshots[j].new) = 1
           /\ snapshots[j].old[1].total = rental.cart[1].total
           /\ snapshots[j].new[1].total = rental.cart[1].total
  BY OneEach
<1>2. /\ k \in DOMAIN snapshots /\ a # b
      /\ old(k).start <= new(k).start /\ new(k).start < old(k).end /\ new(k).end = old(k).end
      /\ \A j \in DOMAIN snapshots :
           /\ j < k => old(j).vehicle = a /\ new(j).vehicle = a
           /\ k < j => old(j).vehicle = b /\ new(j).vehicle = b
      /\ rental.cart[1].vehicle = b
  BY DEF IsChange
<1>3. /\ a \in Vehicles /\ b \in Vehicles
      /\ old(k).start \in Nat /\ old(k).end \in Nat
      /\ new(k).start \in Nat /\ new(k).end \in Nat
      /\ snapshots[k].old # <<>> /\ snapshots[k].new # <<>>
      /\ Income!ItemOf(snapshots[k].old, a) = old(k) /\ Income!ItemOf(snapshots[k].new, b) = new(k)
  BY <1>1, <1>2, CartsOfOne
<1>4. ASSUME NEW v, NEW j \in DOMAIN snapshots
      PROVE  /\ Income!Names(snapshots[j].old, v) = (v = old(j).vehicle)
             /\ Income!Names(snapshots[j].new, v) = (v = new(j).vehicle)
  <2>1. ASSUME NEW c \in Income!Cart, Len(c) = 1
        PROVE  Income!Names(c, v) = (v = c[1].vehicle)
    <3>1. Income!Names(c, v) => v = c[1].vehicle
      BY <2>1, CartsOfOne
    <3>2. v = c[1].vehicle => Income!Names(c, v)
      BY <2>1, CartsOfOne
    <3>3. Income!Names(c, v) \in BOOLEAN
      BY DEF Income!Names
    <3> QED
      BY <3>1, <3>2, <3>3
  <2> QED
    BY <1>1, <2>1
<1>5. \A v : Income!Removed(v) = (v # b)
  <2>1. \A v : Income!Names(rental.cart, v) = (v = b)
    <3>1. ASSUME NEW v PROVE Income!Names(rental.cart, v) = (v = b)
      <4>1. Income!Names(rental.cart, v) => v = b
        BY <1>1, <1>2, CartsOfOne
      <4>2. v = b => Income!Names(rental.cart, v)
        BY <1>1, <1>2, CartsOfOne
      <4>3. Income!Names(rental.cart, v) \in BOOLEAN
        BY DEF Income!Names
      <4> QED
        BY <4>1, <4>2, <4>3
    <3> QED
      BY <3>1
  <2> QED
    BY <2>1 DEF Income!Removed
<1>6. \A v : Income!Moves(v) = {j \in DOMAIN snapshots : (v = old(j).vehicle) # (v = new(j).vehicle)}
  BY <1>4 DEF Income!Moves
<1>7. \A v : Income!Left(v) = {j \in DOMAIN snapshots : v = old(j).vehicle}
  BY <1>4 DEF Income!Left
<1> HIDE DEF old, new, a, b
<1>8. Income!Moves(a) = {k} /\ Income!Moves(b) = {k}
  <2>1. ASSUME NEW j \in DOMAIN snapshots
        PROVE  /\ (a = old(j).vehicle) # (a = new(j).vehicle) <=> j = k
               /\ (b = old(j).vehicle) # (b = new(j).vehicle) <=> j = k
    <3>1. CASE j = k
      BY <1>2, <3>1 DEF a, b
    <3>2. CASE j < k
      BY <1>1, <1>2, <3>2
    <3>3. CASE k < j
      BY <1>1, <1>2, <3>3
    <3> QED
      BY <1>1, <1>2, <3>1, <3>2, <3>3
  <2> QED
    BY <1>2, <1>6, <2>1
<1>9. Income!Max({k}) = k
  <2>1. {k} \in SUBSET (1 .. Len(snapshots)) /\ {k} # {}
    BY <1>1, <1>2
  <2>2. Income!Max({k}) \in {k}
    BY <1>1, <2>1, GreatestIsIn
  <2> QED
    BY <2>2
<1>10. Income!Use(a) = Income!UseOfRemoved(old(k), snapshots[k])
  <2>1. Income!Names(snapshots[k].old, a)
    BY <1>2, <1>4 DEF a
  <2> QED
    BY <1>3, <1>8, <1>9, <2>1 DEF Income!Use
<1>11. Income!Use(b) = Income!UseOfAdded(new(k), snapshots[k])
  <2>1. ~Income!Names(snapshots[k].old, b)
    BY <1>2, <1>4 DEF a
  <2> QED
    BY <1>3, <1>8, <1>9, <2>1 DEF Income!Use
<1>12. /\ Income!Use(a).start = old(k).start /\ Income!Use(a).end = new(k).start
       /\ Income!Use(a).from = old(k).start /\ Income!Use(a).to = old(k).end
  <2>1. snapshots[k].new[1].start = new(k).start
    BY DEF new
  <2>2. new(k).start \in old(k).start .. old(k).end
    BY <1>2, <1>3
  <2> QED
    BY <1>3, <1>10, <2>1, <2>2 DEF Income!UseOfRemoved
<1>13. /\ Income!Use(b).start = new(k).start /\ Income!Use(b).end = new(k).end
       /\ Income!Use(b).from = old(k).start /\ Income!Use(b).to = new(k).end
  <2>1. snapshots[k].old[1].start = old(k).start
    BY DEF old
  <2> QED
    BY <1>3, <1>11, <2>1 DEF Income!UseOfAdded
<1>14. /\ Income!Used(a) = new(k).start - old(k).start
       /\ Income!OutOf(a) = old(k).end - old(k).start
       /\ Income!Used(b) = new(k).end - new(k).start
       /\ Income!OutOf(b) = old(k).end - old(k).start
  <2>1. Income!Used(a) = new(k).start - old(k).start /\ Income!Used(b) = new(k).end - new(k).start
    BY <1>12, <1>13 DEF Income!Used
  <2> QED
    BY <1>2, <1>3, <1>12, <1>13, <2>1 DEF Income!OutOf
<1>15. \A v : Income!TookPart(v) = (v \in {a, b})
  <2>1. ASSUME NEW v, v \in {a, b} PROVE Income!TookPart(v)
    <3>1. CASE v = b
      BY <1>5, <3>1 DEF Income!TookPart
    <3>2. CASE v = a
      <4>1. k \in Income!Left(a)
        BY <1>2, <1>7 DEF a
      <4> QED
        BY <3>2, <4>1 DEF Income!TookPart
    <3> QED
      BY <2>1, <3>1, <3>2
  <2>2. ASSUME NEW v, Income!TookPart(v) PROVE v \in {a, b}
    <3>1. CASE Income!Left(v) # {}
      <4>1. PICK j \in DOMAIN snapshots : v = old(j).vehicle
        BY <1>7, <3>1
      <4>2. j = k \/ j < k \/ k < j
        BY <1>1, <1>2
      <4> QED
        BY <1>2, <4>1, <4>2 DEF a
    <3>2. CASE Income!Left(v) = {}
      BY <1>5, <2>2, <3>2 DEF Income!TookPart
    <3> QED
      BY <3>1, <3>2
  <2>3. \A v : Income!TookPart(v) \in BOOLEAN
    BY DEF Income!TookPart
  <2> QED
    BY <2>1, <2>2, <2>3
<1>16. /\ Income!BaseItem(a).total = rental.cart[1].total
       /\ Income!BaseItem(b).total = rental.cart[1].total
  <2>1. IncomeInv
    BY DEF OwnersInv
  <2>2. Income!TookPart(a) /\ Income!TookPart(b) /\ Income!Removed(a) /\ ~Income!Removed(b)
    BY <1>2, <1>5, <1>15
  <2>3. Income!BaseItem(b).total = rental.cart[1].total
    <3>1. Income!BaseItem(b) = Income!ItemOf(rental.cart, b)
      BY <2>1, <2>2, BaseIs
    <3>2. Income!ItemOf(rental.cart, b) = rental.cart[1]
      BY <1>1, <1>2, CartsOfOne
    <3> QED
      BY <3>1, <3>2
  <2>4. Income!BaseItem(a).total = rental.cart[1].total
    <3>1. PICK j \in DOMAIN snapshots : /\ Income!Names(snapshots[j].old, a)
                                        /\ Income!BaseItem(a) = Income!ItemOf(snapshots[j].old, a)
      BY <2>1, <2>2, BaseIs
    <3>2. Income!ItemOf(snapshots[j].old, a) = snapshots[j].old[1]
      BY <1>1, <3>1, CartsOfOne
    <3> QED
      BY <1>1, <3>1, <3>2
  <2> QED
    BY <2>3, <2>4
<1>17. /\ Income!Used(a) \in Nat /\ Income!Used(b) \in Nat
       /\ Income!Used(a) + Income!Used(b) \in Nat \ {0}
       /\ Income!OutOf(a) = Income!Used(a) + Income!Used(b)
       /\ Income!OutOf(b) = Income!Used(a) + Income!Used(b)
  BY <1>2, <1>3, <1>14
<1>18. a # b /\ Income!Removed(a) /\ ~Income!Removed(b)
  BY <1>2, <1>5
<1> QED
  BY <1>3, <1>15, <1>16, <1>17, <1>18

\* calculateVehicleProportionFromChanges: the shares of the two are the whole.
LEMMA SharesAreWhole == OwnersInv => Income!SharesAddUp
<1> DEFINE took == {v \in Vehicles : Income!TookPart(v)}
           x == CHOOSE v \in took : Income!Removed(v)
           y == CHOOSE w \in took : ~Income!Removed(w)
<1> SUFFICES ASSUME OwnersInv, Income!OneReplacement
             PROVE  Income!Used(x) * Income!OutOf(y) + Income!Used(y) * Income!OutOf(x)
                      = Income!OutOf(x) * Income!OutOf(y)
  BY DEF Income!SharesAddUp
<1>1. Len(rental.cart) = 1 /\ \E k \in DOMAIN snapshots : IsChange(k)
  BY OneChange
<1>2. PICK a \in Vehicles, b \in Vehicles :
             /\ a # b /\ Income!Removed(a) /\ ~Income!Removed(b)
             /\ \A v : Income!TookPart(v) = (v \in {a, b})
             /\ Income!Used(a) \in Nat /\ Income!Used(b) \in Nat
             /\ Income!Used(a) + Income!Used(b) \in Nat \ {0}
             /\ Income!OutOf(a) = Income!Used(a) + Income!Used(b)
             /\ Income!OutOf(b) = Income!Used(a) + Income!Used(b)
  BY <1>1, SharesAre
<1>3. took = {a, b}
  BY <1>2
<1> HIDE DEF took
<1>4. x = a /\ y = b
  BY <1>2, <1>3
<1> HIDE DEF x, y
<1> DEFINE p == Income!Used(a)
           q == Income!Used(b)
<1>5. p \in Nat /\ q \in Nat /\ Income!OutOf(a) = p + q /\ Income!OutOf(b) = p + q
  BY <1>2
<1> HIDE DEF p, q
<1>6. p * (p + q) + q * (p + q) = (p + q) * (p + q)
  BY <1>5
<1> QED
  BY <1>4, <1>5, <1>6 DEF p, q

\* Both payments together are off by one at most.
LEMMA PaymentsAreClose ==
    ASSUME NEW n \in Nat, NEW d \in Nat \ {0}
    PROVE  /\ AtFirst(n, d) \in Nat /\ Later(n, d) \in Nat
           /\ d * (AtFirst(n, d) + Later(n, d)) <= n + d
<1>1. AtFirst(n, d) \in Nat /\ Later(n, d) \in Nat
  BY PaymentsGrow
<1>2. CASE rental.method = "cash"
  <2> DEFINE f == Income!Round(n, 5 * d)
             g == Income!Round(4 * n, 5 * d)
  <2>1. AtFirst(n, d) = f /\ Later(n, d) = g
    BY <1>2 DEF AtFirst, Later
  <2>2. 5 * d \in Nat \ {0} /\ 4 * n \in Nat
    OBVIOUS
  <2>3. f \in Nat /\ g \in Nat /\ 2 * ((5 * d) * f) <= 2 * n + 5 * d
        /\ 2 * ((5 * d) * g) <= 2 * (4 * n) + 5 * d
    BY <2>2, Rounded
  <2> HIDE DEF f, g
  <2>4. 2 * ((5 * d) * f) = 10 * (d * f) /\ 2 * ((5 * d) * g) = 10 * (d * g)
    BY <2>3
  <2>5. d * (f + g) = d * f + d * g /\ d * f \in Nat /\ d * g \in Nat
    BY <2>3
  <2>6. d * f + d * g <= n + d
    BY <2>3, <2>4, <2>5
  <2> QED
    BY <1>1, <2>1, <2>5, <2>6
<1>3. CASE rental.method # "cash"
  <2> DEFINE f == Income!Round(n, d)
  <2>1. AtFirst(n, d) + Later(n, d) = f
    <3>1. f \in Nat
      BY Rounded
    <3> QED
      BY <1>3, <3>1 DEF AtFirst, Later
  <2>2. f \in Nat /\ 2 * (d * f) <= 2 * n + d
    BY Rounded
  <2> HIDE DEF f
  <2>3. d * f \in Nat
    BY <2>2
  <2>4. d * f <= n + d
    BY <2>2, <2>3
  <2> QED
    BY <1>1, <2>1, <2>4
<1> QED
  BY <1>1, <1>2, <1>3

\* What stands is not less than the adjustments of a vehicle.
LEMMA TotalsAgreed ==
    ASSUME Income!ConstantsAssumption, OwnersInv, NEW v, Income!TookPart(v)
    PROVE  /\ Income!Agreed \in Nat /\ Income!VehicleTotal(v, Income!Always) \in Nat
           /\ Income!BaseItem(v).total \in Nat
           /\ Income!VehicleTotal(v, Income!Always) <= Income!BaseItem(v).total + Income!Agreed
<1>1. timeline \in Seq(Income!Entry)
  BY DEF OwnersInv, IncomeInv, Income!TypeOK
<1>2. /\ Income!Standing \in SUBSET (DOMAIN timeline)
      /\ Income!Adjustments(v, Income!Always) \in SUBSET Income!Standing
  BY DEF Income!Standing, Income!Adjustments
<1>3. Income!AmountOf(timeline, Income!Adjustments(v, Income!Always)) <= Income!Agreed
  BY <1>1, <1>2, MoreIsMore DEF Income!Agreed
<1>4. Income!Agreed \in Nat
  BY <1>1, <1>2, AmountsAre DEF Income!Agreed
<1>5. Income!BaseItem(v).total \in Nat
  BY BaseIs DEF OwnersInv
<1>6. /\ Income!VehicleTotal(v, Income!Always) \in Nat
      /\ Income!VehicleTotal(v, Income!Always)
           = Income!BaseItem(v).total
             + Income!AmountOf(timeline, Income!Adjustments(v, Income!Always))
      /\ Income!AmountOf(timeline, Income!Adjustments(v, Income!Always)) \in Nat
  BY TotalsAre
<1> QED
  BY <1>3, <1>4, <1>5, <1>6

\* An owner gets his share of what was agreed, but for rounding.
LEMMA ShareIsPaid ==
    ASSUME Income!ConstantsAssumption, OwnersInv, NEW v, Income!TookPart(v),
           NEW d \in Nat \ {0}, Income!OutOf(v) = d, Income!Used(v) \in Nat
    PROVE  /\ Income!Income(v, Income!Always) \in Nat
           /\ d * Income!Income(v, Income!Always)
                <= (Income!BaseItem(v).total + Income!Agreed) * Income!Used(v) + d
<1> DEFINE i == Income!Income(v, Income!Always)
           u == Income!Used(v)
           t == Income!VehicleTotal(v, Income!Always)
           s == Income!BaseItem(v).total + Income!Agreed
<1>1. t \in Nat /\ s \in Nat /\ t <= s /\ u \in Nat
  BY TotalsAgreed
<1>2. CASE ~Income!Reported(v)
  <2>1. i = 0
    BY <1>2, IncomeIs
  <2> HIDE DEF i, u, s
  <2>2. s * u \in Nat
    BY <1>1
  <2> QED
    BY <2>1, <2>2 DEF i, u, s
<1>3. CASE Income!Reported(v)
  <2> DEFINE f == AtFirst(t * u, d)
             g == Later(t * u, d)
  <2>1. i = (IF Income!Within(0, Income!Always) THEN f ELSE 0)
            + (IF Income!Within(rental.paid, Income!Always) THEN g ELSE 0)
    BY <1>3, IncomeIs
  <2> HIDE DEF i, u, s, t
  <2>2. t * u \in Nat
    BY <1>1
  <2>3. f \in Nat /\ g \in Nat /\ d * (f + g) <= t * u + d
    BY <2>2, PaymentsAreClose
  <2> HIDE DEF f, g
  <2>4. i \in Nat /\ i <= f + g
    BY <2>1, <2>3
  <2>5. d * i <= d * (f + g)
    BY <2>3, <2>4
  <2>6. t * u <= s * u
    BY <1>1
  <2>7. d * i \in Nat /\ d * (f + g) \in Nat /\ s * u \in Nat
    BY <1>1, <2>3, <2>4
  <2>8. d * i <= s * u + d
    BY <2>2, <2>3, <2>5, <2>6, <2>7
  <2> QED
    BY <2>4, <2>8 DEF i, u, s
<1> QED
  BY <1>2, <1>3

\* Two shares of a whole come to it, each rounded.
LEMMA TwoShares ==
    ASSUME NEW s \in Nat, NEW p \in Nat, NEW q \in Nat, p + q > 0, NEW i \in Nat, NEW j \in Nat,
           (p + q) * i <= s * p + (p + q), (p + q) * j <= s * q + (p + q)
    PROVE  i + j <= s + 2
<1> DEFINE d == p + q
<1>1. d \in Nat /\ d > 0 /\ d * i <= s * p + d /\ d * j <= s * q + d
  OBVIOUS
<1>2. s * p + s * q = d * s
  OBVIOUS
<1>3. s * p \in Nat /\ s * q \in Nat
  OBVIOUS
<1> HIDE DEF d
<1>4. d * i \in Nat /\ d * j \in Nat /\ d * s \in Nat
  BY <1>1
<1>5. d * i + d * j <= d * s + 2 * d
  BY <1>1, <1>2, <1>3, <1>4
<1>6. ASSUME s + 3 <= i + j PROVE FALSE
  <2>1. d * (s + 3) <= d * (i + j)
    BY <1>1, <1>6
  <2>2. d * (s + 3) = d * s + 3 * d /\ d * (i + j) = d * i + d * j
    BY <1>1
  <2> QED
    BY <1>1, <1>4, <1>5, <2>1, <2>2
<1> QED
  BY <1>6

\* What two of the vehicles earned is all, if no other took part.
LEMMA SumOfTwo ==
    ASSUME IsFiniteSet(Vehicles), NEW a \in Vehicles, NEW b \in Vehicles, a # b, NEW w,
           w[a] \in Nat, w[b] \in Nat, \A v \in Vehicles \ {a, b} : w[v] = 0
    PROVE  Dash!SumOf([v \in Vehicles |-> w[v]]) = w[a] + w[b]
<1>1. \A v \in Vehicles : w[v] \in Nat
  OBVIOUS
<1>2. Dash!SumOf([v \in {a, b} |-> w[v]]) = Dash!SumOf([v \in Vehicles |-> w[v]])
  <2>1. {a, b} \in SUBSET Vehicles
    OBVIOUS
  <2> QED
    BY <1>1, <2>1, SumOfSome
<1>3. Part(w, {a, b}) = Part(w, {a}) + Part(w, {b})
  <2>1. {a} \in SUBSET Vehicles /\ {b} \in SUBSET Vehicles /\ {a} \cap {b} = {}
        /\ {a, b} \in SUBSET Vehicles /\ {a, b} = {a} \cup {b}
        /\ \A v \in Vehicles : w[v] \in Int
    BY <1>1
  <2> QED
    BY <2>1, PartsAddUp
<1>4. Dash!SumOf([v \in {a} |-> w[v]]) = w[a] /\ Dash!SumOf([v \in {b} |-> w[v]]) = w[b]
  BY SumOfOne
<1> QED
  BY <1>2, <1>3, <1>4 DEF Part

\* Rentals of one vehicle that was replaced once.
LEMMA ReplacedNotOverpaid ==
    ASSUME Income!ConstantsAssumption, OwnersInv, Income!OneReplacement
    PROVE  Income!SumOf([v \in Vehicles |-> Income!Income(v, Income!Always)])
             <= rental.cart[1].total + Income!Agreed + 2
<1>1. Len(rental.cart) = 1 /\ \E k \in DOMAIN snapshots : IsChange(k)
  BY OneChange
<1>2. PICK a \in Vehicles, b \in Vehicles :
             /\ a # b
             /\ \A v : Income!TookPart(v) = (v \in {a, b})
             /\ Income!Used(a) \in Nat /\ Income!Used(b) \in Nat
             /\ Income!Used(a) + Income!Used(b) \in Nat \ {0}
             /\ Income!OutOf(a) = Income!Used(a) + Income!Used(b)
             /\ Income!OutOf(b) = Income!Used(a) + Income!Used(b)
             /\ Income!BaseItem(a).total = rental.cart[1].total
             /\ Income!BaseItem(b).total = rental.cart[1].total
  BY <1>1, SharesAre
<1> DEFINE w == [v \in Vehicles |-> Income!Income(v, Income!Always)]
           s == rental.cart[1].total + Income!Agreed
           p == Income!Used(a)
           q == Income!Used(b)
<1>3. Income!TookPart(a) /\ Income!TookPart(b)
  BY <1>2
<1>4. s \in Nat /\ rental.cart[1].total \in Nat /\ Income!Agreed \in Nat
  BY <1>2, <1>3, TotalsAgreed
<1>5. /\ w[a] \in Nat /\ w[b] \in Nat
      /\ (p + q) * w[a] <= s * p + (p + q) /\ (p + q) * w[b] <= s * q + (p + q)
  BY <1>2, <1>3, ShareIsPaid
<1>6. p \in Nat /\ q \in Nat /\ p + q > 0
  BY <1>2
<1>7. \A v \in Vehicles \ {a, b} : w[v] = 0
  <2>1. ASSUME NEW v \in Vehicles \ {a, b} PROVE Income!Income(v, Income!Always) = 0
    <3>1. ~Income!TookPart(v)
      BY <1>2
    <3>2. ~Income!Reported(v)
      BY <3>1 DEF Income!Reported
    <3> QED
      BY <3>2, IncomeIs
  <2> QED
    BY <2>1
<1>8. IsFiniteSet(Vehicles)
  BY SameSizes DEF Income!ConstantsAssumption
<1>9. w = [v \in Vehicles |-> w[v]]
  OBVIOUS
<1> HIDE DEF w, s, p, q
<1>10. w[a] + w[b] <= s + 2
  BY <1>4, <1>5, <1>6, TwoShares
<1>11. Dash!SumOf([v \in Vehicles |-> w[v]]) = w[a] + w[b]
  BY <1>2, <1>5, <1>7, <1>8, SumOfTwo
<1>12. Income!SumOf(w) <= s + 2
  BY <1>9, <1>10, <1>11, SameTotals
<1> QED
  BY <1>12 DEF w, s

\* And those that nothing was changed of.
LEMMA UnchangedNotOverpaid ==
    ASSUME Income!ConstantsAssumption, OwnersInv, snapshots = <<>>, Len(rental.cart) = 1
    PROVE  Income!SumOf([v \in Vehicles |-> Income!Income(v, Income!Always)])
             <= rental.cart[1].total + Income!Agreed + 2
<1> DEFINE w == [v \in Vehicles |-> Income!Income(v, Income!Always)]
           a == rental.cart[1].vehicle
           s == rental.cart[1].total + Income!Agreed
           p == Income!Used(a)
<1>1. rental.cart \in Income!Cart /\ IncomeInv
  BY DEF OwnersInv, IncomeInv, Income!TypeOK
<1>2. /\ a \in Vehicles /\ Income!Names(rental.cart, a)
      /\ rental.cart[1].start \in Nat /\ rental.cart[1].end \in Nat
      /\ rental.cart[1].start < rental.cart[1].end
      /\ Income!ItemOf(rental.cart, a) = rental.cart[1]
      /\ \A v : Income!Names(rental.cart, v) => v = a
  BY <1>1, CartsOfOne
<1>3. \A v : Income!Left(v) = {} /\ Income!Moves(v) = {}
  BY DEF Income!Left, Income!Moves
<1>4. /\ Income!TookPart(a) /\ ~Income!Removed(a)
      /\ \A v : v # a => ~Income!TookPart(v)
  BY <1>2, <1>3 DEF Income!TookPart, Income!Removed
<1>5. Income!BaseItem(a) = rental.cart[1]
  BY <1>1, <1>2, <1>4, BaseIs
<1>6. /\ p \in Nat \ {0} /\ Income!OutOf(a) = p
  BY <1>1, <1>2, <1>3, <1>4, <1>5, UseIs
<1>7. s \in Nat /\ rental.cart[1].total \in Nat /\ Income!Agreed \in Nat
  BY <1>4, <1>5, TotalsAgreed
<1>8. w[a] \in Nat /\ p * w[a] <= s * p + p
  BY <1>2, <1>4, <1>5, <1>6, ShareIsPaid
<1>9. \A v \in Vehicles \ {a} : w[v] = 0
  <2>1. ASSUME NEW v \in Vehicles \ {a} PROVE Income!Income(v, Income!Always) = 0
    <3>1. ~Income!Reported(v)
      BY <1>4 DEF Income!Reported
    <3> QED
      BY <3>1, IncomeIs
  <2> QED
    BY <2>1
<1>10. IsFiniteSet(Vehicles) /\ {a} \in SUBSET Vehicles
  BY <1>2, SameSizes DEF Income!ConstantsAssumption
<1>11. w = [v \in Vehicles |-> w[v]]
  OBVIOUS
<1> HIDE DEF w, s, p, a
<1>12. w[a] <= s + 2
  <2>1. 0 \in Nat /\ p + 0 = p /\ p + 0 > 0 /\ s * 0 = 0
    BY <1>6, <1>7
  <2>2. w[a] + 0 <= s + 2
    BY <1>6, <1>7, <1>8, <2>1, TwoShares
  <2> QED
    BY <1>8, <2>2
<1>13. Dash!SumOf([v \in Vehicles |-> w[v]]) = w[a]
  <2>1. \A v \in Vehicles : w[v] \in Nat
    BY <1>8, <1>9
  <2>2. Dash!SumOf([v \in {a} |-> w[v]]) = Dash!SumOf([v \in Vehicles |-> w[v]])
    BY <1>9, <1>10, <2>1, SumOfSome
  <2>3. Dash!SumOf([v \in {a} |-> w[v]]) = w[a]
    BY <1>8, SumOfOne
  <2> QED
    BY <2>2, <2>3
<1>14. Income!SumOf(w) <= s + 2
  BY <1>11, <1>12, <1>13, SameTotals
<1> QED
  BY <1>14 DEF w, s

\* So the owners of one rental do not get more than it was sold for.
LEMMA NobodyOverpaid ==
    Income!ConstantsAssumption => (OwnersInv => Income!OwnersNotOverpaid)
BY ReplacedNotOverpaid, UnchangedNotOverpaid DEF Income!OwnersNotOverpaid

\* MetricsRepository's statements for owners: those of the months come to no more than what a
\* vehicle earned; the two vehicles of a change share the rental between them, and all owners
\* get no more than it was sold for; a deleted entry leaves no trace; and the two computations
\* of an unchanged rental agree. For any vehicles, carts, prices, months and numbers of entries.
THEOREM OfficeOwnersPaidRight == OfficeSpec => []OwnersPaidRight
<1>1. Income!Spec => []OwnersInv
  BY PartsAssumption, OwnersInvariance
<1>2. OwnersInv => /\ Income!NothingCountedTwice /\ Income!SharesAddUp
                   /\ Income!OwnersNotOverpaid /\ Income!UndoneIsForgotten
                   /\ Income!StatementAddsUp
  BY PartsAssumption, IncomeCountedOnce, SharesAreWhole, NobodyOverpaid, UndoneLeavesNothing,
     RowsAreIncome
<1>3. part = "income" /\ OfficeInit => Income!Init
  BY DEF OfficeInit
<1>4. part = "income" /\ [OfficeNext]_vars => [Income!Next]_(Income!vars)
  BY DEF OfficeNext, vars, Income!vars
<1>5. part = "income" /\ [OfficeNext]_vars => (part = "income")'
  BY PartStays
<1>6. ~(part = "income") /\ [OfficeNext]_vars => (~(part = "income"))'
  BY PartStays
<1>7. part = "income" /\ OfficeSpec => Income!Spec
  BY <1>3, <1>4, <1>5, PTL DEF OfficeSpec, Income!Spec
<1>8. ~(part = "income") /\ OfficeSpec => [](~(part = "income"))
  BY <1>6, PTL DEF OfficeSpec
<1> QED
  BY <1>1, <1>2, <1>7, <1>8, PTL DEF OwnersPaidRight
=============================================================================
