-------------------------------- MODULE Pages --------------------------------
(***************************************************************************)
(* Reading a list page by page while it changes: the lists of bookings,    *)
(* contracts, movements, users and vehicle owners.  A page is a query for  *)
(* the total and one for the rows, with other requests between them, and   *)
(* in some searches a query for the matching ids before both.              *)
(***************************************************************************)
EXTENDS Integers, Sequences, FiniteSets, FiniteSetsExt, SequencesExt

CONSTANTS
    Limit,          \* rows of a page
    Names,          \* numbers that stand for names, in their order
    MaxRecords,     \* bound: records
    MaxChanges      \* bound: changes while the reader reads

\* What the constants may be.
Assumptions == Limit \in Nat \ {0} /\ Names \subseteq Nat /\ MaxRecords \in Nat

VARIABLES
    list,           \* the list that is read
    records,        \* a sequence of [listed, name] in the order of their creation
    ids,            \* the ids that were looked for first, or NoIds
    page,
    total,          \* of the page that is being read, or Unread
    rows,           \* of the page that is being read, or NotRead
    seen,           \* the rows of the pages before
    done,
    changes,        \* (bounded by MaxChanges)
    stayed,         \* the records that were listed since the reader began
    left,           \* how many left the list or moved in it since
    late            \* how many came while a page was half read

vars == <<list, records, ids, page, total, rows, seen, done, changes, stayed, left, late>>

Lists == {"bookings", "contracts", "movements", "users", "owners"}

Unread == -1
NotRead == <<0>>
NoIds == {0}

\* Names matter in one list only.
ByName == list = "owners"

Listed == {i \in DOMAIN records : records[i].listed}

\* Unless the reader reads, records may be anything.
Init ==
    /\ list \in Lists
    /\ records \in SeqOf([listed : BOOLEAN, name : Names], MaxRecords)
    /\ \A i, j \in DOMAIN records : i # j => records[i].name # records[j].name
    /\ ByName \/ \A i \in DOMAIN records : records[i].name = i
    /\ ids = NoIds
    /\ page = 1
    /\ total = Unread
    /\ rows = NotRead
    /\ seen = <<>>
    /\ done = FALSE
    /\ changes = 0
    /\ stayed = Listed
    /\ left = 0
    /\ late = 0

-----------------------------------------------------------------------------
(***************************************************************************)
(* The queries.                                                            *)
(***************************************************************************)

MaxZero(n) == IF n < 0 THEN 0 ELSE n

NewestFirst == {"bookings", "contracts", "movements"}

MutantBefore(i, j) == IF list \in NewestFirst THEN i > j ELSE i < j

\* {createdAt: -1}, no sort at all (the order they were stored in), {name: 1}
Before(i, j) ==
    CASE list \in NewestFirst -> i > j
      [] list = "users" -> i < j
      [] ByName -> records[i].name < records[j].name

\* Some filters of bookings and contracts are computed by the service.
SearchesIds == {"bookings", "contracts"}

Matching == IF ids = NoIds THEN Listed ELSE ids \cap Listed

\* How many come before one.
Place(i) == Cardinality({j \in Matching : Before(j, i)})

Sorted == [k \in 1 .. Cardinality(Matching) |-> CHOOSE i \in Matching : Place(i) = k - 1]

MutantTotalPages == total \div Limit

TotalPages == (total + Limit - 1) \div Limit

RowsFrom(skip) ==
    LET sorted == Sorted IN [k \in 1..Min({Limit, MaxZero(Len(sorted) - skip)}) |-> sorted[skip + k]]

\* $skip and $limit
Page == RowsFrom((page - 1) * Limit)

\* Of movements and owners both are sent at once, of the others the total first.
Parallel == {"movements", "owners"}

ReadIds ==
    /\ ~done /\ list \in SearchesIds
    /\ ids = NoIds /\ total = Unread /\ rows = NotRead
    /\ ids' = Listed
    /\ UNCHANGED <<list, records, page, total, rows, seen, done, changes, stayed, left, late>>

ReadTotal ==
    /\ ~done /\ total = Unread
    /\ total' = Cardinality(Matching)
    /\ UNCHANGED <<list, records, ids, page, rows, seen, done, changes, stayed, left, late>>

ReadRows ==
    /\ ~done /\ rows = NotRead
    /\ list \notin Parallel => total # Unread
    /\ rows' = Page
    /\ UNCHANGED <<list, records, ids, page, total, seen, done, changes, stayed, left, late>>

\* hasNextPage
Turn ==
    /\ ~done /\ total # Unread /\ rows # NotRead
    /\ seen' = seen \o rows
    /\ IF page < TotalPages
       THEN page' = page + 1 /\ UNCHANGED done
       ELSE done' = TRUE /\ UNCHANGED page
    /\ total' = Unread /\ rows' = NotRead /\ ids' = NoIds
    /\ UNCHANGED <<list, records, changes, stayed, left, late>>

-----------------------------------------------------------------------------
(***************************************************************************)
(* Everybody else.                                                         *)
(***************************************************************************)

HalfRead == total # Unread \/ rows # NotRead \/ ids # NoIds

Changes ==
    /\ ~done /\ changes < MaxChanges
    /\ changes' = changes + 1
    /\ UNCHANGED <<list, ids, page, total, rows, seen, done>>

Arrived == late' = IF HalfRead THEN late + 1 ELSE late

\* A record is made, or changed so that the filter applies to it.
Add(name) ==
    /\ Changes
    /\ Len(records) < MaxRecords /\ \A i \in DOMAIN records : records[i].name # name
    /\ ByName \/ name = Len(records) + 1
    /\ records' = Append(records, [listed |-> TRUE, name |-> name])
    /\ Arrived
    /\ UNCHANGED <<stayed, left>>

Show(i) ==
    /\ Changes
    /\ i \notin Listed
    /\ records' = [records EXCEPT ![i].listed = TRUE]
    /\ Arrived
    /\ UNCHANGED <<stayed, left>>

\* A record is deleted, or changed so that the filter no longer applies to it.
Hide(i) ==
    /\ Changes
    /\ i \in Listed
    /\ records' = [records EXCEPT ![i].listed = FALSE]
    /\ stayed' = stayed \ {i}
    /\ left' = left + 1
    /\ UNCHANGED late

\* An owner is renamed: it leaves one place of the list and comes to another.
Rename(i, name) ==
    /\ Changes
    /\ ByName /\ i \in Listed
    /\ \A j \in DOMAIN records : records[j].name # name
    /\ records' = [records EXCEPT ![i].name = name]
    /\ left' = left + 1
    /\ Arrived
    /\ UNCHANGED stayed

Next ==
    \/ ReadIds \/ ReadTotal \/ ReadRows \/ Turn
    \/ \E name \in Names : Add(name)
    \/ \E i \in DOMAIN records : Show(i) \/ Hide(i)
    \/ \E i \in DOMAIN records, name \in Names : Rename(i, name)

Spec == Init /\ [][Next]_vars

-----------------------------------------------------------------------------
(***************************************************************************)
(* What is true of every state (for the proofs of the properties).         *)
(***************************************************************************)

Index == Nat \ {0}

TypeOK ==
    /\ list \in Lists
    /\ records \in Seq([listed : BOOLEAN, name : Names])
    /\ \A i, j \in DOMAIN records : i # j => records[i].name # records[j].name
    /\ ids = NoIds \/ (list \in SearchesIds /\ stayed \subseteq ids /\ ids \subseteq DOMAIN records)
    /\ page \in Nat \ {0} /\ total \in Nat \cup {Unread}
    /\ rows \in Seq(Index) \cup {NotRead} /\ seen \in Seq(Index)
    /\ done \in BOOLEAN /\ {changes, left, late} \subseteq Nat
    /\ stayed \subseteq Listed

\* What was read, and how far the list has been gone through by that.
Read == ToSet(seen) \cup IF rows = NotRead THEN {} ELSE ToSet(rows)

Reach == IF rows = NotRead THEN (page - 1) * Limit ELSE page * Limit

\* The records that slipped to the places that are read already, and how many there are
\* more than the reader has been told.
Missed == {i \in stayed \ Read : Place(i) < Reach}

Beyond == IF total = Unread THEN 0 ELSE MaxZero(Cardinality(Matching) - total)

AllAccounted ==
    IF done THEN Cardinality(stayed \ ToSet(seen)) <= left + late
    ELSE Cardinality(Missed) + Beyond <= left + late

\* As long as nothing changes, what was read is how the list begins.
ReadInOrder ==
    changes = 0 =>
        /\ ids \in {NoIds, Listed} /\ total \in {Unread, Cardinality(Listed)}
        /\ rows \in {NotRead, Page}
        /\ IF done THEN seen = Sorted
           ELSE /\ (page - 1) * Limit <= Len(Sorted)
                /\ seen = [k \in 1 .. (page - 1) * Limit |-> Sorted[k]]

-----------------------------------------------------------------------------
(***************************************************************************)
(* Properties.                                                             *)
(***************************************************************************)

\* Who pages through a list until there is no next page has seen everything that was in it
\* all the while, but for one record for each that left the list or moved, and for each that
\* came between the queries of one page.
MissesOnlyWhatMoved ==
    done => Cardinality(stayed \ ToSet(seen)) <= left + late

\* Who reads a list that does not change reads every record once, and in the order the list
\* promises: the newest first, or by name.
QuietListsAreReadOnce ==
    done /\ changes = 0 =>
        /\ ToSet(seen) = Listed /\ IsInjective(seen)
        /\ \A k \in 1..Len(seen) - 1 :
              /\ list \in NewestFirst => seen[k] > seen[k + 1]
              /\ ByName => records[seen[k]].name < records[seen[k + 1]].name
=============================================================================
