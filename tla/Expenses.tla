------------------------------- MODULE Expenses -------------------------------
(***************************************************************************)
(* What a period cost.  Staff records movements of money and corrects,     *)
(* deletes and restores them; commissions are made and paid; vehicles      *)
(* change their category and are removed.  The dashboard's card, its list  *)
(* of transactions, the expenses by vehicle and the owners' statements     *)
(* each have a query of their own.                                         *)
(***************************************************************************)
EXTENDS Integers, Sequences, FiniteSets, FiniteSetsExt

CONSTANTS
    Vehicles, Categories,
    Amounts,
    LastDay,
    MaxMovements,   \* bounds: what is recorded, ...
    MaxCommissions,
    MaxChanges      \* ... and all that is done

VARIABLES
    movements,      \* in the order in which they were recorded
    commissions,
    category,       \* the category of each vehicle
    gone,           \* the vehicles that are deleted
    changes         \* (bounded by MaxChanges)

vars == <<movements, commissions, category, gone, changes>>

None == "none"

Days == 0 .. LastDay

\* out: an expense.  noted: its detail says "validado".  general: it has never been of a
\* vehicle (kept for the properties only).
Movement ==
    [amount : Amounts, day : Days, vehicle : Vehicles \cup {None}, out : BOOLEAN,
     noted : BOOLEAN, deleted : BOOLEAN, general : BOOLEAN]

\* A commission, the day it was made, and that on which its booking was.
Commission == [amount : Amounts, day : Days, booked : Days, paid : BOOLEAN]

Init ==
    /\ movements = <<>>
    /\ commissions = <<>>
    /\ category = [v \in Vehicles |-> CHOOSE c \in Categories : TRUE]
    /\ gone = {}
    /\ changes = 0

Changed == changes < MaxChanges /\ changes' = changes + 1

-----------------------------------------------------------------------------
(***************************************************************************)
(* Movements, commissions and vehicles.                                    *)
(***************************************************************************)

\* MovementRepository.create
Record(amount, day, vehicle, out, noted) ==
    /\ Changed
    /\ Len(movements) < MaxMovements
    /\ movements' = Append(movements,
         [amount |-> amount, day |-> day, vehicle |-> vehicle, out |-> out, noted |-> noted,
          deleted |-> FALSE, general |-> vehicle = None])
    /\ UNCHANGED <<commissions, category, gone>>

MutantCorrected(m, amount, day, vehicle, out) ==
    [m EXCEPT !.amount = amount, !.day = day, !.out = out, !.vehicle = vehicle,
              !.general = @ /\ vehicle = None]

\* An empty vehicle is taken out of an update, so that the vehicle stays.
Corrected(m, amount, day, vehicle, out) ==
    [m EXCEPT !.amount = amount, !.day = day, !.out = out,
              !.vehicle = IF vehicle = None THEN @ ELSE vehicle,
              !.general = @ /\ vehicle = None]

\* MovementRepository.update, of deleted ones, too.
Correct(i, amount, day, vehicle, out) ==
    /\ Changed
    /\ movements' = [movements EXCEPT ![i] = Corrected(@, amount, day, vehicle, out)]
    /\ UNCHANGED <<commissions, category, gone>>

\* softDeleteMovement, restoreMovement
Delete(i) ==
    /\ Changed
    /\ ~movements[i].deleted
    /\ movements' = [movements EXCEPT ![i].deleted = TRUE]
    /\ UNCHANGED <<commissions, category, gone>>

Restore(i) ==
    /\ Changed
    /\ movements[i].deleted
    /\ movements' = [movements EXCEPT ![i].deleted = FALSE]
    /\ UNCHANGED <<commissions, category, gone>>

\* Commissions of a booking that was made before, paid in full (CommissionRepository).
Commit(amount, day, booked) ==
    /\ Changed
    /\ Len(commissions) < MaxCommissions
    /\ booked <= day
    /\ commissions' = Append(commissions,
         [amount |-> amount, day |-> day, booked |-> booked, paid |-> FALSE])
    /\ UNCHANGED <<movements, category, gone>>

MarkAsPaid(c) ==
    /\ Changed
    /\ commissions' = [commissions EXCEPT ![c].paid = TRUE]
    /\ UNCHANGED <<movements, category, gone>>

\* Vehicles that are deleted are not found by an update any more.
Recategorise(v, c) ==
    /\ Changed
    /\ v \notin gone
    /\ category' = [category EXCEPT ![v] = c]
    /\ UNCHANGED <<movements, commissions, gone>>

RemoveVehicle(v) ==
    /\ Changed
    /\ v \notin gone
    /\ gone' = gone \cup {v}
    /\ UNCHANGED <<movements, commissions, category>>

Next ==
    \/ \E amount \in Amounts, day \in Days, vehicle \in Vehicles \cup {None}, out \in BOOLEAN :
         \/ \E noted \in BOOLEAN : Record(amount, day, vehicle, out, noted)
         \/ \E i \in DOMAIN movements : Correct(i, amount, day, vehicle, out)
    \/ \E i \in DOMAIN movements : Delete(i) \/ Restore(i)
    \/ \E amount \in Amounts, day, booked \in Days : Commit(amount, day, booked)
    \/ \E c \in DOMAIN commissions : MarkAsPaid(c)
    \/ \E v \in Vehicles : RemoveVehicle(v) \/ \E c \in Categories : Recategorise(v, c)

Spec == Init /\ [][Next]_vars

-----------------------------------------------------------------------------
(***************************************************************************)
(* The views of a period, half-open as every date filter.                  *)
(***************************************************************************)

In(day, period) == period.from <= day /\ day < period.to

\* The expenses of a period, and those of some vehicles.
Live(period) ==
    {i \in DOMAIN movements :
        movements[i].out /\ ~movements[i].deleted /\ In(movements[i].day, period)}

LiveOf(vehicles, period) == {i \in Live(period) : movements[i].vehicle \in vehicles}

Spent(ids) == MapThenSumSet(LAMBDA i : movements[i].amount, ids)

\* getMetricsForPeriod: paid commissions go by the day of their booking.
PaidCommissions(period) ==
    {c \in DOMAIN commissions : commissions[c].paid /\ In(commissions[c].booked, period)}

Owed(ids) == MapThenSumSet(LAMBDA c : commissions[c].amount, ids)

MutantCard(period) ==
    Spent({i \in DOMAIN movements : movements[i].out /\ In(movements[i].day, period)})
      + Owed(PaidCommissions(period))

Card(period) == Spent(Live(period)) + Owed(PaidCommissions(period))

MutantFoundIn(c) == {v \in Vehicles : category[v] = c}

\* With a filter: the vehicles of a category, which a hook of the schema keeps from finding
\* deleted ones; commissions are not filtered.
FoundIn(c) == {v \in Vehicles \ gone : category[v] = c}

CardOf(c, period) == Spent(LiveOf(FoundIn(c), period)) + Owed(PaidCommissions(period))

\* getTransactionDetails: commissions paid or not, by the day that they were made; what was
\* "validado" is taken out at the end.
ListedMovements(period) == {i \in Live(period) : ~movements[i].noted}

ListedCommissions(period) == {c \in DOMAIN commissions : In(commissions[c].day, period)}

\* getVehicleExpenses: a lookup without that hook.  One row for each vehicle.
Rows(period) ==
    {[vehicle |-> v, category |-> category[v], total |-> Spent(LiveOf({v}, period)),
      count |-> Cardinality(LiveOf({v}, period))] :
        v \in {movements[i].vehicle : i \in Live(period)} \ {None}}

RowsOf(c, period) == {r \in Rows(period) : r.category = c}

\* The movements in the statement of a vehicle; nobody finds the one of a deleted vehicle.
Statement(v, period) == IF v \in gone THEN {} ELSE LiveOf({v}, period)

-----------------------------------------------------------------------------
(***************************************************************************)
(* What is true of every state (for the proofs of the properties).         *)
(***************************************************************************)

Assumptions == Amounts \subseteq Int /\ None \notin Vehicles /\ Categories # {}

TypeOK ==
    /\ movements \in Seq(Movement)
    /\ commissions \in Seq(Commission)
    /\ category \in [Vehicles -> Categories]
    /\ gone \in SUBSET Vehicles

\* A correction may give a movement a vehicle, and never takes one away.
GeneralHasNoVehicle ==
    \A i \in DOMAIN movements : movements[i].general <=> movements[i].vehicle = None

-----------------------------------------------------------------------------
(***************************************************************************)
(* Properties.                                                             *)
(***************************************************************************)

Periods == {p \in [from : Days, to : 1 .. LastDay + 1] : p.from < p.to}

RowsTotal(rows) == MapThenSumSet(LAMBDA r : r.total, rows)

\* The card and the list of transactions come to the same, after corrections, deletions and
\* restorations, if every commission that either counts is paid and was made in the period of
\* its booking, and nothing is noted as "validado".
CardIsListed ==
    \A p \in Periods :
        (/\ \A i \in Live(p) : ~movements[i].noted
         /\ ListedCommissions(p) = PaidCommissions(p))
        => Card(p) = Spent(ListedMovements(p)) + Owed(ListedCommissions(p))

\* The rows by vehicle are those of the categories, and with what never was of a vehicle and
\* the commissions they make up the card: a correction cannot take an expense off all
\* vehicles, nor can the removal of a vehicle.
VehiclesMakeUpCard ==
    \A p \in Periods :
        /\ Rows(p) = UNION {RowsOf(c, p) : c \in Categories}
        /\ Card(p) = RowsTotal(Rows(p)) + Spent({i \in Live(p) : movements[i].general})
                       + Owed(PaidCommissions(p))

\* The filtered cards differ from the rows of the category by deleted vehicles only, together
\* count the commissions once for each category, and agree with the owners' statements.
CategoriesAgreeWithOwners ==
    \A p \in Periods, c \in Categories :
        LET commission == Owed(PaidCommissions(p))
            statements == UNION {Statement(v, p) : v \in {w \in Vehicles : category[w] = c}}
        IN  /\ CardOf(c, p) = commission + Spent(statements)
            /\ CardOf(c, p) = commission + RowsTotal({r \in RowsOf(c, p) : r.vehicle \notin gone})

=============================================================================
