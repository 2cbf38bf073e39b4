----------------------------- MODULE OwnerIncome -----------------------------
(***************************************************************************)
(* What a vehicle earned its owner in a month, as                          *)
(* MetricsRepository.getVehicleFinancialDetails reports it for one         *)
(* booking.  The report is a function of records that other components     *)
(* go on changing: the cart and the payments of the booking, and the       *)
(* snapshots and the entries of its contract's timeline.  Statements of    *)
(* earlier months have been paid out by then, so what matters is how the   *)
(* reports of one booking for different vehicles and months, and at        *)
(* different times, relate.                                                *)
(*                                                                         *)
(* Time passes in days, money is in cents.                                 *)
(***************************************************************************)
EXTENDS Integers, Sequences, FiniteSets, FiniteSetsExt

CONSTANTS
    Vehicles,     \* the vehicles that carts name
    Carts,        \* the carts the booking may be made with
    Methods,      \* how it may be paid
    Prices,       \* what extensions, changes and extra hours may cost
    Months,       \* periods a statement is made for, disjoint, that cover all days
    MaxDay,       \* bound: the days that pass
    MaxEvents     \* bound: how many entries the timeline gets

Item == [vehicle : Vehicles, start : Nat, end : Nat, total : Nat]

\* Rented until the last day at most.
Cart == {c \in Seq(Item) : \A i \in DOMAIN c : c[i].start < c[i].end /\ c[i].end <= MaxDay}

AllMethods == {"cash", "transfer", "card", "none"}

Day == 0 .. MaxDay

\* What the constants may be.
ConstantsAssumption ==
    /\ IsFiniteSet(Vehicles) /\ IsFiniteSet(Months)
    /\ MaxDay \in Nat /\ MaxEvents \in Nat
    /\ Carts \subseteq Cart \ {<<>>}
    /\ Methods \subseteq AllMethods
    /\ Prices \subseteq Nat
    /\ Months \subseteq [from : Nat, to : Nat]
    /\ \A day \in Day : Cardinality({m \in Months : m.from <= day /\ day < m.to}) = 1

VARIABLES
    today,        \* the day
    booking,      \* cart, status, method and the day of the first payment (or Unpaid)
    timeline,     \* the entries with money of the contract's history
    snapshots     \* contract.snapshots with a change of the cart's vehicles

vars == <<today, booking, timeline, snapshots>>

Unpaid == MaxDay + 1

Extension     == "EXTENSION DE RENTA"
VehicleChange == "CAMBIO DE VEHICULO"
ExtraHours    == "HORAS EXTRAS"

\* The booking is made on day 0.
Init ==
    /\ today = 0
    /\ \E cart \in Carts, method \in Methods :
         booking = [cart |-> cart, status |-> "PENDIENTE", method |-> method, paid |-> Unpaid]
    /\ timeline = <<>>
    /\ snapshots = <<>>

-----------------------------------------------------------------------------
(***************************************************************************)
(* What happens to the records.                                            *)
(***************************************************************************)

Tick == today < MaxDay /\ today' = today + 1 /\ UNCHANGED <<booking, timeline, snapshots>>

\* A payment is registered; the first that is PAID gives the date.  Bookings that were
\* carried over from before have no payments at all.
Paid(b) == IF b.method # "none" /\ b.paid = Unpaid THEN [b EXCEPT !.paid = today] ELSE b

Deposit ==
    /\ booking.status = "PENDIENTE" /\ booking.method = "cash"
    /\ booking' = Paid(booking)
    /\ UNCHANGED <<today, timeline, snapshots>>

Approve ==
    /\ booking.status = "PENDIENTE"
    /\ booking' = [Paid(booking) EXCEPT !.status = "APROBADO"]
    /\ UNCHANGED <<today, timeline, snapshots>>

Cancel ==
    /\ booking' = [booking EXCEPT !.status = "CANCELADO"]
    /\ UNCHANGED <<today, timeline, snapshots>>

\* ContractRepository.update with an amount: an entry, and a snapshot that names it if
\* the vehicles of the cart change.
Record(event, amount, cart) ==
    /\ Len(timeline) < MaxEvents
    /\ timeline' = Append(timeline, [event |-> event, amount |-> amount, date |-> today,
                                     deleted |-> FALSE])
    /\ snapshots' = IF cart = booking.cart THEN snapshots
                    ELSE Append(snapshots, [at |-> today, old |-> booking.cart, new |-> cart,
                                            entry |-> Len(timeline) + 1])
    /\ booking' = [booking EXCEPT !.cart = cart]
    /\ UNCHANGED today

\* The price of an extension is its amount; the items keep what they cost.
Extend ==
    \E amount \in Prices \ {0}, i \in DOMAIN booking.cart :
      \E end \in booking.cart[i].end + 1 .. MaxDay :
        Record(Extension, amount, [booking.cart EXCEPT ![i].end = end])

\* Another vehicle, for the whole rental or what is left of it, perhaps for longer.
Replacements(i) ==
    LET item == booking.cart[i]
        free == {v \in Vehicles : \A j \in DOMAIN booking.cart : booking.cart[j].vehicle # v}
    IN  {[booking.cart EXCEPT ![i] = [vehicle |-> v, start |-> start, end |-> end,
                                      total |-> item.total]] :
           v \in free, start \in {item.start, today} \cap 0 .. item.end - 1,
           end \in {item.end, MaxDay}}

Change ==
    \E amount \in Prices, i \in DOMAIN booking.cart :
      \E cart \in Replacements(i) : Record(VehicleChange, amount, cart)

Charge == \E amount \in Prices : Record(ExtraHours, amount, booking.cart)

\* A change without an amount: no entry, hence no snapshot.
Edit ==
    /\ \E i \in DOMAIN booking.cart :
         \E cart \in Replacements(i) :
            /\ cart[i].start = booking.cart[i].start /\ cart[i].end = booking.cart[i].end
            /\ booking' = [booking EXCEPT !.cart = cart]
    /\ UNCHANGED <<today, timeline, snapshots>>

MutantForgets(e) == snapshots

\* Those that name an entry: there is one at most.
SnapshotsOf(e) == {s \in DOMAIN snapshots : snapshots[s].entry = e}

\* softDeleteHistoryEntry takes the snapshots of an entry out of the contract.
SnapshotsWithout(e) ==
    IF SnapshotsOf(e) = {} THEN snapshots
    ELSE LET s == CHOOSE s \in SnapshotsOf(e) : TRUE
         IN  SubSeq(snapshots, 1, s - 1) \o SubSeq(snapshots, s + 1, Len(snapshots))

\* softDeleteHistoryEntry, of the last entry that stands: the cart before it comes back.
Undo ==
    \E e \in DOMAIN timeline :
        /\ ~timeline[e].deleted
        /\ \A later \in e + 1 .. Len(timeline) : timeline[later].deleted
        /\ timeline' = [timeline EXCEPT ![e].deleted = TRUE]
        /\ snapshots' = SnapshotsWithout(e)
        /\ booking' = [booking EXCEPT !.cart =
                         IF SnapshotsOf(e) = {} THEN @
                         ELSE snapshots[CHOOSE s \in SnapshotsOf(e) : TRUE].old]
        /\ UNCHANGED today

Next == Tick \/ Deposit \/ Approve \/ Cancel \/ Extend \/ Change \/ Charge \/ Edit \/ Undo

Spec == Init /\ [][Next]_vars

-----------------------------------------------------------------------------
(***************************************************************************)
(* The report.                                                             *)
(***************************************************************************)

Always == [from |-> 0, to |-> Unpaid + 1]

\* Every comparison with the filter of a report is of a half-open period.
Within(day, period) == period.from <= day /\ day < period.to

Names(cart, v) == \E i \in DOMAIN cart : cart[i].vehicle = v

ItemOf(cart, v) == cart[Min({i \in DOMAIN cart : cart[i].vehicle = v})]

\* The snapshots whose old cart names a vehicle.
Left(v) == {s \in DOMAIN snapshots : Names(snapshots[s].old, v)}

Removed(v) == ~Names(booking.cart, v)

TookPart(v) == ~Removed(v) \/ Left(v) # {}

\* The item of a vehicle in the cart, else in the first snapshot that has it.
BaseItem(v) ==
    IF Removed(v) THEN ItemOf(snapshots[Min(Left(v))].old, v) ELSE ItemOf(booking.cart, v)

\* The entries whose amount is added to the item: those of the period, and for a vehicle
\* that was removed not those of changes.  The library's hook hides deleted ones.
Adjustments(v, period) ==
    {e \in DOMAIN timeline :
        /\ ~timeline[e].deleted /\ timeline[e].amount > 0
        /\ Within(timeline[e].date, period)
        /\ ~(Removed(v) /\ timeline[e].event = VehicleChange)}

\* What some entries of a history come to.
AmountOf(history, entries) == MapThenSumSet(LAMBDA e : history[e].amount, entries)

VehicleTotal(v, period) == BaseItem(v).total + AmountOf(timeline, Adjustments(v, period))

MutantOriginalEnd(v, period, end) == end

\* An extension outside the period means that the dates are those before the first
\* snapshot.  Every snapshot counts as one of an extension, since each has a change of
\* the field extension.
ExcludedExtension(period) ==
    \E e \in DOMAIN timeline :
        /\ ~timeline[e].deleted /\ timeline[e].amount > 0
        /\ timeline[e].event = Extension
        /\ ~Within(timeline[e].date, period)

OriginalEnd(v, period, end) ==
    IF ExcludedExtension(period) /\ Left(v) # {}
    THEN ItemOf(snapshots[Min(Left(v))].old, v).end ELSE end

MutantUseOfRemoved(item, s) ==
    LET end == IF Within(s.at, [from |-> item.start, to |-> item.end]) THEN s.at ELSE item.end
    IN  [start |-> item.start, end |-> end, from |-> item.start, to |-> item.end]

\* A vehicle that was replaced was used until its replacement started, out of the days
\* it had been booked for.
UseOfRemoved(item, s) ==
    LET next  == IF s.new = <<>> THEN item.start - 1 ELSE s.new[1].start
        days  == item.start .. item.end
        until == IF next \in days THEN next
                 ELSE IF next > item.end THEN item.end
                 ELSE IF s.at \in days THEN s.at ELSE item.end
    IN  [start |-> item.start, end |-> until, from |-> item.start, to |-> item.end]

\* A replacement was used for its own days, out of those since the first vehicle started.
UseOfAdded(item, s) ==
    [start |-> item.start, end |-> item.end,
     from |-> IF s.old = <<>> THEN item.start ELSE s.old[1].start, to |-> item.end]

\* The snapshots in which a vehicle comes or goes.
Moves(v) ==
    {s \in DOMAIN snapshots : Names(snapshots[s].old, v) # Names(snapshots[s].new, v)}

\* The last of them decides, else the item does.
Use(v) ==
    LET s    == snapshots[Max(Moves(v))]
        item == BaseItem(v)
    IN  IF Moves(v) = {}
        THEN [start |-> item.start, end |-> item.end, from |-> item.start, to |-> item.end]
        ELSE IF Names(s.old, v) THEN UseOfRemoved(ItemOf(s.old, v), s)
        ELSE UseOfAdded(ItemOf(s.new, v), s)

\* The proportion as used days out of all days; it is at most one.
Used(v) == Use(v).end - Use(v).start

OutOf(v) ==
    LET whole == Use(v).to - Use(v).from
    IN  IF whole <= 0 \/ whole < Used(v) THEN Used(v) ELSE whole

\* Below one percent nothing is reported.
Reported(v) ==
    booking.status = "APROBADO" /\ TookPart(v) /\ Used(v) > 0 /\ 100 * Used(v) >= OutOf(v)

\* Math.round of a non-negative quotient.
Round(n, d) == (2 * n + d) \div (2 * d)

MutantParts(v, period) ==
    LET amount == VehicleTotal(v, period) * Used(v)
    IN  <<[date |-> 0, amount |-> Round(amount, OutOf(v))],
          [date |-> booking.paid, amount |-> Round(amount, OutOf(v))]>>

\* The transactions of the booking: cash in two parts, when the booking was made and
\* when it was paid; a transfer when it was paid; the others when the booking was made.
Parts(v, period) ==
    LET amount == VehicleTotal(v, period) * Used(v)
        whole(day) == <<[date |-> day, amount |-> Round(amount, OutOf(v))]>>
    IN  CASE booking.method = "cash" ->
               <<[date |-> 0, amount |-> Round(amount, 5 * OutOf(v))],
                 [date |-> booking.paid, amount |-> Round(4 * amount, 5 * OutOf(v))]>>
          [] booking.method = "transfer" -> whole(booking.paid)
          [] OTHER -> whole(0)

MutantIncome(v, period) ==
    IF ~Reported(v) THEN 0
    ELSE LET parts == Parts(v, period)
         IN  MapThenSumSet(LAMBDA i : parts[i].amount,
                           {i \in DOMAIN parts :
                              period.from <= parts[i].date /\ parts[i].date <= period.to})

\* The transactions of the period.
PaidIn(parts, period) ==
    MapThenSumSet(LAMBDA i : parts[i].amount,
                  {i \in DOMAIN parts : Within(parts[i].date, period)})

Income(v, period) == IF Reported(v) THEN PaidIn(Parts(v, period), period) ELSE 0

MutantRowsTotal(v, period) ==
    IF Income(v, period) = 0 THEN 0 ELSE BaseItem(v).total

\* exportOwnerReport: a row for the rental when the report has income from it in the
\* period, and one for each entry of the period, whoever it is for.  None is prorated.
RowsTotal(v, period) ==
    LET rows == {e \in DOMAIN timeline :
                   /\ ~timeline[e].deleted /\ timeline[e].amount > 0
                   /\ Within(timeline[e].date, period)}
        paid == Reported(v) /\ \E i \in DOMAIN Parts(v, period) :
                                  Within(Parts(v, period)[i].date, period)
    IN  IF paid THEN BaseItem(v).total + AmountOf(timeline, rows)
        ELSE 0

RentalDays(v, period) == OriginalEnd(v, period, Use(v).end) - Use(v).start

-----------------------------------------------------------------------------
(***************************************************************************)
(* What is true of every state (for the proofs of the properties).         *)
(***************************************************************************)

Entry ==
    [event : {Extension, VehicleChange, ExtraHours}, amount : Nat, date : Nat, deleted : BOOLEAN]

Snapshot == [at : Nat, old : Cart, new : Cart, entry : Nat]

TypeOK ==
    /\ today \in Nat
    /\ booking \in [cart : Cart, status : {"PENDIENTE", "APROBADO", "CANCELADO"},
                    method : Methods, paid : Nat]
    /\ timeline \in Seq(Entry)
    /\ snapshots \in Seq(Snapshot)

\* No entry has two snapshots, so that its deletion takes back one change.
OneSnapshotEach ==
    /\ \A s \in DOMAIN snapshots : snapshots[s].entry <= Len(timeline)
    /\ \A s, t \in DOMAIN snapshots : snapshots[s].entry = snapshots[t].entry => s = t

\* Nothing is dated later than today, and what was approved is paid.
DatesPassed ==
    /\ today \in Day
    /\ \A e \in DOMAIN timeline : timeline[e].date <= today
    /\ booking.paid = Unpaid \/ booking.paid <= today
    /\ booking.status = "APROBADO" /\ booking.method # "none" => booking.paid <= today

SamePrices(c, d) == Len(c) = Len(d) /\ \A i \in DOMAIN c : c[i].total = d[i].total

\* Changes and extensions leave a rental its items and what these cost.
SameRental ==
    \A s \in DOMAIN snapshots :
        SamePrices(booking.cart, snapshots[s].old) /\ SamePrices(booking.cart, snapshots[s].new)

Standing == {e \in DOMAIN timeline : ~timeline[e].deleted}

\* A deletion takes its snapshot with it.
SnapshotsStand == \A s \in DOMAIN snapshots : snapshots[s].entry \in Standing

-----------------------------------------------------------------------------
(***************************************************************************)
(* Properties.                                                             *)
(***************************************************************************)

SumOf(w) == MapThenSumSet(LAMBDA x : w[x], DOMAIN w)

\* The filters of a report: what all the monthly statements of a vehicle come to is not
\* more than it earned; no payment and no adjustment is in two of them.
NothingCountedTwice ==
    \A v \in Vehicles : SumOf([m \in Months |-> Income(v, m)]) <= Income(v, Always)

\* The snapshots tell how the cart came to be what it is: nothing changed it silently.
Recorded ==
    \A s \in DOMAIN snapshots :
        snapshots[s].new = IF s = Len(snapshots) THEN booking.cart ELSE snapshots[s + 1].old

\* One vehicle, replaced once, by one that starts within its days and ends with them.
OneReplacement ==
    LET changes == {s \in DOMAIN snapshots :
                      snapshots[s].old[1].vehicle # snapshots[s].new[1].vehicle}
    IN  /\ Len(booking.cart) = 1
        /\ Cardinality(changes) = 1 /\ Recorded
        /\ \A s \in changes :
             LET old == snapshots[s].old[1]
                 new == snapshots[s].new[1]
             IN  old.start <= new.start /\ new.start < old.end /\ new.end = old.end

\* calculateVehicleProportionFromChanges: the shares of the two vehicles of a change add
\* up to the rental, also when it is extended afterwards.
SharesAddUp ==
    OneReplacement =>
        LET took == {v \in Vehicles : TookPart(v)}
            v    == CHOOSE v \in took : Removed(v)
            w    == CHOOSE w \in took : ~Removed(w)
        IN  Used(v) * OutOf(w) + Used(w) * OutOf(v) = OutOf(v) * OutOf(w)

Agreed == AmountOf(timeline, Standing)

\* getVehicleFinancialDetails: the owners of the vehicles of a rental do not together
\* get more than it was sold for, except for rounding.
OwnersNotOverpaid ==
    OneReplacement \/ (snapshots = <<>> /\ Len(booking.cart) = 1) =>
        SumOf([v \in Vehicles |-> Income(v, Always)])
            <= booking.cart[1].total + Agreed + 2

\* The deletion of an entry takes its effect out of every statement: when nothing stands
\* each vehicle of the cart has its item, for its days, and no other has anything.
UndoneIsForgotten ==
    Standing = {} =>
        \A v \in Vehicles :
            /\ Removed(v) => Income(v, Always) = 0
            /\ ~Removed(v) => /\ RentalDays(v, Always) = BaseItem(v).end - BaseItem(v).start
                              /\ VehicleTotal(v, Always) = BaseItem(v).total

\* The rows of an owner's workbook and the income of its summary, two computations, are
\* the same for a vehicle that is still rented and was not changed, unless it was paid in
\* cash in two months.
StatementAddsUp ==
    \A v \in {w \in Vehicles : Reported(w) /\ ~Removed(w) /\ Used(w) = OutOf(w)} :
        \A period \in Months \cup {Always} :
            (booking.method = "cash" => Within(0, period) /\ Within(booking.paid, period))
            => RowsTotal(v, period) - Income(v, period) \in -1 .. 1

VehiclesIn(cart) == {cart[i].vehicle : i \in DOMAIN cart}

\* The statement of a month that is over stays as it was when the rental is extended or
\* charged for later; so do the days of a vehicle that is still rented, unless
\* the rental was changed before while it had that vehicle, or silently.
ClosedPeriodStep ==
    LET over == {m \in Months : m.to <= today}
    IN  over # {} /\ Len(timeline') > Len(timeline)
        /\ VehiclesIn(booking'.cart) = VehiclesIn(booking.cart) =>
            \A v \in Vehicles :
                /\ \A m \in over : Income(v, m)' = Income(v, m)
                /\ ~Removed(v) /\ Left(v) = {} /\ Recorded
                     => \A m \in over : RentalDays(v, m)' = RentalDays(v, m)

ClosedPeriodStays == [][ClosedPeriodStep]_vars
=============================================================================
