------------------------------ MODULE Dashboard ------------------------------
(***************************************************************************)
(* The dashboard of MetricsRepository: several widgets that compute the    *)
(* same money in different ways, over periods that are derived from the    *)
(* clock.  A day is a step of the clock and a month has MonthDays of them. *)
(***************************************************************************)
EXTENDS Integers, Sequences, FiniteSets, FiniteSetsExt

CONSTANTS
    Vehicles, Categories,
    Kinds,          \* the bookings that may be made, see Booking
    Lists,          \* the payments that staff may enter when a booking is validated
    Amounts,        \* the amounts that may be validated without such a list
    MonthDays, WeekDays, YearMonths,
    MaxDay,         \* bound: the days that pass
    MaxBookings     \* bound: the bookings that are made

VARIABLES
    today,
    bookings,       \* in the order in which they were made
    category,       \* the category of each vehicle
    active          \* the vehicles with isActive

vars == <<today, bookings, category, active>>

None == "none"

Methods == {"CASH", "TRANSFER", "STRIPE"}

\* The fields of a booking that the widgets read; payments is empty for old bookings.
\* noted: the notes of the payment say "validado".  tour: the category of a tour in the cart.
Payment == [type : Methods, amount : Nat, paid : BOOLEAN, noted : BOOLEAN]

Booking ==
    [made : Nat, status : {"PENDIENTE", "APROBADO", "CANCELADO"}, total : Nat,
     totalPaid : Nat, method : Methods, medium : STRING, payments : Seq(Payment),
     vehicle : Vehicles, price : Nat, tour : Categories \cup {None}, tourPrice : Nat]

\* What the constants may be.
Assumptions ==
    /\ IsFiniteSet(Vehicles) /\ IsFiniteSet(Categories)
    /\ Categories # {} /\ None \notin Categories
    /\ Kinds \subseteq Booking /\ Lists \subseteq Seq(Payment) /\ Amounts \subseteq Nat
    /\ {MonthDays, WeekDays, YearMonths} \subseteq Nat \ {0}

Init ==
    /\ today = 0
    /\ bookings = <<>>
    /\ category = [v \in Vehicles |-> CHOOSE c \in Categories : TRUE]
    /\ active = Vehicles

-----------------------------------------------------------------------------
(***************************************************************************)
(* Periods.                                                                *)
(***************************************************************************)

Types == {"day", "week", "month", "lastMonth", "year"}

MonthStart(day, ahead) == (day \div MonthDays + ahead) * MonthDays

MutantCurrent(type, day) ==
    CASE type = "day"       -> [from |-> day, to |-> day + 1]
      [] type = "week"      -> [from |-> day - WeekDays, to |-> day]
      [] type = "month"     -> [from |-> MonthStart(day, 0), to |-> MonthStart(day, 1)]
      [] type = "lastMonth" -> [from |-> MonthStart(day, -1), to |-> MonthStart(day, 0)]
      [] OTHER              -> [from |-> 0, to |-> day]

\* buildDateFilter
Current(type, day) ==
    LET week == (day \div WeekDays) * WeekDays
        year == MonthDays * YearMonths * (day \div (MonthDays * YearMonths))
    IN  CASE type = "day"       -> [from |-> day, to |-> day + 1]
          [] type = "week"      -> [from |-> week, to |-> week + WeekDays]
          [] type = "month"     -> [from |-> MonthStart(day, 0), to |-> MonthStart(day, 1)]
          [] type = "lastMonth" -> [from |-> MonthStart(day, -1), to |-> MonthStart(day, 0)]
          [] OTHER              -> [from |-> year, to |-> year + MonthDays * YearMonths]

\* buildPreviousDateFilter
Previous(type, day) ==
    LET week == (day \div WeekDays) * WeekDays
        days == MonthDays * YearMonths
        year == days * (day \div days)
    IN  CASE type = "day"       -> [from |-> day - 1, to |-> day]
          [] type = "week"      -> [from |-> week - WeekDays, to |-> week]
          [] type = "month"     -> [from |-> MonthStart(day, -1), to |-> MonthStart(day, 0)]
          [] type = "lastMonth" -> [from |-> MonthStart(day, -2), to |-> MonthStart(day, -1)]
          [] OTHER              -> [from |-> year - days, to |-> year]

\* The bookings of a period, by the day they were made.
MadeIn(statuses, period) ==
    {b \in DOMAIN bookings :
        /\ bookings[b].status \in statuses
        /\ period.from <= bookings[b].made /\ bookings[b].made < period.to}

-----------------------------------------------------------------------------
(***************************************************************************)
(* Money.                                                                  *)
(***************************************************************************)

\* What the values of a function come to.
SumOf(w) == MapThenSumSet(LAMBDA x : w[x], DOMAIN w)

\* What a booking counts for: what was paid, else what it costs.
Worth(b) == IF bookings[b].totalPaid > 0 THEN bookings[b].totalPaid ELSE bookings[b].total

\* getMetricsForPeriod: pending bookings count, too.
TotalIncome(period) ==
    SumOf([b \in MadeIn({"PENDIENTE", "APROBADO"}, period) |-> Worth(b)])

MutantHolds(b, c) == category[bookings[b].vehicle] = c

\* Does the cart hold something of a category?  Vehicles go by the catalogue of today,
\* tours by what the cart says of them.
Holds(b, c) == category[bookings[b].vehicle] = c \/ bookings[b].tour = c

\* The same with a filter of one category: without payment a booking is not found.
FilteredIncome(c, period) ==
    SumOf([b \in {b \in MadeIn({"PENDIENTE", "APROBADO"}, period) :
                     bookings[b].totalPaid > 0 /\ Holds(b, c)} |-> Worth(b)])

\* The bookings with money, for the next three.
PaidIn(period) == {b \in MadeIn({"APROBADO"}, period) : bookings[b].totalPaid > 0}

PaidPayments(b) == {i \in DOMAIN bookings[b].payments : bookings[b].payments[i].paid}

\* What some payments of a booking come to.
AmountOf(b, some) == SumOf([i \in some |-> bookings[b].payments[i].amount])

\* getPaymentMethodRevenue, of one method: the type of each payment, or the method of a
\* booking without any.
MethodRevenue(method, period) ==
    SumOf([b \in PaidIn(period) |->
             IF bookings[b].payments = <<>>
             THEN IF bookings[b].method = method THEN bookings[b].totalPaid ELSE 0
             ELSE AmountOf(b, {i \in PaidPayments(b) : bookings[b].payments[i].type = method})])

MutantMediumRevenue(medium, period) ==
    SumOf([b \in {b \in PaidIn(period) : bookings[b].medium = medium} |-> bookings[b].totalPaid])

\* getPaymentMediumRevenue, of one medium: that of the booking, for all its payments.
MediumRevenue(medium, period) ==
    SumOf([b \in {b \in PaidIn(period) : bookings[b].medium = medium} |->
             IF bookings[b].payments = <<>> THEN bookings[b].totalPaid
             ELSE AmountOf(b, PaidPayments(b))])

\* getTransactionDetails, the income: one row per payment; rows whose notes say "validado"
\* are taken for duplicates of another.
TransactionIncome(period) ==
    SumOf([b \in PaidIn(period) |->
             IF bookings[b].payments = <<>> THEN bookings[b].totalPaid
             ELSE AmountOf(b, {i \in PaidPayments(b) : ~bookings[b].payments[i].noted})])

Approved(period) == MadeIn({"APROBADO"}, period)

TourRevenue(c, period) ==
    SumOf([b \in {b \in Approved(period) : bookings[b].tour = c} |-> bookings[b].tourPrice])

RentalRevenue(c, period) ==
    SumOf([b \in {b \in Approved(period) : category[bookings[b].vehicle] = c} |->
             bookings[b].price])

MutantCategoryRevenue(c, period) ==
    IF RentalRevenue(c, period) > 0 THEN RentalRevenue(c, period) ELSE TourRevenue(c, period)

\* getCategoryRevenue
CategoryRevenue(c, period) ==
    TourRevenue(c, period) + RentalRevenue(c, period)

\* getPopularVehicles: items without a total are passed over.
PopularVehicles(period) ==
    LET rented(v) == {b \in Approved(period) : bookings[b].vehicle = v /\ bookings[b].price > 0}
    IN  {[vehicle |-> v, bookings |-> Cardinality(rented(v)),
          revenue |-> SumOf([b \in rented(v) |-> bookings[b].price])] :
            v \in {v \in Vehicles : rented(v) # {}}}

\* getCategoryUtilization: the bookings and the vehicles of each category that has an
\* active one; bookings of vehicles that are not active count.
Utilization(period) ==
    {[category |-> c,
      bookings |-> Cardinality({b \in Approved(period) : category[bookings[b].vehicle] = c}),
      vehicles |-> Cardinality({v \in active : category[v] = c})] :
        c \in {category[v] : v \in active}}

-----------------------------------------------------------------------------
(***************************************************************************)
(* What happens.                                                           *)
(***************************************************************************)

Tick ==
    /\ today < MaxDay
    /\ today' = today + 1
    /\ UNCHANGED <<bookings, category, active>>

Book(kind) ==
    /\ Len(bookings) < MaxBookings
    /\ bookings' = Append(bookings, [kind EXCEPT !.made = today])
    /\ UNCHANGED <<today, category, active>>

\* validateBooking with a list of payments, which replaces those there are; what counts as
\* paid is a parameter of its own.
ApproveList(b, list, amount) ==
    /\ bookings[b].status = "PENDIENTE"
    /\ bookings' = [bookings EXCEPT ![b].status = "APROBADO", ![b].totalPaid = amount,
                                    ![b].payments = list]
    /\ UNCHANGED <<today, category, active>>

\* validateBooking with an amount: one payment, unless it is zero or one of it is there.
ApproveAmount(b, amount) ==
    LET paid == [type |-> bookings[b].method, amount |-> amount, paid |-> TRUE, noted |-> TRUE]
        omitted == \/ amount = 0
                   \/ \E i \in DOMAIN bookings[b].payments :
                        bookings[b].payments[i].paid /\ bookings[b].payments[i].amount = amount
    IN  /\ bookings[b].status = "PENDIENTE"
        /\ bookings' = [bookings EXCEPT ![b].status = "APROBADO", ![b].totalPaid = amount,
                           ![b].payments = IF omitted THEN @ ELSE Append(@, paid)]
        /\ UNCHANGED <<today, category, active>>

Cancel(b) ==
    /\ bookings[b].status # "CANCELADO"
    /\ bookings' = [bookings EXCEPT ![b].status = "CANCELADO", ![b].totalPaid = 0]
    /\ UNCHANGED <<today, category, active>>

\* Staff moves a vehicle to another category, with bookings made under the old one.
Recategorise(v, c) ==
    /\ category[v] # c
    /\ category' = [category EXCEPT ![v] = c]
    /\ UNCHANGED <<today, bookings, active>>

Retire(v) ==
    /\ active' = active \ {v}
    /\ UNCHANGED <<today, bookings, category>>

Next ==
    \/ Tick
    \/ \E kind \in Kinds : Book(kind)
    \/ \E b \in DOMAIN bookings :
         \/ \E amount \in Amounts :
              \/ ApproveAmount(b, amount)
              \/ \E list \in Lists : ApproveList(b, list, amount)
         \/ Cancel(b)
    \/ \E v \in Vehicles, c \in Categories : Recategorise(v, c)
    \/ \E v \in active : Retire(v)

Spec == Init /\ [][Next]_vars

-----------------------------------------------------------------------------
(***************************************************************************)
(* Properties.                                                             *)
(***************************************************************************)

TypeOK ==
    /\ today \in Nat
    /\ bookings \in Seq(Booking)
    /\ category \in [Vehicles -> Categories]
    /\ active \subseteq Vehicles

Periods == {Current(type, today) : type \in Types} \cup {Previous(type, today) : type \in Types}

\* Three widgets that compute the money of a period in their own ways show the same,
\* except that the list of transactions leaves out what is noted as validated.
WidgetsAgree ==
    \A period \in Periods :
        LET methods == SumOf([m \in Methods |-> MethodRevenue(m, period)])
            media   == SumOf([m \in {bookings[b].medium : b \in DOMAIN bookings} |->
                                MediumRevenue(m, period)])
            noted   == \E b \in DOMAIN bookings : \E i \in DOMAIN bookings[b].payments :
                          bookings[b].payments[i].noted
        IN  methods = media /\ (~noted => TransactionIncome(period) = media)

\* buildDateFilter and buildPreviousDateFilter: a trend compares adjacent periods of which
\* the first contains today (or lies right before its month), and no money is in both.
TrendsCompareAdjacent ==
    \A type \in Types :
        LET now == Current(type, today)
            before == Previous(type, today)
        IN  /\ before.to = now.from /\ before.from < before.to /\ now.from < now.to
            /\ type # "lastMonth" => now.from <= today /\ today < now.to
            /\ TotalIncome(now) + TotalIncome(before)
                 = TotalIncome([from |-> before.from, to |-> now.to])

\* Popular vehicles, revenue by category and utilization group the same bookings in three
\* ways; whatever happens to the vehicles, none of the three loses or doubles a booking,
\* except for categories without an active vehicle, which utilization does not show.
VehicleWidgetsAgree ==
    \A type \in Types :
        LET period  == Current(type, today)
            popular == PopularVehicles(period)
            tours   == SumOf([b \in {b \in Approved(period) : bookings[b].tour # None} |->
                                bookings[b].tourPrice])
        IN  /\ SumOf([c \in Categories |-> CategoryRevenue(c, period)])
                 = SumOf([p \in popular |-> p.revenue]) + tours
            /\ \A u \in Utilization(period) :
                 u.bookings >= SumOf([p \in {p \in popular : category[p.vehicle] = u.category} |->
                                        p.bookings])

\* Income filtered by category: no category shows more than the whole, the categories
\* together miss no booking with money, and a filter hides the money of a category that the
\* revenue by category shows only if something was approved for an amount of zero.
FiltersCoverIncome ==
    \A type \in Types :
        LET period == Current(type, today)
            paid   == {b \in MadeIn({"PENDIENTE", "APROBADO"}, period) : bookings[b].totalPaid > 0}
        IN  /\ \A c \in Categories :
                 /\ FilteredIncome(c, period) <= TotalIncome(period)
                 /\ CategoryRevenue(c, period) > 0 =>
                      \/ FilteredIncome(c, period) > 0
                      \/ \E b \in Approved(period) : bookings[b].totalPaid = 0
            /\ SumOf([c \in Categories |-> FilteredIncome(c, period)])
                 >= SumOf([b \in paid |-> Worth(b)])

=============================================================================
