----------------------------- MODULE MCBackOffice -----------------------------
(***************************************************************************)
(* The parts of the back office that share no state with each other, small *)
(* instances of them in one run.  In each behaviour one of the parts runs. *)
(* They take turns with the variables x1 to x12, so that no state carries  *)
(* the variables of parts that do not run; what a variable stands for in a *)
(* part is said where the part is instantiated.                            *)
(***************************************************************************)
EXTENDS Integers, Sequences, FiniteSets

CONSTANTS
    Checked,    \* those that are checked
    Vehicles, Categories,
    Widgets, TTL, Wait, MaxTime, MaxMoves,
    PayMethods, Langs, Window, MaxRetries, Advance, Total, LastMail, MaxEvents, MaxRestarts,
    Models, LastDay, MaxPromos, MaxUpdates,
    Emails, MaxUsers, MaxBookings, MaxPasswords, MaxRequests,
    Fleet, ServiceDays, MaxSearched, MaxSwaps,
    Concierges, TheStore, CommissionedCarts, NewTotals, Percentages, ExtensionCosts, DeliveryCharge,
    OwnPercentages, MaxEarned, MaxRetouches,
    Outlays, LastOutlay, MaxMovements, MaxPaid, MaxRevisions,
    Rentals, RentalMethods, ServicePrices, StatementMonths, LastRental, MaxEntries,
    SaleKinds, StaffLists, StaffAmounts, MonthLength, WeekLength, YearLength, LastMetricsDay, MaxSales,
    PageRows, ListedNames, MaxListed, MaxShifts,
    Goods, Bought, GoodsPrices, DeliveryFee, MaxRewrites

VARIABLES
    part,       \* the one that runs
    x1, x2, x3, x4, x5, x6, x7, x8, x9, x10, x11, x12

Cache == INSTANCE VehicleCache WITH
    now <- x1, category <- x2, left <- x3, cache <- x4, timers <- x5, widget <- x6,
    moves <- x7

-----------------------------------------------------------------------------
\* A booking of 10 for 8 of a vehicle and, with a tour, 2 of that.
Kind(method, status, payments, vehicle, tour) ==
    [made |-> 0, status |-> status, total |-> 10,
     totalPaid |-> IF status = "APROBADO" THEN 10 ELSE 0,
     method |-> method, medium |-> method, payments |-> payments,
     vehicle |-> vehicle, price |-> 8,
     tour |-> tour, tourPrice |-> IF tour = "none" THEN 0 ELSE 2]

Payment(type, amount, paid, noted) ==
    [type |-> type, amount |-> amount, paid |-> paid, noted |-> noted]

BookingKinds ==
    {Kind("STRIPE", "PENDIENTE", <<Payment("STRIPE", 2, FALSE, TRUE)>>, "v1", "none"),
     Kind("CASH", "PENDIENTE", <<>>, "v2", "c2"),
     Kind("TRANSFER", "APROBADO", <<>>, "v1", "c1")}

PaymentLists == {<<Payment("CASH", 2, FALSE, TRUE), Payment("TRANSFER", 7, FALSE, TRUE)>>}

Dash == INSTANCE Dashboard WITH
    today <- x1, bookings <- x2, category <- x3, active <- x4,
    Kinds <- SaleKinds, Lists <- StaffLists, Amounts <- StaffAmounts,
    MonthDays <- MonthLength, WeekDays <- WeekLength, YearMonths <- YearLength,
    MaxDay <- LastMetricsDay, MaxBookings <- MaxSales

Mails == INSTANCE BookingEmails_proofs WITH
    now <- x1, booking <- x2, price <- x3, jobs <- x4, sentEmails <- x5, inbox <- x6,
    restarts <- x7,
    Methods <- PayMethods, Deposit <- Advance, MaxTime <- LastMail

-----------------------------------------------------------------------------
Own(vehicle, owner, amount) == [vehicle |-> vehicle, owner |-> owner, total |-> amount]

OwnedCarts == {{Own(1, "o1", 3)}, {Own(1, "o1", 1), Own(2, "o2", 2)}}

\* -1: none of their own.
OwnRates ==
    [s \in {"o1", "o2", "ana", "TIENDA"} |->
       CASE s = "o1" -> 20 [] s = "o2" -> 10 [] OTHER -> -1]

Agents == INSTANCE Commissions WITH
    booking <- x1, contract <- x2, commissions <- x3, made <- x4, deletion <- x5,
    given <- x6, followed <- x7, edits <- x8,
    Sellers <- Concierges, Store <- TheStore, Carts <- CommissionedCarts, Totals <- NewTotals,
    Rates <- Percentages, Extensions <- ExtensionCosts, Delivery <- DeliveryCharge,
    OwnRate <- OwnPercentages, MaxCommissions <- MaxEarned, MaxEdits <- MaxRetouches

Promotions == INSTANCE PromotionalPrices_proofs WITH
    promos <- x1, requests <- x2, updates <- x3, raced <- x4, loose <- x5

Customers == INSTANCE Accounts_proofs WITH
    users <- x1, requests <- x2, passwords <- x3, bookings <- x4, asked <- x5,
    doubled <- x6, raced <- x7

Lists == INSTANCE Pages WITH
    list <- x1, records <- x2, ids <- x3, page <- x4, total <- x5, rows <- x6, seen <- x7,
    done <- x8, changes <- x9, stayed <- x10, left <- x11, late <- x12,
    Limit <- PageRows, Names <- ListedNames, MaxRecords <- MaxListed, MaxChanges <- MaxShifts

Search == INSTANCE Searches WITH
    bookings <- x1, contracts <- x2, changes <- x3, drove <- x4, unknown <- x5,
    Vehicles <- Fleet, Days <- ServiceDays, MaxBookings <- MaxSearched, MaxChanges <- MaxSwaps

-----------------------------------------------------------------------------
Rented(vehicle, start, end, amount) ==
    [vehicle |-> vehicle, start |-> start, end |-> end, total |-> amount]

RentedCarts ==
    {<<Rented("v1", 0, 2, 103)>>, <<Rented("v1", 1, 3, 100), Rented("v2", 0, 2, 51)>>}

TwoMonths == {[from |-> 0, to |-> 2], [from |-> 2, to |-> 4]}

\* Two months of two days; one vehicle that may be changed for the other, or both.
Income == INSTANCE OwnerIncome WITH
    today <- x1, booking <- x2, timeline <- x3, snapshots <- x4,
    Carts <- Rentals, Methods <- RentalMethods, Prices <- ServicePrices, Months <- StatementMonths,
    MaxDay <- LastRental, MaxEvents <- MaxEntries

-----------------------------------------------------------------------------
Row(kind, item, quantity, passengers) ==
    [kind |-> kind, item |-> item, held |-> TRUE, category |-> TRUE,
     price |-> IF kind = "vehicle" THEN 9 ELSE 0, quantity |-> quantity,
     passengers |-> passengers, day |-> 1, evening |-> kind \in {"ticket", "tour"}, days |-> 3]

\* All kinds; items that are only named; an item without category; no item at all.
SoldCarts ==
    {<<>>,
     <<Row("vehicle", "i1", 0, <<2>>), Row("tour", "i2", 2, <<2, 1>>)>>,
     <<[Row("ticket", "i2", 2, <<0>>) EXCEPT !.held = FALSE, !.category = FALSE],
       [Row("vehicle", "i1", 1, <<2>>) EXCEPT !.held = FALSE, !.category = FALSE]>>,
     <<Row("ticket", "i1", 0, <<3>>), [Row("transfer", "i2", 1, <<1, 1>>) EXCEPT !.category = FALSE]>>,
     <<Row("transfer", "i1", 2, <<2>>), Row("ticket", "i2", 1, <<1, 1>>)>>}

Texts == INSTANCE MailTexts WITH
    booking <- x1, catalogue <- x2, unsettled <- x3, changes <- x4,
    Items <- Goods, Carts <- Bought, Prices <- GoodsPrices, DeliveryCost <- DeliveryFee,
    MaxChanges <- MaxRewrites

\* Two days, and periods of one of them or both.
Spendings == INSTANCE Expenses WITH
    movements <- x1, commissions <- x2, category <- x3, gone <- x4, changes <- x5,
    Amounts <- Outlays, LastDay <- LastOutlay, MaxCommissions <- MaxPaid, MaxChanges <- MaxRevisions

\* What the proofs about the parts assume of the constants.
ASSUME PartsAssumption ==
    /\ Cache!Assumptions
    /\ Mails!ConstantsAssumption
    /\ Mails!KnownMethods
    /\ Mails!Amounts
    /\ LastDay \in Nat
    /\ Spendings!Assumptions
    /\ Agents!Assumptions
    /\ Income!ConstantsAssumption
    /\ Dash!Assumptions
    /\ Lists!Assumptions
    /\ Texts!Assumptions

-----------------------------------------------------------------------------
Unused8 == x9 = 0 /\ x10 = 0 /\ x11 = 0 /\ x12 = 0
Unused7 == x8 = 0 /\ Unused8
Unused5 == x6 = 0 /\ x7 = 0 /\ Unused7
Unused4 == x5 = 0 /\ Unused5

OfficeInit ==
    /\ part \in Checked
    /\ \/ part = "cache" /\ Cache!Init /\ Unused7
       \/ part = "dashboard" /\ Dash!Init /\ Unused4
       \/ part = "mails" /\ Mails!Init /\ Unused7
       \/ part = "commissions" /\ Agents!Init /\ Unused8
       \/ part = "promotions" /\ Promotions!Init /\ Unused5
       \/ part = "accounts" /\ Customers!Init /\ Unused7
       \/ part = "pages" /\ Lists!Init
       \/ part = "searches" /\ Search!Init /\ Unused5
       \/ part = "income" /\ Income!Init /\ Unused4
       \/ part = "texts" /\ Texts!Init /\ Unused4
       \/ part = "expenses" /\ Spendings!Init /\ Unused5

OfficeNext ==
    /\ UNCHANGED part
    /\ \/ part = "cache" /\ Cache!Next /\ UNCHANGED <<x8, x9, x10, x11, x12>>
       \/ part = "dashboard" /\ Dash!Next /\ UNCHANGED <<x5, x6, x7, x8, x9, x10, x11, x12>>
       \/ part = "mails" /\ Mails!Next /\ UNCHANGED <<x8, x9, x10, x11, x12>>
       \/ part = "commissions" /\ Agents!Next /\ UNCHANGED <<x9, x10, x11, x12>>
       \/ part = "promotions" /\ Promotions!Next /\ UNCHANGED <<x6, x7, x8, x9, x10, x11, x12>>
       \/ part = "accounts" /\ Customers!Next /\ UNCHANGED <<x8, x9, x10, x11, x12>>
       \/ part = "pages" /\ Lists!Next
       \/ part = "searches" /\ Search!Next /\ UNCHANGED <<x6, x7, x8, x9, x10, x11, x12>>
       \/ part = "income" /\ Income!Next /\ UNCHANGED <<x5, x6, x7, x8, x9, x10, x11, x12>>
       \/ part = "texts" /\ Texts!Next /\ UNCHANGED <<x5, x6, x7, x8, x9, x10, x11, x12>>
       \/ part = "expenses" /\ Spendings!Next /\ UNCHANGED <<x6, x7, x8, x9, x10, x11, x12>>

vars == <<part, x1, x2, x3, x4, x5, x6, x7, x8, x9, x10, x11, x12>>

OfficeSpec == OfficeInit /\ [][OfficeNext]_vars

-----------------------------------------------------------------------------
\* VehicleCache: a category that was changed is known for no longer than the cache keeps it
\* (CACHE_TTL), whichever widgets fill the cache meanwhile, and every entry has a timeout that
\* will remove it in time.
CacheExpires ==
    part = "cache" => Cache!CacheExpires

\* Dashboard: the widgets show the same money.  The three pipelines for a period's income agree;
\* the period of a trend and the one before it are adjacent and share none; groupings by vehicle
\* and by category lose none and double none, nor does the filter over all categories.
WidgetsAgree ==
    part = "dashboard" => /\ Dash!WidgetsAgree
                          /\ Dash!TrendsCompareAdjacent
                          /\ Dash!VehicleWidgetsAgree
                          /\ Dash!FiltersCoverIncome

\* BookingEmails: the customer is told, once, and the truth.  sentEmails lets one mail per window
\* pass however handlers interleave and retries send a bounded number of equal copies; a late mail
\* shows the booking as it was at its event, items at the agreed price; and when nothing is in
\* flight he knows of an approval or cancellation unless its mail failed, was lost or skipped.
ToldOnceAndTruly ==
    part = "mails" => Mails!ToldOnceAndTruly

\* Commissions: an automatic commission follows total, percentage and concierge; a deleted one does
\* not come back, not even by a validation that ran into the deletion; and what sellers are shown
\* is what is owed, with nothing for a cancelled booking.
CommissionsAsOwed ==
    part = "commissions" => /\ Agents!AmountsFollowBooking
                            /\ Agents!DeletedStaysDeleted
                            /\ Agents!ListsAreWhatIsOwed

\* PromotionalPrices: active promotions of a model overlap only after requests that raced, and a
\* vehicle's promotional intervals agree with the search by date.
PromotionsAgree ==
    part = "promotions" => Promotions!PromotionsAgree

\* Accounts: two users share an email only after requests that raced or an update; a booking and
\* its customer find each other through changes of his data; email and password are those last
\* asked for.
AccountsKept ==
    part = "accounts" => Customers!AccountsKept

\* Pages: who pages through a list that changes misses at most what moved, and a list that does
\* not change is read once and in its order.
PagesAreComplete ==
    part = "pages" => /\ Lists!MissesOnlyWhatMoved
                      /\ Lists!QuietListsAreReadOnce

\* Searches: the searches for bookings and for contracts agree through all changes, and a contract
\* is found by every vehicle that it has had.
SearchesAgree ==
    part = "searches" => /\ Search!SearchesAgree
                         /\ Search!FoundByAllItsVehicles

\* OwnerIncome: monthly statements come to no more than a vehicle earned, the shares of the two
\* vehicles of a change add up to the rental and all shares to no more than it was sold for; a
\* deleted entry leaves no trace; the workbook's rows are the income of its summary.
OwnersPaidRight ==
    part = "income" => /\ Income!NothingCountedTwice
                       /\ Income!SharesAddUp
                       /\ Income!OwnersNotOverpaid
                       /\ Income!UndoneIsForgotten
                       /\ Income!StatementAddsUp

\* MailTexts: rows and delivery add up to the total after edits and price changes; both languages
\* and the staff's mails tell the same; days are those of Cancun, except of evening tickets for
\* the staff.
MailsAddUp ==
    part = "texts" => /\ Texts!RowsAddUp
                      /\ Texts!LanguagesAgree
                      /\ Texts!StaffToldTheSame
                      /\ Texts!DaysAreLocal

\* Expenses: the dashboard's card comes to its list of transactions, the expenses by vehicle and
\* of no vehicle make up the card, and a category's card, rows and owners' statements agree.
ExpensesAgree ==
    part = "expenses" => /\ Spendings!CardIsListed
                         /\ Spendings!VehiclesMakeUpCard
                         /\ Spendings!CategoriesAgreeWithOwners

\* Commissions and OwnerIncome: what was settled stays.  A commission set by hand is never
\* recalculated, and the statement of a month that is over stays as it was.
SettledStays ==
    [][/\ part = "commissions" => Agents!SetByHandStep
       /\ part = "income" => Income!ClosedPeriodStep]_vars

=============================================================================
