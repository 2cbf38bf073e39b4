------------------------------- MODULE MailTexts -------------------------------
(***************************************************************************)
(* What the mails about a booking say.  There are eight templates for the  *)
(* customer (four occasions in two languages) and three for the staff,     *)
(* each with its own copy of the code that lists the cart.  A mail is      *)
(* modelled as the facts it tells; wording and layout are left out.  The   *)
(* cart of a booking holds its items or only their identifiers; the        *)
(* customer's mails fill the latter in from the catalogue of the moment.   *)
(***************************************************************************)
EXTENDS Integers, Sequences, FiniteSetsExt

CONSTANTS
    Items,          \* what the catalogue offers
    Carts,          \* the carts that are bought, see Line
    Prices,
    DeliveryCost,
    MaxChanges      \* bound: the changes to the booking and to the catalogue

VARIABLES
    booking,        \* [cart, total, paid, delivery, contract], or NoBooking
    catalogue,      \* the price of each item, or Gone
    unsettled,      \* the total was not given for the cart that is kept
    changes         \* (bounded by MaxChanges)

vars == <<booking, catalogue, unsettled, changes>>

Gone == -1

Default == "some item"

Kinds == {"vehicle", "transfer", "tour", "ticket"}

\* A line of a cart.  price: that of the item when it was sold; of a vehicle, that of the
\* whole rental.  quantity is 0 where it is missing; passengers are a number or those of
\* each age.  evening: late enough for the next day to have begun in UTC.
Line ==
    [kind : Kinds, item : Items, held : BOOLEAN, category : BOOLEAN, price : Nat,
     quantity : Nat, passengers : Seq(Nat) \ {<<>>}, day : Nat, evening : BOOLEAN, days : Nat]

\* What the constants may be.
Assumptions == Carts \subseteq Seq(Line) /\ Prices \subseteq Nat /\ DeliveryCost \in Nat

NoBooking == [cart |-> <<>>, total |-> 0, paid |-> 0, delivery |-> 0, contract |-> FALSE]

Init ==
    /\ booking = NoBooking
    /\ catalogue \in [Items -> Prices]
    /\ unsettled = FALSE
    /\ changes = 0

Units(l) == IF l.quantity = 0 THEN 1 ELSE l.quantity

LineTotal(l) == IF l.kind = "vehicle" THEN l.price ELSE l.price * Units(l)

SumOf(w) == MapThenSumSet(LAMBDA i : w[i], DOMAIN w)

CartTotal(cart) == SumOf([i \in DOMAIN cart |-> LineTotal(cart[i])])

MaxZero(n) == IF n < 0 THEN 0 ELSE n

Changed == changes < MaxChanges /\ changes' = changes + 1

-----------------------------------------------------------------------------
(***************************************************************************)
(* The booking and the catalogue.                                          *)
(***************************************************************************)

Sold(cart) ==
    [i \in DOMAIN cart |->
       IF cart[i].kind = "vehicle" \/ cart[i].held THEN cart[i]
       ELSE [cart[i] EXCEPT !.price = catalogue[cart[i].item]]]

Offered(cart) == \A i \in DOMAIN cart : catalogue[cart[i].item] # Gone

\* BookingService.create: cart and total as the shop sends them.
Request(cart, delivery) ==
    /\ booking = NoBooking /\ Offered(cart)
    /\ booking' = [NoBooking EXCEPT !.cart = Sold(cart), !.delivery = delivery,
                                    !.total = CartTotal(Sold(cart)) + delivery]
    /\ UNCHANGED <<catalogue, unsettled, changes>>

\* addManualBookingInUserFromCart: the items themselves, and a total that is given or is
\* computed without the delivery.
Purchase(cart, delivery, given) ==
    LET sold == [i \in DOMAIN cart |->
                   [cart[i] EXCEPT !.held = TRUE,
                       !.price = IF cart[i].kind = "vehicle" THEN @ ELSE catalogue[cart[i].item]]]
        total == CartTotal(sold) + IF given THEN delivery ELSE 0
    IN  /\ booking = NoBooking /\ Offered(cart)
        /\ booking' = [NoBooking EXCEPT !.cart = sold, !.delivery = delivery,
                                        !.total = total, !.paid = total]
        /\ unsettled' = (~given /\ delivery > 0)
        /\ UNCHANGED <<catalogue, changes>>

OpenContract ==
    /\ booking # NoBooking /\ ~booking.contract
    /\ booking' = [booking EXCEPT !.contract = TRUE]
    /\ UNCHANGED <<catalogue, unsettled, changes>>

Pay(amount) ==
    /\ booking # NoBooking
    /\ Changed
    /\ booking' = [booking EXCEPT !.paid = amount]
    /\ UNCHANGED <<catalogue, unsettled>>

\* BookingService.update with a cart and its total.  If the cart comes without the delivery
\* that there was, and there is a contract, the cart that was read before is written back
\* without the delivery.  entry: what the contract's timeline says of the delivery; only one
\* that was there from the start is taken out of the total, of that which was read.
Edit(cart, drops, entry) ==
    LET total == CartTotal(Sold(cart)) + IF drops THEN 0 ELSE booking.delivery
        written == [booking EXCEPT !.cart = Sold(cart), !.total = total,
                                   !.delivery = IF drops THEN 0 ELSE @]
        taken == IF entry = "none" THEN written
                 ELSE [written EXCEPT
                         !.paid = MaxZero(@ - booking.delivery),
                         !.total = IF entry = "start" THEN MaxZero(booking.total - booking.delivery)
                                   ELSE @]
    IN  /\ booking # NoBooking /\ Offered(cart)
        /\ drops => booking.delivery > 0
        /\ Changed
        /\ IF drops /\ booking.contract
           THEN /\ booking' = [taken EXCEPT !.cart = booking.cart]
                /\ unsettled' = IF entry = "start" THEN unsettled ELSE Sold(cart) # booking.cart
           ELSE booking' = written /\ unsettled' = FALSE
        /\ UNCHANGED catalogue

\* Items get other prices, and go.
Reprice(item, price) ==
    /\ Changed
    /\ catalogue[item] \notin {Gone, price}
    /\ catalogue' = [catalogue EXCEPT ![item] = price]
    /\ UNCHANGED <<booking, unsettled>>

Withdraw(item) ==
    /\ Changed
    /\ catalogue[item] # Gone
    /\ catalogue' = [catalogue EXCEPT ![item] = Gone]
    /\ UNCHANGED <<booking, unsettled>>

Next ==
    \/ \E cart \in Carts, delivery \in {0, DeliveryCost} :
         \/ Request(cart, delivery)
         \/ \E given \in BOOLEAN : Purchase(cart, delivery, given)
    \/ OpenContract
    \/ \E amount \in Prices : Pay(amount)
    \/ \E cart \in Carts, drops \in BOOLEAN, entry \in {"none", "start", "later"} :
         Edit(cart, drops, entry)
    \/ \E item \in Items : Withdraw(item) \/ \E price \in Prices : Reprice(item, price)

Spec == Init /\ [][Next]_vars

-----------------------------------------------------------------------------
(***************************************************************************)
(* The rows.                                                               *)
(***************************************************************************)

\* enrichBookingCart, of the customer's mails only: items that are not held are looked up.
Enriched(l) ==
    IF l.held \/ catalogue[l.item] = Gone THEN l
    ELSE [l EXCEPT !.held = TRUE, !.category = TRUE,
                   !.price = IF l.kind = "vehicle" THEN @ ELSE catalogue[l.item]]

MutantLocalDay(l) == IF l.evening THEN l.day + 1 ELSE l.day

\* Formatted for America/Cancun; and without a time zone, for that of the server.
LocalDay(l) == l.day
ServerDay(l) == IF l.evening THEN l.day + 1 ELSE l.day

\* getPassengerCount
Count(passengers) == SumOf(passengers)

MutantRow(l) ==
    [name |-> l.item, category |-> TRUE, price |-> LineTotal(l), quantity |-> Units(l),
     passengers |-> <<Count(l.passengers)>>, day |-> LocalDay(l), days |-> l.days]

\* What a row of a customer's mail has to say of a line; a vehicle's total is of the cart.
Row(l) ==
    [name       |-> IF l.held THEN l.item ELSE Default,
     category   |-> l.held /\ l.category,
     price      |-> IF l.held \/ l.kind = "vehicle" THEN l.price ELSE 0,
     quantity   |-> Units(l),
     passengers |-> <<Count(l.passengers)>>,
     day        |-> LocalDay(l),
     days       |-> l.days]

MutantRowEn(l) == [Row(l) EXCEPT !.passengers = <<Head(l.passengers)>>]

\* The same in the English confirmation, and in the short English mails, which print the
\* passengers as they are.
RowEn(l) == Row(l)
ShortRow(l) == [Row(l) EXCEPT !.passengers = l.passengers]

MutantStaffRow(l) ==
    [name |-> l.item, category |-> TRUE, price |-> LineTotal(l), quantity |-> Units(l),
     passengers |-> <<Count(l.passengers)>>,
     day |-> IF l.kind = "ticket" THEN ServerDay(l) ELSE LocalDay(l)]

\* The rows for the staff: of the cart as it is.
StaffRow(l) ==
    [name |-> l.item, category |-> TRUE, price |-> l.price, quantity |-> Units(l),
     passengers |-> <<Count(l.passengers)>>,
     day |-> IF l.kind = "ticket" THEN ServerDay(l) ELSE LocalDay(l)]

\* Facts about the i-th line.  Quantities of one and no passengers are not mentioned.
Facts(i, row, fields) ==
    {<<f, i, row[f]>> : f \in {f \in fields : /\ f = "quantity" => row[f] > 1
                                              /\ f = "passengers" => row[f] # <<0>>}}

Lines == DOMAIN booking.cart

Customer(i) == Enriched(booking.cart[i])

Rental(i) == booking.cart[i].kind = "vehicle"

\* The fields of a detailed row.
Details(i) ==
    {"name", "category", "price", "passengers", "day"} \cup IF Rental(i) THEN {"days"} ELSE {"quantity"}

-----------------------------------------------------------------------------
(***************************************************************************)
(* The mails.  delivery is told if there is one.                           *)
(***************************************************************************)

Sums == {<<"total", booking.total>>, <<"paid", booking.paid>>,
         <<"balance", booking.total - booking.paid>>}

DeliveryTold == IF booking.delivery > 0 THEN {<<"delivery", booking.delivery>>} ELSE {}

ConfirmationRows == UNION {Facts(i, Row(Customer(i)), Details(i)) : i \in Lines}
Confirmation == [rows |-> ConfirmationRows, sums |-> Sums \cup DeliveryTold]

ConfirmationRowsEn == UNION {Facts(i, RowEn(Customer(i)), Details(i)) : i \in Lines}
ConfirmationEn == [rows |-> ConfirmationRowsEn, sums |-> Sums \cup DeliveryTold]

PendingRows == UNION {Facts(i, Row(Customer(i)), Details(i)) : i \in Lines}
Pending == [rows |-> PendingRows, sums |-> Sums \cup DeliveryTold]

RejectedRows == UNION {Facts(i, Row(Customer(i)), Details(i)) : i \in Lines}
Rejected == [rows |-> RejectedRows, sums |-> Sums \cup DeliveryTold]

\* The short ones: no category, no quantity, no delivery, and of a rental only its days.
Short(i) == {"name", "price", "passengers", IF Rental(i) THEN "days" ELSE "day"}

PendingRowsEn == UNION {Facts(i, ShortRow(Customer(i)), Short(i)) : i \in Lines}
PendingEn == [rows |-> PendingRowsEn, sums |-> Sums]

RejectedRowsEn == UNION {Facts(i, ShortRow(Customer(i)), Short(i)) : i \in Lines}
RejectedEn == [rows |-> RejectedRowsEn, sums |-> Sums]

\* Those about a cancellation: no delivery and no balance.
CancelledRows == UNION {Facts(i, Row(Customer(i)), Details(i) \ {"days"}) : i \in Lines}
Cancelled == [rows |-> CancelledRows, sums |-> {<<"total", booking.total>>, <<"paid", booking.paid>>}]

CancelledRowsEn == UNION {Facts(i, RowEn(Customer(i)), Details(i) \ {"days"}) : i \in Lines}
CancelledEn == [rows |-> CancelledRowsEn, sums |-> {<<"total", booking.total>>, <<"paid", booking.paid>>}]

\* Those for the staff cannot be made if an item or its category is not in the cart; the one
\* about a cancellation multiplies and has no days.
Printable == \A i \in Lines : booking.cart[i].held /\ booking.cart[i].category

StaffFacts == UNION {Facts(i, StaffRow(booking.cart[i]), Details(i) \ {"days"}) : i \in Lines}
StaffNew == [rows |-> StaffFacts, sums |-> Sums \cup DeliveryTold]

StaffPendingFacts == UNION {Facts(i, StaffRow(booking.cart[i]), Details(i) \ {"days"}) : i \in Lines}
StaffPending == [rows |-> StaffPendingFacts, sums |-> Sums \cup DeliveryTold]

StaffCancelledFacts ==
    UNION {LET l == booking.cart[i]
           IN  {<<"name", i, IF l.held THEN l.item ELSE Default>>,
                <<"amount", i, IF l.held \/ Rental(i) THEN LineTotal(l) ELSE 0>>} : i \in Lines}
StaffCancelled == [rows |-> StaffCancelledFacts, sums |-> {<<"total", booking.total>>}]

-----------------------------------------------------------------------------
(***************************************************************************)
(* What is true of every state (for the proofs of the properties).         *)
(***************************************************************************)

TypeOK ==
    /\ booking \in [cart : Seq(Line), total : Nat, paid : Nat, delivery : Nat, contract : BOOLEAN]
    /\ catalogue \in [Items -> Prices \cup {Gone}]
    /\ unsettled \in BOOLEAN

\* The total is that of the cart and its delivery, unless the code left it as it was.
Settled ==
    booking # NoBooking /\ ~unsettled => booking.total = CartTotal(booking.cart) + booking.delivery

-----------------------------------------------------------------------------
(***************************************************************************)
(* Properties.                                                             *)
(***************************************************************************)

OfCustomers == {Confirmation, ConfirmationEn, Pending, Rejected, Cancelled, CancelledEn}

Told(mail, field, i, default) ==
    IF \E f \in mail.rows : f[1] = field /\ f[2] = i
    THEN (CHOOSE f \in mail.rows : f[1] = field /\ f[2] = i)[3] ELSE default

\* The rows of the detailed templates and the delivery add up to the total they tell, through
\* edits of the cart and the delivery, and through changes of the catalogue unless the cart
\* holds an identifier of what changed.  (Not if BookingService.update has written the old
\* cart back, and not if a delivery was left out of a purchase's total.)
RowsAddUp ==
    (booking # NoBooking /\ ~unsettled
     /\ \A i \in Lines : LET l == booking.cart[i]
                         IN  l.held \/ Rental(i) \/ catalogue[l.item] = l.price)
    => \A mail \in OfCustomers :
         <<"total", booking.delivery +
              SumOf([i \in Lines |-> Told(mail, "price", i, 0) * Told(mail, "quantity", i, 1)])>>
              \in mail.sums

\* The English templates tell what the Spanish ones do; the short ones tell less and nothing
\* else, except for passengers of several ages, which they do not count.
LanguagesAgree ==
    LET ages(mail) == {f \in mail.rows : f[1] = "passengers" /\ Len(booking.cart[f[2]].passengers) > 1}
    IN  /\ ConfirmationEn = Confirmation /\ CancelledEn = Cancelled
        /\ \A pair \in {<<PendingEn, Pending>>, <<RejectedEn, Rejected>>} :
             /\ pair[1].rows \ ages(pair[1]) \subseteq pair[2].rows
             /\ pair[1].sums \subseteq pair[2].sums
             /\ {f \in pair[2].rows : f[1] = "price"} \subseteq pair[1].rows

\* The mail for the staff can be made exactly from carts that hold their items, and then it
\* tells what the customer is told, whatever became of the catalogue (days of tickets are
\* for the next property); the cancellation tells the customer's price times the quantity.
StaffToldTheSame ==
    Printable =>
        /\ \A pair \in {<<StaffNew, Confirmation>>, <<StaffPending, Pending>>} :
             /\ {f \in pair[1].rows : f[1] # "day"} = {f \in pair[2].rows : f[1] \notin {"day", "days"}}
             /\ pair[1].sums = pair[2].sums
        /\ \A i \in Lines : Told(StaffCancelled, "amount", i, 0)
                              = Told(Cancelled, "price", i, 0) * Told(Cancelled, "quantity", i, 1)

\* Every day that a mail tells is the day in Cancun, except that of an evening's ticket in a
\* mail for the staff.
DaysAreLocal ==
    LET told(mails) == {f \in UNION {mail.rows : mail \in mails} : f[1] = "day"}
    IN  /\ \A f \in told(OfCustomers \cup {PendingEn, RejectedEn}) : f[3] = booking.cart[f[2]].day
        /\ \A f \in told({StaffNew, StaffPending}) :
             LET l == booking.cart[f[2]]
             IN  f[3] # l.day <=> l.kind = "ticket" /\ l.evening

=============================================================================
