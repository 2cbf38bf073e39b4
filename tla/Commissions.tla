----------------------------- MODULE Commissions -----------------------------
(***************************************************************************)
(* The commissions of one booking.  They are made when the booking is      *)
(* approved, when it is confirmed and when its contract is extended; the   *)
(* booking goes on changing and some of the changes recompute them, while  *)
(* staff corrects, pays and deletes them.  A deletion takes two steps: the *)
(* commissions go, and then the booking is given to the store.             *)
(*                                                                         *)
(* Percentages are of amounts in hundreds, so that a share is a product.   *)
(***************************************************************************)
EXTENDS Integers, FiniteSets, FiniteSetsExt

CONSTANTS
    Sellers,        \* concierges whom staff may name
    Store,          \* TIENDA
    Carts,          \* the carts: sets of [vehicle, owner, total]
    Totals, Rates,  \* totals and percentages that staff sets
    Extensions,     \* what extensions cost
    Delivery,       \* what a delivery costs
    OwnRate,        \* commissionPercentage of each seller and owner, or NoNumber
    MaxCommissions, \* bound: the commissions that are made
    MaxEdits        \* bound: the changes staff makes to the booking

VARIABLES
    booking,        \* [status, reserve, total, delivery, concierge, rate, cart]
    contract,       \* the status of its contract, or None
    commissions,    \* a set of Commission
    made,           \* how many commissions were made (bounded by MaxCommissions)
    deletion,       \* what a deletion has left to do: "none" or "assign"
    given,          \* commissions from this id on were made for the store's booking, or 0
    followed,       \* whether recalculations know all the amounts came from, see AmountsFollowBooking
    edits           \* (bounded by MaxEdits)

vars == <<booking, contract, commissions, made, deletion, given, followed, edits>>

None == "none"

NoNumber == -1

DefaultRate == 15

Statuses == {None, "PENDIENTE", "APROBADO", "RECHAZADO", "CANCELADO"}

MaxZero(n) == IF n < 0 THEN 0 ELSE n

CartTotal(cart) == MapThenSumSet(LAMBDA item : item.total, cart)

Share(base, rate) == base * rate

Or(number, default) == IF number = NoNumber THEN default ELSE number

Init ==
    /\ booking = [status |-> None, reserve |-> FALSE, total |-> 0, delivery |-> 0,
                  concierge |-> None, rate |-> NoNumber, cart |-> {}]
    /\ contract = None
    /\ commissions = {}
    /\ made = 0
    /\ deletion = "none"
    /\ given = 0
    /\ followed = TRUE
    /\ edits = 0

-----------------------------------------------------------------------------
(***************************************************************************)
(* Making them.                                                            *)
(***************************************************************************)

New(id, owner, amount, source, manual) ==
    [id |-> id, owner |-> owner, amount |-> amount, source |-> source,
     manual |-> manual]

Add(new) ==
    /\ made + Cardinality(new) <= MaxCommissions
    /\ commissions' = commissions \cup new
    /\ made' = made + Cardinality(new)

MutantBase(b) == b.total

\* A delivery earns nobody a commission.
Base(b) == MaxZero(b.total - b.delivery)

RateOf(b) == Or(b.rate, Or(OwnRate[b.concierge], DefaultRate))

OfConcierge(b, base) == {New(made + 1, b.concierge, Share(base, RateOf(b)), "booking", FALSE)}

\* Without a concierge, the owner of each vehicle of the cart gets a share of its total.
OfVehicles(b) ==
    LET number(item) == Cardinality({i \in b.cart : i.vehicle <= item.vehicle})
    IN  {New(made + number(item), item.owner, Share(item.total, Or(OwnRate[item.owner], 0)),
             "booking", FALSE) : item \in b.cart}

ForBooking(b) == IF b.concierge # None THEN OfConcierge(b, Base(b)) ELSE OfVehicles(b)

\* The rates of a seller and the default differ: a recalculation will not know that.
OwnRateUsed(b) == b.concierge # None /\ b.rate = NoNumber /\ RateOf(b) # DefaultRate

\* BookingService.create: what the customer asks for is not approved yet.
Request(b) ==
    /\ booking.status = None /\ b.status # "APROBADO"
    /\ booking' = b
    /\ UNCHANGED <<contract, commissions, made, deletion, given, followed, edits>>

\* addManualBookingInUserFromCart: a booking that is approved at once gets its commissions at
\* once.  One without a seller is the store's, but its vehicles' owners earn them.
Purchase(b) ==
    /\ booking.status = None /\ (b.reserve => b.status = "APROBADO")
    /\ booking' = [b EXCEPT !.concierge = IF @ = None THEN Store ELSE @]
    /\ IF b.status = "APROBADO"
       THEN Add(ForBooking(b)) /\ followed' = (b.concierge # None /\ ~OwnRateUsed(b))
       ELSE UNCHANGED <<commissions, made, followed>>
    /\ UNCHANGED <<contract, deletion, given, edits>>

\* validateBooking: unless there are any, of whatever source.
Approve ==
    /\ booking.status # None
    /\ booking' = [booking EXCEPT !.status = "APROBADO"]
    /\ contract' = IF contract = None THEN None ELSE "APROBADO"
    /\ IF commissions = {}
       THEN Add(ForBooking(booking)) /\ followed' = (followed /\ ~OwnRateUsed(booking))
       ELSE UNCHANGED <<commissions, made, followed>>
    /\ UNCHANGED <<deletion, given, edits>>

\* validateBooking without a payment, and cancelBooking, which does not tell the contract.
Reject ==
    /\ booking.status # None
    /\ booking' = [booking EXCEPT !.status = "RECHAZADO"]
    /\ contract' = IF contract = None THEN None ELSE "RECHAZADO"
    /\ UNCHANGED <<commissions, made, deletion, given, followed, edits>>

Cancel ==
    /\ booking.status \notin {None, "CANCELADO"}
    /\ booking' = [booking EXCEPT !.status = "CANCELADO"]
    /\ UNCHANGED <<contract, commissions, made, deletion, given, followed, edits>>

\* confirmReservation: for a concierge without a look at what is there, and with the
\* delivery.
Confirm ==
    /\ booking.reserve
    /\ booking' = [booking EXCEPT !.status = "APROBADO", !.reserve = FALSE]
    /\ IF booking.concierge # None
       THEN Add(OfConcierge(booking, booking.total)) /\ followed' = FALSE
       ELSE IF commissions = {} THEN Add(OfVehicles(booking)) /\ UNCHANGED followed
       ELSE UNCHANGED <<commissions, made, followed>>
    /\ UNCHANGED <<contract, deletion, given, edits>>

OpenContract ==
    /\ booking.status # None /\ contract = None
    /\ contract' = booking.status
    /\ UNCHANGED <<booking, commissions, made, deletion, given, followed, edits>>

\* The contract is extended with a concierge: at a percentage, or for a fixed amount, which
\* counts as set by hand.
Extend(amount, concierge, rate, fixed) ==
    /\ contract # None
    /\ Add({New(made + 1, concierge,
                IF fixed > 0 THEN fixed
                ELSE Share(MaxZero(amount - booking.delivery), Or(rate, DefaultRate)),
                "extension", fixed > 0)})
    /\ UNCHANGED <<booking, contract, deletion, given, followed, edits>>

-----------------------------------------------------------------------------
(***************************************************************************)
(* Recomputing them.                                                       *)
(***************************************************************************)

\* Those a recalculation changes: of the booking, and not set by hand.
Automatic == {c \in commissions : c.source = "booking" /\ ~c.manual}

MutantUpdated(owner, amount) ==
    {IF c.source = "booking"
     THEN [c EXCEPT !.owner = IF owner = None THEN @ ELSE owner, !.amount = Or(amount, @)]
     ELSE c : c \in commissions}

\* updateByBookingNumber: the owner, the amount or both.
Updated(owner, amount) ==
    {IF c \in Automatic
     THEN [c EXCEPT !.owner = IF owner = None THEN @ ELSE owner, !.amount = Or(amount, @)]
     ELSE c : c \in commissions}

\* BookingService.update with a total, a percentage or a concierge (or None and NoNumber), which
\* may drop the delivery, and then takes it out of the total that was read if it was there
\* from the start (fromStart).  Commissions are looked for by number; that those of an
\* extension are not meant is a filter without effect.
Edit(total, rate, concierge, drops, fromStart) ==
    LET moves   == concierge \notin {None, booking.concierge}
        resized == total # NoNumber /\ total # booking.total
        new     == [booking EXCEPT !.total = Or(total, @), !.rate = Or(rate, @),
                                   !.concierge = IF concierge = None THEN @ ELSE concierge]
        base    == Base(new)
        amount  == CASE rate # NoNumber -> Share(base, rate)
                     [] rate = NoNumber /\ resized -> Share(base, Or(booking.rate, DefaultRate))
                     [] OTHER -> NoNumber
        taken   == [new EXCEPT !.delivery = 0,
                               !.total = IF fromStart THEN MaxZero(booking.total - booking.delivery) ELSE @]
        relevant == rate # NoNumber \/ moves \/ resized
    IN  /\ booking.status # None /\ edits < MaxEdits
        /\ drops => booking.delivery > 0
        /\ edits' = edits + 1
        /\ booking' = IF drops THEN taken ELSE new
        /\ IF ~relevant THEN UNCHANGED <<commissions, made>>
           ELSE IF commissions = {}
           THEN IF concierge # None
                THEN Add({New(made + 1, concierge, Share(base, Or(rate, DefaultRate)), "booking", FALSE)})
                ELSE UNCHANGED <<commissions, made>>
           ELSE /\ commissions' = Updated(IF moves THEN concierge ELSE None, amount)
                /\ UNCHANGED made
        /\ followed' =
             /\ followed /\ ~drops
             /\ Cardinality(Automatic) <= 1 /\ (moves => rate # NoNumber \/ resized)
             /\ ~(commissions = {} /\ relevant /\ concierge # None /\ rate = NoNumber
                  /\ new.rate # NoNumber)
        /\ given' = IF rate # NoNumber \/ concierge # None THEN 0 ELSE given
        /\ UNCHANGED <<contract, deletion>>

-----------------------------------------------------------------------------
(***************************************************************************)
(* What staff does with them.                                              *)
(***************************************************************************)

SetByHand(c, amount) ==
    /\ commissions' = (commissions \ {c}) \cup {[c EXCEPT !.amount = amount, !.manual = TRUE]}
    /\ UNCHANGED <<booking, contract, made, deletion, given, followed, edits>>

\* CommissionService.deleteById
DeleteOne(c) ==
    /\ deletion = "none"
    /\ commissions' = commissions \ {c}
    /\ deletion' = IF c.source = "booking" THEN "assign" ELSE "none"
    /\ followed' = FALSE
    /\ UNCHANGED <<booking, contract, made, given, edits>>

\* CommissionService.deleteByBookingNumberAndSource: whatever the source of those there are,
\* the booking goes to the store if it is "booking" that is deleted.
DeleteAll(source) ==
    /\ deletion = "none" /\ commissions # {}
    /\ commissions' = {c \in commissions : c.source # source}
    /\ deletion' = IF source = "booking" THEN "assign" ELSE "none"
    /\ followed' = FALSE
    /\ UNCHANGED <<booking, contract, made, given, edits>>

MutantOfStore(b) == [b EXCEPT !.concierge = Store]

OfStore(b) == [b EXCEPT !.concierge = Store, !.rate = 0]

\* The rest of either; it fails silently if the store is not found or the booking is not
\* written.
Assign ==
    /\ deletion = "assign"
    /\ deletion' = "none"
    /\ booking' = OfStore(booking)
    /\ given' = made + 1
    /\ UNCHANGED <<contract, commissions, made, followed, edits>>

AssignFails ==
    /\ deletion = "assign"
    /\ deletion' = "none"
    /\ UNCHANGED <<booking, contract, commissions, made, given, followed, edits>>

-----------------------------------------------------------------------------
(***************************************************************************)
(* What sellers see.                                                       *)
(***************************************************************************)

MutantShown == "APROBADO" \in {booking.status, contract}

\* findAllByOwner joins the booking and its contract.
Shown == booking.status # "CANCELADO" /\ "APROBADO" \in {booking.status, contract}

\* Its rows; sources: those that the filter asks for.
Listed(owner, sources) ==
    {c \in commissions : Shown /\ c.owner = owner /\ c.amount > 0 /\ c.source \in sources}

\* What commissions come to.
Worth(some) == MapThenSumSet(LAMBDA c : c.amount, some)

\* What the two lists of a seller or owner come to, and those of several.
Due(owner) == Worth(Listed(owner, {"booking"})) + Worth(Listed(owner, {"extension"}))

ShownTo(owners) == MapThenSumSet(Due, owners)

Next ==
    \/ \E status \in {"PENDIENTE", "APROBADO"}, reserve \in BOOLEAN, delivery \in {0, Delivery},
          concierge \in Sellers \cup {None}, rate \in Rates \cup {NoNumber}, cart \in Carts :
         LET b == [status |-> status, reserve |-> reserve,
                   total |-> CartTotal(cart) + delivery, delivery |-> delivery,
                   concierge |-> concierge, rate |-> rate, cart |-> cart]
         IN  (rate # NoNumber => concierge # None) /\ (Request(b) \/ Purchase(b))
    \/ Approve \/ Reject \/ Cancel \/ Confirm \/ OpenContract
    \/ \E amount \in Extensions, concierge \in Sellers, rate \in Rates \cup {NoNumber}, fixed \in {0, 1} :
         /\ fixed > 0 => rate = NoNumber
         /\ Extend(amount, concierge, rate, fixed)
    \/ \E total \in Totals \cup {NoNumber}, rate \in Rates \cup {NoNumber}, concierge \in Sellers \cup {None},
          drops \in BOOLEAN, fromStart \in BOOLEAN :
         /\ fromStart => drops
         /\ Edit(total, rate, concierge, drops, fromStart)
    \/ \E c \in commissions : SetByHand(c, 1) \/ DeleteOne(c)
    \/ \E source \in {"booking", "extension"} : DeleteAll(source)
    \/ Assign \/ AssignFails

Spec == Init /\ [][Next]_vars

-----------------------------------------------------------------------------
(***************************************************************************)
(* What is true of every state (for the proofs of the properties).         *)
(***************************************************************************)

\* Commissions are numbered by the vehicles of a cart, so it has each once.
Assumptions ==
    /\ None \notin Sellers \cup {Store}
    /\ Sellers \cup {Store} \subseteq DOMAIN OwnRate
    /\ \A owner \in DOMAIN OwnRate : OwnRate[owner] \in Nat \cup {NoNumber}
    /\ Totals \subseteq Nat /\ Rates \subseteq Nat /\ Extensions \subseteq Nat /\ Delivery \in Nat
    /\ \A cart \in Carts :
         /\ IsFiniteSet(cart)
         /\ \A i \in cart : i.vehicle \in Int /\ i.owner \in DOMAIN OwnRate /\ i.total \in Nat
         /\ \A i, j \in cart : i.vehicle = j.vehicle => i = j

Booking ==
    [status : Statuses, reserve : BOOLEAN, total : Nat, delivery : Nat,
     concierge : Sellers \cup {Store, None}, rate : Nat \cup {NoNumber}, cart : Carts \cup {{}}]

Commission ==
    [id : Nat, owner : DOMAIN OwnRate, amount : Nat, source : {"booking", "extension"},
     manual : BOOLEAN]

TypeOK ==
    /\ booking \in Booking
    /\ contract \in Statuses
    /\ commissions \in SUBSET Commission /\ IsFiniteSet(commissions)
    /\ made \in Nat
    /\ deletion \in {"none", "assign"}
    /\ given \in Nat
    /\ followed \in BOOLEAN

Numbered ==
    /\ \A c \in commissions : c.id <= made
    /\ \A c, d \in commissions : c.id = d.id => c = d

NothingBefore ==
    booking.status = None =>
        /\ commissions = {} /\ contract = None
        /\ deletion = "none" /\ given = 0 /\ ~booking.reserve

\* Deletions are not followed, and then the booking is the store's.
DeletionIsKnown ==
    /\ deletion = "assign" => ~followed
    /\ given > 0 => booking.concierge = Store /\ booking.rate = 0

Amount(b) == MaxZero(b.total - b.delivery) * Or(b.rate, DefaultRate)

\* AmountsFollowBooking for any number of commissions: staff may take the others in hand.
AllFollow ==
    followed /\ booking.concierge # None =>
        \A c \in Automatic : c.owner = booking.concierge => c.amount = Amount(booking)

-----------------------------------------------------------------------------
(***************************************************************************)
(* Properties.                                                             *)
(***************************************************************************)

\* "nunca se recalcule automaticamente": what was set by hand, and what an extension earned,
\* changes only by hand, however often the booking is edited, approved and taken over; only
\* deletion touches it else.
SetByHandStep ==
    \A c \in commissions :
        c.manual \/ c.source = "extension" =>
           \/ c \in commissions'
           \/ [c EXCEPT !.amount = 1, !.manual = TRUE] \in commissions'
           \/ \A d \in commissions' : d.id # c.id

SetByHandStays == [][SetByHandStep]_vars

\* While a concierge has the one automatic commission of an approved booking, it is the
\* percentage of what the booking costs without delivery, through all changes of total,
\* percentage and concierge; unless it was confirmed (which counts the delivery), the seller's
\* own percentage differs from the default that recalculations assume, a delivery was dropped
\* with a total, or a commission that was there was taken over or deleted.
AmountsFollowBooking ==
    followed /\ Cardinality(Automatic) = 1 /\ booking.concierge # None =>
        \A c \in Automatic :
            c.owner = booking.concierge =>
                c.amount = Amount(booking)

\* After staff deleted the commission of a booking and it went to the store, no commission
\* with money is made for it again by approval, confirmation or a change of total, not even
\* by a validation that ran into the deletion; only a new concierge or percentage does.
DeletedStaysDeleted ==
    given > 0 =>
        \A c \in commissions :
            c.id >= given /\ c.source = "booking" /\ ~c.manual => c.owner = Store /\ c.amount = 0

\* A seller is owed nothing for a cancelled booking, though its contract is still approved;
\* and an approved booking's commissions are all on somebody's list, each once.
ListsAreWhatIsOwed ==
    LET owners == {c.owner : c \in commissions}
    IN  /\ booking.status = "CANCELADO" => ShownTo(owners) = 0
        /\ booking.status = "APROBADO" => ShownTo(owners) = Worth(commissions)
=============================================================================
