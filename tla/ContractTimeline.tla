--------------------------- MODULE ContractTimeline ---------------------------
(***************************************************************************)
(* One contract and its timeline.  Every change of a contract leaves an    *)
(* entry in the history; extensions and changes of vehicle also change the *)
(* cart of the booking, what its vehicles are reserved for and what was    *)
(* paid, and deleting their entry takes those changes back.  Events with   *)
(* money have a movement of the cash book, linked in both directions.      *)
(*                                                                         *)
(* The update of a contract and the restoration of a cart are transactions *)
(* and one step each.  The deletion of an entry is not: it is a sequence   *)
(* of writes (entries that fall with it, restoration, mark), between which *)
(* other requests run and after each of which the handler may be killed.   *)
(*                                                                         *)
(* Entries, versions and movements are identified by their position.       *)
(***************************************************************************)
EXTENDS Integers, Sequences, FiniteSets, FiniteSetsExt

CONSTANTS
    Vehicles,       \* the vehicles that carts name
    Dates,          \* the periods a vehicle is rented for
    Carts,          \* the carts a booking may start with: sequences of [vehicle, dates]
    Updates,        \* the bodies of PUT /contract/:id, see Update below
    Reports,        \* the bodies of POST /contract/:id/report-event
    Total,          \* what the booking costs
    DeliveryCost,   \* the part of it that is the delivery, if there is one
    Handlers,       \* deletions that may run at the same time
    Operations,     \* what clients call, and the faults
    MaxRequests     \* bound: how many requests are served

AllOperations ==
    {"update", "report", "delete", "deleteMovement", "restore", "restoreMovement",
     "abort", "fault"}

Extension     == "EXTENSION DE RENTA"
VehicleChange == "CAMBIO DE VEHICULO"
Delivery      == "DELIVERY"
DateEdit      == "EDICION DE FECHA"
Theft         == "ROBO"
Fuel          == "COMBUSTIBLE PAGADO POR CLIENTE"
NoEvent       == "none"

Events == {Extension, VehicleChange, Delivery, DateEdit, Theft, Fuel, NoEvent}

\* determineMovementDirection: the events whose amount is subtracted.
ExpenseEvents == {Theft}

Actions == {"CONTRACT_CREATED", "EXTENSION_UPDATED", "BOOKING_MODIFIED", "NOTE_ADDED"}

CartItem == [vehicle : Vehicles, dates : Dates]

NoCart == <<>>

Cart == Seq(CartItem)

\* extensionReason: reasonForChange is EXTENSION DE RENTA.  paid: extensionAmount is
\* there.  newEnd: newEndDateTime is there.  approved: the body sets status APROBADO.
\* confirmed: confirmDuplicate.  seller: isExtension and a concierge, who is owed a
\* commission.
UpdateBody ==
    [extensionReason : BOOLEAN, event : Events, paid : BOOLEAN, amount : Int,
     newEnd : BOOLEAN, cart : Cart, approved : BOOLEAN, confirmed : BOOLEAN,
     seller : BOOLEAN]

\* method: paymentMethod is there.
ReportBody ==
    [event : Events, amount : Int, method : BOOLEAN, vehicle : Vehicles \cup {"none"}]

ASSUME ConstantsAssumption ==
    /\ Carts \subseteq Cart
    /\ Updates \subseteq UpdateBody
    /\ \A u \in Updates :
         /\ ~u.paid => u.amount = 0
         /\ u.paid /\ ~u.extensionReason => u.event \notin {NoEvent, DateEdit}
    /\ Reports \subseteq ReportBody
    /\ Total \in Nat /\ DeliveryCost \in Nat /\ DeliveryCost <= Total
    /\ Operations \subseteq AllOperations
    /\ MaxRequests \in Nat

VARIABLES
    booking,      \* cart, total, totalPaid and deliveryCost of the booking
    approved,     \* the status of the contract is APROBADO
    history,      \* the entries of the timeline, in the order of createdAt
    versions,     \* the versions of the cart, in the order of createdAt
    snapshots,    \* contract.snapshots: by entry, the vehicles before its change
    held,         \* the reservations each vehicle has for this booking
    commissions,  \* the extensions whose commission exists
    movements,    \* the movements of the cash book made for the timeline
    handler,      \* where each deletion is
    answer,       \* the last answer to a client
    requests,     \* how many requests have been served (bounded by MaxRequests)
    past          \* what has happened so far; only properties look at it

vars == <<booking, approved, history, versions, snapshots, held, commissions,
          movements, handler, answer, requests, past>>

Entry ==
    [action : Actions, event : Events, amount : Int, deleted : BOOLEAN,
     vehicle : Vehicles \cup {"none"}, older : Nat, cart : Cart, movement : Nat,
     sets : Cart]

Idle == [stage |-> "idle", entry |-> 0, movement |-> 0, todo |-> {}]

Init ==
    /\ \E cart \in Carts, hasDelivery \in BOOLEAN, paid \in {0, Total} :
         booking = [cart |-> cart, total |-> Total, totalPaid |-> paid,
                    deliveryCost |-> IF hasDelivery THEN DeliveryCost ELSE 0]
    /\ approved \in BOOLEAN
    /\ history = <<>>
    /\ versions = <<>>
    /\ snapshots = [e \in {} |-> NoCart]
    /\ held = [v \in Vehicles |->
                 [i \in 1 .. Cardinality({j \in DOMAIN booking.cart : booking.cart[j].vehicle = v})
                    |-> (CHOOSE item \in {booking.cart[j] : j \in DOMAIN booking.cart} :
                           item.vehicle = v).dates]]
    /\ commissions = {}
    /\ movements = <<>>
    /\ handler = [h \in Handlers |-> Idle]
    /\ answer = [op |-> "none", entry |-> 0, result |-> "ok"]
    /\ requests = 0
    /\ past = IF booking.totalPaid < Total THEN {"owed"} ELSE {}

-----------------------------------------------------------------------------
(***************************************************************************)
(* The history.                                                            *)
(***************************************************************************)

\* The find hook of contract_history adds isDeleted # true to every query, whatever
\* the options say, so a deleted entry is found by nobody.
Live(hist) == {i \in DOMAIN hist : ~hist[i].deleted}

\* A new entry.  older is how many versions of the cart were created before it; cart is
\* the cartSnapshot of its change, if it has one; movement is relatedMovement, or 0.
\* sets is for the properties: the cart that the request set which made the entry.
NewEntry(action, event, amount, vehicle, cart, sets) ==
    [action |-> action, event |-> event, amount |-> amount, deleted |-> FALSE,
     vehicle |-> vehicle, older |-> Len(versions), cart |-> cart, movement |-> 0,
     sets |-> sets]

Note(event, amount) == NewEntry("NOTE_ADDED", event, amount, "none", NoCart, NoCart)

MutantFirstVehicle(cart) == IF cart = NoCart THEN "" ELSE cart[1].vehicle

FirstVehicle(cart) == IF cart = NoCart THEN "none" ELSE cart[1].vehicle

MutantIsExtension(e) == e.action = Extension

IsExtension(e) == e.action = "EXTENSION_UPDATED" \/ e.event = Extension

IsVehicleChange(e) == e.event = VehicleChange

MaxZero(n) == IF n > 0 THEN n ELSE 0

IsCreation(e) == e.action = "CONTRACT_CREATED"

Busy == \E h \in Handlers : handler[h].stage # "idle"

Overlapping == IF Busy THEN {"overlap"} ELSE {}

\* More is taken off than was paid, for which the code stops at zero.
Lacking(amount) == IF booking.totalPaid < amount THEN {"owed"} ELSE {}

Answer(op, entry, result) == answer' = [op |-> op, entry |-> entry, result |-> result]

Serve(op) == op \in Operations /\ requests < MaxRequests /\ requests' = requests + 1

\* POST /contract: the entry of the creation, and one for a delivery that was booked.
CreateContract ==
    /\ history = <<>>
    /\ history' =
         <<NewEntry("CONTRACT_CREATED", NoEvent, 0, "none", NoCart, booking.cart)>>
         \o (IF booking.deliveryCost > 0
             THEN <<NewEntry("NOTE_ADDED", Delivery, booking.deliveryCost,
                             FirstVehicle(booking.cart), NoCart, NoCart)>>
             ELSE <<>>)
    /\ Answer("create", 1, "ok")
    /\ UNCHANGED <<booking, approved, versions, snapshots, held, commissions,
                   movements, handler, requests, past>>

-----------------------------------------------------------------------------
(***************************************************************************)
(* PUT /contract/:id.                                                      *)
(***************************************************************************)

Items(cart) == {cart[i] : i \in DOMAIN cart}

DatesIn(cart, v) == (CHOOSE item \in Items(cart) : item.vehicle = v).dates

VehiclesOf(cart) == {item.vehicle : item \in Items(cart)}

MutantReservationsNotRedated(reservations, old, new, vehicleChange) ==
    [v \in Vehicles |->
        IF v \in VehiclesOf(old) \ VehiclesOf(new) /\ reservations[v] # <<>>
        THEN Tail(reservations[v])
        ELSE IF v \in VehiclesOf(new) \ VehiclesOf(old) /\ ~vehicleChange
        THEN Append(reservations[v], DatesIn(new, v))
        ELSE reservations[v]]

\* updateVehicleReservations.  A reservation is found by its booking, so the first one
\* that the vehicle has for this booking is the one that is released or changed.  For a
\* change of vehicle only the vehicles that leave are looked at.
UpdateVehicleReservations(reservations, old, new, vehicleChange) ==
    [v \in Vehicles |->
        LET before == v \in VehiclesOf(old)
            after  == v \in VehiclesOf(new)
            mine   == reservations[v]
        IN  IF before /\ ~after /\ mine # <<>>
            THEN Tail(mine)
            ELSE IF vehicleChange \/ ~after THEN mine
            ELSE IF ~before THEN Append(mine, DatesIn(new, v))
            ELSE IF DatesIn(old, v) # DatesIn(new, v) /\ mine # <<>>
            THEN <<DatesIn(new, v)>> \o Tail(mine)
            ELSE mine]

\* The entries EDICION DE FECHA that it adds, one per vehicle whose dates it changed.
DateEdits(reservations, old, new, vehicleChange) ==
    LET edited == {v \in VehiclesOf(old) \cap VehiclesOf(new) :
                     DatesIn(old, v) # DatesIn(new, v) /\ reservations[v] # <<>>}
    IN  IF vehicleChange THEN <<>>
        ELSE [i \in 1 .. Cardinality(edited) |-> Note(DateEdit, 0)]

IsApproved(u) == u.approved \/ approved

\* Both branches that make an entry need an amount; an extension one that is not 0.
IsExtensionPayment(u) == u.extensionReason /\ u.paid /\ u.amount # 0

IsCharge(u) == u.paid /\ ~u.extensionReason

\* An entry like the one of a charge, of the same day.
Duplicates(u) ==
    {i \in Live(history) :
        /\ history[i].event = u.event
        /\ history[i].amount = u.amount
        /\ history[i].vehicle = FirstVehicle(u.cart)}

MutantChargedOnlyPaid(b, u) ==
    IF IsExtensionPayment(u) /\ ~u.approved THEN b
    ELSE [b EXCEPT !.totalPaid = @ + u.amount]

\* What an entry does to the totals of the booking.  The total that an unpaid booking
\* has counts as paid when an extension is approved.
Charged(b, u) ==
    IF IsExtensionPayment(u)
    THEN IF u.approved
         THEN [b EXCEPT !.totalPaid = (IF @ # 0 THEN @ ELSE b.total) + u.amount]
         ELSE b
    ELSE LET newDelivery == u.event = Delivery /\ b.deliveryCost = 0
             extra       == u.event \notin {Delivery, NoEvent}
         IN  [b EXCEPT
                !.total = IF newDelivery THEN @ + u.amount ELSE @,
                !.totalPaid = IF (newDelivery \/ extra) /\ IsApproved(u)
                              THEN @ + u.amount ELSE @]

\* What is charged is paid at once.
Settles(u) ==
    /\ IF IsExtensionPayment(u) THEN u.approved ELSE IsApproved(u)
    /\ booking.totalPaid > 0

\* The cart is the same and only money moves: no BOOKING_MODIFIED.
OnlyMoney(u) == IsCharge(u) /\ u.cart = booking.cart

\* The whole transaction; charge says whether the entry of a charge is made, which it
\* is not when a change of the cart comes with a duplicate.
ApplyUpdate(u, charge) ==
    LET vehicle == FirstVehicle(u.cart)
        entry   == IF IsExtensionPayment(u)
                   THEN <<NewEntry("EXTENSION_UPDATED", Extension, u.amount, vehicle,
                                   NoCart, u.cart)>>
                   ELSE IF charge
                   THEN <<NewEntry("NOTE_ADDED", u.event, u.amount, vehicle,
                                   NoCart, u.cart)>>
                   ELSE <<>>
        changes == u.cart # NoCart
        sets    == IF entry = <<>> THEN u.cart ELSE NoCart
        edit    == IF changes /\ ~u.newEnd /\ ~OnlyMoney(u)
                   THEN <<NewEntry("BOOKING_MODIFIED", NoEvent, 0, "none", u.cart, sets)>>
                   ELSE <<>>
        dates   == IF changes
                   THEN DateEdits(held, booking.cart, u.cart, u.event = VehicleChange)
                   ELSE <<>>
        old     == IF changes /\ u.cart # booking.cart THEN booking.cart ELSE NoCart
        place   == Len(history) + 1
    IN  /\ history' = history \o entry \o edit \o dates
        /\ booking' = [(IF entry # <<>> THEN Charged(booking, u) ELSE booking)
                         EXCEPT !.cart = IF changes THEN u.cart ELSE @]
        /\ versions' = IF changes THEN Append(versions, u.cart) ELSE versions
        /\ held' = IF changes
                   THEN UpdateVehicleReservations(held, booking.cart, u.cart,
                                                  u.event = VehicleChange)
                   ELSE held
        /\ snapshots' = IF entry # <<>>
                        THEN [e \in DOMAIN snapshots \cup {place} |->
                                IF e = place THEN old ELSE snapshots[e]]
                        ELSE snapshots
        /\ approved' = (u.approved \/ approved)
        /\ commissions' = IF u.seller /\ u.amount # 0
                          THEN commissions \cup {place} ELSE commissions
        /\ past' = past \cup Overlapping \cup
             {what \in {"silent change", "vehicle change", "owed", "second delivery",
                        "other commission", "expense"} :
                \/ what = "silent change" /\ changes /\ entry = <<>> /\ edit = <<>>
                \/ what = "vehicle change" /\ u.event = VehicleChange
                \/ what = "owed" /\ entry # <<>> /\ ~Settles(u)
                \/ /\ what = "second delivery"
                   /\ charge /\ u.event = Delivery /\ booking.deliveryCost > 0
                \/ what = "expense" /\ charge /\ u.event \in ExpenseEvents
                \/ what = "other commission" /\ u.seller /\ ~IsExtensionPayment(u)}

Update(u) ==
    /\ history # <<>>
    /\ Serve("update")
    /\ \E today \in BOOLEAN :
         LET duplicate == today /\ IsCharge(u) /\ ~u.confirmed /\ Duplicates(u) # {}
         IN  \/ /\ duplicate /\ u.cart = NoCart
                /\ Answer("update", 0, "conflict")
                /\ UNCHANGED <<booking, approved, history, versions, snapshots, held,
                               commissions, past>>
             \/ /\ ~(duplicate /\ u.cart = NoCart)
                /\ ApplyUpdate(u, IsCharge(u) /\ ~duplicate)
                /\ Answer("update", Len(history) + 1, "ok")
    /\ UNCHANGED <<movements, handler>>

-----------------------------------------------------------------------------
(***************************************************************************)
(* POST /contract/:id/report-event.                                        *)
(***************************************************************************)

\* createHistoryEvent takes a negative amount off what was paid.
Discounted(b, amount) ==
    [b EXCEPT !.totalPaid = IF amount < 0 THEN MaxZero(@ + amount) ELSE @]

\* An event with money and a method of payment makes an entry, a movement that names
\* it, and then the entry's reference to the movement.  When one of the last two fails
\* the service makes another entry, alone; when the process stops nothing more is made.
ReportEvent(r) ==
    LET entry    == [Note(r.event, r.amount) EXCEPT !.vehicle = r.vehicle]
        linked   == [entry EXCEPT !.movement = Len(movements) + 1]
        movement == [entry |-> Len(history) + 1, amount |-> r.amount, deleted |-> FALSE]
        once     == Discounted(booking, r.amount)
        remember(what) == past' = past \cup Overlapping \cup what \cup Lacking(-r.amount) \cup
                            (IF r.amount > 0 THEN {"reported"} ELSE {})
    IN
    /\ history # <<>>
    /\ Serve("report")
    /\ IF r.method /\ r.amount # 0
       THEN \/ /\ history' = Append(history, linked)
               /\ movements' = Append(movements, movement)
               /\ booking' = once
               /\ remember({})
            \/ /\ "fault" \in Operations
               /\ history' = history \o <<entry, entry>>
               /\ movements' \in {movements, Append(movements, movement)}
               /\ booking' = Discounted(once, r.amount)
               /\ remember({"fault"})
            \/ /\ "abort" \in Operations
               /\ history' = Append(history, entry)
               /\ movements' \in {movements, Append(movements, movement)}
               /\ booking' = once
               /\ remember({"abort"})
       ELSE /\ history' = Append(history, entry)
            /\ booking' = once
            /\ remember({})
            /\ UNCHANGED movements
    /\ Answer("report", Len(history) + 1, "ok")
    /\ UNCHANGED <<approved, versions, snapshots, held, commissions, handler>>

-----------------------------------------------------------------------------
(***************************************************************************)
(* DELETE /contract/history/:id.                                           *)
(***************************************************************************)

\* The later entries that fall with entry e: the extensions after a change of vehicle,
\* the changes of vehicle after an extension.
FallWith(e) ==
    {i \in Live(history) :
        /\ i > e
        /\ \/ IsVehicleChange(history[e]) /\ IsExtension(history[i])
           \/ IsExtension(history[e]) /\ IsVehicleChange(history[i])}

Restorable(e) == IsExtension(e) \/ IsVehicleChange(e)

MutantMovementOf(e) == history[e].movement

\* The movement of an entry, or else one that names the entry.
MovementOf(e) ==
    LET naming == {m \in DOMAIN movements :
                     movements[m].entry = e /\ ~movements[m].deleted}
    IN  IF history[e].movement # 0 THEN history[e].movement
        ELSE IF naming # {} THEN Min(naming) ELSE 0

\* What the properties remember of a deletion that starts.
Deletes(e, falling) ==
    {"deletion"} \cup Overlapping \cup
    {what \in {"not undone", "out of order", "cascade", "charge deleted"} :
       \/ what = "not undone" /\ ~Restorable(history[e]) /\ history[e].sets # NoCart
       \/ /\ what = "out of order"
          /\ \E i \in Live(history) \ falling :
               i > e /\ (history[i].sets # NoCart \/ Restorable(history[i]))
       \/ what = "cascade" /\ falling # {}
       \/ /\ what = "charge deleted"
          /\ ~Restorable(history[e])
          /\ history[e].amount # 0 \/ history[e].event = Delivery
          /\ ~(e = 2 /\ history[e].event = Delivery)}

StartDelete(h, e) ==
    /\ handler[h].stage = "idle"
    /\ Serve("delete")
    /\ \/ /\ history[e].deleted
          /\ Answer("delete", e, "not found")
          /\ UNCHANGED <<handler, past>>
       \/ /\ ~history[e].deleted /\ IsCreation(history[e])
          /\ Answer("delete", e, "forbidden")
          /\ UNCHANGED <<handler, past>>
       \/ /\ ~history[e].deleted /\ ~IsCreation(history[e])
          /\ handler' = [handler EXCEPT ![h] = [stage |-> "restore", entry |-> e,
                           movement |-> MovementOf(e), todo |-> FallWith(e)]]
          /\ past' = past \cup Deletes(e, FallWith(e))
          /\ UNCHANGED answer
    /\ UNCHANGED <<booking, approved, history, versions, snapshots, held, commissions,
                   movements>>

MutantNewestCart(hist, e) ==
    IF versions # <<>> THEN versions[Len(versions)] ELSE NoCart

\* The cart before entry e: the last version before it, else what its snapshot kept,
\* else the last BOOKING_MODIFIED before it, else the last snapshot before it.
OldCart(hist, e) ==
    LET before   == {i \in DOMAIN snapshots : i < e}
        modified == {i \in Live(hist) : i < e /\ hist[i].action = "BOOKING_MODIFIED"}
        kept     == IF e \in DOMAIN snapshots THEN snapshots[e] ELSE NoCart
    IN  IF hist[e].older > 0 THEN versions[hist[e].older]
        ELSE IF kept # NoCart THEN kept
        ELSE IF modified # {} THEN hist[Max(modified)].cart
        ELSE IF before # {} THEN snapshots[Max(before)]
        ELSE NoCart

\* restoreCartFromSnapshot, a transaction.  Reservations are compared with the cart that
\* it has just written, so nothing of theirs changes.  It asks for the deleted entry of
\* a delivery, and whether the hook on the query lets that through is up to the library.
RestoreCart(hist, e) ==
    LET old        == OldCart(hist, e)
        deliveries == {i \in DOMAIN hist : hist[i].event = Delivery}
    IN  /\ old # NoCart
        /\ \E strip \in {deliveries \cap Live(hist) # {}, deliveries \ Live(hist) # {}} :
             booking' = [booking EXCEPT
                           !.cart = old,
                           !.totalPaid = IF hist[e].amount > 0
                                         THEN MaxZero(@ - hist[e].amount) ELSE @,
                           !.deliveryCost = IF strip THEN 0 ELSE @]
        /\ versions' = Append(versions, old)
        /\ held' = UpdateVehicleReservations(held, old, old, FALSE)
        /\ history' = Append(hist, Note(NoEvent, 0))

\* It fails when there is no cart to be found; the deletion goes on.
RestoreFails(hist, e) ==
    /\ OldCart(hist, e) = NoCart \/ "fault" \in Operations
    /\ history' = hist
    /\ UNCHANGED <<booking, versions, held>>

\* A restoration that succeeds leaves a note.
Failed == IF Len(history') = Len(history) THEN {"not restored"} ELSE {}

MutantMarkNothing(hist, e) == hist

MutantRemoved(hist, e) == SubSeq(hist, 1, e - 1) \o SubSeq(hist, e + 1, Len(hist))

MarkDeleted(hist, e) == [hist EXCEPT ![e].deleted = TRUE]

\* The next entry that falls with the one deleted is marked and its cart restored.
Cascade(h) ==
    LET falling == handler[h].todo
        next    == Min(falling)
        marked  == MarkDeleted(history, next)
    IN  /\ handler[h].stage = "restore" /\ falling # {}
        /\ RestoreCart(marked, next) \/ RestoreFails(marked, next)
        /\ past' = past \cup Failed \cup Lacking(marked[next].amount)
        /\ handler' = [handler EXCEPT ![h].todo = @ \ {next}]
        /\ UNCHANGED <<approved, snapshots, commissions, movements, answer, requests>>

\* A delivery that is taken out of the booking, of its total only if it was there when
\* the contract was made, or within five minutes.
WithoutDelivery(b, original) ==
    [b EXCEPT !.totalPaid = MaxZero(@ - b.deliveryCost),
              !.total = IF original THEN MaxZero(@ - b.deliveryCost) ELSE @,
              !.deliveryCost = 0]

Restore(h) ==
    LET e     == handler[h].entry
        entry == history[e]
    IN  /\ handler[h].stage = "restore" /\ handler[h].todo = {}
        /\ IF Restorable(entry)
           THEN /\ RestoreCart(history, e) \/ RestoreFails(history, e)
                /\ past' = past \cup Failed \cup Lacking(entry.amount)
           ELSE /\ IF entry.event = Delivery
                   THEN /\ \E soon \in BOOLEAN :
                             booking' = WithoutDelivery(booking, e = 2 \/ soon)
                        /\ past' = past \cup Lacking(booking.deliveryCost)
                   ELSE UNCHANGED <<booking, past>>
                /\ UNCHANGED <<history, versions, held>>
        /\ commissions' = IF IsExtension(entry) THEN commissions \ {e} ELSE commissions
        /\ handler' = [handler EXCEPT ![h].stage = "mark"]
        /\ UNCHANGED <<approved, snapshots, movements, answer, requests>>

Mark(h) ==
    /\ handler[h].stage = "mark"
    /\ history' = MarkDeleted(history, handler[h].entry)
    /\ handler' = [handler EXCEPT ![h].stage = "unlink"]
    /\ UNCHANGED <<booking, approved, versions, snapshots, held, commissions, movements,
                   answer, requests, past>>

\* The movement that the entry names is deleted with it.  The service then deletes the
\* movement it found: when it already is deleted it takes that for a failure, tries the
\* deletion of the entry once more and answers that there is no such entry.
Unlink(h) ==
    LET e       == handler[h].entry
        own     == history[e].movement
        found   == handler[h].movement
        already == found # 0 /\ (found = own \/ movements[found].deleted)
    IN  /\ handler[h].stage = "unlink"
        /\ movements' = [m \in DOMAIN movements |->
                           IF m \in {own, found}
                           THEN [movements[m] EXCEPT !.deleted = TRUE] ELSE movements[m]]
        /\ snapshots' = [i \in DOMAIN snapshots \ {e} |-> snapshots[i]]
        /\ Answer("delete", e, IF already THEN "not found" ELSE "ok")
        /\ handler' = [handler EXCEPT ![h] = Idle]
        /\ UNCHANGED <<booking, approved, history, versions, held, commissions,
                       requests, past>>

\* The process stops while it deletes; nothing takes the deletion up again.
Abort(h) ==
    /\ "abort" \in Operations
    /\ handler[h].stage # "idle"
    /\ handler' = [handler EXCEPT ![h] = Idle]
    /\ past' = past \cup {"abort"}
    /\ UNCHANGED <<booking, approved, history, versions, snapshots, held, commissions,
                   movements, answer, requests>>

-----------------------------------------------------------------------------
(***************************************************************************)
(* Movements, and what is restored.                                        *)
(***************************************************************************)

\* DELETE /movement/:id: the entry that the movement names is marked, and only that.
DeleteMovement(m) ==
    LET e == movements[m].entry
    IN  /\ Serve("deleteMovement")
        /\ IF movements[m].deleted
           THEN /\ Answer("deleteMovement", e, "bad request")
                /\ UNCHANGED <<history, movements, past>>
           ELSE /\ movements' = [movements EXCEPT ![m].deleted = TRUE]
                /\ history' = MarkDeleted(history, e)
                /\ past' = past \cup Overlapping \cup {"movement deleted"}
                /\ Answer("deleteMovement", e, "ok")
        /\ UNCHANGED <<booking, approved, versions, snapshots, held, commissions, handler>>

\* POST /movement/:id/restore: the movement comes back, its entry does not.
RestoreMovement(m) ==
    /\ Serve("restoreMovement")
    /\ IF movements[m].deleted
       THEN /\ movements' = [movements EXCEPT ![m].deleted = FALSE]
            /\ past' = past \cup {"movement restored"}
            /\ Answer("restoreMovement", movements[m].entry, "ok")
       ELSE /\ Answer("restoreMovement", movements[m].entry, "not found")
            /\ UNCHANGED <<movements, past>>
    /\ UNCHANGED <<booking, approved, history, versions, snapshots, held, commissions,
                   handler>>

\* POST /contract/history/:id/restore: the hook hides the entry that is to be restored.
RestoreEntry(e) ==
    /\ Serve("restore")
    /\ Answer("restore", e, IF history[e].deleted THEN "not found" ELSE "bad request")
    /\ UNCHANGED <<booking, approved, history, versions, snapshots, held, commissions,
                   movements, handler, past>>

-----------------------------------------------------------------------------
Handle(h) == Cascade(h) \/ Restore(h) \/ Mark(h) \/ Unlink(h)

Next ==
    \/ CreateContract
    \/ \E u \in Updates : Update(u)
    \/ \E r \in Reports : ReportEvent(r)
    \/ \E h \in Handlers, e \in DOMAIN history : StartDelete(h, e)
    \/ \E h \in Handlers : Handle(h) \/ Abort(h)
    \/ \E m \in DOMAIN movements : DeleteMovement(m) \/ RestoreMovement(m)
    \/ \E e \in DOMAIN history : RestoreEntry(e)

Spec == Init /\ [][Next]_vars

-----------------------------------------------------------------------------
(***************************************************************************)
(* Properties.                                                             *)
(***************************************************************************)

Never(things) == past \cap things = {}

\* What is stored has its type.
TypeOK ==
    /\ booking \in [cart : Cart, total : Int, totalPaid : Int, deliveryCost : Int]
    /\ approved \in BOOLEAN
    /\ history \in Seq(Entry)
    /\ versions \in Seq(Cart)
    /\ snapshots \in [DOMAIN snapshots -> Cart]
    /\ held \in [Vehicles -> Seq(Dates)]
    /\ commissions \subseteq Nat
    /\ movements \in Seq([entry : Nat, amount : Int, deleted : BOOLEAN])
    /\ handler \in [Handlers -> [stage : {"idle", "restore", "mark", "unlink"},
                                 entry : Nat, movement : Nat, todo : SUBSET Nat]]
    /\ requests \in 0 .. MaxRequests

\* The cart that the newest request left, of those whose entries still stand.
TimelineCart ==
    LET setting == {i \in Live(history) : history[i].sets # NoCart}
    IN  history[Max(setting)].sets

\* softDeleteHistoryEntry and restoreCartFromSnapshot: the booking has the cart that its
\* timeline shows, whatever was extended, changed and deleted, as long as deletions go
\* from the newest entry back, one at a time, and are not cut short.
CartFollowsTimeline ==
    history # <<>> /\ ~Busy /\ Never({"silent change", "not undone", "out of order",
                                      "overlap", "abort", "not restored",
                                      "movement deleted", "cascade"})
        => booking.cart = TimelineCart

\* BookingTotalsService.calculateTotals: the total and every live entry with money
\* except deliveries, which the total has already.
Signed(e) == IF e.event \in ExpenseEvents THEN -e.amount ELSE e.amount

Money(e) == IF e.deleted \/ e.event = Delivery THEN 0 ELSE Signed(e)

SumOf(hist) ==
    LET sum[n \in 0 .. Len(hist)] == IF n = 0 THEN 0 ELSE sum[n - 1] + Money(hist[n])
    IN  sum[Len(hist)]

NetTotal == booking.total + SumOf(history)

\* The totals of a booking: what a booking that is settled as it goes has paid is what
\* its contract comes to, through extensions, charges and their deletion.
PaidMatchesNet ==
    Never({"owed", "expense", "second delivery", "charge deleted", "overlap", "abort",
           "not restored", "movement deleted", "fault", "reported"}) /\ ~Busy
        => booking.totalPaid = NetTotal

\* The entry of an event and its movement are deleted together, whichever of the two is
\* asked to go, except that a movement that is restored comes back without its entry.
DeletedTogether ==
    ~Busy /\ Never({"cascade", "overlap", "abort", "movement restored"}) =>
        \A m \in DOMAIN movements :
            movements[m].deleted = history[movements[m].entry].deleted

\* A commission for an extension goes when the extension goes, unless it falls with a
\* change of vehicle or by way of its movement.
CommissionsOfLiveExtensions ==
    ~Busy /\ Never({"cascade", "abort", "other commission", "movement deleted"}) =>
        \A e \in commissions : ~history[e].deleted

\* updateVehicleReservations: without deletions and changes of vehicle, each vehicle is
\* reserved for the dates of the booking's cart and for no others.
ReservationsFollowCart ==
    Never({"deletion", "vehicle change"}) =>
        \A v \in Vehicles :
            held[v] = IF v \in VehiclesOf(booking.cart)
                      THEN <<DatesIn(booking.cart, v)>> ELSE <<>>

\* restoreCartFromSnapshot, "8. Actualizar las reservas de vehículos": after a deletion
\* each vehicle of the restored cart is reserved for the dates of that cart.
ReservationsRestored ==
    ~Busy /\ Never({"vehicle change", "abort", "not restored"}) =>
        \A v \in VehiclesOf(booking.cart) : held[v] = <<DatesIn(booking.cart, v)>>

\* The timeline is a record: entries are added at the end, and what they say is never
\* changed or taken back.  What is deleted stays deleted.
Records(old, new) ==
    [new EXCEPT !.deleted = old.deleted, !.movement = old.movement] = old

TimelineOnlyGrows ==
    [][/\ Len(history) <= Len(history')
       /\ \A e \in DOMAIN history :
            /\ Records(history[e], history'[e])
            /\ history[e].deleted => history'[e].deleted]_vars

\* When a deletion is done the entry is gone, and nothing stands that was to fall with it.
DeletionIsWhole ==
    [][\A h \in Handlers :
         handler[h].stage = "unlink" /\ handler'[h].stage = "idle" /\ Never({"overlap"})
         /\ "abort" \notin past'
             => LET e == handler[h].entry
                IN  /\ history'[e].deleted
                    /\ FallWith(e) = {}
                    /\ \A m \in DOMAIN movements' :
                         movements'[m].entry = e => movements'[m].deleted]_vars
=============================================================================
