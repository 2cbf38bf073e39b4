------------------------- MODULE VehicleReservations -------------------------
(***************************************************************************)
(* Who holds which vehicle when.  The truth is kept twice: every vehicle   *)
(* document has an array `reservations`, and every booking document has a  *)
(* cart with the vehicles and dates it is for.  No transaction spans the   *)
(* two, except in the contract repository: a handler awaits one read or    *)
(* one write of one document at a time, and the handlers that run in other *)
(* serverless instances act in between.                                    *)
(*                                                                         *)
(* A request is a running handler; one request at a time is the serial     *)
(* case.  Operations says what the clients of an instance do.              *)
(***************************************************************************)
EXTENDS Integers, FiniteSetsExt

CONSTANTS
    Vehicles, Bookings, Requests,
    NoBooking,          \* the bookingId of a reservation that has none
    Times,              \* the moments that dates are taken from
    ReleaseTolerance,   \* 5 minutes, when a reservation without bookingId is matched
    EditTolerance,      \* 1 minute, when its dates are edited
    Operations,         \* the operations that clients call, and the faults
    MaxChanges          \* bound: how often staff changes carts and vehicles

\* web, manual, admin: BookingService.create, addManualBookingInUserFromCart and
\* addManualBookingInUser; cancel, update: cancelBooking and update to CANCELADO.
AllOperations ==
    {"web", "manual", "admin", "cancel", "update", "editBooking", "contract",
     "vehicleChange", "editVehicle", "prices", "deleteVehicle", "userGone", "abort"}

ASSUME ConstantsAssumption ==
    /\ NoBooking \notin Bookings
    /\ Times \subseteq Int
    /\ ReleaseTolerance \in Nat /\ EditTolerance \in Nat /\ MaxChanges \in Nat
    /\ Operations \subseteq AllOperations

VARIABLES
    reservations,   \* the reservations array of each vehicle
    deleted,        \* the vehicles that are softly deleted
    booking,        \* status and cart of each booking document
    request,        \* where each handler is, and what it has read
    changes         \* how many changes staff has made (bounded by MaxChanges)

vars == <<reservations, deleted, booking, request, changes>>

Interval == {i \in [start : Times, end : Times] : i.start < i.end}

\* A member of a reservations array; pos is its place in the array.
Entry == [start : Times, end : Times, booking : Bookings \cup {NoBooking}, pos : Nat]

\* The vehicles of a cart, each with its dates.
Cart == UNION {[vs -> Interval] : vs \in SUBSET Vehicles}

Nothing == [v \in {} |-> {}]

Stages == {"idle", "check", "push", "reread", "rewrite", "release", "releaseWrite"}

Idle ==
    [stage |-> "idle", op |-> "none", booking |-> NoBooking, cart |-> Nothing,
     todo |-> {}, at |-> {}, copy |-> {}]

-----------------------------------------------------------------------------
\* Mutant of Conflict: a request that ends within a reservation is overlooked.
MutantConflictNoEnd(asked, held) ==
    \/ asked.start >= held.start /\ asked.start < held.end
    \/ asked.start <= held.start /\ asked.end >= held.end

\* Overlap of the dates asked for with a reservation, as create and
\* addManualBookingInUserFromCart write it.
Conflict(asked, held) ==
    \/ asked.start >= held.start /\ asked.start < held.end
    \/ asked.end > held.start /\ asked.end <= held.end
    \/ asked.start <= held.start /\ asked.end >= held.end

Near(x, y, tolerance) == x - y <= tolerance /\ y - x <= tolerance

\* Whether an entry is taken for the one of booking b with dates i: by its
\* bookingId if it has one, by its dates otherwise.
Matches(e, b, i, tolerance) ==
    IF e.booking # NoBooking
      THEN e.booking = b
      ELSE Near(e.start, i.start, tolerance) /\ Near(e.end, i.end, tolerance)

\* The place after the last entry.
NextPos(entries) ==
    IF entries = {} THEN 1 ELSE Max({e.pos : e \in entries}) + 1

\* reservations.push({start, end, bookingId})
Pushed(entries, b, i) ==
    entries \cup {[start |-> i.start, end |-> i.end, booking |-> b,
                   pos |-> NextPos(entries)]}

\* Mutant of Released: the bookingId is ignored and only the dates count.
MutantReleasedByDates(entries, b, i) ==
    {e \in entries : ~(Near(e.start, i.start, ReleaseTolerance) /\
                       Near(e.end, i.end, ReleaseTolerance))}

\* Mutant of Released: one entry is released, as in the contract repository.
MutantReleasedOnce(entries, b, i) ==
    entries \ {e \in entries : /\ Matches(e, b, i, ReleaseTolerance)
                               /\ \A f \in entries : f.pos < e.pos =>
                                     ~Matches(f, b, i, ReleaseTolerance)}

\* BookingService.releaseVehicleReservation keeps what does not match.
Released(entries, b, i) ==
    {e \in entries : ~Matches(e, b, i, ReleaseTolerance)}

\* What findIndex finds: the first match, as a set of at most one entry.
FirstMatch(entries, b, i, tolerance) ==
    LET found == {e \in entries : Matches(e, b, i, tolerance)}
    IN  {e \in found : \A f \in found : e.pos <= f.pos}

\* ContractRepository.releaseVehicleReservation pulls the first match only.
ReleasedFirst(entries, b, i) ==
    entries \ FirstMatch(entries, b, i, ReleaseTolerance)

\* Mutant of Redated: only the end of the rental moves.
MutantRedatedEndOnly(entries, b, old, new) ==
    LET first == FirstMatch(entries, b, old, EditTolerance)
    IN  (entries \ first) \cup {[e EXCEPT !.end = new.end] : e \in first}

\* Mutant of Redated: a reservation whose dates are near the old ones is edited,
\* whosever it is.
MutantRedatedByDates(entries, b, old, new) ==
    LET near == {e \in entries : Near(e.start, old.start, ReleaseTolerance)}
    IN  (entries \ near) \cup
        {[e EXCEPT !.start = new.start, !.end = new.end] : e \in near}

\* The first match gets the dates that changed.
Redated(entries, b, old, new) ==
    LET first == FirstMatch(entries, b, old, EditTolerance)
    IN  (entries \ first) \cup
        {[e EXCEPT !.start = IF old.start # new.start THEN new.start ELSE @,
                   !.end   = IF old.end # new.end THEN new.end ELSE @] : e \in first}

-----------------------------------------------------------------------------
Init ==
    /\ reservations = [v \in Vehicles |-> {}]
    /\ deleted = {}
    /\ booking = [b \in Bookings |-> [status |-> "none", cart |-> Nothing]]
    /\ request = [r \in Requests |-> Idle]
    /\ changes = 0

Free(r) == request[r].stage = "idle"

\* Clients learn the id of a booking from the answer to its creation.
Answered(b) ==
    /\ booking[b].status # "none"
    /\ \A r \in Requests :
          request[r].booking = b => request[r].op \in {"cancel", "update"}

Begin(r, op, stage, b, cart) ==
    request' = [request EXCEPT ![r] =
        [stage |-> stage, op |-> op, booking |-> b, cart |-> cart,
         todo |-> IF op = "admin" THEN {} ELSE DOMAIN cart,
         at |-> {}, copy |-> {}]]

Return(r) == request' = [request EXCEPT ![r] = Idle]

\* One vehicle of the loop is done; after the last one the handler goes on to
\* the next stage.
Proceed(r, v, last) ==
    LET left == request[r].todo \ {v}
    IN  IF left = {} THEN last ELSE request' = [request EXCEPT ![r].todo = left]

-----------------------------------------------------------------------------
\* A request to create a booking from a cart; only web and manual check it.
StartCreate(r, op, b, cart) ==
    /\ Free(r)
    /\ op \in Operations \cap {"web", "manual", "admin"}
    /\ booking[b].status = "none"
    /\ \A q \in Requests : request[q].booking # b
    /\ Begin(r, op, "check", b, cart)
    /\ UNCHANGED <<reservations, deleted, booking, changes>>

Available(v, i) ==
    v \notin deleted /\ \A e \in reservations[v] : ~Conflict(i, e)

\* Mutant of CheckVehicle: the loop returns after its first vehicle.
MutantCheckFirstVehicle(r, v) ==
    /\ request[r].stage = "check" /\ v \in request[r].todo
    /\ Available(v, request[r].cart[v])
    /\ request' = [request EXCEPT ![r].todo = {}]
    /\ UNCHANGED <<reservations, deleted, booking, changes>>

\* One turn of the availability loop: the vehicle is read and is available.
CheckVehicle(r, v) ==
    /\ request[r].stage = "check" /\ v \in request[r].todo
    /\ Available(v, request[r].cart[v])
    /\ request' = [request EXCEPT ![r].todo = @ \ {v}]
    /\ UNCHANGED <<reservations, deleted, booking, changes>>

\* It is not: 409, or 404 when it has been deleted.
RefuseVehicle(r, v) ==
    /\ request[r].stage = "check" /\ v \in request[r].todo
    /\ ~Available(v, request[r].cart[v])
    /\ Return(r)
    /\ UNCHANGED <<reservations, deleted, booking, changes>>

\* Mutant of SaveBooking: the reservations are made before the booking is saved.
MutantSaveLater(r) ==
    /\ request[r].stage = "check" /\ request[r].todo = {}
    /\ request' = [request EXCEPT ![r].stage = "push",
                                  ![r].todo = DOMAIN request[r].cart]
    /\ UNCHANGED <<reservations, deleted, booking, changes>>

\* BookingRepository.create: the booking is inserted.
SaveBooking(r) ==
    /\ request[r].stage = "check" /\ request[r].todo = {}
    /\ booking' = [booking EXCEPT ![request[r].booking] =
                      [status |-> "open", cart |-> request[r].cart]]
    /\ request' = [request EXCEPT ![r].stage = "push",
                                  ![r].todo = DOMAIN request[r].cart]
    /\ UNCHANGED <<reservations, deleted, changes>>

\* BookingRepository.create looks its user up after the insert, and throws.
SaveBookingUserGone(r) ==
    /\ "userGone" \in Operations
    /\ request[r].stage = "check" /\ request[r].todo = {}
    /\ booking' = [booking EXCEPT ![request[r].booking] =
                      [status |-> "open", cart |-> request[r].cart]]
    /\ Return(r)
    /\ UNCHANGED <<reservations, deleted, changes>>

\* BookingRepository.create: vehicle.save() after a push, which MongoDB applies
\* to the array as it is then.  A vehicle that is not found is skipped.
PushReservation(r, v) ==
    /\ request[r].stage = "push" /\ v \in request[r].todo
    /\ reservations' =
          IF v \in deleted THEN reservations
          ELSE [reservations EXCEPT ![v] =
                   Pushed(@, request[r].booking, request[r].cart[v])]
    /\ Proceed(r, v,
          IF request[r].op = "manual"
            THEN request' = [request EXCEPT ![r].stage = "reread",
                                            ![r].todo = DOMAIN request[r].cart]
            ELSE Return(r))
    /\ UNCHANGED <<deleted, booking, changes>>

\* addManualBookingInUserFromCart, step 8.5: the vehicle is read once more and
\* the reservation, which is there already, is added to the copy.
RereadVehicle(r, v) ==
    /\ request[r].stage = "reread" /\ v \in request[r].todo
    /\ IF v \in deleted
         THEN Return(r)
         ELSE request' = [request EXCEPT
                 ![r].stage = "rewrite", ![r].todo = @ \ {v},
                 ![r].at = {v},
                 ![r].copy = Pushed(reservations[v], request[r].booking,
                                    request[r].cart[v])]
    /\ UNCHANGED <<reservations, deleted, booking, changes>>

\* The copy replaces the array, whatever it has become; a 404 ends the request.
RewriteVehicle(r, v) ==
    /\ request[r].stage = "rewrite" /\ v \in request[r].at
    /\ IF v \in deleted
         THEN Return(r) /\ UNCHANGED reservations
         ELSE /\ reservations' = [reservations EXCEPT ![v] = request[r].copy]
              /\ IF request[r].todo = {}
                   THEN Return(r)
                   ELSE request' = [request EXCEPT ![r].stage = "reread",
                                                   ![r].at = {}, ![r].copy = {}]
    /\ UNCHANGED <<deleted, booking, changes>>

-----------------------------------------------------------------------------
\* cancelBooking, or update with the status CANCELADO: the booking is read, and
\* goes on only if it is not cancelled yet.
StartCancel(r, op, b) ==
    /\ Free(r)
    /\ op \in Operations \cap {"cancel", "update"}
    /\ Answered(b)
    /\ booking[b].status = "open"
    /\ Begin(r, op, "release", b, booking[b].cart)
    /\ UNCHANGED <<reservations, deleted, booking, changes>>

\* Mutant of ReadForRelease: the error of a vehicle that is gone is not caught.
MutantReadForReleaseThrows(r, v) ==
    LET q == request[r]
        left == q.todo \ {v}
    IN
    /\ q.stage = "release" /\ v \in q.todo
    /\ request' = [request EXCEPT ![r] =
          IF v \in deleted THEN Idle
          ELSE IF reservations[v] = {} THEN [q EXCEPT !.todo = left]
          ELSE [q EXCEPT !.stage = "releaseWrite", !.todo = left, !.at = {v},
                         !.copy = Released(reservations[v], q.booking, q.cart[v])]]
    /\ UNCHANGED <<reservations, deleted, booking, changes>>

\* releaseVehicleReservation reads a vehicle of the cart that was read and filters
\* its array.  A vehicle that is gone is an error, which ends the whole loop.
ReadForRelease(r, v) ==
    LET q == request[r]
        left == q.todo \ {v}
    IN
    /\ q.stage = "release" /\ v \in q.todo
    /\ request' = [request EXCEPT ![r] =
          IF v \in deleted THEN [q EXCEPT !.todo = {}]
          ELSE IF reservations[v] = {} THEN [q EXCEPT !.todo = left]
          ELSE [q EXCEPT !.stage = "releaseWrite", !.todo = left, !.at = {v},
                         !.copy = Released(reservations[v], q.booking, q.cart[v])]]
    /\ UNCHANGED <<reservations, deleted, booking, changes>>

\* Mutant of WriteReleased: the copy of the last vehicle stays behind.
MutantWriteReleasedKeepsCopy(r, v) ==
    /\ request[r].stage = "releaseWrite" /\ v \in request[r].at
    /\ reservations' =
          IF v \in deleted THEN reservations
          ELSE [reservations EXCEPT ![v] = request[r].copy]
    /\ request' = [request EXCEPT ![r].stage = "release"]
    /\ UNCHANGED <<deleted, booking, changes>>

\* ... and writes it back.
WriteReleased(r, v) ==
    /\ request[r].stage = "releaseWrite" /\ v \in request[r].at
    /\ reservations' =
          IF v \in deleted THEN reservations
          ELSE [reservations EXCEPT ![v] = request[r].copy]
    /\ request' = [request EXCEPT
          ![r].stage = "release", ![r].at = {}, ![r].copy = {},
          ![r].todo = IF v \in deleted THEN {} ELSE @]
    /\ UNCHANGED <<deleted, booking, changes>>

\* The status is written: by cancelBooking with the whole document it has read,
\* the cart included, by update without the cart.
FinishCancel(r) ==
    /\ request[r].stage = "release" /\ request[r].todo = {}
    /\ booking' = [booking EXCEPT ![request[r].booking] =
          [status |-> "cancelled",
           cart |-> IF request[r].op = "cancel" THEN request[r].cart ELSE @.cart]]
    /\ Return(r)
    /\ UNCHANGED <<reservations, deleted, changes>>

-----------------------------------------------------------------------------
Change(r, op) ==
    /\ op \in Operations
    /\ Free(r)
    /\ changes < MaxChanges
    /\ changes' = changes + 1
    /\ UNCHANGED request

\* BookingService.update with a cart and no status: no reservation follows.
EditBookingCart(r, b, cart) ==
    /\ Change(r, "editBooking")
    /\ Answered(b)
    /\ booking' = [booking EXCEPT ![b].cart = cart]
    /\ UNCHANGED <<reservations, deleted>>

\* ContractRepository.update with a newCart, in one transaction: the cart of the
\* booking is replaced and the reservations follow, except that the event CAMBIO
\* DE VEHICULO releases the vehicles that leave and does nothing else.
ChangeContractCart(r, op, b, cart) ==
    LET old  == booking[b].cart
        gone == DOMAIN old \ DOMAIN cart
        come == DOMAIN cart \ DOMAIN old
        kept == DOMAIN old \cap DOMAIN cart
    IN
    /\ op \in {"contract", "vehicleChange"} /\ Change(r, op)
    /\ Answered(b)
    /\ booking' = [booking EXCEPT ![b].cart = cart]
    /\ reservations' = [v \in Vehicles |->
          CASE v \in gone \ deleted -> ReleasedFirst(reservations[v], b, old[v])
            [] v \in kept \ deleted /\ op = "contract" /\ old[v] # cart[v] ->
                  Redated(reservations[v], b, old[v], cart[v])
            [] v \in come \ deleted /\ op = "contract" ->
                  Pushed(reservations[v], b, cart[v])
            [] OTHER -> reservations[v]]
    /\ UNCHANGED deleted

Anonymous(entries) == {[e EXCEPT !.booking = NoBooking] : e \in entries}

\* VehicleService.update writes the reservations of its payload: none when it has
\* none, and never a bookingId, which the DTO drops.  The payload may send back
\* what it was shown, with a period to block.
EditVehicle(r, v) ==
    /\ Change(r, "editVehicle")
    /\ v \notin deleted
    /\ \E entries \in {{}, Anonymous(reservations[v])} \cup
                      {Pushed(Anonymous(reservations[v]), NoBooking, i) : i \in Interval} :
          reservations' = [reservations EXCEPT ![v] = entries]
    /\ UNCHANGED <<deleted, booking>>

\* bulkUpdatePricesFromExcel makes a vehicle of the two prices of a row; like every
\* new VehicleModel it has no reservations, and they are written with the prices.
UpdatePrices(r, v) ==
    /\ Change(r, "prices")
    /\ v \notin deleted
    /\ reservations' = [reservations EXCEPT ![v] = {}]
    /\ UNCHANGED <<deleted, booking>>

\* VehicleService.delete: the finds of mongoose pass over the vehicle from now on.
DeleteVehicle(r, v) ==
    /\ Change(r, "deleteVehicle")
    /\ v \notin deleted
    /\ deleted' = deleted \cup {v}
    /\ UNCHANGED <<reservations, booking>>

\* A handler stops between two awaits: an error of the database, or the time
\* limit of the serverless function.
Abort(r) ==
    /\ "abort" \in Operations
    /\ ~Free(r)
    /\ Return(r)
    /\ UNCHANGED <<reservations, deleted, booking, changes>>

-----------------------------------------------------------------------------
\* What the server does with the requests it has accepted.
Handle(r) ==
    \/ \E v \in Vehicles :
          \/ CheckVehicle(r, v) \/ RefuseVehicle(r, v)
          \/ PushReservation(r, v)
          \/ RereadVehicle(r, v) \/ RewriteVehicle(r, v)
          \/ ReadForRelease(r, v) \/ WriteReleased(r, v)
    \/ SaveBooking(r) \/ SaveBookingUserGone(r)
    \/ FinishCancel(r)

\* What its clients ask for.
Ask(r) ==
    \/ \E b \in Bookings :
          \/ \E op \in {"web", "manual", "admin"}, cart \in Cart \ {Nothing} :
                StartCreate(r, op, b, cart)
          \/ \E op \in {"cancel", "update"} : StartCancel(r, op, b)
          \/ \E cart \in Cart \ {Nothing} :
                \/ EditBookingCart(r, b, cart)
                \/ \E op \in {"contract", "vehicleChange"} :
                      ChangeContractCart(r, op, b, cart)
    \/ \E v \in Vehicles : EditVehicle(r, v) \/ UpdatePrices(r, v) \/ DeleteVehicle(r, v)

Next == \E r \in Requests : Handle(r) \/ Ask(r) \/ Abort(r)

Spec == Init /\ [][Next]_vars

\* A handler that has started goes on; nobody has to ask for anything.
FairSpec == Spec /\ \A r \in Requests : WF_vars(Handle(r))

-----------------------------------------------------------------------------
Request ==
    [stage : Stages, op : AllOperations \cup {"none"},
     booking : Bookings \cup {NoBooking}, cart : Cart, todo : SUBSET Vehicles,
     at : SUBSET Vehicles, copy : SUBSET Entry]

\* Types, and what a stage of a handler implies: it works on a booking, on vehicles
\* of its cart, and holds a copy of a vehicle exactly between a read and a write.
TypeOK ==
    /\ reservations \in [Vehicles -> SUBSET Entry]
    /\ deleted \subseteq Vehicles
    /\ booking \in [Bookings -> [status : {"none", "open", "cancelled"}, cart : Cart]]
    /\ request \in [Requests -> Request]
    /\ changes \in 0 .. MaxChanges
    /\ \A r \in Requests :
          /\ request[r].stage # "idle" => request[r].booking \in Bookings
          /\ request[r].todo \cup request[r].at \subseteq DOMAIN request[r].cart
          /\ request[r].stage \in {"rewrite", "releaseWrite"} <=> request[r].at # {}

\* The dates for which vehicle v is held for booking b.
Held(v, b) ==
    {[start |-> e.start, end |-> e.end] :
        e \in {f \in reservations[v] : f.booking = b}}

\* No handler is at work on the booking.
Settled(b) == \A r \in Requests : request[r].booking # b

\* A vehicle is never held for two bookings at overlapping dates.
NoDoubleBooking ==
    \A v \in Vehicles : \A e, f \in reservations[v] :
        e.booking # f.booking /\ NoBooking \notin {e.booking, f.booking} =>
            ~Conflict(e, f)

\* Every vehicle of the cart of an open booking is held for it, for the dates of
\* the cart: what the booking says and what the vehicles say agree.
CartVehiclesReserved ==
    \A b \in Bookings : booking[b].status = "open" /\ Settled(b) =>
        \A v \in DOMAIN booking[b].cart \ deleted : booking[b].cart[v] \in Held(v, b)

\* ... and nothing else is: no other vehicle, and no other dates.
OnlyCartVehiclesReserved ==
    \A b \in Bookings : booking[b].status = "open" /\ Settled(b) =>
        \A v \in Vehicles : \A i \in Held(v, b) :
            v \in DOMAIN booking[b].cart /\ i = booking[b].cart[v]

\* A cancelled booking holds no vehicle, so that others can have them.
CancelledHoldsNothing ==
    \A b \in Bookings : booking[b].status = "cancelled" =>
        \A v \in Vehicles \ deleted : Held(v, b) = {}

\* Releasing the vehicles of one booking takes nothing from another.
ReleaseSparesOthers ==
    [][\A r \in Requests, v \in Vehicles : WriteReleased(r, v) =>
          \A b \in Bookings \ {request[r].booking} : Held(v, b)' = Held(v, b)]_vars

\* A cancellation that was accepted happens, even if a vehicle of the booking is
\* gone by then: an error in the release loop does not stop it.
CancellationTakesEffect ==
    \A b \in Bookings :
        (\E r \in Requests : request[r].booking = b /\ request[r].stage = "release")
            ~> booking[b].status = "cancelled"

\* An entry that names a booking came from a handler that had inserted it.
EntriesHaveBookings ==
    \A v \in Vehicles : \A e \in reservations[v] :
        e.booking # NoBooking => booking[e.booking].status # "none"

Calendar == INSTANCE RentalCalendar WITH
    Dates  <- Interval,
    status <- [b \in Bookings |-> booking[b].status],
    holds  <- [b \in Bookings |->
                 IF booking[b].status = "open" THEN booking[b].cart ELSE Nothing]

\* Where the handlers do not interleave, creating and cancelling bookings is seen
\* from outside as the calendar's two steps.
ImplementsCalendar == Calendar!Spec
=============================================================================
