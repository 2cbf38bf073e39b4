------------------------------ MODULE Searches ------------------------------
(***************************************************************************)
(* What the searches for bookings and for contracts find while bookings    *)
(* and their contracts change.  Both go by the booking's status, kind and  *)
(* days; contracts are also found by the vehicles they have and had, which *)
(* they know from their snapshots.                                         *)
(***************************************************************************)
EXTENDS Integers, Sequences, FiniteSets, SequencesExt

CONSTANTS
    Vehicles,
    Days,
    MaxBookings,    \* bound: bookings
    MaxChanges      \* bound: changes of vehicles and days

VARIABLES
    bookings,       \* a sequence of [status, kind, start, vehicle]
    contracts,      \* for each booking whether it has a contract, and its snapshots
    changes,        \* (bounded by MaxChanges)
    drove,          \* for each booking the vehicles it has had under its contract
    unknown         \* ... those that a silent edit replaced or whose change was undone

vars == <<bookings, contracts, changes, drove, unknown>>

Whatever == "any"

Statuses == {"PENDIENTE", "APROBADO", "CANCELADO"}

Kinds == {"reserve", "rental"}

\* A service starts on a day, before or after seven in the evening.
Starts == [day : Days, evening : BOOLEAN]

Init ==
    /\ bookings = <<>>
    /\ contracts = <<>>
    /\ changes = 0
    /\ drove = <<>>
    /\ unknown = <<>>

-----------------------------------------------------------------------------
(***************************************************************************)
(* What happens to bookings and contracts.                                 *)
(***************************************************************************)

Book(status, kind, start, vehicle) ==
    /\ Len(bookings) < MaxBookings
    /\ bookings' = Append(bookings, [status |-> status, kind |-> kind,
                                     start |-> start, vehicle |-> vehicle])
    /\ contracts' = Append(contracts, [exists |-> FALSE, status |-> Whatever, snapshots |-> <<>>])
    /\ drove' = Append(drove, {})
    /\ unknown' = Append(unknown, {})
    /\ UNCHANGED changes

OpenContract(b) ==
    /\ ~contracts[b].exists
    /\ contracts' = [contracts EXCEPT ![b].exists = TRUE, ![b].status = bookings[b].status]
    /\ drove' = [drove EXCEPT ![b] = {bookings[b].vehicle}]
    /\ UNCHANGED <<bookings, changes, unknown>>

Approve(b) ==
    /\ bookings' = [bookings EXCEPT ![b].status = "APROBADO"]
    /\ contracts' = IF contracts[b].exists
                    THEN [contracts EXCEPT ![b].status = "APROBADO"] ELSE contracts
    /\ UNCHANGED <<changes, drove, unknown>>

\* Neither a cancellation nor the confirmation of a reservation tells the contract.
Cancel(b) ==
    /\ bookings' = [bookings EXCEPT ![b].status = "CANCELADO"]
    /\ UNCHANGED <<contracts, changes, drove, unknown>>

Confirm(b) ==
    /\ bookings[b].kind = "reserve"
    /\ bookings' = [bookings EXCEPT ![b].status = "APROBADO", ![b].kind = "rental"]
    /\ UNCHANGED <<contracts, changes, drove, unknown>>

Changed == changes < MaxChanges /\ changes' = changes + 1

\* ContractRepository.update with a cart: it keeps what was there before and after.
ChangeVehicle(b, start, vehicle) ==
    /\ Changed /\ contracts[b].exists
    /\ bookings' = [bookings EXCEPT ![b].start = start, ![b].vehicle = vehicle]
    /\ contracts' = [contracts EXCEPT ![b].snapshots =
           Append(@, [old |-> bookings[b].vehicle, new |-> vehicle, start |-> bookings[b].start])]
    /\ drove' = [drove EXCEPT ![b] = @ \cup {vehicle}]
    /\ UNCHANGED unknown

\* BookingService.update with a cart leaves no snapshot.
EditCart(b, start, vehicle) ==
    /\ Changed
    /\ bookings' = [bookings EXCEPT ![b].start = start, ![b].vehicle = vehicle]
    /\ drove' = IF contracts[b].exists THEN [drove EXCEPT ![b] = @ \cup {vehicle}] ELSE drove
    /\ unknown' = IF contracts[b].exists
                  THEN [unknown EXCEPT ![b] = @ \cup {bookings[b].vehicle}] ELSE unknown
    /\ UNCHANGED contracts

\* softDeleteHistoryEntry of the last change: the cart comes back and the snapshot goes.
UndoChange(b) ==
    /\ Changed /\ contracts[b].snapshots # <<>>
    /\ LET undone == Last(contracts[b].snapshots)
       IN  /\ bookings' = [bookings EXCEPT ![b].start = undone.start, ![b].vehicle = undone.old]
           /\ contracts' = [contracts EXCEPT ![b].snapshots = Front(@)]
           /\ unknown' = [unknown EXCEPT ![b] = @ \cup {undone.new, bookings[b].vehicle}]
    /\ UNCHANGED drove

-----------------------------------------------------------------------------
(***************************************************************************)
(* The searches.                                                           *)
(***************************************************************************)

\* The day of a start in the time zone of the company, and in UTC, five hours ahead.
LocalDay(start) == start.day
UtcDay(start) == IF start.evening THEN start.day + 1 ELSE start.day

Within(day, from, to) == from <= day /\ day <= to

\* BookingRepository.findAll
BookingsFound(status, kind, from, to) ==
    {b \in DOMAIN bookings :
        /\ status \in {Whatever, bookings[b].status}
        /\ kind \in {Whatever, bookings[b].kind}
        /\ Within(LocalDay(bookings[b].start), from, to)}

MutantMatches(b, status, kind) ==
    status \in {Whatever, contracts[b].status} /\ kind \in {Whatever, bookings[b].kind}

\* ContractRepository.findAll: status and kind are the booking's, whatever the contract has.
Matches(b, status, kind) ==
    status \in {Whatever, bookings[b].status} /\ kind \in {Whatever, bookings[b].kind}

\* ... by the days on which services start
StartsWithin(b, from, to) == Within(UtcDay(bookings[b].start), from, to)

ContractsFound(status, kind, from, to) ==
    {b \in DOMAIN bookings :
        contracts[b].exists /\ Matches(b, status, kind) /\ StartsWithin(b, from, to)}

MutantSnapshotVehicles(b) ==
    IF contracts[b].snapshots = <<>> THEN {} ELSE {Last(contracts[b].snapshots).old}

SnapshotVehicles(b) == UNION {{s.old, s.new} : s \in ToSet(contracts[b].snapshots)}

\* ... by a vehicle: in the cart, or in a change.  (The search by the name of a service does
\* the same, and goes through the other services of the cart, too.)
FoundByVehicle(vehicle) ==
    {b \in DOMAIN bookings :
        contracts[b].exists /\ (vehicle = bookings[b].vehicle \/ vehicle \in SnapshotVehicles(b))}

Next ==
    \/ \E status \in {"PENDIENTE", "APROBADO"}, kind \in Kinds, start \in Starts, vehicle \in Vehicles :
          Book(status, kind, start, vehicle)
    \/ \E b \in DOMAIN bookings :
          \/ OpenContract(b) \/ Approve(b) \/ Cancel(b) \/ Confirm(b)
          \/ \E start \in Starts, vehicle \in Vehicles :
                ChangeVehicle(b, start, vehicle) \/ EditCart(b, start, vehicle)
          \/ UndoChange(b)

Spec == Init /\ [][Next]_vars

-----------------------------------------------------------------------------
(***************************************************************************)
(* What is true of every state (for the proof of the second property).     *)
(***************************************************************************)

Snapshot == [old : Vehicles, new : Vehicles, start : Starts]

Booking == [status : Statuses, kind : Kinds, start : Starts, vehicle : Vehicles]

Contract == [exists : BOOLEAN, status : Statuses \cup {Whatever}, snapshots : Seq(Snapshot)]

TypeOK ==
    /\ bookings \in Seq(Booking)
    /\ contracts \in Seq(Contract)
    /\ drove \in Seq(SUBSET Vehicles)
    /\ unknown \in Seq(SUBSET Vehicles)
    /\ Len(contracts) = Len(bookings) /\ Len(drove) = Len(bookings)
    /\ Len(unknown) = Len(bookings)

\* What is known of a booking: nothing without a contract; with one, vehicles that it has
\* had, and all of them that no silent edit and no undoing has taken from sight.
Known(b) == {bookings[b].vehicle} \cup SnapshotVehicles(b)

KnowledgeHolds ==
    \A b \in DOMAIN bookings :
        IF contracts[b].exists
        THEN Known(b) \subseteq drove[b] /\ drove[b] \subseteq Known(b) \cup unknown[b]
        ELSE drove[b] = {} /\ contracts[b].snapshots = <<>>

-----------------------------------------------------------------------------
(***************************************************************************)
(* Properties.                                                             *)
(***************************************************************************)

\* The search for contracts finds those whose bookings the search for bookings finds, by any
\* status, kind and days, through approvals, cancellations and changes of either; but for
\* services in the evening, which the one counts to the day after.
SearchesAgree ==
    \A status \in Statuses \cup {Whatever}, kind \in Kinds \cup {Whatever}, from, to \in Days :
        \A b \in DOMAIN bookings :
            contracts[b].exists /\ ~bookings[b].start.evening =>
                (b \in BookingsFound(status, kind, from, to)
                    <=> b \in ContractsFound(status, kind, from, to))

\* A contract is found by every vehicle it has had, however often it was changed, and by no
\* other; but for vehicles that a silent edit replaced or whose change was undone.
FoundByAllItsVehicles ==
    \A vehicle \in Vehicles, b \in DOMAIN bookings :
        /\ vehicle \in drove[b] \ unknown[b] => b \in FoundByVehicle(vehicle)
        /\ b \in FoundByVehicle(vehicle) => vehicle \in drove[b]
=============================================================================
