---------------------------- MODULE RentalCalendar ----------------------------
(***************************************************************************)
(* What the booking backend promises its customers about vehicles: at any  *)
(* moment no vehicle is promised to two open bookings for overlapping      *)
(* dates.  A booking is opened in one step, with all the vehicles of its   *)
(* cart, and only when every one of them is free for its dates; it is      *)
(* cancelled once, and then holds nothing.                                 *)
(***************************************************************************)
EXTENDS Integers

CONSTANTS Vehicles, Bookings, Dates

VARIABLES
    status,   \* of each booking: none, open or cancelled
    holds     \* what each booking holds: its vehicles, each with its dates

\* Two periods share a moment; dates are half open.
Overlap(i, j) == i.start < j.end /\ j.start < i.end

Holdings == UNION {[vs -> Dates] : vs \in SUBSET Vehicles}

NoVehicles == [v \in {} |-> {}]

Compatible(h, g) ==
    \A v \in DOMAIN h \cap DOMAIN g : ~Overlap(h[v], g[v])

Init ==
    /\ status = [b \in Bookings |-> "none"]
    /\ holds = [b \in Bookings |-> NoVehicles]

Book(b, h) ==
    /\ status[b] = "none"
    /\ \A c \in Bookings : Compatible(h, holds[c])
    /\ status' = [status EXCEPT ![b] = "open"]
    /\ holds' = [holds EXCEPT ![b] = h]

Cancel(b) ==
    /\ status[b] = "open"
    /\ status' = [status EXCEPT ![b] = "cancelled"]
    /\ holds' = [holds EXCEPT ![b] = NoVehicles]

Next ==
    \E b \in Bookings : Cancel(b) \/ \E h \in Holdings : Book(b, h)

Spec == Init /\ [][Next]_<<status, holds>>

-----------------------------------------------------------------------------
\* The point of the calendar, which Spec keeps.
NoOverbooking ==
    \A b, c \in Bookings : b # c => Compatible(holds[b], holds[c])
=============================================================================
