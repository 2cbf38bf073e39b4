CONSTANTS
    Vehicles = {v1, v2}
    Bookings = {b1, b2}
    Requests = {r1}
    NoBooking = NoBooking
    Times <- const_FourTimes
    ReleaseTolerance = 1
    EditTolerance = 0
    Operations = {"web", "manual", "cancel", "update"}
    MaxChanges = 0
SPECIFICATION Spec
SYMMETRY const_Symmetry
INVARIANTS
    NoDoubleBooking
    CartVehiclesReserved
    CancelledHoldsNothing
PROPERTIES
    ReleaseSparesOthers
    ImplementsCalendar
CHECK_DEADLOCK FALSE
