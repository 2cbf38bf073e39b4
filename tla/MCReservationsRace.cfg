CONSTANTS
    Vehicles = {v1, v2}
    Bookings = {b1, b2}
    Requests = {r1, r2}
    NoBooking = NoBooking
    Times <- const_ThreeTimes
    ReleaseTolerance = 1
    EditTolerance = 0
    Operations = {"manual"}
    MaxChanges = 0
SPECIFICATION Spec
SYMMETRY const_Symmetry
INVARIANTS
    NoDoubleBooking
CHECK_DEADLOCK FALSE
