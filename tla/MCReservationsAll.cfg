CONSTANTS
    Vehicles = {v1, v2}
    Bookings = {b1}
    Requests = {r1, r2}
    NoBooking = NoBooking
    Times <- const_TwoTimes
    ReleaseTolerance = 1
    EditTolerance = 0
    Operations = {"web", "manual", "admin", "cancel", "update", "editBooking", "contract", "vehicleChange", "editVehicle", "prices", "deleteVehicle", "userGone", "abort"}
    MaxChanges = 3
SPECIFICATION Spec
SYMMETRY const_Symmetry
INVARIANTS
    TypeOK
    EntriesHaveBookings
CHECK_DEADLOCK FALSE
