CONSTANTS
    Vehicles = {v1, v2}
    Bookings = {b1}
    Requests = {r1, r2}
    NoBooking = NoBooking
    Times <- const_ThreeTimes
    ReleaseTolerance = 1
    EditTolerance = 0
    Operations = {"web", "cancel", "update", "deleteVehicle", "editVehicle"}
    MaxChanges = 2
SPECIFICATION FairSpec
PROPERTIES
    CancellationTakesEffect
CHECK_DEADLOCK FALSE
