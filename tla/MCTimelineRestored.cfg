CONSTANTS
    Vehicles <- MCVehicles
    Dates = {1, 2}
    Carts <- MCCarts
    Updates <- MCUpdates
    Reports <- MCReports
    Total = 10
    DeliveryCost = 2
    Handlers = {h1}
    Operations = {"update", "delete"}
    MaxRequests = 2
SPECIFICATION Spec
INVARIANT ReservationsRestored
CHECK_DEADLOCK FALSE
