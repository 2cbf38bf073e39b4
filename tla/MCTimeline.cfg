CONSTANTS
    Vehicles <- MCVehicles
    Dates = {1, 2}
    Carts <- MCCarts
    Updates <- MCUpdates
    Reports <- MCReports
    Total = 10
    DeliveryCost = 2
    Handlers = {h1, h2}
    Operations = {"update", "report", "delete", "deleteMovement", "restore", "restoreMovement", "abort", "fault"}
    MaxRequests = 4
SPECIFICATION Spec
INVARIANTS CartFollowsTimeline    ReservationsFollowCart
PROPERTIES DeletionIsWhole
CHECK_DEADLOCK FALSE
