CONSTANTS
    Requests = {r1, r2}
    Methods <- const_AllMethods
    Total = 3
    Deposit = 1
    Operations = {"validate", "confirm", "cancel", "webhook", "userGone"}
    MaxCalls = 2
SPECIFICATION Spec
SYMMETRY const_Symmetry
INVARIANTS
    TypeOK
    ReserveMeansOwing
    NoDuplicatePayment
CHECK_DEADLOCK FALSE
