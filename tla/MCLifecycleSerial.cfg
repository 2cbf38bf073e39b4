CONSTANTS
    Requests = {r1}
    Methods <- const_AllMethods
    Total = 3
    Deposit = 1
    Operations = {"validate", "webhook", "cancel"}
    MaxCalls = 3
SPECIFICATION Spec
INVARIANTS
    
    OneCommission
    ContractFollowsBooking
    CancelledIsNotPaid
CHECK_DEADLOCK FALSE
