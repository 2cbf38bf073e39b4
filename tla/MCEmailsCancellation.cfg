CONSTANTS
 Methods = {"Efectivo","Transferencia","Credito/Debito"}
 Langs = {"es"}
 Window = 1
 MaxRetries = 2
 Deposit = 1
 Total = 3
 MaxTime = 1
 MaxEvents = 2
 MaxRestarts = 1
SPECIFICATION Spec
INVARIANT CancellationTellsPaid
CHECK_DEADLOCK FALSE
