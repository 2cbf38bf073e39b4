-------------------------- MODULE MCContractTimeline --------------------------
(* A contract for one of two vehicles and one of two periods. *)
EXTENDS ContractTimeline

MCVehicles == {"v1", "v2"}

Short   == <<[vehicle |-> "v1", dates |-> 1]>>
Longer  == <<[vehicle |-> "v1", dates |-> 2]>>
Changed == <<[vehicle |-> "v2", dates |-> 2]>>

MCCarts == {Short}

Body(event, amount, cart) ==
    [extensionReason |-> event = Extension, event |-> event, paid |-> amount # 0,
     amount |-> amount, newEnd |-> event = Extension, cart |-> cart,
     approved |-> amount # 0, confirmed |-> FALSE, seller |-> event = Extension]

MCUpdates ==
    {Body(Extension, 3, Longer), Body(VehicleChange, 1, Changed),
     Body(NoEvent, 0, Longer), Body(Delivery, 2, NoCart),
     [Body(Fuel, 1, NoCart) EXCEPT !.confirmed = TRUE],
     [Body(Extension, 3, NoCart) EXCEPT !.approved = FALSE]}

MCReports ==
    {[event |-> Fuel, amount |-> -1, method |-> TRUE, vehicle |-> "v1"],
     [event |-> VehicleChange, amount |-> 0, method |-> FALSE, vehicle |-> "none"]}
=============================================================================
