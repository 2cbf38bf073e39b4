------------------------ MODULE MCVehicleReservations ------------------------
(***************************************************************************)
(* Small instances of VehicleReservations.  Four moments make intervals    *)
(* that are equal, nested, adjacent and overlapping; with a unit of five   *)
(* minutes ReleaseTolerance is 1 and EditTolerance is 0.                   *)
(***************************************************************************)
EXTENDS VehicleReservations, TLC

const_FourTimes == 0 .. 3
const_ThreeTimes == 0 .. 2
const_TwoTimes == 0 .. 1

const_Symmetry == Permutations(Vehicles) \cup Permutations(Bookings)
=============================================================================
