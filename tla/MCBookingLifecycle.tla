-------------------------- MODULE MCBookingLifecycle --------------------------
(***************************************************************************)
(* Small instances of BookingLifecycle: the deposit, the rest and the      *)
(* total are three different amounts.                                      *)
(***************************************************************************)
EXTENDS BookingLifecycle, TLC

const_AllMethods == AllMethods

const_Symmetry == Permutations(Requests)
=============================================================================
