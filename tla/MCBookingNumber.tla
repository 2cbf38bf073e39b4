--------------------------- MODULE MCBookingNumber ---------------------------
(***************************************************************************)
(* Small instance of BookingNumber: four concurrent saves over a           *)
(* collection that holds an old number and the first one of the series.    *)
(***************************************************************************)
EXTENDS BookingNumber

const_Existing == {12, 7300}
=============================================================================
