------------------------------- MODULE MCReads -------------------------------
(* Model checking Reads with the constants of MCBooking. *)
EXTENDS Reads, MCBooking
=============================================================================
