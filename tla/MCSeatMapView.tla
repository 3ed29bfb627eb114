---------------------------- MODULE MCSeatMapView ----------------------------
(* Symmetry for model checking SeatMapView. *)
EXTENDS SeatMapView, TLC

Symmetric == Permutations(Seats)
=============================================================================
