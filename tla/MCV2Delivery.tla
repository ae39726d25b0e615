---------------------------- MODULE MCV2Delivery ----------------------------
(* V2Delivery on a small instance for TLC. *)
EXTENDS V2Delivery
=============================================================================
