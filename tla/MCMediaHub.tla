------------------------------ MODULE MCMediaHub ------------------------------
(* MediaHub on a small instance: two streams of one device.                 *)
EXTENDS MediaHub
=============================================================================
