-------------------------- MODULE MCCacamAccessory --------------------------
(* Instances of CacamAccessory for TLC: the buses of the runs. *)
EXTENDS CacamAccessory

CONSTANTS phone, locked, webcam
=============================================================================
