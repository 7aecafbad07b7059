----------------------- MODULE MCCircularStateStore -----------------------
(* Instance of the circular state store for TLC. *)
EXTENDS CircularStateStore
===========================================================================
