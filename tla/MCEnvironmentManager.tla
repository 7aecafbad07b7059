----------------------- MODULE MCEnvironmentManager -----------------------
(* The environments as TLC checks them; the constants are in the cfg. *)
EXTENDS EnvironmentManager, TLC
===========================================================================
