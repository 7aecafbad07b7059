------------------------ MODULE MCActionExecution ------------------------
(* Instances of the execution of actions for TLC. *)
EXTENDS ActionExecution, TLC

MCActions == {"a1", "a2"}
\* The actions share an output; its upload may be pending from the other one.
MCOutputs == ("a1" :> {"o1", "o2"}) @@ ("a2" :> {"o2"})
MCFailure == ("a1" :> "f1") @@ ("a2" :> "f2")
===========================================================================
