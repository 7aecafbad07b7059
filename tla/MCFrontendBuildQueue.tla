----------------------- MODULE MCFrontendBuildQueue -----------------------
(* Instances of the frontend's build queue for TLC. *)
EXTENDS FrontendBuildQueue

\* Two schedulers; an instance name with a separator in it; an unknown one.
MCBackends == {"a", "b"}
MCInstanceNames == {<<"a">>, <<"b">>, <<"a", "b">>, <<"x">>}
MCJobs == {"u1", "u2"}
===========================================================================
