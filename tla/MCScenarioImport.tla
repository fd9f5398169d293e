-------------------------- MODULE MCScenarioImport --------------------------
(* A scenario of two levels, the second one published. *)
EXTENDS ScenarioImport
MCScenario == <<"a", "b">>
=============================================================================
