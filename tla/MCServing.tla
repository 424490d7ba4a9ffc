----------------------------- MODULE MCServing ------------------------------
(***************************************************************************)
(* The instances of Serving that TLC checks.                               *)
(***************************************************************************)
EXTENDS Serving

MCConfigs == {[port |-> 1, literal |-> FALSE]}
=============================================================================
