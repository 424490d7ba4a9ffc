---------------------------- MODULE MCLiveServer ----------------------------
(***************************************************************************)
(* The instances of LiveServer that TLC checks.                            *)
(***************************************************************************)
EXTENDS LiveServer, TLC

\* A preferred port with room to scan, and "any port".
MCConfigs == {[port |-> 1, literal |-> TRUE], [port |-> 0, literal |-> FALSE]}

Symmetry == Permutations(Callers)
=============================================================================
