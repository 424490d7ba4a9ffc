--------------------------- MODULE MCLiveChanges ----------------------------
(***************************************************************************)
(* The instance of LiveChanges that TLC checks: one document, in one of    *)
(* the two workspaces that share the overlay.                              *)
(***************************************************************************)
EXTENDS LiveChanges, TLC

CONSTANTS d1, s1, s2

MCOneHome == (d1 :> s1)
=============================================================================
