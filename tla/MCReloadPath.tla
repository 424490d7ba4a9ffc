---------------------------- MODULE MCReloadPath ----------------------------
(***************************************************************************)
(* The instance of ReloadPath that TLC checks: a document, a sheet that    *)
(* another pulls in by an @import, one that is linked and has a quote in   *)
(* its name, an image in a srcset, and an image that only a sheet refers   *)
(* to, whose path is the end of the other one's.                           *)
(***************************************************************************)
EXTENDS ReloadPath

CONSTANTS html, import, quoted, image, background

MCMatched == [f \in {import, quoted, image, background} |->
                CASE f = import -> {}
                  [] f = quoted -> {quoted}
                  [] f \in {image, background} -> {image}]
=============================================================================
