------------------------------- MODULE MCControl -------------------------------
(***************************************************************************)
(* The instances of Control that TLC checks: language servers on one       *)
(* project, one on another, two runs of the command line.                  *)
(***************************************************************************)
EXTENDS Control

CONSTANTS old, new, other, first, second, here, there

MCHome == [s \in Servers |-> IF s = other THEN there ELSE here]
MCAsks == [c \in Clients |-> IF c = first THEN "toggle" ELSE "open"]
MCTarget == [c \in Clients |-> here]

MCWrites == [s \in Servers |-> "runtime"]
MCReads == [c \in Clients |-> <<"runtime", "temp">>]
=============================================================================
