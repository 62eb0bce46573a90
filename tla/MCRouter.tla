------------------------------- MODULE MCRouter -------------------------------
(* Instance of Router for TLC. *)
EXTENDS Router

CONSTANTS h0, h1

TwoHandlers == {h0, h1}
===============================================================================
