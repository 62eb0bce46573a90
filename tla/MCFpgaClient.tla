----------------------------- MODULE MCFpgaClient -----------------------------
(* Instance of FpgaClient for TLC. *)
EXTENDS FpgaClient

CONSTANTS probe, unmapped

OneMapped == {probe}
OneUnmapped == {unmapped}
===============================================================================
