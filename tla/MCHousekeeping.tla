---------------------------- MODULE MCHousekeeping ----------------------------
(* Instance of Housekeeping for TLC. *)
EXTENDS Housekeeping

CONSTANTS h0, h1

TwoHandlers == {h0, h1}
AllOrNone == {{}, Enables}
===============================================================================
