--------------------------------- MODULE MCBus ---------------------------------
(* Instance of Bus for TLC. *)
EXTENDS Bus

\* A packet of each kind; offset 121 leaves three of the six bytes of a header for
\* a second transfer; 512 is a length with a carry that gets lost, 5000 is illegal.
FromTheBus ==
  {[kind |-> "noop", len |-> 20, offset |-> 0],
   [kind |-> "standalone", len |-> 20, offset |-> 0],
   [kind |-> "standalone", len |-> 20, offset |-> 121],
   [kind |-> "standalone", len |-> 512, offset |-> 0],
   [kind |-> "first", len |-> 20, offset |-> 0],
   [kind |-> "rest", len |-> 5000, offset |-> 0]}

\* Data in one small packet, in one of the largest size, in more than one.
TelemetryLens == {30, 4082, 5000}
===============================================================================
