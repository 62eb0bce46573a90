-------------------------------- MODULE Futures --------------------------------
(***************************************************************************)
(* What a caller of FPGAClientInterface may rely on: a register access it   *)
(* issued stays open until it is given the answer of that very access, or   *)
(* is given up; neither is ever revised.                                    *)
(***************************************************************************)
CONSTANT Serials   \* identities of the accesses, in the order they are issued

VARIABLE outcome   \* what has become of each access

Outcomes == {"unissued", "open", "answered", "failed"}

Init == outcome = [s \in Serials |-> "unissued"]

Issue(s) ==
  /\ outcome[s] = "unissued"
  /\ outcome' = [outcome EXCEPT ![s] = "open"]

Answer(s) ==
  /\ outcome[s] = "open"
  /\ outcome' = [outcome EXCEPT ![s] = "answered"]

\* A time-out gives up every access that is waiting.
GiveUp(S) ==
  /\ \A s \in S : outcome[s] = "open"
  /\ outcome' = [s \in Serials |-> IF s \in S THEN "failed" ELSE outcome[s]]

Next == (\E s \in Serials : Issue(s) \/ Answer(s)) \/ (\E S \in SUBSET Serials : GiveUp(S))

Spec == Init /\ [][Next]_outcome
===============================================================================
