------------------------------- MODULE LossyQueue -------------------------------
(***************************************************************************)
(* What a user of bus/driver may rely on although nothing locks its list:   *)
(* a packet may be lost, but none is sent that was not written, twice, or   *)
(* after a later one.                                                       *)
(***************************************************************************)
EXTENDS Integers, Sequences

VARIABLES
  puts,   \* packets written so far; they are numbered in this order
  air,    \* the packet in a transfer, or 0
  out     \* what was sent

vars == <<puts, air, out>>

Init == puts = 0 /\ air = 0 /\ out = <<>>

Put == puts' = puts + 1 /\ UNCHANGED <<air, out>>

\* A later packet than any before; those passed over are lost.
Take ==
  /\ air = 0
  /\ air' \in 1 .. puts
  /\ \A i \in 1 .. Len(out) : out[i] < air'
  /\ UNCHANGED <<puts, out>>

Sent ==
  /\ air # 0 /\ air' = 0
  /\ out' = Append(out, air)
  /\ UNCHANGED puts

Next == Put \/ Take \/ Sent

Spec == Init /\ [][Next]_vars
===============================================================================
