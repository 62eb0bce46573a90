--------------------------------- MODULE Mirror ---------------------------------
(***************************************************************************)
(* pat/fsm.cpp: the steering mirror behind its DAC.                         *)
(*                                                                          *)
(* Angles are set by four commands, one for each end of the two axes; the   *)
(* last one takes all four over.  A command is three bytes through the FPGA,*)
(* and FSM goes on whether or not they were acknowledged.  How the FPGA     *)
(* hands the bytes to the DAC is external: a command with a byte missing    *)
(* does nothing.                                                            *)
(***************************************************************************)
EXTENDS Integers

VARIABLES
  reached,   \* oldX, oldY: the angles that were set last
  input,     \* the DAC's input registers
  output,    \* its outputs, which hold the mirror
  unheard    \* commands of the last angles sent that were lost (history)

mirrorVars == <<reached, input, output, unheard>>

Ends == {"XP", "XM", "YP", "YM"}   \* DAC_ADDR_*, written in this order
Centre == <<0, 0>>

\* The bias is left out: the ends of an axis are driven apart from it.
Volts(a) == [XP |-> a[1], XM |-> -a[1], YP |-> a[2], YM |-> -a[2]]

\* The constructor's reset and setNormalizedAngles(0, 0), all of them heard.
MirrorInit ==
  /\ reached = Centre /\ input = Volts(Centre) /\ output = Volts(Centre)
  /\ unheard = {}

SentChanged(a) ==  \* faulty: an axis that stays is not written again
  {"YM"} \cup (IF a[1] # reached[1] THEN {"XP", "XM"} ELSE {})
         \cup (IF a[2] # reached[2] THEN {"YP"} ELSE {})

\* The commands that are sent for new angles: all four.
Sent(a) == Ends

\* setNormalizedAngles, where the commands in lost are not heard.
SetNormalizedAngles(a, lost) ==
  IF a = reached
  THEN UNCHANGED mirrorVars
  ELSE /\ reached' = a
       /\ input' = [e \in Ends |-> IF e \in Sent(a) \ lost THEN Volts(a)[e] ELSE input[e]]
       /\ output' = IF "YM" \in lost THEN output ELSE input'
       /\ unheard' = lost

\* A command that got lost does no lasting harm: once angles have been sent of which all
\* is heard, the mirror is where FSM believes it (setNormalizedAngles).
MirrorHeals == unheard = {} => output = Volts(reached)
===============================================================================
