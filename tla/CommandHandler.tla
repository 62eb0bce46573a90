----------------------------- MODULE CommandHandler -----------------------------
(***************************************************************************)
(* commandhandler/commandhandler.py: the commands that concern PAT, in      *)
(* several handlers that share one PAT.                                     *)
(*                                                                          *)
(* A handler decides by the status it has read last, one message for every  *)
(* pass of its loop; while it is busy with a command, messages pile up.     *)
(* PAT is here what the handlers see of it (Pat models it): it publishes    *)
(* its status, and takes commands one by one in the order they come.        *)
(* The registers of laser, heater and amplifier are left out, and so are    *)
(* the commands that only set PAT's parameters.                             *)
(***************************************************************************)
EXTENDS Integers, Sequences

CONSTANTS
  Handlers,
  MaxCommands,   \* bound on the commands of the ground
  MaxInbox,      \* status messages a socket holds; more are dropped
  MaxKills       \* bound on the handlers that are killed in a command

ASSUME BoundsAssumption ==
  MaxCommands \in Nat /\ MaxInbox \in Nat \ {0} /\ MaxKills \in Nat

VARIABLES
  pc,                \* where each handler is
  pat_status_flag,   \* the status it has read last
  inbox,             \* its status messages
  phase,             \* PAT: "camera init", "standby", "job" or "main"
  orders,            \* commands on their way to PAT
  entered,           \* PAT is in main for CMD_PL_ENTER_PAT_MAIN (history)
  cut,               \* a handler was killed in CMD_PL_DWNLINK_MODE (history)
  commands, kills

handlerVars == <<pc, pat_status_flag, inbox>>
patVars == <<phase, entered>>
bounds == <<commands, kills>>
vars == <<handlerVars, patVars, orders, cut, bounds>>

\* The four standby statuses are one here: these commands are for each of them, and only
\* the kind of START depends on which it is.
Status == CASE phase = "camera init" -> "CAMERA_INIT"
            [] phase = "main" -> "MAIN"
            [] OTHER -> "STANDBY"

Init ==
  /\ pc = [h \in Handlers |-> "status"]
  /\ pat_status_flag = [h \in Handlers |-> "none"]
  /\ inbox = [h \in Handlers |-> <<>>]
  /\ phase = "camera init" /\ entered = FALSE
  /\ orders = <<>> /\ cut = FALSE
  /\ commands = 0 /\ kills = 0

Goto(h, next) == pc' = [pc EXCEPT ![h] = next]
Send(order) == orders' = Append(orders, order)

-------------------------------------------------------------------------------
(* PAT, as main.cpp has it: it publishes between commands, not during a job. *)

Publish ==
  /\ phase # "job"
  /\ inbox' = [h \in Handlers |->
                 IF Len(inbox[h]) < MaxInbox THEN Append(inbox[h], Status) ELSE inbox[h]]
  /\ UNCHANGED <<pc, pat_status_flag, patVars, orders, cut, bounds>>

CameraFound ==
  /\ phase = "camera init" /\ phase' = "standby"
  /\ UNCHANGED <<handlerVars, entered, orders, cut, bounds>>

\* A command is taken; what does not belong to the phase is thrown away.
TakeOrder ==
  /\ phase # "job" /\ orders # <<>>
  /\ orders' = Tail(orders)
  /\ LET order == Head(orders)
     IN /\ phase' = CASE phase = "standby" /\ order = "TEST" -> "job"
                      [] phase = "standby" /\ order \in {"START", "DOWNLINK START"} -> "main"
                      [] phase = "main" /\ order = "END_PAT" -> "standby"
                      [] OTHER -> phase
        /\ entered' = (phase' = "main" /\ (entered \/ (phase = "standby" /\ order = "START")))
  /\ UNCHANGED <<handlerVars, cut, bounds>>

JobEnds ==
  /\ phase = "job" /\ phase' = "standby"
  /\ UNCHANGED <<handlerVars, entered, orders, cut, bounds>>

-------------------------------------------------------------------------------
(* The handlers' loop. *)

InitialStatusOnly(h) ==  \* faulty: the flag is only ever initialized
  /\ pc[h] = "status"
  /\ IF inbox[h] = <<>> \/ pat_status_flag[h] # "none"
     THEN UNCHANGED <<inbox, pat_status_flag>>
     ELSE /\ pat_status_flag' = [pat_status_flag EXCEPT ![h] = Head(inbox[h])]
          /\ inbox' = [inbox EXCEPT ![h] = Tail(@)]
  /\ Goto(h, "request")
  /\ UNCHANGED <<patVars, orders, cut, bounds>>

\* update_pat_status: one message, if there is one.
UpdatePatStatus(h) ==
  /\ pc[h] = "status"
  /\ IF inbox[h] = <<>>
     THEN UNCHANGED <<inbox, pat_status_flag>>
     ELSE /\ pat_status_flag' = [pat_status_flag EXCEPT ![h] = Head(inbox[h])]
          /\ inbox' = [inbox EXCEPT ![h] = Tail(@)]
  /\ Goto(h, "request")
  /\ UNCHANGED <<patVars, orders, cut, bounds>>

\* poll_request, in vain.
NoRequest(h) ==
  /\ pc[h] = "request" /\ Goto(h, "status")
  /\ UNCHANGED <<pat_status_flag, inbox, patVars, orders, cut, bounds>>

PatStatusIs(h, S) == pat_status_flag[h] \in S

Request(h, next) ==
  /\ pc[h] = "request" /\ commands < MaxCommands
  /\ commands' = commands + 1
  /\ Goto(h, next)
  /\ UNCHANGED <<pat_status_flag, inbox, patVars, cut, kills>>

Refused(h) == Request(h, "status") /\ UNCHANGED orders

\* CMD_PL_CALIB_LASER_TEST, CMD_PL_FSM_TEST, CMD_PL_RUN_CALIBRATION, and
\* CMD_PL_SELF_TEST with PAT_SELF_TEST, which is for the camera loop too.
Test(h) ==
  IF PatStatusIs(h, {"STANDBY", "CAMERA_INIT"})
  THEN Request(h, "status") /\ Send("TEST")
  ELSE Refused(h)

EnterPatMain(h) ==
  IF PatStatusIs(h, {"STANDBY"})
  THEN Request(h, "status") /\ Send("START")
  ELSE Refused(h)

ExitPatMain(h) ==
  IF PatStatusIs(h, {"MAIN"})
  THEN Request(h, "status") /\ Send("END_PAT")
  ELSE Refused(h)

-------------------------------------------------------------------------------
(* CMD_PL_DWNLINK_MODE. *)

\* After minutes of heating and tests, the status read before them decides whether PAT
\* is tested and started.
DwnlinkMode(h) == Request(h, "heat") /\ UNCHANGED orders

SelfTest(h) ==
  /\ pc[h] = "heat"
  /\ IF PatStatusIs(h, {"STANDBY"})
     THEN Send("TEST") /\ Goto(h, "wait")
     ELSE UNCHANGED orders /\ Goto(h, "transmit")
  /\ UNCHANGED <<pat_status_flag, inbox, patVars, cut, bounds>>

\* PAT is started when the time for its test is over, whatever has become of it.
EnterMain(h) ==
  /\ pc[h] = "wait"
  /\ Send("DOWNLINK START") /\ Goto(h, "transmit")
  /\ UNCHANGED <<pat_status_flag, inbox, patVars, cut, bounds>>

ResetPatInMain(h) ==  \* faulty: END_PAT only for a PAT in MAIN, as in ExitPatMain
  /\ pc[h] = "transmit"
  /\ IF PatStatusIs(h, {"MAIN"}) THEN Send("END_PAT") ELSE UNCHANGED orders
  /\ Goto(h, "status")
  /\ UNCHANGED <<pat_status_flag, inbox, patVars, cut, bounds>>

ResetPat(h) ==
  /\ pc[h] = "transmit"
  /\ Send("END_PAT") /\ Goto(h, "status")
  /\ UNCHANGED <<pat_status_flag, inbox, patVars, cut, bounds>>

\* Housekeeping kills a handler; the new one begins without messages.
Kill(h) ==
  /\ pc[h] \notin {"status", "request"} /\ kills < MaxKills
  /\ kills' = kills + 1
  /\ Goto(h, "status")
  /\ pat_status_flag' = [pat_status_flag EXCEPT ![h] = "none"]
  /\ inbox' = [inbox EXCEPT ![h] = <<>>]
  /\ cut' = (cut \/ pc[h] = "transmit")
  /\ UNCHANGED <<patVars, orders, commands>>

-------------------------------------------------------------------------------
Pass(h) ==
  \/ UpdatePatStatus(h) \/ NoRequest(h)
  \/ SelfTest(h) \/ EnterMain(h) \/ ResetPat(h)

Ground(h) == Test(h) \/ EnterPatMain(h) \/ ExitPatMain(h) \/ DwnlinkMode(h)

Pat == CameraFound \/ TakeOrder \/ JobEnds

Next == Publish \/ Pat \/ \E h \in Handlers : Pass(h) \/ Ground(h) \/ Kill(h)

\* PAT and the handlers keep going, and no camera fails for good.
Spec ==
  /\ Init /\ [][Next]_vars
  /\ WF_vars(Publish) /\ WF_vars(Pat)
  /\ \A h \in Handlers : WF_vars(Pass(h))

-------------------------------------------------------------------------------
\* A downlink's session does not outlive it: PAT is in MAIN because the ground has asked
\* for it, or a downlink is under way or its END_PAT on its way, or a handler was killed in
\* a downlink (CMD_PL_DWNLINK_MODE, the main loop of main.cpp).
MainIsWanted ==
  phase = "main" => \/ entered \/ cut
                    \/ \E h \in Handlers : pc[h] = "transmit"
                    \/ \E i \in 1..Len(orders) : orders[i] = "END_PAT"

\* However many messages have piled up, every handler knows PAT's status again and again
\* (update_pat_status).
StatusCatchesUp == \A h \in Handlers : []<>(pat_status_flag[h] = Status)
===============================================================================
