-------------------------------- MODULE PatFpga --------------------------------
(***************************************************************************)
(* How the PAT process commands hardware through the FPGA service:          *)
(* laserOn, laserOff (pat/main.cpp), FSM::fsmWrite, FSM::resetFSM           *)
(* (pat/fsm.cpp) and the check functions of pat/packetdef.cpp.              *)
(*                                                                          *)
(* A call sends a request, looks at a bounded number of answers and poll    *)
(* time-outs for one with its register and request number, and goes on to   *)
(* its next request or returns.  Requests and answers travel in order.      *)
(***************************************************************************)
EXTENDS Integers, Sequences

CONSTANTS
  Attempts,     \* MAX_FPGA_RESPONSE_ATTEMPTS (100)
  NumberMod,    \* fsm_request_number is counted modulo this (0xFF)
  LaserNumbers, \* request numbers laserOn and laserOff are called with (0 .. 2)
  MaxRequests,  \* bound: a call begins only before that many requests were sent
  MaxLate,      \* bound: ... and while at most that many are not answered
  MaxKills      \* bound on how often PAT is killed

ASSUME AttemptsAssumption == Attempts \in Nat \ {0}
ASSUME NumbersAssumption == NumberMod \in Nat \ {0} /\ 0 \in LaserNumbers
                              /\ LaserNumbers \subseteq Nat
ASSUME BoundsAssumption == MaxRequests \in Nat /\ MaxLate \in Nat /\ MaxKills \in Nat

\* The registers that switch something.  Two other channels are "FSM", for the three of
\* the mirror's DAC, and "OTHER", for what PAT only reads: the temperature and the free
\* running counter.
Switches == {"HEATER", "CALIB", "LD_BIAS"}

VARIABLES
  call,       \* "laserOn", "laserOff", "fsmWrite", "query", or "idle"
  step,       \* the check it waits in
  number,     \* request number of the call
  attempts,   \* passes of the check's loop that are left
  serial,     \* of the request last sent
  value,      \* what the call that has just returned gave, else FALSE
  fsmNumber,  \* fsm_request_number
  pid,        \* the process, 0 for the first one
  life,       \* starting (the camera is not open yet), running, closing (the two calls
              \* after the main loop), ended, or quit, which is to end while starting
  register,   \* the FPGA's registers that switch a function: is it on?
  requests,   \* on their way to the service
  answers,    \* on their way to PAT
  disturbed   \* a request was lost in a restart of the service or an SPI
              \* transfer failed (history)

process == <<call, step, number, attempts, serial, value, fsmNumber, pid, life>>
vars == <<process, register, requests, answers, disturbed>>

Init ==
  /\ call = "idle" /\ step = "idle" /\ number = 0 /\ attempts = 0
  /\ serial = 0 /\ value = FALSE
  /\ fsmNumber = 0 /\ pid = 0 /\ life = "starting"
  /\ register \in {r \in [Switches -> BOOLEAN] : r["CALIB"] => r["HEATER"]}
  /\ requests = <<>> /\ answers = <<>>
  /\ disturbed = FALSE

-------------------------------------------------------------------------------
(* The calls. *)

\* send_packet_fpga_map_request, and the check that listens for its answer.
Send(write, channel, on, n, check) ==
  LET r == [from |-> pid, serial |-> serial + 1, write |-> write, channel |-> channel,
            on |-> on, number |-> n]
  IN  /\ requests' = Append(requests, r)
      /\ serial' = serial + 1
      /\ step' = check
      /\ attempts' = Attempts

\* The register that must be on before the one the call is about.
Enabler(c) == IF c = "laserOn" THEN "HEATER" ELSE "LD_BIAS"

\* The register the call is about.
Target(c) == CASE c = "fsmWrite" -> "FSM" [] c = "query" -> "OTHER" [] OTHER -> "CALIB"

SendTarget(c, n) ==
  Send(TRUE, Target(c), c # "laserOff", n, "write")

\* The bounds; a call sends at most three requests.  The end needs no room.
Room == serial < MaxRequests /\ Len(requests) + Len(answers) <= MaxLate

\* Assumption on the surroundings: no mirror write is so late that the request
\* number has gone all the way round meanwhile (a round takes two requests each).
InFlight == {requests[i] : i \in DOMAIN requests} \cup {answers[i].to : i \in DOMAIN answers}

WithinWindow == \A r \in InFlight :
  r.from = pid /\ r.channel = "FSM" => serial + 1 < r.serial + 2 * NumberMod - 1

Begin(c, n) ==
  /\ call = "idle" /\ life \notin {"ended", "quit"}
  /\ call' = c /\ number' = n
  /\ CASE c = "laserOff" -> SendTarget(c, n)
       [] c = "query"    -> Send(FALSE, Target(c), FALSE, n, "query")
       [] OTHER          -> Send(FALSE, Enabler(c), FALSE, n, "read")
  /\ value' = FALSE
  /\ UNCHANGED <<fsmNumber, pid, register, answers, disturbed>>

LaserOn == life = "running" /\ Room /\ (\E n \in LaserNumbers : Begin("laserOn", n)) /\ UNCHANGED life

LaserOff == life = "running" /\ Room /\ (\E n \in LaserNumbers : Begin("laserOff", n)) /\ UNCHANGED life

FsmWrite ==
  life # "starting" /\ Room /\ WithinWindow /\ Begin("fsmWrite", fsmNumber) /\ UNCHANGED life

\* check_fpga_comms, also for a self test while starting, and get_temperature.
Query == life \in {"starting", "running"} /\ Room /\ Begin("query", 0) /\ UNCHANGED life

\* The end of the loop that opens the camera: it is open, or static pointing goes on
\* without it, or CMD_END_PROCESS and Ctrl-C exit there, and nothing is switched off.
LeaveCameraLoop ==
  /\ life = "starting" /\ call = "idle"
  /\ life' \in {"running", "quit"}
  /\ UNCHANGED <<call, step, number, attempts, serial, value, fsmNumber, pid,
                 register, requests, answers, disturbed>>

CloseWithLaserOn ==  \* faulty: the laser is not switched off on the way out
  /\ life = "running" /\ call = "idle" /\ life' = "closing"
  /\ UNCHANGED <<call, step, number, attempts, serial, value, fsmNumber, pid,
                 register, requests, answers, disturbed>>

\* The end of main: laserOff, its result only logged ...
Close == life = "running" /\ Begin("laserOff", 0) /\ life' = "closing"

\* ... then resetFSM: setNormalizedAngles(0,0), a number of FsmWrites, and LD
\* bias off, without listening for the answer.
ResetFSM ==
  /\ life = "closing" /\ call = "idle"
  /\ Send(TRUE, "LD_BIAS", FALSE, fsmNumber, "idle")
  /\ fsmNumber' = (fsmNumber + 1) % NumberMod
  /\ life' = "ended"
  /\ UNCHANGED <<call, number, value, pid, register, answers, disturbed>>

-------------------------------------------------------------------------------
(* The checks. *)

\* The register whose answer the check listens for.
Awaited == IF step \in {"read", "enable"} THEN Enabler(call) ELSE Target(call)

\* check_fpga_map_write_request, check_fpga_map_value and check_fpga_comms do not
\* look at the answer's read/write flag, only the second looks at its data.
Accepts(a) ==
  /\ a.to.channel = Awaited
  /\ a.to.number = number
  /\ step = "read" => a.on

\* fpga_answer_write_packet_struct declares the combined flag, whose bit 1 is the
\* error, as a bool: what "combined_flag & 0x02" gives is up to the compiler.
ErrorSeen(a) == {FALSE, a.error}

NumberStuck(ok) ==  \* faulty: the number advances only after a success
  IF call = "fsmWrite" /\ step = "write" /\ ok THEN (fsmNumber + 1) % NumberMod ELSE fsmNumber

\* fsmWrite counts its requests when it has sent the mirror's byte.
NumberAfter(ok) ==
  IF call = "fsmWrite" /\ step = "write" THEN (fsmNumber + 1) % NumberMod ELSE fsmNumber

Return(ok) ==
  /\ call' = "idle" /\ step' = "idle" /\ attempts' = 0
  /\ number' = 0
  /\ value' = ok
  /\ fsmNumber' = NumberAfter(ok)
  /\ UNCHANGED <<serial, requests>>

AfterCheckBlind(ok) ==  \* faulty: the enabling register is read, its value ignored
  IF step \in {"write", "query"} THEN Return(ok)
  ELSE SendTarget(call, number) /\ UNCHANGED <<call, number, value, fsmNumber>>

\* What the call does with the value of a check: if the enabling register is on
\* it writes its own, else it first switches that one on.
AfterCheck(ok) ==
  IF step \in {"write", "query"} \/ (step = "enable" /\ ~ok) THEN Return(ok)
  ELSE /\ IF ok THEN SendTarget(call, number)
          ELSE Send(TRUE, Enabler(call), TRUE, number, "enable")
       /\ UNCHANGED <<call, number, value, fsmNumber>>

WaitsForever ==  \* faulty: a pass of the loop that brings nothing is not counted
  UNCHANGED <<call, step, number, attempts, serial, value, fsmNumber, requests>>

\* A pass of the loop that brings nothing; the last one ends the check.
Miss ==
  IF attempts > 1
  THEN attempts' = attempts - 1
       /\ UNCHANGED <<call, step, number, serial, value, fsmNumber, requests>>
  ELSE AfterCheck(FALSE)

\* zmq::poll finds an answer.
Answered ==
  /\ step # "idle" /\ answers # <<>>
  /\ answers' = Tail(answers)
  /\ LET a == Head(answers) IN
       IF Accepts(a) THEN \E error \in ErrorSeen(a) : AfterCheck(~error) ELSE Miss
  /\ UNCHANGED <<pid, life, register, disturbed>>

\* zmq::poll returns after POLL_TIME_FPGA_RESPONSE with nothing.
PollTimeout ==
  /\ step # "idle" /\ answers = <<>>
  /\ Miss
  /\ UNCHANGED <<pid, life, register, answers, disturbed>>

\* Housekeeping restarts PAT, whatever it is doing: SIGTERM ends it on the spot.
\* A new process does not receive the answers to the old one, and finds the registers
\* as that one left them.
Kill ==
  /\ life \notin {"ended", "quit"} /\ pid < MaxKills
  /\ pid' = pid + 1
  /\ call' = "idle" /\ step' = "idle" /\ number' = 0 /\ attempts' = 0
  /\ value' = FALSE
  /\ fsmNumber' = 0 /\ life' = "starting"
  /\ answers' = <<>>
  /\ UNCHANGED <<serial, register, requests, disturbed>>

-------------------------------------------------------------------------------
(* The service and the rest of the payload. *)

\* What the SPI transfer shifts out; it matters for the registers that are checked.
ShiftedOut(r, error) ==
  IF r.channel \in {"CALIB", "FSM", "OTHER"} THEN {FALSE}
  ELSE IF error \/ r.write THEN BOOLEAN ELSE {register[r.channel]}

\* fpga.py hands one request to the FPGA and answers it.  After a failed transfer
\* a write may or may not have happened.
Serve ==
  /\ requests # <<>>
  /\ requests' = Tail(requests)
  /\ LET r == Head(requests) IN
       \E error \in BOOLEAN :
         /\ \E on \in ShiftedOut(r, error) :
              answers' = IF r.from = pid
                         THEN Append(answers, [to |-> r, on |-> on, error |-> error])
                         ELSE answers
         /\ \/ register' = [s \in Switches |-> IF r.write /\ s = r.channel THEN r.on ELSE register[s]]
            \/ error /\ UNCHANGED register
         /\ disturbed' = (disturbed \/ error)
  /\ UNCHANGED process

\* The service restarts; the FPGA keeps its registers.
Restart ==
  /\ requests # <<>>
  /\ requests' = <<>>
  /\ disturbed' = TRUE
  /\ UNCHANGED <<process, register, answers>>

\* At the end of a downlink a command handler switches the LD bias off.
OtherBiasOff ==
  /\ register["LD_BIAS"]
  /\ register' = [register EXCEPT !["LD_BIAS"] = FALSE]
  /\ UNCHANGED <<process, requests, answers, disturbed>>

PatStep == Answered \/ PollTimeout

Next ==
  \/ LeaveCameraLoop \/ LaserOn \/ LaserOff \/ FsmWrite \/ Query \/ Close \/ ResetFSM \/ Kill
  \/ PatStep \/ Serve \/ Restart \/ OtherBiasOff

Spec == Init /\ [][Next]_vars

-------------------------------------------------------------------------------
(* What PAT may rely on. *)

\* The calibration laser is never on with its heater off, although laserOn takes
\* late answers to earlier requests for its own: the order of the requests sees to
\* it, as long as none was lost and no SPI transfer failed.
LaserNeedsHeater == ~disturbed => (register["CALIB"] => register["HEATER"])

\* A mirror write is acknowledged by its own answer only, although answers may be
\* late: this is what fsm_request_number is for.
FsmOwnAck ==
  [][call = "fsmWrite" /\ step = "write" /\ value'
       => Head(answers).to.serial = serial]_vars

\* However the last calls went, a process that comes to the end of main leaves laser and
\* LD bias off once the service has worked off the requests, unless a request was lost or
\* failed.  One that quits while starting is not promised to.
EndsDark ==
  life = "ended" /\ requests = <<>> /\ ~disturbed
    => ~register["CALIB"] /\ ~register["LD_BIAS"]

\* Every call returns, also when the service is silent or only late answers come:
\* each pass uses up some of what is left to the call, and nothing gives it back.
Left ==
  attempts + (Attempts + 1) * (CASE step = "read" -> 3 [] step = "enable" -> 2
                                 [] step = "idle" -> 0 [] OTHER -> 1)

CallReturns ==
  [][(PatStep => Left' < Left) /\ (call # "idle" => Left' <= Left)]_vars

\* pat/main.cpp:101 "Check that message was received and FPGA was written to":
\* when laserOff has returned true, the laser is off.
OffMeansOff ==
  [][call = "laserOff" /\ value' => ~register["CALIB"]]_vars
===============================================================================
