----------------------------- MODULE PatFpgaProofs -----------------------------
(***************************************************************************)
(* Proofs about PatFpga for every number of attempts, requests, late        *)
(* answers and restarts of PAT: what the order of the requests and the      *)
(* request numbers give.                                                    *)
(*                                                                          *)
(* LaserNeedsHeater is not inductive: a request that switches the laser on  *)
(* may still be on its way, but then one that switches the heater on is     *)
(* before it (HeaterFirst), unless an answer has shown the heater on.       *)
(* EndsDark has the same form: WillBeOff says what the registers will be    *)
(* when the service has worked off the requests.  For FsmOwnAck, Spaced     *)
(* measures how far the request number has moved on since each mirror write *)
(* still on its way, against the requests sent meanwhile.                   *)
(***************************************************************************)
EXTENDS PatFpga, TLAPS

Channels == Switches \cup {"FSM", "OTHER"}
Requests ==
  [from : Nat, serial : Nat, write : BOOLEAN, channel : Channels, on : BOOLEAN, number : Nat]
Answers == [to : Requests, on : BOOLEAN, error : BOOLEAN]

Steps(c) ==
  CASE c = "idle" -> {"idle"}
    [] c = "laserOff" -> {"write"}
    [] c = "query" -> {"query"}
    [] OTHER -> {"read", "enable", "write"}

TypeOK ==
  /\ call \in {"laserOn", "laserOff", "fsmWrite", "query", "idle"}
  /\ step \in Steps(call)
  /\ number \in Nat /\ serial \in Nat
  /\ attempts \in 0 .. Attempts
  /\ step # "idle" => attempts > 0
  /\ value \in BOOLEAN /\ disturbed \in BOOLEAN
  /\ call # "idle" => ~value
  /\ fsmNumber \in 0 .. NumberMod - 1 /\ pid \in Nat
  /\ life \in {"starting", "running", "closing", "ended", "quit"}
  /\ life \in {"ended", "quit"} => call = "idle"
  /\ life = "starting" => call \in {"query", "idle"}
  /\ life = "closing" => call \in {"laserOff", "fsmWrite", "idle"}
  /\ register \in [Switches -> BOOLEAN]
  /\ requests \in Seq(Requests)
  /\ answers \in Seq(Answers)

-------------------------------------------------------------------------------
(* Laser and heater. *)

TurnsOn(r, s) == r.write /\ r.channel = s /\ r.on
TurnsOff(r, s) == r.write /\ r.channel = s /\ ~r.on

\* The heater is never switched off, and an answer that shows it on does so rightly.
HeaterStays ==
  /\ \A i \in 1 .. Len(requests) : ~TurnsOff(requests[i], "HEATER")
  /\ ~disturbed =>
       \A i \in 1 .. Len(answers) :
         /\ answers[i].to.channel = "HEATER"
         /\ answers[i].on
         => register["HEATER"]

\* The heater is on, or will be before the request at place k is served.
HeatedBefore(k) ==
  \/ register["HEATER"]
  \/ \E j \in 1 .. k - 1 : TurnsOn(requests[j], "HEATER")

\* It is on, or will be before whatever is sent now.
HeatedSoon ==
  register["HEATER"] \/ \E j \in 1 .. Len(requests) : TurnsOn(requests[j], "HEATER")

HeaterFirst ==
  ~disturbed =>
    /\ \A i \in 1 .. Len(requests) : TurnsOn(requests[i], "CALIB") => HeatedBefore(i)
    /\ call = "laserOn" /\ step = "enable" => HeatedSoon

Heated == HeaterStays /\ HeaterFirst /\ LaserNeedsHeater

-------------------------------------------------------------------------------
(* The end of the process. *)

\* What the requests on their way leave s at.
WillBeOff(s) ==
  \/ /\ ~register[s]
     /\ \A i \in 1 .. Len(requests) : ~TurnsOn(requests[i], s)
  \/ \E i \in 1 .. Len(requests) :
       /\ TurnsOff(requests[i], s)
       /\ \A j \in i + 1 .. Len(requests) : ~TurnsOn(requests[j], s)

Dark ==
  ~disturbed => /\ life \in {"closing", "ended"} => WillBeOff("CALIB")
                /\ life = "ended" => WillBeOff("LD_BIAS")

-------------------------------------------------------------------------------
(* The numbers of the mirror writes. *)

\* A mirror write of this process that is on its way, or its answer.
Late(r) ==
  /\ r.from = pid /\ r.channel = "FSM"
  /\ \/ \E i \in 1 .. Len(requests) : requests[i] = r
     \/ \E i \in 1 .. Len(answers) : answers[i].to = r

\* The write fsmWrite is waiting for.
Own(r) == call = "fsmWrite" /\ step = "write" /\ r.serial = serial

\* By how much fsm_request_number has moved on since, at least one.
Behind(r) == fsmNumber - r.number + (IF fsmNumber > r.number THEN 0 ELSE NumberMod)

\* Every time it moves on, two requests at least have been sent.
Sent == IF call # "fsmWrite" THEN 2 ELSE IF step = "write" THEN 0 ELSE 1

Apart(r) ==
  /\ r.serial <= serial /\ r.number < NumberMod
  /\ Own(r) => r.number = number
  /\ ~Own(r) => /\ r.serial + 2 * Behind(r) <= serial + Sent
                /\ call = "fsmWrite" => r.number # fsmNumber

Spaced == life # "ended" => \A r \in Requests : Late(r) => Apart(r)

OwnAnswers == \A i \in 1 .. Len(answers) : answers[i].to.from = pid

Numbered ==
  /\ OwnAnswers
  /\ \A i \in 1 .. Len(requests) : requests[i].from <= pid
  /\ call = "fsmWrite" => number = fsmNumber
  /\ Spaced

IInv == TypeOK /\ Heated /\ Dark /\ Numbered

-------------------------------------------------------------------------------
(* What the steps do. *)

\* A request is appended to the ones on their way.
LEMMA Appended ==
  ASSUME TypeOK, NEW r \in Requests, requests' = Append(requests, r)
  PROVE  /\ requests' \in Seq(Requests)
         /\ Len(requests) \in Nat /\ Len(requests') = Len(requests) + 1
         /\ requests'[Len(requests) + 1] = r
         /\ \A i \in 1 .. Len(requests) : requests'[i] = requests[i] /\ requests[i] \in Requests
BY DEF TypeOK

\* One is taken from the front.
LEMMA Shortened ==
  ASSUME TypeOK, requests # <<>>, requests' = Tail(requests)
  PROVE  /\ requests' \in Seq(Requests)
         /\ Len(requests) \in Nat \ {0} /\ Len(requests') = Len(requests) - 1
         /\ Head(requests) = requests[1] /\ Head(requests) \in Requests
         /\ \A i \in 1 .. Len(requests') : requests'[i] = requests[i + 1]
BY DEF TypeOK

\* The answers that are left are answers that were there.
Fewer == \A i \in 1 .. Len(answers') : \E j \in 1 .. Len(answers) : answers'[i] = answers[j]

\* A request that is sent is a request.
LEMMA SendTyped ==
  ASSUME TypeOK, NEW w \in BOOLEAN, NEW ch \in Channels, NEW on \in BOOLEAN, NEW n \in Nat,
         NEW check, Send(w, ch, on, n, check)
  PROVE  /\ \E r \in Requests :
              /\ requests' = Append(requests, r)
              /\ r.from = pid /\ r.serial = serial + 1 /\ r.write = w /\ r.channel = ch
              /\ r.on = on /\ r.number = n
         /\ serial' = serial + 1 /\ step' = check /\ attempts' = Attempts
<1> DEFINE r == [from |-> pid, serial |-> serial + 1, write |-> w, channel |-> ch,
                 on |-> on, number |-> n]
<1>1. r \in Requests BY DEF TypeOK, Requests
<1>2. requests' = Append(requests, r) /\ serial' = serial + 1 /\ step' = check
      /\ attempts' = Attempts
  BY DEF Send
<1> QED BY <1>1, <1>2

\* A pass of the loop that is not the last.
Passes ==
  /\ attempts > 1 /\ attempts' = attempts - 1
  /\ UNCHANGED <<call, step, number, serial, value, fsmNumber, requests>>

\* An answer that the check takes for its own.
Taken == answers # <<>> /\ Accepts(Head(answers))

Returns ==
  /\ step \in {"write", "query", "enable"}
  /\ Return(FALSE) \/ (Return(TRUE) /\ Taken)

\* The enabling register is on, or has been switched on: the call's own is written.
GoesOn ==
  /\ step \in {"read", "enable"} /\ Taken
  /\ SendTarget(call, number) /\ UNCHANGED <<call, number, value, fsmNumber>>

Enables ==
  /\ step = "read"
  /\ Send(TRUE, Enabler(call), TRUE, number, "enable")
  /\ UNCHANGED <<call, number, value, fsmNumber>>

\* These are the ways a pass may end.
LEMMA PatStepCases ==
  ASSUME TypeOK, PatStep
  PROVE  /\ Passes \/ Returns \/ GoesOn \/ Enables
         /\ step # "idle"
         /\ UNCHANGED <<pid, life, register, disturbed>>
         /\ answers' = answers \/ (answers # <<>> /\ answers' = Tail(answers))
<1>1. step \in {"read", "enable", "write", "query"}
  BY DEF TypeOK, Steps, PatStep, Answered, PollTimeout
<1>2. AfterCheck(FALSE) => Returns \/ Enables
  BY <1>1 DEF AfterCheck, Returns, Enables
<1>3. Taken /\ AfterCheck(TRUE) => Returns \/ GoesOn
  BY <1>1 DEF AfterCheck, Returns, GoesOn
<1>4. Miss => Passes \/ Returns \/ Enables
  BY <1>2 DEF Miss, Passes, TypeOK
<1>5. CASE Answered
  <2>1. CASE Accepts(Head(answers))
    <3>1. \E error \in BOOLEAN : AfterCheck(~error)
      <4>1. Head(answers) \in Answers BY <1>5 DEF Answered, TypeOK
      <4>2. Head(answers).error \in BOOLEAN BY <4>1 DEF Answers
      <4> QED BY <1>5, <2>1, <4>2 DEF Answered, ErrorSeen
    <3>2. AfterCheck(TRUE) \/ AfterCheck(FALSE) BY <3>1
    <3> QED BY <1>2, <1>3, <1>5, <2>1, <3>2 DEF Answered, Taken
  <2>2. CASE ~Accepts(Head(answers)) BY <1>4, <1>5, <2>2 DEF Answered
  <2> QED BY <2>1, <2>2
<1>6. CASE PollTimeout BY <1>4, <1>6 DEF PollTimeout
<1> QED BY <1>5, <1>6 DEF PatStep

\* Taking an answer leaves answers that were there.
LEMMA FewerLeft ==
  ASSUME TypeOK, answers' = answers \/ (answers # <<>> /\ answers' = Tail(answers))
  PROVE  Fewer /\ answers' \in Seq(Answers)
<1>1. CASE answers' = answers BY <1>1 DEF Fewer, TypeOK
<1>2. CASE answers # <<>> /\ answers' = Tail(answers)
  <2>1. /\ answers' \in Seq(Answers) /\ Len(answers) \in Nat \ {0}
        /\ Len(answers') = Len(answers) - 1
        /\ \A i \in 1 .. Len(answers') : answers'[i] = answers[i + 1]
    BY <1>2 DEF TypeOK
  <2>2. \A i \in 1 .. Len(answers') : i + 1 \in 1 .. Len(answers) BY <2>1
  <2> QED BY <2>1, <2>2 DEF Fewer
<1> QED BY <1>1, <1>2

\* What a call that begins sends first.
LEMMA BeginSends ==
  ASSUME TypeOK, NEW c \in {"laserOn", "laserOff", "fsmWrite", "query"}, NEW n \in Nat, Begin(c, n)
  PROVE  /\ call = "idle" /\ life \notin {"ended", "quit"} /\ call' = c /\ number' = n /\ value' = FALSE
         /\ UNCHANGED <<fsmNumber, pid, register, answers, disturbed>>
         /\ \E r \in Requests :
              /\ requests' = Append(requests, r)
              /\ r.from = pid /\ r.serial = serial + 1 /\ r.channel # "FSM" /\ ~r.on
              /\ c = "laserOff" => r.write /\ r.channel = "CALIB"
              /\ c # "laserOff" => ~r.write
         /\ serial' = serial + 1 /\ attempts' = Attempts
         /\ step' = IF c = "laserOff" THEN "write" ELSE IF c = "query" THEN "query" ELSE "read"
<1>1. /\ call = "idle" /\ life \notin {"ended", "quit"} /\ call' = c /\ number' = n /\ value' = FALSE
      /\ UNCHANGED <<fsmNumber, pid, register, answers, disturbed>>
  BY DEF Begin
<1>2. CASE c = "laserOff"
  <2>1. Send(TRUE, "CALIB", FALSE, n, "write") BY <1>2 DEF Begin, SendTarget, Target
  <2>2. /\ \E r \in Requests :
             /\ requests' = Append(requests, r)
             /\ r.from = pid /\ r.serial = serial + 1 /\ r.write = TRUE /\ r.channel = "CALIB"
             /\ r.on = FALSE /\ r.number = n
        /\ serial' = serial + 1 /\ step' = "write" /\ attempts' = Attempts
    BY <2>1, SendTyped DEF Channels, Switches
  <2> QED BY <1>1, <1>2, <2>2
<1>3. CASE c = "query"
  <2>1. Send(FALSE, "OTHER", FALSE, n, "query") BY <1>3 DEF Begin, Target
  <2>2. /\ \E r \in Requests :
             /\ requests' = Append(requests, r)
             /\ r.from = pid /\ r.serial = serial + 1 /\ r.write = FALSE /\ r.channel = "OTHER"
             /\ r.on = FALSE /\ r.number = n
        /\ serial' = serial + 1 /\ step' = "query" /\ attempts' = Attempts
    BY <2>1, SendTyped DEF Channels, Switches
  <2> QED BY <1>1, <1>3, <2>2
<1>4. CASE c \in {"laserOn", "fsmWrite"}
  <2>1. PICK ch \in {"HEATER", "LD_BIAS"} : Send(FALSE, ch, FALSE, n, "read")
    BY <1>4 DEF Begin, Enabler
  <2>2. /\ \E r \in Requests :
             /\ requests' = Append(requests, r)
             /\ r.from = pid /\ r.serial = serial + 1 /\ r.write = FALSE /\ r.channel = ch
             /\ r.on = FALSE /\ r.number = n
        /\ serial' = serial + 1 /\ step' = "read" /\ attempts' = Attempts
    BY <2>1, SendTyped DEF Channels, Switches
  <2> QED BY <1>1, <1>4, <2>2
<1> QED BY <1>2, <1>3, <1>4

\* What a call sends later.
LEMMA GoesOnSends ==
  ASSUME TypeOK, GoesOn
  PROVE  /\ call \in {"laserOn", "fsmWrite"}
         /\ \E r \in Requests :
              /\ requests' = Append(requests, r)
              /\ r.from = pid /\ r.serial = serial + 1 /\ r.write /\ r.on /\ r.number = number
              /\ r.channel = IF call = "laserOn" THEN "CALIB" ELSE "FSM"
         /\ serial' = serial + 1 /\ step' = "write" /\ attempts' = Attempts
<1>1. call \in {"laserOn", "fsmWrite"} BY DEF GoesOn, TypeOK, Steps
<1> DEFINE ch == IF call = "laserOn" THEN "CALIB" ELSE "FSM"
<1>2. Send(TRUE, ch, TRUE, number, "write")
  BY <1>1 DEF GoesOn, SendTarget, Target
<1>3. ch \in Channels BY DEF Channels, Switches
<1> HIDE DEF ch
<1>4. /\ \E r \in Requests :
           /\ requests' = Append(requests, r)
           /\ r.from = pid /\ r.serial = serial + 1 /\ r.write = TRUE /\ r.channel = ch
           /\ r.on = TRUE /\ r.number = number
      /\ serial' = serial + 1 /\ step' = "write" /\ attempts' = Attempts
  BY <1>2, <1>3, SendTyped DEF TypeOK
<1> QED BY <1>1, <1>4 DEF ch

\* And if the enabling register is not seen on.
LEMMA EnablesSends ==
  ASSUME TypeOK, Enables
  PROVE  /\ call \in {"laserOn", "fsmWrite"}
         /\ \E r \in Requests :
              /\ requests' = Append(requests, r)
              /\ r.from = pid /\ r.serial = serial + 1 /\ r.write /\ r.on
              /\ r.channel = IF call = "laserOn" THEN "HEATER" ELSE "LD_BIAS"
         /\ serial' = serial + 1 /\ step' = "enable" /\ attempts' = Attempts
<1>1. call \in {"laserOn", "fsmWrite"} BY DEF Enables, TypeOK, Steps
<1> DEFINE ch == IF call = "laserOn" THEN "HEATER" ELSE "LD_BIAS"
<1>2. Send(TRUE, ch, TRUE, number, "enable")
  BY <1>1 DEF Enables, Enabler
<1>3. ch \in Channels BY DEF Channels, Switches
<1> HIDE DEF ch
<1>4. /\ \E r \in Requests :
           /\ requests' = Append(requests, r)
           /\ r.from = pid /\ r.serial = serial + 1 /\ r.write = TRUE /\ r.channel = ch
           /\ r.on = TRUE /\ r.number = number
      /\ serial' = serial + 1 /\ step' = "enable" /\ attempts' = Attempts
  BY <1>2, <1>3, SendTyped DEF TypeOK
<1> QED BY <1>1, <1>4 DEF ch

\* What the service does with a request and what its answer may show.
LEMMA ServeDoes ==
  ASSUME TypeOK, Serve
  PROVE  /\ requests # <<>> /\ requests' = Tail(requests) /\ UNCHANGED process
         /\ \E error \in BOOLEAN, on \in BOOLEAN :
              /\ \/ answers' = answers
                 \/ /\ Head(requests).from = pid
                    /\ answers' = Append(answers, [to |-> Head(requests), on |-> on,
                                                   error |-> error])
              /\ disturbed' = (disturbed \/ error)
              /\ \/ \A s \in Switches :
                      register'[s] = IF TurnsOn(Head(requests), s) THEN TRUE
                                     ELSE IF TurnsOff(Head(requests), s) THEN FALSE
                                     ELSE register[s]
                 \/ error /\ register' = register
              /\ Head(requests).channel = "HEATER" /\ on /\ ~error /\ ~Head(requests).write
                   => register["HEATER"]
         /\ register' \in [Switches -> BOOLEAN]
<1> DEFINE r == Head(requests)
<1>1. requests # <<>> /\ requests' = Tail(requests) /\ UNCHANGED process BY DEF Serve
<1>2. r \in Requests BY <1>1, Shortened
<1>3. r.write \in BOOLEAN /\ r.on \in BOOLEAN /\ r.channel \in Channels
  BY <1>2 DEF Requests
<1>4. PICK error \in BOOLEAN :
        /\ \E on \in ShiftedOut(r, error) :
             answers' = IF r.from = pid
                        THEN Append(answers, [to |-> r, on |-> on, error |-> error])
                        ELSE answers
        /\ \/ register' = [s \in Switches |->
                             IF r.write /\ s = r.channel THEN r.on ELSE register[s]]
           \/ error /\ UNCHANGED register
        /\ disturbed' = (disturbed \/ error)
  BY DEF Serve
<1>5. PICK on \in ShiftedOut(r, error) :
        answers' = IF r.from = pid
                   THEN Append(answers, [to |-> r, on |-> on, error |-> error])
                   ELSE answers
  BY <1>4
<1> HIDE DEF r
<1>6. /\ on \in BOOLEAN
      /\ r.channel = "HEATER" /\ on /\ ~error /\ ~r.write => register["HEATER"]
  BY <1>3, <1>5 DEF ShiftedOut, TypeOK, Channels, Switches
<1>7. \/ \A s \in Switches : register'[s] = IF TurnsOn(r, s) THEN TRUE
                                           ELSE IF TurnsOff(r, s) THEN FALSE
                                           ELSE register[s]
      \/ error /\ register' = register
  BY <1>3, <1>4 DEF TurnsOn, TurnsOff
<1>8. register' \in [Switches -> BOOLEAN]
  BY <1>3, <1>4 DEF TypeOK
<1> QED BY <1>1, <1>4, <1>5, <1>6, <1>7, <1>8 DEF r

-------------------------------------------------------------------------------
(* Types. *)

\* A number that is counted on stays in its range.
LEMMA CountedOn ==
  ASSUME TypeOK
  PROVE  /\ (fsmNumber + 1) % NumberMod \in 0 .. NumberMod - 1
         /\ (fsmNumber + 1) % NumberMod =
              IF fsmNumber + 1 = NumberMod THEN 0 ELSE fsmNumber + 1
<1>1. /\ NumberMod \in Nat \ {0} /\ fsmNumber + 1 \in 1 .. NumberMod
  BY NumbersAssumption DEF TypeOK
<1>2. CASE fsmNumber + 1 = NumberMod BY <1>1, <1>2
<1>3. CASE fsmNumber + 1 < NumberMod BY <1>1, <1>3
<1> QED BY <1>1, <1>2, <1>3

\* The last request of a process.
LEMMA ResetSends ==
  ASSUME TypeOK, ResetFSM
  PROVE  /\ life = "closing" /\ call = "idle"
         /\ life' = "ended" /\ step' = "idle" /\ attempts' = Attempts /\ serial' = serial + 1
         /\ UNCHANGED <<call, number, value, pid, register, answers, disturbed>>
         /\ fsmNumber' \in 0 .. NumberMod - 1
         /\ \E r \in Requests :
              /\ requests' = Append(requests, r)
              /\ r.from = pid /\ r.serial = serial + 1 /\ r.channel = "LD_BIAS"
              /\ r.write /\ ~r.on
<1> DEFINE r == [from |-> pid, serial |-> serial + 1, write |-> TRUE, channel |-> "LD_BIAS",
                 on |-> FALSE, number |-> fsmNumber]
<1>1. r \in Requests BY NumbersAssumption DEF TypeOK, Requests, Channels, Switches
<1>2. /\ requests' = Append(requests, r) /\ serial' = serial + 1 /\ step' = "idle"
      /\ attempts' = Attempts
  BY DEF ResetFSM, Send
<1>3. /\ life = "closing" /\ call = "idle" /\ life' = "ended"
      /\ UNCHANGED <<call, number, value, pid, register, answers, disturbed>>
  BY DEF ResetFSM
<1>4. fsmNumber' \in 0 .. NumberMod - 1 BY CountedOn DEF ResetFSM
<1> QED BY <1>1, <1>2, <1>3, <1>4

\* Types hold at the start.
LEMMA InitTyped == Init => TypeOK
<1> SUFFICES ASSUME Init PROVE TypeOK
  OBVIOUS
<1>1. step \in Steps(call) BY DEF Init, Steps
<1>2. fsmNumber \in 0 .. NumberMod - 1 /\ attempts \in 0 .. Attempts
  BY NumbersAssumption, AttemptsAssumption DEF Init
<1>3. /\ register \in [Switches -> BOOLEAN]
      /\ requests \in Seq(Requests) /\ answers \in Seq(Answers)
  BY DEF Init
<1>5. value \in BOOLEAN /\ disturbed \in BOOLEAN BY DEF Init
<1>4. /\ call = "idle" /\ step = "idle" /\ life = "starting" /\ number = 0 /\ serial = 0
      /\ pid = 0
  BY DEF Init
<1> QED BY <1>1, <1>2, <1>3, <1>4, <1>5 DEF TypeOK

\* A call that begins keeps the types.
LEMMA BeginTyped ==
  ASSUME TypeOK, NEW c \in {"laserOn", "laserOff", "fsmWrite", "query"}, NEW n \in Nat,
         Begin(c, n),
         \/ life' = life /\ (c = "query" => life # "closing")
            /\ (c # "query" => life # "starting") /\ (c = "laserOn" => life = "running")
         \/ c = "laserOff" /\ life' = "closing"
  PROVE  TypeOK'
<1>1. requests' \in Seq(Requests) BY BeginSends, Appended
<1>2. step' \in Steps(call)' /\ step' # "idle" BY BeginSends DEF Steps
<1>3. /\ call' = c /\ number' = n /\ value' = FALSE /\ life # "ended"
      /\ UNCHANGED <<fsmNumber, pid, register, answers, disturbed>>
      /\ serial' = serial + 1 /\ attempts' = Attempts
  BY BeginSends
<1>4. attempts' \in 0 .. Attempts /\ attempts' > 0 /\ serial' \in Nat
  BY <1>3, AttemptsAssumption DEF TypeOK
<1>5. value' \in BOOLEAN /\ disturbed' \in BOOLEAN BY <1>3 DEF TypeOK
<1>6. /\ life' \in {"starting", "running", "closing"}
      /\ life' = "closing" => call' \in {"laserOff", "fsmWrite", "idle"}
      /\ life' = "starting" => call' \in {"query", "idle"}
  <2>1. life \in {"starting", "running", "closing"} BY BeginSends DEF TypeOK
  <2> QED BY <1>3, <2>1
<1> QED BY <1>1, <1>2, <1>3, <1>4, <1>5, <1>6 DEF TypeOK

\* So does a pass of a check's loop.
LEMMA PatStepTyped ==
  ASSUME TypeOK, PatStep
  PROVE  TypeOK'
<1>1. /\ UNCHANGED <<pid, life, register, disturbed>> /\ answers' \in Seq(Answers)
  BY PatStepCases, FewerLeft
<1>2. CASE Passes
  <2>1. /\ attempts' \in 0 .. Attempts /\ attempts' > 0
        /\ UNCHANGED <<call, step, number, serial, value, fsmNumber, requests>>
    BY <1>2, AttemptsAssumption DEF Passes, TypeOK
  <2>2. step' \in Steps(call)' BY <2>1 DEF TypeOK, Steps
  <2>3. value' \in BOOLEAN /\ disturbed' \in BOOLEAN BY <1>1, <2>1 DEF TypeOK
  <2> QED BY <1>1, <2>1, <2>2, <2>3 DEF TypeOK
<1>3. CASE Returns
  <2>1. /\ call' = "idle" /\ step' = "idle" /\ attempts' = 0 /\ number' = 0
        /\ value' \in BOOLEAN /\ UNCHANGED <<serial, requests>>
        /\ fsmNumber' \in 0 .. NumberMod - 1
    BY <1>3, CountedOn DEF Returns, Return, NumberAfter, TypeOK
  <2> QED BY <1>1, <2>1, AttemptsAssumption DEF TypeOK, Steps
<1>4. CASE GoesOn
  <2>1. requests' \in Seq(Requests) BY <1>4, GoesOnSends, Appended
  <2>2. /\ call \in {"laserOn", "fsmWrite"} /\ serial' = serial + 1
        /\ step' \in {"enable", "write"} /\ attempts' = Attempts
    BY <1>4, GoesOnSends
  <2>3. UNCHANGED <<call, number, value, fsmNumber>> BY <1>4 DEF GoesOn
  <2>4. step' \in Steps(call') /\ step' # "idle" BY <2>2, <2>3 DEF Steps
  <2>5. attempts' \in 0 .. Attempts /\ attempts' > 0 /\ serial' \in Nat
    BY <2>2, AttemptsAssumption DEF TypeOK
  <2> QED BY <1>1, <2>1, <2>2, <2>3, <2>4, <2>5 DEF TypeOK
<1>5. CASE Enables
  <2>1. requests' \in Seq(Requests) BY <1>5, EnablesSends, Appended
  <2>2. /\ call \in {"laserOn", "fsmWrite"} /\ serial' = serial + 1
        /\ step' \in {"enable", "write"} /\ attempts' = Attempts
    BY <1>5, EnablesSends
  <2>3. UNCHANGED <<call, number, value, fsmNumber>> BY <1>5 DEF Enables
  <2>4. step' \in Steps(call') /\ step' # "idle" BY <2>2, <2>3 DEF Steps
  <2>5. attempts' \in 0 .. Attempts /\ attempts' > 0 /\ serial' \in Nat
    BY <2>2, AttemptsAssumption DEF TypeOK
  <2> QED BY <1>1, <2>1, <2>2, <2>3, <2>4, <2>5 DEF TypeOK
<1> QED BY <1>2, <1>3, <1>4, <1>5, PatStepCases

\* So do the service and the end of the process.
LEMMA ServeTyped == TypeOK /\ Serve => TypeOK'
<1> SUFFICES ASSUME TypeOK, Serve PROVE TypeOK'
  OBVIOUS
<1>1. /\ requests # <<>> /\ requests' = Tail(requests) /\ UNCHANGED process
      /\ register' \in [Switches -> BOOLEAN]
  BY ServeDoes
<1>2. requests' \in Seq(Requests) /\ Head(requests) \in Requests BY <1>1, Shortened
<1>3. answers' \in Seq(Answers) /\ disturbed' \in BOOLEAN
  <2>1. PICK error \in BOOLEAN, on \in BOOLEAN :
          /\ \/ answers' = answers
             \/ answers' = Append(answers, [to |-> Head(requests), on |-> on, error |-> error])
          /\ disturbed' = (disturbed \/ error)
    BY ServeDoes
  <2>2. [to |-> Head(requests), on |-> on, error |-> error] \in Answers
    BY <1>2 DEF Answers
  <2>3. answers \in Seq(Answers) /\ disturbed \in BOOLEAN BY DEF TypeOK
  <2>4. answers' \in Seq(Answers) BY <2>1, <2>2, <2>3
  <2>5. disturbed' \in BOOLEAN BY <2>1, <2>3
  <2> QED BY <2>4, <2>5
<1> QED BY <1>1, <1>2, <1>3 DEF TypeOK, process

\* Every step keeps the types.
LEMMA TypeStep == TypeOK /\ [Next]_vars => TypeOK'
<1> SUFFICES ASSUME TypeOK, [Next]_vars PROVE TypeOK'
  OBVIOUS
<1>1. CASE LaserOn \/ LaserOff
  BY <1>1, BeginTyped, NumbersAssumption DEF LaserOn, LaserOff
<1>2. CASE FsmWrite \/ Query \/ Close
  BY <1>2, BeginTyped DEF FsmWrite, Query, Close, TypeOK
<1>10. CASE LeaveCameraLoop
  <2>1. life' \in {"running", "quit"} /\ call = "idle" BY <1>10 DEF LeaveCameraLoop
  <2> QED BY <1>10, <2>1 DEF LeaveCameraLoop, TypeOK
<1>3. CASE ResetFSM
  <2>1. requests' \in Seq(Requests) BY <1>3, ResetSends, Appended
  <2>2. step' \in Steps(call)' BY <1>3, ResetSends DEF Steps
  <2>3. value' \in BOOLEAN /\ disturbed' \in BOOLEAN BY <1>3, ResetSends DEF TypeOK
  <2>4. /\ call = "idle" /\ life' = "ended" /\ step' = "idle"
        /\ UNCHANGED <<call, number, value, pid, register, answers>>
        /\ fsmNumber' \in 0 .. NumberMod - 1
    BY <1>3, ResetSends
  <2>5. attempts' \in 0 .. Attempts /\ serial' \in Nat
    <3>1. attempts' = Attempts /\ serial' = serial + 1 BY <1>3, ResetSends
    <3> QED BY <3>1, AttemptsAssumption DEF TypeOK
  <2> QED BY <2>1, <2>2, <2>3, <2>4, <2>5 DEF TypeOK
<1>4. CASE Kill
  <2>1. /\ call' = "idle" /\ step' = "idle" /\ step' \in Steps(call)'
        /\ 0 \in 0 .. NumberMod - 1 /\ 0 \in 0 .. Attempts
    BY <1>4, NumbersAssumption, AttemptsAssumption DEF Kill, Steps
  <2>2. /\ pid' = pid + 1 /\ number' = 0 /\ attempts' = 0 /\ fsmNumber' = 0
        /\ life' = "starting" /\ UNCHANGED <<serial, register, requests>>
    BY <1>4 DEF Kill
  <2>3. value' \in BOOLEAN /\ disturbed' \in BOOLEAN BY <1>4 DEF Kill, TypeOK
  <2>4. answers' \in Seq(Answers) BY <1>4 DEF Kill
  <2> QED BY <2>1, <2>2, <2>3, <2>4 DEF TypeOK
<1>5. CASE PatStep BY <1>5, PatStepTyped
<1>6. CASE Serve BY <1>6, ServeTyped
<1>7. CASE Restart BY <1>7 DEF Restart, process, TypeOK
<1>8. CASE OtherBiasOff BY <1>8 DEF OtherBiasOff, process, TypeOK
<1>9. CASE UNCHANGED vars BY <1>9 DEF vars, process, TypeOK
<1> QED BY <1>1, <1>2, <1>3, <1>4, <1>5, <1>6, <1>7, <1>8, <1>9, <1>10 DEF Next

-------------------------------------------------------------------------------
(* Laser and heater. *)

\* Sending a request keeps Heated, if it does not switch the heater off nor the
\* laser on too early.
LEMMA HeatedSend ==
  ASSUME TypeOK, Heated, NEW r \in Requests, requests' = Append(requests, r), Fewer,
         UNCHANGED <<register, disturbed>>,
         ~TurnsOff(r, "HEATER"),
         ~disturbed /\ TurnsOn(r, "CALIB") => HeatedSoon,
         call' = "laserOn" /\ step' = "enable" => TurnsOn(r, "HEATER")
  PROVE  Heated'
<1>1. /\ Len(requests) \in Nat /\ Len(requests') = Len(requests) + 1
      /\ requests'[Len(requests) + 1] = r
      /\ \A i \in 1 .. Len(requests) : requests'[i] = requests[i]
  BY Appended
<1>2. HeaterStays'
  <2>1. \A i \in 1 .. Len(requests') : i \in 1 .. Len(requests) \/ i = Len(requests) + 1
    BY <1>1
  <2>2. \A i \in 1 .. Len(requests') : ~TurnsOff(requests'[i], "HEATER")
    BY <1>1, <2>1 DEF Heated, HeaterStays
  <2>3. ~disturbed =>
          \A i \in 1 .. Len(answers') :
            answers'[i].to.channel = "HEATER" /\ answers'[i].on => register["HEATER"]
    BY DEF Heated, HeaterStays, Fewer
  <2> QED BY <2>2, <2>3 DEF HeaterStays
<1>3. HeaterFirst'
  <2> SUFFICES ASSUME ~disturbed PROVE HeaterFirst'
    BY DEF HeaterFirst
  <2>1. ASSUME NEW i \in 1 .. Len(requests'), TurnsOn(requests'[i], "CALIB")
        PROVE  HeatedBefore(i)'
    <3>1. CASE i \in 1 .. Len(requests)
      <4>1. HeatedBefore(i) BY <1>1, <2>1, <3>1 DEF Heated, HeaterFirst
      <4> QED BY <1>1, <3>1, <4>1 DEF HeatedBefore
    <3>2. CASE i = Len(requests) + 1
      <4>1. HeatedSoon BY <1>1, <2>1, <3>2
      <4> QED BY <1>1, <3>2, <4>1 DEF HeatedBefore, HeatedSoon
    <3> QED BY <1>1, <3>1, <3>2
  <2>2. call' = "laserOn" /\ step' = "enable" => HeatedSoon'
    BY <1>1 DEF HeatedSoon
  <2> QED BY <2>1, <2>2 DEF HeaterFirst
<1>4. LaserNeedsHeater' BY DEF Heated, LaserNeedsHeater
<1> QED BY <1>2, <1>3, <1>4 DEF Heated

\* So does a step that sends nothing and does not begin to wait for an enabler.
LEMMA HeatedQuiet ==
  ASSUME TypeOK, Heated, requests' = requests, Fewer,
         UNCHANGED disturbed,
         UNCHANGED <<register["CALIB"], register["HEATER"]>>,
         call' = "laserOn" /\ step' = "enable" => call = "laserOn" /\ step = "enable"
  PROVE  Heated'
<1>1. HeaterStays' BY DEF Heated, HeaterStays, Fewer
<1>2. \A k \in 1 .. Len(requests) : HeatedBefore(k) => HeatedBefore(k)'
  BY DEF HeatedBefore
<1>3. HeatedSoon => HeatedSoon' BY DEF HeatedSoon
<1>5. HeaterFirst' BY <1>2, <1>3 DEF Heated, HeaterFirst
<1>6. LaserNeedsHeater' BY DEF Heated, LaserNeedsHeater
<1> QED BY <1>1, <1>5, <1>6 DEF Heated

\* When the laser is switched on, the heater is: that request came first.
LEMMA HeatedServe == TypeOK /\ Heated /\ Serve => Heated'
<1> SUFFICES ASSUME TypeOK, Heated, Serve PROVE Heated'
  OBVIOUS
<1> DEFINE r == Head(requests)
<1>1. /\ requests # <<>> /\ requests' = Tail(requests) /\ UNCHANGED <<call, step>>
  BY ServeDoes DEF process
<1>2. PICK error \in BOOLEAN, on \in BOOLEAN :
        /\ \/ answers' = answers
           \/ answers' = Append(answers, [to |-> r, on |-> on, error |-> error])
        /\ disturbed' = (disturbed \/ error)
        /\ \/ \A s \in Switches :
                register'[s] = IF TurnsOn(r, s) THEN TRUE
                               ELSE IF TurnsOff(r, s) THEN FALSE
                               ELSE register[s]
           \/ error /\ register' = register
        /\ r.channel = "HEATER" /\ on /\ ~error /\ ~r.write => register["HEATER"]
  BY ServeDoes
<1>3. /\ Len(requests) \in Nat \ {0} /\ Len(requests') = Len(requests) - 1
      /\ r = requests[1] /\ r \in Requests
      /\ \A i \in 1 .. Len(requests') : requests'[i] = requests[i + 1]
  BY <1>1, Shortened
<1> HIDE DEF r
<1>4. /\ ~TurnsOff(r, "HEATER")
      /\ \A i \in 1 .. Len(requests') : ~TurnsOff(requests'[i], "HEATER")
  BY <1>3 DEF Heated, HeaterStays
<1>5. CASE disturbed'
  BY <1>4, <1>5 DEF Heated, HeaterStays, HeaterFirst, LaserNeedsHeater
<1>6. CASE ~disturbed'
  <2>1. /\ ~disturbed /\ ~error
        /\ register["HEATER"] => register'["HEATER"]
        /\ TurnsOn(r, "HEATER") => register'["HEATER"]
        /\ register'["CALIB"] => register["CALIB"] \/ TurnsOn(r, "CALIB")
    BY <1>2, <1>4, <1>6 DEF Switches
  <2>2. HeaterStays'
    <3> SUFFICES ASSUME NEW i \in 1 .. Len(answers'), answers'[i].to.channel = "HEATER",
                        answers'[i].on
                 PROVE  register'["HEATER"]
      BY <1>4 DEF HeaterStays
    <3>1. CASE i \in 1 .. Len(answers) /\ answers'[i] = answers[i]
      BY <2>1, <3>1 DEF Heated, HeaterStays
    <3>2. CASE answers'[i] = [to |-> r, on |-> on, error |-> error]
      <4>1. r.channel = "HEATER" /\ on BY <3>2
      <4>2. r.write => TurnsOn(r, "HEATER") BY <1>4, <4>1 DEF TurnsOn, TurnsOff
      <4> QED BY <1>2, <2>1, <4>1, <4>2
    <3>3. CASE answers' = Append(answers, [to |-> r, on |-> on, error |-> error])
      <4>1. \/ i \in 1 .. Len(answers) /\ answers'[i] = answers[i]
            \/ answers'[i] = [to |-> r, on |-> on, error |-> error]
        BY <3>3 DEF TypeOK
      <4> QED BY <3>1, <3>2, <4>1
    <3> QED BY <1>2, <3>1, <3>3
  <2>3. HeatedSoon => HeatedSoon'
    <3> SUFFICES ASSUME NEW j \in 1 .. Len(requests), TurnsOn(requests[j], "HEATER"),
                        ~register'["HEATER"]
                 PROVE  \E i \in 1 .. Len(requests') : TurnsOn(requests'[i], "HEATER")
      BY <2>1 DEF HeatedSoon
    <3>1. j # 1 BY <1>3, <2>1
    <3>2. j - 1 \in 1 .. Len(requests') /\ requests'[j - 1] = requests[j]
      BY <1>3, <3>1
    <3> QED BY <3>2
  <2>4. ASSUME NEW i \in 1 .. Len(requests'), TurnsOn(requests'[i], "CALIB")
        PROVE  HeatedBefore(i)'
    <3>1. i + 1 \in 1 .. Len(requests) /\ requests'[i] = requests[i + 1] BY <1>3
    <3>2. HeatedBefore(i + 1) BY <2>1, <2>4, <3>1 DEF Heated, HeaterFirst
    <3> SUFFICES ASSUME NEW j \in 1 .. i, TurnsOn(requests[j], "HEATER"),
                        ~register'["HEATER"]
                 PROVE  \E l \in 1 .. i - 1 : TurnsOn(requests'[l], "HEATER")
      BY <2>1, <3>2 DEF HeatedBefore
    <3>3. j # 1 BY <1>3, <2>1
    <3>4. j - 1 \in 1 .. i - 1 /\ requests'[j - 1] = requests[j]
      BY <1>3, <3>3
    <3> QED BY <3>4
  <2>5. HeaterFirst' BY <1>1, <2>1, <2>3, <2>4 DEF Heated, HeaterFirst
  <2>6. LaserNeedsHeater'
    <3>1. TurnsOn(r, "CALIB") => HeatedBefore(1) BY <1>3, <2>1 DEF Heated, HeaterFirst
    <3>2. HeatedBefore(1) => register["HEATER"] BY DEF HeatedBefore
    <3> QED BY <2>1, <3>1, <3>2 DEF Heated, LaserNeedsHeater
  <2> QED BY <2>2, <2>5, <2>6 DEF Heated
<1> QED BY <1>5, <1>6

\* Every step keeps Heated.
LEMMA HeatedStep == TypeOK /\ Heated /\ [Next]_vars => Heated'
<1> SUFFICES ASSUME TypeOK, Heated, [Next]_vars PROVE Heated'
  OBVIOUS
<1>1. ASSUME NEW c \in {"laserOn", "laserOff", "fsmWrite", "query"}, NEW n \in Nat, Begin(c, n)
      PROVE  Heated'
  <2>1. PICK r \in Requests :
          /\ requests' = Append(requests, r) /\ ~r.on
          /\ c = "laserOff" => r.write /\ r.channel = "CALIB"
          /\ c # "laserOff" => ~r.write
    BY <1>1, BeginSends
  <2>2. /\ UNCHANGED <<register, answers, disturbed>> /\ step' # "enable"
    BY <1>1, BeginSends
  <2>3. ~TurnsOff(r, "HEATER") /\ ~TurnsOn(r, "CALIB")
    BY <2>1 DEF TurnsOn, TurnsOff
  <2> QED BY <2>1, <2>2, <2>3, FewerLeft, HeatedSend
<1>2. CASE LaserOn \/ LaserOff \/ FsmWrite \/ Query \/ Close
  <2>1. fsmNumber \in Nat BY NumbersAssumption DEF TypeOK
  <2> QED BY <1>1, <1>2, <2>1, NumbersAssumption DEF LaserOn, LaserOff, FsmWrite, Query, Close
<1>3. CASE ResetFSM
  <2>1. PICK r \in Requests :
          requests' = Append(requests, r) /\ r.channel = "LD_BIAS"
    BY <1>3, ResetSends
  <2>2. UNCHANGED <<register, answers, disturbed>> /\ step' # "enable"
    BY <1>3, ResetSends
  <2>3. ~TurnsOff(r, "HEATER") /\ ~TurnsOn(r, "CALIB")
    BY <2>1 DEF TurnsOn, TurnsOff
  <2> QED BY <2>1, <2>2, <2>3, FewerLeft, HeatedSend
<1>4. CASE Kill BY <1>4, HeatedQuiet DEF Kill, Fewer
<1>5. CASE PatStep
  <2>1. Fewer /\ UNCHANGED <<register, disturbed>> BY <1>5, PatStepCases, FewerLeft
  <2>2. CASE Passes BY <2>1, <2>2, HeatedQuiet DEF Passes
  <2>3. CASE Returns BY <2>1, <2>3, HeatedQuiet DEF Returns, Return
  <2>4. CASE GoesOn
    <3>1. PICK r \in Requests :
            /\ requests' = Append(requests, r) /\ r.on
            /\ r.channel = IF call = "laserOn" THEN "CALIB" ELSE "FSM"
      BY <2>4, GoesOnSends
    <3>2. step' # "enable" BY <2>4, GoesOnSends
    <3>3. ~TurnsOff(r, "HEATER") BY <3>1 DEF TurnsOff
    <3>4. ~disturbed /\ TurnsOn(r, "CALIB") => HeatedSoon
      <4> SUFFICES ASSUME ~disturbed, TurnsOn(r, "CALIB") PROVE HeatedSoon
        OBVIOUS
      <4>1. call = "laserOn" BY <3>1 DEF TurnsOn
      <4>2. CASE step = "enable" BY <4>1, <4>2 DEF Heated, HeaterFirst
      <4>3. CASE step = "read"
        <5>1. answers # <<>> /\ Head(answers).to.channel = "HEATER" /\ Head(answers).on
          BY <2>4, <4>1, <4>3 DEF GoesOn, Taken, Accepts, Awaited, Enabler
        <5>2. 1 \in 1 .. Len(answers) /\ Head(answers) = answers[1] BY <5>1 DEF TypeOK
        <5> QED BY <5>1, <5>2 DEF Heated, HeaterStays, HeatedSoon
      <4> QED BY <2>4, <4>2, <4>3 DEF GoesOn
    <3> QED BY <2>1, <3>1, <3>2, <3>3, <3>4, HeatedSend
  <2>5. CASE Enables
    <3>1. PICK r \in Requests :
            /\ requests' = Append(requests, r) /\ r.write /\ r.on
            /\ r.channel = IF call = "laserOn" THEN "HEATER" ELSE "LD_BIAS"
      BY <2>5, EnablesSends
    <3>2. call' = call BY <2>5 DEF Enables
    <3>3. /\ ~TurnsOff(r, "HEATER") /\ ~TurnsOn(r, "CALIB")
          /\ call = "laserOn" => TurnsOn(r, "HEATER")
      BY <3>1 DEF TurnsOn, TurnsOff
    <3> QED BY <2>1, <3>1, <3>2, <3>3, HeatedSend
  <2> QED BY <1>5, <2>2, <2>3, <2>4, <2>5, PatStepCases
<1>6. CASE Serve BY <1>6, HeatedServe
<1>7. CASE Restart
  BY <1>7 DEF Restart, process, Heated, HeaterStays, HeaterFirst, LaserNeedsHeater
<1>8. CASE OtherBiasOff
  <2>1. UNCHANGED <<register["CALIB"], register["HEATER"]>>
    BY <1>8 DEF OtherBiasOff, TypeOK, Switches
  <2> QED BY <1>8, <2>1, FewerLeft, HeatedQuiet DEF OtherBiasOff, process
<1>9. CASE LeaveCameraLoop \/ UNCHANGED vars
  BY <1>9, FewerLeft, HeatedQuiet DEF LeaveCameraLoop, vars, process
<1> QED BY <1>2, <1>3, <1>4, <1>5, <1>6, <1>7, <1>8, <1>9 DEF Next

-------------------------------------------------------------------------------
(* The end of the process. *)

\* A request that does not switch s on leaves it off in the end; one that switches it
\* off makes sure of it.
LEMMA OffSend ==
  ASSUME TypeOK, NEW s \in Switches, NEW r \in Requests, requests' = Append(requests, r),
         UNCHANGED register, TurnsOff(r, s) \/ (WillBeOff(s) /\ ~TurnsOn(r, s))
  PROVE  WillBeOff(s)'
<1>1. /\ Len(requests) \in Nat /\ Len(requests') = Len(requests) + 1
      /\ requests'[Len(requests) + 1] = r
      /\ \A i \in 1 .. Len(requests) : requests'[i] = requests[i]
  BY Appended
<1>2. \A i \in 1 .. Len(requests') : i \in 1 .. Len(requests) \/ i = Len(requests) + 1
  BY <1>1
<1>3. CASE TurnsOff(r, s) BY <1>1, <1>3 DEF WillBeOff
<1>4. CASE ~TurnsOn(r, s) /\ ~register[s] /\ \A i \in 1 .. Len(requests) : ~TurnsOn(requests[i], s)
  BY <1>1, <1>2, <1>4 DEF WillBeOff
<1>5. ASSUME ~TurnsOn(r, s), NEW i \in 1 .. Len(requests), TurnsOff(requests[i], s),
             \A j \in i + 1 .. Len(requests) : ~TurnsOn(requests[j], s)
      PROVE  WillBeOff(s)'
  <2>1. \A j \in i + 1 .. Len(requests') : ~TurnsOn(requests'[j], s) BY <1>1, <1>5
  <2>2. i \in 1 .. Len(requests') /\ TurnsOff(requests'[i], s) BY <1>1, <1>5
  <2> QED BY <2>1, <2>2 DEF WillBeOff
<1> QED BY <1>3, <1>4, <1>5 DEF WillBeOff

\* What the service does brings the registers there.
LEMMA OffServe ==
  ASSUME TypeOK, NEW s \in Switches, Serve, ~disturbed', WillBeOff(s)
  PROVE  WillBeOff(s)'
<1> DEFINE r == Head(requests)
<1>1. /\ Len(requests) \in Nat \ {0} /\ Len(requests') = Len(requests) - 1
      /\ r = requests[1]
      /\ \A i \in 1 .. Len(requests') : requests'[i] = requests[i + 1]
  BY ServeDoes, Shortened
<1>2. register'[s] = IF TurnsOn(r, s) THEN TRUE
                     ELSE IF TurnsOff(r, s) THEN FALSE
                     ELSE register[s]
  BY ServeDoes
<1> HIDE DEF r
<1>3. CASE ~register[s] /\ \A i \in 1 .. Len(requests) : ~TurnsOn(requests[i], s)
  BY <1>1, <1>2, <1>3 DEF WillBeOff
<1>4. ASSUME NEW i \in 1 .. Len(requests), TurnsOff(requests[i], s),
             \A j \in i + 1 .. Len(requests) : ~TurnsOn(requests[j], s)
      PROVE  WillBeOff(s)'
  <2>1. CASE i = 1
    <3>1. ~register'[s] BY <1>1, <1>2, <1>4, <2>1 DEF TurnsOn, TurnsOff
    <3>2. \A j \in 1 .. Len(requests') : ~TurnsOn(requests'[j], s) BY <1>1, <1>4, <2>1
    <3> QED BY <3>1, <3>2 DEF WillBeOff
  <2>2. CASE i # 1
    <3>1. i - 1 \in 1 .. Len(requests') /\ requests'[i - 1] = requests[i] BY <1>1, <2>2
    <3>2. \A j \in (i - 1) + 1 .. Len(requests') : ~TurnsOn(requests'[j], s) BY <1>1, <1>4
    <3> QED BY <1>4, <3>1, <3>2 DEF WillBeOff
  <2> QED BY <2>1, <2>2
<1> QED BY <1>3, <1>4 DEF WillBeOff

\* Nothing that sends no request switches anything on.
LEMMA DarkQuiet ==
  ASSUME TypeOK, Dark, UNCHANGED <<requests, life, disturbed>>,
         \A s \in Switches : register'[s] => register[s]
  PROVE  Dark'
<1>1. \A s \in Switches : WillBeOff(s) => WillBeOff(s)' BY DEF WillBeOff
<1> QED BY <1>1 DEF Dark, Switches

\* Every step keeps Dark.
LEMMA DarkStep == TypeOK /\ Dark /\ [Next]_vars => Dark'
<1> SUFFICES ASSUME TypeOK, Dark, [Next]_vars PROVE Dark'
  OBVIOUS
<1>1. ASSUME NEW r \in Requests, requests' = Append(requests, r),
             UNCHANGED <<register, disturbed>>,
             life' \in {"closing", "ended"} =>
               \/ TurnsOff(r, "CALIB")
               \/ life \in {"closing", "ended"} /\ ~TurnsOn(r, "CALIB"),
             life' = "ended" => TurnsOff(r, "LD_BIAS")
      PROVE  Dark'
  <2>1. "CALIB" \in Switches /\ "LD_BIAS" \in Switches BY DEF Switches
  <2>2. ~disturbed /\ life' \in {"closing", "ended"} => WillBeOff("CALIB")'
    BY <1>1, <2>1, OffSend DEF Dark, TypeOK
  <2>3. life' = "ended" => WillBeOff("LD_BIAS")' BY <1>1, <2>1, OffSend
  <2> QED BY <1>1, <2>2, <2>3 DEF Dark
<1>2. ASSUME NEW c \in {"laserOn", "laserOff", "fsmWrite", "query"}, NEW n \in Nat, Begin(c, n),
             life' = life \/ (c = "laserOff" /\ life' = "closing")
      PROVE  Dark'
  <2>1. PICK r \in Requests :
          /\ requests' = Append(requests, r) /\ ~r.on
          /\ c = "laserOff" => r.write /\ r.channel = "CALIB"
    BY <1>2, BeginSends
  <2>2. UNCHANGED <<register, disturbed>> /\ life # "ended" BY <1>2, BeginSends
  <2>3. ~TurnsOn(r, "CALIB") /\ (c = "laserOff" => TurnsOff(r, "CALIB"))
    BY <2>1 DEF TurnsOn, TurnsOff
  <2> QED BY <1>1, <1>2, <2>1, <2>2, <2>3
<1>3. CASE LaserOn \/ LaserOff \/ FsmWrite \/ Query \/ Close
  <2>1. fsmNumber \in Nat BY NumbersAssumption DEF TypeOK
  <2> QED BY <1>2, <1>3, <2>1, NumbersAssumption DEF LaserOn, LaserOff, FsmWrite, Query, Close
<1>4. CASE ResetFSM
  <2>1. PICK r \in Requests :
          requests' = Append(requests, r) /\ r.channel = "LD_BIAS" /\ r.write /\ ~r.on
    BY <1>4, ResetSends
  <2>2. UNCHANGED <<register, disturbed>> /\ life = "closing" BY <1>4, ResetSends
  <2>3. TurnsOff(r, "LD_BIAS") /\ ~TurnsOn(r, "CALIB") BY <2>1 DEF TurnsOn, TurnsOff
  <2> QED BY <1>1, <2>1, <2>2, <2>3
<1>5. CASE Kill BY <1>5 DEF Kill, Dark
<1>6. CASE PatStep
  <2>1. UNCHANGED <<life, register, disturbed>> BY <1>6, PatStepCases
  <2>2. CASE Passes BY <2>1, <2>2, DarkQuiet DEF Passes
  <2>3. CASE Returns BY <2>1, <2>3, DarkQuiet DEF Returns, Return
  <2>4. CASE GoesOn
    <3>1. PICK r \in Requests :
            /\ requests' = Append(requests, r)
            /\ r.channel = IF call = "laserOn" THEN "CALIB" ELSE "FSM"
      BY <2>4, GoesOnSends
    <3>2. call \in {"laserOn", "fsmWrite"} /\ life # "ended"
          /\ (life = "closing" => call = "fsmWrite")
      BY <2>4, GoesOnSends DEF TypeOK
    <3>3. call = "fsmWrite" => ~TurnsOn(r, "CALIB") BY <3>1 DEF TurnsOn
    <3> QED BY <1>1, <2>1, <3>1, <3>2, <3>3 DEF TypeOK
  <2>5. CASE Enables
    <3>1. PICK r \in Requests :
            /\ requests' = Append(requests, r)
            /\ r.channel = IF call = "laserOn" THEN "HEATER" ELSE "LD_BIAS"
      BY <2>5, EnablesSends
    <3>2. life # "ended" BY <2>5, EnablesSends DEF TypeOK
    <3>3. ~TurnsOn(r, "CALIB") BY <3>1 DEF TurnsOn
    <3> QED BY <1>1, <2>1, <3>1, <3>2, <3>3
  <2> QED BY <1>6, <2>2, <2>3, <2>4, <2>5, PatStepCases
<1>7. CASE Serve
  <2>1. disturbed => disturbed' BY <1>7, ServeDoes
  <2>2. life' = life BY <1>7 DEF Serve, process
  <2> QED BY <1>7, <2>1, <2>2, OffServe DEF Dark, Switches
<1>8. CASE Restart BY <1>8 DEF Restart, Dark
<1>9. CASE OtherBiasOff
  <2>1. \A s \in Switches : register'[s] => register[s] BY <1>9 DEF OtherBiasOff, TypeOK
  <2> QED BY <1>9, <2>1, DarkQuiet DEF OtherBiasOff, process
<1>10. CASE UNCHANGED vars BY <1>10, DarkQuiet DEF vars, process
<1>11. CASE LeaveCameraLoop BY <1>11 DEF LeaveCameraLoop, Dark
<1> QED BY <1>3, <1>4, <1>5, <1>6, <1>7, <1>8, <1>9, <1>10, <1>11 DEF Next

-------------------------------------------------------------------------------
(* The numbers of the mirror writes. *)

\* Fewer answers, and no request but r more: r is all that can be late and was not.
LEMMA LateSend ==
  ASSUME TypeOK, NEW r \in Requests, requests' = Append(requests, r), Fewer, pid' = pid
  PROVE  \A q \in Requests : Late(q)' => Late(q) \/ (q = r /\ r.channel = "FSM")
<1>1. /\ Len(requests) \in Nat /\ Len(requests') = Len(requests) + 1
      /\ requests'[Len(requests) + 1] = r
      /\ \A i \in 1 .. Len(requests) : requests'[i] = requests[i]
  BY Appended
<1>2. \A i \in 1 .. Len(requests') : i \in 1 .. Len(requests) \/ i = Len(requests) + 1
  BY <1>1
<1> QED BY <1>1, <1>2 DEF Late, Fewer

\* No request becomes late when none is sent and no answer is added.
LEMMA LateQuiet ==
  ASSUME TypeOK, requests' = requests, Fewer, pid' = pid
  PROVE  \A q \in Requests : Late(q)' => Late(q)
BY DEF Late, Fewer

\* A request that is answered was on its way.
LEMMA LateServe ==
  ASSUME TypeOK, OwnAnswers, Serve
  PROVE  OwnAnswers' /\ \A q \in Requests : Late(q)' => Late(q)
<1> DEFINE r == Head(requests)
<1>1. /\ Len(requests) \in Nat \ {0} /\ Len(requests') = Len(requests) - 1
      /\ r = requests[1] /\ pid' = pid
      /\ \A i \in 1 .. Len(requests') : requests'[i] = requests[i + 1]
  BY ServeDoes, Shortened DEF process
<1>2. \A i \in 1 .. Len(answers') :
        \/ i \in 1 .. Len(answers) /\ answers'[i] = answers[i]
        \/ answers'[i].to = r /\ r.from = pid
  <2>1. PICK error \in BOOLEAN, on \in BOOLEAN :
          \/ answers' = answers
          \/ /\ r.from = pid
             /\ answers' = Append(answers, [to |-> r, on |-> on, error |-> error])
    BY ServeDoes
  <2>2. CASE answers' = answers BY <2>2
  <2>3. CASE /\ r.from = pid
             /\ answers' = Append(answers, [to |-> r, on |-> on, error |-> error])
    <3> DEFINE a == [to |-> r, on |-> on, error |-> error]
    <3>1. a.to = r OBVIOUS
    <3> HIDE DEF a, r
    <3>2. \A i \in 1 .. Len(answers') :
            \/ i \in 1 .. Len(answers) /\ answers'[i] = answers[i]
            \/ answers'[i] = a
      BY <2>3 DEF TypeOK, a
    <3> QED BY <2>3, <3>1, <3>2
  <2> QED BY <2>1, <2>2, <2>3
<1>3. OwnAnswers' BY <1>1, <1>2 DEF OwnAnswers
<1>4. 1 \in 1 .. Len(requests) BY <1>1
<1>5. \A i \in 1 .. Len(requests') : i + 1 \in 1 .. Len(requests) BY <1>1
<1>6. \A q \in Requests : Late(q)' => Late(q)
  <2> SUFFICES ASSUME NEW q \in Requests, Late(q)' PROVE Late(q)
    OBVIOUS
  <2>1. CASE \E i \in 1 .. Len(requests') : requests'[i] = q
    BY <1>1, <1>5, <2>1 DEF Late
  <2>2. ASSUME NEW i \in 1 .. Len(answers'), answers'[i].to = q PROVE Late(q)
    BY <1>1, <1>2, <1>4, <2>2 DEF Late
  <2> QED BY <2>1, <2>2 DEF Late
<1> QED BY <1>3, <1>6

\* A step of others leaves the numbers as they are.
LEMMA NumberedQuiet ==
  ASSUME TypeOK, Numbered, OwnAnswers', \A q \in Requests : Late(q)' => Late(q),
         \A i \in 1 .. Len(requests') : \E j \in 1 .. Len(requests) : requests'[i] = requests[j],
         UNCHANGED <<call, step, number, serial, fsmNumber, pid, life>>
  PROVE  Numbered'
<1>1. \A q \in Requests : Apart(q) => Apart(q)' BY DEF Apart, Own, Behind, Sent
<1>2. Spaced' BY <1>1 DEF Numbered, Spaced
<1> QED BY <1>2 DEF Numbered

\* A call that begins sends no mirror write; if it will, the ones on their way have
\* other numbers.
LEMMA NumberedBegin ==
  ASSUME TypeOK, Numbered, NEW c \in {"laserOn", "laserOff", "fsmWrite", "query"},
         NEW n \in Nat, Begin(c, n), c = "fsmWrite" => n = fsmNumber /\ WithinWindow
  PROVE  Numbered'
<1>1. /\ call = "idle" /\ life \notin {"ended", "quit"} /\ call' = c /\ number' = n
      /\ UNCHANGED <<fsmNumber, pid, answers>> /\ serial' = serial + 1 /\ step' # "enable"
      /\ c = "fsmWrite" => step' = "read"
  BY BeginSends
<1>2. PICK r \in Requests :
        requests' = Append(requests, r) /\ r.from = pid /\ r.channel # "FSM"
  BY BeginSends
<1>3. \A q \in Requests : Late(q)' => Late(q) BY <1>1, <1>2, LateSend, FewerLeft
<1>4. \A i \in 1 .. Len(requests') : requests'[i].from <= pid
  <2>1. /\ Len(requests) \in Nat /\ Len(requests') = Len(requests) + 1
        /\ requests'[Len(requests) + 1] = r
        /\ \A i \in 1 .. Len(requests) : requests'[i] = requests[i]
    BY <1>2, Appended
  <2>2. \A i \in 1 .. Len(requests') : i \in 1 .. Len(requests) \/ i = Len(requests) + 1
    BY <2>1
  <2> QED BY <1>2, <2>1, <2>2 DEF Numbered, TypeOK
<1>5. ASSUME NEW q \in Requests, Late(q) PROVE Apart(q)'
  <2>1. /\ q.serial <= serial /\ q.number < NumberMod
        /\ q.serial + 2 * Behind(q) <= serial + 2
    BY <1>1, <1>5 DEF Numbered, Spaced, Apart, Own, Sent
  <2>2. /\ q.serial \in Nat /\ q.number \in Nat /\ serial \in Nat
        /\ fsmNumber \in 0 .. NumberMod - 1 /\ NumberMod \in Nat \ {0}
    BY NumbersAssumption DEF Requests, TypeOK
  <2>3. c = "fsmWrite" => q.number # fsmNumber
    <3> SUFFICES ASSUME c = "fsmWrite" PROVE q.number # fsmNumber
      OBVIOUS
    <3>1. q \in InFlight
      BY <1>5 DEF Late, InFlight, TypeOK
    <3>2. serial + 1 < q.serial + 2 * NumberMod - 1
      BY <1>5, <3>1 DEF WithinWindow, Late
    <3> QED BY <2>1, <2>2, <3>2 DEF Behind
  <2>4. ~Own(q)' BY <1>1 DEF Own
  <2>5. Behind(q)' = Behind(q) BY <1>1 DEF Behind
  <2>6. Sent' = IF c = "fsmWrite" THEN 1 ELSE 2 BY <1>1 DEF Sent
  <2>7. Behind(q) \in Int BY <2>2 DEF Behind
  <2>8. q.serial + 2 * Behind(q)' <= serial' + Sent' /\ q.serial <= serial'
    BY <1>1, <2>1, <2>2, <2>5, <2>6, <2>7
  <2> QED BY <1>1, <2>1, <2>3, <2>4, <2>8 DEF Apart
<1> QED BY <1>1, <1>3, <1>4, <1>5 DEF Numbered, Spaced, OwnAnswers

\* Sending what is no mirror write leaves them apart, sending one makes it fsmWrite's own.
LEMMA NumberedSend ==
  ASSUME TypeOK, Numbered, NEW r \in Requests, requests' = Append(requests, r), Fewer,
         r.from = pid, r.serial = serial + 1, r.channel = "FSM" => call = "fsmWrite",
         r.channel = "FSM" <=> step' = "write" /\ call = "fsmWrite",
         r.channel = "FSM" => r.number = number,
         step \in {"read", "enable"}, step' \in {"enable", "write"},
         serial' = serial + 1,
         UNCHANGED <<call, number, fsmNumber, pid, life>>
  PROVE  Numbered'
<1>1. \A q \in Requests : Late(q)' => Late(q) \/ (q = r /\ r.channel = "FSM")
  BY LateSend
<1>2. \A i \in 1 .. Len(requests') : requests'[i].from <= pid
  <2>1. /\ Len(requests) \in Nat /\ Len(requests') = Len(requests) + 1
        /\ requests'[Len(requests) + 1] = r
        /\ \A i \in 1 .. Len(requests) : requests'[i] = requests[i]
    BY Appended
  <2>2. \A i \in 1 .. Len(requests') : i \in 1 .. Len(requests) \/ i = Len(requests) + 1
    BY <2>1
  <2> QED BY <2>1, <2>2 DEF Numbered, TypeOK
<1>3. OwnAnswers' BY DEF Numbered, OwnAnswers, Fewer
<1>4. serial \in Nat /\ fsmNumber \in 0 .. NumberMod - 1 /\ NumberMod \in Nat \ {0}
  BY NumbersAssumption DEF TypeOK
<1>5. ASSUME NEW q \in Requests, Late(q), life # "ended" PROVE Apart(q)'
  <2>1. /\ q.serial <= serial /\ q.number < NumberMod
        /\ q.serial + 2 * Behind(q) <= serial + Sent
        /\ call = "fsmWrite" => q.number # fsmNumber
    BY <1>5 DEF Numbered, Spaced, Apart, Own
  <2>2. q.serial \in Nat /\ q.number \in Nat BY DEF Requests
  <2>3. ~Own(q)' BY <1>4, <2>1, <2>2 DEF Own
  <2>4. Behind(q)' = Behind(q) /\ Behind(q) \in Int BY <1>4, <2>2 DEF Behind
  <2>5. Sent <= Sent' + 1 /\ Sent \in Int /\ Sent' \in Int BY DEF Sent
  <2>6. q.serial + 2 * Behind(q)' <= serial' + Sent'
    <3> DEFINE b == Behind(q)'  m == Sent  n == Sent'
    <3>1. q.serial + 2 * b <= serial + m BY <2>1, <2>4
    <3>2. b \in Int /\ m \in Int /\ n \in Int /\ m <= n + 1 BY <2>4, <2>5
    <3>3. serial' = serial + 1 OBVIOUS
    <3> HIDE DEF b, m, n
    <3>4. q.serial + 2 * b <= serial' + n BY <1>4, <2>2, <3>1, <3>2, <3>3
    <3> QED BY <3>4 DEF b, n
  <2>7. q.serial <= serial' BY <1>4, <2>1, <2>2
  <2> QED BY <2>1, <2>3, <2>6, <2>7 DEF Apart
<1>6. r.channel = "FSM" => Apart(r)'
  BY <1>4 DEF Apart, Own, Numbered
<1>7. Spaced' BY <1>1, <1>5, <1>6 DEF Spaced
<1> QED BY <1>2, <1>3, <1>7 DEF Numbered

\* When fsmWrite returns the number moves on: every mirror write on its way has another
\* number than the next one, unless the numbers have gone all the way round.
LEMMA NumberedReturn ==
  ASSUME TypeOK, Numbered, Returns, Fewer, UNCHANGED <<pid, life>>
  PROVE  Numbered'
<1>1. /\ call' = "idle" /\ step' = "idle" /\ UNCHANGED <<serial, requests>>
      /\ fsmNumber' = IF call = "fsmWrite" /\ step = "write" THEN (fsmNumber + 1) % NumberMod
                      ELSE fsmNumber
  BY DEF Returns, Return, NumberAfter
<1>2. \A q \in Requests : Late(q)' => Late(q) BY <1>1, LateQuiet
<1>3. OwnAnswers' BY DEF Numbered, OwnAnswers, Fewer
<1>4. serial \in Nat /\ fsmNumber \in 0 .. NumberMod - 1 /\ NumberMod \in Nat \ {0}
  BY NumbersAssumption DEF TypeOK
<1>5. ASSUME NEW q \in Requests, Late(q), life # "ended" PROVE Apart(q)'
  <2>1. q.serial <= serial /\ q.number < NumberMod /\ Apart(q)
    BY <1>5 DEF Numbered, Spaced, Apart
  <2>2. q.serial \in Nat /\ q.number \in Nat BY DEF Requests
  <2>3. ~Own(q)' /\ Sent' = 2 BY <1>1 DEF Own, Sent
  <2>4. CASE call = "fsmWrite" /\ step = "write"
    <3>1. fsmNumber' = IF fsmNumber + 1 = NumberMod THEN 0 ELSE fsmNumber + 1
      BY <1>1, <2>4, CountedOn
    <3>2. CASE Own(q)
      <4>1. q.number = fsmNumber /\ q.serial = serial
        BY <2>1, <2>4, <3>2 DEF Apart, Own, Numbered
      <4>2. Behind(q)' = 1 BY <1>4, <3>1, <4>1 DEF Behind
      <4> QED BY <1>1, <1>4, <2>1, <2>3, <4>1, <4>2 DEF Apart
    <3>3. CASE ~Own(q)
      <4>1. q.serial + 2 * Behind(q) <= serial /\ q.number # fsmNumber
        BY <1>4, <2>1, <2>2, <2>4, <3>3 DEF Apart, Sent, Behind
      <4>2. Behind(q)' = Behind(q) + 1 /\ Behind(q) \in Int
        BY <1>4, <2>1, <2>2, <3>1, <4>1 DEF Behind
      <4> QED BY <1>1, <1>4, <2>1, <2>2, <2>3, <4>1, <4>2 DEF Apart
    <3> QED BY <3>2, <3>3
  <2>5. CASE ~(call = "fsmWrite" /\ step = "write")
    <3>1. q.serial + 2 * Behind(q) <= serial + Sent BY <2>1, <2>5 DEF Apart, Own
    <3>2. Behind(q)' = Behind(q) /\ Behind(q) \in Int BY <1>1, <1>4, <2>2, <2>5 DEF Behind
    <3>3. Sent <= 2 /\ Sent \in Int BY DEF Sent
    <3>4. q.serial + 2 * Behind(q) <= serial + 2 BY <1>4, <2>2, <3>1, <3>2, <3>3
    <3> QED BY <1>1, <2>1, <2>3, <3>2, <3>4 DEF Apart
  <2> QED BY <2>4, <2>5
<1> QED BY <1>1, <1>2, <1>3, <1>5 DEF Numbered, Spaced

\* Every step keeps the numbers.
LEMMA NumberedStep == TypeOK /\ Numbered /\ [Next]_vars => Numbered'
<1> SUFFICES ASSUME TypeOK, Numbered, [Next]_vars PROVE Numbered'
  OBVIOUS
<1>1. CASE LaserOn \/ LaserOff \/ FsmWrite \/ Query \/ Close
  <2>1. fsmNumber \in Nat BY NumbersAssumption DEF TypeOK
  <2> QED
    BY <1>1, <2>1, NumbersAssumption, NumberedBegin
    DEF LaserOn, LaserOff, FsmWrite, Query, Close
<1>2. CASE ResetFSM
  <2>1. PICK r \in Requests : requests' = Append(requests, r) /\ r.from = pid
    BY <1>2, ResetSends
  <2>2. /\ Len(requests) \in Nat /\ Len(requests') = Len(requests) + 1
        /\ requests'[Len(requests) + 1] = r
        /\ \A i \in 1 .. Len(requests) : requests'[i] = requests[i]
    BY <2>1, Appended
  <2>3. \A i \in 1 .. Len(requests') : i \in 1 .. Len(requests) \/ i = Len(requests) + 1
    BY <2>2
  <2>4. life' = "ended" /\ call' = "idle" /\ pid' = pid /\ answers' = answers
    BY <1>2, ResetSends
  <2> QED BY <2>1, <2>2, <2>3, <2>4 DEF Numbered, OwnAnswers, Spaced, TypeOK
<1>3. CASE Kill
  <2>1. /\ pid' = pid + 1 /\ answers' = <<>> /\ requests' = requests /\ call' = "idle"
        /\ pid \in Nat
    BY <1>3 DEF Kill, TypeOK
  <2>2. \A i \in 1 .. Len(requests) : requests[i].from \in Nat /\ requests[i].from <= pid
    <3>1. \A i \in 1 .. Len(requests) : requests[i] \in Requests BY DEF TypeOK
    <3>2. \A r \in Requests : r.from \in Nat BY DEF Requests
    <3> QED BY <3>1, <3>2 DEF Numbered
  <2>3. \A q \in Requests : ~Late(q)' BY <2>1, <2>2 DEF Late
  <2> QED BY <2>1, <2>2, <2>3 DEF Numbered, OwnAnswers, Spaced
<1>4. CASE PatStep
  <2>1. Fewer /\ UNCHANGED <<pid, life>> BY <1>4, PatStepCases, FewerLeft
  <2>2. CASE Passes
    <3>1. UNCHANGED <<call, step, number, serial, fsmNumber, pid, life, requests>>
      BY <2>1, <2>2 DEF Passes
    <3>2. OwnAnswers' BY <2>1 DEF Numbered, OwnAnswers, Fewer
    <3> QED BY <2>1, <3>1, <3>2, LateQuiet, NumberedQuiet
  <2>3. CASE Returns BY <2>1, <2>3, NumberedReturn
  <2>4. CASE GoesOn
    <3>1. PICK r \in Requests :
            /\ requests' = Append(requests, r)
            /\ r.from = pid /\ r.serial = serial + 1 /\ r.number = number
            /\ r.channel = IF call = "laserOn" THEN "CALIB" ELSE "FSM"
      BY <2>4, GoesOnSends
    <3>2. /\ call \in {"laserOn", "fsmWrite"} /\ step' = "write" /\ serial' = serial + 1
          /\ step \in {"read", "enable"} /\ UNCHANGED <<call, number, fsmNumber>>
      BY <2>4, GoesOnSends DEF GoesOn
    <3> QED BY <2>1, <3>1, <3>2, NumberedSend
  <2>5. CASE Enables
    <3>1. PICK r \in Requests :
            /\ requests' = Append(requests, r)
            /\ r.from = pid /\ r.serial = serial + 1
            /\ r.channel = IF call = "laserOn" THEN "HEATER" ELSE "LD_BIAS"
      BY <2>5, EnablesSends
    <3>2. /\ step' = "enable" /\ serial' = serial + 1
          /\ step = "read" /\ UNCHANGED <<call, number, fsmNumber>>
      BY <2>5, EnablesSends DEF Enables
    <3> QED BY <2>1, <3>1, <3>2, NumberedSend
  <2> QED BY <1>4, <2>2, <2>3, <2>4, <2>5, PatStepCases
<1>5. CASE Serve
  <2>1. UNCHANGED <<call, step, number, serial, fsmNumber, pid, life>>
    BY <1>5 DEF Serve, process
  <2>2. OwnAnswers' /\ \A q \in Requests : Late(q)' => Late(q)
    BY <1>5, LateServe DEF Numbered
  <2>3. /\ Len(requests) \in Nat \ {0} /\ Len(requests') = Len(requests) - 1
        /\ \A i \in 1 .. Len(requests') : requests'[i] = requests[i + 1]
    BY <1>5, ServeDoes, Shortened
  <2>4. \A i \in 1 .. Len(requests') : i + 1 \in 1 .. Len(requests) BY <2>3
  <2> QED BY <2>1, <2>2, <2>3, <2>4, NumberedQuiet
<1>6. CASE Restart
  <2>1. /\ UNCHANGED <<call, step, number, serial, fsmNumber, pid, life, answers>>
        /\ requests' = <<>>
    BY <1>6 DEF Restart, process
  <2>2. OwnAnswers' /\ \A q \in Requests : Late(q)' => Late(q)
    BY <2>1 DEF Numbered, OwnAnswers, Late
  <2> QED BY <2>1, <2>2, NumberedQuiet
<1>7. CASE OtherBiasOff \/ UNCHANGED vars
  <2>1. UNCHANGED <<call, step, number, serial, fsmNumber, pid, life, requests, answers>>
    BY <1>7 DEF OtherBiasOff, vars, process
  <2>2. OwnAnswers' /\ \A q \in Requests : Late(q)' => Late(q)
    BY <2>1 DEF Numbered, OwnAnswers, Late
  <2> QED BY <2>1, <2>2, NumberedQuiet
<1>8. CASE LeaveCameraLoop
  <2>1. /\ UNCHANGED <<call, step, number, serial, fsmNumber, pid, requests, answers>>
        /\ life # "ended"
    BY <1>8 DEF LeaveCameraLoop
  <2>2. \A q \in Requests : (Late(q)' => Late(q)) /\ (Apart(q) => Apart(q)')
    BY <2>1 DEF Late, Apart, Own, Behind, Sent
  <2> QED BY <2>1, <2>2 DEF Numbered, OwnAnswers, Spaced
<1> QED BY <1>1, <1>2, <1>3, <1>4, <1>5, <1>6, <1>7, <1>8 DEF Next

-------------------------------------------------------------------------------
(* The theorems. *)

\* The invariant holds at the start.
LEMMA InitGood == Init => IInv
<1> SUFFICES ASSUME Init PROVE IInv
  OBVIOUS
<1>1. TypeOK BY InitTyped
<1>2. /\ requests = <<>> /\ answers = <<>> /\ call = "idle" /\ life = "starting"
      /\ register["CALIB"] => register["HEATER"]
  BY DEF Init
<1>3. Heated BY <1>2 DEF Heated, HeaterStays, HeaterFirst, LaserNeedsHeater
<1>4. Dark BY <1>2 DEF Dark
<1>5. Numbered BY <1>2 DEF Numbered, OwnAnswers, Spaced, Late
<1> QED BY <1>1, <1>3, <1>4, <1>5 DEF IInv

\* The order of the requests, what they leave the registers at and the distance of the
\* request numbers are kept through time-outs, late answers and restarts.
THEOREM PatFpgaInvariant == Spec => []IInv
<1>1. Init => IInv BY InitGood
<1>2. IInv /\ [Next]_vars => IInv'
  BY TypeStep, HeatedStep, DarkStep, NumberedStep DEF IInv
<1> QED BY <1>1, <1>2, PTL DEF Spec

\* The calibration laser is never on with its heater off (laserOn), however late the answers
\* are and whoever was killed between two requests, until a request is lost or a transfer
\* fails.
THEOREM LaserIsHeated == Spec => []LaserNeedsHeater
<1>1. IInv => LaserNeedsHeater BY DEF IInv, Heated
<1> QED BY <1>1, PatFpgaInvariant, PTL

\* A process that comes to the end of main leaves laser and LD bias off (laserOff,
\* resetFSM), unless a request was lost or failed.
THEOREM EndIsDark == Spec => []EndsDark
<1>1. IInv => EndsDark BY DEF IInv, Dark, EndsDark, WillBeOff
<1> QED BY <1>1, PatFpgaInvariant, PTL

\* A mirror write is acknowledged by its own answer only (FSM::fsmWrite,
\* check_fpga_map_write_request).
THEOREM MirrorAckIsOwn == Spec => FsmOwnAck
<1>1. IInv /\ [Next]_vars =>
        [call = "fsmWrite" /\ step = "write" /\ value' => Head(answers).to.serial = serial]_vars
  <2> SUFFICES ASSUME IInv, Next, call = "fsmWrite", step = "write", value'
               PROVE  Head(answers).to.serial = serial
    OBVIOUS
  <2>1. ~value BY DEF IInv, TypeOK
  <2>2. PatStep
    BY <2>1 DEF Next, LeaveCameraLoop, LaserOn, LaserOff, FsmWrite, Query, Close, Begin,
       ResetFSM, Kill, Serve, Restart, OtherBiasOff, process
  <2>3. Taken
    BY <2>1, <2>2, PatStepCases DEF IInv, Passes, Returns, Return, GoesOn, Enables
  <2> DEFINE a == Head(answers)
  <2>4. /\ answers # <<>> /\ a.to.channel = "FSM" /\ a.to.number = number
    BY <2>3 DEF Taken, Accepts, Awaited, Target
  <2>5. 1 \in 1 .. Len(answers) /\ a = answers[1] /\ a \in Answers
    BY <2>4 DEF IInv, TypeOK
  <2> HIDE DEF a
  <2>6. a.to \in Requests BY <2>5 DEF Answers
  <2>7. Late(a.to) BY <2>4, <2>5 DEF IInv, Numbered, OwnAnswers, Late
  <2>8. life # "ended" BY DEF IInv, TypeOK
  <2>9. Apart(a.to) /\ number = fsmNumber BY <2>6, <2>7, <2>8 DEF IInv, Numbered, Spaced
  <2>10. Own(a.to) BY <2>4, <2>9 DEF Apart
  <2> QED BY <2>10 DEF Own, a
<1> QED BY <1>1, PatFpgaInvariant, PTL DEF Spec, FsmOwnAck

\* Every pass of a call uses up some of what is left to it, and nothing gives it back.
THEOREM CallsReturn == Spec => CallReturns
<1>1. IInv /\ [Next]_vars =>
        [(PatStep => Left' < Left) /\ (call # "idle" => Left' <= Left)]_vars
  <2> SUFFICES ASSUME IInv, Next
               PROVE  (PatStep => Left' < Left) /\ (call # "idle" => Left' <= Left)
    OBVIOUS
  <2>1. /\ attempts \in 0 .. Attempts /\ Attempts \in Nat \ {0} /\ TypeOK
        /\ call # "idle" => step # "idle" /\ attempts > 0
    BY AttemptsAssumption DEF IInv, TypeOK, Steps
  <2>2. CASE PatStep
    <3>1. step # "idle" /\ attempts > 0 BY <2>1, <2>2, PatStepCases DEF TypeOK
    <3>2. CASE Passes BY <2>1, <3>2 DEF Passes, Left
    <3>3. CASE Returns
      <4>1. step' = "idle" /\ attempts' = 0 BY <3>3 DEF Returns, Return
      <4> QED BY <2>1, <3>1, <4>1 DEF Left
    <3>4. CASE GoesOn
      <4>1. step' = "write" /\ attempts' = Attempts /\ step \in {"read", "enable"}
        BY <2>1, <3>4, GoesOnSends DEF GoesOn
      <4> QED BY <2>1, <3>1, <4>1 DEF Left
    <3>5. CASE Enables
      <4>1. step' = "enable" /\ attempts' = Attempts /\ step = "read"
        BY <2>1, <3>5, EnablesSends DEF Enables
      <4> QED BY <2>1, <3>1, <4>1 DEF Left
    <3>6. Left' < Left BY <2>1, <2>2, <3>2, <3>3, <3>4, <3>5, PatStepCases
    <3>7. Left \in Int /\ Left' \in Int
      <4>1. attempts' \in Int BY <2>1, <2>2, TypeStep DEF TypeOK, Next
      <4> QED BY <2>1, <4>1 DEF Left
    <3> QED BY <3>6, <3>7
  <2>3. CASE ~PatStep /\ call # "idle"
    <3> DEFINE left(n, s) ==
          n + (Attempts + 1) * (CASE s = "read" -> 3 [] s = "enable" -> 2
                                  [] s = "idle" -> 0 [] OTHER -> 1)
    <3>0. Left = left(attempts, step) /\ Left' = left(attempts', step') BY DEF Left
    <3>1. CASE Kill
      <4>1. step' = "idle" /\ attempts' = 0 BY <3>1 DEF Kill
      <4>2. left(attempts', step') = 0 BY <2>1, <4>1
      <4>3. left(attempts, step) >= 0 BY <2>1
      <4> HIDE DEF left
      <4> QED BY <2>3, <3>0, <4>2, <4>3
    <3>2. CASE Serve \/ Restart \/ OtherBiasOff
      <4>1. UNCHANGED <<attempts, step>>
        BY <3>2 DEF Serve, Restart, OtherBiasOff, process
      <4>2. left(attempts, step) \in Int BY <2>1
      <4>3. left(attempts', step') = left(attempts, step) BY <4>1
      <4> HIDE DEF left
      <4> QED BY <2>3, <3>0, <4>2, <4>3
    <3> QED
      BY <2>3, <3>1, <3>2
      DEF Next, LeaveCameraLoop, LaserOn, LaserOff, FsmWrite, Query, Close, Begin, ResetFSM
  <2> QED BY <2>2, <2>3
<1> QED BY <1>1, PatFpgaInvariant, PTL DEF Spec, CallReturns
===============================================================================
