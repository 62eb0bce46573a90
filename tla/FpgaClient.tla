------------------------------ MODULE FpgaClient ------------------------------
(***************************************************************************)
(* FPGAClientInterface (lib/ipc_helper.py), the register access library of  *)
(* the Python processes, with the fpga.py service it talks to over two      *)
(* ZeroMQ PUB/SUB sockets.                                                  *)
(*                                                                          *)
(* Requests and answers travel in order.  The client numbers its requests   *)
(* with a small token and expects the answers in the order it sent the      *)
(* requests; a receive time-out forgets what was pending, but not what the  *)
(* service will still answer.  Serials tell the accesses apart.             *)
(***************************************************************************)
EXTENDS Integers, Sequences

CONSTANTS
  TokenMod,     \* tokens are counted modulo this (255 in the code)
  Tries,        \* attempts of the constructor to reach the service (50)
  Mapped,       \* register addresses the service knows
  Unmapped,     \* virtual addresses it does not know: it answers them twice
  Probe,        \* the address the constructor writes (127)
  MaxRequests   \* bound on the accesses of a behaviour

ASSUME TokenAssumption == TokenMod \in Nat \ {0}
ASSUME TriesAssumption == Tries \in Nat \ {0}
ASSUME AddressAssumption == Probe \in Mapped /\ Mapped \cap Unmapped = {}
ASSUME RequestsAssumption == MaxRequests \in Nat

Addresses == Mapped \cup Unmapped
Serials   == 1 .. MaxRequests

VARIABLES
  life,      \* the constructor still probes; the client is ready; it has failed
  tries,     \* attempts the constructor has left
  at,        \* idle, about to pop the next future, or in socket_answer.recv()
  token,     \* _token
  issued,    \* serial of the last request
  pending,   \* _pending
  current,   \* current_fut, a sequence of at most one future
  target,    \* serial of the future somebody waits for
  value,     \* per future: serial of the access whose answer it holds, or 0
  dead,      \* futures that were popped or forgotten without a value
  requests,  \* on their way to the service
  answers    \* on their way to the client

client == <<life, tries, at, token, issued, pending, current, target, value, dead>>
wires  == <<requests, answers>>
vars   == <<client, wires>>

SerialsOf(seq) == {seq[i].serial : i \in DOMAIN seq}

Init ==
  /\ life = "probing" /\ tries = Tries /\ at = "idle"
  /\ token = 0 /\ issued = 0
  /\ pending = <<>> /\ current = <<>> /\ target = 0
  /\ value = [s \in Serials |-> 0] /\ dead = {}
  /\ requests = <<>> /\ answers = <<>>

-------------------------------------------------------------------------------
(* Issuing an access: _get_token, _send_request, a new future. *)

InFlight == SerialsOf(requests) \cup {answers[i].to.serial : i \in DOMAIN answers}

\* Assumption on the surroundings: no answer is so late, and no future left
\* waiting so long, that the token has gone all the way round meanwhile.
WithinWindow(s) == \A f \in InFlight \cup SerialsOf(pending) : s < f + TokenMod

NextToken == (token + 1) % TokenMod

Send(addr, write) ==
  LET r == [serial |-> issued + 1, token |-> NextToken, addr |-> addr, write |-> write]
  IN  /\ issued < MaxRequests /\ WithinWindow(issued + 1)
      /\ token' = NextToken
      /\ issued' = issued + 1
      /\ requests' = Append(requests, r)
      /\ pending' = Append(pending, r)

\* read_reg_async and write_reg_async.
Issue ==
  /\ life = "ready" /\ at = "idle"
  /\ \E addr \in Addresses, write \in BOOLEAN : Send(addr, write)
  /\ UNCHANGED <<life, tries, at, current, target, value, dead, answers>>

\* One try of the constructor: write_reg(127, '').
TryProbe ==
  /\ life = "probing" /\ at = "idle"
  /\ Send(Probe, TRUE)
  /\ target' = issued + 1 /\ at' = "pop"
  /\ UNCHANGED <<life, tries, current, value, dead, answers>>

-------------------------------------------------------------------------------
(* Waiting: _receive and _get_packet. *)

\* _Future.wait of a future without a value, whether or not it can get one.
Wait ==
  /\ life = "ready" /\ at = "idle"
  /\ \E s \in 1 .. issued : value[s] = 0 /\ target' = s
  /\ at' = "pop"
  /\ UNCHANGED <<life, tries, token, issued, pending, current, value, dead, wires>>

\* The call returns or raises.  Raising ends the constructor for good, unless
\* it is a ZMQError and tries are left.
Return(ok, retry) ==
  /\ at' = "idle" /\ target' = 0 /\ current' = <<>>
  /\ tries' = IF life = "probing" /\ retry THEN tries - 1 ELSE tries
  /\ life' = IF life # "probing" THEN life
             ELSE IF ok THEN "ready"
             ELSE IF retry /\ tries' > 0 THEN "probing" ELSE "failed"

Pop ==
  /\ at = "pop" /\ pending # <<>>
  /\ current' = <<Head(pending)>>
  /\ pending' = Tail(pending)
  /\ at' = "recv"
  /\ UNCHANGED <<life, tries, token, issued, target, value, dead, wires>>

\* popleft() of an empty deque: IndexError.
PopEmpty ==
  /\ at = "pop" /\ pending = <<>>
  /\ Return(FALSE, FALSE)
  /\ UNCHANGED <<token, issued, pending, value, dead, wires>>

MatchesAddress(pck, fut) ==  \* faulty: the token is not compared
  pck.addr = fut.addr /\ pck.write = fut.write

\* The assertions on an answer, made while options.CHECK_ASSERTS is set.
Matches(pck, fut) ==
  pck.addr = fut.addr /\ pck.token = fut.token /\ pck.write = fut.write

\* An answer arrives.  AssertionError and ValueError leave the future dead and
\* the other futures pending.
Receive ==
  /\ at = "recv" /\ answers # <<>>
  /\ LET pck == Head(answers)
         fut == current[1]
         ok  == Matches(pck.to, fut) /\ ~pck.error
     IN  /\ value' = IF ok THEN [value EXCEPT ![fut.serial] = pck.to.serial] ELSE value
         /\ dead' = IF ok THEN dead ELSE dead \cup {fut.serial}
         /\ IF ok /\ fut.serial # target
            THEN at' = "pop" /\ current' = <<>> /\ UNCHANGED <<life, tries, target>>
            ELSE Return(ok, FALSE)
  /\ answers' = Tail(answers)
  /\ UNCHANGED <<token, issued, pending, requests>>

TimeoutKeepsPending ==  \* faulty: the pending futures are not forgotten
  /\ at = "recv" /\ answers = <<>>
  /\ dead' = dead \cup SerialsOf(pending) \cup SerialsOf(current)
  /\ Return(FALSE, TRUE)
  /\ UNCHANGED <<token, issued, pending, value, wires>>

TimeoutRetries ==  \* faulty: the receive is repeated without end
  /\ at = "recv" /\ answers = <<>>
  /\ pending' = <<>>
  /\ dead' = dead \cup SerialsOf(pending)
  /\ UNCHANGED <<life, tries, at, token, issued, current, target, value, wires>>

\* RCVTIMEO expires: every pending future is forgotten, ZMQError is raised.
Timeout ==
  /\ at = "recv" /\ answers = <<>>
  /\ pending' = <<>>
  /\ dead' = dead \cup SerialsOf(pending) \cup SerialsOf(current)
  /\ Return(FALSE, TRUE)
  /\ UNCHANGED <<token, issued, value, wires>>

-------------------------------------------------------------------------------
(* The service. *)

\* fpga.py takes one request and answers it; for an address it does not know
\* it sends an error answer and then the regular one.
Serve ==
  /\ requests # <<>>
  /\ LET r == Head(requests) IN
       \/ /\ r.addr \in Mapped
          /\ \E error \in BOOLEAN : answers' = Append(answers, [to |-> r, error |-> error])
       \/ /\ r.addr \in Unmapped
          /\ answers' = answers \o <<[to |-> r, error |-> TRUE], [to |-> r, error |-> FALSE]>>
  /\ requests' = Tail(requests)
  /\ UNCHANGED client

\* The service stops and starts again: what it had not answered is lost.
Restart ==
  /\ requests # <<>>
  /\ requests' = <<>>
  /\ UNCHANGED <<client, answers>>

ClientStep == Pop \/ PopEmpty \/ Receive \/ Timeout

Next == TryProbe \/ Issue \/ Wait \/ ClientStep \/ Serve \/ Restart

Spec == Init /\ [][Next]_vars

\* A call goes on until it returns or raises; nothing is assumed of the service.
FairSpec == Spec /\ WF_vars(ClientStep)

-------------------------------------------------------------------------------
(* What the client guarantees. *)

\* A future that holds a value holds the answer of its own access, after any
\* sequence of time-outs, restarts and double answers.
OwnAnswer == \A s \in Serials : value[s] \in {0, s}

\* Every call of wait() comes back, also when the service never answers.
WaitReturns == at # "idle" ~> at = "idle"

\* The client implements Futures.
Outcome ==
  [s \in Serials |->
     IF s > issued THEN "unissued"
     ELSE IF value[s] = s THEN "answered"
     ELSE IF s \in dead THEN "failed" ELSE "open"]

Promise == INSTANCE Futures WITH outcome <- Outcome

PromiseKept == Promise!Spec
===============================================================================
