-------------------------------- MODULE Router --------------------------------
(***************************************************************************)
(* How a command reaches a command handler: commandhandler/router.py with   *)
(* lib/ipc_loadbalancer.py, the handlers' side of it, and housekeeping's    *)
(* restarts.                                                                *)
(*                                                                          *)
(* A handler announces over a REQ socket that it is ready.  The router      *)
(* takes a command from its SUB socket, waits for the next announcement     *)
(* and sends the command to the process that made it.  An announcement      *)
(* outlives its process; a router that waits sends no heartbeats.           *)
(***************************************************************************)
EXTENDS Integers, FiniteSets, Sequences

CONSTANTS
  Handlers,     \* the instances of commandhandler@.service
  MaxCommands,  \* bound on the commands of a behaviour
  MaxFailures   \* bound on crashes and needless restarts

ASSUME HandlersAssumption == IsFiniteSet(Handlers) /\ Handlers # {}
ASSUME BoundsAssumption == MaxCommands \in Nat /\ MaxFailures \in Nat

Commands == 1 .. MaxCommands

\* A process of a handler is known by the number of restarts before it, its pid
\* in the code.
Nobody == <<>>

VARIABLES
  fate,      \* of each command: unsent, at the router, with a handler, over
  givenTo,   \* the process each command was sent to
  router,    \* "poll", "send" (waiting in send_request), "down"
  inbox,     \* commands in the router's SUB socket
  ready,     \* announcements in the ROUTER socket
  state,     \* of each handler: "starting", "waiting", "working", "dead"
  gen,       \* the process each handler runs in
  todo,      \* handlers housekeeping is still to restart after the router
  failures   \* crashes and needless restarts so far

vars == <<fate, givenTo, router, inbox, ready, state, gen, todo, failures>>

Init ==
  /\ fate = [c \in Commands |-> "new"]
  /\ givenTo = [c \in Commands |-> Nobody]
  /\ router = "poll" /\ inbox = <<>> /\ ready = {}
  /\ state = [h \in Handlers |-> "starting"]
  /\ gen = [h \in Handlers |-> 0]
  /\ todo = {} /\ failures = 0

Process(h) == <<h, gen[h]>>

-------------------------------------------------------------------------------
(* The router. *)

\* The depacketizer publishes the next command; nobody receives it while the
\* router is down.
Publish ==
  /\ \E c \in Commands :
       /\ fate[c] = "new" /\ \A d \in 1 .. c - 1 : fate[d] # "new"
       /\ fate' = [fate EXCEPT ![c] = IF router = "down" THEN "lost" ELSE "inbox"]
       /\ inbox' = IF router = "down" THEN inbox ELSE Append(inbox, c)
  /\ UNCHANGED <<givenTo, router, ready, state, gen, todo, failures>>

\* recv_zmq after a successful poll.
Take ==
  /\ router = "poll" /\ inbox # <<>>
  /\ router' = "send"
  /\ fate' = [fate EXCEPT ![Head(inbox)] = "held"]
  /\ inbox' = Tail(inbox)
  /\ UNCHANGED <<givenTo, ready, state, gen, todo, failures>>

Alive(p) == p = Process(p[1]) /\ state[p[1]] # "dead"

\* send_request, once there is an announcement.  The ROUTER socket drops what is
\* addressed to a process that is gone.
SendRequest ==
  /\ router = "send"
  /\ \E p \in ready, c \in Commands :
       /\ fate[c] = "held"
       /\ ready' = ready \ {p}
       /\ givenTo' = [givenTo EXCEPT ![c] = p]
       /\ fate' = [fate EXCEPT ![c] = IF Alive(p) THEN "given" ELSE "lost"]
       /\ state' = IF Alive(p) THEN [state EXCEPT ![p[1]] = "working"] ELSE state
  /\ router' = "poll"
  /\ UNCHANGED <<inbox, gen, todo, failures>>

-------------------------------------------------------------------------------
(* A command handler. *)

\* send_ready at the start; the socket keeps it until there is a router.
SendReady(h) ==
  /\ state[h] = "starting" /\ router # "down"
  /\ state' = [state EXCEPT ![h] = "waiting"]
  /\ ready' = ready \cup {Process(h)}
  /\ UNCHANGED <<fate, givenTo, router, inbox, gen, todo, failures>>

\* The command a handler works on.
Workload(h) == {c \in Commands : fate[c] = "given" /\ givenTo[c] = Process(h)}

FinishEarly(h) ==  \* faulty: ready is sent again when the command is taken
  /\ state[h] = "working" /\ router # "down"
  /\ ready' = ready \cup {Process(h)}
  /\ \/ UNCHANGED <<fate, state>>
     \/ /\ fate' = [c \in Commands |-> IF c \in Workload(h) THEN "done" ELSE fate[c]]
        /\ state' = [state EXCEPT ![h] = "waiting"]
  /\ UNCHANGED <<givenTo, router, inbox, gen, todo, failures>>

\* The end of the main loop's pass: the command is handled, send_ready.
Finish(h) ==
  /\ state[h] = "working" /\ router # "down"
  /\ fate' = [c \in Commands |-> IF c \in Workload(h) THEN "done" ELSE fate[c]]
  /\ state' = [state EXCEPT ![h] = "waiting"]
  /\ ready' = ready \cup {Process(h)}
  /\ UNCHANGED <<givenTo, router, inbox, gen, todo, failures>>

-------------------------------------------------------------------------------
(* Failures, and what housekeeping does about them. *)

Fail == failures < MaxFailures /\ failures' = failures + 1

Losing(lost) == fate' = [c \in Commands |-> IF c \in lost THEN "lost" ELSE fate[c]]

\* An exception the handler does not catch ends it, with what it works on.
HandlerDies(h) ==
  /\ Fail /\ state[h] # "dead"
  /\ state' = [state EXCEPT ![h] = "dead"]
  /\ Losing(Workload(h))
  /\ UNCHANGED <<givenTo, router, inbox, ready, gen, todo>>

RouterDies ==
  /\ Fail /\ router # "down"
  /\ router' = "down"
  /\ Losing({c \in Commands : fate[c] \in {"inbox", "held"}})
  /\ inbox' = <<>> /\ ready' = {}
  /\ UNCHANGED <<givenTo, state, gen, todo>>

NewProcess(h) ==
  /\ Losing(Workload(h))
  /\ gen' = [gen EXCEPT ![h] = @ + 1]
  /\ state' = [state EXCEPT ![h] = "starting"]
  /\ UNCHANGED <<givenTo, router, inbox, ready>>

\* The watchdog of a dead handler.
RestartDead(h) ==
  /\ state[h] = "dead" /\ todo = {}
  /\ NewProcess(h)
  /\ UNCHANGED <<todo, failures>>

\* An alert that is out of date, or a command that takes too long.
RestartAlive(h) ==
  /\ Fail /\ state[h] # "dead" /\ todo = {}
  /\ NewProcess(h)
  /\ UNCHANGED todo

RestartRouterOnly ==  \* faulty: systemd restarts a router that is down, and it alone
  /\ router = "down" /\ todo = {}
  /\ router' = "poll"
  /\ UNCHANGED <<fate, givenTo, inbox, ready, state, gen, todo, failures>>

\* A router that is down or waits for a handler sends no heartbeats: it is
\* restarted, and then every handler.
RestartRouter ==
  /\ router # "poll" /\ todo = {}
  /\ router' = "poll"
  /\ Losing({c \in Commands : fate[c] \in {"inbox", "held"}})
  /\ inbox' = <<>> /\ ready' = {}
  /\ todo' = Handlers
  /\ UNCHANGED <<givenTo, state, gen, failures>>

RestartNext(h) ==
  /\ h \in todo
  /\ todo' = todo \ {h}
  /\ NewProcess(h)
  /\ UNCHANGED failures

Housekeeping == RestartRouter \/ \E h \in Handlers : RestartDead(h) \/ RestartNext(h)

Next ==
  \/ Publish \/ Take \/ SendRequest \/ RouterDies \/ Housekeeping
  \/ \E h \in Handlers :
       SendReady(h) \/ Finish(h) \/ HandlerDies(h) \/ RestartAlive(h)

Spec == Init /\ [][Next]_vars

\* The router and the handlers run on (a command ends), and housekeeping restarts
\* what stays silent.
FairSpec ==
  /\ Spec
  /\ WF_vars(Take) /\ WF_vars(SendRequest)
  /\ \A h \in Handlers :
       /\ WF_vars(SendReady(h)) /\ WF_vars(Finish(h))
       /\ WF_vars(RestartDead(h)) /\ WF_vars(RestartNext(h))
  /\ WF_vars(RestartRouter)

-------------------------------------------------------------------------------
(* What the payload may rely on. *)

\* A process of a handler is the end of at most one command, although its
\* announcement survives it: the one it was working on, or the one sent after it.
OneLossPerProcess ==
  \A c, d \in Commands :
    fate[c] = "lost" /\ fate[d] = "lost" /\ givenTo[c] = givenTo[d] /\ c # d
      => givenTo[c] = Nobody

\* Every command that was published is handled or lost in the end: neither a
\* stale announcement nor a restart of the router leaves the system waiting.
EveryCommandDecided ==
  \A c \in Commands : fate[c] # "new" ~> fate[c] \in {"done", "lost"}

\* A handler whose announcement is gone would wait for ever, as a REQ socket does
\* not repeat itself: it is restarted.
NobodyForgotten ==
  \A h \in Handlers :
    (state[h] = "waiting" /\ Process(h) \notin ready)
      ~> ~(state[h] = "waiting" /\ Process(h) \notin ready)
===============================================================================
