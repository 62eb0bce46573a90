----------------------------- MODULE Housekeeping -----------------------------
(***************************************************************************)
(* housekeeping/housekeeping.py: who watches the command handlers, the      *)
(* router and PAT, and restarts them.                                       *)
(*                                                                          *)
(* A watchdog is a one-shot timer.  A message from the watched process      *)
(* starts it again; if it expires, its thread leaves an alert, which the    *)
(* main loop answers with a restart.  The watchdogs of the handlers are     *)
(* found through the pid a heartbeat carries, so the map from pids to       *)
(* watchdogs has to follow every restart.  RAISE_ENABLE is 1: an exception  *)
(* that is reported is also raised again, and ends the loop.                *)
(***************************************************************************)
EXTENDS Integers, FiniteSets, Sequences, Functions

CONSTANTS
  Handlers,      \* the instances of commandhandler@.service
  Settings,      \* the enables the ground may set
  MaxFailures,   \* bound on the processes that die by themselves
  MaxAlerts,     \* bound on the alerts of one handler in missing_ch_queue
  MaxControl     \* bound on the messages waiting in hk_control_socket

Enables == {"ch", "pat", "lb"}   \* the *_restart_enable flags
Others == {"pat", "lb"}          \* one process each, not known by a pid
Watchdogs == Handlers \cup Others

ASSUME HandlersAssumption == IsFiniteSet(Handlers) /\ Handlers \cap Others = {}
ASSUME SettingsAssumption == Settings \subseteq SUBSET Enables
ASSUME BoundsAssumption ==
  MaxFailures \in Nat /\ MaxAlerts \in Nat \ {0} /\ MaxControl \in Nat \ {0}

\* A pid: the handler it was given to, and which of that handler's pids it is.
\* More than are ever known to housekeeping at a time.
Pids == Handlers \X (0 .. MaxControl + 1)

VARIABLES
  pc,        \* where the main loop is
  pid,       \* of each handler: the pid of its last process
  up,        \* the services whose process lives
  ch_pids,   \* self.ch_pids
  wds,       \* self.ch_heartbeat_wds: from pids to the watchdogs of handlers
  armed,     \* the watchdogs whose timer runs
  alerts,    \* self.missing_ch_queue
  flags,     \* missing_pat_flag, missing_lb_flag
  enabled,   \* ch_restart_enable, pat_restart_enable, lb_restart_enable
  control,   \* messages waiting in hk_control_socket
  failures   \* processes that died by themselves

known == <<ch_pids, wds>>
timers == <<armed, alerts, flags>>
processes == <<pid, up, failures>>
vars == <<pc, known, timers, processes, control, enabled>>

Init ==
  /\ pc = "missing_ch"
  /\ pid = [h \in Handlers |-> <<h, 0>>]
  /\ up = Watchdogs
  /\ ch_pids = pid
  /\ wds = [p \in Handlers \X {0} |-> p[1]]
  /\ armed = Watchdogs /\ alerts = <<>> /\ flags = {}
  /\ enabled = Enables
  /\ control = <<>>
  /\ failures = 0

-------------------------------------------------------------------------------
(* The watched processes and the ground. *)

\* set_hk_ch_period: a handler announces how long it may be silent.
SetHkChPeriod ==
  /\ Len(control) < MaxControl
  /\ \E h \in Handlers \cap up :
       control' = Append(control, [kind |-> "HK_CONTROL_CH", origin |-> pid[h]])
  /\ UNCHANGED <<pc, known, timers, processes, enabled>>

\* CMD_PL_SET_HK, passed on by a handler.
SetHk ==
  /\ Len(control) < MaxControl
  /\ \E E \in Settings :
       control' = Append(control, [kind |-> "CMD_PL_SET_HK", enables |-> E])
  /\ UNCHANGED <<pc, known, timers, processes, enabled>>

Die ==
  /\ failures < MaxFailures /\ failures' = failures + 1
  /\ \E s \in up : up' = up \ {s}
  /\ UNCHANGED <<pc, known, timers, pid, control, enabled>>

-------------------------------------------------------------------------------
(* The timer threads. *)

\* A watchdog expires: late messages and a busy loop look like silence, and an
\* expiry may come just before the main loop cancels the timer.
Expire(w) ==
  /\ w \in armed
  /\ armed' = armed \ {w}
  /\ \/ /\ w \in Others
        /\ flags' = flags \cup {w}
        /\ UNCHANGED alerts
     \/ /\ w \in Handlers /\ Len(SelectSeq(alerts, LAMBDA h : h = w)) < MaxAlerts
        /\ alerts' = Append(alerts, w)
        /\ UNCHANGED flags
  /\ UNCHANGED <<pc, known, processes, control, enabled>>

-------------------------------------------------------------------------------
(* The main loop. *)

\* The pids that still mean something to somebody, and one that does not.
PidsInUse ==
  Range(pid) \cup DOMAIN wds
    \cup {m.origin : m \in {c \in Range(control) : c.kind = "HK_CONTROL_CH"}}
FreshPid(h) == CHOOSE p \in Pids : p[1] = h /\ p \notin PidsInUse

\* systemctl restart: each of the handlers in R runs in a new process, which may
\* die at once.
Systemctl(R, dead) ==
  /\ pid' = [h \in Handlers |-> IF h \in R THEN FreshPid(h) ELSE pid[h]]
  /\ up' = (up \cup R) \ dead
  /\ failures' = failures + Cardinality(dead) /\ failures' <= MaxFailures

\* The map with the pids in kept and the new ones of the handlers in R.
Moved(kept, R) ==
  [p \in kept \cup {pid'[h] : h \in R} |->
     IF p \in kept THEN wds[p] ELSE wds[ch_pids[p[1]]]]

RekeyForgotten(R) ==  \* faulty: the watchdog stays under the old pid as well
  /\ ch_pids' = [h \in Handlers |-> IF h \in R THEN pid'[h] ELSE ch_pids[h]]
  /\ wds' = Moved(DOMAIN wds, R)
  /\ armed' = armed \cup {wds[ch_pids[h]] : h \in R}

RekeyUnarmed(R) ==  \* faulty: the watchdog is only cancelled
  /\ ch_pids' = [h \in Handlers |-> IF h \in R THEN pid'[h] ELSE ch_pids[h]]
  /\ wds' = Moved(DOMAIN wds \ {ch_pids[h] : h \in R}, R)
  /\ armed' = armed \ {wds[ch_pids[h]] : h \in R}

\* The watchdog of each handler in R moves from the old pid to the new one and
\* starts again.
Rekey(R) ==
  /\ ch_pids' = [h \in Handlers |-> IF h \in R THEN pid'[h] ELSE ch_pids[h]]
  /\ wds' = Moved(DOMAIN wds \ {ch_pids[h] : h \in R}, R)
  /\ armed' = armed \cup {wds[ch_pids[h]] : h \in R}

\* get_service_pid raises for a dead process; nothing catches what
\* restart_process raises again.
RestartHandlers(R, next) ==
  \E dead \in SUBSET R :
    /\ Systemctl(R, dead)
    /\ \/ dead = {} /\ Rekey(R) /\ pc' = next
       \/ dead # {} /\ pc' = "ended" /\ UNCHANGED <<known, armed>>

MissingCh ==
  /\ pc = "missing_ch"
  /\ \/ /\ alerts = <<>>
        /\ pc' = "missing_pat"
        /\ UNCHANGED <<known, timers, processes>>
     \/ /\ alerts # <<>> /\ "ch" \notin enabled
        /\ alerts' = Tail(alerts)
        /\ pc' = "missing_pat"
        /\ UNCHANGED <<known, armed, flags, processes>>
     \/ /\ alerts # <<>> /\ "ch" \in enabled
        /\ alerts' = Tail(alerts)
        /\ RestartHandlers({Head(alerts)}, "missing_pat")
        /\ UNCHANGED flags
  /\ UNCHANGED <<control, enabled>>

\* The watchdog of w starts again when its process does.
RestartOther(w) ==
  IF w \in flags \cap enabled
  THEN up' = up \cup {w} /\ armed' = armed \cup {w}
  ELSE UNCHANGED <<up, armed>>

MissingPat ==
  /\ pc = "missing_pat"
  /\ RestartOther("pat")
  /\ flags' = flags \ {"pat"}
  /\ pc' = "missing_lb"
  /\ UNCHANGED <<known, alerts, pid, failures, control, enabled>>

\* restart_process(HK_LB_ID) up to the start of the router's watchdog.
MissingLb ==
  /\ pc = "missing_lb"
  /\ RestartOther("lb")
  /\ IF "lb" \in flags \cap enabled
     THEN pc' = "target" /\ UNCHANGED flags
     ELSE pc' = "receive" /\ flags' = flags \ {"lb"}
  /\ UNCHANGED <<known, alerts, pid, failures, control, enabled>>

\* The rest of it, with all the handlers; only then is the flag cleared.
RestartTarget ==
  /\ pc = "target"
  /\ RestartHandlers(Handlers, "receive")
  /\ flags' = flags \ {"lb"}
  /\ UNCHANGED <<alerts, control, enabled>>

\* At most one message from the router, from PAT and from a handler: a kick cancels
\* and starts the watchdog.  Messages may have waited for any time, so the pid may
\* be one that has been replaced: it is reported and forgotten.
Receive ==
  /\ pc = "receive"
  /\ \E heard \in SUBSET Others, P \in {{}} \cup {{p} : p \in Pids} :
       armed' = armed \cup heard \cup {wds[p] : p \in P \cap DOMAIN wds}
  /\ pc' = "control"
  /\ UNCHANGED <<known, alerts, flags, processes, control, enabled>>

HandleHkCommandQuietly(E) ==  \* faulty: timers that have expired stay so
  /\ enabled' = E
  /\ UNCHANGED armed

\* handle_hk_command: every timer is cancelled and started.
HandleHkCommand(E) ==
  /\ enabled' = E
  /\ armed' = Others \cup {wds[ch_pids[h]] : h \in Handlers}

\* HK_CONTROL_CH: the watchdog of the sender starts again, with the new time-out.
\* Nothing catches the KeyError of a pid that has been replaced.
HandlePeriod(p) ==
  /\ UNCHANGED enabled
  /\ \/ p \in DOMAIN wds /\ armed' = armed \cup {wds[p]} /\ pc' = "missing_ch"
     \/ p \notin DOMAIN wds /\ UNCHANGED armed /\ pc' = "ended"

Control ==
  /\ pc = "control"
  /\ \/ /\ control = <<>> /\ pc' = "missing_ch"
        /\ UNCHANGED <<control, armed, enabled>>
     \/ /\ control # <<>> /\ control' = Tail(control)
        /\ LET m == Head(control)
           IN \/ m.kind = "HK_CONTROL_CH" /\ HandlePeriod(m.origin)
              \/ /\ m.kind = "CMD_PL_SET_HK"
                 /\ HandleHkCommand(m.enables) /\ pc' = "missing_ch"
  /\ UNCHANGED <<known, alerts, flags, processes>>

Loop == MissingCh \/ MissingPat \/ MissingLb \/ RestartTarget \/ Receive \/ Control

Next ==
  \/ Loop
  \/ SetHkChPeriod \/ SetHk \/ Die
  \/ \E w \in Watchdogs : Expire(w)

Spec == Init /\ [][Next]_vars

\* The loop runs, a timer that is left alone expires.
FairSpec == Spec /\ WF_vars(Loop) /\ \A w \in Watchdogs : WF_vars(Expire(w))

-------------------------------------------------------------------------------
(* What the payload relies on housekeeping for. *)

\* Through restarts of single handlers and of all of them, the map from pids to
\* watchdogs holds the processes that run, each with its own watchdog: no
\* heartbeat is taken for another handler's or goes unrecognized.
WatchdogMap ==
  pc # "ended" => /\ ch_pids = pid
                  /\ DOMAIN wds = Range(pid)
                  /\ \A h \in Handlers : wds[pid[h]] = h

\* As long as the restarts of handlers (of PAT) are enabled, each of their
\* watchdogs runs or its alert is still to be answered, although a watchdog fires
\* once and an alert that is answered while restarts are disabled is dropped.
AlwaysWatched ==
  pc # "ended" =>
    /\ "ch" \in enabled => Handlers \subseteq armed \cup Range(alerts)
    /\ "pat" \in enabled => "pat" \in armed \cup flags

\* A handler or a PAT process that has died is restarted, if restarts stay enabled
\* and housekeeping lives.
DeadRestarted ==
  \A s \in Handlers \cup {"pat"} :
    <>[]((IF s = "pat" THEN "pat" ELSE "ch") \in enabled)
      => (s \notin up ~> s \in up \/ pc = "ended")
===============================================================================
