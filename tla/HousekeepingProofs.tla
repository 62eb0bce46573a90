-------------------------- MODULE HousekeepingProofs --------------------------
(***************************************************************************)
(* Proofs about Housekeeping for every number of handlers, failures and     *)
(* messages: the map from pids to watchdogs follows every restart, and no   *)
(* handler and no PAT goes unwatched.                                       *)
(*                                                                          *)
(* The map alone is almost inductive.  What it needs besides is that a new  *)
(* process has a pid of its own: there are more pids than a handler's last  *)
(* process and the waiting messages can use up (FreshPids).                 *)
(***************************************************************************)
EXTENDS Housekeeping, FiniteSetTheorems, TLAPS

Messages ==
  [kind : {"HK_CONTROL_CH"}, origin : Pids]
    \cup [kind : {"CMD_PL_SET_HK"}, enables : SUBSET Enables]

TypeOK ==
  /\ pc \in {"missing_ch", "missing_pat", "missing_lb", "target", "receive", "control", "ended"}
  /\ pid \in [Handlers -> Pids] /\ \A h \in Handlers : pid[h][1] = h
  /\ up \subseteq Watchdogs
  /\ ch_pids \in [Handlers -> Pids]
  /\ DOMAIN wds \subseteq Pids /\ wds \in [DOMAIN wds -> Handlers]
  /\ armed \subseteq Watchdogs
  /\ alerts \in Seq(Handlers)
  /\ flags \subseteq Others
  /\ enabled \subseteq Enables
  /\ control \in Seq(Messages) /\ Len(control) <= MaxControl
  /\ failures \in 0 .. MaxFailures

IInv == TypeOK /\ WatchdogMap /\ AlwaysWatched

-------------------------------------------------------------------------------
(* Pids. *)

\* There is always a pid that nobody knows yet: the last process of a handler and the
\* messages waiting cannot have used up all of them.
LEMMA FreshPids ==
  ASSUME TypeOK, WatchdogMap, pc # "ended", NEW h \in Handlers
  PROVE  \E p \in Pids : p[1] = h /\ p \notin PidsInUse
<1> SUFFICES ASSUME \A p \in Pids : p[1] = h => p \in PidsInUse PROVE FALSE
  OBVIOUS
<1> DEFINE n == Len(control)
           K == 0 .. MaxControl + 1
           f == [i \in 0 .. n |->
                   IF i = 0 THEN pid[h][2]
                   ELSE IF control[i].kind = "HK_CONTROL_CH" THEN control[i].origin[2] ELSE 0]
<1>1. n \in Nat /\ n <= MaxControl /\ MaxControl \in Nat \ {0}
  BY BoundsAssumption DEF TypeOK
<1>2. \A i \in 1 .. n : control[i] \in Messages BY DEF TypeOK
<1>3. \A p \in Pids : p[2] \in K /\ p[1] \in Handlers /\ p = <<p[1], p[2]>> BY DEF Pids
<1>4. \A m \in Messages : m.kind = "HK_CONTROL_CH" => m.origin \in Pids BY DEF Messages
<1>5. pid[h] \in Pids BY DEF TypeOK
<1>6. f \in [0 .. n -> K]
  <2>1. 0 \in K BY <1>1
  <2>2. ASSUME NEW i \in 0 .. n PROVE f[i] \in K
    <3>1. CASE i = 0 BY <1>3, <1>5, <3>1
    <3>2. CASE i # 0
      <4>1. i \in 1 .. n BY <1>1, <3>2
      <4> QED BY <1>2, <1>3, <1>4, <2>1, <3>2, <4>1
    <3> QED BY <3>1, <3>2
  <2> QED BY <2>2
<1>7. ASSUME NEW k \in K PROVE \E i \in 0 .. n : f[i] = k
  <2> DEFINE p == <<h, k>>
  <2>1. p \in Pids /\ p[1] = h /\ p[2] = k BY DEF Pids
  <2>2. p \in PidsInUse BY <2>1
  <2>3. CASE p \in Range(pid) \cup DOMAIN wds
    <3>1. p \in Range(pid) BY <2>3 DEF WatchdogMap
    <3>2. PICK g \in Handlers : pid[g] = p BY <3>1 DEF Range, TypeOK
    <3>3. g = h BY <2>1, <3>2 DEF TypeOK
    <3>4. f[0] = k /\ 0 \in 0 .. n BY <1>1, <2>1, <3>2, <3>3
    <3> QED BY <3>4
  <2>4. CASE \E m \in Range(control) : m.kind = "HK_CONTROL_CH" /\ m.origin = p
    <3>1. PICK i \in 1 .. n : control[i].kind = "HK_CONTROL_CH" /\ control[i].origin = p
      BY <2>4 DEF Range, TypeOK
    <3>2. i \in 0 .. n /\ i # 0 BY <1>1
    <3>3. f[i] = k BY <2>1, <3>1, <3>2
    <3> QED BY <3>2, <3>3
  <2> QED BY <2>2, <2>3, <2>4 DEF PidsInUse
<1> HIDE DEF f, n
<1>8. f \in Surjection(0 .. n, K) BY <1>6, <1>7 DEF Surjection
<1>9. IsFiniteSet(0 .. n) /\ Cardinality(0 .. n) = n + 1 BY <1>1, FS_Interval
<1>10. Cardinality(K) = MaxControl + 2 BY <1>1, FS_Interval
<1>11. Cardinality(K) <= Cardinality(0 .. n) BY <1>8, <1>9, FS_Surjection
<1> QED BY <1>1, <1>9, <1>10, <1>11

\* So the pid a restarted handler gets is one that is not in use.
LEMMA FreshPidIsFresh ==
  ASSUME TypeOK, WatchdogMap, pc # "ended", NEW h \in Handlers
  PROVE  FreshPid(h) \in Pids /\ FreshPid(h)[1] = h /\ FreshPid(h) \notin PidsInUse
BY FreshPids DEF FreshPid

-------------------------------------------------------------------------------
(* Restarts. *)

\* The processes after systemctl: each new one has a pid of its own.
LEMMA SystemctlRestarts ==
  ASSUME TypeOK, WatchdogMap, pc # "ended", NEW R \in SUBSET Handlers,
         NEW dead \in SUBSET R, Systemctl(R, dead)
  PROVE  /\ pid' \in [Handlers -> Pids]
         /\ \A h \in Handlers : pid'[h][1] = h
         /\ \A h \in R : pid'[h] \notin DOMAIN wds
         /\ \A h \in Handlers \ R : pid'[h] = pid[h]
         /\ up' \subseteq Watchdogs /\ failures' \in 0 .. MaxFailures
<1>1. \A h \in R : FreshPid(h) \in Pids /\ FreshPid(h)[1] = h /\ FreshPid(h) \notin DOMAIN wds
  BY FreshPidIsFresh DEF PidsInUse
<1>2. pid' = [h \in Handlers |-> IF h \in R THEN FreshPid(h) ELSE pid[h]] BY DEF Systemctl
<1>3. up' \subseteq Watchdogs BY DEF Systemctl, TypeOK, Watchdogs
<1>4. failures' \in 0 .. MaxFailures
  <2>1. Cardinality(dead) \in Nat
    BY HandlersAssumption, FS_Subset, FS_CardinalityType
  <2>2. failures' = failures + Cardinality(dead) /\ failures' <= MaxFailures BY DEF Systemctl
  <2> QED BY <2>1, <2>2, BoundsAssumption DEF TypeOK
<1> HIDE DEF FreshPid
<1> QED BY <1>1, <1>2, <1>3, <1>4 DEF TypeOK

\* The map after a restart: it holds exactly the processes that run now.
LEMMA RekeyFollows ==
  ASSUME TypeOK, WatchdogMap, pc # "ended", NEW R \in SUBSET Handlers,
         pid' \in [Handlers -> Pids], \A h \in Handlers : pid'[h][1] = h,
         \A h \in R : pid'[h] \notin DOMAIN wds, \A h \in Handlers \ R : pid'[h] = pid[h],
         Rekey(R)
  PROVE  /\ ch_pids' = pid' /\ DOMAIN wds' = Range(pid')
         /\ \A h \in Handlers : wds'[pid'[h]] = h
         /\ DOMAIN wds' \subseteq Pids /\ wds' \in [DOMAIN wds' -> Handlers]
         /\ armed' = armed \cup R
<1> DEFINE kept == DOMAIN wds \ {ch_pids[h] : h \in R}
           dom == kept \cup {pid'[h] : h \in R}
<1>1. ch_pids = pid /\ DOMAIN wds = Range(pid) /\ \A h \in Handlers : wds[pid[h]] = h
  BY DEF WatchdogMap
<1>2. DOMAIN pid = Handlers /\ DOMAIN pid' = Handlers BY DEF TypeOK
<1>3. ch_pids' = pid'
  <2>1. ch_pids' = [h \in Handlers |-> IF h \in R THEN pid'[h] ELSE pid[h]]
    BY <1>1 DEF Rekey
  <2> QED BY <2>1
<1>4. kept = {pid[h] : h \in Handlers \ R}
  <2>1. \A g, h \in Handlers : pid[g] = pid[h] => g = h BY DEF TypeOK
  <2>2. DOMAIN wds = {pid[h] : h \in Handlers} BY <1>1, <1>2 DEF Range
  <2> QED BY <1>1, <2>1, <2>2
<1>5. dom = {pid'[h] : h \in Handlers} BY <1>4
<1>6. wds' = [p \in dom |-> IF p \in kept THEN wds[p] ELSE wds[ch_pids[p[1]]]]
  BY DEF Rekey, Moved
<1>7. DOMAIN wds' = Range(pid') BY <1>2, <1>5, <1>6 DEF Range
<1>8. ASSUME NEW h \in Handlers PROVE wds'[pid'[h]] = h
  <2>1. pid'[h] \in dom BY <1>5
  <2>2. CASE h \in R
    <3>1. pid'[h] \notin kept /\ pid'[h][1] = h BY <2>2
    <3> QED BY <1>1, <1>6, <2>1, <3>1
  <2>3. CASE h \notin R
    <3>1. pid'[h] = pid[h] /\ pid[h] \in kept BY <1>4, <2>3
    <3> QED BY <1>1, <1>6, <2>1, <3>1
  <2> QED BY <2>2, <2>3
<1>9. armed' = armed \cup R
  <2>1. \A h \in R : wds[ch_pids[h]] = h BY <1>1
  <2>2. armed' = armed \cup {wds[ch_pids[h]] : h \in R} BY DEF Rekey
  <2> QED BY <2>1, <2>2
<1>10. DOMAIN wds' \subseteq Pids BY <1>5, <1>6
<1>11. wds' \in [DOMAIN wds' -> Handlers]
  <2>1. \A p \in dom : wds'[p] \in Handlers BY <1>5, <1>8
  <2> QED BY <1>6, <2>1
<1> QED BY <1>3, <1>7, <1>8, <1>9, <1>10, <1>11

\* What a restart of handlers comes to: the loop ends, or map and timers follow.
LEMMA Restarted ==
  ASSUME TypeOK, WatchdogMap, pc # "ended", NEW R \in SUBSET Handlers, NEW next,
         RestartHandlers(R, next)
  PROVE  /\ pid' \in [Handlers -> Pids] /\ \A h \in Handlers : pid'[h][1] = h
         /\ up' \subseteq Watchdogs /\ failures' \in 0 .. MaxFailures
         /\ \/ pc' = "ended" /\ UNCHANGED <<ch_pids, wds, armed>>
            \/ /\ pc' = next /\ ch_pids' = pid' /\ DOMAIN wds' = Range(pid')
               /\ \A h \in Handlers : wds'[pid'[h]] = h
               /\ DOMAIN wds' \subseteq Pids /\ wds' \in [DOMAIN wds' -> Handlers]
               /\ armed' = armed \cup R
<1>1. PICK dead \in SUBSET R :
        /\ Systemctl(R, dead)
        /\ \/ Rekey(R) /\ pc' = next
           \/ pc' = "ended" /\ UNCHANGED <<ch_pids, wds, armed>>
  BY DEF RestartHandlers, known
<1>2. /\ pid' \in [Handlers -> Pids] /\ \A h \in Handlers : pid'[h][1] = h
      /\ \A h \in R : pid'[h] \notin DOMAIN wds
      /\ \A h \in Handlers \ R : pid'[h] = pid[h]
      /\ up' \subseteq Watchdogs /\ failures' \in 0 .. MaxFailures
  BY <1>1, SystemctlRestarts
<1>3. Rekey(R) => /\ ch_pids' = pid' /\ DOMAIN wds' = Range(pid')
                  /\ \A h \in Handlers : wds'[pid'[h]] = h
                  /\ DOMAIN wds' \subseteq Pids /\ wds' \in [DOMAIN wds' -> Handlers]
                  /\ armed' = armed \cup R
  BY <1>2, RekeyFollows
<1> QED BY <1>1, <1>2, <1>3

-------------------------------------------------------------------------------
(* The invariant. *)

\* The map is right when the loop starts.
LEMMA InitGood == Init => IInv
<1> SUFFICES ASSUME Init PROVE IInv OBVIOUS
<1>1. \A h \in Handlers : <<h, 0>> \in Pids BY BoundsAssumption DEF Pids
<1>2. pid \in [Handlers -> Pids] /\ \A h \in Handlers : pid[h] = <<h, 0>> BY <1>1 DEF Init
<1>3. /\ DOMAIN wds = Handlers \X {0} /\ DOMAIN wds \subseteq Pids
      /\ wds \in [DOMAIN wds -> Handlers]
      /\ \A h \in Handlers : wds[pid[h]] = h
  <2>1. wds = [p \in Handlers \X {0} |-> p[1]] BY DEF Init
  <2>2. \A p \in Handlers \X {0} : p[1] \in Handlers /\ p = <<p[1], 0>> OBVIOUS
  <2>3. Handlers \X {0} \subseteq Pids BY <1>1, <2>2
  <2> QED BY <1>2, <2>1, <2>2, <2>3
<1>4. Range(pid) = Handlers \X {0} BY <1>2 DEF Range
<1>5. TypeOK
  <2>1. failures \in 0 .. MaxFailures /\ Len(control) <= MaxControl
    BY BoundsAssumption DEF Init
  <2> QED BY <1>2, <1>3, <2>1 DEF Init, TypeOK, Watchdogs
<1>6. WatchdogMap BY <1>2, <1>3, <1>4 DEF Init, WatchdogMap
<1>7. AlwaysWatched BY DEF Init, AlwaysWatched, Watchdogs, Others
<1> QED BY <1>5, <1>6, <1>7 DEF IInv

\* A restart keeps what is known of the processes, and the handlers restarted are watched.
LEMMA RestartKeeps ==
  ASSUME IInv, pc # "ended", NEW R \in SUBSET Handlers,
         NEW next \in {"missing_pat", "receive"}, RestartHandlers(R, next),
         alerts' \in Seq(Handlers), flags' \subseteq flags, UNCHANGED <<control, enabled>>,
         pc' # "ended" => Handlers \cap (armed \cup Range(alerts))
                             \subseteq armed \cup R \cup Range(alerts'),
         "pat" \in flags => "pat" \in flags'
  PROVE  IInv'
<1>1. TypeOK /\ WatchdogMap BY DEF IInv
<1>2. /\ pid' \in [Handlers -> Pids] /\ \A h \in Handlers : pid'[h][1] = h
      /\ up' \subseteq Watchdogs /\ failures' \in 0 .. MaxFailures
      /\ \/ pc' = "ended" /\ UNCHANGED <<ch_pids, wds, armed>>
         \/ /\ pc' = next /\ ch_pids' = pid' /\ DOMAIN wds' = Range(pid')
            /\ \A h \in Handlers : wds'[pid'[h]] = h
            /\ DOMAIN wds' \subseteq Pids /\ wds' \in [DOMAIN wds' -> Handlers]
            /\ armed' = armed \cup R
  BY <1>1, Restarted
<1>3. CASE pc' = "ended" /\ UNCHANGED <<ch_pids, wds, armed>>
  <2>1. TypeOK' BY <1>1, <1>2, <1>3 DEF TypeOK
  <2> QED BY <1>3, <2>1 DEF IInv, WatchdogMap, AlwaysWatched
<1>4. CASE /\ pc' = next /\ ch_pids' = pid' /\ DOMAIN wds' = Range(pid')
           /\ \A h \in Handlers : wds'[pid'[h]] = h
           /\ DOMAIN wds' \subseteq Pids /\ wds' \in [DOMAIN wds' -> Handlers]
           /\ armed' = armed \cup R
  <2>1. TypeOK'
    <3>1. armed' \subseteq Watchdogs BY <1>1, <1>4 DEF TypeOK, Watchdogs
    <3> QED BY <1>1, <1>2, <1>4, <3>1 DEF TypeOK
  <2>2. WatchdogMap' BY <1>4 DEF WatchdogMap
  <2>3. AlwaysWatched' BY <1>4 DEF IInv, AlwaysWatched
  <2> QED BY <2>1, <2>2, <2>3 DEF IInv
<1> QED BY <1>2, <1>3, <1>4

\* A step that leaves the processes and the map alone.
LEMMA KnownKept ==
  ASSUME IInv, UNCHANGED <<pid, ch_pids, wds>>, TypeOK', AlwaysWatched',
         pc' # "ended" => pc # "ended"
  PROVE  IInv'
BY DEF IInv, WatchdogMap

\* An alert that is taken from the front leaves those behind it.
LEMMA AlertTaken ==
  ASSUME alerts \in Seq(Handlers), alerts # <<>>
  PROVE  /\ Tail(alerts) \in Seq(Handlers) /\ Head(alerts) \in Handlers
         /\ Range(alerts) \subseteq {Head(alerts)} \cup Range(Tail(alerts))
<1>1. \A i \in 1 .. Len(alerts) : i = 1 \/ i - 1 \in 1 .. Len(Tail(alerts)) OBVIOUS
<1>2. \A i \in 1 .. Len(alerts) : i # 1 => alerts[i] = Tail(alerts)[i - 1] BY <1>1
<1>3. /\ Head(alerts) = alerts[1] /\ Tail(alerts) \in Seq(Handlers) /\ alerts[1] \in Handlers
      /\ DOMAIN alerts = 1 .. Len(alerts) /\ DOMAIN Tail(alerts) = 1 .. Len(Tail(alerts))
  OBVIOUS
<1>4. Range(alerts) = {alerts[i] : i \in 1 .. Len(alerts)} BY <1>3 DEF Range
<1>5. Range(Tail(alerts)) = {Tail(alerts)[i] : i \in 1 .. Len(Tail(alerts))} BY <1>3 DEF Range
<1> QED BY <1>1, <1>2, <1>3, <1>4, <1>5

\* handle_missing_ch keeps the invariant: an alert is taken and its handler restarted.
LEMMA MissingChStep == IInv /\ MissingCh => IInv'
<1> SUFFICES ASSUME IInv, MissingCh PROVE IInv' OBVIOUS
<1>1. TypeOK /\ AlwaysWatched /\ pc # "ended" /\ alerts \in Seq(Handlers)
  BY DEF IInv, TypeOK, MissingCh
<1>2. CASE /\ alerts = <<>> /\ pc' = "missing_pat" /\ UNCHANGED <<known, timers, processes>>
  BY <1>1, <1>2, KnownKept
     DEF MissingCh, known, timers, processes, IInv, TypeOK, AlwaysWatched
<1>3. CASE /\ alerts # <<>> /\ "ch" \notin enabled /\ alerts' = Tail(alerts)
           /\ pc' = "missing_pat" /\ UNCHANGED <<known, armed, flags, processes>>
  <2>1. UNCHANGED <<pid, up, failures, ch_pids, wds, armed, flags, enabled, control>>
    BY <1>3 DEF MissingCh, known, processes
  <2>2. TypeOK' BY <1>1, <1>3, <2>1, AlertTaken DEF TypeOK
  <2>3. AlwaysWatched' BY <1>1, <1>3, <2>1 DEF AlwaysWatched
  <2> QED BY <1>1, <2>1, <2>2, <2>3, KnownKept
<1>4. CASE /\ alerts # <<>> /\ alerts' = Tail(alerts)
           /\ RestartHandlers({Head(alerts)}, "missing_pat") /\ UNCHANGED flags
  <2>1. /\ Tail(alerts) \in Seq(Handlers) /\ Head(alerts) \in Handlers
        /\ Range(alerts) \subseteq {Head(alerts)} \cup Range(Tail(alerts))
    BY <1>1, <1>4, AlertTaken
  <2>2. UNCHANGED <<control, enabled>> BY DEF MissingCh
  <2> QED BY <1>1, <1>4, <2>1, <2>2, RestartKeeps
<1> QED BY <1>2, <1>3, <1>4 DEF MissingCh

\* The restart of the whole target watches every handler anew.
LEMMA RestartTargetStep == IInv /\ RestartTarget => IInv'
<1> SUFFICES ASSUME IInv, RestartTarget PROVE IInv' OBVIOUS
<1>1. /\ pc # "ended" /\ RestartHandlers(Handlers, "receive") /\ flags' = flags \ {"lb"}
      /\ UNCHANGED <<alerts, control, enabled>>
  BY DEF RestartTarget
<1>2. alerts' \in Seq(Handlers) BY <1>1 DEF IInv, TypeOK
<1> QED BY <1>1, <1>2, RestartKeeps

\* The other parts of the loop keep the invariant.
LEMMA LoopStep == IInv /\ (MissingPat \/ MissingLb \/ Receive) => IInv'
<1> SUFFICES ASSUME IInv, MissingPat \/ MissingLb \/ Receive PROVE IInv' OBVIOUS
<1>1. TypeOK /\ AlwaysWatched /\ pc # "ended"
  BY DEF IInv, MissingPat, MissingLb, Receive
<1>2. /\ UNCHANGED <<pid, ch_pids, wds, alerts, failures, control, enabled>>
      /\ flags' \subseteq flags /\ armed \subseteq armed'
      /\ pc' \in {"missing_lb", "target", "receive", "control"}
  BY DEF MissingPat, MissingLb, Receive, RestartOther, known, processes
<1>3. up' \subseteq Watchdogs
  BY <1>1 DEF MissingPat, MissingLb, Receive, RestartOther, processes, TypeOK, Watchdogs, Others
<1>4. armed' \subseteq Watchdogs
  <2>1. CASE MissingPat \/ MissingLb
    BY <1>1, <2>1 DEF MissingPat, MissingLb, RestartOther, TypeOK, Watchdogs, Others
  <2>2. CASE Receive
    <3>1. PICK heard \in SUBSET Others, P \in SUBSET Pids :
            armed' = armed \cup heard \cup {wds[p] : p \in P \cap DOMAIN wds}
      BY <2>2 DEF Receive
    <3>2. \A p \in DOMAIN wds : wds[p] \in Handlers BY <1>1 DEF TypeOK
    <3> QED BY <1>1, <3>1, <3>2 DEF TypeOK, Watchdogs
  <2> QED BY <2>1, <2>2
<1>5. "pat" \in enabled /\ "pat" \in flags => "pat" \in armed' \cup flags'
  BY DEF MissingPat, MissingLb, Receive, RestartOther
<1>6. AlwaysWatched' BY <1>1, <1>2, <1>5 DEF AlwaysWatched
<1>7. TypeOK' BY <1>1, <1>2, <1>3, <1>4 DEF TypeOK
<1> QED BY <1>1, <1>2, <1>6, <1>7, KnownKept

\* A message is appended to those that wait, or one taken from the front.
LEMMA ControlTyped ==
  ASSUME TypeOK
  PROVE  /\ \A m \in Messages : Len(control) < MaxControl
              => Append(control, m) \in Seq(Messages) /\ Len(Append(control, m)) <= MaxControl
         /\ control # <<>> => /\ Tail(control) \in Seq(Messages) /\ Head(control) \in Messages
                              /\ Len(Tail(control)) <= MaxControl
<1>1. control \in Seq(Messages) /\ Len(control) <= MaxControl /\ MaxControl \in Nat
  BY BoundsAssumption DEF TypeOK
<1> QED BY <1>1

\* Whatever the ground has set is in force at once: all the timers run.
LEMMA ControlStep == IInv /\ Control => IInv'
<1> SUFFICES ASSUME IInv, Control PROVE IInv' OBVIOUS
<1>1. TypeOK /\ WatchdogMap /\ AlwaysWatched /\ pc = "control"
  BY DEF IInv, Control
<1>2. UNCHANGED <<pid, up, failures, ch_pids, wds, alerts, flags>>
  BY DEF Control, known, processes
<1>3. \A p \in DOMAIN wds : wds[p] \in Handlers BY <1>1 DEF TypeOK
<1>4. CASE control = <<>> /\ pc' = "missing_ch" /\ UNCHANGED <<control, armed, enabled>>
  <2>1. TypeOK' BY <1>1, <1>2, <1>4 DEF TypeOK
  <2>2. AlwaysWatched' BY <1>1, <1>2, <1>4 DEF AlwaysWatched
  <2> QED BY <1>1, <1>2, <2>1, <2>2, KnownKept
<1>5. ASSUME control # <<>>, control' = Tail(control), HandlePeriod(Head(control).origin)
      PROVE  IInv'
  <2>1. /\ enabled' = enabled /\ pc' \in {"missing_ch", "ended"} /\ armed \subseteq armed'
        /\ armed' \subseteq Watchdogs
    BY <1>1, <1>3, <1>5 DEF HandlePeriod, TypeOK, Watchdogs
  <2>2. TypeOK' BY <1>1, <1>2, <1>5, <2>1, ControlTyped DEF TypeOK
  <2>3. AlwaysWatched' BY <1>1, <1>2, <2>1 DEF AlwaysWatched
  <2> QED BY <1>1, <1>2, <2>2, <2>3, KnownKept
<1>6. ASSUME control # <<>>, control' = Tail(control), Head(control).kind = "CMD_PL_SET_HK",
             HandleHkCommand(Head(control).enables), pc' = "missing_ch"
      PROVE  IInv'
  <2>1. enabled' \subseteq Enables
    <3>1. Head(control) \in Messages BY <1>1, <1>6, ControlTyped
    <3> QED BY <1>6, <3>1 DEF HandleHkCommand, Messages
  <2>2. armed' = Others \cup {wds[ch_pids[h]] : h \in Handlers} BY <1>6 DEF HandleHkCommand
  <2>3. armed' = Watchdogs BY <1>1, <2>2 DEF WatchdogMap, Watchdogs
  <2>4. TypeOK' BY <1>1, <1>2, <1>6, <2>1, <2>3, ControlTyped DEF TypeOK
  <2>5. AlwaysWatched' BY <2>3 DEF AlwaysWatched, Watchdogs, Others
  <2> QED BY <1>1, <1>2, <2>4, <2>5, KnownKept
<1> QED BY <1>4, <1>5, <1>6 DEF Control

\* Commands and deaths leave watchdogs and map alone.
LEMMA SurroundingsStep == IInv /\ (SetHkChPeriod \/ SetHk \/ Die) => IInv'
<1> SUFFICES ASSUME IInv, SetHkChPeriod \/ SetHk \/ Die PROVE IInv' OBVIOUS
<1>1. TypeOK /\ AlwaysWatched BY DEF IInv
<1>2. UNCHANGED <<pc, pid, ch_pids, wds, armed, alerts, flags, enabled>>
  BY DEF SetHkChPeriod, SetHk, Die, known, timers, processes
<1>3. control' \in Seq(Messages) /\ Len(control') <= MaxControl
  <2>1. CASE SetHkChPeriod
    <3>1. PICK h \in Handlers :
            control' = Append(control, [kind |-> "HK_CONTROL_CH", origin |-> pid[h]])
      BY <2>1 DEF SetHkChPeriod
    <3>2. [kind |-> "HK_CONTROL_CH", origin |-> pid[h]] \in Messages
      BY <1>1 DEF Messages, TypeOK
    <3> QED BY <1>1, <2>1, <3>1, <3>2, ControlTyped DEF SetHkChPeriod
  <2>2. CASE SetHk
    <3>1. PICK E \in Settings :
            control' = Append(control, [kind |-> "CMD_PL_SET_HK", enables |-> E])
      BY <2>2 DEF SetHk
    <3>2. [kind |-> "CMD_PL_SET_HK", enables |-> E] \in Messages
      BY SettingsAssumption DEF Messages
    <3> QED BY <1>1, <2>2, <3>1, <3>2, ControlTyped DEF SetHk
  <2>3. CASE Die BY <1>1, <2>3 DEF Die, TypeOK
  <2> QED BY <2>1, <2>2, <2>3
<1>4. up' \subseteq up /\ failures' \in 0 .. MaxFailures
  BY <1>1, BoundsAssumption DEF SetHkChPeriod, SetHk, Die, processes, TypeOK
<1>5. TypeOK' BY <1>1, <1>2, <1>3, <1>4 DEF TypeOK
<1>6. AlwaysWatched' BY <1>1, <1>2 DEF AlwaysWatched
<1> QED BY <1>2, <1>5, <1>6, KnownKept

\* A watchdog that expires leaves its alert.
LEMMA ExpireStep ==
  ASSUME IInv, NEW w \in Watchdogs, Expire(w)
  PROVE  IInv'
<1>1. TypeOK /\ AlwaysWatched BY DEF IInv
<1>2. /\ UNCHANGED <<pc, pid, up, failures, ch_pids, wds, control, enabled>>
      /\ armed' = armed \ {w}
  BY DEF Expire, known, processes
<1>3. CASE w \in Others /\ flags' = flags \cup {w} /\ UNCHANGED alerts
  <2>1. w \notin Handlers BY <1>3, HandlersAssumption
  <2>2. TypeOK' BY <1>1, <1>2, <1>3 DEF TypeOK
  <2>3. AlwaysWatched' BY <1>1, <1>2, <1>3, <2>1 DEF AlwaysWatched
  <2> QED BY <1>2, <2>2, <2>3, KnownKept
<1>4. CASE w \in Handlers /\ alerts' = Append(alerts, w) /\ UNCHANGED flags
  <2>1. w # "pat" BY <1>4, HandlersAssumption DEF Others
  <2>2. alerts' \in Seq(Handlers) /\ Range(alerts) \cup {w} \subseteq Range(alerts')
    <3>1. alerts \in Seq(Handlers) BY <1>1 DEF TypeOK
    <3>2. /\ DOMAIN alerts = 1 .. Len(alerts) /\ DOMAIN alerts' = 1 .. Len(alerts) + 1
          /\ alerts'[Len(alerts) + 1] = w /\ Len(alerts) \in Nat
          /\ \A i \in 1 .. Len(alerts) : alerts'[i] = alerts[i]
          /\ alerts' \in Seq(Handlers)
      BY <1>4, <3>1
    <3>3. 1 .. Len(alerts) \subseteq 1 .. Len(alerts) + 1 /\ Len(alerts) + 1 \in 1 .. Len(alerts) + 1
      BY <3>2
    <3> QED BY <3>2, <3>3 DEF Range
  <2>3. TypeOK' BY <1>1, <1>2, <1>4, <2>2 DEF TypeOK
  <2>4. AlwaysWatched' BY <1>1, <1>2, <1>4, <2>1, <2>2 DEF AlwaysWatched
  <2> QED BY <1>2, <2>3, <2>4, KnownKept
<1> QED BY <1>3, <1>4 DEF Expire

\* The invariant of the loop under every order of alerts, commands, deaths and restarts
\* (housekeeping.py, the Housekeeping loop).
THEOREM HousekeepingInvariant == Spec => []IInv
<1>1. IInv /\ [Next]_vars => IInv'
  <2> SUFFICES ASSUME IInv, [Next]_vars PROVE IInv' OBVIOUS
  <2>1. CASE Loop
    BY <2>1, MissingChStep, RestartTargetStep, LoopStep, ControlStep DEF Loop
  <2>2. CASE SetHkChPeriod \/ SetHk \/ Die BY <2>2, SurroundingsStep
  <2>3. CASE \E w \in Watchdogs : Expire(w) BY <2>3, ExpireStep
  <2>4. CASE UNCHANGED vars
    BY <2>4 DEF vars, known, timers, processes, IInv, TypeOK, WatchdogMap, AlwaysWatched
  <2> QED BY <2>1, <2>2, <2>3, <2>4 DEF Next
<1> QED BY <1>1, InitGood, PTL DEF Spec

\* Through all restarts the map holds the running processes, each with its watchdog.
THEOREM MapFollows == Spec => []WatchdogMap
BY HousekeepingInvariant, PTL DEF IInv

\* No handler and no PAT goes unwatched while its restarts are enabled.
THEOREM Watched == Spec => []AlwaysWatched
BY HousekeepingInvariant, PTL DEF IInv
===============================================================================
