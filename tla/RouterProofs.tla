------------------------------ MODULE RouterProofs ------------------------------
(***************************************************************************)
(* Proofs about Router for every set of handlers and every number of        *)
(* commands, crashes and restarts: a process is the end of one command.     *)
(*                                                                          *)
(* OneLossPerProcess is not inductive: a process that has lost a command    *)
(* must not be sent another, so its announcement has to be used up.         *)
(* FreeWhenReady says that an announcement means no command has been lost   *)
(* or is being worked on, WaitsWhenReady that its process is not at work,   *)
(* LosersAreGone that who has lost a command announces nothing again.       *)
(***************************************************************************)
EXTENDS Router, TLAPS

Processes == Handlers \X Nat

TypeOK ==
  /\ fate \in [Commands -> {"new", "inbox", "held", "given", "done", "lost"}]
  /\ givenTo \in [Commands -> Processes \cup {Nobody}]
  /\ inbox \in Seq(Commands)
  /\ ready \subseteq Processes
  /\ state \in [Handlers -> {"starting", "waiting", "working", "dead"}]
  /\ gen \in [Handlers -> Nat]

\* The SUB socket holds the commands that are in it, once each.
InboxIsFate ==
  \A i \in 1 .. Len(inbox) :
    /\ fate[inbox[i]] = "inbox"
    /\ \A j \in 1 .. Len(inbox) : inbox[i] = inbox[j] => i = j

\* A command that has not left the router is nobody's.
Unsent == \A c \in Commands : fate[c] \in {"new", "inbox", "held"} => givenTo[c] = Nobody

\* Who has announced itself or been sent a command has been started, and has got
\* past its start.
Started(p) ==
  /\ p[2] <= gen[p[1]]
  /\ p[2] = gen[p[1]] => state[p[1]] # "starting"

OnlyStarted ==
  /\ \A p \in ready : Started(p)
  /\ \A c \in Commands : givenTo[c] # Nobody => Started(givenTo[c])

\* The process of an announcement waits, if it lives.
WaitsWhenReady == \A p \in ready : Alive(p) => state[p[1]] = "waiting"

\* All it was sent before is done.
FreeWhenReady == \A p \in ready, c \in Commands : givenTo[c] = p => fate[c] = "done"

\* A command that is with a process is worked on, by a process that lives.
GivenIsWorkedOn ==
  \A c \in Commands : fate[c] = "given" =>
    /\ givenTo[c] \in Processes /\ Alive(givenTo[c])
    /\ state[givenTo[c][1]] = "working"

\* A process works on one command.
OneAtATime ==
  \A c, d \in Commands :
    fate[c] = "given" /\ fate[d] = "given" /\ givenTo[c] = givenTo[d] => c = d

\* Who has lost a command is gone.
LosersAreGone ==
  \A c \in Commands : fate[c] = "lost" /\ givenTo[c] # Nobody => ~Alive(givenTo[c])

IInv ==
  /\ TypeOK /\ InboxIsFate /\ Unsent /\ OnlyStarted /\ WaitsWhenReady /\ FreeWhenReady
  /\ GivenIsWorkedOn /\ OneAtATime /\ LosersAreGone /\ OneLossPerProcess

-------------------------------------------------------------------------------
\* The invariant holds at the start.
LEMMA InitGood == Init => IInv
BY DEF Init, IInv, TypeOK, InboxIsFate, Unsent, OnlyStarted, Started, WaitsWhenReady,
       FreeWhenReady, GivenIsWorkedOn, OneAtATime, LosersAreGone, OneLossPerProcess, Alive,
       Process, Nobody, Processes

\* A process is somebody, and is known by its handler and its number.
LEMMA ProcessIsPair ==
  /\ Nobody \notin Processes
  /\ \A p \in Processes : p[1] \in Handlers /\ p[2] \in Nat /\ p = <<p[1], p[2]>>
BY DEF Processes, Nobody

\* Losing commands leaves the others as they were.
LEMMA Lost ==
  ASSUME TypeOK, NEW L, Losing(L)
  PROVE  /\ fate' \in [Commands -> {"new", "inbox", "held", "given", "done", "lost"}]
         /\ \A c \in Commands : fate'[c] = IF c \in L THEN "lost" ELSE fate[c]
BY DEF TypeOK, Losing

\* A published command is given to nobody yet.
LEMMA PublishKeeps == IInv /\ Publish => IInv'
<1> SUFFICES ASSUME IInv, Publish PROVE IInv'
  OBVIOUS
<1>1. PICK c \in Commands :
        /\ fate[c] = "new"
        /\ fate' = [fate EXCEPT ![c] = IF router = "down" THEN "lost" ELSE "inbox"]
        /\ inbox' = IF router = "down" THEN inbox ELSE Append(inbox, c)
  BY DEF Publish
<1>2. UNCHANGED <<givenTo, ready, state, gen>> BY DEF Publish
<1>3. \A d \in Commands : d # c => fate'[d] = fate[d]
  BY <1>1 DEF IInv, TypeOK
<1>4. /\ fate'[c] \in {"inbox", "lost"} /\ givenTo[c] = Nobody
      /\ fate'[c] = IF router = "down" THEN "lost" ELSE "inbox"
  BY <1>1 DEF IInv, TypeOK, Unsent
<1>5. TypeOK' BY <1>1, <1>2 DEF IInv, TypeOK
<1>6. InboxIsFate'
  <2>1. CASE router = "down" BY <1>1, <1>3, <2>1 DEF IInv, InboxIsFate, TypeOK
  <2>2. CASE router # "down"
    <3>1. /\ Len(inbox') = Len(inbox) + 1 /\ inbox'[Len(inbox')] = c
          /\ \A i \in 1 .. Len(inbox) : inbox'[i] = inbox[i] /\ inbox[i] \in Commands
      BY <1>1, <2>2 DEF IInv, TypeOK
    <3>2. \A i \in 1 .. Len(inbox) : inbox[i] # c BY <1>1 DEF IInv, InboxIsFate
    <3>3. \A i \in 1 .. Len(inbox') :
             \/ i \in 1 .. Len(inbox) /\ fate'[inbox'[i]] = "inbox" /\ inbox'[i] # c
             \/ i = Len(inbox') /\ i \notin 1 .. Len(inbox) /\ inbox'[i] = c
      BY <1>3, <3>1, <3>2 DEF IInv, InboxIsFate, TypeOK
    <3> QED BY <1>4, <2>2, <3>1, <3>3 DEF IInv, InboxIsFate
  <2> QED BY <2>1, <2>2
<1>7. Unsent' BY <1>2, <1>3, <1>4 DEF IInv, Unsent
<1>8. OnlyStarted' BY <1>2 DEF IInv, OnlyStarted, Started
<1>9. WaitsWhenReady' BY <1>2 DEF IInv, WaitsWhenReady, Alive, Process
<1>10. FreeWhenReady'
  BY <1>2, <1>3, <1>4, ProcessIsPair DEF IInv, TypeOK, FreeWhenReady
<1>11. GivenIsWorkedOn' BY <1>2, <1>3, <1>4 DEF IInv, GivenIsWorkedOn, Alive, Process
<1>12. OneAtATime' BY <1>2, <1>3, <1>4 DEF IInv, OneAtATime
<1>13. LosersAreGone' BY <1>2, <1>3, <1>4 DEF IInv, LosersAreGone, Alive, Process
<1>14. OneLossPerProcess' BY <1>2, <1>3, <1>4 DEF IInv, OneLossPerProcess
<1> QED BY <1>5, <1>6, <1>7, <1>8, <1>9, <1>10, <1>11, <1>12, <1>13, <1>14 DEF IInv

\* Nor is one the router has taken.
LEMMA TakeKeeps == IInv /\ Take => IInv'
<1> SUFFICES ASSUME IInv, Take PROVE IInv'
  OBVIOUS
<1> DEFINE c == Head(inbox)
<1>1. /\ inbox # <<>> /\ inbox' = Tail(inbox)
      /\ fate' = [fate EXCEPT ![c] = "held"]
      /\ UNCHANGED <<givenTo, ready, state, gen>>
  BY DEF Take
<1>2. /\ c \in Commands /\ c = inbox[1] /\ Len(inbox) \in Nat \ {0} /\ Len(inbox') = Len(inbox) - 1
      /\ \A i \in 1 .. Len(inbox') : inbox'[i] = inbox[i + 1]
  BY <1>1 DEF IInv, TypeOK
<1>3. fate[c] = "inbox" BY <1>2 DEF IInv, InboxIsFate
<1> HIDE DEF c
<1>4. \A d \in Commands : d # c => fate'[d] = fate[d]
  BY <1>1 DEF IInv, TypeOK
<1>5. fate'[c] = "held" /\ givenTo[c] = Nobody
  BY <1>1, <1>2, <1>3 DEF IInv, TypeOK, Unsent
<1>6. TypeOK'
  <2>1. inbox' \in Seq(Commands) BY <1>1 DEF IInv, TypeOK
  <2> QED BY <1>1, <2>1 DEF IInv, TypeOK
<1>7. InboxIsFate'
  <2> SUFFICES ASSUME NEW i \in 1 .. Len(inbox')
               PROVE  /\ fate'[inbox'[i]] = "inbox"
                      /\ \A j \in 1 .. Len(inbox') : inbox'[i] = inbox'[j] => i = j
    BY DEF InboxIsFate
  <2>1. i + 1 \in 1 .. Len(inbox) /\ inbox'[i] = inbox[i + 1] BY <1>2
  <2>2. inbox[i + 1] # c /\ inbox[i + 1] \in Commands BY <1>2, <2>1 DEF IInv, InboxIsFate, TypeOK
  <2>3. fate'[inbox'[i]] = "inbox" BY <1>4, <2>1, <2>2 DEF IInv, InboxIsFate
  <2>4. ASSUME NEW j \in 1 .. Len(inbox'), inbox'[i] = inbox'[j] PROVE i = j
    <3>1. j + 1 \in 1 .. Len(inbox) /\ inbox[i + 1] = inbox[j + 1] BY <1>2, <2>1, <2>4
    <3>2. i + 1 = j + 1 BY <2>1, <3>1 DEF IInv, InboxIsFate
    <3> QED BY <1>2, <3>2
  <2> QED BY <2>3, <2>4
<1>8. Unsent' BY <1>1, <1>4, <1>5 DEF IInv, Unsent
<1>9. OnlyStarted' BY <1>1 DEF IInv, OnlyStarted, Started
<1>10. WaitsWhenReady' BY <1>1 DEF IInv, WaitsWhenReady, Alive, Process
<1>11. FreeWhenReady'
  BY <1>1, <1>4, <1>5, ProcessIsPair DEF IInv, TypeOK, FreeWhenReady
<1>12. GivenIsWorkedOn' BY <1>1, <1>4, <1>5 DEF IInv, GivenIsWorkedOn, Alive, Process
<1>13. OneAtATime' BY <1>1, <1>4, <1>5 DEF IInv, OneAtATime
<1>14. LosersAreGone' BY <1>1, <1>4, <1>5 DEF IInv, LosersAreGone, Alive, Process
<1>15. OneLossPerProcess' BY <1>1, <1>4, <1>5 DEF IInv, OneLossPerProcess
<1> QED BY <1>6, <1>7, <1>8, <1>9, <1>10, <1>11, <1>12, <1>13, <1>14, <1>15 DEF IInv

\* Only a process that waits is sent a command, and only by its last announcement.
LEMMA SendRequestKeeps == IInv /\ SendRequest => IInv'
<1> SUFFICES ASSUME IInv, SendRequest PROVE IInv'
  OBVIOUS
<1>1. PICK p \in ready, c \in Commands :
        /\ fate[c] = "held"
        /\ ready' = ready \ {p}
        /\ givenTo' = [givenTo EXCEPT ![c] = p]
        /\ fate' = [fate EXCEPT ![c] = IF Alive(p) THEN "given" ELSE "lost"]
        /\ state' = IF Alive(p) THEN [state EXCEPT ![p[1]] = "working"] ELSE state
  BY DEF SendRequest
<1>2. UNCHANGED <<inbox, gen>> BY DEF SendRequest
<1>3. p \in Processes /\ p[1] \in Handlers /\ p # Nobody
  BY ProcessIsPair DEF IInv, TypeOK
<1>4. \A d \in Commands : d # c => fate'[d] = fate[d] /\ givenTo'[d] = givenTo[d]
  BY <1>1 DEF IInv, TypeOK
<1>5. givenTo'[c] = p /\ fate'[c] = IF Alive(p) THEN "given" ELSE "lost"
  BY <1>1 DEF IInv, TypeOK
<1>6. \A h \in Handlers :
        state'[h] = IF Alive(p) /\ h = p[1] THEN "working" ELSE state[h]
  BY <1>1, <1>3 DEF IInv, TypeOK
<1>7. Alive(p) => p = Process(p[1]) /\ state[p[1]] = "waiting"
  BY DEF IInv, WaitsWhenReady, Alive
<1>8. \A q \in Processes : Alive(q)' <=> Alive(q)
  BY <1>2, <1>6, <1>7, ProcessIsPair DEF Alive, Process
<1>9. \A d \in Commands : givenTo[d] \in Processes \/ givenTo[d] = Nobody
  BY DEF IInv, TypeOK
<1>10. \A d \in Commands : givenTo[d] = p => fate[d] = "done"
  BY DEF IInv, FreeWhenReady
<1>11. TypeOK' BY <1>1, <1>2, <1>3 DEF IInv, TypeOK
<1>12. InboxIsFate' BY <1>1, <1>2, <1>4 DEF IInv, InboxIsFate, TypeOK
<1>13. Unsent' BY <1>4, <1>5 DEF IInv, Unsent
<1>14. OnlyStarted'
  <2>1. \A q \in Processes : Started(q) => Started(q)'
    BY <1>2, <1>6, ProcessIsPair DEF Started
  <2> QED BY <1>1, <1>3, <1>4, <1>5, <1>9, <2>1 DEF IInv, OnlyStarted, TypeOK
<1>15. WaitsWhenReady'
  <2> SUFFICES ASSUME NEW q \in ready', Alive(q)' PROVE state'[q[1]] = "waiting"
    BY DEF WaitsWhenReady
  <2>1. q \in ready /\ q # p /\ q \in Processes BY <1>1 DEF IInv, TypeOK
  <2>2. Alive(q) /\ state[q[1]] = "waiting" BY <1>8, <2>1 DEF IInv, WaitsWhenReady
  <2>3. ~(Alive(p) /\ q[1] = p[1]) BY <1>7, <2>1, <2>2 DEF Alive, Process
  <2> QED BY <1>6, <2>1, <2>2, <2>3, ProcessIsPair
<1>16. FreeWhenReady' BY <1>1, <1>4, <1>5 DEF IInv, FreeWhenReady
<1>17. GivenIsWorkedOn'
  <2> SUFFICES ASSUME NEW d \in Commands, fate'[d] = "given"
               PROVE  /\ givenTo'[d] \in Processes /\ Alive(givenTo[d])'
                      /\ state'[givenTo'[d][1]] = "working"
    BY DEF GivenIsWorkedOn
  <2>1. CASE d = c
    <3>1. Alive(p) /\ givenTo'[d] = p BY <1>5, <2>1
    <3> QED BY <1>3, <1>6, <1>8, <3>1
  <2>2. CASE d # c
    BY <1>4, <1>6, <1>8, <2>2, ProcessIsPair DEF IInv, GivenIsWorkedOn
  <2> QED BY <2>1, <2>2
<1>18. OneAtATime' BY <1>4, <1>5, <1>10 DEF IInv, OneAtATime
<1>19. LosersAreGone' BY <1>3, <1>4, <1>5, <1>8, <1>9 DEF IInv, LosersAreGone
<1>20. OneLossPerProcess' BY <1>4, <1>5, <1>10 DEF IInv, OneLossPerProcess
<1> QED
  BY <1>11, <1>12, <1>13, <1>14, <1>15, <1>16, <1>17, <1>18, <1>19, <1>20 DEF IInv

-------------------------------------------------------------------------------
\* A process announces itself for the first time: nothing was sent to it.
LEMMA SendReadyKeeps ==
  ASSUME IInv, NEW h \in Handlers, SendReady(h)
  PROVE  IInv'
<1>1. /\ state[h] = "starting" /\ state' = [state EXCEPT ![h] = "waiting"]
      /\ ready' = ready \cup {Process(h)} /\ UNCHANGED <<fate, givenTo, inbox, gen>>
  BY DEF SendReady
<1>2. \A g \in Handlers : state'[g] = IF g = h THEN "waiting" ELSE state[g]
  BY <1>1 DEF IInv, TypeOK
<1>3. Process(h) \in Processes /\ Process(h)[1] = h /\ Process(h)[2] = gen[h]
  BY DEF IInv, TypeOK, Process, Processes
<1>4. \A c \in Commands : givenTo[c] # Process(h)
  BY <1>1, <1>3, ProcessIsPair DEF IInv, OnlyStarted, Started
<1>5. \A c \in Commands : givenTo[c] \in Processes \/ givenTo[c] = Nobody
  BY DEF IInv, TypeOK
<1>6. \A q \in Processes : Alive(q)' <=> Alive(q)
  BY <1>1, <1>2, ProcessIsPair DEF Alive, Process
<1>7. \A q \in Processes : Started(q) => Started(q)'
  BY <1>1, <1>2, ProcessIsPair DEF Started
<1>8. TypeOK' BY <1>1, <1>3 DEF IInv, TypeOK
<1>9. InboxIsFate' BY <1>1 DEF IInv, InboxIsFate
<1>10. Unsent' BY <1>1 DEF IInv, Unsent
<1>11. OnlyStarted'
  <2>1. \A q : q = Process(h) => Started(q)'
    BY <1>1, <1>2, <1>3 DEF Started, IInv, TypeOK
  <2> QED BY <1>1, <1>5, <1>7, <2>1 DEF IInv, OnlyStarted, TypeOK
<1>12. WaitsWhenReady'
  BY <1>1, <1>2, <1>3, <1>6, ProcessIsPair DEF IInv, TypeOK, WaitsWhenReady
<1>13. FreeWhenReady' BY <1>1, <1>4 DEF IInv, FreeWhenReady
<1>14. GivenIsWorkedOn'
  BY <1>1, <1>2, ProcessIsPair DEF IInv, GivenIsWorkedOn, Alive, Process
<1>15. OneAtATime' BY <1>1 DEF IInv, OneAtATime
<1>16. LosersAreGone' BY <1>1, <1>5, <1>6 DEF IInv, LosersAreGone
<1>17. OneLossPerProcess' BY <1>1 DEF IInv, OneLossPerProcess
<1> QED
  BY <1>8, <1>9, <1>10, <1>11, <1>12, <1>13, <1>14, <1>15, <1>16, <1>17 DEF IInv

\* What a process worked on is over before it announces itself again.
LEMMA FinishKeeps ==
  ASSUME IInv, NEW h \in Handlers, Finish(h)
  PROVE  IInv'
<1>1. /\ state[h] = "working" /\ state' = [state EXCEPT ![h] = "waiting"]
      /\ fate' = [c \in Commands |-> IF c \in Workload(h) THEN "done" ELSE fate[c]]
      /\ ready' = ready \cup {Process(h)} /\ UNCHANGED <<givenTo, inbox, gen>>
  BY DEF Finish
<1>2. \A g \in Handlers : state'[g] = IF g = h THEN "waiting" ELSE state[g]
  BY <1>1 DEF IInv, TypeOK
<1>3. Process(h) \in Processes /\ Process(h)[1] = h /\ Process(h)[2] = gen[h]
      /\ Alive(Process(h))
  BY <1>1 DEF IInv, TypeOK, Process, Processes, Alive
<1>4. \A c \in Commands :
        fate'[c] = IF fate[c] = "given" /\ givenTo[c] = Process(h) THEN "done" ELSE fate[c]
  BY <1>1 DEF Workload
<1>5. \A c \in Commands : givenTo[c] \in Processes \/ givenTo[c] = Nobody
  BY DEF IInv, TypeOK
<1>6. \A q \in Processes : Alive(q)' <=> Alive(q)
  BY <1>1, <1>2, ProcessIsPair DEF Alive, Process
<1>7. \A q \in Processes : Started(q) => Started(q)'
  BY <1>1, <1>2, ProcessIsPair DEF Started
<1>8. TypeOK' BY <1>1, <1>3 DEF IInv, TypeOK
<1>9. InboxIsFate' BY <1>1, <1>4 DEF IInv, InboxIsFate, TypeOK
<1>10. Unsent' BY <1>1, <1>4 DEF IInv, Unsent
<1>11. OnlyStarted'
  <2>1. \A q : q = Process(h) => Started(q)'
    BY <1>1, <1>2, <1>3 DEF Started, IInv, TypeOK
  <2> QED BY <1>1, <1>5, <1>7, <2>1 DEF IInv, OnlyStarted, TypeOK
<1>12. WaitsWhenReady'
  BY <1>1, <1>2, <1>3, <1>6, ProcessIsPair DEF IInv, TypeOK, WaitsWhenReady
<1>13. FreeWhenReady'
  <2>1. ASSUME NEW c \in Commands, givenTo[c] = Process(h)
        PROVE  fate'[c] = "done"
    BY <1>3, <1>4, <2>1, ProcessIsPair DEF IInv, TypeOK, Unsent, LosersAreGone
  <2> QED BY <1>1, <1>4, <2>1 DEF IInv, FreeWhenReady
<1>14. GivenIsWorkedOn'
  <2> SUFFICES ASSUME NEW c \in Commands, fate'[c] = "given"
               PROVE  /\ givenTo[c] \in Processes /\ Alive(givenTo[c])'
                      /\ state'[givenTo[c][1]] = "working"
    BY <1>1 DEF GivenIsWorkedOn
  <2>1. fate[c] = "given" /\ givenTo[c] # Process(h) BY <1>4
  <2>2. /\ givenTo[c] \in Processes /\ Alive(givenTo[c])
        /\ state[givenTo[c][1]] = "working"
    BY <2>1 DEF IInv, GivenIsWorkedOn
  <2>3. Alive(givenTo[c])' BY <1>1, <1>6, <2>2
  <2>4. givenTo[c][1] # h BY <2>1, <2>2 DEF Alive
  <2> QED BY <1>2, <2>2, <2>3, <2>4, ProcessIsPair
<1>15. OneAtATime' BY <1>1, <1>4 DEF IInv, OneAtATime
<1>16. LosersAreGone' BY <1>1, <1>4, <1>5, <1>6 DEF IInv, LosersAreGone
<1>17. OneLossPerProcess' BY <1>1, <1>4 DEF IInv, OneLossPerProcess
<1> QED
  BY <1>8, <1>9, <1>10, <1>11, <1>12, <1>13, <1>14, <1>15, <1>16, <1>17 DEF IInv

\* A process that is gone, by itself or because it is replaced, is the end of the
\* command it worked on, and of no other.
LEMMA GoneKeeps ==
  ASSUME IInv, NEW h \in Handlers, Losing(Workload(h)),
         UNCHANGED <<givenTo, inbox, ready>>,
         \/ /\ state' = [state EXCEPT ![h] = "dead"] /\ state[h] # "dead" /\ gen' = gen
         \/ state' = [state EXCEPT ![h] = "starting"] /\ gen' = [gen EXCEPT ![h] = @ + 1]
  PROVE  IInv'
<1>1. \A g \in Handlers :
        /\ g # h => state'[g] = state[g] /\ gen'[g] = gen[g]
        /\ gen'[g] \in Nat /\ gen'[g] >= gen[g]
  BY DEF IInv, TypeOK
<1>2. \/ state'[h] = "dead" /\ gen'[h] = gen[h] /\ state[h] # "dead"
      \/ state'[h] = "starting" /\ gen'[h] = gen[h] + 1
  BY DEF IInv, TypeOK
<1>3. Process(h) \in Processes /\ Process(h)[1] = h /\ Process(h)[2] = gen[h]
  BY DEF IInv, TypeOK, Process, Processes
<1>4. \A c \in Commands :
        fate'[c] = IF fate[c] = "given" /\ givenTo[c] = Process(h) THEN "lost" ELSE fate[c]
  BY Lost DEF IInv, Workload
<1>5. \A c \in Commands : givenTo[c] \in Processes \/ givenTo[c] = Nobody
  BY DEF IInv, TypeOK
<1>6. \A q \in Processes : Started(q) => Started(q)'
  <2> SUFFICES ASSUME NEW q \in Processes, Started(q) PROVE Started(q)'
    OBVIOUS
  <2>1. q[1] \in Handlers /\ q[2] \in Nat BY ProcessIsPair
  <2>2. CASE q[1] = h
    BY <1>1, <1>2, <2>1, <2>2 DEF Started, IInv, TypeOK
  <2>3. CASE q[1] # h BY <1>1, <2>1, <2>3 DEF Started
  <2> QED BY <2>2, <2>3
<1>7. \A q \in Processes :
        Started(q) => (Alive(q)' <=> Alive(q) /\ q # Process(h))
  <2> SUFFICES ASSUME NEW q \in Processes, Started(q)
               PROVE  Alive(q)' <=> Alive(q) /\ q # Process(h)
    OBVIOUS
  <2>1. q[1] \in Handlers /\ q[2] \in Nat /\ q = <<q[1], q[2]>> BY ProcessIsPair
  <2>2. CASE q[1] = h
    <3>1. gen[h] \in Nat /\ q[2] <= gen[h] BY <2>2 DEF IInv, TypeOK, Started
    <3>2. ~Alive(q)' BY <1>2, <2>1, <2>2, <3>1 DEF Alive, Process
    <3> QED BY <2>2, <3>2 DEF Alive
  <2>3. CASE q[1] # h BY <1>1, <1>3, <2>1, <2>3 DEF Alive, Process
  <2> QED BY <2>2, <2>3
<1>8. \A q \in Processes : Alive(q)' => state'[q[1]] = state[q[1]] \/ ~Started(q)
  <2> SUFFICES ASSUME NEW q \in Processes, Started(q), Alive(q)'
               PROVE  state'[q[1]] = state[q[1]]
    OBVIOUS
  <2>1. Alive(q) /\ q # Process(h) BY <1>7
  <2>2. q[1] # h BY <2>1 DEF Alive
  <2> QED BY <1>1, <2>2, ProcessIsPair
<1>9. /\ \A q \in ready : q \in Processes /\ Started(q)
      /\ \A c \in Commands : givenTo[c] # Nobody => givenTo[c] \in Processes /\ Started(givenTo[c])
  BY <1>5 DEF IInv, TypeOK, OnlyStarted
<1>10. TypeOK'
  <2> DEFINE S == {"starting", "waiting", "working", "dead"}
  <2>1. state \in [Handlers -> S] /\ gen \in [Handlers -> Nat] BY DEF IInv, TypeOK
  <2>2. \/ state' = [state EXCEPT ![h] = "dead"] \/ state' = [state EXCEPT ![h] = "starting"]
    OBVIOUS
  <2>3. "dead" \in S /\ "starting" \in S OBVIOUS
  <2>4. gen' = gen \/ gen' = [gen EXCEPT ![h] = gen[h] + 1] OBVIOUS
  <2>5. gen[h] + 1 \in Nat BY <2>1
  <2> HIDE DEF S
  <2>6. state' \in [Handlers -> S] BY <2>1, <2>2, <2>3
  <2>7. gen' \in [Handlers -> Nat] BY <2>1, <2>4, <2>5
  <2> QED BY <2>6, <2>7, Lost DEF IInv, TypeOK, S
<1>11. InboxIsFate' BY <1>4 DEF IInv, InboxIsFate, TypeOK
<1>12. Unsent' BY <1>4 DEF IInv, Unsent
<1>13. OnlyStarted' BY <1>6, <1>9 DEF OnlyStarted
<1>14. WaitsWhenReady' BY <1>7, <1>8, <1>9 DEF IInv, WaitsWhenReady
<1>15. FreeWhenReady' BY <1>4 DEF IInv, FreeWhenReady
<1>16. GivenIsWorkedOn'
  <2> SUFFICES ASSUME NEW c \in Commands, fate'[c] = "given"
               PROVE  /\ givenTo[c] \in Processes /\ Alive(givenTo[c])'
                      /\ state'[givenTo[c][1]] = "working"
    BY DEF GivenIsWorkedOn
  <2>1. fate[c] = "given" /\ givenTo[c] # Process(h) BY <1>4
  <2>2. /\ givenTo[c] \in Processes /\ Alive(givenTo[c]) /\ Started(givenTo[c])
        /\ state[givenTo[c][1]] = "working"
    BY <1>9, <2>1, ProcessIsPair DEF IInv, GivenIsWorkedOn
  <2> QED BY <1>7, <1>8, <2>1, <2>2
<1>17. OneAtATime' BY <1>4 DEF IInv, OneAtATime
<1>18. LosersAreGone' BY <1>4, <1>7, <1>9 DEF IInv, LosersAreGone
<1>19. OneLossPerProcess'
  <2> SUFFICES ASSUME NEW c \in Commands, NEW d \in Commands, fate'[c] = "lost",
                      fate'[d] = "lost", givenTo[c] = givenTo[d], c # d
               PROVE  givenTo[c] = Nobody
    BY DEF OneLossPerProcess
  <2>1. CASE fate[c] = "given" \/ fate[d] = "given"
    <3>1. givenTo[c] = Process(h) /\ Process(h) # Nobody
      BY <1>3, <1>4, <2>1, ProcessIsPair
    <3>2. Alive(Process(h)) BY <1>4, <2>1, <3>1 DEF IInv, GivenIsWorkedOn
    <3>3. fate[c] # "lost" /\ fate[d] # "lost" BY <3>1, <3>2 DEF IInv, LosersAreGone
    <3> QED BY <1>4, <3>1, <3>3 DEF IInv, OneAtATime
  <2>2. CASE fate[c] # "given" /\ fate[d] # "given"
    BY <1>4, <2>2 DEF IInv, OneLossPerProcess
  <2> QED BY <2>1, <2>2
<1> QED
  BY <1>10, <1>11, <1>12, <1>13, <1>14, <1>15, <1>16, <1>17, <1>18, <1>19 DEF IInv

\* The commands a router takes with it were with nobody.
LEMMA RouterGoneKeeps ==
  ASSUME IInv, Losing({c \in Commands : fate[c] \in {"inbox", "held"}}),
         inbox' = <<>>, ready' = {}, UNCHANGED <<givenTo, state, gen>>
  PROVE  IInv'
<1>1. \A c \in Commands :
        fate'[c] = IF fate[c] \in {"inbox", "held"} THEN "lost" ELSE fate[c]
  BY Lost DEF IInv
<1>2. \A c \in Commands : fate[c] \in {"inbox", "held"} => givenTo[c] = Nobody
  BY DEF IInv, Unsent
<1>3. TypeOK' BY Lost DEF IInv, TypeOK
<1>4. InboxIsFate' BY DEF InboxIsFate
<1>5. Unsent' BY <1>1 DEF IInv, Unsent
<1>6. OnlyStarted' BY DEF IInv, OnlyStarted, Started
<1>7. WaitsWhenReady' /\ FreeWhenReady' BY DEF WaitsWhenReady, FreeWhenReady
<1>8. GivenIsWorkedOn' BY <1>1 DEF IInv, GivenIsWorkedOn, Alive, Process
<1>9. OneAtATime' BY <1>1 DEF IInv, OneAtATime
<1>10. LosersAreGone' BY <1>1, <1>2 DEF IInv, LosersAreGone, Alive, Process
<1>11. OneLossPerProcess' BY <1>1, <1>2 DEF IInv, OneLossPerProcess
<1> QED BY <1>3, <1>4, <1>5, <1>6, <1>7, <1>8, <1>9, <1>10, <1>11 DEF IInv

-------------------------------------------------------------------------------
\* Every step keeps the invariant.
LEMMA NextGood == IInv /\ [Next]_vars => IInv'
<1> SUFFICES ASSUME IInv, [Next]_vars PROVE IInv'
  OBVIOUS
<1>1. CASE Publish BY <1>1, PublishKeeps
<1>2. CASE Take BY <1>2, TakeKeeps
<1>3. CASE SendRequest BY <1>3, SendRequestKeeps
<1>4. CASE RouterDies \/ RestartRouter
  BY <1>4, RouterGoneKeeps DEF RouterDies, RestartRouter
<1>5. ASSUME NEW h \in Handlers, SendReady(h) PROVE IInv'
  BY <1>5, SendReadyKeeps
<1>6. ASSUME NEW h \in Handlers, Finish(h) PROVE IInv'
  BY <1>6, FinishKeeps
<1>7. ASSUME NEW h \in Handlers, HandlerDies(h) PROVE IInv'
  BY <1>7, GoneKeeps DEF HandlerDies
<1>8. ASSUME NEW h \in Handlers, RestartAlive(h) \/ RestartDead(h) \/ RestartNext(h)
      PROVE  IInv'
  BY <1>8, GoneKeeps DEF RestartAlive, RestartDead, RestartNext, NewProcess
<1>9. CASE UNCHANGED vars
  BY <1>9 DEF vars, IInv, TypeOK, InboxIsFate, Unsent, OnlyStarted, Started, WaitsWhenReady,
    FreeWhenReady, GivenIsWorkedOn, OneAtATime, LosersAreGone, OneLossPerProcess, Alive,
    Process
<1> QED
  BY <1>1, <1>2, <1>3, <1>4, <1>5, <1>6, <1>7, <1>8, <1>9 DEF Next, Housekeeping

\* The router's bookkeeping is right in every state: an announcement stands for a
\* process that waits or is gone and to which nothing has been lost.
THEOREM RouterInvariant == Spec => []IInv
<1>1. Init => IInv BY InitGood
<1>2. IInv /\ [Next]_vars => IInv' BY NextGood
<1> QED BY <1>1, <1>2, PTL DEF Spec

\* A process of a command handler is the end of at most one command, however the
\* crashes, the restarts and the announcements that outlive their process fall.
THEOREM OneLossEach == Spec => []OneLossPerProcess
<1>1. IInv => OneLossPerProcess BY DEF IInv
<1> QED BY <1>1, RouterInvariant, PTL
===============================================================================
