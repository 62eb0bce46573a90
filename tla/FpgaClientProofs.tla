--------------------------- MODULE FpgaClientProofs ---------------------------
(***************************************************************************)
(* Proofs about FpgaClient for every number of tokens, tries, addresses and *)
(* accesses: a future is given the answer of its own access only, and the   *)
(* client implements Futures.                                               *)
(*                                                                          *)
(* OwnAnswer is not inductive: that the token of an answer is the token of  *)
(* the future says nothing as such.  The invariant therefore relates the    *)
(* token of everything that is on its way or waits to the token of the      *)
(* client (Numbered): they differ by the accesses issued in between, less   *)
(* than a round of them.  Two with the same token are then the same.        *)
(***************************************************************************)
EXTENDS FpgaClient, TLAPS

Requests == [serial : Serials, token : 0 .. TokenMod - 1, addr : Addresses, write : BOOLEAN]
Answers == [to : Requests, error : BOOLEAN]

TypeOK ==
  /\ life \in {"probing", "ready", "failed"}
  /\ at \in {"idle", "pop", "recv"}
  /\ tries \in 0 .. Tries /\ (life = "probing" => tries > 0)
  /\ token \in 0 .. TokenMod - 1
  /\ issued \in 0 .. MaxRequests /\ target \in 0 .. MaxRequests
  /\ pending \in Seq(Requests) /\ current \in Seq(Requests)
  /\ Len(current) = IF at = "recv" THEN 1 ELSE 0
  /\ value \in [Serials -> 0 .. MaxRequests]
  /\ dead \subseteq Serials
  /\ requests \in Seq(Requests) /\ answers \in Seq(Answers)

\* The futures _pending holds, and the one that was popped.
Waits(f) ==
  \/ \E i \in 1 .. Len(pending) : pending[i] = f
  \/ \E i \in 1 .. Len(current) : current[i] = f

\* What waits or is on its way.
Known(f) ==
  \/ Waits(f)
  \/ \E i \in 1 .. Len(requests) : requests[i] = f
  \/ \E i \in 1 .. Len(answers) : answers[i].to = f

\* Its token is as many behind the client's as accesses were issued since.
Numbered(f) ==
  /\ f.serial <= issued /\ issued < f.serial + TokenMod
  /\ token \in {f.token + (issued - f.serial), f.token + (issued - f.serial) - TokenMod}

AllNumbered == \A f \in Requests : Known(f) => Numbered(f)

\* Futures are popped in the order in which they were issued.
InOrder ==
  /\ \A i, j \in 1 .. Len(pending) : i < j => pending[i].serial < pending[j].serial
  /\ at = "recv" => \A i \in 1 .. Len(pending) : current[1].serial < pending[i].serial

\* What waits has neither been answered nor given up.
Undecided == \A f \in Requests : Waits(f) => value[f.serial] = 0 /\ f.serial \notin dead

\* No access has been both, and none that was not issued has been either.
Settled ==
  \A s \in Serials :
    /\ value[s] \in {0, s}
    /\ value[s] = s => s <= issued /\ s \notin dead
    /\ s \in dead => s <= issued

IInv == TypeOK /\ AllNumbered /\ InOrder /\ Undecided /\ Settled

-------------------------------------------------------------------------------
(* What the steps do. *)

\* The token goes up by one, or back to the start.
LEMMA NextTokens ==
  ASSUME TypeOK
  PROVE  /\ NextToken \in 0 .. TokenMod - 1
         /\ NextToken = IF token + 1 = TokenMod THEN 0 ELSE token + 1
<1>1. TokenMod \in Nat \ {0} /\ token + 1 \in 1 .. TokenMod
  BY TokenAssumption DEF TypeOK
<1>2. CASE token + 1 = TokenMod BY <1>1, <1>2 DEF NextToken
<1>3. CASE token + 1 < TokenMod BY <1>1, <1>3 DEF NextToken
<1> QED BY <1>1, <1>2, <1>3

\* Among what is numbered, the token tells the accesses apart.
LEMMA TokensTell ==
  ASSUME TypeOK, NEW f \in Requests, NEW g \in Requests,
         Numbered(f), Numbered(g), f.token = g.token
  PROVE  f.serial = g.serial
<1>1. /\ f.serial \in Nat /\ g.serial \in Nat /\ f.token \in Nat /\ g.token \in Nat
      /\ issued \in Nat /\ token \in Nat /\ TokenMod \in Nat \ {0}
  <2>1. TokenMod \in Nat \ {0} /\ MaxRequests \in Nat
    BY TokenAssumption, RequestsAssumption
  <2>2. issued \in 0 .. MaxRequests /\ token \in 0 .. TokenMod - 1 BY DEF TypeOK
  <2>3. \A r \in Requests : r.serial \in 1 .. MaxRequests /\ r.token \in 0 .. TokenMod - 1
    BY DEF Requests, Serials
  <2>4. \A n : n \in 1 .. MaxRequests \/ n \in 0 .. TokenMod - 1 \/ n \in 0 .. MaxRequests
          => n \in Nat
    BY <2>1
  <2> QED BY <2>1, <2>2, <2>3, <2>4
<1>2. /\ f.serial <= issued /\ issued < f.serial + TokenMod
      /\ \/ token = f.token + (issued - f.serial)
         \/ token = f.token + (issued - f.serial) - TokenMod
  BY DEF Numbered
<1>3. /\ g.serial <= issued /\ issued < g.serial + TokenMod
      /\ \/ token = g.token + (issued - g.serial)
         \/ token = g.token + (issued - g.serial) - TokenMod
  BY DEF Numbered
<1>4. \A p, q, t, u \in Nat :
        /\ t = u /\ p <= issued /\ q <= issued
        /\ issued < p + TokenMod /\ issued < q + TokenMod
        /\ token = t + (issued - p) \/ token = t + (issued - p) - TokenMod
        /\ token = u + (issued - q) \/ token = u + (issued - q) - TokenMod
        => p = q
  BY <1>1, SMT
<1> QED BY <1>1, <1>2, <1>3, <1>4

\* A request is appended, as a future, to what is on its way and to what waits.
Sends(r) ==
  /\ at = "idle" /\ issued < MaxRequests
  /\ r.serial = issued + 1 /\ r.token = NextToken
  /\ requests' = Append(requests, r) /\ pending' = Append(pending, r)
  /\ token' = NextToken /\ issued' = issued + 1
  /\ UNCHANGED <<current, value, dead, answers>>
  /\ \A f \in Requests : Known(f) => issued + 1 < f.serial + TokenMod

\* Everything known is within the window when the client does not wait.
LEMMA KnownInWindow ==
  ASSUME TypeOK, at = "idle", WithinWindow(issued + 1)
  PROVE  \A f \in Requests : Known(f) => issued + 1 < f.serial + TokenMod
<1> SUFFICES ASSUME NEW f \in Requests, Known(f) PROVE issued + 1 < f.serial + TokenMod
  OBVIOUS
<1>1. Len(current) = 0 BY DEF TypeOK
<1>2. CASE \E i \in 1 .. Len(pending) : pending[i] = f
  <2>1. f.serial \in SerialsOf(pending) BY <1>2 DEF SerialsOf, TypeOK
  <2> QED BY <2>1 DEF WithinWindow
<1>3. CASE \E i \in 1 .. Len(requests) : requests[i] = f
  <2>1. f.serial \in SerialsOf(requests) BY <1>3 DEF SerialsOf, TypeOK
  <2> QED BY <2>1 DEF WithinWindow, InFlight
<1>4. CASE \E i \in 1 .. Len(answers) : answers[i].to = f
  <2>1. f.serial \in {answers[i].to.serial : i \in DOMAIN answers} BY <1>4 DEF TypeOK
  <2> QED BY <2>1 DEF WithinWindow, InFlight
<1> QED BY <1>1, <1>2, <1>3, <1>4 DEF Known, Waits

\* _send_request appends one access with the next serial and token.
LEMMA SendSends ==
  ASSUME TypeOK, NEW addr \in Addresses, NEW write \in BOOLEAN, at = "idle",
         Send(addr, write), UNCHANGED <<current, value, dead, answers>>
  PROVE  \E r \in Requests : Sends(r)
<1> DEFINE r == [serial |-> issued + 1, token |-> NextToken, addr |-> addr, write |-> write]
<1>1. issued + 1 \in Serials BY RequestsAssumption DEF Send, TypeOK, Serials
<1>2. r \in Requests BY <1>1, NextTokens DEF Requests
<1>3. Sends(r) BY KnownInWindow DEF Send, Sends
<1> QED BY <1>2, <1>3

\* So does each way the client has of asking for something.
LEMMA ClientSends ==
  ASSUME TypeOK, Issue \/ TryProbe
  PROVE  \E r \in Requests : Sends(r)
<1>1. Probe \in Addresses BY AddressAssumption DEF Addresses
<1>2. CASE Issue
  <2>1. PICK addr \in Addresses, write \in BOOLEAN : Send(addr, write) BY <1>2 DEF Issue
  <2> QED BY <1>2, <2>1, SendSends DEF Issue
<1>3. CASE TryProbe
  <2>1. Send(Probe, TRUE) /\ at = "idle" /\ UNCHANGED <<current, value, dead, answers>>
    BY <1>3 DEF TryProbe
  <2> QED BY <1>1, <2>1, SendSends
<1> QED BY <1>2, <1>3

\* What is appended to a sequence of requests, and what is taken from its front.
LEMMA Appended ==
  ASSUME NEW seq \in Seq(Requests), NEW r \in Requests
  PROVE  /\ Append(seq, r) \in Seq(Requests)
         /\ Len(seq) \in Nat /\ Len(Append(seq, r)) = Len(seq) + 1
         /\ Append(seq, r)[Len(seq) + 1] = r
         /\ \A i \in 1 .. Len(seq) : Append(seq, r)[i] = seq[i]
OBVIOUS

\* A queue without its first request is one shorter, each request one place further.
LEMMA Shortened ==
  ASSUME NEW seq \in Seq(Requests), seq # <<>>
  PROVE  /\ Tail(seq) \in Seq(Requests)
         /\ Len(seq) \in Nat \ {0} /\ Len(Tail(seq)) = Len(seq) - 1
         /\ Head(seq) = seq[1] /\ Head(seq) \in Requests
         /\ \A i \in 1 .. Len(Tail(seq)) : Tail(seq)[i] = seq[i + 1]
OBVIOUS

\* The service answers the first request, and nothing else.
LEMMA ServeAnswers ==
  ASSUME TypeOK, Serve
  PROVE  /\ requests # <<>> /\ requests' = Tail(requests)
         /\ answers' \in Seq(Answers)
         /\ \A i \in 1 .. Len(answers') :
              \/ answers'[i].to = requests[1]
              \/ \E j \in 1 .. Len(answers) : answers'[i] = answers[j]
<1> DEFINE r == Head(requests)
           a(e) == [to |-> r, error |-> e]
<1>1. /\ requests # <<>> /\ requests' = Tail(requests)
      /\ \/ \E error \in BOOLEAN : answers' = Append(answers, a(error))
         \/ answers' = answers \o <<a(TRUE), a(FALSE)>>
  BY DEF Serve
<1>2. r = requests[1] /\ r \in Requests BY <1>1, Shortened DEF TypeOK
<1>3. \A e \in BOOLEAN : a(e) \in Answers /\ a(e).to = r BY <1>2 DEF Answers
<1> HIDE DEF a
<1>4. answers \in Seq(Answers) /\ Len(answers) \in Nat BY DEF TypeOK
<1>5. ASSUME NEW e \in BOOLEAN, answers' = Append(answers, a(e))
      PROVE  /\ answers' \in Seq(Answers)
             /\ \A i \in 1 .. Len(answers') :
                  answers'[i].to = r \/ \E j \in 1 .. Len(answers) : answers'[i] = answers[j]
  <2>1. a(e) \in Answers /\ a(e).to = r BY <1>3
  <2>2. answers' \in Seq(Answers) /\ Len(answers') = Len(answers) + 1
        /\ answers'[Len(answers) + 1] = a(e)
        /\ \A i \in 1 .. Len(answers) : answers'[i] = answers[i]
    BY <1>4, <1>5, <2>1
  <2>3. \A i \in 1 .. Len(answers') : i \in 1 .. Len(answers) \/ i = Len(answers) + 1
    BY <1>4, <2>2
  <2> QED BY <2>1, <2>2, <2>3
<1>6. ASSUME answers' = answers \o <<a(TRUE), a(FALSE)>>
      PROVE  /\ answers' \in Seq(Answers)
             /\ \A i \in 1 .. Len(answers') :
                  answers'[i].to = r \/ \E j \in 1 .. Len(answers) : answers'[i] = answers[j]
  <2> DEFINE b == a(TRUE)  c == a(FALSE)
  <2>1. b \in Answers /\ c \in Answers /\ b.to = r /\ c.to = r BY <1>3
  <2>2. answers' = answers \o <<b, c>> BY <1>6
  <2> HIDE DEF b, c
  <2>3. answers' \in Seq(Answers) /\ Len(answers') = Len(answers) + 2
        /\ answers'[Len(answers) + 1] = b /\ answers'[Len(answers) + 2] = c
        /\ \A i \in 1 .. Len(answers) : answers'[i] = answers[i]
    BY <1>4, <2>1, <2>2
  <2>4. \A i \in 1 .. Len(answers') :
          i \in 1 .. Len(answers) \/ i = Len(answers) + 1 \/ i = Len(answers) + 2
    BY <1>4, <2>3
  <2> QED BY <2>1, <2>3, <2>4
<1> QED BY <1>1, <1>2, <1>5, <1>6

\* An answer is taken by the future that was popped, and decides it.
LEMMA ReceiveDecides ==
  ASSUME TypeOK, Receive
  PROVE  /\ at = "recv" /\ at' # "recv" /\ current' = <<>>
         /\ current[1] \in Requests /\ answers[1] \in Answers /\ answers # <<>>
         /\ answers' = Tail(answers)
         /\ UNCHANGED <<token, issued, pending, requests>>
         /\ \/ /\ Matches(answers[1].to, current[1])
               /\ value' = [value EXCEPT ![current[1].serial] = answers[1].to.serial]
               /\ dead' = dead
            \/ value' = value /\ dead' = dead \cup {current[1].serial}
<1>1. Head(answers) = answers[1] /\ answers[1] \in Answers BY DEF Receive, TypeOK
<1>2. current[1] \in Requests
  <2>1. at = "recv" BY DEF Receive
  <2>2. current \in Seq(Requests) /\ Len(current) = 1 BY <2>1 DEF TypeOK
  <2> QED BY <2>2
<1> QED BY <1>1, <1>2 DEF Receive, Return

\* The other steps of the client: what a call that ends without an answer, and one that
\* begins to wait, changes.
LEMMA PopMoves ==
  ASSUME TypeOK, Pop
  PROVE  /\ at = "pop" /\ at' = "recv" /\ pending # <<>>
         /\ pending' = Tail(pending) /\ Len(current) = 0
         /\ current' \in Seq(Requests) /\ Len(current') = 1 /\ current'[1] = pending[1]
         /\ UNCHANGED <<life, tries, token, issued, target, value, dead, requests, answers>>
<1>1. Head(pending) = pending[1] /\ pending[1] \in Requests BY DEF Pop, TypeOK
<1> QED BY <1>1 DEF Pop, TypeOK, wires

\* A time-out fails every future that waits.
LEMMA TimeoutForgets ==
  ASSUME TypeOK, Timeout
  PROVE  /\ at = "recv" /\ at' = "idle"
         /\ pending' = <<>> /\ current' = <<>>
         /\ dead' = dead \cup SerialsOf(pending) \cup SerialsOf(current)
         /\ UNCHANGED <<token, issued, value, requests, answers>>
BY DEF Timeout, Return, wires

\* What Wait and an IndexError leave alone.
LEMMA QuietLeaves ==
  ASSUME TypeOK, Wait \/ PopEmpty
  PROVE  /\ at # "recv" /\ at' # "recv" /\ current' = current /\ current = <<>>
         /\ UNCHANGED <<token, issued, pending, value, dead, requests, answers>>
BY DEF Wait, PopEmpty, Return, wires, TypeOK

\* The serials of what waits.
LEMMA SerialsWait ==
  ASSUME TypeOK
  PROVE  \A s \in SerialsOf(pending) \cup SerialsOf(current) :
           \E f \in Requests : Waits(f) /\ f.serial = s
<1>1. ASSUME NEW seq \in Seq(Requests), NEW s \in SerialsOf(seq)
      PROVE  \E i \in 1 .. Len(seq) : seq[i] \in Requests /\ seq[i].serial = s
  BY <1>1 DEF SerialsOf
<1>2. pending \in Seq(Requests) /\ current \in Seq(Requests) BY DEF TypeOK
<1> QED BY <1>1, <1>2 DEF Waits

\* A request that waits has its serial among those a time-out would fail.
LEMMA WaitsInSerials ==
  ASSUME TypeOK, NEW f \in Requests, Waits(f)
  PROVE  f.serial \in SerialsOf(pending) \cup SerialsOf(current)
BY DEF Waits, SerialsOf, TypeOK

-------------------------------------------------------------------------------
(* The types. *)

\* Nothing has been asked at the start.
LEMMA InitGood == Init => IInv
<1> SUFFICES ASSUME Init PROVE IInv OBVIOUS
<1>1. TypeOK
  BY TokenAssumption, TriesAssumption, RequestsAssumption DEF Init, TypeOK, Serials
<1>2. AllNumbered /\ InOrder /\ Undecided BY DEF Init, AllNumbered, InOrder, Undecided, Known, Waits
<1>3. Settled BY DEF Init, Settled, Serials
<1> QED BY <1>1, <1>2, <1>3 DEF IInv

\* A return leaves the constructor's tries and life in their range.
LEMMA ReturnTyped ==
  ASSUME TypeOK, \E ok, retry : Return(ok, retry)
  PROVE  /\ life' \in {"probing", "ready", "failed"}
         /\ tries' \in 0 .. Tries /\ (life' = "probing" => tries' > 0)
         /\ at' = "idle" /\ target' = 0 /\ current' = <<>>
<1>1. Tries \in Nat BY TriesAssumption
<1>2. tries' \in 0 .. Tries BY <1>1 DEF Return, TypeOK
<1> QED BY <1>1, <1>2 DEF Return, TypeOK

\* Every step keeps the types.
LEMMA TypeStep == TypeOK /\ Next => TypeOK'
<1> SUFFICES ASSUME TypeOK, Next PROVE TypeOK' OBVIOUS
<1>1. CASE TryProbe \/ Issue
  <2>1. PICK r \in Requests : Sends(r) BY <1>1, ClientSends
  <2>2. token' \in 0 .. TokenMod - 1 /\ issued' \in 0 .. MaxRequests
    BY <2>1, NextTokens, RequestsAssumption DEF Sends, TypeOK
  <2>3. requests' \in Seq(Requests) /\ pending' \in Seq(Requests)
    BY <2>1, Appended DEF Sends, TypeOK
  <2>4. /\ UNCHANGED <<life, tries, current, value, dead, answers>> /\ at = "idle"
        /\ at' \in {"idle", "pop"} /\ target' \in {target, issued'}
    BY <1>1, <2>1 DEF Sends, Issue, TryProbe
  <2> QED BY <2>2, <2>3, <2>4 DEF TypeOK
<1>2. CASE Wait
  <2>1. target' \in 0 .. MaxRequests BY <1>2, RequestsAssumption DEF Wait, TypeOK
  <2> QED BY <1>2, <2>1 DEF Wait, TypeOK, wires
<1>3. CASE Pop
  <2>1. pending' \in Seq(Requests) BY <1>3, PopMoves, Shortened DEF TypeOK
  <2> QED BY <1>3, <2>1, PopMoves DEF TypeOK
<1>4. CASE PopEmpty
  <2>1. Return(FALSE, FALSE) /\ UNCHANGED <<token, issued, pending, value, dead, requests, answers>>
    BY <1>4 DEF PopEmpty, wires
  <2>2. \E ok, retry : Return(ok, retry) BY <2>1
  <2>3. /\ life' \in {"probing", "ready", "failed"}
        /\ tries' \in 0 .. Tries /\ (life' = "probing" => tries' > 0)
        /\ at' = "idle" /\ target' = 0 /\ current' = <<>>
    BY <2>2, ReturnTyped
  <2> QED BY <2>1, <2>3, RequestsAssumption DEF TypeOK
<1>5. CASE Receive
  <2> DEFINE fut == current[1]  pck == answers[1]
  <2>1. fut \in Requests /\ pck \in Answers /\ answers' = Tail(answers) /\ answers # <<>>
    BY <1>5, ReceiveDecides
  <2>2. /\ fut.serial \in Serials /\ pck.to.serial \in Serials
        /\ Serials \subseteq 0 .. MaxRequests
    BY <2>1 DEF Requests, Answers, Serials
  <2>3. value' \in [Serials -> 0 .. MaxRequests] /\ dead' \subseteq Serials
    BY <1>5, <2>2, ReceiveDecides DEF TypeOK
  <2>4. answers' \in Seq(Answers) BY <2>1 DEF TypeOK
  <2>5. /\ life' \in {"probing", "ready", "failed"}
        /\ tries' \in 0 .. Tries
        /\ life' = "probing" => tries' > 0
        /\ at' \in {"idle", "pop"} /\ target' \in 0 .. MaxRequests /\ current' = <<>>
    <3>1. CASE \E ok, retry : Return(ok, retry) BY <3>1, ReturnTyped, RequestsAssumption
    <3>2. CASE at' = "pop" /\ current' = <<>> /\ UNCHANGED <<life, tries, target>>
      BY <3>2 DEF TypeOK
    <3> QED BY <1>5, <3>1, <3>2 DEF Receive
  <2>6. /\ token' \in 0 .. TokenMod - 1 /\ issued' \in 0 .. MaxRequests
        /\ pending' \in Seq(Requests) /\ requests' \in Seq(Requests)
    BY <1>5, ReceiveDecides DEF TypeOK
  <2>7. /\ at' # "recv" /\ at' \in {"idle", "pop", "recv"}
        /\ current' \in Seq(Requests) /\ Len(current') = 0
    BY <1>5, <2>5, ReceiveDecides
  <2> QED BY <2>3, <2>4, <2>5, <2>6, <2>7 DEF TypeOK
<1>6. CASE Timeout
  <2>1. \E ok, retry : Return(ok, retry) BY <1>6 DEF Timeout
  <2>2. dead' \subseteq Serials
    <3>1. \A f \in Requests : f.serial \in Serials BY DEF Requests
    <3> QED BY <1>6, <3>1, TimeoutForgets, SerialsWait DEF TypeOK
  <2>3. /\ life' \in {"probing", "ready", "failed"}
        /\ tries' \in 0 .. Tries /\ (life' = "probing" => tries' > 0)
        /\ at' = "idle" /\ target' = 0 /\ current' = <<>>
    BY <2>1, ReturnTyped
  <2>4. /\ UNCHANGED <<token, issued, value, requests, answers>> /\ pending' = <<>>
    BY <1>6, TimeoutForgets
  <2> QED BY <2>2, <2>3, <2>4, RequestsAssumption DEF TypeOK
<1>7. CASE Serve
  <2>1. requests' \in Seq(Requests) BY <1>7, ServeAnswers, Shortened DEF TypeOK
  <2> QED BY <1>7, <2>1, ServeAnswers DEF TypeOK, Serve, client
<1>8. CASE Restart BY <1>8 DEF Restart, TypeOK, client
<1> QED
  BY <1>1, <1>2, <1>3, <1>4, <1>5, <1>6, <1>7, <1>8 DEF Next, ClientStep

-------------------------------------------------------------------------------
(* The invariant. *)

\* Sending makes only the new request known.
LEMMA KnownSend ==
  ASSUME TypeOK, NEW r \in Requests, Sends(r)
  PROVE  \A f \in Requests : /\ Known(f)' => Known(f) \/ f = r
                             /\ Waits(f)' => Waits(f) \/ f = r
<1>1. \A i \in 1 .. Len(requests') :
        requests'[i] = r \/ \E j \in 1 .. Len(requests) : requests'[i] = requests[j]
  <2>1. requests \in Seq(Requests) /\ requests' = Append(requests, r) BY DEF TypeOK, Sends
  <2>2. \A i \in 1 .. Len(requests') : i \in 1 .. Len(requests) \/ i = Len(requests) + 1
    BY <2>1, Appended
  <2> QED BY <2>1, <2>2, Appended
<1>2. \A i \in 1 .. Len(pending') :
        pending'[i] = r \/ \E j \in 1 .. Len(pending) : pending'[i] = pending[j]
  <2>1. pending \in Seq(Requests) /\ pending' = Append(pending, r) BY DEF TypeOK, Sends
  <2>2. \A i \in 1 .. Len(pending') : i \in 1 .. Len(pending) \/ i = Len(pending) + 1
    BY <2>1, Appended
  <2> QED BY <2>1, <2>2, Appended
<1>3. current' = current /\ answers' = answers BY DEF Sends
<1> QED BY <1>1, <1>2, <1>3 DEF Known, Waits

\* No other step makes a request known.
Quiet == Wait \/ Pop \/ PopEmpty \/ Receive \/ Timeout \/ Serve \/ Restart

\* Nor does it make one wait that did not.
LEMMA KnownStays ==
  ASSUME TypeOK, Quiet
  PROVE  /\ UNCHANGED <<token, issued>>
         /\ \A f \in Requests : /\ Known(f)' => Known(f)
                                /\ Waits(f)' => Waits(f)
<1> USE DEF Known, Waits
<1>1. CASE Wait \/ PopEmpty BY <1>1, QuietLeaves
<1>2. CASE Pop
  <2>1. /\ pending # <<>> /\ pending' = Tail(pending) /\ pending \in Seq(Requests)
        /\ Len(current') = 1 /\ current'[1] = pending[1]
        /\ UNCHANGED <<token, issued, requests, answers>>
    BY <1>2, PopMoves DEF TypeOK
  <2>2. \A i \in 1 .. Len(pending') : i + 1 \in 1 .. Len(pending) /\ pending'[i] = pending[i + 1]
    BY <2>1, Shortened
  <2>3. 1 \in 1 .. Len(pending) BY <2>1
  <2>4. \A f \in Requests : Waits(f)' => \E i \in 1 .. Len(pending) : pending[i] = f
    BY <2>1, <2>2, <2>3
  <2> QED BY <2>1, <2>4
<1>3. CASE Receive
  <2>1. /\ answers # <<>> /\ answers' = Tail(answers) /\ answers \in Seq(Answers)
        /\ current' = <<>> /\ UNCHANGED <<token, issued, pending, requests>>
    BY <1>3, ReceiveDecides DEF TypeOK
  <2>2. \A i \in 1 .. Len(answers') : i + 1 \in 1 .. Len(answers) /\ answers'[i] = answers[i + 1]
    BY <2>1
  <2>3. Len(current') = 0 BY <2>1
  <2> QED BY <2>1, <2>2, <2>3
<1>4. CASE Timeout
  <2>1. Len(current') = 0 /\ Len(pending') = 0 BY <1>4, TimeoutForgets
  <2> QED BY <1>4, <2>1, TimeoutForgets
<1>5. CASE Serve
  <2>1. /\ requests # <<>> /\ requests' = Tail(requests) /\ requests \in Seq(Requests)
        /\ \A i \in 1 .. Len(answers') :
             \/ answers'[i].to = requests[1]
             \/ \E j \in 1 .. Len(answers) : answers'[i] = answers[j]
        /\ UNCHANGED client
    BY <1>5, ServeAnswers DEF TypeOK, Serve
  <2>2. \A i \in 1 .. Len(requests') :
          i + 1 \in 1 .. Len(requests) /\ requests'[i] = requests[i + 1]
    BY <2>1, Shortened
  <2>3. 1 \in 1 .. Len(requests) BY <2>1
  <2>4. UNCHANGED <<token, issued, pending, current>> BY <2>1 DEF client
  <2>5. \A f \in Requests : Known(f)' => Known(f)
    <3> SUFFICES ASSUME NEW f \in Requests, Known(f)' PROVE Known(f) OBVIOUS
    <3>1. CASE \E i \in 1 .. Len(requests') : requests'[i] = f BY <2>2, <3>1
    <3>2. CASE \E i \in 1 .. Len(answers') : answers'[i].to = f BY <2>1, <2>3, <3>2
    <3> QED BY <2>4, <3>1, <3>2
  <2> QED BY <2>4, <2>5
<1>6. CASE Restart
  <2>1. Len(requests') = 0 /\ UNCHANGED <<token, issued, pending, current, answers>>
    BY <1>6 DEF Restart, client
  <2> QED BY <2>1
<1> QED BY <1>1, <1>2, <1>3, <1>4, <1>5, <1>6 DEF Quiet

\* A step is a request sent or one of the others.
LEMMA StepKinds ==
  ASSUME TypeOK, Next
  PROVE  (\E r \in Requests : Sends(r)) \/ Quiet
<1>1. Issue \/ TryProbe \/ Quiet BY DEF Next, ClientStep, Quiet
<1> QED BY <1>1, ClientSends

\* Every request that is known keeps the token that belongs to its serial.
LEMMA NumberedStep == IInv /\ Next => AllNumbered'
<1> SUFFICES ASSUME IInv, Next PROVE AllNumbered' OBVIOUS
<1>1. TypeOK BY DEF IInv
<1>2. CASE \E r \in Requests : Sends(r)
  <2>1. PICK r \in Requests : Sends(r) BY <1>2
  <2> SUFFICES ASSUME NEW f \in Requests, Known(f) \/ f = r PROVE Numbered(f)'
    BY <1>1, <2>1, KnownSend DEF AllNumbered
  <2>2. /\ issued' = issued + 1 /\ token' \in 0 .. TokenMod - 1
        /\ token' = IF token + 1 = TokenMod THEN 0 ELSE token + 1
        /\ token \in Nat /\ issued \in Nat /\ TokenMod \in Nat \ {0}
    BY <1>1, <2>1, NextTokens, TokenAssumption DEF Sends, TypeOK
  <2>3. f.serial \in Nat /\ f.token \in 0 .. TokenMod - 1 BY DEF Requests, Serials
  <2>4. CASE f = r
    <3>1. f.serial = issued + 1 /\ f.token = token' BY <2>1, <2>4 DEF Sends
    <3> QED BY <2>2, <2>3, <3>1 DEF Numbered
  <2>5. CASE Known(f)
    <3>1. Numbered(f) /\ issued + 1 < f.serial + TokenMod
      BY <2>1, <2>5 DEF Sends, IInv, AllNumbered
    <3>2. CASE token + 1 = TokenMod
      <4>1. token' = token + 1 - TokenMod BY <2>2, <3>2
      <4>2. token = f.token + (issued - f.serial)
        BY <2>2, <2>3, <3>1, <3>2 DEF Numbered
      <4> QED BY <2>2, <2>3, <3>1, <4>1, <4>2 DEF Numbered
    <3>3. CASE token + 1 # TokenMod
      <4>1. token' = token + 1 BY <2>2, <3>3
      <4> QED BY <2>2, <2>3, <3>1, <4>1 DEF Numbered
    <3> QED BY <3>2, <3>3
  <2> QED BY <2>4, <2>5
<1>3. CASE Quiet
  <2>1. \A f \in Requests : Known(f)' => Known(f) BY <1>1, <1>3, KnownStays
  <2>2. UNCHANGED <<token, issued>> BY <1>1, <1>3, KnownStays
  <2>3. \A f \in Requests : Numbered(f) => Numbered(f)' BY <2>2 DEF Numbered
  <2> QED BY <2>1, <2>3 DEF IInv, AllNumbered
<1> QED BY <1>1, <1>2, <1>3, StepKinds

\* The futures are in the order of their serials: a new one has the highest.
LEMMA OrderStep == IInv /\ Next => InOrder'
<1> SUFFICES ASSUME IInv, Next PROVE InOrder' OBVIOUS
<1>1. TypeOK /\ InOrder /\ pending \in Seq(Requests) BY DEF IInv, TypeOK
<1>2. CASE \E r \in Requests : Sends(r)
  <2>1. PICK r \in Requests : Sends(r) BY <1>2
  <2>2. /\ pending' = Append(pending, r) /\ current' = current
        /\ Len(pending) \in Nat /\ Len(pending') = Len(pending) + 1
        /\ pending'[Len(pending) + 1] = r
        /\ \A i \in 1 .. Len(pending) : pending'[i] = pending[i]
    BY <1>1, <2>1, Appended DEF Sends
  <2>3. \A i \in 1 .. Len(pending) : pending[i] \in Requests /\ pending[i].serial < r.serial
    <3> SUFFICES ASSUME NEW i \in 1 .. Len(pending)
                 PROVE  pending[i] \in Requests /\ pending[i].serial < r.serial
      OBVIOUS
    <3>1. pending[i] \in Requests BY <1>1
    <3>2. Numbered(pending[i]) BY <3>1 DEF IInv, AllNumbered, Known, Waits
    <3>3. \A f \in Requests : f.serial \in Nat BY DEF Requests, Serials
    <3>4. r.serial = issued + 1 /\ issued \in Nat BY <1>1, <2>1 DEF Sends, TypeOK
    <3> QED BY <3>1, <3>2, <3>3, <3>4 DEF Numbered
  <2>4. at' # "recv"
    <3>1. at = "idle" BY <2>1 DEF Sends
    <3> QED BY <3>1 DEF Next, Issue, TryProbe, Wait, ClientStep, Pop, PopEmpty, Receive, Timeout,
                        Serve, Restart, client
  <2>5. \A i \in 1 .. Len(pending') : i \in 1 .. Len(pending) \/ i = Len(pending) + 1
    BY <2>2
  <2>6. \A i, j \in 1 .. Len(pending') : i < j => i \in 1 .. Len(pending) BY <2>2
  <2> QED BY <1>1, <2>2, <2>3, <2>4, <2>5, <2>6 DEF InOrder
<1>3. CASE Pop
  <2>1. /\ pending # <<>> /\ pending' = Tail(pending) /\ current'[1] = pending[1]
        /\ Len(pending) \in Nat \ {0} /\ Len(pending') = Len(pending) - 1
        /\ \A i \in 1 .. Len(pending') : pending'[i] = pending[i + 1]
    BY <1>1, <1>3, PopMoves, Shortened
  <2>2. \A i \in 1 .. Len(pending') : i + 1 \in 1 .. Len(pending) /\ i + 1 > 1 BY <2>1
  <2>3. 1 \in 1 .. Len(pending) BY <2>1
  <2>4. \A i, j \in 1 .. Len(pending') : i < j => i + 1 < j + 1 OBVIOUS
  <2> QED BY <1>1, <2>1, <2>2, <2>3, <2>4 DEF InOrder
<1>4. CASE Wait \/ PopEmpty BY <1>1, <1>4, QuietLeaves DEF InOrder
<1>5. CASE Receive BY <1>1, <1>5, ReceiveDecides DEF InOrder
<1>6. CASE Timeout
  <2>1. Len(pending') = 0 /\ at' = "idle" BY <1>1, <1>6, TimeoutForgets
  <2> QED BY <2>1 DEF InOrder
<1>7. CASE Serve \/ Restart BY <1>1, <1>7 DEF InOrder, Serve, Restart, client
<1> QED BY <1>1, <1>2, <1>3, <1>4, <1>5, <1>6, <1>7, StepKinds DEF Quiet

\* The future an answer decides does not wait afterwards.
LEMMA NotPopped ==
  ASSUME IInv, at = "recv", NEW i \in 1 .. Len(pending)
  PROVE  pending[i].serial # current[1].serial
<1>1. pending[i] \in Requests /\ current[1] \in Requests
  <2>1. Len(current) = 1 /\ current \in Seq(Requests) /\ pending \in Seq(Requests)
    BY DEF IInv, TypeOK
  <2>2. \A s \in Seq(Requests) : \A j \in 1 .. Len(s) : s[j] \in Requests OBVIOUS
  <2>3. 1 \in 1 .. Len(current) BY <2>1
  <2> QED BY <2>1, <2>2, <2>3
<1>2. current[1].serial \in Nat /\ pending[i].serial \in Nat BY <1>1 DEF Requests, Serials
<1>3. current[1].serial < pending[i].serial BY DEF IInv, InOrder
<1> QED BY <1>2, <1>3

\* What Receive does, seen by the serials: the future is decided by its own answer.
LEMMA ReceiveOwn ==
  ASSUME IInv, Receive
  PROVE  \E s \in Serials :
           /\ s = current[1].serial /\ s <= issued /\ s \notin dead /\ value[s] = 0
           /\ \/ value' = [value EXCEPT ![s] = s] /\ dead' = dead
              \/ value' = value /\ dead' = dead \cup {s}
<1> DEFINE f == current[1]  g == answers[1].to
<1>1. TypeOK /\ AllNumbered /\ Undecided BY DEF IInv
<1>2. at = "recv" /\ f \in Requests /\ answers[1] \in Answers /\ answers # <<>>
  BY <1>1, ReceiveDecides
<1>3. g \in Requests BY <1>2 DEF Answers
<1>4. Waits(f) /\ Known(f) /\ Known(g)
  <2>1. 1 \in 1 .. Len(current) /\ 1 \in 1 .. Len(answers) BY <1>1, <1>2 DEF TypeOK
  <2> QED BY <2>1 DEF Known, Waits
<1>5. Numbered(f) /\ Numbered(g) BY <1>1, <1>2, <1>3, <1>4 DEF AllNumbered
<1>6. f.serial \in Serials BY <1>2 DEF Requests
<1>7. Matches(g, f) => g.serial = f.serial
  BY <1>1, <1>2, <1>3, <1>5, TokensTell DEF Matches
<1>8. f.serial <= issued /\ f.serial \notin dead /\ value[f.serial] = 0
  BY <1>1, <1>2, <1>4, <1>5 DEF Undecided, Numbered
<1>9. \/ /\ Matches(g, f)
         /\ value' = [value EXCEPT ![f.serial] = g.serial] /\ dead' = dead
      \/ value' = value /\ dead' = dead \cup {f.serial}
  BY <1>1, ReceiveDecides
<1> HIDE DEF f, g
<1>10. \/ value' = [value EXCEPT ![f.serial] = f.serial] /\ dead' = dead
       \/ value' = value /\ dead' = dead \cup {f.serial}
  BY <1>7, <1>9
<1> QED BY <1>6, <1>8, <1>10 DEF f

\* A future that waits has neither been answered nor failed, after every step.
LEMMA UndecidedStep == IInv /\ Next => Undecided'
<1> SUFFICES ASSUME IInv, Next PROVE Undecided' OBVIOUS
<1>1. TypeOK /\ Undecided BY DEF IInv
<1>2. CASE \E r \in Requests : Sends(r)
  <2>1. PICK r \in Requests : Sends(r) BY <1>2
  <2>2. value' = value /\ dead' = dead /\ r.serial = issued + 1 BY <2>1 DEF Sends
  <2>3. r.serial \in Serials /\ issued \in Nat BY <1>1 DEF Requests, TypeOK
  <2>4. value[r.serial] = 0 /\ r.serial \notin dead
    BY <2>2, <2>3 DEF IInv, Settled
  <2> QED BY <1>1, <2>1, <2>2, <2>4, KnownSend DEF Undecided
<1>3. CASE Receive
  <2>1. PICK s \in Serials :
          /\ s = current[1].serial
          /\ \/ value' = [value EXCEPT ![s] = s] /\ dead' = dead
             \/ value' = value /\ dead' = dead \cup {s}
    BY <1>3, ReceiveOwn
  <2>2. at = "recv" /\ Len(current') = 0 /\ pending' = pending BY <1>1, <1>3, ReceiveDecides
  <2>3. \A f \in Requests : Waits(f)' => Waits(f) /\ f.serial # s
    BY <2>1, <2>2, NotPopped DEF Waits
  <2>4. \A f \in Requests : f.serial \in Serials BY DEF Requests
  <2>5. value \in [Serials -> 0 .. MaxRequests] BY <1>1 DEF TypeOK
  <2> QED BY <1>1, <2>1, <2>3, <2>4, <2>5 DEF Undecided
<1>4. CASE Timeout
  <2>1. Len(pending') = 0 /\ Len(current') = 0 BY <1>1, <1>4, TimeoutForgets
  <2> QED BY <2>1 DEF Undecided, Waits
<1>5. CASE Wait \/ Pop \/ PopEmpty \/ Serve \/ Restart
  <2>1. UNCHANGED <<value, dead>>
    BY <1>1, <1>5, QuietLeaves, PopMoves DEF Serve, Restart, client
  <2>2. \A f \in Requests : Waits(f)' => Waits(f) BY <1>1, <1>5, KnownStays DEF Quiet
  <2> QED BY <1>1, <2>1, <2>2 DEF Undecided
<1> QED BY <1>1, <1>2, <1>3, <1>4, <1>5, StepKinds DEF Quiet

\* A time-out gives up what waits, and all of that is undecided.
LEMMA TimeoutOpen ==
  ASSUME IInv, NEW s \in SerialsOf(pending) \cup SerialsOf(current)
  PROVE  s \in Serials /\ s <= issued /\ value[s] = 0 /\ s \notin dead
<1>1. PICK f \in Requests : Waits(f) /\ f.serial = s BY SerialsWait DEF IInv
<1>2. f.serial \in Serials /\ Known(f) BY <1>1 DEF Requests, Known
<1> QED BY <1>1, <1>2 DEF IInv, AllNumbered, Numbered, Undecided

\* A value is that of the access itself, and never that of a failed one, after every step.
LEMMA SettledStep == IInv /\ Next => Settled'
<1> SUFFICES ASSUME IInv, Next PROVE Settled' OBVIOUS
<1>1. TypeOK /\ Settled /\ value \in [Serials -> 0 .. MaxRequests] /\ dead \subseteq Serials
  BY DEF IInv, TypeOK
<1>2. \A s \in Serials : s \in Nat /\ s # 0 BY DEF Serials
<1>3. CASE \E r \in Requests : Sends(r)
  <2>1. value' = value /\ dead' = dead /\ issued' = issued + 1 /\ issued \in Nat
    BY <1>1, <1>3 DEF Sends, TypeOK
  <2>2. \A s \in Serials : s <= issued => s <= issued' BY <1>2, <2>1
  <2> QED BY <1>1, <2>1, <2>2 DEF Settled
<1>4. CASE Receive
  <2>1. issued' = issued BY <1>1, <1>4, ReceiveDecides
  <2> QED BY <1>1, <1>2, <1>4, <2>1, ReceiveOwn DEF Settled
<1>5. CASE Timeout
  <2>1. /\ dead' = dead \cup (SerialsOf(pending) \cup SerialsOf(current))
        /\ value' = value /\ issued' = issued
    BY <1>1, <1>5, TimeoutForgets
  <2>2. \A s \in SerialsOf(pending) \cup SerialsOf(current) : value[s] = 0 /\ s <= issued
    BY TimeoutOpen
  <2> QED BY <1>1, <1>2, <2>1, <2>2 DEF Settled
<1>6. CASE Wait \/ Pop \/ PopEmpty \/ Serve \/ Restart
  <2>1. UNCHANGED <<value, dead, issued>>
    BY <1>1, <1>6, QuietLeaves, PopMoves DEF Serve, Restart, client
  <2> QED BY <1>1, <2>1 DEF Settled
<1> QED BY <1>1, <1>3, <1>4, <1>5, <1>6, StepKinds DEF Quiet

\* The invariant of the client under every interleaving of accesses, answers, time-outs
\* and restarts of the service (FPGAClientInterface).
THEOREM FpgaClientInvariant == Spec => []IInv
<1>1. IInv /\ [Next]_vars => IInv'
  <2> SUFFICES ASSUME IInv, [Next]_vars PROVE IInv' OBVIOUS
  <2>1. CASE Next BY <2>1, TypeStep, NumberedStep, OrderStep, UndecidedStep, SettledStep DEF IInv
  <2>2. CASE UNCHANGED vars
    BY <2>2 DEF vars, client, wires, IInv, TypeOK, AllNumbered, Numbered, Known, Waits, InOrder,
                Undecided, Settled
  <2> QED BY <2>1, <2>2
<1> QED BY <1>1, InitGood, PTL DEF Spec

\* A future that holds a value holds the answer of its own access.
THEOREM AnswersAreOwn == Spec => []OwnAnswer
<1>1. IInv => OwnAnswer BY DEF IInv, Settled, OwnAnswer
<1> QED BY <1>1, FpgaClientInvariant, PTL

-------------------------------------------------------------------------------
(* The client implements Futures. *)

\* The client starts as Futures does.
LEMMA InitPromised == Init => Promise!Init
<1> SUFFICES ASSUME Init PROVE Promise!Init OBVIOUS
<1>1. \A s \in Serials : s > issued BY DEF Init, Serials
<1> QED BY <1>1 DEF Promise!Init, Outcome

\* Sending a request opens the next access.
LEMMA SendPromised ==
  ASSUME IInv, NEW r \in Requests, Sends(r)
  PROVE  Promise!Issue(r.serial)
<1> DEFINE n == issued + 1
<1>1. /\ r.serial = n /\ issued' = n /\ n \in Serials /\ issued \in Nat
      /\ value' = value /\ dead' = dead
  BY DEF Sends, IInv, TypeOK, Requests
<1>2. value[n] # n /\ n \notin dead BY <1>1 DEF IInv, Settled, Serials
<1>3. Outcome[n] = "unissued" BY <1>1 DEF Outcome
<1>4. \A s \in Serials : s # n => (s > issued' <=> s > issued) BY <1>1 DEF Serials
<1>5. ~(n > issued') BY <1>1
<1>6. Outcome' = [Outcome EXCEPT ![n] = "open"] BY <1>1, <1>2, <1>4, <1>5 DEF Outcome
<1> QED BY <1>1, <1>3, <1>6 DEF Promise!Issue

\* An answer that is received decides the one open access it belongs to.
LEMMA ReceivePromised ==
  ASSUME IInv, Receive
  PROVE  \E s \in Serials : Promise!Answer(s) \/ Promise!GiveUp({s})
<1>1. PICK s \in Serials :
        /\ s <= issued /\ s \notin dead /\ value[s] = 0
        /\ \/ value' = [value EXCEPT ![s] = s] /\ dead' = dead
           \/ value' = value /\ dead' = dead \cup {s}
  BY ReceiveOwn
<1>2. issued' = issued /\ issued \in Nat /\ s \in Nat /\ s # 0 /\ ~(s > issued)
  BY <1>1, ReceiveDecides DEF IInv, TypeOK, Serials
<1>3. Outcome[s] = "open" BY <1>1, <1>2 DEF Outcome
<1>4. value \in [Serials -> 0 .. MaxRequests] BY DEF IInv, TypeOK
<1>5. CASE value' = [value EXCEPT ![s] = s] /\ dead' = dead
  <2>1. Outcome' = [Outcome EXCEPT ![s] = "answered"] BY <1>2, <1>4, <1>5 DEF Outcome
  <2> QED BY <1>3, <2>1 DEF Promise!Answer
<1>6. CASE value' = value /\ dead' = dead \cup {s}
  <2>1. Outcome' = [t \in Serials |-> IF t \in {s} THEN "failed" ELSE Outcome[t]]
    BY <1>1, <1>2, <1>6 DEF Outcome
  <2> QED BY <1>3, <2>1 DEF Promise!GiveUp
<1> QED BY <1>1, <1>5, <1>6

\* A time-out of the client gives up open accesses of Futures.
LEMMA TimeoutPromised ==
  ASSUME IInv, Timeout
  PROVE  \E S \in SUBSET Serials : Promise!GiveUp(S)
<1> DEFINE S == SerialsOf(pending) \cup SerialsOf(current)
<1>1. dead' = dead \cup S /\ value' = value /\ issued' = issued /\ issued \in Nat
  BY TimeoutForgets DEF IInv, TypeOK
<1>2. \A s \in S : s \in Serials /\ s <= issued /\ value[s] = 0 /\ s \notin dead
  BY TimeoutOpen
<1> HIDE DEF S
<1>3. \A s \in S : s \in Nat /\ s # 0 /\ ~(s > issued) BY <1>1, <1>2 DEF Serials
<1>4. \A s \in S : Outcome[s] = "open" BY <1>2, <1>3 DEF Outcome
<1>5. Outcome' = [s \in Serials |-> IF s \in S THEN "failed" ELSE Outcome[s]]
  BY <1>1, <1>2, <1>3 DEF Outcome
<1>6. S \in SUBSET Serials BY <1>2
<1> QED BY <1>4, <1>5, <1>6 DEF Promise!GiveUp

\* Every access stays open until its own answer is there or it is given up for good.
THEOREM ClientKeepsPromise == Spec => PromiseKept
<1>1. IInv /\ [Next]_vars => [Promise!Next]_Outcome
  <2> SUFFICES ASSUME IInv, [Next]_vars PROVE Promise!Next \/ UNCHANGED Outcome OBVIOUS
  <2>1. TypeOK BY DEF IInv
  <2>2. CASE \E r \in Requests : Sends(r)
    <3>1. PICK r \in Requests : Sends(r) BY <2>2
    <3>2. r.serial \in Serials BY DEF Requests
    <3> QED BY <3>1, <3>2, SendPromised DEF Promise!Next
  <2>3. CASE Receive
    <3>1. PICK s \in Serials : Promise!Answer(s) \/ Promise!GiveUp({s})
      BY <2>3, ReceivePromised
    <3> QED BY <3>1 DEF Promise!Next
  <2>4. CASE Timeout
    <3>1. \E S \in SUBSET Serials : Promise!GiveUp(S) BY <2>4, TimeoutPromised
    <3> QED BY <3>1 DEF Promise!Next
  <2>5. CASE Wait \/ Pop \/ PopEmpty \/ Serve \/ Restart
    <3>1. UNCHANGED <<value, dead, issued>>
      BY <2>1, <2>5, QuietLeaves, PopMoves DEF Serve, Restart, client
    <3> QED BY <3>1 DEF Outcome
  <2>6. CASE UNCHANGED vars BY <2>6 DEF vars, client, Outcome
  <2> QED BY <2>1, <2>2, <2>3, <2>4, <2>5, <2>6, StepKinds DEF Quiet
<1> QED BY <1>1, InitPromised, FpgaClientInvariant, PTL DEF Spec, PromiseKept, Promise!Spec
===============================================================================
