------------------------------ MODULE GroundProofs ------------------------------
(***************************************************************************)
(* Proofs about the way from the bus to PAT and back: the driver and its    *)
(* users (Bus), and the command handlers (CommandHandler).                  *)
(***************************************************************************)
EXTENDS Bus, CommandHandler, FiniteSetTheorems, TLAPS

-------------------------------------------------------------------------------
(* Bus, for every number of packets, every room in queue and fifo, whatever the bus may send,
   and however often the driver's handlers come between two accesses of a write.

   Neither the order of the packets nor the count's drift is inductive.  BusInv numbers the
   packets in the order of their writes and says of the list that its links lead from earlier
   to later packets, that the entry next to tx_queue points back to tx_queue, and that it is
   later than all that was taken; of the count, what each side may have read of it. *)

\* Where packet_write may be.
WriterPlaces == {"idle", "load", "store", "add", "link", "last"}

\* The packets written so far.
Count == Cardinality(Written)

\* The shape of the list and of the variables.
DriverTypes ==
  /\ nxt \in [Entries -> Entries] /\ prv \in [Entries -> Entries]
  /\ len \in [Packets -> Nat]
  /\ writer \in [pc : WriterPlaces, packet : Entries, seen : Int]
  /\ txQueueLen \in Int /\ loaded \in Int /\ tx \in Entries /\ meetings \in Nat
  /\ sent \in Seq(Entries)

\* Packets are written in the order of their numbers; the writer is at the last one.
WrittenInOrder ==
  /\ Count \in 0..MaxWrites /\ Written = 1..Count
  /\ writer.pc # "idle" => Count > 0 /\ writer.packet = Count

\* What the pointers are, however often the two sides have been in each other's accesses:
\* a packet may drop out of the list, but none gets in twice.
LinksForward ==
  /\ \A e \in Entries : nxt[e] # Head0 => e < nxt[e] /\ nxt[e] <= Completed
  /\ nxt[Head0] # Head0 => prv[nxt[Head0]] = Head0
  /\ prv[Head0] <= (IF writer.pc = "last" THEN Completed + 1 ELSE Completed)
  /\ writer.pc \in {"link", "last"} => writer.seen \in 0..Completed
  /\ writer.pc = "last" => prv[writer.packet] = writer.seen

\* What is next is later than what was taken.
TakenBefore ==
  /\ irq = "idle" => tx = NULL
  /\ tx <= Completed /\ \A i \in 1..Len(sent) : sent[i] <= Completed
  /\ nxt[Head0] # Head0 => tx < nxt[Head0] /\ \A i \in 1..Len(sent) : sent[i] < nxt[Head0]

\* The count, and what each side has read of it when it is about to store, are wrong by as
\* many packets as there were meetings.
CountKnown ==
  /\ txQueueLen - Charged \in -meetings..meetings
  /\ writer.pc = "store" => writer.seen - Charged \in -meetings..meetings
  /\ DriverInside => loaded - Charged \in -meetings..meetings

\* What the driver's and the writer's steps keep.
BusInv == DriverTypes /\ WrittenInOrder /\ LinksForward /\ TakenBefore /\ CountKnown

\* What they are about.
coreVars == <<list, len, txQueueLen, writer, irq, tx, loaded, sent, meetings>>

\* What the invariant says in numbers.
LEMMA BusNumbers ==
  ASSUME BusInv
  PROVE  /\ Count \in Nat /\ Completed \in Nat /\ Len(sent) \in Nat
         /\ MaxWrites \in Nat /\ Count <= MaxWrites
         /\ Completed = IF writer.pc = "idle" THEN Count ELSE Count - 1
         /\ Charged = Count - (IF writer.pc \in {"load", "store"} THEN 1 ELSE 0) - Len(sent)
         /\ Charged \in Int
         /\ Packets = 1..MaxWrites /\ Entries = 0..MaxWrites
         /\ NULL = 0 /\ Head0 = 0
<1>1. Count \in 0..MaxWrites /\ MaxWrites \in Nat /\ (writer.pc # "idle" => Count > 0)
  BY DriverAssumption DEF BusInv, WrittenInOrder
<1>2. Completed = IF writer.pc = "idle" THEN Count ELSE Count - 1
  BY <1>1 DEF Completed, Count
<1>3. Len(sent) \in Nat BY DEF BusInv, DriverTypes
<1>4. Entries = 0..MaxWrites BY <1>1 DEF Entries, Packets, Head0
<1>5. Charged = Count - (IF writer.pc \in {"load", "store"} THEN 1 ELSE 0) - Len(sent)
  BY DEF Charged, Count
<1> QED BY <1>1, <1>2, <1>3, <1>4, <1>5 DEF Packets, NULL, Head0

\* A bound that grows.
LEMMA Wider ==
  ASSUME NEW m \in Nat, NEW n \in Nat, m <= n
  PROVE  -m..m \subseteq -n..n
OBVIOUS

\* A meeting is counted.
LEMMA Met ==
  ASSUME BusInv, NEW b \in BOOLEAN, Meeting(b)
  PROVE  /\ meetings' \in Nat /\ meetings \in Nat /\ meetings <= meetings'
         /\ meetings' = IF b THEN meetings + 1 ELSE meetings
<1>1. meetings \in Nat BY DEF BusInv, DriverTypes
<1> QED BY <1>1 DEF Meeting

\* What stays when no packet is written.
LEMMA SameCount ==
  ASSUME UNCHANGED len
  PROVE  /\ Written' = Written /\ Count' = Count
         /\ (writer'.pc = "idle" <=> writer.pc = "idle") => Completed' = Completed
BY DEF Written, Count, Completed

\* A step of either side that leaves the pointers and what was taken as they are.
LEMMA LinksKept ==
  ASSUME BusInv, UNCHANGED <<nxt, prv, tx, sent, Completed>>,
         irq' # "idle" \/ irq = "idle",
         writer'.pc = "last" <=> writer.pc = "last",
         writer'.pc \in {"link", "last"}
           => writer.pc \in {"link", "last"} /\ UNCHANGED <<writer.seen, writer.packet>>
  PROVE  LinksForward' /\ TakenBefore'
BY DEF BusInv, LinksForward, TakenBefore

\* packet_write: a new packet, behind all that were written.
LEMMA WriteBeginKeeps ==
  ASSUME BusInv, NEW n \in Nat, WriteBegin(n)
  PROVE  BusInv' /\ UNCHANGED <<Completed, tx, sent>>
<1>1. PICK p \in Packets \ Written :
        /\ \A q \in 1..p - 1 : q \in Written
        /\ len' = [len EXCEPT ![p] = n + 2 * PACKET_LATENCY]
        /\ writer' = [pc |-> "load", packet |-> p, seen |-> 0]
  BY DEF WriteBegin
<1>2. /\ writer.pc = "idle"
      /\ UNCHANGED <<nxt, prv, txQueueLen, irq, tx, loaded, sent, meetings>>
  BY DEF WriteBegin, list
<1>3. p = Count + 1
  <2>1. /\ Written = 1..Count /\ p \in Nat \ {0} /\ p \notin 1..Count
        /\ \A q \in 1..p-1 : q \in 1..Count
    BY <1>1, BusNumbers DEF BusInv, WrittenInOrder
  <2>2. Count \in Nat BY BusNumbers
  <2>3. p > Count BY <2>1, <2>2
  <2>4. p - 1 > 0 => p - 1 <= Count BY <2>1, <2>2
  <2> QED BY <2>1, <2>2, <2>3, <2>4
<1>4. len' \in [Packets -> Nat] /\ Written' = 1..(Count + 1)
  <2>1. n + 2 * PACKET_LATENCY \in Nat /\ n + 2 * PACKET_LATENCY > 0 BY DEF PACKET_LATENCY
  <2>2. /\ len' \in [Packets -> Nat]
        /\ \A q \in Packets : len'[q] > 0 <=> len[q] > 0 \/ q = p
    BY <1>1, <2>1 DEF BusInv, DriverTypes
  <2>3. Written' = Written \cup {p} BY <1>1, <2>2 DEF Written
  <2>4. Written = 1..Count BY DEF BusInv, WrittenInOrder
  <2> QED BY <1>3, <2>2, <2>3, <2>4, BusNumbers
<1>5. Count' = Count + 1 /\ Count + 1 <= MaxWrites
  <2>1. Cardinality(1..(Count + 1)) = Count + 1 BY FS_Interval, BusNumbers
  <2>2. Count + 1 \in 1..MaxWrites BY <1>1, <1>3, BusNumbers
  <2> QED BY <1>4, <2>1, <2>2 DEF Count
<1>6. DriverTypes'
  BY <1>1, <1>2, <1>4 DEF BusInv, DriverTypes, WriterPlaces, Entries
<1>7. WrittenInOrder' BY <1>1, <1>3, <1>4, <1>5, BusNumbers DEF WrittenInOrder
<1>8. Completed' = Completed
  BY <1>1, <1>2, <1>5, BusNumbers DEF Completed, Count
<1>9. writer'.pc = "load" BY <1>1
<1>10. LinksForward' /\ TakenBefore' BY <1>2, <1>8, <1>9, LinksKept
<1>11. CountKnown'
  <2>1. Charged' = Charged
    <3>1. Charged' = Count' - (IF writer'.pc \in {"load", "store"} THEN 1 ELSE 0) - Len(sent')
      BY DEF Charged, Count
    <3>2. Len(sent') = Len(sent) /\ writer'.pc \in {"load", "store"} BY <1>2, <1>9
    <3>3. Charged' = Count + 1 - 1 - Len(sent) BY <1>5, <3>1, <3>2, BusNumbers
    <3>4. Charged = Count - 0 - Len(sent) BY <1>2, BusNumbers
    <3> QED BY <3>3, <3>4, BusNumbers
  <2> QED BY <1>2, <1>9, <2>1 DEF BusInv, CountKnown, DriverInside
<1> QED BY <1>2, <1>6, <1>7, <1>8, <1>10, <1>11 DEF BusInv

\* The writer reads the count.
LEMMA WriteLoadKeeps ==
  ASSUME BusInv, WriteLoad
  PROVE  BusInv' /\ UNCHANGED <<Completed, tx, sent>>
<1>1. /\ writer.pc = "load" /\ writer' = [writer EXCEPT !.pc = "store", !.seen = txQueueLen]
      /\ Meeting(DriverInside)
      /\ UNCHANGED <<nxt, prv, len, txQueueLen, irq, tx, loaded, sent>>
  BY DEF WriteLoad, list
<1>2. /\ writer'.pc = "store" /\ writer'.packet = writer.packet /\ writer'.seen = txQueueLen
      /\ writer' \in [pc : WriterPlaces, packet : Entries, seen : Int]
  BY <1>1 DEF BusInv, DriverTypes, WriterPlaces
<1>3. Written' = Written /\ Count' = Count /\ Completed' = Completed
  BY <1>1, <1>2, SameCount
<1>4. meetings' \in Nat /\ meetings <= meetings' /\ meetings \in Nat
  <2>1. DriverInside \in BOOLEAN BY DEF DriverInside
  <2> QED BY <1>1, <2>1, Met
<1>5. DriverTypes' BY <1>1, <1>2, <1>4 DEF BusInv, DriverTypes
<1>6. WrittenInOrder' BY <1>1, <1>2, <1>3 DEF BusInv, WrittenInOrder
<1>7. LinksForward' /\ TakenBefore' BY <1>1, <1>2, <1>3, LinksKept
<1>8. CountKnown'
  <2>1. Charged' = Charged BY <1>1, <1>2, <1>3 DEF Charged, Count
  <2>2. DriverInside' = DriverInside BY <1>1 DEF DriverInside
  <2>3. /\ txQueueLen - Charged \in -meetings..meetings /\ txQueueLen - Charged \in Int
        /\ DriverInside
             => loaded - Charged \in -meetings..meetings /\ loaded - Charged \in Int
    BY BusNumbers DEF BusInv, DriverTypes, CountKnown
  <2>4. -meetings..meetings \subseteq -meetings'..meetings' BY <1>4, Wider
  <2> QED BY <1>1, <1>2, <2>1, <2>2, <2>3, <2>4 DEF CountKnown
<1> QED BY <1>1, <1>3, <1>5, <1>6, <1>7, <1>8 DEF BusInv

\* The writer stores it, one higher: what it has read is as wrong as before, what the driver
\* has read meanwhile is wrong by one more, and they have met.
LEMMA WriteStoreKeeps ==
  ASSUME BusInv, WriteStore
  PROVE  BusInv' /\ UNCHANGED <<Completed, tx, sent>>
<1>1. /\ writer.pc = "store" /\ writer' = [writer EXCEPT !.pc = "add"]
      /\ txQueueLen' = writer.seen + 1 /\ Meeting(DriverInside)
      /\ UNCHANGED <<nxt, prv, len, irq, tx, loaded, sent>>
  BY DEF WriteStore, list
<1>2. /\ writer'.pc = "add" /\ writer'.packet = writer.packet
      /\ writer' \in [pc : WriterPlaces, packet : Entries, seen : Int]
  BY <1>1 DEF BusInv, DriverTypes, WriterPlaces
<1>3. Written' = Written /\ Count' = Count /\ Completed' = Completed
  BY <1>1, <1>2, SameCount
<1>4. /\ meetings' \in Nat /\ meetings \in Nat
      /\ meetings' = IF DriverInside THEN meetings + 1 ELSE meetings
  <2>1. DriverInside \in BOOLEAN BY DEF DriverInside
  <2> QED BY <1>1, <2>1, Met
<1>5. writer.seen \in Int /\ txQueueLen' \in Int BY <1>1 DEF BusInv, DriverTypes
<1>6. DriverTypes' BY <1>1, <1>2, <1>4, <1>5 DEF BusInv, DriverTypes
<1>7. WrittenInOrder' BY <1>1, <1>2, <1>3 DEF BusInv, WrittenInOrder
<1>8. LinksForward' /\ TakenBefore' BY <1>1, <1>2, <1>3, LinksKept
<1>9. CountKnown'
  <2>1. Charged' = Charged + 1
    <3>1. Charged' = Count' - (IF writer'.pc \in {"load", "store"} THEN 1 ELSE 0) - Len(sent')
      BY DEF Charged, Count
    <3>2. Charged' = Count - 0 - Len(sent) BY <1>1, <1>2, <1>3, <3>1
    <3>3. Charged = Count - 1 - Len(sent) BY <1>1, BusNumbers
    <3> QED BY <3>2, <3>3, BusNumbers
  <2>2. /\ writer.seen - Charged \in -meetings..meetings
        /\ DriverInside => loaded - Charged \in -meetings..meetings
    BY <1>1 DEF BusInv, CountKnown
  <2>3. DriverInside' = DriverInside /\ loaded' = loaded /\ loaded \in Int
    BY <1>1 DEF DriverInside, BusInv, DriverTypes
  <2>4. Charged \in Int BY BusNumbers
  <2>5. txQueueLen' - Charged' \in -meetings'..meetings'
    BY <1>1, <1>4, <1>5, <2>1, <2>2, <2>4
  <2>6. DriverInside => loaded - Charged' \in -meetings'..meetings'
    BY <1>4, <2>1, <2>2, <2>3, <2>4
  <2> QED BY <1>2, <2>3, <2>5, <2>6 DEF CountKnown
<1> QED BY <1>1, <1>3, <1>6, <1>7, <1>8, <1>9 DEF BusInv

\* The writer reads the last entry.
LEMMA WriteAddKeeps ==
  ASSUME BusInv, WriteAdd
  PROVE  BusInv' /\ UNCHANGED <<Completed, tx, sent>>
<1>1. /\ writer.pc = "add" /\ writer' = [writer EXCEPT !.pc = "link", !.seen = prv[Head0]]
      /\ UNCHANGED <<nxt, prv, len, txQueueLen, irq, tx, loaded, sent, meetings>>
  BY DEF WriteAdd, list
<1>2. prv[Head0] \in Int /\ prv[Head0] \in 0..Completed
  BY <1>1, BusNumbers DEF BusInv, DriverTypes, LinksForward
<1>3. /\ writer'.pc = "link" /\ writer'.packet = writer.packet /\ writer'.seen = prv[Head0]
      /\ writer' \in [pc : WriterPlaces, packet : Entries, seen : Int]
  BY <1>1, <1>2 DEF BusInv, DriverTypes, WriterPlaces
<1>4. Written' = Written /\ Count' = Count /\ Completed' = Completed
  BY <1>1, <1>3, SameCount
<1>5. DriverTypes' BY <1>1, <1>2, <1>3 DEF BusInv, DriverTypes
<1>6. WrittenInOrder' BY <1>1, <1>3, <1>4 DEF BusInv, WrittenInOrder
<1>7. LinksForward' /\ TakenBefore'
  BY <1>1, <1>2, <1>3, <1>4 DEF BusInv, LinksForward, TakenBefore
<1>8. CountKnown'
  <2>1. Charged' = Charged BY <1>1, <1>3, <1>4 DEF Charged, Count
  <2> QED BY <1>1, <1>3, <2>1 DEF BusInv, CountKnown, DriverInside
<1> QED BY <1>1, <1>4, <1>5, <1>6, <1>7, <1>8 DEF BusInv

\* The writer links the new entry backwards, which no walk from tx_queue sees.
LEMMA WriteLinkKeeps ==
  ASSUME BusInv, WriteLink
  PROVE  BusInv' /\ UNCHANGED <<Completed, tx, sent>>
<1>1. /\ writer.pc = "link" /\ writer' = [writer EXCEPT !.pc = "last"]
      /\ prv' = [prv EXCEPT ![Head0] = writer.packet, ![writer.packet] = writer.seen]
      /\ nxt' = [nxt EXCEPT ![writer.packet] = Head0]
      /\ UNCHANGED <<len, txQueueLen, irq, tx, loaded, sent, meetings>>
  BY DEF WriteLink
<1>2. /\ writer'.pc = "last" /\ writer'.packet = writer.packet /\ writer'.seen = writer.seen
      /\ writer' \in [pc : WriterPlaces, packet : Entries, seen : Int]
  BY <1>1 DEF BusInv, DriverTypes, WriterPlaces
<1>3. /\ writer.packet = Completed + 1 /\ Completed + 1 \in Entries /\ Head0 \in Entries
      /\ Completed + 1 # Head0 /\ writer.seen \in Entries /\ writer.seen \in 0..Completed
      /\ Completed \in Nat /\ Head0 = 0
  <2>1. writer.packet = Count /\ writer.seen \in 0..Completed
    BY <1>1 DEF BusInv, LinksForward, WrittenInOrder
  <2> QED BY <1>1, <2>1, BusNumbers
<1>4. /\ nxt' \in [Entries -> Entries] /\ prv' \in [Entries -> Entries]
      /\ nxt'[Completed + 1] = Head0 /\ prv'[Completed + 1] = writer.seen
      /\ prv'[Head0] = Completed + 1
      /\ \A e \in Entries : e # Completed + 1 => nxt'[e] = nxt[e]
      /\ \A e \in Entries : e # Completed + 1 /\ e # Head0 => prv'[e] = prv[e]
  BY <1>1, <1>3 DEF BusInv, DriverTypes
<1>5. Written' = Written /\ Count' = Count /\ Completed' = Completed
  BY <1>1, <1>2, SameCount
<1>6. DriverTypes' BY <1>1, <1>2, <1>3, <1>4 DEF BusInv, DriverTypes
<1>7. WrittenInOrder' BY <1>1, <1>2, <1>5 DEF BusInv, WrittenInOrder
<1>8. nxt'[Head0] = nxt[Head0] BY <1>3, <1>4
<1>9. LinksForward'
  <2>1. \A e \in Entries : nxt'[e] # Head0 => e < nxt'[e] /\ nxt'[e] <= Completed
    BY <1>4 DEF BusInv, LinksForward
  <2>2. ASSUME nxt[Head0] # Head0 PROVE prv'[nxt[Head0]] = Head0
    <3>1. nxt[Head0] \in Entries /\ nxt[Head0] <= Completed /\ prv[nxt[Head0]] = Head0
      BY <1>3, <2>2 DEF BusInv, DriverTypes, LinksForward
    <3>2. nxt[Head0] # Completed + 1 BY <1>3, <3>1, BusNumbers
    <3> QED BY <1>4, <2>2, <3>1, <3>2
  <2>3. prv'[Head0] <= Completed + 1 BY <1>3, <1>4
  <2> QED BY <1>2, <1>3, <1>4, <1>5, <1>8, <2>1, <2>2, <2>3 DEF LinksForward
<1>10. TakenBefore' BY <1>1, <1>5, <1>8 DEF BusInv, TakenBefore
<1>11. CountKnown'
  <2>1. Charged' = Charged BY <1>1, <1>2, <1>5 DEF Charged, Count
  <2> QED BY <1>1, <1>2, <2>1 DEF BusInv, CountKnown, DriverInside
<1> QED BY <1>1, <1>5, <1>6, <1>7, <1>9, <1>10, <1>11 DEF BusInv

\* The writer links it forwards: behind what it takes for the last entry, which may be in the
\* list no more.
LEMMA WriteLastKeeps ==
  ASSUME BusInv, WriteLast
  PROVE  BusInv' /\ Completed' = Completed + 1 /\ UNCHANGED <<tx, sent>>
<1>1. /\ writer.pc = "last" /\ writer' = Idle
      /\ nxt' = [nxt EXCEPT ![writer.seen] = writer.packet]
      /\ UNCHANGED <<prv, len, txQueueLen, irq, tx, loaded, sent, meetings>>
  BY DEF WriteLast
<1>2. /\ writer'.pc = "idle" /\ writer' \in [pc : WriterPlaces, packet : Entries, seen : Int]
  BY <1>1, BusNumbers DEF Idle, WriterPlaces
<1>3. /\ writer.packet = Completed + 1 /\ Completed + 1 \in Entries /\ Head0 \in Entries
      /\ Completed + 1 # Head0 /\ writer.seen \in Entries /\ writer.seen \in 0..Completed
      /\ Completed \in Nat /\ Head0 = 0
  <2>1. writer.packet = Count /\ writer.seen \in 0..Completed
    BY <1>1 DEF BusInv, LinksForward, WrittenInOrder
  <2> QED BY <1>1, <2>1, BusNumbers
<1>4. /\ nxt' \in [Entries -> Entries]
      /\ \A e \in Entries : nxt'[e] = IF e = writer.seen THEN Completed + 1 ELSE nxt[e]
  BY <1>1, <1>3 DEF BusInv, DriverTypes
<1>5. Written' = Written /\ Count' = Count
  BY <1>1, SameCount
<1>6. Completed' = Completed + 1 BY <1>1, <1>2, <1>5, BusNumbers DEF Completed, Count
<1>7. DriverTypes' BY <1>1, <1>2, <1>4 DEF BusInv, DriverTypes
<1>8. WrittenInOrder' BY <1>1, <1>2, <1>5 DEF BusInv, WrittenInOrder
<1>9. LinksForward'
  <2>1. ASSUME NEW e \in Entries, nxt'[e] # Head0
        PROVE  e < nxt'[e] /\ nxt'[e] <= Completed + 1
    <3>1. CASE e = writer.seen BY <1>3, <1>4, <3>1
    <3>2. CASE e # writer.seen
      <4>1. nxt'[e] = nxt[e] BY <1>4, <3>2
      <4>2. e < nxt[e] /\ nxt[e] <= Completed BY <2>1, <4>1 DEF BusInv, LinksForward
      <4>3. nxt[e] \in Int BY BusNumbers DEF BusInv, DriverTypes
      <4> QED BY <1>3, <4>1, <4>2, <4>3
    <3> QED BY <3>1, <3>2
  <2>2. ASSUME nxt'[Head0] # Head0 PROVE prv[nxt'[Head0]] = Head0
    <3>1. CASE writer.seen = Head0
      <4>1. nxt'[Head0] = writer.packet BY <1>3, <1>4, <3>1
      <4>2. prv[writer.packet] = writer.seen BY <1>1 DEF BusInv, LinksForward
      <4> QED BY <3>1, <4>1, <4>2
    <3>2. CASE writer.seen # Head0
      <4>1. nxt'[Head0] = nxt[Head0] BY <1>3, <1>4, <3>2
      <4> QED BY <2>2, <4>1 DEF BusInv, LinksForward
    <3> QED BY <3>1, <3>2
  <2>3. prv[Head0] <= Completed + 1 BY <1>1 DEF BusInv, LinksForward
  <2> QED BY <1>1, <1>2, <1>6, <2>1, <2>2, <2>3 DEF LinksForward
<1>10. TakenBefore'
  <2>1. /\ irq = "idle" => tx = NULL
        /\ tx <= Completed /\ \A i \in 1..Len(sent) : sent[i] <= Completed
    BY DEF BusInv, TakenBefore
  <2>2. tx \in Int /\ \A i \in 1..Len(sent) : sent[i] \in Int
    <3>1. \A i \in 1..Len(sent) : sent[i] \in Entries BY DEF BusInv, DriverTypes
    <3>2. tx \in Entries BY DEF BusInv, DriverTypes
    <3> QED BY <3>1, <3>2, BusNumbers
  <2>3. tx <= Completed + 1 /\ \A i \in 1..Len(sent) : sent[i] <= Completed + 1
    BY <1>3, <2>1, <2>2
  <2>4. ASSUME nxt'[Head0] # Head0
        PROVE  tx < nxt'[Head0] /\ \A i \in 1..Len(sent) : sent[i] < nxt'[Head0]
    <3>1. CASE writer.seen = Head0
      <4>1. nxt'[Head0] = Completed + 1 BY <1>3, <1>4, <3>1
      <4> QED BY <1>3, <2>1, <2>2, <4>1
    <3>2. CASE writer.seen # Head0
      <4>1. nxt'[Head0] = nxt[Head0] BY <1>3, <1>4, <3>2
      <4> QED BY <2>4, <4>1 DEF BusInv, TakenBefore
    <3> QED BY <3>1, <3>2
  <2> QED BY <1>1, <1>6, <2>1, <2>3, <2>4 DEF TakenBefore
<1>11. CountKnown'
  <2>1. Charged' = Charged BY <1>1, <1>2, <1>5 DEF Charged, Count
  <2> QED BY <1>1, <1>2, <2>1 DEF BusInv, CountKnown, DriverInside
<1> QED BY <1>1, <1>6, <1>7, <1>8, <1>9, <1>10, <1>11 DEF BusInv

-------------------------------------------------------------------------------
(* The driver's steps. *)

\* The interrupt takes the entry next to tx_queue off, whatever the writer is doing.
LEMMA InterruptKeeps ==
  ASSUME BusInv, Interrupt
  PROVE  /\ BusInv' /\ UNCHANGED <<Completed, sent>> /\ tx = NULL
         /\ tx' # NULL => /\ tx' \in 1..Completed
                          /\ \A i \in 1..Len(sent) : sent[i] < tx'
<1> DEFINE e == nxt[Head0]
<1>1. /\ irq = "idle" /\ irq' = "xfer" /\ tx' = e /\ Meeting(WriterInside)
      /\ UNCHANGED <<len, txQueueLen, writer, loaded, sent>>
      /\ e = NULL => UNCHANGED <<nxt, prv>>
      /\ e # NULL => /\ nxt' = [nxt EXCEPT ![prv[e]] = nxt[e]]
                     /\ prv' = [prv EXCEPT ![nxt[e]] = prv[e]]
  BY DEF Interrupt, Transfer, list
<1>2. e \in Entries /\ prv[e] \in Entries /\ nxt[e] \in Entries /\ Head0 \in Entries
      /\ Entries = 0..MaxWrites /\ MaxWrites \in Nat /\ Head0 = 0 /\ NULL = 0
      /\ Completed \in Nat
  BY BusNumbers DEF BusInv, DriverTypes
<1>3. /\ e # Head0 => /\ 0 < e /\ e <= Completed /\ prv[e] = Head0
                      /\ tx < e /\ \A i \in 1..Len(sent) : sent[i] < e
      /\ nxt[e] # Head0 => e < nxt[e] /\ nxt[e] <= Completed
      /\ \A x \in Entries : nxt[x] # Head0 => x < nxt[x] /\ nxt[x] <= Completed
      /\ prv[Head0] <= (IF writer.pc = "last" THEN Completed + 1 ELSE Completed)
      /\ writer.pc \in {"link", "last"} => writer.seen \in 0..Completed
      /\ writer.pc = "last" => prv[writer.packet] = writer.seen
  BY <1>2 DEF BusInv, LinksForward, TakenBefore
<1>4. writer.pc = "last" => writer.packet = Completed + 1 /\ writer.packet \in Entries
  BY BusNumbers DEF BusInv, DriverTypes, WrittenInOrder
<1>5. tx = NULL /\ \A i \in 1..Len(sent) : sent[i] <= Completed
  BY <1>1 DEF BusInv, TakenBefore
<1>6. \A i \in 1..Len(sent) : sent[i] \in Int
  <2>1. \A i \in 1..Len(sent) : sent[i] \in Entries BY DEF BusInv, DriverTypes
  <2> QED BY <1>2, <2>1
<1>7. nxt \in [Entries -> Entries] /\ prv \in [Entries -> Entries]
  BY DEF BusInv, DriverTypes
<1> HIDE DEF e
<1>8. nxt' \in [Entries -> Entries] /\ prv' \in [Entries -> Entries] BY <1>1, <1>2, <1>7
<1>9. /\ meetings' \in Nat /\ meetings <= meetings' /\ meetings \in Nat
  <2>1. WriterInside \in BOOLEAN /\ (tx # NULL /\ WriterInside) \in BOOLEAN BY DEF WriterInside
  <2> QED BY <1>1, <2>1, Met
<1>10. Written' = Written /\ Count' = Count /\ Completed' = Completed
  BY <1>1, SameCount
<1>11. DriverTypes' BY <1>1, <1>2, <1>8, <1>9 DEF BusInv, DriverTypes
<1>12. WrittenInOrder' BY <1>1, <1>10 DEF BusInv, WrittenInOrder
<1>13. CASE e = NULL
  <2>1. UNCHANGED <<nxt, prv, tx, writer>> BY <1>1, <1>5, <1>13
  <2>2. LinksForward' /\ TakenBefore' BY <1>1, <1>10, <2>1, LinksKept
  <2>3. CountKnown'
    <3>1. Charged' = Charged BY <1>1, <1>10 DEF Charged, Count
    <3>2. ~DriverInside' BY <1>1 DEF DriverInside
    <3>3. -meetings..meetings \subseteq -meetings'..meetings' BY <1>9, Wider
    <3> QED BY <1>1, <3>1, <3>2, <3>3 DEF BusInv, CountKnown
  <2> QED BY <1>1, <1>5, <1>10, <1>11, <1>12, <1>13, <2>2, <2>3 DEF BusInv
<1>14. CASE e # NULL
  <2>1. /\ \A x \in Entries : nxt'[x] = IF x = Head0 THEN nxt[e] ELSE nxt[x]
        /\ \A x \in Entries : prv'[x] = IF x = nxt[e] THEN Head0 ELSE prv[x]
    BY <1>1, <1>2, <1>3, <1>7, <1>14
  <2>2. LinksForward'
    <3>1. ASSUME NEW x \in Entries, nxt'[x] # Head0
          PROVE  x < nxt'[x] /\ nxt'[x] <= Completed
      <4>1. CASE x = Head0 BY <1>2, <1>3, <1>14, <2>1, <3>1, <4>1
      <4>2. CASE x # Head0 BY <1>3, <2>1, <3>1, <4>2
      <4> QED BY <4>1, <4>2
    <3>2. nxt'[Head0] = nxt[e] BY <1>2, <2>1
    <3>3. nxt'[Head0] # Head0 => prv'[nxt'[Head0]] = Head0 BY <1>2, <2>1, <3>2
    <3>4. prv'[Head0] <= (IF writer.pc = "last" THEN Completed + 1 ELSE Completed)
      <4>1. prv'[Head0] = Head0 \/ prv'[Head0] = prv[Head0] BY <1>2, <2>1
      <4> QED BY <1>2, <1>3, <4>1
    <3>5. writer.pc = "last" => prv'[writer.packet] = writer.seen
      <4> SUFFICES ASSUME writer.pc = "last" PROVE prv'[writer.packet] = writer.seen
        OBVIOUS
      <4>1. nxt[e] # Completed + 1 BY <1>2, <1>3
      <4> QED BY <1>3, <1>4, <2>1, <4>1
    <3> QED BY <1>1, <1>3, <1>10, <3>1, <3>3, <3>4, <3>5 DEF LinksForward
  <2>3. TakenBefore'
    <3>1. nxt'[Head0] = nxt[e] BY <1>2, <2>1
    <3>2. e \in Int /\ nxt[e] \in Int BY <1>2
    <3>3. nxt[e] # Head0 => e < nxt[e] /\ \A i \in 1..Len(sent) : sent[i] < nxt[e]
      BY <1>2, <1>3, <1>6, <1>14, <3>2
    <3>4. irq' # "idle" BY <1>1
    <3> QED BY <1>1, <1>2, <1>3, <1>5, <1>10, <1>14, <3>1, <3>3, <3>4 DEF TakenBefore
  <2>4. CountKnown'
    <3>1. Charged' = Charged BY <1>1, <1>10 DEF Charged, Count
    <3>2. ~DriverInside' BY <1>1 DEF DriverInside
    <3>3. -meetings..meetings \subseteq -meetings'..meetings' BY <1>9, Wider
    <3> QED BY <1>1, <3>1, <3>2, <3>3 DEF BusInv, CountKnown
  <2>5. e \in 1..Completed /\ \A i \in 1..Len(sent) : sent[i] < e BY <1>2, <1>3, <1>14
  <2> QED BY <1>1, <1>5, <1>10, <1>11, <1>12, <2>2, <2>3, <2>4, <2>5 DEF BusInv
<1> QED BY <1>13, <1>14

\* The transfer is over; the count is read.
LEMMA XferDoneKeeps ==
  ASSUME BusInv, XferDone
  PROVE  BusInv' /\ UNCHANGED <<Completed, tx, sent>>
<1>1. /\ irq = "xfer" /\ irq' = "freeing" /\ loaded' = txQueueLen
      /\ Meeting(tx # NULL /\ WriterInside)
      /\ UNCHANGED <<nxt, prv, len, txQueueLen, writer, tx, sent>>
  BY DEF XferDone, list
<1>2. meetings' \in Nat /\ meetings <= meetings' /\ meetings \in Nat
  <2>1. WriterInside \in BOOLEAN /\ (tx # NULL /\ WriterInside) \in BOOLEAN BY DEF WriterInside
  <2> QED BY <1>1, <2>1, Met
<1>3. Written' = Written /\ Count' = Count /\ Completed' = Completed
  BY <1>1, SameCount
<1>4. DriverTypes' BY <1>1, <1>2 DEF BusInv, DriverTypes
<1>5. WrittenInOrder' BY <1>1, <1>3 DEF BusInv, WrittenInOrder
<1>6. LinksForward' /\ TakenBefore' BY <1>1, <1>3, LinksKept
<1>7. CountKnown'
  <2>1. Charged' = Charged BY <1>1, <1>3 DEF Charged, Count
  <2>2. -meetings..meetings \subseteq -meetings'..meetings' BY <1>2, Wider
  <2> QED BY <1>1, <2>1, <2>2 DEF BusInv, CountKnown
<1> QED BY <1>1, <1>3, <1>4, <1>5, <1>6, <1>7 DEF BusInv

\* The packet is freed and counted off: what the driver has read is as wrong as before, what
\* the writer has read meanwhile is wrong by one more, and they have met.
LEMMA CompleteKeeps ==
  ASSUME BusInv, NEW in, Complete(in)
  PROVE  /\ BusInv' /\ UNCHANGED Completed
         /\ tx' = NULL /\ sent' = IF tx = NULL THEN sent ELSE Append(sent, tx)
<1>1. /\ irq = "freeing" /\ irq' = "idle" /\ tx' = NULL
      /\ sent' = IF tx = NULL THEN sent ELSE Append(sent, tx)
      /\ txQueueLen' = IF tx = NULL THEN txQueueLen ELSE loaded - 1
      /\ Meeting(tx # NULL /\ WriterInside)
      /\ UNCHANGED <<nxt, prv, len, writer, loaded>>
  BY DEF Complete, EndTransfer, list
<1>2. /\ meetings' \in Nat /\ meetings \in Nat
      /\ meetings' = IF tx # NULL /\ WriterInside THEN meetings + 1 ELSE meetings
  <2>1. WriterInside \in BOOLEAN /\ (tx # NULL /\ WriterInside) \in BOOLEAN BY DEF WriterInside
  <2> QED BY <1>1, <2>1, Met
<1>3. Written' = Written /\ Count' = Count /\ Completed' = Completed
  BY <1>1, SameCount
<1>4. /\ sent' \in Seq(Entries) /\ Len(sent') \in Nat
      /\ Len(sent') = IF tx = NULL THEN Len(sent) ELSE Len(sent) + 1
      /\ \A i \in 1..Len(sent') : sent'[i] = tx \/ \E k \in 1..Len(sent) : sent'[i] = sent[k]
  BY <1>1 DEF BusInv, DriverTypes
<1>5. txQueueLen' \in Int /\ NULL \in Entries BY <1>1, BusNumbers DEF BusInv, DriverTypes
<1>6. DriverTypes' BY <1>1, <1>2, <1>4, <1>5 DEF BusInv, DriverTypes
<1>7. WrittenInOrder' BY <1>1, <1>3 DEF BusInv, WrittenInOrder
<1>8. LinksForward' BY <1>1, <1>3 DEF BusInv, LinksForward
<1>9. TakenBefore'
  <2>1. /\ tx <= Completed /\ \A i \in 1..Len(sent) : sent[i] <= Completed
        /\ nxt[Head0] # Head0 => tx < nxt[Head0] /\ \A i \in 1..Len(sent) : sent[i] < nxt[Head0]
    BY DEF BusInv, TakenBefore
  <2>2. NULL <= Completed BY BusNumbers
  <2>3. nxt[Head0] # Head0 => NULL < nxt[Head0]
    <3>1. Head0 \in Entries /\ Head0 = 0 /\ NULL = 0 BY BusNumbers
    <3>2. nxt[Head0] # Head0 => Head0 < nxt[Head0] BY <3>1 DEF BusInv, LinksForward
    <3> QED BY <3>1, <3>2
  <2> QED BY <1>1, <1>3, <1>4, <2>1, <2>2, <2>3 DEF TakenBefore
<1>10. CountKnown'
  <2>1. ~DriverInside' BY <1>1 DEF DriverInside
  <2>2. Charged' = IF tx = NULL THEN Charged ELSE Charged - 1
    <3>1. Charged' = Count' - (IF writer'.pc \in {"load", "store"} THEN 1 ELSE 0) - Len(sent')
      BY DEF Charged, Count
    <3> QED BY <1>1, <1>3, <1>4, <3>1, BusNumbers
  <2>3. /\ txQueueLen \in Int /\ loaded \in Int /\ Charged \in Int /\ writer.seen \in Int
        /\ txQueueLen - Charged \in -meetings..meetings
        /\ writer.pc = "store" => writer.seen - Charged \in -meetings..meetings
        /\ tx # NULL => loaded - Charged \in -meetings..meetings
    BY <1>1, BusNumbers DEF BusInv, DriverTypes, CountKnown, DriverInside
  <2>4. txQueueLen' - Charged' \in -meetings'..meetings' BY <1>1, <1>2, <2>2, <2>3
  <2>5. writer.pc = "store" => writer.seen - Charged' \in -meetings'..meetings'
    BY <1>2, <2>2, <2>3 DEF WriterInside
  <2> QED BY <1>1, <2>1, <2>4, <2>5 DEF CountKnown
<1> QED BY <1>1, <1>3, <1>6, <1>7, <1>8, <1>9, <1>10 DEF BusInv

\* Reading, and what the Python processes do by themselves.
LEMMA CoreKept ==
  ASSUME BusInv, UNCHANGED coreVars
  PROVE  BusInv' /\ UNCHANGED <<Completed, tx, sent>>
<1>1. UNCHANGED <<nxt, prv, len, txQueueLen, writer, irq, tx, loaded, sent, meetings>>
  BY DEF coreVars, list
<1>2. Written' = Written /\ Count' = Count /\ Completed' = Completed
  BY <1>1, SameCount
<1>3. DriverTypes' /\ WrittenInOrder' BY <1>1, <1>2 DEF BusInv, DriverTypes, WrittenInOrder
<1>4. LinksForward' /\ TakenBefore' BY <1>1, <1>2, LinksKept
<1>5. CountKnown'
  <2>1. Charged' = Charged BY <1>1, <1>2 DEF Charged, Count
  <2> QED BY <1>1, <2>1 DEF BusInv, CountKnown, DriverInside
<1> QED BY <1>1, <1>2, <1>3, <1>4, <1>5 DEF BusInv

\* The kinds of steps of the bus.
LEMMA BusStepKinds ==
  ASSUME [BusNext]_busVars
  PROVE  \/ \E n \in Nat : WriteBegin(n)
         \/ Write \/ Interrupt \/ XferDone \/ \E in \in Incoming : Complete(in)
         \/ UNCHANGED coreVars
<1>1. ASSUME SendBusPkt PROVE \E n \in Nat : WriteBegin(n)
  <2>1. PICK n \in DataLens : WriteBegin(OnTheBus(n)) BY <1>1 DEF SendBusPkt
  <2>2. OnTheBus(n) \in Nat
    BY DataLensAssumption
    DEF OnTheBus, PACKET_OVERHEAD, PACKET_SYNC_LEN, PACKET_HEADER_LEN, CRC_LEN
  <2> QED BY <2>1, <2>2
<1>2. SegmentTooLong \/ WriteRefused => UNCHANGED coreVars
  BY DEF SegmentTooLong, WriteRefused, driverVars, coreVars
<1>3. HandleBusPkt \/ HandleFirstSegment \/ Reading => UNCHANGED coreVars
  BY DEF HandleBusPkt, HandleFirstSegment, Acquire, Reading, ReadPacket, ReadWait, ReadWake,
         coreVars
<1>4. DriverStep => Write \/ Interrupt \/ XferDone \/ \E in \in Incoming : Complete(in)
  BY DEF DriverStep, Finish
<1>5. UNCHANGED busVars => UNCHANGED coreVars BY DEF busVars, driverVars, coreVars
<1> QED BY <1>1, <1>2, <1>3, <1>4, <1>5 DEF BusNext

\* Every step of the bus keeps the invariant.
LEMMA BusStep ==
  ASSUME BusInv, [BusNext]_busVars
  PROVE  BusInv'
<1>1. Write => BusInv'
  BY WriteLoadKeeps, WriteStoreKeeps, WriteAddKeeps, WriteLinkKeeps, WriteLastKeeps DEF Write
<1>2. ASSUME NEW n \in Nat, WriteBegin(n) PROVE BusInv' BY <1>2, WriteBeginKeeps
<1>3. ASSUME NEW in \in Incoming, Complete(in) PROVE BusInv' BY <1>3, CompleteKeeps
<1> QED BY <1>1, <1>2, <1>3, BusStepKinds, InterruptKeeps, XferDoneKeeps, CoreKept

\* It holds at the start.
LEMMA BusStart ==
  ASSUME BusInit
  PROVE  BusInv /\ Completed = 0 /\ tx = NULL /\ sent = <<>>
<1>1. /\ nxt = [e \in Entries |-> Head0] /\ prv = [e \in Entries |-> Head0]
      /\ len = [p \in Packets |-> 0] /\ txQueueLen = 0 /\ writer = Idle
      /\ irq = "idle" /\ tx = NULL /\ loaded = 0 /\ sent = <<>> /\ meetings = 0
  BY DEF BusInit, DriverInit
<1>2. Written = {} BY <1>1 DEF Written
<1>3. Count = 0 BY <1>2, FS_EmptySet DEF Count
<1>4. writer.pc = "idle" BY <1>1 DEF Idle
<1>5. Completed = 0 BY <1>3, <1>4 DEF Completed, Count
<1>6. Len(sent) = 0 /\ sent \in Seq(Entries) BY <1>1
<1>7. Head0 \in Entries /\ NULL \in Entries /\ Head0 = 0 /\ NULL = 0 BY DEF Entries, Head0, NULL
<1>8. writer \in [pc : WriterPlaces, packet : Entries, seen : Int]
  BY <1>1, <1>7 DEF Idle, WriterPlaces
<1>9. DriverTypes BY <1>1, <1>6, <1>7, <1>8 DEF DriverTypes
<1>10. WrittenInOrder
  <2>1. 1..0 = {} OBVIOUS
  <2> QED BY <1>2, <1>3, <1>4, <2>1, DriverAssumption DEF WrittenInOrder
<1>11. nxt[Head0] = Head0 /\ prv[Head0] = Head0 /\ \A e \in Entries : nxt[e] = Head0
  BY <1>1, <1>7
<1>12. LinksForward BY <1>4, <1>5, <1>7, <1>11 DEF LinksForward
<1>13. TakenBefore BY <1>1, <1>5, <1>6, <1>7, <1>11 DEF TakenBefore
<1>14. CountKnown
  <2>1. Charged = Count - (IF writer.pc \in {"load", "store"} THEN 1 ELSE 0) - Len(sent)
    BY DEF Charged, Count
  <2>2. Charged = 0
    <3>1. Charged = 0 - 0 - 0 BY <1>3, <1>4, <1>6, <2>1
    <3> QED BY <3>1
  <2>3. ~DriverInside BY <1>1 DEF DriverInside
  <2> QED BY <1>1, <1>4, <2>2, <2>3 DEF CountKnown
<1> QED BY <1>1, <1>5, <1>9, <1>10, <1>12, <1>13, <1>14 DEF BusInv

\* For every number of packets, every room, whatever the bus sends and however often driver
\* and writer are in each other's accesses: the links lead from earlier to later packets, what
\* is next is later than what was taken, and the count is wrong by at most the number of
\* meetings (packet_write, interrupt_handler, spi_xfer_complete).
THEOREM BusInvariant == BusSpec => []BusInv
<1> QED BY BusStart, BusStep, PTL DEF BusSpec

\* tx_queue_len is wrong by at most one packet for each time the writer and a completion were
\* in each other's accesses (packet_write, packet_free).
THEOREM DriftIsBounded == BusSpec => []ChargeDrift
<1>1. BusInv => ChargeDrift BY DEF BusInv, CountKnown, ChargeDrift
<1> QED BY <1>1, BusInvariant, PTL

\* Every step of the bus is one of the queue that may lose packets, or none.
LEMMA BusStepIsOrdered ==
  ASSUME BusInv, [BusNext]_busVars
  PROVE  [Ordered!Next]_(Ordered!vars)
<1>1. ASSUME NEW n \in Nat, WriteBegin(n) PROVE UNCHANGED Ordered!vars
  BY <1>1, WriteBeginKeeps DEF Ordered!vars
<1>2. ASSUME Write PROVE Ordered!Put \/ UNCHANGED Ordered!vars
  <2>1. CASE WriteLast BY <2>1, WriteLastKeeps DEF Ordered!Put
  <2>2. CASE ~WriteLast
    <3>1. UNCHANGED <<Completed, tx, sent>>
      BY <1>2, <2>2, WriteLoadKeeps, WriteStoreKeeps, WriteAddKeeps, WriteLinkKeeps DEF Write
    <3> QED BY <3>1 DEF Ordered!vars
  <2> QED BY <2>1, <2>2
<1>3. ASSUME Interrupt PROVE Ordered!Take \/ UNCHANGED Ordered!vars
  <2>1. /\ UNCHANGED <<Completed, sent>> /\ tx = NULL
        /\ tx' # NULL => tx' \in 1..Completed /\ \A i \in 1..Len(sent) : sent[i] < tx'
    BY <1>3, InterruptKeeps
  <2>2. CASE tx' = NULL BY <2>1, <2>2 DEF Ordered!vars
  <2>3. CASE tx' # NULL BY <2>1, <2>3 DEF Ordered!Take, NULL
  <2> QED BY <2>2, <2>3
<1>4. ASSUME XferDone PROVE UNCHANGED Ordered!vars BY <1>4, XferDoneKeeps DEF Ordered!vars
<1>5. ASSUME NEW in \in Incoming, Complete(in) PROVE Ordered!Sent \/ UNCHANGED Ordered!vars
  <2>1. /\ UNCHANGED Completed /\ tx' = NULL
        /\ sent' = IF tx = NULL THEN sent ELSE Append(sent, tx)
    BY <1>5, CompleteKeeps
  <2>2. CASE tx = NULL BY <2>1, <2>2 DEF Ordered!vars
  <2>3. CASE tx # NULL BY <2>1, <2>3 DEF Ordered!Sent, NULL
  <2> QED BY <2>2, <2>3
<1>6. ASSUME UNCHANGED coreVars PROVE UNCHANGED Ordered!vars
  BY <1>6, CoreKept DEF Ordered!vars
<1> QED BY <1>1, <1>2, <1>3, <1>4, <1>5, <1>6, BusStepKinds DEF Ordered!Next

\* However the pointers of the list are taken and set by the two sides, one by one and without
\* a lock, no packet is sent twice, before it is written, or after a later one
\* (packet_write, interrupt_handler, spi_xfer_complete).
THEOREM DriverImplementsLossyQueue == BusSpec => DriverKeepsOrder
<1>1. BusInit => Ordered!Init BY BusStart DEF Ordered!Init, NULL
<1>2. BusInv /\ [BusNext]_busVars => [Ordered!Next]_(Ordered!vars) BY BusStepIsOrdered
<1> QED BY <1>1, <1>2, BusInvariant, PTL DEF BusSpec, DriverKeepsOrder, Ordered!Spec

-------------------------------------------------------------------------------
(* CommandHandler, for every number of handlers, commands, messages and deaths.

   MainIsWanted is not inductive: a downlink may end, and its END_PAT be taken, while its
   START is still to come.  SessionsEnd says of the commands on their way what their order
   makes of it: behind a START for a downlink there is an END_PAT, or the downlink that
   sent it goes on. *)

Orders == {"TEST", "START", "DOWNLINK START", "END_PAT"}

\* A downlink's START with no END_PAT behind it; an END_PAT.
Unended(s) ==
  \E i \in 1..Len(s) : s[i] = "DOWNLINK START" /\ \A j \in i..Len(s) : s[j] # "END_PAT"
Ending(s) == \E i \in 1..Len(s) : s[i] = "END_PAT"

Places == {"status", "request", "heat", "wait", "transmit"}

Downlink == cut \/ \E h \in Handlers : pc[h] = "transmit"

SessionsEnd ==
  /\ Unended(orders) => Downlink
  /\ phase = "main" /\ ~entered => Downlink \/ Ending(orders)

GroundInv == orders \in Seq(Orders) /\ pc \in [Handlers -> Places] /\ SessionsEnd

\* What a command more on its way changes.
LEMMA SentMore ==
  ASSUME NEW s \in Seq(Orders), NEW o \in Orders
  PROVE  LET t == Append(s, o)
         IN /\ t \in Seq(Orders)
            /\ Unended(t) => o # "END_PAT" /\ (o = "DOWNLINK START" \/ Unended(s))
            /\ Ending(s) \/ o = "END_PAT" => Ending(t)
<1> DEFINE t == Append(s, o)
<1>1. /\ t \in Seq(Orders) /\ Len(s) \in Nat /\ Len(t) = Len(s) + 1
      /\ t[Len(s) + 1] = o /\ \A i \in 1..Len(s) : t[i] = s[i]
  OBVIOUS
<1> HIDE DEF t
<1>2. ASSUME Unended(t) PROVE o # "END_PAT" /\ (o = "DOWNLINK START" \/ Unended(s))
  <2>1. PICK i \in 1..Len(t) : t[i] = "DOWNLINK START" /\ \A j \in i..Len(t) : t[j] # "END_PAT"
    BY <1>2 DEF Unended
  <2>2. Len(t) \in i..Len(t)
    <3>1. Len(t) \in Nat BY <1>1
    <3> QED BY <3>1
  <2>3. o # "END_PAT" BY <1>1, <2>1, <2>2
  <2>4. CASE i = Len(t) BY <1>1, <2>1, <2>3, <2>4
  <2>5. CASE i # Len(t)
    <3>1. i \in 1..Len(s) BY <1>1, <2>5
    <3>2. \A j \in i..Len(s) : j \in i..Len(t) /\ j \in 1..Len(s) BY <1>1, <3>1
    <3>3. s[i] = "DOWNLINK START" /\ \A j \in i..Len(s) : s[j] # "END_PAT"
      BY <1>1, <2>1, <3>1, <3>2
    <3> QED BY <2>3, <3>1, <3>3 DEF Unended
  <2> QED BY <2>4, <2>5
<1>3. ASSUME Ending(s) \/ o = "END_PAT" PROVE Ending(t)
  <2>1. CASE o = "END_PAT"
    <3>1. Len(s) + 1 \in 1..Len(t) BY <1>1
    <3> QED BY <1>1, <2>1, <3>1 DEF Ending
  <2>2. CASE Ending(s)
    <3>1. \A i \in 1..Len(s) : i \in 1..Len(t) BY <1>1
    <3> QED BY <1>1, <2>2, <3>1 DEF Ending
  <2> QED BY <1>3, <2>1, <2>2
<1> QED BY <1>1, <1>2, <1>3 DEF t

\* What a command that is taken leaves.
LEMMA TakenOne ==
  ASSUME NEW s \in Seq(Orders), s # <<>>
  PROVE  /\ Head(s) \in Orders /\ Tail(s) \in Seq(Orders)
         /\ Unended(Tail(s)) => Unended(s)
         /\ Ending(s) /\ Head(s) # "END_PAT" => Ending(Tail(s))
         /\ Head(s) = "DOWNLINK START" /\ ~Ending(Tail(s)) => Unended(s)
<1> DEFINE t == Tail(s)
<1>1. /\ Head(s) = s[1] /\ Head(s) \in Orders /\ t \in Seq(Orders)
      /\ Len(s) \in Nat \ {0} /\ Len(t) = Len(s) - 1
      /\ \A i \in 1..Len(t) : t[i] = s[i + 1]
  OBVIOUS
<1> HIDE DEF t
<1>2. ASSUME NEW i \in 2..Len(s) PROVE i - 1 \in 1..Len(t) /\ t[i - 1] = s[i]
  <2>1. i - 1 \in 1..Len(t) BY <1>1
  <2>2. t[i - 1] = s[(i - 1) + 1] BY <1>1, <2>1
  <2> QED BY <2>1, <2>2
<1>3. ASSUME Unended(t) PROVE Unended(s)
  <2>1. PICK i \in 1..Len(t) : t[i] = "DOWNLINK START" /\ \A j \in i..Len(t) : t[j] # "END_PAT"
    BY <1>3 DEF Unended
  <2>2. i + 1 \in 1..Len(s) /\ i + 1 \in 2..Len(s) /\ (i + 1) - 1 = i
    <3>1. Len(s) \in Nat /\ Len(t) = Len(s) - 1 BY <1>1
    <3> QED BY <3>1
  <2>3. s[i + 1] = "DOWNLINK START" BY <1>2, <2>1, <2>2
  <2>4. ASSUME NEW j \in (i + 1)..Len(s) PROVE s[j] # "END_PAT"
    <3>1. j \in 2..Len(s) /\ j - 1 \in i..Len(t) BY <1>1
    <3> QED BY <1>2, <2>1, <3>1
  <2> QED BY <2>2, <2>3, <2>4 DEF Unended
<1>4. ASSUME Ending(s), Head(s) # "END_PAT" PROVE Ending(t)
  <2>1. PICK i \in 1..Len(s) : s[i] = "END_PAT" BY <1>4 DEF Ending
  <2>2. i \in 2..Len(s) BY <1>1, <1>4, <2>1
  <2> QED BY <1>2, <2>1, <2>2 DEF Ending
<1>5. ASSUME Head(s) = "DOWNLINK START", ~Ending(t) PROVE Unended(s)
  <2>1. ASSUME NEW j \in 1..Len(s) PROVE s[j] # "END_PAT"
    <3>1. CASE j = 1 BY <1>1, <1>5, <3>1
    <3>2. CASE j # 1
      <4>1. j \in 2..Len(s) BY <3>2
      <4> QED BY <1>2, <1>5, <4>1 DEF Ending
    <3> QED BY <3>1, <3>2
  <2>2. 1 \in 1..Len(s) BY <1>1
  <2> QED BY <1>1, <1>5, <2>1, <2>2 DEF Unended
<1> QED BY <1>1, <1>3, <1>4, <1>5 DEF t

\* A handler that goes where it does not transmit, from where it did not either, and sends
\* nothing or what is no downlink's START.
LEMMA GoesKeeps ==
  ASSUME GroundInv, NEW h \in Handlers, NEW next \in Places, Goto(h, next),
         pc[h] # "transmit", UNCHANGED <<patVars, cut>>,
         UNCHANGED orders \/ \E o \in Orders \ {"DOWNLINK START"} : Send(o)
  PROVE  GroundInv'
<1>1. /\ pc' \in [Handlers -> Places] /\ (Downlink => Downlink')
  BY DEF GroundInv, Goto, Downlink
<1>2. CASE UNCHANGED orders
  BY <1>1, <1>2 DEF GroundInv, SessionsEnd, patVars
<1>3. ASSUME NEW o \in Orders \ {"DOWNLINK START"}, Send(o) PROVE GroundInv'
  <2>1. /\ orders' \in Seq(Orders) /\ (Unended(orders') => Unended(orders))
        /\ Ending(orders) => Ending(orders')
    BY <1>3, SentMore DEF Send, GroundInv
  <2> QED BY <1>1, <2>1 DEF GroundInv, SessionsEnd, patVars
<1> QED BY <1>2, <1>3

\* A handler that transmits from now on.
LEMMA TransmitsKeeps ==
  ASSUME GroundInv, NEW h \in Handlers, Goto(h, "transmit"), orders' \in Seq(Orders)
  PROVE  GroundInv'
<1>1. pc' \in [Handlers -> Places] /\ Downlink' BY DEF GroundInv, Goto, Downlink, Places
<1> QED BY <1>1 DEF GroundInv, SessionsEnd

\* The end of a downlink: its END_PAT is behind everything it has sent.
LEMMA ResetKeeps ==
  ASSUME GroundInv, NEW h \in Handlers, ResetPat(h)
  PROVE  GroundInv'
<1>1. orders' = Append(orders, "END_PAT") BY DEF ResetPat, Send
<1>2. orders' \in Seq(Orders) /\ ~Unended(orders') /\ Ending(orders')
  BY <1>1, SentMore DEF GroundInv, Orders
<1>3. pc' \in [Handlers -> Places] BY DEF GroundInv, ResetPat, Goto, Places
<1> QED BY <1>2, <1>3 DEF GroundInv, SessionsEnd

\* A handler's death counts as a downlink that was cut.
LEMMA KillKeeps ==
  ASSUME GroundInv, NEW h \in Handlers, Kill(h)
  PROVE  GroundInv'
<1>1. /\ pc' \in [Handlers -> Places] /\ UNCHANGED <<orders, phase, entered>>
  BY DEF GroundInv, Kill, Goto, patVars, Places
<1>2. Downlink => Downlink' BY DEF GroundInv, Kill, Goto, Downlink
<1> QED BY <1>1, <1>2 DEF GroundInv, SessionsEnd

\* PAT takes a command.
LEMMA TakeKeeps ==
  ASSUME GroundInv, TakeOrder
  PROVE  GroundInv'
<1>1. /\ orders # <<>> /\ orders' = Tail(orders) /\ UNCHANGED <<pc, cut>>
  BY DEF TakeOrder, handlerVars
<1>2. /\ orders' \in Seq(Orders)
      /\ Unended(orders') => Unended(orders)
      /\ Ending(orders) /\ Head(orders) # "END_PAT" => Ending(orders')
      /\ Head(orders) = "DOWNLINK START" /\ ~Ending(orders') => Unended(orders)
  BY <1>1, TakenOne DEF GroundInv
<1>3. Downlink' <=> Downlink BY <1>1 DEF Downlink
<1>4. ASSUME phase' = "main", ~entered', ~Ending(orders') PROVE Downlink
  <2>1. CASE phase = "main"
    <3>1. ~entered /\ Head(orders) # "END_PAT" BY <1>4, <2>1 DEF TakeOrder
    <3> QED BY <1>2, <1>4, <2>1, <3>1 DEF GroundInv, SessionsEnd
  <2>2. CASE phase # "main"
    <3>1. Head(orders) = "DOWNLINK START" BY <1>4, <2>2 DEF TakeOrder
    <3> QED BY <1>2, <1>4, <3>1 DEF GroundInv, SessionsEnd
  <2> QED BY <2>1, <2>2
<1> QED BY <1>1, <1>2, <1>3, <1>4 DEF GroundInv, SessionsEnd

\* Every step of PAT, the ground and the handlers keeps the invariant.
LEMMA GroundStep ==
  ASSUME GroundInv, [Next]_vars
  PROVE  GroundInv'
<1>1. ASSUME NEW h \in Handlers, UpdatePatStatus(h) \/ NoRequest(h) PROVE GroundInv'
  <2>1. pc[h] # "transmit" /\ (Goto(h, "request") \/ Goto(h, "status"))
        /\ UNCHANGED <<patVars, orders, cut>>
    BY <1>1 DEF UpdatePatStatus, NoRequest
  <2> QED BY <2>1, GoesKeeps DEF Places
<1>2. ASSUME NEW h \in Handlers, SelfTest(h) PROVE GroundInv'
  <2>1. CASE PatStatusIs(h, {"STANDBY"})
    <3>1. pc[h] # "transmit" /\ Goto(h, "wait") /\ Send("TEST") /\ UNCHANGED <<patVars, cut>>
      BY <1>2, <2>1 DEF SelfTest
    <3> QED BY <3>1, GoesKeeps DEF Orders, Places
  <2>2. CASE ~PatStatusIs(h, {"STANDBY"})
    BY <1>2, <2>2, TransmitsKeeps DEF SelfTest, GroundInv
  <2> QED BY <2>1, <2>2
<1>3. ASSUME NEW h \in Handlers, EnterMain(h) PROVE GroundInv'
  <2>1. orders' = Append(orders, "DOWNLINK START") BY <1>3 DEF EnterMain, Send
  <2>2. orders' \in Seq(Orders) BY <2>1, SentMore DEF GroundInv, Orders
  <2> QED BY <1>3, <2>2, TransmitsKeeps DEF EnterMain
<1>4. ASSUME NEW h \in Handlers, Ground(h) PROVE GroundInv'
  <2>1. /\ pc[h] # "transmit" /\ (Goto(h, "heat") \/ Goto(h, "status"))
        /\ UNCHANGED <<patVars, cut>>
    BY <1>4 DEF Ground, Test, EnterPatMain, ExitPatMain, DwnlinkMode, Refused, Request
  <2>2. UNCHANGED orders \/ Send("TEST") \/ Send("START") \/ Send("END_PAT")
    BY <1>4 DEF Ground, Test, EnterPatMain, ExitPatMain, DwnlinkMode, Refused
  <2> QED BY <2>1, <2>2, GoesKeeps DEF Orders, Places
<1>5. CASE Publish \/ CameraFound \/ JobEnds \/ UNCHANGED vars
  <2>1. UNCHANGED <<pc, orders, cut>>
    BY <1>5 DEF Publish, CameraFound, JobEnds, vars, handlerVars
  <2>2. phase' = "main" => UNCHANGED patVars
    BY <1>5 DEF Publish, CameraFound, JobEnds, vars, patVars
  <2> QED BY <2>1, <2>2 DEF GroundInv, SessionsEnd, Downlink, patVars
<1> QED
  BY <1>1, <1>2, <1>3, <1>4, <1>5, ResetKeeps, KillKeeps, TakeKeeps DEF Next, Pat, Pass

\* For every number of handlers, commands and deaths: a START for a downlink has an
\* END_PAT behind it, or the downlink goes on (CMD_PL_DWNLINK_MODE).
THEOREM GroundInvariant == Spec => []GroundInv
<1>1. Init => GroundInv
  <2> SUFFICES ASSUME Init PROVE GroundInv OBVIOUS
  <2>1. orders = <<>> /\ phase # "main" BY DEF Init
  <2>2. orders \in Seq(Orders) /\ ~Unended(orders)
    <3>1. <<>> \in Seq(Orders) /\ Len(<<>>) = 0 OBVIOUS
    <3>2. \A i \in 1..0 : i \notin 1..0 OBVIOUS
    <3> QED BY <2>1, <3>1, <3>2 DEF Unended
  <2>3. pc \in [Handlers -> Places] BY DEF Init, Places
  <2> QED BY <2>1, <2>2, <2>3 DEF GroundInv, SessionsEnd
<1> QED BY <1>1, GroundStep, PTL DEF Spec

\* However the handlers' and PAT's steps interleave, a session of a downlink does not
\* outlive it, unless its handler was killed (CMD_PL_DWNLINK_MODE, main loop of main.cpp).
THEOREM SessionIsWanted == Spec => []MainIsWanted
<1>1. GroundInv => MainIsWanted
  BY DEF GroundInv, SessionsEnd, Downlink, Ending, MainIsWanted
<1> QED BY <1>1, GroundInvariant, PTL
===============================================================================
