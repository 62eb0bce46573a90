------------------------------- MODULE SpiDriver -------------------------------
(***************************************************************************)
(* bus/driver: the kernel driver behind /dev/bct.                           *)
(*                                                                          *)
(* A write queues a packet on a linked list.  An interrupt of the VNC2L     *)
(* takes the first one off and starts a transfer that sends it and receives *)
(* what the bus has to say; the completion handler frees it, looks for a    *)
(* packet in what came and puts it into a fifo, where a read waits for it.  *)
(* The list and tx_queue_len have no lock, so the pointers are modelled     *)
(* one by one.  A length is in bytes; room in the queue and in the fifo is  *)
(* counted in packets.                                                      *)
(***************************************************************************)
EXTENDS Integers, Sequences, FiniteSets

CONSTANTS
  MaxWrites,     \* bound on the packets written
  QueueRoom,     \* MAX_TX_QUEUE_LEN
  FifoRoom,      \* RX_FIFO_LEN
  Incoming,      \* what the bus may send: kind, payload length, offset of its marker
  MaxDone,       \* bound on the counter of the completion
  MaxMeetings    \* bound on driver and writer being in each other's accesses

ASSUME DriverAssumption ==
  /\ MaxWrites \in Nat /\ QueueRoom \in Nat /\ FifoRoom \in Nat
  /\ MaxDone \in Nat \ {0} /\ MaxMeetings \in Nat
ASSUME IncomingAssumption ==
  Incoming \subseteq [kind : {"noop", "standalone", "first", "rest"}, len : Nat, offset : Nat]

PACKET_SYNC_LEN == 4
PACKET_HEADER_LEN == 6
PACKET_OVERHEAD == PACKET_SYNC_LEN + PACKET_HEADER_LEN
PACKET_TM_MAX_LEN == 4100
PACKET_LATENCY == 4
DEFAULT_READ_LEN == 128

Packets == 1 .. MaxWrites    \* packet_t, numbered as they are written
Head0 == 0                   \* tx_queue itself
Entries == Packets \cup {Head0}
NULL == 0

VARIABLES
  nxt, prv,    \* the pointers of the list
  len,         \* packet->len
  txQueueLen,  \* tx_queue_len
  writer,      \* packet_write: where it is, its packet, what it has read
  irq,         \* "idle" (not busy), "xfer", "freeing"
  tx,          \* data->tx
  loaded,      \* tx_queue_len as the completion handler has read it
  fifo,        \* packets in rx_fifo
  done,        \* the completion's counter
  reader,      \* packet_read: "check", "wait"
  sent,        \* ghost: the packets that were transmitted, in order
  meetings     \* ghost: times driver and writer were in each other's accesses

list == <<nxt, prv>>
receiving == <<fifo, done>>
driverVars == <<list, len, txQueueLen, writer, irq, tx, loaded, receiving, reader,
                sent, meetings>>

Idle == [pc |-> "idle", packet |-> NULL, seen |-> 0]

DriverInit ==
  /\ nxt = [e \in Entries |-> Head0] /\ prv = [e \in Entries |-> Head0]
  /\ len = [p \in Packets |-> 0]
  /\ txQueueLen = 0
  /\ writer = Idle
  /\ irq = "idle" /\ tx = NULL /\ loaded = 0
  /\ fifo = <<>> /\ done = 0
  /\ reader = "check"
  /\ sent = <<>> /\ meetings = 0

-------------------------------------------------------------------------------
(* packet_write. *)

Meeting(b) ==
  IF b THEN meetings < MaxMeetings /\ meetings' = meetings + 1 ELSE UNCHANGED meetings

DriverInside == irq = "freeing" /\ tx # NULL
WriterInside == writer.pc \in {"store", "link", "last"}

Written == {p \in Packets : len[p] > 0}

\* The check for memory, which is all there is for a packet that is refused.
NoRoom(n) ==
  LET len_tot == n + 2 * PACKET_LATENCY
  IN len_tot > PACKET_TM_MAX_LEN \/ QueueRoom - txQueueLen < 1

\* A write of n bytes that is not refused, up to copy_from_user.
WriteBegin(n) ==
  /\ writer.pc = "idle" /\ ~NoRoom(n)
  /\ \E p \in Packets \ Written :
       /\ \A q \in 1 .. p - 1 : q \in Written
       /\ len' = [len EXCEPT ![p] = n + 2 * PACKET_LATENCY]
       /\ writer' = [pc |-> "load", packet |-> p, seen |-> 0]
  /\ UNCHANGED <<list, txQueueLen, irq, tx, loaded, receiving, reader, sent, meetings>>

\* tx_queue_len += ..., a load and a store.
WriteLoad ==
  /\ writer.pc = "load"
  /\ writer' = [writer EXCEPT !.pc = "store", !.seen = txQueueLen]
  /\ Meeting(DriverInside)
  /\ UNCHANGED <<list, len, txQueueLen, irq, tx, loaded, receiving, reader, sent>>

WriteStore ==
  /\ writer.pc = "store"
  /\ txQueueLen' = writer.seen + 1
  /\ writer' = [writer EXCEPT !.pc = "add"]
  /\ Meeting(DriverInside)
  /\ UNCHANGED <<list, len, irq, tx, loaded, receiving, reader, sent>>

\* list_add_tail: the last entry is read, ...
WriteAdd ==
  /\ writer.pc = "add"
  /\ writer' = [writer EXCEPT !.pc = "link", !.seen = prv[Head0]]
  /\ UNCHANGED <<list, len, txQueueLen, irq, tx, loaded, receiving, reader, sent, meetings>>

\* ... linked with the new one backwards, ...
WriteLink ==
  /\ writer.pc = "link"
  /\ prv' = [prv EXCEPT ![Head0] = writer.packet, ![writer.packet] = writer.seen]
  /\ nxt' = [nxt EXCEPT ![writer.packet] = Head0]
  /\ writer' = [writer EXCEPT !.pc = "last"]
  /\ UNCHANGED <<len, txQueueLen, irq, tx, loaded, receiving, reader, sent, meetings>>

\* ... and forwards.
WriteLast ==
  /\ writer.pc = "last"
  /\ nxt' = [nxt EXCEPT ![writer.seen] = writer.packet]
  /\ writer' = Idle
  /\ UNCHANGED <<prv, len, txQueueLen, irq, tx, loaded, receiving, reader, sent, meetings>>

Write == WriteLoad \/ WriteStore \/ WriteAdd \/ WriteLink \/ WriteLast

-------------------------------------------------------------------------------
(* The interrupt and completion handlers. *)

TransferHalfDeleted ==  \* faulty: list_del leaves the back pointer of the next entry
  /\ tx' = nxt[Head0]
  /\ nxt' = IF nxt[Head0] = NULL THEN nxt ELSE [nxt EXCEPT ![prv[nxt[Head0]]] = nxt[nxt[Head0]]]
  /\ irq' = "xfer"
  /\ Meeting(WriterInside)
  /\ UNCHANGED <<prv, len, txQueueLen, writer, loaded, receiving, reader, sent>>

\* spi_data_init takes the first entry, list_del, spi_xfer.
Transfer ==
  /\ tx' = nxt[Head0]
  /\ IF nxt[Head0] = NULL
     THEN UNCHANGED list
     ELSE LET e == nxt[Head0]
          IN /\ nxt' = [nxt EXCEPT ![prv[e]] = nxt[e]]
             /\ prv' = [prv EXCEPT ![nxt[e]] = prv[e]]
  /\ irq' = "xfer"
  /\ Meeting(WriterInside)
  /\ UNCHANGED <<len, txQueueLen, writer, loaded, receiving, reader, sent>>

InterruptWithRoom ==  \* faulty: no transfer that could not be received
  irq = "idle" /\ Len(fifo) < FifoRoom /\ Transfer

\* interrupt_handler; when the driver is busy it does nothing.
Interrupt == irq = "idle" /\ Transfer

\* spi_xfer_complete: packet_free begins with tx_queue_len -= ...
XferDone ==
  /\ irq = "xfer"
  /\ irq' = "freeing"
  /\ loaded' = txQueueLen
  /\ Meeting(tx # NULL /\ WriterInside)
  /\ UNCHANGED <<list, len, txQueueLen, writer, tx, receiving, reader, sent>>

\* The bytes of a transfer behind the sync marker of the packet in it.
Behind(p, xfer) == xfer - p.offset - PACKET_SYNC_LEN

\* Where the payload is put, counted from the header.  A header that does not end
\* in the transfer is completed by a second one to a read_ptr that has passed its
\* first part already, and passes a whole header more.
PayloadAt(p, xfer) ==
  PACKET_HEADER_LEN + (IF Behind(p, xfer) < PACKET_HEADER_LEN THEN Behind(p, xfer) ELSE 0)

\* What goes into the fifo: nothing unless there is a marker, a legal length and an
\* APID other than NOOP_APID; the packet as it was sent if the payload follows the
\* header.
Parsed(p, xfer) ==
  IF Behind(p, xfer) < 0 \/ p.kind = "noop"
       \/ p.len \notin 1 .. PACKET_TM_MAX_LEN - PACKET_OVERHEAD
  THEN <<>>
  ELSE <<[kind |-> p.kind, len |-> p.len,
          whole |-> PayloadAt(p, xfer) = PACKET_HEADER_LEN]>>

Receive(in) ==
  LET xfer == IF tx = NULL THEN DEFAULT_READ_LEN ELSE len[tx]
  IN fifo' = IF Len(fifo) < FifoRoom THEN fifo \o Parsed(in, xfer) ELSE fifo

WakeUp == done' = IF done < MaxDone THEN done + 1 ELSE done

\* The end of spi_xfer_complete, with the packet freed.
EndTransfer ==
  /\ irq = "freeing"
  /\ sent' = IF tx = NULL THEN sent ELSE Append(sent, tx)
  /\ tx' = NULL /\ irq' = "idle"
  /\ Meeting(tx # NULL /\ WriterInside)
  /\ UNCHANGED <<list, len, writer, loaded, reader>>

CompleteUncounted(in) ==  \* faulty: a packet that is freed stays in the count
  EndTransfer /\ Receive(in) /\ WakeUp /\ UNCHANGED txQueueLen

CompleteAsleep(in) ==  \* faulty: wakes the reader only when a packet was sent
  /\ EndTransfer /\ Receive(in)
  /\ IF tx # NULL THEN WakeUp ELSE UNCHANGED done
  /\ txQueueLen' = IF tx = NULL THEN txQueueLen ELSE loaded - 1

\* The rest of spi_xfer_complete: the packet is freed, what the bus has sent goes
\* into the fifo if there is room, the reader is woken.
Complete(in) ==
  /\ EndTransfer /\ Receive(in) /\ WakeUp
  /\ txQueueLen' = IF tx = NULL THEN txQueueLen ELSE loaded - 1

-------------------------------------------------------------------------------
(* packet_read, as far as it waits. *)

ReadWait ==
  /\ reader = "check" /\ fifo = <<>>
  /\ reader' = "wait"
  /\ UNCHANGED <<list, len, txQueueLen, writer, irq, tx, loaded, receiving, sent, meetings>>

\* wait_for_completion_interruptible
ReadWake ==
  /\ reader = "wait" /\ done > 0
  /\ done' = done - 1
  /\ reader' = "check"
  /\ UNCHANGED <<list, len, txQueueLen, writer, irq, tx, loaded, fifo, sent, meetings>>

\* The rest of a packet follows its first byte at once.
ReadPacket ==
  /\ reader = "check" /\ fifo # <<>>
  /\ fifo' = Tail(fifo)
  /\ UNCHANGED <<list, len, txQueueLen, writer, irq, tx, loaded, done, reader, sent, meetings>>

-------------------------------------------------------------------------------
(* What the driver owes to its users. *)

Completed == Cardinality(Written) - (IF writer.pc = "idle" THEN 0 ELSE 1)

Ordered == INSTANCE LossyQueue WITH puts <- Completed, air <- tx, out <- sent

\* However often the interrupt and completion handlers come between two accesses of a
\* write, no packet is sent twice, before it is written, or after a later one.
DriverKeepsOrder == Ordered!Spec

Transmitted == {sent[i] : i \in 1 .. Len(sent)}

\* What tx_queue_len should be: the packets that were added to it and not yet freed.
Charged ==
  Cardinality(Written) - (IF writer.pc \in {"load", "store"} THEN 1 ELSE 0) - Len(sent)

\* Each time the two sides are in each other's accesses, the memory that tx_queue_len charges
\* becomes wrong by at most one packet, one way or the other (packet_write, packet_free).
ChargeDrift == txQueueLen - Charged \in -meetings .. meetings
===============================================================================
