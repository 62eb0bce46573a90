---------------------------------- MODULE Bus ----------------------------------
(***************************************************************************)
(* The way of packets between the bus and the payload: bus/packetizer.py    *)
(* and bus/depacketizer.py over the driver of SpiDriver.                    *)
(*                                                                          *)
(* The packetizer makes telemetry into bus packets and writes them; the     *)
(* depacketizer reads packets from the driver and publishes the commands in *)
(* them.  Neither catches the exceptions of the steps below: they end it.   *)
(***************************************************************************)
EXTENDS SpiDriver

CONSTANT DataLens   \* how long the data of telemetry packets may be

ASSUME DataLensAssumption == DataLens \subseteq Nat

BUS_DATA_LEN == 4082
CRC_LEN == 2

VARIABLES
  packetizer,    \* "running", "ended"
  depacketizer   \* "running", "ended"

userspace == <<packetizer, depacketizer>>
busVars == <<driverVars, userspace>>

BusInit ==
  /\ DriverInit
  /\ packetizer = "running" /\ depacketizer = "running"

-------------------------------------------------------------------------------
(* The packetizer: one telemetry packet per pass. *)

OnTheBus(dataLen) == PACKET_OVERHEAD + dataLen + CRC_LEN

\* handle_tx_pkts and send_bus_pkts.
SendBusPkt ==
  /\ packetizer = "running"
  /\ \E n \in DataLens : n <= BUS_DATA_LEN /\ WriteBegin(OnTheBus(n))
  /\ UNCHANGED userspace

\* Data that does not fit into one packet is a str, from which no segment can be
\* deleted.
SegmentTooLong ==
  /\ packetizer = "running" /\ writer.pc = "idle"
  /\ \E n \in DataLens : n > BUS_DATA_LEN
  /\ packetizer' = "ended"
  /\ UNCHANGED <<driverVars, depacketizer>>

\* ENOMEM is raised as IOError.
WriteRefused ==
  /\ packetizer = "running" /\ writer.pc = "idle"
  /\ \E n \in DataLens : n <= BUS_DATA_LEN /\ NoRoom(OnTheBus(n))
  /\ packetizer' = "ended"
  /\ UNCHANGED <<driverVars, depacketizer>>

-------------------------------------------------------------------------------
(* The depacketizer: one bus packet per pass. *)

\* (buf[4] << 8) | buf[5] + 1, where + binds stronger than |: the carry out of the
\* low byte is lost if the high byte is odd.
PktLen(field) ==
  IF field % 256 = 255 /\ (field \div 256) % 2 = 1 THEN field - 255 ELSE field + 1

\* Whether the two bytes that end what was read are the CRC of the bytes before them:
\* surely when a packet is read as it was sent, otherwise as it happens.
CrcFits(p) ==
  IF p.whole /\ PktLen(p.len - 1) = p.len THEN {TRUE} ELSE BOOLEAN

\* acquire_bus_pkt.  What it has not read of a packet is skipped on the way to the next
\* sync marker.
Acquire == depacketizer = "running" /\ ReadPacket /\ UNCHANGED packetizer

\* A standalone packet is published, whatever else but a first segment is dropped, as is a
\* packet with another CRC.
HandleBusPkt ==
  /\ Acquire
  /\ Head(fifo).kind # "first" \/ FALSE \in CrcFits(Head(fifo))
  /\ UNCHANGED depacketizer

\* A first segment finds itself when it looks for one, takes its sequence for
\* complete and pops the next segment from an empty list.
HandleFirstSegment ==
  /\ Acquire
  /\ Head(fifo).kind = "first" /\ TRUE \in CrcFits(Head(fifo))
  /\ depacketizer' = "ended"

Reading == depacketizer = "running" /\ (ReadWait \/ ReadWake) /\ UNCHANGED userspace

Finish == XferDone \/ \E in \in Incoming : Complete(in)

DriverStep ==
  /\ Write \/ Interrupt \/ Finish
  /\ UNCHANGED userspace

BusNext ==
  \/ SendBusPkt \/ SegmentTooLong \/ WriteRefused
  \/ HandleBusPkt \/ HandleFirstSegment \/ Reading
  \/ DriverStep

BusSpec == BusInit /\ [][BusNext]_busVars

\* The VNC2L goes on interrupting; what has begun goes on.
FairSpec ==
  /\ BusSpec
  /\ WF_busVars(Write /\ UNCHANGED userspace)
  /\ WF_busVars(Interrupt /\ UNCHANGED userspace)
  /\ WF_busVars(Finish /\ UNCHANGED userspace)
  /\ WF_busVars(HandleBusPkt \/ HandleFirstSegment \/ Reading)

-------------------------------------------------------------------------------
(* What the payload relies on the bus for. *)

\* A depacketizer that waits for bytes does not sleep over a packet in the fifo,
\* although it looks at the fifo and waits in two steps.
ReaderWakes ==
  (reader = "wait" /\ fifo # <<>>) ~> (reader = "check" \/ depacketizer = "ended")

\* Every packet the driver has taken goes out, although interrupts are ignored during a
\* transfer (interrupt_handler): unless the two sides have been in each other's accesses, as
\* that may lose it for good.
TelemetrySent ==
  \A p \in Packets : p \in Written ~> (p \in Transmitted \/ meetings > 0)
===============================================================================
