# A verification of CLICK-A-RPi in TLA+

CLICK-A-RPi is the software of a laser communication payload: a Raspberry Pi that takes
commands and packets from the spacecraft bus, points, acquires and tracks a beacon with a
camera and a fast steering mirror (PAT), and drives an FPGA. This directory holds TLA+
modules that model it, the configurations TLC checks them with, and theorems TLAPS proves.
`PROJECT.json` maps every definition to the lines it models and lists the hazards of the
code, each with the properties that would catch it.

## 1. Inventory

| Component | State it keeps | Operations | Talks to |
|---|---|---|---|
| PAT process, `pat/main.cpp` with `tracking.cpp`, `calibration.cpp`, `camera.cpp` | the loop and phase it is in, mode flags, knowledge of both spots, affine transform, loss timers, self test result | 25 commands; camera, standby and main loop; seven phases | commands in (SUB), status and telemetry out, FPGA requests |
| PAT hardware access, `pat/packetdef.cpp`, `pat/fsm.cpp`, `laserOn/Off` | `fsm_request_number`, the check it waits in | laser on/off, mirror write and reset, query | FPGA service (PUB/SUB) |
| FPGA client, `lib/ipc_helper.py` | token, deque of pending futures | read, write, wait | FPGA service |
| FPGA service, `fpga/fpga.py`, `fpga_bus.py` | EDFA line buffers; the FPGA's registers | one request, one answer | all clients |
| Command handler x3, `commandhandler/commandhandler.py` | cached PAT status, counters, power states of a downlink | every ground command | router (REQ), PAT, FPGA, packetizer |
| Router, `commandhandler/router.py`, `lib/ipc_loadbalancer.py` | the ROUTER socket's queue of ready workers | hand the next command to the next ready worker | depacketizer, command handlers, housekeeping |
| Housekeeping, `housekeeping/housekeeping.py` | watchdogs, process ids, flags, packet buffer | heartbeats, restarts, telemetry | all |
| Depacketizer, packetizer, `bus/*.py` | buffers of segments, sequence counts | segmentation, reassembly | SPI driver, router |
| SPI driver, `bus/driver/` | transmit list and its length, receive fifo, `busy` | read, write, interrupt, completion | bus, packetizers |
| File transfer, `commandhandler/filehandling.py` | staged chunks, files | upload, assemble, validate, move, delete, downlink | ground |
| Time setting, echo, packet formats, hardware utilities, tests | none, or only in the hardware | | |

How they interact: the bus packet goes from the SPI driver through the depacketizer to the
router, which hands it to the next command handler that has announced itself ready; the
handler acts on the FPGA through the client library, on PAT through a command socket, or on
files, and answers through the packetizer. PAT and the Python processes share the FPGA
service and the FPGA's registers, without a lock between them. Housekeeping watches
everything by heartbeats and restarts what falls silent.

What is hard, and what makes each part correct:

- PAT is one long-lived loop whose flags survive from session to session. Correct: it never
  points through knowledge it does not have, a loss timer measures the current loss, every
  end command is noticed from every loop (but from a calibration that hangs: section 6), a dead
  camera does not trap it.
- Every FPGA access may time out and be answered afterwards. Correct: no answer is taken for
  another access's, calls return, the laser is never on without its heater and is off at the
  end (it is not if PAT ends in the loop that opens the camera: section 6).
- The router blocks while all workers are busy and holds ready messages of dead workers.
  Correct: no command is lost or done twice, no healthy process is restarted.
- Housekeeping's watchdogs are threads that fire once. Correct: a silent process is always
  restarted in the end, a live one never.
- Bus packets are segmented, interleaved and lost. Correct: what is reassembled is what was
  segmented; nothing complete is dropped.
- The driver shares its transmit list between writers, an interrupt and a completion, without a
  lock. Correct: every packet accepted goes out once, in order, and the count is the length. The
  code keeps less than that: nothing goes out twice or out of order, but packets may be lost.
- File transfers are resumed and repeated, and a transfer's directory is deleted entry by entry
  while other handlers use it. Correct: a file is only ever assembled complete, and staged chunks
  are kept until then.

The hazards in `PROJECT.json` give the line for each of these.

## 2. Plan

| Order | Module | State |
|---|---|---|
| 1 | `Pat`, `PatProofs`: control of the PAT process | written, checked, proved |
| 2 | `PatFpga`, `PatFpgaProofs`: PAT's hardware access | written, checked, proved |
| 3 | `Futures`, `FpgaClient`, `FpgaClientProofs`: the client library implements the abstract promise | written, checked, proved |
| 4 | `Router`, `RouterProofs`: ready queue, blocked heartbeats, restarts of router and handlers | written, checked, safety proved |
| 5 | `Housekeeping`, `HousekeepingProofs`: watchdog threads, pid map, restarts, control messages | written, checked, safety proved |
| 6 | `SpiDriver` implements `LossyQueue`; `Bus` composes it with packetizer and depacketizer; `GroundProofs` | written, checked, safety and refinement proved |
| 7 | `Camera`, `Mirror`, `Transform`, `Calibration`, `Tracking`; `Beam` composes them; `OpticsProofs` | written, checked, safety proved |
| 8 | `Image`, `Optics`; `Imaging` composes them; `OpticsProofs` | written, checked, proved |
| 9 | `FileTransfer`, `FilesProofs`: staging and assembly by several handlers | written, checked, proved |
| 10 | `CommandHandler`: cached PAT status, mode changes, downlink, with PAT as the handlers see it; `GroundProofs` | written, checked, safety proved |

Every safety invariant and every action property the passing runs check is a theorem; what is left
to TLC is liveness. Theorems worth proving next: a counting argument for `EveryCommandDecided`,
whose safety part would be that every command that is not decided is somewhere from where it can be.
What could still be modelled: the transmit offsets and their dithering, the downlink of files,
housekeeping's FPGA checks. No module uses a RECURSIVE operator.

## 3. The modules

### Pat

One thread; `at` is the loop it is in and one action is one pass of that loop, one phase
handler, or one standby command with every call it makes. `CameraLoop` is the camera
initialization loop, `StandbyCommand` dispatches to an action per command, `MainPoll` is
the head of the main loop, `CalibrationPhase` to `StaticPoint` are the cases of its switch.
A calibration is one step if it ends. Where it can hang, in the upward tuning at
`calibration.cpp:171`, the process is in the places `stalled` (entered from the phase), `stalledTest`
or `stalledSelf` (from the two commands that calibrate) and hears of nothing; `SpotBrightens` takes it
out, and nothing makes that happen.
`runAcquisition` polls for commands between exposures, so it has a place of its own,
`acquire`; all other calls finish inside their action.

Pixels are abstracted to the verdict the code reaches on a frame: `spot` (every check
passed), `jump`, `weak`, `none` (no frame). `mirror` records how the last command to the
mirror was made. Ages of the loss timers are counted in ticks and saturate one tick after
the time-out. `darkB` and `darkC` are history: the age of the last frame that passed every
check. Commands that only store a number are one command, `SETTING`; START commands carry
the calibration flag the code parses.

Three things are worth knowing. START_PAT_STATIC_POINT leaves the camera loop although the
camera was never opened, and camera commands then use uninitialized pointers: the model
ends in the place `crashed`. SIGINT sets a flag, and when it interrupts `zmq::poll` that call
throws, which nothing catches: `Interrupt` has both outcomes. SIGTERM is not handled: it ends
the process anywhere, which is the end of the behaviour here and the action `Kill` in `PatFpga`.

`MCPat` holds the sets of commands; the view `Control` of the run `pat_modes` identifies
states that differ only in variables no guard reads.

### PatFpga

`laserOn` (heater, then laser), `laserOff`, `fsmWrite` (LD bias, then a mirror byte) and the queries
send a request and wait in a check: `step` says in which, `attempts` counts its passes. `Answered` and
`PollTimeout` are one pass of the loop of `check_fpga_map_write_request` and its like; `AfterCheck` is
what the caller does with the result. Requests and answers are queues (ZeroMQ keeps the order on a
socket) and their `serial` is known to no code, only to the properties. `Restart` loses pending requests
(a restart of the FPGA service), `Kill` ends PAT and starts a new one, whose answers are addressed to a
new process id. A process begins in the loop that opens the camera (`LeaveCameraLoop`), from which it
goes on to run or quits: END_PROCESS and Ctrl-C exit there without `laserOff` or `resetFSM`. The end of
`main` is `Close` and `ResetFSM`; an end by a signal or an uncaught exception is a `Kill`.
`OtherBiasOff` is what a command handler does at the end of a downlink. Other clients that write the
laser's registers (`initialize_cal_laser` in the command handler) are left out: with them the properties
about laser and heater would speak of nobody's program in particular.

An answer's error bit is read through a `bool`: at -O2, which the Makefile uses, the compiler
folds the test to 0, at -O0 it does not. `ErrorSeen` is the choice between the two.

Mirror writes assume that no answer is so late that the request number has gone all the way round
(`WithinWindow`): with 255 numbers and answers after milliseconds this is the code's own premise. The
three bytes of a mirror command are three `FsmWrite`s; what the commands do to the mirror, and what
`setNormalizedAngles` believes about them, is in `Mirror`.

### Futures and FpgaClient

`Futures` is what a caller may rely on: an access is open until it is given the answer of that
very access or fails, and neither is revised. `FpgaClient` is `FPGAClientInterface` with its
probing constructor, the deque of futures, the assertions on an answer, the time-out that
forgets every pending future, and a service that answers in order, answers an unknown virtual
address twice, and may restart. `Promise` is the refinement mapping and `PromiseKept` the
property. One thread uses a client, as in all processes but housekeeping.

`WithinWindow` is again the token's premise. It is a real restriction:
`test/general_functionality_test.py` lines 127 to 129 keep 1000 reads outstanding, more than the 255
tokens, and rely on the service answering all of them.

### Router

A command is followed by its `fate`: at the router, with a handler, done or lost. `ready` is the set of
announcements in the ROUTER socket. (A set instead of a queue: which announcement the router takes
next is left open, since handlers announce in any order.) A handler's process is known by its pid, here
the number of restarts before it, so an announcement can be stale; what is sent to a process that is
gone is dropped. `RestartRouter` is housekeeping's answer to missing heartbeats. The router sends none
while it waits in `send_request`, and how long a handler takes is open, so a waiting router may
be restarted at any time, and every handler after it (`RestartNext`, one at a time). `RestartAlive`
is an alert that is out of date, or a command that takes longer than the heartbeat period.

No command is done twice here by the shape of ZeroMQ; what the properties ask is what the losses cost:
one process, one command, and nobody waits for ever for an answer that went to someone else.

### Housekeeping

One thread runs the loop, cut where a timer thread can get between its parts: the answer to an
alert, to each flag, the heartbeats, the control message. `Expire` is a timer thread. A watchdog may
expire whenever it is armed: a message may be late, the loop may be busy for longer than a period,
and `kick` may come too late to stop the thread. A pid is a handler and a number that nothing still
refers to, since a pid can return; heartbeats are received from any pid, because the sockets queue
them. `RAISE_ENABLE` is 1 (`lib/options.py:236`): `send_exception` raises what it reports, so a
handler that dies right after its restart (pid 0), or a period set by a process that has been
replaced (`HandlePeriod`), ends the loop: `pc = "ended"`. No unit has a `Restart=`, so nobody
restarts housekeeping, and a behaviour ends there.

`missing_lb_flag` is cleared only after the whole target has restarted, and the router's
watchdog runs by then: an expiry in between is forgotten, the router is no longer watched.
`AlwaysWatched` speaks of the handlers and PAT only; with the router it fails in seven states.

The FPGA check and its threads, the system check and the telemetry packets are left out.

### SpiDriver and Bus

`SpiDriver` has the pointers of the transmit list and every load and store of `tx_queue_len`; a
write is `WriteBegin` to `WriteLast`, the completion handler is `XferDone` (the read of
`tx_queue_len`) and `Complete`. A length is in bytes, because the limits 4100 and 4094 matter; room in
the queue and the fifo is in packets. What the bus sends in a transfer is any of `Incoming`: a kind,
a length, and how far into the transfer its marker is. A meeting is one side acting while the other
is in the middle of its accesses to the list or to the count; `MaxMeetings` bounds their number. The
driver's `list_del` is one step, as an interrupt is for the writer it interrupts; that a writer on
another core gets between its two stores is not modelled.

`driver/README.md` promises a queue: packets leave in the order of their writes, and each is sent once.
The code has no lock in the list, and one meeting is enough to lose a packet, or all the packets behind
it. `LossyQueue` is what is left with any number of meetings, and `DriverKeepsOrder` says that the
driver implements it: a packet may be lost, but none is sent twice, before it is written, or after a
later one. A packet counts as written when its write returns. `ChargeDrift` does for `tx_queue_len` what
`LossyQueue` does for the list: each meeting makes it wrong by at most one packet. `TelemetrySent` is
about progress: every packet goes out, unless the sides have met.

`Bus` adds the two processes. The packetizer writes one bus packet per telemetry packet;
data for several packets (`SegmentTooLong`) and a refused write (`WriteRefused`) end it. The
depacketizer reads as many bytes as the length it computes (`PktLen`) and compares the last two with
the CRC of the others. They fit for certain if that is the packet as it was sent; of other bytes
`CrcFits` leaves it open. A first segment ends it. Nobody restarts either of them: no unit has a
`Restart=`.

### Camera, Mirror, Transform, Calibration, Tracking, Beam

`Camera` is `requestFrame` and `waitForFrame`. PAT's thread does the two and the copying of the
picture in one go, so they are one step, `Shot`; its `scene` is what there was to see when the
request was made: laser on or off, and where the mirror really pointed. A wait that times out
(`late`) leaves its request with the driver, which delivers it to a later wait; `bad` is a delivery
with an error, whose request the code unlocks twice (`doubles`), and `SkipFrame` is one pass of
`ignoreNextFrames`. `stray` and `own` are history: a wait has timed out, the picture used was the
one requested.

`Mirror` has the DAC's input registers and outputs, four commands for four ends of two axes, and
`reached`, the angles FSM believes to have set. `lost` are the commands whose bytes did not arrive; FSM
does not look. `Transform` is the least-squares arithmetic of `calculateAffineParameters` and
`calculateSensitivityMatrix`, exact, with the determinant kept as a denominator.

`Calibration` is `findExposureRange`, `windowAndTune`, `run` and `testFSM`, one step for each
picture and each command to the mirror; `pc` names the loop. A picture is abstracted to the classes
the code tells apart (`Looks`) and the exposure does not constrain it: a spot may always be too dim.
`Tracking` is `runAcquisition` with its tuning, `ignoreNextFrames` before and after it, and the
beacon-laser alternation of the tracking phases. `Beam` adds the tests and pictures the ground may
ask for and lets the jobs follow each other in any order. The transform is a function of `points`,
and no job of `Beam` reads it, so it is computed in `CalibrationSound` and kept in no variable;
`Pat` has the flag that says whether there is one. `CalibrationSound` has two parts: a calibration that
succeeds has enough pairs of angles and spots that belong together (`PairsSound`), and the transforms
computed from such pairs fit them. That needs spots that are not on a line: `Determined` says of the
spiral, the number of pairs wanted and the part the sensitivity matrix uses that they see to it,
whichever pairs are missing. TLC evaluates it for `MCSpiral`. In the code it holds narrowly: at most 11
of the 100 angles of `calibration.cpp:235` are on a line (on each line through the centre, the centre
and one angle every half turn), and the first quarter of 50 pairs are 12.

### Image, Optics, Imaging

`Image` is the threshold (a sum in an `int`, which may overflow, of the pixels up to 1023; a mean of
all, in a `uint16_t`) and `performPixelGrouping` with the recursion of `propagateGroup` as an explicit
stack, one call or return per step, the fail-safe and the limits. `std::sort` leaves equally bright
groups in any order (`Sortings`). The spots, for comparison, are said without a scan: a `Region` is a
set of bright pixels that no other bright one touches, and that holds no smaller such set. `Optics` is
arithmetic without state: the windows of `setCenteredWindow` and `updateTrackingWindow`, the choice of a
group in `findSpotCandidate`, `controlExposure`, `control` and the DAC's units. `Imaging` puts them in a
row, as the tracking phases do: picture, groups, the group most like the last spot, and the window for
the next picture.

### FileTransfer

Each handler is at a place of its own in one command: `Begin` takes it, and between the steps
that follow, another handler, or the death of this one (`Crash`), can get in. An upload makes the
directory (`UplinkFile`), opens the chunk file (`Open`) and writes it (`Write`). An assembly lists the
directory (`List`), makes it again if it must and creates the temporary file (`Make`, `Create`), reads
the chunks one by one (`Read`), and goes on to `Validate`, `Move` and the deletion. A deletion is that of
`shutil.rmtree`: the directory is listed (`Rmtree`), each entry removed (`Remove`), and then the
directory (`RemoveDirectory`). An entry that another handler has removed, or one it has put there,
raises. A chunk file is its name (number and length of the sequence) and its content: the chunk of a
file, or `Empty` between being opened and being written. A hash is compared by comparing contents.
`send_exception` raises again, so what the code reports as an error also ends the handler (`Raised`).

`clash` is history: two handlers have assembled the transfer at once. Then a handler moves what the
other has just rewritten; nothing in the code prevents it, and the properties leave that case out and
say so. The cleaning after an assembly deletes the whole directory, with the chunks of another file
that uses the transfer id and with chunks staged since the assembly; `StagedUntilArrived` allows that
to a handler whose own file has arrived, and to nobody else. Left out: the downlink, and the ground's
commands for single steps (assemble, validate, move, delete one file).

### CommandHandler

The handlers' loop (`UpdatePatStatus` reads one message per pass, then a request) and the commands
that depend on PAT's status; a downlink goes through `heat`, `wait` and `transmit` and takes minutes
between them, with the status it read before. PAT is reduced to what the handlers see: status
messages (dropped when a socket is full), orders taken one by one, thrown away when they do not fit
the phase. `entered` and `cut` are history. The commands of the file transfer and the announcements
to the router have modules of their own.

## 4. The runs

| Run | Question | Result |
|---|---|---|
| `pat_modes` | do flags or knowledge left by earlier sessions ever make PAT point or track on nothing? | holds |
| `pat_loss` | are losses timed honestly, is every end command honoured, does a dead camera let go? | holds, but that a calibration which stalls for good is deaf |
| `fpga` | is a future ever given a wrong answer, does every wait return, is the promise kept? | holds |
| `pat_fpga` | heater before laser, own acknowledgements, dark at the end, every call returns? | holds |
| `pat_fpga_off` | is the laser off when `laserOff` has returned true? | violated: the error bit is lost |
| `router` | what does a stale announcement or a blocked router cost? | holds: at most one command per process, nobody waits for ever |
| `housekeeping` | does the pid map follow every restart, is anybody left unwatched or dead? | holds while the loop lives |
| `bus` | what is left of order and count when the handlers come in the middle of writes; does the reader wake for every packet; does every packet go out? | holds: order kept, one packet of drift per meeting; all go out if there is none |
| `beam` | is a picture the one asked for; does the mirror recover; is a calibration sound; do calibration and acquisition end? | holds, but for stray pictures and where the tuning stalls |
| `imaging` | are groups the connected spots; is the recursion bounded; does the window follow the spot? | holds |
| `files` | do only whole files arrive; does anything but the ground and the cleaning after an arrival cost a chunk? | holds unless two handlers assemble at once |
| `ground` | does a downlink's session outlive it; does every handler learn PAT's status? | holds unless a handler is killed in a downlink |

Bounds. `pat_modes` has one command of every kind the code tells apart, pending one at a time, in any
number and order: the loops take one command per pass, so more pending ones only add orders that
`pat_loss` (two pending) covers for the end commands. `LossWait` is 0 in `pat_modes`, where timers only
need to be able to expire, and 1 in `pat_loss`, where an old age and a fresh one must differ; `Sweep` is
1 and 2, enough for an exposure with a successor. `fpga`: six accesses with three tokens, so that tokens
go round twice within the window, and two tries of the constructor, the second of which meets the late
answer to the first. `pat_fpga`: calls begin until four requests are sent and while at most two are
late, which leaves room for a full `laserOn` followed by the shutdown, and for two mirror writes with a
late answer about the LD bias and a late acknowledgement behind it, which is what it takes to confuse
them. Request numbers are modulo 2, so that they go round; two passes per check let one late answer be
skipped or one time-out happen; one restart of PAT lets a dead process's requests be served among those
of the next one. `router`: two handlers and three commands, so that one handler can be busy, the other's
announcement stale and a command waiting; two crashes or needless restarts, so that one can hit the
other's repair. `housekeeping`: two handlers (a map with one entry cannot be mixed up), one process that
dies by itself, one alert per handler besides an armed watchdog, one control message that may be out of
date, enables all or none. `bus`: three writes into a queue for two, so that one is refused, a fifo for
two, a completion counted up to two; an interior and a boundary length of each kind; four meetings, so
that the entry a write links its packet to may be taken before it does, the one before that too, and the
count drift up and down. `beam`: a driver with two requests, so that one is left over when another is
made; two faults, so that one picture may be late and a mirror command lost, or two pictures late; the
ranges of exposures are smaller than the code's but have what matters: a lower end where the tuning adds
nothing (1 with a divider of 2), several coarse steps, and room for the tuning to run into either limit.
The pattern has four angles, of which one may be missed (`MinPairs` 3): three places not on a line are
the fewest that determine a transform; the sensitivity matrix uses all pairs instead of a quarter. The
detector is turned, stretched and off centre against the mirror. `imaging`: all pictures of 5 by 2
pixels at two levels with at most one brighter pixel, which have several groups, groups that only touch
in a corner, too many groups and too many pixels (limit 6), and one level above the top value the mean
counts; a sum of 6 bits, which overflows; a sensor of 12 by 8 with windows at both edges. `files`: two
files of two chunks that may take each other's place and one of one chunk, so that lengths can disagree;
five commands are a full uplink, its assembly, and two that interfere (two deletions, or a deletion and
a chunk staged into it); one death. `ground`: three commands are a downlink, an entry or exit, and a
test against it; a socket for two status messages, so that it overflows; one kill.

Fairness. PAT's thread takes steps for ever, since every `zmq::poll` and every frame wait has a
time-out: weak fairness of `PatStep`, and of `Tick`, because the clock advances. `PatStep` has no step
out of a stalled calibration; that is `SpotBrightens`, of which nothing is assumed, so a stall may last
for ever and `EndPatHonoured` and `EndProcessHonoured` say that it is the only thing that does. Nothing
is assumed of the ground, the camera or Ctrl-C. `FpgaClient` assumes weak fairness of the caller's own
steps only (`RCVTIMEO`): calls return although the service may be silent for ever. `PatFpga` needs no
fairness: `CallReturns` says that every pass of a check's loop uses up what is left to the call.
`Router`: the router and the handlers run on, which includes that a command ends; a dead handler and a
silent router are restarted. For the handlers `Housekeeping` shows that their watchdogs are armed; for
the router it is an assumption, which the forgotten expiry of section 3 breaks if the router dies just
then. Nothing is assumed of the ground. `Housekeeping`: the loop runs, a timer that is left alone
expires; `DeadRestarted` assumes besides that the restarts stay enabled. `Bus`: the VNC2L goes on
interrupting, a transfer completes, a write that has begun and the depacketizer go on; nothing is
assumed of the packetizer. `Beam`: PAT's thread goes on with its job (`WF_vars(Work)`), because every
wait for a picture has a time-out; what the picture shows, and whether the ground asks for anything, is
open. `CommandHandler`: PAT publishes and takes orders, and the handlers' loops go on; their waits in a
downlink have time-outs. `FileTransfer` and `Imaging` need none: their properties are safety. Deadlock
checking is off in all runs, because processes end, crash and use up their bounds.

Each property comes with a mutant, a plausible slip in the definition it guards, which makes
the run fail; they are the definitions marked `faulty`.

## 5. What is proved

`PatProofs` proves, for every set of commands, every bound on the pending ones, every time-out
and sweep length, that the invariant `IInv` is inductive and that it implies the properties.

- `TypeOK` is the first conjunct: without the sweep's and the ages' ranges nothing
  arithmetical follows.
- `Control` relates the place and phase to what is known. The safety invariants alone are not
  inductive. `PointingUsesTransform` needs `KnowledgeHasTransform` (manual and static pointing ask
  only for knowledge of the calibration spot) and `SessionHasTransform` (acquisition and tracking
  ask for nothing: they are entered behind a calibration, or in beacon alignment, which does not
  aim). `OpenLoopReason` needs `ClosedLoopOnly`, that needs `AlignmentIsOpenLoop`, and the action of
  an exposure needs `AcquiringInPhase`.
- `Timers` relates each loss timer to the history: while a spot is lost in a session, the timer is
  not older than the last good frame. For the calibration spot this holds in closed loop only, and
  from acquisition on. This gives the two action properties.

Theorems: `TypeCorrect`, `Invariance`, `PointingSafe`, `TrackingAimed`, `OpenLoopJustified`,
`BeaconTimeoutSafe`, `CalibTimeoutSafe`. The assumptions are those of `Pat`: the constants are a
subset of the commands and naturals.

`FilesProofs` proves `OnlyWholeFilesArrive` and `StagedUntilArrived` for any handlers, files and
lengths. `Checked` (what is about to be moved is the whole file) and `Arrived` (what is about to be
cleaned up after, or half way cleaned up after, has arrived) are the strengthening; both rest on
`Alone`, that without a clash one handler assembles at a time. For `StagedUntilArrived` it is shown
besides that only a step of `rmtree` takes a chunk away, and one it has listed (`OnlyRmtreeRemoves`).
Theorems: `FilesInvariant`, `WholeFilesArrive`, `ChunksStayUntilArrived`.

`RouterProofs` proves `OneLossPerProcess` for any handlers, commands, crashes and restarts. It is not
inductive: a process that has lost a command must not be sent another, so its announcement must have
been used up. `FreeWhenReady` says that who is announced has done all it was sent, `WaitsWhenReady` that
it is not at work if it lives, `LosersAreGone` that who has lost a command is dead. Theorems:
`RouterInvariant`, `OneLossEach`.

`PatFpgaProofs` proves the four safety properties of PAT's hardware access, for any number of passes,
requests, late answers and restarts. They rest on the order of the requests in flight; the first two
speak of behaviours in which no request has been lost and no SPI transfer has failed (`disturbed`), and
`EndsDark` of processes that come to the end of `main`. `LaserNeedsHeater`: a request that
switches the laser on has one that switches the heater on before it, unless the heater is on already
(`HeaterFirst`). `EndsDark`: behind every request that switches laser or bias on there is one that
switches it off, once PAT is past it in its shutdown (`Dark`, `WillBeOff`). `FsmOwnAck`: every mirror
write on its way is at least two requests older for each number the counter has moved on since
(`Spaced`), so that within the window no two have the same number. Theorems: `PatFpgaInvariant`,
`LaserIsHeated`, `EndIsDark`, `MirrorAckIsOwn`, `CallsReturn`.

`FpgaClientProofs` proves `OwnAnswer` and that `FpgaClient` implements `Futures`, for any number of
tokens, addresses, accesses and tries. An answer's token says nothing as such; `Numbered` relates the
token of everything that waits or is on its way to the client's, by the number of accesses issued in
between, which is less than a round. Each step of the client is then a step of `Futures` or leaves it
alone. Theorems: `FpgaClientInvariant`, `AnswersAreOwn`, `ClientKeepsPromise`.

`HousekeepingProofs` proves `WatchdogMap` and `AlwaysWatched` for any handlers, failures and messages.
They are almost inductive together; what is missing is that a process that is started has a pid
nothing refers to (`FreshPids`, a counting argument over the messages that wait). Theorems:
`HousekeepingInvariant`, `MapFollows`, `Watched`.

`GroundProofs` proves of the driver, for any writes, transfers, limits and meetings, that it implements
`LossyQueue` (`DriverImplementsLossyQueue`) and that `tx_queue_len` is wrong by at most one packet per
meeting (`DriftIsBounded`). `LinksForward` is the invariant of the list: whatever was lost, a link leads
from an earlier to a later packet, and the first entry points back to the head, so that unlinking it
moves the head forward; `TakenBefore` says that what the head leads to is later than all that was taken.
`CountKnown` bounds what each side has loaded of the count and is about to store. For the
command handlers it proves `MainIsWanted` (`SessionIsWanted`) with `SessionsEnd`: a session the ground
has not asked for has a downlink that still transmits or an END_PAT on its way, and a downlink that is
over has left no START without an END_PAT behind it.

`OpticsProofs` is about `Beam` and its parts, and about `Imaging` and its parts.

`Beam`. It proves `OwnFrame`, `BacklogCounted` and `MirrorHeals` of `Beam`, for any number of
requests and faults, any pattern and ranges of exposures, and any sets of commands lost together.
`OwnFrame` is not inductive. What makes it so is `BacklogKnown`: as long as no wait has timed out
and nothing was unlocked twice, the driver owes nothing outside of `ignoreNextFrames`, and inside it
`turn` is what it owes. The steps reduce to a few kinds: a picture, an aim, a skip, the two ends of
skipping, and steps that leave camera and mirror alone (`WorkKinds`, `CommandKinds`). Theorems:
`BeamInvariant`, `PictureIsOwn`, `BacklogIsCounted`, `MirrorIsHealed`.

`Calibration`. `PairsAreSound` is the first half of `CalibrationSound`: `RunKnown` says of a calibration
under way that, as long as nothing has been troubled, each pair it has noted is the laser's spot under
just those angles. `CalibrationFits` is all of it, for any detector that is an affine map of the drive
which can be undone (`AffineOptics`: the code computes an affine transform and has nothing for
another), and a spiral that is `Determined`. `RunKnown` has `Selected` for it: the angles of the pairs
are some of the spiral's, in its order, whatever has gone wrong. The argument is that of least squares
without rounding. The sums of products satisfy the normal equations of the true map (`DotsCombined`),
so what is computed is the true map times the determinant (`LeastSquaresExact`); a determinant of 0
would put all places on a line (`OnALine`: the squares of their distances from it add up to 0), which
`Determined` excludes for the first of them; the transforms then take every spot to its angles
(`AffineFits`, `SensitivityFits`).

`Imaging`. `DepthBounded` needs `DepthKnown`: every call under way has a pixel of its own, and the call
that reaches the limit has no neighbours to go on to (`RecursionIsBounded`). `WindowFollows` needs
`GroupsKnown`: every group that is counted by the result has a pixel brighter than the threshold, so that
its centroid is a quotient and its spot at least one pixel wide. That needs the threshold to be a number,
whatever becomes of the pixels' sum in an `int` (`ThresholdIsNumber`), the choice of a group to be
defined (`CandidateIsSpot`), and the arithmetic of `updateTrackingWindow` (`TrackingWindowHoldsSpot`),
which is proved for all quanta and not only for 16 and 8. Theorem: `NextPictureHoldsSpot`.

`GroupsAreSpots` speaks of the result and says nothing of a scan under way. `SpotsKnown` does: the
finished groups measure, one to one, the regions the scan has come to that are large enough, in any
order; the last group measures the pixels it has so far, all in one region; every bright pixel next to
them is grouped or still waits in a call on the stack, which is why a region is complete when the stack
is empty; and no more pixels are grouped than are bright, so the fail-safe never cuts a group short.
Besides, a threshold computed from a sum that fits is that of the true mean. `GroupingFindsSpots` is for
every picture of 16-bit pixels whose sum fits, every size and all limits. The sum leaves out the pixels
above 1023 and the mean divides by all (`HistSum`), which only lowers the threshold, and the mean still
fits the `uint16_t`.

`Optics`, facts the runs only sample: an axis of the tracking window holds its spot and keeps to the
multiples for every spot, size and quantum (`TrackingAxisHoldsSpot`), and so does the window
(`TrackingWindowHoldsSpot`); a centred window of any length starts on the sensor, and ends on it but
when it is cut at the near edge and its other half does not fit, which takes one longer than the sensor
(`CenteredWindowOnSensor`); the exposure control stays within its limits and moves the right way
(`ExposureControlled`); a commanded angle stays in range (`ActionWithinRange`). The last three are
about operators no run steps through.

Where a proof needs induction (a sum, a segment of the driver's list, a selection of angles) it argues
by the least counterexample: a set of numbers that is not empty has a least one (`LeastNumber`, from
the well-foundedness of < on the naturals). So no theorem with an operator parameter is needed.

Assumptions are the named ones of the modules that declare the constants, which TLC evaluates in the
runs.

Only model-checked: liveness under fairness, which the prover cannot do: `EndPatHonoured`,
`EndProcessHonoured`, `DeadCameraLeavesTracking`, `WaitReturns`, `EveryCommandDecided`,
`NobodyForgotten`, `DeadRestarted`, `ReaderWakes`, `TelemetrySent`, `CalibrationEndsOrStalls`,
`AcquisitionEnds`, `StatusCatchesUp`.

## 6. Where code and documents differ

Each is a finding in `PROJECT.json`, with lines and quotations. The models follow the code in each case.

- PAT's sessions: static pointing works once per process; OPEN_LOOP is entered and left in ways
  `pat/README.md` excludes; CL_BEACON does not time a missing frame; the self test's laser test runs
  without a camera, because a comparison is an assignment.
  Ending in the loop that opens the camera switches nothing off (`LeaveCameraLoop` of `PatFpga`).
- Pointing: a tracking window may pass the right and lower edge of the sensor; so may a centred one,
  and nothing bounds `beaconWindow`; steps of the controller are cut on one side only; the tuning of
  the calibration does not end when the spot stays dim at a low exposure; a transform is accepted
  from spots on a line; the sensitivity matrix uses a quarter of the measurements; failed
  temperature readings move the centre of the dithering.
- Pictures: the check for too many pixels comes after small groups have been dropped; a shrunk
  bitmap adds one pixel three times.
- FPGA: one late answer defeats the client's retry and every later access; `laserOff` can report
  success with the laser on (the run `pat_fpga_off`).
- Bus: the driver refuses the packetizer's largest packet as if its queue were full; the
  depacketizer takes a first segment for a whole sequence and ends; it reads lengths like 512
  wrongly (`PktLen`); the driver's list loses packets when an interrupt meets a writer in
  it (`Transfer` of `SpiDriver`); a header split between two transfers shifts the packet (`PayloadAt`).
- Command handlers: during a downlink an old handler sends no heartbeat for most of the transmission
  and is restarted in the middle of it; several refusals name another command; a missing chunk is
  reported as an IndexError.

## 7. Not modelled

About two thirds of the C and C++ lines under `src/` are not the program's own: `pat/export`
(lodepng, EasyBMP) and `fpga/deprecated/usb_fline` are vendored and left out, and with them the
writing of pictures to files.

Of PAT: the histogram (a picture's verdict is one of `Looks`), smoothing and gains; the transmit
offsets with their parameter file, temperature model and dithering, whose commands are settings in
`Pat`; logs, health and attitude packets. Of the FPGA service: the EDFA and DAC sequences. Of
housekeeping: the FPGA checks, the system check and its packets. Of the command handlers: the
registers of laser, heater and amplifier, telemetry reports, and the downlink of files. Of the
driver: probe and removal, and a second writer at the same time. Contents of packets; the scripts
and utilities run by hand; time setting and echo, which have no state.

What the properties leave out on purpose: pictures behind a wait that has timed out, until the queue
is cleared (`stray`), or behind a request unlocked twice (`doubles`): the code has no defence, and
`OwnFrame` says so; a calibration that stalls for good (`Stalled`); the laser after a lost request or a
failed transfer (`disturbed`); two handlers that assemble one transfer at once (`clash`); a handler
killed during a downlink, whose PAT session goes on (`cut`); that a packet goes out although
driver and writer have met (`TelemetrySent`); answers so late that request numbers or tokens have come round (`WithinWindow`).
