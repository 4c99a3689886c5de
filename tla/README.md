# A verification of my_uds

my_uds is a small diagnostics stack for a node on a CAN bus, and the tools to
test it from a second node: an ISO 15765-2 transport layer (`can_tp.c`), an
ISO 14229 server on top of it (`uds.c`), device drivers that put CAN frames on
sockets (`bsp/`), and the tester's library and scripts (`python_auto_test/`).
This directory holds TLA+ models of that code, configurations that TLC checks,
and theorems that TLAPS checks.  All line numbers refer to `src/src/`.

    tlc -workers 2 -config CanTpTest.cfg MCCanTpTest.tla   # one run
    tlapm UdsProofs.tla                                   # one proof

## Inventory

### The node

**Transport layer** (`can_tp.c`, `can_tp.h`).  All of its state is the structure
`N_runtime_data` and two static variables.  One thread calls
`main_network_layer` every 2 ms; each call runs the sender (192-209), sends
pending flow control (211-221), takes one frame from the link layer and runs
the receiver on it (224-264), and counts the timers down (267).
- *Sending half*: `Tx_buf`, a state machine of five states, the flow control
  received, timers N_Bs and STmin, the static flag that arms N_Bs.  Correct
  means: what goes out is a prefix of the segmentation of the message; block
  size and separation time of the peer are kept; N_OK is told when all has
  gone out; a silent peer ends the send, and only a silent one.
- *Receiving half*: `Rx_buf`, a state machine of five states, the flow control
  to send, timers N_Br and N_Cr, the last frame, the static frame type.  Correct
  means: `buf` is never overrun; N_OK stands for a whole message; a message not
  yet read is not damaged; a reception ends; only frames of the message are
  taken for it.
- *Interface*: `send_network_layer`, `confirm_network_layer`,
  `receive_network_layer`, `receive_FF_network_layer`, called from the user's
  thread without a lock, and the callbacks of the link layer.  Hard: every one
  of their stores may fall between two stores of a tick.

**Diagnostic server** (`uds.c`, `uds.h`).  State: `session` (buffers, service,
security level, lock timer, loader) and the static `sec_access_args`.  One
thread calls `main_uds_polling` every 20 ms: take a message, parse it, run its
service, answer, count the lock timer down.  It calls the transport layer and a
memory device (`bsp/mcu_dev.c`, a stub).  Correct means: unlocked only with the
right key after a seed; locked for the full time after three wrong keys; loads
only when unlocked, in the order request, blocks, exit, and within their area.

**Glue and tests** (`test/uds_test.c`, `test/can_tp_test.c`).  The main programs:
they start the threads and provide the callbacks.  `rx_frame_data` runs in the
driver's thread and fills a mailbox for one frame, under a mutex; it drops a
frame that finds the mailbox full.

**Device drivers** (`bsp/linux/socket_can.c`, `bsp/win/socketwin_can.c`, alike).
State: a list of open ports, the flag `terminated`, a thread that receives.  The
user's thread opens and closes ports while that thread walks the list, without
a lock.  Correct means: the list stays sound; one thread receives; the flag
tells whether it does.  `bsp/queue.h` provides the list macros.

### The tester

**CAN library** (`python_auto_test/python_can_lib.c`, called from `can.py`).
State: the list of buses; for each bus one queue per identifier and `head2`,
which links all frames of the bus.  The driver's thread adds, the user's thread
reads, opens and closes; a mutex protects each access, not their sequence.
Correct means: both queues hold the same frames in the order of their arrival;
each frame is freed exactly once.

**Transport layer of the tester** (`cantp.py`).  State: the attributes of the
`cantp` object, which survive from one call to the next.  One program calls
`transmit` and `receive`, which wait up to a second for each frame.  Correct
means: what it returns is a whole message of the node; it fails only if
something was lost or late.

**Diagnostic client** (`dcm.py`).  No state of its own: it sends a request and
takes the next message for its answer.  Hard: an answer that comes after the
wait is still in the library's queue when the next request is made.
`doip.py` is the same over TCP.

**Bus of the windows build** (`bsp/win/socketwin_can_driver.c`).  A program that
copies each frame from one TCP client to the others.  State: the list of
clients; the main thread walks it under a mutex and removes clients while it
does, a second thread adds to it.  Correct means: all clients hear one order of
frames, none hears itself, none is left out for another's sake, and all are
served.

### How they interact

    dcm.py -> cantp.py -> can.py -> python_can_lib.c -> socket driver
                                                            |  bus
    uds.c <-> can_tp.c <-> uds_test.c (mailbox) <-> socket driver

What is hard in this code: a machine whose static variables survive from one
message to the next; frames of any kind in any state; timers that are armed in
one state and looked at in another; a user's thread and a tick that share
structures without a lock; a list that one thread frees and another walks; two
queues that must agree; a library that may be closed between two locks of the
same call.  `PROJECT.json` lists these hazards at their lines.

## Modules

| module | what it is |
|---|---|
| `Timers` | `timer_t` of both programs, as one number |
| `CanTpDefs` | frames, flow control, results, arithmetic of the segmentation |
| `CanTpSend` | sending half: one action per case of `send_multiple_frame` |
| `CanTpRcv` | receiving half: one action per case of `rcv_multiple_frame` |
| `CanTp` | the node: a tick as four steps, the user's calls, the mailbox |
| `CanTpTraffic` | history variables (`wire`, `grant`, `gap`, `waited`, `silence`) and the properties over them |
| `CanTpProofs`, `CanTpTrafficProofs` | theorems about `CanTp` and `CanTpTraffic` |
| `Uds` | the server: a poll as three steps, one action per service and outcome |
| `UdsHistory` | history of requests, seeds, wrong keys, blocks, and the properties over it |
| `UdsProofs` | theorems about `Uds` and `UdsHistory` |
| `CanTpCalls` | `send_network_layer` and `receive_network_layer` store by store, beside the parts of a tick; extends `CanTp` |
| `CanTpStores` | `receive_network_layer` beside the tick, the stores of both to `Rx_buf` and the result as steps of their own; extends `CanTp` |
| `CanTpTest`, `CanTpTestProofs` | the two threads of `can_tp_test.c` on top of `CanTpCalls`, and theorems about them |
| `Tester` | `cantp.py` and `dcm.py`: one action per case of each wait |
| `TpService` | the abstract service of a transport layer in one direction |
| `Exchange` | a node (`CanTpCalls` and a server that answers) and the `Tester` on a bus; implements `TpService` twice |
| `ExchangeInvariant`, `ExchangeProofs` | where a request and an answer can be on their way, and theorems about `Exchange` |
| `CanLib`, `CanLibHistory`, `CanLibProofs` | the tester's library, the order of arrival as history, and theorems about both |
| `SocketCan`, `SocketCanHistory`, `SocketCanProofs` | the device driver, how its ports and its thread were used, and theorems |
| `Broadcast`, `BroadcastProofs` | the bus of the windows build: its two threads, its clients and their streams; theorems about it |
| `MCCanTp`, `MCCanTpPeers`, `MCCanTpStores`, `MCCanTpTest`, `MCExchange`, `MCUds`, `MCCanLib`, `MCSocketCan`, `MCBroadcast` | small instances for TLC |

`PROJECT.json` maps every definition that stands for code to its lines.

### Correspondence

*Frames and messages.*  A message is an identity and a length, a segment of it
the identity and the position of its first byte; so a swapped, repeated or
missing segment shows, and byte values do not multiply the states.  A frame
keeps the bytes that the code decides upon.  Consecutive frames carry one more
byte (`DataBytes`, or the configuration's frames), because `rcv_first_frame` may
read it as a length.

*Timers.*  `is_valid`, `status` and `cnt` of a `timer_t` are one number: -1 for
stopped, which reads as TIMER_TIMEOUT, else `cnt`.  The three fields change
together everywhere but in zero-initialised memory, where they read as a
stopped timer too.

*A tick.*  `pc` goes through `tx`, `fc`, `rx`, `timer`.  Between the steps the
callback may fill the mailbox and the user may call; that is finer than the
2 ms period and coarser than single stores.  In `CanTpCalls` the stores of a
call are steps of their own, in the order of the program, while a part of a
tick is one step: the user's thread is interrupted anywhere, a part of the tick
nowhere.  `CanTpStores` takes the receiver's part of a tick apart too: `memory` is
what the user's thread sees of `Rx_buf` and `rcv.N_result`, `stores` what the
handler that runs has still to write there, in the order of its statements.  In
the receiver, `Kind` is the
static `frame_type` after lines 226-236; `Consume` and `Keep` say whether the
action leaves `rcv.N_PDU` valid.  Branches that nothing can reach are named in
the head of the module.

*A poll.*  `pc` goes through `receive`, `serve`, `timer`.  A service is refused
for the first of its checks that fails, in the order of the code; the lists of
checks are the conditions of the code's `else if` chains.  `inbox` is what
`receive_network_layer` would deliver, `reply` what `send_network_layer` left in
`Tx_buf`.  Bytes of an earlier, longer request stay in `args`, as in
`tp_rcv_buf`.  The area of a load is a value of its own (`StackAreas`):
`get_addr_and_size` stores the addresses of its local buffers, which the request
does not determine, and a load request stores them before it is checked, so that
one that is refused replaces the area of the load under way.

*Memory.*  Frames of the library and handles of the driver are cells that are
allocated and freed; a pointer to a freed cell remains a pointer.  Reading it,
writing through it and freeing it again are the outcomes a build can produce:
another value, no effect, the end of the program (`running`).  The linked list
`head2` is modelled link by link, the queues by identifier as sequences, for
they are only used under the lock.

*The tester.*  `call` is the function that waits, `tp` the attributes that outlive
a call; a wait may end without a frame at any time, also when one has just
come.  A frame in the library's queue keeps its place until it is read, which
is what `CanLib` shows of one identifier.

*Streams.*  A frame on a TCP connection is two parts.  A client puts them one by
one; a read takes two, the one that is there, or none.  Each client's stream is
two counters, and a frame on the bus is known by its client and its first part.

*External.*  What arrives on the bus, whether `malloc` has memory, whether a
socket opens, and whether the stub's memory can be read, are free choices.

## What the runs check

| run | question | instance | distinct states |
|---|---|---|---|
| `CanTpPeers` | against a peer that answers: does the sender keep to segmentation, block size, STmin and N_Bs, and come to an end? against one that sends: does the receiver count right, tell N_OK only for whole messages, and come to an end, also for a user who refuses first frames? | messages of 7 to 34 bytes and seven flow control frames of every status; eleven frames of all types in any order | 395 thousand |
| `CanTpReceiverMixed` (violated) | does the flow run to its end if a single frame comes in between? | with fairness of the tick | |
| `CanTpStores` | does `receive_network_layer`, without a lock, return one message, whole? | two single frames, a bad one, a message of two frames, the stores of both threads one by one | 4.7 million |
| `CanTpTest` | does N_OK mean that the message went out, and does the wait for a result end, without a lock between the threads? | a short message and one of three frames, flow control of every kind, a message to receive | 382 thousand |
| `Exchange` | do the tester and the node understand each other, and what does each take for a message of the other? | two of four requests, answers of one to five frames | 2.7 million |
| `UdsAccess` | can a client get in, or try keys, otherwise than the code means? | sixteen requests, lock of three polls | 1.09 million |
| `UdsLoad` | do loads need a key, stay in the area that was stored and complete rightly, and does a lock end? | loads, also refused ones, exits and keys, three blocks | 390 thousand |
| `UdsGPF` (violated) | is a load over when a read fails? | reads may fail | |
| `CanLib` | do the two queues agree, and is each frame freed once? | three cells, queues of two, two identifiers | 1.3 million |
| `CanLibHead2` (violated) | does a read remove its frame from both queues? | the same | |
| `SocketCan` | is the list sound, does one thread receive, and does the flag say so? | two ports, three handles, two threads | 3.5 million |
| `Broadcast` | do all clients hear one bus, and is each served? | three clients, two frames in four parts | 362 thousand |

*Refinement.*  `TpService` says what users may expect of a transport layer: a
message handed over may be lost, but what is delivered is one of those messages,
whole, in order and never twice.  `Exchange` instantiates it for the requests
(handed to `cantp.transmit`, delivered by `receive_network_layer`) and for the
answers (handed to `send_network_layer`, delivered by `dcm.transmit`).  A delivery
maps to the place of the message whose segments were put together; data that is
no whole message has place 0, which no step of the service delivers.

*Bounds.*  The sequence number wraps at 3 instead of 16 and blocks end after 2
frames instead of 4, so that a message of 34 bytes, five frames, wraps the one
and passes two of the other; `N_DATA_MAX` = 34 makes the longest message that
fits and the shortest that does not (35) two of the frames.  Timeouts of 2
ticks are long enough for a frame to come before, at and after their end;
STmin of 5 ms is odd, so that its conversion to ticks rounds.  `SEC_TIMER` = 3
polls leaves room for a right key while locked, and three wrong keys are the
code's own number; `UdsLoad`, which is about loads, locks after one wrong key
for one poll, and its three blocks have a first, a last and one between.  It has
one area (`StackAreas`): the stack is always at the same place when a load is
requested; the theorems are about any areas.  In `CanTpStores` the longest message
is one of 13 bytes, a first frame and one consecutive frame; a frame that replaces the first frame in
`rcv.N_PDU` before the machine looks at it is taken for a first frame that is too
long or too short.  Two frames per queue and three
cells let a queue be full, empty and hold one element, and let a freed cell be
used again while the list still holds it.  Three handles let a port be closed
and opened again while the thread is at its old handle.  In `Exchange` the node's blocks
of three frames let two frames follow one flow control and make a request that
ends a block and one that does not, the tester's blocks of two make answers of
several blocks; one request is too long for the node; two requests are enough
for one to meet what the other left, and a queue of two frames overflows.  Three clients of the bus let
one stand behind the one that is removed; they are numbered in the order in
which they connect, which loses nothing, for the code does not compare them;
one unread frame fills a socket; four parts let one client send two frames, and
a read fall between their parts.  Counters of the
history stop where no property can tell values apart (`WaitedBound`,
`SilenceBound`, `Expired`).  Symmetry is used for cells of memory, which the
code only compares, in runs without liveness properties.

In `CanTpPeers` the peer (`peer`) either answers or sends for the whole of a
behaviour.  The halves share the mailbox, the last frame taken from it and the
address that flow control goes out with; a peer that does both is met in `Exchange`.

*Deadlock* is looked for in the transport layer, the server, the exchange and the
bus.  The configurations of the
library and the driver switch it off, because there the program may end
(`running` = FALSE).  The server may end too, but its
transport layer goes on.

*Fairness.*  Weak fairness of `MainNetworkLayer` and of `MainUdsPolling`: both
are called in endless loops of their own (`uds_test.c:80-85, 97-102`), and one
of their steps is always enabled while the program runs.  `CanTpTest`
adds weak fairness of the main thread's calls and of its loop, which runs as
long as there is no result; `Broadcast` has weak fairness of the main thread's
loop and of accepting, and strong fairness of the insertion, which needs the
lock: the main thread sleeps a millisecond with the lock free after each round
(`socketwin_can_driver.c:425-429`).  `Exchange` is checked for safety only, and
assumes nothing of the speed of its threads.  Nothing is assumed of peers,
users, clients or the bus.

*Exceptions the properties name.*  These are the places where the code does not
do what one would wish; the properties say that there are no others.
- `SendTerminates` excepts a sender that the peer holds with WT or a reserved
  status, `RcvTerminates` a receiver in `RCV_FF`, which a first frame of six bytes
  or less never leaves, and one that a single frame (232-243) or a flow control frame
  (253-255) has stopped: both leave `frame_type` at `UNKOWN_FRAME`, with which the
  machine is not called, nor N_Cr looked at, until a first or a consecutive frame
  comes.
- `TakenWhole` excepts a call that was under way when a message began, and one
  that began while a first frame was being put over a message that was not read
  (`overlap`): such a call may return a mixture of both, or clear the length and
  the result of the new one.
- `OKMeansSent` excepts a message that was `dropped`: `send_network_layer` ignores
  it while the last one is being put away, and `confirm_network_layer` then shows
  the result of the last one.  It and `NotWedged` except a main thread that an
  invalid flow control frame let go on before its message had begun (`refused`):
  the next short message then overwrites the long one, and the sender never
  becomes idle again.
- `WaitEnds` excepts a result that came before the call had cleared the one of
  the last message (`early`): the call then clears the new one, and the main
  thread waits for ever.
- `RequestsDelivered` and `AnswersDelivered` hold while the tester is not `hasty`,
  that is, asks nothing while something of an earlier request may still come.
  A hasty tester may make the server take a request mixed of two, one torn by
  the copying without a lock, or lose one to a length that was cleared with the
  last one's.
- `CompletedMeansAllRead` excepts loads into which a load request came that was
  refused (`undisturbed`): it has stored its own area and begins again at its first
  block, so that the last block of the area that was checked is never read.
- `PositiveIsWhole` holds for a hasty tester too, but for answers of which one
  was handed over while another was to be sent (`crossed`), and for a library
  that had no room for a frame (`overrun`).  The sequence number, which alone
  tells a tester that frames are missing, starts again with each answer: the
  first frame of one answer and, when those between were dropped, the later ones
  of the next pass for one answer.  A block
  size of 0, flow control left over from the last answer, or a queue shorter than
  a block let a library overrun.  A tester who is not hasty gets a whole answer
  also then.
- `FailureHasCause` lists the reasons for a failed request: a timer, a frame or
  an answer that was dropped, an answer that was not waited for, a frame that
  came in the tick after the end of a message and was swallowed
  (`can_tp.c:734`), a frame that was taken from the mailbox while the machine
  was to see that its flow control had been sent, and replaced by the next one
  before it was looked at (679-710, `uds_test.c:148-162`), a request that is
  longer than `Rx_buf`, and one whose last frame ended a block (`EndsBlock`): the
  node then asks for flow control again (649-655), and `cantp.receive` takes
  that for its answer.
- `OneBus` excepts frames during whose sending another client was removed:
  clients behind it do not get them (`cut`).  `FramesWhole` excepts clients of
  whom a read took a part alone (`torn`).
- `InStep` and `OneOwner` hold until a read by name takes a frame out of turn;
  `AtMostOneDaemon` until two ports are open at once; `DaemonServes` until a new
  thread sees the flag before it is cleared for it (`early`).

## Where the code and its comments disagree

The three violated runs each check what a comment says:

- `can_tp.c:230, 248`: after a first frame everything but consecutive frames is
  ignored, and the flow runs to its end.  A single frame stops it instead
  (232-234): the PDU stays valid, the machine is not called, N_Cr runs out
  unseen.
- `uds.c:821`: a new request is needed after a failed read.  The check at 827
  takes the block count that was just reset for a completed load.
- `python_can_lib.c:189`: a frame is removed from both queues.  Line 191
  removes the first of `head2`, whichever it is.

Others were met while modelling and are in the models, but have no run of
their own.  The exceptions above are most of them.  Three are about what is
stored when:
- `can_tp.c:316` says that data and length are valid while the result is N_OK.  A
  first frame writes address, length and data (598-609) and takes the result of
  the message before away only then (625); who calls `receive_network_layer` in
  between is told N_OK, and gets the new length and what is left of the old data.
  A single frame takes it away first (242).
- `uds.h:27, 29` say that the area of a load is checked.  A load request stores its
  area before anything else (`uds.c:645`, 707) and is refused for its length after
  that: the load that is under way goes on in an area that was not checked.
- `uds.c:193, 339` say that address and size are taken from the request.
  `get_addr_and_size` puts them together in two local buffers and stores the
  addresses of the buffers (366-367, 384-385).

Further: `socketwin_can.c:105` says
that TRUE means that no thread was created, while line 218 (`socket_can.c:182`)
clears the flag after the thread was started, which may have read it and ended
by then.  `socketwin_can_driver.c:43` calls 32 the maximum of nodes, and it
bounds only those who wait to be accepted; a client that closed its connection
in order stays in the list until a send to it fails (346-349).
`send_network_layer` says that a message during a send is still to be handled
(278).  A flow control frame is stored before it is judged (`can_tp.c:764`);
a first frame may be taken for a consecutive one (641);
`receive_FF_network_layer` answers a refused first frame with CTS, and N_OK
follows without a message (365); an unlisted service is answered by the last
one (`uds.c:277`).

## What is proved

Each theorem holds for every value of the constants that the modules' named
assumptions allow: any buffer size, block size, modulus, timeout, set of
messages, frames and requests, any number of clients, ports, handles, cells and
identifiers.  The assumptions say what the code's own constants satisfy:
`BufferAssumption` (8 to 4095 bytes, what twelve bits can name),
`BlockAssumption`, `SequenceAssumption`, `TimerAssumption`, `MessagesAssumption`
(the node's user sends 1 to `N_DATA_MAX` bytes; a peer's message may be
longer), `IdsAssumption` (finitely many identifiers), `AreaAssumption` (a load request
stores some area), `BoundsAssumption` (the
bounds of the bus are numbers).

Every invariant that a passing run checks is proved but one (`TakenWhole`), and
so is every action property and the refinement in both directions.

### The node's transport layer

`CanTpProofs`
- `TypeCorrect`: `Spec => []TypeOK`.
- `SendAccountingHolds`: the position, the bytes left and the sequence number
  of a send always follow from the number of frames sent.
- `RcvAccountingHolds`: for a user who refuses first frames or does not look at
  them (`RefusesFF`: no frame has an identifier in `FFIds`), the bytes missing,
  the number expected and the place in the block always follow from the frames
  copied, so that there is always room in `buf`.
- `OKMeansWholeHolds`: for the same user, N_OK stands for a message of which every
  frame was copied: as many as its length needs.  Their order is known by the
  sequence numbers only, and who sent a consecutive frame is not looked at.  That
  the last frame ends the message is arithmetic:
  between 1 and `CF_DATA` bytes missing means that one frame is.

The invariant is a conjunction of one for each half.  `TypeOK` alone is not
inductive: the byte that `send_multiple_frame` takes from the length is bounded
only since a multiple frame is under way for messages of 8 bytes or more
(`LongMessage`), a value that `send_network_layer` cannot change meanwhile
because it looks at TX_IDLE.  The sender's accounting needs a witness, the
number of consecutive frames, which each action either keeps or increases.
Each half has a lemma per action; `CanTp`'s steps are interleavings of them.
The user of `RefusesFF` is every user in the repository: the hypothesis is
needed, for `receive_FF_network_layer` may answer a first frame that was too long
(365).  The types alone need less than the accounting: that position and length
together never exceed the buffer (`Room`), which stays true also when a user's
stores fall between the parts of a tick.

`CanTpTrafficProofs`, with the history as part of the state
- `WireIsSegmentationHolds`: the frames of a message on the bus are those of its
  segmentation, in order, and all of them when N_OK is reported.  `WireInv` ties
  the length of `wire` to the witness of the accounting, `ResultInv` says that
  N_OK comes with the last frame only.
- `BlockSizeHonouredHolds`: `BlockInv` says that what was used of a block and what
  `sendFC` still allows are the block size granted.
- `SeparationHonouredHolds`: `GapInv` says that the ticks passed and the ticks
  left on the timer are, in milliseconds, at least the STmin asked for; the
  conversion to ticks rounds down, and the tick in which the timer runs out
  makes up for it.
- `TimeoutBsEarnedHolds`: `BsInv` adds ticks waited and ticks left to
  `TIMER_B_S + 1`; the static flag `arm` is what the sum depends on.
- `TimeoutCrEarnedHolds`: `CrInv`, the same for the receiver, as an inequality,
  for each frame starts the timer again.

`CanTpTestProofs`, two threads without a lock
- `OKMeansSentHolds`: N_OK seen between two calls means that the frames on the
  bus are the segmentation of the message that was handed over last.  The theorem
  is stronger than what the run checks in one respect: that no message was
  dropped is not needed.
- `NotWedgedHolds`: the sender never waits for the length of a message that is
  not there, unless an invalid flow control frame let the main thread go on.
The invariant says who owns `Tx_buf`: before the call has stored the length and
after the result was taken the tick finds nothing to send (`IdleInv`), in
between what is in the buffer is what the main thread sends (`OwnInv`), and the
frames out are a prefix of its segmentation (`OutInv`).

### The node and the tester

`ExchangeProofs`
- `TesterTypeCorrect`: the state of `cantp.py` and `dcm.py` keeps to its types
  whatever the node sends, loses or delays.
- `NodeTypeCorrect`: so does the node's.  Here `LongMessage` and `SendAccounting`
  fail: an answer that crosses another replaces the message of which frames are
  under way; only `Room` is left, and is enough.
- `RequestsDeliveredHolds`, `AnswersDeliveredHolds`: `Exchange` implements
  `TpService` from the tester to the server and back, whatever is dropped,
  whichever timers run out and however the threads fall, for every block size,
  modulus, queue and buffer.
- `PositiveIsWholeHolds`: a positive result is one whole answer of the service
  that was asked for, with the exception above.
- `PatientHolds`, `StreamHolds`: the two parts of the invariant that say it.
- `FailureHasCauseHolds`: a request that fails has one of the causes listed above,
  for every tester, also a hasty one, and for all sizes of blocks, buffers and
  queues.  `SmoothInvHolds` is the invariant that says it.

The types need that the server never looks at a request of which it has
copied nothing (`GotInv`): until its first call has cleared the length of
`Rx_buf`, N_OK comes with a length.

The promises need to know where a message can be.  The argument is one of
gaps.  In the model a frame carries the place of its first byte; a consecutive frame is as
long as any other but the last.  A frame that is dropped, on the bus or in the
library's queue, leaves all that come after it too far on by a multiple of
`CF_DATA`, and nothing puts that right (`Skip`, `PartsOf`).  Both sides end a
message by counting frames; a side that has counted enough of them with a gap
among them would hold a frame whose place is behind the end of the message
(`PartsWhole`), and no such frame was ever sent.  The sequence number is not
needed for it, so that it may wrap wherever it likes.  What remains is that the
frames are all of one message.

*A request* (`PatientInv`, for a tester who is not hasty).  `Live`: its first frame
is on the bus or in the mailbox (`Coming`), was taken and waits to be judged
(`Judged`), its frames are put together (`Taking`), or it waits for the server or
is being copied (`Held`).  `Dead`: the server has it, or it is lost, nothing that
is left on the bus begins a message, and the node is at rest.  A step takes it
from one to the next or to `Dead`, never back; only a new request makes it live
again, and one that is not hasty finds `Dead`.  While it lives the server has
nothing to send, so that nothing of an answer is on its way (`Blank`), answers
never cross, and the server gets it once (`NotServed`).  The copy that
`receive_network_layer` makes without a lock is good because the node is at
rest as long as it goes on.

*An answer* (`StreamInv`, also for a hasty tester).  Each consecutive frame in the
library's queue continues the frame before it; the first one in the queue
continues what the tester has put together; what is to be sent next continues
the last one in the queue (`Continues`, `SentNext`).  If the queue was full the
place is further on (`overrun`).  For a tester who is not hasty all of it is of
the last answer (`OneAnswer`), which it has not got before (`NotGotYet`).

`PromiseIInv` is the conjunction of both with the types and with the sender's
accounting, which holds until answers cross (`SenderInv`).  Neither half is
inductive alone: that the tester gets an answer once needs that the server
got the request once.  TLC finds both true on the instance of `Exchange` when they
are added to its configuration, and false when the last frame of a request is
taken for missing (`LastMissingEarly`) or a segment of an answer is taken from
the start again (`SegmentFromStart`).

*An exchange that nothing disturbs* (`SmoothInv`, also for a hasty tester).  The
promises say what a delivered message is, and hold when things go wrong; that
nothing goes wrong by itself needs to know, in every state of both machines,
whose turn it is.  The frames of the tester that the node has not looked at are
one sequence (`Flight`): the frame it kept for the next tick, the mailbox and the
bus.  While a request is on its way (`RequestSide`) the flight begins with the
flow control for the answer before, which the node ignores (`Granted`), then come
single frames that ask for no answer, and last the frame that begins the request
(`Between`); or the node judges its first frame (`Judges`); or it takes
consecutive frames (`Takes`), with the number of them in flight as the witness k:
what the node lacks less k frames is what the tester has still to write, their
numbers follow one another, and the block that the tester counts is the node's
less k (`Writes`, `Wrote`).  The end of a message is never the end of a block
(`EndsWithin`), which is where `EndsBlock` and `N_DATA_MAX` come in.  A copy that
begins with this request has nothing of another in it, so that what the server
takes, if it is whole, is the request, and nothing of it is still to come
(`CopyInv`); a torn one is itself a disturbance.  Then the answer is prepared,
sent in one frame, or counted in the same way over the library's queue
(`Prepared`, `SentSingle`, `SentMultiple`).  In each of these states a tester who
waits has something to wait for, so that its running out of time is itself a
disturbance.  The invariant, `SmoothIInv`, adds `PromiseIInv`: that a sender keeps
its accounting, and that for a tester who is not hasty a copy is a whole request.
TLC finds `SmoothInv` true on the instance of `Exchange` when it is added to its
configuration, with `EndsWithin` over the numbers up to 40, and found the property false as long as the frame that is replaced
before it was looked at and the request that is too long were not among the causes.

### The server

`UdsProofs`
- `UdsTypeCorrect`: `Spec => []TypeOK`.
- `SessionSafe`: `LoadNeedsUnlock`, `LoadAccounting` and `LockMeansFailed`
  (`LoadAccountingHolds` states the second alone: the next read is within the
  area that the last load request has stored, accepted or refused; that this area
  was checked is false of the code).  They are
  inductive together with the types only: the load's area needs the block count
  that is 0 outside a load, a load needs the level that nothing lowers, the
  lock needs that a seed is given out only while it is open.
- `WrongKeysLockHolds`: fewer wrong keys than the limit go unpunished in the whole
  life of the server; the invariant ties the number of keys answered with IK to
  `failed_cnt` and to whether the lock was ever closed.
- `LockoutHonouredHolds`: no key is judged before the lock has run its full time;
  the invariant ties the polls since the lock to what is left of the timer.
- `UnlockEarnedHolds`: the server is unlocked only by a whole request with the
  key to the seed that the last answer gave out; the invariant says that the
  request being served is the one in the buffer, and that a client is waited
  for only after a seed.
- `CompletedMeansAllReadHolds`: for a memory whose reads succeed, a completed load
  into which no refused load request came has read each block of the area that was
  checked, once and in order: the blocks read are those before the address, and
  with the blocks left they are all of them (`BlocksInv`).  Both hypotheses are
  needed: `UdsGPF` shows a read that fails, and a refused request stores an area
  of its own.

### Library, driver and bus

`CanLibProofs`
- `TypeCorrect`: `size2` is the number of taken places of all queues, and so never
  leaves the room of the bus.
- `InStepHolds`, `OneOwnerHolds`, `FirstReceivedFirstHolds`: both kinds of queue hold
  the frames in the order of arrival, each frame has one owner, and a read takes
  the oldest, as long as no read took a frame out of turn.  The invariant
  (`OrderInv`) keeps the order of arrival as a sequence; `head2` links it, and each
  queue is the part of it with the queue's identifier.
- `RemovedFromBothInTurn`: what the comment at `python_can_lib.c:189` says holds for
  every user who reads either without regard to identifiers or a single
  identifier (`ReadsInTurn`); so the violation that `CanLibHead2` finds concerns
  those who mix reads.

`SocketCanProofs`
- `ListSoundHolds`: the handles that are allocated are a chain from the head of
  the list to NULL, without repetition (`Chained`).  Without the order a ring might
  be left behind when the last handle of the list goes.
- `DaemonServesHolds`, `AtMostOneDaemonHolds`: while nothing was `early` a flag that
  says that a thread receives is true; while never two ports are open at once no
  second thread is started.

`BroadcastProofs`
- `TypeCorrect`, `WalkSoundHolds`: a client is in one place and once (`PlacesInv`),
  and the loops stand at clients of the list, also in the middle of a walk that
  removes them.
- `OneBusHolds`: while a frame is being sent, the clients before the inner loop's
  place have heard it and those behind it have not (`SendingInv`); who is not in
  the list yet has heard nothing (`NewInv`).
- `FramesWholeHolds`: the parts of a client's frames on the bus lie before the
  next that is read of its stream (`FramesInv`), and are all of them unless a read
  took a part alone.

### Only model-checked

- Liveness (`SendTerminates`, `RcvTerminates`, `WaitEnds`, `LockoutEnds`, `Served`) is
  out of the prover's reach.
- `TakenWhole`, which is about the order of single stores of two threads.
- What a recursive definition computes for every input (induction over data).

## What is not modelled

The stores of a tick between those of a call, but for those of the receiver to
`Rx_buf` and its result (`CanTpStores`): everywhere else a part of a tick is one
step, so that `OKMeansWhole` is about the states between the parts of a tick, and
`Exchange` about a tester who, while he is not hasty, never begins a message that
meets an unread one; the single bytes of a copy;
`receive_FF_network_layer` with the right identifier in a run, for no user in
the repository calls it; byte values of payloads and addresses; frames of 64
bytes and response pending in the tester's scripts, which nothing in the
repository uses; how long a second is against a tick, and so how much of the
answer to a reset goes out before the program ends; `can_write` and
`socket_write` (they change no state of the modelled parts); the logs of the
library and of the bus, and its filters; `doip.py`, which has no peer here; the
build files.  `PROJECT.json` gives the reason for each component.

## Plan

Done, in this order: `Timers`, `CanTpDefs`, `CanTpSend`, `CanTpRcv`, `CanTp`,
`CanTpTraffic`, `CanTpProofs`; `Uds`, `UdsHistory`, `UdsProofs`; `CanLib`;
`SocketCan`; `Tester`, `TpService`, `CanTpCalls`, `Exchange`; `CanTpTest`;
`Broadcast`; `CanTpTrafficProofs`, `SocketCanProofs`, `CanLibProofs`,
`BroadcastProofs`, `CanTpTestProofs`, `ExchangeInvariant`, `ExchangeProofs`;
`CanTpStores`.

Next, most important first:

1. `CanLib` over `SocketCan`: what opening and closing do to frames on their way
   through both.
