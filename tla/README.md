# A TLA+ development of NS3-OST

NS3-OST is an ns-3 model of the OST transport protocol over SpaceWire: two
nodes, each with a sliding window in both directions, selective
acknowledgements, one retransmission timer per packet, and a link that resets
itself when a packet arrives corrupt. This directory holds TLA+ modules of the
protocol, the TLC configurations that check them, and proofs for TLAPS.

Everything was translated from `src/ost/model` and `src/spw/model`. Names are
those of the source where TLA+ allows it.

## The system

| part | state | operations |
|---|---|---|
| `OstSocket` (`ost_socket.cc`) | `state`; bottom and top of the two windows; `transmit_fifo`; `tx_window`, `acknowledged`, `rx_window`, `received` | `send`, `open`, `close`; `socket_event_handler` on an arrival, a packet ready, a timer; `peek_from_transmit_fifo` |
| `TimerFifo` (`timer_fifo.cc`) | ring of (sequence number, difference), `head`, `tail`, `timers_sum`, `last_timer` | `add_new_timer`, `cancel_timer`, `timer_interrupt_handler` |
| `OstNode` (`ost_node.cc`) | `ports`: a table of sockets, each with an address and a mark | `start`, `open_connection`, `close_connection`, `send_packet`, `shutdown`; passes arrivals and the ready callback to the socket of `ports[0]` |
| `OstHeader` (`ost-header.cc`) | an octet of flags, source address, 8-bit sequence number, 16-bit length | setting and reading flags, `Serialize`, `Deserialize` |
| `SpWDevice` (`spw-device.cc`) | `m_machineState`, `m_queue`, handles of timeouts and completions | `Send`, `Receive`, `TransmitComplete`, link start-up, error and disconnection handling, `Shutdown` |
| `SpWChannel` (`spw-channel.cc`) | handles of the transmissions under way | `TransmitStart`, arrival, `NotifyError`, NULL and FCT |

How they interact. Nothing runs in parallel: the simulator runs one event at a
time, and *interleaving* means the order of events. A call of `send` puts the
message in `transmit_fifo` and, when the device is ready, schedules a peek with
`ScheduleNow`; the peek moves the message into the window and schedules
`APPLICATION_PACKET_READY`, which transmits it and sets its timer; as long as
messages are left it schedules another peek 10 microseconds ahead. The device
calls back when it becomes ready, which schedules a peek, and when a packet
arrives, which schedules the arrival handler. An acknowledgement slides the
window and peeks at once. The order in which events of *one instant* run is
part of the behaviour: everything already on the calendar for that instant
comes before what `ScheduleNow` adds.

What is hard in it: losses, duplicates and reordering against the two windows;
timers that expire while the acknowledgement is on its way; windows that wrap
around the circle of sequence numbers; several events of one instant; closing
and opening with packets in flight; the arithmetic of the timer ring; link
resets that overlap. `PROJECT.json` lists these hazards one by one, at the line
where each bites and with the properties that would catch it.

What makes each part correct:

- socket: in order, once, nothing invented, nothing released before it is
  delivered, a timer for exactly what is outstanding, silence once closed,
  delivery in the end;
- timers: the order of expiry, the right timer cancelled, expiry on time, an
  event pending whenever a timer waits;
- node: an opened port for every packet that arrives, one port for an address, no
  socket in a state of connection mode;
- header: what is put on the wire is read as what it is, whatever the memory held;
- device and channel: both ends reach RUN, again after every error; start-up and
  reset leave nothing behind; no transmission completes in a state that does not
  expect it; an error empties the channel, but for copies of one packet; packets are
  lost, but only what was sent arrives and not more often than it was sent, and the
  order changes only when a long packet is cut off.

## Modules

| module | models |
|---|---|
| `OstWindow` | the circle of sequence numbers, `in_tx_window`/`in_rx_window`, `tx_sliding_window_have_space`, and how far a sliding loop goes |
| `TimerQueue` | `add_new_timer` and `cancel_timer` as a queue of sequence numbers |
| `OstTransfer` | abstract specification: each end is given what the other accepted, once and in order |
| `OstSocket` | two nodes with their sockets over a lossy link, FIFO or overtaking; composes the three above |
| `RetransmissionTimers` | abstract specification of the timers: set, cancel, expire, on `TimerQueue` |
| `TimerFifo` | the ring of differences on one hardware timer; implements `RetransmissionTimers` |
| `LossyLink` | abstract specification of the link: a packet enters it in the call of `Send` that gives it, may be lost, is delivered once, FIFO each way if the link is ordered |
| `SpwLink` | two devices and their channel on the calendar of the simulator; implements `LossyLink` |
| `Connections` | abstract specification of a node: the set of addresses it has open connections to |
| `OstHeader` | the header's fields and octets, the places that make one, and the states of `full_states_handler`; operators only |
| `OstNode` | the table of ports of one node, the segment `send` makes and what an arrival finds; implements `Connections`, uses `OstHeader` |
| `MCOstSocket`, `MCTimerFifo`, `MCSpwLink` | instances for TLC |
| `OstSocket_proofs`, `Delivery_proofs`, `Retransmission_proofs` | theorems about `OstWindow` and `OstSocket`, each module on the one before |
| `OstNode_proofs`, `TimerFifo_proofs`, `Smallest_proofs` | theorems about `OstHeader` and `OstNode`, `TimerFifo`, and the least element of a set of numbers |
| `SpwLink_proofs`, `SpwStartUp_proofs` | theorems about `SpwLink`, the second module on the first |

Definitions whose comment begins with *Faulty* are variants of the definition
below them with a plausible bug. Nothing uses them; they are there to show, by
putting one in the place of the original, that a property notices it.

The layers are checked one at a time. `OstSocket` stands on a link that keeps
what `LossyLink` says and on a timer queue that behaves as `TimerQueue` does;
`SpwLink` and `TimerFifo` show the code below to do so. `OstNode` is the layer
on top: which socket a call or a packet gets to.

### OstSocket and the code

A variable per field of the socket, a function of the node. A message is its
place among the calls of `send` and its length; payloads are not modelled. A
sequence number is an element of `0 .. MAX_SEQ_N - 1`.

`setting` is what the two applications and the link may do in a behaviour:
which nodes close and reopen, how often each calls `send`, whether calendar
events of a node share an instant, whether packets overtake each other. It is
chosen at the start from the constant `Setting`, so that one run covers several
scenarios (`MCOstSocket`) and the theorems cover all of them.

`now[n]` is the queue of `ScheduleNow` events of a node, `draining[n]` says that
one of them has run in this instant, so that no calendar event may come in
between. `later[n]` counts the peeks scheduled 10 microseconds ahead. The
actions `Peek`, `ApplicationPacketReady`, `AckArrived` and `DataArrived` take
the first event of `now[n]`; the others (`Send`, `Close`, `Open`, `LaterPeek`,
`TimerInterrupt`, `SpwReady`, `Deliver`, `Lose`) are calendar events. With
`sameInstant = FALSE` a calendar event waits until `now[n]` is empty: no two
calendar events of a node share an instant. With `TRUE` they may.

The vectors have `WINDOW_SZ` cells and are indexed by raw sequence numbers
(`ost_socket.cc:46-49`). A cell of `tx_window` or `rx_window` beyond them is
undefined behaviour: the model lets it work as storage of its own or halts
(`alive`, `UndefinedAccess`). Where a property is about progress it holds "or
the program has halted".

The loops of `mark_packet_ack` and `mark_packet_receipt` are the operators
`AckSlides` and `ReceiptSlides`: the number of turns, computed from the
condition of the loop as the code evaluates it in each turn, with what earlier
turns cleared (`Cleared`). A loop that would go round the circle for ever has
`MAX_SEQ_N` turns; `AckLoopEnds` says it does not happen.

`wire[n]` holds what `n` gave to its device, in the queue or on its way, oldest
first; `machineState[n]` is RUN, BUSY or, for all other states of the device,
RESET. `Lose` takes a packet off the wire and resets both ends: the packet that
arrives corrupt, and any behind it that was being transmitted when the error
was noticed. Packets whose transmission is complete survive an error in the
code, and in the model. The channel does not duplicate, and packets overtake
each other only where a long one was cut off (`LinkSpec` of `SpwLink`): with
`overtaking` any packet of the wire may be the next to arrive, which is more than
the channel does. Other duplicates and reordering come from retransmission.

A message of 65536 bytes passes the check of `send` and has length 0 in its
header. `send_to_physical` refuses it for good, and it keeps its place in the
window; `payload_len` is the 16-bit field and `Empty` names these messages.

Histories, read by properties only: `offered`, `sent`, `delivered`, and `cuts`,
the ids at which a close made the sender start again at number 0. The call of
the application in `send_to_application` is commented out in the source
(`ost_socket.cc:355`); `delivered` records what would be passed to it.

### TimerFifo and the code

`fifo` is the object: `data`, `head`, `tail`, `timers_sum`, and `hw`, the ticks
until the event of `last_timer`. Values are microseconds in a word of
`MICROS_T` values; the clock is finer, `GRAIN` ticks to the microsecond, since
`get_hard_timer_left_time` rounds. `AddNewTimer`, `CancelTimer` and
`CancelAndAdd` are the calls `OstSocket` makes in one event,
`TimerInterrupt` is the event together with the retransmission that sets the
timer again, `Tick` lets time pass. `watch` is a history with the age of each
timer; `call` one of what the last step was, for the refinement: a step of
`TimerFifo` must be the *same* call of `RetransmissionTimers`, with the same
sequence number. `GAP` is the least time between two calls.

### SpwLink and the code

`calendar` is the simulator's: a sequence of events in the order they will run,
each with the nanoseconds left. Events of one instant run in the order they were
scheduled, as in ns-3, so the model is deterministic but for the calls from
outside, the choice of a corrupt packet and the offset of the second start. Each
handler is an action that takes the first event; `Send` and `Shutdown` come
between two events.

An event can be cancelled only through an `EventId` somebody kept. The field
`handle` of an event names the one that refers to it. Assigning a new event to
the same `EventId` leaves the old one on the calendar with no handle
(`ScheduleAs`), and the events that `ErrorResetSpWState` and
`ErrorWaitSpWState` schedule never have one. `Handle` lists those of the device;
`m_events` of the channel is keyed by uid, so that handle and uid together name
an event.

A socket sends the same `Ptr<Packet>` again (`ost_socket.cc:319`), so a packet that
is sent again has the uid it had. `Send` is therefore called with a new packet or
with any the device was called with before, at any time: back to back, while a copy
is in the queue, on the wire or being handled. `sent` is the history of these calls;
`Again` says that a packet was given more than once. The transmissions of one packet
share their key of `m_events`: `TransmitStart` (`spw-channel.cc:226`) puts the handle
of the second in the place of the first's, and the first to be complete erases
whatever stands there (`spw-channel.cc:171`). The order of the two matters: of two
copies transmitted back to back the second starts `DELAY`, 48 ns, before the first is
complete on the channel, so its handle is replaced and then erased, and
`NotifyError` cannot cancel the one that is still on the wire.

`txTime` holds the transmission time of each packet, one of `Traffic` for a
behaviour. The device at the far end of an error notices it `APPROACH_TIME` later.
A packet it starts in between is cut off by its reset, which cancels the
completion at the device (`transmit_complete_events`) and not the arrival on the
channel (`m_events`): the packet arrives when its whole transmission would have
ended. So does a copy `NotifyError` misses. `Short` says that no packet takes longer
to transmit than a reset takes, `SPW_HALF_DELAY + SPW_DELAY`, so that none overtakes
such a one after the restart; `LinkSpec` is FIFO then, and allows overtaking
otherwise.

The refinement compares calls: a step of `LossyLink` that takes a packet, or refuses
it since a queue is full, records it in `sent`, which is the variable of the same
name here.

READY calls `StartedSpWState` in the same event, so no event finds a device in
READY. `m_currentPkt`, the traces and the interframe gap (zero) are left out.
`Receive` has two actions, for the two answers of the error model.

A device that is neither in RUN nor in BUSY only enqueues what it is given, and
nothing looks at the queue before the next start-up; `SendPoint` therefore
lets packets be given to a device in RUN or BUSY, or just before its start-up.
This changes no state a handler can see, and keeps the instances small.

### OstNode and the code

`ports` is the vector of sockets, with what the node's code and
`OstSocket::open` and `close` read and write of each: address, mark
(`aggregated`), state and mode. A new socket has the node's own address. `mode`
has no initial value in the code: closing a socket whose mode was never set may
go either way (`AfterClose`), and `Connectionless` says it never happens.
`Arrive` is `NetworkLayerReceive` with the arrival handler, for the segments the
other node makes. At a socket that was never opened a mode read as
`CONNECTIONLESS` leads data to a `spw_layer` that was never set, which ends the
program (`alive`); read as any other it leads to `full_states_handler`, the only
way into connection mode, of which the states are modelled. `misstarted` records
that `start` was called with a number that makes the node its own peer;
`segment` holds the octets `send` put in its queue last, made by `DataHeader`
from a header whose flags are whatever the memory held.
`start` takes the number of its timer for its own address and the peer's to be
`1 - hw_timer_id` as a `uint8_t`. The result of `open_connection` is 1 also when
no port is free; `Connections` allows it to open nothing. `send_packet` looks at
`ports[0]` only, so that a connection in another port refuses every message:
`Connections` allows refusal, and only says that what is sent has a connection.
`call` is the history of the last call that the refinement compares.

## Runs

| run | cfg | question | bounds |
|---|---|---|---|
| `transfer` | `Transfer` | transfer, timers, release, under loss and retransmission | 3 and 1 messages over a FIFO link; 3 messages with overtaking; circle 4, window 2 |
| `ties` | `Ties` | order, silence, nothing twice, when an end closes and reopens | 2 messages, `sameInstant`, B reopens; 3 messages, A reopens |
| `wrap` | `Wrap` | safety when sequence numbers are used again | 5 messages on a circle of 4 |
| `progress` | `Progress` | delivery and the end of retransmission, under fairness | 3 messages of 1 or 65536 bytes |
| `timers` | `Timers` | order, timeliness and the hardware timer | 3 timers at most of 4 numbers, duration 8, calls more than 2 microseconds apart |
| `link` | `Link` | start-up, errors one at a time, transmission, packets sent again, shutdown of an idle device | 3 calls of `Send`, of new packets or the same again, short or with a long one, 2 errors, 6 offsets |
| `ports` | `Ports` | every sequence of calls and arrivals | 3 ports, 4 addresses, `start` with 0, 1 and 255, 5 sizes, 3 octets of memory |
| `storage`, `wrap_stall`, `tie_stall`, `timer_stops`, `reset_overlap` | same names | disagreements, see below | |

Bounds of the sockets. `MAX_SEQ_N = 4` with `WINDOW_SZ = 2` is the smallest
circle in which a window neither fills more than half of it nor is a single
number, so that selective acknowledgement, a window that slides by two, and
every position of a window that wraps occur. Three messages reach a cell beyond
the vectors, five use a number again. `offers` of a setting bounds the calls of `send`;
`MAX_TRANSIT` the packets on the two wires when a timer expires, which allows a
duplicate of a message to be on the wire with its original and with
acknowledgements of both; `MAX_NOW` the pending events of a node.
`TRANSMIT_FIFO` is 2 where a full queue is wanted, else more than is needed.
`MAX_UNACK_PACKETS` is 255 in the code and larger than any number of timers a
window can have; in `Timers` it is 3, so that the ring wraps and is full.
`MAX_SLIPS` bounds how often the running timer is cancelled ahead of one that
waits; each time costs up to a microsecond.

Bounds of the link. All delays are those of the code, in nanoseconds; a packet
of 5 bytes (an acknowledgement) takes 200, one of 75 bytes 3000 and one of 1500
bytes 60000 at the 200 Mbit/s of the tests; only the last is not `Short`. `HANDLING` is 100 milliseconds, more than any start-up
takes. Two errors
are enough for an error during the recovery from another (`reset_overlap`) and
for recovering twice (`link`). `Gap` lets a packet be given to a device at an
event, during the silence, and 4000 ns before the arrival of one sent 100
milliseconds earlier: that one may arrive corrupt while the other is being
transmitted. Three calls are two copies back to back and another packet, or three
copies. The offsets are one of each kind: equal
starts, in step and out of step, one at which a NULL and an FCT arrive together
(39), half a cycle, almost a whole one; with
no traffic and no errors many more were explored (0 to 130, 1640 to 1760, 12730
to 12830, 16000, 19150 to 19300, 31900 to 32040), with the same answers. The
tests start the second device 400 milliseconds after the first, which is 12500
cycles of 32000 ns: offset 0. `QUEUE_SZ` is 2, so that a queue is
full.

Bounds of the node. The sizes are those at both ends of the 16-bit length, the
octets of memory no flag, two flags, and all bits. Three ports are enough for a
free one, one's own and two connections.

`CHECK_DEADLOCK FALSE` is set in the socket and link runs, since once all
messages are sent and acknowledged and the links are up nothing is left to do,
and in the node run, where the program may end. The timer runs check for
deadlock.

### Fairness

In `Progress` (and the two stall runs), `SenderFairness`:

- weak fairness of `ScheduleNow` events, delayed peeks and timers: the simulator
  runs every event it has scheduled;
- weak fairness of the head of the wire: it arrives or is lost;
- strong fairness of `SpwReady`: the link comes up again after each reset, and a
  transmission completes. For the start-up this is what `Recovers` shows of
  `SpwLink`, for devices that start in step;
- strong fairness of the arrival of the oldest outstanding message and of its
  acknowledgement: the error model of the simulator corrupts packets
  independently, so a packet sent over and over gets through at some time.

Under strong fairness losses would have to be treated packet by packet if one
loss could take another with it, so `FairSpec` of `MCOstSocket` has losses one at
a time: the same packets may be lost, each with a reset of its own.

In `Link`: weak fairness of the events of the calendar, nothing else. `FairSpec`
of `SpwLink` writes out when an event can run (there is one, and it is no completion
that fails the assertion): TLC found this to be `ENABLED` of the step in every state
of `Link`, where it evaluates it many times faster.

### What the runs show

Sockets. On the first round of sequence numbers transfer is in order and once,
also across closing and reopening the receiver, with events sharing instants and
over a link on which packets overtake each other; what was accepted is delivered
up to the first message of 65536 bytes, which stops the sender for good. A sender
that closes and reopens starts at number 0 with old packets, timers and
acknowledgements about: messages get lost, and the order of messages on either
side of the close may turn round, but none is handed over twice or made up
(`OnceAcrossReopening`). After the numbers wrap, safety still holds.

Timers. The ring is a queue of independent timers whatever the calls. Each is on
time up to rounding, and none is left without an event, as long as calls are more
than two microseconds apart (`GAP`). This is a condition, and the code does not
ensure it: acknowledgements of 5 bytes that were queued during a reset arrive 200 ns
apart, and each may cancel a timer and transmit, which sets one. Calls that are closer
harm in two ways. Two timers set at one instant have a difference of -1, stored as
2^32 - 1, which `timer_stops` shows. Two set later than that but within a microsecond
have a difference of 0: then an ordinary expiry of the first is enough,
`timer_interrupt_handler` reads the 0 as "none left", and the second timer waits with
no event.

Link. Two devices connect only when they start in step, and this is decided by
the difference of their starts (`InStep`): a device that is alone repeats reset
and start-up with a period of 32000 ns (`CYCLE`), and the two must be in STARTED at a time
when a NULL of each can arrive. After an error the two ends are 1700 ns apart
(`APPROACH_TIME` and `EXCHANGE_OF_SILENCE`), which is in step: recovery works,
and would not with some other values of these constants. At some offsets, 39 for
one, a NULL and an FCT arrive together, and one end is in RUN alone for good;
`MeetsInStep` shows that it happens at exactly the offsets `HalfOpen` names.

From the moment an error is noticed no packet being transmitted arrives
(`ErrorEmptiesChannel`), with one exception, which contradicts the comment "remove all
packets from channel" (`spw-channel.cc:240`): of a packet its device was given more than
once a copy may stay on the wire, because the copies share a key of `m_events`.
`tie_stall` has the case, a message transmitted twice in one instant. Such a copy does
no harm that losing it would not do: it arrives as one of the times the packet was
sent, so that nothing arrives unsent or more often than it was sent
(`ArrivedWasSent`), and with short packets not out of order (`LinkSpec`).

Node. The table behaves as a set of connections. `start` called with a number
that makes the node its own peer leaves its port unopened, and only then does an
arrival find a socket without mode and link; data ends the program, or is dropped
by a socket that stays closed. In the tests the nodes get the addresses 0 and 1
from `Mac8Address::Allocate`; `ost-simple-test.cc:183` starts the second with 0,
so that it is such a node and its port is never opened, while `ost-compare-test`
starts it with 1. Every header is read as what it is (`HeaderTells`).

Five runs show where the code disagrees with what its documents, comments or
assertions say:

- `storage`: the third message of a window of two (the eleventh in the code)
  uses cells beyond the vectors (`ost_socket.h:28`: "in fact range 0..255");
- `wrap_stall`: `ost_socket.cc:254` compares sequence numbers without the
  circle; after a wrap the sender's window stops;
- `tie_stall`: two sends in one instant, and the first message is never
  transmitted, since `ost_socket.cc:23` computes the number when the event runs;
- `timer_stops`: `get_hard_timer_left_time` rounds up
  (`timer_fifo.cc:153`), so two timers set in one microsecond have a difference
  below zero, stored as 2^32 - 1, and a cancellation can bring the difference of
  the next timer to exactly 0, which is read as "none left";
- `reset_overlap`: a second packet arrives corrupt during a reset. Two chains of
  ERROR_WAIT and READY then run, neither with a handle; the later one takes a
  device out of BUSY and the assertion of `spw-device.cc:277` fails.

What `wrap_stall` and `tie_stall` contradict is said of a transfer as a whole:
`VerifyMsg` of `ost-compare-test.cc` takes a message that differs in size for an error
(106-108). The repository has no firmer statement, and this one is not run: the calls
(139 and 242) are commented out. It is quoted for what the authors mean a transfer to
do.

## Proofs

The proofs assume `WindowAssumption`, `SocketAssumption`, `FifoAssumption`,
`LinkAssumption` and `NodeAssumption`, which TLC evaluates in the runs of those modules.

`OstNode_proofs`, for every table size, address, message size and sequence of
calls and arrivals: all that the run `ports` checks. One invariant carries the
table, `NodeInv`: a port is either free, with the node's own address and never
opened, or marked, with an address no other port has, and opened at least once.
None of the properties is inductive without it: that `close_connection` never
reads an unset mode needs that a port with another address was opened; that
`AggregateSocket` does not give an address a second port needs that an unmarked
port has the node's own; that `full_states_handler` changes nothing needs that an
unopened socket is closed.

- `NodeTypes`, `NodeConnectionless`, `OneSocketForEach`: `TypeOK`,
  `Connectionless`, `OneSocketEach`;
- `SocketForArrivals`: `ArrivalFindsSocket`, from the invariant `Arrivals` that
  the first port was opened unless the node is `misstarted`;
- `HeadersTell`: `HeaderTells`, from the invariant `MadeBySend` that the segment
  in the queue is one `DataHeader` made, and the two theorems about headers;
- `ImplementsConnections`: `Spec => ConnectionsSpec`, one step per call;
- `RoundTrip`, for every header: `Deserialize` undoes `Serialize`, which rests on
  division with remainder of the length (`Length16`); `KindsApart`: an
  acknowledgement and a data segment read as themselves at the receiver, under
  every number. Bits are divisions and remainders, since the prover has no bit
  vectors.

`SpwLink_proofs`, for every delay, queue, traffic, offset and number of errors,
in two parts.

The first holds whatever happens, resets that overlap included:

- `NoPacketWaits`: `NothingWaits`, from the types of state and queues
  (`DeviceInv`). Every way into RUN goes through `CheckQueue`;
- `LinkTypeCorrect`: `TypeOK`, from `LinkTypes`, which adds that an event that
  carries a packet has its uid and that no event is in the past. It rests on lemmas
  about the calendar: inserting puts an event behind those of its instant and
  keeps the order (`Insert` counts the events before it), cancelling keeps the
  others in their order (`Nth` of the kept places is increasing), and a call between
  two events does not pass the next one;
- `ChannelEmptied`: `ErrorEmptiesChannel`. `NotifyError` finds transmissions only
  through `m_events`, so what is left on a wire is what lost its handle. The
  invariant `UidInv` says that this happens only to copies: of a packet that was given
  once (`Once`) no second stands in the queue (`QueueInv`) or on the wire, it is not in
  both, and its transmission has the handle of `m_events` (`WireInv`). A new packet has
  a uid above all those given before. Being given once can only be lost, so that the
  invariant is about fewer packets after a step than before it;
- `DeliversOnlyWhatIsSent`: `Spec => Unordered!Spec`, where `Unordered` is
  `LossyLink` with `ordered` FALSE and the calls of `Send` as its `sent`. The packets on their way from a device are one
  sequence, its `Way`: what waits to be received, what the channel handles, what is
  being transmitted, then the queue. Every handler is one move of that sequence
  (`LinkMove`): it leaves it alone, appends, takes the first, thins it out, or lets
  one packet overtake others. Each of the three stages on the calendar (`Carried`)
  is the events of one kind in calendar order; the lemmas say what inserting,
  cancelling and running an event do to them (`InsertPacket`, `CancelKept`,
  `FirstLeaves`). That a packet that changes stage goes to the end of the next one
  needs that no event of that stage comes later than it: handling takes as long
  for every packet, and a reception is immediate (`Loaded`);
- `ArrivalsWereSent`: `ArrivedWasSent`. What it says of arrivals alone is not
  inductive: that the next to arrive was sent depends on what is on its way. The
  invariant `ArrivalsInv` says of what has arrived, followed by the `Way`, that its
  packets `Stem` from calls of `Send`, each from another. The moves of `LinkMove` keep
  it: a call appends to both, a delivery leaves the sequence as it is, and to lose
  packets or let one overtake others composes one injection with another
  (`StemsTwice`, `StemsThinned`, `StemsOvertakings`). It needs no condition, and
  copies no handle refers to are covered. TLC checked `UidInv` and `ArrivalsInv` on
  the instance of `link`.

The second part is about errors that come one at a time: `OneAtATime`, only a
device in RUN shut down, and `APPROACH_TIME <= SPW_HALF_DELAY` (850 and 6400 in
the code).

- `EveryBusyCompletes`: `BusyCompletes`; `AssertionHolds`: `CompletesInBusy`, the
  assertion of `spw-device.cc:277`; `QuietOnceConnected`: `EstablishedIsQuiet`.

None is inductive. The invariant `ChainInv` says what is on the calendar for a
device in each state (`Kinds`): one change of state at most, one completion, one
NULL and one FCT at most, each with the handle the code keeps for its kind, if any
(`Tidy`). What
could break it is an error noticed by the far end while it is resetting. So
`ChainInv` also says that as long as the approach of a disconnection is on its way
the device that noticed the error is still in ERROR_RESET, the approach coming
first (`Ahead`; this needs the order of the two delays), and that as long as a device
is not started nothing has come from it and no packet is on the link (`Fresh`). TLC
checked `ChainInv` on the instance of `link` before it was proved. The hypothesis
`OneAtATime` is needed: `reset_overlap` is the counterexample without it.

- `LinkIsLossy`: `Spec => LinkSpec`. A packet overtakes another only if its
  transmission ends before one that began earlier, and that one can only be left
  from before a reset, which cancels the completion of a transmission and not its
  arrival, or which `NotifyError` does not reach because the transmission is a copy. The invariant `Pace` says how long such a packet may still take: no longer
  than the device needs until it transmits again. For each event that brings the
  device nearer to that (the completion, the resets, READY) what is on its wire ends
  within the delays still to follow (`Timely`, `Slack`); in the states from which
  it may transmit at once (`Calm`) it ends within `DELAY`, which is the least a new
  transmission takes; and never later than the longest short packet would
  (`Longest`). That the only event of that kind for a device in BUSY is the completion
  of the packet it has begun comes from `ChainInv`. `Pace` is an invariant only if
  packets are short (`Short`), as `LinkSpec` says; TLC checked it, and `Loaded`, on the
  instance of `link`, and finds it violated there once the packet is long.

`TimerFifo_proofs`, for every capacity, duration and word width; the first three
with no assumption on how far calls are apart:

- `TimersTypes`: `TypeOK`; `EventHasTimer`: an event is pending only while the
  ring has a timer, so that `timer_interrupt_handler` never pops an empty ring
  (half of `HardwareRuns`). Both from the invariant `FifoInv`, which is the two of
  them together: that an interrupt leaves the types alone needs that there is a
  timer at the tail;
- `RingIsQueue`: `Spec => TimersSpec`. The lemmas say what each operation does to
  the ring read from tail to head: `push_timer` appends (`Pushed`), `pop_timer`
  at the tail drops the first (`Popped`) and elsewhere closes the gap
  (`PopElsewhereType`, `AbstractCancel`), wherever the ring wraps. The search finds
  the first place of a number because `FirstPlace` is the least element of a set
  of places, `Smallest`, which stands in `Smallest_proofs`;
- `TimerAlwaysRuns` and `ExpiresOnTime`: `HardwareRuns` and `OnTime`, when calls
  are more than two microseconds apart (`GAP > 2 * GRAIN`). The invariant
  `TimesInv` says that there is a strictly increasing function of places, the ticks
  until each timer expires, of which the differences in the ring are those
  (`Due`), so that none was taken modulo the word. That the next difference is not
  zero or negative either needs that more than a microsecond of `DURATION` is over
  for the timers ahead when one is set. At a call it is, because every cancellation
  that made a timer late cost it a `GAP` of its age and another `GAP` has passed
  since the last (`InTime`, `AtCall`); at an interrupt because a timer that waits
  behind another was a `GAP` old or set by an interrupt, which sets it a whole
  microsecond early (`Behind`, `AtInterrupt`). Without the condition the property
  is false, as `timer_stops` shows. TLC checked the invariant on the instance of
  `timers` before it was proved.

`SpwStartUp_proofs`, for all delays and offsets with `Timing`
(`2 * LATENCY < PERIOD`, and `LATENCY` below `SPW_DELAY` and `SPW_HALF_DELAY`; 11,
50, 12800 and 6400 in the code), if only a device in RUN is shut down:

- `MeetOnlyInStep`: `MeetsInStep`. The invariant `StartUpInv` gives each device a
  clock, 0 when it enters STARTED, which its state and its next timeout tell, and
  says that the clocks are `FarApart`: in whatever cycle, when the one that is behind
  enters STARTED, the other has no NULL on the way to it and sends none until its
  first has arrived, or leaves STARTED before that. At the beginning that is what it
  means that the starts are not in step (`FarAtFirst`). A NULL may still arrive in
  STARTED and take its receiver to CONNECTING, with its clock started anew. The new
  difference of the clocks is that of the time at which the NULL was sent and
  `LATENCY`, and far apart as well (`FarAgain`); and no NULL of the receiver comes
  to the other in STARTED (`Harmless`), so that it sends no FCT, and both go round.
  What is pending and on its way for each end is in `Side`. At the offsets of
  `HalfOpen` a NULL arrives at the instant at which its receiver is to send one, and
  what comes first on the calendar decides. Three more states of the link, `Opening`,
  `HalfWay` and `OneIsUp`, lead from that instant to one end in RUN for good and the
  other starting up again and again. TLC checked `StartUpInv` on small delays at
  every offset before it was proved.

Nothing is assumed there of errors and of packets: between such devices none is ever
on its way.

`OstSocket_proofs`, for every circle, window, traffic and message size:

- `InWindowIsDistance`: the window test is circular distance;
- `SpaceIsRoom`: the room test grants only room that is there;
- `TypeCorrect`: `Spec => []TypeOK`. `TypeOK` is not inductive: when
  `mark_packet_receipt` hands over `rx_window[b].id` it must know that the cell
  holds a message. The invariant `TypeInv` adds `ReceivedIsStored`: what counts
  as received is stored. One step per action under `StepType`, the loop's result
  in lemmas of its own;
- `StoredReceipts`: that strengthening, of interest by itself: the application
  is never handed a null packet;
- `ClosedSilence`: `Spec => ClosedIsSilent`, from the invariant `ClosedWindow`
  that a closed socket has an empty receive window, and from the lemma that no
  number is in an empty window.

The second part of `OstSocket_proofs`, for every circle at least two windows long
(`2 * WINDOW_SZ <= MAX_SEQ_N`, 20 of 256 in the code), in any number of rounds,
with losses, overtaking, closing and reopening:

- `WindowsAlwaysFit`: `WindowsFit`; `AckLoopTerminates`: `AckLoopEnds`.

Neither is inductive. The loop of `mark_packet_ack` compares numbers without the
circle, and what stops it is not the test of its condition alone: since
`acknowledged` is never cleared, everything below the bottom counts as
acknowledged (`TxFit`). Before the top wraps the comparison is right. Once it
has wrapped the bottom can only follow from the last number of the circle; and as
soon as that counts as acknowledged, so do all numbers of the window's new place,
no acknowledgement is fresh and the bottom moves no more. On a circle shorter than
two windows the window's new place would reach numbers that are not acknowledged,
and the argument fails. This is also why the sender stops (`wrap_stall`).

`Delivery_proofs`, on the first round of sequence numbers: `FirstRound` says that
no node is offered more messages than there are numbers but one, 255 in the code.
Nothing else is assumed of traffic, link, windows, queues or instants, and
receivers close and reopen whenever they like.

- `DeliveryInOrder`: `InOrder`; `DeliveredOnce`: `OnceAcrossReopening`;
- `TransferImplemented`: `Spec /\ []NoCuts => TransferSpec`. `NoCuts` says that no
  sender has closed; in the run `transfer` nobody does.

None of them is inductive: that the next message handed over is the right one
depends on what is in `rx_window`, that on what was on the wire, that on what was
in `tx_window` when it was sent. The invariant `DeliveryInv` says one thing of all
these places. A message gets its sequence number when it enters the window; the
number is how many messages were accepted before it since the sender's last
close (`Number`), which depends only on histories and so never changes
(`NumberStays`). `Numbering` says that the top of the window is the number of the
message that is next; `NumberedInv` that whatever is stored at either end, is in
flight, waits as an event or was delivered is a message under its number, and that
the bottom of the receive window counts what was delivered unless that window is
empty for good. On the first round two messages with one number have a close
between them, and then the older comes first in the order in which they are
delivered. The steps of a node are summed up as five moves of a sender
(`SenderMoves`) and three of a receiver, so that the argument about numbers is
made once per move and not once per action.

The bound is tight for `InOrder`: with four messages on a circle of four and
packets that overtake each other, TLC finds two out of order. The `wrap` run has
five messages over a FIFO link.

`Retransmission_proofs`, on the first round and while no sender closes:

- `AckedAfterReceipt`: `AckedIsReceived`; `ReleasedAfterDelivery`:
  `ReleasedIsDelivered`. The receiver acknowledges every number that arrives, also
  one it does not take. That this promises nothing false needs the invariant
  `AckInv`, which ties the two ends together: all below the sender's bottom is
  acknowledged (`SenderWindow`), what is acknowledged or has an acknowledgement on
  its way is delivered or waits at the receiver (`AcksAreGot`), which has not
  received the number its window starts at (`ReceiverWindow`). So the sender's
  bottom is never above the receiver's (`WindowsOverlap`), no number in flight is
  above the receive window, and a number not taken lies below it (`StaleIsGot`);
- `TimersTrackWindow`: `TimerDiscipline`, for settings without shared instants and
  `WINDOW_SZ <= MAX_UNACK_PACKETS` (10 and 255 in the code). The invariant
  `TimersInv` adds that a node has at most one event pending, that nothing is
  acknowledged or in flight whose first transmission is still to come
  (`OnlyLive`), and that timers are distinct and run for exactly the numbers
  `TimerDiscipline` names (`TimersRight`). They fit because they are numbers
  of one window (`TimersFit`). With shared instants the property is false, for the
  reason `tie_stall` shows.

Only model-checked: all liveness (`AllDelivered`, `RetransmissionEnds`,
`Recovers`), which is beyond the prover. Every safety property of the passing runs
has a theorem, most of them under the hypotheses given above.

## Not modelled

- Connection mode beyond its states. `open` takes only `CONNECTIONLESS`;
  `full_states_handler` runs only at a socket whose mode was never set, and
  `NodeConnectionless` proves that such a socket stays closed, so that no case of
  the handler but that of CLOSED runs. What the others do with windows is left
  out; `send_syn`, `send_rejection`, `send_confirm` and the like are empty.
- `Shutdown` of a device in any state but RUN: what is on the calendar stays
  there and brings the device back or fails an assertion. `ShutdownIn` names the
  states. No document says what `Shutdown` promises there.
- Traffic over a link of which one end is in RUN alone (`HalfOpen`): the other
  end starts up again and again, and nothing bounds the instance.
- `OstNode::event_handler` (`that_arrived` is never set) and `DeleteSocket`,
  which change nothing.
- Payload bytes, tracing, logging, attributes, printing, the counters of the
  channel, the helpers, the modules that are empty shells, and the tests.

## Plan

Order of work so far: sockets first, then timers, link, node and header;
then windows over many rounds, reopening of a sender, overtaking, and arrivals at
the node; then the proofs of transfer, acknowledgement and timers, of the calendar of
the link, of the times of the timers, and of when two devices meet. What is left, in
the order of what it is worth:

1. Composition: `OstSocket` on `LossyLink` as its wire, so that `Deliver` and
   `Lose` are the abstract link's own actions, and the node's table above it.
2. `SpwLink` with `Shutdown` in every state.
