------------------------------- MODULE SpwLink -------------------------------
(***************************************************************************)
(* Two SpaceWire devices on a channel (spw/model/spw-device.cc,            *)
(* spw-channel.cc): the state machine that starts the link and resets it   *)
(* after a parity error, and the transmission of packets.                  *)
(*                                                                         *)
(* The program is a discrete-event simulation: what will happen is the     *)
(* calendar, a sequence of events in the order they will run, each with    *)
(* the nanoseconds left until then; of two events of one instant the one   *)
(* scheduled first runs first.  Every handler is an action that takes the  *)
(* first event.  Calls from outside, Send and Shutdown, come between.      *)
(*                                                                         *)
(* An event can be cancelled only through the EventId some field holds.    *)
(* The field "handle" of an event names the one that still refers to it;   *)
(* assigning another event to that field leaves the old one on the         *)
(* calendar with no handle.                                                *)
(***************************************************************************)
EXTENDS Naturals, Sequences, FiniteSets, SequencesExt

CONSTANTS
  Node,                 \* the two devices
  SPW_DELAY, SPW_HALF_DELAY, EXCHANGE_OF_SILENCE,       \* spw-device.h
  APPROACH_TIME, DELAY,                                 \* spw-channel.h
  PERIOD,               \* between two NULLs or FCTs, 50 in the code
  LATENCY,              \* of a NULL or FCT, 11 in the code
  HANDLING,             \* from the end of a transmission to Receive
  MAX_SEND,             \* bound: calls of Send
  Traffic,              \* the transmission times these packets may have
  QUEUE_SZ,             \* capacity of m_queue
  Offset,               \* how much later the second device may be started
  Gap,                  \* bound: the times a call comes after an event
  ShutdownIn,           \* bound: the states in which it is shut down
  MAX_ERRORS,           \* bound: packets that arrive corrupt
  OneAtATime            \* no packet arrives corrupt while the link is down

\* A packet is numbered by the call of Send it is first given to a device in.  A
\* socket sends the same Ptr<Packet> again (ost_socket.cc:319): the uid is the same.
Uid == 1 .. MAX_SEND
NoUid == 0

MachineState == {"DOWN", "ERROR_RESET", "ERROR_WAIT", "STARTED", "CONNECTING",
                 "RUN", "BUSY"}

ASSUME LinkAssumption ==
  /\ \E a, b \in Node : a # b /\ Node = {a, b}
  /\ {SPW_DELAY, SPW_HALF_DELAY, EXCHANGE_OF_SILENCE, APPROACH_TIME, DELAY,
      PERIOD, LATENCY, HANDLING, QUEUE_SZ} \subseteq Nat \ {0}
  /\ MAX_SEND \in Nat
  /\ Traffic \subseteq [Uid -> Nat]
  /\ Offset \subseteq Nat /\ Gap \subseteq Nat
  /\ ShutdownIn \subseteq MachineState
  /\ MAX_ERRORS \in Nat
  /\ OneAtATime \in BOOLEAN

Peer(n) == CHOOSE m \in Node : m # n

VARIABLES
  machineState,         \* SpWDevice::m_machineState
  m_queue,              \* SpWDevice::m_queue
  calendar,             \* the events of the simulator, the next one first
  given,                \* calls of Send so far
  sent,                 \* history: packets Send of each device was called with
  errors,               \* packets that arrived corrupt so far
  offset,               \* how much later the second device is started
  txTime,               \* how long packets take to transmit, by uid
  received              \* history: packets passed to m_rxCallback

vars == <<machineState, m_queue, calendar, given, sent, errors, offset, txTime,
          received>>
calls == <<given, sent, errors, offset, txTime>>

-----------------------------------------------------------------------------
(***************************************************************************)
(* The calendar.                                                           *)
(***************************************************************************)

\* Simulator::Schedule: an event comes after those of its instant.
Insert(cal, e) ==
  InsertAt(cal, Cardinality({i \in DOMAIN cal : cal[i].in <= e.in}) + 1, e)

\* The EventId is not kept.
Schedule(cal, delay, do, n, u) ==
  Insert(cal, [do |-> do, dev |-> n, uid |-> u, in |-> delay, handle |-> "none"])

\* No event is referred to by the handle h of n (for packet u) any more.
Forget(cal, n, h, u) ==
  [i \in DOMAIN cal |->
     IF cal[i].dev = n /\ cal[i].handle = h /\ cal[i].uid = u
       THEN [cal[i] EXCEPT !.handle = "none"] ELSE cal[i]]

\* The EventId is assigned to h; for a map, under the key u.
ScheduleAs(h, cal, delay, do, n, u) ==
  Insert(Forget(cal, n, h, u),
         [do |-> do, dev |-> n, uid |-> u, in |-> delay, handle |-> h])

\* The k-th number of S.
Nth(S, k) == CHOOSE i \in S : Cardinality({j \in S : j <= i}) = k

\* Simulator::Cancel of what the handles in H of n refer to.
Cancel(cal, n, H) ==
  LET kept == {i \in DOMAIN cal : ~(cal[i].dev = n /\ cal[i].handle \in H)}
  IN  [k \in 1 .. Cardinality(kept) |-> cal[Nth(kept, k)]]

\* The calendar d nanoseconds later.
Later(cal, d) == [i \in DOMAIN cal |-> [cal[i] EXCEPT !.in = @ - d]]

\* The next event is do at n, and what is left once it has started.
Runs(do, n) == calendar # <<>> /\ Head(calendar).do = do /\ Head(calendar).dev = n
Rest == Later(Tail(calendar), Head(calendar).in)

\* A call from outside comes d after the last event, at the instant of the
\* next one at the latest.
CallAt(d) == calendar # <<>> => d <= Head(calendar).in

-----------------------------------------------------------------------------
(***************************************************************************)
(* The parts of the handlers, as functions of the calendar.                *)
(***************************************************************************)

Handle == {"stateChangeToErrorReset", "sendNull", "sendFCT", "transmit_complete_events"}

\* Faulty: completions are not cancelled.
ErrorReset_transmitting(cal, n) ==
  Schedule(Cancel(cal, n, {"sendNull", "sendFCT"}), SPW_HALF_DELAY, "ErrorWait", n, NoUid)

\* SpWDevice::ErrorResetSpWState, whose event for ERROR_WAIT has no handle.
\* stateChangeToErrorReset is not cancelled.
ErrorReset(cal, n) ==
  Schedule(Cancel(cal, n, Handle \ {"stateChangeToErrorReset"}),
           SPW_HALF_DELAY, "ErrorWait", n, NoUid)

\* The timeout STARTED and CONNECTING set.
Timeout(cal, n, delay) ==
  ScheduleAs("stateChangeToErrorReset",
             Cancel(cal, n, {"stateChangeToErrorReset"}),
             delay, "ErrorReset", n, NoUid)

\* Faulty: STARTED sets no timeout.
Started_patient(cal, n) == ScheduleAs("sendNull", cal, 0, "SendNull", n, NoUid)

Started(cal, n) ==
  ScheduleAs("sendNull", Timeout(cal, n, SPW_DELAY), 0, "SendNull", n, NoUid)

\* Faulty: CONNECTING goes on with NULLs.
Connecting_with_nulls(cal, n) ==
  ScheduleAs("sendNull", Timeout(cal, n, SPW_DELAY), 0, "SendNull", n, NoUid)

Connecting(cal, n) ==
  ScheduleAs("sendFCT", Timeout(cal, n, SPW_DELAY), 0, "SendFCT", n, NoUid)

\* SpWChannel::TransmitStart, NullInLink and FCTInLink.
OntoWire(cal, n, u) ==
  ScheduleAs("m_events", cal, txTime[u] + DELAY, "TransmissionComplete", n, u)
NullInLink(cal, n) == Schedule(cal, LATENCY, "ReceiveNull", Peer(n), NoUid)
FCTInLink(cal, n) == Schedule(cal, LATENCY, "ReceiveFCT", Peer(n), NoUid)

\* SpWDevice::TransmitStart.
TransmitStart(cal, n, u) ==
  OntoWire(ScheduleAs("transmit_complete_events", cal, txTime[u],
                      "TransmitComplete", n, u),
           n, u)

\* Faulty: only the wire of the caller is emptied.
NotifyError_one_wire(cal, n) ==
  Schedule(Cancel(cal, n, {"m_events"}), APPROACH_TIME, "ApproachLinkDisconnection",
           Peer(n), NoUid)

\* SpWChannel::NotifyError by n: nothing that is being transmitted arrives, and
\* the other device notices.
NotifyError(cal, n) ==
  Schedule(Cancel(Cancel(cal, n, {"m_events"}), Peer(n), {"m_events"}),
           APPROACH_TIME, "ApproachLinkDisconnection", Peer(n), NoUid)

\* Faulty: the packet enqueued last goes first.
Transmit_newest(n, q, cal) ==
  IF q = <<>>
    THEN /\ machineState' = [machineState EXCEPT ![n] = "RUN"]
         /\ m_queue' = [m_queue EXCEPT ![n] = <<>>]
         /\ calendar' = cal
    ELSE /\ machineState' = [machineState EXCEPT ![n] = "BUSY"]
         /\ m_queue' = [m_queue EXCEPT ![n] = Front(q)]
         /\ calendar' = TransmitStart(cal, n, Last(q))

\* Faulty: a device in RUN leaves what it transmits in the queue.
Transmit_without_dequeue(n, q, cal) ==
  IF q = <<>>
    THEN /\ machineState' = [machineState EXCEPT ![n] = "RUN"]
         /\ m_queue' = [m_queue EXCEPT ![n] = <<>>]
         /\ calendar' = cal
    ELSE /\ machineState' = [machineState EXCEPT ![n] = "BUSY"]
         /\ m_queue' = [m_queue EXCEPT ![n] = IF machineState[n] = "RUN" THEN q ELSE Tail(q)]
         /\ calendar' = TransmitStart(cal, n, Head(q))

\* Device n is ready: it transmits the first packet of q, or stays in RUN.
Transmit(n, q, cal) ==
  IF q = <<>>
    THEN /\ machineState' = [machineState EXCEPT ![n] = "RUN"]
         /\ m_queue' = [m_queue EXCEPT ![n] = <<>>]
         /\ calendar' = cal
    ELSE /\ machineState' = [machineState EXCEPT ![n] = "BUSY"]
         /\ m_queue' = [m_queue EXCEPT ![n] = Tail(q)]
         /\ calendar' = TransmitStart(cal, n, Head(q))

Enter(n, s) == machineState' = [machineState EXCEPT ![n] = s]

\* Faulty: no limit.
Enqueue_unbounded(q, u) == Append(q, u)

\* DropTailQueue: a full queue drops the packet.
Enqueue(q, u) == IF Len(q) < QUEUE_SZ THEN Append(q, u) ELSE q

\* Faulty: without CheckQueue; with the timeout of CONNECTING left pending.
RunSpWState_unchecked(n, cal) ==
  /\ Enter(n, "RUN")
  /\ calendar' = Cancel(cal, n, {"stateChangeToErrorReset", "sendNull", "sendFCT"})
  /\ UNCHANGED m_queue
RunSpWState_armed(n, cal) == Transmit(n, m_queue[n], Cancel(cal, n, {"sendNull", "sendFCT"}))

\* SpWDevice::RunSpWState, which ends with CheckQueue.
RunSpWState(n, cal) ==
  Transmit(n, m_queue[n],
           Cancel(cal, n, {"stateChangeToErrorReset", "sendNull", "sendFCT"}))

-----------------------------------------------------------------------------
\* OstNode::start calls ErrorResetSpWState of its device; the second node is
\* started later.
Init ==
  /\ machineState = [n \in Node |-> "DOWN"]
  /\ m_queue = [n \in Node |-> <<>>]
  /\ offset \in Offset
  /\ txTime \in Traffic
  /\ \E n \in Node :
       calendar = Schedule(Schedule(<<>>, 0, "ErrorReset", n, NoUid),
                           offset, "ErrorReset", Peer(n), NoUid)
  /\ given = 0
  /\ sent = [n \in Node |-> <<>>]
  /\ errors = 0
  /\ received = [n \in Node |-> <<>>]

ErrorResetSpWState(n) ==
  /\ Runs("ErrorReset", n)
  /\ Enter(n, "ERROR_RESET")
  /\ calendar' = ErrorReset(Rest, n)
  /\ UNCHANGED <<m_queue, calls, received>>

ErrorWaitSpWState(n) ==
  /\ Runs("ErrorWait", n)
  /\ Enter(n, "ERROR_WAIT")
  /\ calendar' = Schedule(Rest, SPW_DELAY, "Ready", n, NoUid)
  /\ UNCHANGED <<m_queue, calls, received>>

\* READY calls StartedSpWState at once: no event finds a device in READY.
ReadySpWState(n) ==
  /\ Runs("Ready", n)
  /\ Enter(n, "STARTED")
  /\ calendar' = Started(Rest, n)
  /\ UNCHANGED <<m_queue, calls, received>>

\* Until the state is ERROR_RESET each NULL schedules the next.
SendNull(n) ==
  /\ Runs("SendNull", n)
  /\ LET cal == NullInLink(Rest, n)
     IN  calendar' = IF machineState[n] = "ERROR_RESET" THEN cal
                     ELSE ScheduleAs("sendNull", cal, PERIOD, "SendNull", n, NoUid)
  /\ UNCHANGED <<machineState, m_queue, calls, received>>

ReceiveNull(n) ==
  /\ Runs("ReceiveNull", n)
  /\ IF machineState[n] = "STARTED"
       THEN /\ Enter(n, "CONNECTING")
            /\ calendar' = Connecting(Cancel(Rest, n, {"sendNull"}), n)
       ELSE calendar' = Rest /\ UNCHANGED machineState
  /\ UNCHANGED <<m_queue, calls, received>>

SendFCT(n) ==
  /\ Runs("SendFCT", n)
  /\ LET cal == FCTInLink(Rest, n)
     IN  calendar' = IF machineState[n] = "ERROR_RESET" THEN cal
                     ELSE ScheduleAs("sendFCT", cal, PERIOD, "SendFCT", n, NoUid)
  /\ UNCHANGED <<machineState, m_queue, calls, received>>

ReceiveFCT(n) ==
  /\ Runs("ReceiveFCT", n)
  /\ IF machineState[n] = "CONNECTING"
       THEN RunSpWState(n, Rest)
       ELSE calendar' = Rest /\ UNCHANGED <<machineState, m_queue>>
  /\ UNCHANGED <<calls, received>>

\* The code asserts BUSY: the program ends if it is not.
TransmitComplete(n) ==
  /\ Runs("TransmitComplete", n)
  /\ machineState[n] = "BUSY"
  /\ Transmit(n, m_queue[n],
              Forget(Rest, n, "transmit_complete_events", Head(calendar).uid))
  /\ UNCHANGED <<calls, received>>

\* The packet has left the wire of n and cannot be cancelled any more.
TransmissionComplete(n) ==
  /\ Runs("TransmissionComplete", n)
  /\ LET u == Head(calendar).uid
     IN  calendar' = Schedule(Forget(Rest, n, "m_events", u),
                              HANDLING, "HandlingArrivedComplete", n, u)
  /\ UNCHANGED <<machineState, m_queue, calls, received>>

HandlingArrivedComplete(n) ==
  /\ Runs("HandlingArrivedComplete", n)
  /\ calendar' = Schedule(Rest, 0, "Receive", Peer(n), Head(calendar).uid)
  /\ UNCHANGED <<machineState, m_queue, calls, received>>

\* In any state, DOWN included, an intact packet goes up to the node.
ReceiveIntact(n) ==
  /\ Runs("Receive", n)
  /\ received' = [received EXCEPT ![n] = Append(@, Head(calendar).uid)]
  /\ calendar' = Rest
  /\ UNCHANGED <<machineState, m_queue, calls>>

ReceiveCorrupt(n) ==
  /\ Runs("Receive", n)
  /\ errors < MAX_ERRORS
  /\ OneAtATime => \A m \in Node : machineState[m] \in {"DOWN", "RUN", "BUSY"}
  /\ errors' = errors + 1
  /\ Enter(n, "ERROR_RESET")
  /\ calendar' = ErrorReset(NotifyError(Rest, n), n)
  /\ UNCHANGED <<m_queue, given, sent, offset, txTime, received>>

ApproachLinkDisconnection(n) ==
  /\ Runs("ApproachLinkDisconnection", n)
  /\ Enter(n, "ERROR_RESET")
  /\ calendar' = Timeout(Cancel(Rest, n, Handle), n, EXCHANGE_OF_SILENCE)
  /\ UNCHANGED <<m_queue, calls, received>>

-----------------------------------------------------------------------------
(***************************************************************************)
(* Start-up.  A device that is alone repeats reset and start-up with       *)
(* period CYCLE.  Of two devices the one that is ahead must still be in    *)
(* STARTED when the NULL of the other arrives, and a NULL of its own must  *)
(* be on the way at that time which arrives after the other has started.   *)
(***************************************************************************)

CYCLE == SPW_HALF_DELAY + 2 * SPW_DELAY
Lead == LET d == offset % CYCLE IN IF 2 * d <= CYCLE THEN d ELSE CYCLE - d
InStep == /\ Lead + LATENCY < SPW_DELAY
          /\ (Lead + LATENCY) % PERIOD \in 1 .. 2 * LATENCY - 1

\* The FCT of the device that is ahead arrives together with that NULL: the
\* other is in RUN before it has sent an FCT.
HalfOpen == Lead + LATENCY < SPW_DELAY /\ (Lead + LATENCY) % PERIOD = 0

\* A device that is neither in RUN nor in BUSY only enqueues what it is given,
\* which nothing looks at before its next start-up: bound, packets are given to
\* it just before that.  Bound: none are given to devices that are not going to
\* meet and of which one is in RUN, while the other starts up again and again.
SendPoint(n) == /\ machineState[n] \in {"RUN", "BUSY"} \/ Runs("Ready", n)
                /\ ~HalfOpen

\* SpWDevice::Send, of a new packet or of one it was called with before.
\* m_linkUp is TRUE once the device is attached.  In RUN the queue is
\* transmitted from at once.
Send(n) ==
  /\ SendPoint(n)
  /\ given < MAX_SEND
  /\ given' = given + 1
  /\ \E u \in {given'} \cup Range(sent[n]), d \in Gap :
       /\ CallAt(d)
       /\ sent' = [sent EXCEPT ![n] = Append(@, u)]
       /\ LET q == Enqueue(m_queue[n], u)
              cal == Later(calendar, d)
          IN  IF machineState[n] = "RUN" THEN Transmit(n, q, cal)
              ELSE /\ m_queue' = [m_queue EXCEPT ![n] = q]
                   /\ calendar' = cal
                   /\ UNCHANGED machineState
  /\ UNCHANGED <<errors, offset, txTime, received>>

\* SpWDevice::Shutdown: what is on the calendar stays there.
Shutdown(n) ==
  /\ machineState[n] \in ShutdownIn
  /\ Enter(n, "DOWN")
  /\ UNCHANGED <<m_queue, calendar, calls, received>>

Step(n) ==
  \/ ErrorResetSpWState(n) \/ ErrorWaitSpWState(n) \/ ReadySpWState(n)
  \/ SendNull(n) \/ ReceiveNull(n) \/ SendFCT(n) \/ ReceiveFCT(n)
  \/ TransmitComplete(n) \/ TransmissionComplete(n) \/ HandlingArrivedComplete(n)
  \/ ReceiveIntact(n) \/ ReceiveCorrupt(n) \/ ApproachLinkDisconnection(n)

Next == \E n \in Node : Step(n) \/ Send(n) \/ Shutdown(n)

Spec == Init /\ [][Next]_vars

-----------------------------------------------------------------------------
(***************************************************************************)
(* Properties.                                                             *)
(***************************************************************************)

Handler == {"ErrorReset", "ErrorWait", "Ready", "SendNull", "ReceiveNull",
            "SendFCT", "ReceiveFCT", "TransmitComplete", "TransmissionComplete",
            "HandlingArrivedComplete", "Receive", "ApproachLinkDisconnection"}

\* Types, and the calendar in the order its events run.
TypeOK ==
  /\ machineState \in [Node -> MachineState]
  /\ m_queue \in [Node -> Seq(Uid)]
  /\ \A n \in Node : Len(m_queue[n]) <= QUEUE_SZ
  /\ calendar \in Seq([do : Handler, dev : Node, uid : Uid \cup {NoUid}, in : Nat,
                       handle : Handle \cup {"m_events", "none"}])
  /\ \A i, j \in DOMAIN calendar : i < j => calendar[i].in <= calendar[j].in
  /\ given \in 0 .. MAX_SEND
  /\ sent \in [Node -> Seq(Uid)]
  /\ errors \in 0 .. MAX_ERRORS
  /\ offset \in Offset
  /\ txTime \in Traffic
  /\ received \in [Node -> Seq(Uid)]

\* The events do of n that are on the calendar.
Pending(n, do) == {i \in DOMAIN calendar : calendar[i].do \in do /\ calendar[i].dev = n}

Up(n) == machineState[n] \in {"RUN", "BUSY"}
LinkUp == \A n \in Node : Up(n)

\* TransmitComplete finds its device in BUSY, as it asserts
\* (spw-device.cc:277).
CompletesInBusy ==
  \A n \in Node : Runs("TransmitComplete", n) => machineState[n] = "BUSY"

\* The simulator runs every event it has scheduled: weak fairness of
\* \E n \in Node : Step(n), with what enables it written out.
FairSpec == Spec /\ (\/ []<>~(calendar # <<>> /\ CompletesInBusy)
                    \/ []<><<\E n \in Node : Step(n)>>_vars)

\* A device is BUSY exactly while one transmission of its own is going to
\* complete: a reset cancels every completion, none is left behind and no
\* device stays BUSY for good.
BusyCompletes ==
  \A n \in Node :
    IF machineState[n] = "BUSY" THEN Cardinality(Pending(n, {"TransmitComplete"})) = 1
    ELSE Pending(n, {"TransmitComplete"}) = {}

\* A device in RUN has an empty queue: Send relies on it when it dequeues what
\* it has just enqueued, and no packet is left behind by CheckQueue.
NothingWaits == \A n \in Node : machineState[n] = "RUN" => m_queue[n] = <<>>

\* Start-up and recovery leave nothing behind: once a device is connected no
\* NULL or FCT of its own, no timeout and no state change is still to come.
EstablishedIsQuiet ==
  \A n \in Node : Up(n) =>
    Pending(n, {"SendNull", "SendFCT", "ErrorReset", "ErrorWait", "Ready"}) = {}

\* Devices that start out of step never connect, however often they try: a
\* failed attempt leaves them as far out of step, or by LATENCY.  And no device
\* takes itself for connected, for any length of time, in a start-up the other
\* fails, but for offsets at which a NULL and an FCT arrive together.
MeetsInStep == /\ LinkUp => InStep
               /\ (\E n \in Node : Up(n)) => InStep \/ HalfOpen

\* Devices that start in step connect, and connect again after every error,
\* unless a device is shut down.
Recovers == InStep => []<>(LinkUp \/ \E n \in Node : machineState[n] = "DOWN")

\* The packets of n on their way, the first to arrive first.
Carried(cal, n, do) ==
  LET at == {i \in DOMAIN cal : cal[i].dev = n /\ cal[i].do = do}
  IN  [k \in 1 .. Cardinality(at) |-> cal[Nth(at, k)].uid]
InTransit(n) == Carried(calendar, Peer(n), "Receive")
                  \o Carried(calendar, n, "HandlingArrivedComplete")
                  \o Carried(calendar, n, "TransmissionComplete")

\* u was given to n more than once.
Again(n, u) == \E j, k \in DOMAIN sent[n] : j # k /\ sent[n][j] = u /\ sent[n][k] = u

\* Once an error is noticed nothing that was being transmitted will arrive, in
\* neither direction (SpWChannel::NotifyError, "remove all packets from
\* channel"), but for a packet that was given to its device more than once: the
\* copies share a key of m_events, and the end of one takes the handle of the
\* next away.
ErrorEmptiesChannel ==
  [][errors' # errors =>
       \A n \in Node : \A i \in Pending(n, {"TransmissionComplete"})' :
         Again(n, calendar'[i].uid)]_vars

\* Nothing arrives that the other device was not given, and no packet arrives
\* more often than it was given: arrivals can be told apart by calls of Send.
ArrivedWasSent ==
  \A n \in Node :
    \E place \in Injection(DOMAIN received[Peer(n)], DOMAIN sent[n]) :
      \A k \in DOMAIN place : received[Peer(n)][k] = sent[n][place[k]]

\* What is cut off arrives all the same when its whole transmission would have
\* ended: a packet the device at the other end starts before it notices the
\* error, and a copy NotifyError misses.  That is before its device transmits
\* again unless the packet is long.
Short == \A u \in Uid : txTime[u] <= SPW_HALF_DELAY + SPW_DELAY

\* The link delivers what was sent, each time it is sent at most once, and is FIFO
\* if packets are short.
Abstract == INSTANCE LossyLink WITH
  wire <- [n \in Node |-> InTransit(n) \o m_queue[n]], arrived <- received,
  ordered <- Short
LinkSpec == Abstract!Spec
==============================================================================
