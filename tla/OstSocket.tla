------------------------------ MODULE OstSocket ------------------------------
(***************************************************************************)
(* Two OST nodes, each with the one connectionless socket OstNode::start   *)
(* gives it, over a SpaceWire link that is FIFO and may lose packets       *)
(* (ost/model/ost_socket.cc, ost_node.cc).                                 *)
(*                                                                         *)
(* The ns-3 scheduler is part of the behaviour: it runs every event that   *)
(* was on the calendar for an instant before the events ScheduleNow adds   *)
(* during that instant, and those in the order they were added.  now[n] is *)
(* that second queue; an action that stands for a calendar event (a call   *)
(* of the application, an arrival, a timer, the link) runs at n only while *)
(* no event of now[n] has started, draining[n].  Unless the setting is     *)
(* sameInstant no two calendar events of a node share an instant.          *)
(*                                                                         *)
(* The vectors behind the windows have WINDOW_SZ cells and are indexed by  *)
(* the raw sequence number.  A cell of tx_window or rx_window beyond them  *)
(* is undefined behaviour with two outcomes: it works like storage of its  *)
(* own, or the program halts (UndefinedAccess).  The bit vectors live in   *)
(* machine words that are wider than WINDOW_SZ: their cells work.          *)
(***************************************************************************)
EXTENDS OstWindow, TimerQueue

CONSTANTS
  Node,               \* the two ends of the link
  Setting,            \* what applications and link may do, see SettingType
  Size,               \* the message sizes the application uses
  TRANSMIT_FIFO,      \* capacity of transmit_fifo, 100 packets in the code
  MAX_TRANSIT,        \* bound: packets waiting or in flight when a timer expires
  MAX_NOW,            \* bound: pending ScheduleNow events per node
  NoPacket            \* a null Ptr<Packet>

\* The nodes whose application closes and reopens; the calls of send per node, a
\* bound; whether calendar events of a node may share an instant; whether a
\* packet may be overtaken by later ones on the link.
SettingType == [closer : SUBSET Node, offers : [Node -> Nat],
                sameInstant : BOOLEAN, overtaking : BOOLEAN]

ASSUME SocketAssumption ==
  /\ \E a, b \in Node : a # b /\ Node = {a, b}
  /\ Setting \subseteq SettingType
  /\ Size \subseteq Nat
  /\ {TRANSMIT_FIFO, MAX_UNACK_PACKETS, MAX_TRANSIT, MAX_NOW} \subseteq Nat \ {0}
  /\ NoPacket \notin [id : Nat, payload_len : Nat]

Peer(n) == CHOOSE m \in Node : m # n

\* A message is known by its place among the sends of its node; payload_len is
\* the 16-bit field of OstHeader.
UINT16_VALUES == 65536
Message == [id : Nat, payload_len : 0 .. UINT16_VALUES - 1]
Packet == [flag : {"DTA"}, seq_number : SeqN, msg : Message]
            \cup [flag : {"ACK"}, seq_number : SeqN]
Event == [event : {"PEEK_FROM_TRANSMIT_FIFO", "APPLICATION_PACKET_READY"}]
            \cup [event : {"PACKET_ARRIVED_FROM_NETWORK"}, seg : Packet]

PeekEvent == [event |-> "PEEK_FROM_TRANSMIT_FIFO"]
ReadyEvent == [event |-> "APPLICATION_PACKET_READY"]
ArrivalEvent(p) == [event |-> "PACKET_ARRIVED_FROM_NETWORK", seg |-> p]

VARIABLES
  setting,            \* the one of Setting this behaviour has
  alive,              \* the program has not halted
  state,              \* OstSocket::state, CLOSED or OPEN
  tx_window_bottom, tx_window_top, rx_window_bottom, rx_window_top,
  transmit_fifo,      \* messages accepted by send, not yet in the window
  tx_window,          \* the message stored under each sequence number
  acknowledged,
  rx_window,
  received,
  timers,             \* TimerFifo: sequence numbers in the order they expire
  now,                \* pending ScheduleNow events
  draining,           \* the ScheduleNow events of this instant have started
  later,              \* pending peeks scheduled 10 microseconds ahead
  machineState,       \* SpWDevice: RUN, BUSY, or RESET for all the others
  wire,               \* packets n has handed to its device, oldest first
  offered,            \* history: sends that were not refused
  sent,               \* history: the ids that entered transmit_fifo
  delivered,          \* history: the ids given to send_to_application
  cuts                \* history: at each close, the first id without a number

tx_vars == <<tx_window_bottom, tx_window_top, tx_window, acknowledged>>
rx_vars == <<rx_window_bottom, rx_window_top, rx_window, received>>
link_vars == <<machineState, wire>>
history == <<offered, sent, delivered, cuts>>
vars == <<setting, alive, state, tx_vars, rx_vars, transmit_fifo, timers, now, draining,
          later, link_vars, history>>

Init ==
  /\ setting \in Setting
  /\ alive = TRUE
  /\ state = [n \in Node |-> "OPEN"]
  /\ tx_window_bottom = [n \in Node |-> 0]
  /\ tx_window_top = [n \in Node |-> 0]
  /\ rx_window_bottom = [n \in Node |-> 0]
  /\ rx_window_top = [n \in Node |-> WINDOW_SZ]
  /\ transmit_fifo = [n \in Node |-> <<>>]
  /\ tx_window = [n \in Node |-> [s \in SeqN |-> NoPacket]]
  /\ acknowledged = [n \in Node |-> [s \in SeqN |-> FALSE]]
  /\ rx_window = [n \in Node |-> [s \in SeqN |-> NoPacket]]
  /\ received = [n \in Node |-> [s \in SeqN |-> FALSE]]
  /\ timers = [n \in Node |-> <<>>]
  /\ now = [n \in Node |-> <<>>]
  /\ draining = [n \in Node |-> FALSE]
  /\ later = [n \in Node |-> 0]
  /\ machineState = [n \in Node |-> "RESET"]
  /\ wire = [n \in Node |-> <<>>]
  /\ offered = [n \in Node |-> 0]
  /\ sent = [n \in Node |-> <<>>]
  /\ delivered = [n \in Node |-> <<>>]
  /\ cuts = [n \in Node |-> {}]

-----------------------------------------------------------------------------
(***************************************************************************)
(* The calls the handlers are made of.                                     *)
(***************************************************************************)

\* A calendar event of node n may run.
MayRun(n) == alive /\ ~draining[n] /\ (setting.sameInstant \/ now[n] = <<>>)

\* A calendar event of node n that schedules another event may run.
MaySchedule(n) == MayRun(n) /\ Len(now[n]) < MAX_NOW

\* The first pending ScheduleNow event of n is of kind e.
Starts(n, e) == alive /\ now[n] # <<>> /\ Head(now[n]).event = e

\* n has run the first of its ScheduleNow events.
Finish(n) == draining' = [draining EXCEPT ![n] = now'[n] # <<>>]

\* OstSocket::send_spw and SpWDevice::Send: a device in RUN starts to transmit,
\* another one keeps the packet.  That a full device queue drops it is left to
\* Lose.
send_spw(n, p) ==
  /\ wire' = [wire EXCEPT ![n] = Append(@, p)]
  /\ machineState' = [machineState EXCEPT ![n] = IF @ = "RUN" THEN "BUSY" ELSE @]

\* OstSocket::send_to_physical(DTA, s), q being the timer queue.
send_to_physical(n, s, q) ==
  LET m == tx_window[n][s]
  IN  /\ m # NoPacket
      /\ \/ /\ m.payload_len = 0
            /\ timers' = [timers EXCEPT ![n] = q]
            /\ UNCHANGED link_vars
         \/ /\ m.payload_len # 0
            /\ timers' = [timers EXCEPT ![n] = add_new_timer(q, s)]
            /\ send_spw(n, [flag |-> "DTA", seq_number |-> s, msg |-> m])

CanPeek(n, bottom) == /\ transmit_fifo[n] # <<>>
                      /\ tx_sliding_window_have_space(bottom, tx_window_top[n])

\* OstSocket::peek_from_transmit_fifo with add_packet_to_tx, in a handler that
\* leaves the bottom of the window, the pending events and the delayed peeks
\* of n at bottom, events and delayed.
peek_from_transmit_fifo(n, bottom, events, delayed) ==
  LET rest == Tail(transmit_fifo[n])
  IN  \/ /\ CanPeek(n, bottom)
         /\ tx_window' =
              [tx_window EXCEPT ![n][tx_window_top[n]] = Head(transmit_fifo[n])]
         /\ tx_window_top' = [tx_window_top EXCEPT ![n] = Plus(@, 1)]
         /\ now' = [now EXCEPT ![n] = Append(events, ReadyEvent)]
         /\ transmit_fifo' = [transmit_fifo EXCEPT ![n] = rest]
         /\ later' = [later EXCEPT ![n] = IF rest = <<>> THEN delayed
                                          ELSE delayed + 1]
      \/ /\ ~CanPeek(n, bottom)
         /\ now' = [now EXCEPT ![n] = events]
         /\ later' = [later EXCEPT ![n] = delayed]
         /\ UNCHANGED <<tx_window, tx_window_top, transmit_fifo>>

\* Faulty: the top of the window does not stop the loop.
AckSlides_past_top(n, s) ==
  LET b == tx_window_bottom[n]
  IN  Slides([j \in 0 .. MAX_SEQ_N - 1 |->
               Plus(b, j) = s \/ acknowledged[n][Plus(b, j)]])

\* Faulty: an acknowledgement counts for everything below it.
AckSlides_cumulative(n, s) == Dist(tx_window_bottom[n], Plus(s, 1))

\* How far the loop of mark_packet_ack moves the bottom once s is acknowledged.
AckSlides(n, s) ==
  LET b == tx_window_bottom[n]
  IN  Slides([j \in 0 .. MAX_SEQ_N - 1 |->
               /\ Plus(b, j) = s \/ acknowledged[n][Plus(b, j)]
               /\ Plus(b, j + 1) <= tx_window_top[n]])

BottomAfterAck(n, s) == Plus(tx_window_bottom[n], AckSlides(n, s))

FreshAck(n, s) == /\ in_window(tx_window_bottom[n], tx_window_top[n], s)
                  /\ ~acknowledged[n][s]

\* OstSocket::mark_packet_ack.
mark_packet_ack(n, s) ==
  /\ AckSlides(n, s) < MAX_SEQ_N
  /\ acknowledged' = [acknowledged EXCEPT ![n][s] = TRUE]
  /\ timers' = [timers EXCEPT ![n] = cancel_timer(@, s)]
  /\ tx_window_bottom' = [tx_window_bottom EXCEPT ![n] = BottomAfterAck(n, s)]
  /\ peek_from_transmit_fifo(n, BottomAfterAck(n, s), Tail(now[n]), later[n])

\* Faulty: only the next packet in order is kept, all are acknowledged.
FreshData_next_only(n, s) == s = rx_window_bottom[n] /\ ~received[n][s]

FreshData(n, s) == /\ in_window(rx_window_bottom[n], rx_window_top[n], s)
                   /\ ~received[n][s]

\* Faulty: nothing is cleared for the next round.
Cleared_none(n, j) == {}

\* The numbers the loop of mark_packet_receipt clears in its first j turns.
Cleared(n, j) == {Plus(rx_window_top[n], i) : i \in 0 .. j - 1}

\* How far that loop moves the window once s is received.
ReceiptSlides(n, s) ==
  LET b == rx_window_bottom[n]
  IN  Slides([j \in 0 .. MAX_SEQ_N - 1 |->
               /\ Plus(b, j) = s \/ received[n][Plus(b, j)]
               /\ Plus(b, j) \notin Cleared(n, j)])

\* Faulty: the loop hands over the packet that came, not the one at the bottom.
HandedOver_newest(n, s, m, k) == [j \in 1 .. k |-> m.id]

\* What k turns of the loop give to send_to_application once m is stored at s.
HandedOver(n, s, m, k) ==
  [j \in 1 .. k |-> LET r == Plus(rx_window_bottom[n], j - 1)
                    IN  IF r = s THEN m.id ELSE rx_window[n][r].id]

\* Faulty: the top moves on without wrapping.
TopAfterReceipt_unwrapped(n, k) == rx_window_top[n] + k

TopAfterReceipt(n, k) == Plus(rx_window_top[n], k)

\* OstSocket::mark_packet_receipt.
mark_packet_receipt(n, s, m) ==
  LET k == ReceiptSlides(n, s)
  IN  /\ rx_window' = [rx_window EXCEPT ![n][s] = m]
      /\ received' = [received EXCEPT ![n] =
           [r \in SeqN |-> (r = s \/ @[r]) /\ r \notin Cleared(n, k)]]
      /\ rx_window_bottom' = [rx_window_bottom EXCEPT ![n] = Plus(@, k)]
      /\ rx_window_top' = [rx_window_top EXCEPT ![n] = TopAfterReceipt(n, k)]
      /\ delivered' = [delivered EXCEPT ![n] = @ \o HandedOver(n, s, m, k)]

-----------------------------------------------------------------------------
(***************************************************************************)
(* Calls of the application.                                               *)
(***************************************************************************)

\* OstNode::send_packet and OstSocket::send.  A full transmit_fifo drops the
\* message and the caller is told nothing.
Send(n, size) ==
  LET id == offered[n] + 1
      m == [id |-> id, payload_len |-> size % UINT16_VALUES]
  IN  /\ MaySchedule(n) /\ offered[n] < setting.offers[n]
      /\ state[n] = "OPEN"
      /\ size <= 1024 * 64
      /\ offered' = [offered EXCEPT ![n] = id]
      /\ IF Len(transmit_fifo[n]) < TRANSMIT_FIFO
         THEN /\ transmit_fifo' = [transmit_fifo EXCEPT ![n] = Append(@, m)]
              /\ sent' = [sent EXCEPT ![n] = Append(@, id)]
         ELSE UNCHANGED <<transmit_fifo, sent>>
      /\ now' = IF machineState[n] = "RUN"
                THEN [now EXCEPT ![n] = Append(@, PeekEvent)] ELSE now
      /\ UNCHANGED <<setting, alive, state, tx_vars, rx_vars, timers, draining, later,
                     link_vars, delivered, cuts>>

\* The id of the next message of n that gets a sequence number.
NextNumbered(n) ==
  IF transmit_fifo[n] = <<>> THEN offered[n] + 1 ELSE Head(transmit_fifo[n]).id

\* Faulty: the receive window stays.
Close_tx_only(n) ==
  /\ MayRun(n) /\ n \in setting.closer
  /\ state' = [state EXCEPT ![n] = "CLOSED"]
  /\ tx_window_bottom' = [tx_window_bottom EXCEPT ![n] = 0]
  /\ tx_window_top' = [tx_window_top EXCEPT ![n] = 0]
  /\ cuts' = [cuts EXCEPT ![n] = @ \cup {NextNumbered(n)}]
  /\ UNCHANGED <<setting, alive, tx_window, acknowledged, rx_vars, transmit_fifo, timers,
                 now, draining, later, link_vars, offered, sent, delivered>>

\* OstNode::close_connection and OstSocket::close.
Close(n) ==
  /\ MayRun(n) /\ n \in setting.closer
  /\ state' = [state EXCEPT ![n] = "CLOSED"]
  /\ tx_window_bottom' = [tx_window_bottom EXCEPT ![n] = 0]
  /\ tx_window_top' = [tx_window_top EXCEPT ![n] = 0]
  /\ rx_window_bottom' = [rx_window_bottom EXCEPT ![n] = 0]
  /\ rx_window_top' = [rx_window_top EXCEPT ![n] = 0]
  /\ cuts' = [cuts EXCEPT ![n] = @ \cup {NextNumbered(n)}]
  /\ UNCHANGED <<setting, alive, tx_window, acknowledged, rx_window, received,
                 transmit_fifo, timers, now, draining, later, link_vars, offered,
                 sent, delivered>>

\* OstNode::open_connection on an existing socket and OstSocket::open.
Open(n) ==
  /\ MayRun(n) /\ state[n] # "OPEN"
  /\ state' = [state EXCEPT ![n] = "OPEN"]
  /\ UNCHANGED <<setting, alive, tx_vars, rx_vars, transmit_fifo, timers, now, draining,
                 later, link_vars, history>>

-----------------------------------------------------------------------------
(***************************************************************************)
(* ScheduleNow events.                                                     *)
(***************************************************************************)

Peek(n) ==
  /\ Starts(n, "PEEK_FROM_TRANSMIT_FIFO")
  /\ peek_from_transmit_fifo(n, tx_window_bottom[n], Tail(now[n]), later[n])
  /\ Finish(n)
  /\ UNCHANGED <<setting, alive, state, tx_window_bottom, acknowledged, rx_vars, timers,
                 link_vars, history>>

\* OstSocket::socket_event_handler(APPLICATION_PACKET_READY): it transmits the
\* number below the top of the window as it is when the event runs.
ApplicationPacketReady(n) ==
  /\ Starts(n, "APPLICATION_PACKET_READY")
  /\ send_to_physical(n, Plus(tx_window_top[n], MAX_SEQ_N - 1), timers[n])
  /\ now' = [now EXCEPT ![n] = Tail(@)]
  /\ Finish(n)
  /\ UNCHANGED <<setting, alive, state, tx_vars, rx_vars, transmit_fifo, later, history>>

\* OstSocket::segment_arrival_event_socket_handler on an acknowledgement; the
\* state of the socket is not looked at.
AckArrived(n) ==
  /\ Starts(n, "PACKET_ARRIVED_FROM_NETWORK")
  /\ LET seg == Head(now[n]).seg
         s == seg.seq_number
     IN  /\ seg.flag = "ACK"
         /\ \/ FreshAck(n, s) /\ mark_packet_ack(n, s)
            \/ /\ ~FreshAck(n, s)
               /\ now' = [now EXCEPT ![n] = Tail(@)]
               /\ UNCHANGED <<tx_vars, transmit_fifo, timers, later>>
  /\ Finish(n)
  /\ UNCHANGED <<setting, alive, state, rx_vars, link_vars, history>>

\* The same handler on data: whatever the number, it is acknowledged.
DataArrived(n) ==
  /\ Starts(n, "PACKET_ARRIVED_FROM_NETWORK")
  /\ LET seg == Head(now[n]).seg
         s == seg.seq_number
     IN  /\ seg.flag = "DTA"
         /\ \/ FreshData(n, s) /\ mark_packet_receipt(n, s, seg.msg)
            \/ ~FreshData(n, s) /\ UNCHANGED <<rx_vars, delivered>>
         /\ send_spw(n, [flag |-> "ACK", seq_number |-> s])
  /\ now' = [now EXCEPT ![n] = Tail(@)]
  /\ Finish(n)
  /\ UNCHANGED <<setting, alive, state, tx_vars, transmit_fifo, timers, later, offered,
                 sent, cuts>>

-----------------------------------------------------------------------------
(***************************************************************************)
(* Calendar events of the socket, the link and undefined behaviour.        *)
(***************************************************************************)

\* The peek peek_from_transmit_fifo schedules 10 microseconds ahead.
LaterPeek(n) ==
  /\ MaySchedule(n) /\ later[n] > 0
  /\ peek_from_transmit_fifo(n, tx_window_bottom[n], now[n], later[n] - 1)
  /\ UNCHANGED <<setting, alive, state, tx_window_bottom, acknowledged, rx_vars, timers,
                 draining, link_vars, history>>

\* TimerFifo::timer_interrupt_handler on the oldest timer, timer_handler and
\* socket_event_handler(RETRANSMISSION_INTERRUPT); a closed socket too.
TimerInterrupt(n) ==
  /\ MayRun(n) /\ timers[n] # <<>>
  /\ Len(wire[n]) + Len(wire[Peer(n)]) < MAX_TRANSIT
  /\ send_to_physical(n, Head(timers[n]), Tail(timers[n]))
  /\ UNCHANGED <<setting, alive, state, tx_vars, rx_vars, transmit_fifo, now, draining,
                 later, history>>

\* SpWDevice turns RUN, because the link is up again or the last packet of its
\* queue is transmitted, and calls device_ready_cb: OstNode::SpwReadyHandler.
\* When the link is up again it goes on with a packet that waited.
SpwReady(n) ==
  /\ MaySchedule(n) /\ machineState[n] # "RUN"
  /\ \/ machineState' = [machineState EXCEPT ![n] = "RUN"]
     \/ /\ machineState[n] = "RESET" /\ wire[n] # <<>>
        /\ machineState' = [machineState EXCEPT ![n] = "BUSY"]
  /\ now' = [now EXCEPT ![n] = Append(@, PeekEvent)]
  /\ UNCHANGED <<setting, alive, state, tx_vars, rx_vars, transmit_fifo, timers, draining,
                 later, wire, history>>

\* SpWDevice::Receive hands a packet of n up: OstNode::NetworkLayerReceive of
\* its peer.  A long packet whose transmission a reset cut off arrives when it
\* would have ended, and others may overtake it.
Deliver(n, i) ==
  LET p == Peer(n)
  IN  /\ MaySchedule(p) /\ i <= Len(wire[n])
      /\ i = 1 \/ setting.overtaking
      /\ wire' = [wire EXCEPT ![n] = RemoveAt(@, i)]
      /\ now' = [now EXCEPT ![p] = Append(@, ArrivalEvent(wire[n][i]))]
      /\ UNCHANGED <<setting, alive, state, tx_vars, rx_vars, transmit_fifo, timers,
                     draining, later, machineState, history>>

\* A packet of n arrives corrupt, and both ends reset the link; another that was
\* being transmitted then, behind those that still arrive, is lost with it.
Lose(n, i) ==
  /\ \A m \in Node : MayRun(m)
  /\ i <= Len(wire[n])
  /\ wire' = [wire EXCEPT ![n] = RemoveAt(@, i)]
  /\ machineState' = [m \in Node |-> "RESET"]
  /\ UNCHANGED <<setting, alive, state, tx_vars, rx_vars, transmit_fifo, timers, now,
                 draining, later, history>>

\* The cell of tx_window a peek of n would fill.
PeekCell(n, bottom) == {s \in SeqN : CanPeek(n, bottom) /\ s = tx_window_top[n]}

\* The cells of tx_window and rx_window an event that can run next at n uses.
NextCells(n) ==
  LET s == Head(now[n]).seg.seq_number
  IN  UNION {
        IF Starts(n, "PEEK_FROM_TRANSMIT_FIFO")
        THEN PeekCell(n, tx_window_bottom[n]) ELSE {},
        IF Starts(n, "APPLICATION_PACKET_READY")
        THEN {Plus(tx_window_top[n], MAX_SEQ_N - 1)} ELSE {},
        IF Starts(n, "PACKET_ARRIVED_FROM_NETWORK")
        THEN CASE Head(now[n]).seg.flag = "ACK" /\ FreshAck(n, s)
                    -> PeekCell(n, BottomAfterAck(n, s))
               [] Head(now[n]).seg.flag = "DTA" /\ FreshData(n, s) -> {s}
               [] OTHER -> {}
        ELSE {},
        IF MaySchedule(n) /\ later[n] > 0
        THEN PeekCell(n, tx_window_bottom[n]) ELSE {},
        IF MayRun(n) /\ timers[n] # <<>> THEN {Head(timers[n])} ELSE {}}

\* The other outcome of using a cell beyond the vectors.
UndefinedAccess(n) ==
  /\ alive
  /\ \E s \in NextCells(n) : s >= WINDOW_SZ
  /\ alive' = FALSE
  /\ UNCHANGED <<setting, state, tx_vars, rx_vars, transmit_fifo, timers, now, draining,
                 later, link_vars, history>>

Next == \E n \in Node :
  \/ \E size \in Size : Send(n, size)
  \/ Close(n)
  \/ Open(n)
  \/ Peek(n)
  \/ ApplicationPacketReady(n)
  \/ AckArrived(n)
  \/ DataArrived(n)
  \/ LaterPeek(n)
  \/ TimerInterrupt(n)
  \/ SpwReady(n)
  \/ \E i \in 1 .. Len(wire[n]) : Deliver(n, i) \/ Lose(n, i)
  \/ UndefinedAccess(n)

Spec == Init /\ [][Next]_vars

-----------------------------------------------------------------------------
(***************************************************************************)
(* Fairness.  The simulator runs every event it has scheduled, so pending  *)
(* events, delayed peeks and timers get their turn.  A link that was reset *)
(* comes up again and moves what waits for it.  The error model corrupts   *)
(* packets independently: one sent over and over is not lost every time.   *)
(***************************************************************************)

RunNow(n) == Peek(n) \/ ApplicationPacketReady(n) \/ AckArrived(n) \/ DataArrived(n)

\* The lowest number of the window that is sent again and again, or the bottom:
\* not acknowledged, and its message not empty.
Oldest(n) ==
  LET b == tx_window_bottom[n]
      open == {k \in 0 .. Dist(b, tx_window_top[n]) - 1 :
                 /\ ~acknowledged[n][Plus(b, k)]
                 /\ tx_window[n][Plus(b, k)].payload_len # 0}
  IN  IF open = {} THEN b ELSE Plus(b, CHOOSE k \in open : \A j \in open : k <= j)

\* A packet of m about the oldest message n has outstanding arrives: the message
\* itself or its acknowledgement.
Arrives(n, m) ==
  /\ wire[m] # <<>>
  /\ Head(wire[m]).flag = IF m = n THEN "DTA" ELSE "ACK"
  /\ Head(wire[m]).seq_number = Oldest(n)
  /\ Deliver(m, 1)

\* What it takes for the messages of n to get through.
SenderFairness(n) ==
  /\ \A m \in Node : /\ WF_vars(RunNow(m))
                      /\ WF_vars(Deliver(m, 1) \/ Lose(m, 1))
                      /\ SF_vars(Arrives(n, m))
  /\ WF_vars(LaterPeek(n))
  /\ SF_vars(SpwReady(n))
  /\ WF_vars(TimerInterrupt(n))

-----------------------------------------------------------------------------
(***************************************************************************)
(* What the protocol promises.                                             *)
(***************************************************************************)

TypeOK ==
  /\ setting \in Setting
  /\ alive \in BOOLEAN
  /\ state \in [Node -> {"CLOSED", "OPEN"}]
  /\ tx_window_bottom \in [Node -> SeqN]
  /\ tx_window_top \in [Node -> SeqN]
  /\ rx_window_bottom \in [Node -> SeqN]
  /\ rx_window_top \in [Node -> SeqN]
  /\ transmit_fifo \in [Node -> Seq(Message)]
  /\ tx_window \in [Node -> [SeqN -> Message \cup {NoPacket}]]
  /\ acknowledged \in [Node -> [SeqN -> BOOLEAN]]
  /\ rx_window \in [Node -> [SeqN -> Message \cup {NoPacket}]]
  /\ received \in [Node -> [SeqN -> BOOLEAN]]
  /\ timers \in [Node -> Seq(SeqN)]
  /\ now \in [Node -> Seq(Event)]
  /\ draining \in [Node -> BOOLEAN]
  /\ later \in [Node -> Nat]
  /\ machineState \in [Node -> {"RUN", "BUSY", "RESET"}]
  /\ wire \in [Node -> Seq(Packet)]
  /\ offered \in [Node -> Nat]
  /\ sent \in [Node -> Seq(Nat)]
  /\ delivered \in [Node -> Seq(Nat)]
  /\ cuts \in [Node -> SUBSET Nat]

\* What counts as received is there to be handed over.
ReceivedIsStored ==
  \A n \in Node : \A s \in SeqN : received[n][s] => rx_window[n][s] # NoPacket

\* Messages of n that have been given a sequence number.
Taken(n) == Len(sent[n]) - Len(transmit_fifo[n])

\* How many of them are still in the window.
Outstanding(n) == Dist(tx_window_bottom[n], tx_window_top[n])

\* The application of a node is given the messages its peer accepted, each
\* once, in the order they were accepted, whatever is lost or retransmitted and
\* whenever it closes and reopens, unless the peer does (send,
\* mark_packet_receipt).
InOrder == \A n \in Node : cuts[n] = {} => IsPrefix(delivered[Peer(n)], sent[n])

\* A sender that closes and reopens numbers its messages from 0 again while
\* packets and timers of the old numbers are about.  Still nothing is handed
\* over twice or made up, and messages numbered between the same two closes keep
\* their order (close, mark_packet_receipt), as long as numbers do not wrap.
OnceAcrossReopening ==
  \A n \in Node : LET d == delivered[Peer(n)]
                   IN  /\ ToSet(d) \subseteq ToSet(sent[n])
                       /\ \A i, j \in DOMAIN d : i < j =>
                            \/ d[i] < d[j]
                            \/ d[j] < d[i] /\ \E c \in cuts[n] : d[j] < c /\ c <= d[i]

\* The two queues of the applications behave as OstTransfer says: in order,
\* each message once, none invented, whatever is lost, retransmitted or arrives
\* out of order (send, mark_packet_receipt).
Transfer == INSTANCE OstTransfer
              WITH Id <- UNION {UNION {1 .. e.offers[n] : n \in Node} : e \in Setting}
TransferSpec == Transfer!Spec

\* The receiver is never ahead of what the sender numbered, and the sender
\* never lets a message leave its window before the receiver's application has
\* it (the loops of mark_packet_ack and mark_packet_receipt).
ReleasedIsDelivered ==
  \A n \in Node : /\ Taken(n) - Outstanding(n) <= Len(delivered[Peer(n)])
                   /\ Len(delivered[Peer(n)]) <= Taken(n)

\* A message of the window that counts as acknowledged has reached the peer: it
\* waits in the peer's window or was delivered.
AckedIsReceived ==
  \A n \in Node : \A s \in SeqN :
    LET m == tx_window[n][s]
        p == Peer(n)
    IN  in_window(tx_window_bottom[n], tx_window_top[n], s) /\ acknowledged[n][s]
          => \/ m.id \in ToSet(delivered[p])
             \/ received[p][s] /\ rx_window[p][s] = m

\* The first transmission of s is still a pending event of n.
Unsent(n, s) == /\ ReadyEvent \in ToSet(now[n])
                /\ s = Plus(tx_window_top[n], MAX_SEQ_N - 1)

\* A retransmission timer runs for exactly the messages of the window that were
\* transmitted and not acknowledged, one for each: none is forgotten, and none
\* goes on for a message that is acknowledged (send_to_physical, cancel_timer).
TimerDiscipline ==
  \A n \in Node : \A s \in SeqN :
    Cardinality({i \in 1 .. Len(timers[n]) : timers[n][i] = s}) =
      IF /\ in_window(tx_window_bottom[n], tx_window_top[n], s)
         /\ ~acknowledged[n][s]
         /\ tx_window[n][s].payload_len # 0
         /\ ~Unsent(n, s)
      THEN 1 ELSE 0

\* The loop of mark_packet_ack ends: it never finds every number of the circle
\* acknowledged and below a top it cannot reach (ost_socket.cc:254-258).
AckLoopEnds ==
  \A n \in Node : \A s \in SeqN : FreshAck(n, s) => AckSlides(n, s) < MAX_SEQ_N

\* No window holds more than WINDOW_SZ numbers, wherever on the circle it lies:
\* what tx_sliding_window_have_space grants is there, and the loops move bottom
\* and top together (ost_socket.cc:158, 254-258, 268-283, 376-387).
WindowsFit == \A n \in Node :
  /\ Dist(tx_window_bottom[n], tx_window_top[n]) <= WINDOW_SZ
  /\ Dist(rx_window_bottom[n], rx_window_top[n]) <= WINDOW_SZ

\* Once its socket is closed the application of a node is handed nothing more,
\* packets already on their way included (close, in_rx_window).
ClosedIsSilent ==
  [][\A n \in Node : state[n] = "CLOSED" => delivered'[n] = delivered[n]]_vars

\* The sequence numbers in use stay inside the vectors that are indexed by them
\* (ost_socket.h:28-29, the constructor at ost_socket.cc:46-49).
StaysInStorage == alive

\* The ids of empty messages n holds: of no byte, or of 65536.
Empty(n) ==
  LET held == ToSet(transmit_fifo[n]) \cup {tx_window[n][s] : s \in SeqN}
  IN  {m.id : m \in {h \in held : h # NoPacket /\ h.payload_len = 0}}

\* Every message send took is delivered in the end, again and again nothing is
\* left undelivered (send, peek_from_transmit_fifo, timer_handler), except from
\* an empty message on: send takes it, send_to_physical does not transmit it, and
\* what comes after it has to wait for it.
AllDelivered ==
  []<>(~alive \/ \A n \in Node : \A id \in ToSet(sent[n]) :
         id \in ToSet(delivered[Peer(n)]) \/ \E e \in Empty(n) : e <= id)

\* Retransmission comes to an end: when the application sends no more, the last
\* timer is cancelled and none is set again.
RetransmissionEnds ==
  <>[](~alive \/ \A n \in Node : timers[n] = <<>>)
==============================================================================
