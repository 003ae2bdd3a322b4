------------------------------- MODULE OstNode -------------------------------
(***************************************************************************)
(* One node: its table of ports, a socket in each, and the calls of the    *)
(* application (ost/model/ost_node.cc); the segment send makes, and what   *)
(* an arrival finds.  What a socket does with its windows is the subject   *)
(* of OstSocket, what happens below the node that of SpwLink.              *)
(***************************************************************************)
EXTENDS OstHeader

CONSTANTS
  self_address,
  TimerId,            \* the arguments start is called with
  Address,            \* the addresses the application names
  DataSize,           \* the sizes it sends
  Memory,             \* what may stand in the octet of a header's flags
  MAX_PORTS           \* bound: calls of start, each of which adds a port

ASSUME NodeAssumption ==
  /\ self_address \in UINT8
  /\ TimerId \subseteq UINT8
  /\ Address \subseteq UINT8
  /\ DataSize \subseteq Nat
  /\ Memory \subseteq UINT8
  /\ MAX_PORTS \in Nat

VARIABLES
  ports,              \* OstNode::ports
  device,             \* the state of the device: DOWN, or whatever follows its reset
  alive,              \* FALSE: the program has used a spw_layer that was not set
  segment,            \* history: the last size send took, and the octets it put in the queue
  misstarted,         \* history: start has been called with a number whose peer is the node
  call                \* history: what the last call was, for Connections

vars == <<ports, device, alive, segment, misstarted, call>>

-----------------------------------------------------------------------------
\* Faulty: in the type of 1.
PeerAddress_int(id) == 1 - id

\* start takes the number of its timer for its own address; the difference is
\* a uint8_t.
PeerAddress(id) == (1 - id) % 256

\* OstSocket::mode has no initial value; spw_layer is set where mode is.
Port == [to_address : UINT8, aggregated : BOOLEAN, state : SocketState,
         mode : {"UNSET", "CONNECTIONLESS"}]

NewPort == [to_address |-> self_address, aggregated |-> FALSE, state |-> "CLOSED", mode |-> "UNSET"]

\* The loops over the table stop at the first port they look for.
First(S) == {i \in S : \A j \in S : i <= j}

\* Faulty: a port is looked for among the open ones.
Known_open(ps, a) == {i \in DOMAIN ps : ps[i].to_address = a /\ ps[i].state = "OPEN"}

\* What GetSocket and close_connection look for.
Known(ps, a) == {i \in DOMAIN ps : ps[i].to_address = a}

\* Faulty: the loop starts at 1; takes any port.
Free_but_first(ps) == {i \in DOMAIN ps : i # 1 /\ ~ps[i].aggregated}
Free_or_not(ps) == DOMAIN ps

\* What AggregateSocket looks for.
Free(ps) == {i \in DOMAIN ps : ~ps[i].aggregated}

\* A socket after OstSocket::open.
Opened(a, aggr) ==
  [to_address |-> a, aggregated |-> aggr, state |-> "OPEN", mode |-> "CONNECTIONLESS"]

\* The states OstSocket::close may leave p in: a mode that was never set may
\* read as any.
AfterClose(p) ==
  {s \in {"CLOSED", "CLOSE_WAIT"} : p.mode = "CONNECTIONLESS" => s = "CLOSED"}

\* open_connection with the table ps.  A port that is open stays as it is; a
\* new connection takes a port that is not aggregated, if there is one.
Connect(ps, a) ==
  IF a = self_address THEN call' = <<"refused">> /\ ports' = ps
  ELSE /\ call' = <<"open", a>>
       /\ \/ \E i \in First(Known(ps, a)) :
               ports' = IF ps[i].state = "OPEN" THEN ps
                        ELSE [ps EXCEPT ![i] = Opened(a, ps[i].aggregated)]
          \/ /\ Known(ps, a) = {}
             /\ \E i \in First(Free(ps)) :
                  ports' = [ps EXCEPT ![i] = Opened(a, TRUE)]
          \/ Known(ps, a) = {} /\ Free(ps) = {} /\ ports' = ps

-----------------------------------------------------------------------------
Init ==
  /\ ports = <<>>
  /\ device = "DOWN"
  /\ alive = TRUE
  /\ segment = <<>>
  /\ misstarted = FALSE
  /\ call = <<>>

\* The socket is in the table before the device can hand up a packet.
start(id) ==
  /\ Len(ports) < MAX_PORTS
  /\ device' = "ERROR_RESET"
  /\ misstarted' = (misstarted \/ PeerAddress(id) = self_address)
  /\ Connect(Append(ports, NewPort), PeerAddress(id))
  /\ UNCHANGED <<alive, segment>>

open_connection(a) ==
  /\ Connect(ports, a)
  /\ UNCHANGED <<device, alive, segment, misstarted>>

\* Faulty: without the test of the node's own address.
close_connection_own(a) ==
  /\ call' = IF a = self_address THEN <<"refused">> ELSE <<"close", a>>
  /\ \/ \E i \in First(Known(ports, a)) : \E s \in AfterClose(ports[i]) :
          ports' = [ports EXCEPT ![i].state = s]
     \/ Known(ports, a) = {} /\ UNCHANGED ports
  /\ UNCHANGED <<device, alive, segment, misstarted>>

close_connection(a) ==
  /\ IF a = self_address THEN call' = <<"refused">> /\ UNCHANGED ports
     ELSE /\ call' = <<"close", a>>
          /\ \/ \E i \in First(Known(ports, a)) : \E s \in AfterClose(ports[i]) :
                  ports' = [ports EXCEPT ![i].state = s]
             \/ Known(ports, a) = {} /\ UNCHANGED ports
  /\ UNCHANGED <<device, alive, segment, misstarted>>

\* Faulty: what does not fit in the header's 16 bits is taken too.
Accepted_any(size) == TRUE

\* OstSocket::send
Accepted(size) == size <= 1024 * 64

\* Only the first port is looked at, whichever it is connected to.
send_packet(a, size) ==
  /\ IF ports # <<>> /\ ports[1].to_address = a /\ ports[1].state = "OPEN" /\ Accepted(size)
     THEN /\ call' = <<"send", a>>
          /\ \E memory \in Memory :
               segment' = [size |-> size,
                           octets |-> Serialize(DataHeader(self_address, size, memory))]
     ELSE call' = <<"refused">> /\ UNCHANGED segment
  /\ UNCHANGED <<ports, device, alive, misstarted>>

\* The segments a node sends: those of send_to_physical.
Arriving(a) ==
  {AckHeader(a, 0)} \cup {DataHeader(a, size, memory) : size \in DataSize, memory \in Memory}

\* A segment arrives, NetworkLayerReceive and segment_arrival_event_socket_handler.
\* A mode that was never set may read as any; read as CONNECTIONLESS, an
\* acknowledgement falls outside the empty window and data is answered.
Arrive(h) ==
  /\ ports # <<>>
  /\ \/ /\ ports[1].mode = "CONNECTIONLESS" \/ is_ack(h)
        /\ UNCHANGED <<ports, alive>>
     \/ /\ ports[1].mode = "UNSET" /\ ~is_ack(h)
        /\ alive' = FALSE
        /\ UNCHANGED ports
     \/ /\ ports[1].mode = "UNSET"
        /\ \E expected \in BOOLEAN :
             ports' = [ports EXCEPT ![1].state = full_states_handler(@, h, expected)]
        /\ UNCHANGED alive
  /\ UNCHANGED <<device, segment, misstarted, call>>

shutdown ==
  /\ call' = <<"shutdown">>
  /\ LET closed == {i \in DOMAIN ports : /\ ports[i].to_address # self_address
                                         /\ ports[i].state # "CLOSED"}
     IN  \E s \in [closed -> {"CLOSED", "CLOSE_WAIT"}] :
           /\ \A i \in closed : s[i] \in AfterClose(ports[i])
           /\ ports' = [i \in DOMAIN ports |->
                          IF i \in closed THEN [ports[i] EXCEPT !.state = s[i]] ELSE ports[i]]
  /\ device' = "DOWN"
  /\ UNCHANGED <<alive, segment, misstarted>>

Step ==
  \/ \E id \in TimerId : start(id)
  \/ \E a \in Address : open_connection(a) \/ close_connection(a)
  \/ \E a \in Address, size \in DataSize : send_packet(a, size)
  \/ \E a \in Address : \E h \in Arriving(a) : Arrive(h)
  \/ shutdown

\* A program that has used a pointer that was not set has ended.
Next == alive /\ Step

Spec == Init /\ [][Next]_vars

-----------------------------------------------------------------------------
(***************************************************************************)
(* Properties.                                                             *)
(***************************************************************************)

TypeOK ==
  /\ ports \in Seq(Port) /\ Len(ports) <= MAX_PORTS
  /\ device \in {"DOWN", "ERROR_RESET"}
  /\ alive \in BOOLEAN /\ misstarted \in BOOLEAN
  /\ segment \in {<<>>} \cup [size : Nat, octets : Seq(UINT8)]

\* No socket enters a state of connection mode, which has no way out and no
\* implementation: no call of close reads a mode that was never set, and what
\* arrives at a socket whose mode was never set leaves it closed, however the
\* mode reads (OstSocket::close, full_states_handler, and the guards of
\* close_connection and shutdown).
Connectionless == \A i \in DOMAIN ports : ports[i].state \in {"CLOSED", "OPEN"}

\* NetworkLayerReceive takes ports[0] as it finds it.  From the moment the
\* device starts packets may arrive, even after a shutdown: the port is there
\* and has been opened, so that the arrival handler reads a mode that was set
\* and answers through a spw_layer that was set, unless start has been called
\* with the number that makes the node its own peer.
ArrivalFindsSocket ==
  /\ device # "DOWN" => ports # <<>>
  /\ ~alive \/ (ports # <<>> /\ ports[1].mode = "UNSET") => misstarted

\* Whatever the memory of a new header held, the segment in the queue is read
\* as data of this node by whoever takes its header off, at this node and at
\* the other; and under every number that add_packet_to_tx may give it
\* send_to_physical will transmit it, but for a size that is 0 in 16 bits: a
\* message of 65536 octets, which send takes, is never transmitted.
HeaderTells ==
  segment # <<>> =>
    LET h == Deserialize(segment.octets)
    IN  /\ is_dta(h) /\ ~is_ack(h) /\ h.source_addr = self_address
        /\ h.payload_length \in {0, segment.size}
        /\ \A s \in UINT8 :
             Transmittable(Numbered(segment.octets, s), s, self_address)
               <=> segment.size \notin {0, 65536}

\* An address that is opened again gets the socket it had: closing and
\* opening does not use up the table, and GetSocket, close_connection and
\* send_packet mean the same port by an address.
OneSocketEach ==
  \A i, j \in DOMAIN ports :
    ports[i].to_address = ports[j].to_address /\ ports[i].to_address # self_address => i = j

\* The table implements a set of connections: opening one address takes no open
\* port away from another, closing closes, and what send_packet takes has a
\* connection.
Abstract == INSTANCE Connections WITH
  Remote <- UINT8 \ {self_address},
  open <- {ports[i].to_address : i \in {j \in DOMAIN ports : ports[j].state = "OPEN"}}
ConnectionsSpec == Abstract!Spec
==============================================================================
