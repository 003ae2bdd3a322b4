--------------------------- MODULE OstNode_proofs ---------------------------
(***************************************************************************)
(* Theorems about OstNode and the header its sockets put before their      *)
(* data, for every table size, every own address, every sequence of calls  *)
(* and every value of a field.                                             *)
(***************************************************************************)
EXTENDS OstNode, OstHeader, TLAPS

-----------------------------------------------------------------------------
(***************************************************************************)
(* The header, for every value of every field.                             *)
(***************************************************************************)

\* The two octets of a length give it back.
LEMMA Length16 ==
  ASSUME NEW v \in UINT16
  PROVE  Low(v) \in UINT8 /\ High(v) \in UINT8 /\ Value16(Low(v), High(v)) = v
<1>1. v \in Int /\ 0 <= v /\ v <= 65535
  BY DEF UINT16
<1>2. /\ v % 256 \in Int /\ v \div 256 \in Int
      /\ 0 <= v % 256 /\ v % 256 <= 255
      /\ v = 256 * (v \div 256) + (v % 256)
  BY <1>1
<1>3. 0 <= v \div 256 /\ v \div 256 <= 255
  BY <1>1, <1>2
<1> QED
  BY <1>1, <1>2, <1>3 DEF Low, High, Value16, UINT8

\* What one node writes the other reads: Deserialize undoes Serialize, for every
\* header (OstHeader::Serialize and Deserialize).
THEOREM RoundTrip ==
  ASSUME NEW h \in Header
  PROVE  Serialize(h) \in Seq(UINT8) /\ Deserialize(Serialize(h)) = h
<1>1. /\ h.flags \in UINT8 /\ h.source_addr \in UINT8 /\ h.seq_number \in UINT8
      /\ h.payload_length \in UINT16
      /\ h = [flags |-> h.flags, source_addr |-> h.source_addr,
              seq_number |-> h.seq_number, payload_length |-> h.payload_length]
  BY DEF Header
<1>2. /\ Low(h.payload_length) \in UINT8 /\ High(h.payload_length) \in UINT8
      /\ Value16(Low(h.payload_length), High(h.payload_length)) = h.payload_length
  BY <1>1, Length16
<1>3. Serialize(h) \in Seq(UINT8)
  BY <1>1, <1>2 DEF Serialize
<1>4. Deserialize(Serialize(h)) = h
  BY <1>1, <1>2 DEF Serialize, Deserialize
<1> QED
  BY <1>3, <1>4

\* Clearing the three flags leaves an octet that has none of them.
LEMMA ClearedFlags ==
  ASSUME NEW f \in UINT8
  PROVE  /\ f - (f % 8) \in UINT8
         /\ (f - (f % 8)) % 8 = 0
         /\ (f - (f % 8)) % 2 = 0
BY DEF UINT8

\* What send puts in front of its data is a data header of this node with the
\* number 0, whatever the memory held.
LEMMA DataReads ==
  ASSUME NEW addr \in UINT8, NEW size \in Nat, NEW memory \in UINT8
  PROVE  LET h == DataHeader(addr, size, memory)
         IN  /\ h \in Header /\ is_dta(h) /\ ~is_ack(h)
             /\ h.source_addr = addr /\ h.payload_length = size % 65536
<1>1. size % 65536 \in UINT16
  <2>1. PICK m \in Nat \ {0} : m = 65536
    OBVIOUS
  <2>2. size % m \in 0 .. m - 1
    OBVIOUS
  <2>3. 0 .. m - 1 = UINT16
    BY <2>1 DEF UINT16
  <2>4. size % m \in UINT16
    BY <2>2, <2>3
  <2> QED
    BY <2>1, <2>4
<1>2. /\ memory - (memory % 8) \in UINT8
      /\ (memory - (memory % 8)) % 8 = 0
      /\ (memory - (memory % 8)) % 2 = 0
  BY ClearedFlags
<1>3. DataHeader(addr, size, memory) =
        [flags |-> memory - (memory % 8), source_addr |-> addr, seq_number |-> 0,
         payload_length |-> size % 65536]
  BY DEF DataHeader, set_dta
<1>4. 0 \in UINT8
  BY DEF UINT8
<1> QED
  BY <1>1, <1>2, <1>3, <1>4 DEF Header, is_dta, is_ack

\* An acknowledgement is never taken for data, nor data for an acknowledgement:
\* the first thing the arrival handler decides (OstSocket::send,
\* send_to_physical, segment_arrival_event_socket_handler).
THEOREM KindsApart ==
  ASSUME NEW addr \in UINT8, NEW size \in Nat, NEW memory \in UINT8, NEW s \in UINT8
  PROVE  /\ is_ack(Deserialize(Serialize(AckHeader(addr, s))))
         /\ Deserialize(Serialize(AckHeader(addr, s))).seq_number = s
         /\ ~is_ack(Deserialize(Numbered(Serialize(DataHeader(addr, size, memory)), s)))
         /\ Deserialize(Numbered(Serialize(DataHeader(addr, size, memory)), s)).seq_number = s
<1> DEFINE a == AckHeader(addr, s)
           d == DataHeader(addr, size, memory)
           n == [d EXCEPT !.seq_number = s]
<1>1. a = [flags |-> 1, source_addr |-> addr, seq_number |-> s, payload_length |-> 0]
  BY DEF AckHeader, set_ack
<1>2. a \in Header /\ is_ack(a) /\ a.seq_number = s
  BY <1>1 DEF Header, UINT8, UINT16, is_ack
<1>3. Deserialize(Serialize(a)) = a
  BY <1>2, RoundTrip
<1>4. d \in Header /\ ~is_ack(d)
  BY DataReads
<1> HIDE DEF a, d
<1>5. n \in Header /\ ~is_ack(n) /\ n.seq_number = s
  BY <1>4 DEF Header, is_ack
<1>6. Deserialize(Serialize(d)) = d
  BY <1>4, RoundTrip
<1>7. Numbered(Serialize(d), s) = Serialize(n)
  BY <1>6 DEF Numbered
<1>8. Deserialize(Numbered(Serialize(d), s)) = n
  BY <1>5, <1>7, RoundTrip
<1> QED
  BY <1>2, <1>3, <1>5, <1>8 DEF a, d

\* Under every number, the segment send has made is one that send_to_physical
\* transmits, but for a size that is 0 in 16 bits.
LEMMA TransmittableSize ==
  ASSUME NEW addr \in UINT8, NEW size \in Nat, NEW memory \in UINT8, NEW s \in UINT8
  PROVE  Transmittable(Numbered(Serialize(DataHeader(addr, size, memory)), s), s, addr)
           <=> size % 65536 # 0
<1> DEFINE d == DataHeader(addr, size, memory)
           n == [d EXCEPT !.seq_number = s]
<1>1. /\ d \in Header /\ is_dta(d) /\ d.source_addr = addr
      /\ d.payload_length = size % 65536
  BY DataReads
<1> HIDE DEF d
<1>2. /\ n \in Header /\ is_dta(n) /\ n.source_addr = addr /\ n.seq_number = s
      /\ n.payload_length = size % 65536
  BY <1>1 DEF Header, is_dta
<1>3. Deserialize(Serialize(d)) = d
  BY <1>1, RoundTrip
<1>4. Numbered(Serialize(d), s) = Serialize(n)
  BY <1>3 DEF Numbered
<1>5. Deserialize(Numbered(Serialize(d), s)) = n
  BY <1>2, <1>4, RoundTrip
<1> QED
  BY <1>2, <1>5 DEF Transmittable, d

-----------------------------------------------------------------------------
(***************************************************************************)
(* The inductive invariant.  A port is in one of two conditions: free,     *)
(* with the node's own address, never opened; or aggregated, with an       *)
(* address of its own, opened at least once.  That is why close never      *)
(* reads a mode that was not set, and why GetSocket and AggregateSocket    *)
(* never look at the same port.                                            *)
(***************************************************************************)
FreePort(p) == p.to_address = self_address /\ p.state = "CLOSED"
UsedPort(p) == /\ p.to_address # self_address
               /\ p.mode = "CONNECTIONLESS"
               /\ p.state \in {"OPEN", "CLOSED"}

Table(ps) ==
  /\ ps \in Seq(Port)
  /\ \A i \in DOMAIN ps : IF ps[i].aggregated THEN UsedPort(ps[i]) ELSE FreePort(ps[i])
  /\ \A i, j \in DOMAIN ps :
       ps[i].to_address = ps[j].to_address /\ ps[i].to_address # self_address => i = j

NodeInv ==
  /\ Table(ports)
  /\ Len(ports) <= MAX_PORTS
  /\ device \in {"DOWN", "ERROR_RESET"}

\* The addresses a table has open connections to.
OpenIn(ps) == {ps[i].to_address : i \in {j \in DOMAIN ps : ps[j].state = "OPEN"}}

-----------------------------------------------------------------------------
LEMMA AddressInt == \A id \in UINT8 : PeerAddress(id) \in UINT8
BY DEF UINT8, PeerAddress

\* A new port changes neither the table's order nor its connections.
LEMMA AppendTable ==
  ASSUME NEW ps, Table(ps)
  PROVE  LET qs == Append(ps, NewPort)
         IN  Table(qs) /\ Len(qs) = Len(ps) + 1 /\ OpenIn(qs) = OpenIn(ps)
<1> DEFINE qs == Append(ps, NewPort)
<1> USE NodeAssumption
<1>1. ps \in Seq(Port) /\ NewPort \in Port
  BY DEF Table, NewPort, Port, UINT8, SocketState
<1>2. /\ qs \in Seq(Port) /\ Len(qs) = Len(ps) + 1
      /\ DOMAIN qs = DOMAIN ps \cup {Len(ps) + 1}
      /\ \A i \in DOMAIN ps : qs[i] = ps[i]
      /\ qs[Len(ps) + 1] = NewPort
  BY <1>1
<1>3. Table(qs)
  BY <1>2 DEF Table, NewPort, FreePort
<1>4. OpenIn(qs) = OpenIn(ps)
  BY <1>2 DEF OpenIn, NewPort
<1> QED
  BY <1>2, <1>3, <1>4

\* Changing one port of a table to a used one with an address no other has.
LEMMA ReplaceTable ==
  ASSUME NEW ps, Table(ps), NEW i \in DOMAIN ps, NEW p \in Port,
         p.aggregated, UsedPort(p),
         \A j \in DOMAIN ps : ps[j].to_address = p.to_address => j = i
  PROVE  LET qs == [ps EXCEPT ![i] = p]
         IN  Table(qs) /\ Len(qs) = Len(ps)
<1> DEFINE qs == [ps EXCEPT ![i] = p]
<1>1. /\ qs \in Seq(Port) /\ Len(qs) = Len(ps) /\ DOMAIN qs = DOMAIN ps
      /\ qs[i] = p /\ \A j \in DOMAIN ps : j # i => qs[j] = ps[j]
  BY DEF Table
<1>2. Table(qs)
  BY <1>1 DEF Table
<1> QED
  BY <1>1, <1>2

\* Opening port i under the address of p.
LEMMA OpenOne ==
  ASSUME NEW ps \in Seq(Port), NEW i \in DOMAIN ps, NEW p, p.state = "OPEN",
         ps[i].state = "OPEN" => ps[i].to_address = p.to_address
  PROVE  OpenIn([ps EXCEPT ![i] = p]) = OpenIn(ps) \cup {p.to_address}
BY DEF OpenIn

\* Closing port i, the only one with its address.
LEMMA CloseOne ==
  ASSUME NEW ps \in Seq(Port), NEW i \in DOMAIN ps, NEW p, p.state # "OPEN",
         \A j \in DOMAIN ps : ps[j].to_address = ps[i].to_address => j = i
  PROVE  OpenIn([ps EXCEPT ![i] = p]) = OpenIn(ps) \ {ps[i].to_address}
BY DEF OpenIn

\* open_connection keeps the table in order, and opens a or nothing.
LEMMA ConnectTable ==
  ASSUME NEW ps, Table(ps), NEW a \in UINT8, Connect(ps, a)
  PROVE  /\ Table(ports') /\ Len(ports') = Len(ps)
         /\ IF a = self_address THEN call' = <<"refused">> /\ ports' = ps
            ELSE /\ call' = <<"open", a>>
                 /\ OpenIn(ports') \in {OpenIn(ps), OpenIn(ps) \cup {a}}
<1>1. CASE ports' = ps
  BY <1>1 DEF Connect
<1>2. ASSUME a # self_address, NEW i \in DOMAIN ps, NEW p, p = Opened(a, TRUE),
             \A j \in DOMAIN ps : ps[j].to_address = a => j = i,
             ps[i].state = "OPEN" => ps[i].to_address = a,
             ports' = [ps EXCEPT ![i] = p]
      PROVE  Table(ports') /\ Len(ports') = Len(ps) /\ OpenIn(ports') = OpenIn(ps) \cup {a}
  <2>1. /\ p \in Port /\ p.aggregated /\ UsedPort(p)
        /\ p.state = "OPEN" /\ p.to_address = a
    BY <1>2 DEF Opened, Port, UsedPort, SocketState
  <2>2. ps \in Seq(Port)
    BY DEF Table
  <2>3. Table(ports') /\ Len(ports') = Len(ps)
    <3>1. \A j \in DOMAIN ps : ps[j].to_address = p.to_address => j = i
      BY <1>2, <2>1
    <3>2. LET qs == [ps EXCEPT ![i] = p] IN Table(qs) /\ Len(qs) = Len(ps)
      BY <2>1, <3>1, ReplaceTable
    <3> QED
      BY <1>2, <3>2
  <2>4. OpenIn([ps EXCEPT ![i] = p]) = OpenIn(ps) \cup {p.to_address}
    BY <1>2, <2>1, <2>2, OpenOne
  <2> QED
    BY <1>2, <2>1, <2>3, <2>4
<1>3. ASSUME a # self_address, NEW i \in Known(ps, a),
             ports' = [ps EXCEPT ![i] = Opened(a, ps[i].aggregated)]
      PROVE  Table(ports') /\ Len(ports') = Len(ps) /\ OpenIn(ports') = OpenIn(ps) \cup {a}
  <2>1. i \in DOMAIN ps /\ ps[i].to_address = a
    BY DEF Known
  <2>2. ps[i].aggregated = TRUE
    BY <1>3, <2>1 DEF Table, FreePort, Port
  <2>3. \A j \in DOMAIN ps : ps[j].to_address = a => j = i
    BY <1>3, <2>1 DEF Table
  <2> QED
    BY <1>2, <1>3, <2>1, <2>2, <2>3
<1>4. ASSUME a # self_address, Known(ps, a) = {}, NEW i \in Free(ps),
             ports' = [ps EXCEPT ![i] = Opened(a, TRUE)]
      PROVE  Table(ports') /\ Len(ports') = Len(ps) /\ OpenIn(ports') = OpenIn(ps) \cup {a}
  <2>1. i \in DOMAIN ps /\ ps[i].state = "CLOSED"
    BY DEF Free, Table, FreePort
  <2>2. \A j \in DOMAIN ps : ps[j].to_address # a
    BY <1>4 DEF Known
  <2> QED
    BY <1>2, <1>4, <2>1, <2>2
<1>5. CASE a = self_address
  BY <1>1, <1>5 DEF Connect
<1>6. CASE a # self_address
  <2>1. \A S : First(S) \subseteq S
    BY DEF First
  <2>2. \/ ports' = ps
        \/ \E i \in Known(ps, a) : ports' = [ps EXCEPT ![i] = Opened(a, ps[i].aggregated)]
        \/ /\ Known(ps, a) = {}
           /\ \E i \in Free(ps) : ports' = [ps EXCEPT ![i] = Opened(a, TRUE)]
    BY <1>6, <2>1 DEF Connect
  <2>3. call' = <<"open", a>>
    BY <1>6 DEF Connect
  <2> QED
    BY <1>1, <1>3, <1>4, <1>6, <2>2, <2>3
<1> QED
  BY <1>5, <1>6

-----------------------------------------------------------------------------
(***************************************************************************)
(* Every call keeps the invariant, and is the call of Connections it       *)
(* records.                                                                *)
(***************************************************************************)

LEMMA StartStep ==
  ASSUME NodeInv, NEW id \in TimerId, start(id)
  PROVE  NodeInv' /\ Abstract!Next
<1> DEFINE ps == Append(ports, NewPort)
           a == PeerAddress(id)
<1>1. Table(ps) /\ Len(ps) = Len(ports) + 1 /\ OpenIn(ps) = OpenIn(ports)
  BY AppendTable DEF NodeInv
<1>2. a \in UINT8
  BY NodeAssumption, AddressInt
<1>3. Connect(ps, a)
  BY DEF start
<1> HIDE DEF ps, a
<1>4. /\ Table(ports') /\ Len(ports') = Len(ps)
      /\ IF a = self_address THEN call' = <<"refused">> /\ ports' = ps
         ELSE /\ call' = <<"open", a>>
              /\ OpenIn(ports') \in {OpenIn(ps), OpenIn(ps) \cup {a}}
  BY <1>1, <1>2, <1>3, ConnectTable
<1>5. NodeInv'
  <2>1. Len(ports) < MAX_PORTS /\ device' = "ERROR_RESET"
    BY DEF start
  <2>2. Len(ports) \in Nat
    BY DEF NodeInv, Table
  <2> QED
    BY <1>1, <1>4, <2>1, <2>2, NodeAssumption DEF NodeInv
<1>6. Abstract!Next
  <2>1. CASE a = self_address
    BY <1>1, <1>4, <2>1 DEF Abstract!Next, Abstract!Refuse, OpenIn
  <2>2. CASE a # self_address
    <3>1. Abstract!Connect(a)
      BY <1>1, <1>4, <2>2 DEF Abstract!Connect, OpenIn
    <3> QED
      BY <1>2, <2>2, <3>1 DEF Abstract!Next
  <2> QED
    BY <2>1, <2>2
<1> QED
  BY <1>5, <1>6

LEMMA OpenStep ==
  ASSUME NodeInv, NEW a \in Address, open_connection(a)
  PROVE  NodeInv' /\ Abstract!Next
<1>1. a \in UINT8 /\ Table(ports) /\ Connect(ports, a) /\ device' = device
  BY NodeAssumption DEF NodeInv, open_connection
<1>2. /\ Table(ports') /\ Len(ports') = Len(ports)
      /\ IF a = self_address THEN call' = <<"refused">> /\ ports' = ports
         ELSE /\ call' = <<"open", a>>
              /\ OpenIn(ports') \in {OpenIn(ports), OpenIn(ports) \cup {a}}
  BY <1>1, ConnectTable
<1>3. NodeInv'
  BY <1>1, <1>2 DEF NodeInv
<1>4. CASE a = self_address
  BY <1>2, <1>3, <1>4 DEF Abstract!Next, Abstract!Refuse
<1>5. CASE a # self_address
  <2>1. Abstract!Connect(a)
    BY <1>2, <1>5 DEF Abstract!Connect, OpenIn
  <2> QED
    BY <1>1, <1>3, <1>5, <2>1 DEF Abstract!Next
<1> QED
  BY <1>4, <1>5

LEMMA CloseStep ==
  ASSUME NodeInv, NEW a \in Address, close_connection(a)
  PROVE  NodeInv' /\ Abstract!Next
<1>1. a \in UINT8 /\ Table(ports) /\ device' = device
  BY NodeAssumption DEF NodeInv, close_connection
<1>2. CASE UNCHANGED ports /\ call' = <<"refused">>
  <2>1. NodeInv'
    BY <1>1, <1>2 DEF NodeInv
  <2>2. Abstract!Next
    BY <1>2 DEF Abstract!Next, Abstract!Refuse
  <2> QED
    BY <2>1, <2>2
<1>3. CASE a # self_address /\ Known(ports, a) = {} /\ UNCHANGED ports
             /\ call' = <<"close", a>>
  <2>1. NodeInv'
    BY <1>1, <1>3 DEF NodeInv
  <2>2. a \notin OpenIn(ports)
    BY <1>3 DEF Known, OpenIn
  <2>3. Abstract!Disconnect(a)
    BY <1>3, <2>2 DEF Abstract!Disconnect, OpenIn
  <2> QED
    BY <1>1, <1>3, <2>1, <2>3 DEF Abstract!Next
<1>4. ASSUME a # self_address, call' = <<"close", a>>, NEW i \in Known(ports, a),
             NEW s \in AfterClose(ports[i]), ports' = [ports EXCEPT ![i].state = s]
      PROVE  NodeInv' /\ Abstract!Next
  <2> DEFINE p == [ports[i] EXCEPT !.state = "CLOSED"]
  <2>1. ports \in Seq(Port) /\ i \in DOMAIN ports /\ ports[i] \in Port
    BY <1>1 DEF Known, Table
  <2>2. ports[i].to_address = a /\ ports[i].aggregated /\ UsedPort(ports[i])
    BY <1>1, <1>4, <2>1 DEF Known, Table, FreePort
  <2>3. s = "CLOSED"
    BY <1>4, <2>2 DEF AfterClose, UsedPort
  <2>4. ports' = [ports EXCEPT ![i] = p]
    BY <1>4, <2>1, <2>3
  <2>5. /\ p \in Port /\ p.aggregated /\ UsedPort(p)
        /\ p.state = "CLOSED" /\ p.to_address = a
    BY <1>4, <2>1, <2>2 DEF Port, UsedPort, SocketState
  <2> HIDE DEF p
  <2>6. \A j \in DOMAIN ports : ports[j].to_address = a => j = i
    BY <1>1, <1>4, <2>1, <2>2 DEF Table
  <2>7. NodeInv'
    <3>1. \A j \in DOMAIN ports : ports[j].to_address = p.to_address => j = i
      BY <2>5, <2>6
    <3>2. LET qs == [ports EXCEPT ![i] = p] IN Table(qs) /\ Len(qs) = Len(ports)
      BY <1>1, <2>1, <2>5, <3>1, ReplaceTable
    <3> QED
      BY <1>1, <2>4, <3>2 DEF NodeInv
  <2>8. OpenIn([ports EXCEPT ![i] = p]) = OpenIn(ports) \ {ports[i].to_address}
    BY <2>1, <2>2, <2>5, <2>6, CloseOne
  <2>9. Abstract!Disconnect(a)
    <3>1. OpenIn(ports') = OpenIn(ports) \ {a}
      BY <2>2, <2>4, <2>8
    <3> QED
      BY <1>4, <3>1 DEF Abstract!Disconnect, OpenIn
  <2> QED
    BY <1>1, <1>4, <2>7, <2>9 DEF Abstract!Next
<1>5. \A S : First(S) \subseteq S
  BY DEF First
<1> QED
  BY <1>2, <1>3, <1>4, <1>5 DEF close_connection

LEMMA SendStep ==
  ASSUME NodeInv, NEW a \in Address, NEW size \in DataSize, send_packet(a, size)
  PROVE  NodeInv' /\ Abstract!Next
<1>1. NodeInv'
  BY DEF send_packet, NodeInv
<1>2. CASE ports # <<>> /\ ports[1].to_address = a /\ ports[1].state = "OPEN"
             /\ Accepted(size)
  <2>1. 1 \in DOMAIN ports
    BY <1>2 DEF NodeInv, Table
  <2>2. a # self_address
    BY <1>2, <2>1 DEF NodeInv, Table, UsedPort, FreePort
  <2>3. Abstract!Send(a)
    BY <1>2, <2>1 DEF send_packet, Abstract!Send
  <2> QED
    BY <1>1, <2>2, <2>3, NodeAssumption DEF Abstract!Next
<1>3. CASE ~(/\ ports # <<>> /\ ports[1].to_address = a /\ ports[1].state = "OPEN"
              /\ Accepted(size))
  BY <1>1, <1>3 DEF send_packet, Abstract!Next, Abstract!Refuse
<1> QED
  BY <1>2, <1>3

\* What arrives at a socket that was never opened finds it closed, and
\* full_states_handler leaves a closed socket closed, whatever the segment.
LEMMA ArrivalLeavesPorts ==
  ASSUME NodeInv, NEW h, Arrive(h)
  PROVE  UNCHANGED <<ports, device, call>>
<1>1. ports \in Seq(Port) /\ 1 \in DOMAIN ports
  BY DEF NodeInv, Table, Arrive
<1>2. ASSUME ports[1].mode = "UNSET", NEW expected \in BOOLEAN,
             ports' = [ports EXCEPT ![1].state = full_states_handler(@, h, expected)]
      PROVE  UNCHANGED ports
  <2>1. ports[1] \in Port /\ ports[1].state = "CLOSED"
    BY <1>1, <1>2 DEF NodeInv, Table, UsedPort, FreePort
  <2>2. full_states_handler("CLOSED", h, expected) = "CLOSED"
    BY DEF full_states_handler
  <2>3. [ports[1] EXCEPT !.state = "CLOSED"] = ports[1]
    BY <2>1 DEF Port
  <2>4. ports' = [ports EXCEPT ![1] = [ports[1] EXCEPT !.state = "CLOSED"]]
    BY <1>2, <2>1, <2>2
  <2> QED
    BY <1>1, <2>3, <2>4
<1> QED
  BY <1>2 DEF Arrive

LEMMA ShutdownStep ==
  ASSUME NodeInv, shutdown
  PROVE  NodeInv' /\ Abstract!Next
<1> DEFINE closed == {i \in DOMAIN ports : /\ ports[i].to_address # self_address
                                           /\ ports[i].state # "CLOSED"}
<1>1. PICK s \in [closed -> {"CLOSED", "CLOSE_WAIT"}] :
        /\ \A i \in closed : s[i] \in AfterClose(ports[i])
        /\ ports' = [i \in DOMAIN ports |->
                       IF i \in closed THEN [ports[i] EXCEPT !.state = s[i]] ELSE ports[i]]
  BY DEF shutdown
<1>2. ports \in Seq(Port) /\ \A i \in DOMAIN ports : ports[i] \in Port
  BY DEF NodeInv, Table
<1>3. \A i \in closed : s[i] = "CLOSED"
  BY <1>1 DEF AfterClose, NodeInv, Table, UsedPort, FreePort
<1>4. \A i \in DOMAIN ports :
        /\ ports'[i] \in Port
        /\ ports'[i].to_address = ports[i].to_address
        /\ ports'[i].aggregated = ports[i].aggregated
        /\ ports'[i].mode = ports[i].mode
        /\ ports'[i].state = "CLOSED"
  BY <1>1, <1>2, <1>3 DEF Port, NodeInv, Table, UsedPort, FreePort, SocketState
<1>5. ports' \in Seq(Port) /\ Len(ports') = Len(ports) /\ DOMAIN ports' = DOMAIN ports
  BY <1>1, <1>2, <1>4
<1>6. Table(ports')
  BY <1>4, <1>5 DEF NodeInv, Table, UsedPort, FreePort
<1>7. NodeInv'
  BY <1>5, <1>6 DEF NodeInv, shutdown
<1>8. Abstract!ShutDown
  BY <1>4, <1>5 DEF shutdown, Abstract!ShutDown
<1> QED
  BY <1>7, <1>8 DEF Abstract!Next

LEMMA NodeStep ==
  ASSUME NodeInv, [Next]_vars
  PROVE  NodeInv' /\ [Abstract!Next]_<<OpenIn(ports), call>>
<1>1. CASE UNCHANGED vars
  BY <1>1 DEF vars, NodeInv
<1>2. ASSUME NEW h, Arrive(h) PROVE NodeInv' /\ UNCHANGED <<OpenIn(ports), call>>
  BY <1>2, ArrivalLeavesPorts DEF NodeInv, OpenIn
<1>3. CASE Next
  BY <1>2, <1>3, StartStep, OpenStep, CloseStep, SendStep, ShutdownStep DEF Next, Step
<1> QED
  BY <1>1, <1>3

LEMMA NodeInit ==
  ASSUME Init
  PROVE  NodeInv /\ Abstract!Init
BY NodeAssumption DEF Init, NodeInv, Table, Abstract!Init

-----------------------------------------------------------------------------
LEMMA Invariant == Spec => []NodeInv
BY NodeInit, NodeStep, PTL DEF Spec

-----------------------------------------------------------------------------
(***************************************************************************)
(* The segment of the last send: a size that send takes, in a data header. *)
(***************************************************************************)
MadeBySend ==
  segment # <<>> =>
    \E size \in Nat, memory \in UINT8 :
      /\ Accepted(size)
      /\ segment = [size |-> size,
                    octets |-> Serialize(DataHeader(self_address, size, memory))]

LEMMA Made == Spec => []MadeBySend
<1>1. Init => MadeBySend
  BY DEF Init, MadeBySend
<1>2. MadeBySend /\ [Next]_vars => MadeBySend'
  <2> SUFFICES ASSUME MadeBySend, [Next]_vars PROVE MadeBySend'
    OBVIOUS
  <2>1. CASE UNCHANGED segment
    BY <2>1 DEF MadeBySend
  <2>2. ASSUME NEW a \in Address, NEW size \in DataSize, send_packet(a, size)
        PROVE  MadeBySend'
    <3>1. CASE UNCHANGED segment
      BY <2>1, <3>1
    <3>2. CASE /\ Accepted(size)
               /\ \E memory \in Memory :
                    segment' = [size |-> size,
                                octets |-> Serialize(DataHeader(self_address, size, memory))]
      BY <3>2, NodeAssumption DEF MadeBySend
    <3> QED
      BY <2>2, <3>1, <3>2 DEF send_packet
  <2> QED
    BY <2>1, <2>2
       DEF Next, Step, vars, start, open_connection, close_connection, shutdown, Arrive
<1> QED
  BY <1>1, <1>2, PTL DEF Spec

\* What send puts in the queue reads as data of this node under every number,
\* and is transmitted but for the sizes 0 and 65536.
THEOREM HeadersTell == Spec => []HeaderTells
<1>1. MadeBySend => HeaderTells
  <2> SUFFICES ASSUME segment # <<>>,
                      NEW size \in Nat, NEW memory \in UINT8, Accepted(size),
                      segment = [size |-> size,
                                 octets |-> Serialize(DataHeader(self_address, size, memory))]
               PROVE  HeaderTells
    BY DEF MadeBySend, HeaderTells
  <2> DEFINE d == DataHeader(self_address, size, memory)
  <2>1. /\ d \in Header /\ is_dta(d) /\ ~is_ack(d)
        /\ d.source_addr = self_address /\ d.payload_length = size % 65536
    BY DataReads, NodeAssumption
  <2>2. Deserialize(segment.octets) = d
    BY <2>1, RoundTrip
  <2>3. \A s \in UINT8 :
          Transmittable(Numbered(segment.octets, s), s, self_address) <=> size % 65536 # 0
    BY TransmittableSize, NodeAssumption
  <2> HIDE DEF d
  <2>4. size % 65536 \in {0, size} /\ (size % 65536 # 0 <=> size \notin {0, 65536})
    BY DEF Accepted
  <2> QED
    BY <2>1, <2>2, <2>3, <2>4 DEF HeaderTells
<1> QED
  BY <1>1, Made, PTL

\* No call and no arrival takes a socket into the states of connection mode,
\* whatever a mode that was never set reads as.
THEOREM NodeConnectionless == Spec => []Connectionless
<1>1. NodeInv => Connectionless
  BY DEF NodeInv, Table, UsedPort, FreePort, Connectionless
<1> QED
  BY <1>1, Invariant, PTL

\* No two ports are connected to one address.
THEOREM OneSocketForEach == Spec => []OneSocketEach
<1>1. NodeInv => OneSocketEach
  BY DEF NodeInv, Table, OneSocketEach
<1> QED
  BY <1>1, Invariant, PTL

-----------------------------------------------------------------------------
(***************************************************************************)
(* What an arrival finds.                                                  *)
(***************************************************************************)
Arrivals ==
  /\ ArrivalFindsSocket
  /\ alive \in BOOLEAN /\ misstarted \in BOOLEAN

\* open_connection neither empties the table nor takes a mode away.
LEMMA ConnectKeepsMode ==
  ASSUME NEW ps \in Seq(Port), NEW a, Connect(ps, a), ps # <<>>
  PROVE  ports' # <<>> /\ ports'[1].mode \in {ps[1].mode, "CONNECTIONLESS"}
<1>1. 1 \in DOMAIN ps /\ \A S : First(S) \subseteq S
  BY DEF First
<1>2. CASE ports' = ps
  BY <1>2
<1>3. ASSUME NEW i \in DOMAIN ps, NEW aggr, ports' = [ps EXCEPT ![i] = Opened(a, aggr)]
      PROVE  ports' # <<>> /\ ports'[1].mode \in {ps[1].mode, "CONNECTIONLESS"}
  BY <1>1, <1>3 DEF Opened
<1>4. Known(ps, a) \subseteq DOMAIN ps /\ Free(ps) \subseteq DOMAIN ps
  BY DEF Known, Free
<1> QED
  BY <1>1, <1>2, <1>3, <1>4 DEF Connect

LEMMA ArrivalsStart ==
  ASSUME NodeInv, Arrivals, NEW id \in TimerId, start(id)
  PROVE  Arrivals'
<1> DEFINE ps == Append(ports, NewPort)
           a == PeerAddress(id)
<1>1. ports \in Seq(Port) /\ NewPort \in Port
  BY NodeAssumption DEF NodeInv, Table, NewPort, Port, UINT8, SocketState
<1>2. Connect(ps, a) /\ misstarted' = (misstarted \/ a = self_address)
  BY DEF start
<1>3. ps \in Seq(Port) /\ ps # <<>> /\ (ports # <<>> => ps[1] = ports[1])
  <2>1. ps \in Seq(Port) /\ Len(ps) = Len(ports) + 1 /\ Len(ports) \in Nat
    BY <1>1
  <2>2. \A i \in 1 .. Len(ports) : ps[i] = ports[i]
    BY <1>1
  <2>3. ports # <<>> => 1 \in 1 .. Len(ports)
    BY <1>1
  <2>4. ps # <<>>
    BY <2>1
  <2> QED
    BY <2>1, <2>2, <2>3, <2>4
<1>4. CASE ports # <<>> \/ a = self_address
  <2>1. ports' # <<>> /\ ports'[1].mode \in {ps[1].mode, "CONNECTIONLESS"}
    BY <1>2, <1>3, ConnectKeepsMode
  <2> QED
    BY <1>2, <1>3, <1>4, <2>1 DEF Arrivals, ArrivalFindsSocket, start
<1>5. CASE ports = <<>> /\ a # self_address
  <2>1. ps \in Seq(Port) /\ DOMAIN ps = {1} /\ ps[1] = NewPort
    BY <1>1, <1>5
  <2> HIDE DEF ps, a
  <2>2. Known(ps, a) = {}
    BY <1>5, <2>1 DEF Known, NewPort
  <2>3. Free(ps) = {1} /\ First({1}) = {1} /\ First({}) = {}
    BY <2>1 DEF Free, First, NewPort
  <2>4. ports' = [ps EXCEPT ![1] = Opened(a, TRUE)]
    BY <1>2, <1>5, <2>2, <2>3 DEF Connect
  <2>5. ports'[1].mode = "CONNECTIONLESS" /\ DOMAIN ports' = {1}
    BY <2>1, <2>4 DEF Opened
  <2> QED
    BY <1>2, <2>5, 1 \notin DOMAIN <<>> DEF Arrivals, ArrivalFindsSocket, start
<1> QED
  BY <1>4, <1>5

LEMMA ArrivalsOpen ==
  ASSUME NodeInv, Arrivals, NEW a \in Address, open_connection(a)
  PROVE  Arrivals'
<1>1. ports \in Seq(Port) /\ Connect(ports, a) /\ UNCHANGED <<device, alive, misstarted>>
  BY DEF NodeInv, Table, open_connection
<1>2. CASE ports # <<>>
  <2>1. ports' # <<>> /\ ports'[1].mode \in {ports[1].mode, "CONNECTIONLESS"}
    BY <1>1, <1>2, ConnectKeepsMode
  <2> QED
    BY <1>1, <1>2, <2>1 DEF Arrivals, ArrivalFindsSocket
<1>3. CASE ports = <<>>
  <2>1. ports' = ports
    BY <1>1, <1>3 DEF Connect, Known, Free, First
  <2> QED
    BY <1>1, <2>1 DEF Arrivals, ArrivalFindsSocket
<1> QED
  BY <1>2, <1>3

LEMMA ArrivalsClose ==
  ASSUME NodeInv, Arrivals, NEW a \in Address, close_connection(a)
  PROVE  Arrivals'
<1>1. ports \in Seq(Port) /\ UNCHANGED <<device, alive, misstarted>>
  BY DEF NodeInv, Table, close_connection
<1>2. CASE UNCHANGED ports
  BY <1>1, <1>2 DEF Arrivals, ArrivalFindsSocket
<1>3. ASSUME NEW i, NEW s, ports' = [ports EXCEPT ![i].state = s]
      PROVE  Arrivals'
  <2>1. DOMAIN ports' = DOMAIN ports /\ (ports' = <<>> <=> ports = <<>>)
    BY <1>1, <1>3
  <2>2. ports # <<>> => 1 \in DOMAIN ports /\ ports[1] \in Port
    BY <1>1
  <2>3. ports # <<>> => ports'[1].mode = ports[1].mode
    BY <1>3, <2>1, <2>2 DEF Port
  <2> QED
    BY <1>1, <2>1, <2>3 DEF Arrivals, ArrivalFindsSocket
<1> QED
  BY <1>2, <1>3 DEF close_connection

LEMMA ArrivalsShutdown ==
  ASSUME NodeInv, Arrivals, shutdown
  PROVE  Arrivals'
<1>1. ports \in Seq(Port)
  BY DEF NodeInv, Table
<1>2. DOMAIN ports' = DOMAIN ports /\ (ports' = <<>> <=> ports = <<>>)
  BY <1>1 DEF shutdown
<1>3. ports # <<>> => 1 \in DOMAIN ports /\ ports[1] \in Port
  BY <1>1
<1>4. ports # <<>> => ports'[1].mode = ports[1].mode
  BY <1>3 DEF shutdown, Port
<1> QED
  BY <1>2, <1>4 DEF shutdown, Arrivals, ArrivalFindsSocket

\* The program ends in the arrival handler only where it was misstarted.
LEMMA ArrivalsArrive ==
  ASSUME NodeInv, Arrivals, NEW h, Arrive(h)
  PROVE  Arrivals'
<1>1. UNCHANGED <<ports, device>>
  BY ArrivalLeavesPorts
<1>2. misstarted' = misstarted /\ ports # <<>>
  BY DEF Arrive
<1>3. CASE alive' = alive
  BY <1>1, <1>2, <1>3 DEF Arrivals, ArrivalFindsSocket
<1>4. CASE alive' = FALSE /\ ports[1].mode = "UNSET"
  <2>1. misstarted
    BY <1>2, <1>4 DEF Arrivals, ArrivalFindsSocket
  <2> QED
    BY <1>1, <1>2, <1>4, <2>1 DEF Arrivals, ArrivalFindsSocket
<1> QED
  BY <1>3, <1>4 DEF Arrive

LEMMA ArrivalsInvariant == Spec => []Arrivals
<1>1. Init => Arrivals
  BY DEF Init, Arrivals, ArrivalFindsSocket
<1>2. NodeInv /\ Arrivals /\ [Next]_vars => Arrivals'
  <2> SUFFICES ASSUME NodeInv, Arrivals, [Next]_vars PROVE Arrivals'
    OBVIOUS
  <2>1. CASE UNCHANGED vars
    BY <2>1 DEF vars, Arrivals, ArrivalFindsSocket
  <2>2. ASSUME NEW a \in Address, NEW size \in DataSize, send_packet(a, size)
        PROVE  Arrivals'
    BY <2>2 DEF send_packet, Arrivals, ArrivalFindsSocket
  <2> QED
    BY <2>1, <2>2, ArrivalsStart, ArrivalsOpen, ArrivalsClose, ArrivalsShutdown,
       ArrivalsArrive DEF Next, Step
<1> QED
  BY <1>1, <1>2, Invariant, PTL DEF Spec

\* Whenever packets may arrive they find a socket in ports[0] that was opened,
\* and the arrival handler never uses a spw_layer that was not set, unless start
\* was called with the number that makes its own address of the peer's.
THEOREM SocketForArrivals == Spec => []ArrivalFindsSocket
<1>1. Arrivals => ArrivalFindsSocket
  BY DEF Arrivals
<1> QED
  BY <1>1, ArrivalsInvariant, PTL

\* The variables keep their types.
THEOREM NodeTypes == Spec => []TypeOK
<1>1. NodeInv /\ Arrivals /\ MadeBySend => TypeOK
  <2> SUFFICES ASSUME NodeInv, Arrivals, MadeBySend PROVE TypeOK
    OBVIOUS
  <2>1. segment # <<>> => segment \in [size : Nat, octets : Seq(UINT8)]
    <3> SUFFICES ASSUME NEW size \in Nat, NEW memory \in UINT8,
                        segment = [size |-> size,
                                   octets |-> Serialize(DataHeader(self_address, size, memory))]
                 PROVE  segment \in [size : Nat, octets : Seq(UINT8)]
      BY DEF MadeBySend
    <3> DEFINE d == DataHeader(self_address, size, memory)
    <3>1. d \in Header
      BY DataReads, NodeAssumption
    <3> HIDE DEF d
    <3>2. Serialize(d) \in Seq(UINT8)
      BY <3>1, RoundTrip
    <3> QED
      BY <3>2 DEF d
  <2> QED
    BY <2>1 DEF NodeInv, Table, Arrivals, TypeOK
<1> QED
  BY <1>1, Invariant, ArrivalsInvariant, Made, PTL

\* The table of ports implements a set of connections.
THEOREM ImplementsConnections == Spec => ConnectionsSpec
<1>1. Init => Abstract!Init
  BY NodeInit
<1>2. NodeInv /\ [Next]_vars => [Abstract!Next]_<<OpenIn(ports), call>>
  BY NodeStep
<1> QED
  BY <1>1, <1>2, Invariant, PTL DEF Spec, ConnectionsSpec, Abstract!Spec, OpenIn
==============================================================================
