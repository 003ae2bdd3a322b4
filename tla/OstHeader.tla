------------------------------ MODULE OstHeader ------------------------------
(***************************************************************************)
(* The header of a segment: its fields, the octets it travels as, and the  *)
(* three places that make one (ost/model/ost-header.cc, ost_socket.cc).    *)
(***************************************************************************)
EXTENDS Integers, Sequences

UINT8 == 0 .. 255
UINT16 == 0 .. 65535

\* The flags are bits of an octet of which the upper five have no meaning.
Header == [flags : UINT8, source_addr : UINT8, seq_number : UINT8, payload_length : UINT16]

is_ack(h) == h.flags % 2 = 1
is_syn(h) == (h.flags \div 2) % 2 = 1
is_rst(h) == (h.flags \div 4) % 2 = 1
is_dta(h) == h.flags % 8 = 0

\* Faulty: the flag of an acknowledgement stays.
set_dta_but_ack(h) == [h EXCEPT !.flags = @ - (@ % 8) + (@ % 2)]

\* OstHeader::set_flag(DTA), which clears the three flags, and set_flag(ACK).
set_dta(h) == [h EXCEPT !.flags = @ - (@ % 8)]
set_ack(h) == [h EXCEPT !.flags = IF @ % 2 = 1 THEN @ ELSE @ + 1]

\* The header of OstSocket::send for size octets of data.  The constructor with
\* arguments leaves the flags as the memory had them, memory.
DataHeader(addr, size, memory) ==
  set_dta([flags |-> memory, source_addr |-> addr, seq_number |-> 0,
           payload_length |-> size % 65536])

\* The header of OstSocket::send_to_physical(ACK, s).
AckHeader(addr, s) ==
  set_ack([flags |-> 0, source_addr |-> addr, seq_number |-> s, payload_length |-> 0])

\* The iterator of a buffer writes and reads 16 bits with the lower ones first.
Low(v) == v % 256
High(v) == v \div 256
Value16(low, high) == low + 256 * high

Serialize(h) ==
  <<h.flags, h.source_addr, h.seq_number, Low(h.payload_length), High(h.payload_length)>>

Deserialize(o) ==
  [flags |-> o[1], source_addr |-> o[2], seq_number |-> o[3],
   payload_length |-> Value16(o[4], o[5])]

\* OstSocket::add_packet_to_tx takes the header off, numbers it and puts it back.
Numbered(o, s) == Serialize([Deserialize(o) EXCEPT !.seq_number = s])

\* What OstSocket::send_to_physical looks at before it transmits the segment of
\* number s.
Transmittable(o, s, addr) ==
  LET h == Deserialize(o)
  IN  /\ h.payload_length # 0
      /\ is_dta(h)
      /\ h.seq_number = s
      /\ h.source_addr = addr

-----------------------------------------------------------------------------
(***************************************************************************)
(* Connection mode (OstSocket::full_states_handler): the state a segment   *)
(* leaves a socket in.  expected tells whether its number is that of the   *)
(* bottom of the sender's window, which it is compared with; what the      *)
(* handler does with windows is left out, and what it sends is nothing:    *)
(* send_rejection, send_confirm and the like are empty.                    *)
(***************************************************************************)

SocketState == {"CLOSED", "LISTEN", "SYN_SENT", "SYN_RCVD", "OPEN", "CLOSE_WAIT"}

\* Faulty: a closed socket waits for the answer to its rejection.
full_states_handler_waiting(s, h, expected) ==
  IF s = "CLOSED" /\ ~is_rst(h) THEN "CLOSE_WAIT" ELSE s

\* The case of SYN_SENT has no break: whatever it decides is overwritten by the
\* case of SYN_RCVD.
full_states_handler(s, h, expected) ==
  CASE s = "CLOSE_WAIT" /\ is_rst(h)                           -> "CLOSED"
    [] s = "LISTEN" /\ is_syn(h) /\ ~is_ack(h)                 -> "SYN_RCVD"
    [] s \in {"SYN_SENT", "SYN_RCVD"} ->
         CASE is_rst(h)                                          -> "CLOSED"
           [] ~is_rst(h) /\ ~is_syn(h) /\ is_ack(h) /\ expected -> "OPEN"
           [] OTHER                                              -> "CLOSE_WAIT"
    [] s = "OPEN" /\ (is_rst(h) \/ is_syn(h))                  -> "CLOSE_WAIT"
    [] OTHER                                                   -> s
=============================================================================
