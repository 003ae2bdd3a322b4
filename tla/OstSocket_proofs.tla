-------------------------- MODULE OstSocket_proofs --------------------------
(***************************************************************************)
(* Theorems about OstSocket and the window arithmetic it uses, for every   *)
(* number of sequence numbers, window, capacity and bound.                 *)
(***************************************************************************)
EXTENDS OstSocket, Smallest_proofs, SequenceTheorems

USE WindowAssumption

-----------------------------------------------------------------------------
(***************************************************************************)
(* The window arithmetic.                                                  *)
(***************************************************************************)

\* Zero and the first top of a receive window are sequence numbers.
LEMMA SeqNBounds == 0 \in SeqN /\ WINDOW_SZ \in SeqN
BY DEF SeqN

\* Going up the circle stays on it.
LEMMA PlusType ==
  ASSUME NEW s \in Nat, NEW k \in Nat
  PROVE  Plus(s, k) \in SeqN
BY DEF Plus, SeqN

\* Slides counts the turns of the loop: the condition held at each of them and
\* fails at the next, unless the loop went round.
LEMMA SlidesMeaning ==
  ASSUME NEW go
  PROVE  /\ Slides(go) \in 0 .. MAX_SEQ_N
         /\ \A j \in 0 .. Slides(go) - 1 : go[j]
         /\ Slides(go) < MAX_SEQ_N => ~go[Slides(go)]
<1> DEFINE T == {k \in 0 .. MAX_SEQ_N : k = MAX_SEQ_N \/ ~go[k]}
<1>1. PICK k \in T : \A y \in T : k <= y
  <2>1. MAX_SEQ_N \in T
    OBVIOUS
  <2>2. T \subseteq Nat
    OBVIOUS
  <2> QED
    BY <2>1, <2>2, Smallest
<1>2. \A j \in 0 .. k - 1 : go[j]
  <2> SUFFICES ASSUME NEW j \in 0 .. k - 1
               PROVE  go[j]
    OBVIOUS
  <2>1. j \notin T
    BY <1>1
  <2> QED
    BY <1>1, <2>1
<1>3. k < MAX_SEQ_N => ~go[k]
  BY <1>1
<1> QED
  BY <1>1, <1>2, <1>3 DEF Slides

\* The window test, wrapped or not, is a comparison of distances.
THEOREM InWindowIsDistance ==
  ASSUME NEW bottom \in SeqN, NEW top \in SeqN, NEW s \in SeqN
  PROVE  in_window(bottom, top, s) <=> Dist(bottom, s) < Dist(bottom, top)
BY DEF in_window, Dist, SeqN

\* Room in the transmit window is real: taking the number at the top makes the
\* window one longer and no longer than WINDOW_SZ.
THEOREM SpaceIsRoom ==
  ASSUME NEW bottom \in SeqN, NEW top \in SeqN,
         tx_sliding_window_have_space(bottom, top)
  PROVE  /\ Dist(bottom, Plus(top, 1)) = Dist(bottom, top) + 1
         /\ Dist(bottom, Plus(top, 1)) <= WINDOW_SZ
<1>1. bottom <= top /\ top - bottom < WINDOW_SZ
  BY DEF tx_sliding_window_have_space, SeqN
<1>2. Plus(top, 1) = IF top = MAX_SEQ_N - 1 THEN 0 ELSE top + 1
  BY DEF Plus, SeqN
<1> QED
  BY <1>1, <1>2 DEF Dist, SeqN

-----------------------------------------------------------------------------
(***************************************************************************)
(* What the parts of the handlers keep.                                    *)
(***************************************************************************)

\* The peer of a node is the other one.
LEMMA PeerType ==
  ASSUME NEW n \in Node
  PROVE  Peer(n) \in Node /\ Peer(n) # n
BY SocketAssumption DEF Peer

\* A sequence without one of its elements is a sequence of the same kind.
LEMMA RemoveAtType ==
  ASSUME NEW S, NEW q \in Seq(S), NEW k \in 1 .. Len(q)
  PROVE  RemoveAt(q, k) \in Seq(S)
<1>1. SubSeq(q, 1, k - 1) \in Seq(S) /\ SubSeq(q, k + 1, Len(q)) \in Seq(S)
  BY SubSeqProperties, LenProperties
<1> QED
  BY <1>1, ConcatProperties DEF RemoveAt

\* A queue of timers without one of them is a queue of timers.
LEMMA CancelType ==
  ASSUME NEW q \in Seq(SeqN), NEW s
  PROVE  cancel_timer(q, s) \in Seq(SeqN)
<1>1. CASE \E i \in 1 .. Len(q) : q[i] = s
  <2> DEFINE T == {i \in 1 .. Len(q) : q[i] = s}
  <2>1. PICK i \in T : \A j \in T : i <= j
    <3>1. T \subseteq Nat /\ T # {}
      BY <1>1, LenProperties
    <3> QED
      BY <3>1, Smallest
  <2>2. \E k \in 1 .. Len(q) : q[k] = s /\ \A j \in 1 .. k - 1 : q[j] # s
    BY <2>1, LenProperties
  <2>3. PICK k \in 1 .. Len(q) : cancel_timer(q, s) = RemoveAt(q, k)
    BY <1>1, <2>2 DEF cancel_timer
  <2> QED
    BY <2>3, RemoveAtType
<1>2. CASE ~\E i \in 1 .. Len(q) : q[i] = s
  BY <1>2 DEF cancel_timer
<1> QED
  BY <1>1, <1>2

\* What is inductive about the types: the loop of mark_packet_receipt hands over
\* only cells that hold a message.
TypeInv == TypeOK /\ ReceivedIsStored

LEMMA HandedOverType ==
  ASSUME TypeInv, NEW n \in Node, NEW s \in SeqN, NEW m \in Message
  PROVE  HandedOver(n, s, m, ReceiptSlides(n, s)) \in Seq(Nat)
<1> DEFINE b == rx_window_bottom[n]
           go == [j \in 0 .. MAX_SEQ_N - 1 |->
                   /\ Plus(b, j) = s \/ received[n][Plus(b, j)]
                   /\ Plus(b, j) \notin Cleared(n, j)]
           k == Slides(go)
           id(j) == LET r == Plus(b, j - 1)
                    IN  IF r = s THEN m.id ELSE rx_window[n][r].id
<1>1. HandedOver(n, s, m, ReceiptSlides(n, s)) = [j \in 1 .. k |-> id(j)]
  BY DEF HandedOver, ReceiptSlides
<1>2. k \in 0 .. MAX_SEQ_N
  BY SlidesMeaning
<1>5. k \in Nat /\ k <= MAX_SEQ_N
  <2> HIDE DEF k
  <2> QED
    BY <1>2, WindowAssumption
<1>6. \A j \in 0 .. k - 1 : go[j]
  BY SlidesMeaning
<1>3. b \in Nat
  BY DEF TypeInv, TypeOK, SeqN
<1>4. ASSUME NEW j \in 1 .. k
      PROVE  id(j) \in Nat
  <2> DEFINE r == Plus(b, j - 1)
  <2>1. j - 1 \in 0 .. k - 1 /\ j - 1 \in 0 .. MAX_SEQ_N - 1
    <3> HIDE DEF k
    <3> QED
      BY <1>5, WindowAssumption
  <2>2. go[j - 1]
    <3> HIDE DEF k, go
    <3> QED
      BY <1>6, <2>1
  <2>3. r = s \/ received[n][r]
    BY <2>1, <2>2
  <2>4. r \in SeqN
    <3> HIDE DEF b, k
    <3> QED
      BY <1>3, <2>1, PlusType
  <2> HIDE DEF r, go, b
  <2>5. r # s => rx_window[n][r] \in Message
    BY <2>3, <2>4 DEF TypeInv, TypeOK, ReceivedIsStored
  <2>6. \A x : x \in Message => x.id \in Nat
    BY DEF Message
  <2>7. CASE r = s
    BY <2>6, <2>7 DEF r
  <2>8. CASE r # s
    BY <2>5, <2>6, <2>8 DEF r
  <2> QED
    BY <2>7, <2>8
<1> HIDE DEF k, id
<1>7. [j \in 1 .. k |-> id(j)] \in [1 .. k -> Nat]
  BY <1>4
<1> QED
  BY <1>1, <1>5, <1>7, SeqDef

\* The events of a socket are events.
LEMMA EventTypes ==
  /\ PeekEvent \in Event /\ ReadyEvent \in Event
  /\ \A p \in Packet : ArrivalEvent(p) \in Event
BY DEF PeekEvent, ReadyEvent, ArrivalEvent, Event

\* What is taken off and put on a queue keeps its type.
LEMMA QueueTypes ==
  ASSUME NEW S, NEW q \in Seq(S), NEW e \in S
  PROVE  /\ Append(q, e) \in Seq(S)
         /\ q # <<>> => Head(q) \in S /\ Tail(q) \in Seq(S)
BY AppendProperties, HeadTailProperties

\* A peek keeps the types of what it changes.
LEMMA PeekType ==
  ASSUME TypeInv, NEW n \in Node, NEW bottom \in SeqN,
         NEW events \in Seq(Event), NEW delayed \in Nat,
         peek_from_transmit_fifo(n, bottom, events, delayed)
  PROVE  /\ tx_window' \in [Node -> [SeqN -> Message \cup {NoPacket}]]
         /\ tx_window_top' \in [Node -> SeqN]
         /\ transmit_fifo' \in [Node -> Seq(Message)]
         /\ now' \in [Node -> Seq(Event)]
         /\ later' \in [Node -> Nat]
<1>1. CASE CanPeek(n, bottom)
  <2>1. /\ transmit_fifo[n] \in Seq(Message) /\ transmit_fifo[n] # <<>>
        /\ tx_window_top[n] \in SeqN /\ tx_window_top[n] \in Nat
    BY <1>1 DEF CanPeek, TypeInv, TypeOK, SeqN
  <2>2. /\ Head(transmit_fifo[n]) \in Message
        /\ Tail(transmit_fifo[n]) \in Seq(Message)
    BY <2>1, HeadTailProperties
  <2>3. Append(events, ReadyEvent) \in Seq(Event)
    BY EventTypes, AppendProperties
  <2>4. Plus(tx_window_top[n], 1) \in SeqN
    BY <2>1, PlusType
  <2>5. /\ tx_window' =
             [tx_window EXCEPT ![n][tx_window_top[n]] = Head(transmit_fifo[n])]
        /\ tx_window_top' =
             [tx_window_top EXCEPT ![n] = Plus(tx_window_top[n], 1)]
        /\ now' = [now EXCEPT ![n] = Append(events, ReadyEvent)]
        /\ transmit_fifo' = [transmit_fifo EXCEPT ![n] = Tail(transmit_fifo[n])]
        /\ \E d \in {delayed, delayed + 1} : later' = [later EXCEPT ![n] = d]
    BY <1>1 DEF peek_from_transmit_fifo, TypeInv, TypeOK
  <2>6. tx_window' \in [Node -> [SeqN -> Message \cup {NoPacket}]]
    BY <2>1, <2>2, <2>5 DEF TypeInv, TypeOK
  <2>7. tx_window_top' \in [Node -> SeqN] /\ transmit_fifo' \in [Node -> Seq(Message)]
    BY <2>2, <2>4, <2>5 DEF TypeInv, TypeOK
  <2>8. now' \in [Node -> Seq(Event)] /\ later' \in [Node -> Nat]
    BY <2>3, <2>5 DEF TypeInv, TypeOK
  <2> QED
    BY <2>6, <2>7, <2>8
<1>2. CASE ~CanPeek(n, bottom)
  <2>1. /\ now' = [now EXCEPT ![n] = events]
        /\ later' = [later EXCEPT ![n] = delayed]
        /\ UNCHANGED <<tx_window, tx_window_top, transmit_fifo>>
    BY <1>2 DEF peek_from_transmit_fifo
  <2>2. now' \in [Node -> Seq(Event)] /\ later' \in [Node -> Nat]
    BY <2>1 DEF TypeInv, TypeOK
  <2> QED
    BY <2>1, <2>2 DEF TypeInv, TypeOK
<1> QED
  BY <1>1, <1>2

\* A packet given to the device keeps the types.
LEMMA SendSpwType ==
  ASSUME TypeInv, NEW n \in Node, NEW p \in Packet, send_spw(n, p)
  PROVE  wire' \in [Node -> Seq(Packet)] /\ machineState' \in [Node -> {"RUN", "BUSY", "RESET"}]
BY AppendProperties DEF send_spw, TypeInv, TypeOK

\* A transmission keeps the types of what it changes.
LEMMA TransmitType ==
  ASSUME TypeInv, NEW n \in Node, NEW s \in SeqN, NEW q \in Seq(SeqN),
         send_to_physical(n, s, q)
  PROVE  /\ timers' \in [Node -> Seq(SeqN)]
         /\ wire' \in [Node -> Seq(Packet)]
         /\ machineState' \in [Node -> {"RUN", "BUSY", "RESET"}]
<1> DEFINE m == tx_window[n][s]
<1>1. m \in Message
  BY DEF send_to_physical, TypeInv, TypeOK
<1>2. CASE m.payload_len = 0 /\ timers' = [timers EXCEPT ![n] = q] /\ UNCHANGED link_vars
  BY <1>2 DEF link_vars, TypeInv, TypeOK
<1>3. CASE /\ timers' = [timers EXCEPT ![n] = add_new_timer(q, s)]
           /\ send_spw(n, [flag |-> "DTA", seq_number |-> s, msg |-> m])
  <2>1. add_new_timer(q, s) \in Seq(SeqN)
    BY AppendProperties DEF add_new_timer
  <2>2. [flag |-> "DTA", seq_number |-> s, msg |-> m] \in Packet
    BY <1>1 DEF Packet
  <2> HIDE DEF m
  <2>3. wire' \in [Node -> Seq(Packet)] /\ machineState' \in [Node -> {"RUN", "BUSY", "RESET"}]
    BY <1>3, <2>2, SendSpwType
  <2> QED
    BY <1>3, <2>1, <2>3 DEF TypeInv, TypeOK
<1> QED
  BY <1>2, <1>3 DEF send_to_physical

\* What a pending arrival carries is a packet.
LEMMA ArrivalType ==
  ASSUME TypeInv, NEW n \in Node, Starts(n, "PACKET_ARRIVED_FROM_NETWORK")
  PROVE  /\ now[n] \in Seq(Event) /\ now[n] # <<>>
         /\ Tail(now[n]) \in Seq(Event)
         /\ Head(now[n]).seg \in Packet
         /\ Head(now[n]).seg.seq_number \in SeqN
         /\ Head(now[n]).seg.flag = "DTA" => Head(now[n]).seg.msg \in Message
<1>1. now[n] \in Seq(Event) /\ now[n] # <<>>
  BY DEF Starts, TypeInv, TypeOK
<1>2. Head(now[n]) \in Event /\ Tail(now[n]) \in Seq(Event)
  BY <1>1, HeadTailProperties
<1>3. Head(now[n]).event = "PACKET_ARRIVED_FROM_NETWORK"
  BY DEF Starts
<1>4. Head(now[n]).seg \in Packet
  BY <1>2, <1>3 DEF Event
<1> QED
  BY <1>1, <1>2, <1>4 DEF Packet

\* The number of values of the length field is a positive number.
LEMMA LengthField == UINT16_VALUES \in Nat /\ UINT16_VALUES > 0
BY DEF UINT16_VALUES

\* A message is not the null packet.
LEMMA NoPacketIsNoMessage == NoPacket \notin Message
<1>1. \A u \in 0 .. UINT16_VALUES - 1 : u \in Nat
  BY LengthField
<1> QED
  BY <1>1, SocketAssumption DEF Message

\* An acknowledgement keeps the types of what it changes.
LEMMA MarkAckType ==
  ASSUME TypeInv, NEW n \in Node, NEW s \in SeqN, mark_packet_ack(n, s),
         Tail(now[n]) \in Seq(Event)
  PROVE  /\ acknowledged' \in [Node -> [SeqN -> BOOLEAN]]
         /\ timers' \in [Node -> Seq(SeqN)]
         /\ tx_window_bottom' \in [Node -> SeqN]
         /\ tx_window' \in [Node -> [SeqN -> Message \cup {NoPacket}]]
         /\ tx_window_top' \in [Node -> SeqN]
         /\ transmit_fifo' \in [Node -> Seq(Message)]
         /\ now' \in [Node -> Seq(Event)]
         /\ later' \in [Node -> Nat]
<1>1. acknowledged' = [acknowledged EXCEPT ![n][s] = TRUE]
  BY DEF mark_packet_ack
<1>2. timers' \in [Node -> Seq(SeqN)]
  <2>1. cancel_timer(timers[n], s) \in Seq(SeqN)
    BY CancelType DEF TypeInv, TypeOK
  <2>2. timers' = [timers EXCEPT ![n] = cancel_timer(timers[n], s)]
    BY DEF mark_packet_ack, TypeInv, TypeOK
  <2> QED
    BY <2>1, <2>2 DEF TypeInv, TypeOK
<1>3. BottomAfterAck(n, s) \in SeqN
  <2>1. AckSlides(n, s) \in Nat
    BY SlidesMeaning, WindowAssumption DEF AckSlides
  <2>2. tx_window_bottom[n] \in Nat
    BY DEF TypeInv, TypeOK, SeqN
  <2> QED
    BY <2>1, <2>2, PlusType DEF BottomAfterAck
<1>4. tx_window_bottom' = [tx_window_bottom EXCEPT ![n] = BottomAfterAck(n, s)]
  BY DEF mark_packet_ack
<1>5. /\ peek_from_transmit_fifo(n, BottomAfterAck(n, s), Tail(now[n]), later[n])
      /\ later[n] \in Nat
  BY DEF mark_packet_ack, TypeInv, TypeOK
<1>6. /\ tx_window' \in [Node -> [SeqN -> Message \cup {NoPacket}]]
      /\ tx_window_top' \in [Node -> SeqN]
      /\ transmit_fifo' \in [Node -> Seq(Message)]
      /\ now' \in [Node -> Seq(Event)]
      /\ later' \in [Node -> Nat]
  BY <1>3, <1>5, PeekType
<1>7. acknowledged' \in [Node -> [SeqN -> BOOLEAN]]
  BY <1>1 DEF TypeInv, TypeOK
<1>8. tx_window_bottom' \in [Node -> SeqN]
  BY <1>3, <1>4 DEF TypeInv, TypeOK
<1> QED
  BY <1>2, <1>6, <1>7, <1>8

\* A receipt keeps the types of what it changes, and stores what it counts as
\* received.
LEMMA MarkReceiptType ==
  ASSUME TypeInv, NEW n \in Node, NEW s \in SeqN, NEW m \in Message,
         mark_packet_receipt(n, s, m)
  PROVE  /\ rx_window' \in [Node -> [SeqN -> Message \cup {NoPacket}]]
         /\ received' \in [Node -> [SeqN -> BOOLEAN]]
         /\ rx_window_bottom' \in [Node -> SeqN]
         /\ rx_window_top' \in [Node -> SeqN]
         /\ delivered' \in [Node -> Seq(Nat)]
         /\ ReceivedIsStored'
<1> DEFINE k == ReceiptSlides(n, s)
           kept == [r \in SeqN |-> /\ r = s \/ received[n][r]
                                   /\ r \notin Cleared(n, k)]
<1>1. /\ rx_window' = [rx_window EXCEPT ![n][s] = m]
      /\ received' = [received EXCEPT ![n] = kept]
      /\ rx_window_bottom' =
           [rx_window_bottom EXCEPT ![n] = Plus(rx_window_bottom[n], k)]
      /\ rx_window_top' = [rx_window_top EXCEPT ![n] = Plus(rx_window_top[n], k)]
      /\ delivered' =
           [delivered EXCEPT ![n] = delivered[n] \o HandedOver(n, s, m, k)]
  BY DEF mark_packet_receipt, TopAfterReceipt, TypeInv, TypeOK
<1>2. k \in Nat
  BY SlidesMeaning, WindowAssumption DEF ReceiptSlides
<1>3. delivered[n] \o HandedOver(n, s, m, k) \in Seq(Nat)
  BY HandedOverType, ConcatProperties DEF TypeInv, TypeOK
<1> HIDE DEF k
<1>4. Plus(rx_window_bottom[n], k) \in SeqN /\ Plus(rx_window_top[n], k) \in SeqN
  <2>1. rx_window_bottom[n] \in SeqN /\ rx_window_top[n] \in SeqN
    BY DEF TypeInv, TypeOK
  <2>2. SeqN \subseteq Nat
    BY DEF SeqN
  <2> QED
    BY <1>2, <2>1, <2>2, PlusType
<1>5. rx_window' \in [Node -> [SeqN -> Message \cup {NoPacket}]]
  BY <1>1 DEF TypeInv, TypeOK
<1>6. received' \in [Node -> [SeqN -> BOOLEAN]]
  BY <1>1 DEF TypeInv, TypeOK
<1>7. rx_window_bottom' \in [Node -> SeqN] /\ rx_window_top' \in [Node -> SeqN]
  BY <1>1, <1>4 DEF TypeInv, TypeOK
<1>8. delivered' \in [Node -> Seq(Nat)]
  BY <1>1, <1>3 DEF TypeInv, TypeOK
<1>9. ASSUME NEW p \in Node, NEW r \in SeqN, received'[p][r]
      PROVE  rx_window'[p][r] # NoPacket
  <2>1. CASE p = n /\ r = s
    BY <1>1, <2>1, NoPacketIsNoMessage DEF TypeInv, TypeOK
  <2>2. CASE ~(p = n /\ r = s)
    <3>1. received[p][r]
      BY <1>1, <1>9, <2>2 DEF TypeInv, TypeOK
    <3>2. rx_window'[p][r] = rx_window[p][r]
      BY <1>1, <2>2 DEF TypeInv, TypeOK
    <3> QED
      BY <3>1, <3>2 DEF TypeInv, ReceivedIsStored
  <2> QED
    BY <2>1, <2>2
<1> QED
  BY <1>5, <1>6, <1>7, <1>8, <1>9 DEF ReceivedIsStored

\* The types and the stored receipts hold at the start ...
LEMMA InitType == Init => TypeInv
<1> SUFFICES ASSUME Init
             PROVE  TypeInv
  OBVIOUS
<1>1. TypeOK
  BY SeqNBounds, EmptySeq DEF Init, TypeOK
<1>2. ReceivedIsStored
  BY DEF Init, ReceivedIsStored
<1> QED
  BY <1>1, <1>2 DEF TypeInv

\* ... and every step keeps them, whichever action it is.
LEMMA StepType == TypeInv /\ [Next]_vars => TypeInv'
<1> SUFFICES ASSUME TypeInv, [Next]_vars
             PROVE  TypeInv'
  OBVIOUS
<1> USE DEF tx_vars, rx_vars, link_vars, history
<1>1. ASSUME NEW n \in Node, NEW size \in Size, Send(n, size)
      PROVE  TypeInv'
  <2> DEFINE m == [id |-> offered[n] + 1, payload_len |-> size % UINT16_VALUES]
  <2>1. offered[n] + 1 \in Nat
    BY DEF TypeInv, TypeOK
  <2>2. m \in Message
    <3>1. size % UINT16_VALUES \in 0 .. UINT16_VALUES - 1
      BY SocketAssumption, LengthField
    <3> QED
      BY <2>1, <3>1 DEF Message
  <2>3. now' \in [Node -> Seq(Event)]
    BY <1>1, EventTypes, AppendProperties DEF Send, TypeInv, TypeOK
  <2>4. transmit_fifo' \in [Node -> Seq(Message)]
    <3> HIDE DEF m
    <3>1. CASE transmit_fifo' = [transmit_fifo EXCEPT ![n] = Append(@, m)]
      BY <2>2, <3>1, AppendProperties DEF TypeInv, TypeOK
    <3>2. CASE UNCHANGED transmit_fifo
      BY <3>2 DEF TypeInv, TypeOK
    <3> QED
      BY <1>1, <3>1, <3>2 DEF Send, m
  <2>5. sent' \in [Node -> Seq(Nat)]
    <3> DEFINE id == offered[n] + 1
    <3> HIDE DEF id
    <3>1. CASE sent' = [sent EXCEPT ![n] = Append(@, id)]
      BY <2>1, <3>1, AppendProperties DEF TypeInv, TypeOK, id
    <3>2. CASE UNCHANGED sent
      BY <3>2 DEF TypeInv, TypeOK
    <3> QED
      BY <1>1, <3>1, <3>2 DEF Send, id
  <2>6. offered' \in [Node -> Nat]
    BY <1>1, <2>1 DEF Send, TypeInv, TypeOK
  <2> HIDE DEF m
  <2>7. UNCHANGED <<setting, alive, state, tx_vars, rx_vars, timers, draining, later,
                    link_vars, delivered, cuts>>
    BY <1>1 DEF Send
  <2> QED
    BY <2>7, <2>3, <2>4, <2>5, <2>6 DEF TypeInv, TypeOK, ReceivedIsStored
<1>2. ASSUME NEW n \in Node, Close(n)
      PROVE  TypeInv'
  <2>1. NextNumbered(n) \in Nat
    <3>1. transmit_fifo[n] # <<>> => Head(transmit_fifo[n]) \in Message
      BY HeadTailProperties DEF TypeInv, TypeOK
    <3> QED
      BY <3>1 DEF NextNumbered, Message, TypeInv, TypeOK
  <2>2. cuts' \in [Node -> SUBSET Nat]
    BY <1>2, <2>1 DEF Close, TypeInv, TypeOK
  <2> QED
    BY <1>2, <2>2, SeqNBounds DEF Close, TypeInv, TypeOK, ReceivedIsStored
<1>3. ASSUME NEW n \in Node, Open(n)
      PROVE  TypeInv'
  BY <1>3 DEF Open, TypeInv, TypeOK, ReceivedIsStored
<1>4. ASSUME NEW n \in Node, Peek(n)
      PROVE  TypeInv'
  <2>1. /\ now[n] \in Seq(Event) /\ now[n] # <<>>
        /\ tx_window_bottom[n] \in SeqN /\ later[n] \in Nat
    BY <1>4 DEF Peek, Starts, TypeInv, TypeOK
  <2>2. Tail(now[n]) \in Seq(Event)
    BY <2>1, HeadTailProperties
  <2>3. peek_from_transmit_fifo(n, tx_window_bottom[n], Tail(now[n]), later[n])
    BY <1>4 DEF Peek
  <2>4. /\ tx_window' \in [Node -> [SeqN -> Message \cup {NoPacket}]]
        /\ tx_window_top' \in [Node -> SeqN]
        /\ transmit_fifo' \in [Node -> Seq(Message)]
        /\ now' \in [Node -> Seq(Event)]
        /\ later' \in [Node -> Nat]
    BY <2>1, <2>2, <2>3, PeekType
  <2>5. draining' \in [Node -> BOOLEAN]
    BY <1>4 DEF Peek, Finish, TypeInv, TypeOK
  <2> QED
    BY <1>4, <2>4, <2>5 DEF Peek, TypeInv, TypeOK, ReceivedIsStored
<1>5. ASSUME NEW n \in Node, ApplicationPacketReady(n)
      PROVE  TypeInv'
  <2> DEFINE s == Plus(tx_window_top[n], MAX_SEQ_N - 1)
  <2>1. s \in SeqN
    <3>1. tx_window_top[n] \in Nat
      BY DEF TypeInv, TypeOK, SeqN
    <3>2. MAX_SEQ_N - 1 \in Nat
      BY WindowAssumption
    <3> QED
      BY <3>1, <3>2, PlusType
  <2>2. timers[n] \in Seq(SeqN) /\ now[n] \in Seq(Event) /\ now[n] # <<>>
    BY <1>5 DEF ApplicationPacketReady, Starts, TypeInv, TypeOK
  <2> HIDE DEF s
  <2>3. /\ timers' \in [Node -> Seq(SeqN)]
        /\ wire' \in [Node -> Seq(Packet)]
        /\ machineState' \in [Node -> {"RUN", "BUSY", "RESET"}]
    BY <1>5, <2>1, <2>2, TransmitType DEF ApplicationPacketReady, s
  <2>4. now' \in [Node -> Seq(Event)]
    BY <1>5, <2>2, HeadTailProperties DEF ApplicationPacketReady, TypeInv, TypeOK
  <2>5. draining' \in [Node -> BOOLEAN]
    BY <1>5 DEF ApplicationPacketReady, Finish, TypeInv, TypeOK
  <2> QED
    BY <1>5, <2>3, <2>4, <2>5
    DEF ApplicationPacketReady, TypeInv, TypeOK, ReceivedIsStored
<1>6. ASSUME NEW n \in Node, AckArrived(n)
      PROVE  TypeInv'
  <2> DEFINE s == Head(now[n]).seg.seq_number
  <2>1. s \in SeqN /\ Tail(now[n]) \in Seq(Event)
    BY <1>6, ArrivalType DEF AckArrived
  <2> HIDE DEF s
  <2>2. draining' \in [Node -> BOOLEAN]
    BY <1>6 DEF AckArrived, Finish, TypeInv, TypeOK
  <2>3. CASE mark_packet_ack(n, s)
    <3>1. /\ acknowledged' \in [Node -> [SeqN -> BOOLEAN]]
          /\ timers' \in [Node -> Seq(SeqN)]
          /\ tx_window_bottom' \in [Node -> SeqN]
          /\ tx_window' \in [Node -> [SeqN -> Message \cup {NoPacket}]]
          /\ tx_window_top' \in [Node -> SeqN]
          /\ transmit_fifo' \in [Node -> Seq(Message)]
          /\ now' \in [Node -> Seq(Event)]
          /\ later' \in [Node -> Nat]
      BY <2>1, <2>3, MarkAckType
    <3> QED
      BY <1>6, <2>2, <3>1 DEF AckArrived, TypeInv, TypeOK, ReceivedIsStored
  <2>4. CASE /\ now' = [now EXCEPT ![n] = Tail(@)]
             /\ UNCHANGED <<tx_vars, transmit_fifo, timers, later>>
    <3>1. now' \in [Node -> Seq(Event)]
      BY <2>1, <2>4 DEF TypeInv, TypeOK
    <3> QED
      BY <1>6, <2>2, <2>4, <3>1 DEF AckArrived, TypeInv, TypeOK, ReceivedIsStored
  <2> QED
    BY <1>6, <2>3, <2>4 DEF AckArrived, s
<1>7. ASSUME NEW n \in Node, DataArrived(n)
      PROVE  TypeInv'
  <2> DEFINE s == Head(now[n]).seg.seq_number
             m == Head(now[n]).seg.msg
             ack == [flag |-> "ACK", seq_number |-> s]
  <2>1. s \in SeqN /\ m \in Message /\ Tail(now[n]) \in Seq(Event)
    BY <1>7, ArrivalType DEF DataArrived
  <2>2. ack \in Packet
    BY <2>1 DEF Packet
  <2> HIDE DEF s, m, ack
  <2>3. wire' \in [Node -> Seq(Packet)] /\ machineState' \in [Node -> {"RUN", "BUSY", "RESET"}]
    BY <1>7, <2>2, SendSpwType DEF DataArrived, s, ack
  <2>4. now' \in [Node -> Seq(Event)]
    BY <1>7, <2>1 DEF DataArrived, TypeInv, TypeOK
  <2>5. draining' \in [Node -> BOOLEAN]
    BY <1>7 DEF DataArrived, Finish, TypeInv, TypeOK
  <2>6. /\ rx_window' \in [Node -> [SeqN -> Message \cup {NoPacket}]]
        /\ received' \in [Node -> [SeqN -> BOOLEAN]]
        /\ rx_window_bottom' \in [Node -> SeqN]
        /\ rx_window_top' \in [Node -> SeqN]
        /\ delivered' \in [Node -> Seq(Nat)]
        /\ ReceivedIsStored'
    <3>1. CASE mark_packet_receipt(n, s, m)
      BY <2>1, <3>1, MarkReceiptType
    <3>2. CASE UNCHANGED <<rx_vars, delivered>>
      BY <3>2 DEF TypeInv, TypeOK, ReceivedIsStored
    <3> QED
      BY <1>7, <3>1, <3>2 DEF DataArrived, s, m
  <2> QED
    BY <1>7, <2>3, <2>4, <2>5, <2>6 DEF DataArrived, TypeInv, TypeOK
<1>8. ASSUME NEW n \in Node, LaterPeek(n)
      PROVE  TypeInv'
  <2>1. /\ now[n] \in Seq(Event) /\ tx_window_bottom[n] \in SeqN
        /\ later[n] - 1 \in Nat
        /\ peek_from_transmit_fifo(n, tx_window_bottom[n], now[n], later[n] - 1)
    BY <1>8 DEF LaterPeek, TypeInv, TypeOK
  <2>2. /\ tx_window' \in [Node -> [SeqN -> Message \cup {NoPacket}]]
        /\ tx_window_top' \in [Node -> SeqN]
        /\ transmit_fifo' \in [Node -> Seq(Message)]
        /\ now' \in [Node -> Seq(Event)]
        /\ later' \in [Node -> Nat]
    BY <2>1, PeekType
  <2> QED
    BY <1>8, <2>2 DEF LaterPeek, TypeInv, TypeOK, ReceivedIsStored
<1>9. ASSUME NEW n \in Node, TimerInterrupt(n)
      PROVE  TypeInv'
  <2>1. timers[n] \in Seq(SeqN) /\ timers[n] # <<>>
    BY <1>9 DEF TimerInterrupt, TypeInv, TypeOK
  <2>2. Head(timers[n]) \in SeqN /\ Tail(timers[n]) \in Seq(SeqN)
    BY <2>1, HeadTailProperties
  <2>3. /\ timers' \in [Node -> Seq(SeqN)]
        /\ wire' \in [Node -> Seq(Packet)]
        /\ machineState' \in [Node -> {"RUN", "BUSY", "RESET"}]
    BY <1>9, <2>2, TransmitType DEF TimerInterrupt
  <2> QED
    BY <1>9, <2>3 DEF TimerInterrupt, TypeInv, TypeOK, ReceivedIsStored
<1>10. ASSUME NEW n \in Node, SpwReady(n)
       PROVE  TypeInv'
  <2>1. now' \in [Node -> Seq(Event)] /\ machineState' \in [Node -> {"RUN", "BUSY", "RESET"}]
    BY <1>10, EventTypes, AppendProperties DEF SpwReady, TypeInv, TypeOK
  <2> QED
    BY <1>10, <2>1 DEF SpwReady, TypeInv, TypeOK, ReceivedIsStored
<1>11. ASSUME NEW n \in Node, NEW i \in 1 .. Len(wire[n]), Deliver(n, i)
       PROVE  TypeInv'
  <2>1. wire[n] \in Seq(Packet)
    BY DEF TypeInv, TypeOK
  <2>2. wire[n][i] \in Packet /\ RemoveAt(wire[n], i) \in Seq(Packet)
    BY <2>1, RemoveAtType, ElementOfSeq
  <2>3. now' \in [Node -> Seq(Event)]
    BY <1>11, <2>2, PeerType, EventTypes, AppendProperties
    DEF Deliver, TypeInv, TypeOK
  <2>4. wire' \in [Node -> Seq(Packet)]
    BY <1>11, <2>2 DEF Deliver, TypeInv, TypeOK
  <2> QED
    BY <1>11, <2>3, <2>4 DEF Deliver, TypeInv, TypeOK, ReceivedIsStored
<1>12. ASSUME NEW n \in Node, NEW i \in 1 .. Len(wire[n]), Lose(n, i)
       PROVE  TypeInv'
  <2>1. RemoveAt(wire[n], i) \in Seq(Packet)
    BY <1>12, RemoveAtType DEF TypeInv, TypeOK
  <2>2. wire' \in [Node -> Seq(Packet)]
    BY <1>12, <2>1 DEF Lose, TypeInv, TypeOK
  <2> QED
    BY <1>12, <2>2 DEF Lose, TypeInv, TypeOK, ReceivedIsStored
<1>13. ASSUME NEW n \in Node, UndefinedAccess(n)
       PROVE  TypeInv'
  BY <1>13 DEF UndefinedAccess, TypeInv, TypeOK, ReceivedIsStored
<1>14. CASE UNCHANGED vars
  BY <1>14 DEF vars, TypeInv, TypeOK, ReceivedIsStored
<1> QED
  BY <1>1, <1>2, <1>3, <1>4, <1>5, <1>6, <1>7, <1>8, <1>9, <1>10, <1>11, <1>12,
     <1>13, <1>14 DEF Next

\* Both hold in every behaviour.
LEMMA TypeInvariant == Spec => []TypeInv
BY InitType, StepType, PTL DEF Spec

\* The variables keep their types, whatever the order of calls, events, losses
\* and retransmissions: the windows stay on the circle of sequence numbers and
\* the loop of mark_packet_receipt hands over messages only.
THEOREM TypeCorrect == Spec => []TypeOK
<1>1. TypeInv => TypeOK
  BY DEF TypeInv
<1> QED
  BY <1>1, TypeInvariant, PTL

\* A number counted as received always has its message in rx_window: the loop
\* of mark_packet_receipt never gives send_to_application a null packet.
THEOREM StoredReceipts == Spec => []ReceivedIsStored
<1>1. TypeInv => ReceivedIsStored
  BY DEF TypeInv
<1> QED
  BY <1>1, TypeInvariant, PTL

-----------------------------------------------------------------------------
\* The receive window of a closed socket is empty.
ClosedWindow ==
  \A n \in Node : state[n] = "CLOSED" =>
    rx_window_bottom[n] = 0 /\ rx_window_top[n] = 0

\* No number is in an empty window.
LEMMA EmptyWindow ==
  ASSUME NEW b \in SeqN, NEW s \in SeqN
  PROVE  ~in_window(b, b, s)
BY DEF in_window, SeqN

\* The actions that leave the receive side and the application alone.
NoReceipt(n) ==
  \/ \E size \in Size : Send(n, size)
  \/ Peek(n)
  \/ ApplicationPacketReady(n)
  \/ AckArrived(n)
  \/ LaterPeek(n)
  \/ TimerInterrupt(n)
  \/ SpwReady(n)
  \/ \E i \in 1 .. Len(wire[n]) : Deliver(n, i) \/ Lose(n, i)
  \/ UndefinedAccess(n)

\* They do.
LEMMA NoReceiptFrame ==
  ASSUME NEW n \in Node, NoReceipt(n)
  PROVE  UNCHANGED <<state, rx_window_bottom, rx_window_top, delivered>>
BY DEF NoReceipt, Send, Peek, ApplicationPacketReady, AckArrived, LaterPeek,
       TimerInterrupt, SpwReady, Deliver, Lose, UndefinedAccess, rx_vars, history

\* A step keeps the windows of closed sockets empty and hands nothing to an
\* application whose socket is closed.
LEMMA ClosedStep ==
  ASSUME TypeInv, ClosedWindow, [Next]_vars
  PROVE  /\ ClosedWindow'
         /\ \A n \in Node : state[n] = "CLOSED" => delivered'[n] = delivered[n]
<1> USE DEF ClosedWindow
<1>1. ASSUME NEW n \in Node, NoReceipt(n)
      PROVE  UNCHANGED <<state, rx_window_bottom, rx_window_top, delivered>>
  BY <1>1, NoReceiptFrame
<1>2. ASSUME NEW n \in Node, Close(n)
      PROVE  ClosedWindow' /\ UNCHANGED delivered
  BY <1>2 DEF Close, history, TypeInv, TypeOK
<1>3. ASSUME NEW n \in Node, Open(n)
      PROVE  ClosedWindow' /\ UNCHANGED delivered
  BY <1>3 DEF Open, rx_vars, history, TypeInv, TypeOK
<1>4. ASSUME NEW n \in Node, DataArrived(n)
      PROVE  /\ ClosedWindow'
             /\ \A p \in Node : state[p] = "CLOSED" => delivered'[p] = delivered[p]
  <2> DEFINE s == Head(now[n]).seg.seq_number
             m == Head(now[n]).seg.msg
  <2>1. s \in SeqN
    BY <1>4, ArrivalType DEF DataArrived
  <2>2. UNCHANGED state
    BY <1>4 DEF DataArrived
  <2>3. CASE UNCHANGED <<rx_vars, delivered>>
    BY <2>2, <2>3 DEF rx_vars
  <2>4. CASE FreshData(n, s) /\ mark_packet_receipt(n, s, m)
    <3>1. state[n] # "CLOSED"
      BY <2>1, <2>4, SeqNBounds, EmptyWindow DEF FreshData
    <3>2. ASSUME NEW p \in Node, p # n
          PROVE  /\ rx_window_bottom'[p] = rx_window_bottom[p]
                 /\ rx_window_top'[p] = rx_window_top[p]
                 /\ delivered'[p] = delivered[p]
      BY <2>4, <3>2 DEF mark_packet_receipt, TypeInv, TypeOK
    <3> QED
      BY <2>2, <3>1, <3>2
  <2> QED
    BY <1>4, <2>3, <2>4 DEF DataArrived
<1>5. CASE UNCHANGED vars
  BY <1>5 DEF vars, rx_vars, history
<1> QED
  BY <1>1, <1>2, <1>3, <1>4, <1>5 DEF Next, NoReceipt

\* After close the application of a node is handed nothing more, whatever was
\* on its way, until open is called (close, in_rx_window).
THEOREM ClosedSilence == Spec => ClosedIsSilent
<1>1. Init => ClosedWindow
  BY DEF Init, ClosedWindow
<1>2. TypeInv /\ ClosedWindow /\ [Next]_vars => ClosedWindow'
  BY ClosedStep
<1>3. TypeInv /\ ClosedWindow /\ [Next]_vars =>
        [\A n \in Node : state[n] = "CLOSED" => delivered'[n] = delivered[n]]_vars
  BY ClosedStep
<1> QED
  BY <1>1, <1>2, <1>3, TypeInvariant, PTL DEF Spec, ClosedIsSilent

-----------------------------------------------------------------------------
(***************************************************************************)
(* The two windows of a socket never outgrow WINDOW_SZ, and the loop of    *)
(* mark_packet_ack ends, for every circle at least two windows long.       *)
(*                                                                         *)
(* On the sending side this rests on what happens at the end of the        *)
(* circle.  Before the top wraps everything below the bottom is            *)
(* acknowledged and nothing above the top is looked at.  Once the top has  *)
(* wrapped the bottom follows only from the last number of the circle;     *)
(* from then on acknowledged, which is never cleared, holds for all the    *)
(* numbers the window may get, and it moves no more.                       *)
(***************************************************************************)

\* What is inductive about a transmit window from b to t with acknowledgements a.
TxFit(b, t, a) ==
  /\ Dist(b, t) <= WINDOW_SZ
  /\ b > t => t = 0
  /\ \A r \in SeqN : r < b => a[r]
  /\ a[MAX_SEQ_N - 1] => /\ \A r \in 0 .. WINDOW_SZ - 1 : a[r]
                         /\ (t = 0 /\ b > 0) \/ (b = 0 /\ t <= WINDOW_SZ)

WindowInv ==
  \A n \in Node :
    /\ TxFit(tx_window_bottom[n], tx_window_top[n], acknowledged[n])
    /\ Dist(rx_window_bottom[n], rx_window_top[n]) <= WINDOW_SZ

\* Going up less than a whole circle wraps at most once.
LEMMA PlusCases ==
  ASSUME NEW b \in SeqN, NEW k \in 0 .. MAX_SEQ_N
  PROVE  Plus(b, k) = IF b + k < MAX_SEQ_N THEN b + k ELSE b + k - MAX_SEQ_N
<1>1. CASE b + k < MAX_SEQ_N
  BY <1>1 DEF Plus, SeqN
<1>2. CASE b + k >= MAX_SEQ_N
  <2>1. /\ b + k - MAX_SEQ_N \in 0 .. MAX_SEQ_N - 1
        /\ b + k = MAX_SEQ_N + (b + k - MAX_SEQ_N)
    BY <1>2 DEF SeqN
  <2> QED
    BY <1>2, <2>1 DEF Plus, SeqN
<1> QED
  BY <1>1, <1>2 DEF SeqN

\* A window whose ends move together keeps its length.
LEMMA MoveTogether ==
  ASSUME NEW b \in SeqN, NEW t \in SeqN, NEW k \in 0 .. MAX_SEQ_N
  PROVE  Dist(Plus(b, k), Plus(t, k)) = Dist(b, t)
BY PlusCases DEF Dist, SeqN

\* A peek keeps the window.
LEMMA PeekFits ==
  ASSUME NEW b \in SeqN, NEW t \in SeqN, NEW a, TxFit(b, t, a),
         tx_sliding_window_have_space(b, t)
  PROVE  TxFit(b, Plus(t, 1), a)
<1>1. b <= t /\ t - b < WINDOW_SZ
  BY DEF tx_sliding_window_have_space, SeqN
<1>2. Plus(t, 1) = IF t = MAX_SEQ_N - 1 THEN 0 ELSE t + 1
  BY PlusCases DEF SeqN
<1>3. Dist(b, Plus(t, 1)) <= WINDOW_SZ
  BY SpaceIsRoom
<1> QED
  BY <1>1, <1>2, <1>3 DEF TxFit, SeqN

\* The condition of the loop of mark_packet_ack after j turns, once s is
\* acknowledged.
Goes(b, t, a, s) ==
  [j \in 0 .. MAX_SEQ_N - 1 |-> /\ Plus(b, j) = s \/ a[Plus(b, j)]
                                /\ Plus(b, j + 1) <= t]

\* An acknowledgement that counts keeps the window, and its loop ends.
LEMMA AckFits ==
  ASSUME 2 * WINDOW_SZ <= MAX_SEQ_N,
         NEW b \in SeqN, NEW t \in SeqN, NEW a \in [SeqN -> BOOLEAN], TxFit(b, t, a),
         NEW s \in SeqN, in_window(b, t, s), ~a[s]
  PROVE  LET k == Slides(Goes(b, t, a, s))
         IN  k < MAX_SEQ_N /\ TxFit(Plus(b, k), t, [a EXCEPT ![s] = TRUE])
<1> DEFINE go == Goes(b, t, a, s)
           k == Slides(go)
           a1 == [a EXCEPT ![s] = TRUE]
           last == MAX_SEQ_N - 1
<1>1. /\ k \in 0 .. MAX_SEQ_N
      /\ \A j \in 0 .. k - 1 : go[j]
      /\ k < MAX_SEQ_N => ~go[k]
  BY SlidesMeaning
<1>2. \A j \in 0 .. last :
        go[j] <=> /\ Plus(b, j) = s \/ a[Plus(b, j)]
                  /\ Plus(b, j + 1) <= t
  BY DEF Goes
<1>3. /\ b \in Nat /\ t \in Nat /\ s \in Nat /\ b <= last /\ t <= last /\ s <= last
      /\ MAX_SEQ_N \in Nat /\ MAX_SEQ_N > 1 /\ last \in SeqN
  BY DEF SeqN
<1>4. \A j \in 0 .. MAX_SEQ_N :
        Plus(b, j) = IF b + j < MAX_SEQ_N THEN b + j ELSE b + j - MAX_SEQ_N
  BY PlusCases
<1>5. /\ a1 \in [SeqN -> BOOLEAN] /\ a1[s]
      /\ \A r \in SeqN : r # s => a1[r] = a[r]
  OBVIOUS
<1> HIDE DEF k, go, a1
\* The last number of the circle counted as acknowledged before: nothing in the
\* window did not.
<1>6. ASSUME a[last] PROVE k = 0 /\ TxFit(b, t, a1)
  <2>1. t = 0 /\ b > 0
    <3>1. CASE b = 0 /\ t <= WINDOW_SZ
      <4>1. s \in 0 .. WINDOW_SZ - 1
        BY <1>3, <3>1 DEF in_window
      <4> QED
        BY <1>6, <4>1 DEF TxFit
    <3> QED
      BY <1>6, <3>1 DEF TxFit
  <2>2. s # last /\ s >= b
    BY <1>3, <1>6, <2>1 DEF in_window
  <2>3. b # last
    BY <1>3, <2>2
  <2>4. ~go[0]
    BY <1>2, <1>3, <1>4, <2>1, <2>3
  <2>5. k = 0
    BY <1>1, <1>3, <2>4
  <2>6. TxFit(b, t, a1)
    BY <1>3, <1>5, <1>6, <2>1 DEF TxFit, SeqN
  <2> QED
    BY <2>5, <2>6
\* The last number is acknowledged now: the top has wrapped.
<1>7. ASSUME ~a[last], s = last PROVE k < MAX_SEQ_N /\ TxFit(Plus(b, k), t, a1)
  <2>1. b > t /\ t = 0
    BY <1>3, <1>7 DEF in_window, TxFit
  <2>2. MAX_SEQ_N - b <= WINDOW_SZ
    BY <1>3, <2>1 DEF TxFit, Dist
  <2>3. \A r \in 0 .. WINDOW_SZ - 1 : a1[r]
    <3> SUFFICES ASSUME NEW r \in 0 .. WINDOW_SZ - 1 PROVE a1[r]
      OBVIOUS
    <3>1. r \in SeqN /\ r < b /\ r # s
      BY <1>3, <1>7, <2>2 DEF SeqN
    <3> QED
      BY <1>5, <3>1 DEF TxFit
  <2>4. \A r \in SeqN : r < b => a1[r]
    BY <1>3, <1>5 DEF TxFit
  <2>5. CASE b = last
    <3>1. go[0] /\ ~go[1]
      BY <1>2, <1>3, <1>4, <1>7, <2>1, <2>5
    <3>2. k = 1
      BY <1>1, <1>3, <3>1
    <3>3. Plus(b, 1) = 0
      BY <1>3, <1>4, <2>5
    <3> QED
      BY <1>3, <2>1, <2>3, <3>2, <3>3 DEF TxFit, Dist, SeqN
  <2>6. CASE b # last
    <3>1. ~go[0]
      BY <1>2, <1>3, <1>4, <2>1, <2>6
    <3>2. k = 0 /\ Plus(b, 0) = b
      BY <1>1, <1>3, <1>4, <3>1
    <3> QED
      BY <1>3, <2>1, <2>3, <2>4, <3>2 DEF TxFit
  <2> QED
    BY <2>5, <2>6
\* It is not acknowledged: the bottom stops at the top.
<1>8. ASSUME ~a[last], s # last PROVE k < MAX_SEQ_N /\ TxFit(Plus(b, k), t, a1)
  <2>1. ~a1[last]
    BY <1>3, <1>5, <1>8
  <2>2. \A r \in SeqN : r < b => a1[r]
    BY <1>3, <1>5 DEF TxFit
  <2>3. CASE b > t
    <3>1. t = 0
      BY <2>3 DEF TxFit
    <3>2. ~go[0]
      BY <1>2, <1>3, <1>4, <1>8, <2>3, <3>1
    <3>3. k = 0 /\ Plus(b, 0) = b
      BY <1>1, <1>3, <1>4, <3>2
    <3> QED
      BY <1>3, <2>1, <2>2, <3>3 DEF TxFit
  <2>4. CASE b <= t
    <3>1. ~go[t - b]
      <4>1. Plus(b, t - b) = t /\ t - b \in 0 .. last
        BY <1>3, <1>4, <2>4
      <4>2. CASE t = last
        BY <1>2, <1>8, <4>1, <4>2
      <4>3. CASE t < last
        <5>1. Plus(b, (t - b) + 1) = t + 1
          BY <1>3, <1>4, <2>4, <4>3
        <5> QED
          BY <1>2, <1>3, <4>1, <5>1
      <4> QED
        BY <1>3, <4>2, <4>3
    <3>2. k <= t - b
      BY <1>1, <1>3, <2>4, <3>1
    <3>3. Plus(b, k) = b + k /\ b + k <= t
      BY <1>1, <1>3, <1>4, <3>2
    <3>4. \A r \in SeqN : r < b + k => a1[r]
      <4> SUFFICES ASSUME NEW r \in SeqN, r < b + k, r >= b PROVE a1[r]
        BY <1>1, <1>3, <2>2 DEF SeqN
      <4>1. r - b \in 0 .. k - 1 /\ r - b \in 0 .. last /\ Plus(b, r - b) = r
        BY <1>1, <1>3, <1>4 DEF SeqN
      <4>2. r = s \/ a[r]
        BY <1>1, <1>2, <4>1
      <4> QED
        BY <1>5, <4>2
    <3>5. Dist(b + k, t) <= WINDOW_SZ
      BY <1>1, <1>3, <2>4, <3>3 DEF TxFit, Dist
    <3> QED
      BY <1>1, <1>3, <2>1, <3>2, <3>3, <3>4, <3>5 DEF TxFit
  <2> QED
    BY <1>3, <2>3, <2>4
<1>9. k = 0 => k < MAX_SEQ_N /\ Plus(b, k) = b
  BY <1>3, <1>4
<1> QED
  BY <1>6, <1>7, <1>8, <1>9 DEF k, go, a1

-----------------------------------------------------------------------------
(***************************************************************************)
(* The steps.                                                              *)
(***************************************************************************)

\* A peek that finds the bottom of the window at bottom and acknowledgements a.
LEMMA PeekStep ==
  ASSUME TypeInv, NEW n \in Node, NEW bottom \in SeqN, NEW a,
         TxFit(bottom, tx_window_top[n], a),
         NEW events, NEW delayed, peek_from_transmit_fifo(n, bottom, events, delayed)
  PROVE  /\ TxFit(bottom, tx_window_top'[n], a)
         /\ \A m \in Node : m # n => tx_window_top'[m] = tx_window_top[m]
<1>1. tx_window_top[n] \in SeqN /\ tx_window_top \in [Node -> SeqN]
  BY DEF TypeInv, TypeOK
<1>2. CASE CanPeek(n, bottom)
  <2>1. TxFit(bottom, Plus(tx_window_top[n], 1), a)
    BY <1>1, <1>2, PeekFits DEF CanPeek
  <2>2. tx_window_top' = [tx_window_top EXCEPT ![n] = Plus(tx_window_top[n], 1)]
    BY <1>1, <1>2 DEF peek_from_transmit_fifo
  <2> QED
    BY <1>1, <2>1, <2>2
<1>3. CASE ~CanPeek(n, bottom)
  BY <1>3 DEF peek_from_transmit_fifo
<1> QED
  BY <1>2, <1>3

\* Both windows of both nodes are as they were.
SameWindows == UNCHANGED <<tx_window_bottom, tx_window_top, acknowledged,
                           rx_window_bottom, rx_window_top>>

\* The actions that leave them so.
OtherSteps(n) ==
  \/ \E size \in Size : Send(n, size)
  \/ Open(n)
  \/ ApplicationPacketReady(n)
  \/ TimerInterrupt(n)
  \/ SpwReady(n)
  \/ \E i \in 1 .. Len(wire[n]) : Deliver(n, i) \/ Lose(n, i)
  \/ UndefinedAccess(n)

LEMMA OtherFrame ==
  ASSUME NEW n \in Node, OtherSteps(n)
  PROVE  SameWindows
BY DEF OtherSteps, SameWindows, Send, Open, ApplicationPacketReady, TimerInterrupt,
       SpwReady, Deliver, Lose, UndefinedAccess, tx_vars, rx_vars

\* Two fresh windows on both sides of a node fit.
LEMMA CloseStep ==
  ASSUME TypeInv, WindowInv, NEW n \in Node, Close(n)
  PROVE  WindowInv'
<1>1. /\ tx_window_bottom' = [tx_window_bottom EXCEPT ![n] = 0]
      /\ tx_window_top' = [tx_window_top EXCEPT ![n] = 0]
      /\ rx_window_bottom' = [rx_window_bottom EXCEPT ![n] = 0]
      /\ rx_window_top' = [rx_window_top EXCEPT ![n] = 0]
      /\ acknowledged' = acknowledged
  BY DEF Close
<1>2. \A m \in Node : m # n =>
        /\ tx_window_bottom'[m] = tx_window_bottom[m]
        /\ tx_window_top'[m] = tx_window_top[m]
        /\ rx_window_bottom'[m] = rx_window_bottom[m]
        /\ rx_window_top'[m] = rx_window_top[m]
  BY <1>1 DEF TypeInv, TypeOK
<1>3. /\ tx_window_bottom'[n] = 0 /\ tx_window_top'[n] = 0
      /\ rx_window_bottom'[n] = 0 /\ rx_window_top'[n] = 0
  BY <1>1 DEF TypeInv, TypeOK
<1>4. TxFit(0, 0, acknowledged[n]) /\ Dist(0, 0) <= WINDOW_SZ
  BY DEF WindowInv, TxFit, Dist, SeqN
<1> QED
  BY <1>1, <1>2, <1>3, <1>4 DEF WindowInv

\* A peek of its own, now or delayed.
LEMMA PeekOnlyStep ==
  ASSUME TypeInv, WindowInv, NEW n \in Node, Peek(n) \/ LaterPeek(n)
  PROVE  WindowInv'
<1>1. /\ tx_window_bottom' = tx_window_bottom /\ acknowledged' = acknowledged
      /\ rx_window_bottom' = rx_window_bottom /\ rx_window_top' = rx_window_top
      /\ \E events, delayed :
           peek_from_transmit_fifo(n, tx_window_bottom[n], events, delayed)
  BY DEF Peek, LaterPeek, rx_vars
<1>2. tx_window_bottom[n] \in SeqN
  BY DEF TypeInv, TypeOK
<1>3. TxFit(tx_window_bottom[n], tx_window_top[n], acknowledged[n])
  BY DEF WindowInv
<1>4. /\ TxFit(tx_window_bottom[n], tx_window_top'[n], acknowledged[n])
      /\ \A m \in Node : m # n => tx_window_top'[m] = tx_window_top[m]
  BY <1>1, <1>2, <1>3, PeekStep
<1> QED
  BY <1>1, <1>4 DEF WindowInv

\* The loop of mark_packet_ack is the loop of AckFits.
LEMMA SlidesOfAck ==
  ASSUME NEW n \in Node, NEW s
  PROVE  AckSlides(n, s)
           = Slides(Goes(tx_window_bottom[n], tx_window_top[n], acknowledged[n], s))
BY DEF AckSlides, Goes

\* An acknowledgement that counts.
LEMMA MarkAckStep ==
  ASSUME 2 * WINDOW_SZ <= MAX_SEQ_N,
         TypeInv, WindowInv, NEW n \in Node, NEW s \in SeqN, FreshAck(n, s)
  PROVE  /\ AckSlides(n, s) < MAX_SEQ_N
         /\ BottomAfterAck(n, s) \in SeqN
         /\ TxFit(BottomAfterAck(n, s), tx_window_top[n],
                  [acknowledged[n] EXCEPT ![s] = TRUE])
<1> DEFINE b == tx_window_bottom[n]
           t == tx_window_top[n]
           a == acknowledged[n]
<1>1. b \in SeqN /\ t \in SeqN /\ a \in [SeqN -> BOOLEAN]
  BY DEF TypeInv, TypeOK
<1>2. TxFit(b, t, a)
  BY DEF WindowInv
<1>3. in_window(b, t, s) /\ ~a[s]
  BY DEF FreshAck
<1>4. AckSlides(n, s) = Slides(Goes(b, t, a, s))
  BY SlidesOfAck
<1>5. BottomAfterAck(n, s) = Plus(b, Slides(Goes(b, t, a, s)))
  BY <1>4 DEF BottomAfterAck
<1> HIDE DEF b, t, a
<1>6. LET k == Slides(Goes(b, t, a, s))
      IN  k < MAX_SEQ_N /\ TxFit(Plus(b, k), t, [a EXCEPT ![s] = TRUE])
  BY <1>1, <1>2, <1>3, AckFits
<1>7. Plus(b, Slides(Goes(b, t, a, s))) \in SeqN
  <2>1. Slides(Goes(b, t, a, s)) \in Nat /\ b \in Nat
    BY <1>1, SlidesMeaning DEF SeqN
  <2> QED
    BY <2>1, PlusType
<1> QED
  BY <1>4, <1>5, <1>6, <1>7 DEF t, a

LEMMA AckStep ==
  ASSUME 2 * WINDOW_SZ <= MAX_SEQ_N,
         TypeInv, WindowInv, NEW n \in Node, AckArrived(n)
  PROVE  WindowInv'
<1> DEFINE s == Head(now[n]).seg.seq_number
           bottom == BottomAfterAck(n, s)
           a1 == [acknowledged[n] EXCEPT ![s] = TRUE]
<1>1. s \in SeqN
  BY ArrivalType DEF AckArrived
<1>2. rx_window_bottom' = rx_window_bottom /\ rx_window_top' = rx_window_top
  BY DEF AckArrived, rx_vars
<1>3. CASE UNCHANGED tx_vars
  BY <1>2, <1>3 DEF tx_vars, WindowInv
<1>4. CASE FreshAck(n, s) /\ mark_packet_ack(n, s)
  <2>1. bottom \in SeqN /\ TxFit(bottom, tx_window_top[n], a1)
    BY <1>1, <1>4, MarkAckStep
  <2>2. /\ acknowledged' = [acknowledged EXCEPT ![n] = a1]
        /\ tx_window_bottom' = [tx_window_bottom EXCEPT ![n] = bottom]
        /\ \E events, delayed : peek_from_transmit_fifo(n, bottom, events, delayed)
    BY <1>4 DEF mark_packet_ack, TypeInv, TypeOK
  <2> HIDE DEF bottom, a1, s
  <2>3. /\ TxFit(bottom, tx_window_top'[n], a1)
        /\ \A m \in Node : m # n => tx_window_top'[m] = tx_window_top[m]
    BY <2>1, <2>2, PeekStep
  <2>4. /\ tx_window_bottom'[n] = bottom /\ acknowledged'[n] = a1
        /\ \A m \in Node : m # n => /\ tx_window_bottom'[m] = tx_window_bottom[m]
                                     /\ acknowledged'[m] = acknowledged[m]
    BY <2>2 DEF TypeInv, TypeOK
  <2> QED
    BY <1>2, <2>3, <2>4 DEF WindowInv
<1> QED
  BY <1>3, <1>4 DEF AckArrived, tx_vars

LEMMA DataStep ==
  ASSUME TypeInv, WindowInv, NEW n \in Node, DataArrived(n)
  PROVE  WindowInv'
<1> DEFINE s == Head(now[n]).seg.seq_number
           m == Head(now[n]).seg.msg
           k == ReceiptSlides(n, s)
           b == rx_window_bottom[n]
           t == rx_window_top[n]
<1>1. /\ tx_window_bottom' = tx_window_bottom /\ tx_window_top' = tx_window_top
      /\ acknowledged' = acknowledged
  BY DEF DataArrived, tx_vars
<1>2. CASE UNCHANGED rx_vars
  BY <1>1, <1>2 DEF rx_vars, WindowInv
<1>3. CASE mark_packet_receipt(n, s, m)
  <2>1. k \in 0 .. MAX_SEQ_N
    BY SlidesMeaning DEF ReceiptSlides
  <2>2. b \in SeqN /\ t \in SeqN
    BY DEF TypeInv, TypeOK
  <2>3. /\ rx_window_bottom' = [rx_window_bottom EXCEPT ![n] = Plus(b, k)]
        /\ rx_window_top' = [rx_window_top EXCEPT ![n] = Plus(t, k)]
    BY <1>3 DEF mark_packet_receipt, TopAfterReceipt, TypeInv, TypeOK
  <2> HIDE DEF k
  <2>4. Dist(Plus(b, k), Plus(t, k)) = Dist(b, t)
    BY <2>1, <2>2, MoveTogether
  <2>5. /\ rx_window_bottom'[n] = Plus(b, k) /\ rx_window_top'[n] = Plus(t, k)
        /\ \A p \in Node : p # n => /\ rx_window_bottom'[p] = rx_window_bottom[p]
                                     /\ rx_window_top'[p] = rx_window_top[p]
    BY <2>3 DEF TypeInv, TypeOK
  <2> QED
    BY <1>1, <2>4, <2>5 DEF WindowInv
<1> QED
  BY <1>2, <1>3 DEF DataArrived, rx_vars

LEMMA WindowsStep ==
  ASSUME 2 * WINDOW_SZ <= MAX_SEQ_N, TypeInv, WindowInv, [Next]_vars
  PROVE  WindowInv'
<1>1. CASE SameWindows
  BY <1>1 DEF SameWindows, WindowInv
<1>2. CASE UNCHANGED vars
  BY <1>1, <1>2 DEF vars, tx_vars, rx_vars, SameWindows
<1>3. ASSUME NEW n \in Node, OtherSteps(n) PROVE WindowInv'
  BY <1>1, <1>3, OtherFrame
<1>4. ASSUME NEW n \in Node,
             Close(n) \/ Peek(n) \/ LaterPeek(n) \/ AckArrived(n) \/ DataArrived(n)
      PROVE  WindowInv'
  BY <1>4, CloseStep, PeekOnlyStep, AckStep, DataStep
<1> QED
  BY <1>2, <1>3, <1>4 DEF Next, OtherSteps

LEMMA WindowsInit ==
  ASSUME Init
  PROVE  WindowInv
<1> SUFFICES ASSUME NEW n \in Node
             PROVE  /\ TxFit(0, 0, [s \in SeqN |-> FALSE])
                    /\ Dist(0, WINDOW_SZ) <= WINDOW_SZ
  BY DEF Init, WindowInv
<1> QED
  BY DEF TxFit, Dist, SeqN

LEMMA WindowsInvariant ==
  ASSUME 2 * WINDOW_SZ <= MAX_SEQ_N
  PROVE  Spec => []WindowInv
<1>1. Init => WindowInv
  BY WindowsInit
<1>2. TypeInv /\ WindowInv /\ [Next]_vars => WindowInv'
  BY WindowsStep
<1> QED
  BY <1>1, <1>2, TypeInvariant, PTL DEF Spec

\* Neither window of a socket outgrows WINDOW_SZ, through losses, late
\* acknowledgements, closing and reopening and any number of rounds of the
\* circle (tx_sliding_window_have_space, mark_packet_ack, mark_packet_receipt).
THEOREM WindowsAlwaysFit ==
  ASSUME 2 * WINDOW_SZ <= MAX_SEQ_N
  PROVE  Spec => []WindowsFit
<1>1. WindowInv => WindowsFit
  BY DEF WindowInv, WindowsFit, TxFit
<1> QED
  BY <1>1, WindowsInvariant, PTL

\* Whatever acknowledgement counts, the loop of mark_packet_ack ends: it stops at
\* the top of the window or before.
THEOREM AckLoopTerminates ==
  ASSUME 2 * WINDOW_SZ <= MAX_SEQ_N
  PROVE  Spec => []AckLoopEnds
<1>1. TypeInv /\ WindowInv => AckLoopEnds
  BY MarkAckStep DEF AckLoopEnds
<1> QED
  BY <1>1, WindowsInvariant, TypeInvariant, PTL
==============================================================================
