----------------------- MODULE Retransmission_proofs -----------------------
(***************************************************************************)
(* What an acknowledgement in OstSocket is worth, and which messages are   *)
(* transmitted again, while sequence numbers do not wrap and no sender     *)
(* closes: a number that counts as acknowledged has reached the peer, a    *)
(* message leaves the transmit window only once the peer's application has *)
(* it, and a timer runs for exactly what is transmitted and unanswered.    *)
(*                                                                         *)
(* The receiver acknowledges whatever number comes, also one it does not   *)
(* take.  That this promises nothing false rests on both windows: a number *)
(* it does not take because it is not in its window lies below it, since   *)
(* the sender's window never reaches beyond the receiver's.                *)
(***************************************************************************)
EXTENDS Delivery_proofs

USE WindowAssumption

\* Number s of n has reached the peer: handed over, or waiting in its window.
Got(n, s) == s < Len(delivered[Peer(n)]) \/ received[Peer(n)][s]

GotAfter(n, s) == s < Len(delivered'[Peer(n)]) \/ received'[Peer(n)][s]

\* The transmit window lies below its top on a circle not yet gone round, all
\* below it is acknowledged, and the numbers given are those below the top.
SenderWindow(n) ==
  /\ tx_window_bottom[n] <= tx_window_top[n]
  /\ tx_window_top[n] - tx_window_bottom[n] <= WINDOW_SZ
  /\ \A s \in SeqN : s < tx_window_bottom[n] => acknowledged[n][s]
  /\ \A s \in SeqN : acknowledged[n][s] => s < tx_window_top[n]
  /\ \A s \in SeqN : tx_window[n][s] # NoPacket <=> s < tx_window_top[n]

\* Every copy of a message is the one the sender stores.
CopiesAgree(n) ==
  /\ \A s \in SeqN, m \in Message : Carries(n, Data(s, m)) => m = tx_window[n][s]
  /\ \A s \in SeqN : received[Peer(n)][s] => rx_window[Peer(n)][s] = tx_window[n][s]

\* Acknowledgements, on their way or counted, are of numbers the peer has got.
AcksAreGot(n) ==
  /\ \A s \in SeqN : acknowledged[n][s] => Got(n, s)
  /\ \A s \in SeqN : Carries(Peer(n), Ack(s)) => s < tx_window_top[n] /\ Got(n, s)

\* The receive window starts at the first number that was not received.
ReceiverWindow(n) ==
  LET D == Len(delivered[Peer(n)])
  IN  /\ D < MAX_SEQ_N
      /\ ~received[Peer(n)][D]
      /\ rx_window_bottom[Peer(n)] = D
      /\ rx_window_top[Peer(n)] = Plus(D, WINDOW_SZ)

AckPart(n) ==
  SenderWindow(n) /\ CopiesAgree(n) /\ AcksAreGot(n) /\ ReceiverWindow(n)

AckInv == \A n \in Node : AckPart(n)

-----------------------------------------------------------------------------
(***************************************************************************)
(* What a step does to acknowledgements.                                   *)
(***************************************************************************)

AckRests(n) ==
  /\ acknowledged'[n] = acknowledged[n]
  /\ tx_window_bottom'[n] = tx_window_bottom[n]

\* An acknowledgement of s that arrived counts.
AckCounts(n, s) ==
  /\ Holds(now[n], ArrivalEvent(Ack(s))) /\ FreshAck(n, s)
  /\ acknowledged'[n] = [acknowledged[n] EXCEPT ![s] = TRUE]
  /\ tx_window_bottom'[n] = BottomAfterAck(n, s)

\* An acknowledgement that arrives counts if it is fresh.
LEMMA AckMoves ==
  ASSUME TypeInv, NEW n \in Node, AckArrived(n)
  PROVE  /\ \/ UNCHANGED <<tx_vars, timers>> /\ now' = [now EXCEPT ![n] = Tail(@)]
            \/ \E s \in SeqN : AckCounts(n, s) /\ mark_packet_ack(n, s)
         /\ \A m \in Node : m # n => AckRests(m)
<1> DEFINE seg == Head(now[n]).seg
           s == seg.seq_number
<1>1. /\ Starts(n, "PACKET_ARRIVED_FROM_NETWORK") /\ seg.flag = "ACK"
      /\ \/ FreshAck(n, s) /\ mark_packet_ack(n, s)
         \/ UNCHANGED <<tx_vars, timers>> /\ now' = [now EXCEPT ![n] = Tail(@)]
  BY DEF AckArrived
<1>2. now[n] # <<>> /\ now[n] \in Seq(Event) /\ seg \in Packet /\ s \in SeqN
  BY <1>1, ArrivalType
<1>3. Holds(now[n], ArrivalEvent(Ack(s)))
  <2>1. Head(now[n]) \in Event
    BY <1>2, HeadTailProperties
  <2>2. Head(now[n]) = ArrivalEvent(seg)
    BY <1>1, <2>1 DEF Event, ArrivalEvent, Starts
  <2>3. seg = Ack(s)
    BY <1>1, <1>2 DEF Packet, Ack
  <2>4. Holds(now[n], Head(now[n]))
    BY <1>2, HoldsLess
  <2> QED
    BY <2>2, <2>3, <2>4
<1> HIDE DEF seg, s
<1>4. CASE FreshAck(n, s) /\ mark_packet_ack(n, s)
  <2>1. /\ acknowledged' = [acknowledged EXCEPT ![n][s] = TRUE]
        /\ tx_window_bottom' = [tx_window_bottom EXCEPT ![n] = BottomAfterAck(n, s)]
    BY <1>4 DEF mark_packet_ack
  <2>2. \A m \in Node : m # n => AckRests(m)
    BY <2>1 DEF AckRests, TypeInv, TypeOK
  <2>3. AckCounts(n, s)
    BY <1>3, <1>4, <2>1 DEF AckCounts, TypeInv, TypeOK
  <2> QED
    BY <1>2, <1>4, <2>2, <2>3
<1>5. CASE UNCHANGED <<tx_vars, timers>> /\ now' = [now EXCEPT ![n] = Tail(@)]
  BY <1>5 DEF tx_vars, AckRests
<1> QED
  BY <1>1, <1>4, <1>5

\* Every step moves the acknowledgements of a sender that does not close so.
LEMMA StepMovesAck ==
  ASSUME TypeInv, [Next]_vars, NEW n \in Node, cuts'[n] = {}
  PROVE  AckRests(n) \/ \E s \in SeqN : AckCounts(n, s)
<1>1. CASE UNCHANGED <<tx_window_bottom, acknowledged>>
  BY <1>1 DEF AckRests
<1>2. ASSUME NEW m \in Node, Close(m)
      PROVE  AckRests(n)
  <2>1. m # n
    BY <1>2 DEF Close, TypeInv, TypeOK
  <2> QED
    BY <1>2, <2>1 DEF Close, AckRests, TypeInv, TypeOK
<1>3. ASSUME NEW m \in Node, AckArrived(m)
      PROVE  AckRests(n) \/ \E s \in SeqN : AckCounts(n, s)
  BY <1>3, AckMoves DEF AckRests, tx_vars
<1>4. ASSUME NEW m \in Node, NoSending(m)
      PROVE  UNCHANGED <<tx_window_bottom, acknowledged>>
  BY <1>4, NoSendingFrame DEF tx_vars
<1>5. ASSUME NEW m \in Node, (\E size \in Size : Send(m, size)) \/ Peek(m) \/ LaterPeek(m)
      PROVE  UNCHANGED <<tx_window_bottom, acknowledged>>
  BY <1>5 DEF Send, Peek, LaterPeek, tx_vars
<1>6. CASE UNCHANGED vars
  BY <1>6, <1>1 DEF vars, tx_vars
<1> QED
  BY <1>1, <1>2, <1>3, <1>4, <1>5, <1>6 DEF Next, NoSending

\* Closes are not forgotten.
LEMMA CutsStay ==
  ASSUME TypeInv, [Next]_vars, NoCuts'
  PROVE  NoCuts
<1> SUFFICES ASSUME NEW n \in Node
             PROVE  cuts[n] = {}
  BY DEF NoCuts
<1>1. SenderMoves(n)
  BY StepMovesSender
<1>2. cuts[n] \subseteq cuts'[n]
  BY <1>1 DEF SenderMoves, SenderRests, SenderAccepts, SenderDrops, SenderCloses,
              SenderPeeks
<1> QED
  BY <1>2 DEF NoCuts

\* The loop of mark_packet_ack stops at the top of a window that has not wrapped.
LEMMA AckStopsAtTop ==
  ASSUME TypeInv, NEW n \in Node, SenderWindow(n), NEW s \in SeqN,
         s < tx_window_top[n]
  PROVE  LET B == tx_window_bottom[n]
             C == BottomAfterAck(n, s)
         IN  /\ C \in SeqN /\ B <= C /\ C <= tx_window_top[n]
             /\ \A r \in SeqN : B <= r /\ r < C => r = s \/ acknowledged[n][r]
<1> DEFINE B == tx_window_bottom[n]
           T == tx_window_top[n]
           a == acknowledged[n]
           go == Goes(B, T, a, s)
           k == Slides(go)
<1>1. /\ B \in SeqN /\ T \in SeqN /\ B \in Nat /\ T \in Nat
      /\ B <= T /\ T < MAX_SEQ_N
  BY DEF TypeInv, TypeOK, SeqN, SenderWindow
<1>2. ~a[T] /\ s # T
  BY <1>1 DEF SenderWindow
<1>3. /\ k \in 0 .. MAX_SEQ_N
      /\ \A j \in 0 .. k - 1 : go[j]
      /\ k < MAX_SEQ_N => ~go[k]
  BY SlidesMeaning
<1>4. \A j \in 0 .. MAX_SEQ_N - 1 :
        go[j] <=> /\ Plus(B, j) = s \/ a[Plus(B, j)]
                  /\ Plus(B, j + 1) <= T
  BY DEF Goes
<1>5. BottomAfterAck(n, s) = Plus(B, k)
  BY SlidesOfAck DEF BottomAfterAck
<1> HIDE DEF B, T, a, go, k
<1>6. T - B \in 0 .. MAX_SEQ_N - 1 /\ Plus(B, T - B) = T
  <2>1. T - B \in Nat /\ B + (T - B) = T
    BY <1>1
  <2>2. Plus(B, T - B) = B + (T - B)
    BY <1>1, <2>1, PlusBelow
  <2>3. T - B \in 0 .. MAX_SEQ_N - 1
    BY <1>1
  <2> QED
    BY <2>1, <2>2, <2>3
<1>7. ~go[T - B]
  BY <1>2, <1>4, <1>6
<1>8. k <= T - B /\ k \in Nat
  BY <1>1, <1>3, <1>7
<1>9. Plus(B, k) = B + k
  BY <1>1, <1>8, PlusBelow
<1>10. ASSUME NEW r \in SeqN, B <= r, r < B + k
       PROVE  r = s \/ a[r]
  <2>1. r - B \in 0 .. k - 1 /\ r - B \in 0 .. MAX_SEQ_N - 1 /\ r - B \in Nat
        /\ B + (r - B) = r /\ r < MAX_SEQ_N
    BY <1>1, <1>8, <1>10 DEF SeqN
  <2>2. Plus(B, r - B) = r
    BY <1>1, <2>1, PlusBelow
  <2> QED
    BY <1>3, <1>4, <2>1, <2>2
<1>11. B + k \in SeqN /\ B <= B + k /\ B + k <= T
  BY <1>1, <1>8 DEF SeqN
<1> QED
  BY <1>5, <1>9, <1>10, <1>11 DEF B, T, a

\* A sender that does not close only adds to what it stores, at the top of its
\* window and where there is room.
LEMMA StoredStays ==
  ASSUME FirstRound, TypeInv, [Next]_vars, NEW n \in Node, SentInv(n), cuts'[n] = {},
         SenderWindow(n)
  PROVE  /\ \/ tx_window_top'[n] = tx_window_top[n]
            \/ /\ tx_window_top'[n] = tx_window_top[n] + 1
               /\ tx_sliding_window_have_space(tx_window_bottom'[n], tx_window_top[n])
         /\ \A s \in SeqN : tx_window[n][s] # NoPacket => tx_window'[n][s] = tx_window[n][s]
         /\ \A s \in SeqN : tx_window'[n][s] # NoPacket <=> s < tx_window_top'[n]
<1> DEFINE T == tx_window_top[n]
           w == tx_window[n]
<1>1. /\ T \in SeqN /\ T \in Nat
      /\ w \in [SeqN -> Message \cup {NoPacket}]
      /\ transmit_fifo[n] \in Seq(Message)
  BY DEF TypeInv, TypeOK, SeqN
<1>2. \A s \in SeqN : w[s] # NoPacket <=> s < T
  BY DEF SenderWindow
<1>3. CASE tx_window_top'[n] = T /\ tx_window'[n] = w
  BY <1>2, <1>3
<1>4. CASE SenderPeeks(n)
  <2>1. tx_window_top'[n] = T + 1
    BY <1>4, SentStep
  <2>2. /\ transmit_fifo[n] # <<>>
        /\ tx_sliding_window_have_space(tx_window_bottom'[n], T)
        /\ tx_window'[n] = [w EXCEPT ![T] = Head(transmit_fifo[n])]
    BY <1>4 DEF SenderPeeks
  <2> DEFINE m == Head(transmit_fifo[n])
  <2>3. m # NoPacket
    BY <1>1, <2>2, HeadTailProperties, NoPacketIsNoMessage
  <2>4. tx_window'[n][T] = m /\ \A s \in SeqN : s # T => tx_window'[n][s] = w[s]
    BY <1>1, <2>2
  <2> HIDE DEF T, w, m
  <2>5. \A s \in SeqN : w[s] # NoPacket => tx_window'[n][s] = w[s]
    <3> SUFFICES ASSUME NEW s \in SeqN, w[s] # NoPacket
                 PROVE  s # T
      BY <2>4
    <3> QED
      BY <1>1, <1>2
  <2>6. ASSUME NEW s \in SeqN
        PROVE  tx_window'[n][s] # NoPacket <=> s < T + 1
    <3>1. CASE s = T
      BY <1>1, <2>3, <2>4, <3>1
    <3>2. CASE s # T
      <4>1. s < T + 1 <=> s < T
        BY <1>1, <3>2 DEF SeqN
      <4> QED
        BY <1>2, <2>4, <3>2, <4>1
    <3> QED
      BY <3>1, <3>2
  <2> QED
    BY <2>1, <2>2, <2>5, <2>6 DEF T, w
<1>5. (tx_window_top'[n] = T /\ tx_window'[n] = w) \/ SenderPeeks(n)
  <2>1. SenderMoves(n)
    BY StepMovesSender
  <2>2. ~SenderCloses(n)
    BY DEF SenderCloses
  <2> QED
    BY <2>1, <2>2 DEF SenderMoves, SenderRests, SenderAccepts, SenderDrops
<1> QED
  BY <1>3, <1>4, <1>5

\* Going up twice on the circle, from numbers whose sum does not go round twice.
LEMMA PlusPlus ==
  ASSUME NEW b \in SeqN, NEW k \in SeqN, NEW i \in SeqN
  PROVE  /\ Plus(Plus(b, k), i) = Plus(Plus(b, i), k)
         /\ b + i < MAX_SEQ_N =>
              Plus(Plus(b, k), i) = IF b + k + i < MAX_SEQ_N THEN b + k + i
                                    ELSE b + k + i - MAX_SEQ_N
<1>1. /\ b \in Nat /\ k \in Nat /\ i \in Nat /\ k <= MAX_SEQ_N /\ i <= MAX_SEQ_N
      /\ b < MAX_SEQ_N /\ k < MAX_SEQ_N /\ i < MAX_SEQ_N
      /\ k \in 0 .. MAX_SEQ_N /\ i \in 0 .. MAX_SEQ_N
  BY DEF SeqN
<1> DEFINE x == Plus(b, k)
           y == Plus(b, i)
<1>2. x = IF b + k < MAX_SEQ_N THEN b + k ELSE b + k - MAX_SEQ_N
  BY <1>1, PlusCases
<1>3. y = IF b + i < MAX_SEQ_N THEN b + i ELSE b + i - MAX_SEQ_N
  BY <1>1, PlusCases
<1>4. x \in SeqN /\ y \in SeqN
  BY <1>1, PlusType
<1> HIDE DEF x, y
<1>5. Plus(x, i) = IF x + i < MAX_SEQ_N THEN x + i ELSE x + i - MAX_SEQ_N
  BY <1>1, <1>4, PlusCases
<1>6. Plus(y, k) = IF y + k < MAX_SEQ_N THEN y + k ELSE y + k - MAX_SEQ_N
  BY <1>1, <1>4, PlusCases
<1>7. Plus(x, i) = Plus(y, k)
  BY <1>1, <1>2, <1>3, <1>5, <1>6
<1>8. b + i < MAX_SEQ_N =>
        Plus(x, i) = IF b + k + i < MAX_SEQ_N THEN b + k + i ELSE b + k + i - MAX_SEQ_N
  BY <1>1, <1>2, <1>5
<1> QED
  BY <1>7, <1>8 DEF x, y

-----------------------------------------------------------------------------
(***************************************************************************)
(* What the receiver got.                                                  *)
(***************************************************************************)

\* The bottom of the transmit window is not above the receiver's, so no number of
\* a message is above the receiver's window.
LEMMA WindowsOverlap ==
  ASSUME TypeInv, NEW n \in Node, SenderWindow(n), AcksAreGot(n), ReceiverWindow(n)
  PROVE  LET D == Len(delivered[Peer(n)])
         IN  /\ D \in SeqN /\ tx_window_bottom[n] <= D
             /\ tx_window_top[n] <= D + WINDOW_SZ
<1> DEFINE D == Len(delivered[Peer(n)])
           B == tx_window_bottom[n]
           T == tx_window_top[n]
<1>1. delivered[Peer(n)] \in Seq(Nat)
  BY PeerType DEF TypeInv, TypeOK
<1>2. D \in Nat
  BY <1>1, LenProperties
<1>3. D \in SeqN /\ ~received[Peer(n)][D]
  BY <1>2 DEF ReceiverWindow, SeqN
<1>4. B \in Nat /\ T \in Nat /\ T - B <= WINDOW_SZ
  BY DEF TypeInv, TypeOK, SeqN, SenderWindow
<1>5. ~(D < B)
  <2> SUFFICES ASSUME D < B PROVE FALSE
    OBVIOUS
  <2>1. acknowledged[n][D]
    BY <1>3 DEF SenderWindow
  <2>2. Got(n, D)
    BY <1>3, <2>1 DEF AcksAreGot
  <2> QED
    BY <1>2, <1>3, <2>2 DEF Got
<1> HIDE DEF D, B, T
<1>6. B <= D /\ T <= D + WINDOW_SZ
  BY <1>2, <1>4, <1>5
<1> QED
  BY <1>3, <1>6 DEF D, B, T

\* A number of a message that the receiver does not take it has got before.
LEMMA StaleIsGot ==
  ASSUME TypeInv, NEW n \in Node, SenderWindow(n), AcksAreGot(n), ReceiverWindow(n),
         NEW s \in SeqN, s < tx_window_top[n], ~FreshData(Peer(n), s)
  PROVE  Got(n, s)
<1> DEFINE D == Len(delivered[Peer(n)])
<1>1. /\ D \in SeqN /\ D \in Nat /\ D < MAX_SEQ_N
      /\ tx_window_top[n] <= D + WINDOW_SZ
  BY WindowsOverlap DEF SeqN
<1>2. s \in Nat /\ tx_window_top[n] \in Nat
  BY DEF TypeInv, TypeOK, SeqN
<1>3. rx_window_bottom[Peer(n)] = D /\ rx_window_top[Peer(n)] = Plus(D, WINDOW_SZ)
  BY DEF ReceiverWindow
<1> HIDE DEF D
<1>4. s < D + WINDOW_SZ
  BY <1>1, <1>2
<1>5. Plus(D, WINDOW_SZ) =
        IF D + WINDOW_SZ < MAX_SEQ_N THEN D + WINDOW_SZ ELSE D + WINDOW_SZ - MAX_SEQ_N
  <2>1. WINDOW_SZ \in 0 .. MAX_SEQ_N
    OBVIOUS
  <2> QED
    BY <1>1, <2>1, PlusCases
<1>6. s >= D => in_window(D, Plus(D, WINDOW_SZ), s)
  BY <1>1, <1>2, <1>4, <1>5 DEF in_window
<1>7. s < D \/ received[Peer(n)][s]
  BY <1>1, <1>2, <1>3, <1>6 DEF FreshData
<1> QED
  BY <1>7 DEF Got, D

\* The receiver takes the message the sender stores, keeps or hands over all it
\* has got, and moves its window to the next number it has not.
LEMMA ReceiptGets ==
  ASSUME FirstRound, TypeInv, NEW n \in Node, NumberedInv(n), AckPart(n),
         NEW s \in SeqN, NEW m \in Message, ReceiverTakes(Peer(n), s, m)
  PROVE  /\ GotAfter(n, s)
         /\ \A r \in SeqN : Got(n, r) => GotAfter(n, r)
         /\ \A r \in SeqN : received'[Peer(n)][r] =>
              rx_window'[Peer(n)][r] = tx_window[n][r] /\ tx_window[n][r] # NoPacket
         /\ ReceiverWindow(n)'
<1> DEFINE p == Peer(n)
           D == Len(delivered[p])
           T == tx_window_top[n]
           k == ReceiptSlides(p, s)
           h == HandedOver(p, s, m, k)
           cl == Cleared(p, k)
<1>1. /\ Carries(n, Data(s, m)) /\ k \in Nat /\ D + k < MAX_SEQ_N
      /\ Len(h) = k /\ h \in Seq(Nat)
      /\ D + k = s \/ received[p][D + k] => D + k \in cl
  BY TakesGiven
<1>2. /\ rx_window'[p] = [rx_window[p] EXCEPT ![s] = m]
      /\ received'[p] = [r \in SeqN |-> (r = s \/ received[p][r]) /\ r \notin cl]
      /\ rx_window_bottom'[p] = Plus(rx_window_bottom[p], k)
      /\ rx_window_top'[p] = Plus(rx_window_top[p], k)
      /\ delivered'[p] = delivered[p] \o h
  BY DEF ReceiverTakes
<1>3. /\ D \in SeqN /\ D \in Nat /\ T \in Nat /\ T <= D + WINDOW_SZ
      /\ rx_window_bottom[p] = D /\ rx_window_top[p] = Plus(D, WINDOW_SZ)
  <2>1. D \in SeqN /\ T <= D + WINDOW_SZ
    BY WindowsOverlap DEF AckPart
  <2>2. rx_window_bottom[p] = D /\ rx_window_top[p] = Plus(D, WINDOW_SZ)
    BY DEF AckPart, ReceiverWindow
  <2>3. T \in SeqN
    BY DEF TypeInv, TypeOK
  <2> QED
    BY <2>1, <2>2, <2>3 DEF SeqN
<1>4. /\ p \in Node /\ delivered[p] \in Seq(Nat)
      /\ rx_window[p] \in [SeqN -> Message \cup {NoPacket}]
  BY PeerType DEF TypeInv, TypeOK
<1>5. Len(delivered'[p]) = D + k
  <2>1. delivered[p] \in Seq(Nat) /\ h \in Seq(Nat) /\ Len(h) = k
    BY <1>1, <1>4
  <2>2. delivered'[p] = delivered[p] \o h
    BY <1>2
  <2> HIDE DEF p, k, h
  <2> QED
    BY <2>1, <2>2, ConcatProperties
<1>6. tx_window[n][s] = m /\ m # NoPacket
  BY <1>1, NoPacketIsNoMessage DEF AckPart, CopiesAgree
<1>7. ASSUME NEW r \in SeqN, r = s \/ received[p][r]
      PROVE  /\ tx_window[n][r] = rx_window'[p][r] /\ tx_window[n][r] # NoPacket
             /\ r < T
  <2>1. CASE r = s
    <3>1. rx_window'[p][r] = m
      BY <1>2, <1>4, <2>1
    <3>2. s < T
      BY <1>6 DEF AckPart, SenderWindow
    <3> QED
      BY <1>6, <2>1, <3>1, <3>2
  <2>2. CASE r # s
    <3>1. rx_window'[p][r] = rx_window[p][r]
      BY <1>2, <1>4, <2>2
    <3>2. rx_window[p][r] = tx_window[n][r] /\ rx_window[p][r] # NoPacket
      BY <1>4, <1>7, <2>2 DEF AckPart, CopiesAgree, TypeInv, ReceivedIsStored
    <3>3. r < T
      BY <3>2 DEF AckPart, SenderWindow
    <3> QED
      BY <3>1, <3>2, <3>3
  <2> QED
    BY <2>1, <2>2
<1>8. ASSUME NEW r \in cl, NEW u \in SeqN, u = r, u < T
      PROVE  u < D + k
  <2>1. PICK i \in 0 .. k - 1 : r = Plus(rx_window_top[p], i)
    BY DEF Cleared
  <2>2. i \in Nat /\ i < k /\ D + i < MAX_SEQ_N /\ i \in SeqN
    <3> HIDE DEF D, k
    <3> QED
      BY <1>1, <1>3 DEF SeqN
  <2>3. r = Plus(Plus(D, WINDOW_SZ), i)
    BY <1>3, <2>1
  <2>4. WINDOW_SZ \in SeqN
    BY SeqNBounds
  <2> HIDE DEF D, k, cl, T
  <2>5. r = IF D + WINDOW_SZ + i < MAX_SEQ_N THEN D + WINDOW_SZ + i
            ELSE D + WINDOW_SZ + i - MAX_SEQ_N
    BY <1>3, <2>2, <2>3, <2>4, PlusPlus
  <2>6. ~(D + WINDOW_SZ + i < MAX_SEQ_N)
    BY <1>3, <1>8, <2>2, <2>5 DEF SeqN
  <2> QED
    BY <1>1, <1>3, <1>8, <2>2, <2>5, <2>6
<1>9. ASSUME NEW r \in SeqN, Got(n, r) \/ r = s
      PROVE  GotAfter(n, r)
  <2>1. CASE r < D
    <3>1. r < D + k
      <4> HIDE DEF D, k
      <4> QED
        BY <1>1, <1>3, <2>1 DEF SeqN
    <3> QED
      BY <1>5, <3>1 DEF GotAfter
  <2>2. CASE r = s \/ received[p][r]
    <3>1. r \notin cl => received'[p][r]
      BY <1>2, <2>2
    <3>2. r \in cl => r < D + k
      BY <1>7, <1>8, <2>2
    <3> QED
      BY <1>5, <3>1, <3>2 DEF GotAfter
  <2> QED
    BY <1>9, <2>1, <2>2 DEF Got
<1>10. \A r \in SeqN : received'[p][r] =>
         rx_window'[p][r] = tx_window[n][r] /\ tx_window[n][r] # NoPacket
  BY <1>2, <1>7
<1>11. ReceiverWindow(n)'
  <2>1. ~received'[p][D + k]
    <3>1. D + k \in SeqN
      <4> HIDE DEF D, k
      <4> QED
        BY <1>1, <1>3 DEF SeqN
    <3> QED
      BY <1>1, <1>2, <3>1
  <2>2. rx_window_bottom'[p] = D + k
    <3> HIDE DEF D, k
    <3> QED
      BY <1>1, <1>2, <1>3, PlusBelow
  <2>3. rx_window_top'[p] = Plus(D + k, WINDOW_SZ)
    <3>1. WINDOW_SZ \in SeqN
      BY SeqNBounds
    <3> HIDE DEF D, k
    <3>2. k \in SeqN /\ Plus(D, k) = D + k
      BY <1>1, <1>3, PlusBelow DEF SeqN
    <3>3. Plus(Plus(D, WINDOW_SZ), k) = Plus(Plus(D, k), WINDOW_SZ)
      BY <1>3, <3>1, <3>2, PlusPlus
    <3> QED
      BY <1>2, <1>3, <3>2, <3>3
  <2> QED
    BY <1>1, <1>5, <2>1, <2>2, <2>3 DEF ReceiverWindow
<1> QED
  BY <1>9, <1>10, <1>11

\* What a step does to the receiver of n, as long as that does not close.
LEMMA ReceiverKeeps ==
  ASSUME FirstRound, TypeInv, [Next]_vars, NEW n \in Node, NumberedInv(n), AckPart(n),
         cuts'[Peer(n)] = {}
  PROVE  /\ \A r \in SeqN : Got(n, r) => GotAfter(n, r)
         /\ \A r \in SeqN : received'[Peer(n)][r] =>
              rx_window'[Peer(n)][r] = tx_window[n][r] /\ tx_window[n][r] # NoPacket
         /\ ReceiverWindow(n)'
<1> DEFINE p == Peer(n)
<1>1. p \in Node
  BY PeerType
<1>2. CASE ReceiverRests(p)
  <2>1. \A r \in SeqN : Got(n, r) => GotAfter(n, r)
    BY <1>2 DEF ReceiverRests, Got, GotAfter
  <2>2. ASSUME NEW r \in SeqN, received[p][r]
        PROVE  rx_window[p][r] = tx_window[n][r] /\ tx_window[n][r] # NoPacket
    BY <1>1, <2>2 DEF AckPart, CopiesAgree, TypeInv, ReceivedIsStored
  <2>3. ReceiverWindow(n)'
    BY <1>2 DEF AckPart, ReceiverRests, ReceiverWindow
  <2> QED
    BY <1>2, <2>1, <2>2, <2>3 DEF ReceiverRests
<1>3. ASSUME NEW s \in SeqN, NEW m \in Message, ReceiverTakes(p, s, m)
      PROVE  /\ \A r \in SeqN : Got(n, r) => GotAfter(n, r)
             /\ \A r \in SeqN : received'[Peer(n)][r] =>
                  rx_window'[Peer(n)][r] = tx_window[n][r] /\ tx_window[n][r] # NoPacket
             /\ ReceiverWindow(n)'
  BY <1>3, ReceiptGets
<1> QED
  BY <1>1, <1>2, <1>3, StepMovesReceiver

\* The first of the pending events of p is the arrival of a message that n sent.
LEMMA HeadIsCarried ==
  ASSUME TypeInv, NEW n \in Node, NEW pk,
         now[Peer(n)] # <<>>, Head(now[Peer(n)]) = ArrivalEvent(pk)
  PROVE  Carries(n, pk)
<1>1. now[Peer(n)] \in Seq(Event)
  BY PeerType DEF TypeInv, TypeOK
<1>2. Holds(now[Peer(n)], Head(now[Peer(n)]))
  BY <1>1, HoldsLess
<1> QED
  BY <1>2 DEF Carries

\* What the receiver acknowledges it has got, in the step at the latest.
LEMMA AcksGot ==
  ASSUME FirstRound, TypeInv, [Next]_vars, NEW n \in Node, NumberedInv(n), AckPart(n),
         cuts'[Peer(n)] = {}, NEW s \in SeqN, Carries(Peer(n), Ack(s))'
  PROVE  s < tx_window_top[n] /\ GotAfter(n, s)
<1> DEFINE p == Peer(n)
<1>1. p \in Node
  BY PeerType
<1>2. \A r \in SeqN : Got(n, r) => GotAfter(n, r)
  BY ReceiverKeeps
<1>3. CASE Carries(p, Ack(s))
  BY <1>2, <1>3 DEF AckPart, AcksAreGot
<1>4. ASSUME NEW m \in Message, DataArrived(p), now[p] # <<>>,
             Head(now[p]) = ArrivalEvent(Data(s, m))
      PROVE  s < tx_window_top[n] /\ GotAfter(n, s)
  <2>1. Carries(n, Data(s, m))
    BY <1>4, HeadIsCarried
  <2>2. tx_window[n][s] # NoPacket
    BY <2>1, NoPacketIsNoMessage DEF AckPart, CopiesAgree
  <2>3. s < tx_window_top[n]
    BY <2>2 DEF AckPart, SenderWindow
  <2>4. PICK r \in SeqN, l \in Message :
          /\ Head(now[p]) = ArrivalEvent(Data(r, l))
          /\ ReceiverTakes(p, r, l) \/ ~FreshData(p, r)
    BY <1>1, <1>4, DataMoves
  <2>5. r = s
    BY <1>4, <2>4 DEF ArrivalEvent, Data
  <2>6. CASE ReceiverTakes(p, r, l)
    BY <2>3, <2>5, <2>6, ReceiptGets
  <2>7. CASE ~FreshData(p, r)
    <3>1. Got(n, s)
      BY <2>3, <2>5, <2>7, StaleIsGot DEF AckPart
    <3> QED
      BY <1>2, <2>3, <3>1
  <2> QED
    BY <2>4, <2>6, <2>7
<1>5. CASE Emits(p, Ack(s))
  <2>1. ASSUME NEW r, NEW m PROVE Ack(s) # Data(r, m)
    BY DEF Ack, Data
  <2>2. ASSUME NEW r, Ack(s) = Ack(r) PROVE r = s
    BY <2>2 DEF Ack
  <2>3. \E m \in Message : /\ DataArrived(p) /\ now[p] # <<>>
                           /\ Head(now[p]) = ArrivalEvent(Data(s, m))
    BY <1>5, <2>1, <2>2 DEF Emits
  <2> QED
    BY <1>4, <2>3
<1>6. Carries(p, Ack(s)) \/ Emits(p, Ack(s))
  BY <1>1, StepCarries
<1> QED
  BY <1>3, <1>5, <1>6

-----------------------------------------------------------------------------
(***************************************************************************)
(* The invariant.                                                          *)
(***************************************************************************)

\* The bottom of the window passes only what is acknowledged, and the top stays
\* in reach of it.
LEMMA SenderWindowStep ==
  ASSUME FirstRound, TypeInv, [Next]_vars, NEW n \in Node, SentInv(n), AckPart(n),
         cuts'[n] = {}
  PROVE  /\ SenderWindow(n)'
         /\ \A s \in SeqN : acknowledged'[n][s] =>
              acknowledged[n][s] \/ Carries(Peer(n), Ack(s))
<1> DEFINE B == tx_window_bottom[n]
           T == tx_window_top[n]
           C == tx_window_bottom'[n]
           U == tx_window_top'[n]
           a == acknowledged[n]
           z == acknowledged'[n]
<1>1. /\ B \in Nat /\ T \in Nat /\ T \in SeqN /\ a \in [SeqN -> BOOLEAN]
      /\ B <= T /\ T - B <= WINDOW_SZ
      /\ \A s \in SeqN : s < B => a[s]
      /\ \A s \in SeqN : a[s] => s < T
  BY DEF AckPart, SenderWindow, TypeInv, TypeOK, SeqN
<1>2. /\ U = T \/ (U = T + 1 /\ tx_sliding_window_have_space(C, T))
      /\ \A s \in SeqN : tx_window'[n][s] # NoPacket <=> s < U
  BY StoredStays DEF AckPart
<1>3. /\ C \in SeqN /\ B <= C /\ C <= T
      /\ \A s \in SeqN : s < C => z[s]
      /\ \A s \in SeqN : z[s] => s < T /\ (a[s] \/ Carries(Peer(n), Ack(s)))
  <2>1. CASE AckRests(n)
    <3>1. C = B /\ z = a /\ B \in SeqN
      BY <2>1 DEF AckRests, TypeInv, TypeOK
    <3> QED
      BY <1>1, <3>1
  <2>2. ASSUME NEW s \in SeqN, AckCounts(n, s)
        PROVE  /\ C \in SeqN /\ B <= C /\ C <= T
               /\ \A r \in SeqN : r < C => z[r]
               /\ \A r \in SeqN : z[r] => r < T /\ (a[r] \/ Carries(Peer(n), Ack(r)))
    <3>1. Carries(Peer(n), Ack(s))
      BY <2>2, PeerOfPeer DEF AckCounts, Carries
    <3>2. s < T
      BY <3>1 DEF AckPart, AcksAreGot
    <3>3. z = [a EXCEPT ![s] = TRUE] /\ C = BottomAfterAck(n, s)
      BY <2>2 DEF AckCounts
    <3>4. /\ C \in SeqN /\ B <= C /\ C <= T
          /\ \A r \in SeqN : B <= r /\ r < C => r = s \/ a[r]
      BY <3>2, <3>3, AckStopsAtTop DEF AckPart
    <3>5. \A r \in SeqN : z[r] <=> r = s \/ a[r]
      BY <1>1, <3>3
    <3> HIDE DEF B, T, C, a, z
    <3>6. ASSUME NEW r \in SeqN, r < C PROVE z[r]
      <4>1. r < B \/ B <= r
        BY <1>1 DEF SeqN
      <4> QED
        BY <1>1, <3>4, <3>5, <3>6, <4>1
    <3> QED
      BY <1>1, <3>1, <3>2, <3>4, <3>5, <3>6
  <2> QED
    BY <2>1, <2>2, StepMovesAck
<1> HIDE DEF B, T, C, U, a, z
<1>4. C \in Nat
  BY <1>3 DEF SeqN
<1>5. C <= U /\ U - C <= WINDOW_SZ /\ T <= U /\ U \in Nat
  <2>1. CASE U = T
    BY <1>1, <1>3, <1>4, <2>1
  <2>2. CASE U = T + 1 /\ tx_sliding_window_have_space(C, T)
    <3>1. T - C < WINDOW_SZ
      BY <1>1, <1>3, <1>4, <2>2 DEF tx_sliding_window_have_space
    <3> QED
      BY <1>1, <1>3, <1>4, <2>2, <3>1
  <2> QED
    BY <1>2, <2>1, <2>2
<1>6. \A s \in SeqN : z[s] => s < U
  <2> SUFFICES ASSUME NEW s \in SeqN, z[s] PROVE s < U
    OBVIOUS
  <2>1. s < T /\ s \in Nat
    BY <1>3 DEF SeqN
  <2> QED
    BY <1>1, <1>5, <2>1
<1>7. SenderWindow(n)'
  BY <1>2, <1>3, <1>5, <1>6 DEF SenderWindow, C, U, z
<1> QED
  BY <1>3, <1>7 DEF a, z

LEMMA AckPartStep ==
  ASSUME FirstRound, TypeInv, DeliveryInv, [Next]_vars, NoCuts', NEW n \in Node, AckPart(n)
  PROVE  AckPart(n)'
<1> DEFINE p == Peer(n)
           w == tx_window[n]
           x == tx_window'[n]
           T == tx_window_top[n]
           U == tx_window_top'[n]
<1>1. NumberedInv(n) /\ SentInv(n) /\ cuts'[n] = {} /\ cuts'[p] = {} /\ p \in Node
  BY PeerType DEF DeliveryInv, NumberedInv, NoCuts
<1>2. /\ SenderWindow(n)'
      /\ \A s \in SeqN : acknowledged'[n][s] => acknowledged[n][s] \/ Carries(p, Ack(s))
  BY <1>1, SenderWindowStep
<1>3. /\ U = T \/ U = T + 1
      /\ \A s \in SeqN : w[s] # NoPacket => x[s] = w[s]
  BY <1>1, StoredStays DEF AckPart
<1>4. /\ \A r \in SeqN : Got(n, r) => GotAfter(n, r)
      /\ \A r \in SeqN : received'[p][r] => rx_window'[p][r] = w[r] /\ w[r] # NoPacket
      /\ ReceiverWindow(n)'
  BY <1>1, ReceiverKeeps
<1>5. CopiesAgree(n)'
  <2>1. ASSUME NEW s \in SeqN, NEW m \in Message, Carries(n, Data(s, m))'
        PROVE  m = x[s]
    <3>1. CASE Carries(n, Data(s, m))
      <4>1. m = w[s] /\ m # NoPacket
        BY <3>1, NoPacketIsNoMessage DEF AckPart, CopiesAgree
      <4> QED
        BY <1>3, <4>1
    <3>2. CASE Emits(n, Data(s, m))
      <4>1. ASSUME NEW r PROVE Data(s, m) # Ack(r)
        BY DEF Data, Ack
      <4>2. PICK r \in SeqN : w[r] \in Message /\ Data(s, m) = Data(r, w[r])
        BY <3>2, <4>1 DEF Emits
      <4>3. r = s /\ m = w[s] /\ m # NoPacket
        BY <4>2, NoPacketIsNoMessage DEF Data
      <4> QED
        BY <1>3, <4>3
    <3> QED
      BY <2>1, <3>1, <3>2, StepCarries
  <2>2. \A s \in SeqN : received'[p][s] => rx_window'[p][s] = x[s]
    BY <1>3, <1>4
  <2> QED
    BY <2>1, <2>2 DEF CopiesAgree
<1>6. AcksAreGot(n)'
  <2>1. \A s \in SeqN : acknowledged'[n][s] => GotAfter(n, s)
    BY <1>2, <1>4 DEF AckPart, AcksAreGot
  <2>2. ASSUME NEW s \in SeqN, Carries(p, Ack(s))'
        PROVE  s < U /\ GotAfter(n, s)
    <3>1. s < T /\ GotAfter(n, s)
      BY <1>1, <2>2, AcksGot
    <3>2. s \in Nat /\ T \in Nat
      BY DEF TypeInv, TypeOK, SeqN
    <3> HIDE DEF T, U
    <3>3. s < U
      BY <1>3, <3>1, <3>2
    <3> QED
      BY <3>1, <3>3
  <2> QED
    BY <2>1, <2>2 DEF AcksAreGot, Got, GotAfter
<1> QED
  BY <1>2, <1>4, <1>5, <1>6 DEF AckPart

LEMMA AckInit ==
  ASSUME Init
  PROVE  AckInv
<1> SUFFICES ASSUME NEW n \in Node
             PROVE  AckPart(n)
  BY DEF AckInv
<1>1. Peer(n) \in Node
  BY PeerType
<1>2. /\ tx_window_bottom[n] = 0 /\ tx_window_top[n] = 0
      /\ wire[n] = <<>> /\ now[Peer(n)] = <<>> /\ wire[Peer(n)] = <<>> /\ now[n] = <<>>
      /\ delivered[Peer(n)] = <<>>
      /\ rx_window_bottom[Peer(n)] = 0 /\ rx_window_top[Peer(n)] = WINDOW_SZ
      /\ \A s \in SeqN : /\ tx_window[n][s] = NoPacket /\ ~acknowledged[n][s]
                         /\ ~received[Peer(n)][s]
  BY <1>1 DEF Init
<1>3. Len(<<>>) = 0
  BY EmptySeq
<1>4. \A pk : ~Carries(n, pk) /\ ~Carries(Peer(n), pk)
  BY <1>2, <1>3, PeerOfPeer DEF Carries, Holds
<1>5. SenderWindow(n) /\ CopiesAgree(n) /\ AcksAreGot(n)
  BY <1>2, <1>4 DEF SenderWindow, CopiesAgree, AcksAreGot, SeqN
<1>6. ReceiverWindow(n)
  <2>1. 0 \in SeqN /\ Plus(0, WINDOW_SZ) = WINDOW_SZ
    BY SeqNBounds, PlusBelow
  <2> QED
    BY <1>2, <1>3, <2>1 DEF ReceiverWindow
<1> QED
  BY <1>5, <1>6 DEF AckPart

LEMMA AckInvariant ==
  ASSUME FirstRound
  PROVE  Spec => [](NoCuts => AckInv)
<1>1. Init => AckInv
  BY AckInit
<1>2. TypeInv /\ DeliveryInv /\ (NoCuts => AckInv) /\ [Next]_vars => (NoCuts => AckInv)'
  <2> SUFFICES ASSUME TypeInv, DeliveryInv, NoCuts => AckInv, [Next]_vars, NoCuts'
               PROVE  AckInv'
    OBVIOUS
  <2>1. AckInv
    BY CutsStay
  <2>2. ASSUME NEW n \in Node PROVE AckPart(n)'
    BY <2>1, AckPartStep DEF AckInv
  <2> QED
    BY <2>2 DEF AckInv
<1> QED
  BY <1>1, <1>2, TypeInvariant, DeliveryInvariant, PTL DEF Spec

-----------------------------------------------------------------------------
(***************************************************************************)
(* What that is worth.                                                     *)
(***************************************************************************)

\* As long as a sender does not close, the top of its window counts the messages
\* it gave a number.
LEMMA TopCounts ==
  ASSUME FirstRound, TypeInv, NEW n \in Node, SentInv(n), cuts[n] = {}
  PROVE  tx_window_top[n] = Taken(n)
<1> DEFINE q == sent[n]
           f == transmit_fifo[n]
           o == offered[n]
           x == NextId(o, f)
<1>1. /\ SenderTypes(setting.offers[n], o, q, f, {})
      /\ Numbering(setting.offers[n], o, q, f, {}, tx_window_top[n])
  BY SenderTyped DEF SentInv
<1> HIDE DEF q, f, o
<1>2. /\ Len(q) \in Nat /\ Len(f) \in Nat /\ Len(f) <= Len(q)
      /\ \A i \in 1 .. Len(q) : q[i] \in Nat
      /\ tx_window_top[n] = Number(q, {}, x)
  BY <1>1, LenProperties, ElementOfSeq DEF SenderTypes, Numbering
<1>3. /\ x \in Nat
      /\ \A i \in 1 .. Len(q) - Len(f) : q[i] < x
      /\ \A i \in Len(q) - Len(f) + 1 .. Len(q) : x <= q[i]
  BY <1>1, NextBetween
<1> HIDE DEF x
<1>4. Below(q, {}, x) = 1 .. Len(q) - Len(f)
  <2>1. ASSUME NEW i \in 1 .. Len(q)
        PROVE  q[i] < x <=> i <= Len(q) - Len(f)
    <3>1. CASE i <= Len(q) - Len(f)
      <4>1. i \in 1 .. Len(q) - Len(f)
        BY <1>2, <3>1
      <4> QED
        BY <1>3, <3>1, <4>1
    <3>2. CASE ~(i <= Len(q) - Len(f))
      <4>1. i \in Len(q) - Len(f) + 1 .. Len(q)
        BY <1>2, <3>2
      <4>2. x <= q[i] /\ q[i] \in Nat
        BY <1>2, <1>3, <4>1
      <4> QED
        BY <1>3, <3>2, <4>2
    <3> QED
      BY <3>1, <3>2
  <2>2. \A i \in 1 .. Len(q) : i \in Below(q, {}, x) <=> i <= Len(q) - Len(f)
    BY <2>1 DEF Below
  <2>3. Below(q, {}, x) \subseteq 1 .. Len(q)
    BY DEF Below
  <2>4. /\ 1 .. Len(q) - Len(f) \subseteq 1 .. Len(q)
        /\ \A i \in 1 .. Len(q) : i <= Len(q) - Len(f) <=> i \in 1 .. Len(q) - Len(f)
    BY <1>2
  <2> QED
    BY <2>2, <2>3, <2>4
<1>5. Len(q) - Len(f) \in Nat
  BY <1>2
<1>6. Number(q, {}, x) = Len(q) - Len(f)
  BY <1>4, <1>5, FS_Interval DEF Number
<1> QED
  BY <1>2, <1>6 DEF Taken, q, f

\* The receiver is never ahead of what the sender numbered, and the sender never
\* lets a message leave its window before the receiver's application has it, as
\* long as numbers do not wrap and no sender closes (the loops of
\* mark_packet_ack and mark_packet_receipt).
THEOREM ReleasedAfterDelivery ==
  ASSUME FirstRound
  PROVE  Spec => [](NoCuts => ReleasedIsDelivered)
<1>1. TypeInv /\ DeliveryInv /\ (NoCuts => AckInv) => (NoCuts => ReleasedIsDelivered)
  <2> SUFFICES ASSUME TypeInv, DeliveryInv, AckInv, NoCuts, NEW n \in Node
               PROVE  /\ Taken(n) - Outstanding(n) <= Len(delivered[Peer(n)])
                      /\ Len(delivered[Peer(n)]) <= Taken(n)
    BY DEF ReleasedIsDelivered
  <2> DEFINE B == tx_window_bottom[n]
             T == tx_window_top[n]
             D == Len(delivered[Peer(n)])
  <2>1. AckPart(n) /\ SentInv(n) /\ cuts[n] = {}
    BY DEF AckInv, DeliveryInv, NumberedInv, NoCuts
  <2>2. T = Taken(n)
    BY <2>1, TopCounts
  <2>3. B \in Nat /\ T \in Nat /\ B <= T
    BY <2>1 DEF AckPart, SenderWindow, TypeInv, TypeOK, SeqN
  <2>4. B <= D /\ D \in Nat
    BY <2>1, WindowsOverlap DEF AckPart, SeqN
  <2>5. D <= Taken(n)
    BY <2>1, DeliveredIsPrefix DEF Taken
  <2>6. Outstanding(n) = T - B
    BY <2>3 DEF Outstanding, Dist
  <2> HIDE DEF B, T, D
  <2>7. T - (T - B) = B
    BY <2>3
  <2> QED
    BY <2>2, <2>4, <2>5, <2>6, <2>7 DEF D
<1> QED
  BY <1>1, TypeInvariant, DeliveryInvariant, AckInvariant, PTL

\* A message of the window that counts as acknowledged has reached the peer, as
\* long as numbers do not wrap and no sender closes: it waits in the peer's
\* window or was delivered (mark_packet_ack, segment_arrival_event_socket_handler).
THEOREM AckedAfterReceipt ==
  ASSUME FirstRound
  PROVE  Spec => [](NoCuts => AckedIsReceived)
<1>1. TypeInv /\ DeliveryInv /\ (NoCuts => AckInv) => (NoCuts => AckedIsReceived)
  <2> SUFFICES ASSUME TypeInv, DeliveryInv, AckInv, NoCuts, NEW n \in Node,
                      NEW s \in SeqN, acknowledged[n][s]
               PROVE  \/ tx_window[n][s].id \in ToSet(delivered[Peer(n)])
                      \/ /\ received[Peer(n)][s]
                         /\ rx_window[Peer(n)][s] = tx_window[n][s]
    BY DEF AckedIsReceived
  <2> DEFINE d == delivered[Peer(n)]
             q == sent[n]
             f == transmit_fifo[n]
             id == tx_window[n][s].id
  <2>1. AckPart(n) /\ NumberedInv(n) /\ cuts[n] = {}
    BY DEF AckInv, DeliveryInv, NoCuts
  <2>2. Got(n, s)
    BY <2>1 DEF AckPart, AcksAreGot
  <2>3. CASE received[Peer(n)][s]
    BY <2>1, <2>3 DEF AckPart, CopiesAgree
  <2>4. CASE s < Len(d)
    <3>1. tx_window[n][s] # NoPacket
      BY <2>1 DEF AckPart, SenderWindow
    <3>2. PICK k \in 1 .. Len(q) - Len(f) : q[k] = id /\ Number(q, {}, id) = s
      BY <2>1, <3>1 DEF NumberedInv, TxNumbered, Given, GivenIn
    <3>3. /\ q \in Seq(Nat) /\ d \in Seq(Nat)
          /\ Len(q) \in Nat /\ Len(f) \in Nat /\ Len(d) \in Nat /\ s \in Nat
          /\ \A i, j \in 1 .. Len(q) : i < j => q[i] < q[j]
      BY <2>1, PeerType, LenProperties
      DEF NumberedInv, SentInv, Numbering, TypeInv, TypeOK, SeqN
    <3>4. \A i \in 1 .. Len(d) : d[i] = q[i]
      BY <2>1, DeliveredIsPrefix
    <3> HIDE DEF d, q, f, id
    <3>5. k \in 1 .. Len(q)
      BY <3>3
    <3>6. Number(q, {}, q[k]) = k - 1
      BY <3>3, <3>5, NumberCounts
    <3>7. k = s + 1 /\ k \in 1 .. Len(d)
      BY <2>4, <3>2, <3>3, <3>6
    <3>8. d[k] = id /\ k \in DOMAIN d
      BY <3>2, <3>3, <3>4, <3>7, LenProperties
    <3> QED
      BY <3>8 DEF ToSet, d, id
  <2> QED
    BY <2>2, <2>3, <2>4 DEF Got
<1> QED
  BY <1>1, TypeInvariant, DeliveryInvariant, AckInvariant, PTL

-----------------------------------------------------------------------------
(***************************************************************************)
(* The queue of timers.                                                    *)
(***************************************************************************)

Distinct(q) == \A i, j \in 1 .. Len(q) : q[i] = q[j] => i = j

\* Setting a timer for what has none.
LEMMA SetHolds ==
  ASSUME NEW S, NEW q \in Seq(S), NEW e \in S, Distinct(q), ~Holds(q, e)
  PROVE  /\ Distinct(Append(q, e))
         /\ \A x : Holds(Append(q, e), x) <=> Holds(q, x) \/ x = e
<1> DEFINE r == Append(q, e)
<1>1. /\ Len(q) \in Nat /\ Len(r) = Len(q) + 1 /\ r[Len(q) + 1] = e
      /\ \A i \in 1 .. Len(q) : r[i] = q[i]
  BY AppendProperties, LenProperties
<1>2. \A i \in 1 .. Len(q) : q[i] # e
  BY DEF Holds
<1> HIDE DEF r
<1>3. \A i \in 1 .. Len(r) : i \in 1 .. Len(q) \/ i = Len(q) + 1
  BY <1>1
<1>4. Distinct(r)
  <2> SUFFICES ASSUME NEW i \in 1 .. Len(r), NEW j \in 1 .. Len(r), r[i] = r[j]
               PROVE  i = j
    BY DEF Distinct
  <2>1. CASE i \in 1 .. Len(q) /\ j \in 1 .. Len(q)
    BY <1>1, <2>1 DEF Distinct
  <2>2. CASE i = Len(q) + 1 \/ j = Len(q) + 1
    BY <1>1, <1>2, <1>3, <2>2
  <2> QED
    BY <1>3, <2>1, <2>2
<1>5. ASSUME NEW x PROVE Holds(r, x) <=> Holds(q, x) \/ x = e
  <2>1. ASSUME Holds(r, x) PROVE Holds(q, x) \/ x = e
    BY <1>1, <1>3, <2>1 DEF Holds
  <2>2. ASSUME Holds(q, x) PROVE Holds(r, x)
    <3>1. PICK i \in 1 .. Len(q) : q[i] = x
      BY <2>2 DEF Holds
    <3>2. i \in 1 .. Len(r) /\ r[i] = x
      BY <1>1, <3>1
    <3> QED
      BY <3>2 DEF Holds
  <2>3. Holds(r, e)
    <3>1. Len(q) + 1 \in 1 .. Len(r)
      BY <1>1
    <3> QED
      BY <1>1, <3>1 DEF Holds
  <2> QED
    BY <2>1, <2>2, <2>3
<1> QED
  BY <1>4, <1>5 DEF r

\* The cells of a sequence that one is removed from.
LEMMA RemovedCells ==
  ASSUME NEW S, NEW q \in Seq(S), NEW k \in 1 .. Len(q)
  PROVE  /\ Len(q) \in Nat /\ Len(RemoveAt(q, k)) = Len(q) - 1
         /\ \A i \in 1 .. Len(q) - 1 : RemoveAt(q, k)[i] = IF i < k THEN q[i] ELSE q[i + 1]
<1> DEFINE a == SubSeq(q, 1, k - 1)
           b == SubSeq(q, k + 1, Len(q))
<1>1. Len(q) \in Nat /\ k \in Nat
  BY LenProperties
<1>2. /\ a \in Seq(S) /\ Len(a) = k - 1
      /\ \A i \in 1 .. k - 1 : a[i] = q[i]
  BY <1>1, SubSeqProperties, ElementOfSeq
<1>3. /\ b \in Seq(S) /\ Len(b) = Len(q) - k
      /\ \A i \in 1 .. Len(q) - k : b[i] = q[k + i]
  BY <1>1, SubSeqProperties, ElementOfSeq
<1>4. RemoveAt(q, k) = a \o b
  BY DEF RemoveAt
<1> HIDE DEF a, b
<1>5. /\ Len(a \o b) = Len(a) + Len(b)
      /\ \A i \in 1 .. Len(a) + Len(b) :
           (a \o b)[i] = IF i <= Len(a) THEN a[i] ELSE b[i - Len(a)]
  BY <1>2, <1>3, ConcatProperties
<1>6. ASSUME NEW i \in 1 .. Len(q) - 1
      PROVE  (a \o b)[i] = IF i < k THEN q[i] ELSE q[i + 1]
  <2>1. i \in 1 .. Len(a) + Len(b) /\ (i <= Len(a) <=> i < k)
    BY <1>1, <1>2, <1>3
  <2>2. CASE i < k
    BY <1>1, <1>2, <1>5, <2>1, <2>2
  <2>3. CASE ~(i < k)
    <3>1. i - Len(a) \in 1 .. Len(q) - k /\ k + (i - Len(a)) = i + 1
      BY <1>1, <1>2, <2>3
    <3>2. b[i - Len(a)] = q[i + 1]
      BY <1>3, <3>1
    <3> QED
      BY <1>5, <2>1, <2>3, <3>2
  <2> QED
    BY <2>2, <2>3
<1>7. Len(a \o b) = Len(q) - 1
  BY <1>1, <1>2, <1>3, <1>5
<1> QED
  BY <1>1, <1>4, <1>6, <1>7

LEMMA RemovedHolds ==
  ASSUME NEW S, NEW q \in Seq(S), NEW k \in 1 .. Len(q), Distinct(q)
  PROVE  /\ Distinct(RemoveAt(q, k))
         /\ \A x : Holds(RemoveAt(q, k), x) <=> Holds(q, x) /\ x # q[k]
<1> DEFINE r == RemoveAt(q, k)
           at(i) == IF i < k THEN i ELSE i + 1
<1>1. /\ Len(q) \in Nat /\ Len(r) = Len(q) - 1
      /\ \A i \in 1 .. Len(q) - 1 : r[i] = IF i < k THEN q[i] ELSE q[i + 1]
  BY RemovedCells
<1> HIDE DEF r
<1>2. \A i \in 1 .. Len(r) : at(i) \in 1 .. Len(q) /\ at(i) # k /\ r[i] = q[at(i)]
  BY <1>1
<1>3. \A i, j \in 1 .. Len(r) : at(i) = at(j) => i = j
  BY <1>1
<1>4. \A i \in 1 .. Len(q) : i # k => \E j \in 1 .. Len(r) : at(j) = i
  <2> SUFFICES ASSUME NEW i \in 1 .. Len(q), i # k
               PROVE  \E j \in 1 .. Len(r) : at(j) = i
    OBVIOUS
  <2>1. CASE i < k
    <3>1. i \in 1 .. Len(r) /\ at(i) = i
      BY <1>1, <2>1
    <3> QED
      BY <3>1
  <2>2. CASE i > k
    <3>1. i - 1 \in 1 .. Len(r) /\ at(i - 1) = i
      BY <1>1, <2>2
    <3> QED
      BY <3>1
  <2> QED
    BY <1>1, <2>1, <2>2
<1> HIDE DEF at
<1>5. Distinct(r)
  <2> SUFFICES ASSUME NEW i \in 1 .. Len(r), NEW j \in 1 .. Len(r), r[i] = r[j]
               PROVE  i = j
    BY DEF Distinct
  <2>1. at(i) = at(j)
    BY <1>2 DEF Distinct
  <2> QED
    BY <1>3, <2>1
<1>6. ASSUME NEW x PROVE Holds(r, x) <=> Holds(q, x) /\ x # q[k]
  <2>1. ASSUME Holds(r, x) PROVE Holds(q, x) /\ x # q[k]
    <3>1. PICK i \in 1 .. Len(r) : r[i] = x
      BY <2>1 DEF Holds
    <3> QED
      BY <1>2, <3>1 DEF Holds, Distinct
  <2>2. ASSUME Holds(q, x), x # q[k] PROVE Holds(r, x)
    <3>1. PICK i \in 1 .. Len(q) : q[i] = x
      BY <2>2 DEF Holds
    <3>2. PICK j \in 1 .. Len(r) : at(j) = i
      BY <1>4, <2>2, <3>1
    <3> QED
      BY <1>2, <3>1, <3>2 DEF Holds
  <2> QED
    BY <2>1, <2>2
<1> QED
  BY <1>5, <1>6 DEF r

\* cancel_timer takes the one timer of s away and no other.
LEMMA CancelHolds ==
  ASSUME NEW q \in Seq(SeqN), NEW s, Distinct(q)
  PROVE  /\ Distinct(cancel_timer(q, s))
         /\ \A x : Holds(cancel_timer(q, s), x) <=> Holds(q, x) /\ x # s
<1>1. CASE Holds(q, s)
  <2>1. PICK k \in 1 .. Len(q) : q[k] = s
    BY <1>1 DEF Holds
  <2>2. \A j \in 1 .. k - 1 : q[j] # s
    <3> SUFFICES ASSUME NEW j \in 1 .. k - 1, q[j] = s PROVE FALSE
      OBVIOUS
    <3>1. j \in 1 .. Len(q) /\ j # k
      BY LenProperties
    <3> QED
      BY <2>1, <3>1 DEF Distinct
  <2>3. PICK i \in 1 .. Len(q) : cancel_timer(q, s) = RemoveAt(q, i) /\ q[i] = s
    BY <2>1, <2>2 DEF cancel_timer
  <2> QED
    BY <2>3, RemovedHolds
<1>2. CASE ~Holds(q, s)
  BY <1>2 DEF cancel_timer, Holds
<1> QED
  BY <1>1, <1>2

\* The oldest timer that expires and is set again is the youngest then.
LEMMA TurnHolds ==
  ASSUME NEW S, NEW q \in Seq(S), q # <<>>, Distinct(q)
  PROVE  /\ Len(Tail(q)) < Len(q)
         /\ Distinct(Append(Tail(q), Head(q)))
         /\ \A x : Holds(Append(Tail(q), Head(q)), x) <=> Holds(q, x)
<1> DEFINE r == Tail(q)
           h == Head(q)
<1>1. /\ Len(q) \in Nat /\ Len(q) > 0 /\ h = q[1] /\ h \in S
      /\ r \in Seq(S) /\ Len(r) = Len(q) - 1
      /\ \A i \in 1 .. Len(r) : r[i] = q[i + 1]
  BY EmptySeq, HeadTailProperties, LenProperties
<1> HIDE DEF r, h
<1>2. \A i \in 1 .. Len(r) : i + 1 \in 1 .. Len(q) /\ i + 1 # 1
  BY <1>1
<1>3. 1 \in 1 .. Len(q)
  BY <1>1
<1>4. Distinct(r)
  <2> SUFFICES ASSUME NEW i \in 1 .. Len(r), NEW j \in 1 .. Len(r), r[i] = r[j]
               PROVE  i = j
    BY DEF Distinct
  <2>1. i + 1 = j + 1
    BY <1>1, <1>2 DEF Distinct
  <2> QED
    BY <1>1, <2>1
<1>5. ~Holds(r, h)
  <2> SUFFICES ASSUME NEW i \in 1 .. Len(r), r[i] = h PROVE FALSE
    BY DEF Holds
  <2>1. q[i + 1] = q[1] /\ i + 1 \in 1 .. Len(q) /\ i + 1 # 1
    BY <1>1, <1>2
  <2> QED
    BY <1>3, <2>1 DEF Distinct
<1>6. ASSUME NEW x PROVE Holds(q, x) <=> Holds(r, x) \/ x = h
  <2>1. ASSUME Holds(q, x) PROVE Holds(r, x) \/ x = h
    <3>1. PICK i \in 1 .. Len(q) : q[i] = x
      BY <2>1 DEF Holds
    <3>2. CASE i = 1
      BY <1>1, <3>1, <3>2
    <3>3. CASE i # 1
      <4>1. i - 1 \in 1 .. Len(r) /\ (i - 1) + 1 = i
        BY <1>1, <3>3
      <4>2. r[i - 1] = x
        BY <1>1, <3>1, <4>1
      <4> QED
        BY <4>1, <4>2 DEF Holds
    <3> QED
      BY <3>2, <3>3
  <2>2. Holds(q, h) /\ (Holds(r, x) => Holds(q, x))
    BY <1>1, <1>2, <1>3 DEF Holds
  <2> QED
    BY <2>1, <2>2
<1>7. /\ Distinct(Append(r, h))
      /\ \A x : Holds(Append(r, h), x) <=> Holds(r, x) \/ x = h
  BY <1>1, <1>4, <1>5, SetHolds
<1>8. Len(r) < Len(q)
  BY <1>1
<1> QED
  BY <1>6, <1>7, <1>8 DEF r, h

\* There are no more timers than numbers they can be of.
LEMMA DistinctFits ==
  ASSUME NEW q \in Seq(SeqN), Distinct(q), NEW b \in Nat, NEW t \in Nat, b <= t,
         \A x \in SeqN : Holds(q, x) => b <= x /\ x < t
  PROVE  Len(q) <= t - b
<1>1. /\ Len(q) \in Nat /\ DOMAIN q = 1 .. Len(q)
      /\ \A i \in 1 .. Len(q) : q[i] \in SeqN /\ q[i] \in Nat
  BY LenProperties, ElementOfSeq DEF SeqN
<1>2. /\ IsFiniteSet(1 .. Len(q)) /\ Cardinality(1 .. Len(q)) = Len(q)
      /\ IsFiniteSet(b .. t - 1) /\ Cardinality(b .. t - 1) = t - b
  <2>1. IsFiniteSet(1 .. Len(q)) /\ Cardinality(1 .. Len(q)) = Len(q)
    <3> DEFINE n == Len(q)
    <3>1. n \in Nat
      BY <1>1
    <3> HIDE DEF n
    <3>2. IsFiniteSet(1 .. n) /\ Cardinality(1 .. n) = n
      BY <3>1, FS_Interval
    <3> QED
      BY <3>2 DEF n
  <2>2. /\ IsFiniteSet(b .. t - 1)
        /\ Cardinality(b .. t - 1) = IF b > t - 1 THEN 0 ELSE t - 1 - b + 1
    BY FS_Interval
  <2> QED
    BY <2>1, <2>2
<1>3. \A i \in 1 .. Len(q) : q[i] \in b .. t - 1
  BY <1>1 DEF Holds
<1>4. q \in [1 .. Len(q) -> b .. t - 1]
  <2>1. q = [i \in 1 .. Len(q) |-> q[i]]
    BY <1>1, LenProperties
  <2> QED
    BY <1>3, <2>1
<1> SUFFICES ASSUME t - b < Len(q) PROVE FALSE
  BY <1>1
<1>5. \E i, j \in 1 .. Len(q) : i # j /\ q[i] = q[j]
  BY <1>2, <1>4, FS_PigeonHole
<1> QED
  BY <1>5 DEF Distinct

-----------------------------------------------------------------------------
(***************************************************************************)
(* What a step does to timers and transmissions that are due, when no two  *)
(* calendar events of a node share an instant.                             *)
(***************************************************************************)

\* The first transmission of the number below the top is a pending event.
Ready(n) == Holds(now[n], ReadyEvent)

\* Number s was given to a message, and that was transmitted unless it is empty.
Live(n, s) ==
  s < tx_window_top[n] /\ ~(Ready(n) /\ s = Plus(tx_window_top[n], MAX_SEQ_N - 1))

\* No transmission comes due without a number for it, and none is run.
DueKeeps(n) ==
  \/ tx_window_top'[n] = tx_window_top[n] /\ (Ready(n)' <=> Ready(n))
  \/ tx_window_top'[n] = Plus(tx_window_top[n], 1) /\ ~Ready(n) /\ Ready(n)'

\* Nothing about the timers of n changes.
TimersRest(n) == timers'[n] = timers[n] /\ AckRests(n)

TimerMoves(n) ==
  \/ /\ ApplicationPacketReady(n) /\ Ready(n) /\ ~Ready(n)' /\ AckRests(n)
     /\ tx_window_top'[n] = tx_window_top[n]
  \/ /\ DueKeeps(n)
     /\ \/ TimersRest(n)
        \/ TimerInterrupt(n) /\ now[n] = <<>> /\ AckRests(n)
        \/ \E s \in SeqN : /\ AckCounts(n, s)
                           /\ timers'[n] = cancel_timer(timers[n], s)

\* Queues of at most one event.
LEMMA NoEvent == Len(<<>>) = 0 /\ \A x : ~Holds(<<>>, x)
BY EmptySeq DEF Holds

LEMMA FirstEvent ==
  ASSUME NEW e \in Event
  PROVE  /\ Len(Append(<<>>, e)) = 1
         /\ \A x : Holds(Append(<<>>, e), x) <=> x = e
<1> DEFINE q == <<>>
           r == Append(q, e)
<1>1. q \in Seq(Event) /\ Len(q) = 0
  BY EmptySeq
<1> HIDE DEF q
<1>2. Len(r) = 1 /\ r[1] = e
  BY <1>1, AppendProperties
<1> HIDE DEF r
<1>3. 1 .. Len(r) = {1}
  BY <1>2
<1> QED
  BY <1>2, <1>3 DEF Holds, r, q

LEMMA OneEvent ==
  ASSUME NEW q \in Seq(Event), q # <<>>, Len(q) <= 1
  PROVE  /\ Tail(q) = <<>> /\ Head(q) \in Event
         /\ \A x : Holds(q, x) <=> x = Head(q)
<1>1. /\ Len(q) \in Nat /\ Len(q) > 0 /\ Head(q) = q[1] /\ Head(q) \in Event
      /\ Tail(q) \in Seq(Event) /\ Len(Tail(q)) = Len(q) - 1
  BY EmptySeq, HeadTailProperties, LenProperties
<1>2. Len(Tail(q)) = 0
  BY <1>1
<1>3. Tail(q) = <<>>
  BY <1>1, <1>2, EmptySeq
<1>4. 1 .. Len(q) = {1}
  BY <1>1
<1> QED
  BY <1>1, <1>3, <1>4 DEF Holds

\* Events of different kinds.
LEMMA EventsDiffer ==
  /\ PeekEvent # ReadyEvent
  /\ \A pk : ArrivalEvent(pk) # ReadyEvent
  /\ \A e \in Event : e.event = "APPLICATION_PACKET_READY" <=> e = ReadyEvent
BY DEF PeekEvent, ReadyEvent, ArrivalEvent, Event

\* A peek that leaves no other event pending.
LEMMA PeekDue ==
  ASSUME TypeInv, NEW n \in Node, NEW bottom, NEW delayed, ~Ready(n),
         peek_from_transmit_fifo(n, bottom, <<>>, delayed)
  PROVE  Len(now'[n]) <= 1 /\ DueKeeps(n)
<1>1. now \in [Node -> Seq(Event)] /\ tx_window_top \in [Node -> SeqN]
  BY DEF TypeInv, TypeOK
<1>2. CASE CanPeek(n, bottom)
  <2>1. /\ now'[n] = Append(<<>>, ReadyEvent)
        /\ tx_window_top'[n] = Plus(tx_window_top[n], 1)
    BY <1>1, <1>2 DEF peek_from_transmit_fifo
  <2>2. Len(now'[n]) = 1 /\ Ready(n)'
    BY <2>1, FirstEvent, EventTypes DEF Ready
  <2> QED
    BY <2>1, <2>2 DEF DueKeeps
<1>3. CASE ~CanPeek(n, bottom)
  <2>1. now'[n] = <<>> /\ tx_window_top'[n] = tx_window_top[n]
    BY <1>1, <1>3 DEF peek_from_transmit_fifo
  <2>2. Len(now'[n]) = 0 /\ ~Ready(n)'
    BY <2>1, NoEvent DEF Ready
  <2> QED
    BY <2>1, <2>2 DEF DueKeeps
<1> QED
  BY <1>2, <1>3

\* A calendar event at n that adds event e, or none.
LEMMA CalendarDue ==
  ASSUME NEW n \in Node, NEW e \in Event, e # ReadyEvent, now[n] = <<>>,
         now'[n] = <<>> \/ now'[n] = Append(<<>>, e), UNCHANGED <<timers, tx_vars>>
  PROVE  Len(now'[n]) <= 1 /\ DueKeeps(n) /\ TimersRest(n)
<1>1. ~Ready(n)
  BY NoEvent DEF Ready
<1>2. Len(now'[n]) <= 1 /\ ~Ready(n)'
  <2>1. CASE now'[n] = <<>>
    BY <2>1, NoEvent DEF Ready
  <2>2. CASE now'[n] = Append(<<>>, e)
    BY <2>2, FirstEvent DEF Ready
  <2> QED
    BY <2>1, <2>2
<1> QED
  BY <1>1, <1>2 DEF DueKeeps, TimersRest, AckRests, tx_vars

\* What other nodes do.
LEMMA OthersRest ==
  ASSUME TypeInv, NEW n \in Node, Len(now[n]) <= 1, now'[n] = now[n],
         tx_window_top'[n] = tx_window_top[n], timers'[n] = timers[n], AckRests(n)
  PROVE  Len(now'[n]) <= 1 /\ DueKeeps(n) /\ TimersRest(n)
BY DEF DueKeeps, Ready, TimersRest

\* What the events of a node do to another.
LEMMA OtherNode ==
  ASSUME TypeInv, [Next]_vars, NEW n \in Node, Len(now[n]) <= 1, NEW m \in Node, m # n,
         \/ \E size \in Size : Send(m, size)
         \/ Close(m) \/ Open(m) \/ Peek(m) \/ ApplicationPacketReady(m) \/ AckArrived(m)
         \/ DataArrived(m) \/ LaterPeek(m) \/ TimerInterrupt(m) \/ SpwReady(m)
         \/ UndefinedAccess(m)
  PROVE  Len(now'[n]) <= 1 /\ DueKeeps(n) /\ TimersRest(n)
<1>1. /\ now \in [Node -> Seq(Event)] /\ timers \in [Node -> Seq(SeqN)]
      /\ tx_window_top \in [Node -> SeqN] /\ tx_window_bottom \in [Node -> SeqN]
      /\ acknowledged \in [Node -> [SeqN -> BOOLEAN]]
  BY DEF TypeInv, TypeOK
<1>2. /\ now'[n] = now[n] /\ timers'[n] = timers[n]
      /\ tx_window_top'[n] = tx_window_top[n] /\ AckRests(n)
  <2>1. CASE \/ \E size \in Size : Send(m, size)
             \/ Open(m) \/ SpwReady(m) \/ UndefinedAccess(m) \/ DataArrived(m)
    BY <1>1, <2>1 DEF Send, Open, SpwReady, UndefinedAccess, DataArrived, tx_vars, AckRests
  <2>2. CASE Close(m)
    BY <1>1, <2>2 DEF Close, AckRests
  <2>3. CASE ApplicationPacketReady(m) \/ TimerInterrupt(m)
    <3>1. UNCHANGED tx_vars /\ now'[n] = now[n]
      BY <1>1, <2>3 DEF ApplicationPacketReady, TimerInterrupt
    <3>2. timers'[n] = timers[n]
      BY <1>1, <2>3 DEF ApplicationPacketReady, TimerInterrupt, send_to_physical
    <3> QED
      BY <3>1, <3>2 DEF tx_vars, AckRests
  <2>4. ASSUME NEW bottom, NEW events, NEW delayed,
               peek_from_transmit_fifo(m, bottom, events, delayed)
        PROVE  now'[n] = now[n] /\ tx_window_top'[n] = tx_window_top[n]
    BY <1>1, <2>4 DEF peek_from_transmit_fifo
  <2>5. CASE Peek(m) \/ LaterPeek(m)
    BY <2>4, <2>5 DEF Peek, LaterPeek, AckRests
  <2>6. CASE AckArrived(m)
    <3>1. AckRests(n)
      BY <2>6, AckMoves
    <3>2. CASE UNCHANGED <<tx_vars, transmit_fifo, timers, later>>
               /\ now' = [now EXCEPT ![m] = Tail(now[m])]
      BY <1>1, <3>1, <3>2 DEF tx_vars
    <3>3. ASSUME NEW s, mark_packet_ack(m, s)
          PROVE  /\ now'[n] = now[n] /\ timers'[n] = timers[n]
                 /\ tx_window_top'[n] = tx_window_top[n]
      BY <1>1, <2>4, <3>3 DEF mark_packet_ack
    <3> QED
      BY <1>1, <2>6, <3>1, <3>2, <3>3 DEF AckArrived
  <2> QED
    BY <2>1, <2>2, <2>3, <2>5, <2>6
<1> QED
  BY <1>2, OthersRest

\* An acknowledgement that arrives when nothing else is pending.
LEMMA AckDue ==
  ASSUME TypeInv, NEW n \in Node, Len(now[n]) <= 1, AckArrived(n)
  PROVE  Len(now'[n]) <= 1 /\ TimerMoves(n)
<1>1. now \in [Node -> Seq(Event)] /\ timers \in [Node -> Seq(SeqN)]
  BY DEF TypeInv, TypeOK
<1>2. now[n] # <<>> /\ now[n] \in Seq(Event)
      /\ Head(now[n]).event = "PACKET_ARRIVED_FROM_NETWORK"
  BY <1>1 DEF AckArrived, Starts
<1>3. Tail(now[n]) = <<>> /\ ~Ready(n)
  <2>1. /\ Tail(now[n]) = <<>> /\ Head(now[n]) \in Event
        /\ \A x : Holds(now[n], x) <=> x = Head(now[n])
    BY <1>2, OneEvent
  <2> QED
    BY <1>2, <2>1, EventsDiffer DEF Ready
<1>4. CASE UNCHANGED <<tx_vars, timers>> /\ now' = [now EXCEPT ![n] = Tail(now[n])]
  <2>1. now'[n] = <<>>
    BY <1>1, <1>3, <1>4
  <2>2. Len(now'[n]) <= 1 /\ ~Ready(n)'
    BY <2>1, NoEvent DEF Ready
  <2> QED
    BY <1>3, <1>4, <2>2 DEF TimerMoves, DueKeeps, TimersRest, AckRests, tx_vars
<1>5. ASSUME NEW s \in SeqN, AckCounts(n, s), mark_packet_ack(n, s)
      PROVE  Len(now'[n]) <= 1 /\ TimerMoves(n)
  <2>1. /\ timers'[n] = cancel_timer(timers[n], s)
        /\ peek_from_transmit_fifo(n, BottomAfterAck(n, s), <<>>, later[n])
    BY <1>1, <1>3, <1>5 DEF mark_packet_ack
  <2>2. Len(now'[n]) <= 1 /\ DueKeeps(n)
    BY <1>3, <2>1, PeekDue
  <2> QED
    BY <1>5, <2>1, <2>2 DEF TimerMoves
<1> QED
  BY <1>4, <1>5, AckMoves

\* Every step moves the timers and the transmissions of n that are due so.
LEMMA StepTimers ==
  ASSUME TypeInv, [Next]_vars, NEW n \in Node, ~setting.sameInstant, Len(now[n]) <= 1,
         cuts'[n] = {}
  PROVE  Len(now'[n]) <= 1 /\ TimerMoves(n)
<1> DEFINE Goal == Len(now'[n]) <= 1 /\ TimerMoves(n)
           Acts(m) ==
             \/ \E size \in Size : Send(m, size)
             \/ Close(m) \/ Open(m) \/ Peek(m) \/ ApplicationPacketReady(m) \/ AckArrived(m)
             \/ DataArrived(m) \/ LaterPeek(m) \/ TimerInterrupt(m) \/ SpwReady(m)
             \/ UndefinedAccess(m)
<1>1. /\ now \in [Node -> Seq(Event)] /\ timers \in [Node -> Seq(SeqN)]
      /\ n \in DOMAIN now /\ now[n] \in Seq(Event)
  BY DEF TypeInv, TypeOK
<1>2. MayRun(n) => now[n] = <<>>
  BY DEF MayRun
<1>3. (Len(now'[n]) <= 1 /\ DueKeeps(n) /\ TimersRest(n)) => Goal
  BY DEF TimerMoves
<1>4. PeekEvent \in Event /\ ReadyEvent \in Event /\ PeekEvent # ReadyEvent
  BY EventTypes, EventsDiffer
<1>5. ASSUME now'[n] = now[n], UNCHANGED <<timers, tx_vars>>
      PROVE  Goal
  BY <1>3, <1>5, OthersRest DEF tx_vars, AckRests
<1>6. ASSUME NEW size \in Size, Send(n, size) PROVE Goal
  <2>1. /\ now[n] = <<>> /\ UNCHANGED <<timers, tx_vars>>
        /\ now'[n] = <<>> \/ now'[n] = Append(<<>>, PeekEvent)
    BY <1>1, <1>2, <1>6 DEF Send, MaySchedule
  <2> QED
    BY <1>3, <1>4, <2>1, CalendarDue
<1>7. CASE SpwReady(n)
  <2>1. /\ now[n] = <<>> /\ UNCHANGED <<timers, tx_vars>>
        /\ now'[n] = Append(<<>>, PeekEvent)
    BY <1>1, <1>2, <1>7 DEF SpwReady, MaySchedule
  <2> QED
    BY <1>3, <1>4, <2>1, CalendarDue
<1>8. ASSUME Close(n) PROVE FALSE
  <2>1. cuts' = [cuts EXCEPT ![n] = @ \cup {NextNumbered(n)}]
    BY <1>8 DEF Close
  <2>2. cuts \in [Node -> SUBSET Nat]
    BY DEF TypeInv, TypeOK
  <2> QED
    BY <2>1, <2>2
<1>9. CASE Open(n) \/ UndefinedAccess(n)
  BY <1>5, <1>9 DEF Open, UndefinedAccess
<1>10. CASE Peek(n)
  <2>1. /\ Starts(n, "PEEK_FROM_TRANSMIT_FIFO")
        /\ peek_from_transmit_fifo(n, tx_window_bottom[n], Tail(now[n]), later[n])
        /\ UNCHANGED <<tx_window_bottom, acknowledged, timers>>
    BY <1>10 DEF Peek
  <2>2. now[n] # <<>> /\ Head(now[n]).event = "PEEK_FROM_TRANSMIT_FIFO"
    BY <2>1 DEF Starts
  <2>3. /\ Tail(now[n]) = <<>> /\ Head(now[n]) \in Event
        /\ \A x : Holds(now[n], x) <=> x = Head(now[n])
    BY <1>1, <2>2, OneEvent
  <2>4. ~Ready(n)
    BY <2>2, <2>3, EventsDiffer DEF Ready
  <2>5. Len(now'[n]) <= 1 /\ DueKeeps(n)
    BY <2>1, <2>3, <2>4, PeekDue
  <2> QED
    BY <1>3, <2>1, <2>5 DEF TimersRest, AckRests
<1>11. CASE LaterPeek(n)
  <2>1. /\ now[n] = <<>>
        /\ peek_from_transmit_fifo(n, tx_window_bottom[n], now[n], later[n] - 1)
        /\ UNCHANGED <<tx_window_bottom, acknowledged, timers>>
    BY <1>2, <1>11 DEF LaterPeek, MaySchedule
  <2>2. ~Ready(n)
    BY <2>1, NoEvent DEF Ready
  <2>3. Len(now'[n]) <= 1 /\ DueKeeps(n)
    BY <2>1, <2>2, PeekDue
  <2> QED
    BY <1>3, <2>1, <2>3 DEF TimersRest, AckRests
<1>12. CASE AckArrived(n)
  BY <1>12, AckDue
<1>13. ASSUME now[n] # <<>>, now' = [now EXCEPT ![n] = Tail(now[n])]
       PROVE  /\ now'[n] = <<>> /\ Len(now'[n]) <= 1 /\ ~Ready(n)'
              /\ Head(now[n]) \in Event /\ (Ready(n) <=> Head(now[n]) = ReadyEvent)
  <2>1. /\ Tail(now[n]) = <<>> /\ Head(now[n]) \in Event
        /\ \A x : Holds(now[n], x) <=> x = Head(now[n])
    BY <1>1, <1>13, OneEvent
  <2>2. now'[n] = <<>>
    BY <1>1, <1>13, <2>1
  <2> QED
    BY <2>1, <2>2, NoEvent DEF Ready
<1>14. CASE DataArrived(n)
  <2>1. /\ now[n] # <<>> /\ Head(now[n]).event = "PACKET_ARRIVED_FROM_NETWORK"
        /\ now' = [now EXCEPT ![n] = Tail(now[n])] /\ UNCHANGED <<timers, tx_vars>>
    BY <1>14 DEF DataArrived, Starts
  <2>2. Len(now'[n]) <= 1 /\ ~Ready(n) /\ ~Ready(n)'
    BY <1>13, <2>1, EventsDiffer
  <2> QED
    BY <1>3, <2>1, <2>2 DEF DueKeeps, TimersRest, AckRests, tx_vars
<1>15. CASE ApplicationPacketReady(n)
  <2>1. /\ now[n] # <<>> /\ Head(now[n]).event = "APPLICATION_PACKET_READY"
        /\ now' = [now EXCEPT ![n] = Tail(now[n])] /\ UNCHANGED tx_vars
    BY <1>15 DEF ApplicationPacketReady, Starts
  <2>2. Len(now'[n]) <= 1 /\ Ready(n) /\ ~Ready(n)'
    BY <1>13, <2>1, EventsDiffer
  <2> QED
    BY <1>15, <2>1, <2>2 DEF TimerMoves, AckRests, tx_vars
<1>16. CASE TimerInterrupt(n)
  <2>1. now[n] = <<>> /\ now' = now /\ UNCHANGED tx_vars
    BY <1>2, <1>16 DEF TimerInterrupt
  <2> QED
    BY <1>16, <2>1 DEF TimerMoves, DueKeeps, Ready, AckRests, tx_vars
<1>17. ASSUME NEW m \in Node, m # n, Acts(m)
       PROVE  Goal
  BY <1>3, <1>17, OtherNode
<1>18. ASSUME NEW m \in Node, NEW i \in 1 .. Len(wire[m]), Lose(m, i) PROVE Goal
  BY <1>5, <1>18 DEF Lose
<1>19. ASSUME NEW m \in Node, NEW i \in 1 .. Len(wire[m]), Deliver(m, i) PROVE Goal
  <2>1. /\ MayRun(Peer(m)) /\ UNCHANGED <<timers, tx_vars>>
        /\ now' = [now EXCEPT ![Peer(m)] = Append(now[Peer(m)], ArrivalEvent(wire[m][i]))]
    BY <1>19 DEF Deliver, MaySchedule
  <2>2. CASE Peer(m) = n
    <3>1. wire[m][i] \in Packet
      BY ElementOfSeq DEF TypeInv, TypeOK
    <3>2. ArrivalEvent(wire[m][i]) \in Event
      BY <3>1, EventTypes
    <3>3. now[n] = <<>> /\ now'[n] = Append(<<>>, ArrivalEvent(wire[m][i]))
      BY <1>1, <1>2, <2>1, <2>2
    <3> QED
      BY <1>3, <2>1, <3>2, <3>3, CalendarDue, EventsDiffer
  <2>3. CASE Peer(m) # n
    <3>1. now'[n] = now[n]
      BY <1>1, <2>1, <2>3
    <3> QED
      BY <1>5, <2>1, <3>1
  <2> QED
    BY <2>2, <2>3
<1>20. CASE UNCHANGED vars
  BY <1>5, <1>20 DEF vars
<1>21. Acts(n) => Goal
  BY <1>6, <1>7, <1>8, <1>9, <1>10, <1>11, <1>12, <1>14, <1>15, <1>16
<1>22. CASE \E m \in Node : Acts(m) \/ \E i \in 1 .. Len(wire[m]) : Deliver(m, i) \/ Lose(m, i)
  <2> HIDE DEF Acts
  <2> QED
    BY <1>17, <1>18, <1>19, <1>21, <1>22
<1>23. (\E m \in Node : Acts(m) \/ \E i \in 1 .. Len(wire[m]) : Deliver(m, i) \/ Lose(m, i))
       \/ UNCHANGED vars
  BY DEF Next
<1> QED
  BY <1>20, <1>22, <1>23 DEF Goal

-----------------------------------------------------------------------------
(***************************************************************************)
(* The invariant.                                                          *)
(***************************************************************************)

\* A timer should run for number s.
Timed(n, s) ==
  Live(n, s) /\ ~acknowledged[n][s] /\ tx_window[n][s].payload_len # 0

\* What is about a number is about one whose message was transmitted.
OnlyLive(n) == \A s \in SeqN :
  /\ acknowledged[n][s] => Live(n, s)
  /\ \A m \in Message : Carries(n, Data(s, m)) => Live(n, s)
  /\ Carries(Peer(n), Ack(s)) => Live(n, s)

TimersRight(n) ==
  /\ Distinct(timers[n])
  /\ \A s \in SeqN : Holds(timers[n], s) <=> Timed(n, s)

TimersPart(n) == Len(now[n]) <= 1 /\ OnlyLive(n) /\ TimersRight(n)

TimersInv == \A n \in Node : TimersPart(n)

\* The numbers transmitted stay those, and one comes with each transmission.
LEMMA LiveMoves ==
  ASSUME FirstRound, TypeInv, [Next]_vars, NEW n \in Node, SentInv(n), cuts'[n] = {},
         SenderWindow(n), TimerMoves(n), NEW s \in SeqN
  PROVE  /\ Live(n, s) => Live(n, s)'
         /\ DueKeeps(n) => (Live(n, s)' <=> Live(n, s))
         /\ DueKeeps(n) \/ (Live(n, s)' <=> s < tx_window_top[n])
<1> DEFINE T == tx_window_top[n]
           U == tx_window_top'[n]
<1>1. /\ T \in SeqN /\ T \in Nat /\ s \in Nat /\ T < MAX_SEQ_N
      /\ MAX_SEQ_N \in Nat /\ MAX_SEQ_N > 1
  BY DEF TypeInv, TypeOK, SeqN
<1>2. U = T \/ U = T + 1
  BY StoredStays
<1>3. Live(n, s) <=> s < T /\ ~(Ready(n) /\ s = Plus(T, MAX_SEQ_N - 1))
  BY DEF Live
<1>4. Live(n, s)' <=> s < U /\ ~(Ready(n)' /\ s = Plus(U, MAX_SEQ_N - 1))
  BY DEF Live
<1>5. CASE DueKeeps(n)
  <2>1. CASE U = T /\ (Ready(n)' <=> Ready(n))
    BY <1>3, <1>4, <1>5, <2>1
  <2>2. CASE U = Plus(T, 1) /\ ~Ready(n) /\ Ready(n)'
    <3> HIDE DEF T, U
    <3>1. Plus(T, 1) = IF T + 1 < MAX_SEQ_N THEN T + 1 ELSE T + 1 - MAX_SEQ_N
      BY <1>1, PlusCases
    <3>2. U = T + 1 /\ T + 1 < MAX_SEQ_N /\ U \in SeqN
      BY <1>1, <1>2, <2>2, <3>1 DEF SeqN
    <3>3. Plus(U, MAX_SEQ_N - 1) =
            IF U + (MAX_SEQ_N - 1) < MAX_SEQ_N THEN U + (MAX_SEQ_N - 1)
            ELSE U + (MAX_SEQ_N - 1) - MAX_SEQ_N
      BY <1>1, <3>2, PlusCases
    <3>4. Plus(U, MAX_SEQ_N - 1) = T
      BY <1>1, <3>2, <3>3
    <3>5. s < T + 1 /\ s # T <=> s < T
      BY <1>1
    <3> QED
      BY <1>3, <1>4, <1>5, <2>2, <3>2, <3>4, <3>5 DEF T, U
  <2> QED
    BY <1>5, <2>1, <2>2 DEF DueKeeps
<1>6. CASE U = T /\ ~Ready(n)'
  BY <1>3, <1>4, <1>6 DEF DueKeeps
<1> QED
  BY <1>5, <1>6 DEF TimerMoves

\* There are no more timers than numbers in the window.
LEMMA TimersFit ==
  ASSUME TypeInv, NEW n \in Node, SenderWindow(n), TimersRight(n)
  PROVE  Len(timers[n]) <= WINDOW_SZ /\ Len(timers[n]) \in Nat
<1> DEFINE q == timers[n]
           B == tx_window_bottom[n]
           T == tx_window_top[n]
<1>1. q \in Seq(SeqN) /\ B \in Nat /\ T \in Nat /\ B <= T /\ T - B <= WINDOW_SZ
  BY DEF TypeInv, TypeOK, SeqN, SenderWindow
<1>2. ASSUME NEW x \in SeqN, Holds(q, x) PROVE B <= x /\ x < T
  <2>1. x < T /\ ~acknowledged[n][x]
    BY <1>2 DEF TimersRight, Timed, Live
  <2>2. ~(x < B)
    BY <2>1 DEF SenderWindow
  <2> QED
    BY <1>1, <2>1, <2>2 DEF SeqN
<1>3. Distinct(q) /\ Len(q) \in Nat
  BY <1>1, LenProperties DEF TimersRight
<1> HIDE DEF q, B, T
<1>4. Len(q) <= T - B
  BY <1>1, <1>2, <1>3, DistinctFits
<1>5. Len(q) <= WINDOW_SZ
  BY <1>1, <1>3, <1>4
<1> QED
  BY <1>3, <1>5 DEF q

\* Before its transmission a number at the top has no timer and there is room
\* for one.
LEMMA FirstTimer ==
  ASSUME TypeInv, NEW n \in Node, SenderWindow(n), TimersRight(n), OnlyLive(n), Ready(n),
         NEW s \in SeqN, s = Plus(tx_window_top[n], MAX_SEQ_N - 1), s < tx_window_top[n]
  PROVE  /\ ~Holds(timers[n], s) /\ ~acknowledged[n][s]
         /\ Len(timers[n]) < WINDOW_SZ /\ Len(timers[n]) \in Nat
         /\ \A x \in SeqN : x < tx_window_top[n] /\ x # s => Live(n, x)
<1> DEFINE q == timers[n]
           B == tx_window_bottom[n]
           T == tx_window_top[n]
<1>1. /\ q \in Seq(SeqN) /\ B \in Nat /\ T \in Nat /\ B <= T /\ T - B <= WINDOW_SZ
      /\ T \in SeqN /\ T < MAX_SEQ_N /\ s \in Nat
  BY DEF TypeInv, TypeOK, SeqN, SenderWindow
<1>2. ~Live(n, s) /\ \A x \in SeqN : x < T /\ x # s => Live(n, x)
  BY DEF Live
<1>3. ~Holds(q, s) /\ ~acknowledged[n][s]
  BY <1>2 DEF TimersRight, Timed, OnlyLive
<1>4. ~(s < B)
  BY <1>3 DEF SenderWindow
<1>5. s = T - 1 /\ B <= T - 1 /\ T - 1 \in Nat
  <2>1. Plus(T, MAX_SEQ_N - 1) =
          IF T + (MAX_SEQ_N - 1) < MAX_SEQ_N THEN T + (MAX_SEQ_N - 1)
          ELSE T + (MAX_SEQ_N - 1) - MAX_SEQ_N
    <3>1. MAX_SEQ_N - 1 \in 0 .. MAX_SEQ_N
      OBVIOUS
    <3> QED
      BY <1>1, <3>1, PlusCases
  <2>2. s < T /\ s = Plus(T, MAX_SEQ_N - 1)
    OBVIOUS
  <2> HIDE DEF T, B
  <2> QED
    BY <1>1, <1>4, <2>1, <2>2
<1>6. ASSUME NEW x \in SeqN, Holds(q, x) PROVE B <= x /\ x < T - 1
  <2>1. x < T /\ ~acknowledged[n][x] /\ x # s
    BY <1>2, <1>6 DEF TimersRight, Timed, Live
  <2>2. ~(x < B)
    BY <2>1 DEF SenderWindow
  <2>3. x \in Nat
    BY DEF SeqN
  <2> HIDE DEF B, T
  <2> QED
    BY <1>1, <1>5, <2>1, <2>2, <2>3
<1>7. Distinct(q) /\ Len(q) \in Nat
  BY <1>1, LenProperties DEF TimersRight
<1> HIDE DEF q, B, T
<1>8. Len(q) <= T - 1 - B
  BY <1>1, <1>5, <1>6, <1>7, DistinctFits
<1>9. Len(q) < WINDOW_SZ
  BY <1>1, <1>5, <1>7, <1>8
<1> QED
  BY <1>2, <1>3, <1>7, <1>9 DEF q, T

\* What is about a number after a step is about one that is live.
LEMMA OnlyLiveStep ==
  ASSUME FirstRound, TypeInv, DeliveryInv, [Next]_vars, NoCuts', NEW n \in Node,
         AckPart(n), TimersPart(n), TimerMoves(n)
  PROVE  OnlyLive(n)'
<1> DEFINE p == Peer(n)
           w == tx_window[n]
<1>1. SentInv(n) /\ cuts'[n] = {} /\ SenderWindow(n) /\ OnlyLive(n) /\ TimersRight(n)
  BY DEF DeliveryInv, NumberedInv, NoCuts, AckPart, TimersPart
<1>2. \A s \in SeqN : Live(n, s) => Live(n, s)'
  BY <1>1, LiveMoves
<1>3. ASSUME NEW s \in SeqN, acknowledged'[n][s] PROVE Live(n, s)'
  BY <1>1, <1>2, <1>3, SenderWindowStep DEF OnlyLive
<1>4. ASSUME NEW s \in SeqN, NEW m \in Message, Carries(n, Data(s, m))' PROVE Live(n, s)'
  <2>1. CASE Carries(n, Data(s, m))
    BY <1>1, <1>2, <2>1 DEF OnlyLive
  <2>2. CASE Emits(n, Data(s, m))
    <3>1. ASSUME NEW r PROVE Data(s, m) # Ack(r)
      BY DEF Data, Ack
    <3>2. PICK r \in SeqN :
            /\ \/ ApplicationPacketReady(n) /\ r = Plus(tx_window_top[n], MAX_SEQ_N - 1)
               \/ TimerInterrupt(n) /\ timers[n] # <<>> /\ r = Head(timers[n])
            /\ w[r] \in Message /\ Data(s, m) = Data(r, w[r])
      BY <2>2, <3>1 DEF Emits
    <3>3. r = s /\ w[s] # NoPacket
      BY <3>2, NoPacketIsNoMessage DEF Data
    <3>4. s < tx_window_top[n]
      BY <1>1, <3>3 DEF SenderWindow
    <3>5. CASE TimerInterrupt(n) /\ timers[n] # <<>> /\ s = Head(timers[n])
      <4>1. timers[n] \in Seq(SeqN)
        BY DEF TypeInv, TypeOK
      <4>2. Holds(timers[n], s)
        BY <3>5, <4>1, HoldsLess
      <4> QED
        BY <1>1, <1>2, <4>2 DEF TimersRight, Timed
    <3>6. CASE ApplicationPacketReady(n)
      <4>1. /\ now[n] # <<>> /\ UNCHANGED tx_vars
            /\ now' = [now EXCEPT ![n] = Tail(now[n])]
        BY <3>6 DEF ApplicationPacketReady, Starts
      <4>2. now \in [Node -> Seq(Event)] /\ now[n] \in Seq(Event) /\ Len(now[n]) <= 1
        BY DEF TypeInv, TypeOK, TimersPart
      <4>3. Tail(now[n]) = <<>>
        BY <4>1, <4>2, OneEvent
      <4>4. now'[n] = <<>>
        BY <4>1, <4>2, <4>3
      <4>5. ~Ready(n)'
        BY <4>4, NoEvent DEF Ready
      <4> QED
        BY <3>4, <4>1, <4>5 DEF Live, tx_vars
    <3> QED
      BY <3>2, <3>3, <3>5, <3>6
  <2> QED
    BY <1>4, <2>1, <2>2, StepCarries
<1>5. ASSUME NEW s \in SeqN, Carries(p, Ack(s))' PROVE Live(n, s)'
  <2>1. p \in Node
    BY PeerType
  <2>2. CASE Carries(p, Ack(s))
    BY <1>1, <1>2, <2>2 DEF OnlyLive
  <2>3. CASE Emits(p, Ack(s))
    <3>1. ASSUME NEW r, NEW m PROVE Ack(s) # Data(r, m)
      BY DEF Ack, Data
    <3>2. ASSUME NEW r, Ack(s) = Ack(r) PROVE r = s
      BY <3>2 DEF Ack
    <3>3. PICK m \in Message : now[p] # <<>> /\ Head(now[p]) = ArrivalEvent(Data(s, m))
      BY <2>3, <3>1, <3>2 DEF Emits
    <3>4. Carries(n, Data(s, m))
      BY <3>3, HeadIsCarried
    <3> QED
      BY <1>1, <1>2, <3>4 DEF OnlyLive
  <2> QED
    BY <1>5, <2>1, <2>2, <2>3, StepCarries
<1> QED
  BY <1>3, <1>4, <1>5 DEF OnlyLive

\* What send_to_physical does to the timers.
LEMMA TransmitSets ==
  ASSUME TypeInv, NEW n \in Node, NEW s, NEW q, send_to_physical(n, s, q)
  PROVE  /\ tx_window[n][s] # NoPacket
         /\ timers'[n] = IF tx_window[n][s].payload_len = 0 THEN q ELSE add_new_timer(q, s)
BY DEF send_to_physical, TypeInv, TypeOK

\* The first transmission of a number sets the timer it has to have.
LEMMA FirstTransmission ==
  ASSUME WINDOW_SZ <= MAX_UNACK_PACKETS, TypeInv, NEW n \in Node, SenderWindow(n),
         TimersPart(n), ApplicationPacketReady(n), Ready(n), AckRests(n),
         tx_window'[n] = tx_window[n],
         \A s \in SeqN : Live(n, s)' <=> s < tx_window_top[n]
  PROVE  TimersRight(n)'
<1> DEFINE q == timers[n]
           T == tx_window_top[n]
           s == Plus(T, MAX_SEQ_N - 1)
           w == tx_window[n]
<1>1. q \in Seq(SeqN) /\ s \in SeqN /\ MAX_UNACK_PACKETS \in Nat
  <2>1. q \in Seq(SeqN) /\ T \in Nat /\ MAX_SEQ_N - 1 \in Nat
    BY DEF TypeInv, TypeOK, SeqN
  <2>2. MAX_UNACK_PACKETS \in Nat
    BY SocketAssumption
  <2> QED
    BY <2>1, <2>2, PlusType
<1>2. /\ w[s] # NoPacket
      /\ timers'[n] = IF w[s].payload_len = 0 THEN q ELSE add_new_timer(q, s)
  <2>1. send_to_physical(n, s, q)
    BY DEF ApplicationPacketReady
  <2> QED
    BY <2>1, TransmitSets
<1>3. s < T
  BY <1>1, <1>2 DEF SenderWindow
<1>4. /\ ~Holds(q, s) /\ ~acknowledged[n][s]
      /\ Len(q) < WINDOW_SZ /\ Len(q) \in Nat
      /\ \A x \in SeqN : x < T /\ x # s => Live(n, x)
  BY <1>1, <1>3, FirstTimer DEF TimersPart
<1>5. /\ Distinct(q) /\ \A x \in SeqN : Holds(q, x) <=> Timed(n, x)
  BY DEF TimersPart, TimersRight
<1>6. \A x \in SeqN : Live(n, x) => x < T
  BY DEF Live
<1>7. \A x \in SeqN : Timed(n, x)' <=> x < T /\ ~acknowledged[n][x] /\ w[x].payload_len # 0
  BY DEF Timed, AckRests
<1> HIDE DEF q, T, s, w
<1>8. \A x \in SeqN : Timed(n, x)' <=> Holds(q, x) \/ (x = s /\ w[s].payload_len # 0)
  <2> SUFFICES ASSUME NEW x \in SeqN
               PROVE  Timed(n, x)' <=> Holds(q, x) \/ (x = s /\ w[s].payload_len # 0)
    OBVIOUS
  <2>1. CASE x = s
    BY <1>3, <1>4, <1>7, <2>1
  <2>2. CASE x # s
    BY <1>4, <1>5, <1>6, <1>7, <2>2 DEF Timed, w
  <2> QED
    BY <2>1, <2>2
<1>9. /\ Distinct(timers'[n])
      /\ \A x \in SeqN : Holds(timers'[n], x) <=> Holds(q, x) \/ (x = s /\ w[s].payload_len # 0)
  <2>1. CASE w[s].payload_len = 0
    BY <1>2, <1>5, <2>1
  <2>2. CASE w[s].payload_len # 0
    <3>1. Len(q) < MAX_UNACK_PACKETS
      BY <1>1, <1>4
    <3>2. timers'[n] = Append(q, s)
      BY <1>2, <2>2, <3>1 DEF add_new_timer
    <3> QED
      BY <1>1, <1>4, <1>5, <2>2, <3>2, SetHolds
  <2> QED
    BY <2>1, <2>2
<1> QED
  BY <1>8, <1>9 DEF TimersRight

\* A timer that expires is set again, and no other changes.
LEMMA Retransmission ==
  ASSUME WINDOW_SZ <= MAX_UNACK_PACKETS, TypeInv, NEW n \in Node, SenderWindow(n),
         TimersRight(n), TimerInterrupt(n)
  PROVE  /\ Distinct(timers'[n])
         /\ \A x : Holds(timers'[n], x) <=> Holds(timers[n], x)
<1> DEFINE q == timers[n]
           s == Head(q)
<1>1. q \in Seq(SeqN) /\ q # <<>> /\ s \in SeqN /\ MAX_UNACK_PACKETS \in Nat
  BY HeadTailProperties, SocketAssumption DEF TypeInv, TypeOK, TimerInterrupt
<1>2. timers'[n] = IF tx_window[n][s].payload_len = 0 THEN Tail(q)
                   ELSE add_new_timer(Tail(q), s)
  <2>1. send_to_physical(n, s, Tail(q))
    BY DEF TimerInterrupt
  <2> QED
    BY <2>1, TransmitSets
<1>3. Holds(q, s)
  BY <1>1, HoldsLess
<1>4. tx_window[n][s].payload_len # 0 /\ Distinct(q)
  BY <1>1, <1>3 DEF TimersRight, Timed
<1>5. Len(q) <= WINDOW_SZ /\ Len(q) \in Nat
  BY TimersFit
<1>6. /\ Len(Tail(q)) < Len(q) /\ Len(Tail(q)) \in Nat
      /\ Distinct(Append(Tail(q), s))
      /\ \A x : Holds(Append(Tail(q), s), x) <=> Holds(q, x)
  BY <1>1, <1>4, TurnHolds, HeadTailProperties, LenProperties
<1> HIDE DEF q, s
<1>7. Len(Tail(q)) < MAX_UNACK_PACKETS
  BY <1>1, <1>5, <1>6
<1>8. timers'[n] = Append(Tail(q), s)
  BY <1>2, <1>4, <1>7 DEF add_new_timer
<1> QED
  BY <1>6, <1>8 DEF q

LEMMA TimersRightStep ==
  ASSUME FirstRound, WINDOW_SZ <= MAX_UNACK_PACKETS, TypeInv, DeliveryInv, [Next]_vars,
         NoCuts', NEW n \in Node, AckPart(n), TimersPart(n), TimerMoves(n)
  PROVE  TimersRight(n)'
<1> DEFINE w == tx_window[n]
           a == acknowledged[n]
           q == timers[n]
<1>1. /\ SentInv(n) /\ cuts'[n] = {} /\ SenderWindow(n)
      /\ OnlyLive(n) /\ TimersRight(n)
  BY DEF DeliveryInv, NumberedInv, NoCuts, AckPart, TimersPart
<1>2. /\ q \in Seq(SeqN) /\ a \in [SeqN -> BOOLEAN]
      /\ Distinct(q) /\ \A s \in SeqN : Holds(q, s) <=> Timed(n, s)
  BY <1>1 DEF TypeInv, TypeOK, TimersRight
<1>3. \A s \in SeqN : /\ Live(n, s) => w[s] # NoPacket /\ tx_window'[n][s] = w[s]
                      /\ w[s] # NoPacket => tx_window'[n][s] = w[s]
  BY <1>1, StoredStays DEF Live, SenderWindow
<1>4. CASE ApplicationPacketReady(n) /\ Ready(n) /\ ~Ready(n)' /\ AckRests(n)
           /\ tx_window_top'[n] = tx_window_top[n]
  <2>1. \A s \in SeqN : Live(n, s)' <=> s < tx_window_top[n]
    BY <1>4 DEF Live
  <2>2. tx_window'[n] = w
    BY <1>4 DEF ApplicationPacketReady, tx_vars
  <2> QED
    BY <1>1, <1>4, <2>1, <2>2, FirstTransmission
<1>5. CASE DueKeeps(n)
  <2>1. \A s \in SeqN : Live(n, s)' <=> Live(n, s)
    BY <1>1, <1>5, LiveMoves
  <2>2. \A s \in SeqN : Timed(n, s)' <=>
          Live(n, s) /\ ~acknowledged'[n][s] /\ w[s].payload_len # 0
    BY <1>3, <2>1 DEF Timed
  <2>3. ASSUME AckRests(n), Distinct(timers'[n]),
               \A s : Holds(timers'[n], s) <=> Holds(q, s)
        PROVE  TimersRight(n)'
    BY <1>2, <2>2, <2>3 DEF TimersRight, Timed, AckRests
  <2>4. CASE TimersRest(n)
    BY <1>2, <2>3, <2>4 DEF TimersRest
  <2>5. CASE TimerInterrupt(n) /\ AckRests(n)
    BY <1>1, <2>3, <2>5, Retransmission
  <2>6. ASSUME NEW r \in SeqN, AckCounts(n, r), timers'[n] = cancel_timer(q, r)
        PROVE  TimersRight(n)'
    <3>1. /\ Distinct(timers'[n])
          /\ \A x : Holds(timers'[n], x) <=> Holds(q, x) /\ x # r
      BY <1>2, <2>6, CancelHolds
    <3>2. \A s \in SeqN : acknowledged'[n][s] <=> a[s] \/ s = r
      BY <1>2, <2>6 DEF AckCounts
    <3>3. \A s \in SeqN : Timed(n, s)' <=> Timed(n, s) /\ s # r
      BY <2>2, <3>2 DEF Timed
    <3> QED
      BY <1>2, <3>1, <3>3 DEF TimersRight
  <2> QED
    BY <1>4, <1>5, <2>4, <2>5, <2>6 DEF TimerMoves
<1> QED
  BY <1>4, <1>5 DEF TimerMoves

LEMMA TimersInit ==
  ASSUME Init
  PROVE  TimersInv
<1> SUFFICES ASSUME NEW n \in Node
             PROVE  TimersPart(n)
  BY DEF TimersInv
<1>1. Peer(n) \in Node
  BY PeerType
<1>2. /\ tx_window_top[n] = 0 /\ timers[n] = <<>>
      /\ wire[n] = <<>> /\ now[Peer(n)] = <<>> /\ wire[Peer(n)] = <<>> /\ now[n] = <<>>
      /\ \A s \in SeqN : ~acknowledged[n][s]
  BY <1>1 DEF Init
<1>3. Len(<<>>) = 0 /\ \A x : ~Holds(<<>>, x)
  BY NoEvent
<1>4. \A pk : ~Carries(n, pk) /\ ~Carries(Peer(n), pk)
  BY <1>2, <1>3, PeerOfPeer DEF Carries
<1>5. OnlyLive(n)
  BY <1>2, <1>4 DEF OnlyLive
<1>6. \A s \in SeqN : ~Live(n, s)
  BY <1>2 DEF Live, SeqN
<1>7. Distinct(<<>>)
  BY <1>3 DEF Distinct
<1>8. TimersRight(n)
  BY <1>2, <1>3, <1>6, <1>7 DEF TimersRight, Timed
<1> QED
  BY <1>2, <1>3, <1>5, <1>8 DEF TimersPart

LEMMA TimersInvariant ==
  ASSUME FirstRound, WINDOW_SZ <= MAX_UNACK_PACKETS
  PROVE  Spec => [](NoCuts /\ ~setting.sameInstant => TimersInv)
<1>1. Init => TimersInv
  BY TimersInit
<1>2. /\ TypeInv /\ DeliveryInv /\ (NoCuts => AckInv) /\ [Next]_vars
      /\ (NoCuts /\ ~setting.sameInstant => TimersInv)
      => (NoCuts /\ ~setting.sameInstant => TimersInv)'
  <2> SUFFICES ASSUME TypeInv, DeliveryInv, NoCuts => AckInv, [Next]_vars,
                      NoCuts /\ ~setting.sameInstant => TimersInv,
                      NoCuts', ~setting'.sameInstant
               PROVE  TimersInv'
    OBVIOUS
  <2>1. NoCuts /\ AckInv
    BY CutsStay
  <2>2. setting' = setting
    <3>1. PICK n : n \in Node
      BY SocketAssumption
    <3> QED
      BY <3>1, StepMovesSender
  <2>3. ASSUME NEW n \in Node PROVE TimersPart(n)'
    <3>1. TimersPart(n) /\ AckPart(n) /\ cuts'[n] = {} /\ ~setting.sameInstant
      BY <2>1, <2>2 DEF TimersInv, AckInv, NoCuts
    <3>2. Len(now'[n]) <= 1 /\ TimerMoves(n)
      BY <3>1, StepTimers DEF TimersPart
    <3>3. OnlyLive(n)' /\ TimersRight(n)'
      BY <3>1, <3>2, OnlyLiveStep, TimersRightStep
    <3> QED
      BY <3>2, <3>3 DEF TimersPart
  <2> QED
    BY <2>3 DEF TimersInv
<1> QED
  BY <1>1, <1>2, TypeInvariant, DeliveryInvariant, AckInvariant, PTL DEF Spec

\* How often a number occurs among timers no two of which are of the same.
LEMMA OccursOnce ==
  ASSUME NEW q, Distinct(q), NEW s
  PROVE  Cardinality({i \in 1 .. Len(q) : q[i] = s}) = IF Holds(q, s) THEN 1 ELSE 0
<1> DEFINE X == {i \in 1 .. Len(q) : q[i] = s}
<1>1. CASE Holds(q, s)
  <2>1. PICK k \in 1 .. Len(q) : q[k] = s
    BY <1>1 DEF Holds
  <2>2. X = {k}
    BY <2>1 DEF Distinct
  <2> HIDE DEF X
  <2>3. Cardinality(X) = 1
    BY <2>2, FS_Singleton
  <2> QED
    BY <1>1, <2>3 DEF X
<1>2. CASE ~Holds(q, s)
  <2>1. X = {}
    BY <1>2 DEF Holds
  <2> HIDE DEF X
  <2>2. Cardinality(X) = 0
    BY <2>1, FS_EmptySet
  <2> QED
    BY <1>2, <2>2 DEF X
<1> QED
  BY <1>1, <1>2

\* A retransmission timer runs for exactly the messages of the window that were
\* transmitted and not acknowledged, one for each, as long as numbers do not
\* wrap, no sender closes and no two calendar events of a node share an instant,
\* if there are as many timers as places in the window (send_to_physical,
\* add_new_timer, cancel_timer, timer_interrupt_handler).
THEOREM TimersTrackWindow ==
  ASSUME FirstRound, WINDOW_SZ <= MAX_UNACK_PACKETS
  PROVE  Spec => [](NoCuts /\ ~setting.sameInstant => TimerDiscipline)
<1>1. TypeInv /\ AckInv /\ TimersInv => TimerDiscipline
  <2> SUFFICES ASSUME TypeInv, AckInv, TimersInv, NEW n \in Node, NEW s \in SeqN
               PROVE  Cardinality({i \in 1 .. Len(timers[n]) : timers[n][i] = s}) =
                        IF /\ in_window(tx_window_bottom[n], tx_window_top[n], s)
                           /\ ~acknowledged[n][s]
                           /\ tx_window[n][s].payload_len # 0
                           /\ ~Unsent(n, s)
                        THEN 1 ELSE 0
    BY DEF TimerDiscipline
  <2>1. SenderWindow(n) /\ TimersRight(n)
    BY DEF AckInv, AckPart, TimersInv, TimersPart
  <2>2. Cardinality({i \in 1 .. Len(timers[n]) : timers[n][i] = s}) =
          IF Timed(n, s) THEN 1 ELSE 0
    BY <2>1, OccursOnce DEF TimersRight
  <2>3. Ready(n) <=> ReadyEvent \in ToSet(now[n])
    <3>1. now[n] \in Seq(Event)
      BY DEF TypeInv, TypeOK
    <3>2. DOMAIN now[n] = 1 .. Len(now[n])
      BY <3>1, LenProperties
    <3> QED
      BY <3>2 DEF Ready, Holds, ToSet
  <2>4. ASSUME ~acknowledged[n][s]
        PROVE  in_window(tx_window_bottom[n], tx_window_top[n], s) <=> s < tx_window_top[n]
    <3>1. ~(s < tx_window_bottom[n]) /\ tx_window_bottom[n] <= tx_window_top[n]
      BY <2>1, <2>4 DEF SenderWindow
    <3>2. s \in Nat /\ tx_window_bottom[n] \in Nat /\ tx_window_top[n] \in Nat
      BY DEF TypeInv, TypeOK, SeqN
    <3> QED
      BY <3>1, <3>2 DEF in_window
  <2> QED
    BY <2>2, <2>3, <2>4 DEF Timed, Live, Unsent
<1> QED
  BY <1>1, TypeInvariant, AckInvariant, TimersInvariant, PTL
==============================================================================
