--------------------------- MODULE SpwLink_proofs ---------------------------
(***************************************************************************)
(* Theorems about SpwLink, for every delay, queue, traffic and number of   *)
(* errors. For packets sent again and errors that overlap a reset too: the *)
(* devices and their queues, the calendar and its types, the transmissions *)
(* NotifyError takes off the channel, that the devices are the abstract    *)
(* link without its order, and that only what was sent arrives. For errors *)
(* that come one at a time: what is pending for a device in each of its    *)
(* states, and that short packets keep the order.                          *)
(***************************************************************************)
EXTENDS SpwLink, SequenceTheorems, Smallest_proofs

\* The devices: what the handlers do to the state and the queue of each.
DeviceInv ==
  /\ machineState \in [Node -> MachineState]
  /\ m_queue \in [Node -> Seq(Uid)]
  /\ given \in 0 .. MAX_SEND
  /\ sent \in [Node -> Seq(Uid)]
  /\ NothingWaits

\* What a device is given again is a packet.
LEMMA SentPackets ==
  ASSUME sent \in [Node -> Seq(Uid)], NEW n \in Node
  PROVE  Range(sent[n]) \subseteq Uid
<1>1. sent[n] \in Seq(Uid)
  OBVIOUS
<1> QED
  BY <1>1, ElementOfSeq DEF Range

\* Whatever it has in its queue, a device that is ready leaves RUN only for
\* BUSY and stays in RUN only with nothing to transmit.
LEMMA TransmitInv ==
  ASSUME DeviceInv, NEW n \in Node, NEW q \in Seq(Uid), NEW cal,
         Transmit(n, q, cal), given' \in 0 .. MAX_SEND, sent' \in [Node -> Seq(Uid)]
  PROVE  DeviceInv'
<1>1. CASE q = <<>>
  BY <1>1 DEF Transmit, DeviceInv, NothingWaits, MachineState
<1>2. CASE q # <<>>
  <2>1. Tail(q) \in Seq(Uid)
    BY <1>2
  <2> QED
    BY <1>2, <2>1 DEF Transmit, DeviceInv, NothingWaits, MachineState
<1> QED
  BY <1>1, <1>2

\* A handler that enters a state other than RUN and leaves the queues alone.
LEMMA EnterInv ==
  ASSUME DeviceInv, NEW n \in Node, NEW s \in MachineState \ {"RUN"},
         Enter(n, s), UNCHANGED <<m_queue, given, sent>>
  PROVE  DeviceInv'
BY DEF Enter, DeviceInv, NothingWaits

LEMMA StepDevice ==
  ASSUME DeviceInv, [Next]_vars
  PROVE  DeviceInv'
<1> USE DEF MachineState
<1>1. ASSUME UNCHANGED vars PROVE DeviceInv'
  BY <1>1 DEF vars, DeviceInv, NothingWaits
<1>2. ASSUME NEW n \in Node, Step(n) PROVE DeviceInv'
  <2>1. CASE ErrorResetSpWState(n)
    BY <2>1, EnterInv DEF ErrorResetSpWState, calls
  <2>2. CASE ErrorWaitSpWState(n)
    BY <2>2, EnterInv DEF ErrorWaitSpWState, calls
  <2>3. CASE ReadySpWState(n)
    BY <2>3, EnterInv DEF ReadySpWState, calls
  <2>4. CASE SendNull(n)
    BY <2>4 DEF SendNull, calls, DeviceInv, NothingWaits
  <2>5. CASE ReceiveNull(n)
    <3>1. CASE machineState[n] = "STARTED"
      BY <2>5, <3>1, EnterInv DEF ReceiveNull, calls
    <3>2. CASE machineState[n] # "STARTED"
      BY <2>5, <3>2 DEF ReceiveNull, calls, DeviceInv, NothingWaits
    <3> QED
      BY <3>1, <3>2
  <2>6. CASE SendFCT(n)
    BY <2>6 DEF SendFCT, calls, DeviceInv, NothingWaits
  <2>7. CASE ReceiveFCT(n)
    <3>1. CASE machineState[n] = "CONNECTING"
      <4>1. PICK cal : Transmit(n, m_queue[n], cal)
        BY <2>7, <3>1 DEF ReceiveFCT, RunSpWState
      <4> QED
        BY <2>7, <4>1, TransmitInv DEF ReceiveFCT, calls, DeviceInv
    <3>2. CASE machineState[n] # "CONNECTING"
      BY <2>7, <3>2 DEF ReceiveFCT, calls, DeviceInv, NothingWaits
    <3> QED
      BY <3>1, <3>2
  <2>8. CASE TransmitComplete(n)
    <3>1. PICK cal : Transmit(n, m_queue[n], cal)
      BY <2>8 DEF TransmitComplete
    <3> QED
      BY <2>8, <3>1, TransmitInv DEF TransmitComplete, calls, DeviceInv
  <2>9. CASE TransmissionComplete(n) \/ HandlingArrivedComplete(n) \/ ReceiveIntact(n)
    BY <2>9 DEF TransmissionComplete, HandlingArrivedComplete, ReceiveIntact, calls,
                DeviceInv, NothingWaits
  <2>10. CASE ReceiveCorrupt(n)
    BY <2>10, EnterInv DEF ReceiveCorrupt
  <2>11. CASE ApproachLinkDisconnection(n)
    BY <2>11, EnterInv DEF ApproachLinkDisconnection, calls
  <2> QED
    BY <1>2, <2>1, <2>2, <2>3, <2>4, <2>5, <2>6, <2>7, <2>8, <2>9, <2>10, <2>11
    DEF Step
<1>3. ASSUME NEW n \in Node, Send(n) PROVE DeviceInv'
  <2>1. PICK u \in {given'} \cup Range(sent[n]), d \in Gap :
          /\ sent' = [sent EXCEPT ![n] = Append(@, u)]
          /\ IF machineState[n] = "RUN"
               THEN Transmit(n, Enqueue(m_queue[n], u), Later(calendar, d))
             ELSE m_queue' = [m_queue EXCEPT ![n] = Enqueue(m_queue[n], u)] /\ UNCHANGED machineState
    BY <1>3 DEF Send
  <2> DEFINE q == Enqueue(m_queue[n], u)
  <2>2. given' \in 0 .. MAX_SEND /\ u \in Uid
    <3>1. MAX_SEND \in Nat
      BY LinkAssumption
    <3>2. given' \in 0 .. MAX_SEND /\ given' \in Uid
      BY <1>3, <3>1 DEF Send, DeviceInv, Uid
    <3>3. Range(sent[n]) \subseteq Uid
      BY SentPackets DEF DeviceInv
    <3> QED
      BY <2>1, <3>2, <3>3
  <2>3. q \in Seq(Uid) /\ sent' \in [Node -> Seq(Uid)]
    BY <2>1, <2>2, AppendProperties DEF Enqueue, DeviceInv
  <2>4. CASE machineState[n] = "RUN"
    <3>1. PICK cal : Transmit(n, q, cal)
      BY <2>1, <2>4
    <3> HIDE DEF q
    <3> QED
      BY <2>2, <2>3, <3>1, TransmitInv
  <2>5. CASE machineState[n] # "RUN"
    <3>1. m_queue' = [m_queue EXCEPT ![n] = q] /\ UNCHANGED machineState
      BY <2>1, <2>5
    <3> HIDE DEF q
    <3> QED
      BY <2>2, <2>3, <2>5, <3>1 DEF DeviceInv, NothingWaits
  <2> QED
    BY <2>4, <2>5
<1>4. ASSUME NEW n \in Node, Shutdown(n) PROVE DeviceInv'
  BY <1>4, EnterInv DEF Shutdown, calls
<1> QED
  BY <1>1, <1>2, <1>3, <1>4 DEF Next

\* Whenever a device is in RUN its queue is empty: Send transmits the packet it
\* was called with and not an older one (spw-device.cc:547-564), and no packet
\* stays in a device that could transmit it.
THEOREM NoPacketWaits == Spec => []NothingWaits
<1>1. Init => DeviceInv
  <2> SUFFICES ASSUME Init PROVE DeviceInv
    OBVIOUS
  <2>1. MAX_SEND \in Nat
    BY LinkAssumption
  <2>2. <<>> \in Seq(Uid)
    OBVIOUS
  <2> QED
    BY <2>1, <2>2 DEF Init, DeviceInv, NothingWaits, MachineState
<1>2. DeviceInv /\ [Next]_vars => DeviceInv'
  BY StepDevice
<1>3. DeviceInv => NothingWaits
  BY DEF DeviceInv
<1> QED
  BY <1>1, <1>2, <1>3, PTL DEF Spec

-----------------------------------------------------------------------------
(***************************************************************************)
(* The calendar: what inserting an event and cancelling some does to it.   *)
(***************************************************************************)

Event == [do : Handler, dev : Node, uid : Uid \cup {NoUid}, in : Nat,
          handle : Handle \cup {"m_events", "none"}]

\* What events that carry a packet do.
Carrying == {"TransmissionComplete", "HandlingArrivedComplete", "Receive"}

InRunOrder(c) == \A i, j \in 1 .. Len(c) : i < j => c[i].in <= c[j].in

Calendar(c) ==
  /\ c \in Seq(Event)
  /\ InRunOrder(c)
  /\ \A i \in 1 .. Len(c) : c[i].do \in Carrying => c[i].uid \in Uid

\* Counting a set of numbers that has no gaps gives its last one.
LEMMA UpTo ==
  ASSUME NEW N \in Nat, NEW S \in SUBSET (1 .. N), \A i \in S : \A j \in 1 .. i : j \in S
  PROVE  Cardinality(S) \in 0 .. N /\ S = 1 .. Cardinality(S)
<1>1. CASE S = 1 .. N
  <2>1. Cardinality(1 .. N) = N
    BY FS_Interval
  <2> QED
    BY <1>1, <2>1
<1>2. CASE S # 1 .. N
  <2> DEFINE T == (1 .. N) \ S
  <2>0. T # {}
    BY <1>2
  <2>1. T \subseteq Nat
    OBVIOUS
  <2>2. PICK x \in T : \A y \in T : x <= y
    BY <2>0, <2>1, Smallest
  <2>3. x \in 1 .. N /\ x - 1 \in 0 .. N
    OBVIOUS
  <2>4. S = 1 .. x - 1
    <3>1. ASSUME NEW i \in S PROVE i \in 1 .. x - 1
      <4>1. i \in 1 .. N /\ (x <= i => x \in 1 .. i)
        BY <2>3
      <4> QED
        BY <2>3, <4>1
    <3>2. ASSUME NEW i \in 1 .. x - 1 PROVE i \in S
      <4>1. i \in 1 .. N /\ ~(x <= i)
        BY <2>3
      <4> QED
        BY <2>2, <4>1
    <3> QED
      BY <3>1, <3>2
  <2>5. Cardinality(1 .. x - 1) = x - 1
    BY <2>3, FS_Interval
  <2> QED
    BY <2>3, <2>4, <2>5
<1> QED
  BY <1>1, <1>2

\* The members of S up to i.
LowerPart(S, i) == {j \in S : j <= i}

LEMMA LowerPartGrows ==
  ASSUME NEW N \in Nat, NEW S \in SUBSET (1 .. N)
  PROVE  /\ IsFiniteSet(S)
         /\ \A i \in 0 .. N : IsFiniteSet(LowerPart(S, i))
                              /\ Cardinality(LowerPart(S, i)) \in Nat
         /\ \A i \in 1 .. N : Cardinality(LowerPart(S, i)) =
              Cardinality(LowerPart(S, i - 1)) + (IF i \in S THEN 1 ELSE 0)
         /\ Cardinality(LowerPart(S, 0)) = 0
         /\ LowerPart(S, N) = S
         /\ \A i \in S, j \in S : i < j =>
              Cardinality(LowerPart(S, i)) < Cardinality(LowerPart(S, j))
<1>0. IsFiniteSet(1 .. N)
  BY FS_Interval
<1>1. IsFiniteSet(S)
  BY <1>0, FS_Subset
<1>2. ASSUME NEW i \in 0 .. N
      PROVE  IsFiniteSet(LowerPart(S, i)) /\ Cardinality(LowerPart(S, i)) \in Nat
  BY <1>1, FS_Subset, FS_CardinalityType DEF LowerPart
<1>3. ASSUME NEW i \in 1 .. N
      PROVE  Cardinality(LowerPart(S, i)) =
               Cardinality(LowerPart(S, i - 1)) + (IF i \in S THEN 1 ELSE 0)
  <2>1. IsFiniteSet(LowerPart(S, i - 1)) /\ Cardinality(LowerPart(S, i - 1)) \in Nat
    BY <1>2
  <2>2. CASE i \in S
    <3>0. \A j \in S : j <= i <=> j <= i - 1 \/ j = i
      OBVIOUS
    <3>1. LowerPart(S, i) = LowerPart(S, i - 1) \cup {i}
      BY <2>2, <3>0 DEF LowerPart
    <3>2. i \notin LowerPart(S, i - 1)
      BY DEF LowerPart
    <3> QED
      BY <2>1, <2>2, <3>1, <3>2, FS_AddElement
  <2>3. CASE i \notin S
    <3>0. \A j \in S : j <= i <=> j <= i - 1
      BY <2>3
    <3>1. LowerPart(S, i) = LowerPart(S, i - 1)
      BY <3>0 DEF LowerPart
    <3> QED
      BY <2>1, <2>3, <3>1
  <2> QED
    BY <2>2, <2>3
<1>4. Cardinality(LowerPart(S, 0)) = 0
  <2>0. \A j \in S : ~(j <= 0)
    OBVIOUS
  <2>1. LowerPart(S, 0) = {}
    BY <2>0 DEF LowerPart
  <2> QED
    BY <2>1, FS_EmptySet
<1>5. LowerPart(S, N) = S
  <2>1. \A j \in S : j <= N
    OBVIOUS
  <2> QED
    BY <2>1 DEF LowerPart
<1>6. ASSUME NEW i \in S, NEW j \in S, i < j
      PROVE  Cardinality(LowerPart(S, i)) < Cardinality(LowerPart(S, j))
  <2>1. i \in 0 .. N /\ j \in 1 .. N /\ j - 1 \in 0 .. N
    BY <1>6
  <2>2. LowerPart(S, i) \in SUBSET LowerPart(S, j - 1)
    <3>1. \A a \in S : a <= i => a <= j - 1
      BY <1>6
    <3> QED
      BY <3>1 DEF LowerPart
  <2>3. /\ Cardinality(LowerPart(S, i)) <= Cardinality(LowerPart(S, j - 1))
        /\ Cardinality(LowerPart(S, i)) \in Nat /\ Cardinality(LowerPart(S, j - 1)) \in Nat
    BY <1>2, <2>1, <2>2, FS_Subset
  <2>4. Cardinality(LowerPart(S, j)) = Cardinality(LowerPart(S, j - 1)) + 1
    BY <1>3, <1>6, <2>1
  <2> QED
    BY <2>3, <2>4
<1> QED
  BY <1>1, <1>2, <1>3, <1>4, <1>5, <1>6

\* There is a k-th member for every k up to the number of members.
LEMMA NthExists ==
  ASSUME NEW N \in Nat, NEW S \in SUBSET (1 .. N), NEW k \in 1 .. Cardinality(S)
  PROVE  Nth(S, k) \in S /\ Cardinality(LowerPart(S, Nth(S, k))) = k
<1> DEFINE size(i) == Cardinality(LowerPart(S, i))
           T == {i \in 1 .. N : k <= size(i)}
<1>1. /\ \A i \in 0 .. N : size(i) \in Nat
      /\ \A i \in 1 .. N : size(i) = size(i - 1) + (IF i \in S THEN 1 ELSE 0)
      /\ size(0) = 0 /\ size(N) = Cardinality(S)
  BY LowerPartGrows
<1> HIDE DEF size
<1>2. N \in T
  BY <1>1
<1>3. PICK x \in T : \A y \in T : x <= y
  <2>1. T \subseteq Nat
    OBVIOUS
  <2> QED
    BY <1>2, <2>1, Smallest
<1>4. x \in 1 .. N /\ x - 1 \in 0 .. N /\ k <= size(x) /\ size(x - 1) < k
  <2>1. x - 1 \notin T
    BY <1>3
  <2>2. x \in 1 .. N /\ x - 1 \in 0 .. N /\ k <= size(x)
    OBVIOUS
  <2>3. x - 1 = 0 => size(x - 1) < k
    BY <1>1
  <2> QED
    BY <1>1, <2>1, <2>2, <2>3
<1>5. x \in S /\ size(x) = k
  BY <1>1, <1>4
<1>6. \E i \in S : Cardinality({j \in S : j <= i}) = k
  BY <1>5 DEF size, LowerPart
<1> QED
  BY <1>6 DEF Nth, LowerPart

\* r has the events of c at the places f names, in their order.
Selects(c, r, f) ==
  /\ f \in [1 .. Len(r) -> 1 .. Len(c)]
  /\ \A i \in 1 .. Len(r) : r[i] = c[f[i]]
  /\ \A i, j \in 1 .. Len(r) : i < j => f[i] < f[j]

Refers(e, n, H) == e.dev = n /\ e.handle \in H

\* Cancelling takes the events referred to and no other, and keeps the order.
LEMMA Cancelled ==
  ASSUME NEW S, NEW c \in Seq(S), NEW n, NEW H
  PROVE  /\ Cancel(c, n, H) \in Seq(S)
         /\ \E f : /\ Selects(c, Cancel(c, n, H), f)
                   /\ \A i \in 1 .. Len(Cancel(c, n, H)) : ~Refers(c[f[i]], n, H)
                   /\ \A i \in 1 .. Len(c) : ~Refers(c[i], n, H) =>
                        \E k \in 1 .. Len(Cancel(c, n, H)) : f[k] = i
<1> DEFINE kept == {i \in DOMAIN c : ~(c[i].dev = n /\ c[i].handle \in H)}
           r == Cancel(c, n, H)
           f == [k \in 1 .. Cardinality(kept) |-> Nth(kept, k)]
<1>1. DOMAIN c = 1 .. Len(c) /\ Len(c) \in Nat /\ c \in [1 .. Len(c) -> S]
  BY LenProperties
<1>2. kept \in SUBSET (1 .. Len(c)) /\ kept = {i \in 1 .. Len(c) : ~Refers(c[i], n, H)}
  BY <1>1 DEF Refers
<1>3. r = [k \in 1 .. Cardinality(kept) |-> c[Nth(kept, k)]]
  BY DEF Cancel
<1> HIDE DEF kept, r
<1>4. IsFiniteSet(kept) /\ Cardinality(kept) \in Nat
  BY <1>1, <1>2, LowerPartGrows, FS_CardinalityType
<1>12. \A a, b \in kept : a < b =>
         Cardinality(LowerPart(kept, a)) < Cardinality(LowerPart(kept, b))
  <2>1. kept \in SUBSET (1 .. Len(c)) /\ Len(c) \in Nat
    BY <1>1, <1>2
  <2>2. \A a \in kept, b \in kept : a < b =>
          Cardinality(LowerPart(kept, a)) < Cardinality(LowerPart(kept, b))
    BY <2>1, LowerPartGrows
  <2> QED
    BY <2>2
<1>5. \A k \in 1 .. Cardinality(kept) :
        Nth(kept, k) \in kept /\ Cardinality(LowerPart(kept, Nth(kept, k))) = k
  BY <1>1, <1>2, NthExists
<1>6. r \in [1 .. Cardinality(kept) -> S]
  BY <1>1, <1>2, <1>3, <1>5
<1>7. r \in Seq(S) /\ Len(r) = Cardinality(kept)
  BY <1>4, <1>6, SeqDef
<1>8. ASSUME NEW i \in 1 .. Len(r), NEW j \in 1 .. Len(r), i < j
      PROVE  f[i] < f[j]
  <2>1. f[i] \in kept /\ f[j] \in kept
    BY <1>5, <1>7
  <2>2. f[i] \in Nat /\ f[j] \in Nat
    BY <1>1, <1>2, <2>1
  <2>3. f[j] < f[i] =>
          Cardinality(LowerPart(kept, f[j])) < Cardinality(LowerPart(kept, f[i]))
    <3>1. \A a, b \in kept : a < b =>
            Cardinality(LowerPart(kept, a)) < Cardinality(LowerPart(kept, b))
      BY <1>12
    <3> QED
      BY <2>1, <3>1
  <2>4. Cardinality(LowerPart(kept, f[i])) = i /\ Cardinality(LowerPart(kept, f[j])) = j
    BY <1>5, <1>7
  <2> HIDE DEF f
  <2>5. i \in Nat /\ j \in Nat
    OBVIOUS
  <2> QED
    BY <1>8, <2>2, <2>3, <2>4, <2>5
<1>9. Selects(c, r, f)
  <2>1. f \in [1 .. Len(r) -> 1 .. Len(c)]
    BY <1>2, <1>5, <1>7
  <2>2. \A i \in 1 .. Len(r) : r[i] = c[f[i]]
    BY <1>3, <1>7
  <2> QED
    BY <1>8, <2>1, <2>2 DEF Selects
<1>10. \A i \in 1 .. Len(r) : ~Refers(c[f[i]], n, H)
  BY <1>2, <1>5, <1>7
<1>11. ASSUME NEW i \in 1 .. Len(c), ~Refers(c[i], n, H)
       PROVE  \E k \in 1 .. Len(r) : f[k] = i
  <2> DEFINE k == Cardinality(LowerPart(kept, i))
  <2>1. i \in kept
    BY <1>2, <1>11
  <2>2. LowerPart(kept, i) \in SUBSET kept /\ i \in LowerPart(kept, i)
    BY <1>1, <1>2, <2>1 DEF LowerPart
  <2>3. k \in Nat /\ k <= Cardinality(kept) /\ k # 0
    BY <1>4, <2>2, FS_Subset, FS_CardinalityType, FS_EmptySet
  <2>4. k \in 1 .. Cardinality(kept)
    BY <1>4, <2>3
  <2>5. Nth(kept, k) \in kept /\ Cardinality(LowerPart(kept, Nth(kept, k))) = k
    BY <1>5, <2>4
  <2>6. Nth(kept, k) = i
    <3>1. \A a, b \in kept : a < b =>
            Cardinality(LowerPart(kept, a)) < Cardinality(LowerPart(kept, b))
      BY <1>12
    <3>2. Nth(kept, k) \in Nat /\ i \in Nat
      BY <1>1, <1>2, <2>1, <2>5
    <3>3. ~(k < k)
      BY <2>3
    <3>4. ~(Nth(kept, k) < i) /\ ~(i < Nth(kept, k))
      BY <2>1, <2>5, <3>1, <3>3
    <3> QED
      BY <3>2, <3>4
  <2> QED
    BY <1>7, <2>4, <2>6
<1> QED
  BY <1>7, <1>9, <1>10, <1>11 DEF r

\* The event is put behind those that run no later, and nothing else changes.
LEMMA Inserted ==
  ASSUME NEW c \in Seq(Event), InRunOrder(c), NEW e \in Event
  PROVE  /\ Insert(c, e) \in Seq(Event)
         /\ Len(Insert(c, e)) = Len(c) + 1
         /\ \E p \in 1 .. Len(c) + 1 :
              /\ \A i \in 1 .. Len(c) + 1 :
                   Insert(c, e)[i] = IF i < p THEN c[i] ELSE IF i = p THEN e ELSE c[i - 1]
              /\ \A i \in 1 .. Len(c) : c[i].in <= e.in <=> i < p
<1> DEFINE S == {i \in DOMAIN c : c[i].in <= e.in}
           p == Cardinality(S) + 1
           a == SubSeq(c, 1, p - 1)
           b == SubSeq(c, p, Len(c))
           r == Insert(c, e)
<1>1. DOMAIN c = 1 .. Len(c) /\ Len(c) \in Nat /\ \A i \in 1 .. Len(c) : c[i] \in Event
  BY LenProperties, ElementOfSeq
<1>2. \A i \in 1 .. Len(c) : c[i].in \in Nat
  BY <1>1 DEF Event
<1>3. e.in \in Nat
  BY DEF Event
<1>4. S \in SUBSET (1 .. Len(c))
  BY <1>1
<1>5. \A i \in S : \A j \in 1 .. i : j \in S
  <2> SUFFICES ASSUME NEW i \in S, NEW j \in 1 .. i PROVE j \in S
    OBVIOUS
  <2>1. i \in 1 .. Len(c) /\ j \in 1 .. Len(c) /\ (j < i \/ j = i)
    BY <1>1, <1>4
  <2>2. c[i].in <= e.in
    OBVIOUS
  <2>3. c[j].in <= c[i].in
    BY <1>2, <2>1 DEF InRunOrder
  <2> QED
    BY <1>1, <1>2, <1>3, <2>1, <2>2, <2>3
<1>6. Cardinality(S) \in 0 .. Len(c) /\ S = 1 .. Cardinality(S)
  BY <1>1, <1>4, <1>5, UpTo
<1>7. \A i \in 1 .. Len(c) : c[i].in <= e.in <=> i \in S
  BY <1>1
<1>8. r = (a \o <<e>>) \o b
  BY DEF Insert, InsertAt
<1> HIDE DEF S, r
<1>9. /\ p \in 1 .. Len(c) + 1 /\ p - 1 \in Int /\ p \in Int
      /\ \A i \in 1 .. Len(c) : c[i].in <= e.in <=> i < p
  BY <1>1, <1>6, <1>7
<1> HIDE DEF p
<1>10. /\ a \in Seq(Event) /\ Len(a) = p - 1
       /\ \A i \in 1 .. p - 1 : a[i] = c[i]
  <2>1. \A i \in 1 .. p - 1 : c[i] \in Event
    BY <1>1, <1>9
  <2>2. /\ a \in Seq(Event) /\ Len(a) = IF 1 <= p - 1 THEN p - 1 - 1 + 1 ELSE 0
        /\ \A i \in 1 .. p - 1 - 1 + 1 : a[i] = c[1 + i - 1]
    BY <1>9, <2>1, SubSeqProperties
  <2> QED
    BY <1>9, <2>2
<1>11. /\ b \in Seq(Event) /\ Len(b) = Len(c) - p + 1
       /\ \A i \in 1 .. Len(c) - p + 1 : b[i] = c[p + i - 1]
  <2>1. \A i \in p .. Len(c) : c[i] \in Event
    BY <1>1, <1>9
  <2>2. /\ b \in Seq(Event) /\ Len(b) = IF p <= Len(c) THEN Len(c) - p + 1 ELSE 0
        /\ \A i \in 1 .. Len(c) - p + 1 : b[i] = c[p + i - 1]
    BY <1>1, <1>9, <2>1, SubSeqProperties
  <2> QED
    BY <1>1, <1>9, <2>2
<1> HIDE DEF a, b
<1>12. /\ a \o <<e>> \in Seq(Event) /\ Len(a \o <<e>>) = p
       /\ \A i \in 1 .. p : (a \o <<e>>)[i] = IF i < p THEN c[i] ELSE e
  <2>1. <<e>> \in Seq(Event) /\ Len(<<e>>) = 1 /\ <<e>>[1] = e
    OBVIOUS
  <2>2. /\ a \o <<e>> \in Seq(Event) /\ Len(a \o <<e>>) = p - 1 + 1
        /\ \A i \in 1 .. p - 1 + 1 : (a \o <<e>>)[i] =
             IF i <= p - 1 THEN a[i] ELSE <<e>>[i - (p - 1)]
    BY <1>10, <2>1, ConcatProperties
  <2> QED
    BY <1>9, <1>10, <2>1, <2>2
<1> DEFINE d == a \o <<e>>
<1> HIDE DEF d
<1>13. /\ r \in Seq(Event) /\ Len(r) = p + (Len(c) - p + 1)
       /\ \A i \in 1 .. p + (Len(c) - p + 1) : r[i] = IF i <= p THEN d[i] ELSE b[i - p]
  <2>1. r = d \o b /\ d \in Seq(Event) /\ Len(d) = p
    BY <1>8, <1>12 DEF d
  <2> QED
    BY <1>11, <2>1, ConcatProperties, SMTT(20)
<1>14. \A i \in 1 .. Len(c) + 1 : r[i] = IF i < p THEN c[i] ELSE IF i = p THEN e ELSE c[i - 1]
  <2> SUFFICES ASSUME NEW i \in 1 .. Len(c) + 1
               PROVE  r[i] = IF i < p THEN c[i] ELSE IF i = p THEN e ELSE c[i - 1]
    OBVIOUS
  <2>1. r[i] = IF i <= p THEN d[i] ELSE b[i - p]
    BY <1>1, <1>9, <1>13
  <2>2. CASE i <= p
    <3>1. i \in 1 .. p
      BY <1>9, <2>2
    <3> QED
      BY <1>9, <1>12, <2>1, <2>2, <3>1 DEF d
  <2>3. CASE ~(i <= p)
    <3>1. i - p \in 1 .. Len(c) - p + 1 /\ p + (i - p) - 1 = i - 1
      BY <1>1, <1>9, <2>3
    <3>2. b[i - p] = c[i - 1]
      BY <1>11, <3>1
    <3> QED
      BY <1>9, <2>1, <2>3, <3>2
  <2> QED
    BY <2>2, <2>3
<1>15. Len(r) = Len(c) + 1
  BY <1>1, <1>9, <1>13
<1> QED
  BY <1>9, <1>13, <1>14, <1>15 DEF r

\* A calendar stays one: an event is inserted where its time is.
LEMMA InsertCalendar ==
  ASSUME NEW c, Calendar(c), NEW e \in Event, e.do \in Carrying => e.uid \in Uid
  PROVE  Calendar(Insert(c, e))
<1> DEFINE r == Insert(c, e)
<1>1. c \in Seq(Event) /\ InRunOrder(c) /\ Len(c) \in Nat
  BY LenProperties DEF Calendar
<1>2. r \in Seq(Event) /\ Len(r) = Len(c) + 1
  BY <1>1, Inserted
<1>3. PICK p \in 1 .. Len(c) + 1 :
        /\ \A i \in 1 .. Len(c) + 1 :
             r[i] = IF i < p THEN c[i] ELSE IF i = p THEN e ELSE c[i - 1]
        /\ \A i \in 1 .. Len(c) : c[i].in <= e.in <=> i < p
  BY <1>1, Inserted
<1> HIDE DEF r
<1>4. (\A i \in 1 .. Len(c) : c[i].in \in Nat) /\ e.in \in Nat
  <2>1. \A i \in 1 .. Len(c) : c[i] \in Event
    BY <1>1, ElementOfSeq
  <2> QED
    BY <2>1 DEF Event
<1>5. ASSUME NEW i \in 1 .. Len(r), NEW j \in 1 .. Len(r), i < j
      PROVE  r[i].in <= r[j].in
  <2>1. i \in 1 .. Len(c) + 1 /\ j \in 1 .. Len(c) + 1
    BY <1>2
  <2>2. CASE j < p
    <3>1. r[i] = c[i] /\ r[j] = c[j] /\ i \in 1 .. Len(c) /\ j \in 1 .. Len(c)
      BY <1>1, <1>3, <1>5, <2>1, <2>2
    <3> QED
      BY <1>1, <1>5, <3>1 DEF InRunOrder
  <2>3. CASE j = p
    <3>1. r[i] = c[i] /\ r[j] = e /\ i \in 1 .. Len(c) /\ i < p
      BY <1>1, <1>3, <1>5, <2>1, <2>3
    <3> QED
      BY <1>3, <3>1
  <2>4. CASE p < j /\ i = p
    <3>1. r[i] = e /\ r[j] = c[j - 1] /\ j - 1 \in 1 .. Len(c) /\ ~(j - 1 < p)
      BY <1>1, <1>3, <2>1, <2>4
    <3>2. ~(c[j - 1].in <= e.in)
      BY <1>3, <3>1
    <3> QED
      BY <1>4, <3>1, <3>2
  <2>5. CASE p < j /\ i < p
    <3>1. r[i] = c[i] /\ r[j] = c[j - 1] /\ j - 1 \in 1 .. Len(c) /\ i \in 1 .. Len(c) /\ i <= j - 1
      BY <1>1, <1>3, <2>1, <2>5
    <3>2. i = j - 1 \/ c[i].in <= c[j - 1].in
      BY <1>1, <3>1 DEF InRunOrder
    <3> QED
      BY <1>4, <3>1, <3>2
  <2>6. CASE p < j /\ p < i
    <3>1. /\ r[i] = c[i - 1] /\ r[j] = c[j - 1]
          /\ j - 1 \in 1 .. Len(c) /\ i - 1 \in 1 .. Len(c) /\ i - 1 < j - 1
      BY <1>1, <1>3, <1>5, <2>1, <2>6
    <3> QED
      BY <1>1, <3>1 DEF InRunOrder
  <2> QED
    BY <1>3, <2>1, <2>2, <2>3, <2>4, <2>5, <2>6
<1>6. ASSUME NEW i \in 1 .. Len(r), r[i].do \in Carrying
      PROVE  r[i].uid \in Uid
  <2>1. i \in 1 .. Len(c) + 1
    BY <1>2
  <2>2. r[i] = e \/ (i \in 1 .. Len(c) /\ r[i] = c[i])
                 \/ (i - 1 \in 1 .. Len(c) /\ r[i] = c[i - 1])
    BY <1>1, <1>3, <2>1
  <2> QED
    BY <1>6, <2>2 DEF Calendar
<1> QED
  BY <1>2, <1>5, <1>6 DEF Calendar, InRunOrder, r

SameEvent(x, y) == x.do = y.do /\ x.dev = y.dev /\ x.uid = y.uid /\ x.handle = y.handle

\* Every event of r is one of c, at the place f names; times may have moved.
Embeds(r, c, f) ==
  /\ f \in [1 .. Len(r) -> 1 .. Len(c)]
  /\ \A i, j \in 1 .. Len(r) : i < j => f[i] < f[j]
  /\ \A i \in 1 .. Len(r) : SameEvent(r[i], c[f[i]])

LEMMA CalendarTypes ==
  ASSUME NEW c, Calendar(c)
  PROVE  /\ c \in Seq(Event) /\ Len(c) \in Nat /\ DOMAIN c = 1 .. Len(c)
         /\ \A i \in 1 .. Len(c) : c[i] \in Event /\ c[i].in \in Nat
<1>1. c \in Seq(Event)
  BY DEF Calendar
<1>2. \A i \in 1 .. Len(c) : c[i] \in Event
  BY <1>1, ElementOfSeq
<1> QED
  BY <1>1, <1>2, LenProperties DEF Event

LEMMA CancelCalendar ==
  ASSUME NEW c, Calendar(c), NEW n, NEW H
  PROVE  /\ Calendar(Cancel(c, n, H))
         /\ \E f : /\ Embeds(Cancel(c, n, H), c, f)
                   /\ \A i \in 1 .. Len(Cancel(c, n, H)) : ~Refers(c[f[i]], n, H)
                   /\ \A i \in 1 .. Len(c) : ~Refers(c[i], n, H) =>
                        \E k \in 1 .. Len(Cancel(c, n, H)) : f[k] = i
<1> DEFINE r == Cancel(c, n, H)
<1>1. c \in Seq(Event)
  BY DEF Calendar
<1>2. r \in Seq(Event)
  BY <1>1, Cancelled
<1>3. PICK f : /\ Selects(c, r, f)
               /\ \A i \in 1 .. Len(r) : ~Refers(c[f[i]], n, H)
               /\ \A i \in 1 .. Len(c) : ~Refers(c[i], n, H) =>
                    \E k \in 1 .. Len(r) : f[k] = i
  BY <1>1, Cancelled
<1> HIDE DEF r
<1>4. /\ f \in [1 .. Len(r) -> 1 .. Len(c)]
      /\ \A i \in 1 .. Len(r) : r[i] = c[f[i]]
      /\ \A i, j \in 1 .. Len(r) : i < j => f[i] < f[j]
  BY <1>3 DEF Selects
<1>5. InRunOrder(r)
  <2> SUFFICES ASSUME NEW i \in 1 .. Len(r), NEW j \in 1 .. Len(r), i < j
               PROVE  r[i].in <= r[j].in
    BY DEF InRunOrder
  <2>1. f[i] \in 1 .. Len(c) /\ f[j] \in 1 .. Len(c) /\ f[i] < f[j]
    BY <1>4
  <2> QED
    BY <1>4, <2>1 DEF Calendar, InRunOrder
<1>6. \A i \in 1 .. Len(r) : r[i].do \in Carrying => r[i].uid \in Uid
  BY <1>4 DEF Calendar
<1>7. Embeds(r, c, f)
  BY <1>4 DEF Embeds, SameEvent
<1> QED
  BY <1>2, <1>3, <1>5, <1>6, <1>7 DEF Calendar, r

LEMMA LaterCalendar ==
  ASSUME NEW c, Calendar(c), NEW d \in Nat, \A i \in 1 .. Len(c) : d <= c[i].in
  PROVE  /\ Calendar(Later(c, d))
         /\ Len(Later(c, d)) = Len(c)
         /\ \A i \in 1 .. Len(c) : SameEvent(Later(c, d)[i], c[i])
<1> DEFINE r == Later(c, d)
<1>1. /\ c \in Seq(Event) /\ Len(c) \in Nat /\ DOMAIN c = 1 .. Len(c)
      /\ \A i \in 1 .. Len(c) : c[i] \in Event /\ c[i].in \in Nat
  BY CalendarTypes
<1>2. r = [i \in 1 .. Len(c) |-> [c[i] EXCEPT !.in = @ - d]]
  BY <1>1 DEF Later
<1> HIDE DEF r
<1>3. ASSUME NEW i \in 1 .. Len(c)
      PROVE  r[i] \in Event /\ SameEvent(r[i], c[i]) /\ r[i].in = c[i].in - d
  <2>1. r[i] = [c[i] EXCEPT !.in = c[i].in - d]
    BY <1>2
  <2>2. c[i].in - d \in Nat
    BY <1>1
  <2>3. r[i] \in Event /\ r[i].in = c[i].in - d
    BY <1>1, <2>1, <2>2 DEF Event
  <2>4. SameEvent(r[i], c[i])
    BY <1>1, <2>1 DEF Event, SameEvent
  <2> QED
    BY <2>3, <2>4
<1>4. r \in [1 .. Len(c) -> Event]
  BY <1>2, <1>3
<1>5. r \in Seq(Event) /\ Len(r) = Len(c)
  BY <1>1, <1>4, SeqDef
<1>6. InRunOrder(r)
  <2> SUFFICES ASSUME NEW i \in 1 .. Len(c), NEW j \in 1 .. Len(c), i < j
               PROVE  r[i].in <= r[j].in
    BY <1>5 DEF InRunOrder
  <2>1. c[i].in <= c[j].in
    BY DEF Calendar, InRunOrder
  <2>2. r[i].in = c[i].in - d /\ r[j].in = c[j].in - d
    BY <1>3
  <2> QED
    BY <1>1, <2>1, <2>2
<1>7. \A i \in 1 .. Len(c) : r[i].do \in Carrying => r[i].uid \in Uid
  BY <1>3 DEF Calendar, SameEvent
<1> QED
  BY <1>3, <1>5, <1>6, <1>7 DEF Calendar, r

\* What is left when the first event has started.
LEMMA RestCalendar ==
  ASSUME Calendar(calendar), calendar # <<>>
  PROVE  /\ Len(calendar) \in Nat \ {0} /\ Head(calendar) = calendar[1]
         /\ Calendar(Rest) /\ Len(Rest) = Len(calendar) - 1
         /\ \A i \in 1 .. Len(Rest) : i + 1 \in 1 .. Len(calendar)
                                      /\ SameEvent(Rest[i], calendar[i + 1])
<1> DEFINE c == calendar
           t == Tail(c)
<1>1. /\ c \in Seq(Event) /\ Len(c) \in Nat \ {0}
      /\ \A i \in 1 .. Len(c) : c[i] \in Event /\ c[i].in \in Nat
  BY CalendarTypes, EmptySeq
<1>2. /\ Head(c) = c[1] /\ t \in Seq(Event) /\ Len(t) = Len(c) - 1
      /\ \A i \in 1 .. Len(t) : t[i] = c[i + 1]
  BY <1>1, HeadTailProperties
<1> HIDE DEF c, t
<1>3. \A i \in 1 .. Len(t) : i \in 1 .. Len(c) /\ i + 1 \in 1 .. Len(c)
  BY <1>1, <1>2
<1>4. Calendar(t)
  <2>1. InRunOrder(t)
    <3> SUFFICES ASSUME NEW i \in 1 .. Len(t), NEW j \in 1 .. Len(t), i < j
                 PROVE  t[i].in <= t[j].in
      BY DEF InRunOrder
    <3>1. i + 1 < j + 1 /\ t[i] = c[i + 1] /\ t[j] = c[j + 1]
      BY <1>2
    <3> QED
      BY <1>3, <3>1 DEF Calendar, InRunOrder, c
  <2>2. \A i \in 1 .. Len(t) : t[i].do \in Carrying => t[i].uid \in Uid
    BY <1>2, <1>3 DEF Calendar, c
  <2> QED
    BY <1>2, <2>1, <2>2 DEF Calendar
<1>5. Head(c).in \in Nat /\ \A i \in 1 .. Len(t) : Head(c).in <= t[i].in
  <2>1. 1 \in 1 .. Len(c)
    BY <1>1
  <2>2. \A i \in 1 .. Len(t) : 1 < i + 1
    OBVIOUS
  <2> QED
    BY <1>1, <1>2, <1>3, <2>1, <2>2 DEF Calendar, InRunOrder, c
<1>6. /\ Calendar(Later(t, Head(c).in)) /\ Len(Later(t, Head(c).in)) = Len(t)
      /\ \A i \in 1 .. Len(t) : SameEvent(Later(t, Head(c).in)[i], t[i])
  BY <1>4, <1>5, LaterCalendar
<1>7. Rest = Later(t, Head(c).in)
  BY DEF Rest, c, t
<1> QED
  BY <1>1, <1>2, <1>3, <1>6, <1>7 DEF c

LEMMA ForgetCalendar ==
  ASSUME NEW c, Calendar(c), NEW n, NEW h, NEW u
  PROVE  /\ Calendar(Forget(c, n, h, u))
         /\ Len(Forget(c, n, h, u)) = Len(c)
         /\ \A i \in 1 .. Len(c) :
              IF c[i].dev = n /\ c[i].handle = h /\ c[i].uid = u
                THEN /\ Forget(c, n, h, u)[i].do = c[i].do
                     /\ Forget(c, n, h, u)[i].dev = c[i].dev
                     /\ Forget(c, n, h, u)[i].uid = c[i].uid
              ELSE Forget(c, n, h, u)[i] = c[i]
<1> DEFINE r == Forget(c, n, h, u)
<1>1. /\ c \in Seq(Event) /\ Len(c) \in Nat /\ DOMAIN c = 1 .. Len(c)
      /\ \A i \in 1 .. Len(c) : c[i] \in Event /\ c[i].in \in Nat
  BY CalendarTypes
<1>2. r = [i \in 1 .. Len(c) |->
             IF c[i].dev = n /\ c[i].handle = h /\ c[i].uid = u
               THEN [c[i] EXCEPT !.handle = "none"] ELSE c[i]]
  BY <1>1 DEF Forget
<1> HIDE DEF r
<1>3. ASSUME NEW i \in 1 .. Len(c)
      PROVE  /\ r[i] \in Event /\ r[i].in = c[i].in /\ r[i].do = c[i].do
             /\ r[i].dev = c[i].dev /\ r[i].uid = c[i].uid
             /\ \/ c[i].dev = n /\ c[i].handle = h /\ c[i].uid = u
                \/ r[i] = c[i]
  BY <1>1, <1>2 DEF Event
<1>4. r \in [1 .. Len(c) -> Event]
  BY <1>2, <1>3
<1>5. r \in Seq(Event) /\ Len(r) = Len(c)
  BY <1>1, <1>4, SeqDef
<1>6. InRunOrder(r)
  BY <1>3, <1>5 DEF Calendar, InRunOrder
<1>7. \A i \in 1 .. Len(c) : r[i].do \in Carrying => r[i].uid \in Uid
  BY <1>3 DEF Calendar
<1> QED
  BY <1>3, <1>5, <1>6, <1>7 DEF Calendar, r

-----------------------------------------------------------------------------
(***************************************************************************)
(* Types, and the calendar in the order its events run.                    *)
(***************************************************************************)

LEMMA PeerType ==
  ASSUME NEW n \in Node
  PROVE  Peer(n) \in Node /\ Peer(n) # n /\ \A m \in Node : m = n \/ m = Peer(n)
<1>1. PICK a, b \in Node : a # b /\ Node = {a, b}
  BY LinkAssumption
<1>2. \E m \in Node : m # n
  BY <1>1
<1>3. Peer(n) \in Node /\ Peer(n) # n
  BY <1>2 DEF Peer
<1> QED
  BY <1>1, <1>3

LEMMA Delays ==
  /\ SPW_DELAY \in Nat /\ SPW_HALF_DELAY \in Nat /\ EXCHANGE_OF_SILENCE \in Nat
  /\ APPROACH_TIME \in Nat /\ DELAY \in Nat /\ PERIOD \in Nat /\ LATENCY \in Nat
  /\ HANDLING \in Nat /\ QUEUE_SZ \in Nat \ {0} /\ MAX_SEND \in Nat /\ MAX_ERRORS \in Nat
BY LinkAssumption

LEMMA ScheduleCalendar ==
  ASSUME NEW c, Calendar(c), NEW delay \in Nat, NEW do \in Handler, NEW n \in Node,
         NEW u \in Uid \cup {NoUid}, do \in Carrying => u \in Uid
  PROVE  Calendar(Schedule(c, delay, do, n, u))
<1> DEFINE e == [do |-> do, dev |-> n, uid |-> u, in |-> delay, handle |-> "none"]
<1>1. e \in Event /\ e.do = do /\ e.uid = u
  BY DEF Event
<1> HIDE DEF e
<1>2. Calendar(Insert(c, e))
  BY <1>1, InsertCalendar
<1> QED
  BY <1>2 DEF Schedule, e

LEMMA ScheduleAsCalendar ==
  ASSUME NEW c, Calendar(c), NEW delay \in Nat, NEW do \in Handler, NEW n \in Node,
         NEW u \in Uid \cup {NoUid}, do \in Carrying => u \in Uid,
         NEW h \in Handle \cup {"m_events"}
  PROVE  Calendar(ScheduleAs(h, c, delay, do, n, u))
<1> DEFINE e == [do |-> do, dev |-> n, uid |-> u, in |-> delay, handle |-> h]
<1>1. e \in Event /\ e.do = do /\ e.uid = u
  BY DEF Event
<1>2. Calendar(Forget(c, n, h, u))
  BY ForgetCalendar
<1> HIDE DEF e
<1>3. Calendar(Insert(Forget(c, n, h, u), e))
  BY <1>1, <1>2, InsertCalendar
<1> QED
  BY <1>3 DEF ScheduleAs, e

\* What the parts of the handlers make of a calendar is one.
LEMMA HandlerCalendars ==
  ASSUME NEW c, Calendar(c), NEW n \in Node
  PROVE  /\ \A H : Calendar(Cancel(c, n, H))
         /\ Calendar(ErrorReset(c, n))
         /\ \A delay \in Nat : Calendar(Timeout(c, n, delay))
         /\ Calendar(Started(c, n)) /\ Calendar(Connecting(c, n))
         /\ Calendar(NullInLink(c, n)) /\ Calendar(FCTInLink(c, n))
         /\ Calendar(NotifyError(c, n))
         /\ Calendar(ScheduleAs("sendNull", c, PERIOD, "SendNull", n, NoUid))
         /\ Calendar(ScheduleAs("sendFCT", c, PERIOD, "SendFCT", n, NoUid))
<1> USE Delays
<1>1. Peer(n) \in Node
  BY PeerType
<1>2. /\ {"ErrorReset", "ErrorWait", "SendNull", "ReceiveNull", "SendFCT", "ReceiveFCT",
          "ApproachLinkDisconnection"} \subseteq Handler \ Carrying
      /\ NoUid \in Uid \cup {NoUid}
  BY DEF Handler, Carrying
<1>3. \A m \in Node : \A H : Calendar(Cancel(c, m, H))
  BY CancelCalendar
<1>4. Calendar(ErrorReset(c, n))
  BY <1>2, <1>3, ScheduleCalendar DEF ErrorReset
<1>5. ASSUME NEW delay \in Nat PROVE Calendar(Timeout(c, n, delay))
  <2>1. "stateChangeToErrorReset" \in Handle \cup {"m_events"}
    BY DEF Handle
  <2> QED
    BY <1>2, <1>3, <2>1, ScheduleAsCalendar DEF Timeout
<1>6. Calendar(Started(c, n))
  <2>1. "sendNull" \in Handle \cup {"m_events"} /\ Calendar(Timeout(c, n, SPW_DELAY))
    BY <1>5 DEF Handle
  <2> QED
    BY <1>2, <2>1, ScheduleAsCalendar DEF Started
<1>7. Calendar(Connecting(c, n))
  <2>1. "sendFCT" \in Handle \cup {"m_events"} /\ Calendar(Timeout(c, n, SPW_DELAY))
    BY <1>5 DEF Handle
  <2> QED
    BY <1>2, <2>1, ScheduleAsCalendar DEF Connecting
<1>8. Calendar(NullInLink(c, n)) /\ Calendar(FCTInLink(c, n))
  BY <1>1, <1>2, ScheduleCalendar DEF NullInLink, FCTInLink
<1>9. Calendar(NotifyError(c, n))
  <2>1. Calendar(Cancel(Cancel(c, n, {"m_events"}), Peer(n), {"m_events"}))
    BY <1>1, <1>3, CancelCalendar
  <2> QED
    BY <1>1, <1>2, <2>1, ScheduleCalendar DEF NotifyError
<1>10. /\ Calendar(ScheduleAs("sendNull", c, PERIOD, "SendNull", n, NoUid))
       /\ Calendar(ScheduleAs("sendFCT", c, PERIOD, "SendFCT", n, NoUid))
  <2>1. {"sendNull", "sendFCT"} \subseteq Handle \cup {"m_events"}
    BY DEF Handle
  <2> QED
    BY <1>2, <2>1, ScheduleAsCalendar
<1> QED
  BY <1>3, <1>4, <1>5, <1>6, <1>7, <1>8, <1>9, <1>10

LEMMA TransmitStartCalendar ==
  ASSUME NEW c, Calendar(c), NEW n \in Node, NEW u \in Uid, txTime \in Traffic
  PROVE  Calendar(TransmitStart(c, n, u))
<1>1. txTime[u] \in Nat /\ txTime[u] + DELAY \in Nat
  BY Delays, LinkAssumption
<1>2. /\ {"TransmitComplete", "TransmissionComplete"} \subseteq Handler
      /\ "TransmitComplete" \notin Carrying
      /\ {"transmit_complete_events", "m_events"} \subseteq Handle \cup {"m_events"}
  BY DEF Handler, Handle, Carrying
<1> DEFINE d == ScheduleAs("transmit_complete_events", c, txTime[u], "TransmitComplete", n, u)
<1>3. Calendar(d)
  BY <1>1, <1>2, ScheduleAsCalendar
<1> HIDE DEF d
<1>4. Calendar(OntoWire(d, n, u))
  BY <1>1, <1>2, <1>3, ScheduleAsCalendar DEF OntoWire
<1> QED
  BY <1>4 DEF TransmitStart, d

LinkTypes ==
  /\ DeviceInv
  /\ \A n \in Node : Len(m_queue[n]) <= QUEUE_SZ
  /\ Calendar(calendar)
  /\ errors \in 0 .. MAX_ERRORS /\ offset \in Offset /\ txTime \in Traffic
  /\ received \in [Node -> Seq(Uid)]

\* A new packet, or one that was given before.
LEMMA GivenPacket ==
  ASSUME LinkTypes, NEW n \in Node, Send(n), NEW u \in {given'} \cup Range(sent[n])
  PROVE  u \in Uid
<1>1. given' \in Uid
  BY Delays DEF Send, LinkTypes, DeviceInv, Uid
<1> QED
  BY <1>1, SentPackets DEF LinkTypes, DeviceInv

\* A call from outside finds the calendar with less time left.
LEMMA CallCalendar ==
  ASSUME Calendar(calendar), NEW d \in Gap, CallAt(d)
  PROVE  /\ Calendar(Later(calendar, d))
         /\ Len(Later(calendar, d)) = Len(calendar)
         /\ \A i \in 1 .. Len(calendar) : SameEvent(Later(calendar, d)[i], calendar[i])
<1>1. d \in Nat
  BY LinkAssumption
<1>2. \A i \in 1 .. Len(calendar) : d <= calendar[i].in
  <2> SUFFICES ASSUME NEW i \in 1 .. Len(calendar) PROVE d <= calendar[i].in
    OBVIOUS
  <2>1. /\ calendar \in Seq(Event) /\ Len(calendar) \in Nat
        /\ \A j \in 1 .. Len(calendar) : calendar[j].in \in Nat
    BY CalendarTypes
  <2>2. calendar # <<>>
    BY <2>1, EmptySeq
  <2>3. Head(calendar) = calendar[1] /\ 1 \in 1 .. Len(calendar)
    BY <2>1, <2>2, RestCalendar
  <2>4. d <= calendar[1].in
    BY <2>2, <2>3 DEF CallAt
  <2>5. i = 1 \/ calendar[1].in <= calendar[i].in
    BY <2>1, <2>3 DEF Calendar, InRunOrder
  <2> QED
    BY <1>1, <2>1, <2>3, <2>4, <2>5
<1> QED
  BY <1>1, <1>2, LaterCalendar

\* A device that is ready with the queue q.
LEMMA TransmitTypes ==
  ASSUME NEW n \in Node, NEW q \in Seq(Uid), Len(q) <= QUEUE_SZ, NEW c, Calendar(c),
         \A m \in Node : Len(m_queue[m]) <= QUEUE_SZ, m_queue \in [Node -> Seq(Uid)],
         txTime \in Traffic, Transmit(n, q, c)
  PROVE  Calendar(calendar') /\ \A m \in Node : Len(m_queue'[m]) <= QUEUE_SZ
<1>1. CASE q = <<>>
  BY <1>1, Delays DEF Transmit
<1>2. CASE q # <<>>
  <2>1. Head(q) \in Uid /\ Len(Tail(q)) = Len(q) - 1 /\ Len(q) \in Nat
    BY <1>2, HeadTailProperties, LenProperties
  <2>2. Calendar(TransmitStart(c, n, Head(q)))
    BY <2>1, TransmitStartCalendar
  <2>3. calendar' = TransmitStart(c, n, Head(q)) /\ m_queue' = [m_queue EXCEPT ![n] = Tail(q)]
    BY <1>2 DEF Transmit
  <2> QED
    BY <2>1, <2>2, <2>3, Delays
<1> QED
  BY <1>1, <1>2

LEMMA StepTypes ==
  ASSUME LinkTypes, [Next]_vars
  PROVE  LinkTypes'
<1>1. DeviceInv'
  BY StepDevice DEF LinkTypes
<1>2. ASSUME UNCHANGED vars PROVE LinkTypes'
  BY <1>1, <1>2 DEF vars, LinkTypes
<1>3. ASSUME NEW n \in Node, Step(n) PROVE LinkTypes'
  <2>1. Calendar(Rest) /\ calendar # <<>> /\ Head(calendar) = calendar[1]
        /\ 1 \in 1 .. Len(calendar)
    <3>1. calendar # <<>>
      BY <1>3 DEF Step, ErrorResetSpWState, ErrorWaitSpWState, ReadySpWState, SendNull,
                  ReceiveNull, SendFCT, ReceiveFCT, TransmitComplete, TransmissionComplete,
                  HandlingArrivedComplete, ReceiveIntact, ReceiveCorrupt,
                  ApproachLinkDisconnection, Runs
    <3> QED
      BY <3>1, RestCalendar DEF LinkTypes
  <2>2. \A H : Calendar(Cancel(Rest, n, H))
    BY <2>1, HandlerCalendars
  <2>3. /\ \A m \in Node : Len(m_queue[m]) <= QUEUE_SZ
        /\ m_queue \in [Node -> Seq(Uid)] /\ txTime \in Traffic
    BY DEF LinkTypes, DeviceInv
  <2>4. /\ {"ErrorWait", "Ready", "HandlingArrivedComplete", "Receive"} \subseteq Handler
        /\ {"ErrorWait", "Ready"} \cap Carrying = {}
        /\ NoUid \in Uid \cup {NoUid}
    BY DEF Handler, Carrying
  <2>5. \A do \in Carrying : Runs(do, n) => Head(calendar).uid \in Uid
    BY <2>1 DEF Runs, LinkTypes, Calendar
  <2>6. ASSUME UNCHANGED <<m_queue, calls, received>>, Calendar(calendar') PROVE LinkTypes'
    BY <1>1, <2>6 DEF LinkTypes, calls
  <2>7. CASE ErrorResetSpWState(n)
    BY <2>1, <2>6, <2>7, HandlerCalendars DEF ErrorResetSpWState
  <2>8. CASE ErrorWaitSpWState(n)
    BY <2>1, <2>4, <2>6, <2>8, ScheduleCalendar, Delays DEF ErrorWaitSpWState
  <2>9. CASE ReadySpWState(n)
    BY <2>1, <2>6, <2>9, HandlerCalendars DEF ReadySpWState
  <2>10. CASE SendNull(n)
    <3> DEFINE d == NullInLink(Rest, n)
    <3>1. Calendar(d)
      BY <2>1, HandlerCalendars
    <3>2. calendar' = d \/ calendar' = ScheduleAs("sendNull", d, PERIOD, "SendNull", n, NoUid)
      BY <2>10 DEF SendNull
    <3> HIDE DEF d
    <3>3. Calendar(calendar')
      BY <3>1, <3>2, HandlerCalendars
    <3> QED
      BY <2>6, <2>10, <3>3 DEF SendNull
  <2>11. CASE ReceiveNull(n)
    <3>1. Calendar(Connecting(Cancel(Rest, n, {"sendNull"}), n))
      BY <2>2, HandlerCalendars
    <3> QED
      BY <2>1, <2>6, <2>11, <3>1 DEF ReceiveNull
  <2>12. CASE SendFCT(n)
    <3> DEFINE d == FCTInLink(Rest, n)
    <3>1. Calendar(d)
      BY <2>1, HandlerCalendars
    <3>2. calendar' = d \/ calendar' = ScheduleAs("sendFCT", d, PERIOD, "SendFCT", n, NoUid)
      BY <2>12 DEF SendFCT
    <3> HIDE DEF d
    <3>3. Calendar(calendar')
      BY <3>1, <3>2, HandlerCalendars
    <3> QED
      BY <2>6, <2>12, <3>3 DEF SendFCT
  <2>13. CASE ReceiveFCT(n)
    <3>1. CASE machineState[n] = "CONNECTING"
      <4>1. PICK c : Calendar(c) /\ Transmit(n, m_queue[n], c)
        BY <2>2, <2>13, <3>1 DEF ReceiveFCT, RunSpWState
      <4>2. Calendar(calendar') /\ \A m \in Node : Len(m_queue'[m]) <= QUEUE_SZ
        BY <2>3, <4>1, TransmitTypes
      <4> QED
        BY <1>1, <2>13, <4>2 DEF LinkTypes, ReceiveFCT, calls
    <3>2. CASE machineState[n] # "CONNECTING"
      BY <2>1, <2>6, <2>13, <3>2 DEF ReceiveFCT
    <3> QED
      BY <3>1, <3>2
  <2>14. CASE TransmitComplete(n)
    <3>1. PICK c : Calendar(c) /\ Transmit(n, m_queue[n], c)
      BY <2>1, <2>14, ForgetCalendar DEF TransmitComplete
    <3>2. Calendar(calendar') /\ \A m \in Node : Len(m_queue'[m]) <= QUEUE_SZ
      BY <2>3, <3>1, TransmitTypes
    <3> QED
      BY <1>1, <2>14, <3>2 DEF LinkTypes, TransmitComplete, calls
  <2>15. CASE TransmissionComplete(n)
    <3> DEFINE u == Head(calendar).uid
    <3>1. u \in Uid
      BY <2>5, <2>15 DEF TransmissionComplete, Carrying
    <3>2. Calendar(Forget(Rest, n, "m_events", u))
      BY <2>1, ForgetCalendar
    <3>3. calendar' = Schedule(Forget(Rest, n, "m_events", u), HANDLING,
                               "HandlingArrivedComplete", n, u)
      BY <2>15 DEF TransmissionComplete
    <3> HIDE DEF u
    <3>4. Calendar(calendar')
      BY <2>4, <3>1, <3>2, <3>3, ScheduleCalendar, Delays
    <3> QED
      BY <2>6, <2>15, <3>4 DEF TransmissionComplete
  <2>16. CASE HandlingArrivedComplete(n)
    <3>1. Head(calendar).uid \in Uid
      BY <2>5, <2>16 DEF HandlingArrivedComplete, Carrying
    <3>2. Calendar(Schedule(Rest, 0, "Receive", Peer(n), Head(calendar).uid))
      BY <2>1, <2>4, <3>1, ScheduleCalendar, PeerType
    <3> QED
      BY <2>6, <2>16, <3>2 DEF HandlingArrivedComplete
  <2>17. CASE ReceiveIntact(n)
    <3>1. Head(calendar).uid \in Uid
      BY <2>5, <2>17 DEF ReceiveIntact, Carrying
    <3>2. received' \in [Node -> Seq(Uid)]
      BY <2>17, <3>1, AppendProperties DEF ReceiveIntact, LinkTypes
    <3> QED
      BY <1>1, <2>1, <2>17, <3>2 DEF LinkTypes, ReceiveIntact, calls
  <2>18. CASE ReceiveCorrupt(n)
    <3>1. Calendar(ErrorReset(NotifyError(Rest, n), n))
      BY <2>1, HandlerCalendars
    <3>2. errors' \in 0 .. MAX_ERRORS
      BY <2>18, Delays DEF ReceiveCorrupt, LinkTypes
    <3> QED
      BY <1>1, <2>18, <3>1, <3>2 DEF LinkTypes, ReceiveCorrupt
  <2>19. CASE ApproachLinkDisconnection(n)
    <3>1. Calendar(Timeout(Cancel(Rest, n, Handle), n, EXCHANGE_OF_SILENCE))
      BY <2>2, HandlerCalendars, Delays
    <3> QED
      BY <2>6, <2>19, <3>1 DEF ApproachLinkDisconnection
  <2> QED
    BY <1>3, <2>7, <2>8, <2>9, <2>10, <2>11, <2>12, <2>13, <2>14, <2>15, <2>16, <2>17,
       <2>18, <2>19 DEF Step
<1>4. ASSUME NEW n \in Node, Send(n) PROVE LinkTypes'
  <2>1. PICK u \in {given'} \cup Range(sent[n]), d \in Gap :
          /\ CallAt(d)
          /\ IF machineState[n] = "RUN"
               THEN Transmit(n, Enqueue(m_queue[n], u), Later(calendar, d))
             ELSE /\ m_queue' = [m_queue EXCEPT ![n] = Enqueue(m_queue[n], u)]
                  /\ calendar' = Later(calendar, d)
    BY <1>4 DEF Send
  <2> DEFINE q == Enqueue(m_queue[n], u)
  <2>2. u \in Uid
    BY <1>4, <2>1, GivenPacket
  <2>3. /\ m_queue \in [Node -> Seq(Uid)] /\ txTime \in Traffic
        /\ \A m \in Node : Len(m_queue[m]) <= QUEUE_SZ
    BY DEF LinkTypes, DeviceInv
  <2>4. q \in Seq(Uid) /\ Len(q) <= QUEUE_SZ
    BY <2>2, <2>3, Delays, AppendProperties, LenProperties DEF Enqueue
  <2>5. Calendar(Later(calendar, d))
    BY <2>1, CallCalendar DEF LinkTypes
  <2>7. IF machineState[n] = "RUN" THEN Transmit(n, q, Later(calendar, d))
        ELSE m_queue' = [m_queue EXCEPT ![n] = q] /\ calendar' = Later(calendar, d)
    BY <2>1
  <2> HIDE DEF q
  <2>6. Calendar(calendar') /\ \A m \in Node : Len(m_queue'[m]) <= QUEUE_SZ
    <3>1. CASE machineState[n] = "RUN"
      BY <2>3, <2>4, <2>5, <2>7, <3>1, TransmitTypes
    <3>2. CASE machineState[n] # "RUN"
      BY <2>3, <2>4, <2>5, <2>7, <3>2
    <3> QED
      BY <3>1, <3>2
  <2> QED
    BY <1>1, <1>4, <2>6 DEF LinkTypes, Send
<1>5. ASSUME NEW n \in Node, Shutdown(n) PROVE LinkTypes'
  BY <1>1, <1>5 DEF Shutdown, LinkTypes, calls
<1> QED
  BY <1>2, <1>3, <1>4, <1>5 DEF Next

LEMMA InitTypes ==
  ASSUME Init
  PROVE  LinkTypes
<1>1. <<>> \in Seq(Uid) /\ Len(<<>>) = 0
  BY EmptySeq
<1>2. DeviceInv
  BY <1>1, Delays DEF Init, DeviceInv, NothingWaits, MachineState
<1>3. Calendar(calendar)
  <2>1. PICK n \in Node : calendar = Schedule(Schedule(<<>>, 0, "ErrorReset", n, NoUid),
                                              offset, "ErrorReset", Peer(n), NoUid)
    BY DEF Init
  <2>2. offset \in Nat /\ Peer(n) \in Node
    BY LinkAssumption, PeerType DEF Init
  <2>3. Calendar(<<>>)
    BY EmptySeq DEF Calendar, InRunOrder
  <2>4. /\ "ErrorReset" \in Handler \ Carrying /\ NoUid \in Uid \cup {NoUid} /\ 0 \in Nat
    BY DEF Handler, Carrying
  <2>5. Calendar(Schedule(<<>>, 0, "ErrorReset", n, NoUid))
    BY <2>3, <2>4, ScheduleCalendar
  <2> QED
    BY <2>1, <2>2, <2>4, <2>5, ScheduleCalendar
<1> QED
  BY <1>1, <1>2, <1>3, Delays DEF Init, LinkTypes

LEMMA TypesInvariant == Spec => []LinkTypes
<1>1. LinkTypes /\ [Next]_vars => LinkTypes'
  BY StepTypes
<1> QED
  BY <1>1, InitTypes, PTL DEF Spec

\* The variables keep their types, the queues their capacity and the calendar
\* its order, resets that overlap included (DropTailQueue, Simulator::Schedule).
THEOREM LinkTypeCorrect == Spec => []TypeOK
<1>1. LinkTypes => TypeOK
  <2> SUFFICES ASSUME LinkTypes PROVE TypeOK
    OBVIOUS
  <2>1. calendar \in Seq(Event) /\ DOMAIN calendar = 1 .. Len(calendar)
    BY CalendarTypes DEF LinkTypes
  <2>2. \A i, j \in DOMAIN calendar : i < j => calendar[i].in <= calendar[j].in
    BY <2>1 DEF LinkTypes, Calendar, InRunOrder
  <2> QED
    BY <2>1, <2>2 DEF LinkTypes, DeviceInv, TypeOK, Event
<1> QED
  BY <1>1, TypesInvariant, PTL

-----------------------------------------------------------------------------
(***************************************************************************)
(* Transmissions on the channel: m_events refers to each of them, but for  *)
(* packets that were sent again.  Were another packet of one uid on a      *)
(* wire, or still queued, the handle of the first would be lost.           *)
(***************************************************************************)

OnWire(e, n) == e.do = "TransmissionComplete" /\ e.dev = n

\* q is the queue of n, g the last uid given and O holds packets of one copy.
WireInv(c, n, q, g, O) ==
  /\ \A i \in 1 .. Len(c) : OnWire(c[i], n) =>
       /\ c[i].uid <= g
       /\ c[i].uid \in O => /\ c[i].handle = "m_events"
                           /\ \A x \in 1 .. Len(q) : c[i].uid # q[x]
  /\ \A i, j \in 1 .. Len(c) : OnWire(c[i], n) /\ OnWire(c[j], n) /\ i # j /\ c[i].uid \in O =>
       c[i].uid # c[j].uid

QueueInv(q, g, O) ==
  /\ \A x \in 1 .. Len(q) : q[x] <= g
  /\ \A x, y \in 1 .. Len(q) : x # y /\ q[x] \in O => q[x] # q[y]

Once(n) == {u \in Uid : ~Again(n, u)}

UidInv ==
  \A n \in Node : /\ QueueInv(m_queue[n], given, Once(n))
                 /\ WireInv(calendar, n, m_queue[n], given, Once(n))
                 /\ \A k \in 1 .. Len(sent[n]) : sent[n][k] <= given

LEMMA WireEmbedded ==
  ASSUME NEW c, NEW r, Len(r) \in Nat, NEW f, Embeds(r, c, f),
         NEW n, NEW q, NEW g, NEW O, WireInv(c, n, q, g, O)
  PROVE  WireInv(r, n, q, g, O)
<1>1. \A i \in 1 .. Len(r) : f[i] \in 1 .. Len(c) /\ SameEvent(r[i], c[f[i]])
  BY DEF Embeds
<1>2. \A i \in 1 .. Len(r) : /\ OnWire(r[i], n) <=> OnWire(c[f[i]], n)
                             /\ r[i].uid = c[f[i]].uid /\ r[i].handle = c[f[i]].handle
  BY <1>1 DEF OnWire, SameEvent
<1>3. ASSUME NEW i \in 1 .. Len(r), NEW j \in 1 .. Len(r), i # j PROVE f[i] # f[j]
  <2>1. i < j \/ j < i
    BY <1>3
  <2>2. f[i] < f[j] \/ f[j] < f[i]
    BY <2>1 DEF Embeds
  <2>3. f[i] \in Int /\ f[j] \in Int
    BY <1>1
  <2> QED
    BY <2>2, <2>3
<1>4. ASSUME NEW i \in 1 .. Len(r), OnWire(r[i], n)
      PROVE  /\ r[i].uid <= g
             /\ r[i].uid \in O => /\ r[i].handle = "m_events"
                                 /\ \A x \in 1 .. Len(q) : r[i].uid # q[x]
  <2>1. f[i] \in 1 .. Len(c) /\ OnWire(c[f[i]], n)
    BY <1>1, <1>2, <1>4
  <2>2. /\ c[f[i]].uid <= g
        /\ c[f[i]].uid \in O => /\ c[f[i]].handle = "m_events"
                                /\ \A x \in 1 .. Len(q) : c[f[i]].uid # q[x]
    BY <2>1 DEF WireInv
  <2>3. r[i].uid = c[f[i]].uid /\ r[i].handle = c[f[i]].handle
    BY <1>2
  <2> QED
    BY <2>2, <2>3
<1>5. ASSUME NEW i \in 1 .. Len(r), NEW j \in 1 .. Len(r), i # j,
             OnWire(r[i], n), OnWire(r[j], n), r[i].uid \in O
      PROVE  r[i].uid # r[j].uid
  <2>1. f[i] \in 1 .. Len(c) /\ f[j] \in 1 .. Len(c) /\ f[i] # f[j]
    BY <1>1, <1>3, <1>5
  <2>2. OnWire(c[f[i]], n) /\ OnWire(c[f[j]], n) /\ c[f[i]].uid \in O
    BY <1>2, <1>5
  <2>3. c[f[i]].uid # c[f[j]].uid
    BY <2>1, <2>2 DEF WireInv
  <2> QED
    BY <1>2, <2>3
<1> QED
  BY <1>4, <1>5 DEF WireInv

LEMMA WireInserted ==
  ASSUME NEW c, Calendar(c), NEW e \in Event, NEW n, NEW q, NEW g, NEW O, WireInv(c, n, q, g, O),
         OnWire(e, n) =>
           /\ e.uid <= g
           /\ e.uid \in O => /\ e.handle = "m_events"
                             /\ \A x \in 1 .. Len(q) : e.uid # q[x]
                             /\ \A i \in 1 .. Len(c) : OnWire(c[i], n) => c[i].uid # e.uid
  PROVE  WireInv(Insert(c, e), n, q, g, O)
<1> DEFINE r == Insert(c, e)
<1>1. c \in Seq(Event) /\ InRunOrder(c) /\ Len(c) \in Nat
  BY LenProperties DEF Calendar
<1>2. Len(r) = Len(c) + 1
  BY <1>1, Inserted
<1>3. PICK p \in 1 .. Len(c) + 1 : \A i \in 1 .. Len(c) + 1 :
        r[i] = IF i < p THEN c[i] ELSE IF i = p THEN e ELSE c[i - 1]
  BY <1>1, Inserted
<1> HIDE DEF r
<1>4. ASSUME NEW i \in 1 .. Len(r), i # p
      PROVE  \E k \in 1 .. Len(c) : r[i] = c[k] /\ k = IF i < p THEN i ELSE i - 1
  <2>1. CASE i < p
    BY <1>1, <1>2, <1>3, <2>1
  <2>2. CASE p < i
    <3>1. i - 1 \in 1 .. Len(c) /\ r[i] = c[i - 1] /\ ~(i < p)
      BY <1>1, <1>2, <1>3, <2>2
    <3> QED
      BY <3>1
  <2> QED
    BY <1>2, <1>4, <2>1, <2>2
<1>5. r[p] = e
  BY <1>3
<1>6. ASSUME NEW i \in 1 .. Len(r), OnWire(r[i], n)
      PROVE  /\ r[i].uid <= g
             /\ r[i].uid \in O => /\ r[i].handle = "m_events"
                                 /\ \A x \in 1 .. Len(q) : r[i].uid # q[x]
  BY <1>4, <1>5, <1>6 DEF WireInv
<1>7. ASSUME NEW i \in 1 .. Len(r), NEW j \in 1 .. Len(r), i # j,
             OnWire(r[i], n), OnWire(r[j], n), r[i].uid \in O
      PROVE  r[i].uid # r[j].uid
  <2>1. CASE i = p \/ j = p
    <3>1. CASE i = p
      BY <1>4, <1>5, <1>7, <3>1
    <3>2. CASE j = p
      BY <1>4, <1>5, <1>7, <3>2
    <3> QED
      BY <2>1, <3>1, <3>2
  <2>2. CASE i # p /\ j # p
    <3>1. PICK k \in 1 .. Len(c) : r[i] = c[k] /\ k = IF i < p THEN i ELSE i - 1
      BY <1>4, <2>2
    <3>2. PICK l \in 1 .. Len(c) : r[j] = c[l] /\ l = IF j < p THEN j ELSE j - 1
      BY <1>4, <2>2
    <3>3. k # l
      BY <1>7, <2>2, <3>1, <3>2
    <3> QED
      BY <1>7, <3>1, <3>2, <3>3 DEF WireInv
  <2> QED
    BY <2>1, <2>2
<1> QED
  BY <1>6, <1>7 DEF WireInv, r

LEMMA WireForgotten ==
  ASSUME NEW c, Calendar(c), NEW m, NEW h, NEW u, NEW n, NEW q, NEW g, NEW O, WireInv(c, n, q, g, O),
         \A i \in 1 .. Len(c) : OnWire(c[i], n) /\ c[i].uid \in O =>
           ~(c[i].dev = m /\ c[i].handle = h /\ c[i].uid = u)
  PROVE  WireInv(Forget(c, m, h, u), n, q, g, O)
<1> DEFINE r == Forget(c, m, h, u)
<1>1. /\ Len(r) = Len(c)
      /\ \A i \in 1 .. Len(c) :
           IF c[i].dev = m /\ c[i].handle = h /\ c[i].uid = u
             THEN r[i].do = c[i].do /\ r[i].dev = c[i].dev /\ r[i].uid = c[i].uid
           ELSE r[i] = c[i]
  BY ForgetCalendar
<1> HIDE DEF r
<1>2. \A i \in 1 .. Len(r) : OnWire(r[i], n) =>
        /\ OnWire(c[i], n) /\ r[i].uid = c[i].uid
        /\ r[i].uid \in O => r[i] = c[i]
  BY <1>1 DEF OnWire
<1> QED
  BY <1>1, <1>2 DEF WireInv, r

\* An event that is not a transmission of n leaves those of n alone, whatever
\* handle it gets.
LEMMA WireOthers ==
  ASSUME NEW c, Calendar(c), NEW delay \in Nat, NEW do \in Handler, NEW m \in Node,
         NEW u \in Uid \cup {NoUid}, NEW n, NEW q, NEW g, NEW O, WireInv(c, n, q, g, O),
         do # "TransmissionComplete" \/ m # n
  PROVE  /\ WireInv(Schedule(c, delay, do, m, u), n, q, g, O)
         /\ \A h \in Handle \cup {"m_events"} : h # "m_events" \/ m # n =>
              WireInv(ScheduleAs(h, c, delay, do, m, u), n, q, g, O)
<1>1. ASSUME NEW h \in Handle \cup {"m_events", "none"}, NEW d, Calendar(d), WireInv(d, n, q, g, O)
      PROVE  WireInv(Insert(d, [do |-> do, dev |-> m, uid |-> u, in |-> delay, handle |-> h]),
                     n, q, g, O)
  <2> DEFINE e == [do |-> do, dev |-> m, uid |-> u, in |-> delay, handle |-> h]
  <2>1. e \in Event /\ ~OnWire(e, n)
    BY DEF Event, OnWire
  <2> HIDE DEF e
  <2>2. WireInv(Insert(d, e), n, q, g, O)
    BY <1>1, <2>1, WireInserted
  <2> QED
    BY <2>2 DEF e
<1>2. WireInv(Schedule(c, delay, do, m, u), n, q, g, O)
  BY <1>1 DEF Schedule
<1>3. ASSUME NEW h \in Handle \cup {"m_events"}, h # "m_events" \/ m # n
      PROVE  WireInv(ScheduleAs(h, c, delay, do, m, u), n, q, g, O)
  <2>1. \A i \in 1 .. Len(c) : OnWire(c[i], n) /\ c[i].uid \in O =>
          ~(c[i].dev = m /\ c[i].handle = h /\ c[i].uid = u)
    BY <1>3 DEF WireInv, OnWire
  <2>2. WireInv(Forget(c, m, h, u), n, q, g, O) /\ Calendar(Forget(c, m, h, u))
    BY <2>1, WireForgotten, ForgetCalendar
  <2> QED
    BY <1>1, <2>2 DEF ScheduleAs
<1> QED
  BY <1>2, <1>3

\* No part of a handler but TransmitStart touches the wire other than by
\* cancelling.
LEMMA WireHandlers ==
  ASSUME NEW c, Calendar(c), NEW m \in Node, NEW n, NEW q, NEW g, NEW O, WireInv(c, n, q, g, O)
  PROVE  /\ \A H : WireInv(Cancel(c, m, H), n, q, g, O)
         /\ WireInv(ErrorReset(c, m), n, q, g, O)
         /\ \A delay \in Nat : WireInv(Timeout(c, m, delay), n, q, g, O)
         /\ WireInv(Started(c, m), n, q, g, O) /\ WireInv(Connecting(c, m), n, q, g, O)
         /\ WireInv(NullInLink(c, m), n, q, g, O) /\ WireInv(FCTInLink(c, m), n, q, g, O)
         /\ WireInv(NotifyError(c, m), n, q, g, O)
         /\ WireInv(ScheduleAs("sendNull", c, PERIOD, "SendNull", m, NoUid), n, q, g, O)
         /\ WireInv(ScheduleAs("sendFCT", c, PERIOD, "SendFCT", m, NoUid), n, q, g, O)
<1> USE Delays
<1>1. Peer(m) \in Node
  BY PeerType
<1>2. /\ {"ErrorReset", "ErrorWait", "SendNull", "ReceiveNull", "SendFCT", "ReceiveFCT",
          "ApproachLinkDisconnection"} \subseteq Handler
      /\ NoUid \in Uid \cup {NoUid} /\ 0 \in Nat
      /\ {"stateChangeToErrorReset", "sendNull", "sendFCT"} \subseteq Handle \cup {"m_events"}
  BY DEF Handler, Handle
<1>3. \A d : Calendar(d) /\ WireInv(d, n, q, g, O) =>
        \A k \in Node : \A H : Calendar(Cancel(d, k, H)) /\ WireInv(Cancel(d, k, H), n, q, g, O)
  BY CancelCalendar, WireEmbedded, CalendarTypes
<1>4. WireInv(ErrorReset(c, m), n, q, g, O)
  BY <1>2, <1>3, WireOthers DEF ErrorReset
<1>5. ASSUME NEW delay \in Nat PROVE WireInv(Timeout(c, m, delay), n, q, g, O)
  BY <1>2, <1>3, WireOthers DEF Timeout
<1>6. Calendar(Timeout(c, m, SPW_DELAY))
  BY HandlerCalendars
<1>7. WireInv(Started(c, m), n, q, g, O) /\ WireInv(Connecting(c, m), n, q, g, O)
  BY <1>2, <1>5, <1>6, WireOthers DEF Started, Connecting
<1>8. WireInv(NullInLink(c, m), n, q, g, O) /\ WireInv(FCTInLink(c, m), n, q, g, O)
  BY <1>1, <1>2, WireOthers DEF NullInLink, FCTInLink
<1>9. WireInv(NotifyError(c, m), n, q, g, O)
  <2> DEFINE d == Cancel(Cancel(c, m, {"m_events"}), Peer(m), {"m_events"})
  <2>1. Calendar(d) /\ WireInv(d, n, q, g, O)
    BY <1>1, <1>3
  <2> HIDE DEF d
  <2>2. WireInv(Schedule(d, APPROACH_TIME, "ApproachLinkDisconnection", Peer(m), NoUid), n, q, g, O)
    BY <1>1, <1>2, <2>1, WireOthers
  <2> QED
    BY <2>2 DEF NotifyError, d
<1>10. /\ WireInv(ScheduleAs("sendNull", c, PERIOD, "SendNull", m, NoUid), n, q, g, O)
       /\ WireInv(ScheduleAs("sendFCT", c, PERIOD, "SendFCT", m, NoUid), n, q, g, O)
  BY <1>2, WireOthers
<1> QED
  BY <1>3, <1>4, <1>5, <1>7, <1>8, <1>9, <1>10

\* The first packet of the queue goes onto the wire, where its uid is new unless
\* it was sent again.
LEMMA WireTransmits ==
  ASSUME txTime \in Traffic, NEW c, Calendar(c), NEW n \in Node, NEW q \in Seq(Uid),
         q # <<>>, NEW g \in Nat, NEW O, QueueInv(q, g, O), WireInv(c, n, q, g, O)
  PROVE  QueueInv(Tail(q), g, O) /\ WireInv(TransmitStart(c, n, Head(q)), n, Tail(q), g, O)
<1> DEFINE u == Head(q)
           t == Tail(q)
<1>1. /\ Len(q) \in Nat \ {0} /\ u = q[1] /\ u \in Uid /\ t \in Seq(Uid)
      /\ Len(t) = Len(q) - 1 /\ \A x \in 1 .. Len(t) : t[x] = q[x + 1]
  BY EmptySeq, HeadTailProperties
<1>2. Uid \subseteq Nat
  BY DEF Uid
<1> HIDE DEF u, t
<1>3. /\ 1 \in 1 .. Len(q)
      /\ \A x \in 1 .. Len(t) : x + 1 \in 1 .. Len(q) /\ 1 # x + 1
  BY <1>1
<1>4. QueueInv(t, g, O)
  <2>1. \A x, y \in 1 .. Len(t) : x # y => x + 1 # y + 1
    OBVIOUS
  <2> QED
    BY <1>1, <1>3, <2>1 DEF QueueInv
<1>5. u <= g /\ (u \in O => \A x \in 1 .. Len(t) : u # t[x])
  BY <1>1, <1>3 DEF QueueInv
<1>6. WireInv(c, n, t, g, O)
  BY <1>1, <1>3 DEF WireInv
<1>7. u \in O => \A i \in 1 .. Len(c) : OnWire(c[i], n) => c[i].uid # u
  BY <1>1, <1>3 DEF WireInv
<1>8. txTime[u] \in Nat /\ txTime[u] + DELAY \in Nat
  BY <1>1, Delays, LinkAssumption
<1>9. /\ {"TransmitComplete", "TransmissionComplete"} \subseteq Handler
      /\ {"transmit_complete_events", "m_events"} \subseteq Handle \cup {"m_events"}
      /\ "TransmitComplete" \notin Carrying
  BY DEF Handler, Handle, Carrying
<1> DEFINE d == ScheduleAs("transmit_complete_events", c, txTime[u], "TransmitComplete", n, u)
<1>10. Calendar(d) /\ WireInv(d, n, t, g, O)
  BY <1>1, <1>6, <1>8, <1>9, ScheduleAsCalendar, WireOthers
<1>11. u \in O => \A i \in 1 .. Len(d) : OnWire(d[i], n) => d[i].uid # u
  <2> DEFINE e == [do |-> "TransmitComplete", dev |-> n, uid |-> u, in |-> txTime[u],
                   handle |-> "transmit_complete_events"]
             b == Forget(c, n, "transmit_complete_events", u)
  <2>1. e \in Event /\ ~OnWire(e, n)
    BY <1>1, <1>8, <1>9 DEF Event, OnWire
  <2>2. /\ Calendar(b) /\ Len(b) = Len(c)
        /\ \A i \in 1 .. Len(b) : b[i].do = c[i].do /\ b[i].dev = c[i].dev /\ b[i].uid = c[i].uid
    BY ForgetCalendar
  <2>3. u \in O => \A i \in 1 .. Len(b) : OnWire(b[i], n) => b[i].uid # u
    BY <1>7, <2>2 DEF OnWire
  <2>4. d = Insert(b, e)
    BY DEF ScheduleAs
  <2> HIDE DEF b, e, d
  <2>5. b \in Seq(Event) /\ InRunOrder(b) /\ Len(b) \in Nat
    BY <2>2, LenProperties DEF Calendar
  <2>6. Len(d) = Len(b) + 1
    BY <2>1, <2>4, <2>5, Inserted
  <2>7. PICK p \in 1 .. Len(b) + 1 :
          /\ \A i \in 1 .. Len(b) + 1 :
               d[i] = IF i < p THEN b[i] ELSE IF i = p THEN e ELSE b[i - 1]
          /\ \A i \in 1 .. Len(b) : b[i].in <= e.in <=> i < p
    BY <2>1, <2>4, <2>5, Inserted
  <2> QED
    <3> SUFFICES ASSUME u \in O, NEW i \in 1 .. Len(d), OnWire(d[i], n)
                 PROVE  d[i].uid # u
      OBVIOUS
    <3>1. i \in 1 .. Len(b) + 1 /\ i # p
      BY <2>1, <2>6, <2>7
    <3>2. CASE i < p
      <4>1. i \in 1 .. Len(b) /\ d[i] = b[i]
        BY <2>5, <2>7, <3>1, <3>2
      <4> QED
        BY <2>3, <4>1
    <3>3. CASE p < i
      <4>1. i - 1 \in 1 .. Len(b) /\ d[i] = b[i - 1]
        BY <2>5, <2>7, <3>1, <3>3
      <4> QED
        BY <2>3, <4>1
    <3> QED
      BY <3>1, <3>2, <3>3
<1> HIDE DEF d
<1>12. WireInv(OntoWire(d, n, u), n, t, g, O)
  <2> DEFINE e == [do |-> "TransmissionComplete", dev |-> n, uid |-> u,
                   in |-> txTime[u] + DELAY, handle |-> "m_events"]
             b == Forget(d, n, "m_events", u)
  <2>1. /\ e \in Event /\ e.handle = "m_events" /\ e.uid = u
    BY <1>1, <1>8, <1>9 DEF Event
  <2>2. \A i \in 1 .. Len(d) : OnWire(d[i], n) /\ d[i].uid \in O =>
          ~(d[i].dev = n /\ d[i].handle = "m_events" /\ d[i].uid = u)
    BY <1>1, <1>2, <1>11
  <2>3. Calendar(b) /\ WireInv(b, n, t, g, O)
    BY <1>10, <2>2, ForgetCalendar, WireForgotten
  <2>4. /\ Len(b) = Len(d)
        /\ \A i \in 1 .. Len(b) : b[i].do = d[i].do /\ b[i].dev = d[i].dev /\ b[i].uid = d[i].uid
    BY <1>10, ForgetCalendar
  <2>5. u \in O => \A i \in 1 .. Len(b) : OnWire(b[i], n) => b[i].uid # e.uid
    BY <1>1, <1>2, <1>11, <2>1, <2>4 DEF OnWire
  <2>6. OntoWire(d, n, u) = Insert(b, e)
    BY DEF OntoWire, ScheduleAs
  <2> HIDE DEF b, e
  <2> QED
    BY <1>5, <2>1, <2>3, <2>5, <2>6, WireInserted
<1> QED
  BY <1>4, <1>12 DEF TransmitStart, u, t, d

\* A transmission of another device.
LEMMA WireTransmitsElsewhere ==
  ASSUME txTime \in Traffic, NEW c, Calendar(c), NEW m \in Node, NEW u \in Uid, NEW n, m # n,
         NEW q, NEW g, NEW O, WireInv(c, n, q, g, O)
  PROVE  WireInv(TransmitStart(c, m, u), n, q, g, O)
<1>1. txTime[u] \in Nat /\ txTime[u] + DELAY \in Nat
  BY Delays, LinkAssumption
<1>2. /\ {"TransmitComplete", "TransmissionComplete"} \subseteq Handler
      /\ {"transmit_complete_events", "m_events"} \subseteq Handle \cup {"m_events"}
      /\ "TransmitComplete" \notin Carrying
  BY DEF Handler, Handle, Carrying
<1> DEFINE d == ScheduleAs("transmit_complete_events", c, txTime[u], "TransmitComplete", m, u)
<1>3. Calendar(d) /\ WireInv(d, n, q, g, O)
  BY <1>1, <1>2, ScheduleAsCalendar, WireOthers
<1> HIDE DEF d
<1>4. WireInv(OntoWire(d, m, u), n, q, g, O)
  BY <1>1, <1>2, <1>3, WireOthers DEF OntoWire
<1> QED
  BY <1>4 DEF TransmitStart, d

\* Device n is ready, with the calendar c and the queue q.
LEMMA TransmitUid ==
  ASSUME NEW c, Calendar(c), NEW n \in Node, NEW q \in Seq(Uid), given' \in Nat,
         m_queue \in [Node -> Seq(Uid)], txTime \in Traffic,
         QueueInv(q, given', Once(n)'), WireInv(c, n, q, given', Once(n)'),
         \A m \in Node : m # n => /\ QueueInv(m_queue[m], given', Once(m)')
                                  /\ WireInv(c, m, m_queue[m], given', Once(m)'),
         \A m \in Node : \A k \in 1 .. Len(sent'[m]) : sent'[m][k] <= given',
         Transmit(n, q, c)
  PROVE  UidInv'
<1>1. CASE q = <<>>
  BY <1>1 DEF Transmit, UidInv
<1>2. CASE q # <<>>
  <2>1. Head(q) \in Uid
    BY <1>2, HeadTailProperties
  <2>2. m_queue' = [m_queue EXCEPT ![n] = Tail(q)] /\ calendar' = TransmitStart(c, n, Head(q))
    BY <1>2 DEF Transmit
  <2>3. /\ QueueInv(Tail(q), given', Once(n)')
        /\ WireInv(TransmitStart(c, n, Head(q)), n, Tail(q), given', Once(n)')
    BY <1>2, WireTransmits
  <2>4. \A m \in Node : m # n =>
          WireInv(TransmitStart(c, n, Head(q)), m, m_queue[m], given', Once(m)')
    BY <2>1, WireTransmitsElsewhere
  <2> QED
    BY <2>2, <2>3, <2>4 DEF UidInv
<1> QED
  BY <1>1, <1>2

LEMMA RestEmbeds ==
  ASSUME Calendar(calendar), calendar # <<>>
  PROVE  Embeds(Rest, calendar, [i \in 1 .. Len(Rest) |-> i + 1]) /\ Len(Rest) \in Nat
<1>1. Len(Rest) \in Nat
  BY RestCalendar
<1>2. \A i \in 1 .. Len(Rest) : i + 1 \in 1 .. Len(calendar)
                                /\ SameEvent(Rest[i], calendar[i + 1])
  BY RestCalendar
<1> QED
  BY <1>1, <1>2 DEF Embeds

LEMMA StepUid ==
  ASSUME LinkTypes, UidInv, [Next]_vars
  PROVE  UidInv'
<1>1. /\ Calendar(calendar) /\ given \in Nat /\ txTime \in Traffic
      /\ m_queue \in [Node -> Seq(Uid)]
      /\ \A n \in Node : QueueInv(m_queue[n], given, Once(n)) /\ WireInv(calendar, n, m_queue[n], given, Once(n))
  BY Delays DEF LinkTypes, DeviceInv, UidInv
<1>0. ASSUME UNCHANGED sent PROVE \A m \in Node : Once(m)' = Once(m)
  BY <1>0 DEF Once, Again
<1>2. ASSUME UNCHANGED vars PROVE UidInv'
  BY <1>0, <1>2 DEF vars, UidInv
<1>3. ASSUME NEW n \in Node, Step(n) PROVE UidInv'
  <2>1. calendar # <<>>
    BY <1>3 DEF Step, ErrorResetSpWState, ErrorWaitSpWState, ReadySpWState, SendNull,
                ReceiveNull, SendFCT, ReceiveFCT, TransmitComplete, TransmissionComplete,
                HandlingArrivedComplete, ReceiveIntact, ReceiveCorrupt,
                ApproachLinkDisconnection, Runs
  <2>2. Calendar(Rest) /\ \A m \in Node : WireInv(Rest, m, m_queue[m], given, Once(m))
    BY <1>1, <2>1, RestCalendar, RestEmbeds, WireEmbedded
  <2>3. \A H : /\ Calendar(Cancel(Rest, n, H))
               /\ \A m \in Node : WireInv(Cancel(Rest, n, H), m, m_queue[m], given, Once(m))
    BY <2>2, WireHandlers, HandlerCalendars
  <2>4. ASSUME UNCHANGED <<m_queue, given, sent>>,
               \A m \in Node : WireInv(calendar', m, m_queue[m], given, Once(m))
        PROVE  UidInv'
    BY <1>0, <1>1, <2>4 DEF UidInv
  <2>5. /\ {"ErrorWait", "Ready", "HandlingArrivedComplete", "Receive"} \subseteq Handler
        /\ NoUid \in Uid \cup {NoUid}
    BY DEF Handler
  <2>6. ASSUME NEW c, Calendar(c), \A m \in Node : WireInv(c, m, m_queue[m], given, Once(m)),
               UNCHANGED <<given, sent>>, Transmit(n, m_queue[n], c)
        PROVE  UidInv'
    <3>1. \A m \in Node : \A k \in 1 .. Len(sent'[m]) : sent'[m][k] <= given'
      BY <2>6 DEF UidInv
    <3>2. \A m \in Node : /\ QueueInv(m_queue[m], given', Once(m)')
                          /\ WireInv(c, m, m_queue[m], given', Once(m)')
      BY <1>0, <1>1, <2>6
    <3> QED
      BY <1>1, <2>6, <3>1, <3>2, TransmitUid
  <2>7. CASE ErrorResetSpWState(n)
    BY <2>2, <2>4, <2>7, WireHandlers DEF ErrorResetSpWState, calls
  <2>8. CASE ErrorWaitSpWState(n)
    BY <2>2, <2>4, <2>5, <2>8, WireOthers, Delays DEF ErrorWaitSpWState, calls
  <2>9. CASE ReadySpWState(n)
    BY <2>2, <2>4, <2>9, WireHandlers DEF ReadySpWState, calls
  <2>10. CASE SendNull(n)
    <3> DEFINE d == NullInLink(Rest, n)
    <3>1. Calendar(d) /\ \A m \in Node : WireInv(d, m, m_queue[m], given, Once(m))
      BY <2>2, HandlerCalendars, WireHandlers
    <3>2. calendar' = d \/ calendar' = ScheduleAs("sendNull", d, PERIOD, "SendNull", n, NoUid)
      BY <2>10 DEF SendNull
    <3> HIDE DEF d
    <3>3. \A m \in Node : WireInv(calendar', m, m_queue[m], given, Once(m))
      BY <3>1, <3>2, WireHandlers
    <3> QED
      BY <2>4, <2>10, <3>3 DEF SendNull, calls
  <2>11. CASE ReceiveNull(n)
    <3>1. \A m \in Node :
            WireInv(Connecting(Cancel(Rest, n, {"sendNull"}), n), m, m_queue[m], given, Once(m))
      BY <2>3, WireHandlers
    <3> QED
      BY <2>2, <2>4, <2>11, <3>1 DEF ReceiveNull, calls
  <2>12. CASE SendFCT(n)
    <3> DEFINE d == FCTInLink(Rest, n)
    <3>1. Calendar(d) /\ \A m \in Node : WireInv(d, m, m_queue[m], given, Once(m))
      BY <2>2, HandlerCalendars, WireHandlers
    <3>2. calendar' = d \/ calendar' = ScheduleAs("sendFCT", d, PERIOD, "SendFCT", n, NoUid)
      BY <2>12 DEF SendFCT
    <3> HIDE DEF d
    <3>3. \A m \in Node : WireInv(calendar', m, m_queue[m], given, Once(m))
      BY <3>1, <3>2, WireHandlers
    <3> QED
      BY <2>4, <2>12, <3>3 DEF SendFCT, calls
  <2>13. CASE ReceiveFCT(n)
    <3>1. CASE machineState[n] = "CONNECTING"
      BY <2>3, <2>6, <2>13, <3>1 DEF ReceiveFCT, RunSpWState, calls
    <3>2. CASE machineState[n] # "CONNECTING"
      BY <2>2, <2>4, <2>13, <3>2 DEF ReceiveFCT, calls
    <3> QED
      BY <3>1, <3>2
  <2>14. CASE TransmitComplete(n)
    <3> DEFINE c == Forget(Rest, n, "transmit_complete_events", Head(calendar).uid)
    <3>1. Calendar(c)
      BY <2>2, ForgetCalendar
    <3>2. \A m \in Node : WireInv(c, m, m_queue[m], given, Once(m))
      <4> SUFFICES ASSUME NEW m \in Node PROVE WireInv(c, m, m_queue[m], given, Once(m))
        OBVIOUS
      <4>1. WireInv(Rest, m, m_queue[m], given, Once(m))
        BY <2>2
      <4>2. \A i \in 1 .. Len(Rest) : OnWire(Rest[i], m) /\ Rest[i].uid \in Once(m) =>
              ~(Rest[i].dev = n /\ Rest[i].handle = "transmit_complete_events"
                /\ Rest[i].uid = Head(calendar).uid)
        BY <4>1 DEF WireInv
      <4> QED
        BY <2>2, <4>1, <4>2, WireForgotten
    <3>3. Transmit(n, m_queue[n], c) /\ UNCHANGED <<given, sent>>
      BY <2>14 DEF TransmitComplete, calls
    <3> HIDE DEF c
    <3> QED
      BY <2>6, <3>1, <3>2, <3>3
  <2>15. CASE TransmissionComplete(n)
    <3> DEFINE u == Head(calendar).uid
               c == Forget(Rest, n, "m_events", u)
    <3>1. /\ Head(calendar) = calendar[1] /\ 1 \in 1 .. Len(calendar)
          /\ \A i \in 1 .. Len(Rest) : i + 1 \in 1 .. Len(calendar) /\ i + 1 # 1
                                       /\ SameEvent(Rest[i], calendar[i + 1])
      BY <1>1, <2>1, RestCalendar
    <3>2. OnWire(calendar[1], n)
      BY <2>15, <3>1 DEF TransmissionComplete, Runs, OnWire
    <3>3. u \in Uid
      BY <1>1, <2>15, <3>1 DEF TransmissionComplete, Runs, Calendar, Carrying
    <3>4. \A i \in 1 .. Len(Rest) :
            OnWire(Rest[i], n) /\ Rest[i].uid \in Once(n) => Rest[i].uid # u
      <4> SUFFICES ASSUME NEW i \in 1 .. Len(Rest), OnWire(Rest[i], n), Rest[i].uid \in Once(n)
                   PROVE  Rest[i].uid # u
        OBVIOUS
      <4>1. OnWire(calendar[i + 1], n) /\ Rest[i].uid = calendar[i + 1].uid
        BY <3>1 DEF OnWire, SameEvent
      <4>2. WireInv(calendar, n, m_queue[n], given, Once(n))
        BY <1>1
      <4> QED
        BY <3>1, <3>2, <4>1, <4>2 DEF WireInv
    <3>5. Calendar(c)
      BY <2>2, ForgetCalendar
    <3>6. \A m \in Node : WireInv(c, m, m_queue[m], given, Once(m))
      <4> SUFFICES ASSUME NEW m \in Node PROVE WireInv(c, m, m_queue[m], given, Once(m))
        OBVIOUS
      <4>1. WireInv(Rest, m, m_queue[m], given, Once(m))
        BY <2>2
      <4>2. \A i \in 1 .. Len(Rest) : OnWire(Rest[i], m) /\ Rest[i].uid \in Once(m) =>
              ~(Rest[i].dev = n /\ Rest[i].handle = "m_events" /\ Rest[i].uid = u)
        BY <3>4 DEF OnWire
      <4> QED
        BY <2>2, <4>1, <4>2, WireForgotten
    <3>7. calendar' = Schedule(c, HANDLING, "HandlingArrivedComplete", n, u)
      BY <2>15 DEF TransmissionComplete
    <3> HIDE DEF u, c
    <3>8. \A m \in Node : WireInv(calendar', m, m_queue[m], given, Once(m))
      BY <2>5, <3>3, <3>5, <3>6, <3>7, WireOthers, Delays
    <3> QED
      BY <2>4, <2>15, <3>8 DEF TransmissionComplete, calls
  <2>16. CASE HandlingArrivedComplete(n)
    <3> DEFINE u == Head(calendar).uid
    <3>1. u \in Uid
      BY <1>1, <2>1, <2>16, RestCalendar
      DEF HandlingArrivedComplete, Runs, Calendar, Carrying
    <3>2. calendar' = Schedule(Rest, 0, "Receive", Peer(n), u)
      BY <2>16 DEF HandlingArrivedComplete
    <3> HIDE DEF u
    <3>3. \A m \in Node : WireInv(calendar', m, m_queue[m], given, Once(m))
      BY <2>2, <2>5, <3>1, <3>2, WireOthers, PeerType
    <3> QED
      BY <2>4, <2>16, <3>3 DEF HandlingArrivedComplete, calls
  <2>17. CASE ReceiveIntact(n)
    BY <2>2, <2>4, <2>17 DEF ReceiveIntact, calls
  <2>18. CASE ReceiveCorrupt(n)
    <3> DEFINE d == NotifyError(Rest, n)
    <3>1. Calendar(d) /\ \A m \in Node : WireInv(d, m, m_queue[m], given, Once(m))
      BY <2>2, HandlerCalendars, WireHandlers
    <3>2. calendar' = ErrorReset(d, n) /\ UNCHANGED <<m_queue, given, sent>>
      BY <2>18 DEF ReceiveCorrupt
    <3> HIDE DEF d
    <3> QED
      BY <2>4, <3>1, <3>2, WireHandlers
  <2>19. CASE ApproachLinkDisconnection(n)
    <3>1. \A m \in Node :
            WireInv(Timeout(Cancel(Rest, n, Handle), n, EXCHANGE_OF_SILENCE), m, m_queue[m], given, Once(m))
      BY <2>3, WireHandlers, Delays
    <3> QED
      BY <2>4, <2>19, <3>1 DEF ApproachLinkDisconnection, calls
  <2> QED
    BY <1>3, <2>7, <2>8, <2>9, <2>10, <2>11, <2>12, <2>13, <2>14, <2>15, <2>16, <2>17,
       <2>18, <2>19 DEF Step
<1>4. ASSUME NEW n \in Node, Send(n) PROVE UidInv'
  <2>1. PICK u \in {given'} \cup Range(sent[n]), d \in Gap :
          /\ CallAt(d)
          /\ sent' = [sent EXCEPT ![n] = Append(@, u)]
          /\ IF machineState[n] = "RUN"
               THEN Transmit(n, Enqueue(m_queue[n], u), Later(calendar, d))
             ELSE /\ m_queue' = [m_queue EXCEPT ![n] = Enqueue(m_queue[n], u)]
                  /\ calendar' = Later(calendar, d)
    BY <1>4 DEF Send
  <2> DEFINE q == Enqueue(m_queue[n], u)
             c == Later(calendar, d)
  <2>2. given' = given + 1 /\ given' \in Uid /\ given' \in Nat
    BY <1>1, <1>4, Delays DEF Send, Uid
  <2>3. /\ Calendar(c) /\ Len(c) = Len(calendar) /\ Len(calendar) \in Nat
        /\ \A i \in 1 .. Len(calendar) : SameEvent(c[i], calendar[i])
    BY <1>1, <2>1, CallCalendar, CalendarTypes
  <2>4. Embeds(c, calendar, [i \in 1 .. Len(calendar) |-> i])
    BY <2>3 DEF Embeds
  <2> HIDE DEF c
  <2>5. \A m \in Node : WireInv(c, m, m_queue[m], given, Once(m))
    BY <1>1, <2>3, <2>4, WireEmbedded
  <2>6. \A m \in Node : /\ sent[m] \in Seq(Uid) /\ Len(sent[m]) \in Nat
                        /\ DOMAIN sent[m] = 1 .. Len(sent[m])
                        /\ \A k \in 1 .. Len(sent[m]) : sent[m][k] \in Uid /\ sent[m][k] <= given
    <3> SUFFICES ASSUME NEW m \in Node
                 PROVE  /\ sent[m] \in Seq(Uid) /\ Len(sent[m]) \in Nat
                        /\ DOMAIN sent[m] = 1 .. Len(sent[m])
                        /\ \A k \in 1 .. Len(sent[m]) : sent[m][k] \in Uid /\ sent[m][k] <= given
      OBVIOUS
    <3>1. sent[m] \in Seq(Uid)
      BY DEF LinkTypes, DeviceInv
    <3>2. \A k \in 1 .. Len(sent[m]) : sent[m][k] \in Uid
      BY <3>1, ElementOfSeq
    <3> QED
      BY <3>1, <3>2, LenProperties DEF UidInv
  <2>7. /\ u \in Uid /\ u \in Nat /\ u <= given'
        /\ u = given' \/ \E k \in 1 .. Len(sent[n]) : sent[n][k] = u
    <3>1. CASE u = given'
      BY <2>2, <3>1
    <3>2. CASE u \in Range(sent[n])
      <4>1. PICK k \in 1 .. Len(sent[n]) : sent[n][k] = u
        BY <2>6, <3>2 DEF Range
      <4>2. u \in Uid /\ u <= given
        BY <2>6, <4>1
      <4> QED
        BY <1>1, <2>2, <4>1, <4>2 DEF Uid
    <3> QED
      BY <2>1, <3>1, <3>2
  <2> DEFINE s == Append(sent[n], u)
  <2>8. /\ Len(s) = Len(sent[n]) + 1 /\ DOMAIN s = 1 .. Len(s)
        /\ \A k \in 1 .. Len(sent[n]) : s[k] = sent[n][k]
        /\ s[Len(sent[n]) + 1] = u
        /\ sent'[n] = s /\ \A m \in Node : m # n => sent'[m] = sent[m]
    <3>1. s \in Seq(Uid)
      BY <2>6, <2>7, AppendProperties
    <3>2. sent \in [Node -> Seq(Uid)]
      BY DEF LinkTypes, DeviceInv
    <3> QED
      BY <2>1, <2>6, <2>7, <3>1, <3>2, AppendProperties, LenProperties
  <2> HIDE DEF s
  <2>9. \A m \in Node : \A k \in 1 .. Len(sent'[m]) : sent'[m][k] <= given'
    <3>1. \A k \in 1 .. Len(s) : s[k] <= given'
      <4>1. \A k \in 1 .. Len(s) : k \in 1 .. Len(sent[n]) \/ k = Len(sent[n]) + 1
        BY <2>6, <2>8
      <4> QED
        BY <1>1, <2>2, <2>6, <2>7, <2>8, <4>1 DEF Uid
    <3>2. ASSUME NEW m \in Node, m # n, NEW k \in 1 .. Len(sent'[m]) PROVE sent'[m][k] <= given'
      <4>1. sent[m][k] \in Uid /\ sent[m][k] <= given /\ sent'[m] = sent[m]
        BY <2>6, <2>8, <3>2
      <4> QED
        BY <1>1, <2>2, <4>1 DEF Uid
    <3> QED
      BY <2>8, <3>1, <3>2
  \* What is sent now was either never sent before or is sent again.
  <2>10. \A m \in Node : /\ Once(m)' \subseteq Once(m)
                         /\ m = n /\ u \in Once(m)' => u = given'
    <3>1. ASSUME NEW m \in Node, m # n PROVE Once(m)' = Once(m)
      BY <2>8, <3>1 DEF Once, Again
    <3>2. Once(n)' \subseteq Once(n)
      <4> SUFFICES ASSUME NEW v \in Uid, Again(n, v) PROVE Again(n, v)'
        BY DEF Once
      <4>1. PICK j \in 1 .. Len(sent[n]), k \in 1 .. Len(sent[n]) :
              j # k /\ sent[n][j] = v /\ sent[n][k] = v
        BY <2>6 DEF Again
      <4>2. j \in DOMAIN s /\ k \in DOMAIN s /\ s[j] = v /\ s[k] = v
        BY <2>6, <2>8, <4>1
      <4> QED
        BY <2>8, <4>1, <4>2 DEF Again
    <3>3. ASSUME u # given' PROVE Again(n, u)'
      <4>1. PICK k \in 1 .. Len(sent[n]) : sent[n][k] = u
        BY <2>7, <3>3
      <4> DEFINE l == Len(sent[n]) + 1
      <4>2. k \in DOMAIN s /\ s[k] = u /\ l \in DOMAIN s /\ s[l] = u /\ k # l
        BY <2>6, <2>8, <4>1
      <4> HIDE DEF l
      <4> QED
        BY <2>8, <4>2 DEF Again
    <3> QED
      BY <3>1, <3>2, <3>3 DEF Once
  <2>11. \A m \in Node : \A x \in 1 .. Len(m_queue[m]) : m_queue[m][x] \in Nat
    <3> SUFFICES ASSUME NEW m \in Node, NEW x \in 1 .. Len(m_queue[m])
                 PROVE  m_queue[m][x] \in Nat
      OBVIOUS
    <3>1. m_queue[m] \in Seq(Uid)
      BY <1>1
    <3>2. m_queue[m][x] \in Uid
      BY <3>1, ElementOfSeq
    <3> QED
      BY <3>2 DEF Uid
  <2>12. \A i \in 1 .. Len(c) : c[i].do = "TransmissionComplete" => c[i].uid \in Nat
    BY <2>3 DEF Calendar, Carrying, Uid
  <2>13. \A m \in Node : /\ QueueInv(m_queue[m], given', Once(m)')
                         /\ WireInv(c, m, m_queue[m], given', Once(m)')
    <3> SUFFICES ASSUME NEW m \in Node
                 PROVE  /\ QueueInv(m_queue[m], given', Once(m)')
                        /\ WireInv(c, m, m_queue[m], given', Once(m)')
      OBVIOUS
    <3>1. QueueInv(m_queue[m], given, Once(m)) /\ WireInv(c, m, m_queue[m], given, Once(m))
      BY <1>1, <2>5
    <3>2. Once(m)' \subseteq Once(m)
      BY <2>10
    <3>3. QueueInv(m_queue[m], given', Once(m)')
      BY <1>1, <2>2, <2>11, <3>1, <3>2 DEF QueueInv
    <3>4. \A i \in 1 .. Len(c) : OnWire(c[i], m) => c[i].uid <= given'
      BY <1>1, <2>2, <2>12, <3>1 DEF WireInv, OnWire
    <3> QED
      BY <3>1, <3>2, <3>3, <3>4 DEF WireInv
  <2>14. /\ q \in Seq(Uid) /\ QueueInv(q, given', Once(n)')
         /\ WireInv(c, n, q, given', Once(n)')
    <3>1. CASE Len(m_queue[n]) < QUEUE_SZ
      <4>1. q = Append(m_queue[n], u)
        BY <3>1 DEF Enqueue
      <4>2. /\ q \in Seq(Uid) /\ Len(q) = Len(m_queue[n]) + 1 /\ Len(m_queue[n]) \in Nat
            /\ \A x \in 1 .. Len(m_queue[n]) : q[x] = m_queue[n][x]
            /\ q[Len(m_queue[n]) + 1] = u
        BY <1>1, <2>7, <4>1, AppendProperties, LenProperties
      <4> HIDE DEF q
      <4>3. \A x \in 1 .. Len(q) : x \in 1 .. Len(m_queue[n]) \/ x = Len(m_queue[n]) + 1
        BY <4>2
      <4>4. u \in Once(n)' => \A x \in 1 .. Len(m_queue[n]) : m_queue[n][x] # u
        BY <1>1, <2>2, <2>10, <2>11 DEF QueueInv
      <4>5. u \in Once(n)' => \A i \in 1 .. Len(c) : OnWire(c[i], n) => c[i].uid # u
        BY <1>1, <2>2, <2>5, <2>10, <2>12 DEF WireInv, OnWire
      <4>6. QueueInv(m_queue[n], given', Once(n)') /\ WireInv(c, n, m_queue[n], given', Once(n)')
        BY <2>13
      <4>7. QueueInv(q, given', Once(n)')
        <5>1. \A x \in 1 .. Len(q) : q[x] <= given'
          BY <2>7, <4>2, <4>3, <4>6 DEF QueueInv
        <5>2. ASSUME NEW x \in 1 .. Len(q), NEW y \in 1 .. Len(q), x # y, q[x] \in Once(n)'
              PROVE  q[x] # q[y]
          <6>1. CASE x \in 1 .. Len(m_queue[n]) /\ y \in 1 .. Len(m_queue[n])
            BY <4>2, <4>6, <5>2, <6>1 DEF QueueInv
          <6>2. CASE x = Len(m_queue[n]) + 1 /\ y \in 1 .. Len(m_queue[n])
            BY <4>2, <4>4, <5>2, <6>2
          <6>3. CASE x \in 1 .. Len(m_queue[n]) /\ y = Len(m_queue[n]) + 1
            BY <4>2, <4>4, <5>2, <6>3
          <6> QED
            BY <4>3, <5>2, <6>1, <6>2, <6>3
        <5> QED
          BY <5>1, <5>2 DEF QueueInv
      <4>8. ASSUME NEW i \in 1 .. Len(c), OnWire(c[i], n), c[i].uid \in Once(n)',
                   NEW x \in 1 .. Len(q)
            PROVE  c[i].uid # q[x]
        <5>1. CASE x \in 1 .. Len(m_queue[n])
          BY <4>2, <4>6, <4>8, <5>1 DEF WireInv
        <5>2. CASE x = Len(m_queue[n]) + 1
          BY <4>2, <4>5, <4>8, <5>2
        <5> QED
          BY <4>3, <5>1, <5>2
      <4> QED
        BY <4>2, <4>6, <4>7, <4>8 DEF WireInv
    <3>2. CASE ~(Len(m_queue[n]) < QUEUE_SZ)
      <4>1. q = m_queue[n]
        BY <3>2 DEF Enqueue
      <4> QED
        BY <1>1, <2>13, <4>1
    <3> QED
      BY <3>1, <3>2
  <2>15. CASE machineState[n] = "RUN"
    <3>1. Transmit(n, q, c)
      BY <2>1, <2>15 DEF c
    <3> HIDE DEF q
    <3> QED
      BY <1>1, <2>2, <2>3, <2>9, <2>13, <2>14, <3>1, TransmitUid
  <2>16. CASE machineState[n] # "RUN"
    <3>1. m_queue' = [m_queue EXCEPT ![n] = q] /\ calendar' = c
      BY <2>1, <2>16 DEF c
    <3> HIDE DEF q
    <3> QED
      BY <1>1, <2>9, <2>13, <2>14, <3>1 DEF UidInv
  <2> QED
    BY <2>15, <2>16
<1>5. ASSUME NEW n \in Node, Shutdown(n) PROVE UidInv'
  BY <1>0, <1>5 DEF Shutdown, UidInv, calls
<1> QED
  BY <1>2, <1>3, <1>4, <1>5 DEF Next

\* No packet is given and none is on its way when the simulation begins.
LEMMA InitUid ==
  ASSUME Init
  PROVE  UidInv
<1>1. PICK n \in Node : calendar = Schedule(Schedule(<<>>, 0, "ErrorReset", n, NoUid),
                                            offset, "ErrorReset", Peer(n), NoUid)
  BY DEF Init
<1>2. offset \in Nat /\ Peer(n) \in Node /\ 0 \in Nat
  BY LinkAssumption, PeerType DEF Init
<1>3. /\ "ErrorReset" \in Handler \ Carrying /\ "ErrorReset" # "TransmissionComplete"
      /\ NoUid \in Uid \cup {NoUid}
  BY DEF Handler, Carrying
<1>4. Calendar(<<>>) /\ \A m \in Node : WireInv(<<>>, m, <<>>, 0, Once(m))
  BY EmptySeq DEF Calendar, InRunOrder, WireInv
<1> DEFINE d == Schedule(<<>>, 0, "ErrorReset", n, NoUid)
<1>5. Calendar(d) /\ \A m \in Node : WireInv(d, m, <<>>, 0, Once(m))
  BY <1>2, <1>3, <1>4, ScheduleCalendar, WireOthers
<1> HIDE DEF d
<1>6. \A m \in Node : WireInv(Schedule(d, offset, "ErrorReset", Peer(n), NoUid), m, <<>>, 0, Once(m))
  BY <1>2, <1>3, <1>5, WireOthers
<1>7. /\ \A m \in Node : WireInv(calendar, m, <<>>, 0, Once(m))
      /\ given = 0 /\ \A m \in Node : m_queue[m] = <<>> /\ sent[m] = <<>>
  BY <1>1, <1>6 DEF Init, d
<1>8. \A m \in Node : QueueInv(<<>>, 0, Once(m))
  BY EmptySeq DEF QueueInv
<1> QED
  BY <1>7, <1>8, EmptySeq DEF UidInv

LEMMA UidInvariant == Spec => [](LinkTypes /\ UidInv)
<1>1. LinkTypes /\ UidInv /\ [Next]_vars => LinkTypes' /\ UidInv'
  BY StepTypes, StepUid
<1>2. Init => LinkTypes /\ UidInv
  BY InitTypes, InitUid
<1> QED
  BY <1>1, <1>2, PTL DEF Spec

\* No packet of O is being transmitted by n.
Silent(c, n, O) == \A i \in 1 .. Len(c) : OnWire(c[i], n) => c[i].uid \notin O

LEMMA SilentAfterCancel ==
  ASSUME NEW c, Calendar(c), NEW n \in Node, NEW q, NEW g, NEW O, WireInv(c, n, q, g, O)
  PROVE  Silent(Cancel(c, n, {"m_events"}), n, O)
<1> DEFINE r == Cancel(c, n, {"m_events"})
<1>1. PICK f : Embeds(r, c, f) /\ \A i \in 1 .. Len(r) : ~Refers(c[f[i]], n, {"m_events"})
  BY CancelCalendar
<1> HIDE DEF r
<1> SUFFICES ASSUME NEW i \in 1 .. Len(r), OnWire(r[i], n), r[i].uid \in O PROVE FALSE
  BY DEF Silent, r
<1>2. f[i] \in 1 .. Len(c) /\ OnWire(c[f[i]], n) /\ c[f[i]].uid \in O
  BY <1>1 DEF Embeds, SameEvent, OnWire
<1>3. Refers(c[f[i]], n, {"m_events"})
  BY <1>2 DEF WireInv, OnWire, Refers
<1> QED
  BY <1>1, <1>3

\* Cancelling more, or scheduling something else, starts no transmission.
LEMMA SilentKept ==
  ASSUME NEW c, Calendar(c), NEW n \in Node, NEW O, Silent(c, n, O), NEW m \in Node
  PROVE  /\ \A H : Silent(Cancel(c, m, H), n, O)
         /\ \A delay \in Nat, do \in Handler \ Carrying :
              Silent(Schedule(c, delay, do, m, NoUid), n, O)
<1>1. ASSUME NEW H PROVE Silent(Cancel(c, m, H), n, O)
  <2> DEFINE r == Cancel(c, m, H)
  <2>1. PICK f : Embeds(r, c, f)
    BY CancelCalendar
  <2> HIDE DEF r
  <2>2. \A i \in 1 .. Len(r) : f[i] \in 1 .. Len(c) /\ SameEvent(r[i], c[f[i]])
    BY <2>1 DEF Embeds
  <2> QED
    BY <2>2 DEF Silent, OnWire, SameEvent, r
<1>2. ASSUME NEW delay \in Nat, NEW do \in Handler \ Carrying
      PROVE  Silent(Schedule(c, delay, do, m, NoUid), n, O)
  <2> DEFINE e == [do |-> do, dev |-> m, uid |-> NoUid, in |-> delay, handle |-> "none"]
             r == Insert(c, e)
  <2>1. e \in Event /\ ~OnWire(e, n)
    BY DEF Event, OnWire, Carrying
  <2>2. Len(c) \in Nat /\ c \in Seq(Event) /\ InRunOrder(c)
    BY CalendarTypes DEF Calendar
  <2>3. r = Schedule(c, delay, do, m, NoUid)
    BY DEF Schedule
  <2> HIDE DEF e
  <2>4. Len(r) = Len(c) + 1
    BY <2>1, <2>2, Inserted
  <2>5. PICK p \in 1 .. Len(c) + 1 : \A i \in 1 .. Len(c) + 1 :
          r[i] = IF i < p THEN c[i] ELSE IF i = p THEN e ELSE c[i - 1]
    BY <2>1, <2>2, Inserted
  <2> HIDE DEF r
  <2>6. ASSUME NEW i \in 1 .. Len(r), OnWire(r[i], n) PROVE r[i].uid \notin O
    <3>1. CASE i < p
      BY <2>2, <2>4, <2>5, <2>6, <3>1 DEF Silent
    <3>2. CASE i = p
      BY <2>1, <2>5, <2>6, <3>2
    <3>3. CASE p < i
      <4>1. i - 1 \in 1 .. Len(c) /\ r[i] = c[i - 1]
        BY <2>2, <2>4, <2>5, <3>3
      <4> QED
        BY <2>6, <4>1 DEF Silent
    <3> QED
      BY <2>4, <3>1, <3>2, <3>3
  <2> QED
    BY <2>3, <2>6 DEF Silent
<1> QED
  BY <1>1, <1>2

LEMMA NotifyErrorEmpties ==
  ASSUME LinkTypes, UidInv, NEW n \in Node, ReceiveCorrupt(n), NEW m \in Node
  PROVE  Calendar(calendar') /\ Silent(calendar', m, Once(m))
<1>1. calendar # <<>> /\ calendar' = ErrorReset(NotifyError(Rest, n), n)
  BY DEF ReceiveCorrupt, Runs
<1>2. Calendar(Rest) /\ \A k \in Node : WireInv(Rest, k, m_queue[k], given, Once(k))
  BY <1>1, RestCalendar, RestEmbeds, WireEmbedded DEF LinkTypes, UidInv
<1> DEFINE a == Cancel(Rest, n, {"m_events"})
           b == Cancel(a, Peer(n), {"m_events"})
           d == NotifyError(Rest, n)
<1>3. Peer(n) \in Node /\ (m = n \/ m = Peer(n))
  BY PeerType
<1>4. /\ Calendar(a) /\ Silent(a, n, Once(n))
      /\ \A k \in Node : WireInv(a, k, m_queue[k], given, Once(k))
  BY <1>2, HandlerCalendars, WireHandlers, SilentAfterCancel
<1>5. d = Schedule(b, APPROACH_TIME, "ApproachLinkDisconnection", Peer(n), NoUid)
  BY DEF NotifyError
<1> HIDE DEF a, b, d
<1>6. Calendar(b) /\ Silent(b, m, Once(m))
  BY <1>3, <1>4, HandlerCalendars, SilentAfterCancel, SilentKept DEF b
<1>7. {"ApproachLinkDisconnection", "ErrorWait"} \subseteq Handler \ Carrying
  BY DEF Handler, Carrying
<1>8. Calendar(d) /\ Silent(d, m, Once(m))
  BY <1>2, <1>3, <1>5, <1>6, <1>7, HandlerCalendars, SilentKept, Delays DEF d
<1>9. Calendar(calendar')
  BY <1>1, <1>8, HandlerCalendars DEF d
<1> DEFINE H == Handle \ {"stateChangeToErrorReset"}
<1>10. calendar' = Schedule(Cancel(d, n, H), SPW_HALF_DELAY, "ErrorWait", n, NoUid)
  BY <1>1 DEF ErrorReset, d
<1> HIDE DEF H
<1>11. Calendar(Cancel(d, n, H)) /\ Silent(Cancel(d, n, H), m, Once(m))
  BY <1>8, HandlerCalendars, SilentKept
<1> QED
  BY <1>7, <1>9, <1>10, <1>11, SilentKept, Delays

\* Once an error is noticed nothing that was being transmitted arrives, in
\* neither direction, but for packets that were sent again: whatever the traffic,
\* two transmissions of which the later takes the other's handle away are of one
\* packet (SpWChannel::NotifyError finds them only through m_events).
THEOREM ChannelEmptied == Spec => ErrorEmptiesChannel
<1>1. ASSUME LinkTypes, UidInv, [Next]_vars, errors' # errors, NEW m \in Node,
             NEW i \in Pending(m, {"TransmissionComplete"})'
      PROVE  Again(m, calendar'[i].uid)
  <2>1. PICK n \in Node : ReceiveCorrupt(n)
    BY <1>1 DEF Next, vars, calls, Step, ErrorResetSpWState, ErrorWaitSpWState, ReadySpWState,
                SendNull, ReceiveNull, SendFCT, ReceiveFCT, TransmitComplete,
                TransmissionComplete, HandlingArrivedComplete, ReceiveIntact,
                ApproachLinkDisconnection, Send, Shutdown
  <2>2. Calendar(calendar') /\ Silent(calendar', m, Once(m))
    BY <1>1, <2>1, NotifyErrorEmpties
  <2>3. DOMAIN calendar' = 1 .. Len(calendar')
    BY <2>2, CalendarTypes
  <2>4. i \in 1 .. Len(calendar') /\ OnWire(calendar'[i], m)
    BY <1>1, <2>3 DEF Pending, OnWire
  <2>5. calendar'[i].uid \in Uid /\ calendar'[i].uid \notin Once(m)
    BY <2>2, <2>4 DEF Silent, Calendar, Carrying, OnWire
  <2> QED
    BY <2>5 DEF Once
<1>2. LinkTypes /\ UidInv /\ [Next]_vars =>
        [errors' # errors => \A n \in Node : \A i \in Pending(n, {"TransmissionComplete"})' :
                               Again(n, calendar'[i].uid)]_vars
  BY <1>1
<1> QED
  BY <1>2, UidInvariant, PTL DEF Spec, ErrorEmptiesChannel

-----------------------------------------------------------------------------
(***************************************************************************)
(* Errors that come one at a time.  Nothing in the code keeps a device     *)
(* from being reset while a reset of it is under way: the event for        *)
(* ERROR_WAIT has no handle, and an approach of a disconnection cancels    *)
(* nothing of the other device.  What is on the calendar for a device is   *)
(* determined by the state it is in, as long as each reset ends before     *)
(* the next begins.                                                        *)
(***************************************************************************)

\* The event of Init has no handle, unlike the timeouts of the same handler.
Kind(e) == IF e.do = "ErrorReset" /\ e.handle = "none" THEN "Start" ELSE e.do

\* The events that move a device from state to state, of which there is one at
\* most, all the events that belong to a state, and the kinds of which only one
\* event is pending: the whole chain is one (called Start), any other its own.
Chain == {"Start", "ErrorReset", "ErrorWait", "Ready"}
Own == Chain \cup {"SendNull", "SendFCT", "TransmitComplete", "ApproachLinkDisconnection"}
Class(k) == IF k \in Chain THEN "Start" ELSE k

HandleOf(k) ==
  CASE k = "ErrorReset"       -> "stateChangeToErrorReset"
    [] k = "SendNull"         -> "sendNull"
    [] k = "SendFCT"          -> "sendFCT"
    [] k = "TransmitComplete" -> "transmit_complete_events"
    [] OTHER                  -> "none"

RightHandle(e) == IF e.do = "TransmissionComplete" THEN e.handle \in {"m_events", "none"}
                  ELSE e.handle = HandleOf(Kind(e))

\* What may be pending in state s.
Kinds(s) ==
  CASE s = "DOWN"        -> {"Start", "ApproachLinkDisconnection"}
    [] s = "ERROR_RESET" -> {"ErrorReset", "ErrorWait"}
    [] s = "ERROR_WAIT"  -> {"Ready"}
    [] s = "STARTED"     -> {"ErrorReset", "SendNull"}
    [] s = "CONNECTING"  -> {"ErrorReset", "SendFCT"}
    [] s = "RUN"         -> {"ApproachLinkDisconnection"}
    [] s = "BUSY"        -> {"TransmitComplete", "ApproachLinkDisconnection"}

\* Of the events that belong to a state, c has those of K for n.
Only(c, n, K) ==
  \A i \in 1 .. Len(c) : c[i].dev = n /\ Kind(c[i]) \in Own => Kind(c[i]) \in K

\* Each is alone and can be cancelled through its handle.
Tidy(c) ==
  /\ \A i \in 1 .. Len(c) : RightHandle(c[i])
  /\ \A i, j \in 1 .. Len(c) :
       c[i].dev = c[j].dev /\ Kind(c[i]) \in Own /\ Class(Kind(c[i])) = Class(Kind(c[j]))
         => i = j

Completes(c, n) == \E i \in 1 .. Len(c) : c[i].dev = n /\ c[i].do = "TransmitComplete"

\* The device that noticed an error is in ERROR_RESET until the other notices.
Ahead(c, n) ==
  \A i \in 1 .. Len(c) : c[i].dev = n /\ c[i].do = "ApproachLinkDisconnection" =>
    \E j \in 1 .. Len(c) : i < j /\ c[j].dev = Peer(n) /\ c[j].do = "ErrorWait"

\* Nothing has come from n, which has not been started, and nothing comes to it
\* that would reset it.
Fresh(c, n) ==
  \A i \in 1 .. Len(c) : /\ c[i].do \notin Carrying \cup {"ApproachLinkDisconnection"}
                         /\ ~(c[i].dev = Peer(n) /\ c[i].do = "ReceiveNull")

ChainInv ==
  /\ Tidy(calendar)
  /\ \A n \in Node :
       /\ Only(calendar, n, Kinds(machineState[n]))
       /\ machineState[n] = "BUSY" => Completes(calendar, n)
       /\ Ahead(calendar, n)
       /\ \/ Only(calendar, n, Own \ {"Start"})
          \/ /\ machineState[Peer(n)] \notin {"CONNECTING", "RUN", "BUSY"}
             /\ Fresh(calendar, n)

\* What happens to the other device m when the calendar c becomes r.
Undisturbed(c, r, m) ==
  /\ \A K : Only(c, m, K) => Only(r, m, K)
  /\ Completes(c, m) => Completes(r, m)
  /\ Ahead(c, m) => Ahead(r, m)

\* n has made r of c.
Handled(c, r, n) ==
  /\ Calendar(r) /\ Tidy(r)
  /\ \A m \in Node : m # n => Undisturbed(c, r, m)
  /\ Ahead(c, n) => Ahead(r, n)

Spared(c, r, n) == \A m \in Node : m # n /\ Fresh(c, m) => Fresh(r, m)

LEMMA HandledTwice ==
  ASSUME NEW a, NEW b, NEW c, NEW n, Handled(a, b, n), Handled(b, c, n)
  PROVE  Handled(a, c, n) /\ (Spared(a, b, n) /\ Spared(b, c, n) => Spared(a, c, n))
BY DEF Handled, Undisturbed, Spared

LEMMA TidyEmbedded ==
  ASSUME NEW c, Tidy(c), NEW r, Len(r) \in Nat, NEW f, Embeds(r, c, f)
  PROVE  /\ Tidy(r)
         /\ \A m, K : Only(c, m, K) => Only(r, m, K)
         /\ \A m : Fresh(c, m) => Fresh(r, m)
<1>1. \A i \in 1 .. Len(r) :
        /\ f[i] \in 1 .. Len(c) /\ r[i].do = c[f[i]].do /\ r[i].dev = c[f[i]].dev
        /\ r[i].handle = c[f[i]].handle
  BY DEF Embeds, SameEvent
<1>2. \A i \in 1 .. Len(r) : Kind(r[i]) = Kind(c[f[i]])
                             /\ (RightHandle(c[f[i]]) => RightHandle(r[i]))
  BY <1>1 DEF Kind, RightHandle
<1>3. ASSUME NEW i \in 1 .. Len(r), NEW j \in 1 .. Len(r), i # j PROVE f[i] # f[j]
  <2>1. i < j \/ j < i
    BY <1>3
  <2>2. f[i] < f[j] \/ f[j] < f[i]
    BY <2>1 DEF Embeds
  <2>3. f[i] \in Int /\ f[j] \in Int
    BY <1>1
  <2> QED
    BY <2>2, <2>3
<1>4. Tidy(r)
  <2>1. \A i \in 1 .. Len(r) : RightHandle(r[i])
    BY <1>1, <1>2 DEF Tidy
  <2>2. ASSUME NEW i \in 1 .. Len(r), NEW j \in 1 .. Len(r), r[i].dev = r[j].dev,
               Kind(r[i]) \in Own, Class(Kind(r[i])) = Class(Kind(r[j]))
        PROVE  i = j
    BY <1>1, <1>2, <1>3, <2>2 DEF Tidy
  <2> QED
    BY <2>1, <2>2 DEF Tidy
<1>5. ASSUME NEW m, NEW K, Only(c, m, K) PROVE Only(r, m, K)
  BY <1>1, <1>2, <1>5 DEF Only
<1>6. ASSUME NEW m, Fresh(c, m) PROVE Fresh(r, m)
  BY <1>1, <1>6 DEF Fresh
<1> QED
  BY <1>4, <1>5, <1>6

LEMMA TidyCancel ==
  ASSUME NEW c, Calendar(c), Tidy(c), NEW n \in Node, NEW H, "none" \notin H
  PROVE  /\ Handled(c, Cancel(c, n, H), n) /\ Spared(c, Cancel(c, n, H), n)
         /\ \A K : Only(c, n, K) => Only(Cancel(c, n, H), n, {k \in K : HandleOf(k) \notin H})
         /\ "transmit_complete_events" \notin H => Undisturbed(c, Cancel(c, n, H), n)
<1> DEFINE r == Cancel(c, n, H)
<1>1. PICK f : /\ Embeds(r, c, f)
               /\ \A i \in 1 .. Len(r) : ~Refers(c[f[i]], n, H)
               /\ \A i \in 1 .. Len(c) : ~Refers(c[i], n, H) => \E k \in 1 .. Len(r) : f[k] = i
  BY CancelCalendar
<1>2. Calendar(r) /\ Len(r) \in Nat /\ Len(c) \in Nat
  BY HandlerCalendars, CalendarTypes
<1> HIDE DEF r
<1>3. /\ Tidy(r)
      /\ \A m, K : Only(c, m, K) => Only(r, m, K)
      /\ \A m : Fresh(c, m) => Fresh(r, m)
  BY <1>1, <1>2, TidyEmbedded
<1>4. \A i \in 1 .. Len(r) :
        /\ f[i] \in 1 .. Len(c) /\ r[i].do = c[f[i]].do /\ r[i].dev = c[f[i]].dev
        /\ r[i].handle = c[f[i]].handle
  BY <1>1 DEF Embeds, SameEvent
<1>5. \A i \in 1 .. Len(c) : RightHandle(c[i])
  BY DEF Tidy
<1>6. ASSUME NEW m, Ahead(c, m) PROVE Ahead(r, m)
  <2> SUFFICES ASSUME NEW i \in 1 .. Len(r), r[i].dev = m, r[i].do = "ApproachLinkDisconnection"
               PROVE  \E j \in 1 .. Len(r) : i < j /\ r[j].dev = Peer(m) /\ r[j].do = "ErrorWait"
    BY DEF Ahead
  <2>1. PICK j \in 1 .. Len(c) : f[i] < j /\ c[j].dev = Peer(m) /\ c[j].do = "ErrorWait"
    BY <1>4, <1>6 DEF Ahead
  <2>2. c[j].handle = "none"
    BY <1>5, <2>1 DEF RightHandle, Kind, HandleOf
  <2>3. PICK k \in 1 .. Len(r) : f[k] = j
    BY <1>1, <2>2 DEF Refers
  <2>4. i < k
    <3>1. f[i] \in Int /\ f[k] \in Int
      BY <1>4
    <3>2. k < i => f[k] < f[i]
      BY <1>1 DEF Embeds
    <3> QED
      BY <2>1, <2>3, <3>1, <3>2
  <2> QED
    BY <1>4, <2>1, <2>3, <2>4
<1>7. ASSUME NEW m, m # n \/ "transmit_complete_events" \notin H, Completes(c, m)
      PROVE  Completes(r, m)
  <2>1. PICK i \in 1 .. Len(c) : c[i].dev = m /\ c[i].do = "TransmitComplete"
    BY <1>7 DEF Completes
  <2>2. c[i].handle = "transmit_complete_events"
    BY <1>5, <2>1 DEF RightHandle, Kind, HandleOf
  <2>3. PICK k \in 1 .. Len(r) : f[k] = i
    BY <1>1, <1>7, <2>1, <2>2 DEF Refers
  <2> QED
    BY <1>4, <2>1, <2>3 DEF Completes
<1>8. ASSUME NEW K, Only(c, n, K) PROVE Only(r, n, {k \in K : HandleOf(k) \notin H})
  <2> SUFFICES ASSUME NEW i \in 1 .. Len(r), r[i].dev = n, Kind(r[i]) \in Own
               PROVE  Kind(r[i]) \in K /\ HandleOf(Kind(r[i])) \notin H
    BY DEF Only
  <2>1. Kind(r[i]) \in K
    BY <1>3, <1>8 DEF Only
  <2>2. Kind(r[i]) = Kind(c[f[i]]) /\ RightHandle(c[f[i]])
    BY <1>4, <1>5 DEF Kind
  <2>3. c[f[i]].handle = HandleOf(Kind(r[i]))
    <3>1. c[f[i]].do # "TransmissionComplete"
      BY <2>2 DEF Kind, Own, Chain
    <3> QED
      BY <2>2, <3>1 DEF RightHandle
  <2>4. ~Refers(c[f[i]], n, H) /\ c[f[i]].dev = n
    BY <1>1, <1>4
  <2> QED
    BY <2>1, <2>3, <2>4 DEF Refers
<1> QED
  BY <1>2, <1>3, <1>6, <1>7, <1>8 DEF Handled, Spared, Undisturbed, r

\* The places the events have when e is inserted at p.
LEMMA InsertPlaces ==
  ASSUME NEW c, Calendar(c), NEW e \in Event
  PROVE  /\ Len(c) \in Nat /\ Len(Insert(c, e)) = Len(c) + 1
         /\ \E p \in 1 .. Len(c) + 1 : \E g \in [1 .. Len(c) -> 1 .. Len(c) + 1] :
              /\ Insert(c, e)[p] = e
              /\ \A i \in 1 .. Len(c) : g[i] # p /\ Insert(c, e)[g[i]] = c[i]
              /\ \A i, j \in 1 .. Len(c) : i < j => g[i] < g[j]
              /\ \A i \in 1 .. Len(c) + 1 : i # p => \E k \in 1 .. Len(c) : i = g[k]
              /\ \A i \in 1 .. Len(c) : c[i].in <= e.in => g[i] < p
<1> DEFINE r == Insert(c, e)
<1>1. c \in Seq(Event) /\ InRunOrder(c) /\ Len(c) \in Nat
  BY CalendarTypes DEF Calendar
<1>2. Len(r) = Len(c) + 1
  BY <1>1, Inserted
<1>3. PICK p \in 1 .. Len(c) + 1 :
        /\ \A i \in 1 .. Len(c) + 1 :
             r[i] = IF i < p THEN c[i] ELSE IF i = p THEN e ELSE c[i - 1]
        /\ \A i \in 1 .. Len(c) : c[i].in <= e.in <=> i < p
  BY <1>1, Inserted
<1> HIDE DEF r
<1> DEFINE g == [i \in 1 .. Len(c) |-> IF i < p THEN i ELSE i + 1]
<1>4. g \in [1 .. Len(c) -> 1 .. Len(c) + 1]
  BY <1>1
<1>5. ASSUME NEW i \in 1 .. Len(c) PROVE g[i] # p /\ r[g[i]] = c[i]
  <2>1. CASE i < p
    <3>1. g[i] = i /\ i \in 1 .. Len(c) + 1
      BY <1>1, <2>1
    <3> QED
      BY <1>3, <2>1, <3>1
  <2>2. CASE ~(i < p)
    <3>1. g[i] = i + 1 /\ i + 1 \in 1 .. Len(c) + 1 /\ p < i + 1
      BY <1>1, <2>2
    <3>2. r[i + 1] = c[i + 1 - 1] /\ i + 1 - 1 = i
      BY <1>3, <3>1
    <3> QED
      BY <3>1, <3>2
  <2> QED
    BY <2>1, <2>2
<1>6. \A i, j \in 1 .. Len(c) : i < j => g[i] < g[j]
  BY <1>1
<1>7. ASSUME NEW i \in 1 .. Len(c) + 1, i # p PROVE \E k \in 1 .. Len(c) : i = g[k]
  <2>1. CASE i < p
    <3>1. i \in 1 .. Len(c) /\ g[i] = i
      BY <1>1, <2>1
    <3> QED
      BY <3>1
  <2>2. CASE p < i
    <3>1. i - 1 \in 1 .. Len(c) /\ ~(i - 1 < p)
      BY <1>1, <2>2
    <3>2. g[i - 1] = i
      BY <3>1
    <3> QED
      BY <3>1, <3>2
  <2> QED
    BY <1>7, <2>1, <2>2
<1>8. \A i \in 1 .. Len(c) : c[i].in <= e.in => g[i] < p
  BY <1>3
<1>9. r[p] = e
  BY <1>3
<1> HIDE DEF g
<1> QED
  BY <1>1, <1>2, <1>4, <1>5, <1>6, <1>7, <1>8, <1>9 DEF r

LEMMA InsertKeeps ==
  ASSUME NEW c, Calendar(c), NEW e \in Event
  PROVE  /\ \A m, K : Only(c, m, K) /\ (e.dev = m /\ Kind(e) \in Own => Kind(e) \in K) =>
              Only(Insert(c, e), m, K)
         /\ \A m : Completes(c, m) => Completes(Insert(c, e), m)
         /\ e.do = "TransmitComplete" => Completes(Insert(c, e), e.dev)
         /\ \A m : Ahead(c, m) /\ ~(e.dev = m /\ e.do = "ApproachLinkDisconnection") =>
              Ahead(Insert(c, e), m)
         /\ \A m : /\ Fresh(c, m)
                   /\ e.do \notin Carrying \cup {"ApproachLinkDisconnection"}
                   /\ ~(e.dev = Peer(m) /\ e.do = "ReceiveNull")
                   => Fresh(Insert(c, e), m)
<1> DEFINE r == Insert(c, e)
<1>1. Len(c) \in Nat /\ Len(r) = Len(c) + 1
  BY InsertPlaces
<1>2. PICK p \in 1 .. Len(c) + 1 : \E g \in [1 .. Len(c) -> 1 .. Len(c) + 1] :
        /\ r[p] = e
        /\ \A i \in 1 .. Len(c) : g[i] # p /\ r[g[i]] = c[i]
        /\ \A i, j \in 1 .. Len(c) : i < j => g[i] < g[j]
        /\ \A i \in 1 .. Len(c) + 1 : i # p => \E k \in 1 .. Len(c) : i = g[k]
  BY InsertPlaces
<1>3. PICK g \in [1 .. Len(c) -> 1 .. Len(c) + 1] :
        /\ r[p] = e
        /\ \A i \in 1 .. Len(c) : g[i] # p /\ r[g[i]] = c[i]
        /\ \A i, j \in 1 .. Len(c) : i < j => g[i] < g[j]
        /\ \A i \in 1 .. Len(c) + 1 : i # p => \E k \in 1 .. Len(c) : i = g[k]
  BY <1>2
<1> HIDE DEF r
<1>4. ASSUME NEW i \in 1 .. Len(r)
      PROVE  r[i] = e \/ \E k \in 1 .. Len(c) : i = g[k] /\ r[i] = c[k]
  <2>1. i = p \/ \E k \in 1 .. Len(c) : i = g[k]
    BY <1>1, <1>3
  <2> QED
    BY <1>3, <2>1
<1>5. \A k \in 1 .. Len(c) : g[k] \in 1 .. Len(r)
  BY <1>1
<1>6. ASSUME NEW m, NEW K, Only(c, m, K), e.dev = m /\ Kind(e) \in Own => Kind(e) \in K
      PROVE  Only(r, m, K)
  BY <1>4, <1>6 DEF Only
<1>7. ASSUME NEW m, Completes(c, m) PROVE Completes(r, m)
  BY <1>3, <1>5, <1>7 DEF Completes
<1>8. ASSUME e.do = "TransmitComplete" PROVE Completes(r, e.dev)
  BY <1>1, <1>3, <1>8 DEF Completes
<1>9. ASSUME NEW m, Ahead(c, m), ~(e.dev = m /\ e.do = "ApproachLinkDisconnection")
      PROVE  Ahead(r, m)
  <2> SUFFICES ASSUME NEW i \in 1 .. Len(r), r[i].dev = m, r[i].do = "ApproachLinkDisconnection"
               PROVE  \E j \in 1 .. Len(r) : i < j /\ r[j].dev = Peer(m) /\ r[j].do = "ErrorWait"
    BY DEF Ahead
  <2>1. PICK k \in 1 .. Len(c) : i = g[k] /\ r[i] = c[k]
    BY <1>4, <1>9
  <2>2. PICK j \in 1 .. Len(c) : k < j /\ c[j].dev = Peer(m) /\ c[j].do = "ErrorWait"
    BY <1>9, <2>1 DEF Ahead
  <2>3. i < g[j] /\ r[g[j]] = c[j]
    BY <1>3, <2>1, <2>2
  <2> QED
    BY <1>5, <2>2, <2>3
<1>10. ASSUME NEW m, Fresh(c, m), e.do \notin Carrying \cup {"ApproachLinkDisconnection"},
              ~(e.dev = Peer(m) /\ e.do = "ReceiveNull")
       PROVE  Fresh(r, m)
  BY <1>4, <1>10 DEF Fresh
<1> QED
  BY <1>6, <1>7, <1>8, <1>9, <1>10 DEF r

LEMMA InsertTidy ==
  ASSUME NEW c, Calendar(c), Tidy(c), NEW e \in Event, RightHandle(e), NEW K,
         Only(c, e.dev, K), Kind(e) \in Own => \A k \in K : Class(k) # Class(Kind(e))
  PROVE  Tidy(Insert(c, e))
<1> DEFINE r == Insert(c, e)
<1>1. Len(c) \in Nat /\ Len(r) = Len(c) + 1
  BY InsertPlaces
<1>2. PICK p \in 1 .. Len(c) + 1 : \E g \in [1 .. Len(c) -> 1 .. Len(c) + 1] :
        /\ r[p] = e
        /\ \A i \in 1 .. Len(c) : g[i] # p /\ r[g[i]] = c[i]
        /\ \A i \in 1 .. Len(c) + 1 : i # p => \E k \in 1 .. Len(c) : i = g[k]
  BY InsertPlaces
<1>3. PICK g \in [1 .. Len(c) -> 1 .. Len(c) + 1] :
        /\ r[p] = e
        /\ \A i \in 1 .. Len(c) : g[i] # p /\ r[g[i]] = c[i]
        /\ \A i \in 1 .. Len(c) + 1 : i # p => \E k \in 1 .. Len(c) : i = g[k]
  BY <1>2
<1> HIDE DEF r
<1>4. \A i \in 1 .. Len(r) : i = p \/ \E k \in 1 .. Len(c) : i = g[k] /\ r[i] = c[k]
  BY <1>1, <1>3
<1>5. \A i \in 1 .. Len(r) : RightHandle(r[i])
  BY <1>3, <1>4 DEF Tidy
<1>6. \A k, l : Class(k) = Class(l) => (k \in Own <=> l \in Own)
  BY DEF Class, Own, Chain
<1>7. ASSUME Kind(e) \in Own, NEW k \in 1 .. Len(c), c[k].dev = e.dev,
             Class(Kind(c[k])) = Class(Kind(e))
      PROVE  FALSE
  <2>1. Kind(c[k]) \in Own
    BY <1>6, <1>7
  <2>2. Kind(c[k]) \in K
    BY <1>7, <2>1 DEF Only
  <2> QED
    BY <1>7, <2>2
<1>8. ASSUME NEW i \in 1 .. Len(r), NEW j \in 1 .. Len(r), r[i].dev = r[j].dev,
             Kind(r[i]) \in Own, Class(Kind(r[i])) = Class(Kind(r[j]))
      PROVE  i = j
  <2>1. CASE i = p /\ j = p
    BY <2>1
  <2>2. CASE i = p /\ j # p
    <3>1. PICK k \in 1 .. Len(c) : j = g[k] /\ r[j] = c[k]
      BY <1>4, <2>2
    <3> QED
      BY <1>3, <1>7, <1>8, <2>2, <3>1
  <2>3. CASE i # p /\ j = p
    <3>1. PICK k \in 1 .. Len(c) : i = g[k] /\ r[i] = c[k]
      BY <1>4, <2>3
    <3>2. Kind(e) \in Own
      BY <1>3, <1>6, <1>8, <2>3
    <3> QED
      BY <1>3, <1>7, <1>8, <2>3, <3>1, <3>2
  <2>4. CASE i # p /\ j # p
    <3>1. PICK k \in 1 .. Len(c) : i = g[k] /\ r[i] = c[k]
      BY <1>4, <2>4
    <3>2. PICK l \in 1 .. Len(c) : j = g[l] /\ r[j] = c[l]
      BY <1>4, <2>4
    <3>3. k = l
      BY <1>8, <3>1, <3>2 DEF Tidy
    <3> QED
      BY <3>1, <3>2, <3>3
  <2> QED
    BY <2>1, <2>2, <2>3, <2>4
<1> QED
  BY <1>5, <1>8 DEF Tidy, r

\* An assignment to a field that refers to no pending event forgets nothing.
LEMMA NothingForgotten ==
  ASSUME NEW c, Calendar(c), Tidy(c), NEW n, NEW K, Only(c, n, K), NEW h \in Handle, NEW u,
         \A k \in K : HandleOf(k) # h
  PROVE  Forget(c, n, h, u) = c
<1>1. c \in Seq(Event) /\ Len(c) \in Nat /\ DOMAIN c = 1 .. Len(c)
  BY CalendarTypes
<1>2. ASSUME NEW i \in 1 .. Len(c), c[i].dev = n PROVE c[i].handle # h
  <2>1. RightHandle(c[i])
    BY DEF Tidy
  <2>2. CASE Kind(c[i]) \in Own
    <3>1. Kind(c[i]) \in K
      BY <1>2, <2>2 DEF Only
    <3>2. c[i].do # "TransmissionComplete"
      BY <2>2 DEF Kind, Own, Chain
    <3> QED
      BY <2>1, <3>1, <3>2 DEF RightHandle
  <2>3. CASE Kind(c[i]) \notin Own
    BY <2>1, <2>3 DEF RightHandle, HandleOf, Own, Chain, Handle
  <2> QED
    BY <2>2, <2>3
<1>3. Forget(c, n, h, u) = [i \in 1 .. Len(c) |-> c[i]]
  BY <1>1, <1>2 DEF Forget
<1>4. c = [i \in 1 .. Len(c) |-> c[i]]
  BY <1>1
<1> QED
  BY <1>3, <1>4

\* A transmission that ends is of no state.
LEMMA WireForgottenTidy ==
  ASSUME NEW c, Calendar(c), Tidy(c), NEW n, NEW u
  PROVE  /\ Calendar(Forget(c, n, "m_events", u)) /\ Tidy(Forget(c, n, "m_events", u))
         /\ \A m : Undisturbed(c, Forget(c, n, "m_events", u), m)
<1> DEFINE r == Forget(c, n, "m_events", u)
<1>1. /\ Calendar(r) /\ Len(r) = Len(c)
      /\ \A i \in 1 .. Len(c) :
           IF c[i].dev = n /\ c[i].handle = "m_events" /\ c[i].uid = u
             THEN r[i].do = c[i].do /\ r[i].dev = c[i].dev /\ r[i].uid = c[i].uid
           ELSE r[i] = c[i]
  BY ForgetCalendar
<1>2. c \in Seq(Event) /\ Len(c) \in Nat /\ DOMAIN c = 1 .. Len(c)
      /\ \A i \in 1 .. Len(c) : c[i] \in Event
  BY CalendarTypes
<1>3. \A i \in 1 .. Len(c) : r[i] = c[i] \/ r[i].handle = "none"
  <2>1. \A i \in 1 .. Len(c) : r[i] = c[i] \/ r[i] = [c[i] EXCEPT !.handle = "none"]
    BY <1>2 DEF Forget
  <2> QED
    BY <1>2, <2>1 DEF Event
<1> HIDE DEF r
<1>4. ASSUME NEW i \in 1 .. Len(c)
      PROVE  /\ r[i].dev = c[i].dev /\ r[i].do = c[i].do /\ Kind(r[i]) = Kind(c[i])
             /\ RightHandle(r[i])
  <2>1. RightHandle(c[i])
    BY DEF Tidy
  <2>2. CASE r[i] = c[i]
    BY <2>1, <2>2
  <2>3. CASE r[i] # c[i]
    <3>1. c[i].handle = "m_events" /\ r[i].do = c[i].do /\ r[i].dev = c[i].dev
      BY <1>1, <2>3
    <3>2. c[i].do = "TransmissionComplete"
      BY <2>1, <3>1 DEF RightHandle, HandleOf
    <3> QED
      BY <1>3, <2>3, <3>1, <3>2 DEF RightHandle, Kind
  <2> QED
    BY <2>2, <2>3
<1>5. Tidy(r)
  BY <1>1, <1>4 DEF Tidy
<1>6. ASSUME NEW m PROVE Undisturbed(c, r, m)
  BY <1>1, <1>4 DEF Undisturbed, Only, Completes, Ahead
<1> QED
  BY <1>1, <1>5, <1>6 DEF r

\* The calendar once its first event has started.
LEMMA RestTidy ==
  ASSUME Calendar(calendar), calendar # <<>>, Tidy(calendar), NEW n, Head(calendar).dev = n
  PROVE  /\ Calendar(Rest) /\ Tidy(Rest)
         /\ \A m : \A K : Only(calendar, m, K) => Only(Rest, m, K)
         /\ \A m : Ahead(calendar, m) => Ahead(Rest, m)
         /\ \A m : Fresh(calendar, m) => Fresh(Rest, m)
         /\ \A m : m # n \/ Head(calendar).do # "TransmitComplete" =>
              (Completes(calendar, m) => Completes(Rest, m))
         /\ Kind(Head(calendar)) \in Own => \A K : Only(calendar, n, K) =>
              /\ Kind(Head(calendar)) \in K
              /\ Only(Rest, n, {k \in K : Class(k) # Class(Kind(Head(calendar)))})
         /\ \A m : Fresh(calendar, m) =>
              /\ Head(calendar).do \notin Carrying \cup {"ApproachLinkDisconnection"}
              /\ ~(n = Peer(m) /\ Head(calendar).do = "ReceiveNull")
<1> DEFINE c == calendar
           r == Rest
           h == Head(calendar)
<1>1. /\ Len(c) \in Nat \ {0} /\ h = c[1] /\ Calendar(r) /\ Len(r) = Len(c) - 1
      /\ \A i \in 1 .. Len(r) : i + 1 \in 1 .. Len(c) /\ SameEvent(r[i], c[i + 1])
  BY RestCalendar
<1>2. Embeds(r, c, [i \in 1 .. Len(r) |-> i + 1]) /\ Len(r) \in Nat
  BY RestEmbeds
<1> HIDE DEF c, r, h
<1>3. Tidy(c) /\ h.dev = n
  BY DEF c, h
<1>4. /\ Tidy(r)
      /\ \A m, K : Only(c, m, K) => Only(r, m, K)
      /\ \A m : Fresh(c, m) => Fresh(r, m)
  BY <1>2, <1>3, TidyEmbedded
<1>5. /\ 1 \in 1 .. Len(c)
      /\ \A i \in 2 .. Len(c) : i - 1 \in 1 .. Len(r) /\ r[i - 1].do = c[i].do
                                /\ r[i - 1].dev = c[i].dev
  <2>1. \A i \in 2 .. Len(c) : i - 1 \in 1 .. Len(r) /\ i - 1 + 1 = i
    BY <1>1
  <2> QED
    BY <1>1, <2>1 DEF SameEvent
<1>6. \A i \in 1 .. Len(r) :
        /\ i + 1 \in 1 .. Len(c) /\ i + 1 # 1
        /\ r[i].do = c[i + 1].do /\ r[i].dev = c[i + 1].dev /\ Kind(r[i]) = Kind(c[i + 1])
  BY <1>1 DEF SameEvent, Kind
<1>7. ASSUME NEW m, Ahead(c, m) PROVE Ahead(r, m)
  <2> SUFFICES ASSUME NEW i \in 1 .. Len(r), r[i].dev = m, r[i].do = "ApproachLinkDisconnection"
               PROVE  \E j \in 1 .. Len(r) : i < j /\ r[j].dev = Peer(m) /\ r[j].do = "ErrorWait"
    BY DEF Ahead
  <2>1. PICK j \in 1 .. Len(c) : i + 1 < j /\ c[j].dev = Peer(m) /\ c[j].do = "ErrorWait"
    BY <1>6, <1>7 DEF Ahead
  <2>2. j \in 2 .. Len(c) /\ i < j - 1
    BY <2>1
  <2> QED
    BY <1>5, <2>1, <2>2
<1>8. ASSUME NEW m, m # n \/ h.do # "TransmitComplete", Completes(c, m) PROVE Completes(r, m)
  <2>1. PICK i \in 1 .. Len(c) : c[i].dev = m /\ c[i].do = "TransmitComplete"
    BY <1>8 DEF Completes
  <2>2. i \in 2 .. Len(c)
    BY <1>1, <1>3, <1>8, <2>1
  <2> QED
    BY <1>5, <2>1, <2>2 DEF Completes
<1>9. ASSUME Kind(h) \in Own, NEW K, Only(c, n, K)
      PROVE  /\ Kind(h) \in K
             /\ Only(r, n, {k \in K : Class(k) # Class(Kind(h))})
  <2>1. Kind(h) \in K
    BY <1>1, <1>3, <1>5, <1>9 DEF Only
  <2>2. ASSUME NEW i \in 1 .. Len(r), r[i].dev = n, Kind(r[i]) \in Own
        PROVE  Kind(r[i]) \in K /\ Class(Kind(r[i])) # Class(Kind(h))
    <3>1. c[i + 1].dev = c[1].dev /\ Kind(c[i + 1]) \in Own
      BY <1>1, <1>3, <1>6, <2>2
    <3>2. Class(Kind(c[i + 1])) # Class(Kind(c[1]))
      BY <1>3, <1>5, <1>6, <3>1 DEF Tidy
    <3> QED
      BY <1>1, <1>4, <1>6, <1>9, <2>2, <3>2 DEF Only
  <2> QED
    BY <2>1, <2>2 DEF Only
<1>10. ASSUME NEW m, Fresh(c, m)
       PROVE  /\ h.do \notin Carrying \cup {"ApproachLinkDisconnection"}
              /\ ~(n = Peer(m) /\ h.do = "ReceiveNull")
  BY <1>1, <1>3, <1>5, <1>10 DEF Fresh
<1> QED
  BY <1>1, <1>4, <1>7, <1>8, <1>9, <1>10 DEF c, r, h

\* The calendar a call from outside finds.
LEMMA CallTidy ==
  ASSUME Calendar(calendar), Tidy(calendar), NEW d \in Gap, CallAt(d)
  PROVE  /\ Calendar(Later(calendar, d)) /\ Tidy(Later(calendar, d))
         /\ \A m : Undisturbed(calendar, Later(calendar, d), m)
         /\ \A m : Fresh(calendar, m) => Fresh(Later(calendar, d), m)
<1> DEFINE r == Later(calendar, d)
<1>1. /\ Calendar(r) /\ Len(r) = Len(calendar) /\ Len(calendar) \in Nat
      /\ \A i \in 1 .. Len(calendar) : SameEvent(r[i], calendar[i])
  BY CallCalendar, CalendarTypes
<1> HIDE DEF r
<1>2. Embeds(r, calendar, [i \in 1 .. Len(calendar) |-> i])
  BY <1>1 DEF Embeds
<1>3. /\ Tidy(r)
      /\ \A m, K : Only(calendar, m, K) => Only(r, m, K)
      /\ \A m : Fresh(calendar, m) => Fresh(r, m)
  BY <1>1, <1>2, TidyEmbedded
<1>4. \A m : Completes(calendar, m) => Completes(r, m)
  BY <1>1 DEF Completes, SameEvent
<1>5. \A m : Ahead(calendar, m) => Ahead(r, m)
  BY <1>1 DEF Ahead, SameEvent
<1> QED
  BY <1>1, <1>3, <1>4, <1>5 DEF r, Undisturbed

\* An event that is of no state.
LEMMA ScheduleNeutral ==
  ASSUME NEW c, Calendar(c), Tidy(c), NEW m \in Node, NEW delay \in Nat,
         NEW do \in Handler \ Own, NEW u \in Uid \cup {NoUid}, do \in Carrying => u \in Uid
  PROVE  /\ Calendar(Schedule(c, delay, do, m, u)) /\ Tidy(Schedule(c, delay, do, m, u))
         /\ \A k : Undisturbed(c, Schedule(c, delay, do, m, u), k)
         /\ \A k : Fresh(c, k) /\ do \notin Carrying /\ ~(m = Peer(k) /\ do = "ReceiveNull") =>
              Fresh(Schedule(c, delay, do, m, u), k)
<1> DEFINE e == [do |-> do, dev |-> m, uid |-> u, in |-> delay, handle |-> "none"]
           r == Insert(c, e)
<1>1. /\ e \in Event /\ e.do = do /\ e.dev = m /\ e.uid = u
      /\ Kind(e) \notin Own /\ RightHandle(e)
  <2>1. e \in Event /\ e.do = do /\ e.dev = m /\ e.uid = u /\ e.handle = "none"
    BY DEF Event
  <2> HIDE DEF e
  <2>2. Kind(e) \notin Own
    BY <2>1 DEF Kind, Own, Chain
  <2>3. HandleOf(Kind(e)) = "none"
    BY <2>2 DEF HandleOf, Own, Chain
  <2> QED
    BY <2>1, <2>2, <2>3 DEF RightHandle
<1>2. r = Schedule(c, delay, do, m, u)
  BY DEF Schedule
<1>3. do # "ApproachLinkDisconnection"
  BY DEF Own
<1> HIDE DEF e
<1>4. Calendar(r)
  BY <1>1, InsertCalendar
<1>5. Only(c, m, Own)
  BY DEF Only
<1>6. Tidy(r)
  BY <1>1, <1>5, InsertTidy
<1>7. \A k : Undisturbed(c, r, k)
  BY <1>1, <1>3, InsertKeeps DEF Undisturbed
<1>8. \A k : Fresh(c, k) /\ do \notin Carrying /\ ~(m = Peer(k) /\ do = "ReceiveNull") =>
        Fresh(r, k)
  BY <1>1, <1>3, InsertKeeps
<1> HIDE DEF r
<1> QED
  BY <1>2, <1>4, <1>6, <1>7, <1>8

\* An event of a state, inserted into a calendar that has none of its class.
LEMMA InsertOwn ==
  ASSUME NEW c, Calendar(c), Tidy(c), NEW n \in Node, NEW e \in Event, e.dev = n,
         e.do \notin Carrying \cup {"ReceiveNull", "ApproachLinkDisconnection"},
         Kind(e) \in Own, RightHandle(e),
         NEW K, Only(c, n, K), \A k \in K : Class(k) # Class(Kind(e))
  PROVE  /\ Handled(c, Insert(c, e), n) /\ Spared(c, Insert(c, e), n)
         /\ Only(Insert(c, e), n, K \cup {Kind(e)})
         /\ Completes(c, n) => Completes(Insert(c, e), n)
<1> DEFINE r == Insert(c, e)
<1>1. Calendar(r)
  BY InsertCalendar
<1>2. Tidy(r)
  BY InsertTidy
<1>3. Only(c, n, K \cup {Kind(e)})
  BY DEF Only
<1>4. Only(r, n, K \cup {Kind(e)}) /\ (Completes(c, n) => Completes(r, n))
  BY <1>3, InsertKeeps
<1>5. \A m \in Node : m # n => Undisturbed(c, r, m)
  BY InsertKeeps DEF Undisturbed
<1>6. (Ahead(c, n) => Ahead(r, n)) /\ \A m : Fresh(c, m) => Fresh(r, m)
  BY InsertKeeps
<1> HIDE DEF r
<1> QED
  BY <1>1, <1>2, <1>4, <1>5, <1>6 DEF Handled, Spared, r

\* A change of state that cannot be cancelled.
LEMMA ScheduleState ==
  ASSUME NEW c, Calendar(c), Tidy(c), NEW n \in Node, NEW delay \in Nat,
         NEW do \in {"ErrorWait", "Ready"}, NEW K, Only(c, n, K), K \cap Chain = {}
  PROVE  /\ Handled(c, Schedule(c, delay, do, n, NoUid), n)
         /\ Spared(c, Schedule(c, delay, do, n, NoUid), n)
         /\ Only(Schedule(c, delay, do, n, NoUid), n, K \cup {do})
<1> DEFINE e == [do |-> do, dev |-> n, uid |-> NoUid, in |-> delay, handle |-> "none"]
<1>1. /\ e \in Event /\ e.dev = n /\ e.do = do /\ e.handle = "none" /\ Kind(e) = do
  BY DEF Event, Handler, Kind
<1>2. Insert(c, e) = Schedule(c, delay, do, n, NoUid)
  BY DEF Schedule
<1> HIDE DEF e
<1>3. do \in Own /\ do \notin Carrying \cup {"ReceiveNull", "ApproachLinkDisconnection"}
  BY DEF Own, Chain, Carrying
<1>4. RightHandle(e)
  BY <1>1 DEF RightHandle, HandleOf
<1>5. \A k \in K : Class(k) # Class(do)
  BY DEF Class, Chain
<1>6. /\ Handled(c, Insert(c, e), n) /\ Spared(c, Insert(c, e), n)
      /\ Only(Insert(c, e), n, K \cup {Kind(e)})
  BY <1>1, <1>3, <1>4, <1>5, InsertOwn
<1> QED
  BY <1>1, <1>2, <1>6

\* An event that can be cancelled.
LEMMA ScheduleOwn ==
  ASSUME NEW c, Calendar(c), Tidy(c), NEW n \in Node, NEW delay \in Nat,
         NEW do \in {"ErrorReset", "SendNull", "SendFCT", "TransmitComplete"},
         NEW u \in Uid \cup {NoUid}, NEW K \in SUBSET Own, Only(c, n, K),
         \A k \in K : Class(k) # Class(do)
  PROVE  /\ Handled(c, ScheduleAs(HandleOf(do), c, delay, do, n, u), n)
         /\ Spared(c, ScheduleAs(HandleOf(do), c, delay, do, n, u), n)
         /\ Only(ScheduleAs(HandleOf(do), c, delay, do, n, u), n, K \cup {do})
         /\ do = "TransmitComplete" =>
              Completes(ScheduleAs(HandleOf(do), c, delay, do, n, u), n)
<1> DEFINE h == HandleOf(do)
           e == [do |-> do, dev |-> n, uid |-> u, in |-> delay, handle |-> h]
<1>1. h \in Handle
  BY DEF HandleOf, Handle
<1>2. \A k \in K : HandleOf(k) # h
  BY DEF HandleOf, Class, Own, Chain
<1>3. Forget(c, n, h, u) = c
  BY <1>1, <1>2, NothingForgotten
<1>4. Insert(c, e) = ScheduleAs(h, c, delay, do, n, u)
  BY <1>3 DEF ScheduleAs
<1>5. h # "none"
  BY <1>1 DEF Handle
<1> HIDE DEF h
<1>6. /\ e \in Event /\ e.dev = n /\ e.do = do /\ e.handle = h
  BY <1>1 DEF Event, Handler
<1> HIDE DEF e
<1>7. Kind(e) = do
  BY <1>5, <1>6 DEF Kind
<1>8. do \in Own /\ do \notin Carrying \cup {"ReceiveNull", "ApproachLinkDisconnection"}
  BY DEF Own, Chain, Carrying
<1>9. RightHandle(e)
  BY <1>6, <1>7, <1>8 DEF RightHandle, h, Carrying
<1>10. /\ Handled(c, Insert(c, e), n) /\ Spared(c, Insert(c, e), n)
       /\ Only(Insert(c, e), n, K \cup {Kind(e)})
  BY <1>6, <1>7, <1>8, <1>9, InsertOwn
<1>11. do = "TransmitComplete" => Completes(Insert(c, e), n)
  BY <1>6, InsertKeeps
<1> QED
  BY <1>4, <1>7, <1>10, <1>11 DEF h

\* Reset of a device that has no change of state pending.
LEMMA ErrorResetHandled ==
  ASSUME NEW c, Calendar(c), Tidy(c), NEW n \in Node,
         NEW K \in SUBSET {"SendNull", "SendFCT", "TransmitComplete"}, Only(c, n, K)
  PROVE  /\ Handled(c, ErrorReset(c, n), n) /\ Spared(c, ErrorReset(c, n), n)
         /\ Only(ErrorReset(c, n), n, {"ErrorWait"})
<1> DEFINE H == Handle \ {"stateChangeToErrorReset"}
           b == Cancel(c, n, H)
<1>1. "none" \notin H /\ {k \in K : HandleOf(k) \notin H} = {}
  BY DEF Handle, HandleOf
<1>2. ErrorReset(c, n) = Schedule(b, SPW_HALF_DELAY, "ErrorWait", n, NoUid)
  BY DEF ErrorReset
<1> HIDE DEF H
<1>3. Handled(c, b, n) /\ Spared(c, b, n) /\ Only(b, n, {})
  BY <1>1, TidyCancel
<1> HIDE DEF b
<1>4. Calendar(b) /\ Tidy(b)
  BY <1>3 DEF Handled
<1>5. /\ Handled(b, ErrorReset(c, n), n) /\ Spared(b, ErrorReset(c, n), n)
      /\ Only(ErrorReset(c, n), n, {} \cup {"ErrorWait"})
  BY <1>2, <1>3, <1>4, ScheduleState, Delays
<1> QED
  BY <1>3, <1>5, HandledTwice

\* A timeout, which replaces the one that is pending.
LEMMA TimeoutHandled ==
  ASSUME NEW c, Calendar(c), Tidy(c), NEW n \in Node, NEW delay \in Nat,
         NEW K \in SUBSET (Own \ {"Start", "ErrorWait", "Ready"}), Only(c, n, K)
  PROVE  /\ Handled(c, Timeout(c, n, delay), n) /\ Spared(c, Timeout(c, n, delay), n)
         /\ Only(Timeout(c, n, delay), n, K \cup {"ErrorReset"})
<1> DEFINE H == {"stateChangeToErrorReset"}
           L == {k \in K : HandleOf(k) \notin H}
           b == Cancel(c, n, H)
<1>1. "none" \notin H /\ L \in SUBSET Own /\ \A k \in L : Class(k) # Class("ErrorReset")
  BY DEF Own, HandleOf, Class, Chain
<1>2. Timeout(c, n, delay) =
        ScheduleAs(HandleOf("ErrorReset"), b, delay, "ErrorReset", n, NoUid)
  BY DEF Timeout, HandleOf
<1>3. Handled(c, b, n) /\ Spared(c, b, n) /\ Only(b, n, L)
  BY <1>1, TidyCancel
<1> HIDE DEF b
<1>4. Calendar(b) /\ Tidy(b)
  BY <1>3 DEF Handled
<1>5. L \subseteq K
  OBVIOUS
<1> HIDE DEF L
<1>6. /\ Handled(b, Timeout(c, n, delay), n) /\ Spared(b, Timeout(c, n, delay), n)
      /\ Only(Timeout(c, n, delay), n, L \cup {"ErrorReset"})
  BY <1>1, <1>2, <1>3, <1>4, ScheduleOwn
<1>7. Only(Timeout(c, n, delay), n, K \cup {"ErrorReset"})
  BY <1>5, <1>6 DEF Only
<1> QED
  BY <1>3, <1>6, <1>7, HandledTwice

LEMMA StartUpHandled ==
  ASSUME NEW c, Calendar(c), Tidy(c), NEW n \in Node
  PROVE  /\ Only(c, n, {}) => /\ Handled(c, Started(c, n), n) /\ Spared(c, Started(c, n), n)
                              /\ Only(Started(c, n), n, {"ErrorReset", "SendNull"})
         /\ Only(c, n, {"ErrorReset"}) => /\ Handled(c, Connecting(c, n), n)
                                          /\ Only(Connecting(c, n), n, {"ErrorReset", "SendFCT"})
<1> DEFINE t == Timeout(c, n, SPW_DELAY)
           K == {"ErrorReset"}
<1>1. K \in SUBSET Own /\ \A k \in K : Class(k) # Class("SendNull") /\ Class(k) # Class("SendFCT")
  BY DEF Own, Chain, Class
<1>2. /\ Started(c, n) = ScheduleAs(HandleOf("SendNull"), t, 0, "SendNull", n, NoUid)
      /\ Connecting(c, n) = ScheduleAs(HandleOf("SendFCT"), t, 0, "SendFCT", n, NoUid)
  BY DEF Started, Connecting, HandleOf
<1>3. Only(c, n, {}) => Only(c, n, K)
  BY DEF Only
<1>4. ASSUME Only(c, n, K) PROVE Handled(c, t, n) /\ Spared(c, t, n) /\ Only(t, n, K)
  <2>1. K \in SUBSET (Own \ {"Start", "ErrorWait", "Ready"}) /\ K \cup {"ErrorReset"} = K
    BY DEF Own, Chain
  <2> QED
    BY <1>4, <2>1, TimeoutHandled, Delays
<1> HIDE DEF t
<1>5. ASSUME Only(c, n, K)
      PROVE  /\ Handled(c, Started(c, n), n) /\ Spared(c, Started(c, n), n)
             /\ Only(Started(c, n), n, K \cup {"SendNull"})
             /\ Handled(c, Connecting(c, n), n) /\ Only(Connecting(c, n), n, K \cup {"SendFCT"})
  <2>1. Handled(c, t, n) /\ Spared(c, t, n) /\ Only(t, n, K) /\ Calendar(t) /\ Tidy(t)
    BY <1>4, <1>5 DEF Handled
  <2> HIDE DEF K
  <2>2. /\ Handled(t, Started(c, n), n) /\ Spared(t, Started(c, n), n)
        /\ Only(Started(c, n), n, K \cup {"SendNull"})
    BY <1>1, <1>2, <2>1, ScheduleOwn
  <2>3. Handled(t, Connecting(c, n), n) /\ Only(Connecting(c, n), n, K \cup {"SendFCT"})
    BY <1>1, <1>2, <2>1, ScheduleOwn
  <2> QED
    BY <2>1, <2>2, <2>3, HandledTwice
<1>6. K \cup {"SendNull"} = {"ErrorReset", "SendNull"} /\ K \cup {"SendFCT"} = {"ErrorReset", "SendFCT"}
  OBVIOUS
<1> QED
  BY <1>3, <1>5, <1>6

\* A transmission of n begins.
LEMMA TransmitStartHandled ==
  ASSUME NEW c, Calendar(c), Tidy(c), NEW n \in Node, NEW u \in Uid, txTime \in Traffic,
         NEW K \in SUBSET Own, Only(c, n, K), "TransmitComplete" \notin K
  PROVE  /\ Handled(c, TransmitStart(c, n, u), n)
         /\ Only(TransmitStart(c, n, u), n, K \cup {"TransmitComplete"})
         /\ Completes(TransmitStart(c, n, u), n)
<1> DEFINE a == ScheduleAs("transmit_complete_events", c, txTime[u], "TransmitComplete", n, u)
           b == Forget(a, n, "m_events", u)
           e == [do |-> "TransmissionComplete", dev |-> n, uid |-> u,
                 in |-> txTime[u] + DELAY, handle |-> "m_events"]
           r == Insert(b, e)
<1>1. txTime[u] \in Nat /\ txTime[u] + DELAY \in Nat
  BY Delays, LinkAssumption
<1>2. /\ HandleOf("TransmitComplete") = "transmit_complete_events"
      /\ \A k \in K : Class(k) # Class("TransmitComplete")
  BY DEF HandleOf, Class, Chain
<1>3. Handled(c, a, n) /\ Only(a, n, K \cup {"TransmitComplete"}) /\ Completes(a, n)
  BY <1>1, <1>2, ScheduleOwn
<1>4. /\ e \in Event /\ e.dev = n /\ e.do = "TransmissionComplete" /\ e.uid = u
      /\ e.handle = "m_events"
  BY <1>1 DEF Event, Handler
<1>5. r = TransmitStart(c, n, u)
  BY DEF TransmitStart, OntoWire, ScheduleAs
<1> HIDE DEF a, e
<1>6. Calendar(a) /\ Tidy(a)
  BY <1>3 DEF Handled
<1>7. Calendar(b) /\ Tidy(b) /\ \A m : Undisturbed(a, b, m)
  BY <1>6, WireForgottenTidy
<1> HIDE DEF b
<1>8. Kind(e) \notin Own /\ RightHandle(e)
  BY <1>4 DEF Kind, Own, Chain, RightHandle
<1>9. Only(b, n, Own)
  BY DEF Only
<1>10. Tidy(r)
  BY <1>4, <1>7, <1>8, <1>9, InsertTidy
<1>11. Calendar(r)
  BY <1>4, <1>7, InsertCalendar
<1>12. \A m : Undisturbed(b, r, m)
  BY <1>4, <1>7, <1>8, InsertKeeps DEF Undisturbed
<1> HIDE DEF r
<1>13. Handled(c, r, n)
  BY <1>3, <1>7, <1>10, <1>11, <1>12 DEF Handled, Undisturbed
<1>14. Only(r, n, K \cup {"TransmitComplete"}) /\ Completes(r, n)
  BY <1>3, <1>7, <1>12 DEF Undisturbed
<1> QED
  BY <1>5, <1>13, <1>14

\* n is ready: it has nothing pending but that the other device noticed an
\* error.
LEMMA TransmitHandled ==
  ASSUME NEW c, Calendar(c), Tidy(c), NEW n \in Node, NEW q \in Seq(Uid), txTime \in Traffic,
         machineState \in [Node -> MachineState], Transmit(n, q, c),
         Only(c, n, {"ApproachLinkDisconnection"})
  PROVE  /\ machineState'[n] \in {"RUN", "BUSY"}
         /\ machineState' = [machineState EXCEPT ![n] = machineState'[n]]
         /\ Handled(c, calendar', n)
         /\ Only(calendar', n, Kinds(machineState'[n]))
         /\ machineState'[n] = "BUSY" => Completes(calendar', n)
<1> DEFINE K == {"ApproachLinkDisconnection"}
<1>1. CASE q = <<>>
  <2>1. /\ machineState' = [machineState EXCEPT ![n] = "RUN"] /\ calendar' = c
        /\ machineState'[n] = "RUN"
    BY <1>1 DEF Transmit
  <2>2. Handled(c, c, n)
    BY DEF Handled, Undisturbed
  <2> QED
    BY <2>1, <2>2 DEF Kinds
<1>2. CASE q # <<>>
  <2>1. Head(q) \in Uid
    BY <1>2, HeadTailProperties
  <2>2. /\ machineState' = [machineState EXCEPT ![n] = "BUSY"]
        /\ calendar' = TransmitStart(c, n, Head(q)) /\ machineState'[n] = "BUSY"
    BY <1>2 DEF Transmit
  <2>3. K \in SUBSET Own /\ "TransmitComplete" \notin K
    BY DEF Own
  <2>4. K \cup {"TransmitComplete"} = Kinds("BUSY")
    BY DEF Kinds
  <2> HIDE DEF K
  <2>5. Only(c, n, K)
    BY DEF K
  <2>6. /\ Handled(c, calendar', n) /\ Only(calendar', n, K \cup {"TransmitComplete"})
        /\ Completes(calendar', n)
    BY <2>1, <2>2, <2>3, <2>5, TransmitStartHandled
  <2> QED
    BY <2>2, <2>4, <2>6
<1> QED
  BY <1>1, <1>2

LEMMA PeerOfPeer ==
  ASSUME NEW n \in Node
  PROVE  Peer(Peer(n)) = n /\ Peer(n) \in Node /\ Peer(n) # n
BY PeerType

\* n notices an error when no reset is under way: the approach of the
\* disconnection comes before n leaves ERROR_RESET.
LEMMA CorruptHandled ==
  ASSUME APPROACH_TIME <= SPW_HALF_DELAY, NEW c, Calendar(c), Tidy(c), NEW n \in Node,
         Only(c, n, {"TransmitComplete"}), Only(c, Peer(n), {"TransmitComplete"})
  PROVE  LET r == ErrorReset(NotifyError(c, n), n)
         IN  /\ Tidy(r) /\ Only(r, n, {"ErrorWait"})
             /\ Only(r, Peer(n), {"TransmitComplete", "ApproachLinkDisconnection"})
             /\ \A K : Only(c, Peer(n), K) =>
                  Only(r, Peer(n), K \cup {"ApproachLinkDisconnection"})
             /\ Completes(c, Peer(n)) => Completes(r, Peer(n))
             /\ Ahead(r, n) /\ Ahead(r, Peer(n))
<1> DEFINE m == Peer(n)
           a == Cancel(c, n, {"m_events"})
           b == Cancel(a, m, {"m_events"})
           e == [do |-> "ApproachLinkDisconnection", dev |-> m, uid |-> NoUid,
                 in |-> APPROACH_TIME, handle |-> "none"]
           d == Insert(b, e)
           H == Handle \ {"stateChangeToErrorReset"}
           x == Cancel(d, n, H)
           w == [do |-> "ErrorWait", dev |-> n, uid |-> NoUid, in |-> SPW_HALF_DELAY,
                 handle |-> "none"]
           r == Insert(x, w)
<1>0. m \in Node /\ m # n /\ Peer(m) = n
  BY PeerOfPeer
<1>1. r = ErrorReset(NotifyError(c, n), n)
  BY DEF ErrorReset, NotifyError, Schedule
<1>2. /\ e \in Event /\ e.dev = m /\ e.do = "ApproachLinkDisconnection" /\ e.in = APPROACH_TIME
      /\ e.handle = "none" /\ Kind(e) = e.do
  BY <1>0, Delays DEF Event, Handler, Kind
<1>3. /\ w \in Event /\ w.dev = n /\ w.do = "ErrorWait" /\ w.in = SPW_HALF_DELAY
      /\ w.handle = "none" /\ Kind(w) = w.do
  BY Delays DEF Event, Handler, Kind
<1>4. "none" \notin {"m_events"} /\ "transmit_complete_events" \notin {"m_events"} /\ "none" \notin H
  BY DEF Handle
<1>5. {k \in {"TransmitComplete"} : HandleOf(k) \notin H} = {}
  BY DEF HandleOf, Handle
<1>6. RightHandle(e) /\ RightHandle(w) /\ Kind(e) \in Own /\ Kind(w) \in Own
  BY <1>2, <1>3 DEF RightHandle, HandleOf, Own, Chain
<1> HIDE DEF m, e, w, H
<1>7. /\ Calendar(a) /\ Tidy(a) /\ Undisturbed(c, a, m) /\ Undisturbed(c, a, n)
  BY <1>0, <1>4, TidyCancel DEF Handled
<1> HIDE DEF a
<1>8. Calendar(b) /\ Tidy(b) /\ Undisturbed(a, b, m) /\ Undisturbed(a, b, n)
  BY <1>0, <1>4, <1>7, TidyCancel DEF Handled
<1> HIDE DEF b
<1>9. Only(b, n, {"TransmitComplete"}) /\ Only(b, m, {"TransmitComplete"})
  BY <1>7, <1>8 DEF Undisturbed, m
<1>10. Calendar(d)
  BY <1>2, <1>8, InsertCalendar DEF Carrying
<1>11. Tidy(d)
  <2>1. \A k \in {"TransmitComplete"} : Class(k) # Class(Kind(e))
    BY <1>2 DEF Class, Chain
  <2> QED
    BY <1>2, <1>6, <1>8, <1>9, <2>1, InsertTidy
<1>12. /\ Only(d, n, {"TransmitComplete"})
       /\ \A K : Only(b, m, K) => Only(d, m, K \cup {"ApproachLinkDisconnection"})
       /\ Completes(b, m) => Completes(d, m)
  <2>1. \A K : Only(b, m, K) => Only(b, m, K \cup {"ApproachLinkDisconnection"})
    BY DEF Only
  <2> QED
    BY <1>0, <1>2, <1>8, <1>9, <2>1, InsertKeeps
<1>13. \A i \in 1 .. Len(d) : d[i].dev = m /\ d[i].do = "ApproachLinkDisconnection" =>
         d[i].in = APPROACH_TIME
  <2>1. Len(d) = Len(b) + 1
    BY <1>2, <1>8, InsertPlaces
  <2>2. PICK p \in 1 .. Len(b) + 1 : \E g \in [1 .. Len(b) -> 1 .. Len(b) + 1] :
          /\ d[p] = e
          /\ \A i \in 1 .. Len(b) : d[g[i]] = b[i]
          /\ \A i \in 1 .. Len(b) + 1 : i # p => \E k \in 1 .. Len(b) : i = g[k]
    BY <1>2, <1>8, InsertPlaces
  <2>3. \A i \in 1 .. Len(d) : d[i] = e \/ \E k \in 1 .. Len(b) : d[i] = b[k]
    BY <2>1, <2>2, SMTT(20)
  <2>4. \A k \in 1 .. Len(b) : ~(b[k].dev = m /\ b[k].do = "ApproachLinkDisconnection")
    BY <1>9 DEF Only, Kind, Own
  <2> QED
    BY <1>2, <2>3, <2>4
<1>14. d \in Seq(Event)
  BY <1>10, CalendarTypes
<1> HIDE DEF d
<1>15. /\ Calendar(x) /\ Tidy(x) /\ Undisturbed(d, x, m) /\ Only(x, n, {})
  BY <1>0, <1>4, <1>5, <1>10, <1>11, <1>12, TidyCancel DEF Handled
<1>16. \A i \in 1 .. Len(x) : x[i].dev = m /\ x[i].do = "ApproachLinkDisconnection" =>
         x[i].in = APPROACH_TIME
  <2>1. PICK f : Selects(d, x, f)
    BY <1>14, Cancelled
  <2>2. \A i \in 1 .. Len(x) : f[i] \in 1 .. Len(d) /\ x[i] = d[f[i]]
    BY <2>1 DEF Selects
  <2> QED
    BY <1>13, <2>2
<1> HIDE DEF x
<1>17. Tidy(r) /\ Only(r, n, {"ErrorWait"})
  <2>1. Tidy(r)
    BY <1>3, <1>6, <1>15, InsertTidy
  <2>2. Only(x, n, {"ErrorWait"})
    BY <1>15 DEF Only
  <2> QED
    BY <1>3, <1>15, <2>1, <2>2, InsertKeeps
<1>18. Undisturbed(x, r, m)
  BY <1>0, <1>3, <1>15, InsertKeeps DEF Undisturbed
<1>19. Ahead(r, m)
  <2>1. Len(r) = Len(x) + 1
    BY <1>3, <1>15, InsertPlaces
  <2>2. PICK p \in 1 .. Len(x) + 1 : \E g \in [1 .. Len(x) -> 1 .. Len(x) + 1] :
          /\ r[p] = w
          /\ \A i \in 1 .. Len(x) : r[g[i]] = x[i]
          /\ \A i \in 1 .. Len(x) + 1 : i # p => \E k \in 1 .. Len(x) : i = g[k]
          /\ \A i \in 1 .. Len(x) : x[i].in <= w.in => g[i] < p
    BY <1>3, <1>15, InsertPlaces, SMTT(20)
  <2>3. ASSUME NEW i \in 1 .. Len(r), r[i].dev = m, r[i].do = "ApproachLinkDisconnection"
        PROVE  i < p
    <3>1. i # p
      BY <1>3, <2>2, <2>3
    <3>2. PICK k \in 1 .. Len(x) : r[i] = x[k] /\ (x[k].in <= w.in => i < p)
      BY <2>1, <2>2, <3>1
    <3>3. x[k].in <= w.in
      BY <1>3, <1>16, <2>3, <3>2
    <3> QED
      BY <3>2, <3>3
  <2> QED
    BY <1>0, <1>3, <2>1, <2>2, <2>3 DEF Ahead
<1> HIDE DEF r
<1>20. Ahead(r, n)
  BY <1>17 DEF Ahead, Only, Kind, Own
<1>21. \A K : Only(c, m, K) => Only(r, m, K \cup {"ApproachLinkDisconnection"})
  BY <1>7, <1>8, <1>12, <1>15, <1>18 DEF Undisturbed
<1>22. Completes(c, m) => Completes(r, m)
  BY <1>7, <1>8, <1>12, <1>15, <1>18 DEF Undisturbed
<1>23. Only(r, m, {"TransmitComplete", "ApproachLinkDisconnection"})
  <2>1. {"TransmitComplete"} \cup {"ApproachLinkDisconnection"} =
          {"TransmitComplete", "ApproachLinkDisconnection"}
    OBVIOUS
  <2>2. Only(c, m, {"TransmitComplete"})
    BY DEF m
  <2>3. Only(r, m, {"TransmitComplete"} \cup {"ApproachLinkDisconnection"})
    BY <1>21, <2>2
  <2> QED
    BY <2>1, <2>3
<1> QED
  BY <1>1, <1>17, <1>19, <1>20, <1>21, <1>22, <1>23 DEF m

\* The states of a device that has heard from the other.
Late == {"CONNECTING", "RUN", "BUSY"}

\* A step after which n is in state s.
LEMMA Moved ==
  ASSUME ChainInv, machineState \in [Node -> MachineState], NEW n \in Node,
         NEW s \in MachineState, machineState' = [machineState EXCEPT ![n] = s],
         Handled(calendar, calendar', n), Only(calendar', n, Kinds(s)),
         s = "BUSY" => Completes(calendar', n),
         s = "DOWN" => Only(calendar', n, Own \ {"Start"}),
         \A m \in Node : m # n /\ Fresh(calendar, m) /\ machineState[n] \notin Late =>
           Fresh(calendar', m) /\ s \notin Late
  PROVE  ChainInv'
<1>1. Tidy(calendar')
  BY DEF Handled
<1>2. machineState'[n] = s /\ \A m \in Node : m # n => machineState'[m] = machineState[m]
  OBVIOUS
<1>3. \A m \in Node : m # n => Undisturbed(calendar, calendar', m)
  BY DEF Handled
<1>4. ASSUME NEW m \in Node
      PROVE  /\ Only(calendar', m, Kinds(machineState'[m]))
             /\ machineState'[m] = "BUSY" => Completes(calendar', m)
             /\ Ahead(calendar', m)
  <2>1. CASE m = n
    BY <1>2, <2>1 DEF ChainInv, Handled
  <2>2. CASE m # n
    BY <1>2, <1>3, <2>2 DEF ChainInv, Undisturbed
  <2> QED
    BY <2>1, <2>2
<1>5. Only(calendar', n, Own \ {"Start"})
  <2>1. s # "DOWN" => "Start" \notin Kinds(s)
    BY DEF Kinds, MachineState
  <2> QED
    BY <2>1 DEF Only
<1>6. ASSUME NEW m \in Node
      PROVE  \/ Only(calendar', m, Own \ {"Start"})
             \/ machineState'[Peer(m)] \notin Late /\ Fresh(calendar', m)
  <2>1. CASE m = n
    BY <1>5, <2>1
  <2>2. CASE m # n
    <3>1. n = Peer(m)
      BY <2>2, PeerType
    <3>2. \/ Only(calendar, m, Own \ {"Start"})
          \/ machineState[n] \notin Late /\ Fresh(calendar, m)
      BY <3>1 DEF ChainInv, Late
    <3> QED
      BY <1>2, <1>3, <2>2, <3>1, <3>2 DEF Undisturbed
  <2> QED
    BY <2>1, <2>2
<1> QED
  BY <1>1, <1>4, <1>6 DEF ChainInv, Late

\* A step that leaves the devices in their states, and what is pending.
LEMMA Unmoved ==
  ASSUME ChainInv, UNCHANGED machineState, Tidy(calendar'),
         \A m \in Node : Undisturbed(calendar, calendar', m)
                         /\ (Fresh(calendar, m) => Fresh(calendar', m))
  PROVE  ChainInv'
BY DEF ChainInv, Undisturbed

\* What the handler of the first event finds.
LEMMA HandlerFinds ==
  ASSUME LinkTypes, ChainInv, NEW n \in Node, NEW do, Runs(do, n)
  PROVE  /\ Calendar(calendar) /\ calendar # <<>> /\ Tidy(calendar)
         /\ machineState \in [Node -> MachineState] /\ txTime \in Traffic
         /\ m_queue \in [Node -> Seq(Uid)]
         /\ Head(calendar).dev = n /\ Head(calendar).do = do
         /\ Calendar(Rest) /\ Tidy(Rest)
         /\ Handled(calendar, Rest, n) /\ Spared(calendar, Rest, n)
         /\ \A m : Fresh(calendar, m) => Fresh(Rest, m)
         /\ Kind(Head(calendar)) \in Own =>
              /\ Kind(Head(calendar)) \in Kinds(machineState[n])
              /\ Only(Rest, n, {k \in Kinds(machineState[n]) :
                                  Class(k) # Class(Kind(Head(calendar)))})
         /\ do \in Carrying \cup {"ApproachLinkDisconnection"} => \A m : ~Fresh(calendar, m)
         /\ do = "ReceiveNull" => \A m : n = Peer(m) => ~Fresh(calendar, m)
         /\ do \in Carrying => Head(calendar).uid \in Uid
<1>1. /\ Calendar(calendar) /\ calendar # <<>> /\ Tidy(calendar)
      /\ machineState \in [Node -> MachineState] /\ txTime \in Traffic
      /\ m_queue \in [Node -> Seq(Uid)]
      /\ Head(calendar).dev = n /\ Head(calendar).do = do
      /\ Only(calendar, n, Kinds(machineState[n]))
  BY DEF LinkTypes, DeviceInv, ChainInv, Runs
<1>2. /\ Calendar(Rest) /\ Tidy(Rest)
      /\ \A m : \A K : Only(calendar, m, K) => Only(Rest, m, K)
      /\ \A m : Ahead(calendar, m) => Ahead(Rest, m)
      /\ \A m : Fresh(calendar, m) => Fresh(Rest, m)
      /\ \A m : m # n \/ Head(calendar).do # "TransmitComplete" =>
           (Completes(calendar, m) => Completes(Rest, m))
      /\ Kind(Head(calendar)) \in Own => \A K : Only(calendar, n, K) =>
           /\ Kind(Head(calendar)) \in K
           /\ Only(Rest, n, {k \in K : Class(k) # Class(Kind(Head(calendar)))})
      /\ \A m : Fresh(calendar, m) =>
           /\ Head(calendar).do \notin Carrying \cup {"ApproachLinkDisconnection"}
           /\ ~(n = Peer(m) /\ Head(calendar).do = "ReceiveNull")
  BY <1>1, RestTidy
<1>3. Handled(calendar, Rest, n) /\ Spared(calendar, Rest, n)
  BY <1>2 DEF Handled, Spared, Undisturbed
<1>4. do \in Carrying => Head(calendar).uid \in Uid
  <2>1. Head(calendar) = calendar[1] /\ 1 \in 1 .. Len(calendar)
    BY <1>1, RestCalendar
  <2> QED
    BY <1>1, <2>1 DEF Calendar
<1> QED
  BY <1>1, <1>2, <1>3, <1>4

\* An event other than the end of a transmission ends none.
LEMMA HandlerKeeps ==
  ASSUME LinkTypes, ChainInv, NEW n \in Node, NEW do \in Handler \ {"TransmitComplete"},
         Runs(do, n)
  PROVE  Undisturbed(calendar, Rest, n)
<1>1. /\ Calendar(calendar) /\ calendar # <<>> /\ Tidy(calendar)
      /\ Head(calendar).dev = n /\ Head(calendar).do # "TransmitComplete"
  BY DEF LinkTypes, ChainInv, Runs
<1> QED
  BY <1>1, RestTidy DEF Undisturbed

\* While no reset is under way nothing of a reset is pending.
LEMMA NoReset ==
  ASSUME ChainInv, \A m \in Node : machineState[m] \in {"DOWN", "RUN", "BUSY"},
         \A m \in Node : ~Fresh(calendar, m), NEW n \in Node
  PROVE  Only(calendar, n, {"TransmitComplete"})
<1> SUFFICES ASSUME NEW i \in 1 .. Len(calendar), calendar[i].dev = n, Kind(calendar[i]) \in Own
             PROVE  Kind(calendar[i]) = "TransmitComplete"
  BY DEF Only
<1>1. Kind(calendar[i]) \in Kinds(machineState[n]) /\ Kind(calendar[i]) # "Start"
  BY DEF ChainInv, Only
<1>2. Kind(calendar[i]) # "ApproachLinkDisconnection"
  <2> SUFFICES ASSUME calendar[i].do = "ApproachLinkDisconnection" PROVE FALSE
    BY DEF Kind
  <2>1. PICK j \in 1 .. Len(calendar) : calendar[j].dev = Peer(n) /\ calendar[j].do = "ErrorWait"
    BY DEF ChainInv, Ahead
  <2>2. Kind(calendar[j]) = "ErrorWait" /\ "ErrorWait" \in Own /\ Peer(n) \in Node
    BY <2>1, PeerType DEF Kind, Own, Chain
  <2>3. "ErrorWait" \in Kinds(machineState[Peer(n)])
    BY <2>1, <2>2 DEF ChainInv, Only
  <2> QED
    BY <2>2, <2>3 DEF Kinds
<1> QED
  BY <1>1, <1>2 DEF Kinds

LEMMA ErrorResetStep ==
  ASSUME LinkTypes, ChainInv, NEW n \in Node, ErrorResetSpWState(n)
  PROVE  ChainInv'
<1> DEFINE k0 == Kind(Head(calendar))
           L == {k \in Kinds(machineState[n]) : Class(k) # Class(k0)}
           K == L \cap {"SendNull", "SendFCT", "TransmitComplete"}
<1>1. Runs("ErrorReset", n) /\ calendar' = ErrorReset(Rest, n)
      /\ machineState' = [machineState EXCEPT ![n] = "ERROR_RESET"]
  BY DEF ErrorResetSpWState, Enter
<1>2. k0 \in {"Start", "ErrorReset"} /\ k0 \in Own /\ Head(calendar).dev = n
  BY <1>1 DEF Runs, Kind, Own, Chain
<1>3. k0 \in Kinds(machineState[n]) /\ Only(Rest, n, L) /\ machineState[n] \in MachineState
      /\ Calendar(Rest) /\ Tidy(Rest) /\ machineState \in [Node -> MachineState]
      /\ Handled(calendar, Rest, n) /\ Spared(calendar, Rest, n)
  BY <1>1, <1>2, HandlerFinds
<1>4. Only(Rest, n, K)
  <2>1. CASE k0 = "ErrorReset"
    <3>1. L \subseteq {"SendNull", "SendFCT", "TransmitComplete"}
      BY <1>3, <2>1 DEF Kinds, Class, Chain, MachineState
    <3> QED
      BY <1>3, <3>1 DEF Only
  <2>2. CASE k0 = "Start"
    <3>1. L = {"ApproachLinkDisconnection"}
      BY <1>3, <2>2 DEF Kinds, Class, Chain, MachineState
    <3>2. 1 \in 1 .. Len(calendar) /\ Head(calendar) = calendar[1]
      <4>1. Calendar(calendar) /\ calendar # <<>>
        BY <1>1, HandlerFinds
      <4>2. Len(calendar) \in Nat \ {0} /\ Head(calendar) = calendar[1]
        BY <4>1, RestCalendar
      <4> QED
        BY <4>2
    <3>3. ~Only(calendar, n, Own \ {"Start"})
      BY <1>2, <2>2, <3>2 DEF Only
    <3>4. Fresh(Rest, n)
      BY <1>1, <3>3, HandlerFinds DEF ChainInv
    <3>5. \A i \in 1 .. Len(Rest) : Kind(Rest[i]) # "ApproachLinkDisconnection"
      BY <3>4 DEF Fresh, Kind
    <3> HIDE DEF L
    <3> QED
      BY <1>3, <3>1, <3>5 DEF Only
  <2> QED
    BY <1>2, <2>1, <2>2
<1>5. K \in SUBSET {"SendNull", "SendFCT", "TransmitComplete"}
  OBVIOUS
<1> HIDE DEF K
<1>6. /\ Handled(Rest, calendar', n) /\ Spared(Rest, calendar', n)
      /\ Only(calendar', n, {"ErrorWait"})
  BY <1>1, <1>3, <1>4, <1>5, ErrorResetHandled
<1>7. Handled(calendar, calendar', n) /\ Spared(calendar, calendar', n)
  BY <1>3, <1>6, HandledTwice
<1>8. "ERROR_RESET" \in MachineState \ (Late \cup {"DOWN", "BUSY"})
      /\ {"ErrorWait"} \subseteq Kinds("ERROR_RESET")
  BY DEF MachineState, Late, Kinds
<1>9. Only(calendar', n, Kinds("ERROR_RESET"))
  BY <1>6, <1>8 DEF Only
<1> QED
  BY <1>1, <1>3, <1>7, <1>8, <1>9, Moved DEF Spared

LEMMA ErrorWaitStep ==
  ASSUME LinkTypes, ChainInv, NEW n \in Node, ErrorWaitSpWState(n)
  PROVE  ChainInv'
<1>1. Runs("ErrorWait", n) /\ calendar' = Schedule(Rest, SPW_DELAY, "Ready", n, NoUid)
      /\ machineState' = [machineState EXCEPT ![n] = "ERROR_WAIT"]
  BY DEF ErrorWaitSpWState, Enter
<1>2. Kind(Head(calendar)) = "ErrorWait" /\ "ErrorWait" \in Own
  BY <1>1 DEF Runs, Kind, Own, Chain
<1>3. "ErrorWait" \in Kinds(machineState[n])
      /\ Only(Rest, n, {k \in Kinds(machineState[n]) : Class(k) # Class("ErrorWait")})
      /\ machineState \in [Node -> MachineState] /\ Calendar(Rest) /\ Tidy(Rest)
      /\ Handled(calendar, Rest, n) /\ Spared(calendar, Rest, n)
  BY <1>1, <1>2, HandlerFinds
<1>4. {k \in Kinds(machineState[n]) : Class(k) # Class("ErrorWait")} = {}
  BY <1>3 DEF Kinds, Class, Chain, MachineState
<1>5. /\ Handled(Rest, calendar', n) /\ Spared(Rest, calendar', n)
      /\ Only(calendar', n, {} \cup {"Ready"})
  BY <1>1, <1>3, <1>4, ScheduleState, Delays
<1>6. Handled(calendar, calendar', n) /\ Spared(calendar, calendar', n)
  BY <1>3, <1>5, HandledTwice
<1>7. "ERROR_WAIT" \in MachineState \ (Late \cup {"DOWN", "BUSY"})
      /\ Kinds("ERROR_WAIT") = {} \cup {"Ready"}
  BY DEF MachineState, Late, Kinds
<1> QED
  BY <1>1, <1>3, <1>5, <1>6, <1>7, Moved DEF Spared

LEMMA ReadyStep ==
  ASSUME LinkTypes, ChainInv, NEW n \in Node, ReadySpWState(n)
  PROVE  ChainInv'
<1>1. Runs("Ready", n) /\ calendar' = Started(Rest, n)
      /\ machineState' = [machineState EXCEPT ![n] = "STARTED"]
  BY DEF ReadySpWState, Enter
<1>2. Kind(Head(calendar)) = "Ready" /\ "Ready" \in Own
  BY <1>1 DEF Runs, Kind, Own, Chain
<1>3. "Ready" \in Kinds(machineState[n])
      /\ Only(Rest, n, {k \in Kinds(machineState[n]) : Class(k) # Class("Ready")})
      /\ machineState \in [Node -> MachineState] /\ Calendar(Rest) /\ Tidy(Rest)
      /\ Handled(calendar, Rest, n) /\ Spared(calendar, Rest, n)
  BY <1>1, <1>2, HandlerFinds
<1>4. {k \in Kinds(machineState[n]) : Class(k) # Class("Ready")} = {}
  BY <1>3 DEF Kinds, Class, Chain, MachineState
<1>5. /\ Handled(Rest, calendar', n) /\ Spared(Rest, calendar', n)
      /\ Only(calendar', n, {"ErrorReset", "SendNull"})
  BY <1>1, <1>3, <1>4, StartUpHandled
<1>6. Handled(calendar, calendar', n) /\ Spared(calendar, calendar', n)
  BY <1>3, <1>5, HandledTwice
<1>7. "STARTED" \in MachineState \ (Late \cup {"DOWN", "BUSY"})
      /\ Kinds("STARTED") = {"ErrorReset", "SendNull"}
  BY DEF MachineState, Late, Kinds
<1> QED
  BY <1>1, <1>3, <1>5, <1>6, <1>7, Moved DEF Spared

LEMMA SendNullStep ==
  ASSUME LinkTypes, ChainInv, NEW n \in Node, SendNull(n)
  PROVE  ChainInv'
<1> DEFINE d == NullInLink(Rest, n)
           K == {"ErrorReset"}
<1>1. Runs("SendNull", n) /\ UNCHANGED machineState
  BY DEF SendNull
<1>2. Kind(Head(calendar)) = "SendNull" /\ "SendNull" \in Own
  BY <1>1 DEF Runs, Kind, Own, Chain
<1>3. "SendNull" \in Kinds(machineState[n])
      /\ Only(Rest, n, {k \in Kinds(machineState[n]) : Class(k) # Class("SendNull")})
      /\ machineState \in [Node -> MachineState] /\ Calendar(Rest) /\ Tidy(Rest)
      /\ Handled(calendar, Rest, n) /\ Spared(calendar, Rest, n)
  BY <1>1, <1>2, HandlerFinds
<1>4. machineState[n] = "STARTED"
  BY <1>3 DEF Kinds, MachineState
<1>5. {k \in Kinds(machineState[n]) : Class(k) # Class("SendNull")} = K
  BY <1>4 DEF Kinds, Class, Chain
<1>6. calendar' = ScheduleAs(HandleOf("SendNull"), d, PERIOD, "SendNull", n, NoUid)
  BY <1>4 DEF SendNull, HandleOf
<1>7. "ReceiveNull" \in Handler \ Own /\ "ReceiveNull" \notin Carrying /\ Peer(n) \in Node
      /\ NoUid \in Uid \cup {NoUid}
  BY PeerType DEF Handler, Own, Chain, Carrying
<1>8. /\ Calendar(d) /\ Tidy(d) /\ \A m : Undisturbed(Rest, d, m)
      /\ \A m : Fresh(Rest, m) /\ Peer(n) # Peer(m) => Fresh(d, m)
  BY <1>3, <1>7, ScheduleNeutral, Delays DEF NullInLink
<1> HIDE DEF d
<1>9. /\ Handled(Rest, d, n) /\ Spared(Rest, d, n) /\ Only(d, n, K)
  <2>1. \A m \in Node : m # n => Peer(n) # Peer(m)
    BY PeerType
  <2> QED
    BY <1>3, <1>5, <1>8, <2>1 DEF Handled, Spared, Undisturbed
<1>10. K \in SUBSET Own /\ \A k \in K : Class(k) # Class("SendNull")
  BY DEF Own, Chain, Class
<1>11. Kinds("STARTED") = K \cup {"SendNull"}
  BY DEF Kinds
<1> HIDE DEF K
<1>12. /\ Handled(d, calendar', n) /\ Spared(d, calendar', n)
       /\ Only(calendar', n, K \cup {"SendNull"})
  BY <1>6, <1>7, <1>8, <1>9, <1>10, ScheduleOwn, Delays
<1>13. Handled(calendar, d, n) /\ Spared(calendar, d, n)
  BY <1>3, <1>9, HandledTwice
<1>14. Handled(calendar, calendar', n) /\ Spared(calendar, calendar', n)
  BY <1>12, <1>13, HandledTwice
<1>15. machineState' = [machineState EXCEPT ![n] = "STARTED"]
  BY <1>1, <1>3, <1>4
<1>16. "STARTED" \in MachineState \ (Late \cup {"DOWN", "BUSY"})
  BY DEF MachineState, Late
<1> QED
  BY <1>3, <1>11, <1>12, <1>14, <1>15, <1>16, Moved DEF Spared

LEMMA SendFCTStep ==
  ASSUME LinkTypes, ChainInv, NEW n \in Node, SendFCT(n)
  PROVE  ChainInv'
<1> DEFINE d == FCTInLink(Rest, n)
           K == {"ErrorReset"}
<1>1. Runs("SendFCT", n) /\ UNCHANGED machineState
  BY DEF SendFCT
<1>2. Kind(Head(calendar)) = "SendFCT" /\ "SendFCT" \in Own
  BY <1>1 DEF Runs, Kind, Own, Chain
<1>3. "SendFCT" \in Kinds(machineState[n])
      /\ Only(Rest, n, {k \in Kinds(machineState[n]) : Class(k) # Class("SendFCT")})
      /\ machineState \in [Node -> MachineState] /\ Calendar(Rest) /\ Tidy(Rest)
      /\ Handled(calendar, Rest, n)
  BY <1>1, <1>2, HandlerFinds
<1>4. machineState[n] = "CONNECTING"
  BY <1>3 DEF Kinds, MachineState
<1>5. {k \in Kinds(machineState[n]) : Class(k) # Class("SendFCT")} = K
  BY <1>4 DEF Kinds, Class, Chain
<1>6. calendar' = ScheduleAs(HandleOf("SendFCT"), d, PERIOD, "SendFCT", n, NoUid)
  BY <1>4 DEF SendFCT, HandleOf
<1>7. "ReceiveFCT" \in Handler \ Own /\ "ReceiveFCT" \notin Carrying /\ Peer(n) \in Node
      /\ NoUid \in Uid \cup {NoUid}
  BY PeerType DEF Handler, Own, Chain, Carrying
<1>8. Calendar(d) /\ Tidy(d) /\ \A m : Undisturbed(Rest, d, m)
  BY <1>3, <1>7, ScheduleNeutral, Delays DEF FCTInLink
<1> HIDE DEF d
<1>9. Handled(Rest, d, n) /\ Only(d, n, K)
  BY <1>3, <1>5, <1>8 DEF Handled, Undisturbed
<1>10. K \in SUBSET Own /\ \A k \in K : Class(k) # Class("SendFCT")
  BY DEF Own, Chain, Class
<1>11. Kinds("CONNECTING") = K \cup {"SendFCT"}
  BY DEF Kinds
<1> HIDE DEF K
<1>12. Handled(d, calendar', n) /\ Only(calendar', n, K \cup {"SendFCT"})
  BY <1>6, <1>7, <1>8, <1>9, <1>10, ScheduleOwn, Delays
<1>13. Handled(calendar, d, n)
  BY <1>3, <1>9, HandledTwice
<1>14. Handled(calendar, calendar', n)
  BY <1>12, <1>13, HandledTwice
<1>15. machineState' = [machineState EXCEPT ![n] = "CONNECTING"]
  BY <1>1, <1>3, <1>4
<1>16. "CONNECTING" \in MachineState \ {"DOWN", "BUSY"} /\ machineState[n] \in Late
  BY <1>4 DEF MachineState, Late
<1> QED
  <2>1. Only(calendar', n, Kinds("CONNECTING"))
    BY <1>11, <1>12
  <2>2. \A m \in Node : m # n /\ Fresh(calendar, m) /\ machineState[n] \notin Late => FALSE
    BY <1>16
  <2> QED
    BY <1>3, <1>14, <1>15, <1>16, <2>1, <2>2, Moved

LEMMA ReceiveNullStep ==
  ASSUME LinkTypes, ChainInv, NEW n \in Node, ReceiveNull(n)
  PROVE  ChainInv'
<1>1. Runs("ReceiveNull", n)
  BY DEF ReceiveNull
<1>2. /\ machineState \in [Node -> MachineState] /\ Calendar(Rest) /\ Tidy(Rest)
      /\ Handled(calendar, Rest, n) /\ Undisturbed(calendar, Rest, n)
      /\ \A m : Fresh(calendar, m) => Fresh(Rest, m)
      /\ \A m : n = Peer(m) => ~Fresh(calendar, m)
  <2>1. "ReceiveNull" \in Handler \ {"TransmitComplete"}
    BY DEF Handler
  <2>2. /\ machineState \in [Node -> MachineState] /\ Calendar(Rest) /\ Tidy(Rest)
        /\ Handled(calendar, Rest, n)
        /\ \A m : Fresh(calendar, m) => Fresh(Rest, m)
    BY <1>1, HandlerFinds
  <2>3. Undisturbed(calendar, Rest, n)
    BY <1>1, <2>1, HandlerKeeps
  <2>4. \A m : n = Peer(m) => ~Fresh(calendar, m)
    BY <1>1, HandlerFinds
  <2> QED
    BY <2>2, <2>3, <2>4
<1>3. CASE machineState[n] = "STARTED"
  <2> DEFINE K == {"ErrorReset", "SendNull"}
             c == Cancel(Rest, n, {"sendNull"})
  <2>1. /\ machineState' = [machineState EXCEPT ![n] = "CONNECTING"]
        /\ calendar' = Connecting(c, n)
    BY <1>3 DEF ReceiveNull, Enter
  <2>2. Only(calendar, n, K) /\ {k \in K : HandleOf(k) \notin {"sendNull"}} = {"ErrorReset"}
        /\ "none" \notin {"sendNull"}
    BY <1>3 DEF ChainInv, Kinds, HandleOf
  <2> HIDE DEF K
  <2>3. Only(Rest, n, K)
    BY <1>2, <2>2 DEF Undisturbed
  <2>4. Handled(Rest, c, n) /\ Only(c, n, {"ErrorReset"})
    BY <1>2, <2>2, <2>3, TidyCancel
  <2> HIDE DEF c
  <2>5. Calendar(c) /\ Tidy(c)
    BY <2>4 DEF Handled
  <2>6. Handled(c, calendar', n) /\ Only(calendar', n, {"ErrorReset", "SendFCT"})
    BY <2>1, <2>4, <2>5, StartUpHandled
  <2>7. Handled(calendar, c, n)
    BY <1>2, <2>4, HandledTwice
  <2>8. Handled(calendar, calendar', n)
    BY <2>6, <2>7, HandledTwice
  <2>9. "CONNECTING" \in MachineState \ {"DOWN", "BUSY"}
        /\ Kinds("CONNECTING") = {"ErrorReset", "SendFCT"}
    BY DEF MachineState, Kinds
  <2>10. \A m \in Node : m # n => ~Fresh(calendar, m)
    BY <1>2, PeerType
  <2> QED
    BY <1>2, <2>1, <2>6, <2>8, <2>9, <2>10, Moved
<1>4. CASE machineState[n] # "STARTED"
  <2>1. calendar' = Rest /\ UNCHANGED machineState
    BY <1>4 DEF ReceiveNull
  <2> QED
    BY <1>2, <2>1, Unmoved DEF Handled
<1> QED
  BY <1>3, <1>4

LEMMA ReceiveFCTStep ==
  ASSUME LinkTypes, ChainInv, NEW n \in Node, ReceiveFCT(n)
  PROVE  ChainInv'
<1>1. Runs("ReceiveFCT", n)
  BY DEF ReceiveFCT
<1>2. /\ machineState \in [Node -> MachineState] /\ txTime \in Traffic
      /\ m_queue \in [Node -> Seq(Uid)] /\ Calendar(Rest) /\ Tidy(Rest)
      /\ Handled(calendar, Rest, n) /\ Undisturbed(calendar, Rest, n)
      /\ \A m : Fresh(calendar, m) => Fresh(Rest, m)
  <2>1. "ReceiveFCT" \in Handler \ {"TransmitComplete"}
    BY DEF Handler
  <2>2. /\ machineState \in [Node -> MachineState] /\ txTime \in Traffic
        /\ m_queue \in [Node -> Seq(Uid)] /\ Calendar(Rest) /\ Tidy(Rest)
        /\ Handled(calendar, Rest, n)
        /\ \A m : Fresh(calendar, m) => Fresh(Rest, m)
    BY <1>1, HandlerFinds
  <2>3. Undisturbed(calendar, Rest, n)
    BY <1>1, <2>1, HandlerKeeps
  <2> QED
    BY <2>2, <2>3
<1>3. CASE machineState[n] = "CONNECTING"
  <2> DEFINE K == {"ErrorReset", "SendFCT"}
             H == {"stateChangeToErrorReset", "sendNull", "sendFCT"}
             c == Cancel(Rest, n, H)
  <2>1. Transmit(n, m_queue[n], c)
    BY <1>3 DEF ReceiveFCT, RunSpWState
  <2>2. Only(calendar, n, K) /\ {k \in K : HandleOf(k) \notin H} = {} /\ "none" \notin H
    BY <1>3 DEF ChainInv, Kinds, HandleOf
  <2> HIDE DEF K, H
  <2>3. Only(Rest, n, K)
    BY <1>2, <2>2 DEF Undisturbed
  <2>4. Handled(Rest, c, n) /\ Only(c, n, {})
    BY <1>2, <2>2, <2>3, TidyCancel
  <2> HIDE DEF c
  <2>5. Calendar(c) /\ Tidy(c) /\ Only(c, n, {"ApproachLinkDisconnection"})
    BY <2>4 DEF Handled, Only
  <2>6. /\ machineState'[n] \in {"RUN", "BUSY"}
        /\ machineState' = [machineState EXCEPT ![n] = machineState'[n]]
        /\ Handled(c, calendar', n)
        /\ Only(calendar', n, Kinds(machineState'[n]))
        /\ machineState'[n] = "BUSY" => Completes(calendar', n)
    BY <1>2, <2>1, <2>5, TransmitHandled
  <2>7. Handled(calendar, c, n)
    BY <1>2, <2>4, HandledTwice
  <2>8. Handled(calendar, calendar', n)
    BY <2>6, <2>7, HandledTwice
  <2>9. machineState'[n] \in MachineState \ {"DOWN"} /\ machineState[n] \in Late
    BY <1>3, <2>6 DEF MachineState, Late
  <2> QED
    BY <1>2, <2>6, <2>8, <2>9, Moved
<1>4. CASE machineState[n] # "CONNECTING"
  <2>1. calendar' = Rest /\ UNCHANGED machineState
    BY <1>4 DEF ReceiveFCT
  <2> QED
    BY <1>2, <2>1, Unmoved DEF Handled
<1> QED
  BY <1>3, <1>4

LEMMA TransmitCompleteStep ==
  ASSUME LinkTypes, ChainInv, NEW n \in Node, TransmitComplete(n)
  PROVE  ChainInv'
<1> DEFINE K == {"ApproachLinkDisconnection"}
           c == Forget(Rest, n, "transmit_complete_events", Head(calendar).uid)
<1>1. Runs("TransmitComplete", n) /\ machineState[n] = "BUSY" /\ Transmit(n, m_queue[n], c)
  BY DEF TransmitComplete
<1>2. Kind(Head(calendar)) = "TransmitComplete" /\ "TransmitComplete" \in Own
  BY <1>1 DEF Runs, Kind, Own
<1>3. /\ machineState \in [Node -> MachineState] /\ txTime \in Traffic
      /\ m_queue \in [Node -> Seq(Uid)] /\ Calendar(Rest) /\ Tidy(Rest)
      /\ Handled(calendar, Rest, n)
      /\ Only(Rest, n, {k \in Kinds("BUSY") : Class(k) # Class("TransmitComplete")})
  BY <1>1, <1>2, HandlerFinds
<1>4. {k \in Kinds("BUSY") : Class(k) # Class("TransmitComplete")} = K
  BY DEF Kinds, Class, Chain
<1>5. "transmit_complete_events" \in Handle
      /\ \A k \in K : HandleOf(k) # "transmit_complete_events"
  BY DEF Handle, HandleOf
<1> HIDE DEF K
<1>6. c = Rest /\ Only(Rest, n, K)
  <2>1. Only(Rest, n, K)
    BY <1>3, <1>4
  <2> QED
    BY <1>3, <1>5, <2>1, NothingForgotten
<1> HIDE DEF c
<1>7. /\ machineState'[n] \in {"RUN", "BUSY"}
      /\ machineState' = [machineState EXCEPT ![n] = machineState'[n]]
      /\ Handled(Rest, calendar', n)
      /\ Only(calendar', n, Kinds(machineState'[n]))
      /\ machineState'[n] = "BUSY" => Completes(calendar', n)
  BY <1>1, <1>3, <1>6, TransmitHandled DEF K
<1>8. Handled(calendar, calendar', n)
  BY <1>3, <1>7, HandledTwice
<1>9. machineState'[n] \in MachineState \ {"DOWN"} /\ machineState[n] \in Late
  BY <1>1, <1>7 DEF MachineState, Late
<1> QED
  BY <1>3, <1>7, <1>8, <1>9, Moved

LEMMA TransmissionCompleteStep ==
  ASSUME LinkTypes, ChainInv, NEW n \in Node, TransmissionComplete(n)
  PROVE  ChainInv'
<1> DEFINE u == Head(calendar).uid
           c == Forget(Rest, n, "m_events", u)
<1>1. /\ Runs("TransmissionComplete", n) /\ UNCHANGED machineState
      /\ calendar' = Schedule(c, HANDLING, "HandlingArrivedComplete", n, u)
  BY DEF TransmissionComplete
<1>2. "TransmissionComplete" \in Carrying
      /\ "TransmissionComplete" \in Handler \ {"TransmitComplete"}
      /\ "HandlingArrivedComplete" \in Handler \ Own
  BY DEF Carrying, Handler, Own, Chain
<1>3. /\ Calendar(Rest) /\ Tidy(Rest) /\ Handled(calendar, Rest, n) /\ u \in Uid
      /\ \A m : ~Fresh(calendar, m)
  BY <1>1, <1>2, HandlerFinds
<1>4. Undisturbed(calendar, Rest, n)
  BY <1>1, <1>2, HandlerKeeps
<1>5. Calendar(c) /\ Tidy(c) /\ \A m : Undisturbed(Rest, c, m)
  BY <1>3, WireForgottenTidy
<1> HIDE DEF u, c
<1>6. Tidy(calendar') /\ \A m : Undisturbed(c, calendar', m)
  BY <1>1, <1>2, <1>3, <1>5, ScheduleNeutral, Delays
<1>7. \A m \in Node : Undisturbed(calendar, calendar', m)
  BY <1>3, <1>4, <1>5, <1>6 DEF Handled, Undisturbed
<1> QED
  BY <1>1, <1>3, <1>6, <1>7, Unmoved

LEMMA HandlingArrivedCompleteStep ==
  ASSUME LinkTypes, ChainInv, NEW n \in Node, HandlingArrivedComplete(n)
  PROVE  ChainInv'
<1> DEFINE u == Head(calendar).uid
<1>1. /\ Runs("HandlingArrivedComplete", n) /\ UNCHANGED machineState
      /\ calendar' = Schedule(Rest, 0, "Receive", Peer(n), u)
  BY DEF HandlingArrivedComplete
<1>2. "HandlingArrivedComplete" \in Carrying
      /\ "HandlingArrivedComplete" \in Handler \ {"TransmitComplete"}
      /\ "Receive" \in Handler \ Own /\ Peer(n) \in Node
  BY PeerType DEF Carrying, Handler, Own, Chain
<1>3. /\ Calendar(Rest) /\ Tidy(Rest) /\ Handled(calendar, Rest, n) /\ u \in Uid
      /\ \A m : ~Fresh(calendar, m)
  BY <1>1, <1>2, HandlerFinds
<1>4. Undisturbed(calendar, Rest, n)
  BY <1>1, <1>2, HandlerKeeps
<1> HIDE DEF u
<1>5. Tidy(calendar') /\ \A m : Undisturbed(Rest, calendar', m)
  BY <1>1, <1>2, <1>3, ScheduleNeutral
<1>6. \A m \in Node : Undisturbed(calendar, calendar', m)
  BY <1>3, <1>4, <1>5 DEF Handled, Undisturbed
<1> QED
  BY <1>1, <1>3, <1>5, <1>6, Unmoved

LEMMA ReceiveIntactStep ==
  ASSUME LinkTypes, ChainInv, NEW n \in Node, ReceiveIntact(n)
  PROVE  ChainInv'
<1>1. Runs("Receive", n) /\ UNCHANGED machineState /\ calendar' = Rest
  BY DEF ReceiveIntact
<1>2. "Receive" \in Handler \ {"TransmitComplete"}
  BY DEF Handler
<1>3. Tidy(Rest) /\ Handled(calendar, Rest, n) /\ \A m : Fresh(calendar, m) => Fresh(Rest, m)
  BY <1>1, HandlerFinds
<1>4. Undisturbed(calendar, Rest, n)
  BY <1>1, <1>2, HandlerKeeps
<1> QED
  BY <1>1, <1>3, <1>4, Unmoved DEF Handled

LEMMA ReceiveCorruptStep ==
  ASSUME OneAtATime, APPROACH_TIME <= SPW_HALF_DELAY,
         LinkTypes, ChainInv, NEW n \in Node, ReceiveCorrupt(n)
  PROVE  ChainInv'
<1> DEFINE A == "ApproachLinkDisconnection"
           m == Peer(n)
<1>1. /\ Runs("Receive", n) /\ machineState' = [machineState EXCEPT ![n] = "ERROR_RESET"]
      /\ calendar' = ErrorReset(NotifyError(Rest, n), n)
      /\ \A k \in Node : machineState[k] \in {"DOWN", "RUN", "BUSY"}
  BY DEF ReceiveCorrupt, Enter
<1>2. "Receive" \in Carrying /\ "Receive" \in Handler \ {"TransmitComplete"}
  BY DEF Carrying, Handler
<1>3. /\ Calendar(Rest) /\ Tidy(Rest) /\ Handled(calendar, Rest, n)
      /\ machineState \in [Node -> MachineState] /\ \A k : ~Fresh(calendar, k)
  BY <1>1, <1>2, HandlerFinds
<1>4. Undisturbed(calendar, Rest, n)
  BY <1>1, <1>2, HandlerKeeps
<1>5. \A k \in Node : Undisturbed(calendar, Rest, k)
  BY <1>3, <1>4 DEF Handled
<1>6. m \in Node /\ m # n /\ \A k \in Node : k = n \/ k = m
  BY PeerType
<1>7. Only(calendar, n, {"TransmitComplete"}) /\ Only(calendar, m, {"TransmitComplete"})
  BY <1>1, <1>3, <1>6, NoReset
<1>8. Only(Rest, n, {"TransmitComplete"}) /\ Only(Rest, m, {"TransmitComplete"})
  BY <1>5, <1>6, <1>7 DEF Undisturbed
<1>9. /\ Tidy(calendar') /\ Only(calendar', n, {"ErrorWait"})
      /\ Only(calendar', m, {"TransmitComplete", A})
      /\ \A K : Only(Rest, m, K) => Only(calendar', m, K \cup {A})
      /\ Completes(Rest, m) => Completes(calendar', m)
      /\ Ahead(calendar', n) /\ Ahead(calendar', m)
  BY <1>1, <1>3, <1>8, CorruptHandled
<1> HIDE DEF m
<1>10. machineState'[n] = "ERROR_RESET" /\ machineState'[m] = machineState[m]
  BY <1>1, <1>3, <1>6
<1>11. Only(calendar', n, Kinds("ERROR_RESET"))
  BY <1>9 DEF Only, Kinds
<1>12. Only(calendar', m, Kinds(machineState[m]))
  <2>1. Kinds(machineState[m]) \cup {A} = Kinds(machineState[m])
    BY <1>1, <1>6 DEF Kinds
  <2>2. Only(calendar, m, Kinds(machineState[m]))
    BY <1>6 DEF ChainInv
  <2>3. Only(Rest, m, Kinds(machineState[m]))
    BY <1>5, <1>6, <2>2 DEF Undisturbed
  <2>4. Only(calendar', m, Kinds(machineState[m]) \cup {A})
    BY <1>9, <2>3
  <2> QED
    BY <2>1, <2>4
<1>13. machineState[m] = "BUSY" => Completes(calendar', m)
  BY <1>5, <1>6, <1>9 DEF ChainInv, Undisturbed
<1>14. Only(calendar', n, Own \ {"Start"}) /\ Only(calendar', m, Own \ {"Start"})
  BY <1>9 DEF Only
<1> QED
  BY <1>6, <1>9, <1>10, <1>11, <1>12, <1>13, <1>14 DEF ChainInv

LEMMA ApproachStep ==
  ASSUME LinkTypes, ChainInv, NEW n \in Node, ApproachLinkDisconnection(n)
  PROVE  ChainInv'
<1> DEFINE A == "ApproachLinkDisconnection"
           K == {k \in Kinds(machineState[n]) : Class(k) # Class(A)}
           c == Cancel(Rest, n, Handle)
<1>1. /\ Runs(A, n) /\ machineState' = [machineState EXCEPT ![n] = "ERROR_RESET"]
      /\ calendar' = Timeout(c, n, EXCHANGE_OF_SILENCE)
  BY DEF ApproachLinkDisconnection, Enter
<1>2. Kind(Head(calendar)) = A /\ A \in Own
  BY <1>1 DEF Runs, Kind, Own
<1>3. /\ Calendar(Rest) /\ Tidy(Rest) /\ Handled(calendar, Rest, n)
      /\ machineState \in [Node -> MachineState] /\ \A k : ~Fresh(calendar, k)
      /\ A \in Kinds(machineState[n]) /\ Only(Rest, n, K)
  BY <1>1, <1>2, HandlerFinds
<1>4. K \subseteq {"Start", "TransmitComplete"}
  BY <1>3 DEF Kinds, MachineState, Class, Chain
<1> HIDE DEF K
<1>5. Only(Rest, n, {"TransmitComplete"})
  <2>1. Only(calendar, n, Own \ {"Start"})
    BY <1>3 DEF ChainInv
  <2>2. A \in Handler \ {"TransmitComplete"}
    BY DEF Handler
  <2>3. Undisturbed(calendar, Rest, n)
    BY <1>1, <2>2, HandlerKeeps
  <2>4. Only(Rest, n, Own \ {"Start"})
    BY <2>1, <2>3 DEF Undisturbed
  <2> QED
    BY <1>3, <1>4, <2>4 DEF Only
<1>6. {k \in {"TransmitComplete"} : HandleOf(k) \notin Handle} = {} /\ "none" \notin Handle
  BY DEF HandleOf, Handle
<1>7. Handled(Rest, c, n) /\ Only(c, n, {})
  BY <1>3, <1>5, <1>6, TidyCancel
<1> HIDE DEF c
<1>8. Calendar(c) /\ Tidy(c)
  BY <1>7 DEF Handled
<1>9. {} \in SUBSET (Own \ {"Start", "ErrorWait", "Ready"})
  OBVIOUS
<1>10. Handled(c, calendar', n) /\ Only(calendar', n, {} \cup {"ErrorReset"})
  BY <1>1, <1>7, <1>8, <1>9, TimeoutHandled, Delays
<1>11. Handled(calendar, c, n)
  BY <1>3, <1>7, HandledTwice
<1>12. Handled(calendar, calendar', n)
  BY <1>10, <1>11, HandledTwice
<1>13. "ERROR_RESET" \in MachineState \ {"DOWN", "BUSY"}
       /\ {} \cup {"ErrorReset"} \subseteq Kinds("ERROR_RESET")
  BY DEF MachineState, Kinds
<1>14. Only(calendar', n, Kinds("ERROR_RESET"))
  BY <1>10, <1>13 DEF Only
<1> QED
  BY <1>1, <1>3, <1>12, <1>13, <1>14, Moved

LEMMA SendStep ==
  ASSUME LinkTypes, ChainInv, NEW n \in Node, Send(n)
  PROVE  ChainInv'
<1>1. PICK u \in {given'} \cup Range(sent[n]), d \in Gap :
        /\ CallAt(d)
        /\ IF machineState[n] = "RUN"
             THEN Transmit(n, Enqueue(m_queue[n], u), Later(calendar, d))
           ELSE calendar' = Later(calendar, d) /\ UNCHANGED machineState
  BY DEF Send
<1> DEFINE q == Enqueue(m_queue[n], u)
<1> DEFINE c == Later(calendar, d)
<1>2. /\ Calendar(calendar) /\ Tidy(calendar) /\ machineState \in [Node -> MachineState]
      /\ txTime \in Traffic /\ m_queue \in [Node -> Seq(Uid)]
  BY DEF LinkTypes, DeviceInv, ChainInv
<1>3. /\ Calendar(c) /\ Tidy(c) /\ \A m : Undisturbed(calendar, c, m)
      /\ \A m : Fresh(calendar, m) => Fresh(c, m)
  BY <1>1, <1>2, CallTidy
<1>4. u \in Uid
  BY <1>1, GivenPacket
<1>5. q \in Seq(Uid)
  <2>1. q = m_queue[n] \/ q = Append(m_queue[n], u)
    BY DEF Enqueue
  <2>2. m_queue[n] \in Seq(Uid)
    BY <1>2
  <2> QED
    BY <1>4, <2>1, <2>2, AppendProperties
<1> HIDE DEF q, c
<1>6. CASE machineState[n] = "RUN"
  <2>1. Transmit(n, q, c)
    BY <1>1, <1>6 DEF q, c
  <2>2. Only(calendar, n, {"ApproachLinkDisconnection"})
    BY <1>6 DEF ChainInv, Kinds
  <2>3. Only(c, n, {"ApproachLinkDisconnection"})
    BY <1>3, <2>2 DEF Undisturbed
  <2>4. /\ machineState'[n] \in {"RUN", "BUSY"}
        /\ machineState' = [machineState EXCEPT ![n] = machineState'[n]]
        /\ Handled(c, calendar', n)
        /\ Only(calendar', n, Kinds(machineState'[n]))
        /\ machineState'[n] = "BUSY" => Completes(calendar', n)
    BY <1>2, <1>3, <1>5, <2>1, <2>3, TransmitHandled
  <2>5. Handled(calendar, calendar', n)
    BY <1>3, <2>4 DEF Handled, Undisturbed
  <2>6. machineState'[n] \in MachineState \ {"DOWN"} /\ machineState[n] \in Late
    BY <1>6, <2>4 DEF MachineState, Late
  <2> QED
    BY <1>2, <2>4, <2>5, <2>6, Moved
<1>7. CASE machineState[n] # "RUN"
  <2>1. calendar' = c /\ UNCHANGED machineState
    BY <1>1, <1>7 DEF c
  <2> QED
    BY <1>3, <2>1, Unmoved
<1> QED
  BY <1>6, <1>7

LEMMA ShutdownStep ==
  ASSUME ShutdownIn \subseteq {"RUN"}, LinkTypes, ChainInv, NEW n \in Node, Shutdown(n)
  PROVE  ChainInv'
<1>1. /\ machineState[n] = "RUN" /\ machineState' = [machineState EXCEPT ![n] = "DOWN"]
      /\ calendar' = calendar
  BY DEF Shutdown, Enter
<1>2. machineState \in [Node -> MachineState]
  BY DEF LinkTypes, DeviceInv
<1>3. Only(calendar, n, {"ApproachLinkDisconnection"})
  BY <1>1 DEF ChainInv, Kinds
<1>4. Only(calendar, n, Kinds("DOWN")) /\ Only(calendar, n, Own \ {"Start"})
  BY <1>3 DEF Only, Kinds
<1>5. Handled(calendar, calendar, n)
  BY DEF Handled, Undisturbed, LinkTypes, ChainInv
<1>6. "DOWN" \in MachineState \ {"BUSY"} /\ machineState[n] \in Late
  BY <1>1 DEF MachineState, Late
<1> QED
  BY <1>1, <1>2, <1>4, <1>5, <1>6, Moved

\* One event starts each device and nothing else is pending.
LEMMA InitChain ==
  ASSUME Init
  PROVE  ChainInv
<1>1. PICK n \in Node : calendar = Schedule(Schedule(<<>>, 0, "ErrorReset", n, NoUid),
                                            offset, "ErrorReset", Peer(n), NoUid)
  BY DEF Init
<1> DEFINE v == [do |-> "ErrorReset", dev |-> n, uid |-> NoUid, in |-> 0, handle |-> "none"]
           w == [do |-> "ErrorReset", dev |-> Peer(n), uid |-> NoUid, in |-> offset,
                 handle |-> "none"]
           a == Insert(<<>>, v)
           r == Insert(a, w)
<1>2. calendar = r
  BY <1>1 DEF Schedule
<1>3. offset \in Nat /\ Peer(n) \in Node /\ Peer(n) # n /\ \A m \in Node : m = n \/ m = Peer(n)
  BY LinkAssumption, PeerType DEF Init
<1>4. \A e \in {v, w} : /\ e \in Event /\ e.do = "ErrorReset" /\ e.handle = "none"
                        /\ Kind(e) = "Start"
  BY <1>3 DEF Event, Handler, Kind
<1>5. v.dev = n /\ w.dev = Peer(n)
  OBVIOUS
<1> HIDE DEF v, w
<1>6. \A e \in {v, w} : RightHandle(e)
  BY <1>4 DEF RightHandle, HandleOf
<1>7. /\ Calendar(<<>>) /\ Tidy(<<>>) /\ Only(<<>>, n, {}) /\ Only(<<>>, Peer(n), {})
      /\ \A m : Fresh(<<>>, m) /\ Ahead(<<>>, m)
  BY EmptySeq DEF Calendar, InRunOrder, Tidy, Only, Fresh, Ahead
<1>8. /\ "ErrorReset" \notin Carrying \cup {"ReceiveNull", "ApproachLinkDisconnection"}
      /\ "Start" \in Own
  BY DEF Carrying, Own, Chain
<1>9. \A k \in {} : Class(k) # Class("Start")
  OBVIOUS
<1>10. /\ Handled(<<>>, a, n) /\ Only(a, n, {} \cup {"Start"})
  BY <1>4, <1>5, <1>6, <1>7, <1>8, <1>9, InsertOwn
<1>11. \A m : Fresh(a, m) /\ Ahead(a, m)
  BY <1>4, <1>7, <1>8, InsertKeeps
<1>12. Calendar(a) /\ Tidy(a) /\ Only(a, Peer(n), {})
  BY <1>3, <1>7, <1>10 DEF Handled, Undisturbed
<1> HIDE DEF a
<1>13. /\ Handled(a, r, Peer(n)) /\ Only(r, Peer(n), {} \cup {"Start"})
  BY <1>3, <1>4, <1>5, <1>6, <1>8, <1>9, <1>12, InsertOwn
<1>14. \A m : Fresh(r, m) /\ Ahead(r, m)
  BY <1>4, <1>8, <1>11, <1>12, InsertKeeps
<1>15. Tidy(r) /\ Only(r, n, {} \cup {"Start"})
  BY <1>3, <1>10, <1>13 DEF Handled, Undisturbed
<1> HIDE DEF r
<1>16. \A m \in Node : machineState[m] = "DOWN"
  BY DEF Init
<1>17. \A m \in Node : Only(r, m, Kinds("DOWN"))
  <2>1. {} \cup {"Start"} \subseteq Kinds("DOWN")
    BY DEF Kinds
  <2> QED
    BY <1>3, <1>13, <1>15, <2>1 DEF Only
<1> QED
  BY <1>2, <1>3, <1>14, <1>15, <1>16, <1>17, PeerType DEF ChainInv

LEMMA StepChain ==
  ASSUME OneAtATime, ShutdownIn \subseteq {"RUN"}, APPROACH_TIME <= SPW_HALF_DELAY,
         LinkTypes, ChainInv, [Next]_vars
  PROVE  ChainInv'
<1>1. ASSUME UNCHANGED vars PROVE ChainInv'
  BY <1>1 DEF vars, ChainInv
<1>2. ASSUME NEW n \in Node, Step(n) PROVE ChainInv'
  BY <1>2, ErrorResetStep, ErrorWaitStep, ReadyStep, SendNullStep, ReceiveNullStep,
     SendFCTStep, ReceiveFCTStep, TransmitCompleteStep, TransmissionCompleteStep,
     HandlingArrivedCompleteStep, ReceiveIntactStep, ReceiveCorruptStep, ApproachStep DEF Step
<1>3. ASSUME NEW n \in Node, Send(n) \/ Shutdown(n) PROVE ChainInv'
  BY <1>3, SendStep, ShutdownStep
<1> QED
  BY <1>1, <1>2, <1>3 DEF Next

LEMMA ChainInvariant ==
  ASSUME OneAtATime, ShutdownIn \subseteq {"RUN"}, APPROACH_TIME <= SPW_HALF_DELAY
  PROVE  Spec => [](LinkTypes /\ ChainInv)
<1>1. LinkTypes /\ ChainInv /\ [Next]_vars => LinkTypes' /\ ChainInv'
  BY StepTypes, StepChain
<1>2. Init => LinkTypes /\ ChainInv
  BY InitTypes, InitChain
<1> QED
  BY <1>1, <1>2, PTL DEF Spec

\* As long as errors come one at a time and only a device in RUN is shut down, a
\* device is BUSY exactly while one transmission of its own is going to complete
\* (ErrorResetSpWState, spw-device.cc:592-605).
THEOREM EveryBusyCompletes ==
  ASSUME OneAtATime, ShutdownIn \subseteq {"RUN"}, APPROACH_TIME <= SPW_HALF_DELAY
  PROVE  Spec => []BusyCompletes
<1>1. ASSUME LinkTypes, ChainInv, NEW n \in Node
      PROVE  IF machineState[n] = "BUSY"
               THEN Cardinality(Pending(n, {"TransmitComplete"})) = 1
             ELSE Pending(n, {"TransmitComplete"}) = {}
  <2>1. /\ DOMAIN calendar = 1 .. Len(calendar)
        /\ machineState[n] \in MachineState
    BY <1>1, CalendarTypes DEF LinkTypes, DeviceInv
  <2>2. Pending(n, {"TransmitComplete"}) =
          {i \in 1 .. Len(calendar) : calendar[i].do = "TransmitComplete" /\ calendar[i].dev = n}
    BY <2>1 DEF Pending
  <2>3. \A i \in Pending(n, {"TransmitComplete"}) :
          /\ i \in 1 .. Len(calendar) /\ calendar[i].dev = n
          /\ Kind(calendar[i]) = "TransmitComplete" /\ "TransmitComplete" \in Own
    BY <2>2 DEF Kind, Own
  <2>4. CASE machineState[n] = "BUSY"
    <3>1. PICK i \in 1 .. Len(calendar) :
            calendar[i].dev = n /\ calendar[i].do = "TransmitComplete"
      BY <1>1, <2>4 DEF ChainInv, Completes
    <3>2. \A j \in Pending(n, {"TransmitComplete"}) : j = i
      <4>1. i \in Pending(n, {"TransmitComplete"})
        BY <2>2, <3>1
      <4> QED
        BY <1>1, <2>3, <4>1 DEF ChainInv, Tidy
    <3>3. Pending(n, {"TransmitComplete"}) = {i}
      BY <2>2, <3>1, <3>2
    <3> QED
      BY <2>4, <3>3, FS_Singleton
  <2>5. CASE machineState[n] # "BUSY"
    <3>1. "TransmitComplete" \notin Kinds(machineState[n])
      BY <2>1, <2>5 DEF Kinds, MachineState
    <3>2. Only(calendar, n, Kinds(machineState[n]))
      BY <1>1 DEF ChainInv
    <3> QED
      BY <2>3, <2>5, <3>1, <3>2 DEF Only
  <2> QED
    BY <2>4, <2>5
<1>2. LinkTypes /\ ChainInv => BusyCompletes
  BY <1>1 DEF BusyCompletes
<1> QED
  BY <1>2, ChainInvariant, PTL

\* Under the same conditions the assertion of SpWDevice::TransmitComplete never
\* fails: the device is BUSY when one of its transmissions completes
\* (spw-device.cc:277).
THEOREM AssertionHolds ==
  ASSUME OneAtATime, ShutdownIn \subseteq {"RUN"}, APPROACH_TIME <= SPW_HALF_DELAY
  PROVE  Spec => []CompletesInBusy
<1>1. ASSUME LinkTypes, ChainInv, NEW n \in Node, Runs("TransmitComplete", n)
      PROVE  machineState[n] = "BUSY"
  <2>1. /\ Len(calendar) \in Nat /\ Len(calendar) > 0 /\ Head(calendar) = calendar[1]
        /\ machineState[n] \in MachineState
    BY <1>1, CalendarTypes DEF Runs, LinkTypes, DeviceInv, Calendar
  <2>2. /\ 1 \in 1 .. Len(calendar) /\ calendar[1].dev = n
        /\ Kind(calendar[1]) = "TransmitComplete" /\ "TransmitComplete" \in Own
    BY <1>1, <2>1 DEF Runs, Kind, Own
  <2>3. "TransmitComplete" \in Kinds(machineState[n])
    BY <1>1, <2>2 DEF ChainInv, Only
  <2> QED
    BY <2>1, <2>3 DEF Kinds, MachineState
<1>2. LinkTypes /\ ChainInv => CompletesInBusy
  BY <1>1 DEF CompletesInBusy
<1> QED
  BY <1>2, ChainInvariant, PTL

\* Under the same conditions a device that is connected has no NULL, FCT, timeout
\* or change of state of its own on the calendar (RunSpWState,
\* spw-device.cc:644-657).
THEOREM QuietOnceConnected ==
  ASSUME OneAtATime, ShutdownIn \subseteq {"RUN"}, APPROACH_TIME <= SPW_HALF_DELAY
  PROVE  Spec => []EstablishedIsQuiet
<1> DEFINE D == {"SendNull", "SendFCT", "ErrorReset", "ErrorWait", "Ready"}
<1>1. ASSUME LinkTypes, ChainInv, NEW n \in Node, Up(n) PROVE Pending(n, D) = {}
  <2>1. DOMAIN calendar = 1 .. Len(calendar)
    BY <1>1, CalendarTypes DEF LinkTypes
  <2> SUFFICES ASSUME NEW i \in 1 .. Len(calendar), calendar[i].dev = n, calendar[i].do \in D
               PROVE  FALSE
    BY <2>1 DEF Pending
  <2>2. Kind(calendar[i]) \in Own \ {"TransmitComplete", "ApproachLinkDisconnection"}
    BY DEF Kind, Own, Chain
  <2>3. Kind(calendar[i]) \in Kinds(machineState[n])
    BY <1>1, <2>2 DEF ChainInv, Only
  <2> QED
    BY <1>1, <2>2, <2>3 DEF Up, Kinds
<1>2. LinkTypes /\ ChainInv => EstablishedIsQuiet
  BY <1>1 DEF EstablishedIsQuiet
<1> QED
  BY <1>2, ChainInvariant, PTL

-----------------------------------------------------------------------------
(***************************************************************************)
(* What is on its way from a device to the other, as sequences of packets. *)
(***************************************************************************)

\* g names the members of K, which has no others, in their order.
Enumerates(g, m, K) ==
  /\ g \in [1 .. m -> K]
  /\ \A i, j \in 1 .. m : i < j => g[i] < g[j]
  /\ \A x \in K : \E i \in 1 .. m : g[i] = x

\* There is only one way to name them.
LEMMA Ranks ==
  ASSUME NEW N \in Nat, NEW K \in SUBSET (1 .. N), NEW m \in Nat, NEW g, Enumerates(g, m, K)
  PROVE  m = Cardinality(K) /\ \A k \in 1 .. m : g[k] = Nth(K, k)
<1>0. g \in [1 .. m -> K] /\ \A x \in K : x \in Nat
  BY DEF Enumerates
<1>1. g \in [1 .. m -> K] /\ \A i \in 1 .. m : g[i] \in Nat
  BY <1>0
<1>2. \A i, j \in 1 .. m : i < j => g[i] < g[j]
  BY DEF Enumerates
<1>3. \A i, j \in 1 .. m : g[i] = g[j] => i = j
  <2>1. SUFFICES ASSUME NEW i \in 1 .. m, NEW j \in 1 .. m, i # j PROVE g[i] # g[j]
    OBVIOUS
  <2>2. i < j \/ j < i
    BY <2>1
  <2>3. g[i] < g[j] \/ g[j] < g[i]
    BY <1>2, <2>2
  <2> QED
    BY <1>1, <2>3
<1>4. ASSUME NEW k \in 1 .. m PROVE Cardinality(LowerPart(K, g[k])) = k
  <2> DEFINE h == [i \in 1 .. k |-> g[i]]
  <2>1. \A i \in 1 .. k : i \in 1 .. m /\ h[i] = g[i]
    OBVIOUS
  <2>2. \A i \in 1 .. k : g[i] \in LowerPart(K, g[k])
    <3>1. SUFFICES ASSUME NEW i \in 1 .. k PROVE g[i] \in LowerPart(K, g[k])
      OBVIOUS
    <3>2. i \in 1 .. m /\ (i < k \/ i = k)
      OBVIOUS
    <3>3. g[i] < g[k] \/ g[i] = g[k]
      BY <1>2, <3>2
    <3>4. g[i] \in K /\ g[i] <= g[k]
      BY <1>1, <3>2, <3>3
    <3> QED
      BY <3>4 DEF LowerPart
  <2>3. \A x \in LowerPart(K, g[k]) : \E i \in 1 .. k : g[i] = x
    <3>1. SUFFICES ASSUME NEW x \in LowerPart(K, g[k]) PROVE \E i \in 1 .. k : g[i] = x
      OBVIOUS
    <3>2. x \in K /\ x <= g[k] /\ x \in Nat
      BY DEF LowerPart
    <3>3. PICK i \in 1 .. m : g[i] = x
      BY <3>2 DEF Enumerates
    <3>4. ~(k < i)
      <4>1. k < i => g[k] < g[i]
        BY <1>2
      <4> QED
        BY <1>1, <3>2, <3>3, <4>1
    <3>5. i \in 1 .. k
      BY <3>4
    <3> QED
      BY <3>3, <3>5
  <2>4. h \in [1 .. k -> LowerPart(K, g[k])]
    BY <2>2
  <2>5. h \in Injection(1 .. k, LowerPart(K, g[k]))
    <3>1. \A i, j \in 1 .. k : h[i] = h[j] => i = j
      BY <1>3, <2>1
    <3> QED
      BY <2>4, <3>1 DEF Injection, IsInjective
  <2>6. h \in Surjection(1 .. k, LowerPart(K, g[k]))
    BY <2>3, <2>4 DEF Surjection
  <2>7. ExistsBijection(1 .. k, LowerPart(K, g[k]))
    BY <2>5, <2>6 DEF ExistsBijection, Bijection
  <2>8. k \in Nat
    OBVIOUS
  <2> HIDE DEF h
  <2> QED
    BY <2>7, <2>8, FS_CountingElements
<1>5. m = Cardinality(K)
  <2>1. g \in Injection(1 .. m, K)
    BY <1>1, <1>3 DEF Injection, IsInjective
  <2>2. g \in Surjection(1 .. m, K)
    BY <1>1 DEF Surjection, Enumerates
  <2>3. ExistsBijection(1 .. m, K)
    BY <2>1, <2>2 DEF ExistsBijection, Bijection
  <2> QED
    BY <2>3, FS_CountingElements
<1>6. ASSUME NEW k \in 1 .. m PROVE g[k] = Nth(K, k)
  <2>1. k \in 1 .. Cardinality(K)
    BY <1>5
  <2>2. Nth(K, k) \in K /\ Cardinality(LowerPart(K, Nth(K, k))) = k
    BY <2>1, NthExists
  <2>3. \A i \in K, j \in K : i < j => Cardinality(LowerPart(K, i)) < Cardinality(LowerPart(K, j))
    BY LowerPartGrows
  <2>4. g[k] \in K /\ Cardinality(LowerPart(K, g[k])) = k
    BY <1>1, <1>4
  <2>5. g[k] \in Nat /\ Nth(K, k) \in Nat
    BY <1>0, <2>2, <2>4
  <2>6. ~(k < k)
    OBVIOUS
  <2>7. ~(g[k] < Nth(K, k)) /\ ~(Nth(K, k) < g[k])
    BY <2>2, <2>3, <2>4, <2>5, <2>6
  <2> QED
    BY <2>5, <2>7
<1> QED
  BY <1>5, <1>6

\* And there is one.
LEMMA RanksExist ==
  ASSUME NEW N \in Nat, NEW K \in SUBSET (1 .. N)
  PROVE  /\ Cardinality(K) \in Nat
         /\ Enumerates([k \in 1 .. Cardinality(K) |-> Nth(K, k)], Cardinality(K), K)
<1> DEFINE m == Cardinality(K)
           g == [k \in 1 .. m |-> Nth(K, k)]
           rank(i) == Cardinality(LowerPart(K, i))
<1>1. m \in Nat
  BY LowerPartGrows, FS_CardinalityType
<1>2. \A k \in 1 .. m : g[k] \in K /\ rank(g[k]) = k
  BY NthExists
<1>3. \A i \in K, j \in K : i < j => rank(i) < rank(j)
  BY LowerPartGrows
<1>4. \A i \in K : i \in Nat /\ rank(i) \in 1 .. m
  <2>1. SUFFICES ASSUME NEW i \in K PROVE i \in Nat /\ rank(i) \in 1 .. m
    OBVIOUS
  <2>1a. i \in 1 .. N /\ IsFiniteSet(K)
    BY LowerPartGrows
  <2>2. i \in 1 .. N /\ IsFiniteSet(K) /\ LowerPart(K, i) \in SUBSET K /\ i \in LowerPart(K, i)
    BY <2>1a DEF LowerPart
  <2>3. rank(i) \in Nat /\ rank(i) <= m /\ rank(i) # 0
    BY <2>2, FS_Subset, FS_CardinalityType, FS_EmptySet
  <2> HIDE DEF rank, m
  <2> QED
    BY <1>1, <2>2, <2>3
<1>5. \A i \in K, j \in K : rank(i) = rank(j) => i = j
  <2>1. SUFFICES ASSUME NEW i \in K, NEW j \in K, rank(i) = rank(j), i # j PROVE FALSE
    OBVIOUS
  <2> HIDE DEF rank
  <2>2. rank(i) < rank(j) \/ rank(j) < rank(i)
    BY <1>3, <1>4, <2>1
  <2> QED
    BY <1>4, <2>1, <2>2
<1>6. g \in [1 .. m -> K]
  BY <1>2
<1> HIDE DEF rank, g, m
<1>7. \A i, j \in 1 .. m : i < j => g[i] < g[j]
  <2>1. SUFFICES ASSUME NEW i \in 1 .. m, NEW j \in 1 .. m, i < j, ~(g[i] < g[j]) PROVE FALSE
    OBVIOUS
  <2>1a. g[i] \in Nat /\ g[j] \in Nat
    BY <1>2, <1>4
  <2>2. g[j] < g[i] \/ g[i] = g[j]
    BY <2>1, <2>1a
  <2>3. j < i \/ i = j
    BY <1>2, <1>3, <2>2
  <2> QED
    BY <1>1, <2>1, <2>3
<1>8. \A x \in K : \E i \in 1 .. m : g[i] = x
  BY <1>2, <1>4, <1>5
<1>9. Enumerates(g, m, K)
  BY <1>6, <1>7, <1>8 DEF Enumerates
<1> QED
  BY <1>1, <1>9 DEF g, m

\* The places of the events do of n.
Places(c, n, do) == {i \in 1 .. Len(c) : c[i].dev = n /\ c[i].do = do}

\* s lists the packets of these events, which are at the places g names.
Lists(s, c, n, do, g) ==
  /\ s \in Seq(Uid)
  /\ Enumerates(g, Len(s), Places(c, n, do))
  /\ \A k \in 1 .. Len(s) : s[k] = c[g[k]].uid

LEMMA CarriedLists ==
  ASSUME NEW c, Calendar(c), NEW n, NEW do \in Carrying
  PROVE  /\ Carried(c, n, do) \in Seq(Uid)
         /\ \E g : Lists(Carried(c, n, do), c, n, do, g)
<1> DEFINE K == Places(c, n, do)
           m == Cardinality(K)
           g == [k \in 1 .. m |-> Nth(K, k)]
           s == [k \in 1 .. m |-> c[Nth(K, k)].uid]
<1>1. /\ Len(c) \in Nat /\ DOMAIN c = 1 .. Len(c)
      /\ \A i \in 1 .. Len(c) : c[i].do \in Carrying => c[i].uid \in Uid
  BY CalendarTypes DEF Calendar
<1>2. K \in SUBSET (1 .. Len(c))
  BY DEF Places
<1>3. Carried(c, n, do) = s
  BY <1>1 DEF Carried, Places
<1>4. \A i \in K : c[i].uid \in Uid
  BY <1>1 DEF Places
<1> HIDE DEF K
<1>5. m \in Nat /\ Enumerates(g, m, K)
  BY <1>1, <1>2, RanksExist
<1>6. \A k \in 1 .. m : g[k] \in K
  BY <1>5 DEF Enumerates
<1>7. \A k \in 1 .. m : s[k] = c[g[k]].uid /\ s[k] \in Uid
  BY <1>4, <1>6
<1>8. s \in [1 .. m -> Uid]
  BY <1>7
<1> HIDE DEF s, g, m
<1>9. s \in Seq(Uid) /\ Len(s) = m
  BY <1>5, <1>8, SeqDef
<1>10. Lists(s, c, n, do, g)
  BY <1>5, <1>7, <1>9 DEF Lists, K
<1> QED
  BY <1>3, <1>9, <1>10

\* Nothing else lists them.
LEMMA ListIsCarried ==
  ASSUME NEW c, Calendar(c), NEW n, NEW do \in Carrying, NEW s, NEW g, Lists(s, c, n, do, g)
  PROVE  Carried(c, n, do) = s
<1> DEFINE K == Places(c, n, do)
           t == [k \in 1 .. Cardinality(K) |-> c[Nth(K, k)].uid]
<1>1. Len(c) \in Nat /\ DOMAIN c = 1 .. Len(c)
  BY CalendarTypes
<1>2. K \in SUBSET (1 .. Len(c))
  BY DEF Places
<1>3. Carried(c, n, do) = t
  BY <1>1 DEF Carried, Places
<1>4. /\ s \in Seq(Uid) /\ Len(s) \in Nat /\ Enumerates(g, Len(s), K)
      /\ \A k \in 1 .. Len(s) : s[k] = c[g[k]].uid
  BY LenProperties DEF Lists
<1> HIDE DEF K
<1>5. Len(s) = Cardinality(K) /\ \A k \in 1 .. Len(s) : g[k] = Nth(K, k)
  BY <1>1, <1>2, <1>4, Ranks
<1>6. s = [k \in 1 .. Len(s) |-> s[k]]
  BY <1>4
<1>7. \A k \in 1 .. Len(s) : s[k] = t[k]
  BY <1>4, <1>5
<1>8. s = t
  BY <1>5, <1>6, <1>7
<1> QED
  BY <1>3, <1>8

\* h takes each packet of s to its place among the events do of n.
Leads(h, s, c, n, do) ==
  /\ Len(s) \in Nat
  /\ h \in [1 .. Len(s) -> Places(c, n, do)]
  /\ \A i, j \in 1 .. Len(s) : i < j => h[i] < h[j]
  /\ \A k \in 1 .. Len(s) : s[k] = c[h[k]].uid

\* Of a calendar r that has nothing but events of c, every packet of do is one of
\* c's, in the same order; the same packets if no event of do is left out.
LEMMA EmbeddedPlaces ==
  ASSUME NEW c, Len(c) \in Nat, NEW r, Len(r) \in Nat, NEW f, Embeds(r, c, f),
         NEW n, NEW do, NEW s, NEW g, Lists(s, r, n, do, g),
         NEW h, h = [k \in 1 .. Len(s) |-> f[g[k]]]
  PROVE  /\ Leads(h, s, c, n, do)
         /\ (\A i \in Places(c, n, do) : \E j \in 1 .. Len(r) : f[j] = i) =>
              Lists(s, c, n, do, h)
<1> DEFINE K == Places(r, n, do)
<1>1. /\ s \in Seq(Uid) /\ Len(s) \in Nat /\ g \in [1 .. Len(s) -> K]
      /\ \A i, j \in 1 .. Len(s) : i < j => g[i] < g[j]
      /\ \A x \in K : \E i \in 1 .. Len(s) : g[i] = x
      /\ \A k \in 1 .. Len(s) : s[k] = r[g[k]].uid
  BY LenProperties DEF Lists, Enumerates
<1>2. /\ \A i \in 1 .. Len(r) : /\ f[i] \in 1 .. Len(c)
                                /\ r[i].dev = c[f[i]].dev /\ r[i].do = c[f[i]].do
                                /\ r[i].uid = c[f[i]].uid
      /\ \A i, j \in 1 .. Len(r) : i < j => f[i] < f[j]
  BY DEF Embeds, SameEvent
<1>3. \A i \in 1 .. Len(r) : i \in K <=> f[i] \in Places(c, n, do)
  BY <1>2 DEF Places
<1>4. \A k \in 1 .. Len(s) : g[k] \in K /\ g[k] \in 1 .. Len(r)
  BY <1>1 DEF Places
<1> HIDE DEF K
<1>5. h \in [1 .. Len(s) -> Places(c, n, do)]
  BY <1>3, <1>4
<1>6. \A i, j \in 1 .. Len(s) : i < j => h[i] < h[j]
  BY <1>1, <1>2, <1>4
<1>7. \A k \in 1 .. Len(s) : s[k] = c[h[k]].uid
  BY <1>1, <1>2, <1>4
<1>8. ASSUME \A i \in Places(c, n, do) : \E j \in 1 .. Len(r) : f[j] = i
      PROVE  Lists(s, c, n, do, h)
  <2>1. ASSUME NEW x \in Places(c, n, do) PROVE \E k \in 1 .. Len(s) : h[k] = x
    <3>1. PICK j \in 1 .. Len(r) : f[j] = x
      BY <1>8
    <3>2. PICK k \in 1 .. Len(s) : g[k] = j
      BY <1>1, <1>3, <3>1
    <3> QED
      BY <3>1, <3>2
  <2> QED
    BY <1>1, <1>5, <1>6, <1>7, <2>1 DEF Lists, Enumerates
<1> QED
  BY <1>1, <1>5, <1>6, <1>7, <1>8 DEF Leads

LEMMA SameCarried ==
  ASSUME NEW c, Calendar(c), NEW r, Calendar(r), NEW f, Embeds(r, c, f),
         NEW n, NEW do \in Carrying,
         \A i \in Places(c, n, do) : \E j \in 1 .. Len(r) : f[j] = i
  PROVE  Carried(r, n, do) = Carried(c, n, do)
<1>1. Len(c) \in Nat /\ Len(r) \in Nat
  BY CalendarTypes
<1>2. PICK g : Lists(Carried(r, n, do), r, n, do, g)
  BY CarriedLists
<1> DEFINE s == Carried(r, n, do)
           h == [k \in 1 .. Len(s) |-> f[g[k]]]
<1>3. Lists(s, c, n, do, h)
  <2>1. Lists(s, r, n, do, g) /\ h = [k \in 1 .. Len(s) |-> f[g[k]]]
    BY <1>2
  <2> HIDE DEF s, h
  <2> QED
    BY <1>1, <2>1, EmbeddedPlaces
<1> QED
  BY <1>3, ListIsCarried

\* Strictly increasing numbers leave room for no more of them.
LEMMA NoMore ==
  ASSUME NEW M \in Nat, NEW m \in Nat, NEW f \in [1 .. m -> 1 .. M],
         \A i, j \in 1 .. m : i < j => f[i] < f[j]
  PROVE  m <= M
<1>1. \A i, j \in 1 .. m : f[i] = f[j] => i = j
  <2>1. SUFFICES ASSUME NEW i \in 1 .. m, NEW j \in 1 .. m, i # j PROVE f[i] # f[j]
    OBVIOUS
  <2>2. i < j \/ j < i
    BY <2>1
  <2>3. (f[i] < f[j] \/ f[j] < f[i]) /\ f[i] \in Nat /\ f[j] \in Nat
    BY <2>2
  <2> QED
    BY <2>3
<1>2. f \in Injection(1 .. m, 1 .. M)
  BY <1>1 DEF Injection, IsInjective
<1>3. /\ IsFiniteSet(1 .. M) /\ Cardinality(1 .. M) = M
      /\ Cardinality(1 .. m) = m
  BY FS_Interval
<1>4. Cardinality(1 .. m) <= Cardinality(1 .. M)
  BY <1>2, <1>3, FS_Injection
<1> QED
  BY <1>3, <1>4

\* How to show that t is what is left of s.
LEMMA ThinnedBy ==
  ASSUME NEW S, NEW s \in Seq(S), NEW t \in Seq(S), NEW p \in [1 .. Len(t) -> 1 .. Len(s)],
         \A i, j \in 1 .. Len(t) : i < j => p[i] < p[j],
         \A k \in 1 .. Len(t) : t[k] = s[p[k]]
  PROVE  t \in Abstract!Thinned(s)
<1>1. Len(s) \in Nat /\ Len(t) \in Nat /\ DOMAIN s = 1 .. Len(s)
  BY LenProperties
<1>2. Len(t) \in 0 .. Len(s)
  <2>1. Len(t) <= Len(s)
    BY <1>1, NoMore
  <2> QED
    BY <1>1, <2>1
<1>3. t = [k \in 1 .. Len(t) |-> t[k]]
  BY <1>1
<1>4. t = [k \in 1 .. Len(t) |-> s[p[k]]]
  BY <1>3
<1>5. p \in {q \in [1 .. Len(t) -> DOMAIN s] :
               \A i, j \in 1 .. Len(t) : i < j => q[i] < q[j]}
  BY <1>1
<1> QED
  BY <1>2, <1>4, <1>5 DEF Abstract!Thinned

LEMMA ThinnedCarried ==
  ASSUME NEW c, Calendar(c), NEW r, Calendar(r), NEW f, Embeds(r, c, f),
         NEW n, NEW do \in Carrying
  PROVE  Carried(r, n, do) \in Abstract!Thinned(Carried(c, n, do))
<1> DEFINE s == Carried(c, n, do)
           t == Carried(r, n, do)
           K == Places(c, n, do)
           rank(i) == Cardinality(LowerPart(K, i))
<1>1. Len(c) \in Nat /\ Len(r) \in Nat
  BY CalendarTypes
<1>2. PICK g : Lists(t, r, n, do, g)
  BY CarriedLists
<1>3. s \in Seq(Uid) /\ t \in Seq(Uid)
  BY CarriedLists
<1>4. PICK e : Lists(s, c, n, do, e)
  BY CarriedLists
<1> HIDE DEF s, t
<1> DEFINE h == [k \in 1 .. Len(t) |-> f[g[k]]]
<1>5. /\ h \in [1 .. Len(t) -> K] /\ Len(t) \in Nat
      /\ \A i, j \in 1 .. Len(t) : i < j => h[i] < h[j]
      /\ \A k \in 1 .. Len(t) : t[k] = c[h[k]].uid
  <2>1. h = [k \in 1 .. Len(t) |-> f[g[k]]]
    OBVIOUS
  <2> HIDE DEF h
  <2>2. Leads(h, t, c, n, do)
    BY <1>1, <1>2, <2>1, EmbeddedPlaces
  <2> QED
    BY <2>2 DEF Leads
<1>6. /\ e \in [1 .. Len(s) -> K] /\ Len(s) \in Nat
      /\ \A i, j \in 1 .. Len(s) : i < j => e[i] < e[j]
      /\ \A x \in K : \E i \in 1 .. Len(s) : e[i] = x
      /\ \A k \in 1 .. Len(s) : s[k] = c[e[k]].uid
  BY <1>3, <1>4, LenProperties DEF Lists, Enumerates
<1> HIDE DEF h
<1>7. \A x \in K : x \in Nat
  BY DEF Places
<1> HIDE DEF K
<1> DEFINE p == [k \in 1 .. Len(t) |-> CHOOSE i \in 1 .. Len(s) : e[i] = h[k]]
<1>8. \A k \in 1 .. Len(t) : p[k] \in 1 .. Len(s) /\ e[p[k]] = h[k]
  <2>1. SUFFICES ASSUME NEW k \in 1 .. Len(t) PROVE p[k] \in 1 .. Len(s) /\ e[p[k]] = h[k]
    OBVIOUS
  <2>2. h[k] \in K
    BY <1>5
  <2>3. \E i \in 1 .. Len(s) : e[i] = h[k]
    BY <1>6, <2>2
  <2> QED
    BY <2>3
<1>9. p \in [1 .. Len(t) -> 1 .. Len(s)]
  BY <1>8
<1> HIDE DEF p
<1>10. \A i, j \in 1 .. Len(t) : i < j => p[i] < p[j]
  <2>1. SUFFICES ASSUME NEW i \in 1 .. Len(t), NEW j \in 1 .. Len(t), i < j, ~(p[i] < p[j])
                 PROVE  FALSE
    OBVIOUS
  <2>2. p[i] \in 1 .. Len(s) /\ p[j] \in 1 .. Len(s)
    BY <1>8
  <2>3. p[j] < p[i] \/ p[j] = p[i]
    BY <1>6, <2>1, <2>2
  <2>4. h[j] < h[i] \/ h[j] = h[i]
    BY <1>6, <1>8, <2>2, <2>3
  <2>5. h[i] \in Nat /\ h[j] \in Nat /\ h[i] < h[j]
    BY <1>5, <1>7, <2>1
  <2> QED
    BY <2>4, <2>5
<1>11. \A k \in 1 .. Len(t) : t[k] = s[p[k]]
  BY <1>5, <1>6, <1>8
<1>12. t \in Abstract!Thinned(s)
  BY <1>3, <1>9, <1>10, <1>11, ThinnedBy
<1> QED
  BY <1>12 DEF s, t

\* What InsertAt does, element by element.
LEMMA InsertAtIs ==
  ASSUME NEW S, NEW s \in Seq(S), NEW u \in S, NEW q \in 1 .. Len(s) + 1
  PROVE  /\ InsertAt(s, q, u) \in Seq(S) /\ Len(InsertAt(s, q, u)) = Len(s) + 1
         /\ \A k \in 1 .. Len(s) + 1 :
              InsertAt(s, q, u)[k] = IF k < q THEN s[k] ELSE IF k = q THEN u ELSE s[k - 1]
<1> DEFINE a == SubSeq(s, 1, q - 1)
           b == SubSeq(s, q, Len(s))
<1>1. Len(s) \in Nat /\ q \in Nat
  BY LenProperties
<1>2. a \in Seq(S) /\ Len(a) = q - 1 /\ \A k \in 1 .. q - 1 : a[k] = s[k]
  BY <1>1, SubSeqProperties
<1>3. b \in Seq(S) /\ Len(b) = Len(s) - q + 1 /\ \A k \in 1 .. Len(s) - q + 1 : b[k] = s[q + k - 1]
  BY <1>1, SubSeqProperties
<1>4. InsertAt(s, q, u) = a \o <<u>> \o b
  BY DEF InsertAt
<1> HIDE DEF a, b
<1>5. <<u>> \in Seq(S) /\ Len(<<u>>) = 1 /\ <<u>>[1] = u
  OBVIOUS
<1> DEFINE x == a \o <<u>>
<1>6. x \in Seq(S) /\ Len(x) = q /\ \A k \in 1 .. q : x[k] = IF k < q THEN s[k] ELSE u
  <2>1. x \in Seq(S) /\ Len(x) = q
    BY <1>1, <1>2, <1>5
  <2>2. \A k \in 1 .. q : x[k] = IF k <= q - 1 THEN a[k] ELSE <<u>>[k - (q - 1)]
    BY <1>1, <1>2, <1>5
  <2>3. ASSUME NEW k \in 1 .. q PROVE x[k] = IF k < q THEN s[k] ELSE u
    <3>1. CASE k < q
      <4>1. k <= q - 1 /\ k \in 1 .. q - 1
        BY <1>1, <3>1
      <4> QED
        BY <1>2, <2>2, <3>1, <4>1
    <3>2. CASE k = q
      <4>1. ~(k <= q - 1) /\ k - (q - 1) = 1 /\ ~(k < q)
        BY <1>1, <3>2
      <4>2. x[k] = <<u>>[1]
        BY <2>2, <4>1
      <4> QED
        BY <1>5, <4>1, <4>2
    <3>3. k < q \/ k = q
      BY <1>1
    <3> QED
      BY <3>1, <3>2, <3>3
  <2> QED
    BY <2>1, <2>3
<1> HIDE DEF x
<1> DEFINE r == x \o b
<1>7. r \in Seq(S) /\ Len(r) = Len(s) + 1
  BY <1>1, <1>3, <1>6
<1>8. \A k \in 1 .. Len(s) + 1 : r[k] = IF k <= q THEN x[k] ELSE b[k - q]
  BY <1>1, <1>3, <1>6
<1>9. ASSUME NEW k \in 1 .. Len(s) + 1
      PROVE  r[k] = IF k < q THEN s[k] ELSE IF k = q THEN u ELSE s[k - 1]
  <2>1. CASE k <= q
    <3>1. k \in 1 .. q
      BY <1>1, <2>1
    <3> QED
      BY <1>1, <1>6, <1>8, <2>1, <3>1
  <2>2. CASE ~(k <= q)
    <3>1. k - q \in 1 .. Len(s) - q + 1 /\ q + (k - q) - 1 = k - 1 /\ ~(k < q) /\ k # q
      BY <1>1, <2>2
    <3>2. b[k - q] = s[k - 1]
      BY <1>3, <3>1
    <3> QED
      BY <1>8, <2>2, <3>1, <3>2
  <2> QED
    BY <2>1, <2>2
<1>10. InsertAt(s, q, u) = r
  BY <1>4 DEF x
<1> HIDE DEF r
<1> QED
  BY <1>7, <1>9, <1>10

LEMMA InsertAtUid ==
  ASSUME NEW s \in Seq(Uid), NEW u \in Uid, NEW q \in 1 .. Len(s) + 1
  PROVE  /\ InsertAt(s, q, u) \in Seq(Uid) /\ Len(InsertAt(s, q, u)) = Len(s) + 1
         /\ \A k \in 1 .. Len(s) + 1 :
              InsertAt(s, q, u)[k] = IF k < q THEN s[k] ELSE IF k = q THEN u ELSE s[k - 1]
BY InsertAtIs

\* Putting a packet last is appending it.
LEMMA InsertAtEnd ==
  ASSUME NEW S, NEW s \in Seq(S), NEW u \in S
  PROVE  InsertAt(s, Len(s) + 1, u) = Append(s, u)
<1> DEFINE r == InsertAt(s, Len(s) + 1, u)
           t == Append(s, u)
<1>1. Len(s) \in Nat /\ Len(s) + 1 \in 1 .. Len(s) + 1
  BY LenProperties
<1>2. /\ r \in Seq(S) /\ Len(r) = Len(s) + 1
      /\ \A k \in 1 .. Len(s) + 1 :
           r[k] = IF k < Len(s) + 1 THEN s[k] ELSE IF k = Len(s) + 1 THEN u ELSE s[k - 1]
  BY <1>1, InsertAtIs
<1>3. /\ t \in Seq(S) /\ Len(t) = Len(s) + 1
      /\ \A k \in 1 .. Len(s) : t[k] = s[k]
      /\ t[Len(s) + 1] = u
  BY AppendProperties
<1> HIDE DEF r, t
<1>4. \A k \in 1 .. Len(r) : r[k] = t[k]
  <2>1. SUFFICES ASSUME NEW k \in 1 .. Len(s) + 1 PROVE r[k] = t[k]
    BY <1>2
  <2>2. \/ k < Len(s) + 1 /\ k \in 1 .. Len(s)
        \/ k = Len(s) + 1 /\ ~(k < Len(s) + 1)
    BY <1>1
  <2> QED
    BY <1>2, <1>3, <2>2
<1> QED
  BY <1>2, <1>3, <1>4, SeqEqual DEF r, t

\* The event that runs first takes the packet of its kind that is first away, and
\* no other packet.
LEMMA FirstLeaves ==
  ASSUME Calendar(calendar), calendar # <<>>, NEW n, NEW do \in Carrying
  PROVE  LET s == Carried(calendar, n, do)
         IN  IF Runs(do, n) THEN /\ s # <<>> /\ Head(s) = Head(calendar).uid
                                 /\ Tail(s) = Carried(Rest, n, do)
             ELSE Carried(Rest, n, do) = s
<1> DEFINE r == Rest
           N == Len(calendar)
           t == Carried(r, n, do)
           e == Head(calendar)
<1>1. /\ N \in Nat \ {0} /\ e = calendar[1]
      /\ Calendar(r) /\ Len(r) = N - 1
      /\ \A i \in 1 .. Len(r) : i + 1 \in 1 .. N /\ SameEvent(r[i], calendar[i + 1])
  BY RestCalendar
<1>2. Embeds(r, calendar, [i \in 1 .. Len(r) |-> i + 1]) /\ Len(r) \in Nat
  BY RestEmbeds
<1>3. \A i \in 1 .. N : calendar[i].do \in Carrying => calendar[i].uid \in Uid
  BY DEF Calendar
<1> HIDE DEF r
<1>4. CASE ~Runs(do, n)
  <2> DEFINE f == [i \in 1 .. Len(r) |-> i + 1]
  <2>1. 1 \notin Places(calendar, n, do)
    BY <1>1, <1>4 DEF Runs, Places
  <2>2. \A i \in Places(calendar, n, do) : \E j \in 1 .. Len(r) : f[j] = i
    <3>1. SUFFICES ASSUME NEW i \in Places(calendar, n, do)
                   PROVE  \E j \in 1 .. Len(r) : f[j] = i
      OBVIOUS
    <3>2. i \in 1 .. N /\ i # 1
      BY <2>1 DEF Places
    <3>3. i - 1 \in 1 .. Len(r) /\ (i - 1) + 1 = i
      BY <1>1, <3>2
    <3> QED
      BY <3>3
  <2> HIDE DEF f
  <2>3. Embeds(r, calendar, f)
    BY <1>2 DEF f
  <2>4. Carried(r, n, do) = Carried(calendar, n, do)
    BY <1>1, <2>2, <2>3, SameCarried
  <2> QED
    BY <1>4, <2>4 DEF r
<1>5. CASE Runs(do, n)
  <2>1. PICK g : Lists(t, r, n, do, g)
    BY <1>1, CarriedLists
  <2>2. t \in Seq(Uid)
    BY <1>1, CarriedLists
  <2> HIDE DEF t
  <2> DEFINE m == Len(t)
             s == <<e.uid>> \o t
             h == [k \in 1 .. m + 1 |-> IF k = 1 THEN 1 ELSE g[k - 1] + 1]
             K == Places(calendar, n, do)
  <2>3. /\ m \in Nat /\ g \in [1 .. m -> Places(r, n, do)]
        /\ \A i, j \in 1 .. m : i < j => g[i] < g[j]
        /\ \A x \in Places(r, n, do) : \E i \in 1 .. m : g[i] = x
        /\ \A k \in 1 .. m : t[k] = r[g[k]].uid
    BY <2>1, <2>2, LenProperties DEF Lists, Enumerates
  <2>4. e.dev = n /\ e.do = do /\ e.uid \in Uid /\ 1 \in K
    BY <1>1, <1>3, <1>5 DEF Runs, Places
  <2>5. \A i \in 1 .. N - 1 : i \in Places(r, n, do) <=> i + 1 \in K
    BY <1>1 DEF Places, SameEvent
  <2>6. \A i \in Places(r, n, do) : i \in 1 .. N - 1 /\ i + 1 \in K /\ i + 1 # 1
                                    /\ r[i].uid = calendar[i + 1].uid
    BY <1>1, <2>5 DEF Places, SameEvent
  <2>6a. \A i \in K : i \in 1 .. N
    BY DEF Places
  <2> HIDE DEF K, m
  <2>7. /\ h \in [1 .. m + 1 -> K] /\ h[1] = 1
        /\ \A k \in 2 .. m + 1 : k - 1 \in 1 .. m /\ h[k] = g[k - 1] + 1
    <3>1. \A k \in 2 .. m + 1 : k - 1 \in 1 .. m /\ k \in 1 .. m + 1 /\ k # 1
      BY <2>3
    <3>2. \A k \in 2 .. m + 1 : h[k] = g[k - 1] + 1 /\ h[k] \in K
      BY <2>3, <2>6, <3>1
    <3>3. 1 \in 1 .. m + 1 /\ \A k \in 1 .. m + 1 : k = 1 \/ k \in 2 .. m + 1
      BY <2>3
    <3>4. h[1] = 1
      BY <3>3
    <3> QED
      BY <2>4, <3>1, <3>2, <3>3, <3>4
  <2> HIDE DEF h
  <2>8. \A i, j \in 1 .. m + 1 : i < j => h[i] < h[j]
    <3>1. SUFFICES ASSUME NEW i \in 1 .. m + 1, NEW j \in 1 .. m + 1, i < j PROVE h[i] < h[j]
      OBVIOUS
    <3>2. j \in 2 .. m + 1 /\ (i = 1 \/ i \in 2 .. m + 1)
      BY <2>3, <3>1
    <3>3. h[j] = g[j - 1] + 1 /\ j - 1 \in 1 .. m /\ g[j - 1] \in 1 .. N - 1
      BY <2>3, <2>6, <2>7, <3>2
    <3>4. CASE i = 1
      BY <1>1, <2>7, <3>3, <3>4
    <3>5. CASE i \in 2 .. m + 1
      <4>1. h[i] = g[i - 1] + 1 /\ i - 1 \in 1 .. m /\ g[i - 1] \in 1 .. N - 1
        BY <2>3, <2>6, <2>7, <3>5
      <4>2. i - 1 < j - 1
        BY <3>1
      <4>3. g[i - 1] < g[j - 1]
        BY <2>3, <3>3, <4>1, <4>2
      <4> QED
        BY <1>1, <3>3, <4>1, <4>3
    <3> QED
      BY <3>2, <3>4, <3>5
  <2>9. \A x \in K : \E i \in 1 .. m + 1 : h[i] = x
    <3>1. SUFFICES ASSUME NEW x \in K, x # 1 PROVE \E i \in 1 .. m + 1 : h[i] = x
      <4>1. 1 \in 1 .. m + 1
        BY <2>3
      <4> QED
        BY <2>7, <4>1
    <3>2. x - 1 \in 1 .. N - 1 /\ (x - 1) + 1 = x
      BY <1>1, <2>6a, <3>1
    <3>3. x - 1 \in Places(r, n, do)
      BY <2>5, <3>2
    <3>4. PICK k \in 1 .. m : g[k] = x - 1
      BY <2>3, <3>3
    <3>5. k + 1 \in 2 .. m + 1 /\ k + 1 \in 1 .. m + 1 /\ (k + 1) - 1 = k
      BY <2>3
    <3>6. h[k + 1] = x
      BY <2>7, <3>2, <3>4, <3>5
    <3> QED
      BY <3>5, <3>6
  <2>10. /\ s \in Seq(Uid) /\ Len(s) = m + 1 /\ s[1] = e.uid
         /\ \A k \in 2 .. m + 1 : s[k] = t[k - 1]
         /\ s # <<>> /\ Head(s) = e.uid /\ Tail(s) = t
    <3>1. <<e.uid>> \in Seq(Uid) /\ Len(<<e.uid>>) = 1 /\ <<e.uid>>[1] = e.uid
      BY <2>4
    <3> HIDE DEF e
    <3>2. s \in Seq(Uid) /\ Len(s) = m + 1 /\ s[1] = e.uid
          /\ \A k \in 2 .. m + 1 : s[k] = t[k - 1]
      BY <2>2, <2>3, <3>1 DEF m
    <3>3. s # <<>> /\ Head(s) = s[1]
      BY <2>3, <3>2
    <3>4. Tail(s) = t
      BY <2>2, <3>1, ConcatSimplifications
    <3> QED
      BY <3>2, <3>3, <3>4
  <2> HIDE DEF s
  <2>11. \A k \in 1 .. m + 1 : s[k] = calendar[h[k]].uid
    <3>1. SUFFICES ASSUME NEW k \in 1 .. m + 1 PROVE s[k] = calendar[h[k]].uid
      OBVIOUS
    <3>2. CASE k = 1
      BY <1>1, <2>7, <2>10, <3>2
    <3>3. CASE k # 1
      <4>1. k \in 2 .. m + 1
        BY <2>3, <3>3
      <4>2. h[k] = g[k - 1] + 1 /\ k - 1 \in 1 .. m /\ s[k] = t[k - 1]
        BY <2>7, <2>10, <4>1
      <4>3. g[k - 1] \in Places(r, n, do) /\ t[k - 1] = r[g[k - 1]].uid
        BY <2>3, <4>2
      <4> QED
        BY <2>6, <4>2, <4>3
    <3> QED
      BY <3>2, <3>3
  <2>12. Lists(s, calendar, n, do, h)
    BY <2>7, <2>8, <2>9, <2>10, <2>11 DEF Lists, Enumerates, K
  <2>13. Carried(calendar, n, do) = s
    BY <2>12, ListIsCarried
  <2> QED
    BY <1>5, <2>10, <2>13 DEF t, r
<1> QED
  BY <1>4, <1>5

\* An event that carries nothing, or another kind of packet, leaves these packets
\* as they are.
LEMMA InsertOther ==
  ASSUME NEW c, Calendar(c), NEW e \in Event, Calendar(Insert(c, e)),
         NEW n, NEW do \in Carrying, ~(e.dev = n /\ e.do = do)
  PROVE  Carried(Insert(c, e), n, do) = Carried(c, n, do)
<1> DEFINE r == Insert(c, e)
           s == Carried(c, n, do)
           K == Places(c, n, do)
<1>1. c \in Seq(Event) /\ Len(c) \in Nat /\ InRunOrder(c)
  BY CalendarTypes DEF Calendar
<1>2. Len(r) = Len(c) + 1
  BY <1>1, Inserted
<1>3. PICK p \in 1 .. Len(c) + 1 : \A i \in 1 .. Len(c) + 1 :
        r[i] = IF i < p THEN c[i] ELSE IF i = p THEN e ELSE c[i - 1]
  BY <1>1, Inserted
<1> HIDE DEF r
<1> DEFINE f == [i \in 1 .. Len(c) |-> IF i < p THEN i ELSE i + 1]
<1>4. \A i \in 1 .. Len(c) : f[i] \in 1 .. Len(r) /\ r[f[i]] = c[i]
  <2>1. SUFFICES ASSUME NEW i \in 1 .. Len(c) PROVE f[i] \in 1 .. Len(r) /\ r[f[i]] = c[i]
    OBVIOUS
  <2>2. CASE i < p
    <3>1. i \in 1 .. Len(c) + 1 /\ f[i] = i
      BY <1>1, <2>2
    <3> QED
      BY <1>2, <1>3, <2>2, <3>1
  <2>3. CASE ~(i < p)
    <3>1. i + 1 \in 1 .. Len(c) + 1 /\ f[i] = i + 1 /\ ~(i + 1 < p) /\ i + 1 # p /\ (i + 1) - 1 = i
      BY <1>1, <2>3
    <3>2. r[i + 1] = c[(i + 1) - 1]
      BY <1>3, <3>1
    <3> QED
      BY <1>2, <3>1, <3>2
  <2> QED
    BY <2>2, <2>3
<1>5. \A i, j \in 1 .. Len(c) : i < j => f[i] < f[j]
  OBVIOUS
<1>6. f \in [1 .. Len(c) -> 1 .. Len(r)]
  BY <1>4
<1>7. \A x \in 1 .. Len(r) : x = p \/ \E i \in 1 .. Len(c) : f[i] = x
  <2>1. SUFFICES ASSUME NEW x \in 1 .. Len(r), x # p PROVE \E i \in 1 .. Len(c) : f[i] = x
    OBVIOUS
  <2>2. CASE x < p
    <3>1. x \in 1 .. Len(c) /\ f[x] = x
      BY <1>1, <1>2, <2>1, <2>2
    <3> QED
      BY <3>1
  <2>3. CASE ~(x < p)
    <3>1. x - 1 \in 1 .. Len(c) /\ f[x - 1] = x
      BY <1>1, <1>2, <2>1, <2>3
    <3> QED
      BY <3>1
  <2> QED
    BY <2>2, <2>3
<1> HIDE DEF f
<1>8. Embeds(c, r, f)
  BY <1>4, <1>5, <1>6 DEF Embeds, SameEvent
<1>9. \A x \in Places(r, n, do) : \E i \in 1 .. Len(c) : f[i] = x
  <2>1. r[p] = e
    BY <1>1, <1>3
  <2>2. p \notin Places(r, n, do)
    BY <2>1 DEF Places
  <2> QED
    BY <1>7, <2>2 DEF Places
<1>10. Calendar(r)
  BY DEF r
<1>11. Carried(c, n, do) = Carried(r, n, do)
  BY <1>8, <1>9, <1>10, SameCarried
<1> QED
  BY <1>11 DEF r

\* A packet is put behind those that arrive no later, which may be all.
LEMMA InsertPacket ==
  ASSUME NEW c, Calendar(c), NEW e \in Event, Calendar(Insert(c, e)),
         NEW n, NEW do \in Carrying, e.dev = n, e.do = do, e.uid \in Uid
  PROVE  LET s == Carried(c, n, do)
         IN  /\ \E q \in 1 .. Len(s) + 1 : Carried(Insert(c, e), n, do) = InsertAt(s, q, e.uid)
             /\ (\A i \in Places(c, n, do) : c[i].in <= e.in) =>
                  Carried(Insert(c, e), n, do) = Append(s, e.uid)
<1> DEFINE r == Insert(c, e)
           s == Carried(c, n, do)
           m == Len(s)
           K == Places(c, n, do)
<1>1. c \in Seq(Event) /\ Len(c) \in Nat /\ InRunOrder(c)
  BY CalendarTypes DEF Calendar
<1>2. Len(r) = Len(c) + 1
  BY <1>1, Inserted
<1>3. PICK p \in 1 .. Len(c) + 1 :
        /\ \A i \in 1 .. Len(c) + 1 :
             r[i] = IF i < p THEN c[i] ELSE IF i = p THEN e ELSE c[i - 1]
        /\ \A i \in 1 .. Len(c) : c[i].in <= e.in <=> i < p
  BY <1>1, Inserted
<1>4. PICK g : Lists(s, c, n, do, g)
  BY CarriedLists
<1>5. s \in Seq(Uid)
  BY CarriedLists
<1>6. Calendar(r)
  OBVIOUS
<1> HIDE DEF r, s
<1>7. /\ m \in Nat /\ g \in [1 .. m -> K]
      /\ \A i, j \in 1 .. m : i < j => g[i] < g[j]
      /\ \A x \in K : \E i \in 1 .. m : g[i] = x
      /\ \A k \in 1 .. m : s[k] = c[g[k]].uid
  BY <1>4, <1>5, LenProperties DEF Lists, Enumerates
<1> HIDE DEF m
<1>8. \A i \in K : i \in 1 .. Len(c)
  BY DEF Places
<1>8a. \A k \in 1 .. m : g[k] \in K /\ g[k] \in 1 .. Len(c) /\ g[k] \in Nat
  BY <1>7, <1>8
<1> DEFINE T == {k \in 1 .. m + 1 : k = m + 1 \/ ~(g[k] < p)}
<1>9. PICK q \in T : \A k \in T : q <= k
  <2>1. T \subseteq Nat /\ m + 1 \in T
    BY <1>7
  <2> HIDE DEF T
  <2> QED
    BY <2>1, Smallest
<1>10. /\ q \in 1 .. m + 1
       /\ \A k \in 1 .. m : k < q => g[k] < p
       /\ \A k \in 1 .. m : ~(k < q) => ~(g[k] < p)
  <2>1. q \in 1 .. m + 1 /\ (q = m + 1 \/ ~(g[q] < p))
    BY <1>9
  <2>2. ASSUME NEW k \in 1 .. m, k < q PROVE g[k] < p
    <3>1. k \in 1 .. m + 1 /\ ~(q <= k)
      BY <1>7, <2>1, <2>2
    <3>2. k \notin T
      BY <1>9, <3>1
    <3> QED
      BY <3>1, <3>2
  <2>3. ASSUME NEW k \in 1 .. m, ~(k < q) PROVE ~(g[k] < p)
    <3>1. q # m + 1 /\ q \in 1 .. m /\ (q < k \/ q = k)
      BY <1>7, <2>1, <2>3
    <3>2. g[q] < g[k] \/ g[q] = g[k]
      BY <1>7, <3>1
    <3>3. g[q] \in Nat /\ g[k] \in Nat /\ p \in Nat
      BY <1>8a, <3>1
    <3> QED
      BY <2>1, <3>1, <3>2, <3>3
  <2> QED
    BY <2>1, <2>2, <2>3
<1> HIDE DEF T
<1> DEFINE h == [k \in 1 .. m + 1 |-> IF k < q THEN g[k] ELSE IF k = q THEN p ELSE g[k - 1] + 1]
           t == InsertAt(s, q, e.uid)
           P == Places(r, n, do)
<1>11. \A i \in K : IF i < p THEN i \in P /\ r[i] = c[i]
                    ELSE i + 1 \in P /\ r[i + 1] = c[i] /\ p < i + 1
  <2>1. SUFFICES ASSUME NEW i \in K PROVE IF i < p THEN i \in P /\ r[i] = c[i]
                                          ELSE i + 1 \in P /\ r[i + 1] = c[i] /\ p < i + 1
    OBVIOUS
  <2>2. i \in 1 .. Len(c) /\ c[i].dev = n /\ c[i].do = do
    BY DEF Places
  <2>3. CASE i < p
    <3>1. i \in 1 .. Len(c) + 1 /\ r[i] = c[i]
      BY <1>1, <1>3, <2>2, <2>3
    <3> QED
      BY <1>2, <2>2, <2>3, <3>1 DEF Places
  <2>4. CASE ~(i < p)
    <3>1. i + 1 \in 1 .. Len(c) + 1 /\ ~(i + 1 < p) /\ i + 1 # p /\ (i + 1) - 1 = i /\ p < i + 1
      BY <1>1, <2>2, <2>4
    <3>2. r[i + 1] = c[(i + 1) - 1]
      BY <1>3, <3>1
    <3> QED
      BY <1>2, <2>2, <2>4, <3>1, <3>2 DEF Places
  <2> QED
    BY <2>3, <2>4
<1>12. p \in P /\ r[p] = e
  BY <1>1, <1>2, <1>3 DEF Places
<1>13. \A x \in P : x = p \/ (x < p /\ x \in K) \/ (p < x /\ x - 1 \in K /\ ~(x - 1 < p))
  <2>1. SUFFICES ASSUME NEW x \in P, x # p
                 PROVE  (x < p /\ x \in K) \/ (p < x /\ x - 1 \in K /\ ~(x - 1 < p))
    OBVIOUS
  <2>2. x \in 1 .. Len(c) + 1 /\ r[x].dev = n /\ r[x].do = do
    BY <1>2 DEF Places
  <2>3. CASE x < p
    <3>1. x \in 1 .. Len(c) /\ r[x] = c[x]
      BY <1>1, <1>3, <2>2, <2>3
    <3> QED
      BY <2>2, <2>3, <3>1 DEF Places
  <2>4. CASE ~(x < p)
    <3>1. x - 1 \in 1 .. Len(c) /\ r[x] = c[x - 1] /\ p < x /\ ~(x - 1 < p)
      BY <1>1, <1>3, <2>1, <2>2, <2>4
    <3> QED
      BY <2>2, <3>1 DEF Places
  <2> QED
    BY <2>3, <2>4
<1> HIDE DEF P, K
<1>14. /\ \A k \in 1 .. m + 1 : k < q => k \in 1 .. m /\ h[k] = g[k] /\ g[k] < p
       /\ q \in 1 .. m + 1 /\ h[q] = p /\ q \in Nat
       /\ \A k \in 1 .. m + 1 : q < k => /\ k - 1 \in 1 .. m /\ h[k] = g[k - 1] + 1
                                         /\ ~(g[k - 1] < p) /\ p < g[k - 1] + 1
                                         /\ ~(k < q) /\ k # q
  <2>1. q \in 1 .. m + 1 /\ q \in Nat /\ ~(q < q)
    BY <1>7, <1>10
  <2>2. h[q] = p
    BY <2>1
  <2>3. ASSUME NEW k \in 1 .. m + 1, k < q PROVE k \in 1 .. m /\ h[k] = g[k] /\ g[k] < p
    <3>1. k \in 1 .. m
      BY <1>7, <2>1, <2>3
    <3> QED
      BY <1>10, <2>3, <3>1
  <2>4. ASSUME NEW k \in 1 .. m + 1, q < k
        PROVE  /\ k - 1 \in 1 .. m /\ h[k] = g[k - 1] + 1
               /\ ~(g[k - 1] < p) /\ p < g[k - 1] + 1 /\ ~(k < q) /\ k # q
    <3>1. k - 1 \in 1 .. m /\ ~(k - 1 < q) /\ ~(k < q) /\ k # q
      BY <1>7, <2>1, <2>4
    <3>2. ~(g[k - 1] < p) /\ g[k - 1] \in Nat
      BY <1>8a, <1>10, <3>1
    <3>3. p < g[k - 1] + 1
      BY <3>2
    <3> QED
      BY <3>1, <3>2, <3>3
  <2> QED
    BY <2>1, <2>2, <2>3, <2>4
<1>15. \A k \in 1 .. m + 1 : k < q \/ k = q \/ q < k
  BY <1>14
<1>16. h \in [1 .. m + 1 -> P]
  <2>1. ASSUME NEW k \in 1 .. m + 1 PROVE h[k] \in P
    <3>1. CASE k < q
      BY <1>8a, <1>11, <1>14, <3>1
    <3>2. CASE k = q
      BY <1>12, <1>14, <3>2
    <3>3. CASE q < k
      BY <1>8a, <1>11, <1>14, <3>3
    <3> QED
      BY <1>15, <3>1, <3>2, <3>3
  <2> QED
    BY <2>1
<1> HIDE DEF h
<1>17. \A i, j \in 1 .. m + 1 : i < j => h[i] < h[j]
  <2>1. SUFFICES ASSUME NEW i \in 1 .. m + 1, NEW j \in 1 .. m + 1, i < j PROVE h[i] < h[j]
    OBVIOUS
  <2>2. CASE j < q
    <3>1. i < q
      BY <1>14, <2>1, <2>2
    <3> QED
      BY <1>7, <1>14, <2>1, <2>2, <3>1
  <2>3. CASE j = q
    BY <1>14, <2>1, <2>3
  <2>4. CASE q < j
    <3>1. h[j] = g[j - 1] + 1 /\ j - 1 \in 1 .. m /\ g[j - 1] \in Nat /\ p < h[j]
          /\ ~(g[j - 1] < p)
      BY <1>8a, <1>14, <2>4
    <3>2. CASE i < q
      <4>1. h[i] = g[i] /\ g[i] < p /\ g[i] \in Nat
        BY <1>8a, <1>14, <3>2
      <4> QED
        BY <3>1, <4>1
    <3>3. CASE i = q
      BY <1>14, <3>1, <3>3
    <3>4. CASE q < i
      <4>1. h[i] = g[i - 1] + 1 /\ i - 1 \in 1 .. m /\ g[i - 1] \in Nat /\ i - 1 < j - 1
        BY <1>8a, <1>14, <2>1, <3>4
      <4>2. g[i - 1] < g[j - 1]
        BY <1>7, <3>1, <4>1
      <4> QED
        BY <3>1, <4>1, <4>2
    <3> QED
      BY <1>15, <3>2, <3>3, <3>4
  <2> QED
    BY <1>15, <2>2, <2>3, <2>4
<1>18. \A x \in P : \E k \in 1 .. m + 1 : h[k] = x
  <2>1. SUFFICES ASSUME NEW x \in P, x # p PROVE \E k \in 1 .. m + 1 : h[k] = x
    BY <1>14
  <2>2. CASE x < p /\ x \in K
    <3>1. PICK k \in 1 .. m : g[k] = x
      BY <1>7, <2>2
    <3>2. k < q /\ k \in 1 .. m + 1
      BY <1>7, <1>10, <2>2, <3>1
    <3> QED
      BY <1>14, <3>1, <3>2
  <2>3. CASE p < x /\ x - 1 \in K /\ ~(x - 1 < p)
    <3>1. PICK k \in 1 .. m : g[k] = x - 1
      BY <1>7, <2>3
    <3>2. ~(k < q)
      BY <1>10, <2>3, <3>1
    <3>3. k + 1 \in 1 .. m + 1 /\ q < k + 1 /\ (k + 1) - 1 = k
      BY <1>7, <1>14, <3>2
    <3>4. h[k + 1] = (x - 1) + 1
      BY <1>14, <3>1, <3>3
    <3>5. x \in Nat
      BY <1>2, <1>1 DEF P, Places
    <3> QED
      BY <3>3, <3>4, <3>5
  <2> QED
    BY <1>13, <2>1, <2>2, <2>3
<1>19. /\ t \in Seq(Uid) /\ Len(t) = m + 1
       /\ \A k \in 1 .. m + 1 :
            t[k] = IF k < q THEN s[k] ELSE IF k = q THEN e.uid ELSE s[k - 1]
  <2>1. m \in Nat
    BY <1>5, LenProperties DEF m
  <2>2. q \in 1 .. Len(s) + 1
    BY <1>10 DEF m
  <2> DEFINE v == e.uid
  <2>3. v \in Uid /\ t = InsertAt(s, q, v)
    OBVIOUS
  <2> HIDE DEF t, v
  <2>4. t \in Seq(Uid)
    BY <1>5, <2>2, <2>3, InsertAtUid
  <2>5. Len(t) = Len(s) + 1
    BY <1>5, <2>2, <2>3, InsertAtUid
  <2>6. \A k \in 1 .. Len(s) + 1 :
          t[k] = IF k < q THEN s[k] ELSE IF k = q THEN v ELSE s[k - 1]
    <3>1. v \in Uid
      BY <2>3
    <3>2. \A k \in 1 .. Len(s) + 1 :
            InsertAt(s, q, v)[k] = IF k < q THEN s[k] ELSE IF k = q THEN v ELSE s[k - 1]
      BY <1>5, <2>2, <3>1, InsertAtUid
    <3> QED
      BY <2>3, <3>2
  <2> QED
    BY <2>4, <2>5, <2>6 DEF m, v
<1> HIDE DEF t
<1>20. \A k \in 1 .. m + 1 : t[k] = r[h[k]].uid
  <2>1. SUFFICES ASSUME NEW k \in 1 .. m + 1 PROVE t[k] = r[h[k]].uid
    OBVIOUS
  <2>2. CASE k < q
    <3>1. k \in 1 .. m /\ h[k] = g[k] /\ g[k] < p /\ t[k] = s[k]
      BY <1>14, <1>19, <2>2
    <3>2. g[k] \in K /\ s[k] = c[g[k]].uid
      BY <1>7, <1>8a, <3>1
    <3> QED
      BY <1>11, <3>1, <3>2
  <2>3. CASE k = q
    <3>1. t[k] = e.uid
      BY <1>14, <1>19, <2>3
    <3> QED
      BY <1>12, <1>14, <2>3, <3>1
  <2>4. CASE q < k
    <3>1. k - 1 \in 1 .. m /\ h[k] = g[k - 1] + 1 /\ ~(g[k - 1] < p) /\ t[k] = s[k - 1]
      BY <1>14, <1>19, <2>4
    <3>2. g[k - 1] \in K /\ s[k - 1] = c[g[k - 1]].uid
      BY <1>7, <1>8a, <3>1
    <3> QED
      BY <1>11, <3>1, <3>2
  <2> QED
    BY <1>15, <2>2, <2>3, <2>4
<1>21. Lists(t, r, n, do, h)
  BY <1>16, <1>17, <1>18, <1>19, <1>20 DEF Lists, Enumerates, P
<1>22. Carried(r, n, do) = t
  BY <1>6, <1>21, ListIsCarried
<1>23. ASSUME \A i \in Places(c, n, do) : c[i].in <= e.in
       PROVE  t = Append(s, e.uid)
  <2>1. \A k \in 1 .. m : g[k] < p
    BY <1>3, <1>8a, <1>23 DEF K
  <2>2. ~(q \in 1 .. m)
    <3>1. q \in 1 .. m => ~(q < q)
      BY <1>14
    <3> QED
      BY <1>10, <2>1, <3>1
  <2>3. q = m + 1
    BY <1>7, <1>14, <2>2
  <2> QED
    BY <1>5, <2>3, InsertAtEnd DEF t, m
<1> QED
  BY <1>10, <1>22, <1>23 DEF r, s, m, t

-----------------------------------------------------------------------------
(***************************************************************************)
(* Handlers and what is on its way.  Two things are used of the times: what *)
(* was handled last arrives last, and a packet that was cut off by a reset *)
(* arrives before its device transmits again.                              *)
(***************************************************************************)

\* Nothing a reset cancels carries a packet off, and the packets that have left
\* the wire arrive in the order they left it.
Loaded(c) ==
  \A i \in 1 .. Len(c) : c[i].do \in Carrying =>
    /\ c[i].handle \notin Handle
    /\ c[i].do = "Receive" => c[i].in = 0
    /\ c[i].do = "HandlingArrivedComplete" => c[i].in <= HANDLING

\* The transmissions of n end within b.
Within(c, n, b) == \A i \in 1 .. Len(c) : OnWire(c[i], n) => c[i].in <= b

\* How long after each of these events of n it may transmit again, and how long
\* its wire needs to be empty.
Returning == {"TransmitComplete", "Ready", "ErrorWait", "ErrorReset"}
Slack(do) == CASE do = "ErrorReset" -> SPW_HALF_DELAY + SPW_DELAY + DELAY
               [] do = "ErrorWait"  -> SPW_DELAY + DELAY
               [] OTHER             -> DELAY

\* What is on the wire of n arrives in time for it.
Timely(c, n) ==
  \A i, j \in 1 .. Len(c) :
    OnWire(c[i], n) /\ c[j].dev = n /\ c[j].do \in Returning =>
      c[i].in <= c[j].in + Slack(c[j].do)

\* r is c without some events or some handles; r is c with e in addition.
From(r, c) ==
  \A i \in 1 .. Len(r) : \E k \in 1 .. Len(c) :
    /\ r[i].do = c[k].do /\ r[i].dev = c[k].dev /\ r[i].in = c[k].in
    /\ r[i].handle \in {c[k].handle, "none"}
Adds(r, c, e) == \A i \in 1 .. Len(r) : r[i] = e \/ \E k \in 1 .. Len(c) : r[i] = c[k]

LEMMA FromKeeps ==
  ASSUME NEW r, NEW c, From(r, c)
  PROVE  /\ Loaded(c) => Loaded(r)
         /\ \A n, b : Within(c, n, b) => Within(r, n, b)
         /\ \A n : Timely(c, n) => Timely(r, n)
<1>1. \A i \in 1 .. Len(r) : \E k \in 1 .. Len(c) :
        /\ r[i].do = c[k].do /\ r[i].dev = c[k].dev /\ r[i].in = c[k].in
        /\ r[i].handle \in {c[k].handle, "none"}
  BY DEF From
<1>2. ASSUME Loaded(c) PROVE Loaded(r)
  <2>1. SUFFICES ASSUME NEW i \in 1 .. Len(r), r[i].do \in Carrying
                 PROVE  /\ r[i].handle \notin Handle
                        /\ r[i].do = "Receive" => r[i].in = 0
                        /\ r[i].do = "HandlingArrivedComplete" => r[i].in <= HANDLING
    BY DEF Loaded
  <2>2. PICK k \in 1 .. Len(c) :
          /\ r[i].do = c[k].do /\ r[i].dev = c[k].dev /\ r[i].in = c[k].in
          /\ r[i].handle \in {c[k].handle, "none"}
    BY <1>1
  <2>3. "none" \notin Handle
    BY DEF Handle
  <2> QED
    BY <1>2, <2>1, <2>2, <2>3 DEF Loaded
<1>3. ASSUME NEW n, NEW b, Within(c, n, b) PROVE Within(r, n, b)
  BY <1>1, <1>3 DEF Within, OnWire
<1>4. ASSUME NEW n, Timely(c, n) PROVE Timely(r, n)
  <2>1. SUFFICES ASSUME NEW i \in 1 .. Len(r), NEW j \in 1 .. Len(r),
                        OnWire(r[i], n), r[j].dev = n, r[j].do \in Returning
                 PROVE  r[i].in <= r[j].in + Slack(r[j].do)
    BY DEF Timely
  <2>2. PICK k \in 1 .. Len(c) : r[i].do = c[k].do /\ r[i].dev = c[k].dev /\ r[i].in = c[k].in
    BY <1>1
  <2>3. PICK l \in 1 .. Len(c) : r[j].do = c[l].do /\ r[j].dev = c[l].dev /\ r[j].in = c[l].in
    BY <1>1
  <2>4. OnWire(c[k], n) /\ c[l].dev = n /\ c[l].do \in Returning
    BY <2>1, <2>2, <2>3 DEF OnWire
  <2>5. c[k].in <= c[l].in + Slack(c[l].do)
    BY <1>4, <2>4 DEF Timely
  <2> QED
    BY <2>2, <2>3, <2>5
<1> QED
  BY <1>2, <1>3, <1>4

LEMMA CancelFrom ==
  ASSUME NEW c, Calendar(c), NEW n, NEW H
  PROVE  From(Cancel(c, n, H), c)
<1>1. c \in Seq(Event)
  BY CalendarTypes
<1>2. PICK f : Selects(c, Cancel(c, n, H), f)
  BY <1>1, Cancelled
<1> QED
  BY <1>2 DEF Selects, From

LEMMA ForgetFrom ==
  ASSUME NEW c, Calendar(c), NEW n, NEW h, NEW u
  PROVE  From(Forget(c, n, h, u), c)
<1> DEFINE r == Forget(c, n, h, u)
<1>1. Len(c) \in Nat /\ DOMAIN c = 1 .. Len(c) /\ \A i \in 1 .. Len(c) : c[i] \in Event
  BY CalendarTypes
<1>2. Len(r) = Len(c)
  BY ForgetCalendar
<1>3. ASSUME NEW i \in 1 .. Len(c)
      PROVE  /\ r[i].do = c[i].do /\ r[i].dev = c[i].dev /\ r[i].in = c[i].in
             /\ r[i].handle \in {c[i].handle, "none"}
  <2>1. r[i] = IF c[i].dev = n /\ c[i].handle = h /\ c[i].uid = u
                 THEN [c[i] EXCEPT !.handle = "none"] ELSE c[i]
    BY <1>1 DEF Forget
  <2>2. c[i] \in Event
    BY <1>1
  <2> HIDE DEF r
  <2> QED
    BY <2>1, <2>2 DEF Event
<1> HIDE DEF r
<1>4. From(r, c)
  BY <1>2, <1>3 DEF From
<1> QED
  BY <1>4 DEF r

LEMMA InsertAdds ==
  ASSUME NEW c, Calendar(c), NEW e \in Event
  PROVE  Adds(Insert(c, e), c, e)
<1>1. c \in Seq(Event) /\ Len(c) \in Nat /\ InRunOrder(c)
  BY CalendarTypes DEF Calendar
<1>2. Len(Insert(c, e)) = Len(c) + 1
  BY <1>1, Inserted
<1>3. PICK p \in 1 .. Len(c) + 1 : \A i \in 1 .. Len(c) + 1 :
        Insert(c, e)[i] = IF i < p THEN c[i] ELSE IF i = p THEN e ELSE c[i - 1]
  BY <1>1, Inserted
<1>4. ASSUME NEW i \in 1 .. Len(c) + 1
      PROVE  Insert(c, e)[i] = e \/ \E k \in 1 .. Len(c) : Insert(c, e)[i] = c[k]
  <2>1. CASE i < p
    <3>1. i \in 1 .. Len(c)
      BY <1>1, <2>1
    <3> QED
      BY <1>3, <2>1, <3>1
  <2>2. CASE i = p
    BY <1>1, <1>3, <2>2
  <2>3. CASE p < i
    <3>1. i - 1 \in 1 .. Len(c) /\ ~(i < p) /\ i # p
      BY <1>1, <2>3
    <3> QED
      BY <1>3, <3>1
  <2> QED
    BY <1>1, <2>1, <2>2, <2>3
<1> QED
  BY <1>2, <1>4 DEF Adds

LEMMA AddsKeeps ==
  ASSUME NEW r, NEW c, NEW e, Adds(r, c, e)
  PROVE  /\ Loaded(c) /\ (e.do \in Carrying =>
                            /\ e.handle \notin Handle
                            /\ e.do = "Receive" => e.in = 0
                            /\ e.do = "HandlingArrivedComplete" => e.in <= HANDLING) =>
              Loaded(r)
         /\ \A n, b : Within(c, n, b) /\ (OnWire(e, n) => e.in <= b) => Within(r, n, b)
         /\ \A n : Timely(c, n) /\ ~OnWire(e, n)
                   /\ (e.dev = n /\ e.do \in Returning => Within(c, n, e.in + Slack(e.do))) =>
              Timely(r, n)
<1>1. \A i \in 1 .. Len(r) : r[i] = e \/ \E k \in 1 .. Len(c) : r[i] = c[k]
  BY DEF Adds
<1>2. ASSUME Loaded(c), e.do \in Carrying =>
                            /\ e.handle \notin Handle
                            /\ e.do = "Receive" => e.in = 0
                            /\ e.do = "HandlingArrivedComplete" => e.in <= HANDLING
      PROVE  Loaded(r)
  BY <1>1, <1>2 DEF Loaded
<1>3. ASSUME NEW n, NEW b, Within(c, n, b), OnWire(e, n) => e.in <= b PROVE Within(r, n, b)
  BY <1>1, <1>3 DEF Within
<1>4. ASSUME NEW n, Timely(c, n), ~OnWire(e, n),
             e.dev = n /\ e.do \in Returning => Within(c, n, e.in + Slack(e.do))
      PROVE  Timely(r, n)
  <2>1. SUFFICES ASSUME NEW i \in 1 .. Len(r), NEW j \in 1 .. Len(r),
                        OnWire(r[i], n), r[j].dev = n, r[j].do \in Returning
                 PROVE  r[i].in <= r[j].in + Slack(r[j].do)
    BY DEF Timely
  <2>2. PICK k \in 1 .. Len(c) : r[i] = c[k]
    BY <1>1, <1>4, <2>1
  <2>3. CASE r[j] = e
    BY <1>4, <2>1, <2>2, <2>3 DEF Within
  <2>4. CASE r[j] # e
    <3>1. PICK l \in 1 .. Len(c) : r[j] = c[l]
      BY <1>1, <2>4
    <3> QED
      BY <1>4, <2>1, <2>2, <3>1 DEF Timely
  <2> QED
    BY <2>3, <2>4
<1> QED
  BY <1>2, <1>3, <1>4

\* What becomes of c leaves all packets where they are.
Kept(c, r) ==
  /\ Calendar(r)
  /\ Loaded(c) => Loaded(r) /\ \A n, do : do \in Carrying => Carried(r, n, do) = Carried(c, n, do)
  /\ \A n, b : Within(c, n, b) => Within(r, n, b)

TimelyKept(c, r, n) == Timely(c, n) => Timely(r, n)

LEMMA KeptTwice ==
  ASSUME NEW a, NEW b, NEW c, Kept(a, b), Kept(b, c)
  PROVE  /\ Kept(a, c)
         /\ \A n : TimelyKept(a, b, n) /\ TimelyKept(b, c, n) => TimelyKept(a, c, n)
<1>1. Loaded(a) => Loaded(c)
  BY DEF Kept
<1>2. ASSUME Loaded(a), NEW n, NEW do, do \in Carrying PROVE Carried(c, n, do) = Carried(a, n, do)
  <2>1. Loaded(b) /\ Carried(b, n, do) = Carried(a, n, do)
    BY <1>2 DEF Kept
  <2>2. Carried(c, n, do) = Carried(b, n, do)
    BY <1>2, <2>1 DEF Kept
  <2> QED
    BY <2>1, <2>2
<1>3. \A n, x : Within(a, n, x) => Within(c, n, x)
  BY DEF Kept
<1>4. Calendar(c)
  BY DEF Kept
<1>5. Kept(a, c)
  BY <1>1, <1>2, <1>3, <1>4 DEF Kept
<1> QED
  BY <1>5 DEF TimelyKept

LEMMA CancelKept ==
  ASSUME NEW c, Calendar(c), NEW n, NEW H \in SUBSET Handle
  PROVE  /\ Kept(c, Cancel(c, n, H))
         /\ \A m : TimelyKept(c, Cancel(c, n, H), m)
<1> DEFINE r == Cancel(c, n, H)
<1>1. PICK f : /\ Embeds(r, c, f)
               /\ \A i \in 1 .. Len(c) : ~Refers(c[i], n, H) => \E k \in 1 .. Len(r) : f[k] = i
  BY CancelCalendar
<1>2. Calendar(r)
  BY CancelCalendar
<1>3. From(r, c)
  BY CancelFrom
<1> HIDE DEF r
<1>4. ASSUME Loaded(c), NEW m, NEW do \in Carrying PROVE Carried(r, m, do) = Carried(c, m, do)
  <2>1. \A i \in Places(c, m, do) : \E j \in 1 .. Len(r) : f[j] = i
    BY <1>1, <1>4 DEF Loaded, Places, Refers
  <2> QED
    BY <1>1, <1>2, <2>1, SameCarried
<1>5. Kept(c, r)
  BY <1>2, <1>3, <1>4, FromKeeps DEF Kept
<1>6. \A m : TimelyKept(c, r, m)
  BY <1>3, FromKeeps DEF TimelyKept
<1> QED
  BY <1>5, <1>6 DEF r

LEMMA ForgetKept ==
  ASSUME NEW c, Calendar(c), NEW n, NEW h, NEW u
  PROVE  /\ Kept(c, Forget(c, n, h, u))
         /\ \A m : TimelyKept(c, Forget(c, n, h, u), m)
<1> DEFINE r == Forget(c, n, h, u)
<1>1. Calendar(r) /\ Len(r) = Len(c)
  BY ForgetCalendar
<1>2. \A i \in 1 .. Len(c) : r[i].do = c[i].do /\ r[i].dev = c[i].dev /\ r[i].uid = c[i].uid
  BY ForgetCalendar
<1>3. From(r, c)
  BY ForgetFrom
<1> HIDE DEF r
<1>4. ASSUME NEW m, NEW do \in Carrying PROVE Carried(r, m, do) = Carried(c, m, do)
  <2> DEFINE s == Carried(r, m, do)
  <2>1. PICK g : Lists(s, r, m, do, g)
    BY <1>1, CarriedLists
  <2> HIDE DEF s
  <2>2. Places(r, m, do) = Places(c, m, do)
    BY <1>1, <1>2 DEF Places
  <2>3. \A k \in 1 .. Len(s) : g[k] \in Places(c, m, do)
    BY <2>1, <2>2 DEF Lists, Enumerates
  <2>4. \A k \in 1 .. Len(s) : s[k] = c[g[k]].uid
    BY <1>2, <2>1, <2>3 DEF Lists, Places
  <2>5. Lists(s, c, m, do, g)
    BY <2>1, <2>2, <2>4 DEF Lists
  <2>6. Carried(c, m, do) = s
    BY <2>5, ListIsCarried
  <2> QED
    BY <2>6 DEF s
<1>5. Kept(c, r)
  BY <1>1, <1>3, <1>4, FromKeeps DEF Kept
<1>6. \A m : TimelyKept(c, r, m)
  BY <1>3, FromKeeps DEF TimelyKept
<1> QED
  BY <1>5, <1>6 DEF r

LEMMA InsertKept ==
  ASSUME NEW c, Calendar(c), NEW e \in Event, e.do \notin Carrying
  PROVE  /\ Kept(c, Insert(c, e))
         /\ \A m : (e.dev = m /\ e.do \in Returning => Within(c, m, e.in + Slack(e.do))) =>
              TimelyKept(c, Insert(c, e), m)
<1> DEFINE r == Insert(c, e)
<1>1. Calendar(r)
  BY InsertCalendar
<1>2. Adds(r, c, e)
  BY InsertAdds
<1>3. \A m, do : do \in Carrying => Carried(r, m, do) = Carried(c, m, do)
  BY <1>1, InsertOther
<1>4. \A m : ~OnWire(e, m)
  BY DEF OnWire, Carrying
<1> HIDE DEF r
<1>5. Kept(c, r)
  BY <1>1, <1>2, <1>3, <1>4, AddsKeeps DEF Kept
<1>6. ASSUME NEW m, e.dev = m /\ e.do \in Returning => Within(c, m, e.in + Slack(e.do))
      PROVE  TimelyKept(c, r, m)
  BY <1>2, <1>4, <1>6, AddsKeeps DEF TimelyKept
<1> QED
  BY <1>5, <1>6 DEF r

LEMMA ScheduleKept ==
  ASSUME NEW c, Calendar(c), NEW delay \in Nat, NEW do \in Handler \ Carrying, NEW n \in Node,
         NEW u \in Uid \cup {NoUid}
  PROVE  /\ Kept(c, Schedule(c, delay, do, n, u))
         /\ \A m : (m = n /\ do \in Returning => Within(c, n, delay + Slack(do))) =>
              TimelyKept(c, Schedule(c, delay, do, n, u), m)
<1> DEFINE e == [do |-> do, dev |-> n, uid |-> u, in |-> delay, handle |-> "none"]
<1>1. e \in Event /\ e.do = do /\ e.dev = n /\ e.in = delay
  BY DEF Event
<1>2. Schedule(c, delay, do, n, u) = Insert(c, e)
  BY DEF Schedule
<1> HIDE DEF e
<1> QED
  BY <1>1, <1>2, InsertKept

LEMMA ScheduleAsKept ==
  ASSUME NEW c, Calendar(c), NEW delay \in Nat, NEW do \in Handler \ Carrying, NEW n \in Node,
         NEW u \in Uid \cup {NoUid}, NEW h \in Handle \cup {"m_events"}
  PROVE  /\ Kept(c, ScheduleAs(h, c, delay, do, n, u))
         /\ \A m : (m = n /\ do \in Returning => Within(c, n, delay + Slack(do))) =>
              TimelyKept(c, ScheduleAs(h, c, delay, do, n, u), m)
<1> DEFINE e == [do |-> do, dev |-> n, uid |-> u, in |-> delay, handle |-> h]
           b == Forget(c, n, h, u)
           r == Insert(b, e)
<1>1. e \in Event /\ e.do = do /\ e.dev = n /\ e.in = delay
  BY DEF Event
<1>2. ScheduleAs(h, c, delay, do, n, u) = r
  BY DEF ScheduleAs
<1>3. Kept(c, b) /\ \A m : TimelyKept(c, b, m)
  BY ForgetKept
<1> HIDE DEF e, b
<1>4. Calendar(b)
  BY <1>3 DEF Kept
<1>5. /\ Kept(b, r)
      /\ \A m : (m = n /\ do \in Returning => Within(b, m, delay + Slack(do))) =>
           TimelyKept(b, r, m)
  BY <1>1, <1>4, InsertKept
<1>6. \A m : Within(c, m, delay + Slack(do)) => Within(b, m, delay + Slack(do))
  BY <1>3 DEF Kept
<1> HIDE DEF r
<1>7. Kept(c, r) /\ \A m : TimelyKept(c, b, m) /\ TimelyKept(b, r, m) => TimelyKept(c, r, m)
  BY <1>3, <1>5, KeptTwice
<1> QED
  BY <1>2, <1>3, <1>5, <1>6, <1>7

\* The parts of the handlers that start no transmission.
LEMMA HandlersKeep ==
  ASSUME NEW c, Calendar(c), NEW n \in Node
  PROVE  /\ Kept(c, ErrorReset(c, n))
         /\ \A m : (m = n => Within(c, n, SPW_HALF_DELAY + Slack("ErrorWait"))) =>
              TimelyKept(c, ErrorReset(c, n), m)
         /\ \A delay \in Nat :
              /\ Kept(c, Timeout(c, n, delay))
              /\ \A m : (m = n => Within(c, n, delay + Slack("ErrorReset"))) =>
                   TimelyKept(c, Timeout(c, n, delay), m)
         /\ Kept(c, Started(c, n)) /\ Kept(c, Connecting(c, n))
         /\ \A m : (m = n => Within(c, n, SPW_DELAY + Slack("ErrorReset"))) =>
              TimelyKept(c, Started(c, n), m) /\ TimelyKept(c, Connecting(c, n), m)
         /\ \A do \in {"ReceiveNull", "ReceiveFCT"} :
              LET r == Schedule(c, LATENCY, do, Peer(n), NoUid)
              IN  Kept(c, r) /\ \A m : TimelyKept(c, r, m)
         /\ \A h \in Handle, do \in {"SendNull", "SendFCT"} :
              LET r == ScheduleAs(h, c, PERIOD, do, n, NoUid)
              IN  Kept(c, r) /\ \A m : TimelyKept(c, r, m)
<1>0. /\ {"ErrorWait", "ErrorReset", "SendNull", "SendFCT", "ReceiveNull", "ReceiveFCT"}
           \subseteq Handler \ Carrying
      /\ "ErrorWait" \in Returning /\ "ErrorReset" \in Returning
      /\ {"SendNull", "SendFCT", "ReceiveNull", "ReceiveFCT"} \cap Returning = {}
      /\ NoUid \in Uid \cup {NoUid} /\ Peer(n) \in Node
      /\ "stateChangeToErrorReset" \in Handle /\ "sendNull" \in Handle /\ "sendFCT" \in Handle
      /\ 0 \in Nat
  BY PeerType DEF Handler, Carrying, Returning, Handle
<1>1. /\ Kept(c, ErrorReset(c, n))
      /\ \A m : (m = n => Within(c, n, SPW_HALF_DELAY + Slack("ErrorWait"))) =>
           TimelyKept(c, ErrorReset(c, n), m)
  <2> DEFINE b == Cancel(c, n, Handle \ {"stateChangeToErrorReset"})
             r == Schedule(b, SPW_HALF_DELAY, "ErrorWait", n, NoUid)
  <2>1. Kept(c, b) /\ \A m : TimelyKept(c, b, m)
    BY CancelKept
  <2> HIDE DEF b
  <2>2. Calendar(b) /\ \A x : Within(c, n, x) => Within(b, n, x)
    BY <2>1 DEF Kept
  <2>3. /\ Kept(b, r)
        /\ \A m : (m = n => Within(b, n, SPW_HALF_DELAY + Slack("ErrorWait"))) =>
             TimelyKept(b, r, m)
    BY <1>0, <2>2, Delays, ScheduleKept
  <2> HIDE DEF r
  <2>4. Kept(c, r) /\ \A m : TimelyKept(c, b, m) /\ TimelyKept(b, r, m) => TimelyKept(c, r, m)
    BY <2>1, <2>3, KeptTwice
  <2>5. ErrorReset(c, n) = r
    BY DEF ErrorReset, r, b
  <2> QED
    BY <2>1, <2>2, <2>3, <2>4, <2>5
<1>2. ASSUME NEW delay \in Nat
      PROVE  /\ Kept(c, Timeout(c, n, delay))
             /\ \A m : (m = n => Within(c, n, delay + Slack("ErrorReset"))) =>
                  TimelyKept(c, Timeout(c, n, delay), m)
  <2> DEFINE b == Cancel(c, n, {"stateChangeToErrorReset"})
             r == ScheduleAs("stateChangeToErrorReset", b, delay, "ErrorReset", n, NoUid)
  <2>1. Kept(c, b) /\ \A m : TimelyKept(c, b, m)
    BY <1>0, CancelKept
  <2> HIDE DEF b
  <2>2. Calendar(b) /\ \A x : Within(c, n, x) => Within(b, n, x)
    BY <2>1 DEF Kept
  <2>3. /\ Kept(b, r)
        /\ \A m : (m = n => Within(b, n, delay + Slack("ErrorReset"))) =>
             TimelyKept(b, r, m)
    BY <1>0, <2>2, ScheduleAsKept
  <2> HIDE DEF r
  <2>4. Kept(c, r) /\ \A m : TimelyKept(c, b, m) /\ TimelyKept(b, r, m) => TimelyKept(c, r, m)
    BY <2>1, <2>3, KeptTwice
  <2>5. Timeout(c, n, delay) = r
    BY DEF Timeout, r, b
  <2> QED
    BY <2>1, <2>2, <2>3, <2>4, <2>5
<1>3. ASSUME NEW h \in Handle, NEW do \in {"SendNull", "SendFCT"}, NEW x, Calendar(x),
             NEW delay \in Nat
      PROVE  /\ Kept(x, ScheduleAs(h, x, delay, do, n, NoUid))
             /\ \A m : TimelyKept(x, ScheduleAs(h, x, delay, do, n, NoUid), m)
  <2>1. do \in Handler \ Carrying /\ do \notin Returning
    BY <1>0
  <2> QED
    BY <1>0, <1>3, <2>1, ScheduleAsKept
<1>4. ASSUME NEW h \in Handle, NEW do \in {"SendNull", "SendFCT"}
      PROVE  LET r == ScheduleAs(h, Timeout(c, n, SPW_DELAY), 0, do, n, NoUid)
             IN  /\ Kept(c, r)
                 /\ \A m : (m = n => Within(c, n, SPW_DELAY + Slack("ErrorReset"))) =>
                      TimelyKept(c, r, m)
  <2> DEFINE b == Timeout(c, n, SPW_DELAY)
             r == ScheduleAs(h, b, 0, do, n, NoUid)
  <2>1. /\ Kept(c, b)
        /\ \A m : (m = n => Within(c, n, SPW_DELAY + Slack("ErrorReset"))) =>
                      TimelyKept(c, b, m)
    BY <1>2, Delays
  <2> HIDE DEF b
  <2>2. Calendar(b)
    BY <2>1 DEF Kept
  <2>3. Kept(b, r) /\ \A m : TimelyKept(b, r, m)
    BY <1>0, <1>3, <2>2
  <2> HIDE DEF r
  <2>4. Kept(c, r) /\ \A m : TimelyKept(c, b, m) /\ TimelyKept(b, r, m) => TimelyKept(c, r, m)
    BY <2>1, <2>3, KeptTwice
  <2>5. /\ Kept(c, r)
        /\ \A m : (m = n => Within(c, n, SPW_DELAY + Slack("ErrorReset"))) => TimelyKept(c, r, m)
    BY <2>1, <2>3, <2>4
  <2> QED
    BY <2>5 DEF r, b
<1>5. /\ Kept(c, Started(c, n)) /\ Kept(c, Connecting(c, n))
      /\ \A m : (m = n => Within(c, n, SPW_DELAY + Slack("ErrorReset"))) =>
              TimelyKept(c, Started(c, n), m) /\ TimelyKept(c, Connecting(c, n), m)
  BY <1>0, <1>4 DEF Started, Connecting
<1>6. ASSUME NEW do \in {"ReceiveNull", "ReceiveFCT"}
      PROVE  LET r == Schedule(c, LATENCY, do, Peer(n), NoUid)
             IN  Kept(c, r) /\ \A m : TimelyKept(c, r, m)
  <2>1. do \in Handler \ Carrying /\ do \notin Returning
    BY <1>0
  <2> QED
    BY <1>0, <2>1, Delays, ScheduleKept
<1>7. ASSUME NEW h \in Handle, NEW do \in {"SendNull", "SendFCT"}
      PROVE  LET r == ScheduleAs(h, c, PERIOD, do, n, NoUid)
             IN  Kept(c, r) /\ \A m : TimelyKept(c, r, m)
  BY <1>3, Delays
<1> QED
  BY <1>1, <1>2, <1>5, <1>6, <1>7

-----------------------------------------------------------------------------
(***************************************************************************)
(* A packet on its way among others: where it is put, and what is left of  *)
(* the others.                                                             *)
(***************************************************************************)

\* A concatenation, cut where its parts meet.
LEMMA Cut ==
  ASSUME NEW S, NEW x \in Seq(S), NEW y \in Seq(S)
  PROVE  /\ SubSeq(x \o y, 1, Len(x)) = x
         /\ SubSeq(x \o y, Len(x) + 1, Len(x \o y)) = y
<1> DEFINE s == x \o y
           m == Len(x)
           n == Len(y)
<1>1. m \in Nat /\ n \in Nat
  BY LenProperties
<1>2. /\ s \in Seq(S) /\ Len(s) = m + n
      /\ \A i \in 1 .. m + n : s[i] = IF i <= m THEN x[i] ELSE y[i - m]
  BY ConcatProperties
<1>3. \A i \in 1 .. m + n : s[i] \in S
  BY <1>2, ElementOfSeq
<1> HIDE DEF s, m, n
<1>4. SubSeq(s, 1, m) = x
  <2>1. \A i \in 1 .. m : i \in 1 .. m + n
    BY <1>1
  <2>2. /\ SubSeq(s, 1, m) \in Seq(S) /\ Len(SubSeq(s, 1, m)) = m
        /\ \A i \in 1 .. m : SubSeq(s, 1, m)[i] = s[i]
    <3>1. 1 \in Int /\ m \in Int /\ \A i \in 1 .. m : s[i] \in S
      BY <1>1, <1>3, <2>1
    <3>2. /\ SubSeq(s, 1, m) \in Seq(S)
          /\ Len(SubSeq(s, 1, m)) = IF 1 <= m THEN m - 1 + 1 ELSE 0
          /\ \A i \in 1 .. m - 1 + 1 : SubSeq(s, 1, m)[i] = s[1 + i - 1]
      BY <3>1, SubSeqProperties
    <3> QED
      BY <1>1, <3>2
  <2>3. \A i \in 1 .. m : SubSeq(s, 1, m)[i] = x[i]
    BY <1>1, <1>2, <2>1, <2>2
  <2> QED
    BY <2>2, <2>3, SeqEqual DEF m
<1>5. SubSeq(s, m + 1, m + n) = y
  <2> DEFINE t == SubSeq(s, m + 1, m + n)
  <2>1. /\ t \in Seq(S) /\ Len(t) = n /\ \A i \in 1 .. n : t[i] = s[m + i]
    <3>1. m + 1 \in Int /\ m + n \in Int /\ \A i \in m + 1 .. m + n : s[i] \in S
      BY <1>1, <1>3
    <3>2. /\ t \in Seq(S)
          /\ Len(t) = IF m + 1 <= m + n THEN (m + n) - (m + 1) + 1 ELSE 0
          /\ \A i \in 1 .. (m + n) - (m + 1) + 1 : t[i] = s[(m + 1) + i - 1]
      BY <3>1, SubSeqProperties
    <3> HIDE DEF t
    <3>3. (m + n) - (m + 1) + 1 = n /\ \A i \in 1 .. n : (m + 1) + i - 1 = m + i
      BY <1>1
    <3> QED
      BY <1>1, <3>2, <3>3
  <2> HIDE DEF t
  <2>2. ASSUME NEW i \in 1 .. n PROVE t[i] = y[i]
    <3>1. m + i \in 1 .. m + n /\ ~(m + i <= m) /\ (m + i) - m = i
      BY <1>1
    <3> QED
      BY <1>2, <2>1, <3>1
  <2> QED
    BY <2>1, <2>2, SeqEqual DEF n, t
<1> QED
  BY <1>2, <1>4, <1>5 DEF s, m

LEMMA Associative == \A s, t, v \in Seq(Uid) : (s \o t) \o v = s \o (t \o v)
BY ConcatAssociative

LEMMA ThreeParts ==
  ASSUME NEW x \in Seq(Uid), NEW u \in Uid, NEW y \in Seq(Uid)
  PROVE  /\ InsertAt(x \o y, Len(x) + 1, u) = x \o <<u>> \o y
         /\ RemoveAt(x \o <<u>> \o y, Len(x) + 1) = x \o y
         /\ (x \o <<u>> \o y)[Len(x) + 1] = u
         /\ Len(x \o <<u>> \o y) = Len(x) + 1 + Len(y)
<1>1. Len(x) \in Nat /\ Len(y) \in Nat /\ <<u>> \in Seq(Uid) /\ Len(<<u>>) = 1 /\ <<u>>[1] = u
  BY LenProperties
<1> DEFINE v == x \o <<u>>
           z == <<u>> \o y
           s == v \o y
<1>2. /\ v \in Seq(Uid) /\ Len(v) = Len(x) + 1 /\ v[Len(x) + 1] = u
  <2>1. Len(x) + 1 \in 1 .. Len(x) + Len(<<u>>) /\ ~(Len(x) + 1 <= Len(x))
        /\ (Len(x) + 1) - Len(x) = 1
    BY <1>1
  <2> QED
    BY <1>1, <2>1, ConcatProperties
<1>3. z \in Seq(Uid) /\ s = x \o z
  BY <1>1, ConcatProperties, ConcatAssociative
<1> HIDE DEF v, z
<1>4. /\ s \in Seq(Uid) /\ Len(s) = Len(x) + 1 + Len(y) /\ s[Len(x) + 1] = u
  <2>1. Len(x) + 1 \in 1 .. Len(v) + Len(y) /\ Len(x) + 1 <= Len(v)
    BY <1>1, <1>2
  <2>2. v \in Seq(Uid)
    BY <1>2
  <2>3. /\ s \in Seq(Uid) /\ Len(s) = Len(v) + Len(y)
        /\ \A i \in 1 .. Len(v) + Len(y) : s[i] = IF i <= Len(v) THEN v[i] ELSE y[i - Len(v)]
    BY <2>2, ConcatProperties
  <2> HIDE DEF s
  <2> QED
    BY <1>1, <1>2, <2>1, <2>3
<1>5. InsertAt(x \o y, Len(x) + 1, u) = s
  <2>1. (Len(x) + 1) - 1 = Len(x)
    BY <1>1
  <2> HIDE DEF s
  <2>2. SubSeq(x \o y, 1, Len(x)) = x /\ SubSeq(x \o y, Len(x) + 1, Len(x \o y)) = y
    BY Cut
  <2>3. InsertAt(x \o y, Len(x) + 1, u) = x \o <<u>> \o y
    BY <2>1, <2>2 DEF InsertAt
  <2> QED
    BY <2>3 DEF s, v
<1>6. RemoveAt(s, Len(x) + 1) = x \o y
  <2>1. (Len(x) + 1) - 1 = Len(x) /\ (Len(x) + 1) + 1 = Len(v) + 1
    BY <1>1, <1>2
  <2>2. SubSeq(s, 1, Len(x)) = x
    BY <1>3, Cut
  <2>3. SubSeq(s, Len(v) + 1, Len(s)) = y
    BY <1>2, Cut
  <2> HIDE DEF s
  <2> QED
    BY <2>1, <2>2, <2>3 DEF RemoveAt
<1> QED
  BY <1>4, <1>5, <1>6 DEF v

\* A packet that is put among those of t instead of behind them has overtaken some.
LEMMA Overtakes ==
  ASSUME NEW a \in Seq(Uid), NEW t \in Seq(Uid), NEW b \in Seq(Uid), NEW u \in Uid,
         NEW q \in 1 .. Len(t)
  PROVE  a \o InsertAt(t, q, u) \o b \in Abstract!Overtakings(a \o t \o <<u>> \o b)
<1> DEFINE l == SubSeq(t, 1, q - 1)
           r == SubSeq(t, q, Len(t))
           x == a \o l
           y == r \o b
           p == a \o t
           s == p \o <<u>> \o b
<1>1. /\ Len(a) \in Nat /\ Len(b) \in Nat /\ Len(t) \in Nat /\ q \in Nat /\ <<u>> \in Seq(Uid)
      /\ \A i \in 1 .. Len(t) : t[i] \in Uid
  BY LenProperties, ElementOfSeq
<1>2. l \in Seq(Uid) /\ Len(l) = q - 1 /\ r \in Seq(Uid)
  <2>1. /\ 1 \in Int /\ q - 1 \in Int /\ q \in Int /\ Len(t) \in Int
        /\ \A i \in 1 .. q - 1 : t[i] \in Uid
        /\ \A i \in q .. Len(t) : t[i] \in Uid
    BY <1>1
  <2>2. l \in Seq(Uid) /\ Len(l) = IF 1 <= q - 1 THEN (q - 1) - 1 + 1 ELSE 0
    BY <2>1, SubSeqProperties
  <2>3. r \in Seq(Uid)
    BY <2>1, SubSeqProperties
  <2> HIDE DEF l
  <2> QED
    BY <1>1, <2>2, <2>3
<1>3. l \o r = t
  <2>1. 1 \in 1 .. Len(t) + 1 /\ q - 1 \in 1 - 1 .. Len(t) /\ Len(t) \in q - 1 .. Len(t)
        /\ (q - 1) + 1 = q
    BY <1>1
  <2>2. SubSeq(t, 1, q - 1) \o SubSeq(t, (q - 1) + 1, Len(t)) = SubSeq(t, 1, Len(t))
    BY <2>1, ConcatAdjacentSubSeq
  <2> QED
    BY <2>1, <2>2, SubSeqFull
<1>4. InsertAt(t, q, u) = l \o <<u>> \o r
  BY DEF InsertAt
<1> HIDE DEF l, r
<1>5. x \in Seq(Uid) /\ Len(x) = Len(a) + q - 1 /\ y \in Seq(Uid) /\ p \in Seq(Uid)
      /\ Len(p) = Len(a) + Len(t)
  BY <1>1, <1>2, ConcatProperties
<1>5a. x \o r = p
  <2>1. (a \o l) \o r = a \o (l \o r)
    BY <1>2, Associative
  <2> QED
    BY <1>3, <2>1
<1>6. p \o b = x \o y
  <2>1. (x \o r) \o b = x \o (r \o b)
    <3>1. x \in Seq(Uid) /\ r \in Seq(Uid)
      BY <1>2, <1>5
    <3> HIDE DEF x, y, p, s
    <3> QED
      BY <3>1, Associative
  <2> QED
    BY <1>5a, <2>1
<1>7. a \o InsertAt(t, q, u) \o b = x \o <<u>> \o y
  <2> DEFINE g == l \o <<u>>
  <2>1. g \in Seq(Uid) /\ x \o <<u>> \in Seq(Uid)
    BY <1>1, <1>2, <1>5, ConcatProperties
  <2>1a. a \o g = x \o <<u>>
    BY <1>1, <1>2, Associative
  <2> HIDE DEF g
  <2>2. a \o (g \o r) = (x \o <<u>>) \o r
    <3>1. g \in Seq(Uid) /\ r \in Seq(Uid)
      BY <1>2, <2>1
    <3>2. (a \o g) \o r = a \o (g \o r)
      BY <3>1, Associative
    <3> QED
      BY <2>1a, <3>2
  <2> DEFINE v == x \o <<u>>
  <2>4. (v \o r) \o b = v \o y
    <3>1. v \in Seq(Uid)
      BY <2>1
    <3> HIDE DEF v
    <3> QED
      BY <1>2, <3>1, Associative
  <2> QED
    BY <1>4, <2>2, <2>4 DEF g
<1> HIDE DEF x, y, p
<1> DEFINE j == Len(p) + 1
           i == Len(x) + 1
<1>8. /\ RemoveAt(s, j) = x \o y /\ s[j] = u /\ Len(s) = Len(p) + 1 + Len(b)
      /\ InsertAt(x \o y, i, u) = x \o <<u>> \o y
  <2>1. RemoveAt(s, j) = p \o b /\ s[j] = u /\ Len(s) = Len(p) + 1 + Len(b)
    BY <1>5, ThreeParts
  <2>2. InsertAt(x \o y, i, u) = x \o <<u>> \o y
    BY <1>5, ThreeParts
  <2> QED
    BY <1>6, <2>1, <2>2
<1>9. s \in Seq(Uid)
  BY <1>1, <1>5, ConcatProperties
<1> HIDE DEF s
<1>10. j \in DOMAIN s /\ i \in 1 .. j - 1
  <2>1. DOMAIN s = 1 .. Len(s)
    BY <1>9, LenProperties
  <2>2. Len(p) \in Nat /\ Len(x) \in Nat
    BY <1>1, <1>5
  <2> QED
    BY <1>1, <1>5, <1>8, <2>1, <2>2
<1>11. x \o <<u>> \o y = InsertAt(RemoveAt(s, j), i, s[j])
  BY <1>8
<1> HIDE DEF i, j
<1>12. x \o <<u>> \o y \in Abstract!Overtakings(s)
  <2> DEFINE w == x \o <<u>> \o y
  <2>1. w \in {InsertAt(RemoveAt(s, j), k, s[j]) : k \in 1 .. j - 1}
    BY <1>10, <1>11
  <2> HIDE DEF w
  <2>2. j \in DOMAIN s
    BY <1>10
  <2>3. w \in UNION {{InsertAt(RemoveAt(s, e), k, s[e]) : k \in 1 .. e - 1} : e \in DOMAIN s}
    BY <2>1, <2>2
  <2>4. w \in Abstract!Overtakings(s)
    <3>1. \A e, k, v : Abstract!InsertAt(e, k, v) = InsertAt(e, k, v)
      BY DEF InsertAt, Abstract!InsertAt
    <3>2. \A e, k : Abstract!RemoveAt(e, k) = RemoveAt(e, k)
      BY DEF RemoveAt, Abstract!RemoveAt
    <3> QED
      BY <2>3, <3>1, <3>2 DEF Abstract!Overtakings
  <2> QED
    BY <2>4 DEF w
<1> QED
  BY <1>7, <1>12 DEF s, p

LEMMA ThinnedWhole ==
  ASSUME NEW s \in Seq(Uid)
  PROVE  s \in Abstract!Thinned(s)
<1> DEFINE p == [k \in 1 .. Len(s) |-> k]
<1>1. /\ p \in [1 .. Len(s) -> 1 .. Len(s)]
      /\ \A i, j \in 1 .. Len(s) : i < j => p[i] < p[j]
      /\ \A k \in 1 .. Len(s) : s[k] = s[p[k]]
  OBVIOUS
<1> HIDE DEF p
<1> QED
  BY <1>1, ThinnedBy

LEMMA ThinnedPicks ==
  ASSUME NEW s \in Seq(Uid), NEW t \in Abstract!Thinned(s)
  PROVE  /\ t \in Seq(Uid)
         /\ \E p : /\ p \in [1 .. Len(t) -> 1 .. Len(s)]
                   /\ \A i, j \in 1 .. Len(t) : i < j => p[i] < p[j]
                   /\ \A k \in 1 .. Len(t) : t[k] = s[p[k]]
<1>1. DOMAIN s = 1 .. Len(s) /\ Len(s) \in Nat /\ \A i \in 1 .. Len(s) : s[i] \in Uid
  BY LenProperties, ElementOfSeq
<1>2. PICK len \in 0 .. Len(s) :
        t \in {[k \in 1 .. len |-> s[place[k]]] :
                 place \in {p \in [1 .. len -> DOMAIN s] :
                              \A i, j \in 1 .. len : i < j => p[i] < p[j]}}
  BY DEF Abstract!Thinned
<1>3. PICK p \in [1 .. len -> 1 .. Len(s)] :
        /\ \A i, j \in 1 .. len : i < j => p[i] < p[j]
        /\ t = [k \in 1 .. len |-> s[p[k]]]
  BY <1>1, <1>2
<1>4. len \in Nat /\ t \in [1 .. len -> Uid]
  BY <1>1, <1>3
<1>5. t \in Seq(Uid) /\ Len(t) = len
  BY <1>4, SeqDef
<1> QED
  BY <1>3, <1>5

LEMMA ThinnedConcat ==
  ASSUME NEW s \in Seq(Uid), NEW t \in Abstract!Thinned(s),
         NEW v \in Seq(Uid), NEW w \in Abstract!Thinned(v)
  PROVE  t \o w \in Abstract!Thinned(s \o v)
<1>1. /\ t \in Seq(Uid) /\ w \in Seq(Uid)
  BY ThinnedPicks
<1>2. PICK p : /\ p \in [1 .. Len(t) -> 1 .. Len(s)]
               /\ \A i, j \in 1 .. Len(t) : i < j => p[i] < p[j]
               /\ \A k \in 1 .. Len(t) : t[k] = s[p[k]]
  BY ThinnedPicks
<1>3. PICK q : /\ q \in [1 .. Len(w) -> 1 .. Len(v)]
               /\ \A i, j \in 1 .. Len(w) : i < j => q[i] < q[j]
               /\ \A k \in 1 .. Len(w) : w[k] = v[q[k]]
  BY ThinnedPicks
<1> DEFINE a == Len(t)
           b == Len(w)
           l == Len(s)
           r == Len(v)
           f == [k \in 1 .. a + b |-> IF k <= a THEN p[k] ELSE l + q[k - a]]
           x == t \o w
           y == s \o v
<1>4. a \in Nat /\ b \in Nat /\ l \in Nat /\ r \in Nat
  BY <1>1, LenProperties
<1>5. /\ x \in Seq(Uid) /\ Len(x) = a + b
      /\ \A i \in 1 .. a + b : x[i] = IF i <= a THEN t[i] ELSE w[i - a]
  BY <1>1, ConcatProperties
<1>6. /\ y \in Seq(Uid) /\ Len(y) = l + r
      /\ \A i \in 1 .. l + r : y[i] = IF i <= l THEN s[i] ELSE v[i - l]
  BY ConcatProperties
<1> HIDE DEF x, y, a, b, l, r
<1>7. ASSUME NEW k \in 1 .. a + b, k <= a
      PROVE  /\ k \in 1 .. a /\ f[k] = p[k] /\ f[k] \in 1 .. l /\ f[k] \in 1 .. l + r
             /\ x[k] = y[f[k]]
  <2>1. k \in 1 .. a /\ f[k] = p[k]
    BY <1>4, <1>7
  <2>2. f[k] \in 1 .. l /\ t[k] = s[f[k]]
    BY <1>2, <2>1 DEF a, l
  <2> HIDE DEF f
  <2>3. f[k] \in 1 .. l + r /\ f[k] <= l
    BY <1>4, <2>2
  <2> QED
    BY <1>5, <1>6, <1>7, <2>1, <2>2, <2>3
<1>8. ASSUME NEW k \in 1 .. a + b, ~(k <= a)
      PROVE  /\ k - a \in 1 .. b /\ f[k] = l + q[k - a] /\ q[k - a] \in 1 .. r
             /\ f[k] \in 1 .. l + r /\ x[k] = y[f[k]]
  <2>1. k - a \in 1 .. b /\ f[k] = l + q[k - a]
    BY <1>4, <1>8
  <2>2. q[k - a] \in 1 .. r /\ w[k - a] = v[q[k - a]]
    BY <1>3, <2>1 DEF b, r
  <2> HIDE DEF f
  <2>3. f[k] \in 1 .. l + r /\ ~(f[k] <= l) /\ f[k] - l = q[k - a]
    BY <1>4, <2>1, <2>2
  <2> QED
    BY <1>5, <1>6, <1>8, <2>1, <2>2, <2>3
<1>9. f \in [1 .. Len(x) -> 1 .. Len(y)]
  <2>1. \A k \in 1 .. a + b : f[k] \in 1 .. l + r
    BY <1>7, <1>8
  <2>2. f = [k \in 1 .. a + b |-> f[k]]
    OBVIOUS
  <2> HIDE DEF f
  <2> QED
    BY <1>5, <1>6, <2>1, <2>2
<1>10. ASSUME NEW i \in 1 .. Len(x), NEW j \in 1 .. Len(x), i < j
       PROVE  f[i] < f[j]
  <2> HIDE DEF f
  <2>1. i \in 1 .. a + b /\ j \in 1 .. a + b
    BY <1>5
  <2>2. CASE j <= a
    <3>1. i <= a
      BY <1>4, <1>10, <2>1, <2>2
    <3>2. i \in 1 .. a /\ j \in 1 .. a /\ f[i] = p[i] /\ f[j] = p[j]
      BY <1>7, <2>1, <2>2, <3>1
    <3> QED
      BY <1>2, <1>10, <3>2 DEF a
  <2>3. CASE i <= a /\ ~(j <= a)
    <3>1. f[i] \in 1 .. l
      BY <1>7, <2>1, <2>3
    <3>2. f[j] = l + q[j - a] /\ q[j - a] \in 1 .. r
      BY <1>8, <2>1, <2>3
    <3> QED
      BY <1>4, <3>1, <3>2
  <2>4. CASE ~(i <= a)
    <3>1. ~(j <= a)
      BY <1>4, <1>10, <2>1, <2>4
    <3>2. /\ i - a \in 1 .. b /\ f[i] = l + q[i - a] /\ q[i - a] \in 1 .. r
          /\ j - a \in 1 .. b /\ f[j] = l + q[j - a] /\ q[j - a] \in 1 .. r
      BY <1>8, <2>1, <2>4, <3>1
    <3>3. i - a < j - a
      BY <1>4, <1>10, <2>1
    <3>4. q[i - a] < q[j - a]
      BY <1>3, <3>2, <3>3 DEF b
    <3> QED
      BY <1>4, <3>2, <3>4
  <2> QED
    BY <2>2, <2>3, <2>4
<1>11. \A k \in 1 .. Len(x) : x[k] = y[f[k]]
  BY <1>5, <1>7, <1>8
<1> HIDE DEF f
<1>12. x \in Abstract!Thinned(y)
  BY <1>5, <1>6, <1>9, <1>10, <1>11, ThinnedBy
<1> QED
  BY <1>12 DEF x, y

LEMMA EmbedsTwice ==
  ASSUME NEW a, NEW b, NEW c, NEW f, NEW g, Embeds(b, a, f), Embeds(c, b, g)
  PROVE  Embeds(c, a, [i \in 1 .. Len(c) |-> f[g[i]]])
<1>1. /\ \A i \in 1 .. Len(c) : /\ g[i] \in 1 .. Len(b) /\ f[g[i]] \in 1 .. Len(a)
                                /\ SameEvent(c[i], b[g[i]]) /\ SameEvent(b[g[i]], a[f[g[i]]])
      /\ \A i, j \in 1 .. Len(c) : i < j => g[i] < g[j]
      /\ \A i, j \in 1 .. Len(b) : i < j => f[i] < f[j]
  BY DEF Embeds
<1>2. \A i \in 1 .. Len(c) : SameEvent(c[i], a[f[g[i]]])
  BY <1>1 DEF SameEvent
<1>3. \A i, j \in 1 .. Len(c) : i < j => f[g[i]] < f[g[j]]
  BY <1>1
<1> QED
  BY <1>1, <1>2, <1>3 DEF Embeds

-----------------------------------------------------------------------------
(***************************************************************************)
(* Time passes.                                                            *)
(***************************************************************************)

LEMMA LaterTimes ==
  ASSUME NEW c, Calendar(c), NEW d \in Nat
  PROVE  \A i \in 1 .. Len(c) : Later(c, d)[i].in = c[i].in - d
<1> SUFFICES ASSUME NEW i \in 1 .. Len(c) PROVE Later(c, d)[i].in = c[i].in - d
  OBVIOUS
<1>1. DOMAIN c = 1 .. Len(c) /\ c[i] \in Event
  BY CalendarTypes
<1>2. Later(c, d)[i] = [c[i] EXCEPT !.in = c[i].in - d]
  BY <1>1 DEF Later
<1> QED
  BY <1>1, <1>2 DEF Event

LEMMA Slacks ==
  /\ Slack("ErrorReset") = SPW_HALF_DELAY + SPW_DELAY + DELAY
  /\ Slack("ErrorWait") = SPW_DELAY + DELAY
  /\ Slack("Ready") = DELAY /\ Slack("TransmitComplete") = DELAY
  /\ \A do \in Returning : Slack(do) \in Nat
<1>1. /\ Slack("ErrorReset") = SPW_HALF_DELAY + SPW_DELAY + DELAY
      /\ Slack("ErrorWait") = SPW_DELAY + DELAY
  BY DEF Slack
<1>2. Slack("Ready") = DELAY /\ Slack("TransmitComplete") = DELAY
  BY DEF Slack
<1> QED
  BY <1>1, <1>2, Delays DEF Returning

\* r has events of c, each as much earlier as the others.
Sooner(r, c, d) ==
  /\ d \in Nat
  /\ \A i \in 1 .. Len(r) : \E k \in 1 .. Len(c) :
       /\ r[i].do = c[k].do /\ r[i].dev = c[k].dev /\ r[i].handle = c[k].handle
       /\ r[i].in = c[k].in - d /\ c[k].in \in Nat /\ d <= c[k].in

LEMMA SoonerKeeps ==
  ASSUME NEW r, NEW c, NEW d, Sooner(r, c, d)
  PROVE  /\ Loaded(c) => Loaded(r)
         /\ \A n, b : b \in Nat /\ Within(c, n, b) => Within(r, n, b)
         /\ \A n : Timely(c, n) => Timely(r, n)
<1>1. /\ d \in Nat
      /\ \A i \in 1 .. Len(r) : \E k \in 1 .. Len(c) :
           /\ r[i].do = c[k].do /\ r[i].dev = c[k].dev /\ r[i].handle = c[k].handle
           /\ r[i].in = c[k].in - d /\ c[k].in \in Nat /\ d <= c[k].in
  BY DEF Sooner
<1>2. ASSUME Loaded(c) PROVE Loaded(r)
  <2>1. SUFFICES ASSUME NEW i \in 1 .. Len(r), r[i].do \in Carrying
                 PROVE  /\ r[i].handle \notin Handle
                        /\ r[i].do = "Receive" => r[i].in = 0
                        /\ r[i].do = "HandlingArrivedComplete" => r[i].in <= HANDLING
    BY DEF Loaded
  <2>2. PICK k \in 1 .. Len(c) :
          /\ r[i].do = c[k].do /\ r[i].handle = c[k].handle
          /\ r[i].in = c[k].in - d /\ c[k].in \in Nat /\ d <= c[k].in
    BY <1>1
  <2>3. /\ c[k].handle \notin Handle
        /\ c[k].do = "Receive" => c[k].in = 0
        /\ c[k].do = "HandlingArrivedComplete" => c[k].in <= HANDLING
    BY <1>2, <2>1, <2>2 DEF Loaded
  <2>4. c[k].in = 0 => r[i].in = 0
    BY <1>1, <2>2
  <2>5. c[k].in <= HANDLING => r[i].in <= HANDLING
    BY <1>1, <2>2, Delays
  <2> QED
    BY <2>2, <2>3, <2>4, <2>5
<1>3. ASSUME NEW n, NEW b \in Nat, Within(c, n, b) PROVE Within(r, n, b)
  <2>1. SUFFICES ASSUME NEW i \in 1 .. Len(r), OnWire(r[i], n) PROVE r[i].in <= b
    BY DEF Within
  <2>2. PICK k \in 1 .. Len(c) :
          /\ r[i].do = c[k].do /\ r[i].dev = c[k].dev
          /\ r[i].in = c[k].in - d /\ c[k].in \in Nat /\ d <= c[k].in
    BY <1>1
  <2>3. c[k].in <= b
    BY <1>3, <2>1, <2>2 DEF Within, OnWire
  <2> QED
    BY <1>1, <2>2, <2>3
<1>4. ASSUME NEW n, Timely(c, n) PROVE Timely(r, n)
  <2>1. SUFFICES ASSUME NEW i \in 1 .. Len(r), NEW j \in 1 .. Len(r),
                        OnWire(r[i], n), r[j].dev = n, r[j].do \in Returning
                 PROVE  r[i].in <= r[j].in + Slack(r[j].do)
    BY DEF Timely
  <2>2. PICK k \in 1 .. Len(c) : /\ r[i].do = c[k].do /\ r[i].dev = c[k].dev
                                 /\ r[i].in = c[k].in - d /\ c[k].in \in Nat
    BY <1>1
  <2>3. PICK l \in 1 .. Len(c) : /\ r[j].do = c[l].do /\ r[j].dev = c[l].dev
                                 /\ r[j].in = c[l].in - d /\ c[l].in \in Nat
    BY <1>1
  <2>4. OnWire(c[k], n) /\ c[l].dev = n /\ c[l].do \in Returning
    BY <2>1, <2>2, <2>3 DEF OnWire
  <2>5. c[k].in <= c[l].in + Slack(c[l].do)
    BY <1>4, <2>4 DEF Timely
  <2>6. Slack(c[l].do) \in Nat
    BY <2>4, Slacks
  <2>7. \A x, y, s \in Nat : x <= y + s => x - d <= (y - d) + s
    BY <1>1
  <2>8. c[k].in - d <= (c[l].in - d) + Slack(c[l].do)
    BY <2>2, <2>3, <2>5, <2>6, <2>7
  <2> QED
    BY <2>2, <2>3, <2>8
<1> QED
  BY <1>2, <1>3, <1>4

\* A call from outside comes a little later.
LEMMA CallKept ==
  ASSUME Calendar(calendar), NEW d \in Gap, CallAt(d)
  PROVE  /\ Calendar(Later(calendar, d))
         /\ \A n, do : do \in Carrying => Carried(Later(calendar, d), n, do) = Carried(calendar, n, do)
         /\ \E x : Sooner(Later(calendar, d), calendar, x)
<1> DEFINE r == Later(calendar, d)
           c == calendar
<1>1. /\ Calendar(r) /\ Len(r) = Len(c)
      /\ \A i \in 1 .. Len(c) : SameEvent(r[i], c[i])
  BY CallCalendar
<1>2. d \in Nat
  BY LinkAssumption
<1>3. \A i \in 1 .. Len(c) : r[i].in = c[i].in - d
  BY <1>2, LaterTimes
<1>4. \A i \in 1 .. Len(c) : c[i].in \in Nat /\ r[i].in \in Nat
  BY <1>1, CalendarTypes
<1> HIDE DEF r, c
<1>5. \A i \in 1 .. Len(c) : d <= c[i].in
  BY <1>2, <1>3, <1>4
<1>6. Sooner(r, c, d)
  BY <1>1, <1>2, <1>3, <1>4, <1>5 DEF Sooner, SameEvent
<1>7. ASSUME NEW m, NEW do \in Carrying PROVE Carried(r, m, do) = Carried(c, m, do)
  <2> DEFINE s == Carried(r, m, do)
  <2>1. PICK g : Lists(s, r, m, do, g)
    BY <1>1, CarriedLists
  <2> HIDE DEF s
  <2>2. Places(r, m, do) = Places(c, m, do)
    BY <1>1 DEF Places, SameEvent
  <2>3. \A k \in 1 .. Len(s) : g[k] \in Places(c, m, do)
    BY <2>1, <2>2 DEF Lists, Enumerates
  <2>4. \A k \in 1 .. Len(s) : s[k] = c[g[k]].uid
    BY <1>1, <2>1, <2>3 DEF Lists, Places, SameEvent
  <2>5. Lists(s, c, m, do, g)
    BY <2>1, <2>2, <2>4 DEF Lists
  <2>6. Carried(c, m, do) = s
    BY <2>5, ListIsCarried DEF c
  <2> QED
    BY <2>6 DEF s
<1> QED
  BY <1>1, <1>6, <1>7 DEF r, c

LEMMA RestSooner ==
  ASSUME Calendar(calendar), calendar # <<>>
  PROVE  Sooner(Rest, calendar, Head(calendar).in)
<1> DEFINE c == calendar
           t == Tail(c)
           h == Head(c).in
<1>1. /\ Len(c) \in Nat \ {0} /\ Head(c) = c[1]
      /\ Calendar(Rest) /\ Len(Rest) = Len(c) - 1
      /\ \A i \in 1 .. Len(Rest) : i + 1 \in 1 .. Len(c) /\ SameEvent(Rest[i], c[i + 1])
  BY RestCalendar
<1>2. /\ c \in Seq(Event) /\ DOMAIN c = 1 .. Len(c)
      /\ \A i \in 1 .. Len(c) : c[i] \in Event /\ c[i].in \in Nat
  BY CalendarTypes
<1>3. /\ t \in Seq(Event) /\ Len(t) = Len(c) - 1
      /\ \A i \in 1 .. Len(t) : t[i] = c[i + 1]
  BY <1>2, HeadTailProperties
<1>4. Rest = [i \in DOMAIN t |-> [t[i] EXCEPT !.in = @ - h]]
  BY DEF Rest, Later
<1>5. DOMAIN t = 1 .. Len(t)
  BY <1>3, LenProperties
<1>6. h \in Nat
  BY <1>1, <1>2
<1>7. \A i, j \in 1 .. Len(c) : i < j => c[i].in <= c[j].in
  BY DEF Calendar, InRunOrder
<1> HIDE DEF t, c
<1>8. ASSUME NEW i \in 1 .. Len(Rest)
      PROVE  /\ i + 1 \in 1 .. Len(c)
             /\ Rest[i].do = c[i + 1].do /\ Rest[i].dev = c[i + 1].dev
             /\ Rest[i].handle = c[i + 1].handle
             /\ Rest[i].in = c[i + 1].in - h /\ c[i + 1].in \in Nat /\ h <= c[i + 1].in
  <2>1. i \in 1 .. Len(t) /\ i + 1 \in 1 .. Len(c) /\ 1 \in 1 .. Len(c) /\ 1 < i + 1
    BY <1>1, <1>3
  <2>2. Rest[i] = [c[i + 1] EXCEPT !.in = c[i + 1].in - h]
    BY <1>3, <1>4, <1>5, <2>1
  <2>3. c[i + 1] \in Event /\ c[i + 1].in \in Nat
    BY <1>2, <2>1
  <2>4. Rest[i].in = c[i + 1].in - h
    BY <2>2, <2>3 DEF Event
  <2>5. h <= c[i + 1].in
    BY <1>1, <1>7, <2>1
  <2> HIDE DEF h
  <2> QED
    BY <1>1, <2>1, <2>3, <2>4, <2>5 DEF SameEvent
<1> HIDE DEF h
<1>9. Sooner(Rest, c, h)
  BY <1>6, <1>8 DEF Sooner
<1> QED
  BY <1>9 DEF c, h

\* When one of n's events that precede a transmission runs, its wire is empty soon
\* enough.
LEMMA RestReturns ==
  ASSUME Calendar(calendar), NEW n, NEW do \in Returning, Runs(do, n), Timely(calendar, n)
  PROVE  Within(Rest, n, Slack(do))
<1>1. calendar # <<>> /\ Head(calendar).do = do /\ Head(calendar).dev = n
  BY DEF Runs
<1>2. Head(calendar) = calendar[1] /\ Len(calendar) \in Nat \ {0}
  BY <1>1, RestCalendar
<1>3. /\ Head(calendar).in \in Nat
      /\ \A i \in 1 .. Len(Rest) : \E k \in 1 .. Len(calendar) :
           /\ Rest[i].do = calendar[k].do /\ Rest[i].dev = calendar[k].dev
           /\ Rest[i].in = calendar[k].in - Head(calendar).in
           /\ calendar[k].in \in Nat
  BY <1>1, RestSooner DEF Sooner
<1> SUFFICES ASSUME NEW i \in 1 .. Len(Rest), OnWire(Rest[i], n)
             PROVE  Rest[i].in <= Slack(do)
  BY DEF Within
<1>4. PICK k \in 1 .. Len(calendar) :
           /\ Rest[i].do = calendar[k].do /\ Rest[i].dev = calendar[k].dev
           /\ Rest[i].in = calendar[k].in - Head(calendar).in
           /\ calendar[k].in \in Nat
  BY <1>3
<1>5. 1 \in 1 .. Len(calendar) /\ OnWire(calendar[k], n)
  BY <1>2, <1>4 DEF OnWire
<1>6. calendar[k].in <= calendar[1].in + Slack(do)
  BY <1>1, <1>2, <1>5 DEF Timely
<1>7. Slack(do) \in Nat
  BY Slacks
<1> QED
  BY <1>2, <1>3, <1>4, <1>6, <1>7

-----------------------------------------------------------------------------
(***************************************************************************)
(* Transmissions.                                                          *)
(***************************************************************************)

\* c has an event do of n that runs in t.
Has(c, do, n, t) == \E i \in 1 .. Len(c) : c[i].do = do /\ c[i].dev = n /\ c[i].in = t

LEMMA InsertHas ==
  ASSUME NEW c, Calendar(c), NEW e \in Event
  PROVE  /\ Has(Insert(c, e), e.do, e.dev, e.in)
         /\ \A do, n, t : Has(c, do, n, t) => Has(Insert(c, e), do, n, t)
<1> DEFINE r == Insert(c, e)
<1>1. c \in Seq(Event) /\ Len(c) \in Nat /\ InRunOrder(c)
  BY CalendarTypes DEF Calendar
<1>2. Len(r) = Len(c) + 1
  BY <1>1, Inserted
<1>3. PICK p \in 1 .. Len(c) + 1 : \A i \in 1 .. Len(c) + 1 :
        r[i] = IF i < p THEN c[i] ELSE IF i = p THEN e ELSE c[i - 1]
  BY <1>1, Inserted
<1> HIDE DEF r
<1>4. r[p] = e /\ p \in 1 .. Len(r)
  BY <1>1, <1>2, <1>3
<1>5. ASSUME NEW k \in 1 .. Len(c) PROVE \E i \in 1 .. Len(r) : r[i] = c[k]
  <2>1. CASE k < p
    <3>1. k \in 1 .. Len(c) + 1
      BY <1>1
    <3> QED
      BY <1>2, <1>3, <2>1, <3>1
  <2>2. CASE ~(k < p)
    <3>1. k + 1 \in 1 .. Len(c) + 1 /\ ~(k + 1 < p) /\ k + 1 # p /\ (k + 1) - 1 = k
      BY <1>1, <2>2
    <3> QED
      BY <1>2, <1>3, <3>1
  <2> QED
    BY <2>1, <2>2
<1>6. Has(r, e.do, e.dev, e.in)
  BY <1>4 DEF Has
<1>7. ASSUME NEW do, NEW n, NEW t, Has(c, do, n, t) PROVE Has(r, do, n, t)
  <2>1. PICK k \in 1 .. Len(c) : c[k].do = do /\ c[k].dev = n /\ c[k].in = t
    BY <1>7 DEF Has
  <2>2. PICK i \in 1 .. Len(r) : r[i] = c[k]
    BY <1>5
  <2> QED
    BY <2>1, <2>2 DEF Has
<1> QED
  BY <1>6, <1>7 DEF r

LEMMA ForgetHas ==
  ASSUME NEW c, Calendar(c), NEW n, NEW h, NEW u, NEW do, NEW m, NEW t, Has(c, do, m, t)
  PROVE  Has(Forget(c, n, h, u), do, m, t)
<1> DEFINE r == Forget(c, n, h, u)
<1>1. Len(r) = Len(c)
  BY ForgetCalendar
<1>2. DOMAIN c = 1 .. Len(c) /\ \A i \in 1 .. Len(c) : c[i] \in Event
  BY CalendarTypes
<1>3. PICK i \in 1 .. Len(c) : c[i].do = do /\ c[i].dev = m /\ c[i].in = t
  BY DEF Has
<1>4. r[i] = IF c[i].dev = n /\ c[i].handle = h /\ c[i].uid = u
               THEN [c[i] EXCEPT !.handle = "none"] ELSE c[i]
  BY <1>2 DEF Forget
<1> HIDE DEF r
<1>5. r[i].do = do /\ r[i].dev = m /\ r[i].in = t
  BY <1>2, <1>3, <1>4 DEF Event
<1>6. Has(r, do, m, t)
  BY <1>1, <1>5 DEF Has
<1> QED
  BY <1>6 DEF r

\* A packet of n that has been put on the wire.
Sent(c, r, n, u) ==
  /\ Calendar(r) /\ Loaded(r)
  /\ \A m, do : do \in Carrying /\ (m # n \/ do # "TransmissionComplete") =>
       Carried(r, m, do) = Carried(c, m, do)
  /\ \E q \in 1 .. Len(Carried(c, n, "TransmissionComplete")) + 1 :
       Carried(r, n, "TransmissionComplete") =
         InsertAt(Carried(c, n, "TransmissionComplete"), q, u)
  /\ Within(c, n, DELAY) =>
       Carried(r, n, "TransmissionComplete") = Append(Carried(c, n, "TransmissionComplete"), u)

\* How long the transmissions take.
Paced(c, r, n, u) ==
  /\ \A m, b : m # n /\ Within(c, m, b) => Within(r, m, b)
  /\ \A m : m # n => TimelyKept(c, r, m)
  /\ Within(c, n, DELAY) => Within(r, n, txTime[u] + DELAY)
  /\ Has(r, "TransmitComplete", n, txTime[u])

LEMMA TransmitStartSends ==
  ASSUME NEW c, Calendar(c), Loaded(c), NEW n \in Node, NEW u \in Uid, txTime \in Traffic
  PROVE  Sent(c, TransmitStart(c, n, u), n, u) /\ Paced(c, TransmitStart(c, n, u), n, u)
<1> DEFINE x == txTime[u]
           a == ScheduleAs("transmit_complete_events", c, x, "TransmitComplete", n, u)
           b == Forget(a, n, "m_events", u)
           e == [do |-> "TransmissionComplete", dev |-> n, uid |-> u, in |-> x + DELAY,
                 handle |-> "m_events"]
           r == Insert(b, e)
           T == Carried(c, n, "TransmissionComplete")
<1>1. x \in Nat /\ x + DELAY \in Nat /\ DELAY \in Nat
  BY Delays, LinkAssumption
<1>2. /\ "TransmitComplete" \in Handler \ Carrying /\ "TransmissionComplete" \in Carrying
      /\ "transmit_complete_events" \in Handle \cup {"m_events"}
  BY DEF Handler, Handle, Carrying
<1>3. /\ Kept(c, a)
      /\ \A m : m # n => TimelyKept(c, a, m)
  BY <1>1, <1>2, ScheduleAsKept
<1>4. TransmitStart(c, n, u) = r
  BY DEF TransmitStart, OntoWire, ScheduleAs
<1>5. Has(a, "TransmitComplete", n, x)
  <2> DEFINE d == [do |-> "TransmitComplete", dev |-> n, uid |-> u, in |-> x,
                   handle |-> "transmit_complete_events"]
             f == Forget(c, n, "transmit_complete_events", u)
  <2>1. d \in Event /\ d.do = "TransmitComplete" /\ d.dev = n /\ d.in = x
    BY <1>1, <1>2 DEF Event
  <2>2. Calendar(f)
    BY ForgetCalendar
  <2>3. a = Insert(f, d)
    BY DEF ScheduleAs
  <2> HIDE DEF a, d, f
  <2> QED
    BY <2>1, <2>2, <2>3, InsertHas
<1> HIDE DEF a
<1>6. Calendar(a) /\ Loaded(a)
  BY <1>3 DEF Kept
<1>7. Kept(a, b) /\ \A m : TimelyKept(a, b, m)
  BY <1>6, ForgetKept
<1>8. Has(b, "TransmitComplete", n, x)
  BY <1>5, <1>6, ForgetHas
<1> HIDE DEF b
<1>9. Kept(c, b) /\ \A m : m # n => TimelyKept(c, b, m)
  BY <1>3, <1>7, KeptTwice
<1>10. /\ Calendar(b) /\ Loaded(b)
       /\ \A m, do : do \in Carrying => Carried(b, m, do) = Carried(c, m, do)
       /\ \A m, y : Within(c, m, y) => Within(b, m, y)
  BY <1>9 DEF Kept
<1>11. /\ e \in Event /\ e.do = "TransmissionComplete" /\ e.dev = n /\ e.uid = u
       /\ e.in = x + DELAY /\ e.handle = "m_events" /\ e.handle \notin Handle
  <2>1. "TransmissionComplete" \in Handler /\ "m_events" \notin Handle
    BY DEF Handler, Handle
  <2>2. e \in Event
    BY <1>1, <2>1 DEF Event
  <2> QED
    BY <2>1, <2>2
<1> HIDE DEF e
<1>12. Calendar(r)
  BY <1>2, <1>10, <1>11, InsertCalendar
<1>13. Adds(r, b, e)
  BY <1>10, <1>11, InsertAdds
<1>14. Loaded(r)
  BY <1>10, <1>11, <1>13, AddsKeeps
<1>15. \A m, do : do \in Carrying /\ (m # n \/ do # "TransmissionComplete") =>
         Carried(r, m, do) = Carried(c, m, do)
  BY <1>10, <1>11, <1>12, InsertOther
<1>16. /\ \E q \in 1 .. Len(T) + 1 : Carried(r, n, "TransmissionComplete") = InsertAt(T, q, u)
       /\ (\A i \in Places(b, n, "TransmissionComplete") : b[i].in <= e.in) =>
            Carried(r, n, "TransmissionComplete") = Append(T, u)
  <2>1. Carried(b, n, "TransmissionComplete") = T
    BY <1>2, <1>10
  <2> HIDE DEF T, r
  <2> QED
    BY <1>2, <1>10, <1>11, <1>12, <2>1, InsertPacket DEF r
<1>17. ASSUME Within(c, n, DELAY)
       PROVE  /\ Carried(r, n, "TransmissionComplete") = Append(T, u)
              /\ Within(r, n, x + DELAY)
  <2>1. Within(b, n, DELAY)
    BY <1>10, <1>17
  <2>2. ASSUME NEW i \in 1 .. Len(b), OnWire(b[i], n) PROVE b[i].in <= x + DELAY
    <3>1. b[i].in \in Nat /\ b[i].in <= DELAY
      BY <1>10, <2>1, <2>2, CalendarTypes DEF Within
    <3> HIDE DEF x
    <3> QED
      BY <1>1, <3>1
  <2>3. Within(b, n, x + DELAY)
    BY <2>2 DEF Within
  <2>4. Within(r, n, x + DELAY)
    <3>1. OnWire(e, n) => e.in <= x + DELAY
      <4> HIDE DEF x
      <4> QED
        BY <1>1, <1>11
    <3> QED
      BY <1>13, <2>3, <3>1, AddsKeeps
  <2>5. \A i \in Places(b, n, "TransmissionComplete") : b[i].in <= e.in
    BY <1>11, <2>2 DEF Places, OnWire
  <2> QED
    BY <1>16, <2>4, <2>5
<1>18. \A m : m # n => ~OnWire(e, m) /\ e.dev # m
  BY <1>11 DEF OnWire
<1>19. \A m, y : m # n /\ Within(c, m, y) => Within(r, m, y)
  BY <1>10, <1>13, <1>18, AddsKeeps
<1>20. ASSUME NEW m, m # n PROVE TimelyKept(c, r, m)
  BY <1>9, <1>13, <1>18, <1>20, AddsKeeps DEF TimelyKept
<1>21. Has(r, "TransmitComplete", n, x)
  BY <1>8, <1>10, <1>11, InsertHas
<1> HIDE DEF r
<1>22. Sent(c, r, n, u)
  BY <1>12, <1>14, <1>15, <1>16, <1>17 DEF Sent
<1>23. Paced(c, r, n, u)
  BY <1>17, <1>19, <1>20, <1>21 DEF Paced
<1> QED
  BY <1>4, <1>22, <1>23

-----------------------------------------------------------------------------
(***************************************************************************)
(* The handlers that leave every packet where it is.                       *)
(***************************************************************************)

\* r is made of what is left when an event of n has started; b is how long the
\* wire of n may be in use for it to be empty when n transmits again.
Plain(r, n, b) ==
  /\ Kept(Rest, r)
  /\ \A m : m # n \/ Within(Rest, n, b) => TimelyKept(Rest, r, m)

LEMMA KeptItself ==
  ASSUME NEW c, Calendar(c)
  PROVE  Kept(c, c) /\ \A m : TimelyKept(c, c, m)
BY DEF Kept, TimelyKept

\* A cancellation, and then what r is made of.
LEMMA CancelFirst ==
  ASSUME NEW c, Calendar(c), NEW n, NEW H \in SUBSET Handle, NEW r, Kept(Cancel(c, n, H), r)
  PROVE  /\ Kept(c, r)
         /\ \A m : TimelyKept(Cancel(c, n, H), r, m) => TimelyKept(c, r, m)
         /\ Calendar(Cancel(c, n, H))
         /\ \A m, b : Within(c, m, b) => Within(Cancel(c, n, H), m, b)
<1> DEFINE a == Cancel(c, n, H)
<1>1. Kept(c, a) /\ \A m : TimelyKept(c, a, m)
  BY CancelKept
<1> HIDE DEF a
<1>2. Kept(c, r) /\ \A m : TimelyKept(c, a, m) /\ TimelyKept(a, r, m) => TimelyKept(c, r, m)
  BY <1>1, KeptTwice DEF a
<1>3. Calendar(a) /\ \A m, b : Within(c, m, b) => Within(a, m, b)
  BY <1>1 DEF Kept
<1> QED
  BY <1>1, <1>2, <1>3 DEF a

LEMMA ResetsPlain ==
  ASSUME Calendar(calendar), NEW n \in Node
  PROVE  /\ ErrorResetSpWState(n) => Plain(calendar', n, SPW_HALF_DELAY + Slack("ErrorWait"))
         /\ ErrorWaitSpWState(n) => Plain(calendar', n, SPW_DELAY + Slack("Ready"))
         /\ ReadySpWState(n) => Plain(calendar', n, SPW_DELAY + Slack("ErrorReset"))
         /\ ApproachLinkDisconnection(n) =>
              Plain(calendar', n, EXCHANGE_OF_SILENCE + Slack("ErrorReset"))
<1>1. ASSUME calendar # <<>> PROVE Calendar(Rest)
  BY <1>1, RestCalendar
<1>2. ASSUME ErrorResetSpWState(n)
      PROVE  Plain(calendar', n, SPW_HALF_DELAY + Slack("ErrorWait"))
  <2>1. calendar # <<>> /\ calendar' = ErrorReset(Rest, n)
    BY <1>2 DEF ErrorResetSpWState, Runs
  <2> QED
    BY <1>1, <2>1, HandlersKeep DEF Plain
<1>3. ASSUME ErrorWaitSpWState(n) PROVE Plain(calendar', n, SPW_DELAY + Slack("Ready"))
  <2>1. calendar # <<>> /\ calendar' = Schedule(Rest, SPW_DELAY, "Ready", n, NoUid)
    BY <1>3 DEF ErrorWaitSpWState, Runs
  <2>2. "Ready" \in Handler \ Carrying /\ NoUid \in Uid \cup {NoUid}
    BY DEF Handler, Carrying
  <2> QED
    BY <1>1, <2>1, <2>2, Delays, ScheduleKept DEF Plain
<1>4. ASSUME ReadySpWState(n) PROVE Plain(calendar', n, SPW_DELAY + Slack("ErrorReset"))
  <2>1. calendar # <<>> /\ calendar' = Started(Rest, n)
    BY <1>4 DEF ReadySpWState, Runs
  <2> QED
    BY <1>1, <2>1, HandlersKeep DEF Plain
<1>5. ASSUME ApproachLinkDisconnection(n)
      PROVE  Plain(calendar', n, EXCHANGE_OF_SILENCE + Slack("ErrorReset"))
  <2> DEFINE a == Cancel(Rest, n, Handle)
  <2>1. calendar # <<>> /\ calendar' = Timeout(a, n, EXCHANGE_OF_SILENCE)
    BY <1>5 DEF ApproachLinkDisconnection, Runs
  <2>2. Calendar(a)
    BY <1>1, <2>1, CancelCalendar
  <2>3. /\ Kept(a, calendar')
        /\ \A m : (m = n => Within(a, n, EXCHANGE_OF_SILENCE + Slack("ErrorReset"))) =>
             TimelyKept(a, calendar', m)
    <3> HIDE DEF a
    <3> QED
      BY <2>1, <2>2, Delays, HandlersKeep
  <2>4. /\ Kept(Rest, calendar')
        /\ \A m : TimelyKept(a, calendar', m) => TimelyKept(Rest, calendar', m)
        /\ \A m, b : Within(Rest, m, b) => Within(a, m, b)
    BY <1>1, <2>1, <2>3, CancelFirst
  <2> HIDE DEF a
  <2> QED
    BY <2>3, <2>4 DEF Plain
<1> QED
  BY <1>2, <1>3, <1>4, <1>5

LEMMA NullsPlain ==
  ASSUME Calendar(calendar), NEW n \in Node
  PROVE  /\ SendNull(n) \/ SendFCT(n) => \A b : Plain(calendar', n, b)
         /\ ReceiveNull(n) => IF machineState[n] = "STARTED"
                                THEN Plain(calendar', n, SPW_DELAY + Slack("ErrorReset"))
                                ELSE \A b : Plain(calendar', n, b)
<1>1. ASSUME calendar # <<>> PROVE Calendar(Rest)
  BY <1>1, RestCalendar
<1>2. ASSUME NEW do \in {"ReceiveNull", "ReceiveFCT"}, NEW h \in {"sendNull", "sendFCT"},
             NEW k \in {"SendNull", "SendFCT"}, calendar # <<>>,
             calendar' = LET c == Schedule(Rest, LATENCY, do, Peer(n), NoUid)
                         IN  IF machineState[n] = "ERROR_RESET" THEN c
                             ELSE ScheduleAs(h, c, PERIOD, k, n, NoUid)
      PROVE  \A b : Plain(calendar', n, b)
  <2> DEFINE c == Schedule(Rest, LATENCY, do, Peer(n), NoUid)
             r == ScheduleAs(h, c, PERIOD, k, n, NoUid)
  <2>1. Calendar(Rest) /\ h \in Handle
    BY <1>1, <1>2 DEF Handle
  <2>2. Kept(Rest, c) /\ \A m : TimelyKept(Rest, c, m)
    BY <2>1, HandlersKeep
  <2> HIDE DEF c
  <2>3. Calendar(c)
    BY <2>2 DEF Kept
  <2>4. Kept(c, r) /\ \A m : TimelyKept(c, r, m)
    BY <2>1, <2>3, HandlersKeep
  <2> HIDE DEF r
  <2>5. Kept(Rest, r) /\ \A m : TimelyKept(Rest, r, m)
    BY <2>2, <2>4, KeptTwice
  <2>6. calendar' = c \/ calendar' = r
    BY <1>2 DEF c, r
  <2> QED
    BY <2>2, <2>5, <2>6 DEF Plain
<1>3. ASSUME SendNull(n) PROVE \A b : Plain(calendar', n, b)
  <2>1. /\ calendar # <<>>
        /\ calendar' = LET c == Schedule(Rest, LATENCY, "ReceiveNull", Peer(n), NoUid)
                       IN  IF machineState[n] = "ERROR_RESET" THEN c
                           ELSE ScheduleAs("sendNull", c, PERIOD, "SendNull", n, NoUid)
    BY <1>3 DEF SendNull, Runs, NullInLink
  <2> QED
    BY <1>2, <2>1
<1>4. ASSUME SendFCT(n) PROVE \A b : Plain(calendar', n, b)
  <2>1. /\ calendar # <<>>
        /\ calendar' = LET c == Schedule(Rest, LATENCY, "ReceiveFCT", Peer(n), NoUid)
                       IN  IF machineState[n] = "ERROR_RESET" THEN c
                           ELSE ScheduleAs("sendFCT", c, PERIOD, "SendFCT", n, NoUid)
    BY <1>4 DEF SendFCT, Runs, FCTInLink
  <2> QED
    BY <1>2, <2>1
<1>5. ASSUME ReceiveNull(n), machineState[n] = "STARTED"
      PROVE  Plain(calendar', n, SPW_DELAY + Slack("ErrorReset"))
  <2> DEFINE H == {"sendNull"}
             a == Cancel(Rest, n, H)
  <2>1. calendar # <<>> /\ calendar' = Connecting(a, n)
    BY <1>5 DEF ReceiveNull, Runs
  <2>2. Calendar(a) /\ H \in SUBSET Handle
    BY <1>1, <2>1, CancelCalendar DEF Handle
  <2>3. /\ Kept(a, calendar')
        /\ \A m : (m = n => Within(a, n, SPW_DELAY + Slack("ErrorReset"))) =>
             TimelyKept(a, calendar', m)
    <3> HIDE DEF a
    <3> QED
      BY <2>1, <2>2, Delays, HandlersKeep
  <2> HIDE DEF H
  <2>4. /\ Kept(Rest, calendar')
        /\ \A m : TimelyKept(a, calendar', m) => TimelyKept(Rest, calendar', m)
        /\ \A m, b : Within(Rest, m, b) => Within(a, m, b)
    BY <1>1, <2>1, <2>2, <2>3, CancelFirst
  <2> HIDE DEF a
  <2> QED
    BY <2>3, <2>4 DEF Plain
<1>6. ASSUME ReceiveNull(n), machineState[n] # "STARTED"
      PROVE  \A b : Plain(calendar', n, b)
  <2>1. calendar # <<>> /\ calendar' = Rest
    BY <1>6 DEF ReceiveNull, Runs
  <2> QED
    BY <1>1, <2>1, KeptItself DEF Plain
<1> QED
  BY <1>3, <1>4, <1>5, <1>6

-----------------------------------------------------------------------------
(***************************************************************************)
(* What is on its way as a whole: one sequence of packets for each         *)
(* direction, those that have been handed to the simulator and those that  *)
(* wait in the queue of their device.                                      *)
(***************************************************************************)

Bound(c, n) ==
  Carried(c, Peer(n), "Receive") \o Carried(c, n, "HandlingArrivedComplete")
    \o Carried(c, n, "TransmissionComplete")
Way(n) == Bound(calendar, n) \o m_queue[n]

\* The way from n becomes w.
Becomes(n, w) == \A m \in Node : Way(m)' = IF m = n THEN w ELSE Way(m)
Stays == \A m \in Node : Way(m)' = Way(m)

\* The first packet on the way from n arrives.
Arrives(n) ==
  /\ Way(n) # <<>> /\ Becomes(n, Tail(Way(n)))
  /\ received' = [received EXCEPT ![Peer(n)] = Append(@, Head(Way(n)))]

\* The way from n becomes s with one packet moved forward.
Passes(n, s) == \E w \in Abstract!Overtakings(s) : Becomes(n, w)

\* The way from n becomes s, in another order if packets do not keep it.
Settles(n, s, ord) == Becomes(n, s) \/ (~ord /\ Passes(n, s))

\* The device of n is given u.
Given(n, u) == sent' = [sent EXCEPT ![n] = Append(@, u)]

\* What a step may do to the ways, ord being whether packets keep their order.
LinkMove(ord) ==
  \/ /\ sent' = sent /\ received' = received
     /\ \/ Stays
        \/ \A m \in Node : Way(m)' \in Abstract!Thinned(Way(m))
        \/ ~ord /\ \E n \in Node : Passes(n, Way(n))
  \/ /\ received' = received
     /\ \E n \in Node, u \in Uid :
          Given(n, u) /\ (Stays \/ Settles(n, Append(Way(n), u), ord))
  \/ sent' = sent /\ \E n \in Node : Arrives(n)

LEMMA HeadFirst ==
  ASSUME NEW y \in Seq(Uid), y # <<>>
  PROVE  /\ Head(y) \in Uid /\ Tail(y) \in Seq(Uid) /\ <<Head(y)>> \in Seq(Uid)
         /\ y = <<Head(y)>> \o Tail(y)
<1>1. Head(y) \in Uid /\ Tail(y) \in Seq(Uid)
  BY HeadTailProperties
<1>2. Len(y) \in Nat \ {0}
  BY EmptySeq
<1>3. 1 \in 1 .. Len(y) /\ Len(y) \in 1 .. Len(y)
  BY <1>2
<1>4. SubSeq(y, 1, Len(y)) = <<y[1]>> \o SubSeq(y, 1 + 1, Len(y))
  BY <1>3, SubSeqRecursiveFirst
<1>5. SubSeq(y, 1, Len(y)) = y /\ Tail(y) = SubSeq(y, 2, Len(y)) /\ Head(y) = y[1]
  BY <1>2, SubSeqFull, TailIsSubSeq
<1>6. <<Head(y)>> \in Seq(Uid)
  BY <1>1
<1> QED
  BY <1>1, <1>4, <1>5, <1>6

\* The first of y goes to the end of x.
LEMMA MoveOn ==
  ASSUME NEW x \in Seq(Uid), NEW y \in Seq(Uid), y # <<>>
  PROVE  /\ Append(x, Head(y)) \in Seq(Uid) /\ Tail(y) \in Seq(Uid)
         /\ Append(x, Head(y)) \o Tail(y) = x \o y
<1> DEFINE h == Head(y)
           z == <<h>>
           t == Tail(y)
<1>1. h \in Uid /\ t \in Seq(Uid) /\ z \in Seq(Uid) /\ y = z \o t
  BY HeadFirst
<1>2. Append(x, h) = x \o z /\ Append(x, h) \in Seq(Uid)
  BY <1>1, AppendIsConcat, AppendProperties
<1> HIDE DEF h, z, t
<1>3. (x \o z) \o t = x \o (z \o t)
  BY <1>1, Associative
<1> QED
  BY <1>1, <1>2, <1>3 DEF h, t

LEMMA FirstOfAll ==
  ASSUME NEW y \in Seq(Uid), y # <<>>, NEW x \in Seq(Uid)
  PROVE  y \o x # <<>> /\ Head(y \o x) = Head(y) /\ Tail(y \o x) = Tail(y) \o x
<1> DEFINE s == y \o x
           t == Tail(y)
<1>1. Len(y) \in Nat \ {0} /\ Len(x) \in Nat
  BY EmptySeq, LenProperties
<1>2. /\ s \in Seq(Uid) /\ Len(s) = Len(y) + Len(x)
      /\ \A i \in 1 .. Len(y) + Len(x) : s[i] = IF i <= Len(y) THEN y[i] ELSE x[i - Len(y)]
  BY ConcatProperties
<1>3. s # <<>> /\ s[1] = y[1]
  <2>1. 1 \in 1 .. Len(y) + Len(x) /\ 1 <= Len(y)
    BY <1>1
  <2>2. Len(s) # 0
    BY <1>1, <1>2
  <2> QED
    BY <1>2, <2>1, <2>2, EmptySeq
<1>4. t \in Seq(Uid) /\ Len(t) = Len(y) - 1 /\ \A i \in 1 .. Len(t) : t[i] = y[i + 1]
  BY HeadTailProperties
<1> HIDE DEF s, t
<1>5. Tail(s) \in Seq(Uid) /\ Len(Tail(s)) = Len(s) - 1
      /\ \A i \in 1 .. Len(Tail(s)) : Tail(s)[i] = s[i + 1]
  BY <1>2, <1>3, HeadTailProperties
<1>6. /\ t \o x \in Seq(Uid) /\ Len(t \o x) = Len(t) + Len(x)
      /\ \A i \in 1 .. Len(t) + Len(x) : (t \o x)[i] = IF i <= Len(t) THEN t[i] ELSE x[i - Len(t)]
  BY <1>4, ConcatProperties
<1> DEFINE w == t \o x
           v == Tail(s)
<1>7. Len(w) = Len(v) /\ Len(v) = (Len(y) - 1) + Len(x)
  BY <1>1, <1>2, <1>4, <1>5, <1>6
<1>8. ASSUME NEW i \in 1 .. Len(v) PROVE v[i] = w[i]
  <2>1. i \in 1 .. Len(t) + Len(x) /\ i + 1 \in 1 .. Len(y) + Len(x)
    BY <1>1, <1>4, <1>7
  <2>2. v[i] = s[i + 1]
    BY <1>5
  <2> HIDE DEF v
  <2>3. CASE i <= Len(t)
    <3>1. i \in 1 .. Len(t) /\ i + 1 <= Len(y)
      BY <1>1, <1>4, <2>1, <2>3
    <3> QED
      BY <1>2, <1>4, <1>6, <2>1, <2>2, <2>3, <3>1
  <2>4. CASE ~(i <= Len(t))
    <3>1. ~(i + 1 <= Len(y)) /\ (i + 1) - Len(y) = i - Len(t)
      BY <1>1, <1>4, <2>1, <2>4
    <3> QED
      BY <1>2, <1>6, <2>1, <2>2, <2>4, <3>1
  <2> QED
    BY <2>3, <2>4
<1>9. v \in Seq(Uid) /\ w \in Seq(Uid)
  BY <1>5, <1>6
<1> HIDE DEF v, w
<1>10. v = w
  BY <1>7, <1>8, <1>9, SeqEqual
<1>11. Head(s) = s[1] /\ Head(y) = y[1]
  BY <1>1, <1>2, <1>3
<1> QED
  BY <1>3, <1>10, <1>11 DEF s, t, v, w

LEMMA BoundTypes ==
  ASSUME NEW c, Calendar(c), NEW n \in Node
  PROVE  /\ Carried(c, Peer(n), "Receive") \in Seq(Uid)
         /\ Carried(c, n, "HandlingArrivedComplete") \in Seq(Uid)
         /\ Carried(c, n, "TransmissionComplete") \in Seq(Uid)
         /\ Carried(c, Peer(n), "Receive") \o Carried(c, n, "HandlingArrivedComplete")
              \in Seq(Uid)
         /\ Bound(c, n) \in Seq(Uid)
<1>1. {"Receive", "HandlingArrivedComplete", "TransmissionComplete"} \subseteq Carrying
  BY DEF Carrying
<1>2. /\ Carried(c, Peer(n), "Receive") \in Seq(Uid)
      /\ Carried(c, n, "HandlingArrivedComplete") \in Seq(Uid)
      /\ Carried(c, n, "TransmissionComplete") \in Seq(Uid)
  BY <1>1, CarriedLists
<1>3. Carried(c, Peer(n), "Receive") \o Carried(c, n, "HandlingArrivedComplete") \in Seq(Uid)
  BY <1>2, ConcatProperties
<1>4. Bound(c, n) \in Seq(Uid)
  BY <1>2, <1>3, ConcatProperties DEF Bound
<1> QED
  BY <1>2, <1>3, <1>4

\* The same packets everywhere are the same ways.
LEMMA SameBound ==
  ASSUME NEW c, NEW r, \A m, do : do \in Carrying => Carried(r, m, do) = Carried(c, m, do)
  PROVE  \A n \in Node : Bound(r, n) = Bound(c, n)
<1>1. {"Receive", "HandlingArrivedComplete", "TransmissionComplete"} \subseteq Carrying
  BY DEF Carrying
<1> QED
  BY <1>1 DEF Bound

LEMMA PlainStays ==
  ASSUME LinkTypes, Loaded(calendar), NEW n, NEW do \in Handler \ Carrying, Runs(do, n),
         Kept(Rest, calendar'), m_queue' = m_queue
  PROVE  Stays /\ Loaded(calendar')
<1>1. calendar # <<>> /\ Head(calendar).do \notin Carrying
  BY DEF Runs
<1>2. Calendar(calendar) /\ Calendar(Rest)
  BY <1>1, RestCalendar DEF LinkTypes
<1>3. \A m, k : k \in Carrying => Carried(Rest, m, k) = Carried(calendar, m, k)
  <2> SUFFICES ASSUME NEW m, NEW k \in Carrying
               PROVE  Carried(Rest, m, k) = Carried(calendar, m, k)
    OBVIOUS
  <2>1. ~Runs(k, m)
    BY <1>1 DEF Runs
  <2> QED
    BY <1>1, <1>2, <2>1, FirstLeaves
<1>4. Loaded(Rest)
  BY <1>1, <1>2, RestSooner, SoonerKeeps
<1>5. /\ Loaded(calendar')
      /\ \A m, k : k \in Carrying => Carried(calendar', m, k) = Carried(calendar, m, k)
  BY <1>3, <1>4 DEF Kept
<1>6. \A m \in Node : Bound(calendar', m) = Bound(calendar, m)
  BY <1>5, SameBound
<1>7. Stays
  BY <1>6 DEF Stays, Way
<1> QED
  BY <1>5, <1>7

-----------------------------------------------------------------------------
(***************************************************************************)
(* The handlers that carry packets on.                                     *)
(***************************************************************************)

\* What is on the wires of a calendar that becomes r does not take longer.
NoLonger(c, r) ==
  /\ \A m, b : b \in Nat /\ Within(c, m, b) => Within(r, m, b)
  /\ \A m : Timely(c, m) => Timely(r, m)

\* What is left when a packet's event starts.
LEMMA CarryingRuns ==
  ASSUME LinkTypes, Loaded(calendar), NEW n, NEW do \in Carrying, Runs(do, n)
  PROVE  /\ Calendar(calendar) /\ Calendar(Rest) /\ Loaded(Rest) /\ NoLonger(calendar, Rest)
         /\ Head(calendar).uid \in Uid
         /\ Carried(calendar, n, do) # <<>>
         /\ Head(Carried(calendar, n, do)) = Head(calendar).uid
         /\ Tail(Carried(calendar, n, do)) = Carried(Rest, n, do)
         /\ \A m, k : k \in Carrying /\ (m # n \/ k # do) =>
              Carried(Rest, m, k) = Carried(calendar, m, k)
<1>1. calendar # <<>> /\ Head(calendar).do = do /\ Head(calendar).dev = n
  BY DEF Runs
<1>2. Calendar(calendar) /\ Calendar(Rest)
  BY <1>1, RestCalendar DEF LinkTypes
<1>3. Sooner(Rest, calendar, Head(calendar).in)
  BY <1>1, <1>2, RestSooner
<1>4. Loaded(Rest) /\ NoLonger(calendar, Rest)
  BY <1>3, SoonerKeeps DEF NoLonger
<1>5. Head(calendar).uid \in Uid
  <2>1. Head(calendar) = calendar[1] /\ 1 \in 1 .. Len(calendar)
    BY <1>1, <1>2, RestCalendar
  <2> QED
    BY <1>1, <2>1 DEF LinkTypes, Calendar
<1>6. /\ Carried(calendar, n, do) # <<>>
      /\ Head(Carried(calendar, n, do)) = Head(calendar).uid
      /\ Tail(Carried(calendar, n, do)) = Carried(Rest, n, do)
  BY <1>1, <1>2, FirstLeaves
<1>7. ASSUME NEW m, NEW k \in Carrying, m # n \/ k # do
      PROVE  Carried(Rest, m, k) = Carried(calendar, m, k)
  <2>1. ~Runs(k, m)
    BY <1>1, <1>7 DEF Runs
  <2> QED
    BY <1>1, <1>2, <2>1, FirstLeaves
<1> QED
  BY <1>2, <1>4, <1>5, <1>6, <1>7

\* A packet whose next event, e, is the last of its kind.
LEMMA CarriedOn ==
  ASSUME NEW c, Calendar(c), Loaded(c), NEW e \in Event, e.do \in Carrying, e.uid \in Uid,
         e.handle = "none",
         \/ e.do = "Receive" /\ e.in = 0
         \/ e.do = "HandlingArrivedComplete" /\ e.in = HANDLING
  PROVE  /\ Calendar(Insert(c, e)) /\ Loaded(Insert(c, e)) /\ NoLonger(c, Insert(c, e))
         /\ Carried(Insert(c, e), e.dev, e.do) = Append(Carried(c, e.dev, e.do), e.uid)
         /\ \A m, k : k \in Carrying /\ (m # e.dev \/ k # e.do) =>
              Carried(Insert(c, e), m, k) = Carried(c, m, k)
<1>1. Calendar(Insert(c, e))
  BY InsertCalendar
<1>2. Adds(Insert(c, e), c, e)
  BY InsertAdds
<1>3. e.handle \notin Handle /\ \A m : ~OnWire(e, m)
  BY DEF Handle, OnWire
<1>4. e.in <= HANDLING
  BY Delays
<1>5. Loaded(Insert(c, e))
  BY <1>2, <1>3, <1>4, AddsKeeps
<1>6. ASSUME NEW m PROVE e.dev = m /\ e.do \in Returning => FALSE
  BY DEF Returning
<1>7. NoLonger(c, Insert(c, e))
  BY <1>2, <1>3, <1>6, AddsKeeps DEF NoLonger
<1>8. \A i \in Places(c, e.dev, e.do) : c[i].in <= e.in
  <2> SUFFICES ASSUME NEW i \in Places(c, e.dev, e.do) PROVE c[i].in <= e.in
    OBVIOUS
  <2>1. i \in 1 .. Len(c) /\ c[i].do = e.do
    BY DEF Places
  <2> QED
    BY <2>1 DEF Loaded
<1>9. Carried(Insert(c, e), e.dev, e.do) = Append(Carried(c, e.dev, e.do), e.uid)
  BY <1>1, <1>8, InsertPacket
<1>10. \A m, k : k \in Carrying /\ (m # e.dev \/ k # e.do) =>
         Carried(Insert(c, e), m, k) = Carried(c, m, k)
  BY <1>1, InsertOther
<1> QED
  BY <1>1, <1>5, <1>7, <1>9, <1>10

LEMMA NoLongerTwice ==
  ASSUME NEW a, NEW b, NEW c, NoLonger(a, b), NoLonger(b, c)
  PROVE  NoLonger(a, c)
BY DEF NoLonger

LEMMA TransmissionCarries ==
  ASSUME LinkTypes, Loaded(calendar), NEW n \in Node, TransmissionComplete(n)
  PROVE  Stays /\ Loaded(calendar') /\ NoLonger(calendar, calendar')
<1> DEFINE u == Head(calendar).uid
           f == Forget(Rest, n, "m_events", u)
           e == [do |-> "HandlingArrivedComplete", dev |-> n, uid |-> u, in |-> HANDLING,
                 handle |-> "none"]
<1>1. /\ Runs("TransmissionComplete", n) /\ calendar' = Insert(f, e) /\ m_queue' = m_queue
  BY DEF TransmissionComplete, Schedule
<1>2. {"Receive", "HandlingArrivedComplete", "TransmissionComplete"} \subseteq Carrying
  BY DEF Carrying
<1>3. /\ Calendar(calendar) /\ Calendar(Rest) /\ Loaded(Rest) /\ NoLonger(calendar, Rest)
      /\ u \in Uid
      /\ Carried(calendar, n, "TransmissionComplete") # <<>>
      /\ Head(Carried(calendar, n, "TransmissionComplete")) = u
      /\ Tail(Carried(calendar, n, "TransmissionComplete"))
           = Carried(Rest, n, "TransmissionComplete")
      /\ \A m, k : k \in Carrying /\ (m # n \/ k # "TransmissionComplete") =>
           Carried(Rest, m, k) = Carried(calendar, m, k)
  BY <1>1, <1>2, CarryingRuns
<1>4. Kept(Rest, f) /\ \A m : TimelyKept(Rest, f, m)
  BY <1>3, ForgetKept
<1> HIDE DEF f
<1>5. /\ Calendar(f) /\ Loaded(f) /\ NoLonger(Rest, f)
      /\ \A m, k : k \in Carrying => Carried(f, m, k) = Carried(Rest, m, k)
  BY <1>3, <1>4 DEF Kept, TimelyKept, NoLonger
<1>6. /\ e \in Event /\ e.do = "HandlingArrivedComplete" /\ e.dev = n /\ e.uid = u
      /\ e.in = HANDLING /\ e.handle = "none"
  <2>1. "HandlingArrivedComplete" \in Handler
    BY DEF Handler
  <2> HIDE DEF u
  <2> QED
    BY <1>3, <2>1, Delays DEF Event
<1> HIDE DEF e, u
<1>7. /\ Calendar(calendar') /\ Loaded(calendar') /\ NoLonger(f, calendar')
      /\ Carried(calendar', n, "HandlingArrivedComplete")
           = Append(Carried(f, n, "HandlingArrivedComplete"), u)
      /\ \A m, k : k \in Carrying /\ (m # n \/ k # "HandlingArrivedComplete") =>
           Carried(calendar', m, k) = Carried(f, m, k)
  <2>1. e \in Event /\ e.do \in Carrying /\ e.uid \in Uid /\ e.handle = "none"
        /\ e.do = "HandlingArrivedComplete" /\ e.in = HANDLING
    BY <1>2, <1>3, <1>6
  <2>2. /\ Calendar(Insert(f, e)) /\ Loaded(Insert(f, e)) /\ NoLonger(f, Insert(f, e))
        /\ Carried(Insert(f, e), e.dev, e.do) = Append(Carried(f, e.dev, e.do), e.uid)
        /\ \A m, k : k \in Carrying /\ (m # e.dev \/ k # e.do) =>
             Carried(Insert(f, e), m, k) = Carried(f, m, k)
    BY <1>5, <2>1, CarriedOn
  <2> QED
    BY <1>1, <1>6, <2>2
<1>8. NoLonger(calendar, calendar')
  BY <1>3, <1>5, <1>7, NoLongerTwice
<1> DEFINE R == Carried(calendar, Peer(n), "Receive")
           H == Carried(calendar, n, "HandlingArrivedComplete")
           T == Carried(calendar, n, "TransmissionComplete")
<1>9. R \in Seq(Uid) /\ H \in Seq(Uid) /\ T \in Seq(Uid) /\ R \o H \in Seq(Uid)
  BY <1>3, BoundTypes
<1>10. Peer(n) # n
  BY PeerType
<1>11. /\ Carried(calendar', Peer(n), "Receive") = R
       /\ Carried(calendar', n, "HandlingArrivedComplete") = Append(H, u)
       /\ Carried(calendar', n, "TransmissionComplete") = Tail(T)
  <2>1. /\ Carried(Rest, Peer(n), "Receive") = R
        /\ Carried(Rest, n, "HandlingArrivedComplete") = H
        /\ Carried(Rest, n, "TransmissionComplete") = Tail(T)
    BY <1>2, <1>3
  <2>2. /\ Carried(f, Peer(n), "Receive") = R
        /\ Carried(f, n, "HandlingArrivedComplete") = H
        /\ Carried(f, n, "TransmissionComplete") = Tail(T)
    BY <1>2, <1>5, <2>1
  <2> HIDE DEF R, H, T
  <2> QED
    BY <1>2, <1>7, <1>10, <2>2
<1>12. T # <<>> /\ Head(T) = u
  BY <1>3
<1>13. Bound(calendar', n) = Bound(calendar, n)
  <2>1. Bound(calendar', n) = (R \o Append(H, u)) \o Tail(T)
    BY <1>11 DEF Bound
  <2>2. Bound(calendar, n) = (R \o H) \o T
    BY DEF Bound
  <2> HIDE DEF R, H, T
  <2>3. /\ Append(H, u) \in Seq(Uid) /\ Tail(T) \in Seq(Uid)
        /\ Append(H, u) \o Tail(T) = H \o T
    BY <1>9, <1>12, MoveOn
  <2> DEFINE A == Append(H, u)
             B == Tail(T)
  <2> HIDE DEF A, B
  <2>4. A \in Seq(Uid) /\ B \in Seq(Uid) /\ A \o B = H \o T
    BY <2>3 DEF A, B
  <2>5. (R \o A) \o B = R \o (A \o B)
    BY <1>9, <2>4, Associative
  <2>6. (R \o H) \o T = R \o (H \o T)
    BY <1>9, Associative
  <2> QED
    BY <2>1, <2>2, <2>4, <2>5, <2>6 DEF A, B
<1> HIDE DEF R, H, T
<1>14. ASSUME NEW m \in Node, m # n PROVE Bound(calendar', m) = Bound(calendar, m)
  <2>1. /\ Carried(calendar', Peer(m), "Receive") = Carried(calendar, Peer(m), "Receive")
        /\ Carried(calendar', m, "HandlingArrivedComplete")
             = Carried(calendar, m, "HandlingArrivedComplete")
        /\ Carried(calendar', m, "TransmissionComplete")
             = Carried(calendar, m, "TransmissionComplete")
    BY <1>2, <1>3, <1>5, <1>7, <1>14
  <2> QED
    BY <2>1 DEF Bound
<1>15. Stays
  BY <1>1, <1>13, <1>14 DEF Stays, Way
<1> QED
  BY <1>7, <1>8, <1>15

LEMMA HandlingCarries ==
  ASSUME LinkTypes, Loaded(calendar), NEW n \in Node, HandlingArrivedComplete(n)
  PROVE  Stays /\ Loaded(calendar') /\ NoLonger(calendar, calendar')
<1> DEFINE u == Head(calendar).uid
           e == [do |-> "Receive", dev |-> Peer(n), uid |-> u, in |-> 0, handle |-> "none"]
<1>1. /\ Runs("HandlingArrivedComplete", n) /\ calendar' = Insert(Rest, e)
      /\ m_queue' = m_queue
  BY DEF HandlingArrivedComplete, Schedule
<1>2. {"Receive", "HandlingArrivedComplete", "TransmissionComplete"} \subseteq Carrying
  BY DEF Carrying
<1>3. /\ Calendar(calendar) /\ Calendar(Rest) /\ Loaded(Rest) /\ NoLonger(calendar, Rest)
      /\ u \in Uid
      /\ Carried(calendar, n, "HandlingArrivedComplete") # <<>>
      /\ Head(Carried(calendar, n, "HandlingArrivedComplete")) = u
      /\ Tail(Carried(calendar, n, "HandlingArrivedComplete"))
           = Carried(Rest, n, "HandlingArrivedComplete")
      /\ \A m, k : k \in Carrying /\ (m # n \/ k # "HandlingArrivedComplete") =>
           Carried(Rest, m, k) = Carried(calendar, m, k)
  BY <1>1, <1>2, CarryingRuns
<1>4. Peer(n) \in Node /\ Peer(n) # n
  BY PeerType
<1>5. /\ e \in Event /\ e.do = "Receive" /\ e.dev = Peer(n) /\ e.uid = u
      /\ e.in = 0 /\ e.handle = "none"
  <2>1. "Receive" \in Handler
    BY DEF Handler
  <2> HIDE DEF u
  <2> QED
    BY <1>3, <1>4, <2>1 DEF Event
<1> HIDE DEF e, u
<1>6. /\ Calendar(calendar') /\ Loaded(calendar') /\ NoLonger(Rest, calendar')
      /\ Carried(calendar', Peer(n), "Receive") = Append(Carried(Rest, Peer(n), "Receive"), u)
      /\ \A m, k : k \in Carrying /\ (m # Peer(n) \/ k # "Receive") =>
           Carried(calendar', m, k) = Carried(Rest, m, k)
  <2>1. e \in Event /\ e.do \in Carrying /\ e.uid \in Uid /\ e.handle = "none"
        /\ e.do = "Receive" /\ e.in = 0
    BY <1>2, <1>3, <1>5
  <2>2. /\ Calendar(Insert(Rest, e)) /\ Loaded(Insert(Rest, e)) /\ NoLonger(Rest, Insert(Rest, e))
        /\ Carried(Insert(Rest, e), e.dev, e.do) = Append(Carried(Rest, e.dev, e.do), e.uid)
        /\ \A m, k : k \in Carrying /\ (m # e.dev \/ k # e.do) =>
             Carried(Insert(Rest, e), m, k) = Carried(Rest, m, k)
    BY <1>3, <2>1, CarriedOn
  <2> QED
    BY <1>1, <1>5, <2>2
<1>7. NoLonger(calendar, calendar')
  BY <1>3, <1>6, NoLongerTwice
<1> DEFINE R == Carried(calendar, Peer(n), "Receive")
           H == Carried(calendar, n, "HandlingArrivedComplete")
           T == Carried(calendar, n, "TransmissionComplete")
<1>8. R \in Seq(Uid) /\ H \in Seq(Uid)
  BY <1>3, BoundTypes
<1>9. /\ Carried(calendar', Peer(n), "Receive") = Append(R, u)
      /\ Carried(calendar', n, "HandlingArrivedComplete") = Tail(H)
      /\ Carried(calendar', n, "TransmissionComplete") = T
  BY <1>2, <1>3, <1>6
<1>10. Append(R, u) \o Tail(H) = R \o H
  BY <1>3, <1>8, MoveOn
<1>11. Bound(calendar', n) = Bound(calendar, n)
  BY <1>9, <1>10 DEF Bound
<1>12. ASSUME NEW m \in Node, m # n PROVE Bound(calendar', m) = Bound(calendar, m)
  <2>1. Peer(m) = n
    BY <1>12, PeerType
  <2>2. /\ Carried(calendar', n, "Receive") = Carried(calendar, n, "Receive")
        /\ Carried(calendar', m, "HandlingArrivedComplete")
             = Carried(calendar, m, "HandlingArrivedComplete")
        /\ Carried(calendar', m, "TransmissionComplete")
             = Carried(calendar, m, "TransmissionComplete")
    BY <1>2, <1>3, <1>4, <1>6, <1>12
  <2> QED
    BY <2>1, <2>2 DEF Bound
<1>13. Stays
  BY <1>1, <1>11, <1>12 DEF Stays, Way
<1> QED
  BY <1>6, <1>7, <1>13

LEMMA ReceiveArrives ==
  ASSUME LinkTypes, Loaded(calendar), NEW n \in Node, ReceiveIntact(n)
  PROVE  Arrives(Peer(n)) /\ Loaded(calendar') /\ NoLonger(calendar, calendar')
<1> DEFINE u == Head(calendar).uid
           p == Peer(n)
           R == Carried(calendar, n, "Receive")
           H == Carried(calendar, p, "HandlingArrivedComplete")
           T == Carried(calendar, p, "TransmissionComplete")
           q == m_queue[p]
<1>1. /\ Runs("Receive", n) /\ calendar' = Rest /\ m_queue' = m_queue
      /\ received' = [received EXCEPT ![n] = Append(@, u)]
  BY DEF ReceiveIntact
<1>2. {"Receive", "HandlingArrivedComplete", "TransmissionComplete"} \subseteq Carrying
  BY DEF Carrying
<1>3. /\ Calendar(calendar) /\ Calendar(Rest) /\ Loaded(Rest) /\ NoLonger(calendar, Rest)
      /\ R # <<>> /\ Head(R) = u /\ Tail(R) = Carried(Rest, n, "Receive")
      /\ \A m, k : k \in Carrying /\ (m # n \/ k # "Receive") =>
           Carried(Rest, m, k) = Carried(calendar, m, k)
  BY <1>1, <1>2, CarryingRuns
<1>4. p \in Node /\ p # n /\ Peer(p) = n /\ \A m \in Node : m # p => m = n
  BY PeerOfPeer, PeerType
<1>5. R \in Seq(Uid) /\ H \in Seq(Uid) /\ T \in Seq(Uid) /\ R \o H \in Seq(Uid)
      /\ q \in Seq(Uid)
  BY <1>3, <1>4, BoundTypes DEF LinkTypes, DeviceInv
<1>6. /\ Carried(calendar', n, "Receive") = Tail(R)
      /\ Carried(calendar', p, "HandlingArrivedComplete") = H
      /\ Carried(calendar', p, "TransmissionComplete") = T
  BY <1>1, <1>2, <1>3
<1>7. Way(p) = ((R \o H) \o T) \o q
  BY <1>4 DEF Way, Bound
<1>8. Way(p)' = ((Tail(R) \o H) \o T) \o q
  BY <1>1, <1>4, <1>6 DEF Way, Bound
<1>9. Way(n)' = Way(n)
  <2>1. /\ Carried(calendar', p, "Receive") = Carried(calendar, p, "Receive")
        /\ Carried(calendar', n, "HandlingArrivedComplete")
             = Carried(calendar, n, "HandlingArrivedComplete")
        /\ Carried(calendar', n, "TransmissionComplete")
             = Carried(calendar, n, "TransmissionComplete")
    BY <1>1, <1>2, <1>3, <1>4
  <2> QED
    BY <1>1, <2>1 DEF Way, Bound
<1> HIDE DEF R, H, T, q
<1>10. Way(p) # <<>> /\ Head(Way(p)) = u /\ Tail(Way(p)) = Way(p)'
  <2> DEFINE a == R \o H
             b == a \o T
  <2>0. \A y, x \in Seq(Uid) : y # <<>> =>
          y \o x # <<>> /\ Head(y \o x) = Head(y) /\ Tail(y \o x) = Tail(y) \o x
    BY FirstOfAll
  <2>1. a \in Seq(Uid) /\ a # <<>> /\ Head(a) = u /\ Tail(a) = Tail(R) \o H
    BY <1>3, <1>5, <2>0
  <2>2. b \in Seq(Uid) /\ b # <<>> /\ Head(b) = u /\ Tail(b) = (Tail(R) \o H) \o T
    <3> HIDE DEF a
    <3>1. a \in Seq(Uid) /\ a # <<>> /\ T \in Seq(Uid)
      BY <1>5, <2>1
    <3>2. a \o T # <<>> /\ Head(a \o T) = Head(a) /\ Tail(a \o T) = Tail(a) \o T
      BY <2>0, <3>1
    <3>3. a \o T \in Seq(Uid)
      BY <3>1, ConcatProperties
    <3> QED
      BY <2>1, <3>2, <3>3
  <2>3. Way(p) = b \o q
    BY <1>7
  <2> HIDE DEF b
  <2>4. b \o q # <<>> /\ Head(b \o q) = u /\ Tail(b \o q) = ((Tail(R) \o H) \o T) \o q
    <3>1. q \in Seq(Uid) /\ b \in Seq(Uid) /\ b # <<>>
      BY <1>5, <2>2
    <3>2. b \o q # <<>> /\ Head(b \o q) = Head(b) /\ Tail(b \o q) = Tail(b) \o q
      BY <2>0, <3>1
    <3> QED
      BY <2>2, <3>2
  <2> QED
    BY <1>8, <2>3, <2>4
<1>11. Becomes(p, Tail(Way(p)))
  BY <1>4, <1>9, <1>10 DEF Becomes
<1>12. Arrives(p)
  BY <1>1, <1>4, <1>10, <1>11 DEF Arrives
<1> QED
  BY <1>1, <1>3, <1>12

LEMMA CorruptLoses ==
  ASSUME LinkTypes, Loaded(calendar), NEW n \in Node, ReceiveCorrupt(n)
  PROVE  Loaded(calendar') /\ \A m \in Node : Way(m)' \in Abstract!Thinned(Way(m))
<1> DEFINE a == Cancel(Rest, n, {"m_events"})
           b == Cancel(a, Peer(n), {"m_events"})
           d == Schedule(b, APPROACH_TIME, "ApproachLinkDisconnection", Peer(n), NoUid)
<1>1. /\ Runs("Receive", n) /\ m_queue' = m_queue /\ calendar' = ErrorReset(d, n)
      /\ calendar # <<>>
  BY DEF ReceiveCorrupt, NotifyError, Runs
<1>2. {"Receive", "HandlingArrivedComplete", "TransmissionComplete"} \subseteq Carrying
  BY DEF Carrying
<1>3. Calendar(calendar) /\ Calendar(Rest) /\ Loaded(Rest)
  BY <1>1, <1>2, CarryingRuns
<1>4. \E f : Embeds(Rest, calendar, f)
  BY <1>1, <1>3, RestEmbeds
<1>5. Calendar(a) /\ From(a, Rest) /\ \E f : Embeds(a, Rest, f)
  BY <1>3, CancelCalendar, CancelFrom
<1> HIDE DEF a
<1>6. Calendar(b) /\ From(b, a) /\ \E f : Embeds(b, a, f)
  BY <1>5, CancelCalendar, CancelFrom
<1> HIDE DEF b
<1>7. Loaded(b)
  BY <1>3, <1>5, <1>6, FromKeeps
<1>8. PICK f : Embeds(b, calendar, f)
  BY <1>4, <1>5, <1>6, EmbedsTwice
<1>9. \A m, k : k \in Carrying => Carried(b, m, k) \in Abstract!Thinned(Carried(calendar, m, k))
  BY <1>3, <1>6, <1>8, ThinnedCarried
<1>10. Kept(b, d)
  <2>1. "ApproachLinkDisconnection" \in Handler \ Carrying /\ NoUid \in Uid \cup {NoUid}
        /\ Peer(n) \in Node
    BY PeerType DEF Handler, Carrying
  <2> QED
    BY <1>6, <2>1, Delays, ScheduleKept
<1> HIDE DEF d
<1>11. Calendar(d)
  BY <1>10 DEF Kept
<1>12. Kept(d, calendar')
  BY <1>1, <1>11, HandlersKeep
<1>13. Kept(b, calendar')
  BY <1>10, <1>12, KeptTwice
<1>14. /\ Loaded(calendar')
       /\ \A m, k : k \in Carrying => Carried(calendar', m, k) = Carried(b, m, k)
  BY <1>7, <1>13 DEF Kept
<1>15. ASSUME NEW m \in Node PROVE Way(m)' \in Abstract!Thinned(Way(m))
  <2> DEFINE R == Carried(calendar, Peer(m), "Receive")
             H == Carried(calendar, m, "HandlingArrivedComplete")
             T == Carried(calendar, m, "TransmissionComplete")
             q == m_queue[m]
             r == Carried(b, Peer(m), "Receive")
             h == Carried(b, m, "HandlingArrivedComplete")
             t == Carried(b, m, "TransmissionComplete")
  <2>1. R \in Seq(Uid) /\ H \in Seq(Uid) /\ T \in Seq(Uid) /\ R \o H \in Seq(Uid)
        /\ (R \o H) \o T \in Seq(Uid) /\ q \in Seq(Uid)
    BY <1>3, BoundTypes DEF LinkTypes, DeviceInv, Bound
  <2>2. r \in Abstract!Thinned(R) /\ h \in Abstract!Thinned(H) /\ t \in Abstract!Thinned(T)
    BY <1>2, <1>9
  <2>3. Way(m) = ((R \o H) \o T) \o q
    BY DEF Way, Bound
  <2>4. Way(m)' = ((r \o h) \o t) \o q
    BY <1>1, <1>2, <1>14 DEF Way, Bound
  <2> HIDE DEF R, H, T, q, r, h, t
  <2>5. r \o h \in Abstract!Thinned(R \o H)
    BY <2>1, <2>2, ThinnedConcat
  <2>6. (r \o h) \o t \in Abstract!Thinned((R \o H) \o T)
    BY <2>1, <2>2, <2>5, ThinnedConcat
  <2>7. ((r \o h) \o t) \o q \in Abstract!Thinned(((R \o H) \o T) \o q)
    BY <2>1, <2>6, ThinnedConcat, ThinnedWhole
  <2> QED
    BY <2>3, <2>4, <2>7
<1> QED
  BY <1>14, <1>15

\* In these states what is left on the wire of n arrives before anything n transmits.
Calm == {"DOWN", "STARTED", "CONNECTING", "RUN"}
Longest == SPW_HALF_DELAY + SPW_DELAY + DELAY

Pace ==
  \A n \in Node :
    /\ Within(calendar, n, Longest) /\ Timely(calendar, n)
    /\ machineState[n] \in Calm => Within(calendar, n, DELAY)

\* Device n transmits from the queue q, or has nothing to transmit.
LEMMA TransmitMoves ==
  ASSUME NEW c, Calendar(c), Loaded(c), NEW n \in Node, NEW q \in Seq(Uid), txTime \in Traffic,
         m_queue \in [Node -> Seq(Uid)], Transmit(n, q, c),
         NEW ord, ord => Within(c, n, DELAY)
  PROVE  /\ Loaded(calendar')
         /\ \A m \in Node : m # n => Way(m)' = Bound(c, m) \o m_queue[m]
         /\ \/ Way(n)' = Bound(c, n) \o q
            \/ ~ord /\ Way(n)' \in Abstract!Overtakings(Bound(c, n) \o q)
<1> DEFINE R == Carried(c, Peer(n), "Receive")
           H == Carried(c, n, "HandlingArrivedComplete")
           T == Carried(c, n, "TransmissionComplete")
           B == R \o H
<1>1. T \in Seq(Uid) /\ B \in Seq(Uid) /\ Bound(c, n) = B \o T /\ Bound(c, n) \in Seq(Uid)
  BY BoundTypes DEF Bound
<1>2. Peer(n) # n
  BY PeerType
<1>3. {"Receive", "HandlingArrivedComplete", "TransmissionComplete"} \subseteq Carrying
  BY DEF Carrying
<1>4. CASE q = <<>>
  <2>1. calendar' = c /\ m_queue' = [m_queue EXCEPT ![n] = <<>>]
    BY <1>4 DEF Transmit
  <2>2. \A m \in Node : m # n => m_queue'[m] = m_queue[m]
    BY <2>1
  <2>3. m_queue'[n] = q
    BY <1>4, <2>1
  <2> QED
    BY <2>1, <2>2, <2>3 DEF Way
<1>5. CASE q # <<>>
  <2> DEFINE u == Head(q)
             Q == Tail(q)
             z == <<u>>
             t == Carried(calendar', n, "TransmissionComplete")
  <2>1. u \in Uid /\ Q \in Seq(Uid) /\ z \in Seq(Uid) /\ q = z \o Q
    BY <1>5, HeadFirst
  <2>2. calendar' = TransmitStart(c, n, u) /\ m_queue' = [m_queue EXCEPT ![n] = Q]
    BY <1>5 DEF Transmit
  <2>3. Sent(c, calendar', n, u)
    BY <2>1, <2>2, TransmitStartSends
  <2>4. /\ Loaded(calendar')
        /\ \A m, do : do \in Carrying /\ (m # n \/ do # "TransmissionComplete") =>
             Carried(calendar', m, do) = Carried(c, m, do)
        /\ \E k \in 1 .. Len(T) + 1 : t = InsertAt(T, k, u)
        /\ ord => t = Append(T, u)
    BY <2>3 DEF Sent
  <2>5. ASSUME NEW m \in Node, m # n PROVE Way(m)' = Bound(c, m) \o m_queue[m]
    <3>1. m_queue'[m] = m_queue[m]
      BY <2>2, <2>5
    <3>2. Bound(calendar', m) = Bound(c, m)
      BY <1>3, <2>4, <2>5 DEF Bound
    <3> QED
      BY <3>1, <3>2 DEF Way
  <2>6. Way(n)' = (B \o t) \o Q
    <3>1. m_queue'[n] = Q
      BY <2>2
    <3>2. Bound(calendar', n) = B \o t
      BY <1>2, <1>3, <2>4 DEF Bound
    <3> QED
      BY <3>1, <3>2 DEF Way
  <2> HIDE DEF B, T, R, H
  <2>7. CASE t = Append(T, u)
    <3> DEFINE A == Append(T, u)
    <3>1. A \in Seq(Uid) /\ A \o Q = T \o q
      BY <1>1, <1>5, MoveOn
    <3> HIDE DEF A, Q
    <3>2. (B \o A) \o Q = B \o (A \o Q)
      BY <1>1, <2>1, <3>1, Associative
    <3>3. (B \o T) \o q = B \o (T \o q)
      BY <1>1, Associative
    <3>4. Way(n)' = Bound(c, n) \o q
      BY <1>1, <2>6, <2>7, <3>1, <3>2, <3>3 DEF A
    <3> QED
      BY <2>4, <2>5, <3>4
  <2>8. CASE t # Append(T, u)
    <3>1. PICK k \in 1 .. Len(T) + 1 : t = InsertAt(T, k, u)
      BY <2>4
    <3>2. Len(T) \in Nat
      BY <1>1, LenProperties
    <3>3. k # Len(T) + 1
      BY <1>1, <2>1, <2>8, <3>1, InsertAtEnd
    <3>4. k \in 1 .. Len(T)
      BY <3>2, <3>3
    <3> HIDE DEF u, Q, t
    <3>5. B \o InsertAt(T, k, u) \o Q \in Abstract!Overtakings(B \o T \o <<u>> \o Q)
      BY <1>1, <2>1, <3>4, Overtakes
    <3>6. ((B \o T) \o z) \o Q = (B \o T) \o q
      <4> DEFINE x == B \o T
      <4>1. x \in Seq(Uid)
        BY <1>1
      <4> HIDE DEF x, z
      <4>2. (x \o z) \o Q = x \o (z \o Q)
        BY <2>1, <4>1, Associative
      <4> QED
        BY <2>1, <4>2 DEF x
    <3>7. Way(n)' \in Abstract!Overtakings(Bound(c, n) \o q)
      BY <1>1, <2>6, <3>1, <3>5, <3>6
    <3> QED
      BY <2>4, <2>5, <2>8, <3>7
  <2> QED
    BY <2>7, <2>8
<1> QED
  BY <1>4, <1>5

LEMMA AppendLast ==
  ASSUME NEW x \in Seq(Uid), NEW y \in Seq(Uid), NEW u \in Uid
  PROVE  x \o Append(y, u) = Append(x \o y, u)
<1> DEFINE z == <<u>>
           v == x \o y
<1>1. v \in Seq(Uid) /\ z \in Seq(Uid)
  BY ConcatProperties
<1>2. Append(y, u) = y \o z /\ Append(v, u) = v \o z
  BY <1>1, AppendIsConcat
<1> HIDE DEF z
<1>3. (x \o y) \o z = x \o (y \o z)
  BY <1>1, Associative
<1> QED
  BY <1>2, <1>3

\* Device n transmits from its queue q, which ends with the packet it is just
\* given if it is given one.
LEMMA TransmitStep ==
  ASSUME LinkTypes, NEW n \in Node, NEW c, Calendar(c), Loaded(c),
         \A m \in Node : Bound(c, m) = Bound(calendar, m),
         NEW q \in Seq(Uid), Transmit(n, q, c),
         NEW ord, ord => Within(c, n, DELAY)
  PROVE  Loaded(calendar') /\ Settles(n, Bound(calendar, n) \o q, ord)
<1>1. txTime \in Traffic /\ m_queue \in [Node -> Seq(Uid)]
  BY DEF LinkTypes, DeviceInv
<1> DEFINE w == Way(n)'
           s == Bound(calendar, n) \o q
<1>2. Bound(c, n) = Bound(calendar, n)
  OBVIOUS
<1>3. /\ Loaded(calendar')
      /\ \A m \in Node : m # n => Way(m)' = Way(m)
      /\ w = s \/ (~ord /\ w \in Abstract!Overtakings(s))
  <2>1. /\ Loaded(calendar')
        /\ \A m \in Node : m # n => Way(m)' = Bound(c, m) \o m_queue[m]
        /\ \/ Way(n)' = Bound(c, n) \o q
           \/ ~ord /\ Way(n)' \in Abstract!Overtakings(Bound(c, n) \o q)
    BY <1>1, TransmitMoves
  <2>2. \A m \in Node : Bound(c, m) \o m_queue[m] = Way(m)
    BY DEF Way
  <2> QED
    BY <1>2, <2>1, <2>2
<1>4. Becomes(n, w)
  BY <1>3 DEF Becomes
<1> HIDE DEF w, s
<1>5. Settles(n, s, ord)
  BY <1>3, <1>4 DEF Settles, Passes
<1> QED
  BY <1>3, <1>5 DEF s

\* Device n transmits from the queue it has.
LEMMA SettlesItself ==
  ASSUME NEW n \in Node, NEW ord, Settles(n, Bound(calendar, n) \o m_queue[n], ord),
         sent' = sent, received' = received
  PROVE  LinkMove(ord)
<1>1. Settles(n, Way(n), ord)
  BY DEF Way
<1>2. CASE Becomes(n, Way(n))
  BY <1>2 DEF Becomes, Stays, LinkMove
<1>3. CASE ~ord /\ Passes(n, Way(n))
  BY <1>3 DEF LinkMove
<1> QED
  BY <1>1, <1>2, <1>3 DEF Settles

-----------------------------------------------------------------------------
(***************************************************************************)
(* Every step, in any state the devices get into.                          *)
(***************************************************************************)

\* What is left when an event that carries nothing starts.
LEMMA OtherRuns ==
  ASSUME LinkTypes, Loaded(calendar), NEW n, NEW do \in Handler \ Carrying, Runs(do, n)
  PROVE  /\ Calendar(Rest) /\ Loaded(Rest) /\ NoLonger(calendar, Rest)
         /\ \A m, k : k \in Carrying => Carried(Rest, m, k) = Carried(calendar, m, k)
<1>1. calendar # <<>> /\ Head(calendar).do \notin Carrying
  BY DEF Runs
<1>2. Calendar(calendar) /\ Calendar(Rest)
  BY <1>1, RestCalendar DEF LinkTypes
<1>3. Sooner(Rest, calendar, Head(calendar).in)
  BY <1>1, <1>2, RestSooner
<1>4. Loaded(Rest) /\ NoLonger(calendar, Rest)
  BY <1>3, SoonerKeeps DEF NoLonger
<1>5. ASSUME NEW m, NEW k \in Carrying PROVE Carried(Rest, m, k) = Carried(calendar, m, k)
  <2>1. ~Runs(k, m)
    BY <1>1 DEF Runs
  <2> QED
    BY <1>1, <1>2, <2>1, FirstLeaves
<1> QED
  BY <1>2, <1>4, <1>5

\* What the device transmits with in ReceiveFCT and TransmitComplete.
LEMMA BeforeTransmit ==
  ASSUME LinkTypes, Loaded(calendar), NEW n \in Node, NEW do \in {"ReceiveFCT", "TransmitComplete"},
         Runs(do, n), NEW c,
         \/ \E H \in SUBSET Handle : c = Cancel(Rest, n, H)
         \/ \E h, u : c = Forget(Rest, n, h, u)
  PROVE  /\ Calendar(c) /\ Loaded(c) /\ NoLonger(calendar, c)
         /\ \A m \in Node : Bound(c, m) = Bound(calendar, m)
         /\ \A b : Within(Rest, n, b) => Within(c, n, b)
<1>1. do \in Handler \ Carrying
  BY DEF Handler, Carrying
<1>2. /\ Calendar(Rest) /\ Loaded(Rest) /\ NoLonger(calendar, Rest)
      /\ \A m, k : k \in Carrying => Carried(Rest, m, k) = Carried(calendar, m, k)
  BY <1>1, OtherRuns
<1>3. Kept(Rest, c) /\ \A m : TimelyKept(Rest, c, m)
  BY <1>2, CancelKept, ForgetKept
<1>4. /\ Calendar(c) /\ Loaded(c) /\ NoLonger(Rest, c)
      /\ \A m, k : k \in Carrying => Carried(c, m, k) = Carried(calendar, m, k)
      /\ \A b : Within(Rest, n, b) => Within(c, n, b)
  BY <1>2, <1>3 DEF Kept, TimelyKept, NoLonger
<1>5. \A m \in Node : Bound(c, m) = Bound(calendar, m)
  BY <1>4, SameBound
<1> QED
  BY <1>2, <1>4, <1>5, NoLongerTwice

LEMMA SendMoves ==
  ASSUME LinkTypes, Loaded(calendar), NEW n \in Node, Send(n),
         NEW ord, ord => (machineState[n] \in Calm => Within(calendar, n, DELAY))
  PROVE  Loaded(calendar') /\ LinkMove(ord)
<1>1. PICK u \in {given'} \cup Range(sent[n]), d \in Gap :
        /\ CallAt(d) /\ Given(n, u)
        /\ LET q == Enqueue(m_queue[n], u)
               cal == Later(calendar, d)
           IN  IF machineState[n] = "RUN" THEN Transmit(n, q, cal)
               ELSE m_queue' = [m_queue EXCEPT ![n] = q] /\ calendar' = cal
  BY DEF Send, Given
<1>2. received' = received /\ u \in Uid
  BY <1>1, GivenPacket DEF Send
<1>3. /\ Calendar(calendar) /\ m_queue \in [Node -> Seq(Uid)] /\ NothingWaits
      /\ m_queue[n] \in Seq(Uid)
  BY DEF LinkTypes, DeviceInv
<1> DEFINE q == Enqueue(m_queue[n], u)
           c == Later(calendar, d)
<1>4. q = m_queue[n] \/ q = Append(m_queue[n], u)
  BY DEF Enqueue
<1>5. machineState[n] = "RUN" => q = Append(m_queue[n], u)
  BY <1>3, Delays, EmptySeq DEF Enqueue, NothingWaits
<1>6. q \in Seq(Uid)
  BY <1>2, <1>3, <1>4, AppendProperties
<1>7. /\ Calendar(c)
      /\ \A m, do : do \in Carrying => Carried(c, m, do) = Carried(calendar, m, do)
  BY <1>1, <1>3, CallKept
<1>8. PICK x : Sooner(c, calendar, x)
  BY <1>1, <1>3, CallKept
<1>9. Loaded(c) /\ (Within(calendar, n, DELAY) => Within(c, n, DELAY))
  BY <1>8, SoonerKeeps, Delays
<1>10. IF machineState[n] = "RUN" THEN Transmit(n, q, c)
       ELSE m_queue' = [m_queue EXCEPT ![n] = q] /\ calendar' = c
  BY <1>1
<1> HIDE DEF q, c
<1>11. \A m \in Node : Bound(c, m) = Bound(calendar, m)
  BY <1>7, SameBound
<1>12. q = Append(m_queue[n], u) => Bound(calendar, n) \o q = Append(Way(n), u)
  <2>1. Bound(calendar, n) \in Seq(Uid)
    BY <1>3, BoundTypes
  <2>2. Bound(calendar, n) \o Append(m_queue[n], u) = Append(Bound(calendar, n) \o m_queue[n], u)
    BY <1>2, <1>3, <2>1, AppendLast
  <2> QED
    BY <2>2 DEF Way
<1>13. CASE machineState[n] = "RUN"
  <2>1. ord => Within(c, n, DELAY)
    BY <1>9, <1>13 DEF Calm
  <2>2. Transmit(n, q, c)
    BY <1>10, <1>13
  <2>3. Loaded(calendar') /\ Settles(n, Bound(calendar, n) \o q, ord)
    BY <1>6, <1>7, <1>9, <1>11, <2>1, <2>2, TransmitStep
  <2>4. Settles(n, Append(Way(n), u), ord)
    BY <1>5, <1>12, <1>13, <2>3
  <2> QED
    BY <1>1, <1>2, <2>3, <2>4 DEF LinkMove
<1>14. CASE machineState[n] # "RUN"
  <2>1. m_queue' = [m_queue EXCEPT ![n] = q] /\ calendar' = c
    BY <1>10, <1>14
  <2>2. \A m \in Node : m # n => Way(m)' = Way(m)
    BY <1>11, <2>1 DEF Way
  <2>3. Way(n)' = Bound(calendar, n) \o q
    BY <1>3, <1>11, <2>1 DEF Way
  <2>4. CASE q = m_queue[n]
    <3>1. Stays
      BY <2>2, <2>3, <2>4 DEF Stays, Way
    <3> QED
      BY <1>1, <1>2, <1>9, <2>1, <3>1 DEF LinkMove
  <2>5. CASE q = Append(m_queue[n], u)
    <3>1. Becomes(n, Append(Way(n), u))
      BY <1>12, <2>2, <2>3, <2>5 DEF Becomes
    <3>2. Settles(n, Append(Way(n), u), ord)
      BY <3>1 DEF Settles
    <3> QED
      BY <1>1, <1>2, <1>9, <2>1, <3>2 DEF LinkMove
  <2> QED
    BY <1>4, <2>4, <2>5
<1> QED
  BY <1>13, <1>14

\* A step moves packets along, accepts, delivers or loses some; only if the pace of
\* the link is not kept does one overtake another.
LEMMA StepMoves ==
  ASSUME LinkTypes, Loaded(calendar), NEW n \in Node, Step(n) \/ Send(n) \/ Shutdown(n),
         NEW ord, ord => Pace
  PROVE  Loaded(calendar') /\ LinkMove(ord)
<1>1. Calendar(calendar) /\ m_queue \in [Node -> Seq(Uid)]
  BY DEF LinkTypes, DeviceInv
<1>2. /\ {"ErrorReset", "ErrorWait", "Ready", "SendNull", "ReceiveNull", "SendFCT", "ReceiveFCT",
          "TransmitComplete", "ApproachLinkDisconnection"} \subseteq Handler \ Carrying
  BY DEF Handler, Carrying
<1>3. ASSUME NEW do \in Handler \ Carrying, Runs(do, n), Kept(Rest, calendar'),
             m_queue' = m_queue, sent' = sent, received' = received
      PROVE  Loaded(calendar') /\ LinkMove(ord)
  BY <1>3, PlainStays DEF LinkMove
<1>4. ASSUME Kept(Rest, calendar'),
             \/ ErrorResetSpWState(n) \/ ErrorWaitSpWState(n) \/ ReadySpWState(n)
             \/ SendNull(n) \/ ReceiveNull(n) \/ SendFCT(n) \/ ApproachLinkDisconnection(n)
      PROVE  Loaded(calendar') /\ LinkMove(ord)
  <2>1. /\ m_queue' = m_queue /\ sent' = sent /\ received' = received
        /\ \E do \in {"ErrorReset", "ErrorWait", "Ready", "SendNull", "ReceiveNull", "SendFCT",
                      "ApproachLinkDisconnection"} : Runs(do, n)
    BY <1>4 DEF ErrorResetSpWState, ErrorWaitSpWState, ReadySpWState, SendNull, ReceiveNull,
                SendFCT, ApproachLinkDisconnection, calls
  <2> QED
    BY <1>2, <1>3, <1>4, <2>1
<1>5. ASSUME ErrorResetSpWState(n) \/ ErrorWaitSpWState(n) \/ ReadySpWState(n)
             \/ ApproachLinkDisconnection(n)
      PROVE  Loaded(calendar') /\ LinkMove(ord)
  <2>1. Kept(Rest, calendar')
    BY <1>1, <1>5, ResetsPlain DEF Plain
  <2> QED
    BY <1>4, <1>5, <2>1
<1>6. ASSUME SendNull(n) \/ ReceiveNull(n) \/ SendFCT(n)
      PROVE  Loaded(calendar') /\ LinkMove(ord)
  <2>1. Kept(Rest, calendar')
    BY <1>1, <1>6, NullsPlain DEF Plain
  <2> QED
    BY <1>4, <1>6, <2>1
<1>7. ASSUME ReceiveFCT(n) PROVE Loaded(calendar') /\ LinkMove(ord)
  <2>1. /\ Runs("ReceiveFCT", n) /\ calendar # <<>>
        /\ sent' = sent /\ received' = received
    BY <1>7 DEF ReceiveFCT, Runs, calls
  <2>2. CASE machineState[n] # "CONNECTING"
    <3>1. calendar' = Rest /\ m_queue' = m_queue
      BY <1>7, <2>2 DEF ReceiveFCT
    <3>2. Kept(Rest, calendar')
      BY <1>1, <2>1, <3>1, RestCalendar, KeptItself
    <3> QED
      BY <1>2, <1>3, <2>1, <3>1, <3>2
  <2>3. CASE machineState[n] = "CONNECTING"
    <3> DEFINE H == {"stateChangeToErrorReset", "sendNull", "sendFCT"}
               c == Cancel(Rest, n, H)
    <3>1. Transmit(n, m_queue[n], c)
      BY <1>7, <2>3 DEF ReceiveFCT, RunSpWState
    <3>2. H \in SUBSET Handle
      BY DEF Handle
    <3>3. \E G \in SUBSET Handle : c = Cancel(Rest, n, G)
      BY <3>2
    <3> HIDE DEF c, H
    <3>4. /\ Calendar(c) /\ Loaded(c)
          /\ \A m \in Node : Bound(c, m) = Bound(calendar, m)
          /\ \A b : Within(Rest, n, b) => Within(c, n, b)
      BY <2>1, <3>3, BeforeTransmit
    <3>5. ord => Within(c, n, DELAY)
      <4>1. NoLonger(calendar, Rest)
        BY <1>2, <2>1, OtherRuns
      <4>2. ord => Within(calendar, n, DELAY)
        BY <2>3 DEF Pace, Calm
      <4> QED
        BY <3>4, <4>1, <4>2, Delays DEF NoLonger
    <3>6. m_queue[n] \in Seq(Uid)
      BY <1>1
    <3> QED
      BY <2>1, <3>1, <3>4, <3>5, <3>6, TransmitStep, SettlesItself
  <2> QED
    BY <2>2, <2>3
<1>8. ASSUME TransmitComplete(n) PROVE Loaded(calendar') /\ LinkMove(ord)
  <2> DEFINE c == Forget(Rest, n, "transmit_complete_events", Head(calendar).uid)
  <2>1. /\ Runs("TransmitComplete", n) /\ Transmit(n, m_queue[n], c)
        /\ sent' = sent /\ received' = received
    BY <1>8 DEF TransmitComplete, calls
  <2>2. \E h, u : c = Forget(Rest, n, h, u)
    OBVIOUS
  <2> HIDE DEF c
  <2>3. /\ Calendar(c) /\ Loaded(c)
        /\ \A m \in Node : Bound(c, m) = Bound(calendar, m)
        /\ \A b : Within(Rest, n, b) => Within(c, n, b)
    BY <2>1, <2>2, BeforeTransmit
  <2>4. ord => Within(c, n, DELAY)
    <3>1. "TransmitComplete" \in Returning
      BY DEF Returning
    <3>2. ord => Timely(calendar, n)
      BY DEF Pace
    <3>3. ord => Within(Rest, n, Slack("TransmitComplete"))
      BY <1>1, <2>1, <3>1, <3>2, RestReturns
    <3> QED
      BY <2>3, <3>3, Slacks
  <2>5. m_queue[n] \in Seq(Uid)
    BY <1>1
  <2> QED
    BY <2>1, <2>3, <2>4, <2>5, TransmitStep, SettlesItself
<1>9. ASSUME TransmissionComplete(n) \/ HandlingArrivedComplete(n)
      PROVE  Loaded(calendar') /\ LinkMove(ord)
  <2>1. Stays /\ Loaded(calendar')
    BY <1>9, TransmissionCarries, HandlingCarries
  <2>2. sent' = sent /\ received' = received
    BY <1>9 DEF TransmissionComplete, HandlingArrivedComplete, calls
  <2> QED
    BY <2>1, <2>2 DEF LinkMove
<1>10. ASSUME ReceiveIntact(n) PROVE Loaded(calendar') /\ LinkMove(ord)
  <2>1. Arrives(Peer(n)) /\ Loaded(calendar') /\ Peer(n) \in Node
    BY <1>10, ReceiveArrives, PeerType
  <2>2. sent' = sent
    BY <1>10 DEF ReceiveIntact, calls
  <2> QED
    BY <2>1, <2>2 DEF LinkMove
<1>11. ASSUME ReceiveCorrupt(n) PROVE Loaded(calendar') /\ LinkMove(ord)
  <2>1. Loaded(calendar') /\ \A m \in Node : Way(m)' \in Abstract!Thinned(Way(m))
    BY <1>11, CorruptLoses
  <2>2. sent' = sent /\ received' = received
    BY <1>11 DEF ReceiveCorrupt
  <2> QED
    BY <2>1, <2>2 DEF LinkMove
<1>12. ASSUME Send(n) PROVE Loaded(calendar') /\ LinkMove(ord)
  BY <1>12, SendMoves DEF Pace
<1>13. ASSUME Shutdown(n) PROVE Loaded(calendar') /\ LinkMove(ord)
  <2>1. /\ calendar' = calendar /\ m_queue' = m_queue
        /\ sent' = sent /\ received' = received
    BY <1>13 DEF Shutdown, calls
  <2>2. Stays
    BY <2>1 DEF Stays, Way
  <2> QED
    BY <2>1, <2>2 DEF LinkMove
<1> QED
  BY <1>5, <1>6, <1>7, <1>8, <1>9, <1>10, <1>11, <1>12, <1>13 DEF Step

-----------------------------------------------------------------------------
(***************************************************************************)
(* The devices and their channel are a link that loses packets.            *)
(***************************************************************************)

LEMMA NothingCarried ==
  ASSUME NEW n, NEW do \in Carrying
  PROVE  Calendar(<<>>) /\ Carried(<<>>, n, do) = <<>>
<1>1. Calendar(<<>>) /\ Len(<<>>) = 0
  BY EmptySeq DEF Calendar, InRunOrder
<1> DEFINE s == Carried(<<>>, n, do)
<1>2. PICK g : Lists(s, <<>>, n, do, g)
  BY <1>1, CarriedLists
<1> HIDE DEF s
<1>3. s \in Seq(Uid) /\ \A k \in 1 .. Len(s) : g[k] \in Places(<<>>, n, do)
  BY <1>2 DEF Lists, Enumerates
<1>4. Places(<<>>, n, do) = {}
  BY <1>1 DEF Places
<1>5. Len(s) \in Nat /\ ~(1 \in 1 .. Len(s))
  BY <1>3, <1>4, LenProperties
<1>6. Len(s) = 0
  BY <1>5
<1>7. s = <<>>
  BY <1>3, <1>6, EmptySeq
<1> QED
  BY <1>1, <1>7 DEF s

LEMMA InitMoves ==
  ASSUME Init
  PROVE  Loaded(calendar) /\ Pace /\ \A n \in Node : InTransit(n) = <<>>
<1>1. PICK n \in Node : calendar = Schedule(Schedule(<<>>, 0, "ErrorReset", n, NoUid),
                                            offset, "ErrorReset", Peer(n), NoUid)
  BY DEF Init
<1>2. offset \in Nat /\ Peer(n) \in Node /\ 0 \in Nat
  BY LinkAssumption, PeerType DEF Init
<1>3. "ErrorReset" \in Handler \ Carrying /\ NoUid \in Uid \cup {NoUid}
  BY DEF Handler, Carrying
<1> DEFINE a == Schedule(<<>>, 0, "ErrorReset", n, NoUid)
<1>4. Calendar(<<>>) /\ \A m, do : do \in Carrying => Carried(<<>>, m, do) = <<>>
  <2>1. "Receive" \in Carrying
    BY DEF Carrying
  <2> QED
    BY <2>1, NothingCarried
<1>5. /\ Loaded(<<>>) /\ \A m, b : Within(<<>>, m, b)
      /\ \A m : Timely(<<>>, m)
  <2>1. Len(<<>>) = 0
    BY EmptySeq
  <2> QED
    BY <2>1 DEF Loaded, Within, Timely
<1>6. Kept(<<>>, a) /\ \A m : TimelyKept(<<>>, a, m)
  BY <1>2, <1>3, <1>4, <1>5, ScheduleKept
<1> HIDE DEF a
<1>7. Calendar(a) /\ \A m, b : Within(a, m, b)
  BY <1>5, <1>6 DEF Kept
<1>8. Kept(a, calendar) /\ \A m : TimelyKept(a, calendar, m)
  BY <1>1, <1>2, <1>3, <1>7, ScheduleKept DEF a
<1>9. Kept(<<>>, calendar) /\ \A m : TimelyKept(<<>>, calendar, m)
  BY <1>6, <1>8, KeptTwice
<1>10. /\ Loaded(calendar) /\ \A m, b : Within(calendar, m, b)
       /\ \A m : Timely(calendar, m)
       /\ \A m, do : do \in Carrying => Carried(calendar, m, do) = <<>>
  BY <1>4, <1>5, <1>9 DEF Kept, TimelyKept
<1>11. ASSUME NEW m \in Node PROVE InTransit(m) = <<>>
  <2>1. {"Receive", "HandlingArrivedComplete", "TransmissionComplete"} \subseteq Carrying
    BY DEF Carrying
  <2>2. InTransit(m) = <<>> \o <<>> \o <<>>
    BY <1>10, <2>1 DEF InTransit
  <2>3. <<>> \in Seq(Uid) /\ <<>> \o <<>> = <<>>
    BY EmptySeq, ConcatEmptySeq
  <2> QED
    BY <2>2, <2>3
<1> QED
  BY <1>10, <1>11 DEF Pace

\* The way from each device is what the abstract link calls its wire.
LEMMA WayIsWire ==
  LET W == [n \in Node |-> InTransit(n) \o m_queue[n]]
  IN  /\ W = [n \in Node |-> Way(n)]
      /\ W' = [n \in Node |-> Way(n)']
<1>1. \A n \in Node : InTransit(n) \o m_queue[n] = Way(n)
  BY DEF InTransit, Way, Bound
<1>2. \A n \in Node : (InTransit(n) \o m_queue[n])' = Way(n)'
  BY DEF InTransit, Way, Bound
<1> QED
  BY <1>1, <1>2

LEMMA MoveMaps ==
  ASSUME LinkMove(Short), txTime' = txTime
  PROVE  [Abstract!Next /\ UNCHANGED Short]_Abstract!vars
<1> DEFINE W == [n \in Node |-> InTransit(n) \o m_queue[n]]
<1>1. /\ W = [n \in Node |-> Way(n)]
      /\ W' = [n \in Node |-> Way(n)']
  BY WayIsWire
<1>2. Short' = Short
  BY DEF Short
<1>3. ASSUME NEW n \in Node, NEW w, Becomes(n, w) PROVE W' = [W EXCEPT ![n] = w]
  BY <1>1, <1>3 DEF Becomes
<1>4. \A n \in Node : W[n] = Way(n)
  BY <1>1
<1>5. CASE sent' = sent /\ received' = received /\ Stays
  <2>1. W' = W
    BY <1>1, <1>5 DEF Stays
  <2>2. UNCHANGED Abstract!vars
    BY <1>2, <1>5, <2>1 DEF Abstract!vars
  <2> QED
    BY <2>2
<1>7. CASE /\ sent' = sent /\ received' = received
          /\ \A m \in Node : Way(m)' \in Abstract!Thinned(Way(m))
  <2>1. DOMAIN W' = Node /\ \A n \in Node : W'[n] \in Abstract!Thinned(W[n])
    BY <1>1, <1>7
  <2>2. Abstract!Lose
    BY <1>7, <2>1 DEF Abstract!Lose
  <2> QED
    BY <1>2, <2>2 DEF Abstract!Next
<1>8. CASE sent' = sent /\ received' = received /\ ~Short /\ \E n \in Node : Passes(n, Way(n))
  <2>1. PICK n \in Node : Passes(n, Way(n))
    BY <1>8
  <2>2. PICK w \in Abstract!Overtakings(Way(n)) : Becomes(n, w)
    BY <2>1 DEF Passes
  <2>3. w \in Abstract!Overtakings(W[n]) /\ W' = [W EXCEPT ![n] = w]
    BY <1>3, <1>4, <2>2
  <2>4. Abstract!Overtake(n)
    BY <1>8, <2>3 DEF Abstract!Overtake, Abstract!Moved
  <2> QED
    BY <1>2, <2>4 DEF Abstract!Next
<1>12. CASE /\ received' = received
           /\ \E n \in Node, u \in Uid : Given(n, u) /\ (Stays \/ Settles(n, Append(Way(n), u), Short))
  <2>1. PICK n \in Node, u \in Uid : Given(n, u) /\ (Stays \/ Settles(n, Append(Way(n), u), Short))
    BY <1>12
  <2>2. Abstract!Called(n, u)
    BY <2>1 DEF Given, Abstract!Called
  <2>3. CASE Stays
    <3>1. W' = W
      BY <1>1, <2>3 DEF Stays
    <3>2. Abstract!Refuse(n, u)
      BY <1>12, <2>2, <3>1 DEF Abstract!Refuse
    <3> QED
      BY <1>2, <3>2 DEF Abstract!Next
  <2>4. CASE Becomes(n, Append(Way(n), u))
    <3>1. W' = [W EXCEPT ![n] = Append(W[n], u)]
      BY <1>3, <1>4, <2>4
    <3>2. Abstract!Accept(n, u)
      BY <1>12, <2>2, <3>1 DEF Abstract!Accept
    <3> QED
      BY <1>2, <3>2 DEF Abstract!Next
  <2>5. CASE ~Short /\ Passes(n, Append(Way(n), u))
    <3>1. PICK w \in Abstract!Overtakings(Append(Way(n), u)) : Becomes(n, w)
      BY <2>5 DEF Passes
    <3>2. w \in Abstract!Overtakings(Append(W[n], u)) /\ W' = [W EXCEPT ![n] = w]
      BY <1>3, <1>4, <3>1
    <3>3. Abstract!Overtake(n)
      BY <1>12, <2>2, <2>5, <3>2 DEF Abstract!Overtake, Abstract!Moved
    <3> QED
      BY <1>2, <3>3 DEF Abstract!Next
  <2> QED
    BY <2>1, <2>3, <2>4, <2>5 DEF Settles
<1>9. CASE sent' = sent /\ \E n \in Node : Arrives(n)
  <2>1. PICK n \in Node : Arrives(n)
    BY <1>9
  <2>2. W' = [W EXCEPT ![n] = Tail(W[n])] /\ W[n] # <<>>
    BY <1>3, <1>4, <2>1 DEF Arrives
  <2>3. received' = [received EXCEPT ![Peer(n)] = Append(@, Head(W[n]))]
    BY <1>4, <2>1 DEF Arrives
  <2>4. Peer(n) \in Node /\ Peer(n) # n
    BY PeerType
  <2>5. Abstract!Deliver(n, Peer(n))
    BY <1>9, <2>2, <2>3 DEF Abstract!Deliver
  <2> QED
    BY <1>2, <2>4, <2>5 DEF Abstract!Next
<1> QED
  BY <1>5, <1>7, <1>8, <1>9, <1>12 DEF LinkMove

-----------------------------------------------------------------------------
\* Whatever the packets, the errors and the shutdowns, the link delivers nothing
\* but what was sent: the abstract link, not ordered.
Unordered == INSTANCE LossyLink WITH
  wire <- [n \in Node |-> InTransit(n) \o m_queue[n]], arrived <- received,
  ordered <- FALSE

LEMMA MoveMapsUnordered ==
  ASSUME LinkMove(FALSE)
  PROVE  [Unordered!Next /\ UNCHANGED FALSE]_Unordered!vars
<1> DEFINE W == [n \in Node |-> InTransit(n) \o m_queue[n]]
<1>1. /\ W = [n \in Node |-> Way(n)]
      /\ W' = [n \in Node |-> Way(n)']
  BY WayIsWire
<1>2. UNCHANGED FALSE
  OBVIOUS
<1>3. ASSUME NEW n \in Node, NEW w, Becomes(n, w) PROVE W' = [W EXCEPT ![n] = w]
  BY <1>1, <1>3 DEF Becomes
<1>4. \A n \in Node : W[n] = Way(n)
  BY <1>1
<1>5. CASE sent' = sent /\ received' = received /\ Stays
  <2>1. W' = W
    BY <1>1, <1>5 DEF Stays
  <2>2. UNCHANGED Unordered!vars
    BY <1>2, <1>5, <2>1 DEF Unordered!vars
  <2> QED
    BY <2>2
<1>7. CASE /\ sent' = sent /\ received' = received
          /\ \A m \in Node : Way(m)' \in Abstract!Thinned(Way(m))
  <2>a. \A s : Abstract!Thinned(s) = Unordered!Thinned(s)
    BY DEF Abstract!Thinned, Unordered!Thinned
  <2>1. DOMAIN W' = Node /\ \A n \in Node : W'[n] \in Unordered!Thinned(W[n])
    BY <1>1, <1>7, <2>a
  <2>2. Unordered!Lose
    BY <1>7, <2>1 DEF Unordered!Lose
  <2> QED
    BY <1>2, <2>2 DEF Unordered!Next
<1>10. \A s : Abstract!Overtakings(s) = Unordered!Overtakings(s)
  <2>1. \A e, k, v : Abstract!InsertAt(e, k, v) = Unordered!InsertAt(e, k, v)
    BY DEF Unordered!InsertAt, Abstract!InsertAt
  <2>2. \A e, k : Abstract!RemoveAt(e, k) = Unordered!RemoveAt(e, k)
    BY DEF Unordered!RemoveAt, Abstract!RemoveAt
  <2> QED
    BY <2>1, <2>2 DEF Abstract!Overtakings, Unordered!Overtakings
<1>8. CASE sent' = sent /\ received' = received /\ \E n \in Node : Passes(n, Way(n))
  <2>1. PICK n \in Node : Passes(n, Way(n))
    BY <1>8
  <2>2. PICK w \in Abstract!Overtakings(Way(n)) : Becomes(n, w)
    BY <2>1 DEF Passes
  <2>3. w \in Unordered!Overtakings(W[n]) /\ W' = [W EXCEPT ![n] = w]
    BY <1>3, <1>4, <1>10, <2>2
  <2>4. Unordered!Overtake(n)
    BY <1>8, <2>3 DEF Unordered!Overtake, Unordered!Moved
  <2> QED
    BY <1>2, <2>4 DEF Unordered!Next
<1>12. CASE /\ received' = received
           /\ \E n \in Node, u \in Uid : Given(n, u) /\ (Stays \/ Settles(n, Append(Way(n), u), FALSE))
  <2>1. PICK n \in Node, u \in Uid : Given(n, u) /\ (Stays \/ Settles(n, Append(Way(n), u), FALSE))
    BY <1>12
  <2>2. Unordered!Called(n, u)
    BY <2>1 DEF Given, Unordered!Called
  <2>3. CASE Stays
    <3>1. W' = W
      BY <1>1, <2>3 DEF Stays
    <3>2. Unordered!Refuse(n, u)
      BY <1>12, <2>2, <3>1 DEF Unordered!Refuse
    <3> QED
      BY <1>2, <3>2 DEF Unordered!Next
  <2>4. CASE Becomes(n, Append(Way(n), u))
    <3>1. W' = [W EXCEPT ![n] = Append(W[n], u)]
      BY <1>3, <1>4, <2>4
    <3>2. Unordered!Accept(n, u)
      BY <1>12, <2>2, <3>1 DEF Unordered!Accept
    <3> QED
      BY <1>2, <3>2 DEF Unordered!Next
  <2>5. CASE ~FALSE /\ Passes(n, Append(Way(n), u))
    <3>1. PICK w \in Abstract!Overtakings(Append(Way(n), u)) : Becomes(n, w)
      BY <2>5 DEF Passes
    <3>2. w \in Unordered!Overtakings(Append(W[n], u)) /\ W' = [W EXCEPT ![n] = w]
      BY <1>3, <1>4, <1>10, <3>1
    <3>3. Unordered!Overtake(n)
      BY <1>12, <2>2, <2>5, <3>2 DEF Unordered!Overtake, Unordered!Moved
    <3> QED
      BY <1>2, <3>3 DEF Unordered!Next
  <2> QED
    BY <2>1, <2>3, <2>4, <2>5 DEF Settles
<1>9. CASE sent' = sent /\ \E n \in Node : Arrives(n)
  <2>1. PICK n \in Node : Arrives(n)
    BY <1>9
  <2>2. W' = [W EXCEPT ![n] = Tail(W[n])] /\ W[n] # <<>>
    BY <1>3, <1>4, <2>1 DEF Arrives
  <2>3. received' = [received EXCEPT ![Peer(n)] = Append(@, Head(W[n]))]
    BY <1>4, <2>1 DEF Arrives
  <2>4. Peer(n) \in Node /\ Peer(n) # n
    BY PeerType
  <2>5. Unordered!Deliver(n, Peer(n))
    BY <1>9, <2>2, <2>3 DEF Unordered!Deliver
  <2> QED
    BY <1>2, <2>4, <2>5 DEF Unordered!Next
<1> QED
  BY <1>5, <1>7, <1>8, <1>9, <1>12 DEF LinkMove

\* The devices and their channel implement the abstract link that keeps no order,
\* for any errors, shutdowns, delays and transmission times: what arrives was sent,
\* and once for each time it was sent.  A packet on its way is delivered, lost, or
\* overtaken by another (SpWChannel::TransmissionComplete, TransmitStart and
\* NotifyError, spw-channel.cc:163-251; SpWDevice::Receive, spw-device.cc:337-388).
THEOREM DeliversOnlyWhatIsSent == Spec => Unordered!Spec
<1>1. Init => Unordered!Init
  <2> SUFFICES ASSUME Init PROVE Unordered!Init
    OBVIOUS
  <2>1. \A n \in Node : InTransit(n) = <<>> /\ m_queue[n] = <<>>
    BY InitMoves DEF Init
  <2>2. <<>> \o <<>> = <<>>
    BY EmptySeq, ConcatEmptySeq
  <2>3. [n \in Node |-> InTransit(n) \o m_queue[n]] = [n \in Node |-> <<>>]
    BY <2>1, <2>2
  <2>4. sent = [n \in Node |-> <<>>] /\ received = [n \in Node |-> <<>>]
    BY DEF Init
  <2> QED
    BY <2>3, <2>4 DEF Unordered!Init
<1>2. Init => LinkTypes /\ Loaded(calendar)
  BY InitTypes, InitMoves
<1>3. LinkTypes /\ Loaded(calendar) /\ [Next]_vars
        => (LinkTypes /\ Loaded(calendar))' /\ [Unordered!Next /\ UNCHANGED FALSE]_Unordered!vars
  <2> SUFFICES ASSUME LinkTypes, Loaded(calendar), [Next]_vars
               PROVE  /\ LinkTypes' /\ Loaded(calendar')
                      /\ [Unordered!Next /\ UNCHANGED FALSE]_Unordered!vars
    BY DEF Loaded
  <2>1. LinkTypes'
    BY StepTypes
  <2>2. CASE Next
    <3>1. PICK n \in Node : Step(n) \/ Send(n) \/ Shutdown(n)
      BY <2>2 DEF Next
    <3>2. Loaded(calendar') /\ LinkMove(FALSE)
      BY <3>1, StepMoves
    <3> QED
      BY <2>1, <3>2, MoveMapsUnordered
  <2>3. CASE UNCHANGED vars
    <3>1. /\ calendar' = calendar /\ sent' = sent /\ received' = received
          /\ m_queue' = m_queue
      BY <2>3 DEF vars
    <3>2. \A n \in Node : InTransit(n)' = InTransit(n)
      BY <3>1 DEF InTransit
    <3>3. UNCHANGED Unordered!vars
      BY <3>1, <3>2 DEF Unordered!vars
    <3> QED
      BY <2>1, <3>1, <3>3
  <2> QED
    BY <2>2, <2>3
<1> QED
  BY <1>1, <1>2, <1>3, PTL DEF Spec, Unordered!Spec

-----------------------------------------------------------------------------
(***************************************************************************)
(* What arrives can be told apart by the calls of Send it stems from.      *)
(***************************************************************************)

\* Each packet of s has a place of its own in t.
PlacedBy(p, s, t) ==
  /\ p \in [1 .. Len(s) -> 1 .. Len(t)]
  /\ \A j, k \in 1 .. Len(s) : p[j] = p[k] => j = k
  /\ \A k \in 1 .. Len(s) : s[k] = t[p[k]]
Stems(s, t) == \E p : PlacedBy(p, s, t)

LEMMA StemsItself ==
  ASSUME NEW s \in Seq(Uid)
  PROVE  Stems(s, s)
<1> DEFINE p == [k \in 1 .. Len(s) |-> k]
<1>1. PlacedBy(p, s, s)
  BY DEF PlacedBy
<1> QED
  BY <1>1 DEF Stems

LEMMA StemsTwice ==
  ASSUME NEW r, NEW s, NEW t, Stems(r, s), Stems(s, t)
  PROVE  Stems(r, t)
<1>1. PICK p : PlacedBy(p, r, s)
  BY DEF Stems
<1>2. PICK q : PlacedBy(q, s, t)
  BY DEF Stems
<1> DEFINE x == [k \in 1 .. Len(r) |-> q[p[k]]]
<1>3. \A k \in 1 .. Len(r) : p[k] \in 1 .. Len(s) /\ q[p[k]] \in 1 .. Len(t) /\ x[k] = q[p[k]]
  BY <1>1, <1>2 DEF PlacedBy
<1>4. x \in [1 .. Len(r) -> 1 .. Len(t)]
  BY <1>3
<1> HIDE DEF x
<1>5. ASSUME NEW j \in 1 .. Len(r), NEW k \in 1 .. Len(r), x[j] = x[k] PROVE j = k
  <2>1. p[j] = p[k]
    BY <1>2, <1>3, <1>5 DEF PlacedBy
  <2> QED
    BY <1>1, <2>1 DEF PlacedBy
<1>6. ASSUME NEW k \in 1 .. Len(r) PROVE r[k] = t[x[k]]
  <2>1. r[k] = s[p[k]]
    BY <1>1 DEF PlacedBy
  <2>2. s[p[k]] = t[q[p[k]]]
    BY <1>2, <1>3 DEF PlacedBy
  <2> QED
    BY <1>3, <2>1, <2>2
<1>7. PlacedBy(x, r, t)
  BY <1>4, <1>5, <1>6 DEF PlacedBy
<1> QED
  BY <1>7 DEF Stems

\* What follows the same packets.
LEMMA StemsBehind ==
  ASSUME NEW x \in Seq(Uid), NEW r \in Seq(Uid), NEW y \in Seq(Uid), Stems(r, y)
  PROVE  Stems(x \o r, x \o y)
<1>1. PICK p : PlacedBy(p, r, y)
  BY DEF Stems
<1> DEFINE l == Len(x)
           a == x \o r
           b == x \o y
           q == [k \in 1 .. l + Len(r) |-> IF k <= l THEN k ELSE l + p[k - l]]
<1>2. l \in Nat /\ Len(r) \in Nat /\ Len(y) \in Nat
  BY LenProperties
<1>3. /\ Len(a) = l + Len(r) /\ Len(b) = l + Len(y)
      /\ \A k \in 1 .. l + Len(r) : a[k] = IF k <= l THEN x[k] ELSE r[k - l]
      /\ \A k \in 1 .. l + Len(y) : b[k] = IF k <= l THEN x[k] ELSE y[k - l]
  BY ConcatProperties
<1> HIDE DEF a, b, l
<1>4. \A k \in 1 .. l + Len(r) : ~(k <= l) =>
        k - l \in 1 .. Len(r) /\ p[k - l] \in 1 .. Len(y) /\ r[k - l] = y[p[k - l]]
  <2>1. \A k \in 1 .. l + Len(r) : ~(k <= l) => k - l \in 1 .. Len(r)
    BY <1>2
  <2> QED
    BY <1>1, <2>1 DEF PlacedBy
<1>5. \A k \in 1 .. l + Len(r) : q[k] = IF k <= l THEN k ELSE l + p[k - l]
  OBVIOUS
<1>6. \A k \in 1 .. l + Len(r) : q[k] \in 1 .. l + Len(y)
  <2>1. SUFFICES ASSUME NEW k \in 1 .. l + Len(r) PROVE q[k] \in 1 .. l + Len(y)
    OBVIOUS
  <2> HIDE DEF q
  <2>2. CASE k <= l
    BY <1>2, <1>5, <2>2
  <2>3. CASE ~(k <= l)
    BY <1>2, <1>4, <1>5, <2>3
  <2> QED
    BY <2>2, <2>3
<1>7. q \in [1 .. Len(a) -> 1 .. Len(b)]
  BY <1>3, <1>6
<1> HIDE DEF q
<1>8. ASSUME NEW j \in 1 .. Len(a), NEW k \in 1 .. Len(a), q[j] = q[k] PROVE j = k
  <2>1. j \in 1 .. l + Len(r) /\ k \in 1 .. l + Len(r) /\ j \in Int /\ k \in Int
    BY <1>3
  <2>2. CASE j <= l /\ k <= l
    BY <1>5, <1>8, <2>1, <2>2
  <2>3. CASE ~(j <= l) /\ ~(k <= l)
    <3>1. p[j - l] \in Int /\ p[k - l] \in Int /\ j - l \in 1 .. Len(r) /\ k - l \in 1 .. Len(r)
      BY <1>4, <2>1, <2>3
    <3>2. p[j - l] = p[k - l]
      BY <1>2, <1>5, <1>8, <2>1, <2>3, <3>1
    <3>3. j - l = k - l
      BY <1>1, <3>1, <3>2 DEF PlacedBy
    <3> QED
      BY <1>2, <2>1, <3>3
  <2>4. CASE j <= l /\ ~(k <= l)
    <3>1. p[k - l] \in Nat \ {0}
      BY <1>4, <2>1, <2>4
    <3> QED
      BY <1>2, <1>5, <1>8, <2>1, <2>4, <3>1
  <2>5. CASE ~(j <= l) /\ k <= l
    <3>1. p[j - l] \in Nat \ {0}
      BY <1>4, <2>1, <2>5
    <3> QED
      BY <1>2, <1>5, <1>8, <2>1, <2>5, <3>1
  <2> QED
    BY <2>2, <2>3, <2>4, <2>5
<1>9. ASSUME NEW k \in 1 .. Len(a) PROVE a[k] = b[q[k]]
  <2>1. k \in 1 .. l + Len(r) /\ q[k] \in 1 .. l + Len(y)
    BY <1>3, <1>6
  <2>2. CASE k <= l
    BY <1>3, <1>5, <2>1, <2>2
  <2>3. CASE ~(k <= l)
    <3>1. q[k] = l + p[k - l] /\ p[k - l] \in 1 .. Len(y) /\ r[k - l] = y[p[k - l]]
      BY <1>4, <1>5, <2>1, <2>3
    <3>2. ~(q[k] <= l) /\ q[k] - l = p[k - l]
      BY <1>2, <3>1
    <3> QED
      BY <1>3, <2>1, <2>3, <3>1, <3>2
  <2> QED
    BY <2>2, <2>3
<1>10. PlacedBy(q, a, b)
  BY <1>7, <1>8, <1>9 DEF PlacedBy
<1> QED
  BY <1>10 DEF Stems, a, b

\* What is there already stays in its place.
LEMMA StemsBefore ==
  ASSUME NEW x \in Seq(Uid), NEW y \in Seq(Uid)
  PROVE  Stems(x, x \o y)
<1> DEFINE b == x \o y
           p == [k \in 1 .. Len(x) |-> k]
<1>1. /\ Len(x) \in Nat /\ Len(y) \in Nat /\ Len(b) = Len(x) + Len(y)
      /\ \A k \in 1 .. Len(x) + Len(y) : b[k] = IF k <= Len(x) THEN x[k] ELSE y[k - Len(x)]
  BY LenProperties, ConcatProperties
<1> HIDE DEF b
<1>2. \A k \in 1 .. Len(x) : k \in 1 .. Len(b) /\ x[k] = b[k]
  BY <1>1
<1>3. PlacedBy(p, x, b)
  BY <1>2 DEF PlacedBy
<1> QED
  BY <1>3 DEF Stems, b

\* One more on both sides, or in t only.
LEMMA StemsAppend ==
  ASSUME NEW s \in Seq(Uid), NEW t \in Seq(Uid), NEW u \in Uid, Stems(s, t)
  PROVE  Stems(s, Append(t, u)) /\ Stems(Append(s, u), Append(t, u))
<1>1. PICK p : PlacedBy(p, s, t)
  BY DEF Stems
<1> DEFINE a == Append(s, u)
           b == Append(t, u)
           q == [k \in 1 .. Len(s) + 1 |-> IF k = Len(s) + 1 THEN Len(t) + 1 ELSE p[k]]
<1>2. /\ Len(s) \in Nat /\ Len(t) \in Nat /\ Len(a) = Len(s) + 1 /\ Len(b) = Len(t) + 1
      /\ \A k \in 1 .. Len(s) : a[k] = s[k]
      /\ \A k \in 1 .. Len(t) : b[k] = t[k]
      /\ a[Len(s) + 1] = u /\ b[Len(t) + 1] = u
  BY LenProperties, AppendProperties
<1> HIDE DEF a, b
<1>3. /\ p \in [1 .. Len(s) -> 1 .. Len(t)]
      /\ \A j, k \in 1 .. Len(s) : p[j] = p[k] => j = k
      /\ \A k \in 1 .. Len(s) : s[k] = t[p[k]]
  BY <1>1 DEF PlacedBy
<1>4. p \in [1 .. Len(s) -> 1 .. Len(b)] /\ \A k \in 1 .. Len(s) : s[k] = b[p[k]]
  BY <1>2, <1>3
<1>5. PlacedBy(p, s, b)
  BY <1>3, <1>4 DEF PlacedBy
<1>6. \A k \in 1 .. Len(s) + 1 : /\ k # Len(s) + 1 => k \in 1 .. Len(s)
                                /\ q[k] = IF k = Len(s) + 1 THEN Len(t) + 1 ELSE p[k]
  BY <1>2
<1> HIDE DEF q
<1>7. q \in [1 .. Len(a) -> 1 .. Len(b)]
  <2>1. ASSUME NEW k \in 1 .. Len(s) + 1 PROVE q[k] \in 1 .. Len(b)
    <3>1. CASE k = Len(s) + 1
      BY <1>2, <1>6, <3>1
    <3>2. CASE k # Len(s) + 1
      <4>1. k \in 1 .. Len(s) /\ q[k] = p[k]
        BY <1>6, <3>2
      <4>2. p[k] \in 1 .. Len(b)
        BY <1>4, <4>1
      <4> QED
        BY <4>1, <4>2
    <3> QED
      BY <3>1, <3>2
  <2> QED
    BY <1>2, <2>1 DEF q
<1>8. ASSUME NEW j \in 1 .. Len(a), NEW k \in 1 .. Len(a), q[j] = q[k] PROVE j = k
  <2>1. j \in 1 .. Len(s) + 1 /\ k \in 1 .. Len(s) + 1
    BY <1>2
  <2>2. CASE j # Len(s) + 1 /\ k # Len(s) + 1
    BY <1>3, <1>6, <1>8, <2>1, <2>2
  <2>3. CASE j = Len(s) + 1 /\ k # Len(s) + 1
    <3>1. q[j] = Len(t) + 1 /\ q[k] \in 1 .. Len(t)
      BY <1>3, <1>6, <2>1, <2>3
    <3> QED
      BY <1>2, <1>8, <3>1
  <2>4. CASE j # Len(s) + 1 /\ k = Len(s) + 1
    <3>1. q[k] = Len(t) + 1 /\ q[j] \in 1 .. Len(t)
      BY <1>3, <1>6, <2>1, <2>4
    <3> QED
      BY <1>2, <1>8, <3>1
  <2> QED
    BY <2>2, <2>3, <2>4
<1>9. ASSUME NEW k \in 1 .. Len(a) PROVE a[k] = b[q[k]]
  <2>1. CASE k = Len(s) + 1
    BY <1>2, <1>6, <2>1
  <2>2. CASE k # Len(s) + 1
    <3>1. k \in 1 .. Len(s) /\ q[k] = p[k]
      BY <1>2, <1>6, <2>2
    <3> QED
      BY <1>2, <1>4, <3>1
  <2> QED
    BY <2>1, <2>2
<1>10. PlacedBy(q, a, b)
  BY <1>7, <1>8, <1>9 DEF PlacedBy
<1> QED
  BY <1>5, <1>10 DEF Stems, a, b

\* What is left when packets are lost.
LEMMA StemsThinned ==
  ASSUME NEW s \in Seq(Uid), NEW t \in Abstract!Thinned(s)
  PROVE  t \in Seq(Uid) /\ Stems(t, s)
<1>1. t \in Seq(Uid)
  BY ThinnedPicks
<1>2. PICK p : /\ p \in [1 .. Len(t) -> 1 .. Len(s)]
               /\ \A i, j \in 1 .. Len(t) : i < j => p[i] < p[j]
               /\ \A k \in 1 .. Len(t) : t[k] = s[p[k]]
  BY ThinnedPicks
<1>3. ASSUME NEW i \in 1 .. Len(t), NEW j \in 1 .. Len(t), p[i] = p[j] PROVE i = j
  <2>1. p[i] \in Int /\ p[j] \in Int
    BY <1>2
  <2>2. ~(i < j) /\ ~(j < i)
    BY <1>2, <1>3, <2>1
  <2> QED
    BY <2>2
<1>4. PlacedBy(p, t, s)
  BY <1>2, <1>3 DEF PlacedBy
<1> QED
  BY <1>1, <1>4 DEF Stems

\* What RemoveAt does, element by element.
LEMMA RemoveAtIs ==
  ASSUME NEW s \in Seq(Uid), NEW j \in 1 .. Len(s)
  PROVE  /\ RemoveAt(s, j) \in Seq(Uid) /\ Len(RemoveAt(s, j)) = Len(s) - 1
         /\ \A k \in 1 .. Len(s) - 1 : RemoveAt(s, j)[k] = IF k < j THEN s[k] ELSE s[k + 1]
<1> DEFINE a == SubSeq(s, 1, j - 1)
           b == SubSeq(s, j + 1, Len(s))
           r == a \o b
<1>1. Len(s) \in Nat /\ j \in Nat /\ \A i \in 1 .. Len(s) : s[i] \in Uid
  BY LenProperties, ElementOfSeq
<1>2. a \in Seq(Uid) /\ Len(a) = j - 1 /\ \A k \in 1 .. j - 1 : a[k] = s[k]
  BY <1>1, SubSeqProperties
<1>3. b \in Seq(Uid) /\ Len(b) = Len(s) - j /\ \A k \in 1 .. Len(s) - j : b[k] = s[(j + 1) + k - 1]
  <2>1. /\ j + 1 \in Int /\ Len(s) \in Int
        /\ \A i \in j + 1 .. Len(s) : s[i] \in Uid
    BY <1>1
  <2>2. /\ b \in Seq(Uid)
        /\ Len(b) = IF j + 1 <= Len(s) THEN Len(s) - (j + 1) + 1 ELSE 0
        /\ \A k \in 1 .. Len(s) - (j + 1) + 1 : b[k] = s[(j + 1) + k - 1]
    BY <2>1, SubSeqProperties
  <2> HIDE DEF b
  <2>3. Len(s) - (j + 1) + 1 = Len(s) - j
    BY <1>1
  <2>4. Len(b) = Len(s) - j
    BY <1>1, <2>2
  <2>5. \A k \in 1 .. Len(s) - j : b[k] = s[(j + 1) + k - 1]
    BY <2>2, <2>3
  <2> QED
    BY <2>2, <2>4, <2>5
<1> HIDE DEF a, b
<1>4. /\ r \in Seq(Uid) /\ Len(r) = Len(s) - 1
      /\ \A k \in 1 .. Len(a) + Len(b) : r[k] = IF k <= Len(a) THEN a[k] ELSE b[k - Len(a)]
  <2>1. /\ r \in Seq(Uid) /\ Len(r) = Len(a) + Len(b)
        /\ \A k \in 1 .. Len(a) + Len(b) : r[k] = IF k <= Len(a) THEN a[k] ELSE b[k - Len(a)]
    BY <1>2, <1>3, ConcatProperties
  <2>2. Len(a) + Len(b) = Len(s) - 1
    BY <1>1, <1>2, <1>3
  <2> QED
    BY <2>1, <2>2
<1>5. RemoveAt(s, j) = r
  BY DEF RemoveAt, a, b
<1> HIDE DEF r
<1>6. ASSUME NEW k \in 1 .. Len(s) - 1 PROVE r[k] = IF k < j THEN s[k] ELSE s[k + 1]
  <2>1. k \in 1 .. Len(a) + Len(b)
    BY <1>1, <1>2, <1>3
  <2>2. CASE k < j
    <3>1. k <= Len(a) /\ k \in 1 .. j - 1
      BY <1>1, <1>2, <2>2
    <3> QED
      BY <1>2, <1>4, <2>1, <2>2, <3>1
  <2>3. CASE ~(k < j)
    <3>1. /\ ~(k <= Len(a)) /\ k - Len(a) = k - (j - 1) /\ k - (j - 1) \in 1 .. Len(s) - j
          /\ (j + 1) + (k - (j - 1)) - 1 = k + 1
      BY <1>1, <1>2, <2>3
    <3> QED
      BY <1>3, <1>4, <2>1, <2>3, <3>1
  <2> QED
    BY <2>2, <2>3
<1> QED
  BY <1>4, <1>5, <1>6

\* What becomes of the packets when one moves forward.
LEMMA StemsOvertakings ==
  ASSUME NEW s \in Seq(Uid), NEW w \in Abstract!Overtakings(s)
  PROVE  w \in Seq(Uid) /\ Stems(w, s)
<1>1. Len(s) \in Nat /\ DOMAIN s = 1 .. Len(s) /\ \A i \in 1 .. Len(s) : s[i] \in Uid
  BY LenProperties, ElementOfSeq
<1>2a. PICK j \in 1 .. Len(s) :
         w \in {Abstract!InsertAt(Abstract!RemoveAt(s, j), i, s[j]) : i \in 1 .. j - 1}
  BY <1>1 DEF Abstract!Overtakings
<1>2. PICK i \in 1 .. j - 1 : w = Abstract!InsertAt(Abstract!RemoveAt(s, j), i, s[j])
  BY <1>2a
<1> DEFINE r == RemoveAt(s, j)
           u == s[j]
<1>3. w = InsertAt(r, i, u)
  BY <1>2 DEF Abstract!InsertAt, Abstract!RemoveAt, InsertAt, RemoveAt
<1>4. /\ r \in Seq(Uid) /\ Len(r) = Len(s) - 1
      /\ \A k \in 1 .. Len(s) - 1 : r[k] = IF k < j THEN s[k] ELSE s[k + 1]
  BY RemoveAtIs
<1> HIDE DEF r
<1>5. u \in Uid /\ i \in 1 .. Len(r) + 1 /\ i \in Nat /\ j \in Nat /\ i < j
  BY <1>1, <1>4
<1> HIDE DEF u
<1>6. /\ w \in Seq(Uid) /\ Len(w) = Len(r) + 1
      /\ \A k \in 1 .. Len(r) + 1 : w[k] = IF k < i THEN r[k] ELSE IF k = i THEN u ELSE r[k - 1]
  <2>1. r \in Seq(Uid)
    BY <1>4
  <2>2. /\ InsertAt(r, i, u) \in Seq(Uid) /\ Len(InsertAt(r, i, u)) = Len(r) + 1
        /\ \A k \in 1 .. Len(r) + 1 :
             InsertAt(r, i, u)[k] = IF k < i THEN r[k] ELSE IF k = i THEN u ELSE r[k - 1]
    <3>1. i \in 1 .. Len(r) + 1
      BY <1>5
    <3>2. u \in Uid
      BY <1>5
    <3>3. InsertAt(r, i, u) \in Seq(Uid)
      BY <3>1, <3>2, <2>1, InsertAtUid
    <3>4. Len(InsertAt(r, i, u)) = Len(r) + 1
      BY <3>1, <3>2, <2>1, InsertAtUid
    <3>5. \A k \in 1 .. Len(r) + 1 :
             InsertAt(r, i, u)[k] = IF k < i THEN r[k] ELSE IF k = i THEN u ELSE r[k - 1]
      BY <3>1, <3>2, <2>1, InsertAtUid
    <3> QED
      BY <3>3, <3>4, <3>5
  <2> QED
    BY <1>3, <2>2
<1>7. Len(w) = Len(s)
  BY <1>1, <1>4, <1>6
<1> DEFINE p == [k \in 1 .. Len(s) |-> IF k = i THEN j ELSE IF i < k /\ k <= j THEN k - 1 ELSE k]
<1>8. \A k \in 1 .. Len(s) : p[k] = IF k = i THEN j ELSE IF i < k /\ k <= j THEN k - 1 ELSE k
  OBVIOUS
<1> HIDE DEF p
<1>9. \A k \in 1 .. Len(s) : p[k] \in 1 .. Len(s)
  <2>1. SUFFICES ASSUME NEW k \in 1 .. Len(s) PROVE p[k] \in 1 .. Len(s)
    OBVIOUS
  <2>2. p[k] = IF k = i THEN j ELSE IF i < k /\ k <= j THEN k - 1 ELSE k
    BY <1>8
  <2> QED
    BY <1>1, <1>5, <2>2
<1>10. p \in [1 .. Len(s) -> 1 .. Len(s)]
  BY <1>9 DEF p
<1>11. ASSUME NEW x \in 1 .. Len(s), NEW y \in 1 .. Len(s), p[x] = p[y] PROVE x = y
  <2>1. x \in Int /\ y \in Int
    OBVIOUS
  <2> QED
    BY <1>5, <1>8, <1>11, <2>1
<1>12. ASSUME NEW k \in 1 .. Len(s) PROVE w[k] = s[p[k]]
  <2>1. k \in 1 .. Len(r) + 1
    BY <1>1, <1>4
  <2>2. CASE k = i
    BY <1>5, <1>6, <1>8, <2>1, <2>2 DEF u
  <2>3. CASE k < i
    <3>1. k \in 1 .. Len(s) - 1 /\ k < j /\ p[k] = k
      BY <1>1, <1>5, <1>8, <2>3
    <3> QED
      BY <1>4, <1>6, <2>1, <2>3, <3>1
  <2>4. CASE i < k
    <3>1. w[k] = r[k - 1] /\ k - 1 \in 1 .. Len(s) - 1
      BY <1>1, <1>4, <1>5, <1>6, <2>1, <2>4
    <3>2. CASE k <= j
      <4>1. k - 1 < j /\ p[k] = k - 1
        BY <1>5, <1>8, <2>4, <3>2
      <4> QED
        BY <1>4, <3>1, <4>1
    <3>3. CASE ~(k <= j)
      <4>1. ~(k - 1 < j) /\ (k - 1) + 1 = k /\ p[k] = k
        BY <1>5, <1>8, <2>4, <3>3
      <4> QED
        BY <1>4, <3>1, <4>1
    <3> QED
      BY <3>2, <3>3
  <2> QED
    BY <1>5, <2>2, <2>3, <2>4
<1>13. PlacedBy(p, w, s)
  BY <1>7, <1>10, <1>11, <1>12 DEF PlacedBy
<1> QED
  BY <1>6, <1>13 DEF Stems

ArrivalsInv == \A n \in Node : Stems(received[Peer(n)] \o Way(n), sent[n])

LEMMA LinkSequences ==
  /\ LinkTypes => /\ \A n \in Node : received[n] \in Seq(Uid) /\ sent[n] \in Seq(Uid)
                  /\ \A n \in Node : Way(n) \in Seq(Uid)
  /\ LinkTypes' => \A n \in Node : Way(n)' \in Seq(Uid)
<1>1. ASSUME LinkTypes PROVE /\ \A n \in Node : received[n] \in Seq(Uid) /\ sent[n] \in Seq(Uid)
                             /\ \A n \in Node : Way(n) \in Seq(Uid)
  BY <1>1, BoundTypes, ConcatProperties DEF LinkTypes, DeviceInv, Way
<1>2. ASSUME LinkTypes' PROVE \A n \in Node : Way(n)' \in Seq(Uid)
  BY <1>2, BoundTypes, ConcatProperties DEF LinkTypes, DeviceInv, Way
<1> QED
  BY <1>1, <1>2

LEMMA StepArrivals ==
  ASSUME LinkTypes, ArrivalsInv, LinkMove(FALSE)
  PROVE  ArrivalsInv'
<1> DEFINE R(n) == received[Peer(n)]
<1>1. \A n \in Node : R(n) \in Seq(Uid) /\ sent[n] \in Seq(Uid) /\ Way(n) \in Seq(Uid)
  BY LinkSequences, PeerType
<1>2. \A n \in Node : Stems(R(n) \o Way(n), sent[n])
  BY DEF ArrivalsInv
<1>3. SUFFICES \A n \in Node : Stems(received'[Peer(n)] \o Way(n)', sent'[n])
  BY DEF ArrivalsInv
<1>4. ASSUME NEW n \in Node, received' = received, sent'[n] = sent[n],
             Way(n)' \in Seq(Uid), Stems(Way(n)', Way(n))
      PROVE  Stems(received'[Peer(n)] \o Way(n)', sent'[n])
  <2> DEFINE x == R(n)
             y == Way(n)
             w == Way(n)'
             t == sent[n]
  <2>1. x \in Seq(Uid) /\ y \in Seq(Uid) /\ w \in Seq(Uid) /\ Stems(w, y) /\ Stems(x \o y, t)
    BY <1>1, <1>2, <1>4
  <2> HIDE DEF x, y, w, t
  <2>2. Stems(x \o w, t)
    BY <2>1, StemsBehind, StemsTwice
  <2> QED
    BY <1>4, <2>2 DEF x, w, t
<1>5. ASSUME NEW n \in Node, received' = received, sent'[n] = sent[n], Way(n)' = Way(n)
      PROVE  Stems(received'[Peer(n)] \o Way(n)', sent'[n])
  BY <1>2, <1>5
<1>6. CASE sent' = sent /\ received' = received /\ Stays
  BY <1>5, <1>6 DEF Stays
<1>7. CASE /\ sent' = sent /\ received' = received
           /\ \A m \in Node : Way(m)' \in Abstract!Thinned(Way(m))
  <2> SUFFICES ASSUME NEW n \in Node
               PROVE  Stems(received'[Peer(n)] \o Way(n)', sent'[n])
    OBVIOUS
  <2>1. Way(n)' \in Seq(Uid) /\ Stems(Way(n)', Way(n))
    <3> DEFINE y == Way(n)
               w == Way(n)'
    <3>1. y \in Seq(Uid) /\ w \in Abstract!Thinned(y)
      BY <1>1, <1>7
    <3> HIDE DEF y, w
    <3>2. w \in Seq(Uid) /\ Stems(w, y)
      BY <3>1, StemsThinned
    <3> QED
      BY <3>2 DEF y, w
  <2> QED
    BY <1>4, <1>7, <2>1
<1>8. CASE sent' = sent /\ received' = received /\ \E n \in Node : Passes(n, Way(n))
  <2>1. PICK m \in Node : Passes(m, Way(m))
    BY <1>8
  <2>2. PICK w \in Abstract!Overtakings(Way(m)) : Becomes(m, w)
    BY <2>1 DEF Passes
  <2>3. Way(m)' = w /\ \A n \in Node : n # m => Way(n)' = Way(n)
    BY <2>2 DEF Becomes
  <2>4. w \in Seq(Uid) /\ Stems(w, Way(m))
    <3> DEFINE y == Way(m)
    <3>1. y \in Seq(Uid) /\ w \in Abstract!Overtakings(y)
      BY <1>1
    <3> HIDE DEF y
    <3>2. w \in Seq(Uid) /\ Stems(w, y)
      BY <3>1, StemsOvertakings
    <3> QED
      BY <3>2 DEF y
  <2>5. Stems(received'[Peer(m)] \o Way(m)', sent'[m])
    BY <1>4, <1>8, <2>3, <2>4
  <2> QED
    BY <1>5, <1>8, <2>3, <2>5
<1>9. CASE /\ received' = received
           /\ \E n \in Node, u \in Uid :
                Given(n, u) /\ (Stays \/ Settles(n, Append(Way(n), u), FALSE))
  <2>1. PICK m \in Node, u \in Uid :
          Given(m, u) /\ (Stays \/ Settles(m, Append(Way(m), u), FALSE))
    BY <1>9
  <2>2. /\ sent'[m] = Append(sent[m], u)
        /\ \A n \in Node : n # m => sent'[n] = sent[n]
    <3>1. sent \in [Node -> Seq(Uid)] /\ sent' = [sent EXCEPT ![m] = Append(@, u)]
      BY <2>1 DEF Given, LinkTypes, DeviceInv
    <3> QED
      BY <3>1
  <2>3. ASSUME NEW n \in Node, n # m PROVE Stems(received'[Peer(n)] \o Way(n)', sent'[n])
    <3>1. Way(n)' = Way(n)
      BY <2>1, <2>3 DEF Stays, Settles, Passes, Becomes
    <3> QED
      BY <1>5, <1>9, <2>2, <2>3, <3>1
  <2> DEFINE x == R(m)
             y == Way(m)
             z == Append(y, u)
             w == Way(m)'
             t == sent[m]
  <2>4. x \in Seq(Uid) /\ y \in Seq(Uid) /\ t \in Seq(Uid) /\ Stems(x \o y, t)
    BY <1>1, <1>2
  <2>5. w = y \/ w = z \/ w \in Abstract!Overtakings(z)
    BY <2>1 DEF Stays, Settles, Passes, Becomes
  <2> HIDE DEF x, y, z, w, t
  <2>6. z \in Seq(Uid) /\ x \o y \in Seq(Uid)
    BY <2>4, AppendProperties, ConcatProperties DEF z
  <2>7. Stems(x \o y, Append(t, u)) /\ Stems(Append(x \o y, u), Append(t, u))
    BY <2>4, <2>6, StemsAppend
  <2>8. Stems(x \o z, Append(t, u))
    BY <2>4, <2>7, AppendLast DEF z
  <2>9. CASE w = y
    BY <1>9, <2>2, <2>3, <2>7, <2>9 DEF x, w, t
  <2>10. CASE w = z \/ w \in Abstract!Overtakings(z)
    <3>1. w \in Seq(Uid) /\ Stems(w, z)
      BY <2>6, <2>10, StemsItself, StemsOvertakings
    <3>2. Stems(x \o w, x \o z)
      BY <2>4, <2>6, <3>1, StemsBehind
    <3>3. Stems(x \o w, Append(t, u))
      BY <2>8, <3>2, StemsTwice
    <3> QED
      BY <1>9, <2>2, <2>3, <3>3 DEF x, w, t
  <2> QED
    BY <2>5, <2>9, <2>10
<1>10. CASE sent' = sent /\ \E n \in Node : Arrives(n)
  <2>1. PICK m \in Node : Arrives(m)
    BY <1>10
  <2>2. ASSUME NEW n \in Node, n # m PROVE Stems(received'[Peer(n)] \o Way(n)', sent'[n])
    <3>1. Way(n)' = Way(n)
      BY <2>1, <2>2 DEF Arrives, Becomes
    <3>2. Peer(n) # Peer(m)
      BY <2>2, PeerOfPeer
    <3>3. received'[Peer(n)] = received[Peer(n)]
      BY <2>1, <3>2, PeerType DEF Arrives, LinkTypes
    <3> QED
      BY <1>2, <1>10, <3>1, <3>3
  <2> DEFINE x == R(m)
             y == Way(m)
  <2>3. x \in Seq(Uid) /\ y \in Seq(Uid) /\ y # <<>> /\ Stems(x \o y, sent[m])
    BY <1>1, <1>2, <2>1 DEF Arrives
  <2>4. received'[Peer(m)] = Append(x, Head(y)) /\ Way(m)' = Tail(y)
    BY <2>1, PeerType DEF Arrives, Becomes, LinkTypes
  <2> HIDE DEF x, y
  <2>5. Append(x, Head(y)) \o Tail(y) = x \o y
    BY <2>3, MoveOn
  <2>6. Stems(received'[Peer(m)] \o Way(m)', sent'[m])
    BY <1>10, <2>3, <2>4, <2>5
  <2> QED
    BY <2>2, <2>6
<1> QED
  BY <1>6, <1>7, <1>8, <1>9, <1>10 DEF LinkMove, Settles

\* Nothing arrives that the other device was not given to send, and no packet
\* arrives more often than Send was called with it, be it sent again while a copy is
\* in the queue, on the wire or being handled (OstSocket sends the same Ptr<Packet>
\* again, ost_socket.cc:319; SpWDevice::Send, spw-device.cc:530-572; SpWChannel,
\* spw-channel.cc:163-251), for any errors, shutdowns, delays and transmission times.
THEOREM ArrivalsWereSent == Spec => []ArrivedWasSent
<1> DEFINE Inv == LinkTypes /\ Loaded(calendar) /\ ArrivalsInv
<1>1. Init => Inv
  <2> SUFFICES ASSUME Init PROVE Inv
    OBVIOUS
  <2>1. LinkTypes /\ Loaded(calendar) /\ \A n \in Node : InTransit(n) = <<>>
    BY InitTypes, InitMoves
  <2>2. <<>> \in Seq(Uid) /\ <<>> \o <<>> = <<>>
    BY EmptySeq, ConcatEmptySeq
  <2>3. \A n \in Node : Way(n) = <<>> /\ received[Peer(n)] = <<>> /\ sent[n] = <<>>
    <3>1. \A n \in Node : Way(n) = InTransit(n) \o m_queue[n]
      BY DEF Way, Bound, InTransit
    <3> QED
      BY <2>1, <2>2, <3>1, PeerType DEF Init
  <2>4. Stems(<<>>, <<>>)
    BY <2>2, StemsItself
  <2> QED
    BY <2>1, <2>2, <2>3, <2>4 DEF ArrivalsInv
<1>2. Inv /\ [Next]_vars => Inv'
  <2> SUFFICES ASSUME Inv, [Next]_vars PROVE Inv'
    OBVIOUS
  <2>1. LinkTypes'
    BY StepTypes
  <2>2. CASE Next
    <3>1. PICK n \in Node : Step(n) \/ Send(n) \/ Shutdown(n)
      BY <2>2 DEF Next
    <3>2. Loaded(calendar') /\ LinkMove(FALSE)
      BY <3>1, StepMoves
    <3>3. ArrivalsInv'
      BY <3>2, StepArrivals
    <3> QED
      BY <2>1, <3>2, <3>3 DEF Loaded
  <2>3. CASE UNCHANGED vars
    <3>1. /\ calendar' = calendar /\ sent' = sent /\ received' = received
          /\ m_queue' = m_queue
      BY <2>3 DEF vars
    <3>2. \A n \in Node : Way(n)' = Way(n)
      BY <3>1 DEF Way, Bound
    <3> QED
      BY <2>1, <3>1, <3>2 DEF ArrivalsInv, Loaded
  <2> QED
    BY <2>2, <2>3
<1>3. Inv => ArrivedWasSent
  <2> SUFFICES ASSUME Inv, NEW n \in Node
               PROVE  \E place \in Injection(DOMAIN received[Peer(n)], DOMAIN sent[n]) :
                        \A k \in DOMAIN place : received[Peer(n)][k] = sent[n][place[k]]
    BY DEF ArrivedWasSent
  <2> DEFINE x == received[Peer(n)]
             y == Way(n)
             t == sent[n]
  <2>1. x \in Seq(Uid) /\ y \in Seq(Uid) /\ t \in Seq(Uid) /\ Stems(x \o y, t)
    BY LinkSequences, PeerType DEF ArrivalsInv
  <2> HIDE DEF x, y, t
  <2>2. Stems(x, t)
    BY <2>1, StemsBefore, StemsTwice
  <2>3. PICK p : PlacedBy(p, x, t)
    BY <2>2 DEF Stems
  <2>4. DOMAIN x = 1 .. Len(x) /\ DOMAIN t = 1 .. Len(t)
    BY <2>1, LenProperties
  <2>5. p \in Injection(DOMAIN x, DOMAIN t) /\ \A k \in DOMAIN p : x[k] = t[p[k]]
    BY <2>3, <2>4 DEF PlacedBy, Injection, IsInjective
  <2> QED
    BY <2>5 DEF x, t
<1> QED
  BY <1>1, <1>2, <1>3, PTL DEF Spec

-----------------------------------------------------------------------------
(***************************************************************************)
(* Short packets keep the pace of the link: whenever a device transmits,   *)
(* what a reset has left on its wire arrives before the packet.            *)
(***************************************************************************)

\* The pace of device n in state s.
PaceOf(c, n, s) ==
  /\ Within(c, n, Longest) /\ Timely(c, n)
  /\ s \in Calm => Within(c, n, DELAY)

LEMMA PaceOfEach ==
  /\ Pace <=> \A n \in Node : PaceOf(calendar, n, machineState[n])
  /\ Pace' <=> \A n \in Node : PaceOf(calendar', n, machineState'[n])
BY DEF Pace, PaceOf

LEMMA WithinMore ==
  ASSUME NEW c, Calendar(c), NEW n, NEW b \in Nat, NEW d \in Nat, Within(c, n, b), b <= d
  PROVE  Within(c, n, d)
<1> SUFFICES ASSUME NEW i \in 1 .. Len(c), OnWire(c[i], n) PROVE c[i].in <= d
  BY DEF Within
<1>1. c[i].in \in Nat
  BY CalendarTypes
<1>2. c[i].in <= b
  BY DEF Within
<1> QED
  BY <1>1, <1>2

LEMMA Lengths ==
  /\ Longest \in Nat /\ DELAY \in Nat /\ DELAY <= Longest
  /\ Longest = Slack("ErrorReset")
  /\ EXCHANGE_OF_SILENCE + Slack("ErrorReset") \in Nat
  /\ Longest <= EXCHANGE_OF_SILENCE + Slack("ErrorReset")
  /\ SPW_HALF_DELAY + Slack("ErrorWait") = Slack("ErrorReset")
  /\ SPW_DELAY + Slack("Ready") = Slack("ErrorWait")
  /\ SPW_DELAY + Slack("ErrorReset") \in Nat /\ DELAY <= SPW_DELAY + Slack("ErrorReset")
<1>1. /\ Slack("ErrorReset") = SPW_HALF_DELAY + SPW_DELAY + DELAY
      /\ Slack("ErrorWait") = SPW_DELAY + DELAY /\ Slack("Ready") = DELAY
  BY Slacks
<1> QED
  BY <1>1, Delays DEF Longest

LEMMA NotSlower ==
  ASSUME NEW c, NEW r, NoLonger(c, r), NEW n, NEW s, PaceOf(c, n, s)
  PROVE  PaceOf(r, n, s)
BY Lengths DEF NoLonger, PaceOf

\* A handler that carries nothing, and the state s it enters.
LEMMA PlainPace ==
  ASSUME LinkTypes, Loaded(calendar), Pace, NEW n \in Node, NEW do \in Handler \ Carrying,
         Runs(do, n), NEW b, Plain(calendar', n, b), Within(Rest, n, b),
         \/ machineState' = machineState
         \/ \E s : /\ machineState' = [machineState EXCEPT ![n] = s]
                   /\ s \in Calm => Within(Rest, n, DELAY)
  PROVE  Pace'
<1>1. NoLonger(calendar, Rest)
  BY OtherRuns
<1>2. \A m \in Node : PaceOf(Rest, m, machineState[m])
  BY <1>1, NotSlower, PaceOfEach
<1>3. Kept(Rest, calendar') /\ \A m : TimelyKept(Rest, calendar', m)
  BY DEF Plain
<1>4. ASSUME NEW m \in Node, NEW s, s \in Calm => Within(Rest, m, DELAY)
      PROVE  PaceOf(calendar', m, s)
  BY <1>2, <1>3, <1>4 DEF PaceOf, Kept, TimelyKept
<1>5. \A m \in Node : machineState[m] \in Calm => Within(Rest, m, DELAY)
  BY <1>2 DEF PaceOf
<1>6. ASSUME NEW m \in Node PROVE machineState'[m] \in Calm => Within(Rest, m, DELAY)
  <2>1. machineState \in [Node -> MachineState]
    BY DEF LinkTypes, DeviceInv
  <2> QED
    BY <1>5, <2>1
<1> QED
  BY <1>4, <1>6, PaceOfEach

\* The only return of a device in BUSY is the completion of its transmission.
LEMMA BusyTimely ==
  ASSUME Calendar(calendar'), ChainInv', NEW n \in Node, machineState'[n] = "BUSY",
         NEW t \in Nat, Has(calendar', "TransmitComplete", n, t),
         Within(calendar', n, t + DELAY)
  PROVE  Timely(calendar', n)
<1> DEFINE r == calendar'
<1>1. PICK k \in 1 .. Len(r) : r[k].do = "TransmitComplete" /\ r[k].dev = n /\ r[k].in = t
  BY DEF Has
<1>2. /\ Only(r, n, Kinds("BUSY"))
      /\ \A i, j \in 1 .. Len(r) :
           r[i].dev = r[j].dev /\ Kind(r[i]) \in Own /\ Class(Kind(r[i])) = Class(Kind(r[j]))
             => i = j
  BY DEF ChainInv, Tidy
<1>3. Kinds("BUSY") = {"TransmitComplete", "ApproachLinkDisconnection"}
  BY DEF Kinds
<1> HIDE DEF r
<1>4. SUFFICES ASSUME NEW i \in 1 .. Len(r), NEW j \in 1 .. Len(r), OnWire(r[i], n),
                      r[j].dev = n, r[j].do \in Returning
               PROVE  r[i].in <= r[j].in + Slack(r[j].do)
  BY DEF Timely, r
<1>5. r[j].do = "TransmitComplete"
  <2>1. Kind(r[j]) \in Own
    BY <1>4 DEF Kind, Own, Chain, Returning
  <2>2. Kind(r[j]) \in {"TransmitComplete", "ApproachLinkDisconnection"}
    BY <1>2, <1>3, <1>4, <2>1 DEF Only
  <2>3. Kind(r[j]) = r[j].do
    BY <2>2 DEF Kind
  <2> QED
    BY <1>4, <2>2, <2>3 DEF Returning
<1>6. Kind(r[j]) = "TransmitComplete" /\ Kind(r[k]) = "TransmitComplete"
  BY <1>1, <1>5 DEF Kind
<1>7. j = k
  BY <1>1, <1>2, <1>4, <1>6 DEF Own
<1>8. r[i].in <= t + DELAY
  BY <1>4 DEF Within, r
<1> QED
  BY <1>1, <1>5, <1>7, <1>8, Slacks

\* Device n transmits a packet that is not long, or has nothing to transmit.
LEMMA TransmitPace ==
  ASSUME Short, NEW c, Calendar(c), Loaded(c), NEW n \in Node, NEW q \in Seq(Uid),
         txTime \in Traffic, machineState \in [Node -> MachineState], Transmit(n, q, c),
         Within(c, n, DELAY), Timely(c, n),
         \A m \in Node : m # n => PaceOf(c, m, machineState[m]), ChainInv'
  PROVE  Pace'
<1>1. CASE q = <<>>
  <2>1. calendar' = c /\ machineState' = [machineState EXCEPT ![n] = "RUN"]
    BY <1>1 DEF Transmit
  <2>2. PaceOf(c, n, "RUN")
    BY Lengths, WithinMore DEF PaceOf
  <2>3. ASSUME NEW m \in Node PROVE PaceOf(c, m, machineState'[m])
    <3>1. machineState'[m] = IF m = n THEN "RUN" ELSE machineState[m]
      BY <2>1
    <3> QED
      BY <2>2, <3>1
  <2> QED
    BY <2>1, <2>3, PaceOfEach
<1>2. CASE q # <<>>
  <2> DEFINE u == Head(q)
             x == txTime[u]
  <2>1. /\ calendar' = TransmitStart(c, n, u)
        /\ machineState' = [machineState EXCEPT ![n] = "BUSY"]
    BY <1>2 DEF Transmit
  <2>2. u \in Uid
    BY <1>2, HeadFirst
  <2>3. Sent(c, calendar', n, u) /\ Paced(c, calendar', n, u)
    BY <2>1, <2>2, TransmitStartSends
  <2>4. x \in Nat
    BY <2>2, LinkAssumption
  <2>5. x <= SPW_HALF_DELAY + SPW_DELAY
    BY <2>2 DEF Short
  <2> HIDE DEF u
  <2>6. Within(calendar', n, x + DELAY) /\ Has(calendar', "TransmitComplete", n, x)
    BY <2>3 DEF Paced
  <2> HIDE DEF x
  <2>7. x + DELAY \in Nat /\ x + DELAY <= Longest
    BY <2>4, <2>5, Delays DEF Longest
  <2>8. Calendar(calendar')
    BY <2>3 DEF Sent
  <2>9. Within(calendar', n, Longest)
    BY <2>6, <2>7, <2>8, Lengths, WithinMore
  <2>10. machineState'[n] = "BUSY"
    BY <2>1
  <2>11. Timely(calendar', n)
    BY <2>4, <2>6, <2>8, <2>10, BusyTimely
  <2>12. PaceOf(calendar', n, machineState'[n])
    BY <2>9, <2>10, <2>11 DEF PaceOf, Calm
  <2>13. ASSUME NEW m \in Node, m # n PROVE PaceOf(calendar', m, machineState'[m])
    <3>1. machineState'[m] = machineState[m]
      BY <2>1, <2>13
    <3>2. PaceOf(c, m, machineState[m])
      BY <2>13
    <3>3. /\ \A b : Within(c, m, b) => Within(calendar', m, b)
          /\ Timely(c, m) => Timely(calendar', m)
      BY <2>3, <2>13 DEF Paced, TimelyKept
    <3> QED
      BY <3>1, <3>2, <3>3 DEF PaceOf
  <2> QED
    BY <2>12, <2>13, PaceOfEach
<1> QED
  BY <1>1, <1>2

LEMMA SendPace ==
  ASSUME LinkTypes, ChainInv', Loaded(calendar), Short, Pace, NEW n \in Node, Send(n)
  PROVE  Pace'
<1>1. PICK u \in {given'} \cup Range(sent[n]), d \in Gap :
        /\ CallAt(d)
        /\ LET q == Enqueue(m_queue[n], u)
               cal == Later(calendar, d)
           IN  IF machineState[n] = "RUN" THEN Transmit(n, q, cal)
               ELSE /\ m_queue' = [m_queue EXCEPT ![n] = q] /\ calendar' = cal
                    /\ UNCHANGED machineState
  BY DEF Send
<1>2. /\ Calendar(calendar) /\ m_queue \in [Node -> Seq(Uid)]
      /\ machineState \in [Node -> MachineState] /\ txTime \in Traffic
  BY DEF LinkTypes, DeviceInv
<1>3. u \in Uid
  BY GivenPacket DEF Send
<1> DEFINE q == Enqueue(m_queue[n], u)
           c == Later(calendar, d)
<1>4. q \in Seq(Uid)
  BY <1>2, <1>3, AppendProperties DEF Enqueue
<1>5. PICK x : Calendar(c) /\ Sooner(c, calendar, x)
  BY <1>1, <1>2, CallKept
<1> HIDE DEF q
<1>6. \/ machineState[n] = "RUN" /\ Transmit(n, q, c)
      \/ calendar' = c /\ machineState' = machineState
  BY <1>1 DEF q
<1> HIDE DEF c
<1>7. NoLonger(calendar, c) /\ Loaded(c)
  BY <1>5, SoonerKeeps DEF NoLonger
<1>8. \A m \in Node : PaceOf(c, m, machineState[m])
  BY <1>7, NotSlower, PaceOfEach
<1>9. CASE machineState[n] = "RUN" /\ Transmit(n, q, c)
  <2>1. Within(c, n, DELAY) /\ Timely(c, n)
    BY <1>8, <1>9 DEF PaceOf, Calm
  <2> QED
    BY <1>2, <1>4, <1>5, <1>7, <1>8, <1>9, <2>1, TransmitPace
<1>10. CASE calendar' = c /\ machineState' = machineState
  BY <1>8, <1>10, PaceOfEach
<1> QED
  BY <1>6, <1>9, <1>10

\* The state changes that resets and start-ups consist of.
LEMMA ResetPace ==
  ASSUME LinkTypes, Loaded(calendar), Pace, NEW n \in Node,
         \/ ErrorResetSpWState(n) \/ ErrorWaitSpWState(n) \/ ReadySpWState(n)
         \/ ApproachLinkDisconnection(n)
  PROVE  Pace'
<1>1. Calendar(calendar)
  BY DEF LinkTypes
<1>2. /\ {"ErrorReset", "ErrorWait", "Ready", "ApproachLinkDisconnection"}
           \subseteq Handler \ Carrying
      /\ {"ErrorReset", "ErrorWait", "Ready"} \subseteq Returning
      /\ "ERROR_RESET" \notin Calm /\ "ERROR_WAIT" \notin Calm
  BY DEF Handler, Carrying, Returning, Calm
<1>3. ASSUME NEW do \in {"ErrorReset", "ErrorWait", "Ready"}, Runs(do, n)
      PROVE  Within(Rest, n, Slack(do))
  BY <1>1, <1>2, <1>3, RestReturns DEF Pace
<1>4. CASE ErrorResetSpWState(n)
  <2>1. Runs("ErrorReset", n) /\ machineState' = [machineState EXCEPT ![n] = "ERROR_RESET"]
    BY <1>4 DEF ErrorResetSpWState, Enter
  <2>2. Plain(calendar', n, Slack("ErrorReset"))
    BY <1>1, <1>4, ResetsPlain, Lengths
  <2>3. Within(Rest, n, Slack("ErrorReset"))
    BY <1>3, <2>1
  <2> QED
    BY <1>2, <2>1, <2>2, <2>3, PlainPace
<1>5. CASE ErrorWaitSpWState(n)
  <2>1. Runs("ErrorWait", n) /\ machineState' = [machineState EXCEPT ![n] = "ERROR_WAIT"]
    BY <1>5 DEF ErrorWaitSpWState, Enter
  <2>2. Plain(calendar', n, Slack("ErrorWait"))
    BY <1>1, <1>5, ResetsPlain, Lengths
  <2>3. Within(Rest, n, Slack("ErrorWait"))
    BY <1>3, <2>1
  <2> QED
    BY <1>2, <2>1, <2>2, <2>3, PlainPace
<1>6. CASE ReadySpWState(n)
  <2>1. Runs("Ready", n) /\ machineState' = [machineState EXCEPT ![n] = "STARTED"]
    BY <1>6 DEF ReadySpWState, Enter
  <2>2. Plain(calendar', n, SPW_DELAY + Slack("ErrorReset"))
    BY <1>1, <1>6, ResetsPlain
  <2>3. Within(Rest, n, DELAY)
    BY <1>3, <2>1, Slacks
  <2>4. Calendar(Rest)
    BY <1>1, <2>1, RestCalendar DEF Runs
  <2>5. Within(Rest, n, SPW_DELAY + Slack("ErrorReset"))
    BY <2>3, <2>4, Lengths, WithinMore
  <2> QED
    BY <1>2, <2>1, <2>2, <2>3, <2>5, PlainPace
<1>7. CASE ApproachLinkDisconnection(n)
  <2>1. /\ Runs("ApproachLinkDisconnection", n)
        /\ machineState' = [machineState EXCEPT ![n] = "ERROR_RESET"]
    BY <1>7 DEF ApproachLinkDisconnection, Enter
  <2> DEFINE b == EXCHANGE_OF_SILENCE + Slack("ErrorReset")
  <2>2. Plain(calendar', n, b)
    BY <1>1, <1>7, ResetsPlain
  <2>3. NoLonger(calendar, Rest) /\ Calendar(Rest)
    BY <1>2, <2>1, OtherRuns
  <2>4. Within(Rest, n, b)
    BY <2>3, Lengths, WithinMore DEF NoLonger, Pace
  <2> HIDE DEF b
  <2> QED
    BY <1>2, <2>1, <2>2, <2>4, PlainPace
<1> QED
  BY <1>4, <1>5, <1>6, <1>7

\* The NULLs and FCTs.
LEMMA NullPace ==
  ASSUME LinkTypes, Loaded(calendar), Pace, NEW n \in Node,
         SendNull(n) \/ SendFCT(n) \/ ReceiveNull(n)
  PROVE  Pace'
<1>1. Calendar(calendar)
  BY DEF LinkTypes
<1>2. {"SendNull", "SendFCT", "ReceiveNull"} \subseteq Handler \ Carrying
  BY DEF Handler, Carrying
<1>3. \E do \in {"SendNull", "SendFCT", "ReceiveNull"} : Runs(do, n)
  BY DEF SendNull, SendFCT, ReceiveNull
<1>4. Calendar(Rest) /\ NoLonger(calendar, Rest)
  BY <1>2, <1>3, OtherRuns
<1>5. /\ Within(Rest, n, Longest)
      /\ machineState[n] \in Calm => Within(Rest, n, DELAY)
  BY <1>4, Lengths DEF NoLonger, Pace
<1>6. CASE SendNull(n) \/ SendFCT(n) \/ (ReceiveNull(n) /\ machineState[n] # "STARTED")
  <2>1. machineState' = machineState
    BY <1>6 DEF SendNull, SendFCT, ReceiveNull
  <2>2. Plain(calendar', n, Longest)
    BY <1>1, <1>6, NullsPlain
  <2> QED
    BY <1>2, <1>3, <1>5, <2>1, <2>2, PlainPace
<1>7. CASE ReceiveNull(n) /\ machineState[n] = "STARTED"
  <2>1. machineState' = [machineState EXCEPT ![n] = "CONNECTING"]
    BY <1>7 DEF ReceiveNull, Enter
  <2>2. Plain(calendar', n, SPW_DELAY + Slack("ErrorReset"))
    BY <1>1, <1>7, NullsPlain
  <2>3. Within(Rest, n, DELAY)
    BY <1>5, <1>7 DEF Calm
  <2>4. Within(Rest, n, SPW_DELAY + Slack("ErrorReset"))
    BY <1>4, <2>3, Lengths, WithinMore
  <2> QED
    BY <1>2, <1>3, <2>1, <2>2, <2>3, <2>4, PlainPace
<1> QED
  BY <1>6, <1>7

\* A corrupt packet: what the cancellations leave on the wires is not later than it
\* was, and arrives before a device that resets because of it comes back.
LEMMA CorruptKeepsPace ==
  ASSUME LinkTypes, Loaded(calendar), NEW n \in Node, ReceiveCorrupt(n)
  PROVE  /\ \A m, x : x \in Nat /\ Within(calendar, m, x) => Within(calendar', m, x)
         /\ \A m : Timely(calendar, m) /\ Within(calendar, m, Slack("ErrorReset"))
              => Timely(calendar', m)
<1> DEFINE a == Cancel(Rest, n, {"m_events"})
           b == Cancel(a, Peer(n), {"m_events"})
           d == Schedule(b, APPROACH_TIME, "ApproachLinkDisconnection", Peer(n), NoUid)
<1>1. Runs("Receive", n) /\ calendar' = ErrorReset(d, n)
  BY DEF ReceiveCorrupt, NotifyError
<1>2. "Receive" \in Carrying
  BY DEF Carrying
<1>3. Calendar(Rest) /\ NoLonger(calendar, Rest)
  BY <1>1, <1>2, CarryingRuns
<1>4. Calendar(a) /\ From(a, Rest)
  BY <1>3, CancelCalendar, CancelFrom
<1> HIDE DEF a
<1>5. Calendar(b) /\ From(b, a)
  BY <1>4, CancelCalendar, CancelFrom
<1> HIDE DEF b
<1>6. Kept(b, d) /\ \A m : TimelyKept(b, d, m)
  <2>1. /\ "ApproachLinkDisconnection" \in Handler \ Carrying /\ NoUid \in Uid \cup {NoUid}
        /\ "ApproachLinkDisconnection" \notin Returning /\ Peer(n) \in Node
    BY PeerType DEF Handler, Carrying, Returning
  <2> QED
    BY <1>5, <2>1, Delays, ScheduleKept
<1> HIDE DEF d
<1>7. Calendar(d)
  BY <1>6 DEF Kept
<1>8. /\ Kept(d, calendar')
      /\ \A m : (m = n => Within(d, n, Slack("ErrorReset"))) => TimelyKept(d, calendar', m)
  BY <1>1, <1>7, HandlersKeep, Lengths
<1>9. ASSUME NEW m, NEW x \in Nat, Within(calendar, m, x)
      PROVE  Within(d, m, x) /\ Within(calendar', m, x)
  <2>1. Within(Rest, m, x)
    BY <1>3, <1>9 DEF NoLonger
  <2>2. Within(b, m, x)
    BY <1>4, <1>5, <2>1, FromKeeps
  <2> QED
    BY <1>6, <1>8, <2>2 DEF Kept
<1>10. ASSUME NEW m, Timely(calendar, m), Within(calendar, m, Slack("ErrorReset"))
       PROVE  Timely(calendar', m)
  <2>1. Timely(Rest, m)
    BY <1>3, <1>10 DEF NoLonger
  <2>2. Timely(b, m)
    BY <1>4, <1>5, <2>1, FromKeeps
  <2>3. Timely(d, m)
    BY <1>6, <2>2 DEF TimelyKept
  <2>4. Slack("ErrorReset") \in Nat
    BY Lengths
  <2>5. Within(d, m, Slack("ErrorReset"))
    BY <1>9, <1>10, <2>4
  <2> QED
    BY <1>8, <2>3, <2>5 DEF TimelyKept
<1> QED
  BY <1>9, <1>10

LEMMA StepPace ==
  ASSUME ShutdownIn \subseteq {"RUN"}, LinkTypes, ChainInv', Loaded(calendar), Short,
         Pace, NEW n \in Node, Step(n) \/ Send(n) \/ Shutdown(n)
  PROVE  Pace'
<1>1. /\ Calendar(calendar) /\ m_queue \in [Node -> Seq(Uid)]
      /\ machineState \in [Node -> MachineState] /\ txTime \in Traffic
  BY DEF LinkTypes, DeviceInv
<1>2. "ReceiveFCT" \in Handler \ Carrying /\ "TransmitComplete" \in Handler \ Carrying
  BY DEF Handler, Carrying
<1>3. ASSUME NEW r, calendar' = r, machineState' = machineState, NoLonger(calendar, r)
      PROVE  Pace'
  BY <1>3, NotSlower, PaceOfEach
<1>4. ASSUME NEW do \in {"ReceiveFCT", "TransmitComplete"}, Runs(do, n), NEW c,
             Transmit(n, m_queue[n], c), Within(Rest, n, DELAY),
             \/ \E H \in SUBSET Handle : c = Cancel(Rest, n, H)
             \/ \E h, u : c = Forget(Rest, n, h, u)
      PROVE  Pace'
  <2>1. /\ Calendar(c) /\ Loaded(c) /\ NoLonger(calendar, c) /\ Within(c, n, DELAY)
    BY <1>4, BeforeTransmit
  <2>2. \A m \in Node : PaceOf(c, m, machineState[m])
    BY <2>1, NotSlower, PaceOfEach
  <2>3. Timely(c, n) /\ m_queue[n] \in Seq(Uid)
    BY <1>1, <2>2 DEF PaceOf
  <2> QED
    BY <1>1, <1>4, <2>1, <2>2, <2>3, TransmitPace
<1>5. CASE ReceiveFCT(n)
  <2>1. Runs("ReceiveFCT", n)
    BY <1>5 DEF ReceiveFCT
  <2>2. NoLonger(calendar, Rest)
    BY <1>2, <2>1, OtherRuns
  <2>3. CASE machineState[n] # "CONNECTING"
    <3>1. calendar' = Rest /\ machineState' = machineState
      BY <1>5, <2>3 DEF ReceiveFCT
    <3> QED
      BY <1>3, <2>2, <3>1
  <2>4. CASE machineState[n] = "CONNECTING"
    <3> DEFINE H == {"stateChangeToErrorReset", "sendNull", "sendFCT"}
               c == Cancel(Rest, n, H)
    <3>1. Transmit(n, m_queue[n], c)
      BY <1>5, <2>4 DEF ReceiveFCT, RunSpWState
    <3>2. H \in SUBSET Handle
      BY DEF Handle
    <3>3. \E G \in SUBSET Handle : c = Cancel(Rest, n, G)
      BY <3>2
    <3> HIDE DEF c, H
    <3>4. Within(Rest, n, DELAY)
      BY <2>2, <2>4, Lengths DEF NoLonger, Pace, Calm
    <3> QED
      BY <1>4, <2>1, <3>1, <3>3, <3>4
  <2> QED
    BY <2>3, <2>4
<1>6. CASE TransmitComplete(n)
  <2> DEFINE c == Forget(Rest, n, "transmit_complete_events", Head(calendar).uid)
  <2>1. Runs("TransmitComplete", n) /\ Transmit(n, m_queue[n], c)
    BY <1>6 DEF TransmitComplete
  <2>2. \E h, u : c = Forget(Rest, n, h, u)
    OBVIOUS
  <2> HIDE DEF c
  <2>3. Within(Rest, n, DELAY)
    <3>1. "TransmitComplete" \in Returning /\ Timely(calendar, n)
      BY DEF Returning, Pace
    <3>2. Within(Rest, n, Slack("TransmitComplete"))
      BY <1>1, <2>1, <3>1, RestReturns
    <3> QED
      BY <3>2, Slacks
  <2> QED
    BY <1>4, <2>1, <2>2, <2>3
<1>7. CASE TransmissionComplete(n) \/ HandlingArrivedComplete(n) \/ ReceiveIntact(n)
  <2>1. NoLonger(calendar, calendar')
    BY <1>7, TransmissionCarries, HandlingCarries, ReceiveArrives
  <2>2. machineState' = machineState
    BY <1>7 DEF TransmissionComplete, HandlingArrivedComplete, ReceiveIntact
  <2> QED
    BY <1>3, <2>1, <2>2
<1>8. CASE ReceiveCorrupt(n)
  <2>1. /\ \A m, b : b \in Nat /\ Within(calendar, m, b) => Within(calendar', m, b)
        /\ \A m : Timely(calendar, m) /\ Within(calendar, m, Slack("ErrorReset"))
             => Timely(calendar', m)
    BY <1>8, CorruptKeepsPace
  <2>2. machineState' = [machineState EXCEPT ![n] = "ERROR_RESET"] /\ "ERROR_RESET" \notin Calm
    BY <1>8 DEF ReceiveCorrupt, Enter, Calm
  <2>3. ASSUME NEW m \in Node PROVE PaceOf(calendar', m, machineState'[m])
    <3>1. PaceOf(calendar, m, machineState[m])
      BY PaceOfEach
    <3>2. machineState'[m] = IF m = n THEN "ERROR_RESET" ELSE machineState[m]
      BY <1>1, <2>2
    <3> QED
      BY <2>1, <2>2, <3>1, <3>2, Lengths DEF PaceOf
  <2> QED
    BY <2>3, PaceOfEach
<1>9. CASE Shutdown(n)
  <2>1. /\ machineState[n] = "RUN" /\ machineState' = [machineState EXCEPT ![n] = "DOWN"]
        /\ calendar' = calendar
    BY <1>9 DEF Shutdown, Enter
  <2>2. PaceOf(calendar, n, "DOWN")
    BY <2>1 DEF Pace, PaceOf, Calm
  <2>3. ASSUME NEW m \in Node PROVE PaceOf(calendar, m, machineState'[m])
    <3>1. machineState'[m] = IF m = n THEN "DOWN" ELSE machineState[m]
      BY <1>1, <2>1
    <3> QED
      BY <2>2, <3>1, PaceOfEach
  <2> QED
    BY <2>1, <2>3, PaceOfEach
<1> QED
  BY <1>5, <1>6, <1>7, <1>8, <1>9, SendPace, ResetPace, NullPace DEF Step

LEMMA KeepsTimes ==
  ASSUME Next
  PROVE  txTime' = txTime
BY DEF Next, Step, ErrorResetSpWState, ErrorWaitSpWState, ReadySpWState, SendNull, ReceiveNull,
       SendFCT, ReceiveFCT, TransmitComplete, TransmissionComplete, HandlingArrivedComplete,
       ReceiveIntact, ReceiveCorrupt, ApproachLinkDisconnection, Send, Shutdown, calls

\* While errors come one at a time and only a device in RUN is shut down, the link
\* implements the abstract link that is ordered if no packet takes longer to
\* transmit than a reset takes: a packet that stays on the channel, be it because
\* its device had not noticed the error or because NotifyError missed it, arrives
\* before the next one is transmitted (SpWDevice::ApproachLinkDisconnection,
\* spw-device.cc:705-719, and the resets that follow, :592-631).
THEOREM LinkIsLossy ==
  ASSUME OneAtATime, ShutdownIn \subseteq {"RUN"}, APPROACH_TIME <= SPW_HALF_DELAY
  PROVE  Spec => LinkSpec
<1> DEFINE LinkInv == LinkTypes /\ ChainInv /\ Loaded(calendar) /\ (Short => Pace)
<1>1. Init => Abstract!Init
  <2> SUFFICES ASSUME Init PROVE Abstract!Init
    OBVIOUS
  <2>1. \A n \in Node : InTransit(n) = <<>> /\ m_queue[n] = <<>>
    BY InitMoves DEF Init
  <2>2. <<>> \o <<>> = <<>>
    BY EmptySeq, ConcatEmptySeq
  <2>3. [n \in Node |-> InTransit(n) \o m_queue[n]] = [n \in Node |-> <<>>]
    BY <2>1, <2>2
  <2>4. sent = [n \in Node |-> <<>>] /\ received = [n \in Node |-> <<>>]
    BY DEF Init
  <2>5. Short \in BOOLEAN
    BY DEF Short
  <2> QED
    BY <2>3, <2>4, <2>5 DEF Abstract!Init
<1>2. Init => LinkInv
  BY InitTypes, InitChain, InitMoves
<1>3. LinkInv /\ [Next]_vars
        => LinkInv' /\ [Abstract!Next /\ UNCHANGED Short]_Abstract!vars
  <2> SUFFICES ASSUME LinkInv, [Next]_vars
               PROVE  LinkInv' /\ [Abstract!Next /\ UNCHANGED Short]_Abstract!vars
    OBVIOUS
  <2>1. LinkTypes' /\ ChainInv'
    BY StepTypes, StepChain
  <2>2. CASE Next
    <3>1. PICK n \in Node : Step(n) \/ Send(n) \/ Shutdown(n)
      BY <2>2 DEF Next
    <3>2. Loaded(calendar') /\ LinkMove(Short)
      BY <3>1, StepMoves
    <3>3. txTime' = txTime
      BY <2>2, KeepsTimes
    <3>4. Short' = Short
      BY <3>3 DEF Short
    <3>5. Short => Pace'
      BY <2>1, <3>1, StepPace
    <3>6. [Abstract!Next /\ UNCHANGED Short]_Abstract!vars
      BY <3>2, <3>3, MoveMaps
    <3> QED
      BY <2>1, <3>2, <3>4, <3>5, <3>6
  <2>3. CASE UNCHANGED vars
    <3>1. /\ calendar' = calendar /\ sent' = sent /\ received' = received /\ m_queue' = m_queue
          /\ txTime' = txTime /\ machineState' = machineState
      BY <2>3 DEF vars
    <3>2. \A n \in Node : InTransit(n)' = InTransit(n)
      BY <3>1 DEF InTransit
    <3>3. Short' = Short /\ Pace' = Pace
      BY <3>1 DEF Short, Pace
    <3>4. UNCHANGED Abstract!vars
      BY <3>1, <3>2, <3>3 DEF Abstract!vars
    <3> QED
      BY <2>1, <3>1, <3>3, <3>4
  <2> QED
    BY <2>2, <2>3
<1> QED
  BY <1>1, <1>2, <1>3, PTL DEF Spec, LinkSpec, Abstract!Spec
=============================================================================
