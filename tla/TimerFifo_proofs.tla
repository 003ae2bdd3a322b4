-------------------------- MODULE TimerFifo_proofs --------------------------
(***************************************************************************)
(* The ring of differences is a queue of sequence numbers, wherever it     *)
(* wraps, for every capacity and whatever the differences are; and when    *)
(* calls are more than two microseconds apart every timer expires on time. *)
(***************************************************************************)
EXTENDS TimerFifo, Smallest_proofs, SequenceTheorems

USE FifoAssumption

\* Cells of the ring, MAX_UNACK_PACKETS and one that stays free.
N == MAX_UNACK_PACKETS + 1

Ring == [data : [Cell -> Timer], head : Cell, tail : Cell,
         timers_sum : 0 .. MICROS_T - 1, hw : Nat \cup {Idle}]

\* An index goes once around the ring at most.
LEMMA Wrapped ==
  ASSUME NEW a \in Nat, a < 2 * N
  PROVE  a % N = IF a < N THEN a ELSE a - N
<1>1. CASE a < N
  BY <1>1 DEF N
<1>2. CASE a >= N
  <2>1. a - N \in 0 .. N - 1 /\ a = N + (a - N)
    BY <1>2 DEF N
  <2> QED
    BY <1>2, <2>1 DEF N
<1> QED
  BY <1>1, <1>2 DEF N

LEMMA Sizes == N \in Nat /\ N > 1 /\ Cell \subseteq Nat /\ MAX_UNACK_PACKETS = N - 1
BY DEF N, Cell

LEMMA MoveCases ==
  ASSUME NEW i \in Cell
  PROVE  /\ move(i) \in Cell
         /\ move(i) = IF i = MAX_UNACK_PACKETS THEN 0 ELSE i + 1
<1>1. i + 1 \in Nat /\ i + 1 < 2 * N
  BY DEF N, Cell
<1>2. (i + 1) % N = IF i + 1 < N THEN i + 1 ELSE i + 1 - N
  BY <1>1, Wrapped, Sizes
<1> QED
  BY <1>2 DEF move, N, Cell

LEMMA SpanCases ==
  ASSUME NEW i \in Cell, NEW j \in Cell
  PROVE  /\ Span(i, j) \in Cell
         /\ Span(i, j) = IF i <= j THEN j - i ELSE j + N - i
<1>1. j + N - i \in Nat /\ j + N - i < 2 * N
  BY DEF N, Cell
<1>2. (j + N - i) % N = IF j + N - i < N THEN j + N - i ELSE j + N - i - N
  BY <1>1, Wrapped, Sizes
<1>3. Span(i, j) = (j + N - i) % N
  BY DEF Span, N, Cell
<1> QED
  BY <1>2, <1>3 DEF N, Cell

LEMMA PlaceCases ==
  ASSUME NEW q \in Ring, NEW i \in 1 .. N
  PROVE  /\ Place(q, i) \in Cell
         /\ Place(q, i) = IF q.tail + i <= N THEN q.tail + i - 1 ELSE q.tail + i - 1 - N
<1> DEFINE a == q.tail + i - 1
<1>1. q.tail \in Cell
  BY DEF Ring
<1>2. a \in Nat /\ a < 2 * N
  BY <1>1 DEF N, Cell
<1>3. Place(q, i) = a % N
  BY DEF Place, N
<1> HIDE DEF a
<1>4. a % N = IF a < N THEN a ELSE a - N
  BY <1>2, Wrapped, Sizes
<1> QED
  BY <1>1, <1>3, <1>4 DEF a, N, Cell

LEMMA MicrosType ==
  ASSUME NEW x \in Int
  PROVE  Micros(x) \in 0 .. MICROS_T - 1
BY DEF Micros

LEMMA LeftType ==
  ASSUME NEW q \in Ring
  PROVE  get_hard_timer_left_time(q) \in Nat
<1>1. q.hw \in Nat \cup {Idle}
  BY DEF Ring
<1>2. CASE q.hw > 0
  <2>1. q.hw \in Nat
    BY <1>1, <1>2 DEF Idle
  <2>2. q.hw \div GRAIN \in Nat
    BY <2>1
  <2> QED
    BY <2>2, <1>2 DEF get_hard_timer_left_time
<1> QED
  BY <1>2 DEF get_hard_timer_left_time

\* The queue of a ring is the sequence of its numbers from tail to head.
LEMMA QueueType ==
  ASSUME NEW q \in Ring
  PROVE  /\ Count(q) \in 0 .. MAX_UNACK_PACKETS
         /\ Queue(q) \in Seq(SeqNumber)
         /\ Len(Queue(q)) = Count(q)
         /\ \A i \in 1 .. Count(q) : /\ Place(q, i) \in Cell
                                     /\ Queue(q)[i] = q.data[Place(q, i)].seq_n
<1>1. Count(q) \in 0 .. MAX_UNACK_PACKETS
  BY SpanCases DEF Count, Ring, Cell
<1>2. \A i \in 1 .. Count(q) : Place(q, i) \in Cell
  BY <1>1, PlaceCases, Sizes
<1>3. \A i \in 1 .. Count(q) : q.data[Place(q, i)].seq_n \in SeqNumber
  BY <1>2 DEF Ring, Timer
<1>4. Queue(q) \in [1 .. Count(q) -> SeqNumber]
  BY <1>3 DEF Queue
<1> QED
  BY <1>1, <1>2, <1>4 DEF Queue

\* A ring is full when its queue has MAX_UNACK_PACKETS timers, and empty when
\* head meets tail.
LEMMA RoomAndEmpty ==
  ASSUME NEW q \in Ring
  PROVE  /\ is_queue_have_space(q) <=> Count(q) < MAX_UNACK_PACKETS
         /\ q.head = q.tail <=> Count(q) = 0
<1>1. q.head \in Cell /\ q.tail \in Cell
  BY DEF Ring
<1>2. move(q.head) = IF q.head = MAX_UNACK_PACKETS THEN 0 ELSE q.head + 1
  BY <1>1, MoveCases
<1>3. Count(q) = IF q.tail <= q.head THEN q.head - q.tail ELSE q.head + N - q.tail
  BY <1>1, SpanCases DEF Count
<1> QED
  BY <1>1, <1>2, <1>3 DEF is_queue_have_space, N, Cell

\* One cell further on.
LEMMA SpanNext ==
  ASSUME NEW i \in Cell, NEW j \in Cell, Span(i, j) < MAX_UNACK_PACKETS
  PROVE  Span(i, move(j)) = Span(i, j) + 1
<1>1. move(j) \in Cell /\ move(j) = IF j = MAX_UNACK_PACKETS THEN 0 ELSE j + 1
  BY MoveCases
<1>2. Span(i, j) = IF i <= j THEN j - i ELSE j + N - i
  BY SpanCases
<1>3. Span(i, move(j)) = IF i <= move(j) THEN move(j) - i ELSE move(j) + N - i
  BY <1>1, SpanCases
<1> QED
  BY <1>1, <1>2, <1>3 DEF N, Cell

\* The places of a ring are cells of their own, and the one behind the last is
\* that of head.
LEMMA PlaceIsCell ==
  ASSUME NEW q \in Ring, NEW i \in 1 .. N, NEW c \in Cell
  PROVE  Place(q, i) = c <=> Span(q.tail, c) = i - 1
<1>1. q.tail \in Cell
  BY DEF Ring
<1>2. Place(q, i) = IF q.tail + i <= N THEN q.tail + i - 1 ELSE q.tail + i - 1 - N
  BY PlaceCases
<1>3. Span(q.tail, c) = IF q.tail <= c THEN c - q.tail ELSE c + N - q.tail
  BY <1>1, SpanCases
<1> QED
  BY <1>1, <1>2, <1>3 DEF N, Cell

\* A timer written at head is the last of the queue.
LEMMA Pushed ==
  ASSUME NEW q \in Ring, NEW r \in Ring, NEW s \in SeqNumber, NEW v,
         Count(q) < MAX_UNACK_PACKETS,
         r.tail = q.tail, r.head = move(q.head),
         r.data = [q.data EXCEPT ![q.head] = [seq_n |-> s, val |-> v]]
  PROVE  Queue(r) = Append(Queue(q), s) /\ Count(r) = Count(q) + 1
<1>1. /\ q.head \in Cell /\ q.tail \in Cell /\ q.data \in [Cell -> Timer]
      /\ r.head \in Cell /\ r.tail \in Cell
  BY DEF Ring
<1>2. Count(r) = Count(q) + 1
  BY <1>1, SpanNext DEF Count
<1>3. \A i \in 1 .. Count(r) :
        /\ Place(r, i) = Place(q, i)
        /\ Place(q, i) = q.head <=> i = Count(q) + 1
  <2> TAKE i \in 1 .. Count(r)
  <2>1. i \in 1 .. N
    BY QueueType, Sizes
  <2>2. Place(r, i) = Place(q, i)
    BY DEF Place
  <2>3. Place(q, i) = q.head <=> i = Count(q) + 1
    <3>1. Place(q, i) = q.head <=> Count(q) = i - 1
      BY <1>1, <2>1, PlaceIsCell DEF Count
    <3>2. Count(q) \in Int /\ i \in Int
      BY <2>1, QueueType
    <3> QED
      BY <3>1, <3>2
  <2> QED
    BY <2>2, <2>3
<1>4. \A i \in 1 .. Count(r) : Queue(r)[i] = IF i = Count(q) + 1 THEN s ELSE Queue(q)[i]
  <2> TAKE i \in 1 .. Count(r)
  <2>1. Queue(r)[i] = r.data[Place(q, i)].seq_n /\ Place(q, i) \in Cell
    BY <1>3, QueueType
  <2>2. CASE i = Count(q) + 1
    BY <1>1, <1>3, <2>1, <2>2
  <2>3. CASE i # Count(q) + 1
    <3>1. i \in 1 .. Count(q)
      BY <1>2, <2>3, QueueType
    <3>2. Place(q, i) # q.head
      BY <1>3, <2>3
    <3> QED
      BY <1>1, <2>1, <2>3, <3>1, <3>2, QueueType
  <2> QED
    BY <2>2, <2>3
<1>5. /\ Queue(q) \in Seq(SeqNumber) /\ Len(Queue(q)) = Count(q)
      /\ Queue(r) \in Seq(SeqNumber) /\ Len(Queue(r)) = Count(r)
      /\ Count(q) \in Nat
  BY QueueType
<1>6. /\ Append(Queue(q), s) \in Seq(SeqNumber)
      /\ Len(Append(Queue(q), s)) = Count(r)
      /\ \A i \in 1 .. Count(r) : Queue(r)[i] = Append(Queue(q), s)[i]
  BY <1>2, <1>4, <1>5, AppendProperties
<1> QED
  BY <1>2, <1>5, <1>6, SeqEqual

\* Setting a timer.
LEMMA AddType ==
  ASSUME NEW q \in Ring, q.hw # Idle => Count(q) > 0, NEW s \in SeqNumber
  PROVE  LET r == add_new_timer(q, s)
         IN  /\ r \in Ring
             /\ r.hw # Idle => Count(r) > 0
             /\ Queue(r) = IF Len(Queue(q)) < MAX_UNACK_PACKETS
                           THEN Append(Queue(q), s) ELSE Queue(q)
             /\ Count(r) = IF Count(q) < MAX_UNACK_PACKETS THEN Count(q) + 1 ELSE Count(q)
<1> DEFINE val == Micros(DURATION - get_hard_timer_left_time(q) - q.timers_sum)
           pushed(v) == [q EXCEPT !.data[q.head] = [seq_n |-> s, val |-> v],
                                  !.head = move(@)]
           r == add_new_timer(q, s)
<1>1. /\ q.head \in Cell /\ q.tail \in Cell /\ q.data \in [Cell -> Timer]
      /\ q.timers_sum \in 0 .. MICROS_T - 1 /\ q.hw \in Nat \cup {Idle}
  BY DEF Ring
<1>2. val \in 0 .. MICROS_T - 1
  BY <1>1, LeftType, MicrosType
<1>3. \A v \in 0 .. MICROS_T - 1 : pushed(v) \in Ring
  BY <1>1, MoveCases DEF Ring, Timer
<1>4. CASE ~is_queue_have_space(q)
  <2>1. r = q
    BY <1>4 DEF add_new_timer
  <2> QED
    BY <1>4, <2>1, RoomAndEmpty, QueueType
<1>5. CASE is_queue_have_space(q) /\ q.head = q.tail
  <2>1. r = [pushed(DURATION) EXCEPT !.hw = DURATION * GRAIN]
    BY <1>5 DEF add_new_timer, Activated
  <2>2. pushed(DURATION) \in Ring /\ DURATION * GRAIN \in Nat
    <3>1. DURATION \in 0 .. MICROS_T - 1 /\ DURATION * GRAIN \in Nat
      OBVIOUS
    <3> QED
      BY <1>3, <3>1
  <2>3. r \in Ring
    BY <2>1, <2>2 DEF Ring
  <2>4. /\ r.tail = q.tail /\ r.head = move(q.head)
        /\ r.data = [q.data EXCEPT ![q.head] = [seq_n |-> s, val |-> DURATION]]
    BY <2>1 DEF Ring
  <2>5. Queue(r) = Append(Queue(q), s) /\ Count(r) = Count(q) + 1
    BY <1>5, <2>3, <2>4, Pushed, RoomAndEmpty
  <2> QED
    BY <1>5, <2>3, <2>5, RoomAndEmpty, QueueType
<1>6. CASE is_queue_have_space(q) /\ q.head # q.tail
  <2>1. r = [pushed(val) EXCEPT !.timers_sum = Micros(@ + val)]
    BY <1>6 DEF add_new_timer
  <2>2. pushed(val) \in Ring
    BY <1>2, <1>3
  <2>3. Micros(pushed(val).timers_sum + val) \in 0 .. MICROS_T - 1
    BY <1>2, <2>2, MicrosType DEF Ring
  <2>4. r \in Ring
    BY <2>1, <2>2, <2>3 DEF Ring
  <2>5. /\ r.tail = q.tail /\ r.head = move(q.head)
        /\ r.data = [q.data EXCEPT ![q.head] = [seq_n |-> s, val |-> val]]
    BY <2>1 DEF Ring
  <2>6. Queue(r) = Append(Queue(q), s) /\ Count(r) = Count(q) + 1
    BY <1>6, <2>4, <2>5, Pushed, RoomAndEmpty
  <2> QED
    BY <1>6, <2>4, <2>6, RoomAndEmpty, QueueType
<1> QED
  BY <1>4, <1>5, <1>6

\* The next place is the next cell.
LEMMA NextPlace ==
  ASSUME NEW q \in Ring, NEW i \in 1 .. MAX_UNACK_PACKETS
  PROVE  move(Place(q, i)) = Place(q, i + 1)
<1>1. i \in 1 .. N /\ i + 1 \in 1 .. N /\ q.tail \in Cell
  BY DEF N, Ring
<1>2. /\ Place(q, i) \in Cell
      /\ Place(q, i) = IF q.tail + i <= N THEN q.tail + i - 1 ELSE q.tail + i - 1 - N
  BY <1>1, PlaceCases
<1>3. Place(q, i + 1) = IF q.tail + i + 1 <= N THEN q.tail + i ELSE q.tail + i - N
  <2> DEFINE k == i + 1
  <2>1. Place(q, k) = IF q.tail + k <= N THEN q.tail + k - 1 ELSE q.tail + k - 1 - N
    BY <1>1, PlaceCases
  <2> QED
    BY <1>1, <2>1 DEF Cell, N
<1>4. move(Place(q, i)) =
        IF Place(q, i) = MAX_UNACK_PACKETS THEN 0 ELSE Place(q, i) + 1
  BY <1>2, MoveCases
<1> QED
  BY <1>1, <1>2, <1>3, <1>4 DEF Cell, N

\* How far it is from one place to another.
LEMMA SpanOfPlaces ==
  ASSUME NEW q \in Ring, NEW i \in 1 .. N, NEW k \in 1 .. N
  PROVE  Span(Place(q, i), Place(q, k)) = IF i <= k THEN k - i ELSE N + k - i
<1> DEFINE a == Place(q, i)
           b == Place(q, k)
<1>1. q.tail \in Cell
  BY DEF Ring
<1>2. a \in Cell /\ a = IF q.tail + i <= N THEN q.tail + i - 1 ELSE q.tail + i - 1 - N
  BY PlaceCases
<1>3. b \in Cell /\ b = IF q.tail + k <= N THEN q.tail + k - 1 ELSE q.tail + k - 1 - N
  BY PlaceCases
<1> HIDE DEF a, b
<1>4. Span(a, b) = IF a <= b THEN b - a ELSE b + N - a
  BY <1>2, <1>3, SpanCases
<1>5. Span(a, b) = IF i <= k THEN k - i ELSE N + k - i
  BY <1>1, <1>2, <1>3, <1>4 DEF Cell, N
<1> QED
  BY <1>5 DEF a, b

\* A ring whose tail moves on loses the first of its queue.
LEMMA Popped ==
  ASSUME NEW q \in Ring, NEW r \in Ring, Count(q) > 0,
         r.tail = move(q.tail), r.head = q.head,
         \A c \in Cell : r.data[c].seq_n = q.data[c].seq_n
  PROVE  Queue(r) = Tail(Queue(q)) /\ Count(r) = Count(q) - 1
<1>1. q.head \in Cell /\ q.tail \in Cell /\ r.tail \in Cell
  BY DEF Ring
<1>2. Count(r) = Count(q) - 1
  <2>1. r.tail = IF q.tail = MAX_UNACK_PACKETS THEN 0 ELSE q.tail + 1
    BY <1>1, MoveCases
  <2>2. Count(q) = IF q.tail <= q.head THEN q.head - q.tail ELSE q.head + N - q.tail
    BY <1>1, SpanCases DEF Count
  <2>3. Count(r) = IF r.tail <= q.head THEN q.head - r.tail ELSE q.head + N - r.tail
    BY <1>1, SpanCases DEF Count
  <2> QED
    BY <1>1, <2>1, <2>2, <2>3 DEF Cell, N
<1>3. /\ Queue(q) \in Seq(SeqNumber) /\ Len(Queue(q)) = Count(q)
      /\ Queue(r) \in Seq(SeqNumber) /\ Len(Queue(r)) = Count(r)
      /\ Count(q) \in 0 .. MAX_UNACK_PACKETS
  BY QueueType
<1>4. \A i \in 1 .. Count(r) : Queue(r)[i] = Queue(q)[i + 1]
  <2> TAKE i \in 1 .. Count(r)
  <2>1. i \in 1 .. MAX_UNACK_PACKETS /\ i \in 1 .. N /\ i + 1 \in 1 .. Count(q)
    BY <1>2, <1>3 DEF N
  <2>2. Place(r, i) = Place(q, i + 1)
    <3>1. q.tail = Place(q, 1)
      BY <1>1, PlaceCases, Sizes DEF Cell
    <3>2. Place(r, i) = IF r.tail + i <= N THEN r.tail + i - 1 ELSE r.tail + i - 1 - N
      BY <2>1, PlaceCases
    <3>3. Place(q, i) = IF q.tail + i <= N THEN q.tail + i - 1 ELSE q.tail + i - 1 - N
      BY <2>1, PlaceCases
    <3>4. Place(q, i) \in Cell
      BY <2>1, PlaceCases
    <3>5. Place(r, i) = move(Place(q, i))
      BY <1>1, <2>1, <3>2, <3>3, <3>4, MoveCases DEF Cell, N
    <3> QED
      BY <2>1, <3>5, NextPlace
  <2>3. Queue(r)[i] = r.data[Place(r, i)].seq_n /\ Place(r, i) \in Cell
    BY QueueType
  <2>4. Queue(q)[i + 1] = q.data[Place(q, i + 1)].seq_n
    BY <2>1, QueueType
  <2> QED
    BY <2>2, <2>3, <2>4
<1>5. Queue(q) # <<>>
  BY <1>3
<1>6. /\ Tail(Queue(q)) \in Seq(SeqNumber)
      /\ Len(Tail(Queue(q))) = Count(r)
      /\ \A i \in 1 .. Count(r) : Queue(r)[i] = Tail(Queue(q))[i]
  BY <1>2, <1>3, <1>4, <1>5, HeadTailProperties
<1> QED
  BY <1>2, <1>3, <1>6, SeqEqual

\* Taking the timer at tail off the ring.
LEMMA PopTailType ==
  ASSUME NEW q \in Ring, Count(q) > 0
  PROVE  LET p == pop_tail(q)
         IN  /\ p.fifo \in Ring
             /\ p.fifo.hw = q.hw
             /\ p.to_set \in 0 .. MICROS_T - 1
             /\ p.to_set # 0 => Count(p.fifo) > 0
             /\ Queue(p.fifo) = Tail(Queue(q))
             /\ Count(p.fifo) = Count(q) - 1
<1> DEFINE next == move(q.tail)
           val == Micros(q.data[next].val + get_hard_timer_left_time(q))
           p == pop_tail(q)
<1>1. /\ q.head \in Cell /\ q.tail \in Cell /\ q.data \in [Cell -> Timer]
      /\ q.timers_sum \in 0 .. MICROS_T - 1 /\ next \in Cell
  BY MoveCases DEF Ring
<1>2. q.data[next].val \in 0 .. MICROS_T - 1
  BY <1>1 DEF Timer
<1>3. val \in 0 .. MICROS_T - 1
  BY <1>2, LeftType, MicrosType
<1>4. Micros(q.timers_sum - q.data[next].val) \in 0 .. MICROS_T - 1
  BY <1>1, <1>2, MicrosType
<1>5. CASE next = q.head
  <2>1. p = [fifo |-> [q EXCEPT !.tail = next], to_set |-> 0]
    BY <1>5 DEF pop_tail
  <2>2. /\ p.fifo \in Ring /\ p.fifo.tail = next /\ p.fifo.head = q.head
        /\ p.fifo.data = q.data /\ p.fifo.hw = q.hw /\ p.to_set = 0
    BY <1>1, <2>1 DEF Ring
  <2>3. Queue(p.fifo) = Tail(Queue(q)) /\ Count(p.fifo) = Count(q) - 1
    BY <2>2, Popped
  <2> QED
    BY <2>2, <2>3
<1>6. CASE next # q.head
  <2>1. p = [fifo |-> [q EXCEPT !.tail = next, !.data[next].val = val,
                                !.timers_sum = Micros(@ - q.data[next].val)],
             to_set |-> val]
    BY <1>6 DEF pop_tail
  <2>2. [q.data EXCEPT ![next].val = val] \in [Cell -> Timer]
    BY <1>1, <1>3 DEF Timer
  <2>3. /\ p.fifo.tail = next /\ p.fifo.head = q.head
        /\ p.fifo.data = [q.data EXCEPT ![next].val = val] /\ p.fifo.hw = q.hw
        /\ p.fifo \in Ring /\ p.to_set = val
    <3> DEFINE d == [q.data EXCEPT ![next].val = val]
               sum == Micros(q.timers_sum - q.data[next].val)
               f == [q EXCEPT !.tail = next, !.data = d, !.timers_sum = sum]
    <3>1. p = [fifo |-> f, to_set |-> val]
      BY <1>1, <2>1 DEF Ring, Timer
    <3>2. d \in [Cell -> Timer] /\ sum \in 0 .. MICROS_T - 1
      BY <1>4, <2>2
    <3> HIDE DEF d, sum, val, next
    <3>3. /\ f \in Ring /\ f.tail = next /\ f.head = q.head /\ f.data = d
          /\ f.hw = q.hw
      BY <1>1, <3>2 DEF Ring
    <3> HIDE DEF f
    <3> QED
      BY <3>1, <3>3 DEF d, next, val
  <2>4. \A c \in Cell : p.fifo.data[c].seq_n = q.data[c].seq_n
    BY <1>1, <2>3 DEF Timer
  <2>5. Queue(p.fifo) = Tail(Queue(q)) /\ Count(p.fifo) = Count(q) - 1
    BY <2>3, <2>4, Popped
  <2>6. Count(p.fifo) # 0
    BY <1>6, <2>3, RoomAndEmpty
  <2>7. Count(p.fifo) > 0
    BY <2>3, <2>6, QueueType
  <2> QED
    BY <1>3, <2>3, <2>5, <2>7
<1> QED
  BY <1>5, <1>6

\* A sequence without its element in place i.
Without(s, i) == SubSeq(s, 1, i - 1) \o SubSeq(s, i + 1, Len(s))

LEMMA WithoutType ==
  ASSUME NEW S, NEW s \in Seq(S), NEW i \in 1 .. Len(s)
  PROVE  /\ Without(s, i) \in Seq(S)
         /\ Len(Without(s, i)) = Len(s) - 1
         /\ \A k \in 1 .. Len(s) - 1 :
              Without(s, i)[k] = IF k < i THEN s[k] ELSE s[k + 1]
<1> DEFINE a == SubSeq(s, 1, i - 1)
           b == SubSeq(s, i + 1, Len(s))
<1>1. Len(s) \in Nat /\ \A k \in 1 .. Len(s) : s[k] \in S
  BY LenProperties
<1>2. /\ a \in Seq(S)
      /\ Len(a) = i - 1
      /\ \A k \in 1 .. i - 1 : a[k] = s[k]
  <2>1. \A k \in 1 .. i - 1 : s[k] \in S
    BY <1>1
  <2> QED
    BY <1>1, <2>1, SubSeqProperties
<1>3. /\ b \in Seq(S)
      /\ Len(b) = Len(s) - i
      /\ \A k \in 1 .. Len(s) - i : b[k] = s[i + k]
  <2>1. \A k \in i + 1 .. Len(s) : s[k] \in S
    BY <1>1
  <2> DEFINE m == i + 1
  <2>2. m \in Int /\ Len(s) \in Int
    BY <1>1
  <2>3. /\ SubSeq(s, m, Len(s)) \in Seq(S)
        /\ Len(SubSeq(s, m, Len(s))) = IF m <= Len(s) THEN Len(s) - m + 1 ELSE 0
        /\ \A k \in 1 .. Len(s) - m + 1 : SubSeq(s, m, Len(s))[k] = s[m + k - 1]
    BY <2>1, <2>2, SubSeqProperties
  <2>4. \A k \in 1 .. Len(s) - i : m + k - 1 = i + k
    BY <1>1
  <2> QED
    BY <1>1, <2>3, <2>4
<1> HIDE DEF a, b
<1>4. /\ a \o b \in Seq(S)
      /\ Len(a \o b) = Len(a) + Len(b)
      /\ \A k \in 1 .. Len(a) + Len(b) :
           (a \o b)[k] = IF k <= Len(a) THEN a[k] ELSE b[k - Len(a)]
  BY <1>2, <1>3, ConcatProperties
<1>5. Without(s, i) = a \o b
  BY DEF Without, a, b
<1>6. ASSUME NEW k \in 1 .. Len(s) - 1
      PROVE  (a \o b)[k] = IF k < i THEN s[k] ELSE s[k + 1]
  <2>1. CASE k < i
    BY <1>1, <1>2, <1>3, <1>4, <2>1
  <2>2. CASE ~(k < i)
    <3>0. k >= i
      BY <1>1, <2>2
    <3>1. k - Len(a) \in 1 .. Len(s) - i /\ i + (k - Len(a)) = k + 1
      BY <1>1, <1>2, <3>0
    <3> DEFINE j == k - Len(a)
    <3>2. (a \o b)[k] = b[j]
      BY <1>1, <1>2, <1>3, <1>4, <3>0, SMTT(20)
    <3>3. b[j] = s[i + j]
      BY <1>3, <3>1
    <3> QED
      BY <2>2, <3>1, <3>2, <3>3
  <2> QED
    BY <2>1, <2>2
<1>7. Len(a \o b) = Len(s) - 1
  BY <1>1, <1>2, <1>3, <1>4
<1> QED
  BY <1>4, <1>5, <1>6, <1>7

\* Taking a timer behind the first off the ring: the cells behind it move down.
LEMMA PopElsewhereType ==
  ASSUME NEW q \in Ring, NEW i \in 2 .. Count(q)
  PROVE  LET r == pop_elsewhere(q, i)
         IN  /\ r \in Ring
             /\ r.hw = q.hw
             /\ Queue(r) = Without(Queue(q), i)
             /\ Count(r) = Count(q) - 1
<1> DEFINE t == Place(q, i)
           last == Place(q, Count(q))
           moved == [c \in Cell |-> IF Span(t, c) < Span(t, last)
                                    THEN q.data[move(c)] ELSE q.data[c]]
           sum == Micros(q.timers_sum - q.data[t].val)
           val == Micros(moved[t].val + q.data[t].val)
           r == pop_elsewhere(q, i)
<1>1. /\ q.head \in Cell /\ q.tail \in Cell /\ q.data \in [Cell -> Timer]
      /\ q.timers_sum \in 0 .. MICROS_T - 1
  BY DEF Ring
<1>2. Count(q) \in 0 .. MAX_UNACK_PACKETS
  BY QueueType
<1>3. i \in 1 .. N /\ Count(q) \in 1 .. N /\ i <= Count(q) /\ i > 1
  BY <1>2 DEF N
<1>4. t \in Cell /\ last \in Cell
  BY <1>3, PlaceCases
<1>5. moved \in [Cell -> Timer]
  BY <1>1, MoveCases
<1>6. sum \in 0 .. MICROS_T - 1 /\ val \in 0 .. MICROS_T - 1
  <2>1. q.data[t].val \in 0 .. MICROS_T - 1 /\ moved[t].val \in 0 .. MICROS_T - 1
    BY <1>1, <1>4, <1>5 DEF Timer
  <2> HIDE DEF t, moved
  <2> QED
    BY <1>1, <2>1, MicrosType
\* What is needed of the two cases: the cells keep their timers or move down.
<1>7. /\ r \in Ring /\ r.hw = q.hw /\ r.head = last /\ r.tail = q.tail
      /\ \A c \in Cell : r.data[c].seq_n = IF Span(t, c) < Span(t, last)
                                           THEN q.data[move(c)].seq_n
                                           ELSE q.data[c].seq_n
  <2>1. CASE t = last
    <3>1. r = [q EXCEPT !.head = last, !.timers_sum = sum]
      BY <2>1 DEF pop_elsewhere
    <3>2. Span(t, last) = 0
      BY <1>4, <2>1, SpanCases DEF Cell
    <3>3. \A c \in Cell : ~(Span(t, c) < Span(t, last))
      BY <1>4, <3>2, SpanCases DEF Cell
    <3> HIDE DEF t, last, sum, r
    <3>4. r \in Ring /\ r.hw = q.hw /\ r.head = last /\ r.tail = q.tail /\ r.data = q.data
      BY <1>1, <1>4, <1>6, <3>1 DEF Ring
    <3> QED
      BY <3>3, <3>4
  <2>2. CASE t # last
    <3> DEFINE d == [moved EXCEPT ![t].val = val]
    <3>1. r = [q EXCEPT !.head = last, !.data = d]
      BY <2>2 DEF pop_elsewhere
    <3>2. d \in [Cell -> Timer]
      BY <1>4, <1>5, <1>6 DEF Timer
    <3>3. \A c \in Cell : d[c].seq_n = moved[c].seq_n
      BY <1>4, <1>5 DEF Timer
    <3>4. \A c \in Cell : moved[c] = IF Span(t, c) < Span(t, last)
                                     THEN q.data[move(c)] ELSE q.data[c]
      OBVIOUS
    <3> HIDE DEF t, last, moved, d, r
    <3>5. r \in Ring /\ r.hw = q.hw /\ r.head = last /\ r.tail = q.tail /\ r.data = d
      BY <1>1, <1>4, <3>1, <3>2 DEF Ring
    <3> QED
      BY <3>3, <3>4, <3>5
  <2> QED
    BY <2>1, <2>2
<1> HIDE DEF r, moved, sum, val
<1>8. Count(r) = Count(q) - 1
  BY <1>1, <1>3, <1>4, <1>7, PlaceIsCell DEF Count
<1>9. ASSUME NEW k \in 1 .. Count(r)
      PROVE  Queue(r)[k] = IF k < i THEN Queue(q)[k] ELSE Queue(q)[k + 1]
  <2> DEFINE c == Place(q, k)
  <2>1. /\ k \in 1 .. N /\ k \in 1 .. MAX_UNACK_PACKETS /\ k \in 1 .. Count(q)
        /\ k + 1 \in 1 .. Count(q)
    BY <1>2, <1>8 DEF N
  <2>2. Place(r, k) = c /\ c \in Cell
    BY <1>7, <2>1, PlaceCases DEF Place
  <2>3. Queue(r)[k] = r.data[c].seq_n
    BY <1>7, <2>2, QueueType
  <2>4. /\ Queue(q)[k] = q.data[c].seq_n
        /\ Queue(q)[k + 1] = q.data[Place(q, k + 1)].seq_n
    BY <2>1, QueueType
  <2>5. move(c) = Place(q, k + 1)
    BY <2>1, NextPlace
  <2>6. /\ Span(t, c) = IF i <= k THEN k - i ELSE N + k - i
        /\ Span(t, last) = Count(q) - i
    BY <1>3, <2>1, SpanOfPlaces
  <2>7. Span(t, c) < Span(t, last) <=> ~(k < i)
    BY <1>2, <1>3, <1>8, <2>1, <2>6 DEF N
  <2> QED
    BY <1>7, <2>2, <2>3, <2>4, <2>5, <2>7
<1>10. /\ Queue(q) \in Seq(SeqNumber) /\ Len(Queue(q)) = Count(q)
       /\ Queue(r) \in Seq(SeqNumber) /\ Len(Queue(r)) = Count(r)
  BY <1>7, QueueType
<1>11. /\ Without(Queue(q), i) \in Seq(SeqNumber)
       /\ Len(Without(Queue(q), i)) = Count(r)
       /\ \A k \in 1 .. Count(r) : Queue(r)[k] = Without(Queue(q), i)[k]
  <2>1. i \in 1 .. Len(Queue(q))
    BY <1>3, <1>10
  <2>2. /\ Without(Queue(q), i) \in Seq(SeqNumber)
        /\ Len(Without(Queue(q), i)) = Count(q) - 1
        /\ \A k \in 1 .. Count(q) - 1 :
             Without(Queue(q), i)[k] = IF k < i THEN Queue(q)[k] ELSE Queue(q)[k + 1]
    <3> DEFINE w == Queue(q)
    <3>1. w \in Seq(SeqNumber) /\ Len(w) = Count(q) /\ i \in 1 .. Len(w)
      BY <1>10, <2>1
    <3> HIDE DEF w
    <3>2. /\ Without(w, i) \in Seq(SeqNumber)
          /\ Len(Without(w, i)) = Len(w) - 1
          /\ \A k \in 1 .. Len(w) - 1 : Without(w, i)[k] = IF k < i THEN w[k] ELSE w[k + 1]
      BY <3>1, WithoutType
    <3> QED
      BY <3>1, <3>2 DEF w
  <2> QED
    BY <1>8, <1>9, <2>2
<1>12. Queue(r) = Without(Queue(q), i)
  BY <1>10, <1>11, SeqEqual
<1> QED
  BY <1>7, <1>8, <1>12 DEF r

\* The place cancel_timer takes a timer out of is the first that s has.
LEMMA FirstPlace ==
  ASSUME NEW q \in Ring, NEW s, Places(q, s) # {}
  PROVE  /\ Min(Places(q, s)) \in 1 .. Count(q)
         /\ Queue(q)[Min(Places(q, s))] = s
         /\ \A j \in 1 .. Min(Places(q, s)) - 1 : Queue(q)[j] # s
<1>1. Places(q, s) \subseteq Nat /\ Places(q, s) \subseteq 1 .. Count(q)
  BY QueueType DEF Places
<1>2. PICK m \in Places(q, s) : \A j \in Places(q, s) : m <= j
  BY <1>1, Smallest
<1>3. Min(Places(q, s)) \in Places(q, s) /\ \A j \in Places(q, s) : Min(Places(q, s)) <= j
  BY <1>2 DEF Min
<1> DEFINE m0 == Min(Places(q, s))
<1> HIDE DEF m0
<1>4. m0 \in 1 .. Count(q) /\ Queue(q)[m0] = s /\ \A j \in Places(q, s) : m0 <= j
  BY <1>1, <1>3 DEF Places, m0
<1>5. Count(q) \in Nat
  BY QueueType
<1>6. ASSUME NEW j \in 1 .. m0 - 1, Queue(q)[j] = s
      PROVE  FALSE
  <2>1. j \in 1 .. Count(q) /\ j < m0
    BY <1>4, <1>5
  <2>2. j \in Places(q, s)
    BY <1>6, <2>1 DEF Places
  <2> QED
    BY <1>4, <2>1, <2>2
<1> QED
  BY <1>4, <1>6 DEF m0

\* Without its first element a sequence is its tail.
LEMMA WithoutFirst ==
  ASSUME NEW S, NEW s \in Seq(S), Len(s) > 0
  PROVE  Without(s, 1) = Tail(s)
<1>1. /\ s # <<>> /\ 1 \in 1 .. Len(s) /\ Len(s) \in Nat
  BY LenProperties
<1>2. /\ Without(s, 1) \in Seq(S) /\ Len(Without(s, 1)) = Len(s) - 1
      /\ \A k \in 1 .. Len(s) - 1 : Without(s, 1)[k] = s[k + 1]
  <2>1. /\ Without(s, 1) \in Seq(S) /\ Len(Without(s, 1)) = Len(s) - 1
        /\ \A k \in 1 .. Len(s) - 1 :
             Without(s, 1)[k] = IF k < 1 THEN s[k] ELSE s[k + 1]
    <3> HIDE FifoAssumption
    <3> QED
      BY <1>1, WithoutType, Zenon
  <2>2. ASSUME NEW k \in 1 .. Len(s) - 1
        PROVE  Without(s, 1)[k] = s[k + 1]
    <3>1. ~(k < 1)
      BY <1>1
    <3> QED
      BY <2>1, <3>1, Zenon
  <2> QED
    BY <2>1, <2>2, Zenon
<1>3. /\ Tail(s) \in Seq(S) /\ Len(Tail(s)) = Len(s) - 1
      /\ \A k \in 1 .. Len(s) - 1 : Tail(s)[k] = s[k + 1]
  BY <1>1, HeadTailProperties
<1> QED
  BY <1>2, <1>3, SeqEqual

\* Starting the hardware timer touches nothing else.
LEMMA ActivatedType ==
  ASSUME NEW q \in Ring, NEW duration \in 0 .. MICROS_T - 1,
         duration # 0 \/ q.hw # Idle => Count(q) > 0
  PROVE  LET r == Activated(q, duration)
         IN  /\ r \in Ring
             /\ r.hw # Idle => Count(r) > 0
             /\ Queue(r) = Queue(q)
             /\ Count(r) = Count(q)
<1> DEFINE r == Activated(q, duration)
<1>1. duration * GRAIN \in Nat
  OBVIOUS
<1>2. CASE duration = 0
  BY <1>2 DEF Activated
<1>3. CASE duration # 0
  <2>1. r = [q EXCEPT !.hw = duration * GRAIN]
    BY <1>3 DEF Activated
  <2>2. /\ r \in Ring /\ r.data = q.data /\ r.head = q.head /\ r.tail = q.tail
    BY <1>1, <2>1 DEF Ring
  <2> HIDE DEF r
  <2>3. Count(r) = Count(q)
    BY <2>2 DEF Count
  <2>4. Queue(r) = Queue(q)
    BY <2>2, <2>3 DEF Queue, Place
  <2> QED
    BY <1>3, <2>2, <2>3, <2>4 DEF r
<1> QED
  BY <1>2, <1>3

\* A ring whose hardware timer is stopped.
LEMMA StoppedType ==
  ASSUME NEW q \in Ring
  PROVE  LET r == [q EXCEPT !.hw = Idle]
         IN  r \in Ring /\ r.hw = Idle /\ Queue(r) = Queue(q) /\ Count(r) = Count(q)
<1> DEFINE r == [q EXCEPT !.hw = Idle]
<1>1. /\ r \in Ring /\ r.hw = Idle /\ r.data = q.data /\ r.head = q.head /\ r.tail = q.tail
  BY DEF Ring
<1> HIDE DEF r
<1>2. Count(r) = Count(q)
  BY <1>1 DEF Count
<1>3. Queue(r) = Queue(q)
  BY <1>1, <1>2 DEF Queue, Place
<1> QED
  BY <1>1, <1>2, <1>3 DEF r

\* Cancelling a timer.
LEMMA CancelType ==
  ASSUME NEW q \in Ring, q.hw # Idle => Count(q) > 0, NEW s
  PROVE  LET r == cancel_timer(q, s)
             i == Min(Places(q, s))
         IN  /\ r \in Ring
             /\ r.hw # Idle => Count(r) > 0
             /\ Queue(r) = IF Places(q, s) = {} THEN Queue(q) ELSE Without(Queue(q), i)
             /\ Count(r) = IF Places(q, s) = {} THEN Count(q) ELSE Count(q) - 1
<1> DEFINE i == Min(Places(q, s))
           p == pop_tail(q)
           stopped == [p.fifo EXCEPT !.hw = Idle]
           r == cancel_timer(q, s)
<1>1. CASE Places(q, s) = {}
  BY <1>1 DEF cancel_timer
<1>2. CASE Places(q, s) # {} /\ i = 1
  <2>1. r = Activated(stopped, p.to_set)
    BY <1>2 DEF cancel_timer
  <2>2. Count(q) > 0
    BY <1>2, FirstPlace, QueueType
  <2>3. /\ p.fifo \in Ring /\ p.to_set \in 0 .. MICROS_T - 1
        /\ p.to_set # 0 => Count(p.fifo) > 0
        /\ Queue(p.fifo) = Tail(Queue(q)) /\ Count(p.fifo) = Count(q) - 1
    BY <2>2, PopTailType
  <2>4. /\ stopped \in Ring /\ stopped.hw = Idle
        /\ Queue(stopped) = Queue(p.fifo) /\ Count(stopped) = Count(p.fifo)
    BY <2>3, StoppedType
  <2> HIDE DEF stopped, p, r
  <2>5. /\ r \in Ring
        /\ r.hw # Idle => Count(r) > 0
        /\ Queue(r) = Queue(stopped) /\ Count(r) = Count(stopped)
    BY <2>1, <2>3, <2>4, ActivatedType
  <2>6. Without(Queue(q), 1) = Tail(Queue(q))
    BY <2>2, WithoutFirst, QueueType
  <2> QED
    BY <1>2, <2>3, <2>4, <2>5, <2>6 DEF r
<1>3. CASE Places(q, s) # {} /\ i # 1
  <2>1. r = pop_elsewhere(q, i)
    BY <1>3 DEF cancel_timer
  <2>2. i \in 2 .. Count(q) /\ Count(q) \in Nat
    BY <1>3, FirstPlace, QueueType
  <2> HIDE DEF i
  <2>3. /\ r \in Ring /\ r.hw = q.hw
        /\ Queue(r) = Without(Queue(q), i) /\ Count(r) = Count(q) - 1
    BY <2>1, <2>2, PopElsewhereType
  <2> HIDE DEF r
  <2> QED
    BY <1>3, <2>2, <2>3 DEF r, i
<1> QED
  BY <1>1, <1>2, <1>3

\* The interrupt.
LEMMA InterruptType ==
  ASSUME NEW q \in Ring, Count(q) > 0
  PROVE  LET r == Interrupted(q)
         IN  /\ r \in Ring
             /\ r.hw # Idle => Count(r) > 0
             /\ Queue(r) = Tail(Queue(q))
             /\ Count(r) = Count(q) - 1
<1> DEFINE fired == [q EXCEPT !.hw = Idle]
           p == pop_tail(fired)
           r == Interrupted(q)
<1>1. /\ fired \in Ring /\ fired.hw = Idle /\ Queue(fired) = Queue(q)
      /\ Count(fired) = Count(q)
  BY StoppedType
<1>2. r = Activated(p.fifo, p.to_set)
  BY DEF Interrupted
<1> HIDE DEF fired, r
<1>3. /\ p.fifo \in Ring /\ p.to_set \in 0 .. MICROS_T - 1 /\ p.fifo.hw = Idle
      /\ p.to_set # 0 => Count(p.fifo) > 0
      /\ Queue(p.fifo) = Tail(Queue(q)) /\ Count(p.fifo) = Count(q) - 1
  BY <1>1, PopTailType
<1> HIDE DEF p
<1>4. /\ r \in Ring
      /\ r.hw # Idle => Count(r) > 0
      /\ Queue(r) = Queue(p.fifo) /\ Count(r) = Count(p.fifo)
  BY <1>2, <1>3, ActivatedType
<1> QED
  BY <1>3, <1>4 DEF r

-----------------------------------------------------------------------------
(***************************************************************************)
(* The steps.                                                              *)
(***************************************************************************)

Watch == [age : Nat, slips : 0 .. MAX_SLIPS]

\* The hardware timer runs only for a timer that waits.
FifoInv == TypeOK /\ (fifo.hw # Idle => Count(fifo) > 0)

\* A sequence of timers and the history of a timer set behind them.
LEMMA WatchedType ==
  ASSUME NEW w \in Seq(Watch)
  PROVE  /\ Watched(w) \in Seq(Watch)
         /\ Len(Watched(w)) = IF Len(w) < MAX_UNACK_PACKETS THEN Len(w) + 1 ELSE Len(w)
<1>1. [age |-> 0, slips |-> 0] \in Watch
  BY DEF Watch
<1> QED
  BY <1>1, AppendProperties DEF Watched

LEMMA UnwatchedType ==
  ASSUME NEW w \in Seq(Watch), NEW s, fifo \in Ring, Len(w) = Count(fifo),
         \A i \in 1 .. Len(w) : w[i].slips < MAX_SLIPS
  PROVE  /\ Unwatched(w, s) \in Seq(Watch)
         /\ Len(Unwatched(w, s)) =
              IF Places(fifo, s) = {} THEN Count(fifo) ELSE Count(fifo) - 1
<1> DEFINE P == Places(fifo, s)
           slip(v) == IF 1 \in P THEN [v EXCEPT !.slips = @ + 1] ELSE v
           u == [i \in 1 .. Len(w) - 1 |-> slip(IF i < Min(P) THEN w[i] ELSE w[i + 1])]
<1>1. CASE P = {}
  BY <1>1 DEF Unwatched
<1>2. CASE P # {}
  <2>1. Unwatched(w, s) = u
    BY <1>2 DEF Unwatched
  <2>2. Len(w) \in Nat /\ Len(w) > 0
    <3>1. Min(P) \in 1 .. Count(fifo)
      BY <1>2, FirstPlace
    <3> QED
      BY <3>1, QueueType
  <2>3. \A i \in 1 .. Len(w) : w[i] \in Watch /\ slip(w[i]) \in Watch
    <3> TAKE i \in 1 .. Len(w)
    <3>1. w[i] \in Watch /\ w[i].slips < MAX_SLIPS
      BY LenProperties
    <3>2. w[i].slips + 1 \in 0 .. MAX_SLIPS
      BY <3>1 DEF Watch
    <3>3. [w[i] EXCEPT !.slips = @ + 1] \in Watch
      BY <3>1, <3>2 DEF Watch
    <3> QED
      BY <3>1, <3>3
  <2>4. \A i \in 1 .. Len(w) - 1 : u[i] \in Watch
    <3> TAKE i \in 1 .. Len(w) - 1
    <3>1. i \in 1 .. Len(w) /\ i + 1 \in 1 .. Len(w)
      BY <2>2
    <3>2. u[i] = slip(IF i < Min(P) THEN w[i] ELSE w[i + 1])
      OBVIOUS
    <3> HIDE DEF u, slip
    <3> QED
      BY <2>3, <3>1, <3>2
  <2>5. DOMAIN u = 1 .. Len(w) - 1 /\ u = [i \in 1 .. Len(w) - 1 |-> u[i]]
    OBVIOUS
  <2> HIDE DEF u
  <2>6. u \in Seq(Watch) /\ Len(u) = Len(w) - 1
    <3>1. u \in [1 .. Len(w) - 1 -> Watch]
      BY <2>4, <2>5
    <3> QED
      BY <2>2, <3>1
  <2> QED
    BY <1>2, <2>1, <2>6
<1> QED
  BY <1>1, <1>2

LEMMA InitFifo == Init => FifoInv /\ Queue(fifo) = <<>> /\ call = <<>>
<1> SUFFICES ASSUME Init PROVE FifoInv /\ Queue(fifo) = <<>> /\ call = <<>>
  OBVIOUS
<1>1. PICK s \in SeqNumber :
        fifo = [data |-> [c \in Cell |-> [seq_n |-> s, val |-> 0]], head |-> 0,
                tail |-> 0, timers_sum |-> 0, hw |-> Idle]
  BY DEF Init
<1>2. fifo \in Ring
  BY <1>1 DEF Ring, Timer, Cell
<1>3. Count(fifo) = 0
  <2>1. fifo.head = fifo.tail
    BY <1>1
  <2> QED
    BY <1>2, <2>1, RoomAndEmpty
<1>4. Queue(fifo) = <<>>
  BY <1>2, <1>3, QueueType
<1>5. watch = <<>> /\ quiet = GAP /\ call = <<>> /\ Len(watch) = 0 /\ Len(call) = 0
  BY DEF Init
<1>6. watch \in Seq(Watch)
  BY <1>5
<1>7. fifo.hw = Idle
  BY <1>1
<1> QED
  BY <1>2, <1>3, <1>4, <1>5, <1>6, <1>7 DEF FifoInv, TypeOK, Ring, Watch

\* The queue of the abstract specification without the timer of s.
LEMMA AbstractCancel ==
  ASSUME NEW q \in Ring, NEW s
  PROVE  Timers!cancel_timer(Queue(q), s) =
           IF Places(q, s) = {} THEN Queue(q) ELSE Without(Queue(q), Min(Places(q, s)))
<1> DEFINE w == Queue(q)
           first(i) == w[i] = s /\ \A j \in 1 .. i - 1 : w[j] # s
           m == Min(Places(q, s))
<1>1. Len(w) = Count(q) /\ Count(q) \in Nat
  BY QueueType
<1>2. CASE Places(q, s) = {}
  <2>1. ~\E i \in 1 .. Len(w) : w[i] = s
    BY <1>1, <1>2 DEF Places
  <2> QED
    BY <1>2, <2>1 DEF Timers!cancel_timer
<1>3. CASE Places(q, s) # {}
  <2>1. m \in 1 .. Len(w) /\ first(m)
    BY <1>1, <1>3, FirstPlace
  <2>2. \A i \in 1 .. Len(w) : first(i) => i = m
    <3> SUFFICES ASSUME NEW i \in 1 .. Len(w), first(i), i # m
                 PROVE  FALSE
      OBVIOUS
    <3>1. i \in Nat /\ m \in Nat /\ i >= 1 /\ m >= 1
      BY <1>1, <2>1
    <3>2. i \in 1 .. m - 1 \/ m \in 1 .. i - 1
      BY <3>1
    <3> QED
      BY <2>1, <3>2
  <2> HIDE DEF m
  <2>3. (CHOOSE i \in 1 .. Len(w) : first(i)) = m
    BY <2>1, <2>2
  <2>4. \E i \in 1 .. Len(w) : w[i] = s
    BY <2>1
  <2>5. Timers!cancel_timer(w, s) = Timers!RemoveAt(w, CHOOSE i \in 1 .. Len(w) : first(i))
    BY <2>4 DEF Timers!cancel_timer
  <2>6. Timers!cancel_timer(w, s) = Without(w, m)
    BY <2>3, <2>5 DEF Timers!RemoveAt, Without
  <2> QED
    BY <1>3, <2>6 DEF m
<1> QED
  BY <1>2, <1>3

LEMMA AddStep ==
  ASSUME FifoInv, NEW s \in SeqNumber, AddNewTimer(s)
  PROVE  FifoInv' /\ Timers!Next
<1>1. /\ fifo \in Ring /\ (fifo.hw # Idle => Count(fifo) > 0)
      /\ watch \in Seq(Watch) /\ Len(watch) = Count(fifo)
      /\ fifo' = add_new_timer(fifo, s) /\ watch' = Watched(watch)
      /\ quiet' = 0 /\ call' = <<"set", s>>
  BY DEF FifoInv, TypeOK, Ring, Watch, AddNewTimer
<1>2. /\ fifo' \in Ring
      /\ fifo'.hw # Idle => Count(fifo') > 0
      /\ Queue(fifo') = IF Len(Queue(fifo)) < MAX_UNACK_PACKETS
                        THEN Append(Queue(fifo), s) ELSE Queue(fifo)
      /\ Count(fifo') = IF Count(fifo) < MAX_UNACK_PACKETS
                        THEN Count(fifo) + 1 ELSE Count(fifo)
  BY <1>1, AddType
<1>3. watch' \in Seq(Watch) /\ Len(watch') = Count(fifo')
  BY <1>1, <1>2, WatchedType
<1>4. quiet' \in 0 .. GAP /\ Len(call') <= 3
  BY <1>1
<1>5. FifoInv'
  BY <1>2, <1>3, <1>4 DEF FifoInv, TypeOK, Ring, Watch
<1>6. Timers!Set(s)
  BY <1>1, <1>2 DEF Timers!Set, Timers!add_new_timer
<1> QED
  BY <1>5, <1>6 DEF Timers!Next

LEMMA CancelStep ==
  ASSUME FifoInv, NEW s \in SeqNumber, CancelTimer(s)
  PROVE  FifoInv' /\ Timers!Next
<1>1. /\ fifo \in Ring /\ (fifo.hw # Idle => Count(fifo) > 0)
      /\ watch \in Seq(Watch) /\ Len(watch) = Count(fifo)
      /\ \A i \in 1 .. Len(watch) : watch[i].slips < MAX_SLIPS
      /\ fifo' = cancel_timer(fifo, s) /\ watch' = Unwatched(watch, s)
      /\ quiet' = 0 /\ call' = <<"cancel", s>>
  BY DEF FifoInv, TypeOK, Ring, Watch, CancelTimer
<1>2. /\ fifo' \in Ring
      /\ fifo'.hw # Idle => Count(fifo') > 0
      /\ Queue(fifo') = IF Places(fifo, s) = {} THEN Queue(fifo)
                        ELSE Without(Queue(fifo), Min(Places(fifo, s)))
      /\ Count(fifo') = IF Places(fifo, s) = {} THEN Count(fifo) ELSE Count(fifo) - 1
  BY <1>1, CancelType
<1>3. watch' \in Seq(Watch) /\ Len(watch') = Count(fifo')
  BY <1>1, <1>2, UnwatchedType
<1>4. quiet' \in 0 .. GAP /\ Len(call') <= 3
  BY <1>1
<1>5. FifoInv'
  BY <1>2, <1>3, <1>4 DEF FifoInv, TypeOK, Ring, Watch
<1>6. Timers!Cancel(s)
  BY <1>1, <1>2, AbstractCancel DEF Timers!Cancel
<1> QED
  BY <1>5, <1>6 DEF Timers!Next

LEMMA ReplaceStep ==
  ASSUME FifoInv, NEW s \in SeqNumber, NEW t \in SeqNumber, CancelAndAdd(s, t)
  PROVE  FifoInv' /\ Timers!Next
<1> DEFINE q == cancel_timer(fifo, s)
           u == Unwatched(watch, s)
<1>1. /\ fifo \in Ring /\ (fifo.hw # Idle => Count(fifo) > 0)
      /\ watch \in Seq(Watch) /\ Len(watch) = Count(fifo)
      /\ \A i \in 1 .. Len(watch) : watch[i].slips < MAX_SLIPS
      /\ fifo' = add_new_timer(q, t) /\ watch' = Watched(u)
      /\ quiet' = 0 /\ call' = <<"replace", s, t>>
  BY DEF FifoInv, TypeOK, Ring, Watch, CancelAndAdd
<1>2. /\ q \in Ring
      /\ q.hw # Idle => Count(q) > 0
      /\ Queue(q) = IF Places(fifo, s) = {} THEN Queue(fifo)
                    ELSE Without(Queue(fifo), Min(Places(fifo, s)))
      /\ Count(q) = IF Places(fifo, s) = {} THEN Count(fifo) ELSE Count(fifo) - 1
  BY <1>1, CancelType
<1>3. u \in Seq(Watch) /\ Len(u) = Count(q)
  BY <1>1, <1>2, UnwatchedType
<1>4. Queue(q) = Timers!cancel_timer(Queue(fifo), s)
  BY <1>1, <1>2, AbstractCancel
<1> HIDE DEF q, u
<1>5. /\ fifo' \in Ring
      /\ fifo'.hw # Idle => Count(fifo') > 0
      /\ Queue(fifo') = IF Len(Queue(q)) < MAX_UNACK_PACKETS
                        THEN Append(Queue(q), t) ELSE Queue(q)
      /\ Count(fifo') = IF Count(q) < MAX_UNACK_PACKETS THEN Count(q) + 1 ELSE Count(q)
  BY <1>1, <1>2, AddType
<1>6. watch' \in Seq(Watch) /\ Len(watch') = Count(fifo')
  BY <1>1, <1>3, <1>5, WatchedType
<1>7. quiet' \in 0 .. GAP /\ Len(call') <= 3
  BY <1>1
<1>8. FifoInv'
  BY <1>5, <1>6, <1>7 DEF FifoInv, TypeOK, Ring, Watch
<1>9. Timers!Replace(s, t)
  BY <1>1, <1>4, <1>5 DEF Timers!Replace, Timers!add_new_timer
<1> QED
  BY <1>8, <1>9 DEF Timers!Next

LEMMA InterruptStep ==
  ASSUME FifoInv, TimerInterrupt
  PROVE  FifoInv' /\ Timers!Next
<1> DEFINE q == Interrupted(fifo)
           s == Queue(fifo)[1]
<1>1. /\ fifo \in Ring /\ Count(fifo) > 0
      /\ watch \in Seq(Watch) /\ Len(watch) = Count(fifo)
      /\ fifo' = add_new_timer(q, s) /\ watch' = Watched(Tail(watch))
      /\ quiet' = 0 /\ call' = <<"expire">>
  BY DEF FifoInv, TypeOK, Ring, Watch, TimerInterrupt, Idle
<1>2. /\ Queue(fifo) \in Seq(SeqNumber) /\ Len(Queue(fifo)) = Count(fifo)
      /\ Queue(fifo) # <<>> /\ s \in SeqNumber /\ s = Head(Queue(fifo))
  <2>1. Queue(fifo) \in Seq(SeqNumber) /\ Len(Queue(fifo)) = Count(fifo)
    BY <1>1, QueueType
  <2>2. Queue(fifo) # <<>>
    BY <1>1, <2>1
  <2>3. s = Head(Queue(fifo))
    BY <2>1, <2>2
  <2> QED
    BY <2>1, <2>2, <2>3, HeadTailProperties
<1>3. /\ q \in Ring
      /\ q.hw # Idle => Count(q) > 0
      /\ Queue(q) = Tail(Queue(fifo))
      /\ Count(q) = Count(fifo) - 1
  BY <1>1, InterruptType
<1>4. Tail(watch) \in Seq(Watch) /\ Len(Tail(watch)) = Count(q)
  <2>1. watch # <<>>
    BY <1>1
  <2> QED
    BY <1>1, <1>3, <2>1, HeadTailProperties
<1> HIDE DEF q, s
<1>5. /\ fifo' \in Ring
      /\ fifo'.hw # Idle => Count(fifo') > 0
      /\ Queue(fifo') = IF Len(Queue(q)) < MAX_UNACK_PACKETS
                        THEN Append(Queue(q), s) ELSE Queue(q)
      /\ Count(fifo') = IF Count(q) < MAX_UNACK_PACKETS THEN Count(q) + 1 ELSE Count(q)
  BY <1>1, <1>2, <1>3, AddType
<1>6. watch' \in Seq(Watch) /\ Len(watch') = Count(fifo')
  BY <1>1, <1>4, <1>5, WatchedType
<1>7. quiet' \in 0 .. GAP /\ Len(call') <= 3
  BY <1>1
<1>8. FifoInv'
  BY <1>5, <1>6, <1>7 DEF FifoInv, TypeOK, Ring, Watch
<1>9. Timers!Expire
  BY <1>1, <1>2, <1>3, <1>5 DEF Timers!Expire, Timers!add_new_timer
<1> QED
  BY <1>8, <1>9 DEF Timers!Next

LEMMA TickStep ==
  ASSUME FifoInv, Tick
  PROVE  FifoInv' /\ Timers!Next
<1>1. /\ fifo \in Ring /\ (fifo.hw # Idle => Count(fifo) > 0)
      /\ watch \in Seq(Watch) /\ Len(watch) = Count(fifo) /\ quiet \in 0 .. GAP
      /\ fifo.hw # 0
      /\ fifo' = IF fifo.hw = Idle THEN fifo ELSE [fifo EXCEPT !.hw = @ - 1]
      /\ watch' = [i \in 1 .. Len(watch) |-> [watch[i] EXCEPT !.age = @ + 1]]
      /\ quiet' = Min({quiet + 1, GAP})
      /\ call' = <<>>
  BY DEF FifoInv, TypeOK, Ring, Watch, Tick
<1>2. /\ fifo' \in Ring
      /\ fifo'.data = fifo.data /\ fifo'.head = fifo.head /\ fifo'.tail = fifo.tail
      /\ fifo'.hw # Idle => fifo.hw # Idle
  <2>1. CASE fifo.hw = Idle
    BY <1>1, <2>1
  <2>2. CASE fifo.hw # Idle
    <3>1. fifo.hw - 1 \in Nat
      BY <1>1, <2>2 DEF Ring
    <3> QED
      BY <1>1, <2>2, <3>1 DEF Ring
  <2> QED
    BY <2>1, <2>2
<1>3. Count(fifo') = Count(fifo)
  BY <1>2 DEF Count
<1>4. Queue(fifo') = Queue(fifo)
  BY <1>2, <1>3 DEF Queue, Place
<1>5. watch' \in Seq(Watch) /\ Len(watch') = Count(fifo')
  <2>1. Len(watch) \in Nat /\ \A i \in 1 .. Len(watch) : watch[i] \in Watch
    BY <1>1, LenProperties
  <2>2. \A i \in 1 .. Len(watch) : [watch[i] EXCEPT !.age = @ + 1] \in Watch
    BY <2>1 DEF Watch
  <2> DEFINE older(i) == [watch[i] EXCEPT !.age = @ + 1]
  <2>3. watch' = [i \in 1 .. Len(watch) |-> older(i)]
    BY <1>1
  <2>4. \A i \in 1 .. Len(watch) : older(i) \in Watch
    BY <2>2
  <2> HIDE DEF older
  <2>5. watch' \in [1 .. Len(watch) -> Watch]
    BY <2>3, <2>4
  <2>6. watch' \in Seq(Watch) /\ Len(watch') = Len(watch)
    BY <2>1, <2>5, SeqDef, LenProperties
  <2> QED
    BY <1>1, <1>3, <2>6
<1>6. quiet' \in 0 .. GAP
  <2>1. \E x \in {quiet + 1, GAP} : \A y \in {quiet + 1, GAP} : x <= y
    BY <1>1
  <2>2. quiet' \in {quiet + 1, GAP} /\ quiet' <= GAP
    BY <1>1, <2>1 DEF Min
  <2> QED
    BY <1>1, <2>2
<1>7. Len(call') <= 3
  BY <1>1
<1>8. FifoInv'
  BY <1>1, <1>2, <1>3, <1>5, <1>6, <1>7 DEF FifoInv, TypeOK, Ring, Watch
<1>9. Timers!Wait
  BY <1>1, <1>4 DEF Timers!Wait
<1> QED
  BY <1>8, <1>9 DEF Timers!Next

LEMMA FifoStep ==
  FifoInv /\ [Next]_vars => FifoInv' /\ [Timers!Next]_<<Queue(fifo), call>>
<1> SUFFICES ASSUME FifoInv, [Next]_vars
             PROVE  FifoInv' /\ [Timers!Next]_<<Queue(fifo), call>>
  OBVIOUS
<1>1. CASE UNCHANGED vars
  <2>1. fifo' = fifo /\ watch' = watch /\ quiet' = quiet /\ call' = call
    BY <1>1 DEF vars
  <2> QED
    BY <2>1 DEF FifoInv, TypeOK
<1>2. ASSUME NEW s \in SeqNumber, AddNewTimer(s)
      PROVE  FifoInv' /\ Timers!Next
  BY <1>2, AddStep
<1>3. ASSUME NEW s \in SeqNumber, CancelTimer(s)
      PROVE  FifoInv' /\ Timers!Next
  BY <1>3, CancelStep
<1>4. ASSUME NEW s \in SeqNumber, NEW t \in SeqNumber, CancelAndAdd(s, t)
      PROVE  FifoInv' /\ Timers!Next
  BY <1>4, ReplaceStep
<1>5. CASE TimerInterrupt
  BY <1>5, InterruptStep
<1>6. CASE Tick
  BY <1>6, TickStep
<1> QED
  BY <1>1, <1>2, <1>3, <1>4, <1>5, <1>6 DEF Next

LEMMA FifoInvariant == Spec => []FifoInv
<1>1. Init => FifoInv
  BY InitFifo
<1>2. FifoInv /\ [Next]_vars => FifoInv'
  BY FifoStep
<1> QED
  BY <1>1, <1>2, PTL DEF Spec

\* The ring, its sum and the hardware timer keep their types at any times of
\* calls, although differences wrap in a micros_t and the indices in the ring.
THEOREM TimersTypes == Spec => []TypeOK
<1>1. FifoInv => TypeOK
  BY DEF FifoInv
<1> QED
  BY <1>1, FifoInvariant, PTL

\* The hardware timer never runs for nobody: every interrupt finds its timer.
THEOREM EventHasTimer == Spec => [](fifo.hw # Idle => Count(fifo) > 0)
<1>1. FifoInv => (fifo.hw # Idle => Count(fifo) > 0)
  BY DEF FifoInv
<1> QED
  BY <1>1, FifoInvariant, PTL

\* The ring behaves as a queue of timers that are set, cancelled and expire one
\* by one.
THEOREM RingIsQueue == Spec => TimersSpec
<1>1. Init => Timers!Init
  BY InitFifo DEF Timers!Init
<1>2. FifoInv /\ [Next]_vars => [Timers!Next]_<<Queue(fifo), call>>
  BY FifoStep
<1> QED
  BY <1>1, <1>2, FifoInvariant, PTL DEF Spec, TimersSpec, Timers!Spec

-----------------------------------------------------------------------------
(***************************************************************************)
(* What the operations do to the differences.                              *)
(***************************************************************************)

Val(q, i) == q.data[Place(q, i)].val

LEMMA ValType ==
  ASSUME NEW q \in Ring, NEW i \in 1 .. Count(q)
  PROVE  Val(q, i) \in 0 .. MICROS_T - 1
<1>1. Place(q, i) \in Cell /\ q.data \in [Cell -> Timer]
  BY QueueType DEF Ring
<1> QED
  BY <1>1 DEF Val, Timer

LEMMA MicrosSame ==
  ASSUME NEW x \in 0 .. MICROS_T - 1
  PROVE  Micros(x) = x
BY DEF Micros

\* Places of a ring of the same tail are the same cells, the one behind the
\* last is that of head, and all are different.
LEMMA CellsOfPlaces ==
  ASSUME NEW q \in Ring
  PROVE  /\ \A i \in 1 .. N : Place(q, i) \in Cell
         /\ \A i \in 1 .. N : Place(q, i) = q.head <=> i = Count(q) + 1
         /\ \A i, j \in 1 .. N : Place(q, i) = Place(q, j) => i = j
         /\ \A r : r.tail = q.tail => \A i \in 1 .. N : Place(r, i) = Place(q, i)
<1>1. q.head \in Cell /\ q.tail \in Cell
  BY DEF Ring
<1>2. \A i \in 1 .. N : Place(q, i) \in Cell
  BY PlaceCases
<1>3. ASSUME NEW i \in 1 .. N PROVE Place(q, i) = q.head <=> i = Count(q) + 1
  <2>1. Place(q, i) = q.head <=> Count(q) = i - 1
    BY <1>1, PlaceIsCell DEF Count
  <2>2. Count(q) \in Int /\ i \in Int
    BY QueueType, Sizes
  <2> QED
    BY <2>1, <2>2
<1>4. ASSUME NEW i \in 1 .. N, NEW j \in 1 .. N, Place(q, i) = Place(q, j) PROVE i = j
  <2>1. Span(q.tail, Place(q, j)) = i - 1 /\ Span(q.tail, Place(q, j)) = j - 1
    BY <1>2, <1>4, PlaceIsCell
  <2>2. i \in Int /\ j \in Int
    BY Sizes
  <2> QED
    BY <2>1, <2>2
<1>5. ASSUME NEW r, r.tail = q.tail, NEW i \in 1 .. N PROVE Place(r, i) = Place(q, i)
  BY <1>5 DEF Place
<1> QED
  BY <1>2, <1>3, <1>4, <1>5

LEMMA FirstPlaces ==
  ASSUME NEW q \in Ring
  PROVE  Place(q, 1) = q.tail /\ Place(q, 2) = move(q.tail) /\ Place(q, 2) \in Cell
<1>1. q.tail \in Cell
  BY DEF Ring
<1>2. q.tail = Place(q, 1)
  BY <1>1, PlaceCases, Sizes DEF Cell
<1>3. 1 \in 1 .. MAX_UNACK_PACKETS /\ 2 \in 1 .. N
  BY Sizes
<1> QED
  BY <1>2, <1>3, NextPlace, PlaceCases

\* When tail moves on each place is the next.
LEMMA MovedPlaces ==
  ASSUME NEW q \in Ring, NEW r \in Ring, r.tail = move(q.tail)
  PROVE  \A i \in 1 .. MAX_UNACK_PACKETS : Place(r, i) = Place(q, i + 1)
<1>1. q.tail \in Cell /\ r.tail \in Cell
  BY DEF Ring
<1>3. ASSUME NEW i \in 1 .. MAX_UNACK_PACKETS PROVE Place(r, i) = Place(q, i + 1)
  <2>1. i \in 1 .. N
    BY Sizes
  <2>2. Place(r, i) = IF r.tail + i <= N THEN r.tail + i - 1 ELSE r.tail + i - 1 - N
    BY <2>1, PlaceCases
  <2>3. /\ Place(q, i) = IF q.tail + i <= N THEN q.tail + i - 1 ELSE q.tail + i - 1 - N
        /\ Place(q, i) \in Cell
    BY <2>1, PlaceCases
  <2>4. Place(r, i) = move(Place(q, i))
    BY <1>1, <2>1, <2>2, <2>3, MoveCases DEF Cell, N
  <2> QED
    BY <2>4, NextPlace
<1> QED
  BY <1>3

\* push_timer: what is left of DURATION when the timers ahead have expired.
LEMMA AddValues ==
  ASSUME NEW q \in Ring, NEW s \in SeqNumber, Count(q) < MAX_UNACK_PACKETS
  PROVE  LET r == add_new_timer(q, s)
             val == Micros(DURATION - get_hard_timer_left_time(q) - q.timers_sum)
         IN  /\ \A i \in 1 .. Count(q) : Val(r, i) = Val(q, i)
             /\ Count(q) = 0 => r.hw = DURATION * GRAIN /\ r.timers_sum = q.timers_sum
             /\ Count(q) > 0 => /\ r.hw = q.hw
                                /\ r.timers_sum = Micros(q.timers_sum + val)
                                /\ Val(r, Count(q) + 1) = val
<1> DEFINE val == Micros(DURATION - get_hard_timer_left_time(q) - q.timers_sum)
           pushed(v) == [q EXCEPT !.data[q.head] = [seq_n |-> s, val |-> v],
                                  !.head = move(@)]
           r == add_new_timer(q, s)
<1>1. /\ q.head \in Cell /\ q.tail \in Cell /\ q.data \in [Cell -> Timer]
      /\ DOMAIN q.data = Cell
  BY DEF Ring
<1>2. /\ Count(q) \in 0 .. MAX_UNACK_PACKETS
      /\ is_queue_have_space(q)
      /\ q.head = q.tail <=> Count(q) = 0
  BY RoomAndEmpty, QueueType
<1>3. /\ Count(q) + 1 \in 1 .. N
      /\ \A i \in 1 .. Count(q) : i \in 1 .. N /\ i # Count(q) + 1
  BY <1>2, Sizes
<1>4. /\ Place(q, Count(q) + 1) = q.head
      /\ \A i \in 1 .. Count(q) : Place(q, i) \in Cell /\ Place(q, i) # q.head
  BY <1>3, CellsOfPlaces
<1>5. CASE Count(q) = 0
  <2>1. r = [pushed(DURATION) EXCEPT !.hw = DURATION * GRAIN]
    BY <1>2, <1>5 DEF add_new_timer, Activated
  <2>2. r.hw = DURATION * GRAIN /\ r.timers_sum = q.timers_sum
    BY <2>1 DEF Ring
  <2> QED
    BY <1>2, <1>5, <2>2
<1>6. CASE Count(q) > 0
  <2>1. r = [pushed(val) EXCEPT !.timers_sum = Micros(@ + val)]
    BY <1>2, <1>6 DEF add_new_timer
  <2>2. /\ r.hw = q.hw /\ r.timers_sum = Micros(q.timers_sum + val) /\ r.tail = q.tail
        /\ r.data = [q.data EXCEPT ![q.head] = [seq_n |-> s, val |-> val]]
    BY <2>1 DEF Ring
  <2> HIDE DEF val, r
  <2>3. \A i \in 1 .. N : Place(r, i) = Place(q, i)
    BY <2>2, CellsOfPlaces
  <2>4. \A i \in 1 .. Count(q) : Val(r, i) = Val(q, i)
    BY <1>1, <1>3, <1>4, <2>2, <2>3 DEF Val
  <2>5. Val(r, Count(q) + 1) = val
    BY <1>1, <1>3, <1>4, <2>2, <2>3 DEF Val
  <2> QED
    BY <1>6, <2>2, <2>4, <2>5 DEF r, val
<1> QED
  BY <1>2, <1>5, <1>6

\* pop_timer at tail: the next takes over what was left.
LEMMA PopTailValues ==
  ASSUME NEW q \in Ring, Count(q) > 0
  PROVE  LET p == pop_tail(q)
         IN  /\ Count(q) = 1 => p.to_set = 0 /\ p.fifo.timers_sum = q.timers_sum
             /\ Count(q) > 1 =>
                  /\ p.to_set = Micros(Val(q, 2) + get_hard_timer_left_time(q))
                  /\ p.fifo.timers_sum = Micros(q.timers_sum - Val(q, 2))
                  /\ \A i \in 2 .. Count(q) - 1 : Val(p.fifo, i) = Val(q, i + 1)
<1> DEFINE next == move(q.tail)
           val == Micros(q.data[next].val + get_hard_timer_left_time(q))
           p == pop_tail(q)
<1>1. /\ q.head \in Cell /\ q.tail \in Cell /\ q.data \in [Cell -> Timer]
      /\ DOMAIN q.data = Cell /\ p.fifo \in Ring
  BY PopTailType DEF Ring
<1>2. Count(q) \in 1 .. MAX_UNACK_PACKETS /\ Count(q) \in Nat
  BY QueueType
<1>3. next = Place(q, 2) /\ next \in Cell
  BY FirstPlaces
<1>4. next = q.head <=> Count(q) = 1
  <2>1. 2 \in 1 .. N
    BY Sizes
  <2>2. Place(q, 2) = q.head <=> 2 = Count(q) + 1
    BY <2>1, CellsOfPlaces
  <2> QED
    BY <1>2, <1>3, <2>2
<1>5. CASE Count(q) = 1
  BY <1>4, <1>5 DEF pop_tail, Ring
<1>6. CASE Count(q) > 1
  <2> DEFINE d == [q.data EXCEPT ![next].val = val]
             sum == Micros(q.timers_sum - q.data[next].val)
             f == [q EXCEPT !.tail = next, !.data = d, !.timers_sum = sum]
  <2>1. p = [fifo |-> f, to_set |-> val]
    BY <1>1, <1>3, <1>4, <1>6 DEF pop_tail, Ring, Timer
  <2>2. p.fifo = f /\ p.to_set = val
    BY <2>1
  <2>3. q.data[next].val = Val(q, 2)
    BY <1>3 DEF Val
  <2>4. \A c \in Cell : c # next => d[c] = q.data[c]
    BY <1>1
  <2> HIDE DEF d, sum, val, p, next
  <2>5. f.tail = next /\ f.data = d /\ f.timers_sum = sum
    BY DEF Ring
  <2>6. ASSUME NEW i \in 2 .. Count(q) - 1 PROVE Val(f, i) = Val(q, i + 1)
    <3>1. i \in 1 .. N /\ i + 1 \in 1 .. N /\ i + 1 # 2 /\ 2 \in 1 .. N
      BY <1>2, Sizes
    <3>2. Place(f, i) = Place(q, i + 1)
      <4>1. f \in Ring /\ f.tail = move(q.tail) /\ i \in 1 .. MAX_UNACK_PACKETS
        BY <1>1, <1>2, <2>2, <2>5 DEF next
      <4> HIDE DEF f
      <4> QED
        BY <4>1, MovedPlaces
    <3>3. Place(q, i + 1) \in Cell /\ Place(q, i + 1) # next
      BY <1>3, <3>1, CellsOfPlaces
    <3> QED
      BY <2>4, <2>5, <3>2, <3>3 DEF Val
  <2> QED
    BY <1>6, <2>2, <2>3, <2>5, <2>6 DEF sum, val, p
<1> QED
  BY <1>2, <1>5, <1>6

\* pop_timer elsewhere: the next takes over the value, the others move down.
LEMMA PopElsewhereValues ==
  ASSUME NEW q \in Ring, NEW i \in 2 .. Count(q)
  PROVE  LET r == pop_elsewhere(q, i)
         IN  /\ \A k \in 1 .. Count(q) - 1 : /\ k < i => Val(r, k) = Val(q, k)
                                             /\ k > i => Val(r, k) = Val(q, k + 1)
             /\ i = Count(q) => r.timers_sum = Micros(q.timers_sum - Val(q, i))
             /\ i # Count(q) => /\ r.timers_sum = q.timers_sum
                                /\ Val(r, i) = Micros(Val(q, i + 1) + Val(q, i))
<1> DEFINE t == Place(q, i)
           last == Place(q, Count(q))
           moved == [c \in Cell |-> IF Span(t, c) < Span(t, last)
                                    THEN q.data[move(c)] ELSE q.data[c]]
           val == Micros(moved[t].val + q.data[t].val)
           r == pop_elsewhere(q, i)
<1>1. /\ q.head \in Cell /\ q.tail \in Cell /\ q.data \in [Cell -> Timer]
      /\ q.timers_sum \in 0 .. MICROS_T - 1
  BY DEF Ring
<1>2. Count(q) \in 0 .. MAX_UNACK_PACKETS
  BY QueueType
<1>3. i \in 1 .. N /\ Count(q) \in 1 .. N /\ i <= Count(q) /\ i > 1
  BY <1>2 DEF N
<1>4. t \in Cell /\ last \in Cell
  BY <1>3, PlaceCases
<1>5. t = last <=> i = Count(q)
  BY <1>3, CellsOfPlaces
<1>6. CASE t = last
  <2>1. r = [q EXCEPT !.head = last, !.timers_sum = Micros(@ - q.data[t].val)]
    BY <1>6 DEF pop_elsewhere
  <2>2. /\ r.tail = q.tail /\ r.data = q.data
        /\ r.timers_sum = Micros(q.timers_sum - q.data[t].val)
    BY <2>1 DEF Ring
  <2> HIDE DEF t, last, r
  <2>3. \A k \in 1 .. Count(q) - 1 : k \in 1 .. N /\ ~(k > i)
    BY <1>2, <1>3, <1>5, <1>6, Sizes
  <2>4. \A k \in 1 .. Count(q) - 1 : Val(r, k) = Val(q, k)
    BY <2>2, <2>3, CellsOfPlaces DEF Val
  <2> QED
    BY <1>5, <1>6, <2>2, <2>3, <2>4 DEF r, t, Val
<1>7. CASE t # last
  <2> DEFINE d == [moved EXCEPT ![t].val = val]
  <2>1. r = [q EXCEPT !.head = last, !.data = d]
    BY <1>7 DEF pop_elsewhere
  <2>2. \A c \in Cell : /\ c # t => d[c] = moved[c]
                        /\ moved[c] \in Timer
    BY <1>1, MoveCases
  <2>3. d[t].val = val
    BY <1>4, <2>2 DEF Timer
  <2>4. \A c \in Cell : moved[c] = IF Span(t, c) < Span(t, last)
                                   THEN q.data[move(c)] ELSE q.data[c]
    OBVIOUS
  <2> HIDE DEF d, moved, val
  <2>5. r.tail = q.tail /\ r.data = d /\ r.timers_sum = q.timers_sum
    BY <2>1 DEF Ring
  <2>6. \A k \in 1 .. N : Place(r, k) = Place(q, k)
    BY <2>5, CellsOfPlaces
  <2>7. ASSUME NEW k \in 1 .. Count(q) - 1
        PROVE  moved[Place(q, k)] = IF k < i THEN q.data[Place(q, k)]
                                    ELSE q.data[Place(q, k + 1)]
    <3>1. k \in 1 .. N /\ k \in 1 .. MAX_UNACK_PACKETS /\ Place(q, k) \in Cell
      BY <1>2, <1>3, PlaceCases, Sizes
    <3>2. move(Place(q, k)) = Place(q, k + 1)
      BY <3>1, NextPlace
    <3>3. /\ Span(t, Place(q, k)) = IF i <= k THEN k - i ELSE N + k - i
          /\ Span(t, last) = Count(q) - i
      BY <1>3, <3>1, SpanOfPlaces
    <3>4. Span(t, Place(q, k)) < Span(t, last) <=> ~(k < i)
      BY <1>2, <1>3, <3>1, <3>3, Sizes
    <3> QED
      BY <2>4, <3>1, <3>2, <3>4
  <2>8. ASSUME NEW k \in 1 .. Count(q) - 1, k # i
        PROVE  Val(r, k) = IF k < i THEN Val(q, k) ELSE Val(q, k + 1)
    <3>1. k \in 1 .. N
      BY <1>2, Sizes
    <3>2. Place(q, k) # t /\ Place(q, k) \in Cell
      BY <1>3, <2>8, <3>1, CellsOfPlaces
    <3>3. Val(r, k) = moved[Place(q, k)].val
      BY <2>2, <2>5, <2>6, <3>1, <3>2 DEF Val
    <3> QED
      BY <2>7, <3>3 DEF Val
  <2>9. Val(r, i) = Micros(Val(q, i + 1) + Val(q, i))
    <3>1. i \in 1 .. Count(q) - 1 /\ ~(i < i)
      BY <1>2, <1>3, <1>5, <1>7
    <3>2. moved[t] = q.data[Place(q, i + 1)]
      BY <2>7, <3>1 DEF t
    <3>3. Val(r, i) = val
      BY <1>3, <2>3, <2>5, <2>6 DEF Val, t
    <3> QED
      BY <3>2, <3>3 DEF val, Val, t
  <2>10. \A k \in 1 .. Count(q) - 1 : /\ k < i => Val(r, k) = Val(q, k)
                                      /\ k > i => Val(r, k) = Val(q, k + 1)
    <3> HIDE DEF r, t, last
    <3> TAKE k \in 1 .. Count(q) - 1
    <3>1. k \in Int /\ i \in Int
      BY <1>2
    <3> QED
      BY <2>8, <3>1
  <2> QED
    BY <1>5, <1>7, <2>5, <2>9, <2>10 DEF r
<1> QED
  BY <1>6, <1>7

-----------------------------------------------------------------------------
(***************************************************************************)
(* When timers expire.  The differences are those of a function of places, *)
(* which increases: no difference has been taken modulo MICROS_T.          *)
(***************************************************************************)

\* r gives the ticks until the timer in each place expires.
Due(q, r) ==
  /\ r \in [1 .. Count(q) -> Nat]
  /\ q.hw # Idle <=> Count(q) > 0
  /\ Count(q) > 0 => r[1] = q.hw
  /\ \A i \in 2 .. Count(q) : r[i] = r[i - 1] + GRAIN * Val(q, i)
  /\ \A i, j \in 1 .. Count(q) : i < j => r[i] < r[j]
  /\ GRAIN * q.timers_sum = IF Count(q) = 0 THEN 0 ELSE r[Count(q)] - q.hw

LEMMA TicksAdd ==
  ASSUME NEW a \in Int, NEW b \in Int
  PROVE  /\ GRAIN * (a + b) = GRAIN * a + GRAIN * b
         /\ GRAIN * (a - b) = GRAIN * a - GRAIN * b
         /\ GRAIN * a \in Int
OBVIOUS

LEMMA TicksInt == \A a \in Int : GRAIN * a \in Int
OBVIOUS

LEMMA TicksOrder ==
  ASSUME NEW a \in Int, NEW b \in Int
  PROVE  a < b <=> GRAIN * a < GRAIN * b
<1>1. ASSUME NEW c \in Int, NEW d \in Int, c < d PROVE GRAIN * c < GRAIN * d
  <2>1. GRAIN \in Nat /\ GRAIN >= 1 /\ d - c >= 1 /\ d - c \in Nat
    BY <1>1
  <2>2. GRAIN * (d - c) >= 1
    BY <2>1
  <2>3. /\ GRAIN * (d - c) = GRAIN * d - GRAIN * c
        /\ GRAIN * c \in Int /\ GRAIN * d \in Int
    BY TicksAdd
  <2> QED
    BY <2>2, <2>3
<1>2. CASE a < b
  BY <1>1, <1>2
<1>3. CASE b < a
  <2>1. GRAIN * b < GRAIN * a /\ GRAIN * a \in Int /\ GRAIN * b \in Int
    BY <1>1, <1>3, TicksAdd
  <2> QED
    BY <1>3, <2>1
<1> QED
  BY <1>2, <1>3

\* The time left in microseconds, in ticks: rounded up to a whole one above.
LEMMA LeftTicks ==
  ASSUME NEW q \in Ring
  PROVE  LET l == GRAIN * get_hard_timer_left_time(q)
         IN  /\ get_hard_timer_left_time(q) \in Nat
             /\ q.hw <= 0 => l = 0
             /\ q.hw > 0 => q.hw < l /\ l <= q.hw + GRAIN
             /\ q.hw > 0 => \A k \in Nat : q.hw = GRAIN * k => l = q.hw + GRAIN
<1>1. q.hw \in Nat \cup {Idle}
  BY DEF Ring
<1>2. CASE ~(q.hw > 0)
  <2>1. get_hard_timer_left_time(q) = 0
    BY <1>2 DEF get_hard_timer_left_time
  <2> QED
    BY <1>2, <2>1
<1>3. CASE q.hw > 0
  <2>1. q.hw \in Nat
    BY <1>1, <1>3 DEF Idle
  <2> DEFINE d == q.hw \div GRAIN
  <2>2. d \in Nat /\ GRAIN * d <= q.hw /\ q.hw < GRAIN * d + GRAIN
    BY <2>1
  <2>3. get_hard_timer_left_time(q) = d + 1
    BY <1>3 DEF get_hard_timer_left_time
  <2> HIDE DEF d
  <2>4. GRAIN * (d + 1) = GRAIN * d + GRAIN /\ GRAIN * d \in Int
    BY <2>2
  <2>5. ASSUME NEW k \in Nat, q.hw = GRAIN * k PROVE k = d
    <3>1. ~(k < d)
      BY <2>2, <2>5, TicksOrder
    <3>2. ~(d + 1 < k) /\ k # d + 1
      BY <2>2, <2>4, <2>5, TicksOrder, TicksAdd
    <3> QED
      BY <2>2, <3>1, <3>2
  <2> QED
    BY <1>3, <2>1, <2>2, <2>3, <2>4, <2>5
<1> QED
  BY <1>2, <1>3

LEMMA DueTypes ==
  ASSUME NEW q \in Ring, NEW r, Due(q, r)
  PROVE  /\ Count(q) \in 0 .. MAX_UNACK_PACKETS
         /\ \A i \in 1 .. Count(q) : r[i] \in Nat /\ Val(q, i) \in 0 .. MICROS_T - 1
         /\ q.timers_sum \in 0 .. MICROS_T - 1
         /\ Count(q) > 0 => q.hw \in Nat
         /\ Count(q) = 0 => q.hw = Idle /\ q.timers_sum = 0
<1>1. Count(q) \in 0 .. MAX_UNACK_PACKETS /\ q.timers_sum \in 0 .. MICROS_T - 1
      /\ q.hw \in Nat \cup {Idle}
  BY QueueType DEF Ring
<1>2. \A i \in 1 .. Count(q) : r[i] \in Nat /\ Val(q, i) \in 0 .. MICROS_T - 1
  BY ValType DEF Due
<1>3. ASSUME Count(q) = 0 PROVE q.timers_sum = 0
  <2>1. GRAIN * q.timers_sum = 0
    BY <1>3 DEF Due
  <2>2. GRAIN * 0 = 0
    OBVIOUS
  <2> QED
    BY <1>1, <2>1, <2>2, TicksOrder
<1> QED
  BY <1>1, <1>2, <1>3 DEF Due

\* A timer set behind others expires DURATION later, or up to a microsecond
\* earlier, since the time left of the first is rounded.
LEMMA AddDue ==
  ASSUME NEW q \in Ring, NEW r, Due(q, r), NEW s \in SeqNumber,
         Count(q) < MAX_UNACK_PACKETS,
         Count(q) > 0 => q.hw > 0 /\ r[Count(q)] + GRAIN < GRAIN * DURATION
  PROVE  LET a == add_new_timer(q, s)
             n == Count(q)
         IN  \E x \in Nat :
               /\ Due(a, [i \in 1 .. n + 1 |-> IF i = n + 1 THEN x ELSE r[i]])
               /\ a.hw = IF n = 0 THEN x ELSE q.hw
               /\ GRAIN * DURATION - GRAIN <= x /\ x <= GRAIN * DURATION
               /\ n > 0 => \A k \in Nat : q.hw = GRAIN * k => x = GRAIN * DURATION - GRAIN
<1> DEFINE a == add_new_timer(q, s)
           n == Count(q)
           left == get_hard_timer_left_time(q)
           y == DURATION - left - q.timers_sum
           R(x) == [i \in 1 .. n + 1 |-> IF i = n + 1 THEN x ELSE r[i]]
           Last(x) == /\ Due(a, R(x))
                      /\ a.hw = IF n = 0 THEN x ELSE q.hw
                      /\ GRAIN * DURATION - GRAIN <= x /\ x <= GRAIN * DURATION
                      /\ n > 0 => \A k \in Nat :
                                    q.hw = GRAIN * k => x = GRAIN * DURATION - GRAIN
<1>1. /\ n \in Nat /\ q.timers_sum \in Nat /\ q.timers_sum \in 0 .. MICROS_T - 1
      /\ \A i \in 1 .. n : r[i] \in Nat
      /\ n > 0 => q.hw \in Nat
      /\ n = 0 => q.hw = Idle /\ q.timers_sum = 0
  BY DueTypes
<1>2. Count(a) = n + 1 /\ a \in Ring
  BY AddType DEF Due
<1>3. ASSUME n = 0 PROVE \E x \in Nat : Last(x)
  <2>1. a.hw = GRAIN * DURATION /\ a.timers_sum = 0 /\ GRAIN * DURATION \in Nat
    BY <1>1, <1>3, AddValues
  <2> DEFINE x == GRAIN * DURATION
  <2>2. R(x) \in [1 .. 1 -> Nat] /\ R(x)[1] = x
    BY <1>3, <2>1
  <2>3. Count(a) = 1 /\ a.hw # Idle /\ GRAIN * a.timers_sum = 0
    BY <1>2, <1>3, <2>1 DEF Idle
  <2> HIDE DEF R, a, x
  <2>4. Due(a, R(x))
    BY <2>1, <2>2, <2>3 DEF Due, x
  <2>5. x \in Nat /\ GRAIN * DURATION - GRAIN <= x /\ x <= GRAIN * DURATION /\ a.hw = x
    BY <2>1 DEF x
  <2> HIDE DEF n
  <2> QED
    BY <1>3, <2>4, <2>5
<1>4. ASSUME n > 0 PROVE \E x \in Nat : Last(x)
  <2>1. /\ left \in Nat /\ q.hw \in Nat
        /\ q.hw < GRAIN * left /\ GRAIN * left <= q.hw + GRAIN
        /\ \A k \in Nat : q.hw = GRAIN * k => GRAIN * left = q.hw + GRAIN
    BY <1>1, <1>4, LeftTicks
  <2>2. /\ a.hw = q.hw
        /\ a.timers_sum = Micros(q.timers_sum + Micros(y))
        /\ Val(a, n + 1) = Micros(y)
        /\ \A i \in 1 .. n : Val(a, i) = Val(q, i)
    BY <1>4, AddValues
  <2> HIDE DEF left
  <2>3. GRAIN * q.timers_sum = r[n] - q.hw /\ r[n] \in Nat
    BY <1>1, <1>4 DEF Due
  <2>4. /\ y \in Int
        /\ GRAIN * y = GRAIN * DURATION - GRAIN * left - r[n] + q.hw
    <3>1. /\ DURATION \in Int /\ left \in Int /\ DURATION - left \in Int
          /\ q.timers_sum \in Int
      BY <1>1, <2>1
    <3>2. GRAIN * y = GRAIN * (DURATION - left) - GRAIN * q.timers_sum
      BY <3>1, TicksAdd
    <3>3. GRAIN * (DURATION - left) = GRAIN * DURATION - GRAIN * left
      BY <3>1, TicksAdd
    <3>4. GRAIN * DURATION \in Int /\ GRAIN * left \in Int
      BY <3>1, TicksAdd
    <3> QED
      BY <1>1, <2>1, <2>3, <3>1, <3>2, <3>3, <3>4
  <2>5. y > 0
    <3>1. GRAIN * 0 < GRAIN * y
      <4>1. GRAIN * left \in Int /\ GRAIN * DURATION \in Int /\ GRAIN * 0 = 0
        BY <2>1, TicksAdd
      <4>2. r[n] + GRAIN < GRAIN * DURATION
        BY <1>4
      <4> HIDE DEF y, n
      <4> QED
        BY <2>1, <2>3, <2>4, <4>1, <4>2
    <3> QED
      BY <2>4, <3>1, TicksOrder
  <2>6. y \in 0 .. MICROS_T - 1 /\ q.timers_sum + y \in 0 .. MICROS_T - 1
    BY <1>1, <2>1, <2>4, <2>5
  <2>7. Val(a, n + 1) = y /\ a.timers_sum = q.timers_sum + y
    BY <2>2, <2>6, MicrosSame
  <2> DEFINE x == r[n] + GRAIN * y
  <2> HIDE DEF y
  <2>8. /\ x = GRAIN * DURATION - GRAIN * left + q.hw
        /\ x \in Nat /\ r[n] < x
        /\ GRAIN * DURATION - GRAIN <= x /\ x <= GRAIN * DURATION
        /\ \A k \in Nat : q.hw = GRAIN * k => x = GRAIN * DURATION - GRAIN
    <3>1. GRAIN * DURATION \in Int /\ GRAIN * left \in Int /\ GRAIN * y \in Int
          /\ GRAIN * y > 0
      <4>1. GRAIN * 0 < GRAIN * y
        BY <2>4, <2>5, TicksOrder
      <4> QED
        BY <2>1, <2>4, <4>1, TicksAdd
    <3> QED
      BY <2>1, <2>3, <2>4, <3>1
  <2>9. GRAIN * a.timers_sum = x - q.hw
    <3>1. q.timers_sum \in Int /\ GRAIN * y \in Int
      BY <1>1, <2>4, TicksInt
    <3>2. GRAIN * (q.timers_sum + y) = GRAIN * q.timers_sum + GRAIN * y
      BY <2>4, <3>1, TicksAdd
    <3> QED
      BY <2>1, <2>3, <2>7, <3>1, <3>2
  <2>10. x = r[n] + GRAIN * Val(a, n + 1)
    BY <2>7
  <2> HIDE DEF x, a, n
  <2>11. R(x) \in [1 .. n + 1 -> Nat] /\ R(x)[n + 1] = x /\ n + 1 > 0 /\ n + 1 # 0
         /\ \A i \in 1 .. n : R(x)[i] = r[i] /\ i # n + 1 /\ i \in 1 .. n + 1
    BY <1>1, <1>4, <2>8
  <2>12. \A i \in 2 .. n + 1 : R(x)[i] = R(x)[i - 1] + GRAIN * Val(a, i)
    <3>1. \A i \in 2 .. n : r[i] = r[i - 1] + GRAIN * Val(q, i)
      BY DEF Due, n
    <3> TAKE i \in 2 .. n + 1
    <3>2. CASE i = n + 1
      <4>1. i - 1 = n /\ n \in 1 .. n
        BY <1>1, <1>4, <3>2
      <4> QED
        BY <2>10, <2>11, <3>2, <4>1
    <3>3. CASE i # n + 1
      <4>1. i \in 2 .. n /\ i \in 1 .. n /\ i - 1 \in 1 .. n
        BY <1>1, <3>3
      <4> QED
        BY <2>2, <2>11, <3>1, <4>1
    <3> QED
      BY <3>2, <3>3
  <2>13. \A i, j \in 1 .. n + 1 : i < j => R(x)[i] < R(x)[j]
    <3>1. \A i, j \in 1 .. n : i < j => r[i] < r[j]
      BY DEF Due, n
    <3> TAKE i, j \in 1 .. n + 1
    <3> HAVE i < j
    <3>2. i \in 1 .. n /\ (j = n + 1 \/ j \in 1 .. n)
      BY <1>1
    <3>3. CASE j = n + 1
      <4>1. r[i] <= r[n] /\ r[i] \in Nat
        BY <1>1, <3>1, <3>2
      <4> QED
        BY <2>3, <2>8, <2>11, <3>2, <3>3, <4>1
    <3>4. CASE j \in 1 .. n
      BY <2>11, <3>1, <3>2, <3>4
    <3> QED
      BY <3>2, <3>3, <3>4
  <2>14. R(x)[1] = a.hw /\ a.hw # Idle
    <3>1. r[1] = q.hw /\ 1 \in 1 .. n
      BY <1>1, <1>4 DEF Due, n
    <3> QED
      BY <2>1, <2>2, <2>11, <3>1 DEF Idle
  <2> HIDE DEF R
  <2>15. Due(a, R(x))
    BY <1>2, <1>4, <2>2, <2>9, <2>11, <2>12, <2>13, <2>14 DEF Due
  <2> QED
    BY <1>4, <2>2, <2>8, <2>15
<1> HIDE DEF Last
<1>5. \E x \in Nat : Last(x)
  BY <1>1, <1>3, <1>4
<1> QED
  BY <1>5 DEF Last

\* left microseconds are d ticks more than what the first timer has to go.
Later(q, left, d) == GRAIN * left = q.hw + d

\* What follows the first timer, d ticks later.
Following(q, r, d) == [i \in 1 .. Count(q) - 1 |-> r[i + 1] + d]

\* The timer at tail leaves, and the hardware timer is set for the next, for
\* which left microseconds are added: all that wait expire as much later as left
\* is longer than what the first had to go.
LEMMA NextDue ==
  ASSUME NEW q \in Ring, NEW r, Due(q, r), Count(q) > 0,
         NEW left \in Nat, NEW d \in Nat, Later(q, left, d),
         Count(q) > 1 => r[2] + d <= GRAIN * DURATION,
         NEW p \in Ring, p.hw = Idle, Count(p) = Count(q) - 1, NEW v,
         Count(q) = 1 => v = 0 /\ p.timers_sum = q.timers_sum,
         Count(q) > 1 => /\ v = Micros(Val(q, 2) + left)
                         /\ p.timers_sum = Micros(q.timers_sum - Val(q, 2))
                         /\ \A i \in 2 .. Count(q) - 1 : Val(p, i) = Val(q, i + 1)
  PROVE  LET a == Activated(p, v)
         IN  /\ Due(a, Following(q, r, d))
             /\ Count(q) = 1 => a.hw = Idle
             /\ Count(q) > 1 => /\ v \in Nat /\ v > 0
                                /\ a.hw = GRAIN * v /\ a.hw = r[2] + d
<1> DEFINE a == Activated(p, v)
           n == Count(q)
           R == Following(q, r, d)
<1>1. /\ n \in Nat /\ n > 0 /\ q.timers_sum \in 0 .. MICROS_T - 1
      /\ \A i \in 1 .. n : r[i] \in Nat /\ Val(q, i) \in 0 .. MICROS_T - 1
      /\ q.hw \in Nat
  BY DueTypes
<1>2. GRAIN * left \in Int /\ d \in Nat /\ GRAIN * left = q.hw + d
  BY <1>1, TicksInt DEF Later
<1>3. CASE n = 1
  <2>1. a = p
    BY <1>3 DEF Activated
  <2>2. GRAIN * q.timers_sum = 0
    <3>1. GRAIN * q.timers_sum = r[1] - q.hw /\ r[1] = q.hw
      BY <1>3 DEF Due
    <3> QED
      BY <1>1, <3>1
  <2>3. R \in [1 .. 0 -> Nat] /\ 1 .. 0 = {} /\ 2 .. 0 = {}
    BY <1>3 DEF Following
  <2>4. Count(p) = 0
    BY <1>3
  <2> HIDE DEF R
  <2>5. Due(p, R)
    BY <1>3, <2>2, <2>3, <2>4 DEF Due
  <2> QED
    BY <1>3, <2>1, <2>5 DEF R
<1>4. CASE n > 1
  <2>1. /\ v = Micros(Val(q, 2) + left)
        /\ p.timers_sum = Micros(q.timers_sum - Val(q, 2))
        /\ \A i \in 2 .. n - 1 : Val(p, i) = Val(q, i + 1)
        /\ r[2] + d <= GRAIN * DURATION
    BY <1>1, <1>2, <1>4
  <2>2. /\ r[1] = q.hw /\ r[2] = r[1] + GRAIN * Val(q, 2) /\ r[1] < r[2]
        /\ \A i \in 2 .. n : r[i] = r[i - 1] + GRAIN * Val(q, i)
        /\ \A i, j \in 1 .. n : i < j => r[i] < r[j]
        /\ GRAIN * q.timers_sum = r[n] - q.hw
    <3>1. 1 \in 1 .. n /\ 2 \in 1 .. n /\ 2 \in 2 .. n /\ 1 < 2 /\ 2 - 1 = 1 /\ n # 0
      BY <1>1, <1>4
    <3>2. /\ r[1] = q.hw
          /\ \A i \in 2 .. n : r[i] = r[i - 1] + GRAIN * Val(q, i)
          /\ \A i, j \in 1 .. n : i < j => r[i] < r[j]
          /\ GRAIN * q.timers_sum = r[n] - q.hw
      BY <1>1, <3>1 DEF Due
    <3> QED
      BY <3>1, <3>2
  <2>3. Val(q, 2) \in Nat /\ Val(q, 2) \in Int /\ r[2] \in Nat /\ r[n] \in Nat /\ r[2] <= r[n]
    BY <1>1, <1>4, <2>2
  <2>4. GRAIN * (Val(q, 2) + left) = r[2] + d
    <3>1. GRAIN * (Val(q, 2) + left) = GRAIN * Val(q, 2) + GRAIN * left
      BY <2>3, TicksAdd
    <3>2. GRAIN * Val(q, 2) \in Int
      BY <2>3, TicksInt
    <3> QED
      BY <1>1, <1>2, <2>2, <2>3, <3>1, <3>2
  <2>5. /\ Val(q, 2) + left \in Nat /\ Val(q, 2) + left > 0
        /\ Val(q, 2) + left <= DURATION
    <3>1. Val(q, 2) + left \in Int /\ DURATION \in Int
      BY <2>3
    <3>2. ~(DURATION < Val(q, 2) + left)
      <4>1. GRAIN * DURATION \in Int /\ GRAIN * (Val(q, 2) + left) <= GRAIN * DURATION
        BY <2>1, <2>4, TicksInt
      <4>2. ~(GRAIN * DURATION < GRAIN * (Val(q, 2) + left))
        BY <1>2, <2>3, <2>4, <4>1
      <4> QED
        BY <3>1, <4>2, TicksOrder
    <3>3. 0 < Val(q, 2) + left
      <4>1. GRAIN * 0 < GRAIN * (Val(q, 2) + left)
        <5>1. GRAIN * 0 = 0
          OBVIOUS
        <5>2. r[2] > 0
          BY <1>1, <2>2, <2>3
        <5> QED
          BY <1>2, <2>3, <2>4, <5>1, <5>2
      <4> QED
        BY <3>1, <4>1, TicksOrder
    <3> QED
      BY <3>1, <3>2, <3>3
  <2>6. v = Val(q, 2) + left /\ v \in Nat /\ v > 0
    <3>1. Val(q, 2) + left \in 0 .. MICROS_T - 1
      BY <2>5
    <3> QED
      BY <2>1, <2>5, <3>1, MicrosSame
  <2>7. p.timers_sum = q.timers_sum - Val(q, 2)
    <3>1. GRAIN * Val(q, 2) <= GRAIN * q.timers_sum
      BY <1>1, <2>2, <2>3
    <3>2. ~(q.timers_sum < Val(q, 2))
      <4>1. GRAIN * Val(q, 2) \in Int /\ GRAIN * q.timers_sum \in Int
        BY <1>1, <2>3, TicksInt
      <4>2. ~(GRAIN * q.timers_sum < GRAIN * Val(q, 2))
        BY <3>1, <4>1
      <4> QED
        BY <1>1, <2>3, <4>2, TicksOrder
    <3>3. q.timers_sum - Val(q, 2) \in 0 .. MICROS_T - 1
      BY <1>1, <2>3, <3>2
    <3> QED
      BY <2>1, <3>3, MicrosSame
  <2>8. GRAIN * p.timers_sum = r[n] - r[2]
    <3>0. q.timers_sum \in Int /\ Val(q, 2) \in Int
      BY <1>1, <2>3
    <3>1. /\ GRAIN * (q.timers_sum - Val(q, 2)) = GRAIN * q.timers_sum - GRAIN * Val(q, 2)
          /\ GRAIN * Val(q, 2) \in Int
      BY <3>0, TicksAdd, TicksInt
    <3> QED
      BY <1>1, <2>2, <2>3, <2>7, <3>1
  <2>9. a = [p EXCEPT !.hw = v * GRAIN] /\ v * GRAIN = GRAIN * v /\ GRAIN * v \in Nat
    BY <2>6 DEF Activated
  <2>10. /\ a.hw = GRAIN * v /\ a.timers_sum = p.timers_sum
         /\ a.data = p.data /\ a.tail = p.tail /\ a.head = p.head
    BY <2>9 DEF Ring
  <2> HIDE DEF a
  <2>11. Count(a) = n - 1 /\ \A i \in 1 .. n : Val(a, i) = Val(p, i)
    BY <2>10 DEF Count, Val, Place
  <2> HIDE DEF n
  <2>12. /\ R \in [1 .. n - 1 -> Nat]
         /\ \A i \in 1 .. n - 1 : R[i] = r[i + 1] + d
    BY <1>1, <1>2, <1>4 DEF Following, n
  <2> HIDE DEF R
  <2>13. ASSUME NEW i \in 2 .. n - 1 PROVE R[i] = R[i - 1] + GRAIN * Val(a, i)
    <3>1. /\ i \in 1 .. n - 1 /\ i - 1 \in 1 .. n - 1 /\ i + 1 \in 2 .. n /\ i \in 1 .. n
          /\ i + 1 \in 1 .. n /\ (i - 1) + 1 = i /\ (i + 1) - 1 = i
      BY <1>1
    <3>2. R[i] = r[i + 1] + d /\ R[i - 1] = r[i] + d
      BY <2>12, <3>1
    <3>3. r[i + 1] = r[i] + GRAIN * Val(q, i + 1)
      BY <2>2, <3>1
    <3>4. Val(a, i) = Val(q, i + 1) /\ Val(q, i + 1) \in Int
      BY <1>1, <2>1, <2>11, <3>1
    <3>5. GRAIN * Val(q, i + 1) \in Int
      BY <3>4, TicksInt
    <3> QED
      BY <1>1, <1>2, <3>1, <3>2, <3>3, <3>4, <3>5
  <2>14. ASSUME NEW i \in 1 .. n - 1, NEW j \in 1 .. n - 1, i < j PROVE R[i] < R[j]
    <3>1. i + 1 \in 1 .. n /\ j + 1 \in 1 .. n /\ i + 1 < j + 1
      BY <1>1, <2>14
    <3>2. r[i + 1] < r[j + 1] /\ r[i + 1] \in Nat /\ r[j + 1] \in Nat
      BY <1>1, <2>2, <3>1
    <3> QED
      BY <1>2, <2>12, <3>2
  <2>15. /\ R[1] = a.hw /\ R[n - 1] = r[n] + d /\ a.hw # Idle /\ n - 1 > 0 /\ n - 1 # 0
    <3>1. 1 \in 1 .. n - 1 /\ n - 1 \in 1 .. n - 1 /\ (n - 1) + 1 = n /\ 1 + 1 = 2
          /\ n - 1 > 0 /\ n - 1 # 0
      BY <1>1, <1>4
    <3>2. R[1] = r[2] + d /\ R[n - 1] = r[n] + d
      BY <2>12, <3>1
    <3>3. a.hw = r[2] + d /\ a.hw # Idle
      BY <2>4, <2>6, <2>9, <2>10 DEF Idle
    <3> QED
      BY <3>1, <3>2, <3>3
  <2>16. GRAIN * a.timers_sum = R[n - 1] - a.hw
    BY <1>1, <1>2, <2>3, <2>4, <2>6, <2>8, <2>10, <2>15
  <2>17. Due(a, R)
    BY <2>11, <2>12, <2>13, <2>14, <2>15, <2>16 DEF Due
  <2> QED
    BY <1>4, <2>4, <2>6, <2>10, <2>17 DEF a, n, R
<1> QED
  BY <1>1, <1>3, <1>4

\* A timer behind the first leaves: the others expire when they would have.
LEMMA ElsewhereDue ==
  ASSUME NEW q \in Ring, NEW r, Due(q, r), NEW i \in 2 .. Count(q)
  PROVE  Due(pop_elsewhere(q, i),
             [k \in 1 .. Count(q) - 1 |-> IF k < i THEN r[k] ELSE r[k + 1]])
<1> DEFINE p == pop_elsewhere(q, i)
           n == Count(q)
           R == [k \in 1 .. n - 1 |-> IF k < i THEN r[k] ELSE r[k + 1]]
<1>1. /\ n \in Nat /\ n > 1 /\ q.timers_sum \in 0 .. MICROS_T - 1 /\ q.hw \in Nat
      /\ \A k \in 1 .. n : r[k] \in Nat /\ Val(q, k) \in 0 .. MICROS_T - 1
      /\ i \in 2 .. n /\ i \in Nat
  BY DueTypes
<1>2. p.hw = q.hw /\ Count(p) = n - 1
  BY PopElsewhereType
<1>3. /\ \A k \in 1 .. n - 1 : /\ k < i => Val(p, k) = Val(q, k)
                               /\ k > i => Val(p, k) = Val(q, k + 1)
      /\ i = n => p.timers_sum = Micros(q.timers_sum - Val(q, i))
      /\ i # n => /\ p.timers_sum = q.timers_sum
                  /\ Val(p, i) = Micros(Val(q, i + 1) + Val(q, i))
  BY PopElsewhereValues
<1>4. /\ r[1] = q.hw /\ q.hw # Idle
      /\ \A k \in 2 .. n : r[k] = r[k - 1] + GRAIN * Val(q, k)
      /\ \A k, j \in 1 .. n : k < j => r[k] < r[j]
      /\ GRAIN * q.timers_sum = r[n] - q.hw
  <2>1. n > 0 /\ n # 0
    BY <1>1
  <2>2. r[1] = q.hw /\ q.hw # Idle
    BY <2>1 DEF Due
  <2>3. \A k \in 2 .. n : r[k] = r[k - 1] + GRAIN * Val(q, k)
    BY DEF Due
  <2>4. \A k, j \in 1 .. n : k < j => r[k] < r[j]
    BY DEF Due
  <2>5. GRAIN * q.timers_sum = r[n] - q.hw
    BY <2>1 DEF Due
  <2> QED
    BY <2>2, <2>3, <2>4, <2>5
<1> HIDE DEF n, p
<1>5. /\ R \in [1 .. n - 1 -> Nat]
      /\ \A k \in 1 .. n - 1 : R[k] = IF k < i THEN r[k] ELSE r[k + 1]
  BY <1>1
<1> HIDE DEF R
<1>6. \A k \in 2 .. n : Val(q, k) \in Int /\ GRAIN * Val(q, k) \in Int
  BY <1>1, TicksInt
<1>7. q.timers_sum \in Int /\ GRAIN * q.timers_sum \in Int
  BY <1>1, TicksInt
<1>8. \A k \in 1 .. n : r[k] <= r[n] /\ r[1] <= r[k]
  <2> TAKE k \in 1 .. n
  <2>1. 1 \in 1 .. n /\ n \in 1 .. n /\ (k < n \/ k = n) /\ (1 < k \/ k = 1)
    BY <1>1
  <2>2. r[k] \in Nat /\ r[n] \in Nat /\ r[1] \in Nat
    BY <1>1, <2>1
  <2>3. (k < n => r[k] < r[n]) /\ (1 < k => r[1] < r[k])
    BY <1>4, <2>1
  <2> QED
    BY <2>1, <2>2, <2>3
<1>9. /\ R[1] = q.hw /\ n - 1 > 0 /\ n - 1 # 0
      /\ R[n - 1] = IF i = n THEN r[n - 1] ELSE r[n]
  <2>1. 1 \in 1 .. n - 1 /\ n - 1 \in 1 .. n - 1 /\ (n - 1) + 1 = n /\ 1 < i
        /\ (n - 1 < i <=> i = n) /\ n - 1 > 0 /\ n - 1 # 0
    BY <1>1
  <2> QED
    BY <1>4, <1>5, <2>1
<1>10. ASSUME i # n
       PROVE  GRAIN * Val(p, i) = GRAIN * Val(q, i + 1) + GRAIN * Val(q, i)
  <2>1. i + 1 \in 2 .. n /\ (i + 1) - 1 = i /\ i - 1 \in 1 .. n /\ i + 1 \in 1 .. n
    BY <1>1, <1>10
  <2>2. GRAIN * (Val(q, i + 1) + Val(q, i)) = GRAIN * Val(q, i + 1) + GRAIN * Val(q, i)
    BY <1>1, <1>6, <2>1, TicksAdd
  <2>3. GRAIN * (Val(q, i + 1) + Val(q, i)) <= GRAIN * q.timers_sum
    <3>1. r[i + 1] = r[i] + GRAIN * Val(q, i + 1) /\ r[i] = r[i - 1] + GRAIN * Val(q, i)
      BY <1>1, <1>4, <2>1
    <3>2. r[i + 1] <= r[n] /\ r[1] <= r[i - 1]
          /\ r[i + 1] \in Nat /\ r[i] \in Nat /\ r[i - 1] \in Nat /\ r[n] \in Nat
      BY <1>1, <1>8, <2>1
    <3>3. GRAIN * Val(q, i + 1) \in Int /\ GRAIN * Val(q, i) \in Int
      BY <1>1, <1>6, <2>1
    <3> QED
      BY <1>1, <1>4, <2>2, <3>1, <3>2, <3>3
  <2>4. Val(q, i + 1) + Val(q, i) \in 0 .. MICROS_T - 1
    <3>1. Val(q, i + 1) + Val(q, i) \in Nat
      BY <1>1, <2>1
    <3>2. ~(q.timers_sum < Val(q, i + 1) + Val(q, i))
      <4>1. GRAIN * (Val(q, i + 1) + Val(q, i)) \in Int
        BY <3>1, TicksInt
      <4>2. ~(GRAIN * q.timers_sum < GRAIN * (Val(q, i + 1) + Val(q, i)))
        BY <1>7, <2>3, <4>1
      <4> QED
        BY <1>7, <3>1, <4>2, TicksOrder
    <3> QED
      BY <1>1, <3>1, <3>2
  <2>5. Val(p, i) = Val(q, i + 1) + Val(q, i)
    BY <1>3, <1>10, <2>4, MicrosSame
  <2> QED
    BY <2>2, <2>5
<1>11. ASSUME NEW k \in 2 .. n - 1 PROVE R[k] = R[k - 1] + GRAIN * Val(p, k)
  <2>1. /\ k \in 1 .. n - 1 /\ k - 1 \in 1 .. n - 1 /\ (k - 1) + 1 = k /\ (k + 1) - 1 = k
        /\ k \in 2 .. n /\ k + 1 \in 2 .. n
        /\ k \in 1 .. n /\ k - 1 \in 1 .. n /\ k + 1 \in 1 .. n
    BY <1>1
  <2>2. /\ r[k] = r[k - 1] + GRAIN * Val(q, k)
        /\ r[k + 1] = r[k] + GRAIN * Val(q, k + 1)
    BY <1>4, <2>1
  <2>3. /\ R[k] = IF k < i THEN r[k] ELSE r[k + 1]
        /\ R[k - 1] = IF k - 1 < i THEN r[k - 1] ELSE r[k]
    BY <1>5, <2>1
  <2>4. CASE k < i
    BY <1>1, <1>3, <2>1, <2>2, <2>3, <2>4
  <2>5. CASE k > i
    <3>1. ~(k < i) /\ ~(k - 1 < i)
      BY <1>1, <2>1, <2>5
    <3> QED
      BY <1>3, <2>1, <2>2, <2>3, <2>5, <3>1
  <2>6. CASE k = i
    <3>1. ~(k < i) /\ k - 1 < i /\ i # n
      BY <1>1, <2>1, <2>6
    <3>2. GRAIN * Val(p, k) = GRAIN * Val(q, k + 1) + GRAIN * Val(q, k)
      BY <1>10, <2>6, <3>1
    <3>3. r[k - 1] \in Nat /\ GRAIN * Val(q, k + 1) \in Int /\ GRAIN * Val(q, k) \in Int
      BY <1>1, <1>6, <2>1
    <3> QED
      BY <2>2, <2>3, <3>1, <3>2, <3>3
  <2> QED
    BY <1>1, <2>1, <2>4, <2>5, <2>6
<1>12. ASSUME NEW k \in 1 .. n - 1, NEW j \in 1 .. n - 1, k < j PROVE R[k] < R[j]
  <2>1. /\ k \in 1 .. n /\ j \in 1 .. n /\ k + 1 \in 1 .. n /\ j + 1 \in 1 .. n
        /\ k + 1 < j + 1 /\ k < j + 1 /\ (j < i => k < i)
    BY <1>1, <1>12
  <2>2. r[k] < r[j] /\ r[k + 1] < r[j + 1] /\ r[k] < r[j + 1]
    BY <1>4, <1>12, <2>1
  <2> QED
    BY <1>5, <2>1, <2>2
<1>13. GRAIN * p.timers_sum = R[n - 1] - q.hw
  <2>1. CASE i # n
    BY <1>3, <1>4, <1>9, <2>1
  <2>2. CASE i = n
    <3>1. /\ n \in 2 .. n /\ n - 1 \in 1 .. n /\ n \in 1 .. n
          /\ r[n] = r[n - 1] + GRAIN * Val(q, n)
          /\ r[n - 1] \in Nat /\ r[1] <= r[n - 1] /\ r[n] \in Nat
          /\ Val(q, n) \in 0 .. MICROS_T - 1
          /\ Val(q, n) \in Int /\ GRAIN * Val(q, n) \in Int
      <4>1. n \in 2 .. n /\ n - 1 \in 1 .. n /\ n \in 1 .. n
        BY <1>1
      <4> QED
        BY <1>1, <1>4, <1>6, <1>8, <4>1
    <3>2. ~(GRAIN * q.timers_sum < GRAIN * Val(q, n))
      BY <1>1, <1>4, <1>7, <3>1
    <3>3. ~(q.timers_sum < Val(q, n))
      BY <1>7, <3>1, <3>2, TicksOrder
    <3>4. q.timers_sum - Val(q, n) \in 0 .. MICROS_T - 1
      BY <1>1, <3>1, <3>3
    <3>5. p.timers_sum = q.timers_sum - Val(q, n)
      BY <1>3, <2>2, <3>4, MicrosSame
    <3>6. GRAIN * (q.timers_sum - Val(q, n)) = GRAIN * q.timers_sum - GRAIN * Val(q, n)
      BY <1>7, <3>1, TicksAdd
    <3> QED
      BY <1>1, <1>4, <1>7, <1>9, <2>2, <3>1, <3>5, <3>6
  <2> QED
    BY <2>1, <2>2
<1>14. Due(p, R)
  BY <1>2, <1>4, <1>5, <1>9, <1>11, <1>12, <1>13 DEF Due
<1> QED
  BY <1>14 DEF p, R, n

\* cancel_timer: when the timer at tail leaves, the others expire up to a
\* microsecond later.
LEMMA CancelDue ==
  ASSUME NEW q \in Ring, NEW r, Due(q, r), NEW s, Places(q, s) # {},
         Count(q) > 1 => r[2] + GRAIN <= GRAIN * DURATION
  PROVE  LET a == cancel_timer(q, s)
             m == Min(Places(q, s))
         IN  \E d \in 0 .. GRAIN :
               /\ Due(a, [k \in 1 .. Count(q) - 1 |-> IF k < m THEN r[k] ELSE r[k + 1] + d])
               /\ 1 \notin Places(q, s) => d = 0 /\ a.hw = q.hw
               /\ 1 \in Places(q, s) => m = 1
               /\ 1 \in Places(q, s) /\ Count(q) > 1 => a.hw = r[2] + d
<1> DEFINE a == cancel_timer(q, s)
           m == Min(Places(q, s))
           n == Count(q)
<1>1. m \in 1 .. n /\ n \in Nat /\ (1 \in Places(q, s) <=> m = 1)
  <2>1. /\ m \in 1 .. n /\ Queue(q)[m] = s
        /\ \A j \in 1 .. m - 1 : Queue(q)[j] # s
    BY FirstPlace
  <2>2. n \in Nat
    BY QueueType
  <2> HIDE DEF m, n
  <2>3. 1 \in Places(q, s) => Queue(q)[1] = s
    BY DEF Places
  <2>4. m # 1 => 1 \in 1 .. m - 1
    BY <2>1, <2>2
  <2>5. m = 1 => 1 \in Places(q, s)
    BY <2>1 DEF Places, n
  <2> QED
    BY <2>1, <2>2, <2>3, <2>4, <2>5
<1>2. CASE m # 1
  <2>1. a = pop_elsewhere(q, m)
    BY <1>2 DEF cancel_timer
  <2>2. m \in 2 .. n
    BY <1>1, <1>2
  <2>3. a.hw = q.hw /\ Due(a, [k \in 1 .. n - 1 |-> IF k < m THEN r[k] ELSE r[k + 1]])
    <3> HIDE DEF m, a
    <3> QED
      BY <2>1, <2>2, PopElsewhereType, ElsewhereDue
  <2>4. \A k \in 1 .. n - 1 : r[k + 1] + 0 = r[k + 1]
    <3>1. \A k \in 1 .. n - 1 : k + 1 \in 1 .. n
      BY <1>1
    <3> QED
      BY <3>1, DueTypes
  <2>5. [k \in 1 .. n - 1 |-> IF k < m THEN r[k] ELSE r[k + 1]]
          = [k \in 1 .. n - 1 |-> IF k < m THEN r[k] ELSE r[k + 1] + 0]
    BY <2>4
  <2>6. 0 \in 0 .. GRAIN
    OBVIOUS
  <2> HIDE DEF a, m, n
  <2>7. Due(a, [k \in 1 .. n - 1 |-> IF k < m THEN r[k] ELSE r[k + 1] + 0])
    BY <2>3, <2>5
  <2> QED
    BY <1>1, <1>2, <2>3, <2>6, <2>7 DEF a, m, n
<1>3. CASE m = 1
  <2> DEFINE pop == pop_tail(q)
             p == [pop.fifo EXCEPT !.hw = Idle]
             left == get_hard_timer_left_time(q)
             d == GRAIN * left - q.hw
  <2>1. a = Activated(p, pop.to_set)
    BY <1>3 DEF cancel_timer
  <2>2. pop.fifo \in Ring /\ Count(pop.fifo) = n - 1 /\ n > 0
    BY <1>1, PopTailType
  <2>3. /\ p \in Ring /\ p.hw = Idle /\ Count(p) = n - 1
        /\ p.data = pop.fifo.data /\ p.tail = pop.fifo.tail
        /\ p.timers_sum = pop.fifo.timers_sum
    <3> HIDE DEF pop
    <3>1. p \in Ring /\ p.hw = Idle /\ Count(p) = Count(pop.fifo)
      BY <2>2, StoppedType
    <3> QED
      BY <2>2, <3>1 DEF Ring
  <2>4. \A i : Val(p, i) = Val(pop.fifo, i)
    <3> HIDE DEF p, pop
    <3> QED
      BY <2>3 DEF Val, Place
  <2>5. /\ n = 1 => pop.to_set = 0 /\ p.timers_sum = q.timers_sum
        /\ n > 1 =>
             /\ pop.to_set = Micros(Val(q, 2) + left)
             /\ p.timers_sum = Micros(q.timers_sum - Val(q, 2))
             /\ \A i \in 2 .. n - 1 : Val(p, i) = Val(q, i + 1)
    <3> HIDE DEF p
    <3> QED
      BY <2>2, <2>3, <2>4, PopTailValues
  <2>6. q.hw \in Nat /\ left \in Nat /\ GRAIN * left \in Int
        /\ GRAIN * left >= q.hw /\ GRAIN * left <= q.hw + GRAIN
    <3>1. q.hw \in Nat
      BY <2>2, DueTypes
    <3>2. left \in Nat /\ GRAIN * left \in Int
      BY LeftTicks, TicksInt
    <3>3. q.hw = 0 => GRAIN * left = 0
      BY LeftTicks
    <3>4. q.hw > 0 => q.hw < GRAIN * left /\ GRAIN * left <= q.hw + GRAIN
      BY LeftTicks
    <3> HIDE DEF left
    <3> QED
      BY <3>1, <3>2, <3>3, <3>4
  <2>7. n > 1 => r[2] + d <= GRAIN * DURATION
    <3> SUFFICES ASSUME n > 1 PROVE r[2] + d <= GRAIN * DURATION
      OBVIOUS
    <3>1. r[2] + GRAIN <= GRAIN * DURATION
      BY <1>1, <1>3
    <3>2. 2 \in 1 .. n
      BY <1>1
    <3>3. r[2] \in Nat /\ GRAIN * DURATION \in Int
      BY <3>2, DueTypes, TicksInt
    <3> HIDE DEF left
    <3> QED
      BY <2>6, <3>1, <3>3
  <2>8. d \in 0 .. GRAIN /\ d \in Nat /\ Later(q, left, d)
    <3> HIDE DEF left
    <3> QED
      BY <2>6 DEF Later
  <2> HIDE DEF p, pop, left, d
  <2>9. /\ Due(Activated(p, pop.to_set), Following(q, r, d))
        /\ n > 1 => Activated(p, pop.to_set).hw = r[2] + d
    BY <2>2, <2>3, <2>5, <2>6, <2>7, <2>8, NextDue
  <2>10. Following(q, r, d)
           = [k \in 1 .. n - 1 |-> IF k < m THEN r[k] ELSE r[k + 1] + d]
    <3>1. \A k \in 1 .. n - 1 : ~(k < m)
      BY <1>3
    <3> QED
      BY <3>1 DEF Following
  <2> HIDE DEF a, d, m, n
  <2>11. Due(a, [k \in 1 .. n - 1 |-> IF k < m THEN r[k] ELSE r[k + 1] + d])
         /\ (n > 1 => a.hw = r[2] + d)
    BY <2>1, <2>9, <2>10
  <2> QED
    BY <1>1, <1>3, <2>8, <2>11 DEF a, m, n
<1> QED
  BY <1>2, <1>3

\* timer_interrupt_handler: the timer at tail has expired, and the others expire
\* when they would have.  The hardware timer is set to a number of microseconds.
LEMMA InterruptDue ==
  ASSUME NEW q \in Ring, NEW r, Due(q, r), q.hw # Idle, q.hw <= 0,
         Count(q) > 1 => r[2] <= GRAIN * DURATION
  PROVE  LET a == Interrupted(q)
         IN  /\ Due(a, [i \in 1 .. Count(q) - 1 |-> r[i + 1]])
             /\ Count(q) > 1 => /\ \E k \in Nat : a.hw = GRAIN * k
                                /\ a.hw > 0 /\ a.hw = r[2]
<1> DEFINE fired == [q EXCEPT !.hw = Idle]
           pop == pop_tail(fired)
           p == pop.fifo
           n == Count(q)
           a == Interrupted(q)
<1>1. n \in Nat /\ n > 0 /\ \A i \in 1 .. n : r[i] \in Nat
  <2>1. Count(q) \in 0 .. MAX_UNACK_PACKETS
    BY DueTypes
  <2>2. Count(q) > 0
    BY DEF Due
  <2> QED
    BY <2>1, <2>2, DueTypes
<1>0. q.hw = 0
  BY DEF Ring, Idle
<1>2. /\ fired \in Ring /\ fired.hw = Idle /\ Count(fired) = n
      /\ fired.data = q.data /\ fired.tail = q.tail /\ fired.timers_sum = q.timers_sum
  <2>1. fired \in Ring /\ fired.hw = Idle /\ Count(fired) = n
    BY StoppedType
  <2> QED
    BY <2>1 DEF Ring
<1>3. a = Activated(p, pop.to_set)
  BY DEF Interrupted
<1> HIDE DEF fired
<1>4. \A i : Val(fired, i) = Val(q, i)
  BY <1>2 DEF Val, Place
<1>5. p \in Ring /\ p.hw = Idle /\ Count(p) = n - 1 /\ pop.to_set \in 0 .. MICROS_T - 1
  BY <1>1, <1>2, PopTailType
<1>6. get_hard_timer_left_time(fired) = 0
  BY <1>2 DEF get_hard_timer_left_time, Idle
<1>7. /\ n = 1 => pop.to_set = 0 /\ p.timers_sum = q.timers_sum
      /\ n > 1 =>
           /\ pop.to_set = Micros(Val(q, 2) + 0)
           /\ p.timers_sum = Micros(q.timers_sum - Val(q, 2))
           /\ \A i \in 2 .. n - 1 : Val(p, i) = Val(q, i + 1)
  BY <1>1, <1>2, <1>4, <1>6, PopTailValues
<1>8. 0 \in Nat /\ Later(q, 0, 0)
  BY <1>0 DEF Later
<1>9. n > 1 => r[2] + 0 <= GRAIN * DURATION
  <2> SUFFICES ASSUME n > 1 PROVE r[2] + 0 <= GRAIN * DURATION
    OBVIOUS
  <2>1. 2 \in 1 .. n
    BY <1>1
  <2>2. r[2] + 0 = r[2]
    BY <1>1, <2>1
  <2> QED
    BY <2>2
<1> HIDE DEF p, pop
<1>10. /\ Due(a, Following(q, r, 0))
       /\ n > 1 => /\ pop.to_set \in Nat /\ pop.to_set > 0
                   /\ a.hw = GRAIN * pop.to_set
                   /\ a.hw = r[2] + 0
  BY <1>1, <1>3, <1>5, <1>7, <1>8, <1>9, NextDue
<1>11. \A i \in 1 .. n - 1 : r[i + 1] + 0 = r[i + 1]
  <2>1. \A i \in 1 .. n - 1 : i + 1 \in 1 .. n
    BY <1>1
  <2> QED
    BY <1>1, <2>1
<1>12. Following(q, r, 0) = [i \in 1 .. n - 1 |-> r[i + 1]]
  BY <1>11 DEF Following
<1>13. ASSUME n > 1
       PROVE  (\E k \in Nat : a.hw = GRAIN * k) /\ a.hw > 0 /\ a.hw = r[2]
  <2>1. /\ pop.to_set \in Nat /\ pop.to_set > 0 /\ a.hw = GRAIN * pop.to_set
        /\ a.hw = r[2] + 0
    BY <1>10, <1>13
  <2>2. 1 \in 1 .. n - 1
    BY <1>1, <1>13
  <2>3. a.hw = r[2]
    BY <1>11, <2>1, <2>2
  <2>4. GRAIN * 0 < GRAIN * pop.to_set /\ GRAIN * 0 = 0
    BY <2>1, TicksOrder
  <2> HIDE DEF a
  <2> QED
    BY <2>1, <2>3, <2>4
<1> QED
  BY <1>10, <1>12, <1>13

-----------------------------------------------------------------------------
(***************************************************************************)
(* How long timers take, when calls are more than two microseconds apart.  *)
(***************************************************************************)

\* A timer of history v that expires in rest ticks, z ticks after the last call:
\* a call has to come before another, so it has seen a GAP for each slip.
InTime(v, rest, z) ==
  /\ GRAIN * DURATION - GRAIN <= v.age + rest
  /\ v.age + rest <= GRAIN * DURATION + GRAIN * v.slips
  /\ v.age >= GAP * v.slips + z

\* When the hardware timer expires in hw ticks, a timer behind the first is a GAP
\* old, or it was set by an interrupt and then expires early.
Behind(v, rest, hw) ==
  \/ v.age + hw >= GAP
  \/ /\ v.age + hw >= 1
     /\ v.age + rest <= GRAIN * DURATION - GRAIN + GRAIN * v.slips

LEMMA Slack ==
  ASSUME GAP > 2 * GRAIN, NEW s \in Nat
  PROVE  /\ GRAIN * s \in Nat /\ GAP * s \in Nat /\ GRAIN * s <= GAP * s
         /\ s # 0 => GRAIN * s + GAP <= GAP * s + GRAIN
         /\ GRAIN * (s + 1) = GRAIN * s + GRAIN
         /\ GAP * (s + 1) = GAP * s + GAP
<1>1. GRAIN * s \in Nat /\ GAP * s \in Nat
  OBVIOUS
<1>2. (GAP - GRAIN) * s = GAP * s - GRAIN * s /\ (GAP - GRAIN) * s >= 0
  <2>1. GAP - GRAIN \in Nat
    OBVIOUS
  <2> QED
    BY <2>1
<1>3. ASSUME s # 0 PROVE GRAIN * s + GAP <= GAP * s + GRAIN
  <2>1. GAP - GRAIN \in Nat /\ s - 1 \in Nat
    BY <1>3
  <2>2. (GAP - GRAIN) * (s - 1) >= 0
    BY <2>1
  <2>3. (GAP - GRAIN) * (s - 1) = (GAP - GRAIN) * s - (GAP - GRAIN)
    BY <2>1
  <2> QED
    BY <1>1, <1>2, <2>2, <2>3
<1>4. GRAIN * (s + 1) = GRAIN * s + GRAIN /\ GAP * (s + 1) = GAP * s + GAP
  OBVIOUS
<1> QED
  BY <1>1, <1>2, <1>3, <1>4

\* At a call, a GAP after the last, more than two microseconds of DURATION are
\* over for every timer; what it is delayed by then is one more slip.
LEMMA AtCall ==
  ASSUME GAP > 2 * GRAIN, NEW v \in Watch, NEW rest \in Nat, InTime(v, rest, GAP)
  PROVE  /\ rest + 2 * GRAIN < GRAIN * DURATION
         /\ InTime(v, rest, 0)
         /\ \A hw \in Nat : Behind(v, rest, hw)
         /\ \A d \in 0 .. GRAIN :
              /\ InTime([v EXCEPT !.slips = @ + 1], rest + d, 0)
              /\ \A hw \in Nat : Behind([v EXCEPT !.slips = @ + 1], rest + d, hw)
<1> DEFINE a == v.age
           s == v.slips
           u == [v EXCEPT !.slips = @ + 1]
           GD == GRAIN * DURATION
           Gs == GRAIN * s
           Ps == GAP * s
<1>1. a \in Nat /\ s \in Nat /\ u.age = a /\ u.slips = s + 1
  BY DEF Watch
<1>2. GD \in Nat
  OBVIOUS
<1>3. Gs \in Nat /\ Ps \in Nat /\ Gs <= Ps /\ GRAIN * (s + 1) = Gs + GRAIN /\ GAP * (s + 1) = Ps + GAP
  BY <1>1, Slack
<1>4. GD - GRAIN <= a + rest /\ a + rest <= GD + Gs /\ a >= Ps + GAP
  BY DEF InTime
<1> HIDE DEF a, s, u, GD, Gs, Ps
<1>5. rest + 2 * GRAIN < GD /\ a >= Ps + 0 /\ a >= GAP
  BY <1>1, <1>2, <1>3, <1>4
<1>6. InTime(v, rest, 0)
  BY <1>4, <1>5 DEF InTime, a, s, Ps, Gs, GD
<1>7. \A hw \in Nat : a + hw >= GAP
  BY <1>1, <1>5
<1>8. \A hw \in Nat : Behind(v, rest, hw)
  BY <1>7 DEF Behind, a
<1>9. ASSUME NEW d \in 0 .. GRAIN
      PROVE  InTime(u, rest + d, 0) /\ \A hw \in Nat : Behind(u, rest + d, hw)
  <2>1. GD - GRAIN <= a + (rest + d) /\ a + (rest + d) <= GD + (Gs + GRAIN)
        /\ a >= (Ps + GAP) + 0
    BY <1>1, <1>2, <1>3, <1>4
  <2>2. InTime(u, rest + d, 0)
    BY <1>1, <1>3, <2>1 DEF InTime, GD
  <2>3. \A hw \in Nat : Behind(u, rest + d, hw)
    BY <1>1, <1>7 DEF Behind
  <2> QED
    BY <2>2, <2>3
<1> QED
  BY <1>5, <1>6, <1>8, <1>9 DEF GD, u

\* When an interrupt comes, more than a microsecond of DURATION is over for the
\* timers behind the one that expires.
LEMMA AtInterrupt ==
  ASSUME GAP > 2 * GRAIN, NEW v \in Watch, NEW rest \in Nat, NEW z \in Nat,
         InTime(v, rest, z), Behind(v, rest, 0)
  PROVE  /\ rest + GRAIN < GRAIN * DURATION
         /\ InTime(v, rest, 0)
         /\ \A hw \in Nat : Behind(v, rest, hw)
<1> DEFINE a == v.age
           s == v.slips
           GD == GRAIN * DURATION
           Gs == GRAIN * s
           Ps == GAP * s
<1>1. a \in Nat /\ s \in Nat
  BY DEF Watch
<1>2. GD \in Nat
  OBVIOUS
<1>3. Gs \in Nat /\ Ps \in Nat /\ (s # 0 => Gs + GAP <= Ps + GRAIN) /\ (s = 0 => Gs = 0)
  <2>1. s = 0 => Gs = 0
    OBVIOUS
  <2> HIDE DEF s
  <2> QED
    BY <1>1, <2>1, Slack
<1>4. GD - GRAIN <= a + rest /\ a + rest <= GD + Gs /\ a >= Ps + z
  BY DEF InTime
<1>5. a + 0 >= GAP \/ (a + 0 >= 1 /\ a + rest <= GD - GRAIN + Gs)
  BY DEF Behind
<1>6. InTime(v, rest, 0)
  <2> HIDE DEF a, s, GD, Gs, Ps
  <2>1. a >= Ps + 0
    BY <1>1, <1>3, <1>4
  <2> QED
    BY <1>4, <2>1 DEF InTime, a, s, GD, Gs, Ps
<1>7. \A hw \in Nat : Behind(v, rest, hw)
  <2> HIDE DEF a, s, GD, Gs, Ps
  <2>1. \A hw \in Nat : a + hw >= GAP \/ (a + hw >= 1 /\ a + rest <= GD - GRAIN + Gs)
    BY <1>1, <1>5
  <2> QED
    BY <2>1 DEF Behind, a, s, GD, Gs
<1> HIDE DEF a, s, GD, Gs, Ps
<1>8. rest + GRAIN < GD
  BY <1>1, <1>2, <1>3, <1>4, <1>5
<1> QED
  BY <1>6, <1>7, <1>8 DEF GD

\* A tick later.
LEMMA AtTick ==
  ASSUME NEW v \in Watch, NEW rest \in Nat, rest > 0, NEW z \in Nat,
         InTime(v, rest, z), NEW y \in Nat, y <= z + 1
  PROVE  /\ InTime([v EXCEPT !.age = @ + 1], rest - 1, y)
         /\ \A hw \in Nat \ {0} : Behind(v, rest, hw) =>
              Behind([v EXCEPT !.age = @ + 1], rest - 1, hw - 1)
<1> DEFINE a == v.age
           s == v.slips
           u == [v EXCEPT !.age = @ + 1]
           GD == GRAIN * DURATION
           Gs == GRAIN * s
           Ps == GAP * s
<1>1. a \in Nat /\ s \in Nat /\ u.age = a + 1 /\ u.slips = s
  BY DEF Watch
<1>2. GD \in Nat /\ Gs \in Nat /\ Ps \in Nat
  BY <1>1
<1>3. GD - GRAIN <= a + rest /\ a + rest <= GD + Gs /\ a >= Ps + z
  BY DEF InTime
<1> HIDE DEF a, s, u, GD, Gs, Ps
<1>4. GD - GRAIN <= (a + 1) + (rest - 1) /\ (a + 1) + (rest - 1) <= GD + Gs /\ a + 1 >= Ps + y
  BY <1>1, <1>2, <1>3
<1>5. InTime(u, rest - 1, y)
  BY <1>1, <1>4 DEF InTime, GD, Gs, Ps
<1>6. ASSUME NEW hw \in Nat \ {0}, Behind(v, rest, hw)
      PROVE  Behind(u, rest - 1, hw - 1)
  <2>1. a + hw >= GAP \/ (a + hw >= 1 /\ a + rest <= GD - GRAIN + Gs)
    BY <1>6 DEF Behind, a, s, GD, Gs
  <2>2. (a + 1) + (hw - 1) >= GAP
        \/ ((a + 1) + (hw - 1) >= 1 /\ (a + 1) + (rest - 1) <= GD - GRAIN + Gs)
    BY <1>1, <1>2, <2>1
  <2> QED
    BY <1>1, <2>2 DEF Behind, GD, Gs
<1> QED
  BY <1>5, <1>6 DEF u

\* A timer that has just been set.
LEMMA JustSet ==
  ASSUME NEW x \in Nat, GRAIN * DURATION - GRAIN <= x, x <= GRAIN * DURATION,
         NEW v, v = [age |-> 0, slips |-> 0]
  PROVE  /\ InTime(v, x, 0)
         /\ \A hw \in Nat : hw >= GAP => Behind(v, x, hw)
         /\ \A hw \in Nat : hw > 0 /\ x = GRAIN * DURATION - GRAIN => Behind(v, x, hw)
<1>1. v.age = 0 /\ v.slips = 0 /\ GRAIN * 0 = 0 /\ GAP * 0 = 0 /\ GRAIN * DURATION \in Nat
  OBVIOUS
<1> DEFINE GD == GRAIN * DURATION
<1> HIDE DEF GD
<1>2. GD \in Nat /\ GD - GRAIN <= x /\ x <= GD
  BY <1>1 DEF GD
<1>3. GD - GRAIN <= 0 + x /\ 0 + x <= GD + 0 /\ 0 >= 0 + 0
  BY <1>2
<1>4. InTime(v, x, 0)
  BY <1>1, <1>3 DEF InTime, GD
<1>5. ASSUME NEW hw \in Nat, hw >= GAP PROVE Behind(v, x, hw)
  <2>1. 0 + hw >= GAP
    BY <1>5
  <2> QED
    BY <1>1, <2>1 DEF Behind
<1>6. ASSUME NEW hw \in Nat, hw > 0, x = GD - GRAIN PROVE Behind(v, x, hw)
  <2>1. 0 + hw >= 1 /\ 0 + x <= GD - GRAIN + 0
    BY <1>2, <1>6
  <2> QED
    BY <1>1, <2>1 DEF Behind, GD
<1> QED
  BY <1>4, <1>5, <1>6 DEF GD

\* The timers of q with the histories w, z ticks after the last call.
Timed(q, w, r, z) ==
  /\ Due(q, r)
  /\ \A i \in 1 .. Count(q) : InTime(w[i], r[i], z)
  /\ \A i \in 2 .. Count(q) : Behind(w[i], r[i], q.hw)

\* A timer set now expires behind the others.
ReadyToSet(q, r) ==
  Count(q) > 0 => /\ q.hw > 0
                  /\ q.hw >= GAP \/ \E k \in Nat : q.hw = GRAIN * k
                  /\ r[Count(q)] + GRAIN < GRAIN * DURATION

LEMMA AddTimed ==
  ASSUME NEW q \in Ring, NEW w \in Seq(Watch), Len(w) = Count(q),
         NEW r, Timed(q, w, r, 0), ReadyToSet(q, r), NEW s \in SeqNumber
  PROVE  \E x : Timed(add_new_timer(q, s), Watched(w), x, 0)
<1> DEFINE a == add_new_timer(q, s)
           n == Count(q)
           v == [age |-> 0, slips |-> 0]
<1>1. /\ Due(q, r)
      /\ \A i \in 1 .. n : InTime(w[i], r[i], 0)
      /\ \A i \in 2 .. n : Behind(w[i], r[i], q.hw)
  BY DEF Timed
<1>2. n \in 0 .. MAX_UNACK_PACKETS
  BY QueueType
<1>3. CASE ~(n < MAX_UNACK_PACKETS)
  <2>1. a = q
    BY <1>3, RoomAndEmpty DEF add_new_timer
  <2>2. Watched(w) = w
    BY <1>3 DEF Watched
  <2>3. Timed(a, Watched(w), r, 0)
    BY <2>1, <2>2
  <2> QED
    BY <2>3
<1>4. CASE n < MAX_UNACK_PACKETS
  <2>1. n > 0 => q.hw > 0 /\ r[n] + GRAIN < GRAIN * DURATION
    BY DEF ReadyToSet
  <2>2. PICK x \in Nat :
          /\ Due(a, [i \in 1 .. n + 1 |-> IF i = n + 1 THEN x ELSE r[i]])
          /\ a.hw = IF n = 0 THEN x ELSE q.hw
          /\ GRAIN * DURATION - GRAIN <= x /\ x <= GRAIN * DURATION
          /\ n > 0 => \A k \in Nat : q.hw = GRAIN * k => x = GRAIN * DURATION - GRAIN
    BY <1>1, <1>4, <2>1, AddDue
  <2> DEFINE R == [i \in 1 .. n + 1 |-> IF i = n + 1 THEN x ELSE r[i]]
  <2>3. Count(a) = n + 1
    BY <1>1, <1>4, AddType DEF Due
  <2>4. Watched(w) = Append(w, v)
    BY <1>4 DEF Watched
  <2>5. /\ \A i \in 1 .. n : Append(w, v)[i] = w[i]
        /\ Append(w, v)[n + 1] = v
    <3>1. v \in Watch
      BY DEF Watch
    <3> HIDE DEF v, n
    <3> QED
      BY <3>1, AppendProperties DEF n
  <2>6. R[n + 1] = x /\ \A i \in 1 .. n : R[i] = r[i]
    <3>1. n + 1 \in 1 .. n + 1 /\ \A i \in 1 .. n : i \in 1 .. n + 1 /\ i # n + 1
      BY <1>2
    <3> QED
      BY <3>1
  <2>7. InTime(v, x, 0)
    BY <2>2, JustSet
  <2>8. ASSUME n > 0 PROVE Behind(v, x, a.hw)
    <3>1. a.hw = q.hw /\ q.hw \in Nat /\ q.hw > 0
      <4>1. q.hw \in Nat /\ n # 0
        BY <1>1, <1>2, <2>8, DueTypes
      <4> QED
        BY <2>1, <2>2, <2>8, <4>1
    <3>2. CASE q.hw >= GAP
      BY <2>2, <3>1, <3>2, JustSet
    <3>3. CASE \E k \in Nat : q.hw = GRAIN * k
      <4>1. x = GRAIN * DURATION - GRAIN
        BY <2>2, <2>8, <3>3
      <4> QED
        BY <2>2, <3>1, <4>1, JustSet
    <3> QED
      BY <2>8, <3>2, <3>3 DEF ReadyToSet
  <2> HIDE DEF a, n, v, R
  <2>9. \A i \in 1 .. n + 1 : InTime(Append(w, v)[i], R[i], 0)
    <3> TAKE i \in 1 .. n + 1
    <3>1. i = n + 1 \/ i \in 1 .. n
      BY <1>2
    <3> QED
      BY <1>1, <2>5, <2>6, <2>7, <3>1
  <2>10. \A i \in 2 .. n + 1 : Behind(Append(w, v)[i], R[i], a.hw)
    <3> TAKE i \in 2 .. n + 1
    <3>1. n > 0 /\ n # 0 /\ (i = n + 1 \/ (i \in 2 .. n /\ i \in 1 .. n))
      BY <1>2
    <3>2. a.hw = q.hw
      BY <2>2, <3>1
    <3> QED
      BY <1>1, <2>5, <2>6, <2>8, <3>1, <3>2
  <2>11. Timed(a, Watched(w), R, 0)
    BY <2>2, <2>3, <2>4, <2>9, <2>10 DEF Timed, R
  <2> QED
    BY <2>11 DEF a
<1> QED
  BY <1>3, <1>4

LEMMA CancelTimed ==
  ASSUME GAP > 2 * GRAIN, fifo \in Ring, watch \in Seq(Watch), Len(watch) = Count(fifo),
         NEW r, Timed(fifo, watch, r, GAP), NEW s
  PROVE  LET a == cancel_timer(fifo, s)
         IN  \E x : /\ Timed(a, Unwatched(watch, s), x, 0)
                    /\ \A i \in 1 .. Count(a) : /\ x[i] \in Nat
                                                /\ x[i] + GRAIN < GRAIN * DURATION
<1> DEFINE a == cancel_timer(fifo, s)
           n == Count(fifo)
           P == Places(fifo, s)
           m == Min(P)
           Soon(x) == \A i \in 1 .. Count(a) : x[i] \in Nat /\ x[i] + GRAIN < GRAIN * DURATION
<1>1. /\ Due(fifo, r)
      /\ \A i \in 1 .. n : InTime(watch[i], r[i], GAP)
      /\ n \in Nat
      /\ \A i \in 1 .. n : r[i] \in Nat
      /\ n > 0 => fifo.hw \in Nat
  BY DueTypes DEF Timed
<1>2. \A i \in 1 .. n : watch[i] \in Watch
  BY LenProperties
<1>3. \A i \in 1 .. n : /\ r[i] + 2 * GRAIN < GRAIN * DURATION
                        /\ InTime(watch[i], r[i], 0)
                        /\ \A hw \in Nat : Behind(watch[i], r[i], hw)
                        /\ \A d \in 0 .. GRAIN :
                             /\ InTime([watch[i] EXCEPT !.slips = @ + 1], r[i] + d, 0)
                             /\ \A hw \in Nat :
                                  Behind([watch[i] EXCEPT !.slips = @ + 1], r[i] + d, hw)
  BY <1>1, <1>2, AtCall
<1>0. GRAIN * DURATION \in Int
  OBVIOUS
<1>8. \A i \in 1 .. n : r[i] \in Nat /\ r[i] + 2 * GRAIN < GRAIN * DURATION
  BY <1>1, <1>3
<1>4. CASE P = {}
  <2>1. a = fifo /\ Unwatched(watch, s) = watch
    BY <1>4 DEF cancel_timer, Unwatched
  <2>2. \A i \in 2 .. n : i \in 1 .. n /\ n > 0
    BY <1>1
  <2>3. Timed(fifo, watch, r, 0)
    BY <1>1, <1>3, <2>2 DEF Timed
  <2>4. \A i \in 1 .. n : r[i] \in Nat /\ r[i] + GRAIN < GRAIN * DURATION
    <3> TAKE i \in 1 .. n
    <3>1. r[i] \in Nat /\ r[i] + 2 * GRAIN < GRAIN * DURATION /\ GRAIN * DURATION \in Int
      BY <1>0, <1>8
    <3> QED
      BY <3>1
  <2> QED
    BY <2>1, <2>3, <2>4
<1>5. CASE P # {}
  <2>1. m \in 1 .. n
    BY <1>5, FirstPlace
  <2>2. n > 1 => r[2] + GRAIN <= GRAIN * DURATION
    <3> SUFFICES ASSUME n > 1 PROVE r[2] + GRAIN <= GRAIN * DURATION
      OBVIOUS
    <3>1. 2 \in 1 .. n
      BY <1>1
    <3>2. r[2] \in Nat /\ r[2] + 2 * GRAIN < GRAIN * DURATION /\ GRAIN * DURATION \in Int
      BY <1>0, <1>8, <3>1
    <3> QED
      BY <3>2
  <2>3. PICK d \in 0 .. GRAIN :
          /\ Due(a, [k \in 1 .. n - 1 |-> IF k < m THEN r[k] ELSE r[k + 1] + d])
          /\ 1 \notin P => d = 0
          /\ 1 \in P => m = 1
    BY <1>1, <1>5, <2>2, CancelDue
  <2> DEFINE R == [k \in 1 .. n - 1 |-> IF k < m THEN r[k] ELSE r[k + 1] + d]
             slip(v) == IF 1 \in P THEN [v EXCEPT !.slips = @ + 1] ELSE v
             u == [i \in 1 .. n - 1 |-> slip(IF i < m THEN watch[i] ELSE watch[i + 1])]
  <2>4. Unwatched(watch, s) = u
    BY <1>5 DEF Unwatched
  <2>5. Count(a) = n - 1 /\ a \in Ring
    BY <1>1, <1>5, CancelType DEF Due
  <2>6. ASSUME NEW i \in 1 .. n - 1
        PROVE  /\ InTime(u[i], R[i], 0)
               /\ Behind(u[i], R[i], a.hw)
               /\ R[i] \in Nat /\ R[i] + GRAIN < GRAIN * DURATION
    <3> DEFINE j == IF i < m THEN i ELSE i + 1
    <3>1. i \in 1 .. n /\ i + 1 \in 1 .. n /\ j \in 1 .. n
      BY <1>1
    <3>2. u[i] = slip(watch[j])
      OBVIOUS
    <3>3. R[i] = IF 1 \in P THEN r[j] + d ELSE r[j]
      <4>1. CASE 1 \in P
        <5>1. ~(i < m)
          BY <2>3, <4>1
        <5> QED
          BY <4>1, <5>1
      <4>2. CASE 1 \notin P
        <5>1. d = 0 /\ r[i] \in Nat /\ r[i + 1] \in Nat
          BY <1>1, <2>3, <3>1, <4>2
        <5>2. R[i] = IF i < m THEN r[i] ELSE r[i + 1] + d
          OBVIOUS
        <5> HIDE DEF R
        <5> QED
          BY <4>2, <5>1, <5>2
      <4> QED
        BY <4>1, <4>2
    <3>4. a.hw \in Nat
      <4> HIDE DEF a, R
      <4>1. Due(a, R) /\ Count(a) > 0
        BY <1>1, <2>3, <2>5 DEF R
      <4> QED
        BY <2>5, <4>1, DueTypes
    <3>5. r[j] \in Nat /\ watch[j] \in Watch /\ r[j] + 2 * GRAIN < GRAIN * DURATION
          /\ GRAIN * DURATION \in Int
      <4> HIDE DEF j
      <4> QED
        BY <1>0, <1>2, <1>8, <3>1
    <3>6. /\ InTime(watch[j], r[j], 0) /\ Behind(watch[j], r[j], a.hw)
          /\ InTime([watch[j] EXCEPT !.slips = @ + 1], r[j] + d, 0)
          /\ Behind([watch[j] EXCEPT !.slips = @ + 1], r[j] + d, a.hw)
      <4> HIDE DEF j, a
      <4> QED
        BY <1>3, <3>1, <3>4
    <3> HIDE DEF R, u, j, a
    <3>7. InTime(u[i], R[i], 0) /\ Behind(u[i], R[i], a.hw)
      BY <3>2, <3>3, <3>6
    <3>8. R[i] \in Nat /\ R[i] + GRAIN < GRAIN * DURATION
      BY <3>3, <3>5, SMTT(30)
    <3> QED
      BY <3>7, <3>8
  <2>7. \A i \in 2 .. n - 1 : i \in 1 .. n - 1
    BY <1>1
  <2> HIDE DEF R, u, a, n
  <2>8. Timed(a, Unwatched(watch, s), R, 0)
    BY <2>3, <2>4, <2>5, <2>6, <2>7 DEF Timed, R
  <2>9. \A i \in 1 .. Count(a) : R[i] \in Nat /\ R[i] + GRAIN < GRAIN * DURATION
    BY <2>5, <2>6
  <2> QED
    BY <2>8, <2>9 DEF a
<1> QED
  BY <1>4, <1>5

LEMMA InterruptTimed ==
  ASSUME GAP > 2 * GRAIN, fifo \in Ring, watch \in Seq(Watch), Len(watch) = Count(fifo),
         NEW z \in Nat, NEW r, Timed(fifo, watch, r, z), fifo.hw = 0
  PROVE  \E x : /\ Timed(Interrupted(fifo), Tail(watch), x, 0)
                /\ ReadyToSet(Interrupted(fifo), x)
<1> DEFINE a == Interrupted(fifo)
           n == Count(fifo)
           R == [i \in 1 .. n - 1 |-> r[i + 1]]
<1>1. /\ Due(fifo, r)
      /\ \A i \in 1 .. n : InTime(watch[i], r[i], z)
      /\ \A i \in 2 .. n : Behind(watch[i], r[i], 0)
      /\ n \in Nat
      /\ \A i \in 1 .. n : r[i] \in Nat
      /\ n > 0
  <2>1. fifo.hw # Idle
    BY DEF Idle
  <2>2. /\ Due(fifo, r)
        /\ \A i \in 1 .. n : InTime(watch[i], r[i], z)
        /\ \A i \in 2 .. n : Behind(watch[i], r[i], 0)
    BY DEF Timed
  <2>3. n > 0
    BY <2>1, <2>2 DEF Due
  <2> QED
    BY <2>2, <2>3, DueTypes
<1>2. \A i \in 1 .. n : watch[i] \in Watch
  BY LenProperties
<1>3. ASSUME NEW i \in 2 .. n
      PROVE  /\ r[i] + GRAIN < GRAIN * DURATION
             /\ InTime(watch[i], r[i], 0)
             /\ \A hw \in Nat : Behind(watch[i], r[i], hw)
             /\ r[i] \in Nat
  <2>1. i \in 1 .. n
    BY <1>1
  <2> QED
    BY <1>1, <1>2, <2>1, AtInterrupt
<1>4. n > 1 => r[2] <= GRAIN * DURATION
  <2> SUFFICES ASSUME n > 1 PROVE r[2] <= GRAIN * DURATION
    OBVIOUS
  <2>1. 2 \in 2 .. n
    BY <1>1
  <2>2. r[2] \in Nat /\ r[2] + GRAIN < GRAIN * DURATION /\ GRAIN * DURATION \in Int
    BY <1>3, <2>1
  <2> QED
    BY <2>2
<1>5. fifo.hw # Idle /\ fifo.hw <= 0
  BY DEF Idle
<1>6. /\ Due(a, R)
      /\ n > 1 => /\ \E k \in Nat : a.hw = GRAIN * k
                  /\ a.hw > 0 /\ a.hw = r[2]
  BY <1>1, <1>4, <1>5, InterruptDue
<1>7. Count(a) = n - 1 /\ a \in Ring
  BY <1>1, InterruptType
<1>8. \A i \in 1 .. n - 1 : Tail(watch)[i] = watch[i + 1] /\ R[i] = r[i + 1] /\ i + 1 \in 2 .. n
  <2>1. watch # <<>>
    BY <1>1
  <2>2. \A i \in 1 .. n - 1 : i + 1 \in 2 .. n
    BY <1>1
  <2> HIDE DEF n
  <2>3. \A i \in 1 .. n - 1 : Tail(watch)[i] = watch[i + 1]
    BY <1>1, <2>1, HeadTailProperties DEF n
  <2> QED
    BY <2>2, <2>3
<1> HIDE DEF a, R, n
<1>9. n > 1 => a.hw \in Nat
  BY <1>1, <1>6, <1>7, DueTypes
<1>10. \A i \in 2 .. n - 1 : i \in 1 .. n - 1 /\ n > 1
  BY <1>1
<1>11. \A i \in 1 .. n - 1 : InTime(Tail(watch)[i], R[i], 0)
  BY <1>3, <1>8
<1>12. \A i \in 2 .. n - 1 : Behind(Tail(watch)[i], R[i], a.hw)
  <2> TAKE i \in 2 .. n - 1
  <2>1. i \in 1 .. n - 1 /\ a.hw \in Nat
    BY <1>9, <1>10
  <2> QED
    BY <1>3, <1>8, <2>1
<1>13. Timed(a, Tail(watch), R, 0)
  BY <1>6, <1>7, <1>11, <1>12 DEF Timed
<1>14. ReadyToSet(a, R)
  <2> SUFFICES ASSUME Count(a) > 0
               PROVE  /\ a.hw > 0 /\ \E k \in Nat : a.hw = GRAIN * k
                      /\ R[Count(a)] + GRAIN < GRAIN * DURATION
    BY DEF ReadyToSet
  <2>1. n > 1 /\ n - 1 \in 1 .. n - 1 /\ (n - 1) + 1 = n /\ n \in 2 .. n
    BY <1>1, <1>7
  <2>2. R[n - 1] = r[n]
    BY <1>8, <2>1
  <2> QED
    BY <1>3, <1>6, <1>7, <2>1, <2>2
<1> QED
  BY <1>13, <1>14 DEF a

LEMMA TickTimed ==
  ASSUME FifoInv, NEW r, Timed(fifo, watch, r, quiet), Tick
  PROVE  \E x : Timed(fifo', watch', x, quiet')
<1> DEFINE n == Count(fifo)
<1>1. /\ fifo \in Ring /\ watch \in Seq(Watch) /\ Len(watch) = n /\ quiet \in 0 .. GAP
      /\ fifo.hw # 0
      /\ fifo' = IF fifo.hw = Idle THEN fifo ELSE [fifo EXCEPT !.hw = @ - 1]
      /\ watch' = [i \in 1 .. Len(watch) |-> [watch[i] EXCEPT !.age = @ + 1]]
      /\ quiet' = Min({quiet + 1, GAP})
  BY DEF FifoInv, TypeOK, Ring, Watch, Tick
<1>2. /\ Due(fifo, r)
      /\ \A i \in 1 .. n : InTime(watch[i], r[i], quiet)
      /\ \A i \in 2 .. n : Behind(watch[i], r[i], fifo.hw)
      /\ n \in Nat
      /\ \A i \in 1 .. n : r[i] \in Nat /\ watch[i] \in Watch
      /\ n > 0 => fifo.hw \in Nat
      /\ n = 0 => fifo.hw = Idle
      /\ fifo.timers_sum \in 0 .. MICROS_T - 1
  BY <1>1, DueTypes, LenProperties DEF Timed
<1>3. quiet' \in Nat /\ quiet' <= quiet + 1
  <2>1. \E x \in {quiet + 1, GAP} : \A y \in {quiet + 1, GAP} : x <= y
    BY <1>1
  <2>2. quiet' \in {quiet + 1, GAP} /\ \A y \in {quiet + 1, GAP} : quiet' <= y
    BY <1>1, <2>1 DEF Min
  <2> QED
    BY <1>1, <2>2
<1>4. CASE fifo.hw = Idle
  <2>1. n = 0
    BY <1>2, <1>4 DEF Due
  <2>2. fifo' = fifo
    BY <1>1, <1>4
  <2>3. Due(fifo', r) /\ Count(fifo') = 0 /\ 1 .. 0 = {} /\ 2 .. 0 = {}
    BY <1>2, <2>1, <2>2
  <2>4. Timed(fifo', watch', r, quiet')
    BY <2>3 DEF Timed
  <2> QED
    BY <2>4
<1>5. CASE fifo.hw # Idle
  <2>1. n > 0 /\ fifo.hw \in Nat /\ fifo.hw > 0
    BY <1>1, <1>2, <1>5 DEF Due
  <2>2. fifo.hw - 1 \in Nat
    BY <2>1
  <2>3. /\ fifo'.hw = fifo.hw - 1 /\ fifo'.data = fifo.data /\ fifo'.tail = fifo.tail
        /\ fifo'.head = fifo.head /\ fifo'.timers_sum = fifo.timers_sum
    BY <1>1, <1>5 DEF Ring
  <2>4. Count(fifo') = n /\ \A i : Val(fifo', i) = Val(fifo, i)
    BY <2>3 DEF Count, Val, Place
  <2>5. /\ r[1] = fifo.hw
        /\ \A i \in 2 .. n : r[i] = r[i - 1] + GRAIN * Val(fifo, i)
        /\ \A i, j \in 1 .. n : i < j => r[i] < r[j]
        /\ GRAIN * fifo.timers_sum = r[n] - fifo.hw
    <3>1. n # 0 /\ n > 0
      BY <1>2, <2>1
    <3>2. Due(fifo, r)
      BY <1>2
    <3> QED
      BY <3>1, <3>2 DEF Due
  <2>6. \A i \in 1 .. n : r[i] \in Nat /\ r[i] > 0 /\ r[i] - 1 \in Nat
    <3> TAKE i \in 1 .. n
    <3>1. 1 \in 1 .. n /\ (i = 1 \/ 1 < i)
      BY <1>2, <2>1
    <3>2. r[i] \in Nat /\ (1 < i => r[1] < r[i])
      BY <1>2, <2>5, <3>1
    <3> QED
      BY <2>1, <2>5, <3>1, <3>2
  <2> DEFINE R == [i \in 1 .. n |-> r[i] - 1]
  <2>7. R \in [1 .. n -> Nat] /\ \A i \in 1 .. n : R[i] = r[i] - 1
    BY <2>6
  <2> HIDE DEF R, n
  <2>8. \A i \in 2 .. n : R[i] = R[i - 1] + GRAIN * Val(fifo', i)
    <3> TAKE i \in 2 .. n
    <3>1. i \in 1 .. n /\ i - 1 \in 1 .. n
      BY <1>2
    <3>2. r[i] = r[i - 1] + GRAIN * Val(fifo, i) /\ Val(fifo', i) = Val(fifo, i)
      BY <2>4, <2>5
    <3>3. Val(fifo, i) \in 0 .. MICROS_T - 1
      BY <1>1, <1>2, <3>1, DueTypes DEF n
    <3>4. GRAIN * Val(fifo, i) \in Int
      BY <3>3, TicksInt
    <3> QED
      BY <2>6, <2>7, <3>1, <3>2, <3>4, SMTT(20)
  <2>9. \A i, j \in 1 .. n : i < j => R[i] < R[j]
    <3> TAKE i, j \in 1 .. n
    <3>1. /\ i < j => r[i] < r[j]
          /\ r[i] \in Nat /\ r[j] \in Nat /\ R[i] = r[i] - 1 /\ R[j] = r[j] - 1
      BY <2>5, <2>6, <2>7
    <3> QED
      BY <3>1
  <2>10. /\ R[1] = fifo'.hw /\ GRAIN * fifo'.timers_sum = R[n] - fifo'.hw /\ n # 0
         /\ fifo'.hw # Idle
    <3>1. 1 \in 1 .. n /\ n \in 1 .. n /\ n # 0
      BY <1>2, <2>1
    <3>2. R[1] = r[1] - 1 /\ R[n] = r[n] - 1 /\ r[n] \in Nat
      BY <2>6, <2>7, <3>1
    <3>3. fifo'.hw # Idle
      BY <2>1, <2>3 DEF Idle
    <3> QED
      BY <2>1, <2>3, <2>5, <3>1, <3>2, <3>3
  <2>11. Due(fifo', R)
    BY <2>1, <2>4, <2>7, <2>8, <2>9, <2>10 DEF Due
  <2>12. \A i \in 1 .. n : watch'[i] = [watch[i] EXCEPT !.age = @ + 1]
    BY <1>1
  <2>13. \A i \in 1 .. n : InTime(watch'[i], R[i], quiet')
    <3> TAKE i \in 1 .. n
    <3>1. /\ watch[i] \in Watch /\ r[i] \in Nat /\ r[i] > 0 /\ quiet \in Nat
          /\ InTime(watch[i], r[i], quiet)
      BY <1>1, <1>2, <2>6
    <3>2. InTime([watch[i] EXCEPT !.age = @ + 1], r[i] - 1, quiet')
      BY <1>3, <3>1, AtTick
    <3> QED
      BY <2>7, <2>12, <3>2
  <2>14. \A i \in 2 .. n : Behind(watch'[i], R[i], fifo'.hw)
    <3> TAKE i \in 2 .. n
    <3>1. i \in 1 .. n
      BY <1>2
    <3>2. /\ watch[i] \in Watch /\ r[i] \in Nat /\ r[i] > 0 /\ quiet \in Nat
          /\ InTime(watch[i], r[i], quiet) /\ Behind(watch[i], r[i], fifo.hw)
          /\ fifo.hw \in Nat \ {0}
      BY <1>1, <1>2, <2>1, <2>6, <3>1
    <3>3. Behind([watch[i] EXCEPT !.age = @ + 1], r[i] - 1, fifo.hw - 1)
      BY <1>3, <3>2, AtTick
    <3> QED
      BY <2>3, <2>7, <2>12, <3>1, <3>3
  <2>15. Timed(fifo', watch', R, quiet')
    BY <2>4, <2>11, <2>13, <2>14 DEF Timed
  <2> QED
    BY <2>15
<1> QED
  BY <1>4, <1>5

\* Every timer expires in the time it was set for, and the hardware timer runs
\* while one waits.
TimesInv == FifoInv /\ \E r : Timed(fifo, watch, r, quiet)

LEMMA InitTimes == Init => TimesInv
<1> SUFFICES ASSUME Init PROVE TimesInv
  OBVIOUS
<1>1. FifoInv /\ Queue(fifo) = <<>>
  BY InitFifo
<1>2. fifo \in Ring
  BY <1>1 DEF FifoInv, TypeOK, Ring
<1>3. Count(fifo) = 0
  BY <1>1, <1>2, QueueType
<1>4. fifo.hw = Idle /\ fifo.timers_sum = 0
  BY DEF Init
<1> DEFINE r == [i \in 1 .. 0 |-> 0]
<1>5. r \in [1 .. 0 -> Nat] /\ 1 .. 0 = {} /\ 2 .. 0 = {} /\ GRAIN * 0 = 0
  OBVIOUS
<1> HIDE DEF r
<1>6. Due(fifo, r)
  BY <1>3, <1>4, <1>5 DEF Due
<1>7. Timed(fifo, watch, r, quiet)
  BY <1>3, <1>5, <1>6 DEF Timed
<1> QED
  BY <1>1, <1>7 DEF TimesInv

\* At a call a GAP has passed since the last, so a timer can be set.
LEMMA SetAtCall ==
  ASSUME GAP > 2 * GRAIN, NEW q \in Ring, CalmToSet(q), NEW w, NEW x, Timed(q, w, x, 0),
         \A i \in 1 .. Count(q) : x[i] \in Nat /\ x[i] + GRAIN < GRAIN * DURATION
  PROVE  ReadyToSet(q, x)
<1> SUFFICES ASSUME Count(q) > 0
             PROVE  /\ q.hw > 0 /\ q.hw >= GAP
                    /\ x[Count(q)] + GRAIN < GRAIN * DURATION
  BY DEF ReadyToSet
<1>1. Due(q, x)
  BY DEF Timed
<1>2. q.hw # Idle /\ q.hw \in Nat /\ Count(q) \in Nat
  <2>1. q.hw \in Nat /\ Count(q) \in Nat
    BY <1>1, DueTypes
  <2> QED
    BY <2>1 DEF Idle
<1>3. Count(q) \in 1 .. Count(q)
  BY <1>2
<1>4. q.hw >= GAP
  BY <1>2 DEF CalmToSet
<1> QED
  BY <1>2, <1>3, <1>4

LEMMA TimesStep ==
  ASSUME GAP > 2 * GRAIN
  PROVE  TimesInv /\ [Next]_vars => TimesInv'
<1> SUFFICES ASSUME TimesInv, [Next]_vars
             PROVE  TimesInv'
  OBVIOUS
<1>1. FifoInv'
  BY FifoStep DEF TimesInv
<1>2. PICK r : Timed(fifo, watch, r, quiet)
  BY DEF TimesInv
<1>3. /\ FifoInv /\ fifo \in Ring /\ watch \in Seq(Watch) /\ Len(watch) = Count(fifo)
      /\ quiet \in 0 .. GAP /\ quiet \in Nat
      /\ fifo.hw # Idle => Count(fifo) > 0
  BY DEF TimesInv, FifoInv, TypeOK, Ring, Watch
<1>4. ASSUME Calm PROVE Timed(fifo, watch, r, GAP)
  <2>1. quiet = GAP
    BY <1>3, <1>4 DEF Calm
  <2> QED
    BY <1>2, <2>1
<1>5. ASSUME NEW s \in SeqNumber, AddNewTimer(s)
      PROVE  \E x : Timed(fifo', watch', x, quiet')
  <2>1. /\ Calm /\ CalmToSet(fifo) /\ quiet' = 0
        /\ fifo' = add_new_timer(fifo, s) /\ watch' = Watched(watch)
    BY <1>5 DEF AddNewTimer
  <2>2. Timed(fifo, watch, r, GAP)
    BY <1>4, <2>1
  <2>3. \A i \in 1 .. Count(fifo) : /\ InTime(watch[i], r[i], 0)
                                    /\ r[i] \in Nat /\ r[i] + 2 * GRAIN < GRAIN * DURATION
    <3> TAKE i \in 1 .. Count(fifo)
    <3>1. Due(fifo, r) /\ InTime(watch[i], r[i], GAP)
      BY <2>2 DEF Timed
    <3>2. watch[i] \in Watch /\ r[i] \in Nat
      BY <1>3, <3>1, DueTypes, LenProperties
    <3> QED
      BY <3>1, <3>2, AtCall
  <2>4. Timed(fifo, watch, r, 0)
    BY <2>2, <2>3 DEF Timed
  <2>5. \A i \in 1 .. Count(fifo) : r[i] \in Nat /\ r[i] + GRAIN < GRAIN * DURATION
    <3> TAKE i \in 1 .. Count(fifo)
    <3>1. r[i] \in Nat /\ r[i] + 2 * GRAIN < GRAIN * DURATION /\ GRAIN * DURATION \in Int
      BY <2>3, TicksInt
    <3> QED
      BY <3>1
  <2>6. ReadyToSet(fifo, r)
    BY <1>3, <2>1, <2>4, <2>5, SetAtCall
  <2> QED
    BY <1>3, <2>1, <2>4, <2>6, AddTimed
<1>6. ASSUME NEW s \in SeqNumber, CancelTimer(s)
      PROVE  \E x : Timed(fifo', watch', x, quiet')
  <2>1. /\ Calm /\ quiet' = 0
        /\ fifo' = cancel_timer(fifo, s) /\ watch' = Unwatched(watch, s)
    BY <1>6 DEF CancelTimer
  <2>2. \E x : Timed(cancel_timer(fifo, s), Unwatched(watch, s), x, 0)
    BY <1>3, <1>4, <2>1, CancelTimed
  <2> QED
    BY <2>1, <2>2
<1>7. ASSUME NEW s \in SeqNumber, NEW t \in SeqNumber, CancelAndAdd(s, t)
      PROVE  \E x : Timed(fifo', watch', x, quiet')
  <2> DEFINE q == cancel_timer(fifo, s)
             w == Unwatched(watch, s)
  <2>1. /\ Calm /\ CalmToSet(q) /\ quiet' = 0
        /\ fifo' = add_new_timer(q, t) /\ watch' = Watched(w)
        /\ \A i \in 1 .. Len(watch) : watch[i].slips < MAX_SLIPS
    BY <1>7 DEF CancelAndAdd
  <2>2. PICK x : /\ Timed(q, w, x, 0)
                 /\ \A i \in 1 .. Count(q) : /\ x[i] \in Nat
                                             /\ x[i] + GRAIN < GRAIN * DURATION
    BY <1>3, <1>4, <2>1, CancelTimed
  <2>3. q \in Ring /\ Count(q) = IF Places(fifo, s) = {} THEN Count(fifo) ELSE Count(fifo) - 1
    BY <1>3, CancelType
  <2>4. w \in Seq(Watch) /\ Len(w) = Count(q)
    BY <1>3, <2>1, <2>3, UnwatchedType
  <2> HIDE DEF q, w
  <2>5. ReadyToSet(q, x)
    BY <2>1, <2>2, <2>3, SetAtCall
  <2> QED
    BY <2>1, <2>2, <2>3, <2>4, <2>5, AddTimed
<1>8. ASSUME TimerInterrupt PROVE \E x : Timed(fifo', watch', x, quiet')
  <2> DEFINE q == Interrupted(fifo)
             w == Tail(watch)
             s == Queue(fifo)[1]
  <2>1. /\ fifo.hw = 0 /\ fifo' = add_new_timer(q, s) /\ watch' = Watched(w) /\ quiet' = 0
    BY <1>8 DEF TimerInterrupt
  <2>2. PICK x : Timed(q, w, x, 0) /\ ReadyToSet(q, x)
    BY <1>2, <1>3, <2>1, InterruptTimed
  <2>3. Count(fifo) > 0
    BY <1>3, <2>1 DEF Idle
  <2>4. q \in Ring /\ Count(q) = Count(fifo) - 1
    BY <1>3, <2>3, InterruptType
  <2>5. w \in Seq(Watch) /\ Len(w) = Count(q)
    <3>1. watch # <<>> /\ Count(fifo) \in Nat
      BY <1>3, <2>3, QueueType
    <3> HIDE DEF q
    <3> QED
      BY <1>3, <2>4, <3>1, HeadTailProperties
  <2>6. s \in SeqNumber
    <3>1. Queue(fifo) \in Seq(SeqNumber) /\ Len(Queue(fifo)) = Count(fifo) /\ Count(fifo) \in Nat
      BY <1>3, QueueType
    <3>2. 1 \in 1 .. Count(fifo)
      BY <2>3, <3>1
    <3> QED
      BY <3>1, <3>2
  <2> HIDE DEF q, w, s
  <2> QED
    BY <2>1, <2>2, <2>4, <2>5, <2>6, AddTimed
<1>9. ASSUME Tick PROVE \E x : Timed(fifo', watch', x, quiet')
  BY <1>2, <1>3, <1>9, TickTimed
<1>10. ASSUME UNCHANGED vars PROVE \E x : Timed(fifo', watch', x, quiet')
  <2>1. fifo' = fifo /\ watch' = watch /\ quiet' = quiet
    BY <1>10 DEF vars
  <2> QED
    BY <1>2, <2>1
<1>11. \E x : Timed(fifo', watch', x, quiet')
  BY <1>5, <1>6, <1>7, <1>8, <1>9, <1>10 DEF Next
<1> QED
  BY <1>1, <1>11 DEF TimesInv

\* The differences of the ring determine when its timers expire.
LEMMA RemainingIs ==
  ASSUME fifo \in Ring, NEW r, Due(fifo, r)
  PROVE  \A i \in 1 .. Count(fifo) : Remaining[i] = r[i]
<1> DEFINE n == Count(fifo)
           After(f, i) == IF i = 1 THEN fifo.hw
                          ELSE f[i - 1] + GRAIN * fifo.data[Place(fifo, i)].val
           Sums(f) == f = [i \in 1 .. n |-> After(f, i)]
<1>1. n \in Nat
  BY QueueType
<1>2. \A i \in 1 .. n : r[i] = After(r, i)
  <2> TAKE i \in 1 .. n
  <2>1. n > 0 /\ (i = 1 \/ i \in 2 .. n)
    BY <1>1
  <2>2. r[1] = fifo.hw /\ \A k \in 2 .. n : r[k] = r[k - 1] + GRAIN * Val(fifo, k)
    BY <2>1 DEF Due
  <2>3. CASE i = 1
    BY <2>2, <2>3
  <2>4. CASE i \in 2 .. n
    <3>1. i # 1
      BY <2>4
    <3> QED
      BY <2>2, <2>4, <3>1 DEF Val
  <2> QED
    BY <2>1, <2>3, <2>4
<1>3. Sums(r)
  <2>1. r = [i \in 1 .. n |-> r[i]]
    BY DEF Due
  <2> HIDE DEF After
  <2> QED
    BY <1>2, <2>1
<1>4. Remaining = CHOOSE f : Sums(f)
  BY DEF Remaining
<1> HIDE DEF Sums
<1>5. Sums(Remaining)
  BY <1>3, <1>4
<1>6. \A i \in 1 .. n : Remaining[i] = After(Remaining, i)
  <2> HIDE DEF After
  <2> QED
    BY <1>5 DEF Sums
<1>7. SUFFICES ASSUME NEW k \in 1 .. n, Remaining[k] # r[k]
               PROVE  FALSE
  OBVIOUS
<1> DEFINE T == {i \in 1 .. n : Remaining[i] # r[i]}
<1>8. PICK i \in T : \A j \in T : i <= j
  <2>1. T \subseteq Nat /\ T # {}
    BY <1>1, <1>7
  <2> HIDE DEF T
  <2> QED
    BY <2>1, Smallest
<1>9. i \in 1 .. n /\ Remaining[i] # r[i]
  BY <1>8
<1>10. CASE i = 1
  BY <1>2, <1>6, <1>9, <1>10
<1>11. CASE i # 1
  <2>1. i - 1 \in 1 .. n /\ ~(i <= i - 1)
    BY <1>1, <1>9, <1>11
  <2>2. Remaining[i - 1] = r[i - 1]
    BY <1>8, <2>1
  <2> QED
    BY <1>2, <1>6, <1>9, <1>11, <2>2
<1> QED
  BY <1>10, <1>11

LEMMA TimesInvariant ==
  ASSUME GAP > 2 * GRAIN
  PROVE  Spec => []TimesInv
<1>1. Init => TimesInv
  BY InitTimes
<1>2. TimesInv /\ [Next]_vars => TimesInv'
  BY TimesStep
<1> QED
  BY <1>1, <1>2, PTL DEF Spec

\* When the socket's calls are more than two microseconds apart, no difference is
\* taken modulo MICROS_T and pop_timer never says 0 for a timer that is left, so
\* the hardware timer runs exactly while a timer waits.
THEOREM TimerAlwaysRuns ==
  ASSUME GAP > 2 * GRAIN
  PROVE  Spec => []HardwareRuns
<1>1. ASSUME TimesInv PROVE HardwareRuns
  <2>1. \E r : Due(fifo, r)
    BY <1>1 DEF TimesInv, Timed
  <2> QED
    BY <2>1 DEF Due, HardwareRuns
<1> QED
  BY <1>1, TimesInvariant, PTL

\* And every timer expires a DURATION after it was set, less than a microsecond
\* early and late by at most one for each cancellation of the running timer
\* before it, for every capacity, DURATION and number of cancellations.
THEOREM ExpiresOnTime ==
  ASSUME GAP > 2 * GRAIN
  PROVE  Spec => []OnTime
<1>1. ASSUME TimesInv PROVE OnTime
  <2>1. PICK r : Timed(fifo, watch, r, quiet)
    BY <1>1 DEF TimesInv
  <2>2. /\ fifo \in Ring /\ watch \in Seq(Watch) /\ Len(watch) = Count(fifo)
        /\ Due(fifo, r)
    BY <1>1, <2>1 DEF TimesInv, FifoInv, TypeOK, Ring, Watch, Timed
  <2>3. ASSUME NEW i \in 1 .. Count(fifo)
        PROVE  /\ watch[i].age + Remaining[i] >= DURATION * GRAIN - GRAIN
               /\ watch[i].age + Remaining[i] <= (DURATION + watch[i].slips) * GRAIN
    <3>1. /\ GRAIN * DURATION - GRAIN <= watch[i].age + r[i]
          /\ watch[i].age + r[i] <= GRAIN * DURATION + GRAIN * watch[i].slips
      BY <2>1 DEF Timed, InTime
    <3>2. Remaining[i] = r[i] /\ r[i] \in Nat /\ watch[i] \in Watch
      BY <2>2, RemainingIs, DueTypes, LenProperties
    <3>3. watch[i].age \in Nat /\ watch[i].slips \in Nat
      BY <3>2 DEF Watch
    <3>4. /\ DURATION * GRAIN = GRAIN * DURATION
          /\ (DURATION + watch[i].slips) * GRAIN = GRAIN * DURATION + GRAIN * watch[i].slips
      BY <3>3
    <3> QED
      BY <3>1, <3>2, <3>4
  <2> QED
    BY <2>3 DEF OnTime
<1> QED
  BY <1>1, TimesInvariant, PTL
=============================================================================
