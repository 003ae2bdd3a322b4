------------------------------ MODULE TimerFifo ------------------------------
(***************************************************************************)
(* TimerFifo: the retransmission timers of a socket on one hardware timer  *)
(* (ost/model/timer_fifo.cc).  A ring of pairs holds, from tail to head,   *)
(* the sequence number of each timer and how long after the timer before   *)
(* it expires; the hardware timer runs for the one at tail.                *)
(*                                                                         *)
(* Values are whole microseconds in a micros_t.  The clock of the          *)
(* simulator is finer, here GRAIN ticks to the microsecond.                *)
(***************************************************************************)
EXTENDS Integers, Sequences, FiniteSetsExt

CONSTANTS
  SeqNumber,          \* the sequence numbers timers are set for
  MAX_UNACK_PACKETS,  \* timers the ring has room for, 255 in the code
  DURATION,           \* DURATION_RETRANSMISSON in microseconds
  MICROS_T,           \* how many values a micros_t has, 2^32
  GRAIN,              \* ticks of the clock per microsecond
  GAP,                \* ticks between two calls of the socket
  MAX_SLIPS           \* bound: how often the running timer is cancelled before
                      \* a timer behind it

ASSUME FifoAssumption ==
  /\ {MAX_UNACK_PACKETS, DURATION, MICROS_T, GRAIN, MAX_SLIPS} \subseteq Nat \ {0}
  /\ GAP \in Nat
  /\ DURATION < MICROS_T

VARIABLES
  fifo,     \* data, head, tail, timers_sum and hw, the ticks until the event of
            \* last_timer, Idle when none is pending
  watch,    \* history: per timer in the ring, age and slips
  quiet,    \* history: ticks since the last call or interrupt, up to GAP
  call      \* history: what the last step was, <<>> when time passed

vars == <<fifo, watch, quiet, call>>

Idle == -1
Cell == 0 .. MAX_UNACK_PACKETS
Timer == [seq_n : SeqNumber, val : 0 .. MICROS_T - 1]

\* micros_t arithmetic.
Micros(x) == x % MICROS_T

\* Faulty: the index runs out of the ring.
move_unwrapped(i) == i + 1

\* TimerFifo::move_head and move_tail.
move(i) == (i + 1) % (MAX_UNACK_PACKETS + 1)

\* The cells between i and j, and the timers they hold.
Span(i, j) == (j + MAX_UNACK_PACKETS + 1 - i) % (MAX_UNACK_PACKETS + 1)
Place(q, i) == (q.tail + i - 1) % (MAX_UNACK_PACKETS + 1)
Count(q) == Span(q.tail, q.head)
Queue(q) == [i \in 1 .. Count(q) |-> q.data[Place(q, i)].seq_n]

is_queue_have_space(q) == move(q.head) # q.tail

\* TimerFifo::get_hard_timer_left_time: one microsecond is added to every time
\* that is not zero.
get_hard_timer_left_time(q) == IF q.hw > 0 THEN q.hw \div GRAIN + 1 ELSE 0

\* TimerFifo::activate_timer, unless the duration is zero.
Activated(q, duration) ==
  IF duration = 0 THEN q ELSE [q EXCEPT !.hw = duration * GRAIN]

\* TimerFifo::add_new_timer with push_timer, duration being DURATION.
add_new_timer(q, s) ==
  LET val == Micros(DURATION - get_hard_timer_left_time(q) - q.timers_sum)
      pushed(v) == [q EXCEPT !.data[q.head] = [seq_n |-> s, val |-> v],
                             !.head = move(@)]
  IN  IF ~is_queue_have_space(q) THEN q
      ELSE IF q.head = q.tail THEN Activated(pushed(DURATION), DURATION)
      ELSE [pushed(val) EXCEPT !.timers_sum = Micros(@ + val)]

\* TimerFifo::pop_timer of the timer at tail: what is left of it is added to the
\* next, which is to be set.
pop_tail(q) ==
  LET next == move(q.tail)
      val == Micros(q.data[next].val + get_hard_timer_left_time(q))
  IN  IF next = q.head
      THEN [fifo |-> [q EXCEPT !.tail = next], to_set |-> 0]
      ELSE [fifo |-> [q EXCEPT !.tail = next, !.data[next].val = val,
                               !.timers_sum = Micros(@ - q.data[next].val)],
            to_set |-> val]

\* Faulty: the timer behind it does not take over its value.
pop_elsewhere_lost(q, i) ==
  LET t == Place(q, i)
      last == Place(q, Count(q))
      moved == [c \in Cell |-> IF Span(t, c) < Span(t, last)
                               THEN q.data[move(c)] ELSE q.data[c]]
  IN  IF t = last
      THEN [q EXCEPT !.head = last,
                     !.timers_sum = Micros(@ - q.data[t].val)]
      ELSE [q EXCEPT !.head = last, !.data = moved]

\* Faulty: the cells behind it stay where they are.
pop_elsewhere_unmoved(q, i) ==
  [q EXCEPT !.head = Place(q, Count(q)),
            !.timers_sum = Micros(@ - q.data[Place(q, Count(q))].val)]

\* TimerFifo::pop_timer of the timer in place i > 1: the cells behind it move
\* down, and the timer that takes its cell takes over its value.
pop_elsewhere(q, i) ==
  LET t == Place(q, i)
      last == Place(q, Count(q))
      moved == [c \in Cell |-> IF Span(t, c) < Span(t, last)
                               THEN q.data[move(c)] ELSE q.data[c]]
  IN  IF t = last
      THEN [q EXCEPT !.head = last,
                     !.timers_sum = Micros(@ - q.data[t].val)]
      ELSE [q EXCEPT !.head = last,
                     !.data = [moved EXCEPT ![t].val = Micros(@ + q.data[t].val)]]

\* The places timers of s have in the ring.
Places(q, s) == {i \in 1 .. Count(q) : Queue(q)[i] = s}

\* Faulty: the event is cancelled whichever timer is.
cancel_timer_any_event(q, s) ==
  LET i == Min(Places(q, s))
      popped == IF i = 1 THEN pop_tail(q)
                ELSE [fifo |-> pop_elsewhere(q, i), to_set |-> 0]
  IN  IF Places(q, s) = {} THEN q
      ELSE Activated([popped.fifo EXCEPT !.hw = Idle], popped.to_set)

\* TimerFifo::cancel_timer: the event of a timer that is at tail is cancelled.
cancel_timer(q, s) ==
  LET i == Min(Places(q, s))
      popped == pop_tail(q)
  IN  CASE Places(q, s) = {} -> q
        [] Places(q, s) # {} /\ i = 1 ->
             Activated([popped.fifo EXCEPT !.hw = Idle], popped.to_set)
        [] OTHER -> pop_elsewhere(q, i)

\* TimerFifo::timer_interrupt_handler up to the call of upper_handler.
Interrupted(q) ==
  LET fired == [q EXCEPT !.hw = Idle]
      popped == pop_tail(fired)
  IN  Activated(popped.fifo, popped.to_set)

-----------------------------------------------------------------------------
Init ==
  /\ fifo \in {[data |-> [c \in Cell |-> [seq_n |-> s, val |-> 0]], head |-> 0,
                tail |-> 0, timers_sum |-> 0, hw |-> Idle] : s \in SeqNumber}
  /\ watch = <<>>
  /\ quiet = GAP
  /\ call = <<>>

\* What the history says after a timer was set behind those of w, and after the
\* timer of s was cancelled.
Watched(w) ==
  IF Len(w) < MAX_UNACK_PACKETS THEN Append(w, [age |-> 0, slips |-> 0]) ELSE w

Unwatched(w, s) ==
  LET P == Places(fifo, s)
      slip(v) == IF 1 \in P THEN [v EXCEPT !.slips = @ + 1] ELSE v
  IN  IF P = {} THEN w
      ELSE [i \in 1 .. Len(w) - 1 |-> slip(IF i < Min(P) THEN w[i] ELSE w[i + 1])]

\* The socket calls at most every GAP ticks, and sets no timer so shortly before
\* an interrupt.
Calm == quiet >= GAP
CalmToSet(q) == q.hw = Idle \/ q.hw >= GAP

\* OstSocket::send_to_physical sets a timer for a packet that has none.
AddNewTimer(s) ==
  /\ Calm /\ CalmToSet(fifo) /\ Places(fifo, s) = {}
  /\ fifo' = add_new_timer(fifo, s)
  /\ watch' = Watched(watch)
  /\ quiet' = 0
  /\ call' = <<"set", s>>

\* OstSocket::mark_packet_ack cancels the timer of s.
CancelTimer(s) ==
  /\ Calm
  /\ \A i \in 1 .. Len(watch) : watch[i].slips < MAX_SLIPS
  /\ fifo' = cancel_timer(fifo, s)
  /\ watch' = Unwatched(watch, s)
  /\ quiet' = 0
  /\ call' = <<"cancel", s>>

\* OstSocket::mark_packet_ack cancels the timer of s, and the packet the window
\* has room for then is transmitted at the same instant.
CancelAndAdd(s, t) ==
  LET q == cancel_timer(fifo, s)
  IN  /\ Calm /\ CalmToSet(q) /\ Places(q, t) = {}
      /\ \A i \in 1 .. Len(watch) : watch[i].slips < MAX_SLIPS
      /\ fifo' = add_new_timer(q, t)
      /\ watch' = Watched(Unwatched(watch, s))
      /\ quiet' = 0
      /\ call' = <<"replace", s, t>>

\* The event of last_timer: timer_interrupt_handler, whose upper_handler
\* retransmits and sets the timer again.
TimerInterrupt ==
  /\ fifo.hw = 0
  /\ fifo' = add_new_timer(Interrupted(fifo), Queue(fifo)[1])
  /\ watch' = Watched(Tail(watch))
  /\ quiet' = 0
  /\ call' = <<"expire">>

\* Time passes, never beyond a pending event.
Tick ==
  /\ fifo.hw # 0
  /\ fifo.hw # Idle \/ quiet < GAP
  /\ fifo' = IF fifo.hw = Idle THEN fifo ELSE [fifo EXCEPT !.hw = @ - 1]
  /\ watch' = [i \in 1 .. Len(watch) |-> [watch[i] EXCEPT !.age = @ + 1]]
  /\ quiet' = Min({quiet + 1, GAP})
  /\ call' = <<>>

Next ==
  \/ \E s \in SeqNumber : AddNewTimer(s) \/ CancelTimer(s)
  \/ \E s, t \in SeqNumber : CancelAndAdd(s, t)
  \/ TimerInterrupt
  \/ Tick

Spec == Init /\ [][Next]_vars

-----------------------------------------------------------------------------
TypeOK ==
  /\ fifo \in [data : [Cell -> Timer], head : Cell, tail : Cell,
               timers_sum : 0 .. MICROS_T - 1, hw : Nat \cup {Idle}]
  /\ watch \in Seq([age : Nat, slips : 0 .. MAX_SLIPS])
  /\ Len(watch) = Count(fifo)
  /\ quiet \in 0 .. GAP
  /\ Len(call) <= 3

\* The ring behaves as RetransmissionTimers says, however the calls and the
\* interrupts interleave and wherever the ring wraps: timers expire in the order
\* they were set in and cancel_timer takes out exactly the one it is called for.
Timers == INSTANCE RetransmissionTimers WITH timers <- Queue(fifo)
TimersSpec == Timers!Spec

\* While a timer waits in the queue the hardware timer runs for the first one:
\* pop_timer says 0, which sets none, only when no timer is left
\* (timer_fifo.h:62-64 and 145).
HardwareRuns == Count(fifo) > 0 <=> fifo.hw # Idle

\* The ticks until the timer in each place expires.
Remaining[i \in 1 .. Count(fifo)] ==
  IF i = 1 THEN fifo.hw
  ELSE Remaining[i - 1] + GRAIN * fifo.data[Place(fifo, i)].val

\* Every timer expires a DURATION after it was set: less than a microsecond
\* early, and late by at most one for each time the running timer was cancelled
\* before it (push_timer, pop_timer, get_hard_timer_left_time).
OnTime ==
  fifo.hw # Idle => \A i \in 1 .. Count(fifo) :
    LET life == watch[i].age + Remaining[i]
    IN  /\ life >= DURATION * GRAIN - GRAIN
        /\ life <= (DURATION + watch[i].slips) * GRAIN
==============================================================================
