----------------------------- MODULE TimerQueue -----------------------------
(***************************************************************************)
(* What OstSocket uses TimerFifo for: a queue of sequence numbers, each    *)
(* waiting for its retransmission, in the order in which they expire.  All *)
(* timers have the same duration, so that is the order they were set in.   *)
(***************************************************************************)
EXTENDS Naturals, Sequences, SequencesExt

CONSTANT MAX_UNACK_PACKETS  \* capacity of the timer queue, 255 in the code

\* Faulty: no timer is set.
add_new_timer_dropped(q, s) == q

\* Faulty: the oldest timer goes, whoever it belongs to.
cancel_timer_oldest(q, s) == IF q = <<>> THEN q ELSE Tail(q)

\* Faulty: the timer stays.
cancel_timer_kept(q, s) == q

\* TimerFifo::add_new_timer on the timer queue q.
add_new_timer(q, s) == IF Len(q) < MAX_UNACK_PACKETS THEN Append(q, s) ELSE q

\* TimerFifo::cancel_timer on the timer queue q: the oldest timer of s goes.
cancel_timer(q, s) ==
  LET first(i) == q[i] = s /\ \A j \in 1 .. i - 1 : q[j] # s
  IN  IF \E i \in 1 .. Len(q) : q[i] = s
      THEN RemoveAt(q, CHOOSE i \in 1 .. Len(q) : first(i)) ELSE q
==============================================================================
