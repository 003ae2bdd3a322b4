------------------------ MODULE RetransmissionTimers ------------------------
(***************************************************************************)
(* What a socket is promised of its retransmission timers: they are set at *)
(* the end of a queue, the one a call names is cancelled, the oldest is    *)
(* the next to expire, and one that expires is set again by the            *)
(* retransmission it causes.                                               *)
(***************************************************************************)
EXTENDS TimerQueue

CONSTANT SeqNumber

VARIABLES
  timers,   \* the sequence numbers, in the order their timers expire
  call      \* what the last step was, <<>> when time passed

Init == timers = <<>> /\ call = <<>>

Set(s) ==
  /\ call' = <<"set", s>>
  /\ timers' = add_new_timer(timers, s)

Cancel(s) ==
  /\ call' = <<"cancel", s>>
  /\ timers' = cancel_timer(timers, s)

\* The packet acknowledged makes room for another.
Replace(s, t) ==
  /\ call' = <<"replace", s, t>>
  /\ timers' = add_new_timer(cancel_timer(timers, s), t)

Expire ==
  /\ call' = <<"expire">>
  /\ timers # <<>>
  /\ timers' = add_new_timer(Tail(timers), Head(timers))

Wait == call' = <<>> /\ UNCHANGED timers

Next ==
  \/ \E s \in SeqNumber : Set(s) \/ Cancel(s)
  \/ \E s, t \in SeqNumber : Replace(s, t)
  \/ Expire
  \/ Wait

Spec == Init /\ [][Next]_<<timers, call>>
==============================================================================
