------------------------------ MODULE OstWindow ------------------------------
(***************************************************************************)
(* The arithmetic of sequence numbers and sliding windows that OstSocket   *)
(* uses (ost/model/ost_socket.cc).  A window is a pair bottom, top of      *)
(* sequence numbers: it holds the numbers met going up from bottom, modulo *)
(* MAX_SEQ_N, until top is reached.                                        *)
(***************************************************************************)
EXTENDS Naturals

CONSTANTS
  MAX_SEQ_N,   \* number of sequence numbers, 256 in the code
  WINDOW_SZ    \* size of a window, and of the vectors behind it, 10 in the code

ASSUME WindowAssumption == /\ MAX_SEQ_N \in Nat
                           /\ WINDOW_SZ \in Nat
                           /\ 1 <= WINDOW_SZ
                           /\ WINDOW_SZ < MAX_SEQ_N

SeqN == 0 .. MAX_SEQ_N - 1

\* The sequence number k places after s: (s + k) % MAX_SEQ_N.
Plus(s, k) == (s + k) % MAX_SEQ_N

\* Faulty: a wrapped window is tested like one that is not.
in_window_not_wrapped(bottom, top, s) ==
  \/ top >= bottom /\ s >= bottom /\ s < top
  \/ bottom > top /\ s >= bottom /\ s < top

\* OstSocket::in_tx_window and in_rx_window, the same test on two windows.
in_window(bottom, top, s) ==
  \/ top >= bottom /\ s >= bottom /\ s < top
  \/ bottom > top /\ (s >= bottom \/ s < top)

\* Faulty: a full window takes one more.
have_space_one_more(bottom, top) ==
  IF top >= bottom
  THEN top - bottom <= WINDOW_SZ
  ELSE (WINDOW_SZ + 1 + bottom) - top < WINDOW_SZ

\* OstSocket::tx_sliding_window_have_space.
tx_sliding_window_have_space(bottom, top) ==
  IF top >= bottom
  THEN top - bottom < WINDOW_SZ
  ELSE (WINDOW_SZ + 1 + bottom) - top < WINDOW_SZ

\* How often a loop "while (go) ++bottom" turns, go[j] being its condition after
\* j turns; MAX_SEQ_N stands for a loop that has gone round without ending.
Slides(go) == CHOOSE k \in 0 .. MAX_SEQ_N :
                /\ \A j \in 0 .. k - 1 : go[j]
                /\ k < MAX_SEQ_N => ~go[k]

\* What the two tests are about: how far s lies above bottom on the circle.
Dist(bottom, s) == IF s >= bottom THEN s - bottom ELSE (s + MAX_SEQ_N) - bottom
==============================================================================
