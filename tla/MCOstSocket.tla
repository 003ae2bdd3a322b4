---------------------------- MODULE MCOstSocket ----------------------------
EXTENDS OstSocket

CONSTANTS A, B

\* a messages of A and b of B, over a FIFO link, the sockets left open.
Traffic(a, b) == [closer |-> {}, offers |-> (A :> a) @@ (B :> b),
                  sameInstant |-> FALSE, overtaking |-> FALSE]

\* Only A has messages, three of them: on four sequence numbers they reach the
\* cells beyond the vectors and do not use a number twice.
ThreeFromA == {Traffic(3, 0)}

\* The same with data the other way among the acknowledgements; and over a link
\* on which packets overtake each other.
ThreeAndOne == {Traffic(3, 1), [Traffic(3, 0) EXCEPT !.overtaking = TRUE]}

\* One message more than there are sequence numbers: the numbers wrap.
FiveFromA == {Traffic(5, 0)}

\* The smallest one-way traffic in which the window is full, with everything in
\* one instant.
TwoAtOnce == {[Traffic(2, 0) EXCEPT !.sameInstant = TRUE]}

\* The same with B closing and reopening its socket at any time; and A doing so,
\* with three messages.
Reopenings == {[Traffic(2, 0) EXCEPT !.sameInstant = TRUE, !.closer = {B}],
               [Traffic(3, 0) EXCEPT !.closer = {A}]}

\* Packets are lost when their turn to arrive comes, not before.
LostInTurn == \A n \in Node :
  Len(wire'[n]) < Len(wire[n]) => wire'[n] = Tail(wire[n])

\* The fair behaviours in which one loss does not take another packet with it:
\* the same packets may be lost, each with a reset of its own.
FairSpec == Init /\ [][Next /\ LostInTurn]_vars /\ SenderFairness(A)
==============================================================================
