----------------------------- MODULE OstTransfer -----------------------------
(***************************************************************************)
(* What two connected OST nodes promise their applications: each end       *)
(* accepts messages, and the other end is given them, each once and in the *)
(* order they were accepted.  A message is known by its place among the    *)
(* sends of its node; the places have gaps where the queue behind send was *)
(* full.                                                                   *)
(***************************************************************************)
EXTENDS Naturals, Sequences

CONSTANTS Node,      \* the two ends
          Id,        \* the places a message can have
          Peer(_)    \* the other end

VARIABLES sent,      \* per node, the messages accepted
          delivered  \* per node, the messages of its peer it was given

transfer_vars == <<sent, delivered>>

Init == /\ sent = [n \in Node |-> <<>>]
        /\ delivered = [n \in Node |-> <<>>]

Accept(n, id) ==
  /\ \A i \in 1 .. Len(sent[n]) : sent[n][i] < id
  /\ sent' = [sent EXCEPT ![n] = Append(@, id)]
  /\ UNCHANGED delivered

\* n is given the next message of its peer, or the next several at once.
Hand(n) ==
  \E k \in Len(delivered[n]) + 1 .. Len(sent[Peer(n)]) :
    /\ delivered' = [delivered EXCEPT ![n] = SubSeq(sent[Peer(n)], 1, k)]
    /\ UNCHANGED sent

Next == \E n \in Node : Hand(n) \/ \E id \in Id : Accept(n, id)

Spec == Init /\ [][Next]_transfer_vars
==============================================================================
