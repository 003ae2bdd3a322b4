------------------------------ MODULE LossyLink ------------------------------
(***************************************************************************)
(* What a pair of SpaceWire devices promises the sockets above it: only    *)
(* what was sent arrives and not more often than it was sent, any packet   *)
(* may be lost, and, if the link is ordered, packets of one direction      *)
(* arrive in the order they were sent.                                     *)
(***************************************************************************)
EXTENDS Naturals, Sequences, SequencesExt

CONSTANTS
  Node,       \* the two ends
  Uid         \* packets

VARIABLES
  sent,       \* history: the packets the device of n was called to send
  wire,       \* packets given to the device of n and not yet arrived or lost
  arrived,    \* packets of n's peer that arrived at n
  ordered     \* whether no packet overtakes another

vars == <<sent, wire, arrived, ordered>>

\* The sequences that are left of s when packets are lost.
Thinned(s) ==
  UNION {{[k \in 1 .. len |-> s[place[k]]] :
            place \in {p \in [1 .. len -> DOMAIN s] :
                         \A i, j \in 1 .. len : i < j => p[i] < p[j]}} :
         len \in 0 .. Len(s)}

Init ==
  /\ sent = [n \in Node |-> <<>>]
  /\ wire = [n \in Node |-> <<>>]
  /\ arrived = [n \in Node |-> <<>>]
  /\ ordered \in BOOLEAN

\* Every call is recorded; a packet enters the wire with the call it is given in.
Called(n, u) == sent' = [sent EXCEPT ![n] = Append(@, u)]

Accept(n, u) ==
  /\ Called(n, u)
  /\ wire' = [wire EXCEPT ![n] = Append(@, u)]
  /\ UNCHANGED arrived

\* The device has no room.
Refuse(n, u) ==
  /\ Called(n, u)
  /\ UNCHANGED <<wire, arrived>>

Deliver(n, m) ==
  /\ wire[n] # <<>>
  /\ wire' = [wire EXCEPT ![n] = Tail(@)]
  /\ arrived' = [arrived EXCEPT ![m] = Append(@, Head(wire[n]))]
  /\ UNCHANGED sent

Lose ==
  /\ DOMAIN wire' = Node
  /\ \A n \in Node : wire'[n] \in Thinned(wire[n])
  /\ UNCHANGED <<sent, arrived>>

\* s with one packet moved forward.
Overtakings(s) ==
  UNION {{InsertAt(RemoveAt(s, j), i, s[j]) : i \in 1 .. j - 1} : j \in DOMAIN s}

Moved(n, s) == \E w \in Overtakings(s) : wire' = [wire EXCEPT ![n] = w]

\* A packet of n, the one it is just given or another, overtakes others.
Overtake(n) ==
  /\ ~ordered
  /\ \/ Moved(n, wire[n]) /\ UNCHANGED sent
     \/ \E u \in Uid : Called(n, u) /\ Moved(n, Append(wire[n], u))
  /\ UNCHANGED arrived

Next ==
  \/ \E n \in Node, u \in Uid : Accept(n, u) \/ Refuse(n, u)
  \/ \E n, m \in Node : n # m /\ Deliver(n, m)
  \/ Lose
  \/ \E n \in Node : Overtake(n)

Spec == Init /\ [][Next /\ UNCHANGED ordered]_vars
==============================================================================
