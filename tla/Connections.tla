---------------------------- MODULE Connections ----------------------------
(***************************************************************************)
(* What an OST node promises the application that opens, uses and closes   *)
(* connections: closing an address, or the node, ends the connection for   *)
(* certain; opening one touches no other; nothing is sent without one.     *)
(***************************************************************************)
CONSTANT Remote       \* the addresses of other nodes

VARIABLES
  open,               \* the addresses there is an open connection to
  call                \* what the last call was

Init == open = {} /\ call = <<>>

\* A node without a free port opens nothing.
Connect(a) ==
  /\ call' = <<"open", a>>
  /\ open' \in {open, open \cup {a}}

Disconnect(a) ==
  /\ call' = <<"close", a>>
  /\ open' = open \ {a}

Send(a) ==
  /\ call' = <<"send", a>>
  /\ a \in open
  /\ UNCHANGED open

ShutDown == call' = <<"shutdown">> /\ open' = {}

Refuse == call' = <<"refused">> /\ UNCHANGED open

Next ==
  \/ \E a \in Remote : Connect(a) \/ Disconnect(a) \/ Send(a)
  \/ ShutDown
  \/ Refuse

Spec == Init /\ [][Next]_<<open, call>>
==============================================================================
