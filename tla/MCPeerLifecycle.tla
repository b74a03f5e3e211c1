--------------------------- MODULE MCPeerLifecycle ---------------------------
(* A small instance of PeerLifecycle: two peers of which the adder skips     *)
(* one, or one peer whose queue overflows and whose delays grow long, or one *)
(* peer of a torrent that also completes and is reselected, which listens    *)
(* where it connects from or elsewhere.                                      *)
EXTENDS PeerLifecycle

CONSTANTS a1, a2, t1, t2

\* The second peer says it listens on the address of the first.
ListenOnFirst == [p \in Addr |-> a1]

FourEnvironments ==
  {[swarm |-> {a1, a2}, elsewhere |-> FALSE, events |-> {}],
   [swarm |-> {a1}, elsewhere |-> FALSE, events |-> {"queueFull", "longBackoff"}],
   [swarm |-> {a1}, elsewhere |-> FALSE, events |-> Events],
   [swarm |-> {a2}, elsewhere |-> TRUE, events |-> {"finish"}]}
=============================================================================
