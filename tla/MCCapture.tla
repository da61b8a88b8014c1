-------------------------------- MODULE MCCapture --------------------------------
(* A small instance of Capture: two sessions of STUN transactions, which differ in *)
(* the client's address and port, and one of a server, which leaves the ports out.  *)
EXTENDS Capture

TwoThreads == {Owner, Reader}
Packets == {[dst |-> 1, dport |-> 1], [dst |-> 2, dport |-> 1], [dst |-> 2, dport |-> 2]}
Captures == {[dsts |-> {1}, ports |-> {1}], [dsts |-> {2}, ports |-> {2}], [dsts |-> {2}, ports |-> {}]}
==================================================================================
