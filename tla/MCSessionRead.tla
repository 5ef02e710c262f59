---------------------------- MODULE MCSessionRead ----------------------------
(* An instance of SessionRead for TLC, with bytes of three values. *)
EXTENDS SessionRead

\* A message of the peer with sequence number 1, which a request has as well.
Sample(type, group, src, dsts, bytes) ==
    [version |-> 0, packetType |-> type, seq |-> 1, ext |-> 0,
     options |-> [groupID |-> group, srcNodeID |-> src, dstNodeIDs |-> dsts],
     payload |-> bytes]

\* A heartbeat; an identifier and a counter that fill their fields; a group
\* identifier that is one byte too long.
MCPeerMessage ==
    {Sample(1, << >>, << >>, << >>, <<0, 2>>),
     Sample(5, [i \in 1..8 |-> 2], <<1, 2>>, <<<<0, 0>>, <<2, 2>>>>, <<1>>),
     Sample(6, [i \in 1..9 |-> 2], <<1>>, << >>, <<1>>)}
=============================================================================
