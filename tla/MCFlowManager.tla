---------------------------- MODULE MCFlowManager -----------------------------
(* Values for the constants of FlowManager.                                *)
EXTENDS FlowManager

CONSTANTS u, x      \* flow hashes: u of a UDP flow, x of a TCP one

NoUdp   == {}
UdpOnly == [key : {u}, kind : {"udp"}, side : Side]
TcpOnly == [key : {x}, kind : {"syn", "data", "fin"}, side : {"a"}]
===============================================================================
