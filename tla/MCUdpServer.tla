----------------------------- MODULE MCUdpServer -----------------------------
(* Instances of UdpServer for TLC: the cfg files give sets of model values. *)
EXTENDS UdpServer, TLC
===============================================================================
