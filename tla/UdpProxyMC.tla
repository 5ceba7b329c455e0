------------------------------ MODULE UdpProxyMC ------------------------------
(* Instances of UdpProxy for TLC. *)
EXTENDS UdpProxy
=============================================================================
