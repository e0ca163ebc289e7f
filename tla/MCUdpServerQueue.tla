-------------------------- MODULE MCUdpServerQueue --------------------------
(* Small instances of UdpServerQueue for TLC. *)
EXTENDS UdpServerQueue
=============================================================================
