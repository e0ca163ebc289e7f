----------------------------- MODULE MCUdpQueue -----------------------------
(* Small instances of UdpQueue for TLC. *)
EXTENDS UdpQueue
=============================================================================
