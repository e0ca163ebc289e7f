--------------------------- MODULE MCTcpStreamBuf ---------------------------
(* Small instances of TcpStreamBuf for TLC. *)
EXTENDS TcpStreamBuf
=============================================================================
