------------------------- MODULE MCTlsServerEngine -------------------------
(* Small instances of TlsServerEngine for TLC. *)
EXTENDS TlsServerEngine
=============================================================================
