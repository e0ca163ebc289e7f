---------------------------- MODULE MCEchoServer ----------------------------
(* Small instances of EchoServer, and of Echoer by itself, for TLC. *)
EXTENDS EchoServer

(* No special character, or a '!' or a '%' as the second byte *)
OneMark == {[bang |-> 0, pct |-> 0], [bang |-> 2, pct |-> 0], [bang |-> 0, pct |-> 2]}

(* A '%' before a '!' *)
AbortThenStop == {[bang |-> 2, pct |-> 1]}

(* An Echoer without I/O errors; no listener *)
NoErrorSpec ==
  /\ ServerInit /\ lpc = "idle"
  /\ [][EchoNext /\ die' # "failed" /\ UNCHANGED listenVars]_serverVars
=============================================================================
