-------------------------------- MODULE Ready --------------------------------
(***************************************************************************)
(* src/src/miopoll.rs: Ready, the readiness flags of a mio event packed    *)
(* into a u16.  An event is the set of the flags mio reports of it.        *)
(***************************************************************************)
EXTENDS Integers

READY == [readable |-> 1, writable |-> 2, error |-> 4, read_closed |-> 8,
          write_closed |-> 16, priority |-> 32, aio |-> 64, lio |-> 128]

Flag == DOMAIN READY

test(ev, f) == IF f \in ev THEN READY[f] ELSE 0

U16 == 65536

new(ev) ==
  (test(ev, "readable") + test(ev, "writable") + test(ev, "error")
     + test(ev, "read_closed") + test(ev, "write_closed") + test(ev, "priority")
     + test(ev, "aio") + test(ev, "lio")) % U16

(* is_readable, is_writable, ...: bit f of the number is set. *)
is(f, val) == (val \div READY[f]) % 2 = 1
=============================================================================
