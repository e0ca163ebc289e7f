----------------------------- MODULE MCMioPoll -----------------------------
(* Small instances of MioPoll for TLC. *)
EXTENDS MioPoll, TLC

SourceSymmetry == Permutations(Sources)

(* Only behaviours in which nothing fails, to find a deep one faster. *)
PlainRun ==
  /\ errors = 0 /\ ret.ok /\ ~block
  /\ token_map[WAKER_TOKEN].fwd = Waker
=============================================================================
