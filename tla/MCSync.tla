------------------------------- MODULE MCSync -------------------------------
(* One process with two streams, two processes with the same stream, or a   *)
(* process with one stream beside a login and a logout.                     *)
EXTENDS SyncSystem

CONSTANTS p, q, l, main, s, t

MCLayouts ==
  {[syncs |-> {p}, streams |-> {s}, last |-> 3, login |-> FALSE],
   [syncs |-> {p}, streams |-> {s, t}, last |-> 1, login |-> FALSE],
   [syncs |-> {p, q}, streams |-> {s}, last |-> 1, login |-> FALSE],
   [syncs |-> {p}, streams |-> {s}, last |-> 1, login |-> TRUE]}

LoginAlone == {[syncs |-> {}, streams |-> {}, last |-> 0, login |-> TRUE]}
=============================================================================
