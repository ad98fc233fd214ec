---------------------------- MODULE MCSubprocess ----------------------------
(* Calls of two threads that meet at the descriptors of their process.     *)
EXTENDS Subprocess

CONSTANTS t1, t2

Run(stdin, input, timed, forks) ==
  [kind |-> "run", stdin |-> stdin, input |-> input, stdout |-> "capture",
   timed |-> timed, forks |-> forks]
Spawned(stdin, input, stdout, timed) ==
  [kind |-> "spawn", stdin |-> stdin, input |-> input, stdout |-> stdout,
   timed |-> timed, forks |-> FALSE]

Pair(a, b) == [t \in Thread |-> IF t = t1 THEN a ELSE b]
Silent(timed) == Spawned("null", 0, "null", timed)
SomeOptions ==
  {Pair(Run("data", 2, timed, FALSE), Silent(FALSE)) : timed \in BOOLEAN}
    \cup {Pair(Run("null", 0, TRUE, TRUE), Silent(TRUE)),
          Pair(Spawned("pipe", 1, "pipe", FALSE), Silent(FALSE))}
=============================================================================
