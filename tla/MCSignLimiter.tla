---------------------------- MODULE MCSignLimiter ----------------------------
(* SignLimiter for TLC. *)
EXTENDS SignLimiter, TLC

\* A minute of ten ticks and an hour of two minutes.  A limit that divides the
\* minute, one that does not, and an answer that lacks it.
SomeLimits == {[minute |-> 5, hour |-> 6], [minute |-> 3, hour |-> 2],
               [minute |-> 0, hour |-> 0]}

Symmetry == Permutations(Callers)
=============================================================================
