----------------------------- MODULE MCS2Transport -----------------------------
(* Small instances of S2Transport for TLC.  The callers of a run are          *)
(* interchangeable, so states that differ by a permutation are one.           *)
EXTENDS S2Transport

\* The code's 2.0 * 2**attempt, for a first backoff of one tick.
ExponentialBackoff == [a \in 0..(MaxRetries - 1) |-> 2^a]

CallerSymmetry == Permutations(Callers)
================================================================================
