------------------------------- MODULE MCCredentials -------------------------------
(***************************************************************************)
(* A small instance of Credentials for TLC: clocks pass from the last      *)
(* second of one code window to the next.                                  *)
(***************************************************************************)
EXTENDS Credentials, TLC

\* Around every bound of the window, and beyond.
MCDrifts == {-60, -59, -31, -30, -1, 0, 1, 30, 31, 59, 60}

Symmetry == Permutations(Replicas)
================================================================================
