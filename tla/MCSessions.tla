----------------------------- MODULE MCSessions -----------------------------
(* Small instances of Sessions for TLC: three or four requests, enough for two
   sessions and two requests to them.  Requests are interchangeable. *)
EXTENDS Sessions, TLC

CONSTANTS q1, q2, q3, q4

Symmetry == Permutations(Requests)

=============================================================================
