------------------------------- MODULE MCFanOut -------------------------------
(* Small instances of FanOut for TLC: two or three ids over two hosts, so that
   an id may be repeated, unknown, or moved to the host of another. *)
EXTENDS FanOut, TLC

CONSTANTS r1, r2, h1, h2

=============================================================================
