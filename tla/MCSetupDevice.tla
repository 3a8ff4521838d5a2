---------------------------- MODULE MCSetupDevice ----------------------------
(* Small instances of SetupDevice for TLC: a and b are aimed at the same
   device under different names, c at another device under the name of a. *)
EXTENDS SetupDevice, TLC

CONSTANTS a, b, c, d1, d2

OneRun    == {a}
TwoRuns   == {a, b}
ThreeRuns == {a, b, c}

MCDeviceOf   == [r \in Runs |-> IF r = c THEN d2 ELSE d1]
MCIdentityOf == [r \in Runs |-> IF r = b THEN "edge" ELSE "core"]

=============================================================================
