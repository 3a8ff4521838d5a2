----------------------------- MODULE MCSetupVault -----------------------------
(* A small instance of SetupVault for TLC: a and b bootstrap two devices under
   the same name, which somebody else may also have put into the vault. *)
EXTENDS SetupVault, TLC

CONSTANTS a, b, d1, d2, x1

MCDeviceOf     == [r \in Runs |-> IF r = a THEN d1 ELSE d2]
MCIdentityOf   == [r \in Runs |-> "core"]
MCOutsideTitle == [e \in Outside |-> "core"]

=============================================================================
