---------------------------- MODULE MCVaultWriter ----------------------------
(* Small instances of VaultWriter for TLC: c1 and c2 ask for the same title,
   c3 for another one; x1, which outside processes may add, has the
   title of c3. *)
EXTENDS VaultWriter, TLC

CONSTANTS c1, c2, c3, x1

MCTitles == {"r1", "r2"}

ThreeCalls == {c1, c2, c3}

MCTitleOf == [e \in Calls \cup Outside |->
                 IF e \in {c1, c2} THEN "r1" ELSE "r2"]

=============================================================================
