---------------------------- MODULE MCSshCommand ----------------------------
(* Small instances of SshCommand for TLC: two commands at once. *)
EXTENDS SshCommand, TLC

CONSTANTS s1, s2

=============================================================================
