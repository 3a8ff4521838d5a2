------------------------------ MODULE MCTools ------------------------------
(* One call of every tool for TLC; the tools are the ones of the code. *)
EXTENDS Tools, TLC

CONSTANT t1

Req(operation, path, args) ==
    [operation |-> operation, path |-> path, args |-> args, method |-> "none"]

(* What the interface allows and no tool sends: records are added, set and
   removed, and raw is called over REST. *)
Direct == {Req("execute", "table", TRUE),
           Req("execute", "item", TRUE),
           Req("execute", "item", FALSE),
           Req("raw", "command", TRUE)}

=============================================================================
