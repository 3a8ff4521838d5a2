----------------------------- MODULE MCRestCall -----------------------------
(* Small instances of RestCall for TLC. *)
EXTENDS RestCall, TLC

CONSTANT t1

Req(operation, path, args, method) ==
    [operation |-> operation, path |-> path, args |-> args, method |-> method]

(* A command run with arguments and no method, and what else there is. *)
Command == {Req("execute", "command", TRUE, "none")}

Plain == {Req("query", "table", FALSE, "none"),
          Req("execute", "table", TRUE, "none"),
          Req("execute", "command", TRUE, "POST"),
          Req("raw", "command", TRUE, "none")}

=============================================================================
