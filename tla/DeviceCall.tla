----------------------------- MODULE DeviceCall -----------------------------
(***************************************************************************)
(* What the DeviceTransport interface (src/types/index.ts) promises about  *)
(* query, execute and raw: a call that was asked is told data or an error  *)
(* once; it is told data only if the device has carried the command out.   *)
(* An error promises nothing: the device may have carried the command out  *)
(* before it, or may do so afterwards.                                     *)
(* SshCommand and RestCall are shown to implement this.                    *)
(***************************************************************************)
CONSTANT Calls

VARIABLES
    told,       \* what each call was told
    carried     \* the calls whose command the device has carried out

vars == <<told, carried>>

Init ==
    /\ told = [c \in Calls |-> "nothing"]
    /\ carried = {}

Ask(c) ==
    /\ told[c] = "nothing"
    /\ told' = [told EXCEPT ![c] = "waiting"]
    /\ UNCHANGED carried

\* The command cannot even be sent.
Fail(c) ==
    /\ told[c] = "nothing"
    /\ told' = [told EXCEPT ![c] = "error"]
    /\ UNCHANGED carried

CarryOut(c) ==
    /\ told[c] # "nothing"
    /\ carried' = carried \cup {c}
    /\ UNCHANGED told

TellData(c) ==
    /\ told[c] = "waiting"
    /\ c \in carried
    /\ told' = [told EXCEPT ![c] = "data"]
    /\ UNCHANGED carried

TellError(c) ==
    /\ told[c] = "waiting"
    /\ told' = [told EXCEPT ![c] = "error"]
    /\ UNCHANGED carried

Next ==
    \E c \in Calls :
        Ask(c) \/ Fail(c) \/ CarryOut(c) \/ TellData(c) \/ TellError(c)

Spec == Init /\ [][Next]_vars

=============================================================================
