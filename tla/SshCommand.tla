----------------------------- MODULE SshCommand -----------------------------
(***************************************************************************)
(* Running a command over SSH: executeCommand (src/ssh/ssh-transport.ts).  *)
(*                                                                         *)
(* Every call opens a connection of its own, runs one command on it and    *)
(* ends it.  Its promise is settled by whichever of four callbacks comes   *)
(* first: the call's timer, a connection error, a refused exec, or the     *)
(* close of the command's stream; or at once, if connect throws.  The      *)
(* device goes on by itself: it may start and finish a command whose call  *)
(* has given up.  query, execute and *)
(* raw build the command line and parse what executeCommand returns; they  *)
(* keep no state, so a call here stands for any of them.                   *)
(*                                                                         *)
(* The ssh2 client is external: it delivers the events of a connection in  *)
(* order, and no event that opens anything once end() was called.  Output  *)
(* is abstracted to how much of it has been received.                      *)
(*                                                                         *)
(* Definitions named Mut... are slips kept to show which property notices  *)
(* them; they are not part of the model.                                   *)
(***************************************************************************)
CONSTANTS
    Calls,
    AcceptAll,  \* acceptAllHostKeys
    CleanLoss   \* calls whose connection may end without an error at any time

ASSUME SshAssumption ==
    /\ AcceptAll \in BOOLEAN
    /\ CleanLoss \subseteq Calls

VARIABLES
    promise,    \* how each call's promise stands
    armed,      \* calls whose timer is running
    conn,       \* the client's view of each connection
    ended,      \* calls that have called conn.end()
    hostKeyRejected,
    device,     \* the command of each call on its device
    stdout      \* how much of the output each call has received

vars == <<promise, armed, conn, ended, hostKeyRejected, device, stdout>>

Settlements == {"data", "timeout", "hostKey", "error", "threw"}

(* The states of a connection from which an error may come. *)
Connected == {"handshake", "verified", "refused", "opening", "running"}

TypeOK ==
    /\ promise \in [Calls -> Settlements \cup {"none", "pending"}]
    /\ armed \subseteq Calls
    /\ conn \in [Calls -> Connected \cup {"none", "lost"}]
    /\ ended \subseteq Calls
    /\ hostKeyRejected \subseteq Calls
    /\ device \in [Calls -> {"idle", "asked", "running", "done"}]
    /\ stdout \in [Calls -> {"nothing", "part", "whole"}]

Init ==
    /\ promise = [c \in Calls |-> "none"]
    /\ armed = {}
    /\ conn = [c \in Calls |-> "none"]
    /\ ended = {}
    /\ hostKeyRejected = {}
    /\ device = [c \in Calls |-> "idle"]
    /\ stdout = [c \in Calls |-> "nothing"]

-----------------------------------------------------------------------------
Settled(c) == promise[c] \in Settlements

Disarmed(c) == armed \ {c}

MutKeepConnection(c) == ended                 \* no conn.end()
WithEnd(c) == ended \cup {c}

(* if (!settled): the first callback settles the promise and clears the timer;
   every later one finds it settled and does nothing. *)
Settle(c, how) ==
    \/ /\ promise[c] = "pending"
       /\ promise' = [promise EXCEPT ![c] = how]
       /\ armed' = Disarmed(c)
    \/ /\ promise[c] # "pending"
       /\ UNCHANGED <<promise, armed>>

(* The same, and end the connection. *)
SettleAndEnd(c, how) ==
    /\ Settle(c, how)
    /\ ended' = IF promise[c] = "pending" THEN WithEnd(c) ELSE ended

Becomes(c, state) == conn' = [conn EXCEPT ![c] = state]

MutTimerLater(c) == armed                     \* armed when the device is ready
WithTimer(c) == armed \cup {c}

(* executeCommand: arm the timer, connect.  If connect throws, the promise is
   rejected with what it threw; settled is not set, and the timer stays. *)
Begin(c) ==
    /\ promise[c] = "none"
    /\ armed' = WithTimer(c)
    /\ \/ /\ promise' = [promise EXCEPT ![c] = "pending"]
          /\ Becomes(c, "handshake")
       \/ /\ promise' = [promise EXCEPT ![c] = "threw"]
          /\ UNCHANGED conn
    /\ UNCHANGED <<ended, hostKeyRejected, device, stdout>>

(* The timer: settle as timed out and end the connection.  To a call that has
   been rejected since connect threw, the rejection makes no difference. *)
TimerFires(c) ==
    /\ c \in armed
    /\ promise' = IF promise[c] = "pending" THEN [promise EXCEPT ![c] = "timeout"]
                                            ELSE promise
    /\ armed' = armed \ {c}
    /\ ended' = WithEnd(c)
    /\ UNCHANGED <<conn, hostKeyRejected, device, stdout>>

MutVerdictLost == "verified"                  \* return false is missing
Verdict == "refused"

(* hostVerifier: the key is known, or it is rejected and ssh2 will report an
   error. *)
VerifyHost(c) ==
    /\ conn[c] = "handshake"
    /\ c \notin ended
    /\ \/ /\ Becomes(c, "verified")
          /\ UNCHANGED hostKeyRejected
       \/ /\ ~AcceptAll
          /\ Becomes(c, Verdict)
          /\ hostKeyRejected' = hostKeyRejected \cup {c}
    /\ UNCHANGED <<promise, armed, ended, device, stdout>>

(* 'ready': ask the device to execute the command. *)
Ready(c) ==
    /\ conn[c] = "verified"
    /\ c \notin ended
    /\ Becomes(c, "opening")
    /\ device' = [device EXCEPT ![c] = "asked"]
    /\ UNCHANGED <<promise, armed, ended, hostKeyRejected, stdout>>

(* exec calls back with an error: the request was refused, or the connection
   closed before it was answered. *)
ExecFails(c) ==
    /\ conn[c] = "opening"
    /\ Becomes(c, "lost")
    /\ SettleAndEnd(c, "error")
    /\ UNCHANGED <<hostKeyRejected, device, stdout>>

(* exec calls back with the stream of the running command. *)
StreamOpens(c) ==
    /\ conn[c] = "opening"
    /\ device[c] \in {"running", "done"}
    /\ c \notin ended
    /\ Becomes(c, "running")
    /\ UNCHANGED <<promise, armed, ended, hostKeyRejected, device, stdout>>

(* 'data': append to stdout. *)
Data(c) ==
    /\ conn[c] = "running"
    /\ \/ /\ stdout[c] = "nothing"
          /\ stdout' = [stdout EXCEPT ![c] = "part"]
       \/ /\ device[c] = "done"
          /\ stdout' = [stdout EXCEPT ![c] = "whole"]
    /\ UNCHANGED <<promise, armed, conn, ended, hostKeyRejected, device>>

MutFirstOutput(c) == stdout[c] # "nothing"    \* resolve on the first data

(* The stream has delivered all there is. *)
OutputOver(c) == stdout[c] = "whole"

(* The stream's 'close': after the whole output, or because the connection
   was closed by the other side without an error. *)
StreamCloses(c) ==
    /\ conn[c] = "running"
    /\ OutputOver(c) \/ c \in CleanLoss
    /\ Becomes(c, "lost")
    /\ SettleAndEnd(c, "data")
    /\ UNCHANGED <<hostKeyRejected, device, stdout>>

(* 'error': the connection fails at any time before the stream has closed. *)
ConnectionFails(c) ==
    /\ conn[c] \in Connected
    /\ Becomes(c, "lost")
    /\ Settle(c, IF c \in hostKeyRejected THEN "hostKey" ELSE "error")
    /\ UNCHANGED <<ended, hostKeyRejected, device, stdout>>

(* The other side closes the connection before the command was asked for;
   nothing listens to that, so only the timer is left. *)
ConnectionCloses(c) ==
    /\ c \in CleanLoss
    /\ conn[c] \in {"handshake", "verified"}
    /\ Becomes(c, "lost")
    /\ UNCHANGED <<promise, armed, ended, hostKeyRejected, device, stdout>>

(* The device gets the request, at once or after its call has given up. *)
DeviceStarts(c) ==
    /\ device[c] = "asked"
    /\ device' = [device EXCEPT ![c] = "running"]
    /\ UNCHANGED <<promise, armed, conn, ended, hostKeyRejected, stdout>>

DeviceFinishes(c) ==
    /\ device[c] = "running"
    /\ device' = [device EXCEPT ![c] = "done"]
    /\ UNCHANGED <<promise, armed, conn, ended, hostKeyRejected, stdout>>

-----------------------------------------------------------------------------
Next ==
    \E c \in Calls :
        \/ Begin(c)
        \/ TimerFires(c)
        \/ VerifyHost(c)
        \/ Ready(c)
        \/ ExecFails(c)
        \/ StreamOpens(c)
        \/ Data(c)
        \/ StreamCloses(c)
        \/ ConnectionFails(c)
        \/ ConnectionCloses(c)
        \/ DeviceStarts(c)
        \/ DeviceFinishes(c)

Spec == Init /\ [][Next]_vars

(* Timers fire.  Nothing is assumed of the device or the network. *)
Fairness == \A c \in Calls : WF_vars(TimerFires(c))

FairSpec == Spec /\ Fairness

-----------------------------------------------------------------------------
(* Properties.                                                             *)

(* No settled call leaves anything behind, whichever callback settled it: no
   connection that it has not ended and that has not failed (prd.md, FR-SSH-1:
   "Open an SSH session per command, execute it, and close the session"), and
   no timer, which would keep the process alive.  Only a call that failed as
   connect threw leaves its timer, and without a connection. *)
CallsCleanUp ==
    \A c \in Calls : Settled(c) =>
        /\ c \in ended \/ conn[c] \in {"none", "lost"}
        /\ c \in armed => promise[c] = "threw" /\ conn[c] = "none"

(* A device whose host key was rejected never gets a command, and its caller
   is told the reason, or that the time was up, and nothing else. *)
RejectedHostsStayOut ==
    \A c \in hostKeyRejected :
        /\ device[c] = "idle"
        /\ promise[c] \in {"pending", "hostKey", "timeout"}

(* Every call is answered, even when device, network and ssh2 stay silent:
   the timer alone sees to it. *)
EveryCallSettles == \A c \in Calls : promise[c] = "pending" ~> Settled(c)

Told(c) ==
    CASE promise[c] = "none"    -> "nothing"
      [] promise[c] = "pending" -> "waiting"
      [] promise[c] = "data"    -> "data"
      [] OTHER                  -> "error"

(* The calls whose output cannot be cut off without an error. *)
Sound == Calls \ CleanLoss

Promised == INSTANCE DeviceCall WITH
    Calls   <- Sound,
    told    <- [c \in Sound |-> Told(c)],
    carried <- {c \in Sound : device[c] = "done"}

(* Unless its connection ends in mid-command without an error, a call of
   executeCommand keeps the promise of the DeviceTransport interface, whatever
   other calls meet with: data means done. *)
ImplementsDeviceCall == Promised!Spec

(* Of any call, also one whose connection was closed in mid-command: data is
   told only of a command that the device did start, and only that close can
   have cut it short (stream.on('close')). *)
DataIsOfTheCommand ==
    \A c \in Calls : promise[c] = "data" =>
        /\ device[c] \in {"running", "done"}
        /\ stdout[c] = "whole" \/ c \in CleanLoss

(* prd.md, FR-SSH-3: "Return a per-device error with context when a device is
   unreachable or a command times out": a call whose connection went away
   before the whole output had come is not told it succeeded. *)
DataIsWhole == \A c \in Calls : promise[c] = "data" => stdout[c] = "whole"

=============================================================================
