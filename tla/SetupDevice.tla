----------------------------- MODULE SetupDevice -----------------------------
(***************************************************************************)
(* Bootstrapping a fresh router: setup-new-device (src/tools/setup.ts).    *)
(*                                                                         *)
(* A run of the tool talks to one device over REST and to the vault: it    *)
(* connects with the passwordless admin account, names the device, moves   *)
(* the www service to another port when one is configured, sets a fresh    *)
(* random password, stores it, and verifies it.  Several runs may be under *)
(* way at once (one per MCP request), also against the same device or for  *)
(* the same identity.                                                      *)
(*                                                                         *)
(* A REST request is served and answered, or its sender gives up on it     *)
(* (unreachable, refused, time-out, entry not found).  One that was given  *)
(* up may still be on its way, and then the device serves it at any later  *)
(* time: at once, when only its answer was lost, or after other requests.  *)
(* A password is named by the run that generated it.  The vault is the     *)
(* abstract one of AtomicVault: createEntry stores the entry, or stores    *)
(* nothing and throws.  Other processes may save the vault as well, and a  *)
(* desktop KeePass that kept an older copy erases entries by it (README,   *)
(* "Don't leave a desktop KeePass with stale contents open").              *)
(*                                                                         *)
(* Definitions named Mut... are slips kept to show which property notices  *)
(* them; they are not part of the model.                                   *)
(***************************************************************************)
EXTENDS FiniteSets

CONSTANTS
    Runs,           \* calls of setup-new-device; a run also names its password
    Devices,        \* the devices, by address (ip)
    Identities,     \* the names devices are given
    DeviceOf,       \* the ip argument of each run
    IdentityOf,     \* the identity argument of each run
    Empty,          \* the empty password, an absent vault entry, no name
    Relocate,       \* is ROUTEROS_SETUP_PORT set to a port other than 80?
    LateService,    \* may a request be served after its sender gave up on it?
    Crashes         \* may the server process die?

ASSUME SetupAssumption ==
    /\ DeviceOf \in [Runs -> Devices]
    /\ IdentityOf \in [Runs -> Identities]
    /\ Empty \notin Runs \cup Identities
    /\ Relocate \in BOOLEAN
    /\ LateService \in BOOLEAN
    /\ Crashes \in BOOLEAN

VARIABLES
    pc,         \* the stage each run is at
    result,     \* what each run answered: stage ("ok" for success), recoverable
    password,   \* the admin password of each device
    port,       \* the port the www service of each device listens on
    name,       \* the system identity of each device
    late,       \* requests still on their way whose sender has given up
    vault,      \* the password stored under each identity
    log,        \* the passwords written to the server log
    erased      \* history: the passwords others ever erased from the vault

vars == <<pc, result, password, port, name, late, vault, log, erased>>
device == <<password, port, name>>
records == <<vault, log, erased>>

Stages == {"connect", "identity", "services", "port", "portVerify", "users",
           "password", "keepass", "rollback", "verify"}

Answers == [stage : {"none", "connect", "identity", "port-change", "password",
                     "keepass", "verify", "ok", "aborted"},
            recoverable : BOOLEAN]

Secrets == Runs \cup {Empty}

(* The stages whose request changes the device. *)
Changing == {"identity", "port", "password", "rollback"}

(* The port for the stages after the relocation (targetPort). *)
Target == IF Relocate THEN "target" ELSE "initial"

TypeOK ==
    /\ pc \in [Runs -> Stages \cup {"idle", "finished"}]
    /\ result \in [Runs -> Answers]
    /\ password \in [Devices -> Secrets]
    /\ port \in [Devices -> {"initial", Target}]
    /\ name \in [Devices -> Identities \cup {Empty}]
    /\ late \subseteq Runs \X Changing
    /\ vault \in [Identities -> Secrets]
    /\ log \subseteq Runs
    /\ erased \subseteq Runs

(* Freshly cloned devices: no password, www on port 80, no name of ours. *)
Init ==
    /\ pc = [r \in Runs |-> "idle"]
    /\ result = [r \in Runs |-> [stage |-> "none", recoverable |-> FALSE]]
    /\ password = [d \in Devices |-> Empty]
    /\ port = [d \in Devices |-> "initial"]
    /\ name = [d \in Devices |-> Empty]
    /\ late = {}
    /\ vault = [i \in Identities |-> Empty]
    /\ log = {}
    /\ erased = {}

-----------------------------------------------------------------------------
(* The device of r serves a request sent to port p with password s. *)
Serves(r, p, s) == port[DeviceOf[r]] = p /\ password[DeviceOf[r]] = s

Goto(r, stage) ==
    /\ pc' = [pc EXCEPT ![r] = stage]
    /\ UNCHANGED result

Answer(r, stage, recoverable) ==
    /\ pc' = [pc EXCEPT ![r] = "finished"]
    /\ result' = [result EXCEPT ![r] = [stage |-> stage,
                                        recoverable |-> recoverable]]

(* What the request of a stage does when the device of r serves it: it needs
   the right port and password, and changes one of the device's settings. *)
Effect(r, stage) ==
    \/ /\ stage = "identity"
       /\ Serves(r, "initial", Empty)
       /\ name' = [name EXCEPT ![DeviceOf[r]] = IdentityOf[r]]
       /\ UNCHANGED <<password, port>>
    \/ /\ stage = "port"
       /\ Serves(r, "initial", Empty)
       /\ port' = [port EXCEPT ![DeviceOf[r]] = "target"]
       /\ UNCHANGED <<password, name>>
    \/ /\ stage = "password"
       /\ Serves(r, Target, Empty)
       /\ password' = [password EXCEPT ![DeviceOf[r]] = r]
       /\ UNCHANGED <<port, name>>
    \/ /\ stage = "rollback"
       /\ Serves(r, Target, r)
       /\ password' = [password EXCEPT ![DeviceOf[r]] = Empty]
       /\ UNCHANGED <<port, name>>

(* The request is served and its answer arrives. *)
Served(r, stage) == Effect(r, stage) /\ UNCHANGED late

(* The sender gives up; the request is gone or still on its way. *)
GivenUp(r, stage) ==
    /\ \/ UNCHANGED late
       \/ LateService /\ late' = late \cup {<<r, stage>>}
    /\ UNCHANGED device

Unasked == UNCHANGED <<device, late>>

Call(r) ==
    /\ pc[r] = "idle"
    /\ Goto(r, "connect")
    /\ Unasked
    /\ UNCHANGED records

(* Step 1: query /system/identity on port 80 without a password. *)
Connect(r) ==
    /\ pc[r] = "connect"
    /\ \/ /\ Serves(r, "initial", Empty)
          /\ Goto(r, "identity")
       \/ Answer(r, "connect", TRUE)
    /\ Unasked
    /\ UNCHANGED records

AfterIdentity == IF Relocate THEN "services" ELSE "users"

(* Step 3: /system/identity/set. *)
SetIdentity(r) ==
    /\ pc[r] = "identity"
    /\ \/ Served(r, "identity") /\ Goto(r, AfterIdentity)
       \/ GivenUp(r, "identity") /\ Answer(r, "identity", TRUE)
    /\ UNCHANGED records

(* Step 4: query /ip/service and find the www entry. *)
FindService(r) ==
    /\ pc[r] = "services"
    /\ \/ /\ Serves(r, "initial", Empty)
          /\ Goto(r, "port")
       \/ Answer(r, "port-change", TRUE)
    /\ Unasked
    /\ UNCHANGED records

(* Step 4: /ip/service/set.  An error is not believed: the move may have cut
   the connection that carried the answer. *)
MovePort(r) ==
    /\ pc[r] = "port"
    /\ \/ Served(r, "port") /\ Goto(r, "users")
       \/ GivenUp(r, "port") /\ Goto(r, "portVerify")
    /\ UNCHANGED records

(* Step 4: does the device answer on the new port? *)
VerifyPort(r) ==
    /\ pc[r] = "portVerify"
    /\ \/ /\ Serves(r, "target", Empty)
          /\ Goto(r, "users")
       \/ Answer(r, "port-change", TRUE)
    /\ Unasked
    /\ UNCHANGED records

(* Step 5: query /user and find the admin entry. *)
FindAdmin(r) ==
    /\ pc[r] = "users"
    /\ \/ /\ Serves(r, Target, Empty)
          /\ Goto(r, "password")
       \/ Answer(r, "password", TRUE)
    /\ Unasked
    /\ UNCHANGED records

(* Step 5: /user/set with the generated password. *)
SetPassword(r) ==
    /\ pc[r] = "password"
    /\ \/ Served(r, "password") /\ Goto(r, "keepass")
       \/ GivenUp(r, "password") /\ Answer(r, "password", TRUE)
    /\ UNCHANGED records

MutStoredBefore(r) ==                \* "already exists" taken for success
    /\ pc[r] = "keepass"
    /\ vault' = [vault EXCEPT ![IdentityOf[r]] = IF @ = Empty THEN r ELSE @]
    /\ Goto(r, "verify")
    /\ Unasked
    /\ UNCHANGED <<log, erased>>

(* What createEntry may have read: the vault, perhaps with entries that others
   have erased since. *)
Copies ==
    {copy \in [Identities -> Secrets] :
        \A i \in Identities : copy[i] # vault[i] =>
            vault[i] = Empty /\ copy[i] \in erased /\ IdentityOf[copy[i]] = i}

(* Step 6: createEntry stores the entry in what it read, unless the identity
   has one ... *)
StoreCredentials(r) ==
    /\ pc[r] = "keepass"
    /\ \E copy \in Copies :
          /\ copy[IdentityOf[r]] = Empty
          /\ vault' = [copy EXCEPT ![IdentityOf[r]] = r]
    /\ Goto(r, "verify")
    /\ Unasked
    /\ UNCHANGED <<log, erased>>

(* ... or throws, with nothing stored. *)
StoreFails(r) ==
    /\ pc[r] = "keepass"
    /\ Goto(r, "rollback")
    /\ Unasked
    /\ UNCHANGED records

MutWrongStage(r) ==                  \* a stage the result type does not have
    /\ pc[r] = "rollback"
    /\ Served(r, "rollback")
    /\ Answer(r, "rollback", TRUE)
    /\ UNCHANGED records

(* Step 6, catch: /user/set back to the empty password, with the new one. *)
Rollback(r) ==
    /\ pc[r] = "rollback"
    /\ Served(r, "rollback")
    /\ Answer(r, "keepass", TRUE)
    /\ UNCHANGED records

MutNoLog(r) ==                       \* the password is not written to the log
    /\ pc[r] = "rollback"
    /\ GivenUp(r, "rollback")
    /\ Answer(r, "keepass", FALSE)
    /\ UNCHANGED records

MutErrorIgnored(r) ==                \* an empty inner catch
    /\ pc[r] = "rollback"
    /\ GivenUp(r, "rollback")
    /\ Answer(r, "keepass", TRUE)
    /\ UNCHANGED records

(* Step 6, inner catch: the last resort is the server log. *)
RollbackFails(r) ==
    /\ pc[r] = "rollback"
    /\ GivenUp(r, "rollback")
    /\ log' = log \cup {r}
    /\ Answer(r, "keepass", FALSE)
    /\ UNCHANGED <<vault, erased>>

MutVerifyInsideTry(r) ==             \* verification shares the catch of step 6
    /\ pc[r] = "verify"
    /\ \/ Serves(r, Target, r) /\ Answer(r, "ok", FALSE)
       \/ Goto(r, "rollback")
    /\ Unasked
    /\ UNCHANGED records

(* Step 7: query /system/identity with the new credentials. *)
Verify(r) ==
    /\ pc[r] = "verify"
    /\ \/ Serves(r, Target, r) /\ Answer(r, "ok", FALSE)
       \/ Answer(r, "verify", FALSE)
    /\ Unasked
    /\ UNCHANGED records

-----------------------------------------------------------------------------
(* A device serves a request whose sender has given up.  When it arrives is
   open: one that would be refused now may still come at a better time. *)
ServeLate ==
    \E q \in late :
        /\ Effect(q[1], q[2])
        /\ late' = late \ {q}
        /\ UNCHANGED <<pc, result, records>>

(* Another process saves the vault without an entry. *)
OthersErase ==
    \E i \in Identities :
        /\ vault[i] # Empty
        /\ vault' = [vault EXCEPT ![i] = Empty]
        /\ erased' = erased \cup {vault[i]}
        /\ UNCHANGED <<pc, result, device, late, log>>

(* The server dies: the runs under way end where they are, and the requests
   they were waiting for may still be on their way. *)
UnderWay == {r \in Runs : pc[r] \in Stages}

Crash ==
    /\ Crashes
    /\ UnderWay # {}
    /\ pc' = [r \in Runs |-> IF r \in UnderWay THEN "finished" ELSE pc[r]]
    /\ result' = [r \in Runs |-> IF r \in UnderWay
                                 THEN [stage |-> "aborted", recoverable |-> FALSE]
                                 ELSE result[r]]
    /\ \E waiting \in SUBSET {r \in UnderWay : pc[r] \in Changing} :
          late' = late \cup {<<r, pc[r]>> : r \in waiting}
    /\ UNCHANGED <<device, records>>

Step(r) ==
    \/ Connect(r)
    \/ SetIdentity(r)
    \/ FindService(r)
    \/ MovePort(r)
    \/ VerifyPort(r)
    \/ FindAdmin(r)
    \/ SetPassword(r)
    \/ StoreCredentials(r)
    \/ StoreFails(r)
    \/ Rollback(r)
    \/ RollbackFails(r)
    \/ Verify(r)

Next ==
    \/ \E r \in Runs : Call(r) \/ Step(r)
    \/ ServeLate
    \/ OthersErase
    \/ Crash

Spec == Init /\ [][Next]_vars

-----------------------------------------------------------------------------
(* Properties.                                                             *)

Finished(r, stage) == pc[r] = "finished" /\ result[r].stage = stage

(* setup.ts reports success: from then on the device keeps the generated
   password, and the vault keeps it under the identity until somebody outside
   the server erases it, whatever other runs against the same device or for
   the same identity still do. *)
SuccessIsLasting ==
    \A r \in Runs : Finished(r, "ok") =>
        /\ password[DeviceOf[r]] = r
        /\ vault[IdentityOf[r]] = r \/ r \in erased

(* The vault never promises access it cannot give: every stored password is
   the one its device has.  No roll-back ever takes back a stored password,
   one that was erased and came back with a later write included. *)
StoredPasswordsWork ==
    \A i \in Identities : vault[i] # Empty =>
        password[DeviceOf[vault[i]]] = vault[i]

(* "The password is set on the device but not stored anywhere" does not
   outlive a run that was answered, except that the answer to the request
   that set it was lost: a device's password is empty, in the vault, in the
   log, or its run is still under way or was cut off, or somebody outside the
   server has erased the entry it had. *)
NoPasswordIsOrphaned ==
    \A d \in Devices : LET r == password[d] IN
        \/ r = Empty
        \/ vault[IdentityOf[r]] = r
        \/ r \in log
        \/ r \in erased
        \/ pc[r] # "finished"
        \/ result[r].stage \in {"aborted", "password"}

(* A roll-back that was answered "reset to empty" did its work: no recoverable
   keepass failure leaves its password on the device, in the vault or in the
   log. *)
ResetMeansGone ==
    \A r \in Runs : Finished(r, "keepass") /\ result[r].recoverable =>
        /\ password[DeviceOf[r]] # r
        /\ vault[IdentityOf[r]] # r
        /\ r \notin log

(* Setup can start over: the device answers on port 80 without a password. *)
Rerunnable(r) == Serves(r, "initial", Empty)

(* README, "The vault can't be written": setup "reports a recoverable
   failure, so you can fix the mount and run it again". *)
KeepassFailureIsRerunnable ==
    \A r \in Runs : Finished(r, "keepass") /\ result[r].recoverable
                        => Rerunnable(r)

(* setup.test.ts, step 5: a failure to set the password is recoverable. *)
PasswordFailureIsRerunnable ==
    \A r \in Runs : Finished(r, "password") /\ result[r].recoverable
                        => Rerunnable(r)

(* The tool's description: it bootstraps the device, "set identity, generate
   a secure password, and store credentials": the credentials stored under an
   identity open the device of that name. *)
SuccessNamesTheDevice ==
    \A r \in Runs : Finished(r, "ok") => name[DeviceOf[r]] = IdentityOf[r]

=============================================================================
