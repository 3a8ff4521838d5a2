------------------------------- MODULE FanOut -------------------------------
(***************************************************************************)
(* One tool call spread over devices (src/fan-out.ts).                     *)
(*                                                                         *)
(* The target "all" reads the vault once and takes every device in it.  A  *)
(* list of ids is resolved one id after the other, and every resolution    *)
(* reads the vault again, so the vault may change, or be unreadable for a  *)
(* while, between two of them.  Then the callback is started for all       *)
(* resolved devices at once; the callbacks settle in any order, and when   *)
(* the last one has, the results are paired with the devices by position.  *)
(*                                                                         *)
(* A credential is abstracted to the host it leads to, the data a callback *)
(* returns to the host that gave it, and an error to the fact of it.  A    *)
(* callback makes one call of a transport, and of that call this module    *)
(* assumes what DeviceCall promises and SshCommand and RestCall are shown  *)
(* to keep: data only after the device has carried the command out, and    *)
(* nothing of the kind for an error.                                       *)
(* Definitions named Mut... are slips kept to show which property notices  *)
(* them; they are not part of the model.                                   *)
(***************************************************************************)
EXTENDS Integers, Sequences, FiniteSets, SequencesExt

CONSTANTS
    Ids,        \* device ids that the vault may hold or a caller may name
    Hosts,      \* the devices behind them
    Absent,     \* no vault entry
    All,        \* the target "all"
    MaxIds,     \* bound: ids named in one target
    MaxEdits    \* bound: changes of the vault during the call

ASSUME FanOutAssumption ==
    /\ IsFiniteSet(Ids)
    /\ {Absent, "error"} \cap Hosts = {}
    /\ MaxIds \in Nat
    /\ MaxEdits \in Nat

VARIABLES
    pc,         \* where the call is
    target,     \* All, or the ids left after splitting, trimming, filtering
    next,       \* the position of the id to resolve next
    vault,      \* the host each id leads to, or Absent
    readable,   \* can the vault be read and opened at the moment?
    resolved,   \* credentials found, in the order of the target
    failed,     \* ids that could not be resolved, in the order of the target
    told,       \* what the callback of each position was told by its device
    carried,    \* the positions whose command the device has carried out
    answer,     \* what the call returns
    edits,      \* number of vault changes so far
    held        \* history: the hosts each id led to since the call began

vars == <<pc, target, next, vault, readable, resolved, failed, told, carried,
          answer, edits, held>>

(* The calls of the transports, one for each position of the credentials. *)
Positions == 1..(MaxIds + Cardinality(Ids))

Device == INSTANCE DeviceCall WITH Calls <- Positions

Targets == {All} \cup UNION {[1..n -> Ids] : n \in 0..MaxIds}

TypeOK ==
    /\ pc \in {"begin", "resolve", "execute", "returned", "thrown"}
    /\ target \in Targets
    /\ next \in 1..MaxIds + 1
    /\ vault \in [Ids -> Hosts \cup {Absent}]
    /\ readable \in BOOLEAN
    /\ \A i \in DOMAIN resolved : resolved[i] \in [id : Ids, host : Hosts]
    /\ \A i \in DOMAIN failed : failed[i] \in Ids
    /\ told \in [DOMAIN resolved -> {"waiting", "data", "error"}] \cup {<<>>}
    /\ carried \subseteq DOMAIN told
    /\ \A i \in DOMAIN answer :
          answer[i] \in [id : Ids, success : BOOLEAN, data : Hosts \cup {Absent}]
    /\ edits \in 0..MaxEdits
    /\ held \in [Ids -> SUBSET (Hosts \cup {Absent})]

Init ==
    /\ pc = "begin"
    /\ target \in Targets
    /\ next = 1
    /\ vault \in [Ids -> Hosts \cup {Absent}]
    /\ readable \in BOOLEAN
    /\ resolved = <<>>
    /\ failed = <<>>
    /\ told = <<>>
    /\ carried = {}
    /\ answer = <<>>
    /\ edits = 0
    /\ held = [i \in Ids |-> {vault[i]}]

-----------------------------------------------------------------------------
(* executeAll: every callback is started before any can settle. *)
Execute(credentials) ==
    /\ pc' = "execute"
    /\ resolved' = credentials
    /\ told' = [i \in DOMAIN credentials |-> "waiting"]

(* target = "all": listDevices reads the vault once; an error there is the
   call's error. *)
ListAll ==
    /\ pc = "begin"
    /\ target = All
    /\ \/ /\ readable
          /\ \E listed \in SetToSeqs({i \in Ids : vault[i] # Absent}) :
                Execute([k \in DOMAIN listed |->
                            [id |-> listed[k], host |-> vault[listed[k]]]])
       \/ /\ ~readable
          /\ pc' = "thrown"
          /\ UNCHANGED <<resolved, told>>
    /\ UNCHANGED <<target, next, vault, readable, failed, carried, answer, edits,
                   held>>

BeginList ==
    /\ pc = "begin"
    /\ target # All
    /\ pc' = "resolve"
    /\ UNCHANGED <<target, next, vault, readable, resolved, failed, told,
                   carried, answer, edits, held>>

Found(id) == readable /\ vault[id] # Absent

(* One round of the loop over the ids: resolveCredentials reads the vault; any
   error, also an unreadable vault, becomes this id's failure. *)
Resolve ==
    /\ pc = "resolve"
    /\ next <= Len(target)
    /\ LET id == target[next] IN
          \/ /\ Found(id)
             /\ resolved' = Append(resolved, [id |-> id, host |-> vault[id]])
             /\ UNCHANGED failed
          \/ /\ ~Found(id)
             /\ failed' = Append(failed, id)
             /\ UNCHANGED resolved
    /\ next' = next + 1
    /\ UNCHANGED <<pc, target, vault, readable, told, carried, answer, edits, held>>

Failure(id) == [id |-> id, success |-> FALSE, data |-> Absent]

Failures == [i \in DOMAIN failed |-> Failure(failed[i])]

(* The loop is over: return the failures if nothing was resolved. *)
EndList ==
    /\ pc = "resolve"
    /\ next > Len(target)
    /\ \/ /\ resolved = <<>>
          /\ pc' = "returned"
          /\ answer' = Failures
          /\ UNCHANGED <<resolved, told>>
       \/ /\ resolved # <<>>
          /\ Execute(resolved)
          /\ UNCHANGED answer
    /\ UNCHANGED <<target, next, vault, readable, failed, carried, edits, held>>

(* The callback of position i settles: its device answers, or it throws.  A
   callback that was not waited for may do so after the call has returned. *)
CallbackSettles(i) ==
    /\ pc \in {"execute", "returned"}
    /\ Device!TellData(i) \/ Device!TellError(i)
    /\ UNCHANGED <<pc, target, next, vault, readable, resolved, failed, answer,
                   edits, held>>

(* The device of position i carries the command out, also one it has been late
   with, whose caller was told of an error. *)
DeviceActs(i) ==
    /\ i \notin carried
    /\ Device!CarryOut(i)
    /\ UNCHANGED <<pc, target, next, vault, readable, resolved, failed, answer,
                   edits, held>>

MutFirstError == \/ \A i \in DOMAIN told : told[i] # "waiting"
                 \/ \E i \in DOMAIN told : told[i] = "error"  \* Promise.all
MutAllData    == \A i \in DOMAIN told : told[i] = "data"

AllSettled == \A i \in DOMAIN told : told[i] # "waiting"

Outcomes == [i \in DOMAIN told |->
                IF told[i] = "data" THEN resolved[i].host ELSE "error"]

(* Pair outcome o with the credential of position i. *)
Result(i, o) ==
    IF o \in Hosts THEN [id |-> resolved[i].id, success |-> TRUE, data |-> o]
                   ELSE Failure(resolved[i].id)

MutFulfilledFirst ==      \* results sorted by status before they are paired
    LET errors == SelectSeq(Outcomes, LAMBDA o : o \notin Hosts)
        data   == SelectSeq(Outcomes, LAMBDA o : o \in Hosts)
    IN  [i \in DOMAIN told |-> Result(i, (data \o errors)[i])]
MutFulfilledOnly ==       \* rejected callbacks filtered out
    LET data == SelectSeq(Outcomes, LAMBDA o : o \in Hosts)
    IN  [i \in DOMAIN data |-> Result(i, data[i])]

Results == [i \in DOMAIN told |-> Result(i, Outcomes[i])]

(* Promise.allSettled resolves: map the results and append the failures. *)
Return ==
    /\ pc = "execute"
    /\ AllSettled
    /\ pc' = "returned"
    /\ answer' = Results \o Failures
    /\ UNCHANGED <<target, next, vault, readable, resolved, failed, told, carried,
                   edits, held>>

-----------------------------------------------------------------------------
(* While targets are resolved an operator edits the vault, or a write in place
   makes it unreadable for a while (see VaultWriter).  Later it is not read. *)
EditVault ==
    /\ pc \in {"begin", "resolve"}
    /\ edits < MaxEdits
    /\ edits' = edits + 1
    /\ \/ \E id \in Ids, h \in Hosts \cup {Absent} :
             /\ vault' = [vault EXCEPT ![id] = h]
             /\ held' = [held EXCEPT ![id] = @ \cup {h}]
             /\ UNCHANGED readable
       \/ /\ readable' = ~readable
          /\ UNCHANGED <<vault, held>>
    /\ UNCHANGED <<pc, target, next, resolved, failed, told, carried, answer>>

Step == ListAll \/ BeginList \/ Resolve \/ EndList \/ Return

Next ==
    \/ Step
    \/ \E i \in DOMAIN told : CallbackSettles(i) \/ DeviceActs(i)
    \/ EditVault

Spec == Init /\ [][Next]_vars

(* The event loop runs what is ready, and every call of a transport settles in
   the end (SshCommand!EveryCallSettles; RestCall while bodies do not stall). *)
Fairness ==
    /\ WF_vars(Step)
    /\ \A i \in Positions : WF_vars(i \in DOMAIN told /\ CallbackSettles(i))

FairSpec == Spec /\ Fairness

-----------------------------------------------------------------------------
(* Properties.                                                             *)

Answered(es) == [id \in Ids |-> Cardinality({i \in DOMAIN es : es[i].id = id})]
Named(s)     == [id \in Ids |-> Cardinality({i \in DOMAIN s : s[i] = id})]

(* A list target is answered id by id: as many answers for an id as the caller
   named it, also when ids are unknown, repeated, or vanish meanwhile. *)
EveryIdAnswered ==
    pc = "returned" /\ target # All => Answered(answer) = Named(target)

(* fan-out.ts pairs results and credentials by position: data reported for an
   id came from a host the vault gave for that id during the call, whatever
   order the callbacks settle in and whichever of them fail. *)
DataFromOwnDevice ==
    \A i \in DOMAIN answer :
        answer[i].success => answer[i].data \in held[answer[i].id]

(* "Always use Promise.allSettled, never Promise.all" (fan-out.ts): a call that
   has returned reports for each id as many successes as devices carried the
   command out and said so; a device that answers after a sibling has failed
   is not passed over, and none is counted for another id. *)
AnswersMatchDevices ==
    pc = "returned" =>
        \A id \in Ids :
            Cardinality({k \in DOMAIN answer :
                            answer[k].id = id /\ answer[k].success})
              = Cardinality({i \in carried :
                                resolved[i].id = id /\ told[i] = "data"})

(* A call over devices ends, with an answer or an error of the vault, although
   any of its devices may fail and the vault may change under it. *)
EveryCallReturns == <>(pc \in {"returned", "thrown"})

(* fan-out.ts: "Vault-level errors (e.g., vault not opened) propagate to the
   caller": a call that found the vault unreadable all along does not return. *)
VaultErrorsPropagate ==
    pc = "returned" /\ ~readable /\ edits = 0 => target = <<>>

=============================================================================
