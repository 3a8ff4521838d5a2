------------------------------ MODULE SetupVault ------------------------------
(***************************************************************************)
(* setup-new-device together with the vault writer it calls: the runs of   *)
(* SetupDevice, whose step 6 is a createEntry call of VaultWriter, with its *)
(* queue, its retries and what other processes save meanwhile.             *)
(*                                                                         *)
(* SetupDevice knows the vault as something that stores an entry in one    *)
(* step or stores nothing and throws.  Here the run waits for its call's   *)
(* promise; the entry is in the file, or the call has failed, some time    *)
(* before the run hears of it, and meanwhile other runs go on.             *)
(***************************************************************************)
EXTENDS Integers, Sequences, FiniteSets

CONSTANTS
    Runs, Devices, Identities, DeviceOf, IdentityOf, Empty, Relocate,
    LateService, Crashes,               \* of SetupDevice
    Outside,                            \* entries only others create
    OutsideTitle,                       \* their titles
    None, MaxAttempts, MaxEdits,        \* of VaultWriter
    MaxCrashes, LateEdits, InPlaceWrites

ASSUME StoresAssumption ==
    /\ Runs \cap Outside = {}
    /\ None \notin Runs
    /\ Empty \notin Runs \cup Identities
    /\ DeviceOf \in [Runs -> Devices]
    /\ IdentityOf \in [Runs -> Identities]
    /\ Relocate \in BOOLEAN
    /\ LateService \in BOOLEAN
    /\ Crashes \in BOOLEAN
    /\ OutsideTitle \in [Outside -> Identities]
    /\ MaxAttempts \in Nat \ {0}
    /\ MaxEdits \in Nat
    /\ MaxCrashes \in Nat
    /\ LateEdits \in BOOLEAN
    /\ InPlaceWrites \in BOOLEAN

VARIABLES
    pc, result, password, port, name, late, log,    \* of SetupDevice
    file, tmp, tail, prev, attempt, raw,            \* of VaultWriter
    order, added, removed, edits, crashes,
    step,       \* where each createEntry call is (pc of VaultWriter)
    outcome,    \* how its promise settles (result of VaultWriter)
    touched     \* entries of late outside saves (late of VaultWriter)

tool == <<pc, result, password, port, name, late, log>>
writer == <<file, tmp, tail, prev, attempt, raw, order, added, removed, edits,
            crashes, step, outcome, touched>>
vars == <<tool, writer>>

(* buildEntry: the entry's title is the identity. *)
TitleOf == [e \in Runs \cup Outside |->
               IF e \in Runs THEN IdentityOf[e] ELSE OutsideTitle[e]]

Writer == INSTANCE VaultWriter WITH
    Calls <- Runs, Titles <- Identities, pc <- step, result <- outcome,
    late <- touched

(* The generated passwords in the vault file, by title. *)
Stored == [i \in Identities |->
              IF \E r \in Runs \cap file.entries : IdentityOf[r] = i
              THEN CHOOSE r \in Runs \cap file.entries : IdentityOf[r] = i
              ELSE Empty]

(* The generated passwords that saves of others ever took out of the file. *)
Erased == Runs \cap removed

Tool == INSTANCE SetupDevice WITH vault <- Stored, erased <- Erased

Init ==
    /\ Writer!Init
    /\ Tool!Init

-----------------------------------------------------------------------------
(* Every step of a run but step 6. *)
ToolStep(r) ==
    /\ UNCHANGED writer
    /\ \/ Tool!Call(r)
       \/ Tool!Connect(r)
       \/ Tool!SetIdentity(r)
       \/ Tool!FindService(r)
       \/ Tool!MovePort(r)
       \/ Tool!VerifyPort(r)
       \/ Tool!FindAdmin(r)
       \/ Tool!SetPassword(r)
       \/ Tool!Rollback(r)
       \/ Tool!RollbackFails(r)
       \/ Tool!Verify(r)

(* Step 6: keepass.createEntry(identity, username, password). *)
CallCreateEntry(r) ==
    /\ pc[r] = "keepass"
    /\ Writer!Enqueue(r)
    /\ UNCHANGED tool

(* One step of a pending createEntry call. *)
WriterStep(r) ==
    /\ Writer!Step(r)
    /\ UNCHANGED tool

MutErrorDropped(r) == "verify"      \* the rejection is not awaited

(* Where the outcome of its createEntry call takes a run: to the verification,
   or into the catch. *)
AfterCall(r) == IF outcome[r] = "ok" THEN "verify" ELSE "rollback"

(* The promise of createEntry has settled and the run goes on. *)
Resume(r) ==
    /\ pc[r] = "keepass"
    /\ step[r] = "settled"
    /\ Tool!Goto(r, AfterCall(r))
    /\ UNCHANGED <<password, port, name, late, log, writer>>

(* Another process saves the vault, and may erase a generated entry by it. *)
OthersSave ==
    /\ Writer!OutsideSave
    /\ UNCHANGED tool

(* The one process of the runs and the writer dies. *)
Crash ==
    /\ crashes < MaxCrashes
    /\ IF Writer!Live = {} THEN UNCHANGED writer ELSE Writer!Crash
    /\ Tool!Crash

ServeLate == UNCHANGED writer /\ Tool!ServeLate

Next ==
    \/ \E r \in Runs :
          ToolStep(r) \/ CallCreateEntry(r) \/ WriterStep(r) \/ Resume(r)
    \/ OthersSave
    \/ ServeLate
    \/ Crash

Spec == Init /\ [][Next]_vars

(* The event loop runs every ready reaction and every file operation ends.
   Nothing is assumed of the devices: the timer of a REST request is cleared
   before the body is read (rest-transport.ts), so a request may never come
   back.  Nor has anybody to call a tool, to save the vault, or to serve a
   request late. *)
Fairness ==
    \A r \in Runs :
        WF_vars(CallCreateEntry(r)) /\ WF_vars(Resume(r)) /\ WF_vars(WriterStep(r))

FairSpec == Spec /\ Fairness

-----------------------------------------------------------------------------
(* Properties.                                                             *)

(* A run is at the stage its call's outcome decides as soon as that outcome
   is settled, although it hears of it later. *)
Decided(r) == pc[r] = "keepass" /\ outcome[r] # "none"

Setup == INSTANCE SetupDevice WITH
    vault <- Stored,
    erased <- Erased,
    pc <- [r \in Runs |-> IF Decided(r) THEN AfterCall(r) ELSE pc[r]]

(* Over the writer with its queue and retries, setup-new-device does nothing
   it does not do over a vault that stores in one step: what SetupDevice says
   of passwords, roll-backs and successes holds of the vault file, also when
   two runs want the same title, when someone else holds it or erases what
   was stored, and when the process dies anywhere in between. *)
ImplementsSetup == Setup!Spec

(* The requests of r come back or are given up, every one of them. *)
OwnRequestsEnd(r) == WF_vars(pc[r] # "idle" /\ ToolStep(r))

(* A run waits for nothing but its own device: if its requests come back or
   are given up it is answered, although other runs hang at their devices for
   ever, and although its call waits in the vault's queue behind calls that
   fail, retry or give up. *)
EverySetupEnds ==
    \A r \in Runs :
        OwnRequestsEnd(r) => (pc[r] = "connect" ~> pc[r] = "finished")

=============================================================================
