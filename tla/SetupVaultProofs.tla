--------------------------- MODULE SetupVaultProofs ---------------------------
(***************************************************************************)
(* Over the vault writer setup-new-device does what SetupDevice says of it,*)
(* for any number of runs, devices, identities, outside saves and crashes, *)
(* as long as no fault diverts a write of the vault in place.              *)
(***************************************************************************)
EXTENDS SetupVault, TLAPS

(* What is proved about the writer alone. *)
Serial == INSTANCE VaultWriterProofs WITH
    Calls <- Runs, Titles <- Identities, pc <- step, result <- outcome,
    late <- touched

LEMMA WriterAssumptions == Serial!EntriesAssumption /\ Serial!BoundsAssumption
<1>1. TitleOf \in [Runs \cup Outside -> Identities]
  BY StoresAssumption DEF TitleOf
<1> QED
  BY <1>1, StoresAssumption
  DEF Serial!EntriesAssumption, Serial!BoundsAssumption, Serial!Entries

-----------------------------------------------------------------------------
(* Every step of the composition is one of the writer or leaves it alone.  *)
LEMMA StepsOfWriter == [Next]_vars => [Writer!Next]_(Writer!vars)
<1> SUFFICES ASSUME [Next]_vars PROVE [Writer!Next]_(Writer!vars)
  OBVIOUS
<1>1. UNCHANGED writer => UNCHANGED Writer!vars
  BY DEF writer, Writer!vars
<1>2. CASE UNCHANGED vars
  BY <1>1, <1>2 DEF vars
<1>3. ASSUME NEW r \in Runs,
             ToolStep(r) \/ CallCreateEntry(r) \/ WriterStep(r) \/ Resume(r)
      PROVE  [Writer!Next]_(Writer!vars)
  <2>1. CASE ToolStep(r) \/ Resume(r)
    BY <1>1, <2>1 DEF ToolStep, Resume, writer
  <2>2. CASE CallCreateEntry(r) \/ WriterStep(r)
    BY <2>2 DEF CallCreateEntry, WriterStep, Writer!Next
  <2> QED
    BY <1>3, <2>1, <2>2
<1>4. CASE OthersSave \/ ServeLate \/ Crash
  BY <1>1, <1>4 DEF OthersSave, ServeLate, Crash, Writer!Next
<1> QED
  BY <1>2, <1>3, <1>4 DEF Next

LEMMA SameInit == Writer!Init => Serial!Init
BY DEF Writer!Init, Serial!Init, Writer!TitlesDiffer, Serial!TitlesDiffer,
       Writer!NoRead, Serial!NoRead

LEMMA SameStep == ASSUME NEW r \in Runs PROVE Writer!Step(r) => Serial!Step(r)
BY DEF Writer!Step, Serial!Step, Writer!Start, Serial!Start,
       Writer!ReadVault, Serial!ReadVault, Writer!ReadFails, Serial!ReadFails,
       Writer!Compare, Serial!Compare, Writer!WriteTemp, Serial!WriteTemp,
       Writer!WriteTempFails, Serial!WriteTempFails,
       Writer!AdoptOwner, Serial!AdoptOwner, Writer!ChownFails, Serial!ChownFails,
       Writer!Rename, Serial!Rename, Writer!InstallFails, Serial!InstallFails,
       Writer!BeginInPlace, Serial!BeginInPlace,
       Writer!EndInPlace, Serial!EndInPlace,
       Writer!InPlaceRefused, Serial!InPlaceRefused,
       Writer!InPlaceFails, Serial!InPlaceFails, Writer!Settle, Serial!Settle,
       Writer!ChainReached, Serial!ChainReached, Writer!Finish, Serial!Finish,
       Writer!Goto, Serial!Goto, Writer!HasTitleOf, Serial!HasTitleOf,
       Writer!Unchanged, Serial!Unchanged, Writer!TriesLeft, Serial!TriesLeft,
       Writer!Saved, Serial!Saved, Writer!AfterCleanup, Serial!AfterCleanup,
       Writer!queue, Serial!queue, Writer!history, Serial!history

LEMMA SameNext == [Writer!Next]_(Writer!vars) => [Serial!Next]_(Serial!vars)
<1>1. ASSUME NEW r \in Runs PROVE Writer!Enqueue(r) => Serial!Enqueue(r)
  BY DEF Writer!Enqueue, Serial!Enqueue
<1>2. Writer!OutsideSave => Serial!OutsideSave
  BY DEF Writer!OutsideSave, Serial!OutsideSave, Writer!InWindow,
         Serial!InWindow, Writer!Replacing, Serial!Replacing,
         Writer!queue, Serial!queue
<1>3. Writer!Crash => Serial!Crash
  BY DEF Writer!Crash, Serial!Crash, Writer!Live, Serial!Live,
         Writer!Running, Serial!Running, Writer!Replacing, Serial!Replacing
<1>4. UNCHANGED Writer!vars => UNCHANGED Serial!vars
  BY DEF Writer!vars, Serial!vars
<1> QED
  BY <1>1, <1>2, <1>3, <1>4, SameStep DEF Writer!Next, Serial!Next

(* The writes of the process are serial here too. *)
LEMMA WriterFacts == Spec => [](Serial!TypeOK /\ Serial!OneWriter)
<1>1. Init => Serial!Init
  BY SameInit DEF Init
<1>2. [Next]_vars => [Serial!Next]_(Serial!vars)
  BY StepsOfWriter, SameNext
<1>3. Spec => Serial!Spec
  BY <1>1, <1>2, PTL DEF Spec, Serial!Spec
<1>4. Serial!Spec => []Serial!TypeOK
  BY WriterAssumptions, Serial!TypeCorrect
<1>5. Serial!Spec => []Serial!OneWriter
  BY WriterAssumptions, Serial!WritesAreSerial
<1> QED
  BY <1>3, <1>4, <1>5, PTL

-----------------------------------------------------------------------------
(* How the two halves stand to each other.                                 *)

(* A call that has read the vault and still means to replace it. *)
Holding(r) == step[r] \in {"compare", "temp", "adopt", "rename"}

(* The runs whose entries are in the file. *)
InFile == Runs \cap file.entries

(* The runs whose entries are in the copy a call holds. *)
InCopy(r) == Runs \cap raw[r].entries

(* The copy a call holds has the entries of all runs the file has, whatever
   others have saved since, perhaps some that others have erased since, and no
   title of its own; so the runs in the file have identities of their own. *)
FileInv ==
    /\ file.complete
    /\ \A r \in Runs : step[r] \notin {"inplace", "inplaceAfterChown", "writing"}
    /\ \A r \in Runs : Holding(r) =>
          /\ InFile \subseteq InCopy(r)
          /\ InCopy(r) \subseteq InFile \cup removed
          /\ \A e \in raw[r].entries : TitleOf[e] # TitleOf[r]
          /\ \A x, y \in InCopy(r) : IdentityOf[x] = IdentityOf[y] => x = y
    /\ \A x, y \in InFile : IdentityOf[x] = IdentityOf[y] => x = y

Busy    == Writer!Running \cup {"queued", "done"}
Steps   == {"read", "compare", "temp", "adopt", "rename", "settled"}
Earlier == {"idle", "connect", "identity", "services", "port", "portVerify",
            "users", "password"}
Places  == Earlier \cup {"keepass", "rollback", "verify", "finished"}

(* A run makes its call at step 6 and is there as long as the call lasts. *)
CallInv ==
    /\ pc \in [Runs -> Places]
    /\ \A r \in Runs :
          /\ step[r] \in {"idle", "queued"} \cup Writer!Running => outcome[r] = "none"
          /\ step[r] \in {"done", "settled"} => outcome[r] # "none"
          /\ pc[r] \in Earlier => step[r] = "idle"
          /\ step[r] \in Busy => pc[r] = "keepass"
          /\ pc[r] = "keepass" => outcome[r] # "aborted"

LEMMA TitlesOfRuns == \A r \in Runs : TitleOf[r] = IdentityOf[r]
BY StoresAssumption DEF TitleOf

(* What one step of a call does to the file, its copy and its outcome: it goes
   on, perhaps with the file as its copy; it fails; or it installs its copy. *)
Proceeds(r) ==
    /\ UNCHANGED <<file, outcome, removed>>
    /\ \A t \in Runs \ {r} : raw'[t] = raw[t]
    /\ \E to \in Steps :
          /\ step' = [step EXCEPT ![r] = to]
          /\ to = "settled" => step[r] = "done"
          /\ to # "settled" => /\ to \in Writer!Running
                               /\ step[r] # "done"
          /\ to \in {"compare", "temp", "adopt", "rename"} =>
                \/ Holding(r) /\ raw' = raw
                \/ /\ raw'[r].entries = file.entries
                   /\ \A e \in file.entries : TitleOf[e] # TitleOf[r]

Fails(r) ==
    /\ UNCHANGED <<file, removed>>
    /\ \A t \in Runs \ {r} : raw'[t] = raw[t]
    /\ step[r] \in Writer!Running
    /\ step' = [step EXCEPT ![r] = "done"]
    /\ \E why \in Writer!Errors : outcome' = [outcome EXCEPT ![r] = why]

Installs(r) ==
    /\ step[r] = "rename"
    /\ UNCHANGED <<raw, removed>>
    /\ file' = [entries |-> raw[r].entries \cup {r}, complete |-> TRUE,
                version |-> file.version + 1]
    /\ step' = [step EXCEPT ![r] = "done"]
    /\ outcome' = [outcome EXCEPT ![r] = "ok"]

LEMMA StepsOfCalls ==
    ASSUME ~InPlaceWrites, FileInv, Serial!TypeOK,
           NEW r \in Runs, Writer!Step(r)
    PROVE  step[r] \in Busy /\ (Proceeds(r) \/ Fails(r) \/ Installs(r))
<1> USE DEF Busy, Steps, Writer!Running, Writer!Replacing, Writer!Errors, Holding,
            Proceeds, Fails, Installs, Writer!history
<1>0. /\ raw \in [Runs -> [entries : SUBSET (Runs \cup Outside), version : Nat]]
      /\ file.complete
      /\ step[r] \notin {"inplace", "inplaceAfterChown", "writing"}
  BY DEF Serial!TypeOK, Serial!Entries, FileInv
<1>1. CASE Writer!Start(r)
  BY <1>1 DEF Writer!Start
<1>2. CASE Writer!ReadVault(r)
  BY <1>0, <1>2 DEF Writer!ReadVault, Writer!Finish, Writer!Goto, Writer!HasTitleOf
<1>3. CASE Writer!ReadFails(r)
  BY <1>3 DEF Writer!ReadFails, Writer!Finish
<1>4. CASE Writer!Compare(r)
  BY <1>4 DEF Writer!Compare, Writer!Finish, Writer!Goto
<1>5. CASE Writer!WriteTemp(r) \/ Writer!AdoptOwner(r)
  BY <1>5 DEF Writer!WriteTemp, Writer!AdoptOwner, Writer!Goto
<1>6. CASE Writer!WriteTempFails(r) \/ Writer!ChownFails(r)
  BY <1>6 DEF Writer!WriteTempFails, Writer!ChownFails
<1>7. CASE Writer!Rename(r)
  BY <1>7 DEF Writer!Rename, Writer!Finish, Writer!Saved
<1>8. CASE Writer!InstallFails(r)
  BY <1>8 DEF Writer!InstallFails, Writer!Finish
<1>9. CASE Writer!BeginInPlace(r) \/ Writer!EndInPlace(r)
           \/ Writer!InPlaceRefused(r) \/ Writer!InPlaceFails(r)
  BY <1>0, <1>9 DEF Writer!BeginInPlace, Writer!EndInPlace, Writer!InPlaceRefused,
                    Writer!InPlaceFails
<1>10. CASE Writer!Settle(r)
  BY <1>10 DEF Writer!Settle
<1> QED
  BY <1>1, <1>2, <1>3, <1>4, <1>5, <1>6, <1>7, <1>8, <1>9, <1>10
  DEF Writer!Step

LEMMA InitInvs == Init => FileInv /\ CallInv
<1> SUFFICES ASSUME Init PROVE FileInv /\ CallInv
  OBVIOUS
<1>1. \A r \in Runs : step[r] = "idle" /\ outcome[r] = "none" /\ pc[r] = "idle"
  BY DEF Init, Writer!Init, Tool!Init
<1>2. pc \in [Runs -> Places]
  BY DEF Init, Tool!Init, Places, Earlier
<1>3. file.complete /\ InFile = {}
  BY StoresAssumption DEF Init, Writer!Init, InFile
<1> QED
  BY <1>1, <1>2, <1>3
  DEF FileInv, CallInv, Holding, Busy, Writer!Running, Writer!Replacing, Earlier

LEMMA StepKeepsFileInv ==
    ASSUME ~InPlaceWrites, FileInv, Serial!TypeOK, Serial!OneWriter,
           NEW r \in Runs, Writer!Step(r)
    PROVE  FileInv'
<1>1. /\ DOMAIN step = Runs
      /\ Proceeds(r) \/ Fails(r) \/ Installs(r)
  BY StepsOfCalls DEF Serial!TypeOK
<1>2. CASE Proceeds(r)
  <2>1. PICK to \in Steps :
          /\ step' = [step EXCEPT ![r] = to]
          /\ to \in {"compare", "temp", "adopt", "rename"} =>
                \/ Holding(r) /\ raw' = raw
                \/ /\ raw'[r].entries = file.entries
                   /\ \A e \in file.entries : TitleOf[e] # TitleOf[r]
    BY <1>2 DEF Proceeds
  <2>2. /\ file' = file /\ InFile' = InFile /\ removed' = removed
        /\ \A t \in Runs \ {r} : raw'[t] = raw[t]
    BY <1>2 DEF Proceeds, InFile
  <2>3. step'[r] = to /\ \A t \in Runs \ {r} : step'[t] = step[t]
    BY <1>1, <2>1
  <2>4. \A t \in Runs : step'[t] \notin {"inplace", "inplaceAfterChown", "writing"}
    BY <2>3 DEF FileInv, Steps
  <2>5. ASSUME NEW t \in Runs, Holding(t)'
        PROVE  /\ InFile \subseteq InCopy(t)'
               /\ InCopy(t)' \subseteq InFile \cup removed
               /\ \A e \in raw'[t].entries : TitleOf[e] # TitleOf[t]
               /\ \A x, y \in InCopy(t)' : IdentityOf[x] = IdentityOf[y] => x = y
    <3>1. CASE t # r \/ (Holding(r) /\ raw' = raw)
      <4>1. Holding(t) /\ InCopy(t)' = InCopy(t) /\ raw'[t] = raw[t]
        BY <2>2, <2>3, <2>5, <3>1 DEF Holding, InCopy
      <4> QED
        BY <4>1 DEF FileInv
    <3>2. CASE /\ t = r /\ raw'[r].entries = file.entries
               /\ \A e \in file.entries : TitleOf[e] # TitleOf[r]
      <4>1. InCopy(t)' = InFile
        BY <3>2 DEF InCopy, InFile
      <4> QED
        BY <3>2, <4>1 DEF FileInv
    <3>3. t = r => to \in {"compare", "temp", "adopt", "rename"}
      BY <2>3, <2>5 DEF Holding
    <3> QED
      BY <2>1, <3>1, <3>2, <3>3
  <2> QED
    BY <2>2, <2>4, <2>5 DEF FileInv
<1>3. CASE Fails(r)
  <2>1. /\ file' = file /\ InFile' = InFile /\ removed' = removed
        /\ step'[r] = "done"
        /\ \A t \in Runs \ {r} : raw'[t] = raw[t] /\ step'[t] = step[t]
    BY <1>1, <1>3 DEF Fails, InFile
  <2> QED
    BY <2>1 DEF FileInv, Holding, InCopy
<1>4. CASE Installs(r)
  <2>1. /\ file'.complete /\ file'.entries = raw[r].entries \cup {r}
        /\ raw' = raw
        /\ step'[r] = "done" /\ \A t \in Runs \ {r} : step'[t] = step[t]
    BY <1>1, <1>4 DEF Installs
  <2>2. /\ \A x, y \in InCopy(r) : IdentityOf[x] = IdentityOf[y] => x = y
        /\ \A e \in raw[r].entries : TitleOf[e] # TitleOf[r]
    BY <1>4 DEF Installs, FileInv, Holding
  <2>3. InFile' = InCopy(r) \cup {r}
    BY <2>1 DEF InFile, InCopy
  <2>4. \A x \in InCopy(r) : IdentityOf[x] # IdentityOf[r]
    BY <2>2, TitlesOfRuns DEF InCopy
  <2>5. \A t \in Runs : ~Holding(t)'
    BY <1>4, <2>1
    DEF Installs, Holding, Serial!OneWriter, Serial!Running, Serial!Replacing
  <2> QED
    BY <2>1, <2>2, <2>3, <2>4, <2>5 DEF FileInv
<1> QED
  BY <1>1, <1>2, <1>3, <1>4

(* A save of others takes one entry out of the file, or none of a run. *)
LEMMA WhatOthersSave ==
    ASSUME Serial!TypeOK, OthersSave
    PROVE  /\ UNCHANGED <<raw, step, outcome, tool>>
           /\ file'.complete = file.complete
           /\ \/ InFile' = InFile /\ Erased' = Erased /\ removed \subseteq removed'
              \/ \E e \in InFile : /\ InFile' = InFile \ {e}
                                   /\ removed' = removed \cup {e}
<1>1. file = [entries |-> file.entries, complete |-> file.complete,
              version |-> file.version]
  BY DEF Serial!TypeOK
<1>2. file.entries \subseteq Runs \cup Outside
  BY DEF Serial!TypeOK, Serial!Entries
<1>3. /\ file'.complete = file.complete
      /\ \/ /\ \E x \in Outside : file'.entries = file.entries \cup {x}
            /\ removed' = removed
         \/ \E e \in file.entries : /\ file'.entries = file.entries \ {e}
                                    /\ removed' = removed \cup {e}
         \/ file'.entries = file.entries /\ removed' = removed
  BY <1>1 DEF OthersSave, Writer!OutsideSave
<1>4. UNCHANGED <<raw, step, outcome, tool>>
  BY DEF OthersSave, Writer!OutsideSave
<1>5. ASSUME NEW x \in Outside, file'.entries = file.entries \cup {x},
             removed' = removed
      PROVE  InFile' = InFile /\ Erased' = Erased
  BY <1>5, StoresAssumption DEF InFile, Erased
<1>6. ASSUME NEW e \in file.entries, file'.entries = file.entries \ {e},
             removed' = removed \cup {e}
      PROVE  IF e \in Runs THEN e \in InFile /\ InFile' = InFile \ {e}
                           ELSE InFile' = InFile /\ Erased' = Erased
  BY <1>6 DEF InFile, Erased
<1>7. file'.entries = file.entries /\ removed' = removed
          => InFile' = InFile /\ Erased' = Erased
  BY DEF InFile, Erased
<1> QED
  BY <1>3, <1>4, <1>5, <1>6, <1>7

LEMMA OthersKeepFileInv ==
    ASSUME FileInv, Serial!TypeOK, OthersSave
    PROVE  FileInv'
<1>1. /\ UNCHANGED <<raw, step>> /\ file'.complete = file.complete
      /\ InFile' \subseteq InFile
      /\ InFile \cup removed \subseteq InFile' \cup removed'
  BY WhatOthersSave
<1>2. \A r \in Runs : InCopy(r)' = InCopy(r) /\ Holding(r)' = Holding(r)
  BY <1>1 DEF InCopy, Holding
<1> QED
  BY <1>1, <1>2 DEF FileInv

LEMMA NextFileInv ==
    ASSUME ~InPlaceWrites, FileInv, Serial!TypeOK, Serial!OneWriter, [Next]_vars
    PROVE  FileInv'
<1>1. ASSUME UNCHANGED <<file, raw, removed>>,
             \A r \in Runs : step'[r] \in {step[r], "queued", "settled"}
      PROVE  FileInv'
  BY <1>1 DEF FileInv, InFile, InCopy, Holding
<1>2. ASSUME NEW r \in Runs, ToolStep(r) \/ Resume(r) PROVE FileInv'
  BY <1>1, <1>2 DEF ToolStep, Resume, writer
<1>3. ASSUME NEW r \in Runs, CallCreateEntry(r) PROVE FileInv'
  <2>1. DOMAIN step = Runs
    BY DEF Serial!TypeOK
  <2> QED
    BY <1>1, <1>3, <2>1 DEF CallCreateEntry, Writer!Enqueue
<1>4. ASSUME NEW r \in Runs, WriterStep(r) PROVE FileInv'
  BY <1>4, StepKeepsFileInv DEF WriterStep
<1>5. CASE OthersSave
  BY <1>5, OthersKeepFileInv
<1>6. CASE Crash \/ ServeLate \/ UNCHANGED vars
  BY <1>1, <1>6 DEF Crash, Writer!Crash, ServeLate, vars, writer
<1> QED
  BY <1>2, <1>3, <1>4, <1>5, <1>6 DEF Next

(* Where a step of the tool leads a run. *)
Moves(r) ==
    /\ pc[r] \in Places \ {"keepass"}
    /\ \E to \in Places :
          /\ pc' = [pc EXCEPT ![r] = to]
          /\ to \in Earlier \cup {"keepass"} => pc[r] \in Earlier

LEMMA ToolStepsMove == ASSUME NEW r \in Runs, ToolStep(r) PROVE Moves(r)
<1> USE DEF Moves, Places, Earlier, Tool!Goto, Tool!Answer
<1>1. CASE Tool!Call(r) \/ Tool!Connect(r)
  BY <1>1 DEF Tool!Call, Tool!Connect
<1>2. CASE Tool!SetIdentity(r) \/ Tool!FindService(r)
  BY <1>2 DEF Tool!SetIdentity, Tool!AfterIdentity, Tool!FindService
<1>3. CASE Tool!MovePort(r) \/ Tool!VerifyPort(r)
  BY <1>3 DEF Tool!MovePort, Tool!VerifyPort
<1>4. CASE Tool!FindAdmin(r) \/ Tool!SetPassword(r)
  BY <1>4 DEF Tool!FindAdmin, Tool!SetPassword
<1>5. CASE Tool!Rollback(r) \/ Tool!RollbackFails(r) \/ Tool!Verify(r)
  BY <1>5 DEF Tool!Rollback, Tool!RollbackFails, Tool!Verify
<1> QED
  BY <1>1, <1>2, <1>3, <1>4, <1>5 DEF ToolStep

LEMMA StepKeepsCallInv ==
    ASSUME ~InPlaceWrites, FileInv, CallInv, Serial!TypeOK,
           NEW r \in Runs, WriterStep(r)
    PROVE  CallInv'
<1>1. /\ DOMAIN step = Runs /\ DOMAIN outcome = Runs
      /\ step[r] \in Busy /\ (Proceeds(r) \/ Fails(r) \/ Installs(r))
  BY StepsOfCalls DEF Serial!TypeOK, WriterStep
<1>2. pc' = pc /\ pc[r] = "keepass"
  BY <1>1 DEF WriterStep, tool, CallInv
<1>3. CASE Proceeds(r)
  <2>1. PICK to \in Steps :
          /\ step' = [step EXCEPT ![r] = to]
          /\ to = "settled" => step[r] = "done"
          /\ to # "settled" => to \in Writer!Running /\ step[r] # "done"
    BY <1>3 DEF Proceeds
  <2>2. outcome' = outcome
    BY <1>3 DEF Proceeds
  <2>3. step[r] # "done" => outcome[r] = "none"
    BY <1>1 DEF CallInv, Busy
  <2>4. step'[r] = to /\ \A t \in Runs \ {r} : step'[t] = step[t]
    BY <1>1, <2>1
  <2> QED
    BY <1>2, <2>1, <2>2, <2>3, <2>4
    DEF CallInv, Busy, Earlier, Steps, Writer!Running, Writer!Replacing
<1>4. CASE Fails(r) \/ Installs(r)
  <2>1. PICK why \in Writer!Errors \cup {"ok"} : outcome' = [outcome EXCEPT ![r] = why]
    BY <1>4 DEF Fails, Installs
  <2>2. step' = [step EXCEPT ![r] = "done"]
    BY <1>4 DEF Fails, Installs
  <2>3. /\ step'[r] = "done" /\ outcome'[r] = why
        /\ \A t \in Runs \ {r} : step'[t] = step[t] /\ outcome'[t] = outcome[t]
    BY <1>1, <2>1, <2>2
  <2> QED
    BY <1>2, <2>3
    DEF CallInv, Busy, Earlier, Writer!Errors, Writer!Running, Writer!Replacing
<1> QED
  BY <1>1, <1>3, <1>4

LEMMA NextCallInv ==
    ASSUME ~InPlaceWrites, FileInv, CallInv, Serial!TypeOK, [Next]_vars
    PROVE  CallInv'
<1>1. ASSUME NEW r \in Runs, ToolStep(r) PROVE CallInv'
  <2>1. PICK to \in Places :
          /\ pc' = [pc EXCEPT ![r] = to]
          /\ to \in Earlier \cup {"keepass"} => pc[r] \in Earlier
    BY <1>1, ToolStepsMove DEF Moves
  <2>2. pc[r] # "keepass" /\ UNCHANGED <<step, outcome>>
    BY <1>1, ToolStepsMove DEF Moves, ToolStep, writer
  <2>3. pc'[r] = to /\ \A t \in Runs \ {r} : pc'[t] = pc[t]
    BY <2>1 DEF CallInv
  <2>4. pc' \in [Runs -> Places]
    BY <2>1 DEF CallInv
  <2> QED
    BY <2>1, <2>2, <2>3, <2>4 DEF CallInv
<1>2. ASSUME NEW r \in Runs, CallCreateEntry(r) PROVE CallInv'
  <2>1. /\ pc' = pc /\ pc[r] = "keepass" /\ step[r] = "idle"
        /\ outcome' = outcome /\ step' = [step EXCEPT ![r] = "queued"]
    BY <1>2 DEF CallCreateEntry, Writer!Enqueue, tool
  <2>2. step'[r] = "queued" /\ \A t \in Runs \ {r} : step'[t] = step[t]
    BY <2>1 DEF Serial!TypeOK
  <2> QED
    BY <2>1, <2>2
    DEF CallInv, Busy, Earlier, Writer!Running, Writer!Replacing
<1>3. ASSUME NEW r \in Runs, WriterStep(r) PROVE CallInv'
  BY <1>3, StepKeepsCallInv
<1>4. ASSUME NEW r \in Runs, Resume(r) PROVE CallInv'
  <2>1. /\ pc' = [pc EXCEPT ![r] = AfterCall(r)]
        /\ step[r] = "settled" /\ UNCHANGED <<step, outcome>>
    BY <1>4 DEF Resume, Tool!Goto, writer
  <2>2. AfterCall(r) \in {"verify", "rollback"}
    BY DEF AfterCall
  <2> QED
    BY <2>1, <2>2
    DEF CallInv, Busy, Earlier, Places, Writer!Running, Writer!Replacing
<1>5. CASE OthersSave \/ ServeLate \/ UNCHANGED vars
  <2>1. UNCHANGED <<pc, step, outcome>>
    BY <1>5 DEF OthersSave, Writer!OutsideSave, ServeLate, Tool!ServeLate, vars,
                tool, writer
  <2> QED
    BY <2>1 DEF CallInv
<1>6. CASE Crash
  <2>1. pc' = [r \in Runs |-> IF pc[r] \in Tool!Stages THEN "finished" ELSE pc[r]]
    BY <1>6 DEF Crash, Tool!Crash, Tool!UnderWay
  <2>2. /\ Writer!Live = {r \in Runs : step[r] \in Busy}
        /\ \A r \in Runs : step[r] \in Busy => pc[r] = "keepass"
    BY DEF Writer!Live, Busy, CallInv
  <2>3. \A r \in Runs :
          IF step[r] \in Busy
          THEN step'[r] = "settled" /\ outcome'[r] = "aborted"
          ELSE step'[r] = step[r] /\ outcome'[r] = outcome[r]
    <3>1. CASE Writer!Live = {}
      BY <1>6, <2>2, <3>1 DEF Crash, writer
    <3>2. CASE Writer!Live # {}
      BY <1>6, <2>2, <3>2 DEF Crash, Writer!Crash
    <3> QED
      BY <3>1, <3>2
  <2>4. /\ pc' \in [Runs -> Places]
        /\ \A r \in Runs : pc'[r] # "keepass"
        /\ \A r \in Runs : pc'[r] \in Earlier => pc[r] \in Earlier
    BY <2>1 DEF CallInv, Places, Earlier, Tool!Stages
  <2>5. \A r \in Runs : step[r] \in Busy => pc'[r] \notin Earlier
    BY <2>2, <2>4 DEF Earlier
  <2> QED
    BY <2>3, <2>4, <2>5 DEF CallInv, Busy, Writer!Running, Writer!Replacing
<1> QED
  BY <1>1, <1>2, <1>3, <1>4, <1>5, <1>6 DEF Next

LEMMA Invariant ==
    ASSUME ~InPlaceWrites
    PROVE  Spec => [](FileInv /\ CallInv /\ Serial!TypeOK)
<1>1. FileInv /\ CallInv /\ Serial!TypeOK /\ Serial!OneWriter /\ [Next]_vars
         => FileInv' /\ CallInv'
  BY NextFileInv, NextCallInv
<1> QED
  BY <1>1, InitInvs, WriterFacts, PTL DEF Spec

-----------------------------------------------------------------------------
(* The simulation.                                                         *)

(* The stage SetupDevice sees a run at. *)
Seen == [r \in Runs |-> IF Decided(r) THEN AfterCall(r) ELSE pc[r]]

(* An entry in the file is the one stored under its identity. *)
LEMMA StoredIs ==
    ASSUME FileInv, NEW i \in Identities
    PROVE  /\ \A x \in InFile : IdentityOf[x] = i => Stored[i] = x
           /\ (\A x \in InFile : IdentityOf[x] # i) => Stored[i] = Empty
<1>1. \A x, y \in InFile : IdentityOf[x] = i /\ IdentityOf[y] = i => x = y
  BY DEF FileInv
<1> QED
  BY <1>1 DEF Stored, InFile

LEMMA StoredStays == UNCHANGED InFile => UNCHANGED Stored
<1>1. Stored = [i \in Identities |->
                  IF \E r \in InFile : IdentityOf[r] = i
                  THEN CHOOSE r \in InFile : IdentityOf[r] = i ELSE Empty]
  BY DEF Stored, InFile
<1>2. Stored' = [i \in Identities |->
                  IF \E r \in InFile' : IdentityOf[r] = i
                  THEN CHOOSE r \in InFile' : IdentityOf[r] = i ELSE Empty]
  BY DEF Stored, InFile
<1> QED
  BY <1>1, <1>2

LEMMA InitSimulates == Init => Setup!Init
<1> SUFFICES ASSUME Init PROVE Setup!Init
  OBVIOUS
<1>1. InFile = {}
  BY StoresAssumption DEF Init, Writer!Init, InFile
<1>2. Stored = [i \in Identities |-> Empty]
  BY <1>1 DEF Stored, InFile
<1>3. Seen = [r \in Runs |-> "idle"]
  BY DEF Init, Tool!Init, Seen, Decided
<1>4. Erased = {}
  BY DEF Init, Writer!Init, Erased
<1> QED
  BY <1>2, <1>3, <1>4 DEF Init, Tool!Init, Setup!Init, Seen

(* Away from step 6 the stages are the same, and a run that moves is seen to
   move. *)
LEMMA MovesAreSeen ==
    ASSUME CallInv, NEW r \in Runs, NEW to,
           UNCHANGED writer, pc[r] # "keepass",
           pc' = [pc EXCEPT ![r] = to],
           to = "keepass" => pc[r] \in Earlier
    PROVE  Seen[r] = pc[r] /\ Seen' = [Seen EXCEPT ![r] = to]
<1>1. outcome' = outcome /\ DOMAIN pc = Runs
  BY DEF writer, CallInv
<1>2. \A t \in Runs : pc'[t] = IF t = r THEN to ELSE pc[t]
  BY <1>1
<1>3. to = "keepass" => outcome[r] = "none"
  BY DEF CallInv
<1>4. \A t \in Runs : Seen'[t] = IF t = r THEN to ELSE Seen[t]
  BY <1>1, <1>2, <1>3 DEF Seen, Decided, AfterCall
<1>5. Seen' = [t \in Runs |-> Seen'[t]]
  BY DEF Seen
<1>6. [Seen EXCEPT ![r] = to] = [t \in Runs |-> IF t = r THEN to ELSE Seen[t]]
  BY DEF Seen
<1> QED
  BY <1>4, <1>5, <1>6 DEF Seen, Decided

LEMMA ToolStepSimulates ==
    ASSUME CallInv, NEW r \in Runs, ToolStep(r)
    PROVE  \/ Setup!Call(r)
           \/ Setup!Step(r)
<1>1. UNCHANGED writer /\ Moves(r)
  BY ToolStepsMove DEF ToolStep
<1>2. ASSUME NEW to, pc' = [pc EXCEPT ![r] = to]
      PROVE  Seen' = [Seen EXCEPT ![r] = to]
  <2>1. to = "keepass" => pc[r] \in Earlier
    BY <1>1, <1>2 DEF Moves, CallInv
  <2> QED
    BY <1>1, <1>2, <2>1, MovesAreSeen DEF Moves
<1>3. Seen[r] = pc[r]
  BY <1>1 DEF Moves, Seen, Decided
<1>4. Stored' = Stored /\ Erased' = Erased
  BY <1>1, StoredStays DEF writer, InFile, Erased
<1>5. ASSUME NEW stage PROVE Tool!Goto(r, stage) => Setup!Goto(r, stage)
  BY <1>2 DEF Tool!Goto, Setup!Goto, Seen
<1>6. ASSUME NEW stage, NEW rec
      PROVE  Tool!Answer(r, stage, rec) => Setup!Answer(r, stage, rec)
  BY <1>2 DEF Tool!Answer, Setup!Answer, Seen
<1>7. ASSUME NEW stage
      PROVE  /\ Tool!Served(r, stage) => Setup!Served(r, stage)
             /\ Tool!GivenUp(r, stage) => Setup!GivenUp(r, stage)
             /\ Tool!Unasked => Setup!Unasked
  BY DEF Tool!Served, Setup!Served, Tool!Effect, Setup!Effect,
         Tool!Serves, Setup!Serves, Tool!Target, Setup!Target,
         Tool!GivenUp, Setup!GivenUp, Tool!Unasked, Setup!Unasked,
         Tool!device, Setup!device
<1>8. ASSUME NEW p, NEW s PROVE Tool!Serves(r, p, s) <=> Setup!Serves(r, p, s)
  BY DEF Tool!Serves, Setup!Serves
<1>9. ASSUME NEW stage PROVE pc[r] = stage <=> Seen[r] = stage
  BY <1>3
<1> USE <1>4, <1>5, <1>6, <1>7, <1>8, <1>3 DEF Seen, Tool!records, Setup!records
<1>10. CASE Tool!Call(r)
  BY <1>10 DEF Tool!Call, Setup!Call
<1>11. CASE Tool!Connect(r)
  BY <1>11 DEF Tool!Connect, Setup!Connect, Setup!Step
<1>12. CASE Tool!SetIdentity(r)
  BY <1>12 DEF Tool!SetIdentity, Setup!SetIdentity, Setup!Step,
               Tool!AfterIdentity, Setup!AfterIdentity
<1>13. CASE Tool!FindService(r)
  BY <1>13 DEF Tool!FindService, Setup!FindService, Setup!Step
<1>14. CASE Tool!MovePort(r)
  BY <1>14 DEF Tool!MovePort, Setup!MovePort, Setup!Step
<1>15. CASE Tool!VerifyPort(r)
  BY <1>15 DEF Tool!VerifyPort, Setup!VerifyPort, Setup!Step
<1>16. CASE Tool!FindAdmin(r)
  BY <1>16 DEF Tool!FindAdmin, Setup!FindAdmin, Setup!Step,
               Tool!Target, Setup!Target
<1>17. CASE Tool!SetPassword(r)
  BY <1>17 DEF Tool!SetPassword, Setup!SetPassword, Setup!Step
<1>18. CASE Tool!Rollback(r)
  BY <1>18 DEF Tool!Rollback, Setup!Rollback, Setup!Step
<1>19. CASE Tool!RollbackFails(r)
  BY <1>19 DEF Tool!RollbackFails, Setup!RollbackFails, Setup!Step
<1>20. CASE Tool!Verify(r)
  BY <1>20 DEF Tool!Verify, Setup!Verify, Setup!Step, Tool!Target, Setup!Target
<1> QED
  BY <1>10, <1>11, <1>12, <1>13, <1>14, <1>15, <1>16, <1>17, <1>18, <1>19, <1>20
  DEF ToolStep

(* While its call is pending a run is at step 6 for SetupDevice too; when the
   call fails SetupDevice's store has failed, and when the copy is installed
   it has stored. *)
LEMMA WriterStepSimulates ==
    ASSUME ~InPlaceWrites, FileInv, FileInv', CallInv, Serial!TypeOK,
           NEW r \in Runs, WriterStep(r)
    PROVE  \/ Setup!StoreCredentials(r)
           \/ Setup!StoreFails(r)
           \/ UNCHANGED Setup!vars
<1>1. /\ DOMAIN step = Runs /\ DOMAIN outcome = Runs
      /\ step[r] \in Busy /\ (Proceeds(r) \/ Fails(r) \/ Installs(r))
  BY StepsOfCalls DEF Serial!TypeOK, WriterStep
<1>2. /\ UNCHANGED tool /\ pc[r] = "keepass"
      /\ step[r] \in Writer!Running => Seen[r] = "keepass"
  BY <1>1 DEF WriterStep, CallInv, Seen, Decided
<1>3. ASSUME NEW why, why # "none",
             outcome' = [outcome EXCEPT ![r] = why]
      PROVE  Seen' = [Seen EXCEPT ![r] = IF why = "ok" THEN "verify" ELSE "rollback"]
  <2>1. pc' = pc /\ \A t \in Runs : outcome'[t] = IF t = r THEN why ELSE outcome[t]
    BY <1>1, <1>2, <1>3 DEF tool
  <2>2. \A t \in Runs : Seen'[t] = IF t # r THEN Seen[t]
                                  ELSE IF why = "ok" THEN "verify" ELSE "rollback"
    BY <1>2, <1>3, <2>1 DEF Seen, Decided, AfterCall
  <2>3. Seen' = [t \in Runs |-> Seen'[t]]
    BY DEF Seen
  <2>4. DOMAIN Seen = Runs
    BY DEF Seen
  <2> QED
    BY <2>2, <2>3, <2>4
<1>4. CASE Proceeds(r)
  <2>1. Seen' = Seen
    BY <1>2, <1>4 DEF Proceeds, Seen, Decided, AfterCall, tool
  <2>2. Stored' = Stored /\ Erased' = Erased
    BY <1>4, StoredStays DEF Proceeds, InFile, Erased
  <2> QED
    BY <1>2, <2>1, <2>2 DEF Setup!vars, tool, Seen
<1>5. CASE Fails(r)
  <2>1. Seen' = [Seen EXCEPT ![r] = "rollback"]
    BY <1>3, <1>5 DEF Fails, Writer!Errors
  <2>2. Stored' = Stored /\ Erased' = Erased
    BY <1>5, StoredStays DEF Fails, InFile, Erased
  <2>3. Seen[r] = "keepass"
    BY <1>2, <1>5 DEF Fails
  <2> QED
    BY <1>2, <2>1, <2>2, <2>3
    DEF Setup!StoreFails, Setup!Goto, Setup!Unasked, Setup!device, Setup!records,
        tool, Seen
<1>6. CASE Installs(r)
  <2>1. Seen' = [Seen EXCEPT ![r] = "verify"]
    BY <1>3, <1>6 DEF Installs
  <2>2. Seen[r] = "keepass"
    BY <1>2, <1>6 DEF Installs, Writer!Running, Writer!Replacing
  <2>3. /\ InFile \subseteq InCopy(r)
        /\ InCopy(r) \subseteq InFile \cup removed
        /\ \A x, y \in InCopy(r) : IdentityOf[x] = IdentityOf[y] => x = y
        /\ \A x \in InCopy(r) : IdentityOf[x] # IdentityOf[r]
        /\ InFile' = InCopy(r) \cup {r}
    <3>1. /\ Holding(r)
          /\ file'.entries = raw[r].entries \cup {r}
      BY <1>6 DEF Installs, Holding
    <3>2. \A e \in raw[r].entries : TitleOf[e] # TitleOf[r]
      BY <3>1 DEF FileInv
    <3>3. \A x \in InCopy(r) : IdentityOf[x] # IdentityOf[r]
      BY <3>2, TitlesOfRuns DEF InCopy
    <3>4. InFile' = InCopy(r) \cup {r}
      BY <3>1 DEF InFile, InCopy
    <3> QED
      BY <3>1, <3>3, <3>4 DEF FileInv
  <2> DEFINE copy == [i \in Identities |->
                        IF \E x \in InCopy(r) : IdentityOf[x] = i
                        THEN CHOOSE x \in InCopy(r) : IdentityOf[x] = i
                        ELSE Empty]
  <2>4. ASSUME NEW i \in Identities
        PROVE  /\ \A x \in InCopy(r) : IdentityOf[x] = i => copy[i] = x
               /\ (\A x \in InCopy(r) : IdentityOf[x] # i) => copy[i] = Empty
    <3>1. \A x, y \in InCopy(r) : IdentityOf[x] = i /\ IdentityOf[y] = i => x = y
      BY <2>3
    <3> QED
      BY <3>1
  <2>5. /\ DOMAIN copy = Identities /\ copy = [i \in Identities |-> copy[i]]
        /\ DOMAIN Stored' = Identities /\ Stored' = [i \in Identities |-> Stored'[i]]
    BY DEF Stored
  <2> HIDE DEF copy
  <2>6. /\ IdentityOf[r] \in Identities /\ InCopy(r) \subseteq Runs
        /\ Erased' = Erased /\ Erased = Runs \cap removed
    BY <1>6, StoresAssumption DEF InCopy, Erased, Installs
  <2>7. copy \in Setup!Copies
    <3>1. ASSUME NEW i \in Identities
          PROVE  /\ copy[i] \in Setup!Secrets
                 /\ copy[i] # Stored[i] =>
                       /\ Stored[i] = Empty
                       /\ copy[i] \in Erased
                       /\ IdentityOf[copy[i]] = i
      <4>1. CASE \A x \in InCopy(r) : IdentityOf[x] # i
        BY <2>3, <2>4, <4>1, StoredIs DEF Setup!Secrets
      <4>2. ASSUME NEW x \in InCopy(r), IdentityOf[x] = i
            PROVE  <3>1!2
        <5>1. copy[i] = x
          BY <2>4, <4>2
        <5>2. CASE x \in InFile
          BY <2>6, <4>2, <5>1, <5>2, StoredIs DEF Setup!Secrets
        <5>3. CASE x \notin InFile
          <6>1. \A y \in InFile : IdentityOf[y] # i
            BY <2>3, <4>2, <5>3
          <6>2. Stored[i] = Empty
            BY <6>1, StoredIs
          <6>3. x \in Erased
            BY <2>3, <2>6, <4>2, <5>3
          <6> QED
            BY <2>6, <4>2, <5>1, <6>2, <6>3 DEF Setup!Secrets
        <5> QED
          BY <5>2, <5>3
      <4> QED
        BY <4>1, <4>2
    <3> QED
      BY <2>5, <3>1 DEF Setup!Copies
  <2>8. copy[IdentityOf[r]] = Empty
    BY <2>3, <2>4, <2>6
  <2>9. ASSUME NEW i \in Identities
        PROVE  /\ \A x \in InFile' : IdentityOf[x] = i => Stored'[i] = x
               /\ (\A x \in InFile' : IdentityOf[x] # i) => Stored'[i] = Empty
    <3>1. \A x, y \in InFile' : IdentityOf[x] = i /\ IdentityOf[y] = i => x = y
      BY DEF FileInv
    <3> QED
      BY <3>1 DEF Stored, InFile
  <2>10. \A i \in Identities :
           Stored'[i] = IF i = IdentityOf[r] THEN r ELSE copy[i]
    BY <2>3, <2>4, <2>9
  <2>11. Stored' = [copy EXCEPT ![IdentityOf[r]] = r]
    BY <2>5, <2>10
  <2> QED
    BY <1>2, <2>1, <2>2, <2>6, <2>7, <2>8, <2>11
    DEF Setup!StoreCredentials, Setup!Goto, Setup!Unasked, Setup!device, tool, Seen
<1> QED
  BY <1>1, <1>4, <1>5, <1>6

LEMMA NextSimulates ==
    ASSUME ~InPlaceWrites, FileInv, FileInv', CallInv, Serial!TypeOK, [Next]_vars
    PROVE  [Setup!Next]_(Setup!vars)
<1>1. ASSUME UNCHANGED <<pc, outcome, result, password, port, name, late, log>>,
             UNCHANGED <<InFile, Erased>>
      PROVE  UNCHANGED Setup!vars
  BY <1>1, StoredStays DEF Setup!vars, Decided, AfterCall
<1>2. ASSUME NEW r \in Runs, ToolStep(r) PROVE Setup!Next
  BY <1>2, ToolStepSimulates DEF Setup!Next
<1>3. ASSUME NEW r \in Runs, CallCreateEntry(r) PROVE UNCHANGED Setup!vars
  BY <1>1, <1>3 DEF CallCreateEntry, Writer!Enqueue, Writer!history, tool, InFile, Erased
<1>4. ASSUME NEW r \in Runs, WriterStep(r) PROVE [Setup!Next]_(Setup!vars)
  BY <1>4, WriterStepSimulates DEF Setup!Next, Setup!Step
<1>5. ASSUME NEW r \in Runs, Resume(r) PROVE UNCHANGED Setup!vars
  <2>1. Decided(r) /\ UNCHANGED <<outcome, file, removed>>
    BY <1>5 DEF Resume, Decided, CallInv, writer
  <2>2. /\ pc' = [pc EXCEPT ![r] = AfterCall(r)] /\ AfterCall(r) # "keepass"
        /\ UNCHANGED <<result, password, port, name, late, log>>
    BY <1>5 DEF Resume, Tool!Goto, AfterCall
  <2>3. \A t \in Runs : pc'[t] = IF t = r THEN AfterCall(r) ELSE pc[t]
    BY <2>2 DEF CallInv
  <2>4. \A t \in Runs : Seen'[t] = Seen[t]
    BY <2>1, <2>2, <2>3 DEF Seen, Decided, AfterCall
  <2>5. Seen' = Seen
    BY <2>4 DEF Seen
  <2>6. Stored' = Stored /\ Erased' = Erased
    BY <2>1, StoredStays DEF InFile, Erased
  <2> QED
    BY <2>2, <2>5, <2>6 DEF Setup!vars, Seen
<1>6. CASE OthersSave
  <2>1. /\ UNCHANGED <<outcome, tool>>
        /\ \/ InFile' = InFile /\ Erased' = Erased
           \/ \E e \in InFile : InFile' = InFile \ {e} /\ removed' = removed \cup {e}
    BY <1>6, WhatOthersSave
  <2>2. CASE InFile' = InFile /\ Erased' = Erased
    BY <1>1, <2>1, <2>2 DEF tool
  <2>3. ASSUME NEW e \in InFile, InFile' = InFile \ {e}, removed' = removed \cup {e}
        PROVE  Setup!OthersErase
    <3>1. /\ IdentityOf[e] \in Identities /\ e # Empty
          /\ Stored[IdentityOf[e]] = e
      BY StoredIs, StoresAssumption DEF InFile
    <3>2. Erased' = Erased \cup {e}
      BY <2>3 DEF Erased, InFile
    <3>3. ASSUME NEW i \in Identities
          PROVE  Stored'[i] = IF i = IdentityOf[e] THEN Empty ELSE Stored[i]
      <4>1. /\ \A x \in InFile' : IdentityOf[x] = i => Stored'[i] = x
            /\ (\A x \in InFile' : IdentityOf[x] # i) => Stored'[i] = Empty
        <5>1. \A x, y \in InFile' : IdentityOf[x] = i /\ IdentityOf[y] = i => x = y
          BY DEF FileInv
        <5> QED
          BY <5>1 DEF Stored, InFile
      <4>2. \A x \in InFile' : IdentityOf[x] = IdentityOf[e] => x = e
        BY <2>3 DEF FileInv
      <4>3. CASE i = IdentityOf[e]
        BY <2>3, <4>1, <4>2, <4>3
      <4>4. CASE i # IdentityOf[e]
        BY <2>3, <4>1, <4>4, StoredIs
      <4> QED
        BY <4>3, <4>4
    <3>4. Stored' = [Stored EXCEPT ![IdentityOf[e]] = Empty]
      <4>1. Stored' = [i \in Identities |-> Stored'[i]] /\ DOMAIN Stored = Identities
        BY DEF Stored
      <4> QED
        BY <3>3, <4>1
    <3>5. Seen' = Seen
      BY <2>1 DEF Seen, Decided, AfterCall, tool
    <3> QED
      BY <2>1, <3>1, <3>2, <3>4, <3>5 DEF Setup!OthersErase, Setup!device, tool, Seen
  <2> QED
    BY <2>1, <2>2, <2>3 DEF Setup!Next
<1>7. CASE ServeLate
  <2>1. Stored' = Stored /\ Erased' = Erased /\ Seen' = Seen
    BY <1>7, StoredStays
    DEF ServeLate, Tool!ServeLate, writer, InFile, Erased, Seen, Decided, AfterCall
  <2>2. Setup!ServeLate
    BY <1>7, <2>1
    DEF ServeLate, Tool!ServeLate, Setup!ServeLate, Seen,
        Tool!Effect, Setup!Effect, Tool!Serves, Setup!Serves,
        Tool!Target, Setup!Target, Tool!records, Setup!records
  <2> QED
    BY <2>2 DEF Setup!Next
<1>8. CASE Crash
  <2> DEFINE Under == {r \in Runs : pc[r] \in Tool!Stages}
  <2>1. /\ Crashes /\ Under # {} /\ UNCHANGED <<password, port, name, log>>
        /\ pc' = [r \in Runs |-> IF r \in Under THEN "finished" ELSE pc[r]]
        /\ result' = [r \in Runs |-> IF r \in Under
                         THEN [stage |-> "aborted", recoverable |-> FALSE]
                         ELSE result[r]]
    BY <1>8 DEF Crash, Tool!Crash, Tool!UnderWay, Tool!device, Tool!records
  <2>2. PICK waiting \in SUBSET {r \in Under : pc[r] \in Tool!Changing} :
          late' = late \cup {<<r, pc[r]>> : r \in waiting}
    BY <1>8 DEF Crash, Tool!Crash, Tool!UnderWay
  <2>3. Stored' = Stored /\ Erased' = Erased
    BY <1>8, StoredStays DEF Crash, Writer!Crash, writer, InFile, Erased
  <2>4. \A r \in Runs : pc[r] \in Tool!Stages <=> Seen[r] \in Setup!Stages
    BY DEF Seen, Decided, AfterCall, Tool!Stages, Setup!Stages
  <2>5. Setup!UnderWay = Under
    BY <2>4 DEF Setup!UnderWay, Seen
  <2>6. \A r \in Runs : Seen'[r] = IF r \in Under THEN "finished" ELSE Seen[r]
    BY <2>1 DEF Seen, Decided, Tool!Stages
  <2>7. Seen' = [r \in Runs |-> IF r \in Under THEN "finished" ELSE Seen[r]]
    <3>1. Seen' = [r \in Runs |-> Seen'[r]]
      BY DEF Seen
    <3> QED
      BY <2>6, <3>1
  <2>8. \A r \in waiting : Seen[r] = pc[r] /\ Seen[r] \in Setup!Changing
    BY <2>2 DEF Seen, Decided, Tool!Changing, Setup!Changing
  <2>9. /\ waiting \in SUBSET {r \in Under : Seen[r] \in Setup!Changing}
        /\ late' = late \cup {<<r, Seen[r]>> : r \in waiting}
    BY <2>2, <2>8
  <2> HIDE DEF Under
  <2>10. Setup!Crash
    BY <2>1, <2>3, <2>5, <2>7, <2>9 DEF Setup!Crash, Setup!device, Setup!records, Seen
  <2> QED
    BY <2>10 DEF Setup!Next
<1>9. CASE UNCHANGED vars
  BY <1>1, <1>9 DEF vars, tool, writer, InFile, Erased
<1> QED
  BY <1>2, <1>3, <1>4, <1>5, <1>6, <1>7, <1>8, <1>9 DEF Next

(* Over the vault writer with its queue and retries, outside saves and
   crashes, setup-new-device does nothing it does not do over a vault that
   stores in one step, for any number of runs, as long as writes of the vault
   are installed by rename. *)
THEOREM SetupIsImplemented ==
    ASSUME ~InPlaceWrites PROVE Spec => ImplementsSetup
<1>1. FileInv /\ CallInv /\ Serial!TypeOK /\ FileInv' /\ [Next]_vars
         => [Setup!Next]_(Setup!vars)
  BY NextSimulates
<1> QED
  BY <1>1, InitSimulates, Invariant, PTL DEF Spec, ImplementsSetup, Setup!Spec

-----------------------------------------------------------------------------
(* What is proved of setup-new-device alone, of the vault file.            *)

Alone == INSTANCE SetupProofs WITH
    vault <- Stored,
    erased <- Erased,
    pc <- [r \in Runs |-> IF Decided(r) THEN AfterCall(r) ELSE pc[r]]

LEMMA SetupAssumptions == Alone!SetupAssumption
BY StoresAssumption DEF Alone!SetupAssumption

LEMMA SameSetup == Setup!Spec => Alone!Spec
<1>1. Setup!Init => Alone!Init
  BY DEF Setup!Init, Alone!Init
<1>2. ASSUME NEW r, NEW stage
      PROVE  /\ Setup!Effect(r, stage) <=> Alone!Effect(r, stage)
             /\ Setup!Goto(r, stage) <=> Alone!Goto(r, stage)
  BY DEF Setup!Effect, Alone!Effect, Setup!Serves, Alone!Serves,
         Setup!Target, Alone!Target, Setup!Goto, Alone!Goto
<1>3. ASSUME NEW r, NEW stage, NEW rec
      PROVE  Setup!Answer(r, stage, rec) <=> Alone!Answer(r, stage, rec)
  BY DEF Setup!Answer, Alone!Answer
<1>4. ASSUME NEW r \in Runs PROVE Setup!Call(r) => Alone!Call(r)
  BY <1>2 DEF Setup!Call, Alone!Call, Setup!Unasked, Alone!Unasked,
              Setup!device, Alone!device, Setup!records, Alone!records
<1>5. ASSUME NEW r \in Runs PROVE Setup!Step(r) => Alone!Step(r)
  BY <1>2, <1>3
  DEF Setup!Step, Alone!Step, Setup!Connect, Alone!Connect,
      Setup!SetIdentity, Alone!SetIdentity,
      Setup!AfterIdentity, Alone!AfterIdentity,
      Setup!FindService, Alone!FindService, Setup!MovePort, Alone!MovePort,
      Setup!VerifyPort, Alone!VerifyPort, Setup!FindAdmin, Alone!FindAdmin,
      Setup!SetPassword, Alone!SetPassword,
      Setup!StoreCredentials, Alone!StoreCredentials,
      Setup!StoreFails, Alone!StoreFails, Setup!Rollback, Alone!Rollback,
      Setup!RollbackFails, Alone!RollbackFails, Setup!Verify, Alone!Verify,
      Setup!Served, Alone!Served, Setup!GivenUp, Alone!GivenUp,
      Setup!Unasked, Alone!Unasked, Setup!device, Alone!device,
      Setup!Serves, Alone!Serves, Setup!Target, Alone!Target,
      Setup!records, Alone!records, Setup!Copies, Alone!Copies,
      Setup!Secrets, Alone!Secrets
<1>6. Setup!ServeLate => Alone!ServeLate
  BY <1>2 DEF Setup!ServeLate, Alone!ServeLate, Setup!records, Alone!records
<1>7. Setup!Crash => Alone!Crash
  BY DEF Setup!Crash, Alone!Crash, Setup!UnderWay, Alone!UnderWay,
         Setup!Stages, Alone!Stages, Setup!Changing, Alone!Changing,
         Setup!device, Alone!device, Setup!records, Alone!records
<1>10. Setup!OthersErase => Alone!OthersErase
  BY DEF Setup!OthersErase, Alone!OthersErase, Setup!device, Alone!device
<1>8. UNCHANGED Setup!vars => UNCHANGED Alone!vars
  BY DEF Setup!vars, Alone!vars
<1>9. [Setup!Next]_(Setup!vars) => [Alone!Next]_(Alone!vars)
  BY <1>4, <1>5, <1>6, <1>7, <1>8, <1>10 DEF Setup!Next, Alone!Next
<1> QED
  BY <1>1, <1>9, PTL DEF Setup!Spec, Alone!Spec

LEMMA AloneHolds ==
    ASSUME ~InPlaceWrites
    PROVE  Spec => [](/\ Alone!TypeOK
                      /\ Alone!StoredPasswordsWork
                      /\ Alone!SuccessIsLasting
                      /\ Alone!NoPasswordIsOrphaned
                      /\ Alone!ResetMeansGone)
<1>1. Spec => Alone!Spec
  BY SetupIsImplemented, SameSetup, PTL DEF ImplementsSetup
<1>2. Alone!Spec => []Alone!TypeOK
  BY SetupAssumptions, Alone!TypeCorrect
<1>3. Alone!Spec => []Alone!StoredPasswordsWork
  BY SetupAssumptions, Alone!VaultNeverMisleads
<1>4. Alone!Spec => []Alone!SuccessIsLasting
  BY SetupAssumptions, Alone!SuccessLasts
<1>5. Alone!Spec => []Alone!NoPasswordIsOrphaned
  BY SetupAssumptions, Alone!PasswordsAreKept
<1>6. Alone!Spec => []Alone!ResetMeansGone
  BY SetupAssumptions, Alone!ResetsAreDone
<1> QED
  BY <1>1, <1>2, <1>3, <1>4, <1>5, <1>6, PTL

LEMMA StoredMeansInFile ==
    ASSUME FileInv, NEW r \in Runs
    PROVE  Stored[IdentityOf[r]] = r <=> r \in InFile
<1>1. IdentityOf[r] \in Identities /\ Empty # r
  BY StoresAssumption
<1>2. CASE r \in InFile
  BY <1>1, <1>2, StoredIs
<1>3. CASE r \notin InFile
  <2>1. CASE \E x \in InFile : IdentityOf[x] = IdentityOf[r]
    BY <1>1, <1>3, <2>1, StoredIs
  <2>2. CASE ~\E x \in InFile : IdentityOf[x] = IdentityOf[r]
    BY <1>1, <2>2, StoredIs
  <2> QED
    BY <2>1, <2>2
<1> QED
  BY <1>2, <1>3

(* A run that has been answered is so for SetupDevice. *)
LEMMA AnsweredIsSeen ==
    ASSUME NEW r PROVE
        /\ r \in Runs /\ pc[r] = "finished" => Seen[r] = "finished"
        /\ r \in Runs /\ Seen[r] = "finished" => pc[r] = "finished"
BY DEF Seen, Decided, AfterCall

(* The vault file at any time: it can be opened, every generated password in
   it opens its device, and every run that reported success is in it unless
   others have erased it. *)
FileIsAsReported ==
    /\ file.complete
    /\ \A r \in Runs \cap file.entries : password[DeviceOf[r]] = r
    /\ \A r \in Runs : pc[r] = "finished" /\ result[r].stage = "ok" =>
          r \in file.entries \cup removed

(* A run that reported its roll-back as done has left its password neither on
   its device, nor in the file, nor in the log. *)
RollbackLeavesNothing ==
    \A r \in Runs :
        pc[r] = "finished" /\ result[r].stage = "keepass" /\ result[r].recoverable
            => /\ password[DeviceOf[r]] # r
               /\ r \notin file.entries
               /\ r \notin log

(* The password a device has is in the file or in the log as soon as its run
   is answered, unless others have erased it from the file or the run heard
   nothing of the request that set it. *)
PasswordsAreOnRecord ==
    \A d \in Devices : \A r \in Runs :
        password[d] = r /\ pc[r] = "finished"
            => \/ r \in file.entries \cup log \cup removed
               \/ result[r].stage \in {"aborted", "password"}

(* setup.ts and keepass-client.ts together, steps 5 to 7: what setup-new-device
   reports of the vault is so of the file on the disk, through the queue, the
   retries and what others save or erase at any time. *)
THEOREM ReportsAreTrueOfTheFile ==
    ASSUME ~InPlaceWrites
    PROVE  Spec => [](FileIsAsReported /\ RollbackLeavesNothing)
<1>1. FileInv /\ Alone!StoredPasswordsWork /\ Alone!SuccessIsLasting
              /\ Alone!ResetMeansGone
         => FileIsAsReported /\ RollbackLeavesNothing
  <2> SUFFICES ASSUME FileInv, Alone!StoredPasswordsWork,
                      Alone!SuccessIsLasting, Alone!ResetMeansGone
               PROVE  FileIsAsReported /\ RollbackLeavesNothing
    OBVIOUS
  <2>1. ASSUME NEW r \in Runs \cap file.entries PROVE password[DeviceOf[r]] = r
    <3>1. /\ Stored[IdentityOf[r]] = r /\ Empty # r
          /\ IdentityOf[r] \in Identities
      BY <2>1, StoredMeansInFile, StoresAssumption DEF InFile
    <3> QED
      BY <3>1 DEF Alone!StoredPasswordsWork
  <2>2. ASSUME NEW r \in Runs, NEW stage,
               pc[r] = "finished", result[r].stage = stage
        PROVE  Alone!Finished(r, stage)
    <3>1. Seen[r] = "finished"
      BY <2>2, AnsweredIsSeen
    <3> QED
      BY <2>2, <3>1 DEF Alone!Finished, Seen
  <2>3. ASSUME NEW r \in Runs, pc[r] = "finished", result[r].stage = "ok"
        PROVE  r \in file.entries \cup removed
    <3>1. Stored[IdentityOf[r]] = r \/ r \in Erased
      BY <2>2, <2>3 DEF Alone!SuccessIsLasting
    <3> QED
      BY <3>1, StoredMeansInFile DEF InFile, Erased
  <2>4. ASSUME NEW r \in Runs, pc[r] = "finished",
               result[r].stage = "keepass", result[r].recoverable
        PROVE  /\ password[DeviceOf[r]] # r
               /\ r \notin file.entries
               /\ r \notin log
    <3>1. /\ password[DeviceOf[r]] # r
          /\ Stored[IdentityOf[r]] # r
          /\ r \notin log
      BY <2>2, <2>4 DEF Alone!ResetMeansGone
    <3> QED
      BY <3>1, StoredMeansInFile DEF InFile
  <2> QED
    BY <2>1, <2>3, <2>4 DEF FileInv, FileIsAsReported, RollbackLeavesNothing
<1> QED
  BY <1>1, Invariant, AloneHolds, PTL

(* setup.ts, step 6, over keepass-client.ts: a generated password that is on a
   device is never on no record at all, although the run may hear late that
   its call has stored it, or that it has failed, as long as others do not
   erase its entry. *)
THEOREM PasswordsStayOnRecord ==
    ASSUME ~InPlaceWrites PROVE Spec => []PasswordsAreOnRecord
<1>1. FileInv /\ Alone!NoPasswordIsOrphaned => PasswordsAreOnRecord
  <2> SUFFICES ASSUME FileInv, Alone!NoPasswordIsOrphaned,
                      NEW d \in Devices, NEW r \in Runs,
                      password[d] = r, pc[r] = "finished"
               PROVE  \/ r \in file.entries \cup log \cup removed
                      \/ result[r].stage \in {"aborted", "password"}
    BY DEF PasswordsAreOnRecord
  <2>1. \/ Stored[IdentityOf[r]] = r
        \/ r \in log
        \/ r \in Erased
        \/ Seen[r] # "finished"
        \/ result[r].stage \in {"aborted", "password"}
    BY StoresAssumption DEF Alone!NoPasswordIsOrphaned, Seen
  <2> QED
    BY <2>1, AnsweredIsSeen, StoredMeansInFile DEF InFile, Erased
<1> QED
  BY <1>1, Invariant, AloneHolds, PTL

=============================================================================
