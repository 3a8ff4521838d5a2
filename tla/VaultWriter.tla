----------------------------- MODULE VaultWriter -----------------------------
(***************************************************************************)
(* Writing credentials into the KeePass vault file                         *)
(* (src/keepass/keepass-client.ts).                                        *)
(*                                                                         *)
(* Every createEntry call of the server process appends one entry to the   *)
(* vault by rewriting the whole file.  Calls queue behind each other on a  *)
(* promise chain kept per vault path (serializeWrite); the running call    *)
(* reads the file, serialises a copy with its entry added (slow: the KDF   *)
(* runs), re-reads the file to see whether somebody outside the process    *)
(* changed it, and then replaces the file by renaming a temp file over it, *)
(* or by writing in place when the rename route is closed.                 *)
(*                                                                         *)
(* An action ends where the code awaits something another party can        *)
(* observe.  Parsing and serialising work on a private copy and are part   *)
(* of the read that precedes them.  The file's bytes are abstracted to the *)
(* set of entries it holds, whether it is a complete vault, and a version  *)
(* number that stands for the SHA-256 fingerprint: every save writes fresh *)
(* random salts, so two saves never produce the same bytes.                *)
(*                                                                         *)
(* A definition whose name begins with Mut is not part of the model: it is *)
(* a slip a programmer could make in the definition that follows it, kept  *)
(* to show which property notices.                                         *)
(***************************************************************************)
EXTENDS Integers, Sequences, FiniteSets

CONSTANTS
    Calls,          \* createEntry calls; a call also names the entry it adds
    Outside,        \* entries only processes outside the server create
    Titles,         \* entry titles (device ids)
    TitleOf,        \* the title of every entry
    None,           \* "no call": an empty slot of the queue map
    MaxAttempts,    \* MAX_WRITE_ATTEMPTS
    MaxEdits,       \* bound: saves made by processes outside the server
    MaxCrashes,     \* bound: crashes of the server process
    LateEdits,      \* may an outside save fall between check and replace?
    InPlaceWrites   \* may a fault divert a write to the in-place fallback?

Entries == Calls \cup Outside

ASSUME EntriesAssumption ==
    /\ Calls \cap Outside = {}
    /\ TitleOf \in [Entries -> Titles]
    /\ None \notin Calls

ASSUME BoundsAssumption ==
    /\ MaxAttempts \in Nat \ {0}
    /\ MaxEdits \in Nat
    /\ MaxCrashes \in Nat
    /\ LateEdits \in BOOLEAN
    /\ InPlaceWrites \in BOOLEAN

VARIABLES
    file,       \* the vault file: its entries, is it complete, its version
    tmp,        \* calls whose temp file exists beside the vault
    tail,       \* writeQueues.get(vaultPath): the call queued last, or None
    prev,       \* the call a call waits for, None when the map had no entry
    pc,         \* where each call is
    attempt,    \* the loop counter of writeEntry
    raw,        \* what each call read: entries and version
    result,     \* how each call's promise settles
    \* history, read by the properties only
    order,      \* calls in the order they were made
    added,      \* outside entries that outside saves added
    removed,    \* entries that outside saves removed
    late,       \* entries touched by a save between check and replace
    edits,      \* number of outside saves
    crashes     \* number of crashes

vars == <<file, tmp, tail, prev, pc, attempt, raw, result,
          order, added, removed, late, edits, crashes>>
history == <<order, added, removed, late, edits, crashes>>
queue   == <<tail, prev>>

-----------------------------------------------------------------------------
(* Where a call can be.                                                    *)

(* writeEntry holds a copy that passed the fingerprint check and has not
   yet replaced the file. *)
Replacing == {"temp", "adopt", "rename", "inplace", "inplaceAfterChown",
              "writing"}

(* The call's task runs: previous.then(task) has fired and has not settled. *)
Running == {"read", "compare"} \cup Replacing

(* The call's promise, and the clean-up that hangs on it, is still pending. *)
Live == {c \in Calls : pc[c] \in Running \cup {"queued", "done"}}

Steps   == Running \cup {"idle", "queued", "done", "settled"}
Errors  == {"exists", "changing", "failed"}
Results == Errors \cup {"none", "ok", "aborted"}

NoRead  == [entries |-> {}, version |-> 0]

TypeOK ==
    /\ file \in [entries : SUBSET Entries, complete : BOOLEAN, version : Nat]
    /\ tmp \subseteq Calls
    /\ tail \in Calls \cup {None}
    /\ prev \in [Calls -> Calls \cup {None}]
    /\ pc \in [Calls -> Steps]
    /\ attempt \in [Calls -> 0..MaxAttempts]
    /\ raw \in [Calls -> [entries : SUBSET Entries, version : Nat]]
    /\ result \in [Calls -> Results]
    /\ order \in Seq(Calls)
    /\ added \subseteq Outside
    /\ removed \subseteq Entries
    /\ late \subseteq Entries
    /\ edits \in 0..MaxEdits
    /\ crashes \in 0..MaxCrashes

(* No two of the entries share a title. *)
TitlesDiffer(es) == \A x, y \in es : TitleOf[x] = TitleOf[y] => x = y

(* The vault starts as a complete file with any outside entries in it. *)
Init ==
    /\ \E es \in SUBSET Outside :
          /\ TitlesDiffer(es)
          /\ file = [entries |-> es, complete |-> TRUE, version |-> 0]
          /\ added = es
    /\ tmp = {}
    /\ tail = None
    /\ prev = [c \in Calls |-> None]
    /\ pc = [c \in Calls |-> "idle"]
    /\ attempt = [c \in Calls |-> 0]
    /\ raw = [c \in Calls |-> NoRead]
    /\ result = [c \in Calls |-> "none"]
    /\ order = <<>>
    /\ removed = {}
    /\ late = {}
    /\ edits = 0
    /\ crashes = 0

-----------------------------------------------------------------------------
(* serializeWrite: the promise chain.                                      *)

(* createEntry: the call hangs itself behind the chain's last promise and
   becomes the last one itself, in one synchronous block. *)
Enqueue(c) ==
    /\ pc[c] = "idle"
    /\ prev' = [prev EXCEPT ![c] = tail]
    /\ tail' = c
    /\ pc' = [pc EXCEPT ![c] = "queued"]
    /\ order' = Append(order, c)
    /\ UNCHANGED <<file, tmp, attempt, raw, result,
                   added, removed, late, edits, crashes>>

(* The promise a call waits for has settled and its own clean-up, which was
   registered on it first, has run. *)
MutChainIgnored(c) == TRUE                    \* createEntry without the queue
MutChainOnSuccess(c) ==                       \* previous.then(task)
    prev[c] # None => result[prev[c]] = "ok" /\ pc[prev[c]] = "settled"

ChainReached(c) == prev[c] # None => pc[prev[c]] = "settled"

(* previous.then(task, task): the task starts whether the call before it
   succeeded or failed. *)
Start(c) ==
    /\ pc[c] = "queued"
    /\ ChainReached(c)
    /\ pc' = [pc EXCEPT ![c] = "read"]
    /\ attempt' = [attempt EXCEPT ![c] = 1]
    /\ UNCHANGED <<file, tmp, queue, raw, result, history>>

MutAlwaysDelete(c) == None                    \* no identity check

(* What the map holds once the clean-up of c has run. *)
AfterCleanup(c) == IF tail = c THEN None ELSE tail

(* The reactions of the settled promise: the map entry is dropped only when
   no later call replaced it; then the caller and the next task go on. *)
Settle(c) ==
    /\ pc[c] = "done"
    /\ tail' = AfterCleanup(c)
    /\ pc' = [pc EXCEPT ![c] = "settled"]
    /\ UNCHANGED <<file, tmp, prev, attempt, raw, result, history>>

-----------------------------------------------------------------------------
(* writeEntry: one attempt per round of the loop.                          *)

(* The task's promise settles with outcome r. *)
Finish(c, r) ==
    /\ pc' = [pc EXCEPT ![c] = "done"]
    /\ result' = [result EXCEPT ![c] = r]

Goto(c, step) ==
    /\ pc' = [pc EXCEPT ![c] = step]
    /\ UNCHANGED result

MutNoDuplicateCheck(c, es) == FALSE

HasTitleOf(c, es) == \E e \in es : TitleOf[e] = TitleOf[c]

(* Read and parse the vault, refuse a duplicate title, add the entry to the
   private copy and serialise it.  Parsing an incomplete file throws. *)
ReadVault(c) ==
    /\ pc[c] = "read"
    /\ raw' = [raw EXCEPT ![c] = [entries |-> file.entries,
                                  version |-> file.version]]
    /\ \/ /\ ~file.complete
          /\ Finish(c, "failed")
       \/ /\ file.complete
          /\ HasTitleOf(c, file.entries)
          /\ Finish(c, "exists")
       \/ /\ file.complete
          /\ ~HasTitleOf(c, file.entries)
          /\ Goto(c, "compare")
    /\ UNCHANGED <<file, tmp, queue, attempt, history>>

(* The vault cannot be read (first read or re-read), opened or serialised,
   or the group is gone. *)
ReadFails(c) ==
    /\ pc[c] \in {"read", "compare"}
    /\ Finish(c, "failed")
    /\ UNCHANGED <<file, tmp, queue, attempt, raw, history>>

MutNoFingerprint(c) == TRUE

(* The file still has the fingerprint the call read. *)
Unchanged(c) == file.version = raw[c].version

MutOneTryMore(c) == attempt[c] <= MaxAttempts
MutOneTryLess(c) == attempt[c] < MaxAttempts - 1

TriesLeft(c) == attempt[c] < MaxAttempts

(* Re-read the file and compare fingerprints: go on to replace the file, or
   start over, or give up after the last attempt. *)
Compare(c) ==
    /\ pc[c] = "compare"
    /\ \/ /\ Unchanged(c)
          /\ Goto(c, "temp")
          /\ UNCHANGED attempt
       \/ /\ ~Unchanged(c)
          /\ TriesLeft(c)
          /\ Goto(c, "read")
          /\ attempt' = [attempt EXCEPT ![c] = @ + 1]
       \/ /\ ~Unchanged(c)
          /\ ~TriesLeft(c)
          /\ Finish(c, "changing")
          /\ UNCHANGED attempt
    /\ UNCHANGED <<file, tmp, queue, raw, history>>

-----------------------------------------------------------------------------
(* replaceVaultFile.                                                       *)

(* The serialised copy a call is about to install. *)
Saved(c) == [entries  |-> raw[c].entries \cup {c},
             complete |-> TRUE,
             version  |-> file.version + 1]

(* writeFile(tmpPath, data, { flag: 'wx' }) succeeds. *)
WriteTemp(c) ==
    /\ pc[c] = "temp"
    /\ tmp' = tmp \cup {c}
    /\ Goto(c, "adopt")
    /\ UNCHANGED <<file, queue, attempt, raw, history>>

(* The temp file cannot be created, or is created and cannot be filled; any
   error leads to the in-place write and nothing removes the temp file. *)
WriteTempFails(c) ==
    /\ InPlaceWrites
    /\ pc[c] = "temp"
    /\ \/ UNCHANGED tmp
       \/ tmp' = tmp \cup {c}
    /\ Goto(c, "inplace")
    /\ UNCHANGED <<file, queue, attempt, raw, history>>

(* stat both files, chown if the owners differ, chmod. *)
AdoptOwner(c) ==
    /\ pc[c] = "adopt"
    /\ Goto(c, "rename")
    /\ UNCHANGED <<file, tmp, queue, attempt, raw, history>>

(* The owners differ and chown is refused: remove the temp file, write in
   place, still inside the outer try.  (If the removal throws, its error takes
   the place of chown's in the outer catch: see InstallFails.) *)
ChownFails(c) ==
    /\ InPlaceWrites
    /\ pc[c] = "adopt"
    /\ tmp' = tmp \ {c}
    /\ Goto(c, "inplaceAfterChown")
    /\ UNCHANGED <<file, queue, attempt, raw, history>>

MutNoReturn(c) ==                             \* the loop goes on after a save
    /\ pc[c] = "rename"
    /\ file' = Saved(c)
    /\ tmp' = tmp \ {c}
    /\ IF TriesLeft(c)
          THEN Goto(c, "read") /\ attempt' = [attempt EXCEPT ![c] = @ + 1]
          ELSE Finish(c, "changing") /\ UNCHANGED attempt
    /\ UNCHANGED <<queue, raw, history>>

(* rename(tmpPath, vaultPath): the file changes in one step. *)
Rename(c) ==
    /\ pc[c] = "rename"
    /\ file' = Saved(c)
    /\ tmp' = tmp \ {c}
    /\ Finish(c, "ok")
    /\ UNCHANGED <<queue, attempt, raw, history>>

(* stat, chmod, rename or the removal after a refused chown throws: remove the
   temp file; the error codes of RENAME_UNSUPPORTED lead to the in-place write,
   others to the caller.  If the removal throws, the temp file stays and the
   caller gets that error. *)
InstallFails(c) ==
    /\ pc[c] \in {"adopt", "rename"}
    /\ \/ /\ InPlaceWrites
          /\ tmp' = tmp \ {c}
          /\ Goto(c, "inplace")
       \/ /\ tmp' \in {tmp, tmp \ {c}}
          /\ Finish(c, "failed")
    /\ UNCHANGED <<file, queue, attempt, raw, history>>

(* writeFile(vaultPath, data) opens the vault and truncates it ... *)
BeginInPlace(c) ==
    /\ pc[c] \in {"inplace", "inplaceAfterChown"}
    /\ file' = [entries |-> {}, complete |-> FALSE,
                version |-> file.version + 1]
    /\ Goto(c, "writing")
    /\ UNCHANGED <<tmp, queue, attempt, raw, history>>

(* ... and the last chunk makes it a vault again, ... *)
EndInPlace(c) ==
    /\ pc[c] = "writing"
    /\ file' = Saved(c)
    /\ Finish(c, "ok")
    /\ UNCHANGED <<tmp, queue, attempt, raw, history>>

(* ... unless the open is refused, which the outer catch may turn into a
   second in-place write when it comes from the chown branch, ... *)
InPlaceRefused(c) ==
    /\ \/ /\ pc[c] \in {"inplace", "inplaceAfterChown"}
          /\ Finish(c, "failed")
       \/ /\ pc[c] = "inplaceAfterChown"
          /\ Goto(c, "inplace")
    /\ UNCHANGED <<file, tmp, queue, attempt, raw, history>>

(* ... or a write fails after the truncation (disk full, I/O error). *)
InPlaceFails(c) ==
    /\ pc[c] = "writing"
    /\ Finish(c, "failed")
    /\ UNCHANGED <<file, tmp, queue, attempt, raw, history>>

-----------------------------------------------------------------------------
(* The environment.                                                        *)

InWindow == \E c \in Calls : pc[c] \in Replacing

(* A process outside the server (a desktop KeePass) loads the vault, adds an
   entry with a new title, removes one or changes nothing, and saves it
   atomically.  It cannot load an incomplete file.  A save of a stale copy is
   one that removes what the copy did not have.  KeePass itself would let its
   user give an entry a title that is taken: that the user does not is assumed
   here (UniqueTitles is about the writers). *)
OutsideSave ==
    /\ edits < MaxEdits
    /\ file.complete
    /\ LateEdits \/ ~InWindow
    /\ edits' = edits + 1
    /\ \/ \E x \in Outside \ added :
             /\ \A e \in file.entries : TitleOf[e] # TitleOf[x]
             /\ file' = [file EXCEPT !.entries = @ \cup {x}, !.version = @ + 1]
             /\ added' = added \cup {x}
             /\ late' = IF InWindow THEN late \cup {x} ELSE late
             /\ UNCHANGED removed
       \/ \E e \in file.entries :
             /\ file' = [file EXCEPT !.entries = @ \ {e}, !.version = @ + 1]
             /\ removed' = removed \cup {e}
             /\ late' = IF InWindow THEN late \cup {e} ELSE late
             /\ UNCHANGED added
       \/ /\ file' = [file EXCEPT !.version = @ + 1]
          /\ UNCHANGED <<added, removed, late>>
    /\ UNCHANGED <<tmp, queue, pc, attempt, raw, result, order, crashes>>

(* The server process dies and is started again: the promise chain and every
   unsettled call are gone, the files stay as they are. *)
Crash ==
    /\ crashes < MaxCrashes
    /\ Live # {}
    /\ crashes' = crashes + 1
    /\ tail' = None
    /\ pc' = [c \in Calls |-> IF c \in Live THEN "settled" ELSE pc[c]]
    /\ result' = [c \in Calls |-> IF c \in Live THEN "aborted" ELSE result[c]]
    /\ UNCHANGED <<file, tmp, prev, attempt, raw, order, added, removed,
                   late, edits>>

-----------------------------------------------------------------------------
(* What one call does by itself once it has been made. *)
Step(c) ==
    \/ Start(c)
    \/ ReadVault(c)
    \/ ReadFails(c)
    \/ Compare(c)
    \/ WriteTemp(c)
    \/ WriteTempFails(c)
    \/ AdoptOwner(c)
    \/ ChownFails(c)
    \/ Rename(c)
    \/ InstallFails(c)
    \/ BeginInPlace(c)
    \/ EndInPlace(c)
    \/ InPlaceRefused(c)
    \/ InPlaceFails(c)
    \/ Settle(c)

Next ==
    \/ \E c \in Calls : Enqueue(c) \/ Step(c)
    \/ OutsideSave
    \/ Crash

Spec == Init /\ [][Next]_vars

(* The event loop runs every ready reaction and every file operation ends. *)
Fairness == \A c \in Calls : WF_vars(Step(c))

FairSpec == Spec /\ Fairness

-----------------------------------------------------------------------------
(* Properties.                                                             *)

(* "Writes from this process run one at a time (serializeWrite)": however
   calls, failures and clean-ups interleave, two tasks never run together. *)
OneWriter ==
    \A c, d \in Calls : pc[c] \in Running /\ pc[d] \in Running => c = d

(* The map always leads to the newest pending call, so a new call waits for
   all of them, and it is empty as soon as none is left. *)
TailIsNewest ==
    /\ tail = None <=> Live = {}
    /\ tail # None =>
          /\ tail \in Live
          /\ \A c \in Live : prev[c] # tail

(* createEntry's caller was told the entry is stored: it is in the vault,
   unless an outside process removed it later.  No write of this process,
   nor its restart, loses it. *)
AcknowledgedIsStored ==
    file.complete =>
        \A c \in Calls : result[c] = "ok" => c \in file.entries \cup removed

(* createEntry's caller was told the write failed: the entry is not in the
   vault and never will be (setup-new-device then takes the password back). *)
RejectedIsNotStored ==
    \A c \in Calls : result[c] \in Errors => c \notin file.entries

(* A device id never gets two entries ("Prevent duplicate entries"), also
   when the duplicates are requested at the same time. *)
UniqueTitles == TitlesDiffer(file.entries)

(* What an outside process saved survives every write of the server, save
   what it saved between the fingerprint check and the replacement. *)
EarlyEditsSurvive ==
    file.complete =>
        /\ (added \ removed) \ late \subseteq file.entries
        /\ (removed \ late) \cap file.entries = {}

(* "kept changing": a call gives up only when outside processes really
   changed the file once per attempt; other calls never use up its tries. *)
GivesUpOnlyOnContention ==
    \A c \in Calls : result[c] = "changing" => edits >= MaxAttempts

(* Every call is answered: no failure, retry or crash before it strands it
   behind a promise that never settles. *)
EveryCallSettles == \A c \in Calls : pc[c] = "queued" ~> pc[c] = "settled"

(* createEntry implements the atomic vault: the pending calls are those made
   and not yet finished, in the order they were made, and the entry appears
   at the replacement. *)
Pending(c) == pc[c] \in Running \cup {"queued"}

(* How many calls are over; they are the ones made first. *)
Served == Cardinality({i \in DOMAIN order : ~Pending(order[i])})

Atomic == INSTANCE AtomicVault WITH
    store  <- file.entries,
    line   <- SubSeq(order, Served + 1, Len(order)),
    answer <- [c \in Calls |-> IF result[c] \in Errors THEN "rejected"
                                                       ELSE result[c]]

(* As long as no outside save falls between check and replacement and no
   fault diverts a write in place, nobody can tell the vault from one whose
   entries are added in a single step, oldest call first. *)
ImplementsAtomicVault == Atomic!Spec

(* The comment on createEntry: guards "keep concurrent writers from losing
   each other's changes", the second one "against other processes". *)
OutsideEditsSurvive ==
    file.complete => added \ removed \subseteq file.entries

(* The comment on createEntry: "the new vault goes to a temp file that is
   renamed over the original, so readers never see a half-written file". *)
NeverHalfWritten == file.complete

(* keepass-client.test.ts: a write "leaves no temp file behind". *)
NoTempFileLeft ==
    \A c \in tmp : pc[c] = "settled" => result[c] = "aborted"

=============================================================================
