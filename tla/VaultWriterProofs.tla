-------------------------- MODULE VaultWriterProofs --------------------------
(***************************************************************************)
(* Theorems about VaultWriter, for any number of calls, outside saves and  *)
(* crashes and any MAX_WRITE_ATTEMPTS.                                     *)
(***************************************************************************)
EXTENDS VaultWriter, FiniteSetTheorems, SequenceTheorems,
        WellFoundedInduction, TLAPS

-----------------------------------------------------------------------------
(* Type correctness.                                                       *)

LEMMA InitTypeOK == Init => TypeOK
<1> SUFFICES ASSUME Init PROVE TypeOK
  OBVIOUS
<1> QED
  BY EntriesAssumption, BoundsAssumption
  DEF Init, TypeOK, Entries, NoRead, Steps, Results

LEMMA NextTypeOK == TypeOK /\ [Next]_vars => TypeOK'
<1> SUFFICES ASSUME TypeOK, [Next]_vars PROVE TypeOK'
  OBVIOUS
<1> USE BoundsAssumption, EntriesAssumption
<1>1. CASE UNCHANGED vars
  BY <1>1 DEF TypeOK, vars
<1>2. CASE OutsideSave
  <2> USE DEF TypeOK
  <2>1. /\ UNCHANGED <<tmp, tail, prev, pc, attempt, raw, result, order, crashes>>
        /\ edits' \in 0..MaxEdits
    <3>1. edits < MaxEdits /\ edits' = edits + 1
      BY <1>2 DEF OutsideSave
    <3>2. UNCHANGED <<tmp, tail, prev, pc, attempt, raw, result, order, crashes>>
      BY <1>2 DEF OutsideSave, queue
    <3> QED
      BY <3>1, <3>2
  <2>2. file.version + 1 \in Nat
    OBVIOUS
  <2>3. ASSUME NEW x \in Outside \ added,
               file' = [file EXCEPT !.entries = @ \cup {x}, !.version = @ + 1],
               added' = added \cup {x},
               late' \in {late \cup {x}, late},
               UNCHANGED removed
        PROVE  TypeOK'
    BY <2>1, <2>2, <2>3 DEF Entries
  <2>4. ASSUME NEW e \in file.entries,
               file' = [file EXCEPT !.entries = @ \ {e}, !.version = @ + 1],
               removed' = removed \cup {e},
               late' \in {late \cup {e}, late},
               UNCHANGED added
        PROVE  TypeOK'
    BY <2>1, <2>2, <2>4
  <2>5. CASE /\ file' = [file EXCEPT !.version = @ + 1]
             /\ UNCHANGED <<added, removed, late>>
    BY <2>1, <2>2, <2>5
  <2> QED
    BY <1>2, <2>3, <2>4, <2>5 DEF OutsideSave
<1>3. CASE Crash
  BY <1>3 DEF TypeOK, Crash, Live, Steps, Results, Running
<1>4. ASSUME NEW c \in Calls, Enqueue(c) PROVE TypeOK'
  BY <1>4 DEF TypeOK, Enqueue, Steps
<1>5. ASSUME NEW c \in Calls, Step(c) PROVE TypeOK'
  <2> USE DEF TypeOK, queue, history, Finish, Goto, Steps, Running, Replacing,
              Results, Errors
  <2>1. CASE Start(c)
    BY <2>1 DEF Start
  <2>2. CASE ReadVault(c)
    BY <2>2 DEF ReadVault
  <2>3. CASE ReadFails(c)
    BY <2>3 DEF ReadFails
  <2>4. CASE Compare(c)
    <3>1. attempt' \in [Calls -> 0..MaxAttempts]
      <4>1. attempt[c] \in 0..MaxAttempts
        OBVIOUS
      <4>2. CASE TriesLeft(c) /\ attempt' = [attempt EXCEPT ![c] = @ + 1]
        <5>1. attempt[c] + 1 \in 0..MaxAttempts
          BY <4>1, <4>2 DEF TriesLeft
        <5> QED
          BY <4>2, <5>1
      <4> QED
        BY <2>4, <4>2 DEF Compare
    <3>2. pc' \in [Calls -> Steps] /\ result' \in [Calls -> Results]
      BY <2>4 DEF Compare
    <3> QED
      BY <2>4, <3>1, <3>2 DEF Compare
  <2>5. CASE WriteTemp(c)
    BY <2>5 DEF WriteTemp
  <2>6. CASE WriteTempFails(c)
    BY <2>6 DEF WriteTempFails
  <2>7. CASE AdoptOwner(c)
    BY <2>7 DEF AdoptOwner
  <2>8. CASE ChownFails(c)
    BY <2>8 DEF ChownFails
  <2>9. CASE Rename(c)
    BY <2>9 DEF Rename, Saved, Entries
  <2>10. CASE InstallFails(c)
    BY <2>10 DEF InstallFails
  <2>11. CASE BeginInPlace(c)
    BY <2>11 DEF BeginInPlace
  <2>12. CASE EndInPlace(c)
    BY <2>12 DEF EndInPlace, Saved, Entries
  <2>13. CASE InPlaceRefused(c)
    BY <2>13 DEF InPlaceRefused
  <2>14. CASE InPlaceFails(c)
    BY <2>14 DEF InPlaceFails
  <2>15. CASE Settle(c)
    BY <2>15 DEF Settle, AfterCleanup
  <2> QED
    BY <1>5, <2>1, <2>2, <2>3, <2>4, <2>5, <2>6, <2>7, <2>8, <2>9, <2>10,
       <2>11, <2>12, <2>13, <2>14, <2>15 DEF Step
<1> QED
  BY <1>1, <1>2, <1>3, <1>4, <1>5 DEF Next

(* Every reachable state has the shape the model declares: in particular no
   call ever makes more than MAX_WRITE_ATTEMPTS rounds of the loop. *)
THEOREM TypeCorrect == Spec => []TypeOK
<1>1. Init => TypeOK
  BY InitTypeOK
<1>2. TypeOK /\ [Next]_vars => TypeOK'
  BY NextTypeOK
<1> QED
  BY <1>1, <1>2, PTL DEF Spec

-----------------------------------------------------------------------------
(* The promise chain.  OneWriter alone is not inductive: it does not say    *)
(* which queued call may start next.  QueueInv does.  Every call waits for  *)
(* the one made just before it, or was made when all before it had settled; *)
(* hence calls run and settle in the order they were made.                  *)

Made == 1..Len(order)

QueueInv ==
    /\ \A i, j \in Made : order[i] = order[j] => i = j
    /\ \A c \in Calls : pc[c] # "idle" <=> \E i \in Made : order[i] = c
    /\ \A i \in Made : prev[order[i]] # None =>
                          i > 1 /\ prev[order[i]] = order[i - 1]
    /\ \A i, j \in Made : j < i /\ prev[order[i]] = None
                             => pc[order[j]] = "settled"
    /\ \A i, j \in Made :
          j < i /\ pc[order[i]] \in Running \cup {"done", "settled"}
          => pc[order[j]] = "settled"
    /\ tail = None => Live = {}
    /\ tail # None => Made # {} /\ tail = order[Len(order)] /\ tail \in Live

LEMMA MadeAreCalls == TypeOK => Len(order) \in Nat /\ \A i \in Made : order[i] \in Calls
BY DEF TypeOK, Made

(* A step that leaves the chain's variables alone keeps the invariant. *)
LEMMA QueueInvStays ==
    ASSUME QueueInv, UNCHANGED <<tail, prev, pc, order>>
    PROVE  QueueInv'
<1>1. Made' = Made /\ Live' = Live
  BY DEF Made, Live
<1> QED
  BY <1>1 DEF QueueInv

(* A step that moves one running call to another running step, or ends its
   task, leaves the chain as it is. *)
LEMMA RunningKeepsQueue ==
    ASSUME TypeOK, QueueInv, NEW c \in Calls,
           pc[c] \in Running, UNCHANGED <<queue, order>>,
           NEW step \in Running \cup {"done"},
           pc' = [pc EXCEPT ![c] = step]
    PROVE  QueueInv'
<1>1. Live' = Live
  BY DEF Live, TypeOK, Running, Replacing
<1>2. /\ pc'[c] \in Running \cup {"done"}
      /\ \A d \in Calls : d # c => pc'[d] = pc[d]
  BY DEF TypeOK
<1>3. /\ pc[c] \notin {"settled", "idle"}
      /\ pc'[c] \notin {"settled", "idle"}
  BY <1>2 DEF Running, Replacing
<1> QED
  BY <1>1, <1>2, <1>3, MadeAreCalls DEF QueueInv, queue, Made

LEMMA NextQueueInv == TypeOK /\ QueueInv /\ [Next]_vars => QueueInv'
<1> SUFFICES ASSUME TypeOK, QueueInv, [Next]_vars PROVE QueueInv'
  OBVIOUS
<1> USE EntriesAssumption, MadeAreCalls
<1>1. CASE UNCHANGED vars
  <2>1. UNCHANGED <<tail, prev, pc, order>>
    BY <1>1 DEF vars
  <2> QED
    BY <2>1, QueueInvStays
<1>2. CASE OutsideSave
  <2>1. UNCHANGED <<tail, prev, pc, order>>
    BY <1>2 DEF OutsideSave, queue
  <2> QED
    BY <2>1, QueueInvStays
<1>3. CASE Crash
  <2>1. Live' = {}
    BY <1>3 DEF Crash, Live, TypeOK, Steps, Running, Replacing
  <2>2. \A c \in Calls : IF pc[c] = "idle" THEN pc'[c] = "idle"
                                            ELSE pc'[c] = "settled"
    BY <1>3 DEF Crash, Live, Running, Replacing, TypeOK, Steps
  <2>3. UNCHANGED <<order, prev>> /\ tail' = None
    BY <1>3 DEF Crash
  <2>4. \A i \in Made : pc'[order[i]] = "settled"
    BY <2>2 DEF QueueInv
  <2> QED
    BY <2>1, <2>2, <2>3, <2>4 DEF QueueInv, Made
<1>4. ASSUME NEW c \in Calls, Enqueue(c) PROVE QueueInv'
  <2> DEFINE n == Len(order)
  <2>1. /\ Len(order') = n + 1 /\ n \in Nat
        /\ \A i \in 1..n : order'[i] = order[i] /\ order[i] # c
        /\ order'[n + 1] = c
    BY <1>4 DEF Enqueue, TypeOK, QueueInv, Made
  <2>2. /\ pc' = [pc EXCEPT ![c] = "queued"]
        /\ prev' = [prev EXCEPT ![c] = tail]
        /\ tail' = c
        /\ pc[c] = "idle"
    BY <1>4 DEF Enqueue
  <2>3. Live' = Live \cup {c}
    BY <2>2 DEF Live, TypeOK
  <2>4. tail = None => \A j \in 1..n : pc[order[j]] = "settled"
    BY DEF QueueInv, Live, TypeOK, Steps, Made
  <2>5. tail # None => n + 1 > 1 /\ tail = order[n]
    BY <2>1 DEF QueueInv, Made
  <2> HIDE DEF n
  <2>6. \A i, j \in 1..n + 1 : order'[i] = order'[j] => i = j
    BY <2>1 DEF QueueInv, Made, n
  <2>7. \A d \in Calls : pc'[d] # "idle" <=> \E i \in 1..n + 1 : order'[i] = d
    <3>1. \A d \in Calls : d # c =>
             (pc'[d] # "idle" <=> \E i \in 1..n : order[i] = d)
      BY <2>2 DEF QueueInv, TypeOK, Made, n
    <3>2. pc'[c] # "idle"
      BY <2>2 DEF TypeOK
    <3> QED
      BY <3>1, <3>2, <2>1
  <2>8. \A i \in 1..n + 1 : prev'[order'[i]] # None =>
                          i > 1 /\ prev'[order'[i]] = order'[i - 1]
    <3>1. ASSUME NEW i \in 1..n, prev'[order'[i]] # None
          PROVE  i > 1 /\ prev'[order'[i]] = order'[i - 1]
      <4>1. prev'[order'[i]] = prev[order[i]]
        BY <2>1, <2>2 DEF TypeOK, Made, n
      <4>2. i > 1 /\ prev[order[i]] = order[i - 1]
        BY <3>1, <4>1 DEF QueueInv, Made, n
      <4> QED
        BY <4>1, <4>2, <2>1
    <3>2. prev'[order'[n + 1]] = tail
      BY <2>1, <2>2 DEF TypeOK
    <3> QED
      BY <3>1, <3>2, <2>1, <2>5
  <2>9. \A i \in 1..n : /\ order'[i] \in Calls
                          /\ pc'[order'[i]] = pc[order[i]]
                          /\ prev'[order'[i]] = prev[order[i]]
    BY <2>1, <2>2 DEF TypeOK, Made, n
  <2>10. \A i, j \in 1..n + 1 : j < i /\ prev'[order'[i]] = None
                              => pc'[order'[j]] = "settled"
    <3> SUFFICES ASSUME NEW i \in 1..n + 1, NEW j \in 1..n + 1, j < i,
                        prev'[order'[i]] = None
                 PROVE  pc'[order'[j]] = "settled"
      OBVIOUS
    <3>1. j \in 1..n
      BY <2>1
    <3>2. CASE i = n + 1
      BY <3>1, <3>2, <2>1, <2>2, <2>4, <2>9 DEF TypeOK
    <3>3. CASE i \in 1..n
      BY <3>1, <3>3, <2>9 DEF QueueInv, Made, n
    <3> QED
      BY <3>2, <3>3, <2>1
  <2>11. \A i, j \in 1..n + 1 :
          j < i /\ pc'[order'[i]] \in Running \cup {"done", "settled"}
          => pc'[order'[j]] = "settled"
    <3> SUFFICES ASSUME NEW i \in 1..n + 1, NEW j \in 1..n + 1, j < i,
                        pc'[order'[i]] \in Running \cup {"done", "settled"}
                 PROVE  pc'[order'[j]] = "settled"
      OBVIOUS
    <3>1. i # n + 1
      BY <2>1, <2>2 DEF TypeOK, Running, Replacing
    <3>2. i \in 1..n /\ j \in 1..n
      BY <3>1, <2>1
    <3> QED
      BY <3>2, <2>9 DEF QueueInv, Made, n
  <2>12. /\ tail' # None /\ tail' = order'[n + 1] /\ tail' \in Live'
         /\ n + 1 \in 1..n + 1
    BY <2>1, <2>2, <2>3
  <2> QED
    BY <2>1, <2>6, <2>7, <2>8, <2>10, <2>11, <2>12 DEF QueueInv, Made
<1>5. ASSUME NEW c \in Calls, Start(c) PROVE QueueInv'
  <2>1. /\ pc' = [pc EXCEPT ![c] = "read"] /\ pc[c] = "queued"
        /\ UNCHANGED <<tail, prev, order>>
    BY <1>5 DEF Start, queue, history
  <2>2. Live' = Live
    BY <2>1 DEF Live, Running, TypeOK
  <2>3. pc'[c] = "read"
    BY <2>1 DEF TypeOK
  <2>4. ASSUME NEW i \in Made, NEW j \in Made, j < i, order[i] = c
        PROVE  pc[order[j]] = "settled"
    <3>1. CASE prev[c] = None
      BY <3>1, <2>4 DEF QueueInv
    <3>2. CASE prev[c] # None
      <4>1. i - 1 \in Made /\ prev[c] = order[i - 1]
        BY <3>2, <2>4 DEF QueueInv, Made
      <4>2. pc[order[i - 1]] = "settled"
        BY <4>1, <3>2, <1>5 DEF Start, ChainReached
      <4>3. j = i - 1 \/ j < i - 1
        BY <2>4 DEF Made
      <4> QED
        BY <4>1, <4>2, <4>3 DEF QueueInv
    <3> QED
      BY <3>1, <3>2
  <2>5. \A d \in Calls : d # c => pc'[d] = pc[d]
    BY <2>1 DEF TypeOK
  <2>6. \A i, j \in Made :
          j < i /\ pc'[order[i]] \in Running \cup {"done", "settled"}
          => pc'[order[j]] = "settled"
    BY <2>1, <2>4, <2>5 DEF QueueInv
  <2> QED
    BY <2>1, <2>2, <2>3, <2>5, <2>6 DEF QueueInv, Made
<1>6. ASSUME NEW c \in Calls, Settle(c) PROVE QueueInv'
  <2>1. /\ pc' = [pc EXCEPT ![c] = "settled"] /\ pc[c] = "done"
        /\ UNCHANGED <<prev, order>>
        /\ tail' = AfterCleanup(c)
    BY <1>6 DEF Settle, queue, history
  <2>2. Live' = Live \ {c}
    BY <2>1 DEF Live, Running, Replacing, TypeOK
  <2>3. pc'[c] = "settled" /\ \A d \in Calls : d # c => pc'[d] = pc[d]
    BY <2>1 DEF TypeOK
  <2>4. tail = c => Live = {c}
    <3> SUFFICES ASSUME tail = c, NEW d \in Live, d # c PROVE FALSE
      BY DEF QueueInv
    <3>1. c = order[Len(order)] /\ Len(order) \in Made
      BY DEF QueueInv, Made
    <3>2. PICK j \in Made : order[j] = d
      BY DEF QueueInv, Live, Running, Replacing
    <3>3. j < Len(order)
      BY <3>1, <3>2 DEF Made
    <3>4. pc[d] = "settled"
      BY <2>1, <3>1, <3>2, <3>3 DEF QueueInv
    <3> QED
      BY <3>4 DEF Live, Running, Replacing
  <2>5. tail' = None => Live' = {}
    BY <2>1, <2>2, <2>4 DEF AfterCleanup, QueueInv
  <2>6. tail' # None =>
          Made # {} /\ tail' = order[Len(order)] /\ tail' \in Live'
    BY <2>1, <2>2 DEF AfterCleanup, QueueInv
  <2>7. Made' = Made /\ \A k \in Made : order'[k] = order[k] /\ order[k] \in Calls
    BY <2>1 DEF Made
  <2>8. \A d \in Calls : pc'[d] = "idle" <=> pc[d] = "idle"
    BY <2>1, <2>3
  <2>9. \A i, j \in Made : j < i /\ prev[order[i]] = None
                               => pc'[order[j]] = "settled"
    BY <2>3, <2>7 DEF QueueInv
  <2>10. \A d \in Calls : pc'[d] \in Running \cup {"done", "settled"}
                               => pc[d] \in Running \cup {"done", "settled"}
    BY <2>1, <2>3
  <2>11. \A i, j \in Made :
            j < i /\ pc'[order[i]] \in Running \cup {"done", "settled"}
            => pc'[order[j]] = "settled"
    BY <2>3, <2>7, <2>10 DEF QueueInv
  <2> QED
    BY <2>1, <2>5, <2>6, <2>7, <2>8, <2>9, <2>11 DEF QueueInv
<1>7. ASSUME NEW c \in Calls, Step(c), ~Start(c), ~Settle(c) PROVE QueueInv'
  <2>1. UNCHANGED <<queue, order>> /\ pc[c] \in Running
    BY <1>7 DEF Step, ReadVault, ReadFails, Compare, WriteTemp, WriteTempFails,
       AdoptOwner, ChownFails, Rename, InstallFails, BeginInPlace, EndInPlace,
       InPlaceRefused, InPlaceFails, history, Running, Replacing
  <2>2. \E step \in Running \cup {"done"} : pc' = [pc EXCEPT ![c] = step]
    BY <1>7 DEF Step, ReadVault, ReadFails, Compare, WriteTemp, WriteTempFails,
       AdoptOwner, ChownFails, Rename, InstallFails, BeginInPlace, EndInPlace,
       InPlaceRefused, InPlaceFails, Goto, Finish, Running, Replacing
  <2> QED
    BY <2>1, <2>2, RunningKeepsQueue
<1> QED
  BY <1>1, <1>2, <1>3, <1>4, <1>5, <1>6, <1>7 DEF Next

LEMMA QueueInvariant == Spec => []QueueInv
<1>1. Init => QueueInv
  BY DEF Init, QueueInv, Made, Live, Running, Replacing
<1>2. TypeOK /\ QueueInv /\ [Next]_vars => QueueInv'
  BY NextQueueInv
<1> QED
  BY <1>1, <1>2, TypeCorrect, PTL DEF Spec

LEMMA QueueInvGivesOneWriter == TypeOK /\ QueueInv => OneWriter
<1> SUFFICES ASSUME TypeOK, QueueInv,
                    NEW c \in Calls, NEW d \in Calls,
                    pc[c] \in Running, pc[d] \in Running
             PROVE  c = d
  BY DEF OneWriter
<1>1. PICK i \in Made : order[i] = c
  BY DEF QueueInv, Running, Replacing
<1>2. PICK j \in Made : order[j] = d
  BY DEF QueueInv, Running, Replacing
<1>3. ~(i < j) /\ ~(j < i)
  BY <1>1, <1>2 DEF QueueInv, Running, Replacing
<1> QED
  BY <1>1, <1>2, <1>3, MadeAreCalls DEF Made

(* serializeWrite: two writes of the server never run at the same time,
   whatever fails, and whenever the map entry is dropped. *)
THEOREM WritesAreSerial == Spec => []OneWriter
BY TypeCorrect, QueueInvariant, QueueInvGivesOneWriter, PTL

(* serializeWrite: the map entry leads to the newest pending call and is gone
   exactly when no call is pending. *)
THEOREM MapLeadsToNewest == Spec => []TailIsNewest
<1>1. TypeOK /\ QueueInv => TailIsNewest
  <2> SUFFICES ASSUME TypeOK, QueueInv PROVE TailIsNewest
    OBVIOUS
  <2>1. ASSUME tail # None, NEW c \in Live, prev[c] = tail PROVE FALSE
    <3>1. PICK i \in Made : order[i] = c
      BY DEF QueueInv, Live, Running, Replacing
    <3>2. i > 1 /\ order[i - 1] = order[Len(order)]
      BY <2>1, <3>1 DEF QueueInv
    <3>3. i - 1 \in Made /\ Len(order) \in Made /\ i - 1 # Len(order)
      BY <3>2, MadeAreCalls DEF Made
    <3> QED
      BY <3>2, <3>3 DEF QueueInv
  <2> QED
    BY <2>1 DEF TailIsNewest, QueueInv
<1> QED
  BY <1>1, TypeCorrect, QueueInvariant, PTL

(* The chain never stands still: as long as a call is pending, one of them is
   running, is about to clean up, or waits for a promise that has settled. *)
ChainMovesOn ==
    Live # {} => \E c \in Live :
        pc[c] = "queued" => ChainReached(c)

(* serializeWrite: no failure, crash or clean-up leaves the pending calls
   waiting for each other. *)
THEOREM NobodyWaitsInVain == Spec => []ChainMovesOn
<1>1. ASSUME TypeOK, QueueInv, Live # {}
      PROVE  \E c \in Live : pc[c] = "queued" => ChainReached(c)
  <2> DEFINE T == {i \in Nat : i \in Made /\ order[i] \in Live}
  <2>1. PICK d \in Live : TRUE
    BY <1>1
  <2>2. PICK i \in Made : order[i] = d
    BY <1>1, <2>1 DEF QueueInv, Live, Running, Replacing
  <2>3. T # {} /\ T \subseteq Nat
    BY <1>1, <2>1, <2>2, MadeAreCalls DEF Made
  <2>4. PICK n \in T : \A m \in T : ~(<<m, n>> \in OpToRel(<, Nat))
    BY <2>3, NatLessThanWellFounded, WFMin
  <2>5. \A m \in T : ~(m < n)
    BY <2>3, <2>4 DEF OpToRel
  <2>6. order[n] \in Live /\ n \in Made /\ n \in Nat
    BY <2>4
  <2>7. ChainReached(order[n])
    <3> SUFFICES ASSUME prev[order[n]] # None PROVE pc[prev[order[n]]] = "settled"
      BY DEF ChainReached
    <3>1. n > 1 /\ prev[order[n]] = order[n - 1]
      BY <1>1, <2>6 DEF QueueInv
    <3>2. n - 1 \in Made /\ n - 1 \in Nat /\ n - 1 < n
      BY <1>1, <2>6, <3>1, MadeAreCalls DEF Made
    <3>3. order[n - 1] \in Calls /\ order[n - 1] \notin Live
      BY <1>1, <2>5, <3>2, MadeAreCalls
    <3>4. pc[order[n - 1]] \in Steps /\ pc[order[n - 1]] # "idle"
      BY <1>1, <3>2, <3>3 DEF QueueInv, TypeOK
    <3> QED
      BY <3>1, <3>3, <3>4 DEF Live, Steps
  <2> QED
    BY <2>6, <2>7
<1>2. TypeOK /\ QueueInv => ChainMovesOn
  BY <1>1 DEF ChainMovesOn
<1> QED
  BY <1>2, TypeCorrect, QueueInvariant, PTL

-----------------------------------------------------------------------------
(* The file: what createEntry's callers may conclude from its answer, and  *)
(* what the vault may hold, proved from the seriality of the writes.       *)

(* A call that has read the vault and still means to replace it. *)
Holding(d) == pc[d] \in {"compare"} \cup Replacing

(* A call has no outcome before its task ends; only an entry whose call has
   ended well, or was cut off by a crash, is in the file, in a private copy
   or among the entries removed; and every acknowledged entry that was not
   removed is in the complete file and in the copy about to replace it. *)
StoreInv ==
    /\ \A c \in Calls : pc[c] \in Running \cup {"idle", "queued"}
                            => result[c] = "none"
    /\ \A c \in Calls : c \in file.entries \cup removed
                            => result[c] \in {"ok", "aborted"}
    /\ \A c, d \in Calls : c \in raw[d].entries
                            => result[c] \in {"ok", "aborted"}
    /\ AcknowledgedIsStored
    /\ \A d \in Calls : Holding(d) =>
          \A c \in Calls : result[c] = "ok" => c \in raw[d].entries \cup removed

LEMMA InitStoreInv == Init => StoreInv
<1> SUFFICES ASSUME Init PROVE StoreInv
  OBVIOUS
<1>1. file.entries \subseteq Outside /\ removed = {}
  BY DEF Init
<1>2. \A c \in Calls : /\ pc[c] = "idle" /\ result[c] = "none"
                         /\ raw[c].entries = {}
  BY DEF Init, NoRead
<1> QED
  BY <1>1, <1>2, EntriesAssumption
  DEF StoreInv, AcknowledgedIsStored, Holding, Replacing

(* A running call moves on without touching the file or its copy. *)
LEMMA MovingOnKeepsStoreInv ==
    ASSUME TypeOK, StoreInv, NEW c \in Calls, pc[c] \in Running,
           UNCHANGED <<file, raw, removed>>,
           NEW step \in Running, Goto(c, step),
           step \in {"compare"} \cup Replacing => Holding(c)
    PROVE  StoreInv'
BY DEF TypeOK, StoreInv, AcknowledgedIsStored, Goto, Holding

(* A running call's task ends with an error; neither changes. *)
LEMMA FailingKeepsStoreInv ==
    ASSUME TypeOK, StoreInv, NEW c \in Calls, pc[c] \in Running,
           UNCHANGED <<file, removed>>,
           \A d \in Calls : d # c => raw'[d] = raw[d],
           \A e \in Calls : e \in raw'[c].entries =>
                                e \in raw[c].entries \cup file.entries,
           NEW r \in Errors, Finish(c, r)
    PROVE  StoreInv'
<1>1. \A d \in Calls : d # c => pc'[d] = pc[d] /\ result'[d] = result[d]
  BY DEF Finish, TypeOK
<1>2. /\ pc'[c] = "done" /\ result'[c] = r /\ result[c] = "none"
      /\ r \notin {"ok", "aborted"}
  BY DEF Finish, TypeOK, StoreInv, Errors
<1>3. c \notin file.entries \cup removed /\ \A d \in Calls : c \notin raw[d].entries
  BY <1>2 DEF StoreInv
<1>4. \A d, e \in Calls : d \in raw'[e].entries
                            => d # c /\ result[d] \in {"ok", "aborted"}
  BY <1>3 DEF StoreInv
<1> QED
  BY <1>1, <1>2, <1>3, <1>4
  DEF StoreInv, AcknowledgedIsStored, Holding, Running, Replacing

LEMMA NextStoreInv ==
    TypeOK /\ OneWriter /\ StoreInv /\ [Next]_vars => StoreInv'
<1> SUFFICES ASSUME TypeOK, OneWriter, StoreInv, [Next]_vars PROVE StoreInv'
  OBVIOUS
<1> USE EntriesAssumption
<1>1. CASE UNCHANGED vars
  BY <1>1 DEF StoreInv, vars, AcknowledgedIsStored, Holding
<1>2. CASE OutsideSave
  <2>1. /\ UNCHANGED <<pc, raw, result>> /\ file.complete
        /\ removed \subseteq removed'
        /\ \A c \in Calls : c \in file.entries \cup removed
                               <=> c \in file'.entries \cup removed'
    <3>1. UNCHANGED <<pc, raw, result>> /\ file.complete
      BY <1>2 DEF OutsideSave
    <3>2. ASSUME NEW x \in Outside \ added,
                 file' = [file EXCEPT !.entries = @ \cup {x},
                                      !.version = @ + 1],
                 UNCHANGED removed
          PROVE  /\ removed \subseteq removed'
                 /\ \A c \in Calls : c \in file.entries \cup removed
                               <=> c \in file'.entries \cup removed'
      BY <3>2 DEF TypeOK
    <3>3. ASSUME NEW e \in file.entries,
                 file' = [file EXCEPT !.entries = @ \ {e}, !.version = @ + 1],
                 removed' = removed \cup {e}
          PROVE  /\ removed \subseteq removed'
                 /\ \A c \in Calls : c \in file.entries \cup removed
                               <=> c \in file'.entries \cup removed'
      BY <3>3 DEF TypeOK
    <3>4. CASE /\ file' = [file EXCEPT !.version = @ + 1]
               /\ UNCHANGED removed
      BY <3>1, <3>4 DEF TypeOK
    <3> QED
      BY <1>2, <3>1, <3>2, <3>3, <3>4 DEF OutsideSave
  <2> QED
    BY <2>1 DEF StoreInv, AcknowledgedIsStored, Holding
<1>3. CASE Crash
  BY <1>3 DEF Crash, StoreInv, AcknowledgedIsStored, Holding, Live, TypeOK,
              Steps, Running, Replacing
<1>4. ASSUME NEW c \in Calls, Enqueue(c) PROVE StoreInv'
  BY <1>4 DEF Enqueue, StoreInv, AcknowledgedIsStored, Holding, TypeOK,
              Running, Replacing
<1>5. ASSUME NEW c \in Calls, Step(c) PROVE StoreInv'
  <2>1. CASE Start(c)
    BY <2>1 DEF Start, TypeOK, StoreInv, AcknowledgedIsStored, Holding,
                Running, Replacing, history
  <2>2. CASE ReadVault(c)
    <3>1. /\ raw' = [raw EXCEPT ![c] = [entries |-> file.entries,
                                       version |-> file.version]]
          /\ UNCHANGED <<file, removed>> /\ pc[c] = "read"
      BY <2>2 DEF ReadVault, history
    <3>2. /\ raw'[c].entries = file.entries
          /\ \A d \in Calls : d # c => raw'[d] = raw[d]
      BY <3>1 DEF TypeOK
    <3>3. ASSUME NEW r \in Errors, Finish(c, r) PROVE StoreInv'
      BY <3>1, <3>2, <3>3, FailingKeepsStoreInv DEF Running
    <3>4. CASE file.complete /\ Goto(c, "compare")
      BY <3>1, <3>2, <3>4 DEF Goto, TypeOK, StoreInv, AcknowledgedIsStored,
                              Holding, Running, Replacing
    <3> QED
      BY <2>2, <3>3, <3>4 DEF ReadVault, Errors
  <2>3. CASE Compare(c)
    <3>1. pc[c] = "compare" /\ UNCHANGED <<file, raw, removed>>
      BY <2>3 DEF Compare, history
    <3>2. ASSUME NEW step \in {"temp", "read"}, Goto(c, step) PROVE StoreInv'
      BY <3>1, <3>2, MovingOnKeepsStoreInv DEF Holding, Running, Replacing
    <3>3. CASE Finish(c, "changing")
      BY <3>1, <3>3, FailingKeepsStoreInv DEF Running, Errors
    <3> QED
      BY <2>3, <3>2, <3>3 DEF Compare
  <2>4. CASE WriteTemp(c) \/ WriteTempFails(c) \/ AdoptOwner(c) \/ ChownFails(c)
    <3>1. /\ pc[c] \in {"temp", "adopt"} /\ UNCHANGED <<file, raw, removed>>
          /\ \E step \in Replacing : Goto(c, step)
      BY <2>4 DEF WriteTemp, WriteTempFails, AdoptOwner, ChownFails, history,
                  Replacing
    <3> QED
      BY <3>1, MovingOnKeepsStoreInv DEF Holding, Running, Replacing
  <2>5. CASE ReadFails(c) \/ InPlaceFails(c)
    <3>1. /\ pc[c] \in Running /\ UNCHANGED <<file, raw, removed>>
          /\ Finish(c, "failed")
      BY <2>5 DEF ReadFails, InPlaceFails, history, Running, Replacing
    <3> QED
      BY <3>1, FailingKeepsStoreInv DEF Errors
  <2>6. CASE InstallFails(c) \/ InPlaceRefused(c)
    <3>1. pc[c] \in Replacing /\ UNCHANGED <<file, raw, removed>>
      BY <2>6 DEF InstallFails, InPlaceRefused, history, Replacing
    <3>2. Goto(c, "inplace") \/ Finish(c, "failed")
      BY <2>6 DEF InstallFails, InPlaceRefused
    <3>3. CASE Goto(c, "inplace")
      BY <3>1, <3>3, MovingOnKeepsStoreInv DEF Holding, Running, Replacing
    <3>4. CASE Finish(c, "failed")
      BY <3>1, <3>4, FailingKeepsStoreInv DEF Running, Errors
    <3> QED
      BY <3>2, <3>3, <3>4
  <2>7. CASE Rename(c) \/ EndInPlace(c)
    <3>1. /\ pc[c] \in Replacing /\ UNCHANGED <<raw, removed>>
          /\ file' = Saved(c) /\ Finish(c, "ok")
      BY <2>7 DEF Rename, EndInPlace, history, Replacing
    <3>2. \A d \in Calls : d # c => ~Holding(d)
      BY <3>1 DEF OneWriter, Holding, Running
    <3> QED
      BY <3>1, <3>2 DEF Saved, Finish, TypeOK, StoreInv, AcknowledgedIsStored,
                        Holding, Running, Replacing
  <2>8. CASE BeginInPlace(c)
    BY <2>8 DEF BeginInPlace, Goto, TypeOK, StoreInv, AcknowledgedIsStored,
                Holding, Running, Replacing, history
  <2>9. CASE Settle(c)
    BY <2>9 DEF Settle, TypeOK, StoreInv, AcknowledgedIsStored, Holding,
                Running, Replacing, history
  <2> QED
    BY <1>5, <2>1, <2>2, <2>3, <2>4, <2>5, <2>6, <2>7, <2>8, <2>9 DEF Step
<1> QED
  BY <1>1, <1>2, <1>3, <1>4, <1>5 DEF Next

LEMMA StoreInvariant == Spec => []StoreInv
<1>1. TypeOK /\ OneWriter /\ StoreInv /\ [Next]_vars => StoreInv'
  BY NextStoreInv
<1> QED
  BY <1>1, InitStoreInv, TypeCorrect, WritesAreSerial, PTL DEF Spec

(* createEntry: an entry whose caller was told it is stored is in the vault
   as long as no outside process removes it; no later write, retry, fault or
   restart of the server loses it. *)
THEOREM AcknowledgedEntriesStay == Spec => []AcknowledgedIsStored
<1>1. StoreInv => AcknowledgedIsStored
  BY DEF StoreInv
<1> QED
  BY <1>1, StoreInvariant, PTL

(* createEntry: when the caller is told the write failed, the entry is not in
   the vault, which is what lets setup-new-device take the password back. *)
THEOREM RejectedEntriesAreAbsent == Spec => []RejectedIsNotStored
<1>1. StoreInv => RejectedIsNotStored
  BY DEF StoreInv, RejectedIsNotStored, Errors
<1> QED
  BY <1>1, StoreInvariant, PTL

-----------------------------------------------------------------------------
(* The entries in the file differ in their titles, and so do those of every
   copy that is about to replace it, the new one included. *)
TitleInv ==
    /\ UniqueTitles
    /\ \A d \in Calls : Holding(d) => TitlesDiffer(raw[d].entries \cup {d})

(* A step of one call that replaces nothing and begins to hold no copy. *)
LEMMA WaitingKeepsTitleInv ==
    ASSUME TitleInv, UNCHANGED <<file, raw>>,
           \A d \in Calls : Holding(d)' => Holding(d)
    PROVE  TitleInv'
BY DEF TitleInv, UniqueTitles, TitlesDiffer

LEMMA NextTitleInv == TypeOK /\ TitleInv /\ [Next]_vars => TitleInv'
<1> SUFFICES ASSUME TypeOK, TitleInv, [Next]_vars PROVE TitleInv'
  OBVIOUS
<1>1. CASE UNCHANGED vars
  BY <1>1, WaitingKeepsTitleInv DEF vars, Holding
<1>2. CASE OutsideSave
  <2>1. UNCHANGED <<pc, raw>>
    BY <1>2 DEF OutsideSave
  <2>2. \/ \E x \in Outside : /\ \A e \in file.entries : TitleOf[e] # TitleOf[x]
                              /\ file'.entries = file.entries \cup {x}
        \/ file'.entries \subseteq file.entries
    BY <1>2 DEF OutsideSave, TypeOK
  <2> QED
    BY <2>1, <2>2 DEF TitleInv, UniqueTitles, TitlesDiffer, Holding
<1>3. CASE Crash
  BY <1>3, WaitingKeepsTitleInv
  DEF Crash, Live, Holding, TypeOK, Steps, Running, Replacing
<1>4. ASSUME NEW c \in Calls, Enqueue(c) PROVE TitleInv'
  BY <1>4, WaitingKeepsTitleInv DEF Enqueue, Holding, TypeOK, Replacing
<1>5. ASSUME NEW c \in Calls, Step(c) PROVE TitleInv'
  <2>1. CASE Start(c) \/ Settle(c)
    BY <2>1, WaitingKeepsTitleInv
    DEF Start, Settle, Holding, TypeOK, Replacing
  <2>2. CASE ReadVault(c)
    <3>1. /\ \A d \in Calls : d # c => raw'[d] = raw[d] /\ pc'[d] = pc[d]
          /\ raw'[c].entries = file.entries /\ UNCHANGED file
          /\ Holding(c)' => ~HasTitleOf(c, file.entries)
      BY <2>2 DEF ReadVault, Finish, Goto, TypeOK, Holding, Replacing
    <3>2. Holding(c)' => TitlesDiffer(raw'[c].entries \cup {c})
      BY <3>1 DEF TitleInv, UniqueTitles, TitlesDiffer, HasTitleOf
    <3> QED
      BY <3>1, <3>2 DEF TitleInv, UniqueTitles, TitlesDiffer, Holding
  <2>3. CASE \/ ReadFails(c) \/ Compare(c) \/ WriteTemp(c) \/ WriteTempFails(c)
             \/ AdoptOwner(c) \/ ChownFails(c) \/ InstallFails(c)
             \/ InPlaceRefused(c) \/ InPlaceFails(c)
    <3>1. /\ UNCHANGED <<file, raw>>
          /\ \A d \in Calls : d # c => pc'[d] = pc[d]
          /\ Holding(c) \/ pc'[c] = "done"
      BY <2>3 DEF ReadFails, Compare, WriteTemp, WriteTempFails, AdoptOwner,
                  ChownFails, InstallFails, InPlaceRefused, InPlaceFails,
                  Finish, Goto, TypeOK, Holding, Replacing
    <3> QED
      BY <3>1, WaitingKeepsTitleInv DEF Holding, Replacing
  <2>4. CASE BeginInPlace(c) \/ Rename(c) \/ EndInPlace(c)
    <3>1. /\ Holding(c) /\ UNCHANGED raw
          /\ file'.entries = {} \/ file'.entries = raw[c].entries \cup {c}
          /\ \A d \in Calls : Holding(d)' => Holding(d)
      BY <2>4 DEF BeginInPlace, Rename, EndInPlace, Saved, Finish, Goto, TypeOK,
                  Holding, Replacing
    <3> QED
      BY <3>1 DEF TitleInv, UniqueTitles, TitlesDiffer
  <2> QED
    BY <1>5, <2>1, <2>2, <2>3, <2>4 DEF Step
<1> QED
  BY <1>1, <1>2, <1>3, <1>4, <1>5 DEF Next

LEMMA TitlesInvariant == Spec => []TitleInv
<1>1. Init => TitleInv
  BY DEF Init, TitleInv, UniqueTitles, Holding, Replacing
<1> QED
  BY <1>1, NextTitleInv, TypeCorrect, PTL DEF Spec

(* createEntry, "Prevent duplicate entries": two entries of the vault never
   have the same title, whoever adds them and however often a write starts
   over. *)
THEOREM TitlesStayUnique == Spec => []UniqueTitles
<1>1. TitleInv => UniqueTitles
  BY DEF TitleInv
<1> QED
  BY <1>1, TitlesInvariant, PTL

-----------------------------------------------------------------------------
(* A call that compares fingerprints has read the file as it is now, or the
   file's version has grown since. *)
VersionInv ==
    \A c \in Calls : pc[c] = "compare" =>
        /\ raw[c].version <= file.version
        /\ Unchanged(c) => file.complete /\ raw[c].entries = file.entries

(* Every round of a call's loop but the first was begun because somebody else
   saved the vault in the round before it: the calls of this process wait. *)
TriesInv ==
    \A c \in Calls :
        /\ pc[c] = "read" => edits + 1 >= attempt[c]
        /\ pc[c] = "compare" =>
              edits + 1 + raw[c].version >= attempt[c] + file.version
        /\ result[c] = "changing" => edits >= MaxAttempts

(* What changes when a task starts, reads, or compares fingerprints, and what
   the other steps of one call leave alone. *)
LEMMA NextTriesInv ==
    TypeOK /\ OneWriter /\ VersionInv /\ TriesInv /\ [Next]_vars
        => VersionInv' /\ TriesInv'
<1> SUFFICES ASSUME TypeOK, OneWriter, VersionInv, TriesInv, [Next]_vars
             PROVE  VersionInv' /\ TriesInv'
  OBVIOUS
<1> USE BoundsAssumption
<1>1. CASE UNCHANGED vars
  BY <1>1 DEF VersionInv, TriesInv, Unchanged, vars
<1>2. CASE OutsideSave
  <2>1. /\ UNCHANGED <<pc, raw, result, attempt>> /\ edits' = edits + 1
        /\ file'.version = file.version + 1
    BY <1>2 DEF OutsideSave, TypeOK
  <2>2. /\ edits \in Nat /\ file.version \in Nat
        /\ \A c \in Calls : raw[c].version \in Nat /\ attempt[c] \in Nat
    BY DEF TypeOK
  <2> QED
    BY <2>1, <2>2 DEF VersionInv, TriesInv, Unchanged
<1>3. CASE Crash
  BY <1>3 DEF Crash, Live, VersionInv, TriesInv, Unchanged, TypeOK, Running
<1>4. ASSUME NEW c \in Calls, Enqueue(c) PROVE VersionInv' /\ TriesInv'
  BY <1>4 DEF Enqueue, VersionInv, TriesInv, Unchanged, TypeOK
<1>5. ASSUME NEW c \in Calls, Step(c) PROVE VersionInv' /\ TriesInv'
  <2>0. /\ edits' = edits
        /\ \A d \in Calls : d # c => /\ pc'[d] = pc[d] /\ raw'[d] = raw[d]
                                     /\ attempt'[d] = attempt[d]
                                     /\ result'[d] = result[d]
    BY <1>5
    DEF Step, Start, Settle, ReadVault, ReadFails, Compare, WriteTemp,
        WriteTempFails, AdoptOwner, ChownFails, Rename, InstallFails,
        BeginInPlace, EndInPlace, InPlaceRefused, InPlaceFails, Finish, Goto,
        TypeOK, history
  <2> SUFFICES /\ pc'[c] = "compare" =>
                     /\ raw'[c].version <= file'.version
                     /\ Unchanged(c)' =>
                           file'.complete /\ raw'[c].entries = file'.entries
                     /\ edits + 1 + raw'[c].version
                           >= attempt'[c] + file'.version
               /\ pc'[c] = "read" => edits + 1 >= attempt'[c]
               /\ result'[c] = "changing" => edits >= MaxAttempts
               /\ UNCHANGED file
                     \/ \A d \in Calls : d # c => pc[d] # "compare"
    BY <2>0 DEF VersionInv, TriesInv, Unchanged
  <2>1. /\ edits \in Nat /\ file.version \in Nat
        /\ raw[c].version \in Nat /\ attempt[c] \in Nat
    BY DEF TypeOK
  <2>2. CASE Start(c) \/ Settle(c)
    BY <2>1, <2>2 DEF Start, Settle, TypeOK, TriesInv, history
  <2>3. CASE ReadVault(c)
    <3>1. /\ raw'[c] = [entries |-> file.entries, version |-> file.version]
          /\ UNCHANGED <<file, attempt>> /\ pc[c] = "read"
          /\ \/ pc'[c] = "done" /\ result'[c] \in {"failed", "exists"}
             \/ pc'[c] = "compare" /\ UNCHANGED result /\ file.complete
      BY <2>3 DEF ReadVault, Finish, Goto, TypeOK, history
    <3> QED
      BY <2>1, <3>1 DEF TriesInv
  <2>4. CASE Compare(c)
    <3>1. UNCHANGED <<file, raw>> /\ pc[c] = "compare"
      BY <2>4 DEF Compare
    <3>2. CASE Goto(c, "temp")
      BY <3>1, <3>2 DEF Goto, TypeOK, TriesInv
    <3>3. CASE ~Unchanged(c) /\ Goto(c, "read")
                 /\ attempt' = [attempt EXCEPT ![c] = @ + 1]
      BY <2>1, <3>1, <3>3 DEF Goto, TypeOK, TriesInv, VersionInv, Unchanged
    <3>4. CASE ~Unchanged(c) /\ ~TriesLeft(c) /\ Finish(c, "changing")
      BY <2>1, <3>1, <3>4
      DEF Finish, TypeOK, TriesInv, VersionInv, Unchanged, TriesLeft
    <3> QED
      BY <2>4, <3>2, <3>3, <3>4 DEF Compare
  <2>5. CASE \/ ReadFails(c) \/ WriteTemp(c) \/ WriteTempFails(c)
             \/ AdoptOwner(c) \/ ChownFails(c) \/ InstallFails(c)
             \/ InPlaceRefused(c) \/ InPlaceFails(c)
    <3>1. /\ UNCHANGED file /\ pc'[c] \notin {"compare", "read"}
          /\ result'[c] \in {result[c], "failed"}
      BY <2>5 DEF ReadFails, WriteTemp, WriteTempFails, AdoptOwner, ChownFails,
                  InstallFails, InPlaceRefused, InPlaceFails, Finish, Goto,
                  TypeOK
    <3> QED
      BY <3>1 DEF TriesInv
  <2>6. CASE BeginInPlace(c) \/ Rename(c) \/ EndInPlace(c)
    <3>1. /\ pc[c] \in Replacing /\ pc'[c] \notin {"compare", "read"}
          /\ result'[c] \in {result[c], "ok"}
      BY <2>6 DEF BeginInPlace, Rename, EndInPlace, Finish, Goto, TypeOK,
                  Replacing
    <3>2. \A d \in Calls : d # c => pc[d] # "compare"
      BY <3>1 DEF OneWriter, Running
    <3> QED
      BY <3>1, <3>2 DEF TriesInv
  <2> QED
    BY <1>5, <2>2, <2>3, <2>4, <2>5, <2>6 DEF Step
<1> QED
  BY <1>1, <1>2, <1>3, <1>4, <1>5 DEF Next

LEMMA TriesInvariant == Spec => [](VersionInv /\ TriesInv)
<1>1. Init => VersionInv /\ TriesInv
  BY DEF Init, VersionInv, TriesInv
<1> QED
  BY <1>1, NextTriesInv, TypeCorrect, WritesAreSerial, PTL DEF Spec

(* writeEntry, "kept changing": a call that gives up has seen outside saves,
   one for each of its attempts; calls of this process never cost it one. *)
THEOREM OnlyContentionGivesUp == Spec => []GivesUpOnlyOnContention
<1>1. TriesInv => GivesUpOnlyOnContention
  BY DEF TriesInv, GivesUpOnlyOnContention
<1> QED
  BY <1>1, TriesInvariant, PTL

-----------------------------------------------------------------------------
(* What outside processes saved before the last look at the file: all they
   added and did not remove again is there, and nothing that they removed. *)
Keeps(entries) ==
    /\ (added \ removed) \ late \subseteq entries
    /\ (removed \ late) \cap entries = {}

(* The complete file keeps it, and so does every copy that passed the check;
   and outside entries are nowhere unless an outside process added them. *)
EditsInv ==
    /\ EarlyEditsSurvive
    /\ \A d \in Calls : pc[d] \in Replacing => Keeps(raw[d].entries \cup {d})
    /\ Outside \cap (file.entries \cup removed) \subseteq added
    /\ \A d \in Calls : Outside \cap raw[d].entries \subseteq added

LEMMA OutsideKeepsEditsInv ==
    ASSUME TypeOK, EditsInv, OutsideSave PROVE EditsInv'
<1>1. /\ UNCHANGED <<pc, raw>> /\ file.complete /\ file'.complete
      /\ Keeps(file.entries) /\ Outside \cap (file.entries \cup removed) \subseteq added
  BY DEF OutsideSave, EditsInv, EarlyEditsSurvive, Keeps, TypeOK
<1>2. ASSUME NEW x \in Outside \ added,
             file'.entries = file.entries \cup {x}, added' = added \cup {x},
             late' = IF InWindow THEN late \cup {x} ELSE late, UNCHANGED removed
      PROVE  EditsInv'
  <2>1. x \notin removed
    BY <1>1
  <2>2. EarlyEditsSurvive' /\ (Outside \cap (file.entries \cup removed) \subseteq added)'
    BY <1>1, <1>2, <2>1 DEF EarlyEditsSurvive, Keeps
  <2>3. ASSUME NEW d \in Calls, pc[d] \in Replacing
        PROVE  Keeps(raw[d].entries \cup {d})'
    <3>1. late' = late \cup {x}
      BY <1>2, <2>3 DEF InWindow
    <3> QED
      BY <1>1, <1>2, <2>3, <3>1 DEF EditsInv, Keeps
  <2> QED
    BY <1>1, <1>2, <2>2, <2>3 DEF EditsInv
<1>3. ASSUME NEW e \in file.entries,
             file'.entries = file.entries \ {e}, removed' = removed \cup {e},
             late' = IF InWindow THEN late \cup {e} ELSE late, UNCHANGED added
      PROVE  EditsInv'
  <2>1. EarlyEditsSurvive' /\ (Outside \cap (file.entries \cup removed) \subseteq added)'
    BY <1>1, <1>3 DEF EarlyEditsSurvive, Keeps
  <2>2. ASSUME NEW d \in Calls, pc[d] \in Replacing
        PROVE  Keeps(raw[d].entries \cup {d})'
    <3>1. late' = late \cup {e}
      BY <1>3, <2>2 DEF InWindow
    <3> QED
      BY <1>1, <1>3, <2>2, <3>1 DEF EditsInv, Keeps
  <2> QED
    BY <1>1, <1>3, <2>1, <2>2 DEF EditsInv
<1>4. CASE file'.entries = file.entries /\ UNCHANGED <<added, removed, late>>
  BY <1>1, <1>4 DEF EditsInv, EarlyEditsSurvive, Keeps
<1> QED
  BY <1>2, <1>3, <1>4 DEF OutsideSave, TypeOK

LEMMA NextEditsInv ==
    TypeOK /\ OneWriter /\ StoreInv /\ VersionInv /\ EditsInv /\ [Next]_vars
        => EditsInv'
<1> SUFFICES ASSUME TypeOK, OneWriter, StoreInv, VersionInv, EditsInv,
                    [Next]_vars
             PROVE  EditsInv'
  OBVIOUS
<1> USE EntriesAssumption
<1>1. CASE UNCHANGED vars
  BY <1>1 DEF EditsInv, EarlyEditsSurvive, Keeps, vars
<1>2. CASE OutsideSave
  BY <1>2, OutsideKeepsEditsInv
<1>3. CASE Crash
  BY <1>3 DEF Crash, Live, EditsInv, EarlyEditsSurvive, Keeps, Running,
              Replacing
<1>4. ASSUME NEW c \in Calls, Enqueue(c) PROVE EditsInv'
  BY <1>4 DEF Enqueue, EditsInv, EarlyEditsSurvive, Keeps, Replacing, TypeOK
<1>5. ASSUME NEW c \in Calls, Step(c) PROVE EditsInv'
  <2>1. /\ UNCHANGED <<added, removed, late>>
        /\ \A d \in Calls : d # c => pc'[d] = pc[d] /\ raw'[d] = raw[d]
    BY <1>5
    DEF Step, Start, Settle, ReadVault, ReadFails, Compare, WriteTemp,
        WriteTempFails, AdoptOwner, ChownFails, Rename, InstallFails,
        BeginInPlace, EndInPlace, InPlaceRefused, InPlaceFails, Finish, Goto,
        TypeOK, history
  <2>2. CASE /\ UNCHANGED file
             /\ pc'[c] \in Replacing => pc[c] \in Replacing /\ UNCHANGED raw
             /\ raw'[c].entries \subseteq raw[c].entries \cup file.entries
    BY <2>1, <2>2 DEF EditsInv, EarlyEditsSurvive, Keeps
  <2>3. CASE \/ Start(c) \/ Settle(c) \/ ReadVault(c) \/ ReadFails(c)
             \/ WriteTemp(c) \/ WriteTempFails(c) \/ AdoptOwner(c)
             \/ ChownFails(c) \/ InstallFails(c) \/ InPlaceRefused(c)
             \/ InPlaceFails(c)
    <3>1. /\ UNCHANGED file
          /\ pc'[c] \in Replacing => pc[c] \in Replacing /\ UNCHANGED raw
          /\ raw'[c].entries \subseteq raw[c].entries \cup file.entries
      BY <2>3 DEF Start, Settle, ReadVault, ReadFails, WriteTemp,
                  WriteTempFails, AdoptOwner, ChownFails, InstallFails,
                  InPlaceRefused, InPlaceFails, Finish, Goto, TypeOK, Replacing
    <3> QED
      BY <2>2, <3>1
  <2>4. CASE Compare(c)
    <3>1. CASE Unchanged(c) /\ pc[c] = "compare" /\ UNCHANGED <<file, raw>>
      <4>1. file.complete /\ raw[c].entries = file.entries
        BY <3>1 DEF VersionInv
      <4>2. c \notin removed
        BY <3>1 DEF StoreInv, Running
      <4>3. c \notin Outside /\ added \subseteq Outside
        BY DEF TypeOK
      <4>4. Keeps(raw[c].entries \cup {c})
        BY <4>1, <4>2 DEF EditsInv, EarlyEditsSurvive, Keeps
      <4> QED
        BY <2>1, <3>1, <4>4 DEF EditsInv, EarlyEditsSurvive, Keeps
    <3>2. CASE UNCHANGED <<file, raw>> /\ pc'[c] \notin Replacing
      BY <2>2, <3>2
    <3> QED
      BY <2>4, <3>1, <3>2 DEF Compare, Finish, Goto, TypeOK, Replacing
  <2>5. CASE BeginInPlace(c)
    <3>1. /\ file'.entries = {} /\ ~file'.complete /\ pc[c] \in Replacing
          /\ UNCHANGED raw
      BY <2>5 DEF BeginInPlace, Replacing
    <3> QED
      BY <2>1, <3>1 DEF EditsInv, EarlyEditsSurvive, Keeps
  <2>6. CASE Rename(c) \/ EndInPlace(c)
    <3>1. /\ file'.entries = raw[c].entries \cup {c} /\ pc[c] \in Replacing
          /\ UNCHANGED raw /\ pc'[c] = "done"
      BY <2>6 DEF Rename, EndInPlace, Saved, Finish, TypeOK, Replacing
    <3>2. Keeps(raw[c].entries \cup {c})
      BY <3>1 DEF EditsInv
    <3>3. Outside \cap (file'.entries \cup removed) \subseteq added
      BY <3>1 DEF EditsInv
    <3> QED
      BY <2>1, <3>1, <3>2, <3>3 DEF EditsInv, EarlyEditsSurvive, Keeps, Replacing
  <2> QED
    BY <1>5, <2>3, <2>4, <2>5, <2>6 DEF Step
<1> QED
  BY <1>1, <1>2, <1>3, <1>4, <1>5 DEF Next

(* "If the file changed meanwhile, start over": what an outside process saved
   survives every write of the server, retries, faults and crashes included,
   save what it saved between the last look at the file and its replacement. *)
THEOREM EarlyEditsStay == Spec => []EarlyEditsSurvive
<1>1. Init => EditsInv
  BY DEF Init, EditsInv, EarlyEditsSurvive, Replacing, NoRead
<1>2. EditsInv => EarlyEditsSurvive
  BY DEF EditsInv
<1> QED
  BY <1>1, <1>2, NextEditsInv, TypeCorrect, WritesAreSerial, StoreInvariant,
     TriesInvariant, PTL DEF Spec

(* The comment on createEntry holds as soon as nobody outside saves between
   the check and the replacement: then no write of the server, no retry, no
   fault and no crash loses what another process saved. *)
THEOREM OutsideEditsStay ==
    ASSUME ~LateEdits PROVE Spec => []OutsideEditsSurvive
<1>1. Init => late = {}
  BY DEF Init
<1>2. late = {} /\ [Next]_vars => (late = {})'
  <2> SUFFICES ASSUME late = {}, [Next]_vars PROVE late' = {}
    OBVIOUS
  <2>1. CASE OutsideSave
    BY <2>1 DEF OutsideSave
  <2>2. ASSUME NEW c \in Calls, Step(c) PROVE UNCHANGED late
    BY <2>2
    DEF Step, Start, Settle, ReadVault, ReadFails, Compare, WriteTemp,
        WriteTempFails, AdoptOwner, ChownFails, Rename, InstallFails,
        BeginInPlace, EndInPlace, InPlaceRefused, InPlaceFails, history
  <2> QED
    BY <2>1, <2>2 DEF Next, Enqueue, Crash, vars
<1>3. late = {} /\ EarlyEditsSurvive => OutsideEditsSurvive
  BY DEF EarlyEditsSurvive, OutsideEditsSurvive
<1> QED
  BY <1>1, <1>2, <1>3, EarlyEditsStay, PTL DEF Spec

-----------------------------------------------------------------------------
(* createEntry as an atomic vault: a step simulation.  The oldest pending   *)
(* call is the one that runs, and what it installs is the file as it is,   *)
(* with its entry added.                                                   *)

(* Without late saves and writes in place, the file is whole, and a call that
   is about to replace it holds a copy of what is in it. *)
CopyInv ==
    /\ file.complete
    /\ \A c \in Calls : pc[c] \in Replacing =>
          /\ pc[c] \in {"temp", "adopt", "rename"}
          /\ raw[c].entries = file.entries

LEMMA NextCopyInv ==
    ASSUME ~LateEdits, ~InPlaceWrites
    PROVE  TypeOK /\ OneWriter /\ VersionInv /\ CopyInv /\ [Next]_vars => CopyInv'
<1> SUFFICES ASSUME TypeOK, OneWriter, VersionInv, CopyInv, [Next]_vars
             PROVE  CopyInv'
  OBVIOUS
<1>1. CASE UNCHANGED vars
  BY <1>1 DEF CopyInv, vars
<1>2. CASE OutsideSave
  <2>1. UNCHANGED <<pc, raw>> /\ ~InWindow
    BY <1>2 DEF OutsideSave
  <2>2. file'.complete
    BY <1>2 DEF OutsideSave, TypeOK
  <2> QED
    BY <2>1, <2>2 DEF CopyInv, InWindow
<1>3. CASE Crash
  BY <1>3 DEF Crash, Live, CopyInv, TypeOK, Steps, Running, Replacing
<1>4. ASSUME NEW c \in Calls, Enqueue(c) PROVE CopyInv'
  BY <1>4 DEF Enqueue, CopyInv, TypeOK, Replacing
<1>5. ASSUME NEW c \in Calls, Step(c) PROVE CopyInv'
  <2>1. CASE Start(c) \/ Settle(c)
    BY <2>1 DEF Start, Settle, CopyInv, TypeOK, Replacing
  <2>2. CASE ReadVault(c)
    <3>1. /\ \A d \in Calls : d # c => raw'[d] = raw[d] /\ pc'[d] = pc[d]
          /\ UNCHANGED file /\ pc'[c] \notin Replacing
      BY <2>2 DEF ReadVault, Finish, Goto, TypeOK, Replacing
    <3> QED
      BY <3>1 DEF CopyInv
  <2>3. CASE Compare(c)
    <3>1. /\ \A d \in Calls : d # c => pc'[d] = pc[d]
          /\ UNCHANGED <<file, raw>>
          /\ \/ pc'[c] = "temp" /\ Unchanged(c) /\ pc[c] = "compare"
             \/ pc'[c] \notin Replacing
      BY <2>3 DEF Compare, Finish, Goto, TypeOK, Replacing
    <3>2. pc'[c] \in Replacing =>
             pc'[c] = "temp" /\ raw[c].entries = file.entries
      BY <3>1 DEF VersionInv
    <3> QED
      BY <3>1, <3>2 DEF CopyInv
  <2>4. CASE \/ ReadFails(c) \/ WriteTemp(c) \/ WriteTempFails(c)
             \/ AdoptOwner(c) \/ ChownFails(c) \/ InstallFails(c)
             \/ InPlaceRefused(c) \/ InPlaceFails(c)
    <3>1. /\ \A d \in Calls : d # c => pc'[d] = pc[d]
          /\ UNCHANGED <<file, raw>>
          /\ \/ pc'[c] \in {"adopt", "rename"} /\ pc[c] \in Replacing
             \/ pc'[c] \notin Replacing
      BY <2>4 DEF ReadFails, WriteTemp, WriteTempFails, AdoptOwner, ChownFails,
                  InstallFails, InPlaceRefused, InPlaceFails, Finish, Goto,
                  TypeOK, Replacing, CopyInv
    <3> QED
      BY <3>1 DEF CopyInv
  <2>5. CASE BeginInPlace(c) \/ EndInPlace(c)
    BY <2>5 DEF BeginInPlace, EndInPlace, CopyInv, Replacing
  <2>6. CASE Rename(c)
    <3>1. /\ pc[c] \in Running /\ file'.complete
          /\ \A d \in Calls : d # c => pc'[d] = pc[d]
          /\ pc'[c] \notin Replacing
      BY <2>6 DEF Rename, Saved, Finish, TypeOK, Running, Replacing
    <3>2. \A d \in Calls : d # c => pc[d] \notin Replacing
      BY <3>1 DEF OneWriter, Running
    <3> QED
      BY <3>1, <3>2 DEF CopyInv
  <2> QED
    BY <1>5, <2>1, <2>2, <2>3, <2>4, <2>5, <2>6 DEF Step
<1> QED
  BY <1>1, <1>2, <1>3, <1>4, <1>5 DEF Next

-----------------------------------------------------------------------------
(* Sequences: what SubSeq to the end of a sequence is made of. *)
LEMMA SuffixOfAppend ==
    ASSUME NEW S, NEW s \in Seq(S), NEW x \in S, NEW n \in 0..Len(s)
    PROVE  SubSeq(Append(s, x), n + 1, Len(Append(s, x)))
              = Append(SubSeq(s, n + 1, Len(s)), x)
<1> DEFINE l == Len(s)
           a == Append(s, x)
           t == SubSeq(a, n + 1, l + 1)
           r == SubSeq(s, n + 1, l)
           u == Append(r, x)
<1>0. l \in Nat /\ n \in Nat /\ n <= l
  OBVIOUS
<1>1. /\ a \in Seq(S) /\ Len(a) = l + 1 /\ a[l + 1] = x
      /\ \A i \in 1..l : a[i] = s[i]
  BY AppendProperties
<1> HIDE DEF a
<1>2. \A i \in n + 1..l + 1 : a[i] \in S
  BY <1>0, <1>1
<1>3. /\ t \in Seq(S) /\ Len(t) = l + 1 - n
      /\ \A i \in 1..l + 1 - n : t[i] = a[n + i]
  <2>1. /\ t \in Seq(S)
        /\ Len(t) = IF n + 1 <= l + 1 THEN l + 1 - (n + 1) + 1 ELSE 0
        /\ \A i \in 1..l + 1 - (n + 1) + 1 : t[i] = a[n + 1 + i - 1]
    BY <1>0, <1>2, SubSeqProperties
  <2>2. /\ n + 1 <= l + 1 /\ l + 1 - (n + 1) + 1 = l + 1 - n
        /\ \A i \in 1..l + 1 - n : n + 1 + i - 1 = n + i
    BY <1>0
  <2> QED
    BY <2>1, <2>2
<1>4. /\ r \in Seq(S) /\ Len(r) = l - n
      /\ \A i \in 1..l - n : r[i] = s[n + i]
  <2>1. \A i \in n + 1..l : s[i] \in S
    BY <1>0
  <2>2. /\ r \in Seq(S)
        /\ Len(r) = IF n + 1 <= l THEN l - (n + 1) + 1 ELSE 0
        /\ \A i \in 1..l - (n + 1) + 1 : r[i] = s[n + 1 + i - 1]
    BY <1>0, <2>1, SubSeqProperties
  <2> QED
    BY <1>0, <2>2
<1> HIDE DEF t, r
<1>5. /\ u \in Seq(S) /\ Len(u) = l - n + 1 /\ u[l - n + 1] = x
      /\ \A i \in 1..l - n : u[i] = r[i]
  BY <1>4, AppendProperties
<1> HIDE DEF u, l
<1>6. ASSUME NEW i \in 1..l + 1 - n PROVE t[i] = u[i]
  <2>1. CASE i = l + 1 - n
    <3>1. n + i = l + 1 /\ i = l - n + 1
      BY <1>0, <2>1
    <3> QED
      BY <1>1, <1>3, <1>5, <3>1
  <2>2. CASE i \in 1..l - n
    <3>1. n + i \in 1..l
      BY <1>0, <2>2
    <3> QED
      BY <1>1, <1>3, <1>4, <1>5, <2>2, <3>1
  <2> QED
    BY <1>0, <2>1, <2>2
<1>7. t = u
  <2>1. t \in Seq(S) /\ u \in Seq(S) /\ Len(t) = l + 1 - n /\ Len(u) = Len(t)
    BY <1>0, <1>3, <1>5
  <2>2. \A i \in 1..Len(t) : t[i] = u[i]
    BY <1>6, <2>1
  <2> QED
    BY <2>1, <2>2, SeqEqual
<1> QED
  BY <1>1, <1>7 DEF a, t, u, r, l

-----------------------------------------------------------------------------
(* The line of the calls that are pending: the calls made after the first so
   many, for those made before one that has begun are all over. *)
Line == SubSeq(order, Served + 1, Len(order))

LEMMA PendingGoOn ==
    ASSUME TypeOK, QueueInv, NEW i \in Made, NEW j \in Made, i < j,
           Pending(order[i])
    PROVE  Pending(order[j])
<1>1. order[j] \in Calls /\ pc[order[j]] \in Steps /\ pc[order[j]] # "idle"
  BY MadeAreCalls DEF QueueInv, TypeOK
<1>2. pc[order[j]] \notin Running \cup {"done", "settled"}
  BY DEF QueueInv, Pending, Running, Replacing
<1> QED
  BY <1>1, <1>2 DEF Steps, Pending

LEMMA ServedIs ==
    ASSUME TypeOK, NEW n \in 0..Len(order),
           \A i \in Made : Pending(order[i]) <=> n < i
    PROVE  Served = n
<1>1. DOMAIN order = Made /\ Len(order) \in Nat
  BY DEF TypeOK, Made
<1>2. {i \in DOMAIN order : ~Pending(order[i])} = 1..n
  BY <1>1 DEF Made
<1>3. Cardinality(1..n) = n
  BY <1>1, FS_Interval
<1> QED
  BY <1>2, <1>3 DEF Served

(* Every call in the line is pending, and so are all behind it. *)
LEMMA ServedSplits ==
    ASSUME TypeOK, QueueInv
    PROVE  /\ Served \in 0..Len(order)
           /\ \A i \in Made : Pending(order[i]) <=> Served < i
<1> DEFINE After == {n \in Nat : \A i \in Made : n < i => Pending(order[i])}
<1>1. Len(order) \in After /\ After \subseteq Nat
  BY MadeAreCalls DEF Made
<1>2. PICK n \in After : \A m \in After : ~(m < n)
  <2>1. PICK n \in After : \A m \in After : ~(<<m, n>> \in OpToRel(<, Nat))
    BY <1>1, NatLessThanWellFounded, WFMin
  <2> QED
    BY <2>1, <1>1 DEF OpToRel
<1>3. n \in 0..Len(order)
  BY <1>1, <1>2, MadeAreCalls
<1>4. ASSUME NEW i \in Made, i <= n PROVE ~Pending(order[i])
  <2> SUFFICES ASSUME Pending(order[i]) PROVE FALSE
    OBVIOUS
  <2>1. n - 1 \in Nat /\ n - 1 < n
    BY <1>3, <1>4 DEF Made
  <2>2. \A j \in Made : n - 1 < j => Pending(order[j])
    BY <1>3, <1>4, PendingGoOn DEF Made
  <2> QED
    BY <1>2, <2>1, <2>2
<1>5. \A i \in Made : Pending(order[i]) <=> n < i
  BY <1>2, <1>3, <1>4 DEF Made
<1>6. Served = n
  BY <1>3, <1>5, ServedIs
<1> QED
  BY <1>3, <1>5, <1>6

(* A step that begins and ends no task leaves the line as it is. *)
LEMMA LineStays ==
    ASSUME TypeOK, UNCHANGED order,
           \A d \in Calls : Pending(d)' <=> Pending(d)
    PROVE  UNCHANGED Line
<1>1. {i \in DOMAIN order : ~Pending(order[i])}'
         = {i \in DOMAIN order : ~Pending(order[i])}
  BY DEF TypeOK
<1>2. Served' = Served
  BY <1>1 DEF Served
<1> QED
  BY <1>2 DEF Line

(* A call that enters the queue goes to the end of the line ... *)
LEMMA QueuedGoesLast ==
    ASSUME TypeOK, QueueInv, NEW c \in Calls, Enqueue(c)
    PROVE  Line' = Append(Line, c)
<1> DEFINE n == Len(order)
<1>1. /\ order \in Seq(Calls) /\ order' = Append(order, c)
      /\ pc' = [pc EXCEPT ![c] = "queued"] /\ pc[c] = "idle"
  BY DEF Enqueue, TypeOK
<1>2. /\ n \in Nat /\ DOMAIN order = 1..n /\ DOMAIN order' = 1..n + 1
      /\ \A i \in 1..n : order'[i] = order[i] /\ order[i] \in Calls \ {c}
      /\ order'[n + 1] = c
  BY <1>1, MadeAreCalls DEF QueueInv, Made
<1> HIDE DEF n
<1>4. {i \in DOMAIN order : ~Pending(order[i])}'
         = {i \in DOMAIN order : ~Pending(order[i])}
  <2>1. \A i \in 1..n : pc'[order'[i]] = pc[order[i]]
    BY <1>1, <1>2 DEF TypeOK
  <2>2. pc'[order'[n + 1]] = "queued"
    BY <1>1, <1>2 DEF TypeOK
  <2> QED
    BY <1>2, <2>1, <2>2 DEF Pending
<1>5. Served' = Served
  BY <1>4 DEF Served
<1>6. Served \in 0..Len(order)
  BY ServedSplits
<1> QED
  BY <1>1, <1>5, <1>6, SuffixOfAppend DEF Line

(* ... and the call whose task ends is the one at its head. *)
LEMMA EndedIsFirst ==
    ASSUME TypeOK, QueueInv, NEW c \in Calls, pc[c] \in Running,
           pc' = [pc EXCEPT ![c] = "done"], UNCHANGED order
    PROVE  Line # <<>> /\ Head(Line) = c /\ Line' = Tail(Line)
<1> DEFINE n == Len(order)
<1>1. PICK k \in Made : order[k] = c
  BY DEF QueueInv, Running, Replacing
<1>2. /\ n \in Nat /\ Made = 1..n /\ DOMAIN order = 1..n /\ k \in 1..n
      /\ order \in Seq(Calls)
  BY <1>1, MadeAreCalls DEF Made, TypeOK
<1>3. ASSUME NEW i \in Made PROVE Pending(order[i]) <=> k - 1 < i
  <2>1. CASE i < k
    <3>1. pc[order[i]] = "settled"
      BY <1>1, <2>1 DEF QueueInv
    <3> QED
      BY <1>2, <2>1, <3>1 DEF Pending, Running, Replacing
  <2>2. CASE ~(i < k)
    BY <1>1, <1>2, <2>2, PendingGoOn DEF Pending
  <2> QED
    BY <2>1, <2>2
<1>4. Served = k - 1
  BY <1>2, <1>3, ServedIs
<1>5. Served' = k
  <2>1. /\ ~Pending(c)'
        /\ \A d \in Calls \ {c} : Pending(d)' <=> Pending(d)
    BY DEF Pending, TypeOK, Running, Replacing
  <2>2. \A i \in Made : order[i] \in Calls /\ (order[i] = c <=> i = k)
    BY <1>1, MadeAreCalls DEF QueueInv
  <2>3. \A i \in 1..n : Pending(order[i])' <=> k < i
    BY <1>2, <1>3, <2>1, <2>2
  <2>4. {i \in DOMAIN order : ~Pending(order[i])}' = 1..k
    BY <1>2, <2>3
  <2>5. Cardinality(1..k) = k
    BY <1>2, FS_Interval
  <2> QED
    BY <2>4, <2>5 DEF Served
<1>6. /\ SubSeq(order, k, n) # <<>>
      /\ Head(SubSeq(order, k, n)) = order[k]
      /\ Tail(SubSeq(order, k, n)) = SubSeq(order, k + 1, n)
  <2>1. n \in k..n
    BY <1>2
  <2>2. Len(SubSeq(order, k, n)) # 0
    <3>1. \A i \in k..n : order[i] \in Calls
      BY <1>2, MadeAreCalls
    <3> QED
      BY <1>2, <3>1, SubSeqProperties
  <2>3. SubSeq(order, k, n) # <<>>
    <3>1. Len(<<>>) = 0
      OBVIOUS
    <3> QED
      BY <2>2, <3>1
  <2> QED
    BY <1>2, <2>1, <2>3, HeadTailOfSubSeq
<1> QED
  BY <1>1, <1>2, <1>4, <1>5, <1>6 DEF Line

LEMMA LineIsPending ==
    ASSUME TypeOK, QueueInv, NEW i \in DOMAIN Line
    PROVE  Pending(Line[i])
<1>1. /\ Served \in 0..Len(order) /\ Len(order) \in Nat
      /\ \A j \in Made : Pending(order[j]) <=> Served < j
  BY ServedSplits, MadeAreCalls
<1>2. \A j \in Served + 1..Len(order) : order[j] \in Calls
  BY <1>1, MadeAreCalls DEF Made
<1>3. /\ Line \in Seq(Calls)
      /\ Len(Line) = IF Served + 1 <= Len(order)
                        THEN Len(order) - (Served + 1) + 1 ELSE 0
      /\ \A j \in 1..Len(order) - (Served + 1) + 1 :
            Line[j] = order[Served + 1 + j - 1]
  BY <1>1, <1>2, SubSeqProperties DEF Line
<1> HIDE DEF Line
<1>4. i \in 1..Len(order) - Served
  BY <1>1, <1>3
<1>5. Served + i \in Made /\ Served < Served + i /\ Line[i] = order[Served + i]
  BY <1>1, <1>3, <1>4 DEF Made
<1> QED
  BY <1>1, <1>5

LEMMA NobodyLeftInLine ==
    ASSUME TypeOK, \A c \in Calls : ~Pending(c)', UNCHANGED order
    PROVE  Line' = <<>>
<1>1. DOMAIN order = 1..Len(order) /\ Len(order) \in Nat
  BY DEF TypeOK
<1>2. {i \in DOMAIN order : ~Pending(order[i])}' = 1..Len(order)
  BY <1>1 DEF TypeOK
<1>3. Cardinality(1..Len(order)) = Len(order)
  <2>1. ASSUME NEW n \in Nat PROVE Cardinality(1..n) = n
    BY FS_Interval
  <2> QED
    BY <1>1, <2>1
<1>4. Served' = Len(order)
  BY <1>2, <1>3 DEF Served
<1> QED
  BY <1>1, <1>4, SubSeqEmpty DEF Line

-----------------------------------------------------------------------------
(* The simulation. *)
Answer == [c \in Calls |-> IF result[c] \in Errors THEN "rejected"
                                                   ELSE result[c]]

LEMMA InitSimulates == Init => Atomic!Init
<1> SUFFICES ASSUME Init PROVE Atomic!Init
  OBVIOUS
<1>1. /\ file.entries \in SUBSET Outside /\ TitlesDiffer(file.entries)
      /\ order = <<>>
      /\ \A c \in Calls : result[c] = "none"
  BY DEF Init
<1>2. SubSeq(order, Served + 1, Len(order)) = <<>>
  <2>1. Served = 0
    <3>1. {i \in DOMAIN order : ~Pending(order[i])} = {}
      BY <1>1
    <3> QED
      BY <3>1, FS_EmptySet DEF Served
  <2>2. Len(order) = 0
    BY <1>1
  <2> HIDE DEF Served
  <2>3. Served + 1 \in Int /\ Len(order) \in Int /\ Len(order) < Served + 1
    BY <2>1, <2>2
  <2> QED
    BY <2>3, SubSeqEmpty
<1>3. [c \in Calls |-> IF result[c] \in Errors THEN "rejected" ELSE result[c]]
         = [c \in Calls |-> "none"]
  BY <1>1 DEF Errors
<1> QED
  BY <1>1, <1>2, <1>3 DEF Atomic!Init, Atomic!Distinct, TitlesDiffer

(* A task that ends with an answer takes its call from the line. *)
LEMMA EndingSimulates ==
    ASSUME TypeOK, QueueInv, NEW c \in Calls, pc[c] \in Running,
           UNCHANGED <<file, order>>, NEW r \in Errors, Finish(c, r)
    PROVE  Atomic!Reject(c)
<1>1. Line # <<>> /\ Head(Line) = c /\ Line' = Tail(Line)
  BY EndedIsFirst DEF Finish
<1>2. Answer' = [Answer EXCEPT ![c] = "rejected"]
  BY DEF Answer, Finish, TypeOK
<1> QED
  BY <1>1, <1>2 DEF Atomic!Reject, Line, Answer

(* A step within a call's task, or of its promise, is not seen. *)
LEMMA InnerStepIsUnseen ==
    ASSUME TypeOK, UNCHANGED <<order, result>>, file'.entries = file.entries,
           \A d \in Calls : Pending(d)' <=> Pending(d)
    PROVE  UNCHANGED Atomic!vars
<1>1. UNCHANGED Line
  BY LineStays
<1> QED
  BY <1>1 DEF Atomic!vars, Line

LEMMA NextSimulates ==
    ASSUME ~LateEdits, ~InPlaceWrites,
           TypeOK, QueueInv, OneWriter, StoreInv, TitleInv, VersionInv, CopyInv,
           [Next]_vars
    PROVE  [Atomic!Next]_(Atomic!vars)
<1>1. CASE UNCHANGED vars
  BY <1>1, InnerStepIsUnseen DEF vars, Pending
<1>2. CASE OutsideSave
  <2>1. UNCHANGED <<order, pc, result>>
    BY <1>2 DEF OutsideSave
  <2>2. UNCHANGED <<Line, Answer>>
    BY <2>1, LineStays DEF Pending, Answer
  <2>3. \/ \E x \in Outside : /\ \A e \in file.entries : TitleOf[e] # TitleOf[x]
                              /\ file'.entries = file.entries \cup {x}
        \/ \E e \in file.entries : file'.entries = file.entries \ {e}
        \/ file'.entries = file.entries
    BY <1>2 DEF OutsideSave, TypeOK
  <2> QED
    BY <2>2, <2>3 DEF Atomic!Next, Atomic!Edit, Atomic!vars, Line, Answer
<1>3. CASE Crash
  <2>1. UNCHANGED <<file, order>>
    BY <1>3 DEF Crash
  <2>2. \A c \in Calls : ~Pending(c)'
    BY <1>3 DEF Crash, Live, Pending, TypeOK, Running, Replacing
  <2>3. Line' = <<>>
    BY <2>1, <2>2, NobodyLeftInLine
  <2>4. \A c \in Calls : Atomic!InLine(c) => c \in Live
    BY LineIsPending DEF Atomic!InLine, Line, Live, Pending
  <2>5. Answer' = [c \in Calls |-> IF c \in Live \/ Atomic!InLine(c)
                                   THEN "aborted" ELSE Answer[c]]
    BY <1>3, <2>4 DEF Crash, Answer, Errors
  <2> QED
    BY <2>1, <2>3, <2>5 DEF Atomic!Next, Atomic!Stop, Line, Answer, Live
<1>4. ASSUME NEW c \in Calls, Enqueue(c) PROVE Atomic!Submit(c)
  <2>1. Line' = Append(Line, c)
    BY <1>4, QueuedGoesLast
  <2>2. UNCHANGED <<file, result>> /\ pc[c] = "idle"
    BY <1>4 DEF Enqueue
  <2>3. Answer[c] = "none"
    BY <2>2 DEF StoreInv, Answer, Errors
  <2>4. ~Atomic!InLine(c)
    BY <2>2, LineIsPending
    DEF Atomic!InLine, Line, Pending, Running, Replacing
  <2> QED
    BY <2>1, <2>2, <2>3, <2>4 DEF Atomic!Submit, Line, Answer
<1>5. ASSUME NEW c \in Calls, Step(c) PROVE [Atomic!Next]_(Atomic!vars)
  <2>1. ASSUME NEW r \in Errors, Finish(c, r), pc[c] \in Running,
               UNCHANGED <<file, order>>
        PROVE  Atomic!Next
    BY <2>1, EndingSimulates DEF Atomic!Next
  <2>2. ASSUME NEW s \in Running, Goto(c, s), pc[c] \in Running \cup {"queued"},
               UNCHANGED <<file, order>>
        PROVE  UNCHANGED Atomic!vars
    <3>1. \A d \in Calls : Pending(d)' <=> Pending(d)
      BY <2>2 DEF Goto, Pending, TypeOK
    <3> QED
      BY <2>2, <3>1, InnerStepIsUnseen DEF Goto
  <2>3. CASE Start(c)
    BY <2>3, <2>2 DEF Start, Goto, Running, history
  <2>4. CASE Settle(c)
    <3>1. /\ UNCHANGED <<file, order, result>>
          /\ pc' = [pc EXCEPT ![c] = "settled"] /\ pc[c] = "done"
      BY <2>4 DEF Settle, history
    <3>2. \A d \in Calls : Pending(d)' <=> Pending(d)
      BY <3>1 DEF Pending, TypeOK, Running, Replacing
    <3> QED
      BY <3>1, <3>2, InnerStepIsUnseen
  <2>5. CASE Rename(c)
    <3>1. /\ pc[c] = "rename" /\ file' = Saved(c) /\ Finish(c, "ok")
          /\ UNCHANGED order
      BY <2>5 DEF Rename, history
    <3>2. Line # <<>> /\ Head(Line) = c /\ Line' = Tail(Line)
      BY <3>1, EndedIsFirst DEF Finish, Running, Replacing
    <3>3. raw[c].entries = file.entries
      BY <3>1 DEF CopyInv, Replacing
    <3>4. file'.entries = file.entries \cup {c}
      BY <3>1, <3>3 DEF Saved
    <3>5. \A e \in file.entries : TitleOf[e] # TitleOf[c]
      <4>1. result[c] = "none"
        BY <3>1 DEF StoreInv, Running, Replacing
      <4>2. c \notin file.entries
        BY <4>1 DEF StoreInv
      <4>3. TitlesDiffer(file.entries \cup {c})
        BY <3>1, <3>3 DEF TitleInv, Holding, Replacing
      <4> QED
        BY <4>2, <4>3 DEF TitlesDiffer
    <3>6. Answer' = [Answer EXCEPT ![c] = "ok"]
      BY <3>1 DEF Answer, Finish, TypeOK, Errors
    <3>7. Atomic!Commit(c)
      BY <3>2, <3>4, <3>5, <3>6 DEF Atomic!Commit, Line, Answer
    <3> QED
      BY <3>7 DEF Atomic!Next
  <2>6. CASE \/ ReadVault(c) \/ ReadFails(c) \/ Compare(c) \/ WriteTemp(c)
             \/ AdoptOwner(c) \/ InstallFails(c)
    <3>1. UNCHANGED <<file, order>> /\ pc[c] \in Running
      BY <2>6 DEF ReadVault, ReadFails, Compare, WriteTemp, AdoptOwner,
                  InstallFails, history, Running, Replacing
    <3>2. \/ \E r \in Errors : Finish(c, r)
          \/ \E s \in Running : Goto(c, s)
      BY <2>6 DEF ReadVault, ReadFails, Compare, WriteTemp, AdoptOwner,
                  InstallFails, Errors, Running, Replacing
    <3> QED
      BY <2>1, <2>2, <3>1, <3>2
  <2>7. CASE \/ WriteTempFails(c) \/ ChownFails(c) \/ BeginInPlace(c)
             \/ EndInPlace(c) \/ InPlaceRefused(c) \/ InPlaceFails(c)
    BY <2>7 DEF WriteTempFails, ChownFails, BeginInPlace, EndInPlace,
                InPlaceRefused, InPlaceFails, CopyInv, Replacing
  <2> QED
    BY <1>5, <2>3, <2>4, <2>5, <2>6, <2>7 DEF Step
<1> QED
  BY <1>1, <1>2, <1>3, <1>4, <1>5 DEF Next, Atomic!Next

(* createEntry: for its callers, the queue, the retries, the temp file and the
   crashes amount to a vault to which one call after the other, oldest first,
   adds its entry in a single step or which it leaves alone.  Both assumptions
   are needed: a save between check and replacement is lost, and a write in
   place shows a vault with nothing in it. *)
THEOREM AtomicVaultIsImplemented ==
    ASSUME ~LateEdits, ~InPlaceWrites
    PROVE  Spec => ImplementsAtomicVault
<1>1. Init => CopyInv
  BY DEF Init, CopyInv, Replacing
<1>2. TypeOK /\ OneWriter /\ VersionInv /\ CopyInv /\ [Next]_vars => CopyInv'
  BY NextCopyInv
<1>3. TypeOK /\ QueueInv /\ OneWriter /\ StoreInv /\ TitleInv /\ VersionInv
         /\ CopyInv /\ [Next]_vars => [Atomic!Next]_(Atomic!vars)
  BY NextSimulates
<1> QED
  BY <1>1, <1>2, <1>3, InitSimulates, TypeCorrect, QueueInvariant, TitlesInvariant,
     WritesAreSerial, StoreInvariant, TriesInvariant, PTL
  DEF Spec, ImplementsAtomicVault, Atomic!Spec

=============================================================================
