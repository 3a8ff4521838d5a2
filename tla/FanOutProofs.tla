---------------------------- MODULE FanOutProofs ----------------------------
(***************************************************************************)
(* Theorems about FanOut, for targets of any length, any devices and any   *)
(* number of changes of the vault.                                         *)
(***************************************************************************)
EXTENDS FanOut, FiniteSetTheorems, FunctionTheorems, SequenceTheorems, TLAPS

Credential == [id : Ids, host : Hosts]
Answer     == [id : Ids, success : BOOLEAN, data : Hosts \cup {Absent}]
States     == {"waiting", "data", "error"}

(* The state as the operations leave it. *)
Typed ==
    /\ pc \in {"begin", "resolve", "execute", "returned", "thrown"}
    /\ target \in Targets
    /\ next \in Nat \ {0}
    /\ vault \in [Ids -> Hosts \cup {Absent}]
    /\ held \in [Ids -> SUBSET (Hosts \cup {Absent})]
    /\ resolved \in Seq(Credential)
    /\ failed \in Seq(Ids)
    /\ told \in Seq(States)
    /\ carried \subseteq DOMAIN told

(* Credentials are what the vault held, and data what a device did. *)
Truthful ==
    /\ \A id \in Ids : vault[id] \in held[id]
    /\ \A i \in DOMAIN resolved : resolved[i].host \in held[resolved[i].id]
    /\ \A i \in DOMAIN told : told[i] = "data" => i \in carried

(* The stages of a call. *)
Staged ==
    /\ pc \in {"begin", "resolve"} => told = <<>>
    /\ pc = "begin" => resolved = <<>> /\ failed = <<>> /\ next = 1
    /\ pc \in {"resolve"} => target # All
    /\ pc \in {"execute", "returned"} => Len(told) = Len(resolved)
    /\ pc = "returned" => AllSettled /\ answer = Results \o Failures
    /\ pc # "returned" => answer = <<>>

Inv == Typed /\ Truthful /\ Staged

-----------------------------------------------------------------------------
LEMMA FailuresType ==
    ASSUME failed \in Seq(Ids)
    PROVE  /\ Failures \in Seq(Answer) /\ Len(Failures) = Len(failed)
           /\ \A i \in 1..Len(failed) :
                 Failures[i].id = failed[i] /\ ~Failures[i].success
<1>1. ASSUME NEW i \in 1..Len(failed)
      PROVE  /\ Failure(failed[i]) \in Answer
             /\ Failure(failed[i]).id = failed[i] /\ ~Failure(failed[i]).success
  BY DEF Failure, Answer
<1>2. DOMAIN failed = 1..Len(failed) /\ Len(failed) \in Nat
  OBVIOUS
<1>3. Failures = [i \in 1..Len(failed) |-> Failure(failed[i])]
  BY <1>2 DEF Failures
<1>4. Failures \in [1..Len(failed) -> Answer]
  BY <1>1, <1>3
<1>5. Failures \in Seq(Answer) /\ Len(Failures) = Len(failed)
  BY <1>2, <1>3, <1>4
<1> QED
  BY <1>1, <1>3, <1>5

LEMMA ResultsType ==
    ASSUME told \in Seq(States), resolved \in Seq(Credential),
           Len(told) = Len(resolved)
    PROVE  /\ Results \in Seq(Answer) /\ Len(Results) = Len(told)
           /\ \A i \in 1..Len(told) :
                 /\ Results[i].id = resolved[i].id
                 /\ Results[i].success <=> told[i] = "data"
                 /\ told[i] = "data" => Results[i].data = resolved[i].host
<1>1. ASSUME NEW i \in 1..Len(told)
      PROVE  /\ Result(i, Outcomes[i]) \in Answer
             /\ Result(i, Outcomes[i]).id = resolved[i].id
             /\ Result(i, Outcomes[i]).success <=> told[i] = "data"
             /\ told[i] = "data" => Result(i, Outcomes[i]).data = resolved[i].host
  <2>1. resolved[i] \in Credential
    OBVIOUS
  <2>2. Outcomes[i] = IF told[i] = "data" THEN resolved[i].host ELSE "error"
    BY DEF Outcomes
  <2>3. CASE told[i] = "data"
    BY <2>1, <2>2, <2>3 DEF Result, Answer, Credential
  <2>4. CASE told[i] # "data"
    <3>1. Outcomes[i] \notin Hosts
      BY <2>2, <2>4, FanOutAssumption
    <3> QED
      BY <2>1, <2>4, <3>1 DEF Result, Failure, Answer, Credential
  <2> QED
    BY <2>3, <2>4
<1>2. DOMAIN told = 1..Len(told) /\ Len(told) \in Nat
  OBVIOUS
<1>3. Results = [i \in 1..Len(told) |-> Result(i, Outcomes[i])]
  BY <1>2 DEF Results
<1>4. Results \in [1..Len(told) -> Answer]
  BY <1>1, <1>3
<1>5. Results \in Seq(Answer) /\ Len(Results) = Len(told)
  BY <1>2, <1>3, <1>4
<1> QED
  BY <1>1, <1>3, <1>5

LEMMA ConcatParts ==
    ASSUME NEW S, NEW s \in Seq(S), NEW t \in Seq(S)
    PROVE  /\ s \o t \in Seq(S)
           /\ Len(s \o t) = Len(s) + Len(t)
           /\ \A i \in 1..Len(s) + Len(t) :
                 (s \o t)[i] = IF i <= Len(s) THEN s[i] ELSE t[i - Len(s)]
BY ConcatProperties

LEMMA AnswerParts ==
    ASSUME Inv, pc = "returned"
    PROVE  /\ Len(answer) = Len(resolved) + Len(failed)
           /\ DOMAIN answer = 1..Len(resolved) + Len(failed)
           /\ \A i \in 1..Len(resolved) + Len(failed) :
                 answer[i] = IF i <= Len(resolved) THEN Results[i]
                                                   ELSE Failures[i - Len(resolved)]
<1>1. /\ Results \in Seq(Answer) /\ Len(Results) = Len(resolved)
      /\ Failures \in Seq(Answer) /\ Len(Failures) = Len(failed)
  BY ResultsType, FailuresType DEF Inv, Typed, Staged
<1>2. answer = Results \o Failures
  BY DEF Inv, Staged
<1> HIDE DEF Results, Failures
<1>3. /\ Results \o Failures \in Seq(Answer)
      /\ Len(Results \o Failures) = Len(Results) + Len(Failures)
      /\ \A i \in 1..Len(Results) + Len(Failures) :
            (Results \o Failures)[i] = IF i <= Len(Results) THEN Results[i]
                                         ELSE Failures[i - Len(Results)]
  <2>1. Results \in Seq(Answer) /\ Failures \in Seq(Answer)
    BY <1>1
  <2> QED
    BY <2>1, ConcatParts, Zenon
<1>4. answer \in Seq(Answer) /\ Len(answer) = Len(resolved) + Len(failed)
  BY <1>1, <1>2, <1>3
<1>5. \A i \in 1..Len(resolved) + Len(failed) :
          answer[i] = IF i <= Len(resolved) THEN Results[i]
                                            ELSE Failures[i - Len(resolved)]
  BY <1>1, <1>2, <1>3
<1>6. DOMAIN answer = 1..Len(resolved) + Len(failed)
  BY <1>4
<1> QED
  BY <1>4, <1>5, <1>6

-----------------------------------------------------------------------------
LEMMA InitInv == Init => Inv
<1> SUFFICES ASSUME Init PROVE Inv
  OBVIOUS
<1>1. Typed
  BY DEF Init, Typed
<1>2. Truthful
  BY DEF Init, Truthful
<1>3. Staged
  BY DEF Init, Staged
<1> QED
  BY <1>1, <1>2, <1>3 DEF Inv

(* Credentials handed to the callbacks. *)
LEMMA ExecuteInv ==
    ASSUME Inv, NEW cs \in Seq(Credential), Execute(cs),
           pc \in {"begin", "resolve"},
           \A i \in DOMAIN cs : cs[i].host \in held[cs[i].id],
           UNCHANGED <<target, next, vault, held, failed, carried, answer>>
    PROVE  Inv'
<1>1. told' \in Seq(States) /\ Len(told') = Len(cs)
  <2>1. told' = [i \in 1..Len(cs) |-> "waiting"] /\ Len(cs) \in Nat
    BY DEF Execute
  <2>2. told' \in [1..Len(cs) -> States]
    BY <2>1 DEF States
  <2> QED
    BY <2>1, <2>2
<1>2. carried = {}
  BY DEF Inv, Typed, Staged
<1>3. Typed'
  BY <1>1, <1>2 DEF Inv, Typed, Execute
<1>4. Truthful'
  BY DEF Inv, Truthful, Execute
<1>5. Staged'
  BY <1>1 DEF Inv, Staged, Execute
<1> QED
  BY <1>3, <1>4, <1>5 DEF Inv

LEMMA FunctionIsSeq ==
    ASSUME NEW S, NEW n \in Nat, NEW f \in [1..n -> S]
    PROVE  f \in Seq(S)
OBVIOUS

LEMMA ListAllInv == ASSUME Inv, ListAll PROVE Inv'
<1> DEFINE S == {i \in Ids : vault[i] # Absent}
<1>1. CASE ~readable
  BY <1>1 DEF ListAll, Inv, Typed, Truthful, Staged
<1>2. CASE readable
  <2>1. PICK listed \in SetToSeqs(S) :
           Execute([k \in DOMAIN listed |->
                      [id |-> listed[k], host |-> vault[listed[k]]]])
    BY <1>2 DEF ListAll
  <2> DEFINE cs == [k \in DOMAIN listed |->
                      [id |-> listed[k], host |-> vault[listed[k]]]]
             n  == Cardinality(S)
  <2>2. n \in Nat
    BY FanOutAssumption, FS_Subset, FS_CardinalityType
  <2>3. listed \in [1..n -> S]
    BY DEF SetToSeqs
  <2>4. ASSUME NEW k \in 1..n
        PROVE  /\ [id |-> listed[k], host |-> vault[listed[k]]] \in Credential
               /\ vault[listed[k]] \in held[listed[k]]
    <3>1. listed[k] \in S
      BY <2>3
    <3>2. listed[k] \in Ids /\ vault[listed[k]] # Absent
      BY <3>1
    <3> QED
      BY <3>2 DEF Credential, Inv, Typed, Truthful
  <2>5. cs = [k \in 1..n |-> [id |-> listed[k], host |-> vault[listed[k]]]]
    BY <2>3
  <2>6. cs \in Seq(Credential)
    <3>1. cs \in [1..n -> Credential]
      BY <2>4, <2>5
    <3> HIDE DEF cs, n
    <3> QED
      BY <2>2, <3>1, FunctionIsSeq
  <2>7. \A i \in DOMAIN cs : cs[i].host \in held[cs[i].id]
    BY <2>4, <2>5
  <2> HIDE DEF cs, n
  <2> QED
    BY <2>1, <2>6, <2>7, ExecuteInv DEF ListAll, cs
<1> QED
  BY <1>1, <1>2

LEMMA ResolveInv == ASSUME Inv, Resolve PROVE Inv'
<1>1. target[next] \in Ids
  BY DEF Resolve, Inv, Typed, Staged, Targets
<1> DEFINE id == target[next]
<1>2. CASE Found(id) /\ resolved' = Append(resolved, [id |-> id, host |-> vault[id]])
           /\ UNCHANGED failed
  <2>1. [id |-> id, host |-> vault[id]] \in Credential
    BY <1>1, <1>2 DEF Found, Credential, Inv, Typed
  <2>2. resolved' \in Seq(Credential)
    BY <1>2, <2>1 DEF Inv, Typed
  <2>3. \A i \in DOMAIN resolved' : resolved'[i].host \in held[resolved'[i].id]
    BY <1>1, <1>2, <2>1 DEF Inv, Typed, Truthful
  <2> QED
    BY <1>2, <2>2, <2>3 DEF Resolve, Inv, Typed, Truthful, Staged
<1>3. CASE failed' = Append(failed, id) /\ UNCHANGED resolved
  <2>1. failed' \in Seq(Ids)
    BY <1>1, <1>3 DEF Inv, Typed
  <2> QED
    BY <1>3, <2>1 DEF Resolve, Inv, Typed, Truthful, Staged
<1> QED
  BY <1>2, <1>3 DEF Resolve

LEMMA EndListInv == ASSUME Inv, EndList PROVE Inv'
<1>1. CASE resolved # <<>>
  BY <1>1, ExecuteInv DEF EndList, Inv, Typed, Truthful
<1>2. CASE resolved = <<>>
  <2>1. told = <<>> /\ UNCHANGED <<resolved, told, failed, target, next, vault, held, carried>>
        /\ pc' = "returned" /\ answer' = Failures
    BY <1>2 DEF EndList, Inv, Staged
  <2>2. Typed' /\ Truthful'
    BY <2>1 DEF Inv, Typed, Truthful
  <2>3. Results' = <<>> /\ Failures' = Failures
    BY <2>1 DEF Results, Failures, Failure
  <2>4. Results' \o Failures' = Failures
    BY <2>3, FailuresType, ConcatEmptySeq DEF Inv, Typed
  <2>5. AllSettled'
    BY <2>1 DEF AllSettled
  <2> QED
    BY <1>2, <2>1, <2>2, <2>4, <2>5 DEF Inv, Staged
<1> QED
  BY <1>1, <1>2

LEMMA SettlesInv ==
    ASSUME Inv, NEW i \in DOMAIN told, CallbackSettles(i) PROVE Inv'
<1>1. told[i] = "waiting" /\ pc = "execute"
  BY DEF CallbackSettles, Device!TellData, Device!TellError, Inv, Staged, AllSettled
<1>2. PICK s \in {"data", "error"} :
         told' = [told EXCEPT ![i] = s] /\ (s = "data" => i \in carried)
  BY DEF CallbackSettles, Device!TellData, Device!TellError
<1>3. UNCHANGED <<pc, target, next, vault, held, resolved, failed, answer, carried>>
  BY DEF CallbackSettles, Device!TellData, Device!TellError
<1>4. told' \in Seq(States) /\ Len(told') = Len(told) /\ DOMAIN told' = DOMAIN told
  BY <1>2 DEF Inv, Typed, States
<1>5. Typed'
  BY <1>3, <1>4 DEF Inv, Typed
<1>6. Truthful'
  BY <1>2, <1>3, <1>4 DEF Inv, Truthful
<1>7. Staged'
  BY <1>1, <1>3, <1>4 DEF Inv, Staged
<1> QED
  BY <1>5, <1>6, <1>7 DEF Inv

LEMMA ReturnInv == ASSUME Inv, Return PROVE Inv'
<1>1. answer' = Results \o Failures /\ pc' = "returned" /\ AllSettled
      /\ UNCHANGED <<target, next, vault, resolved, failed, told, carried, held>>
  BY DEF Return
<1>2. Results' = Results /\ Failures' = Failures /\ AllSettled'
  BY <1>1 DEF Results, Result, Outcomes, Failures, Failure, AllSettled
<1> QED
  BY <1>1, <1>2 DEF Inv, Typed, Truthful, Staged, Return

LEMMA OthersInv ==
    ASSUME Inv,
           BeginList \/ EditVault \/ (\E i \in DOMAIN told : DeviceActs(i))
             \/ UNCHANGED vars
    PROVE  Inv'
<1>1. CASE BeginList
  BY <1>1 DEF BeginList, Inv, Typed, Truthful, Staged
<1>2. CASE EditVault
  <2>1. pc \in {"begin", "resolve"}
    BY <1>2 DEF EditVault
  <2>2. Typed'
    BY <1>2 DEF EditVault, Inv, Typed
  <2>3. \A id \in Ids : held[id] \subseteq held'[id] /\ vault'[id] \in held'[id]
    BY <1>2 DEF EditVault, Inv, Typed, Truthful
  <2>4. UNCHANGED <<pc, target, next, resolved, failed, told, carried, answer>>
    BY <1>2 DEF EditVault
  <2>5. \A i \in DOMAIN resolved : resolved[i].id \in Ids
    <3>1. \A i \in DOMAIN resolved : resolved[i] \in Credential
      BY DEF Inv, Typed
    <3> QED
      BY <3>1 DEF Credential
  <2>6. Truthful'
    BY <2>3, <2>4, <2>5 DEF Inv, Truthful
  <2>7. Staged'
    BY <2>1, <2>4 DEF Inv, Staged
  <2> QED
    BY <2>2, <2>6, <2>7 DEF Inv
<1>3. ASSUME NEW i \in DOMAIN told, DeviceActs(i) PROVE Inv'
  <2>1. carried' = carried \cup {i}
        /\ UNCHANGED <<pc, target, next, vault, resolved, failed, told, answer, held>>
    BY <1>3 DEF DeviceActs, Device!CarryOut
  <2>2. Results' = Results /\ Failures' = Failures /\ AllSettled' = AllSettled
    BY <2>1 DEF Results, Result, Outcomes, Failures, Failure, AllSettled
  <2> QED
    BY <2>1, <2>2 DEF Inv, Typed, Truthful, Staged
<1>4. CASE UNCHANGED vars
  <2>1. Results' = Results /\ Failures' = Failures /\ AllSettled' = AllSettled
    BY <1>4 DEF vars, Results, Result, Outcomes, Failures, Failure, AllSettled
  <2> QED
    BY <1>4, <2>1 DEF vars, Inv, Typed, Truthful, Staged
<1> QED
  BY <1>1, <1>2, <1>3, <1>4

LEMMA NextInv == Inv /\ [Next]_vars => Inv'
BY ListAllInv, ResolveInv, EndListInv, SettlesInv, ReturnInv, OthersInv
DEF Next, Step

LEMMA Invariant == Spec => []Inv
BY InitInv, NextInv, PTL DEF Spec

-----------------------------------------------------------------------------
LEMMA DataLemma == Inv => DataFromOwnDevice
<1> SUFFICES ASSUME Inv, NEW k \in DOMAIN answer, answer[k].success
             PROVE  answer[k].data \in held[answer[k].id]
  BY DEF DataFromOwnDevice
<1>1. pc = "returned"
  BY DEF Inv, Staged
<1>2. /\ Len(resolved) \in Nat /\ Len(failed) \in Nat
      /\ DOMAIN resolved = 1..Len(resolved) /\ Len(told) = Len(resolved)
  BY <1>1 DEF Inv, Typed, Staged
<1>3. CASE k <= Len(resolved)
  <2>1. answer[k] = Results[k] /\ k \in 1..Len(told)
    BY <1>1, <1>2, <1>3, AnswerParts
  <2> QED
    BY <1>1, <1>2, <2>1, ResultsType DEF Inv, Typed, Truthful, Staged
<1>4. CASE ~(k <= Len(resolved))
  <2>1. answer[k] = Failures[k - Len(resolved)] /\ k - Len(resolved) \in 1..Len(failed)
    BY <1>1, <1>2, <1>4, AnswerParts
  <2> QED
    BY <2>1, FailuresType DEF Inv, Typed
<1> QED
  BY <1>3, <1>4

(* Data reported for an id came from a host the vault gave for that id during
   the call: fan-out.ts pairs results and credentials by position. *)
THEOREM DataComesFromOwnDevice == Spec => []DataFromOwnDevice
BY Invariant, DataLemma, PTL

LEMMA MatchLemma == Inv => AnswersMatchDevices
<1> SUFFICES ASSUME Inv, pc = "returned", NEW id \in Ids
             PROVE  {k \in DOMAIN answer : answer[k].id = id /\ answer[k].success}
                      = {i \in carried : resolved[i].id = id /\ told[i] = "data"}
  BY DEF AnswersMatchDevices
<1>1. /\ Len(resolved) \in Nat /\ Len(failed) \in Nat /\ Len(told) = Len(resolved)
      /\ DOMAIN told = 1..Len(resolved) /\ carried \subseteq 1..Len(resolved)
      /\ \A i \in 1..Len(resolved) : told[i] = "data" => i \in carried
  BY DEF Inv, Typed, Truthful, Staged
<1>2. ASSUME NEW k \in 1..Len(resolved)
      PROVE  /\ k \in DOMAIN answer /\ answer[k].id = resolved[k].id
             /\ answer[k].success <=> told[k] = "data"
  <2>1. answer[k] = Results[k] /\ k \in DOMAIN answer
    BY <1>1, AnswerParts
  <2> QED
    BY <1>1, <2>1, ResultsType DEF Inv, Typed
<1>3. ASSUME NEW k \in DOMAIN answer, answer[k].success PROVE k \in 1..Len(resolved)
  <2>1. k \in 1..Len(resolved) + Len(failed)
    BY AnswerParts
  <2>2. CASE ~(k <= Len(resolved))
    <3>1. answer[k] = Failures[k - Len(resolved)]
          /\ k - Len(resolved) \in 1..Len(failed)
      BY <1>1, <2>1, <2>2, AnswerParts
    <3> QED
      BY <1>3, <3>1, FailuresType DEF Inv, Typed
  <2> QED
    BY <1>1, <2>1, <2>2
<1> QED
  BY <1>1, <1>2, <1>3

(* A call that has returned reports for each id as many successes as devices
   carried the command out and said so (Promise.allSettled, never Promise.all). *)
THEOREM AnswersMatch == Spec => []AnswersMatchDevices
BY Invariant, MatchLemma, PTL

-----------------------------------------------------------------------------
(* Counting: every id of the list seen so far is in resolved or in failed. *)
Of(id)      == {i \in 1..Len(resolved) : resolved[i].id = id}
Failing(id) == {i \in 1..Len(failed) : failed[i] = id}
Seen(id)    == {i \in 1..next - 1 : target[i] = id}

Counted ==
    target # All =>
        /\ next - 1 <= Len(target)
        /\ pc \in {"execute", "returned"} => next - 1 = Len(target)
        /\ \A id \in Ids :
              Cardinality(Of(id)) + Cardinality(Failing(id))
                = Cardinality(Seen(id))

LEMMA ListTarget ==
    ASSUME Inv, target # All
    PROVE  /\ target \in Seq(Ids) /\ DOMAIN target = 1..Len(target)
           /\ Len(target) \in Nat
<1>1. PICK n \in 0..MaxIds : target \in [1..n -> Ids]
  BY DEF Inv, Typed, Targets
<1>2. n \in Nat
  BY FanOutAssumption
<1> QED
  BY <1>1, <1>2, FunctionIsSeq

LEMMA PartFinite ==
    ASSUME NEW n \in Nat, NEW P \in SUBSET (1..n)
    PROVE  IsFiniteSet(P) /\ Cardinality(P) \in Nat
<1>1. IsFiniteSet(1..n)
  BY FS_Interval
<1> QED
  BY <1>1, FS_Subset, FS_CardinalityType

LEMMA CountedInit == Init => Counted
<1> SUFFICES ASSUME Init, target # All PROVE Counted
  BY DEF Counted
<1>0. Inv
  BY InitInv
<1>1. \A id \in Ids : Of(id) = {} /\ Failing(id) = {} /\ Seen(id) = {}
  BY DEF Init, Of, Failing, Seen
<1>2. next - 1 <= Len(target)
  BY <1>0, ListTarget DEF Init
<1>3. Cardinality({}) = 0
  BY FS_EmptySet
<1>4. pc = "begin"
  BY DEF Init
<1>5. ASSUME NEW x \in Ids
      PROVE  Cardinality(Of(x)) + Cardinality(Failing(x)) = Cardinality(Seen(x))
  <2>1. Cardinality(Of(x)) = 0 /\ Cardinality(Failing(x)) = 0
        /\ Cardinality(Seen(x)) = 0
    BY <1>1, <1>3
  <2> QED
    BY <2>1
<1> QED
  BY <1>2, <1>4, <1>5 DEF Counted

LEMMA CountedResolve ==
    ASSUME Inv, Counted, Resolve PROVE Counted'
<1> USE DEF Resolve
<1>1. /\ target # All /\ target' = target /\ target \in Seq(Ids)
      /\ next \in 1..Len(target) /\ next' = next + 1 /\ pc' = "resolve"
      /\ Len(target) \in Nat
  BY ListTarget DEF Inv, Typed, Staged
<1>2. resolved \in Seq(Credential) /\ failed \in Seq(Ids)
  BY DEF Inv, Typed
<1> SUFFICES ASSUME NEW x \in Ids
             PROVE  Cardinality(Of(x)') + Cardinality(Failing(x)')
                      = Cardinality(Seen(x)')
  BY <1>1 DEF Counted
<1>3. Cardinality(Of(x)) + Cardinality(Failing(x)) = Cardinality(Seen(x))
  BY <1>1 DEF Counted
<1>4. /\ IsFiniteSet(Of(x)) /\ Cardinality(Of(x)) \in Nat
      /\ IsFiniteSet(Failing(x)) /\ Cardinality(Failing(x)) \in Nat
      /\ IsFiniteSet(Seen(x)) /\ Cardinality(Seen(x)) \in Nat
  <2>1. Len(resolved) \in Nat /\ Len(failed) \in Nat /\ next - 1 \in Nat
    BY <1>1, <1>2
  <2>2. /\ Of(x) \in SUBSET (1..Len(resolved))
        /\ Failing(x) \in SUBSET (1..Len(failed))
        /\ Seen(x) \in SUBSET (1..next - 1)
    BY DEF Of, Failing, Seen
  <2> QED
    BY <2>1, <2>2, PartFinite
<1>5. Seen(x)' = IF target[next] = x THEN Seen(x) \cup {next} ELSE Seen(x)
  BY <1>1 DEF Seen
<1>6. next \notin Seen(x)
  BY <1>1 DEF Seen
<1>7. Cardinality(Seen(x)') =
        IF target[next] = x THEN Cardinality(Seen(x)) + 1 ELSE Cardinality(Seen(x))
  BY <1>4, <1>5, <1>6, FS_AddElement
<1>8. CASE resolved' = Append(resolved, [id |-> target[next], host |-> vault[target[next]]])
           /\ UNCHANGED failed
  <2>1. Len(resolved') = Len(resolved) + 1 /\ Len(resolved) \in Nat
        /\ \A i \in 1..Len(resolved) : resolved'[i] = resolved[i]
        /\ resolved'[Len(resolved) + 1].id = target[next]
    BY <1>2, <1>8
  <2>2. Of(x)' = IF target[next] = x THEN Of(x) \cup {Len(resolved) + 1} ELSE Of(x)
    BY <2>1 DEF Of
  <2>3. Len(resolved) + 1 \notin Of(x)
    BY <2>1 DEF Of
  <2>4. Cardinality(Of(x)') =
          IF target[next] = x THEN Cardinality(Of(x)) + 1 ELSE Cardinality(Of(x))
    BY <1>4, <2>2, <2>3, FS_AddElement
  <2>5. Failing(x)' = Failing(x)
    BY <1>8 DEF Failing
  <2> QED
    BY <1>3, <1>4, <1>7, <2>4, <2>5
<1>9. CASE failed' = Append(failed, target[next]) /\ UNCHANGED resolved
  <2>1. Len(failed') = Len(failed) + 1 /\ Len(failed) \in Nat
        /\ \A i \in 1..Len(failed) : failed'[i] = failed[i]
        /\ failed'[Len(failed) + 1] = target[next]
    BY <1>2, <1>9
  <2>2. Failing(x)' =
          IF target[next] = x THEN Failing(x) \cup {Len(failed) + 1} ELSE Failing(x)
    BY <2>1 DEF Failing
  <2>3. Len(failed) + 1 \notin Failing(x)
    BY <2>1 DEF Failing
  <2>4. Cardinality(Failing(x)') =
          IF target[next] = x THEN Cardinality(Failing(x)) + 1
                              ELSE Cardinality(Failing(x))
    BY <1>4, <2>2, <2>3, FS_AddElement
  <2>5. Of(x)' = Of(x)
    BY <1>9 DEF Of
  <2> QED
    BY <1>3, <1>4, <1>7, <2>4, <2>5
<1> QED
  BY <1>8, <1>9

LEMMA CountedNext == Inv /\ Counted /\ [Next]_vars => Counted'
<1> SUFFICES ASSUME Inv, Counted, [Next]_vars PROVE Counted'
  OBVIOUS
<1>1. CASE Resolve
  BY <1>1, CountedResolve
<1>2. CASE EndList
  <2>1. /\ target # All => next \in Nat \ {0} /\ Len(target) \in Nat
        /\ next > Len(target)
        /\ UNCHANGED <<target, next, resolved, failed>>
    BY <1>2, ListTarget DEF EndList, Execute, Inv, Typed
  <2> QED
    BY <2>1 DEF Counted, Of, Failing, Seen
<1>3. CASE ListAll
  BY <1>3 DEF ListAll, Counted
<1>4. CASE UNCHANGED <<target, next, resolved, failed>>
           /\ (pc' \in {"execute", "returned"} => pc \in {"execute", "returned"})
  BY <1>4 DEF Counted, Of, Failing, Seen
<1>5. CASE BeginList
  BY <1>4, <1>5 DEF BeginList
<1>6. CASE Return
  BY <1>4, <1>6 DEF Return
<1>7. CASE EditVault
  BY <1>4, <1>7 DEF EditVault
<1>8. ASSUME NEW i \in DOMAIN told, CallbackSettles(i) \/ DeviceActs(i) PROVE Counted'
  <2>1. UNCHANGED <<pc, target, next, resolved, failed>>
    BY <1>8 DEF CallbackSettles, DeviceActs
  <2> QED
    BY <1>4, <2>1
<1>9. CASE UNCHANGED vars
  BY <1>4, <1>9 DEF vars
<1> QED
  BY <1>1, <1>2, <1>3, <1>5, <1>6, <1>7, <1>8, <1>9 DEF Next, Step

LEMMA AnsweredLemma == Inv /\ Counted => EveryIdAnswered
<1> SUFFICES ASSUME Inv, Counted, pc = "returned", target # All, NEW x \in Ids
             PROVE  Cardinality({i \in DOMAIN answer : answer[i].id = x})
                      = Cardinality({i \in DOMAIN target : target[i] = x})
  BY DEF EveryIdAnswered, Answered, Named
<1> DEFINE m == Len(resolved)
           Shifted == {m + j : j \in Failing(x)}
           shift == [j \in Failing(x) |-> m + j]
<1>1. /\ m \in Nat /\ Len(failed) \in Nat
      /\ Of(x) \in SUBSET (1..m) /\ Failing(x) \in SUBSET (1..Len(failed))
  BY DEF Inv, Typed, Of, Failing
<1>2. /\ IsFiniteSet(Of(x)) /\ Cardinality(Of(x)) \in Nat
      /\ IsFiniteSet(Failing(x)) /\ Cardinality(Failing(x)) \in Nat
  BY <1>1, PartFinite
<1>3. IsFiniteSet(Shifted) /\ Cardinality(Shifted) = Cardinality(Failing(x))
  <2>1. shift \in [Failing(x) -> Shifted]
    OBVIOUS
  <2>2. \A a, b \in Failing(x) : shift[a] = shift[b] => a = b
    BY <1>1
  <2>3. \A t \in Shifted : \E j \in Failing(x) : shift[j] = t
    OBVIOUS
  <2>4. shift \in Bijection(Failing(x), Shifted)
    BY <2>1, <2>2, <2>3, Fun_IsBij
  <2>5. ExistsBijection(Failing(x), Shifted)
    BY <2>4 DEF ExistsBijection
  <2> QED
    BY <1>2, <2>5, FS_Bijection
<1>4. {i \in DOMAIN answer : answer[i].id = x} = Of(x) \cup Shifted
  <2>1. ASSUME NEW k \in 1..m PROVE k \in DOMAIN answer /\ answer[k].id = resolved[k].id
    <3>1. answer[k] = Results[k] /\ k \in DOMAIN answer
      BY <1>1, AnswerParts
    <3> QED
      BY <1>1, <3>1, ResultsType DEF Inv, Typed, Staged
  <2>2. ASSUME NEW j \in 1..Len(failed)
        PROVE  m + j \in DOMAIN answer /\ answer[m + j].id = failed[j]
    <3>1. answer[m + j] = Failures[j] /\ m + j \in DOMAIN answer
      <4>1. m + j \in 1..m + Len(failed) /\ ~(m + j <= m) /\ m + j - m = j
        BY <1>1
      <4> QED
        BY <4>1, AnswerParts
    <3> QED
      BY <3>1, FailuresType DEF Inv, Typed
  <2>3. ASSUME NEW k \in DOMAIN answer
        PROVE  k \in 1..m \/ \E j \in 1..Len(failed) : k = m + j
    <3>1. k \in 1..m + Len(failed)
      BY AnswerParts
    <3>2. CASE ~(k <= m)
      <4>1. k - m \in 1..Len(failed) /\ k = m + (k - m)
        BY <1>1, <3>1, <3>2
      <4> QED
        BY <4>1
    <3> QED
      BY <1>1, <3>1, <3>2
  <2> QED
    BY <2>1, <2>2, <2>3 DEF Of, Failing
<1>5. Of(x) \cap Shifted = {}
  BY <1>1
<1>6. Cardinality(Of(x) \cup Shifted) = Cardinality(Of(x)) + Cardinality(Failing(x))
  <2>1. Cardinality(Of(x) \cup Shifted)
          = Cardinality(Of(x)) + Cardinality(Shifted) - Cardinality(Of(x) \cap Shifted)
    BY <1>2, <1>3, FS_Union
  <2>2. Cardinality(Of(x) \cap Shifted) = 0
    BY <1>5, FS_EmptySet
  <2> HIDE DEF Shifted
  <2> QED
    BY <1>2, <1>3, <2>1, <2>2
<1>7. Seen(x) = {i \in DOMAIN target : target[i] = x}
  BY ListTarget DEF Counted, Seen
<1>8. Cardinality(Of(x)) + Cardinality(Failing(x)) = Cardinality(Seen(x))
  BY DEF Counted
<1> QED
  BY <1>4, <1>6, <1>7, <1>8

(* A list target is answered id by id: as many answers for an id as the caller
   named it, also when ids are unknown, repeated, or vanish meanwhile. *)
THEOREM EveryIdIsAnswered == Spec => []EveryIdAnswered
<1>1. Spec => []Counted
  <2>1. Init => Counted
    BY CountedInit
  <2>2. Inv /\ Counted /\ [Next]_vars => Counted'
    BY CountedNext
  <2> QED
    BY <2>1, <2>2, Invariant, PTL DEF Spec
<1> QED
  BY <1>1, Invariant, AnsweredLemma, PTL

-----------------------------------------------------------------------------
(* An unreadable vault.                                                    *)

(* What a call makes of a vault it could not read all along: an error of its
   own for the target "all", a failure for each id of a list, and never data. *)
NoDataUnread ==
    pc = "returned" /\ ~readable /\ edits = 0 =>
        /\ target # All
        /\ \A k \in DOMAIN answer : ~answer[k].success

Unread ==
    /\ edits \in Nat
    /\ edits = 0 /\ ~readable =>
          /\ resolved = <<>>
          /\ target = All => pc \in {"begin", "thrown"}

(* fan-out.ts: the error of an unreadable vault reaches the caller of a call
   for all devices; a call for a list reports it as failures of its devices.
   Either way no device gets a command. *)
THEOREM UnreadVaultGivesNoData == Spec => []NoDataUnread
<1>1. Init => Unread
  BY DEF Init, Unread
<1>2. Inv /\ Unread /\ [Next]_vars => Unread'
  <2> SUFFICES ASSUME Inv, Unread, [Next]_vars PROVE Unread'
    OBVIOUS
  <2>1. CASE ListAll
    BY <2>1 DEF ListAll, Unread
  <2>2. CASE BeginList
    BY <2>2 DEF BeginList, Unread
  <2>3. CASE Resolve
    BY <2>3 DEF Resolve, Found, Unread, Inv, Staged
  <2>4. CASE EndList
    BY <2>4 DEF EndList, Execute, Unread, Inv, Staged
  <2>5. CASE Return
    BY <2>5 DEF Return, Unread
  <2>6. CASE EditVault
    BY <2>6 DEF EditVault, Unread
  <2>7. ASSUME NEW i \in DOMAIN told, CallbackSettles(i) \/ DeviceActs(i)
        PROVE  Unread'
    BY <2>7 DEF CallbackSettles, DeviceActs, Unread
  <2>8. CASE UNCHANGED vars
    BY <2>8 DEF vars, Unread
  <2> QED
    BY <2>1, <2>2, <2>3, <2>4, <2>5, <2>6, <2>7, <2>8 DEF Next, Step
<1>3. Inv /\ Unread => NoDataUnread
  <2> SUFFICES ASSUME Inv, Unread, pc = "returned", ~readable, edits = 0
               PROVE  target # All /\ \A k \in DOMAIN answer : ~answer[k].success
    BY DEF NoDataUnread
  <2>1. resolved = <<>> /\ target # All
    BY DEF Unread
  <2>2. Len(resolved) = 0 /\ Len(failed) \in Nat
    BY <2>1 DEF Inv, Typed
  <2>3. ASSUME NEW k \in DOMAIN answer PROVE ~answer[k].success
    <3>1. k \in 1..Len(failed) /\ answer[k] = Failures[k - 0]
      BY <2>2, AnswerParts
    <3>2. k - 0 = k /\ failed \in Seq(Ids)
      BY <3>1 DEF Inv, Typed
    <3> QED
      BY <3>1, <3>2, FailuresType
  <2> QED
    BY <2>1, <2>3
<1> QED
  BY <1>1, <1>2, <1>3, Invariant, PTL DEF Spec

=============================================================================
