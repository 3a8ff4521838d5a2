----------------------------- MODULE SetupProofs -----------------------------
(***************************************************************************)
(* Theorems about SetupDevice, for any number of runs, devices and         *)
(* identities, with and without relocation, crashes and late requests.     *)
(***************************************************************************)
EXTENDS SetupDevice, TLAPS

-----------------------------------------------------------------------------
(* Types.  Without relocation no run is ever at a stage of step 4, and no   *)
(* request to move the port is on its way.                                  *)

PortInv ==
    ~Relocate => \A r \in Runs : /\ pc[r] \notin {"services", "port", "portVerify"}
                                 /\ <<r, "port">> \notin late

LEMMA EffectTypeOK ==
    ASSUME TypeOK, NEW r \in Runs, NEW stage \in Changing, Effect(r, stage),
           stage = "port" => Relocate
    PROVE  /\ password' \in [Devices -> Secrets]
           /\ port' \in [Devices -> {"initial", Target}]
           /\ name' \in [Devices -> Identities \cup {Empty}]
BY SetupAssumption DEF Effect, TypeOK, Secrets, Target

LEMMA NextTypeOK == TypeOK /\ PortInv /\ [Next]_vars => TypeOK' /\ PortInv'
<1> SUFFICES ASSUME TypeOK, PortInv, [Next]_vars PROVE TypeOK' /\ PortInv'
  OBVIOUS
<1>1. CASE UNCHANGED vars
  BY <1>1 DEF TypeOK, PortInv, vars
<1>2. CASE ServeLate
  <2>1. PICK q \in late : Effect(q[1], q[2]) /\ late' = late \ {q}
                          /\ UNCHANGED <<pc, result, vault, log, erased>>
    BY <1>2 DEF ServeLate, records
  <2>2. q[1] \in Runs /\ q[2] \in Changing /\ q = <<q[1], q[2]>>
    BY <2>1 DEF TypeOK
  <2>3. q[2] = "port" => Relocate
    BY <2>1, <2>2 DEF PortInv
  <2> QED
    BY <2>1, <2>2, <2>3, EffectTypeOK DEF TypeOK, PortInv
<1>3. CASE Crash
  <2>1. /\ pc' \in [Runs -> Stages \cup {"idle", "finished"}]
        /\ result' \in [Runs -> Answers]
        /\ \A r \in Runs : pc'[r] \in {pc[r], "finished"}
    BY <1>3 DEF Crash, TypeOK, Answers
  <2>2. PICK waiting \in SUBSET {r \in UnderWay : pc[r] \in Changing} :
             late' = late \cup {<<r, pc[r]>> : r \in waiting}
    BY <1>3 DEF Crash
  <2>3. late' \subseteq Runs \X Changing
    BY <2>2 DEF TypeOK, UnderWay
  <2>4. PortInv'
    BY <2>1, <2>2 DEF PortInv
  <2> QED
    BY <1>3, <2>1, <2>3, <2>4 DEF Crash, TypeOK, device, records
<1>4. ASSUME NEW r \in Runs, Call(r) \/ Step(r) PROVE TypeOK' /\ PortInv'
  <2>1. /\ vault' \in [Identities -> Secrets]
        /\ log' \subseteq Runs
        /\ erased' \subseteq Runs
    <3>1. CASE StoreCredentials(r)
      <4>1. /\ \E copy \in [Identities -> Secrets] :
                  vault' = [copy EXCEPT ![IdentityOf[r]] = r]
            /\ UNCHANGED <<log, erased>>
        BY <3>1 DEF StoreCredentials, Copies
      <4> QED
        BY <4>1 DEF TypeOK, Secrets
    <3>2. CASE RollbackFails(r)
      BY <3>2 DEF RollbackFails, TypeOK
    <3>3. CASE UNCHANGED records
      BY <3>3 DEF records, TypeOK
    <3> QED
      BY <1>4, <3>1, <3>2, <3>3
      DEF Call, Step, Connect, SetIdentity, FindService, MovePort, VerifyPort,
          FindAdmin, SetPassword, StoreFails, Rollback, Verify
  <2>2. \/ Unasked
        \/ \E stage \in Changing : pc[r] = stage /\ (Served(r, stage) \/ GivenUp(r, stage))
    BY <1>4
    DEF Call, Step, Connect, SetIdentity, FindService, MovePort,
        VerifyPort, FindAdmin, SetPassword, StoreCredentials, StoreFails,
        Rollback, RollbackFails, Verify, Changing
  <2>3. pc[r] = "port" => Relocate
    BY DEF PortInv
  <2>4. /\ password' \in [Devices -> Secrets]
        /\ port' \in [Devices -> {"initial", Target}]
        /\ name' \in [Devices -> Identities \cup {Empty}]
        /\ late' \subseteq Runs \X Changing
        /\ late' \subseteq late \cup {<<r, pc[r]>>}
    <3>1. CASE Unasked
      BY <3>1 DEF Unasked, TypeOK, device
    <3>2. ASSUME NEW stage \in Changing, pc[r] = stage, Served(r, stage)
          PROVE  <2>4
      BY <3>2, <2>3, EffectTypeOK DEF Served, TypeOK
    <3>3. ASSUME NEW stage \in Changing, pc[r] = stage, GivenUp(r, stage)
          PROVE  <2>4
      BY <3>3 DEF GivenUp, TypeOK, device
    <3> QED
      BY <2>2, <3>1, <3>2, <3>3
  <2>5. \E stage \in Stages \cup {"finished"} :
            /\ pc' = [pc EXCEPT ![r] = stage]
            /\ stage \in {"services", "port", "portVerify"} => Relocate
    BY <1>4
    DEF Call, Step, Connect, SetIdentity, FindService, MovePort,
        VerifyPort, FindAdmin, SetPassword, StoreCredentials, StoreFails,
        Rollback, RollbackFails, Verify, Goto, Answer, AfterIdentity, Stages,
        PortInv
  <2>6. result' \in [Runs -> Answers]
    <3>1. \/ UNCHANGED result
          \/ \E a \in Answers : result' = [result EXCEPT ![r] = a]
      BY <1>4
      DEF Call, Step, Connect, SetIdentity, FindService, MovePort,
          VerifyPort, FindAdmin, SetPassword, StoreCredentials, StoreFails,
          Rollback, RollbackFails, Verify, Goto, Answer, Answers
    <3> QED
      BY <3>1 DEF TypeOK
  <2>7. TypeOK'
    BY <2>1, <2>4, <2>5, <2>6 DEF TypeOK
  <2>8. PortInv'
    BY <2>3, <2>4, <2>5 DEF PortInv, TypeOK
  <2> QED
    BY <2>7, <2>8
<1>5. CASE OthersErase
  BY <1>5 DEF OthersErase, TypeOK, PortInv, device, Secrets
<1> QED
  BY <1>1, <1>2, <1>3, <1>4, <1>5 DEF Next

(* Every reachable state has the declared shape; in particular, when no
   setup port is configured, no device is ever moved off port 80. *)
THEOREM TypeCorrect == Spec => []TypeOK
<1>1. Init => TypeOK /\ PortInv
  BY SetupAssumption DEF Init, TypeOK, PortInv, Answers, Secrets, Target, Stages
<1>2. TypeOK /\ PortInv /\ [Next]_vars => TypeOK' /\ PortInv'
  BY NextTypeOK
<1> QED
  BY <1>1, <1>2, PTL DEF Spec

-----------------------------------------------------------------------------
(* Passwords.  A run past step 5 owns its device's password; the vault only *)
(* holds, and only ever held, passwords of runs at step 7 or at an end, for *)
(* their own identity and with their device set to it; and a roll-back      *)
(* still on its way is one whose run ended without storing anything.        *)

(* The password of r is in the vault or was until others erased it. *)
Recorded(r) == vault[IdentityOf[r]] = r \/ r \in erased

PasswordInv ==
    /\ \A r \in Runs : pc[r] \in {"keepass", "rollback", "verify"}
                            => password[DeviceOf[r]] = r
    /\ \A r \in Runs : pc[r] = "verify" => Recorded(r)
    /\ \A i \in Identities : vault[i] # Empty => IdentityOf[vault[i]] = i
    /\ \A r \in Runs : Recorded(r) =>
          /\ password[DeviceOf[r]] = r
          /\ pc[r] \in {"verify", "finished"}
    /\ \A r \in Runs : Finished(r, "ok") => Recorded(r)
    /\ \A r \in Runs : <<r, "rollback">> \in late =>
          pc[r] = "finished" /\ ~Recorded(r)

(* A device that serves the setting of a password was passwordless before,
   and one that serves a roll-back had the password of that run. *)
LEMMA EffectOnPasswords ==
    ASSUME TypeOK, NEW r \in Runs, NEW stage \in Changing, Effect(r, stage)
    PROVE  \/ UNCHANGED password
           \/ /\ stage = "password"
              /\ password[DeviceOf[r]] = Empty
              /\ password' = [password EXCEPT ![DeviceOf[r]] = r]
           \/ /\ stage = "rollback"
              /\ password[DeviceOf[r]] = r
              /\ password' = [password EXCEPT ![DeviceOf[r]] = Empty]
BY DEF Effect, Serves

(* A store adds one run to those recorded; nothing else does, and nothing
   takes one away. *)
LEMMA StoreRecords ==
    ASSUME TypeOK, PasswordInv, NEW r \in Runs, StoreCredentials(r)
    PROVE  /\ \A q \in Runs : Recorded(q)' <=> q = r \/ Recorded(q)
           /\ \A i \in Identities : vault'[i] # Empty => IdentityOf[vault'[i]] = i
<1> USE SetupAssumption
<1>1. PICK copy \in Copies :
          copy[IdentityOf[r]] = Empty /\ vault' = [copy EXCEPT ![IdentityOf[r]] = r]
  BY DEF StoreCredentials
<1>2. /\ copy \in [Identities -> Secrets]
      /\ \A i \in Identities : copy[i] # vault[i] =>
            vault[i] = Empty /\ copy[i] \in erased /\ IdentityOf[copy[i]] = i
  BY <1>1 DEF Copies
<1>3. /\ erased' = erased /\ \A q \in Runs : IdentityOf[q] \in Identities /\ q # Empty
  BY DEF StoreCredentials
<1>4. \A i \in Identities :
          vault'[i] = IF i = IdentityOf[r] THEN r ELSE copy[i]
  BY <1>1, <1>2
<1>5. vault[IdentityOf[r]] = Empty
  BY <1>1, <1>2, <1>3 DEF TypeOK
<1>6. ASSUME NEW q \in Runs PROVE Recorded(q)' <=> q = r \/ Recorded(q)
  BY <1>2, <1>3, <1>4, <1>5 DEF Recorded
<1>7. ASSUME NEW i \in Identities, vault'[i] # Empty PROVE IdentityOf[vault'[i]] = i
  BY <1>2, <1>4, <1>7 DEF PasswordInv
<1> QED
  BY <1>6, <1>7

LEMMA EraseKeepsRecorded ==
    ASSUME TypeOK, PasswordInv, OthersErase
    PROVE  \A r \in Runs : Recorded(r)' <=> Recorded(r)
<1> USE SetupAssumption
<1>1. PICK i \in Identities :
          /\ vault[i] # Empty
          /\ vault' = [vault EXCEPT ![i] = Empty]
          /\ erased' = erased \cup {vault[i]}
  BY DEF OthersErase
<1>2. IdentityOf[vault[i]] = i
  BY <1>1 DEF PasswordInv
<1>3. \A j \in Identities : vault'[j] = IF j = i THEN Empty ELSE vault[j]
  BY <1>1 DEF TypeOK
<1>4. ASSUME NEW r \in Runs PROVE Recorded(r)' <=> Recorded(r)
  <2>1. IdentityOf[r] \in Identities /\ r # Empty
    OBVIOUS
  <2> QED
    BY <1>1, <1>2, <1>3, <2>1 DEF Recorded
<1> QED
  BY <1>4

LEMMA NextPasswordInv ==
    TypeOK /\ PasswordInv /\ [Next]_vars => PasswordInv'
<1> SUFFICES ASSUME TypeOK, PasswordInv, [Next]_vars PROVE PasswordInv'
  OBVIOUS
<1> USE SetupAssumption
<1>1. CASE UNCHANGED vars
  BY <1>1 DEF PasswordInv, vars, Finished, Recorded
<1>2. CASE ServeLate
  <2>1. PICK q \in late : Effect(q[1], q[2]) /\ late' = late \ {q}
                          /\ UNCHANGED <<pc, result, vault, log, erased>>
    BY <1>2 DEF ServeLate, records
  <2>2. q[1] \in Runs /\ q[2] \in Changing /\ q = <<q[1], q[2]>>
    BY <2>1 DEF TypeOK
  <2>0. \A r \in Runs : Recorded(r)' <=> Recorded(r)
    BY <2>1 DEF Recorded
  <2>3. CASE UNCHANGED password
    BY <2>0, <2>1, <2>3 DEF PasswordInv, Finished
  <2>4. CASE /\ password[DeviceOf[q[1]]] = Empty
             /\ password' = [password EXCEPT ![DeviceOf[q[1]]] = q[1]]
    <3>1. \A r \in Runs : password[DeviceOf[r]] = r => password'[DeviceOf[r]] = r
      BY <2>2, <2>4 DEF TypeOK
    <3> QED
      BY <2>0, <2>1, <3>1 DEF PasswordInv, Finished
  <2>5. CASE /\ q[2] = "rollback" /\ password[DeviceOf[q[1]]] = q[1]
             /\ password' = [password EXCEPT ![DeviceOf[q[1]]] = Empty]
    <3>1. pc[q[1]] = "finished" /\ ~Recorded(q[1])
      BY <2>1, <2>2, <2>5 DEF PasswordInv
    <3>2. \A r \in Runs : r # q[1] /\ password[DeviceOf[r]] = r
                               => password'[DeviceOf[r]] = r
      BY <2>2, <2>5 DEF TypeOK
    <3> QED
      BY <2>0, <2>1, <3>1, <3>2 DEF PasswordInv, Finished
  <2> QED
    BY <2>1, <2>2, <2>3, <2>4, <2>5, EffectOnPasswords
<1>3. CASE Crash
  <2>0. /\ pc' = [r \in Runs |-> IF r \in UnderWay THEN "finished" ELSE pc[r]]
        /\ result' = [r \in Runs |->
                        IF r \in UnderWay
                        THEN [stage |-> "aborted", recoverable |-> FALSE]
                        ELSE result[r]]
        /\ UNCHANGED <<password, vault, erased>>
    BY <1>3 DEF Crash, device, records
  <2>1. \A r \in Runs : /\ pc'[r] \notin {"keepass", "rollback", "verify"}
                        /\ pc[r] \in Stages \cup {"finished"} =>
                              pc'[r] = "finished"
    BY <2>0 DEF UnderWay, Stages, TypeOK
  <2>4. \A r \in Runs : Finished(r, "ok")' => Finished(r, "ok")
    BY <2>0 DEF Finished
  <2>5. \A r \in Runs : Recorded(r)' <=> Recorded(r)
    BY <2>0 DEF Recorded
  <2>2. PICK waiting \in SUBSET {r \in UnderWay : pc[r] \in Changing} :
             late' = late \cup {<<r, pc[r]>> : r \in waiting}
    BY <1>3 DEF Crash
  <2>3. ASSUME NEW r \in Runs, <<r, "rollback">> \in late'
        PROVE  pc'[r] = "finished" /\ ~Recorded(r)
    <3>1. <<r, "rollback">> \in late \/ pc[r] = "rollback"
      BY <2>2, <2>3
    <3>2. CASE <<r, "rollback">> \in late
      BY <2>0, <2>1, <3>2 DEF PasswordInv
    <3>3. CASE pc[r] = "rollback"
      BY <2>1, <3>3 DEF Stages, PasswordInv
    <3> QED
      BY <3>1, <3>2, <3>3
  <2> QED
    <3>1. \A r \in Runs : Recorded(r) => pc'[r] = "finished"
      BY <2>1 DEF PasswordInv, Stages
    <3> QED
      BY <2>0, <2>1, <2>3, <2>4, <2>5, <3>1 DEF PasswordInv
<1>4. CASE OthersErase
  <2>1. \A r \in Runs : Recorded(r)' <=> Recorded(r)
    BY <1>4, EraseKeepsRecorded
  <2>2. /\ UNCHANGED <<pc, result, password, late>>
        /\ \A i \in Identities : vault'[i] # Empty => vault'[i] = vault[i]
    BY <1>4 DEF OthersErase, device, TypeOK
  <2> QED
    BY <2>1, <2>2 DEF PasswordInv, Finished
<1>5. ASSUME NEW r \in Runs, Call(r) PROVE PasswordInv'
  <2>1. /\ pc[r] = "idle" /\ pc' = [pc EXCEPT ![r] = "connect"]
        /\ UNCHANGED <<result, password, late, vault, erased>>
    BY <1>5 DEF Call, Goto, Unasked, device, records
  <2> QED
    BY <2>1 DEF PasswordInv, TypeOK, Finished, Recorded
<1>6. ASSUME NEW r \in Runs, Step(r) PROVE PasswordInv'
  <2> USE DEF PasswordInv, TypeOK, Secrets, Finished, Goto, Answer
  <2>0. UNCHANGED <<vault, erased>> =>
            \A q \in Runs : Recorded(q)' <=> Recorded(q)
    BY DEF Recorded
  <2>1. CASE Connect(r) \/ FindService(r) \/ VerifyPort(r) \/ FindAdmin(r)
    BY <2>0, <2>1
    DEF Connect, FindService, VerifyPort, FindAdmin, Unasked, device, records
  <2>2. CASE SetIdentity(r)
    BY <2>0, <2>2
    DEF SetIdentity, Served, Effect, GivenUp, device, AfterIdentity, records
  <2>3. CASE MovePort(r)
    BY <2>0, <2>3 DEF MovePort, Served, Effect, GivenUp, device, records
  <2>4. CASE SetPassword(r)
    BY <2>0, <2>4 DEF SetPassword, Served, Effect, GivenUp, device, Serves, records
  <2>5. CASE StoreCredentials(r)
    <3>1. /\ pc[r] = "keepass" /\ pc' = [pc EXCEPT ![r] = "verify"]
          /\ UNCHANGED <<result, password, late>>
      BY <2>5 DEF StoreCredentials, Unasked, device
    <3>2. \A q \in Runs : <<q, "rollback">> \in late => q # r
      BY <3>1
    <3>3. /\ \A q \in Runs : Recorded(q)' <=> q = r \/ Recorded(q)
          /\ \A i \in Identities : vault'[i] # Empty => IdentityOf[vault'[i]] = i
      BY <2>5, StoreRecords
    <3> QED
      BY <3>1, <3>2, <3>3
  <2>6. CASE StoreFails(r)
    BY <2>0, <2>6 DEF StoreFails, Unasked, device, records
  <2>7. CASE Rollback(r)
    BY <2>0, <2>7 DEF Rollback, Served, Effect, Serves, records
  <2>8. CASE RollbackFails(r)
    BY <2>0, <2>8 DEF RollbackFails, GivenUp, device
  <2>9. CASE Verify(r)
    BY <2>0, <2>9 DEF Verify, Unasked, device, records
  <2> QED
    BY <1>6, <2>1, <2>2, <2>3, <2>4, <2>5, <2>6, <2>7, <2>8, <2>9 DEF Step
<1> QED
  BY <1>1, <1>2, <1>3, <1>4, <1>5, <1>6 DEF Next

LEMMA PasswordInvariant == Spec => []PasswordInv
<1>1. Init => PasswordInv
  BY SetupAssumption DEF Init, PasswordInv, Finished, Recorded
<1>2. TypeOK /\ PasswordInv /\ [Next]_vars => PasswordInv'
  BY NextPasswordInv
<1> QED
  BY <1>1, <1>2, TypeCorrect, PTL DEF Spec

(* setup.ts, steps 6 and 7: whatever fails, is repeated or arrives late, a
   password in the vault opens its device. *)
THEOREM VaultNeverMisleads == Spec => []StoredPasswordsWork
<1>1. TypeOK /\ PasswordInv => StoredPasswordsWork
  BY DEF TypeOK, Secrets, PasswordInv, Recorded, StoredPasswordsWork
<1> QED
  BY <1>1, TypeCorrect, PasswordInvariant, PTL

(* setup.ts: a reported success stays true; no other run, crash or late
   request changes the password of that device or its entry, and only others
   may erase the entry. *)
THEOREM SuccessLasts == Spec => []SuccessIsLasting
<1>1. TypeOK /\ PasswordInv => SuccessIsLasting
  BY SetupAssumption DEF PasswordInv, Recorded, SuccessIsLasting, TypeOK
<1> QED
  BY <1>1, PasswordInvariant, TypeCorrect, PTL

-----------------------------------------------------------------------------
(* No orphans.  Whoever's password a device has is past step 5 on that very *)
(* device, has stored or logged it, or ended without hearing of step 5; and *)
(* a request to set a password that comes late is from a run of that kind.  *)

LogInv ==
    /\ \A d \in Devices : password[d] # Empty => DeviceOf[password[d]] = d
    /\ \A d \in Devices :
          \/ password[d] = Empty
          \/ pc[password[d]] \in {"keepass", "rollback", "verify"}
          \/ Recorded(password[d])
          \/ password[d] \in log
          \/ /\ pc[password[d]] = "finished"
             /\ result[password[d]].stage \in {"aborted", "password"}
    /\ \A r \in Runs : <<r, "password">> \in late =>
          /\ pc[r] = "finished"
          /\ result[r].stage \in {"aborted", "password"}

LEMMA NextLogInv ==
    TypeOK /\ PasswordInv /\ LogInv /\ [Next]_vars => LogInv'
<1> SUFFICES ASSUME TypeOK, PasswordInv, LogInv, [Next]_vars PROVE LogInv'
  OBVIOUS
<1> USE SetupAssumption
<1>1. CASE UNCHANGED vars
  BY <1>1 DEF LogInv, vars, Recorded
<1>2. CASE ServeLate
  <2>1. PICK q \in late : Effect(q[1], q[2]) /\ late' = late \ {q}
                          /\ UNCHANGED <<pc, result, vault, log, erased>>
    BY <1>2 DEF ServeLate, records
  <2>2. q[1] \in Runs /\ q[2] \in Changing /\ q = <<q[1], q[2]>>
    BY <2>1 DEF TypeOK
  <2>0. \A r \in Runs : Recorded(r)' <=> Recorded(r)
    BY <2>1 DEF Recorded
  <2>3. CASE UNCHANGED password
    BY <2>0, <2>1, <2>3 DEF LogInv, TypeOK, Secrets
  <2>4. CASE /\ q[2] = "password" /\ password[DeviceOf[q[1]]] = Empty
             /\ password' = [password EXCEPT ![DeviceOf[q[1]]] = q[1]]
    <3>1. pc[q[1]] = "finished" /\ result[q[1]].stage \in {"aborted", "password"}
      BY <2>1, <2>2, <2>4 DEF LogInv
    <3> QED
      BY <2>0, <2>1, <2>2, <2>4, <3>1 DEF LogInv, TypeOK, Secrets
  <2>5. CASE password' = [password EXCEPT ![DeviceOf[q[1]]] = Empty]
    BY <2>0, <2>1, <2>2, <2>5 DEF LogInv, TypeOK, Secrets
  <2> QED
    BY <2>1, <2>2, <2>3, <2>4, <2>5, EffectOnPasswords
<1>3. CASE Crash
  <2>0. /\ pc' = [r \in Runs |-> IF r \in UnderWay THEN "finished" ELSE pc[r]]
        /\ result' = [r \in Runs |->
                        IF r \in UnderWay
                        THEN [stage |-> "aborted", recoverable |-> FALSE]
                        ELSE result[r]]
        /\ UNCHANGED <<password, vault, log, erased>>
    BY <1>3 DEF Crash, device, records
  <2>1. \A r \in Runs :
            pc[r] \in Stages => pc'[r] = "finished" /\ result'[r].stage = "aborted"
    BY <2>0 DEF UnderWay
  <2>2. \A r \in Runs :
            pc[r] = "finished" => pc'[r] = "finished" /\ result'[r] = result[r]
    BY <2>0 DEF UnderWay, Stages
  <2>3. PICK waiting \in SUBSET {r \in UnderWay : pc[r] \in Changing} :
             late' = late \cup {<<r, pc[r]>> : r \in waiting}
    BY <1>3 DEF Crash
  <2>4. ASSUME NEW r \in Runs, <<r, "password">> \in late'
        PROVE  pc'[r] = "finished" /\ result'[r].stage \in {"aborted", "password"}
    <3>1. <<r, "password">> \in late \/ pc[r] = "password"
      BY <2>3, <2>4
    <3>2. CASE <<r, "password">> \in late
      BY <2>2, <3>2 DEF LogInv
    <3>3. CASE pc[r] = "password"
      BY <2>1, <3>3 DEF Stages
    <3> QED
      BY <3>1, <3>2, <3>3
  <2>5. ASSUME NEW d \in Devices, password[d] # Empty
        PROVE  \/ Recorded(password[d])'
               \/ password[d] \in log
               \/ /\ pc'[password[d]] = "finished"
                  /\ result'[password[d]].stage \in {"aborted", "password"}
    <3>1. password[d] \in Runs
      BY <2>5 DEF TypeOK, Secrets
    <3> QED
      BY <3>1, <2>0, <2>1, <2>2, <2>5 DEF LogInv, Stages, Recorded
  <2> QED
    BY <2>0, <2>4, <2>5 DEF LogInv
<1>4. ASSUME NEW r \in Runs, Call(r) PROVE LogInv'
  BY <1>4 DEF Call, Goto, Unasked, device, records, LogInv, TypeOK, Secrets, Recorded
<1>5. ASSUME NEW r \in Runs, Step(r) PROVE LogInv'
  <2> USE DEF LogInv, TypeOK, Secrets, Goto, Answer
  <2>0. UNCHANGED <<vault, erased>> =>
            \A q \in Runs : Recorded(q)' <=> Recorded(q)
    BY DEF Recorded
  <2>1. CASE Connect(r) \/ FindService(r) \/ VerifyPort(r) \/ FindAdmin(r)
    BY <2>0, <2>1
    DEF Connect, FindService, VerifyPort, FindAdmin, Unasked, device, records
  <2>2. CASE SetIdentity(r)
    BY <2>0, <2>2
    DEF SetIdentity, Served, Effect, GivenUp, device, AfterIdentity, records
  <2>3. CASE MovePort(r)
    BY <2>0, <2>3 DEF MovePort, Served, Effect, GivenUp, device, records
  <2>4. CASE SetPassword(r)
    <3>1. CASE Served(r, "password") /\ Goto(r, "keepass")
      BY <2>0, <2>4, <3>1 DEF SetPassword, Served, Effect, Serves, records
    <3>2. CASE GivenUp(r, "password") /\ Answer(r, "password", TRUE)
      <4>1. /\ pc[r] = "password" /\ UNCHANGED <<password, vault, log, erased>>
            /\ late' \subseteq late \cup {<<r, "password">>}
        BY <2>4, <3>2 DEF SetPassword, GivenUp, device, records
      <4>2. pc'[r] = "finished" /\ result'[r].stage = "password"
        BY <3>2
      <4>3. \A q \in Runs : q # r => pc'[q] = pc[q] /\ result'[q] = result[q]
        BY <3>2
      <4> QED
        BY <2>0, <4>1, <4>2, <4>3
    <3> QED
      BY <2>4, <3>1, <3>2 DEF SetPassword
  <2>5. CASE StoreCredentials(r)
    <3>1. /\ pc[r] = "keepass" /\ pc' = [pc EXCEPT ![r] = "verify"]
          /\ UNCHANGED <<result, password, late, log>>
      BY <2>5 DEF StoreCredentials, Unasked, device
    <3>2. \A q \in Runs : Recorded(q)' <=> q = r \/ Recorded(q)
      BY <2>5, StoreRecords
    <3> QED
      BY <3>1, <3>2
  <2>6. CASE StoreFails(r)
    BY <2>0, <2>6 DEF StoreFails, Unasked, device, records
  <2>7. CASE Rollback(r)
    BY <2>0, <2>7 DEF Rollback, Served, Effect, Serves, records
  <2>8. CASE RollbackFails(r)
    BY <2>0, <2>8 DEF RollbackFails, GivenUp, device
  <2>9. CASE Verify(r)
    BY <2>0, <2>9 DEF Verify, Unasked, device, PasswordInv, records
  <2> QED
    BY <1>5, <2>1, <2>2, <2>3, <2>4, <2>5, <2>6, <2>7, <2>8, <2>9 DEF Step
<1>6. CASE OthersErase
  <2>1. \A r \in Runs : Recorded(r)' <=> Recorded(r)
    BY <1>6, EraseKeepsRecorded
  <2>2. UNCHANGED <<pc, result, password, late, log>>
    BY <1>6 DEF OthersErase, device
  <2> QED
    BY <2>1, <2>2 DEF LogInv, TypeOK, Secrets
<1> QED
  BY <1>1, <1>2, <1>3, <1>4, <1>5, <1>6 DEF Next

LEMMA LogInvariant == Spec => []LogInv
<1>1. Init => LogInv
  BY DEF Init, LogInv
<1>2. TypeOK /\ PasswordInv /\ LogInv /\ [Next]_vars => LogInv'
  BY NextLogInv
<1> QED
  BY <1>1, <1>2, PasswordInvariant, TypeCorrect, PTL DEF Spec

(* setup.ts, step 6: a generated password that reached a device is never lost
   by a run that was answered, except when the answer to step 5 was lost or
   others erased it from the vault. *)
THEOREM PasswordsAreKept == Spec => []NoPasswordIsOrphaned
<1>1. TypeOK /\ LogInv => NoPasswordIsOrphaned
  BY DEF LogInv, NoPasswordIsOrphaned, TypeOK, Recorded
<1> QED
  BY <1>1, LogInvariant, TypeCorrect, PTL

-----------------------------------------------------------------------------
(* A reset is one.  Only a run whose roll-back was not answered is in the   *)
(* log, and nothing brings back the password of one that was answered.      *)

ResetInv ==
    /\ ResetMeansGone
    /\ \A r \in log : pc[r] = "finished" /\ ~result[r].recoverable
    /\ \A r \in Runs : Finished(r, "keepass") /\ result[r].recoverable
                            => ~Recorded(r)

LEMMA NextResetInv ==
    TypeOK /\ PasswordInv /\ LogInv /\ ResetInv /\ [Next]_vars => ResetInv'
<1> SUFFICES ASSUME TypeOK, PasswordInv, LogInv, ResetInv, [Next]_vars
             PROVE  ResetInv'
  OBVIOUS
<1> USE SetupAssumption
<1>1. CASE UNCHANGED vars
  BY <1>1 DEF ResetInv, ResetMeansGone, Finished, vars, Recorded
<1>2. CASE ServeLate
  <2>1. PICK q \in late : Effect(q[1], q[2])
                          /\ UNCHANGED <<pc, result, vault, log, erased>>
    BY <1>2 DEF ServeLate, records
  <2>2. q[1] \in Runs /\ q[2] \in Changing /\ q = <<q[1], q[2]>>
    BY <2>1 DEF TypeOK
  <2>3. \A r \in Runs : password'[DeviceOf[r]] = r =>
            \/ password[DeviceOf[r]] = r
            \/ result[r].stage \in {"aborted", "password"}
    BY <2>1, <2>2, EffectOnPasswords DEF LogInv, TypeOK
  <2> QED
    BY <2>1, <2>3 DEF ResetInv, ResetMeansGone, Finished, Recorded
<1>3. CASE Crash
  <2>1. UNCHANGED <<password, vault, log, erased>>
    BY <1>3 DEF Crash, device, records
  <2>2. \A r \in Runs :
           /\ Finished(r, "keepass")' => Finished(r, "keepass") /\ result'[r] = result[r]
           /\ pc[r] = "finished" => pc'[r] = "finished" /\ result'[r] = result[r]
    BY <1>3 DEF Crash, UnderWay, Stages, Finished, TypeOK
  <2>3. log \subseteq Runs
    BY DEF TypeOK
  <2> QED
    BY <2>1, <2>2, <2>3 DEF ResetInv, ResetMeansGone, Recorded
<1>4. ASSUME NEW r \in Runs, Call(r) \/ Step(r) PROVE ResetInv'
  <2>1. /\ pc[r] # "finished"
        /\ \A q \in Runs : q # r => pc'[q] = pc[q] /\ result'[q] = result[q]
    BY <1>4
    DEF Call, Step, Connect, SetIdentity, FindService, MovePort, VerifyPort,
        FindAdmin, SetPassword, StoreCredentials, StoreFails, Rollback,
        RollbackFails, Verify, Goto, Answer, TypeOK
  <2>2. r \notin log
    BY <2>1 DEF ResetInv
  <2>3. /\ log' \subseteq log \cup {r}
        /\ \A q \in Runs : q # r =>
              /\ password'[DeviceOf[q]] = q => password[DeviceOf[q]] = q
              /\ Recorded(q)' => Recorded(q)
    <3>1. ASSUME NEW stage \in Changing, Effect(r, stage) \/ UNCHANGED device
          PROVE  \A q \in Runs : q # r =>
                    (password'[DeviceOf[q]] = q => password[DeviceOf[q]] = q)
      BY <3>1, EffectOnPasswords DEF device, TypeOK
    <3>2. \E stage \in Changing : Effect(r, stage) \/ UNCHANGED device
      BY <1>4
      DEF Call, Step, Connect, SetIdentity, FindService, MovePort, VerifyPort,
          FindAdmin, SetPassword, StoreCredentials, StoreFails, Rollback,
          RollbackFails, Verify, Served, GivenUp, Unasked, Changing
    <3>3. /\ UNCHANGED <<vault, erased>> \/ StoreCredentials(r)
          /\ log' \subseteq log \cup {r}
      BY <1>4
      DEF Call, Step, Connect, SetIdentity, FindService, MovePort, VerifyPort,
          FindAdmin, SetPassword, StoreCredentials, StoreFails, Rollback,
          RollbackFails, Verify, records
    <3>4. \A q \in Runs : q # r => (Recorded(q)' => Recorded(q))
      BY <3>3, StoreRecords DEF Recorded
    <3> QED
      BY <3>1, <3>2, <3>3, <3>4
  <2>0. ASSUME /\ r \notin log' \/ (pc'[r] = "finished" /\ ~result'[r].recoverable)
               /\ Finished(r, "keepass")' /\ result'[r].recoverable =>
                     password'[DeviceOf[r]] # r /\ ~Recorded(r)' /\ r \notin log'
        PROVE  ResetInv'
    <3>1. \A q \in Runs : Finished(q, "keepass")' /\ result'[q].recoverable =>
              password'[DeviceOf[q]] # q /\ ~Recorded(q)' /\ q \notin log'
      BY <2>0, <2>1, <2>3 DEF ResetInv, ResetMeansGone, Finished
    <3>2. \A q \in Runs : ~Recorded(q)' => vault'[IdentityOf[q]] # q
      BY DEF Recorded
    <3> QED
      BY <2>0, <2>1, <2>3, <3>1, <3>2 DEF ResetInv, ResetMeansGone, TypeOK
  <2>4. CASE Rollback(r)
    <3>1. /\ password'[DeviceOf[r]] # r /\ UNCHANGED <<vault, log, erased>>
          /\ ~Recorded(r)
      BY <2>4 DEF Rollback, Served, Effect, PasswordInv, TypeOK, records
    <3> QED
      BY <2>0, <2>2, <3>1 DEF Recorded
  <2>5. CASE /\ r \notin log'
             /\ pc'[r] = "finished" => result'[r].stage # "keepass"
    BY <2>0, <2>5 DEF Finished
  <2>6. CASE RollbackFails(r)
    <3>1. pc'[r] = "finished" /\ ~result'[r].recoverable
      BY <2>6 DEF RollbackFails, Answer, TypeOK
    <3> QED
      BY <2>0, <3>1
  <2> QED
    BY <1>4, <2>2, <2>4, <2>5, <2>6
    DEF Call, Step, Connect, SetIdentity, FindService, MovePort, VerifyPort,
        FindAdmin, SetPassword, StoreCredentials, StoreFails, Verify, Goto,
        Answer, AfterIdentity, TypeOK, records
<1>5. CASE OthersErase
  <2>1. \A r \in Runs : Recorded(r)' <=> Recorded(r)
    BY <1>5, EraseKeepsRecorded
  <2>2. UNCHANGED <<pc, result, password, late, log>>
    BY <1>5 DEF OthersErase, device
  <2>3. \A q \in Runs : ~Recorded(q)' => vault'[IdentityOf[q]] # q
    BY DEF Recorded
  <2> QED
    BY <2>1, <2>2, <2>3 DEF ResetInv, ResetMeansGone, Finished
<1> QED
  BY <1>1, <1>2, <1>3, <1>4, <1>5 DEF Next

LEMMA ResetInvariant == Spec => []ResetInv
<1>1. Init => ResetInv
  BY SetupAssumption DEF Init, ResetInv, ResetMeansGone, Finished, Recorded
<1> QED
  BY <1>1, NextResetInv, LogInvariant, PasswordInvariant, TypeCorrect, PTL DEF Spec

(* setup.ts, step 6, the first catch: when the tool says the password was
   reset, it is not on the device and not in the vault or the log, whatever
   arrives later. *)
THEOREM ResetsAreDone == Spec => []ResetMeansGone
<1>1. ResetInv => ResetMeansGone
  BY DEF ResetInv
<1> QED
  BY <1>1, ResetInvariant, PTL

-----------------------------------------------------------------------------
(* What the description, the README and the tests promise, and when it      *)
(* holds.  Each of the two fails in general; the hypotheses name what has   *)
(* to be excluded.                                                          *)

(* No two runs are made against one device. *)
OwnDevices == \A r, s \in Runs : DeviceOf[r] = DeviceOf[s] => r = s

(* A run that got past step 3 finds the device under its own name, if the
   runs against a device agree about it. *)
NameInv ==
    \A r \in Runs :
        pc[r] \in Stages \ {"connect", "identity"} \/ Finished(r, "ok")
            => name[DeviceOf[r]] = IdentityOf[r]

(* setup.ts, step 3: the device of a successful run has the name its password
   is stored under, when all runs against a device are given the same name. *)
THEOREM SameNameIsKept ==
    ASSUME \A r, s \in Runs :
              DeviceOf[r] = DeviceOf[s] => IdentityOf[r] = IdentityOf[s]
    PROVE  Spec => []SuccessNamesTheDevice
<1>1. Init => NameInv
  BY DEF Init, NameInv, Finished, Stages
<1>2. TypeOK /\ NameInv /\ [Next]_vars => NameInv'
  <2> SUFFICES ASSUME TypeOK, NameInv, [Next]_vars PROVE NameInv'
    OBVIOUS
  <2> USE SetupAssumption
  <2>1. ASSUME NEW s \in Runs, NEW stage \in Changing, Effect(s, stage)
        PROVE  /\ \A r \in Runs : name[DeviceOf[r]] = IdentityOf[r]
                                      => name'[DeviceOf[r]] = IdentityOf[r]
               /\ stage = "identity" => name'[DeviceOf[s]] = IdentityOf[s]
    BY <2>1 DEF Effect, TypeOK
  <2>2. CASE UNCHANGED vars
    BY <2>2 DEF vars, NameInv, Finished
  <2>3. CASE ServeLate
    <3>1. PICK q \in late : Effect(q[1], q[2]) /\ UNCHANGED <<pc, result>>
      BY <2>3 DEF ServeLate
    <3>2. q[1] \in Runs /\ q[2] \in Changing
      BY <3>1 DEF TypeOK
    <3> QED
      BY <2>1, <3>1, <3>2 DEF NameInv, Finished
  <2>4. CASE Crash
    <3>1. \A r \in Runs : /\ pc'[r] \notin Stages
                          /\ Finished(r, "ok")' => Finished(r, "ok")
      BY <2>4 DEF Crash, UnderWay, Finished, TypeOK, Stages
    <3> QED
      BY <2>4, <3>1 DEF Crash, device, NameInv
  <2>5. ASSUME NEW s \in Runs, Call(s) \/ Step(s) PROVE NameInv'
    <3>1. \A r \in Runs : r # s => pc'[r] = pc[r] /\ result'[r] = result[r]
      BY <2>5
      DEF Call, Step, Connect, SetIdentity, FindService, MovePort, VerifyPort,
          FindAdmin, SetPassword, StoreCredentials, StoreFails, Rollback,
          RollbackFails, Verify, Goto, Answer, TypeOK
    <3>2. CASE SetIdentity(s)
      <4>1. CASE Served(s, "identity")
        BY <2>1, <3>1, <4>1 DEF Served, Changing, NameInv, Finished
      <4>2. CASE UNCHANGED name /\ Answer(s, "identity", TRUE)
        <5>1. ~Finished(s, "ok")' /\ pc'[s] = "finished"
          BY <4>2 DEF Answer, Finished, TypeOK
        <5> QED
          BY <3>1, <4>2, <5>1 DEF NameInv, Finished, Stages
      <4> QED
        BY <3>2, <4>1, <4>2 DEF SetIdentity, GivenUp, device
    <3>3. CASE ~SetIdentity(s)
      <4>1. /\ pc'[s] \in Stages \ {"connect", "identity"} \/ Finished(s, "ok")'
                  => pc[s] \in Stages \ {"connect", "identity"}
        BY <2>5, <3>3
        DEF Call, Step, Connect, FindService, MovePort, VerifyPort,
            FindAdmin, SetPassword, StoreCredentials, StoreFails, Rollback,
            RollbackFails, Verify, Goto, Answer, TypeOK, Stages, Finished
      <4>2. UNCHANGED name \/ \E stage \in Changing : Effect(s, stage)
        BY <2>5, <3>3
        DEF Call, Step, Connect, FindService, MovePort, VerifyPort,
            FindAdmin, SetPassword, StoreCredentials, StoreFails, Rollback,
            RollbackFails, Verify, Served, GivenUp, Unasked, device, Changing
      <4>3. \A r \in Runs : name[DeviceOf[r]] = IdentityOf[r]
                                => name'[DeviceOf[r]] = IdentityOf[r]
        BY <2>1, <4>2
      <4> QED
        BY <3>1, <4>1, <4>3 DEF NameInv, Finished
    <3> QED
      BY <3>2, <3>3
  <2>6. CASE OthersErase
    BY <2>6 DEF OthersErase, device, NameInv, Finished
  <2> QED
    BY <2>2, <2>3, <2>4, <2>5, <2>6 DEF Next
<1>3. NameInv => SuccessNamesTheDevice
  BY DEF NameInv, SuccessNamesTheDevice
<1> QED
  BY <1>1, <1>2, <1>3, TypeCorrect, PTL DEF Spec

(* README: after a recoverable failure to store the password setup can be run
   again, if it does not move the port and has the device to itself. *)
THEOREM UnmovedSetupIsRerunnable ==
    ASSUME ~Relocate, OwnDevices PROVE Spec => []KeepassFailureIsRerunnable
<1>1. TypeOK /\ LogInv /\ ResetMeansGone => KeepassFailureIsRerunnable
  <2> SUFFICES ASSUME TypeOK, LogInv, ResetMeansGone,
                      NEW r \in Runs, Finished(r, "keepass"),
                      result[r].recoverable
               PROVE  Rerunnable(r)
    BY DEF KeepassFailureIsRerunnable
  <2>1. DeviceOf[r] \in Devices /\ port[DeviceOf[r]] = "initial"
    BY SetupAssumption DEF TypeOK, Target
  <2>2. password[DeviceOf[r]] # r
    BY DEF ResetMeansGone
  <2>3. password[DeviceOf[r]] = Empty
    BY <2>1, <2>2 DEF LogInv, OwnDevices, TypeOK, Secrets
  <2> QED
    BY <2>1, <2>3 DEF Rerunnable, Serves
<1> QED
  BY <1>1, TypeCorrect, LogInvariant, ResetsAreDone, PTL

=============================================================================
