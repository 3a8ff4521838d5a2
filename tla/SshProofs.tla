------------------------------ MODULE SshProofs ------------------------------
(***************************************************************************)
(* Theorems about the SSH transport: its calls (SshCommand), for any       *)
(* number of them, with host keys checked or not and whichever calls lose  *)
(* their connection cleanly; and what is read out of the text that they    *)
(* bring (Parsers), for printouts of any length in every shape, with any   *)
(* words, fields, flags and columns.                                       *)
(***************************************************************************)
EXTENDS SshCommand, Parsers, SequenceTheorems, WellFoundedInduction, TLAPS

-----------------------------------------------------------------------------
(* Calls.                                                                  *)

(* What ties the parts of a call together, and makes the properties of
   SshCommand inductive. *)
Linked(c) ==
    /\ promise[c] = "none" => conn[c] = "none" /\ device[c] = "idle"
    /\ promise[c] = "threw" => conn[c] = "none" /\ device[c] = "idle"
    /\ c \in armed => promise[c] \in {"pending", "threw"}
    /\ Settled(c) => c \in ended \/ conn[c] \in {"none", "lost"}
    /\ conn[c] \in {"handshake", "verified"} =>
          device[c] = "idle" /\ promise[c] \in {"pending", "timeout"}
    /\ c \in hostKeyRejected =>
          /\ conn[c] \in {"refused", "lost"}
          /\ device[c] = "idle"
          /\ promise[c] \in {"pending", "hostKey", "timeout"}
    /\ stdout[c] = "whole" => device[c] = "done"
    /\ conn[c] = "running" => device[c] \in {"running", "done"}
    /\ promise[c] = "data" =>
          /\ device[c] \in {"running", "done"}
          /\ stdout[c] = "whole" \/ c \in CleanLoss

Inv == TypeOK /\ \A c \in Calls : Linked(c)

(* An action of one call. *)
Act(c) ==
    \/ Begin(c)
    \/ TimerFires(c)
    \/ VerifyHost(c)
    \/ Ready(c)
    \/ ExecFails(c)
    \/ StreamOpens(c)
    \/ Data(c)
    \/ StreamCloses(c)
    \/ ConnectionFails(c)
    \/ ConnectionCloses(c)
    \/ DeviceStarts(c)
    \/ DeviceFinishes(c)

(* What no action of c touches: the parts of every other call. *)
Apart(c, d) ==
    /\ promise'[d] = promise[d]
    /\ conn'[d] = conn[d]
    /\ device'[d] = device[d]
    /\ stdout'[d] = stdout[d]
    /\ d \in armed' <=> d \in armed
    /\ d \in ended' <=> d \in ended
    /\ d \in hostKeyRejected' <=> d \in hostKeyRejected

LEMMA ActTypeOK == ASSUME TypeOK, NEW c \in Calls, Act(c) PROVE TypeOK'
<1> USE DEF TypeOK, Settlements, Connected, Becomes, WithTimer, WithEnd,
            Disarmed, Settle, SettleAndEnd, Verdict
<1>1. CASE Begin(c)
  BY <1>1 DEF Begin
<1>2. CASE TimerFires(c)
  BY <1>2 DEF TimerFires
<1>3. CASE VerifyHost(c)
  BY <1>3 DEF VerifyHost
<1>4. CASE Ready(c)
  BY <1>4 DEF Ready
<1>5. CASE ExecFails(c)
  BY <1>5 DEF ExecFails
<1>6. CASE StreamOpens(c)
  BY <1>6 DEF StreamOpens
<1>7. CASE Data(c)
  BY <1>7 DEF Data
<1>8. CASE StreamCloses(c)
  BY <1>8 DEF StreamCloses
<1>9. CASE ConnectionFails(c)
  BY <1>9 DEF ConnectionFails
<1>10. CASE ConnectionCloses(c)
  BY <1>10 DEF ConnectionCloses
<1>11. CASE DeviceStarts(c)
  BY <1>11 DEF DeviceStarts
<1>12. CASE DeviceFinishes(c)
  BY <1>12 DEF DeviceFinishes
<1> QED
  BY <1>1, <1>2, <1>3, <1>4, <1>5, <1>6, <1>7, <1>8, <1>9, <1>10, <1>11, <1>12
  DEF Act

LEMMA ActLeavesOthers ==
    ASSUME TypeOK, NEW c \in Calls, Act(c), NEW d \in Calls, d # c
    PROVE  Apart(c, d)
<1> USE DEF TypeOK, Becomes, WithTimer, WithEnd, Disarmed, Settle,
            SettleAndEnd, Apart
<1>1. CASE Begin(c)
  BY <1>1 DEF Begin
<1>2. CASE TimerFires(c)
  BY <1>2 DEF TimerFires
<1>3. CASE VerifyHost(c)
  BY <1>3 DEF VerifyHost
<1>4. CASE Ready(c)
  BY <1>4 DEF Ready
<1>5. CASE ExecFails(c)
  BY <1>5 DEF ExecFails
<1>6. CASE StreamOpens(c)
  BY <1>6 DEF StreamOpens
<1>7. CASE Data(c)
  BY <1>7 DEF Data
<1>8. CASE StreamCloses(c)
  BY <1>8 DEF StreamCloses
<1>9. CASE ConnectionFails(c)
  BY <1>9 DEF ConnectionFails
<1>10. CASE ConnectionCloses(c)
  BY <1>10 DEF ConnectionCloses
<1>11. CASE DeviceStarts(c)
  BY <1>11 DEF DeviceStarts
<1>12. CASE DeviceFinishes(c)
  BY <1>12 DEF DeviceFinishes
<1> QED
  BY <1>1, <1>2, <1>3, <1>4, <1>5, <1>6, <1>7, <1>8, <1>9, <1>10, <1>11, <1>12
  DEF Act

LEMMA ActLinked ==
    ASSUME TypeOK, NEW c \in Calls, Linked(c), Act(c)
    PROVE  Linked(c)'
<1> USE DEF TypeOK, Settlements, Settled, Connected, Becomes, WithTimer,
            WithEnd, Disarmed, Settle, SettleAndEnd, Linked
<1>1. CASE Begin(c)
  BY <1>1 DEF Begin
<1>2. CASE TimerFires(c)
  BY <1>2 DEF TimerFires
<1>3. CASE VerifyHost(c)
  BY <1>3 DEF VerifyHost, Verdict
<1>4. CASE Ready(c)
  BY <1>4 DEF Ready
<1>5. CASE ExecFails(c)
  BY <1>5 DEF ExecFails
<1>6. CASE StreamOpens(c)
  BY <1>6 DEF StreamOpens
<1>7. CASE Data(c)
  BY <1>7 DEF Data
<1>8. CASE StreamCloses(c)
  BY <1>8 DEF StreamCloses, OutputOver
<1>9. CASE ConnectionFails(c)
  BY <1>9 DEF ConnectionFails
<1>10. CASE ConnectionCloses(c)
  BY <1>10 DEF ConnectionCloses
<1>11. CASE DeviceStarts(c)
  BY <1>11 DEF DeviceStarts
<1>12. CASE DeviceFinishes(c)
  BY <1>12 DEF DeviceFinishes
<1> QED
  BY <1>1, <1>2, <1>3, <1>4, <1>5, <1>6, <1>7, <1>8, <1>9, <1>10, <1>11, <1>12
  DEF Act

LEMMA Inductive == Init => Inv
BY DEF Init, Inv, TypeOK, Linked, Settled, Settlements

LEMMA InvStep == Inv /\ [Next]_vars => Inv'
<1> SUFFICES ASSUME Inv, [Next]_vars PROVE Inv'
  OBVIOUS
<1>1. CASE UNCHANGED vars
  BY <1>1 DEF Inv, vars, TypeOK, Linked, Settled
<1>2. CASE Next
  <2>1. PICK c \in Calls : Act(c)
    BY <1>2 DEF Next, Act
  <2>2. TypeOK'
    BY <2>1, ActTypeOK DEF Inv
  <2>3. Linked(c)'
    BY <2>1, ActLinked DEF Inv
  <2>4. ASSUME NEW d \in Calls, d # c PROVE Linked(d)'
    <3>1. Apart(c, d)
      BY <2>1, <2>4, ActLeavesOthers DEF Inv
    <3> QED
      BY <3>1 DEF Inv, Linked, Apart, Settled
  <2> QED
    BY <2>2, <2>3, <2>4 DEF Inv
<1> QED
  BY <1>1, <1>2

LEMMA Invariant == Spec => []Inv
<1> QED
  BY Inductive, InvStep, PTL DEF Spec

-----------------------------------------------------------------------------
(* A settled call leaves no timer and no connection behind, for any number of
   calls and in any order of their callbacks; only if connect threw is its
   timer left (executeCommand). *)
THEOREM NothingIsLeft == Spec => []CallsCleanUp
<1>1. Inv => CallsCleanUp
  BY DEF Inv, Linked, CallsCleanUp, Settled, Settlements
<1> QED
  BY <1>1, Invariant, PTL

(* A host whose key was rejected never gets a command (hostVerifier). *)
THEOREM RejectedIsRejected == Spec => []RejectedHostsStayOut
<1>1. Inv => RejectedHostsStayOut
  BY DEF Inv, TypeOK, Linked, RejectedHostsStayOut
<1> QED
  BY <1>1, Invariant, PTL

-----------------------------------------------------------------------------
(* The step of a call as its caller and its device see it. *)
Seen(c) ==
    \/ promise'[c] = promise[c] /\ device'[c] = device[c]
    \/ /\ promise[c] = "none" /\ promise'[c] \in {"pending", "threw"}
       /\ device'[c] = device[c]
    \/ /\ promise[c] = "pending" /\ promise'[c] \in {"timeout", "hostKey", "error"}
       /\ device'[c] = device[c]
    \/ /\ promise[c] = "pending" /\ promise'[c] = "data"
       /\ device'[c] = device[c]
       /\ c \in Sound => device[c] = "done"
    \/ /\ promise'[c] = promise[c] /\ promise[c] # "none"
       /\ device[c] # "done"

LEMMA ActSeen == ASSUME Inv, NEW c \in Calls, Act(c) PROVE Seen(c)
<1> USE DEF Inv, TypeOK, Linked, Becomes, Settle, SettleAndEnd, Seen
<1>1. CASE Begin(c)
  BY <1>1 DEF Begin
<1>2. CASE TimerFires(c)
  BY <1>2 DEF TimerFires
<1>3. CASE VerifyHost(c)
  BY <1>3 DEF VerifyHost
<1>4. CASE Ready(c)
  BY <1>4 DEF Ready
<1>5. CASE ExecFails(c)
  BY <1>5 DEF ExecFails
<1>6. CASE StreamOpens(c)
  BY <1>6 DEF StreamOpens
<1>7. CASE Data(c)
  BY <1>7 DEF Data
<1>8. CASE StreamCloses(c)
  BY <1>8 DEF StreamCloses, OutputOver, Sound
<1>9. CASE ConnectionFails(c)
  BY <1>9 DEF ConnectionFails
<1>10. CASE ConnectionCloses(c)
  BY <1>10 DEF ConnectionCloses
<1>11. CASE DeviceStarts(c)
  BY <1>11 DEF DeviceStarts
<1>12. CASE DeviceFinishes(c)
  BY <1>12 DEF DeviceFinishes
<1> QED
  BY <1>1, <1>2, <1>3, <1>4, <1>5, <1>6, <1>7, <1>8, <1>9, <1>10, <1>11, <1>12
  DEF Act

(* Every step of a call is a step of DeviceCall or none. *)
LEMMA StepSimulates ==
    ASSUME Inv, Inv', NEW c \in Calls, Seen(c),
           \A d \in Calls : d # c =>
               promise'[d] = promise[d] /\ device'[d] = device[d]
    PROVE  [Promised!Next]_(Promised!vars)
<1> DEFINE T == [d \in Sound |-> Told(d)]
           D == {d \in Sound : device[d] = "done"}
<1> Sound \subseteq Calls
  BY DEF Sound
<1>1. \A d \in Sound : d # c => Told(d)' = Told(d)
  BY DEF Told
<1>2. CASE c \notin Sound
  <2>1. T' = T /\ D' = D
    BY <1>1, <1>2
  <2> QED
    BY <2>1 DEF Promised!vars
<1>3. CASE c \in Sound
  <2>1. \A d \in Sound : d # c => T'[d] = T[d] /\ (d \in D' <=> d \in D)
    BY <1>1
  <2>2. CASE promise'[c] = promise[c] /\ device'[c] = device[c]
    <3>1. Told(c)' = Told(c)
      BY <2>2 DEF Told
    <3>2. T' = T /\ D' = D
      BY <1>1, <2>2, <3>1
    <3> QED
      BY <3>2 DEF Promised!vars
  <2>3. CASE promise'[c] # promise[c]
    <3>1. device'[c] = device[c] /\ promise[c] \in {"none", "pending"}
      BY <2>3 DEF Seen
    <3>2. D' = D
      BY <3>1
    <3>3. T' = [T EXCEPT ![c] = Told(c)']
      BY <1>1
    <3>3a. CASE promise[c] = "none" /\ promise'[c] # "pending"
      <4>1. Told(c) = "nothing" /\ Told(c)' = "error"
        BY <2>3, <3>3a DEF Seen, Told
      <4>2. Promised!Fail(c)
        BY <1>3, <3>2, <3>3, <4>1 DEF Promised!Fail
      <4> QED
        BY <1>3, <4>2 DEF Promised!Next
    <3>4. CASE promise[c] = "none" /\ promise'[c] = "pending"
      <4>1. Told(c) = "nothing" /\ Told(c)' = "waiting"
        BY <2>3, <3>4 DEF Seen, Told
      <4>2. Promised!Ask(c)
        BY <1>3, <3>2, <3>3, <4>1 DEF Promised!Ask
      <4> QED
        BY <1>3, <4>2 DEF Promised!Next
    <3>5. CASE promise[c] = "pending" /\ promise'[c] = "data"
      <4>1. Told(c) = "waiting" /\ Told(c)' = "data"
        BY <3>5 DEF Told
      <4>2. c \in D
        BY <1>3, <3>5 DEF Seen
      <4>3. Promised!TellData(c)
        BY <1>3, <3>2, <3>3, <4>1, <4>2 DEF Promised!TellData
      <4> QED
        BY <1>3, <4>3 DEF Promised!Next
    <3>6. CASE promise[c] = "pending" /\ promise'[c] # "data"
      <4>1. Told(c) = "waiting" /\ Told(c)' = "error"
        BY <2>3, <3>6 DEF Seen, Told
      <4>2. Promised!TellError(c)
        BY <1>3, <3>2, <3>3, <4>1 DEF Promised!TellError
      <4> QED
        BY <1>3, <4>2 DEF Promised!Next
    <3> QED
      BY <3>1, <3>3a, <3>4, <3>5, <3>6
  <2>4. CASE promise'[c] = promise[c] /\ device'[c] # device[c]
    <3>1. Told(c)' = Told(c) /\ Told(c) # "nothing"
      BY <2>4 DEF Seen, Told
    <3>2. T' = T
      BY <1>1, <3>1
    <3>3. CASE device'[c] = "done"
      <4>1. D' = D \cup {c}
        BY <1>3, <3>3
      <4>2. Promised!CarryOut(c)
        BY <1>3, <3>1, <3>2, <4>1 DEF Promised!CarryOut
      <4> QED
        BY <1>3, <4>2 DEF Promised!Next
    <3>4. CASE device'[c] # "done"
      <4>1. D' = D
        BY <2>4, <3>4 DEF Seen
      <4> QED
        BY <3>2, <4>1 DEF Promised!vars
    <3> QED
      BY <3>3, <3>4
  <2> QED
    BY <2>2, <2>3, <2>4
<1> QED
  BY <1>2, <1>3

(* executeCommand keeps the promise of the DeviceTransport interface to every
   call whose connection cannot be closed cleanly in mid-command (Sound): it is
   told data only of a command the device has carried out.  The calls of
   CleanLoss are not among those the promise is stated for, and to them it is
   not kept: their data may be of a command that still runs. *)
THEOREM KeepsThePromise == Spec => ImplementsDeviceCall
<1>1. Init => Promised!Init
  BY DEF Init, Promised!Init, Told, Sound
<1>2. ASSUME Inv, Inv', [Next]_vars PROVE [Promised!Next]_(Promised!vars)
  <2>1. CASE UNCHANGED vars
    BY <2>1 DEF vars, Promised!vars, Told
  <2>2. CASE Next
    <3>1. PICK c \in Calls : Act(c)
      BY <2>2 DEF Next, Act
    <3>2. Seen(c)
      BY <1>2, <3>1, ActSeen
    <3>3. \A d \in Calls : d # c =>
              promise'[d] = promise[d] /\ device'[d] = device[d]
      BY <1>2, <3>1, ActLeavesOthers DEF Inv, Apart
    <3> QED
      BY <1>2, <3>2, <3>3, StepSimulates
  <2> QED
    BY <1>2, <2>1, <2>2
<1> QED
  BY <1>1, <1>2, Invariant, PTL DEF Spec, ImplementsDeviceCall, Promised!Spec

(* To any call, one of CleanLoss included, data is told only of a command that
   the device has started, and it is the whole output unless the connection
   was closed cleanly before the command had ended (stream.on('close')). *)
THEOREM DataIsAlwaysOfTheCommand == Spec => []DataIsOfTheCommand
<1>1. Inv => DataIsOfTheCommand
  BY DEF Inv, Linked, DataIsOfTheCommand
<1> QED
  BY <1>1, Invariant, PTL

-----------------------------------------------------------------------------
(* Induction.  What is read is computed by loops over lines and tokens; the *)
(* sets in these lemmas stand for what holds of a number or a sequence.    *)

\* What holds at 0 and passes from each number to the next holds up to n.
LEMMA UpTo ==
  ASSUME NEW n \in Nat, NEW T, 0 \in T,
         \A m \in 0..n - 1 : m \in T => m + 1 \in T
  PROVE  \A m \in 0..n : m \in T
<1> SUFFICES ASSUME NEW m \in 0..n, m \notin T PROVE FALSE
  OBVIOUS
<1> DEFINE D == {k \in 0..n : k \notin T}
<1>1. PICK x \in D : \A y \in D : ~(<<y, x>> \in OpToRel(<, Nat))
  <2>1. D \subseteq Nat /\ D # {}
    OBVIOUS
  <2> HIDE DEF D
  <2> QED
    BY <2>1, WFMin, NatLessThanWellFounded
<1>2. x \in 0..n /\ x \notin T
  BY <1>1
<1>3. x # 0 /\ x - 1 \in 0..n - 1 /\ (x - 1) + 1 = x
  BY <1>2
<1>4. x - 1 \notin T
  BY <1>2, <1>3
<1>5. x - 1 \in D
  BY <1>3, <1>4
<1>6. <<x - 1, x>> \in OpToRel(<, Nat)
  BY <1>2, <1>3 DEF OpToRel
<1> QED
  BY <1>1, <1>5, <1>6

\* The same downwards, from n + 1 to 1.
LEMMA DownFrom ==
  ASSUME NEW n \in Nat, NEW T, n + 1 \in T,
         \A m \in 1..n : (\A k \in m + 1..n + 1 : k \in T) => m \in T
  PROVE  \A m \in 1..n + 1 : m \in T
<1> DEFINE U == {d \in 0..n : \A k \in n + 1 - d..n + 1 : k \in T}
<1>1. 0 \in U
  OBVIOUS
<1>2. ASSUME NEW d \in 0..n - 1, d \in U PROVE d + 1 \in U
  <2>1. n - d \in 1..n /\ \A k \in n - d + 1..n + 1 : k \in T
    BY <1>2
  <2>2. n - d \in T
    BY <2>1
  <2> QED
    BY <2>1, <2>2
<1>3. \A m \in 0..n : m \in U
  <2> HIDE DEF U
  <2> QED
    BY <1>1, <1>2, UpTo
<1>4. n \in U
  BY <1>3
<1> QED
  BY <1>4

\* What holds of the empty sequence and of each one made longer.
LEMMA SeqInduct ==
  ASSUME NEW S, NEW T, <<>> \in T,
         \A s \in Seq(S), e \in S : s \in T => Append(s, e) \in T
  PROVE  \A s \in Seq(S) : s \in T
<1> SUFFICES ASSUME NEW s \in Seq(S) PROVE s \in T
  OBVIOUS
<1> DEFINE U == {n \in 0..Len(s) : SubSeq(s, 1, n) \in T}
           L == Len(s)
<1>0. L \in Nat
  OBVIOUS
<1>1. 0 \in U
  <2>1. SubSeq(s, 1, 0) = <<>>
    BY SubSeqEmpty
  <2>2. SubSeq(s, 1, 0) \in T
    BY <2>1, Zenon
  <2>3. 0 \in 0..L
    BY <1>0
  <2> QED
    BY <2>2, <2>3, Zenon
<1>2. ASSUME NEW n \in 0..L - 1, n \in U PROVE n + 1 \in U
  <2>1. /\ SubSeq(s, 1, n) \in Seq(S) /\ s[n + 1] \in S
        /\ SubSeq(s, 1, n + 1) = SubSeq(s, 1, n) \o <<s[n + 1]>>
    BY <1>0, SubSeqRecursiveSecond
  <2>2. SubSeq(s, 1, n + 1) = Append(SubSeq(s, 1, n), s[n + 1])
    BY <2>1, AppendIsConcat
  <2>3. SubSeq(s, 1, n + 1) \in T
    BY <1>2, <2>1, <2>2
  <2> QED
    BY <1>0, <2>3
<1>3. \A n \in 0..L : n \in U
  <2> HIDE DEF U, L
  <2> QED
    BY <1>0, <1>1, <1>2, UpTo
<1>4. L \in U
  <2> HIDE DEF U
  <2> QED
    BY <1>0, <1>3
<1>5. SubSeq(s, 1, L) \in T
  BY <1>4
<1>6. SubSeq(s, 1, Len(s)) = s
  BY SubSeqFull
<1> QED
  BY <1>5, <1>6, Zenon

\* h holds what a loop over 1..m has, from b on, after each of its rounds.
Along(h, m, S, b, F) ==
    /\ h \in [0..m -> S]
    /\ h[0] = b
    /\ \A i \in 1..m : h[i] = F[<<i, h[i - 1]>>]

\* A loop over 1..n from b, by a step that stays in S, has its values.
LEMMA LoopRuns ==
  ASSUME NEW n \in Nat, NEW S, NEW b \in S, NEW F \in [(1..n) \X S -> S]
  PROVE  \E h : Along(h, n, S, b, F)
<1> DEFINE T == {m \in 0..n : \E h : Along(h, m, S, b, F)}
<1>1. 0 \in T
  <2>1. Along([i \in 0..0 |-> b], 0, S, b, F)
    BY DEF Along
  <2> QED
    BY <2>1
<1>2. ASSUME NEW m \in 0..n - 1, m \in T PROVE m + 1 \in T
  <2>1. PICK h : Along(h, m, S, b, F)
    BY <1>2
  <2> DEFINE v == F[<<m + 1, h[m]>>]
             g == [i \in 0..m + 1 |-> IF i = m + 1 THEN v ELSE h[i]]
  <2>2. v \in S
    BY <2>1 DEF Along
  <2>3. g \in [0..m + 1 -> S]
    BY <2>1, <2>2 DEF Along
  <2>4. g[0] = b /\ g[m + 1] = v /\ \A i \in 0..m : g[i] = h[i]
    BY <2>1 DEF Along
  <2>5. \A i \in 1..m + 1 : g[i] = F[<<i, g[i - 1]>>]
    <3> SUFFICES ASSUME NEW i \in 1..m + 1 PROVE g[i] = F[<<i, g[i - 1]>>]
      OBVIOUS
    <3>1. i - 1 \in 0..m /\ g[i - 1] = h[i - 1]
      BY <2>4
    <3>2. CASE i = m + 1
      <4>1. i - 1 = m /\ g[i] = v
        BY <2>4, <3>2
      <4> HIDE DEF g
      <4> QED
        BY <3>1, <3>2, <4>1
    <3>3. CASE i \in 1..m
      BY <2>1, <2>4, <3>1, <3>3 DEF Along
    <3> QED
      BY <3>2, <3>3
  <2>6. Along(g, m + 1, S, b, F)
    <3> HIDE DEF g
    <3> QED
      BY <2>3, <2>4, <2>5 DEF Along
  <2> HIDE DEF g
  <2> QED
    BY <2>6
<1>3. \A m \in 0..n : m \in T
  <2> HIDE DEF T
  <2> QED
    BY <1>1, <1>2, UpTo
<1>4. n \in T
  <2> HIDE DEF T
  <2> QED
    BY <1>3
<1> QED
  BY <1>4

\* Kept is the loop it is written as; f is what the loop has at each place.
KeptAlong(f, s, I) ==
    /\ f[0] = <<>>
    /\ \A n \in 1..Len(s) :
          f[n] = IF n \in I THEN Append(f[n - 1], s[n]) ELSE f[n - 1]

LEMMA KeptIsLoop ==
  ASSUME NEW S, NEW s \in Seq(S), NEW I
  PROVE  \E f : KeptAlong(f, s, I) /\ Kept(s, I) = f[Len(s)]
<1> DEFINE L == Len(s)
           F == [p \in (1..L) \X Seq(S) |->
                   IF p[1] \in I THEN Append(p[2], s[p[1]]) ELSE p[2]]
           Loop(f) == f = [n \in 0..Len(s) |->
                             IF n = 0 THEN <<>>
                             ELSE IF n \in I THEN Append(f[n - 1], s[n])
                             ELSE f[n - 1]]
<1>0. L \in Nat /\ \A n \in 1..L : s[n] \in S
  OBVIOUS
<1>1. F \in [(1..L) \X Seq(S) -> Seq(S)]
  BY <1>0
<1>2. PICK h : Along(h, L, Seq(S), <<>>, F)
  <2> HIDE DEF F, L
  <2>1. <<>> \in Seq(S)
    OBVIOUS
  <2> QED
    BY <1>0, <1>1, <2>1, LoopRuns
<1>3. \A i \in 1..L, a \in Seq(S) :
         F[<<i, a>>] = IF i \in I THEN Append(a, s[i]) ELSE a
  BY <1>0
<1>4. Loop(h)
  <2> HIDE DEF F
  <2>1. h \in [0..L -> Seq(S)] /\ h[0] = <<>>
    BY <1>2 DEF Along
  <2>2. ASSUME NEW n \in 1..L
        PROVE  h[n] = IF n \in I THEN Append(h[n - 1], s[n]) ELSE h[n - 1]
    <3>0. n - 1 \in 0..L
      BY <1>0
    <3>1. n - 1 \in 0..L /\ h[n - 1] \in Seq(S)
      BY <2>1, <3>0, Zenon
    <3>2. h[n] = F[<<n, h[n - 1]>>]
      BY <1>2 DEF Along
    <3> QED
      BY <1>3, <3>1, <3>2
  <2>3. \A n \in 0..L : h[n] = IF n = 0 THEN <<>>
                                ELSE IF n \in I THEN Append(h[n - 1], s[n])
                                ELSE h[n - 1]
    <3> SUFFICES ASSUME NEW n \in 0..L
                 PROVE  h[n] = IF n = 0 THEN <<>>
                               ELSE IF n \in I THEN Append(h[n - 1], s[n])
                               ELSE h[n - 1]
      OBVIOUS
    <3>1. n = 0 \/ n \in 1..L
      BY <1>0
    <3> QED
      BY <2>1, <2>2, <3>1
  <2> QED
    BY <2>1, <2>3
<1>5. PICK f : Loop(f) /\ Kept(s, I) = f[Len(s)]
  BY <1>4 DEF Kept
<1>6. \A n \in 0..L : f[n] = IF n = 0 THEN <<>>
                              ELSE IF n \in I THEN Append(f[n - 1], s[n])
                              ELSE f[n - 1]
  BY <1>5
<1>7. KeptAlong(f, s, I)
  BY <1>0, <1>6 DEF KeptAlong
<1> QED
  BY <1>5, <1>7

LEMMA KeptEmpty == ASSUME NEW I PROVE Kept(<<>>, I) = <<>>
<1>1. PICK f : KeptAlong(f, <<>>, I) /\ Kept(<<>>, I) = f[Len(<<>>)]
  <2>1. <<>> \in Seq({})
    OBVIOUS
  <2> QED
    BY <2>1, KeptIsLoop
<1> QED
  BY <1>1 DEF KeptAlong

LEMMA KeptAppend ==
  ASSUME NEW S, NEW s \in Seq(S), NEW x \in S, NEW I
  PROVE  Kept(Append(s, x), I) = IF Len(s) + 1 \in I THEN Append(Kept(s, I), x)
                                 ELSE Kept(s, I)
<1> DEFINE t == Append(s, x)
           L == Len(s)
<1>0. /\ L \in Nat /\ t \in Seq(S) /\ Len(t) = L + 1 /\ t[L + 1] = x
      /\ \A i \in 1..L : t[i] = s[i]
  BY AppendProperties
<1>1. PICK f : KeptAlong(f, s, I) /\ Kept(s, I) = f[L]
  BY KeptIsLoop
<1>2. PICK g : KeptAlong(g, t, I) /\ Kept(t, I) = g[L + 1]
  <2> HIDE DEF t
  <2> QED
    BY <1>0, KeptIsLoop
<1> DEFINE T == {n \in 0..L : f[n] = g[n]}
<1> HIDE DEF t, L
<1>3. 0 \in T
  BY <1>0, <1>1, <1>2 DEF KeptAlong
<1>4. ASSUME NEW n \in 0..L - 1, n \in T PROVE n + 1 \in T
  <2>1. n + 1 \in 1..L /\ n + 1 \in 1..Len(t) /\ (n + 1) - 1 = n
    BY <1>0
  <2> QED
    BY <1>0, <1>1, <1>2, <1>4, <2>1 DEF KeptAlong, L
<1>5. L \in T
  <2> HIDE DEF T
  <2>1. \A n \in 0..L : n \in T
    BY <1>0, <1>3, <1>4, UpTo
  <2> QED
    BY <1>0, <2>1
<1>6. g[L + 1] = IF L + 1 \in I THEN Append(g[L], x) ELSE g[L]
  BY <1>0, <1>2 DEF KeptAlong
<1> QED
  BY <1>1, <1>2, <1>5, <1>6 DEF t, L

LEMMA KeptType ==
  ASSUME NEW S, NEW s \in Seq(S), NEW I
  PROVE  Kept(s, I) \in Seq(S)
<1> DEFINE T == {t \in Seq(S) : Kept(t, I) \in Seq(S)}
<1>1. <<>> \in T
  <2>1. <<>> \in Seq(S) /\ Kept(<<>>, I) \in Seq(S)
    BY KeptEmpty, Zenon, EmptySeq
  <2> QED
    BY <2>1
<1>2. ASSUME NEW t \in Seq(S), NEW x \in S, t \in T PROVE Append(t, x) \in T
  <2>1. Kept(Append(t, x), I) = IF Len(t) + 1 \in I THEN Append(Kept(t, I), x)
                                ELSE Kept(t, I)
    BY KeptAppend
  <2>2. Kept(Append(t, x), I) \in Seq(S)
    BY <1>2, <2>1, AppendProperties
  <2> QED
    BY <2>2, AppendProperties
<1>3. \A t \in Seq(S) : t \in T
  <2> HIDE DEF T
  <2> QED
    BY <1>1, <1>2, SeqInduct
<1> QED
  BY <1>3

LEMMA KeptSame ==
  ASSUME NEW S, NEW s \in Seq(S), NEW I, NEW J,
         \A i \in 1..Len(s) : i \in I <=> i \in J
  PROVE  Kept(s, I) = Kept(s, J)
<1> DEFINE Agree(t) == \A i \in 1..Len(t) : i \in I <=> i \in J
           T == {t \in Seq(S) : Agree(t) => Kept(t, I) = Kept(t, J)}
<1>1. <<>> \in T
  BY KeptEmpty
<1>2. ASSUME NEW t \in Seq(S), NEW x \in S, t \in T PROVE Append(t, x) \in T
  <2> SUFFICES ASSUME Agree(Append(t, x))
               PROVE  Kept(Append(t, x), I) = Kept(Append(t, x), J)
    BY AppendProperties
  <2>1. Len(t) \in Nat /\ Len(Append(t, x)) = Len(t) + 1
    BY AppendProperties
  <2>2. Agree(t) /\ (Len(t) + 1 \in I <=> Len(t) + 1 \in J)
    BY <2>1
  <2>3. Kept(t, I) = Kept(t, J)
    BY <1>2, <2>2
  <2>4. Kept(Append(t, x), I) = IF Len(t) + 1 \in I THEN Append(Kept(t, I), x)
                                ELSE Kept(t, I)
    BY KeptAppend
  <2>5. Kept(Append(t, x), J) = IF Len(t) + 1 \in J THEN Append(Kept(t, J), x)
                                ELSE Kept(t, J)
    BY KeptAppend
  <2> QED
    BY <2>2, <2>3, <2>4, <2>5
<1>3. \A t \in Seq(S) : t \in T
  <2> HIDE DEF T
  <2> QED
    BY <1>1, <1>2, SeqInduct
<1>4. s \in T
  <2> HIDE DEF T
  <2> QED
    BY <1>3
<1> QED
  BY <1>4

LEMMA KeptAll ==
  ASSUME NEW S, NEW s \in Seq(S), NEW I, 1..Len(s) \subseteq I
  PROVE  Kept(s, I) = s
<1> DEFINE T == {t \in Seq(S) : 1..Len(t) \subseteq I => Kept(t, I) = t}
<1>1. <<>> \in T
  BY KeptEmpty
<1>2. ASSUME NEW t \in Seq(S), NEW x \in S, t \in T PROVE Append(t, x) \in T
  <2> SUFFICES ASSUME 1..Len(Append(t, x)) \subseteq I
               PROVE  Kept(Append(t, x), I) = Append(t, x)
    BY AppendProperties
  <2>1. Len(t) \in Nat /\ Len(Append(t, x)) = Len(t) + 1
    BY AppendProperties
  <2>2. 1..Len(t) \subseteq I /\ Len(t) + 1 \in I
    BY <2>1
  <2> QED
    BY <1>2, <2>2, KeptAppend
<1>3. \A t \in Seq(S) : t \in T
  <2> HIDE DEF T
  <2> QED
    BY <1>1, <1>2, SeqInduct
<1> QED
  BY <1>3

LEMMA KeptNone ==
  ASSUME NEW S, NEW s \in Seq(S), NEW I, \A i \in 1..Len(s) : i \notin I
  PROVE  Kept(s, I) = <<>>
<1> DEFINE T == {t \in Seq(S) : (\A i \in 1..Len(t) : i \notin I) => Kept(t, I) = <<>>}
<1>1. <<>> \in T
  BY KeptEmpty
<1>2. ASSUME NEW t \in Seq(S), NEW x \in S, t \in T PROVE Append(t, x) \in T
  <2> SUFFICES ASSUME \A i \in 1..Len(Append(t, x)) : i \notin I
               PROVE  Kept(Append(t, x), I) = <<>>
    BY AppendProperties
  <2>1. Len(t) \in Nat /\ Len(Append(t, x)) = Len(t) + 1
    BY AppendProperties
  <2>2. (\A i \in 1..Len(t) : i \notin I) /\ Len(t) + 1 \notin I
    BY <2>1
  <2> QED
    BY <1>2, <2>2, KeptAppend
<1>3. \A t \in Seq(S) : t \in T
  <2> HIDE DEF T
  <2> QED
    BY <1>1, <1>2, SeqInduct
<1> QED
  BY <1>3

\* What is kept of two sequences of one length stands at the same places.
LEMMA KeptPlaces ==
  ASSUME NEW S, NEW U, NEW I, NEW s \in Seq(S), NEW u \in Seq(U), Len(s) = Len(u)
  PROVE  /\ Len(Kept(s, I)) = Len(Kept(u, I))
         /\ \A j \in 1..Len(Kept(s, I)) : \E i \in 1..Len(s) :
               i \in I /\ Kept(s, I)[j] = s[i] /\ Kept(u, I)[j] = u[i]
<1> DEFINE Placed(t, v) ==
             /\ Len(Kept(t, I)) = Len(Kept(v, I))
             /\ \A j \in 1..Len(Kept(t, I)) : \E i \in 1..Len(t) :
                   i \in I /\ Kept(t, I)[j] = t[i] /\ Kept(v, I)[j] = v[i]
           T == {t \in Seq(S) : \A v \in Seq(U) : Len(v) = Len(t) => Placed(t, v)}
<1>1. <<>> \in T
  <2>1. \A v \in Seq(U) : Len(v) = 0 => v = <<>>
    OBVIOUS
  <2>2. Placed(<<>>, <<>>)
    BY KeptEmpty
  <2>3. <<>> \in Seq(S) /\ Len(<<>>) = 0
    OBVIOUS
  <2> HIDE DEF Placed
  <2> QED
    BY <2>1, <2>2, <2>3, Zenon
<1>2. ASSUME NEW t \in Seq(S), NEW x \in S, t \in T PROVE Append(t, x) \in T
  <2> SUFFICES ASSUME NEW w \in Seq(U), Len(w) = Len(Append(t, x))
               PROVE  Placed(Append(t, x), w)
    BY AppendProperties
  <2>1. /\ Len(t) \in Nat /\ Len(Append(t, x)) = Len(t) + 1
        /\ \A i \in 1..Len(t) : Append(t, x)[i] = t[i]
        /\ Append(t, x)[Len(t) + 1] = x
    BY AppendProperties
  <2>2. PICK v \in Seq(U), y \in U : w = Append(v, y)
    <3>1. w # <<>>
      BY <2>1
    <3> QED
      BY <3>1, SequenceEmptyOrAppend
  <2>3. /\ Len(v) = Len(t) /\ \A i \in 1..Len(t) : w[i] = v[i]
        /\ w[Len(t) + 1] = y
    BY <2>1, <2>2, AppendProperties
  <2>4. Placed(t, v)
    BY <1>2, <2>3
  <2> DEFINE a == Kept(t, I)
             b == Kept(v, I)
  <2>5. a \in Seq(S) /\ b \in Seq(U)
    BY KeptType
  <2>6. Kept(Append(t, x), I) = IF Len(t) + 1 \in I THEN Append(a, x) ELSE a
    BY KeptAppend
  <2>7. Kept(w, I) = IF Len(t) + 1 \in I THEN Append(b, y) ELSE b
    BY <2>2, <2>3, KeptAppend
  <2> HIDE DEF a, b
  <2>8. /\ Len(Append(a, x)) = Len(a) + 1 /\ Len(Append(b, y)) = Len(b) + 1
        /\ \A j \in 1..Len(a) : Append(a, x)[j] = a[j]
        /\ \A j \in 1..Len(b) : Append(b, y)[j] = b[j]
        /\ Append(a, x)[Len(a) + 1] = x /\ Append(b, y)[Len(b) + 1] = y
        /\ Len(a) \in Nat
    BY <2>5, AppendProperties
  <2>9. /\ Len(a) = Len(b)
        /\ \A j \in 1..Len(a) : \E i \in 1..Len(t) :
              i \in I /\ a[j] = t[i] /\ b[j] = v[i]
    BY <2>4 DEF a, b
  <2>10. CASE Len(t) + 1 \notin I
    <3>1. Kept(Append(t, x), I) = a /\ Kept(w, I) = b
      BY <2>6, <2>7, <2>10
    <3>2. \A j \in 1..Len(a) : \E i \in 1..Len(Append(t, x)) :
             i \in I /\ a[j] = Append(t, x)[i] /\ b[j] = w[i]
      <4> SUFFICES ASSUME NEW j \in 1..Len(a)
                   PROVE  \E i \in 1..Len(Append(t, x)) :
                             i \in I /\ a[j] = Append(t, x)[i] /\ b[j] = w[i]
        OBVIOUS
      <4>1. PICK i \in 1..Len(t) : i \in I /\ a[j] = t[i] /\ b[j] = v[i]
        BY <2>9
      <4>2. i \in 1..Len(Append(t, x)) /\ Append(t, x)[i] = t[i] /\ w[i] = v[i]
        BY <2>1, <2>3
      <4> QED
        BY <4>1, <4>2
    <3> QED
      BY <2>9, <3>1, <3>2
  <2>11. CASE Len(t) + 1 \in I
    <3>1. Kept(Append(t, x), I) = Append(a, x) /\ Kept(w, I) = Append(b, y)
      BY <2>6, <2>7, <2>11
    <3>2. \A j \in 1..Len(a) + 1 : \E i \in 1..Len(Append(t, x)) :
             /\ i \in I /\ Append(a, x)[j] = Append(t, x)[i]
             /\ Append(b, y)[j] = w[i]
      <4> SUFFICES ASSUME NEW j \in 1..Len(a) + 1
                   PROVE  \E i \in 1..Len(Append(t, x)) :
                             /\ i \in I /\ Append(a, x)[j] = Append(t, x)[i]
                             /\ Append(b, y)[j] = w[i]
        OBVIOUS
      <4>1. CASE j = Len(a) + 1
        <5>1. Len(t) + 1 \in 1..Len(Append(t, x))
          BY <2>1
        <5> QED
          BY <2>1, <2>3, <2>8, <2>9, <2>11, <4>1, <5>1
      <4>2. CASE j \in 1..Len(a)
        <5>1. PICK i \in 1..Len(t) : i \in I /\ a[j] = t[i] /\ b[j] = v[i]
          BY <2>9, <4>2
        <5>2. i \in 1..Len(Append(t, x)) /\ Append(t, x)[i] = t[i] /\ w[i] = v[i]
          BY <2>1, <2>3
        <5> QED
          BY <2>8, <2>9, <4>2, <5>1, <5>2
      <4>3. j = Len(a) + 1 \/ j \in 1..Len(a)
        BY <2>8
      <4> QED
        BY <4>1, <4>2, <4>3, Zenon
    <3>3. Len(Append(a, x)) = Len(Append(b, y)) /\ Len(Append(a, x)) = Len(a) + 1
      BY <2>8, <2>9
    <3> QED
      BY <3>1, <3>2, <3>3
  <2> QED
    BY <2>10, <2>11
<1>3. \A t \in Seq(S) : t \in T
  <2> HIDE DEF T
  <2> QED
    BY <1>1, <1>2, SeqInduct
<1>4. s \in T
  <2> HIDE DEF T
  <2> QED
    BY <1>3
<1> QED
  BY <1>4

-----------------------------------------------------------------------------
(* Blocks and paragraphs, line after line.                                 *)

FlagSets == SUBSET UNION {Letters[w] : w \in DOMAIN Letters}
BlockSet == [flags : FlagSets, tokens : Seq(Tokens)]
Texted == Seq(Seq(Tokens)) \ {<<>>}
Objects == UNION {[D -> Seq(Spellings)] : D \in SUBSET FieldNames}

LEMMA LineTyped ==
  ASSUME NEW l \in Lines
  PROVE  /\ l.tokens \in Seq(Tokens)
         /\ l.colon = Nothing \/ l.colon \in FieldNames
         /\ \A i \in 1..Len(l.tokens) : l.tokens[i] \in Tokens
BY DEF Lines

LEMMA FlagsOfTyped == ASSUME NEW l \in Lines PROVE FlagsOf(l) \in FlagSets
BY DEF FlagsOf, FlagSets

LEMMA LastExtended ==
  ASSUME NEW b \in Seq(BlockSet), b # <<>>, NEW ts \in Seq(Tokens)
  PROVE  /\ [b EXCEPT ![Len(b)].tokens = @ \o ts] \in Seq(BlockSet)
         /\ Len([b EXCEPT ![Len(b)].tokens = @ \o ts]) = Len(b)
         /\ \A i \in 1..Len(b) : i # Len(b) =>
               [b EXCEPT ![Len(b)].tokens = @ \o ts][i] = b[i]
         /\ [b EXCEPT ![Len(b)].tokens = @ \o ts][Len(b)].flags = b[Len(b)].flags
         /\ [b EXCEPT ![Len(b)].tokens = @ \o ts][Len(b)].tokens
               = b[Len(b)].tokens \o ts
<1>1. Len(b) \in 1..Len(b) /\ b[Len(b)] \in BlockSet
  OBVIOUS
<1> DEFINE e == [b[Len(b)] EXCEPT !.tokens = @ \o ts]
<1>2. b[Len(b)].tokens \o ts \in Seq(Tokens)
  BY <1>1, ConcatProperties DEF BlockSet
<1>3. /\ e \in BlockSet /\ e.flags = b[Len(b)].flags
      /\ e.tokens = b[Len(b)].tokens \o ts
  BY <1>1, <1>2 DEF BlockSet
<1>4. [b EXCEPT ![Len(b)].tokens = @ \o ts] = [b EXCEPT ![Len(b)] = e]
  BY <1>1
<1> DEFINE c == [b EXCEPT ![Len(b)] = e]
<1> HIDE DEF e
<1>5. /\ c \in Seq(BlockSet) /\ Len(c) = Len(b)
      /\ \A i \in 1..Len(b) : c[i] = IF i = Len(b) THEN e ELSE b[i]
  BY <1>1, <1>3, ExceptSeq
<1> HIDE DEF c
<1>6. /\ c \in Seq(BlockSet) /\ Len(c) = Len(b)
      /\ \A i \in 1..Len(b) : i # Len(b) => c[i] = b[i]
      /\ c[Len(b)].flags = b[Len(b)].flags
      /\ c[Len(b)].tokens = b[Len(b)].tokens \o ts
  BY <1>1, <1>3, <1>5
<1> QED
  BY <1>4, <1>6, Zenon DEF c

LEMMA AddLineTyped ==
  ASSUME NEW b \in Seq(BlockSet), NEW l \in Lines
  PROVE  AddLine(b, l) \in Seq(BlockSet)
<1>1. [flags |-> FlagsOf(l), tokens |-> l.tokens] \in BlockSet
  BY LineTyped, FlagsOfTyped DEF BlockSet
<1>2. Append(b, [flags |-> FlagsOf(l), tokens |-> l.tokens]) \in Seq(BlockSet)
  BY <1>1, AppendProperties
<1>3. b # <<>> => [b EXCEPT ![Len(b)].tokens = @ \o l.tokens] \in Seq(BlockSet)
  BY LineTyped, LastExtended
<1> QED
  BY <1>2, <1>3 DEF AddLine

LEMMA LastLengthened ==
  ASSUME NEW ps \in Texted, NEW ts \in Seq(Tokens)
  PROVE  /\ [ps EXCEPT ![Len(ps)] = @ \o ts] \in Texted
         /\ Len([ps EXCEPT ![Len(ps)] = @ \o ts]) = Len(ps)
         /\ \A i \in 1..Len(ps) : i # Len(ps) =>
               [ps EXCEPT ![Len(ps)] = @ \o ts][i] = ps[i]
         /\ [ps EXCEPT ![Len(ps)] = @ \o ts][Len(ps)] = ps[Len(ps)] \o ts
<1>1. Len(ps) \in 1..Len(ps) /\ ps \in Seq(Seq(Tokens)) /\ ps[Len(ps)] \in Seq(Tokens)
  BY DEF Texted
<1>2. ps[Len(ps)] \o ts \in Seq(Tokens)
  BY <1>1, ConcatProperties
<1>3. [ps EXCEPT ![Len(ps)] = ps[Len(ps)] \o ts] \in Seq(Seq(Tokens))
  BY <1>1, <1>2, ExceptSeq
<1>4. [ps EXCEPT ![Len(ps)] = @ \o ts] = [ps EXCEPT ![Len(ps)] = ps[Len(ps)] \o ts]
  OBVIOUS
<1> QED
  BY <1>1, <1>2, <1>3, <1>4, ExceptSeq DEF Texted

LEMMA AddTextTyped ==
  ASSUME NEW ps \in Texted, NEW l \in Lines, NEW leftOut
  PROVE  AddText(ps, l, leftOut) \in Texted
<1>1. Append(ps, <<>>) \in Texted
  <2>1. <<>> \in Seq(Tokens) /\ ps \in Seq(Seq(Tokens))
    BY DEF Texted
  <2> QED
    BY <2>1, AppendProperties DEF Texted
<1>2. [ps EXCEPT ![Len(ps)] = @ \o l.tokens] \in Texted
  BY LineTyped, LastLengthened
<1> QED
  BY <1>1, <1>2 DEF AddText

\* Blocks is its loop.
BlocksAlong(f, ls) ==
    /\ f[0] = <<>>
    /\ \A n \in 1..Len(ls) : f[n] = AddLine(f[n - 1], ls[n])

LEMMA BlocksIsLoop ==
  ASSUME NEW ls \in Seq(Lines)
  PROVE  \E f : BlocksAlong(f, ls) /\ Blocks(ls) = f[Len(ls)]
<1> DEFINE L == Len(ls)
           F == [p \in (1..L) \X Seq(BlockSet) |-> AddLine(p[2], ls[p[1]])]
           Loop(f) == f = [n \in 0..Len(ls) |->
                             IF n = 0 THEN <<>> ELSE AddLine(f[n - 1], ls[n])]
<1>0. L \in Nat /\ \A n \in 1..L : ls[n] \in Lines
  OBVIOUS
<1>1. F \in [(1..L) \X Seq(BlockSet) -> Seq(BlockSet)]
  BY <1>0, AddLineTyped
<1>2. PICK h : Along(h, L, Seq(BlockSet), <<>>, F)
  <2> HIDE DEF F, L
  <2>1. <<>> \in Seq(BlockSet)
    BY EmptySeq
  <2> QED
    BY <1>0, <1>1, <2>1, LoopRuns
<1>3. \A n \in 1..L, a \in Seq(BlockSet) : F[<<n, a>>] = AddLine(a, ls[n])
  BY <1>0
<1>4. Loop(h)
  <2> HIDE DEF F
  <2>1. h \in [0..L -> Seq(BlockSet)] /\ h[0] = <<>>
    BY <1>2 DEF Along
  <2>2. ASSUME NEW n \in 1..L
        PROVE  h[n] = AddLine(h[n - 1], ls[n])
    <3>0. n - 1 \in 0..L
      BY <1>0
    <3>1. n - 1 \in 0..L /\ h[n - 1] \in Seq(BlockSet)
      BY <2>1, <3>0, Zenon
    <3>2. h[n] = F[<<n, h[n - 1]>>]
      BY <1>2 DEF Along
    <3> QED
      BY <1>3, <3>1, <3>2
  <2>3. \A n \in 0..L : h[n] = IF n = 0 THEN <<>> ELSE AddLine(h[n - 1], ls[n])
    <3> SUFFICES ASSUME NEW n \in 0..L
                 PROVE  h[n] = IF n = 0 THEN <<>> ELSE AddLine(h[n - 1], ls[n])
      OBVIOUS
    <3>1. n = 0 \/ n \in 1..L
      BY <1>0
    <3> QED
      BY <2>1, <2>2, <3>1
  <2> QED
    BY <2>1, <2>3
<1>5. PICK f : Loop(f) /\ Blocks(ls) = f[Len(ls)]
  BY <1>4 DEF Blocks
<1>6. \A n \in 0..L : f[n] = IF n = 0 THEN <<>> ELSE AddLine(f[n - 1], ls[n])
  BY <1>5
<1>7. BlocksAlong(f, ls)
  BY <1>0, <1>6 DEF BlocksAlong
<1> QED
  BY <1>5, <1>7

LEMMA BlocksEmpty == Blocks(<<>>) = <<>>
<1>1. <<>> \in Seq(Lines)
  OBVIOUS
<1>2. PICK f : BlocksAlong(f, <<>>) /\ Blocks(<<>>) = f[Len(<<>>)]
  BY <1>1, BlocksIsLoop
<1> QED
  BY <1>2 DEF BlocksAlong

LEMMA BlocksAppend ==
  ASSUME NEW ls \in Seq(Lines), NEW l \in Lines
  PROVE  Blocks(Append(ls, l)) = AddLine(Blocks(ls), l)
<1> DEFINE t == Append(ls, l)
           L == Len(ls)
<1>0. /\ L \in Nat /\ t \in Seq(Lines) /\ Len(t) = L + 1 /\ t[L + 1] = l
      /\ \A i \in 1..L : t[i] = ls[i]
  BY AppendProperties
<1>1. PICK f : BlocksAlong(f, ls) /\ Blocks(ls) = f[L]
  BY BlocksIsLoop
<1>2. PICK g : BlocksAlong(g, t) /\ Blocks(t) = g[L + 1]
  <2> HIDE DEF t
  <2> QED
    BY <1>0, BlocksIsLoop
<1> DEFINE T == {n \in 0..L : f[n] = g[n]}
<1> HIDE DEF t, L
<1>3. 0 \in T
  <2>1. f[0] = g[0]
    BY <1>1, <1>2, Zenon DEF BlocksAlong
  <2> QED
    BY <1>0, <2>1
<1>4. ASSUME NEW n \in 0..L - 1, n \in T PROVE n + 1 \in T
  <2>1. n + 1 \in 1..L /\ n + 1 \in 1..Len(t) /\ (n + 1) - 1 = n
    BY <1>0
  <2>2. f[n + 1] = AddLine(f[n], ls[n + 1])
    BY <1>1, <2>1 DEF BlocksAlong, L
  <2>3. g[n + 1] = AddLine(g[n], t[n + 1])
    BY <1>2, <2>1 DEF BlocksAlong
  <2> QED
    BY <1>0, <1>4, <2>1, <2>2, <2>3
<1>5. L \in T
  <2> HIDE DEF T
  <2>1. \A n \in 0..L : n \in T
    BY <1>0, <1>3, <1>4, UpTo
  <2> QED
    BY <1>0, <2>1
<1>6. g[L + 1] = AddLine(g[L], l)
  <2>1. L + 1 \in 1..Len(t) /\ (L + 1) - 1 = L
    BY <1>0
  <2> QED
    BY <1>0, <1>2, <2>1 DEF BlocksAlong
<1> QED
  BY <1>1, <1>2, <1>5, <1>6 DEF t, L

\* Paragraphs is its loop.
ParagraphsAlong(f, ls, leftOut) ==
    /\ f[0] = << <<>> >>
    /\ \A n \in 1..Len(ls) : f[n] = AddText(f[n - 1], ls[n], leftOut)

LEMMA BaseTexted == << <<>> >> \in Texted
BY DEF Texted

LEMMA ParagraphsIsLoop ==
  ASSUME NEW ls \in Seq(Lines), NEW leftOut
  PROVE  \E f : ParagraphsAlong(f, ls, leftOut) /\ Paragraphs(ls, leftOut) = f[Len(ls)]
<1> DEFINE L == Len(ls)
           F == [p \in (1..L) \X Texted |-> AddText(p[2], ls[p[1]], leftOut)]
           Loop(f) == f = [n \in 0..Len(ls) |->
                             IF n = 0 THEN << <<>> >> ELSE AddText(f[n - 1], ls[n], leftOut)]
<1>0. L \in Nat /\ \A n \in 1..L : ls[n] \in Lines
  OBVIOUS
<1>1. F \in [(1..L) \X Texted -> Texted]
  BY <1>0, AddTextTyped
<1>2. PICK h : Along(h, L, Texted, << <<>> >>, F)
  <2> HIDE DEF F, L
  <2>1. << <<>> >> \in Texted
    BY BaseTexted
  <2> QED
    BY <1>0, <1>1, <2>1, LoopRuns
<1>3. \A n \in 1..L, a \in Texted : F[<<n, a>>] = AddText(a, ls[n], leftOut)
  BY <1>0
<1>4. Loop(h)
  <2> HIDE DEF F
  <2>1. h \in [0..L -> Texted] /\ h[0] = << <<>> >>
    BY <1>2 DEF Along
  <2>2. ASSUME NEW n \in 1..L
        PROVE  h[n] = AddText(h[n - 1], ls[n], leftOut)
    <3>1. n - 1 \in 0..L /\ h[n - 1] \in Texted
      BY <1>0, <2>1
    <3>2. h[n] = F[<<n, h[n - 1]>>]
      BY <1>2 DEF Along
    <3> QED
      BY <1>3, <3>1, <3>2
  <2>3. \A n \in 0..L : h[n] = IF n = 0 THEN << <<>> >> ELSE AddText(h[n - 1], ls[n], leftOut)
    <3> SUFFICES ASSUME NEW n \in 0..L
                 PROVE  h[n] = IF n = 0 THEN << <<>> >> ELSE AddText(h[n - 1], ls[n], leftOut)
      OBVIOUS
    <3>1. n = 0 \/ n \in 1..L
      BY <1>0
    <3> QED
      BY <2>1, <2>2, <3>1
  <2> QED
    BY <2>1, <2>3
<1>5. PICK f : Loop(f) /\ Paragraphs(ls, leftOut) = f[Len(ls)]
  BY <1>4 DEF Paragraphs
<1>6. \A n \in 0..L : f[n] = IF n = 0 THEN << <<>> >> ELSE AddText(f[n - 1], ls[n], leftOut)
  BY <1>5
<1>7. ParagraphsAlong(f, ls, leftOut)
  BY <1>0, <1>6 DEF ParagraphsAlong
<1> QED
  BY <1>5, <1>7

LEMMA ParagraphsEmpty == ASSUME NEW leftOut PROVE Paragraphs(<<>>, leftOut) = << <<>> >>
<1>1. <<>> \in Seq(Lines)
  OBVIOUS
<1>2. PICK f : ParagraphsAlong(f, <<>>, leftOut) /\ Paragraphs(<<>>, leftOut) = f[Len(<<>>)]
  BY <1>1, ParagraphsIsLoop
<1> QED
  BY <1>2 DEF ParagraphsAlong

LEMMA ParagraphsAppend ==
  ASSUME NEW ls \in Seq(Lines), NEW l \in Lines, NEW leftOut
  PROVE  Paragraphs(Append(ls, l), leftOut) = AddText(Paragraphs(ls, leftOut), l, leftOut)
<1> DEFINE t == Append(ls, l)
           L == Len(ls)
<1>0. /\ L \in Nat /\ t \in Seq(Lines) /\ Len(t) = L + 1 /\ t[L + 1] = l
      /\ \A i \in 1..L : t[i] = ls[i]
  BY AppendProperties
<1>1. PICK f : ParagraphsAlong(f, ls, leftOut) /\ Paragraphs(ls, leftOut) = f[L]
  BY ParagraphsIsLoop
<1>2. PICK g : ParagraphsAlong(g, t, leftOut) /\ Paragraphs(t, leftOut) = g[L + 1]
  <2> HIDE DEF t
  <2> QED
    BY <1>0, ParagraphsIsLoop
<1> DEFINE T == {n \in 0..L : f[n] = g[n]}
<1> HIDE DEF t, L
<1>3. 0 \in T
  <2>1. f[0] = g[0]
    BY <1>1, <1>2, Zenon DEF ParagraphsAlong
  <2> QED
    BY <1>0, <2>1
<1>4. ASSUME NEW n \in 0..L - 1, n \in T PROVE n + 1 \in T
  <2>1. n + 1 \in 1..L /\ n + 1 \in 1..Len(t) /\ (n + 1) - 1 = n
    BY <1>0
  <2>2. f[n + 1] = AddText(f[n], ls[n + 1], leftOut)
    BY <1>1, <2>1 DEF ParagraphsAlong, L
  <2>3. g[n + 1] = AddText(g[n], t[n + 1], leftOut)
    BY <1>2, <2>1 DEF ParagraphsAlong
  <2> QED
    BY <1>0, <1>4, <2>1, <2>2, <2>3
<1>5. L \in T
  <2> HIDE DEF T
  <2>1. \A n \in 0..L : n \in T
    BY <1>0, <1>3, <1>4, UpTo
  <2> QED
    BY <1>0, <2>1
<1>6. g[L + 1] = AddText(g[L], l, leftOut)
  <2>1. L + 1 \in 1..Len(t) /\ (L + 1) - 1 = L
    BY <1>0
  <2> QED
    BY <1>0, <1>2, <2>1 DEF ParagraphsAlong
<1> QED
  BY <1>1, <1>2, <1>5, <1>6 DEF t, L

-----------------------------------------------------------------------------
(* Texts, objects and pairs, token after token.                            *)

\* FlattenSeq is its loop.
FlatAlong(f, s) ==
    /\ f[1] = s[1]
    /\ \A n \in 2..Len(s) : f[n] = f[n - 1] \o s[n]

LEMMA FlatIsLoop ==
  ASSUME NEW S, NEW s \in Seq(Seq(S)), s # <<>>
  PROVE  \E f : FlatAlong(f, s) /\ FlattenSeq(s) = f[Len(s)]
<1> DEFINE L == Len(s)
           F == [p \in (1..L) \X Seq(S) |-> p[2] \o s[p[1]]]
           Loop(f) == f = [i \in 1..Len(s) |->
                             IF i = 1 THEN s[i] ELSE f[i - 1] \o s[i]]
<1>0. L \in Nat /\ L # 0 /\ \A n \in 1..L : s[n] \in Seq(S)
  OBVIOUS
<1>1. F \in [(1..L) \X Seq(S) -> Seq(S)]
  BY <1>0, ConcatProperties
<1>2. PICK h : Along(h, L, Seq(S), <<>>, F)
  <2> HIDE DEF F, L
  <2>1. <<>> \in Seq(S)
    OBVIOUS
  <2> QED
    BY <1>0, <1>1, <2>1, LoopRuns
<1>3. \A n \in 1..L, a \in Seq(S) : F[<<n, a>>] = a \o s[n]
  BY <1>0
<1> DEFINE g == [n \in 1..L |-> h[n]]
<1>4. Loop(g)
  <2> HIDE DEF F, g
  <2>1. h \in [0..L -> Seq(S)] /\ h[0] = <<>>
    BY <1>2 DEF Along
  <2>2. ASSUME NEW n \in 1..L
        PROVE  h[n] = h[n - 1] \o s[n]
    <3>0. L \in Nat => n - 1 \in 0..L
      OBVIOUS
    <3>1. n - 1 \in 0..L /\ h[n - 1] \in Seq(S)
      BY <1>0, <2>1, <3>0
    <3>2. h[n] = F[<<n, h[n - 1]>>]
      BY <1>2 DEF Along
    <3> QED
      BY <1>3, <3>1, <3>2
  <2>3. 1 \in 1..L /\ <<>> \o s[1] = s[1]
    BY <1>0, ConcatEmptySeq
  <2>4. h[1] = s[1]
    BY <2>1, <2>2, <2>3
  <2> USE DEF g
  <2>5. \A n \in 1..L : g[n] = IF n = 1 THEN s[n] ELSE g[n - 1] \o s[n]
    <3> SUFFICES ASSUME NEW n \in 1..L
                 PROVE  g[n] = IF n = 1 THEN s[n] ELSE g[n - 1] \o s[n]
      OBVIOUS
    <3>1. CASE n = 1
      BY <2>3, <2>4, <3>1
    <3>2. CASE n # 1
      <4>1. n - 1 \in 1..L
        BY <1>0, <3>2
      <4>2. g[n] = h[n] /\ g[n - 1] = h[n - 1]
        BY <4>1
      <4> HIDE DEF g
      <4> QED
        BY <2>2, <3>2, <4>2
    <3> QED
      BY <3>1, <3>2
  <2> QED
    BY <2>5
<1>5. Len(s) # 0
  BY <1>0
<1>6. PICK f : Loop(f) /\ FlattenSeq(s) = f[Len(s)]
  <2> HIDE DEF g
  <2> QED
    BY <1>4, <1>5 DEF FlattenSeq
<1>7. \A n \in 1..L : f[n] = IF n = 1 THEN s[n] ELSE f[n - 1] \o s[n]
  BY <1>6
<1>8. FlatAlong(f, s)
  <2>1. 1 \in 1..L /\ \A n \in 2..L : n \in 1..L /\ n # 1
    BY <1>0
  <2> QED
    BY <1>7, <2>1 DEF FlatAlong
<1> QED
  BY <1>6, <1>8

LEMMA FlatEmpty == FlattenSeq(<<>>) = <<>>
BY DEF FlattenSeq

LEMMA FlatAppend ==
  ASSUME NEW S, NEW s \in Seq(Seq(S)), NEW x \in Seq(S)
  PROVE  FlattenSeq(Append(s, x)) = FlattenSeq(s) \o x
<1> DEFINE t == Append(s, x)
           L == Len(s)
<1>0. /\ L \in Nat /\ t \in Seq(Seq(S)) /\ Len(t) = L + 1 /\ t[L + 1] = x
      /\ t # <<>> /\ \A i \in 1..L : t[i] = s[i]
  BY AppendProperties
<1>1. PICK g : FlatAlong(g, t) /\ FlattenSeq(t) = g[L + 1]
  <2> HIDE DEF t
  <2> QED
    BY <1>0, FlatIsLoop
<1>2. CASE s = <<>>
  <2>1. L = 0 /\ FlattenSeq(s) = <<>> /\ <<>> \o x = x
    BY <1>2, FlatEmpty, ConcatEmptySeq
  <2>2. FlattenSeq(t) = x
    BY <1>0, <1>1, <2>1 DEF FlatAlong
  <2> QED
    BY <2>1, <2>2
<1>3. CASE s # <<>>
  <2>1. PICK f : FlatAlong(f, s) /\ FlattenSeq(s) = f[L]
    BY <1>3, FlatIsLoop
  <2>2. L # 0
    BY <1>3
  <2> DEFINE T == {n \in 0..L : n = 0 \/ f[n] = g[n]}
  <2> HIDE DEF t, L
  <2>3. 0 \in T
    BY <1>0
  <2>4. ASSUME NEW n \in 0..L - 1, n \in T PROVE n + 1 \in T
    <3>1. CASE n = 0
      <4>1. f[1] = s[1] /\ g[1] = t[1] /\ t[1] = s[1]
        BY <1>0, <1>1, <2>1, <2>2 DEF FlatAlong
      <4> QED
        BY <1>0, <2>2, <3>1, <4>1
    <3>2. CASE n # 0
      <4>1. /\ n + 1 \in 2..L /\ n + 1 \in 2..Len(t) /\ (n + 1) - 1 = n
            /\ n + 1 \in 1..L
        BY <1>0, <3>2
      <4>2. f[n + 1] = f[n] \o s[n + 1]
        BY <2>1, <4>1 DEF FlatAlong, L
      <4>3. g[n + 1] = g[n] \o t[n + 1]
        BY <1>1, <4>1 DEF FlatAlong
      <4>4. f[n] = g[n]
        BY <2>4, <3>2
      <4>5. f[n + 1] = g[n + 1]
        BY <1>0, <4>1, <4>2, <4>3, <4>4
      <4>6. n + 1 \in 0..L
        BY <1>0
      <4> QED
        BY <4>5, <4>6
    <3> QED
      BY <3>1, <3>2
  <2>5. \A n \in 0..L : n \in T
    <3> HIDE DEF T
    <3> QED
      BY <1>0, <2>3, <2>4, UpTo
  <2>6. f[L] = g[L]
    BY <1>0, <2>2, <2>5
  <2>7. g[L + 1] = g[L] \o t[L + 1]
    <3>1. L + 1 \in 2..Len(t) /\ (L + 1) - 1 = L
      BY <1>0, <2>2
    <3> QED
      BY <1>1, <3>1 DEF FlatAlong
  <2> QED
    BY <1>0, <1>1, <2>1, <2>6, <2>7 DEF t
<1> QED
  BY <1>2, <1>3

LEMMA FlatTyped ==
  ASSUME NEW S, NEW s \in Seq(Seq(S))
  PROVE  FlattenSeq(s) \in Seq(S)
<1> DEFINE T == {t \in Seq(Seq(S)) : FlattenSeq(t) \in Seq(S)}
<1>1. <<>> \in T
  <2>1. <<>> \in Seq(Seq(S)) /\ FlattenSeq(<<>>) \in Seq(S)
    BY FlatEmpty, Zenon, EmptySeq
  <2> QED
    BY <2>1
<1>2. ASSUME NEW t \in Seq(Seq(S)), NEW x \in Seq(S), t \in T
      PROVE  Append(t, x) \in T
  <2>1. FlattenSeq(Append(t, x)) \in Seq(S)
    BY <1>2, FlatAppend, ConcatProperties
  <2> QED
    BY <2>1, AppendProperties
<1>3. \A t \in Seq(Seq(S)) : t \in T
  <2> HIDE DEF T
  <2> QED
    BY <1>1, <1>2, SeqInduct
<1> QED
  BY <1>3

\* The words of a text, one token more at a time.
LEMMA SpelledTyped ==
  ASSUME NEW t \in Tokens PROVE Spelled(t) \in Seq(Spellings)
<1> DEFINE a == IF t.key = Nothing THEN <<>> ELSE <<t.key>>
           b == IF t.word = Nothing THEN <<>> ELSE <<t.word>>
<1>1. /\ t.key = Nothing \/ t.key \in Spellings
      /\ t.word = Nothing \/ t.word \in Spellings
  BY DEF Tokens, Spellings
<1>2. a \in Seq(Spellings) /\ b \in Seq(Spellings)
  BY <1>1
<1>3. Spelled(t) = a \o b
  BY Zenon DEF Spelled
<1> HIDE DEF a, b
<1> QED
  BY <1>2, <1>3, ConcatProperties

LEMMA SpelledAllTyped ==
  ASSUME NEW ts \in Seq(Tokens)
  PROVE  /\ [i \in DOMAIN ts |-> Spelled(ts[i])] \in Seq(Seq(Spellings))
         /\ Len([i \in DOMAIN ts |-> Spelled(ts[i])]) = Len(ts)
<1>1. DOMAIN ts = 1..Len(ts) /\ Len(ts) \in Nat
  OBVIOUS
<1>2. \A i \in 1..Len(ts) : Spelled(ts[i]) \in Seq(Spellings)
  BY SpelledTyped
<1> QED
  BY <1>1, <1>2

LEMMA TextsTyped ==
  ASSUME NEW ts \in Seq(Tokens)
  PROVE  Texts(ts) \in Seq(Spellings)
<1>1. [i \in DOMAIN ts |-> Spelled(ts[i])] \in Seq(Seq(Spellings))
  BY SpelledAllTyped
<1> QED
  BY <1>1, FlatTyped DEF Texts

LEMMA TextsEmpty == Texts(<<>>) = <<>>
<1>1. [i \in DOMAIN <<>> |-> Spelled(<<>>[i])] = <<>>
  OBVIOUS
<1> QED
  BY <1>1, FlatEmpty DEF Texts

LEMMA TextsAppend ==
  ASSUME NEW ts \in Seq(Tokens), NEW t \in Tokens
  PROVE  Texts(Append(ts, t)) = Texts(ts) \o Spelled(t)
<1> DEFINE s == [i \in DOMAIN ts |-> Spelled(ts[i])]
           u == [i \in DOMAIN Append(ts, t) |-> Spelled(Append(ts, t)[i])]
<1>1. s \in Seq(Seq(Spellings)) /\ Spelled(t) \in Seq(Spellings) /\ Len(s) = Len(ts)
  BY SpelledTyped, SpelledAllTyped
<1>2. u = Append(s, Spelled(t))
  <2>1. /\ Append(ts, t) \in Seq(Tokens) /\ Len(Append(ts, t)) = Len(ts) + 1
        /\ \A i \in 1..Len(ts) : Append(ts, t)[i] = ts[i]
        /\ Append(ts, t)[Len(ts) + 1] = t
    BY AppendProperties
  <2>2. /\ u \in Seq(Seq(Spellings)) /\ Len(u) = Len(ts) + 1
        /\ \A i \in 1..Len(ts) + 1 : u[i] = Spelled(Append(ts, t)[i])
    BY <2>1, SpelledTyped
  <2>3. \A i \in 1..Len(ts) : s[i] = Spelled(ts[i])
    OBVIOUS
  <2> HIDE DEF s, u
  <2>4. /\ Append(s, Spelled(t)) \in Seq(Seq(Spellings))
        /\ Len(Append(s, Spelled(t))) = Len(ts) + 1
        /\ \A i \in 1..Len(ts) : Append(s, Spelled(t))[i] = s[i]
        /\ Append(s, Spelled(t))[Len(ts) + 1] = Spelled(t)
    BY <1>1, AppendProperties
  <2>5. \A i \in 1..Len(ts) + 1 : u[i] = Append(s, Spelled(t))[i]
    <3> SUFFICES ASSUME NEW i \in 1..Len(ts) + 1
                 PROVE  u[i] = Append(s, Spelled(t))[i]
      OBVIOUS
    <3>1. i \in 1..Len(ts) \/ i = Len(ts) + 1
      OBVIOUS
    <3> QED
      BY <2>1, <2>2, <2>3, <2>4, <3>1
  <2> QED
    BY <2>2, <2>4, <2>5, SeqEqual
<1> HIDE DEF s, u
<1> QED
  BY <1>1, <1>2, FlatAppend DEF Texts, s, u

LEMMA TextsOne == ASSUME NEW t \in Tokens PROVE Texts(<<t>>) = Spelled(t)
<1>1. <<t>> = Append(<<>>, t) /\ <<>> \in Seq(Tokens)
  OBVIOUS
<1>2. Texts(Append(<<>>, t)) = Texts(<<>>) \o Spelled(t)
  BY <1>1, TextsAppend, Zenon
<1>3. <<>> \o Spelled(t) = Spelled(t)
  BY SpelledTyped, ConcatEmptySeq, Zenon
<1> QED
  BY <1>1, <1>2, <1>3, TextsEmpty, Zenon

LEMMA TextsTwo ==
  ASSUME NEW t \in Tokens, NEW u \in Tokens
  PROVE  Texts(<<t, u>>) = Spelled(t) \o Spelled(u)
<1>1. <<t, u>> = Append(<<t>>, u) /\ <<t>> \in Seq(Tokens)
  OBVIOUS
<1> QED
  BY <1>1, TextsOne, TextsAppend

LEMMA OverTyped ==
  ASSUME NEW r \in Objects, NEW s \in Objects
  PROVE  Over(r, s) \in Objects
<1>1. DOMAIN r \in SUBSET FieldNames /\ r \in [DOMAIN r -> Seq(Spellings)]
  BY DEF Objects
<1>2. DOMAIN s \in SUBSET FieldNames /\ s \in [DOMAIN s -> Seq(Spellings)]
  BY DEF Objects
<1>3. Over(r, s) \in [DOMAIN r \cup DOMAIN s -> Seq(Spellings)]
  BY <1>1, <1>2 DEF Over
<1> QED
  BY <1>1, <1>2, <1>3 DEF Objects

LEMMA NoFieldsTyped == NoFields \in Objects
<1>1. NoFields \in [{} -> Seq(Spellings)]
  BY DEF NoFields
<1> QED
  BY <1>1 DEF Objects

LEMMA FieldTyped ==
  ASSUME NEW k \in FieldNames, NEW v \in Seq(Spellings) PROVE Field(k, v) \in Objects
<1>1. Field(k, v) \in [{k} -> Seq(Spellings)]
  BY DEF Field
<1> QED
  BY <1>1 DEF Objects

LEMMA AddPairTyped ==
  ASSUME NEW r \in Objects, NEW l \in Lines PROVE AddPair(r, l) \in Objects
BY LineTyped, TextsTyped, FieldTyped, OverTyped DEF AddPair

\* parseKeyValue is its loop.
PairsAlong(f, ls) ==
    /\ f[0] = NoFields
    /\ \A n \in 1..Len(ls) : f[n] = AddPair(f[n - 1], ls[n])

LEMMA PairsIsLoop ==
  ASSUME NEW ls \in Seq(Lines)
  PROVE  \E f : PairsAlong(f, ls) /\ parseKeyValue(ls) = f[Len(ls)]
<1> DEFINE L == Len(ls)
           F == [p \in (1..L) \X Objects |-> AddPair(p[2], ls[p[1]])]
           Loop(f) == f = [n \in 0..Len(ls) |->
                             IF n = 0 THEN NoFields ELSE AddPair(f[n - 1], ls[n])]
<1>0. L \in Nat /\ \A n \in 1..L : ls[n] \in Lines
  OBVIOUS
<1>1. F \in [(1..L) \X Objects -> Objects]
  BY <1>0, AddPairTyped
<1>2. PICK h : Along(h, L, Objects, NoFields, F)
  <2> HIDE DEF F, L
  <2>1. NoFields \in Objects
    BY NoFieldsTyped
  <2> QED
    BY <1>0, <1>1, <2>1, LoopRuns
<1>3. \A n \in 1..L, a \in Objects : F[<<n, a>>] = AddPair(a, ls[n])
  BY <1>0
<1>4. Loop(h)
  <2> HIDE DEF F
  <2>1. h \in [0..L -> Objects] /\ h[0] = NoFields
    BY <1>2 DEF Along
  <2>2. ASSUME NEW n \in 1..L
        PROVE  h[n] = AddPair(h[n - 1], ls[n])
    <3>1. n - 1 \in 0..L /\ h[n - 1] \in Objects
      BY <1>0, <2>1
    <3>2. h[n] = F[<<n, h[n - 1]>>]
      BY <1>2 DEF Along
    <3> QED
      BY <1>3, <3>1, <3>2
  <2>3. \A n \in 0..L : h[n] = IF n = 0 THEN NoFields ELSE AddPair(h[n - 1], ls[n])
    <3> SUFFICES ASSUME NEW n \in 0..L
                 PROVE  h[n] = IF n = 0 THEN NoFields ELSE AddPair(h[n - 1], ls[n])
      OBVIOUS
    <3>1. n = 0 \/ n \in 1..L
      BY <1>0
    <3> QED
      BY <2>1, <2>2, <3>1
  <2> QED
    BY <2>1, <2>3
<1>5. PICK f : Loop(f) /\ parseKeyValue(ls) = f[Len(ls)]
  BY <1>4 DEF parseKeyValue
<1>6. \A n \in 0..L : f[n] = IF n = 0 THEN NoFields ELSE AddPair(f[n - 1], ls[n])
  BY <1>5
<1>7. PairsAlong(f, ls)
  BY <1>0, <1>6 DEF PairsAlong
<1> QED
  BY <1>5, <1>7

LEMMA PairsEmpty == parseKeyValue(<<>>) = NoFields
<1>1. <<>> \in Seq(Lines)
  OBVIOUS
<1>2. PICK f : PairsAlong(f, <<>>) /\ parseKeyValue(<<>>) = f[Len(<<>>)]
  BY <1>1, PairsIsLoop
<1> QED
  BY <1>2 DEF PairsAlong

LEMMA PairsAppend ==
  ASSUME NEW ls \in Seq(Lines), NEW l \in Lines
  PROVE  parseKeyValue(Append(ls, l)) = AddPair(parseKeyValue(ls), l)
<1> DEFINE t == Append(ls, l)
           L == Len(ls)
<1>0. /\ L \in Nat /\ t \in Seq(Lines) /\ Len(t) = L + 1 /\ t[L + 1] = l
      /\ \A i \in 1..L : t[i] = ls[i]
  BY AppendProperties
<1>1. PICK f : PairsAlong(f, ls) /\ parseKeyValue(ls) = f[L]
  BY PairsIsLoop
<1>2. PICK g : PairsAlong(g, t) /\ parseKeyValue(t) = g[L + 1]
  <2> HIDE DEF t
  <2> QED
    BY <1>0, PairsIsLoop
<1> DEFINE T == {n \in 0..L : f[n] = g[n]}
<1> HIDE DEF t, L
<1>3. 0 \in T
  <2>1. f[0] = g[0]
    BY <1>1, <1>2, Zenon DEF PairsAlong
  <2> QED
    BY <1>0, <2>1
<1>4. ASSUME NEW n \in 0..L - 1, n \in T PROVE n + 1 \in T
  <2>1. n + 1 \in 1..L /\ n + 1 \in 1..Len(t) /\ (n + 1) - 1 = n
    BY <1>0
  <2>2. f[n + 1] = AddPair(f[n], ls[n + 1])
    BY <1>1, <2>1 DEF PairsAlong, L
  <2>3. g[n + 1] = AddPair(g[n], t[n + 1])
    BY <1>2, <2>1 DEF PairsAlong
  <2> QED
    BY <1>0, <1>4, <2>1, <2>2, <2>3
<1>5. L \in T
  <2> HIDE DEF T
  <2>1. \A n \in 0..L : n \in T
    BY <1>0, <1>3, <1>4, UpTo
  <2> QED
    BY <1>0, <2>1
<1>6. g[L + 1] = AddPair(g[L], l)
  <2>1. L + 1 \in 1..Len(t) /\ (L + 1) - 1 = L
    BY <1>0
  <2> QED
    BY <1>0, <1>2, <2>1 DEF PairsAlong
<1> QED
  BY <1>1, <1>2, <1>5, <1>6 DEF t, L

-----------------------------------------------------------------------------
(* Fields, from the last token of a text to the first.                     *)

LEMMA LeastExists ==
  ASSUME NEW D, D \subseteq Nat, D # {}
  PROVE  \E x \in D : \A y \in D : x <= y
<1>1. PICK x \in D : \A y \in D : ~(<<y, x>> \in OpToRel(<, Nat))
  BY WFMin, NatLessThanWellFounded
<1>2. \A y \in D : ~(y < x)
  BY <1>1 DEF OpToRel
<1> QED
  BY <1>2

Closing(ts, i) == {j \in i..Len(ts) : ts[j].closes}

LEMMA LastOfIs ==
  ASSUME NEW ts \in Seq(Tokens), NEW i \in 1..Len(ts)
  PROVE  /\ LastOf(ts, i) \in i..Len(ts)
         /\ ts[i].opens /\ Closing(ts, i) # {} =>
               /\ LastOf(ts, i) \in Closing(ts, i)
               /\ \A j \in Closing(ts, i) : LastOf(ts, i) <= j
         /\ ~ts[i].opens \/ Closing(ts, i) = {} => LastOf(ts, i) = i
<1>0. Closing(ts, i) \subseteq Nat
  BY DEF Closing
<1>1. CASE ts[i].opens /\ Closing(ts, i) # {}
  <2>1. LastOf(ts, i) = CHOOSE j \in Closing(ts, i) : \A h \in Closing(ts, i) : j <= h
    BY <1>1, Zenon DEF LastOf, Closing
  <2>2. \E j \in Closing(ts, i) : \A h \in Closing(ts, i) : j <= h
    BY <1>0, <1>1, LeastExists
  <2>3. /\ LastOf(ts, i) \in Closing(ts, i)
        /\ \A j \in Closing(ts, i) : LastOf(ts, i) <= j
    BY <2>1, <2>2
  <2>4. LastOf(ts, i) \in i..Len(ts)
    BY <2>3 DEF Closing
  <2> QED
    BY <1>1, <2>3, <2>4
<1>2. CASE ~(ts[i].opens /\ Closing(ts, i) # {})
  <2>1. LastOf(ts, i) = i
    BY <1>2, Zenon DEF LastOf, Closing
  <2> QED
    BY <1>2, <2>1
<1> QED
  BY <1>1, <1>2

\* extractFields is the loop it is written as, from the last token to the first.
FieldAt(f, ts, i) ==
    IF i > Len(ts) THEN NoFields
    ELSE IF ts[i].key = Nothing \/ (~ts[i].opens /\ ts[i].word = Nothing)
    THEN f[i + 1]
    ELSE Over(f[LastOf(ts, i) + 1], Field(ts[i].key, ValueOf(ts, i)))

ReadAlong(f, ts, m) == \A i \in m..Len(ts) + 1 : f[i] = FieldAt(f, ts, i)

LEMMA FieldAtSame ==
  ASSUME NEW ts \in Seq(Tokens), NEW i \in 1..Len(ts) + 1, NEW f, NEW g,
         \A j \in i + 1..Len(ts) + 1 : f[j] = g[j]
  PROVE  FieldAt(f, ts, i) = FieldAt(g, ts, i)
<1>1. CASE i > Len(ts)
  BY <1>1 DEF FieldAt
<1>2. CASE i \in 1..Len(ts)
  <2>1. LastOf(ts, i) \in i..Len(ts)
    BY <1>2, LastOfIs
  <2>2. i + 1 \in i + 1..Len(ts) + 1 /\ LastOf(ts, i) + 1 \in i + 1..Len(ts) + 1
    BY <1>2, <2>1
  <2>3. f[i + 1] = g[i + 1] /\ f[LastOf(ts, i) + 1] = g[LastOf(ts, i) + 1]
    BY <2>2
  <2> QED
    BY <2>3, Zenon DEF FieldAt
<1> QED
  BY <1>1, <1>2

LEMMA ExtractIsLoop ==
  ASSUME NEW ts \in Seq(Tokens)
  PROVE  \E f : ReadAlong(f, ts, 1) /\ extractFields(ts) = f[1]
<1> DEFINE L == Len(ts)
           T == {m \in 1..L + 1 : \E f : ReadAlong(f, ts, m)}
<1>0. L \in Nat
  OBVIOUS
<1>1. L + 1 \in T
  <2> DEFINE h == [i \in {L + 1} |-> NoFields]
  <2>1. /\ h[L + 1] = NoFields /\ L + 1 > Len(ts)
        /\ \A i \in L + 1..Len(ts) + 1 : i = L + 1
    BY <1>0
  <2> HIDE DEF h, L
  <2>2. ReadAlong(h, ts, L + 1)
    BY <2>1 DEF ReadAlong, FieldAt
  <2> USE DEF L
  <2> HIDE DEF h
  <2> QED
    BY <1>0, <2>2
<1>2. ASSUME NEW m \in 1..L, \A k \in m + 1..L + 1 : k \in T PROVE m \in T
  <2>1. m + 1 \in m + 1..L + 1
    BY <1>0
  <2>2. PICK h : ReadAlong(h, ts, m + 1)
    BY <1>2, <2>1
  <2> DEFINE v == FieldAt(h, ts, m)
             g == [i \in m..L + 1 |-> IF i = m THEN v ELSE h[i]]
  <2>3. g[m] = v /\ \A i \in m + 1..L + 1 : g[i] = h[i]
    BY <1>0
  <2> HIDE DEF g
  <2>4. \A i \in m..L + 1 : FieldAt(g, ts, i) = FieldAt(h, ts, i)
    <3> SUFFICES ASSUME NEW i \in m..L + 1
                 PROVE  FieldAt(g, ts, i) = FieldAt(h, ts, i)
      OBVIOUS
    <3>1. i \in 1..L + 1 /\ \A j \in i + 1..L + 1 : j \in m + 1..L + 1
      BY <1>0
    <3>2. \A j \in i + 1..L + 1 : g[j] = h[j]
      BY <2>3, <3>1
    <3> QED
      BY <3>1, <3>2, FieldAtSame
  <2>5. ReadAlong(g, ts, m)
    <3> SUFFICES ASSUME NEW i \in m..L + 1 PROVE g[i] = FieldAt(g, ts, i)
      BY DEF ReadAlong
    <3>1. CASE i = m
      BY <2>3, <2>4, <3>1
    <3>2. CASE i \in m + 1..L + 1
      BY <2>2, <2>3, <2>4, <3>2 DEF ReadAlong
    <3> QED
      BY <1>0, <3>1, <3>2
  <2> QED
    BY <1>0, <2>5
<1>3. 1 \in T
  <2> HIDE DEF T
  <2>1. \A m \in 1..L + 1 : m \in T
    BY <1>0, <1>1, <1>2, DownFrom
  <2> QED
    BY <1>0, <2>1
<1>4. PICK h : ReadAlong(h, ts, 1)
  BY <1>3
<1> DEFINE g == [i \in 1..Len(ts) + 1 |-> h[i]]
           Loop(f) == f = [i \in 1..Len(ts) + 1 |->
              IF i > Len(ts) THEN NoFields
              ELSE IF ts[i].key = Nothing \/ (~ts[i].opens /\ ts[i].word = Nothing)
              THEN f[i + 1]
              ELSE Over(f[LastOf(ts, i) + 1], Field(ts[i].key, ValueOf(ts, i)))]
<1>5. Loop(g)
  <2>1. \A i \in 1..L + 1 : g[i] = h[i]
    OBVIOUS
  <2>2. \A i \in 1..L + 1 : g[i] = FieldAt(g, ts, i)
    <3> SUFFICES ASSUME NEW i \in 1..L + 1 PROVE g[i] = FieldAt(g, ts, i)
      OBVIOUS
    <3> HIDE DEF g
    <3>1. \A j \in i + 1..L + 1 : g[j] = h[j]
      BY <1>0, <2>1
    <3>2. FieldAt(g, ts, i) = FieldAt(h, ts, i)
      BY <3>1, FieldAtSame
    <3> QED
      BY <1>4, <2>1, <3>2 DEF ReadAlong
  <2>3. g = [i \in 1..Len(ts) + 1 |-> FieldAt(g, ts, i)]
    BY <2>2
  <2> HIDE DEF g
  <2> QED
    BY <2>3, Zenon DEF FieldAt
<1>6. PICK f : Loop(f) /\ extractFields(ts) = f[1]
  <2> HIDE DEF g
  <2> QED
    BY <1>5 DEF extractFields
<1>7. ReadAlong(f, ts, 1)
  <2>1. f = [i \in 1..Len(ts) + 1 |-> FieldAt(f, ts, i)]
    BY <1>6, Zenon DEF FieldAt
  <2>2. \A i \in 1..Len(ts) + 1 : f[i] = FieldAt(f, ts, i)
    BY <2>1
  <2> QED
    BY <2>2 DEF ReadAlong
<1> QED
  BY <1>6, <1>7

-----------------------------------------------------------------------------
(* What stands before a text or after it does not change how it is read.   *)

LEMMA TokensConcat ==
  ASSUME NEW ts \in Seq(Tokens), NEW us \in Seq(Tokens)
  PROVE  /\ ts \o us \in Seq(Tokens)
         /\ Len(ts \o us) = Len(ts) + Len(us)
         /\ Len(ts) \in Nat /\ Len(us) \in Nat
         /\ \A i \in 1..Len(ts) : (ts \o us)[i] = ts[i]
         /\ \A j \in 1..Len(us) : (ts \o us)[Len(ts) + j] = us[j]
BY ConcatProperties

\* A value that ends in ts does not go on in what follows.
LEMMA LastOfKept ==
  ASSUME NEW ts \in Seq(Tokens), NEW us \in Seq(Tokens), NEW i \in 1..Len(ts),
         ts[i].opens => Closing(ts, i) # {}
  PROVE  LastOf(ts \o us, i) = LastOf(ts, i)
<1> DEFINE w == ts \o us
<1>1. /\ w \in Seq(Tokens) /\ Len(w) = Len(ts) + Len(us)
      /\ Len(ts) \in Nat /\ Len(us) \in Nat
      /\ \A k \in 1..Len(ts) : w[k] = ts[k]
  BY TokensConcat
<1> HIDE DEF w
<1>2. i \in 1..Len(w) /\ w[i] = ts[i]
  BY <1>1
<1>3. CASE ~ts[i].opens
  BY <1>1, <1>2, <1>3, LastOfIs DEF w
<1>4. CASE ts[i].opens
  <2>1. /\ LastOf(ts, i) \in Closing(ts, i)
        /\ \A j \in Closing(ts, i) : LastOf(ts, i) <= j
    BY <1>4, LastOfIs
  <2>2. Closing(ts, i) \subseteq Closing(w, i)
    BY <1>1 DEF Closing
  <2>3. /\ LastOf(w, i) \in Closing(w, i)
        /\ \A j \in Closing(w, i) : LastOf(w, i) <= j
    BY <1>1, <1>2, <1>4, <2>1, <2>2, LastOfIs
  <2>4. LastOf(w, i) <= LastOf(ts, i)
    BY <2>1, <2>2, <2>3
  <2>5. LastOf(ts, i) \in i..Len(ts) /\ LastOf(w, i) \in i..Len(w)
    BY <2>1, <2>3 DEF Closing
  <2>6. LastOf(w, i) \in Closing(ts, i)
    BY <1>1, <2>3, <2>4, <2>5 DEF Closing
  <2>7. LastOf(ts, i) <= LastOf(w, i)
    BY <2>1, <2>6
  <2> QED
    BY <1>1, <2>4, <2>5, <2>7 DEF w
<1> QED
  BY <1>3, <1>4

LEMMA SubSeqKept ==
  ASSUME NEW ts \in Seq(Tokens), NEW us \in Seq(Tokens),
         NEW i \in 1..Len(ts), NEW j \in i..Len(ts)
  PROVE  SubSeq(ts \o us, i + 1, j) = SubSeq(ts, i + 1, j)
<1>1. CASE j = i
  BY <1>1, SubSeqEmpty
<1>2. CASE j # i
  <2>1. i + 1 \in 1..Len(ts) /\ j \in 1..Len(ts)
    BY <1>2
  <2> QED
    BY <2>1, SubSeqOfConcat1
<1> QED
  BY <1>1, <1>2

LEMMA ValueOfKept ==
  ASSUME NEW ts \in Seq(Tokens), NEW us \in Seq(Tokens), NEW i \in 1..Len(ts),
         ts[i].opens => Closing(ts, i) # {}
  PROVE  ValueOf(ts \o us, i) = ValueOf(ts, i)
<1>1. (ts \o us)[i] = ts[i] /\ LastOf(ts, i) \in i..Len(ts)
  BY TokensConcat, LastOfIs
<1>2. LastOf(ts \o us, i) = LastOf(ts, i)
  BY LastOfKept
<1>3. (ts \o us)[LastOf(ts, i)] = ts[LastOf(ts, i)]
  BY <1>1, TokensConcat
<1>4. SubSeq(ts \o us, i + 1, LastOf(ts, i)) = SubSeq(ts, i + 1, LastOf(ts, i))
  BY <1>1, SubSeqKept
<1> QED
  BY <1>1, <1>2, <1>3, <1>4, Zenon DEF ValueOf

\* Nor does a value depend on what stands before it.
LEMMA LastOfShifted ==
  ASSUME NEW ts \in Seq(Tokens), NEW us \in Seq(Tokens), NEW j \in 1..Len(us)
  PROVE  LastOf(ts \o us, Len(ts) + j) = Len(ts) + LastOf(us, j)
<1> DEFINE w == ts \o us
           n == Len(ts)
<1>1. /\ w \in Seq(Tokens) /\ Len(w) = n + Len(us)
      /\ n \in Nat /\ Len(us) \in Nat
      /\ \A k \in 1..Len(us) : w[n + k] = us[k]
  BY TokensConcat
<1> HIDE DEF w, n
<1>2. n + j \in 1..Len(w) /\ w[n + j] = us[j]
  BY <1>1
<1>3. \A k \in 1..Len(us) : n + k \in Closing(w, n + j) <=> k \in Closing(us, j)
  BY <1>1 DEF Closing
<1>4. ASSUME NEW k \in Closing(w, n + j)
      PROVE  k - n \in 1..Len(us) /\ k - n \in Closing(us, j) /\ k = n + (k - n)
  <2>1. k \in n + j..Len(w) /\ w[k].closes
    BY DEF Closing
  <2>2. k - n \in 1..Len(us) /\ k = n + (k - n)
    BY <1>1, <2>1
  <2> QED
    BY <1>3, <2>2
<1>5. CASE us[j].opens /\ Closing(us, j) # {}
  <2>1. /\ LastOf(us, j) \in Closing(us, j) /\ LastOf(us, j) \in j..Len(us)
        /\ \A k \in Closing(us, j) : LastOf(us, j) <= k
    BY <1>5, LastOfIs
  <2>2. n + LastOf(us, j) \in Closing(w, n + j)
    BY <1>3, <2>1
  <2>3. /\ LastOf(w, n + j) \in Closing(w, n + j)
        /\ \A k \in Closing(w, n + j) : LastOf(w, n + j) <= k
        /\ LastOf(w, n + j) \in n + j..Len(w)
    BY <1>1, <1>2, <1>5, <2>2, LastOfIs
  <2>4. LastOf(w, n + j) <= n + LastOf(us, j)
    BY <2>2, <2>3
  <2>5. LastOf(us, j) <= LastOf(w, n + j) - n
    BY <1>4, <2>1, <2>3
  <2>6. LastOf(us, j) \in Nat /\ LastOf(w, n + j) \in Nat /\ n \in Nat
    BY <1>1, <2>1, <2>3
  <2> DEFINE a == LastOf(w, n + j)
             b == LastOf(us, j)
  <2> HIDE DEF a, b
  <2>7. a = n + b
    BY <2>4, <2>5, <2>6 DEF a, b
  <2> QED
    BY <2>7 DEF a, b, w, n
<1>6. CASE ~(us[j].opens /\ Closing(us, j) # {})
  <2>1. LastOf(us, j) = j
    BY <1>6, LastOfIs
  <2>2. ~w[n + j].opens \/ Closing(w, n + j) = {}
    BY <1>2, <1>4, <1>6
  <2>3. LastOf(w, n + j) = n + j
    BY <1>1, <1>2, <2>2, LastOfIs
  <2> QED
    BY <2>1, <2>3 DEF w, n
<1> QED
  BY <1>5, <1>6

LEMMA ValueOfShifted ==
  ASSUME NEW ts \in Seq(Tokens), NEW us \in Seq(Tokens), NEW j \in 1..Len(us)
  PROVE  ValueOf(ts \o us, Len(ts) + j) = ValueOf(us, j)
<1> DEFINE w == ts \o us
           n == Len(ts)
           l == LastOf(us, j)
<1>1. w[n + j] = us[j] /\ l \in j..Len(us) /\ n \in Nat /\ Len(us) \in Nat
  BY TokensConcat, LastOfIs
<1>2. LastOf(w, n + j) = n + l
  BY LastOfShifted
<1>3. w[n + l] = us[l]
  <2>1. l \in 1..Len(us)
    BY <1>1
  <2> QED
    BY <2>1, TokensConcat
<1>4. SubSeq(w, n + j + 1, n + l) = SubSeq(us, j + 1, l)
  <2>1. CASE l = j
    <3>1. n + l < n + j + 1 /\ l < j + 1
      BY <1>1, <2>1
    <3> HIDE DEF w, n, l
    <3> QED
      BY <1>1, <2>1, <3>1, SubSeqEmpty
  <2>2. CASE l # j
    <3>1. /\ n + j + 1 \in Len(ts) + 1..Len(ts) + Len(us)
          /\ n + l \in Len(ts) + 1..Len(ts) + Len(us)
      BY <1>1, <2>2
    <3>2. SubSeq(w, n + j + 1, n + l) = SubSeq(us, (n + j + 1) - n, (n + l) - n)
      BY <3>1, SubSeqOfConcat2
    <3>3. (n + j + 1) - n = j + 1 /\ (n + l) - n = l
      BY <1>1
    <3> QED
      BY <3>2, <3>3
  <2> QED
    BY <2>1, <2>2
<1> HIDE DEF w, n, l
<1>5. ValueOf(w, n + j) = ValueOf(us, j)
  BY <1>1, <1>2, <1>3, <1>4, Zenon DEF ValueOf, l
<1> QED
  BY <1>5 DEF w, n

LEMMA OverAssociative ==
  ASSUME NEW r, NEW s, NEW t
  PROVE  Over(Over(r, s), t) = Over(r, Over(s, t))
<1> DEFINE D == DOMAIN r \cup DOMAIN s \cup DOMAIN t
           v(k) == IF k \in DOMAIN r THEN r[k]
                   ELSE IF k \in DOMAIN s THEN s[k] ELSE t[k]
<1>1. Over(Over(r, s), t) = [k \in D |-> v(k)]
  <2>1. /\ DOMAIN Over(r, s) = DOMAIN r \cup DOMAIN s
        /\ \A k \in DOMAIN r \cup DOMAIN s :
              Over(r, s)[k] = IF k \in DOMAIN r THEN r[k] ELSE s[k]
    BY DEF Over
  <2> DEFINE a == Over(r, s)
  <2> HIDE DEF a
  <2>2. Over(a, t) = [k \in DOMAIN a \cup DOMAIN t |->
                        IF k \in DOMAIN a THEN a[k] ELSE t[k]]
    BY DEF Over
  <2>3. \A k \in D : (IF k \in DOMAIN a THEN a[k] ELSE t[k]) = v(k)
    BY <2>1 DEF a
  <2>4. DOMAIN a \cup DOMAIN t = D
    BY <2>1 DEF a
  <2> QED
    BY <2>2, <2>3, <2>4 DEF a
<1>2. Over(r, Over(s, t)) = [k \in D |-> v(k)]
  <2>1. /\ DOMAIN Over(s, t) = DOMAIN s \cup DOMAIN t
        /\ \A k \in DOMAIN s \cup DOMAIN t :
              Over(s, t)[k] = IF k \in DOMAIN s THEN s[k] ELSE t[k]
    BY DEF Over
  <2> DEFINE a == Over(s, t)
  <2> HIDE DEF a
  <2>2. Over(r, a) = [k \in DOMAIN r \cup DOMAIN a |->
                        IF k \in DOMAIN r THEN r[k] ELSE a[k]]
    BY DEF Over
  <2>3. \A k \in D : (IF k \in DOMAIN r THEN r[k] ELSE a[k]) = v(k)
    BY <2>1 DEF a
  <2>4. DOMAIN r \cup DOMAIN a = D
    BY <2>1 DEF a
  <2> QED
    BY <2>2, <2>3, <2>4 DEF a
<1> QED
  BY <1>1, <1>2

LEMMA OverNone ==
  ASSUME NEW r \in Objects
  PROVE  Over(NoFields, r) = r /\ Over(r, NoFields) = r
<1>1. r = [k \in DOMAIN r |-> r[k]]
  BY DEF Objects
<1>2. DOMAIN NoFields = {}
  BY DEF NoFields
<1>3. Over(NoFields, r) = [k \in DOMAIN r |-> r[k]]
  BY <1>2 DEF Over
<1>4. Over(r, NoFields) = [k \in DOMAIN r |-> r[k]]
  BY <1>2 DEF Over
<1> QED
  BY <1>1, <1>3, <1>4

LEMMA ValueOfTyped ==
  ASSUME NEW ts \in Seq(Tokens), NEW i \in 1..Len(ts)
  PROVE  ValueOf(ts, i) \in Seq(Spellings)
<1> DEFINE own == <<[ts[i] EXCEPT !.key = Nothing]>>
           sub == SubSeq(ts, i + 1, LastOf(ts, i))
<1>1. LastOf(ts, i) \in i..Len(ts)
  BY LastOfIs
<1>2. own \in Seq(Tokens)
  <2>1. ts[i] \in Tokens
    OBVIOUS
  <2>2. \A t \in Tokens : [t EXCEPT !.key = Nothing] \in Tokens
    BY DEF Tokens
  <2>3. \A t \in Tokens : <<t>> \in Seq(Tokens)
    OBVIOUS
  <2> QED
    BY <2>1, <2>2, <2>3, Zenon
<1>3. sub \in Seq(Tokens)
  BY <1>1, SubSeqProperties
<1>4. own \o sub \in Seq(Tokens)
  BY <1>2, <1>3, ConcatProperties
<1>5. Texts(own) \in Seq(Spellings) /\ Texts(own \o sub) \in Seq(Spellings)
  BY <1>2, <1>4, TextsTyped
<1>6. <<Quote>> \in Seq(Spellings)
  <2>1. Quote \in Spellings
    BY DEF Spellings
  <2> QED
    BY <2>1
<1> HIDE DEF own, sub
<1>7. <<Quote>> \o Texts(own) \in Seq(Spellings)
  BY <1>5, <1>6, ConcatProperties
<1> QED
  BY <1>5, <1>7, Zenon DEF ValueOf, own, sub

LEMMA FieldAtTyped ==
  ASSUME NEW ts \in Seq(Tokens), NEW i \in 1..Len(ts) + 1, NEW f,
         \A j \in i + 1..Len(ts) + 1 : f[j] \in Objects
  PROVE  FieldAt(f, ts, i) \in Objects
<1>1. CASE i > Len(ts)
  BY <1>1, NoFieldsTyped DEF FieldAt
<1>2. CASE i \in 1..Len(ts)
  <2>1. LastOf(ts, i) \in i..Len(ts)
    BY <1>2, LastOfIs
  <2>2. i + 1 \in i + 1..Len(ts) + 1 /\ LastOf(ts, i) + 1 \in i + 1..Len(ts) + 1
    BY <1>2, <2>1
  <2>3. f[i + 1] \in Objects /\ f[LastOf(ts, i) + 1] \in Objects
    BY <2>2
  <2>4. ts[i].key # Nothing => Field(ts[i].key, ValueOf(ts, i)) \in Objects
    <3>1. ts[i] \in Tokens
      BY <1>2
    <3>2. ts[i].key # Nothing => ts[i].key \in FieldNames
      BY <3>1 DEF Tokens
    <3> QED
      BY <1>2, <3>2, FieldTyped, ValueOfTyped
  <2>5. ts[i].key # Nothing =>
           Over(f[LastOf(ts, i) + 1], Field(ts[i].key, ValueOf(ts, i))) \in Objects
    BY <2>3, <2>4, OverTyped
  <2>6. ~(i > Len(ts))
    BY <1>2
  <2> QED
    BY <2>3, <2>5, <2>6, Zenon DEF FieldAt
<1> QED
  BY <1>1, <1>2

LEMMA ExtractTyped ==
  ASSUME NEW ts \in Seq(Tokens)
  PROVE  extractFields(ts) \in Objects
<1> DEFINE L == Len(ts)
<1>0. L \in Nat
  BY LenProperties
<1>1. PICK f : ReadAlong(f, ts, 1) /\ extractFields(ts) = f[1]
  BY ExtractIsLoop
<1> DEFINE T == {m \in 1..L + 1 : f[m] \in Objects}
<1>2. L + 1 \in T
  <2>1. L + 1 \in 1..Len(ts) + 1 /\ L + 1 > Len(ts)
    BY <1>0
  <2>2. f[L + 1] = NoFields
    BY <1>1, <2>1, Zenon DEF ReadAlong, FieldAt
  <2> QED
    BY <1>0, <2>2, NoFieldsTyped
<1>3. ASSUME NEW m \in 1..L, \A k \in m + 1..L + 1 : k \in T PROVE m \in T
  <2>1. \A j \in m + 1..L + 1 : f[j] \in Objects
    BY <1>3
  <2>2. m \in 1..L + 1 /\ f[m] = FieldAt(f, ts, m)
    BY <1>0, <1>1 DEF ReadAlong
  <2>3. f[m] \in Objects
    BY <2>1, <2>2, FieldAtTyped
  <2> QED
    BY <2>2, <2>3
<1>4. \A m \in 1..L + 1 : m \in T
  <2> HIDE DEF T
  <2> QED
    BY <1>0, <1>2, <1>3, DownFrom
<1> QED
  BY <1>0, <1>1, <1>4

LEMMA ExtractKeyless ==
  ASSUME NEW ts \in Seq(Tokens), \A i \in 1..Len(ts) : ts[i].key = Nothing
  PROVE  extractFields(ts) = NoFields
<1> DEFINE L == Len(ts)
<1>0. L \in Nat
  BY LenProperties
<1>1. PICK f : ReadAlong(f, ts, 1) /\ extractFields(ts) = f[1]
  BY ExtractIsLoop
<1> DEFINE T == {m \in 1..L + 1 : f[m] = NoFields}
<1>2. L + 1 \in T
  <2>1. L + 1 \in 1..Len(ts) + 1 /\ L + 1 > Len(ts)
    BY <1>0
  <2>2. f[L + 1] = NoFields
    BY <1>1, <2>1, Zenon DEF ReadAlong, FieldAt
  <2> QED
    BY <1>0, <2>2
<1>3. ASSUME NEW m \in 1..L, \A k \in m + 1..L + 1 : k \in T PROVE m \in T
  <2>0. /\ m + 1 \in m + 1..L + 1 /\ m \in 1..L + 1 /\ m \in 1..Len(ts) + 1
        /\ ~(m > Len(ts))
    BY <1>0
  <2>1. f[m + 1] = NoFields
    BY <1>3, <2>0
  <2>2. m \in 1..L + 1 /\ f[m] = FieldAt(f, ts, m)
    BY <1>1, <2>0, Zenon DEF ReadAlong
  <2>3. f[m] = NoFields
    BY <2>0, <2>1, <2>2, Zenon DEF FieldAt
  <2> QED
    BY <2>2, <2>3
<1>4. \A m \in 1..L + 1 : m \in T
  <2> HIDE DEF T, L
  <2> QED
    BY <1>0, <1>2, <1>3, DownFrom
<1>5. 1 \in 1..L + 1
  BY <1>0
<1> QED
  BY <1>1, <1>4, <1>5, Zenon

\* Every value that is opened in ts is closed in it.
Closed(ts) == \A i \in 1..Len(ts) : ts[i].opens => Closing(ts, i) # {}

LEMMA WholeConcat ==
  ASSUME NEW ts \in Seq(Tokens), NEW us \in Seq(Tokens), Closed(ts), Closed(us)
  PROVE  Closed(ts \o us)
<1> DEFINE w == ts \o us
<1>1. /\ w \in Seq(Tokens) /\ Len(w) = Len(ts) + Len(us)
      /\ Len(ts) \in Nat /\ Len(us) \in Nat
      /\ \A i \in 1..Len(ts) : w[i] = ts[i]
      /\ \A j \in 1..Len(us) : w[Len(ts) + j] = us[j]
  BY TokensConcat
<1> HIDE DEF w
<1>2. ASSUME NEW i \in 1..Len(w), w[i].opens PROVE Closing(w, i) # {}
  <2>1. CASE i \in 1..Len(ts)
    <3>1. PICK k \in i..Len(ts) : ts[k].closes
      BY <1>1, <1>2, <2>1 DEF Closed, Closing
    <3>2. k \in 1..Len(ts) /\ k \in i..Len(w)
      BY <1>1, <2>1
    <3> QED
      BY <1>1, <3>1, <3>2 DEF Closing
  <2>2. CASE i \notin 1..Len(ts)
    <3>1. i - Len(ts) \in 1..Len(us) /\ i = Len(ts) + (i - Len(ts))
      BY <1>1, <2>2
    <3>2. us[i - Len(ts)].opens
      BY <1>1, <1>2, <3>1
    <3>3. PICK k \in i - Len(ts)..Len(us) : us[k].closes
      BY <3>1, <3>2 DEF Closed, Closing
    <3>4. k \in 1..Len(us) /\ Len(ts) + k \in i..Len(w)
      BY <1>1, <3>1
    <3> QED
      BY <1>1, <3>3, <3>4 DEF Closing
  <2> QED
    BY <2>1, <2>2
<1> QED
  BY <1>2 DEF Closed, w

\* Of two texts, the fields of the second are put over those of the first.
LEMMA ExtractConcat ==
  ASSUME NEW ts \in Seq(Tokens), NEW us \in Seq(Tokens), Closed(ts)
  PROVE  extractFields(ts \o us) = Over(extractFields(us), extractFields(ts))
<1> DEFINE w == ts \o us
           n == Len(ts)
           m == Len(us)
<1>1. /\ w \in Seq(Tokens) /\ Len(w) = n + m /\ n \in Nat /\ m \in Nat
      /\ \A i \in 1..n : w[i] = ts[i]
      /\ \A j \in 1..m : w[n + j] = us[j]
  BY TokensConcat
<1>2. PICK f : ReadAlong(f, ts, 1) /\ extractFields(ts) = f[1]
  BY ExtractIsLoop
<1>3. PICK g : ReadAlong(g, us, 1) /\ extractFields(us) = g[1]
  BY ExtractIsLoop
<1>4. PICK h : ReadAlong(h, w, 1) /\ extractFields(w) = h[1]
  BY <1>1, ExtractIsLoop
<1>5. g[1] \in Objects
  BY <1>3, ExtractTyped
<1> HIDE DEF w, n, m
\* Behind ts, w is read as us is.
<1>6. h[n + 1] = g[1]
  <2> DEFINE T == {j \in 1..m + 1 : h[n + j] = g[j]}
  <2>1. m + 1 \in T
    <3>1. n + (m + 1) \in 1..Len(w) + 1 /\ n + (m + 1) > Len(w)
      BY <1>1
    <3>2. h[n + (m + 1)] = NoFields
      BY <1>4, <3>1 DEF ReadAlong, FieldAt
    <3>3. m + 1 \in 1..Len(us) + 1 /\ m + 1 > Len(us)
      BY <1>1 DEF m
    <3>4. g[m + 1] = NoFields
      BY <1>3, <3>3 DEF ReadAlong, FieldAt
    <3> QED
      BY <1>1, <3>2, <3>4
  <2>2. ASSUME NEW j \in 1..m, \A k \in j + 1..m + 1 : k \in T PROVE j \in T
    <3>1. \A k \in j + 1..m + 1 : h[n + k] = g[k]
      BY <2>2
    <3>2. /\ j \in 1..Len(us) + 1 /\ n + j \in 1..Len(w) + 1
          /\ ~(j > Len(us)) /\ ~(n + j > Len(w)) /\ j \in 1..Len(us)
      BY <1>1 DEF m
    <3>3. /\ LastOf(us, j) \in j..m
          /\ LastOf(w, n + j) = n + LastOf(us, j)
          /\ ValueOf(w, n + j) = ValueOf(us, j)
      BY <3>2, LastOfIs, LastOfShifted, ValueOfShifted DEF w, n, m
    <3>4. /\ j + 1 \in j + 1..m + 1 /\ (n + j) + 1 = n + (j + 1)
          /\ LastOf(us, j) + 1 \in j + 1..m + 1
          /\ (n + LastOf(us, j)) + 1 = n + (LastOf(us, j) + 1)
      BY <1>1, <3>3
    <3>5. /\ h[(n + j) + 1] = g[j + 1]
          /\ h[LastOf(w, n + j) + 1] = g[LastOf(us, j) + 1]
      BY <3>1, <3>3, <3>4
    <3>6. w[n + j] = us[j]
      BY <1>1
    <3>7. FieldAt(h, w, n + j) = FieldAt(g, us, j)
      BY <3>2, <3>3, <3>5, <3>6, Zenon DEF FieldAt
    <3>8. h[n + j] = g[j]
      BY <1>3, <1>4, <3>2, <3>7, Zenon DEF ReadAlong
    <3> QED
      BY <1>1, <3>8
  <2>3. \A j \in 1..m + 1 : j \in T
    <3> HIDE DEF T
    <3> QED
      BY <1>1, <2>1, <2>2, DownFrom
  <2> QED
    BY <1>1, <2>3
\* Within ts, w is read as ts is, under what is behind.
<1>7. h[1] = Over(g[1], f[1])
  <2> DEFINE T == {i \in 1..n + 1 : h[i] = Over(g[1], f[i])}
  <2>1. n + 1 \in T
    <3>1. n + 1 \in 1..Len(ts) + 1 /\ n + 1 > Len(ts)
      BY <1>1 DEF n
    <3>2. f[n + 1] = NoFields
      BY <1>2, <3>1 DEF ReadAlong, FieldAt
    <3> QED
      BY <1>1, <1>5, <1>6, <3>2, OverNone
  <2>2. ASSUME NEW i \in 1..n, \A k \in i + 1..n + 1 : k \in T PROVE i \in T
    <3>1. \A k \in i + 1..n + 1 : h[k] = Over(g[1], f[k])
      BY <2>2
    <3>2. /\ i \in 1..Len(ts) + 1 /\ i \in 1..Len(w) + 1
          /\ ~(i > Len(ts)) /\ ~(i > Len(w)) /\ i \in 1..Len(ts)
      BY <1>1 DEF n
    <3>3. ts[i].opens => Closing(ts, i) # {}
      BY <3>2 DEF Closed
    <3>4. /\ LastOf(ts, i) \in i..n
          /\ LastOf(w, i) = LastOf(ts, i)
          /\ ValueOf(w, i) = ValueOf(ts, i)
      BY <3>2, <3>3, LastOfIs, LastOfKept, ValueOfKept DEF w, n
    <3>5. i + 1 \in i + 1..n + 1 /\ LastOf(ts, i) + 1 \in i + 1..n + 1
      BY <1>1, <3>4
    <3>6. w[i] = ts[i]
      BY <1>1
    <3>7. h[i] = FieldAt(h, w, i) /\ f[i] = FieldAt(f, ts, i)
      BY <1>2, <1>4, <3>2 DEF ReadAlong
    <3>8. CASE ts[i].key = Nothing \/ (~ts[i].opens /\ ts[i].word = Nothing)
      <4>1. h[i] = h[i + 1] /\ f[i] = f[i + 1]
        BY <3>2, <3>6, <3>7, <3>8, Zenon DEF FieldAt
      <4> QED
        BY <1>1, <3>1, <3>5, <4>1
    <3>9. CASE ~(ts[i].key = Nothing \/ (~ts[i].opens /\ ts[i].word = Nothing))
      <4> DEFINE l == LastOf(ts, i) + 1
                 o == Field(ts[i].key, ValueOf(ts, i))
      <4>1. h[i] = Over(h[l], o)
        BY <3>2, <3>4, <3>6, <3>7, <3>9, Zenon DEF FieldAt
      <4>2. f[i] = Over(f[l], o)
        BY <3>2, <3>7, <3>9, Zenon DEF FieldAt
      <4>3. h[l] = Over(g[1], f[l])
        BY <3>1, <3>5
      <4> HIDE DEF l, o
      <4>4. h[i] = Over(g[1], f[i])
        BY <4>1, <4>2, <4>3, OverAssociative
      <4> QED
        BY <1>1, <4>4
    <3> QED
      BY <3>8, <3>9
  <2>3. \A i \in 1..n + 1 : i \in T
    <3> HIDE DEF T
    <3> QED
      BY <1>1, <2>1, <2>2, DownFrom
  <2> QED
    BY <1>1, <2>3
<1> QED
  BY <1>2, <1>3, <1>4, <1>7 DEF w

-----------------------------------------------------------------------------
(* What the device prints of a field, and what is read of it.              *)

LEMMA ValuesAre ==
  ASSUME NEW v \in Values
  PROVE  /\ v \in Seq(Words)
         /\ \/ v = <<>>
            \/ \E a \in Words : v = <<a>>
            \/ \E a, b \in Words : v = <<a, b>>
<1>1. PICK n \in 0..2 : v \in [1..n -> Words]
  BY DEF Values
<1>2. v \in Seq(Words) /\ Len(v) = n
  BY <1>1
<1>3. CASE n = 0
  BY <1>2, <1>3
<1>4. CASE n = 1
  <2>1. v[1] \in Words /\ v = <<v[1]>>
    BY <1>2, <1>4
  <2> QED
    BY <1>2, <2>1
<1>5. CASE n = 2
  <2>1. v[1] \in Words /\ v[2] \in Words /\ v = <<v[1], v[2]>>
    BY <1>2, <1>5
  <2> QED
    BY <1>2, <2>1
<1> QED
  BY <1>1, <1>3, <1>4, <1>5

LEMMA NothingIsNoWord ==
  /\ Nothing \notin Words /\ Nothing \notin FieldNames /\ Numbers \subseteq Words
<1>1. {Nothing, Quote} \cap (Words \cup Keys) = {} /\ Numbers \subseteq Words
  BY ParsersAssumption, Zenon
<1>2. Counters \subseteq [key : STRING \ {Nothing}, value : Seq(Numbers) \ {<<>>},
                         quoted : {FALSE}]
  BY ParsersAssumption, Zenon
<1>3. \A f \in Counters : f.key # Nothing
  BY <1>2
<1> QED
  BY <1>1, <1>3 DEF FieldNames

\* A field in the text: its key, with its value behind it.
LEMMA FieldTokensAre ==
  ASSUME NEW f \in Fields \cup Counters
  PROVE  /\ FieldTokens(f) \in Seq(Tokens)
         /\ Len(FieldTokens(f)) = IF f.value = <<>> THEN 1 ELSE Len(f.value)
         /\ Len(FieldTokens(f)) \in Nat \ {0}
         /\ f.key \in FieldNames /\ FieldTokens(f)[1].key = f.key
         /\ \A i \in 1..Len(FieldTokens(f)) :
               /\ i # 1 => FieldTokens(f)[i].key = Nothing
               /\ FieldTokens(f)[i].opens <=> f.quoted /\ i = 1
               /\ FieldTokens(f)[i].closes <=> f.quoted /\ i = Len(FieldTokens(f))
               /\ FieldTokens(f)[i].word = IF f.value = <<>> THEN Nothing ELSE f.value[i]
<1> DEFINE n == Len(f.value)
           size == IF n = 0 THEN 1 ELSE n
           W(i) == IF i <= n THEN f.value[i] ELSE Nothing
           E(i) == Token(IF i = 1 THEN f.key ELSE Nothing, f.quoted /\ i = 1, W(i),
                         f.quoted /\ i = size, 0)
<1>1. /\ f.value \in Seq(Words) /\ f.key \in FieldNames /\ f.quoted \in BOOLEAN
  <2>1. CASE f \in Fields
    <3>1. f \in [key : Keys, value : Values, quoted : BOOLEAN]
      BY <2>1, ParsersAssumption
    <3> QED
      BY <3>1, ValuesAre DEF FieldNames
  <2>2. CASE f \in Counters
    <3>1. /\ f.value \in Seq(Numbers) /\ f.quoted = FALSE /\ Numbers \subseteq Words
      BY <2>2, ParsersAssumption
    <3>2. f.key \in FieldNames
      BY <2>2 DEF FieldNames
    <3> QED
      BY <3>1, <3>2, SeqMonotonic
  <2> QED
    BY <2>1, <2>2
<1>2. n \in Nat /\ size \in Nat \ {0} /\ (n = 0 <=> f.value = <<>>)
      /\ \A i \in 1..n : f.value[i] \in Words
  BY <1>1
<1>3. FieldTokens(f) = [i \in 1..size |-> E(i)]
  BY Zenon DEF FieldTokens
<1>4. \A i \in 1..size : W(i) = IF f.value = <<>> THEN Nothing ELSE f.value[i]
  BY <1>2
<1>5. \A i \in 1..size : W(i) \in Words \cup {Nothing}
  BY <1>2
<1> HIDE DEF n, size, W
<1>6. \A i \in 1..size :
         /\ E(i) \in Tokens
         /\ E(i).key = IF i = 1 THEN f.key ELSE Nothing
         /\ E(i).opens = (f.quoted /\ i = 1)
         /\ E(i).closes = (f.quoted /\ i = size)
         /\ E(i).word = W(i)
  BY <1>1, <1>2, <1>5 DEF Tokens, Token
<1> HIDE DEF E
<1>7. /\ FieldTokens(f) \in Seq(Tokens) /\ Len(FieldTokens(f)) = size
      /\ \A i \in 1..size : FieldTokens(f)[i] = E(i)
  BY <1>2, <1>3, <1>6
<1>8. size = IF f.value = <<>> THEN 1 ELSE Len(f.value)
  BY <1>2 DEF size, n
<1> DEFINE ts == FieldTokens(f)
<1> HIDE DEF ts
<1>9. /\ ts \in Seq(Tokens) /\ Len(ts) = size /\ size \in Nat \ {0}
      /\ \A i \in 1..size : ts[i] = E(i)
  BY <1>2, <1>7 DEF ts
<1>10. ts[1].key = f.key
  <2>1. 1 \in 1..size
    BY <1>2
  <2> QED
    BY <1>6, <1>9, <2>1
<1>11. ASSUME NEW i \in 1..Len(ts)
       PROVE  /\ i # 1 => ts[i].key = Nothing
              /\ ts[i].opens <=> f.quoted /\ i = 1
              /\ ts[i].closes <=> f.quoted /\ i = Len(ts)
              /\ ts[i].word = IF f.value = <<>> THEN Nothing ELSE f.value[i]
  <2>1. i \in 1..size /\ ts[i] = E(i) /\ Len(ts) = size
    BY <1>9
  <2>2. i # 1 => ts[i].key = Nothing
    BY <1>6, <2>1
  <2>3. ts[i].opens <=> f.quoted /\ i = 1
    BY <1>1, <1>6, <2>1
  <2>4. ts[i].closes <=> f.quoted /\ i = Len(ts)
    BY <1>1, <1>6, <2>1
  <2>5. ts[i].word = IF f.value = <<>> THEN Nothing ELSE f.value[i]
    BY <1>4, <1>6, <2>1
  <2> QED
    BY <2>2, <2>3, <2>4, <2>5
<1> QED
  BY <1>1, <1>8, <1>9, <1>10, <1>11 DEF ts

LEMMA FieldTokensWhole ==
  ASSUME NEW f \in Fields \cup Counters PROVE Closed(FieldTokens(f))
<1>1. \A i \in 1..Len(FieldTokens(f)) : FieldTokens(f)[i].opens =>
         Len(FieldTokens(f)) \in Closing(FieldTokens(f), i)
  BY FieldTokensAre DEF Closing
<1> QED
  BY <1>1 DEF Closed

\* What is read of a value: all of it in quotes, its first word without them.
LEMMA OneThenOne ==
  ASSUME NEW S, NEW a \in S, NEW b \in S PROVE <<a>> \o <<b>> = <<a, b>>
<1>1. <<a>> \in Seq(S) /\ <<b>> \in Seq(S) /\ <<a, b>> \in Seq(S)
  OBVIOUS
<1>2. /\ <<a>> \o <<b>> \in Seq(S) /\ Len(<<a>> \o <<b>>) = 2
      /\ (<<a>> \o <<b>>)[1] = a /\ (<<a>> \o <<b>>)[2] = b
  BY <1>1
<1>3. Len(<<a, b>>) = 2 /\ <<a, b>>[1] = a /\ <<a, b>>[2] = b
  OBVIOUS
<1> DEFINE s == <<a>> \o <<b>>
           t == <<a, b>>
<1>4. /\ s \in Seq(S) /\ t \in Seq(S) /\ Len(s) = 2 /\ Len(t) = 2
      /\ s[1] = t[1] /\ s[2] = t[2]
  BY <1>1, <1>2, <1>3
<1> HIDE DEF s, t
<1>5. \A i \in 1..Len(s) : s[i] = t[i]
  BY <1>4
<1>6. s = t
  BY <1>4, <1>5, SeqEqual
<1> QED
  BY <1>6 DEF s, t

LEMMA FieldValueIsRead ==
  ASSUME NEW f \in Fields
  PROVE  ValueOf(FieldTokens(f), 1) = UpToBlank(f)
<1> DEFINE ts == FieldTokens(f)
           own == [ts[1] EXCEPT !.key = Nothing]
<1>1. /\ f.value \in Values /\ f.quoted \in BOOLEAN
      /\ f.quoted \/ f.value # <<>>
  BY ParsersAssumption
<1>2. /\ ts \in Seq(Tokens) /\ 1 \in 1..Len(ts)
      /\ Len(ts) = IF f.value = <<>> THEN 1 ELSE Len(f.value)
      /\ \A i \in 1..Len(ts) :
            /\ i # 1 => ts[i].key = Nothing
            /\ ts[i].opens <=> f.quoted /\ i = 1
            /\ ts[i].closes <=> f.quoted /\ i = Len(ts)
            /\ ts[i].word = IF f.value = <<>> THEN Nothing ELSE f.value[i]
  BY FieldTokensAre
<1> HIDE DEF ts
<1>3. LastOf(ts, 1) = IF f.quoted THEN Len(ts) ELSE 1
  <2>1. CASE f.quoted
    <3>1. Closing(ts, 1) = {Len(ts)}
      BY <1>2, <2>1 DEF Closing
    <3> QED
      BY <1>2, <2>1, <3>1, LastOfIs
  <2>2. CASE ~f.quoted
    BY <1>2, <2>2, LastOfIs
  <2> QED
    BY <2>1, <2>2
<1>4. own \in Tokens /\ own.key = Nothing /\ own.word = ts[1].word
  <2>1. ts[1] \in Tokens
    BY <1>2
  <2> QED
    BY <2>1 DEF Tokens
<1>5. /\ <<>> \o <<>> = <<>>
      /\ \A a : <<>> \o <<a>> = <<a>>
      /\ \A a, b \in Words : <<a>> \o <<b>> = <<a, b>>
      /\ \A a, b \in Tokens : <<a>> \o <<b>> = <<a, b>>
  <2>1. <<>> \o <<>> = <<>>
    OBVIOUS
  <2>2. \A a : <<>> \o <<a>> = <<a>>
    OBVIOUS
  <2>3. \A a, b \in Words : <<a>> \o <<b>> = <<a, b>>
    BY OneThenOne
  <2>4. \A a, b \in Tokens : <<a>> \o <<b>> = <<a, b>>
    BY OneThenOne
  <2> QED
    BY <2>1, <2>2, <2>3, <2>4
<1>6. Spelled(own) = IF f.value = <<>> THEN <<>> ELSE <<f.value[1]>>
  <2>1. CASE f.value = <<>>
    <3>1. own.word = Nothing
      BY <1>2, <1>4, <2>1
    <3> QED
      BY <1>4, <1>5, <2>1, <3>1, Zenon DEF Spelled
  <2>2. CASE f.value # <<>>
    <3>1. own.word = f.value[1] /\ f.value[1] \in Words
      BY <1>1, <1>2, <1>4, <2>2, ValuesAre
    <3>2. own.word # Nothing
      BY <3>1, NothingIsNoWord
    <3> QED
      BY <1>4, <1>5, <2>2, <3>1, <3>2, Zenon DEF Spelled
  <2> QED
    BY <2>1, <2>2
<1> HIDE DEF own
<1>7. ValueOf(ts, 1) = Texts(<<own>> \o SubSeq(ts, 2, LastOf(ts, 1)))
  <2>1. ~(ts[1].opens /\ ~ts[LastOf(ts, 1)].closes) /\ 1 + 1 = 2
    BY <1>2, <1>3
  <2> QED
    BY <2>1, Zenon DEF ValueOf, own
<1>8. CASE LastOf(ts, 1) = 1
  <2>1. <<own>> \o SubSeq(ts, 2, LastOf(ts, 1)) = <<own>>
    <3>1. SubSeq(ts, 2, 1) = <<>>
      BY SubSeqEmpty
    <3>2. <<own>> \in Seq(Tokens)
      BY <1>4
    <3> QED
      BY <1>8, <3>1, <3>2, ConcatEmptySeq
  <2>2. ValueOf(ts, 1) = Spelled(own)
    BY <1>4, <1>7, <2>1, TextsOne
  <2>3. Spelled(own) = UpToBlank(f)
    <3>1. CASE f.value = <<>>
      BY <1>1, <1>6, <3>1 DEF UpToBlank
    <3>2. CASE f.value # <<>>
      <4>1. f.quoted => Len(f.value) = 1
        BY <1>2, <1>3, <1>8, <3>2
      <4>2. f.quoted => f.value = <<f.value[1]>>
        BY <1>1, <3>2, <4>1, ValuesAre
      <4> QED
        BY <1>6, <3>2, <4>2 DEF UpToBlank
    <3> QED
      BY <3>1, <3>2
  <2> QED
    BY <2>2, <2>3 DEF ts
<1>9. CASE LastOf(ts, 1) # 1
  <2>1. f.quoted /\ f.value # <<>> /\ Len(f.value) # 1
    BY <1>2, <1>3, <1>9
  <2>2. PICK a \in Words, b \in Words : f.value = <<a, b>>
    BY <1>1, <2>1, ValuesAre
  <2>3. Len(ts) = 2 /\ LastOf(ts, 1) = 2 /\ ts[2] \in Tokens
    BY <1>2, <1>3, <2>1, <2>2
  <2>4. <<own>> \o SubSeq(ts, 2, LastOf(ts, 1)) = <<own, ts[2]>>
    <3>1. SubSeq(ts, 2, 2) = <<ts[2]>>
      <4>1. SubSeq(ts, 2, 2) \in Seq(Tokens) /\ Len(SubSeq(ts, 2, 2)) = 1
            /\ SubSeq(ts, 2, 2)[1] = ts[2]
        BY <1>2, <2>3, SubSeqProperties
      <4>2. <<ts[2]>> \in Seq(Tokens) /\ Len(<<ts[2]>>) = 1 /\ <<ts[2]>>[1] = ts[2]
        BY <2>3
      <4> DEFINE u == SubSeq(ts, 2, 2)
                 v == <<ts[2]>>
      <4>3. /\ u \in Seq(Tokens) /\ v \in Seq(Tokens) /\ Len(u) = 1 /\ Len(v) = 1
            /\ u[1] = v[1]
        BY <4>1, <4>2
      <4> HIDE DEF u, v
      <4>4. \A i \in 1..Len(u) : u[i] = v[i]
        BY <4>3
      <4>5. u = v
        BY <4>3, <4>4, SeqEqual
      <4> QED
        BY <4>5 DEF u, v
    <3> QED
      BY <1>4, <1>5, <2>3, <3>1
  <2>5. ts[2].key = Nothing /\ ts[2].word = b /\ b # Nothing
    BY <1>2, <2>1, <2>2, <2>3, NothingIsNoWord
  <2>6. Spelled(ts[2]) = <<b>>
    BY <1>5, <2>5, Zenon DEF Spelled
  <2>7. Spelled(own) = <<a>>
    BY <1>6, <2>1, <2>2
  <2>8. ValueOf(ts, 1) = <<a>> \o <<b>>
    BY <1>4, <1>7, <2>3, <2>4, <2>6, <2>7, TextsTwo
  <2> QED
    BY <1>5, <2>1, <2>2, <2>8 DEF UpToBlank, ts
<1> QED
  BY <1>8, <1>9

LEMMA FieldIsRead ==
  ASSUME NEW f \in Fields
  PROVE  extractFields(FieldTokens(f)) = Field(f.key, UpToBlank(f))
<1> DEFINE ts == FieldTokens(f)
<1>1. /\ f.value \in Values /\ f.quoted \in BOOLEAN
      /\ f.quoted \/ f.value # <<>>
  BY ParsersAssumption
<1>2. /\ ts \in Seq(Tokens) /\ 1 \in 1..Len(ts)
      /\ Len(ts) = IF f.value = <<>> THEN 1 ELSE Len(f.value)
      /\ ts[1].key = f.key /\ f.key # Nothing
      /\ \A i \in 1..Len(ts) :
            /\ i # 1 => ts[i].key = Nothing
            /\ ts[i].opens <=> f.quoted /\ i = 1
            /\ ts[i].closes <=> f.quoted /\ i = Len(ts)
            /\ ts[i].word = IF f.value = <<>> THEN Nothing ELSE f.value[i]
  BY FieldTokensAre, NothingIsNoWord
<1>3. ValueOf(ts, 1) = UpToBlank(f)
  BY FieldValueIsRead
<1> HIDE DEF ts
<1>4. ~(ts[1].key = Nothing \/ (~ts[1].opens /\ ts[1].word = Nothing))
  <2>1. ~f.quoted => f.value[1] \in Words /\ f.value # <<>>
    BY <1>1, ValuesAre
  <2> QED
    BY <1>2, <2>1, NothingIsNoWord
<1>5. PICK h : ReadAlong(h, ts, 1) /\ extractFields(ts) = h[1]
  BY <1>2, ExtractIsLoop
<1>6. \A i \in 1..Len(ts) + 1 : h[i] = FieldAt(h, ts, i)
  BY <1>5 DEF ReadAlong
<1>7. h[Len(ts) + 1] = NoFields
  <2>1. Len(ts) + 1 \in 1..Len(ts) + 1 /\ Len(ts) + 1 > Len(ts)
    BY <1>2
  <2> QED
    BY <1>6, <2>1, Zenon DEF FieldAt
<1>8. h[LastOf(ts, 1) + 1] = NoFields
  <2>1. CASE f.quoted
    <3>1. Closing(ts, 1) = {Len(ts)}
      BY <1>2, <2>1 DEF Closing
    <3>2. LastOf(ts, 1) = Len(ts)
      BY <1>2, <2>1, <3>1, LastOfIs
    <3> QED
      BY <1>7, <3>2
  <2>2. CASE ~f.quoted
    <3>1. LastOf(ts, 1) = 1
      BY <1>2, <2>2, LastOfIs
    <3>2. CASE Len(ts) = 1
      BY <1>7, <3>1, <3>2
    <3>3. CASE Len(ts) # 1
      <4>1. Len(ts) = 2
        BY <1>1, <1>2, <3>3, ValuesAre
      <4>2. 2 \in 1..Len(ts) + 1 /\ 2 \in 1..Len(ts) /\ ~(2 > Len(ts))
        BY <4>1
      <4>4. ts[2].key = Nothing
        BY <1>2, <4>2
      <4>3. h[2] = h[2 + 1]
        BY <1>6, <4>2, <4>4, Zenon DEF FieldAt
      <4> QED
        BY <1>7, <3>1, <4>1, <4>3
    <3> QED
      BY <3>2, <3>3
  <2> QED
    BY <2>1, <2>2
<1>9. h[1] = Over(h[LastOf(ts, 1) + 1], Field(ts[1].key, ValueOf(ts, 1)))
  <2>1. 1 \in 1..Len(ts) + 1 /\ ~(1 > Len(ts))
    BY <1>2
  <2> QED
    BY <1>4, <1>6, <2>1, Zenon DEF FieldAt
<1>10. Field(ts[1].key, ValueOf(ts, 1)) \in Objects
  BY <1>2, FieldTyped, FieldTokensAre, ValueOfTyped DEF ts
<1> QED
  BY <1>2, <1>3, <1>5, <1>8, <1>9, <1>10, OverNone DEF ts

-----------------------------------------------------------------------------
(* Numbers whose digits are in groups.                                     *)

LEMMA LeastIs ==
  ASSUME NEW D, D \subseteq Nat, NEW x \in D, \A y \in D : x <= y
  PROVE  (CHOOSE j \in D : \A h \in D : j <= h) = x
<1> DEFINE c == CHOOSE j \in D : \A h \in D : j <= h
<1>1. c \in D /\ \A h \in D : c <= h
  OBVIOUS
<1> HIDE DEF c
<1>2. c \in Nat /\ x \in Nat /\ c <= x /\ x <= c
  BY <1>1
<1>3. c = x
  BY <1>2
<1> QED
  BY <1>3 DEF c

\* The digits from token i on stand before token e.
LEMMA DigitsAre ==
  ASSUME NEW ts \in Seq(Tokens), NEW i \in 1..Len(ts), NEW e \in i + 1..Len(ts) + 1,
         e = Len(ts) + 1 \/ ~IsNumber(ts[e]),
         \A j \in i + 1..e - 1 : IsNumber(ts[j])
  PROVE  Digits(ts, i) = [k \in 1..e - i |-> ts[i + k - 1].word]
<1> DEFINE ends == {j \in i + 1..Len(ts) : ~IsNumber(ts[j])} \cup {Len(ts) + 1}
<1>1. ends \subseteq Nat /\ e \in ends /\ \A j \in ends : e <= j
  OBVIOUS
<1>2. (CHOOSE j \in ends : \A h \in ends : j <= h) = e
  <2> HIDE DEF ends
  <2> QED
    BY <1>1, LeastIs
<1> QED
  BY <1>2, Zenon DEF Digits

LEMMA DigitsEnd ==
  ASSUME NEW ts \in Seq(Tokens), NEW i \in 1..Len(ts)
  PROVE  \E e \in i + 1..Len(ts) + 1 :
            /\ e = Len(ts) + 1 \/ ~IsNumber(ts[e])
            /\ \A j \in i + 1..e - 1 : IsNumber(ts[j])
<1> DEFINE ends == {j \in i + 1..Len(ts) : ~IsNumber(ts[j])} \cup {Len(ts) + 1}
<1>1. ends \subseteq Nat /\ Len(ts) + 1 \in ends
  OBVIOUS
<1>2. PICK e \in ends : \A j \in ends : e <= j
  <2> HIDE DEF ends
  <2> QED
    BY <1>1, LeastExists
<1>3. e \in i + 1..Len(ts) + 1 /\ (e = Len(ts) + 1 \/ ~IsNumber(ts[e]))
  BY <1>2
<1>4. \A j \in i + 1..e - 1 : IsNumber(ts[j])
  <2> TAKE j \in i + 1..e - 1
  <2>1. j \in i + 1..Len(ts) /\ j < e
    BY <1>3
  <2>2. j \notin ends
    <3>1. \A y \in ends : e <= y /\ y \in Nat /\ e \in Nat
      BY <1>1, <1>2
    <3> HIDE DEF ends
    <3> QED
      BY <2>1, <3>1
  <2> QED
    BY <2>1, <2>2
<1> QED
  BY <1>3, <1>4

\* No name ends a token that has no key, or a field that is no counter.
LEMMA NothingEndsIn ==
  /\ \A n \in StatNames \cup {"name"} : ~EndsIn(Nothing, n)
  /\ \A f \in Fields, n \in StatNames : ~EndsIn(f.key, n)
<1>1. \A n \in StatNames \cup {"name"} : n # Nothing
  BY Zenon DEF StatNames, Nothing
<1>2. /\ \A q \in Longer : q[1] # Nothing
      /\ \A f \in Fields, n \in StatNames : ~EndsIn(f.key, n)
  BY ParsersAssumption, Zenon
<1>3. ASSUME NEW n \in StatNames \cup {"name"} PROVE ~EndsIn(Nothing, n)
  <2> DEFINE q == <<Nothing, n>>
  <2>1. q[1] = Nothing
    OBVIOUS
  <2>2. q \notin Longer
    BY <1>2, <2>1, Zenon
  <2> QED
    BY <1>1, <2>2, Zenon DEF EndsIn
<1> QED
  BY <1>2, <1>3, Zenon

Counted(ts, k) == {i \in DOMAIN ts : /\ EndsIn(ts[i].key, k) /\ ~ts[i].opens
                                      /\ ts[i].word \in Numbers}
Called(ts) == {i \in DOMAIN ts : EndsIn(ts[i].key, "name") /\ ts[i].opens}

LEMMA NumFieldNone ==
  ASSUME NEW ts \in Seq(Tokens), NEW k, \A i \in 1..Len(ts) : ~EndsIn(ts[i].key, k)
  PROVE  NumField(ts, k) = <<"0">>
<1>1. Counted(ts, k) = {}
  BY DEF Counted
<1> QED
  BY <1>1, Zenon DEF NumField, Counted

LEMMA NumFieldFirst ==
  ASSUME NEW ts \in Seq(Tokens), NEW k, NEW i \in Counted(ts, k),
         \A j \in Counted(ts, k) : i <= j
  PROVE  NumField(ts, k) = Digits(ts, i)
<1>1. Counted(ts, k) \subseteq Nat
  BY DEF Counted
<1>2. (CHOOSE j \in Counted(ts, k) : \A h \in Counted(ts, k) : j <= h) = i
  BY <1>1, LeastIs
<1>3. Counted(ts, k) # {}
  OBVIOUS
<1> QED
  BY <1>2, <1>3, Zenon DEF NumField, Counted

\* A number stays what it is when something with a key follows.
LEMMA NumFieldKept ==
  ASSUME NEW ts \in Seq(Tokens), NEW us \in Seq(Tokens), NEW k,
         Counted(ts, k) # {}, us # <<>>, us[1].key # Nothing
  PROVE  NumField(ts \o us, k) = NumField(ts, k)
<1> DEFINE w == ts \o us
<1>1. /\ w \in Seq(Tokens) /\ Len(w) = Len(ts) + Len(us) /\ Len(ts) \in Nat
      /\ Len(us) \in Nat /\ Len(us) >= 1
      /\ \A i \in 1..Len(ts) : w[i] = ts[i]
      /\ w[Len(ts) + 1] = us[1]
  <2>1. /\ w \in Seq(Tokens) /\ Len(w) = Len(ts) + Len(us) /\ Len(ts) \in Nat
        /\ Len(us) \in Nat
        /\ \A i \in 1..Len(ts) : w[i] = ts[i]
        /\ \A j \in 1..Len(us) : w[Len(ts) + j] = us[j]
    BY TokensConcat
  <2>2. Len(us) >= 1
    BY <2>1
  <2>3. 1 \in 1..Len(us)
    BY <2>1, <2>2
  <2> QED
    BY <2>1, <2>2, <2>3
<1> HIDE DEF w
<1>2. Counted(ts, k) \subseteq Nat
  BY DEF Counted
<1>3. PICK i \in Counted(ts, k) : \A j \in Counted(ts, k) : i <= j
  BY <1>2, LeastExists
<1>4. i \in 1..Len(ts) /\ EndsIn(ts[i].key, k) /\ ~ts[i].opens /\ ts[i].word \in Numbers
  BY <1>3 DEF Counted
<1>5. i \in Counted(w, k)
  BY <1>1, <1>4 DEF Counted
<1>6. \A j \in Counted(w, k) : i <= j
  <2> TAKE j \in Counted(w, k)
  <2>1. j \in 1..Len(w) /\ EndsIn(w[j].key, k) /\ ~w[j].opens /\ w[j].word \in Numbers
    BY <1>1 DEF Counted
  <2>2. CASE j <= Len(ts)
    <3>1. j \in 1..Len(ts) /\ w[j] = ts[j]
      BY <1>1, <2>1, <2>2
    <3>2. j \in Counted(ts, k)
      BY <2>1, <3>1 DEF Counted
    <3> QED
      BY <1>3, <3>2
  <2>3. CASE j > Len(ts)
    BY <1>1, <1>4, <2>1, <2>3
  <2> QED
    BY <1>1, <2>1, <2>2, <2>3
<1>7. NumField(ts, k) = Digits(ts, i) /\ NumField(w, k) = Digits(w, i)
  BY <1>1, <1>3, <1>5, <1>6, NumFieldFirst
<1>8. PICK e \in i + 1..Len(ts) + 1 :
         /\ e = Len(ts) + 1 \/ ~IsNumber(ts[e])
         /\ \A j \in i + 1..e - 1 : IsNumber(ts[j])
  BY <1>4, DigitsEnd
<1>9. /\ e \in i + 1..Len(w) + 1 /\ i \in 1..Len(w)
      /\ \A j \in i..e - 1 : j \in 1..Len(ts) /\ w[j] = ts[j]
  BY <1>1, <1>4, <1>8
<1>10. ~IsNumber(w[e])
  <2>1. CASE e = Len(ts) + 1
    BY <1>1, <2>1 DEF IsNumber, IsPlain
  <2>2. CASE e # Len(ts) + 1
    <3>1. e \in 1..Len(ts) /\ w[e] = ts[e]
      BY <1>1, <1>4, <1>8, <2>2
    <3> QED
      BY <1>8, <2>2, <3>1
  <2> QED
    BY <2>1, <2>2
<1>11. \A j \in i + 1..e - 1 : IsNumber(w[j])
  <2> TAKE j \in i + 1..e - 1
  <2>1. IsNumber(ts[j]) /\ j \in i..e - 1
    BY <1>4, <1>8
  <2> QED
    BY <1>9, <2>1
<1>12. Digits(ts, i) = [n \in 1..e - i |-> ts[i + n - 1].word]
  BY <1>4, <1>8, DigitsAre
<1>13. Digits(w, i) = [n \in 1..e - i |-> w[i + n - 1].word]
  BY <1>1, <1>9, <1>10, <1>11, DigitsAre
<1>14. \A n \in 1..e - i : w[i + n - 1] = ts[i + n - 1]
  <2> TAKE n \in 1..e - i
  <2>1. i + n - 1 \in i..e - 1
    BY <1>4, <1>8
  <2> QED
    BY <1>9, <2>1
<1>15. [n \in 1..e - i |-> w[i + n - 1].word] = [n \in 1..e - i |-> ts[i + n - 1].word]
  BY <1>14, Zenon
<1> QED
  BY <1>7, <1>12, <1>13, <1>15 DEF w

\* The name stays what it is, whatever follows.
LEMMA NameInFirst ==
  ASSUME NEW ts \in Seq(Tokens), NEW i \in Called(ts), \A j \in Called(ts) : i <= j
  PROVE  NameIn(ts) = ValueOf(ts, i)
<1>1. Called(ts) \subseteq Nat
  BY DEF Called
<1>2. (CHOOSE j \in Called(ts) : \A h \in Called(ts) : j <= h) = i
  BY <1>1, LeastIs
<1>3. Called(ts) # {}
  OBVIOUS
<1> QED
  BY <1>2, <1>3, Zenon DEF NameIn, Called

LEMMA NameInKept ==
  ASSUME NEW ts \in Seq(Tokens), NEW us \in Seq(Tokens), Called(ts) # {}, Closed(ts)
  PROVE  NameIn(ts \o us) = NameIn(ts)
<1> DEFINE w == ts \o us
<1>1. /\ w \in Seq(Tokens) /\ Len(w) = Len(ts) + Len(us) /\ Len(ts) \in Nat
      /\ Len(us) \in Nat
      /\ \A i \in 1..Len(ts) : w[i] = ts[i]
  BY TokensConcat
<1>2. Called(ts) \subseteq Nat
  BY DEF Called
<1>3. PICK i \in Called(ts) : \A j \in Called(ts) : i <= j
  BY <1>2, LeastExists
<1>4. i \in 1..Len(ts) /\ EndsIn(ts[i].key, "name") /\ ts[i].opens
  BY <1>3 DEF Called
<1>5. ValueOf(w, i) = ValueOf(ts, i)
  BY <1>4, ValueOfKept DEF Closed
<1> HIDE DEF w
<1>6. i \in Called(w)
  BY <1>1, <1>4 DEF Called
<1>7. \A j \in Called(w) : i <= j
  <2> TAKE j \in Called(w)
  <2>1. j \in 1..Len(w) /\ EndsIn(w[j].key, "name") /\ w[j].opens
    BY <1>1 DEF Called
  <2>2. CASE j <= Len(ts)
    <3>1. j \in 1..Len(ts) /\ w[j] = ts[j]
      BY <1>1, <2>1, <2>2
    <3>2. j \in Called(ts)
      BY <2>1, <3>1 DEF Called
    <3> QED
      BY <1>3, <3>2
  <2>3. CASE j > Len(ts)
    BY <1>1, <1>4, <2>1, <2>3
  <2> QED
    BY <1>1, <2>1, <2>2, <2>3
<1>8. NameIn(ts) = ValueOf(ts, i) /\ NameIn(w) = ValueOf(w, i)
  BY <1>1, <1>3, <1>6, <1>7, NameInFirst
<1> QED
  BY <1>5, <1>8 DEF w

LEMMA CountersAre ==
  ASSUME NEW f \in Counters
  PROVE  /\ f.value \in Seq(Numbers) /\ f.value # <<>> /\ f.quoted = FALSE
         /\ f.key # Nothing /\ f.key \in FieldNames
<1>1. /\ f.value \in Seq(Numbers) /\ f.value # <<>> /\ f.quoted = FALSE
  BY ParsersAssumption
<1>2. f.key \in FieldNames
  BY DEF FieldNames
<1> QED
  BY <1>1, <1>2, NothingIsNoWord

\* A counter printed behind ts is read with all its digits.
LEMMA NumFieldRead ==
  ASSUME NEW ts \in Seq(Tokens), NEW f \in Counters, NEW n, EndsIn(f.key, n),
         \A i \in 1..Len(ts) : ~EndsIn(ts[i].key, n)
  PROVE  /\ NumField(ts \o FieldTokens(f), n) = f.value
         /\ Counted(ts \o FieldTokens(f), n) # {}
<1> DEFINE us == FieldTokens(f)
           w == ts \o us
           v == f.value
<1>1. /\ v \in Seq(Numbers) /\ v # <<>> /\ Len(v) \in Nat \ {0}
      /\ f.quoted = FALSE /\ f.key # Nothing
      /\ \A i \in 1..Len(v) : v[i] \in Numbers
  <2>1. v \in Seq(Numbers) /\ v # <<>> /\ f.quoted = FALSE /\ f.key # Nothing
    BY CountersAre
  <2> HIDE DEF v
  <2>2. Len(v) \in Nat \ {0} /\ \A i \in 1..Len(v) : v[i] \in Numbers
    BY <2>1
  <2> QED
    BY <2>1, <2>2
<1>2. /\ us \in Seq(Tokens) /\ Len(us) = Len(v) /\ us[1].key = f.key
      /\ \A i \in 1..Len(v) :
            /\ i # 1 => us[i].key = Nothing
            /\ ~us[i].opens /\ ~us[i].closes /\ us[i].word = v[i]
  <2>1. f \in Fields \cup Counters
    OBVIOUS
  <2>2. Len(us) = Len(v)
    BY <1>1, <2>1, FieldTokensAre
  <2>3. us \in Seq(Tokens) /\ us[1].key = f.key
    BY <2>1, FieldTokensAre
  <2>4. \A i \in 1..Len(us) :
            /\ i # 1 => us[i].key = Nothing
            /\ us[i].opens <=> f.quoted /\ i = 1
            /\ us[i].closes <=> f.quoted /\ i = Len(us)
            /\ us[i].word = IF f.value = <<>> THEN Nothing ELSE f.value[i]
    BY <2>1, FieldTokensAre
  <2> HIDE DEF us
  <2>5. \A i \in 1..Len(v) :
            /\ i # 1 => us[i].key = Nothing
            /\ ~us[i].opens /\ ~us[i].closes /\ us[i].word = v[i]
    <3> TAKE i \in 1..Len(v)
    <3>1. i \in 1..Len(us)
      BY <2>2
    <3> QED
      BY <1>1, <2>4, <3>1
  <2> QED
    BY <2>2, <2>3, <2>5
<1> HIDE DEF us
<1>3. /\ w \in Seq(Tokens) /\ Len(w) = Len(ts) + Len(v) /\ Len(ts) \in Nat
      /\ \A i \in 1..Len(ts) : w[i] = ts[i]
      /\ \A j \in 1..Len(v) : w[Len(ts) + j] = us[j]
  <2>1. /\ w \in Seq(Tokens) /\ Len(w) = Len(ts) + Len(us) /\ Len(ts) \in Nat
        /\ \A i \in 1..Len(ts) : w[i] = ts[i]
        /\ \A j \in 1..Len(us) : w[Len(ts) + j] = us[j]
    BY <1>2, TokensConcat
  <2> HIDE DEF w
  <2> QED
    BY <1>2, <2>1
<1> HIDE DEF w, v
<1> DEFINE i0 == Len(ts) + 1
<1>4. 1 \in 1..Len(v) /\ i0 \in 1..Len(w) /\ w[i0] = us[1]
  BY <1>1, <1>3
<1>5. i0 \in Counted(w, n)
  <2>1. EndsIn(w[i0].key, n) /\ ~w[i0].opens /\ w[i0].word \in Numbers
    BY <1>1, <1>2, <1>4
  <2> QED
    BY <1>3, <1>4, <2>1 DEF Counted
<1>6. \A j \in Counted(w, n) : i0 <= j
  <2> TAKE j \in Counted(w, n)
  <2>1. j \in 1..Len(w) /\ EndsIn(w[j].key, n)
    BY <1>3 DEF Counted
  <2>2. ~(j \in 1..Len(ts))
    BY <1>3, <2>1
  <2> QED
    BY <1>3, <2>1, <2>2
<1>7. NumField(w, n) = Digits(w, i0)
  BY <1>3, <1>5, <1>6, NumFieldFirst
<1>8. \A j \in i0 + 1..Len(w) : IsNumber(w[j])
  <2> TAKE j \in i0 + 1..Len(w)
  <2> DEFINE m == j - Len(ts)
  <2>1. m \in 1..Len(v) /\ m # 1 /\ j = Len(ts) + m
    BY <1>1, <1>3
  <2> HIDE DEF m
  <2>2. w[j] = us[m] /\ us[m].key = Nothing /\ us[m].word \in Numbers
        /\ ~us[m].opens /\ ~us[m].closes
    BY <1>1, <1>2, <1>3, <2>1
  <2> QED
    BY <2>2 DEF IsNumber, IsPlain
<1>9. Digits(w, i0) = [k \in 1..Len(v) |-> w[i0 + k - 1].word]
  <2> DEFINE e == Len(w) + 1
  <2>1. e \in i0 + 1..Len(w) + 1 /\ e - 1 = Len(w) /\ e - i0 = Len(v)
    BY <1>1, <1>3
  <2> HIDE DEF i0
  <2>2. Digits(w, i0) = [k \in 1..e - i0 |-> w[i0 + k - 1].word]
    BY <1>3, <1>4, <1>8, <2>1, DigitsAre
  <2> HIDE DEF e
  <2> QED
    BY <2>1, <2>2
<1>10. \A k \in 1..Len(v) : w[i0 + k - 1].word = v[k]
  <2> TAKE k \in 1..Len(v)
  <2>1. i0 + k - 1 = Len(ts) + k
    BY <1>1, <1>3
  <2> QED
    BY <1>2, <1>3, <2>1
<1>11. [k \in 1..Len(v) |-> w[i0 + k - 1].word] = [k \in 1..Len(v) |-> v[k]]
  <2> HIDE DEF i0
  <2> QED
    BY <1>10, Zenon
<1>12. [k \in 1..Len(v) |-> v[k]] = v
  BY <1>1
<1>13. NumField(w, n) = v
  BY <1>7, <1>9, <1>11, <1>12, Zenon
<1> QED
  BY <1>5, <1>13 DEF w, v, us

\* What stands in front of the fields of a record: its index and its flags.
LEMMA IndexAndFlags ==
  ASSUME NEW w \in DOMAIN Letters \cup {Nothing}, NEW at \in Nat
  PROVE  /\ AnIndex \in Seq(Tokens) /\ FlagWord(w, at) \in Seq(Tokens)
         /\ Len(AnIndex) = 1 /\ IsNumber(AnIndex[1])
         /\ AnIndex[1].at = 0 /\ AnIndex[1].key = Nothing /\ ~AnIndex[1].opens
         /\ w # Nothing => w \notin Numbers
         /\ Word(w, at) \in Tokens /\ Word(w, at).word = w /\ Word(w, at).at = at
         /\ FlagWord(w, at) = IF w = Nothing THEN <<>> ELSE <<Word(w, at)>>
         /\ AnIndex \o FlagWord(w, at) \in Seq(Tokens)
         /\ FlagsIn(w) \in FlagSets
         /\ \A i \in 1..Len(FlagWord(w, at)) :
               /\ FlagWord(w, at)[i].key = Nothing /\ ~FlagWord(w, at)[i].opens
         /\ \A i \in 1..Len(AnIndex \o FlagWord(w, at)) :
               /\ (AnIndex \o FlagWord(w, at))[i].key = Nothing
               /\ ~(AnIndex \o FlagWord(w, at))[i].opens
<1> DEFINE n == CHOOSE n \in Numbers : TRUE
           t == Word(n, 0)
           u == Word(w, at)
<1>1. n \in Numbers /\ Numbers \subseteq Words /\ DOMAIN Letters \subseteq Words \ Numbers
  <2>1. Numbers # {} /\ DOMAIN Letters \subseteq Words \ Numbers
    BY ParsersAssumption, Zenon
  <2> QED
    BY <2>1, NothingIsNoWord
<1>2. /\ t \in Tokens /\ IsNumber(t) /\ t.key = Nothing /\ ~t.opens
      /\ t.at = 0 /\ AnIndex = <<t>>
  <2> HIDE DEF n
  <2>1. t \in Tokens /\ IsNumber(t) /\ t.key = Nothing /\ ~t.opens /\ t.at = 0
    BY <1>1 DEF Word, Token, Tokens, IsNumber, IsPlain
  <2>2. AnIndex = <<t>>
    BY Zenon DEF AnIndex, n
  <2> QED
    BY <2>1, <2>2
<1>3. u \in Tokens /\ u.key = Nothing /\ ~u.opens /\ u.word = w /\ u.at = at
  BY <1>1 DEF Word, Token, Tokens
<1> HIDE DEF t, u
<1> DEFINE fw == FlagWord(w, at)
<1>4. fw = <<>> \/ fw = <<u>>
  BY Zenon DEF FlagWord, u
<1> HIDE DEF fw
<1>5. /\ fw \in Seq(Tokens)
      /\ \A i \in 1..Len(fw) : fw[i].key = Nothing /\ ~fw[i].opens
  <2>1. CASE fw = <<>>
    BY <2>1
  <2>2. CASE fw = <<u>>
    <3>1. fw \in Seq(Tokens) /\ Len(fw) = 1 /\ fw[1] = u
      BY <1>3, <2>2
    <3> QED
      BY <1>3, <3>1
  <2> QED
    BY <1>4, <2>1, <2>2
<1> DEFINE s == <<t>>
<1>6. s \in Seq(Tokens) /\ Len(s) = 1 /\ s[1] = t
  BY <1>2
<1> HIDE DEF s
<1>7. s \o fw \in Seq(Tokens)
      /\ \A i \in 1..Len(s \o fw) : (s \o fw)[i].key = Nothing /\ ~(s \o fw)[i].opens
  <2>1. /\ s \o fw \in Seq(Tokens) /\ Len(s \o fw) = 1 + Len(fw) /\ Len(fw) \in Nat
        /\ \A i \in 1..1 : (s \o fw)[i] = s[i]
        /\ \A i \in 1..Len(fw) : (s \o fw)[1 + i] = fw[i]
    <3>1. /\ s \o fw \in Seq(Tokens) /\ Len(s \o fw) = Len(s) + Len(fw)
          /\ Len(fw) \in Nat
          /\ \A i \in 1..Len(s) : (s \o fw)[i] = s[i]
          /\ \A i \in 1..Len(fw) : (s \o fw)[Len(s) + i] = fw[i]
      BY <1>5, <1>6, TokensConcat
    <3> QED
      BY <1>6, <3>1, Zenon
  <2>2. ASSUME NEW i \in 1..Len(s \o fw)
        PROVE  (s \o fw)[i].key = Nothing /\ ~(s \o fw)[i].opens
    <3>1. CASE i = 1
      BY <1>2, <1>6, <2>1, <3>1
    <3>2. CASE i # 1
      <4> DEFINE j == i - 1
      <4>1. j \in 1..Len(fw) /\ i = 1 + j
        BY <2>1, <3>2
      <4> HIDE DEF j
      <4>2. (s \o fw)[i] = fw[j]
        BY <2>1, <4>1
      <4> QED
        BY <1>5, <4>1, <4>2
    <3> QED
      BY <3>1, <3>2
  <2> QED
    BY <2>1, <2>2
<1>8. FlagsIn(w) \in FlagSets
  <2>1. CASE w = Nothing
    BY <2>1 DEF FlagsIn, FlagSets
  <2>2. CASE w # Nothing
    <3>1. w \in DOMAIN Letters /\ FlagsIn(w) = Letters[w]
      BY <2>2, Zenon DEF FlagsIn
    <3> QED
      BY <3>1 DEF FlagSets
  <2> QED
    BY <2>1, <2>2
<1>9. AnIndex = s
  BY <1>2 DEF s
<1>10. AnIndex[1] = t /\ Len(AnIndex) = 1
  BY <1>6, <1>9
<1>11. FlagWord(w, at) = IF w = Nothing THEN <<>> ELSE <<Word(w, at)>>
  BY Zenon DEF FlagWord
<1>12. w # Nothing => w \notin Numbers
  BY <1>1
<1> QED
  BY <1>2, <1>3, <1>5, <1>6, <1>7, <1>8, <1>9, <1>10, <1>11, <1>12, Zenon DEF fw, u

LEMMA OpensNothing ==
  ASSUME NEW ts \in Seq(Tokens), \A i \in 1..Len(ts) : ~ts[i].opens
  PROVE  Closed(ts)
  BY DEF Closed

-----------------------------------------------------------------------------
(* The text of an interface.                                               *)

\* The text ts of an interface says what its record says.
Says(ts, fields, k) ==
    IF \E f \in fields : EndsIn(f.key, k)
    THEN /\ Counted(ts, k) # {}
         /\ \E f \in fields : EndsIn(f.key, k) /\ NumField(ts, k) = f.value
    ELSE \A i \in 1..Len(ts) : ~EndsIn(ts[i].key, k)

Interface(ts, fields) ==
    /\ ts \in Seq(Tokens) /\ Closed(ts)
    /\ Called(ts) # {}
    /\ \E f \in fields : f.key = "name" /\ f.value # <<>> /\ NameIn(ts) = f.value
    /\ \A k \in StatNames : Says(ts, fields, k)

LEMMA InterfaceBegins ==
  ASSUME NEW p \in Seq(Tokens), NEW name \in Fields,
         \A i \in 1..Len(p) : p[i].key = Nothing /\ ~p[i].opens,
         name.key = "name", name.quoted, name.value # <<>>
  PROVE  Interface(p \o FieldTokens(name), {name})
<1> DEFINE us == FieldTokens(name)
           w == p \o us
           i0 == Len(p) + 1
<1>1. /\ us \in Seq(Tokens) /\ 1 \in 1..Len(us) /\ us[1].key = "name" /\ us[1].opens
      /\ \A i \in 1..Len(us) : i # 1 => us[i].key = Nothing
      /\ Closed(us) /\ ValueOf(us, 1) = name.value
  <2>1. name \in Fields \cup Counters
    OBVIOUS
  <2>2. us \in Seq(Tokens) /\ Len(us) \in Nat \ {0} /\ us[1].key = name.key
    BY <2>1, FieldTokensAre
  <2>3. \A i \in 1..Len(us) : /\ i # 1 => us[i].key = Nothing
                              /\ us[i].opens <=> name.quoted /\ i = 1
    BY <2>1, FieldTokensAre
  <2>4. Closed(us)
    BY <2>1, FieldTokensWhole
  <2>5. ValueOf(us, 1) = name.value
    BY FieldValueIsRead DEF UpToBlank
  <2> HIDE DEF us
  <2>6. 1 \in 1..Len(us)
    BY <2>2
  <2> QED
    BY <2>2, <2>3, <2>4, <2>5, <2>6
<1>2. Closed(w)
  BY <1>1, OpensNothing, WholeConcat
<1>3. ValueOf(w, i0) = name.value
  BY <1>1, ValueOfShifted
<1> HIDE DEF us
<1>4. /\ w \in Seq(Tokens) /\ Len(w) = Len(p) + Len(us) /\ Len(p) \in Nat /\ Len(us) \in Nat
      /\ \A i \in 1..Len(p) : w[i] = p[i]
      /\ \A j \in 1..Len(us) : w[Len(p) + j] = us[j]
  BY <1>1, TokensConcat
<1> HIDE DEF w
<1>5. i0 \in 1..Len(w) /\ w[i0] = us[1]
  BY <1>1, <1>4
<1>6. \A i \in 1..Len(w) : i # i0 => w[i].key = Nothing
  <2> TAKE i \in 1..Len(w)
  <2>1. CASE i <= Len(p)
    <3>1. i \in 1..Len(p)
      BY <1>4, <2>1
    <3> QED
      BY <1>4, <3>1
  <2>2. CASE i > Len(p)
    <3> DEFINE j == i - Len(p)
    <3>1. j \in 1..Len(us) /\ i = Len(p) + j /\ (i # i0 => j # 1)
      BY <1>4, <2>2
    <3> HIDE DEF j, i0
    <3> QED
      BY <1>1, <1>4, <3>1
  <2> QED
    BY <1>4, <2>1, <2>2
<1> HIDE DEF i0
<1>7. i0 \in Called(w) /\ \A i \in Called(w) : i0 <= i
  <2>1. i0 \in Called(w)
    <3>1. EndsIn(w[i0].key, "name") /\ w[i0].opens
      BY <1>1, <1>5 DEF EndsIn
    <3> QED
      BY <1>4, <1>5, <3>1 DEF Called
  <2>2. ~EndsIn(Nothing, "name")
    BY NothingEndsIn
  <2>3. \A i \in Called(w) : i = i0
    BY <1>4, <1>6, <2>2 DEF Called
  <2>4. i0 <= i0
    BY <1>5
  <2> QED
    BY <2>1, <2>3, <2>4
<1>8. NameIn(w) = name.value
  BY <1>3, <1>4, <1>7, NameInFirst
<1>9. ASSUME NEW k \in StatNames
      PROVE  Says(w, {name}, k)
  <2>1. ~EndsIn(name.key, k) /\ ~EndsIn(Nothing, k)
    BY NothingEndsIn
  <2>2. ~(\E f \in {name} : EndsIn(f.key, k))
    BY <2>1
  <2>3. \A i \in 1..Len(w) : ~EndsIn(w[i].key, k)
    BY <1>1, <1>5, <1>6, <2>1
  <2> QED
    BY <2>2, <2>3, Zenon DEF Says
<1>10. \E f \in {name} : f.key = "name" /\ f.value # <<>> /\ NameIn(w) = f.value
  BY <1>8
<1>11. Interface(w, {name})
  BY <1>2, <1>4, <1>7, <1>9, <1>10 DEF Interface, w
<1> QED
  BY <1>11 DEF w, us

LEMMA InterfaceExtended ==
  ASSUME NEW ts, NEW fields, NEW f \in Fields \cup Counters, Interface(ts, fields),
         ~(\E g \in fields : g.key = f.key)
  PROVE  Interface(ts \o FieldTokens(f), fields \cup {f})
<1> DEFINE us == FieldTokens(f)
           w == ts \o us
           more == fields \cup {f}
<1>1. f.key # Nothing
  <2>1. ASSUME f \in Fields PROVE f.key # Nothing
    <3>1. f \in [key : Keys, value : Values, quoted : BOOLEAN]
      BY <2>1, ParsersAssumption
    <3> QED
      BY <3>1, NothingIsNoWord DEF FieldNames
  <2> QED
    BY <2>1, CountersAre
<1>2. /\ us \in Seq(Tokens) /\ Len(us) \in Nat \ {0} /\ us[1].key = f.key
      /\ \A i \in 1..Len(us) : i # 1 => us[i].key = Nothing
      /\ Closed(us)
  BY FieldTokensAre, FieldTokensWhole
<1>3. ts \in Seq(Tokens) /\ Closed(ts) /\ Called(ts) # {}
  BY DEF Interface
<1>4. w \in Seq(Tokens) /\ Closed(w)
  BY <1>2, <1>3, TokensConcat, WholeConcat
<1>5. NameIn(w) = NameIn(ts)
  BY <1>2, <1>3, NameInKept
<1>6. /\ Len(w) = Len(ts) + Len(us) /\ Len(ts) \in Nat /\ Len(us) \in Nat
      /\ \A i \in 1..Len(ts) : w[i] = ts[i]
      /\ \A j \in 1..Len(us) : w[Len(ts) + j] = us[j]
  BY <1>2, <1>3, TokensConcat
<1>7. \E g \in more : g.key = "name" /\ g.value # <<>> /\ NameIn(w) = g.value
  <2>1. PICK g \in fields : g.key = "name" /\ g.value # <<>> /\ NameIn(ts) = g.value
    BY DEF Interface
  <2> HIDE DEF w
  <2> QED
    BY <1>5, <2>1
<1>8. ASSUME NEW k \in StatNames
      PROVE  Says(w, more, k)
  <2>1. CASE EndsIn(f.key, k) /\ ~(\E g \in fields : EndsIn(g.key, k))
    <3>1. Says(ts, fields, k)
      BY DEF Interface
    <3>2. \A i \in 1..Len(ts) : ~EndsIn(ts[i].key, k)
      BY <2>1, <3>1, Zenon DEF Says
    <3>3. f \in Counters
      BY <2>1, NothingEndsIn
    <3>4. NumField(w, k) = f.value /\ Counted(w, k) # {}
      BY <1>3, <2>1, <3>2, <3>3, NumFieldRead
    <3> HIDE DEF w
    <3>5. \E g \in more : EndsIn(g.key, k) /\ NumField(w, k) = g.value
      BY <2>1, <3>4
    <3> HIDE DEF more
    <3> QED
      BY <3>4, <3>5, Zenon DEF Says
  <2>2. CASE \E g \in fields : EndsIn(g.key, k)
    <3>1. Says(ts, fields, k)
      BY DEF Interface
    <3>2. /\ Counted(ts, k) # {}
          /\ \E g \in fields : EndsIn(g.key, k) /\ NumField(ts, k) = g.value
      BY <2>2, <3>1, Zenon DEF Says
    <3>3. us # <<>> /\ us[1].key # Nothing
      <4> HIDE DEF us
      <4> QED
        BY <1>1, <1>2
    <3>4. NumField(w, k) = NumField(ts, k)
      BY <1>2, <1>3, <3>2, <3>3, NumFieldKept
    <3>5. Counted(w, k) # {}
      <4> HIDE DEF w
      <4>1. PICK i \in Counted(ts, k) : TRUE
        BY <3>2
      <4>2. /\ i \in 1..Len(ts) /\ EndsIn(ts[i].key, k) /\ ~ts[i].opens
            /\ ts[i].word \in Numbers
        BY <1>3 DEF Counted
      <4>3. i \in 1..Len(w) /\ w[i] = ts[i]
        BY <1>6, <4>2
      <4>4. i \in Counted(w, k)
        BY <1>4, <4>2, <4>3 DEF Counted
      <4> QED
        BY <4>4
    <3> HIDE DEF w
    <3>6. \E g \in more : EndsIn(g.key, k) /\ NumField(w, k) = g.value
      BY <3>2, <3>4
    <3> HIDE DEF more
    <3> QED
      BY <3>5, <3>6, Zenon DEF Says
  <2>3. CASE ~EndsIn(f.key, k) /\ ~(\E g \in fields : EndsIn(g.key, k))
    <3>1. Says(ts, fields, k)
      BY DEF Interface
    <3>2. \A i \in 1..Len(ts) : ~EndsIn(ts[i].key, k)
      BY <2>3, <3>1, Zenon DEF Says
    <3>3. ~(\E g \in more : EndsIn(g.key, k))
      BY <2>3
    <3> HIDE DEF us, w
    <3>4. \A i \in 1..Len(w) : ~EndsIn(w[i].key, k)
      <4> TAKE i \in 1..Len(w)
      <4>1. CASE i <= Len(ts)
        <5>1. i \in 1..Len(ts)
          BY <1>6, <4>1
        <5> QED
          BY <1>6, <3>2, <5>1
      <4>2. CASE i > Len(ts)
        <5> DEFINE j == i - Len(ts)
        <5>1. j \in 1..Len(us) /\ i = Len(ts) + j
          BY <1>6, <4>2
        <5> HIDE DEF j
        <5>2. ~EndsIn(us[j].key, k)
          BY <1>2, <2>3, <5>1, NothingEndsIn
        <5> QED
          BY <1>6, <5>1, <5>2
      <4> QED
        BY <1>6, <4>1, <4>2
    <3> HIDE DEF more
    <3> QED
      BY <3>3, <3>4, Zenon DEF Says
  <2> QED
    BY <2>1, <2>2, <2>3
<1> HIDE DEF w, more
<1>9. Called(w) # {}
  <2>1. PICK i \in Called(ts) : TRUE
    BY <1>3
  <2>2. i \in 1..Len(ts) /\ EndsIn(ts[i].key, "name") /\ ts[i].opens
    BY <1>3 DEF Called
  <2>3. i \in 1..Len(w) /\ w[i] = ts[i]
    BY <1>6, <2>2
  <2>4. i \in Called(w)
    BY <1>4, <2>2, <2>3 DEF Called
  <2> QED
    BY <2>4
<1>10. Interface(w, more)
  BY <1>4, <1>7, <1>8, <1>9 DEF Interface
<1> QED
  BY <1>10 DEF w, us, more

-----------------------------------------------------------------------------
(* A field more, on the last line or below it.                             *)

\* The last line is of a record, so that a field may stand on it.
TextLast(ls) ==
    /\ ls # <<>>
    /\ ls[Len(ls)].kind = "text" /\ ls[Len(ls)].colon = Nothing
    /\ ls[Len(ls)].tokens # <<>>

\* The lines with a field more, on the last line or on one of its own.
More(ls, us, wrap) ==
    IF wrap THEN Append(ls, Line("text", Nothing, us))
    ELSE [ls EXCEPT ![Len(ls)].tokens = @ \o us]

LEMMA TextTyped ==
  ASSUME NEW us \in Seq(Tokens), NEW c \in FieldNames \cup {Nothing}
  PROVE  Line("text", c, us) \in Lines
  BY DEF Line, Lines

LEMMA LastReplaced ==
  ASSUME NEW S, NEW s \in Seq(S), NEW x \in S, NEW y \in S
  PROVE  [Append(s, x) EXCEPT ![Len(Append(s, x))] = y] = Append(s, y)
<1> DEFINE p == [Append(s, x) EXCEPT ![Len(Append(s, x))] = y]
           q == Append(s, y)
<1>1. /\ p \in Seq(S) /\ Len(p) = Len(s) + 1 /\ Len(s) \in Nat
      /\ \A i \in 1..Len(s) : p[i] = s[i]
      /\ p[Len(s) + 1] = y
  <2> DEFINE a == Append(s, x)
  <2>1. /\ a \in Seq(S) /\ Len(a) = Len(s) + 1 /\ Len(s) \in Nat
        /\ \A i \in 1..Len(s) : a[i] = s[i]
    OBVIOUS
  <2>2. p = [a EXCEPT ![Len(s) + 1] = y]
    BY <2>1
  <2> HIDE DEF a, p
  <2>3. Len(s) + 1 \in 1..Len(a) /\ \A i \in 1..Len(s) : i # Len(s) + 1 /\ i \in 1..Len(a)
    BY <2>1
  <2> QED
    BY <2>1, <2>2, <2>3
<1>2. /\ q \in Seq(S) /\ Len(q) = Len(s) + 1
      /\ \A i \in 1..Len(s) : q[i] = s[i]
      /\ q[Len(s) + 1] = y
  OBVIOUS
<1> HIDE DEF p, q
<1>3. \A i \in 1..Len(p) : p[i] = q[i]
  <2> TAKE i \in 1..Len(p)
  <2>1. i \in 1..Len(s) \/ i = Len(s) + 1
    BY <1>1
  <2> QED
    BY <1>1, <1>2, <2>1
<1>4. p = q
  BY <1>1, <1>2, <1>3, SeqEqual
<1> QED
  BY <1>4 DEF p, q

\* A line with more tokens.
Lengthened(l, us) == [l EXCEPT !.tokens = @ \o us]

LEMMA LongerIs ==
  ASSUME NEW l \in Lines, NEW us \in Seq(Tokens)
  PROVE  /\ Lengthened(l, us) \in Lines
         /\ Lengthened(l, us).kind = l.kind /\ Lengthened(l, us).colon = l.colon
         /\ Lengthened(l, us).tokens = l.tokens \o us
<1>1. l.tokens \o us \in Seq(Tokens)
  BY LineTyped, TokensConcat
<1> QED
  BY <1>1 DEF Lengthened, Lines

LEMMA LastWritten ==
  ASSUME NEW ls \in Seq(Lines), TextLast(ls)
  PROVE  \E front \in Seq(Lines), x \in Lines :
            /\ ls = Append(front, x)
            /\ x.kind = "text" /\ x.colon = Nothing /\ x.tokens # <<>>
            /\ \A us \in Seq(Tokens) : More(ls, us, FALSE) = Append(front, Lengthened(x, us))
<1>1. ls # <<>>
  BY DEF TextLast
<1>2. PICK front \in Seq(Lines), x \in Lines : ls = Append(front, x)
  BY <1>1, SequenceEmptyOrAppend
<1>3. ls[Len(ls)] = x
  BY <1>2
<1>4. ASSUME NEW us \in Seq(Tokens)
      PROVE  More(ls, us, FALSE) = Append(front, Lengthened(x, us))
  <2> DEFINE y == Lengthened(x, us)
  <2>1. More(ls, us, FALSE) = [ls EXCEPT ![Len(ls)] = Lengthened(ls[Len(ls)], us)]
    BY Zenon DEF More, Lengthened
  <2>2. y \in Lines
    BY LongerIs
  <2> HIDE DEF y
  <2>3. [ls EXCEPT ![Len(ls)] = y] = Append(front, y)
    BY <1>2, <2>2, LastReplaced
  <2> QED
    BY <1>3, <2>1, <2>3 DEF y
<1> QED
  BY <1>2, <1>3, <1>4 DEF TextLast

LEMMA MoreTyped ==
  ASSUME NEW ls \in Seq(Lines), TextLast(ls), NEW us \in Seq(Tokens), us # <<>>,
         NEW wrap \in BOOLEAN
  PROVE  More(ls, us, wrap) \in Seq(Lines) /\ TextLast(More(ls, us, wrap))
<1>1. CASE wrap
  <2> DEFINE l == Line("text", Nothing, us)
  <2>1. l \in Lines /\ l.kind = "text" /\ l.colon = Nothing /\ l.tokens = us
    BY TextTyped DEF Line
  <2>2. More(ls, us, wrap) = Append(ls, l)
    BY <1>1, Zenon DEF More
  <2> HIDE DEF l
  <2>3. /\ Append(ls, l) \in Seq(Lines) /\ Append(ls, l) # <<>>
        /\ Append(ls, l)[Len(Append(ls, l))] = l
    BY <2>1
  <2> QED
    BY <2>1, <2>2, <2>3, Zenon DEF TextLast
<1>2. CASE ~wrap
  <2>1. PICK front \in Seq(Lines), x \in Lines :
            /\ ls = Append(front, x)
            /\ x.kind = "text" /\ x.colon = Nothing /\ x.tokens # <<>>
            /\ \A vs \in Seq(Tokens) : More(ls, vs, FALSE) = Append(front, Lengthened(x, vs))
    BY LastWritten
  <2> DEFINE l == Lengthened(x, us)
  <2>2. More(ls, us, wrap) = Append(front, l)
    BY <1>2, <2>1
  <2>3. l \in Lines /\ l.kind = "text" /\ l.colon = Nothing /\ l.tokens = x.tokens \o us
    BY <2>1, LongerIs
  <2>4. x.tokens \o us # <<>>
    BY <2>1, LineTyped
  <2> HIDE DEF l
  <2>5. /\ Append(front, l) \in Seq(Lines) /\ Append(front, l) # <<>>
        /\ Append(front, l)[Len(Append(front, l))] = l
    BY <2>3
  <2> QED
    BY <2>2, <2>3, <2>4, <2>5, Zenon DEF TextLast
<1> QED
  BY <1>1, <1>2

\* A field more is in the last paragraph, wherever it stands.
WithLast(ps, us) == [ps EXCEPT ![Len(ps)] = @ \o us]

LEMMA WithLastTwice ==
  ASSUME NEW ps \in Texted, NEW ts \in Seq(Tokens), NEW us \in Seq(Tokens)
  PROVE  WithLast(WithLast(ps, ts), us) = WithLast(ps, ts \o us)
<1> DEFINE p == WithLast(WithLast(ps, ts), us)
           q == WithLast(ps, ts \o us)
           r == WithLast(ps, ts)
<1>1. /\ r \in Texted /\ Len(r) = Len(ps) /\ Len(ps) \in Nat
      /\ \A i \in 1..Len(ps) : i # Len(ps) => r[i] = ps[i]
      /\ r[Len(ps)] = ps[Len(ps)] \o ts
  BY LastLengthened DEF WithLast, Texted
<1>2. ts \o us \in Seq(Tokens)
  BY TokensConcat
<1>3. /\ q \in Texted /\ Len(q) = Len(ps)
      /\ \A i \in 1..Len(ps) : i # Len(ps) => q[i] = ps[i]
      /\ q[Len(ps)] = ps[Len(ps)] \o (ts \o us)
  BY <1>2, LastLengthened DEF WithLast
<1> HIDE DEF r, q
<1>4. p = WithLast(r, us)
  BY DEF r
<1> HIDE DEF p
<1>5. /\ p \in Texted /\ Len(p) = Len(r)
      /\ \A i \in 1..Len(r) : i # Len(r) => p[i] = r[i]
      /\ p[Len(r)] = r[Len(r)] \o us
  BY <1>1, <1>4, LastLengthened DEF WithLast
<1>6. ps[Len(ps)] \in Seq(Tokens)
  BY DEF Texted
<1>7. (ps[Len(ps)] \o ts) \o us = ps[Len(ps)] \o (ts \o us)
  <2> DEFINE last == ps[Len(ps)]
  <2> HIDE DEF last
  <2>1. last \in Seq(Tokens)
    BY <1>6 DEF last
  <2>2. (last \o ts) \o us = last \o (ts \o us)
    BY <2>1, ConcatAssociative
  <2> QED
    BY <2>2 DEF last
<1>8. \A i \in 1..Len(p) : p[i] = q[i]
  BY <1>1, <1>3, <1>5, <1>7
<1>9. p = q
  BY <1>1, <1>3, <1>5, <1>8, SeqEqual DEF Texted
<1> QED
  BY <1>9 DEF p, q

LEMMA ParagraphsTyped ==
  ASSUME NEW ls \in Seq(Lines), NEW leftOut
  PROVE  Paragraphs(ls, leftOut) \in Texted
<1> DEFINE T == {s \in Seq(Lines) : Paragraphs(s, leftOut) \in Texted}
<1>1. <<>> \in T
  BY ParagraphsEmpty, BaseTexted
<1>2. \A s \in Seq(Lines), l \in Lines : s \in T => Append(s, l) \in T
  <2> TAKE s \in Seq(Lines), l \in Lines
  <2> HAVE s \in T
  <2>1. Paragraphs(Append(s, l), leftOut) \in Texted
    BY ParagraphsAppend, AddTextTyped
  <2>2. Append(s, l) \in Seq(Lines)
    OBVIOUS
  <2> QED
    BY <2>1, <2>2
<1> HIDE DEF T
<1>3. \A s \in Seq(Lines) : s \in T
  BY <1>1, <1>2, SeqInduct
<1> QED
  BY <1>3 DEF T

LEMMA ParagraphsMore ==
  ASSUME NEW ls \in Seq(Lines), TextLast(ls), NEW us \in Seq(Tokens), us # <<>>,
         NEW wrap \in BOOLEAN, NEW leftOut, "text" \notin leftOut
  PROVE  Paragraphs(More(ls, us, wrap), leftOut) = WithLast(Paragraphs(ls, leftOut), us)
<1> DEFINE P == Paragraphs(ls, leftOut)
<1>0. \A ps, l : l.kind = "text" /\ l.tokens # <<>> =>
                   AddText(ps, l, leftOut) = WithLast(ps, l.tokens)
  BY Zenon DEF AddText, Blank, WithLast
<1>1. CASE wrap
  <2> DEFINE l == Line("text", Nothing, us)
  <2>1. l \in Lines /\ l.kind = "text" /\ l.tokens = us
    BY TextTyped DEF Line
  <2>2. More(ls, us, wrap) = Append(ls, l)
    BY <1>1, Zenon DEF More
  <2> HIDE DEF l
  <2> QED
    BY <1>0, <2>1, <2>2, ParagraphsAppend
<1>2. CASE ~wrap
  <2>1. PICK front \in Seq(Lines), x \in Lines :
            /\ ls = Append(front, x)
            /\ x.kind = "text" /\ x.colon = Nothing /\ x.tokens # <<>>
            /\ \A vs \in Seq(Tokens) : More(ls, vs, FALSE) = Append(front, Lengthened(x, vs))
    BY LastWritten
  <2> DEFINE l == Lengthened(x, us)
  <2>2. More(ls, us, wrap) = Append(front, l)
    BY <1>2, <2>1
  <2>3. l \in Lines /\ l.kind = "text" /\ l.tokens = x.tokens \o us
    BY <2>1, LongerIs
  <2>4. x.tokens \o us # <<>> /\ x.tokens \in Seq(Tokens)
    BY <2>1, LineTyped
  <2> HIDE DEF l
  <2>5. Paragraphs(ls, leftOut) = WithLast(Paragraphs(front, leftOut), x.tokens)
    BY <1>0, <2>1, ParagraphsAppend
  <2>6. Paragraphs(Append(front, l), leftOut)
           = WithLast(Paragraphs(front, leftOut), x.tokens \o us)
    BY <1>0, <2>3, <2>4, ParagraphsAppend
  <2>7. Paragraphs(front, leftOut) \in Texted
    BY ParagraphsTyped
  <2> QED
    BY <2>2, <2>4, <2>5, <2>6, <2>7, WithLastTwice
<1> QED
  BY <1>1, <1>2

-----------------------------------------------------------------------------
(* Records, and the lines they begin with.                                 *)

PrintedFields == [key : FieldNames, value : Seq(Spellings), quoted : BOOLEAN]

LEMMA RecordsAre ==
  /\ \A r \in Records : r.flags \in FlagSets /\ r.fields \in SUBSET PrintedFields
  /\ \A a \in FlagSets, b \in SUBSET PrintedFields : [flags |-> a, fields |-> b] \in Records
  BY DEF Records, FlagSets, PrintedFields

LEMMA FieldPrinted ==
  ASSUME NEW f \in Fields \cup Counters PROVE f \in PrintedFields
<1>1. CASE f \in Fields
  <2>1. f \in [key : Keys, value : Values, quoted : BOOLEAN]
    BY <1>1, ParsersAssumption
  <2>2. f.value \in Seq(Words)
    BY <2>1, ValuesAre
  <2>3. f.value \in Seq(Spellings)
    BY <2>2, SeqMonotonic DEF Spellings
  <2>4. f.key \in FieldNames
    BY <2>1 DEF FieldNames
  <2> QED
    BY <2>1, <2>3, <2>4 DEF PrintedFields
<1>2. CASE f \in Counters
  <2>1. /\ f.value \in Seq(Numbers) /\ f.key \in FieldNames
    BY <1>2, CountersAre
  <2>2. f.value \in Seq(Spellings)
    BY <2>1, NothingIsNoWord, SeqMonotonic DEF Spellings
  <2>3. \E A, B : f \in [key : A, value : B, quoted : {FALSE}]
    BY <1>2, ParsersAssumption, Zenon
  <2>4. f = [key |-> f.key, value |-> f.value, quoted |-> FALSE]
    BY <2>3
  <2>5. \A a \in FieldNames, b \in Seq(Spellings) :
           [key |-> a, value |-> b, quoted |-> FALSE] \in PrintedFields
    BY DEF PrintedFields
  <2>6. [key |-> f.key, value |-> f.value, quoted |-> FALSE] \in PrintedFields
    BY <2>1, <2>2, <2>5
  <2> QED
    BY <2>4, <2>6, Zenon
<1> QED
  BY <1>1, <1>2

LEMMA WithFieldIs ==
  ASSUME printed \in Seq(Records), printed # <<>>, NEW f \in PrintedFields
  PROVE  /\ WithField(f) \in Seq(Records) /\ Len(WithField(f)) = Len(printed)
         /\ Len(printed) \in 1..Len(printed)
         /\ \A i \in 1..Len(printed) : i # Len(printed) => WithField(f)[i] = printed[i]
         /\ WithField(f)[Len(printed)].flags = printed[Len(printed)].flags
         /\ WithField(f)[Len(printed)].fields = printed[Len(printed)].fields \cup {f}
<1> DEFINE n == Len(printed)
           r == [printed[n] EXCEPT !.fields = @ \cup {f}]
           w == WithField(f)
<1>1. n \in 1..Len(printed) /\ n = Len(printed) /\ printed[n] \in Records
  OBVIOUS
<1>2. w = [printed EXCEPT ![n] = r]
  BY Zenon DEF WithField
<1> HIDE DEF n, w
<1>3. r \in Records /\ r.flags = printed[n].flags /\ r.fields = printed[n].fields \cup {f}
  BY <1>1 DEF Records, PrintedFields
<1> HIDE DEF r
<1>4. /\ w \in Seq(Records) /\ Len(w) = Len(printed)
      /\ \A i \in 1..Len(printed) : i # n => w[i] = printed[i]
      /\ w[n] = r
  BY <1>1, <1>2, <1>3
<1> QED
  BY <1>1, <1>3, <1>4 DEF w, n

LEMMA GapIs ==
  ASSUME NEW gap \in BOOLEAN
  PROVE  /\ Gap(gap) \in Seq(Lines) /\ BlankLine \in Lines /\ Blank(BlankLine)
         /\ BlankLine.kind = "text" /\ BlankLine.colon = Nothing /\ BlankLine.tokens = <<>>
         /\ \A ls \in Seq(Lines) : ls \o Gap(gap) =
               IF gap THEN Append(ls, BlankLine) ELSE ls
<1>1. /\ BlankLine \in Lines /\ BlankLine.kind = "text"
      /\ BlankLine.colon = Nothing /\ BlankLine.tokens = <<>>
  BY DEF BlankLine, Line, Lines
<1>2. Blank(BlankLine)
  BY <1>1, Zenon DEF Blank
<1>3. Gap(gap) \in Seq(Lines)
  BY <1>1 DEF Gap
<1>4. \A ls \in Seq(Lines) : ls \o Gap(gap) =
               IF gap THEN Append(ls, BlankLine) ELSE ls
  BY <1>1, AppendIsConcat, ConcatEmptySeq DEF Gap
<1> QED
  BY <1>1, <1>2, <1>3, <1>4

\* A line is added below a gap or none.
LEMMA Below ==
  ASSUME NEW ls \in Seq(Lines), NEW gap \in BOOLEAN, NEW l \in Lines
  PROVE  /\ ls \o Gap(gap) \in Seq(Lines)
         /\ Append(ls \o Gap(gap), l) \in Seq(Lines)
         /\ Append(ls \o Gap(gap), l) # <<>>
         /\ l.kind = "text" /\ l.colon = Nothing /\ l.tokens # <<>> =>
               TextLast(Append(ls \o Gap(gap), l))
<1> DEFINE g == ls \o Gap(gap)
<1>1. g \in Seq(Lines)
  BY GapIs
<1> HIDE DEF g
<1>2. /\ Append(g, l) \in Seq(Lines) /\ Append(g, l) # <<>>
      /\ Append(g, l)[Len(Append(g, l))] = l
  BY <1>1
<1> QED
  BY <1>1, <1>2, Zenon DEF TextLast, g

LEMMA PairTextTyped ==
  ASSUME NEW f \in Fields, NEW k \in Keys \cup {Nothing}
  PROVE  /\ PairText(f, k) \in Seq(Tokens) /\ Len(PairText(f, k)) = Len(f.value)
         /\ Len(f.value) \in Nat /\ f.value \in Seq(Words)
         /\ \A i \in 1..Len(f.value) :
               /\ PairText(f, k)[i].key = IF i = 1 THEN k ELSE Nothing
               /\ PairText(f, k)[i].word = f.value[i]
               /\ ~PairText(f, k)[i].opens
<1> DEFINE v == f.value
           E(i) == Token(IF i = 1 THEN k ELSE Nothing, FALSE, v[i], FALSE, 0)
<1>1. v \in Seq(Words)
  <2>1. f \in [key : Keys, value : Values, quoted : BOOLEAN]
    BY ParsersAssumption
  <2> QED
    BY <2>1, ValuesAre
<1>2. Len(v) \in Nat /\ DOMAIN v = 1..Len(v)
  <2> HIDE DEF v
  <2> QED
    BY <1>1
<1>3. PairText(f, k) = [i \in 1..Len(v) |-> E(i)]
  BY <1>2, Zenon DEF PairText
<1>4. \A i \in 1..Len(v) :
         /\ E(i) \in Tokens /\ E(i).word = v[i] /\ ~E(i).opens
         /\ E(i).key = IF i = 1 THEN k ELSE Nothing
  <2> HIDE DEF v
  <2> QED
    BY <1>1 DEF Token, Tokens, FieldNames
<1> HIDE DEF E
<1>5. /\ PairText(f, k) \in Seq(Tokens) /\ Len(PairText(f, k)) = Len(v)
      /\ \A i \in 1..Len(v) : PairText(f, k)[i] = E(i)
  <2> HIDE DEF v
  <2> QED
    BY <1>2, <1>3, <1>4
<1>6. \A i \in 1..Len(v) :
         /\ PairText(f, k)[i].key = IF i = 1 THEN k ELSE Nothing
         /\ PairText(f, k)[i].word = v[i]
         /\ ~PairText(f, k)[i].opens
  <2> TAKE i \in 1..Len(v)
  <2>1. PairText(f, k)[i] = E(i)
    BY <1>5, Zenon
  <2>2. E(i).word = v[i] /\ ~E(i).opens /\ E(i).key = IF i = 1 THEN k ELSE Nothing
    BY <1>4, Zenon
  <2> QED
    BY <2>1, <2>2, Zenon
<1> QED
  BY <1>1, <1>2, <1>5, <1>6, Zenon

\* The text of a pair without a value has no words, any other has some.
LEMMA PairTextSome ==
  ASSUME NEW f \in Fields, NEW k \in Keys \cup {Nothing}
  PROVE  /\ f.value = <<>> <=> PairText(f, k) = <<>>
         /\ f.value = <<>> <=> Texts(PairText(f, k)) = <<>>
<1> DEFINE ts == PairText(f, k)
           v == f.value
<1>1. /\ ts \in Seq(Tokens) /\ Len(ts) = Len(v) /\ v \in Seq(Words)
      /\ \A i \in 1..Len(v) : ts[i].word = v[i]
  BY PairTextTyped
<1> HIDE DEF ts, v
<1>2. v = <<>> <=> ts = <<>>
  BY <1>1
<1>3. ASSUME ts # <<>> PROVE Texts(ts) # <<>>
  <2> DEFINE n == Len(ts)
             front == SubSeq(ts, 1, n - 1)
             t == ts[n]
  <2>1. n \in 1..n /\ n \in Nat /\ front \in Seq(Tokens) /\ t \in Tokens
        /\ ts = Append(front, t)
    BY <1>1, <1>3
  <2>2. t.word = v[n] /\ v[n] \in Words
    BY <1>1, <2>1
  <2> HIDE DEF n, front, t
  <2>3. Texts(ts) = Texts(front) \o Spelled(t)
    BY <2>1, TextsAppend
  <2> DEFINE a == IF t.key = Nothing THEN <<>> ELSE <<t.key>>
             b == <<t.word>>
             x == Texts(front)
             y == Spelled(t)
  <2>4. t.word # Nothing
    BY <2>2, NothingIsNoWord
  <2>5. y = a \o b
    BY <2>4, Zenon DEF Spelled
  <2>6. a \in Seq(Spellings) /\ b \in Seq(Spellings) /\ Len(b) = 1
    <3>1. t.key = Nothing \/ t.key \in Spellings
      BY <2>1 DEF Tokens, Spellings
    <3>2. t.word \in Spellings
      BY <2>2 DEF Spellings
    <3> QED
      BY <3>1, <3>2
  <2>7. x \in Seq(Spellings) /\ y \in Seq(Spellings)
    BY <2>1, TextsTyped, SpelledTyped
  <2>7a. Len(a) \in Nat
    BY <2>6
  <2> HIDE DEF a, b, x, y
  <2>7b. Len(a \o b) = Len(a) + Len(b)
    BY <2>6, ConcatProperties
  <2>7c. Len(y) = Len(a \o b)
    BY <2>5, Zenon
  <2>8. Len(y) = Len(a) + 1
    BY <2>6, <2>7b, <2>7c
  <2>9. Len(x \o y) = Len(x) + Len(y) /\ Len(x) \in Nat
    BY <2>7
  <2>10. Len(x \o y) # 0
    BY <2>7a, <2>8, <2>9
  <2>11. x \o y # <<>>
    BY <2>10
  <2> QED
    BY <2>3, <2>11 DEF x, y
<1>4. ts = <<>> => Texts(ts) = <<>>
  BY TextsEmpty, Zenon
<1> QED
  BY <1>2, <1>3, <1>4 DEF ts, v

-----------------------------------------------------------------------------
(* The rows of a table.                                                    *)

AllCells == [DOMAIN Columns -> CellValues]

LEMMA ColumnsAre ==
  /\ Columns \in Seq([name : Keys, at : Nat \ {0, 1}])
  /\ DOMAIN Columns = 1..Len(Columns) /\ Len(Columns) \in Nat
  /\ \A c \in DOMAIN Columns : Columns[c].name \in FieldNames /\ Columns[c].at \in Nat
                               /\ Columns[c].at > 1
  /\ \A c, d \in DOMAIN Columns :
        c < d => /\ Columns[c].at < Columns[d].at
                 /\ Columns[c].name # Columns[d].name
<1>1. Columns \in Seq([name : Keys, at : Nat \ {0, 1}])
  BY ParsersAssumption, Zenon
<1>2. \A c, d \in DOMAIN Columns :
        c < d => /\ Columns[c].at < Columns[d].at
                 /\ Columns[c].name # Columns[d].name
  BY ParsersAssumption, Zenon
<1>3. DOMAIN Columns = 1..Len(Columns) /\ Len(Columns) \in Nat
  BY <1>1
<1>4. ASSUME NEW c \in DOMAIN Columns
      PROVE  Columns[c].name \in FieldNames /\ Columns[c].at \in Nat /\ Columns[c].at > 1
  <2> DEFINE S == [name : Keys, at : Nat \ {0, 1}]
  <2>0. Columns \in Seq(S) /\ c \in 1..Len(Columns)
    BY <1>1, <1>3
  <2> HIDE DEF S
  <2>1. Columns[c] \in S
    BY <2>0
  <2> USE DEF S
  <2> QED
    BY <2>1 DEF FieldNames
<1> QED
  BY <1>1, <1>2, <1>3, <1>4

LEMMA CellsAre ==
  ASSUME NEW cells \in AllCells, NEW c \in DOMAIN Columns
  PROVE  cells[c] \in Values /\ cells[c] \in Seq(Words)
<1>1. CellValues \subseteq Values
  BY ParsersAssumption, Zenon
<1>2. cells[c] \in Values
  BY <1>1 DEF AllCells
<1> QED
  BY <1>2, ValuesAre

LEMMA UnderIs ==
  ASSUME NEW cells \in AllCells, NEW c \in DOMAIN Columns
  PROVE  /\ Under(cells, c) \in Seq(Tokens) /\ Len(Under(cells, c)) = Len(cells[c])
         /\ \A i \in 1..Len(cells[c]) :
               Under(cells, c)[i] = Word(cells[c][i], Columns[c].at)
         /\ \A i \in 1..Len(Under(cells, c)) :
               /\ Under(cells, c)[i].key = Nothing /\ ~Under(cells, c)[i].opens
               /\ Under(cells, c)[i].at = Columns[c].at
<1> DEFINE v == cells[c]
           a == Columns[c].at
           u == Under(cells, c)
<1>1. v \in Seq(Words) /\ a \in Nat
  BY CellsAre, ColumnsAre
<1>2. u = [i \in DOMAIN v |-> Word(v[i], a)]
  BY Zenon DEF Under
<1> HIDE DEF v, a, u
<1>3. \A i \in 1..Len(v) : Word(v[i], a) \in Tokens
  BY <1>1 DEF Word, Token, Tokens
<1>4. \A i \in 1..Len(v) : Word(v[i], a).key = Nothing /\ ~Word(v[i], a).opens
                           /\ Word(v[i], a).at = a
  BY DEF Word, Token
<1>5. u \in Seq(Tokens) /\ Len(u) = Len(v) /\ \A i \in 1..Len(v) : u[i] = Word(v[i], a)
  BY <1>1, <1>2, <1>3
<1>6. \A i \in 1..Len(u) : u[i].key = Nothing /\ ~u[i].opens /\ u[i].at = a
  BY <1>4, <1>5
<1> QED
  BY <1>5, <1>6 DEF u, v, a

\* What stands under the columns, up to one of them.
CellTexts(cells) == [c \in DOMAIN Columns |-> Under(cells, c)]

LEMMA CellsTyped ==
  ASSUME NEW cells \in AllCells
  PROVE  /\ CellTexts(cells) \in Seq(Seq(Tokens)) /\ Len(CellTexts(cells)) = Len(Columns)
         /\ \A c \in 1..Len(Columns) : CellTexts(cells)[c] = Under(cells, c)
         /\ FlattenSeq(CellTexts(cells)) \in Seq(Tokens)
<1>1. /\ CellTexts(cells) \in Seq(Seq(Tokens)) /\ Len(CellTexts(cells)) = Len(Columns)
      /\ \A c \in 1..Len(Columns) : CellTexts(cells)[c] = Under(cells, c)
  BY ColumnsAre, UnderIs DEF CellTexts
<1> QED
  BY <1>1, FlatTyped

LEMMA RowLineTyped ==
  ASSUME NEW w \in DOMAIN Letters \cup {Nothing}, NEW cells \in AllCells
  PROVE  /\ RowLine(w, cells) \in Lines
         /\ RowLine(w, cells).kind = "text" /\ RowLine(w, cells).colon = Nothing
         /\ RowLine(w, cells).tokens
               = (AnIndex \o FlagWord(w, 1)) \o FlattenSeq(CellTexts(cells))
         /\ RowLine(w, cells).tokens \in Seq(Tokens)
<1> DEFINE ts == (AnIndex \o FlagWord(w, 1)) \o FlattenSeq(CellTexts(cells))
<1>1. ts \in Seq(Tokens)
  BY IndexAndFlags, CellsTyped, TokensConcat
<1>2. RowLine(w, cells) = Line("text", Nothing, ts)
  BY Zenon DEF RowLine, CellTexts
<1> HIDE DEF ts
<1>3. RowLine(w, cells) \in Lines
  BY <1>1, <1>2, TextTyped
<1> QED
  BY <1>1, <1>2, <1>3 DEF Line, ts

LEMMA RowRecordTyped ==
  ASSUME NEW w \in DOMAIN Letters \cup {Nothing}, NEW cells \in AllCells
  PROVE  RowRecord(w, cells) \in Records
<1> DEFINE F(c) == [key |-> Columns[c].name, value |-> cells[c], quoted |-> FALSE]
           fs == {F(c) : c \in {d \in DOMAIN Columns : cells[d] # <<>>}}
<1>1. ASSUME NEW c \in DOMAIN Columns
      PROVE  F(c) \in PrintedFields
  <2>1. cells[c] \in Seq(Spellings)
    BY CellsAre, SeqMonotonic DEF Spellings
  <2> QED
    BY <2>1, ColumnsAre DEF PrintedFields
<1>2. fs \in SUBSET PrintedFields
  BY <1>1
<1>3. RowRecord(w, cells) = [flags |-> FlagsIn(w), fields |-> fs]
  BY Zenon DEF RowRecord
<1> HIDE DEF fs
<1>4. FlagsIn(w) \in FlagSets
  BY IndexAndFlags
<1> QED
  BY <1>2, <1>3, <1>4, RecordsAre

-----------------------------------------------------------------------------
(* Types.                                                                  *)

Shapes == {"detail", "flagged", "pairs", "table", "stats"}
Readers == {"none", "query", "table", "stats"}

\* A field finds a line it can stand on.
FieldsFit == shape \in {"detail", "flagged", "stats"} /\ printed # <<>> => TextLast(lines)

LinesFit == ParsersTypeOK /\ FieldsFit

LEMMA BeginRecordTyped ==
  ASSUME NEW w \in DOMAIN Letters \cup {Nothing}, NEW gap \in BOOLEAN,
         LinesFit, BeginRecord(w, gap)
  PROVE  LinesFit'
<1> DEFINE ts == (IF shape = "detail" THEN AnIndex ELSE <<>>) \o FlagWord(w, 0)
           l == Line("text", Nothing, ts)
<1>1. ts \in Seq(Tokens) /\ ts # <<>>
  <2>1. CASE shape = "detail"
    <3>1. AnIndex \in Seq(Tokens) /\ Len(AnIndex) = 1 /\ FlagWord(w, 0) \in Seq(Tokens)
      BY IndexAndFlags
    <3> QED
      BY <2>1, <3>1
  <2>2. CASE shape # "detail"
    <3>1. w # Nothing
      BY <2>2 DEF BeginRecord
    <3>2. FlagWord(w, 0) = <<Word(w, 0)>> /\ FlagWord(w, 0) \in Seq(Tokens)
      BY <3>1, IndexAndFlags
    <3>3. ts = FlagWord(w, 0)
      BY <2>2, <3>2, ConcatEmptySeq
    <3>4. FlagWord(w, 0) # <<>>
      BY <3>2
    <3> QED
      BY <3>2, <3>3, <3>4, Zenon
  <2> QED
    BY <2>1, <2>2
<1>2. lines' = Append(lines \o Gap(gap), l)
  BY Zenon DEF BeginRecord
<1> HIDE DEF ts
<1>3. l \in Lines /\ l.kind = "text" /\ l.colon = Nothing /\ l.tokens = ts
  BY <1>1, TextTyped DEF Line
<1> HIDE DEF l
<1>4. lines' \in Seq(Lines) /\ TextLast(lines')
  BY <1>1, <1>2, <1>3, Below DEF LinesFit, ParsersTypeOK
<1>5. printed' \in Seq(Records)
  <2> DEFINE r == [flags |-> FlagsIn(w), fields |-> {}]
  <2>1. r \in Records
    BY IndexAndFlags, RecordsAre
  <2>2. printed' = Append(printed, r)
    BY DEF BeginRecord
  <2> HIDE DEF r
  <2> QED
    BY <2>1, <2>2 DEF LinesFit, ParsersTypeOK
<1>6. shape' = shape /\ reader' = reader
  BY DEF BeginRecord
<1> QED
  BY <1>4, <1>5, <1>6 DEF LinesFit, ParsersTypeOK, FieldsFit, TextLast

LEMMA BeginInterfaceTyped ==
  ASSUME NEW w \in DOMAIN Letters \cup {Nothing}, NEW f \in Fields,
         LinesFit, BeginInterface(w, f)
  PROVE  LinesFit'
<1> DEFINE p == AnIndex \o FlagWord(w, 0)
           ts == p \o FieldTokens(f)
           l == Line("text", Nothing, ts)
           gap == printed # <<>>
<1>1. ts \in Seq(Tokens) /\ ts # <<>>
  <2>1. p \in Seq(Tokens)
    BY IndexAndFlags
  <2>2. FieldTokens(f) \in Seq(Tokens) /\ Len(FieldTokens(f)) \in Nat \ {0}
    BY FieldTokensAre
  <2> HIDE DEF p
  <2> QED
    BY <2>1, <2>2, TokensConcat
<1>2. lines' = Append(lines \o Gap(gap), l)
  BY Zenon DEF BeginInterface
<1> HIDE DEF ts
<1>3. l \in Lines /\ l.kind = "text" /\ l.colon = Nothing /\ l.tokens = ts
  BY <1>1, TextTyped DEF Line
<1> HIDE DEF l
<1>4. lines' \in Seq(Lines) /\ TextLast(lines')
  BY <1>1, <1>2, <1>3, Below DEF LinesFit, ParsersTypeOK
<1>5. printed' \in Seq(Records)
  <2> DEFINE r == [flags |-> FlagsIn(w), fields |-> {f}]
  <2>1. r \in Records
    BY IndexAndFlags, FieldPrinted, RecordsAre
  <2>2. printed' = Append(printed, r)
    BY DEF BeginInterface
  <2> HIDE DEF r
  <2> QED
    BY <2>1, <2>2 DEF LinesFit, ParsersTypeOK
<1>6. shape' = shape /\ reader' = reader
  BY DEF BeginInterface
<1> QED
  BY <1>4, <1>5, <1>6 DEF LinesFit, ParsersTypeOK, FieldsFit, TextLast

\* What printing a field does.
LEMMA FieldStep ==
  ASSUME NEW f \in Fields \cup Counters, NEW wrap \in BOOLEAN, LinesFit, PrintField(f, wrap)
  PROVE  /\ printed \in Seq(Records) /\ printed # <<>> /\ f \in PrintedFields
         /\ lines \in Seq(Lines) /\ TextLast(lines)
         /\ FieldTokens(f) \in Seq(Tokens) /\ FieldTokens(f) # <<>>
         /\ printed' = WithField(f) /\ lines' = More(lines, FieldTokens(f), wrap)
         /\ shape' = shape /\ reader' = reader /\ result' = result
         /\ ~HasKey(printed[Len(printed)], f.key)
<1>1. printed # <<>> /\ ~HasKey(printed[Len(printed)], f.key)
  BY Zenon DEF PrintField, Room, Last
<1>2. FieldTokens(f) \in Seq(Tokens) /\ Len(FieldTokens(f)) \in Nat \ {0}
  BY FieldTokensAre
<1>3. FieldTokens(f) # <<>>
  BY <1>2
<1>4. lines' = More(lines, FieldTokens(f), wrap)
  BY Zenon DEF PrintField, More
<1>5. shape \in {"detail", "flagged", "stats"}
  BY DEF PrintField
<1>6. TextLast(lines)
  BY <1>1, <1>5, Zenon DEF LinesFit, FieldsFit
<1>7. printed' = WithField(f) /\ shape' = shape /\ reader' = reader /\ result' = result
  BY DEF PrintField
<1> QED
  BY <1>1, <1>2, <1>3, <1>4, <1>6, <1>7, FieldPrinted DEF LinesFit, ParsersTypeOK

LEMMA PrintFieldTyped ==
  ASSUME NEW f \in Fields \cup Counters, NEW wrap \in BOOLEAN, LinesFit, PrintField(f, wrap)
  PROVE  LinesFit'
<1>1. lines' \in Seq(Lines) /\ TextLast(lines')
  <2>1. /\ lines \in Seq(Lines) /\ TextLast(lines)
        /\ FieldTokens(f) \in Seq(Tokens) /\ FieldTokens(f) # <<>>
        /\ lines' = More(lines, FieldTokens(f), wrap)
    BY FieldStep
  <2> QED
    BY <2>1, MoreTyped
<1>2. printed' \in Seq(Records)
  BY FieldStep, WithFieldIs
<1>3. shape' = shape /\ reader' = reader
  BY FieldStep
<1> QED
  BY <1>1, <1>2, <1>3 DEF LinesFit, ParsersTypeOK, FieldsFit, TextLast

\* What printing a pair does.
Pair(f, k) == [key |-> f.key, value |-> Texts(PairText(f, k)), quoted |-> FALSE]

LEMMA PairIs ==
  ASSUME NEW f \in Fields, NEW k \in Keys \cup {Nothing}
  PROVE  /\ Pair(f, k) \in PrintedFields /\ Pair(f, k).key = f.key
         /\ Pair(f, k).value = Texts(PairText(f, k)) /\ Pair(f, k).quoted = FALSE
         /\ Line("text", f.key, PairText(f, k)) \in Lines
<1>1. f \in PrintedFields
  BY FieldPrinted
<1>2. PairText(f, k) \in Seq(Tokens)
  BY PairTextTyped
<1>3. Texts(PairText(f, k)) \in Seq(Spellings)
  BY <1>2, TextsTyped
<1>4. f.key \in FieldNames
  BY <1>1 DEF PrintedFields
<1>5. Line("text", f.key, PairText(f, k)) \in Lines
  BY <1>2, <1>4, TextTyped
<1> QED
  BY <1>1, <1>3, <1>5 DEF Pair, PrintedFields

LEMMA PrintPairTyped ==
  ASSUME NEW f \in Fields, NEW k \in Keys \cup {Nothing}, LinesFit, PrintPair(f, k)
  PROVE  LinesFit'
<1> DEFINE pair == Pair(f, k)
           l == Line("text", f.key, PairText(f, k))
<1>1. shape = "pairs" /\ shape' = shape /\ reader' = reader
  BY DEF PrintPair
<1>2. pair \in PrintedFields /\ l \in Lines
  BY <1>1, PairIs
<1>3. lines' = Append(lines, l)
  BY Zenon DEF PrintPair
<1>4. \/ printed' = <<[flags |-> {}, fields |-> {pair}]>>
      \/ printed # <<>> /\ printed' = WithField(pair)
  BY Zenon DEF PrintPair, Pair, Room
<1> HIDE DEF pair, l
<1>5. lines' \in Seq(Lines)
  BY <1>2, <1>3 DEF LinesFit, ParsersTypeOK
<1>6. printed' \in Seq(Records)
  <2>1. CASE printed' = <<[flags |-> {}, fields |-> {pair}]>>
    <3> DEFINE r == [flags |-> {}, fields |-> {pair}]
    <3>1. {} \in FlagSets
      BY DEF FlagSets
    <3>2. r \in Records
      BY <1>2, <3>1, RecordsAre
    <3>3. printed' = <<r>>
      BY <2>1
    <3> HIDE DEF r
    <3> QED
      BY <3>2, <3>3
  <2>2. CASE printed # <<>> /\ printed' = WithField(pair)
    <3>1. printed \in Seq(Records)
      BY DEF LinesFit, ParsersTypeOK
    <3> QED
      BY <1>2, <2>2, <3>1, WithFieldIs
  <2> QED
    BY <1>4, <2>1, <2>2
<1> QED
  BY <1>1, <1>5, <1>6 DEF LinesFit, ParsersTypeOK, FieldsFit

LEMMA PrintRowTyped ==
  ASSUME NEW w \in DOMAIN Letters \cup {Nothing}, NEW cells \in AllCells,
         LinesFit, PrintRow(w, cells)
  PROVE  LinesFit'
<1>1. RowLine(w, cells) \in Lines /\ RowRecord(w, cells) \in Records
  BY RowLineTyped, RowRecordTyped
<1>2. /\ shape = "table" /\ shape' = shape /\ reader' = reader
      /\ lines' = Append(lines, RowLine(w, cells))
      /\ printed' = Append(printed, RowRecord(w, cells))
  BY DEF PrintRow
<1> QED
  BY <1>1, <1>2 DEF LinesFit, ParsersTypeOK, FieldsFit

LEMMA ReadTyped ==
  ASSUME NEW r \in Readers, NEW outcome, LinesFit, ReadBy(r, outcome)
  PROVE  LinesFit'
<1>1. reader' = r /\ shape' = shape /\ printed' = printed /\ lines' = lines
  BY DEF ReadBy
<1> QED
  BY <1>1 DEF LinesFit, ParsersTypeOK, FieldsFit, TextLast, Readers

LEMMA HeadTyped ==
  /\ FlagLines \in Seq(Lines) /\ TableHead \in Seq(Lines)
  BY DEF FlagLines, TableHead, Line, Lines

LEMMA InitTyped == ParsersInit => LinesFit
<1> SUFFICES ASSUME ParsersInit PROVE LinesFit
  OBVIOUS
<1>1. PICK h \in {<<>>, FlagLines} :
         lines = h \o (IF shape = "table" THEN TableHead ELSE <<>>)
  BY Zenon DEF ParsersInit
<1>2. h \in Seq(Lines)
  <2>1. CASE h = <<>>
    BY <2>1
  <2>2. CASE h = FlagLines
    BY <2>2, HeadTyped
  <2> QED
    BY <1>1, <2>1, <2>2
<1>3. lines \in Seq(Lines)
  BY <1>1, <1>2, HeadTyped
<1>4. printed = <<>> /\ reader = "none" /\ shape \in Shapes
  BY DEF ParsersInit, Shapes
<1> QED
  BY <1>3, <1>4 DEF LinesFit, ParsersTypeOK, FieldsFit, Shapes

\* A step prints or reads.
LEMMA Steps ==
  ASSUME ParsersNext
  PROVE  \/ \E w \in DOMAIN Letters \cup {Nothing}, gap \in BOOLEAN : BeginRecord(w, gap)
         \/ \E w \in DOMAIN Letters \cup {Nothing}, f \in Fields : BeginInterface(w, f)
         \/ \E f \in Fields \cup Counters, wrap \in BOOLEAN : PrintField(f, wrap)
         \/ \E f \in Fields, k \in Keys \cup {Nothing} : PrintPair(f, k)
         \/ \E w \in DOMAIN Letters \cup {Nothing}, cells \in AllCells : PrintRow(w, cells)
         \/ \E outcome : \E r \in Readers : ReadBy(r, outcome)
<1>1. "query" \in Readers /\ "table" \in Readers /\ "stats" \in Readers
  BY DEF Readers
<1>2. Query \/ ReadTable \/ Stats
         => \E outcome : \E r \in Readers : ReadBy(r, outcome)
  BY <1>1, Zenon DEF Query, ReadTable, Stats
<1> QED
  BY <1>2, Zenon DEF ParsersNext, AllCells

LEMMA NextTyped == LinesFit /\ [ParsersNext]_textVars => LinesFit'
<1> SUFFICES ASSUME LinesFit, [ParsersNext]_textVars PROVE LinesFit'
  OBVIOUS
<1>1. CASE UNCHANGED textVars
  BY <1>1 DEF textVars, LinesFit, ParsersTypeOK, FieldsFit, TextLast
<1>2. CASE ParsersNext
  BY <1>2, Steps, BeginRecordTyped, BeginInterfaceTyped, PrintFieldTyped, PrintPairTyped,
     PrintRowTyped, ReadTyped
<1> QED
  BY <1>1, <1>2

(* Whatever a device prints, it is made of lines, tokens and records of the
   declared kinds. *)
THEOREM ParsersTypeCorrect == ParsersSpec => []ParsersTypeOK
<1>1. LinesFit => ParsersTypeOK
  BY DEF LinesFit
<1> QED
  BY <1>1, InitTyped, NextTyped, PTL DEF ParsersSpec

-----------------------------------------------------------------------------
(* The counters of interfaces.                                             *)

\* Once the text is read, the result stays what the function made of it.
Held ==
    /\ reader = "query" => shape # "stats" /\ result = query(lines)
    /\ reader = "table" => shape = "table" /\ result = parseTabularRecords(lines)
    /\ reader = "stats" => shape = "stats" /\ result = parseInterfaceStats(lines)

LEMMA HeldInit == ParsersInit => Held
  BY DEF ParsersInit, Held

LEMMA HeldNext == Held /\ [ParsersNext]_textVars => Held'
<1> SUFFICES ASSUME Held, [ParsersNext]_textVars PROVE Held'
  OBVIOUS
<1>1. CASE UNCHANGED textVars
  BY <1>1, Zenon DEF textVars, Held
<1>2. CASE Query
  <2>1. reader' = "query" /\ shape' # "stats" /\ lines' = lines /\ result' = query(lines)
    BY <1>2, Zenon DEF Query, ReadBy
  <2> QED
    BY <2>1 DEF Held
<1>3. CASE ReadTable
  <2>1. /\ reader' = "table" /\ shape' = "table" /\ lines' = lines
        /\ result' = parseTabularRecords(lines)
    BY <1>3, Zenon DEF ReadTable, ReadBy
  <2> QED
    BY <2>1 DEF Held
<1>4. CASE Stats
  <2>1. /\ reader' = "stats" /\ shape' = "stats" /\ lines' = lines
        /\ result' = parseInterfaceStats(lines)
    BY <1>4, Zenon DEF Stats, ReadBy
  <2> QED
    BY <2>1 DEF Held
<1>5. CASE reader' = "none"
  BY <1>5 DEF Held
<1>6. ParsersNext => \/ Query \/ ReadTable \/ Stats \/ reader' = "none"
  BY Zenon DEF ParsersNext, BeginRecord, BeginInterface, PrintField, PrintPair, PrintRow,
     Printing
<1> QED
  BY <1>1, <1>2, <1>3, <1>4, <1>5, <1>6, Zenon

Aside == Headings \cup {"more"}

\* Each interface has a text of its own, that says what its record says.
StatsPrinted ==
    shape = "stats" =>
        /\ printed = <<>> => Paragraphs(lines, Aside) = << <<>> >>
        /\ printed # <<>> => Len(Paragraphs(lines, Aside)) = Len(printed)
        /\ \A i \in 1..Len(printed) :
              Interface(Paragraphs(lines, Aside)[i], printed[i].fields)

StatsInv == LinesFit /\ Held /\ StatsPrinted

LEMMA FlagLinesAre ==
  /\ FlagLines = Append(Append(<<>>, Line("flags", Nothing, <<>>)),
                        Line("more", Nothing, <<>>))
  /\ Line("flags", Nothing, <<>>) \in Lines /\ Line("more", Nothing, <<>>) \in Lines
<1> DEFINE a == Line("flags", Nothing, <<>>)
           b == Line("more", Nothing, <<>>)
<1>1. a \in Lines /\ b \in Lines
  BY DEF Line, Lines
<1>2. FlagLines = <<a, b>>
  BY Zenon DEF FlagLines
<1> HIDE DEF a, b
<1>3. Append(<<>>, a) = <<a>>
  BY <1>1
<1>4. <<a>> \o <<b>> = Append(<<a>>, b)
  BY <1>1, AppendIsConcat
<1> QED
  BY <1>1, <1>2, <1>3, <1>4, OneThenOne DEF a, b

LEMMA StatsInit == ParsersInit => StatsPrinted
<1> SUFFICES ASSUME ParsersInit, shape = "stats"
             PROVE  printed = <<>> /\ Paragraphs(lines, Aside) = << <<>> >>
  BY DEF StatsPrinted
<1>1. PICK h \in {<<>>, FlagLines} :
         /\ h # <<>>
         /\ lines = h \o (IF shape = "table" THEN TableHead ELSE <<>>)
  BY Zenon DEF ParsersInit
<1>2. lines = FlagLines
  <2>1. h = FlagLines /\ lines = h \o <<>> /\ FlagLines \in Seq(Lines)
    BY <1>1, HeadTyped
  <2> QED
    BY <2>1, ConcatEmptySeq
<1> DEFINE a == Line("flags", Nothing, <<>>)
           b == Line("more", Nothing, <<>>)
<1>3. lines = Append(Append(<<>>, a), b) /\ a \in Lines /\ b \in Lines
  BY <1>2, FlagLinesAre
<1>4. a.kind \in Aside /\ b.kind \in Aside
  BY DEF Line, Aside, Headings
<1> HIDE DEF a, b
<1>5. Append(<<>>, a) \in Seq(Lines)
  BY <1>3
<1>6. \A ps : AddText(ps, a, Aside) = ps /\ AddText(ps, b, Aside) = ps
  BY <1>4, Zenon DEF AddText
<1>7. Paragraphs(Append(<<>>, a), Aside) = << <<>> >>
  <2>1. <<>> \in Seq(Lines)
    OBVIOUS
  <2> QED
    BY <1>3, <1>6, <2>1, ParagraphsAppend, ParagraphsEmpty, Zenon
<1>8. Paragraphs(Append(Append(<<>>, a), b), Aside) = << <<>> >>
  BY <1>3, <1>5, <1>6, <1>7, ParagraphsAppend, Zenon
<1> QED
  BY <1>3, <1>8 DEF ParsersInit

\* A record that begins below a blank line begins a paragraph.
LEMMA ParagraphBegins ==
  ASSUME NEW ls \in Seq(Lines), NEW gap \in BOOLEAN, NEW l \in Lines, NEW leftOut,
         "text" \notin leftOut, l.kind = "text", l.tokens # <<>>
  PROVE  LET ps == Paragraphs(ls, leftOut)
         IN  Paragraphs(Append(ls \o Gap(gap), l), leftOut)
                = IF gap THEN Append(ps, l.tokens) ELSE WithLast(ps, l.tokens)
<1> DEFINE ps == Paragraphs(ls, leftOut)
           g == ls \o Gap(gap)
<1>1. \A qs : AddText(qs, l, leftOut) = WithLast(qs, l.tokens)
  BY Zenon DEF AddText, Blank, WithLast
<1>2. ps \in Texted /\ ps \in Seq(Seq(Tokens)) /\ l.tokens \in Seq(Tokens)
  BY ParagraphsTyped, LineTyped DEF Texted
<1>3. g \in Seq(Lines) /\ g = IF gap THEN Append(ls, BlankLine) ELSE ls
  BY Below, GapIs
<1> HIDE DEF g
<1>4. Paragraphs(Append(g, l), leftOut) = WithLast(Paragraphs(g, leftOut), l.tokens)
  BY <1>1, <1>3, ParagraphsAppend
<1>5. CASE gap
  <2>1. Paragraphs(g, leftOut) = AddText(ps, BlankLine, leftOut)
    BY <1>3, <1>5, ParagraphsAppend, GapIs
  <2>2. AddText(ps, BlankLine, leftOut) = Append(ps, <<>>)
    <3>1. BlankLine.kind \notin leftOut /\ Blank(BlankLine)
      BY GapIs
    <3> QED
      BY <3>1, Zenon DEF AddText
  <2> HIDE DEF ps
  <2>3. WithLast(Append(ps, <<>>), l.tokens) = Append(ps, l.tokens)
    <3> DEFINE q == Append(ps, <<>>)
               x == l.tokens
    <3>1. <<>> \in Seq(Tokens) /\ x \in Seq(Tokens) /\ <<>> \o x = x
      BY <1>2, ConcatEmptySeq
    <3>2. q[Len(q)] = <<>>
      BY <1>2, <3>1
    <3>3. WithLast(q, x) = [q EXCEPT ![Len(q)] = q[Len(q)] \o x]
      BY Zenon DEF WithLast
    <3> HIDE DEF x, q
    <3>4. WithLast(q, x) = [q EXCEPT ![Len(q)] = x]
      BY <3>1, <3>2, <3>3
    <3>5. ps \in Seq(Seq(Tokens))
      BY <1>2 DEF ps
    <3>6. [q EXCEPT ![Len(q)] = x] = Append(ps, x)
      <4>1. \A s \in Seq(Seq(Tokens)), a, b \in Seq(Tokens) :
               [Append(s, a) EXCEPT ![Len(Append(s, a))] = b] = Append(s, b)
        BY LastReplaced
      <4>2. [Append(ps, <<>>) EXCEPT ![Len(Append(ps, <<>>))] = x] = Append(ps, x)
        BY <3>1, <3>5, <4>1, Zenon
      <4> QED
        BY <4>2, Zenon DEF q
    <3> QED
      BY <3>4, <3>6 DEF q, x
  <2> QED
    BY <1>4, <1>5, <2>1, <2>2, <2>3, Zenon DEF g, ps
<1>6. CASE ~gap
  BY <1>3, <1>4, <1>6 DEF g
<1> QED
  BY <1>5, <1>6

LEMMA BeginInterfaceStats ==
  ASSUME NEW w \in DOMAIN Letters \cup {Nothing}, NEW f \in Fields,
         LinesFit, StatsPrinted, BeginInterface(w, f)
  PROVE  StatsPrinted'
<1> DEFINE p == AnIndex \o FlagWord(w, 0)
           ts == p \o FieldTokens(f)
           l == Line("text", Nothing, ts)
           gap == printed # <<>>
           P == Paragraphs(lines, Aside)
           Q == Paragraphs(lines', Aside)
<1>1. p \in Seq(Tokens) /\ \A i \in 1..Len(p) : p[i].key = Nothing /\ ~p[i].opens
  BY IndexAndFlags
<1>2. f.key = "name" /\ f.quoted /\ f.value # <<>> /\ shape = "stats"
  BY DEF BeginInterface
<1> HIDE DEF p
<1>3. Interface(ts, {f})
  BY <1>1, <1>2, InterfaceBegins
<1>4. ts \in Seq(Tokens) /\ ts # <<>>
  <2>1. ts \in Seq(Tokens) /\ Called(ts) # {}
    BY <1>3 DEF Interface
  <2> HIDE DEF ts
  <2> QED
    BY <2>1 DEF Called
<1>5. lines' = Append(lines \o Gap(gap), l)
  BY Zenon DEF BeginInterface, p
<1> HIDE DEF ts
<1>6. l \in Lines /\ l.kind = "text" /\ l.tokens = ts
  BY <1>4, TextTyped DEF Line
<1>7. lines \in Seq(Lines) /\ "text" \notin Aside /\ printed \in Seq(Records)
  BY DEF LinesFit, ParsersTypeOK, Aside, Headings
<1> HIDE DEF l
<1>8. Q = IF gap THEN Append(P, ts) ELSE WithLast(P, ts)
  BY <1>4, <1>5, <1>6, <1>7, ParagraphBegins
<1>9. P \in Texted /\ P \in Seq(Seq(Tokens))
  BY <1>7, ParagraphsTyped DEF Texted
<1>10. /\ printed = <<>> => P = << <<>> >>
       /\ printed # <<>> => Len(P) = Len(printed)
       /\ \A i \in 1..Len(printed) : Interface(P[i], printed[i].fields)
  BY <1>2, Zenon DEF StatsPrinted
<1>11. printed' = Append(printed, [flags |-> FlagsIn(w), fields |-> {f}])
  BY DEF BeginInterface
<1> DEFINE r == [flags |-> FlagsIn(w), fields |-> {f}]
<1>12. r.fields = {f}
  OBVIOUS
<1>12a. r \in Records
  BY IndexAndFlags, FieldPrinted, RecordsAre
<1>12b. printed' = Append(printed, r)
  BY <1>11
<1> HIDE DEF r
<1> DEFINE n == Len(printed)
<1>13. /\ Len(printed') = n + 1 /\ n \in Nat
       /\ \A i \in 1..n : printed'[i] = printed[i]
       /\ printed'[n + 1] = r
       /\ printed' # <<>>
  BY <1>7, <1>12a, <1>12b
<1> HIDE DEF P, Q
<1>14. Len(Q) = n + 1 /\ Q[n + 1] = ts /\ \A i \in 1..n : Q[i] = P[i]
  <2>1. CASE gap
    <3>1. Q = Append(P, ts) /\ Len(P) = n
      BY <1>8, <1>10, <2>1
    <3> QED
      BY <1>4, <1>9, <3>1
  <2>2. CASE ~gap
    <3>1. Q = WithLast(P, ts) /\ P = << <<>> >> /\ n = 0
      BY <1>8, <1>10, <2>2
    <3>2. Len(P) = 1 /\ P[1] = <<>>
      BY <3>1
    <3>3. Len(Q) = Len(P) /\ Q[Len(P)] = P[Len(P)] \o ts
      BY <1>4, <1>9, <3>1, LastLengthened DEF WithLast
    <3>4. <<>> \o ts = ts
      BY <1>4, ConcatEmptySeq
    <3> QED
      BY <3>1, <3>2, <3>3, <3>4
  <2> QED
    BY <2>1, <2>2
<1>15. \A i \in 1..Len(printed') : Interface(Q[i], printed'[i].fields)
  <2> TAKE i \in 1..Len(printed')
  <2>1. CASE i = n + 1
    BY <1>3, <1>12, <1>13, <1>14, <2>1
  <2>2. CASE i # n + 1
    <3>1. i \in 1..n
      BY <1>13, <2>2
    <3> QED
      BY <1>10, <1>13, <1>14, <3>1
  <2> QED
    BY <2>1, <2>2
<1>16. StatsPrinted'
  BY <1>13, <1>14, <1>15, Zenon DEF StatsPrinted, Q
<1> QED
  BY <1>16

LEMMA PrintFieldStats ==
  ASSUME NEW f \in Fields \cup Counters, NEW wrap \in BOOLEAN,
         LinesFit, StatsPrinted, PrintField(f, wrap), shape = "stats"
  PROVE  StatsPrinted'
<1> DEFINE us == FieldTokens(f)
           P == Paragraphs(lines, Aside)
           Q == Paragraphs(lines', Aside)
           n == Len(printed)
<1>2. /\ printed \in Seq(Records) /\ printed # <<>> /\ f \in PrintedFields
      /\ lines \in Seq(Lines) /\ TextLast(lines)
      /\ us \in Seq(Tokens) /\ us # <<>>
      /\ printed' = WithField(f) /\ lines' = More(lines, us, wrap)
      /\ ~HasKey(printed[n], f.key)
  BY FieldStep
<1>3. /\ Len(printed') = n /\ n \in 1..n /\ n \in Nat
      /\ \A i \in 1..n : i # n => printed'[i] = printed[i]
      /\ printed'[n].fields = printed[n].fields \cup {f}
      /\ printed' # <<>>
  <2>1. /\ Len(printed') = n /\ n \in 1..n /\ printed' \in Seq(Records)
        /\ \A i \in 1..n : i # n => printed'[i] = printed[i]
        /\ printed'[n].fields = printed[n].fields \cup {f}
    BY <1>2, WithFieldIs
  <2>2. printed' # <<>>
    BY <2>1
  <2> QED
    BY <1>2, <2>1, <2>2
<1>4. "text" \notin Aside
  BY DEF Aside, Headings
<1>5. Q = WithLast(P, us)
  BY <1>2, <1>4, ParagraphsMore
<1>6. P \in Texted
  BY <1>2, ParagraphsTyped
<1>7. /\ Len(P) = n
      /\ \A i \in 1..n : Interface(P[i], printed[i].fields)
  BY <1>2, Zenon DEF StatsPrinted
<1> HIDE DEF P, Q, us
<1>8. /\ Len(Q) = n /\ Q[n] = P[n] \o us
      /\ \A i \in 1..n : i # n => Q[i] = P[i]
  BY <1>2, <1>5, <1>6, <1>7, LastLengthened DEF WithLast
<1>9. ~(\E g \in printed[n].fields : g.key = f.key)
  BY <1>2, Zenon DEF HasKey
<1>10. Interface(Q[n], printed'[n].fields)
  <2>1. Interface(P[n], printed[n].fields)
    BY <1>3, <1>7
  <2> DEFINE a == P[n]
             b == printed[n].fields
  <2> HIDE DEF a, b
  <2>2. Interface(a, b) /\ ~(\E g \in b : g.key = f.key)
    BY <1>9, <2>1 DEF a, b
  <2>3. Interface(a \o FieldTokens(f), b \cup {f})
    BY <2>2, InterfaceExtended
  <2> QED
    BY <1>3, <1>8, <2>3 DEF a, b, us
<1>11. \A i \in 1..n : Interface(Q[i], printed'[i].fields)
  BY <1>3, <1>7, <1>8, <1>10
<1>12. StatsPrinted'
  BY <1>3, <1>8, <1>11, Zenon DEF StatsPrinted, Q
<1> QED
  BY <1>12

LEMMA StatsNext == LinesFit /\ StatsPrinted /\ [ParsersNext]_textVars => StatsPrinted'
<1> SUFFICES ASSUME LinesFit, StatsPrinted, [ParsersNext]_textVars PROVE StatsPrinted'
  OBVIOUS
<1>1. CASE UNCHANGED <<shape, printed, lines>>
  BY <1>1, Zenon DEF StatsPrinted
<1>2. CASE shape' # "stats"
  BY <1>2 DEF StatsPrinted
<1>3. ASSUME NEW w \in DOMAIN Letters \cup {Nothing}, NEW gap \in BOOLEAN,
             BeginRecord(w, gap)
      PROVE  StatsPrinted'
  <2>1. shape' # "stats"
    BY <1>3 DEF BeginRecord
  <2> QED
    BY <1>2, <2>1
<1>4. ASSUME NEW f \in Fields \cup Counters, NEW wrap \in BOOLEAN, PrintField(f, wrap)
      PROVE  StatsPrinted'
  <2>1. shape' = shape
    BY <1>4 DEF PrintField
  <2> QED
    BY <1>2, <1>4, <2>1, PrintFieldStats
<1>5. ASSUME NEW f \in Fields, NEW k \in Keys \cup {Nothing}, PrintPair(f, k)
      PROVE  StatsPrinted'
  <2>1. shape' # "stats"
    BY <1>5 DEF PrintPair
  <2> QED
    BY <1>2, <2>1
<1>6. ASSUME NEW w \in DOMAIN Letters \cup {Nothing}, NEW cells \in AllCells,
             PrintRow(w, cells)
      PROVE  StatsPrinted'
  <2>1. shape' # "stats"
    BY <1>6 DEF PrintRow
  <2> QED
    BY <1>2, <2>1
<1>7. ASSUME NEW r \in Readers, NEW outcome, ReadBy(r, outcome)
      PROVE  StatsPrinted'
  BY <1>1, <1>7 DEF ReadBy
<1>8. CASE UNCHANGED textVars
  BY <1>1, <1>8 DEF textVars
<1> QED
  BY <1>3, <1>4, <1>5, <1>6, <1>7, <1>8, Steps, BeginInterfaceStats

LEMMA StatsInvInit == ParsersInit => StatsInv
  BY InitTyped, HeldInit, StatsInit DEF StatsInv

LEMMA StatsInvNext == StatsInv /\ [ParsersNext]_textVars => StatsInv'
  BY NextTyped, HeldNext, StatsNext DEF StatsInv

LEMMA StatsResult ==
  ASSUME StatsInv, shape = "stats"
  PROVE  /\ Len(parseInterfaceStats(lines)) = Len(printed)
         /\ \A i \in 1..Len(printed) :
               \E ts \in Seq(Tokens) :
                  /\ Interface(ts, printed[i].fields)
                  /\ parseInterfaceStats(lines)[i] =
                       [n \in StatNames \cup {"name"} |->
                          IF n = "name" THEN NameIn(ts) ELSE NumField(ts, n)]
<1> DEFINE ps == Paragraphs(lines, Aside)
           R(ts) == [n \in StatNames \cup {"name"} |->
                       IF n = "name" THEN NameIn(ts) ELSE NumField(ts, n)]
           I == {i \in DOMAIN ps : NameIn(ps[i]) # <<>>}
           blocks == Kept(ps, I)
           n == Len(printed)
<1>1. parseInterfaceStats(lines) = [i \in DOMAIN blocks |-> R(blocks[i])]
  BY Zenon DEF parseInterfaceStats, Aside
<1>2. /\ printed \in Seq(Records) /\ lines \in Seq(Lines)
      /\ printed = <<>> => ps = << <<>> >>
      /\ printed # <<>> => Len(ps) = n
      /\ \A i \in 1..n : Interface(ps[i], printed[i].fields)
  <2>1. printed \in Seq(Records) /\ lines \in Seq(Lines)
    BY DEF StatsInv, LinesFit, ParsersTypeOK
  <2>2. /\ printed = <<>> => ps = << <<>> >>
        /\ printed # <<>> => Len(ps) = n
        /\ \A i \in 1..n : Interface(ps[i], printed[i].fields)
    BY Zenon DEF StatsInv, StatsPrinted
  <2> QED
    BY <2>1, <2>2
<1>3. ps \in Seq(Seq(Tokens)) /\ n \in Nat /\ (printed = <<>> <=> n = 0)
  <2>1. ps \in Texted
    BY <1>2, ParagraphsTyped
  <2> HIDE DEF ps
  <2>2. ps \in Seq(Seq(Tokens))
    BY <2>1 DEF Texted
  <2> QED
    BY <1>2, <2>2
<1> HIDE DEF R, ps
<1>4. CASE printed = <<>>
  <2>1. NameIn(<<>>) = <<>>
    BY DEF NameIn
  <2>2. Len(ps) = 1 /\ ps[1] = <<>>
    BY <1>2, <1>4
  <2>3. \A i \in 1..Len(ps) : i \notin I
    BY <2>1, <2>2
  <2> HIDE DEF I
  <2>4. blocks = <<>>
    BY <1>3, <2>3, KeptNone
  <2> HIDE DEF blocks
  <2>5. parseInterfaceStats(lines) = [i \in DOMAIN <<>> |-> R(<<>>[i])]
    BY <1>1, <2>4
  <2>6. DOMAIN <<>> = 1..0
    OBVIOUS
  <2>7. Len([i \in DOMAIN <<>> |-> R(<<>>[i])]) = 0
    BY <2>6
  <2>8. n = 0
    BY <1>3, <1>4
  <2> QED
    BY <2>5, <2>7, <2>8
<1>5. CASE printed # <<>>
  <2>1. Len(ps) = n
    BY <1>2, <1>5
  <2>2. ASSUME NEW i \in 1..Len(ps)
        PROVE  i \in I
    <3>1. Interface(ps[i], printed[i].fields)
      BY <1>2, <2>1
    <3>2. NameIn(ps[i]) # <<>>
      BY <3>1 DEF Interface
    <3> QED
      BY <1>3, <3>2
  <2> HIDE DEF I
  <2>3. blocks = ps
    BY <1>3, <2>2, KeptAll
  <2> HIDE DEF blocks
  <2>4. parseInterfaceStats(lines) = [i \in 1..n |-> R(ps[i])]
    BY <1>1, <1>3, <2>1, <2>3
  <2>5. ASSUME NEW i \in 1..n
        PROVE  ps[i] \in Seq(Tokens) /\ Interface(ps[i], printed[i].fields)
    BY <1>2, <1>3, <2>1
  <2>6. Len(parseInterfaceStats(lines)) = n
    BY <1>3, <2>4
  <2>7. ASSUME NEW i \in 1..n
        PROVE  \E ts \in Seq(Tokens) : /\ Interface(ts, printed[i].fields)
                                       /\ parseInterfaceStats(lines)[i] = R(ts)
    <3>1. parseInterfaceStats(lines)[i] = R(ps[i])
      BY <2>4
    <3> QED
      BY <2>5, <3>1
  <2> QED
    BY <2>6, <2>7 DEF R
<1> QED
  BY <1>4, <1>5

LEMMA StatsRight == StatsInv => StatsAreRead
<1> SUFFICES ASSUME StatsInv, reader = "stats"
             PROVE  /\ Len(result) = Len(printed)
                    /\ \A i \in DOMAIN printed :
                          LET OfName(n) == {f \in printed[i].fields : EndsIn(f.key, n)}
                          IN  /\ \A n \in StatNames :
                                    IF OfName(n) = {} THEN result[i][n] = <<"0">>
                                    ELSE \E f \in OfName(n) : result[i][n] = f.value
                              /\ \E f \in printed[i].fields :
                                    f.key = "name" /\ result[i]["name"] = f.value
  BY Zenon DEF StatsAreRead
<1>1. shape = "stats" /\ result = parseInterfaceStats(lines)
  BY DEF StatsInv, Held
<1>2. printed \in Seq(Records)
  BY DEF StatsInv, LinesFit, ParsersTypeOK
<1>3. Len(result) = Len(printed)
  BY <1>1, StatsResult
<1>4. ASSUME NEW i \in DOMAIN printed
      PROVE  LET OfName(n) == {f \in printed[i].fields : EndsIn(f.key, n)}
             IN  /\ \A n \in StatNames :
                       IF OfName(n) = {} THEN result[i][n] = <<"0">>
                       ELSE \E f \in OfName(n) : result[i][n] = f.value
                 /\ \E f \in printed[i].fields :
                       f.key = "name" /\ result[i]["name"] = f.value
  <2> DEFINE fs == printed[i].fields
  <2>1. i \in 1..Len(printed)
    BY <1>2
  <2>2. PICK ts \in Seq(Tokens) :
           /\ Interface(ts, fs)
           /\ result[i] = [n \in StatNames \cup {"name"} |->
                             IF n = "name" THEN NameIn(ts) ELSE NumField(ts, n)]
    BY <1>1, <2>1, StatsResult
  <2> HIDE DEF fs
  <2>3. \E f \in fs : f.key = "name" /\ result[i]["name"] = f.value
    <3>1. result[i]["name"] = NameIn(ts)
      BY <2>2
    <3>2. \E f \in fs : f.key = "name" /\ NameIn(ts) = f.value
      BY <2>2, Zenon DEF Interface
    <3> QED
      BY <3>1, <3>2
  <2>4. ASSUME NEW k \in StatNames
        PROVE  IF {f \in fs : EndsIn(f.key, k)} = {} THEN result[i][k] = <<"0">>
               ELSE \E f \in {g \in fs : EndsIn(g.key, k)} : result[i][k] = f.value
    <3>0. k # "name"
      BY DEF StatNames
    <3>1. result[i][k] = NumField(ts, k)
      BY <2>2, <3>0
    <3>2. Says(ts, fs, k)
      BY <2>2 DEF Interface
    <3>3. CASE \E f \in fs : EndsIn(f.key, k)
      <4>1. \E f \in fs : EndsIn(f.key, k) /\ NumField(ts, k) = f.value
        BY <3>2, <3>3, Zenon DEF Says
      <4> QED
        BY <3>1, <4>1
    <3>4. CASE ~(\E f \in fs : EndsIn(f.key, k))
      <4>1. NumField(ts, k) = <<"0">>
        BY <3>2, <3>4, NumFieldNone, Zenon DEF Says
      <4>2. {f \in fs : EndsIn(f.key, k)} = {}
        BY <3>4
      <4> QED
        BY <3>1, <4>1, <4>2
    <3> QED
      BY <3>3, <3>4
  <2> QED
    BY <2>3, <2>4, Zenon DEF fs
<1> QED
  BY <1>3, <1>4, Zenon

(* parseInterfaceStats gives every counter of every interface with all its
   digits, and 0 for one not printed, for any number of interfaces, groups of
   digits and line breaks. *)
THEOREM StatsAlwaysRead == ParsersSpec => []StatsAreRead
  BY StatsInvInit, StatsInvNext, StatsRight, PTL DEF ParsersSpec

-----------------------------------------------------------------------------
(* Records in detail.                                                      *)

\* What is read of the fields of a record.
Reads(obj, fields) ==
    /\ obj \in Objects
    /\ DOMAIN obj = {f.key : f \in fields}
    /\ \A f \in fields : obj[f.key] = UpToBlank(f)

Reports(ts, fields) ==
    /\ ts \in Seq(Tokens) /\ Closed(ts)
    /\ fields \subseteq Fields
    /\ Reads(extractFields(ts), fields)

LEMMA ReportsBegin ==
  ASSUME NEW p \in Seq(Tokens), \A i \in 1..Len(p) : p[i].key = Nothing /\ ~p[i].opens
  PROVE  Reports(p, {})
<1>1. Closed(p)
  BY OpensNothing
<1>2. extractFields(p) = NoFields
  BY ExtractKeyless
<1>3. NoFields \in Objects /\ DOMAIN NoFields = {}
  BY NoFieldsTyped DEF NoFields
<1>4. Reads(NoFields, {})
  BY <1>3 DEF Reads
<1> QED
  BY <1>1, <1>2, <1>4 DEF Reports

\* One field more is one entry more.
LEMMA ReportsExtended ==
  ASSUME NEW ts, NEW fields, NEW f \in Fields, Reports(ts, fields),
         ~(\E g \in fields : g.key = f.key)
  PROVE  Reports(ts \o FieldTokens(f), fields \cup {f})
<1> DEFINE us == FieldTokens(f)
           r == extractFields(ts)
           s == Field(f.key, UpToBlank(f))
           o == Over(s, r)
           v == UpToBlank(f)
<1>1. f \in Fields \cup Counters
  OBVIOUS
<1>2. us \in Seq(Tokens) /\ Closed(us) /\ extractFields(us) = s
  BY <1>1, FieldTokensAre, FieldTokensWhole, FieldIsRead
<1>3. ts \in Seq(Tokens) /\ Closed(ts) /\ fields \subseteq Fields /\ Reads(r, fields)
  BY DEF Reports
<1>4. ts \o us \in Seq(Tokens) /\ Closed(ts \o us)
  BY <1>2, <1>3, TokensConcat, WholeConcat
<1>5. extractFields(ts \o us) = o
  BY <1>2, <1>3, ExtractConcat
<1>6. s \in Objects
  BY <1>2, ExtractTyped
<1> HIDE DEF r, us
<1>7. o \in Objects
  BY <1>3, <1>6, OverTyped DEF Reads
<1>8. DOMAIN s = {f.key} /\ s[f.key] = v
  BY DEF Field
<1> HIDE DEF s, v
<1>9. DOMAIN r = {g.key : g \in fields} /\ \A g \in fields : r[g.key] = UpToBlank(g)
  BY <1>3 DEF Reads
<1>10. /\ DOMAIN o = {f.key} \cup DOMAIN r
       /\ o[f.key] = v
       /\ \A k \in DOMAIN r : k # f.key => o[k] = r[k]
  BY <1>8 DEF Over
<1> HIDE DEF o
<1>11. DOMAIN o = {g.key : g \in fields \cup {f}}
  BY <1>9, <1>10
<1>12. \A g \in fields \cup {f} : o[g.key] = UpToBlank(g)
  <2> TAKE g \in fields \cup {f}
  <2>1. CASE g = f
    BY <1>10, <2>1 DEF v
  <2>2. CASE g # f
    <3>1. g \in fields
      BY <2>2
    <3>2. g.key # f.key /\ g.key \in DOMAIN r
      BY <1>9, <3>1
    <3> QED
      BY <1>9, <1>10, <3>1, <3>2
  <2> QED
    BY <2>1, <2>2
<1>13. Reads(o, fields \cup {f})
  BY <1>7, <1>11, <1>12 DEF Reads
<1>14. fields \cup {f} \subseteq Fields
  BY <1>3
<1> QED
  BY <1>4, <1>5, <1>13, <1>14 DEF Reports, us

\* A block with more tokens, and a list of blocks with a longer last one.
LongerBlock(b, us) == [b EXCEPT !.tokens = @ \o us]
LastBlock(bs, us) == [bs EXCEPT ![Len(bs)].tokens = @ \o us]

LEMMA LastBlockTwice ==
  ASSUME NEW b \in Seq(BlockSet), b # <<>>, NEW ts \in Seq(Tokens), NEW us \in Seq(Tokens)
  PROVE  LastBlock(LastBlock(b, ts), us) = LastBlock(b, ts \o us)
<1>1. PICK front \in Seq(BlockSet), x \in BlockSet : b = Append(front, x)
  BY SequenceEmptyOrAppend
<1>2. \A y \in BlockSet, vs \in Seq(Tokens) :
         /\ LongerBlock(y, vs) \in BlockSet
         /\ LastBlock(Append(front, y), vs) = Append(front, LongerBlock(y, vs))
  <2> TAKE y \in BlockSet, vs \in Seq(Tokens)
  <2> DEFINE a == Append(front, y)
             z == LongerBlock(y, vs)
  <2>1. y.tokens \o vs \in Seq(Tokens)
    BY TokensConcat DEF BlockSet
  <2>2. z \in BlockSet
    BY <2>1 DEF LongerBlock, BlockSet
  <2>3. a[Len(a)] = y
    OBVIOUS
  <2>4. LastBlock(a, vs) = [a EXCEPT ![Len(a)] = LongerBlock(a[Len(a)], vs)]
    <3> HIDE DEF a
    <3> QED
      BY Zenon DEF LastBlock, LongerBlock
  <2> HIDE DEF z
  <2>5. [Append(front, y) EXCEPT ![Len(Append(front, y))] = z] = Append(front, z)
    BY <2>2, LastReplaced
  <2>6. LastBlock(a, vs) = Append(front, z)
    BY <2>3, <2>4, <2>5, Zenon DEF z, a
  <2> QED
    BY <2>2, <2>6 DEF z
<1>3. LongerBlock(LongerBlock(x, ts), us) = LongerBlock(x, ts \o us)
  <2>1. x.tokens \in Seq(Tokens)
    BY DEF BlockSet
  <2>2. (x.tokens \o ts) \o us = x.tokens \o (ts \o us)
    <3> DEFINE t == x.tokens
    <3> HIDE DEF t
    <3>1. t \in Seq(Tokens)
      BY <2>1 DEF t
    <3>2. (t \o ts) \o us = t \o (ts \o us)
      BY <3>1, ConcatAssociative, SMTT(20)
    <3> QED
      BY <3>2 DEF t
  <2>3. \A y \in BlockSet, e \in Seq(Tokens) :
           /\ LongerBlock(y, e) \in BlockSet /\ LongerBlock(y, e).flags = y.flags
           /\ LongerBlock(y, e).tokens = y.tokens \o e
    <3> TAKE y \in BlockSet, e \in Seq(Tokens)
    <3>1. y.tokens \o e \in Seq(Tokens)
      BY TokensConcat DEF BlockSet
    <3> QED
      BY <3>1 DEF LongerBlock, BlockSet
  <2> DEFINE p == LongerBlock(LongerBlock(x, ts), us)
             q == LongerBlock(x, ts \o us)
  <2>4. ts \o us \in Seq(Tokens)
    BY TokensConcat
  <2>5. p \in BlockSet /\ p.flags = x.flags /\ p.tokens = (x.tokens \o ts) \o us
    <3> DEFINE y == LongerBlock(x, ts)
    <3>1. y \in BlockSet /\ y.flags = x.flags /\ y.tokens = x.tokens \o ts
      BY <2>3, Zenon
    <3> HIDE DEF y
    <3>2. /\ LongerBlock(y, us) \in BlockSet /\ LongerBlock(y, us).flags = y.flags
          /\ LongerBlock(y, us).tokens = y.tokens \o us
      BY <2>3, <3>1, Zenon
    <3> QED
      BY <3>1, <3>2, Zenon DEF y
  <2>6. q \in BlockSet /\ q.flags = x.flags /\ q.tokens = x.tokens \o (ts \o us)
    BY <2>3, <2>4
  <2> HIDE DEF p, q
  <2>7. p.flags = q.flags /\ p.tokens = q.tokens
    BY <2>2, <2>5, <2>6
  <2>8. \A y \in BlockSet : y = [flags |-> y.flags, tokens |-> y.tokens]
    BY DEF BlockSet
  <2>9. p = q
    BY <2>5, <2>6, <2>7, <2>8, Zenon
  <2> QED
    BY <2>9 DEF p, q
<1>4. ts \o us \in Seq(Tokens)
  BY TokensConcat
<1>5. LastBlock(b, ts \o us) = Append(front, LongerBlock(x, ts \o us))
  BY <1>1, <1>2, <1>4
<1>6. LongerBlock(x, ts) \in BlockSet /\ LastBlock(b, ts) = Append(front, LongerBlock(x, ts))
  BY <1>1, <1>2
<1>7. LastBlock(Append(front, LongerBlock(x, ts)), us)
         = Append(front, LongerBlock(LongerBlock(x, ts), us))
  BY <1>2, <1>6
<1> QED
  BY <1>3, <1>5, <1>6, <1>7, Zenon

-----------------------------------------------------------------------------
(* How a list of blocks grows, and text without pairs.                     *)

LEMMA BlocksTyped ==
  ASSUME NEW ls \in Seq(Lines)
  PROVE  Blocks(ls) \in Seq(BlockSet)
<1> DEFINE T == {s \in Seq(Lines) : Blocks(s) \in Seq(BlockSet)}
<1>1. <<>> \in T
  <2>1. Blocks(<<>>) \in Seq(BlockSet)
    <3>1. <<>> \in Seq(BlockSet)
      OBVIOUS
    <3> QED
      BY <3>1, BlocksEmpty, Zenon
  <2> QED
    BY <2>1
<1>2. \A s \in Seq(Lines), l \in Lines : s \in T => Append(s, l) \in T
  <2> TAKE s \in Seq(Lines), l \in Lines
  <2> HAVE s \in T
  <2>1. Blocks(Append(s, l)) \in Seq(BlockSet)
    BY BlocksAppend, AddLineTyped
  <2>2. Append(s, l) \in Seq(Lines)
    OBVIOUS
  <2> QED
    BY <2>1, <2>2
<1> HIDE DEF T
<1>3. \A s \in Seq(Lines) : s \in T
  BY <1>1, <1>2, SeqInduct
<1> QED
  BY <1>3 DEF T

\* A line of a record begins a block or goes on with the last one.
LEMMA AddLineIs ==
  ASSUME NEW b, NEW l, l.kind = "text", l.tokens # <<>>
  PROVE  /\ Starts(l) => AddLine(b, l)
                           = Append(b, [flags |-> FlagsOf(l), tokens |-> l.tokens])
         /\ ~Starts(l) => AddLine(b, l)
                           = IF b = <<>> THEN b ELSE LastBlock(b, l.tokens)
<1>1. l.kind \notin Headings /\ ~Blank(l)
  BY DEF Headings, Blank
<1> QED
  BY <1>1, Zenon DEF AddLine, LastBlock

\* What a line begins with does not depend on a field behind it.
LEMMA LongerStarts ==
  ASSUME NEW x \in Lines, x.tokens # <<>>, NEW us \in Seq(Tokens), us # <<>>,
         us[1].key # Nothing
  PROVE  /\ Starts(Lengthened(x, us)) <=> Starts(x)
         /\ FlagsOf(Lengthened(x, us)) = FlagsOf(x)
         /\ x.tokens \o us # <<>> /\ x.tokens \o us \in Seq(Tokens)
<1> DEFINE ts == x.tokens
           w == ts \o us
           l == Lengthened(x, us)
<1>1. ts \in Seq(Tokens) /\ ts # <<>>
  BY LineTyped
<1>2. l.colon = x.colon /\ l.tokens = w
  BY LongerIs
<1> HIDE DEF ts, l
<1>3. /\ w \in Seq(Tokens) /\ Len(w) = Len(ts) + Len(us) /\ Len(ts) \in Nat \ {0}
      /\ Len(us) \in Nat \ {0}
      /\ \A i \in 1..Len(ts) : w[i] = ts[i]
      /\ \A j \in 1..Len(us) : w[Len(ts) + j] = us[j]
  <2>1. Len(ts) \in Nat \ {0} /\ Len(us) \in Nat \ {0}
    BY <1>1
  <2> QED
    BY <1>1, <2>1, TokensConcat
<1> HIDE DEF w
<1>4. 1 \in 1..Len(ts) /\ w # <<>> /\ 1 \in 1..Len(us)
  BY <1>3
<1>5. w[1] = ts[1] /\ w[Len(ts) + 1] = us[1]
  BY <1>3, <1>4
<1>6. Starts(l) <=> Starts(x)
  BY <1>1, <1>2, <1>4, <1>5, Zenon DEF Starts, ts
<1>7. FlagsOf(l) = FlagsOf(x)
  <2>1. CASE Len(ts) > 1
    <3>1. Len(w) > 1 /\ 2 \in 1..Len(ts)
      BY <1>3, <2>1
    <3>2. w[2] = ts[2]
      BY <1>3, <3>1
    <3> QED
      BY <1>2, <2>1, <3>1, <3>2, Zenon DEF FlagsOf, ts
  <2>2. CASE ~(Len(ts) > 1)
    <3> DEFINE n == Len(ts)
    <3>0. n \in Nat /\ n # 0 /\ ~(n > 1)
      BY <1>3, <2>2
    <3> HIDE DEF n
    <3>00. n = 1
      BY <3>0
    <3>1. Len(ts) = 1
      BY <3>00 DEF n
    <3>2. w[2] = us[1]
      BY <1>5, <3>1
    <3>3. ~IsPlain(w[2])
      BY <3>2 DEF IsPlain
    <3>4. FlagsOf(l) = {}
      BY <1>2, <3>3, Zenon DEF FlagsOf
    <3>5. FlagsOf(x) = {}
      BY <2>2, Zenon DEF FlagsOf, ts
    <3> QED
      BY <3>4, <3>5
  <2> QED
    BY <2>1, <2>2
<1> QED
  BY <1>3, <1>4, <1>6, <1>7 DEF w, l, ts

\* A field more is in the last block, wherever it stands.
LEMMA BlocksMore ==
  ASSUME NEW ls \in Seq(Lines), TextLast(ls), NEW us \in Seq(Tokens), us # <<>>,
         us[1].key # Nothing, NEW wrap \in BOOLEAN
  PROVE  Blocks(More(ls, us, wrap))
           = IF Blocks(ls) = <<>> THEN <<>> ELSE LastBlock(Blocks(ls), us)
<1>1. CASE wrap
  <2> DEFINE l == Line("text", Nothing, us)
  <2>1. l \in Lines /\ l.kind = "text" /\ l.tokens = us
    BY TextTyped DEF Line
  <2>2. More(ls, us, wrap) = Append(ls, l)
    BY <1>1, Zenon DEF More
  <2> HIDE DEF l
  <2>3. ~Starts(l)
    BY <2>1 DEF Starts, IsNumber, IsPlain
  <2>4. AddLine(Blocks(ls), l)
           = IF Blocks(ls) = <<>> THEN Blocks(ls) ELSE LastBlock(Blocks(ls), us)
    BY <2>1, <2>3, AddLineIs
  <2>5. Blocks(Append(ls, l)) = AddLine(Blocks(ls), l)
    BY <2>1, BlocksAppend
  <2> QED
    BY <2>2, <2>4, <2>5, Zenon
<1>2. CASE ~wrap
  <2>1. PICK front \in Seq(Lines), x \in Lines :
            /\ ls = Append(front, x)
            /\ x.kind = "text" /\ x.colon = Nothing /\ x.tokens # <<>>
            /\ \A vs \in Seq(Tokens) : More(ls, vs, FALSE) = Append(front, Lengthened(x, vs))
    BY LastWritten
  <2> DEFINE l == Lengthened(x, us)
             B == Blocks(front)
             ts == x.tokens
  <2>2. More(ls, us, wrap) = Append(front, l)
    BY <1>2, <2>1
  <2>3. l \in Lines /\ l.kind = "text" /\ l.tokens = ts \o us
    BY <2>1, LongerIs
  <2>4. /\ Starts(l) <=> Starts(x)
        /\ FlagsOf(l) = FlagsOf(x)
        /\ ts \o us # <<>>
    BY <2>1, LongerStarts
  <2>5. ts \in Seq(Tokens) /\ ts # <<>> /\ FlagsOf(x) \in FlagSets
    BY <2>1, LineTyped, FlagsOfTyped
  <2>6. B \in Seq(BlockSet)
    BY BlocksTyped
  <2> HIDE DEF l, B
  <2>7. Blocks(ls) = AddLine(B, x) /\ Blocks(Append(front, l)) = AddLine(B, l)
    BY <2>1, <2>3, BlocksAppend DEF B
  <2>8. CASE Starts(x)
    <3> DEFINE r == [flags |-> FlagsOf(x), tokens |-> ts]
               q == [flags |-> FlagsOf(x), tokens |-> ts \o us]
    <3>1. AddLine(B, x) = Append(B, r)
      BY <2>1, <2>8, AddLineIs
    <3>2. AddLine(B, l) = Append(B, q)
      <4>1. AddLine(B, l) = Append(B, [flags |-> FlagsOf(l), tokens |-> l.tokens])
        BY <2>3, <2>4, <2>8, AddLineIs
      <4> QED
        BY <2>3, <2>4, <4>1
    <3>3. r \in BlockSet /\ q \in BlockSet
      <4>1. ts \o us \in Seq(Tokens)
        BY <2>5, TokensConcat
      <4> QED
        BY <2>5, <4>1 DEF BlockSet
    <3>4. [r EXCEPT !.tokens = @ \o us] = q
      <4> DEFINE v == ts \o us
                 c == FlagsOf(x)
      <4> HIDE DEF v, c
      <4>1. \A t : [[flags |-> c, tokens |-> t] EXCEPT !.tokens = v]
                      = [flags |-> c, tokens |-> v]
        OBVIOUS
      <4>2. r.tokens = ts
        OBVIOUS
      <4> QED
        BY <4>1, <4>2, Zenon DEF v, c
    <3> DEFINE a == Append(B, r)
    <3> HIDE DEF ts, r, q
    <3>5. a[Len(a)] = r /\ a # <<>>
      BY <2>6, <3>3, AppendProperties DEF a
    <3>6. LastBlock(a, us) = [a EXCEPT ![Len(a)] = q]
      <4>1. LastBlock(a, us) = [a EXCEPT ![Len(a)] = LongerBlock(a[Len(a)], us)]
        <5> HIDE DEF a
        <5> QED
          BY Zenon DEF LastBlock, LongerBlock
      <4>2. LongerBlock(r, us) = q
        BY <3>4, Zenon DEF LongerBlock
      <4> QED
        BY <3>5, <4>1, <4>2, Zenon
    <3>7. [Append(B, r) EXCEPT ![Len(Append(B, r))] = q] = Append(B, q)
      BY <2>6, <3>3, LastReplaced
    <3> QED
      BY <2>2, <2>7, <3>1, <3>2, <3>5, <3>6, <3>7, Zenon
  <2>9. CASE ~Starts(x)
    <3>1. AddLine(B, x) = IF B = <<>> THEN B ELSE LastBlock(B, ts)
      BY <2>1, <2>9, AddLineIs
    <3>2. AddLine(B, l) = IF B = <<>> THEN B ELSE LastBlock(B, ts \o us)
      <4>1. AddLine(B, l) = IF B = <<>> THEN B ELSE LastBlock(B, l.tokens)
        BY <2>3, <2>4, <2>9, AddLineIs
      <4> QED
        BY <2>3, <4>1
    <3>3. CASE B = <<>>
      BY <2>2, <2>7, <3>1, <3>2, <3>3
    <3>4. CASE B # <<>>
      <4>1. LastBlock(LastBlock(B, ts), us) = LastBlock(B, ts \o us)
        BY <2>5, <2>6, <3>4, LastBlockTwice
      <4>2. LastBlock(B, ts) # <<>>
        <5>1. /\ LastBlock(B, ts) \in Seq(BlockSet) /\ Len(LastBlock(B, ts)) = Len(B)
          BY <2>5, <2>6, <3>4, LastExtended DEF LastBlock
        <5> QED
          BY <2>6, <3>4, <5>1
      <4> QED
        BY <2>2, <2>7, <3>1, <3>2, <3>4, <4>1, <4>2, Zenon
    <3> QED
      BY <3>3, <3>4
  <2> QED
    BY <2>8, <2>9
<1> QED
  BY <1>1, <1>2

\* A line below a gap.
LEMMA BlockBegins ==
  ASSUME NEW ls \in Seq(Lines), NEW gap \in BOOLEAN, NEW l \in Lines
  PROVE  Blocks(Append(ls \o Gap(gap), l)) = AddLine(Blocks(ls), l)
<1> DEFINE g == ls \o Gap(gap)
<1>1. g \in Seq(Lines) /\ g = IF gap THEN Append(ls, BlankLine) ELSE ls
  BY Below, GapIs
<1> HIDE DEF g
<1>2. Blocks(Append(g, l)) = AddLine(Blocks(g), l)
  BY <1>1, BlocksAppend
<1>3. Blocks(g) = Blocks(ls)
  <2>1. CASE gap
    <3>1. Blocks(g) = AddLine(Blocks(ls), BlankLine)
      BY <1>1, <2>1, GapIs, BlocksAppend
    <3>2. Blank(BlankLine)
      BY GapIs
    <3> QED
      BY <3>1, <3>2, Zenon DEF AddLine
  <2>2. CASE ~gap
    BY <1>1, <2>2
  <2> QED
    BY <2>1, <2>2
<1> QED
  BY <1>2, <1>3 DEF g

\* No line holds a pair or heads a table.
Plainly(ls) == \A i \in 1..Len(ls) : ls[i].colon = Nothing /\ ls[i].kind # "head"

LEMMA PlainlyAppend ==
  ASSUME NEW ls \in Seq(Lines), NEW l \in Lines
  PROVE  Plainly(Append(ls, l)) <=>
            Plainly(ls) /\ l.colon = Nothing /\ l.kind # "head"
<1>1. /\ Len(Append(ls, l)) = Len(ls) + 1 /\ Len(ls) \in Nat
      /\ \A i \in 1..Len(ls) : Append(ls, l)[i] = ls[i]
      /\ Append(ls, l)[Len(ls) + 1] = l
  OBVIOUS
<1> DEFINE a == Append(ls, l)
<1> HIDE DEF a
<1>2. /\ Len(a) = Len(ls) + 1 /\ Len(ls) \in Nat
      /\ \A i \in 1..Len(ls) : a[i] = ls[i]
      /\ a[Len(ls) + 1] = l
  BY <1>1 DEF a
<1>3. Plainly(a) <=> Plainly(ls) /\ l.colon = Nothing /\ l.kind # "head"
  BY <1>2 DEF Plainly
<1> QED
  BY <1>3 DEF a

LEMMA PlainlyMore ==
  ASSUME NEW ls \in Seq(Lines), TextLast(ls), NEW us \in Seq(Tokens),
         NEW wrap \in BOOLEAN, Plainly(ls)
  PROVE  Plainly(More(ls, us, wrap))
<1>1. CASE wrap
  <2> DEFINE l == Line("text", Nothing, us)
  <2>1. l \in Lines /\ l.kind = "text" /\ l.colon = Nothing
    BY TextTyped DEF Line
  <2>2. More(ls, us, wrap) = Append(ls, l)
    BY <1>1, Zenon DEF More
  <2> HIDE DEF l
  <2> QED
    BY <2>1, <2>2, PlainlyAppend
<1>2. CASE ~wrap
  <2>1. PICK front \in Seq(Lines), x \in Lines :
            /\ ls = Append(front, x)
            /\ x.kind = "text" /\ x.colon = Nothing /\ x.tokens # <<>>
            /\ \A vs \in Seq(Tokens) : More(ls, vs, FALSE) = Append(front, Lengthened(x, vs))
    BY LastWritten
  <2>2. More(ls, us, wrap) = Append(front, Lengthened(x, us))
    BY <1>2, <2>1
  <2>3. /\ Lengthened(x, us) \in Lines /\ Lengthened(x, us).kind = "text"
        /\ Lengthened(x, us).colon = Nothing
    BY <2>1, LongerIs
  <2>4. Plainly(front)
    BY <2>1, PlainlyAppend
  <2> QED
    BY <2>2, <2>3, <2>4, PlainlyAppend
<1> QED
  BY <1>1, <1>2

LEMMA PlainlyBelow ==
  ASSUME NEW ls \in Seq(Lines), NEW gap \in BOOLEAN, NEW l \in Lines, Plainly(ls),
         l.colon = Nothing, l.kind # "head"
  PROVE  Plainly(Append(ls \o Gap(gap), l))
<1> DEFINE g == ls \o Gap(gap)
<1>1. g \in Seq(Lines) /\ g = IF gap THEN Append(ls, BlankLine) ELSE ls
  BY Below, GapIs
<1> HIDE DEF g
<1>2. Plainly(g)
  <2>1. CASE gap
    <3>1. BlankLine \in Lines /\ BlankLine.colon = Nothing /\ BlankLine.kind # "head"
      BY GapIs
    <3> QED
      BY <1>1, <2>1, <3>1, PlainlyAppend
  <2>2. CASE ~gap
    BY <1>1, <2>2
  <2> QED
    BY <2>1, <2>2
<1>3. Plainly(Append(g, l))
  BY <1>1, <1>2, PlainlyAppend
<1> QED
  BY <1>3 DEF g

\* Where no line holds a pair, there is none.
LEMMA NoPairs ==
  ASSUME NEW ls \in Seq(Lines), Plainly(ls)
  PROVE  parseKeyValue(ls) = NoFields
<1> DEFINE T == {s \in Seq(Lines) : Plainly(s) => parseKeyValue(s) = NoFields}
<1>1. <<>> \in T
  BY PairsEmpty
<1>2. \A s \in Seq(Lines), l \in Lines : s \in T => Append(s, l) \in T
  <2> TAKE s \in Seq(Lines), l \in Lines
  <2> HAVE s \in T
  <2>1. Append(s, l) \in Seq(Lines)
    OBVIOUS
  <2>2. ASSUME Plainly(Append(s, l))
        PROVE  parseKeyValue(Append(s, l)) = NoFields
    <3>1. Plainly(s) /\ l.colon = Nothing
      BY <2>2, PlainlyAppend
    <3>2. parseKeyValue(s) = NoFields
      BY <3>1
    <3>3. parseKeyValue(Append(s, l)) = AddPair(parseKeyValue(s), l)
      BY PairsAppend
    <3> QED
      BY <3>1, <3>2, <3>3, Zenon DEF AddPair
  <2> QED
    BY <2>1, <2>2
<1> HIDE DEF T
<1>3. \A s \in Seq(Lines) : s \in T
  BY <1>1, <1>2, SeqInduct
<1> QED
  BY <1>3 DEF T

-----------------------------------------------------------------------------
(* Each record has a block or a paragraph of its own.                      *)

\* Each record with an index has a block, that says what its record says.
DetailPrinted ==
    shape = "detail" =>
        /\ Plainly(lines)
        /\ Len(Blocks(lines)) = Len(printed)
        /\ printed = <<>> => Paragraphs(lines, Headings) = << <<>> >>
        /\ \A i \in 1..Len(printed) :
              /\ Blocks(lines)[i].flags = printed[i].flags
              /\ Reports(Blocks(lines)[i].tokens, printed[i].fields)

\* Without an index each record has a paragraph, and none a block.
FlaggedPrinted ==
    shape = "flagged" =>
        /\ Plainly(lines)
        /\ Blocks(lines) = <<>>
        /\ printed = <<>> => Paragraphs(lines, Headings) = << <<>> >>
        /\ printed # <<>> => Len(Paragraphs(lines, Headings)) = Len(printed)
        /\ \A i \in 1..Len(printed) :
              Reports(Paragraphs(lines, Headings)[i], printed[i].fields)

LEMMA HeaderIs ==
  /\ Blocks(<<>>) = <<>> /\ Blocks(FlagLines) = <<>>
  /\ Plainly(<<>>) /\ Plainly(FlagLines)
  /\ Paragraphs(<<>>, Headings) = << <<>> >> /\ Paragraphs(FlagLines, Headings) = << <<>> >>
<1> DEFINE a == Line("flags", Nothing, <<>>)
           b == Line("more", Nothing, <<>>)
<1>1. FlagLines = Append(Append(<<>>, a), b) /\ a \in Lines /\ b \in Lines
  BY FlagLinesAre
<1>2. /\ a.kind \in Headings /\ b.kind \notin Headings /\ b.kind = "more"
      /\ a.colon = Nothing /\ b.colon = Nothing /\ a.kind # "head" /\ b.kind # "head"
      /\ b.tokens = <<>>
  BY DEF Line, Headings
<1> HIDE DEF a, b
<1>3. <<>> \in Seq(Lines) /\ Append(<<>>, a) \in Seq(Lines)
  BY <1>1
<1>4. Plainly(<<>>)
  BY DEF Plainly
<1>5. Plainly(FlagLines)
  BY <1>1, <1>2, <1>3, <1>4, PlainlyAppend
<1>6. \A bs : AddLine(bs, a) = bs
  BY <1>2, Zenon DEF AddLine
<1>7. AddLine(<<>>, b) = <<>>
  <2>1. ~Starts(b)
    BY <1>2, Zenon DEF Starts
  <2> QED
    BY <2>1, Zenon DEF AddLine
<1>8. Blocks(Append(<<>>, a)) = <<>>
  BY <1>1, <1>3, <1>6, BlocksAppend, BlocksEmpty, Zenon
<1>9. Blocks(FlagLines) = <<>>
  BY <1>1, <1>3, <1>7, <1>8, BlocksAppend, Zenon
<1>10. Paragraphs(Append(<<>>, a), Headings) = << <<>> >>
  <2>1. \A ps : AddText(ps, a, Headings) = ps
    BY <1>2, Zenon DEF AddText
  <2> QED
    BY <1>1, <1>3, <2>1, ParagraphsAppend, ParagraphsEmpty, Zenon
<1>11. AddText(<< <<>> >>, b, Headings) = << <<>> >>
  <2>1. b.kind # "text"
    BY <1>2
  <2>2. AddText(<< <<>> >>, b, Headings)
           = [<< <<>> >> EXCEPT ![Len(<< <<>> >>)] = @ \o b.tokens]
    BY <1>2, <2>1, Zenon DEF AddText, Blank
  <2> DEFINE p == << <<>> >>
  <2>3. Len(p) = 1 /\ p[1] = <<>> /\ <<>> \o <<>> = <<>>
    OBVIOUS
  <2>4. [p EXCEPT ![1] = <<>>] = p
    OBVIOUS
  <2>5. [p EXCEPT ![Len(p)] = @ \o b.tokens] = [p EXCEPT ![Len(p)] = p[Len(p)] \o b.tokens]
    <3> HIDE DEF p
    <3> QED
      BY Zenon
  <2> HIDE DEF p
  <2>6. [p EXCEPT ![Len(p)] = @ \o b.tokens] = p
    BY <1>2, <2>3, <2>4, <2>5, Zenon
  <2> QED
    BY <2>2, <2>6, Zenon DEF p
<1>12. Paragraphs(FlagLines, Headings) = << <<>> >>
  BY <1>1, <1>3, <1>10, <1>11, ParagraphsAppend, Zenon
<1>13. Paragraphs(<<>>, Headings) = << <<>> >>
  BY ParagraphsEmpty
<1> QED
  BY <1>4, <1>5, <1>9, <1>12, <1>13, BlocksEmpty

LEMMA InitLines ==
  ASSUME ParsersInit
  PROVE  /\ printed = <<>>
         /\ shape # "table" => lines = <<>> \/ lines = FlagLines
         /\ shape = "pairs" => lines = <<>>
         /\ shape = "table" => lines = FlagLines \o TableHead
<1>1. PICK h \in {<<>>, FlagLines} :
         /\ shape \in {"flagged", "table", "stats"} => h # <<>>
         /\ shape = "pairs" => h = <<>>
         /\ lines = h \o (IF shape = "table" THEN TableHead ELSE <<>>)
  BY Zenon DEF ParsersInit
<1>2. h \in Seq(Lines)
  <2>1. CASE h = <<>>
    BY <2>1
  <2>2. CASE h = FlagLines
    BY <2>2, HeadTyped
  <2> QED
    BY <1>1, <2>1, <2>2
<1>3. h \o <<>> = h
  BY <1>2, ConcatEmptySeq
<1>4. shape = "table" => h = FlagLines
  BY <1>1
<1>5. shape # "table" => lines = h
  BY <1>1, <1>3
<1>6. printed = <<>>
  BY DEF ParsersInit
<1>7. shape = "table" => lines = FlagLines \o TableHead
  BY <1>1, <1>4, Zenon
<1>8. shape # "table" => lines = <<>> \/ lines = FlagLines
  BY <1>1, <1>5
<1>9. shape = "pairs" => lines = <<>>
  BY <1>1, <1>5
<1> QED
  BY <1>6, <1>7, <1>8, <1>9

LEMMA DetailInit == ParsersInit => DetailPrinted /\ FlaggedPrinted
<1> SUFFICES ASSUME ParsersInit PROVE DetailPrinted /\ FlaggedPrinted
  OBVIOUS
<1>1. CASE shape = "table"
  BY <1>1 DEF DetailPrinted, FlaggedPrinted
<1>2. CASE shape # "table"
  <2>1. /\ Plainly(lines) /\ Blocks(lines) = <<>>
        /\ Paragraphs(lines, Headings) = << <<>> >> /\ printed = <<>>
    BY <1>2, InitLines, HeaderIs, Zenon
  <2>2. Len(printed) = 0 /\ Len(Blocks(lines)) = 0
    BY <2>1
  <2> QED
    BY <2>1, <2>2 DEF DetailPrinted, FlaggedPrinted
<1> QED
  BY <1>1, <1>2

\* A record begins.
LEMMA BeginStep ==
  ASSUME NEW w \in DOMAIN Letters \cup {Nothing}, NEW gap \in BOOLEAN,
         LinesFit, BeginRecord(w, gap)
  PROVE  \E l \in Lines, r \in Records :
            /\ l.kind = "text" /\ l.colon = Nothing /\ l.tokens # <<>>
            /\ l.tokens \in Seq(Tokens)
            /\ shape = "detail" => l.tokens = AnIndex \o FlagWord(w, 0)
            /\ shape = "flagged" => l.tokens = FlagWord(w, 0) /\ w # Nothing
            /\ r.flags = FlagsIn(w) /\ r.fields = {}
            /\ lines' = Append(lines \o Gap(gap), l)
            /\ printed' = Append(printed, r)
            /\ shape' = shape
            /\ shape = "flagged" => (gap <=> printed # <<>>)
<1> DEFINE ts == (IF shape = "detail" THEN AnIndex ELSE <<>>) \o FlagWord(w, 0)
           l == Line("text", Nothing, ts)
           r == [flags |-> FlagsIn(w), fields |-> {}]
<1>1. /\ shape \in {"detail", "flagged"} /\ shape' = shape
      /\ gap => printed # <<>>
      /\ shape = "flagged" => w # Nothing /\ (printed # <<>> => gap)
      /\ printed' = Append(printed, r)
  BY DEF BeginRecord
<1>2. lines' = Append(lines \o Gap(gap), l)
  BY Zenon DEF BeginRecord
<1>3. /\ AnIndex \in Seq(Tokens) /\ Len(AnIndex) = 1 /\ FlagWord(w, 0) \in Seq(Tokens)
      /\ w # Nothing => FlagWord(w, 0) = <<Word(w, 0)>>
  BY IndexAndFlags
<1>4. shape = "flagged" => ts = FlagWord(w, 0)
  <2>1. <<>> \o FlagWord(w, 0) = FlagWord(w, 0)
    BY <1>3, ConcatEmptySeq
  <2> QED
    BY <2>1
<1>5. ts \in Seq(Tokens) /\ ts # <<>>
  <2>1. CASE shape = "detail"
    BY <1>3, <2>1
  <2>2. CASE shape = "flagged"
    <3>1. FlagWord(w, 0) # <<>>
      <4>1. FlagWord(w, 0) = <<Word(w, 0)>>
        BY <1>1, <1>3, <2>2, Zenon
      <4>2. \A e : <<e>> # <<>>
        OBVIOUS
      <4> QED
        BY <4>1, <4>2, Zenon
    <3> QED
      BY <1>3, <1>4, <2>2, <3>1, Zenon
  <2> QED
    BY <1>1, <2>1, <2>2
<1>6. shape = "detail" => ts = AnIndex \o FlagWord(w, 0)
  OBVIOUS
<1> HIDE DEF ts
<1>7. l \in Lines /\ l.kind = "text" /\ l.colon = Nothing /\ l.tokens = ts
  BY <1>5, TextTyped DEF Line
<1>8. r \in Records /\ r.flags = FlagsIn(w) /\ r.fields = {}
  BY IndexAndFlags, RecordsAre
<1> HIDE DEF l, r
<1> QED
  BY <1>1, <1>2, <1>4, <1>5, <1>6, <1>7, <1>8

LEMMA BeginRecordDetail ==
  ASSUME NEW w \in DOMAIN Letters \cup {Nothing}, NEW gap \in BOOLEAN,
         LinesFit, DetailPrinted, BeginRecord(w, gap), shape = "detail"
  PROVE  DetailPrinted'
<1>1. PICK l \in Lines, r \in Records :
         /\ l.kind = "text" /\ l.colon = Nothing /\ l.tokens # <<>>
         /\ l.tokens \in Seq(Tokens)
         /\ shape = "detail" => l.tokens = AnIndex \o FlagWord(w, 0)
         /\ shape = "flagged" => l.tokens = FlagWord(w, 0) /\ w # Nothing
         /\ r.flags = FlagsIn(w) /\ r.fields = {}
         /\ lines' = Append(lines \o Gap(gap), l)
         /\ printed' = Append(printed, r)
         /\ shape' = shape
         /\ shape = "flagged" => (gap <=> printed # <<>>)
  BY BeginStep, Zenon
<1> DEFINE B == Blocks(lines)
           C == Blocks(lines')
           b == [flags |-> FlagsOf(l), tokens |-> l.tokens]
           n == Len(printed)
<1>2. lines \in Seq(Lines) /\ printed \in Seq(Records) /\ n \in Nat
  BY DEF LinesFit, ParsersTypeOK
<1>3. B \in Seq(BlockSet)
  BY <1>2, BlocksTyped
<1>4. Reports(l.tokens, {})
  <2> DEFINE p == AnIndex \o FlagWord(w, 0)
  <2>1. /\ p \in Seq(Tokens)
        /\ \A i \in 1..Len(p) : p[i].key = Nothing /\ ~p[i].opens
    BY IndexAndFlags
  <2>2. l.tokens = p
    BY <1>1
  <2> HIDE DEF p
  <2> QED
    BY <2>1, <2>2, ReportsBegin
<1>5. Starts(l)
  <2>1. /\ AnIndex \in Seq(Tokens) /\ Len(AnIndex) = 1 /\ IsNumber(AnIndex[1])
        /\ FlagWord(w, 0) \in Seq(Tokens)
    BY IndexAndFlags
  <2>2. (AnIndex \o FlagWord(w, 0))[1] = AnIndex[1]
    <3> DEFINE a == AnIndex
               d == FlagWord(w, 0)
    <3>1. a \in Seq(Tokens) /\ d \in Seq(Tokens) /\ 1 \in 1..Len(a)
      BY <2>1
    <3> HIDE DEF a, d
    <3>2. (a \o d)[1] = a[1]
      BY <3>1, TokensConcat
    <3> QED
      BY <3>2, Zenon DEF a, d
  <2> QED
    BY <1>1, <2>1, <2>2, Zenon DEF Starts
<1>6. FlagsOf(l) = FlagsIn(w)
  <2>1. /\ AnIndex \in Seq(Tokens) /\ Len(AnIndex) = 1
        /\ FlagWord(w, 0) \in Seq(Tokens)
        /\ FlagWord(w, 0) = IF w = Nothing THEN <<>> ELSE <<Word(w, 0)>>
        /\ Word(w, 0) \in Tokens /\ Word(w, 0).word = w
    BY IndexAndFlags
  <2>2. CASE w = Nothing
    <3>1. l.tokens = AnIndex
      BY <1>1, <2>1, <2>2, ConcatEmptySeq
    <3>2. ~(Len(l.tokens) > 1)
      <4>1. Len(l.tokens) = 1
        BY <2>1, <3>1, Zenon
      <4> QED
        BY <4>1
    <3> QED
      BY <2>2, <3>2, Zenon DEF FlagsOf, FlagsIn
  <2>3. CASE w # Nothing
    <3>1. FlagWord(w, 0) = <<Word(w, 0)>>
      BY <2>1, <2>3
    <3>2. Len(FlagWord(w, 0)) = 1 /\ FlagWord(w, 0)[1] = Word(w, 0)
      BY <3>1
    <3>3. Len(l.tokens) = 2 /\ l.tokens[2] = Word(w, 0)
      <4> DEFINE a == AnIndex
                 d == FlagWord(w, 0)
                 t == l.tokens
                 v == Word(w, 0)
      <4>1. /\ a \in Seq(Tokens) /\ Len(a) = 1
            /\ d \in Seq(Tokens) /\ Len(d) = 1 /\ d[1] = v
        BY <2>1, <3>2
      <4>2. t = a \o d
        BY <1>1
      <4> HIDE DEF a, d, t, v
      <4>3. /\ Len(a \o d) = Len(a) + Len(d)
            /\ \A k \in 1..Len(d) : (a \o d)[Len(a) + k] = d[k]
        BY <4>1, TokensConcat
      <4>4. Len(t) = 2 /\ t[1 + 1] = v
        BY <4>1, <4>2, <4>3
      <4>5. 1 + 1 = 2
        OBVIOUS
      <4> QED
        BY <4>4, <4>5, Zenon DEF t, v
    <3>4. IsPlain(l.tokens[2]) /\ l.tokens[2].word = w
      <4>1. IsPlain(Word(w, 0))
        BY DEF IsPlain, Word, Token
      <4> QED
        BY <2>1, <3>3, <4>1, Zenon
    <3>5. w \in DOMAIN Letters
      BY <2>3
    <3>6. Len(l.tokens) > 1
      BY <3>3
    <3> QED
      BY <2>3, <3>4, <3>5, <3>6, Zenon DEF FlagsOf, FlagsIn
  <2> QED
    BY <2>2, <2>3
<1>7. C = Append(B, b)
  BY <1>1, <1>2, <1>5, BlockBegins, AddLineIs
<1>8. b \in BlockSet /\ b.flags = FlagsIn(w) /\ b.tokens = l.tokens
  BY <1>1, <1>6, FlagsOfTyped DEF BlockSet
<1>9. /\ Len(B) = n
      /\ \A i \in 1..n : /\ B[i].flags = printed[i].flags
                         /\ Reports(B[i].tokens, printed[i].fields)
      /\ Plainly(lines)
  BY Zenon DEF DetailPrinted
<1> HIDE DEF B, C, b
<1>10. /\ Len(C) = n + 1 /\ C[n + 1] = b /\ \A i \in 1..n : C[i] = B[i]
  BY <1>2, <1>3, <1>7, <1>8, <1>9
<1>11. /\ Len(printed') = n + 1 /\ printed'[n + 1] = r
       /\ \A i \in 1..n : printed'[i] = printed[i]
       /\ printed' # <<>>
  <2> DEFINE p == printed
             q == printed'
  <2>1. p \in Seq(Records) /\ r \in Records /\ q = Append(p, r)
    BY <1>1, <1>2
  <2> HIDE DEF p, q
  <2>2. /\ Len(q) = Len(p) + 1 /\ q[Len(p) + 1] = r
        /\ \A i \in 1..Len(p) : q[i] = p[i]
        /\ q # <<>>
    BY <2>1
  <2> QED
    BY <2>2 DEF p, q
<1>12. ASSUME NEW i \in 1..Len(printed')
       PROVE  C[i].flags = printed'[i].flags /\ Reports(C[i].tokens, printed'[i].fields)
  <2>1. CASE i = n + 1
    BY <1>1, <1>4, <1>8, <1>10, <1>11, <2>1
  <2>2. CASE i # n + 1
    <3>1. i \in 1..n
      BY <1>2, <1>11, <2>2
    <3> QED
      BY <1>9, <1>10, <1>11, <3>1
  <2> QED
    BY <2>1, <2>2
<1>13. Plainly(lines')
  <2>1. l.kind # "head"
    BY <1>1
  <2> QED
    BY <1>1, <1>2, <1>9, <2>1, PlainlyBelow
<1> QED
  BY <1>10, <1>11, <1>12, <1>13, Zenon DEF DetailPrinted, C

LEMMA BeginRecordFlagged ==
  ASSUME NEW w \in DOMAIN Letters \cup {Nothing}, NEW gap \in BOOLEAN,
         LinesFit, FlaggedPrinted, BeginRecord(w, gap), shape = "flagged"
  PROVE  FlaggedPrinted'
<1>1. PICK l \in Lines, r \in Records :
         /\ l.kind = "text" /\ l.colon = Nothing /\ l.tokens # <<>>
         /\ l.tokens \in Seq(Tokens)
         /\ shape = "detail" => l.tokens = AnIndex \o FlagWord(w, 0)
         /\ shape = "flagged" => l.tokens = FlagWord(w, 0) /\ w # Nothing
         /\ r.flags = FlagsIn(w) /\ r.fields = {}
         /\ lines' = Append(lines \o Gap(gap), l)
         /\ printed' = Append(printed, r)
         /\ shape' = shape
         /\ shape = "flagged" => (gap <=> printed # <<>>)
  BY BeginStep, Zenon
<1> DEFINE P == Paragraphs(lines, Headings)
           Q == Paragraphs(lines', Headings)
           n == Len(printed)
           ts == l.tokens
<1>2. lines \in Seq(Lines) /\ printed \in Seq(Records) /\ n \in Nat
  BY DEF LinesFit, ParsersTypeOK
<1>3. /\ Plainly(lines) /\ Blocks(lines) = <<>>
      /\ printed = <<>> => P = << <<>> >>
      /\ printed # <<>> => Len(P) = n
      /\ \A i \in 1..n : Reports(P[i], printed[i].fields)
  BY Zenon DEF FlaggedPrinted
<1>4. Reports(ts, {})
  <2>1. \A i \in 1..Len(FlagWord(w, 0)) :
          FlagWord(w, 0)[i].key = Nothing /\ ~FlagWord(w, 0)[i].opens
    BY IndexAndFlags
  <2> QED
    BY <1>1, <2>1, ReportsBegin
<1>5. ~Starts(l)
  <2>1. FlagWord(w, 0) = <<Word(w, 0)>> /\ Word(w, 0).word = w /\ w \notin Numbers
    BY <1>1, IndexAndFlags
  <2>2. l.tokens[1] = Word(w, 0)
    BY <1>1, <2>1
  <2> QED
    BY <2>1, <2>2, Zenon DEF Starts, IsNumber
<1>6. Blocks(lines') = <<>>
  <2>1. Blocks(lines') = AddLine(Blocks(lines), l)
    BY <1>1, <1>2, BlockBegins
  <2>2. AddLine(<<>>, l) = <<>>
    BY <1>1, <1>5, AddLineIs
  <2> QED
    BY <1>3, <2>1, <2>2
<1>7. Plainly(lines')
  <2>1. l.kind # "head"
    BY <1>1
  <2> QED
    BY <1>1, <1>2, <1>3, <2>1, PlainlyBelow
<1>8. "text" \notin Headings
  BY DEF Headings
<1>9. Q = IF gap THEN Append(P, ts) ELSE WithLast(P, ts)
  BY <1>1, <1>2, <1>8, ParagraphBegins
<1>10. P \in Texted /\ P \in Seq(Seq(Tokens)) /\ ts \in Seq(Tokens)
  BY <1>1, <1>2, ParagraphsTyped DEF Texted
<1> HIDE DEF P, Q, ts
<1>11. Len(Q) = n + 1 /\ Q[n + 1] = ts /\ \A i \in 1..n : Q[i] = P[i]
  <2>1. CASE gap
    <3>1. Q = Append(P, ts) /\ Len(P) = n
      BY <1>1, <1>3, <1>9, <2>1
    <3> QED
      BY <1>10, <3>1
  <2>2. CASE ~gap
    <3>1. Q = WithLast(P, ts) /\ P = << <<>> >> /\ n = 0
      BY <1>1, <1>2, <1>3, <1>9, <2>2
    <3>2. Len(P) = 1 /\ P[1] = <<>>
      BY <3>1
    <3>3. Len(Q) = Len(P) /\ Q[Len(P)] = P[Len(P)] \o ts
      BY <1>10, <3>1, LastLengthened DEF WithLast
    <3>4. <<>> \o ts = ts
      BY <1>10, ConcatEmptySeq
    <3> QED
      BY <3>1, <3>2, <3>3, <3>4
  <2> QED
    BY <2>1, <2>2
<1>12. /\ Len(printed') = n + 1 /\ printed'[n + 1] = r
       /\ \A i \in 1..n : printed'[i] = printed[i]
       /\ printed' # <<>>
  <2> DEFINE p == printed
             q == printed'
  <2>1. p \in Seq(Records) /\ r \in Records /\ q = Append(p, r)
    BY <1>1, <1>2
  <2> HIDE DEF p, q
  <2>2. /\ Len(q) = Len(p) + 1 /\ q[Len(p) + 1] = r
        /\ \A i \in 1..Len(p) : q[i] = p[i]
        /\ q # <<>>
    BY <2>1
  <2> QED
    BY <2>2 DEF p, q
<1>13. ASSUME NEW i \in 1..Len(printed')
       PROVE  Reports(Q[i], printed'[i].fields)
  <2>1. CASE i = n + 1
    BY <1>1, <1>4, <1>11, <1>12, <2>1
  <2>2. CASE i # n + 1
    <3>1. i \in 1..n
      BY <1>2, <1>12, <2>2
    <3> QED
      BY <1>3, <1>11, <1>12, <3>1
  <2> QED
    BY <2>1, <2>2
<1> QED
  BY <1>6, <1>7, <1>11, <1>12, <1>13, Zenon DEF FlaggedPrinted, Q

LEMMA PrintFieldDetail ==
  ASSUME NEW f \in Fields \cup Counters, NEW wrap \in BOOLEAN,
         LinesFit, DetailPrinted, PrintField(f, wrap), shape = "detail"
  PROVE  DetailPrinted'
<1> DEFINE us == FieldTokens(f)
           B == Blocks(lines)
           C == Blocks(lines')
           n == Len(printed)
<1>1. f \in Fields
  BY DEF PrintField
<1>2. /\ printed \in Seq(Records) /\ printed # <<>> /\ f \in PrintedFields
      /\ lines \in Seq(Lines) /\ TextLast(lines)
      /\ us \in Seq(Tokens) /\ us # <<>>
      /\ printed' = WithField(f) /\ lines' = More(lines, us, wrap)
      /\ ~HasKey(printed[n], f.key)
  BY FieldStep
<1>3. /\ Len(printed') = n /\ n \in 1..n /\ n \in Nat
      /\ \A i \in 1..n : i # n => printed'[i] = printed[i]
      /\ printed'[n].flags = printed[n].flags
      /\ printed'[n].fields = printed[n].fields \cup {f}
      /\ printed' # <<>>
  <2>1. /\ Len(printed') = n /\ n \in 1..n /\ printed' \in Seq(Records)
        /\ \A i \in 1..n : i # n => printed'[i] = printed[i]
        /\ printed'[n].flags = printed[n].flags
        /\ printed'[n].fields = printed[n].fields \cup {f}
    BY <1>2, WithFieldIs
  <2>2. printed' # <<>>
    BY <2>1
  <2> QED
    BY <1>2, <2>1, <2>2
<1>4. us[1].key # Nothing
  BY FieldTokensAre, NothingIsNoWord
<1>5. /\ Len(B) = n
      /\ \A i \in 1..n : /\ B[i].flags = printed[i].flags
                         /\ Reports(B[i].tokens, printed[i].fields)
      /\ Plainly(lines)
  BY Zenon DEF DetailPrinted
<1>6. B \in Seq(BlockSet) /\ B # <<>>
  <2>1. B \in Seq(BlockSet)
    BY <1>2, BlocksTyped
  <2> HIDE DEF B
  <2> QED
    BY <1>3, <1>5, <2>1
<1>7. C = LastBlock(B, us)
  BY <1>2, <1>4, <1>6, BlocksMore
<1> HIDE DEF B, C, us
<1>8. /\ Len(C) = n
      /\ \A i \in 1..n : i # n => C[i] = B[i]
      /\ C[n].flags = B[n].flags /\ C[n].tokens = B[n].tokens \o us
  BY <1>2, <1>5, <1>6, <1>7, LastExtended DEF LastBlock
<1>9. C[n].flags = printed'[n].flags /\ Reports(C[n].tokens, printed'[n].fields)
  <2> DEFINE a == B[n].tokens
             b == printed[n].fields
  <2>1. Reports(a, b) /\ ~(\E g \in b : g.key = f.key)
    BY <1>2, <1>3, <1>5, Zenon DEF HasKey
  <2> HIDE DEF a, b
  <2>2. Reports(a \o FieldTokens(f), b \cup {f})
    BY <1>1, <2>1, ReportsExtended
  <2> QED
    BY <1>3, <1>5, <1>8, <2>2 DEF a, b, us
<1>10. \A i \in 1..n : C[i].flags = printed'[i].flags /\ Reports(C[i].tokens, printed'[i].fields)
  BY <1>3, <1>5, <1>8, <1>9
<1>11. Plainly(lines')
  BY <1>2, <1>5, PlainlyMore
<1> QED
  BY <1>3, <1>8, <1>10, <1>11, Zenon DEF DetailPrinted, C

LEMMA PrintFieldFlagged ==
  ASSUME NEW f \in Fields \cup Counters, NEW wrap \in BOOLEAN,
         LinesFit, FlaggedPrinted, PrintField(f, wrap), shape = "flagged"
  PROVE  FlaggedPrinted'
<1> DEFINE us == FieldTokens(f)
           P == Paragraphs(lines, Headings)
           Q == Paragraphs(lines', Headings)
           n == Len(printed)
<1>1. f \in Fields /\ shape' = shape
  BY DEF PrintField
<1>2. /\ printed \in Seq(Records) /\ printed # <<>> /\ f \in PrintedFields
      /\ lines \in Seq(Lines) /\ TextLast(lines)
      /\ us \in Seq(Tokens) /\ us # <<>>
      /\ printed' = WithField(f) /\ lines' = More(lines, us, wrap)
      /\ ~HasKey(printed[n], f.key)
  BY FieldStep
<1>3. /\ Len(printed') = n /\ n \in 1..n /\ n \in Nat
      /\ \A i \in 1..n : i # n => printed'[i] = printed[i]
      /\ printed'[n].fields = printed[n].fields \cup {f}
      /\ printed' # <<>>
  <2>1. /\ Len(printed') = n /\ n \in 1..n /\ printed' \in Seq(Records)
        /\ \A i \in 1..n : i # n => printed'[i] = printed[i]
        /\ printed'[n].fields = printed[n].fields \cup {f}
    BY <1>2, WithFieldIs
  <2>2. printed' # <<>>
    BY <2>1
  <2> QED
    BY <1>2, <2>1, <2>2
<1>4. us[1].key # Nothing
  BY FieldTokensAre, NothingIsNoWord
<1>5. /\ Plainly(lines) /\ Blocks(lines) = <<>>
      /\ Len(P) = n
      /\ \A i \in 1..n : Reports(P[i], printed[i].fields)
  BY <1>2, Zenon DEF FlaggedPrinted
<1>6. P \in Texted
  BY <1>2, ParagraphsTyped
<1>7. Q = WithLast(P, us)
  <2>1. "text" \notin Headings
    BY DEF Headings
  <2> QED
    BY <1>2, <2>1, ParagraphsMore
<1> HIDE DEF P, Q, us
<1>8. /\ Len(Q) = n /\ Q[n] = P[n] \o us
      /\ \A i \in 1..n : i # n => Q[i] = P[i]
  BY <1>2, <1>5, <1>6, <1>7, LastLengthened DEF WithLast
<1>9. Reports(Q[n], printed'[n].fields)
  <2> DEFINE a == P[n]
             b == printed[n].fields
  <2>1. Reports(a, b) /\ ~(\E g \in b : g.key = f.key)
    BY <1>2, <1>3, <1>5, Zenon DEF HasKey
  <2> HIDE DEF a, b
  <2>2. Reports(a \o FieldTokens(f), b \cup {f})
    BY <1>1, <2>1, ReportsExtended
  <2> QED
    BY <1>3, <1>8, <2>2 DEF a, b, us
<1>10. \A i \in 1..n : Reports(Q[i], printed'[i].fields)
  BY <1>3, <1>5, <1>8, <1>9
<1>11. Plainly(lines') /\ Blocks(lines') = <<>>
  BY <1>2, <1>4, <1>5, PlainlyMore, BlocksMore
<1> QED
  BY <1>3, <1>8, <1>10, <1>11, Zenon DEF FlaggedPrinted, Q

-----------------------------------------------------------------------------
(* Pairs.                                                                  *)

\* What is read of the fields of a record, each with its whole value.
Holds(obj, fields) ==
    /\ obj \in Objects
    /\ DOMAIN obj = {f.key : f \in fields}
    /\ \A f \in fields : obj[f.key] = f.value

LEMMA HoldsExtended ==
  ASSUME NEW obj, NEW fields, NEW f \in PrintedFields, Holds(obj, fields),
         ~(\E g \in fields : g.key = f.key)
  PROVE  Holds(Over(Field(f.key, f.value), obj), fields \cup {f})
<1> DEFINE s == Field(f.key, f.value)
           o == Over(s, obj)
<1>1. s \in Objects
  BY FieldTyped DEF PrintedFields
<1>2. o \in Objects
  BY <1>1, OverTyped DEF Holds
<1>3. DOMAIN s = {f.key} /\ s[f.key] = f.value
  BY DEF Field
<1> HIDE DEF s
<1>4. DOMAIN obj = {g.key : g \in fields} /\ \A g \in fields : obj[g.key] = g.value
  BY DEF Holds
<1>5. /\ DOMAIN o = {f.key} \cup DOMAIN obj
      /\ o[f.key] = f.value
      /\ \A k \in DOMAIN obj : k # f.key => o[k] = obj[k]
  BY <1>3 DEF Over
<1> HIDE DEF o
<1>6. DOMAIN o = {g.key : g \in fields \cup {f}}
  BY <1>4, <1>5
<1>7. \A g \in fields \cup {f} : o[g.key] = g.value
  <2> TAKE g \in fields \cup {f}
  <2>1. CASE g = f
    BY <1>5, <2>1
  <2>2. CASE g # f
    <3>1. g \in fields
      BY <2>2
    <3>2. g.key # f.key /\ g.key \in DOMAIN obj
      BY <1>4, <3>1
    <3> QED
      BY <1>4, <1>5, <3>1, <3>2
  <2> QED
    BY <2>1, <2>2
<1>8. Holds(o, fields \cup {f})
  BY <1>2, <1>6, <1>7 DEF Holds
<1> QED
  BY <1>8 DEF o, s

LEMMA HoldsNothing == Holds(NoFields, {})
  BY NoFieldsTyped DEF Holds, NoFields

\* An unquoted field without a value is none.
Shown(fields) == {f \in fields : f.quoted \/ f.value # <<>>}

\* A field that is empty and not quoted adds nothing.
LEMMA HoldsMore ==
  ASSUME NEW obj, NEW fields, NEW f \in PrintedFields, f.quoted = FALSE,
         Holds(obj, Shown(fields)), ~(\E g \in fields : g.key = f.key)
  PROVE  Holds(IF f.value = <<>> THEN obj ELSE Over(Field(f.key, f.value), obj),
               Shown(fields \cup {f}))
<1>1. CASE f.value = <<>>
  <2>1. Shown(fields \cup {f}) = Shown(fields)
    BY <1>1 DEF Shown
  <2> QED
    BY <1>1, <2>1
<1>2. CASE f.value # <<>>
  <2>1. Shown(fields \cup {f}) = Shown(fields) \cup {f}
    BY <1>2 DEF Shown
  <2>2. ~(\E g \in Shown(fields) : g.key = f.key)
    BY DEF Shown
  <2>3. Holds(Over(Field(f.key, f.value), obj), Shown(fields) \cup {f})
    BY <2>2, HoldsExtended
  <2> QED
    BY <1>2, <2>1, <2>3, Zenon
<1> QED
  BY <1>1, <1>2

Keyless(ls) == \A i \in DOMAIN ls : \A j \in DOMAIN ls[i].tokens :
                  ls[i].tokens[j].key = Nothing

\* Pairs make one record, and no block.
PairsPrinted ==
    shape = "pairs" =>
        /\ Blocks(lines) = <<>>
        /\ Len(Paragraphs(lines, Headings)) = 1
        /\ Keyless(lines) =>
              \A j \in 1..Len(Paragraphs(lines, Headings)[1]) :
                 Paragraphs(lines, Headings)[1][j].key = Nothing
        /\ printed = <<>> => parseKeyValue(lines) = NoFields
        /\ printed # <<>> =>
              /\ Len(printed) = 1
              /\ printed[1].fields # {} /\ \A f \in printed[1].fields : f.key \in Keys
              /\ Holds(parseKeyValue(lines), Shown(printed[1].fields))

LEMMA PairsInit == ParsersInit => PairsPrinted
<1> SUFFICES ASSUME ParsersInit, shape = "pairs" PROVE PairsPrinted
  BY DEF PairsPrinted
<1>1. lines = <<>> /\ printed = <<>>
  BY InitLines
<1>2. Blocks(<<>>) = <<>> /\ Paragraphs(<<>>, Headings) = << <<>> >>
      /\ parseKeyValue(<<>>) = NoFields
  BY HeaderIs, PairsEmpty
<1>3. Len(<< <<>> >>) = 1 /\ \A j \in 1..Len(<< <<>> >>[1]) : FALSE
  OBVIOUS
<1>4. /\ Blocks(lines) = <<>> /\ Len(Paragraphs(lines, Headings)) = 1
      /\ \A j \in 1..Len(Paragraphs(lines, Headings)[1]) : FALSE
      /\ parseKeyValue(lines) = NoFields
  BY <1>1, <1>2, <1>3, Zenon
<1> QED
  BY <1>1, <1>4 DEF PairsPrinted

LEMMA PrintPairPairs ==
  ASSUME NEW f \in Fields, NEW k \in Keys \cup {Nothing}, LinesFit, PairsPrinted,
         PrintPair(f, k)
  PROVE  PairsPrinted'
<1> DEFINE pair == Pair(f, k)
           ts == PairText(f, k)
           l == Line("text", f.key, ts)
           P == Paragraphs(lines, Headings)
           Q == Paragraphs(lines', Headings)
<1>1. shape = "pairs" /\ shape' = shape
  BY DEF PrintPair
<1>2. /\ pair \in PrintedFields /\ pair.key = f.key /\ pair.quoted = FALSE
      /\ l \in Lines
  BY <1>1, PairIs
<1>3. lines' = Append(lines, l)
  BY Zenon DEF PrintPair
<1>4. \/ printed = <<>> /\ printed' = <<[flags |-> {}, fields |-> {pair}]>>
      \/ /\ printed # <<>> /\ printed' = WithField(pair)
         /\ ~HasKey(printed[Len(printed)], f.key)
  BY Zenon DEF PrintPair, Pair, Room, Last
<1>5. ts \in Seq(Tokens)
  BY <1>1, PairTextTyped
<1>6. f.key \in Keys /\ f.key \in FieldNames /\ f.key # Nothing
  <2>1. f \in [key : Keys, value : Values, quoted : BOOLEAN]
    BY ParsersAssumption
  <2>2. f.key \in Keys
    BY <2>1
  <2>3. f.key \in FieldNames
    BY <2>2 DEF FieldNames
  <2> QED
    BY <2>2, <2>3, NothingIsNoWord
<1>7. l.kind = "text" /\ l.colon = f.key /\ l.tokens = ts
  BY DEF Line
<1> HIDE DEF pair, l, ts
<1>8. lines \in Seq(Lines) /\ printed \in Seq(Records)
  BY DEF LinesFit, ParsersTypeOK
<1>9. /\ Blocks(lines) = <<>> /\ Len(P) = 1
      /\ Keyless(lines) => \A j \in 1..Len(P[1]) : P[1][j].key = Nothing
      /\ printed = <<>> => parseKeyValue(lines) = NoFields
      /\ printed # <<>> =>
            /\ Len(printed) = 1
            /\ printed[1].fields # {} /\ \A g \in printed[1].fields : g.key \in Keys
            /\ Holds(parseKeyValue(lines), Shown(printed[1].fields))
  BY <1>1, Zenon DEF PairsPrinted
<1>10. Blocks(lines') = <<>>
  <2>1. Blocks(lines') = AddLine(<<>>, l)
    BY <1>2, <1>3, <1>8, <1>9, BlocksAppend
  <2>2. ~Starts(l)
    BY <1>6, <1>7, Zenon DEF Starts
  <2> QED
    BY <2>1, <2>2, Zenon DEF AddLine
<1>11. P \in Texted
  BY <1>8, ParagraphsTyped
<1>12. Q = WithLast(P, ts)
  <2>1. Q = AddText(P, l, Headings)
    BY <1>2, <1>3, <1>8, ParagraphsAppend
  <2>2. l.kind \notin Headings
    BY <1>7 DEF Headings
  <2>3. ~Blank(l)
    BY <1>6, <1>7, Zenon DEF Blank
  <2> QED
    BY <1>7, <2>1, <2>2, <2>3, Zenon DEF AddText, WithLast
<1> HIDE DEF P, Q
<1>13. Len(Q) = 1 /\ Q[1] = P[1] \o ts
  <2>1. Len(Q) = Len(P) /\ Q[Len(P)] = P[Len(P)] \o ts
    BY <1>5, <1>11, <1>12, LastLengthened DEF WithLast
  <2> QED
    BY <1>9, <2>1
<1>14. ASSUME Keyless(lines')
       PROVE  \A j \in 1..Len(Q[1]) : Q[1][j].key = Nothing
  <2> DEFINE n == Len(lines)
             a == lines'
  <2>0. a = Append(lines, l)
    BY <1>3
  <2> HIDE DEF a
  <2>1. /\ DOMAIN a = 1..n + 1 /\ DOMAIN lines = 1..n /\ n \in Nat
        /\ \A i \in 1..n : a[i] = lines[i]
        /\ a[n + 1] = l
    BY <1>2, <1>8, <2>0
  <2>2. \A i \in DOMAIN a : \A j \in DOMAIN a[i].tokens : a[i].tokens[j].key = Nothing
    BY <1>14, Zenon DEF Keyless, a
  <2>3. Keyless(lines)
    BY <2>1, <2>2 DEF Keyless
  <2>4. \A j \in 1..Len(P[1]) : P[1][j].key = Nothing
    BY <1>9, <2>3
  <2>5. \A j \in 1..Len(ts) : ts[j].key = Nothing
    <3>1. n + 1 \in DOMAIN a
      BY <2>1
    <3>2. \A j \in DOMAIN ts : ts[j].key = Nothing
      BY <1>7, <2>1, <2>2, <3>1, Zenon
    <3> QED
      BY <1>5, <3>2
  <2>6. P[1] \in Seq(Tokens)
    BY <1>9, <1>11 DEF Texted
  <2> DEFINE p == P[1]
             w == p \o ts
  <2> HIDE DEF p
  <2>7. /\ Len(w) = Len(p) + Len(ts) /\ Len(p) \in Nat /\ Len(ts) \in Nat
        /\ \A j \in 1..Len(p) : w[j] = p[j]
        /\ \A j \in 1..Len(ts) : w[Len(p) + j] = ts[j]
    BY <1>5, <2>6, TokensConcat DEF p
  <2> HIDE DEF w
  <2>8. ASSUME NEW j \in 1..Len(w)
        PROVE  w[j].key = Nothing
    <3>1. CASE j <= Len(p)
      <4>1. j \in 1..Len(p)
        BY <2>7, <3>1
      <4> QED
        BY <2>4, <2>7, <4>1 DEF p
    <3>2. CASE j > Len(p)
      <4> DEFINE m == j - Len(p)
      <4>1. m \in 1..Len(ts) /\ j = Len(p) + m
        BY <2>7, <3>2
      <4> HIDE DEF m
      <4> QED
        BY <2>5, <2>7, <4>1
    <3> QED
      BY <2>7, <3>1, <3>2
  <2> QED
    BY <1>13, <2>8 DEF w, p
<1>15. parseKeyValue(lines')
         = IF pair.value = <<>> THEN parseKeyValue(lines)
           ELSE Over(Field(pair.key, pair.value), parseKeyValue(lines))
  <2>1. parseKeyValue(lines') = AddPair(parseKeyValue(lines), l)
    BY <1>2, <1>3, <1>8, PairsAppend
  <2>2. (ts = <<>> <=> pair.value = <<>>) /\ pair.value = Texts(ts)
    BY PairTextSome, PairIs DEF ts, pair
  <2>3. AddPair(parseKeyValue(lines), l)
          = IF ts = <<>> THEN parseKeyValue(lines)
            ELSE Over(Field(f.key, Texts(ts)), parseKeyValue(lines))
    BY <1>6, <1>7, Zenon DEF AddPair
  <2> QED
    BY <1>2, <2>1, <2>2, <2>3, Zenon
<1>15a. ASSUME NEW fields, Holds(parseKeyValue(lines), Shown(fields)),
               ~(\E g \in fields : g.key = pair.key)
        PROVE  Holds(parseKeyValue(lines'), Shown(fields \cup {pair}))
  <2> DEFINE obj == parseKeyValue(lines)
  <2> HIDE DEF obj
  <2>1. Holds(IF pair.value = <<>> THEN obj ELSE Over(Field(pair.key, pair.value), obj),
              Shown(fields \cup {pair}))
    BY <1>2, <1>15a, HoldsMore DEF obj
  <2> QED
    BY <1>15, <2>1, Zenon DEF obj
<1>16. CASE printed = <<>>
  <2> DEFINE r == [flags |-> {}, fields |-> {pair}]
  <2>1. printed' = <<r>> /\ r.fields = {pair}
    BY <1>4, <1>16
  <2> HIDE DEF r
  <2>2. /\ Len(printed') = 1 /\ printed'[1] = r /\ printed' # <<>>
    BY <2>1
  <2>3. Holds(parseKeyValue(lines'), Shown({} \cup {pair}))
    <3>1. Shown({}) = {} /\ ~(\E g \in {} : g.key = pair.key)
      BY DEF Shown
    <3>2. Holds(parseKeyValue(lines), Shown({}))
      BY <1>9, <1>16, <3>1, HoldsNothing
    <3> QED
      BY <1>15a, <3>1, <3>2
  <2>4. {} \cup {pair} = {pair}
    OBVIOUS
  <2>5. Holds(parseKeyValue(lines'), Shown(printed'[1].fields))
    BY <2>1, <2>2, <2>3, <2>4, Zenon
  <2>6. printed'[1].fields # {} /\ \A g \in printed'[1].fields : g.key \in Keys
    BY <1>2, <1>6, <2>1, <2>2
  <2> QED
    BY <1>10, <1>13, <1>14, <2>2, <2>5, <2>6, Zenon DEF PairsPrinted, Q
<1>17. CASE printed # <<>>
  <2>1. printed' = WithField(pair) /\ ~HasKey(printed[1], f.key)
        /\ Len(printed) = 1
    BY <1>4, <1>9, <1>17
  <2>2. /\ WithField(pair) \in Seq(Records) /\ Len(WithField(pair)) = Len(printed)
        /\ WithField(pair)[Len(printed)].fields = printed[Len(printed)].fields \cup {pair}
    BY <1>2, <1>8, <1>17, WithFieldIs
  <2>3. /\ Len(printed') = 1 /\ printed'[1].fields = printed[1].fields \cup {pair}
        /\ printed' # <<>>
    <3> DEFINE q == printed'
    <3>1. q \in Seq(Records) /\ Len(q) = 1
      BY <2>1, <2>2
    <3> HIDE DEF q
    <3>2. Len(q) # 0 /\ Len(<<>>) = 0
      BY <3>1
    <3>3. q # <<>>
      BY <3>2, Zenon
    <3> USE DEF q
    <3> QED
      BY <2>1, <2>2, <3>1, <3>3
  <2>4. Holds(parseKeyValue(lines'), Shown(printed[1].fields \cup {pair}))
    <3>1. ~(\E g \in printed[1].fields : g.key = pair.key)
      BY <1>2, <2>1, Zenon DEF HasKey
    <3> QED
      BY <1>9, <1>15a, <1>17, <3>1
  <2>5. \A g \in printed[1].fields : g.key \in Keys
    BY <1>9, <1>17
  <2>6. printed'[1].fields # {} /\ \A g \in printed'[1].fields : g.key \in Keys
    BY <1>2, <1>6, <2>3, <2>5
  <2>7. Holds(parseKeyValue(lines'), Shown(printed'[1].fields))
    BY <2>3, <2>4, Zenon
  <2> QED
    BY <1>10, <1>13, <1>14, <2>3, <2>6, <2>7, Zenon DEF PairsPrinted, Q
<1> QED
  BY <1>16, <1>17

-----------------------------------------------------------------------------
(* What stands under a column.                                             *)

\* What a sequence has of the elements in P, in their order.
Chosen(s, P) == Kept(s, {i \in DOMAIN s : s[i] \in P})

LEMMA ChosenAppend ==
  ASSUME NEW S, NEW s \in Seq(S), NEW x \in S, NEW P
  PROVE  Chosen(Append(s, x), P) = IF x \in P THEN Append(Chosen(s, P), x) ELSE Chosen(s, P)
<1> DEFINE a == Append(s, x)
           I == {i \in DOMAIN a : a[i] \in P}
           J == {i \in DOMAIN s : s[i] \in P}
           n == Len(s)
<1>1. /\ DOMAIN a = 1..n + 1 /\ DOMAIN s = 1..n /\ n \in Nat
      /\ \A i \in 1..n : a[i] = s[i]
      /\ a[n + 1] = x
  OBVIOUS
<1>2. Kept(a, I) = IF n + 1 \in I THEN Append(Kept(s, I), x) ELSE Kept(s, I)
  <2> HIDE DEF I
  <2> QED
    BY KeptAppend
<1> HIDE DEF a
<1>3. n + 1 \in I <=> x \in P
  BY <1>1
<1>4. \A i \in 1..Len(s) : i \in I <=> i \in J
  BY <1>1
<1> HIDE DEF I, J
<1>5. Kept(s, I) = Kept(s, J)
  BY <1>4, KeptSame
<1> QED
  BY <1>2, <1>3, <1>5, Zenon DEF Chosen, a, I, J

LEMMA ChosenTyped ==
  ASSUME NEW S, NEW s \in Seq(S), NEW P
  PROVE  Chosen(s, P) \in Seq(S)
<1> DEFINE I == {i \in DOMAIN s : s[i] \in P}
<1> HIDE DEF I
<1>1. Kept(s, I) \in Seq(S)
  BY KeptType
<1> QED
  BY <1>1 DEF Chosen, I

LEMMA ChosenConcat ==
  ASSUME NEW S, NEW s \in Seq(S), NEW t \in Seq(S), NEW P
  PROVE  Chosen(s \o t, P) = Chosen(s, P) \o Chosen(t, P)
<1> DEFINE T == {u \in Seq(S) : Chosen(s \o u, P) = Chosen(s, P) \o Chosen(u, P)}
<1>1. <<>> \in T
  <2>1. s \o <<>> = s
    BY ConcatEmptySeq
  <2>2. Chosen(<<>>, P) = <<>>
    BY KeptEmpty DEF Chosen
  <2>3. Chosen(s, P) \o <<>> = Chosen(s, P)
    <3> DEFINE a == Chosen(s, P)
    <3>1. a \in Seq(S)
      BY ChosenTyped
    <3> HIDE DEF a
    <3>2. a \o <<>> = a
      BY <3>1, ConcatEmptySeq
    <3> QED
      BY <3>2 DEF a
  <2>4. <<>> \in Seq(S)
    OBVIOUS
  <2> QED
    BY <2>1, <2>2, <2>3, <2>4
<1>2. \A u \in Seq(S), e \in S : u \in T => Append(u, e) \in T
  <2> TAKE u \in Seq(S), e \in S
  <2> HAVE u \in T
  <2> DEFINE a == Chosen(s, P)
             b == Chosen(u, P)
  <2>1. Chosen(s \o u, P) = a \o b
    OBVIOUS
  <2>2. \A x, y \in Seq(S) : x \o Append(y, e) = Append(x \o y, e)
    <3> TAKE x \in Seq(S), y \in Seq(S)
    <3>1. <<e>> \in Seq(S)
      OBVIOUS
    <3>2. Append(y, e) = y \o <<e>>
      BY AppendIsConcat
    <3>3. x \o y \in Seq(S)
      BY ConcatProperties
    <3>4. Append(x \o y, e) = (x \o y) \o <<e>>
      BY <3>3, AppendIsConcat
    <3>5. (x \o y) \o <<e>> = x \o (y \o <<e>>)
      BY <3>1, ConcatAssociative, SMTT(20)
    <3> QED
      BY <3>2, <3>4, <3>5, Zenon
  <2>3. s \o Append(u, e) = Append(s \o u, e)
    BY <2>2
  <2>4. s \o u \in Seq(S)
    BY ConcatProperties
  <2>5. Chosen(Append(s \o u, e), P) = IF e \in P THEN Append(a \o b, e) ELSE a \o b
    <3> DEFINE v == s \o u
               c == a \o b
    <3>1. v \in Seq(S) /\ Chosen(v, P) = c
      BY <2>1, <2>4
    <3> HIDE DEF v, c
    <3>2. Chosen(Append(v, e), P) = IF e \in P THEN Append(c, e) ELSE c
      BY <3>1, ChosenAppend, SMTT(20)
    <3> QED
      BY <3>2, Zenon DEF v, c
  <2>6. Chosen(Append(u, e), P) = IF e \in P THEN Append(b, e) ELSE b
    BY ChosenAppend
  <2>7. a \in Seq(S) /\ b \in Seq(S)
    BY ChosenTyped
  <2> HIDE DEF a, b
  <2>8. a \o Append(b, e) = Append(a \o b, e)
    BY <2>2, <2>7
  <2>9. Chosen(s \o Append(u, e), P) = a \o Chosen(Append(u, e), P)
    BY <2>3, <2>5, <2>6, <2>8, Zenon
  <2>10. Append(u, e) \in Seq(S)
    OBVIOUS
  <2> QED
    BY <2>9, <2>10, Zenon DEF a
<1> HIDE DEF T
<1>3. \A u \in Seq(S) : u \in T
  BY <1>1, <1>2, SeqInduct
<1> QED
  BY <1>3 DEF T

LEMMA ChosenAll ==
  ASSUME NEW S, NEW s \in Seq(S), NEW P, \A i \in 1..Len(s) : s[i] \in P
  PROVE  Chosen(s, P) = s
<1> DEFINE I == {i \in DOMAIN s : s[i] \in P}
<1>1. 1..Len(s) \subseteq I
  OBVIOUS
<1> HIDE DEF I
<1>2. Kept(s, I) = s
  BY <1>1, KeptAll
<1> QED
  BY <1>2 DEF Chosen, I

LEMMA ChosenNone ==
  ASSUME NEW S, NEW s \in Seq(S), NEW P, \A i \in 1..Len(s) : s[i] \notin P
  PROVE  Chosen(s, P) = <<>>
<1> DEFINE I == {i \in DOMAIN s : s[i] \in P}
<1>1. \A i \in 1..Len(s) : i \notin I
  OBVIOUS
<1> HIDE DEF I
<1>2. Kept(s, I) = <<>>
  BY <1>1, KeptNone
<1> QED
  BY <1>2 DEF Chosen, I

ColumnTokens(c) == {t \in Tokens : InColumn(t, c)}

\* A column has what is printed under it, and nothing of another column.
LEMMA ColumnHas ==
  ASSUME NEW c \in DOMAIN Columns, NEW d \in DOMAIN Columns, NEW t \in Tokens,
         t.at = Columns[d].at
  PROVE  t \in ColumnTokens(c) <=> c = d
<1>1. /\ c \in 1..Len(Columns) /\ d \in 1..Len(Columns) /\ Len(Columns) \in Nat
      /\ Columns[c].at \in Nat /\ Columns[d].at \in Nat
  BY ColumnsAre
<1>2. \A i, j \in DOMAIN Columns : i < j => Columns[i].at < Columns[j].at
  BY ColumnsAre
<1>3. \A i \in DOMAIN Columns : Columns[i].at \in Nat
  BY ColumnsAre
<1>4. c < Len(Columns) => c + 1 \in DOMAIN Columns
  BY <1>1, ColumnsAre
<1>5. CASE c = d
  <2>1. c < Len(Columns) => Columns[c].at < Columns[c + 1].at
    BY <1>1, <1>2, <1>4
  <2>2. InColumn(t, c)
    BY <1>1, <1>5, <2>1 DEF InColumn
  <2> QED
    BY <1>5, <2>2 DEF ColumnTokens
<1>6. CASE d < c
  <2>1. Columns[d].at < Columns[c].at
    BY <1>2, <1>6
  <2>2. ~InColumn(t, c)
    BY <1>1, <2>1 DEF InColumn
  <2> QED
    BY <1>1, <1>6, <2>2 DEF ColumnTokens
<1>7. CASE c < d
  <2>1. c < Len(Columns) /\ c + 1 \in DOMAIN Columns /\ Columns[c + 1].at \in Nat
    BY <1>1, <1>3, <1>4, <1>7
  <2>2. c + 1 = d \/ c + 1 < d
    BY <1>1, <1>7
  <2>3. Columns[c + 1].at <= Columns[d].at
    BY <1>1, <1>2, <2>1, <2>2
  <2>4. ~InColumn(t, c)
    BY <1>1, <2>1, <2>3 DEF InColumn
  <2> QED
    BY <1>1, <1>7, <2>4 DEF ColumnTokens
<1> QED
  BY <1>1, <1>5, <1>6, <1>7

LEMMA ChosenUnder ==
  ASSUME NEW cells \in AllCells, NEW c \in DOMAIN Columns, NEW d \in DOMAIN Columns
  PROVE  Chosen(Under(cells, d), ColumnTokens(c)) = IF c = d THEN Under(cells, c) ELSE <<>>
<1> DEFINE u == Under(cells, d)
<1>1. /\ u \in Seq(Tokens)
      /\ \A i \in 1..Len(u) : u[i].at = Columns[d].at
  BY UnderIs
<1> HIDE DEF u
<1>2. \A i \in 1..Len(u) : u[i] \in ColumnTokens(c) <=> c = d
  <2> TAKE i \in 1..Len(u)
  <2>1. u[i] \in Tokens
    BY <1>1
  <2> QED
    BY <1>1, <2>1, ColumnHas
<1>3. CASE c = d
  <2>1. Chosen(u, ColumnTokens(c)) = u
    BY <1>1, <1>2, <1>3, ChosenAll
  <2> QED
    BY <1>3, <2>1 DEF u
<1>4. CASE c # d
  <2>1. Chosen(u, ColumnTokens(c)) = <<>>
    BY <1>1, <1>2, <1>4, ChosenNone
  <2> QED
    BY <1>4, <2>1 DEF u
<1> QED
  BY <1>3, <1>4

LEMMA ChosenCells ==
  ASSUME NEW cells \in AllCells, NEW c \in DOMAIN Columns
  PROVE  Chosen(FlattenSeq(CellTexts(cells)), ColumnTokens(c)) = Under(cells, c)
<1> DEFINE s == CellTexts(cells)
           N == Len(Columns)
           P == ColumnTokens(c)
           u == Under(cells, c)
<1>1. /\ s \in Seq(Seq(Tokens)) /\ Len(s) = N
      /\ \A d \in 1..N : s[d] = Under(cells, d)
  BY CellsTyped
<1>2. N \in Nat /\ DOMAIN Columns = 1..N /\ c \in 1..N
  BY ColumnsAre
<1>3. \A d \in 1..N : s[d] \in Seq(Tokens) /\ Chosen(s[d], P) = IF c = d THEN u ELSE <<>>
  <2> TAKE d \in 1..N
  <2>1. d \in DOMAIN Columns /\ s[d] = Under(cells, d)
    BY <1>1, <1>2
  <2>2. Under(cells, d) \in Seq(Tokens)
    BY <2>1, UnderIs
  <2>3. Chosen(Under(cells, d), P) = IF c = d THEN u ELSE <<>>
    BY <2>1, ChosenUnder
  <2> HIDE DEF s, P, u
  <2> QED
    BY <2>1, <2>2, <2>3, Zenon
<1>4. u \in Seq(Tokens)
  BY UnderIs
<1> HIDE DEF s, N, P, u
<1>5. s # <<>>
  BY <1>1, <1>2
<1>6. PICK f : FlatAlong(f, s) /\ FlattenSeq(s) = f[Len(s)]
  BY <1>1, <1>5, FlatIsLoop
<1>7. f[1] = s[1] /\ \A n \in 2..N : f[n] = f[n - 1] \o s[n]
  BY <1>1, <1>6 DEF FlatAlong
<1> DEFINE T == {n \in 0..N : n # 0 => /\ f[n] \in Seq(Tokens)
                                       /\ Chosen(f[n], P) = IF c <= n THEN u ELSE <<>>}
<1>8. 0 \in T
  BY <1>2
<1>9. \A m \in 0..N - 1 : m \in T => m + 1 \in T
  <2> TAKE m \in 0..N - 1
  <2> HAVE m \in T
  <2>1. m + 1 \in 1..N /\ m + 1 \in 0..N
    BY <1>2
  <2>2. s[m + 1] \in Seq(Tokens) /\ Chosen(s[m + 1], P) = IF c = m + 1 THEN u ELSE <<>>
    BY <1>3, <2>1
  <2>3. CASE m = 0
    <3>1. f[m + 1] = s[m + 1]
      BY <1>7, <2>3
    <3>2. c <= m + 1 <=> c = m + 1
      BY <1>2, <2>3
    <3> QED
      BY <2>1, <2>2, <3>1, <3>2
  <2>4. CASE m # 0
    <3>1. m + 1 \in 2..N /\ (m + 1) - 1 = m
      BY <1>2, <2>4
    <3>2. f[m + 1] = f[m] \o s[m + 1]
      BY <1>7, <3>1
    <3>3. f[m] \in Seq(Tokens) /\ Chosen(f[m], P) = IF c <= m THEN u ELSE <<>>
      BY <2>4
    <3> DEFINE a == f[m]
               b == s[m + 1]
    <3> HIDE DEF a, b
    <3>4. Chosen(a \o b, P) = Chosen(a, P) \o Chosen(b, P) /\ a \o b \in Seq(Tokens)
      <4>1. a \in Seq(Tokens) /\ b \in Seq(Tokens)
        BY <2>2, <3>3 DEF a, b
      <4> QED
        BY <4>1, ChosenConcat, TokensConcat
    <3>5. u \o <<>> = u /\ <<>> \o u = u /\ <<>> \o <<>> = <<>>
      BY <1>4, ConcatEmptySeq
    <3>6. Chosen(a \o b, P) = IF c <= m + 1 THEN u ELSE <<>>
      <4>1. CASE c <= m
        <5>1. c # m + 1 /\ c <= m + 1
          BY <1>2, <4>1
        <5> QED
          BY <2>2, <3>3, <3>4, <3>5, <4>1, <5>1, Zenon DEF a, b
      <4>2. CASE c = m + 1
        <5>1. ~(c <= m) /\ c <= m + 1
          BY <1>2, <4>2
        <5> QED
          BY <2>2, <3>3, <3>4, <3>5, <4>2, <5>1, Zenon DEF a, b
      <4>3. CASE ~(c <= m) /\ c # m + 1
        <5>1. ~(c <= m + 1)
          BY <1>2, <4>3
        <5> QED
          BY <2>2, <3>3, <3>4, <3>5, <4>3, <5>1, Zenon DEF a, b
      <4> QED
        BY <4>1, <4>2, <4>3
    <3> QED
      BY <2>1, <3>2, <3>4, <3>6 DEF a, b
  <2> QED
    BY <2>3, <2>4
<1> HIDE DEF T
<1>10. \A m \in 0..N : m \in T
  BY <1>2, <1>8, <1>9, UpTo
<1>11. N \in T /\ N # 0 /\ c <= N
  BY <1>2, <1>10
<1>12. Chosen(f[N], P) = u
  BY <1>11 DEF T
<1> QED
  BY <1>1, <1>6, <1>12 DEF s, P, u

\* The words under a column are the value printed there.
LEMMA TextsUnder ==
  ASSUME NEW cells \in AllCells, NEW c \in DOMAIN Columns
  PROVE  Texts(Under(cells, c)) = cells[c]
<1> DEFINE v == cells[c]
           at == Columns[c].at
           u == Under(cells, c)
<1>1. /\ u \in Seq(Tokens) /\ Len(u) = Len(v)
      /\ \A i \in 1..Len(v) : u[i] = Word(v[i], at)
  BY UnderIs
<1>2. at \in Nat
  BY ColumnsAre
<1>3. \/ v = <<>>
      \/ \E a \in Words : v = <<a>>
      \/ \E a, b \in Words : v = <<a, b>>
  BY CellsAre, ValuesAre
<1> HIDE DEF u, v, at
<1>4. \A a \in Words : Word(a, at) \in Tokens /\ Spelled(Word(a, at)) = <<a>>
  <2> TAKE a \in Words
  <2>1. Word(a, at) \in Tokens /\ Word(a, at).key = Nothing /\ Word(a, at).word = a
    BY <1>2 DEF Word, Token, Tokens
  <2>2. a # Nothing
    BY NothingIsNoWord
  <2>3. <<>> \o <<a>> = <<a>>
    OBVIOUS
  <2> QED
    BY <2>1, <2>2, <2>3, Zenon DEF Spelled
<1>5. CASE v = <<>>
  <2>1. u = <<>>
    BY <1>1, <1>5
  <2> QED
    BY <1>5, <2>1, TextsEmpty DEF u, v
<1>6. ASSUME NEW a \in Words, v = <<a>>
      PROVE  Texts(u) = v
  <2>1. Len(v) = 1 /\ v[1] = a
    BY <1>6
  <2>2. Len(u) = 1 /\ u[1] = Word(a, at)
    BY <1>1, <2>1
  <2>3. u = <<Word(a, at)>>
    BY <1>1, <2>2
  <2> QED
    BY <1>4, <1>6, <2>3, TextsOne
<1>7. ASSUME NEW a \in Words, NEW b \in Words, v = <<a, b>>
      PROVE  Texts(u) = v
  <2>1. Len(v) = 2 /\ v[1] = a /\ v[2] = b
    BY <1>7
  <2>2. Len(u) = 2 /\ u[1] = Word(a, at) /\ u[2] = Word(b, at)
    BY <1>1, <2>1
  <2>3. u = <<Word(a, at), Word(b, at)>>
    BY <1>1, <2>2
  <2>4. <<a>> \o <<b>> = <<a, b>>
    BY OneThenOne
  <2> QED
    BY <1>4, <1>7, <2>3, <2>4, TextsTwo
<1> QED
  BY <1>3, <1>5, <1>6, <1>7 DEF u, v

\* What stands under the columns stands behind the flags.
Cells == {t \in Tokens : t.key = Nothing /\ ~t.opens /\ Columns[1].at <= t.at}

LEMMA CellTokens ==
  ASSUME NEW cells \in AllCells, Columns # <<>>
  PROVE  FlattenSeq(CellTexts(cells)) \in Seq(Cells)
<1>1. /\ CellTexts(cells) \in Seq(Seq(Tokens)) /\ Len(CellTexts(cells)) = Len(Columns)
      /\ \A c \in 1..Len(Columns) : CellTexts(cells)[c] = Under(cells, c)
  BY CellsTyped
<1>2. ASSUME NEW c \in 1..Len(Columns)
      PROVE  CellTexts(cells)[c] \in Seq(Cells)
  <2> DEFINE u == Under(cells, c)
  <2>1. c \in DOMAIN Columns /\ 1 \in DOMAIN Columns /\ Len(Columns) \in Nat
    BY ColumnsAre
  <2>2. Columns[1].at <= Columns[c].at
    <3>1. 1 = c \/ 1 < c
      BY <2>1
    <3>2. Columns[1].at \in Nat
      BY <2>1, ColumnsAre
    <3>3. 1 < c => Columns[1].at < Columns[c].at /\ Columns[c].at \in Nat
      BY <2>1, ColumnsAre
    <3> QED
      BY <3>1, <3>2, <3>3
  <2>3. /\ u \in Seq(Tokens)
        /\ \A i \in 1..Len(u) : /\ u[i].key = Nothing /\ ~u[i].opens
                                /\ u[i].at = Columns[c].at
    BY <2>1, UnderIs
  <2> HIDE DEF u
  <2>4. \A i \in 1..Len(u) : u[i] \in Cells
    BY <2>2, <2>3 DEF Cells
  <2>5. u \in Seq(Cells)
    BY <2>3, <2>4
  <2> QED
    BY <1>1, <2>5 DEF u
<1> DEFINE s == CellTexts(cells)
<1> HIDE DEF s
<1>3. s \in Seq(Seq(Cells))
  <2>1. s \in Seq(Seq(Tokens)) /\ \A c \in 1..Len(s) : s[c] \in Seq(Cells)
    BY <1>1, <1>2 DEF s
  <2> DEFINE S == Seq(Cells)
  <2> HIDE DEF S
  <2>2. \A c \in 1..Len(s) : s[c] \in S
    BY <2>1 DEF S
  <2>3. s \in Seq(S)
    BY <2>1, <2>2
  <2> QED
    BY <2>3 DEF S
<1>4. FlattenSeq(s) \in Seq(Cells)
  BY <1>3, FlatTyped
<1> QED
  BY <1>4 DEF s

\* The tokens of a row: the index, perhaps the flags, and the cells.
LEMMA RowTokens ==
  ASSUME NEW w \in DOMAIN Letters \cup {Nothing}, NEW cells \in AllCells, Columns # <<>>
  PROVE  \E x \in Seq(Tokens), y \in Seq(Tokens) :
            /\ RowLine(w, cells).tokens = x \o y
            /\ x \in Seq(Tokens) /\ y = FlattenSeq(CellTexts(cells)) /\ y \in Seq(Cells)
            /\ Len(x) = IF w = Nothing THEN 1 ELSE 2
            /\ IsNumber(x[1])
            /\ w # Nothing => x[2] = Word(w, 1)
            /\ \A i \in 1..Len(x) : /\ x[i].key = Nothing /\ ~x[i].opens
                                    /\ x[i].at < Columns[1].at
<1> DEFINE a == AnIndex
           b == FlagWord(w, 1)
           x == a \o b
           y == FlattenSeq(CellTexts(cells))
<1>1. /\ a \in Seq(Tokens) /\ b \in Seq(Tokens) /\ Len(a) = 1 /\ IsNumber(a[1])
      /\ a[1].at = 0
      /\ b = IF w = Nothing THEN <<>> ELSE <<Word(w, 1)>>
      /\ Word(w, 1).at = 1
  BY IndexAndFlags
<1>2. \A i \in 1..Len(x) : x[i].key = Nothing /\ ~x[i].opens
  BY IndexAndFlags, SMTT(20)
<1>3. RowLine(w, cells).tokens = x \o y
  BY RowLineTyped
<1>4. y \in Seq(Tokens)
  BY CellsTyped
<1>5. y \in Seq(Cells)
  BY CellTokens
<1> HIDE DEF a, b
<1>6. /\ x \in Seq(Tokens) /\ Len(x) = 1 + Len(b)
      /\ x[1] = a[1]
      /\ \A j \in 1..Len(b) : x[1 + j] = b[j]
  <2>1. /\ x \in Seq(Tokens) /\ Len(x) = Len(a) + Len(b)
        /\ \A i \in 1..Len(a) : x[i] = a[i]
        /\ \A j \in 1..Len(b) : x[Len(a) + j] = b[j]
    BY <1>1, TokensConcat
  <2>2. 1 \in 1..1
    OBVIOUS
  <2> QED
    BY <1>1, <2>1, <2>2, Zenon
<1> HIDE DEF x, y
<1>7. 1 \in DOMAIN Columns /\ Columns[1].at \in Nat /\ Columns[1].at > 1
  <2>1. Len(Columns) \in Nat /\ Len(Columns) # 0
    BY ColumnsAre
  <2>2. 1 \in DOMAIN Columns
    BY <2>1, ColumnsAre
  <2> QED
    BY <2>2, ColumnsAre
<1>8. CASE w = Nothing
  <2>1. Len(b) = 0
    BY <1>1, <1>8
  <2>2. Len(x) = 1 /\ x[1].at = 0
    BY <1>1, <1>6, <2>1
  <2>3. \A i \in 1..Len(x) : x[i].at < Columns[1].at
    BY <1>7, <2>2
  <2> QED
    BY <1>1, <1>2, <1>3, <1>4, <1>5, <1>6, <1>8, <2>2, <2>3 DEF y
<1>9. CASE w # Nothing
  <2>1. b = <<Word(w, 1)>>
    BY <1>1, <1>9
  <2>2. Len(b) = 1 /\ b[1] = Word(w, 1)
    BY <2>1
  <2>3. Len(x) = 2 /\ x[1].at = 0 /\ x[2] = Word(w, 1)
    BY <1>1, <1>6, <2>2
  <2>4. \A i \in 1..Len(x) : x[i].at < Columns[1].at
    <3> TAKE i \in 1..Len(x)
    <3>1. i = 1 \/ i = 2
      BY <2>3
    <3>2. x[1].at < Columns[1].at /\ x[2].at < Columns[1].at
      BY <1>1, <1>7, <2>3
    <3> QED
      BY <3>1, <3>2
  <2> QED
    BY <1>1, <1>2, <1>3, <1>4, <1>5, <1>6, <1>9, <2>3, <2>4 DEF y
<1> QED
  BY <1>8, <1>9

\* A cell holds what was printed under its column.
LEMMA RowCell ==
  ASSUME NEW w \in DOMAIN Letters \cup {Nothing}, NEW cells \in AllCells,
         NEW c \in DOMAIN Columns
  PROVE  Cell(RowLine(w, cells), c) = cells[c]
<1> DEFINE ts == RowLine(w, cells).tokens
           I == {i \in DOMAIN ts : InColumn(ts[i], c)}
           J == {i \in DOMAIN ts : ts[i] \in ColumnTokens(c)}
<1>1. Columns # <<>> /\ 1 \in DOMAIN Columns /\ c \in 1..Len(Columns)
  <2>1. c \in 1..Len(Columns) /\ Len(Columns) \in Nat
    BY ColumnsAre
  <2>2. 1 \in 1..Len(Columns) /\ Len(Columns) # 0
    BY <2>1
  <2> QED
    BY <2>1, <2>2, ColumnsAre
<1>2. PICK x \in Seq(Tokens), y \in Seq(Tokens) :
            /\ ts = x \o y /\ y = FlattenSeq(CellTexts(cells))
            /\ \A i \in 1..Len(x) : x[i].at < Columns[1].at
  BY <1>1, RowTokens
<1>3. Cell(RowLine(w, cells), c) = Texts(Kept(ts, I))
  BY Zenon DEF Cell
<1>4. ts \in Seq(Tokens)
  BY <1>2, TokensConcat
<1> HIDE DEF ts
<1>5. \A i \in 1..Len(ts) : i \in I <=> i \in J
  BY <1>4 DEF ColumnTokens
<1> HIDE DEF I, J
<1>6. Kept(ts, I) = Kept(ts, J)
  BY <1>4, <1>5, KeptSame
<1>7. Kept(ts, J) = Chosen(x \o y, ColumnTokens(c))
  BY <1>2, Zenon DEF Chosen, J
<1>8. Chosen(x \o y, ColumnTokens(c)) = Chosen(x, ColumnTokens(c)) \o Chosen(y, ColumnTokens(c))
  BY ChosenConcat
<1>9. Chosen(x, ColumnTokens(c)) = <<>>
  <2>1. Columns[1].at <= Columns[c].at /\ Columns[1].at \in Nat /\ Columns[c].at \in Nat
    <3>1. 1 = c \/ 1 < c
      BY <1>1
    <3>2. Columns[1].at \in Nat /\ Columns[c].at \in Nat
      BY <1>1, ColumnsAre
    <3>3. 1 < c => Columns[1].at < Columns[c].at
      BY <1>1, ColumnsAre
    <3> QED
      BY <3>1, <3>2, <3>3
  <2>2. \A i \in 1..Len(x) : x[i] \notin ColumnTokens(c)
    <3> TAKE i \in 1..Len(x)
    <3>1. x[i] \in Tokens /\ x[i].at < Columns[1].at
      BY <1>2
    <3>2. x[i].at \in Nat
      BY <3>1 DEF Tokens
    <3>3. ~InColumn(x[i], c)
      BY <2>1, <3>1, <3>2 DEF InColumn
    <3> QED
      BY <3>3 DEF ColumnTokens
  <2> QED
    BY <2>2, ChosenNone
<1>10. Chosen(y, ColumnTokens(c)) = Under(cells, c)
  BY <1>2, ChosenCells
<1>11. <<>> \o Under(cells, c) = Under(cells, c)
  BY UnderIs, ConcatEmptySeq
<1> QED
  BY <1>3, <1>6, <1>7, <1>8, <1>9, <1>10, <1>11, TextsUnder

\* The flags of a row are those printed.
LEMMA RowFlags ==
  ASSUME NEW w \in DOMAIN Letters \cup {Nothing}, NEW cells \in AllCells, Columns # <<>>
  PROVE  FlagArea(RowLine(w, cells)) = FlagsIn(w)
<1> DEFINE ts == RowLine(w, cells).tokens
           A == {u \in ToSet(Tail(ts)) : u.at < Columns[1].at /\ u.word \in DOMAIN Letters}
<1>1. FlagArea(RowLine(w, cells)) = UNION {Letters[t.word] : t \in A}
  BY Zenon DEF FlagArea
<1>2. PICK x \in Seq(Tokens), y \in Seq(Cells) :
            /\ ts = x \o y /\ y \in Seq(Tokens)
            /\ Len(x) = IF w = Nothing THEN 1 ELSE 2
            /\ w # Nothing => x[2] = Word(w, 1)
            /\ \A i \in 1..Len(x) : x[i].at < Columns[1].at
  BY RowTokens
<1>3. Columns[1].at \in Nat
  <2>1. Len(Columns) \in Nat /\ Len(Columns) # 0
    BY ColumnsAre
  <2>2. 1 \in DOMAIN Columns
    BY <2>1, ColumnsAre
  <2> QED
    BY <2>2, ColumnsAre
<1> HIDE DEF ts
<1>4. /\ ts \in Seq(Tokens) /\ Len(ts) = Len(x) + Len(y) /\ Len(x) \in Nat /\ Len(y) \in Nat
      /\ \A i \in 1..Len(x) : ts[i] = x[i]
      /\ \A j \in 1..Len(y) : ts[Len(x) + j] = y[j]
  BY <1>2, TokensConcat
<1>5. /\ Tail(ts) \in Seq(Tokens) /\ Len(Tail(ts)) = Len(ts) - 1
      /\ \A i \in 1..Len(ts) - 1 : Tail(ts)[i] = ts[i + 1]
  <2>1. ts # <<>>
    BY <1>2, <1>4
  <2> QED
    BY <1>4, <2>1
<1> DEFINE tl == Tail(ts)
<1> HIDE DEF tl
<1>6. /\ tl \in Seq(Tokens) /\ Len(tl) = Len(ts) - 1 /\ ToSet(tl) = {tl[i] : i \in 1..Len(tl)}
      /\ \A i \in 1..Len(ts) - 1 : tl[i] = ts[i + 1]
  <2>1. /\ tl \in Seq(Tokens) /\ Len(tl) = Len(ts) - 1
        /\ \A i \in 1..Len(ts) - 1 : tl[i] = ts[i + 1]
    BY <1>5, Zenon DEF tl
  <2>2. DOMAIN tl = 1..Len(tl)
    BY <2>1
  <2>3. ToSet(tl) = {tl[i] : i \in 1..Len(tl)}
    BY <2>2, Zenon DEF ToSet
  <2> QED
    BY <2>1, <2>3
<1>7. \A i \in 1..Len(tl) : i + 1 > Len(x) => ~(tl[i].at < Columns[1].at)
  <2> TAKE i \in 1..Len(tl)
  <2> HAVE i + 1 > Len(x)
  <2> DEFINE j == i + 1 - Len(x)
  <2>1. j \in 1..Len(y) /\ i + 1 = Len(x) + j /\ i \in 1..Len(ts) - 1
    BY <1>4, <1>6
  <2> HIDE DEF j
  <2>2. tl[i] = y[j]
    BY <1>4, <1>6, <2>1
  <2>3. y[j] \in Cells
    BY <2>1
  <2>4. Columns[1].at <= y[j].at /\ y[j].at \in Nat
    BY <2>3 DEF Cells, Tokens
  <2> QED
    BY <1>3, <2>2, <2>4
<1>8. A = {u \in ToSet(tl) : u.at < Columns[1].at /\ u.word \in DOMAIN Letters}
  BY DEF tl
<1> HIDE DEF A
<1>9. CASE w = Nothing
  <2>1. \A i \in 1..Len(tl) : i + 1 > Len(x)
    BY <1>2, <1>9
  <2>2. A = {}
    BY <1>6, <1>7, <1>8, <2>1
  <2>3. UNION {Letters[t.word] : t \in A} = {}
    BY <2>2
  <2> QED
    BY <1>1, <1>9, <2>3, Zenon DEF FlagsIn
<1>10. CASE w # Nothing
  <2>1. Len(x) = 2 /\ x[2] = Word(w, 1) /\ w \in DOMAIN Letters
    BY <1>2, <1>10
  <2>2. 1 \in 1..Len(tl) /\ tl[1] = Word(w, 1)
    <3>1. 1 \in 1..Len(ts) - 1 /\ 2 \in 1..Len(x)
      BY <1>4, <2>1
    <3>2. tl[1] = ts[1 + 1] /\ ts[2] = x[2]
      BY <1>4, <1>6, <3>1
    <3> QED
      BY <1>6, <2>1, <3>1, <3>2
  <2>3. tl[1].word = w /\ tl[1].at < Columns[1].at
    <3>1. x[2].at < Columns[1].at
      <4>1. 2 \in 1..Len(x)
        BY <2>1
      <4> QED
        BY <1>2, <4>1
    <3>2. Word(w, 1).word = w
      BY DEF Word, Token
    <3> QED
      BY <2>1, <2>2, <3>1, <3>2
  <2>4. \A i \in 1..Len(tl) : i # 1 => i + 1 > Len(x)
    BY <2>1
  <2>5. A = {tl[1]}
    BY <1>6, <1>7, <1>8, <2>1, <2>2, <2>3, <2>4
  <2>6. UNION {Letters[t.word] : t \in A} = Letters[w]
    BY <2>3, <2>5
  <2> QED
    BY <1>1, <1>10, <2>6, Zenon DEF FlagsIn
<1> QED
  BY <1>9, <1>10

-----------------------------------------------------------------------------
(* A row is read as it was printed.                                        *)

\* The fields that flags stand for.
Named(flags, names) == {names[c] : c \in flags \cap DOMAIN names}

LEMMA WithFlagsIs ==
  ASSUME NEW obj, NEW flags, NEW names
  PROVE  WithFlags(obj, flags, names)
           = [k \in DOMAIN obj \cup Named(flags, names) |->
                IF k \in DOMAIN obj THEN obj[k] ELSE <<"yes">>]
<1> DEFINE D == Named(flags, names)
           s == [n \in D |-> <<"yes">>]
<1>1. WithFlags(obj, flags, names) = Over(obj, s)
  BY Zenon DEF WithFlags, Named
<1> HIDE DEF D
<1>2. Over(obj, s) = [k \in DOMAIN obj \cup D |-> IF k \in DOMAIN obj THEN obj[k] ELSE <<"yes">>]
  BY DEF Over
<1> QED
  BY <1>1, <1>2, Zenon DEF D

\* The record meant, if the value of a field is the one in v.
MeantBy(r, flags, v) ==
    LET keys == {f.key : f \in Shown(r.fields)}
    IN  [k \in keys \cup flags |->
           IF k \in keys THEN v[CHOOSE f \in Shown(r.fields) : f.key = k] ELSE <<"yes">>]

LEMMA MeantIs ==
  ASSUME NEW r
  PROVE  LET flags == Named(r.flags, flagMap(lines))
             v == [f \in Shown(r.fields) |-> f.value]
             u == [f \in Shown(r.fields) |-> UpToBlank(f)]
         IN  /\ Meant(r, TRUE, Whole) = MeantBy(r, flags, v)
             /\ Meant(r, FALSE, Whole) = MeantBy(r, {}, v)
             /\ Meant(r, TRUE, UpToBlank) = MeantBy(r, flags, u)
             /\ Meant(r, FALSE, UpToBlank) = MeantBy(r, {}, u)
<1> DEFINE S == Shown(r.fields)
           keys == {f.key : f \in S}
           flags == Named(r.flags, flagMap(lines))
           C(k) == CHOOSE f \in S : f.key = k
           v == [f \in S |-> f.value]
           u == [f \in S |-> UpToBlank(f)]
           T(D) == [k \in D |-> IF k \in keys THEN C(k).value ELSE <<"yes">>]
           U(D) == [k \in D |-> IF k \in keys THEN UpToBlank(C(k)) ELSE <<"yes">>]
           TV(D) == [k \in D |-> IF k \in keys THEN v[C(k)] ELSE <<"yes">>]
           UV(D) == [k \in D |-> IF k \in keys THEN u[C(k)] ELSE <<"yes">>]
<1>1. \A k \in keys : C(k) \in S
  OBVIOUS
<1>2. /\ Meant(r, TRUE, Whole) = T(keys \cup flags)
      /\ Meant(r, TRUE, UpToBlank) = U(keys \cup flags)
  BY Zenon DEF Meant, Whole, Shown, Named
<1>3. /\ Meant(r, FALSE, Whole) = T(keys \cup {})
      /\ Meant(r, FALSE, UpToBlank) = U(keys \cup {})
  BY Zenon DEF Meant, Whole, Shown, Named
<1>4. /\ MeantBy(r, flags, v) = TV(keys \cup flags)
      /\ MeantBy(r, {}, v) = TV(keys \cup {})
      /\ MeantBy(r, flags, u) = UV(keys \cup flags)
      /\ MeantBy(r, {}, u) = UV(keys \cup {})
  BY Zenon DEF MeantBy
<1>5. \A k \in keys : v[C(k)] = C(k).value /\ u[C(k)] = UpToBlank(C(k))
  BY <1>1, Zenon
<1> HIDE DEF S, keys, flags, C, v, u
<1>6. /\ TV(keys \cup flags) = T(keys \cup flags) /\ TV(keys \cup {}) = T(keys \cup {})
      /\ UV(keys \cup flags) = U(keys \cup flags) /\ UV(keys \cup {}) = U(keys \cup {})
  BY <1>5
<1> HIDE DEF T, U, TV, UV
<1> QED
  BY <1>2, <1>3, <1>4, <1>6, Zenon DEF S, flags, v, u

\* The record obj has the fields, with their values in v.
Tells(obj, fields, v) ==
    /\ obj \in Objects
    /\ DOMAIN obj = {f.key : f \in fields}
    /\ \A f \in fields : obj[f.key] = v[f]

\* A record that gives the fields shown the values in v is the one meant.
LEMMA TellsMeant ==
  ASSUME NEW obj, NEW r, NEW v, Tells(obj, Shown(r.fields), v)
  PROVE  /\ WithFlags(obj, r.flags, flagMap(lines))
              = MeantBy(r, Named(r.flags, flagMap(lines)), v)
         /\ obj = MeantBy(r, {}, v)
<1> DEFINE fs == Shown(r.fields)
           fl == Named(r.flags, flagMap(lines))
           keys == {f.key : f \in fs}
           V(k) == IF k \in keys THEN v[CHOOSE f \in fs : f.key = k] ELSE <<"yes">>
<1>1. DOMAIN obj = keys /\ obj \in Objects /\ \A f \in fs : obj[f.key] = v[f]
  BY Zenon DEF Tells
<1>2. obj = [k \in keys |-> obj[k]]
  BY <1>1 DEF Objects
<1>3. \A k \in keys : V(k) = obj[k]
  <2> TAKE k \in keys
  <2>1. \E f \in fs : f.key = k
    OBVIOUS
  <2> DEFINE g == CHOOSE f \in fs : f.key = k
  <2>2. g \in fs /\ g.key = k
    BY <2>1
  <2>3. V(k) = v[g]
    BY Zenon
  <2> HIDE DEF g
  <2>4. obj[k] = v[g]
    BY <1>1, <2>2
  <2> QED
    BY <2>3, <2>4
<1>4. \A k : k \notin keys => V(k) = <<"yes">>
  BY Zenon
<1>5. /\ MeantBy(r, Named(r.flags, flagMap(lines)), v) = [k \in keys \cup fl |-> V(k)]
      /\ MeantBy(r, {}, v) = [k \in keys \cup {} |-> V(k)]
  BY Zenon DEF MeantBy
<1>6. WithFlags(obj, r.flags, flagMap(lines))
        = [k \in DOMAIN obj \cup fl |-> IF k \in DOMAIN obj THEN obj[k] ELSE <<"yes">>]
  BY WithFlagsIs
<1> HIDE DEF fs, keys, fl, V
<1>7. obj = [k \in keys \cup {} |-> V(k)]
  BY <1>2, <1>3
<1>8. [k \in DOMAIN obj \cup fl |-> IF k \in DOMAIN obj THEN obj[k] ELSE <<"yes">>]
        = [k \in keys \cup fl |-> V(k)]
  BY <1>1, <1>3, <1>4
<1> QED
  BY <1>5, <1>6, <1>7, <1>8, Zenon

\* The record that holds the fields is the one meant.
LEMMA HoldsMeant ==
  ASSUME NEW obj, NEW r, Holds(obj, Shown(r.fields))
  PROVE  /\ WithFlags(obj, r.flags, flagMap(lines)) = Meant(r, TRUE, Whole)
         /\ obj = Meant(r, FALSE, Whole)
<1> DEFINE fs == Shown(r.fields)
           flags == Named(r.flags, flagMap(lines))
           v == [f \in fs |-> f.value]
<1>1. obj \in Objects /\ DOMAIN obj = {f.key : f \in fs}
      /\ \A f \in fs : obj[f.key] = f.value
  BY Zenon DEF Holds
<1>2. \A f \in fs : obj[f.key] = v[f]
  BY <1>1
<1> HIDE DEF v, flags
<1>2a. Tells(obj, fs, v)
  BY <1>1, <1>2, Zenon DEF Tells
<1>3. /\ WithFlags(obj, r.flags, flagMap(lines)) = MeantBy(r, flags, v)
      /\ obj = MeantBy(r, {}, v)
  <2>1. Tells(obj, Shown(r.fields), v)
    BY <1>2a
  <2>2. WithFlags(obj, r.flags, flagMap(lines)) = MeantBy(r, flags, v)
    BY <2>1, TellsMeant DEF flags
  <2>3. obj = MeantBy(r, {}, v)
    BY <2>1, TellsMeant DEF flags
  <2> QED
    BY <2>2, <2>3
<1>4. /\ Meant(r, TRUE, Whole) = MeantBy(r, flags, v)
      /\ Meant(r, FALSE, Whole) = MeantBy(r, {}, v)
  BY MeantIs DEF v, flags
<1> QED
  BY <1>3, <1>4, Zenon

\* What is read of fields up to a blank is what is meant up to there.
LEMMA ReadsMeant ==
  ASSUME NEW obj, NEW r, Reads(obj, r.fields), r.fields \subseteq Fields
  PROVE  /\ WithFlags(obj, r.flags, flagMap(lines)) = Meant(r, TRUE, UpToBlank)
         /\ obj = Meant(r, FALSE, UpToBlank)
<1> DEFINE fs == Shown(r.fields)
           flags == Named(r.flags, flagMap(lines))
           v == [f \in fs |-> UpToBlank(f)]
<1>1. fs = r.fields
  <2>1. \A f \in Fields : f.quoted \/ f.value # <<>>
    BY ParsersAssumption, Zenon
  <2> QED
    BY <2>1 DEF Shown
<1>2. obj \in Objects /\ DOMAIN obj = {f.key : f \in fs}
      /\ \A f \in fs : obj[f.key] = UpToBlank(f)
  BY <1>1, Zenon DEF Reads
<1> HIDE DEF fs
<1>3. \A f \in fs : obj[f.key] = v[f]
  BY <1>2, Zenon
<1> HIDE DEF v, flags
<1>3a. Tells(obj, fs, v)
  BY <1>2, <1>3, Zenon DEF Tells
<1>4. /\ WithFlags(obj, r.flags, flagMap(lines)) = MeantBy(r, flags, v)
      /\ obj = MeantBy(r, {}, v)
  <2>1. Tells(obj, Shown(r.fields), v)
    BY <1>3a DEF fs
  <2>2. WithFlags(obj, r.flags, flagMap(lines)) = MeantBy(r, flags, v)
    BY <2>1, TellsMeant DEF flags
  <2>3. obj = MeantBy(r, {}, v)
    BY <2>1, TellsMeant DEF flags
  <2> QED
    BY <2>2, <2>3
<1>5. /\ Meant(r, TRUE, UpToBlank) = MeantBy(r, flags, v)
      /\ Meant(r, FALSE, UpToBlank) = MeantBy(r, {}, v)
  BY MeantIs DEF v, fs, flags
<1> QED
  BY <1>4, <1>5, Zenon

\* A row is read as it was printed.
LEMMA RowRead ==
  ASSUME NEW w \in DOMAIN Letters \cup {Nothing}, NEW cells \in AllCells, Columns # <<>>,
         NEW names
  PROVE  \E obj : /\ Holds(obj, RowRecord(w, cells).fields)
                  /\ ReadRow(RowLine(w, cells), names)
                       = WithFlags(obj, FlagsIn(w), names)
<1> DEFINE row == RowLine(w, cells)
           F(c) == [key |-> Columns[c].name, value |-> cells[c], quoted |-> FALSE]
           filled == {c \in DOMAIN Columns : Cell(row, c) # <<>>}
           obj == [k \in {Columns[c].name : c \in filled} |->
                     Cell(row, CHOOSE c \in filled : Columns[c].name = k)]
<1>1. ReadRow(row, names) = WithFlags(obj, FlagArea(row), names)
  BY Zenon DEF ReadRow
<1>2. FlagArea(row) = FlagsIn(w)
  BY RowFlags
<1>3. \A c \in DOMAIN Columns : Cell(row, c) = cells[c]
  BY RowCell
<1>4. filled = {c \in DOMAIN Columns : cells[c] # <<>>}
  BY <1>3
<1>5. RowRecord(w, cells).fields = {F(c) : c \in filled}
  BY <1>4 DEF RowRecord
<1>6. \A c \in DOMAIN Columns : Columns[c].name \in FieldNames /\ cells[c] \in Seq(Spellings)
  <2> TAKE c \in DOMAIN Columns
  <2>1. cells[c] \in Seq(Words)
    BY CellsAre
  <2>2. Words \subseteq Spellings
    BY DEF Spellings
  <2> QED
    BY <2>1, <2>2, ColumnsAre, SeqMonotonic
<1>7. filled \subseteq DOMAIN Columns
  OBVIOUS
<1> HIDE DEF row, filled
<1>8. \A c \in filled : (CHOOSE d \in filled : Columns[d].name = Columns[c].name) = c
  <2> TAKE c \in filled
  <2> DEFINE e == CHOOSE d \in filled : Columns[d].name = Columns[c].name
  <2>1. e \in filled /\ Columns[e].name = Columns[c].name
    OBVIOUS
  <2> HIDE DEF e
  <2>2. e \in DOMAIN Columns /\ c \in DOMAIN Columns
    BY <1>7, <2>1
  <2>3. ~(e < c) /\ ~(c < e)
    BY <2>1, <2>2, ColumnsAre, Zenon
  <2>4. e \in Nat /\ c \in Nat
    BY <2>2, ColumnsAre
  <2>5. e = c
    BY <2>3, <2>4
  <2> QED
    BY <2>5 DEF e
<1>9. DOMAIN obj = {Columns[c].name : c \in filled}
  OBVIOUS
<1>10. \A c \in filled : obj[Columns[c].name] = cells[c]
  <2> TAKE c \in filled
  <2>1. obj[Columns[c].name]
          = Cell(row, CHOOSE d \in filled : Columns[d].name = Columns[c].name)
    OBVIOUS
  <2>2. obj[Columns[c].name] = Cell(row, c)
    BY <1>8, <2>1, Zenon
  <2> QED
    BY <1>3, <1>7, <2>2
<1>11. obj = [k \in DOMAIN obj |-> obj[k]]
  OBVIOUS
<1> HIDE DEF obj
<1>12. \A k \in DOMAIN obj : obj[k] \in Seq(Spellings)
  BY <1>6, <1>7, <1>9, <1>10
<1>13. DOMAIN obj \in SUBSET FieldNames
  BY <1>6, <1>7, <1>9
<1>14. obj \in [DOMAIN obj -> Seq(Spellings)]
  BY <1>11, <1>12
<1>15. obj \in Objects
  BY <1>13, <1>14 DEF Objects
<1>16. \A c \in filled : F(c).key = Columns[c].name /\ F(c).value = cells[c]
  OBVIOUS
<1> HIDE DEF F
<1>17. Holds(obj, {F(c) : c \in filled})
  <2>1. DOMAIN obj = {f.key : f \in {F(c) : c \in filled}}
    BY <1>9, <1>16
  <2>2. \A f \in {F(c) : c \in filled} : obj[f.key] = f.value
    BY <1>10, <1>16
  <2> QED
    BY <1>15, <2>1, <2>2, Zenon DEF Holds
<1> QED
  BY <1>1, <1>2, <1>5, <1>17, Zenon DEF row

\* A row begins with its index, and has no key.
LEMMA RowStarts ==
  ASSUME NEW w \in DOMAIN Letters \cup {Nothing}, NEW cells \in AllCells, Columns # <<>>
  PROVE  /\ Starts(RowLine(w, cells))
         /\ \A j \in DOMAIN RowLine(w, cells).tokens :
               RowLine(w, cells).tokens[j].key = Nothing
<1> DEFINE ts == RowLine(w, cells).tokens
<1>1. PICK x \in Seq(Tokens), y \in Seq(Tokens) :
            /\ RowLine(w, cells).tokens = x \o y
            /\ x \in Seq(Tokens) /\ y = FlattenSeq(CellTexts(cells)) /\ y \in Seq(Cells)
            /\ Len(x) = IF w = Nothing THEN 1 ELSE 2
            /\ IsNumber(x[1])
            /\ w # Nothing => x[2] = Word(w, 1)
            /\ \A i \in 1..Len(x) : /\ x[i].key = Nothing /\ ~x[i].opens
                                    /\ x[i].at < Columns[1].at
  BY RowTokens, Zenon
<1>2. RowLine(w, cells).colon = Nothing
  BY RowLineTyped
<1>9. ts = x \o y
  BY <1>1
<1> HIDE DEF ts
<1>3. /\ ts \in Seq(Tokens) /\ Len(ts) = Len(x) + Len(y) /\ Len(x) \in Nat /\ Len(y) \in Nat
      /\ \A i \in 1..Len(x) : ts[i] = x[i]
      /\ \A j \in 1..Len(y) : ts[Len(x) + j] = y[j]
  BY <1>9, TokensConcat
<1>4. ts # <<>> /\ ts[1] = x[1]
  <2>1. 1 \in 1..Len(x)
    BY <1>1
  <2> QED
    BY <1>3, <2>1
<1>5. \A i \in 1..Len(ts) : ts[i].key = Nothing
  <2> TAKE i \in 1..Len(ts)
  <2>1. CASE i \in 1..Len(x)
    BY <1>1, <1>3, <2>1
  <2>2. CASE i \notin 1..Len(x)
    <3> DEFINE j == i - Len(x)
    <3>1. j \in 1..Len(y) /\ i = Len(x) + j
      BY <1>3, <2>2
    <3> HIDE DEF j
    <3>2. ts[i] = y[j] /\ y[j] \in Cells
      BY <1>1, <1>3, <3>1
    <3> QED
      BY <3>2 DEF Cells
  <2> QED
    BY <2>1, <2>2
<1>6. DOMAIN ts = 1..Len(ts)
  BY <1>3
<1> QED
  BY <1>1, <1>2, <1>4, <1>5, <1>6, Zenon DEF Starts, ts

\* Below the heading each record has a row.
ARow(l, r) ==
    \E w \in DOMAIN Letters \cup {Nothing}, cells \in AllCells :
       l = RowLine(w, cells) /\ r = RowRecord(w, cells)

TablePrinted ==
    shape = "table" =>
        /\ Len(lines) = Len(printed) + 4
        /\ Keyless(lines)
        /\ lines[1].kind = "flags"
        /\ \A i \in 1..3 : lines[i].kind # "head"
        /\ lines[4].kind = "head"
        /\ printed # <<>> => Columns # <<>>
        /\ \A i \in 1..Len(printed) : ARow(lines[i + 4], printed[i])

LEMMA LinesConcat ==
  ASSUME NEW x \in Seq(Lines), NEW y \in Seq(Lines)
  PROVE  /\ x \o y \in Seq(Lines)
         /\ Len(x \o y) = Len(x) + Len(y)
         /\ \A i \in 1..Len(x) : (x \o y)[i] = x[i]
         /\ \A i \in 1..Len(y) : (x \o y)[Len(x) + i] = y[i]
  BY ConcatProperties

LEMMA TableLines ==
  LET ls == FlagLines \o TableHead
  IN  /\ Len(ls) = 4 /\ Keyless(ls) /\ DOMAIN ls = 1..4
      /\ ls[1].kind = "flags" /\ ls[2].kind = "more" /\ ls[3].kind = "columns"
      /\ ls[4].kind = "head"
<1> DEFINE a == Line("flags", Nothing, <<>>)
           b == Line("more", Nothing, <<>>)
           c == Line("columns", Nothing, <<>>)
           d == Line("head", Nothing, <<>>)
<1>1. FlagLines = <<a, b>> /\ TableHead = <<c, d>>
  BY Zenon DEF FlagLines, TableHead
<1>2. a.kind = "flags" /\ b.kind = "more" /\ c.kind = "columns" /\ d.kind = "head"
  BY DEF Line
<1>3. \A l \in {a, b, c, d} : l.tokens = <<>> /\ l \in Lines
  <2>1. a \in Lines /\ b \in Lines /\ c \in Lines /\ d \in Lines
    BY DEF Line, Lines
  <2>2. a.tokens = <<>> /\ b.tokens = <<>> /\ c.tokens = <<>> /\ d.tokens = <<>>
    BY DEF Line
  <2> QED
    BY <2>1, <2>2
<1> HIDE DEF a, b, c, d
<1> DEFINE x == <<a, b>>
           y == <<c, d>>
<1>4. /\ x \in Seq(Lines) /\ y \in Seq(Lines) /\ Len(x) = 2 /\ Len(y) = 2
      /\ x[1] = a /\ x[2] = b /\ y[1] = c /\ y[2] = d
  BY <1>3
<1> HIDE DEF x, y
<1> DEFINE ls == x \o y
<1>5. /\ Len(ls) = 4 /\ DOMAIN ls = 1..4
      /\ ls[1] = a /\ ls[2] = b /\ ls[3] = c /\ ls[4] = d
  <2>1. /\ Len(ls) = 4 /\ DOMAIN ls = 1..4
        /\ \A i \in 1..2 : ls[i] = x[i]
        /\ \A i \in 1..2 : ls[2 + i] = y[i]
    <3>1. /\ Len(ls) = Len(x) + Len(y) /\ ls \in Seq(Lines)
          /\ \A i \in 1..Len(x) : ls[i] = x[i]
          /\ \A i \in 1..Len(y) : ls[Len(x) + i] = y[i]
      BY <1>4, LinesConcat
    <3> HIDE DEF ls
    <3> QED
      BY <1>4, <3>1
  <2>2. 1 \in 1..2 /\ 2 \in 1..2 /\ 2 + 1 = 3 /\ 2 + 2 = 4
    OBVIOUS
  <2> HIDE DEF ls
  <2>3. ls[1] = x[1] /\ ls[2] = x[2] /\ ls[3] = y[1] /\ ls[4] = y[2]
    BY <2>1, <2>2
  <2> QED
    BY <1>4, <2>1, <2>3
<1>6. ls = FlagLines \o TableHead
  BY <1>1 DEF x, y
<1> HIDE DEF ls
<1>7. Keyless(ls)
  <2>1. \A i \in DOMAIN ls : ls[i].tokens = <<>>
    <3> TAKE i \in DOMAIN ls
    <3>1. i = 1 \/ i = 2 \/ i = 3 \/ i = 4
      BY <1>5
    <3> QED
      BY <1>3, <1>5, <3>1
  <2>2. DOMAIN <<>> = {}
    OBVIOUS
  <2>3. \A i \in DOMAIN ls : DOMAIN ls[i].tokens = {}
    BY <2>1, <2>2
  <2> QED
    BY <2>3 DEF Keyless
<1> QED
  BY <1>2, <1>5, <1>6, <1>7, Zenon

LEMMA TableInit == ParsersInit => TablePrinted
<1> SUFFICES ASSUME ParsersInit, shape = "table" PROVE TablePrinted
  BY Zenon DEF TablePrinted
<1> DEFINE ls == FlagLines \o TableHead
<1>1. lines = ls /\ printed = <<>>
  BY InitLines
<1>2. /\ Len(ls) = 4 /\ Keyless(ls) /\ DOMAIN ls = 1..4
      /\ ls[1].kind = "flags" /\ ls[2].kind = "more" /\ ls[3].kind = "columns"
      /\ ls[4].kind = "head"
  BY TableLines, Zenon
<1> HIDE DEF ls
<1>3. Len(printed) = 0
  BY <1>1
<1>4. \A i \in 1..3 : ls[i].kind # "head"
  <2> TAKE i \in 1..3
  <2>1. i = 1 \/ i = 2 \/ i = 3
    OBVIOUS
  <2> QED
    BY <1>2, <2>1
<1>5. Len(lines) = Len(printed) + 4
  BY <1>1, <1>2, <1>3
<1>6. \A i \in 1..Len(printed) : ARow(lines[i + 4], printed[i])
  BY <1>3
<1> QED
  BY <1>1, <1>2, <1>4, <1>5, <1>6, Zenon DEF TablePrinted

LEMMA PrintRowTable ==
  ASSUME NEW w \in DOMAIN Letters \cup {Nothing}, NEW cells \in AllCells,
         LinesFit, TablePrinted, PrintRow(w, cells)
  PROVE  TablePrinted'
<1> DEFINE l == RowLine(w, cells)
           r == RowRecord(w, cells)
           n == Len(printed)
           a == lines
           b == lines'
           p == printed
           q == printed'
<1>1. /\ shape = "table" /\ shape' = shape
      /\ b = Append(a, l) /\ q = Append(p, r)
  BY Zenon DEF PrintRow
<1>2. Columns # <<>>
  <2>1. \E c \in DOMAIN Columns : cells[c] # <<>>
    BY Zenon DEF PrintRow
  <2> QED
    BY <2>1
<1>3. l \in Lines /\ r \in Records /\ l.kind = "text"
  BY RowLineTyped, RowRecordTyped
<1>4. \A j \in DOMAIN l.tokens : l.tokens[j].key = Nothing
  BY <1>2, RowStarts
<1>5. ARow(l, r)
  BY Zenon DEF ARow
<1>6. a \in Seq(Lines) /\ p \in Seq(Records)
  BY DEF LinesFit, ParsersTypeOK
<1>7. /\ Len(a) = n + 4 /\ Keyless(a) /\ a[1].kind = "flags"
      /\ \A i \in 1..3 : a[i].kind # "head"
      /\ a[4].kind = "head"
      /\ \A i \in 1..n : ARow(a[i + 4], p[i])
  BY <1>1, Zenon DEF TablePrinted
<1> HIDE DEF l, r, a, b, p, q
<1>8. n = Len(p)
  BY DEF p
<1> HIDE DEF n
<1>9. /\ n \in Nat /\ Len(q) = n + 1 /\ Len(b) = n + 5
      /\ DOMAIN b = 1..n + 5 /\ DOMAIN a = 1..n + 4
      /\ \A i \in 1..n : q[i] = p[i]
      /\ q[n + 1] = r
      /\ \A i \in 1..n + 4 : b[i] = a[i]
      /\ b[n + 5] = l
  BY <1>1, <1>3, <1>6, <1>7, <1>8
<1>10. Keyless(b)
  <2>1. \A i \in 1..n + 4 : \A j \in DOMAIN a[i].tokens : a[i].tokens[j].key = Nothing
    BY <1>7, <1>9 DEF Keyless
  <2>2. ASSUME NEW i \in 1..n + 5
        PROVE  \A j \in DOMAIN b[i].tokens : b[i].tokens[j].key = Nothing
    <3>1. CASE i \in 1..n + 4
      <4>1. b[i] = a[i]
        BY <1>9, <3>1
      <4> QED
        BY <2>1, <3>1, <4>1
    <3>2. CASE i = n + 5
      BY <1>4, <1>9, <3>2
    <3> QED
      BY <1>9, <3>1, <3>2
  <2> QED
    BY <1>9, <2>2 DEF Keyless
<1>11. /\ \A i \in 1..3 : b[i] = a[i]
       /\ b[1] = a[1] /\ b[4] = a[4]
  BY <1>9
<1>12. ASSUME NEW i \in 1..n + 1
       PROVE  ARow(b[i + 4], q[i])
  <2>1. CASE i \in 1..n
    <3>1. q[i] = p[i] /\ b[i + 4] = a[i + 4]
      BY <1>9, <2>1
    <3> QED
      BY <1>7, <2>1, <3>1
  <2>2. CASE i = n + 1
    <3>1. q[i] = r /\ b[i + 4] = l
      BY <1>9, <2>2
    <3> QED
      BY <1>5, <3>1
  <2> QED
    BY <1>9, <2>1, <2>2
<1>13. Len(b) = Len(q) + 4
  BY <1>9
<1>14. /\ \A i \in 1..3 : b[i].kind # "head"
       /\ b[1].kind = "flags" /\ b[4].kind = "head"
  BY <1>7, <1>11
<1>15. \A i \in 1..Len(q) : ARow(b[i + 4], q[i])
  BY <1>9, <1>12
<1>16. /\ Len(lines') = Len(printed') + 4 /\ Keyless(lines)'
       /\ lines'[1].kind = "flags"
       /\ \A i \in 1..3 : lines'[i].kind # "head"
       /\ lines'[4].kind = "head"
       /\ \A i \in 1..Len(printed') : ARow(lines'[i + 4], printed'[i])
  BY <1>10, <1>13, <1>14, <1>15, Zenon DEF b, q, Keyless
<1> QED
  BY <1>2, <1>16, Zenon DEF TablePrinted

\* The text says what the records say, in whatever shape.
TextSays ==
    StatsPrinted /\ DetailPrinted /\ FlaggedPrinted /\ PairsPrinted /\ TablePrinted

ReadInv == LinesFit /\ Held /\ TextSays

LEMMA BeginRecordSays ==
  ASSUME NEW w \in DOMAIN Letters \cup {Nothing}, NEW gap \in BOOLEAN,
         LinesFit, TextSays, BeginRecord(w, gap)
  PROVE  TextSays'
<1>1. shape' = shape /\ shape \in {"detail", "flagged"}
  BY DEF BeginRecord
<1>2. StatsPrinted' /\ PairsPrinted' /\ TablePrinted'
  BY <1>1 DEF StatsPrinted, PairsPrinted, TablePrinted
<1>3. DetailPrinted'
  <2>1. CASE shape = "detail"
    BY <2>1, BeginRecordDetail DEF TextSays
  <2>2. CASE shape # "detail"
    BY <1>1, <2>2 DEF DetailPrinted
  <2> QED
    BY <2>1, <2>2
<1>4. FlaggedPrinted'
  <2>1. CASE shape = "flagged"
    BY <2>1, BeginRecordFlagged DEF TextSays
  <2>2. CASE shape # "flagged"
    BY <1>1, <2>2 DEF FlaggedPrinted
  <2> QED
    BY <2>1, <2>2
<1> QED
  BY <1>2, <1>3, <1>4 DEF TextSays

LEMMA BeginInterfaceSays ==
  ASSUME NEW w \in DOMAIN Letters \cup {Nothing}, NEW f \in Fields,
         LinesFit, TextSays, BeginInterface(w, f)
  PROVE  TextSays'
<1>1. shape' = "stats"
  BY DEF BeginInterface
<1>2. DetailPrinted' /\ FlaggedPrinted' /\ PairsPrinted' /\ TablePrinted'
  BY <1>1 DEF DetailPrinted, FlaggedPrinted, PairsPrinted, TablePrinted
<1> QED
  BY <1>2, BeginInterfaceStats DEF TextSays

LEMMA PrintFieldSays ==
  ASSUME NEW f \in Fields \cup Counters, NEW wrap \in BOOLEAN,
         LinesFit, TextSays, PrintField(f, wrap)
  PROVE  TextSays'
<1>1. shape' = shape /\ shape \in {"detail", "flagged", "stats"}
  BY DEF PrintField
<1>2. PairsPrinted' /\ TablePrinted'
  BY <1>1 DEF PairsPrinted, TablePrinted
<1>3. DetailPrinted'
  <2>1. CASE shape = "detail"
    BY <2>1, PrintFieldDetail DEF TextSays
  <2>2. CASE shape # "detail"
    BY <1>1, <2>2 DEF DetailPrinted
  <2> QED
    BY <2>1, <2>2
<1>4. FlaggedPrinted'
  <2>1. CASE shape = "flagged"
    BY <2>1, PrintFieldFlagged DEF TextSays
  <2>2. CASE shape # "flagged"
    BY <1>1, <2>2 DEF FlaggedPrinted
  <2> QED
    BY <2>1, <2>2
<1>5. StatsPrinted'
  <2>1. CASE shape = "stats"
    BY <2>1, PrintFieldStats DEF TextSays
  <2>2. CASE shape # "stats"
    BY <1>1, <2>2 DEF StatsPrinted
  <2> QED
    BY <2>1, <2>2
<1> QED
  BY <1>2, <1>3, <1>4, <1>5 DEF TextSays

LEMMA PrintPairSays ==
  ASSUME NEW f \in Fields, NEW k \in Keys \cup {Nothing},
         LinesFit, TextSays, PrintPair(f, k)
  PROVE  TextSays'
<1>1. shape' = "pairs"
  BY DEF PrintPair
<1>2. DetailPrinted' /\ FlaggedPrinted' /\ StatsPrinted' /\ TablePrinted'
  BY <1>1 DEF DetailPrinted, FlaggedPrinted, StatsPrinted, TablePrinted
<1> QED
  BY <1>2, PrintPairPairs DEF TextSays

LEMMA PrintRowSays ==
  ASSUME NEW w \in DOMAIN Letters \cup {Nothing}, NEW cells \in AllCells,
         LinesFit, TextSays, PrintRow(w, cells)
  PROVE  TextSays'
<1>1. shape' = "table"
  BY DEF PrintRow
<1>2. DetailPrinted' /\ FlaggedPrinted' /\ StatsPrinted' /\ PairsPrinted'
  BY <1>1 DEF DetailPrinted, FlaggedPrinted, StatsPrinted, PairsPrinted
<1> QED
  BY <1>2, PrintRowTable DEF TextSays

LEMMA TextSaysNext == LinesFit /\ TextSays /\ [ParsersNext]_textVars => TextSays'
<1> SUFFICES ASSUME LinesFit, TextSays, [ParsersNext]_textVars PROVE TextSays'
  OBVIOUS
<1>1. ASSUME UNCHANGED <<shape, printed, lines>>
      PROVE  TextSays'
  <2>1. StatsPrinted' /\ DetailPrinted'
    BY <1>1, Zenon DEF TextSays, StatsPrinted, DetailPrinted
  <2>2. FlaggedPrinted' /\ PairsPrinted'
    BY <1>1, Zenon DEF TextSays, FlaggedPrinted, PairsPrinted, Keyless
  <2>3. TablePrinted'
    BY <1>1, Zenon DEF TextSays, TablePrinted, Keyless
  <2> QED
    BY <2>1, <2>2, <2>3 DEF TextSays
<1>2. ASSUME NEW r \in Readers, NEW outcome, ReadBy(r, outcome)
      PROVE  TextSays'
  BY <1>1, <1>2 DEF ReadBy
<1>3. CASE UNCHANGED textVars
  BY <1>1, <1>3 DEF textVars
<1> QED
  BY <1>2, <1>3, Steps, BeginRecordSays, BeginInterfaceSays, PrintFieldSays,
     PrintPairSays, PrintRowSays

LEMMA ReadInvInit == ParsersInit => ReadInv
  BY InitTyped, HeldInit, StatsInit, DetailInit, PairsInit, TableInit DEF ReadInv, TextSays

LEMMA ReadInvNext == ReadInv /\ [ParsersNext]_textVars => ReadInv'
  BY NextTyped, HeldNext, TextSaysNext DEF ReadInv

-----------------------------------------------------------------------------
(* What is read of each shape.                                             *)

LEMMA NothingReadIn == extractFields(<<>>) = NoFields
<1> DEFINE ts == <<>>
<1>1. ts \in Seq(Tokens) /\ Len(ts) = 0
  OBVIOUS
<1> HIDE DEF ts
<1>2. \A i \in 1..Len(ts) : ts[i].key = Nothing
  BY <1>1
<1>3. extractFields(ts) = NoFields
  BY <1>1, <1>2, ExtractKeyless
<1> QED
  BY <1>3 DEF ts

LEMMA NonEmptyNone ==
  ASSUME NEW S, NEW s \in Seq(S), \A i \in 1..Len(s) : DOMAIN s[i] = {}
  PROVE  NonEmpty(s) = <<>>
<1> DEFINE I == {i \in DOMAIN s : DOMAIN s[i] # {}}
<1>1. \A i \in 1..Len(s) : i \notin I
  OBVIOUS
<1> HIDE DEF I
<1>2. Kept(s, I) = <<>>
  BY <1>1, KeptNone
<1> QED
  BY <1>2, Zenon DEF NonEmpty, I

LEMMA NonEmptyNothing ==
  /\ NonEmpty(<<NoFields>>) = <<>>
  /\ \A s : s = <<>> => NonEmpty(s) = <<>>
<1>1. DOMAIN NoFields = {}
  BY DEF NoFields
<1> DEFINE x == NoFields
<1> HIDE DEF x
<1>2. <<x>> \in Seq({x}) /\ \A i \in 1..Len(<<x>>) : <<x>>[i] = x
  OBVIOUS
<1>3. NonEmpty(<<x>>) = <<>>
  <2> DEFINE s == <<x>>
  <2>1. s \in Seq({x}) /\ \A i \in 1..Len(s) : DOMAIN s[i] = {}
    BY <1>1, <1>2 DEF x
  <2> HIDE DEF s
  <2>2. NonEmpty(s) = <<>>
    BY <2>1, NonEmptyNone
  <2> QED
    BY <2>2 DEF s
<1>4. NonEmpty(<<>>) = <<>>
  <2> DEFINE s == <<>>
  <2>1. s \in Seq({}) /\ \A i \in 1..Len(s) : DOMAIN s[i] = {}
    OBVIOUS
  <2> HIDE DEF s
  <2>2. NonEmpty(s) = <<>>
    BY <2>1, NonEmptyNone
  <2> QED
    BY <2>2 DEF s
<1> QED
  BY <1>3, <1>4 DEF x

\* What is meant, by the number of records.
LEMMA MeantAllIs ==
  ASSUME printed \in Seq(Records)
  PROVE  /\ MeantAll(Whole)
              = NonEmpty([i \in 1..Len(printed) |->
                            Meant(printed[i], shape \in {"detail", "table"}, Whole)])
         /\ MeantAll(UpToBlank)
              = NonEmpty([i \in 1..Len(printed) |->
                            Meant(printed[i], shape \in {"detail", "table"}, UpToBlank)])
<1>1. DOMAIN printed = 1..Len(printed)
  OBVIOUS
<1> QED
  BY <1>1, Zenon DEF MeantAll

ReadBlock(i) ==
    WithFlags(extractFields(Blocks(lines)[i].tokens), printed[i].flags, flagMap(lines))

LEMMA DetailIs ==
  ASSUME ReadInv, shape = "detail"
  PROVE  parseDetailRecords(lines) = NonEmpty([i \in 1..Len(printed) |-> ReadBlock(i)])
<1> DEFINE bs == Blocks(lines)
           ps == Paragraphs(lines, Headings)
           n == Len(printed)
<1>1. lines \in Seq(Lines) /\ printed \in Seq(Records)
  BY DEF ReadInv, LinesFit, ParsersTypeOK
<1>2. /\ Len(bs) = n
      /\ printed = <<>> => ps = << <<>> >>
      /\ \A i \in 1..n : bs[i].flags = printed[i].flags
  BY Zenon DEF ReadInv, TextSays, DetailPrinted
<1>3. parseDetailRecords(lines)
        = NonEmpty(IF bs # <<>>
                   THEN [i \in DOMAIN bs |->
                          WithFlags(extractFields(bs[i].tokens), bs[i].flags, flagMap(lines))]
                   ELSE [i \in DOMAIN ps |-> extractFields(ps[i])])
  BY Zenon DEF parseDetailRecords
<1>4. bs \in Seq(BlockSet)
  BY <1>1, BlocksTyped
<1> HIDE DEF bs, ps
<1>5. DOMAIN bs = 1..n /\ n \in Nat /\ (bs = <<>> <=> n = 0) /\ (printed = <<>> <=> n = 0)
  BY <1>1, <1>2, <1>4
<1>6. CASE n = 0
  <2>1. ps = << <<>> >> /\ bs = <<>>
    BY <1>2, <1>5, <1>6
  <2>2. extractFields(<<>>) = NoFields
    BY NothingReadIn
  <2>3. DOMAIN ps = 1..1 /\ ps[1] = <<>>
    BY <2>1
  <2>4. [i \in DOMAIN ps |-> extractFields(ps[i])] = <<NoFields>>
    <3> DEFINE x == NoFields
               g == [i \in DOMAIN ps |-> extractFields(ps[i])]
    <3>1. DOMAIN g = 1..1 /\ g[1] = x
      BY <2>2, <2>3
    <3>2. g = [i \in 1..1 |-> x]
      BY <2>2, <2>3
    <3> HIDE DEF x, g
    <3>3. [i \in 1..1 |-> x] = <<x>>
      OBVIOUS
    <3> QED
      BY <3>2, <3>3 DEF x, g
  <2>5. parseDetailRecords(lines) = <<>>
    BY <1>3, <2>1, <2>4, NonEmptyNothing, Zenon
  <2>6. [i \in 1..n |-> ReadBlock(i)] = <<>>
    BY <1>6
  <2> QED
    BY <2>5, <2>6, NonEmptyNothing, Zenon
<1>7. CASE n # 0
  <2>1. bs # <<>>
    BY <1>5, <1>7
  <2>2. ASSUME NEW i \in 1..n
        PROVE  WithFlags(extractFields(bs[i].tokens), bs[i].flags, flagMap(lines))
                 = ReadBlock(i)
    BY <1>2, <2>2, Zenon DEF ReadBlock, bs
  <2>3. [i \in DOMAIN bs |->
           WithFlags(extractFields(bs[i].tokens), bs[i].flags, flagMap(lines))]
          = [i \in 1..n |-> ReadBlock(i)]
    BY <1>5, <2>2, Zenon
  <2> QED
    BY <1>3, <2>1, <2>3, Zenon
<1> QED
  BY <1>6, <1>7

LEMMA FlaggedIs ==
  ASSUME ReadInv, shape = "flagged"
  PROVE  parseDetailRecords(lines)
           = NonEmpty([i \in 1..Len(printed) |->
                         extractFields(Paragraphs(lines, Headings)[i])])
<1> DEFINE bs == Blocks(lines)
           ps == Paragraphs(lines, Headings)
           n == Len(printed)
<1>1. lines \in Seq(Lines) /\ printed \in Seq(Records)
  BY DEF ReadInv, LinesFit, ParsersTypeOK
<1>2. /\ bs = <<>>
      /\ printed = <<>> => ps = << <<>> >>
      /\ printed # <<>> => Len(ps) = n
  BY Zenon DEF ReadInv, TextSays, FlaggedPrinted
<1>3. parseDetailRecords(lines) = NonEmpty([i \in DOMAIN ps |-> extractFields(ps[i])])
  BY <1>2, Zenon DEF parseDetailRecords
<1>4. ps \in Texted
  BY <1>1, ParagraphsTyped
<1> HIDE DEF bs, ps
<1>5. ps \in Seq(Seq(Tokens))
  BY <1>4 DEF Texted
<1>6. n \in Nat /\ (printed = <<>> <=> n = 0)
  BY <1>1
<1>7. CASE n = 0
  <2>1. ps = << <<>> >>
    BY <1>2, <1>6, <1>7
  <2>2. extractFields(<<>>) = NoFields
    BY NothingReadIn
  <2>3. DOMAIN ps = 1..1 /\ ps[1] = <<>>
    BY <2>1
  <2>4. [i \in DOMAIN ps |-> extractFields(ps[i])] = <<NoFields>>
    <3> DEFINE x == NoFields
               g == [i \in DOMAIN ps |-> extractFields(ps[i])]
    <3>1. g = [i \in 1..1 |-> x]
      BY <2>2, <2>3
    <3> HIDE DEF x, g
    <3>2. [i \in 1..1 |-> x] = <<x>>
      OBVIOUS
    <3> QED
      BY <3>1, <3>2 DEF x, g
  <2>5. parseDetailRecords(lines) = <<>>
    BY <1>3, <2>4, NonEmptyNothing, Zenon
  <2>6. [i \in 1..n |-> extractFields(ps[i])] = <<>>
    BY <1>7
  <2> QED
    BY <2>5, <2>6, NonEmptyNothing, Zenon DEF ps
<1>8. CASE n # 0
  <2>1. DOMAIN ps = 1..n
    BY <1>2, <1>5, <1>6, <1>8
  <2> QED
    BY <1>3, <2>1, Zenon DEF ps
<1> QED
  BY <1>7, <1>8

\* Where no line holds a pair, the second attempt finds nothing.
LEMMA QueryPlain ==
  ASSUME lines \in Seq(Lines), Plainly(lines)
  PROVE  query(lines) = parseDetailRecords(lines)
<1>1. parseKeyValue(lines) = NoFields
  BY NoPairs
<1>2. query(lines) = IF parseDetailRecords(lines) # <<>> THEN parseDetailRecords(lines)
                     ELSE NonEmpty(<<NoFields>>)
  BY <1>1, Zenon DEF query
<1> QED
  BY <1>2, NonEmptyNothing, Zenon

\* Pairs without = are no detail record.
LEMMA PairsRead ==
  ASSUME ReadInv, shape = "pairs", Keyless(lines)
  PROVE  query(lines) = MeantAll(Whole)
<1> DEFINE ps == Paragraphs(lines, Headings)
           pairs == parseKeyValue(lines)
<1>1. lines \in Seq(Lines) /\ printed \in Seq(Records)
  BY DEF ReadInv, LinesFit, ParsersTypeOK
<1>2. PairsPrinted
  BY DEF ReadInv, TextSays
<1>3. /\ Blocks(lines) = <<>>
      /\ Len(ps) = 1
      /\ \A j \in 1..Len(ps[1]) : ps[1][j].key = Nothing
      /\ printed = <<>> => pairs = NoFields
      /\ printed # <<>> => Len(printed) = 1 /\ Holds(pairs, Shown(printed[1].fields))
  BY <1>2, Zenon DEF PairsPrinted
<1>4. ps \in Texted
  BY <1>1, ParagraphsTyped
<1>5. parseDetailRecords(lines) = NonEmpty([i \in DOMAIN ps |-> extractFields(ps[i])])
  BY <1>3, Zenon DEF parseDetailRecords
<1> HIDE DEF ps, pairs
<1>6. ps \in Seq(Seq(Tokens)) /\ DOMAIN ps = 1..1 /\ ps[1] \in Seq(Tokens)
  BY <1>3, <1>4 DEF Texted
<1>7. extractFields(ps[1]) = NoFields
  BY <1>3, <1>6, ExtractKeyless
<1>8. [i \in DOMAIN ps |-> extractFields(ps[i])] = <<NoFields>>
  <2> DEFINE x == NoFields
             g == [i \in DOMAIN ps |-> extractFields(ps[i])]
  <2>1. g = [i \in 1..1 |-> x]
    BY <1>6, <1>7
  <2> HIDE DEF x, g
  <2>2. [i \in 1..1 |-> x] = <<x>>
    OBVIOUS
  <2> QED
    BY <2>1, <2>2 DEF x, g
<1>9. parseDetailRecords(lines) = <<>>
  BY <1>5, <1>8, NonEmptyNothing, Zenon
<1>10. query(lines) = NonEmpty(<<pairs>>)
  BY <1>9, Zenon DEF query, pairs
<1> DEFINE count == shape \in {"detail", "table"}
           n == Len(printed)
           all == [i \in 1..n |-> Meant(printed[i], count, Whole)]
<1>11. MeantAll(Whole) = NonEmpty(all)
  BY <1>1, MeantAllIs
<1>12. count = FALSE
  OBVIOUS
<1> HIDE DEF count
<1>13. CASE printed = <<>>
  <2>1. n = 0
    BY <1>13
  <2>2. all = <<>>
    BY <2>1
  <2> QED
    BY <1>3, <1>10, <1>11, <1>13, <2>2, NonEmptyNothing, Zenon
<1>14. CASE printed # <<>>
  <2>1. n = 1 /\ Holds(pairs, Shown(printed[1].fields))
    BY <1>3, <1>14
  <2>2. pairs = Meant(printed[1], count, Whole)
    BY <1>12, <2>1, HoldsMeant
  <2>3. all = [i \in 1..1 |-> pairs]
    BY <2>1, <2>2
  <2>4. [i \in 1..1 |-> pairs] = <<pairs>>
    OBVIOUS
  <2> QED
    BY <1>10, <1>11, <2>3, <2>4, Zenon
<1> QED
  BY <1>13, <1>14

\* The rows stand behind the heading.
LEMMA RowsAre ==
  ASSUME ReadInv, shape = "table"
  PROVE  parseTabularRecords(lines)
           = NonEmpty([i \in 1..Len(printed) |-> ReadRow(lines[i + 4], flagMap(lines))])
<1> DEFINE n == Len(printed)
           heads == {i \in DOMAIN lines : lines[i].kind = "head"}
           first == CHOOSE i \in heads : \A j \in heads : i <= j
           below == SubSeq(lines, first + 1, Len(lines))
           I == {i \in DOMAIN below : Starts(below[i])}
           rows == Kept(below, I)
<1>1. lines \in Seq(Lines) /\ printed \in Seq(Records)
  BY DEF ReadInv, LinesFit, ParsersTypeOK
<1>2. /\ Len(lines) = n + 4
      /\ \A i \in 1..3 : lines[i].kind # "head"
      /\ lines[4].kind = "head"
      /\ printed # <<>> => Columns # <<>>
      /\ \A i \in 1..n : ARow(lines[i + 4], printed[i])
  BY Zenon DEF ReadInv, TextSays, TablePrinted
<1>3. parseTabularRecords(lines)
        = IF heads = {} THEN <<>>
          ELSE NonEmpty([i \in DOMAIN rows |-> ReadRow(rows[i], flagMap(lines))])
  BY Zenon DEF parseTabularRecords
<1>4. n \in Nat /\ (printed = <<>> <=> n = 0)
  BY <1>1
<1>5. \A i \in 1..n : lines[i + 4].kind = "text" /\ Starts(lines[i + 4])
  <2> TAKE i \in 1..n
  <2>1. Columns # <<>>
    BY <1>2, <1>4
  <2>2. PICK w \in DOMAIN Letters \cup {Nothing}, cells \in AllCells :
           lines[i + 4] = RowLine(w, cells)
    BY <1>2, Zenon DEF ARow
  <2> QED
    BY <2>1, <2>2, RowStarts, RowLineTyped
<1>6. 4 \in heads /\ \A j \in heads : 4 <= j
  BY <1>1, <1>2, <1>4
<1>7. heads \subseteq Nat
  BY <1>1
<1> HIDE DEF heads
<1>8. first = 4
  BY <1>6, <1>7, LeastIs
<1> HIDE DEF first
<1>9. /\ below \in Seq(Lines) /\ Len(below) = n
      /\ \A i \in 1..n : below[i] = lines[i + 4]
  BY <1>1, <1>2, <1>4, <1>8
<1> HIDE DEF below
<1>10. 1..Len(below) \subseteq I
  BY <1>5, <1>9
<1> HIDE DEF I
<1>11. rows = below
  BY <1>9, <1>10, KeptAll
<1> HIDE DEF rows
<1>12. DOMAIN rows = 1..n /\ \A i \in 1..n : rows[i] = lines[i + 4]
  BY <1>9, <1>11
<1>13. [i \in DOMAIN rows |-> ReadRow(rows[i], flagMap(lines))]
         = [i \in 1..n |-> ReadRow(lines[i + 4], flagMap(lines))]
  BY <1>12, Zenon
<1>14. heads # {}
  BY <1>6
<1> QED
  BY <1>3, <1>13, <1>14, Zenon

\* Each row is read as its record is meant.
LEMMA RowsMeant ==
  ASSUME ReadInv, shape = "table", NEW i \in 1..Len(printed)
  PROVE  \E obj : /\ Holds(obj, Shown(printed[i].fields))
                  /\ ReadRow(lines[i + 4], flagMap(lines))
                       = WithFlags(obj, printed[i].flags, flagMap(lines))
<1>1. printed \in Seq(Records)
  BY DEF ReadInv, LinesFit, ParsersTypeOK
<1>2. /\ printed # <<>> => Columns # <<>>
      /\ \A j \in 1..Len(printed) : ARow(lines[j + 4], printed[j])
  BY Zenon DEF ReadInv, TextSays, TablePrinted
<1>3. printed # <<>>
  BY <1>1
<1>4. Columns # <<>>
  BY <1>2, <1>3
<1>5. PICK w \in DOMAIN Letters \cup {Nothing}, cells \in AllCells :
         lines[i + 4] = RowLine(w, cells) /\ printed[i] = RowRecord(w, cells)
  BY <1>2, Zenon DEF ARow
<1>6. RowRecord(w, cells).flags = FlagsIn(w)
  BY DEF RowRecord
<1>7. \E obj : /\ Holds(obj, RowRecord(w, cells).fields)
               /\ ReadRow(RowLine(w, cells), flagMap(lines))
                    = WithFlags(obj, FlagsIn(w), flagMap(lines))
  BY <1>4, RowRead
<1>8. Shown(RowRecord(w, cells).fields) = RowRecord(w, cells).fields
  BY DEF Shown, RowRecord
<1> QED
  BY <1>5, <1>6, <1>7, <1>8, Zenon

\* A table is read as it is meant.
LEMMA TableRight ==
  ASSUME ReadInv, shape = "table"
  PROVE  parseTabularRecords(lines) = MeantAll(Whole)
<1> DEFINE n == Len(printed)
           count == shape \in {"detail", "table"}
           all == [i \in 1..n |-> Meant(printed[i], count, Whole)]
<1>1. MeantAll(Whole) = NonEmpty(all)
  BY MeantAllIs DEF ReadInv, LinesFit, ParsersTypeOK
<1>2. count = TRUE
  OBVIOUS
<1> HIDE DEF count
<1>3. ASSUME NEW i \in 1..n
      PROVE  ReadRow(lines[i + 4], flagMap(lines)) = Meant(printed[i], count, Whole)
  <2>1. PICK obj : /\ Holds(obj, Shown(printed[i].fields))
                   /\ ReadRow(lines[i + 4], flagMap(lines))
                        = WithFlags(obj, printed[i].flags, flagMap(lines))
    BY RowsMeant
  <2>2. WithFlags(obj, printed[i].flags, flagMap(lines)) = Meant(printed[i], TRUE, Whole)
    BY <2>1, HoldsMeant
  <2> QED
    BY <1>2, <2>1, <2>2
<1>4. [i \in 1..n |-> ReadRow(lines[i + 4], flagMap(lines))] = all
  BY <1>3, Zenon
<1> QED
  BY <1>1, <1>4, RowsAre, Zenon

\* Records in detail are read as they are meant, up to the blanks in values.
LEMMA DetailRight ==
  ASSUME ReadInv, shape = "detail"
  PROVE  Plainly(lines) /\ parseDetailRecords(lines) = MeantAll(UpToBlank)
<1> DEFINE n == Len(printed)
           count == shape \in {"detail", "table"}
           all == [i \in 1..n |-> Meant(printed[i], count, UpToBlank)]
<1>1. MeantAll(UpToBlank) = NonEmpty(all)
  BY MeantAllIs DEF ReadInv, LinesFit, ParsersTypeOK
<1>2. DetailPrinted
  BY DEF ReadInv, TextSays
<1>3. /\ Plainly(lines)
      /\ \A i \in 1..n : Reports(Blocks(lines)[i].tokens, printed[i].fields)
  BY <1>2, Zenon DEF DetailPrinted
<1>4. count = TRUE
  OBVIOUS
<1> HIDE DEF count
<1>5. ASSUME NEW i \in 1..n
      PROVE  ReadBlock(i) = Meant(printed[i], count, UpToBlank)
  <2>1. /\ Reads(extractFields(Blocks(lines)[i].tokens), printed[i].fields)
        /\ printed[i].fields \subseteq Fields
    BY <1>3, Zenon DEF Reports
  <2> QED
    BY <1>4, <2>1, ReadsMeant DEF ReadBlock
<1>6. [i \in 1..n |-> ReadBlock(i)] = all
  BY <1>5, Zenon
<1> QED
  BY <1>1, <1>3, <1>6, DetailIs, Zenon

\* The same of records without an index.
LEMMA FlaggedRight ==
  ASSUME ReadInv, shape = "flagged"
  PROVE  Plainly(lines) /\ parseDetailRecords(lines) = MeantAll(UpToBlank)
<1> DEFINE n == Len(printed)
           count == shape \in {"detail", "table"}
           all == [i \in 1..n |-> Meant(printed[i], count, UpToBlank)]
           R(i) == extractFields(Paragraphs(lines, Headings)[i])
<1>1. MeantAll(UpToBlank) = NonEmpty(all)
  BY MeantAllIs DEF ReadInv, LinesFit, ParsersTypeOK
<1>2. FlaggedPrinted
  BY DEF ReadInv, TextSays
<1>3. /\ Plainly(lines)
      /\ \A i \in 1..n : Reports(Paragraphs(lines, Headings)[i], printed[i].fields)
  BY <1>2, Zenon DEF FlaggedPrinted
<1>4. parseDetailRecords(lines) = NonEmpty([i \in 1..n |-> R(i)])
  BY FlaggedIs
<1>5. count = FALSE
  OBVIOUS
<1> HIDE DEF count
<1>6. ASSUME NEW i \in 1..n
      PROVE  R(i) = Meant(printed[i], count, UpToBlank)
  <2>1. Reads(R(i), printed[i].fields) /\ printed[i].fields \subseteq Fields
    BY <1>3, Zenon DEF Reports
  <2> QED
    BY <1>5, <2>1, ReadsMeant
<1> HIDE DEF R
<1>7. [i \in 1..n |-> R(i)] = all
  BY <1>6, Zenon
<1> QED
  BY <1>1, <1>3, <1>4, <1>7, Zenon

LEMMA RecordsRight == ReadInv => RecordsAreRead
<1> SUFFICES ASSUME ReadInv
             PROVE  /\ reader = "query" /\ shape \in {"detail", "flagged"} =>
                          result = MeantAll(UpToBlank)
                    /\ reader = "query" /\ shape = "pairs" /\ Keyless(lines) =>
                          result = MeantAll(Whole)
                    /\ reader = "table" => result = MeantAll(Whole)
  BY Zenon DEF RecordsAreRead, Keyless
<1>1. lines \in Seq(Lines)
  BY DEF ReadInv, LinesFit, ParsersTypeOK
<1>2. /\ reader = "query" => result = query(lines)
      /\ reader = "table" => shape = "table" /\ result = parseTabularRecords(lines)
  BY Zenon DEF ReadInv, Held
<1>3. ASSUME reader = "table" PROVE result = MeantAll(Whole)
  BY <1>2, <1>3, TableRight
<1>4. ASSUME reader = "query", shape = "pairs", Keyless(lines)
      PROVE  result = MeantAll(Whole)
  BY <1>2, <1>4, PairsRead
<1>5. ASSUME reader = "query", shape \in {"detail", "flagged"}
      PROVE  result = MeantAll(UpToBlank)
  <2>1. Plainly(lines) /\ parseDetailRecords(lines) = MeantAll(UpToBlank)
    BY <1>5, DetailRight, FlaggedRight
  <2> QED
    BY <1>1, <1>2, <1>5, <2>1, QueryPlain
<1> QED
  BY <1>3, <1>4, <1>5

(* query (parseDetailRecords, or parseKeyValue behind it) and, of a table,
   parseTabularRecords return what was printed, in any order of records,
   fields, line breaks and blank lines, whatever is quoted: in detail a value
   without quotes up to its first blank, and nothing of it anywhere else.  Of
   pairs this is so where no value holds a word with =. *)
THEOREM RecordsAlwaysRead == ParsersSpec => []RecordsAreRead
  BY RecordsRight, ReadInvInit, ReadInvNext, PTL DEF ParsersSpec

=============================================================================
