----------------------------- MODULE ToolsProofs -----------------------------
(***************************************************************************)
(* Theorems about RestCall and about Tools, that is about the REST         *)
(* transport and the real tables of tools over it, for any number of       *)
(* calls, any requests, time-out, durations and cap.                       *)
(***************************************************************************)
EXTENDS Tools, TLAPS

-----------------------------------------------------------------------------
(* The transport, whoever calls it.                                        *)

(* How the parts of a call go together. *)
Linked(c) ==
    /\ pc[c] = "idle" => elapsed[c] = 0 /\ device[c] = "idle"
    /\ c \in armed <=> pc[c] = "fetch"
    /\ c \in armed => elapsed[c] <= Timeout
    /\ pc[c] = "body" => device[c] = "done"
    /\ pc[c] = "settled" /\ outcome[c] = "data" => device[c] = "done"

Inv == TypeOK /\ \A c \in Calls : Linked(c)

LEMMA MethodsAreMethods == ASSUME NEW r \in Shapes PROVE MethodOf(r) \in Methods
BY DEF Shapes, MethodOf, inferMethod, Methods

LEMMA InitInv == Init => Inv
BY RestAssumption DEF Init, Inv, TypeOK, Linked, Open, Outcomes

(* Sending a request, whoever asks for it. *)
LEMMA SendInv ==
    ASSUME Inv, NEW c \in Calls, NEW r \in Shapes, NEW d \in -1..Longest,
           Send(c, r, d)
    PROVE  Inv'
<1> USE RestAssumption DEF Inv, Send, WithTimer
<1>1. TypeOK'
  BY MethodsAreMethods DEF TypeOK, Open
<1>2. ASSUME NEW e \in Calls PROVE Linked(e)'
  BY DEF TypeOK, Linked
<1> QED
  BY <1>1, <1>2

(* What happens to a call that was sent. *)
LEMMA StepInv == ASSUME Inv, NEW c \in Calls, Step(c) PROVE Inv'
<1> USE RestAssumption DEF Inv, TypeOK, Linked, asked, Open, Outcomes, Settle,
                           Cleared
<1>1. CASE Tick(c)
  BY <1>1 DEF Tick, Due
<1>2. CASE DeviceActs(c)
  BY <1>2 DEF DeviceActs
<1>3. CASE HeadersArrive(c)
  BY <1>3 DEF HeadersArrive, AfterHeaders
<1>4. CASE FetchFails(c)
  BY <1>4 DEF FetchFails
<1>5. CASE TimerFires(c)
  BY <1>5 DEF TimerFires, Due
<1>6. CASE BodyEnds(c)
  BY <1>6 DEF BodyEnds
<1>7. CASE BodyBreaks(c)
  BY <1>7 DEF BodyBreaks
<1>8. CASE ErrorBodyEnds(c)
  BY <1>8 DEF ErrorBodyEnds
<1> QED
  BY <1>1, <1>2, <1>3, <1>4, <1>5, <1>6, <1>7, <1>8 DEF Step

LEMMA StutterInv == Inv /\ UNCHANGED vars => Inv'
BY DEF Inv, vars, TypeOK, Linked

LEMMA NextInv == Inv /\ [Next]_vars => Inv'
<1> SUFFICES ASSUME Inv, [Next]_vars PROVE Inv'
  OBVIOUS
<1>1. ASSUME NEW c \in Calls, SendAny(c) PROVE Inv'
  <2>1. PICK r \in Requests, d \in 0..Longest : Send(c, r, d)
    BY <1>1 DEF SendAny
  <2>2. r \in Shapes /\ d \in -1..Longest
    BY RestAssumption
  <2> QED
    BY <2>1, <2>2, SendInv
<1> QED
  BY <1>1, StepInv, StutterInv DEF Next

LEMMA Invariant == Spec => []Inv
BY InitInv, NextInv, PTL DEF Spec

LEMMA InvCoversWait == Inv => TimerCoversWait
BY DEF Inv, TypeOK, Linked, TimerCoversWait

(* The timer of a request runs exactly as long as the wait for its device, and
   no wait outlasts it, for any number of requests (request, finally). *)
THEOREM TimersAreKept == Spec => []TimerCoversWait
BY InvCoversWait, Invariant, PTL

-----------------------------------------------------------------------------
(* The step of a call as its caller and its device see it. *)
Seen(c) ==
    \/ /\ pc'[c] = pc[c] \/ (pc[c] \in Open /\ pc'[c] \in Open)
       /\ outcome'[c] = outcome[c] /\ device'[c] = device[c]
    \/ /\ pc[c] = "idle" /\ pc'[c] \in Open
       /\ device'[c] = device[c]
    \/ /\ pc[c] \in Open /\ pc'[c] = "settled" /\ outcome'[c] # "data"
       /\ device'[c] = device[c]
    \/ /\ pc[c] \in Open /\ pc'[c] = "settled" /\ outcome'[c] = "data"
       /\ device[c] = "done" /\ device'[c] = device[c]
    \/ /\ pc'[c] = pc[c] /\ pc[c] # "idle" /\ outcome'[c] = outcome[c]
       /\ device[c] = "idle"

(* The step leaves all other calls alone. *)
OnlyOf(c) ==
    \A d \in Calls : d # c =>
        pc'[d] = pc[d] /\ outcome'[d] = outcome[d] /\ device'[d] = device[d]

LEMMA SendSeen ==
    ASSUME Inv, NEW c \in Calls, NEW r, NEW d, Send(c, r, d)
    PROVE  Seen(c) /\ OnlyOf(c)
BY DEF Inv, TypeOK, Send, Seen, OnlyOf, Open

LEMMA StepSeen ==
    ASSUME Inv, NEW c \in Calls, Step(c) PROVE Seen(c) /\ OnlyOf(c)
<1> USE DEF Inv, TypeOK, Linked, asked, Open, Outcomes, Settle, Seen, OnlyOf
<1>1. CASE Tick(c)
  BY <1>1 DEF Tick
<1>2. CASE DeviceActs(c)
  BY <1>2 DEF DeviceActs
<1>3. CASE HeadersArrive(c)
  BY <1>3 DEF HeadersArrive, AfterHeaders
<1>4. CASE FetchFails(c)
  BY <1>4 DEF FetchFails
<1>5. CASE TimerFires(c)
  BY <1>5 DEF TimerFires
<1>6. CASE BodyEnds(c)
  BY <1>6 DEF BodyEnds
<1>7. CASE BodyBreaks(c)
  BY <1>7 DEF BodyBreaks
<1>8. CASE ErrorBodyEnds(c)
  BY <1>8 DEF ErrorBodyEnds
<1> QED
  BY <1>1, <1>2, <1>3, <1>4, <1>5, <1>6, <1>7, <1>8 DEF Step

(* Every such step is a step of DeviceCall or none. *)
LEMMA SeenSimulates ==
    ASSUME NEW c \in Calls, Seen(c), OnlyOf(c)
    PROVE  [Promised!Next]_(Promised!vars)
<1> DEFINE T == [d \in Calls |-> Told(d)]
           D == {d \in Calls : device[d] = "done"}
<1>1. \A d \in Calls : d # c => Told(d)' = Told(d)
  BY DEF OnlyOf, Told
<1>2. T' = [T EXCEPT ![c] = Told(c)']
  BY <1>1
<1>3. Told(c)' = Told(c) => T' = T
  BY <1>1
<1>4. device'[c] = device[c] => D' = D
  BY DEF OnlyOf
<1>5. CASE /\ pc'[c] = pc[c] \/ (pc[c] \in Open /\ pc'[c] \in Open)
           /\ outcome'[c] = outcome[c] /\ device'[c] = device[c]
  <2>1. Told(c)' = Told(c)
    BY <1>5 DEF Told, Open
  <2> QED
    BY <1>3, <1>4, <1>5, <2>1 DEF Promised!vars
<1>6. CASE /\ pc[c] = "idle" /\ pc'[c] \in Open
           /\ device'[c] = device[c]
  <2>1. Told(c) = "nothing" /\ Told(c)' = "waiting"
    BY <1>6 DEF Told, Open
  <2>2. Promised!Ask(c)
    BY <1>2, <1>4, <1>6, <2>1 DEF Promised!Ask
  <2> QED
    BY <2>2 DEF Promised!Next
<1>7. CASE /\ pc[c] \in Open /\ pc'[c] = "settled" /\ outcome'[c] # "data"
           /\ device'[c] = device[c]
  <2>1. Told(c) = "waiting" /\ Told(c)' = "error"
    BY <1>7 DEF Told, Open
  <2>2. Promised!TellError(c)
    BY <1>2, <1>4, <1>7, <2>1 DEF Promised!TellError
  <2> QED
    BY <2>2 DEF Promised!Next
<1>8. CASE /\ pc[c] \in Open /\ pc'[c] = "settled" /\ outcome'[c] = "data"
           /\ device[c] = "done" /\ device'[c] = device[c]
  <2>1. Told(c) = "waiting" /\ Told(c)' = "data"
    BY <1>8 DEF Told, Open
  <2>2. Promised!TellData(c)
    BY <1>2, <1>4, <1>8, <2>1 DEF Promised!TellData
  <2> QED
    BY <2>2 DEF Promised!Next
<1>9. CASE /\ pc'[c] = pc[c] /\ pc[c] # "idle" /\ outcome'[c] = outcome[c]
           /\ device[c] = "idle"
  <2>1. Told(c)' = Told(c) /\ Told(c) # "nothing"
    BY <1>9 DEF Told
  <2>2. CASE device'[c] = "done"
    <3>1. D' = D \cup {c}
      BY <2>2 DEF OnlyOf
    <3>2. Promised!CarryOut(c)
      BY <1>3, <2>1, <3>1 DEF Promised!CarryOut
    <3> QED
      BY <3>2 DEF Promised!Next
  <2>3. CASE device'[c] # "done"
    <3>1. D' = D
      BY <1>9, <2>3 DEF OnlyOf
    <3> QED
      BY <1>3, <2>1, <3>1 DEF Promised!vars
  <2> QED
    BY <2>2, <2>3
<1> QED
  BY <1>5, <1>6, <1>7, <1>8, <1>9 DEF Seen

LEMMA InitSimulates == Init => Promised!Init
<1>1. ASSUME Init, NEW c \in Calls PROVE Told(c) = "nothing" /\ device[c] # "done"
  BY <1>1 DEF Init, Told, Open
<1> QED
  BY <1>1 DEF Promised!Init

LEMMA StutterSimulates == UNCHANGED vars => UNCHANGED Promised!vars
BY DEF vars, Promised!vars, Told

(* query, execute and raw over REST keep the promise of the DeviceTransport
   interface: data is told only of a command the device has carried out. *)
THEOREM KeepsThePromise == Spec => ImplementsDeviceCall
<1>1. ASSUME Inv, [Next]_vars PROVE [Promised!Next]_(Promised!vars)
  <2>1. CASE UNCHANGED vars
    BY <2>1, StutterSimulates
  <2>2. ASSUME NEW c \in Calls, SendAny(c) \/ Step(c)
        PROVE  [Promised!Next]_(Promised!vars)
    <3>1. Seen(c) /\ OnlyOf(c)
      BY <1>1, <2>2, SendSeen, StepSeen DEF SendAny
    <3> QED
      BY <3>1, SeenSimulates
  <2> QED
    BY <1>1, <2>1, <2>2 DEF Next
<1> QED
  BY <1>1, InitSimulates, Invariant, PTL
  DEF Spec, ImplementsDeviceCall, Promised!Spec

-----------------------------------------------------------------------------
(* The tools.                                                              *)

(* The tools that a cap on durations is for, and those that do more than
   ask. *)
CappedNames ==
    {"tools-bandwidth-test", "tools-torch", "tools-packet-sniffer",
     "tools-profile", "tools-mac-scan", "tools-ip-scan"}

(* What the tables say of a tool. *)
InOrder(t) ==
    /\ t.sends \subseteq Shapes
    /\ t.name \in READ_ONLY_TOOLS => t.sends \subseteq {Ask}
    /\ t.capped <=> t.name \in CappedNames

LEMMA ShapesOfRequests == {Ask, Run, Start, Post} \subseteq Shapes
BY DEF Ask, Run, Start, Post, Shape, Shapes

LEMMA ToolFields ==
    ASSUME NEW S, NEW p, NEW N, NEW t \in Tool(S, p, N)
    PROVE  t.sends = S /\ t.capped = p /\ t.name \in N
BY DEF Tool

LEMMA AskingInOrder ==
    ASSUME NEW N, N \cap CappedNames = {}, NEW t \in Asking(N)
    PROVE  InOrder(t)
<1>1. t.sends = {Ask} /\ t.capped = FALSE /\ t.name \in N
  BY ToolFields DEF Asking
<1> QED
  BY <1>1, ShapesOfRequests DEF InOrder

LEMMA RunningInOrder ==
    ASSUME NEW N, N \cap CappedNames = {}, N \cap READ_ONLY_TOOLS = {},
           NEW S, S \subseteq {Ask, Run, Start, Post},
           NEW t \in Tool(S, FALSE, N)
    PROVE  InOrder(t)
<1>1. t.sends = S /\ t.capped = FALSE /\ t.name \in N
  BY ToolFields
<1> QED
  BY <1>1, ShapesOfRequests DEF InOrder

LEMMA MeasuringInOrder ==
    ASSUME NEW N, N \subseteq CappedNames, NEW t \in Measuring(N)
    PROVE  InOrder(t)
<1>1. t.sends = {Run} /\ t.capped = TRUE /\ t.name \in N
  BY ToolFields DEF Measuring
<1>2. CappedNames \cap READ_ONLY_TOOLS = {}
  BY DEF CappedNames, READ_ONLY_TOOLS
<1> QED
  BY <1>1, <1>2, ShapesOfRequests DEF InOrder

(* The tables are in order, section by section. *)
LEMMA TablesInOrder == ASSUME NEW t \in AllTools PROVE InOrder(t)
<1>1. CASE t \in ServerTools
  <2>1. {"device-list", "ros-command"} \cap CappedNames = {}
    BY DEF CappedNames
  <2>2. t.sends = {} /\ t.capped = FALSE /\ t.name \in {"device-list", "ros-command"}
    BY <1>1, ToolFields DEF ServerTools
  <2> QED
    BY <2>1, <2>2 DEF InOrder
<1>2. CASE t \in SystemTools
  BY <1>2, AskingInOrder DEF SystemTools, CappedNames
<1>3. CASE t \in HealthTools
  BY <1>3, AskingInOrder DEF HealthTools, CappedNames
<1>4. CASE t \in PackageTools
  BY <1>4, AskingInOrder DEF PackageTools, CappedNames
<1>5. CASE t \in NoteTools
  BY <1>5, AskingInOrder DEF NoteTools, CappedNames
<1>6. CASE t \in LogTools
  BY <1>6, AskingInOrder DEF LogTools, CappedNames
<1>7. CASE t \in CertificateTools
  BY <1>7, AskingInOrder DEF CertificateTools, CappedNames
<1>8. CASE t \in InterfaceTools
  BY <1>8, AskingInOrder DEF InterfaceTools, CappedNames
<1>9. CASE t \in BridgeTools
  BY <1>9, AskingInOrder DEF BridgeTools, CappedNames
<1>10. CASE t \in IpTools
  BY <1>10, AskingInOrder DEF IpTools, CappedNames
<1>11. CASE t \in FirewallTools
  BY <1>11, AskingInOrder DEF FirewallTools, CappedNames
<1>12. CASE t \in DhcpDnsTools
  BY <1>12, AskingInOrder DEF DhcpDnsTools, CappedNames
<1>13. CASE t \in PppUserTools
  BY <1>13, AskingInOrder DEF PppUserTools, CappedNames
<1>14. CASE t \in AdminTools
  BY <1>14, AskingInOrder DEF AdminTools, CappedNames
<1>15. CASE t \in DiagnosticTools
  <2>1. CASE t \in Probes
    BY <2>1, RunningInOrder DEF Probes, Running, CappedNames, READ_ONLY_TOOLS
  <2>2. CASE t \in Measurements
    BY <2>2, MeasuringInOrder DEF Measurements, CappedNames
  <2>3. CASE t \in Netwatch
    BY <2>3, AskingInOrder DEF Netwatch, CappedNames
  <2>4. CASE t \in Running({"tools-fetch", "tools-wol"})
    BY <2>4, RunningInOrder DEF Running, CappedNames, READ_ONLY_TOOLS
  <2>5. CASE t \in Tool({Start}, FALSE, {"tools-speed-test"})
    BY <2>5, RunningInOrder DEF CappedNames, READ_ONLY_TOOLS
  <2>6. CASE t \in Scans
    BY <2>6, MeasuringInOrder DEF Scans, CappedNames
  <2>7. CASE t \in TrafficGenerator
    BY <2>7, RunningInOrder
    DEF TrafficGenerator, Running, CappedNames, READ_ONLY_TOOLS
  <2> QED
    BY <1>15, <2>1, <2>2, <2>3, <2>4, <2>5, <2>6, <2>7
    DEF DiagnosticTools, Errands
<1>16. CASE t \in SetupTools(TRUE)
  BY <1>16, RunningInOrder DEF SetupTools, CappedNames, READ_ONLY_TOOLS
<1> QED
  BY <1>1, <1>2, <1>3, <1>4, <1>5, <1>6, <1>7, <1>8, <1>9, <1>10, <1>11,
     <1>12, <1>13, <1>14, <1>15, <1>16
  DEF AllTools, SectionTools

LEMMA OfferedInOrder == ASSUME NEW t \in Offered PROVE t \in AllTools /\ InOrder(t)
<1>1. t \in AllTools
  BY DEF Offered, Registered, AllTools, SectionTools, SetupTools
<1> QED
  BY <1>1, TablesInOrder

-----------------------------------------------------------------------------
(* The inductive invariant. *)

Typed ==
    /\ Inv
    /\ tool \in [Calls -> Names(AllTools) \cup {None}]

Capped(c) == tool[c] \in CappedNames => duration[c] <= MaxDuration

TimeIsUp(c) ==
    /\ pc[c] # "settled" => outcome[c] = "none"
    /\ outcome[c] = "timeout" => elapsed[c] >= Timeout

ToolsInv ==
    /\ Typed
    /\ ReadOnlyChangesNothing
    /\ \A c \in Calls : Capped(c) /\ TimeIsUp(c)

LEMMA NoneIsNotCapped == None \notin CappedNames
<1>1. ASSUME NEW N, NEW n \in N PROVE n \in Names(Measuring(N))
  <2>1. [name |-> n, sends |-> {Run}, capped |-> TRUE] \in Measuring(N)
    BY DEF Measuring, Tool
  <2> QED
    BY <2>1 DEF Names
<1>2. Measurements \subseteq AllTools /\ Scans \subseteq AllTools
  BY DEF AllTools, SectionTools, DiagnosticTools
<1>3. Names(Measurements) \cup Names(Scans) \subseteq Names(AllTools)
  BY <1>2 DEF Names
<1>4. CappedNames \subseteq Names(Measurements) \cup Names(Scans)
  BY <1>1 DEF CappedNames, Measurements, Scans
<1> QED
  BY <1>3, <1>4, NoneIsNoTool

LEMMA ToolsInitInv == ToolsInit => ToolsInv
<1> SUFFICES ASSUME ToolsInit PROVE ToolsInv
  OBVIOUS
<1>1. Typed
  BY InitInv DEF ToolsInit, Typed
<1> QED
  BY <1>1, NoneIsNotCapped
  DEF ToolsInit, Init, ToolsInv, ReadOnlyChangesNothing, Capped,
                    TimeIsUp

LEMMA ClampedFits ==
    ASSUME NEW d \in {NaN} \cup -1..Longest
    PROVE  clampDuration(d) \in -1..Longest /\ clampDuration(d) <= MaxDuration
BY ToolsAssumption, RestAssumption DEF clampDuration

(* A call of a tool, by the tool that makes it and what it sends. *)
LEMMA CallToolInv ==
    ASSUME ToolsInv, NEW c \in Calls, CallTool(c) PROVE ToolsInv'
<1>1. PICK t \in Offered, d \in {NaN} \cup -1..Longest :
         /\ \E r \in t.sends, l \in Lengths(t, d) : Send(c, r, l)
         /\ tool' = [tool EXCEPT ![c] = t.name]
  BY DEF CallTool
<1>2. PICK r \in t.sends, l \in Lengths(t, d) : Send(c, r, l)
  BY <1>1
<1>3. t \in AllTools /\ InOrder(t) /\ Exposed(t)
  BY OfferedInOrder DEF Offered
<1>4. l \in -1..Longest /\ (t.name \in CappedNames => l <= MaxDuration)
  <2>1. CASE t.capped
    BY <2>1, ClampedFits DEF Lengths
  <2>2. CASE ~t.capped
    BY <1>3, <2>2, RestAssumption DEF Lengths, InOrder
  <2> QED
    BY <2>1, <2>2
<1>5. Typed'
  <2>1. Inv'
    BY <1>2, <1>3, <1>4, SendInv DEF ToolsInv, Typed, InOrder
  <2> QED
    BY <1>1, <1>3, <2>1 DEF ToolsInv, Typed, Names
<1>6. ReadOnlyChangesNothing'
  <2>1. readOnly => MethodOf(r) = "GET"
    BY <1>3 DEF Exposed, InOrder, Ask, Shape, MethodOf
  <2>2. sent' = [sent EXCEPT ![c] = MethodOf(r)] /\ UNCHANGED <<readOnly, shell>>
    BY <1>2 DEF Send, CallTool, server
  <2>3. sent \in [Calls -> Methods \cup {"none"}]
    BY DEF ToolsInv, Typed, Inv, TypeOK
  <2> QED
    BY <1>1, <2>1, <2>2, <2>3 DEF ToolsInv, Typed, ReadOnlyChangesNothing
<1>7. ASSUME NEW e \in Calls PROVE Capped(e)' /\ TimeIsUp(e)'
  <2>1. /\ duration' = [duration EXCEPT ![c] = l]
        /\ pc[c] = "idle" /\ pc' = [pc EXCEPT ![c] = "fetch"]
        /\ UNCHANGED <<elapsed, outcome>>
    BY <1>2 DEF Send
  <2>2. duration \in [Calls -> -1..Longest] /\ pc \in [Calls -> Open \cup {"idle", "settled"}]
    BY DEF ToolsInv, Typed, Inv, TypeOK
  <2>3. Capped(e)'
    BY <1>1, <1>4, <2>1, <2>2 DEF ToolsInv, Typed, Capped
  <2>4. TimeIsUp(e)'
    BY <2>1, <2>2 DEF ToolsInv, TimeIsUp
  <2> QED
    BY <2>3, <2>4
<1> QED
  BY <1>5, <1>6, <1>7 DEF ToolsInv

LEMMA CallDirectlyInv ==
    ASSUME ToolsInv, NEW c \in Calls, CallDirectly(c) PROVE ToolsInv'
<1>1. PICK r \in Requests, l \in 0..Longest : Send(c, r, l)
  BY DEF CallDirectly, SendAny
<1>2. r \in Shapes /\ l \in -1..Longest
  BY RestAssumption
<1>3. Inv'
  BY <1>1, <1>2, SendInv DEF ToolsInv, Typed
<1>4. /\ tool[c] = None
      /\ UNCHANGED <<readOnly, tool, shell, elapsed, outcome>>
      /\ \A e \in Calls : e # c => sent'[e] = sent[e] /\ duration'[e] = duration[e]
                                   /\ pc'[e] = pc[e]
      /\ pc[c] = "idle"
  BY <1>1 DEF CallDirectly, Send, server, ToolsInv, Typed, Inv, TypeOK
<1>5. ASSUME NEW e \in Calls PROVE Capped(e)' /\ TimeIsUp(e)'
  BY <1>4, NoneIsNotCapped DEF ToolsInv, Capped, TimeIsUp
<1> QED
  BY <1>3, <1>4, <1>5 DEF ToolsInv, Typed, ReadOnlyChangesNothing

LEMMA CallShellInv ==
    ASSUME ToolsInv, NEW c \in Calls, CallShell(c) PROVE ToolsInv'
<1>1. ~readOnly /\ "ros-command" \in Names(AllTools)
  <2>1. PICK t \in Offered : t.name = "ros-command"
    BY DEF CallShell, Names
  <2>2. t \in AllTools /\ Exposed(t)
    BY <2>1, OfferedInOrder DEF Offered
  <2>3. "ros-command" \notin READ_ONLY_TOOLS
    BY DEF READ_ONLY_TOOLS
  <2> QED
    BY <2>1, <2>2, <2>3 DEF Exposed, Names
<1>2. /\ UNCHANGED <<vars, readOnly>>
      /\ tool' = [tool EXCEPT ![c] = "ros-command"]
  BY DEF CallShell, server
<1>3. Typed'
  BY <1>1, <1>2, StutterInv DEF ToolsInv, Typed
<1>4. ReadOnlyChangesNothing'
  BY <1>1, <1>2 DEF ReadOnlyChangesNothing
<1>5. ASSUME NEW e \in Calls PROVE Capped(e)' /\ TimeIsUp(e)'
  <2>1. "ros-command" \notin CappedNames
    BY DEF CappedNames
  <2> QED
    BY <1>2, <2>1 DEF ToolsInv, Typed, Capped, TimeIsUp, vars
<1> QED
  BY <1>3, <1>4, <1>5 DEF ToolsInv

(* What a call that was sent meets with changes neither what it sent nor who
   made it. *)
LEMMA StepToolsInv ==
    ASSUME ToolsInv, NEW c \in Calls, Step(c), UNCHANGED <<server, tool, shell>>
    PROVE  ToolsInv'
<1>1. Inv'
  BY StepInv DEF ToolsInv, Typed
<1>2. UNCHANGED <<sent, duration, readOnly, tool, shell>>
  BY DEF Step, Tick, DeviceActs, HeadersArrive, FetchFails, TimerFires,
         BodyEnds, BodyBreaks, ErrorBodyEnds, asked, server
<1>3. ASSUME NEW e \in Calls PROVE TimeIsUp(e)'
  <2> USE RestAssumption DEF ToolsInv, Typed, Inv, TypeOK, Linked, Open,
                             TimeIsUp, Settle
  <2>1. CASE Tick(c)
    BY <2>1 DEF Tick
  <2>2. CASE DeviceActs(c)
    BY <2>2 DEF DeviceActs
  <2>3. CASE HeadersArrive(c)
    BY <2>3 DEF HeadersArrive, AfterHeaders
  <2>4. CASE FetchFails(c)
    BY <2>4 DEF FetchFails
  <2>5. CASE TimerFires(c)
    BY <2>5 DEF TimerFires, Due
  <2>6. CASE BodyEnds(c)
    BY <2>6 DEF BodyEnds
  <2>7. CASE BodyBreaks(c)
    BY <2>7 DEF BodyBreaks
  <2>8. CASE ErrorBodyEnds(c)
    BY <2>8 DEF ErrorBodyEnds
  <2> QED
    BY <2>1, <2>2, <2>3, <2>4, <2>5, <2>6, <2>7, <2>8 DEF Step
<1> QED
  BY <1>1, <1>2, <1>3 DEF ToolsInv, Typed, ReadOnlyChangesNothing, Capped

LEMMA ToolsStutterInv ==
    ToolsInv /\ UNCHANGED <<readOnly, tool, shell, vars>> => ToolsInv'
BY StutterInv
DEF ToolsInv, Typed, ReadOnlyChangesNothing, Capped, TimeIsUp, vars

LEMMA ToolsNextInv == ToolsInv /\ [ToolsNext]_toolVars => ToolsInv'
<1> SUFFICES ASSUME ToolsInv, [ToolsNext]_toolVars PROVE ToolsInv'
  OBVIOUS
<1>1. CASE CreateServer \/ NoteWithheld
  BY <1>1, ToolsStutterInv DEF CreateServer, NoteWithheld
<1>2. CASE UNCHANGED toolVars
  BY <1>2, ToolsStutterInv DEF toolVars, server
<1> QED
  BY <1>1, <1>2, CallToolInv, CallShellInv, CallDirectlyInv, StepToolsInv
  DEF ToolsNext

LEMMA ToolsInvariant == ToolsSpec => []ToolsInv
BY ToolsInitInv, ToolsNextInv, PTL DEF ToolsSpec

-----------------------------------------------------------------------------
(* With READ_ONLY no tool of the real tables makes a device change anything,
   however many calls are made and whatever the provider can do: the
   allow-list of server.ts, the handlers of all the sections and the method
   inferred from their requests agree. *)
THEOREM ReadOnlyIsReadOnly == ToolsSpec => []ReadOnlyChangesNothing
<1>1. ToolsInv => ReadOnlyChangesNothing
  BY DEF ToolsInv
<1> QED
  BY <1>1, ToolsInvariant, PTL

(* Whatever duration a caller asks for, and however much shorter the time-out
   is than MAX_REST_DURATION, a capped command that outlives its call keeps the
   device for no longer than the cap exceeds the time-out. *)
THEOREM CapsAreKept == ToolsSpec => []CappedCommandsEnd
<1>1. ToolsInv => CappedCommandsEnd
  <2> SUFFICES ASSUME ToolsInv, NEW c \in Calls, outcome[c] = "timeout",
                      NEW t \in AllTools, t.name = tool[c], t.capped
               PROVE  duration[c] - elapsed[c] <= MaxDuration - Timeout
    BY DEF CappedCommandsEnd, IsCapped
  <2>1. duration[c] <= MaxDuration
    BY TablesInOrder DEF InOrder, ToolsInv, Capped
  <2>2. elapsed[c] >= Timeout
    BY DEF ToolsInv, TimeIsUp
  <2>3. /\ elapsed[c] \in Int /\ duration[c] \in Int
        /\ Timeout \in Int /\ MaxDuration \in Int
    BY RestAssumption, ToolsAssumption DEF ToolsInv, Typed, Inv, TypeOK
  <2> QED
    BY <2>1, <2>2, <2>3
<1> QED
  BY <1>1, ToolsInvariant, PTL

(* The timer of every request a tool makes runs as long as the wait for its
   device. *)
THEOREM ToolTimersAreKept == ToolsSpec => []TimerCoversWait
<1>1. ToolsInv => TimerCoversWait
  BY InvCoversWait DEF ToolsInv, Typed
<1> QED
  BY <1>1, ToolsInvariant, PTL

(* What a tool is told of its devices is what DeviceTransport promises. *)
THEOREM ToolsKeepThePromise == ToolsSpec => ImplementsDeviceCall
<1>1. ToolsInit => Promised!Init
  BY InitSimulates DEF ToolsInit
<1>2. ASSUME ToolsInv, [ToolsNext]_toolVars
      PROVE  [Promised!Next]_(Promised!vars)
  <2>1. CASE UNCHANGED vars
    BY <2>1, StutterSimulates
  <2>2. ASSUME NEW c \in Calls, CallTool(c) \/ CallDirectly(c) \/ Step(c)
        PROVE  [Promised!Next]_(Promised!vars)
    <3>1. Seen(c) /\ OnlyOf(c)
      <4>1. CASE Step(c)
        BY <1>2, <4>1, StepSeen DEF ToolsInv, Typed
      <4>2. CASE CallDirectly(c)
        BY <1>2, <4>2, SendSeen DEF CallDirectly, SendAny, ToolsInv, Typed
      <4>3. CASE CallTool(c)
        BY <1>2, <4>3, SendSeen DEF CallTool, ToolsInv, Typed
      <4> QED
        BY <2>2, <4>1, <4>2, <4>3
    <3> QED
      BY <3>1, SeenSimulates
  <2> QED
    BY <1>2, <2>1, <2>2
    DEF ToolsNext, CreateServer, NoteWithheld, CallShell, toolVars
<1> QED
  BY <1>1, <1>2, ToolsInvariant, PTL
  DEF ToolsSpec, ImplementsDeviceCall, Promised!Spec

-----------------------------------------------------------------------------
(* The allow-list and the sections.                                       *)

(* The tools on the allow-list, as the sections register them. *)
LEMMA NamesOfTool == ASSUME NEW S, NEW p, NEW N PROVE Names(Tool(S, p, N)) = N
<1>1. ASSUME NEW n \in N PROVE n \in Names(Tool(S, p, N))
  <2>1. [name |-> n, sends |-> S, capped |-> p] \in Tool(S, p, N)
    BY DEF Tool
  <2> QED
    BY <2>1 DEF Names
<1> QED
  BY <1>1, ToolFields DEF Names

LEMMA NamesGrow == ASSUME NEW A, NEW B, A \subseteq B PROVE Names(A) \subseteq Names(B)
BY DEF Names

(* Every name of the allow-list is registered ... *)
LEMMA ListedAreRegistered == READ_ONLY_TOOLS \subseteq Names(Registered)
<1>1. {"device-list"} \subseteq Names(Registered)
  <2>1. Names(ServerTools) \subseteq Names(Registered)
    BY NamesGrow DEF Registered
  <2>2. Names(ServerTools) = {"device-list", "ros-command"}
    BY NamesOfTool DEF ServerTools
  <2> QED
    BY <2>1, <2>2
<1>2. ASSUME NEW N,
             Asking(N) \in {SystemTools, HealthTools, PackageTools, NoteTools,
                            LogTools, CertificateTools, InterfaceTools,
                            BridgeTools, IpTools, FirewallTools, DhcpDnsTools,
                            PppUserTools, AdminTools, Netwatch}
      PROVE  N \subseteq Names(Registered)
  <2>1. Asking(N) \subseteq Registered
    BY <1>2 DEF Registered, SectionTools, DiagnosticTools
  <2>2. Names(Asking(N)) \subseteq Names(Registered)
    BY <2>1, NamesGrow
  <2>3. Names(Asking(N)) = N
    BY NamesOfTool DEF Asking
  <2> QED
    BY <2>2, <2>3
<1>3. {"system-identity-get", "system-clock-get"} \subseteq Names(Registered)
  BY <1>2 DEF SystemTools
<1>4. {"system-health-get", "system-routerboot-get", "system-watchdog-get"}
         \subseteq Names(Registered)
  BY <1>2 DEF HealthTools
<1>5. {"system-packages-list", "system-history-get", "system-license-get"}
         \subseteq Names(Registered)
  BY <1>2 DEF PackageTools
<1>6. {"system-note-get", "system-lcd-get"} \subseteq Names(Registered)
  BY <1>2 DEF NoteTools
<1>7. {"log-get", "files-list"} \subseteq Names(Registered)
  BY <1>2 DEF LogTools
<1>8. {"system-certificates-list"} \subseteq Names(Registered)
  BY <1>2 DEF CertificateTools
<1>9. {"interface-list", "interface-stats", "interface-lists"}
         \subseteq Names(Registered)
  BY <1>2 DEF InterfaceTools
<1>10. {"bridge-list", "bridge-ports", "bridge-vlans", "bridge-hosts",
        "ip-neighbors"} \subseteq Names(Registered)
  BY <1>2 DEF BridgeTools
<1>11. {"ip-address-list", "ip-arp-list", "ip-routes-list", "ip-pool-list",
        "ip-settings-get"} \subseteq Names(Registered)
  BY <1>2 DEF IpTools
<1>12. {"firewall-filter-list", "firewall-nat-list", "firewall-mangle-list",
        "firewall-address-list", "firewall-connections-list",
        "ip-services-list", "radius-list"} \subseteq Names(Registered)
  BY <1>2 DEF FirewallTools
<1>13. {"dhcp-client-list", "dhcp-server-list", "dhcp-server-leases",
        "dhcp-server-networks", "dns-static-list", "dns-get"}
         \subseteq Names(Registered)
  BY <1>2 DEF DhcpDnsTools
<1>14. {"ppp-profiles-list", "ppp-secrets-list", "ppp-active-list",
        "system-users-list", "system-scheduler-list", "system-logging-list",
        "system-scripts-list", "ppp-aaa-get"} \subseteq Names(Registered)
  BY <1>2 DEF PppUserTools
<1>15. {"system-ntp-get", "system-snmp-get"} \subseteq Names(Registered)
  BY <1>2 DEF AdminTools
<1>16. {"tools-netwatch-list"} \subseteq Names(Registered)
  BY <1>2 DEF Netwatch
<1> QED
  BY <1>1, <1>3, <1>4, <1>5, <1>6, <1>7, <1>8, <1>9, <1>10, <1>11, <1>12,
     <1>13, <1>14, <1>15, <1>16 DEF READ_ONLY_TOOLS

LEMMA OnlyAskAsks ==
    {} # {Ask} /\ {Run} # {Ask} /\ {Start} # {Ask} /\ {Ask, Post} # {Ask}
<1>1. /\ Ask.operation = "query" /\ Run.operation = "execute"
      /\ Start.operation = "execute" /\ Post.operation = "execute"
  BY DEF Ask, Run, Start, Post, Shape
<1>2. Run # Ask /\ Start # Ask /\ Post # Ask
  BY <1>1
<1> QED
  BY <1>2

LEMMA AskingAreListed ==
    ASSUME NEW N, N \subseteq READ_ONLY_TOOLS, NEW t \in Asking(N)
    PROVE  t.name \in READ_ONLY_TOOLS
BY ToolFields DEF Asking

(* ... and every tool that only asks is on it, section by section. *)
LEMMA AskersAreListed ==
    ASSUME NEW t \in AllTools, t.sends = {Ask} PROVE t.name \in READ_ONLY_TOOLS
<1> USE AskingAreListed DEF READ_ONLY_TOOLS
<1>1. t \notin ServerTools
  <2>1. t \in ServerTools => t.sends = {}
    BY ToolFields DEF ServerTools
  <2> QED
    BY <2>1, OnlyAskAsks
<1>2. CASE t \in SystemTools
  BY <1>2 DEF SystemTools
<1>3. CASE t \in HealthTools
  BY <1>3 DEF HealthTools
<1>4. CASE t \in PackageTools
  BY <1>4 DEF PackageTools
<1>5. CASE t \in NoteTools
  BY <1>5 DEF NoteTools
<1>6. CASE t \in LogTools
  BY <1>6 DEF LogTools
<1>7. CASE t \in CertificateTools
  BY <1>7 DEF CertificateTools
<1>8. CASE t \in InterfaceTools
  BY <1>8 DEF InterfaceTools
<1>9. CASE t \in BridgeTools
  BY <1>9 DEF BridgeTools
<1>10. CASE t \in IpTools
  BY <1>10 DEF IpTools
<1>11. CASE t \in FirewallTools
  BY <1>11 DEF FirewallTools
<1>12. CASE t \in DhcpDnsTools
  BY <1>12 DEF DhcpDnsTools
<1>13. CASE t \in PppUserTools
  BY <1>13 DEF PppUserTools
<1>14. CASE t \in AdminTools
  BY <1>14 DEF AdminTools
<1>15. CASE t \in Netwatch
  BY <1>15 DEF Netwatch
<1>16. ASSUME NEW S \in {{Run}, {Start}, {Ask, Post}}, NEW p, NEW N,
              t \in Tool(S, p, N)
       PROVE  FALSE
  BY <1>16, ToolFields, OnlyAskAsks
<1> HIDE AskingAreListed DEF READ_ONLY_TOOLS
<1>17. /\ t \notin Probes /\ t \notin Measurements /\ t \notin Errands
       /\ t \notin Scans /\ t \notin TrafficGenerator
  <2>1. t \notin Probes /\ t \notin TrafficGenerator
    BY <1>16 DEF Probes, TrafficGenerator, Running
  <2>2. t \notin Measurements /\ t \notin Scans
    BY <1>16 DEF Measurements, Scans, Measuring
  <2>3. t \notin Errands
    BY <1>16 DEF Errands, Running
  <2> QED
    BY <2>1, <2>2, <2>3
<1>18. t \notin SetupTools(TRUE)
  BY <1>16 DEF SetupTools
<1>19. CASE t \in DiagnosticTools
  BY <1>15, <1>17, <1>19 DEF DiagnosticTools
<1> QED
  BY <1>1, <1>2, <1>3, <1>4, <1>5, <1>6, <1>7, <1>8, <1>9, <1>10, <1>11,
     <1>12, <1>13, <1>14, <1>18, <1>19
  DEF AllTools, SectionTools

LEMMA OfferedAreListed ==
    ASSUME readOnly, stage # "none" PROVE Names(Offered) = READ_ONLY_TOOLS
<1>1. Names(Offered) = Names(Registered) \cap READ_ONLY_TOOLS
  BY DEF Offered, Exposed, Names
<1> QED
  BY <1>1, ListedAreRegistered

(* The note is written once, from the tables. *)
NoteInv ==
    /\ stage \in {"none", "made", "told"}
    /\ stage = "told" => reported = Names(Registered) \ Names(Offered)

LEMMA NextNoteInv == NoteInv /\ [ToolsNext]_toolVars => NoteInv'
<1> SUFFICES ASSUME NoteInv, [ToolsNext]_toolVars PROVE NoteInv'
  OBVIOUS
<1>1. CASE UNCHANGED server
  <2>1. UNCHANGED <<Registered, Offered>>
    BY <1>1 DEF server, Registered, Offered, Exposed
  <2> QED
    BY <1>1, <2>1 DEF server, NoteInv
<1>2. CASE CreateServer
  BY <1>2 DEF CreateServer, NoteInv
<1>3. CASE NoteWithheld
  <2>1. UNCHANGED <<Registered, Offered>>
    BY <1>3 DEF NoteWithheld, Registered, Offered, Exposed
  <2> QED
    BY <1>3, <2>1 DEF NoteWithheld, NoteInv
<1> QED
  BY <1>1, <1>2, <1>3
  DEF ToolsNext, toolVars, CallTool, CallShell, CallDirectly

(* READ_ONLY_TOOLS and its message: whatever calls are made, a read-only
   server offers the tools of the list and no other, the list has every tool
   that only asks, and the note names exactly what is withheld. *)
THEOREM ListIsKeptInSync == ToolsSpec => []AllowListIsInSync
<1>1. ToolsInit => NoteInv
  BY DEF ToolsInit, NoteInv
<1>2. NoteInv => AllowListIsInSync
  BY OfferedAreListed, AskersAreListed DEF NoteInv, AllowListIsInSync
<1> QED
  BY <1>1, <1>2, NextNoteInv, PTL DEF ToolsSpec

=============================================================================
