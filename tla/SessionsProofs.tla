--------------------------- MODULE SessionsProofs ---------------------------
(***************************************************************************)
(* Theorems about Sessions, for any requests and any number of SIGINTs.    *)
(***************************************************************************)
EXTENDS Sessions, TLAPS

(* What is known of the request that creates a session, and of the requests
   that use one. *)
Life(r) ==
    /\ pc[r] \in {"idle", "newBody"} => session[r] = "none"
    /\ pc[r] = "server" => session[r] = "made" /\ kind[r] \in {"init", "sse"}
    /\ pc[r] \in {"body", "forwarded"} =>
          sid[r] \in told /\ (kind[r] = "delete" => kind[sid[r]] # "sse")
    /\ r \in told => /\ pc[r] \in {"answered", "streaming"}
                     /\ session[r] \in {"open", "closed"}

Lives == \A r \in Requests : Life(r)

(* An event stream that is still open keeps its session in the table. *)
Streams ==
    ~ShuttingDown =>
        \A r \in Requests : kind[r] = "sse" /\ peer[r] => r \in transports

(* Only a loop that runs is at a key.  A session that the first SIGINT found
   open is closed, or still open, in the table and ahead of every loop. *)
Dooms ==
    /\ \A n \in Signals : loops[n].at # None => loops[n].on
    /\ ~ShuttingDown => doomed = {}
    /\ phase = "starting" => ~ShuttingDown
    /\ \A s \in doomed :
          \/ session[s] = "closed"
          \/ /\ phase # "exited"
             /\ session[s] = "open"
             /\ s \in transports
             /\ \A n \in Signals : loops[n].on => /\ s \in loops[n].left
                                                  /\ loops[n].at # s

Inv ==
    /\ TypeOK
    /\ Lives
    /\ Streams
    /\ Dooms
    /\ ClosedIsForgotten
    /\ OpenIsReachable

-----------------------------------------------------------------------------
LEMMA InitInv == Init => Inv
<1> SUFFICES ASSUME Init PROVE Inv
  OBVIOUS
<1>1. TypeOK
  BY DEF Init, TypeOK, Waiting, Ended, Kinds
<1>2. ~ShuttingDown
  BY DEF Init, ShuttingDown
<1>3. Lives /\ Streams /\ ClosedIsForgotten /\ OpenIsReachable
  BY DEF Init, Lives, Life, Streams, ClosedIsForgotten, OpenIsReachable
<1>4. Dooms
  BY <1>2 DEF Init, Dooms
<1> QED
  BY <1>1, <1>3, <1>4 DEF Inv

(* Only SIGINT changes ShuttingDown. *)
LEMMA SameLoops == loops' = loops => ShuttingDown' = ShuttingDown
BY DEF ShuttingDown

LEMMA StartInv == ASSUME Inv, Start PROVE Inv'
<1>1. ShuttingDown' = ShuttingDown
  BY SameLoops DEF Start
<1>2. UNCHANGED <<pc, asked, table, loops, doomed, mode, vaultOpens>>
      /\ phase' \in {"running", "exited"} /\ phase = "starting" /\ opened' \in BOOLEAN
  BY DEF Start, Inv, TypeOK
<1>3. TypeOK'
  BY <1>2 DEF Inv, TypeOK, asked, table
<1>4. Lives' /\ Streams' /\ ClosedIsForgotten' /\ OpenIsReachable'
  BY <1>1, <1>2 DEF Inv, Lives, Life, Streams, ClosedIsForgotten, OpenIsReachable,
                    asked, table
<1>5. Dooms'
  BY <1>1, <1>2 DEF Inv, Dooms
<1> QED
  BY <1>3, <1>4, <1>5 DEF Inv

(* A request arrives. *)
LEMMA ReceiveInv ==
    ASSUME Inv, NEW r \in Requests,
           ReceiveStreamable(r) \/ ReceiveSse(r) \/ ReceiveMessage(r)
    PROVE  Inv'
<1>1. PICK k \in Kinds \ {"init"}, s \in Requests \cup {None}, step \in Waiting \cup Ended :
         /\ Receive(r, k, s) /\ Goto(r, step) /\ UNCHANGED <<told, process>>
         /\ k # "sse" => /\ UNCHANGED table
                         /\ step \in {"body", "newBody", "refused"}
                         /\ step = "body" => s \in told /\ (k = "delete" => kind[s] # "sse")
         /\ k = "sse" => /\ step = "server"
                         /\ transports' = transports \cup {r}
                         /\ session' = [session EXCEPT ![r] = "made"]
  <2>1. told \subseteq Requests /\ transports \subseteq Requests /\ None \notin Requests
    BY SessionsAssumption DEF Inv, TypeOK
  <2>2. CASE ReceiveStreamable(r)
    <3>1. PICK k \in {"post", "delete"}, s \in told \cup {None} :
             /\ Receive(r, k, s)
             /\ \/ Usable(s, "http") /\ Goto(r, "body")
                \/ s = None /\ k = "post" /\ Goto(r, "newBody")
                \/ ~Usable(s, "http") /\ Goto(r, "refused")
             /\ UNCHANGED <<table, process>>
      BY <2>2 DEF ReceiveStreamable
    <3>2. Usable(s, "http") => s \in told /\ kind[s] # "sse"
      BY <2>1 DEF Usable, Protocol
    <3>3. PICK step \in {"body", "newBody", "refused"} :
             Goto(r, step) /\ (step = "body" => Usable(s, "http"))
      BY <3>1
    <3> QED
      BY <2>1, <3>1, <3>2, <3>3 DEF Kinds, Waiting, Ended, table
  <2>3. CASE ReceiveSse(r)
    BY <2>3 DEF ReceiveSse, Kinds, Waiting
  <2>4. CASE ReceiveMessage(r)
    <3>1. PICK s \in told \cup {None} :
             /\ Receive(r, "message", s)
             /\ Goto(r, IF Usable(s, "sse") THEN "body" ELSE "refused")
             /\ UNCHANGED <<table, process>>
      BY <2>4 DEF ReceiveMessage
    <3>2. Usable(s, "sse") => s \in told
      BY <2>1 DEF Usable
    <3>3. PICK step \in {"body", "refused"} :
             Goto(r, step) /\ (step = "body" => s \in told)
      BY <3>1, <3>2
    <3> QED
      BY <2>1, <3>1, <3>3 DEF Kinds, Waiting, Ended, table
  <2> QED
    BY <2>2, <2>3, <2>4
<1>2. /\ pc[r] = "idle" /\ session[r] = "none" /\ r \notin told
      /\ pc' = [pc EXCEPT ![r] = step] /\ kind' = [kind EXCEPT ![r] = k]
      /\ sid' = [sid EXCEPT ![r] = s] /\ peer' = [peer EXCEPT ![r] = TRUE]
      /\ UNCHANGED <<told, phase, mode, vaultOpens, loops, opened, doomed>>
      /\ phase = "running"
  BY <1>1 DEF Receive, Goto, Serving, process, Inv, Lives, Life
<1>3. ShuttingDown' = ShuttingDown
  BY <1>2, SameLoops
<1>4. TypeOK'
  <2>1. CASE k # "sse"
    BY <1>1, <1>2, <2>1 DEF Inv, TypeOK, table, Kinds
  <2>2. CASE k = "sse"
    BY <1>1, <1>2, <2>2 DEF Inv, TypeOK, Kinds
  <2> QED
    BY <2>1, <2>2
<1>5. \A x \in Requests \ {r} : session'[x] = session[x] /\ (x \in transports' <=> x \in transports)
  BY <1>1 DEF Inv, TypeOK, table
<1>6. \A x \in Requests \ {r} : /\ pc'[x] = pc[x] /\ kind'[x] = kind[x]
                                /\ sid'[x] = sid[x] /\ peer'[x] = peer[x]
  BY <1>2 DEF Inv, TypeOK
<1>7. /\ pc'[r] = step /\ kind'[r] = k /\ sid'[r] = s /\ peer'[r] = TRUE
      /\ session'[r] = IF k = "sse" THEN "made" ELSE "none"
  BY <1>1, <1>2 DEF Inv, TypeOK, table
<1>8. Lives'
  <2>1. told \subseteq Requests /\ r \notin told /\ told' = told
    BY <1>2 DEF Inv, TypeOK
  <2>2. \A x \in told : kind'[x] = kind[x]
    BY <1>6, <2>1
  <2> QED
    BY <1>1, <1>5, <1>6, <1>7, <2>1, <2>2 DEF Inv, Lives, Life, Kinds
<1>9. Streams'
  BY <1>1, <1>3, <1>5, <1>6, <1>7 DEF Inv, Streams
<1>10. Dooms'
  <2>1. doomed \subseteq Requests /\ \A x \in doomed : x # r
    BY <1>2 DEF Inv, TypeOK, Dooms
  <2> QED
    BY <1>2, <1>3, <1>5, <2>1 DEF Inv, Dooms
<1>11. ClosedIsForgotten'
  <2>1. transports' \subseteq Requests
    BY <1>4 DEF TypeOK
  <2> QED
    BY <1>1, <1>2, <1>5, <1>6, <1>7, <2>1 DEF Inv, ClosedIsForgotten
<1>12. OpenIsReachable'
  <2>1. told' \subseteq Requests
    BY <1>4 DEF TypeOK
  <2> QED
    BY <1>2, <1>3, <1>5, <2>1 DEF Inv, OpenIsReachable
<1> QED
  BY <1>4, <1>8, <1>9, <1>10, <1>11, <1>12 DEF Inv

(* A handler goes on to another step, and neither the table nor the sessions
   nor the clients change. *)
LEMMA GoOnInv ==
    ASSUME Inv, NEW r \in Requests, NEW step \in {"forwarded", "refused", "failed"},
           Goto(r, step), UNCHANGED <<asked, table, process>>,
           step = "forwarded" => pc[r] = "body",
           r \notin told
    PROVE  Inv'
<1>1. UNCHANGED <<kind, sid, peer, transports, session, told, phase, mode,
                  vaultOpens, loops, opened, doomed>>
  BY DEF asked, table, process
<1>2. TypeOK'
  BY <1>1 DEF Goto, Inv, TypeOK, Waiting, Ended
<1>3. ShuttingDown' = ShuttingDown
  BY <1>1, SameLoops
<1>4. Lives'
  BY <1>1 DEF Goto, Inv, TypeOK, Lives, Life
<1>5. Streams' /\ Dooms' /\ ClosedIsForgotten' /\ OpenIsReachable'
  BY <1>1, <1>3 DEF Inv, Streams, Dooms, ClosedIsForgotten, OpenIsReachable
<1> QED
  BY <1>2, <1>4, <1>5 DEF Inv

LEMMA ReadBodyInv == ASSUME Inv, NEW r \in Requests, ReadBody(r) PROVE Inv'
<1>0. r \notin told
  BY DEF ReadBody, Inv, Lives, Life
<1>1. CASE Goto(r, "forwarded") /\ pc[r] = "body" /\ UNCHANGED <<kind, session>>
  BY <1>0, <1>1, GoOnInv DEF ReadBody, asked, table
<1>2. CASE Goto(r, "refused") /\ UNCHANGED <<kind, session>>
  BY <1>0, <1>2, GoOnInv DEF ReadBody, asked, table
<1>3. CASE /\ pc[r] = "newBody"
           /\ Goto(r, "server")
           /\ kind' = [kind EXCEPT ![r] = "init"]
           /\ session' = [session EXCEPT ![r] = "made"]
  <2>1. /\ session[r] = "none"
        /\ UNCHANGED <<sid, peer, transports, told, phase, mode, vaultOpens,
                       loops, opened, doomed>>
    BY <1>3 DEF ReadBody, process, Inv, Lives, Life
  <2>2. ShuttingDown' = ShuttingDown
    BY <2>1, SameLoops
  <2>3. TypeOK'
    BY <1>3, <2>1 DEF Goto, Inv, TypeOK, Waiting, Kinds
  <2>4. /\ pc'[r] = "server" /\ kind'[r] = "init" /\ session'[r] = "made"
        /\ \A x \in Requests \ {r} :
              pc'[x] = pc[x] /\ kind'[x] = kind[x] /\ session'[x] = session[x]
    BY <1>3 DEF Goto, Inv, TypeOK
  <2>5. told \subseteq Requests /\ \A x \in told : kind'[x] = kind[x]
    BY <1>0, <2>4 DEF Inv, TypeOK
  <2>6. Lives'
    BY <1>0, <2>1, <2>4, <2>5 DEF Inv, Lives, Life
  <2>7. Streams'
    BY <2>1, <2>2, <2>4 DEF Inv, Streams
  <2>8. Dooms'
    <3>1. doomed \subseteq Requests /\ \A x \in doomed : x # r
      BY <2>1 DEF Inv, TypeOK, Dooms
    <3> QED
      BY <2>1, <2>2, <2>4, <3>1 DEF Inv, Dooms
  <2>9. ClosedIsForgotten'
    <3>1. transports \subseteq Requests
      BY DEF Inv, TypeOK
    <3> QED
      BY <2>1, <2>4, <3>1 DEF Inv, ClosedIsForgotten
  <2>10. OpenIsReachable'
    BY <1>0, <2>1, <2>2, <2>4, <2>5 DEF Inv, OpenIsReachable
  <2> QED
    BY <2>3, <2>6, <2>7, <2>8, <2>9, <2>10 DEF Inv
<1> QED
  BY <1>1, <1>2, <1>3 DEF ReadBody

LEMMA FailInv ==
    ASSUME Inv, NEW r \in Requests, BodyBreaks(r) \/ ServerFails(r) PROVE Inv'
<1>1. r \notin told
  BY DEF BodyBreaks, ServerFails, Inv, Lives, Life
<1>2. Goto(r, "failed") /\ UNCHANGED <<asked, table, process>>
  BY DEF BodyBreaks, ServerFails, AnswerError
<1> QED
  BY <1>1, <1>2, GoOnInv

(* createServer and connect are through. *)
LEMMA ServerInv ==
    ASSUME Inv, NEW r \in Requests, ConnectServer(r) \/ RefuseInitialize(r)
    PROVE  Inv'
<1>1. PICK step \in {"answered", "streaming", "refused"} : Goto(r, step)
        /\ (step = "refused" => told' = told)
  BY DEF ConnectServer, RefuseInitialize
<1>2. /\ pc[r] = "server" /\ session[r] = "made" /\ opened' = TRUE /\ r \notin told
      /\ kind[r] \in {"init", "sse"} /\ phase = "running"
      /\ session' = [session EXCEPT ![r] = "open"]
      /\ UNCHANGED <<kind, sid, peer, phase, mode, vaultOpens, loops, doomed>>
  BY DEF ConnectServer, RefuseInitialize, asked, Serving, Inv, Lives, Life
<1>3. /\ told' \in {told, told \cup {r}}
      /\ transports' \in {transports, transports \cup {r}}
      /\ r \in told' => r \in transports' \/ (kind[r] = "sse" /\ peer[r])
      /\ r \in transports' => r \in transports \/ kind[r] = "init"
  BY <1>2 DEF ConnectServer, RefuseInitialize, Registered
<1>4. ShuttingDown' = ShuttingDown
  BY <1>2, SameLoops
<1>5. TypeOK'
  BY <1>1, <1>2, <1>3 DEF Goto, Inv, TypeOK, Ended
<1>6. /\ pc'[r] = step /\ session'[r] = "open"
      /\ \A x \in Requests \ {r} : pc'[x] = pc[x] /\ session'[x] = session[x]
  BY <1>1, <1>2 DEF Goto, Inv, TypeOK
<1>12. \A x \in Requests \ {r} : x \in told' <=> x \in told
  BY <1>3
<1>13. \A x \in Requests \ {r} : x \in transports' <=> x \in transports
  BY <1>3
<1>7. Lives'
  <2> SUFFICES ASSUME NEW x \in Requests PROVE Life(x)'
    BY DEF Lives
  <2>1. CASE x = r
    BY <1>1, <1>2, <1>6, <2>1 DEF Life
  <2>2. CASE x # r
    <3>1. told \subseteq told'
      BY <1>3
    <3> QED
      BY <1>2, <1>6, <1>12, <2>2, <3>1 DEF Inv, Lives, Life
  <2> QED
    BY <2>1, <2>2
<1>8. Streams'
  BY <1>2, <1>3, <1>4 DEF Inv, Streams
<1>9. Dooms'
  <2>1. doomed \subseteq Requests /\ \A x \in doomed : x # r
    BY <1>2 DEF Inv, TypeOK, Dooms
  <2>2. \A x \in doomed : session'[x] = session[x] /\ (x \in transports => x \in transports')
    BY <1>3, <1>6, <2>1
  <2> QED
    BY <1>2, <1>4, <2>2 DEF Inv, Dooms
<1>10. ClosedIsForgotten'
  <2>1. transports' \subseteq Requests
    BY <1>5 DEF TypeOK
  <2> QED
    BY <1>2, <1>3, <1>6, <2>1 DEF Inv, ClosedIsForgotten
<1>11. OpenIsReachable'
  <2>1. told' \subseteq Requests
    BY <1>5 DEF TypeOK
  <2>2. ~ShuttingDown /\ r \in told' => r \in transports'
    BY <1>3 DEF Inv, Streams
  <2> QED
    BY <1>2, <1>4, <1>6, <1>12, <1>13, <2>1, <2>2 DEF Inv, OpenIsReachable
<1> QED
  BY <1>5, <1>7, <1>8, <1>9, <1>10, <1>11 DEF Inv

(* A session is closed, or forgotten, or both: what Handle, PeerLeaves and the
   loops of SIGINT do to the table. *)
LEMMA LifeGoesOn ==
    ASSUME Inv, NEW r \in Requests,
           UNCHANGED <<kind, sid, told>>,
           pc'[r] = pc[r] \/ (pc[r] = "forwarded" /\ pc'[r] = "answered"),
           session'[r] = session[r]
             \/ (session[r] \in {"open", "closed"} /\ session'[r] = "closed")
    PROVE  Life(r)'
BY DEF Inv, Lives, Life

LEMMA HandleInv == ASSUME Inv, NEW r \in Requests, Handle(r) PROVE Inv'
<1>1. /\ pc[r] = "forwarded" /\ Goto(r, "answered") /\ phase = "running"
      /\ UNCHANGED <<kind, sid, peer, told, phase, mode, vaultOpens, loops,
                     opened, doomed>>
  BY DEF Handle, Serving, asked, process
<1> DEFINE s == sid[r]
<1>2. s \in told /\ told \subseteq Requests /\ s \in Requests /\ s # r
      /\ session[s] \in {"open", "closed"}
  BY <1>1 DEF Inv, TypeOK, Lives, Life
<1>3. ShuttingDown' = ShuttingDown
  BY <1>1, SameLoops
<1>4. \A x \in Requests : pc'[x] = IF x = r THEN "answered" ELSE pc[x]
  BY <1>1 DEF Goto, Inv, TypeOK
<1>5. CASE kind[r] # "delete"
  <2>1. UNCHANGED <<session, transports>>
    BY <1>5 DEF Handle
  <2>2. TypeOK'
    BY <1>1, <2>1 DEF Goto, Inv, TypeOK, Ended
  <2>3. Lives'
    BY <1>1, <1>4, <2>1, LifeGoesOn DEF Lives
  <2> QED
    BY <1>1, <1>3, <2>1, <2>2, <2>3
    DEF Inv, Streams, Dooms, ClosedIsForgotten, OpenIsReachable
<1>6. CASE kind[r] = "delete"
  <2>1. session' = [session EXCEPT ![s] = "closed"] /\ transports' = transports \ {s}
    BY <1>6 DEF Handle, AfterClose
  <2>2. TypeOK'
    BY <1>1, <1>2, <2>1 DEF Goto, Inv, TypeOK, Ended
  <2>3. session'[s] = "closed" /\ \A x \in Requests \ {s} : session'[x] = session[x]
    BY <1>2, <2>1 DEF Inv, TypeOK
  <2>4. Lives'
    <3> SUFFICES ASSUME NEW x \in Requests PROVE Life(x)'
      BY DEF Lives
    <3> QED
      BY <1>1, <1>2, <1>4, <2>3, LifeGoesOn
  <2>5. Streams'
    <3>1. kind[s] # "sse"
      BY <1>1, <1>6 DEF Inv, Lives, Life
    <3> QED
      BY <1>1, <1>3, <2>1, <3>1 DEF Inv, Streams
  <2>6. Dooms'
    <3>1. doomed \subseteq Requests
      BY DEF Inv, TypeOK
    <3> QED
      BY <1>1, <1>3, <2>1, <2>3, <3>1 DEF Inv, Dooms
  <2>7. ClosedIsForgotten'
    <3>1. transports \subseteq Requests
      BY DEF Inv, TypeOK
    <3> QED
      BY <1>1, <2>1, <2>3, <3>1 DEF Inv, ClosedIsForgotten
  <2>8. OpenIsReachable'
    BY <1>1, <1>2, <1>3, <2>1, <2>3 DEF Inv, OpenIsReachable
  <2> QED
    BY <2>2, <2>4, <2>5, <2>6, <2>7, <2>8 DEF Inv
<1> QED
  BY <1>5, <1>6

LEMMA PeerInv == ASSUME Inv, NEW r \in Requests, PeerLeaves(r) PROVE Inv'
<1>1. /\ peer' = [peer EXCEPT ![r] = FALSE] /\ phase = "running"
      /\ transports' = IF kind[r] = "sse" THEN transports \ {r} ELSE transports
      /\ UNCHANGED <<pc, kind, sid, told, phase, mode, vaultOpens, loops,
                     opened, doomed>>
  BY DEF PeerLeaves, ForgetsOnClose, Serving, process
<1>2. /\ session'[r] = IF kind[r] = "sse" /\ session[r] = "open" THEN "closed"
                                                                 ELSE session[r]
      /\ \A x \in Requests \ {r} : session'[x] = session[x]
      /\ peer'[r] = FALSE /\ \A x \in Requests \ {r} : peer'[x] = peer[x]
  BY <1>1 DEF PeerLeaves, Inv, TypeOK
<1>3. ShuttingDown' = ShuttingDown
  BY <1>1, SameLoops
<1>4. TypeOK'
  <2>1. session' \in [Requests -> {"none", "made", "open", "closed"}]
    BY DEF PeerLeaves, Inv, TypeOK
  <2> QED
    BY <1>1, <2>1 DEF Inv, TypeOK
<1>5. Lives'
  <2> SUFFICES ASSUME NEW x \in Requests PROVE Life(x)'
    BY DEF Lives
  <2> QED
    BY <1>1, <1>2, LifeGoesOn
<1>6. Streams'
  BY <1>1, <1>2, <1>3 DEF Inv, Streams
<1>7. Dooms'
  <2>1. doomed \subseteq Requests
    BY DEF Inv, TypeOK
  <2> QED
    BY <1>1, <1>2, <1>3, <2>1 DEF Inv, Dooms
<1>8. ClosedIsForgotten'
  <2>1. transports \subseteq Requests
    BY DEF Inv, TypeOK
  <2> QED
    BY <1>1, <1>2, <2>1 DEF Inv, ClosedIsForgotten
<1>9. OpenIsReachable'
  <2>1. told \subseteq Requests
    BY DEF Inv, TypeOK
  <2> QED
    BY <1>1, <1>2, <1>3, <2>1 DEF Inv, OpenIsReachable
<1> QED
  BY <1>4, <1>5, <1>6, <1>7, <1>8, <1>9 DEF Inv

-----------------------------------------------------------------------------
(* SIGINT. *)

LEMMA LoopsType ==
    ASSUME Inv, NEW n \in Signals
    PROVE  loops[n] \in [on : BOOLEAN, left : SUBSET Requests,
                         at : Requests \cup {None}]
BY DEF Inv, TypeOK

LEMMA InterruptInv == ASSUME Inv, NEW n \in Signals, Interrupt(n) PROVE Inv'
<1> DEFINE new == [on |-> TRUE, left |-> transports, at |-> None]
<1>1. /\ loops' = [loops EXCEPT ![n] = new] /\ ~loops[n].on /\ phase = "running"
      /\ doomed' = IF ShuttingDown THEN doomed
                   ELSE {s \in transports : session[s] = "open"}
      /\ UNCHANGED <<phase, mode, vaultOpens, opened, pc, kind, sid, peer,
                     transports, session, told>>
  BY DEF Interrupt, Serving, asked, table
<1>2. transports \subseteq Requests /\ doomed \subseteq Requests
  BY DEF Inv, TypeOK
<1>3. TypeOK'
  BY <1>1, <1>2 DEF Inv, TypeOK
<1>4. loops'[n] = new /\ \A m \in Signals \ {n} : loops'[m] = loops[m]
  BY <1>1 DEF Inv, TypeOK
<1>5. ShuttingDown'
  BY <1>4 DEF ShuttingDown
<1>6. Lives' /\ Streams' /\ OpenIsReachable'
  BY <1>1, <1>5 DEF Inv, Lives, Life, Streams, OpenIsReachable
<1>7. Dooms'
  <2>1. ASSUME NEW s \in doomed', session[s] # "closed"
        PROVE  /\ session[s] = "open" /\ s \in transports
               /\ \A m \in Signals : loops'[m].on => /\ s \in loops'[m].left
                                                      /\ loops'[m].at # s
    <3>1. s \in Requests /\ s # None
      BY <1>1, <1>2, <2>1, SessionsAssumption
    <3>2. CASE ShuttingDown
      BY <1>1, <1>4, <2>1, <3>1, <3>2 DEF Inv, Dooms
    <3>3. CASE ~ShuttingDown
      BY <1>1, <1>4, <2>1, <3>1, <3>3 DEF ShuttingDown
    <3> QED
      BY <3>2, <3>3
  <2> QED
    BY <1>1, <1>4, <1>5, <2>1 DEF Inv, Dooms
<1>8. ClosedIsForgotten'
  <2>1. ASSUME NEW s \in transports, NEW m \in Signals, loops[m].at = s
        PROVE  loops'[m].at = s
    <3>1. s # None
      BY <1>2, SessionsAssumption
    <3>2. m # n
      BY <1>1, <2>1, <3>1 DEF Inv, Dooms
    <3> QED
      BY <1>4, <2>1, <3>2
  <2> QED
    BY <1>1, <2>1 DEF Inv, ClosedIsForgotten
<1> QED
  BY <1>3, <1>6, <1>7, <1>8 DEF Inv

LEMMA CloseInv == ASSUME Inv, NEW n \in Signals, CloseNext(n) PROVE Inv'
<1>1. PICK s \in loops[n].left :
         /\ loops' = [loops EXCEPT ![n] = [on |-> TRUE, left |-> @.left \ {s}, at |-> s]]
         /\ session' = [session EXCEPT ![s] =
                           IF s \in transports /\ @ = "open" THEN "closed" ELSE @]
         /\ transports' = IF Protocol(s) = "http" THEN transports \ {s}
                                                  ELSE transports
  BY DEF CloseNext, AfterClose
<1>2. /\ loops[n].on /\ loops[n].at = None /\ phase = "running"
      /\ UNCHANGED <<phase, mode, vaultOpens, opened, doomed, pc, kind, sid, peer,
                     told>>
  BY DEF CloseNext, Serving, asked
<1>3. /\ s \in Requests /\ s # None /\ loops[n].left \subseteq Requests
      /\ transports \subseteq Requests /\ doomed \subseteq Requests
      /\ told \subseteq Requests
  BY LoopsType, SessionsAssumption DEF Inv, TypeOK
<1>4. /\ loops'[n] = [on |-> TRUE, left |-> loops[n].left \ {s}, at |-> s]
      /\ \A m \in Signals \ {n} : loops'[m] = loops[m]
  BY <1>1 DEF Inv, TypeOK
<1>5. /\ session'[s] = IF s \in transports /\ session[s] = "open" THEN "closed"
                                                                  ELSE session[s]
      /\ \A x \in Requests \ {s} : session'[x] = session[x]
  BY <1>1, <1>3 DEF Inv, TypeOK
<1>6. ShuttingDown /\ ShuttingDown'
  BY <1>2, <1>4 DEF ShuttingDown
<1>7. TypeOK'
  <2>1. loops' \in [Signals -> [on : BOOLEAN, left : SUBSET Requests,
                               at : Requests \cup {None}]]
    <3>1. DOMAIN loops' = Signals /\ loops' = [m \in Signals |-> loops'[m]]
      BY <1>1 DEF Inv, TypeOK
    <3>2. ASSUME NEW m \in Signals
          PROVE  loops'[m] \in [on : BOOLEAN, left : SUBSET Requests,
                               at : Requests \cup {None}]
      <4>1. CASE m = n
        <5>1. loops[n].left \ {s} \in SUBSET Requests /\ s \in Requests \cup {None}
          BY <1>3
        <5>2. [on |-> TRUE, left |-> loops[n].left \ {s}, at |-> s]
                \in [on : BOOLEAN, left : SUBSET Requests, at : Requests \cup {None}]
          BY <5>1
        <5> QED
          BY <1>4, <4>1, <5>2, Zenon
      <4>2. CASE m # n
        BY <1>4, <4>2, LoopsType
      <4> QED
        BY <4>1, <4>2
    <3> QED
      BY <3>1, <3>2
  <2>2. session' \in [Requests -> {"none", "made", "open", "closed"}]
    BY <1>1 DEF Inv, TypeOK
  <2> QED
    BY <1>1, <1>2, <1>3, <2>1, <2>2 DEF Inv, TypeOK
<1>8. Lives'
  <2> SUFFICES ASSUME NEW x \in Requests PROVE Life(x)'
    BY DEF Lives
  <2> QED
    BY <1>2, <1>3, <1>5, LifeGoesOn
<1>9. Streams' /\ OpenIsReachable'
  BY <1>6 DEF Streams, OpenIsReachable
<1>10. Dooms'
  <2>1. ASSUME NEW x \in doomed, session'[x] # "closed"
        PROVE  /\ session'[x] = "open" /\ x \in transports'
               /\ \A m \in Signals : loops'[m].on => /\ x \in loops'[m].left
                                                      /\ loops'[m].at # x
    <3>1. session[x] = "open" /\ x \in transports
          /\ \A m \in Signals : loops[m].on => x \in loops[m].left /\ loops[m].at # x
      BY <1>3, <1>5, <2>1 DEF Inv, Dooms
    <3>2. x # s
      BY <1>3, <1>5, <2>1, <3>1
    <3>3. session'[x] = "open" /\ x \in transports'
      BY <1>1, <1>3, <1>5, <3>1, <3>2
    <3>4. ASSUME NEW m \in Signals, loops'[m].on
          PROVE  x \in loops'[m].left /\ loops'[m].at # x
      <4>1. CASE m = n
        BY <1>2, <1>4, <3>1, <3>2, <4>1
      <4>2. CASE m # n
        BY <1>4, <3>1, <3>4, <4>2
      <4> QED
        BY <4>1, <4>2
    <3> QED
      BY <3>3, <3>4
  <2>2. \A m \in Signals : loops'[m].at # None => loops'[m].on
    BY <1>4 DEF Inv, Dooms
  <2> QED
    BY <1>2, <1>6, <2>1, <2>2 DEF Dooms
<1>11. ClosedIsForgotten'
  <2>1. ASSUME NEW x \in transports', session'[x] = "closed"
        PROVE  \E m \in Signals : loops'[m].at = x
    <3>1. CASE x = s
      BY <1>4, <3>1
    <3>2. CASE x # s
      <4>1. x \in transports /\ session[x] = "closed"
        BY <1>1, <1>3, <1>5, <2>1, <3>2
      <4>2. PICK m \in Signals : loops[m].at = x
        BY <4>1 DEF Inv, ClosedIsForgotten
      <4>3. m # n
        BY <1>2, <1>3, <4>1, <4>2, SessionsAssumption
      <4> QED
        BY <1>4, <4>2, <4>3
    <3> QED
      BY <3>1, <3>2
  <2>2. transports' \subseteq transports
    BY <1>1
  <2> QED
    BY <1>2, <2>1, <2>2 DEF Inv, ClosedIsForgotten
<1> QED
  BY <1>7, <1>8, <1>9, <1>10, <1>11 DEF Inv

LEMMA ForgetInv == ASSUME Inv, NEW n \in Signals, ForgetNext(n) PROVE Inv'
<1> DEFINE s == loops[n].at
<1>1. /\ s # None /\ transports' = transports \ {s} /\ phase = "running"
      /\ loops' = [loops EXCEPT ![n].at = None]
      /\ UNCHANGED <<phase, mode, vaultOpens, opened, doomed, pc, kind, sid, peer,
                     session, told>>
  BY DEF ForgetNext, Serving, asked
<1>2. /\ loops[n].on
      /\ loops'[n] = [on |-> loops[n].on, left |-> loops[n].left, at |-> None]
      /\ \A m \in Signals \ {n} : loops'[m] = loops[m]
  BY <1>1, LoopsType DEF Inv, TypeOK, Dooms
<1>3. ShuttingDown /\ ShuttingDown'
  BY <1>2 DEF ShuttingDown
<1>4. TypeOK'
  <2>1. loops' \in [Signals -> [on : BOOLEAN, left : SUBSET Requests,
                               at : Requests \cup {None}]]
    BY <1>1, LoopsType DEF Inv, TypeOK
  <2> QED
    BY <1>1, <2>1 DEF Inv, TypeOK
<1>5. Lives' /\ Streams' /\ OpenIsReachable'
  BY <1>1, <1>3 DEF Inv, Lives, Life, Streams, OpenIsReachable
<1>6. Dooms'
  <2>1. ASSUME NEW x \in doomed, session[x] # "closed"
        PROVE  /\ session[x] = "open" /\ x \in transports'
               /\ \A m \in Signals : loops'[m].on => /\ x \in loops'[m].left
                                                      /\ loops'[m].at # x
    <3>1. session[x] = "open" /\ x \in transports
          /\ \A m \in Signals : loops[m].on => x \in loops[m].left /\ loops[m].at # x
      BY <2>1 DEF Inv, Dooms
    <3>2. x # s /\ x # None
      BY <1>2, <2>1, <3>1, SessionsAssumption DEF Inv, TypeOK
    <3> QED
      BY <1>1, <1>2, <3>1, <3>2
  <2>2. \A m \in Signals : loops'[m].at # None => loops'[m].on
    BY <1>2 DEF Inv, Dooms
  <2> QED
    BY <1>1, <1>3, <2>1, <2>2 DEF Dooms
<1>7. ClosedIsForgotten'
  <2>1. ASSUME NEW x \in transports', session[x] = "closed"
        PROVE  \E m \in Signals : loops'[m].at = x
    <3>1. x \in transports /\ x # s
      BY <1>1
    <3>2. PICK m \in Signals : loops[m].at = x
      BY <2>1, <3>1 DEF Inv, ClosedIsForgotten
    <3> QED
      BY <1>2, <3>1, <3>2
  <2>2. transports' \subseteq transports
    BY <1>1
  <2> QED
    BY <1>1, <2>1, <2>2 DEF Inv, ClosedIsForgotten
<1> QED
  BY <1>4, <1>5, <1>6, <1>7 DEF Inv

LEMMA ExitInv == ASSUME Inv, NEW n \in Signals, Exit(n) PROVE Inv'
<1>1. /\ phase' = "exited" /\ loops[n].on /\ loops[n].left = {}
      /\ UNCHANGED <<mode, vaultOpens, opened, doomed, loops, pc, kind, sid, peer,
                     transports, session, told>>
  BY DEF Exit, LoopOver, asked, table
<1>2. ShuttingDown' = ShuttingDown
  BY <1>1, SameLoops
<1>3. TypeOK'
  BY <1>1 DEF Inv, TypeOK
<1>4. Lives' /\ Streams' /\ ClosedIsForgotten' /\ OpenIsReachable'
  BY <1>1, <1>2 DEF Inv, Lives, Life, Streams, ClosedIsForgotten, OpenIsReachable
<1>5. Dooms'
  <2>1. \A s \in doomed : session[s] = "closed"
    BY <1>1 DEF Inv, Dooms
  <2> QED
    BY <1>1, <1>2, <2>1 DEF Inv, Dooms
<1> QED
  BY <1>3, <1>4, <1>5 DEF Inv

LEMMA VaultInv == ASSUME Inv, VaultChanges \/ UNCHANGED vars PROVE Inv'
<1>1. /\ vaultOpens' \in BOOLEAN
      /\ UNCHANGED <<phase, mode, loops, opened, doomed, pc, kind, sid, peer,
                     transports, session, told>>
  BY DEF VaultChanges, vars, asked, table, Inv, TypeOK
<1>2. ShuttingDown' = ShuttingDown
  BY <1>1, SameLoops
<1>3. TypeOK'
  BY <1>1 DEF Inv, TypeOK
<1> QED
  BY <1>1, <1>2, <1>3
  DEF Inv, Lives, Life, Streams, Dooms, ClosedIsForgotten, OpenIsReachable

LEMMA NextInv == Inv /\ [Next]_vars => Inv'
BY StartInv, ReceiveInv, ReadBodyInv, FailInv, ServerInv, HandleInv, PeerInv,
   InterruptInv, CloseInv, ForgetInv, ExitInv, VaultInv
DEF Next, Progress, Shutdown

LEMMA Invariant == Spec => []Inv
BY InitInv, NextInv, PTL DEF Spec

-----------------------------------------------------------------------------
(* The state of the server has its types at all times. *)
THEOREM TypesHold == Spec => []TypeOK
BY Invariant, PTL DEF Inv

(* The table holds no closed session, save one that SIGINT is closing, and no
   SSE session whose client has left. *)
THEOREM TableForgetsClosed == Spec => []ClosedIsForgotten
BY Invariant, PTL DEF Inv

(* A client that was told a session's id can use it until the session is
   closed or the server shuts down. *)
THEOREM TableKeepsOpen == Spec => []OpenIsReachable
BY Invariant, PTL DEF Inv

(* When the process exits, the sessions that were open at the first SIGINT have
   been closed, however often it was signalled. *)
THEOREM ExitClosesSessions == Spec => []ShutdownCloses
<1>1. Inv => ShutdownCloses
  BY DEF Inv, Dooms, ShutdownCloses
<1> QED
  BY <1>1, Invariant, PTL

(* index.ts: over stdio a server that runs has opened its provider, whatever
   happens to the vault later; over HTTP the claim fails. *)
THEOREM StdioFailsFast == Spec => [](mode = "stdio" => FailsFast)
<1> DEFINE OpenFirst == mode = "stdio" /\ phase = "running" => opened
<1>1. Init => OpenFirst
  BY DEF Init
<1>2. OpenFirst /\ [Next]_vars => OpenFirst'
  BY DEF Next, Start, ReceiveStreamable, ReceiveSse, ReceiveMessage, Receive,
         Progress, ReadBody, BodyBreaks, ConnectServer, RefuseInitialize,
         ServerFails, Handle, PeerLeaves, Interrupt, Shutdown, CloseNext,
         ForgetNext, Exit, VaultChanges, Serving, process, vars
<1>3. OpenFirst => (mode = "stdio" => FailsFast)
  BY DEF FailsFast
<1> QED
  BY <1>1, <1>2, <1>3, PTL DEF Spec

=============================================================================
