------------------------------ MODULE Sessions ------------------------------
(***************************************************************************)
(* The server process and its HTTP sessions (src/index.ts).                *)
(*                                                                         *)
(* Over stdio the process makes one MCP server and serves it.  Over HTTP   *)
(* it serves sessions of two protocols from one table, transports: the     *)
(* streamable one (POST, GET, DELETE on /mcp) and the legacy one (GET /sse *)
(* for the event stream, POST /messages for the messages).  Every handler  *)
(* runs until it awaits the request's body or a new MCP server; meanwhile  *)
(* other requests arrive, clients leave, sessions are deleted and SIGINT   *)
(* may close them all.                                                     *)
(*                                                                         *)
(* A session has the name of the request that created it (its id is a      *)
(* fresh UUID).  What the MCP SDK does inside handleRequest and            *)
(* handlePostMessage is external; only its effect on the session is kept.  *)
(* /health and unknown paths change nothing and are left out.              *)
(*                                                                         *)
(* Definitions named Mut... are slips kept to show which property notices  *)
(* them; they are not part of the model.                                   *)
(***************************************************************************)
EXTENDS Integers

CONSTANTS
    Requests,   \* HTTP requests; a request also names the session it creates
    None,       \* no session id
    Modes,      \* the values of MCP_TRANSPORT to consider
    MaxSignals  \* bound: SIGINTs the process receives

ASSUME SessionsAssumption ==
    /\ None \notin Requests
    /\ Modes \subseteq {"stdio", "http"}
    /\ MaxSignals \in Nat

Signals == 1..MaxSignals

VARIABLES
    phase,      \* of the process: "starting", "running", "exited"
    mode,       \* MCP_TRANSPORT
    vaultOpens, \* would the credential provider open at the moment?
    pc,         \* how far the handler of each request is
    kind,       \* what each request is
    sid,        \* the session id each request carries
    peer,       \* is the client of each request still connected?
    transports, \* the table: sessions registered in it
    session,    \* the transport each session has: made, open, closed
    told,       \* sessions whose id was sent to a client
    loops,      \* of each SIGINT: has it come, which keys are left, which is
                \* being closed
    \* history, read by the properties only
    opened,     \* has a credential provider ever been opened?
    doomed      \* sessions registered and open when the first SIGINT came

vars == <<phase, mode, vaultOpens, pc, kind, sid, peer, transports, session,
          told, loops, opened, doomed>>
process == <<phase, mode, vaultOpens, loops, opened, doomed>>
table   == <<transports, session, told>>
asked   == <<kind, sid, peer>>

Kinds   == {"post", "delete", "init", "sse", "message"}
Waiting == {"body", "newBody", "server", "forwarded"}
Ended   == {"answered", "streaming", "refused", "failed"}

TypeOK ==
    /\ phase \in {"starting", "running", "exited"}
    /\ mode \in Modes
    /\ vaultOpens \in BOOLEAN
    /\ pc \in [Requests -> Waiting \cup Ended \cup {"idle"}]
    /\ kind \in [Requests -> Kinds \cup {"none"}]
    /\ sid \in [Requests -> Requests \cup {None}]
    /\ peer \in [Requests -> BOOLEAN]
    /\ transports \subseteq Requests
    /\ session \in [Requests -> {"none", "made", "open", "closed"}]
    /\ told \subseteq Requests
    /\ loops \in [Signals -> [on : BOOLEAN, left : SUBSET Requests,
                              at : Requests \cup {None}]]
    /\ opened \in BOOLEAN
    /\ doomed \subseteq Requests

Init ==
    /\ phase = "starting"
    /\ mode \in Modes
    /\ vaultOpens \in BOOLEAN
    /\ pc = [r \in Requests |-> "idle"]
    /\ kind = [r \in Requests |-> "none"]
    /\ sid = [r \in Requests |-> None]
    /\ peer = [r \in Requests |-> FALSE]
    /\ transports = {}
    /\ session = [r \in Requests |-> "none"]
    /\ told = {}
    /\ loops = [n \in Signals |-> [on |-> FALSE, left |-> {}, at |-> None]]
    /\ opened = FALSE
    /\ doomed = {}

-----------------------------------------------------------------------------
(* main: over stdio the one MCP server is made at once, and an error ends the
   process; over HTTP the process just listens. *)
Start ==
    /\ phase = "starting"
    /\ \/ /\ mode = "stdio"
          /\ phase' = IF vaultOpens THEN "running" ELSE "exited"
          /\ opened' = vaultOpens
       \/ /\ mode = "http"
          /\ phase' = "running"
          /\ UNCHANGED opened
    /\ UNCHANGED <<mode, vaultOpens, pc, asked, table, loops, doomed>>

Serving == phase = "running" /\ mode = "http"

Goto(r, step) == pc' = [pc EXCEPT ![r] = step]

(* A request arrives: its kind and the session id in its header or query. *)
Receive(r, k, s) ==
    /\ Serving
    /\ pc[r] = "idle"
    /\ kind' = [kind EXCEPT ![r] = k]
    /\ sid' = [sid EXCEPT ![r] = s]
    /\ peer' = [peer EXCEPT ![r] = TRUE]

Protocol(s) == IF kind[s] = "sse" THEN "sse" ELSE "http"

(* transports[sessionId] is there and is an instance of the protocol's class. *)
Usable(s, protocol) == s \in transports /\ Protocol(s) = protocol

(* handleStreamableHttp up to its first await.  "post" stands for GET too,
   which a session receives like a POST and is refused without one. *)
ReceiveStreamable(r) ==
    \E k \in {"post", "delete"}, s \in told \cup {None} :
        /\ Receive(r, k, s)
        /\ \/ Usable(s, "http") /\ Goto(r, "body")
           \/ s = None /\ k = "post" /\ Goto(r, "newBody")
           \/ ~Usable(s, "http") /\ Goto(r, "refused")
        /\ UNCHANGED <<table, process>>

(* handleSseConnect up to its first await: the session is registered before
   it has an MCP server. *)
ReceiveSse(r) ==
    /\ Receive(r, "sse", None)
    /\ transports' = transports \cup {r}
    /\ session' = [session EXCEPT ![r] = "made"]
    /\ Goto(r, "server")
    /\ UNCHANGED <<told, process>>

(* handleSseMessage up to its first await. *)
ReceiveMessage(r) ==
    \E s \in told \cup {None} :
        /\ Receive(r, "message", s)
        /\ Goto(r, IF Usable(s, "sse") THEN "body" ELSE "refused")
        /\ UNCHANGED <<table, process>>

(* parseJsonBody resolves: the request is forwarded to the transport that was
   found when it arrived; without a session, an initialize request makes a
   transport that is not registered yet, and anything else is refused. *)
ReadBody(r) ==
    /\ Serving
    /\ peer[r]
    /\ \/ /\ pc[r] = "body"
          /\ Goto(r, "forwarded")
          /\ UNCHANGED <<kind, session>>
       \/ /\ pc[r] = "newBody"
          /\ Goto(r, "refused")
          /\ UNCHANGED <<kind, session>>
       \/ /\ pc[r] = "newBody"
          /\ Goto(r, "server")
          /\ kind' = [kind EXCEPT ![r] = "init"]
          /\ session' = [session EXCEPT ![r] = "made"]
    /\ UNCHANGED <<sid, peer, transports, told, process>>

(* The client left before the body was complete: parseJsonBody rejects. *)
BodyBreaks(r) ==
    /\ Serving
    /\ ~peer[r]
    /\ pc[r] \in {"body", "newBody"}
    /\ Goto(r, "failed")
    /\ UNCHANGED <<asked, table, process>>

(* onsessioninitialized: the table gets the id the transport generated. *)
Registered(r) == transports \cup {r}

(* createServer opened the provider; server.connect(transport).  A streamable
   session is registered by its transport when that accepts the initialize
   request (it may refuse the request's headers); an SSE session has long
   been, and now sends its id. *)
ConnectServer(r) ==
    /\ Serving
    /\ pc[r] = "server"
    /\ vaultOpens
    /\ opened' = TRUE
    /\ session' = [session EXCEPT ![r] = "open"]
    /\ told' = IF peer[r] THEN told \cup {r} ELSE told
    /\ \/ /\ kind[r] = "init"
          /\ transports' = Registered(r)
          /\ Goto(r, "answered")
       \/ /\ kind[r] = "sse"
          /\ Goto(r, "streaming")
          /\ UNCHANGED transports
    /\ UNCHANGED <<asked, phase, mode, vaultOpens, loops, doomed>>

RefuseInitialize(r) ==
    /\ Serving
    /\ pc[r] = "server"
    /\ vaultOpens
    /\ kind[r] = "init"
    /\ opened' = TRUE
    /\ session' = [session EXCEPT ![r] = "open"]
    /\ Goto(r, "refused")
    /\ UNCHANGED <<asked, transports, told, phase, mode, vaultOpens, loops,
                   doomed>>

MutNoCatch(r) == UNCHANGED pc                    \* no catch, no status 500

(* The catch of the request handler: status 500. *)
AnswerError(r) == Goto(r, "failed")

(* createServer throws. *)
ServerFails(r) ==
    /\ Serving
    /\ pc[r] = "server"
    /\ ~vaultOpens
    /\ AnswerError(r)
    /\ UNCHANGED <<asked, table, process>>

MutNoOnclose(s) == transports                \* no onclose, or set too late

(* The onclose set on a streamable transport. *)
AfterClose(s) == transports \ {s}

(* transport.handleRequest or existing.handlePostMessage: a DELETE closes the
   session, anything else leaves it as it is.  A transport closed meanwhile
   gets the request all the same. *)
Handle(r) ==
    /\ Serving
    /\ pc[r] = "forwarded"
    /\ LET s == sid[r] IN
          \/ /\ kind[r] = "delete"
             /\ session' = [session EXCEPT ![s] = "closed"]
             /\ transports' = AfterClose(s)
          \/ /\ kind[r] # "delete"
             /\ UNCHANGED <<session, transports>>
    /\ Goto(r, "answered")
    /\ UNCHANGED <<asked, told, process>>

MutForgetAlways(r) == TRUE          \* the listener on every response

(* Does the response of r have the listener that forgets the session? *)
ForgetsOnClose(r) == kind[r] = "sse"

(* The client of r leaves, or the server has ended its response.  The close
   event of an SSE response forgets the session; if the MCP server had been
   connected by then, the transport is closed too. *)
PeerLeaves(r) ==
    /\ Serving
    /\ peer[r]
    /\ peer' = [peer EXCEPT ![r] = FALSE]
    /\ transports' = IF ForgetsOnClose(r) THEN transports \ {r} ELSE transports
    /\ session' = [session EXCEPT ![r] =
                      IF kind[r] = "sse" /\ @ = "open" THEN "closed" ELSE @]
    /\ UNCHANGED <<pc, kind, sid, told, process>>

-----------------------------------------------------------------------------
(* SIGINT.                                                                 *)

ShuttingDown == \E n \in Signals : loops[n].on

(* The handler takes the keys the table has now. *)
Interrupt(n) ==
    /\ Serving
    /\ ~loops[n].on
    /\ loops' = [loops EXCEPT ![n] = [on |-> TRUE, left |-> transports,
                                      at |-> None]]
    /\ doomed' = IF ShuttingDown THEN doomed
                 ELSE {s \in transports : session[s] = "open"}
    /\ UNCHANGED <<phase, mode, vaultOpens, opened, pc, asked, table>>

MutNoTry(s) == s \in transports     \* close() of undefined ends the loop

(* Does the loop survive the key s?  transports[s] may be undefined by now;
   the error is caught. *)
Survives(s) == TRUE

(* transports[s].close(): a streamable session is forgotten by its onclose, an
   SSE session that has no MCP server yet is not closed by it. *)
CloseNext(n) ==
    /\ Serving
    /\ loops[n].on /\ loops[n].at = None
    /\ \E s \in loops[n].left :
          /\ Survives(s)
          /\ loops' = [loops EXCEPT ![n] =
                          [on |-> TRUE, left |-> @.left \ {s}, at |-> s]]
          /\ session' = [session EXCEPT ![s] =
                            IF s \in transports /\ @ = "open" THEN "closed"
                                                              ELSE @]
          /\ transports' = IF Protocol(s) = "http" THEN AfterClose(s)
                                                   ELSE transports
    /\ UNCHANGED <<phase, mode, vaultOpens, opened, doomed, pc, asked, told>>

(* The awaited close() is over: delete transports[s]. *)
ForgetNext(n) ==
    /\ Serving
    /\ loops[n].at # None
    /\ transports' = transports \ {loops[n].at}
    /\ loops' = [loops EXCEPT ![n].at = None]
    /\ UNCHANGED <<phase, mode, vaultOpens, opened, doomed, pc, asked, session,
                   told>>

MutNotAwaited(n) == TRUE            \* the loop is not awaited

LoopOver(n) == loops[n].left = {} /\ loops[n].at = None

(* process.exit(0). *)
Exit(n) ==
    /\ Serving
    /\ loops[n].on
    /\ LoopOver(n)
    /\ phase' = "exited"
    /\ UNCHANGED <<mode, vaultOpens, opened, doomed, loops, pc, asked, table>>

(* The vault or its mount breaks, or is repaired. *)
VaultChanges ==
    /\ phase # "exited"
    /\ vaultOpens' = ~vaultOpens
    /\ UNCHANGED <<phase, mode, loops, opened, doomed, pc, asked, table>>

-----------------------------------------------------------------------------
Progress(r) ==
    \/ ReadBody(r)
    \/ BodyBreaks(r)
    \/ ConnectServer(r)
    \/ RefuseInitialize(r)
    \/ ServerFails(r)
    \/ Handle(r)

Shutdown(n) == CloseNext(n) \/ ForgetNext(n) \/ Exit(n)

Next ==
    \/ Start
    \/ \E r \in Requests :
          \/ ReceiveStreamable(r)
          \/ ReceiveSse(r)
          \/ ReceiveMessage(r)
          \/ Progress(r)
          \/ PeerLeaves(r)
    \/ \E n \in Signals : Interrupt(n) \/ Shutdown(n)
    \/ VaultChanges

Spec == Init /\ [][Next]_vars

(* A body is received or its client leaves; opening the provider and closing
   a transport come to an end. *)
Fairness ==
    /\ \A r \in Requests : WF_vars(Progress(r))
    /\ \A n \in Signals : WF_vars(Shutdown(n))

FairSpec == Spec /\ Fairness

-----------------------------------------------------------------------------
(* Properties.                                                             *)

(* The table holds no closed session, save one that SIGINT is closing, and no
   SSE session whose client has left. *)
ClosedIsForgotten ==
    \A s \in transports :
        /\ session[s] = "closed" => \E n \in Signals : loops[n].at = s
        /\ kind[s] = "sse" => peer[s]

(* A client that was told a session's id can use it until the session is
   closed or the server shuts down, whatever other requests come and go. *)
OpenIsReachable ==
    \A s \in told : session[s] = "open" /\ ~ShuttingDown => s \in transports

(* "Graceful shutdown": when the process exits, the sessions that were open at
   the SIGINT have been closed, also when a second SIGINT came meanwhile. *)
ShutdownCloses ==
    phase = "exited" => \A s \in doomed : session[s] = "closed"

(* Every request gets a response or is handed to the SDK, or its client has
   left, or the process is gone: no failure leaves a client waiting. *)
EveryRequestEnds ==
    \A r \in Requests :
        pc[r] \in Waiting ~> pc[r] \in Ended \/ ~peer[r] \/ phase = "exited"

(* A SIGINT ends the process, although sessions may vanish from the table
   while they are being closed. *)
ShutdownEnds == ShuttingDown ~> phase = "exited"

(* index.ts, before the HTTP server: "Pre-create the MCP server (opens the
   credential provider once, fail-fast)": a running server has opened its
   provider. *)
FailsFast == phase = "running" => opened

=============================================================================
