------------------------------ MODULE RestCall ------------------------------
(***************************************************************************)
(* Calling a device's REST API: query, execute and raw of                  *)
(* src/rest/rest-transport.ts.                                             *)
(*                                                                         *)
(* A call picks the HTTP method, sends a request under a timer, and reads  *)
(* the body of the response.  The timer runs while fetch is pending: until *)
(* the response's headers are there, not its body.  The device works on    *)
(* the command for as long as the command lasts and then sends headers and *)
(* body; it goes on when the caller has given up.                          *)
(*                                                                         *)
(* Time is counted per call in a unit of which Timeout, the duration of    *)
(* commands and the life of a call are small multiples.  A clock stands    *)
(* still at the end of a timer that has not fired, so that a timer is      *)
(* never late.  fetch is external: once aborted it rejects; a body ends,   *)
(* or breaks off, some time after its headers.                             *)
(*                                                                         *)
(* Definitions named Mut... are slips kept to show which property notices  *)
(* them; they are not part of the model.                                   *)
(***************************************************************************)
EXTENDS Integers

CONSTANTS
    Calls,
    Requests,       \* the requests callers make
    Timeout,        \* timeoutMs
    Longest,        \* bound: the longest a command takes
    Horizon         \* bound: how long a call is watched

NoRequest == [operation |-> "none", path |-> "none", args |-> FALSE,
              method |-> "none"]

Shapes == [operation : {"query", "execute", "raw"},
           path : {"table", "item", "command"},
           args : BOOLEAN,
           method : {"none", "POST"}]

ASSUME RestAssumption ==
    /\ Requests \subseteq Shapes
    /\ Timeout \in Nat
    /\ Longest \in Nat
    /\ Horizon \in Nat

VARIABLES
    pc,         \* how far each call is
    request,    \* what each call asks for
    sent,       \* the HTTP method of each call
    duration,   \* how long the device will work on each call
    elapsed,    \* the clock of each call
    armed,      \* calls whose timer is running
    device,     \* what each call's device has done
    outcome     \* how each call was settled

vars == <<pc, request, sent, duration, elapsed, armed, device, outcome>>
asked == <<request, sent, duration>>

Open     == {"fetch", "body", "errorBody"}
Outcomes == {"data", "timeout", "network", "status", "broken"}
Methods  == {"GET", "PUT", "PATCH", "DELETE", "POST"}

TypeOK ==
    /\ pc \in [Calls -> Open \cup {"idle", "settled"}]
    /\ request \in [Calls -> Shapes \cup {NoRequest}]
    /\ sent \in [Calls -> Methods \cup {"none"}]
    /\ duration \in [Calls -> -1..Longest]
    /\ elapsed \in [Calls -> 0..Horizon]
    /\ armed \subseteq Calls
    /\ device \in [Calls -> {"idle", "done", "refused"}]
    /\ outcome \in [Calls -> Outcomes \cup {"none"}]

Init ==
    /\ pc = [c \in Calls |-> "idle"]
    /\ request = [c \in Calls |-> NoRequest]
    /\ sent = [c \in Calls |-> "none"]
    /\ duration = [c \in Calls |-> 0]
    /\ elapsed = [c \in Calls |-> 0]
    /\ armed = {}
    /\ device = [c \in Calls |-> "idle"]
    /\ outcome = [c \in Calls |-> "none"]

-----------------------------------------------------------------------------
inferMethod(r) ==
    CASE r.path = "item" /\ ~r.args -> "DELETE"
      [] r.path = "item" /\ r.args  -> "PATCH"
      [] r.path # "item" /\ r.args  -> "PUT"
      [] OTHER                      -> "POST"

(* query sends GET, raw sends POST, execute the method it is given or the one
   inferred from the path and the arguments. *)
MethodOf(r) ==
    CASE r.operation = "query" -> "GET"
      [] r.operation = "raw"   -> "POST"
      [] OTHER                 -> IF r.method # "none" THEN r.method
                                                       ELSE inferMethod(r)

WithTimer(c) == armed \cup {c}

MutNoFinally(c) == armed             \* cleared only when fetch fails

(* finally: the timer is cleared whenever fetch ends. *)
Cleared(c) == armed \ {c}

(* request() up to fetch; the device will work on it for d. *)
Send(c, r, d) ==
    /\ pc[c] = "idle"
    /\ request' = [request EXCEPT ![c] = r]
    /\ sent' = [sent EXCEPT ![c] = MethodOf(r)]
    /\ duration' = [duration EXCEPT ![c] = d]
    /\ pc' = [pc EXCEPT ![c] = "fetch"]
    /\ armed' = WithTimer(c)
    /\ UNCHANGED <<elapsed, device, outcome>>

(* The timer's time is over. *)
Due(c) == c \in armed /\ elapsed[c] >= Timeout

Tick(c) ==
    /\ pc[c] \in Open
    /\ ~Due(c)
    /\ elapsed[c] < Horizon
    /\ elapsed' = [elapsed EXCEPT ![c] = @ + 1]
    /\ UNCHANGED <<pc, asked, armed, device, outcome>>

(* The device gets to the end of the command or refuses it, possibly when the
   call has given up. *)
DeviceActs(c) ==
    /\ pc[c] # "idle"
    /\ device[c] = "idle"
    /\ \/ /\ elapsed[c] >= duration[c] \/ pc[c] = "settled"
          /\ device' = [device EXCEPT ![c] = "done"]
       \/ device' = [device EXCEPT ![c] = "refused"]
    /\ UNCHANGED <<pc, asked, elapsed, armed, outcome>>

Settle(c, how) ==
    /\ pc' = [pc EXCEPT ![c] = "settled"]
    /\ outcome' = [outcome EXCEPT ![c] = how]

MutAnyStatus(c) == "body"            \* response.ok is not looked at

(* response.ok: the status is a success. *)
AfterHeaders(c) == IF device[c] = "done" THEN "body" ELSE "errorBody"

(* fetch resolves: the headers have arrived and the timer is cleared. *)
HeadersArrive(c) ==
    /\ pc[c] = "fetch"
    /\ device[c] # "idle"
    /\ pc' = [pc EXCEPT ![c] = AfterHeaders(c)]
    /\ armed' = Cleared(c)
    /\ UNCHANGED <<asked, elapsed, device, outcome>>

(* fetch rejects by itself: no connection, or it broke. *)
FetchFails(c) ==
    /\ pc[c] = "fetch"
    /\ Settle(c, "network")
    /\ armed' = armed \ {c}
    /\ UNCHANGED <<asked, elapsed, device>>

(* The timer aborts the fetch, which rejects: handleNetworkError makes it
   "Request timed out". *)
TimerFires(c) ==
    /\ Due(c)
    /\ pc[c] = "fetch"
    /\ Settle(c, "timeout")
    /\ armed' = armed \ {c}
    /\ UNCHANGED <<asked, elapsed, device>>

(* The body of a success: query and raw need JSON and throw without it,
   execute takes text, JSON or nothing at all. *)
BodyEnds(c) ==
    /\ pc[c] = "body"
    /\ \/ Settle(c, "data")
       \/ request[c].operation # "execute" /\ Settle(c, "broken")
    /\ UNCHANGED <<asked, elapsed, armed, device>>

BodyBreaks(c) ==
    /\ pc[c] = "body"
    /\ Settle(c, "broken")
    /\ UNCHANGED <<asked, elapsed, armed, device>>

(* handleHttpError: the status is reported, with what detail the body gives
   or without. *)
ErrorBodyEnds(c) ==
    /\ pc[c] = "errorBody"
    /\ Settle(c, "status")
    /\ UNCHANGED <<asked, elapsed, armed, device>>

-----------------------------------------------------------------------------
SendAny(c) == \E r \in Requests, d \in 0..Longest : Send(c, r, d)

(* What happens to a call once it was sent. *)
Step(c) ==
    \/ Tick(c)
    \/ DeviceActs(c)
    \/ HeadersArrive(c)
    \/ FetchFails(c)
    \/ TimerFires(c)
    \/ BodyEnds(c)
    \/ BodyBreaks(c)
    \/ ErrorBodyEnds(c)

Next == \E c \in Calls : SendAny(c) \/ Step(c)

Spec == Init /\ [][Next]_vars

-----------------------------------------------------------------------------
(* Properties.                                                             *)

(* The timer runs as long as the wait for the device and no longer: a call
   that has not heard from it is given up as soon as the time is over, and no
   timer is left to abort a body that is being read or to keep the process
   alive. *)
TimerCoversWait ==
    /\ armed = {c \in Calls : pc[c] = "fetch"}
    /\ \A c \in armed : elapsed[c] <= Timeout

(* architecture.md, "REST API specifics": PUT adds to a table, PATCH sets and
   DELETE removes an item, and POST runs a command. *)
Documented(r) ==
    CASE r.operation = "query" -> {"GET"}
      [] r.operation = "raw"   -> {"POST"}
      [] r.operation = "execute" /\ r.path = "command" -> {"POST"}
      [] r.operation = "execute" /\ r.path = "table"   -> {"PUT"}
      [] r.operation = "execute" /\ r.path = "item"    -> {"PATCH", "DELETE"}

Told(c) ==
    CASE pc[c] = "idle"                              -> "nothing"
      [] pc[c] \in Open                              -> "waiting"
      [] pc[c] = "settled" /\ outcome[c] = "data"     -> "data"
      [] OTHER                                       -> "error"

Promised == INSTANCE DeviceCall WITH
    told    <- [c \in Calls |-> Told(c)],
    carried <- {c \in Calls : device[c] = "done"}

(* The REST transport keeps the promise of the DeviceTransport interface:
   data means done. *)
ImplementsDeviceCall == Promised!Spec

(* architecture.md, "Diagnostic/Action Commands": "These use the POST method
   in REST". *)
CommandsArePosted ==
    \A c \in Calls : pc[c] # "idle" /\ request[c].path = "command" =>
        sent[c] \in Documented(request[c])

(* README, ROUTEROS_TIMEOUT_MS: "REST request timeout": no request lasts
   longer. *)
RequestsEndInTime == \A c \in Calls : pc[c] \in Open => elapsed[c] <= Timeout

=============================================================================
