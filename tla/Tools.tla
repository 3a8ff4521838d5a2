------------------------------- MODULE Tools -------------------------------
(***************************************************************************)
(* Which tools a server offers and what their calls ask of devices: the    *)
(* second half of createServer in src/server.ts and the registrations of   *)
(* src/tools, over the REST transport of RestCall.                         *)
(*                                                                         *)
(* A session's server is made in one synchronous stretch: in read-only     *)
(* mode registerTool is wrapped first, so that every registration after it *)
(* passes the allow-list, and what was withheld is reported on the next    *)
(* tick.  A call of a tool then sends a request to each targeted device.   *)
(*                                                                         *)
(* A tool is its name, the shapes of the requests its handler makes over   *)
(* REST, and whether its command is given a duration capped by the tool.   *)
(* device-list sends nothing, ros-command goes over SSH (SshCommand), and  *)
(* setup-new-device sends several requests (SetupDevice).  Paths, names    *)
(* of arguments and contents are left out.                                 *)
(*                                                                         *)
(* Definitions named Mut... are slips kept to show which property notices  *)
(* them; they are not part of the model.                                   *)
(***************************************************************************)
EXTENDS RestCall, FiniteSets

CONSTANTS
    MaxDuration,    \* MAX_REST_DURATION
    NaN,            \* what parseInt makes of a text that is no number
    None            \* no tool

ASSUME ToolsAssumption == MaxDuration \in 1..Longest

Shape(operation, args, method) ==
    [operation |-> operation, args |-> args, method |-> method,
     path |-> IF operation = "query" THEN "table" ELSE "command"]

Ask   == Shape("query", FALSE, "none")
Run   == Shape("execute", TRUE, "none")
Start == Shape("execute", FALSE, "none")
Post  == Shape("execute", TRUE, "POST")

Tool(shapes, capped, names) ==
    [name : names, sends : {shapes}, capped : {capped}]

Asking(names)    == Tool({Ask}, FALSE, names)
Running(names)   == Tool({Run}, FALSE, names)
Measuring(names) == Tool({Run}, TRUE, names)

----------------------------------------------------------------------------
(* The tools, by the function that registers them *)

ServerTools == Tool({}, FALSE, {"device-list", "ros-command"})

SystemTools == Asking({"system-identity-get", "system-clock-get"})

HealthTools == Asking(
    {"system-health-get", "system-routerboot-get", "system-watchdog-get"})

PackageTools == Asking(
    {"system-packages-list", "system-history-get", "system-license-get"})

NoteTools == Asking({"system-note-get", "system-lcd-get"})

LogTools == Asking({"log-get", "files-list"})

CertificateTools == Asking({"system-certificates-list"})

InterfaceTools == Asking(
    {"interface-list", "interface-stats", "interface-lists"})

BridgeTools == Asking(
    {"bridge-list", "bridge-ports", "bridge-vlans", "bridge-hosts", "ip-neighbors"})

IpTools == Asking(
    {"ip-address-list", "ip-arp-list", "ip-routes-list", "ip-pool-list",
     "ip-settings-get"})

FirewallTools == Asking(
    {"firewall-filter-list", "firewall-nat-list", "firewall-mangle-list",
     "firewall-address-list", "firewall-connections-list", "ip-services-list",
     "radius-list"})

DhcpDnsTools == Asking(
    {"dhcp-client-list", "dhcp-server-list", "dhcp-server-leases",
     "dhcp-server-networks", "dns-static-list", "dns-get"})

PppUserTools == Asking(
    {"ppp-profiles-list", "ppp-secrets-list", "ppp-active-list",
     "system-users-list", "system-scheduler-list", "system-logging-list",
     "system-scripts-list", "ppp-aaa-get"})

AdminTools == Asking({"system-ntp-get", "system-snmp-get"})

Probes == Running({"tools-ping", "tools-traceroute"})

Measurements == Measuring(
    {"tools-bandwidth-test", "tools-torch", "tools-packet-sniffer",
     "tools-profile"})

Netwatch == Asking({"tools-netwatch-list"})

Errands ==
    Running({"tools-fetch", "tools-wol"})
    \cup Tool({Start}, FALSE, {"tools-speed-test"})

Scans == Measuring({"tools-mac-scan", "tools-ip-scan"})

TrafficGenerator == Running({"tools-traffic-gen"})

DiagnosticTools ==
    UNION {Probes, Measurements, Netwatch, Errands, Scans, TrafficGenerator}

SetupTools(canStore) ==
    IF canStore THEN Tool({Ask, Post}, FALSE, {"setup-new-device"}) ELSE {}

\* A slip: the firewall section is left out.
MutSections(canStore) ==
    UNION {SystemTools, HealthTools, PackageTools, NoteTools, LogTools,
           CertificateTools, InterfaceTools, BridgeTools, IpTools, DhcpDnsTools,
           PppUserTools, AdminTools, DiagnosticTools, SetupTools(canStore)}

SectionTools(canStore) ==
    UNION {SystemTools, HealthTools, PackageTools, NoteTools, LogTools,
           CertificateTools, InterfaceTools, BridgeTools, IpTools,
           FirewallTools, DhcpDnsTools, PppUserTools, AdminTools,
           DiagnosticTools, SetupTools(canStore)}

READ_ONLY_TOOLS ==
    {"device-list",
     "bridge-hosts", "bridge-list", "bridge-ports", "bridge-vlans",
     "dhcp-client-list", "dhcp-server-leases", "dhcp-server-list",
     "dhcp-server-networks", "dns-get", "dns-static-list",
     "firewall-address-list", "firewall-connections-list",
     "firewall-filter-list", "firewall-mangle-list", "firewall-nat-list",
     "interface-list", "interface-lists", "interface-stats",
     "ip-address-list", "ip-arp-list", "ip-neighbors", "ip-pool-list",
     "ip-routes-list", "ip-services-list", "ip-settings-get",
     "ppp-aaa-get", "ppp-active-list", "ppp-profiles-list", "ppp-secrets-list",
     "radius-list", "files-list", "log-get", "tools-netwatch-list",
     "system-certificates-list", "system-clock-get", "system-health-get",
     "system-history-get", "system-identity-get", "system-license-get",
     "system-logging-list", "system-note-get", "system-ntp-get",
     "system-packages-list", "system-routerboot-get", "system-scheduler-list",
     "system-scripts-list", "system-snmp-get", "system-users-list",
     "system-watchdog-get", "system-lcd-get"}

----------------------------------------------------------------------------
VARIABLES
    readOnly,   \* READ_ONLY is set
    writable,   \* the provider can store entries
    stage,      \* of the server: "none", "made", "told"
    reported,   \* the names in its note on the log
    tool,       \* the name of the tool that made each call, or None
    shell       \* calls handed to the SSH transport

server == <<readOnly, writable, stage, reported>>
toolVars == <<vars, server, tool, shell>>

Names(tools) == {t.name : t \in tools}

AllTools == ServerTools \cup SectionTools(TRUE)

ASSUME NoneIsNoTool == None \notin Names(AllTools)

Registered == ServerTools \cup SectionTools(writable)

\* A slip: a deny-list in place of the allow-list.
MutDenyList(t) == readOnly => t.name \notin {"ros-command", "setup-new-device"}

\* The wrapper around registerTool.
Exposed(t) == readOnly => t.name \in READ_ONLY_TOOLS

Offered == IF stage = "none" THEN {} ELSE {t \in Registered : Exposed(t)}

ToolsInit ==
    /\ Init
    /\ readOnly \in BOOLEAN
    /\ writable \in BOOLEAN
    /\ stage = "none"
    /\ reported = {}
    /\ tool = [c \in Calls |-> None]
    /\ shell = {}

\* The tools are registered, with the wrapper before them or without.
CreateServer ==
    /\ stage = "none"
    /\ stage' = "made"
    /\ UNCHANGED <<readOnly, writable, reported, tool, shell, vars>>

\* process.nextTick: the note on what was withheld, when anything was.
NoteWithheld ==
    /\ stage = "made"
    /\ stage' = "told"
    /\ reported' = Names(Registered) \ Names(Offered)
    /\ UNCHANGED <<readOnly, writable, tool, shell, vars>>

\* A slip: only what is no number is replaced.
MutNoCap(d) == IF d = NaN THEN MaxDuration ELSE d

\* A duration that is too long, or no number, becomes the longest allowed.
clampDuration(d) == IF d = NaN \/ d > MaxDuration THEN MaxDuration ELSE d

\* How long a device may take for the request of a tool that a caller asked
\* to last d; tools without a cap do not pass a duration on.
Lengths(t, d) == IF t.capped THEN {clampDuration(d)} ELSE 0..Longest

\* A call of a tool reaches one of its devices.
CallTool(c) ==
    /\ tool[c] = None
    /\ \E t \in Offered, d \in {NaN} \cup -1..Longest :
          /\ \E r \in t.sends, l \in Lengths(t, d) : Send(c, r, l)
          /\ tool' = [tool EXCEPT ![c] = t.name]
    /\ UNCHANGED <<server, shell>>

\* ros-command: raw of the SSH transport.
CallShell(c) ==
    /\ "ros-command" \in Names(Offered)
    /\ pc[c] = "idle" /\ tool[c] = None
    /\ tool' = [tool EXCEPT ![c] = "ros-command"]
    /\ shell' = shell \cup {c}
    /\ UNCHANGED <<server, vars>>

\* Nobody else in the server uses the transport; what else its interface
\* allows is what its tests ask for.
CallDirectly(c) ==
    /\ tool[c] = None
    /\ SendAny(c)
    /\ UNCHANGED <<server, tool, shell>>

ToolsNext ==
    \/ CreateServer
    \/ NoteWithheld
    \/ \E c \in Calls :
          \/ CallTool(c)
          \/ CallShell(c)
          \/ CallDirectly(c)
          \/ Step(c) /\ UNCHANGED <<server, tool, shell>>

ToolsSpec == ToolsInit /\ [][ToolsNext]_toolVars

----------------------------------------------------------------------------
(* Properties *)

ToolsTypeOK ==
    /\ TypeOK
    /\ readOnly \in BOOLEAN /\ writable \in BOOLEAN
    /\ stage \in {"none", "made", "told"}
    /\ reported \subseteq Names(AllTools)
    /\ tool \in [Calls -> Names(AllTools) \cup {None}]
    /\ shell \subseteq Calls

\* In read-only mode no call of a tool makes a device change or start
\* anything: the allow-list, the handlers of all the sections and the method
\* inferred from their requests agree ("strictly state-querying tools",
\* READ_ONLY_TOOLS).
ReadOnlyChangesNothing ==
    readOnly =>
        /\ shell = {}
        /\ \A c \in Calls : tool[c] # None => sent[c] = "GET"

\* In read-only mode a server offers every name of the allow-list, as its
\* message on the number of tools claims, every tool that only asks is on the
\* list ("Keep this in sync when adding new read-only tools"), and the note
\* names all the others.
AllowListIsInSync ==
    readOnly /\ stage # "none" =>
        /\ Names(Offered) = READ_ONLY_TOOLS
        /\ \A t \in AllTools : t.sends = {Ask} => t.name \in READ_ONLY_TOOLS
        /\ stage = "told" => reported = Names(Registered) \ READ_ONLY_TOOLS

IsCapped(c) == \E t \in AllTools : t.name = tool[c] /\ t.capped

\* clampDuration: whatever duration was asked for, and although nobody tells a
\* device that its caller has given up, a capped command occupies the device
\* for a known time only: when its caller gives up the device is done, or will
\* be as soon as the cap exceeds the time-out.
CappedCommandsEnd ==
    \A c \in Calls : outcome[c] = "timeout" /\ IsCapped(c) =>
        \/ elapsed[c] >= duration[c]
        \/ duration[c] - elapsed[c] <= MaxDuration - Timeout

\* "Maximum duration (seconds) for long-running commands to stay within 60s
\* REST timeout": a capped command is never given up before the device can be
\* at its end.  With the default time-out of 10 s it is.
CappedCommandsFit ==
    \A c \in Calls : outcome[c] = "timeout" /\ IsCapped(c) =>
        elapsed[c] >= duration[c]

=============================================================================
