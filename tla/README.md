# Formal models of mikrotik-mcp

TLA+ models of the MikroTik MCP server, with TLC configurations that check
them on small instances and TLAPS proofs of the results that matter most for
every instance. Paths such as `src/fan-out.ts` are relative to the program's
root; PROJECT.json gives for every definition the lines it stands for.

Contents: [the system](#the-system), [modules](#modules), [runs](#runs),
[disagreements](#where-code-and-documents-disagree), [proofs](#what-is-proved),
[what is left out](#what-is-not-modelled), [plan](#plan).

## The system

The server gives an MCP client (a language model) tools that read and set up
MikroTik routers. One process serves one client over stdio, or many over HTTP.

```
 client --HTTP/stdio--> index.ts -- one MCP server per session --> server.ts
                         table of                                    |
                         transports             registers tools/*.ts |
                                                                     v
        KeePass vault <-- credentials/ <------ fan-out.ts <------ a tool call
        device file        keepass/                |
        environment                                | one callback per device
                                                   v
                            rest-transport.ts / ssh-transport.ts --> routers
```

| Component | State it keeps | Operations | Interacts with |
|---|---|---|---|
| KeePass vault writer, `keepass/keepass-client.ts` | a map from vault path to the last promise of a chain; the vault file and a temp file beside it | `createEntry` | other processes that save the same file; called by setup |
| Credential providers, `credentials/*`, `keepass-client.ts` | the provider selected; nothing is cached between calls | select, `open`, `listDevices`, `resolveCredentials` | read by fan-out and `createServer`; the operator edits the source |
| Device bootstrap, `tools/setup.ts` | the stage of the run; the device's password, port and name; the vault entry | the seven steps of `setup-new-device`, roll-back | one device over REST, the vault writer |
| Fan-out, `fan-out.ts` | credentials, failures and outcomes of one call | resolve targets, run callbacks, pair results | providers, transports |
| HTTP entry point, `index.ts` | the table of transports by session id | POST/GET/DELETE `/mcp`, GET `/sse`, POST `/messages`, SIGINT | MCP SDK, `createServer` |
| SSH transport, `ssh/ssh-transport.ts` | per command: a timer, a connection, the settled flag, the output | `query`, `execute`, `raw` | ssh2, device |
| REST transport, `rest/rest-transport.ts` | per request: a timer | `query`, `execute`, `raw` | fetch, device |
| Output parsers, `parsers.ts`, `parseInterfaceStats` | none | reading records out of printed text | `query` of the SSH transport; no tool's handler calls them |
| Server assembly, `server.ts` | `providerSummaryLogged`; per server its tools | `createServer`, READ_ONLY, deferred note | providers, sections |
| Section tools, diagnostics, `tools/*` | none | one handler per tool | fan-out |

### What is hard, and what correct means

*KeePass vault writer.* Calls of one process must write one at a time although
calls fail, are cleaned up and arrive in between; other processes save the same
file; each file operation may fail; the process may die. Correct: writes are
serial, the caller's answer is true of the file, titles stay unique, what others
saved survives unless it was saved after the last look at the file, every call
settles.

*Device bootstrap.* The device's password changes before it is recorded. The
answer to each request may be lost, the request may be served late, storing may
fail, taking the password back may fail, and two runs may be aimed at one device
or one identity. Correct: success lasts, a stored password opens its device, no
password is on a device that nobody has recorded (except where the answer to
the request that set it was lost, or the process died).

*Fan-out.* The vault changes between the resolution of two ids; callbacks settle
in any order; results are paired by position. Correct: one answer per id named,
data only from a host that id led to during the call, a success for every device
that reported one although others fail, and the call returns.

*Sessions.* Handlers await bodies and new servers while clients leave, sessions
are deleted and SIGINT closes them all. Correct: the table agrees with the
sessions, what was closed stays closed, every request and every shutdown ends.

*Transports.* Timer, errors, exec and stream events race to settle one promise;
devices go on after the caller gave up. Correct: one settlement, no timer or
connection left, a timer exactly while the device is waited for, data only if the
device did the command, no command to a host whose key was rejected.

*Providers.* Sources are edited while they are read, several sessions start at
once, the environment may contradict itself. Correct: one clear source, answers
current as of the call.

*Parsers.* Several readings of a text are tried in turn; lines, flags, headers
and quotes delimit records; counters are printed with blanks in them, and the
pattern for one also finds the end of a longer name. Correct: what is read is
what was printed, and where the patterns cannot tell, which part of it is read.
These are kept for reading over SSH: `server.ts:143` gives the structured tools
a REST transport, and `ros-command` passes the raw text on (239-243), so no
handler calls `query` of the SSH transport or any `parse...` function today.

*Server assembly and tools.* The allow-list of READ_ONLY is written by hand apart
from the handlers; durations a model asks for meet a time-out an operator set.
Correct: in read-only mode nothing any tool does changes a device, the list and
the handlers agree, and a capped command whose caller has given up ends in known
time.

PROJECT.json lists each hazard at its line with the properties that cover it, or
the reason why none does.

## Modules

A definition whose name begins with `Mut` is a slip a programmer could make in
the definition that follows it. It is not part of the model; putting it in that
definition's place shows that a property notices (PROJECT.json, "mutants").
Every module with variables of its own states their types as `TypeOK`; the runs
check it for VaultWriter and SetupDevice, and for FanOut, Sessions, SshCommand,
RestCall, Tools and Parsers the proofs contain it or a stronger form of it. History
variables are marked in each module and the code's actions do not read them; the
environment's may (`edits`, `added` and `crashes` of VaultWriter bound it).

| Module | Role |
|---|---|
| `AtomicVault` | what `createEntry` promises: entries appear in one step, oldest call first |
| `VaultWriter`, `MCVaultWriter` | `createEntry`, `serializeWrite`, `writeEntry`, `replaceVaultFile` |
| `VaultWriterProofs` | theorems about the queue, and about the file |
| `SetupDevice`, `MCSetupDevice`, `SetupProofs` | `setupDevice` and theorems about it |
| `SetupVault`, `MCSetupVault`, `SetupVaultProofs` | `setupDevice` over the real vault writer: SetupDevice and VaultWriter composed |
| `FanOut`, `MCFanOut`, `FanOutProofs` | `fanOut`, `executeAll`, over the calls of DeviceCall |
| `Sessions`, `MCSessions`, `SessionsProofs` | the process and the handlers of `index.ts` |
| `DeviceCall` | what the `DeviceTransport` interface promises |
| `SshCommand`, `MCSshCommand` | `executeCommand` |
| `RestCall`, `MCRestCall` | `request` and its callers |
| `Tools`, `MCTools`, `ToolsProofs` | the tool tables of all sections, `READ_ONLY_TOOLS`, the deferred note, `clampDuration`, and the calls of the tools over RestCall; theorems about RestCall and Tools |
| `Providers`, `MCProviders`, `ProvidersProofs` | selection, opening, reading of all providers, the head of `createServer` |
| `Parsers`, `MCParsers` | `parseKeyValue`, `parseDetailRecords`, `parseTabularRecords`, the SSH `query`, `parseInterfaceStats` |
| `SshProofs` | theorems about SshCommand, and about Parsers, which read what its commands bring |

How state and actions correspond to the code:

*VaultWriter.* `tail` is the map's entry for the vault path, `prev[c]` the
promise call `c` hung itself on. An action ends where the code awaits something
others can observe: `Enqueue` is the synchronous part of `createEntry`, `Start`
the reaction that begins the task, `ReadVault` the read (parsing, adding and
serialising work on a private copy), `Compare` the second read with the
fingerprint check, `WriteTemp` .. `Rename` and `BeginInPlace`, `EndInPlace` the
two routes of `replaceVaultFile`, each with its failures (the removal of the temp
file among them, which then stays), `Settle` the clean-up
of the map. `OutsideSave` and `Crash` are the environment. A file is the set of
its entries, whether it is complete, and a version that stands for the SHA-256
fingerprint (every save writes fresh salts, so no two saves give equal bytes).
`LateEdits` and `InPlaceWrites` switch two faults off for the refinement only.

*SetupDevice.* One action per awaited step; a request is served and answered,
or its sender gives up and it may still be served at any later time
(`ServeLate`). Step 6 uses the vault as `AtomicVault` describes it. Others may
erase an entry at any time (`OthersErase`), as a desktop KeePass does that saves
the older copy it holds (`src/README.md:71`); a store may still write back what
it had read before (`Copies`). `erased` remembers what was erased, for the
properties, which except the entries themselves and nothing else.

*SetupVault.* The steps of SetupDevice and of VaultWriter, each leaving the
other's variables alone, save where they meet: `CallCreateEntry` enqueues a call
of the writer and the run waits, `Resume` takes it on when the call's promise has
settled, and `Crash` ends both, since they are one process. The vault that
SetupDevice sees is the writer's file. `OthersSave` may keep the generated entries
or erase any of them.

*FanOut.* `ListAll` or `BeginList`/`Resolve`/`EndList` resolve the target.
`Execute` starts one call of DeviceCall for each position; `told` and `carried`
are DeviceCall's variables. `DeviceActs` is a device that carries a command out,
perhaps after the caller was told of an error; `CallbackSettles` is what the
callback is told; `Return` waits for all, pairs results and credentials by
position and appends the failures.

*Sessions.* A handler is split at its awaits (body, `createServer`); a session
carries the name of the request that made it. A SIGINT loop (`loops`) walks over
the keys of the table, one close per step, while requests go on.

*SshCommand.* One action per callback of ssh2 and of the timer, plus the device.
`Begin` may end in a rejection at once, when `connect` throws; `settled` is not
set then, and the timer stays until it fires. The server makes its transport with
`acceptAllHostKeys` (`server.ts:151`), so `RejectedHostsStayOut` is about the
checked mode that the transport offers and the server does not use.

*RestCall.* Time is counted per call, so that the timer, the duration of the
command and the body can be compared; the timer ends with the headers.

*Tools.* A tool is its name, the shapes of the requests its handler makes and
whether its duration is capped. `CreateServer` is the synchronous registration
(`Exposed` is the wrapper around `registerTool`), `NoteWithheld` the next tick,
`CallTool` a request of an offered tool with a duration the caller chose,
`CallShell` ros-command, `CallDirectly` what the transport interface allows and
no tool sends; all further steps of a call are RestCall's.

*Providers.* Each operation is a read of the source (`Load`) and what is made of
it. *Parsers.* A device prints records (tokens with positions) piece by piece: a
record begins, a field follows on the same line or the next. One reader of the
code then reads the text whole. `Longer` names the keys that end in another
(`fp-rx-byte`, `default-name`): a search for the shorter finds them too. A loop
of the code over lines or tokens is a function that says what the loop has after
each of its rounds (`Blocks`, `Paragraphs`, `parseKeyValue`, `extractFields`), a
match of a pattern the first token after which it can end (`LastOf`, `Digits`).

### Interplay

`SetupDevice` composes with the vault through `AtomicVault`, which `VaultWriter`
implements under the assumptions of the run VaultAtomic (proved, for any number
of calls), and directly in
`SetupVault`, with saves of others at any time: the run SetupStores shows that
over the detailed writer the bootstrap does nothing SetupDevice does not allow,
so that what holds of SetupDevice holds of the vault file.
`SshCommand` and `RestCall` both implement `DeviceCall` (proved, for every number
of calls), and the callbacks of `FanOut` are calls of `DeviceCall`. `Tools`
extends `RestCall`: the requests on the wire are those of the real tool tables.
`Providers` is what `FanOut` abstracts to a vault that may be unreadable for a
while, and what `Sessions` abstracts to `vaultOpens`.

### External behaviour assumed

The MCP SDK registers a streamable session when it accepts the initialize
request and calls `onclose` on close; ssh2 delivers the events of a connection in
order and opens nothing after `end()`; an aborted `fetch` rejects; a device
serves REST requests one by one and breaks printed lines between fields only, and
prints the name of an interface before the other fields of its record; a desktop
KeePass saves atomically, does not load an incomplete file, and does not itself
add an entry under a title the vault has (KeePass would allow it).

## Runs

Start a run with `tlc -config <run>.cfg <module>`. All configurations say
`CHECK_DEADLOCK FALSE`: an instance has a finite number of calls and requests,
and the system stops rightly when all are settled.

| Run | Asks | Bounds |
|---|---|---|
| VaultWrites | `OneWriter`, `TailIsNewest`, `AcknowledgedIsStored`, `RejectedIsNotStored`, `UniqueTitles`, `EarlyEditsSurvive`, `GivesUpOnlyOnContention`, types | 3 calls, 2 of one title, 1 outside entry with the title of the third, 2 attempts, 2 outside saves, 1 crash, every fault |
| VaultAtomic | `ImplementsAtomicVault`, `EveryCallSettles` | the same calls, saves and crash; no save between check and replacement, no in-place write |
| SetupRuns | `StoredPasswordsWork`, `SuccessIsLasting`, `NoPasswordIsOrphaned`, `ResetMeansGone`, types | 3 runs, 2 devices, 2 identities: two runs share a device, two an identity; port relocated, late requests, erased entries, crashes |
| SetupStores | `ImplementsSetup`, `EverySetupEnds` | 2 runs at 2 devices for one identity, an outside entry of that title, 2 attempts, 2 outside saves at any time which keep or erase entries, 1 crash, late requests; no in-place write |
| SetupRerunMoved | `KeepassFailureIsRerunnable`, which fails | 1 run, port relocated, no crash |
| FanOutCalls | `EveryIdAnswered`, `DataFromOwnDevice`, `AnswersMatchDevices`, `EveryCallReturns` | 2 ids, 2 hosts, "all" and lists of up to 3 ids, 2 changes of the vault |
| SessionsTable | `ClosedIsForgotten`, `OpenIsReachable`, `ShutdownCloses` | 3 requests, stdio and HTTP, 2 SIGINTs; requests are symmetric |
| SessionsLive | `EveryRequestEnds`, `ShutdownEnds` | 2 requests, 1 SIGINT, no symmetry |
| SshCommands | `CallsCleanUp`, `RejectedHostsStayOut`, `DataIsOfTheCommand`, `EveryCallSettles`, `ImplementsDeviceCall` | 2 commands, host keys checked, one connection that may close cleanly at any time, either `connect` may throw |
| ToolCalls | `ReadOnlyChangesNothing`, `AllowListIsInSync`, `CappedCommandsEnd`, `TimerCoversWait`, `ImplementsDeviceCall` | one call of any real tool or of what the interface allows beyond them, READ_ONLY or not, writable or not; in units of 10 s the code's time-out of 1 and cap of 5, durations asked for from -1 to 6 or no number, watched for 7 |
| ProvidersCalls | `AnswersAreCurrent`, `SourceIsUnambiguous` | 2 servers, 2 edits, 6 device lists, each kind of provider, every environment that contradicts itself |
| ParsersRead | `RecordsAreRead`, `StatsAreRead` | 2 records of 2 out of 5 fields, quoted, bare, empty and of two words, a key that ends in another; 3 columns; counters of several groups of digits and one whose name ends in another's; all line breaks, headers, flags |

Why the bounds are enough. Vault: three calls are the fewest where one runs, one
waits and one arrives during a clean-up, two attempts the fewest with a retry
and a last try, two saves the fewest that use all attempts up; the theorems
cover any number. Setup: the shared device, the shared identity and the
bystander need three runs; over the writer two runs for one identity meet in its
queue, at the title check and at the last attempt. Fan-out: three names over two
ids give repeated, unknown and moved ids. Sessions: a session, a message to it
and a deletion, or two sessions under one shutdown and one newcomer, need three
requests; two show the liveness, since requests wait for nothing but their own
session and the process. Commands over SSH and requests over REST share no
state, so one or two suffice; the time-out and the cap stand to each other as
the code's defaults do, and durations above the cap, between the two, below the
time-out and negative ones give every order of the three. Providers: two servers
race for the flag, two edits put an old, a passing and a new content into one
call. Parsers: what separates two records or two fields is the same for more,
and the theorems cover any number.

### Fairness

* VaultWriter: weak fairness of each call's `Step`. The event loop runs every
  ready reaction, file operations end. Nothing is assumed of outside processes.
* Sessions: weak fairness of each handler and each SIGINT loop: a body is
  received or its client leaves, opening a provider and closing a transport end.
* SetupVault: weak fairness of each run's call of createEntry, of each step of that
  call and of the run's going on after it: the event loop and file operations as
  above. Nothing is assumed of devices: a request may hang, since the REST timer
  ends with the headers (`rest-transport.ts:115`) and a device that stalls in the
  middle of a body is waited for without end. `EverySetupEnds` therefore says of
  each run: if its own requests end (`OwnRequestsEnd`), it is answered, although
  other runs hang for ever. Nothing makes anyone call the tool, save the vault, or
  serve a late request.
* SshCommand: weak fairness of the timers, nothing else.
* FanOut: weak fairness of the call's own steps, and of each callback: a call of a
  transport settles, which is `EveryCallSettles` of SshCommand and, over REST,
  holds as long as a device does not stall in the middle of a body. No device has
  to carry anything out.

No liveness is claimed of RestCall: the code bounds the wait for the headers
(`TimerCoversWait`) and leaves the wait for the body to the device.

## Where code and documents disagree

The run SetupRerunMoved shows one: `src/README.md:74` promises that after "the
vault can't be written" setup "reports a recoverable failure, so you can fix the
mount and run it again". The roll-back resets the password and leaves the www
service on the port it was moved to, so step 1 of the next run, which asks port
80, fails.

The modules state more sentences of the documents that the code does not keep.
They are no part of the regular runs; each has a configuration of its own, under
which TLC prints the counterexample. The module to run it with is the MC module
its name begins like (MCVaultWriter for Vault.., MCSetupDevice for Setup..), and
MCTools for RestCapped.

| Definition (configuration) | The document says | The code does |
|---|---|---|
| `OutsideEditsSurvive` (VaultLateEdit) | keepass-client.ts:107-108: guards "keep concurrent writers from losing each other's changes" | a save between the comparison (149) and the rename (190) is overwritten |
| `NeverHalfWritten` (VaultTorn) | keepass-client.ts:113-114: "readers never see a half-written file" | the in-place fallback truncates the vault first (171, 186, 195) |
| `NoTempFileLeft` (VaultTempLeft) | keepass-client.test.ts:160: "leaving no temp file" | a temp file that was created and could not be filled stays (169), and so does one whose removal fails (184, 192) |
| `PasswordFailureIsRerunnable` (SetupRerunLost) | setup.test.ts:335: "step 5 (password) - returns recoverable failure" | when only the answer was lost the device has a password nobody recorded (166) |
| `SuccessNamesTheDevice` (SetupRace) | setup.ts:248-249: "set identity, generate a secure password, and store credentials" | two runs at one device: one succeeds while the device carries the other's name |
| `VaultErrorsPropagate` (FanOutVaultError) | fan-out.ts:20: "Vault-level errors ... propagate to the caller" | for a list of ids they become failures of single devices (44) |
| `FailsFast` (SessionsFailFast) | index.ts:87: "opens the credential provider once, fail-fast" | over HTTP nothing opens it before the first session (92) |
| `DataIsWhole` (SshCutOff) | prd.md:256: "a per-device error ... when a device is unreachable" | a connection closed cleanly in mid-output settles as success (74) |
| `CommandsArePosted` (RestMethod) | architecture.md:751: "These use the `POST` method in REST" | diagnostics go through `execute` with arguments, which infers PUT (rest-transport.ts:79) |
| `RequestsEndInTime` (RestSlowBody) | README.md:137: "REST request timeout" | the timer ends with the headers (rest-transport.ts:115) |
| `CappedCommandsFit` (RestCapped) | diagnostics.ts:18: "to stay within 60s REST timeout" | the time-out defaults to 10 s (rest-transport.ts:30, README.md:137), the cap is 50 s: every longer test is given up while it runs |
| `VaultKeptInMemory` (ProvidersInMemory) | prd.md:441: "opened once ... and kept in memory" | every call reads the file (keepass-client.ts:86) |
| `SummaryIsWritten` (ProvidersSummary) | server.ts:138: "summarize once, not per session" | the flag is set before the read that may fail (139), then nobody writes it |
| `ValuesAreWhole` (ParsersSpaced) | parsers.ts:48-49: "unquoted values end at the next key= or end of meaningful content" | they end at the first blank (62) |
| `SingleRecordsAreRead` (ParsersPairs) | ssh-transport.ts:148: "Fallback: try key-value format" | a value with `key=word` in it is read as a detail record first (147) |

Others are not put into TLA+, since they show in a single function:

* `firewall.ts:164` calls its RADIUS list "(secrets redacted)", `ppp-user.ts:78` its
  secrets "(passwords redacted)" and `ppp-user.ts:124` its users "(passwords never
  included)"; all three handlers return the records of `transport.query` as they
  come, and `normalizeRecord`, which redacts, is called by no handler.
* `firewall.ts:46` says of `parseServices` "Fallback: some devices return tabular
  format"; a row of a table with a flag that the header explains counts as a detail
  record, so the table is not read (no handler calls `parseServices`).

## What is proved

TLAPS checks these for every value of the constants, under the assumptions named
in the modules, which TLC evaluates in the runs: `EntriesAssumption`,
`BoundsAssumption`, `SetupAssumption`, `FanOutAssumption`, `SessionsAssumption`,
`SshAssumption`, `RestAssumption`, `ProvidersAssumption`, `StoresAssumption`,
`ToolsAssumption`, `NoneIsNoTool`. They say that sets which name different things
are disjoint, that titles, devices and identities are total functions, that
lists are sequences of entries, that bounds are numbers, and that the set of ids
is finite. The bounds (saves, crashes, edits, signals, ids in a target) are
constants, so the theorems hold for any of them.

| Theorem | Says |
|---|---|
| `VaultWriterProofs!TypeCorrect` | types of the vault writer |
| `VaultWriterProofs!WritesAreSerial` | `OneWriter` |
| `VaultWriterProofs!MapLeadsToNewest` | `TailIsNewest` |
| `VaultWriterProofs!AcknowledgedEntriesStay` | `AcknowledgedIsStored` |
| `VaultWriterProofs!RejectedEntriesAreAbsent` | `RejectedIsNotStored` |
| `VaultWriterProofs!TitlesStayUnique` | `UniqueTitles` |
| `VaultWriterProofs!OnlyContentionGivesUp` | `GivesUpOnlyOnContention` |
| `VaultWriterProofs!EarlyEditsStay` | `EarlyEditsSurvive` |
| `VaultWriterProofs!NobodyWaitsInVain` | while calls are pending, one of them runs or is the next in the chain |
| `VaultWriterProofs!AtomicVaultIsImplemented` | `ImplementsAtomicVault`, without late saves and writes in place |
| `SetupProofs!TypeCorrect` | types of the bootstrap |
| `SetupProofs!VaultNeverMisleads` | `StoredPasswordsWork` |
| `SetupProofs!SuccessLasts` | `SuccessIsLasting` (an entry erased from outside is excepted there) |
| `SetupProofs!PasswordsAreKept` | `NoPasswordIsOrphaned` (likewise) |
| `SetupProofs!ResetsAreDone` | `ResetMeansGone` |
| `SetupVaultProofs!SetupIsImplemented` | `ImplementsSetup`: SetupVault implements SetupDevice, if no fault diverts a write in place |
| `SetupVaultProofs!ReportsAreTrueOfTheFile` | likewise: the vault file is whole, its generated passwords open their devices, reported successes are in it unless erased from outside, reported resets left nothing in it |
| `SetupVaultProofs!PasswordsStayOnRecord` | likewise: a password on a device is in the file or the log once its run is answered, but for a lost answer or an outside save that erased it |
| `FanOutProofs!EveryIdIsAnswered` | `EveryIdAnswered` |
| `FanOutProofs!DataComesFromOwnDevice` | `DataFromOwnDevice` |
| `FanOutProofs!AnswersMatch` | `AnswersMatchDevices` |
| `SessionsProofs!TypesHold` | types of the server |
| `SessionsProofs!TableForgetsClosed` | `ClosedIsForgotten` |
| `SessionsProofs!TableKeepsOpen` | `OpenIsReachable` |
| `SessionsProofs!ExitClosesSessions` | `ShutdownCloses` |
| `SshProofs!NothingIsLeft` | `CallsCleanUp` |
| `SshProofs!RejectedIsRejected` | `RejectedHostsStayOut` |
| `SshProofs!KeepsThePromise` | SshCommand implements DeviceCall for the calls outside `CleanLoss`, that is those whose connection is not closed cleanly in mid-command; to the others the promise is not kept |
| `SshProofs!DataIsAlwaysOfTheCommand` | `DataIsOfTheCommand`, for all calls: data only of a command the device has started, whole unless such a close cut it |
| `ToolsProofs!TimersAreKept`, `ToolsProofs!ToolTimersAreKept` | `TimerCoversWait`, for the transport alone and under the tools |
| `ToolsProofs!KeepsThePromise`, `ToolsProofs!ToolsKeepThePromise` | RestCall implements DeviceCall, likewise |
| `ProvidersProofs!SourcesAreUnambiguous` | `SourceIsUnambiguous` |
| `ProvidersProofs!AnswersStayCurrent` | `AnswersAreCurrent` |
| `ToolsProofs!ReadOnlyIsReadOnly` | `ReadOnlyChangesNothing` |
| `ToolsProofs!CapsAreKept` | `CappedCommandsEnd`, whichever of cap and time-out is longer |
| `ToolsProofs!ListIsKeptInSync` | `AllowListIsInSync` |
| `SshProofs!ParsersTypeCorrect` | types of lines, tokens and records |
| `SshProofs!RecordsAlwaysRead` | `RecordsAreRead`, whatever is quoted and whatever is not |
| `SshProofs!StatsAlwaysRead` | `StatsAreRead`, whichever names end in others |

Claims of the documents that fail in general hold under a hypothesis, and these
theorems say under which one; each is about a definition that a configuration of
the section before refutes without it.

| Theorem | Claim | Holds if |
|---|---|---|
| `VaultWriterProofs!OutsideEditsStay` | `OutsideEditsSurvive` | nobody saves between check and rename |
| `SetupProofs!UnmovedSetupIsRerunnable` | `KeepassFailureIsRerunnable` | the port stays, each device has one run |
| `SetupProofs!SameNameIsKept` | `SuccessNamesTheDevice` | the runs against a device are given one name |
| `FanOutProofs!UnreadVaultGivesNoData` | of `VaultErrorsPropagate`, that no device is asked and no data reported | the vault is not readable during the call |
| `SessionsProofs!StdioFailsFast` | `FailsFast` | the transport is stdio |
| `ProvidersProofs!UneditedVaultIsAsOpened` | `VaultKeptInMemory` | the source is not edited |
| `ProvidersProofs!UneditedSourceIsSummarized` | `SummaryIsWritten` | the source is not edited |

The other refuted claims have no such theorem: what would save them is not up to
the code (how long a body takes, whether an answer is lost, what a printout
holds), or is the very case they are about (a write in place, a cap below the
time-out). Of printouts `RecordsAlwaysRead` says what is read instead.

*The queue.* `OneWriter` is not inductive: from two queued calls with the same
predecessor both could start. `QueueInv` adds what the chain is: calls were made
in the order of `order`, each once; a call's predecessor is the call made just
before it, or none; where it is none, and wherever a call has started, all
earlier calls are settled; and `tail` is the newest call as long as any is live.
A call then starts only when its predecessor is settled, hence all earlier ones
are, which is `OneWriter`; `TailIsNewest` follows from the last two parts.

*The store.* `AcknowledgedIsStored` alone says nothing of the copy a call is
about to install. `StoreInv` adds that this copy holds all acknowledged entries
that were not removed, and that an entry gets into the file or a copy only when
its call ended well or was cut off. It is inductive relative to `OneWriter`: no
call can be acknowledged between the read and the replacement of another.
`TitleInv` says of the copies, the new entry included, what `UniqueTitles` says of
the file. `VersionInv` ties the fingerprint to the contents: a call about to
compare whose copy has the file's version has the file's entries, and the file is
complete. From it follow `TriesInv` (a call in round n has seen n - 1 outside
saves, and one more if the version has grown since its read) and, with
`StoreInv`, `EditsInv` (a copy that passed the check has kept all earlier saves,
and outside entries are nowhere before they are added).

*One vault.* Without late saves and writes in place `CopyInv` holds: the file is
whole, and a call about to replace it holds a copy of just what is in it, since
the check has compared versions (`VersionInv`) and no other call runs
(`OneWriter`). The pending calls are the calls made after the first `Served`,
because those made before one that has begun are over (`QueueInv`); so the line of
AtomicVault is a rest of `order`, it grows at its end when a call is made and loses
its head when one ends, and the rename is the step that adds an entry.

*The chain.* Of the pending calls the one made first cannot wait: its predecessor
in the queue map is settled or none. `NobodyWaitsInVain` states it; it is what
there is of safety in `EveryCallSettles`, whose rest is fairness.

*The bootstrap.* `PortInv` (nobody is in step 4 unless the port is relocated)
makes the types inductive. `PasswordInv` says that a run between the password
change and its end finds its own password on its device, that stored passwords
are those of their devices, and that a late roll-back belongs to a run that
stored nothing; from it follow `StoredPasswordsWork` and `SuccessIsLasting`.
`LogInv` adds where the password of a device can be at each stage, and that a
late password change belongs to a run that never heard of it; erased entries are
remembered, since a store may bring them back; `ResetInv` adds
that only runs whose roll-back was not answered are in the log.

*The bootstrap over the writer.* `SetupVaultProofs` takes the types and the
seriality of the writer from `VaultWriterProofs` as they are: every step of the
composition is one of the writer or leaves it alone. `FileInv` says that the copy
a call holds has the entries of all runs the file has and no title of its own, so
that the file changes, for the runs, only by the entry installed and identities
in it stay distinct. `CallInv` says that a run makes its call at step 6, waits
there, and that a call has an outcome exactly when its task has ended. A run is
then seen by SetupDevice at the stage its call's outcome leads to as soon as that
is settled (`Seen`): a failing call is a store that failed, the rename a store,
everything else the writer does a stutter. `InPlaceWrites` must be off because an
in-place write empties the file for a while, which a vault that stores in one step
never does (run VaultWrites covers that route). What is proved of SetupDevice then
holds of the vault file: `ReportsAreTrueOfTheFile` and `PasswordsStayOnRecord` are the
theorems of `SetupProofs` read through that mapping, with "stored" replaced by
"in the file" and the stage SetupDevice sees by the run's own.

*Fan-out.* `Inv` ties each credential to what the vault held, each success to a
device that carried the command out, and each stage to the lengths of the three
sequences. `Counted` says of every id that the credentials and failures so far
are as many as the positions before `next` that name it; it moves from one round
of the loop to the next by one position, so no induction over sequences is needed.

*Sessions.* The table is wrong only in passing, while a SIGINT loop is at a key.
`Life` says what a request's stage implies of its session, `Streams` that an open
event stream keeps its session registered, `Dooms` that a session the first SIGINT
found is closed or still ahead of every loop that runs, which is what
`ShutdownCloses` needs at the exit.

*Transports.* `Linked` ties timer, promise, connection, host key verdict and
device of one call to each other; steps of other calls leave it alone, so the
invariant is one of a call. For the refinements every step of a call is one of
the changes `Seen` lists, and each of those is a step of DeviceCall or a stutter.

*Providers.* `Selected` says that a server got past `open()` only with a provider
that is not misconfigured; that this leaves one source (`SelectedIsClear`) is set
theory about the variables. `Reads` says that during a call the source of the
moment and what the call has read are among the contents seen, and
`AnswersExplain` that an answer made from a content explains itself by it: of the
entries that match an id there is a first one, which needs the least element of a
set of numbers (`FirstOne`) and no induction over the list.

*Tools.* `TablesInOrder` evaluates the tables: a tool on the allow-list asks and
nothing else, and the capped tools are those of `CappedNames`. `ToolsInv` carries
this over to the requests on the wire, and `NoteInv` to what a server registers
and the note it writes about the tools it withholds.

*Parsers.* A reader works on the whole text at once; what makes its result right
is a fact about the text that every printing step keeps, though the code never
sees such a step. `ReadInv` states it shape by shape (`TextSays`): the blocks
(`DetailPrinted`) or paragraphs (`FlaggedPrinted`, `StatsPrinted`) that the reader
would find now are as many as the records printed, and each reports just the
fields of its record; pairs read line by line hold the one record (`PairsPrinted`);
from the fifth line on each line of a table is the row of its record
(`TablePrinted`). `Held` adds that a result was made of the text as it is, and
`LinesFit` the types, and that a record begun ends in a line of text, which the next
field may continue. A field
appended to a text changes what is read of it by that field only, because reading
before it does not reach over its first token (`Reports`, `ReportsExtended`): a
quoted value ends at its own closing quote, a bare one at its first blank, a number
at the next key. No induction theorem with an operator parameter is
needed: what holds of all numbers or sequences is stated as a set of them and
shown, with `WellFoundedInduction`, to be all of them (`UpTo`, `DownFrom`,
`SeqInduct`), and a loop as the one function that its rounds determine
(`LoopRuns`).

*Claims with a hypothesis.* Three need one more invariant beside those above.
`NameInv`: a run past step 3 finds its name on its device. `Unedited`: until the
first edit all that was opened and read is the source as it is. `Unread`: a call
that never could read the vault has found no credential.

*Only model-checked.* All liveness (`EveryCallSettles`, `EverySetupEnds`,
`EveryCallReturns`, `EveryRequestEnds`, `ShutdownEnds`): TLAPS as installed does
not prove liveness under fairness. Every safety and action property of the runs
is proved; what a theorem assumes beyond the `ASSUME`s of its module is said in
its row. Of Parsers these (`ParsersAssumption`) say that numbers and capital words
are different words, that a field without quotes has a value, that counters are
numbers and no field of a record has a counter's name, and that columns stand in
order, behind the index and flags.

## What is not modelled

* Build, container and helper scripts: no state of their own.
* Of diagnostics and section tools: paths and arguments, the choice of records
  in an answer, and the readers built on the parsers, such as `parseServices`,
  `parseHealth`, `parseLog`, `parsePing` and `parseTraceroute`. No handler calls
  them, nor any of the parsers that are modelled; those are in because `query` of
  the SSH transport, which implements the same interface as the REST one, stands on
  them, and because their loops are the part of the code that is hardest to test.
* `normalizeRecord`, `coerce`, `kebabToCamel`: functions of one record, called by no
  handler.
* Bytes, key derivation, the fields of a vault entry; characters inside words;
  wording and redaction of error texts; `/health`, unknown paths, host lists.
* Seen while reading and not stated as properties: flag words in mixed case
  (such as `DAc`) lose their flags; flags explained on a second header line are
  not injected; counters above 2^53 lose digits; streamable sessions whose
  client never sends DELETE stay in the table; an id named twice in a target runs
  its command twice.

## Plan

Done, in the order of importance: the vault writer, the bootstrap, fan-out,
sessions, both transports, the providers, the parsers and the tables of tools;
the abstract specifications `AtomicVault` and `DeviceCall`; the bootstrap over the
real vault writer, the tools over the REST transport, the fan-out over what the
transports promise; the theorems above, for every safety property the runs
check, for the refinements of abstract specifications, and for each refuted
claim that a hypothesis saves.

Left: the fairness half of the liveness properties, if the prover learns to
reason about ENABLED.

What could follow:

1. Sessions that start servers with real providers (`Sessions` with `Providers`),
   and a fan-out that resolves its ids through them.
2. The choice and normalisation of records in the answers of section tools.
