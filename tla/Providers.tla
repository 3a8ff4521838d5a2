----------------------------- MODULE Providers -----------------------------
(***************************************************************************)
(* Where device credentials come from (src/credentials, the reading half   *)
(* of src/keepass/keepass-client.ts, the head of createServer in           *)
(* src/server.ts).                                                         *)
(*                                                                         *)
(* Every session has a server of its own, and every server a provider: it  *)
(* is selected from the environment variables, opened, and from then on    *)
(* read for each call.  The first server to get that far also writes one   *)
(* line on the provider.  The KeePass vault and the inventory file are     *)
(* read anew by every call; their owner edits them at any moment, and an   *)
(* edit may leave something that cannot be read.  The environment does not *)
(* change while the process runs.                                          *)
(*                                                                         *)
(* A credential is abstracted to the id it goes by and a secret; content   *)
(* that is missing, not JSON, does not fit the schema or does not open     *)
(* with the password is Unreadable.  A server's calls do not share state,  *)
(* so one at a time is followed for each of them.                          *)
(*                                                                         *)
(* Definitions named Mut... are slips kept to show which property notices  *)
(* them; they are not part of the model.                                   *)
(***************************************************************************)
EXTENDS Integers, Sequences, FiniteSets

CONSTANTS
    Servers,      \* one per session
    Ids,          \* what an entry can be called, hosts included
    Secrets,
    Unset,        \* an entry without an id
    Unreadable,   \* content no device can be read from
    All,          \* a call for the list of devices
    NotRead,      \* nothing read yet
    Lists,        \* the device lists the source may hold
    Settings,     \* the environments the process may be started with
    MaxEdits      \* bound: edits of the source

Entries == [id : Ids \cup {Unset}, host : Ids, secret : Secrets]

Kinds == {"keepass", "file", "env"}   \* PROVIDER_KINDS

\* Which variables are set; explicit is CREDENTIAL_PROVIDER, host DEVICE_HOST.
Environments ==
    [explicit : Kinds \cup {"unset", "other"}, password : BOOLEAN,
     file : BOOLEAN, host : BOOLEAN, hostPassword : BOOLEAN, list : BOOLEAN]

ASSUME ProvidersAssumption ==
    /\ Unset \notin Ids
    /\ All \notin Ids
    /\ \A l \in Lists : l \in Seq(Entries)
    /\ Settings \subseteq Environments
    /\ MaxEdits \in Nat

Contents == Lists \cup {Unreadable}

VARIABLES
    env,        \* process.env
    source,     \* what the selected source holds now
    edits,      \* number of edits so far
    pc,         \* how far each server is
    raw,        \* what the operation under way has read
    logged,     \* providerSummaryLogged
    summaries,  \* servers that wrote the summary
    asked,      \* the last call of each server
    answer,     \* what came of it
    opened,     \* history: what each server was opened on
    seen        \* history: what the source held during that call

vars == <<env, source, edits, pc, raw, logged, summaries, asked, answer,
          opened, seen>>
calls == <<asked, answer, seen>>

Error == [ok |-> FALSE, devices |-> <<>>]

TypeOK ==
    /\ env \in Settings
    /\ source \in Contents
    /\ edits \in 0..MaxEdits
    /\ pc \in [Servers -> {"none", "opening", "summarizing", "ready",
                           "calling", "failed"}]
    /\ raw \in [Servers -> Contents \cup {NotRead}]
    /\ logged \in BOOLEAN
    /\ summaries \subseteq Servers
    /\ asked \in [Servers -> Ids \cup {All, NotRead}]
    /\ \A s \in Servers :
          /\ answer[s].ok \in BOOLEAN
          /\ \A i \in DOMAIN answer[s].devices :
                answer[s].devices[i]
                    \in [id : Ids \cup {Unset}, secret : Secrets]
    /\ opened \in [Servers -> Contents \cup {NotRead}]
    /\ seen \in [Servers -> SUBSET Contents]

----------------------------------------------------------------------------
(* Selection *)

\* The providers the variables call for.
Candidates(e) == {k \in Kinds : \/ k = "keepass" /\ e.password
                                \/ k = "file" /\ e.file
                                \/ k = "env" /\ (e.host \/ e.list)}

MutFirstCandidate(e) ==        \* several configured: the first one is taken
    IF e.explicit # "unset" THEN e.explicit
    ELSE IF Candidates(e) \in {{"file"}, {"file", "env"}} THEN "file"
    ELSE IF Candidates(e) = {"env"} THEN "env" ELSE "keepass"

resolveProviderKind(e) ==
    IF e.explicit # "unset" THEN e.explicit
    ELSE IF Candidates(e) = {} THEN "keepass"
    ELSE IF Cardinality(Candidates(e)) > 1 THEN "ambiguous"
    ELSE CHOOSE k \in Candidates(e) : TRUE

Kind == resolveProviderKind(env)

\* What createCredentialProvider and the providers' constructors refuse.
Misconfigured ==
    \/ Kind \notin Kinds
    \/ Kind = "file" /\ ~env.file
    \/ Kind = "env" /\ \/ env.host /\ env.list
                       \/ ~env.host /\ ~env.list
                       \/ env.host /\ ~env.hostPassword

----------------------------------------------------------------------------
(* Reading *)

\* toCredential, entryToCredential: the id defaults to the host in a list,
\* a vault entry goes by its title, be it empty.
toCredential(e) ==
    [id |-> IF Kind # "keepass" /\ e.id = Unset THEN e.host ELSE e.id,
     secret |-> e.secret]

HasDuplicate(content) ==
    \E i, j \in DOMAIN content :
        i # j /\ toCredential(content[i]).id = toCredential(content[j]).id

\* Does a read of this content give a list?  A vault may be empty and may
\* hold a title twice, a list may not.
Readable(content) ==
    /\ content # Unreadable
    /\ IF Kind = "keepass" THEN env.password
                           ELSE content # <<>> /\ ~HasDuplicate(content)

\* listDevices
Listed(content) == [i \in DOMAIN content |-> toCredential(content[i])]

\* resolveCredentials takes the first that matches.
IsFirst(i, id, ds) ==
    ds[i].id = id /\ \A j \in DOMAIN ds : ds[j].id = id => i <= j

AnswerFrom(content, what) ==
    LET ds    == Listed(content)
        match == {i \in DOMAIN ds : IsFirst(i, what, ds)}
    IN  CASE ~Readable(content) -> Error
          [] Readable(content) /\ what = All -> [ok |-> TRUE, devices |-> ds]
          [] Readable(content) /\ what # All ->
                IF match = {} THEN Error
                ELSE [ok |-> TRUE,
                      devices |-> <<ds[CHOOSE i \in match : TRUE]>>]

----------------------------------------------------------------------------
Init ==
    /\ env \in Settings
    /\ source \in Contents
    \* DEVICE_HOST and its fellows describe one device, and an id or user
    \* that is empty counts as not set.
    /\ Kind = "env" /\ env.host =>
          source # Unreadable /\ Len(source) = 1
    /\ edits = 0
    /\ pc = [s \in Servers |-> "none"]
    /\ raw = [s \in Servers |-> NotRead]
    /\ logged = FALSE
    /\ summaries = {}
    /\ asked = [s \in Servers |-> NotRead]
    /\ answer = [s \in Servers |-> Error]
    /\ opened = [s \in Servers |-> NotRead]
    /\ seen = [s \in Servers |-> {}]

Goto(s, step) == pc' = [pc EXCEPT ![s] = step]

\* createServer selects a provider and opens it.
CreateServer(s) ==
    /\ pc[s] = "none"
    /\ Goto(s, IF Misconfigured THEN "failed" ELSE "opening")
    /\ UNCHANGED <<env, source, edits, raw, logged, summaries, opened, calls>>

\* The file is read whole; decrypting and parsing what was read takes time.
Load(s) ==
    /\ pc[s] \in {"opening", "summarizing", "calling"}
    /\ raw[s] = NotRead
    /\ raw' = [raw EXCEPT ![s] = source]
    /\ UNCHANGED <<env, source, edits, pc, logged, summaries, opened, calls>>

MutKept(s) == raw[s]             \* what open() read is kept for the calls

\* Each operation starts from a read of its own.
Fresh(s) == NotRead

\* open() returned, or threw.  The server that finds the flag down sets it
\* before anything is awaited and goes on to count the devices.
Opened(s) ==
    /\ pc[s] = "opening"
    /\ raw[s] # NotRead
    /\ opened' = [opened EXCEPT ![s] = raw[s]]
    /\ raw' = [raw EXCEPT ![s] = Fresh(s)]
    /\ \/ ~Readable(raw[s]) /\ Goto(s, "failed") /\ UNCHANGED logged
       \/ Readable(raw[s]) /\ logged /\ Goto(s, "ready") /\ UNCHANGED logged
       \/ /\ Readable(raw[s])
          /\ ~logged
          /\ logged' = TRUE
          /\ Goto(s, "summarizing")
    /\ UNCHANGED <<env, source, edits, summaries, calls>>

\* The devices are counted and the line is written; a list that cannot be
\* read any more fails createServer.
Summarize(s) ==
    /\ pc[s] = "summarizing"
    /\ raw[s] # NotRead
    /\ raw' = [raw EXCEPT ![s] = Fresh(s)]
    /\ IF Readable(raw[s])
       THEN /\ summaries' = summaries \cup {s}
            /\ Goto(s, "ready")
       ELSE Goto(s, "failed") /\ UNCHANGED summaries
    /\ UNCHANGED <<env, source, edits, logged, opened, calls>>

\* A tool asks for the list or for one id.
Ask(s, what) ==
    /\ pc[s] = "ready"
    /\ Goto(s, "calling")
    /\ asked' = [asked EXCEPT ![s] = what]
    /\ answer' = [answer EXCEPT ![s] = Error]
    /\ seen' = [seen EXCEPT ![s] = {source}]
    /\ UNCHANGED <<env, source, edits, raw, logged, summaries, opened>>

Reply(s) ==
    /\ pc[s] = "calling"
    /\ raw[s] # NotRead
    /\ answer' = [answer EXCEPT ![s] = AnswerFrom(raw[s], asked[s])]
    /\ raw' = [raw EXCEPT ![s] = Fresh(s)]
    /\ Goto(s, "ready")
    /\ UNCHANGED <<env, source, edits, logged, summaries, asked, opened, seen>>

\* The owner of the vault or of the file changes it.
EditSource ==
    /\ Kind \in {"keepass", "file"}
    /\ edits < MaxEdits
    /\ \E content \in Contents \ {source} :
          /\ source' = content
          /\ seen' = [s \in Servers |->
                        IF pc[s] = "calling" THEN seen[s] \cup {content}
                                             ELSE seen[s]]
    /\ edits' = edits + 1
    /\ UNCHANGED <<env, pc, raw, logged, summaries, asked, answer, opened>>

Next ==
    \/ \E s \in Servers :
          \/ CreateServer(s)
          \/ Load(s)
          \/ Opened(s)
          \/ Summarize(s)
          \/ \E what \in Ids \cup {All} : Ask(s, what)
          \/ Reply(s)
    \/ EditSource

Spec == Init /\ [][Next]_vars

----------------------------------------------------------------------------
(* Properties *)

Running(s) == pc[s] \in {"ready", "calling"}
Answered(s) == pc[s] = "ready" /\ asked[s] # NotRead

\* A server that runs has the one provider its operator configured: the one
\* CREDENTIAL_PROVIDER names or else the only one with variables set, and
\* the variables that provider needs are there (resolveProviderKind and
\* createCredentialProvider: no guessing between sources).
SourceIsUnambiguous ==
    \A s \in Servers : Running(s) =>
        /\ \/ env.explicit = "keepass" /\ env.password
           \/ env.explicit = "file" /\ env.file
           \/ env.explicit = "env" /\ env.host # env.list
           \/ /\ env.explicit = "unset"
              /\ Cardinality({v \in {"password", "file", "host", "list"} :
                                env[v]}) = 1
        /\ env.explicit \in {"env", "unset"} /\ env.host => env.hostPassword

\* What the source, when it held content, had to say to a call.
Explains(content, what, a) ==
    IF ~a.ok
    THEN \/ content = Unreadable
         \/ Kind # "keepass" /\ (content = <<>> \/ HasDuplicate(content))
         \/ what \in Ids /\ \A i \in DOMAIN content :
                               toCredential(content[i]).id # what
    ELSE /\ content # Unreadable
         /\ IF what = All
            THEN /\ Len(a.devices) = Len(content)
                 /\ \A i \in DOMAIN content :
                       a.devices[i] = toCredential(content[i])
            ELSE \E i \in DOMAIN content :
                    /\ a.devices = <<toCredential(content[i])>>
                    /\ a.devices[1].id = what
                    /\ \A j \in 1..i - 1 : toCredential(content[j]).id # what

\* Each answer, a refusal included, is what the source held at one moment
\* between the start and the end of the call: nothing older, nothing mixed
\* (the re-read on every call of both providers, also in a second session).
AnswersAreCurrent ==
    \A s \in Servers : Answered(s) =>
        \E content \in seen[s] : Explains(content, asked[s], answer[s])

\* "The KeePass vault is opened once at server startup and kept in memory -
\* not re-read on every tool call" (docs/prd.md).
VaultKeptInMemory ==
    \A s \in Servers :
        Answered(s) /\ Kind = "keepass" =>
            answer[s] = AnswerFrom(opened[s], asked[s])

\* "Summarize once" (server.ts): when servers run and none is starting, the
\* summary has been written.
SummaryIsWritten ==
    (\E s \in Servers : Running(s)) /\ (\A s \in Servers :
        pc[s] \notin {"opening", "summarizing"}) => summaries # {}

=============================================================================
