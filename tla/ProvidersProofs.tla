--------------------------- MODULE ProvidersProofs ---------------------------
(***************************************************************************)
(* Theorems about Providers, for any servers, environments and edits, and  *)
(* lists of any length.                                                    *)
(***************************************************************************)
EXTENDS Providers, FiniteSetTheorems, WellFoundedInduction, TLAPS

(* Of the positions with some quality there is a first one. *)
LEMMA FirstOne ==
    ASSUME NEW T \in SUBSET Nat, T # {}
    PROVE  \E i \in T : \A j \in T : i <= j
<1>1. PICK i \in T : \A j \in T : ~(<<j, i>> \in OpToRel(<, Nat))
  BY NatLessThanWellFounded, WFMin
<1>2. ASSUME NEW j \in T PROVE i <= j
  <2>1. ~(j < i)
    BY <1>1 DEF OpToRel
  <2> QED
    BY <2>1
<1> QED
  BY <1>2

-----------------------------------------------------------------------------
(* Selection.  A server that got past open() has a provider that is not
   misconfigured, and a password if it is the vault's. *)
Begun  == {"summarizing", "ready", "calling"}
Steps  == Begun \cup {"none", "opening", "failed"}

Selected ==
    /\ env \in Settings
    /\ pc \in [Servers -> Steps]
    /\ \A s \in Servers :
          /\ pc[s] \in Begun \cup {"opening"} => ~Misconfigured
          /\ pc[s] \in Begun /\ Kind = "keepass" => env.password

LEMMA OneCandidate ==
    ASSUME NEW e, resolveProviderKind(e) \in Kinds, e.explicit = "unset",
           Candidates(e) # {}
    PROVE  Candidates(e) = {resolveProviderKind(e)}
<1>1. Candidates(e) \in SUBSET Kinds /\ IsFiniteSet(Kinds)
  <2>1. Kinds = {"keepass"} \cup {"file"} \cup {"env"}
    BY DEF Kinds
  <2> QED
    BY <2>1, FS_Singleton, FS_Union DEF Candidates
<1>2. IsFiniteSet(Candidates(e)) /\ Cardinality(Candidates(e)) \in Nat
  BY <1>1, FS_Subset, FS_CardinalityType
<1>3. ~(Cardinality(Candidates(e)) > 1)
  BY DEF resolveProviderKind, Kinds
<1>4. Cardinality(Candidates(e)) # 0
  BY <1>2, FS_EmptySet
<1>5. \E k : Candidates(e) = {k}
  <2>1. Cardinality(Candidates(e)) = 1
    BY <1>2, <1>3, <1>4
  <2> QED
    BY <1>2, <2>1, FS_Singleton
<1>6. resolveProviderKind(e) = CHOOSE k \in Candidates(e) : TRUE
  BY <1>3 DEF resolveProviderKind
<1> QED
  BY <1>5, <1>6

LEMMA SelectedIsClear ==
    ASSUME env \in Environments, ~Misconfigured,
           Kind = "keepass" => env.password
    PROVE  /\ \/ env.explicit = "keepass" /\ env.password
              \/ env.explicit = "file" /\ env.file
              \/ env.explicit = "env" /\ env.host # env.list
              \/ /\ env.explicit = "unset"
                 /\ Cardinality({v \in {"password", "file", "host", "list"} :
                                   env[v]}) = 1
           /\ env.explicit \in {"env", "unset"} /\ env.host => env.hostPassword
<1> DEFINE Set == {v \in {"password", "file", "host", "list"} : env[v]}
<1>1. Kind \in Kinds
  BY DEF Misconfigured
<1>2. CASE env.explicit # "unset"
  <2>1. Kind = env.explicit
    BY <1>2 DEF Kind, resolveProviderKind
  <2>2. env.host \in BOOLEAN /\ env.list \in BOOLEAN
    BY DEF Environments
  <2>3. Kind = "env" => /\ (env.host /\ ~env.list) \/ (~env.host /\ env.list)
                        /\ env.host => env.hostPassword
    BY DEF Misconfigured
  <2>4. Kind = "file" => env.file
    BY DEF Misconfigured
  <2>5. Kind = "env" => env.host # env.list
    BY <2>2, <2>3
  <2> QED
    BY <1>1, <1>2, <2>1, <2>3, <2>4, <2>5 DEF Kinds
<1>3. CASE env.explicit = "unset"
  <2>1. Candidates(env) # {}
    <3>1. CASE Candidates(env) = {} 
      <4>1. Kind = "keepass"
        BY <1>3, <3>1, FS_EmptySet DEF Kind, resolveProviderKind
      <4> QED
        BY <3>1, <4>1 DEF Candidates, Kinds
    <3> QED
      BY <3>1
  <2>2. Candidates(env) = {Kind}
    BY <1>1, <1>3, <2>1, OneCandidate DEF Kind
  <2>3. /\ env.password <=> Kind = "keepass"
        /\ env.file <=> Kind = "file"
        /\ env.host \/ env.list <=> Kind = "env"
    BY <2>2 DEF Candidates, Kinds
  <2>4. \E v : Set = {v}
    <3>1. CASE Kind = "keepass"
      <4>1. Set = {"password"}
        BY <2>3, <3>1
      <4> QED
        BY <4>1
    <3>2. CASE Kind = "file"
      <4>1. Set = {"file"}
        BY <2>3, <3>2
      <4> QED
        BY <4>1
    <3>3. CASE Kind = "env"
      <4>1. \/ env.host /\ ~env.list
            \/ ~env.host /\ env.list
        BY <2>3, <3>3 DEF Misconfigured
      <4>2. Set = {"host"} \/ Set = {"list"}
        BY <2>3, <3>3, <4>1
      <4> QED
        BY <4>2
    <3> QED
      BY <1>1, <3>1, <3>2, <3>3 DEF Kinds
  <2>5. Cardinality(Set) = 1
    BY <2>4, FS_Singleton
  <2>6. env.host => env.hostPassword
    BY <2>3 DEF Misconfigured
  <2> QED
    BY <1>3, <2>5, <2>6
<1> QED
  BY <1>2, <1>3

(* The environment stays, and a server gets on with the provider it names
   or fails. *)
LEMMA NextSelected == Selected /\ [Next]_vars => Selected'
<1> SUFFICES ASSUME Selected, [Next]_vars PROVE Selected'
  OBVIOUS
<1>1. env' = env
  BY DEF Next, CreateServer, Load, Opened, Summarize, Ask, Reply, EditSource, vars
<1>2. Kind' = Kind /\ Misconfigured' = Misconfigured
  BY <1>1 DEF Kind, Misconfigured
<1>3. ASSUME pc' = pc PROVE Selected'
  BY <1>1, <1>2, <1>3 DEF Selected
<1>4. ASSUME NEW s \in Servers, NEW step \in Steps,
             Goto(s, step),
             step \in Begun \cup {"opening"} => ~Misconfigured,
             step \in Begun /\ Kind = "keepass" => env.password
      PROVE  Selected'
  BY <1>1, <1>2, <1>4 DEF Selected, Goto
<1>5. ASSUME NEW s \in Servers, CreateServer(s) PROVE Selected'
  BY <1>4, <1>5 DEF CreateServer, Steps, Begun
<1>6. ASSUME NEW s \in Servers, Load(s) PROVE Selected'
  BY <1>3, <1>6 DEF Load
<1>7. ASSUME NEW s \in Servers, Opened(s) PROVE Selected'
  <2>1. ~Misconfigured
    BY <1>7 DEF Opened, Selected
  <2>2. CASE Goto(s, "failed")
    BY <1>4, <2>2 DEF Steps, Begun
  <2>3. CASE Readable(raw[s]) /\ (Goto(s, "ready") \/ Goto(s, "summarizing"))
    BY <1>4, <2>1, <2>3 DEF Steps, Begun, Readable
  <2> QED
    BY <1>7, <2>2, <2>3 DEF Opened
<1>8. ASSUME NEW s \in Servers, Summarize(s) PROVE Selected'
  <2>1. ~Misconfigured /\ (Kind = "keepass" => env.password)
    BY <1>8 DEF Summarize, Selected, Begun
  <2> QED
    BY <1>4, <1>8, <2>1 DEF Summarize, Steps, Begun
<1>9. ASSUME NEW s \in Servers, NEW what, Ask(s, what) PROVE Selected'
  <2>1. ~Misconfigured /\ (Kind = "keepass" => env.password)
    BY <1>9 DEF Ask, Selected, Begun
  <2> QED
    BY <1>4, <1>9, <2>1 DEF Ask, Steps, Begun
<1>10. ASSUME NEW s \in Servers, Reply(s) PROVE Selected'
  <2>1. ~Misconfigured /\ (Kind = "keepass" => env.password)
    BY <1>10 DEF Reply, Selected, Begun
  <2> QED
    BY <1>4, <1>10, <2>1 DEF Reply, Steps, Begun
<1>11. CASE EditSource \/ UNCHANGED vars
  BY <1>3, <1>11 DEF EditSource, vars
<1> QED
  BY <1>5, <1>6, <1>7, <1>8, <1>9, <1>10, <1>11 DEF Next

LEMMA SelectedInvariant == Spec => []Selected
<1>1. Init => Selected
  BY DEF Init, Selected, Steps, Begun
<1> QED
  BY <1>1, NextSelected, PTL DEF Spec

(* A server that runs has the one provider its operator configured, with the
   variables that provider needs, in every environment the process may be
   started with (resolveProviderKind, createCredentialProvider). *)
THEOREM SourcesAreUnambiguous == Spec => []SourceIsUnambiguous
<1>1. Selected => SourceIsUnambiguous
  <2> SUFFICES ASSUME Selected, NEW s \in Servers, Running(s)
               PROVE  /\ \/ env.explicit = "keepass" /\ env.password
                         \/ env.explicit = "file" /\ env.file
                         \/ env.explicit = "env" /\ env.host # env.list
                         \/ /\ env.explicit = "unset"
                            /\ Cardinality({v \in {"password", "file", "host",
                                                   "list"} : env[v]}) = 1
                      /\ env.explicit \in {"env", "unset"} /\ env.host
                            => env.hostPassword
    BY DEF SourceIsUnambiguous
  <2>1. env \in Environments
    BY ProvidersAssumption DEF Selected
  <2>2. ~Misconfigured /\ (Kind = "keepass" => env.password)
    BY DEF Selected, Running, Begun
  <2> QED
    BY <2>1, <2>2, SelectedIsClear
<1> QED
  BY <1>1, SelectedInvariant, PTL

-----------------------------------------------------------------------------
(* Reading.  What a call has read is something the source held during it,
   and so is what its answer was made of. *)
Reads ==
    /\ source \in Contents
    /\ raw \in [Servers -> Contents \cup {NotRead}]
    /\ asked \in [Servers -> Ids \cup {All, NotRead}]
    /\ answer = [s \in Servers |-> answer[s]]
    /\ seen \in [Servers -> SUBSET Contents]
    /\ \A s \in Servers :
          /\ pc[s] = "calling" =>
                /\ asked[s] \in Ids \cup {All}
                /\ source \in seen[s]
                /\ raw[s] # NotRead => raw[s] \in seen[s]
          /\ pc[s] \in {"none", "opening", "summarizing"} => asked[s] = NotRead
          /\ pc[s] = "ready" => raw[s] = NotRead
          /\ Answered(s) =>
                \E content \in seen[s] : Explains(content, asked[s], answer[s])

(* What is made of a content explains itself by that content. *)
LEMMA AnswersExplain ==
    ASSUME NEW content \in Contents, NEW what \in Ids \cup {All},
           Kind = "keepass" => env.password
    PROVE  Explains(content, what, AnswerFrom(content, what))
<1> DEFINE ds    == Listed(content)
           match == {i \in DOMAIN ds : IsFirst(i, what, ds)}
           one   == [ok |-> TRUE, devices |-> <<ds[CHOOSE i \in match : TRUE]>>]
<1>1. CASE ~Readable(content)
  <2>1. AnswerFrom(content, what) = Error
    BY <1>1 DEF AnswerFrom
  <2>2. \/ content = Unreadable
        \/ Kind # "keepass" /\ (content = <<>> \/ HasDuplicate(content))
    BY <1>1 DEF Readable
  <2> QED
    BY <2>1, <2>2 DEF Explains, Error
<1>2. CASE Readable(content)
  <2>1. content # Unreadable /\ content \in Seq(Entries)
    BY <1>2, ProvidersAssumption DEF Readable, Contents
  <2>2. /\ DOMAIN content = 1..Len(content) /\ Len(content) \in Nat
        /\ DOMAIN ds = DOMAIN content /\ Len(ds) = Len(content)
        /\ \A i \in DOMAIN content : ds[i] = toCredential(content[i])
    BY <2>1 DEF Listed
  <2> HIDE DEF ds
  <2>3. CASE what = All
    <3>1. AnswerFrom(content, what) = [ok |-> TRUE, devices |-> ds]
      BY <1>2, <2>3 DEF AnswerFrom, ds
    <3> QED
      BY <2>1, <2>2, <2>3, <3>1 DEF Explains
  <2>4. CASE what # All /\ match = {}
    <3>1. AnswerFrom(content, what) = Error
      BY <1>2, <2>4 DEF AnswerFrom, ds
    <3>2. \A i \in DOMAIN content : ds[i].id # what
      <4> DEFINE T == {i \in DOMAIN content : ds[i].id = what}
      <4>1. SUFFICES ASSUME T # {} PROVE FALSE
        OBVIOUS
      <4>2. T \in SUBSET Nat
        BY <2>2
      <4>3. PICK i \in T : \A j \in T : i <= j
        BY <4>1, <4>2, FirstOne
      <4>4. i \in match
        BY <2>2, <4>3 DEF IsFirst
      <4> QED
        BY <2>4, <4>4
    <3>3. what \in Ids
      BY <2>4
    <3> QED
      BY <2>2, <3>1, <3>2, <3>3 DEF Explains, Error
  <2>5. CASE what # All /\ match # {}
    <3> DEFINE i == CHOOSE k \in match : TRUE
    <3>1. AnswerFrom(content, what) = one
      BY <1>2, <2>5 DEF AnswerFrom, ds
    <3>2. i \in match
      BY <2>5
    <3>3. /\ i \in DOMAIN content /\ i \in Nat
          /\ ds[i].id = what
          /\ \A j \in DOMAIN content : ds[j].id = what => i <= j
      <4>1. i \in DOMAIN ds /\ IsFirst(i, what, ds)
        BY <3>2
      <4> HIDE DEF i
      <4> QED
        BY <2>2, <4>1 DEF IsFirst
    <3>4. one = [ok |-> TRUE, devices |-> <<toCredential(content[i])>>]
      BY <2>2, <3>3
    <3>5. \A j \in 1..i - 1 : toCredential(content[j]).id # what
      <4> SUFFICES ASSUME NEW j \in 1..i - 1 PROVE toCredential(content[j]).id # what
        OBVIOUS
      <4>1. j \in DOMAIN content /\ ~(i <= j)
        BY <2>2, <3>3
      <4> QED
        BY <2>2, <3>3, <4>1
    <3>6. toCredential(content[i]).id = what
      BY <2>2, <3>3
    <3> HIDE DEF i, one
    <3> QED
      BY <2>1, <2>5, <3>1, <3>3, <3>4, <3>5, <3>6 DEF Explains
  <2> QED
    BY <2>3, <2>4, <2>5
<1> QED
  BY <1>1, <1>2

(* A step that leaves the source and the operations of the other servers
   alone concerns one server. *)
LEMMA OneServerReads ==
    ASSUME Reads, NEW s \in Servers, NEW step \in Steps,
           pc \in [Servers -> Steps],
           Goto(s, step), source' = source, Kind' = Kind,
           \A t \in Servers \ {s} : /\ raw'[t] = raw[t]
                                    /\ asked'[t] = asked[t]
                                    /\ answer'[t] = answer[t]
                                    /\ seen'[t] = seen[t],
           raw' \in [Servers -> Contents \cup {NotRead}],
           asked' \in [Servers -> Ids \cup {All, NotRead}],
           answer' = [t \in Servers |-> answer'[t]],
           seen' \in [Servers -> SUBSET Contents],
           step = "calling" => /\ asked'[s] \in Ids \cup {All}
                               /\ source \in seen'[s]
                               /\ raw'[s] # NotRead => raw'[s] \in seen'[s],
           step \in {"none", "opening", "summarizing"} => asked'[s] = NotRead,
           step = "ready" => raw'[s] = NotRead,
           step = "ready" /\ asked'[s] # NotRead =>
               \E content \in seen'[s] : Explains(content, asked'[s], answer'[s])
    PROVE  Reads'
<1>1. ASSUME NEW content, NEW what, NEW a
      PROVE  Explains(content, what, a)' = Explains(content, what, a)
  BY DEF Explains, HasDuplicate, toCredential
<1> QED
  BY <1>1 DEF Reads, Goto, Answered

LEMMA NextReads == Selected /\ Reads /\ [Next]_vars => Reads'
<1> SUFFICES ASSUME Selected, Reads, [Next]_vars PROVE Reads'
  OBVIOUS
<1>1. Kind' = Kind
  BY DEF Next, CreateServer, Load, Opened, Summarize, Ask, Reply, EditSource,
         vars, Kind
<1>2. pc \in [Servers -> Steps]
  BY DEF Selected
<1>3. ASSUME NEW content, NEW what, NEW a
      PROVE  Explains(content, what, a)' = Explains(content, what, a)
  BY <1>1 DEF Explains, HasDuplicate, toCredential
<1>4. ASSUME NEW s \in Servers, CreateServer(s) PROVE Reads'
  <2>1. PICK step \in {"failed", "opening"} : Goto(s, step)
    BY <1>4 DEF CreateServer
  <2> QED
    BY <1>1, <1>2, <1>4, <2>1, OneServerReads
    DEF CreateServer, calls, Reads, Steps, Begun
<1>5. ASSUME NEW s \in Servers, Load(s) PROVE Reads'
  <2>1. Goto(s, pc[s])
    BY <1>2, <1>5 DEF Load, Goto
  <2>2. pc[s] \in Steps /\ pc[s] # "ready"
    BY <1>2, <1>5 DEF Load
  <2>3. /\ source' = source /\ UNCHANGED calls
        /\ raw' = [raw EXCEPT ![s] = source]
        /\ source \in Contents
    BY <1>5 DEF Load, Reads
  <2>4. pc[s] = "calling" => asked[s] \in Ids \cup {All} /\ source \in seen[s]
    BY DEF Reads
  <2>5. /\ raw' \in [Servers -> Contents \cup {NotRead}]
        /\ raw'[s] = source
        /\ \A t \in Servers \ {s} : raw'[t] = raw[t]
    BY <2>3 DEF Reads
  <2> QED
    BY <1>1, <1>2, <2>1, <2>2, <2>3, <2>4, <2>5, OneServerReads
    DEF calls, Reads
<1>6. ASSUME NEW s \in Servers, Opened(s) \/ Summarize(s) PROVE Reads'
  <2>1. PICK step \in {"failed", "ready", "summarizing"} : Goto(s, step)
    BY <1>6 DEF Opened, Summarize
  <2>2. /\ source' = source /\ UNCHANGED calls
        /\ raw' = [raw EXCEPT ![s] = NotRead]
        /\ pc[s] \in {"opening", "summarizing"}
    BY <1>6 DEF Opened, Summarize, Fresh
  <2>3. /\ raw' \in [Servers -> Contents \cup {NotRead}]
        /\ raw'[s] = NotRead
        /\ \A t \in Servers \ {s} : raw'[t] = raw[t]
    BY <2>2 DEF Reads
  <2>4. asked[s] = NotRead
    BY <2>2 DEF Reads
  <2>5. step \in Steps /\ step # "calling"
    BY DEF Steps, Begun
  <2> QED
    BY <1>1, <1>2, <2>1, <2>2, <2>3, <2>4, <2>5, OneServerReads
    DEF calls, Reads
<1>7. ASSUME NEW s \in Servers, NEW what \in Ids \cup {All}, Ask(s, what)
      PROVE  Reads'
  <2>1. Goto(s, "calling") /\ source' = source /\ raw' = raw /\ raw[s] = NotRead
    BY <1>7 DEF Ask, Reads
  <2>2. /\ asked' \in [Servers -> Ids \cup {All, NotRead}]
        /\ asked'[s] = what
        /\ \A t \in Servers \ {s} : asked'[t] = asked[t]
    BY <1>7 DEF Ask, Reads
  <2>3. /\ answer' = [t \in Servers |-> answer'[t]]
        /\ \A t \in Servers \ {s} : answer'[t] = answer[t]
    <3>1. DOMAIN answer = Servers
      BY DEF Reads
    <3> QED
      BY <1>7, <3>1 DEF Ask
  <2>4. /\ seen' \in [Servers -> SUBSET Contents]
        /\ seen'[s] = {source}
        /\ \A t \in Servers \ {s} : seen'[t] = seen[t]
    BY <1>7 DEF Ask, Reads
  <2> QED
    BY <1>1, <1>2, <2>1, <2>2, <2>3, <2>4, OneServerReads
    DEF Reads, Steps, Begun
<1>8. ASSUME NEW s \in Servers, Reply(s) PROVE Reads'
  <2>1. /\ pc[s] = "calling" /\ raw[s] # NotRead /\ Goto(s, "ready")
        /\ answer' = [answer EXCEPT ![s] = AnswerFrom(raw[s], asked[s])]
        /\ raw' = [raw EXCEPT ![s] = NotRead]
        /\ UNCHANGED <<source, asked, seen>>
    BY <1>8 DEF Reply, Fresh
  <2>2. raw[s] \in seen[s] /\ raw[s] \in Contents /\ asked[s] \in Ids \cup {All}
    BY <2>1 DEF Reads
  <2>3. /\ raw' \in [Servers -> Contents \cup {NotRead}]
        /\ raw'[s] = NotRead
        /\ \A t \in Servers \ {s} : raw'[t] = raw[t]
    BY <2>1 DEF Reads
  <2>4. /\ answer' = [t \in Servers |-> answer'[t]]
        /\ \A t \in Servers \ {s} : answer'[t] = answer[t]
        /\ answer'[s] = AnswerFrom(raw[s], asked[s])
    <3>1. DOMAIN answer = Servers
      BY DEF Reads
    <3> QED
      BY <2>1, <3>1
  <2>5. Explains(raw[s], asked[s], AnswerFrom(raw[s], asked[s]))
    <3>1. Kind = "keepass" => env.password
      BY <2>1 DEF Selected, Begun
    <3> QED
      BY <2>2, <3>1, AnswersExplain
  <2> QED
    BY <1>1, <1>2, <2>1, <2>2, <2>3, <2>4, <2>5, OneServerReads
    DEF Reads, Steps, Begun
<1>9. CASE EditSource
  <2>1. PICK content \in Contents :
          /\ source' = content
          /\ seen' = [s \in Servers |->
                        IF pc[s] = "calling" THEN seen[s] \cup {content}
                                             ELSE seen[s]]
    BY <1>9 DEF EditSource
  <2>2. UNCHANGED <<pc, raw, asked, answer>>
    BY <1>9 DEF EditSource
  <2>3. seen' \in [Servers -> SUBSET Contents]
    BY <2>1 DEF Reads
  <2>4. \A s \in Servers : seen[s] \subseteq seen'[s]
    BY <2>1
  <2>5. \A s \in Servers : pc[s] = "calling" => content \in seen'[s]
    BY <2>1
  <2> QED
    BY <1>3, <2>1, <2>2, <2>3, <2>4, <2>5 DEF Reads, Answered
<1>10. CASE UNCHANGED vars
  BY <1>3, <1>10 DEF vars, Reads, Answered
<1> QED
  BY <1>4, <1>5, <1>6, <1>7, <1>8, <1>9, <1>10 DEF Next

LEMMA InitReads == Init => Reads
BY DEF Init, Reads, Answered, Contents

LEMMA ReadsInvariant == Spec => []Reads
BY InitReads, NextReads, SelectedInvariant, PTL DEF Spec

(* Each answer, a refusal included, is what the source held at one moment of
   the call, however often its owner edits it and however many sessions read
   it (the re-read on every call of both providers). *)
THEOREM AnswersStayCurrent == Spec => []AnswersAreCurrent
<1>1. Reads => AnswersAreCurrent
  BY DEF Reads, AnswersAreCurrent
<1> QED
  BY <1>1, ReadsInvariant, PTL

-----------------------------------------------------------------------------
(* While nobody edits the source.  Two promises of the documentation fail    *)
(* only by edits: until the first one, every read gives what open() saw.     *)

Unedited ==
    /\ edits \in Nat
    /\ edits = 0 =>
          /\ \A s \in Servers :
                /\ raw[s] \in {source, NotRead}
                /\ pc[s] \in Begun =>
                      opened[s] = source /\ Readable(source) /\ logged
                /\ Answered(s) => answer[s] = AnswerFrom(source, asked[s])
          /\ logged => \/ summaries # {}
                       \/ \E s \in Servers : pc[s] = "summarizing"

LEMMA NextUnedited ==
    Selected /\ Reads /\ Unedited /\ opened = [s \in Servers |-> opened[s]]
        /\ [Next]_vars => Unedited'
<1> SUFFICES ASSUME Selected, Reads, Unedited, [Next]_vars,
                    opened = [s \in Servers |-> opened[s]]
             PROVE  Unedited'
  OBVIOUS
<1>1. /\ pc \in [Servers -> Steps]
      /\ raw \in [Servers -> Contents \cup {NotRead}]
      /\ answer = [s \in Servers |-> answer[s]]
      /\ asked = [s \in Servers |-> asked[s]]
      /\ DOMAIN opened = Servers
      /\ edits \in Nat
  BY DEF Selected, Reads, Unedited
<1>2. Kind' = Kind
  BY DEF Next, CreateServer, Load, Opened, Summarize, Ask, Reply, EditSource,
         vars, Kind
<1>3. ASSUME NEW content
      PROVE  /\ Readable(content)' = Readable(content)
             /\ \A what : AnswerFrom(content, what)' = AnswerFrom(content, what)
  <2>1. env' = env
    BY DEF Next, CreateServer, Load, Opened, Summarize, Ask, Reply, EditSource,
           vars
  <2>2. \A e : toCredential(e)' = toCredential(e)
    BY <1>2 DEF toCredential
  <2>3. HasDuplicate(content)' = HasDuplicate(content)
    BY <2>2 DEF HasDuplicate
  <2>4. Readable(content)' = Readable(content)
    BY <1>2, <2>1, <2>3 DEF Readable
  <2>5. Listed(content)' = Listed(content)
    BY <2>2 DEF Listed
  <2> QED
    BY <2>4, <2>5 DEF AnswerFrom
<1>4. CASE EditSource
  <2>1. edits' = edits + 1
    BY <1>4 DEF EditSource
  <2> QED
    BY <1>1, <2>1 DEF Unedited
<1>5. CASE UNCHANGED vars
  BY <1>3, <1>5 DEF vars, Unedited, Answered
<1>6. SUFFICES ASSUME edits = 0, UNCHANGED <<edits, source>>,
                      NEW s \in Servers,
                      \/ CreateServer(s) \/ Load(s) \/ Opened(s) \/ Summarize(s)
                      \/ Reply(s) \/ \E what \in Ids \cup {All} : Ask(s, what)
               PROVE  Unedited'
  <2>1. CASE edits' = 0 /\ ~EditSource /\ ~UNCHANGED vars
    BY <2>1, <1>6 DEF Next, CreateServer, Load, Opened, Summarize, Ask, Reply
  <2> QED
    BY <1>1, <1>4, <1>5, <2>1
    DEF Unedited, Next, CreateServer, Load, Opened, Summarize, Ask, Reply
<1>7. /\ Readable(source)' = Readable(source)
      /\ \A what : AnswerFrom(source, what)' = AnswerFrom(source, what)
  BY <1>3, <1>6 DEF Readable
<1>8. \A t \in Servers \ {s} :
         /\ pc'[t] = pc[t] /\ raw'[t] = raw[t] /\ asked'[t] = asked[t]
         /\ answer'[t] = answer[t] /\ opened'[t] = opened[t]
  BY <1>1, <1>6
  DEF CreateServer, Load, Opened, Summarize, Ask, Reply, Goto, calls
<1>9. logged => logged'
  BY <1>6 DEF CreateServer, Load, Opened, Summarize, Ask, Reply
<1> DEFINE KeptBy ==
             /\ raw'[s] \in {source, NotRead}
             /\ pc'[s] \in Begun =>
                   opened'[s] = source /\ Readable(source) /\ logged'
             /\ Answered(s)' => answer'[s] = AnswerFrom(source, asked'[s])
             /\ logged' => \/ summaries' # {}
                           \/ \E t \in Servers : pc'[t] = "summarizing"
<1>10. SUFFICES KeptBy
  BY <1>6, <1>7, <1>8, <1>9 DEF Unedited, Answered
<1>11. /\ raw[s] \in {source, NotRead}
       /\ pc[s] \in Begun => opened[s] = source /\ Readable(source) /\ logged
       /\ Answered(s) => answer[s] = AnswerFrom(source, asked[s])
       /\ pc[s] \in {"none", "opening", "summarizing"} => asked[s] = NotRead
       /\ logged => \/ summaries # {}
                    \/ \E t \in Servers : pc[t] = "summarizing"
  BY <1>6 DEF Unedited, Reads
<1>12. CASE CreateServer(s)
  BY <1>1, <1>8, <1>11, <1>12 DEF CreateServer, Goto, calls, Begun, Answered
<1>13. CASE Load(s)
  BY <1>1, <1>8, <1>11, <1>13 DEF Load, calls, Begun, Answered
<1>14. CASE Opened(s)
  <2>1. /\ pc[s] = "opening" /\ raw[s] = source /\ opened'[s] = source
        /\ raw'[s] = NotRead /\ UNCHANGED summaries /\ asked'[s] = NotRead
    BY <1>1, <1>11, <1>14 DEF Opened, Fresh, calls
  <2>2. \/ pc'[s] = "failed" /\ UNCHANGED logged
        \/ pc'[s] = "ready" /\ Readable(source) /\ logged /\ UNCHANGED logged
        \/ pc'[s] = "summarizing" /\ Readable(source) /\ logged'
    BY <1>1, <1>14, <2>1 DEF Opened, Goto
  <2> QED
    BY <1>8, <1>11, <2>1, <2>2 DEF Begun, Answered
<1>15. CASE Summarize(s)
  <2>1. /\ pc[s] = "summarizing" /\ raw[s] = source /\ Readable(source)
        /\ UNCHANGED <<logged, opened, calls>>
    BY <1>11, <1>15 DEF Summarize, Begun
  <2>2. /\ pc'[s] = "ready" /\ summaries' = summaries \cup {s}
        /\ raw'[s] = NotRead
    BY <1>1, <1>15, <2>1 DEF Summarize, Goto, Fresh
  <2> QED
    BY <1>11, <2>1, <2>2 DEF Begun, Answered, calls
<1>16. ASSUME NEW what \in Ids \cup {All}, Ask(s, what) PROVE KeptBy
  BY <1>1, <1>8, <1>11, <1>16 DEF Ask, Goto, Begun, Answered
<1>17. CASE Reply(s)
  <2>1. /\ pc[s] = "calling" /\ raw[s] = source /\ pc'[s] = "ready"
        /\ raw'[s] = NotRead /\ UNCHANGED <<opened, logged, summaries, asked>>
        /\ answer'[s] = AnswerFrom(source, asked[s])
    BY <1>1, <1>11, <1>17 DEF Reply, Goto, Fresh
  <2> QED
    BY <1>8, <1>11, <2>1 DEF Begun
<1> QED
  BY <1>6, <1>12, <1>13, <1>14, <1>15, <1>16, <1>17

LEMMA UneditedInvariant == Spec => []Unedited
<1> DEFINE Recorded == opened = [s \in Servers |-> opened[s]]
<1>1. Init => Reads /\ Unedited /\ Recorded
  BY InitReads DEF Init, Unedited, Recorded, Begun, Answered
<1>2. Recorded /\ [Next]_vars => Recorded'
  BY DEF Recorded, Next, CreateServer, Load, Opened, Summarize, Ask, Reply,
         EditSource, vars
<1>3. Selected /\ Reads /\ Unedited /\ Recorded /\ [Next]_vars => Unedited'
  BY NextUnedited
<1> HIDE DEF Recorded
<1> QED
  BY <1>1, <1>2, <1>3, NextReads, SelectedInvariant, PTL DEF Spec

(* docs/prd.md, "opened once at server startup and kept in memory": until its
   owner edits the vault nobody can tell; after an edit the answers are those
   of AnswersAreCurrent. *)
THEOREM UneditedVaultIsAsOpened == Spec => [](edits = 0 => VaultKeptInMemory)
<1>1. Selected /\ Reads /\ Unedited => (edits = 0 => VaultKeptInMemory)
  <2> SUFFICES ASSUME Reads, Unedited, edits = 0, NEW s \in Servers, Answered(s)
               PROVE  answer[s] = AnswerFrom(opened[s], asked[s])
    BY DEF VaultKeptInMemory
  <2>1. pc[s] \in Begun
    BY DEF Answered, Begun
  <2> QED
    BY <2>1 DEF Unedited
<1> QED
  BY <1>1, ReadsInvariant, UneditedInvariant, SelectedInvariant, PTL

(* server.ts, "Summarize once": until the source is edited, servers that run
   have the summary on the log, whichever of them came first; only an edit
   between open() and the count can lose it. *)
THEOREM UneditedSourceIsSummarized == Spec => [](edits = 0 => SummaryIsWritten)
<1>1. Unedited => (edits = 0 => SummaryIsWritten)
  BY DEF Unedited, SummaryIsWritten, Running, Begun
<1> QED
  BY <1>1, UneditedInvariant, PTL

=============================================================================
