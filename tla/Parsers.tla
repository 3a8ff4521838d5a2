------------------------------ MODULE Parsers ------------------------------
(***************************************************************************)
(* What is read out of the text RouterOS prints (src/parsers.ts, the       *)
(* query of src/ssh/ssh-transport.ts, parseInterfaceStats of               *)
(* src/tools/interfaces.ts).                                               *)
(*                                                                         *)
(* These are functions the package has and tests, "kept for SSH fallback   *)
(* compatibility"; no tool calls them, since the structured tools go over  *)
(* REST and ros-command passes on text as it is.                           *)
(*                                                                         *)
(* A device prints records in one of five shapes: "detail" (an index, flag *)
(* letters, fields, continued on further lines), "flagged" (the same with  *)
(* no index, records set apart by blank lines), "pairs" (one `key: value'  *)
(* per line), "table" (values under columns) and "stats" (counters of one  *)
(* interface, their digits in groups, set apart by blank lines). The text  *)
(* is then read by one of the functions of the code, whole; what they      *)
(* should find is the list of records printed, which the code does not     *)
(* see.                                                                    *)
(*                                                                         *)
(* A line is a sequence of tokens, that is of what stands between blanks;  *)
(* a value is the sequence of its words.  A token that holds key= keeps    *)
(* the key apart, one with a quote before or after its word says so.       *)
(* Lines end in a blank, as in the printouts of the tests.  Line ends,     *)
(* letter case of headers and characters within words are left out.        *)
(*                                                                         *)
(* Definitions named Mut... are slips kept to show which property notices  *)
(* them; they are not part of the model.                                   *)
(***************************************************************************)
EXTENDS Integers, Sequences, FiniteSets, SequencesExt

CONSTANTS
    Words,        \* what stands between blanks
    Numbers,      \* the words made of digits
    Letters,      \* capital words, each with the flags it is made of
    HeaderFlags,  \* the fields named on the line "Flags:", by flag
    Keys,
    Fields,       \* what the device may print in a record
    Counters,     \* the counters it may print in the record of an interface
    Longer,       \* the names that end in another one, with that one
    CellValues,   \* what the device may print under a column
    Columns,      \* the columns of a table, from left to right
    MaxRecords,   \* bound: records in one printout
    MaxFields     \* bound: fields in one record

Values == UNION {[1..n -> Words] : n \in 0..2}
Nothing == ""   \* no key, no word
Quote == "\""

\* The counters of an interface, by the names they are printed under.
StatNames ==
    {"rx-byte", "tx-byte", "rx-packet", "tx-packet", "rx-drop", "tx-drop",
     "rx-error", "tx-error"}

\* A pattern such as rx-byte= also finds fp-rx-byte=.
EndsIn(k, name) == k = name \/ <<k, name>> \in Longer

ASSUME ParsersAssumption ==
    /\ Numbers \subseteq Words /\ Numbers # {}
    /\ DOMAIN Letters \subseteq Words \ Numbers
    /\ {Nothing, Quote} \cap (Words \cup Keys) = {}
    /\ Fields \subseteq [key : Keys, value : Values, quoted : BOOLEAN]
    /\ \A f \in Fields : f.quoted \/ f.value # <<>>
    /\ Counters \subseteq [key : STRING \ {Nothing}, value : Seq(Numbers) \ {<<>>},
                           quoted : {FALSE}]
    /\ \A f \in Fields, n \in StatNames : ~EndsIn(f.key, n)
    /\ \A p \in Longer : p[1] # Nothing
    /\ CellValues \subseteq Values
    \* The index and the flags of a row stand before the first column.
    /\ Columns \in Seq([name : Keys, at : Nat \ {0, 1}])
    /\ \A c, d \in DOMAIN Columns :
          c < d => /\ Columns[c].at < Columns[d].at
                   /\ Columns[c].name # Columns[d].name
    /\ MaxRecords \in Nat /\ MaxFields \in Nat

VARIABLES
    shape,     \* how the device prints
    printed,   \* the records printed so far
    lines,     \* their text
    reader,    \* the function that read it, "none" before
    result     \* what that function returned

textVars == <<shape, printed, lines, reader, result>>

----------------------------------------------------------------------------
(* The functions of the code *)

Token(k, o, w, c, a) == [key |-> k, opens |-> o, word |-> w, closes |-> c, at |-> a]
Line(kind, colon, tokens) == [kind |-> kind, colon |-> colon, tokens |-> tokens]

Blank(l) == l.kind = "text" /\ l.colon = Nothing /\ l.tokens = <<>>
IsPlain(t) == t.key = Nothing /\ ~t.opens /\ ~t.closes
IsNumber(t) == IsPlain(t) /\ t.word \in Numbers

\* The words of a text; key= inside a value is two of them.
Spelled(t) == (IF t.key = Nothing THEN <<>> ELSE <<t.key>>)
                \o (IF t.word = Nothing THEN <<>> ELSE <<t.word>>)
Texts(tokens) == FlattenSeq([i \in DOMAIN tokens |-> Spelled(tokens[i])])

\* The elements of s at the places in I, in their order.
Kept(s, I) ==
    LET upTo[n \in 0..Len(s)] ==
            IF n = 0 THEN <<>>
            ELSE IF n \in I THEN Append(upTo[n - 1], s[n])
            ELSE upTo[n - 1]
    IN  upTo[Len(s)]

\* An object without fields, one with a single field, and r put over s.
NoFields == [k \in {} |-> <<>>]
Field(k, v) == [x \in {k} |-> v]
Over(r, s) == [k \in DOMAIN r \cup DOMAIN s |-> IF k \in DOMAIN r THEN r[k] ELSE s[k]]

\* The last token of the value that begins in token i: the next one with a
\* closing quote.  Quotes come in pairs in what a device prints.
LastOf(tokens, i) ==
    LET closing == {j \in i..Len(tokens) : tokens[j].closes}
    IN  IF tokens[i].opens /\ closing # {}
        THEN CHOOSE j \in closing : \A h \in closing : j <= h
        ELSE i

\* An unquoted value ends at the next blank (\S+).
ValueOf(tokens, i) ==
    LET own == <<[tokens[i] EXCEPT !.key = Nothing]>>
        j   == LastOf(tokens, i)
    IN  IF tokens[i].opens /\ ~tokens[j].closes
        THEN <<Quote>> \o Texts(own)
        ELSE Texts(own \o SubSeq(tokens, i + 1, j))

\* Every key= with its value, from left to right; the last of a key counts.
extractFields(tokens) ==
    LET from[i \in 1..Len(tokens) + 1] ==
            IF i > Len(tokens) THEN NoFields
            ELSE IF tokens[i].key = Nothing \/ (~tokens[i].opens /\ tokens[i].word = Nothing)
            THEN from[i + 1]
            ELSE Over(from[LastOf(tokens, i) + 1],
                      Field(tokens[i].key, ValueOf(tokens, i)))
    IN  from[1]

\* The lines that are not content.
Headings == {"flags", "columns"}

flagMap(ls) ==
    IF \E i \in DOMAIN ls : ls[i].kind = "flags" THEN HeaderFlags ELSE NoFields

\* recordStartRe: a number, then perhaps a word of capital letters.
Starts(l) == l.colon = Nothing /\ l.tokens # <<>> /\ IsNumber(l.tokens[1])

FlagsOf(l) ==
    IF Len(l.tokens) > 1 /\ IsPlain(l.tokens[2])
         /\ l.tokens[2].word \in DOMAIN Letters
    THEN Letters[l.tokens[2].word] ELSE {}

\* A slip: only the first line of a record is kept.
MutFirstLineOnly(blocks, l) ==
    IF Starts(l)
    THEN Append(blocks, [flags |-> FlagsOf(l), tokens |-> l.tokens])
    ELSE blocks

AddLine(blocks, l) ==
    IF l.kind \in Headings \/ Blank(l) THEN blocks
    ELSE IF Starts(l)
    THEN Append(blocks, [flags |-> FlagsOf(l), tokens |-> l.tokens])
    ELSE IF blocks = <<>> THEN blocks
    ELSE [blocks EXCEPT ![Len(blocks)].tokens = @ \o l.tokens]

\* The records that begin with an index.
Blocks(ls) ==
    LET upTo[n \in 0..Len(ls)] ==
            IF n = 0 THEN <<>> ELSE AddLine(upTo[n - 1], ls[n])
    IN  upTo[Len(ls)]

\* Flags become fields, unless the record has the field itself.
WithFlags(fields, flags, names) ==
    Over(fields, [n \in {names[c] : c \in flags \cap DOMAIN names} |-> <<"yes">>])

NonEmpty(records) == Kept(records, {i \in DOMAIN records : DOMAIN records[i] # {}})

\* What stands between blank lines; some lines are left out.
AddText(ps, l, leftOut) ==
    IF l.kind \in leftOut THEN ps
    ELSE IF Blank(l) THEN Append(ps, <<>>)
    ELSE [ps EXCEPT ![Len(ps)] = @ \o l.tokens]

Paragraphs(ls, leftOut) ==
    LET upTo[n \in 0..Len(ls)] ==
            IF n = 0 THEN << <<>> >> ELSE AddText(upTo[n - 1], ls[n], leftOut)
    IN  upTo[Len(ls)]

parseDetailRecords(ls) ==
    LET blocks == Blocks(ls)
        ps     == Paragraphs(ls, Headings)
    IN  NonEmpty(
          IF blocks # <<>>
          THEN [i \in DOMAIN blocks |->
                  WithFlags(extractFields(blocks[i].tokens),
                            blocks[i].flags, flagMap(ls))]
          ELSE [i \in DOMAIN ps |-> extractFields(ps[i])])

\* A line is a pair if a blank and a value follow its colon.
AddPair(r, l) ==
    IF l.colon = Nothing \/ l.tokens = <<>> THEN r
    ELSE Over(Field(l.colon, Texts(l.tokens)), r)

parseKeyValue(ls) ==
    LET upTo[n \in 0..Len(ls)] ==
            IF n = 0 THEN NoFields ELSE AddPair(upTo[n - 1], ls[n])
    IN  upTo[Len(ls)]

\* What a row has in column c: what stands from there to the next column.
InColumn(t, c) ==
    /\ Columns[c].at <= t.at
    /\ c < Len(Columns) => t.at < Columns[c + 1].at

Cell(row, c) ==
    Texts(Kept(row.tokens, {i \in DOMAIN row.tokens : InColumn(row.tokens[i], c)}))

\* The flags between the index and the first column.
FlagArea(row) ==
    UNION {Letters[t.word] : t \in {u \in ToSet(Tail(row.tokens)) :
                                      /\ u.at < Columns[1].at
                                      /\ u.word \in DOMAIN Letters}}

ReadRow(row, names) ==
    LET filled == {c \in DOMAIN Columns : Cell(row, c) # <<>>}
    IN  WithFlags([k \in {Columns[c].name : c \in filled} |->
                     Cell(row, CHOOSE c \in filled : Columns[c].name = k)],
                  FlagArea(row), names)

parseTabularRecords(ls) ==
    LET heads == {i \in DOMAIN ls : ls[i].kind = "head"}
        first == CHOOSE i \in heads : \A j \in heads : i <= j
        below == SubSeq(ls, first + 1, Len(ls))
        rows  == Kept(below, {i \in DOMAIN below : Starts(below[i])})
    IN  IF heads = {} THEN <<>>
        ELSE NonEmpty([i \in DOMAIN rows |-> ReadRow(rows[i], flagMap(ls))])

\* The query of the SSH transport.
query(ls) ==
    LET records == parseDetailRecords(ls)
        pairs   == parseKeyValue(ls)
    IN  IF records # <<>> THEN records ELSE NonEmpty(<<pairs>>)

\* A slip: a number ends at the first blank, like any value without quotes.
MutOneGroup(tokens, i) == <<tokens[i].word>>

\* The digits of the number that begins in token i, in their groups; \d[\d ]*
\* goes over blanks.
Digits(tokens, i) ==
    LET ends == {j \in i + 1..Len(tokens) : ~IsNumber(tokens[j])}
                    \cup {Len(tokens) + 1}
        end  == CHOOSE j \in ends : \A h \in ends : j <= h
    IN  [k \in 1..end - i |-> tokens[i + k - 1].word]

\* extractNumField: the first number under the name or one that ends in it,
\* or 0.
NumField(tokens, name) ==
    LET found == {i \in DOMAIN tokens : /\ EndsIn(tokens[i].key, name)
                                       /\ ~tokens[i].opens
                                       /\ tokens[i].word \in Numbers}
    IN  IF found = {} THEN <<"0">>
        ELSE Digits(tokens, CHOOSE i \in found : \A j \in found : i <= j)

\* extractQuotedField for the name: what the first quotes after name= hold, or
\* after a key that ends in it such as default-name=, or nothing.
NameIn(tokens) ==
    LET found == {i \in DOMAIN tokens :
                    EndsIn(tokens[i].key, "name") /\ tokens[i].opens}
    IN  IF found = {} THEN <<>>
        ELSE ValueOf(tokens, CHOOSE i \in found : \A j \in found : i <= j)

parseInterfaceStats(ls) ==
    LET ps     == Paragraphs(ls, Headings \cup {"more"})
        blocks == Kept(ps, {i \in DOMAIN ps : NameIn(ps[i]) # <<>>})
    IN  [i \in DOMAIN blocks |->
           [n \in StatNames \cup {"name"} |->
              IF n = "name" THEN NameIn(blocks[i]) ELSE NumField(blocks[i], n)]]

----------------------------------------------------------------------------
(* The device prints *)

\* The lines before the first record: none, or flags on two lines.
FlagLines == <<Line("flags", Nothing, <<>>), Line("more", Nothing, <<>>)>>

TableHead == <<Line("columns", Nothing, <<>>), Line("head", Nothing, <<>>)>>

ParsersInit ==
    /\ shape \in {"detail", "flagged", "pairs", "table", "stats"}
    /\ \E h \in {<<>>, FlagLines} :
          /\ shape \in {"flagged", "table", "stats"} => h # <<>>
          /\ shape = "pairs" => h = <<>>
          /\ lines = h \o (IF shape = "table" THEN TableHead ELSE <<>>)
    /\ printed = <<>>
    /\ reader = "none"
    /\ result = <<>>

Word(w, at) == Token(Nothing, FALSE, w, FALSE, at)

FieldTokens(f) ==
    LET n == Len(f.value)
        W(i) == IF i <= n THEN f.value[i] ELSE Nothing
        size == IF n = 0 THEN 1 ELSE n
    IN  [i \in 1..size |-> Token(IF i = 1 THEN f.key ELSE Nothing,
                                 f.quoted /\ i = 1, W(i),
                                 f.quoted /\ i = size, 0)]

Printing == reader = "none"

AnIndex == <<Word(CHOOSE n \in Numbers : TRUE, 0)>>
FlagWord(w, at) == IF w = Nothing THEN <<>> ELSE <<Word(w, at)>>
FlagsIn(w) == IF w = Nothing THEN {} ELSE Letters[w]

BlankLine == Line("text", Nothing, <<>>)
Gap(gap) == IF gap THEN <<BlankLine>> ELSE <<>>

\* A record begins, after a blank line or not: its index and its flags, or
\* its flags alone.
BeginRecord(w, gap) ==
    /\ Printing /\ shape \in {"detail", "flagged"}
    /\ Len(printed) < MaxRecords
    /\ gap => printed # <<>>
    /\ shape = "flagged" => w # Nothing /\ (printed # <<>> => gap)
    /\ printed' = Append(printed, [flags |-> FlagsIn(w), fields |-> {}])
    /\ LET index == IF shape = "detail" THEN AnIndex ELSE <<>>
       IN  lines' = Append(lines \o Gap(gap),
                           Line("text", Nothing, index \o FlagWord(w, 0)))
    /\ UNCHANGED <<shape, reader, result>>

HasKey(r, k) == \E f \in r.fields : f.key = k

Room(f) ==
    /\ printed # <<>>
    /\ ~HasKey(Last(printed), f.key)
    /\ Cardinality(Last(printed).fields)
          < IF shape = "stats" THEN MaxFields + 1 ELSE MaxFields  \* and a name

WithField(f) == [printed EXCEPT ![Len(printed)].fields = @ \cup {f}]

\* A field is printed whole, on the line begun or on one of its own.
PrintField(f, wrap) ==
    /\ Printing /\ Room(f)
    /\ \/ shape \in {"detail", "flagged"} /\ f \in Fields
       \/ shape = "stats" /\ f \in Fields \cup Counters
    /\ printed' = WithField(f)
    /\ lines' = IF wrap THEN Append(lines, Line("text", Nothing, FieldTokens(f)))
                ELSE [lines EXCEPT ![Len(lines)].tokens = @ \o FieldTokens(f)]
    /\ UNCHANGED <<shape, reader, result>>

\* The record of an interface begins: its index, its flags and its name, which
\* comes before all other fields; the interfaces are set apart by blank lines.
BeginInterface(w, name) ==
    /\ Printing /\ shape = "stats"
    /\ Len(printed) < MaxRecords
    /\ name.key = "name" /\ name.quoted /\ name.value # <<>>
    /\ printed' = Append(printed, [flags |-> FlagsIn(w), fields |-> {name}])
    /\ lines' = Append(lines \o Gap(printed # <<>>),
                       Line("text", Nothing, AnIndex \o FlagWord(w, 0) \o FieldTokens(name)))
    /\ UNCHANGED <<shape, reader, result>>

\* A pair, perhaps without a value; a word of its value that looks like
\* key=word is one in the text.
PairText(f, k) ==
    [i \in DOMAIN f.value |->
       Token(IF i = 1 THEN k ELSE Nothing, FALSE, f.value[i], FALSE, 0)]

PrintPair(f, k) ==
    LET pair == [key |-> f.key, value |-> Texts(PairText(f, k)), quoted |-> FALSE]
    IN  /\ Printing /\ shape = "pairs"
        /\ \/ printed = <<>> /\ printed' = <<[flags |-> {}, fields |-> {pair}]>>
           \/ Room(f) /\ printed' = WithField(pair)
        /\ lines' = Append(lines, Line("text", f.key, PairText(f, k)))
        /\ UNCHANGED <<shape, reader, result>>

\* A row of a table, with a value or nothing under each column.
Under(cells, c) == [i \in DOMAIN cells[c] |-> Word(cells[c][i], Columns[c].at)]

RowLine(w, cells) ==
    Line("text", Nothing, AnIndex \o FlagWord(w, 1)
                       \o FlattenSeq([c \in DOMAIN Columns |-> Under(cells, c)]))

RowRecord(w, cells) ==
    [flags  |-> FlagsIn(w),
     fields |-> {[key |-> Columns[c].name, value |-> cells[c], quoted |-> FALSE]
                   : c \in {d \in DOMAIN Columns : cells[d] # <<>>}}]

PrintRow(w, cells) ==
    /\ Printing /\ shape = "table" /\ Len(printed) < MaxRecords
    /\ \E c \in DOMAIN Columns : cells[c] # <<>>
    /\ lines' = Append(lines, RowLine(w, cells))
    /\ printed' = Append(printed, RowRecord(w, cells))
    /\ UNCHANGED <<shape, reader, result>>

----------------------------------------------------------------------------
(* The code reads *)

ReadBy(r, outcome) ==
    /\ Printing
    /\ reader' = r
    /\ result' = outcome
    /\ UNCHANGED <<shape, printed, lines>>

Query     == shape # "stats" /\ ReadBy("query", query(lines))
ReadTable == shape = "table" /\ ReadBy("table", parseTabularRecords(lines))
Stats     == shape = "stats" /\ ReadBy("stats", parseInterfaceStats(lines))

ParsersNext ==
    \/ \E w \in DOMAIN Letters \cup {Nothing}, gap \in BOOLEAN : BeginRecord(w, gap)
    \/ \E w \in DOMAIN Letters \cup {Nothing}, f \in Fields : BeginInterface(w, f)
    \/ \E f \in Fields \cup Counters, wrap \in BOOLEAN : PrintField(f, wrap)
    \/ \E f \in Fields, k \in Keys \cup {Nothing} : PrintPair(f, k)
    \/ \E w \in DOMAIN Letters \cup {Nothing}, cells \in [DOMAIN Columns -> CellValues] :
          PrintRow(w, cells)
    \/ Query \/ ReadTable \/ Stats

ParsersSpec == ParsersInit /\ [][ParsersNext]_textVars

----------------------------------------------------------------------------
(* Properties *)

\* The value of a field, or what a reader of detail takes for it: without
\* quotes it ends at the first blank.
Whole(f) == f.value
UpToBlank(f) == IF f.quoted THEN f.value ELSE <<f.value[1]>>

\* What is in a record as it was printed: its fields, an unquoted one that is
\* empty being none, and, when flags count, the flags of the header line that
\* are not fields anyway.
Meant(r, flagsCount, ValueOfField(_)) ==
    LET told  == {f \in r.fields : f.quoted \/ f.value # <<>>}
        keys  == {f.key : f \in told}
        named == {flagMap(lines)[c] : c \in r.flags \cap DOMAIN flagMap(lines)}
    IN  [k \in keys \cup (IF flagsCount THEN named ELSE {}) |->
           IF k \in keys THEN ValueOfField(CHOOSE f \in told : f.key = k)
           ELSE <<"yes">>]

MeantAll(ValueOfField(_)) ==
    NonEmpty([i \in DOMAIN printed |->
                Meant(printed[i], shape \in {"detail", "table"}, ValueOfField)])

FieldNames == Keys \cup {f.key : f \in Counters}
Spellings == Words \cup FieldNames \cup {Quote}

Tokens == [key : FieldNames \cup {Nothing}, opens : BOOLEAN,
           word : Words \cup {Nothing}, closes : BOOLEAN, at : Nat]

Lines == [kind : {"flags", "more", "columns", "head", "text"},
          colon : FieldNames \cup {Nothing}, tokens : Seq(Tokens)]

Records == [flags  : SUBSET UNION {Letters[w] : w \in DOMAIN Letters},
            fields : SUBSET [key : FieldNames, value : Seq(Spellings),
                             quoted : BOOLEAN]]

ParsersTypeOK ==
    /\ shape \in {"detail", "flagged", "pairs", "table", "stats"}
    /\ printed \in Seq(Records)
    /\ lines \in Seq(Lines)
    /\ reader \in {"none", "query", "table", "stats"}

\* Records come out as they went in, each field in its own record, however
\* their lines are broken and whatever blank lines and headers stand between;
\* an unquoted value is cut at its first blank and disturbs nothing else;
\* known flags become fields and override none (parseDetailRecords behind
\* query, with its fallback); key-value output without = in its values is left
\* to the second attempt; and the rows of a table keep each value under its
\* own column and their flags, empty cells left out (parseTabularRecords).
RecordsAreRead ==
    /\ reader = "query" /\ shape \in {"detail", "flagged"} =>
          result = MeantAll(UpToBlank)
    /\ reader = "query" /\ shape = "pairs"
          /\ (\A i \in DOMAIN lines : \A j \in DOMAIN lines[i].tokens :
                 lines[i].tokens[j].key = Nothing) =>
          result = MeantAll(Whole)
    /\ reader = "table" => result = MeantAll(Whole)

\* "RouterOS formats numbers with spaces" (parseInterfaceStats): each counter
\* comes out with all its digits, from a field of its own interface that has
\* its name or one that ends in it, and as 0 only if there is none; the name
\* is the interface's own, although others may end in name; wherever lines
\* are broken.
StatsAreRead ==
    reader = "stats" =>
        /\ Len(result) = Len(printed)
        /\ \A i \in DOMAIN printed :
              LET OfName(n) == {f \in printed[i].fields : EndsIn(f.key, n)}
              IN  /\ \A n \in StatNames :
                        IF OfName(n) = {} THEN result[i][n] = <<"0">>
                        ELSE \E f \in OfName(n) : result[i][n] = f.value
                  /\ \E f \in printed[i].fields :
                        f.key = "name" /\ result[i]["name"] = f.value

\* "unquoted values end at the next key= or end of meaningful content", says
\* the comment on parseDetailRecords, also when they hold a blank, such as a
\* date and a time; the pattern ends them at the blank.
ValuesAreWhole ==
    reader = "query" /\ shape = "detail" => result = MeantAll(Whole)

\* "Fallback: try key-value format (single-record paths like
\* /system/identity)", says the query; a value that holds key=word is read
\* as a detail record before.
SingleRecordsAreRead ==
    reader = "query" /\ shape = "pairs" => result = MeantAll(Whole)

=============================================================================
