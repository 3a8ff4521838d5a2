----------------------------- MODULE MCParsers -----------------------------
(* A small instance of Parsers for TLC: the flag X is named on the header
   line, the flag D on its continuation; disabled is both a flag and a
   field; one field is quoted and empty; default-name ends in name and
   fp-rx-byte in rx-byte. *)
EXTENDS Parsers

Quoted(k, v) == [key |-> k, value |-> v, quoted |-> TRUE]
Bare(k, v) == [key |-> k, value |-> v, quoted |-> FALSE]

TestWords == {"0", "8", "yes", "no", "lan", "one", "two", "XD"}
TestKeys == {"name", "default-name", "list-of", "disabled", "secret"}
TestLetters == [w \in {"XD"} |-> {"X", "D"}]
TestHeaderFlags == [c \in {"X"} |-> "disabled"]
TestLonger == {<<"fp-rx-byte", "rx-byte">>, <<"default-name", "name">>}

\* A record may hold quoted words, one word, several without quotes and a
\* number, as the example at the head of parseDetailRecords does.
TestFields ==
    { Quoted("name", <<"one", "two">>), Quoted("default-name", <<"lan">>),
      Quoted("list-of", <<>>), Bare("disabled", <<"no">>),
      Bare("secret", <<"two", "8">>) }

SpacedFields == {Bare("name", <<"one", "two">>), Bare("disabled", <<"no">>)}

TestCounters ==
    { Bare("rx-byte", <<"8">>), Bare("fp-rx-byte", <<"0", "0">>),
      Bare("tx-byte", <<"8", "8">>), Bare("tx-queue-drop", <<"0">>) }

TestCells == {<<>>, <<"0">>, <<"lan">>, <<"one", "two">>}

TestColumns == <<[name |-> "name", at |-> 4], [name |-> "list-of", at |-> 12],
                 [name |-> "secret", at |-> 20]>>
=============================================================================
