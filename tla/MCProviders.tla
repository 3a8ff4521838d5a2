---------------------------- MODULE MCProviders ----------------------------
(* A small instance of Providers for TLC: two ids that are also hosts, and
   lists that an operator may well write: one device, two, none, an id given
   twice, and an id that is the host another device goes by. *)
EXTENDS Providers, TLC

CONSTANTS a, b, x, y, p, q

Written(i, h, s) == [id |-> i, host |-> h, secret |-> s]

SmallLists ==
    { <<>>,
      <<Written(a, b, x)>>,
      <<Written(Unset, a, y)>>,
      <<Written(a, a, x), Written(b, b, y)>>,
      <<Written(a, a, x), Written(a, b, y)>>,
      <<Written(Unset, b, y), Written(b, a, x)>> }

Only(variables) ==
    [explicit |-> "unset",
     password |-> "password" \in variables, file |-> "file" \in variables,
     host |-> "host" \in variables, hostPassword |-> "host" \in variables,
     list |-> "list" \in variables]

OnePerKind == {Only({"password"}), Only({"file"}), Only({"list"})}

(* Several sources are set up, and the operator names one. *)
Named == {[Only({"password", "file", "list"}) EXCEPT !.explicit = "file"]}

SetUp(e) == Cardinality({v \in {"password", "file", "host", "list"} : e[v]})

(* The variables contradict each other, name a source that is not set up, or
   leave the password out. *)
Unclear ==
    { e \in Environments :
        \/ e.explicit = "other"
        \/ e.explicit = "keepass" /\ ~e.password
        \/ e.explicit = "file" /\ ~e.file
        \/ e.explicit = "env" /\ e.host = e.list
        \/ e.explicit = "unset" /\ SetUp(e) # 1
        \/ e.explicit \in {"env", "unset"} /\ e.host /\ ~e.hostPassword }

Telling == OnePerKind \cup Named \cup Unclear

VaultAndFile == {Only({"password"}), Only({"file"})}

SetSymmetry == Permutations(Servers)
=============================================================================
