----------------------------- MODULE AtomicVault -----------------------------
(***************************************************************************)
(* What createEntry promises its callers: a store of entries, and a line   *)
(* of pending calls served first come, first served, each of which either  *)
(* adds its entry to the store as the store is at that moment, in one      *)
(* step, or leaves it alone.  A call that was told "ok" had its entry      *)
(* added; one that was told "rejected" never has.  Others may add or       *)
(* remove an entry at any time and find the store whole.                   *)
(* VaultWriter is shown to implement this.                                 *)
(***************************************************************************)
EXTENDS Sequences

CONSTANTS
    Calls,      \* calls, each naming the entry it adds
    Outside,    \* entries only others add
    TitleOf     \* the title of every entry

VARIABLES
    store,      \* the entries in the vault
    line,       \* pending calls, oldest first
    answer      \* what each call was told, or how far it got

vars == <<store, line, answer>>

Distinct(es) == \A x, y \in es : TitleOf[x] = TitleOf[y] => x = y

Init ==
    /\ store \in SUBSET Outside
    /\ Distinct(store)
    /\ line = <<>>
    /\ answer = [c \in Calls |-> "none"]

InLine(c) == \E i \in DOMAIN line : line[i] = c

Submit(c) ==
    /\ answer[c] = "none"
    /\ ~InLine(c)
    /\ line' = Append(line, c)
    /\ UNCHANGED <<store, answer>>

(* The oldest call adds its entry to the store as it is now. *)
Commit(c) ==
    /\ line # <<>> /\ Head(line) = c
    /\ \A e \in store : TitleOf[e] # TitleOf[c]
    /\ store' = store \cup {c}
    /\ line' = Tail(line)
    /\ answer' = [answer EXCEPT ![c] = "ok"]

(* The oldest call gives up. *)
Reject(c) ==
    /\ line # <<>> /\ Head(line) = c
    /\ line' = Tail(line)
    /\ answer' = [answer EXCEPT ![c] = "rejected"]
    /\ UNCHANGED store

(* The server stops: nobody hears from the pending calls again, nor from an
   answered one whose answer was still on its way. *)
Stop(unheard) ==
    /\ line' = <<>>
    /\ answer' = [c \in Calls |->
                    IF c \in unheard \/ InLine(c)
                    THEN "aborted" ELSE answer[c]]
    /\ UNCHANGED store

Edit ==
    /\ \/ \E x \in Outside : /\ \A e \in store : TitleOf[e] # TitleOf[x]
                             /\ store' = store \cup {x}
       \/ \E e \in store : store' = store \ {e}
    /\ UNCHANGED <<line, answer>>

Next ==
    \/ \E c \in Calls : Submit(c) \/ Commit(c) \/ Reject(c)
    \/ \E unheard \in SUBSET Calls : Stop(unheard)
    \/ Edit

Spec == Init /\ [][Next]_vars

=============================================================================
