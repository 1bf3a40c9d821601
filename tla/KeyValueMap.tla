---------------------------- MODULE KeyValueMap ----------------------------
(***************************************************************************)
(* What a map promises: what the users of SmallMap                         *)
(* (src/src/internal/small_map.rs) rely on.  `returned' is the Option that *)
(* the last call answered with: a set with the value, or none.             *)
(***************************************************************************)
EXTENDS Naturals, FiniteSets

CONSTANTS Keys, Values

VARIABLES content, returned

vars == <<content, returned>>

Lookup(k) == {content[j] : j \in DOMAIN content \cap {k}}

Init ==
    /\ content = << >>
    /\ returned = {}

\* insert
Put(k, v) ==
    /\ content' = [j \in DOMAIN content \cup {k} |-> IF j = k THEN v ELSE content[j]]
    /\ returned' = {}

\* An assignment through get_mut, which finds nothing if there is no such key.
Update(k, v) ==
    /\ returned' = Lookup(k)
    /\ content' = [j \in DOMAIN content |-> IF j = k THEN v ELSE content[j]]

Remove(k) ==
    /\ returned' = Lookup(k)
    /\ content' = [j \in DOMAIN content \ {k} |-> content[j]]

Get(k) ==
    /\ returned' = Lookup(k)
    /\ UNCHANGED content

Next ==
    \E k \in Keys :
        \/ Remove(k) \/ Get(k)
        \/ \E v \in Values : Put(k, v) \/ Update(k, v)

Spec == Init /\ [][Next]_vars
=============================================================================
