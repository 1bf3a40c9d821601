------------------------------ MODULE SmallMap ------------------------------
(***************************************************************************)
(* The representations of SmallMap (src/src/internal/small_map.rs): Empty, *)
(* One and Two are the entries in `inline', none, one or two; Flexible is  *)
(* the hash map `data'.  The part that a representation does not use is    *)
(* << >>.                                                                  *)
(***************************************************************************)
EXTENDS Naturals, SequencesExt

Inline(entries) == [flexible |-> FALSE, inline |-> entries, data |-> << >>]
Flexible(map)   == [flexible |-> TRUE, inline |-> << >>, data |-> map]

Empty == Inline(<< >>)

\* The position of the first inline entry with a key, if there is one.
PositionsOf(m, k) ==
    {i \in DOMAIN m.inline :
        m.inline[i][1] = k /\ \A j \in 1 .. i - 1 : m.inline[j][1] # k}

\* get, and what get_mut lends: a set with the value, or none.
Get(m, k) ==
    {m.inline[i][2] : i \in PositionsOf(m, k)}
    \cup {m.data[j] : j \in DOMAIN m.data \cap {k}}

HasKey(m, k) == Get(m, k) # {}

\* An assignment through get_mut.  (Mutant: always the first entry.)
AssignFirst(m, k, v) ==
    IF m.inline = << >> THEN m ELSE [m EXCEPT !.inline[1] = <<k, v>>]

Assign(m, k, v) ==
    IF m.flexible
    THEN Flexible([j \in DOMAIN m.data |-> IF j = k THEN v ELSE m.data[j]])
    ELSE Inline([i \in DOMAIN m.inline |->
                    IF i \in PositionsOf(m, k) THEN <<k, v>> ELSE m.inline[i]])

\* A third key makes the map Flexible; it never goes back.  When Two has the
\* same key twice, the second entry replaces the first in the hash map.
Grow(m, k, v) ==
    CASE m.flexible -> Flexible([j \in DOMAIN m.data \cup {k} |->
                                    IF j = k THEN v ELSE m.data[j]])
      [] ~m.flexible /\ Len(m.inline) < 2 -> Inline(Append(m.inline, <<k, v>>))
      [] OTHER -> LET keys == {k, m.inline[1][1], m.inline[2][1]}
                  IN  Flexible([j \in keys |->
                          CASE j = m.inline[2][1] -> m.inline[2][2]
                            [] j = m.inline[1][1] /\ j # m.inline[2][1] -> m.inline[1][2]
                            [] OTHER -> v])

\* (Mutant: the key is not looked for.)
InsertAlways(m, k, v) == Grow(m, k, v)

Insert(m, k, v) == IF HasKey(m, k) THEN Assign(m, k, v) ELSE Grow(m, k, v)

\* remove, and the second part of split_one
Without(m, k) ==
    [m EXCEPT !.inline = IF PositionsOf(m, k) = {} THEN @
                         ELSE RemoveAt(@, CHOOSE i \in PositionsOf(m, k) : TRUE),
              !.data   = [j \in DOMAIN @ \ {k} |-> @[j]]]

\* merge, for one entry of the other map; merged are the values that the
\* function may give for two values of the key, none for None.  (Mutant: the
\* value of the other map wins.)
MergeEntryReplaces(m, k, v, merged) == Insert(m, k, v)

MergeEntry(m, k, v, merged) ==
    IF ~HasKey(m, k) THEN Insert(m, k, v)
    ELSE IF merged = {} THEN Without(m, k)
                        ELSE Assign(m, k, CHOOSE u \in merged : TRUE)

Length(m) == IF m.flexible THEN Cardinality(DOMAIN m.data) ELSE Len(m.inline)

\* The orders that iter may give the entries in.
Orders(m) ==
    IF m.flexible THEN SetToSeqs({<<k, m.data[k]>> : k \in DOMAIN m.data})
                  ELSE {m.inline}

Entries(m) ==
    {m.inline[i] : i \in DOMAIN m.inline} \cup {<<k, m.data[k]>> : k \in DOMAIN m.data}
=============================================================================
