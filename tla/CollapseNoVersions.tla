------------------------- MODULE CollapseNoVersions -------------------------
(***************************************************************************)
(* DerivationTree::collapse_no_versions and merge_no_versions              *)
(* (src/src/report.rs).  A tree is an incompatibility of the store, with   *)
(* trees for the causes of a derived one.  The code changes a copy of every*)
(* node that is shared, and both copies in the same way: the tree under an *)
(* id is collapsed once here.                                              *)
(***************************************************************************)
EXTENDS Incompatibility

\* The ranges of a FromDependencyOf.
DependentRange(tree) == Get(tree.terms, tree.dependency[1]).set

DependencyRange(tree) ==
    UNION {t.set : t \in {u \in TermsOf(tree.terms, tree.dependency[2]) : ~u.positive}}

\* (Mutant: the range without versions replaces the one it should be added to.)
MergeReplaces(tree, p, set) ==
    IF p = tree.dependency[1]
    THEN FromDependency(p, set, tree.dependency[2], DependencyRange(tree))
    ELSE FromDependency(tree.dependency[1], DependentRange(tree), tree.dependency[2], set)

MergeNoVersions(tree, p, set) ==
    IF p = tree.dependency[1]
    THEN FromDependency(p, DependentRange(tree) \cup set,
                        tree.dependency[2], DependencyRange(tree))
    ELSE FromDependency(tree.dependency[1], DependentRange(tree),
                        tree.dependency[2], DependencyRange(tree) \cup set)

\* What takes the place of `node', of which one cause is a NoVersions and the
\* other is `tree', collapsed already: that one, with the range of NoVersions
\* merged into it if it is a dependency; the node stays when it gives another
\* reason.  (For a NotRoot the code panics.)
Replacement(node, noVersions, tree) ==
    CASE tree.kind = "derived"    -> tree
      [] tree.kind = "dependency" ->
            LET x == CHOOSE x \in noVersions.terms : TRUE
            IN  MergeNoVersions(tree, x[1], x[2].set)
      [] OTHER -> node

IsNoVersions(tree) == tree.kind = "no_versions"

\* node has its causes collapsed; a NoVersions is the same before and after.
\* (Mutant: the second cause is not looked at.)
CollapseFirstOnly(node) ==
    IF IsNoVersions(node.causes[1])
    THEN Replacement(node, node.causes[1], node.causes[2])
    ELSE node

CollapseNode(node) ==
    LET cause1 == node.causes[1]
        cause2 == node.causes[2]
    IN  CASE IsNoVersions(cause1) -> Replacement(node, cause1, cause2)
          [] ~IsNoVersions(cause1) /\ IsNoVersions(cause2) -> Replacement(node, cause2, cause1)
          [] OTHER -> node

\* The tree under each id of the store s.
CollapsedTrees(s) ==
    LET tree[id \in DOMAIN s] ==
            IF s[id].kind = "derived"
            THEN CollapseNode([s[id] EXCEPT !.causes =
                                  <<tree[s[id].causes[1]], tree[s[id].causes[2]]>>])
            ELSE s[id]
    IN  tree

\* The ids of the tree under id.
Ancestors(s, id) ==
    LET below[i \in DOMAIN s] ==
            {i} \cup UNION {below[s[i].causes[k]] : k \in DOMAIN s[i].causes}
    IN  below[id]
=============================================================================
