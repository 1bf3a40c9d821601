----------------------------- MODULE MCSmallMap -----------------------------
(***************************************************************************)
(* Terms over two versions: two positive ones and two negative ones, some  *)
(* of them disjoint, some that unite to any version.                       *)
(***************************************************************************)
EXTENDS PriorCause

CONSTANTS root, foo, bar

FewTerms == {Positive({1}), Positive({1, 2}), Negative({1}), Negative({2})}
=============================================================================
