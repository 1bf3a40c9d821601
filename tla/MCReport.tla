------------------------------ MODULE MCReport ------------------------------
(***************************************************************************)
(* All derivations of a few steps.  Step k has its own two external        *)
(* incompatibilities, 3k - 2 and 3k - 1, and derives 3k; each of its       *)
(* causes is one of the two or what an earlier step derived.               *)
(***************************************************************************)
EXTENDS Report

CONSTANT Steps

CauseChoices(k, external) == {external} \cup {3 * j : j \in 1 .. k - 1}

StepChoices(k) == CauseChoices(k, 3 * k - 2) \X CauseChoices(k, 3 * k - 1)

DerivationsUpTo[n \in Nat] ==
    IF n = 0 THEN {<< >>}
    ELSE {d \o <<<< >>, << >>, pair>> : d \in DerivationsUpTo[n - 1], pair \in StepChoices(n)}

\* What fails is the last one derived, or an external one.
SmallFailures ==
    [causes : DerivationsUpTo[Steps], incompat : {3 * Steps}]
    \cup [causes : DerivationsUpTo[1], incompat : {1}]
=============================================================================
