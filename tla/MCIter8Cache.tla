---------------------------- MODULE MCIter8Cache ----------------------------
(***************************************************************************)
(* Iter8Cache with two experiments competing for two services and two      *)
(* deployments: every spec, including a candidate that is also baseline.   *)
(***************************************************************************)
EXTENDS Iter8Cache, TLC

CONSTANTS e1, e2, s1, s2, d1, d2

MCExperiments == {e1, e2}
MCServices == {s1, s2}
MCDeployments == {d1, d2}

\* Experiments, services and deployments are interchangeable.
Symmetry == Permutations(MCExperiments) \cup Permutations(MCServices)
              \cup Permutations(MCDeployments)
=============================================================================
