---------------------------- MODULE MCReconciler ----------------------------
(***************************************************************************)
(* Small instances of Reconciler: one experiment with one candidate or     *)
(* two, or two experiments on the same service, with or without criteria.  *)
(* Each .cfg picks the experiments, the environment and the properties.    *)
(***************************************************************************)
EXTENDS Reconciler, TLC

CONSTANTS e1, e2, s1, d0, d1, d2, m1

One == {e1}
Two == {e1, e2}
Nobody == {}
MCServices == {s1}
OneCandidate == {d0, d1}
TwoCandidates == {d0, d1, d2}

\* Without criteria the baseline's 100 is used up by two increments of 50.
Base == [service |-> s1, baseline |-> d0, candidates |-> <<d1>>,
         onTermination |-> "to_winner", criteria |-> FALSE, cleanup |-> FALSE,
         maxIterations |-> 1, maxIncrement |-> 50, match |-> {}]

Plain == [e \in One |-> Base]

Criteria == [e \in One |-> [Base EXCEPT !.criteria = TRUE, !.cleanup = TRUE]]
CriteriaPair == [e \in One |-> [Base EXCEPT !.candidates = <<d1, d2>>, !.criteria = TRUE,
                                            !.cleanup = TRUE]]

\* Two experiments compete for the same targets.  Each candidate takes 30: 100, 40,
\* and then the baseline has too little left.
Rivals == [e \in Two |-> [Base EXCEPT !.candidates = <<d1, d2>>, !.onTermination = "keep_last",
                                      !.maxIncrement = 30]]

\* The first one is about some requests only, the second one about all of them.
Successors == (e1 :> [Base EXCEPT !.match = {m1}]) @@ (e2 :> Base)

\* Without rules, or with the stable ones an earlier experiment left on d0 or on
\* d0 and d1.
NoRules == [dr |-> None, vs |-> None]
LeftBy(subsets, routes) ==
  [dr |-> [labels |-> StableLabels, subsets |-> subsets],
   vs |-> [labels |-> StableLabels, routes |-> routes, match |-> {}]]
Unruled == {NoRules}
AnyRules == {NoRules, LeftBy(SubsetStable :> d0, SubsetStable :> 100),
             LeftBy(StableSubset(0) :> d0 @@ StableSubset(1) :> d1,
                    StableSubset(0) :> 30 @@ StableSubset(1) :> 70)}
MCMatches == {m1}

\* Overrides a user may set.
Pause == [action |-> "pause", split |-> NoSplit]
Resume == [action |-> "resume", split |-> NoSplit]
Stop == Terminate(NoSplit)

NoOverrides == {}
JustPause == {Pause}
PauseAndResume == {Pause, Resume}
AllOverrides == {Pause, Resume, Stop}

\* Answers of the analytics service, for one candidate and for two.
Answer(winner, weights, rollback) ==
  [winner |-> winner, weights |-> weights, rollback |-> rollback]
NoResponses == {}
Good == Answer(None, 0 :> 60 @@ 1 :> 40, {})
Won == Answer(1, 0 :> 20 @@ 1 :> 80, {})
AllBad == Answer(None, 0 :> 100 @@ 1 :> 0, {1})
Incomplete == Answer(None, 0 :> 60, {})
Answers == {Good, Won, AllBad, Incomplete}

PairAnswers ==
  {Answer(None, 0 :> 40 @@ 1 :> 30 @@ 2 :> 30, {}),
   Answer(2, 0 :> 50 @@ 1 :> 0 @@ 2 :> 50, {1}),
   Answer(None, 0 :> 100 @@ 1 :> 0 @@ 2 :> 0, {1, 2})}

AllExist == {{s1} \cup Deployments}
AnyTargets == SUBSET ({s1} \cup Deployments)
SomeMissing == {ts \in AnyTargets : Cardinality(ts) \in {2, 3}}
=============================================================================
