---------------------------- MODULE RoutingRules ----------------------------
(***************************************************************************)
(* The Istio rules of one service (pkg/controller/experiment/routing): a   *)
(* DestinationRule that names subsets of the service's pods and a          *)
(* VirtualService that gives weights to subset names, each with the labels *)
(* iter8 keeps on it (role, init, experiment).  The operators here say     *)
(* what each write of the router puts in a rule; the reconciler decides    *)
(* when the writes happen.                                                 *)
(*                                                                         *)
(* A rule that does not exist is None.  A subset is the deployment whose   *)
(* pod labels it selects.  Versions are numbered: 0 is the baseline, i the *)
(* i-th candidate (the code counts candidates from 0).  The match of a     *)
(* VirtualService is the set of its clauses, empty if it takes every       *)
(* request.  Hosts, gateways and ports of a rule are left out: each write  *)
(* of the router computes them from the spec alone.                        *)
(***************************************************************************)
EXTENDS Naturals, Sequences, FiniteSets, Functions

CONSTANT None   \* "no rule", "no experiment label", "no winner"

RuleRoles == {"initializing", "progressing", "stable"}

\* Subset names, numbered within their kind.
Subset(v) == IF v = 0 THEN <<"baseline", 0>> ELSE <<"candidate", v>>
SubsetStable == <<"stable", 0>>
StableSubset(k) == <<"stable-n", k>>

Versions(spec) == 0..Len(spec.candidates)
Deployment(spec, v) == IF v = 0 THEN spec.baseline ELSE spec.candidates[v]

\* Labels of a rule iter8 creates itself.
NewLabels(e) == [role |-> "initializing", init |-> TRUE, experiment |-> e]

\* Labels after WithStableLabel and RemoveExperimentLabel.
StableLabels == [role |-> "stable", init |-> FALSE, experiment |-> None]

\* Both rules carry the role (isProgressing) or the init label (isInit).
IsProgressing(dr, vs) ==
  /\ dr # None /\ vs # None
  /\ dr.labels.role = "progressing" /\ vs.labels.role = "progressing"

IsInit(dr, vs) == dr # None /\ vs # None /\ dr.labels.init /\ vs.labels.init

-----------------------------------------------------------------------------
(* GetRoutingRules and validateDetectedRules: may e use the rules found?   *)

\* Faulty variant: the experiment label of progressing rules is not compared.
RulesAcceptedAnyLabel(dr, vs, e) ==
  \/ dr = None /\ vs = None
  \/ /\ dr # None /\ vs # None
     /\ \/ "initializing" \in {dr.labels.role, vs.labels.role}
        \/ dr.labels.role = vs.labels.role

RulesAccepted(dr, vs, e) ==
  \/ dr = None /\ vs = None
  \/ /\ dr # None /\ vs # None
     /\ \/ "initializing" \in {dr.labels.role, vs.labels.role}
        \/ dr.labels.role = "stable" /\ vs.labels.role = "stable"
        \/ /\ IsProgressing(dr, vs)
           /\ dr.labels.experiment = e /\ vs.labels.experiment = e

-----------------------------------------------------------------------------
(* UpdateBaseline: the first subset and an all-to-baseline route.          *)

BaselineDestinationRule(dr, e, spec) ==
  [labels  |-> [(IF dr = None THEN NewLabels(e) ELSE dr.labels) EXCEPT !.experiment = e],
   subsets |-> [n \in {Subset(0)} |-> spec.baseline]]

\* Clauses are appended to the ones the rule has: WithHTTPMatch.
BaselineVirtualService(vs, e, spec) ==
  [labels |-> [(IF vs = None THEN NewLabels(e) ELSE vs.labels) EXCEPT !.experiment = e],
   routes |-> [n \in {Subset(v) : v \in Versions(spec)} |-> IF n = Subset(0) THEN 100 ELSE 0],
   match  |-> (IF vs = None THEN {} ELSE vs.match) \cup spec.match]

(* UpdateCandidates: the other subsets, and the rules become progressing.  *)

CandidatesDestinationRule(dr, spec) ==
  [labels  |-> [dr.labels EXCEPT !.role = "progressing"],
   subsets |-> [n \in DOMAIN dr.subsets \cup {Subset(v) : v \in Versions(spec) \ {0}} |->
                  IF n \in DOMAIN dr.subsets THEN dr.subsets[n] ELSE spec.candidates[n[2]]]]

CandidatesVirtualService(vs) == [vs EXCEPT !.labels.role = "progressing"]

(* UpdateTrafficSplit: the weights of the assessment.                      *)

\* Faulty variant: candidates named by their place in the route, one too high.
SplitVirtualServiceShifted(vs, spec, weights) ==
  [vs EXCEPT !.routes =
     [n \in {Subset(0)} \cup {Subset(v + 1) : v \in Versions(spec) \ {0}} |->
        IF n = Subset(0) THEN weights[0] ELSE weights[n[2] - 1]]]

\* Faulty variant: the weights of the candidates are read from the baseline's on.
SplitVirtualServiceOffByOne(vs, spec, weights) ==
  [vs EXCEPT !.routes = [n \in {Subset(v) : v \in Versions(spec)} |->
                           IF n = Subset(0) THEN weights[0] ELSE weights[n[2] - 1]]]

SplitVirtualService(vs, spec, weights) ==
  [vs EXCEPT !.routes = [n \in {Subset(v) : v \in Versions(spec)} |->
                           weights[CHOOSE v \in Versions(spec) : Subset(v) = n]]]

-----------------------------------------------------------------------------
(* Cleanup: which subset of the progressing rules ends up under which      *)
(* stable name, with which weight.                                         *)

\* Faulty variant: the winner strategy falls back on the first candidate.
ToStableFirstCandidate(spec, onTermination, winner, weights) ==
  IF onTermination = "keep_last"
    THEN [v \in {u \in Versions(spec) : weights[u] > 0} |->
            StableSubset(Cardinality({u \in Versions(spec) : u < v /\ weights[u] > 0}))]
    ELSE [v \in {1} |-> SubsetStable]

\* Faulty variant: without a winner nothing is kept.
ToStableWinnerOnly(spec, onTermination, winner, weights) ==
  CASE onTermination = "to_winner" ->
         [v \in {winner} \cap (Versions(spec) \ {0}) |-> SubsetStable]
    [] onTermination = "to_baseline" -> [v \in {0} |-> SubsetStable]
    [] onTermination = "keep_last" ->
         [v \in {u \in Versions(spec) : weights[u] > 0} |->
            StableSubset(Cardinality({u \in Versions(spec) : u < v /\ weights[u] > 0}))]

\* The map from versions to stable names.  A winner is looked for among the
\* candidates only.
ToStable(spec, onTermination, winner, weights) ==
  CASE onTermination = "to_winner" /\ winner # None ->
         [v \in {winner} \cap (Versions(spec) \ {0}) |-> SubsetStable]
    [] \/ onTermination = "to_winner" /\ winner = None
       \/ onTermination = "to_baseline" ->
         [v \in {0} |-> SubsetStable]
    [] onTermination = "keep_last" ->
         [v \in {u \in Versions(spec) : weights[u] > 0} |->
            StableSubset(Cardinality({u \in Versions(spec) : u < v /\ weights[u] > 0}))]

\* ProgressingToStable of the DestinationRule: keep and rename, drop the rest.
StableDestinationRule(dr, toStable) ==
  LET kept == {v \in DOMAIN toStable : Subset(v) \in DOMAIN dr.subsets} IN
  [labels  |-> StableLabels,
   subsets |-> [n \in {toStable[v] : v \in kept} |->
                  dr.subsets[Subset(CHOOSE v \in kept : toStable[v] = n)]]]

\* ProgressingToStable of the VirtualService: one route for each stable name; the
\* match stays.
StableVirtualService(vs, toStable, onTermination, weights) ==
  [labels |-> StableLabels,
   match  |-> vs.match,
   routes |-> [n \in Range(toStable) |->
                 IF onTermination = "keep_last"
                   THEN weights[CHOOSE v \in DOMAIN toStable : toStable[v] = n]
                   ELSE 100]]

\* targets.Cleanup: the versions whose deployments stay.
Kept(spec, onTermination, winner, weights) ==
  CASE onTermination = "to_winner" /\ winner # None -> {winner}
    [] \/ onTermination = "to_winner" /\ winner = None
       \/ onTermination = "to_baseline" -> {0}
    [] onTermination = "keep_last" -> {v \in Versions(spec) : weights[v] > 0}

-----------------------------------------------------------------------------
(* What the rules do to traffic.                                           *)

Routed(vs) == {n \in DOMAIN vs.routes : vs.routes[n] > 0}

TotalWeight(vs) == SumFunction(vs.routes)

\* A weight is given to a subset name the DestinationRule does not define.
Dangling(dr, vs) == dr = None \/ ~(Routed(vs) \subseteq DOMAIN dr.subsets)
=============================================================================
