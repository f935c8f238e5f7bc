----------------------- MODULE ReconcilerRestProofs -----------------------
(***************************************************************************)
(* What a request leaves when the worker rests, in runs in which nothing   *)
(* fails, crashes, is edited, deleted or lost: rules that fit each other,  *)
(* a status that says what the traffic does, and, once an experiment has   *)
(* completed, stable rules that route all of the traffic to deployments    *)
(* that exist.                                                             *)
(*                                                                         *)
(* The proof goes in two halves.  First, each step of such a run is one of *)
(* some twenty kinds, told apart by what it writes and where the request   *)
(* goes; this takes the invariant that targets reported as found mean      *)
(* rules that run, and that nobody is ever told to terminate.  Then each   *)
(* property has an invariant of its own, kept by every kind of step.       *)
(***************************************************************************)
EXTENDS ReconcilerTrafficProofs

\* Nothing fails, crashes, is edited, deleted or lost, and no read is stale; and nobody
\* else needs a target of an experiment that cleans its targets up.
Peace ==
  /\ ~StaleReads
  /\ MaxOverrides = 0 /\ MaxFailures = 0 /\ MaxLosses = 0 /\ MaxCrashes = 0
  /\ Deletable = {}
  /\ \A e, f \in Experiments :
       SpecOf[e].cleanup /\ e # f => TargetsOf(e) \cap TargetsOf(f) = {}

\* Rules found at first route to subsets that exist.
RulesGiven == \A r \in InitialRules : r.vs # None => ~Dangling(r.dr, r.vs)

-----------------------------------------------------------------------------
(* The objects and the worker's copy of one.                               *)

Untouched(e, o) ==
  /\ ~o.deleting /\ o.spec.override = None /\ o.spec.onTermination = SpecOf[e].onTermination
  /\ DOMAIN o.status.weights = Versions(SpecOf[e])
ObjectsUntouched == \A e \in Experiments : stored[e] # None => Untouched(e, stored[e])

LatePcs == {"complete", "cleanupTargets", "cleanupDR", "cleanupVS", "end"}
Aborted(o) == o.spec.override = Terminate(NoSplit) /\ o.spec.onTermination = "to_baseline"

\* The copy is the stored version, and only an abort asks it to terminate.
AtPeace(x) ==
  /\ x.pc \notin {"pauseSave", "resumeSave", "abandonTargets", "unfinalize"}
  /\ x.fresh /\ stored[x.e] # None /\ ~x.terminate /\ ~x.refresh
  /\ ~x.inst.deleting
  /\ DOMAIN x.inst.status.weights = Versions(SpecOf[x.e])
  /\ \/ Untouched(x.e, x.inst)
     \/ x.pc \in LatePcs /\ Aborted(x.inst)
  /\ x.pc = "cleanupTargets" => SpecAt(x).cleanup
OffPcs == {"idle", "notFound"}

\* e has given its targets back for good.
Over(e) ==
  \/ Completed(e)
  \/ w.e = e /\ (w.pc \in CleanupPcs \/ (w.pc = "end" /\ w.inst.status.completed))
AbstractFields == {"service", "status", "action", "deletedRole"}
Abstracted(e, ea) ==
  /\ DOMAIN ea = AbstractFields
  /\ ea.action # "terminate" /\ ea.service = SpecOf[e].service
  /\ Cache!DeploymentsOf(ea) \subseteq TargetsOf(e)
ClaimsKnown ==
  \A e \in Experiments : Claimed(e) => ~Over(e) /\ Abstracted(e, experimentAbstractStore[e])
LossesKnown ==
  \A t \in announced \ exists :
    \E e \in Experiments : SpecOf[e].cleanup /\ t \in TargetsOf(e) /\ Over(e)

Spent == Quota /\ budget.crashes = 0

PeaceInv ==
  /\ Spent
  /\ ObjectsUntouched /\ (w.pc \notin OffPcs => AtPeace(w))
  /\ DOMAIN experimentAbstractStore = Experiments
  /\ ClaimsKnown /\ LossesKnown

-----------------------------------------------------------------------------
(* The two rules of a service, and the experiment they run for.            *)

Alike(d, v) ==
  \/ d = None /\ v = None
  \/ d # None /\ v # None /\ d.labels = v.labels /\ ~Dangling(d, v)

HalfPcs == {"baselineVS", "candidatesVS", "cleanupVS"}
\* The first of two writes was made.
Halfway(x, d, v) ==
  LET spec == SpecAt(x) IN
  /\ x.pc \in {"baselineVS", "candidates", "candidatesVS"} => d # None
  /\ x.pc \in {"candidates", "candidatesVS"} => v # None
  /\ x.pc = "baselineVS" => d.labels = BaselineVirtualService(v, x.e, spec).labels
  /\ x.pc = "candidatesVS" => d.labels = CandidatesVirtualService(v).labels
  /\ x.pc = "cleanupVS" =>
       /\ v # None /\ v.labels.role = "progressing" /\ v.labels.experiment = x.e
       /\ HasRoutes(v) /\ DOMAIN v.routes = Names(spec)
       /\ \/ d = None /\ spec.cleanup
          \/ d = StableDestinationRule([subsets |-> AllSubsets(spec)], Stable(x))
PairsAlike ==
  \A s \in Services : Alike(dr[s], vs[s]) \/ (w.pc \in HalfPcs /\ s = Svc(w))
RulesHalfway == w.pc # "idle" => Halfway(w, dr[Svc(w)], vs[Svc(w)])

RunsAt(e) == RunsFor(SpecOf[e].service, e)
RunsAtHome == \A e \in Experiments, s \in Services : RunsFor(s, e) => s = SpecOf[e].service
Found(o) == o.status.targets = "True" /\ ~o.status.completed
Retired(e) == w.e = e /\ (w.pc = "cleanupVS" \/ (w.pc = "end" /\ w.inst.status.completed))
\* Targets that were found mean that the rules run.
FoundRuns ==
  \A e \in Experiments : stored[e] # None /\ Found(stored[e]) /\ ~Retired(e) => RunsAt(e)

BeforePcs == {"init", "finalizer", "dispatch", "metrics", "rules"}
LayPcs == {"detect", "baselineDR", "baselineVS", "candidates", "candidatesVS"}
RunPcs == {"iterate", "split", "complete", "cleanupTargets", "cleanupDR"}
Runs(x) ==
  /\ x.pc \in BeforePcs \cup LayPcs =>
       /\ x.inst.status.targets = stored[x.e].status.targets
       /\ x.inst.status.completed = stored[x.e].status.completed
  /\ x.pc \in BeforePcs \cup {"detect", "baselineDR", "baselineVS"} =>
       x.inst.status.weights = stored[x.e].status.weights
  /\ x.pc \in LayPcs => x.inst.status.targets # "True"
  /\ x.pc \in RunPcs => RunsAt(x.e)
  /\ x.pc = "end" => /\ x.inst.status.completed => x.statusUpdate
                     /\ Found(x.inst) => RunsAt(x.e)

RestInv ==
  PairsAlike /\ RulesHalfway /\ RunsAtHome /\ FoundRuns /\ (w.pc \notin OffPcs => Runs(w))

Ground == ServedInv /\ Cache!LookupSound /\ PeaceInv /\ RestInv

-----------------------------------------------------------------------------
(* Copies of the object of a request.                                      *)

Winners == {r.winner : r \in Responses}

\* y is x further on,
Continues(x, y) ==
  /\ DOMAIN y = WorkerFields /\ IsCopy(y.inst)
  /\ y.e = x.e /\ y.fresh = x.fresh /\ y.terminate = x.terminate /\ y.refresh = x.refresh
  /\ y.inst.spec.override = x.inst.spec.override
  /\ y.inst.spec.onTermination = x.inst.spec.onTermination
  /\ y.inst.deleting = x.inst.deleting
  /\ y.inst.status.winner \in {x.inst.status.winner, stored[x.e].status.winner} \cup Winners

\* ... for the same weights,
Follows(x, y) == Continues(x, y) /\ y.inst.status.weights = x.inst.status.weights

\* ... and reports the same of targets and completion.
Agrees(x, y) ==
  /\ y.inst.status.targets = x.inst.status.targets
  /\ y.inst.status.completed = x.inst.status.completed

LEMMA FollowsOn ==
  ASSUME NEW x, NEW y, NEW z, Follows(x, y), Follows(y, z)
  PROVE  Follows(x, z) /\ (Agrees(x, y) /\ Agrees(y, z) => Agrees(x, z))
  BY DEF Continues, Follows, Agrees

LEMMA MarksFollow ==
  ASSUME NEW x, DOMAIN x = WorkerFields, IsCopy(x.inst), NEW tag
  PROVE  /\ LET y == MarkTargetsError(x, tag) IN
              Follows(x, y) /\ y.inst.status.targets = tag
              /\ y.inst.status.completed = x.inst.status.completed
         /\ LET y == MarkTargetsFound(x) IN
              /\ Follows(x, y) /\ y.inst.status.targets = "True"
              /\ y.inst.status.completed = x.inst.status.completed
              /\ x.inst.status.targets # "True" => y.statusUpdate
         /\ LET y == MarkRoutingRulesError(x, tag) IN Follows(x, y) /\ Agrees(x, y)
         /\ LET y == MarkRoutingRulesReady(x) IN Follows(x, y) /\ Agrees(x, y)
         /\ LET y == MarkAnalyticsServiceRunning(x) IN
              Follows(x, y) /\ Agrees(x, y) /\ (x.statusUpdate => y.statusUpdate)
         /\ LET y == MarkSyncMetrics(x) IN Follows(x, y) /\ Agrees(x, y)
<1> USE DEF Continues, Follows, Agrees, IsCopy, ObjectFields, SpecFields, StatusFields, WorkerFields
<1>1. LET y == MarkTargetsError(x, tag) IN
        Follows(x, y) /\ y.inst.status.targets = tag
        /\ y.inst.status.completed = x.inst.status.completed
  BY DEF MarkTargetsError
<1>2. LET y == MarkTargetsFound(x) IN
        /\ Follows(x, y) /\ y.inst.status.targets = "True"
        /\ y.inst.status.completed = x.inst.status.completed
        /\ x.inst.status.targets # "True" => y.statusUpdate
  BY DEF MarkTargetsFound
<1>3. LET y == MarkRoutingRulesError(x, tag) IN Follows(x, y) /\ Agrees(x, y)
  BY ZenonT(60) DEF MarkRoutingRulesError
<1>4. LET y == MarkRoutingRulesReady(x) IN Follows(x, y) /\ Agrees(x, y)
  BY DEF MarkRoutingRulesReady
<1>5. LET y == MarkAnalyticsServiceRunning(x) IN
        Follows(x, y) /\ Agrees(x, y) /\ (x.statusUpdate => y.statusUpdate)
  BY DEF MarkAnalyticsServiceRunning
<1>6. LET y == MarkSyncMetrics(x) IN Follows(x, y) /\ Agrees(x, y)
  BY DEF MarkSyncMetrics
<1>7. QED
  BY <1>1, <1>2, <1>3, <1>4, <1>5, <1>6

LEMMA PhasesFollow ==
  ASSUME NEW x, DOMAIN x = WorkerFields, IsCopy(x.inst), NEW phase, NEW b
  PROVE  LET y == MarkPhase(x, phase)
             z == [y EXCEPT !.progress = b]
         IN /\ Follows(x, y) /\ Follows(x, z) /\ y.statusUpdate /\ z.statusUpdate
            /\ y.inst.status.targets = x.inst.status.targets
            /\ z.inst = y.inst
            /\ y.inst.status.completed = (phase = "Completed")
<1> DEFINE y == MarkPhase(x, phase)
           z == [y EXCEPT !.progress = b]
<1>1. /\ DOMAIN y = WorkerFields
      /\ y.e = x.e /\ y.fresh = x.fresh /\ y.terminate = x.terminate /\ y.refresh = x.refresh
      /\ y.statusUpdate
  BY DEF MarkPhase, WorkerFields
<1>2. DOMAIN y.inst = ObjectFields /\ DOMAIN y.inst.status = StatusFields
  BY DEF MarkPhase, IsCopy, ObjectFields, StatusFields, WorkerFields
<1>3. /\ y.inst.spec = x.inst.spec /\ y.inst.deleting = x.inst.deleting
      /\ y.inst.finalizer = x.inst.finalizer
  BY DEF MarkPhase, IsCopy, ObjectFields, WorkerFields
<1>4. /\ y.inst.status.weights = x.inst.status.weights
      /\ y.inst.status.winner = x.inst.status.winner
      /\ y.inst.status.targets = x.inst.status.targets
      /\ y.inst.status.initialized = x.inst.status.initialized
      /\ y.inst.status.iteration = x.inst.status.iteration
      /\ y.inst.status.completed = (phase = "Completed")
  BY DEF MarkPhase, IsCopy, ObjectFields, StatusFields, WorkerFields
<1> HIDE DEF y
<1>5. IsCopy(y.inst)
  BY <1>2, <1>3, <1>4 DEF IsCopy
<1>6. Follows(x, y)
  BY <1>1, <1>3, <1>4, <1>5 DEF Continues, Follows
<1>7. /\ DOMAIN z = WorkerFields /\ z.inst = y.inst
      /\ z.e = y.e /\ z.fresh = y.fresh /\ z.terminate = y.terminate /\ z.refresh = y.refresh
      /\ z.statusUpdate = y.statusUpdate
  BY <1>1 DEF WorkerFields
<1> HIDE DEF z
<1>8. Follows(x, z)
  BY <1>6, <1>7 DEF Continues, Follows
<1>9. QED
  BY <1>1, <1>4, <1>6, <1>7, <1>8 DEF y, z

\* Going somewhere else.
LEMMA GoesFollow ==
  ASSUME NEW x, DOMAIN x = WorkerFields, IsCopy(x.inst), NEW pc
  PROVE  LET y == Goto(x, pc) IN
         Follows(x, y) /\ Agrees(x, y) /\ y.pc = pc /\ y.inst = x.inst
         /\ y.statusUpdate = x.statusUpdate
  BY DEF Continues, Follows, Agrees, Goto, WorkerFields

\* ... from a copy further on.
LEMMA GoesOn ==
  ASSUME NEW x, NEW y, Follows(x, y), NEW pc
  PROVE  LET z == Goto(y, pc) IN
         Follows(x, z) /\ (Agrees(x, y) => Agrees(x, z)) /\ z.pc = pc /\ z.inst = y.inst
<1> DEFINE z == Goto(y, pc)
<1>1. DOMAIN y = WorkerFields /\ IsCopy(y.inst)
  BY DEF Follows, Continues
<1>2. Follows(y, z) /\ Agrees(y, z) /\ z.pc = pc /\ z.inst = y.inst
  BY <1>1, GoesFollow
<1> HIDE DEF z
<1>3. Follows(x, z) /\ (Agrees(x, y) => Agrees(x, z))
  BY <1>2, FollowsOn
<1>4. QED
  BY <1>2, <1>3 DEF z

LEMMA PlacesFollow ==
  ASSUME NEW x, DOMAIN x = WorkerFields, IsCopy(x.inst)
  PROVE  /\ LET y == AfterUpdate(x) IN
              /\ Follows(x, y) /\ Agrees(x, y) /\ y.inst = x.inst
              /\ y.statusUpdate = x.statusUpdate /\ y.pc \in {"complete", "end"}
         /\ LET y == AfterTargets(x) IN
              /\ Follows(x, y) /\ Agrees(x, y) /\ y.inst = x.inst
              /\ y.statusUpdate = x.statusUpdate /\ y.pc \in {"iterate", "complete", "end"}
         /\ LET y == AfterProceed(x) IN
              /\ Follows(x, y) /\ Agrees(x, y) /\ y.inst = x.inst
              /\ y.statusUpdate = x.statusUpdate /\ y.pc \in {"metrics", "rules"}
<1>1. LET y == AfterUpdate(x) IN
        /\ Follows(x, y) /\ Agrees(x, y) /\ y.inst = x.inst
        /\ y.statusUpdate = x.statusUpdate /\ y.pc \in {"complete", "end"}
  BY GoesFollow DEF AfterUpdate
<1>2. LET y == AfterTargets(x) IN
        /\ Follows(x, y) /\ Agrees(x, y) /\ y.inst = x.inst
        /\ y.statusUpdate = x.statusUpdate /\ y.pc \in {"iterate", "complete", "end"}
  BY <1>1, GoesFollow DEF AfterTargets
<1>3. LET y == AfterProceed(x) IN
        /\ Follows(x, y) /\ Agrees(x, y) /\ y.inst = x.inst
        /\ y.statusUpdate = x.statusUpdate /\ y.pc \in {"metrics", "rules"}
  BY GoesFollow DEF AfterProceed
<1>4. QED
  BY <1>1, <1>2, <1>3

\* The end of an iteration is a matter of the status only.
LEMMA IteratedFollows ==
  ASSUME NEW x, Working(x)
  PROVE  LET y == Iterated(x) IN
         /\ Follows(x, y) /\ Agrees(x, y)
         /\ y.statusUpdate /\ y.pc \in {"complete", "end"}
<1> DEFINE m == MarkPhase(x, "Progressing")
           n == [m EXCEPT !.progress = TRUE]
           k == x.inst.status.iteration + 1
           y == [n EXCEPT !.inst.status.lastUpdate = "recent", !.inst.status.iteration = k]
<1>0. DOMAIN x = WorkerFields /\ IsCopy(x.inst) /\ ~x.inst.status.completed
      /\ x.inst.status.completed \in BOOLEAN
  BY DEF Working, IsCopy
<1>1. /\ Follows(x, n) /\ n.statusUpdate
      /\ n.inst.status.targets = x.inst.status.targets
      /\ n.inst.status.completed = FALSE
      /\ n.inst = m.inst
  <2>1. ("Progressing" = "Completed") = FALSE
    OBVIOUS
  <2>2. QED
    BY <1>0, <2>1, PhasesFollow
<1>2. Iterated(x) = AfterUpdate(y)
  <2>1. Works(x, m)
    BY PhasesWork
  <2>2. n.inst.status.iteration + 1 = k
    BY <1>1, <2>1 DEF Works
  <2>3. QED
    BY <2>2 DEF Iterated, MarkIterationUpdate
<1>3. k \in Nat
  BY <1>0 DEF IsCopy
<1> HIDE DEF m, n, k
<1>4. Follows(n, y) /\ Agrees(n, y) /\ y.statusUpdate
  BY <1>1, <1>3 DEF Continues, Follows, Agrees, IsCopy, ObjectFields, SpecFields, StatusFields, WorkerFields
<1> HIDE DEF y
<1>5. Follows(x, y) /\ Agrees(x, y)
  BY <1>0, <1>1, <1>4, FollowsOn DEF Agrees
<1>6. LET z == AfterUpdate(y) IN
        Follows(y, z) /\ Agrees(y, z) /\ z.statusUpdate = y.statusUpdate
        /\ z.pc \in {"complete", "end"}
  BY <1>5, PlacesFollow DEF Continues, Follows
<1>7. QED
  BY <1>2, <1>4, <1>5, <1>6, FollowsOn

-----------------------------------------------------------------------------
(* The kinds of steps.  Of the objects only what users ask for, targets,   *)
(* completion and weights count, and where their winners come from.        *)

LooksLike(o, p) ==
  /\ p.deleting = o.deleting
  /\ p.spec.override = o.spec.override /\ p.spec.onTermination = o.spec.onTermination
  /\ p.status.targets = o.status.targets /\ p.status.completed = o.status.completed
  /\ p.status.weights = o.status.weights
Crowned(e, o, p) ==
  \/ p.status.winner = o.status.winner
  \/ e = w.e /\ w.pc \notin OffPcs /\ p.status.winner = w.inst.status.winner
SameSight ==
  \A e \in Experiments :
    /\ stored'[e] = None <=> stored[e] = None
    /\ stored[e] # None => LooksLike(stored[e], stored'[e]) /\ Crowned(e, stored[e], stored'[e])
Still == UNCHANGED ruleVars /\ exists' = exists /\ SameSight
PutsHere(d, v) ==
  /\ \A s \in Services : /\ dr'[s] = IF s = Svc(w) THEN d ELSE dr[s]
                         /\ vs'[s] = IF s = Svc(w) THEN v ELSE vs[s]
  /\ exists' = exists /\ SameSight

Takes ==
  \E e \in Experiments :
    /\ w.pc = "idle" /\ Still
    /\ w'.e = e
    /\ \/ w'.pc = "notFound"
       \/ /\ w'.pc \in OpenPcs /\ stored[e] # None /\ w'.inst = stored[e]
          /\ w'.fresh /\ ~w'.terminate /\ ~w'.refresh
Rests == w.pc \in {"notFound", "dispatch"} /\ Still /\ w' = Idle
Reads ==
  /\ w.pc \in BeforePcs /\ w'.pc \in BeforePcs \cup {"detect"}
  /\ Still /\ Follows(w, w') /\ Agrees(w, w')
  /\ w'.pc = "detect" => w.inst.status.targets # "True"
Looks ==
  /\ w.pc = "detect" /\ w'.pc = "baselineDR"
  /\ Still /\ Follows(w, w') /\ Agrees(w, w')
  /\ {SpecAt(w).service, SpecAt(w).baseline} \subseteq exists
Finds ==
  /\ w.pc \in {"rules", "detect"} /\ w'.pc \in {"iterate", "complete", "end"}
  /\ Still /\ Follows(w, w')
  /\ w'.inst.status.targets = "True" /\ ~w'.inst.status.completed
  /\ RunsAt(w.e)
GivesUp ==
  /\ w.pc \in {"dispatch", "rules", "detect", "candidates"} /\ w'.pc = "end"
  /\ Still /\ Follows(w, w')
  /\ w'.inst.status.targets # "True" /\ ~w'.inst.status.completed
LaysDR ==
  /\ w.pc = "baselineDR" /\ w'.pc = "baselineVS"
  /\ PutsHere(BaselineDestinationRule(dr[Svc(w)], w.e, SpecAt(w)), vs[Svc(w)])
  /\ Follows(w, w') /\ Agrees(w, w')
LaysVS ==
  /\ w.pc = "baselineVS" /\ w'.pc = "candidates"
  /\ PutsHere(dr[Svc(w)], BaselineVirtualService(vs[Svc(w)], w.e, SpecAt(w)))
  /\ Continues(w, w') /\ Agrees(w, w')
  /\ w'.inst.status.weights = [w.inst.status.weights EXCEPT ![0] = 100]
OpensDR ==
  /\ w.pc = "candidates" /\ w'.pc = "candidatesVS"
  /\ CandidatesExist(w)
  /\ PutsHere(CandidatesDestinationRule(dr[Svc(w)], SpecAt(w)), vs[Svc(w)])
  /\ Follows(w, w') /\ Agrees(w, w')
OpensVS ==
  /\ w.pc = "candidatesVS" /\ w'.pc \in {"iterate", "complete", "end"}
  /\ PutsHere(dr[Svc(w)], CandidatesVirtualService(vs[Svc(w)]))
  /\ Follows(w, w') /\ w'.statusUpdate
  /\ w'.inst.status.targets = "True" /\ ~w'.inst.status.completed
\* The weights of an iteration: without criteria, and those the service answered.
Shared(spec, k) ==
  [v \in Versions(spec) |-> IF v = 0 THEN k[0] - BaselineShare(spec)
                            ELSE k[v] + spec.maxIncrement]
Taken(spec, r, k) ==
  [v \in Versions(spec) |-> IF v \notin Recommended(spec, r) THEN k[v]
                            ELSE IF v \in r.rollback THEN 0 ELSE r.weights[v]]
Weighs ==
  LET spec == SpecAt(w)
      k == w.inst.status.weights
  IN
  /\ w.pc = "iterate" /\ w'.pc = "split"
  /\ Still /\ Continues(w, w') /\ Agrees(w, w')
  /\ \/ ~spec.criteria /\ CanShare(spec, k) /\ w'.inst.status.weights = Shared(spec, k)
     \/ /\ spec.criteria
        /\ \E r \in Responses :
             /\ r.rollback # Versions(spec) \ {0} /\ Recommended(spec, r) = Versions(spec)
             /\ w'.inst.status.weights = Taken(spec, r, k)
Misses ==
  /\ w.pc = "iterate" /\ w'.pc = "end"
  /\ Still /\ Continues(w, w') /\ Agrees(w, w') /\ w'.statusUpdate
  /\ \E r \in Responses :
       /\ r.rollback # Versions(SpecAt(w)) \ {0}
       /\ Recommended(SpecAt(w), r) # Versions(SpecAt(w))
       /\ w'.inst.status.weights = Taken(SpecAt(w), r, w.inst.status.weights)
Counts ==
  /\ w.pc = "iterate" /\ w'.pc \in {"complete", "end"}
  /\ Still /\ Follows(w, w') /\ Agrees(w, w') /\ w'.statusUpdate
Aborts ==
  /\ w.pc = "iterate" /\ w'.pc = "complete"
  /\ Still /\ Agrees(w, w')
  /\ DOMAIN w' = WorkerFields /\ IsCopy(w'.inst)
  /\ w'.e = w.e /\ w'.fresh = w.fresh /\ w'.terminate = w.terminate /\ w'.refresh = w.refresh
  /\ Aborted(w'.inst) /\ w'.inst.deleting = w.inst.deleting
  /\ w'.inst.status.weights = w.inst.status.weights
  /\ w'.inst.status.winner = w.inst.status.winner
Splits ==
  /\ w.pc = "split" /\ w'.pc \in {"complete", "end"}
  /\ PutsHere(dr[Svc(w)],
                SplitVirtualService(vs[Svc(w)], SpecAt(w), w.inst.status.weights))
  /\ Follows(w, w') /\ Agrees(w, w') /\ w'.statusUpdate
Completes ==
  /\ w.pc = "complete"
  /\ w'.pc = IF SpecAt(w).cleanup THEN "cleanupTargets" ELSE "cleanupDR"
  /\ Still /\ Follows(w, w') /\ Agrees(w, w')
KeptHere == Kept(SpecAt(w), w.inst.spec.onTermination, w.inst.status.winner, w.inst.status.weights)
CleansTargets ==
  LET spec == SpecAt(w) IN
  /\ w.pc = "cleanupTargets" /\ w'.pc = "cleanupDR"
  /\ UNCHANGED ruleVars /\ SameSight
  /\ exists' \subseteq exists
  /\ exists \ exists' \subseteq {Deployment(spec, v) : v \in Versions(spec)}
                                  \ {Deployment(spec, v) : v \in KeptHere}
  /\ Follows(w, w') /\ Agrees(w, w') /\ w'.inst = w.inst
CleansDR ==
  /\ w.pc = "cleanupDR" /\ w'.pc = "cleanupVS"
  /\ PutsHere(IF Removing(w) THEN None ELSE StableDestinationRule(dr[Svc(w)], Stable(w)),
                vs[Svc(w)])
  /\ Follows(w, w') /\ Agrees(w, w') /\ w'.inst = w.inst
CleansVS ==
  /\ w.pc = "cleanupVS" /\ w'.pc = "end"
  /\ PutsHere(dr[Svc(w)],
                IF dr[Svc(w)] = None THEN None
                ELSE StableVirtualService(vs[Svc(w)], Stable(w), w.inst.spec.onTermination,
                                          w.inst.status.weights))
  /\ Follows(w, w') /\ w'.statusUpdate /\ w'.inst.status.completed
Reports ==
  /\ w.pc = "end" /\ w' = Idle
  /\ UNCHANGED ruleVars /\ exists' = exists
  /\ \/ SameSight /\ ~w.statusUpdate
     \/ /\ w.statusUpdate
        /\ \A e \in Experiments : e # w.e => stored'[e] = stored[e]
        /\ stored'[w.e] = [stored[w.e] EXCEPT !.status = w.inst.status]
        /\ stored'[w.e] # None
Beside ==
  /\ UNCHANGED ruleVars /\ exists \subseteq exists'
  /\ w'.pc = w.pc /\ w'.e = w.e
  /\ w.pc \notin OffPcs =>
       /\ Follows(w, w') /\ Agrees(w, w')
       /\ w'.inst.status.winner = w.inst.status.winner
       /\ w'.statusUpdate = w.statusUpdate
  /\ \A e \in Experiments :
       \/ stored'[e] = None /\ stored[e] = None
       \/ stored[e] = None /\ stored'[e] = NewObject(e) /\ ~(w.e = e /\ w.pc \notin OffPcs)
       \/ /\ stored[e] # None /\ stored'[e] # None
          /\ LooksLike(stored[e], stored'[e])
          /\ stored'[e].status.winner = stored[e].status.winner

Kinds ==
  \/ Takes \/ Rests \/ Reads \/ Looks \/ Finds \/ GivesUp
  \/ LaysDR \/ LaysVS \/ OpensDR \/ OpensVS
  \/ Weighs \/ Misses \/ Counts \/ Aborts \/ Splits
  \/ Completes \/ CleansTargets \/ CleansDR \/ CleansVS
  \/ Reports \/ Beside

-----------------------------------------------------------------------------
(* What the worker knows in such a run.                                    *)

LEMMA HerePeace ==
  ASSUME Ground, w.pc \notin OffPcs
  PROVE  /\ w.e \in Experiments /\ DOMAIN w = WorkerFields
         /\ IsCopy(w.inst) /\ AtPeace(w) /\ Runs(w)
         /\ stored[w.e] # None /\ IsCopy(stored[w.e])
         /\ Untouched(w.e, stored[w.e])
         /\ w.fresh
         /\ DOMAIN stored = Experiments
<1>1. IInv /\ ObjectsInv /\ WorkerInv(w, stored[w.e]) /\ PeaceInv /\ RestInv
  BY DEF Ground, ServedInv, IInv
<1>2. AtPeace(w) /\ Runs(w)
  BY <1>1 DEF PeaceInv, RestInv
<1>3. w.e \in Experiments /\ DOMAIN w = WorkerFields
  BY <1>1 DEF WorkerInv, OffPcs
<1>4. IsCopy(w.inst)
  BY <1>1, <1>2 DEF WorkerInv, OffPcs, AtPeace, Pcs, EarlyPcs, OpenPcs, UserPcs, RulePcs, CleanupPcs,
     Opened, Sound, Ready, Closing, Ended, Working
<1>5. stored[w.e] # None /\ w.fresh
  BY <1>2 DEF AtPeace
<1>6. IsCopy(stored[w.e]) /\ DOMAIN stored = Experiments
  BY <1>1, <1>3, <1>5 DEF ObjectsInv, Sound
<1>7. Untouched(w.e, stored[w.e])
  BY <1>1, <1>3, <1>5 DEF PeaceInv, ObjectsUntouched
<1>8. QED
  BY <1>2, <1>3, <1>4, <1>5, <1>6, <1>7

\* A copy at work.
WorkPcs == {"metrics", "iterate", "split", "complete"} \cup RulePcs \cup CleanupPcs
LEMMA HereWorks ==
  ASSUME Ground, w.pc \in WorkPcs
  PROVE  Working(w) /\ ~w.inst.status.completed /\ w.pc \notin OffPcs
<1>1. IInv
  BY DEF Ground, ServedInv
<1>2. Working(w)
  BY <1>1, HereReady, HereCloses DEF WorkPcs, UserPcs
<1>3. QED
  BY <1>2 DEF Working, WorkPcs, OffPcs, RulePcs, CleanupPcs

LEMMA StillObjects ==
  ASSUME stored' = stored
  PROVE  SameSight
  BY DEF SameSight, LooksLike, Crowned

\* A step that leaves objects, rules and targets alone.
LEMMA QuietStill ==
  ASSUME UNCHANGED apiVars, UNCHANGED ruleVars, UNCHANGED targetVars
  PROVE  Still
<1>1. stored' = stored /\ exists' = exists
  BY DEF apiVars, targetVars
<1>2. QED
  BY <1>1, StillObjects DEF Still

\* A write of an object that looks the same.
LEMMA StoreSight ==
  ASSUME Ground, w.pc \notin OffPcs, NEW new, new # None, Store(w.e, new),
         LooksLike(stored[w.e], new), Crowned(w.e, stored[w.e], new)
  PROVE  SameSight
<1>1. w.e \in Experiments /\ stored[w.e] # None /\ DOMAIN stored = Experiments
  BY HerePeace
<1>2. stored' = [stored EXCEPT ![w.e] = new]
  BY DEF Store
<1>3. stored'[w.e] = new /\ \A e \in Experiments \ {w.e} : stored'[e] = stored[e]
  BY <1>1, <1>2
<1>4. \A e \in Experiments \ {w.e} :
        LooksLike(stored[e], stored'[e]) /\ Crowned(e, stored[e], stored'[e])
  BY <1>3 DEF LooksLike, Crowned
<1>5. QED
  BY <1>1, <1>3, <1>4 DEF SameSight

\* No write of an object is refused.
LEMMA Accepted ==
  ASSUME Ground, w.pc \notin OffPcs, NEW outcome \in Outcomes, Spend(outcome)
  PROVE  outcome = "ok" /\ UNCHANGED budget
<1>1. Quota
  BY DEF Ground, PeaceInv, Spent
<1>2. stored[w.e] # None /\ w.fresh
  BY HerePeace
<1>3. outcome \in {"ok", "conflict", "failed"}
  BY OutcomeFresh
<1>4. QED
  BY <1>1, <1>2, <1>3, NothingRefused

-----------------------------------------------------------------------------
(* Which kind of step each action takes.                                   *)

LEMMA NeverHere ==
  ASSUME Ground, Peace
  PROVE  /\ ~StartFinalize /\ ~SavePause /\ ~SaveResume /\ ~MetricsUnreadable /\ ~AnalyticsFails
         /\ ~SplitWithoutRules /\ ~Unfinalize /\ ~Crash /\ w.pc # "abandonTargets"
         /\ \A e \in Experiments : ~UserDeletes(e) /\ \A o : ~UserOverridesTo(e, o)
         /\ \A t : ~UserDeletesTarget(t)
<1>1. budget.failures = 0 /\ budget.overrides = 0 /\ budget.losses = 0 /\ budget.crashes = 0
  BY DEF Ground, PeaceInv, Spent, Quota
<1>2. ~MetricsUnreadable /\ ~AnalyticsFails
  BY <1>1 DEF MetricsUnreadable, AnalyticsFails, MayFail
<1>3. ~Crash /\ \A e \in Experiments : ~UserDeletes(e) /\ \A o : ~UserOverridesTo(e, o)
  BY <1>1 DEF Crash, UserDeletes, UserOverridesTo, Peace
<1>4. \A t : ~UserDeletesTarget(t)
  BY <1>1 DEF UserDeletesTarget
<1>5. /\ ~StartFinalize /\ ~SavePause /\ ~SaveResume /\ ~Unfinalize
      /\ w.pc # "abandonTargets"
  <2>1. w.pc \notin OffPcs => AtPeace(w)
    BY HerePeace
  <2>2. QED
    BY <2>1 DEF AtPeace, OffPcs, At, StartFinalize, SavePause, SaveResume, Unfinalize
<1>6. ~SplitWithoutRules
  <2>1. w.pc = "split" => vs[Svc(w)] # None
    <3> SUFFICES ASSUME w.pc = "split" PROVE vs[Svc(w)] # None
      OBVIOUS
    <3>1. RunsAt(w.e)
      BY HerePeace DEF Runs, OffPcs, RunPcs
    <3>2. QED
      BY <3>1 DEF RunsAt, RunsFor, IsProgressing, Svc, SpecAt
  <2>2. QED
    BY <2>1 DEF SplitWithoutRules, At
<1>7. QED
  BY <1>2, <1>3, <1>4, <1>5, <1>6

LEMMA FetchTakes ==
  ASSUME Ground, Peace, NEW e \in Experiments, Fetch(e)
  PROVE  Takes
<1>1. e \in current /\ cached[e] = stored[e]
  BY DEF Fetch, Peace, Ground, ServedInv, IInv, ObjectsInv
<1>2. Still
  BY QuietStill DEF Fetch
<1>3. w.pc = "idle"
  BY DEF Fetch, At
<1> DEFINE o == cached[e]
           x == [Idle EXCEPT !.e = e, !.inst = o, !.fresh = e \in current, !.taken = TRUE]
<1>4. w' = Goto(x, CASE o = None -> "notFound"
                       [] o # None /\ ~o.status.initialized -> "init"
                       [] o # None /\ o.status.initialized /\ ~o.finalizer -> "finalizer"
                       [] OTHER -> "dispatch")
  BY DEF Fetch
<1>5. x.e = e /\ x.inst = o /\ x.fresh /\ ~x.terminate /\ ~x.refresh
  BY <1>1 DEF Idle
<1>6. \A pc : LET y == Goto(x, pc) IN
        y.pc = pc /\ y.e = e /\ y.inst = o /\ y.fresh /\ ~y.terminate /\ ~y.refresh
  BY <1>5 DEF Goto, Idle
<1> HIDE DEF x
<1>7. CASE o = None
  <2>1. w' = Goto(x, "notFound")
    BY <1>4, <1>7
  <2>2. w'.pc = "notFound" /\ w'.e = e
    BY <2>1, <1>6
  <2>3. QED
    BY <2>2, <1>2, <1>3 DEF Takes
<1>8. CASE o # None
  <2>1. \E pc \in OpenPcs : w' = Goto(x, pc)
    BY <1>4, <1>8 DEF OpenPcs
  <2>2. w'.pc \in OpenPcs /\ w'.e = e /\ w'.inst = o /\ w'.fresh /\ ~w'.terminate /\ ~w'.refresh
    BY <2>1, <1>6
  <2>3. QED
    BY <2>2, <1>1, <1>2, <1>3, <1>8 DEF Takes
<1>9. QED
  BY <1>7, <1>8

\* The object gets its status.
LEMMA SaveInitStatusReads ==
  ASSUME NoneIsNoObject, Ground, SaveInitStatus
  PROVE  Reads
<1> DEFINE i == InitStatus(w.inst)
           x == [w EXCEPT !.inst = InitStatus(@)]
           new == [stored[w.e] EXCEPT !.status = x.inst.status]
<1>0. w.pc = "init" /\ w.pc \notin OffPcs /\ w.pc \in BeforePcs
  BY DEF SaveInitStatus, At, OffPcs, BeforePcs
<1>1. PICK outcome \in Outcomes :
        /\ Spend(outcome)
        /\ IF outcome = "ok" THEN Store(w.e, new) ELSE UNCHANGED apiVars
        /\ w' = IF outcome = "failed" THEN Idle
                ELSE Goto(x, IF x.inst.finalizer THEN "dispatch" ELSE "finalizer")
  BY DEF SaveInitStatus
<1>2. outcome = "ok"
  BY <1>0, <1>1, Accepted
<1>3. /\ DOMAIN w = WorkerFields /\ IsCopy(w.inst) /\ IsCopy(stored[w.e])
      /\ Untouched(w.e, w.inst) /\ Runs(w) /\ stored[w.e] # None
  BY <1>0, HerePeace DEF AtPeace, LatePcs
<1>4. Follows(w, x) /\ Agrees(w, x) /\ x.inst = i
  BY <1>3 DEF Continues, Follows, Agrees, InitStatus, IsCopy, ObjectFields, SpecFields, StatusFields,
     WorkerFields
<1>5. /\ i.status.targets = w.inst.status.targets /\ i.status.completed = w.inst.status.completed
      /\ i.status.weights = w.inst.status.weights /\ i.status.winner = w.inst.status.winner
  BY <1>3 DEF InitStatus, IsCopy, ObjectFields, StatusFields
<1>6. LooksLike(stored[w.e], new) /\ new.status = i.status /\ new.spec = stored[w.e].spec
  BY <1>0, <1>3, <1>4, <1>5 DEF LooksLike, IsCopy, ObjectFields, StatusFields, Runs
<1>7. Crowned(w.e, stored[w.e], new)
  BY <1>0, <1>5, <1>6 DEF Crowned
<1>8. new # None
  <2>1. DOMAIN new = ObjectFields
    BY <1>3 DEF IsCopy
  <2>2. QED
    BY <2>1 DEF NoneIsNoObject
<1> HIDE DEF x, new, i
<1>9. SameSight
  BY <1>0, <1>1, <1>2, <1>6, <1>7, <1>8, StoreSight
<1>10. Still
  BY <1>9 DEF SaveInitStatus, Still, targetVars
<1>11. \E pc \in {"dispatch", "finalizer"} : w' = Goto(x, pc)
  BY <1>1, <1>2
<1>12. Follows(w, w') /\ Agrees(w, w') /\ w'.pc \in {"dispatch", "finalizer"}
  BY <1>4, <1>11, GoesOn
<1>13. QED
  BY <1>0, <1>10, <1>12 DEF Reads, BeforePcs

\* An update of spec and metadata that changes neither requests nor strategy.
LEMMA UpdateSight ==
  ASSUME NoneIsNoObject, Ground, w.pc \in BeforePcs, NEW outcome \in Outcomes, NEW i, IsCopy(i),
         ~i.deleting, i.spec.override = w.inst.spec.override,
         i.spec.onTermination = w.inst.spec.onTermination, i.status = w.inst.status,
         Update(outcome, i)
  PROVE  LET x == [w EXCEPT !.inst = Overlay(outcome, i)] IN
         outcome = "ok" /\ SameSight /\ Follows(w, x) /\ Agrees(w, x)
<1> DEFINE o == stored[w.e]
           new == [o EXCEPT !.spec = i.spec, !.finalizer = i.finalizer]
           p == Overlay(outcome, i)
           x == [w EXCEPT !.inst = p]
<1>0. w.pc \notin OffPcs
  BY DEF BeforePcs, OffPcs
<1>1. /\ DOMAIN w = WorkerFields /\ IsCopy(w.inst) /\ IsCopy(o) /\ o # None
      /\ Untouched(w.e, w.inst) /\ Untouched(w.e, o) /\ Runs(w) /\ ~w.inst.deleting
  BY <1>0, HerePeace DEF AtPeace, LatePcs, BeforePcs
<1>2. outcome = "ok"
  BY <1>0, Accepted DEF Update
<1>3. Store(w.e, new)
  BY <1>2 DEF Update
<1>4. /\ DOMAIN new = ObjectFields /\ new.spec = i.spec /\ new.deleting = o.deleting
      /\ new.status = o.status
  BY <1>1 DEF IsCopy, ObjectFields
<1>5. LooksLike(o, new) /\ Crowned(w.e, o, new)
  BY <1>1, <1>4 DEF LooksLike, Crowned, Untouched
<1>6. new # None
  BY <1>4 DEF NoneIsNoObject
<1>7. SameSight
  <2> HIDE DEF new
  <2>1. QED
    BY <1>0, <1>3, <1>5, <1>6, StoreSight
<1>8. IsCopy(p) /\ p.spec = i.spec /\ p.deleting = i.deleting
  BY <1>1, <1>2, OverlaySame
<1>9. /\ p.status.targets = o.status.targets /\ p.status.completed = o.status.completed
      /\ p.status.weights = o.status.weights
      /\ p.status.winner \in {o.status.winner, w.inst.status.winner}
  <2>1. p = [i EXCEPT !.status = [o.status EXCEPT !.message = @ \/ i.status.message,
                                     !.winner = IF @ = None THEN i.status.winner ELSE @]]
    BY <1>2 DEF Overlay
  <2> DEFINE st == [o.status EXCEPT !.message = @ \/ i.status.message,
                                   !.winner = IF @ = None THEN i.status.winner ELSE @]
  <2>2. p.status = st
    BY <2>1, <1>8 DEF IsCopy, ObjectFields
  <2>3. /\ st.targets = o.status.targets /\ st.completed = o.status.completed
        /\ st.weights = o.status.weights
    BY <1>1 DEF IsCopy, StatusFields
  <2>4. st.winner \in {o.status.winner, w.inst.status.winner}
    BY <1>1 DEF IsCopy, StatusFields
  <2>5. QED
    BY <2>2, <2>3, <2>4
<1>10. /\ w.inst.status.targets = o.status.targets /\ w.inst.status.completed = o.status.completed
       /\ w.inst.status.weights = o.status.weights
  BY <1>1 DEF Runs
<1> HIDE DEF p
<1>11. /\ DOMAIN x = WorkerFields /\ x.inst = p /\ x.e = w.e /\ x.fresh = w.fresh
       /\ x.terminate = w.terminate /\ x.refresh = w.refresh
  BY <1>1 DEF WorkerFields
<1>14. i.deleting = w.inst.deleting
  BY <1>1 DEF IsCopy
<1>12. Follows(w, x) /\ Agrees(w, x)
  BY <1>14, <1>8, <1>9, <1>10, <1>11 DEF Continues, Follows, Agrees, Untouched
<1>13. QED
  BY <1>2, <1>7, <1>12 DEF p

LEMMA AddFinalizerReads ==
  ASSUME NoneIsNoObject, Ground, AddFinalizer
  PROVE  Reads
<1> DEFINE i == [w.inst EXCEPT !.finalizer = TRUE]
<1>0. w.pc = "finalizer" /\ w.pc \notin OffPcs /\ w.pc \in BeforePcs
  BY DEF AddFinalizer, At, OffPcs, BeforePcs
<1>1. IsCopy(w.inst) /\ ~w.inst.deleting
  BY <1>0, HerePeace DEF AtPeace
<1>2. IsCopy(i) /\ ~i.deleting /\ i.spec = w.inst.spec /\ i.status = w.inst.status
  BY <1>1 DEF IsCopy, ObjectFields
<1>3. PICK outcome \in Outcomes :
        /\ Update(outcome, i)
        /\ outcome # "failed" => w' = Goto([w EXCEPT !.inst = Overlay(outcome, i)], "dispatch")
  BY DEF AddFinalizer
<1> HIDE DEF i
<1> DEFINE x == [w EXCEPT !.inst = Overlay(outcome, i)]
<1>4. outcome = "ok" /\ SameSight /\ Follows(w, x) /\ Agrees(w, x)
  BY <1>0, <1>2, <1>3, UpdateSight
<1> HIDE DEF x
<1>5. w' = Goto(x, "dispatch")
  BY <1>3, <1>4 DEF x
<1>6. Follows(w, w') /\ Agrees(w, w') /\ w'.pc = "dispatch"
  BY <1>4, <1>5, GoesOn
<1>7. Still
  BY <1>4 DEF AddFinalizer, Still, targetVars
<1>8. QED
  BY <1>0, <1>6, <1>7 DEF Reads, BeforePcs

LEMMA SyncMetricsReads ==
  ASSUME NoneIsNoObject, Ground, SyncMetrics
  PROVE  Reads
<1> DEFINE i == [w.inst EXCEPT !.spec.metrics = TRUE]
<1>0. w.pc = "metrics" /\ w.pc \notin OffPcs /\ w.pc \in BeforePcs
  BY DEF SyncMetrics, At, OffPcs, BeforePcs
<1>1. IsCopy(w.inst) /\ ~w.inst.deleting
  BY <1>0, HerePeace DEF AtPeace
<1>2. /\ IsCopy(i) /\ ~i.deleting /\ i.status = w.inst.status
      /\ i.spec.override = w.inst.spec.override
      /\ i.spec.onTermination = w.inst.spec.onTermination
  BY <1>1 DEF IsCopy, ObjectFields, SpecFields
<1>3. PICK outcome \in Outcomes :
        /\ Update(outcome, i)
        /\ outcome # "failed" =>
             w' = Goto(MarkSyncMetrics([w EXCEPT !.inst = Overlay(outcome, i)]), "rules")
  BY DEF SyncMetrics
<1> HIDE DEF i
<1> DEFINE x == [w EXCEPT !.inst = Overlay(outcome, i)]
           y == MarkSyncMetrics(x)
<1>4. outcome = "ok" /\ SameSight /\ Follows(w, x) /\ Agrees(w, x)
  BY <1>0, <1>2, <1>3, UpdateSight
<1>5. w' = Goto(y, "rules")
  <2>1. outcome # "failed"
    BY <1>4
  <2>2. QED
    BY <1>3, <2>1
<1> HIDE DEF x
<1>6. Follows(x, y) /\ Agrees(x, y)
  BY <1>4, MarksFollow DEF Follows, Continues
<1> HIDE DEF y
<1>7. Follows(y, w') /\ Agrees(y, w') /\ w'.pc = "rules"
  BY <1>5, <1>6, GoesFollow DEF Follows, Continues
<1>8. Follows(w, w') /\ Agrees(w, w')
  BY <1>4, <1>6, <1>7, FollowsOn
<1>9. Still
  BY <1>4 DEF SyncMetrics, Still, targetVars
<1>10. QED
  BY <1>0, <1>7, <1>8, <1>9 DEF Reads, BeforePcs

LEMMA EarlyRests ==
  ASSUME Ground, NotFound \/ SkipCompleted
  PROVE  Rests
<1>1. Still
  BY QuietStill DEF NotFound, SkipCompleted
<1>2. QED
  BY <1>1 DEF NotFound, SkipCompleted, At, Rests

-----------------------------------------------------------------------------
(* Registration, and where the rules and the targets are found or not.     *)

LEMMA FlagsFollow ==
  ASSUME NEW x, DOMAIN x = WorkerFields, IsCopy(x.inst), NEW b, NEW f
  PROVE  LET y == [x EXCEPT !.taken = b]
             z == [x EXCEPT !.statusUpdate = f]
         IN /\ Follows(x, y) /\ Agrees(x, y) /\ y.inst = x.inst /\ y.statusUpdate = x.statusUpdate
            /\ Follows(x, z) /\ Agrees(x, z) /\ z.inst = x.inst
  BY DEF Continues, Follows, Agrees, WorkerFields

\* Marks that lead to the end of the request.
Reported(x, y, tag) ==
  /\ Follows(x, y) /\ y.pc = "end" /\ y.inst.status.targets = tag
  /\ y.inst.status.completed = x.inst.status.completed
Refused(x, y) == Follows(x, y) /\ Agrees(x, y) /\ y.pc = "end"
LEMMA EndsFollow ==
  ASSUME NEW x, DOMAIN x = WorkerFields, IsCopy(x.inst), NEW tag
  PROVE  /\ Reported(x, Goto([MarkTargetsError(x, tag) EXCEPT !.taken = FALSE], "end"), tag)
         /\ Reported(x, Goto(MarkTargetsError(x, tag), "end"), tag)
         /\ Refused(x, Goto([MarkRoutingRulesError(x, tag) EXCEPT !.taken = FALSE], "end"))
<1> DEFINE m == MarkTargetsError(x, tag)
           r == MarkRoutingRulesError(x, tag)
           mf == [m EXCEPT !.taken = FALSE]
           rf == [r EXCEPT !.taken = FALSE]
<1>1. /\ Follows(x, m) /\ m.inst.status.targets = tag
      /\ m.inst.status.completed = x.inst.status.completed
      /\ Follows(x, r) /\ Agrees(x, r)
  BY MarksFollow
<1> HIDE DEF m, r
<1>2. /\ Follows(m, mf) /\ Agrees(m, mf) /\ mf.inst = m.inst
      /\ Follows(r, rf) /\ Agrees(r, rf) /\ rf.inst = r.inst
  <2>1. DOMAIN m = WorkerFields /\ IsCopy(m.inst) /\ DOMAIN r = WorkerFields /\ IsCopy(r.inst)
    BY <1>1 DEF Follows, Continues
  <2>2. Follows(m, mf) /\ Agrees(m, mf) /\ mf.inst = m.inst
    BY <2>1, FlagsFollow
  <2>3. Follows(r, rf) /\ Agrees(r, rf) /\ rf.inst = r.inst
    BY <2>1, FlagsFollow
  <2>4. QED
    BY <2>2, <2>3
<1> HIDE DEF mf, rf
<1>3. Follows(x, mf) /\ mf.inst = m.inst /\ Follows(x, rf) /\ Agrees(x, rf)
  BY <1>1, <1>2, FollowsOn
<1>4. LET y == Goto(mf, "end") IN Follows(x, y) /\ y.pc = "end" /\ y.inst = m.inst
  BY <1>3, GoesOn
<1>5. LET y == Goto(m, "end") IN Follows(x, y) /\ y.pc = "end" /\ y.inst = m.inst
  BY <1>1, GoesOn
<1>6. LET y == Goto(rf, "end") IN Follows(x, y) /\ Agrees(x, y) /\ y.pc = "end"
  BY <1>3, GoesOn
<1>7. QED
  BY <1>1, <1>4, <1>5, <1>6 DEF m, r, mf, rf, Reported, Refused

LEMMA RestartStill ==
  ASSUME Restart
  PROVE  Still
<1>1. stored' = stored /\ exists' = exists /\ UNCHANGED ruleVars
  BY DEF Restart
<1>2. QED
  BY <1>1, StillObjects DEF Still

LEMMA RejectGivesUp ==
  ASSUME Ground, Reject
  PROVE  GivesUp \/ Rests
<1>1. w.pc = "dispatch" /\ w.pc \notin OffPcs /\ ~w.inst.status.completed
  BY DEF Reject, ToReconcile, At, OffPcs
<1>2. DOMAIN w = WorkerFields /\ IsCopy(w.inst)
  BY <1>1, HerePeace
<1>3. CASE Restart
  <2>1. Still /\ w' = Idle
    BY <1>3, RestartStill DEF Restart
  <2>2. QED
    BY <2>1, <1>1 DEF Rests
<1>4. CASE /\ w' = Goto([MarkTargetsError(w, "Conflict") EXCEPT !.taken = FALSE], "end")
           /\ UNCHANGED <<apiVars, targetVars, ruleVars>>
  <2>1. Still
    BY <1>4, QuietStill
  <2>2. /\ Follows(w, w') /\ w'.pc = "end" /\ w'.inst.status.targets = "Conflict"
        /\ w'.inst.status.completed = w.inst.status.completed
    <3>1. Reported(w, w', "Conflict")
      BY <1>2, <1>4, EndsFollow
    <3>2. QED
      BY <3>1 DEF Reported
  <2>3. QED
    BY <2>1, <2>2, <1>1 DEF GivesUp
<1>5. QED
  BY <1>3, <1>4 DEF Reject

\* What the cache says never terminates anybody.
LEMMA NoOrders ==
  ASSUME Ground, w.pc = "dispatch", ToReconcile
  PROVE  Cache!CurrentAbstract(w.e, TargetSpec(w.e)).action # "terminate"
<1>1. w.e \in Experiments
  BY HerePeace DEF OffPcs
<1>2. CASE Claimed(w.e)
  <2>1. Abstracted(w.e, experimentAbstractStore[w.e])
    BY <1>1, <1>2 DEF Ground, PeaceInv, ClaimsKnown
  <2>2. QED
    BY <2>1, <1>2 DEF Abstracted, Cache!CurrentAbstract, Cache!Registered, Claimed
<1>3. CASE ~Claimed(w.e)
  BY <1>3 DEF Cache!CurrentAbstract, Cache!Registered, Claimed, Cache!NewExperiment
<1>4. QED
  BY <1>2, <1>3

LEMMA BeginReads ==
  ASSUME Ground, Begin
  PROVE  Reads \/ Rests
<1> DEFINE ea == Cache!CurrentAbstract(w.e, TargetSpec(w.e))
           u == [w EXCEPT !.taken = FALSE, !.terminate = ea.action = "terminate"]
           x == SyncExperiment(u, ea)
           y == [x EXCEPT !.statusUpdate = FALSE]
<1>0. w.pc = "dispatch" /\ w.pc \notin OffPcs /\ w.pc \in BeforePcs
  BY DEF Begin, ToReconcile, At, OffPcs, BeforePcs
<1>1. DOMAIN w = WorkerFields /\ IsCopy(w.inst) /\ Untouched(w.e, w.inst) /\ ~w.terminate
  BY <1>0, HerePeace DEF AtPeace, LatePcs
<1>2. ea.action # "terminate"
  BY <1>0, NoOrders DEF Begin
<1>3. /\ w' = Proceed(y)
      /\ UNCHANGED <<apiVars, targetVars, ruleVars>>
  BY <1>2 DEF Begin
<1> HIDE DEF ea
<1>4. /\ DOMAIN u = WorkerFields /\ u.inst = w.inst /\ u.e = w.e /\ u.fresh = w.fresh
      /\ u.refresh = w.refresh /\ u.terminate = FALSE
  BY <1>1, <1>2 DEF WorkerFields
<1>5. Follows(w, u) /\ Agrees(w, u)
  <2>1. w.terminate \in BOOLEAN => u.terminate = w.terminate
    BY <1>1, <1>4
  <2>2. w.terminate = FALSE
    BY <1>1
  <2>3. QED
    BY <1>1, <1>4, <2>2 DEF Continues, Follows, Agrees
<1> HIDE DEF u
<1>6. Follows(u, x) /\ Agrees(u, x)
  <2>1. ~Terminating(u.inst)
    BY <1>1, <1>4 DEF Terminating, Untouched
  <2>2. x = u \/ x = [u EXCEPT !.inst.status.phase = "Progressing"]
    BY <2>1, <1>2 DEF SyncExperiment
  <2>3. IsCopy(u.inst)
    BY <1>1, <1>4
  <2>4. QED
    BY <2>2, <2>3, <1>4 DEF Continues, Follows, Agrees, IsCopy, ObjectFields, SpecFields, StatusFields,
       WorkerFields
<1> HIDE DEF x
<1>7. Follows(x, y) /\ Agrees(x, y)
  <2>1. DOMAIN x = WorkerFields /\ IsCopy(x.inst)
    BY <1>6 DEF Follows, Continues
  <2>2. QED
    BY <2>1, FlagsFollow
<1> HIDE DEF y
<1>8. Follows(w, y) /\ Agrees(w, y)
  BY <1>5, <1>6, <1>7, FollowsOn
<1>9. Proceed(y) = Idle \/ Proceed(y) = AfterProceed(y)
  <2>1. y.inst.spec.override = None
    BY <1>1, <1>8 DEF Follows, Continues, Untouched
  <2>2. ~Pausing(y.inst) /\ ~Terminating(y.inst) /\ ~Resuming(y.inst)
    BY <2>1 DEF Pausing, Terminating, Resuming
  <2>3. QED
    BY <2>2 DEF Proceed
<1>10. Still
  BY <1>3, QuietStill
<1>11. CASE w' = Idle
  BY <1>0, <1>10, <1>11 DEF Rests
<1>12. CASE w' = AfterProceed(y)
  <2>1. Follows(w, w') /\ Agrees(w, w') /\ w'.pc \in {"metrics", "rules"}
    <3> DEFINE z == AfterProceed(y)
    <3>1. DOMAIN y = WorkerFields /\ IsCopy(y.inst)
      BY <1>8 DEF Follows, Continues
    <3>2. Follows(y, z) /\ Agrees(y, z) /\ z.pc \in {"metrics", "rules"}
      BY <3>1, PlacesFollow
    <3> HIDE DEF z
    <3>3. w' = z
      BY <1>12 DEF z
    <3>4. QED
      BY <1>8, <3>2, <3>3, FollowsOn
  <2>2. QED
    BY <2>1, <1>0, <1>10 DEF Reads, BeforePcs
<1>13. QED
  BY <1>3, <1>9, <1>11, <1>12

\* Where targets were found the rules run.
LEMMA FoundHere ==
  ASSUME Ground, w.pc \in {"metrics", "rules"}, w.inst.status.targets = "True"
  PROVE  RunsAt(w.e)
<1>1. w.pc \notin OffPcs /\ w.pc \in WorkPcs /\ w.pc \in BeforePcs
  BY DEF OffPcs, WorkPcs, RulePcs, BeforePcs
<1>2. w.e \in Experiments /\ stored[w.e] # None /\ Runs(w) /\ ~w.inst.status.completed
  BY <1>1, HerePeace, HereWorks
<1>3. Found(stored[w.e])
  BY <1>1, <1>2 DEF Runs, Found
<1>4. ~Retired(w.e)
  BY DEF Retired
<1>5. QED
  BY <1>2, <1>3, <1>4 DEF Ground, RestInv, FoundRuns

LEMMA UseRulesReads ==
  ASSUME Ground, UseRules
  PROVE  Reads \/ Finds
<1> DEFINE m == MarkRoutingRulesReady(w)
<1>0. w.pc = "rules" /\ w.pc \notin OffPcs /\ w.pc \in BeforePcs /\ w.pc \in WorkPcs
  BY DEF UseRules, At, OffPcs, BeforePcs, WorkPcs, RulePcs
<1>1. DOMAIN w = WorkerFields /\ IsCopy(w.inst) /\ ~w.terminate /\ ~w.refresh
      /\ ~w.inst.status.completed
  BY <1>0, HerePeace, HereWorks DEF AtPeace
<1>2. Follows(w, m) /\ Agrees(w, m)
  BY <1>1, MarksFollow
<1>3. Still /\ w' = AfterRules(m)
  BY QuietStill DEF UseRules
<1> HIDE DEF m
<1>4. DOMAIN m = WorkerFields /\ IsCopy(m.inst) /\ ~m.terminate /\ ~m.refresh
      /\ m.inst.status.targets = w.inst.status.targets /\ ~m.inst.status.completed
  BY <1>1, <1>2 DEF Follows, Continues, Agrees
<1>5. CASE w.inst.status.targets # "True"
  <2>1. w' = Goto(m, "detect")
    BY <1>3, <1>4, <1>5 DEF AfterRules, ToDetectTargets
  <2>2. Follows(m, w') /\ Agrees(m, w') /\ w'.pc = "detect"
    BY <1>4, <2>1, GoesFollow
  <2>3. Follows(w, w') /\ Agrees(w, w')
    BY <1>2, <2>2, FollowsOn
  <2>4. QED
    BY <1>0, <1>3, <1>5, <2>2, <2>3 DEF Reads
<1>6. CASE w.inst.status.targets = "True"
  <2>1. w' = AfterTargets(m)
    BY <1>3, <1>4, <1>6 DEF AfterRules, ToDetectTargets
  <2>2. Follows(m, w') /\ Agrees(m, w') /\ w'.pc \in {"iterate", "complete", "end"}
    BY <1>4, <2>1, PlacesFollow
  <2>3. Follows(w, w') /\ Agrees(w, w')
    BY <1>2, <2>2, FollowsOn
  <2>4. RunsAt(w.e)
    BY <1>0, <1>6, FoundHere
  <2>5. QED
    BY <1>0, <1>1, <1>3, <1>6, <2>2, <2>3, <2>4 DEF Finds, Agrees
<1>7. QED
  BY <1>5, <1>6

\* Rules are refused only if they run for somebody else.
LEMMA RefusedOthers ==
  ASSUME Ground, w.pc = "rules", ~RulesAccepted(dr[Svc(w)], vs[Svc(w)], w.e)
  PROVE  \E f \in Experiments : f # w.e /\ RunsFor(Svc(w), f)
<1> DEFINE s == Svc(w)
           d == dr[s]
           v == vs[s]
<1>1. w.e \in Experiments /\ s \in Services
  BY HerePeace, LimitNat DEF OffPcs, Svc, SpecAt
<1>2. Alike(d, v)
  BY <1>1 DEF Ground, RestInv, PairsAlike, HalfPcs
<1>3. d # None /\ v # None /\ d.labels = v.labels
  BY <1>2 DEF Alike, RulesAccepted
<1>4. FullRule(d) /\ FullRule(v)
  BY <1>1, <1>3 DEF Ground, ServedInv, KnownRules, KnownRule
<1>5. d.labels.role = "progressing"
  BY <1>3, <1>4 DEF RulesAccepted, FullRule, KnownLabels, RuleRoles
<1>6. IsProgressing(d, v)
  BY <1>3, <1>5 DEF IsProgressing
<1>7. d.labels.experiment # w.e
  BY <1>3, <1>6 DEF RulesAccepted
<1>8. PICK f \in Experiments : d.labels.experiment = f
  BY <1>1, <1>6 DEF Ground, ServedInv, AllServed, Served
<1>9. QED
  BY <1>6, <1>7, <1>8 DEF RunsFor

LEMMA RefuseRulesGivesUp ==
  ASSUME Ground, Peace, RefuseRules
  PROVE  GivesUp
<1>0. w.pc = "rules" /\ w.pc \notin OffPcs /\ w.pc \in BeforePcs /\ w.pc \in WorkPcs
  BY DEF RefuseRules, At, OffPcs, BeforePcs, WorkPcs, RulePcs
<1>1. DOMAIN w = WorkerFields /\ IsCopy(w.inst) /\ ~w.inst.status.completed /\ w.e \in Experiments
  BY <1>0, HerePeace, HereWorks
<1>2. ~RulesAccepted(dr[Svc(w)], vs[Svc(w)], w.e)
  <2>1. Quota
    BY DEF Ground, PeaceInv, Spent
  <2>2. QED
    BY <2>1, NothingFails DEF RefuseRules
<1>3. PICK f \in Experiments : f # w.e /\ RunsFor(Svc(w), f)
  BY <1>0, <1>2, RefusedOthers
<1>4. ~SpecAt(w).cleanup
  <2>1. Svc(w) \in Services
    BY <1>1, LimitNat DEF Svc, SpecAt
  <2>2. Svc(w) = SpecOf[f].service
    BY <1>3, <2>1 DEF Ground, RestInv, RunsAtHome
  <2>3. Svc(w) \in TargetsOf(w.e) \cap TargetsOf(f)
    BY <2>2 DEF TargetsOf, Svc, SpecAt
  <2>4. QED
    BY <1>1, <1>3, <2>3 DEF Peace, SpecAt
<1>5. w.inst.status.targets # "True"
  <2>1. ~RunsAt(w.e)
    BY <1>3 DEF RunsAt, RunsFor, Svc, SpecAt
  <2>2. QED
    BY <2>1, <1>0, FoundHere
<1>6. w' = Goto([MarkRoutingRulesError(w, "GetError") EXCEPT !.taken = FALSE], "end")
  BY <1>4 DEF RefuseRules
<1>7. Refused(w, w')
  BY <1>1, <1>6, EndsFollow
<1>8. Still
  BY QuietStill DEF RefuseRules
<1>9. QED
  BY <1>0, <1>1, <1>5, <1>7, <1>8 DEF Refused, Agrees, GivesUp

\* A missing target ends the request.
LEMMA MissingGivesUp ==
  ASSUME Ground, w.pc \in {"detect", "candidates"}, Still,
         NEW k \in {"Service", "Baseline", "Candidate"},
         w' = Goto(MarkTargetsError(w, Missing(k)), "end")
  PROVE  GivesUp
<1>1. DOMAIN w = WorkerFields /\ IsCopy(w.inst) /\ ~w.inst.status.completed
  BY HerePeace, HereWorks DEF WorkPcs, RulePcs, OffPcs
<1>2. Missing(k) # "True"
  BY TagsKnown
<1>3. Reported(w, w', Missing(k))
  BY <1>1, EndsFollow
<1>4. QED
  BY <1>1, <1>2, <1>3 DEF Reported, GivesUp

LEMMA DetectTargetsDecides ==
  ASSUME Ground, DetectTargets
  PROVE  GivesUp \/ Looks \/ Finds
<1> DEFINE m == MarkTargetsFound(w)
<1>0. w.pc = "detect" /\ w.pc \notin OffPcs /\ w.pc \in WorkPcs
  BY DEF DetectTargets, At, OffPcs, WorkPcs, RulePcs
<1>1. DOMAIN w = WorkerFields /\ IsCopy(w.inst) /\ ~w.inst.status.completed /\ w.e \in Experiments
  BY <1>0, HerePeace, HereWorks
<1>2. Still
  BY QuietStill DEF DetectTargets
<1>3. \/ \E k \in {"Service", "Baseline", "Candidate"} :
           w' = Goto(MarkTargetsError(w, Missing(k)), "end")
      \/ w' = AfterTargets(m) /\ IsProgressing(dr[Svc(w)], vs[Svc(w)])
      \/ w' = Goto(w, "baselineDR") /\ {SpecAt(w).service, SpecAt(w).baseline} \subseteq exists
  BY DEF DetectTargets
<1>4. CASE \E k \in {"Service", "Baseline", "Candidate"} :
             w' = Goto(MarkTargetsError(w, Missing(k)), "end")
  BY <1>0, <1>2, <1>4, MissingGivesUp
<1>5. CASE w' = AfterTargets(m) /\ IsProgressing(dr[Svc(w)], vs[Svc(w)])
  <2>1. Follows(w, m) /\ m.inst.status.targets = "True" /\ ~m.inst.status.completed
    BY <1>1, MarksFollow
  <2> HIDE DEF m
  <2>2. DOMAIN m = WorkerFields /\ IsCopy(m.inst)
    BY <2>1 DEF Follows, Continues
  <2>3. Follows(m, w') /\ Agrees(m, w') /\ w'.pc \in {"iterate", "complete", "end"}
    BY <2>2, <1>5, PlacesFollow
  <2>4. Follows(w, w')
    BY <2>1, <2>3, FollowsOn
  <2>5. RunsAt(w.e)
    <3>1. Owned(w, dr[Svc(w)], vs[Svc(w)])
      BY <1>0 DEF Ground, ServedInv, IInv, RulesInv
    <3>2. QED
      BY <1>0, <1>5, <3>1 DEF Owned, OwningPcs, Labelled, RunsAt, RunsFor, Svc, SpecAt
  <2>6. QED
    BY <1>0, <1>2, <2>1, <2>3, <2>4, <2>5 DEF Finds, Agrees
<1>6. CASE w' = Goto(w, "baselineDR") /\ {SpecAt(w).service, SpecAt(w).baseline} \subseteq exists
  <2>1. Follows(w, w') /\ Agrees(w, w') /\ w'.pc = "baselineDR"
    BY <1>1, <1>6, GoesFollow
  <2>2. QED
    BY <1>0, <1>2, <1>6, <2>1 DEF Looks
<1>7. QED
  BY <1>3, <1>4, <1>5, <1>6

LEMMA MissingCandidateGivesUp ==
  ASSUME Ground, MissingCandidate
  PROVE  GivesUp
<1>1. Still
  BY QuietStill DEF MissingCandidate
<1>2. QED
  BY <1>1, MissingGivesUp DEF MissingCandidate, At

-----------------------------------------------------------------------------
(* Writes of the rules, and iterations.                                    *)

LEMMA PutsMade ==
  ASSUME Ground, w.pc \in WritePcs, NEW d, NEW v,
         dr' = [dr EXCEPT ![Svc(w)] = d] \/ (dr' = dr /\ d = dr[Svc(w)]),
         vs' = [vs EXCEPT ![Svc(w)] = v] \/ (vs' = vs /\ v = vs[Svc(w)]),
         stored' = stored, exists' = exists
  PROVE  PutsHere(d, v)
<1>1. Svc(w) \in Services /\ DOMAIN dr = Services /\ DOMAIN vs = Services
  BY HereWrites DEF Ground, ServedInv
<1>2. SameSight
  BY StillObjects
<1>3. \A s \in Services : /\ dr'[s] = IF s = Svc(w) THEN d ELSE dr[s]
                          /\ vs'[s] = IF s = Svc(w) THEN v ELSE vs[s]
  BY <1>1
<1>4. QED
  BY <1>2, <1>3 DEF PutsHere

\* No write of a rule fails.
LEMMA PutsSucceed ==
  ASSUME Ground, w.pc \in WritePcs, NEW new, NEW next, NEW tag
  PROVE  /\ WriteDR(new, next, tag) => PutsHere(new, vs[Svc(w)]) /\ w' = next
         /\ WriteVS(new, next, tag) => PutsHere(dr[Svc(w)], new) /\ w' = next
<1>1. Quota
  BY DEF Ground, PeaceInv, Spent
<1>2. ASSUME WriteDR(new, next, tag)
      PROVE  PutsHere(new, vs[Svc(w)]) /\ w' = next
  <2>1. PICK ok \in BOOLEAN :
          /\ MayFail(ok)
          /\ dr' = IF ok THEN [dr EXCEPT ![Svc(w)] = new] ELSE dr
          /\ w' = IF ok THEN next ELSE Goto(MarkRoutingRulesError(w, tag), "end")
          /\ UNCHANGED <<apiVars, targetVars, vs>>
    BY <1>2 DEF WriteDR
  <2>2. ok
    BY <1>1, <2>1, NothingFails
  <2>3. dr' = [dr EXCEPT ![Svc(w)] = new] /\ w' = next
    BY <2>1, <2>2
  <2>4. stored' = stored /\ exists' = exists /\ vs' = vs
    BY <2>1 DEF apiVars, targetVars
  <2>5. QED
    BY <2>3, <2>4, PutsMade
<1>3. ASSUME WriteVS(new, next, tag)
      PROVE  PutsHere(dr[Svc(w)], new) /\ w' = next
  <2>1. PICK ok \in BOOLEAN :
          /\ MayFail(ok)
          /\ vs' = IF ok THEN [vs EXCEPT ![Svc(w)] = new] ELSE vs
          /\ w' = IF ok THEN next ELSE Goto(MarkRoutingRulesError(w, tag), "end")
          /\ UNCHANGED <<apiVars, targetVars, dr>>
    BY <1>3 DEF WriteVS
  <2>2. ok
    BY <1>1, <2>1, NothingFails
  <2>3. vs' = [vs EXCEPT ![Svc(w)] = new] /\ w' = next
    BY <2>1, <2>2
  <2>4. stored' = stored /\ exists' = exists /\ dr' = dr
    BY <2>1 DEF apiVars, targetVars
  <2>5. QED
    BY <2>3, <2>4, PutsMade
<1>4. QED
  BY <1>2, <1>3

LEMMA UpdateBaselineLays ==
  ASSUME Ground
  PROVE  (UpdateBaselineDR => LaysDR) /\ (UpdateBaselineVS => LaysVS)
<1>1. ASSUME UpdateBaselineDR
      PROVE  LaysDR
  <2>1. w.pc = "baselineDR" /\ w.pc \in WritePcs /\ w.pc \notin OffPcs
    BY <1>1 DEF UpdateBaselineDR, At, WritePcs, OffPcs
  <2>2. /\ PutsHere(BaselineDestinationRule(dr[Svc(w)], w.e, SpecAt(w)), vs[Svc(w)])
        /\ w' = Goto(w, "baselineVS")
    BY <1>1, <2>1, PutsSucceed DEF UpdateBaselineDR
  <2>3. Follows(w, w') /\ Agrees(w, w') /\ w'.pc = "baselineVS"
    BY <2>1, <2>2, HerePeace, GoesFollow
  <2>4. QED
    BY <2>1, <2>2, <2>3 DEF LaysDR
<1>2. ASSUME UpdateBaselineVS
      PROVE  LaysVS
  <2> DEFINE x == [w EXCEPT !.inst.status.weights[0] = 100]
  <2>1. w.pc = "baselineVS" /\ w.pc \in WritePcs /\ w.pc \notin OffPcs
    BY <1>2 DEF UpdateBaselineVS, At, WritePcs, OffPcs
  <2>2. /\ PutsHere(dr[Svc(w)], BaselineVirtualService(vs[Svc(w)], w.e, SpecAt(w)))
        /\ w' = Goto(x, "candidates")
    BY <1>2, <2>1, PutsSucceed DEF UpdateBaselineVS
  <2>3. DOMAIN w = WorkerFields /\ IsCopy(w.inst)
    BY <2>1, HerePeace
  <2>4. /\ Continues(w, x) /\ Agrees(w, x)
        /\ x.inst.status.weights = [w.inst.status.weights EXCEPT ![0] = 100]
    BY <2>3 DEF Continues, Agrees, IsCopy, ObjectFields, SpecFields, StatusFields, WorkerFields
  <2> HIDE DEF x
  <2>5. Follows(x, w') /\ Agrees(x, w') /\ w'.pc = "candidates"
    BY <2>2, <2>4, GoesFollow DEF Continues
  <2>6. Continues(w, w') /\ Agrees(w, w')
    BY <2>4, <2>5 DEF Continues, Follows, Agrees
  <2>7. w'.inst.status.weights = [w.inst.status.weights EXCEPT ![0] = 100]
    BY <2>4, <2>5 DEF Follows
  <2>8. QED
    BY <2>1, <2>2, <2>5, <2>6, <2>7 DEF LaysVS
<1>3. QED
  BY <1>1, <1>2

LEMMA UpdateCandidatesOpens ==
  ASSUME Ground
  PROVE  (UpdateCandidatesDR => OpensDR) /\ (UpdateCandidatesVS => OpensVS)
<1>1. ASSUME UpdateCandidatesDR
      PROVE  OpensDR
  <2>1. w.pc = "candidates" /\ w.pc \in WritePcs /\ w.pc \notin OffPcs /\ CandidatesExist(w)
    BY <1>1 DEF UpdateCandidatesDR, At, WritePcs, OffPcs
  <2>2. /\ PutsHere(CandidatesDestinationRule(dr[Svc(w)], SpecAt(w)), vs[Svc(w)])
        /\ w' = Goto(w, "candidatesVS")
    BY <1>1, <2>1, PutsSucceed DEF UpdateCandidatesDR
  <2>3. Follows(w, w') /\ Agrees(w, w') /\ w'.pc = "candidatesVS"
    BY <2>1, <2>2, HerePeace, GoesFollow
  <2>4. QED
    BY <2>1, <2>2, <2>3 DEF OpensDR
<1>2. ASSUME UpdateCandidatesVS
      PROVE  OpensVS
  <2> DEFINE m == MarkTargetsFound(w)
  <2>1. w.pc = "candidatesVS" /\ w.pc \in WritePcs /\ w.pc \notin OffPcs /\ w.pc \in WorkPcs
    BY <1>2 DEF UpdateCandidatesVS, At, WritePcs, OffPcs, WorkPcs, RulePcs
  <2>2. /\ PutsHere(dr[Svc(w)], CandidatesVirtualService(vs[Svc(w)]))
        /\ w' = AfterTargets(m)
    BY <1>2, <2>1, PutsSucceed DEF UpdateCandidatesVS
  <2>3. /\ DOMAIN w = WorkerFields /\ IsCopy(w.inst) /\ w.inst.status.targets # "True"
        /\ ~w.inst.status.completed
    BY <2>1, HerePeace, HereWorks DEF Runs, LayPcs
  <2>4. /\ Follows(w, m) /\ m.inst.status.targets = "True" /\ m.statusUpdate
        /\ m.inst.status.completed = w.inst.status.completed
    BY <2>3, MarksFollow
  <2> HIDE DEF m
  <2>5. DOMAIN m = WorkerFields /\ IsCopy(m.inst)
    BY <2>4 DEF Follows, Continues
  <2>6. /\ Follows(m, w') /\ Agrees(m, w') /\ w'.pc \in {"iterate", "complete", "end"}
        /\ w'.statusUpdate = m.statusUpdate
    BY <2>2, <2>5, PlacesFollow
  <2>7. Follows(w, w')
    BY <2>4, <2>6, FollowsOn
  <2>8. QED
    BY <2>1, <2>2, <2>3, <2>4, <2>6, <2>7 DEF OpensVS, Agrees
<1>3. QED
  BY <1>1, <1>2

LEMMA IterateCounts ==
  ASSUME Ground, IterateWithoutCriteria
  PROVE  Weighs \/ Counts
<1> DEFINE spec == SpecAt(w)
           k == w.inst.status.weights
           f == Shared(spec, k)
           x == [w EXCEPT !.inst.status.weights = f]
<1>0. w.pc = "iterate" /\ w.pc \notin OffPcs /\ w.pc \in WorkPcs
  BY DEF IterateWithoutCriteria, At, OffPcs, WorkPcs
<1>1. DOMAIN w = WorkerFields /\ IsCopy(w.inst) /\ Working(w)
  BY <1>0, HerePeace, HereWorks
<1>2. Still
  BY QuietStill DEF IterateWithoutCriteria
<1>3. \/ CanShare(spec, k) /\ ~spec.criteria /\ w' = Goto(x, "split")
      \/ w' = Iterated(w)
  BY DEF IterateWithoutCriteria, Shared
<1>4. CASE CanShare(spec, k) /\ ~spec.criteria /\ w' = Goto(x, "split")
  <2> HIDE DEF f
  <2>1. Continues(w, x) /\ Agrees(w, x) /\ x.inst.status.weights = f
    BY <1>1 DEF Continues, Agrees, IsCopy, ObjectFields, SpecFields, StatusFields, WorkerFields
  <2> HIDE DEF x
  <2>2. Follows(x, w') /\ Agrees(x, w') /\ w'.pc = "split"
    BY <1>4, <2>1, GoesFollow DEF Continues
  <2>3. Continues(w, w') /\ Agrees(w, w') /\ w'.inst.status.weights = f
    BY <2>1, <2>2 DEF Continues, Follows, Agrees
  <2>4. QED
    BY <1>0, <1>2, <1>4, <2>2, <2>3 DEF Weighs, f
<1>5. CASE w' = Iterated(w)
  BY <1>0, <1>1, <1>2, <1>5, IteratedFollows DEF Counts
<1>6. QED
  BY <1>3, <1>4, <1>5

LEMMA AbortAborts ==
  ASSUME Ground, NEW r, Abort(r)
  PROVE  Aborts
<1> DEFINE q == [w.inst EXCEPT !.spec.override = Terminate(NoSplit)]
           i == OverrideAssessment(q)
           x == [w EXCEPT !.inst = i]
<1>0. w.pc = "iterate" /\ w.pc \notin OffPcs
  BY DEF Abort, At, OffPcs
<1>1. DOMAIN w = WorkerFields /\ IsCopy(w.inst)
  BY <1>0, HerePeace
<1>2. /\ IsCopy(q) /\ q.spec.override = Terminate(NoSplit) /\ q.status = w.inst.status
      /\ q.deleting = w.inst.deleting
  BY <1>1 DEF IsCopy, ObjectFields, SpecFields
<1>3. i = [q EXCEPT !.spec.onTermination = "to_baseline"]
  <2>1. q.spec.override # None
    BY <1>2, KindAssumption
  <2>2. q.spec.override.split = NoSplit
    BY <1>2 DEF Terminate
  <2>3. QED
    BY <2>1, <2>2 DEF OverrideAssessment
<1> HIDE DEF q
<1>4. IsCopy(i) /\ Aborted(i) /\ i.status = w.inst.status /\ i.deleting = w.inst.deleting
  BY <1>2, <1>3 DEF IsCopy, ObjectFields, SpecFields, Aborted
<1>5. w' = AfterUpdate(x)
  BY DEF Abort, q
<1> HIDE DEF i
<1>6. ToComplete(x)
  <2>1. x.inst = i
    BY <1>1 DEF WorkerFields
  <2>2. Terminating(i)
    <3>1. i.spec.override.action = "terminate"
      BY <1>4 DEF Aborted, Terminate
    <3>2. i.spec.override # None
      BY <1>4, KindAssumption DEF Aborted
    <3>3. QED
      BY <3>1, <3>2 DEF Terminating
  <2> HIDE DEF x
  <2>3. QED
    BY <2>1, <2>2 DEF ToComplete
<1>7. w' = Goto(x, "complete")
  BY <1>5, <1>6 DEF AfterUpdate
<1>8. /\ DOMAIN w' = WorkerFields /\ w'.inst = i /\ w'.pc = "complete"
      /\ w'.e = w.e /\ w'.fresh = w.fresh /\ w'.terminate = w.terminate /\ w'.refresh = w.refresh
  BY <1>1, <1>7 DEF Goto, WorkerFields
<1>9. Still
  BY QuietStill DEF Abort
<1> HIDE DEF x
<1>10. w'.inst.status = w.inst.status /\ Agrees(w, w')
  BY <1>4, <1>8 DEF Agrees
<1>11. QED
  BY <1>0, <1>4, <1>8, <1>9, <1>10 DEF Aborts

\* The answer is taken over.
TakesOver(x, y, f) ==
  /\ Continues(x, y) /\ Agrees(x, y) /\ Working(y)
  /\ y.statusUpdate /\ y.inst.status.weights = f
LEMMA TakenFollows ==
  ASSUME NEW x, Working(x), NEW r \in Responses, NEW f
  PROVE  TakesOver(x, [MarkAssessmentUpdate([x EXCEPT !.inst.status.winner = r.winner]) EXCEPT
                         !.inst.status.weights = f], f)
<1> DEFINE u == [x EXCEPT !.inst.status.winner = r.winner]
           m == MarkAssessmentUpdate(u)
           y == [m EXCEPT !.inst.status.weights = f]
<1>1. DOMAIN x = WorkerFields /\ IsCopy(x.inst) /\ x.inst.status.completed = FALSE
  BY DEF Working, IsCopy
<1>2. r.winner \in Winners
  BY DEF Winners
<1>3. Continues(x, u) /\ Agrees(x, u)
  BY <1>1, <1>2 DEF Continues, Agrees, IsCopy, ObjectFields, SpecFields, StatusFields, WorkerFields
<1>4. Working(u)
  BY WeightsWork DEF Works
<1> HIDE DEF u
<1>5. Follows(u, m) /\ m.statusUpdate /\ m.inst.status.targets = u.inst.status.targets
      /\ m.inst.status.completed = ("Progressing" = "Completed")
  <2>1. DOMAIN u = WorkerFields /\ IsCopy(u.inst)
    BY <1>3 DEF Continues
  <2>2. QED
    BY <2>1, PhasesFollow DEF MarkAssessmentUpdate
<1>6. Working(m)
  BY <1>4, PhasesWork DEF MarkAssessmentUpdate, Works
<1> HIDE DEF m
<1>7. Agrees(u, m) /\ m.inst.status.completed = FALSE
  BY <1>1, <1>3, <1>5 DEF Agrees
<1>8. DOMAIN m = WorkerFields /\ IsCopy(m.inst)
  BY <1>6 DEF Working
<1>9. Working(y)
  BY <1>6, WeightsWork DEF Works
<1>10. Continues(m, y) /\ Agrees(m, y) /\ y.inst.status.weights = f
       /\ y.statusUpdate = m.statusUpdate /\ y.inst.status.winner = m.inst.status.winner
  BY <1>8 DEF Continues, Agrees, IsCopy, ObjectFields, SpecFields, StatusFields, WorkerFields
<1> HIDE DEF y
<1>11. Continues(x, y)
  BY <1>3, <1>5, <1>10 DEF Continues, Follows
<1>12. QED
  BY <1>3, <1>5, <1>7, <1>9, <1>10, <1>11 DEF TakesOver, Agrees, y, m, u

LEMMA AnswerCounts ==
  ASSUME Ground, NEW r \in Responses, FollowRecommendation(r)
  PROVE  Weighs \/ Misses \/ Counts
<1> DEFINE spec == SpecAt(w)
           k == w.inst.status.weights
           u == [w EXCEPT !.inst.status.winner = r.winner]
           f == Taken(spec, r, k)
           x == [MarkAssessmentUpdate(u) EXCEPT !.inst.status.weights = f]
           m == MarkAnalyticsServiceRunning(x)
           n == MarkAnalyticsServiceError(x)
<1>0. w.pc = "iterate" /\ w.pc \notin OffPcs /\ w.pc \in WorkPcs /\ SpecAt(w).criteria
  BY DEF FollowRecommendation, At, OffPcs, WorkPcs
<1>1. DOMAIN w = WorkerFields /\ IsCopy(w.inst) /\ Working(w)
  <2>1. DOMAIN w = WorkerFields /\ IsCopy(w.inst)
    BY <1>0, HerePeace
  <2>2. Working(w)
    BY <1>0, HereWorks
  <2>3. QED
    BY <2>1, <2>2
<1>2. Still
  BY QuietStill DEF FollowRecommendation
<1>3. x = [MarkAssessmentUpdate(u) EXCEPT
             !.inst.status.weights =
               [v \in Versions(spec) |-> IF v \notin Recommended(spec, r) THEN @[v]
                                         ELSE IF v \in r.rollback THEN 0 ELSE r.weights[v]]]
  <2>1. MarkAssessmentUpdate(u).inst.status.weights = k
    <3>1. Works(w, u) /\ u.inst.status.weights = k
      BY <1>1, WeightsWork DEF IsCopy, ObjectFields, StatusFields, WorkerFields
    <3> HIDE DEF u, k
    <3>2. DOMAIN u = WorkerFields /\ IsCopy(u.inst)
      BY <3>1 DEF Works, Working
    <3>3. Follows(u, MarkPhase(u, "Progressing"))
      BY <3>2, PhasesFollow
    <3>4. QED
      BY <3>1, <3>3 DEF MarkAssessmentUpdate, Follows
  <2>2. QED
    BY <2>1 DEF Taken
<1>4. /\ r.rollback # Versions(spec) \ {0}
      /\ \/ Recommended(spec, r) # Versions(spec) /\ w' = Goto(n, "end")
         \/ Recommended(spec, r) = Versions(spec) /\ w' = Goto(m, "split")
         \/ /\ Recommended(spec, r) = Versions(spec) /\ w' = Iterated(m)
            /\ ~(r.rollback # {} \/ x.inst.status.weights # w.inst.status.weights)
  BY <1>3 DEF FollowRecommendation
<1>5. /\ Continues(w, x) /\ Agrees(w, x) /\ Working(x)
      /\ x.statusUpdate /\ x.inst.status.weights = f
  <2> HIDE DEF f
  <2>1. TakesOver(w, x, f)
    BY <1>1, TakenFollows
  <2>2. QED
    BY <2>1 DEF TakesOver
<1> HIDE DEF u, f, x
<1>6. DOMAIN x = WorkerFields /\ IsCopy(x.inst)
  BY <1>5 DEF Working
<1>7. Follows(x, m) /\ Agrees(x, m) /\ m.statusUpdate /\ Working(m)
  BY <1>5, <1>6, MarksFollow, MarksWork DEF Works
<1>8. Follows(x, n) /\ Agrees(x, n) /\ n.statusUpdate
  BY <1>5, <1>6, ZenonT(60)
  DEF MarkAnalyticsServiceError, Follows, Continues, Agrees, IsCopy, ObjectFields, SpecFields,
      StatusFields, WorkerFields
<1> HIDE DEF m, n
<1>9. CASE Recommended(spec, r) # Versions(spec) /\ w' = Goto(n, "end")
  <2>1. DOMAIN n = WorkerFields /\ IsCopy(n.inst)
    BY <1>8 DEF Follows, Continues
  <2>2. Follows(n, w') /\ Agrees(n, w') /\ w'.pc = "end" /\ w'.statusUpdate = n.statusUpdate
    BY <2>1, <1>9, GoesFollow
  <2>3. Follows(x, w') /\ Agrees(x, w')
    BY <1>8, <2>2, FollowsOn
  <2>4. Continues(w, w') /\ Agrees(w, w') /\ w'.inst.status.weights = f
    BY <1>5, <2>3 DEF Continues, Follows, Agrees
  <2>5. QED
    BY <1>0, <1>2, <1>4, <1>8, <1>9, <2>2, <2>4 DEF Misses, f
<1>10. CASE Recommended(spec, r) = Versions(spec) /\ w' = Goto(m, "split")
  <2>1. DOMAIN m = WorkerFields /\ IsCopy(m.inst)
    BY <1>7 DEF Follows, Continues
  <2>2. Follows(m, w') /\ Agrees(m, w') /\ w'.pc = "split"
    BY <2>1, <1>10, GoesFollow
  <2>3. Follows(x, w') /\ Agrees(x, w')
    BY <1>7, <2>2, FollowsOn
  <2>4. Continues(w, w') /\ Agrees(w, w') /\ w'.inst.status.weights = f
    BY <1>5, <2>3 DEF Continues, Follows, Agrees
  <2>5. QED
    BY <1>0, <1>2, <1>4, <1>10, <2>2, <2>4 DEF Weighs, f
<1>11. CASE /\ Recommended(spec, r) = Versions(spec) /\ w' = Iterated(m)
            /\ ~(r.rollback # {} \/ x.inst.status.weights # w.inst.status.weights)
  <2>1. /\ Follows(m, w') /\ Agrees(m, w')
        /\ w'.statusUpdate /\ w'.pc \in {"complete", "end"}
    BY <1>7, <1>11, IteratedFollows
  <2>2. Follows(x, w') /\ Agrees(x, w')
    BY <1>7, <2>1, FollowsOn
  <2>3. Follows(w, w') /\ Agrees(w, w')
    BY <1>5, <1>11, <2>2 DEF Continues, Follows, Agrees
  <2>4. QED
    BY <1>0, <1>2, <2>1, <2>3 DEF Counts
<1>12. QED
  BY <1>4, <1>9, <1>10, <1>11

LEMMA SplitSplits ==
  ASSUME Ground, UpdateTrafficSplit
  PROVE  Splits
<1> DEFINE m == MarkAssessmentUpdate(w)
           v == SplitVirtualService(vs[Svc(w)], SpecAt(w), w.inst.status.weights)
<1>0. w.pc = "split" /\ w.pc \notin OffPcs /\ w.pc \in WorkPcs /\ w.pc \in WritePcs
  BY DEF UpdateTrafficSplit, At, OffPcs, WorkPcs, WritePcs
<1>1. DOMAIN w = WorkerFields /\ IsCopy(w.inst) /\ Working(w) /\ w.inst.status.completed = FALSE
  BY <1>0, HerePeace, HereWorks DEF Working, IsCopy
<1>2. vs' = [vs EXCEPT ![Svc(w)] = v] /\ w' = Iterated(m)
  <2>1. Quota
    BY DEF Ground, PeaceInv, Spent
  <2>2. vs' = [vs EXCEPT ![Svc(w)] = SplitVirtualService(@, SpecAt(w), w.inst.status.weights)]
        /\ w' = Iterated(m)
    BY <2>1, NothingFails DEF UpdateTrafficSplit
  <2>3. QED
    BY <2>2
<1>3. PutsHere(dr[Svc(w)], v)
  <2> HIDE DEF v
  <2>1. stored' = stored /\ exists' = exists /\ dr' = dr
    BY DEF UpdateTrafficSplit, apiVars, targetVars
  <2>2. QED
    BY <1>0, <1>2, <2>1, PutsMade
<1>4. Follows(w, m) /\ Agrees(w, m) /\ Working(m)
  <2>1. /\ Follows(w, m) /\ m.inst.status.targets = w.inst.status.targets
        /\ m.inst.status.completed = ("Progressing" = "Completed")
    BY <1>1, PhasesFollow DEF MarkAssessmentUpdate
  <2>2. Working(m)
    BY <1>1, PhasesWork DEF MarkAssessmentUpdate, Works
  <2>3. QED
    BY <1>1, <2>1, <2>2 DEF Agrees
<1> HIDE DEF m, v
<1>5. Follows(m, w') /\ Agrees(m, w') /\ w'.statusUpdate /\ w'.pc \in {"complete", "end"}
  BY <1>2, <1>4, IteratedFollows
<1>6. Follows(w, w') /\ Agrees(w, w')
  BY <1>4, <1>5, FollowsOn
<1>7. QED
  BY <1>0, <1>3, <1>5, <1>6 DEF Splits, v

-----------------------------------------------------------------------------
(* Completion, the end of a request, and what happens besides.             *)

LEMMA CompleteCompletes ==
  ASSUME Ground, Complete
  PROVE  Completes
<1> DEFINE u == [w EXCEPT !.taken = FALSE]
           pc == IF SpecAt(w).cleanup THEN "cleanupTargets" ELSE "cleanupDR"
<1>0. w.pc = "complete" /\ w.pc \notin OffPcs
  BY DEF Complete, At, OffPcs
<1>1. DOMAIN w = WorkerFields /\ IsCopy(w.inst)
  BY <1>0, HerePeace
<1>2. Still /\ w' = Goto(u, pc)
  BY QuietStill DEF Complete
<1> HIDE DEF pc
<1>3. Follows(w, u) /\ Agrees(w, u)
  BY <1>1, FlagsFollow
<1> HIDE DEF u
<1>4. Follows(u, w') /\ Agrees(u, w') /\ w'.pc = pc
  BY <1>2, <1>3, GoesFollow DEF Follows, Continues
<1>5. Follows(w, w') /\ Agrees(w, w')
  BY <1>3, <1>4, FollowsOn
<1>6. QED
  BY <1>0, <1>2, <1>4, <1>5 DEF Completes, pc

LEMMA CleanupTargetsCleans ==
  ASSUME Ground, Peace, CleanupTargets
  PROVE  CleansTargets
<1> DEFINE spec == SpecAt(w)
           some == {Deployment(spec, v) : v \in Versions(spec)}
                     \ {Deployment(spec, v) : v \in KeptHere}
           delete == {Deployment(spec, v) : v \in Versions(spec) \ KeptHere}
                       \ {Deployment(spec, v) : v \in KeptHere}
<1>0. w.pc = "cleanupTargets" /\ w.pc \notin OffPcs
  BY NeverHere DEF CleanupTargets, OffPcs
<1>1. DOMAIN w = WorkerFields /\ IsCopy(w.inst)
  BY <1>0, HerePeace
<1>2. PICK failed \in SUBSET (delete \cap exists) : exists' = exists \ (delete \ failed)
  BY DEF CleanupTargets, KeptHere
<1>3. delete \subseteq some
  OBVIOUS
<1>4. exists' \subseteq exists /\ exists \ exists' \subseteq some
  <2> HIDE DEF delete, some
  <2>1. QED
    BY <1>2, <1>3
<1>5. w' = Goto(w, "cleanupDR")
  BY <1>0 DEF CleanupTargets, At
<1>6. Follows(w, w') /\ Agrees(w, w') /\ w'.pc = "cleanupDR" /\ w'.inst = w.inst
  BY <1>1, <1>5, GoesFollow
<1>7. UNCHANGED ruleVars /\ SameSight
  <2>1. stored' = stored /\ UNCHANGED ruleVars
    BY DEF CleanupTargets, apiVars
  <2>2. QED
    BY <2>1, StillObjects
<1>8. QED
  BY <1>0, <1>4, <1>6, <1>7 DEF CleansTargets

LEMMA CleanupDRCleans ==
  ASSUME Ground, CleanupDR
  PROVE  CleansDR
<1> DEFINE d == IF Removing(w) THEN None ELSE StableDestinationRule(dr[Svc(w)], Stable(w))
<1>0. w.pc = "cleanupDR" /\ w.pc \notin OffPcs /\ w.pc \in RunPcs /\ w.pc \in WritePcs
  BY DEF CleanupDR, At, OffPcs, RunPcs, WritePcs
<1>1. DOMAIN w = WorkerFields /\ IsCopy(w.inst)
  BY <1>0, HerePeace
<1>2. dr[Svc(w)] # None
  <2>1. RunsAt(w.e)
    BY <1>0, HerePeace DEF Runs
  <2>2. QED
    BY <2>1 DEF RunsAt, RunsFor, IsProgressing, Svc, SpecAt
<1>3. /\ dr' = [dr EXCEPT ![Svc(w)] = d] /\ vs' = vs /\ w' = Goto(w, "cleanupVS")
  <2>1. Quota
    BY DEF Ground, PeaceInv, Spent
  <2>2. PICK ok \in BOOLEAN :
          /\ MayFail(ok)
          /\ ok => /\ dr' = [dr EXCEPT ![Svc(w)] =
                               IF Removing(w) THEN None ELSE StableDestinationRule(@, Stable(w))]
                   /\ vs' = vs /\ w' = Goto(w, "cleanupVS")
    BY <1>2 DEF CleanupDR
  <2>3. ok
    BY <2>1, <2>2, NothingFails
  <2>4. QED
    BY <2>2, <2>3
<1> HIDE DEF d
<1>4. PutsHere(d, vs[Svc(w)])
  <2>1. stored' = stored /\ exists' = exists
    BY DEF CleanupDR, apiVars, targetVars
  <2>2. QED
    BY <1>0, <1>3, <2>1, PutsMade
<1>5. Follows(w, w') /\ Agrees(w, w') /\ w'.pc = "cleanupVS" /\ w'.inst = w.inst
  BY <1>1, <1>3, GoesFollow
<1>6. QED
  BY <1>0, <1>4, <1>5 DEF CleansDR, d

LEMMA CleanupVSCleans ==
  ASSUME Ground, CleanupVS
  PROVE  CleansVS
<1> DEFINE v == IF dr[Svc(w)] = None THEN None
                ELSE StableVirtualService(vs[Svc(w)], Stable(w), w.inst.spec.onTermination,
                                          w.inst.status.weights)
           m == MarkExperimentCompleted(w)
<1>0. w.pc = "cleanupVS" /\ w.pc \notin OffPcs /\ w.pc \in WritePcs
  BY DEF CleanupVS, At, OffPcs, WritePcs
<1>1. DOMAIN w = WorkerFields /\ IsCopy(w.inst)
  BY <1>0, HerePeace
<1>2. vs' = [vs EXCEPT ![Svc(w)] = v] /\ dr' = dr /\ w' = Goto(m, "end")
  <2>1. Quota
    BY DEF Ground, PeaceInv, Spent
  <2>2. PICK ok \in BOOLEAN :
          /\ MayFail(ok)
          /\ ok => /\ vs' = [vs EXCEPT ![Svc(w)] =
                               IF dr[Svc(w)] = None THEN None
                               ELSE StableVirtualService(@, Stable(w), w.inst.spec.onTermination,
                                                         w.inst.status.weights)]
                   /\ dr' = dr /\ w' = Goto(m, "end")
    BY DEF CleanupVS
  <2>3. ok
    BY <2>1, <2>2, NothingFails
  <2>4. QED
    BY <2>2, <2>3
<1> HIDE DEF v
<1>3. PutsHere(dr[Svc(w)], v)
  <2>1. stored' = stored /\ exists' = exists
    BY DEF CleanupVS, apiVars, targetVars
  <2>2. QED
    BY <1>0, <1>2, <2>1, PutsMade
<1>4. Follows(w, m) /\ m.statusUpdate /\ m.inst.status.completed = ("Completed" = "Completed")
  BY <1>1, PhasesFollow DEF MarkExperimentCompleted
<1> HIDE DEF m
<1>5. /\ Follows(m, w') /\ Agrees(m, w') /\ w'.pc = "end"
      /\ w'.statusUpdate = m.statusUpdate
  <2>1. DOMAIN m = WorkerFields /\ IsCopy(m.inst)
    BY <1>4 DEF Follows, Continues
  <2>2. QED
    BY <1>2, <2>1, GoesFollow
<1>6. Follows(w, w')
  BY <1>4, <1>5, FollowsOn
<1>7. QED
  BY <1>0, <1>3, <1>4, <1>5, <1>6 DEF CleansVS, v, Agrees

LEMMA EndReports ==
  ASSUME NoneIsNoObject, Ground, End
  PROVE  Reports
<1> DEFINE o == stored[w.e]
           new == [o EXCEPT !.status = w.inst.status]
<1>0. w.pc = "end" /\ w.pc \notin OffPcs
  BY DEF End, At, OffPcs
<1>1. /\ w.e \in Experiments /\ DOMAIN w = WorkerFields /\ IsCopy(w.inst) /\ IsCopy(o)
      /\ o # None /\ DOMAIN stored = Experiments /\ ~w.inst.deleting
  BY <1>0, HerePeace DEF AtPeace
<1>2. w' = Idle
  BY <1>1 DEF End, Finalizing
<1>3. UNCHANGED ruleVars /\ exists' = exists
  BY DEF End, targetVars
<1>4. CASE ~w.statusUpdate
  <2>1. stored' = stored
    BY <1>4 DEF End, apiVars
  <2>2. QED
    BY <1>0, <1>2, <1>3, <1>4, <2>1, StillObjects DEF Reports
<1>5. CASE w.statusUpdate
  <2>1. PICK outcome \in Outcomes : UpdateStatus(outcome)
    BY <1>5 DEF End
  <2>2. outcome = "ok"
    BY <1>0, <2>1, Accepted DEF UpdateStatus
  <2>3. stored' = [stored EXCEPT ![w.e] = new]
    BY <2>1, <2>2 DEF UpdateStatus, Store
  <2>4. new # None
    <3>1. DOMAIN new = ObjectFields
      BY <1>1 DEF IsCopy
    <3>2. QED
      BY <3>1 DEF NoneIsNoObject
  <2>5. /\ \A e \in Experiments : e # w.e => stored'[e] = stored[e]
        /\ stored'[w.e] = new
    BY <1>1, <2>3
  <2>6. QED
    BY <1>0, <1>2, <1>3, <1>5, <2>4, <2>5 DEF Reports
<1>6. QED
  BY <1>4, <1>5

\* The worker sees nothing of it.
LEMMA StayFollow ==
  ASSUME Ground, w' = w
  PROVE  /\ w'.pc = w.pc /\ w'.e = w.e
         /\ w.pc \notin OffPcs =>
              /\ Follows(w, w') /\ Agrees(w, w')
              /\ w'.inst.status.winner = w.inst.status.winner
              /\ w'.statusUpdate = w.statusUpdate
<1>1. w.pc \notin OffPcs => DOMAIN w = WorkerFields /\ IsCopy(w.inst)
  BY HerePeace
<1>2. QED
  BY <1>1 DEF Follows, Continues, Agrees

LEMMA AsideBeside ==
  ASSUME Ground, w' = w, stored' = stored, exists \subseteq exists', UNCHANGED ruleVars
  PROVE  Beside
<1>1. \A e \in Experiments :
        \/ stored'[e] = None /\ stored[e] = None
        \/ /\ stored[e] # None /\ stored'[e] # None
           /\ LooksLike(stored[e], stored'[e])
           /\ stored'[e].status.winner = stored[e].status.winner
  BY DEF LooksLike
<1>2. QED
  BY <1>1, StayFollow DEF Beside

LEMMA QueuesBeside ==
  ASSUME Ground,
         \/ \E e \in Experiments : Deliver(e) \/ TimerFires(e)
         \/ \E t \in Targets : HandleTargetEvent(t) \/ EnqueueOwner(t) \/ UserCreatesTarget(t)
         \/ UNCHANGED vars
  PROVE  Beside
<1>1. w' = w /\ stored' = stored /\ exists \subseteq exists' /\ UNCHANGED ruleVars
  <2>1. ASSUME \E e \in Experiments : Deliver(e) \/ TimerFires(e)
        PROVE  w' = w /\ stored' = stored /\ exists \subseteq exists' /\ UNCHANGED ruleVars
    BY <2>1 DEF Deliver, TimerFires, apiVars, targetVars
  <2>2. ASSUME \E t \in Targets : HandleTargetEvent(t) \/ EnqueueOwner(t) \/ UserCreatesTarget(t)
        PROVE  w' = w /\ stored' = stored /\ exists \subseteq exists' /\ UNCHANGED ruleVars
    BY <2>2 DEF HandleTargetEvent, EnqueueOwner, UserCreatesTarget, apiVars, targetVars
  <2>3. ASSUME UNCHANGED vars
        PROVE  w' = w /\ stored' = stored /\ exists \subseteq exists' /\ UNCHANGED ruleVars
    BY <2>3 DEF vars, apiVars, targetVars
  <2>4. QED
    BY <2>1, <2>2, <2>3
<1>2. QED
  BY <1>1, AsideBeside

LEMMA UserCreatesBeside ==
  ASSUME Ground, NEW e \in Experiments, UserCreates(e)
  PROVE  Beside
<1>1. /\ stored[e] = None /\ DOMAIN stored = Experiments
      /\ w.pc # "idle" => DOMAIN w = WorkerFields
  BY DEF UserCreates, Ground, ServedInv, IInv, ObjectsInv, WorkerInv
<1>2. ~(w.e = e /\ w.pc \notin OffPcs)
  BY <1>1, HerePeace
<1>3. /\ stored' = [stored EXCEPT ![e] = NewObject(e)] /\ UNCHANGED ruleVars /\ exists' = exists
      /\ w' = IF w.e = e THEN [w EXCEPT !.fresh = FALSE] ELSE w
  BY DEF UserCreates, Edit, Store, targetVars
<1>4. stored'[e] = NewObject(e) /\ \A f \in Experiments \ {e} : stored'[f] = stored[f]
  BY <1>1, <1>3
<1>5. w'.pc = w.pc /\ w'.e = w.e
  <2>1. DOMAIN w = WorkerFields
    BY DEF Ground, ServedInv, IInv, WorkerInv
  <2>2. QED
    BY <1>3, <2>1 DEF WorkerFields
<1>6. w.pc \notin OffPcs => w' = w
  BY <1>2, <1>3
<1>7. \A f \in Experiments :
        \/ stored'[f] = None /\ stored[f] = None
        \/ stored[f] = None /\ stored'[f] = NewObject(f) /\ ~(w.e = f /\ w.pc \notin OffPcs)
        \/ /\ stored[f] # None /\ stored'[f] # None
           /\ LooksLike(stored[f], stored'[f])
           /\ stored'[f].status.winner = stored[f].status.winner
  <2>1. TAKE f \in Experiments
  <2>2. CASE f = e
    BY <1>1, <1>2, <1>4, <2>2
  <2>3. CASE f # e
    <3>1. stored'[f] = stored[f]
      BY <1>4, <2>3
    <3>2. QED
      BY <3>1 DEF LooksLike
  <2>4. QED
    BY <2>2, <2>3
<1>8. QED
  BY <1>3, <1>5, <1>6, <1>7, StayFollow DEF Beside

\* A time stamp that is older looks the same.
LEMMA AgedLooks ==
  ASSUME NEW o, IsCopy(o)
  PROVE  LET p == [o EXCEPT !.status.lastUpdate = "past"] IN
         /\ IsCopy(p) /\ LooksLike(o, p) /\ p.status.winner = o.status.winner
         /\ p.spec = o.spec
  BY DEF IsCopy, LooksLike, ObjectFields, StatusFields

LEMMA AgesBeside ==
  ASSUME NoneIsNoObject, Ground, NEW e \in Experiments, IntervalElapses(e)
  PROVE  Beside
<1> DEFINE Age(o) == IF o # None /\ o.status.lastUpdate = "recent"
                       THEN [o EXCEPT !.status.lastUpdate = "past"] ELSE o
<1>1. /\ stored' = [stored EXCEPT ![e] = Age(@)] /\ UNCHANGED ruleVars /\ exists' = exists
      /\ w' = IF w.e = e THEN [w EXCEPT !.inst = Age(@)] ELSE w
  BY DEF IntervalElapses, targetVars
<1>2. DOMAIN stored = Experiments /\ DOMAIN w = WorkerFields
      /\ (stored[e] # None => IsCopy(stored[e]))
  BY DEF Ground, ServedInv, IInv, ObjectsInv, Sound, WorkerInv
<1>3. \A o : Age(o) = o \/ (o # None /\ Age(o) = [o EXCEPT !.status.lastUpdate = "past"])
  OBVIOUS
<1>4. ASSUME NEW o, o # None, IsCopy(o)
      PROVE  /\ Age(o) # None /\ IsCopy(Age(o)) /\ LooksLike(o, Age(o))
             /\ Age(o).status.winner = o.status.winner /\ Age(o).spec = o.spec
  <2>1. CASE Age(o) = o
    BY <1>4, <2>1 DEF LooksLike
  <2>2. CASE Age(o) = [o EXCEPT !.status.lastUpdate = "past"]
    <3>1. DOMAIN Age(o) = ObjectFields
      BY <1>4, <2>2 DEF IsCopy
    <3>2. Age(o) # None
      BY <3>1 DEF NoneIsNoObject
    <3>3. QED
      BY <1>4, <2>2, <3>2, AgedLooks
  <2>3. QED
    BY <1>3, <1>4, <2>1, <2>2
<1>5. Age(None) = None
  OBVIOUS
<1> HIDE DEF Age
<1>6. stored'[e] = Age(stored[e]) /\ \A f \in Experiments \ {e} : stored'[f] = stored[f]
  BY <1>1, <1>2
<1>7. \A f \in Experiments :
        \/ stored'[f] = None /\ stored[f] = None
        \/ /\ stored[f] # None /\ stored'[f] # None
           /\ LooksLike(stored[f], stored'[f])
           /\ stored'[f].status.winner = stored[f].status.winner
  <2>1. TAKE f \in Experiments
  <2>2. CASE stored'[f] = stored[f]
    BY <2>2 DEF LooksLike
  <2>3. CASE f = e /\ stored[e] # None
    BY <1>2, <1>4, <1>6, <2>3
  <2>4. QED
    BY <1>5, <1>6, <2>2, <2>3
<1>8. CASE w.e = e /\ w.pc \notin OffPcs
  <2> DEFINE y == [w EXCEPT !.inst = Age(@)]
  <2>1. IsCopy(w.inst)
    BY <1>8, HerePeace
  <2>2. w.inst # None
    BY <2>1 DEF IsCopy, NoneIsNoObject
  <2>3. /\ DOMAIN y = WorkerFields /\ y.inst = Age(w.inst) /\ y.pc = w.pc /\ y.e = w.e
        /\ y.fresh = w.fresh /\ y.terminate = w.terminate /\ y.refresh = w.refresh
        /\ y.statusUpdate = w.statusUpdate
    BY <1>2 DEF WorkerFields
  <2>4. w' = y
    BY <1>1, <1>8
  <2> HIDE DEF y
  <2>5. IsCopy(y.inst) /\ LooksLike(w.inst, y.inst) /\ y.inst.status.winner = w.inst.status.winner
        /\ y.inst.spec = w.inst.spec
    BY <1>4, <2>1, <2>2, <2>3
  <2>6. Follows(w, w') /\ Agrees(w, w')
    BY <2>3, <2>4, <2>5 DEF Follows, Continues, Agrees, LooksLike
  <2>7. QED
    BY <1>1, <1>7, <2>3, <2>4, <2>5, <2>6 DEF Beside
<1>9. CASE w.e = e /\ w.pc \in OffPcs
  <2>1. w' = [w EXCEPT !.inst = Age(@)]
    BY <1>1, <1>9
  <2>2. w'.pc = w.pc /\ w'.e = w.e
    BY <1>2, <2>1 DEF WorkerFields
  <2>3. QED
    BY <1>1, <1>7, <1>9, <2>2 DEF Beside
<1>10. CASE w.e # e
  <2>1. w' = w
    BY <1>1, <1>10
  <2>2. QED
    BY <1>1, <1>7, <2>1, StayFollow DEF Beside
<1>11. QED
  BY <1>8, <1>9, <1>10

(***************************************************************************)
(* Every step of such a run is of one of these kinds.                      *)
(***************************************************************************)
LEMMA StepIsKind ==
  ASSUME Peace, NoneIsNoObject, Ground, [Next]_vars
  PROVE  Kinds
<1>1. ASSUME NEW e \in Experiments, Fetch(e) \/ Deliver(e) \/ IntervalElapses(e) \/ TimerFires(e)
      PROVE  Kinds
  BY <1>1, FetchTakes, QueuesBeside, AgesBeside DEF Kinds
<1>2. ASSUME NEW t \in Targets, HandleTargetEvent(t) \/ EnqueueOwner(t)
      PROVE  Kinds
  BY <1>2, QueuesBeside DEF Kinds
<1>3. ASSUME Reconcile
      PROVE  Kinds
  <2>1. CASE NotFound \/ SaveInitStatus \/ AddFinalizer \/ StartFinalize \/ SkipCompleted
             \/ Reject \/ Begin \/ SavePause \/ SaveResume \/ MetricsUnreadable \/ SyncMetrics
    BY <2>1, NeverHere, EarlyRests, SaveInitStatusReads, AddFinalizerReads, RejectGivesUp,
       BeginReads, SyncMetricsReads DEF Kinds
  <2>2. CASE UseRules \/ RefuseRules \/ DetectTargets \/ MissingCandidate
    BY <2>2, UseRulesReads, RefuseRulesGivesUp, DetectTargetsDecides, MissingCandidateGivesUp
    DEF Kinds
  <2>3. CASE UpdateBaselineDR \/ UpdateBaselineVS \/ UpdateCandidatesDR \/ UpdateCandidatesVS
    BY <2>3, UpdateBaselineLays, UpdateCandidatesOpens DEF Kinds
  <2>4. CASE IterateWithoutCriteria \/ AnalyticsFails \/ SplitWithoutRules \/ UpdateTrafficSplit
    BY <2>4, NeverHere, IterateCounts, SplitSplits DEF Kinds
  <2>5. CASE \E r \in Responses : Abort(r) \/ FollowRecommendation(r)
    BY <2>5, AbortAborts, AnswerCounts DEF Kinds
  <2>6. CASE Complete \/ CleanupTargets \/ CleanupDR \/ CleanupVS \/ End \/ Unfinalize
    BY <2>6, NeverHere, CompleteCompletes, CleanupTargetsCleans, CleanupDRCleans,
       CleanupVSCleans, EndReports DEF Kinds
  <2>7. QED
    BY <1>3, <2>1, <2>2, <2>3, <2>4, <2>5, <2>6 DEF Reconcile
<1>4. ASSUME Environment
      PROVE  Kinds
  <2>1. CASE \E e \in Experiments :
               \/ UserCreates(e) \/ UserDeletes(e)
               \/ \E o \in UserOverrides : UserOverridesTo(e, o)
    BY <2>1, NeverHere, UserCreatesBeside DEF Kinds
  <2>2. CASE (\E t \in Targets : UserCreatesTarget(t) \/ UserDeletesTarget(t)) \/ Crash
    BY <2>2, NeverHere, QueuesBeside DEF Kinds
  <2>3. QED
    BY <1>4, <2>1, <2>2 DEF Environment
<1>5. ASSUME UNCHANGED vars
      PROVE  Kinds
  BY <1>5, QueuesBeside DEF Kinds
<1>6. QED
  BY <1>1, <1>2, <1>3, <1>4, <1>5 DEF Next

-----------------------------------------------------------------------------
(* Nothing is used up, and the objects stay as they were created but for   *)
(* their status.                                                           *)

LEMMA SpentKept ==
  ASSUME Peace, Ground, [Next]_vars
  PROVE  Spent'
<1>0. Spent /\ Quota /\ DOMAIN budget = BudgetFields
  BY DEF Ground, PeaceInv, Spent, ServedInv, IInv, ObjectsInv
<1>1. SUFFICES ASSUME ~UNCHANGED budget
               PROVE  Spent'
  BY <1>0 DEF Spent, Quota
<1>2. ASSUME NEW e \in Experiments, Fetch(e) \/ Deliver(e) \/ IntervalElapses(e) \/ TimerFires(e)
      PROVE  Spent'
  BY <1>1, <1>2 DEF Fetch, Deliver, IntervalElapses, TimerFires
<1>3. ASSUME NEW t \in Targets, HandleTargetEvent(t) \/ EnqueueOwner(t)
      PROVE  Spent'
  BY <1>1, <1>3 DEF HandleTargetEvent, EnqueueOwner
<1>4. ASSUME Reconcile
      PROVE  Spent'
  <2>1. CASE NotFound \/ StartFinalize \/ SkipCompleted \/ Reject \/ Begin
    BY <1>1, <2>1 DEF NotFound, StartFinalize, SkipCompleted, Reject, Begin
  <2>2. CASE SavePause \/ SaveResume \/ MetricsUnreadable \/ AnalyticsFails \/ SplitWithoutRules
             \/ Unfinalize
    BY <2>2, NeverHere
  <2>3. CASE SaveInitStatus
    <3>1. \E outcome \in Outcomes : Spend(outcome)
      BY <2>3 DEF SaveInitStatus
    <3>2. w.pc \notin OffPcs
      BY <2>3 DEF SaveInitStatus, At, OffPcs
    <3>3. QED
      BY <1>1, <3>1, <3>2, Accepted
  <2>4. CASE AddFinalizer \/ SyncMetrics
    <3>1. \E outcome \in Outcomes : Spend(outcome)
      BY <2>4 DEF AddFinalizer, SyncMetrics, Update
    <3>2. w.pc \notin OffPcs
      BY <2>4 DEF AddFinalizer, SyncMetrics, At, OffPcs
    <3>3. QED
      BY <1>1, <3>1, <3>2, Accepted
  <2>5. CASE UseRules \/ DetectTargets \/ MissingCandidate \/ Complete
             \/ IterateWithoutCriteria \/ \E r \in Responses : Abort(r) \/ FollowRecommendation(r)
    BY <1>1, <2>5 DEF UseRules, DetectTargets, MissingCandidate, Complete, IterateWithoutCriteria,
       Abort, FollowRecommendation
  <2>6. CASE RefuseRules \/ UpdateBaselineDR \/ UpdateBaselineVS
             \/ UpdateCandidatesDR \/ UpdateCandidatesVS \/ UpdateTrafficSplit \/ CleanupVS
    <3>1. \E ok \in BOOLEAN : MayFail(ok)
      BY <2>6 DEF RefuseRules, UpdateBaselineDR, UpdateBaselineVS, UpdateCandidatesDR,
         UpdateCandidatesVS, UpdateTrafficSplit, CleanupVS, WriteDR, WriteVS
    <3>2. QED
      BY <1>0, <1>1, <3>1, NothingFails
  <2>7. CASE CleanupDR
    <3>1. UNCHANGED budget \/ \E ok \in BOOLEAN : MayFail(ok)
      BY <2>7 DEF CleanupDR
    <3>2. QED
      BY <1>0, <1>1, <3>1, NothingFails
  <2>8. CASE CleanupTargets
    <3>1. PICK delete, failed : /\ failed \in SUBSET (delete \cap exists)
                                /\ delete = {Deployment(SpecAt(w), v) : v \in Versions(SpecAt(w)) \ KeptHere}
                                              \ {Deployment(SpecAt(w), v) : v \in KeptHere}
                                /\ Cardinality(failed) <= budget.failures
                                /\ budget' = [budget EXCEPT !.failures = @ - Cardinality(failed)]
      BY <2>8 DEF CleanupTargets, KeptHere
    <3>2. IsFiniteSet(failed)
      <4>1. w.e \in Experiments
        BY <2>8, NeverHere, HerePeace DEF CleanupTargets, OffPcs
      <4>2. Len(SpecAt(w).candidates) \in Nat
        BY <4>1, SpecNumbers DEF SpecAt
      <4>3. IsFiniteSet(Versions(SpecAt(w)))
        BY <4>2, FS_Interval DEF Versions
      <4>4. IsFiniteSet({Deployment(SpecAt(w), v) : v \in Versions(SpecAt(w))})
        <5> DEFINE S == Versions(SpecAt(w))
                   T == {Deployment(SpecAt(w), v) : v \in S}
                   f == [v \in S |-> Deployment(SpecAt(w), v)]
        <5>1. f \in Surjection(S, T)
          BY DEF Surjection
        <5>2. QED
          BY <4>3, <5>1, FS_Surjection
      <4>5. failed \subseteq {Deployment(SpecAt(w), v) : v \in Versions(SpecAt(w))}
        BY <3>1
      <4>6. QED
        BY <4>4, <4>5, FS_Subset
    <3>3. Cardinality(failed) \in Nat
      BY <3>2, FS_CardinalityType
    <3>4. budget'.failures = 0
      BY <1>0, <3>1, <3>3 DEF Spent, Quota, BudgetFields
    <3>5. QED
      BY <1>0, <3>1, <3>4 DEF Spent, Quota, BudgetFields
  <2>9. CASE End
    <3>1. UNCHANGED budget \/ \E outcome \in Outcomes : Spend(outcome)
      BY <2>9 DEF End, UpdateStatus
    <3>2. w.pc \notin OffPcs
      BY <2>9 DEF End, At, OffPcs
    <3>3. QED
      BY <1>1, <3>1, <3>2, Accepted
  <2>10. QED
    BY <1>4, <2>1, <2>2, <2>3, <2>4, <2>5, <2>6, <2>7, <2>8, <2>9 DEF Reconcile
<1>5. ASSUME Environment
      PROVE  Spent'
  <2>1. CASE \E e \in Experiments : UserCreates(e)
    BY <1>0, <2>1 DEF UserCreates, Spent, Quota, BudgetFields
  <2>2. CASE \E t \in Targets : UserCreatesTarget(t)
    BY <1>0, <2>2 DEF UserCreatesTarget, Spent, Quota, BudgetFields
  <2>3. QED
    BY <1>5, <2>1, <2>2, NeverHere DEF Environment
<1>6. QED
  BY <1>1, <1>2, <1>3, <1>4, <1>5 DEF Next, vars

LEMMA UntouchedLooks ==
  ASSUME NEW e, NEW o, NEW p, Untouched(e, o), LooksLike(o, p)
  PROVE  Untouched(e, p)
  BY DEF Untouched, LooksLike

\* The kinds that leave the looks of the objects alone.
SightKinds ==
  \/ Takes \/ Rests \/ Reads \/ Looks \/ Finds \/ GivesUp
  \/ LaysDR \/ LaysVS \/ OpensDR \/ OpensVS
  \/ Weighs \/ Misses \/ Counts \/ Aborts \/ Splits
  \/ Completes \/ CleansTargets \/ CleansDR \/ CleansVS
LEMMA SightKept ==
  /\ SightKinds => SameSight
  /\ Kinds => SightKinds \/ Reports \/ Beside
<1>1. SightKinds => SameSight
  BY DEF SightKinds, Takes, Rests, Reads, Looks, Finds, GivesUp, LaysDR, LaysVS, OpensDR, OpensVS,
     Weighs, Misses, Counts, Aborts, Splits, Completes, CleansTargets, CleansDR, CleansVS, Still,
     PutsHere
<1>2. QED
  BY <1>1 DEF Kinds, SightKinds

\* What a report leaves of the object.
LEMMA ReportLeaves ==
  ASSUME Ground, Reports, w.statusUpdate
  PROVE  /\ w.e \in Experiments /\ stored'[w.e] # None /\ Untouched(w.e, stored'[w.e])
         /\ stored'[w.e].status = w.inst.status
         /\ stored'[w.e].spec = stored[w.e].spec
<1>1. w.pc = "end" /\ w.pc \notin OffPcs
  BY DEF Reports, OffPcs
<1>2. /\ w.e \in Experiments /\ IsCopy(stored[w.e]) /\ Untouched(w.e, stored[w.e])
      /\ IsCopy(w.inst) /\ DOMAIN w.inst.status.weights = Versions(SpecOf[w.e])
  BY <1>1, HerePeace DEF AtPeace
<1>3. stored'[w.e] = [stored[w.e] EXCEPT !.status = w.inst.status] /\ stored'[w.e] # None
  BY DEF Reports
<1>4. /\ stored'[w.e].status = w.inst.status /\ stored'[w.e].spec = stored[w.e].spec
      /\ stored'[w.e].deleting = stored[w.e].deleting
  BY <1>2, <1>3 DEF IsCopy, ObjectFields
<1>5. QED
  BY <1>2, <1>3, <1>4 DEF Untouched

\* Objects exist for good.
LEMMA ObjectsStay ==
  ASSUME Ground, Kinds
  PROVE  \A e \in Experiments : stored[e] # None => stored'[e] # None
  BY SightKept DEF SameSight, Reports, Beside

LEMMA ObjectsPeace ==
  ASSUME Ground, Kinds
  PROVE  ObjectsUntouched'
<1>0. ObjectsUntouched
  BY DEF Ground, PeaceInv
<1>1. CASE SameSight
  BY <1>0, <1>1, UntouchedLooks DEF ObjectsUntouched, SameSight
<1>2. CASE Reports
  <2>1. CASE SameSight
    BY <1>1, <2>1
  <2>2. CASE w.statusUpdate
    <3>1. \A e \in Experiments : e # w.e => stored'[e] = stored[e]
      BY <1>2, <2>2 DEF Reports, SameSight
    <3>2. Untouched(w.e, stored'[w.e])
      BY <1>2, <2>2, ReportLeaves
    <3>3. QED
      BY <1>0, <3>1, <3>2 DEF ObjectsUntouched
  <2>3. QED
    BY <1>2, <2>1, <2>2 DEF Reports
<1>3. CASE Beside
  <2>1. \A e \in Experiments : Untouched(e, NewObject(e))
    BY DEF Untouched, NewObject
  <2>2. QED
    BY <1>0, <1>3, <2>1, UntouchedLooks DEF ObjectsUntouched, Beside
<1>4. QED
  BY <1>1, <1>2, <1>3, SightKept

-----------------------------------------------------------------------------
(* The copy stays the stored version.                                      *)

LEMMA OnPeace ==
  ASSUME Ground, Kinds, w.pc \notin OffPcs, Continues(w, w'),
         w'.pc \notin {"pauseSave", "resumeSave", "abandonTargets", "unfinalize"},
         w.pc \in LatePcs => w'.pc \in LatePcs,
         w'.pc = "cleanupTargets" => SpecAt(w).cleanup,
         DOMAIN w'.inst.status.weights = Versions(SpecAt(w))
  PROVE  AtPeace(w)'
<1>1. w.e \in Experiments /\ AtPeace(w) /\ stored[w.e] # None
  BY HerePeace
<1>2. stored'[w.e] # None
  BY <1>1, ObjectsStay
<1>3. w'.e = w.e /\ stored'[w'.e] # None /\ SpecAt(w') = SpecAt(w)
  BY <1>2 DEF Continues, SpecAt
<1>4. Untouched(w.e, w.inst) => Untouched(w'.e, w'.inst)
  BY <1>3 DEF Untouched, Continues, SpecAt
<1>5. Aborted(w.inst) => Aborted(w'.inst)
  BY DEF Aborted, Continues
<1>6. QED
  BY <1>1, <1>3, <1>4, <1>5 DEF AtPeace, Continues, SpecAt

\* The weights an iteration leaves are those of the versions.
LEMMA WeightsOfVersions ==
  ASSUME Ground, w.pc \notin OffPcs
  PROVE  /\ DOMAIN w.inst.status.weights = Versions(SpecAt(w))
         /\ \A k : DOMAIN Shared(SpecAt(w), k) = Versions(SpecAt(w))
         /\ \A r, k : DOMAIN Taken(SpecAt(w), r, k) = Versions(SpecAt(w))
<1>1. DOMAIN w.inst.status.weights = Versions(SpecAt(w))
  BY HerePeace DEF AtPeace, SpecAt
<1>2. QED
  BY <1>1 DEF Shared, Taken

OnKinds ==
  \/ Reads \/ Looks \/ Finds \/ GivesUp
  \/ LaysDR \/ LaysVS \/ OpensDR \/ OpensVS
  \/ Weighs \/ Misses \/ Counts \/ Splits
  \/ Completes \/ CleansTargets \/ CleansDR \/ CleansVS
LEMMA OnKindsGo ==
  ASSUME Ground, OnKinds
  PROVE  /\ w.pc \notin OffPcs /\ w'.pc \notin OffPcs /\ Continues(w, w')
         /\ w'.pc \notin {"pauseSave", "resumeSave", "abandonTargets", "unfinalize"}
         /\ w.pc \in LatePcs => w'.pc \in LatePcs
         /\ w'.pc = "cleanupTargets" => SpecAt(w).cleanup
         /\ DOMAIN w'.inst.status.weights = Versions(SpecAt(w))
<1> USE DEF OffPcs, LatePcs
<1>1. CASE Reads \/ Looks \/ Finds \/ GivesUp
  BY <1>1, WeightsOfVersions DEF Reads, Looks, Finds, GivesUp, Follows, BeforePcs
<1>2. CASE LaysDR \/ OpensDR \/ OpensVS
  BY <1>2, WeightsOfVersions DEF LaysDR, OpensDR, OpensVS, Follows
<1>3. CASE LaysVS
  BY <1>3, WeightsOfVersions DEF LaysVS
<1>4. CASE Weighs
  BY <1>4, WeightsOfVersions DEF Weighs
<1>5. CASE Misses
  BY <1>5, WeightsOfVersions DEF Misses
<1>6. CASE Counts \/ Splits
  BY <1>6, WeightsOfVersions DEF Counts, Splits, Follows
<1>7. CASE Completes \/ CleansTargets \/ CleansDR \/ CleansVS
  BY <1>7, WeightsOfVersions DEF Completes, CleansTargets, CleansDR, CleansVS, Follows
<1>8. QED
  BY <1>1, <1>2, <1>3, <1>4, <1>5, <1>6, <1>7 DEF OnKinds

LEMMA WorkerPeace ==
  ASSUME Ground, Kinds, w'.pc \notin OffPcs
  PROVE  AtPeace(w)'
<1>1. CASE OnKinds
  BY <1>1, OnKindsGo, OnPeace
<1>2. CASE Takes
  <2>1. PICK e \in Experiments :
          /\ w'.e = e /\ w'.pc \in OpenPcs /\ stored[e] # None /\ w'.inst = stored[e]
          /\ w'.fresh /\ ~w'.terminate /\ ~w'.refresh
    BY <1>2 DEF Takes, OffPcs
  <2>2. stored'[e] # None
    BY <2>1, ObjectsStay
  <2>3. Untouched(e, stored[e])
    BY <2>1 DEF Ground, PeaceInv, ObjectsUntouched
  <2>4. QED
    BY <2>1, <2>2, <2>3 DEF AtPeace, OpenPcs, Untouched
<1>3. CASE Rests \/ Reports
  BY <1>3 DEF Rests, Reports, Idle, OffPcs
<1>4. CASE Aborts
  <2>1. w.e \in Experiments /\ AtPeace(w) /\ stored[w.e] # None
    BY <1>4, HerePeace DEF Aborts, OffPcs
  <2>2. stored'[w.e] # None
    BY <2>1, ObjectsStay
  <2>3. QED
    BY <1>4, <2>1, <2>2 DEF Aborts, AtPeace, LatePcs
<1>5. CASE Beside
  <2>1. w.pc \notin OffPcs /\ Follows(w, w') /\ w'.pc = w.pc
    BY <1>5 DEF Beside
  <2>2. AtPeace(w)
    BY <2>1, HerePeace
  <2>3. QED
    BY <2>1, <2>2, OnPeace, WeightsOfVersions DEF Follows, AtPeace
<1>6. QED
  BY <1>1, <1>2, <1>3, <1>4, <1>5 DEF Kinds, OnKinds

-----------------------------------------------------------------------------
(* Who has given back its targets.                                         *)

LEMMA SightCompleted ==
  ASSUME SameSight
  PROVE  \A e \in Experiments : Completed(e)' <=> Completed(e)
  BY DEF SameSight, LooksLike, Completed

\* At the end of a request the object is not completed yet.
LEMMA EndsUncompleted ==
  ASSUME Ground, w.pc = "end"
  PROVE  ~Completed(w.e)
<1>1. w.e \in Experiments /\ stored[w.e] # None /\ w.fresh
  BY HerePeace DEF OffPcs
<1>2. Sound(w.e, stored[w.e]) /\ StoredActive(w, stored[w.e])
  BY <1>1 DEF Ground, ServedInv, IInv, ObjectsInv, WorkerInv, Ended, Saves
<1>3. QED
  BY <1>2 DEF Sound, StoredActive, Completed

Leaves == w.pc = "complete" /\ w'.pc # "complete"
LEMMA OverKept ==
  ASSUME Ground, Kinds, NEW e \in Experiments
  PROVE  /\ Over(e) => Over(e)'
         /\ Over(e)' => Over(e) \/ (e = w.e /\ Leaves)
<1> USE DEF CleanupPcs
<1>1. CASE OnKinds \/ Aborts
  <2>1. SameSight
    BY <1>1, SightKept DEF OnKinds, SightKinds
  <2>2. w'.e = w.e
    BY <1>1, OnKindsGo DEF Continues, Aborts
  <2>3. Completed(e)' <=> Completed(e)
    BY <2>1, SightCompleted
  <2>4. CASE Reads \/ Looks \/ Finds \/ GivesUp
    BY <2>2, <2>3, <2>4 DEF Reads, Looks, Finds, GivesUp, Over, BeforePcs
  <2>5. CASE LaysDR \/ LaysVS \/ OpensDR \/ OpensVS
    BY <2>2, <2>3, <2>5 DEF LaysDR, LaysVS, OpensDR, OpensVS, Over
  <2>6. CASE Weighs \/ Misses \/ Counts \/ Aborts \/ Splits
    <3>1. w.pc \in WorkPcs
      BY <2>6 DEF Weighs, Misses, Counts, Aborts, Splits, WorkPcs
    <3>2. ~w.inst.status.completed
      BY <3>1, HereWorks
    <3>3. QED
      BY <2>2, <2>3, <2>6, <3>2 DEF Weighs, Misses, Counts, Aborts, Splits, Over, Agrees
  <2>7. CASE Completes
    BY <2>2, <2>3, <2>7 DEF Completes, Over, Leaves
  <2>8. CASE CleansTargets \/ CleansDR \/ CleansVS
    BY <2>2, <2>3, <2>8 DEF CleansTargets, CleansDR, CleansVS, Over
  <2>9. QED
    BY <1>1, <2>4, <2>5, <2>6, <2>7, <2>8 DEF OnKinds
<1>2. CASE Takes
  <2>1. Completed(e)' <=> Completed(e)
    BY <1>2, SightCompleted DEF Takes, Still
  <2>2. w.pc = "idle" /\ w'.pc \in {"notFound"} \cup OpenPcs
    BY <1>2 DEF Takes
  <2>3. QED
    BY <2>1, <2>2 DEF Over, OpenPcs
<1>3. CASE Rests
  BY <1>3, SightCompleted DEF Rests, Still, Over, Idle
<1>4. CASE Reports
  <2>1. w.pc = "end" /\ w' = Idle
    BY <1>4 DEF Reports
  <2>2. ~Completed(w.e)
    BY <2>1, EndsUncompleted
  <2>3. w.inst.status.completed => w.statusUpdate
    BY <2>1, HerePeace DEF Runs, OffPcs
  <2>4. CASE SameSight /\ ~w.statusUpdate
    BY <2>1, <2>2, <2>3, <2>4, SightCompleted DEF Over, Idle
  <2>5. CASE w.statusUpdate
    <3>1. e = w.e => (Completed(e)' <=> w.inst.status.completed)
      BY <1>4, <2>5, ReportLeaves DEF Completed
    <3>2. e # w.e => (Completed(e)' <=> Completed(e))
      BY <1>4, <2>5 DEF Reports, Completed
    <3>3. QED
      BY <2>1, <2>2, <3>1, <3>2 DEF Over, Idle
  <2>6. QED
    BY <1>4, <2>4, <2>5 DEF Reports
<1>5. CASE Beside
  <2>1. Completed(e)' <=> Completed(e)
    <3>1. NewObject(e).status.completed = FALSE
      BY DEF NewObject
    <3>2. QED
      BY <1>5, <3>1 DEF Beside, LooksLike, Completed
  <2>2. /\ w'.pc = w.pc /\ w'.e = w.e
        /\ w.pc = "end" => w'.inst.status.completed = w.inst.status.completed
    BY <1>5 DEF Beside, Agrees, OffPcs
  <2>3. QED
    BY <2>1, <2>2 DEF Over
<1>6. QED
  BY <1>1, <1>2, <1>3, <1>4, <1>5 DEF Kinds, OnKinds

-----------------------------------------------------------------------------
(* What the cache holds, and which targets were lost.                      *)

\* Nothing is added to the cache, and the completion gives the targets back.
CacheShrinks ==
  /\ DOMAIN experimentAbstractStore' = Experiments
  /\ \A e \in Experiments :
       experimentAbstractStore'[e] \in {experimentAbstractStore[e], None}
  /\ Leaves => experimentAbstractStore'[w.e] = None

LEMMA ReconcileShrinks ==
  ASSUME Ground, Peace, Reconcile
  PROVE  CacheShrinks \/ Begin
<1>0. DOMAIN experimentAbstractStore = Experiments
  BY DEF Ground, PeaceInv
<1>1. ASSUME UNCHANGED cacheVars, w.pc # "complete"
      PROVE  CacheShrinks
  BY <1>0, <1>1 DEF cacheVars, CacheShrinks, Leaves
<1>2. CASE NotFound \/ SaveInitStatus \/ AddFinalizer \/ StartFinalize \/ SkipCompleted
           \/ SavePause \/ SaveResume \/ SyncMetrics
  BY <1>1, <1>2 DEF NotFound, SaveInitStatus, AddFinalizer, StartFinalize, SkipCompleted,
     SavePause, SaveResume, SyncMetrics, At
<1>3. CASE Reject
  <2>1. w.pc = "dispatch"
    BY <1>3 DEF Reject, ToReconcile, At
  <2>2. CASE Restart
    <3>1. experimentAbstractStore' = [e \in Experiments |-> None]
      BY <2>2 DEF Restart
    <3>2. QED
      BY <2>1, <3>1 DEF CacheShrinks, Leaves
  <2>3. CASE UNCHANGED cacheVars
    BY <1>1, <2>1, <2>3
  <2>4. QED
    BY <1>3, <2>2, <2>3 DEF Reject
<1>4. CASE RefuseRules \/ Complete
  <2>1. w.e \in Experiments
    BY <1>4, HerePeace DEF RefuseRules, Complete, At, OffPcs
  <2>2. Cache!RemoveExperiment(w.e)
    BY <1>4 DEF RefuseRules, Complete
  <2>3. CASE experimentAbstractStore[w.e] # None
    <3>1. experimentAbstractStore' = [experimentAbstractStore EXCEPT ![w.e] = None]
      BY <2>2, <2>3 DEF Cache!RemoveExperiment, Cache!Registered
    <3>2. QED
      BY <1>0, <2>1, <3>1 DEF CacheShrinks
  <2>4. CASE experimentAbstractStore[w.e] = None
    <3>1. experimentAbstractStore' = experimentAbstractStore
      BY <2>2, <2>4 DEF Cache!RemoveExperiment, Cache!Registered, Cache!cacheVars
    <3>2. experimentAbstractStore'[w.e] = None
      BY <2>4, <3>1
    <3>3. DOMAIN experimentAbstractStore' = Experiments
      BY <1>0, <3>1
    <3>4. QED
      BY <3>1, <3>2, <3>3 DEF CacheShrinks
  <2>5. QED
    BY <2>3, <2>4
<1>5. CASE UseRules \/ DetectTargets \/ MissingCandidate \/ UpdateBaselineDR \/ UpdateBaselineVS
           \/ UpdateCandidatesDR \/ UpdateCandidatesVS \/ IterateWithoutCriteria
           \/ UpdateTrafficSplit \/ \E r \in Responses : Abort(r) \/ FollowRecommendation(r)
  BY <1>1, <1>5 DEF UseRules, DetectTargets, MissingCandidate, UpdateBaselineDR, UpdateBaselineVS,
     UpdateCandidatesDR, UpdateCandidatesVS, IterateWithoutCriteria, UpdateTrafficSplit, Abort,
     FollowRecommendation, WriteDR, WriteVS, At
<1>6. CASE CleanupTargets
  BY <1>1, <1>6 DEF CleanupTargets
<1>7. CASE CleanupDR \/ CleanupVS \/ End
  <2>1. w.pc \in {"cleanupDR", "cleanupVS", "end"}
    BY <1>7 DEF CleanupDR, CleanupVS, End, At
  <2>2. ~w.inst.deleting
    BY <2>1, HerePeace DEF AtPeace, OffPcs
  <2>3. UNCHANGED cacheVars
    <3>1. CleanupFails => UNCHANGED cacheVars
      BY <2>2 DEF CleanupFails, Finalizing
    <3>2. QED
      BY <1>7, <2>2, <3>1 DEF CleanupDR, CleanupVS, End, Finalizing
  <2>4. QED
    BY <1>1, <2>1, <2>3
<1>8. CASE Begin \/ MetricsUnreadable \/ AnalyticsFails \/ SplitWithoutRules \/ Unfinalize
  BY <1>8, NeverHere
<1>9. QED
  BY <1>2, <1>3, <1>4, <1>5, <1>6, <1>7, <1>8 DEF Reconcile

LEMMA StepShrinks ==
  ASSUME Ground, Peace, [Next]_vars
  PROVE  CacheShrinks \/ Begin \/ \E t \in Targets : HandleTargetEvent(t)
<1>0. DOMAIN experimentAbstractStore = Experiments /\ DOMAIN w = WorkerFields
  BY DEF Ground, PeaceInv, ServedInv, IInv, WorkerInv
<1>1. ASSUME UNCHANGED cacheVars, w'.pc = w.pc \/ w.pc # "complete"
      PROVE  CacheShrinks
  BY <1>0, <1>1 DEF cacheVars, CacheShrinks, Leaves
<1>2. ASSUME NEW e \in Experiments, Fetch(e) \/ Deliver(e) \/ IntervalElapses(e) \/ TimerFires(e)
      PROVE  CacheShrinks
  <2>1. CASE Fetch(e)
    BY <1>1, <2>1 DEF Fetch, At
  <2>2. CASE Deliver(e) \/ TimerFires(e)
    BY <1>1, <2>2 DEF Deliver, TimerFires
  <2>3. CASE IntervalElapses(e)
    <3>1. w'.pc = w.pc
      BY <1>0, <2>3 DEF IntervalElapses, WorkerFields
    <3>2. QED
      BY <1>1, <2>3, <3>1 DEF IntervalElapses
  <2>4. QED
    BY <1>2, <2>1, <2>2, <2>3
<1>3. ASSUME NEW t \in Targets, EnqueueOwner(t)
      PROVE  CacheShrinks
  BY <1>1, <1>3 DEF EnqueueOwner
<1>4. ASSUME Environment
      PROVE  CacheShrinks
  <2>1. CASE \E e \in Experiments : UserCreates(e)
    <3>1. UNCHANGED cacheVars /\ w'.pc = w.pc
      BY <1>0, <2>1 DEF UserCreates, Edit, WorkerFields
    <3>2. QED
      BY <1>1, <3>1
  <2>2. CASE \E t \in Targets : UserCreatesTarget(t)
    BY <1>1, <2>2 DEF UserCreatesTarget
  <2>3. QED
    BY <1>4, <2>1, <2>2, NeverHere DEF Environment
<1>5. ASSUME UNCHANGED vars
      PROVE  CacheShrinks
  BY <1>1, <1>5 DEF vars
<1>6. QED
  BY <1>2, <1>3, <1>4, <1>5, ReconcileShrinks DEF Next

\* What is registered of an experiment are its targets.
LEMMA NewAbstracted ==
  ASSUME NEW e \in Experiments
  PROVE  Abstracted(e, Cache!NewExperiment(TargetSpec(e)))
<1> DEFINE ea == Cache!NewExperiment(TargetSpec(e))
<1>1. DOMAIN ea = AbstractFields /\ ea.action = "" /\ ea.service = SpecOf[e].service
  BY DEF Cache!NewExperiment, TargetSpec, AbstractFields
<1>2. \A d \in Deployments : ea.status[d] # "" =>
        d \in {SpecOf[e].baseline} \cup Range(SpecOf[e].candidates)
  BY DEF Cache!NewExperiment, Cache!NewTargets, TargetSpec
<1>3. Cache!DeploymentsOf(ea) \subseteq TargetsOf(e)
  BY <1>2 DEF Cache!DeploymentsOf, TargetsOf
<1>4. QED
  BY <1>1, <1>3 DEF Abstracted

LEMMA ClearAbstracted ==
  ASSUME NEW e, NEW ea, Abstracted(e, ea)
  PROVE  Abstracted(e, Cache!Clear(ea))
  BY DEF Abstracted, AbstractFields, Cache!Clear, Cache!DeploymentsOf

LEMMA BeginClaims ==
  ASSUME Ground, Begin
  PROVE  /\ DOMAIN experimentAbstractStore' = Experiments /\ w.e \in Experiments
         /\ \A e \in Experiments : e # w.e =>
              experimentAbstractStore'[e] = experimentAbstractStore[e]
         /\ Abstracted(w.e, experimentAbstractStore'[w.e])
         /\ ~Over(w.e) /\ ~Leaves
<1> DEFINE ea == Cache!CurrentAbstract(w.e, TargetSpec(w.e))
<1>1. w.pc = "dispatch" /\ w.pc \notin OffPcs /\ w.pc \in BeforePcs /\ ~w.inst.status.completed
  BY DEF Begin, ToReconcile, At, OffPcs, BeforePcs
<1>2. w.e \in Experiments /\ Runs(w) /\ DOMAIN experimentAbstractStore = Experiments
      /\ stored[w.e] # None
  BY <1>1, HerePeace DEF Ground, PeaceInv
<1>3. experimentAbstractStore' = [experimentAbstractStore EXCEPT ![w.e] = Cache!Clear(ea)]
  <2>1. ea.action # "terminate"
    BY <1>1, NoOrders DEF Begin
  <2>2. Cache!RegisterExperiment(w.e, TargetSpec(w.e))
    BY <2>1 DEF Begin
  <2>3. QED
    BY <2>2 DEF Cache!RegisterExperiment
<1>4. Abstracted(w.e, ea)
  <2>1. CASE Claimed(w.e)
    <3>1. Abstracted(w.e, experimentAbstractStore[w.e])
      BY <1>2, <2>1 DEF Ground, PeaceInv, ClaimsKnown
    <3>2. QED
      BY <2>1, <3>1 DEF Cache!CurrentAbstract, Cache!Registered, Claimed
  <2>2. CASE ~Claimed(w.e)
    BY <1>2, <2>2, NewAbstracted DEF Cache!CurrentAbstract, Cache!Registered, Claimed
  <2>3. QED
    BY <2>1, <2>2
<1>5. ~Over(w.e)
  BY <1>1, <1>2 DEF Over, Completed, CleanupPcs, Runs
<1> HIDE DEF ea
<1>6. Abstracted(w.e, experimentAbstractStore'[w.e])
  BY <1>2, <1>3, <1>4, ClearAbstracted
<1>7. QED
  BY <1>1, <1>2, <1>3, <1>5, <1>6 DEF Leaves

\* The mark of a target that appears; nobody owns one that was lost.
LEMMA MarkedAbstracted ==
  ASSUME NEW e, NEW ea, Abstracted(e, ea), NEW d
  PROVE  /\ Abstracted(e, Cache!MarkServiceFound(ea, TRUE))
         /\ Abstracted(e, Cache!MarkTargetFound(ea, d, TRUE))
  BY DEF Abstracted, AbstractFields, Cache!MarkServiceFound, Cache!MarkTargetFound,
     Cache!DeploymentsOf

LEMMA OwnersTarget ==
  ASSUME Ground, NEW t \in Targets, Cache!OwnerOf(t) # None, Cache!OwnerOf(t) \in Experiments
  PROVE  LET o == Cache!OwnerOf(t) IN Claimed(o) /\ t \in TargetsOf(o)
<1> DEFINE o == Cache!OwnerOf(t)
<1>1. Claimed(o) /\ (t \in Services => experimentAbstractStore[o].service = t)
      /\ (t \notin Services => t \in Cache!DeploymentsOf(experimentAbstractStore[o]))
  <2>1. CASE t \in Services
    BY <2>1 DEF Ground, Cache!LookupSound, Cache!OwnerOf, Cache!Registered, Claimed
  <2>2. CASE t \notin Services
    BY <2>2 DEF Ground, Cache!LookupSound, Cache!OwnerOf, Cache!Registered, Claimed, Targets
  <2>3. QED
    BY <2>1, <2>2
<1>2. Abstracted(o, experimentAbstractStore[o])
  BY <1>1 DEF Ground, PeaceInv, ClaimsKnown
<1>3. t \in TargetsOf(o)
  BY <1>1, <1>2 DEF Abstracted, TargetsOf
<1>4. QED
  BY <1>1, <1>3

\* Lookups may hold anything but name no experiment that does not exist.
LEMMA EventMarks ==
  ASSUME Ground, Peace, NEW t \in Targets, HandleTargetEvent(t)
  PROVE  /\ DOMAIN experimentAbstractStore' = Experiments /\ ~Leaves
         /\ \A e \in Experiments :
              \/ experimentAbstractStore'[e] = experimentAbstractStore[e]
              \/ Claimed(e) /\ Abstracted(e, experimentAbstractStore'[e])
<1> DEFINE o == Cache!OwnerOf(t)
           found == t \in exists
<1>1. DOMAIN experimentAbstractStore = Experiments /\ w' = w
  BY DEF Ground, PeaceInv, HandleTargetEvent
<1>2. CASE o = None \/ o \notin Experiments
  <2>1. /\ DOMAIN experimentAbstractStore' = Experiments
        /\ \A e \in Experiments : experimentAbstractStore'[e] = experimentAbstractStore[e]
    <3>1. CASE o = None
      BY <1>1, <1>2, <3>1 DEF HandleTargetEvent, cacheVars
    <3>2. CASE o # None
      <4>1. Cache!MarkTarget(t, found)
        BY <3>2 DEF HandleTargetEvent
      <4>2. PICK z : experimentAbstractStore' = [experimentAbstractStore EXCEPT ![o] = z]
        BY <4>1 DEF Cache!MarkTarget
      <4> HIDE DEF o
      <4>3. QED
        BY <1>1, <1>2, <3>2, <4>2
    <3>3. QED
      BY <1>1, <3>1, <3>2
  <2>2. QED
    BY <1>1, <2>1 DEF Leaves
<1>3. CASE o # None /\ o \in Experiments
  <2>1. Claimed(o) /\ t \in TargetsOf(o)
    BY <1>3, OwnersTarget
  <2>2. found
    <3> SUFFICES ASSUME ~found PROVE FALSE
      OBVIOUS
    <3>1. t \in announced \ exists
      BY DEF HandleTargetEvent
    <3>2. PICK f \in Experiments : SpecOf[f].cleanup /\ t \in TargetsOf(f) /\ Over(f)
      BY <3>1 DEF Ground, PeaceInv, LossesKnown
    <3>3. f # o
      BY <1>3, <2>1, <3>2 DEF Ground, PeaceInv, ClaimsKnown
    <3>4. QED
      BY <1>3, <2>1, <3>2, <3>3 DEF Peace
  <2>3. Cache!MarkTarget(t, TRUE)
    <3>1. Cache!MarkTarget(t, found)
      BY <1>3 DEF HandleTargetEvent
    <3>2. found = TRUE
      BY <2>2
    <3> HIDE DEF found
    <3>3. QED
      BY <3>1, <3>2
  <2> DEFINE ea == experimentAbstractStore[o]
             fa == IF t \in Services THEN Cache!MarkServiceFound(ea, TRUE)
                                     ELSE Cache!MarkTargetFound(ea, t, TRUE)
  <2>4. experimentAbstractStore' = [experimentAbstractStore EXCEPT ![o] = fa]
    BY <2>3 DEF Cache!MarkTarget
  <2>5. Abstracted(o, fa)
    <3>1. Abstracted(o, ea)
      BY <1>3, <2>1 DEF Ground, PeaceInv, ClaimsKnown
    <3>2. QED
      BY <3>1, MarkedAbstracted
  <2> HIDE DEF fa, o
  <2>6. QED
    BY <1>1, <1>3, <2>1, <2>4, <2>5 DEF Leaves
<1>4. QED
  BY <1>2, <1>3

LEMMA ClaimsPeace ==
  ASSUME Ground, Peace, Kinds, [Next]_vars
  PROVE  DOMAIN experimentAbstractStore' = Experiments /\ ClaimsKnown'
<1>1. ClaimsKnown
  BY DEF Ground, PeaceInv
<1>2. CASE CacheShrinks
  <2>1. ASSUME NEW e \in Experiments, Claimed(e)'
        PROVE  ~Over(e)' /\ Abstracted(e, experimentAbstractStore'[e])
    <3>1. experimentAbstractStore'[e] = experimentAbstractStore[e] /\ Claimed(e)
      BY <1>2, <2>1 DEF CacheShrinks, Claimed
    <3>2. ~(e = w.e /\ Leaves)
      BY <1>2, <2>1 DEF CacheShrinks, Claimed
    <3>3. QED
      BY <1>1, <3>1, <3>2, OverKept DEF ClaimsKnown
  <2>2. QED
    BY <1>2, <2>1 DEF CacheShrinks, ClaimsKnown, Abstracted
<1>3. CASE Begin
  <2>1. ASSUME NEW e \in Experiments, Claimed(e)'
        PROVE  ~Over(e)' /\ Abstracted(e, experimentAbstractStore'[e])
    <3>1. CASE e = w.e
      BY <1>3, <3>1, BeginClaims, OverKept
    <3>2. CASE e # w.e
      <4>1. experimentAbstractStore'[e] = experimentAbstractStore[e] /\ Claimed(e)
        BY <1>3, <2>1, <3>2, BeginClaims DEF Claimed
      <4>2. QED
        BY <1>1, <3>2, <4>1, OverKept DEF ClaimsKnown
    <3>3. QED
      BY <3>1, <3>2
  <2>2. QED
    BY <1>3, <2>1, BeginClaims DEF ClaimsKnown, Abstracted
<1>4. CASE \E t \in Targets : HandleTargetEvent(t)
  <2>1. PICK t \in Targets : HandleTargetEvent(t)
    BY <1>4
  <2>2. ASSUME NEW e \in Experiments, Claimed(e)'
        PROVE  ~Over(e)' /\ Abstracted(e, experimentAbstractStore'[e])
    <3>1. Claimed(e) /\ Abstracted(e, experimentAbstractStore'[e])
      BY <1>1, <2>1, <2>2, EventMarks DEF Claimed, ClaimsKnown
    <3>2. QED
      BY <1>1, <2>1, <3>1, EventMarks, OverKept DEF ClaimsKnown
  <2>3. QED
    BY <2>1, <2>2, EventMarks DEF ClaimsKnown, Abstracted
<1>5. QED
  BY <1>2, <1>3, <1>4, StepShrinks

\* Only existing targets are announced.
LEMMA NewlyAnnounced ==
  ASSUME Ground, Peace, [Next]_vars
  PROVE  announced' \subseteq announced \cup exists
<1>1. ASSUME NEW e \in Experiments, Fetch(e) \/ Deliver(e) \/ IntervalElapses(e) \/ TimerFires(e)
      PROVE  announced' = announced
  BY <1>1 DEF Fetch, Deliver, IntervalElapses, TimerFires, targetVars
<1>2. ASSUME NEW t \in Targets, HandleTargetEvent(t) \/ EnqueueOwner(t)
      PROVE  announced' \subseteq announced \cup exists
  BY <1>2 DEF HandleTargetEvent, EnqueueOwner, targetVars
<1>3. ASSUME Reconcile
      PROVE  announced' \subseteq announced \cup exists
  BY <1>3, ReconcileMoves DEF Restart, WorkerStep
<1>4. ASSUME Environment
      PROVE  announced' \subseteq announced \cup exists
  BY <1>4, NeverHere DEF Environment, UserCreates, Edit, UserCreatesTarget, targetVars
<1>5. QED
  BY <1>1, <1>2, <1>3, <1>4 DEF Next, vars, targetVars

\* A target that is deleted is one of an experiment that cleans up.
LEMMA DeletedOver ==
  ASSUME Ground, Kinds, NEW t \in exists \ exists'
  PROVE  w.e \in Experiments /\ SpecAt(w).cleanup /\ t \in TargetsOf(w.e) /\ Over(w.e)
<1>1. CleansTargets
  BY DEF Kinds, Takes, Rests, Reads, Looks, Finds, GivesUp, LaysDR, LaysVS, OpensDR, OpensVS,
     Weighs, Misses, Counts, Aborts, Splits, Completes, CleansDR, CleansVS, Reports, Beside,
     Still, PutsHere
<1>2. w.pc = "cleanupTargets" /\ w.pc \notin OffPcs
  BY <1>1 DEF CleansTargets, OffPcs
<1>3. w.e \in Experiments /\ SpecAt(w).cleanup
  BY <1>2, HerePeace DEF AtPeace
<1>4. PICK v \in Versions(SpecAt(w)) : t = Deployment(SpecAt(w), v)
  BY <1>1 DEF CleansTargets
<1>5. t \in TargetsOf(w.e)
  <2>1. CASE v = 0
    BY <1>4, <2>1 DEF Deployment, TargetsOf, SpecAt
  <2>2. CASE v # 0
    <3>1. SpecOf[w.e].candidates \in Seq(Deployments)
      BY <1>3, SpecAssumption DEF ExperimentSpecs
    <3>2. v \in DOMAIN SpecOf[w.e].candidates
      BY <1>4, <2>2, <3>1 DEF Versions, SpecAt
    <3>3. t = SpecOf[w.e].candidates[v]
      BY <1>4, <2>2 DEF Deployment, SpecAt
    <3>4. QED
      BY <3>2, <3>3 DEF TargetsOf, Range
  <2>3. QED
    BY <2>1, <2>2
<1>6. QED
  BY <1>2, <1>3, <1>5 DEF Over, CleanupPcs

LEMMA LossesPeace ==
  ASSUME Ground, Peace, Kinds, [Next]_vars
  PROVE  LossesKnown'
<1>1. ASSUME NEW t \in announced' \ exists'
      PROVE  \E e \in Experiments : SpecOf[e].cleanup /\ t \in TargetsOf(e) /\ Over(e)
  <2>1. CASE t \in exists
    BY <2>1, DeletedOver DEF SpecAt
  <2>2. CASE t \notin exists
    BY <2>2, NewlyAnnounced DEF Ground, PeaceInv, LossesKnown
  <2>3. QED
    BY <2>1, <2>2
<1>2. \A e \in Experiments : Over(e) => Over(e)'
  BY OverKept
<1>3. QED
  BY <1>1, <1>2 DEF LossesKnown

LEMMA PeaceKept ==
  ASSUME Ground, Peace, Kinds, [Next]_vars
  PROVE  PeaceInv'
  BY SpentKept, ObjectsPeace, WorkerPeace, ClaimsPeace, LossesPeace DEF PeaceInv

-----------------------------------------------------------------------------
(* The rules the worker writes, one by one.                                *)

\* None is not a rule.
NoneIsNoRule == "labels" \notin DOMAIN None

RuleKinds == LaysDR \/ LaysVS \/ OpensDR \/ OpensVS \/ Splits \/ CleansDR \/ CleansVS
QuietKinds ==
  \/ Takes \/ Rests \/ Reads \/ Looks \/ Finds \/ GivesUp
  \/ Weighs \/ Misses \/ Counts \/ Aborts \/ Completes \/ CleansTargets
  \/ Reports \/ Beside

\* What is known of the rules where the worker writes them.
LEMMA HereLies ==
  ASSUME Ground, w.pc \in WritePcs
  PROVE  LET d == dr[Svc(w)]
             v == vs[Svc(w)] IN
         /\ w.e \in Experiments /\ Svc(w) \in Services /\ SpecAt(w) = SpecOf[w.e]
         /\ Svc(w) = SpecOf[w.e].service
         /\ KnownRule(d) /\ KnownRule(v) /\ Readied(w, d, v) /\ Laid(w, d, v) /\ Owned(w, d, v)
         /\ Halfway(w, d, v) /\ (w.pc \notin HalfPcs => Alike(d, v))
         /\ Served(d, v)
         /\ w.pc \in {"split", "cleanupDR"} => IsProgressing(d, v) /\ d.labels.experiment = w.e
         /\ w.pc # "idle"
<1>1. IInv /\ KnownRules /\ RulesOpened /\ AllServed /\ RulesLaid /\ PairsAlike /\ RulesHalfway
      /\ RestInv
  BY DEF Ground, ServedInv, RestInv
<1>2. /\ w.e \in Experiments /\ Svc(w) \in Services /\ SpecAt(w) = SpecOf[w.e]
      /\ Svc(w) = SpecOf[w.e].service
  BY <1>1, HereWrites DEF Svc
<1>3. w.pc # "idle" /\ w.pc \notin OffPcs
  BY DEF WritePcs, OffPcs
<1>4. w.pc \in {"split", "cleanupDR"} => RunsAt(w.e)
  BY <1>1, <1>3 DEF RestInv, Runs, RunPcs
<1>5. Owned(w, dr[Svc(w)], vs[Svc(w)])
  BY <1>1, HereOwned
<1>6. QED
  BY <1>1, <1>2, <1>3, <1>4, <1>5
  DEF KnownRules, RulesOpened, AllServed, RulesLaid, PairsAlike, RulesHalfway, RunsAt, RunsFor

LEMMA FullIsSome ==
  ASSUME NoneIsNoRule, NEW r, FullRule(r)
  PROVE  r # None
  BY DEF NoneIsNoRule, FullRule

\* A rule and the one UpdateBaseline makes of it.
LEMMA LaysAlike ==
  ASSUME NEW d, NEW v, NEW e \in Experiments, NEW spec, Alike(d, v),
         KnownRule(d), KnownRule(v)
  PROVE  BaselineDestinationRule(d, e, spec).labels = BaselineVirtualService(v, e, spec).labels
<1>1. CASE d = None /\ v = None
  BY <1>1 DEF BaselineDestinationRule, BaselineVirtualService
<1>2. CASE d # None /\ v # None /\ d.labels = v.labels
  BY <1>2 DEF BaselineDestinationRule, BaselineVirtualService
<1>3. QED
  BY <1>1, <1>2 DEF Alike

LEMMA BaselineServes ==
  ASSUME NEW e \in Experiments, NEW d, NEW v, NEW r,
         v = BaselineVirtualService(r, e, SpecOf[e]),
         d # None, d.subsets = FirstSubset(SpecOf[e])
  PROVE  ~Dangling(d, v)
<1>1. ASSUME NEW n \in Routed(v) PROVE n = Subset(0)
  BY <1>1 DEF Routed, BaselineVirtualService
<1>2. Subset(0) \in DOMAIN d.subsets
  BY DEF FirstSubset
<1>3. QED
  BY <1>1, <1>2 DEF Dangling

LEMMA NamesServe ==
  ASSUME NEW spec, NEW d, NEW v, d # None, d.subsets = AllSubsets(spec),
         DOMAIN v.routes \subseteq Names(spec)
  PROVE  ~Dangling(d, v)
<1>1. DOMAIN d.subsets = Names(spec)
  BY DEF AllSubsets
<1>2. QED
  BY <1>1 DEF Dangling, Routed

\* Opening the rules for the candidates.
LEMMA OpensLabels ==
  ASSUME NEW d, NEW v, NEW spec, FullRule(d), FullRule(v)
  PROVE  LET c == CandidatesDestinationRule(d, spec)
             u == CandidatesVirtualService(v) IN
         /\ c.labels = [d.labels EXCEPT !.role = "progressing"]
         /\ u.labels = [v.labels EXCEPT !.role = "progressing"]
         /\ c.labels.role = "progressing" /\ u.labels.role = "progressing"
         /\ c.labels.experiment = d.labels.experiment
         /\ u.labels.experiment = v.labels.experiment
         /\ HasRoutes(v) => HasRoutes(u) /\ u.routes = v.routes
  BY DEF CandidatesDestinationRule, CandidatesVirtualService, FullRule, KnownLabels, LabelFields, HasRoutes

LEMMA SplitsOnly ==
  ASSUME NEW v, NEW spec, NEW k, HasRoutes(v), FullRule(v)
  PROVE  LET u == SplitVirtualService(v, spec, k) IN
         u.labels = v.labels /\ HasRoutes(u) /\ u.routes = Split(spec, k)
         /\ DOMAIN u.routes = Names(spec) /\ FullRule(u)
  BY DEF SplitVirtualService, Split, HasRoutes, FullRule, Names

\* The names cleanup gives are given to versions.
LEMMA StableVersions ==
  ASSUME NEW spec, Len(spec.candidates) \in Nat, NEW t \in Strategies, NEW win, NEW k
  PROVE  DOMAIN ToStable(spec, t, win, k) \subseteq Versions(spec)
<1>1. 0 \in Versions(spec)
  BY VersionsFinite
<1>2. QED
  BY <1>1 DEF ToStable, Strategies

LEMMA StablesServe ==
  ASSUME NEW spec, NEW f, DOMAIN f \subseteq Versions(spec), NEW d, NEW v, NEW t, NEW k,
         d = StableDestinationRule([subsets |-> AllSubsets(spec)], f), d # None
  PROVE  ~Dangling(d, StableVirtualService(v, f, t, k))
<1> DEFINE D == [subsets |-> AllSubsets(spec)]
           u == StableVirtualService(v, f, t, k)
           kept == {x \in DOMAIN f : Subset(x) \in DOMAIN D.subsets}
<1>1. kept = DOMAIN f
  BY DEF AllSubsets, Names
<1>2. DOMAIN d.subsets = {f[x] : x \in kept}
  BY DEF StableDestinationRule
<1>3. DOMAIN u.routes = {f[x] : x \in DOMAIN f}
  BY DEF StableVirtualService, Range
<1>4. Routed(u) \subseteq DOMAIN d.subsets
  BY <1>1, <1>2, <1>3 DEF Routed
<1>5. QED
  BY <1>4 DEF Dangling

LEMMA HereStable ==
  ASSUME Ground, w.pc \notin OffPcs
  PROVE  /\ w.inst.spec.onTermination \in Strategies
         /\ Len(SpecAt(w).candidates) \in Nat
         /\ DOMAIN Stable(w) \subseteq Versions(SpecAt(w))
<1>1. w.e \in Experiments /\ AtPeace(w)
  BY HerePeace
<1>2. SpecOf[w.e].onTermination \in Strategies /\ Len(SpecOf[w.e].candidates) \in Nat
  BY <1>1, SpecAssumption DEF ExperimentSpecs
<1>3. w.inst.spec.onTermination \in Strategies
  BY <1>1, <1>2 DEF AtPeace, Untouched, Aborted, Strategies
<1>4. QED
  BY <1>2, <1>3, StableVersions DEF SpecAt, Stable

Written(d, v) ==
  /\ w'.e = w.e /\ w'.pc # "idle"
  /\ w'.pc \notin HalfPcs => Alike(d, v)
  /\ Halfway(w', d, v)
  /\ IsProgressing(d, v) => d.labels.experiment = w.e
OwnRun(d, v) == IsProgressing(d, v) /\ d.labels.experiment = w.e

LEMMA LaysDRWritten ==
  ASSUME Ground, NoneIsNoRule, LaysDR
  PROVE  Written(BaselineDestinationRule(dr[Svc(w)], w.e, SpecAt(w)), vs[Svc(w)])
<1> DEFINE d == dr[Svc(w)]
           v == vs[Svc(w)]
           c == BaselineDestinationRule(d, w.e, SpecAt(w))
<1>1. w.pc \in WritePcs /\ w.pc \notin HalfPcs
  BY DEF LaysDR, WritePcs, HalfPcs
<1>2. w.e \in Experiments /\ KnownRule(d) /\ KnownRule(v) /\ Alike(d, v) /\ SpecAt(w) = SpecOf[w.e]
      /\ Laid(w, d, v)
  BY <1>1, HereLies
<1>3. w'.e = w.e /\ w'.pc = "baselineVS" /\ SpecAt(w') = SpecAt(w)
  BY DEF LaysDR, Follows, Continues, SpecAt
<1>4. FullRule(c)
  BY <1>2, BaselineRulesFull
<1>5. c # None
  BY <1>4, FullIsSome
<1>6. c.labels = BaselineVirtualService(v, w.e, SpecAt(w)).labels
  BY <1>2, LaysAlike
<1>7. c.labels.experiment = w.e
  BY <1>2 DEF BaselineDestinationRule, KnownRule, FullRule, KnownLabels, LabelFields, NewLabels
<1> HIDE DEF c, d, v
<1>8. Halfway(w', c, v)
  BY <1>3, <1>5, <1>6 DEF Halfway
<1>9. QED
  BY <1>3, <1>7, <1>8 DEF Written, HalfPcs, c, d, v

LEMMA LaysVSWritten ==
  ASSUME Ground, NoneIsNoRule, LaysVS
  PROVE  Written(dr[Svc(w)], BaselineVirtualService(vs[Svc(w)], w.e, SpecAt(w)))
<1> DEFINE d == dr[Svc(w)]
           v == vs[Svc(w)]
           u == BaselineVirtualService(v, w.e, SpecAt(w))
<1>1. w.pc = "baselineVS" /\ w.pc \in WritePcs
  BY DEF LaysVS, WritePcs
<1>2. w.e \in Experiments /\ KnownRule(v) /\ SpecAt(w) = SpecOf[w.e]
      /\ Laid(w, d, v) /\ Owned(w, d, v) /\ Halfway(w, d, v)
  BY <1>1, HereLies
<1>3. w'.e = w.e /\ w'.pc = "candidates" /\ SpecAt(w') = SpecAt(w)
  BY DEF LaysVS, Continues, SpecAt
<1>4. FullRule(u)
  BY <1>2, BaselineRulesFull
<1>5. u # None /\ d # None /\ d.labels = u.labels /\ d.labels.experiment = w.e
  BY <1>1, <1>2, <1>4, FullIsSome DEF Halfway, Owned, Labelled
<1>6. d.subsets = FirstSubset(SpecAt(w))
  BY <1>1, <1>2 DEF Laid
<1>7. ~Dangling(d, u)
  BY <1>2, <1>5, <1>6, BaselineServes
<1> HIDE DEF d, u
<1>8. Halfway(w', d, u) /\ Alike(d, u)
  BY <1>3, <1>5, <1>7 DEF Halfway, Alike
<1>9. QED
  BY <1>3, <1>5, <1>8 DEF Written, d, u, v

LEMMA OpensDRWritten ==
  ASSUME Ground, NoneIsNoRule, OpensDR
  PROVE  Written(CandidatesDestinationRule(dr[Svc(w)], SpecAt(w)), vs[Svc(w)])
<1> DEFINE d == dr[Svc(w)]
           v == vs[Svc(w)]
           c == CandidatesDestinationRule(d, SpecAt(w))
<1>1. w.pc = "candidates" /\ w.pc \in WritePcs /\ w.pc \notin HalfPcs
  BY DEF OpensDR, WritePcs, HalfPcs
<1>2. w.e \in Experiments /\ SpecAt(w) = SpecOf[w.e] /\ Alike(d, v)
      /\ Readied(w, d, v) /\ Owned(w, d, v) /\ Halfway(w, d, v)
  BY <1>1, HereLies
<1>3. w'.e = w.e /\ w'.pc = "candidatesVS" /\ SpecAt(w') = SpecAt(w)
  BY DEF OpensDR, Follows, Continues, SpecAt
<1>4. FullRule(d) /\ FullRule(v) /\ v # None /\ d.labels.experiment = w.e
  BY <1>1, <1>2, FullIsSome DEF Readied, Owned, Labelled
<1>5. d.labels = v.labels
  BY <1>2, <1>4 DEF Alike
<1>6. FullRule(c)
  BY <1>4, CandidatesRulesFull
<1> HIDE DEF d, v
<1>7. c.labels = CandidatesVirtualService(v).labels /\ c.labels.experiment = w.e
  <2>1. c.labels = [d.labels EXCEPT !.role = "progressing"] /\ c.labels.experiment = d.labels.experiment
    BY <1>4, OpensLabels
  <2>2. CandidatesVirtualService(v).labels = [v.labels EXCEPT !.role = "progressing"]
    BY <1>4, OpensLabels
  <2>3. QED
    BY <1>4, <1>5, <2>1, <2>2
<1>8. c # None
  BY <1>6, FullIsSome
<1> HIDE DEF c
<1>9. Halfway(w', c, v)
  BY <1>3, <1>4, <1>7, <1>8 DEF Halfway
<1>10. QED
  BY <1>3, <1>7, <1>9 DEF Written, HalfPcs, c, d, v

LEMMA OpensVSWritten ==
  ASSUME Ground, NoneIsNoRule, OpensVS
  PROVE  LET u == CandidatesVirtualService(vs[Svc(w)]) IN
         Written(dr[Svc(w)], u) /\ OwnRun(dr[Svc(w)], u)
<1> DEFINE d == dr[Svc(w)]
           v == vs[Svc(w)]
           u == CandidatesVirtualService(v)
<1>1. w.pc = "candidatesVS" /\ w.pc \in WritePcs
  BY DEF OpensVS, WritePcs
<1>2. w.e \in Experiments /\ SpecAt(w) = SpecOf[w.e]
      /\ Readied(w, d, v) /\ Laid(w, d, v) /\ Owned(w, d, v) /\ Halfway(w, d, v)
  BY <1>1, HereLies
<1>3. w'.e = w.e /\ w'.pc \in {"iterate", "complete", "end"} /\ SpecAt(w') = SpecAt(w)
  BY DEF OpensVS, Follows, Continues, SpecAt
<1>4. FullRule(d) /\ FullRule(v) /\ d # None /\ d.labels.experiment = w.e
      /\ HasRoutes(v) /\ DOMAIN v.routes = Names(SpecAt(w))
      /\ d.labels = u.labels /\ d.subsets = AllSubsets(SpecAt(w))
  BY <1>1, <1>2, FullIsSome DEF Readied, Owned, Labelled, Halfway, Laid
<1>5. FullRule(u)
  BY <1>4, CandidatesRulesFull
<1>6. u.routes = v.routes /\ u.labels.role = "progressing"
  <2> HIDE DEF d, v
  <2>1. FullRule(d) /\ FullRule(v) /\ HasRoutes(v)
    BY <1>4
  <2>2. QED
    BY <2>1, OpensLabels
<1>7. u # None
  BY <1>5, FullIsSome
<1>8. ~Dangling(d, u)
  <2>1. DOMAIN u.routes \subseteq Names(SpecAt(w))
    BY <1>4, <1>6
  <2> HIDE DEF u, d, v
  <2>2. QED
    BY <1>4, <2>1, NamesServe
<1> HIDE DEF d, u
<1>9. Halfway(w', d, u) /\ Alike(d, u)
  BY <1>3, <1>4, <1>7, <1>8 DEF Halfway, Alike
<1>10. IsProgressing(d, u)
  BY <1>4, <1>6, <1>7 DEF IsProgressing
<1>11. Written(d, u) /\ OwnRun(d, u)
  BY <1>3, <1>4, <1>9, <1>10 DEF Written, OwnRun
<1>12. QED
  BY <1>11 DEF d, u

LEMMA SplitsWritten ==
  ASSUME Ground, NoneIsNoRule, Splits
  PROVE  LET u == SplitVirtualService(vs[Svc(w)], SpecAt(w), w.inst.status.weights) IN
         Written(dr[Svc(w)], u) /\ OwnRun(dr[Svc(w)], u)
<1> DEFINE d == dr[Svc(w)]
           v == vs[Svc(w)]
           k == w.inst.status.weights
           u == SplitVirtualService(v, SpecAt(w), k)
<1>1. w.pc = "split" /\ w.pc \in WritePcs /\ w.pc \notin HalfPcs
  BY DEF Splits, WritePcs, HalfPcs
<1>2. w.e \in Experiments /\ SpecAt(w) = SpecOf[w.e]
      /\ KnownRule(d) /\ KnownRule(v) /\ Alike(d, v) /\ Served(d, v)
      /\ IsProgressing(d, v) /\ d.labels.experiment = w.e
  BY <1>1, HereLies
<1>3. w'.e = w.e /\ w'.pc \in {"complete", "end"} /\ SpecAt(w') = SpecAt(w)
  BY DEF Splits, Follows, Continues, SpecAt
<1>4. d # None /\ v # None /\ FullRule(v) /\ d.labels = v.labels
      /\ HasRoutes(v) /\ d.subsets = AllSubsets(SpecAt(w))
  BY <1>2 DEF IsProgressing, KnownRule, Alike, Served
<1>5. u.labels = v.labels /\ FullRule(u) /\ DOMAIN u.routes = Names(SpecAt(w))
  BY <1>4, SplitsOnly
<1>6. u # None
  BY <1>5, FullIsSome
<1>7. ~Dangling(d, u)
  <2>1. DOMAIN u.routes \subseteq Names(SpecAt(w))
    BY <1>5
  <2> HIDE DEF u, d, v
  <2>2. QED
    BY <1>4, <2>1, NamesServe
<1> HIDE DEF d, u
<1>8. Halfway(w', d, u) /\ Alike(d, u)
  BY <1>3, <1>4, <1>5, <1>6, <1>7 DEF Halfway, Alike
<1>9. IsProgressing(d, u)
  BY <1>2, <1>5, <1>6 DEF IsProgressing
<1>11. Written(d, u) /\ OwnRun(d, u)
  BY <1>2, <1>3, <1>8, <1>9 DEF Written, OwnRun
<1>12. QED
  BY <1>11 DEF d, u, v, k

LEMMA CleansDRWritten ==
  ASSUME Ground, NoneIsNoRule, CleansDR
  PROVE  Written(IF Removing(w) THEN None ELSE StableDestinationRule(dr[Svc(w)], Stable(w)),
                 vs[Svc(w)])
<1> DEFINE d == dr[Svc(w)]
           v == vs[Svc(w)]
           c == IF Removing(w) THEN None ELSE StableDestinationRule(d, Stable(w))
<1>1. w.pc = "cleanupDR" /\ w.pc \in WritePcs /\ w.pc \notin HalfPcs /\ w.pc \notin OffPcs
  BY DEF CleansDR, WritePcs, HalfPcs, OffPcs
<1>2. w.e \in Experiments /\ SpecAt(w) = SpecOf[w.e]
      /\ KnownRule(d) /\ KnownRule(v) /\ Alike(d, v) /\ Served(d, v)
      /\ IsProgressing(d, v) /\ d.labels.experiment = w.e
  BY <1>1, HereLies
<1>3. w'.e = w.e /\ w'.pc = "cleanupVS" /\ SpecAt(w') = SpecAt(w) /\ Stable(w') = Stable(w)
  <2>1. w'.e = w.e /\ w'.pc = "cleanupVS" /\ SpecAt(w') = SpecAt(w)
        /\ w'.inst.spec.onTermination = w.inst.spec.onTermination
        /\ w'.inst.status.weights = w.inst.status.weights
    BY DEF CleansDR, Follows, Continues, SpecAt
  <2>2. w'.inst.status.winner = w.inst.status.winner
    BY DEF CleansDR
  <2>3. QED
    BY <2>1, <2>2 DEF Stable
<1>4. v # None /\ v.labels.role = "progressing" /\ v.labels.experiment = w.e
      /\ HasRoutes(v) /\ DOMAIN v.routes = Names(SpecAt(w)) /\ d.subsets = AllSubsets(SpecAt(w))
  BY <1>2 DEF IsProgressing, Served
<1>5. StableDestinationRule(d, Stable(w)) =
        StableDestinationRule([subsets |-> AllSubsets(SpecAt(w))], Stable(w))
  BY <1>4 DEF StableDestinationRule
<1>6. Removing(w) => SpecAt(w).cleanup
  BY DEF Removing
<1>7. ~IsProgressing(c, v)
  BY DEF IsProgressing, StableDestinationRule, StableLabels
<1>8. \/ c = None /\ SpecAt(w).cleanup
      \/ c = StableDestinationRule([subsets |-> AllSubsets(SpecAt(w))], Stable(w))
  BY <1>5, <1>6
<1> HIDE DEF c, v
<1>9. Halfway(w', c, v)
  BY <1>3, <1>4, <1>8 DEF Halfway
<1>10. QED
  BY <1>3, <1>7, <1>9 DEF Written, HalfPcs, c, d, v

LEMMA CleansVSWritten ==
  ASSUME Ground, NoneIsNoRule, CleansVS
  PROVE  Written(dr[Svc(w)],
                 IF dr[Svc(w)] = None THEN None
                 ELSE StableVirtualService(vs[Svc(w)], Stable(w), w.inst.spec.onTermination,
                                           w.inst.status.weights))
<1> DEFINE d == dr[Svc(w)]
           v == vs[Svc(w)]
           t == w.inst.spec.onTermination
           k == w.inst.status.weights
           f == Stable(w)
           z == StableVirtualService(v, f, t, k)
           u == IF d = None THEN None ELSE z
<1>1. w.pc = "cleanupVS" /\ w.pc \in WritePcs /\ w.pc \notin OffPcs
  BY DEF CleansVS, WritePcs, OffPcs
<1>2. Halfway(w, d, v)
  BY <1>1, HereLies
<1>3. w'.e = w.e /\ w'.pc = "end"
  BY DEF CleansVS, Follows, Continues
<1>4. DOMAIN f \subseteq Versions(SpecAt(w))
  BY <1>1, HereStable
<1>5. d # None => d = StableDestinationRule([subsets |-> AllSubsets(SpecAt(w))], f)
  BY <1>1, <1>2 DEF Halfway
<1>6. d # None => z # None /\ d.labels = z.labels /\ d.labels.role = "stable"
  <2>1. FullRule(z)
    BY StableRulesFull
  <2>2. z # None
    BY <2>1, FullIsSome
  <2>3. d # None => d.labels = StableLabels
    BY <1>5 DEF StableDestinationRule
  <2>4. z.labels = StableLabels
    BY DEF StableVirtualService
  <2>5. QED
    BY <2>2, <2>3, <2>4 DEF StableLabels
<1>7. d # None => ~Dangling(d, z)
  <2> HIDE DEF d, f, v, t, k
  <2>1. QED
    BY <1>4, <1>5, StablesServe
<1> HIDE DEF d, z
<1>8. Alike(d, u) /\ ~IsProgressing(d, u)
  BY <1>6, <1>7 DEF Alike, IsProgressing
<1> HIDE DEF u
<1>9. Halfway(w', d, u)
  BY <1>3 DEF Halfway
<1>10. QED
  BY <1>3, <1>8, <1>9 DEF Written, d, u, v, z, t, k, f

-----------------------------------------------------------------------------
(* The rules, whoever writes them.                                         *)

\* What a step makes of the two rules of the service it writes for.
LEMMA RuleKindsWrite ==
  ASSUME Ground, NoneIsNoRule, RuleKinds
  PROVE  /\ w.pc \in WritePcs /\ Svc(w) \in Services
         /\ \A s \in Services \ {Svc(w)} : dr'[s] = dr[s] /\ vs'[s] = vs[s]
         /\ Written(dr'[Svc(w)], vs'[Svc(w)])
         /\ OpensVS \/ Splits => OwnRun(dr'[Svc(w)], vs'[Svc(w)])
<1>1. w.pc \in WritePcs
  BY DEF RuleKinds, LaysDR, LaysVS, OpensDR, OpensVS, Splits, CleansDR, CleansVS, WritePcs
<1>2. Svc(w) \in Services
  BY <1>1, HereLies
<1>3. ASSUME NEW d, NEW v, PutsHere(d, v)
      PROVE  /\ dr'[Svc(w)] = d /\ vs'[Svc(w)] = v
             /\ \A s \in Services \ {Svc(w)} : dr'[s] = dr[s] /\ vs'[s] = vs[s]
  BY <1>2, <1>3 DEF PutsHere
<1>4. CASE LaysDR
  BY <1>1, <1>2, <1>3, <1>4, LaysDRWritten DEF LaysDR, OpensVS, Splits
<1>5. CASE LaysVS
  BY <1>1, <1>2, <1>3, <1>5, LaysVSWritten DEF LaysVS, OpensVS, Splits
<1>6. CASE OpensDR
  BY <1>1, <1>2, <1>3, <1>6, OpensDRWritten DEF OpensDR, OpensVS, Splits
<1>7. CASE OpensVS
  BY <1>1, <1>2, <1>3, <1>7, OpensVSWritten DEF OpensVS
<1>8. CASE Splits
  BY <1>1, <1>2, <1>3, <1>8, SplitsWritten DEF Splits
<1>9. CASE CleansDR
  BY <1>1, <1>2, <1>3, <1>9, CleansDRWritten DEF CleansDR, OpensVS, Splits
<1>10. CASE CleansVS
  BY <1>1, <1>2, <1>3, <1>10, CleansVSWritten DEF CleansVS, OpensVS, Splits
<1>11. QED
  BY <1>4, <1>5, <1>6, <1>7, <1>8, <1>9, <1>10 DEF RuleKinds

\* Where one of two writes was made, a step that makes no other leaves the request there.
LEMMA QuietKindsStay ==
  ASSUME Ground, QuietKinds
  PROVE  /\ UNCHANGED ruleVars
         /\ w.pc \in HalfPcs => w'.pc = w.pc /\ w'.e = w.e
         /\ w'.pc \in {"baselineVS", "candidates", "candidatesVS", "cleanupVS"} =>
              w'.pc = w.pc /\ w'.e = w.e /\ Stable(w') = Stable(w)
<1> USE DEF HalfPcs, Still
<1>1. CASE Takes \/ Rests \/ Reads \/ Looks
  BY <1>1 DEF Takes, Rests, Reads, Looks, BeforePcs, OpenPcs, Idle
<1>2. CASE Finds \/ GivesUp \/ Weighs \/ Misses \/ Counts \/ Aborts
  BY <1>2 DEF Finds, GivesUp, Weighs, Misses, Counts, Aborts
<1>3. CASE Completes \/ CleansTargets \/ Reports
  BY <1>3 DEF Completes, CleansTargets, Reports, Idle
<1>4. CASE Beside
  BY <1>4 DEF Beside, Stable, Follows, Continues, SpecAt, OffPcs
<1>5. QED
  BY <1>1, <1>2, <1>3, <1>4 DEF QuietKinds

LEMMA HalvesKept ==
  ASSUME Ground, NoneIsNoRule, Kinds
  PROVE  PairsAlike' /\ RulesHalfway'
<1>0. PairsAlike /\ RulesHalfway
  BY DEF Ground, RestInv
<1>1. CASE QuietKinds
  <2>1. dr' = dr /\ vs' = vs
    BY <1>1, QuietKindsStay DEF ruleVars
  <2>2. PairsAlike'
    BY <1>0, <1>1, <2>1, QuietKindsStay DEF PairsAlike, HalfPcs, Svc, SpecAt
  <2>3. RulesHalfway'
    <3>1. CASE w'.pc \in {"baselineVS", "candidates", "candidatesVS", "cleanupVS"}
      <4>1. w'.pc = w.pc /\ w'.e = w.e /\ Stable(w') = Stable(w)
        BY <1>1, <3>1, QuietKindsStay
      <4>2. Halfway(w, dr[Svc(w)], vs[Svc(w)]) /\ Svc(w') = Svc(w) /\ SpecAt(w') = SpecAt(w)
        BY <1>0, <3>1, <4>1 DEF RulesHalfway, Svc, SpecAt
      <4>3. Halfway(w', dr[Svc(w)], vs[Svc(w)])
        BY <4>1, <4>2 DEF Halfway
      <4>4. QED
        BY <2>1, <4>2, <4>3 DEF RulesHalfway
    <3>2. CASE w'.pc \notin {"baselineVS", "candidates", "candidatesVS", "cleanupVS"}
      BY <3>2 DEF RulesHalfway, Halfway
    <3>3. QED
      BY <3>1, <3>2
  <2>4. QED
    BY <2>2, <2>3
<1>2. CASE RuleKinds
  <2>1. w'.e = w.e /\ Svc(w') = Svc(w) /\ Halfway(w', dr'[Svc(w)], vs'[Svc(w)])
        /\ (w'.pc \notin HalfPcs => Alike(dr'[Svc(w)], vs'[Svc(w)]))
    BY <1>2, RuleKindsWrite DEF Written, Svc, SpecAt
  <2>2. \A s \in Services \ {Svc(w)} : dr'[s] = dr[s] /\ vs'[s] = vs[s] /\ Alike(dr[s], vs[s])
    BY <1>0, <1>2, RuleKindsWrite DEF PairsAlike
  <2>3. QED
    BY <2>1, <2>2 DEF PairsAlike, RulesHalfway
<1>3. QED
  BY <1>1, <1>2 DEF Kinds, QuietKinds, RuleKinds

-----------------------------------------------------------------------------
(* Whom the rules run for.                                                 *)

LEMMA RunsStay ==
  ASSUME Ground, NoneIsNoRule, Kinds, [Next]_vars
  PROVE  /\ \A s \in Services, e \in Experiments : e # w.e /\ RunsFor(s, e) => RunsFor(s, e)'
         /\ \A s \in Services, e \in Experiments :
              RunsFor(s, e)' => RunsFor(s, e) \/ (e = w.e /\ s = Svc(w))
         /\ \A e \in Experiments : e = w.e /\ (OpensVS \/ Splits) => RunsAt(e)'
         /\ \A e \in Experiments : e = w.e /\ RunsAt(e) /\ ~CleansDR => RunsAt(e)'
<1>0. IInv /\ RulesLaid
  BY DEF Ground, ServedInv
<1>1. \A s \in Services, e \in Experiments : e # w.e /\ RunsFor(s, e) => RunsFor(s, e)'
  <2>1. HandsOver
    BY <1>0, StepHandsOver
  <2>2. QED
    BY <2>1 DEF HandsOver, RunsFor
<1>2. CASE QuietKinds
  <2>1. dr' = dr /\ vs' = vs
    BY <1>2, QuietKindsStay DEF ruleVars
  <2>2. ~OpensVS /\ ~Splits
    BY <1>2 DEF QuietKinds, OpensVS, Splits, Takes, Rests, Reads, Looks, Finds, GivesUp, Weighs,
       Misses, Counts, Aborts, Completes, CleansTargets, Reports, Beside, BeforePcs
  <2>3. QED
    BY <1>1, <2>1, <2>2 DEF RunsFor, RunsAt
<1>3. CASE RuleKinds
  <2> DEFINE d == dr'[Svc(w)]
             v == vs'[Svc(w)]
  <2>1. /\ w.pc \in WritePcs /\ Svc(w) \in Services
        /\ \A s \in Services \ {Svc(w)} : dr'[s] = dr[s] /\ vs'[s] = vs[s]
        /\ IsProgressing(d, v) => d.labels.experiment = w.e
        /\ OpensVS \/ Splits => OwnRun(d, v)
    BY <1>3, RuleKindsWrite DEF Written
  <2>2. Svc(w) = SpecOf[w.e].service
    BY <2>1, HereLies
  <2>3. \A s \in Services, e \in Experiments :
          RunsFor(s, e)' => RunsFor(s, e) \/ (e = w.e /\ s = Svc(w))
    BY <2>1 DEF RunsFor
  <2>4. \A e \in Experiments : e = w.e /\ (OpensVS \/ Splits) => RunsAt(e)'
    <3>1. \A e \in Experiments : e = w.e /\ OwnRun(d, v) => RunsAt(e)'
      BY <2>2 DEF OwnRun, RunsAt, RunsFor
    <3>2. QED
      BY <2>1, <3>1
  <2>5. RunsAt(w.e) => Splits \/ CleansDR \/ OpensVS
    <3>1. ASSUME RunsAt(w.e) PROVE IsProgressing(dr[Svc(w)], vs[Svc(w)])
      BY <2>2, <3>1 DEF RunsAt, RunsFor
    <3>2. Laid(w, dr[Svc(w)], vs[Svc(w)]) /\ Owned(w, dr[Svc(w)], vs[Svc(w)])
      BY <2>1, HereLies
    <3>3. LaysDR \/ LaysVS \/ OpensDR \/ CleansVS =>
            w.pc \in {"baselineDR", "baselineVS", "candidates", "cleanupVS"}
      BY DEF LaysDR, LaysVS, OpensDR, CleansVS
    <3>4. QED
      BY <1>3, <3>1, <3>2, <3>3 DEF Laid, Owned, RuleKinds
  <2>6. QED
    BY <1>1, <2>3, <2>4, <2>5
<1>4. QED
  BY <1>2, <1>3 DEF Kinds, QuietKinds, RuleKinds

LEMMA HomeKept ==
  ASSUME Ground, NoneIsNoRule, Kinds, [Next]_vars
  PROVE  RunsAtHome'
<1>1. RunsAtHome
  BY DEF Ground, RestInv
<1>2. ASSUME NEW e \in Experiments, NEW s \in Services, RunsFor(s, e)'
      PROVE  s = SpecOf[e].service
  <2>1. RunsFor(s, e) \/ (e = w.e /\ s = Svc(w))
    BY <1>2, RunsStay
  <2>2. QED
    BY <1>1, <2>1 DEF RunsAtHome, Svc, SpecAt
<1>3. QED
  BY <1>2 DEF RunsAtHome

\* Where targets are reported as found.
LEMMA FoundRunsKept ==
  ASSUME Ground, NoneIsNoRule, Kinds, [Next]_vars
  PROVE  FoundRuns'
<1>0. FoundRuns
  BY DEF Ground, RestInv
<1>1. SUFFICES ASSUME NEW e \in Experiments, stored'[e] # None, Found(stored'[e]), ~Retired(e)'
               PROVE  RunsAt(e)'
  BY DEF FoundRuns
<1>e. SpecOf[e].service \in Services
  BY SpecAssumption DEF ExperimentSpecs
<1>2. RunsAt(e) => RunsAt(e)'
  <2>1. CASE e # w.e
    BY <1>e, <2>1, RunsStay DEF RunsAt
  <2>2. CASE e = w.e /\ ~CleansDR
    BY <2>2, RunsStay
  <2>3. CASE e = w.e /\ CleansDR
    <3>1. w'.e = e /\ w'.pc = "cleanupVS"
      BY <2>3 DEF CleansDR, Follows, Continues
    <3>2. QED
      BY <1>1, <3>1 DEF Retired
  <2>4. QED
    BY <2>1, <2>2, <2>3
<1>3. CASE SameSight
  <2>1. stored[e] # None /\ Found(stored[e])
    BY <1>1, <1>3 DEF SameSight, LooksLike, Found
  <2>2. CASE ~Retired(e)
    BY <1>0, <1>2, <2>1, <2>2 DEF FoundRuns
  <2>3. CASE Retired(e)
    <3>1. CASE w.pc = "cleanupVS"
      <4>1. CleansVS \/ Beside
        BY <3>1 DEF Kinds, Takes, Rests, Reads, Looks, Finds, GivesUp, LaysDR, LaysVS, OpensDR, OpensVS,
           Weighs, Misses, Counts, Aborts, Splits, Completes, CleansTargets, CleansDR, Reports, BeforePcs
      <4>2. w'.e = w.e /\ (w'.pc = "cleanupVS" \/ (w'.pc = "end" /\ w'.inst.status.completed))
        BY <3>1, <4>1 DEF CleansVS, Beside, Follows, Continues
      <4>3. QED
        BY <1>1, <2>3, <4>2 DEF Retired
    <3>2. CASE w.pc = "end" /\ w.inst.status.completed
      <4>1. w.statusUpdate
        BY <3>2, HerePeace DEF Runs, OffPcs
      <4>2. Reports \/ Beside
        BY <3>2 DEF Kinds, Takes, Rests, Reads, Looks, Finds, GivesUp, LaysDR, LaysVS, OpensDR, OpensVS,
           Weighs, Misses, Counts, Aborts, Splits, Completes, CleansTargets, CleansDR, CleansVS, BeforePcs
      <4>3. CASE Beside
        BY <1>1, <2>3, <3>2, <4>3 DEF Beside, Agrees, Retired, OffPcs
      <4>4. CASE Reports
        <5>1. stored'[e].status = w.inst.status \/ Completed(e)
          <6>1. w.e = e
            BY <2>3 DEF Retired
          <6>2. stored'[w.e] = [stored[w.e] EXCEPT !.status = w.inst.status]
            BY <4>1, <4>4 DEF Reports
          <6>3. "status" \in DOMAIN stored[w.e]
            BY <3>2, HerePeace DEF OffPcs, IsCopy, ObjectFields
          <6>4. QED
            BY <6>1, <6>2, <6>3
        <5>2. QED
          BY <1>1, <2>1, <3>2, <5>1 DEF Found, Completed
      <4>5. QED
        BY <4>2, <4>3, <4>4
    <3>3. QED
      BY <2>3, <3>1, <3>2 DEF Retired
  <2>4. QED
    BY <2>2, <2>3
<1>4. CASE Reports /\ w.statusUpdate
  <2>1. CASE e # w.e
    BY <1>0, <1>1, <1>2, <1>4, <2>1 DEF Reports, FoundRuns, Retired
  <2>2. CASE e = w.e
    <3>1. stored'[e].status = w.inst.status
      BY <1>4, <2>2, ReportLeaves
    <3>2. Found(w.inst)
      BY <1>1, <3>1 DEF Found
    <3>3. RunsAt(e)
      BY <1>4, <2>2, <3>2, HerePeace DEF Runs, Reports, OffPcs
    <3>4. QED
      BY <1>2, <3>3
  <2>3. QED
    BY <2>1, <2>2
<1>5. CASE Beside
  <2>1. stored[e] # None /\ LooksLike(stored[e], stored'[e])
    <3>1. ~Found(NewObject(e))
      BY DEF Found, NewObject
    <3>2. QED
      BY <1>1, <1>5, <3>1 DEF Beside
  <2>2. Found(stored[e])
    BY <1>1, <2>1 DEF Found, LooksLike
  <2>3. ~Retired(e)
    BY <1>1, <1>5 DEF Beside, Retired, Agrees, OffPcs
  <2>4. QED
    BY <1>0, <1>2, <2>1, <2>2, <2>3 DEF FoundRuns
<1>6. QED
  BY <1>3, <1>4, <1>5, SightKept DEF Reports

\* What the copy says of targets and rules, with o for the object and b for whether
\* the rules run.
RunsGiven(x, o, b) ==
  /\ x.pc \in BeforePcs \cup LayPcs =>
       /\ x.inst.status.targets = o.status.targets
       /\ x.inst.status.completed = o.status.completed
  /\ x.pc \in BeforePcs \cup {"detect", "baselineDR", "baselineVS"} =>
       x.inst.status.weights = o.status.weights
  /\ x.pc \in LayPcs => x.inst.status.targets # "True"
  /\ x.pc \in RunPcs => b
  /\ x.pc = "end" => /\ x.inst.status.completed => x.statusUpdate
                     /\ Found(x.inst) => b

LEMMA OnRunsKept ==
  ASSUME Ground, NoneIsNoRule, Kinds, [Next]_vars, OnKinds \/ Aborts, NEW e \in Experiments, e = w.e
  PROVE  w'.e = e /\ RunsGiven(w', stored'[e], RunsAt(e)')
<1> USE DEF BeforePcs, LayPcs, RunPcs
<1>1. w.pc \notin OffPcs
  BY OnKindsGo DEF Aborts, OffPcs
<1>2. stored[e] # None /\ RunsGiven(w, stored[e], RunsAt(e)) /\ w.pc \in Pcs
  <2>1. Runs(w) /\ stored[w.e] # None
    BY <1>1, HerePeace
  <2>2. IInv
    BY DEF Ground, ServedInv
  <2>3. QED
    BY <2>1, <2>2 DEF Runs, RunsGiven, IInv, WorkerInv
<1>3. w'.e = e
  BY OnKindsGo DEF Aborts, Continues
<1>4. LooksLike(stored[e], stored'[e])
  <2>1. SameSight
    BY DEF OnKinds, Reads, Looks, Finds, GivesUp, LaysDR, LaysVS, OpensDR, OpensVS, Weighs, Misses,
       Counts, Aborts, Splits, Completes, CleansTargets, CleansDR, CleansVS, Still, PutsHere
  <2>2. QED
    BY <1>2, <2>1 DEF SameSight
<1>5. stored'[e].status.targets = stored[e].status.targets
      /\ stored'[e].status.completed = stored[e].status.completed
      /\ stored'[e].status.weights = stored[e].status.weights
  BY <1>4 DEF LooksLike
<1>6. RunsAt(e) /\ ~CleansDR => RunsAt(e)'
  BY RunsStay
<1>7. OpensVS \/ Splits => RunsAt(e)'
  BY RunsStay
<1>8. w.pc \in {"iterate", "split", "complete", "cleanupTargets"} => ~w.inst.status.completed
  BY HereWorks DEF WorkPcs, CleanupPcs
<1>9. CASE Reads
  BY <1>2, <1>3, <1>5, <1>9 DEF Reads, RunsGiven, Follows, Agrees
<1>10. CASE Looks
  BY <1>2, <1>3, <1>5, <1>10 DEF Looks, RunsGiven, Follows, Agrees
<1>11. CASE Finds
  <2>1. RunsAt(e) /\ ~CleansDR
    BY <1>11 DEF Finds, CleansDR
  <2>2. w'.pc \in {"iterate", "complete", "end"} /\ ~w'.inst.status.completed
    BY <1>11 DEF Finds
  <2>3. QED
    BY <1>3, <1>6, <2>1, <2>2 DEF RunsGiven
<1>12. CASE GivesUp
  BY <1>3, <1>12 DEF GivesUp, RunsGiven, Found
<1>13. CASE LaysDR
  BY <1>2, <1>3, <1>5, <1>13 DEF LaysDR, RunsGiven, Follows, Agrees
<1>14. CASE LaysVS
  BY <1>2, <1>3, <1>5, <1>14 DEF LaysVS, RunsGiven, Agrees
<1>15. CASE OpensDR
  BY <1>2, <1>3, <1>5, <1>15 DEF OpensDR, RunsGiven, Agrees
<1>16. CASE OpensVS
  BY <1>3, <1>7, <1>16 DEF OpensVS, RunsGiven
<1>17. CASE Weighs
  <2>1. RunsAt(e)'
    BY <1>2, <1>6, <1>17 DEF Weighs, CleansDR, RunsGiven
  <2>2. QED
    BY <1>3, <1>17, <2>1 DEF Weighs, RunsGiven
<1>18. CASE Misses \/ Counts \/ Aborts
  <2>1. RunsAt(e)'
    BY <1>2, <1>6, <1>18 DEF Misses, Counts, Aborts, CleansDR, RunsGiven
  <2>2. w'.pc \in {"complete", "end"} /\ w'.inst.status.completed = w.inst.status.completed
        /\ ~w.inst.status.completed
    BY <1>8, <1>18 DEF Misses, Counts, Aborts, Agrees
  <2>3. QED
    BY <1>3, <2>1, <2>2 DEF RunsGiven
<1>19. CASE Splits
  <2>1. w'.pc \in {"complete", "end"} /\ w'.inst.status.completed = w.inst.status.completed
        /\ ~w.inst.status.completed
    BY <1>8, <1>19 DEF Splits, Agrees
  <2>2. QED
    BY <1>3, <1>7, <1>19, <2>1 DEF RunsGiven
<1>20. CASE Completes \/ CleansTargets
  <2>1. RunsAt(e)'
    BY <1>2, <1>6, <1>20 DEF Completes, CleansTargets, CleansDR, RunsGiven
  <2>2. w'.pc \in {"cleanupTargets", "cleanupDR"}
    BY <1>20 DEF Completes, CleansTargets
  <2>3. QED
    BY <1>3, <2>1, <2>2 DEF RunsGiven
<1>21. CASE CleansDR
  BY <1>3, <1>21 DEF CleansDR, RunsGiven
<1>22. CASE CleansVS
  BY <1>3, <1>22 DEF CleansVS, RunsGiven, Found
<1>23. QED
  BY <1>9, <1>10, <1>11, <1>12, <1>13, <1>14, <1>15, <1>16, <1>17, <1>18, <1>19, <1>20, <1>21, <1>22
  DEF OnKinds

LEMMA RunsKept ==
  ASSUME Ground, NoneIsNoRule, Kinds, [Next]_vars, w'.pc \notin OffPcs
  PROVE  Runs(w)'
<1> USE DEF BeforePcs, LayPcs, RunPcs
<1>1. ASSUME NEW e \in Experiments, w'.e = e, RunsGiven(w', stored'[e], RunsAt(e)')
      PROVE  Runs(w)'
  BY <1>1 DEF Runs, RunsGiven, RunsAt, RunsFor
<1>2. CASE OnKinds \/ Aborts
  <2>1. w.pc \notin OffPcs
    BY <1>2, OnKindsGo DEF Aborts, OffPcs
  <2>2. w.e \in Experiments
    BY <2>1, HerePeace
  <2>3. QED
    BY <1>1, <1>2, <2>2, OnRunsKept
<1>3. CASE Takes
  <2>1. PICK e \in Experiments :
          w'.e = e /\ w'.pc \in OpenPcs /\ stored[e] # None /\ w'.inst = stored[e] /\ SameSight
    BY <1>3 DEF Takes, OffPcs, Still
  <2>2. LooksLike(stored[e], stored'[e])
    BY <2>1 DEF SameSight
  <2>3. RunsGiven(w', stored'[e], RunsAt(e)')
    BY <2>1, <2>2 DEF RunsGiven, LooksLike, OpenPcs
  <2>4. QED
    BY <1>1, <2>1, <2>3
<1>4. CASE Rests \/ Reports
  BY <1>4 DEF Rests, Reports, Idle, OffPcs
<1>5. CASE Beside
  <2>1. w.pc \notin OffPcs /\ w'.pc = w.pc /\ w'.e = w.e
    BY <1>5 DEF Beside
  <2>2. w.e \in Experiments /\ Runs(w) /\ stored[w.e] # None
    BY <2>1, HerePeace
  <2>3. /\ Follows(w, w') /\ Agrees(w, w') /\ w'.statusUpdate = w.statusUpdate
        /\ LooksLike(stored[w.e], stored'[w.e]) /\ UNCHANGED ruleVars
    BY <1>5, <2>1, <2>2 DEF Beside
  <2>4. ASSUME NEW e \in Experiments, e = w.e PROVE RunsGiven(w', stored'[e], RunsAt(e)')
    <3>1. RunsAt(e)' <=> RunsAt(e)
      BY <2>3 DEF RunsAt, RunsFor, ruleVars
    <3>2. RunsGiven(w, stored[e], RunsAt(e))
      BY <2>2, <2>4 DEF Runs, RunsGiven
    <3>3. QED
      BY <2>1, <2>3, <2>4, <3>1, <3>2 DEF RunsGiven, Follows, Agrees, LooksLike, Found
  <2>5. QED
    BY <1>1, <2>1, <2>2, <2>4
<1>6. QED
  BY <1>2, <1>3, <1>4, <1>5 DEF Kinds, OnKinds

LEMMA RestKept ==
  ASSUME Ground, NoneIsNoRule, Kinds, [Next]_vars
  PROVE  RestInv'
<1>1. PairsAlike' /\ RulesHalfway'
  BY HalvesKept
<1>2. RunsAtHome' /\ FoundRuns'
  BY HomeKept, FoundRunsKept
<1>3. w'.pc \notin OffPcs => Runs(w)'
  BY RunsKept
<1>4. QED
  BY <1>1, <1>2, <1>3 DEF RestInv

-----------------------------------------------------------------------------
(* Rules that fit each other.                                              *)

LEMMA InitPeace ==
  ASSUME Peace, Init
  PROVE  PeaceInv
<1>1. /\ w = Idle /\ announced = exists
      /\ \A e \in Experiments : stored[e] = None
      /\ experimentAbstractStore = [e \in Experiments |-> None]
      /\ budget = [uncreated |-> Experiments, overrides |-> MaxOverrides,
                   arrivals |-> MaxArrivals, losses |-> MaxLosses, failures |-> MaxFailures,
                   crashes |-> MaxCrashes]
  BY DEF Init, Cache!CacheInit
<1>2. Spent
  BY <1>1 DEF Peace, Spent, Quota
<1>3. ObjectsUntouched /\ ClaimsKnown /\ LossesKnown
  BY <1>1 DEF ObjectsUntouched, ClaimsKnown, LossesKnown, Claimed
<1>4. w.pc \in OffPcs /\ DOMAIN experimentAbstractStore = Experiments
  BY <1>1 DEF Idle, OffPcs
<1>5. QED
  BY <1>2, <1>3, <1>4 DEF PeaceInv

LEMMA InitRest ==
  ASSUME RulesGiven, NoneIsNoRule, Init
  PROVE  RestInv
<1>1. w = Idle /\ \A e \in Experiments : stored[e] = None
  BY DEF Init
<1>2. \A s \in Services : ~IsProgressing(dr[s], vs[s])
  BY InitQuiet
<1>3. PairsAlike
  <2>1. PICK q \in [Services -> InitialRules] :
          dr = [s \in Services |-> q[s].dr] /\ vs = [s \in Services |-> q[s].vs]
    BY DEF Init
  <2>2. SUFFICES ASSUME NEW s \in Services PROVE Alike(dr[s], vs[s])
    BY DEF PairsAlike
  <2>3. dr[s] = q[s].dr /\ vs[s] = q[s].vs /\ q[s] \in InitialRules
    BY <2>1
  <2>4. CASE q[s].dr = None /\ q[s].vs = None
    BY <2>3, <2>4 DEF Alike
  <2>5. CASE /\ DOMAIN q[s].dr = {"labels", "subsets"}
             /\ DOMAIN q[s].vs = {"labels", "routes", "match"}
             /\ {q[s].dr.labels, q[s].vs.labels} = {StableLabels}
    <3>1. q[s].dr # None /\ q[s].vs # None
      BY <2>5 DEF NoneIsNoRule
    <3>2. ~Dangling(q[s].dr, q[s].vs)
      BY <2>3, <3>1 DEF RulesGiven
    <3>3. q[s].dr.labels = q[s].vs.labels
      BY <2>5
    <3>4. QED
      BY <2>3, <3>1, <3>2, <3>3 DEF Alike
  <2>6. QED
    BY <2>3, <2>4, <2>5, SpecAssumption
<1>4. RulesHalfway /\ w.pc \in OffPcs
  BY <1>1 DEF RulesHalfway, Idle, OffPcs
<1>5. RunsAtHome /\ FoundRuns
  BY <1>1, <1>2 DEF RunsAtHome, FoundRuns, RunsFor
<1>6. QED
  BY <1>3, <1>4, <1>5 DEF RestInv

\* What the proofs assume of None: it is neither an object nor a rule.
NoneIsNothing == NoneIsNoAbstract /\ NoneIsNoObject /\ NoneIsNoRule

LEMMA GroundHolds ==
  ASSUME Peace, RulesGiven, NoneIsNothing
  PROVE  Spec => []Ground
<1> USE DEF NoneIsNothing
<1>1. Spec => []ServedInv
  BY ServedHolds
<1>2. Spec => []Cache!LookupSound
  BY CacheHolds
<1>3. Init => PeaceInv /\ RestInv
  BY InitPeace, InitRest
<1>4. ServedInv /\ Cache!LookupSound /\ PeaceInv /\ RestInv /\ [Next]_vars => (PeaceInv /\ RestInv)'
  <2> SUFFICES ASSUME Ground, [Next]_vars PROVE PeaceInv' /\ RestInv'
    BY DEF Ground
  <2>1. Kinds
    BY StepIsKind
  <2>2. QED
    BY <2>1, PeaceKept, RestKept
<1>5. ServedInv /\ Cache!LookupSound /\ PeaceInv /\ RestInv => Ground
  BY DEF Ground
<1>6. QED
  BY <1>1, <1>2, <1>3, <1>4, <1>5, PTL DEF Spec

(***************************************************************************)
(* Whenever the worker rests, no rule routes traffic to a subset that is   *)
(* missing, for any experiments, services and answers: between the two     *)
(* writes of a pair the worker does not rest, and each second write fits   *)
(* the first one.  Nothing fails, crashes or is lost here; the rules found *)
(* at first fit each other.                                                *)
(***************************************************************************)
THEOREM RoutesFit ==
  ASSUME Peace, RulesGiven, NoneIsNothing
  PROVE  Spec => []RoutesDefined
<1>1. Ground => RoutesDefined
  BY DEF Ground, RestInv, PairsAlike, Alike, RoutesDefined, At, HalfPcs
<1>2. QED
  BY <1>1, GroundHolds, PTL

-----------------------------------------------------------------------------
(* What is freed stays freed.                                              *)

\* The cleanup of e has left its DestinationRule for good.
Freed(e) == Completed(e) \/ Retired(e)

LEMMA FreedKept ==
  ASSUME Ground, Kinds, NEW e \in Experiments
  PROVE  Freed(e)' => Freed(e) \/ (e = w.e /\ CleansDR)
<1>1. CASE OnKinds \/ Aborts
  <2>1. SameSight
    BY <1>1, SightKept DEF OnKinds, SightKinds
  <2>2. w'.e = w.e
    BY <1>1, OnKindsGo DEF Continues, Aborts
  <2>3. Completed(e)' <=> Completed(e)
    BY <2>1, SightCompleted
  <2>4. CASE Reads \/ Looks \/ Finds \/ GivesUp
    BY <2>2, <2>3, <2>4 DEF Reads, Looks, Finds, GivesUp, Freed, Retired, BeforePcs
  <2>5. CASE LaysDR \/ LaysVS \/ OpensDR \/ OpensVS
    BY <2>2, <2>3, <2>5 DEF LaysDR, LaysVS, OpensDR, OpensVS, Freed, Retired
  <2>6. CASE Weighs \/ Misses \/ Counts \/ Aborts \/ Splits
    <3>1. w.pc \in WorkPcs
      BY <2>6 DEF Weighs, Misses, Counts, Aborts, Splits, WorkPcs
    <3>2. ~w.inst.status.completed
      BY <3>1, HereWorks
    <3>3. QED
      BY <2>2, <2>3, <2>6, <3>2 DEF Weighs, Misses, Counts, Aborts, Splits, Freed, Retired, Agrees
  <2>7. CASE Completes \/ CleansTargets
    BY <2>2, <2>3, <2>7 DEF Completes, CleansTargets, Freed, Retired
  <2>8. CASE CleansDR \/ CleansVS
    BY <2>2, <2>3, <2>8 DEF CleansDR, CleansVS, Freed, Retired
  <2>9. QED
    BY <1>1, <2>4, <2>5, <2>6, <2>7, <2>8 DEF OnKinds
<1>2. CASE Takes
  <2>1. Completed(e)' <=> Completed(e)
    BY <1>2, SightCompleted DEF Takes, Still
  <2>2. w'.pc \in {"notFound"} \cup OpenPcs
    BY <1>2 DEF Takes
  <2>3. QED
    BY <2>1, <2>2 DEF Freed, Retired, OpenPcs
<1>3. CASE Rests
  BY <1>3, SightCompleted DEF Rests, Still, Freed, Retired, Idle
<1>4. CASE Reports
  <2>1. w.pc = "end" /\ w' = Idle
    BY <1>4 DEF Reports
  <2>2. w.inst.status.completed => w.statusUpdate
    BY <2>1, HerePeace DEF Runs, OffPcs
  <2>3. CASE SameSight /\ ~w.statusUpdate
    BY <2>1, <2>2, <2>3, SightCompleted DEF Freed, Retired, Idle
  <2>4. CASE w.statusUpdate
    <3>1. e = w.e => (Completed(e)' <=> w.inst.status.completed)
      BY <1>4, <2>4, ReportLeaves DEF Completed
    <3>2. e # w.e => (Completed(e)' <=> Completed(e))
      BY <1>4, <2>4 DEF Reports, Completed
    <3>3. QED
      BY <2>1, <3>1, <3>2 DEF Freed, Retired, Idle
  <2>5. QED
    BY <1>4, <2>3, <2>4 DEF Reports
<1>5. CASE Beside
  <2>1. Completed(e)' <=> Completed(e)
    <3>1. NewObject(e).status.completed = FALSE
      BY DEF NewObject
    <3>2. QED
      BY <1>5, <3>1 DEF Beside, LooksLike, Completed
  <2>2. /\ w'.pc = w.pc /\ w'.e = w.e
        /\ w.pc = "end" => w'.inst.status.completed = w.inst.status.completed
    BY <1>5 DEF Beside, Agrees, OffPcs
  <2>3. QED
    BY <2>1, <2>2 DEF Freed, Retired
<1>6. QED
  BY <1>1, <1>2, <1>3, <1>4, <1>5 DEF Kinds, OnKinds

\* Rules are written for experiments that have not completed.
LEMMA WritesUncompleted ==
  ASSUME Ground, w.pc \in WritePcs \cup CleanupPcs \cup {"complete"}
  PROVE  w.e \in Experiments /\ ~Completed(w.e)
<1> USE DEF WritePcs, CleanupPcs
<1>1. w.pc \notin OffPcs
  BY DEF OffPcs
<1>2. w.e \in Experiments /\ stored[w.e] # None /\ w.fresh
  BY <1>1, HerePeace
<1>3. IInv /\ Sound(w.e, stored[w.e])
  BY <1>2 DEF Ground, ServedInv, IInv, ObjectsInv
<1>4. CASE w.pc \in CleanupPcs \cup {"complete"}
  BY <1>2, <1>3, <1>4, HereCloses DEF Closing, Saves, StoredActive, Sound, Completed
<1>5. CASE w.pc \in UserPcs \cup RulePcs
  BY <1>2, <1>3, <1>5, HereReady DEF Ready, Saves, StoredActive, Sound, Completed
<1>6. QED
  BY <1>2, <1>4, <1>5 DEF UserPcs, RulePcs

-----------------------------------------------------------------------------
(* Whom the rules begin to run for.                                        *)

LEMMA RunsBegin ==
  ASSUME Ground, NoneIsNoRule, Kinds, [Next]_vars, NEW e \in Experiments, RunsAt(e)', ~RunsAt(e)
  PROVE  e = w.e /\ OpensVS
<1>1. IInv /\ RulesLaid /\ KnownRules /\ RulesHalfway
  BY DEF Ground, ServedInv, RestInv
<1>2. RulesLaid' /\ IInv'
  BY <1>1, StepsKeepLaid, NextInv
<1>e. SpecOf[e].service \in Services
  BY SpecAssumption DEF ExperimentSpecs
<1>3. e = w.e
  BY <1>e, RunsStay DEF RunsAt
<1>4. RuleKinds
  <2>1. ~QuietKinds
    BY QuietKindsStay DEF RunsAt, RunsFor, ruleVars
  <2>2. QED
    BY <2>1 DEF Kinds, QuietKinds, RuleKinds
<1>5. w'.e = e /\ Svc(w') = Svc(w) /\ Svc(w) = SpecOf[e].service
  BY <1>3, <1>4, RuleKindsWrite DEF Written, Svc, SpecAt
<1>6. IsProgressing(dr'[Svc(w)], vs'[Svc(w)])
  BY <1>5 DEF RunsAt, RunsFor
<1>7. ~LaysDR /\ ~LaysVS
  <2>1. LaysDR \/ LaysVS => w'.pc \in {"baselineVS", "candidates"}
    BY DEF LaysDR, LaysVS
  <2>2. QED
    BY <1>2, <1>5, <1>6, <2>1 DEF RulesLaid, Laid
<1>8. ~CleansDR
  <2>1. CleansDR => w'.pc = "cleanupVS"
    BY DEF CleansDR
  <2>2. w'.pc = "cleanupVS" => Owned(w', dr'[Svc(w')], vs'[Svc(w')])
    BY <1>2 DEF IInv, RulesInv
  <2>3. QED
    BY <1>5, <1>6, <2>1, <2>2 DEF Owned
<1>9. ~CleansVS
  <2>1. SUFFICES ASSUME CleansVS PROVE FALSE
    OBVIOUS
  <2>2. w.pc = "cleanupVS" /\ w.pc \in WritePcs
    BY <2>1 DEF CleansVS, WritePcs
  <2>3. dr'[Svc(w)] = dr[Svc(w)]
    BY <2>1, <2>2, HereLies DEF CleansVS, PutsHere
  <2>4. dr[Svc(w)] = None \/ dr[Svc(w)].labels = StableLabels
    BY <2>2, HereLies DEF Halfway, StableDestinationRule
  <2>5. QED
    BY <1>6, <2>3, <2>4 DEF IsProgressing, StableLabels
<1>10. ~Splits
  <2>1. SUFFICES ASSUME Splits PROVE FALSE
    OBVIOUS
  <2>2. w.pc = "split" /\ w.pc \notin OffPcs
    BY <2>1 DEF Splits, OffPcs
  <2>3. RunsAt(w.e)
    BY <2>2, HerePeace DEF Runs, RunPcs
  <2>4. QED
    BY <1>3, <2>3
<1>11. ~OpensDR
  <2>1. SUFFICES ASSUME OpensDR PROVE FALSE
    OBVIOUS
  <2> DEFINE d == dr[Svc(w)]
             v == vs[Svc(w)]
  <2>2. w.pc = "candidates" /\ w.pc \in WritePcs /\ w.pc \notin HalfPcs
    BY <2>1 DEF OpensDR, WritePcs, HalfPcs
  <2>3. /\ Svc(w) \in Services /\ d # None /\ v # None /\ d.labels = v.labels
        /\ ~IsProgressing(d, v)
    BY <2>2, HereLies DEF Alike, Halfway, Laid
  <2>4. vs'[Svc(w)] = v
    BY <2>1, <2>3 DEF OpensDR, PutsHere
  <2>5. QED
    BY <1>6, <2>3, <2>4 DEF IsProgressing
<1>12. QED
  BY <1>3, <1>4, <1>7, <1>8, <1>9, <1>10, <1>11 DEF RuleKinds

-----------------------------------------------------------------------------
(* The deployments that traffic reaches after a cleanup.                   *)

\* Rules that cleanup left select deployments of the experiment that still exist.
RulesReach(e) ==
  LET d == dr[SpecOf[e].service] IN
  Freed(e) /\ d # None => \A n \in DOMAIN d.subsets : d.subsets[n] \in TargetsOf(e) \cap exists
RunsReach(e) == RunsAt(e) => TargetsExist(e) \/ (w.e = e /\ w.pc = "cleanupDR")
\* What the worker has seen of the targets, or left of them.
Reaches(x) ==
  LET spec == SpecAt(x) IN
  /\ x.pc \in {"baselineDR", "baselineVS", "candidates"} => {spec.service, spec.baseline} \subseteq exists
  /\ x.pc = "candidatesVS" => TargetsExist(x.e)
  /\ x.pc = "cleanupDR" => \A v \in DOMAIN Stable(x) : Deployment(spec, v) \in exists
ReachInv ==
  /\ \A e \in Experiments : SpecOf[e].cleanup => RulesReach(e) /\ RunsReach(e)
  /\ w.pc \notin OffPcs /\ SpecAt(w).cleanup => Reaches(w)

\* Versions are targets.
LEMMA VersionTargets ==
  ASSUME NEW e \in Experiments, NEW v \in Versions(SpecOf[e])
  PROVE  Deployment(SpecOf[e], v) \in TargetsOf(e)
<1>1. CASE v = 0
  BY <1>1 DEF Deployment, TargetsOf
<1>2. CASE v # 0
  <2>1. SpecOf[e].candidates \in Seq(Deployments)
    BY SpecAssumption DEF ExperimentSpecs
  <2>2. v \in DOMAIN SpecOf[e].candidates
    BY <1>2, <2>1 DEF Versions
  <2>3. QED
    BY <1>2, <2>2 DEF Deployment, TargetsOf, Range
<1>3. QED
  BY <1>1, <1>2

\* What cleanup keeps is what its rules may name.
LEMMA StableKept ==
  ASSUME NEW spec, NEW t \in Strategies, NEW win, NEW k
  PROVE  DOMAIN ToStable(spec, t, win, k) \subseteq Kept(spec, t, win, k)
  BY DEF ToStable, Kept, Strategies

\* Targets of experiments that clean up disappear by their own cleanup only.
LEMMA TargetsStay ==
  ASSUME Ground, Peace, Kinds, NEW e \in Experiments, SpecOf[e].cleanup
  PROVE  (e # w.e \/ ~CleansTargets) => TargetsOf(e) \cap exists \subseteq exists'
<1>1. ASSUME NEW t \in exists \ exists', t \in TargetsOf(e)
      PROVE  e = w.e
  <2>1. w.e \in Experiments /\ SpecAt(w).cleanup /\ t \in TargetsOf(w.e)
    BY <1>1, DeletedOver
  <2>2. QED
    BY <1>1, <2>1 DEF Peace, SpecAt
<1>2. ASSUME ~CleansTargets PROVE exists \subseteq exists'
  BY <1>2 DEF Kinds, Takes, Rests, Reads, Looks, Finds, GivesUp, LaysDR, LaysVS, OpensDR, OpensVS,
     Weighs, Misses, Counts, Aborts, Splits, Completes, CleansDR, CleansVS, Reports, Beside,
     Still, PutsHere
<1>3. QED
  BY <1>1, <1>2

\* Nobody else writes rules of a service whose experiment cleans up.
LEMMA OwnService ==
  ASSUME Ground, Peace, NoneIsNoRule, Kinds, NEW e \in Experiments, SpecOf[e].cleanup, e # w.e
  PROVE  dr'[SpecOf[e].service] = dr[SpecOf[e].service]
         /\ vs'[SpecOf[e].service] = vs[SpecOf[e].service]
<1>1. CASE QuietKinds
  BY <1>1, QuietKindsStay DEF ruleVars
<1>2. CASE RuleKinds
  <2>1. w.pc \in WritePcs /\ \A s \in Services \ {Svc(w)} : dr'[s] = dr[s] /\ vs'[s] = vs[s]
    BY <1>2, RuleKindsWrite
  <2>2. w.e \in Experiments /\ Svc(w) = SpecOf[w.e].service
    BY <2>1, HereLies
  <2>3. SpecOf[e].service \in Services
    BY SpecAssumption DEF ExperimentSpecs
  <2>4. Svc(w) # SpecOf[e].service
    BY <2>2 DEF Peace, TargetsOf
  <2>5. QED
    BY <2>1, <2>3, <2>4
<1>3. QED
  BY <1>1, <1>2 DEF Kinds, QuietKinds, RuleKinds

LEMMA RulesReachKept ==
  ASSUME Ground, Peace, NoneIsNoRule, ReachInv, Kinds, NEW e \in Experiments, SpecOf[e].cleanup
  PROVE  RulesReach(e)'
<1> DEFINE s == SpecOf[e].service
<1>1. RulesReach(e)
  BY DEF ReachInv
<1>2. SUFFICES ASSUME Freed(e)', dr'[s] # None, NEW n \in DOMAIN dr'[s].subsets
               PROVE  dr'[s].subsets[n] \in TargetsOf(e) \cap exists'
  BY DEF RulesReach
<1>3. CASE e = w.e /\ CleansDR
  <2>1. w.pc = "cleanupDR" /\ w.pc \in WritePcs /\ w.pc \notin OffPcs
    BY <1>3 DEF CleansDR, WritePcs, OffPcs
  <2>2. Svc(w) = s /\ Svc(w) \in Services /\ SpecAt(w) = SpecOf[e] /\ Served(dr[s], vs[s])
        /\ IsProgressing(dr[s], vs[s]) /\ dr[s].labels.experiment = e
    BY <1>3, <2>1, HereLies
  <2>3. dr[s].subsets = AllSubsets(SpecOf[e])
    BY <2>2 DEF Served
  <2> DEFINE f == Stable(w)
             kept == {v \in DOMAIN f : Subset(v) \in DOMAIN dr[s].subsets}
             at(m) == CHOOSE v \in kept : f[v] = m
  <2> DEFINE q == StableDestinationRule(dr[s], f)
  <2>4. dr'[s] = q
    <3>1. dr'[Svc(w)] = IF Removing(w) THEN None ELSE StableDestinationRule(dr[Svc(w)], f)
      BY <1>3, <2>2 DEF CleansDR, PutsHere
    <3> HIDE DEF f
    <3>2. QED
      BY <1>2, <2>2, <3>1
  <2>5. n \in {f[v] : v \in kept} /\ dr'[s].subsets[n] = dr[s].subsets[Subset(at(n))]
    <3> HIDE DEF f, s
    <3>1. q.subsets = [m \in {f[v] : v \in kept} |-> dr[s].subsets[Subset(at(m))]]
      BY DEF StableDestinationRule
    <3>2. n \in DOMAIN dr'[s].subsets
      BY <1>2
    <3> HIDE DEF kept, at
    <3> DEFINE names == {f[v] : v \in kept}
               h(m) == dr[s].subsets[Subset(at(m))]
    <3> HIDE DEF q, names, h
    <3>3. q.subsets = [m \in names |-> h(m)]
      BY <3>1 DEF names, h
    <3>4. n \in names /\ dr'[s].subsets[n] = h(n)
      BY <2>4, <3>2, <3>3
    <3>5. QED
      BY <3>4 DEF names, h
  <2> HIDE DEF q
  <2> DEFINE v == at(n)
  <2>6. v \in kept
    BY <2>5
  <2>7. DOMAIN f \subseteq Versions(SpecOf[e])
    BY <2>1, <2>2, HereStable
  <2>8. Deployment(SpecOf[e], v) \in exists
    <3>1. Reaches(w)
      BY <2>1, <2>2 DEF ReachInv
    <3> HIDE DEF v, at
    <3>2. QED
      BY <2>1, <2>2, <2>6, <3>1 DEF Reaches
  <2>9. v \in Versions(SpecOf[e]) /\ v \in Nat
    <3>1. Len(SpecOf[e].candidates) \in Nat
      BY SpecAssumption DEF ExperimentSpecs
    <3> HIDE DEF v, at
    <3>2. QED
      BY <2>6, <2>7, <3>1, VersionsFinite
  <2> HIDE DEF v
  <2>10. AllSubsets(SpecOf[e])[Subset(v)] = Deployment(SpecOf[e], v)
    BY <2>9 DEF AllSubsets, Names, Subset, Deployment
  <2>11. Deployment(SpecOf[e], v) \in exists'
    <3>1. ~CleansTargets
      BY <2>1 DEF CleansTargets
    <3>2. QED
      BY <2>8, <2>9, <3>1, VersionTargets, TargetsStay
  <2>12. dr'[s].subsets[n] = Deployment(SpecOf[e], v)
    BY <2>3, <2>5, <2>10 DEF v
  <2>13. QED
    BY <2>9, <2>11, <2>12, VersionTargets
<1>4. CASE ~(e = w.e /\ CleansDR)
  <2>1. Freed(e)
    BY <1>2, <1>4, FreedKept
  <2>2. dr'[s] = dr[s]
    <3>1. CASE e # w.e
      BY <3>1, OwnService
    <3>2. CASE e = w.e
      <4>1. CASE QuietKinds
        BY <4>1, QuietKindsStay DEF ruleVars
      <4>2. CASE CleansVS
        <5>1. w.pc \in WritePcs
          BY <4>2 DEF CleansVS, WritePcs
        <5>2. QED
          BY <3>2, <4>2, <5>1, HereLies DEF CleansVS, PutsHere
      <4>3. CASE RuleKinds /\ ~CleansVS
        <5>1. w.pc \in WritePcs /\ w.pc # "cleanupVS" /\ w.pc # "end"
          BY <1>4, <3>2, <4>3 DEF RuleKinds, LaysDR, LaysVS, OpensDR, OpensVS, Splits, WritePcs
        <5>2. QED
          BY <2>1, <3>2, <5>1, WritesUncompleted DEF Freed, Retired
      <4>4. QED
        BY <4>1, <4>2, <4>3 DEF Kinds, QuietKinds, RuleKinds
    <3>3. QED
      BY <3>1, <3>2
  <2>3. dr[s].subsets[n] \in TargetsOf(e) \cap exists
    BY <1>1, <1>2, <2>1, <2>2 DEF RulesReach
  <2>4. e # w.e \/ ~CleansTargets
    <3>1. CleansTargets => w.pc = "cleanupTargets"
      BY DEF CleansTargets
    <3>2. w.pc = "cleanupTargets" => ~Completed(w.e)
      BY WritesUncompleted DEF CleanupPcs
    <3>3. QED
      BY <2>1, <3>1, <3>2 DEF Freed, Retired
  <2>5. QED
    BY <2>2, <2>3, <2>4, TargetsStay
<1>5. QED
  BY <1>3, <1>4

LEMMA OpensReach ==
  ASSUME Ground, ReachInv, Kinds, NEW e \in Experiments, SpecOf[e].cleanup, e = w.e,
         OpensDR \/ OpensVS
  PROVE  TargetsExist(e) /\ TargetsExist(e)'
<1>1. exists' = exists /\ w.pc \notin OffPcs
  BY DEF OpensDR, OpensVS, PutsHere, OffPcs
<1>2. Reaches(w)
  BY <1>1 DEF ReachInv, SpecAt
<1>3. TargetsExist(e)
  <2>1. CASE OpensDR
    BY <1>2, <2>1 DEF OpensDR, Reaches, TargetsExist, TargetsOf, CandidatesExist, SpecAt
  <2>2. CASE OpensVS
    BY <1>2, <2>2 DEF OpensVS, Reaches
  <2>3. QED
    BY <2>1, <2>2
<1>4. QED
  BY <1>1, <1>3 DEF TargetsExist

LEMMA RunsReachKept ==
  ASSUME Ground, Peace, NoneIsNoRule, ReachInv, Kinds, [Next]_vars,
         NEW e \in Experiments, SpecOf[e].cleanup
  PROVE  RunsReach(e)'
<1>1. SUFFICES ASSUME RunsAt(e)' PROVE TargetsExist(e)' \/ (w'.e = e /\ w'.pc = "cleanupDR")
  BY DEF RunsReach
<1>2. CASE ~RunsAt(e)
  BY <1>1, <1>2, RunsBegin, OpensReach
<1>3. CASE RunsAt(e) /\ TargetsExist(e)
  <2>1. CASE e = w.e /\ CleansTargets
    BY <2>1 DEF CleansTargets, Follows, Continues
  <2>2. CASE e # w.e \/ ~CleansTargets
    BY <1>3, <2>2, TargetsStay DEF TargetsExist
  <2>3. QED
    BY <2>1, <2>2
<1>4. CASE w.e = e /\ w.pc = "cleanupDR"
  <2>1. CleansDR \/ Beside
    BY <1>4 DEF Kinds, Takes, Rests, Reads, Looks, Finds, GivesUp, LaysDR, LaysVS, OpensDR, OpensVS,
       Weighs, Misses, Counts, Aborts, Splits, Completes, CleansTargets, CleansVS, Reports, BeforePcs
  <2>2. CASE CleansDR
    <3>1. w'.pc = "cleanupVS" /\ w'.e = e
      BY <1>4, <2>2 DEF CleansDR, Follows, Continues
    <3>2. IInv'
      BY NextInv DEF Ground, ServedInv
    <3>3. ~IsProgressing(dr'[Svc(w')], vs'[Svc(w')])
      BY <3>1, <3>2 DEF IInv, RulesInv, Owned
    <3>4. QED
      BY <1>1, <3>1, <3>3 DEF RunsAt, RunsFor, Svc, SpecAt
  <2>3. CASE Beside
    BY <1>4, <2>3 DEF Beside
  <2>4. QED
    BY <2>1, <2>2, <2>3
<1>5. RunsReach(e)
  BY DEF ReachInv
<1>6. QED
  BY <1>2, <1>3, <1>4, <1>5 DEF RunsReach

\* For the deployments left, the names cleanup gives are those of versions it keeps.
LEMMA CleansReach ==
  ASSUME Ground, Peace, ReachInv, CleansTargets
  PROVE  \A v \in DOMAIN Stable(w) : Deployment(SpecAt(w), v) \in exists'
<1> DEFINE spec == SpecAt(w)
<1>1. w.pc = "cleanupTargets" /\ w.pc \notin OffPcs /\ w.pc \in RunPcs
  BY DEF CleansTargets, OffPcs, RunPcs
<1>2. w.e \in Experiments /\ spec.cleanup /\ RunsAt(w.e) /\ spec = SpecOf[w.e]
  BY <1>1, HerePeace DEF AtPeace, Runs, SpecAt
<1>3. TargetsExist(w.e)
  BY <1>1, <1>2 DEF ReachInv, RunsReach
<1>4. SUFFICES ASSUME NEW v \in DOMAIN Stable(w) PROVE Deployment(spec, v) \in exists'
  OBVIOUS
<1>5. v \in Versions(spec) /\ v \in KeptHere
  <2>1. w.inst.spec.onTermination \in Strategies /\ DOMAIN Stable(w) \subseteq Versions(SpecAt(w))
    BY <1>1, HereStable
  <2>2. DOMAIN Stable(w) \subseteq KeptHere
    BY <2>1, StableKept DEF Stable, KeptHere
  <2>3. QED
    BY <1>4, <2>1, <2>2
<1>6. Deployment(spec, v) \in exists
  BY <1>2, <1>3, <1>5, VersionTargets DEF TargetsExist
<1>7. Deployment(spec, v) \notin exists \ exists'
  BY <1>5 DEF CleansTargets
<1>8. QED
  BY <1>6, <1>7

LEMMA ReachesKept ==
  ASSUME Ground, Peace, ReachInv, Kinds, w'.pc \notin OffPcs, SpecAt(w').cleanup
  PROVE  Reaches(w)'
<1> DEFINE Reaching == {"baselineDR", "baselineVS", "candidates", "candidatesVS", "cleanupDR"}
<1>1. CASE w'.pc \notin Reaching
  BY <1>1 DEF Reaches
<1>2. CASE w'.pc \in Reaching
  <2>1. Looks \/ LaysDR \/ LaysVS \/ OpensDR \/ Completes \/ CleansTargets \/ Beside
    BY <1>2 DEF Kinds, Takes, Rests, Reads, Finds, GivesUp, OpensVS, Weighs, Misses, Counts, Aborts,
       Splits, CleansDR, CleansVS, Reports, BeforePcs, OpenPcs, Idle
  <2>2. w.pc \notin OffPcs
    <3>1. CASE Beside
      BY <3>1 DEF Beside
    <3>2. CASE ~Beside
      BY <2>1, <3>2 DEF Looks, LaysDR, LaysVS, OpensDR, Completes, CleansTargets, OffPcs
    <3>3. QED
      BY <3>1, <3>2
  <2>3. w'.e = w.e /\ SpecAt(w') = SpecAt(w) /\ w.e \in Experiments
    <3>1. w.e \in Experiments
      BY <2>2, HerePeace
    <3>2. w'.e = w.e
      BY <2>1 DEF Looks, LaysDR, LaysVS, OpensDR, Completes, CleansTargets, Beside, Follows, Continues
    <3>3. QED
      BY <3>1, <3>2 DEF SpecAt
  <2>4. Reaches(w)
    BY <2>2, <2>3 DEF ReachInv
  <2>5. CASE Looks
    BY <2>3, <2>5 DEF Looks, Still, Reaches, SpecAt
  <2>6. CASE LaysDR \/ LaysVS
    <3>1. exists' = exists /\ w'.pc \in {"baselineVS", "candidates"}
          /\ w.pc \in {"baselineDR", "baselineVS"}
      BY <2>6 DEF LaysDR, LaysVS, PutsHere
    <3>2. QED
      BY <2>3, <2>4, <3>1 DEF Reaches, SpecAt
  <2>7. CASE OpensDR
    <3>1. TargetsExist(w.e) /\ exists' = exists /\ w'.pc = "candidatesVS"
      BY <2>3, <2>7, OpensReach DEF OpensDR, PutsHere, SpecAt
    <3>2. QED
      BY <2>3, <3>1 DEF Reaches, TargetsExist
  <2>8. CASE Completes
    BY <1>2, <2>3, <2>8 DEF Completes
  <2>9. CASE CleansTargets
    <3>1. w'.pc = "cleanupDR" /\ w'.inst = w.inst
      BY <2>9 DEF CleansTargets
    <3>2. Stable(w') = Stable(w)
      BY <2>3, <3>1 DEF Stable
    <3>3. QED
      BY <2>3, <2>9, <3>1, <3>2, CleansReach DEF Reaches
  <2>10. CASE Beside
    <3>1. w'.pc = w.pc /\ exists \subseteq exists' /\ Stable(w') = Stable(w)
      BY <2>2, <2>3, <2>10 DEF Beside, Follows, Continues, Stable
    <3>2. TargetsExist(w.e) => TargetsOf(w'.e) \subseteq exists'
      BY <2>3, <3>1 DEF TargetsExist
    <3>3. QED
      BY <2>3, <2>4, <3>1, <3>2 DEF Reaches, TargetsExist, TargetsOf
  <2>11. QED
    BY <2>1, <2>5, <2>6, <2>7, <2>8, <2>9, <2>10
<1>3. QED
  BY <1>1, <1>2

LEMMA ReachKept ==
  ASSUME Ground, Peace, NoneIsNoRule, ReachInv, Kinds, [Next]_vars
  PROVE  ReachInv'
<1>1. \A e \in Experiments : SpecOf[e].cleanup => RulesReach(e)' /\ RunsReach(e)'
  BY RulesReachKept, RunsReachKept
<1>2. w'.pc \notin OffPcs /\ SpecAt(w').cleanup => Reaches(w)'
  BY ReachesKept
<1>3. QED
  BY <1>1, <1>2 DEF ReachInv, SpecAt

LEMMA InitReach ==
  ASSUME Init
  PROVE  ReachInv
<1>1. w = Idle /\ \A e \in Experiments : stored[e] = None
  BY DEF Init
<1>2. \A s \in Services : ~IsProgressing(dr[s], vs[s])
  BY InitQuiet
<1>3. \A e \in Experiments : SpecOf[e].service \in Services
  BY SpecAssumption DEF ExperimentSpecs
<1>4. QED
  BY <1>1, <1>2, <1>3
  DEF ReachInv, RulesReach, RunsReach, Freed, Completed, Retired, RunsAt, RunsFor, Idle, OffPcs

(***************************************************************************)
(* After a cleanup the traffic reaches deployments that exist: the cleanup *)
(* of the targets, which runs first, keeps each deployment that the rules  *)
(* cleaned up after it select, for any strategy, winner and weights; and   *)
(* no target of an experiment that cleans up is another's, so nobody else  *)
(* takes one away.                                                         *)
(***************************************************************************)
THEOREM TrafficReaches ==
  ASSUME Peace, RulesGiven, NoneIsNothing
  PROVE  Spec => []TrafficHasTargets
<1> USE DEF NoneIsNothing
<1>1. Spec => []Ground
  BY GroundHolds
<1>2. Init => ReachInv
  BY InitReach
<1>3. Ground /\ ReachInv /\ [Next]_vars => ReachInv'
  BY StepIsKind, ReachKept
<1>4. Ground /\ ReachInv => TrafficHasTargets
  <2> SUFFICES ASSUME Ground, ReachInv, At("idle"), NEW e \in Experiments, Completed(e),
                      SpecOf[e].cleanup, vs[SpecOf[e].service] # None
               PROVE  LET s == SpecOf[e].service IN
                      \A n \in DOMAIN dr[s].subsets : dr[s].subsets[n] \in exists
    BY DEF TrafficHasTargets
  <2>1. dr[SpecOf[e].service] # None
    <3>1. SpecOf[e].service \in Services
      BY SpecAssumption DEF ExperimentSpecs
    <3>2. QED
      BY <3>1 DEF Ground, RestInv, PairsAlike, Alike, At, HalfPcs
  <2>2. QED
    BY <2>1 DEF ReachInv, RulesReach, Freed
<1>5. QED
  BY <1>1, <1>2, <1>3, <1>4, PTL DEF Spec

-----------------------------------------------------------------------------
(* What the status says of the traffic.                                    *)

\* Each answer that does not roll all candidates back recommends a weight for each version.
AnswersComplete ==
  \A e \in Experiments : \A r \in Responses :
    LET spec == SpecOf[e] IN
    r.rollback # Versions(spec) \ {0} => Recommended(spec, r) = Versions(spec)

\* The routes of e's service have weights k; no candidate has any.
Shown(e, k) ==
  \A v \in Versions(SpecOf[e]) : vs[SpecOf[e].service].routes[Subset(v)] = k[v]
AllBaseline(e, k) == \A v \in Versions(SpecOf[e]) \ {0} : k[v] = 0
Truthful(e, k) == (RunsAt(e) => Shown(e, k)) /\ (~RunsAt(e) => AllBaseline(e, k))

OutsidePcs == OffPcs \cup BeforePcs \cup LayPcs
StatusTrue(e) ==
  /\ stored[e] # None /\ ~Completed(e)
  /\ w.e = e => w.pc \in OutsidePcs
  => Truthful(e, stored[e].status.weights)
CopyTrue(x) ==
  LET k == x.inst.status.weights IN
  /\ x.pc \in {"candidates", "candidatesVS"} => k[0] = 100 /\ AllBaseline(x.e, k) /\ Shown(x.e, k)
  /\ x.pc = "iterate" => Shown(x.e, k)
  /\ x.pc = "end" /\ ~x.inst.status.completed =>
       /\ Truthful(x.e, k)
       /\ ~x.statusUpdate => Truthful(x.e, stored[x.e].status.weights)
TruthInv ==
  /\ \A e \in Experiments : RunsAt(e) => stored[e] # None /\ ~Freed(e)
  /\ \A e \in Experiments : StatusTrue(e)
  /\ w.pc \notin OffPcs => CopyTrue(w)

LEMMA EndUncompleted ==
  ASSUME NEW x, NEW o, WorkerInv(x, o), x.pc = "end", x.fresh, o # None, Sound(x.e, o)
  PROVE  ~o.status.completed
  BY DEF WorkerInv, Ended, Saves, StoredActive, Sound

\* What is true of the others stays so.
LEMMA TruthStays ==
  ASSUME Ground, NoneIsNoRule, Kinds, [Next]_vars, NEW e \in Experiments,
         e # w.e \/ UNCHANGED ruleVars, NEW k
  PROVE  /\ RunsAt(e)' <=> RunsAt(e)
         /\ Truthful(e, k) => (RunsAt(e)' => \A v \in Versions(SpecOf[e]) :
                                    vs'[SpecOf[e].service].routes[Subset(v)] = k[v])
                              /\ (~RunsAt(e)' => AllBaseline(e, k))
<1>e. SpecOf[e].service \in Services
  BY SpecAssumption DEF ExperimentSpecs
<1>1. CASE UNCHANGED ruleVars
  <2>1. dr' = dr /\ vs' = vs
    BY <1>1 DEF ruleVars
  <2>2. RunsAt(e)' <=> RunsAt(e)
    BY <2>1 DEF RunsAt, RunsFor
  <2>3. QED
    BY <2>1, <2>2 DEF Truthful, Shown
<1>2. CASE e # w.e
  <2>1. RunsAt(e)' <=> RunsAt(e)
    BY <1>e, <1>2, RunsStay DEF RunsAt
  <2>2. RunsAt(e) => vs'[SpecOf[e].service] = vs[SpecOf[e].service]
    <3>1. HandsOver
      BY StepHandsOver DEF Ground, ServedInv
    <3>2. QED
      BY <1>e, <1>2, <3>1 DEF HandsOver, RunsAt, RunsFor
  <2>3. QED
    BY <2>1, <2>2 DEF Truthful, Shown
<1>3. QED
  BY <1>1, <1>2

LEMMA KnownRunsKept ==
  ASSUME Ground, NoneIsNoRule, TruthInv, Kinds, [Next]_vars, NEW e \in Experiments, RunsAt(e)'
  PROVE  stored'[e] # None
<1>1. stored[e] # None
  <2>1. CASE RunsAt(e)
    BY <2>1 DEF TruthInv
  <2>2. CASE ~RunsAt(e)
    <3>1. e = w.e /\ OpensVS
      BY <2>2, RunsBegin
    <3>2. w.pc \notin OffPcs
      BY <3>1 DEF OpensVS, OffPcs
    <3>3. QED
      BY <3>1, <3>2, HerePeace
  <2>3. QED
    BY <2>1, <2>2
<1>2. QED
  BY <1>1, ObjectsStay

LEMMA RunsUnfreed ==
  ASSUME Ground, NoneIsNoRule, TruthInv, Kinds, [Next]_vars, NEW e \in Experiments, RunsAt(e)'
  PROVE  ~Freed(e)'
<1>1. ~Freed(e)
  <2>1. CASE RunsAt(e)
    BY <2>1 DEF TruthInv
  <2>2. CASE ~RunsAt(e)
    <3>1. e = w.e /\ OpensVS
      BY <2>2, RunsBegin
    <3>2. w.pc = "candidatesVS" /\ w.pc \in WritePcs
      BY <3>1 DEF OpensVS, WritePcs
    <3>3. QED
      BY <3>1, <3>2, WritesUncompleted DEF Freed, Retired
  <2>3. QED
    BY <2>1, <2>2
<1>2. ~(e = w.e /\ CleansDR)
  <2>1. SUFFICES ASSUME e = w.e, CleansDR
                 PROVE  FALSE
    OBVIOUS
  <2>2. w'.pc = "cleanupVS" /\ w'.e = e
    BY <2>1 DEF CleansDR, Follows, Continues
  <2>3. Halfway(w', dr'[Svc(w')], vs'[Svc(w')])
    BY <2>2, HalvesKept DEF RulesHalfway
  <2>4. Svc(w') = SpecOf[e].service
    BY <2>2 DEF Svc, SpecAt
  <2>5. \A d : d = StableDestinationRule([subsets |-> AllSubsets(SpecAt(w'))], Stable(w')) =>
          d.labels.role # "progressing"
    BY DEF StableDestinationRule, StableLabels
  <2>6. QED
    BY <2>2, <2>3, <2>4, <2>5 DEF Halfway, RunsAt, RunsFor, IsProgressing
<1>3. QED
  BY <1>1, <1>2, FreedKept

TruthfulNext(e, k) ==
  /\ RunsAt(e)' => \A v \in Versions(SpecOf[e]) :
                     vs'[SpecOf[e].service].routes[Subset(v)] = k[v]
  /\ ~RunsAt(e)' => AllBaseline(e, k)

\* Until the rules are laid the status is true, and the copy says the same.
LEMMA HereTrue ==
  ASSUME Ground, TruthInv, w.pc \in RulePcs
  PROVE  LET k == w.inst.status.weights
             j == stored[w.e].status.weights
         IN /\ w.e \in Experiments /\ stored[w.e] # None /\ ~Completed(w.e) /\ Truthful(w.e, j)
            /\ w.pc \in {"rules", "detect", "baselineDR", "baselineVS"} => k = j
            /\ w.pc \in {"baselineDR", "baselineVS", "candidates"} => ~RunsAt(w.e)
<1>1. w.pc \notin OffPcs /\ w.pc \in OutsidePcs
  BY DEF RulePcs, OffPcs, OutsidePcs, BeforePcs, LayPcs
<1>2. w.e \in Experiments /\ stored[w.e] # None /\ w.fresh /\ Runs(w)
  BY <1>1, HerePeace
<1>3. ~Completed(w.e)
  BY <1>2, HereReady DEF Ground, ServedInv, IInv, ObjectsInv, Ready, Saves, StoredActive, Sound, Completed
<1>4. Truthful(w.e, stored[w.e].status.weights)
  BY <1>1, <1>2, <1>3 DEF TruthInv, StatusTrue
<1>5. w.pc \in {"rules", "detect", "baselineDR", "baselineVS"} =>
        w.inst.status.weights = stored[w.e].status.weights
  BY <1>2 DEF Runs, BeforePcs
<1>6. w.pc \in {"baselineDR", "baselineVS", "candidates"} => ~RunsAt(w.e)
  BY <1>2 DEF Ground, ServedInv, RulesLaid, Laid, RunsAt, RunsFor, Svc, SpecAt
<1>7. QED
  BY <1>2, <1>3, <1>4, <1>5, <1>6

LEMMA NewBaseline ==
  ASSUME NEW e
  PROVE  AllBaseline(e, NewObject(e).status.weights)
<1>1. NewObject(e).status.weights = [v \in Versions(SpecOf[e]) |-> 0]
  BY DEF NewObject
<1>2. QED
  BY <1>1 DEF AllBaseline

\* A step that leaves rules, weights and the object's place alone.
LEMMA StatusStays ==
  ASSUME Ground, NoneIsNoRule, TruthInv, Kinds, [Next]_vars, NEW e \in Experiments,
         e # w.e \/ UNCHANGED ruleVars,
         stored[e] # None, LooksLike(stored[e], stored'[e]),
         w.e = e => w.pc \in OutsidePcs, ~stored'[e].status.completed
  PROVE  TruthfulNext(e, stored'[e].status.weights)
<1>1. ~Completed(e) /\ stored'[e].status.weights = stored[e].status.weights
  BY DEF LooksLike, Completed
<1>2. Truthful(e, stored[e].status.weights)
  BY <1>1 DEF TruthInv, StatusTrue
<1>3. QED
  BY <1>1, <1>2, TruthStays DEF TruthfulNext

LEMMA StatusKept ==
  ASSUME Ground, NoneIsNoRule, TruthInv, Kinds, [Next]_vars, NEW e \in Experiments
  PROVE  StatusTrue(e)'
<1>1. SUFFICES ASSUME stored'[e] # None, ~stored'[e].status.completed,
                      w'.e = e => w'.pc \in OutsidePcs
               PROVE  TruthfulNext(e, stored'[e].status.weights)
  BY DEF StatusTrue, Completed, TruthfulNext, Truthful, Shown, AllBaseline
<1>2. CASE e # w.e
  <2>1. CASE stored[e] # None
    <3>1. LooksLike(stored[e], stored'[e])
      <4>1. CASE SameSight
        BY <2>1, <4>1 DEF SameSight
      <4>2. CASE Reports /\ w.statusUpdate
        BY <1>2, <4>2 DEF Reports, LooksLike
      <4>3. CASE Beside
        BY <2>1, <4>3 DEF Beside
      <4>4. QED
        BY <4>1, <4>2, <4>3, SightKept DEF Reports
    <3>2. QED
      BY <1>1, <1>2, <2>1, <3>1, StatusStays
  <2>2. CASE stored[e] = None
    <3>1. Beside
      BY <1>1, <1>2, <2>2, SightKept DEF SameSight, Reports
    <3>2. stored'[e] = NewObject(e)
      BY <1>1, <2>2, <3>1 DEF Beside
    <3>3. ~RunsAt(e)
      BY <2>2 DEF TruthInv
    <3>4. AllBaseline(e, stored'[e].status.weights)
      BY <3>2, NewBaseline
    <3>5. QED
      BY <1>2, <3>3, <3>4, TruthStays DEF TruthfulNext
  <2>3. QED
    BY <2>1, <2>2
<1>3. CASE e = w.e /\ w.pc \in OffPcs
  <2>1. Takes \/ Rests \/ Beside
    BY <1>3 DEF Kinds, OffPcs, Reads, Looks, Finds, GivesUp, LaysDR, LaysVS, OpensDR, OpensVS,
       Weighs, Misses, Counts, Aborts, Splits, Completes, CleansTargets, CleansDR, CleansVS, Reports,
       BeforePcs
  <2>2. UNCHANGED ruleVars /\ w.pc \in OutsidePcs
    BY <1>3, <2>1 DEF Takes, Rests, Beside, Still, OutsidePcs
  <2>3. CASE stored[e] # None
    <3>1. LooksLike(stored[e], stored'[e])
      BY <2>1, <2>3 DEF Takes, Rests, Beside, Still, SameSight
    <3>2. QED
      BY <1>1, <2>2, <2>3, <3>1, StatusStays
  <2>4. CASE stored[e] = None
    <3>1. stored'[e] = NewObject(e)
      BY <1>1, <2>1, <2>4 DEF Takes, Rests, Beside, Still, SameSight
    <3>2. ~RunsAt(e)
      BY <2>4 DEF TruthInv
    <3>3. AllBaseline(e, stored'[e].status.weights)
      BY <3>1, NewBaseline
    <3>4. QED
      BY <2>2, <3>2, <3>3, TruthStays DEF TruthfulNext
  <2>5. QED
    BY <2>3, <2>4
<1>4. CASE e = w.e /\ w.pc \notin OffPcs
  <2>1. stored[e] # None /\ Runs(w) /\ CopyTrue(w)
    BY <1>4, HerePeace DEF TruthInv
  <2>2. CASE w.pc \in OutsidePcs /\ UNCHANGED ruleVars
    <3>1. ~Reports
      BY <2>2 DEF Reports, OutsidePcs, OffPcs, BeforePcs, LayPcs
    <3>2. LooksLike(stored[e], stored'[e])
      BY <1>4, <2>1, <3>1, SightKept DEF SameSight, Beside
    <3>3. QED
      BY <1>1, <2>1, <2>2, <3>2, StatusStays
  <2>3. CASE w.pc \in OutsidePcs /\ RuleKinds
    <3>1. LaysDR \/ LaysVS \/ OpensDR
      BY <1>1, <1>4, <2>3 DEF RuleKinds, OpensVS, Splits, CleansDR, CleansVS, OutsidePcs, OffPcs,
         BeforePcs, LayPcs, Follows, Continues
    <3>2. w.pc \in RulePcs /\ w.pc \in {"baselineDR", "baselineVS", "candidates"} /\ SameSight
      BY <3>1 DEF LaysDR, LaysVS, OpensDR, RulePcs, PutsHere
    <3>3. ~RunsAt(e) /\ Truthful(e, stored[e].status.weights)
      BY <1>4, <3>2, HereTrue
    <3>4. ~RunsAt(e)'
      <4>1. ~OpensVS
        BY <3>2 DEF OpensVS
      <4>2. QED
        BY <3>3, <4>1, RunsBegin
    <3>5. stored'[e].status.weights = stored[e].status.weights
      BY <2>1, <3>2 DEF SameSight, LooksLike
    <3>6. QED
      BY <3>3, <3>4, <3>5 DEF TruthfulNext, Truthful
  <2>4. CASE w.pc \notin OutsidePcs
    <3>1. Reports
      <4>1. CASE OnKinds \/ Aborts
        <5>1. w'.e = e
          BY <1>4, <4>1, OnKindsGo DEF Aborts, Continues
        <5>2. w'.pc \in OutsidePcs
          BY <1>1, <5>1
        <5>3. QED
          BY <2>4, <4>1, <5>2 DEF OnKinds, Aborts, Reads, Looks, Finds, GivesUp, LaysDR, LaysVS, OpensDR,
             OpensVS, Weighs, Misses, Counts, Splits, Completes, CleansTargets, CleansDR, CleansVS,
             OutsidePcs, OffPcs, BeforePcs, LayPcs
      <4>2. CASE Takes \/ Rests
        BY <2>4, <4>2 DEF Takes, Rests, OutsidePcs, OffPcs, BeforePcs
      <4>3. CASE Beside
        BY <1>1, <1>4, <2>4, <4>3 DEF Beside
      <4>4. QED
        BY <4>1, <4>2, <4>3 DEF Kinds, OnKinds
    <3>2. w.pc = "end" /\ UNCHANGED ruleVars
      BY <3>1 DEF Reports
    <3>3. CASE SameSight /\ ~w.statusUpdate
      <4>1. ~w.inst.status.completed
        BY <2>1, <3>2, <3>3 DEF Runs
      <4>2. Truthful(e, stored[e].status.weights)
        BY <1>4, <2>1, <3>2, <3>3, <4>1 DEF CopyTrue
      <4>3. stored'[e].status.weights = stored[e].status.weights
        BY <2>1, <3>3 DEF SameSight, LooksLike
      <4>4. QED
        BY <3>2, <4>2, <4>3, TruthStays DEF TruthfulNext
    <3>4. CASE w.statusUpdate
      <4>1. stored'[e].status = w.inst.status
        BY <1>4, <3>1, <3>4, ReportLeaves
      <4>2. Truthful(e, w.inst.status.weights)
        BY <1>1, <1>4, <2>1, <3>2, <4>1 DEF CopyTrue
      <4>3. QED
        BY <3>2, <4>1, <4>2, TruthStays DEF TruthfulNext
    <3>5. QED
      BY <3>1, <3>3, <3>4 DEF Reports
  <2>5. QED
    BY <2>2, <2>3, <2>4, QuietKindsStay DEF Kinds, QuietKinds, RuleKinds
<1>5. QED
  BY <1>2, <1>3, <1>4

-----------------------------------------------------------------------------
(* ... and the copy.                                                       *)

CopyGiven(x, e, o) ==
  LET k == x.inst.status.weights IN
  /\ x.pc \in {"candidates", "candidatesVS"} =>
       /\ k[0] = 100 /\ AllBaseline(e, k)
       /\ \A v \in Versions(SpecOf[e]) : vs'[SpecOf[e].service].routes[Subset(v)] = k[v]
  /\ x.pc = "iterate" =>
       \A v \in Versions(SpecOf[e]) : vs'[SpecOf[e].service].routes[Subset(v)] = k[v]
  /\ x.pc = "end" /\ ~x.inst.status.completed =>
       /\ TruthfulNext(e, k)
       /\ ~x.statusUpdate => TruthfulNext(e, o.status.weights)

TruePcs == {"candidates", "candidatesVS", "iterate", "end"}

\* Weights of which the baseline has all are what UpdateBaseline writes.
LEMMA BaselineShown ==
  ASSUME NEW e \in Experiments, NEW k, AllBaseline(e, k), k[0] = 100, NEW r, NEW v \in Versions(SpecOf[e])
  PROVE  BaselineVirtualService(r, e, SpecOf[e]).routes[Subset(v)] = k[v]
<1>1. v \in Nat
  <2>1. Len(SpecOf[e].candidates) \in Nat
    BY SpecAssumption DEF ExperimentSpecs
  <2>2. QED
    BY <2>1, VersionsFinite
<1>2. v = 0 <=> Subset(v) = Subset(0)
  BY <1>1, SubsetsDiffer
<1>3. BaselineVirtualService(r, e, SpecOf[e]).routes[Subset(v)] = IF Subset(v) = Subset(0) THEN 100 ELSE 0
  BY DEF BaselineVirtualService
<1>4. QED
  BY <1>2, <1>3 DEF AllBaseline

LEMMA SplitShown ==
  ASSUME NEW e \in Experiments, NEW k, NEW r, HasRoutes(r), FullRule(r), NEW v \in Versions(SpecOf[e])
  PROVE  SplitVirtualService(r, SpecOf[e], k).routes[Subset(v)] = k[v]
<1>1. Len(SpecOf[e].candidates) \in Nat
  BY SpecAssumption DEF ExperimentSpecs
<1>2. QED
  BY <1>1, SplitsOnly, SplitWeight

\* Rules that begin to run, or are split, route what the copy says.
LEMMA RunsShown ==
  ASSUME Ground, NoneIsNoRule, TruthInv, OpensVS \/ Splits, NEW e \in Experiments, e = w.e
  PROVE  \A v \in Versions(SpecOf[e]) :
           vs'[SpecOf[e].service].routes[Subset(v)] = w.inst.status.weights[v]
<1> DEFINE s == SpecOf[e].service
           k == w.inst.status.weights
<1>1. w.pc \in WritePcs /\ w.pc \notin OffPcs
  BY DEF OpensVS, Splits, WritePcs, OffPcs
<1>2. Svc(w) = s /\ s \in Services /\ SpecAt(w) = SpecOf[e] /\ KnownRule(vs[s]) /\ Readied(w, dr[s], vs[s])
      /\ Laid(w, dr[s], vs[s]) /\ Served(dr[s], vs[s])
      /\ (w.pc = "split" => IsProgressing(dr[s], vs[s]))
  BY <1>1, HereLies
<1>3. CASE OpensVS
  <2>1. vs'[s] = CandidatesVirtualService(vs[s]) /\ w.pc = "candidatesVS"
    BY <1>2, <1>3 DEF OpensVS, PutsHere
  <2>2. Shown(e, k)
    BY <1>1, <2>1 DEF TruthInv, CopyTrue
  <2>3. FullRule(dr[s]) /\ FullRule(vs[s]) /\ HasRoutes(vs[s])
    BY <1>2, <2>1 DEF Readied, Laid
  <2>4. CandidatesVirtualService(vs[s]).routes = vs[s].routes
    BY <2>3, OpensLabels
  <2>5. QED
    BY <2>1, <2>2, <2>4 DEF Shown
<1>4. CASE Splits
  <2>1. vs'[s] = SplitVirtualService(vs[s], SpecOf[e], k) /\ w.pc = "split"
    BY <1>2, <1>4 DEF Splits, PutsHere
  <2>2. FullRule(vs[s]) /\ HasRoutes(vs[s])
    BY <1>2, <2>1 DEF IsProgressing, KnownRule, Served
  <2> HIDE DEF s, k
  <2>3. \A v \in Versions(SpecOf[e]) : vs'[s].routes[Subset(v)] = k[v]
    BY <2>1, <2>2, SplitShown
  <2>4. QED
    BY <2>3 DEF s, k
<1>5. QED
  BY <1>3, <1>4

LEMMA WritesTrue ==
  ASSUME Ground, NoneIsNoRule, TruthInv, Kinds, [Next]_vars, LaysVS \/ OpensDR \/ OpensVS \/ Splits,
         NEW e \in Experiments, e = w.e
  PROVE  CopyGiven(w', e, stored'[e])
<1> DEFINE s == SpecOf[e].service
           k == w.inst.status.weights
           shown(j) == \A v \in Versions(SpecOf[e]) : vs'[s].routes[Subset(v)] = j[v]
<1>1. w.pc \in WritePcs /\ w.pc \notin OffPcs
  BY DEF LaysVS, OpensDR, OpensVS, Splits, WritePcs, OffPcs
<1>2. Svc(w) = s /\ s \in Services /\ SpecAt(w) = SpecOf[e] /\ KnownRule(vs[s]) /\ Readied(w, dr[s], vs[s])
      /\ Laid(w, dr[s], vs[s]) /\ Halfway(w, dr[s], vs[s]) /\ Served(dr[s], vs[s])
      /\ (w.pc = "split" => IsProgressing(dr[s], vs[s]))
  BY <1>1, HereLies
<1>3. CopyTrue(w) /\ DOMAIN k = Versions(SpecOf[e])
  BY <1>1, <1>2, WeightsOfVersions DEF TruthInv
<1>4. CASE LaysVS
  <2>1. w.pc = "baselineVS" /\ w.pc \in RulePcs /\ w'.pc = "candidates"
    BY <1>4 DEF LaysVS, RulePcs
  <2>2. AllBaseline(e, k)
    BY <2>1, HereTrue DEF Truthful
  <2> DEFINE j == [k EXCEPT ![0] = 100]
  <2>3. w'.inst.status.weights = j
    BY <1>4 DEF LaysVS
  <2>4. 0 \in Versions(SpecOf[e])
    <3>1. Len(SpecOf[e].candidates) \in Nat
      BY SpecAssumption DEF ExperimentSpecs
    <3>2. QED
      BY <3>1, VersionsFinite
  <2>5. j[0] = 100 /\ AllBaseline(e, j)
    BY <1>3, <2>2, <2>4 DEF AllBaseline
  <2>6. vs'[s] = BaselineVirtualService(vs[s], e, SpecOf[e])
    BY <1>2, <1>4 DEF LaysVS, PutsHere
  <2> HIDE DEF j, s, k
  <2>7. shown(j)
    BY <2>5, <2>6, BaselineShown
  <2>8. QED
    BY <2>1, <2>3, <2>5, <2>7 DEF CopyGiven, s
<1>5. CASE OpensDR
  <2>1. vs'[s] = vs[s] /\ w'.inst.status.weights = k /\ w.pc = "candidates" /\ w'.pc = "candidatesVS"
    BY <1>2, <1>5 DEF OpensDR, PutsHere, Follows
  <2>2. k[0] = 100 /\ AllBaseline(e, k) /\ Shown(e, k)
    BY <1>3, <2>1 DEF CopyTrue
  <2>3. QED
    BY <2>1, <2>2 DEF CopyGiven, Shown
<1>6. CASE OpensVS \/ Splits
  <2>1. w'.inst.status.weights = k /\ w'.pc \in {"iterate", "complete", "end"} /\ w'.statusUpdate
    BY <1>6 DEF OpensVS, Splits, Follows
  <2>2. shown(k)
    BY <1>6, RunsShown
  <2>3. RunsAt(e)'
    BY <1>6, RunsStay
  <2>4. QED
    BY <2>1, <2>2, <2>3 DEF CopyGiven, TruthfulNext
<1>7. QED
  BY <1>4, <1>5, <1>6

\* The copy, whatever the step does on behalf of the request.
LEMMA FindsTrue ==
  ASSUME Ground, NoneIsNoRule, TruthInv, Kinds, [Next]_vars, Finds, NEW e \in Experiments, e = w.e
  PROVE  CopyGiven(w', e, stored'[e])
<1>1. w.pc \in RulePcs /\ w.pc \in {"rules", "detect"} /\ UNCHANGED ruleVars /\ SameSight
      /\ w'.inst.status.weights = w.inst.status.weights /\ w'.pc \in {"iterate", "complete", "end"}
      /\ RunsAt(e)
  BY DEF Finds, RulePcs, Still, Follows
<1>2. stored[e] # None /\ w.inst.status.weights = stored[e].status.weights
      /\ Truthful(e, stored[e].status.weights)
  BY <1>1, HereTrue
<1>3. stored'[e].status.weights = stored[e].status.weights
  BY <1>1, <1>2 DEF SameSight, LooksLike
<1>4. RunsAt(e)' /\ TruthfulNext(e, stored[e].status.weights)
  BY <1>1, <1>2, TruthStays DEF TruthfulNext
<1>5. w'.inst.status.weights = stored'[e].status.weights
  BY <1>1, <1>2, <1>3
<1>6. TruthfulNext(e, stored'[e].status.weights)
  BY <1>3, <1>4
<1>7. \A v \in Versions(SpecOf[e]) :
        vs'[SpecOf[e].service].routes[Subset(v)] = stored'[e].status.weights[v]
  BY <1>4, <1>6 DEF TruthfulNext
<1>8. w'.pc \notin {"candidates", "candidatesVS"}
  BY <1>1
<1>9. QED
  BY <1>5, <1>6, <1>7, <1>8 DEF CopyGiven

LEMMA GivesUpTrue ==
  ASSUME Ground, NoneIsNoRule, TruthInv, Kinds, [Next]_vars, GivesUp, NEW e \in Experiments, e = w.e
  PROVE  CopyGiven(w', e, stored'[e])
<1>1. UNCHANGED ruleVars /\ SameSight /\ w'.inst.status.weights = w.inst.status.weights
      /\ w'.pc = "end" /\ w.pc \notin OffPcs /\ w'.e = e /\ w'.fresh = w.fresh
  BY DEF GivesUp, Still, Follows, Continues, OffPcs
<1>2. stored[e] # None /\ Runs(w) /\ CopyTrue(w) /\ w.fresh
  BY <1>1, HerePeace DEF TruthInv
<1>3. /\ stored'[e] # None /\ stored'[e].status.weights = stored[e].status.weights
      /\ stored'[e].status.completed = stored[e].status.completed
  BY <1>1, <1>2 DEF SameSight, LooksLike
<1>4. ~Completed(e)
  <2>1. IInv'
    BY NextInv DEF Ground, ServedInv
  <2>2. WorkerInv(w', stored'[w'.e]) /\ Sound(e, stored'[e])
    BY <1>3, <2>1 DEF IInv, ObjectsInv
  <2>3. ~stored'[e].status.completed
    BY <1>1, <1>2, <1>3, <2>2, EndUncompleted
  <2>4. QED
    BY <1>3, <2>3 DEF Completed
<1>5. Truthful(e, stored[e].status.weights)
  <2>1. w.pc \in OutsidePcs
    BY DEF GivesUp, OutsidePcs, BeforePcs, LayPcs
  <2>2. QED
    BY <1>2, <1>4, <2>1 DEF TruthInv, StatusTrue
<1>6. Truthful(e, w.inst.status.weights)
  <2>1. CASE w.pc = "candidates"
    <3>1. ~RunsAt(e)
      BY <2>1, HereTrue DEF RulePcs
    <3>2. AllBaseline(e, w.inst.status.weights)
      BY <1>2, <2>1 DEF CopyTrue
    <3>3. QED
      BY <3>1, <3>2 DEF Truthful
  <2>2. CASE w.pc # "candidates"
    <3>1. w.inst.status.weights = stored[e].status.weights
      BY <1>2, <2>2 DEF GivesUp, Runs, BeforePcs
    <3>2. QED
      BY <1>5, <3>1
  <2>3. QED
    BY <2>1, <2>2
<1>7. TruthfulNext(e, w.inst.status.weights) /\ TruthfulNext(e, stored[e].status.weights)
  BY <1>1, <1>5, <1>6, TruthStays DEF TruthfulNext
<1>8. QED
  BY <1>1, <1>3, <1>7 DEF CopyGiven

LEMMA CountsTrue ==
  ASSUME Ground, NoneIsNoRule, TruthInv, Kinds, [Next]_vars, Counts, NEW e \in Experiments, e = w.e
  PROVE  CopyGiven(w', e, stored'[e])
<1>1. UNCHANGED ruleVars /\ w'.inst.status.weights = w.inst.status.weights
      /\ w'.pc \in {"complete", "end"} /\ w'.statusUpdate /\ w.pc = "iterate"
  BY DEF Counts, Still, Follows
<1>2. Runs(w) /\ CopyTrue(w)
  BY <1>1, HerePeace DEF TruthInv, OffPcs
<1>3. RunsAt(e) /\ Truthful(e, w.inst.status.weights)
  BY <1>1, <1>2 DEF Runs, RunPcs, CopyTrue, Truthful
<1>4. TruthfulNext(e, w.inst.status.weights)
  BY <1>1, <1>3, TruthStays DEF TruthfulNext
<1>5. QED
  BY <1>1, <1>4 DEF CopyGiven

\* An answer without a weight for some version would leave the weights it has.
LEMMA NoneMissed ==
  ASSUME Ground, AnswersComplete
  PROVE  ~Misses
<1>1. SUFFICES ASSUME Misses PROVE FALSE
  OBVIOUS
<1>2. w.e \in Experiments
  BY <1>1, HerePeace DEF Misses, OffPcs
<1>3. QED
  BY <1>1, <1>2 DEF Misses, AnswersComplete, SpecAt

LEMMA BesideTrue ==
  ASSUME Ground, NoneIsNoRule, TruthInv, Kinds, [Next]_vars, Beside, w.pc \notin OffPcs,
         NEW e \in Experiments, e = w.e
  PROVE  CopyGiven(w', e, stored'[e])
<1>1. UNCHANGED ruleVars /\ w'.inst.status.weights = w.inst.status.weights
      /\ w'.pc = w.pc /\ w'.statusUpdate = w.statusUpdate
      /\ w'.inst.status.completed = w.inst.status.completed
  BY DEF Beside, Follows, Agrees
<1>2. CopyTrue(w) /\ stored[e] # None
  BY HerePeace DEF TruthInv
<1>3. stored'[e].status.weights = stored[e].status.weights
  BY <1>2 DEF Beside, LooksLike
<1>4. \A k : Truthful(e, k) => TruthfulNext(e, k)
  BY <1>1, TruthStays DEF TruthfulNext
<1>5. \A k : Shown(e, k) =>
        \A v \in Versions(SpecOf[e]) : vs'[SpecOf[e].service].routes[Subset(v)] = k[v]
  BY <1>1 DEF ruleVars, Shown
<1>6. QED
  BY <1>1, <1>2, <1>3, <1>4, <1>5 DEF CopyTrue, CopyGiven

LEMMA CopyKept ==
  ASSUME Ground, NoneIsNoRule, AnswersComplete, TruthInv, Kinds, [Next]_vars, w'.pc \notin OffPcs
  PROVE  CopyTrue(w)'
<1>1. SUFFICES ASSUME w'.pc \in TruePcs PROVE CopyTrue(w)'
  BY DEF CopyTrue, TruePcs
<1>2. SUFFICES /\ w'.e = w.e /\ w.e \in Experiments
               /\ \A e \in Experiments : e = w.e => CopyGiven(w', e, stored'[e])
  BY DEF CopyGiven, CopyTrue, TruthfulNext, Truthful, Shown, AllBaseline
<1>3. CASE OnKinds
  <2>1. w'.e = w.e /\ w.e \in Experiments
    BY <1>3, OnKindsGo, HerePeace DEF Continues
  <2>2. CASE Finds \/ GivesUp \/ Counts
    BY <2>1, <2>2, FindsTrue, GivesUpTrue, CountsTrue
  <2>3. CASE LaysVS \/ OpensDR \/ OpensVS \/ Splits
    BY <2>1, <2>3, WritesTrue
  <2>4. CASE CleansVS
    BY <2>1, <2>4 DEF CleansVS, CopyGiven
  <2>5. CASE Reads \/ Looks \/ LaysDR \/ Weighs \/ Completes \/ CleansTargets \/ CleansDR
    BY <1>1, <2>5 DEF Reads, Looks, LaysDR, Weighs, Completes, CleansTargets, CleansDR, TruePcs, BeforePcs
  <2>6. QED
    BY <1>3, <2>2, <2>3, <2>4, <2>5, NoneMissed DEF OnKinds
<1>4. CASE Aborts
  BY <1>1, <1>4 DEF Aborts, TruePcs
<1>5. CASE Takes \/ Rests \/ Reports
  BY <1>1, <1>5 DEF Takes, Rests, Reports, Idle, TruePcs, OpenPcs
<1>6. CASE Beside
  <2>1. w'.e = w.e /\ w.pc \notin OffPcs
    BY <1>6 DEF Beside
  <2>2. w.e \in Experiments
    BY <2>1, HerePeace
  <2>3. QED
    BY <1>6, <2>1, <2>2, BesideTrue
<1>7. QED
  BY <1>3, <1>4, <1>5, <1>6 DEF Kinds, OnKinds

LEMMA TruthKept ==
  ASSUME Ground, NoneIsNoRule, AnswersComplete, TruthInv, Kinds, [Next]_vars
  PROVE  TruthInv'
<1>1. \A e \in Experiments : RunsAt(e)' => stored'[e] # None /\ ~Freed(e)'
  BY KnownRunsKept, RunsUnfreed
<1>2. \A e \in Experiments : StatusTrue(e)'
  BY StatusKept
<1>3. QED
  BY <1>1, <1>2, CopyKept DEF TruthInv

LEMMA InitTruth ==
  ASSUME Init
  PROVE  TruthInv
<1>1. w = Idle /\ \A e \in Experiments : stored[e] = None
  BY DEF Init
<1>2. \A s \in Services : ~IsProgressing(dr[s], vs[s])
  BY InitQuiet
<1>3. \A e \in Experiments : SpecOf[e].service \in Services
  BY SpecAssumption DEF ExperimentSpecs
<1>4. QED
  BY <1>1, <1>2, <1>3 DEF TruthInv, StatusTrue, RunsAt, RunsFor, Idle, OffPcs

(***************************************************************************)
(* At rest the weights the status reports are the ones the traffic has,    *)
(* for any experiments and any answers that recommend a weight for each    *)
(* version: what an iteration puts in the copy, it puts in the rules       *)
(* before the copy is saved, and an experiment whose rules do not run      *)
(* reports nothing for its candidates, so that the rules UpdateBaseline    *)
(* writes when it starts say the same.                                     *)
(***************************************************************************)
THEOREM StatusTruthful ==
  ASSUME Peace, RulesGiven, AnswersComplete, NoneIsNothing
  PROVE  Spec => []StatusMatchesTraffic
<1> USE DEF NoneIsNothing
<1>1. Spec => []Ground
  BY GroundHolds
<1>2. Init => TruthInv
  BY InitTruth
<1>3. Ground /\ TruthInv /\ [Next]_vars => TruthInv'
  BY StepIsKind, TruthKept
<1>4. Ground /\ TruthInv => StatusMatchesTraffic
  <2> SUFFICES ASSUME Ground, TruthInv, At("idle"), NEW e \in Experiments, stored[e] # None,
                      IsProgressing(dr[SpecOf[e].service], vs[SpecOf[e].service]),
                      vs[SpecOf[e].service].labels.experiment = e
               PROVE  Shown(e, stored[e].status.weights)
    BY DEF StatusMatchesTraffic, Shown
  <2> DEFINE s == SpecOf[e].service
  <2>1. s \in Services
    BY SpecAssumption DEF ExperimentSpecs
  <2>2. Alike(dr[s], vs[s])
    BY <2>1 DEF Ground, RestInv, PairsAlike, At, HalfPcs
  <2>3. RunsAt(e)
    BY <2>2 DEF Alike, RunsAt, RunsFor, IsProgressing
  <2>4. ~Completed(e) /\ w.pc \in OutsidePcs
    BY <2>3 DEF TruthInv, Freed, At, OutsidePcs, OffPcs
  <2>5. QED
    BY <2>3, <2>4 DEF TruthInv, StatusTrue, Truthful
<1>5. QED
  BY <1>1, <1>2, <1>3, <1>4, PTL DEF Spec

-----------------------------------------------------------------------------
(* Weights that add up, and the rules cleanup makes of them.               *)

\* Weights of all versions that add up; without criteria the candidates have equal shares.
SumsUp(spec, k) ==
  /\ \A v \in Versions(spec) : k[v] \in Nat
  /\ SumFunctionOnSet(k, Versions(spec)) = 100
  /\ ~spec.criteria => \E c \in Nat : \A v \in Versions(spec) \ {0} : k[v] = c

LEMMA BaselineSums ==
  ASSUME NEW e \in Experiments, NEW k, k[0] = 100, AllBaseline(e, k)
  PROVE  SumsUp(SpecOf[e], k)
<1>1. Len(SpecOf[e].candidates) \in Nat
  BY SpecNumbers
<1>2. \A v \in Versions(SpecOf[e]) \ {0} : k[v] = 0
  BY DEF AllBaseline
<1>3. SumFunctionOnSet(k, Versions(SpecOf[e])) = 100 + 0 * Len(SpecOf[e].candidates)
  BY <1>1, <1>2, SumEven
<1>4. \A v \in Versions(SpecOf[e]) : k[v] \in Nat
  BY <1>2
<1>5. QED
  BY <1>1, <1>2, <1>3, <1>4 DEF SumsUp

LEMMA SameSums ==
  ASSUME NEW e \in Experiments, NEW j, NEW k, SumsUp(SpecOf[e], j),
         \A v \in Versions(SpecOf[e]) : j[v] = k[v]
  PROVE  SumsUp(SpecOf[e], k)
<1>1. IsFiniteSet(Versions(SpecOf[e]))
  BY SpecNumbers, VersionsFinite
<1>2. SumFunctionOnSet(j, Versions(SpecOf[e])) = SumFunctionOnSet(k, Versions(SpecOf[e]))
  BY <1>1, SumSame
<1>3. QED
  BY <1>2 DEF SumsUp

\* An iteration without criteria moves shares of the same size.
LEMMA SharedSums ==
  ASSUME NEW e \in Experiments, NEW k, SumsUp(SpecOf[e], k),
         ~SpecOf[e].criteria, CanShare(SpecOf[e], k)
  PROVE  SumsUp(SpecOf[e], Shared(SpecOf[e], k))
<1> DEFINE spec == SpecOf[e]
           i == spec.maxIncrement
           n == Len(spec.candidates)
           f == Shared(spec, k)
<1>1. i \in Nat /\ n \in Nat /\ BaselineShare(spec) = i * n /\ i * n \in Nat
  BY SpecNumbers DEF BaselineShare
<1>2. 0 \in Versions(spec) /\ Versions(spec) \subseteq Nat
  BY <1>1, VersionsFinite
<1>3. PICK c \in Nat : \A v \in Versions(spec) \ {0} : k[v] = c
  BY DEF SumsUp
<1>4. k[0] \in Nat
  BY <1>2 DEF SumsUp
<1>5. SumFunctionOnSet(k, Versions(spec)) = k[0] + c * n
  BY <1>1, <1>3, <1>4, SumEven
<1>6. f[0] = k[0] - i * n /\ \A v \in Versions(spec) \ {0} : f[v] = c + i
  BY <1>1, <1>2, <1>3 DEF Shared
<1>7. k[0] >= i * n
  BY <1>1 DEF CanShare
<1> HIDE DEF f, i, n
<1>8. f[0] \in Nat /\ c + i \in Nat
  BY <1>1, <1>3, <1>4, <1>6, <1>7
<1>9. SumFunctionOnSet(f, Versions(spec)) = f[0] + (c + i) * n
  BY <1>1, <1>6, <1>8, SumEven DEF n
<1>10. \A a, b, m \in Nat : (a + b) * m = a * m + b * m
  BY SMT
<1>11. (c + i) * n = c * n + i * n /\ c * n \in Nat
  BY <1>1, <1>3, <1>10
<1>12. SumFunctionOnSet(f, Versions(spec)) = 100
  BY <1>1, <1>4, <1>5, <1>6, <1>9, <1>11 DEF SumsUp
<1>13. \A v \in Versions(spec) : f[v] \in Nat
  BY <1>6, <1>8
<1>14. QED
  BY <1>6, <1>8, <1>12, <1>13 DEF SumsUp, f

\* The weights of a complete answer.
LEMMA AnsweredSums ==
  ASSUME AnswersWhole, NEW e \in Experiments, NEW r \in Responses, NEW k,
         r.rollback # Versions(SpecOf[e]) \ {0}, Recommended(SpecOf[e], r) = Versions(SpecOf[e]),
         SpecOf[e].criteria
  PROVE  SumsUp(SpecOf[e], Taken(SpecOf[e], r, k))
<1> DEFINE spec == SpecOf[e]
<1>1. Taken(spec, r, k) = Answered(spec, r)
  BY DEF Taken, Answered
<1>2. SumFunctionOnSet(Answered(spec, r), Versions(spec)) = 100
  BY DEF AnswersWhole
<1>3. \A v \in Versions(spec) : Answered(spec, r)[v] \in Nat
  <2>1. IsResponse(r)
    BY SpecAssumption
  <2>2. \A v \in Versions(spec) : v \in DOMAIN r.weights \cup r.rollback
    <3>1. Versions(spec) \subseteq Nat
      BY SpecNumbers, VersionsFinite
    <3>2. \A v \in Versions(spec) : v \in 0..v
      BY <3>1
    <3>3. QED
      BY <3>2 DEF Recommended
  <2>3. QED
    BY <2>1, <2>2 DEF IsResponse, Answered
<1>4. QED
  BY <1>1, <1>2, <1>3 DEF SumsUp

\* Versions that keep traffic are numbered in their order.
Positive(spec, k) == {v \in Versions(spec) : k[v] > 0}
Below(spec, k, v) == {u \in Versions(spec) : u < v /\ k[u] > 0}
LEMMA NumbersDiffer ==
  ASSUME NEW e \in Experiments, NEW k, \A v \in Versions(SpecOf[e]) : k[v] \in Nat,
         NEW u \in Positive(SpecOf[e], k), NEW v \in Positive(SpecOf[e], k), u < v
  PROVE  Cardinality(Below(SpecOf[e], k, u)) # Cardinality(Below(SpecOf[e], k, v))
<1> DEFINE spec == SpecOf[e]
<1>1. IsFiniteSet(Versions(spec)) /\ Versions(spec) \subseteq Nat
  BY SpecNumbers, VersionsFinite
<1>2. Below(spec, k, v) \subseteq Versions(spec) /\ u \in Versions(spec) /\ v \in Versions(spec)
  BY DEF Below, Positive
<1>3. IsFiniteSet(Below(spec, k, v))
  BY <1>1, <1>2, FS_Subset
<1>4. Below(spec, k, u) \subseteq Below(spec, k, v)
  BY <1>1, <1>2 DEF Below
<1>5. u \in Below(spec, k, v) /\ u \notin Below(spec, k, u)
  BY <1>1, <1>2 DEF Below, Positive
<1>6. QED
  BY <1>3, <1>4, <1>5, FS_Subset

LEMMA StablesDiffer ==
  ASSUME NEW e \in Experiments, NEW k, \A v \in Versions(SpecOf[e]) : k[v] \in Nat, NEW win
  PROVE  LET f == ToStable(SpecOf[e], "keep_last", win, k) IN
         /\ DOMAIN f = Positive(SpecOf[e], k)
         /\ \A u, v \in Positive(SpecOf[e], k) : f[u] = f[v] => u = v
<1> DEFINE spec == SpecOf[e]
           f == ToStable(spec, "keep_last", win, k)
           P == Positive(spec, k)
<1>1. f = [v \in P |-> StableSubset(Cardinality(Below(spec, k, v)))]
  BY DEF ToStable, Positive, Below
<1>2. \A u, v \in P : f[u] = f[v] => Cardinality(Below(spec, k, u)) = Cardinality(Below(spec, k, v))
  BY <1>1 DEF StableSubset
<1>3. P \subseteq Nat
  BY SpecNumbers, VersionsFinite DEF Positive
<1>4. \A u, v \in P : f[u] = f[v] => u = v
  <2> SUFFICES ASSUME NEW u \in P, NEW v \in P, f[u] = f[v], u # v PROVE FALSE
    OBVIOUS
  <2> HIDE DEF f
  <2>1. u < v \/ v < u
    BY <1>3
  <2> HIDE DEF P
  <2>2. QED
    BY <1>2, <2>1, NumbersDiffer DEF P
<1>5. DOMAIN f = P
  BY <1>1
<1>6. QED
  BY <1>4, <1>5

(***************************************************************************)
(* The routes of a cleanup add up: all traffic to the winner or to the     *)
(* baseline, or the shares the versions had, under their new names.        *)
(***************************************************************************)
LEMMA StableTotal ==
  ASSUME NEW e \in Experiments, NEW k, SumsUp(SpecOf[e], k), NEW t \in Strategies, NEW r,
         NEW win, win \in (Versions(SpecOf[e]) \ {0}) \cup {None}
  PROVE  TotalWeight(StableVirtualService(r, ToStable(SpecOf[e], t, win, k), t, k)) = 100
<1> DEFINE spec == SpecOf[e]
           f == ToStable(spec, t, win, k)
           h == StableVirtualService(r, f, t, k).routes
<1>1. CASE t # "keep_last"
  <2>1. DOMAIN h = {SubsetStable} /\ \A n \in {SubsetStable} : h[n] = 100
    <3>1. \E v : f = [u \in {v} |-> SubsetStable]
      <4>1. CASE t = "to_winner" /\ win # None
        <5>1. {win} \cap (Versions(spec) \ {0}) = {win}
          BY <4>1
        <5>2. f = [u \in {win} |-> SubsetStable]
          BY <4>1, <5>1 DEF ToStable
        <5>3. QED
          BY <5>2
      <4>2. CASE ~(t = "to_winner" /\ win # None)
        <5>1. f = [u \in {0} |-> SubsetStable]
          BY <1>1, <4>2 DEF ToStable, Strategies
        <5>2. QED
          BY <5>1
      <4>3. QED
        BY <4>1, <4>2
    <3>2. Range(f) = {SubsetStable}
      <4> HIDE DEF f
      <4> QED
        BY <3>1 DEF Range
    <3> HIDE DEF f
    <3>3. QED
      BY <1>1, <3>2 DEF StableVirtualService
  <2> HIDE DEF h
  <2>2. IsFiniteSet({SubsetStable}) /\ Cardinality({SubsetStable}) = 1
    BY FS_Singleton
  <2> DEFINE T == {SubsetStable}
  <2> HIDE DEF T
  <2>3. SumFunctionOnSet(h, T) = 100 * Cardinality(T)
    BY <2>1, <2>2, SumConstant DEF T
  <2>4. QED
    BY <2>1, <2>2, <2>3 DEF TotalWeight, SumFunction, h, T
<1>2. CASE t = "keep_last"
  <2> DEFINE P == Positive(spec, k)
  <2>1. \A v \in Versions(spec) : k[v] \in Nat
    BY DEF SumsUp
  <2>2. DOMAIN f = P /\ \A u, v \in P : f[u] = f[v] => u = v
    BY <1>2, <2>1, StablesDiffer
  <2>3. IsFiniteSet(Versions(spec)) /\ IsFiniteSet(P)
    BY SpecNumbers, VersionsFinite, FS_Subset DEF Positive
  <2>4. DOMAIN h = {f[v] : v \in P}
    <3> HIDE DEF f, P
    <3> QED
      BY <2>2 DEF StableVirtualService, Range
  <2>5. \A v \in P : k[v] \in Nat /\ k[v] = h[f[v]]
    <3>1. \A v \in P : k[v] \in Nat
      BY <2>1 DEF Positive
    <3>2. h = [n \in Range(f) |-> k[CHOOSE v \in DOMAIN f : f[v] = n]]
      BY <1>2 DEF StableVirtualService
    <3> HIDE DEF f, P, h
    <3>3. ASSUME NEW v \in P PROVE k[v] = h[f[v]]
      <4> DEFINE u == CHOOSE u \in DOMAIN f : f[u] = f[v]
      <4>1. v \in DOMAIN f /\ f[v] \in Range(f)
        BY <2>2 DEF Range
      <4>2. u \in DOMAIN f /\ f[u] = f[v]
        BY <4>1
      <4>3. u = v
        BY <2>2, <4>2
      <4>4. h[f[v]] = k[u]
        BY <3>2, <4>1
      <4>5. QED
        BY <4>3, <4>4
    <3>4. QED
      BY <3>1, <3>3
  <2>6. SumFunctionOnSet(k, P) = 100
    BY <2>1, <2>3, SumDropZeros DEF SumsUp, Positive
  <2> HIDE DEF f, P, h
  <2>7. SumFunctionOnSet(k, P) = SumFunctionOnSet(h, {f[v] : v \in P})
    BY <2>2, <2>3, <2>5, SumRename
  <2>8. QED
    BY <2>4, <2>6, <2>7 DEF TotalWeight, SumFunction, h, f
<1>3. QED
  BY <1>1, <1>2

-----------------------------------------------------------------------------
(* What the desired end takes, request by request.                         *)

\* A winner that is announced is one of the candidates.
WinnerOf(e, win) == win \in (Versions(SpecOf[e]) \ {0}) \cup {None}
WinnersAreCandidates == \A e \in Experiments : \A r \in Responses : WinnerOf(e, r.winner)

Crowns ==
  /\ \A e \in Experiments : stored[e] # None => WinnerOf(e, stored[e].status.winner)
  /\ w.pc \notin OffPcs => WinnerOf(w.e, w.inst.status.winner)

\* The weights the routes of a running experiment have, and those a completion starts from.
Route(e) == [v \in Versions(SpecOf[e]) |-> vs[SpecOf[e].service].routes[Subset(v)]]
SumPcs == {"split", "complete"} \cup CleanupPcs
Shares ==
  /\ \A e \in Experiments : RunsAt(e) => SumsUp(SpecOf[e], Route(e))
  /\ w.pc \in SumPcs => SumsUp(SpecOf[w.e], w.inst.status.weights)

\* Rules nobody owns are stable; cleanup left those of a service that add up, or none.
Free(r) == r # None /\ r.labels.experiment = None
Left(s, d, v) ==
  /\ \A r \in {d, v} : Free(r) => r.labels = StableLabels
  /\ (\E e \in Experiments : SpecOf[e].service = s /\ Freed(e)) =>
       /\ Free(v) => TotalWeight(v) = 100
       /\ d = None => \E o \in Experiments : SpecOf[o].cleanup
SettledInv == Crowns /\ Shares /\ \A s \in Services : Left(s, dr[s], vs[s])

LEMMA CrownsKept ==
  ASSUME Ground, WinnersAreCandidates, Crowns, Kinds
  PROVE  Crowns'
<1>1. ASSUME NEW e \in Experiments, stored'[e] # None
      PROVE  WinnerOf(e, stored'[e].status.winner)
  <2>1. CASE SameSight
    BY <1>1, <2>1 DEF SameSight, Crowned, Crowns
  <2>2. CASE Reports /\ w.statusUpdate
    <3>1. w.pc \notin OffPcs /\ (e # w.e => stored'[e] = stored[e])
      BY <2>2 DEF Reports, OffPcs
    <3>2. e = w.e => stored'[e].status = w.inst.status
      BY <2>2, ReportLeaves
    <3>3. QED
      BY <1>1, <3>1, <3>2 DEF Crowns
  <2>3. CASE Beside
    <3>1. NewObject(e).status.winner = None
      BY DEF NewObject
    <3>2. QED
      BY <1>1, <2>3, <3>1 DEF Beside, Crowns, WinnerOf
  <2>4. QED
    BY <2>1, <2>2, <2>3, SightKept DEF Reports
<1>2. ASSUME w'.pc \notin OffPcs
      PROVE  WinnerOf(w'.e, w'.inst.status.winner)
  <2>1. CASE OnKinds
    <3>1. w.pc \notin OffPcs /\ Continues(w, w')
      BY <2>1, OnKindsGo
    <3>2. w.e \in Experiments /\ stored[w.e] # None
      BY <3>1, HerePeace
    <3>3. QED
      BY <3>1, <3>2 DEF Continues, Winners, WinnersAreCandidates, Crowns
  <2>2. CASE Aborts
    BY <2>2 DEF Aborts, Crowns, OffPcs
  <2>3. CASE Takes
    BY <1>2, <2>3 DEF Takes, Crowns, OffPcs
  <2>4. CASE Rests \/ Reports
    BY <1>2, <2>4 DEF Rests, Reports, Idle, OffPcs
  <2>5. CASE Beside
    BY <1>2, <2>5 DEF Beside, Crowns
  <2>6. QED
    BY <2>1, <2>2, <2>3, <2>4, <2>5 DEF Kinds, OnKinds
<1>3. QED
  BY <1>1, <1>2 DEF Crowns

\* Where the rules run and the copy says what they route, the copy adds up.
LEMMA ShownSums ==
  ASSUME Shares, NEW e \in Experiments, RunsAt(e), NEW k, Shown(e, k)
  PROVE  SumsUp(SpecOf[e], k)
<1>1. SumsUp(SpecOf[e], Route(e))
  BY DEF Shares
<1>2. \A v \in Versions(SpecOf[e]) : Route(e)[v] = k[v]
  BY DEF Shown, Route
<1>3. QED
  BY <1>1, <1>2, SameSums

LEMMA IterateSums ==
  ASSUME Ground, TruthInv, Shares, w.pc = "iterate"
  PROVE  SumsUp(SpecOf[w.e], w.inst.status.weights)
<1>1. w.pc \notin OffPcs
  BY DEF OffPcs
<1>2. w.e \in Experiments /\ RunsAt(w.e) /\ Shown(w.e, w.inst.status.weights)
  BY <1>1, HerePeace DEF Runs, RunPcs, TruthInv, CopyTrue
<1>3. QED
  BY <1>2, ShownSums

LEMMA OpensSums ==
  ASSUME Ground, TruthInv, w.pc = "candidatesVS"
  PROVE  SumsUp(SpecOf[w.e], w.inst.status.weights)
<1>1. w.pc \notin OffPcs
  BY DEF OffPcs
<1>2. w.e \in Experiments /\ CopyTrue(w)
  BY <1>1, HerePeace DEF TruthInv
<1>3. QED
  BY <1>2, BaselineSums DEF CopyTrue

LEMMA CopySums ==
  ASSUME Ground, TruthInv, Shares, AnswersWhole, Kinds, w'.pc \in SumPcs
  PROVE  SumsUp(SpecOf[w'.e], w'.inst.status.weights)
<1> DEFINE k == w.inst.status.weights
<1>1. CASE Finds
  <2>1. /\ w.pc \in RulePcs /\ w.pc \in {"rules", "detect"} /\ RunsAt(w.e)
        /\ w'.e = w.e /\ w'.inst.status.weights = k
    BY <1>1 DEF Finds, RulePcs, Follows, Continues
  <2>2. w.e \in Experiments /\ Shown(w.e, k)
    BY <2>1, HereTrue DEF Truthful
  <2>3. QED
    BY <2>1, <2>2, ShownSums
<1>2. CASE OpensVS \/ Counts \/ Aborts
  <2>1. w'.e = w.e /\ w'.inst.status.weights = k /\ w.pc \in {"candidatesVS", "iterate"}
    BY <1>2 DEF OpensVS, Counts, Aborts, Follows, Continues
  <2>2. QED
    BY <2>1, OpensSums, IterateSums
<1>3. CASE Weighs
  <2>1. w'.e = w.e /\ w.pc = "iterate" /\ SpecAt(w) = SpecOf[w.e] /\ w.e \in Experiments
    BY <1>3, HerePeace DEF Weighs, Continues, SpecAt, OffPcs
  <2>2. SumsUp(SpecOf[w.e], k)
    BY <2>1, IterateSums
  <2>3. CASE ~SpecOf[w.e].criteria /\ CanShare(SpecOf[w.e], k)
             /\ w'.inst.status.weights = Shared(SpecOf[w.e], k)
    BY <2>1, <2>2, <2>3, SharedSums
  <2>4. CASE /\ SpecOf[w.e].criteria
             /\ \E r \in Responses :
                  /\ r.rollback # Versions(SpecOf[w.e]) \ {0}
                  /\ Recommended(SpecOf[w.e], r) = Versions(SpecOf[w.e])
                  /\ w'.inst.status.weights = Taken(SpecOf[w.e], r, k)
    BY <2>1, <2>4, AnsweredSums
  <2>5. QED
    BY <1>3, <2>1, <2>3, <2>4 DEF Weighs
<1>4. CASE Splits \/ Completes \/ CleansTargets \/ CleansDR
  BY <1>4 DEF Splits, Completes, CleansTargets, CleansDR, Follows, Continues, Shares, SumPcs, CleanupPcs
<1>5. CASE Beside
  BY <1>5 DEF Beside, Follows, Shares, SumPcs, CleanupPcs, OffPcs
<1>6. CASE \/ Takes \/ Rests \/ Reads \/ Looks \/ GivesUp \/ LaysDR \/ LaysVS \/ OpensDR
           \/ Misses \/ CleansVS \/ Reports
  BY <1>6 DEF Takes, Rests, Reads, Looks, GivesUp, LaysDR, LaysVS, OpensDR, Misses, CleansVS, Reports,
     Idle, SumPcs, CleanupPcs, OpenPcs, BeforePcs
<1>7. QED
  BY <1>1, <1>2, <1>3, <1>4, <1>5, <1>6 DEF Kinds

LEMMA RouteSums ==
  ASSUME Ground, NoneIsNoRule, TruthInv, Shares, Kinds, [Next]_vars, NEW e \in Experiments, RunsAt(e)'
  PROVE  SumsUp(SpecOf[e], Route(e)')
<1> DEFINE s == SpecOf[e].service
<1>0. Route(e)' = [v \in Versions(SpecOf[e]) |-> vs'[s].routes[Subset(v)]] /\ s \in Services
  BY SpecAssumption DEF Route, ExperimentSpecs
<1>1. CASE e = w.e /\ (OpensVS \/ Splits)
  <2> DEFINE k == w.inst.status.weights
  <2>1. SumsUp(SpecOf[e], k)
    BY <1>1, OpensSums DEF OpensVS, Splits, Shares, SumPcs
  <2>2. \A v \in Versions(SpecOf[e]) : vs'[s].routes[Subset(v)] = k[v]
    BY <1>1, RunsShown
  <2>3. \A v \in Versions(SpecOf[e]) : k[v] = Route(e)'[v]
    BY <1>0, <2>2
  <2> HIDE DEF k
  <2>4. QED
    BY <2>1, <2>3, SameSums
<1>2. CASE ~(e = w.e /\ (OpensVS \/ Splits))
  <2>1. RunsAt(e)
    BY <1>2, RunsBegin
  <2>2. vs'[s] = vs[s]
    <3>1. CASE e # w.e
      <4>1. HandsOver
        BY StepHandsOver DEF Ground, ServedInv
      <4>2. QED
        BY <1>0, <2>1, <3>1, <4>1 DEF HandsOver, RunsAt, RunsFor
    <3>2. CASE e = w.e /\ QuietKinds
      BY <3>2, QuietKindsStay DEF ruleVars
    <3>3. CASE LaysDR \/ OpensDR \/ CleansDR
      BY <1>0, <3>3 DEF LaysDR, OpensDR, CleansDR, PutsHere
    <3>4. CASE e = w.e /\ LaysVS
      <4>1. w.pc \in RulePcs /\ w.pc = "baselineVS"
        BY <3>4 DEF LaysVS, RulePcs
      <4>2. QED
        BY <2>1, <3>4, <4>1, HereTrue
    <3>5. CASE e = w.e /\ CleansVS
      BY <2>1, <3>5 DEF CleansVS, TruthInv, Freed, Retired
    <3>6. QED
      BY <1>2, <3>1, <3>2, <3>3, <3>4, <3>5 DEF Kinds, QuietKinds
  <2>3. Route(e)' = Route(e)
    BY <1>0, <2>2 DEF Route
  <2>4. QED
    BY <2>1, <2>3 DEF Shares
<1>3. QED
  BY <1>1, <1>2

LEMMA SharesKept ==
  ASSUME Ground, NoneIsNoRule, TruthInv, Shares, AnswersWhole, Kinds, [Next]_vars
  PROVE  Shares'
<1>1. \A e \in Experiments : RunsAt(e)' => SumsUp(SpecOf[e], Route(e)')
  BY RouteSums
<1>2. w'.pc \in SumPcs => SumsUp(SpecOf[w'.e], w'.inst.status.weights)
  BY CopySums
<1>3. QED
  BY <1>1, <1>2 DEF Shares

-----------------------------------------------------------------------------
(* What becomes of the rules.                                              *)

BecomesDR(d, q) ==
  \/ q = d
  \/ q # None /\ q.labels.experiment = w.e
  \/ q # None /\ q.labels = StableLabels
  \/ q = None /\ SpecOf[w.e].cleanup
BecomesVS(v, q) ==
  \/ q = v
  \/ q # None /\ q.labels.experiment = w.e
  \/ q = None
  \/ q.labels = StableLabels /\ TotalWeight(q) = 100

LEMMA RulesBecome ==
  ASSUME Ground, NoneIsNoRule, Crowns, Shares, RuleKinds
  PROVE  LET s == Svc(w) IN
         /\ w.e \in Experiments /\ w.pc \notin OffPcs
         /\ s = SpecOf[w.e].service /\ s \in Services
         /\ \A t \in Services \ {s} : dr'[t] = dr[t] /\ vs'[t] = vs[t]
         /\ BecomesDR(dr[s], dr'[s]) /\ BecomesVS(vs[s], vs'[s])
         /\ CleansDR => vs'[s] = vs[s] /\ vs[s].labels.experiment = w.e
         /\ ~CleansDR => dr'[s] # None \/ dr'[s] = dr[s]
         /\ CleansDR /\ dr'[s] = None => SpecOf[w.e].cleanup
<1> DEFINE s == Svc(w)
           d == dr[s]
           v == vs[s]
           spec == SpecOf[w.e]
<1>1. /\ w.pc \in WritePcs /\ s \in Services
      /\ \A t \in Services \ {s} : dr'[t] = dr[t] /\ vs'[t] = vs[t]
  BY RuleKindsWrite
<1>2. /\ w.e \in Experiments /\ SpecAt(w) = spec /\ s = spec.service
      /\ KnownRule(d) /\ KnownRule(v) /\ Readied(w, d, v) /\ Owned(w, d, v) /\ Served(d, v)
      /\ w.pc \in {"split", "cleanupDR"} => IsProgressing(d, v) /\ d.labels.experiment = w.e
  BY <1>1, HereLies
<1>3. w.pc \notin OffPcs
  BY <1>1 DEF WritePcs, OffPcs
<1>4. CASE LaysDR
  <2>1. dr'[s] = BaselineDestinationRule(d, w.e, spec) /\ vs'[s] = v /\ ~CleansDR
    BY <1>1, <1>2, <1>4 DEF LaysDR, PutsHere, CleansDR
  <2>2. FullRule(BaselineDestinationRule(d, w.e, spec))
    BY <1>2, BaselineRulesFull
  <2>3. BaselineDestinationRule(d, w.e, spec).labels.experiment = w.e
    <3>1. d # None => FullRule(d)
      BY <1>2 DEF KnownRule
    <3> HIDE DEF d
    <3>2. QED
      BY <3>1 DEF BaselineDestinationRule, NewLabels, FullRule, KnownLabels, LabelFields
  <2>4. dr'[s] # None
    BY <2>1, <2>2, FullIsSome
  <2> HIDE DEF s, d, v, spec
  <2>5. BecomesDR(d, dr'[s])
    BY <1>2, <2>1, <2>3, <2>4 DEF BecomesDR, spec
  <2>6. BecomesVS(v, vs'[s])
    BY <1>2, <2>1, <2>3, <2>4 DEF BecomesVS, spec
  <2>7. QED
    BY <1>1, <1>2, <1>3, <2>1, <2>3, <2>4, <2>5, <2>6 DEF s, d, v, spec
<1>5. CASE LaysVS
  <2>1. vs'[s] = BaselineVirtualService(v, w.e, spec) /\ dr'[s] = d /\ ~CleansDR
    BY <1>1, <1>2, <1>5 DEF LaysVS, PutsHere, CleansDR
  <2>2. FullRule(BaselineVirtualService(v, w.e, spec))
    BY <1>2, BaselineRulesFull
  <2>3. BaselineVirtualService(v, w.e, spec).labels.experiment = w.e
    <3>1. v # None => FullRule(v)
      BY <1>2 DEF KnownRule
    <3> HIDE DEF v
    <3>2. QED
      BY <3>1 DEF BaselineVirtualService, NewLabels, FullRule, KnownLabels, LabelFields
  <2>4. vs'[s] # None
    BY <2>1, <2>2, FullIsSome
  <2> HIDE DEF s, d, v, spec
  <2>5. BecomesDR(d, dr'[s])
    BY <1>2, <2>1, <2>3, <2>4 DEF BecomesDR, spec
  <2>6. BecomesVS(v, vs'[s])
    BY <1>2, <2>1, <2>3, <2>4 DEF BecomesVS, spec
  <2>7. QED
    BY <1>1, <1>2, <1>3, <2>1, <2>3, <2>4, <2>5, <2>6 DEF s, d, v, spec
<1>6. CASE OpensDR \/ OpensVS
  <2>1. FullRule(d) /\ FullRule(v) /\ d.labels.experiment = w.e /\ v.labels.experiment = w.e
    BY <1>2, <1>6 DEF OpensDR, OpensVS, Readied, Owned, Labelled
  <2>2. CandidatesDestinationRule(d, spec).labels.experiment = w.e
        /\ CandidatesVirtualService(v).labels.experiment = w.e
    <3> HIDE DEF d, v, spec
    <3>1. FullRule(d) /\ FullRule(v)
      BY <2>1
    <3>2. CandidatesDestinationRule(d, spec).labels.experiment = d.labels.experiment
      BY <3>1 DEF CandidatesDestinationRule, FullRule, KnownLabels, LabelFields
    <3>3. CandidatesVirtualService(v).labels.experiment = v.labels.experiment
      BY <3>1 DEF CandidatesVirtualService, FullRule, KnownLabels, LabelFields
    <3>4. QED
      BY <2>1, <3>2, <3>3
  <2>3. \/ dr'[s] = CandidatesDestinationRule(d, spec) /\ vs'[s] = v
        \/ dr'[s] = d /\ vs'[s] = CandidatesVirtualService(v)
    BY <1>1, <1>2, <1>6 DEF OpensDR, OpensVS, PutsHere
  <2>4. ~CleansDR
    BY <1>6 DEF OpensDR, OpensVS, CleansDR
  <2>5. "labels" \in DOMAIN CandidatesDestinationRule(d, spec)
        /\ "labels" \in DOMAIN CandidatesVirtualService(v)
    BY <2>1 DEF CandidatesDestinationRule, CandidatesVirtualService, FullRule
  <2>6. CandidatesDestinationRule(d, spec) # None /\ CandidatesVirtualService(v) # None
    BY <2>5 DEF NoneIsNoRule
  <2> HIDE DEF s, d, v, spec
  <2>7. BecomesDR(d, dr'[s])
    BY <1>2, <2>2, <2>3, <2>4, <2>6 DEF BecomesDR, spec
  <2>8. BecomesVS(v, vs'[s])
    BY <1>2, <2>2, <2>3, <2>4, <2>6 DEF BecomesVS, spec
  <2>9. QED
    BY <1>1, <1>2, <1>3, <2>2, <2>3, <2>4, <2>6, <2>7, <2>8 DEF s, d, v, spec
<1>7. CASE Splits
  <2> DEFINE q == SplitVirtualService(v, spec, w.inst.status.weights)
  <2>1. vs'[s] = q /\ dr'[s] = d /\ ~CleansDR /\ w.pc = "split"
    <3>1. dr'[s] = d /\ vs'[s] = q
      BY <1>1, <1>2, <1>7 DEF Splits, PutsHere
    <3> HIDE DEF q, s, d
    <3>2. QED
      BY <1>7, <3>1 DEF Splits, CleansDR
  <2>2. FullRule(v) /\ HasRoutes(v) /\ v.labels.experiment = w.e
    BY <1>2, <2>1 DEF IsProgressing, KnownRule, Served
  <2>3. q.labels = v.labels /\ FullRule(q)
    BY <2>2, SplitsOnly
  <2> HIDE DEF q
  <2>4. q # None
    BY <2>3, FullIsSome
  <2> HIDE DEF s, d, v, spec
  <2>5. BecomesDR(d, dr'[s])
    BY <1>2, <2>1, <2>2, <2>3, <2>4 DEF BecomesDR, spec
  <2>6. BecomesVS(v, vs'[s])
    BY <1>2, <2>1, <2>2, <2>3, <2>4 DEF BecomesVS, spec
  <2>7. QED
    BY <1>1, <1>2, <1>3, <2>1, <2>2, <2>3, <2>4, <2>5, <2>6 DEF s, d, v, spec
<1>8. CASE CleansDR
  <2> DEFINE q == StableDestinationRule(d, Stable(w))
  <2>1. /\ dr'[s] = (IF Removing(w) THEN None ELSE q) /\ vs'[s] = v /\ w.pc = "cleanupDR"
    <3>1. dr'[s] = (IF Removing(w) THEN None ELSE q) /\ vs'[s] = v
      BY <1>1, <1>8 DEF CleansDR, PutsHere
    <3>2. QED
      BY <1>8, <3>1 DEF CleansDR
  <2>2. v.labels.experiment = w.e
    BY <1>2, <2>1 DEF Served
  <2>3. Removing(w) => spec.cleanup
    BY <1>2 DEF Removing
  <2>4. q.labels = StableLabels /\ "labels" \in DOMAIN q
    BY DEF StableDestinationRule
  <2>5. q # None
    BY <2>4 DEF NoneIsNoRule
  <2> HIDE DEF s, d, v, spec, q
  <2>6. BecomesDR(d, dr'[s])
    BY <1>2, <2>1, <2>2, <2>3, <2>4, <2>5 DEF BecomesDR, spec
  <2>7. BecomesVS(v, vs'[s])
    BY <1>2, <2>1, <2>2, <2>3, <2>4, <2>5 DEF BecomesVS, spec
  <2>8. QED
    BY <1>1, <1>2, <1>3, <1>8, <2>1, <2>2, <2>3, <2>4, <2>5, <2>6, <2>7 DEF s, d, v, spec
<1>9. CASE CleansVS
  <2> DEFINE k == w.inst.status.weights
             t == w.inst.spec.onTermination
             win == w.inst.status.winner
             q == StableVirtualService(v, Stable(w), t, k)
  <2>1. /\ vs'[s] = (IF d = None THEN None ELSE q) /\ dr'[s] = d /\ ~CleansDR /\ w.pc = "cleanupVS"
    BY <1>1, <1>2, <1>9 DEF CleansVS, PutsHere, CleansDR
  <2>2. SumsUp(spec, k) /\ WinnerOf(w.e, win)
    BY <1>3, <2>1 DEF Shares, SumPcs, CleanupPcs, Crowns
  <2>3. t \in Strategies
    BY <1>3, HereStable
  <2>4. q.labels = StableLabels
    BY DEF StableVirtualService
  <2>5. Stable(w) = ToStable(spec, t, win, k)
    BY <1>2 DEF Stable
  <2>6. win \in (Versions(SpecOf[w.e]) \ {0}) \cup {None}
    BY <2>2 DEF WinnerOf
  <2>7. TotalWeight(q) = 100
    <3>1. q = StableVirtualService(v, ToStable(SpecOf[w.e], t, win, k), t, k)
      BY <2>5
    <3>2. SumsUp(SpecOf[w.e], k)
      BY <2>2
    <3> HIDE DEF q, v, k, t, win, spec
    <3>3. QED
      <4>1. TotalWeight(StableVirtualService(v, ToStable(SpecOf[w.e], t, win, k), t, k)) = 100
        BY <1>2, <2>3, <2>6, <3>2, StableTotal
      <4>2. QED
        BY <3>1, <4>1
  <2> HIDE DEF s, d, v, spec, q, k, t, win
  <2>8. BecomesDR(d, dr'[s])
    BY <1>2, <2>1, <2>4, <2>7 DEF BecomesDR, spec
  <2>9. BecomesVS(v, vs'[s])
    BY <1>2, <2>1, <2>4, <2>7 DEF BecomesVS, spec
  <2>10. QED
    BY <1>1, <1>2, <1>3, <2>1, <2>4, <2>7, <2>8, <2>9 DEF s, d, v, spec
<1>10. QED
  BY <1>4, <1>5, <1>6, <1>7, <1>8, <1>9 DEF RuleKinds

LEMMA LeftKept ==
  ASSUME Ground, NoneIsNoRule, SettledInv, Kinds, NEW s \in Services
  PROVE  Left(s, dr[s], vs[s])'
<1>0. Left(s, dr[s], vs[s]) /\ Crowns /\ Shares
  BY DEF SettledInv
<1>n. \A e \in Experiments : e # None
  BY KindAssumption
<1>f. \A e \in Experiments : Freed(e)' => Freed(e) \/ (e = w.e /\ CleansDR)
  BY FreedKept
<1> DEFINE A == \E e \in Experiments : SpecOf[e].service = s /\ Freed(e)
           B == \E e \in Experiments : SpecOf[e].service = s /\ Freed(e)'
<1>1. SUFFICES ASSUME TRUE
               PROVE  /\ \A r \in {dr'[s], vs'[s]} : Free(r) => r.labels = StableLabels
                      /\ B => /\ Free(vs'[s]) => TotalWeight(vs'[s]) = 100
                              /\ dr'[s] = None => \E o \in Experiments : SpecOf[o].cleanup
  BY DEF Left, Free, TotalWeight
<1>2. CASE QuietKinds \/ (RuleKinds /\ s # Svc(w))
  <2>1. dr'[s] = dr[s] /\ vs'[s] = vs[s]
    BY <1>0, <1>2, QuietKindsStay, RulesBecome DEF ruleVars
  <2>2. B => A
    <3>1. ASSUME NEW e \in Experiments, SpecOf[e].service = s, e = w.e, CleansDR
          PROVE  FALSE
      <4>1. s = Svc(w)
        BY <3>1 DEF Svc, SpecAt
      <4>2. w.pc = "cleanupDR" /\ w'.pc = "cleanupVS"
        BY <3>1 DEF CleansDR
      <4>3. ~QuietKinds
        BY <4>2, QuietKindsStay
      <4>4. QED
        BY <1>2, <4>1, <4>3
    <3>2. QED
      BY <1>f, <3>1
  <2>3. QED
    BY <1>0, <2>1, <2>2 DEF Left
<1>3. CASE RuleKinds /\ s = Svc(w)
  <2>1. /\ w.e \in Experiments
        /\ BecomesDR(dr[s], dr'[s]) /\ BecomesVS(vs[s], vs'[s])
        /\ CleansDR => vs'[s] = vs[s] /\ vs[s].labels.experiment = w.e
        /\ ~CleansDR => dr'[s] # None \/ dr'[s] = dr[s]
        /\ CleansDR /\ dr'[s] = None => SpecOf[w.e].cleanup
    BY <1>0, <1>3, RulesBecome
  <2>2. \A r \in {dr'[s], vs'[s]} : Free(r) => r.labels = StableLabels
    BY <1>0, <1>n, <2>1 DEF BecomesDR, BecomesVS, Free, Left
  <2>3. CASE CleansDR
    BY <1>n, <2>1, <2>2, <2>3 DEF Free
  <2>4. CASE ~CleansDR
    <3>1. B => A
      BY <1>f, <2>4
    <3> HIDE DEF A, B
    <3>2. A => /\ Free(vs[s]) => TotalWeight(vs[s]) = 100
               /\ dr[s] = None => \E o \in Experiments : SpecOf[o].cleanup
      BY <1>0 DEF Left, A
    <3>3. ASSUME A, Free(vs'[s]) PROVE TotalWeight(vs'[s]) = 100
      BY <1>n, <2>1, <3>2, <3>3 DEF BecomesVS, Free
    <3>4. QED
      BY <2>1, <2>2, <2>4, <3>1, <3>2, <3>3
  <2>5. QED
    BY <2>3, <2>4
<1>4. QED
  BY <1>2, <1>3 DEF Kinds, QuietKinds, RuleKinds

LEMMA InitEnd ==
  ASSUME Init, NoneIsNoRule
  PROVE  SettledInv
<1>1. w = Idle /\ \A e \in Experiments : stored[e] = None
  BY DEF Init
<1>2. \A s \in Services : ~IsProgressing(dr[s], vs[s])
  BY InitQuiet
<1>3. \A e \in Experiments : SpecOf[e].service \in Services
  BY SpecAssumption DEF ExperimentSpecs
<1>4. Crowns /\ Shares
  BY <1>1, <1>2, <1>3 DEF Crowns, Shares, RunsAt, RunsFor, Idle, OffPcs, SumPcs, CleanupPcs
<1>5. \A e \in Experiments : ~Freed(e)
  BY <1>1 DEF Freed, Completed, Retired, Idle
<1>6. ASSUME NEW s \in Services
      PROVE  \A r \in {dr[s], vs[s]} : Free(r) => r.labels = StableLabels
  <2>1. PICK r \in [Services -> InitialRules] :
          dr = [q \in Services |-> r[q].dr] /\ vs = [q \in Services |-> r[q].vs]
    BY DEF Init
  <2>2. dr[s] = r[s].dr /\ vs[s] = r[s].vs /\ r[s] \in InitialRules
    BY <2>1
  <2>3. \/ r[s].dr = None /\ r[s].vs = None
        \/ {r[s].dr.labels, r[s].vs.labels} = {StableLabels}
    BY <2>2, SpecAssumption
  <2>4. CASE r[s].dr = None /\ r[s].vs = None
    BY <2>2, <2>4 DEF Free
  <2>5. CASE {r[s].dr.labels, r[s].vs.labels} = {StableLabels}
    <3>1. r[s].dr.labels = StableLabels /\ r[s].vs.labels = StableLabels
      BY <2>5
    <3>2. QED
      BY <2>2, <3>1
  <2>6. QED
    BY <2>3, <2>4, <2>5
<1>7. QED
  BY <1>4, <1>5, <1>6 DEF SettledInv, Left

LEMMA EndKept ==
  ASSUME Ground, NoneIsNoRule, WinnersAreCandidates, AnswersWhole, TruthInv, SettledInv,
         Kinds, [Next]_vars
  PROVE  SettledInv'
<1>1. Crowns' /\ Shares'
  BY CrownsKept, SharesKept DEF SettledInv
<1>2. \A s \in Services : Left(s, dr[s], vs[s])'
  BY LeftKept
<1>3. QED
  BY <1>1, <1>2 DEF SettledInv

(***************************************************************************)
(* Once an experiment has completed and until another one takes the rules  *)
(* over, the rules are stable, owned by nobody, route all of the traffic,  *)
(* and to subsets that exist; or they were iter8's own and a cleanup       *)
(* deleted both.  For any experiments, services, strategies and numbers of *)
(* candidates, with or without criteria, where the answers recommend       *)
(* weights that add up and name no winner but a candidate.                 *)
(***************************************************************************)
THEOREM EndsAsDesired ==
  ASSUME Peace, RulesGiven, AnswersComplete, AnswersWhole, WinnersAreCandidates, NoneIsNothing
  PROVE  Spec => []DesiredEnd
<1> USE DEF NoneIsNothing
<1>1. Spec => []Ground
  BY GroundHolds
<1>2. Init => TruthInv /\ SettledInv
  BY InitTruth, InitEnd
<1>3. Ground /\ (TruthInv /\ SettledInv) /\ [Next]_vars => (TruthInv /\ SettledInv)'
  BY StepIsKind, TruthKept, EndKept
<1>4. Ground /\ SettledInv => DesiredEnd
  <2> SUFFICES ASSUME Ground, SettledInv, At("idle"), NEW e \in Experiments, Completed(e),
                      ~TakenOver(SpecOf[e].service)
               PROVE  LET s == SpecOf[e].service IN
                      /\ Settled(s)
                      /\ dr[s] = None => \E o \in Experiments : SpecOf[o].cleanup
    BY DEF DesiredEnd
  <2> DEFINE s == SpecOf[e].service
  <2>1. s \in Services
    BY SpecAssumption DEF ExperimentSpecs
  <2>2. Alike(dr[s], vs[s])
    BY <2>1 DEF Ground, RestInv, PairsAlike, At, HalfPcs
  <2>3. Left(s, dr[s], vs[s]) /\ Freed(e)
    BY <2>1 DEF SettledInv, Freed
  <2>4. dr[s] # None /\ vs[s] # None => Free(dr[s]) /\ Free(vs[s])
    BY DEF TakenOver, Free
  <2>5. Settled(s)
    BY <2>2, <2>3, <2>4 DEF Settled, Alike, Left
  <2>6. dr[s] = None => \E o \in Experiments : SpecOf[o].cleanup
    BY <2>3 DEF Left
  <2>7. QED
    BY <2>5, <2>6
<1>5. QED
  BY <1>1, <1>2, <1>3, <1>4, PTL DEF Spec
=============================================================================
