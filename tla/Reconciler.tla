----------------------------- MODULE Reconciler -----------------------------
(***************************************************************************)
(* The experiment controller (pkg/controller/experiment): one worker takes *)
(* experiments off a workqueue and reconciles them, against an API server  *)
(* it reads through a cache that lags behind, while users edit experiments,*)
(* targets come and go, API calls fail and the process crashes.            *)
(*                                                                         *)
(* A step of the worker is what it does up to and including one call to    *)
(* the API server or to the shared Iter8Cache; everything between two such *)
(* calls only touches the worker's own copy of the experiment.  Iter8Cache *)
(* is composed as an instance, RoutingRules supplies what the writes of    *)
(* the router put in the rules.                                            *)
(***************************************************************************)
EXTENDS RoutingRules

CONSTANTS
  Experiments, Services, Deployments,
  SpecOf,            \* the fixed part of each experiment's spec
  Matches,           \* clauses that select requests
  Responses,         \* what the analytics service may answer
  UserOverrides,     \* the manual overrides users may request
  Deletable,         \* the experiments users may delete
  InitialTargets,    \* which targets may exist at first: a set of sets
  InitialRules,      \* which rules a service may have at first: a set of pairs of rules
  StaleReads,        \* may the worker read an experiment its cache has not caught up on?
  MaxOverrides,      \* bound: user overrides
  MaxArrivals,       \* bound: targets created by users
  MaxLosses,         \* bound: targets deleted by users
  MaxFailures,       \* bound: failed calls (API server, metrics, analytics)
  MaxCrashes         \* bound: crashes of the process not caused by the program

Targets == Services \cup Deployments

Strategies == {"to_winner", "to_baseline", "keep_last"}
NoSplit == [v \in {} |-> 0]
Terminate(split) == [action |-> "terminate", split |-> split]

\* Only the worker writes rules, so the copies the router keeps equal the rules
\* themselves wherever it uses them.  MaxIncrements and MaxIterations are
\* effective values, the defaults filled in.
ExperimentSpecs ==
  [service: Services, baseline: Deployments, candidates: Seq(Deployments),
   onTermination: Strategies, criteria: BOOLEAN, cleanup: BOOLEAN,
   maxIterations: Nat, maxIncrement: Nat, match: SUBSET Matches]

\* An answer of the analytics service: the winner if one was found, the weights its
\* strategy recommends, perhaps not for each version, and candidates to roll back.
IsResponse(r) ==
  /\ DOMAIN r = {"winner", "weights", "rollback"}
  /\ r.winner \in Nat \cup {None}
  /\ DOMAIN r.weights \subseteq Nat
  /\ \A v \in DOMAIN r.weights : r.weights[v] \in 0..100
  /\ r.rollback \subseteq Nat \ {0}

ASSUME SpecAssumption ==
  /\ DOMAIN SpecOf = Experiments
  /\ \A e \in Experiments : SpecOf[e] \in ExperimentSpecs
  /\ \A r \in Responses : IsResponse(r)
  /\ Deletable \subseteq Experiments
  /\ InitialTargets \subseteq SUBSET Targets
  /\ \A r \in InitialRules :
       \/ r.dr = None /\ r.vs = None
       \/ /\ DOMAIN r.dr = {"labels", "subsets"} /\ DOMAIN r.vs = {"labels", "routes", "match"}
          /\ {r.dr.labels, r.vs.labels} = {StableLabels}
  /\ StaleReads \in BOOLEAN
  /\ {MaxOverrides, MaxArrivals, MaxLosses, MaxFailures, MaxCrashes} \subseteq Nat

\* Objects of different kinds are different; None is none of them, nor a request to
\* terminate.
ASSUME KindAssumption ==
  /\ Services \cap Deployments = {}
  /\ None \notin Experiments \cup Targets
  /\ Terminate(NoSplit) # None

VARIABLES
  \* the API server, and the controller's informer cache of it
  stored,     \* experiment -> object at the API server, or None
  cached,     \* experiment -> object the informer delivered last, or None
  current,    \* experiments whose cached object is the stored version
  notify,     \* experiments with an undelivered event the watch predicates let through
  \* the cluster
  exists,     \* targets that exist
  announced,  \* targets whose last event handled was a creation
  dr, vs,     \* service -> DestinationRule, VirtualService, or None
  \* the controller process
  experimentAbstractStore, service2Experiment, deployment2Experiment,  \* Iter8Cache
  marked,     \* targets marked by a handler that has not mapped them yet
  queue,      \* the workqueue
  timer,      \* experiment -> delayed request: none, waiting, or early
  w,          \* the worker
  \* what the environment may still do
  budget

apiVars == <<stored, cached, current, notify>>
targetVars == <<exists, announced>>
ruleVars == <<dr, vs>>
cacheVars == <<experimentAbstractStore, service2Experiment, deployment2Experiment>>
vars == <<apiVars, targetVars, ruleVars, cacheVars, marked, queue, timer, w, budget>>

Cache == INSTANCE Iter8Cache WITH
  requests <- queue, worker <- IF w.taken THEN w.e ELSE None

\* What RegisterExperiment takes from a spec.
TargetSpec(e) == [service    |-> SpecOf[e].service,
                  baseline   |-> SpecOf[e].baseline,
                  candidates |-> Range(SpecOf[e].candidates)]

-----------------------------------------------------------------------------
(* Experiment objects.  The conditions of the status are "Unknown", "True" *)
(* or the error they report; of timestamps only what the code tests:       *)
(* lastUpdate is absent, recent (the interval has not passed) or past.     *)

NewObject(e) ==
  [spec |-> [override |-> None, onTermination |-> SpecOf[e].onTermination, metrics |-> FALSE],
   finalizer |-> FALSE,
   deleting |-> FALSE,
   status |-> [initialized |-> FALSE, phase |-> "", message |-> FALSE,
               metricsSynced |-> "Unknown", targets |-> "Unknown", rules |-> "Unknown",
               analytics |-> "Unknown", completed |-> FALSE,
               weights |-> [v \in Versions(SpecOf[e]) |-> 0], winner |-> None,
               iteration |-> 0, lastUpdate |-> "absent"]]

\* InitStatus: the message stays nil.
InitStatus(o) == [o EXCEPT !.status.initialized = TRUE, !.status.phase = "Progressing"]

\* Faulty variant: only a changed spec counts, a deletion does not.
EventPassesSpecOnly(old, new) ==
  /\ new.spec # old.spec
  /\ ~(old.spec.override # None /\ new.spec.override = None)

\* The predicates of the Experiment watch on an update.
EventPasses(old, new) ==
  /\ new.spec # old.spec \/ new.deleting # old.deleting     \* generation changed
  /\ ~(~old.finalizer /\ new.finalizer)
  /\ ~(old.spec.override # None /\ new.spec.override = None)
  /\ ~(~old.spec.metrics /\ new.spec.metrics)

Pausing(o) == o.spec.override # None /\ o.spec.override.action = "pause"
Resuming(o) == o.spec.override # None /\ o.spec.override.action = "resume"
Terminating(o) == o.spec.override # None /\ o.spec.override.action = "terminate"

\* overrideAssessment: a traffic split reaches the baseline's weight only, the
\* loop over the candidates assigns to copies of them.
OverrideAssessment(o) ==
  IF o.spec.override = None THEN o
  ELSE LET split == o.spec.override.split IN
       IF split = NoSplit
         THEN [o EXCEPT !.spec.onTermination = "to_baseline"]
         ELSE [o EXCEPT !.spec.onTermination = "keep_last",
                        !.status.weights[0] = IF 0 \in DOMAIN split THEN split[0] ELSE 0]

\* onDeletedTarget
OnDeletedTarget(o, role) ==
  [o EXCEPT !.spec.override =
     Terminate(IF role \in {"candidate", "service"} THEN [v \in {0} |-> 100] ELSE NoSplit)]

-----------------------------------------------------------------------------
(* The worker: where it is, whose request it handles, its copy of the      *)
(* object, whether that copy is of the stored version, whether it took the *)
(* request but has not read the cache's snapshot, whether the snapshot     *)
(* says to terminate, and the flags of interState.                         *)

Idle == [pc |-> "idle", e |-> None, inst |-> None, fresh |-> FALSE, taken |-> FALSE,
         terminate |-> FALSE, statusUpdate |-> FALSE, refresh |-> FALSE, progress |-> FALSE]

At(pc) == w.pc = pc
Goto(x, pc) == [x EXCEPT !.pc = pc]
SpecAt(x) == SpecOf[x.e]

\* recorder.go and status.go: each mark sets a condition, often the phase and
\* the message, and asks for a status update if the condition changed.
MarkTargetsError(x, tag) ==
  [x EXCEPT !.inst.status.phase = "Pause", !.inst.status.targets = tag,
            !.statusUpdate = @ \/ x.inst.status.targets # tag]
MarkTargetsFound(x) ==
  [x EXCEPT !.inst.status.targets = "True",
            !.statusUpdate = @ \/ x.inst.status.targets # "True"]
MarkRoutingRulesError(x, tag) ==
  [x EXCEPT !.inst.status.phase = "Pause", !.inst.status.message = TRUE,
            !.inst.status.rules = tag,
            !.statusUpdate = @ \/ x.inst.status.rules # tag]
MarkRoutingRulesReady(x) ==
  [x EXCEPT !.inst.status.message = TRUE, !.inst.status.rules = "True",
            !.statusUpdate = @ \/ x.inst.status.rules # "True"]
MarkAnalyticsServiceError(x) ==
  [x EXCEPT !.inst.status.phase = "Pause", !.inst.status.message = TRUE,
            !.inst.status.analytics = "Error",
            !.statusUpdate = @ \/ x.inst.status.analytics # "Error"]
MarkAnalyticsServiceRunning(x) ==
  [x EXCEPT !.inst.status.analytics = "True",
            !.statusUpdate = @ \/ x.inst.status.analytics # "True"]
MarkSyncMetricsError(x) ==
  [x EXCEPT !.inst.status.phase = "Pause", !.inst.status.metricsSynced = "Error",
            !.statusUpdate = TRUE]
MarkSyncMetrics(x) ==
  [x EXCEPT !.inst.status.metricsSynced = "True",
            !.statusUpdate = @ \/ x.inst.status.metricsSynced # "True"]

\* Marks on the completion condition; their text always differs from the last.
MarkPhase(x, phase) ==
  [x EXCEPT !.inst.status.phase = phase, !.inst.status.message = TRUE,
            !.inst.status.completed = (phase = "Completed"), !.statusUpdate = TRUE]
MarkAssessmentUpdate(x) == MarkPhase(x, "Progressing")
MarkIterationUpdate(x) == [MarkPhase(x, "Progressing") EXCEPT !.progress = TRUE]
MarkExperimentCompleted(x) == MarkPhase(x, "Completed")
MarkActionPause(x) == MarkPhase(x, "Pause")
MarkActionResume(x) == [MarkPhase(x, "Progressing") EXCEPT !.refresh = TRUE]

\* MarkTargetsError and MarkMetricsSyncedError write through the message pointer.
Panics(x) == ~x.inst.status.message

-----------------------------------------------------------------------------
(* Where syncKubernetes goes next.                                         *)

NeedsMetrics(x) == SpecAt(x).criteria /\ x.inst.status.metricsSynced # "True"

ToDetectTargets(x) == ~x.terminate /\ (x.inst.status.targets # "True" \/ x.refresh)

ToUpdate(x) == ~Terminating(x.inst) /\ x.inst.status.lastUpdate # "recent"

\* Faulty variant: the iteration just counted is not.
ToCompleteLate(x) ==
  \/ SpecAt(x).maxIterations + 1 < x.inst.status.iteration
  \/ Terminating(x.inst)
  \/ x.terminate

ToComplete(x) ==
  \/ SpecAt(x).maxIterations < x.inst.status.iteration
  \/ Terminating(x.inst)
  \/ x.terminate

AfterUpdate(x) == Goto(x, IF ToComplete(x) THEN "complete" ELSE "end")
AfterTargets(x) == IF ToUpdate(x) THEN Goto(x, "iterate") ELSE AfterUpdate(x)
AfterRules(x) == IF ToDetectTargets(x) THEN Goto(x, "detect") ELSE AfterTargets(x)
AfterProceed(x) == Goto(x, IF NeedsMetrics(x) THEN "metrics" ELSE "rules")

-----------------------------------------------------------------------------
(* Writes to the API server.                                               *)

\* The stored version of e becomes new; whoever holds a copy of the old one is
\* out of date, except the worker when the write is its own.
Store(e, new) ==
  /\ stored' = [stored EXCEPT ![e] = new]
  /\ current' = IF new = stored[e] THEN current ELSE current \ {e}
  /\ notify' = IF None \in {stored[e], new} \/ EventPasses(stored[e], new)
                 THEN notify \cup {e} ELSE notify
  /\ UNCHANGED cached

\* Faulty variant: the last write wins, a stale copy is saved as well.
OutcomesLastWins ==
  IF stored[w.e] = None THEN {"failed"}
  ELSE IF budget.failures > 0 THEN {"ok", "failed"} ELSE {"ok"}

\* How a write of the worker's copy may end: a stale copy is refused with "the
\* object has been modified", which validUpdateErr takes for no error; any other
\* refusal is an error.
Outcomes ==
  IF stored[w.e] = None THEN {"failed"}
  ELSE IF ~w.fresh THEN {"conflict"}
  ELSE IF budget.failures > 0 THEN {"ok", "failed"} ELSE {"ok"}

Spend(outcome) ==
  budget' = IF outcome = "failed" /\ stored[w.e] # None
              THEN [budget EXCEPT !.failures = @ - 1] ELSE budget

\* Status().Update writes the status only.
UpdateStatus(outcome) ==
  /\ Spend(outcome)
  /\ IF outcome = "ok" THEN Store(w.e, [stored[w.e] EXCEPT !.status = w.inst.status])
                       ELSE UNCHANGED apiVars

\* Update writes spec and metadata; the answer replaces the copy's status with
\* the stored one, field by field: what is absent there stays in the copy.
Update(outcome, inst) ==
  /\ Spend(outcome)
  /\ IF outcome = "ok"
       THEN Store(w.e, IF inst.deleting /\ ~inst.finalizer THEN None
                       ELSE [stored[w.e] EXCEPT !.spec = inst.spec, !.finalizer = inst.finalizer])
       ELSE UNCHANGED apiVars

Overlay(outcome, inst) ==
  IF outcome = "ok"
    THEN [inst EXCEPT !.status = [stored[w.e].status EXCEPT
                                    !.message = @ \/ inst.status.message,
                                    !.winner = IF @ = None THEN inst.status.winner ELSE @]]
    ELSE inst

\* AddRateLimited: soon, moving forward a delayed request that is waiting.
RequeueSoon(e) == timer' = [timer EXCEPT ![e] = "early"]

\* Faulty variant: the next iteration is not requested.
RequeueNever(e) == UNCHANGED timer

\* AddAfter(interval): a delayed request that is waiting stays as it is.
RequeueAfter(e) == timer' = [timer EXCEPT ![e] = IF @ = "none" THEN "waiting" ELSE @]

-----------------------------------------------------------------------------
(* Reconcile.                                                              *)

\* Get the requested experiment from the informer's cache.
Fetch(e) ==
  /\ At("idle")
  /\ e \in queue
  /\ StaleReads \/ e \in current
  /\ queue' = queue \ {e}
  /\ LET o == cached[e]
         x == [Idle EXCEPT !.e = e, !.inst = o, !.fresh = e \in current, !.taken = TRUE]
     IN w' = Goto(x, CASE o = None -> "notFound"
                       [] o # None /\ ~o.status.initialized -> "init"
                       [] o # None /\ o.status.initialized /\ ~o.finalizer -> "finalizer"
                       [] OTHER -> "dispatch")
  /\ UNCHANGED <<apiVars, targetVars, ruleVars, cacheVars, marked, timer, budget>>

NotFound ==
  /\ At("notFound")
  /\ w' = Idle
  /\ UNCHANGED <<apiVars, targetVars, ruleVars, cacheVars, marked, queue, timer, budget>>

\* First reconcile of the object: initialize its status.
SaveInitStatus ==
  /\ At("init")
  /\ LET x == [w EXCEPT !.inst = InitStatus(@)] IN
     \E outcome \in Outcomes :
       /\ Spend(outcome)
       /\ IF outcome = "ok" THEN Store(w.e, [stored[w.e] EXCEPT !.status = x.inst.status])
                            ELSE UNCHANGED apiVars
       /\ w' = IF outcome = "failed" THEN Idle
               ELSE Goto(x, IF x.inst.finalizer THEN "dispatch" ELSE "finalizer")
  /\ UNCHANGED <<targetVars, ruleVars, cacheVars, marked, queue, timer>>

\* addFinalizerIfAbsent
AddFinalizer ==
  /\ At("finalizer")
  /\ LET inst == [w.inst EXCEPT !.finalizer = TRUE] IN
     \E outcome \in Outcomes :
       /\ Update(outcome, inst)
       /\ IF outcome = "failed"
            THEN w' = Idle /\ RequeueSoon(w.e)
            ELSE /\ w' = Goto([w EXCEPT !.inst = Overlay(outcome, inst)], "dispatch")
                 /\ UNCHANGED timer
  /\ UNCHANGED <<targetVars, ruleVars, cacheVars, marked, queue>>

\* The object is being deleted, finalizeIstio: terminate unless completed.
StartFinalize ==
  /\ At("dispatch")
  /\ w.inst.deleting
  /\ w' = IF w.inst.status.completed
            THEN Goto([w EXCEPT !.taken = FALSE], "unfinalize")
            ELSE Goto([w EXCEPT !.inst =
                         OverrideAssessment([@ EXCEPT !.spec.override = Terminate(NoSplit)])],
                      "rules")
  /\ UNCHANGED <<apiVars, targetVars, ruleVars, cacheVars, marked, queue, timer, budget>>

\* The experiment completed earlier: nothing to do.
SkipCompleted ==
  /\ At("dispatch")
  /\ ~w.inst.deleting
  /\ w.inst.status.completed
  /\ w' = Idle
  /\ UNCHANGED <<apiVars, targetVars, ruleVars, cacheVars, marked, queue, timer, budget>>

\* Faulty variant: a completed experiment is reconciled like any other.
ToReconcileCompleted == At("dispatch") /\ ~w.inst.deleting

ToReconcile == At("dispatch") /\ ~w.inst.deleting /\ ~w.inst.status.completed

\* The whole process stops and starts again: everything in memory is gone, the
\* informers list what exists and the workqueue gets every experiment.
Restart ==
  /\ w' = Idle
  /\ queue' = {e \in Experiments : stored[e] # None}
  /\ timer' = [e \in Experiments |-> "none"]
  /\ marked' = {}
  /\ experimentAbstractStore' = [e \in Experiments |-> None]
  /\ service2Experiment' = [s \in Services |-> None]
  /\ deployment2Experiment' = [d \in Deployments |-> None]
  /\ cached' = stored
  /\ current' = Experiments
  /\ notify' = {}
  /\ announced' = exists
  /\ UNCHANGED <<stored, exists, ruleVars>>

\* Its targets belong to another experiment.
Reject ==
  /\ ToReconcile
  /\ Cache!Conflicting(w.e, TargetSpec(w.e))
  /\ IF Panics(w)
       THEN Restart
       ELSE /\ w' = Goto([MarkTargetsError(w, "Conflict") EXCEPT !.taken = FALSE], "end")
            /\ UNCHANGED <<apiVars, targetVars, ruleVars, cacheVars, marked, queue, timer>>
  /\ UNCHANGED budget

\* Faulty variant: a found target does not end the pause.
SyncExperimentNoResume(x, ea) ==
  IF Terminating(x.inst) THEN [x EXCEPT !.inst = OverrideAssessment(@)]
  ELSE IF ea.action = "terminate"
    THEN MarkTargetsError(
           [x EXCEPT !.inst = OverrideAssessment(OnDeletedTarget(@, ea.deletedRole))], "Lost")
    ELSE x

\* syncExperiment, on the snapshot of the abstract: the override of the spec
\* goes first, then what the cache saw of the targets.
SyncExperiment(x, ea) ==
  CASE Terminating(x.inst) -> [x EXCEPT !.inst = OverrideAssessment(@)]
    [] ~Terminating(x.inst) /\ ea.action = "terminate" ->
         MarkTargetsError(
           [x EXCEPT !.inst = OverrideAssessment(OnDeletedTarget(@, ea.deletedRole))], "Lost")
    [] ~Terminating(x.inst) /\ ea.action = "resume" ->
         [x EXCEPT !.inst.status.phase = "Progressing"]
    [] OTHER -> x

\* Faulty variant: once paused, any request in the spec leaves the pause.
ProceedUnpaused(x) ==
  CASE Pausing(x.inst) /\ x.inst.status.phase # "Pause" -> Goto(MarkActionPause(x), "pauseSave")
    [] ~Pausing(x.inst) /\ x.inst.status.phase # "Pause" -> AfterProceed(x)
    [] OTHER ->
         IF Resuming(x.inst)
           THEN Goto([MarkActionResume(x) EXCEPT !.inst.spec.override = None], "resumeSave")
           ELSE IF x.inst.spec.override # None THEN AfterProceed(MarkActionResume(x)) ELSE Idle

\* proceed: pause, or leave the pause phase only for a reason.
Proceed(x) ==
  CASE Pausing(x.inst) -> Goto(MarkActionPause(x), "pauseSave")
    [] ~Pausing(x.inst) /\ x.inst.status.phase # "Pause" -> AfterProceed(x)
    [] OTHER ->
         IF Terminating(x.inst) THEN AfterProceed(MarkActionResume(x))
         ELSE IF Resuming(x.inst)
           THEN Goto([MarkActionResume(x) EXCEPT !.inst.spec.override = None], "resumeSave")
           ELSE Idle

\* Register, read the snapshot, and decide whether to proceed.
Begin ==
  /\ ToReconcile
  /\ ~Cache!Conflicting(w.e, TargetSpec(w.e))
  /\ LET ea == Cache!CurrentAbstract(w.e, TargetSpec(w.e))
         x == SyncExperiment([w EXCEPT !.taken = FALSE, !.terminate = ea.action = "terminate"], ea)
     IN IF ea.action = "terminate" /\ ~Terminating(w.inst) /\ Panics(w)
          THEN Restart
          ELSE /\ Cache!RegisterExperiment(w.e, TargetSpec(w.e))
               /\ w' = Proceed([x EXCEPT !.statusUpdate = FALSE])
               /\ UNCHANGED <<apiVars, targetVars, ruleVars, marked, queue, timer>>
  /\ UNCHANGED budget

SavePause ==
  /\ At("pauseSave")
  /\ \E outcome \in Outcomes : UpdateStatus(outcome)
  /\ w' = Idle
  /\ UNCHANGED <<targetVars, ruleVars, cacheVars, marked, queue, timer>>

\* The resume request is cleared from the spec.
SaveResume ==
  /\ At("resumeSave")
  /\ \E outcome \in Outcomes :
       /\ Update(outcome, w.inst)
       /\ w' = IF outcome = "failed" THEN Idle
               ELSE AfterProceed([w EXCEPT !.inst = Overlay(outcome, @)])
  /\ UNCHANGED <<targetVars, ruleVars, cacheVars, marked, queue, timer>>

\* syncMetrics: the config map cannot be read.  The status is written twice, the
\* second time with the same content.
MetricsUnreadable ==
  /\ At("metrics")
  /\ budget.failures > 0
  /\ IF Panics(w)
       THEN Restart /\ UNCHANGED budget
       ELSE /\ LET inst == MarkSyncMetricsError(w).inst IN
               IF stored[w.e] # None /\ w.fresh
                 THEN Store(w.e, [stored[w.e] EXCEPT !.status = inst.status])
                 ELSE UNCHANGED apiVars
            /\ budget' = [budget EXCEPT !.failures = @ - 1]
            /\ w' = Idle
            /\ UNCHANGED <<targetVars, ruleVars, cacheVars, marked, queue, timer>>

\* syncMetrics: the definitions are copied into the spec.
SyncMetrics ==
  /\ At("metrics")
  /\ LET inst == [w.inst EXCEPT !.spec.metrics = TRUE] IN
     \E outcome \in Outcomes :
       /\ Update(outcome, inst)
       /\ w' = IF outcome = "failed" THEN Goto([w EXCEPT !.inst = inst], "end")
               ELSE Goto(MarkSyncMetrics([w EXCEPT !.inst = Overlay(outcome, inst)]), "rules")
  /\ UNCHANGED <<targetVars, ruleVars, cacheVars, marked, queue, timer>>

-----------------------------------------------------------------------------
(* syncKubernetes.                                                         *)

Svc(x) == SpecAt(x).service
Finalizing == w.inst.deleting

\* Calls that are not to the API server's Experiment objects may fail.
MayFail(ok) ==
  /\ ok \/ budget.failures > 0
  /\ budget' = IF ok THEN budget ELSE [budget EXCEPT !.failures = @ - 1]

\* checkOrInitRules
UseRules ==
  /\ At("rules")
  /\ RulesAccepted(dr[Svc(w)], vs[Svc(w)], w.e)
  /\ w' = AfterRules(MarkRoutingRulesReady(w))
  /\ UNCHANGED <<apiVars, targetVars, ruleVars, cacheVars, marked, queue, timer, budget>>

\* ... and its error path: complete the experiment, with a router that knows no
\* rules, so that only the cache and the targets are cleaned up.
RefuseRules ==
  /\ At("rules")
  /\ \E ok \in BOOLEAN :
       /\ MayFail(ok)
       /\ ok => ~RulesAccepted(dr[Svc(w)], vs[Svc(w)], w.e)
  /\ w' = Goto([MarkRoutingRulesError(w, "GetError") EXCEPT !.taken = FALSE],
               IF SpecAt(w).cleanup THEN "abandonTargets" ELSE "end")
  /\ Cache!RemoveExperiment(w.e)
  /\ UNCHANGED <<apiVars, targetVars, ruleVars, marked, queue, timer>>

\* The error a missing target is reported with.
Missing(kind) ==
  IF w.inst.status.targets = "True"
    THEN [Service |-> "DeletedService", Baseline |-> "DeletedBaseline",
          Candidate |-> "DeletedCandidate"][kind]
    ELSE [Service |-> "MissingService", Baseline |-> "MissingBaseline",
          Candidate |-> "MissingCandidate"][kind]

CandidatesExist(x) == Range(SpecAt(x).candidates) \subseteq exists

\* detectTargets: stop at the first target that is missing; with progressing
\* rules there is nothing to write.
DetectTargets ==
  /\ At("detect")
  /\ LET spec == SpecAt(w)
         missing == IF spec.service \notin exists THEN "Service"
                    ELSE IF spec.baseline \notin exists THEN "Baseline"
                    ELSE "Candidate"
     IN \/ /\ ~({spec.service, spec.baseline} \subseteq exists)
           /\ w' = Goto(MarkTargetsError(w, Missing(missing)), "end")
        \/ /\ {spec.service, spec.baseline} \subseteq exists
           /\ IsProgressing(dr[Svc(w)], vs[Svc(w)])
           /\ w' = IF CandidatesExist(w) THEN AfterTargets(MarkTargetsFound(w))
                   ELSE Goto(MarkTargetsError(w, Missing(missing)), "end")
        \/ /\ {spec.service, spec.baseline} \subseteq exists
           /\ ~IsProgressing(dr[Svc(w)], vs[Svc(w)])
           /\ w' = Goto(w, "baselineDR")
  /\ UNCHANGED <<apiVars, targetVars, ruleVars, cacheVars, marked, queue, timer, budget>>

\* A write of the DestinationRule; when it fails the request ends with an error.
WriteDR(new, next, tag) ==
  \E ok \in BOOLEAN :
    /\ MayFail(ok)
    /\ dr' = IF ok THEN [dr EXCEPT ![Svc(w)] = new] ELSE dr
    /\ w' = IF ok THEN next ELSE Goto(MarkRoutingRulesError(w, tag), "end")
    /\ UNCHANGED <<apiVars, targetVars, vs, cacheVars, marked, queue, timer>>

\* ... and of the VirtualService.
WriteVS(new, next, tag) ==
  \E ok \in BOOLEAN :
    /\ MayFail(ok)
    /\ vs' = IF ok THEN [vs EXCEPT ![Svc(w)] = new] ELSE vs
    /\ w' = IF ok THEN next ELSE Goto(MarkRoutingRulesError(w, tag), "end")
    /\ UNCHANGED <<apiVars, targetVars, dr, cacheVars, marked, queue, timer>>

\* UpdateBaseline
UpdateBaselineDR ==
  /\ At("baselineDR")
  /\ WriteDR(BaselineDestinationRule(dr[Svc(w)], w.e, SpecAt(w)), Goto(w, "baselineVS"),
             "UpdateError")

UpdateBaselineVS ==
  /\ At("baselineVS")
  /\ WriteVS(BaselineVirtualService(vs[Svc(w)], w.e, SpecAt(w)),
             Goto([w EXCEPT !.inst.status.weights[0] = 100], "candidates"), "UpdateError")

MissingCandidate ==
  /\ At("candidates")
  /\ ~CandidatesExist(w)
  /\ w' = Goto(MarkTargetsError(w, Missing("Candidate")), "end")
  /\ UNCHANGED <<apiVars, targetVars, ruleVars, cacheVars, marked, queue, timer, budget>>

\* UpdateCandidates
UpdateCandidatesDR ==
  /\ At("candidates")
  /\ CandidatesExist(w)
  /\ WriteDR(CandidatesDestinationRule(dr[Svc(w)], SpecAt(w)), Goto(w, "candidatesVS"),
             "UpdateError")

UpdateCandidatesVS ==
  /\ At("candidatesVS")
  /\ WriteVS(CandidatesVirtualService(vs[Svc(w)]), AfterTargets(MarkTargetsFound(w)),
             "UpdateError")

\* The end of updateIteration.  A delayed request that waits now was asked for
\* before this iteration's time stamp.
Iterated(x) ==
  AfterUpdate([MarkIterationUpdate(x) EXCEPT !.inst.status.lastUpdate = "recent",
                                             !.inst.status.iteration = @ + 1])
StampIteration(x) ==
  timer' = [timer EXCEPT ![x.e] = IF @ = "waiting" THEN "early" ELSE @]

\* What an iteration without criteria takes from the baseline; faulty variant:
\* one candidate's increment only.
OneIncrement(spec) == spec.maxIncrement
BaselineShare(spec) == spec.maxIncrement * Len(spec.candidates)

\* ... if it has that much left; faulty variant: if it has anything left.
HasAny(spec, weights) == weights[0] > 0
CanShare(spec, weights) == weights[0] >= BaselineShare(spec)

\* Without criteria: each candidate takes maxIncrement from the baseline until
\* the baseline has too little left.
IterateWithoutCriteria ==
  /\ At("iterate")
  /\ ~SpecAt(w).criteria
  /\ LET spec == SpecAt(w)
         diff == BaselineShare(spec)
         weights == w.inst.status.weights
     IN \/ /\ CanShare(spec, weights)
           /\ w' = Goto([w EXCEPT !.inst.status.weights =
                           [v \in Versions(spec) |-> IF v = 0 THEN weights[0] - diff
                                                     ELSE weights[v] + spec.maxIncrement]],
                        "split")
           /\ UNCHANGED timer
        \/ /\ ~CanShare(spec, weights)
           /\ w' = Iterated(w)
           /\ StampIteration(w)
  /\ UNCHANGED <<apiVars, targetVars, ruleVars, cacheVars, marked, queue, budget>>

\* The analytics service cannot be reached or asked.
AnalyticsFails ==
  /\ At("iterate")
  /\ SpecAt(w).criteria
  /\ MayFail(FALSE)
  /\ w' = Goto(MarkAnalyticsServiceError(w), "end")
  /\ UNCHANGED <<apiVars, targetVars, ruleVars, cacheVars, marked, queue, timer>>

\* It finds that every candidate should be rolled back: abort.
Abort(r) ==
  /\ At("iterate")
  /\ SpecAt(w).criteria
  /\ r.rollback = Versions(SpecAt(w)) \ {0}
  /\ w' = AfterUpdate([w EXCEPT !.inst =
             OverrideAssessment([@ EXCEPT !.spec.override = Terminate(NoSplit)])])
  /\ UNCHANGED <<apiVars, targetVars, ruleVars, cacheVars, marked, queue, timer, budget>>

\* The versions whose weight updateIteration sets before it misses one.
Recommended(spec, r) ==
  {v \in Versions(spec) : \A u \in 0..v : u \in DOMAIN r.weights \cup r.rollback}

\* It recommends weights; one that is missing ends the request, after the ones
\* before it were taken over.
FollowRecommendation(r) ==
  /\ At("iterate")
  /\ SpecAt(w).criteria
  /\ r.rollback # Versions(SpecAt(w)) \ {0}
  /\ LET spec == SpecAt(w)
         taken == Recommended(spec, r)
         x == [MarkAssessmentUpdate([w EXCEPT !.inst.status.winner = r.winner]) EXCEPT
                 !.inst.status.weights =
                   [v \in Versions(spec) |-> IF v \notin taken THEN @[v]
                                             ELSE IF v \in r.rollback THEN 0 ELSE r.weights[v]]]
         changed == r.rollback # {} \/ x.inst.status.weights # w.inst.status.weights
     IN CASE taken # Versions(spec) ->
               w' = Goto(MarkAnalyticsServiceError(x), "end") /\ UNCHANGED timer
          [] taken = Versions(spec) /\ changed ->
               w' = Goto(MarkAnalyticsServiceRunning(x), "split") /\ UNCHANGED timer
          [] OTHER ->
               w' = Iterated(MarkAnalyticsServiceRunning(x)) /\ StampIteration(w)
  /\ UNCHANGED <<apiVars, targetVars, ruleVars, cacheVars, marked, queue, budget>>

\* UpdateTrafficSplit finds no VirtualService to update.
SplitWithoutRules ==
  /\ At("split")
  /\ vs[Svc(w)] = None
  /\ w' = Goto(MarkRoutingRulesError(w, "EmptyRoute"), "end")
  /\ UNCHANGED <<apiVars, targetVars, ruleVars, cacheVars, marked, queue, timer, budget>>

\* UpdateTrafficSplit
UpdateTrafficSplit ==
  /\ At("split")
  /\ vs[Svc(w)] # None
  /\ \E ok \in BOOLEAN :
       /\ MayFail(ok)
       /\ IF ok
            THEN /\ vs' = [vs EXCEPT ![Svc(w)] =
                             SplitVirtualService(@, SpecAt(w), w.inst.status.weights)]
                 /\ w' = Iterated(MarkAssessmentUpdate(w))
                 /\ StampIteration(w)
            ELSE /\ w' = Goto(MarkRoutingRulesError(w, "SplitError"), "end")
                 /\ UNCHANGED <<vs, timer>>
  /\ UNCHANGED <<apiVars, targetVars, dr, cacheVars, marked, queue>>

-----------------------------------------------------------------------------
(* completeExperiment.                                                     *)

Complete ==
  /\ At("complete")
  /\ Cache!RemoveExperiment(w.e)
  /\ w' = Goto([w EXCEPT !.taken = FALSE],
               IF SpecAt(w).cleanup THEN "cleanupTargets" ELSE "cleanupDR")
  /\ UNCHANGED <<apiVars, targetVars, ruleVars, marked, queue, timer, budget>>

\* targets.Cleanup: delete the deployments the strategy does not keep.  An error
\* is logged and the others are tried.
CleanupTargets ==
  /\ w.pc \in {"cleanupTargets", "abandonTargets"}
  /\ LET spec == SpecAt(w)
         status == w.inst.status
         keep == Kept(spec, w.inst.spec.onTermination, status.winner, status.weights)
         delete == {Deployment(spec, v) : v \in Versions(spec) \ keep}
                     \ {Deployment(spec, v) : v \in keep}
     IN \E failed \in SUBSET (delete \cap exists) :
          /\ Cardinality(failed) <= budget.failures
          /\ budget' = [budget EXCEPT !.failures = @ - Cardinality(failed)]
          /\ exists' = exists \ (delete \ failed)
  /\ w' = Goto(w, IF At("cleanupTargets") THEN "cleanupDR" ELSE "end")
  /\ UNCHANGED <<apiVars, announced, ruleVars, cacheVars, marked, queue, timer>>

Stable(x) == ToStable(SpecAt(x), x.inst.spec.onTermination, x.inst.status.winner,
                      x.inst.status.weights)
Removing(x) == SpecAt(x).cleanup /\ IsInit(dr[Svc(x)], vs[Svc(x)])

\* finalizeIstio forgets the experiment however syncKubernetes went; faulty
\* variant: it relies on the completion for that.
KeepFinalized == UNCHANGED cacheVars
ForgetFinalized == Cache!RemoveExperiment(w.e)

\* The rest of the reconcile when router.Cleanup fails: the status is not saved.
\* A request for a deletion goes on, any other is retried.
CleanupFails ==
  /\ IF Finalizing
       THEN /\ ForgetFinalized
            /\ w' = Goto(w, "unfinalize")
            /\ UNCHANGED timer
       ELSE /\ UNCHANGED cacheVars
            /\ w' = Idle
            /\ RequeueSoon(w.e)
  /\ UNCHANGED ruleVars

\* router.Cleanup, first half; without rules the update lacks a name and fails.
CleanupDR ==
  /\ At("cleanupDR")
  /\ \E ok \in BOOLEAN :
       /\ IF dr[Svc(w)] = None THEN ~ok /\ UNCHANGED budget ELSE MayFail(ok)
       /\ IF ok
            THEN /\ dr' = [dr EXCEPT ![Svc(w)] =
                             IF Removing(w) THEN None ELSE StableDestinationRule(@, Stable(w))]
                 /\ w' = Goto(w, "cleanupVS")
                 /\ UNCHANGED <<vs, cacheVars, timer>>
            ELSE CleanupFails
  /\ UNCHANGED <<apiVars, targetVars, marked, queue>>

\* ... and second half.
CleanupVS ==
  /\ At("cleanupVS")
  /\ \E ok \in BOOLEAN :
       /\ MayFail(ok)
       /\ IF ok
            THEN /\ vs' = [vs EXCEPT ![Svc(w)] =
                             IF dr[Svc(w)] = None THEN None
                             ELSE StableVirtualService(@, Stable(w), w.inst.spec.onTermination,
                                                       w.inst.status.weights)]
                 /\ w' = Goto(MarkExperimentCompleted(w), "end")
                 /\ UNCHANGED <<dr, cacheVars, timer>>
            ELSE CleanupFails
  /\ UNCHANGED <<apiVars, targetVars, marked, queue>>

\* endRequest, and the request for the next iteration.
End ==
  /\ At("end")
  /\ IF w.statusUpdate THEN \E outcome \in Outcomes : UpdateStatus(outcome)
                       ELSE UNCHANGED <<apiVars, budget>>
  /\ IF Finalizing
       THEN /\ ForgetFinalized
            /\ w' = [Goto(w, "unfinalize") EXCEPT !.taken = FALSE]
            /\ UNCHANGED timer
       ELSE /\ w' = Idle
            /\ UNCHANGED cacheVars
            /\ IF w.progress /\ ~w.inst.status.completed THEN RequeueAfter(w.e)
                                                         ELSE UNCHANGED timer
  /\ UNCHANGED <<targetVars, ruleVars, marked, queue>>

\* removeFinalizer; any refusal is an error here.
Unfinalize ==
  /\ At("unfinalize")
  /\ \E outcome \in Outcomes :
       /\ Update(outcome, [w.inst EXCEPT !.finalizer = FALSE])
       /\ IF outcome = "ok" THEN UNCHANGED timer ELSE RequeueSoon(w.e)
  /\ w' = Idle
  /\ UNCHANGED <<targetVars, ruleVars, cacheVars, marked, queue>>

-----------------------------------------------------------------------------
(* The controller's other goroutines.                                      *)

\* The informer catches up on an experiment and enqueues it if one of the events
\* it delivers passed the predicates.
Deliver(e) ==
  /\ e \notin current
  /\ cached' = [cached EXCEPT ![e] = stored[e]]
  /\ current' = current \cup {e}
  /\ notify' = notify \ {e}
  /\ queue' = IF e \in notify THEN queue \cup {e} ELSE queue
  /\ UNCHANGED <<stored, targetVars, ruleVars, cacheVars, marked, timer, w, budget>>

\* The event of a target: the predicate marks it in the cache ...
HandleTargetEvent(t) ==
  LET found == t \in exists IN
  /\ found # (t \in announced)
  /\ \A m \in marked : (m \in Services) # (t \in Services)
  /\ announced' = IF found THEN announced \cup {t} ELSE announced \ {t}
  /\ IF Cache!OwnerOf(t) = None
       THEN UNCHANGED <<cacheVars, marked>>
       ELSE Cache!MarkTarget(t, found) /\ marked' = marked \cup {t}
  /\ UNCHANGED <<apiVars, exists, ruleVars, queue, timer, w, budget>>

\* Faulty variant: nobody is enqueued.
EnqueueNobody(t) ==
  /\ t \in marked
  /\ marked' = marked \ {t}
  /\ UNCHANGED <<apiVars, targetVars, ruleVars, cacheVars, queue, timer, w, budget>>

\* ... and the mapping function enqueues the owner found by a second lookup.
EnqueueOwner(t) ==
  /\ t \in marked
  /\ marked' = marked \ {t}
  /\ queue' = queue \cup ({Cache!OwnerOf(t)} \ {None})
  /\ UNCHANGED <<apiVars, targetVars, ruleVars, cacheVars, timer, w, budget>>

\* The copies of e that carry a time stamp.
Stamps(e) == {o \in {stored[e], cached[e], IF w.e = e THEN w.inst ELSE None} : o # None}
Recent(e) == \E o \in Stamps(e) : o.status.lastUpdate = "recent"

\* The interval since the last iteration passes, wherever its stamp is.
IntervalElapses(e) ==
  LET Age(o) == IF o # None /\ o.status.lastUpdate = "recent"
                  THEN [o EXCEPT !.status.lastUpdate = "past"] ELSE o
  IN
  /\ Recent(e)
  /\ stored' = [stored EXCEPT ![e] = Age(@)]
  /\ cached' = [cached EXCEPT ![e] = Age(@)]
  /\ w' = IF w.e = e THEN [w EXCEPT !.inst = Age(@)] ELSE w
  /\ UNCHANGED <<current, notify, targetVars, ruleVars, cacheVars, marked, queue, timer, budget>>

\* A delayed request becomes due: not before the interval passed, unless it was
\* asked for before the time stamp or is a retry.
TimerFires(e) ==
  /\ timer[e] = "early" \/ (timer[e] = "waiting" /\ ~Recent(e))
  /\ timer' = [timer EXCEPT ![e] = "none"]
  /\ queue' = queue \cup {e}
  /\ UNCHANGED <<apiVars, targetVars, ruleVars, cacheVars, marked, w, budget>>

-----------------------------------------------------------------------------
(* Users, and failures of the process.                                     *)

\* An edit that finds the worker at work makes its copy stale.
Edit(e, new) ==
  /\ Store(e, new)
  /\ w' = IF w.e = e THEN [w EXCEPT !.fresh = FALSE] ELSE w
  /\ UNCHANGED <<targetVars, ruleVars, cacheVars, marked, queue, timer>>

UserCreates(e) ==
  /\ e \in budget.uncreated
  /\ Edit(e, NewObject(e))
  /\ budget' = [budget EXCEPT !.uncreated = @ \ {e}]

UserOverridesTo(e, o) ==
  /\ stored[e] # None
  /\ budget.overrides > 0
  /\ o # stored[e].spec.override
  /\ Edit(e, [stored[e] EXCEPT !.spec.override = o])
  /\ budget' = [budget EXCEPT !.overrides = @ - 1]

\* Without the finalizer the object is gone at once.
UserDeletes(e) ==
  /\ e \in Deletable
  /\ stored[e] # None /\ ~stored[e].deleting
  /\ Edit(e, IF stored[e].finalizer THEN [stored[e] EXCEPT !.deleting = TRUE] ELSE None)
  /\ UNCHANGED budget

\* A target is created or deleted; the previous event of it was handled.
UserCreatesTarget(t) ==
  /\ budget.arrivals > 0
  /\ t \notin exists \cup announced
  /\ exists' = exists \cup {t}
  /\ budget' = [budget EXCEPT !.arrivals = @ - 1]
  /\ UNCHANGED <<apiVars, announced, ruleVars, cacheVars, marked, queue, timer, w>>

UserDeletesTarget(t) ==
  /\ budget.losses > 0
  /\ t \in exists \cap announced
  /\ exists' = exists \ {t}
  /\ budget' = [budget EXCEPT !.losses = @ - 1]
  /\ UNCHANGED <<apiVars, announced, ruleVars, cacheVars, marked, queue, timer, w>>

Crash ==
  /\ budget.crashes > 0
  /\ budget' = [budget EXCEPT !.crashes = @ - 1]
  /\ Restart

-----------------------------------------------------------------------------
Init ==
  /\ stored = [e \in Experiments |-> None]
  /\ cached = stored
  /\ current = Experiments
  /\ notify = {}
  /\ exists \in InitialTargets
  /\ announced = exists
  /\ \E r \in [Services -> InitialRules] :
       dr = [s \in Services |-> r[s].dr] /\ vs = [s \in Services |-> r[s].vs]
  /\ Cache!CacheInit
  /\ marked = {}
  /\ queue = {}
  /\ timer = [e \in Experiments |-> "none"]
  /\ w = Idle
  /\ budget = [uncreated |-> Experiments, overrides |-> MaxOverrides,
               arrivals |-> MaxArrivals, losses |-> MaxLosses, failures |-> MaxFailures, crashes |-> MaxCrashes]

\* One step of the reconcile under way.
Reconcile ==
  \/ NotFound \/ SaveInitStatus \/ AddFinalizer
  \/ StartFinalize \/ SkipCompleted \/ Reject \/ Begin
  \/ SavePause \/ SaveResume \/ MetricsUnreadable \/ SyncMetrics
  \/ UseRules \/ RefuseRules \/ DetectTargets
  \/ UpdateBaselineDR \/ UpdateBaselineVS
  \/ MissingCandidate \/ UpdateCandidatesDR \/ UpdateCandidatesVS
  \/ IterateWithoutCriteria \/ AnalyticsFails
  \/ \E r \in Responses : Abort(r) \/ FollowRecommendation(r)
  \/ SplitWithoutRules \/ UpdateTrafficSplit
  \/ Complete \/ CleanupTargets \/ CleanupDR \/ CleanupVS
  \/ End \/ Unfinalize

Environment ==
  \/ \E e \in Experiments :
       \/ UserCreates(e) \/ UserDeletes(e)
       \/ \E o \in UserOverrides : UserOverridesTo(e, o)
  \/ \E t \in Targets : UserCreatesTarget(t) \/ UserDeletesTarget(t)
  \/ Crash

Next ==
  \/ \E e \in Experiments : Fetch(e) \/ Deliver(e) \/ IntervalElapses(e) \/ TimerFires(e)
  \/ \E t \in Targets : HandleTargetEvent(t) \/ EnqueueOwner(t)
  \/ Reconcile
  \/ Environment

Spec == Init /\ [][Next]_vars

\* The worker is a goroutine that always runs on; the workqueue is first in first
\* out, so a request is not passed over forever; informers deliver, clocks run.
\* Nobody is bound to edit, delete, fail or crash.
Fairness ==
  /\ WF_vars(Reconcile)
  /\ \A e \in Experiments :
       /\ SF_vars(Fetch(e))
       /\ WF_vars(Deliver(e)) /\ WF_vars(IntervalElapses(e)) /\ WF_vars(TimerFires(e))
  /\ \A t \in Targets : WF_vars(HandleTargetEvent(t)) /\ WF_vars(EnqueueOwner(t))

FairSpec == Spec /\ Fairness

-----------------------------------------------------------------------------
(* Properties.                                                             *)

Conditions ==
  [metricsSynced |-> {"Unknown", "True", "Error"},
   targets   |-> {"Unknown", "True", "Conflict", "Lost",
                  "MissingService", "MissingBaseline", "MissingCandidate",
                  "DeletedService", "DeletedBaseline", "DeletedCandidate"},
   rules     |-> {"Unknown", "True", "GetError", "UpdateError", "EmptyRoute", "SplitError"},
   analytics |-> {"Unknown", "True", "Error"}]

IsOverride(o) ==
  \/ o = None
  \/ /\ o.action \in {"pause", "resume", "terminate"}
     /\ DOMAIN o.split \subseteq Nat
     /\ \A v \in DOMAIN o.split : o.split[v] \in 0..100

IsObject(e, o) ==
  /\ IsOverride(o.spec.override)
  /\ o.spec.onTermination \in Strategies
  /\ {o.spec.metrics, o.finalizer, o.deleting, o.status.initialized, o.status.message,
      o.status.completed} \subseteq BOOLEAN
  /\ o.status.phase \in {"", "Progressing", "Pause", "Completed"}
  /\ \A c \in DOMAIN Conditions : o.status[c] \in Conditions[c]
  /\ o.status.weights \in [Versions(SpecOf[e]) -> 0..100]
  /\ o.status.winner \in Versions(SpecOf[e]) \cup {None}
  /\ o.status.iteration \in 0..(SpecOf[e].maxIterations + 1)
  /\ o.status.lastUpdate \in {"absent", "recent", "past"}

IsRule(r) ==
  r = None \/ (r.labels.role \in RuleRoles /\ r.labels.experiment \in Experiments \cup {None})

(***************************************************************************)
(* Every variable holds a value of its type: copies of experiments are     *)
(* well formed, with weights between 0 and 100 and at most one iteration   *)
(* above the maximum.                                                      *)
(***************************************************************************)
TypeOK ==
  /\ \A e \in Experiments : \A o \in {stored[e], cached[e]} : o # None => IsObject(e, o)
  /\ w.inst # None => w.e \in Experiments /\ IsObject(w.e, w.inst)
  /\ current \subseteq Experiments /\ notify \subseteq Experiments /\ queue \subseteq Experiments
  /\ exists \subseteq Targets /\ announced \subseteq Targets /\ marked \subseteq Targets
  /\ \A s \in Services : IsRule(dr[s]) /\ IsRule(vs[s])
  /\ timer \in [Experiments -> {"none", "waiting", "early"}]

(***************************************************************************)
(* A completed experiment stays as it completed: whatever a worker with an *)
(* older copy of it, a late target event or a user's edit leads to, its    *)
(* phase, weights, winner and iteration never change again.                *)
(***************************************************************************)
Verdict(o) == <<o.status.completed, o.status.phase, o.status.weights, o.status.winner,
                o.status.iteration>>
Completed(e) == stored[e] # None /\ stored[e].status.completed
CompletedFinal ==
  [][\A e \in Experiments :
       Completed(e) => stored'[e] = None \/ Verdict(stored'[e]) = Verdict(stored[e])]_vars

(***************************************************************************)
(* While an experiment runs, the routes of its VirtualService add up to    *)
(* 100: no step of the experiment, and no path through pauses, resumes,    *)
(* lost targets and crashes, drops or duplicates a share of the traffic.   *)
(***************************************************************************)
TrafficConserved ==
  \A s \in Services :
    vs[s] # None /\ vs[s].labels.role # "stable" => TotalWeight(vs[s]) = 100

(***************************************************************************)
(* Whenever the worker rests, every subset a VirtualService gives traffic  *)
(* to is one its DestinationRule defines, although the two are written one *)
(* after the other and cleanup renames the subsets.                        *)
(***************************************************************************)
RoutesDefined ==
  At("idle") => \A s \in Services : vs[s] # None => ~Dangling(dr[s], vs[s])

(***************************************************************************)
(* While an experiment runs, each share of the traffic reaches the         *)
(* deployment its version names: whatever is half written, repeated or     *)
(* cut short around them, rules that are both progressing belong to one    *)
(* experiment, and no route leads to a subset that is missing or selects   *)
(* another deployment.                                                     *)
(***************************************************************************)
RunningRoutesServed ==
  \A s \in Services :
    IsProgressing(dr[s], vs[s]) =>
      LET e == vs[s].labels.experiment IN
      /\ e \in Experiments /\ e = dr[s].labels.experiment
      /\ \A n \in Routed(vs[s]) :
           \E v \in Versions(SpecOf[e]) :
             /\ n = Subset(v) /\ n \in DOMAIN dr[s].subsets
             /\ dr[s].subsets[n] = Deployment(SpecOf[e], v)

(***************************************************************************)
(* The desired end state of Router.Cleanup: once an experiment completed   *)
(* and until another one takes the rules of its service over, the rules    *)
(* are stable, owned by nobody, and route all of the traffic to subsets    *)
(* that exist; or they were iter8's own, and cleanup deleted both.         *)
(***************************************************************************)
TakenOver(s) ==
  \E r \in {dr[s], vs[s]} : r # None /\ r.labels.experiment # None
Settled(s) ==
  \/ dr[s] = None /\ vs[s] = None
  \/ /\ dr[s] # None /\ vs[s] # None
     /\ dr[s].labels = StableLabels /\ vs[s].labels = StableLabels
     /\ TotalWeight(vs[s]) = 100
     /\ ~Dangling(dr[s], vs[s])
DesiredEnd ==
  At("idle") =>
    \A e \in Experiments :
      LET s == SpecOf[e].service IN
      Completed(e) /\ ~TakenOver(s) =>
        Settled(s) /\ (dr[s] = None => \E o \in Experiments : SpecOf[o].cleanup)

(***************************************************************************)
(* After a cleanup, the deployments that still receive traffic are the     *)
(* ones targets.Cleanup kept: the two cleanups, of targets and of rules,   *)
(* read the strategy, the winner and the weights the same way.             *)
(***************************************************************************)
TrafficHasTargets ==
  At("idle") =>
    \A e \in Experiments :
      LET s == SpecOf[e].service IN
      Completed(e) /\ SpecOf[e].cleanup /\ ~TakenOver(s) /\ vs[s] # None =>
        \A n \in Routed(vs[s]) : n \in DOMAIN dr[s].subsets => dr[s].subsets[n] \in exists

(***************************************************************************)
(* The rules of a service with a running experiment change hands only      *)
(* through that experiment's completion: another experiment on the service *)
(* never writes progressing rules, even when a crash emptied the cache and *)
(* the other experiment registers first.                                   *)
(***************************************************************************)
HandOver ==
  [][\A s \in Services :
       IsProgressing(dr[s], vs[s]) /\ <<dr'[s], vs'[s]>> # <<dr[s], vs[s]>> =>
         dr[s].labels.experiment = w.e /\ vs[s].labels.experiment = w.e]_vars

(***************************************************************************)
(* A pause holds: once a reconcile has saved it, nothing changes the rules *)
(* of the experiment while the pause request stands, whatever events of    *)
(* targets or timers wake the worker; except that the experiment is being  *)
(* deleted, or lost a target, which terminates it.                         *)
(***************************************************************************)
PauseAcknowledged(e) ==
  /\ stored[e] # None
  /\ Pausing(stored[e])
  /\ stored[e].status.phase = "Pause"
  /\ w.e = e => w.fresh
PauseHolds ==
  [][\A e \in Experiments :
       PauseAcknowledged(e) /\ w.e = e /\ <<dr', vs'>> # <<dr, vs>> =>
         Finalizing \/ w.terminate]_vars

(***************************************************************************)
(* An experiment that is gone left nothing behind: the cache no longer     *)
(* holds targets for it and no rules are progressing on its behalf,        *)
(* whatever it was doing when it was deleted.                              *)
(***************************************************************************)
GoneReleased ==
  \A e \in Experiments :
    stored[e] = None /\ w.e # e =>
      /\ ~Cache!Registered(e)
      /\ \A s \in Services :
           IsProgressing(dr[s], vs[s]) => e \notin {dr[s].labels.experiment, vs[s].labels.experiment}

(***************************************************************************)
(* At rest the weights in the status are the ones the traffic really has:  *)
(* the user is shown what the VirtualService does.                         *)
(***************************************************************************)
StatusMatchesTraffic ==
  At("idle") =>
    \A e \in Experiments :
      LET s == SpecOf[e].service IN
      /\ stored[e] # None
      /\ IsProgressing(dr[s], vs[s])
      /\ vs[s].labels.experiment = e
      => \A v \in Versions(SpecOf[e]) : vs[s].routes[Subset(v)] = stored[e].status.weights[v]

(***************************************************************************)
(* The controller uses its cache the way Iter8Cache's environment does, so *)
(* what is shown and proved of that module holds inside the controller.    *)
(***************************************************************************)
UsesCache == Cache!Spec

(***************************************************************************)
(* At the API server an experiment lives the life ExperimentLifecycle      *)
(* describes: whatever a worker with an older copy of the object, a failed *)
(* call, a crash or an edit in between leads to, nothing is recorded of an *)
(* object without its finalizer, iterations count up one by one and to the *)
(* limit only, none is counted for an object being deleted, and completion *)
(* is for good.                                                            *)
(***************************************************************************)
life ==
  [e \in Experiments |->
     IF stored[e] = None THEN None
     ELSE [phase |-> stored[e].status.phase, iteration |-> stored[e].status.iteration,
           finalizer |-> stored[e].finalizer, deleting |-> stored[e].deleting]]
Lifecycle == INSTANCE ExperimentLifecycle WITH
  Absent <- None, Limit <- [e \in Experiments |-> SpecOf[e].maxIterations + 1]
ImplementsLifecycle == Lifecycle!Spec

(***************************************************************************)
(* An experiment whose targets exist from some time on ends, unless a user *)
(* deletes it.  The events of the targets race with the requests that look *)
(* for them and with the status these requests write.                      *)
(***************************************************************************)
TargetsOf(e) == {SpecOf[e].service, SpecOf[e].baseline} \cup Range(SpecOf[e].candidates)
TargetsExist(e) == TargetsOf(e) \subseteq exists
ExperimentEnds ==
  \A e \in Experiments :
    <>[]TargetsExist(e) => (stored[e] # None ~> stored[e] = None \/ Completed(e))

(***************************************************************************)
(* A registered experiment a user paused ends when it loses a target it    *)
(* had found.  Nothing but the event of the loss wakes it, and the loss is *)
(* recorded in the cache only: it must not get lost between the handlers   *)
(* and the worker, if nothing fails until then and no edit is under way.   *)
(***************************************************************************)
Undisturbed ==
  /\ budget.overrides = 0
  /\ budget.failures = MaxFailures
  /\ budget.crashes = MaxCrashes
LossAhead(e) ==
  /\ stored[e] # None /\ Pausing(stored[e]) /\ stored[e].status.targets = "True"
  /\ \E t \in TargetsOf(e) : t \in announced \ exists
  /\ At("idle") /\ e \in current /\ Cache!Registered(e)
LossEndsExperiment ==
  \A e \in Experiments :
    LossAhead(e) /\ Undisturbed ~> stored[e] = None \/ Completed(e) \/ ~Undisturbed

(***************************************************************************)
(* Deleting an experiment finishes: its finalizer is removed, whatever     *)
(* calls fail on the way.                                                  *)
(***************************************************************************)
DeletionFinishes ==
  \A e \in Experiments : (stored[e] # None /\ stored[e].deleting) ~> stored[e] = None

(***************************************************************************)
(* "Interval specifies duration between iterations": an experiment that    *)
(* has iterated and is progressing iterates again, or leaves that phase.   *)
(***************************************************************************)
IterationFollows ==
  \A e \in Experiments : \A k \in 1..SpecOf[e].maxIterations :
    LET InIteration == /\ stored[e] # None
                       /\ stored[e].status.phase = "Progressing"
                       /\ stored[e].status.iteration = k
    IN InIteration ~> ~InIteration

-----------------------------------------------------------------------------
(* What comments and documentation promise and the code does not keep; a   *)
(* run each finds the counterexample.                                      *)

(***************************************************************************)
(* "Send all traffic to baseline" when a candidate or the service is lost: *)
(* the completed experiment routes traffic to the baseline's pods only.    *)
(***************************************************************************)
LostCandidateDrained ==
  At("idle") =>
    \A e \in Experiments :
      LET s == SpecOf[e].service IN
      /\ Completed(e) /\ stored[e].status.targets = "Lost"
      /\ SpecOf[e].baseline \in exists
      /\ dr[s] # None /\ vs[s] # None
      => \A n \in Routed(vs[s]) : dr[s].subsets[n] = SpecOf[e].baseline

(***************************************************************************)
(* MarkTargetsError "sets the condition that there is error in finding all *)
(* targets": a conflict found at registration is reported, it does not     *)
(* crash the controller on the message of a fresh status.                  *)
(***************************************************************************)
ConflictReported ==
  ToReconcile /\ Cache!Conflicting(w.e, TargetSpec(w.e)) => ~Panics(w)

(***************************************************************************)
(* "Only requests fulfill the match section would be used in experiment":  *)
(* progressing rules take the requests their experiment's spec selects.    *)
(***************************************************************************)
MatchHonoured ==
  \A s \in Services :
    IsProgressing(dr[s], vs[s]) => vs[s].match = SpecOf[vs[s].labels.experiment].match

(***************************************************************************)
(* A completion whose cleanup failed half way is retried ("// retry"): the *)
(* two rules do not stay half cleaned up.                                  *)
(***************************************************************************)
HalfCleaned(s) ==
  dr[s] # None /\ vs[s] # None /\ dr[s].labels.role = "stable" /\ vs[s].labels.role # "stable"
CleanupRetried == \A s \in Services : HalfCleaned(s) ~> ~HalfCleaned(s)

(***************************************************************************)
(* A resume "sets the phase and status that experiment is resumed": once a *)
(* user asks for one, the experiment leaves the phase Pause.               *)
(***************************************************************************)
ResumeHonoured ==
  \A e \in Experiments :
    (stored[e] # None /\ Resuming(stored[e])) ~>
      (stored[e] = None \/ stored[e].status.phase # "Pause")
=============================================================================
