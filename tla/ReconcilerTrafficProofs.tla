---------------------- MODULE ReconcilerTrafficProofs ----------------------
(***************************************************************************)
(* What traffic is split into, for any experiments, targets, weights,      *)
(* increments, answers and users: objects, rules and caches keep their     *)
(* form, shares stay whole and add up to 100 in rules and status alike,    *)
(* and rules under which an experiment progresses have every subset they   *)
(* route to and every deployment of it; and what an experiment that is     *)
(* gone leaves of all this. Of a step only the copy of the worker, one     *)
(* object or the pair of rules of one service changes, so each statement   *)
(* splits into what an object, a rule and the copy must be like, and the   *)
(* lemmas follow a request from step to step.                              *)
(***************************************************************************)
EXTENDS ReconcilerCacheProofs, RoutingRulesProofs

TargetTags == Conditions["targets"]
RuleTags == Conditions["rules"]

\* What IsObject says of an object, field by field.
Formed(e, o) ==
  /\ IsOverride(o.spec.override) /\ o.spec.onTermination \in Strategies
  /\ o.spec.metrics \in BOOLEAN /\ o.status.message \in BOOLEAN
  /\ o.status.phase \in {"", "Progressing", "Pause", "Completed"}
  /\ o.status.metricsSynced \in {"Unknown", "True", "Error"}
  /\ o.status.targets \in TargetTags
  /\ o.status.rules \in RuleTags
  /\ o.status.analytics \in {"Unknown", "True", "Error"}
  /\ o.status.weights \in [Versions(SpecOf[e]) -> 0..100]
  /\ o.status.winner \in Versions(SpecOf[e]) \cup {None}
  /\ o.status.iteration \in 0..(MaxIter(e) + 1)
  /\ o.status.lastUpdate \in {"absent", "recent", "past"}

LEMMA FormedObject ==
  ASSUME NEW e, NEW o, IsCopy(o), Formed(e, o)
  PROVE  IsObject(e, o)
<1>1. DOMAIN Conditions = {"metricsSynced", "targets", "rules", "analytics"}
  BY DEF Conditions
<1>2. /\ Conditions["metricsSynced"] = {"Unknown", "True", "Error"}
      /\ Conditions["analytics"] = {"Unknown", "True", "Error"}
  BY DEF Conditions
<1>3. \A c \in DOMAIN Conditions : o.status[c] \in Conditions[c]
  BY <1>1, <1>2 DEF Formed, TargetTags, RuleTags
<1>4. QED
  BY <1>3 DEF IsObject, Formed, IsCopy, MaxIter

LEMMA TagsKnown ==
  /\ {"Unknown", "True", "Conflict", "Lost"} \subseteq TargetTags
  /\ \A k \in {"Service", "Baseline", "Candidate"} : Missing(k) \in TargetTags \ {"True"}
  /\ {"Unknown", "True", "GetError", "UpdateError", "EmptyRoute", "SplitError"} \subseteq RuleTags
<1>1. RuleTags = {"Unknown", "True", "GetError", "UpdateError", "EmptyRoute", "SplitError"}
  BY DEF RuleTags, Conditions
<1>2. TargetTags = {"Unknown", "True", "Conflict", "Lost",
                    "MissingService", "MissingBaseline", "MissingCandidate",
                    "DeletedService", "DeletedBaseline", "DeletedCandidate"}
  BY DEF TargetTags, Conditions
<1>3. \A k \in {"Service", "Baseline", "Candidate"} : Missing(k) \in TargetTags \ {"True"}
  BY <1>2 DEF Missing
<1>4. QED
  BY <1>1, <1>2, <1>3

\* A copy the worker holds.
Fits(x) ==
  DOMAIN x = WorkerFields /\ x.e \in Experiments /\ IsCopy(x.inst) /\ Formed(x.e, x.inst)

-----------------------------------------------------------------------------

LEMMA MarksFit ==
  ASSUME NEW x, Fits(x), NEW t \in TargetTags, NEW r \in RuleTags
  PROVE  /\ Fits(MarkTargetsError(x, t))
         /\ Fits(MarkTargetsFound(x))
         /\ Fits(MarkRoutingRulesError(x, r))
         /\ Fits(MarkRoutingRulesReady(x))
         /\ Fits(MarkAnalyticsServiceError(x))
         /\ Fits(MarkAnalyticsServiceRunning(x))
         /\ Fits(MarkSyncMetricsError(x))
         /\ Fits(MarkSyncMetrics(x))
<1> USE TagsKnown
    DEF Fits, IsCopy, Formed, ObjectFields, SpecFields, StatusFields, WorkerFields
<1>1. Fits(MarkTargetsError(x, t)) BY ZenonT(60) DEF MarkTargetsError
<1>2. Fits(MarkTargetsFound(x)) BY ZenonT(60) DEF MarkTargetsFound
<1>3. Fits(MarkRoutingRulesError(x, r)) BY ZenonT(60) DEF MarkRoutingRulesError
<1>4. Fits(MarkRoutingRulesReady(x)) BY ZenonT(60) DEF MarkRoutingRulesReady
<1>5. Fits(MarkAnalyticsServiceError(x)) BY ZenonT(60) DEF MarkAnalyticsServiceError
<1>6. Fits(MarkAnalyticsServiceRunning(x)) BY ZenonT(60) DEF MarkAnalyticsServiceRunning
<1>7. Fits(MarkSyncMetricsError(x)) BY ZenonT(60) DEF MarkSyncMetricsError
<1>8. Fits(MarkSyncMetrics(x)) BY ZenonT(60) DEF MarkSyncMetrics
<1>9. QED BY <1>1, <1>2, <1>3, <1>4, <1>5, <1>6, <1>7, <1>8

LEMMA PhasesFit ==
  ASSUME NEW x, Fits(x)
  PROVE  /\ Fits(MarkAssessmentUpdate(x))
         /\ Fits(MarkIterationUpdate(x))
         /\ Fits(MarkExperimentCompleted(x))
         /\ Fits(MarkActionPause(x))
         /\ Fits(MarkActionResume(x))
<1>1. ASSUME NEW phase \in {"Progressing", "Pause", "Completed"}
      PROVE  Fits(MarkPhase(x, phase))
  <2>1. (phase = "Completed") \in BOOLEAN
    OBVIOUS
  <2>2. QED
    BY <2>1, ZenonT(60)
    DEF MarkPhase, Fits, IsCopy, Formed, ObjectFields, SpecFields, StatusFields, WorkerFields
<1>2. ASSUME NEW y, Fits(y)
      PROVE  Fits([y EXCEPT !.progress = TRUE]) /\ Fits([y EXCEPT !.refresh = TRUE])
  BY <1>2 DEF Fits, WorkerFields
<1>3. Fits(MarkAssessmentUpdate(x))
  BY <1>1 DEF MarkAssessmentUpdate
<1>4. Fits(MarkIterationUpdate(x))
  <2>1. Fits(MarkPhase(x, "Progressing"))
    BY <1>1
  <2>2. QED
    BY <1>2, <2>1 DEF MarkIterationUpdate
<1>5. Fits(MarkExperimentCompleted(x))
  BY <1>1 DEF MarkExperimentCompleted
<1>6. Fits(MarkActionPause(x))
  BY <1>1 DEF MarkActionPause
<1>7. Fits(MarkActionResume(x))
  <2>1. Fits(MarkPhase(x, "Progressing"))
    BY <1>1
  <2>2. QED
    BY <1>2, <2>1 DEF MarkActionResume
<1>8. QED
  BY <1>3, <1>4, <1>5, <1>6, <1>7

LEMMA FlagsFit ==
  ASSUME NEW x, Fits(x), NEW z
  PROVE  /\ Fits(Goto(x, z))
         /\ Fits([x EXCEPT !.taken = z])
         /\ Fits([x EXCEPT !.statusUpdate = z])
         /\ Fits([x EXCEPT !.fresh = z])
         /\ Fits([x EXCEPT !.terminate = z])
  BY DEF Fits, WorkerFields, Goto

LEMMA GoesFit ==
  ASSUME NEW x, Fits(x), NEW pc
  PROVE  Fits(Goto(x, pc))
  BY FlagsFit

LEMMA PlacesFit ==
  ASSUME NEW x, Fits(x)
  PROVE  /\ Fits(AfterUpdate(x)) /\ Fits(AfterTargets(x))
         /\ Fits(AfterRules(x)) /\ Fits(AfterProceed(x))
<1>1. Fits(AfterUpdate(x))
  BY FlagsFit DEF AfterUpdate
<1>2. Fits(AfterTargets(x))
  BY <1>1, FlagsFit DEF AfterTargets
<1>3. Fits(AfterRules(x))
  BY <1>2, FlagsFit DEF AfterRules
<1>4. Fits(AfterProceed(x))
  BY FlagsFit DEF AfterProceed
<1>5. QED BY <1>1, <1>2, <1>3, <1>4

LEMMA CountFits ==
  ASSUME NEW x, Fits(x), NEW k \in 0..(MaxIter(x.e) + 1)
  PROVE  Fits([x EXCEPT !.inst.status.lastUpdate = "recent", !.inst.status.iteration = k])
<1>1. k \in Nat
  OBVIOUS
<1>2. QED
  BY <1>1
  DEF Fits, IsCopy, Formed, ObjectFields, SpecFields, StatusFields, WorkerFields

LEMMA IteratedFits ==
  ASSUME NEW x, Fits(x), x.inst.status.iteration <= MaxIter(x.e)
  PROVE  Fits(Iterated(x))
<1> DEFINE m == MarkIterationUpdate(x)
           k == x.inst.status.iteration + 1
           y == [m EXCEPT !.inst.status.lastUpdate = "recent", !.inst.status.iteration = k]
<1>1. Fits(m) /\ m.inst.status.iteration = x.inst.status.iteration /\ m.e = x.e
  <2>1. Fits(m)
    BY PhasesFit
  <2>2. QED
    BY <2>1
    DEF MarkIterationUpdate, MarkPhase, Fits, WorkerFields, IsCopy, ObjectFields, StatusFields
<1>2. MaxIter(x.e) \in Nat /\ x.inst.status.iteration \in Nat
  BY LimitNat DEF Fits, IsCopy
<1>3. k \in 0..(MaxIter(m.e) + 1)
  BY <1>1, <1>2
<1>4. Iterated(x) = AfterUpdate(y)
  BY <1>1 DEF Iterated
<1> HIDE DEF m, k
<1>5. Fits(y)
  BY <1>1, <1>3, CountFits
<1> HIDE DEF y
<1>6. QED
  BY <1>4, <1>5, PlacesFit

-----------------------------------------------------------------------------
(* Changes of the copy that come with a request to terminate.              *)

LEMMA TerminateIs ==
  /\ IsOverride(Terminate(NoSplit))
  /\ IsOverride(Terminate([v \in {0} |-> 100]))
  BY DEF IsOverride, Terminate, NoSplit

LEMMA VersionZero ==
  ASSUME NEW e \in Experiments
  PROVE  0 \in Versions(SpecOf[e])
<1>1. SpecOf[e].candidates \in Seq(Deployments)
  BY SpecAssumption DEF ExperimentSpecs
<1>2. Len(SpecOf[e].candidates) \in Nat
  BY <1>1
<1>3. QED
  BY <1>2 DEF Versions

LEMMA OverrideFits ==
  ASSUME NEW e \in Experiments, NEW o, IsCopy(o), Formed(e, o)
  PROVE  LET q == OverrideAssessment(o) IN IsCopy(q) /\ Formed(e, q)
<1> DEFINE split == o.spec.override.split
           b == IF 0 \in DOMAIN split THEN split[0] ELSE 0
           f == [o.status.weights EXCEPT ![0] = b]
<1>1. ASSUME NEW s \in Strategies
      PROVE  LET q == [o EXCEPT !.spec.onTermination = s] IN IsCopy(q) /\ Formed(e, q)
  BY DEF IsCopy, Formed, ObjectFields, SpecFields, StatusFields
<1>2. ASSUME NEW s \in Strategies, NEW g \in [Versions(SpecOf[e]) -> 0..100]
      PROVE  LET q == [o EXCEPT !.spec.onTermination = s, !.status.weights = g]
             IN  IsCopy(q) /\ Formed(e, q)
  BY DEF IsCopy, Formed, ObjectFields, SpecFields, StatusFields
<1>3. CASE o.spec.override = None
  <2>1. OverrideAssessment(o) = o
    BY <1>3 DEF OverrideAssessment
  <2>2. QED
    BY <2>1
<1>4. CASE o.spec.override # None /\ split = NoSplit
  <2>1. OverrideAssessment(o) = [o EXCEPT !.spec.onTermination = "to_baseline"]
    BY <1>4 DEF OverrideAssessment
  <2>2. QED
    BY <2>1, <1>1 DEF Strategies
<1>5. CASE o.spec.override # None /\ split # NoSplit
  <2>1. OverrideAssessment(o)
          = [o EXCEPT !.spec.onTermination = "keep_last", !.status.weights[0] = b]
    BY <1>5 DEF OverrideAssessment
  <2>2. IsOverride(o.spec.override) /\ o.status.weights \in [Versions(SpecOf[e]) -> 0..100]
    BY DEF Formed
  <2>3. b \in 0..100
    <3>1. \A v \in DOMAIN split : split[v] \in 0..100
      BY <1>5, <2>2 DEF IsOverride
    <3>2. CASE 0 \in DOMAIN split
      BY <3>1, <3>2
    <3>3. CASE 0 \notin DOMAIN split
      BY <3>3
    <3>4. QED
      BY <3>2, <3>3
  <2> HIDE DEF b
  <2>4. f \in [Versions(SpecOf[e]) -> 0..100]
    BY <2>2, <2>3
  <2>5. OverrideAssessment(o)
          = [o EXCEPT !.spec.onTermination = "keep_last", !.status.weights = f]
    BY <2>1
  <2> HIDE DEF f
  <2>6. QED
    BY <1>2, <2>4, <2>5 DEF Strategies
<1>6. QED
  BY <1>3, <1>4, <1>5

LEMMA RequestFits ==
  ASSUME NEW e, NEW o, IsCopy(o), Formed(e, o), NEW q, IsOverride(q)
  PROVE  LET p == [o EXCEPT !.spec.override = q] IN IsCopy(p) /\ Formed(e, p)
  BY DEF IsCopy, Formed, ObjectFields, SpecFields, StatusFields

LEMMA InstFits ==
  ASSUME NEW x, Fits(x), NEW i, IsCopy(i), Formed(x.e, i)
  PROVE  Fits([x EXCEPT !.inst = i])
  BY DEF Fits, WorkerFields

\* A worker told to terminate.
LEMMA TerminateFits ==
  ASSUME NEW x, Fits(x), NEW q, IsOverride(q)
  PROVE  /\ Fits([x EXCEPT !.inst = OverrideAssessment(x.inst)])
         /\ Fits([x EXCEPT !.inst = OverrideAssessment([x.inst EXCEPT !.spec.override = q])])
<1> DEFINE p == [x.inst EXCEPT !.spec.override = q]
<1>1. IsCopy(p) /\ Formed(x.e, p)
  BY RequestFits DEF Fits
<1> HIDE DEF p
<1>2. /\ IsCopy(OverrideAssessment(x.inst)) /\ Formed(x.e, OverrideAssessment(x.inst))
      /\ IsCopy(OverrideAssessment(p)) /\ Formed(x.e, OverrideAssessment(p))
  BY <1>1, OverrideFits DEF Fits
<1>3. QED
  BY <1>2, InstFits DEF p

LEMMA SyncFits ==
  ASSUME NEW x, Fits(x), NEW ea
  PROVE  Fits(SyncExperiment(x, ea))
<1>1. ASSUME NEW q, IsOverride(q)
      PROVE  Fits(MarkTargetsError([x EXCEPT !.inst =
                     OverrideAssessment([x.inst EXCEPT !.spec.override = q])], "Lost"))
  BY <1>1, TerminateFits, MarksFit, TagsKnown
<1>2. \E q : /\ IsOverride(q)
             /\ OnDeletedTarget(x.inst, ea.deletedRole) = [x.inst EXCEPT !.spec.override = q]
  BY TerminateIs DEF OnDeletedTarget
<1>3. Fits(MarkTargetsError(
             [x EXCEPT !.inst = OverrideAssessment(OnDeletedTarget(x.inst, ea.deletedRole))],
             "Lost"))
  BY <1>1, <1>2
<1>4. Fits([x EXCEPT !.inst = OverrideAssessment(x.inst)])
  BY TerminateFits, TerminateIs
<1>5. Fits([x EXCEPT !.inst.status.phase = "Progressing"])
  BY DEF Fits, IsCopy, Formed, ObjectFields, SpecFields, StatusFields, WorkerFields
<1>6. QED
  BY <1>3, <1>4, <1>5 DEF SyncExperiment

LEMMA ProceedFits ==
  ASSUME NEW x, Fits(x)
  PROVE  Fits(Proceed(x)) \/ Proceed(x) = Idle
<1>1. Fits(Goto(MarkActionPause(x), "pauseSave"))
  BY PhasesFit, FlagsFit
<1>2. Fits(AfterProceed(x)) /\ Fits(AfterProceed(MarkActionResume(x)))
  BY PhasesFit, PlacesFit
<1>3. Fits(Goto([MarkActionResume(x) EXCEPT !.inst.spec.override = None], "resumeSave"))
  <2> DEFINE r == MarkActionResume(x)
             i == [r.inst EXCEPT !.spec.override = None]
             y == [r EXCEPT !.inst = i]
  <2>1. Fits(r)
    BY PhasesFit
  <2> HIDE DEF r
  <2>2. [r EXCEPT !.inst.spec.override = None] = y
    BY <2>1 DEF Fits, WorkerFields, IsCopy, ObjectFields, SpecFields
  <2>3. IsOverride(None)
    BY DEF IsOverride
  <2>4. IsCopy(i) /\ Formed(r.e, i)
    BY <2>1, <2>3, RequestFits DEF Fits
  <2> HIDE DEF i
  <2>5. Fits(y)
    BY <2>1, <2>4, InstFits
  <2> HIDE DEF y
  <2>6. QED
    BY <2>2, <2>5, FlagsFit DEF r
<1>4. QED
  BY <1>1, <1>2, <1>3 DEF Proceed

-----------------------------------------------------------------------------
(* The objects, and the worker with its copy of one.                       *)

ObjectsFit ==
  \A e \in Experiments :
    /\ stored[e] = None \/ Formed(e, stored[e])
    /\ cached[e] = None \/ Formed(e, cached[e])

WorkerFits(x) == x = Idle \/ (x.pc = "notFound" /\ x.inst = None) \/ Fits(x)

StepFits == ObjectsFit' /\ WorkerFits(w')

\* What users and the analytics service hand in is well formed.
InputsFit ==
  /\ \A o \in UserOverrides : IsOverride(o)
  /\ \A r \in Responses : \A e \in Experiments :
       r.winner \in Versions(SpecOf[e]) \cup {None}

LEMMA HereFits ==
  ASSUME IInv, WorkerFits(w), w.pc \notin {"idle", "notFound"}
  PROVE  Fits(w)
  BY DEF WorkerFits, Idle

LEMMA QuietFits ==
  ASSUME ObjectsFit, UNCHANGED apiVars, Fits(w') \/ w' = Idle
  PROVE  StepFits
  BY DEF ObjectsFit, apiVars, StepFits, WorkerFits

LEMMA StoreFits ==
  ASSUME IInv, ObjectsFit, NEW e \in Experiments, NEW new, Store(e, new),
         new = None \/ Formed(e, new)
  PROVE  ObjectsFit'
  BY DEF IInv, ObjectsInv, ObjectsFit, Store

LEMMA RestartFits ==
  ASSUME ObjectsFit, Restart
  PROVE  StepFits
  BY DEF Restart, ObjectsFit, StepFits, WorkerFits

\* The object the worker is about to write.
LEMMA StoredFits ==
  ASSUME IInv, ObjectsFit, w.e \in Experiments, stored[w.e] # None
  PROVE  IsCopy(stored[w.e]) /\ Formed(w.e, stored[w.e])
  BY DEF IInv, ObjectsInv, ObjectsFit, Sound

LEMMA StatusFits ==
  ASSUME IInv, ObjectsFit, w.e \in Experiments, stored[w.e] # None,
         NEW i, IsCopy(i), Formed(w.e, i), Store(w.e, [stored[w.e] EXCEPT !.status = i.status])
  PROVE  ObjectsFit'
<1> DEFINE p == [stored[w.e] EXCEPT !.status = i.status]
<1>1. IsCopy(stored[w.e]) /\ Formed(w.e, stored[w.e])
  BY StoredFits
<1>2. Formed(w.e, p)
  BY <1>1 DEF Formed, IsCopy, ObjectFields
<1> HIDE DEF p
<1>3. QED
  BY <1>2, StoreFits DEF p

LEMMA StatusUpdateFits ==
  ASSUME IInv, ObjectsFit, Fits(w), NEW outcome \in Outcomes, UpdateStatus(outcome)
  PROVE  ObjectsFit'
<1>1. CASE outcome = "ok"
  BY <1>1, OutcomeFresh, StatusFits DEF UpdateStatus, Fits
<1>2. CASE outcome # "ok"
  BY <1>2 DEF UpdateStatus, ObjectsFit, apiVars
<1>3. QED BY <1>1, <1>2

LEMMA UpdateFits ==
  ASSUME IInv, ObjectsFit, w.e \in Experiments, NEW outcome \in Outcomes,
         NEW i, IsCopy(i), Formed(w.e, i), Update(outcome, i)
  PROVE  ObjectsFit' /\ IsCopy(Overlay(outcome, i)) /\ Formed(w.e, Overlay(outcome, i))
<1>1. CASE outcome = "ok"
  <2> DEFINE o == stored[w.e]
             p == [o EXCEPT !.spec = i.spec, !.finalizer = i.finalizer]
             new == IF i.deleting /\ ~i.finalizer THEN None ELSE p
             q == Overlay("ok", i)
             st == [o.status EXCEPT !.message = @ \/ i.status.message,
                                    !.winner = IF @ = None THEN i.status.winner ELSE @]
  <2>1. IsCopy(o) /\ Formed(w.e, o)
    BY <1>1, OutcomeFresh, StoredFits
  <2>2. Formed(w.e, p)
    BY <2>1 DEF Formed, IsCopy, ObjectFields
  <2>3. Store(w.e, new)
    BY <1>1 DEF Update
  <2>4. IsCopy(q)
    BY <2>1, OverlaySame
  <2>5. q = [i EXCEPT !.status = st]
    BY DEF Overlay
  <2>6. Formed(w.e, q)
    <3> HIDE DEF o
    <3>1. /\ st.message \in BOOLEAN /\ st.winner \in Versions(SpecOf[w.e]) \cup {None}
          /\ \A f \in StatusFields \ {"message", "winner"} : st[f] = o.status[f]
      BY <2>1 DEF Formed, IsCopy, StatusFields
    <3> HIDE DEF st
    <3>2. q.spec = i.spec /\ q.status = st
      BY <2>5 DEF IsCopy, ObjectFields
    <3>3. QED
      BY <2>1, <3>1, <3>2 DEF Formed, StatusFields
  <2> HIDE DEF o, p, q, new
  <2>7. ObjectsFit'
    BY <2>2, <2>3, StoreFits DEF new
  <2>8. QED
    BY <1>1, <2>4, <2>6, <2>7 DEF q
<1>2. CASE outcome # "ok"
  <2>1. Overlay(outcome, i) = i
    BY <1>2, OverlayElse
  <2>2. QED
    BY <1>2, <2>1 DEF Update, ObjectsFit, apiVars
<1>3. QED BY <1>1, <1>2

LEMMA UpdateKeepsFit ==
  ASSUME IInv, ObjectsFit, Fits(w), NEW outcome \in Outcomes,
         NEW i, IsCopy(i), Formed(w.e, i), Update(outcome, i)
  PROVE  ObjectsFit' /\ Fits([w EXCEPT !.inst = Overlay(outcome, i)])
  BY UpdateFits, InstFits DEF Fits

-----------------------------------------------------------------------------
(* Step by step.                                                           *)

LEMMA FetchFits ==
  ASSUME IInv, ObjectsFit, NEW e \in Experiments, Fetch(e)
  PROVE  StepFits
<1> DEFINE x == [Idle EXCEPT !.e = e, !.inst = cached[e], !.fresh = e \in current,
                             !.taken = TRUE]
<1>1. ObjectsFit'
  BY DEF Fetch, ObjectsFit, apiVars
<1>2. CASE cached[e] = None
  <2>1. w' = Goto(x, "notFound")
    BY <1>2 DEF Fetch
  <2>2. w'.pc = "notFound" /\ w'.inst = None
    BY <1>2, <2>1 DEF Goto, Idle
  <2>3. QED
    BY <1>1, <2>2 DEF StepFits, WorkerFits
<1>3. CASE cached[e] # None
  <2>1. IsCopy(cached[e]) /\ Formed(e, cached[e])
    BY <1>3 DEF IInv, ObjectsInv, Sound, ObjectsFit
  <2>2. DOMAIN x = WorkerFields /\ x.e = e /\ x.inst = cached[e]
    BY DEF Idle, WorkerFields
  <2>3. PICK pc : w' = Goto(x, pc)
    BY DEF Fetch
  <2> HIDE DEF x
  <2>4. Fits(x)
    BY <2>1, <2>2 DEF Fits
  <2>5. QED
    BY <1>1, <2>3, <2>4, FlagsFit DEF StepFits, WorkerFits
<1>4. QED BY <1>2, <1>3

LEMMA OpeningFits ==
  ASSUME IInv, ObjectsFit, WorkerFits(w), SaveInitStatus \/ AddFinalizer \/ StartFinalize
  PROVE  StepFits
<1>1. Fits(w)
  BY HereFits DEF SaveInitStatus, AddFinalizer, StartFinalize, At
<1>2. CASE SaveInitStatus
  <2> DEFINE i == InitStatus(w.inst)
             x == [w EXCEPT !.inst = i]
  <2>1. IsCopy(i) /\ Formed(w.e, i)
    BY <1>1 DEF InitStatus, Fits, IsCopy, Formed, ObjectFields, SpecFields, StatusFields
  <2> HIDE DEF i
  <2>2. Fits(x)
    BY <1>1, <2>1, InstFits
  <2>3. x.inst = i
    BY <1>1 DEF Fits, WorkerFields
  <2>4. PICK outcome \in Outcomes :
          /\ IF outcome = "ok" THEN Store(w.e, [stored[w.e] EXCEPT !.status = x.inst.status])
                               ELSE UNCHANGED apiVars
          /\ \E pc : w' = Idle \/ w' = Goto(x, pc)
    BY <1>2 DEF SaveInitStatus, i
  <2> HIDE DEF x
  <2>5. WorkerFits(w')
    <3>1. \A pc : Fits(Goto(x, pc))
      BY <2>2, GoesFit
    <3>2. QED
      BY <2>4, <3>1 DEF WorkerFits
  <2>6. ObjectsFit'
    <3>1. CASE outcome = "ok"
      <4>1. Store(w.e, [stored[w.e] EXCEPT !.status = i.status])
        BY <2>3, <2>4, <3>1
      <4>2. stored[w.e] # None /\ w.e \in Experiments
        BY <1>1, <3>1, OutcomeFresh DEF Fits
      <4>3. QED
        BY <2>1, <4>1, <4>2, StatusFits
    <3>2. CASE outcome # "ok"
      BY <2>4, <3>2 DEF ObjectsFit, apiVars
    <3>3. QED BY <3>1, <3>2
  <2>7. QED
    BY <2>5, <2>6 DEF StepFits
<1>3. CASE AddFinalizer
  <2> DEFINE i == [w.inst EXCEPT !.finalizer = TRUE]
  <2>1. IsCopy(i) /\ Formed(w.e, i)
    BY <1>1 DEF Fits, IsCopy, Formed, ObjectFields, SpecFields, StatusFields
  <2>2. PICK outcome \in Outcomes :
          /\ Update(outcome, i)
          /\ w' = Idle \/ w' = Goto([w EXCEPT !.inst = Overlay(outcome, i)], "dispatch")
    BY <1>3 DEF AddFinalizer
  <2> HIDE DEF i
  <2>3. ObjectsFit' /\ Fits([w EXCEPT !.inst = Overlay(outcome, i)])
    BY <1>1, <2>1, <2>2, UpdateKeepsFit
  <2>4. Fits(Goto([w EXCEPT !.inst = Overlay(outcome, i)], "dispatch"))
    BY <2>3, GoesFit
  <2>5. QED
    BY <2>2, <2>3, <2>4 DEF StepFits, WorkerFits
<1>4. CASE StartFinalize
  <2> DEFINE q == Terminate(NoSplit)
             x == [w EXCEPT !.inst =
                     OverrideAssessment([w.inst EXCEPT !.spec.override = q])]
  <2>1. w' = Goto([w EXCEPT !.taken = FALSE], "unfinalize") \/ w' = Goto(x, "rules")
    BY <1>4 DEF StartFinalize
  <2>2. IsOverride(q)
    BY TerminateIs
  <2> HIDE DEF q
  <2>3. Fits(x)
    BY <1>1, <2>2, TerminateFits
  <2> HIDE DEF x
  <2>4. UNCHANGED apiVars
    BY <1>4 DEF StartFinalize
  <2>5. Fits([w EXCEPT !.taken = FALSE])
    BY <1>1, FlagsFit
  <2>6. Fits(Goto([w EXCEPT !.taken = FALSE], "unfinalize")) /\ Fits(Goto(x, "rules"))
    BY <2>3, <2>5, GoesFit
  <2>7. QED
    BY <2>1, <2>4, <2>6, QuietFits
<1>5. QED
  BY <1>2, <1>3, <1>4

LEMMA RegisterFits ==
  ASSUME IInv, ObjectsFit, WorkerFits(w), Reject \/ Begin
  PROVE  StepFits
<1>1. Fits(w)
  BY HereFits DEF Reject, Begin, ToReconcile, At
<1>2. CASE Restart
  BY <1>2, RestartFits
<1>3. CASE Reject /\ ~Restart
  <2> DEFINE m == MarkTargetsError(w, "Conflict")
             y == [m EXCEPT !.taken = FALSE]
  <2>1. w' = Goto(y, "end") /\ UNCHANGED apiVars
    BY <1>3 DEF Reject
  <2>2. Fits(m)
    BY <1>1, MarksFit, TagsKnown
  <2> HIDE DEF m
  <2>3. Fits(y)
    BY <2>2, FlagsFit
  <2> HIDE DEF y
  <2>4. QED
    BY <2>1, <2>3, FlagsFit, QuietFits
<1>4. CASE Begin /\ ~Restart
  <2> DEFINE ea == Cache!CurrentAbstract(w.e, TargetSpec(w.e))
             a == [w EXCEPT !.taken = FALSE]
             b == [a EXCEPT !.terminate = ea.action = "terminate"]
             r == [w EXCEPT !.taken = FALSE, !.terminate = ea.action = "terminate"]
             x == SyncExperiment(r, ea)
             y == [x EXCEPT !.statusUpdate = FALSE]
  <2>1. w' = Proceed(y) /\ UNCHANGED apiVars
    BY <1>4 DEF Begin
  <2> HIDE DEF ea
  <2>2. Fits(a)
    BY <1>1, FlagsFit
  <2>3. r = b
    OBVIOUS
  <2> HIDE DEF a, r
  <2>4. Fits(r)
    BY <2>2, <2>3, FlagsFit
  <2>5. Fits(x)
    BY <2>4, SyncFits
  <2> HIDE DEF x
  <2>6. Fits(y)
    BY <2>5, FlagsFit
  <2> HIDE DEF y
  <2>7. QED
    BY <2>1, <2>6, ProceedFits, QuietFits
<1>5. QED
  BY <1>2, <1>3, <1>4

LEMMA SavesFit ==
  ASSUME IInv, ObjectsFit, WorkerFits(w),
         NotFound \/ SkipCompleted \/ SavePause \/ SaveResume \/ Unfinalize
  PROVE  StepFits
<1>1. CASE NotFound \/ SkipCompleted
  BY <1>1, QuietFits DEF NotFound, SkipCompleted
<1>2. CASE SavePause
  <2>1. Fits(w)
    BY <1>2, HereFits DEF SavePause, At
  <2>2. QED
    BY <1>2, <2>1, StatusUpdateFits DEF SavePause, StepFits, WorkerFits
<1>3. CASE SaveResume
  <2>1. Fits(w)
    BY <1>3, HereFits DEF SaveResume, At
  <2>2. PICK outcome \in Outcomes :
          /\ Update(outcome, w.inst)
          /\ w' = Idle \/ w' = AfterProceed([w EXCEPT !.inst = Overlay(outcome, w.inst)])
    BY <1>3 DEF SaveResume
  <2>3. ObjectsFit' /\ Fits([w EXCEPT !.inst = Overlay(outcome, w.inst)])
    BY <2>1, <2>2, UpdateKeepsFit DEF Fits
  <2>4. QED
    BY <2>2, <2>3, PlacesFit DEF StepFits, WorkerFits
<1>4. CASE Unfinalize
  <2> DEFINE i == [w.inst EXCEPT !.finalizer = FALSE]
  <2>1. Fits(w)
    BY <1>4, HereFits DEF Unfinalize, At
  <2>2. IsCopy(i) /\ Formed(w.e, i)
    BY <2>1 DEF Fits, IsCopy, Formed, ObjectFields, SpecFields, StatusFields
  <2>3. PICK outcome \in Outcomes : Update(outcome, i)
    BY <1>4 DEF Unfinalize
  <2>4. w' = Idle
    BY <1>4 DEF Unfinalize
  <2> HIDE DEF i
  <2>5. QED
    BY <2>1, <2>2, <2>3, <2>4, UpdateKeepsFit DEF StepFits, WorkerFits
<1>5. QED
  BY <1>1, <1>2, <1>3, <1>4

LEMMA MetricsFit ==
  ASSUME IInv, ObjectsFit, WorkerFits(w), MetricsUnreadable \/ SyncMetrics
  PROVE  StepFits
<1>1. Fits(w)
  BY HereFits DEF MetricsUnreadable, SyncMetrics, At
<1>2. CASE Restart
  BY <1>2, RestartFits
<1>3. CASE MetricsUnreadable /\ ~Restart
  <2> DEFINE x == MarkSyncMetricsError(w)
             i == x.inst
  <2>1. Fits(x) /\ x.e = w.e
    <3>1. Fits(x)
      BY <1>1, MarksFit, TagsKnown
    <3>2. QED
      BY <1>1, <3>1 DEF MarkSyncMetricsError, Fits, WorkerFields
  <2>2. /\ w' = Idle
        /\ IF stored[w.e] # None /\ w.fresh
             THEN Store(w.e, [stored[w.e] EXCEPT !.status = i.status])
             ELSE UNCHANGED apiVars
    BY <1>3 DEF MetricsUnreadable
  <2> HIDE DEF x
  <2>3. IsCopy(i) /\ Formed(w.e, i) /\ w.e \in Experiments
    BY <1>1, <2>1 DEF Fits
  <2> HIDE DEF i
  <2>4. ObjectsFit'
    <3>1. CASE stored[w.e] # None /\ w.fresh
      BY <2>2, <2>3, <3>1, StatusFits
    <3>2. CASE ~(stored[w.e] # None /\ w.fresh)
      BY <2>2, <3>2 DEF ObjectsFit, apiVars
    <3>3. QED BY <3>1, <3>2
  <2>5. QED
    BY <2>2, <2>4 DEF StepFits, WorkerFits
<1>4. CASE SyncMetrics
  <2> DEFINE i == [w.inst EXCEPT !.spec.metrics = TRUE]
             X(outcome) == [w EXCEPT !.inst = Overlay(outcome, i)]
             y == [w EXCEPT !.inst = i]
  <2>1. IsCopy(i) /\ Formed(w.e, i)
    BY <1>1 DEF Fits, IsCopy, Formed, ObjectFields, SpecFields, StatusFields
  <2>2. PICK outcome \in Outcomes :
          /\ Update(outcome, i)
          /\ w' = Goto(y, "end") \/ w' = Goto(MarkSyncMetrics(X(outcome)), "rules")
    BY <1>4 DEF SyncMetrics
  <2> HIDE DEF i
  <2>3. Fits(y)
    BY <1>1, <2>1, InstFits
  <2>4. ObjectsFit' /\ Fits(X(outcome))
    BY <1>1, <2>1, <2>2, UpdateKeepsFit
  <2> HIDE DEF y, X
  <2>5. Fits(MarkSyncMetrics(X(outcome)))
    BY <2>4, MarksFit, TagsKnown
  <2>6. Fits(Goto(y, "end")) /\ Fits(Goto(MarkSyncMetrics(X(outcome)), "rules"))
    BY <2>3, <2>5, GoesFit
  <2>7. QED
    BY <2>2, <2>4, <2>6 DEF StepFits, WorkerFits
<1>5. QED
  BY <1>2, <1>3, <1>4

LEMMA TargetsFit ==
  ASSUME IInv, ObjectsFit, WorkerFits(w), UseRules \/ DetectTargets \/ MissingCandidate
  PROVE  StepFits
<1>1. Fits(w)
  BY HereFits DEF UseRules, DetectTargets, MissingCandidate, At
<1>2. \A k \in {"Service", "Baseline", "Candidate"} :
        Fits(Goto(MarkTargetsError(w, Missing(k)), "end"))
  <2> TAKE k \in {"Service", "Baseline", "Candidate"}
  <2>1. Missing(k) \in TargetTags
    BY TagsKnown
  <2>2. Fits(MarkTargetsError(w, Missing(k)))
    BY <1>1, <2>1, MarksFit, TagsKnown
  <2>3. QED
    BY <2>2, GoesFit
<1>3. Fits(AfterRules(MarkRoutingRulesReady(w))) /\ Fits(AfterTargets(MarkTargetsFound(w)))
  BY <1>1, MarksFit, PlacesFit, TagsKnown
<1>4. Fits(Goto(w, "baselineDR"))
  BY <1>1, GoesFit
<1>5. \/ w' = AfterRules(MarkRoutingRulesReady(w))
      \/ w' = AfterTargets(MarkTargetsFound(w))
      \/ w' = Goto(w, "baselineDR")
      \/ \E k \in {"Service", "Baseline", "Candidate"} :
           w' = Goto(MarkTargetsError(w, Missing(k)), "end")
  BY DEF UseRules, DetectTargets, MissingCandidate
<1>6. UNCHANGED apiVars
  BY DEF UseRules, DetectTargets, MissingCandidate
<1>7. QED
  BY <1>2, <1>3, <1>4, <1>5, <1>6, QuietFits

LEMMA RulesErrorFits ==
  ASSUME Fits(w), NEW tag \in RuleTags
  PROVE  Fits(Goto(MarkRoutingRulesError(w, tag), "end"))
<1>1. Fits(MarkRoutingRulesError(w, tag))
  BY MarksFit, TagsKnown
<1>2. QED
  BY <1>1, GoesFit

LEMMA WriteFits ==
  ASSUME ObjectsFit, Fits(w), NEW new, NEW next, Fits(next),
         WriteDR(new, next, "UpdateError") \/ WriteVS(new, next, "UpdateError")
  PROVE  StepFits
<1>1. UNCHANGED apiVars
  BY DEF WriteDR, WriteVS
<1>2. w' = next \/ w' = Goto(MarkRoutingRulesError(w, "UpdateError"), "end")
  BY DEF WriteDR, WriteVS
<1>3. QED
  BY <1>1, <1>2, RulesErrorFits, QuietFits, TagsKnown

LEMMA WeightsFit ==
  ASSUME NEW x, Fits(x), NEW f \in [Versions(SpecOf[x.e]) -> 0..100]
  PROVE  LET y == [x EXCEPT !.inst.status.weights = f] IN
         Fits(y) /\ y.inst.status.iteration = x.inst.status.iteration /\ y.e = x.e
  BY DEF Fits, IsCopy, Formed, ObjectFields, SpecFields, StatusFields, WorkerFields

LEMMA BaselineWeightFits ==
  ASSUME NEW x, Fits(x)
  PROVE  Fits([x EXCEPT !.inst.status.weights[0] = 100])
<1> DEFINE f == [x.inst.status.weights EXCEPT ![0] = 100]
<1>1. x.inst.status.weights \in [Versions(SpecOf[x.e]) -> 0..100]
  BY DEF Fits, Formed
<1>2. f \in [Versions(SpecOf[x.e]) -> 0..100]
  <2> DEFINE k == x.inst.status.weights
             V == Versions(SpecOf[x.e])
  <2>1. k \in [V -> 0..100] /\ 100 \in 0..100
    BY <1>1
  <2> HIDE DEF k, V
  <2>2. [k EXCEPT ![0] = 100] \in [V -> 0..100]
    BY <2>1
  <2>3. QED
    BY <2>2 DEF k, V
<1>3. [x EXCEPT !.inst.status.weights[0] = 100] = [x EXCEPT !.inst.status.weights = f]
  OBVIOUS
<1> HIDE DEF f
<1>4. QED
  BY <1>2, <1>3, WeightsFit

LEMMA WritesFit ==
  ASSUME IInv, ObjectsFit, WorkerFits(w),
         UpdateBaselineDR \/ UpdateBaselineVS \/ UpdateCandidatesDR \/ UpdateCandidatesVS
  PROVE  StepFits
<1>1. Fits(w)
  BY HereFits
  DEF UpdateBaselineDR, UpdateBaselineVS, UpdateCandidatesDR, UpdateCandidatesVS, At
<1>2. CASE UpdateBaselineDR
  <2>1. Fits(Goto(w, "baselineVS"))
    BY <1>1, GoesFit
  <2>2. QED
    BY <1>1, <1>2, <2>1, WriteFits DEF UpdateBaselineDR
<1>3. CASE UpdateBaselineVS
  <2> DEFINE y == [w EXCEPT !.inst.status.weights[0] = 100]
  <2>1. Fits(y)
    BY <1>1, BaselineWeightFits
  <2>2. WriteVS(BaselineVirtualService(vs[Svc(w)], w.e, SpecAt(w)), Goto(y, "candidates"),
                "UpdateError")
    BY <1>3 DEF UpdateBaselineVS
  <2> HIDE DEF y
  <2>3. Fits(Goto(y, "candidates"))
    BY <2>1, GoesFit
  <2>4. QED
    BY <1>1, <2>2, <2>3, WriteFits
<1>4. CASE UpdateCandidatesDR
  <2>1. Fits(Goto(w, "candidatesVS"))
    BY <1>1, GoesFit
  <2>2. QED
    BY <1>1, <1>4, <2>1, WriteFits DEF UpdateCandidatesDR
<1>5. CASE UpdateCandidatesVS
  <2>1. Fits(AfterTargets(MarkTargetsFound(w)))
    BY <1>1, MarksFit, PlacesFit, TagsKnown
  <2>2. QED
    BY <1>1, <1>5, <2>1, WriteFits DEF UpdateCandidatesVS
<1>6. QED
  BY <1>2, <1>3, <1>4, <1>5

LEMMA RemovalsFit ==
  ASSUME IInv, ObjectsFit, WorkerFits(w), RefuseRules \/ Complete
  PROVE  StepFits
<1> DEFINE m == MarkRoutingRulesError(w, "GetError")
           y == [m EXCEPT !.taken = FALSE]
           z == [w EXCEPT !.taken = FALSE]
<1>1. Fits(w)
  BY HereFits DEF RefuseRules, Complete, At
<1>2. Fits(m)
  BY <1>1, MarksFit, TagsKnown
<1>3. UNCHANGED apiVars /\ \E pc : w' = Goto(y, pc) \/ w' = Goto(z, pc)
  BY DEF RefuseRules, Complete
<1> HIDE DEF m
<1>4. Fits(y) /\ Fits(z)
  BY <1>1, <1>2, FlagsFit
<1> HIDE DEF y, z
<1>5. Fits(w')
  BY <1>3, <1>4, GoesFit
<1>6. QED
  BY <1>3, <1>5, QuietFits

-----------------------------------------------------------------------------
(* Iterations.                                                             *)

\* What each candidate takes from the baseline leaves no candidate above 100.
ShareFits ==
  At("iterate") /\ ~SpecAt(w).criteria /\ CanShare(SpecAt(w), w.inst.status.weights) =>
    \A v \in Versions(SpecAt(w)) \ {0} :
      w.inst.status.weights[v] + SpecAt(w).maxIncrement <= 100

LEMMA SpecNumbers ==
  ASSUME NEW e \in Experiments
  PROVE  /\ SpecOf[e].maxIncrement \in Nat /\ Len(SpecOf[e].candidates) \in Nat
         /\ BaselineShare(SpecOf[e]) \in Nat
<1>1. SpecOf[e].candidates \in Seq(Deployments) /\ SpecOf[e].maxIncrement \in Nat
  BY SpecAssumption DEF ExperimentSpecs
<1>2. Len(SpecOf[e].candidates) \in Nat
  BY <1>1
<1>3. QED
  BY <1>1, <1>2 DEF BaselineShare

LEMMA IterateFits ==
  ASSUME IInv, ObjectsFit, WorkerFits(w), ShareFits, IterateWithoutCriteria \/ AnalyticsFails
  PROVE  StepFits
<1>1. Fits(w) /\ UNCHANGED apiVars
  BY HereFits DEF IterateWithoutCriteria, AnalyticsFails, At
<1>2. CASE AnalyticsFails
  <2>1. Fits(MarkAnalyticsServiceError(w))
    BY <1>1, MarksFit, TagsKnown
  <2>2. Fits(w')
    BY <1>2, <2>1, GoesFit DEF AnalyticsFails
  <2>3. QED
    BY <1>1, <2>2, QuietFits
<1>3. CASE IterateWithoutCriteria /\ ~CanShare(SpecAt(w), w.inst.status.weights)
  <2>1. w' = Iterated(w) /\ w.pc = "iterate"
    BY <1>3 DEF IterateWithoutCriteria, At
  <2>2. w.inst.status.iteration <= MaxIter(w.e)
    BY <2>1, HereReady DEF UserPcs, Ready
  <2>3. Fits(w')
    BY <1>1, <2>1, <2>2, IteratedFits
  <2>4. QED
    BY <1>1, <2>3, QuietFits
<1>4. CASE IterateWithoutCriteria /\ CanShare(SpecAt(w), w.inst.status.weights)
  <2> DEFINE spec == SpecAt(w)
             k == w.inst.status.weights
             f == [v \in Versions(spec) |-> IF v = 0 THEN k[0] - BaselineShare(spec)
                                            ELSE k[v] + spec.maxIncrement]
             y == [w EXCEPT !.inst.status.weights = f]
  <2>1. w' = Goto(y, "split") /\ At("iterate") /\ ~spec.criteria
    BY <1>4 DEF IterateWithoutCriteria
  <2>2. k \in [Versions(spec) -> 0..100] /\ w.e \in Experiments
    BY <1>1 DEF Fits, Formed, SpecAt
  <2>3. 0 \in Versions(spec) /\ spec.maxIncrement \in Nat /\ BaselineShare(spec) \in Nat
    BY <2>2, VersionZero, SpecNumbers DEF SpecAt
  <2>4. k[0] - BaselineShare(spec) \in 0..100
    <3>1. k[0] \in 0..100 /\ k[0] >= BaselineShare(spec)
      BY <1>4, <2>2, <2>3 DEF CanShare
    <3> DEFINE a == k[0]
               b == BaselineShare(spec)
    <3> HIDE DEF k, spec
    <3>2. a \in 0..100 /\ b \in Nat /\ a >= b
      BY <2>3, <3>1
    <3> HIDE DEF a, b
    <3>3. a - b \in 0..100
      BY <3>2
    <3>4. QED
      BY <3>3 DEF a, b
  <2>5. ASSUME NEW v \in Versions(spec) \ {0} PROVE k[v] + spec.maxIncrement \in 0..100
    <3>1. k[v] \in 0..100 /\ k[v] + spec.maxIncrement <= 100
      BY <1>4, <2>1, <2>2 DEF ShareFits
    <3>2. QED
      BY <2>3, <3>1
  <2>6. f \in [Versions(spec) -> 0..100]
    BY <2>4, <2>5
  <2> HIDE DEF f
  <2>7. Fits(y)
    BY <1>1, <2>6, WeightsFit DEF SpecAt
  <2> HIDE DEF y
  <2>8. Fits(w')
    BY <2>1, <2>7, GoesFit
  <2>9. QED
    BY <1>1, <2>8, QuietFits
<1>5. QED
  BY <1>2, <1>3, <1>4

LEMMA AnswerKeeps ==
  ASSUME NEW x, Fits(x), NEW winner \in Versions(SpecOf[x.e]) \cup {None},
         NEW f \in [Versions(SpecOf[x.e]) -> 0..100]
  PROVE  LET y == [MarkAssessmentUpdate([x EXCEPT !.inst.status.winner = winner]) EXCEPT
                     !.inst.status.weights = f]
             z == MarkAnalyticsServiceRunning(y)
         IN  /\ Fits(y) /\ Fits(z)
             /\ z.inst.status.iteration = x.inst.status.iteration /\ z.e = x.e
             /\ z.inst.status.weights = f
<1> DEFINE n == [x EXCEPT !.inst.status.winner = winner]
           m == MarkAssessmentUpdate(n)
           y == [m EXCEPT !.inst.status.weights = f]
           z == MarkAnalyticsServiceRunning(y)
<1>1. Fits(n) /\ n.inst.status.iteration = x.inst.status.iteration /\ n.e = x.e
  BY DEF Fits, IsCopy, Formed, ObjectFields, SpecFields, StatusFields, WorkerFields
<1> HIDE DEF n
<1>2. Fits(m)
  BY <1>1, PhasesFit
<1>3. m.inst.status.iteration = x.inst.status.iteration /\ m.e = x.e
  BY <1>1
  DEF MarkAssessmentUpdate, MarkPhase, Fits, IsCopy, ObjectFields, StatusFields, WorkerFields
<1> HIDE DEF m
<1>4. Fits(y) /\ y.inst.status.iteration = x.inst.status.iteration /\ y.e = x.e
      /\ y.inst.status.weights = f
  BY <1>2, <1>3
  DEF Fits, IsCopy, Formed, ObjectFields, SpecFields, StatusFields, WorkerFields
<1> HIDE DEF y
<1>5. Fits(z)
  BY <1>4, MarksFit, TagsKnown
<1>6. z.inst.status.iteration = x.inst.status.iteration /\ z.e = x.e
      /\ z.inst.status.weights = f
  BY <1>4
  DEF MarkAnalyticsServiceRunning, Fits, IsCopy, ObjectFields, StatusFields, WorkerFields
<1>7. QED
  BY <1>4, <1>5, <1>6 DEF n, m, y

\* The weights an answer leaves.
LEMMA RecommendedFit ==
  ASSUME NEW e \in Experiments, NEW r, IsResponse(r),
         NEW k \in [Versions(SpecOf[e]) -> 0..100]
  PROVE  [v \in Versions(SpecOf[e]) |->
            IF v \notin Recommended(SpecOf[e], r) THEN k[v]
            ELSE IF v \in r.rollback THEN 0 ELSE r.weights[v]]
           \in [Versions(SpecOf[e]) -> 0..100]
<1> DEFINE V == Versions(SpecOf[e])
<1>1. Len(SpecOf[e].candidates) \in Nat
  BY SpecNumbers
<1>2. V \subseteq Nat
  BY <1>1 DEF Versions
<1>3. ASSUME NEW v \in V, v \in Recommended(SpecOf[e], r), v \notin r.rollback
      PROVE  r.weights[v] \in 0..100
  <2>1. v \in 0..v
    BY <1>2
  <2>2. v \in DOMAIN r.weights
    BY <1>3, <2>1 DEF Recommended
  <2>3. QED
    BY <2>2 DEF IsResponse
<1> HIDE DEF V
<1>4. QED
  BY <1>3 DEF V

LEMMA AnswerFits ==
  ASSUME IInv, ObjectsFit, WorkerFits(w), InputsFit, NEW r \in Responses,
         Abort(r) \/ FollowRecommendation(r)
  PROVE  StepFits
<1>1. Fits(w) /\ w.pc = "iterate" /\ UNCHANGED apiVars
  BY HereFits DEF Abort, FollowRecommendation, At
<1>2. CASE Abort(r)
  <2> DEFINE q == Terminate(NoSplit)
             y == [w EXCEPT !.inst =
                     OverrideAssessment([w.inst EXCEPT !.spec.override = q])]
  <2>1. w' = AfterUpdate(y)
    BY <1>2 DEF Abort
  <2>2. IsOverride(q)
    BY TerminateIs
  <2> HIDE DEF q
  <2>3. Fits(y)
    BY <1>1, <2>2, TerminateFits
  <2> HIDE DEF y
  <2>4. Fits(w')
    BY <2>1, <2>3, PlacesFit
  <2>5. QED
    BY <1>1, <2>4, QuietFits
<1>3. CASE FollowRecommendation(r)
  <2> DEFINE spec == SpecAt(w)
             k == w.inst.status.weights
             m == MarkAssessmentUpdate([w EXCEPT !.inst.status.winner = r.winner])
             f == [v \in Versions(spec) |->
                     IF v \notin Recommended(spec, r) THEN k[v]
                     ELSE IF v \in r.rollback THEN 0 ELSE r.weights[v]]
             y == [m EXCEPT !.inst.status.weights = f]
             z == MarkAnalyticsServiceRunning(y)
  <2>1. m.inst.status.weights = k
    BY <1>1 DEF MarkAssessmentUpdate, MarkPhase, Fits, IsCopy, ObjectFields, StatusFields,
                WorkerFields
  <2>2. \/ w' = Goto(MarkAnalyticsServiceError(y), "end")
        \/ w' = Goto(z, "split")
        \/ w' = Iterated(z)
    BY <1>3, <2>1 DEF FollowRecommendation
  <2>3. k \in [Versions(spec) -> 0..100] /\ w.e \in Experiments
    BY <1>1 DEF Fits, Formed, SpecAt
  <2>4. f \in [Versions(spec) -> 0..100]
    BY <2>3, RecommendedFit, SpecAssumption DEF SpecAt
  <2>5. r.winner \in Versions(SpecOf[w.e]) \cup {None}
    BY <2>3 DEF InputsFit
  <2> HIDE DEF f
  <2>6. Fits(y) /\ Fits(z) /\ z.inst.status.iteration = w.inst.status.iteration /\ z.e = w.e
    BY <1>1, <2>4, <2>5, AnswerKeeps DEF SpecAt
  <2> HIDE DEF y, z
  <2>7. Fits(MarkAnalyticsServiceError(y))
    BY <2>6, MarksFit, TagsKnown
  <2>8. w.inst.status.iteration <= MaxIter(w.e)
    BY <1>1, HereReady DEF UserPcs, Ready
  <2>9. Fits(Goto(MarkAnalyticsServiceError(y), "end")) /\ Fits(Goto(z, "split"))
    BY <2>6, <2>7, GoesFit
  <2>10. Fits(Iterated(z))
    BY <2>6, <2>8, IteratedFits
  <2>11. QED
    BY <1>1, <2>2, <2>9, <2>10, QuietFits
<1>4. QED
  BY <1>2, <1>3

LEMMA SplitFits ==
  ASSUME IInv, ObjectsFit, WorkerFits(w), SplitWithoutRules \/ UpdateTrafficSplit
  PROVE  StepFits
<1> DEFINE m == MarkAssessmentUpdate(w)
<1>1. Fits(w) /\ w.pc = "split" /\ UNCHANGED apiVars
  BY HereFits DEF SplitWithoutRules, UpdateTrafficSplit, At
<1>2. Fits(m) /\ m.inst.status.iteration = w.inst.status.iteration /\ m.e = w.e
  <2>1. Fits(m)
    BY <1>1, PhasesFit
  <2>2. QED
    BY <1>1, <2>1
    DEF MarkAssessmentUpdate, MarkPhase, Fits, WorkerFields, IsCopy, ObjectFields, StatusFields
<1>3. \/ w' = Iterated(m)
      \/ \E tag \in {"EmptyRoute", "SplitError"} : w' = Goto(MarkRoutingRulesError(w, tag), "end")
  BY DEF SplitWithoutRules, UpdateTrafficSplit
<1> HIDE DEF m
<1>4. w.inst.status.iteration <= MaxIter(w.e)
  BY <1>1, HereReady DEF UserPcs, Ready
<1>5. Fits(Iterated(m))
  BY <1>2, <1>4, IteratedFits
<1>6. \A tag \in {"EmptyRoute", "SplitError"} : Fits(Goto(MarkRoutingRulesError(w, tag), "end"))
  BY <1>1, RulesErrorFits, TagsKnown
<1>7. QED
  BY <1>1, <1>3, <1>5, <1>6, QuietFits

LEMMA CleanupFits ==
  ASSUME IInv, ObjectsFit, WorkerFits(w), CleanupTargets \/ CleanupDR \/ CleanupVS
  PROVE  StepFits
<1>1. Fits(w) /\ UNCHANGED apiVars
  BY HereFits DEF CleanupTargets, CleanupDR, CleanupVS, At
<1>2. \/ w' = Idle
      \/ \E pc : w' = Goto(w, pc) \/ w' = Goto(MarkExperimentCompleted(w), pc)
  BY DEF CleanupTargets, CleanupDR, CleanupVS, CleanupFails
<1>3. \A pc : Fits(Goto(w, pc)) /\ Fits(Goto(MarkExperimentCompleted(w), pc))
  BY <1>1, PhasesFit, GoesFit
<1>4. QED
  BY <1>1, <1>2, <1>3, QuietFits

LEMMA EndFits ==
  ASSUME IInv, ObjectsFit, WorkerFits(w), End
  PROVE  StepFits
<1> DEFINE y == Goto(w, "unfinalize")
<1>1. Fits(w)
  BY HereFits DEF End, At
<1>2. w' = Idle \/ w' = [y EXCEPT !.taken = FALSE]
  BY DEF End
<1>3. Fits(y)
  BY <1>1, GoesFit
<1> HIDE DEF y
<1>4. Fits([y EXCEPT !.taken = FALSE])
  BY <1>3, FlagsFit
<1>5. ObjectsFit'
  <2>1. CASE w.statusUpdate
    BY <1>1, <2>1, StatusUpdateFits DEF End
  <2>2. CASE ~w.statusUpdate
    BY <2>2 DEF End, ObjectsFit, apiVars
  <2>3. QED BY <2>1, <2>2
<1>6. QED
  BY <1>2, <1>4, <1>5 DEF StepFits, WorkerFits

-----------------------------------------------------------------------------
(* The other goroutines, and the environment.                              *)

LEMMA AsideFits ==
  ASSUME ObjectsFit, WorkerFits(w), UNCHANGED <<stored, cached, w>>
  PROVE  StepFits
  BY DEF ObjectsFit, StepFits

LEMMA DeliverFits ==
  ASSUME IInv, ObjectsFit, WorkerFits(w), NEW e \in Experiments, Deliver(e)
  PROVE  StepFits
  BY DEF IInv, ObjectsInv, ObjectsFit, Deliver, StepFits

LEMMA AgingFits ==
  ASSUME IInv, ObjectsFit, WorkerFits(w), NEW e \in Experiments, IntervalElapses(e)
  PROVE  StepFits
<1> DEFINE Age(o) == IF o # None /\ o.status.lastUpdate = "recent"
                       THEN [o EXCEPT !.status.lastUpdate = "past"] ELSE o
<1>1. /\ stored' = [stored EXCEPT ![e] = Age(stored[e])]
      /\ cached' = [cached EXCEPT ![e] = Age(cached[e])]
      /\ w' = IF w.e = e THEN [w EXCEPT !.inst = Age(w.inst)] ELSE w
  BY DEF IntervalElapses
<1>2. \A o : IsCopy(o) /\ Formed(e, o) => IsCopy(Age(o)) /\ Formed(e, Age(o))
  <2> TAKE o
  <2>1. CASE o # None /\ o.status.lastUpdate = "recent"
    BY <2>1 DEF Formed, IsCopy, ObjectFields, SpecFields, StatusFields
  <2>2. CASE ~(o # None /\ o.status.lastUpdate = "recent")
    BY <2>2
  <2>3. QED BY <2>1, <2>2
<1>3. Age(None) = None
  OBVIOUS
<1> HIDE DEF Age
<1>4. ObjectsFit'
  <2>1. /\ stored[e] = None \/ (IsCopy(stored[e]) /\ Formed(e, stored[e]))
        /\ cached[e] = None \/ (IsCopy(cached[e]) /\ Formed(e, cached[e]))
    BY DEF IInv, ObjectsInv, Sound, ObjectsFit
  <2>2. /\ Age(stored[e]) = None \/ Formed(e, Age(stored[e]))
        /\ Age(cached[e]) = None \/ Formed(e, Age(cached[e]))
    BY <1>2, <1>3, <2>1
  <2>3. QED
    BY <1>1, <2>2 DEF ObjectsFit, IInv, ObjectsInv
<1>5. WorkerFits(w')
  <2>1. CASE w.e # e
    BY <1>1, <2>1
  <2>2. CASE w.e = e
    <3> DEFINE y == [w EXCEPT !.inst = Age(w.inst)]
    <3>1. w' = y
      BY <1>1, <2>2
    <3>2. CASE w = Idle
      BY <2>2, <3>2, KindAssumption DEF Idle
    <3>3. CASE w.pc = "notFound" /\ w.inst = None
      <4>1. DOMAIN w = WorkerFields
        BY DEF IInv, WorkerInv
      <4>2. y.pc = "notFound" /\ y.inst = None
        BY <1>3, <3>3, <4>1 DEF WorkerFields
      <4>3. QED
        BY <3>1, <4>2 DEF WorkerFits
    <3>4. CASE Fits(w)
      <4>1. IsCopy(Age(w.inst)) /\ Formed(w.e, Age(w.inst))
        BY <1>2, <2>2, <3>4 DEF Fits
      <4>2. Fits(y)
        BY <3>4, <4>1, InstFits
      <4>3. QED
        BY <3>1, <4>2 DEF WorkerFits
    <3>5. QED
      BY <3>2, <3>3, <3>4 DEF WorkerFits
  <2>3. QED BY <2>1, <2>2
<1>6. QED
  BY <1>4, <1>5 DEF StepFits

LEMMA EditFits ==
  ASSUME IInv, ObjectsFit, WorkerFits(w), NEW e \in Experiments, NEW new, Edit(e, new),
         new = None \/ Formed(e, new)
  PROVE  StepFits
<1>1. ObjectsFit'
  BY StoreFits DEF Edit
<1>2. DOMAIN w = WorkerFields
  BY DEF IInv, WorkerInv
<1>3. w' = w \/ (w.e = e /\ w' = [w EXCEPT !.fresh = FALSE])
  BY DEF Edit
<1>4. CASE w = Idle
  <2>1. w' = Idle
    BY <1>3, <1>4, KindAssumption DEF Idle
  <2>2. QED
    BY <1>1, <2>1 DEF StepFits, WorkerFits
<1>5. CASE w.pc = "notFound" /\ w.inst = None
  <2>1. w'.pc = "notFound" /\ w'.inst = None
    BY <1>2, <1>3, <1>5 DEF WorkerFields
  <2>2. QED
    BY <1>1, <2>1 DEF StepFits, WorkerFits
<1>6. CASE Fits(w)
  <2>1. Fits([w EXCEPT !.fresh = FALSE])
    BY <1>6, FlagsFit
  <2>2. QED
    BY <1>1, <1>3, <1>6, <2>1 DEF StepFits, WorkerFits
<1>7. QED
  BY <1>4, <1>5, <1>6 DEF WorkerFits

LEMMA NewFormed ==
  ASSUME NEW e \in Experiments
  PROVE  Formed(e, NewObject(e))
<1>1. SpecOf[e].onTermination \in Strategies
  BY SpecAssumption DEF ExperimentSpecs
<1>2. MaxIter(e) \in Nat
  BY LimitNat
<1>3. 0 \in 0..(MaxIter(e) + 1)
  BY <1>2
<1> DEFINE o == NewObject(e)
<1>4. /\ o.spec.override = None /\ o.spec.onTermination = SpecOf[e].onTermination
      /\ o.spec.metrics = FALSE /\ o.status.message = FALSE /\ o.status.phase = ""
      /\ o.status.metricsSynced = "Unknown" /\ o.status.targets = "Unknown"
      /\ o.status.rules = "Unknown" /\ o.status.analytics = "Unknown"
      /\ o.status.weights = [v \in Versions(SpecOf[e]) |-> 0] /\ o.status.winner = None
      /\ o.status.iteration = 0 /\ o.status.lastUpdate = "absent"
  BY DEF NewObject
<1>5. [v \in Versions(SpecOf[e]) |-> 0] \in [Versions(SpecOf[e]) -> 0..100]
  <2>1. 0 \in 0..100
    OBVIOUS
  <2>2. QED
    BY <2>1, Zenon
<1> HIDE DEF o
<1>6. o.status.weights \in [Versions(SpecOf[e]) -> 0..100]
  BY <1>4, <1>5, Zenon
<1>7. IsOverride(o.spec.override) /\ o.status.targets \in TargetTags /\ o.status.rules \in RuleTags
  BY <1>4, TagsKnown DEF IsOverride
<1>8. o.status.iteration \in 0..(MaxIter(e) + 1)
  BY <1>3, <1>4
<1>9. Formed(e, o)
  BY <1>1, <1>4, <1>6, <1>7, <1>8 DEF Formed
<1>10. QED
  BY <1>9 DEF o

LEMMA UsersFit ==
  ASSUME IInv, ObjectsFit, WorkerFits(w), InputsFit, NEW e \in Experiments,
         UserCreates(e) \/ UserDeletes(e) \/ \E o \in UserOverrides : UserOverridesTo(e, o)
  PROVE  StepFits
<1>1. CASE UserCreates(e)
  BY <1>1, NewFormed, EditFits DEF UserCreates
<1>2. stored[e] = None \/ (IsCopy(stored[e]) /\ Formed(e, stored[e]))
  BY DEF IInv, ObjectsInv, Sound, ObjectsFit
<1>3. CASE UserDeletes(e)
  <2> DEFINE new == IF stored[e].finalizer THEN [stored[e] EXCEPT !.deleting = TRUE] ELSE None
  <2>1. new = None \/ Formed(e, new)
    BY <1>2, <1>3 DEF UserDeletes, Formed, IsCopy, ObjectFields
  <2>2. Edit(e, new)
    BY <1>3 DEF UserDeletes
  <2> HIDE DEF new
  <2>3. QED
    BY <2>1, <2>2, EditFits
<1>4. ASSUME NEW o \in UserOverrides, UserOverridesTo(e, o)
      PROVE  StepFits
  <2> DEFINE new == [stored[e] EXCEPT !.spec.override = o]
  <2>1. Formed(e, new)
    <3>1. IsOverride(o) /\ IsCopy(stored[e]) /\ Formed(e, stored[e])
      BY <1>2, <1>4 DEF InputsFit, UserOverridesTo
    <3>2. QED
      BY <3>1, RequestFits
  <2>2. Edit(e, new)
    BY <1>4 DEF UserOverridesTo
  <2> HIDE DEF new
  <2>3. QED
    BY <2>1, <2>2, EditFits
<1>5. QED
  BY <1>1, <1>3, <1>4

(***************************************************************************)
(* Every step keeps the objects and the worker's copy well formed.         *)
(***************************************************************************)
LEMMA StepsFit ==
  ASSUME IInv, ObjectsFit, WorkerFits(w), InputsFit, ShareFits, [Next]_vars
  PROVE  StepFits
<1>1. CASE Reconcile
  BY <1>1, OpeningFits, RegisterFits, SavesFit, MetricsFit, TargetsFit, WritesFit, RemovalsFit,
     IterateFits, AnswerFits, SplitFits, CleanupFits, EndFits
  DEF Reconcile
<1>2. CASE Environment
  <2>1. CASE Crash
    BY <2>1, RestartFits DEF Crash
  <2>2. CASE \E t \in Targets : UserCreatesTarget(t) \/ UserDeletesTarget(t)
    BY <2>2, AsideFits DEF UserCreatesTarget, UserDeletesTarget, apiVars
  <2>3. QED
    BY <1>2, <2>1, <2>2, UsersFit DEF Environment
<1>3. CASE UNCHANGED vars
  BY <1>3, AsideFits DEF vars, apiVars
<1>4. CASE \E e \in Experiments :
             Fetch(e) \/ Deliver(e) \/ IntervalElapses(e) \/ TimerFires(e)
  <2>1. CASE \E e \in Experiments : TimerFires(e)
    BY <2>1, AsideFits DEF TimerFires, apiVars
  <2>2. QED
    BY <1>4, <2>1, FetchFits, DeliverFits, AgingFits
<1>5. CASE \E t \in Targets : HandleTargetEvent(t) \/ EnqueueOwner(t)
  BY <1>5, AsideFits DEF HandleTargetEvent, EnqueueOwner, apiVars
<1>6. QED
  BY <1>1, <1>2, <1>3, <1>4, <1>5 DEF Next

-----------------------------------------------------------------------------
(* Where each step of the worker leads.                                    *)

LEMMA PlacesGo ==
  ASSUME NEW x, DOMAIN x = WorkerFields
  PROVE  /\ \A pc : Goto(x, pc).pc = pc
         /\ AfterUpdate(x).pc \in {"complete", "end"}
         /\ AfterTargets(x).pc \in {"iterate", "complete", "end"}
         /\ AfterRules(x).pc \in {"detect", "iterate", "complete", "end"}
         /\ AfterProceed(x).pc \in {"metrics", "rules"}
         /\ Iterated(x).pc \in {"complete", "end"}
<1>1. \A y, pc : DOMAIN y = WorkerFields => Goto(y, pc).pc = pc
  BY GotoKeeps
<1>2. \A y : DOMAIN y = WorkerFields => AfterUpdate(y).pc \in {"complete", "end"}
  BY <1>1 DEF AfterUpdate
<1>3. AfterTargets(x).pc \in {"iterate", "complete", "end"}
  BY <1>1, <1>2 DEF AfterTargets
<1>4. AfterRules(x).pc \in {"detect", "iterate", "complete", "end"}
  BY <1>1, <1>3 DEF AfterRules
<1>5. AfterProceed(x).pc \in {"metrics", "rules"}
  BY <1>1 DEF AfterProceed
<1>6. Iterated(x).pc \in {"complete", "end"}
  <2> DEFINE m == MarkIterationUpdate(x)
             y == [m EXCEPT !.inst.status.lastUpdate = "recent",
                            !.inst.status.iteration = @ + 1]
  <2>1. DOMAIN m = WorkerFields
    BY PhasesCarry DEF Carries
  <2> HIDE DEF m
  <2>2. DOMAIN y = WorkerFields
    BY <2>1
  <2>3. Iterated(x) = AfterUpdate(y)
    BY DEF Iterated, m
  <2> HIDE DEF y
  <2>4. QED
    BY <1>2, <2>2, <2>3
<1>7. QED
  BY <1>1, <1>2, <1>3, <1>4, <1>5, <1>6

\* Marks, a changed copy or a released request, and then somewhere else.
LEMMA MarkedGo ==
  ASSUME NEW x, DOMAIN x = WorkerFields, NEW i, NEW b, NEW tag
  PROVE  /\ DOMAIN [x EXCEPT !.inst = i] = WorkerFields
         /\ DOMAIN [x EXCEPT !.taken = b] = WorkerFields
         /\ DOMAIN MarkTargetsError(x, tag) = WorkerFields
         /\ DOMAIN MarkTargetsFound(x) = WorkerFields
         /\ DOMAIN MarkRoutingRulesError(x, tag) = WorkerFields
         /\ DOMAIN MarkRoutingRulesReady(x) = WorkerFields
         /\ DOMAIN MarkAnalyticsServiceError(x) = WorkerFields
         /\ DOMAIN MarkAnalyticsServiceRunning(x) = WorkerFields
         /\ DOMAIN MarkSyncMetrics(x) = WorkerFields
         /\ DOMAIN MarkAssessmentUpdate(x) = WorkerFields
         /\ DOMAIN MarkExperimentCompleted(x) = WorkerFields
         /\ DOMAIN MarkActionPause(x) = WorkerFields
         /\ DOMAIN MarkActionResume(x) = WorkerFields
<1>1. /\ DOMAIN [x EXCEPT !.inst = i] = WorkerFields
      /\ DOMAIN [x EXCEPT !.taken = b] = WorkerFields
  OBVIOUS
<1>2. QED
  BY <1>1, MarksCarry, PhasesCarry DEF Carries

LEMMA OpeningGoes ==
  ASSUME IInv, SaveInitStatus \/ AddFinalizer \/ StartFinalize
  PROVE  w'.pc \in {"idle", "dispatch", "finalizer", "unfinalize", "rules"}
<1>1. DOMAIN w = WorkerFields
  BY DEF IInv, WorkerInv
<1>2. Idle.pc = "idle"
  BY DEF Idle
<1>3. \A i, b, pc : /\ Goto([w EXCEPT !.inst = i], pc).pc = pc
                    /\ Goto([w EXCEPT !.taken = b], pc).pc = pc
  BY <1>1, MarkedGo, PlacesGo, ZenonT(60)
<1>4. \/ w' = Idle
      \/ \E i, b : \E pc \in {"dispatch", "finalizer", "unfinalize", "rules"} :
           w' = Goto([w EXCEPT !.inst = i], pc) \/ w' = Goto([w EXCEPT !.taken = b], pc)
  <2>1. CASE SaveInitStatus
    <3> DEFINE x == [w EXCEPT !.inst = InitStatus(w.inst)]
    <3>1. \/ w' = Idle
          \/ \E pc \in {"dispatch", "finalizer"} : w' = Goto(x, pc)
      BY <2>1 DEF SaveInitStatus
    <3>2. QED BY <3>1
  <2>2. CASE AddFinalizer
    BY <2>2 DEF AddFinalizer
  <2>3. CASE StartFinalize
    BY <2>3 DEF StartFinalize
  <2>4. QED BY <2>1, <2>2, <2>3
<1>5. CASE w' = Idle
  BY <1>2, <1>5
<1>6. ASSUME NEW i, NEW b, NEW pc \in {"dispatch", "finalizer", "unfinalize", "rules"},
             w' = Goto([w EXCEPT !.inst = i], pc) \/ w' = Goto([w EXCEPT !.taken = b], pc)
      PROVE  w'.pc = pc
  BY <1>3, <1>6
<1>7. QED
  BY <1>4, <1>5, <1>6

LEMMA RegisterGoes ==
  ASSUME IInv, Reject \/ Begin
  PROVE  w'.pc \in {"idle", "end", "pauseSave", "resumeSave", "metrics", "rules"}
<1>1. DOMAIN w = WorkerFields /\ Idle.pc = "idle"
  BY DEF IInv, WorkerInv, Idle
<1>2. CASE Restart
  BY <1>1, <1>2 DEF Restart
<1>3. CASE Reject /\ ~Restart
  <2> DEFINE m == MarkTargetsError(w, "Conflict")
  <2>1. w' = Goto([m EXCEPT !.taken = FALSE], "end")
    BY <1>3 DEF Reject
  <2>2. DOMAIN m = WorkerFields
    BY <1>1, MarkedGo
  <2> HIDE DEF m
  <2>3. DOMAIN [m EXCEPT !.taken = FALSE] = WorkerFields
    BY <2>2, MarkedGo
  <2>4. QED
    BY <2>1, <2>3, PlacesGo
<1>4. CASE Begin /\ ~Restart
  <2> DEFINE ea == Cache!CurrentAbstract(w.e, TargetSpec(w.e))
             r == [w EXCEPT !.taken = FALSE, !.terminate = ea.action = "terminate"]
             x == SyncExperiment(r, ea)
             y == [x EXCEPT !.statusUpdate = FALSE]
  <2>1. w' = Proceed(y)
    BY <1>4 DEF Begin
  <2> HIDE DEF ea
  <2>2. DOMAIN r = WorkerFields
    BY <1>1
  <2> HIDE DEF r
  <2>3. DOMAIN x = WorkerFields
    BY <2>2, SyncCarries DEF Carries
  <2> HIDE DEF x
  <2>4. DOMAIN y = WorkerFields
    BY <2>3
  <2> HIDE DEF y
  <2> DEFINE p == MarkActionPause(y)
             s == MarkActionResume(y)
             q == [s EXCEPT !.inst.spec.override = None]
  <2>5. DOMAIN p = WorkerFields /\ DOMAIN s = WorkerFields
    BY <2>4, MarkedGo
  <2>6. \/ w' = Goto(p, "pauseSave") \/ w' = AfterProceed(y) \/ w' = AfterProceed(s)
        \/ w' = Goto(q, "resumeSave") \/ w' = Idle
    BY <2>1 DEF Proceed
  <2> HIDE DEF p, s
  <2>7. DOMAIN q = WorkerFields
    BY <2>5
  <2> HIDE DEF q
  <2>8. CASE w' = Goto(p, "pauseSave")
    BY <2>5, <2>8, PlacesGo
  <2>9. CASE w' = AfterProceed(y)
    BY <2>4, <2>9, PlacesGo
  <2>10. CASE w' = AfterProceed(s)
    BY <2>5, <2>10, PlacesGo
  <2>11. CASE w' = Goto(q, "resumeSave")
    BY <2>7, <2>11, PlacesGo
  <2>12. CASE w' = Idle
    BY <1>1, <2>12
  <2>13. QED
    BY <2>6, <2>8, <2>9, <2>10, <2>11, <2>12
<1>5. QED
  BY <1>2, <1>3, <1>4

LEMMA SavesGo ==
  ASSUME IInv, \/ NotFound \/ SkipCompleted \/ SavePause \/ SaveResume \/ Unfinalize
               \/ MetricsUnreadable \/ SyncMetrics
  PROVE  w'.pc \in {"idle", "metrics", "rules", "end"}
<1>1. DOMAIN w = WorkerFields /\ Idle.pc = "idle"
  BY DEF IInv, WorkerInv, Idle
<1>2. \A i : DOMAIN [w EXCEPT !.inst = i] = WorkerFields
  BY <1>1, MarkedGo
<1>3. \A i : DOMAIN MarkSyncMetrics([w EXCEPT !.inst = i]) = WorkerFields
  BY <1>2, MarkedGo
<1>4. \/ w' = Idle
      \/ \E i : \/ w' = AfterProceed([w EXCEPT !.inst = i])
                \/ w' = Goto([w EXCEPT !.inst = i], "end")
                \/ w' = Goto(MarkSyncMetrics([w EXCEPT !.inst = i]), "rules")
  BY DEF NotFound, SkipCompleted, SavePause, SaveResume, Unfinalize, MetricsUnreadable, SyncMetrics,
         Restart
<1>5. ASSUME NEW i
      PROVE  /\ AfterProceed([w EXCEPT !.inst = i]).pc \in {"metrics", "rules"}
             /\ Goto([w EXCEPT !.inst = i], "end").pc = "end"
             /\ Goto(MarkSyncMetrics([w EXCEPT !.inst = i]), "rules").pc = "rules"
  <2> DEFINE x == [w EXCEPT !.inst = i]
             m == MarkSyncMetrics(x)
  <2>1. DOMAIN x = WorkerFields /\ DOMAIN m = WorkerFields
    BY <1>2, <1>3
  <2> HIDE DEF m
  <2>2. Goto(m, "rules").pc = "rules"
    BY <2>1, PlacesGo
  <2> HIDE DEF x
  <2>3. AfterProceed(x).pc \in {"metrics", "rules"} /\ Goto(x, "end").pc = "end"
    BY <2>1, PlacesGo
  <2>4. QED
    BY <2>2, <2>3 DEF x, m
<1>6. QED
  BY <1>1, <1>4, <1>5

LEMMA TargetsGo ==
  ASSUME IInv, UseRules \/ DetectTargets \/ MissingCandidate
  PROVE  /\ w'.pc \in {"detect", "iterate", "complete", "end", "baselineDR"}
         /\ UseRules => w'.pc # "baselineDR"
<1>1. DOMAIN w = WorkerFields
  BY DEF IInv, WorkerInv
<1>2. \/ w' = AfterRules(MarkRoutingRulesReady(w))
      \/ w' = AfterTargets(MarkTargetsFound(w))
      \/ w' = Goto(w, "baselineDR")
      \/ \E tag : w' = Goto(MarkTargetsError(w, tag), "end")
  BY DEF UseRules, DetectTargets, MissingCandidate
<1>3. /\ DOMAIN MarkRoutingRulesReady(w) = WorkerFields
      /\ DOMAIN MarkTargetsFound(w) = WorkerFields
      /\ \A tag : DOMAIN MarkTargetsError(w, tag) = WorkerFields
  BY <1>1, MarkedGo
<1>4. UseRules => w' = AfterRules(MarkRoutingRulesReady(w))
  BY DEF UseRules
<1>5. /\ AfterRules(MarkRoutingRulesReady(w)).pc \in {"detect", "iterate", "complete", "end"}
      /\ AfterTargets(MarkTargetsFound(w)).pc \in {"iterate", "complete", "end"}
  BY <1>3, PlacesGo
<1>6. Goto(w, "baselineDR").pc = "baselineDR"
  BY <1>1, GotoKeeps
<1>7. \A tag : Goto(MarkTargetsError(w, tag), "end").pc = "end"
  BY <1>3, GotoKeeps
<1>8. QED
  BY <1>2, <1>4, <1>5, <1>6, <1>7

LEMMA WritesGo ==
  ASSUME IInv, UpdateCandidatesVS \/ UpdateTrafficSplit \/ SplitWithoutRules
  PROVE  w'.pc \in {"iterate", "complete", "end"}
<1>1. DOMAIN w = WorkerFields
  BY DEF IInv, WorkerInv
<1>2. \/ w' = AfterTargets(MarkTargetsFound(w))
      \/ w' = Iterated(MarkAssessmentUpdate(w))
      \/ \E tag : w' = Goto(MarkRoutingRulesError(w, tag), "end")
  BY DEF UpdateCandidatesVS, UpdateTrafficSplit, SplitWithoutRules, WriteVS
<1>3. /\ DOMAIN MarkAssessmentUpdate(w) = WorkerFields
      /\ DOMAIN MarkTargetsFound(w) = WorkerFields
      /\ \A tag : DOMAIN MarkRoutingRulesError(w, tag) = WorkerFields
  BY <1>1, MarkedGo
<1>4. /\ AfterTargets(MarkTargetsFound(w)).pc \in {"iterate", "complete", "end"}
      /\ Iterated(MarkAssessmentUpdate(w)).pc \in {"complete", "end"}
  BY <1>3, PlacesGo
<1>5. \A tag : Goto(MarkRoutingRulesError(w, tag), "end").pc = "end"
  BY <1>3, GotoKeeps
<1>6. QED
  BY <1>2, <1>4, <1>5

LEMMA AbortGoes ==
  ASSUME IInv, AnalyticsFails \/ \E r : Abort(r)
  PROVE  w'.pc \in {"complete", "end"}
<1>1. DOMAIN w = WorkerFields
  BY DEF IInv, WorkerInv
<1>2. CASE AnalyticsFails
  BY <1>1, <1>2, MarkedGo, PlacesGo DEF AnalyticsFails
<1>3. ASSUME NEW r, Abort(r) PROVE w'.pc \in {"complete", "end"}
  <2>1. \E i : w' = AfterUpdate([w EXCEPT !.inst = i])
    BY <1>3 DEF Abort
  <2>2. \A i : DOMAIN [w EXCEPT !.inst = i] = WorkerFields
    BY <1>1, MarkedGo
  <2>3. QED
    BY <2>1, <2>2, PlacesGo
<1>4. QED
  BY <1>2, <1>3

LEMMA IterationGoes ==
  ASSUME IInv, IterateWithoutCriteria \/ \E r : FollowRecommendation(r)
  PROVE  w'.pc \in {"split", "complete", "end"}
<1>1. DOMAIN w = WorkerFields
  BY DEF IInv, WorkerInv
<1>2. CASE IterateWithoutCriteria
  <2>1. \E f : w' = Iterated(w) \/ w' = Goto([w EXCEPT !.inst.status.weights = f], "split")
    BY <1>2 DEF IterateWithoutCriteria
  <2>2. \A f : DOMAIN [w EXCEPT !.inst.status.weights = f] = WorkerFields
    BY <1>1
  <2>3. QED
    BY <1>1, <2>1, <2>2, PlacesGo
<1>3. ASSUME NEW r, FollowRecommendation(r) PROVE w'.pc \in {"split", "complete", "end"}
  <2> DEFINE v == [w EXCEPT !.inst.status.winner = r.winner]
             m == MarkAssessmentUpdate(v)
             X(f) == [m EXCEPT !.inst.status.weights = f]
  <2>1. \E f : \/ w' = Goto(MarkAnalyticsServiceError(X(f)), "end")
               \/ w' = Goto(MarkAnalyticsServiceRunning(X(f)), "split")
               \/ w' = Iterated(MarkAnalyticsServiceRunning(X(f)))
    BY <1>3 DEF FollowRecommendation
  <2>2. DOMAIN v = WorkerFields
    BY <1>1
  <2> HIDE DEF v
  <2>3. DOMAIN m = WorkerFields
    BY <2>2, MarkedGo
  <2> HIDE DEF m
  <2>4. \A f : DOMAIN X(f) = WorkerFields
    BY <2>3
  <2> HIDE DEF X
  <2>5. \A f : /\ DOMAIN MarkAnalyticsServiceError(X(f)) = WorkerFields
               /\ DOMAIN MarkAnalyticsServiceRunning(X(f)) = WorkerFields
    BY <2>4, MarkedGo
  <2>6. QED
    BY <2>1, <2>5, PlacesGo
<1>4. QED
  BY <1>2, <1>3

LEMMA OpensGo ==
  ASSUME IInv
  PROVE  /\ UpdateBaselineDR => w'.pc \in {"baselineVS", "end"}
         /\ UpdateBaselineVS => w'.pc \in {"candidates", "end"}
         /\ UpdateCandidatesDR => w'.pc \in {"candidatesVS", "end"}
<1>1. DOMAIN w = WorkerFields
  BY DEF IInv, WorkerInv
<1>2. Goto(MarkRoutingRulesError(w, "UpdateError"), "end").pc = "end"
  BY <1>1, MarkedGo, GotoKeeps
<1>3. Goto(w, "baselineVS").pc = "baselineVS" /\ Goto(w, "candidatesVS").pc = "candidatesVS"
  BY <1>1, GotoKeeps
<1>4. UpdateBaselineVS => w'.pc \in {"candidates", "end"}
  <2> DEFINE y == [w EXCEPT !.inst.status.weights[0] = 100]
  <2>1. DOMAIN y = WorkerFields
    BY <1>1
  <2>2. UpdateBaselineVS => \/ w' = Goto(y, "candidates")
                            \/ w' = Goto(MarkRoutingRulesError(w, "UpdateError"), "end")
    BY DEF UpdateBaselineVS, WriteVS
  <2> HIDE DEF y
  <2>3. Goto(y, "candidates").pc = "candidates"
    BY <2>1, GotoKeeps
  <2>4. QED
    BY <1>2, <2>2, <2>3
<1>5. QED
  BY <1>2, <1>3, <1>4 DEF UpdateBaselineDR, UpdateCandidatesDR, WriteDR

LEMMA ClosingGoes ==
  ASSUME IInv,
         RefuseRules \/ Complete \/ CleanupTargets \/ CleanupDR \/ CleanupVS \/ End
  PROVE  w'.pc \in {"idle", "end", "abandonTargets", "cleanupTargets", "cleanupDR", "cleanupVS",
                    "unfinalize"}
<1> DEFINE m == MarkRoutingRulesError(w, "GetError")
           y == Goto(w, "unfinalize")
<1>1. DOMAIN w = WorkerFields /\ Idle.pc = "idle"
  BY DEF IInv, WorkerInv, Idle
<1>2. DOMAIN m = WorkerFields /\ DOMAIN MarkExperimentCompleted(w) = WorkerFields
  BY <1>1, MarkedGo
<1>3. DOMAIN y = WorkerFields /\ y.pc = "unfinalize"
  BY <1>1, GotoKeeps
<1>4. \/ w' = Idle
      \/ w' = [y EXCEPT !.taken = FALSE]
      \/ \E pc \in {"end", "abandonTargets", "cleanupTargets", "cleanupDR", "cleanupVS",
                    "unfinalize"} :
           \/ w' = Goto([m EXCEPT !.taken = FALSE], pc)
           \/ w' = Goto([w EXCEPT !.taken = FALSE], pc)
           \/ w' = Goto(w, pc)
           \/ w' = Goto(MarkExperimentCompleted(w), pc)
  BY DEF RefuseRules, Complete, CleanupTargets, CleanupDR, CleanupVS, End, CleanupFails
<1> HIDE DEF m, y
<1>5. /\ DOMAIN [m EXCEPT !.taken = FALSE] = WorkerFields
      /\ DOMAIN [w EXCEPT !.taken = FALSE] = WorkerFields
      /\ [y EXCEPT !.taken = FALSE].pc = "unfinalize"
  BY <1>1, <1>2, <1>3 DEF WorkerFields
<1>6. ASSUME NEW pc
      PROVE  /\ Goto([m EXCEPT !.taken = FALSE], pc).pc = pc
             /\ Goto([w EXCEPT !.taken = FALSE], pc).pc = pc
             /\ Goto(w, pc).pc = pc
             /\ Goto(MarkExperimentCompleted(w), pc).pc = pc
  <2>1. Goto([m EXCEPT !.taken = FALSE], pc).pc = pc
    BY <1>5, GotoKeeps
  <2>2. Goto([w EXCEPT !.taken = FALSE], pc).pc = pc
    BY <1>5, GotoKeeps
  <2>3. Goto(w, pc).pc = pc
    BY <1>1, GotoKeeps
  <2>4. Goto(MarkExperimentCompleted(w), pc).pc = pc
    BY <1>2, GotoKeeps
  <2>5. QED
    BY <2>1, <2>2, <2>3, <2>4
<1>7. QED
  BY <1>1, <1>4, <1>5, <1>6, ZenonT(60)

\* The steps of the others leave the worker where it is, or stop it.
LEMMA OthersStay ==
  ASSUME IInv, [Next]_vars, ~Reconcile
  PROVE  \/ w' = Idle
         \/ \E e \in Experiments : Fetch(e)
         \/ /\ UNCHANGED ruleVars
            /\ w'.pc = w.pc /\ w'.e = w.e
            /\ DOMAIN w' = DOMAIN w
            /\ IsCopy(w.inst) => /\ w'.inst.spec = w.inst.spec
                                 /\ w'.inst.deleting = w.inst.deleting
                                 /\ w'.inst.finalizer = w.inst.finalizer
                                 /\ \A f \in StatusFields \ {"lastUpdate"} :
                                      w'.inst.status[f] = w.inst.status[f]
<1>1. DOMAIN w = WorkerFields
  BY DEF IInv, WorkerInv
<1>2. CASE UNCHANGED <<ruleVars, w>>
  BY <1>2
<1>3. CASE Crash
  BY <1>3 DEF Crash, Restart
<1>4. ASSUME NEW e \in Experiments, IntervalElapses(e)
      PROVE  /\ UNCHANGED ruleVars
             /\ w'.pc = w.pc /\ w'.e = w.e
             /\ DOMAIN w' = DOMAIN w
             /\ IsCopy(w.inst) => /\ w'.inst.spec = w.inst.spec
                                  /\ w'.inst.deleting = w.inst.deleting
                                  /\ w'.inst.finalizer = w.inst.finalizer
                                  /\ \A f \in StatusFields \ {"lastUpdate"} :
                                       w'.inst.status[f] = w.inst.status[f]
  <2>1. \/ w' = w \/ w' = [w EXCEPT !.inst = [w.inst EXCEPT !.status.lastUpdate = "past"]]
        \/ w' = [w EXCEPT !.inst = w.inst]
    BY <1>4 DEF IntervalElapses
  <2>2. UNCHANGED ruleVars
    BY <1>4 DEF IntervalElapses
  <2>3. QED
    BY <1>1, <2>1, <2>2 DEF WorkerFields, IsCopy, ObjectFields, StatusFields
<1>5. ASSUME NEW e, NEW new, Edit(e, new)
      PROVE  UNCHANGED ruleVars /\ (w' = w \/ w' = [w EXCEPT !.fresh = FALSE])
  BY <1>5 DEF Edit
<1>6. CASE \E e \in Experiments :
             UserCreates(e) \/ UserDeletes(e) \/ \E o \in UserOverrides : UserOverridesTo(e, o)
  <2>1. UNCHANGED ruleVars /\ (w' = w \/ w' = [w EXCEPT !.fresh = FALSE])
    BY <1>5, <1>6 DEF UserCreates, UserDeletes, UserOverridesTo
  <2>2. QED
    BY <1>1, <2>1 DEF WorkerFields
<1>7. CASE \/ \E e \in Experiments : Deliver(e) \/ TimerFires(e)
           \/ \E t \in Targets :
                HandleTargetEvent(t) \/ EnqueueOwner(t) \/ UserCreatesTarget(t) \/ UserDeletesTarget(t)
           \/ UNCHANGED vars
  BY <1>2, <1>7
  DEF Deliver, TimerFires, HandleTargetEvent, EnqueueOwner, UserCreatesTarget, UserDeletesTarget,
      vars
<1>8. QED
  BY <1>3, <1>4, <1>6, <1>7 DEF Next, Environment

\* How the worker gets where the rules are opened and split.
OpeningPcs == {"baselineVS", "candidates", "candidatesVS", "split"}

Lingers ==
  /\ UNCHANGED ruleVars /\ w'.pc = w.pc /\ w'.e = w.e
  /\ IsCopy(w.inst) => w'.inst.status.weights = w.inst.status.weights

LEMMA FetchGoes ==
  ASSUME NEW e, Fetch(e)
  PROVE  w'.pc \in EarlyPcs
<1> DEFINE x == [Idle EXCEPT !.e = e, !.inst = cached[e], !.fresh = e \in current,
                             !.taken = TRUE]
<1>1. \E pc \in EarlyPcs : w' = Goto(x, pc)
  BY DEF Fetch, EarlyPcs
<1>2. DOMAIN x = WorkerFields
  BY DEF Idle, WorkerFields
<1> HIDE DEF x
<1>3. QED
  BY <1>1, <1>2, GotoKeeps

LEMMA Entries ==
  ASSUME IInv, [Next]_vars, w'.pc \in OpeningPcs
  PROVE  \/ w'.pc = "baselineVS" /\ UpdateBaselineDR
         \/ w'.pc = "candidates" /\ UpdateBaselineVS
         \/ w'.pc = "candidatesVS" /\ UpdateCandidatesDR
         \/ w'.pc = "split" /\ (\/ IterateWithoutCriteria
                                \/ \E r \in Responses : FollowRecommendation(r))
         \/ Lingers
<1>1. CASE ~Reconcile
  <2>1. CASE w' = Idle
    BY <2>1 DEF Idle, OpeningPcs
  <2>2. CASE \E e \in Experiments : Fetch(e)
    BY <2>2, FetchGoes DEF EarlyPcs, OpeningPcs
  <2>3. QED
    BY <1>1, <2>1, <2>2, OthersStay DEF Lingers, StatusFields
<1>2. CASE \/ SaveInitStatus \/ AddFinalizer \/ StartFinalize \/ Reject \/ Begin
           \/ NotFound \/ SkipCompleted \/ SavePause \/ SaveResume \/ Unfinalize
           \/ MetricsUnreadable \/ SyncMetrics
  BY <1>2, OpeningGoes, RegisterGoes, SavesGo DEF OpeningPcs
<1>3. CASE \/ UseRules \/ DetectTargets \/ MissingCandidate
           \/ UpdateCandidatesVS \/ UpdateTrafficSplit \/ SplitWithoutRules
           \/ AnalyticsFails \/ \E r : Abort(r)
  BY <1>3, TargetsGo, WritesGo, AbortGoes DEF OpeningPcs
<1>4. CASE RefuseRules \/ Complete \/ CleanupTargets \/ CleanupDR \/ CleanupVS \/ End
  BY <1>4, ClosingGoes DEF OpeningPcs
<1>5. CASE UpdateBaselineDR \/ UpdateBaselineVS \/ UpdateCandidatesDR
  BY <1>5, OpensGo DEF OpeningPcs
<1>6. CASE IterateWithoutCriteria \/ \E r \in Responses : FollowRecommendation(r)
  BY <1>6, IterationGoes DEF OpeningPcs
<1>7. QED
  BY <1>1, <1>2, <1>3, <1>4, <1>5, <1>6 DEF Reconcile

-----------------------------------------------------------------------------
(* The places the worker's steps leave alone or touch in one way only.     *)

Sets ==
  /\ current \subseteq Experiments /\ notify \subseteq Experiments /\ queue \subseteq Experiments
  /\ exists \subseteq Targets /\ announced \subseteq Targets /\ marked \subseteq Targets
  /\ timer \in [Experiments -> {"none", "waiting", "early"}]

Owners ==
  /\ service2Experiment \in [Services -> Experiments \cup {None}]
  /\ deployment2Experiment \in [Deployments -> Experiments \cup {None}]

TimerStep ==
  timer' = timer \/ RequeueSoon(w.e) \/ RequeueAfter(w.e) \/ StampIteration(w)

WorkerStep ==
  /\ UNCHANGED <<queue, marked, announced>> /\ exists' \subseteq exists
  /\ current' \subseteq current /\ notify' \subseteq notify \cup {w.e}
  /\ TimerStep

LEMMA QuietMoves ==
  ASSUME UNCHANGED <<apiVars, queue, marked, announced>>, exists' \subseteq exists, TimerStep
  PROVE  WorkerStep
  BY DEF WorkerStep, apiVars

LEMMA StoreMoves ==
  ASSUME NEW new, Store(w.e, new) \/ UNCHANGED apiVars,
         UNCHANGED <<queue, marked, targetVars>>, TimerStep
  PROVE  WorkerStep
  BY DEF WorkerStep, Store, apiVars, targetVars

LEMMA UpdateMoves ==
  ASSUME \E outcome : UpdateStatus(outcome) \/ \E i : Update(outcome, i),
         UNCHANGED <<queue, marked, targetVars>>, TimerStep
  PROVE  WorkerStep
<1>1. UNCHANGED apiVars \/ \E new : Store(w.e, new)
  BY DEF UpdateStatus, Update
<1>2. QED
  BY <1>1, StoreMoves

LEMMA ReconcileMoves ==
  ASSUME Reconcile
  PROVE  Restart \/ WorkerStep
<1>1. CASE \/ NotFound \/ StartFinalize \/ SkipCompleted
           \/ UseRules \/ RefuseRules \/ DetectTargets \/ MissingCandidate
  BY <1>1, QuietMoves
  DEF NotFound, StartFinalize, SkipCompleted, UseRules, RefuseRules, DetectTargets,
      MissingCandidate, targetVars, TimerStep
<1>2. CASE UpdateBaselineDR \/ UpdateBaselineVS \/ UpdateCandidatesDR \/ UpdateCandidatesVS
  BY <1>2, QuietMoves
  DEF UpdateBaselineDR, UpdateBaselineVS, UpdateCandidatesDR, UpdateCandidatesVS, WriteDR, WriteVS,
      targetVars, TimerStep
<1>3. CASE IterateWithoutCriteria \/ AnalyticsFails
  BY <1>3, QuietMoves DEF IterateWithoutCriteria, AnalyticsFails, targetVars, TimerStep
<1>4. CASE \E r \in Responses : Abort(r) \/ FollowRecommendation(r)
  BY <1>4, QuietMoves DEF Abort, FollowRecommendation, targetVars, TimerStep
<1>5. CASE SplitWithoutRules \/ UpdateTrafficSplit \/ Complete
  BY <1>5, QuietMoves DEF SplitWithoutRules, UpdateTrafficSplit, Complete, targetVars, TimerStep
<1>6. CASE CleanupTargets
  BY <1>6, QuietMoves DEF CleanupTargets, targetVars, TimerStep
<1>7. CASE CleanupDR \/ CleanupVS
  BY <1>7, QuietMoves DEF CleanupDR, CleanupVS, CleanupFails, targetVars, TimerStep
<1>8. CASE SaveInitStatus
  <2>1. \E new : Store(w.e, new) \/ UNCHANGED apiVars
    BY <1>8 DEF SaveInitStatus
  <2>2. QED
    BY <1>8, <2>1, StoreMoves DEF SaveInitStatus, TimerStep
<1>9. CASE AddFinalizer \/ SavePause \/ SaveResume \/ SyncMetrics \/ Unfinalize
  <2>1. \E outcome : UpdateStatus(outcome) \/ \E i : Update(outcome, i)
    BY <1>9 DEF AddFinalizer, SavePause, SaveResume, SyncMetrics, Unfinalize
  <2>2. UNCHANGED <<queue, marked, targetVars>> /\ TimerStep
    BY <1>9 DEF AddFinalizer, SavePause, SaveResume, SyncMetrics, Unfinalize, TimerStep
  <2>3. QED
    BY <2>1, <2>2, UpdateMoves
<1>10. CASE MetricsUnreadable
  <2>1. Restart \/ \E new : Store(w.e, new) \/ UNCHANGED apiVars
    BY <1>10 DEF MetricsUnreadable
  <2>2. QED
    BY <1>10, <2>1, StoreMoves DEF MetricsUnreadable, TimerStep
<1>11. CASE Reject \/ Begin
  BY <1>11, QuietMoves DEF Reject, Begin, targetVars, TimerStep
<1>12. CASE End
  <2>1. UNCHANGED <<queue, marked, targetVars>> /\ TimerStep
    BY <1>12 DEF End, TimerStep
  <2>2. CASE w.statusUpdate
    BY <1>12, <2>1, <2>2, UpdateMoves DEF End
  <2>3. CASE ~w.statusUpdate
    BY <1>12, <2>1, <2>3, QuietMoves DEF End, targetVars
  <2>4. QED BY <2>2, <2>3
<1>13. QED
  BY <1>1, <1>2, <1>3, <1>4, <1>5, <1>6, <1>7, <1>8, <1>9, <1>10, <1>11, <1>12 DEF Reconcile

LEMMA RestartSets ==
  ASSUME IInv, Sets, Restart
  PROVE  Sets'
  BY DEF Sets, Restart

LEMMA ReconcileSets ==
  ASSUME IInv, Sets, Reconcile
  PROVE  Sets'
<1>1. CASE Restart
  BY <1>1, RestartSets
<1>2. CASE ~Restart
  <2>1. WorkerStep
    BY <1>2, ReconcileMoves
  <2>2. w.pc # "idle"
    BY DEF Reconcile, NotFound, SaveInitStatus, AddFinalizer, StartFinalize, SkipCompleted, Reject,
           Begin, ToReconcile, SavePause, SaveResume, MetricsUnreadable, SyncMetrics, UseRules,
           RefuseRules, DetectTargets, UpdateBaselineDR, UpdateBaselineVS, MissingCandidate,
           UpdateCandidatesDR, UpdateCandidatesVS, IterateWithoutCriteria, AnalyticsFails, Abort,
           FollowRecommendation, SplitWithoutRules, UpdateTrafficSplit, Complete, CleanupTargets,
           CleanupDR, CleanupVS, End, Unfinalize, At
  <2>3. w.e \in Experiments
    BY <2>2, HereWorker
  <2>4. timer' \in [Experiments -> {"none", "waiting", "early"}]
    BY <2>1, <2>3
    DEF WorkerStep, TimerStep, RequeueSoon, RequeueAfter, StampIteration, Sets
  <2>5. QED
    BY <2>1, <2>3, <2>4 DEF WorkerStep, Sets
<1>3. QED
  BY <1>1, <1>2

LEMMA OwnerKnown ==
  ASSUME Owners, NEW t \in Targets
  PROVE  Cache!OwnerOf(t) \in Experiments \cup {None}
  BY DEF Owners, Targets, Cache!OwnerOf

LEMMA EditSets ==
  ASSUME Sets, NEW e \in Experiments, NEW new, Edit(e, new)
  PROVE  Sets'
  BY DEF Sets, Edit, Store, targetVars

LEMMA StepsKeepSets ==
  ASSUME IInv, Sets, Owners, [Next]_vars
  PROVE  Sets'
<1>1. CASE Reconcile
  BY <1>1, ReconcileSets
<1>2. ASSUME NEW e \in Experiments,
             Fetch(e) \/ Deliver(e) \/ IntervalElapses(e) \/ TimerFires(e)
      PROVE  Sets'
  BY <1>2 DEF Sets, Fetch, Deliver, IntervalElapses, TimerFires, apiVars, targetVars
<1>3. ASSUME NEW t \in Targets, HandleTargetEvent(t) \/ EnqueueOwner(t)
      PROVE  Sets'
  BY <1>3, OwnerKnown DEF Sets, HandleTargetEvent, EnqueueOwner, apiVars, targetVars
<1>4. ASSUME NEW e \in Experiments,
             UserCreates(e) \/ UserDeletes(e) \/ \E o \in UserOverrides : UserOverridesTo(e, o)
      PROVE  Sets'
  BY <1>4, EditSets DEF UserCreates, UserDeletes, UserOverridesTo
<1>5. ASSUME NEW t \in Targets, UserCreatesTarget(t) \/ UserDeletesTarget(t)
      PROVE  Sets'
  BY <1>5 DEF Sets, UserCreatesTarget, UserDeletesTarget, apiVars
<1>6. CASE Crash
  BY <1>6, RestartSets DEF Crash
<1>7. CASE UNCHANGED vars
  BY <1>7 DEF Sets, vars, apiVars, targetVars
<1>8. QED
  BY <1>1, <1>2, <1>3, <1>4, <1>5, <1>6, <1>7 DEF Next, Environment

\* Registrations, removals and restarts are all that change the lookups.
LEMMA StepsKeepOwners ==
  ASSUME IInv, Owners, [Next]_vars
  PROVE  Owners'
<1>1. CASE UNCHANGED Cache!vars
  BY <1>1 DEF Cache!vars, Owners
<1>2. CASE Cache!Restart
  BY <1>2 DEF Cache!Restart, Owners
<1>3. CASE \/ \E t \in Targets : Cache!Map(t) \/ \E found \in BOOLEAN : Cache!Mark(t, found)
           \/ \E e \in Experiments : Cache!Enqueue(e) \/ Cache!Take(e) \/ Cache!Drop(e)
           \/ \E e \in Experiments, spec \in Cache!TargetSpecs : Cache!Reject(e, spec)
  BY <1>3
  DEF Cache!Map, Cache!Mark, Cache!MarkTarget, Cache!Enqueue, Cache!Take, Cache!Drop, Cache!Reject,
      Cache!cacheVars, Owners
<1>4. ASSUME NEW e \in Experiments, Cache!Remove(e)
      PROVE  Owners'
  BY <1>4 DEF Cache!Remove, Cache!RemoveExperiment, Cache!cacheVars, Owners
<1>5. ASSUME NEW e \in Experiments, NEW spec \in Cache!TargetSpecs, Cache!Register(e, spec)
      PROVE  Owners'
  BY <1>5 DEF Cache!Register, Cache!RegisterExperiment, Owners
<1>6. QED
  BY <1>1, <1>2, <1>3, <1>4, <1>5, StepUses DEF Uses, Cache!Next, Targets

-----------------------------------------------------------------------------
(* The rules.                                                              *)

WritesRules ==
  \/ UpdateBaselineDR \/ UpdateBaselineVS \/ UpdateCandidatesDR \/ UpdateCandidatesVS
  \/ UpdateTrafficSplit \/ CleanupDR \/ CleanupVS

LEMMA RulesQuiet ==
  ASSUME [Next]_vars
  PROVE  UNCHANGED ruleVars \/ WritesRules
<1>1. CASE \/ NotFound \/ SaveInitStatus \/ AddFinalizer \/ StartFinalize \/ SkipCompleted
           \/ SavePause \/ SaveResume \/ SyncMetrics \/ UseRules \/ RefuseRules
           \/ DetectTargets \/ MissingCandidate \/ IterateWithoutCriteria \/ AnalyticsFails
  BY <1>1
  DEF NotFound, SaveInitStatus, AddFinalizer, StartFinalize, SkipCompleted, SavePause, SaveResume,
      SyncMetrics, UseRules, RefuseRules, DetectTargets, MissingCandidate,
      IterateWithoutCriteria, AnalyticsFails
<1>2. CASE \/ \E r \in Responses : Abort(r) \/ FollowRecommendation(r)
           \/ SplitWithoutRules \/ Complete \/ CleanupTargets \/ End \/ Unfinalize
  BY <1>2
  DEF Abort, FollowRecommendation, SplitWithoutRules, Complete, CleanupTargets, End, Unfinalize
<1>3. CASE Reject \/ Begin \/ MetricsUnreadable \/ Crash
  BY <1>3 DEF Reject, Begin, MetricsUnreadable, Crash, Restart
<1>4. CASE \E e \in Experiments :
             \/ Fetch(e) \/ Deliver(e) \/ IntervalElapses(e) \/ TimerFires(e)
             \/ UserCreates(e) \/ UserDeletes(e) \/ \E o \in UserOverrides : UserOverridesTo(e, o)
  BY <1>4
  DEF Fetch, Deliver, IntervalElapses, TimerFires, UserCreates, UserDeletes, UserOverridesTo, Edit
<1>5. CASE \/ \E t \in Targets :
               HandleTargetEvent(t) \/ EnqueueOwner(t) \/ UserCreatesTarget(t) \/ UserDeletesTarget(t)
           \/ UNCHANGED vars
  BY <1>5
  DEF HandleTargetEvent, EnqueueOwner, UserCreatesTarget, UserDeletesTarget, vars
<1>6. QED
  BY <1>1, <1>2, <1>3, <1>4, <1>5 DEF Next, Reconcile, Environment, WritesRules

LabelFields == {"role", "init", "experiment"}
KnownLabels(l) ==
  DOMAIN l = LabelFields /\ l.role \in RuleRoles /\ l.experiment \in Experiments \cup {None}
FullRule(r) == "labels" \in DOMAIN r /\ KnownLabels(r.labels)
KnownRule(r) == r = None \/ FullRule(r)
KnownRules == \A s \in Services : KnownRule(dr[s]) /\ KnownRule(vs[s])

\* What the worker wrote earlier in the request is still there.
Readied(x, d, v) ==
  /\ x.pc = "baselineVS" => FullRule(d)
  /\ x.pc \in {"candidates", "candidatesVS"} => FullRule(d) /\ FullRule(v)

LEMMA BaselineRulesFull ==
  ASSUME NEW r, KnownRule(r), NEW e \in Experiments, NEW spec
  PROVE  /\ FullRule(BaselineDestinationRule(r, e, spec))
         /\ FullRule(BaselineVirtualService(r, e, spec))
<1> DEFINE l == [(IF r = None THEN NewLabels(e) ELSE r.labels) EXCEPT !.experiment = e]
<1>1. KnownLabels(l)
  BY DEF KnownRule, FullRule, KnownLabels, LabelFields, NewLabels, RuleRoles
<1>2. BaselineDestinationRule(r, e, spec).labels = l /\ BaselineVirtualService(r, e, spec).labels = l
  BY DEF BaselineDestinationRule, BaselineVirtualService
<1>3. /\ "labels" \in DOMAIN BaselineDestinationRule(r, e, spec)
      /\ "labels" \in DOMAIN BaselineVirtualService(r, e, spec)
  BY DEF BaselineDestinationRule, BaselineVirtualService
<1> HIDE DEF l
<1>4. QED
  BY <1>1, <1>2, <1>3 DEF FullRule

LEMMA CandidatesRulesFull ==
  ASSUME NEW r, FullRule(r), NEW spec
  PROVE  /\ FullRule(CandidatesDestinationRule(r, spec))
         /\ FullRule(CandidatesVirtualService(r))
         /\ \A k : FullRule(SplitVirtualService(r, spec, k))
<1> DEFINE p == [r.labels EXCEPT !.role = "progressing"]
<1>1. KnownLabels(p) /\ KnownLabels(r.labels) /\ "labels" \in DOMAIN r
  BY DEF FullRule, KnownLabels, LabelFields, RuleRoles
<1>2. /\ CandidatesDestinationRule(r, spec).labels = p
      /\ "labels" \in DOMAIN CandidatesDestinationRule(r, spec)
  BY DEF CandidatesDestinationRule
<1>3. CandidatesVirtualService(r).labels = p /\ "labels" \in DOMAIN CandidatesVirtualService(r)
  BY <1>1 DEF CandidatesVirtualService
<1>4. \A k : /\ SplitVirtualService(r, spec, k).labels = r.labels
             /\ "labels" \in DOMAIN SplitVirtualService(r, spec, k)
  BY <1>1 DEF SplitVirtualService
<1> HIDE DEF p
<1>5. QED
  BY <1>1, <1>2, <1>3, <1>4 DEF FullRule

LEMMA StableRulesFull ==
  ASSUME NEW r, NEW k
  PROVE  /\ FullRule(StableDestinationRule(r, k))
         /\ \A o, f : FullRule(StableVirtualService(r, k, o, f))
<1>1. KnownLabels(StableLabels)
  BY DEF KnownLabels, LabelFields, StableLabels, RuleRoles
<1>2. FullRule(StableDestinationRule(r, k))
  BY <1>1 DEF StableDestinationRule, FullRule
<1>3. \A o, f : FullRule(StableVirtualService(r, k, o, f))
  BY <1>1 DEF StableVirtualService, FullRule
<1>4. QED BY <1>2, <1>3

LEMMA WriteKnown ==
  ASSUME IInv, KnownRules, w.e \in Experiments,
         NEW r, KnownRule(r), dr' = dr \/ dr' = [dr EXCEPT ![Svc(w)] = r],
         NEW q, KnownRule(q), vs' = vs \/ vs' = [vs EXCEPT ![Svc(w)] = q]
  PROVE  KnownRules'
  BY DEF IInv, RulesInv, KnownRules

WritePcs == {"baselineDR", "baselineVS", "candidates", "candidatesVS", "split", "cleanupDR",
             "cleanupVS"}

\* Where the rules are written the worker has an experiment and its service.
LEMMA HereWrites ==
  ASSUME IInv, w.pc \in WritePcs
  PROVE  /\ DOMAIN w = WorkerFields /\ w.e \in Experiments /\ Svc(w) \in Services
         /\ SpecAt(w) = SpecOf[w.e] /\ DOMAIN dr = Services /\ DOMAIN vs = Services
<1>1. w.pc # "idle"
  BY DEF WritePcs
<1>2. DOMAIN w = WorkerFields /\ w.e \in Experiments
  BY <1>1, HereWorker
<1>3. Svc(w) \in Services /\ SpecAt(w) = SpecOf[w.e]
  BY <1>2, SpecAssumption DEF Svc, SpecAt, ExperimentSpecs
<1>4. QED
  BY <1>2, <1>3 DEF IInv, RulesInv

LEMMA WritesHere ==
  ASSUME WritesRules
  PROVE  w.pc \in WritePcs
  BY DEF WritesRules, UpdateBaselineDR, UpdateBaselineVS, UpdateCandidatesDR,
         UpdateCandidatesVS, UpdateTrafficSplit, CleanupDR, CleanupVS, At, WritePcs

LEMMA StepsKeepKnown ==
  ASSUME IInv, KnownRules, Readied(w, dr[Svc(w)], vs[Svc(w)]), [Next]_vars
  PROVE  KnownRules'
<1> DEFINE d == dr[Svc(w)]
           v == vs[Svc(w)]
           e == w.e
           spec == SpecAt(w)
<1>1. CASE UNCHANGED ruleVars
  BY <1>1 DEF KnownRules, ruleVars
<1>2. CASE WritesRules
  <2>1. e \in Experiments /\ Svc(w) \in Services
    BY <1>2, WritesHere, HereWrites
  <2>2. KnownRule(d) /\ KnownRule(v) /\ KnownRule(None)
    BY <2>1 DEF KnownRules, KnownRule
  <2>3. CASE UpdateBaselineDR
    <3>1. KnownRule(BaselineDestinationRule(d, e, spec))
      BY <2>1, <2>2, BaselineRulesFull DEF KnownRule
    <3>2. QED
      BY <2>1, <2>2, <2>3, <3>1, WriteKnown DEF UpdateBaselineDR, WriteDR
  <2>4. CASE UpdateBaselineVS
    <3>1. KnownRule(BaselineVirtualService(v, e, spec))
      BY <2>1, <2>2, BaselineRulesFull DEF KnownRule
    <3>2. QED
      BY <2>1, <2>2, <2>4, <3>1, WriteKnown DEF UpdateBaselineVS, WriteVS
  <2>5. CASE UpdateCandidatesDR
    <3>1. FullRule(d)
      BY <2>5 DEF UpdateCandidatesDR, At, Readied
    <3>2. KnownRule(CandidatesDestinationRule(d, spec))
      BY <3>1, CandidatesRulesFull DEF KnownRule
    <3>3. QED
      BY <2>1, <2>2, <2>5, <3>2, WriteKnown DEF UpdateCandidatesDR, WriteDR
  <2>6. CASE UpdateCandidatesVS
    <3>1. FullRule(v)
      BY <2>6 DEF UpdateCandidatesVS, At, Readied
    <3>2. KnownRule(CandidatesVirtualService(v))
      BY <3>1, CandidatesRulesFull DEF KnownRule
    <3>3. QED
      BY <2>1, <2>2, <2>6, <3>2, WriteKnown DEF UpdateCandidatesVS, WriteVS
  <2>7. CASE UpdateTrafficSplit
    <3> DEFINE q == SplitVirtualService(v, spec, w.inst.status.weights)
    <3>1. v # None /\ (vs' = vs \/ vs' = [vs EXCEPT ![Svc(w)] = q]) /\ dr' = dr
      BY <2>7 DEF UpdateTrafficSplit
    <3>2. FullRule(v)
      BY <2>2, <3>1 DEF KnownRule
    <3>3. KnownRule(q)
      BY <3>2, CandidatesRulesFull DEF KnownRule
    <3> HIDE DEF q
    <3>4. QED
      BY <2>1, <2>2, <3>1, <3>3, WriteKnown
  <2>8. CASE CleanupDR
    <3> DEFINE q == StableDestinationRule(d, Stable(w))
    <3>1. vs' = vs /\ (\/ dr' = dr \/ dr' = [dr EXCEPT ![Svc(w)] = None]
                       \/ dr' = [dr EXCEPT ![Svc(w)] = q])
      BY <2>8 DEF CleanupDR, CleanupFails, ruleVars
    <3>2. KnownRule(q)
      BY StableRulesFull DEF KnownRule
    <3> HIDE DEF q
    <3>3. QED
      BY <2>1, <2>2, <3>1, <3>2, WriteKnown
  <2>9. CASE CleanupVS
    <3> DEFINE q == StableVirtualService(v, Stable(w), w.inst.spec.onTermination,
                                         w.inst.status.weights)
    <3>1. dr' = dr /\ (\/ vs' = vs \/ vs' = [vs EXCEPT ![Svc(w)] = None]
                       \/ vs' = [vs EXCEPT ![Svc(w)] = q])
      BY <2>9 DEF CleanupVS, CleanupFails, ruleVars
    <3>2. KnownRule(q)
      BY StableRulesFull DEF KnownRule
    <3> HIDE DEF q
    <3>3. QED
      BY <2>1, <2>2, <3>1, <3>2, WriteKnown
  <2>10. QED
    BY <1>2, <2>3, <2>4, <2>5, <2>6, <2>7, <2>8, <2>9 DEF WritesRules
<1>3. QED
  BY <1>1, <1>2, RulesQuiet

\* The rules as the worker finds them.
RulesOpened == Readied(w, dr[Svc(w)], vs[Svc(w)])

\* A write that leads on was made, for the same experiment.
LEMMA OpensWrite ==
  ASSUME IInv
  PROVE  /\ UpdateBaselineDR /\ w'.pc # "end" =>
              /\ w'.e = w.e /\ w'.inst = w.inst /\ vs' = vs
              /\ dr' = [dr EXCEPT ![Svc(w)] =
                          BaselineDestinationRule(dr[Svc(w)], w.e, SpecAt(w))]
         /\ UpdateBaselineVS /\ w'.pc # "end" =>
              /\ w'.e = w.e /\ dr' = dr
              /\ vs' = [vs EXCEPT ![Svc(w)] =
                          BaselineVirtualService(vs[Svc(w)], w.e, SpecAt(w))]
         /\ UpdateCandidatesDR /\ w'.pc # "end" =>
              /\ w'.e = w.e /\ w'.inst = w.inst /\ vs' = vs
              /\ dr' = [dr EXCEPT ![Svc(w)] = CandidatesDestinationRule(dr[Svc(w)], SpecAt(w))]
<1>1. DOMAIN w = WorkerFields
  BY DEF IInv, WorkerInv
<1>2. Goto(MarkRoutingRulesError(w, "UpdateError"), "end").pc = "end"
  BY <1>1, MarkedGo, GotoKeeps
<1>3. \A pc : Goto(w, pc).e = w.e /\ Goto(w, pc).inst = w.inst
  BY <1>1 DEF Goto, WorkerFields
<1>4. UpdateBaselineVS /\ w'.pc # "end" =>
        /\ w'.e = w.e /\ dr' = dr
        /\ vs' = [vs EXCEPT ![Svc(w)] = BaselineVirtualService(vs[Svc(w)], w.e, SpecAt(w))]
  <2> DEFINE y == [w EXCEPT !.inst.status.weights[0] = 100]
             q == BaselineVirtualService(vs[Svc(w)], w.e, SpecAt(w))
  <2>1. DOMAIN y = WorkerFields /\ y.e = w.e
    BY <1>1 DEF WorkerFields
  <2>2. UpdateBaselineVS =>
          /\ dr' = dr
          /\ \/ w' = Goto(MarkRoutingRulesError(w, "UpdateError"), "end")
             \/ w' = Goto(y, "candidates") /\ vs' = [vs EXCEPT ![Svc(w)] = q]
    BY DEF UpdateBaselineVS, WriteVS
  <2> HIDE DEF y, q
  <2>3. Goto(y, "candidates").e = w.e
    BY <2>1 DEF Goto, WorkerFields
  <2>4. QED
    BY <1>2, <2>2, <2>3 DEF q
<1>5. QED
  BY <1>2, <1>3, <1>4 DEF UpdateBaselineDR, UpdateCandidatesDR, WriteDR

LEMMA StepsKeepOpened ==
  ASSUME IInv, KnownRules, RulesOpened, [Next]_vars
  PROVE  RulesOpened'
<1>1. CASE w'.pc \notin OpeningPcs
  BY <1>1 DEF RulesOpened, Readied, OpeningPcs
<1>2. CASE w'.pc \in OpeningPcs
  <2> DEFINE e == w.e
             spec == SpecAt(w)
             d == dr[Svc(w)]
             v == vs[Svc(w)]
  <2>1. ASSUME w.pc \in WritePcs
        PROVE  e \in Experiments /\ Svc(w) \in Services /\ KnownRule(d) /\ KnownRule(v)
               /\ DOMAIN dr = Services /\ DOMAIN vs = Services
    BY <2>1, HereWrites DEF KnownRules
  <2>2. CASE w'.pc = "baselineVS" /\ UpdateBaselineDR
    <3> DEFINE q == BaselineDestinationRule(d, e, spec)
    <3>1. w.pc \in WritePcs
      BY <2>2 DEF UpdateBaselineDR, At, WritePcs
    <3>2. w'.e = e /\ dr' = [dr EXCEPT ![Svc(w)] = q]
      BY <2>2, OpensWrite
    <3>3. FullRule(q)
      BY <2>1, <3>1, BaselineRulesFull
    <3> HIDE DEF q
    <3>4. FullRule(dr'[Svc(w)'])
      BY <2>1, <3>1, <3>2, <3>3 DEF Svc, SpecAt
    <3>5. QED
      BY <2>2, <3>4 DEF RulesOpened, Readied
  <2>3. CASE w'.pc = "candidates" /\ UpdateBaselineVS
    <3> DEFINE q == BaselineVirtualService(v, e, spec)
    <3>1. w.pc = "baselineVS" /\ w.pc \in WritePcs
      BY <2>3 DEF UpdateBaselineVS, At, WritePcs
    <3>2. w'.e = e /\ dr' = dr /\ vs' = [vs EXCEPT ![Svc(w)] = q]
      BY <2>3, OpensWrite
    <3>3. FullRule(q) /\ FullRule(d)
      BY <2>1, <3>1, BaselineRulesFull DEF RulesOpened, Readied
    <3> HIDE DEF q
    <3>4. FullRule(dr'[Svc(w)']) /\ FullRule(vs'[Svc(w)'])
      BY <2>1, <3>1, <3>2, <3>3 DEF Svc, SpecAt
    <3>5. QED
      BY <2>3, <3>4 DEF RulesOpened, Readied
  <2>4. CASE w'.pc = "candidatesVS" /\ UpdateCandidatesDR
    <3> DEFINE q == CandidatesDestinationRule(d, spec)
    <3>1. w.pc = "candidates" /\ w.pc \in WritePcs
      BY <2>4 DEF UpdateCandidatesDR, At, WritePcs
    <3>2. w'.e = e /\ vs' = vs /\ dr' = [dr EXCEPT ![Svc(w)] = q]
      BY <2>4, OpensWrite
    <3>3. FullRule(d) /\ FullRule(v)
      BY <3>1 DEF RulesOpened, Readied
    <3>4. FullRule(q)
      BY <3>3, CandidatesRulesFull
    <3> HIDE DEF q
    <3>5. FullRule(dr'[Svc(w)']) /\ FullRule(vs'[Svc(w)'])
      BY <2>1, <3>1, <3>2, <3>3, <3>4 DEF Svc, SpecAt
    <3>6. QED
      BY <2>4, <3>5 DEF RulesOpened, Readied
  <2>5. CASE w'.pc = "split"
    BY <2>5 DEF RulesOpened, Readied
  <2>6. CASE Lingers
    BY <2>6 DEF Lingers, RulesOpened, Readied, Svc, SpecAt, ruleVars
  <2>7. QED
    BY <1>2, <2>2, <2>3, <2>4, <2>5, <2>6, Entries
<1>3. QED
  BY <1>1, <1>2

-----------------------------------------------------------------------------
(* Types.                                                                  *)

TypesInv ==
  /\ IInv /\ ObjectsFit /\ WorkerFits(w)
  /\ Sets /\ Owners /\ KnownRules /\ RulesOpened

LEMMA TypesInvTypeOK ==
  ASSUME TypesInv
  PROVE  TypeOK
<1>1. ASSUME NEW e \in Experiments, NEW o \in {stored[e], cached[e]}, o # None
      PROVE  IsObject(e, o)
  <2>1. stored[e] # None => IsCopy(stored[e]) /\ Formed(e, stored[e])
    BY DEF TypesInv, IInv, ObjectsInv, Sound, ObjectsFit
  <2>2. cached[e] # None => IsCopy(cached[e]) /\ Formed(e, cached[e])
    BY DEF TypesInv, IInv, ObjectsInv, Sound, ObjectsFit
  <2>3. IsCopy(o) /\ Formed(e, o)
    BY <1>1, <2>1, <2>2
  <2>4. QED
    BY <2>3, FormedObject
<1>2. ASSUME w.inst # None
      PROVE  w.e \in Experiments /\ IsObject(w.e, w.inst)
  <2>1. Fits(w)
    BY <1>2 DEF TypesInv, WorkerFits, Idle
  <2>2. QED
    BY <2>1, FormedObject DEF Fits
<1>3. ASSUME NEW r, KnownRule(r)
      PROVE  IsRule(r)
  BY <1>3 DEF KnownRule, FullRule, KnownLabels, IsRule
<1>4. \A s \in Services : IsRule(dr[s]) /\ IsRule(vs[s])
  BY <1>3 DEF TypesInv, KnownRules
<1>5. Sets
  BY DEF TypesInv
<1>6. QED
  BY <1>1, <1>2, <1>4, <1>5 DEF TypeOK, Sets

LEMMA InitTypes ==
  ASSUME Init
  PROVE  TypesInv
<1>1. IInv
  BY InitInv
<1>2. ObjectsFit /\ WorkerFits(w)
  BY DEF Init, ObjectsFit, WorkerFits
<1>3. Sets
  BY SpecAssumption DEF Init, Sets
<1>4. Owners
  BY DEF Init, Cache!CacheInit, Owners
<1>5. KnownRules
  <2>1. PICK r \in [Services -> InitialRules] :
          dr = [s \in Services |-> r[s].dr] /\ vs = [s \in Services |-> r[s].vs]
    BY DEF Init
  <2>2. KnownLabels(StableLabels)
    BY DEF KnownLabels, LabelFields, StableLabels, RuleRoles
  <2>3. ASSUME NEW q \in InitialRules
        PROVE  KnownRule(q.dr) /\ KnownRule(q.vs)
    <3>1. CASE q.dr = None /\ q.vs = None
      BY <3>1 DEF KnownRule
    <3>2. CASE ~(q.dr = None /\ q.vs = None)
      <4>1. /\ "labels" \in DOMAIN q.dr /\ "labels" \in DOMAIN q.vs
            /\ {q.dr.labels, q.vs.labels} = {StableLabels}
        BY <3>2, SpecAssumption
      <4>2. q.dr.labels = StableLabels /\ q.vs.labels = StableLabels
        BY <4>1
      <4>3. QED
        BY <2>2, <4>1, <4>2 DEF KnownRule, FullRule
    <3>3. QED BY <3>1, <3>2
  <2>4. \A s \in Services : dr[s] = r[s].dr /\ vs[s] = r[s].vs /\ r[s] \in InitialRules
    BY <2>1
  <2>5. QED
    BY <2>3, <2>4 DEF KnownRules
<1>6. RulesOpened
  BY DEF Init, RulesOpened, Readied, Idle
<1>7. QED
  BY <1>1, <1>2, <1>3, <1>4, <1>5, <1>6 DEF TypesInv

\* Each experiment has criteria, so that its weights come from the analytics service.
CriteriaOnly == \A e \in Experiments : SpecOf[e].criteria

LEMMA CriteriaShare ==
  ASSUME IInv, CriteriaOnly
  PROVE  ShareFits
  BY HereWorker DEF ShareFits, CriteriaOnly, SpecAt, At

LEMMA NextTypes ==
  ASSUME TypesInv, InputsFit, ShareFits, [Next]_vars
  PROVE  TypesInv'
<1>1. IInv'
  BY NextInv DEF TypesInv
<1>2. StepFits
  BY StepsFit DEF TypesInv
<1>3. Sets' /\ Owners'
  BY StepsKeepSets, StepsKeepOwners DEF TypesInv
<1>4. KnownRules' /\ RulesOpened'
  BY StepsKeepKnown, StepsKeepOpened DEF TypesInv, RulesOpened
<1>5. QED
  BY <1>1, <1>2, <1>3, <1>4 DEF TypesInv, StepFits

(***************************************************************************)
(* Every variable always holds a value of its type, whatever fails, races, *)
(* is deleted or lost: weights stay between 0 and 100, no iteration is     *)
(* counted beyond the one above the maximum, and each condition reports    *)
(* one of its errors.  The weights are those of an analytics service; what *)
(* an iteration without criteria may add to a weight is another matter.    *)
(***************************************************************************)
THEOREM TypesKept ==
  ASSUME InputsFit, CriteriaOnly
  PROVE  Spec => []TypeOK
<1>1. TypesInv /\ [Next]_vars => TypesInv'
  <2> SUFFICES ASSUME TypesInv, [Next]_vars PROVE TypesInv'
    OBVIOUS
  <2>1. ShareFits
    BY CriteriaShare DEF TypesInv
  <2>2. QED
    BY <2>1, NextTypes
<1>2. Init => TypesInv
  BY InitTypes
<1>3. TypesInv => TypeOK
  BY TypesInvTypeOK
<1>4. QED
  BY <1>1, <1>2, <1>3, PTL DEF Spec

-----------------------------------------------------------------------------
(* Traffic.                                                                *)

HasRoutes(v) == "routes" \in DOMAIN v
Whole(v) == HasRoutes(v) /\ (v.labels.role # "stable" => TotalWeight(v) = 100)
RoutesWhole == \A s \in Services : vs[s] = None \/ Whole(vs[s])

\* What the worker is about to make progressing rules, or to split, adds up.
Prepared ==
  /\ w.pc \in {"candidates", "candidatesVS"} =>
       HasRoutes(vs[Svc(w)]) /\ TotalWeight(vs[Svc(w)]) = 100
  /\ w.pc = "split" =>
       SumFunctionOnSet(w.inst.status.weights, Versions(SpecAt(w))) = 100

\* The weights of an answer that names one for each version it does not roll back.
Answered(spec, r) ==
  [v \in Versions(spec) |-> IF v \in r.rollback THEN 0 ELSE r.weights[v]]
AnswersWhole ==
  \A e \in Experiments : \A r \in Responses :
    LET spec == SpecOf[e] IN
    /\ r.rollback # Versions(spec) \ {0}
    /\ Recommended(spec, r) = Versions(spec)
    => SumFunctionOnSet(Answered(spec, r), Versions(spec)) = 100

LEMMA BaselineWhole ==
  ASSUME NEW e \in Experiments, NEW r
  PROVE  LET v == BaselineVirtualService(r, e, SpecOf[e]) IN
         HasRoutes(v) /\ TotalWeight(v) = 100 /\ Whole(v)
<1> DEFINE v == BaselineVirtualService(r, e, SpecOf[e])
<1>1. TotalWeight(v) = 100
  BY SpecNumbers, BaselineTotal
<1>2. HasRoutes(v)
  BY DEF BaselineVirtualService, HasRoutes
<1> HIDE DEF v
<1>3. Whole(v)
  BY <1>1, <1>2 DEF Whole
<1>4. QED
  BY <1>1, <1>2, <1>3 DEF v

LEMMA CandidatesWhole ==
  ASSUME NEW v, HasRoutes(v), TotalWeight(v) = 100
  PROVE  Whole(CandidatesVirtualService(v))
<1> DEFINE q == CandidatesVirtualService(v)
<1>1. HasRoutes(q) /\ q.routes = v.routes
  BY DEF CandidatesVirtualService, HasRoutes
<1> HIDE DEF q
<1>2. TotalWeight(q) = 100
  BY <1>1 DEF TotalWeight
<1>3. QED
  BY <1>1, <1>2 DEF Whole, q

LEMMA SplitWhole ==
  ASSUME NEW e \in Experiments, NEW v, HasRoutes(v),
         NEW k \in [Versions(SpecOf[e]) -> 0..100],
         SumFunctionOnSet(k, Versions(SpecOf[e])) = 100
  PROVE  Whole(SplitVirtualService(v, SpecOf[e], k))
<1> DEFINE q == SplitVirtualService(v, SpecOf[e], k)
           f == Split(SpecOf[e], k)
<1>1. q = [v EXCEPT !.routes = f]
  BY DEF SplitVirtualService, Split
<1>2. \A u \in Versions(SpecOf[e]) : k[u] \in Nat
  OBVIOUS
<1>3. SumFunction(f) = 100
  BY <1>2, SpecNumbers, SplitTotal
<1> HIDE DEF f
<1>4. HasRoutes(q) /\ q.routes = f
  BY <1>1 DEF HasRoutes
<1> HIDE DEF q
<1>5. TotalWeight(q) = 100
  BY <1>3, <1>4 DEF TotalWeight
<1>6. QED
  BY <1>4, <1>5 DEF Whole, q

LEMMA StableWhole ==
  ASSUME NEW v, NEW k, NEW o, NEW f
  PROVE  Whole(StableVirtualService(v, k, o, f))
  BY DEF StableVirtualService, StableLabels, HasRoutes, Whole

LEMMA WriteWhole ==
  ASSUME IInv, RoutesWhole, w.pc \in WritePcs,
         NEW q, q = None \/ Whole(q), vs' = vs \/ vs' = [vs EXCEPT ![Svc(w)] = q]
  PROVE  RoutesWhole'
  BY HereWrites DEF RoutesWhole

LEMMA StepsKeepWhole ==
  ASSUME TypesInv, RoutesWhole, Prepared, [Next]_vars
  PROVE  RoutesWhole'
<1>1. CASE UNCHANGED ruleVars
  BY <1>1 DEF RoutesWhole, ruleVars
<1>2. CASE WritesRules
  <2> DEFINE spec == SpecAt(w)
             v == vs[Svc(w)]
             k == w.inst.status.weights
  <2>1. IInv /\ w.pc \in WritePcs
    BY <1>2, WritesHere DEF TypesInv
  <2>2. w.e \in Experiments /\ Svc(w) \in Services /\ SpecAt(w) = SpecOf[w.e]
    BY <2>1, HereWrites
  <2>3. v = None \/ Whole(v)
    BY <2>2 DEF RoutesWhole
  <2>4. CASE UpdateBaselineDR \/ UpdateCandidatesDR
    BY <2>4 DEF UpdateBaselineDR, UpdateCandidatesDR, WriteDR, RoutesWhole
  <2>5. CASE UpdateBaselineVS
    <3> DEFINE q == BaselineVirtualService(v, w.e, spec)
    <3>1. Whole(q)
      BY <2>2, BaselineWhole
    <3>2. vs' = vs \/ vs' = [vs EXCEPT ![Svc(w)] = q]
      BY <2>5 DEF UpdateBaselineVS, WriteVS
    <3> HIDE DEF q
    <3>3. QED
      BY <2>1, <3>1, <3>2, WriteWhole
  <2>6. CASE UpdateCandidatesVS
    <3> DEFINE q == CandidatesVirtualService(v)
    <3>1. HasRoutes(v) /\ TotalWeight(v) = 100
      BY <2>6 DEF UpdateCandidatesVS, At, Prepared
    <3>2. Whole(q)
      BY <3>1, CandidatesWhole
    <3>3. vs' = vs \/ vs' = [vs EXCEPT ![Svc(w)] = q]
      BY <2>6 DEF UpdateCandidatesVS, WriteVS
    <3> HIDE DEF q
    <3>4. QED
      BY <2>1, <3>2, <3>3, WriteWhole
  <2>7. CASE UpdateTrafficSplit
    <3> DEFINE q == SplitVirtualService(v, spec, k)
    <3>1. w.pc = "split" /\ v # None /\ (vs' = vs \/ vs' = [vs EXCEPT ![Svc(w)] = q])
      BY <2>7 DEF UpdateTrafficSplit, At
    <3>2. Fits(w)
      BY <3>1, HereFits DEF TypesInv
    <3>3. k \in [Versions(SpecOf[w.e]) -> 0..100]
      BY <3>2 DEF Fits, Formed
    <3>4. SumFunctionOnSet(k, Versions(SpecOf[w.e])) = 100 /\ HasRoutes(v)
      BY <2>2, <2>3, <3>1 DEF Prepared, Whole
    <3>5. Whole(q)
      BY <2>2, <3>3, <3>4, SplitWhole
    <3> HIDE DEF q
    <3>6. QED
      BY <2>1, <3>1, <3>5, WriteWhole
  <2>8. CASE CleanupDR
    BY <2>8 DEF CleanupDR, CleanupFails, ruleVars, RoutesWhole
  <2>9. CASE CleanupVS
    <3> DEFINE q == StableVirtualService(v, Stable(w), w.inst.spec.onTermination,
                                         w.inst.status.weights)
    <3>1. \/ vs' = vs \/ vs' = [vs EXCEPT ![Svc(w)] = None]
          \/ vs' = [vs EXCEPT ![Svc(w)] = q]
      BY <2>9 DEF CleanupVS, CleanupFails, ruleVars
    <3>2. Whole(q)
      BY StableWhole
    <3> HIDE DEF q
    <3>3. QED
      BY <2>1, <3>1, <3>2, WriteWhole
  <2>10. QED
    BY <1>2, <2>4, <2>5, <2>6, <2>7, <2>8, <2>9 DEF WritesRules
<1>3. QED
  BY <1>1, <1>2, RulesQuiet

\* The answer that leads to a split has weights for all versions.
LEMMA AnswerPrepares ==
  ASSUME TypesInv, InputsFit, AnswersWhole, NEW r \in Responses, FollowRecommendation(r),
         w'.pc = "split"
  PROVE  w'.e = w.e /\ SumFunctionOnSet(w'.inst.status.weights, Versions(SpecAt(w))) = 100
<1> DEFINE spec == SpecAt(w)
           k == w.inst.status.weights
           m == MarkAssessmentUpdate([w EXCEPT !.inst.status.winner = r.winner])
           f == [v \in Versions(spec) |->
                   IF v \notin Recommended(spec, r) THEN k[v]
                   ELSE IF v \in r.rollback THEN 0 ELSE r.weights[v]]
           y == [m EXCEPT !.inst.status.weights = f]
           z == MarkAnalyticsServiceRunning(y)
<1>1. IInv /\ Fits(w) /\ w.e \in Experiments
  BY HereFits DEF FollowRecommendation, At, TypesInv, Fits
<1>2. m.inst.status.weights = k
  BY <1>1 DEF MarkAssessmentUpdate, MarkPhase, Fits, IsCopy, ObjectFields, StatusFields,
              WorkerFields
<1>3. \/ w' = Goto(MarkAnalyticsServiceError(y), "end")
      \/ w' = Goto(z, "split") /\ Recommended(spec, r) = Versions(spec)
      \/ w' = Iterated(z)
  BY <1>2 DEF FollowRecommendation
<1>4. k \in [Versions(spec) -> 0..100]
  BY <1>1 DEF Fits, Formed, SpecAt
<1>5. f \in [Versions(spec) -> 0..100]
  BY <1>1, <1>4, RecommendedFit, SpecAssumption DEF SpecAt
<1>6. Recommended(spec, r) = Versions(spec) => f = Answered(spec, r)
  BY DEF Answered
<1>7. r.rollback # Versions(spec) \ {0}
  BY DEF FollowRecommendation
<1>8. r.winner \in Versions(SpecOf[w.e]) \cup {None}
  BY <1>1 DEF InputsFit
<1> HIDE DEF f
<1>9. Fits(y) /\ Fits(z) /\ z.e = w.e /\ z.inst.status.weights = f
  <2>1. Fits(w)
    BY <1>1
  <2>2. f \in [Versions(SpecOf[w.e]) -> 0..100]
    BY <1>5 DEF SpecAt
  <2>3. QED
    BY <2>1, <2>2, <1>8, AnswerKeeps, SMTT(60)
<1> HIDE DEF y, z
<1>10. DOMAIN MarkAnalyticsServiceError(y) = WorkerFields /\ DOMAIN z = WorkerFields
  BY <1>9, MarkedGo DEF Fits
<1>11. w' = Goto(z, "split") /\ Recommended(spec, r) = Versions(spec)
  <2>1. Goto(MarkAnalyticsServiceError(y), "end").pc = "end"
    BY <1>10, GotoKeeps
  <2>2. Iterated(z).pc \in {"complete", "end"}
    BY <1>10, PlacesGo
  <2>3. QED
    BY <1>3, <2>1, <2>2
<1>12. w'.e = w.e /\ w'.inst.status.weights = f
  BY <1>9, <1>10, <1>11 DEF Goto, WorkerFields
<1>13. SumFunctionOnSet(Answered(spec, r), Versions(spec)) = 100
  BY <1>1, <1>7, <1>11 DEF AnswersWhole, SpecAt
<1>14. QED
  BY <1>6, <1>11, <1>12, <1>13

LEMMA StepsKeepPrepared ==
  ASSUME TypesInv, InputsFit, CriteriaOnly, AnswersWhole, RoutesWhole, Prepared, [Next]_vars
  PROVE  Prepared'
<1>1. CASE w'.pc \notin OpeningPcs \/ w'.pc = "baselineVS"
  BY <1>1 DEF Prepared, OpeningPcs
<1>2. CASE w'.pc = "candidates" /\ UpdateBaselineVS
  <2> DEFINE q == BaselineVirtualService(vs[Svc(w)], w.e, SpecAt(w))
  <2>1. IInv /\ w.pc \in WritePcs
    BY <1>2 DEF UpdateBaselineVS, At, WritePcs, TypesInv
  <2>2. w'.e = w.e /\ vs' = [vs EXCEPT ![Svc(w)] = q]
    BY <1>2, <2>1, OpensWrite
  <2>3. HasRoutes(q) /\ TotalWeight(q) = 100
    BY <2>1, HereWrites, BaselineWhole
  <2> HIDE DEF q
  <2>4. vs'[Svc(w)'] = q
    BY <2>1, <2>2, HereWrites DEF Svc, SpecAt
  <2>5. QED
    BY <1>2, <2>3, <2>4 DEF Prepared
<1>3. CASE w'.pc = "candidatesVS" /\ UpdateCandidatesDR
  <2>1. IInv /\ w.pc = "candidates"
    BY <1>3 DEF UpdateCandidatesDR, At, TypesInv
  <2>2. w'.e = w.e /\ vs' = vs
    BY <1>3, <2>1, OpensWrite
  <2>3. vs'[Svc(w)'] = vs[Svc(w)]
    BY <2>2 DEF Svc, SpecAt
  <2>4. QED
    BY <1>3, <2>1, <2>3 DEF Prepared
<1>4. CASE w'.pc = "split" /\ IterateWithoutCriteria
  <2>1. IInv /\ w.pc # "idle" /\ ~SpecAt(w).criteria
    BY <1>4 DEF IterateWithoutCriteria, At, TypesInv
  <2>2. QED
    BY <2>1, HereWorker DEF CriteriaOnly, SpecAt
<1>5. CASE w'.pc = "split" /\ \E r \in Responses : FollowRecommendation(r)
  <2>1. w'.e = w.e /\ SumFunctionOnSet(w'.inst.status.weights, Versions(SpecAt(w))) = 100
    BY <1>5, AnswerPrepares
  <2>2. SpecAt(w)' = SpecAt(w)
    BY <2>1 DEF SpecAt
  <2>3. QED
    BY <1>5, <2>1, <2>2 DEF Prepared
<1>6. CASE Lingers /\ w'.pc \in OpeningPcs
  <2>1. SpecAt(w)' = SpecAt(w) /\ vs'[Svc(w)'] = vs[Svc(w)] /\ w'.pc = w.pc
    BY <1>6 DEF Lingers, SpecAt, Svc, ruleVars
  <2>2. w'.inst.status.weights = w.inst.status.weights
    BY <1>6, HereFits DEF Lingers, TypesInv, Fits, OpeningPcs
  <2>3. QED
    BY <2>1, <2>2 DEF Prepared
<1>7. QED
  BY <1>1, <1>2, <1>3, <1>4, <1>5, <1>6, Entries DEF TypesInv

LEMMA InitWhole ==
  ASSUME Init
  PROVE  RoutesWhole /\ Prepared
<1>1. PICK r \in [Services -> InitialRules] : vs = [s \in Services |-> r[s].vs]
  BY DEF Init
<1>2. ASSUME NEW q \in InitialRules
      PROVE  q.vs = None \/ Whole(q.vs)
  <2>1. CASE q.vs # None
    <3>1. "routes" \in DOMAIN q.vs /\ {q.dr.labels, q.vs.labels} = {StableLabels}
      BY <2>1, SpecAssumption
    <3>2. q.vs.labels = StableLabels
      BY <3>1
    <3>3. QED
      BY <3>1, <3>2 DEF Whole, HasRoutes, StableLabels
  <2>2. QED BY <2>1
<1>3. \A s \in Services : vs[s] = r[s].vs /\ r[s] \in InitialRules
  BY <1>1
<1>4. RoutesWhole
  BY <1>2, <1>3 DEF RoutesWhole
<1>5. Prepared
  BY DEF Init, Prepared, Idle
<1>6. QED
  BY <1>4, <1>5

(***************************************************************************)
(* While an experiment runs, the routes of its VirtualService add up to    *)
(* 100, if the weights of each complete answer of the analytics service    *)
(* do: for any number of candidates, whatever fails between the write of   *)
(* the one rule and of the other, and wherever a crash, a pause or a lost  *)
(* target leaves the rules for the next request to find.                   *)
(***************************************************************************)
THEOREM TrafficKept ==
  ASSUME InputsFit, CriteriaOnly, AnswersWhole
  PROVE  Spec => []TrafficConserved
<1> DEFINE Inv == TypesInv /\ RoutesWhole /\ Prepared
<1>1. Inv /\ [Next]_vars => Inv'
  <2> SUFFICES ASSUME Inv, [Next]_vars PROVE Inv'
    OBVIOUS
  <2>1. TypesInv'
    BY CriteriaShare, NextTypes DEF TypesInv
  <2>2. RoutesWhole' /\ Prepared'
    BY StepsKeepWhole, StepsKeepPrepared
  <2>3. QED
    BY <2>1, <2>2
<1>2. Init => Inv
  BY InitTypes, InitWhole
<1>3. Inv => TrafficConserved
  BY DEF RoutesWhole, Whole, TrafficConserved
<1> HIDE DEF Inv
<1>4. QED
  BY <1>1, <1>2, <1>3, PTL DEF Spec
-----------------------------------------------------------------------------
(* Where the shares of the traffic go.                                     *)

Names(spec) == {Subset(v) : v \in Versions(spec)}
FirstSubset(spec) == [n \in {Subset(0)} |-> spec.baseline]
AllSubsets(spec) ==
  [n \in Names(spec) |-> IF n = Subset(0) THEN spec.baseline ELSE spec.candidates[n[2]]]

\* Progressing rules are those of one experiment, complete.
Served(d, v) ==
  IsProgressing(d, v) =>
    \E e \in Experiments :
      /\ d.labels.experiment = e /\ v.labels.experiment = e
      /\ d.subsets = AllSubsets(SpecOf[e])
      /\ HasRoutes(v) /\ DOMAIN v.routes = Names(SpecOf[e])
AllServed == \A s \in Services : Served(dr[s], vs[s])

\* What the worker has written of the rules it is about to make progressing.
Laid(x, d, v) ==
  /\ x.pc \in {"baselineDR", "baselineVS", "candidates"} => ~IsProgressing(d, v)
  /\ x.pc \in {"baselineVS", "candidates"} => d.subsets = FirstSubset(SpecAt(x))
  /\ x.pc = "candidatesVS" => d.subsets = AllSubsets(SpecAt(x))
  /\ x.pc \in {"candidates", "candidatesVS"} =>
       HasRoutes(v) /\ DOMAIN v.routes = Names(SpecAt(x))
RulesLaid == Laid(w, dr[Svc(w)], vs[Svc(w)])

LEMMA BaselineWrites ==
  ASSUME NEW e \in Experiments, NEW r
  PROVE  LET d == BaselineDestinationRule(r, e, SpecOf[e])
             v == BaselineVirtualService(r, e, SpecOf[e])
         IN /\ d.subsets = FirstSubset(SpecOf[e])
            /\ HasRoutes(v) /\ DOMAIN v.routes = Names(SpecOf[e])
  BY DEF BaselineDestinationRule, BaselineVirtualService, FirstSubset, HasRoutes, Names

LEMMA CandidatesWrite ==
  ASSUME NEW e \in Experiments, NEW d, d.subsets = FirstSubset(SpecOf[e])
  PROVE  CandidatesDestinationRule(d, SpecOf[e]).subsets = AllSubsets(SpecOf[e])
<1> DEFINE spec == SpecOf[e]
           new == CandidatesDestinationRule(d, spec)
           all == DOMAIN d.subsets \cup {Subset(v) : v \in Versions(spec) \ {0}}
<1>1. 0 \in Versions(spec)
  BY SpecNumbers, VersionsFinite
<1>2. DOMAIN d.subsets = {Subset(0)} /\ d.subsets[Subset(0)] = spec.baseline
  BY DEF FirstSubset
<1>3. all = Names(spec)
  BY <1>1, <1>2 DEF Names
<1>4. new.subsets = [n \in all |-> IF n \in DOMAIN d.subsets THEN d.subsets[n]
                                   ELSE spec.candidates[n[2]]]
  BY DEF CandidatesDestinationRule
<1>5. \A n \in Names(spec) : new.subsets[n] = AllSubsets(spec)[n]
  BY <1>2, <1>3, <1>4 DEF AllSubsets
<1>6. QED
  BY <1>3, <1>4, <1>5 DEF AllSubsets

LEMMA WriteServed ==
  ASSUME IInv, AllServed, w.pc \in WritePcs,
         NEW d, (dr' = dr /\ d = dr[Svc(w)]) \/ dr' = [dr EXCEPT ![Svc(w)] = d],
         NEW v, (vs' = vs /\ v = vs[Svc(w)]) \/ vs' = [vs EXCEPT ![Svc(w)] = v],
         Served(d, v)
  PROVE  AllServed'
<1>1. DOMAIN dr = Services /\ DOMAIN vs = Services
  BY HereWrites
<1>2. \A s \in Services : \/ dr'[s] = dr[s] /\ vs'[s] = vs[s]
                          \/ dr'[s] = d /\ vs'[s] = v
  BY <1>1
<1>3. QED
  BY <1>2 DEF AllServed

\* The labels of the rules the worker writes are its experiment's.
LEMMA HereOwned ==
  ASSUME IInv, w.pc \in WritePcs
  PROVE  Owned(w, dr[Svc(w)], vs[Svc(w)])
  BY DEF IInv, RulesInv, WritePcs

LEMMA StepsKeepServed ==
  ASSUME IInv, KnownRules, RulesOpened, AllServed, RulesLaid, [Next]_vars
  PROVE  AllServed'
<1>1. CASE UNCHANGED ruleVars
  BY <1>1 DEF AllServed, ruleVars
<1>2. CASE WritesRules
  <2> DEFINE spec == SpecAt(w)
             d == dr[Svc(w)]
             v == vs[Svc(w)]
  <2>1. w.pc \in WritePcs
    BY <1>2, WritesHere
  <2>2. w.e \in Experiments /\ Svc(w) \in Services /\ SpecAt(w) = SpecOf[w.e]
    BY <2>1, HereWrites
  <2>3. KnownRule(d) /\ KnownRule(v) /\ Served(d, v) /\ Owned(w, d, v)
    BY <2>1, <2>2, HereOwned DEF KnownRules, AllServed
  <2>4. /\ d = None \/ HasLabels(d)
        /\ v = None \/ HasLabels(v)
    BY <2>3 DEF KnownRule, FullRule, KnownLabels, LabelFields, HasLabels
  <2>5. CASE UpdateBaselineDR
    <3> DEFINE q == BaselineDestinationRule(d, w.e, spec)
    <3>1. ~IsProgressing(d, v)
      BY <2>5 DEF UpdateBaselineDR, At, RulesLaid, Laid
    <3>2. q.labels.role = "progressing" => d # None /\ d.labels.role = "progressing"
      BY <2>4, BaselineLabels
    <3>3. vs' = vs /\ (dr' = dr \/ dr' = [dr EXCEPT ![Svc(w)] = q])
      BY <2>5 DEF UpdateBaselineDR, WriteDR
    <3> HIDE DEF q
    <3>4. Served(q, v)
      BY <3>1, <3>2 DEF Served, IsProgressing
    <3>5. QED
      BY <2>1, <2>3, <3>3, <3>4, WriteServed
  <2>6. CASE UpdateBaselineVS
    <3> DEFINE q == BaselineVirtualService(v, w.e, spec)
    <3>1. ~IsProgressing(d, v)
      BY <2>6 DEF UpdateBaselineVS, At, RulesLaid, Laid
    <3>2. q.labels.role = "progressing" => v # None /\ v.labels.role = "progressing"
      BY <2>4, BaselineLabels
    <3>3. dr' = dr /\ (vs' = vs \/ vs' = [vs EXCEPT ![Svc(w)] = q])
      BY <2>6 DEF UpdateBaselineVS, WriteVS
    <3> HIDE DEF q
    <3>4. Served(d, q)
      BY <3>1, <3>2 DEF Served, IsProgressing
    <3>5. QED
      BY <2>1, <2>3, <3>3, <3>4, WriteServed
  <2>7. CASE UpdateCandidatesDR
    <3> DEFINE q == CandidatesDestinationRule(d, spec)
    <3>1. w.pc = "candidates"
      BY <2>7 DEF UpdateCandidatesDR, At
    <3>2. Labelled(q, w.e) /\ Labelled(v, w.e)
      BY <2>3, <3>1, CandidatesLabels DEF Owned
    <3>3. q.subsets = AllSubsets(spec) /\ HasRoutes(v) /\ DOMAIN v.routes = Names(spec)
      BY <2>2, <3>1, CandidatesWrite DEF RulesLaid, Laid
    <3>4. vs' = vs /\ (dr' = dr \/ dr' = [dr EXCEPT ![Svc(w)] = q])
      BY <2>7 DEF UpdateCandidatesDR, WriteDR
    <3> HIDE DEF q
    <3>5. Served(q, v)
      BY <2>2, <3>2, <3>3 DEF Served, Labelled
    <3>6. QED
      BY <2>1, <2>3, <3>4, <3>5, WriteServed
  <2>8. CASE UpdateCandidatesVS
    <3> DEFINE q == CandidatesVirtualService(v)
    <3>1. w.pc = "candidatesVS"
      BY <2>8 DEF UpdateCandidatesVS, At
    <3>2. Labelled(d, w.e) /\ Labelled(q, w.e)
      BY <2>3, <3>1, CandidatesLabels DEF Owned
    <3>3. d.subsets = AllSubsets(spec) /\ HasRoutes(v) /\ DOMAIN v.routes = Names(spec)
      BY <3>1 DEF RulesLaid, Laid
    <3>4. HasRoutes(q) /\ q.routes = v.routes
      BY <3>3 DEF CandidatesVirtualService, HasRoutes
    <3>5. dr' = dr /\ (vs' = vs \/ vs' = [vs EXCEPT ![Svc(w)] = q])
      BY <2>8 DEF UpdateCandidatesVS, WriteVS
    <3> HIDE DEF q
    <3>6. Served(d, q)
      BY <2>2, <3>2, <3>3, <3>4 DEF Served, Labelled
    <3>7. QED
      BY <2>1, <2>3, <3>5, <3>6, WriteServed
  <2>9. CASE UpdateTrafficSplit
    <3> DEFINE q == SplitVirtualService(v, spec, w.inst.status.weights)
               f == Split(spec, w.inst.status.weights)
    <3>1. /\ w.pc = "split" /\ v # None /\ dr' = dr
          /\ vs' = vs \/ vs' = [vs EXCEPT ![Svc(w)] = q]
      BY <2>9 DEF UpdateTrafficSplit, At
    <3>2. q = [v EXCEPT !.routes = f]
      BY DEF SplitVirtualService, Split
    <3>3. DOMAIN f = Names(spec)
      BY DEF Split, Names
    <3> HIDE DEF f, q
    <3>4. q.labels = v.labels
      BY <2>4, <3>1, <3>2 DEF HasLabels
    <3>5. Served(d, q)
      <4> SUFFICES ASSUME IsProgressing(d, q) PROVE Served(d, q)
        BY DEF Served
      <4>1. IsProgressing(d, v)
        BY <3>1, <3>4 DEF IsProgressing
      <4>2. d.labels.experiment = w.e /\ v.labels.experiment = w.e
        BY <2>3, <3>1, <4>1 DEF Owned, OwningPcs, Labelled
      <4>3. d.subsets = AllSubsets(SpecOf[w.e]) /\ HasRoutes(v)
        BY <2>3, <4>1, <4>2 DEF Served
      <4>4. HasRoutes(q) /\ q.routes = f
        BY <3>2, <4>3 DEF HasRoutes
      <4>5. QED
        BY <2>2, <3>3, <3>4, <4>2, <4>3, <4>4 DEF Served
    <3>6. QED
      BY <2>1, <2>3, <3>1, <3>5, WriteServed
  <2>10. CASE CleanupDR
    <3> DEFINE q == StableDestinationRule(d, Stable(w))
    <3>1. vs' = vs /\ (\/ dr' = dr \/ dr' = [dr EXCEPT ![Svc(w)] = None]
                       \/ dr' = [dr EXCEPT ![Svc(w)] = q])
      BY <2>10 DEF CleanupDR, CleanupFails, ruleVars
    <3>2. q.labels.role = "stable"
      BY StableLabelled
    <3> HIDE DEF q
    <3>3. Served(q, v) /\ Served(None, v)
      BY <3>2 DEF Served, IsProgressing
    <3>4. QED
      BY <2>1, <2>3, <3>1, <3>3, WriteServed
  <2>11. CASE CleanupVS
    <3> DEFINE q == StableVirtualService(v, Stable(w), w.inst.spec.onTermination,
                                         w.inst.status.weights)
    <3>1. dr' = dr /\ (\/ vs' = vs \/ vs' = [vs EXCEPT ![Svc(w)] = None]
                       \/ vs' = [vs EXCEPT ![Svc(w)] = q])
      BY <2>11 DEF CleanupVS, CleanupFails, ruleVars
    <3>2. q.labels.role = "stable"
      BY DEF StableVirtualService, StableLabels
    <3> HIDE DEF q
    <3>3. Served(d, q) /\ Served(d, None)
      BY <3>2 DEF Served, IsProgressing
    <3>4. QED
      BY <2>1, <2>3, <3>1, <3>3, WriteServed
  <2>12. QED
    BY <1>2, <2>5, <2>6, <2>7, <2>8, <2>9, <2>10, <2>11 DEF WritesRules
<1>3. QED
  BY <1>1, <1>2, RulesQuiet

LEMMA DetectGoes ==
  ASSUME IInv, DetectTargets, w'.pc = "baselineDR"
  PROVE  /\ w'.e = w.e /\ UNCHANGED ruleVars
         /\ ~IsProgressing(dr[Svc(w)], vs[Svc(w)])
<1>1. DOMAIN w = WorkerFields
  BY DEF IInv, WorkerInv
<1>2. \/ w' = AfterTargets(MarkTargetsFound(w))
      \/ \E tag : w' = Goto(MarkTargetsError(w, tag), "end")
      \/ w' = Goto(w, "baselineDR") /\ ~IsProgressing(dr[Svc(w)], vs[Svc(w)])
  BY DEF DetectTargets
<1>3. /\ DOMAIN MarkTargetsFound(w) = WorkerFields
      /\ \A tag : DOMAIN MarkTargetsError(w, tag) = WorkerFields
  BY <1>1, MarkedGo
<1>4. AfterTargets(MarkTargetsFound(w)).pc # "baselineDR"
  BY <1>3, PlacesGo
<1>5. \A tag : Goto(MarkTargetsError(w, tag), "end").pc = "end"
  BY <1>3, GotoKeeps
<1>6. Goto(w, "baselineDR").e = w.e
  BY <1>1 DEF Goto, WorkerFields
<1>7. UNCHANGED ruleVars
  BY DEF DetectTargets
<1>8. QED
  BY <1>2, <1>4, <1>5, <1>6, <1>7

LEMMA BaselineEntry ==
  ASSUME IInv, [Next]_vars, w'.pc = "baselineDR"
  PROVE  DetectTargets \/ Lingers
<1>1. CASE ~Reconcile
  <2>1. CASE w' = Idle
    BY <2>1 DEF Idle
  <2>2. CASE \E e \in Experiments : Fetch(e)
    BY <2>2, FetchGoes DEF EarlyPcs
  <2>3. QED
    BY <1>1, <2>1, <2>2, OthersStay DEF Lingers, StatusFields
<1>2. CASE \/ SaveInitStatus \/ AddFinalizer \/ StartFinalize \/ Reject \/ Begin
           \/ NotFound \/ SkipCompleted \/ SavePause \/ SaveResume \/ Unfinalize
           \/ MetricsUnreadable \/ SyncMetrics
  BY <1>2, OpeningGoes, RegisterGoes, SavesGo
<1>3. CASE MissingCandidate
  <2>1. DOMAIN w = WorkerFields
    BY DEF IInv, WorkerInv
  <2>2. w' = Goto(MarkTargetsError(w, Missing("Candidate")), "end")
    BY <1>3 DEF MissingCandidate
  <2>3. w'.pc = "end"
    BY <2>1, <2>2, MarkedGo, GotoKeeps
  <2>4. QED BY <2>3
<1>4. CASE UseRules \/ UpdateCandidatesVS \/ UpdateTrafficSplit \/ SplitWithoutRules
           \/ AnalyticsFails \/ \E r : Abort(r)
  BY <1>4, TargetsGo, WritesGo, AbortGoes
<1>5. CASE RefuseRules \/ Complete \/ CleanupTargets \/ CleanupDR \/ CleanupVS \/ End
  BY <1>5, ClosingGoes
<1>6. CASE UpdateBaselineDR \/ UpdateBaselineVS \/ UpdateCandidatesDR
  BY <1>6, OpensGo
<1>7. CASE IterateWithoutCriteria \/ \E r \in Responses : FollowRecommendation(r)
  BY <1>7, IterationGoes
<1>8. QED
  BY <1>1, <1>2, <1>3, <1>4, <1>5, <1>6, <1>7 DEF Reconcile

LEMMA StepsKeepLaid ==
  ASSUME IInv, KnownRules, RulesLaid, [Next]_vars
  PROVE  RulesLaid'
<1> DEFINE spec == SpecAt(w)
           d == dr[Svc(w)]
           v == vs[Svc(w)]
<1>1. ASSUME w.pc \in WritePcs
      PROVE  /\ w.e \in Experiments /\ Svc(w) \in Services /\ SpecAt(w) = SpecOf[w.e]
             /\ DOMAIN dr = Services /\ DOMAIN vs = Services
             /\ d = None \/ HasLabels(d)
             /\ v = None \/ HasLabels(v)
  <2>1. KnownRule(d) /\ KnownRule(v)
    BY <1>1, HereWrites DEF KnownRules
  <2>2. /\ d = None \/ HasLabels(d)
        /\ v = None \/ HasLabels(v)
    BY <2>1 DEF KnownRule, FullRule, KnownLabels, LabelFields, HasLabels
  <2>3. QED
    BY <1>1, <2>2, HereWrites
<1>2. CASE w'.pc \notin OpeningPcs \cup {"baselineDR"} \/ w'.pc = "split"
  BY <1>2 DEF RulesLaid, Laid, OpeningPcs
<1>3. CASE Lingers
  BY <1>3 DEF Lingers, RulesLaid, Laid, Svc, SpecAt, ruleVars
<1>4. CASE w'.pc = "baselineDR" /\ DetectTargets
  BY <1>4, DetectGoes DEF RulesLaid, Laid, Svc, SpecAt, ruleVars
<1>5. CASE w'.pc = "baselineVS" /\ UpdateBaselineDR
  <2> DEFINE q == BaselineDestinationRule(d, w.e, spec)
  <2>1. w.pc = "baselineDR" /\ w.pc \in WritePcs
    BY <1>5 DEF UpdateBaselineDR, At, WritePcs
  <2>2. ~IsProgressing(d, v)
    BY <2>1 DEF RulesLaid, Laid
  <2>3. w'.e = w.e /\ vs' = vs /\ dr' = [dr EXCEPT ![Svc(w)] = q]
    BY <1>5, OpensWrite
  <2>4. q.labels.role = "progressing" => d # None /\ d.labels.role = "progressing"
    BY <1>1, <2>1, BaselineLabels
  <2>5. q.subsets = FirstSubset(spec)
    BY <1>1, <2>1, BaselineWrites
  <2> HIDE DEF q
  <2>6. dr'[Svc(w)'] = q /\ vs'[Svc(w)'] = v /\ SpecAt(w)' = spec
    BY <1>1, <2>1, <2>3 DEF Svc, SpecAt
  <2>7. ~IsProgressing(q, v)
    BY <2>2, <2>4 DEF IsProgressing
  <2>8. QED
    BY <1>5, <2>5, <2>6, <2>7 DEF RulesLaid, Laid
<1>6. CASE w'.pc = "candidates" /\ UpdateBaselineVS
  <2> DEFINE q == BaselineVirtualService(v, w.e, spec)
  <2>1. w.pc = "baselineVS" /\ w.pc \in WritePcs
    BY <1>6 DEF UpdateBaselineVS, At, WritePcs
  <2>2. ~IsProgressing(d, v) /\ d.subsets = FirstSubset(spec)
    BY <2>1 DEF RulesLaid, Laid
  <2>3. w'.e = w.e /\ dr' = dr /\ vs' = [vs EXCEPT ![Svc(w)] = q]
    BY <1>6, OpensWrite
  <2>4. q.labels.role = "progressing" => v # None /\ v.labels.role = "progressing"
    BY <1>1, <2>1, BaselineLabels
  <2>5. HasRoutes(q) /\ DOMAIN q.routes = Names(spec)
    BY <1>1, <2>1, BaselineWrites
  <2> HIDE DEF q
  <2>6. dr'[Svc(w)'] = d /\ vs'[Svc(w)'] = q /\ SpecAt(w)' = spec
    BY <1>1, <2>1, <2>3 DEF Svc, SpecAt
  <2>7. ~IsProgressing(d, q)
    BY <2>2, <2>4 DEF IsProgressing
  <2>8. QED
    BY <1>6, <2>2, <2>5, <2>6, <2>7 DEF RulesLaid, Laid
<1>7. CASE w'.pc = "candidatesVS" /\ UpdateCandidatesDR
  <2> DEFINE q == CandidatesDestinationRule(d, spec)
  <2>1. w.pc = "candidates" /\ w.pc \in WritePcs
    BY <1>7 DEF UpdateCandidatesDR, At, WritePcs
  <2>2. d.subsets = FirstSubset(spec) /\ HasRoutes(v) /\ DOMAIN v.routes = Names(spec)
    BY <2>1 DEF RulesLaid, Laid
  <2>3. w'.e = w.e /\ vs' = vs /\ dr' = [dr EXCEPT ![Svc(w)] = q]
    BY <1>7, OpensWrite
  <2>4. q.subsets = AllSubsets(spec)
    BY <1>1, <2>1, <2>2, CandidatesWrite
  <2> HIDE DEF q
  <2>5. dr'[Svc(w)'] = q /\ vs'[Svc(w)'] = v /\ SpecAt(w)' = spec
    BY <1>1, <2>1, <2>3 DEF Svc, SpecAt
  <2>6. QED
    BY <1>7, <2>2, <2>4, <2>5 DEF RulesLaid, Laid
<1>8. QED
  BY <1>2, <1>3, <1>4, <1>5, <1>6, <1>7, Entries, BaselineEntry

LEMMA InitQuiet ==
  ASSUME Init
  PROVE  \A s \in Services : ~IsProgressing(dr[s], vs[s])
<1>1. PICK r \in [Services -> InitialRules] :
        dr = [s \in Services |-> r[s].dr] /\ vs = [s \in Services |-> r[s].vs]
  BY DEF Init
<1>2. ASSUME NEW q \in InitialRules
      PROVE  ~IsProgressing(q.dr, q.vs)
  <2>1. CASE q.vs # None
    <3>1. {q.dr.labels, q.vs.labels} = {StableLabels}
      BY <2>1, SpecAssumption
    <3>2. q.vs.labels.role = "stable"
      BY <3>1 DEF StableLabels
    <3>3. QED
      BY <3>2 DEF IsProgressing
  <2>2. QED BY <2>1 DEF IsProgressing
<1>3. QED
  BY <1>1, <1>2

LEMMA InitServed ==
  ASSUME Init
  PROVE  AllServed /\ RulesLaid
<1>1. AllServed
  BY InitQuiet DEF AllServed, Served
<1>2. RulesLaid
  BY DEF Init, RulesLaid, Laid, Idle
<1>3. QED
  BY <1>1, <1>2

LEMMA ServedReaches ==
  ASSUME AllServed
  PROVE  RunningRoutesServed
<1> SUFFICES ASSUME NEW s \in Services, IsProgressing(dr[s], vs[s])
             PROVE  LET e == vs[s].labels.experiment IN
                    /\ e \in Experiments /\ e = dr[s].labels.experiment
                    /\ \A n \in Routed(vs[s]) :
                         \E v \in Versions(SpecOf[e]) :
                           /\ n = Subset(v) /\ n \in DOMAIN dr[s].subsets
                           /\ dr[s].subsets[n] = Deployment(SpecOf[e], v)
  BY DEF RunningRoutesServed
<1> DEFINE e == vs[s].labels.experiment
           spec == SpecOf[e]
<1>1. /\ e \in Experiments /\ e = dr[s].labels.experiment
      /\ dr[s].subsets = AllSubsets(spec) /\ DOMAIN vs[s].routes = Names(spec)
  BY DEF AllServed, Served
<1>2. ASSUME NEW n \in Routed(vs[s])
      PROVE  \E v \in Versions(spec) : /\ n = Subset(v) /\ n \in DOMAIN dr[s].subsets
                                       /\ dr[s].subsets[n] = Deployment(spec, v)
  <2>1. n \in Names(spec)
    BY <1>1 DEF Routed
  <2>2. PICK v \in Versions(spec) : n = Subset(v)
    BY <2>1 DEF Names
  <2>3. v \in Nat /\ 0 \in Nat
    BY <1>1, SpecNumbers, VersionsFinite
  <2>4. AllSubsets(spec)[n] = Deployment(spec, v)
    <3>1. CASE v = 0
      BY <2>1, <2>2, <3>1 DEF AllSubsets, Deployment
    <3>2. CASE v # 0
      <4>1. n # Subset(0) /\ n[2] = v
        BY <2>2, <2>3, <3>2, SubsetsDiffer DEF Subset
      <4>2. QED
        BY <2>1, <3>2, <4>1 DEF AllSubsets, Deployment
    <3>3. QED BY <3>1, <3>2
  <2>5. QED
    BY <1>1, <2>1, <2>2, <2>4 DEF AllSubsets
<1>3. QED
  BY <1>1, <1>2

ServedInv == IInv /\ KnownRules /\ RulesOpened /\ AllServed /\ RulesLaid

LEMMA ServedHolds == Spec => []ServedInv
<1>1. ServedInv /\ [Next]_vars => ServedInv'
  <2> SUFFICES ASSUME ServedInv, [Next]_vars PROVE ServedInv'
    OBVIOUS
  <2>1. IInv /\ KnownRules /\ RulesOpened /\ AllServed /\ RulesLaid
    BY DEF ServedInv
  <2>2. IInv'
    BY <2>1, NextInv
  <2>3. KnownRules' /\ RulesOpened'
    BY <2>1, StepsKeepKnown, StepsKeepOpened DEF RulesOpened
  <2>4. AllServed' /\ RulesLaid'
    BY <2>1, StepsKeepServed, StepsKeepLaid
  <2>5. QED
    BY <2>2, <2>3, <2>4 DEF ServedInv
<1>2. Init => ServedInv
  BY InitServed, InitTypes DEF TypesInv, ServedInv
<1>3. QED
  BY <1>1, <1>2, PTL DEF Spec

(***************************************************************************)
(* While an experiment runs, every share of the traffic reaches the        *)
(* deployment its version names, for any experiments, services and numbers *)
(* of candidates, and with no assumption on the environment: the two rules *)
(* are written one after the other and become progressing with the second  *)
(* write only, wherever a request fails, is cut short or is repeated.      *)
(***************************************************************************)
THEOREM RoutesServed == Spec => []RunningRoutesServed
<1>1. ServedInv => RunningRoutesServed
  BY ServedReaches DEF ServedInv
<1>2. QED
  BY <1>1, ServedHolds, PTL

-----------------------------------------------------------------------------
(* What an experiment that is gone leaves behind, where no call fails, no  *)
(* read is stale, no target is lost, nobody edits and nothing is cleaned   *)
(* up: each of these alone leads to experiments that leave something.      *)

Steady ==
  /\ ~StaleReads
  /\ MaxOverrides = 0 /\ MaxFailures = 0 /\ MaxLosses = 0
  /\ \A e \in Experiments : ~SpecOf[e].cleanup

\* The cache holds targets for e; the rules of s are progressing on its behalf.
Claimed(e) == experimentAbstractStore[e] # None
RunsFor(s, e) == IsProgressing(dr[s], vs[s]) /\ dr[s].labels.experiment = e
Bare(e) == \A s \in Services : ~RunsFor(s, e)

\* The finalizer keeps the object until the worker has removed it.
Held(e) == stored[e] # None /\ stored[e].finalizer
AtWork(e) == Held(e) /\ ~stored[e].status.completed

Quota == budget.failures = 0 /\ budget.overrides = 0 /\ budget.losses = 0

Unborn ==
  \A e \in Experiments :
    e \in budget.uncreated => cached[e] = None /\ (w.e = e => w.pc \in {"idle", "notFound"})

Claims ==
  \A e \in Experiments :
    /\ Claimed(e) => AtWork(e)
    /\ \A s \in Services :
         RunsFor(s, e) => s = SpecOf[e].service /\ TargetsExist(e) /\ AtWork(e)

BusyPcs == RulePcs \cup UserPcs \cup {"complete", "cleanupDR", "cleanupVS"}

\* What the worker's place says of the object, the targets and the rules.
Placed(x) ==
  /\ x.pc \notin {"abandonTargets", "cleanupTargets"}
  /\ x.pc \in {"init", "finalizer"} /\ stored[x.e] # None => x.fresh
  /\ x.pc = "dispatch" =>
       Held(x.e) /\ x.inst.status.completed = stored[x.e].status.completed
  /\ x.pc \in BusyPcs => AtWork(x.e)
  /\ x.pc \in {"baselineDR", "baselineVS", "candidates"} =>
       {SpecAt(x).service, SpecAt(x).baseline} \subseteq exists
  /\ x.pc = "candidatesVS" => TargetsExist(x.e)
  /\ x.pc = "cleanupDR" => ~Claimed(x.e)
  /\ x.pc = "cleanupVS" => ~Claimed(x.e) /\ Bare(x.e)
  /\ x.pc = "end" => /\ Held(x.e)
                     /\ x.inst.deleting => Bare(x.e)
                     /\ x.inst.status.completed => ~Claimed(x.e) /\ Bare(x.e)
  /\ x.pc = "unfinalize" => Held(x.e) /\ ~Claimed(x.e) /\ Bare(x.e)

HeldInv ==
  /\ Quota /\ Unborn /\ Claims
  /\ DOMAIN experimentAbstractStore = Experiments
  /\ Placed(w)

LEMMA NothingFails ==
  ASSUME Quota, NEW ok \in BOOLEAN, MayFail(ok)
  PROVE  ok /\ UNCHANGED budget
  BY DEF Quota, MayFail

LEMMA NothingRefused ==
  ASSUME Quota, NEW outcome \in Outcomes, Spend(outcome)
  PROVE  /\ UNCHANGED budget
         /\ outcome = "failed" <=> stored[w.e] = None
         /\ w.fresh => outcome # "conflict"
         /\ outcome = "ok" => w.fresh
  BY DEF Quota, Outcomes, Spend

LEMMA ClaimsKept ==
  ASSUME Claims, exists \subseteq exists',
         \A e \in Experiments : Claimed(e)' => Claimed(e),
         \A e \in Experiments : \A s \in Services : RunsFor(s, e)' => RunsFor(s, e),
         \A e \in Experiments :
           AtWork(e) => AtWork(e)' \/ ~(Claimed(e)' \/ \E s \in Services : RunsFor(s, e)')
  PROVE  Claims'
<1> SUFFICES ASSUME NEW e \in Experiments
             PROVE  /\ Claimed(e)' => AtWork(e)'
                    /\ \A s \in Services : RunsFor(s, e)' =>
                         s = SpecOf[e].service /\ TargetsExist(e)' /\ AtWork(e)'
  BY DEF Claims
<1>1. Claimed(e)' => AtWork(e)'
  BY DEF Claims
<1>2. TargetsExist(e) => TargetsExist(e)'
  BY DEF TargetsExist
<1>3. ASSUME NEW s \in Services, RunsFor(s, e)'
      PROVE  s = SpecOf[e].service /\ TargetsExist(e)' /\ AtWork(e)'
  BY <1>2, <1>3 DEF Claims
<1>4. QED
  BY <1>1, <1>3

LEMMA QuietClaims ==
  ASSUME Claims, UNCHANGED <<stored, exists, ruleVars, cacheVars>>
  PROVE  Claims'
<1>1. \A e \in Experiments : /\ Claimed(e)' <=> Claimed(e)
                             /\ AtWork(e)' <=> AtWork(e)
                             /\ \A s \in Services : RunsFor(s, e)' <=> RunsFor(s, e)
  BY DEF Claimed, AtWork, Held, RunsFor, ruleVars, cacheVars
<1>2. exists \subseteq exists'
  OBVIOUS
<1>3. QED
  BY <1>1, <1>2, ClaimsKept

\* A step that leaves all but the worker and what is in memory alone.
LEMMA QuietHeld ==
  ASSUME HeldInv, UNCHANGED <<apiVars, exists, ruleVars, cacheVars, budget>>, Placed(w'),
         \/ w'.e = w.e /\ (w'.pc = w.pc \/ w.pc \notin {"idle", "notFound"})
         \/ w'.pc \in {"idle", "notFound"}
  PROVE  HeldInv'
<1>1. Claims'
  BY QuietClaims DEF HeldInv, apiVars
<1>2. Placed(w)'
  BY DEF Placed, Held, AtWork, Claimed, Bare, RunsFor, TargetsExist, apiVars, ruleVars, cacheVars
<1>3. Unborn'
  BY DEF HeldInv, Unborn, apiVars
<1>4. Quota' /\ DOMAIN experimentAbstractStore' = Experiments
  BY DEF HeldInv, Quota, cacheVars
<1>5. QED
  BY <1>1, <1>2, <1>3, <1>4 DEF HeldInv

\* Further on in the request, or done with it.
Calm(e, y) ==
  /\ y.e = e
  /\ \/ y.pc \in UserPcs \cup {"rules", "detect", "complete"}
     \/ y.pc = "end" /\ ~y.inst.deleting /\ ~y.inst.status.completed

LEMMA CalmPlaced ==
  ASSUME NEW e, AtWork(e), NEW y, Calm(e, y)
  PROVE  Placed(y) /\ y.pc # "idle"
  BY DEF Calm, Placed, AtWork, UserPcs, RulePcs, BusyPcs

LEMMA IdlePlaced == Placed(Idle) /\ Idle.pc = "idle"
  BY DEF Placed, Idle, BusyPcs, RulePcs, UserPcs

LEMMA CalmIs ==
  ASSUME NEW x, NEW e, NEW pc, Working(x), x.e = e,
         \/ pc \in UserPcs \cup {"rules", "detect", "complete"}
         \/ pc = "end" /\ ~x.inst.deleting
  PROVE  Calm(e, Goto(x, pc))
  BY GotoKeeps DEF Calm, Working

LEMMA CalmPlaces ==
  ASSUME NEW x, Working(x)
  PROVE  /\ Calm(x.e, AfterUpdate(x)) /\ Calm(x.e, AfterTargets(x))
         /\ Calm(x.e, AfterRules(x)) /\ Calm(x.e, AfterProceed(x))
<1>1. Calm(x.e, AfterUpdate(x))
  <2>1. CASE ToComplete(x)
    BY <2>1, CalmIs DEF AfterUpdate
  <2>2. CASE ~ToComplete(x)
    <3>1. ~x.inst.deleting
      BY <2>2 DEF ToComplete, Working
    <3>2. QED
      BY <2>2, <3>1, CalmIs DEF AfterUpdate
  <2>3. QED BY <2>1, <2>2
<1>2. Calm(x.e, AfterTargets(x))
  BY <1>1, CalmIs DEF AfterTargets, UserPcs
<1>3. Calm(x.e, AfterRules(x))
  BY <1>2, CalmIs DEF AfterRules
<1>4. Calm(x.e, AfterProceed(x))
  BY CalmIs DEF AfterProceed, UserPcs
<1>5. QED
  BY <1>1, <1>2, <1>3, <1>4

LEMMA CalmIterated ==
  ASSUME NEW x, Working(x)
  PROVE  Calm(x.e, Iterated(x))
<1> DEFINE m == MarkPhase(x, "Progressing")
           n == [m EXCEPT !.progress = TRUE]
           k == x.inst.status.iteration + 1
           y == [n EXCEPT !.inst.status.lastUpdate = "recent", !.inst.status.iteration = k]
<1>1. Works(x, m)
  BY PhasesWork
<1>2. DOMAIN n = WorkerFields /\ n.inst = m.inst /\ n.e = m.e
  BY <1>1 DEF Works, Working, WorkerFields
<1>3. k \in Nat /\ IsCopy(n.inst) /\ n.inst.status.iteration + 1 = k
  BY <1>1, <1>2 DEF Works, Working, IsCopy
<1>4. Iterated(x) = AfterUpdate(y)
  BY <1>3 DEF Iterated, MarkIterationUpdate
<1> HIDE DEF m, n, y
<1>5. /\ DOMAIN y = WorkerFields /\ IsCopy(y.inst)
      /\ y.e = n.e
      /\ y.inst.spec = n.inst.spec /\ y.inst.deleting = n.inst.deleting
      /\ y.inst.finalizer = n.inst.finalizer
      /\ y.inst.status.initialized = n.inst.status.initialized
      /\ y.inst.status.completed = n.inst.status.completed
      /\ y.inst.status.phase = n.inst.status.phase
  BY <1>2, <1>3, CountsOn, ZenonT(60) DEF y
<1>6. Working(y) /\ y.e = x.e
  BY <1>1, <1>2, <1>5 DEF Works, Working, Terminating
<1>7. QED
  BY <1>4, <1>6, CalmPlaces

-----------------------------------------------------------------------------
(* Steps of the worker that write nothing.                                 *)

QuietOnly == UNCHANGED <<apiVars, exists, ruleVars, cacheVars, budget>>

LEMMA IdleHeld ==
  ASSUME HeldInv, QuietOnly, w' = Idle
  PROVE  HeldInv'
<1>1. Placed(w') /\ w'.pc \in {"idle", "notFound"}
  BY IdlePlaced
<1>2. QED
  BY <1>1, QuietHeld DEF QuietOnly

LEMMA CalmHeld ==
  ASSUME HeldInv, QuietOnly, w.pc \notin {"idle", "notFound"}, AtWork(w.e), Calm(w.e, w')
  PROVE  HeldInv'
<1>1. Placed(w') /\ w'.e = w.e
  BY CalmPlaced DEF Calm
<1>2. QED
  BY <1>1, QuietHeld DEF QuietOnly

LEMMA EndPlaced ==
  ASSUME NEW x, Working(x), AtWork(x.e), x.inst.deleting => Bare(x.e)
  PROVE  Placed(Goto(x, "end")) /\ Goto(x, "end").e = x.e /\ Goto(x, "end").pc = "end"
<1>1. LET y == Goto(x, "end") IN y.pc = "end" /\ y.e = x.e /\ y.inst = x.inst
  BY GotoKeeps DEF Working
<1>2. QED
  BY <1>1 DEF Placed, AtWork, Working, BusyPcs, RulePcs, UserPcs

\* The worker of a request that is under way.
LEMMA HereBusy ==
  ASSUME IInv, HeldInv, w.pc \in RulePcs \cup UserPcs
  PROVE  /\ w.e \in Experiments /\ AtWork(w.e) /\ Working(w) /\ Placed(w)
         /\ w.pc \in UserPcs => ~w.inst.deleting
         /\ w.pc \notin {"idle", "notFound"}
BY HereReady DEF HeldInv, Placed, BusyPcs, Live, RulePcs, UserPcs

LEMMA NoRulesBare ==
  ASSUME HeldInv, w.e \in Experiments, ~TargetsExist(w.e)
  PROVE  Bare(w.e)
  BY DEF HeldInv, Claims, Bare

LEMMA UseRulesHeld ==
  ASSUME IInv, HeldInv, UseRules
  PROVE  HeldInv'
<1> DEFINE m == MarkRoutingRulesReady(w)
<1>1. AtWork(w.e) /\ Working(w) /\ w.pc \notin {"idle", "notFound"}
  BY HereBusy DEF UseRules, At, RulePcs
<1>2. Works(w, m)
  BY <1>1, MarksWork
<1>3. w' = AfterRules(m) /\ QuietOnly
  BY DEF UseRules, QuietOnly, targetVars
<1> HIDE DEF m
<1>4. Calm(w.e, w')
  BY <1>2, <1>3, CalmPlaces DEF Works
<1>5. QED
  BY <1>1, <1>3, <1>4, CalmHeld

\* A target is missing: the request ends, and no rules are left running.
LEMMA MissingHeld ==
  ASSUME IInv, HeldInv, QuietOnly, w.pc \in RulePcs, ~TargetsExist(w.e), NEW tag,
         w' = Goto(MarkTargetsError(w, tag), "end")
  PROVE  HeldInv'
<1> DEFINE m == MarkTargetsError(w, tag)
<1>1. w.e \in Experiments /\ AtWork(w.e) /\ Working(w) /\ w.pc \notin {"idle", "notFound"}
  BY HereBusy
<1>2. Works(w, m)
  BY <1>1, MarksWork
<1> HIDE DEF m
<1>3. Bare(w.e)
  BY <1>1, NoRulesBare
<1>4. Placed(Goto(m, "end")) /\ Goto(m, "end").e = w.e
  BY <1>1, <1>2, <1>3, EndPlaced DEF Works
<1>5. QED
  BY <1>1, <1>4, QuietHeld DEF QuietOnly, m

LEMMA DetectTargetsHeld ==
  ASSUME IInv, HeldInv, DetectTargets
  PROVE  HeldInv'
<1> DEFINE m == MarkTargetsFound(w)
<1>1. /\ w.e \in Experiments /\ AtWork(w.e) /\ Working(w) /\ w.pc \notin {"idle", "notFound"}
      /\ w.pc \in RulePcs
  BY HereBusy DEF DetectTargets, At, RulePcs
<1>2. QuietOnly
  BY DEF DetectTargets, QuietOnly, targetVars
<1>3. CASE \E tag : w' = Goto(MarkTargetsError(w, tag), "end") /\ ~TargetsExist(w.e)
  BY <1>1, <1>2, <1>3, MissingHeld
<1>4. CASE w' = AfterTargets(m)
  <2>1. Works(w, m)
    BY <1>1, MarksWork
  <2> HIDE DEF m
  <2>2. Calm(w.e, w')
    BY <1>4, <2>1, CalmPlaces DEF Works
  <2>3. QED
    BY <1>1, <1>2, <2>2, CalmHeld
<1>5. CASE w' = Goto(w, "baselineDR") /\ {SpecAt(w).service, SpecAt(w).baseline} \subseteq exists
  <2>1. w'.pc = "baselineDR" /\ w'.e = w.e /\ w'.inst = w.inst
    BY <1>1, <1>5, GotoKeeps DEF Working
  <2>2. Placed(w')
    BY <1>1, <1>5, <2>1 DEF Placed, SpecAt
  <2>3. QED
    BY <1>1, <1>2, <2>1, <2>2, QuietHeld DEF QuietOnly
<1>6. ~({SpecAt(w).service, SpecAt(w).baseline} \subseteq exists) \/ ~CandidatesExist(w) =>
        ~TargetsExist(w.e)
  BY DEF CandidatesExist, TargetsExist, TargetsOf, SpecAt
<1>7. \/ /\ ~({SpecAt(w).service, SpecAt(w).baseline} \subseteq exists) \/ ~CandidatesExist(w)
         /\ \E tag : w' = Goto(MarkTargetsError(w, tag), "end")
      \/ w' = AfterTargets(m)
      \/ w' = Goto(w, "baselineDR") /\ {SpecAt(w).service, SpecAt(w).baseline} \subseteq exists
  BY DEF DetectTargets
<1>8. QED
  BY <1>3, <1>4, <1>5, <1>6, <1>7

LEMMA MissingCandidateHeld ==
  ASSUME IInv, HeldInv, MissingCandidate
  PROVE  HeldInv'
<1>1. w.pc \in RulePcs /\ QuietOnly
  BY DEF MissingCandidate, At, RulePcs, QuietOnly, targetVars
<1>2. ~TargetsExist(w.e)
  BY DEF MissingCandidate, CandidatesExist, TargetsExist, TargetsOf, SpecAt
<1>3. QED
  BY <1>1, <1>2, MissingHeld DEF MissingCandidate

LEMMA IterateHeld ==
  ASSUME IInv, HeldInv, IterateWithoutCriteria
  PROVE  HeldInv'
<1>1. /\ AtWork(w.e) /\ Working(w) /\ ~w.inst.deleting /\ w.pc \notin {"idle", "notFound"}
  BY HereBusy DEF IterateWithoutCriteria, At, UserPcs
<1>2. QuietOnly
  BY DEF IterateWithoutCriteria, QuietOnly, targetVars
<1>3. ASSUME NEW f, w' = Goto([w EXCEPT !.inst.status.weights = f], "split")
      PROVE  Calm(w.e, w')
  <2> DEFINE x == [w EXCEPT !.inst.status.weights = f]
  <2>1. Works(w, x)
    BY <1>1, WeightsWork
  <2>2. w' = Goto(x, "split")
    BY <1>3
  <2> HIDE DEF x
  <2>3. QED
    BY <2>1, <2>2, CalmIs DEF Works, UserPcs
<1>4. Calm(w.e, Iterated(w))
  BY <1>1, CalmIterated
<1>5. \/ w' = Iterated(w)
      \/ \E f : w' = Goto([w EXCEPT !.inst.status.weights = f], "split")
  BY DEF IterateWithoutCriteria
<1>6. Calm(w.e, w')
  BY <1>3, <1>4, <1>5
<1>7. QED
  BY <1>1, <1>2, <1>6, CalmHeld

LEMMA AbortHeld ==
  ASSUME IInv, HeldInv, NEW r \in Responses, Abort(r)
  PROVE  HeldInv'
<1> DEFINE i == OverrideAssessment([w.inst EXCEPT !.spec.override = Terminate(NoSplit)])
           x == [w EXCEPT !.inst = i]
<1>1. AtWork(w.e) /\ Working(w) /\ w.pc \notin {"idle", "notFound"}
  BY HereBusy DEF Abort, At, UserPcs
<1>2. Same(w.inst, i) /\ Terminating(i)
  BY <1>1, TerminateNow DEF Working
<1> HIDE DEF i
<1>3. Works(w, x)
  BY <1>1, <1>2, InstWorks
<1> HIDE DEF x
<1>4. w' = AfterUpdate(x) /\ QuietOnly
  BY DEF Abort, i, x, QuietOnly, targetVars
<1>5. Calm(w.e, w')
  BY <1>3, <1>4, CalmPlaces DEF Works
<1>6. QED
  BY <1>1, <1>4, <1>5, CalmHeld

LEMMA AnswerHeld ==
  ASSUME IInv, HeldInv, NEW r \in Responses, FollowRecommendation(r)
  PROVE  HeldInv'
<1> DEFINE n == [w EXCEPT !.inst.status.winner = r.winner]
           m == MarkAssessmentUpdate(n)
           X(f) == [m EXCEPT !.inst.status.weights = f]
<1>1. /\ AtWork(w.e) /\ Working(w) /\ ~w.inst.deleting /\ w.pc \notin {"idle", "notFound"}
  BY HereBusy DEF FollowRecommendation, At, UserPcs
<1>2. Works(w, n)
  BY <1>1, WeightsWork
<1> HIDE DEF n
<1>3. Works(w, m)
  BY <1>2, PhasesWork, WorksOn DEF Works, MarkAssessmentUpdate
<1>4. PICK f : \/ w' = Goto(MarkAnalyticsServiceError(X(f)), "end")
               \/ w' = Goto(MarkAnalyticsServiceRunning(X(f)), "split")
               \/ w' = Iterated(MarkAnalyticsServiceRunning(X(f)))
  BY DEF FollowRecommendation, n
<1>5. QuietOnly
  BY DEF FollowRecommendation, QuietOnly, targetVars
<1> HIDE DEF m
<1> DEFINE x == X(f)
           e == MarkAnalyticsServiceError(x)
           g == MarkAnalyticsServiceRunning(x)
<1>6. Works(w, x)
  BY <1>3, WeightsWork, WorksWorking, WorksOn
<1>7. w' \in {Goto(e, "end"), Goto(g, "split"), Iterated(g)}
  BY <1>4
<1> HIDE DEF x
<1>8. Works(w, e) /\ Works(w, g)
  BY <1>6, MarksWork, WorksWorking, WorksOn
<1> HIDE DEF e, g
<1>9. Calm(w.e, Goto(e, "end"))
  BY <1>1, <1>8, CalmIs DEF Works
<1>10. Calm(w.e, Goto(g, "split"))
  BY <1>8, CalmIs DEF Works, UserPcs
<1>11. Calm(w.e, Iterated(g))
  BY <1>8, CalmIterated DEF Works
<1>12. QED
  BY <1>1, <1>5, <1>7, <1>9, <1>10, <1>11, CalmHeld

LEMMA SplitWithoutRulesHeld ==
  ASSUME IInv, HeldInv, SplitWithoutRules
  PROVE  HeldInv'
<1> DEFINE m == MarkRoutingRulesError(w, "EmptyRoute")
<1>1. /\ AtWork(w.e) /\ Working(w) /\ ~w.inst.deleting /\ w.pc \notin {"idle", "notFound"}
  BY HereBusy DEF SplitWithoutRules, At, UserPcs
<1>2. Works(w, m)
  BY <1>1, MarksWork
<1>3. w' = Goto(m, "end") /\ QuietOnly
  BY DEF SplitWithoutRules, QuietOnly, targetVars
<1> HIDE DEF m
<1>4. Calm(w.e, w')
  BY <1>1, <1>2, <1>3, CalmIs DEF Works
<1>5. QED
  BY <1>1, <1>3, <1>4, CalmHeld

-----------------------------------------------------------------------------
(* A request is taken, finalized, refused or registered.                   *)

LEMMA ClaimsAdded ==
  ASSUME Claims, UNCHANGED <<stored, exists, ruleVars>>,
         \A e \in Experiments : Claimed(e)' => Claimed(e) \/ AtWork(e)
  PROVE  Claims'
<1>1. \A e \in Experiments : /\ AtWork(e)' <=> AtWork(e)
                             /\ TargetsExist(e)' <=> TargetsExist(e)
                             /\ \A s \in Services : RunsFor(s, e)' <=> RunsFor(s, e)
  BY DEF AtWork, Held, RunsFor, TargetsExist, ruleVars
<1>2. QED
  BY <1>1 DEF Claims

LEMMA FetchHeld ==
  ASSUME Steady, IInv, HeldInv, NEW e \in Experiments, Fetch(e)
  PROVE  HeldInv'
<1> DEFINE o == cached[e]
           x == [Idle EXCEPT !.e = e, !.inst = o, !.fresh = e \in current, !.taken = TRUE]
           next == CASE o = None -> "notFound"
                     [] o # None /\ ~o.status.initialized -> "init"
                     [] o # None /\ o.status.initialized /\ ~o.finalizer -> "finalizer"
                     [] OTHER -> "dispatch"
<1>1. e \in current /\ o = stored[e]
  BY DEF Fetch, Steady, IInv, ObjectsInv
<1>2. DOMAIN x = WorkerFields /\ x.e = e /\ x.inst = o /\ x.fresh
  BY <1>1 DEF Idle, WorkerFields
<1>3. w' = Goto(x, next) /\ UNCHANGED <<apiVars, exists, ruleVars, cacheVars, budget>>
  BY DEF Fetch, targetVars
<1>4. /\ next \in {"notFound", "init", "finalizer", "dispatch"}
      /\ next = "dispatch" => o # None /\ o.finalizer
      /\ o = None => next = "notFound"
  BY <1>1 DEF IInv, ObjectsInv, Sound
<1> HIDE DEF x, next
<1>5. w'.pc = next /\ w'.e = e /\ w'.inst = o /\ w'.fresh
  BY <1>2, <1>3, GotoKeeps
<1>6. Placed(w')
  BY <1>1, <1>4, <1>5 DEF Placed, Held, BusyPcs, RulePcs, UserPcs
<1>7. Placed(w)'
  BY <1>3, <1>6 DEF Placed, Held, AtWork, Claimed, Bare, RunsFor, TargetsExist, apiVars,
                    ruleVars, cacheVars
<1>8. Claims'
  BY <1>3, QuietClaims DEF HeldInv, apiVars
<1>9. Unborn'
  <2> SUFFICES ASSUME NEW f \in Experiments, f \in budget'.uncreated
               PROVE  cached'[f] = None /\ (w'.e = f => w'.pc \in {"idle", "notFound"})
    BY DEF Unborn
  <2>1. cached[f] = None
    BY <1>3 DEF HeldInv, Unborn
  <2>2. cached'[f] = None
    BY <1>3, <2>1 DEF apiVars
  <2>3. QED
    BY <1>4, <1>5, <2>1, <2>2
<1>10. Quota' /\ DOMAIN experimentAbstractStore' = Experiments
  BY <1>3 DEF HeldInv, Quota, cacheVars
<1>11. QED
  BY <1>7, <1>8, <1>9, <1>10 DEF HeldInv

\* What the worker knows where it dispatches the request.
LEMMA HereAtDispatch ==
  ASSUME IInv, HeldInv, w.pc = "dispatch"
  PROVE  /\ w.e \in Experiments /\ Held(w.e) /\ DOMAIN w = WorkerFields
         /\ w.inst.status.completed = stored[w.e].status.completed
         /\ ~w.inst.status.completed => AtWork(w.e)
         /\ w.inst.status.completed => ~Claimed(w.e) /\ Bare(w.e)
<1>1. w.e \in Experiments /\ DOMAIN w = WorkerFields
  BY HereDispatch
<1>2. Held(w.e) /\ w.inst.status.completed = stored[w.e].status.completed
  BY DEF HeldInv, Placed
<1>3. w.inst.status.completed => ~AtWork(w.e)
  BY <1>2 DEF AtWork
<1>4. w.inst.status.completed => ~Claimed(w.e) /\ Bare(w.e)
  BY <1>1, <1>3 DEF HeldInv, Claims, Bare
<1>5. QED
  BY <1>1, <1>2, <1>4 DEF AtWork

LEMMA StartFinalizeHeld ==
  ASSUME IInv, HeldInv, StartFinalize
  PROVE  HeldInv'
<1>1. w.pc = "dispatch" /\ w.pc \notin {"idle", "notFound"} /\ QuietOnly
  BY DEF StartFinalize, At, QuietOnly, targetVars
<1>2. CASE w.inst.status.completed
  <2> DEFINE x == [w EXCEPT !.taken = FALSE]
  <2>1. DOMAIN x = WorkerFields /\ x.e = w.e
    BY <1>1, HereAtDispatch DEF WorkerFields
  <2>2. w' = Goto(x, "unfinalize")
    BY <1>2 DEF StartFinalize
  <2> HIDE DEF x
  <2>3. w'.pc = "unfinalize" /\ w'.e = w.e
    BY <2>1, <2>2, GotoKeeps
  <2>4. Placed(w')
    BY <1>1, <1>2, <2>3, HereAtDispatch DEF Placed, BusyPcs, RulePcs, UserPcs
  <2>5. QED
    BY <1>1, <2>3, <2>4, QuietHeld DEF QuietOnly
<1>3. CASE ~w.inst.status.completed
  <2> DEFINE i == OverrideAssessment([w.inst EXCEPT !.spec.override = Terminate(NoSplit)])
             x == [w EXCEPT !.inst = i]
  <2>1. DOMAIN x = WorkerFields /\ x.e = w.e
    BY <1>1, HereDispatch, InstChanged
  <2>2. w' = Goto(x, "rules")
    BY <1>3 DEF StartFinalize
  <2> HIDE DEF x
  <2>3. Calm(w.e, w')
    BY <2>1, <2>2, GotoKeeps DEF Calm
  <2>4. QED
    BY <1>1, <1>3, <2>3, HereAtDispatch, CalmHeld
<1>4. QED
  BY <1>2, <1>3

LEMMA SkipsHeld ==
  ASSUME HeldInv, SkipCompleted \/ NotFound
  PROVE  HeldInv'
  BY IdleHeld DEF SkipCompleted, NotFound, QuietOnly, targetVars

(***************************************************************************)
(* A restart empties the cache and leaves objects and rules alone.         *)
(***************************************************************************)
LEMMA RestartHeld ==
  ASSUME IInv, HeldInv, Restart, Quota', budget'.uncreated = budget.uncreated
  PROVE  HeldInv'
<1>1. /\ UNCHANGED <<stored, exists, ruleVars>> /\ cached' = stored /\ w' = Idle
      /\ experimentAbstractStore' = [e \in Experiments |-> None]
  BY DEF Restart
<1>2. Claims'
  BY <1>1, ClaimsAdded DEF HeldInv, Claimed
<1>3. w'.pc = "idle"
  BY <1>1 DEF Idle
<1>4. Unborn'
  BY <1>1, <1>3 DEF Unborn, IInv, ObjectsInv
<1>5. Placed(w)'
  BY <1>3 DEF Placed, BusyPcs, RulePcs, UserPcs
<1>6. QED
  BY <1>1, <1>2, <1>4, <1>5 DEF HeldInv

LEMMA RejectHeld ==
  ASSUME IInv, HeldInv, Reject
  PROVE  HeldInv'
<1>1. CASE Panics(w)
  BY <1>1, RestartHeld DEF Reject, HeldInv, Quota
<1>2. CASE ~Panics(w)
  <2> DEFINE m == MarkTargetsError(w, "Conflict")
             x == [m EXCEPT !.taken = FALSE]
  <2>1. /\ w.pc = "dispatch" /\ ~w.inst.deleting /\ ~w.inst.status.completed
        /\ w.pc \notin {"idle", "notFound"}
    BY DEF Reject, ToReconcile, At
  <2>2. Live(w) /\ Ready(w, stored[w.e]) /\ Working(w)
    BY <2>1, HereDispatch, DispatchReady
  <2>3. Works(w, m) /\ Live(m) /\ Ready(m, stored[w.e]) /\ m.e = w.e
    BY <2>2, MarksWork, WorksReady
  <2>4. ~m.inst.deleting
    BY <2>1, <2>3 DEF Works
  <2> HIDE DEF m
  <2>5. Live(x) /\ Ready(x, stored[w.e]) /\ x.e = w.e /\ x.inst = m.inst
    BY <2>3, ReleaseReady
  <2>6. w' = Goto(x, "end") /\ QuietOnly
    BY <1>2 DEF Reject, m, QuietOnly, targetVars
  <2> HIDE DEF x
  <2>7. Calm(w.e, Goto(x, "end"))
    BY <2>4, <2>5, CalmIs DEF Ready
  <2>8. QED
    BY <2>1, <2>6, <2>7, HereAtDispatch, CalmHeld
<1>3. QED
  BY <1>1, <1>2

LEMMA ProceedCalm ==
  ASSUME NEW x, Working(x), ~x.inst.deleting
  PROVE  Calm(x.e, Proceed(x)) \/ Proceed(x) = Idle
<1> DEFINE m == MarkActionPause(x)
           r == MarkActionResume(x)
           c == [r EXCEPT !.inst.spec.override = None]
<1>1. Works(x, m) /\ Works(x, r) /\ Works(x, c) /\ Works(x, x)
  BY PhasesWork, ResumeWorks DEF MarkActionPause, Works
<1>2. Proceed(x) \in {Goto(m, "pauseSave"), AfterProceed(x), AfterProceed(r),
                      Goto(c, "resumeSave"), Idle}
  BY DEF Proceed
<1> HIDE DEF m, r, c
<1>3. Calm(x.e, Goto(m, "pauseSave")) /\ Calm(x.e, Goto(c, "resumeSave"))
  BY <1>1, CalmIs DEF Works, UserPcs
<1>4. Calm(x.e, AfterProceed(x)) /\ Calm(x.e, AfterProceed(r))
  BY <1>1, CalmPlaces DEF Works
<1>5. QED
  BY <1>2, <1>3, <1>4

LEMMA BeginHeld ==
  ASSUME IInv, HeldInv, Begin
  PROVE  HeldInv'
<1> DEFINE ea == Cache!CurrentAbstract(w.e, TargetSpec(w.e))
           r == [w EXCEPT !.taken = FALSE]
           t == [r EXCEPT !.terminate = ea.action = "terminate"]
           x == SyncExperiment(t, ea)
           y == [x EXCEPT !.statusUpdate = FALSE]
<1>1. w.pc = "dispatch" /\ ~w.inst.deleting /\ ~w.inst.status.completed
  BY DEF Begin, ToReconcile, At
<1>2. CASE ea.action = "terminate" /\ ~Terminating(w.inst) /\ Panics(w)
  BY <1>2, RestartHeld DEF Begin, HeldInv, Quota
<1>3. CASE ~(ea.action = "terminate" /\ ~Terminating(w.inst) /\ Panics(w))
  <2>1. Live(w) /\ Ready(w, stored[w.e])
    BY <1>1, HereDispatch, DispatchReady
  <2>2. Live(r) /\ Ready(r, stored[w.e]) /\ r.e = w.e /\ ~r.inst.deleting
    BY <1>1, <2>1, ReleaseReady
  <2>3. w' = Proceed(y)
    BY <1>3 DEF Begin
  <2>4. UNCHANGED <<apiVars, exists, ruleVars, budget>>
    BY <1>3 DEF Begin, targetVars
  <2>5. Cache!RegisterExperiment(w.e, TargetSpec(w.e))
    BY <1>3 DEF Begin
  <2> HIDE DEF ea, r
  <2>6. Works(r, t)
    BY <2>2, FlagsWork DEF Ready
  <2> HIDE DEF t
  <2>7. Works(r, x)
    BY <2>2, <2>6, SyncWorks, WorksOn DEF Works
  <2> HIDE DEF x
  <2>8. Works(r, y)
    BY <2>7, FlagsWork, WorksWorking, WorksOn
  <2> HIDE DEF y
  <2>9. Calm(w.e, w') \/ w' = Idle
    BY <2>2, <2>3, <2>8, ProceedCalm DEF Works
  <2>10. w.e \in Experiments /\ AtWork(w.e)
    BY <1>1, HereAtDispatch
  <2>11. /\ DOMAIN experimentAbstractStore' = Experiments
         /\ \A e \in Experiments : Claimed(e)' => Claimed(e) \/ e = w.e
    <3>1. \E a : experimentAbstractStore' = [experimentAbstractStore EXCEPT ![w.e] = a]
      BY <2>5 DEF Cache!RegisterExperiment
    <3>2. QED
      BY <3>1 DEF HeldInv, Claimed
  <2>12. Claims'
    BY <2>4, <2>10, <2>11, ClaimsAdded DEF HeldInv, apiVars
  <2>13. /\ w'.pc \in UserPcs \cup {"rules", "detect", "complete", "end", "idle"}
         /\ w'.pc # "idle" => w'.e = w.e
         /\ w'.pc = "end" => ~w'.inst.deleting /\ ~w'.inst.status.completed
    <3>1. CASE w' = Idle
      BY <3>1 DEF Idle
    <3>2. CASE Calm(w.e, w')
      BY <3>2 DEF Calm, UserPcs
    <3>3. QED
      BY <2>9, <3>1, <3>2
  <2>14. w'.pc # "idle" => AtWork(w.e)'
    BY <2>4, <2>10, <2>13 DEF AtWork, Held, apiVars
  <2>15. Placed(w)'
    BY <2>13, <2>14 DEF Placed, BusyPcs, RulePcs, UserPcs, AtWork
  <2>16. Unborn'
    BY <1>1, <2>4, <2>13 DEF HeldInv, Unborn, apiVars
  <2>17. Quota'
    BY <2>4 DEF HeldInv, Quota
  <2>18. QED
    BY <2>11, <2>12, <2>15, <2>16, <2>17 DEF HeldInv
<1>4. QED
  BY <1>2, <1>3

-----------------------------------------------------------------------------
(* Writes of the experiment object.                                        *)

\* None is not an object: DOMAIN tells the two apart.
NoneIsNoObject == DOMAIN None # ObjectFields

Becomes(new) == Store(w.e, new) \/ (UNCHANGED apiVars /\ new = stored[w.e])
Running(o) == o # None /\ o.finalizer /\ ~o.status.completed

LEMMA StoreHeld ==
  ASSUME IInv, HeldInv, w.pc \notin {"idle", "notFound"},
         NEW new, Becomes(new), UNCHANGED <<exists, ruleVars, budget>>,
         DOMAIN experimentAbstractStore' = Experiments,
         \A e \in Experiments : Claimed(e)' => Claimed(e),
         AtWork(w.e) => Running(new) \/ (experimentAbstractStore'[w.e] = None /\ Bare(w.e)),
         Placed(w)', w'.pc # "idle" => w'.e = w.e
  PROVE  HeldInv'
<1>1. w.e \in Experiments /\ DOMAIN stored = Experiments
  BY DEF IInv, WorkerInv, ObjectsInv
<1>2. /\ stored'[w.e] = new /\ \A e \in Experiments \ {w.e} : stored'[e] = stored[e]
      /\ cached' = cached
  BY <1>1 DEF Becomes, Store, apiVars
<1>3. \A s \in Services, e \in Experiments : RunsFor(s, e)' <=> RunsFor(s, e)
  BY DEF RunsFor, ruleVars
<1>4. ASSUME NEW e \in Experiments, AtWork(e)
      PROVE  AtWork(e)' \/ ~(Claimed(e)' \/ \E s \in Services : RunsFor(s, e)')
  <2>1. CASE e = w.e
    BY <1>2, <1>3, <1>4, <2>1 DEF AtWork, Held, Running, Claimed, Bare
  <2>2. CASE e # w.e
    BY <1>2, <1>4, <2>2 DEF AtWork, Held
  <2>3. QED
    BY <2>1, <2>2
<1>5. Claims'
  <2>1. exists \subseteq exists'
    OBVIOUS
  <2>2. QED
    BY <1>3, <1>4, <2>1, ClaimsKept DEF HeldInv
<1>6. Unborn'
  BY <1>2 DEF HeldInv, Unborn
<1>7. Quota'
  BY DEF HeldInv, Quota
<1>8. QED
  BY <1>5, <1>6, <1>7 DEF HeldInv

LEMMA IdleThen ==
  ASSUME w' = Idle
  PROVE  Placed(w)' /\ w'.pc = "idle"
  BY DEF Placed, Idle, BusyPcs, RulePcs, UserPcs

\* A write of the status of an experiment with its finalizer.
LEMMA StatusStored ==
  ASSUME NoneIsNoObject, IInv, HeldInv, w.pc # "idle", Held(w.e),
         NEW outcome \in Outcomes, UpdateStatus(outcome)
  PROVE  /\ UNCHANGED budget
         /\ \E new : /\ Becomes(new) /\ new # None /\ new.finalizer
                     /\ new.status.completed \in
                          {stored[w.e].status.completed, w.inst.status.completed}
<1> DEFINE o == stored[w.e]
           new == [o EXCEPT !.status = w.inst.status]
<1>1. IsCopy(o)
  BY HereStored DEF Held, Sound
<1>2. UNCHANGED budget
  BY NothingRefused DEF UpdateStatus, HeldInv
<1>3. CASE outcome = "ok"
  <2>1. Becomes(new)
    <3>1. Store(w.e, new)
      BY <1>3 DEF UpdateStatus
    <3>2. QED
      BY <3>1 DEF Becomes
  <2>2. /\ DOMAIN new = ObjectFields /\ new.finalizer = o.finalizer
        /\ new.status.completed = w.inst.status.completed
    BY <1>1 DEF IsCopy, ObjectFields
  <2> HIDE DEF new
  <2>3. new # None
    BY <2>2 DEF NoneIsNoObject
  <2>4. QED
    BY <1>2, <2>1, <2>2, <2>3 DEF Held
<1>4. CASE outcome # "ok"
  <2>1. Becomes(o)
    BY <1>4 DEF UpdateStatus, Becomes
  <2>2. QED
    BY <1>2, <2>1 DEF Held
<1>5. QED
  BY <1>3, <1>4

LEMMA SavePauseHeld ==
  ASSUME NoneIsNoObject, IInv, HeldInv, SavePause
  PROVE  HeldInv'
<1>1. PICK outcome \in Outcomes : UpdateStatus(outcome)
  BY DEF SavePause
<1>2. /\ w.pc = "pauseSave" /\ w.pc \notin {"idle", "notFound"} /\ w' = Idle
      /\ UNCHANGED <<exists, ruleVars, cacheVars>>
  BY DEF SavePause, At, targetVars
<1>3. AtWork(w.e) /\ Working(w)
  BY <1>2, HereBusy DEF UserPcs
<1>4. /\ UNCHANGED budget
      /\ \E new : /\ Becomes(new) /\ new # None /\ new.finalizer
                  /\ new.status.completed \in
                       {stored[w.e].status.completed, w.inst.status.completed}
  BY <1>1, <1>2, <1>3, StatusStored DEF AtWork
<1>5. PICK new : Becomes(new) /\ Running(new)
  BY <1>3, <1>4 DEF Running, AtWork, Working
<1>6. /\ DOMAIN experimentAbstractStore' = Experiments
      /\ \A e \in Experiments : Claimed(e)' => Claimed(e)
  BY <1>2 DEF HeldInv, cacheVars, Claimed
<1>7. QED
  BY <1>2, <1>4, <1>5, <1>6, IdleThen, StoreHeld

\* RemoveExperiment releases the targets of e and of nobody else.
LEMMA RemoveReleases ==
  ASSUME HeldInv, NEW e \in Experiments, Cache!RemoveExperiment(e)
  PROVE  /\ DOMAIN experimentAbstractStore' = Experiments
         /\ experimentAbstractStore'[e] = None
         /\ \A f \in Experiments : Claimed(f)' => Claimed(f)
<1>1. CASE Cache!Registered(e)
  <2>1. experimentAbstractStore' = [experimentAbstractStore EXCEPT ![e] = None]
    BY <1>1 DEF Cache!RemoveExperiment
  <2>2. QED
    BY <2>1 DEF HeldInv, Claimed
<1>2. CASE ~Cache!Registered(e)
  BY <1>2 DEF Cache!RemoveExperiment, Cache!Registered, Cache!cacheVars, HeldInv, Claimed
<1>3. QED
  BY <1>1, <1>2

LEMMA EndHeld ==
  ASSUME NoneIsNoObject, IInv, HeldInv, End
  PROVE  HeldInv'
<1>1. w.pc = "end" /\ w.pc \notin {"idle", "notFound"} /\ UNCHANGED <<exists, ruleVars>>
  BY DEF End, At, targetVars
<1>2. w.e \in Experiments /\ DOMAIN w = WorkerFields
  BY <1>1 DEF IInv, WorkerInv
<1>3. /\ Held(w.e)
      /\ w.inst.deleting => Bare(w.e)
      /\ w.inst.status.completed => ~Claimed(w.e) /\ Bare(w.e)
  BY <1>1 DEF HeldInv, Placed
<1>4. /\ UNCHANGED budget
      /\ \E new : /\ Becomes(new) /\ new # None /\ new.finalizer
                  /\ new.status.completed \in
                       {stored[w.e].status.completed, w.inst.status.completed}
  <2>1. CASE w.statusUpdate
    <3>1. PICK outcome \in Outcomes : UpdateStatus(outcome)
      BY <2>1 DEF End
    <3>2. QED
      BY <1>1, <1>3, <3>1, StatusStored
  <2>2. CASE ~w.statusUpdate
    <3>1. UNCHANGED budget /\ Becomes(stored[w.e])
      BY <2>2 DEF End, Becomes
    <3>2. QED
      BY <1>3, <3>1 DEF Held
  <2>3. QED
    BY <2>1, <2>2
<1>5. PICK new : /\ Becomes(new) /\ new # None /\ new.finalizer
                 /\ new.status.completed \in
                      {stored[w.e].status.completed, w.inst.status.completed}
  BY <1>4
<1>6. AtWork(w.e) => Running(new) \/ (~Claimed(w.e) /\ Bare(w.e))
  BY <1>3, <1>5 DEF AtWork, Running
<1>7. CASE ~w.inst.deleting
  <2>1. w' = Idle /\ UNCHANGED cacheVars
    BY <1>7 DEF End, Finalizing
  <2>2. /\ DOMAIN experimentAbstractStore' = Experiments
        /\ \A e \in Experiments : Claimed(e)' => Claimed(e)
        /\ experimentAbstractStore' = experimentAbstractStore
    BY <2>1 DEF HeldInv, cacheVars, Claimed
  <2>3. AtWork(w.e) => Running(new) \/ (experimentAbstractStore'[w.e] = None /\ Bare(w.e))
    BY <1>6, <2>2 DEF Claimed
  <2>4. QED
    BY <1>1, <1>4, <1>5, <2>1, <2>2, <2>3, IdleThen, StoreHeld
<1>8. CASE w.inst.deleting
  <2> DEFINE y == Goto(w, "unfinalize")
  <2>1. w' = [y EXCEPT !.taken = FALSE] /\ Cache!RemoveExperiment(w.e)
    BY <1>8 DEF End, Finalizing, ForgetFinalized
  <2>2. DOMAIN y = WorkerFields /\ y.pc = "unfinalize" /\ y.e = w.e
    BY <1>2, GotoKeeps
  <2> HIDE DEF y
  <2>3. w'.pc = "unfinalize" /\ w'.e = w.e
    BY <2>1, <2>2 DEF WorkerFields
  <2>4. /\ DOMAIN experimentAbstractStore' = Experiments
        /\ experimentAbstractStore'[w.e] = None
        /\ \A e \in Experiments : Claimed(e)' => Claimed(e)
    BY <1>2, <2>1, RemoveReleases
  <2>5. stored'[w.e] = new
    BY <1>2, <1>5 DEF Becomes, Store, apiVars, IInv, ObjectsInv
  <2>6. Held(w.e)' /\ ~Claimed(w.e)' /\ Bare(w.e)'
    BY <1>1, <1>3, <1>5, <1>8, <2>3, <2>4, <2>5 DEF Held, Claimed, Bare, RunsFor, ruleVars
  <2>7. Placed(w)'
    BY <2>3, <2>6 DEF Placed, BusyPcs, RulePcs, UserPcs
  <2>8. QED
    BY <1>1, <1>3, <1>4, <1>5, <1>8, <2>3, <2>4, <2>7, StoreHeld
<1>9. QED
  BY <1>7, <1>8

LEMMA UnfinalizeHeld ==
  ASSUME IInv, HeldInv, Unfinalize
  PROVE  HeldInv'
<1> DEFINE i == [w.inst EXCEPT !.finalizer = FALSE]
<1>1. PICK outcome \in Outcomes : Update(outcome, i)
  BY DEF Unfinalize
<1>2. /\ w.pc = "unfinalize" /\ w.pc \notin {"idle", "notFound"} /\ w' = Idle
      /\ UNCHANGED <<exists, ruleVars, cacheVars>>
  BY DEF Unfinalize, At, targetVars
<1>3. ~Claimed(w.e) /\ Bare(w.e)
  BY <1>2 DEF HeldInv, Placed
<1>4. UNCHANGED budget
  BY <1>1, NothingRefused DEF Update, HeldInv
<1>5. PICK new : Becomes(new)
  <2>1. UNCHANGED apiVars \/ \E new : Store(w.e, new)
    BY <1>1 DEF Update
  <2>2. QED
    BY <2>1 DEF Becomes
<1>6. /\ DOMAIN experimentAbstractStore' = Experiments
      /\ \A e \in Experiments : Claimed(e)' => Claimed(e)
      /\ experimentAbstractStore'[w.e] = None
  BY <1>2, <1>3 DEF HeldInv, cacheVars, Claimed
<1>7. QED
  BY <1>2, <1>3, <1>4, <1>5, <1>6, IdleThen, StoreHeld

\* An update of spec and metadata of a copy at work.
LEMMA UpdateStored ==
  ASSUME NoneIsNoObject, IInv, HeldInv, w.pc \in UserPcs,
         NEW outcome \in Outcomes, NEW i, Same(w.inst, i), Update(outcome, i)
  PROVE  LET x == [w EXCEPT !.inst = Overlay(outcome, i)] IN
         /\ UNCHANGED budget
         /\ Working(x) /\ x.e = w.e /\ ~x.inst.deleting
         /\ \E new : Becomes(new) /\ Running(new)
<1> DEFINE o == stored[w.e]
           new == [o EXCEPT !.spec = i.spec, !.finalizer = i.finalizer]
           x == [w EXCEPT !.inst = Overlay(outcome, i)]
<1>1. /\ Live(w) /\ Ready(w, stored[w.e]) /\ ~w.inst.deleting /\ w.pc # "idle"
      /\ AtWork(w.e) /\ Working(w)
  BY HereReady, HereBusy
<1>2. Working(x) /\ x.e = w.e /\ ~x.inst.deleting
  <2>1. \E q : Ready(x, q) /\ x.e = w.e /\ ~x.inst.deleting
    BY <1>1, UpdateWorking
  <2> HIDE DEF x
  <2>2. QED
    BY <2>1 DEF Ready
<1> HIDE DEF x
<1>3. UNCHANGED budget
  BY NothingRefused DEF Update, HeldInv
<1>4. i.finalizer /\ ~i.deleting
  BY <1>1 DEF Working, Same
<1>5. IsCopy(o) /\ o # None /\ ~o.status.completed /\ o.finalizer
  BY <1>1, HereStored DEF AtWork, Held, Sound
<1>6. CASE outcome = "ok"
  <2>1. Becomes(new)
    <3>1. Store(w.e, new)
      BY <1>4, <1>6 DEF Update
    <3>2. QED
      BY <3>1 DEF Becomes
  <2>2. DOMAIN new = ObjectFields /\ new.finalizer /\ ~new.status.completed
    BY <1>4, <1>5 DEF IsCopy, ObjectFields
  <2> HIDE DEF new
  <2>3. Running(new)
    BY <2>2 DEF NoneIsNoObject, Running
  <2>4. QED
    BY <1>2, <1>3, <2>1, <2>3 DEF x
<1>7. CASE outcome # "ok"
  <2>1. Becomes(o) /\ Running(o)
    BY <1>5, <1>7 DEF Update, Becomes, Running
  <2>2. QED
    BY <1>2, <1>3, <2>1 DEF x
<1>8. QED
  BY <1>6, <1>7

\* ... after which the request goes on, or ends.
LEMMA UpdateHeld ==
  ASSUME IInv, HeldInv, w.pc \in UserPcs, NEW new, Becomes(new), Running(new),
         UNCHANGED <<exists, ruleVars, cacheVars, budget>>,
         Calm(w.e, w') \/ w' = Idle
  PROVE  HeldInv'
<1>1. w.e \in Experiments /\ w.pc \notin {"idle", "notFound"}
  BY HereBusy
<1>2. /\ DOMAIN experimentAbstractStore' = Experiments
      /\ \A e \in Experiments : Claimed(e)' => Claimed(e)
  BY DEF HeldInv, cacheVars, Claimed
<1>3. CASE w' = Idle
  BY <1>1, <1>2, <1>3, IdleThen, StoreHeld
<1>4. CASE Calm(w.e, w')
  <2>1. stored'[w.e] = new
    BY <1>1 DEF Becomes, Store, apiVars, IInv, ObjectsInv
  <2>2. w'.e = w.e /\ w'.pc \in UserPcs \cup {"rules", "detect", "complete", "end"}
        /\ (w'.pc = "end" => ~w'.inst.deleting /\ ~w'.inst.status.completed)
    BY <1>4 DEF Calm, UserPcs
  <2>3. AtWork(w.e)'
    BY <2>1, <2>2 DEF AtWork, Held, Running
  <2>4. Placed(w)'
    BY <2>2, <2>3 DEF Placed, BusyPcs, RulePcs, UserPcs, AtWork
  <2>5. QED
    BY <1>1, <1>2, <2>2, <2>4, StoreHeld
<1>5. QED
  BY <1>3, <1>4

LEMMA SaveResumeHeld ==
  ASSUME NoneIsNoObject, IInv, HeldInv, SaveResume
  PROVE  HeldInv'
<1> DEFINE X(outcome) == [w EXCEPT !.inst = Overlay(outcome, w.inst)]
<1>1. w.pc \in UserPcs /\ UNCHANGED <<exists, ruleVars, cacheVars>>
  BY DEF SaveResume, At, UserPcs, targetVars
<1>2. Working(w)
  BY <1>1, HereBusy
<1>3. Same(w.inst, w.inst)
  BY <1>2 DEF Same, Working
<1>4. PICK outcome \in Outcomes :
        /\ Update(outcome, w.inst)
        /\ w' = IF outcome = "failed" THEN Idle ELSE AfterProceed(X(outcome))
  BY DEF SaveResume
<1> DEFINE x == X(outcome)
<1>5. /\ UNCHANGED budget /\ Working(x) /\ x.e = w.e
      /\ \E new : Becomes(new) /\ Running(new)
  BY <1>1, <1>3, <1>4, UpdateStored
<1>6. w' = Idle \/ w' = AfterProceed(x)
  BY <1>4
<1> HIDE DEF x
<1>7. Calm(w.e, AfterProceed(x))
  BY <1>5, CalmPlaces
<1>8. QED
  BY <1>1, <1>5, <1>6, <1>7, UpdateHeld

LEMMA SyncMetricsHeld ==
  ASSUME NoneIsNoObject, IInv, HeldInv, SyncMetrics
  PROVE  HeldInv'
<1> DEFINE i == [w.inst EXCEPT !.spec.metrics = TRUE]
           X(outcome) == [w EXCEPT !.inst = Overlay(outcome, i)]
<1>1. w.pc \in UserPcs /\ UNCHANGED <<exists, ruleVars, cacheVars>>
  BY DEF SyncMetrics, At, UserPcs, targetVars
<1>2. Working(w)
  BY <1>1, HereBusy
<1>3. Same(w.inst, i)
  BY <1>2 DEF Same, Working, IsCopy, ObjectFields, SpecFields
<1>4. PICK outcome \in Outcomes :
        /\ Update(outcome, i)
        /\ w' = IF outcome = "failed" THEN Goto([w EXCEPT !.inst = i], "end")
                ELSE Goto(MarkSyncMetrics(X(outcome)), "rules")
  BY DEF SyncMetrics
<1> HIDE DEF i
<1> DEFINE x == X(outcome)
           m == MarkSyncMetrics(x)
<1>5. /\ UNCHANGED budget /\ Working(x) /\ x.e = w.e /\ ~x.inst.deleting
      /\ \E new : Becomes(new) /\ Running(new)
  BY <1>1, <1>3, <1>4, UpdateStored
<1>6. w' = Goto(x, "end") \/ w' = Goto(m, "rules")
  BY <1>4, OverlayElse
<1> HIDE DEF x
<1>7. Works(x, m)
  BY <1>5, MarksWork
<1> HIDE DEF m
<1>8. Calm(w.e, Goto(x, "end"))
  BY <1>5, CalmIs
<1>9. Calm(w.e, Goto(m, "rules"))
  BY <1>5, <1>7, CalmIs DEF Works
<1>10. QED
  BY <1>1, <1>5, <1>6, <1>8, <1>9, UpdateHeld

-----------------------------------------------------------------------------
(* The object gets its status and its finalizer.                           *)

\* Nothing is held of an object that has no finalizer yet.
LEMMA HereOpening ==
  ASSUME IInv, HeldInv, w.pc \in {"init", "finalizer"}
  PROVE  /\ w.e \in Experiments /\ DOMAIN w = WorkerFields /\ w.pc \notin {"idle", "notFound"}
         /\ Sound(w.e, w.inst) /\ ~w.inst.finalizer
         /\ ~AtWork(w.e)
         /\ stored[w.e] # None => w.fresh /\ Sound(w.e, stored[w.e])
<1>1. Live(w) /\ Opened(w, stored[w.e]) /\ w.pc # "idle"
  BY HereOpened DEF OpenPcs
<1>2. Sound(w.e, w.inst) /\ ~w.inst.finalizer
  BY <1>1 DEF Opened, Sound, IsCopy
<1>3. stored[w.e] # None => w.fresh
  BY DEF HeldInv, Placed
<1>4. ~AtWork(w.e)
  BY <1>1, <1>2, <1>3 DEF AtWork, Held, Opened, Saves
<1>5. QED
  BY <1>1, <1>2, <1>3, <1>4, HereStored DEF Live, Opened

LEMMA SaveInitStatusHeld ==
  ASSUME IInv, HeldInv, SaveInitStatus
  PROVE  HeldInv'
<1> DEFINE i == InitStatus(w.inst)
           x == [w EXCEPT !.inst = i]
           y == Goto(x, IF x.inst.finalizer THEN "dispatch" ELSE "finalizer")
<1>1. PICK outcome \in Outcomes :
        /\ Spend(outcome)
        /\ IF outcome = "ok" THEN \E new : Store(w.e, new) ELSE UNCHANGED apiVars
        /\ w' = IF outcome = "failed" THEN Idle ELSE y
  BY DEF SaveInitStatus
<1>2. w.pc = "init" /\ UNCHANGED <<exists, ruleVars, cacheVars>>
  BY DEF SaveInitStatus, At, targetVars
<1>3. /\ w.e \in Experiments /\ DOMAIN w = WorkerFields /\ w.pc \notin {"idle", "notFound"}
      /\ Sound(w.e, w.inst) /\ ~w.inst.finalizer /\ ~AtWork(w.e)
      /\ stored[w.e] # None => w.fresh
  BY <1>2, HereOpening
<1>4. ~w.inst.status.initialized
  BY <1>2, HereOpened DEF OpenPcs, Opened
<1>5. /\ UNCHANGED budget
      /\ outcome = "failed" <=> stored[w.e] = None
      /\ w.fresh => outcome # "conflict"
  BY <1>1, NothingRefused DEF HeldInv
<1>6. CASE outcome = "failed"
  BY <1>1, <1>2, <1>5, <1>6, IdleHeld DEF QuietOnly
<1>7. CASE outcome # "failed"
  <2>1. i.finalizer = w.inst.finalizer
    BY <1>3, <1>4, InitSound
  <2> HIDE DEF i
  <2>2. DOMAIN x = WorkerFields /\ x.inst = i /\ x.e = w.e /\ x.fresh = w.fresh
    BY <1>3, InstChanged
  <2>3. y = Goto(x, "finalizer")
    BY <1>3, <2>1, <2>2
  <2> HIDE DEF x, y
  <2>4. w' = Goto(x, "finalizer")
    BY <1>1, <1>7, <2>3
  <2>5. w'.pc = "finalizer" /\ w'.e = w.e /\ w'.fresh
    BY <1>3, <1>5, <1>7, <2>2, <2>4, GotoKeeps
  <2>6. Placed(w)'
    BY <2>5 DEF Placed, BusyPcs, RulePcs, UserPcs
  <2>7. outcome = "ok"
    BY <1>3, <1>5, <1>7, OutcomeFresh
  <2>8. PICK new : Store(w.e, new)
    BY <1>1, <2>7
  <2>9. Becomes(new)
    BY <2>8 DEF Becomes
  <2>10. /\ DOMAIN experimentAbstractStore' = Experiments
         /\ \A e \in Experiments : Claimed(e)' => Claimed(e)
    BY <1>2 DEF HeldInv, cacheVars, Claimed
  <2>11. QED
    BY <1>2, <1>3, <1>5, <2>5, <2>6, <2>9, <2>10, StoreHeld
<1>8. QED
  BY <1>6, <1>7

LEMMA AddFinalizerHeld ==
  ASSUME NoneIsNoObject, IInv, HeldInv, AddFinalizer
  PROVE  HeldInv'
<1> DEFINE i == [w.inst EXCEPT !.finalizer = TRUE]
           o == stored[w.e]
           new == [o EXCEPT !.spec = i.spec, !.finalizer = i.finalizer]
           p == Overlay("ok", i)
           x == [w EXCEPT !.inst = p]
<1>1. PICK outcome \in Outcomes :
        /\ Update(outcome, i)
        /\ w' = IF outcome = "failed" THEN Idle
                ELSE Goto([w EXCEPT !.inst = Overlay(outcome, i)], "dispatch")
  BY DEF AddFinalizer
<1>2. w.pc = "finalizer" /\ UNCHANGED <<exists, ruleVars, cacheVars>>
  BY DEF AddFinalizer, At, targetVars
<1>3. /\ w.e \in Experiments /\ DOMAIN w = WorkerFields /\ w.pc \notin {"idle", "notFound"}
      /\ Sound(w.e, w.inst) /\ ~AtWork(w.e)
      /\ stored[w.e] # None => w.fresh /\ Sound(w.e, stored[w.e])
  BY <1>2, HereOpening
<1>4. /\ UNCHANGED budget
      /\ outcome = "failed" <=> stored[w.e] = None
      /\ w.fresh => outcome # "conflict"
  BY <1>1, NothingRefused DEF HeldInv, Update
<1>5. CASE outcome = "failed"
  BY <1>1, <1>2, <1>4, <1>5, IdleHeld DEF QuietOnly, Update
<1>6. CASE outcome # "failed"
  <2>1. outcome = "ok" /\ IsCopy(o)
    BY <1>3, <1>4, <1>6, OutcomeFresh DEF Sound
  <2>2. DOMAIN i = ObjectFields /\ i.finalizer /\ IsCopy(i)
    <3>1. /\ DOMAIN i = ObjectFields /\ i.finalizer /\ i.finalizer \in BOOLEAN
          /\ i.deleting = w.inst.deleting /\ i.status = w.inst.status /\ i.spec = w.inst.spec
      BY <1>3 DEF Sound, IsCopy, ObjectFields
    <3> HIDE DEF i
    <3>2. QED
      BY <1>3, <3>1 DEF Sound, IsCopy
  <2>3. Store(w.e, new)
    BY <1>1, <2>1, <2>2 DEF Update
  <2>4. w' = Goto(x, "dispatch")
    BY <1>1, <2>1
  <2> HIDE DEF i
  <2>5. p.status.completed = o.status.completed
    BY <2>1, <2>2, OverlaySame
  <2> HIDE DEF p
  <2>6. DOMAIN x = WorkerFields /\ x.inst = p /\ x.e = w.e
    BY <1>3, InstChanged
  <2> HIDE DEF x
  <2>7. w'.pc = "dispatch" /\ w'.e = w.e /\ w'.inst = p
    BY <2>4, <2>6, GotoKeeps
  <2>8. DOMAIN new = ObjectFields /\ new.finalizer /\ new.status = o.status
    BY <2>1, <2>2 DEF IsCopy, ObjectFields
  <2> HIDE DEF new
  <2>9. new # None
    BY <2>8 DEF NoneIsNoObject
  <2>10. stored'[w.e] = new
    BY <1>3, <2>3 DEF Store, IInv, ObjectsInv
  <2>11. Held(w.e)' /\ w'.inst.status.completed = stored'[w.e].status.completed
    BY <2>5, <2>7, <2>8, <2>9, <2>10 DEF Held
  <2>12. Placed(w)'
    BY <2>7, <2>11 DEF Placed, Held, BusyPcs, RulePcs, UserPcs
  <2>13. Becomes(new)
    BY <2>3 DEF Becomes
  <2>14. /\ DOMAIN experimentAbstractStore' = Experiments
         /\ \A e \in Experiments : Claimed(e)' => Claimed(e)
    BY <1>2 DEF HeldInv, cacheVars, Claimed
  <2>15. QED
    BY <1>2, <1>3, <1>4, <2>7, <2>12, <2>13, <2>14, StoreHeld
<1>7. QED
  BY <1>5, <1>6

-----------------------------------------------------------------------------
(* The experiment is removed from the cache.                               *)

LEMMA ReleaseHeld ==
  ASSUME IInv, HeldInv, AtWork(w.e), w.pc \notin {"idle", "notFound"},
         Cache!RemoveExperiment(w.e), UNCHANGED <<apiVars, exists, ruleVars, budget>>,
         w'.e = w.e, Placed(w)'
  PROVE  HeldInv'
<1>1. w.e \in Experiments
  BY DEF IInv, WorkerInv
<1>2. /\ DOMAIN experimentAbstractStore' = Experiments
      /\ \A e \in Experiments : Claimed(e)' => Claimed(e)
  BY <1>1, RemoveReleases
<1>3. Becomes(stored[w.e]) /\ Running(stored[w.e])
  BY DEF Becomes, AtWork, Held, Running
<1>4. QED
  BY <1>2, <1>3, StoreHeld

\* Rules that run for the experiment are never refused.
LEMMA RefuseRulesHeld ==
  ASSUME Steady, IInv, AllServed, HeldInv, RefuseRules
  PROVE  HeldInv'
<1> DEFINE m == MarkRoutingRulesError(w, "GetError")
           x == [m EXCEPT !.taken = FALSE]
<1>1. w.pc = "rules" /\ Cache!RemoveExperiment(w.e) /\ UNCHANGED <<apiVars, exists, ruleVars>>
  BY DEF RefuseRules, At, targetVars
<1>2. /\ w.e \in Experiments /\ AtWork(w.e) /\ Working(w) /\ w.pc \notin {"idle", "notFound"}
      /\ Live(w) /\ Ready(w, stored[w.e])
  BY <1>1, HereBusy, HereReady DEF RulePcs
<1>3. PICK ok \in BOOLEAN :
        MayFail(ok) /\ (ok => ~RulesAccepted(dr[Svc(w)], vs[Svc(w)], w.e))
  BY DEF RefuseRules
<1>4. UNCHANGED budget /\ ~RulesAccepted(dr[Svc(w)], vs[Svc(w)], w.e)
  BY <1>3, NothingFails DEF HeldInv
<1>5. w' = Goto(x, "end")
  BY <1>2 DEF RefuseRules, Steady, SpecAt
<1>6. Works(w, m) /\ Live(m) /\ Ready(m, stored[w.e]) /\ m.e = w.e
  BY <1>2, MarksWork, WorksReady
<1> HIDE DEF m
<1>7. Working(x) /\ x.e = w.e
  BY <1>6, ReleaseReady DEF Ready
<1> HIDE DEF x
<1>8. Bare(w.e)
  <2> SUFFICES ASSUME NEW s \in Services, RunsFor(s, w.e)
               PROVE  FALSE
    BY DEF Bare
  <2>1. s = SpecOf[w.e].service
    BY <1>2 DEF HeldInv, Claims
  <2>2. Served(dr[s], vs[s])
    BY DEF AllServed
  <2>3. RulesAccepted(dr[s], vs[s], w.e)
    BY <2>2 DEF RunsFor, Served, RulesAccepted, IsProgressing
  <2>4. QED
    BY <1>4, <2>1, <2>3 DEF Svc, SpecAt
<1>9. w'.pc = "end" /\ w'.e = w.e /\ w'.inst = x.inst /\ ~x.inst.status.completed
  BY <1>5, <1>7, GotoKeeps DEF Working
<1>10. Held(w.e)' /\ Bare(w.e)'
  BY <1>1, <1>2, <1>8, <1>9 DEF AtWork, Held, Bare, RunsFor, apiVars, ruleVars
<1>11. Placed(w)'
  BY <1>9, <1>10 DEF Placed, BusyPcs, RulePcs, UserPcs, Held, Bare
<1>12. QED
  BY <1>1, <1>2, <1>4, <1>9, <1>11, ReleaseHeld

LEMMA CompleteHeld ==
  ASSUME Steady, IInv, HeldInv, Complete
  PROVE  HeldInv'
<1> DEFINE x == [w EXCEPT !.taken = FALSE]
<1>1. /\ w.pc = "complete" /\ w.pc \notin {"idle", "notFound"} /\ Cache!RemoveExperiment(w.e)
      /\ UNCHANGED <<apiVars, exists, ruleVars, budget>>
  BY DEF Complete, At, targetVars
<1>2. w.e \in Experiments /\ DOMAIN w = WorkerFields
  BY <1>1 DEF IInv, WorkerInv
<1>3. AtWork(w.e)
  BY <1>1 DEF HeldInv, Placed, BusyPcs
<1>4. DOMAIN x = WorkerFields /\ x.e = w.e
  BY <1>2 DEF WorkerFields
<1>5. w' = Goto(x, "cleanupDR")
  BY <1>2 DEF Complete, Steady, SpecAt
<1> HIDE DEF x
<1>6. w'.pc = "cleanupDR" /\ w'.e = w.e
  BY <1>4, <1>5, GotoKeeps
<1>7. experimentAbstractStore'[w.e] = None
  BY <1>1, <1>2, RemoveReleases
<1>8. AtWork(w.e)' /\ ~Claimed(w.e)'
  BY <1>1, <1>3, <1>6, <1>7 DEF AtWork, Held, Claimed, apiVars
<1>9. Placed(w)'
  BY <1>6, <1>8 DEF Placed, BusyPcs, RulePcs, UserPcs, AtWork, Claimed
<1>10. QED
  BY <1>1, <1>3, <1>6, <1>9, ReleaseHeld

-----------------------------------------------------------------------------
(* Writes of the rules.                                                    *)

LEMMA RulesHeld ==
  ASSUME IInv, HeldInv, w.pc \in WritePcs, UNCHANGED <<apiVars, exists, cacheVars, budget>>,
         NEW d, (dr' = dr /\ d = dr[Svc(w)]) \/ dr' = [dr EXCEPT ![Svc(w)] = d],
         NEW v, (vs' = vs /\ v = vs[Svc(w)]) \/ vs' = [vs EXCEPT ![Svc(w)] = v],
         IsProgressing(d, v) =>
           \/ /\ IsProgressing(dr[Svc(w)], vs[Svc(w)])
              /\ d.labels.experiment = dr[Svc(w)].labels.experiment
           \/ d.labels.experiment = w.e /\ TargetsExist(w.e),
         Placed(w)', w'.e = w.e
  PROVE  HeldInv'
<1>1. /\ w.e \in Experiments /\ Svc(w) = SpecOf[w.e].service
      /\ DOMAIN dr = Services /\ DOMAIN vs = Services
  BY HereWrites DEF Svc
<1>2. AtWork(w.e)
  BY DEF HeldInv, Placed, BusyPcs, WritePcs, RulePcs, UserPcs
<1>3. \A s \in Services : \/ dr'[s] = dr[s] /\ vs'[s] = vs[s]
                          \/ s = Svc(w) /\ dr'[s] = d /\ vs'[s] = v
  BY <1>1
<1>4. ASSUME NEW e \in Experiments, NEW s \in Services, RunsFor(s, e)'
      PROVE  RunsFor(s, e) \/ (e = w.e /\ s = SpecOf[e].service /\ TargetsExist(e))
  <2>1. CASE dr'[s] = dr[s] /\ vs'[s] = vs[s]
    BY <1>4, <2>1 DEF RunsFor
  <2>2. CASE s = Svc(w) /\ dr'[s] = d /\ vs'[s] = v
    BY <1>1, <1>4, <2>2 DEF RunsFor
  <2>3. QED
    BY <1>3, <2>1, <2>2
<1>5. \A e \in Experiments : /\ AtWork(e)' <=> AtWork(e)
                             /\ Claimed(e)' <=> Claimed(e)
                             /\ TargetsExist(e)' <=> TargetsExist(e)
  BY DEF AtWork, Held, Claimed, TargetsExist, apiVars, cacheVars
<1>6. Claims'
  BY <1>2, <1>4, <1>5 DEF HeldInv, Claims
<1>7. Unborn'
  BY DEF HeldInv, Unborn, apiVars, WritePcs
<1>8. Quota' /\ DOMAIN experimentAbstractStore' = Experiments
  BY DEF HeldInv, Quota, cacheVars
<1>9. QED
  BY <1>6, <1>7, <1>8 DEF HeldInv

LEMMA CalmStays ==
  ASSUME AtWork(w.e), stored' = stored, Calm(w.e, w')
  PROVE  Placed(w)' /\ w'.e = w.e
<1>1. /\ w'.e = w.e /\ w'.pc \in UserPcs \cup {"rules", "detect", "complete", "end"}
      /\ w'.pc = "end" => ~w'.inst.deleting /\ ~w'.inst.status.completed
  BY DEF Calm, UserPcs
<1>2. AtWork(w.e)'
  BY <1>1 DEF AtWork, Held
<1>3. QED
  BY <1>1, <1>2 DEF Placed, BusyPcs, RulePcs, UserPcs, AtWork

\* No call fails: the rule is written and the request goes on.
LEMMA WriteMade ==
  ASSUME HeldInv, NEW new, NEW next, NEW tag
  PROVE  /\ WriteDR(new, next, tag) =>
              /\ dr' = [dr EXCEPT ![Svc(w)] = new] /\ vs' = vs /\ w' = next
              /\ UNCHANGED <<apiVars, exists, cacheVars, budget>>
         /\ WriteVS(new, next, tag) =>
              /\ vs' = [vs EXCEPT ![Svc(w)] = new] /\ dr' = dr /\ w' = next
              /\ UNCHANGED <<apiVars, exists, cacheVars, budget>>
  BY NothingFails DEF HeldInv, WriteDR, WriteVS, targetVars

\* What the worker knows where it writes.
LEMMA HereBefore ==
  ASSUME IInv, KnownRules, HeldInv, w.pc \in WritePcs
  PROVE  LET d == dr[Svc(w)]
             v == vs[Svc(w)]
         IN /\ w.e \in Experiments /\ AtWork(w.e) /\ Working(w) /\ DOMAIN w = WorkerFields
            /\ w.pc \notin {"idle", "notFound"}
            /\ Owned(w, d, v)
            /\ d = None \/ HasLabels(d)
            /\ v = None \/ HasLabels(v)
<1>1. w.e \in Experiments /\ Svc(w) \in Services /\ DOMAIN w = WorkerFields
  BY HereWrites
<1>2. AtWork(w.e) /\ w.pc \notin {"idle", "notFound"}
  BY DEF HeldInv, Placed, BusyPcs, WritePcs, RulePcs, UserPcs
<1>3. Working(w)
  BY HereReady, HereCloses DEF WritePcs, RulePcs, UserPcs, CleanupPcs
<1>4. KnownRule(dr[Svc(w)]) /\ KnownRule(vs[Svc(w)])
  BY <1>1 DEF KnownRules
<1>5. QED
  BY <1>1, <1>2, <1>3, <1>4, HereOwned
  DEF KnownRule, FullRule, KnownLabels, LabelFields, HasLabels

LEMMA BaselineHeld ==
  ASSUME IInv, KnownRules, RulesLaid, HeldInv, UpdateBaselineDR \/ UpdateBaselineVS
  PROVE  HeldInv'
<1> DEFINE d == dr[Svc(w)]
           v == vs[Svc(w)]
           p == BaselineDestinationRule(d, w.e, SpecAt(w))
           q == BaselineVirtualService(v, w.e, SpecAt(w))
           x == [w EXCEPT !.inst.status.weights[0] = 100]
<1>1. w.pc \in {"baselineDR", "baselineVS"} /\ w.pc \in WritePcs
  BY DEF UpdateBaselineDR, UpdateBaselineVS, At, WritePcs
<1>2. /\ AtWork(w.e) /\ DOMAIN w = WorkerFields
      /\ d = None \/ HasLabels(d)
      /\ v = None \/ HasLabels(v)
  BY <1>1, HereBefore
<1>3. ~IsProgressing(d, v)
  BY <1>1 DEF RulesLaid, Laid
<1>4. /\ p.labels.role = "progressing" => d # None /\ d.labels.role = "progressing"
      /\ q.labels.role = "progressing" => v # None /\ v.labels.role = "progressing"
  BY <1>2, BaselineLabels
<1>5. ~IsProgressing(p, v) /\ ~IsProgressing(d, q)
  <2> HIDE DEF p, q
  <2>1. QED
    BY <1>3, <1>4 DEF IsProgressing
<1>6. {SpecAt(w).service, SpecAt(w).baseline} \subseteq exists
  BY <1>1 DEF HeldInv, Placed
<1>7. DOMAIN x = WorkerFields /\ x.e = w.e
  BY <1>2 DEF WorkerFields
<1> HIDE DEF x
<1>8. ASSUME w' = Goto(w, "baselineVS") \/ w' = Goto(x, "candidates"),
             UNCHANGED <<apiVars, exists>>
      PROVE  Placed(w)' /\ w'.e = w.e
  <2>1. w'.pc \in {"baselineVS", "candidates"} /\ w'.e = w.e
    BY <1>2, <1>7, <1>8, GotoKeeps
  <2>2. AtWork(w.e)' /\ SpecAt(w)' = SpecAt(w) /\ exists' = exists
    BY <1>2, <1>8, <2>1 DEF AtWork, Held, SpecAt, apiVars
  <2>3. QED
    BY <1>6, <2>1, <2>2 DEF Placed, BusyPcs, RulePcs, UserPcs, AtWork
<1> HIDE DEF p, q
<1>9. CASE UpdateBaselineDR
  <2>1. WriteDR(p, Goto(w, "baselineVS"), "UpdateError")
    BY <1>9 DEF UpdateBaselineDR, p
  <2>2. /\ dr' = [dr EXCEPT ![Svc(w)] = p] /\ vs' = vs /\ w' = Goto(w, "baselineVS")
        /\ UNCHANGED <<apiVars, exists, cacheVars, budget>>
    BY <2>1, WriteMade
  <2>3. QED
    BY <1>1, <1>5, <1>8, <2>2, RulesHeld
<1>10. CASE UpdateBaselineVS
  <2>1. WriteVS(q, Goto(x, "candidates"), "UpdateError")
    BY <1>10 DEF UpdateBaselineVS, q, x
  <2>2. /\ vs' = [vs EXCEPT ![Svc(w)] = q] /\ dr' = dr /\ w' = Goto(x, "candidates")
        /\ UNCHANGED <<apiVars, exists, cacheVars, budget>>
    BY <2>1, WriteMade
  <2>3. QED
    BY <1>1, <1>5, <1>8, <2>2, RulesHeld
<1>11. QED
  BY <1>9, <1>10

LEMMA CandidatesHeld ==
  ASSUME IInv, KnownRules, HeldInv, UpdateCandidatesDR \/ UpdateCandidatesVS
  PROVE  HeldInv'
<1> DEFINE d == dr[Svc(w)]
           v == vs[Svc(w)]
           p == CandidatesDestinationRule(d, SpecAt(w))
           q == CandidatesVirtualService(v)
           m == MarkTargetsFound(w)
<1>1. w.pc \in {"candidates", "candidatesVS"} /\ w.pc \in WritePcs
  BY DEF UpdateCandidatesDR, UpdateCandidatesVS, At, WritePcs
<1>2. /\ AtWork(w.e) /\ DOMAIN w = WorkerFields /\ Working(w)
      /\ Labelled(d, w.e) /\ Labelled(v, w.e)
  BY <1>1, HereBefore DEF Owned
<1>3. Labelled(p, w.e)
  BY <1>2, CandidatesLabels
<1>4. TargetsExist(w.e)
  <2>1. CASE UpdateCandidatesDR
    <3>1. /\ {SpecAt(w).service, SpecAt(w).baseline} \subseteq exists
          /\ Range(SpecAt(w).candidates) \subseteq exists
      BY <2>1 DEF HeldInv, Placed, UpdateCandidatesDR, At, CandidatesExist
    <3>2. QED
      BY <3>1 DEF TargetsExist, TargetsOf, SpecAt
  <2>2. CASE UpdateCandidatesVS
    BY <2>2 DEF HeldInv, Placed, UpdateCandidatesVS, At
  <2>3. QED
    BY <2>1, <2>2
<1>5. p.labels.experiment = w.e /\ d.labels.experiment = w.e
  BY <1>2, <1>3 DEF Labelled
<1>6. Works(w, m)
  BY <1>2, MarksWork
<1> HIDE DEF p, q
<1>7. CASE UpdateCandidatesDR
  <2>1. WriteDR(p, Goto(w, "candidatesVS"), "UpdateError")
    BY <1>7 DEF UpdateCandidatesDR, p
  <2>2. /\ dr' = [dr EXCEPT ![Svc(w)] = p] /\ vs' = vs /\ w' = Goto(w, "candidatesVS")
        /\ UNCHANGED <<apiVars, exists, cacheVars, budget>>
    BY <2>1, WriteMade
  <2>3. w'.pc = "candidatesVS" /\ w'.e = w.e
    BY <1>2, <2>2, GotoKeeps
  <2>4. AtWork(w.e)' /\ TargetsExist(w.e)'
    BY <1>2, <1>4, <2>2, <2>3 DEF AtWork, Held, TargetsExist, apiVars
  <2>5. Placed(w)'
    BY <2>3, <2>4 DEF Placed, BusyPcs, RulePcs, UserPcs, AtWork, TargetsExist
  <2>6. QED
    BY <1>1, <1>4, <1>5, <2>2, <2>3, <2>5, RulesHeld
<1>8. CASE UpdateCandidatesVS
  <2>1. WriteVS(q, AfterTargets(m), "UpdateError")
    BY <1>8 DEF UpdateCandidatesVS, q
  <2> HIDE DEF m
  <2>2. /\ vs' = [vs EXCEPT ![Svc(w)] = q] /\ dr' = dr /\ w' = AfterTargets(m)
        /\ UNCHANGED <<apiVars, exists, cacheVars, budget>>
    BY <2>1, WriteMade
  <2>3. Calm(w.e, w')
    BY <1>6, <2>2, CalmPlaces DEF Works
  <2>4. Placed(w)' /\ w'.e = w.e
    BY <1>2, <2>2, <2>3, CalmStays DEF apiVars
  <2>5. QED
    BY <1>1, <1>4, <1>5, <2>2, <2>4, RulesHeld
<1>9. QED
  BY <1>7, <1>8

LEMMA SplitHeld ==
  ASSUME IInv, KnownRules, HeldInv, UpdateTrafficSplit
  PROVE  HeldInv'
<1> DEFINE d == dr[Svc(w)]
           v == vs[Svc(w)]
           q == SplitVirtualService(v, SpecAt(w), w.inst.status.weights)
           m == MarkAssessmentUpdate(w)
<1>1. w.pc = "split" /\ w.pc \in WritePcs /\ v # None
  BY DEF UpdateTrafficSplit, At, WritePcs
<1>2. AtWork(w.e) /\ Working(w) /\ HasLabels(v)
  BY <1>1, HereBefore
<1>3. PICK ok \in BOOLEAN :
        MayFail(ok) /\ (ok => vs' = [vs EXCEPT ![Svc(w)] = q] /\ w' = Iterated(m))
  BY DEF UpdateTrafficSplit
<1>4. /\ vs' = [vs EXCEPT ![Svc(w)] = q] /\ dr' = dr /\ w' = Iterated(m)
      /\ UNCHANGED <<apiVars, exists, cacheVars, budget>>
  BY <1>3, NothingFails DEF HeldInv, UpdateTrafficSplit, targetVars
<1>5. q.labels = v.labels
  BY <1>2 DEF SplitVirtualService, HasLabels
<1> HIDE DEF q
<1>6. IsProgressing(d, q) => IsProgressing(d, v)
  BY <1>1, <1>5 DEF IsProgressing
<1>7. Works(w, m)
  BY <1>2, PhasesWork DEF MarkAssessmentUpdate
<1> HIDE DEF m
<1>8. Calm(w.e, w')
  BY <1>4, <1>7, CalmIterated DEF Works
<1>9. Placed(w)' /\ w'.e = w.e
  BY <1>2, <1>4, <1>8, CalmStays DEF apiVars
<1>10. QED
  BY <1>1, <1>4, <1>6, <1>9, RulesHeld

\* An experiment's rules run on its own service.
LEMMA BareAt ==
  ASSUME HeldInv, w.e \in Experiments, ~RunsFor(Svc(w), w.e)
  PROVE  Bare(w.e)
  BY DEF HeldInv, Claims, Bare, Svc, SpecAt

LEMMA CleanupDRHeld ==
  ASSUME Steady, IInv, KnownRules, HeldInv, CleanupDR
  PROVE  HeldInv'
<1> DEFINE d == dr[Svc(w)]
           v == vs[Svc(w)]
           q == StableDestinationRule(d, Stable(w))
<1>1. w.pc = "cleanupDR" /\ w.pc \in WritePcs /\ UNCHANGED <<apiVars, exists>>
  BY DEF CleanupDR, At, WritePcs, targetVars
<1>2. /\ w.e \in Experiments /\ AtWork(w.e) /\ DOMAIN w = WorkerFields
      /\ w.pc \notin {"idle", "notFound"} /\ Svc(w) \in Services
      /\ DOMAIN dr = Services /\ DOMAIN vs = Services /\ SpecAt(w) = SpecOf[w.e]
  BY <1>1, HereBefore, HereWrites
<1>3. ~Claimed(w.e) /\ ~Removing(w)
  BY <1>1, <1>2 DEF HeldInv, Placed, Removing, Steady
<1>4. PICK ok \in BOOLEAN :
        /\ IF d = None THEN ~ok /\ UNCHANGED budget ELSE MayFail(ok)
        /\ IF ok
             THEN /\ dr' = [dr EXCEPT ![Svc(w)] = IF Removing(w) THEN None ELSE q]
                  /\ w' = Goto(w, "cleanupVS")
                  /\ UNCHANGED <<vs, cacheVars, timer>>
             ELSE CleanupFails
  BY DEF CleanupDR
<1>5. CASE d = None
  <2>1. CleanupFails /\ UNCHANGED <<budget, ruleVars>>
    BY <1>4, <1>5 DEF CleanupFails
  <2>2. Bare(w.e)
    BY <1>2, <1>5, BareAt DEF RunsFor, IsProgressing
  <2>3. CASE Finalizing
    <3>1. w' = Goto(w, "unfinalize") /\ Cache!RemoveExperiment(w.e)
      BY <2>1, <2>3 DEF CleanupFails, ForgetFinalized
    <3>2. w'.pc = "unfinalize" /\ w'.e = w.e
      BY <1>2, <3>1, GotoKeeps
    <3>3. experimentAbstractStore'[w.e] = None
      BY <1>2, <3>1, RemoveReleases
    <3>4. Held(w.e)' /\ Bare(w.e)' /\ ~Claimed(w.e)'
      BY <1>1, <1>2, <2>1, <2>2, <3>2, <3>3
      DEF AtWork, Held, Bare, RunsFor, Claimed, apiVars, ruleVars
    <3>5. Placed(w)'
      BY <3>2, <3>4 DEF Placed, BusyPcs, RulePcs, UserPcs
    <3>6. QED
      BY <1>1, <1>2, <2>1, <3>1, <3>2, <3>5, ReleaseHeld
  <2>4. CASE ~Finalizing
    BY <1>1, <2>1, <2>4, IdleHeld DEF CleanupFails, QuietOnly
  <2>5. QED
    BY <2>3, <2>4
<1>6. CASE d # None
  <2>1. MayFail(ok)
    BY <1>4, <1>6
  <2>2. ok /\ UNCHANGED budget
    BY <2>1, NothingFails DEF HeldInv
  <2>3. /\ dr' = [dr EXCEPT ![Svc(w)] = q] /\ w' = Goto(w, "cleanupVS")
        /\ UNCHANGED <<vs, cacheVars>>
    BY <1>3, <1>4, <2>2
  <2>4. q.labels.role = "stable"
    BY StableLabelled
  <2> HIDE DEF q
  <2>5. ~IsProgressing(q, v)
    BY <2>4 DEF IsProgressing
  <2>6. w'.pc = "cleanupVS" /\ w'.e = w.e
    BY <1>2, <2>3, GotoKeeps
  <2>7. ASSUME NEW s \in Services, RunsFor(s, w.e)'
        PROVE  FALSE
    <3>1. CASE s = Svc(w)
      BY <1>2, <2>3, <2>5, <2>6, <2>7, <3>1 DEF RunsFor
    <3>2. CASE s # Svc(w)
      <4>1. RunsFor(s, w.e)
        BY <1>2, <2>3, <2>6, <2>7, <3>2 DEF RunsFor
      <4>2. QED
        BY <1>2, <3>2, <4>1 DEF HeldInv, Claims, Svc
    <3>3. QED
      BY <3>1, <3>2
  <2>8. AtWork(w.e)' /\ ~Claimed(w.e)' /\ Bare(w.e)'
    BY <1>1, <1>2, <1>3, <2>3, <2>6, <2>7 DEF AtWork, Held, Claimed, Bare, apiVars, cacheVars
  <2>9. Placed(w)'
    BY <2>6, <2>8 DEF Placed, BusyPcs, RulePcs, UserPcs
  <2>10. QED
    BY <1>1, <2>2, <2>3, <2>5, <2>6, <2>9, RulesHeld
<1>7. QED
  BY <1>5, <1>6

LEMMA CleanupVSHeld ==
  ASSUME IInv, KnownRules, HeldInv, CleanupVS
  PROVE  HeldInv'
<1> DEFINE d == dr[Svc(w)]
           v == vs[Svc(w)]
           q == IF d = None THEN None
                ELSE StableVirtualService(v, Stable(w), w.inst.spec.onTermination,
                                          w.inst.status.weights)
           m == MarkExperimentCompleted(w)
<1>1. w.pc = "cleanupVS" /\ w.pc \in WritePcs /\ UNCHANGED <<apiVars, exists>>
  BY DEF CleanupVS, At, WritePcs, targetVars
<1>2. /\ w.e \in Experiments /\ AtWork(w.e) /\ DOMAIN w = WorkerFields
      /\ DOMAIN dr = Services /\ DOMAIN vs = Services /\ Svc(w) \in Services
  BY <1>1, HereBefore, HereWrites
<1>3. ~Claimed(w.e) /\ Bare(w.e)
  BY <1>1 DEF HeldInv, Placed
<1>4. PICK ok \in BOOLEAN :
        /\ MayFail(ok)
        /\ ok => /\ vs' = [vs EXCEPT ![Svc(w)] = q] /\ w' = Goto(m, "end")
                 /\ UNCHANGED <<dr, cacheVars>>
  BY DEF CleanupVS
<1>5. UNCHANGED budget /\ ok
  BY <1>4, NothingFails DEF HeldInv
<1>6. DOMAIN m = WorkerFields /\ m.e = w.e
  BY <1>2 DEF MarkExperimentCompleted, MarkPhase, WorkerFields
<1> HIDE DEF m
<1>7. w'.pc = "end" /\ w'.e = w.e
  BY <1>4, <1>5, <1>6, GotoKeeps
<1>8. ~IsProgressing(d, q)
  BY DEF IsProgressing, StableVirtualService, StableLabels
<1> HIDE DEF q
<1>9. \A s \in Services : RunsFor(s, w.e)' => RunsFor(s, w.e)
  <2> SUFFICES ASSUME NEW s \in Services, RunsFor(s, w.e)' PROVE RunsFor(s, w.e)
    OBVIOUS
  <2>1. dr'[s] = dr[s] /\ vs'[s] = IF s = Svc(w) THEN q ELSE vs[s]
    BY <1>2, <1>4, <1>5
  <2>2. QED
    BY <1>7, <1>8, <2>1 DEF RunsFor
<1>10. Held(w.e)' /\ ~Claimed(w.e)' /\ Bare(w.e)'
  BY <1>1, <1>2, <1>3, <1>4, <1>5, <1>7, <1>9
  DEF AtWork, Held, Claimed, Bare, apiVars, cacheVars
<1>11. Placed(w)'
  BY <1>7, <1>10 DEF Placed, BusyPcs, RulePcs, UserPcs
<1>12. QED
  BY <1>1, <1>4, <1>5, <1>7, <1>8, <1>11, RulesHeld

-----------------------------------------------------------------------------
(* What happens besides the worker.                                        *)

\* Objects that are held stay held; nothing is claimed and no rules are written.
LEMMA BesidesHeld ==
  ASSUME IInv, HeldInv, w'.pc = w.pc, w'.e = w.e,
         w.pc \in {"dispatch", "end"} =>
           /\ w'.inst.deleting = w.inst.deleting
           /\ w'.inst.status.completed = w.inst.status.completed,
         w.pc \in {"init", "finalizer"} /\ stored'[w.e] # None => w'.fresh,
         \A f \in Experiments :
           Held(f) => stored'[f] # None /\ stored'[f].finalizer
                      /\ stored'[f].status.completed = stored[f].status.completed,
         exists \subseteq exists', UNCHANGED ruleVars,
         DOMAIN experimentAbstractStore' = Experiments,
         \A f \in Experiments : Claimed(f)' => Claimed(f),
         Quota', Unborn'
  PROVE  HeldInv'
<1>1. \A f \in Experiments : /\ Held(f) => Held(f)'
                             /\ AtWork(f) => AtWork(f)'
                             /\ TargetsExist(f) => TargetsExist(f)'
  BY DEF Held, AtWork, TargetsExist
<1>2. \A f \in Experiments : /\ \A s \in Services : RunsFor(s, f)' <=> RunsFor(s, f)
                             /\ Bare(f)' <=> Bare(f)
  BY DEF RunsFor, Bare, ruleVars
<1>3. Claims'
  BY <1>1, <1>2, ClaimsKept DEF HeldInv
<1>4. Placed(w)'
  <2>1. CASE w.pc = "idle"
    BY <2>1 DEF Placed, BusyPcs, RulePcs, UserPcs
  <2>2. CASE w.pc # "idle"
    <3>1. w.e \in Experiments /\ Placed(w) /\ SpecAt(w)' = SpecAt(w)
      BY <2>2 DEF IInv, WorkerInv, HeldInv, SpecAt
    <3>2. /\ Held(w.e) => Held(w.e)'
          /\ AtWork(w.e) => AtWork(w.e)'
          /\ TargetsExist(w.e) => TargetsExist(w.e)'
          /\ ~Claimed(w.e) => ~Claimed(w.e)'
          /\ Bare(w.e) => Bare(w.e)'
          /\ Held(w.e) => stored'[w.e].status.completed = stored[w.e].status.completed
      <4>1. /\ Held(w.e) => Held(w.e)'
            /\ AtWork(w.e) => AtWork(w.e)'
        BY <3>1 DEF Held, AtWork
      <4>2. /\ TargetsExist(w.e) => TargetsExist(w.e)'
            /\ Bare(w.e) => Bare(w.e)'
        BY DEF TargetsExist, Bare, RunsFor, ruleVars
      <4>3. ~Claimed(w.e) => ~Claimed(w.e)'
        BY <3>1 DEF Claimed
      <4>4. QED
        BY <3>1, <4>1, <4>2, <4>3
    <3>3. QED
      BY <3>1, <3>2 DEF Placed, BusyPcs, RulePcs, UserPcs
  <2>3. QED
    BY <2>1, <2>2
<1>5. QED
  BY <1>3, <1>4 DEF HeldInv

LEMMA AsideHeld ==
  ASSUME IInv, HeldInv, UNCHANGED <<stored, w, ruleVars>>, exists \subseteq exists',
         DOMAIN experimentAbstractStore' = Experiments,
         \A f \in Experiments : Claimed(f)' => Claimed(f),
         Quota', Unborn'
  PROVE  HeldInv'
<1>1. w.pc \in {"init", "finalizer"} /\ stored'[w.e] # None => w'.fresh
  BY DEF HeldInv, Placed
<1>2. QED
  BY <1>1, BesidesHeld DEF Held

LEMMA QueuesHeld ==
  ASSUME IInv, HeldInv,
         \/ \E e \in Experiments : TimerFires(e)
         \/ \E t \in Targets : EnqueueOwner(t) \/ UserCreatesTarget(t)
         \/ UNCHANGED vars
  PROVE  HeldInv'
<1>1. /\ UNCHANGED <<stored, cached, w, ruleVars, cacheVars>> /\ exists \subseteq exists'
      /\ \/ budget' = budget
         \/ budget' = [budget EXCEPT !.arrivals = @ - 1]
  BY DEF TimerFires, EnqueueOwner, UserCreatesTarget, targetVars, apiVars, vars
<1>2. DOMAIN budget = BudgetFields
  BY DEF IInv, ObjectsInv
<1>3. budget'.uncreated = budget.uncreated /\ Quota'
  BY <1>1, <1>2 DEF HeldInv, Quota, BudgetFields
<1>4. Unborn'
  BY <1>1, <1>3 DEF HeldInv, Unborn
<1>5. /\ DOMAIN experimentAbstractStore' = Experiments
      /\ \A f \in Experiments : Claimed(f)' => Claimed(f)
  BY <1>1 DEF HeldInv, cacheVars, Claimed
<1>6. QED
  BY <1>1, <1>3, <1>4, <1>5, AsideHeld

LEMMA DeliverHeld ==
  ASSUME IInv, HeldInv, NEW e \in Experiments, Deliver(e)
  PROVE  HeldInv'
<1>1. /\ UNCHANGED <<stored, w, ruleVars, cacheVars, budget, exists>>
      /\ cached' = [cached EXCEPT ![e] = stored[e]]
  BY DEF Deliver, targetVars
<1>2. Unborn'
  BY <1>1 DEF HeldInv, Unborn, IInv, ObjectsInv
<1>3. /\ DOMAIN experimentAbstractStore' = Experiments
      /\ \A f \in Experiments : Claimed(f)' => Claimed(f)
  BY <1>1 DEF HeldInv, cacheVars, Claimed
<1>4. Quota'
  BY <1>1 DEF HeldInv, Quota
<1>5. QED
  BY <1>1, <1>2, <1>3, <1>4, AsideHeld

\* The mark goes to an abstract that is there.
LEMMA TargetEventHeld ==
  ASSUME IInv, Cache!LookupSound, HeldInv, NEW t \in Targets, HandleTargetEvent(t)
  PROVE  HeldInv'
<1> DEFINE o == Cache!OwnerOf(t)
<1>1. UNCHANGED <<stored, cached, w, ruleVars, budget, exists>>
  BY DEF HandleTargetEvent, apiVars
<1>2. o # None => Cache!Registered(o)
  BY DEF Cache!LookupSound, Cache!OwnerOf, Targets
<1>3. \/ UNCHANGED cacheVars
      \/ /\ o # None
         /\ \E a : experimentAbstractStore' = [experimentAbstractStore EXCEPT ![o] = a]
  BY DEF HandleTargetEvent, Cache!MarkTarget
<1> HIDE DEF o
<1>4. /\ DOMAIN experimentAbstractStore' = Experiments
      /\ \A f \in Experiments : Claimed(f)' => Claimed(f)
  BY <1>2, <1>3 DEF HeldInv, cacheVars, Claimed, Cache!Registered
<1>5. Quota' /\ Unborn'
  BY <1>1 DEF HeldInv, Quota, Unborn
<1>6. QED
  BY <1>1, <1>4, <1>5, AsideHeld

LEMMA AgingHeld ==
  ASSUME NoneIsNoObject, IInv, HeldInv, NEW e \in Experiments, IntervalElapses(e)
  PROVE  HeldInv'
<1> DEFINE Age(o) == IF o # None /\ o.status.lastUpdate = "recent"
                       THEN [o EXCEPT !.status.lastUpdate = "past"] ELSE o
<1>1. /\ stored' = [stored EXCEPT ![e] = Age(stored[e])]
      /\ cached' = [cached EXCEPT ![e] = Age(cached[e])]
      /\ w' = IF w.e = e THEN [w EXCEPT !.inst = Age(w.inst)] ELSE w
      /\ UNCHANGED <<exists, ruleVars, cacheVars, budget>>
  BY DEF IntervalElapses, targetVars
<1>2. \A o : IsCopy(o) => /\ DOMAIN Age(o) = ObjectFields
                          /\ Age(o).finalizer = o.finalizer /\ Age(o).deleting = o.deleting
                          /\ Age(o).status.completed = o.status.completed
  BY DEF IsCopy, ObjectFields, SpecFields, StatusFields
<1>3. Age(None) = None
  OBVIOUS
<1> HIDE DEF Age
<1>4. \A f \in Experiments :
        /\ stored[f] = None \/ IsCopy(stored[f])
        /\ stored[f] = None => stored'[f] = None
        /\ cached[f] = None => cached'[f] = None
  BY <1>1, <1>3 DEF IInv, ObjectsInv, Sound
<1>5. \A f \in Experiments :
        Held(f) => stored'[f] # None /\ stored'[f].finalizer
                   /\ stored'[f].status.completed = stored[f].status.completed
  BY <1>1, <1>2, <1>4 DEF Held, NoneIsNoObject, IInv, ObjectsInv
<1>6. /\ w'.pc = w.pc /\ w'.e = w.e /\ w'.fresh = w.fresh
      /\ w'.inst = w.inst \/ w'.inst = Age(w.inst)
  <2>1. DOMAIN w = WorkerFields
    BY DEF IInv, WorkerInv
  <2>2. QED
    BY <1>1, <2>1, InstChanged
<1>7. w.pc \in {"dispatch", "end"} => IsCopy(w.inst)
  BY DEF IInv, WorkerInv, OpenPcs, Opened, Sound, Ended
<1>8. w.pc \in {"init", "finalizer"} /\ stored'[w.e] # None => w'.fresh
  BY <1>4, <1>6 DEF HeldInv, Placed, IInv, WorkerInv
<1>9. Quota' /\ Unborn'
  BY <1>1, <1>4, <1>6 DEF HeldInv, Quota, Unborn
<1>10. /\ DOMAIN experimentAbstractStore' = Experiments
       /\ \A f \in Experiments : Claimed(f)' => Claimed(f)
  BY <1>1 DEF HeldInv, cacheVars, Claimed
<1>11. QED
  BY <1>1, <1>2, <1>5, <1>6, <1>7, <1>8, <1>9, <1>10, BesidesHeld

\* An edit that leaves finalizer and completion of a held object alone.
LEMMA EditHeld ==
  ASSUME IInv, HeldInv, NEW e \in Experiments, NEW new, Edit(e, new),
         Held(e) => new # None /\ new.finalizer
                    /\ new.status.completed = stored[e].status.completed,
         w.e = e /\ w.pc \in {"init", "finalizer"} => new = None,
         Quota', budget'.uncreated \subseteq budget.uncreated
  PROVE  HeldInv'
<1>1. /\ stored' = [stored EXCEPT ![e] = new] /\ cached' = cached
      /\ w' = IF w.e = e THEN [w EXCEPT !.fresh = FALSE] ELSE w
      /\ UNCHANGED <<exists, ruleVars, cacheVars>>
  BY DEF Edit, Store, targetVars
<1>2. DOMAIN w = WorkerFields /\ DOMAIN stored = Experiments
  BY DEF IInv, WorkerInv, ObjectsInv
<1>3. /\ w'.pc = w.pc /\ w'.e = w.e /\ w'.inst = w.inst
      /\ w.e # e => w'.fresh = w.fresh
  BY <1>1, <1>2 DEF WorkerFields
<1>4. w.pc \in {"init", "finalizer"} /\ stored'[w.e] # None => w'.fresh
  BY <1>1, <1>2, <1>3 DEF HeldInv, Placed
<1>5. \A f \in Experiments :
        Held(f) => stored'[f] # None /\ stored'[f].finalizer
                   /\ stored'[f].status.completed = stored[f].status.completed
  BY <1>1, <1>2 DEF Held
<1>6. Unborn'
  BY <1>1, <1>3 DEF HeldInv, Unborn
<1>7. /\ DOMAIN experimentAbstractStore' = Experiments
      /\ \A f \in Experiments : Claimed(f)' => Claimed(f)
  BY <1>1 DEF HeldInv, cacheVars, Claimed
<1>8. QED
  BY <1>1, <1>3, <1>4, <1>5, <1>6, <1>7, BesidesHeld

LEMMA UsersHeld ==
  ASSUME NoneIsNoObject, IInv, HeldInv, NEW e \in Experiments, UserCreates(e) \/ UserDeletes(e)
  PROVE  HeldInv'
<1>1. DOMAIN budget = BudgetFields
  BY DEF IInv, ObjectsInv
<1>2. CASE UserCreates(e)
  <2> DEFINE new == NewObject(e)
  <2>1. /\ e \in budget.uncreated /\ Edit(e, new)
        /\ budget' = [budget EXCEPT !.uncreated = @ \ {e}]
    BY <1>2 DEF UserCreates
  <2> HIDE DEF new
  <2>2. stored[e] = None /\ (w.e = e => w.pc \notin {"init", "finalizer"})
    BY <2>1 DEF IInv, ObjectsInv, HeldInv, Unborn
  <2>3. Quota' /\ budget'.uncreated \subseteq budget.uncreated
    BY <1>1, <2>1 DEF HeldInv, Quota, BudgetFields
  <2>4. QED
    BY <2>1, <2>2, <2>3, EditHeld DEF Held
<1>3. CASE UserDeletes(e)
  <2> DEFINE o == stored[e]
             new == [o EXCEPT !.deleting = TRUE]
  <2>1. o # None /\ Edit(e, IF o.finalizer THEN new ELSE None) /\ UNCHANGED budget
    BY <1>3 DEF UserDeletes
  <2>2. Quota' /\ budget'.uncreated \subseteq budget.uncreated
    BY <2>1 DEF HeldInv, Quota
  <2>3. CASE o.finalizer
    <3>1. IsCopy(o)
      BY <2>1 DEF IInv, ObjectsInv, Sound
    <3>2. DOMAIN new = ObjectFields /\ new.finalizer = o.finalizer /\ new.status = o.status
      BY <3>1 DEF IsCopy, ObjectFields
    <3>3. Edit(e, new)
      BY <2>1, <2>3
    <3> HIDE DEF new
    <3>4. new # None
      BY <3>2 DEF NoneIsNoObject
    <3>5. ~(w.e = e /\ w.pc \in {"init", "finalizer"})
      BY <2>1, <2>3, HereOpening, HereOpened DEF OpenPcs, Opened, Saves
    <3>6. QED
      BY <2>2, <2>3, <3>2, <3>3, <3>4, <3>5, EditHeld
  <2>4. CASE ~o.finalizer
    <3>1. Edit(e, None) /\ ~Held(e)
      BY <2>1, <2>4 DEF Held
    <3>2. QED
      BY <2>2, <3>1, EditHeld
  <2>5. QED
    BY <2>3, <2>4
<1>4. QED
  BY <1>2, <1>3

LEMMA CrashHeld ==
  ASSUME IInv, HeldInv, Crash
  PROVE  HeldInv'
<1>1. Restart /\ budget' = [budget EXCEPT !.crashes = @ - 1] /\ DOMAIN budget = BudgetFields
  BY DEF Crash, IInv, ObjectsInv
<1>2. Quota' /\ budget'.uncreated = budget.uncreated
  BY <1>1 DEF HeldInv, Quota, BudgetFields
<1>3. QED
  BY <1>1, <1>2, RestartHeld

-----------------------------------------------------------------------------
(* Nothing is left behind.                                                 *)

\* Steps no steady run takes.
LEMMA NeverTaken ==
  ASSUME HeldInv
  PROVE  /\ ~MetricsUnreadable /\ ~AnalyticsFails /\ ~CleanupTargets
         /\ \A e \in Experiments, o \in UserOverrides : ~UserOverridesTo(e, o)
         /\ \A t \in Targets : ~UserDeletesTarget(t)
  BY DEF HeldInv, Quota, Placed, MetricsUnreadable, AnalyticsFails, MayFail, CleanupTargets,
         UserOverridesTo, UserDeletesTarget

LEMMA NextHeld ==
  ASSUME Steady, NoneIsNoObject, IInv, KnownRules, RulesLaid, AllServed, Cache!LookupSound,
         HeldInv, [Next]_vars
  PROVE  HeldInv'
<1>1. CASE \E e \in Experiments : Fetch(e) \/ Deliver(e) \/ IntervalElapses(e)
  BY <1>1, FetchHeld, DeliverHeld, AgingHeld
<1>2. CASE \E e \in Experiments : UserCreates(e) \/ UserDeletes(e)
  BY <1>2, UsersHeld
<1>3. CASE \/ \E e \in Experiments : TimerFires(e)
           \/ \E t \in Targets : EnqueueOwner(t) \/ UserCreatesTarget(t)
           \/ UNCHANGED vars
  BY <1>3, QueuesHeld
<1>4. CASE \E t \in Targets : HandleTargetEvent(t)
  BY <1>4, TargetEventHeld
<1>5. CASE Crash
  BY <1>5, CrashHeld
<1>6. CASE NotFound \/ SaveInitStatus \/ AddFinalizer \/ StartFinalize \/ SkipCompleted
           \/ Reject \/ Begin \/ SavePause \/ SaveResume \/ SyncMetrics
  BY <1>6, SkipsHeld, SaveInitStatusHeld, AddFinalizerHeld, StartFinalizeHeld, RejectHeld,
     BeginHeld, SavePauseHeld, SaveResumeHeld, SyncMetricsHeld
<1>7. CASE UseRules \/ RefuseRules \/ DetectTargets \/ MissingCandidate
           \/ IterateWithoutCriteria \/ SplitWithoutRules
           \/ \E r \in Responses : Abort(r) \/ FollowRecommendation(r)
  BY <1>7, UseRulesHeld, RefuseRulesHeld, DetectTargetsHeld, MissingCandidateHeld, IterateHeld,
     SplitWithoutRulesHeld, AbortHeld, AnswerHeld
<1>8. CASE UpdateBaselineDR \/ UpdateBaselineVS \/ UpdateCandidatesDR \/ UpdateCandidatesVS
           \/ UpdateTrafficSplit
  BY <1>8, BaselineHeld, CandidatesHeld, SplitHeld
<1>9. CASE Complete \/ CleanupDR \/ CleanupVS \/ End \/ Unfinalize
  BY <1>9, CompleteHeld, CleanupDRHeld, CleanupVSHeld, EndHeld, UnfinalizeHeld
<1>10. QED
  BY <1>1, <1>2, <1>3, <1>4, <1>5, <1>6, <1>7, <1>8, <1>9, NeverTaken
  DEF Next, Reconcile, Environment

LEMMA InitHeld ==
  ASSUME Steady, Init
  PROVE  HeldInv
<1>1. /\ w = Idle /\ \A e \in Experiments : stored[e] = None /\ cached[e] = None
      /\ experimentAbstractStore = [e \in Experiments |-> None]
      /\ budget = [uncreated |-> Experiments, overrides |-> MaxOverrides,
                   arrivals |-> MaxArrivals, losses |-> MaxLosses, failures |-> MaxFailures,
                   crashes |-> MaxCrashes]
  BY DEF Init, Cache!CacheInit
<1>2. Quota
  BY <1>1 DEF Steady, Quota
<1>3. Unborn
  BY <1>1 DEF Unborn, Idle
<1>4. Placed(w) /\ DOMAIN experimentAbstractStore = Experiments
  BY <1>1, IdlePlaced
<1>5. \A s \in Services : ~IsProgressing(dr[s], vs[s])
  BY InitQuiet
<1>6. Claims
  BY <1>1, <1>5 DEF Claims, Claimed, RunsFor
<1>7. QED
  BY <1>2, <1>3, <1>4, <1>6 DEF HeldInv

LEMMA HeldReleases ==
  ASSUME AllServed, HeldInv
  PROVE  GoneReleased
<1> SUFFICES ASSUME NEW e \in Experiments, stored[e] = None
             PROVE  /\ ~Cache!Registered(e)
                    /\ \A s \in Services :
                         IsProgressing(dr[s], vs[s]) =>
                           e \notin {dr[s].labels.experiment, vs[s].labels.experiment}
  BY DEF GoneReleased
<1>1. ~AtWork(e)
  BY DEF AtWork, Held
<1>2. ~Claimed(e) /\ \A s \in Services : ~RunsFor(s, e)
  BY <1>1 DEF HeldInv, Claims
<1>3. ASSUME NEW s \in Services, IsProgressing(dr[s], vs[s])
      PROVE  e \notin {dr[s].labels.experiment, vs[s].labels.experiment}
  BY <1>2, <1>3 DEF AllServed, Served, RunsFor
<1>4. QED
  BY <1>2, <1>3 DEF Claimed, Cache!Registered

(***************************************************************************)
(* An experiment that is gone has given back its targets, and no rules run *)
(* on its behalf any more, for any number of rivals over any services and  *)
(* deployments, each created, deleted and completed at any time, and       *)
(* whatever crashes and targets that appear come between. The finalizer is *)
(* removed only behind the rules and the claims, and while it is there the *)
(* object is. None of the limits of Steady can go: one failed call, edit,  *)
(* stale read, lost target or cleanup is enough to leave rules or targets. *)
(***************************************************************************)
THEOREM NothingLeftBehind ==
  ASSUME Steady, NoneIsNoAbstract, NoneIsNoObject
  PROVE  Spec => []GoneReleased
<1>1. Spec => []ServedInv
  BY ServedHolds
<1>2. Spec => []Cache!LookupSound
  BY CacheHolds
<1>3. Init => HeldInv
  BY InitHeld
<1>4. ServedInv /\ Cache!LookupSound /\ HeldInv /\ [Next]_vars => HeldInv'
  BY NextHeld DEF ServedInv
<1>5. ServedInv /\ HeldInv => GoneReleased
  BY HeldReleases DEF ServedInv
<1>6. QED
  BY <1>1, <1>2, <1>3, <1>4, <1>5, PTL DEF Spec
=============================================================================
