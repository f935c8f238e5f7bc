----------------------- MODULE ReconcilerCacheProofs -----------------------
(***************************************************************************)
(* Proof that the controller uses its cache the way Iter8Cache's           *)
(* environment does, for any experiments, targets, answers, edits and      *)
(* bounds: every step of the reconciler is a step of Iter8Cache, with the  *)
(* experiment the worker has taken but not registered yet as its worker,   *)
(* or leaves cache, requests and that worker alone.                        *)
(***************************************************************************)
EXTENDS ReconcilerProofs

Uses == Cache!Next \/ UNCHANGED Cache!vars

\* The same request, held for the same experiment.
Carries(x, y) == DOMAIN y = WorkerFields /\ y.taken = x.taken /\ y.e = x.e

-----------------------------------------------------------------------------
(* Steps on the worker's copy carry the request on.                        *)

LEMMA GotoCarries ==
  ASSUME NEW x, DOMAIN x = WorkerFields, NEW pc
  PROVE  Carries(x, Goto(x, pc))
  BY DEF Goto, Carries, WorkerFields

LEMMA MarksCarry ==
  ASSUME NEW x, DOMAIN x = WorkerFields, NEW tag
  PROVE  /\ Carries(x, MarkTargetsError(x, tag))
         /\ Carries(x, MarkTargetsFound(x))
         /\ Carries(x, MarkRoutingRulesError(x, tag))
         /\ Carries(x, MarkRoutingRulesReady(x))
         /\ Carries(x, MarkAnalyticsServiceError(x))
         /\ Carries(x, MarkAnalyticsServiceRunning(x))
         /\ Carries(x, MarkSyncMetrics(x))
<1> USE DEF Carries, WorkerFields
<1>1. Carries(x, MarkTargetsError(x, tag)) BY DEF MarkTargetsError
<1>2. Carries(x, MarkTargetsFound(x)) BY DEF MarkTargetsFound
<1>3. Carries(x, MarkRoutingRulesError(x, tag)) BY DEF MarkRoutingRulesError
<1>4. Carries(x, MarkRoutingRulesReady(x)) BY DEF MarkRoutingRulesReady
<1>5. Carries(x, MarkAnalyticsServiceError(x)) BY DEF MarkAnalyticsServiceError
<1>6. Carries(x, MarkAnalyticsServiceRunning(x)) BY DEF MarkAnalyticsServiceRunning
<1>7. Carries(x, MarkSyncMetrics(x)) BY DEF MarkSyncMetrics
<1>8. QED BY <1>1, <1>2, <1>3, <1>4, <1>5, <1>6, <1>7

LEMMA PhasesCarry ==
  ASSUME NEW x, DOMAIN x = WorkerFields
  PROVE  /\ Carries(x, MarkAssessmentUpdate(x))
         /\ Carries(x, MarkIterationUpdate(x))
         /\ Carries(x, MarkExperimentCompleted(x))
         /\ Carries(x, MarkActionPause(x))
         /\ Carries(x, MarkActionResume(x))
<1>1. \A phase : Carries(x, MarkPhase(x, phase))
  BY DEF MarkPhase, Carries, WorkerFields
<1>2. \A y, z : Carries(x, y) => /\ Carries(x, [y EXCEPT !.progress = z])
                                 /\ Carries(x, [y EXCEPT !.refresh = z])
  BY DEF Carries, WorkerFields
<1>3. QED
  BY <1>1, <1>2
  DEF MarkAssessmentUpdate, MarkIterationUpdate, MarkExperimentCompleted, MarkActionPause,
      MarkActionResume

\* Changes of the copy alone.
LEMMA InstCarries ==
  ASSUME NEW x, DOMAIN x = WorkerFields, NEW i
  PROVE  Carries(x, [x EXCEPT !.inst = i])
  BY DEF Carries, WorkerFields

LEMMA PlacesCarry ==
  ASSUME NEW x, DOMAIN x = WorkerFields
  PROVE  /\ Carries(x, AfterUpdate(x))
         /\ Carries(x, AfterTargets(x))
         /\ Carries(x, AfterRules(x))
         /\ Carries(x, AfterProceed(x))
<1>1. Carries(x, AfterUpdate(x))
  BY GotoCarries DEF AfterUpdate
<1>2. Carries(x, AfterTargets(x))
  BY <1>1, GotoCarries DEF AfterTargets
<1>3. Carries(x, AfterRules(x))
  BY <1>2, GotoCarries DEF AfterRules
<1>4. Carries(x, AfterProceed(x))
  BY GotoCarries DEF AfterProceed
<1>5. QED BY <1>1, <1>2, <1>3, <1>4

LEMMA CarriesOn ==
  ASSUME NEW x, NEW y, NEW z, Carries(x, y), Carries(y, z)
  PROVE  Carries(x, z)
  BY DEF Carries

LEMMA IteratedCarries ==
  ASSUME NEW x, DOMAIN x = WorkerFields
  PROVE  Carries(x, Iterated(x))
<1> DEFINE m == MarkIterationUpdate(x)
           y == [m EXCEPT !.inst.status.lastUpdate = "recent",
                          !.inst.status.iteration = @ + 1]
<1>1. Carries(x, m)
  BY PhasesCarry
<1> HIDE DEF m
<1>2. Carries(m, y)
  BY <1>1 DEF Carries, WorkerFields
<1>3. Iterated(x) = AfterUpdate(y)
  BY DEF Iterated, m
<1> HIDE DEF y
<1>4. Carries(y, AfterUpdate(y))
  BY <1>2, PlacesCarry DEF Carries
<1>5. QED
  BY <1>1, <1>2, <1>3, <1>4, CarriesOn

-----------------------------------------------------------------------------
(* What a step does to the cache's worker.                                 *)

LEMMA HereWorker ==
  ASSUME IInv, w.pc # "idle"
  PROVE  /\ DOMAIN w = WorkerFields /\ w.e \in Experiments
         /\ w.taken \in BOOLEAN
  BY DEF IInv, WorkerInv

\* The request is carried on, or ends before the snapshot is read.
LEMMA QuietUse ==
  ASSUME IInv, w.pc # "idle", UNCHANGED <<cacheVars, marked, queue>>,
         Carries(w, w') \/ w' = Idle \/ w'.taken = FALSE
  PROVE  Uses
<1>1. Idle.taken = FALSE
  BY DEF Idle
<1>2. CASE Carries(w, w')
  BY <1>2 DEF Uses, Cache!vars, cacheVars, Carries
<1>3. CASE w'.taken = FALSE
  <2>1. CASE w.taken
    <3>1. Cache!Drop(w.e)
      BY <1>3, <2>1 DEF Cache!Drop, Cache!cacheVars, cacheVars
    <3>2. QED
      BY <3>1, HereWorker DEF Uses, Cache!Next
  <2>2. CASE ~w.taken
    BY <1>3, <2>2 DEF Uses, Cache!vars, cacheVars
  <2>3. QED
    BY <2>1, <2>2
<1>4. QED
  BY <1>1, <1>2, <1>3

LEMMA RestartUse ==
  ASSUME Restart PROVE Uses
<1>1. Idle.taken = FALSE
  BY DEF Idle
<1>2. queue' \in SUBSET Experiments
  BY DEF Restart
<1>3. Cache!Restart
  BY <1>1, <1>2 DEF Restart, Cache!Restart
<1>4. QED
  BY <1>3 DEF Uses, Cache!Next

LEMMA RemoveUse ==
  ASSUME IInv, w.pc # "idle", Cache!RemoveExperiment(w.e), w'.taken = FALSE,
         UNCHANGED <<marked, queue>>
  PROVE  Uses
<1>1. Cache!Remove(w.e)
  BY DEF Cache!Remove
<1>2. QED
  BY <1>1, HereWorker DEF Uses, Cache!Next

\* Steps the worker has no part in.
LEMMA AsideUse ==
  ASSUME UNCHANGED <<cacheVars, marked, queue>>, w'.taken = w.taken, w'.e = w.e
  PROVE  Uses
  BY DEF Uses, Cache!vars, cacheVars

-----------------------------------------------------------------------------
(* Step by step.                                                           *)

LEMMA FetchUse ==
  ASSUME IInv, NEW e \in Experiments, Fetch(e)
  PROVE  Uses
<1> DEFINE x == [Idle EXCEPT !.e = e, !.inst = cached[e], !.fresh = e \in current,
                             !.taken = TRUE]
<1>1. ~w.taken
  BY DEF Fetch, At, IInv, WorkerInv, Idle
<1>2. DOMAIN x = WorkerFields /\ x.taken = TRUE /\ x.e = e
  BY DEF Idle, WorkerFields
<1>3. PICK pc : w' = Goto(x, pc)
  BY DEF Fetch
<1> HIDE DEF x
<1>4. w'.taken = TRUE /\ w'.e = e
  BY <1>2, <1>3, GotoCarries DEF Carries
<1>5. Cache!Take(e)
  BY <1>1, <1>4 DEF Fetch, Cache!Take, Cache!cacheVars, cacheVars
<1>6. QED
  BY <1>5 DEF Uses, Cache!Next

LEMMA OpeningUse ==
  ASSUME IInv, SaveInitStatus \/ AddFinalizer \/ StartFinalize
  PROVE  Uses
<1>1. w.pc # "idle" /\ DOMAIN w = WorkerFields
  BY HereWorker DEF SaveInitStatus, AddFinalizer, StartFinalize, At
<1>2. UNCHANGED <<cacheVars, marked, queue>>
  BY DEF SaveInitStatus, AddFinalizer, StartFinalize
<1>3. ASSUME NEW i, NEW pc
      PROVE  Carries(w, Goto([w EXCEPT !.inst = i], pc))
  <2> DEFINE y == [w EXCEPT !.inst = i]
  <2>1. Carries(w, y)
    BY <1>1, InstCarries
  <2> HIDE DEF y
  <2>2. QED
    BY <2>1, GotoCarries, CarriesOn DEF Carries, y
<1>4. CASE SaveInitStatus
  <2>1. \E pc : w' = Idle \/ w' = Goto([w EXCEPT !.inst = InitStatus(w.inst)], pc)
    BY <1>4 DEF SaveInitStatus
  <2>2. QED
    BY <1>1, <1>2, <1>3, <2>1, QuietUse
<1>5. CASE AddFinalizer
  <2>1. \E outcome : w' = Idle \/
          w' = Goto([w EXCEPT !.inst = Overlay(outcome, [w.inst EXCEPT !.finalizer = TRUE])],
                    "dispatch")
    BY <1>5 DEF AddFinalizer
  <2>2. QED
    BY <1>1, <1>2, <1>3, <2>1, QuietUse
<1>6. CASE StartFinalize
  <2> DEFINE y == [w EXCEPT !.taken = FALSE]
  <2>1. DOMAIN y = WorkerFields /\ y.taken = FALSE
    BY <1>1 DEF WorkerFields
  <2> HIDE DEF y
  <2>2. Goto(y, "unfinalize").taken = FALSE
    BY <2>1, GotoCarries DEF Carries
  <2>3. \/ w' = Goto(y, "unfinalize")
        \/ w' = Goto([w EXCEPT !.inst = OverrideAssessment([w.inst EXCEPT
                                          !.spec.override = Terminate(NoSplit)])], "rules")
    BY <1>6 DEF StartFinalize, y
  <2>4. QED
    BY <1>1, <1>2, <1>3, <2>2, <2>3, QuietUse
<1>7. QED
  BY <1>4, <1>5, <1>6

\* Reading the snapshot ends the request as far as the cache is concerned.
LEMMA SyncCarries ==
  ASSUME NEW x, DOMAIN x = WorkerFields, NEW ea
  PROVE  Carries(x, SyncExperiment(x, ea))
<1>1. ASSUME NEW i PROVE Carries(x, MarkTargetsError([x EXCEPT !.inst = i], "Lost"))
  <2> DEFINE y == [x EXCEPT !.inst = i]
  <2>1. Carries(x, y)
    BY InstCarries
  <2> HIDE DEF y
  <2>2. Carries(y, MarkTargetsError(y, "Lost"))
    BY <2>1, MarksCarry DEF Carries
  <2>3. QED
    BY <2>1, <2>2, CarriesOn DEF y
<1>2. Carries(x, [x EXCEPT !.inst = OverrideAssessment(x.inst)])
  BY InstCarries
<1>3. Carries(x, [x EXCEPT !.inst.status.phase = "Progressing"])
  BY DEF Carries, WorkerFields
<1>4. Carries(x, x)
  BY DEF Carries
<1>5. QED
  BY <1>1, <1>2, <1>3, <1>4 DEF SyncExperiment

LEMMA ProceedCarries ==
  ASSUME NEW x, DOMAIN x = WorkerFields
  PROVE  Carries(x, Proceed(x)) \/ Proceed(x) = Idle
<1>1. Carries(x, Goto(MarkActionPause(x), "pauseSave"))
  BY PhasesCarry, GotoCarries, CarriesOn DEF Carries
<1>2. Carries(x, AfterProceed(x))
  BY PlacesCarry
<1>3. Carries(x, AfterProceed(MarkActionResume(x)))
  BY PhasesCarry, PlacesCarry, CarriesOn DEF Carries
<1>4. Carries(x, Goto([MarkActionResume(x) EXCEPT !.inst.spec.override = None], "resumeSave"))
  <2> DEFINE r == MarkActionResume(x)
             y == [r EXCEPT !.inst.spec.override = None]
  <2>1. Carries(x, r)
    BY PhasesCarry
  <2> HIDE DEF r
  <2>2. Carries(r, y)
    BY <2>1 DEF Carries, WorkerFields
  <2> HIDE DEF y
  <2>3. Carries(y, Goto(y, "resumeSave"))
    BY <2>2, GotoCarries DEF Carries
  <2>4. QED
    BY <2>1, <2>2, <2>3, CarriesOn DEF r, y
<1>5. QED
  BY <1>1, <1>2, <1>3, <1>4 DEF Proceed

\* What RegisterExperiment takes from a spec is what Iter8Cache expects.
LEMMA TargetSpecsTaken ==
  ASSUME NEW e \in Experiments
  PROVE  TargetSpec(e) \in Cache!TargetSpecs
<1>1. SpecOf[e] \in ExperimentSpecs
  BY SpecAssumption
<1>2. /\ SpecOf[e].service \in Services /\ SpecOf[e].baseline \in Deployments
      /\ SpecOf[e].candidates \in Seq(Deployments)
  BY <1>1 DEF ExperimentSpecs
<1>3. Range(SpecOf[e].candidates) \in SUBSET Deployments
  BY <1>2 DEF Range
<1> DEFINE range == Range(SpecOf[e].candidates)
<1> HIDE DEF range
<1>4. QED
  BY <1>2, <1>3 DEF TargetSpec, Cache!TargetSpecs, range

LEMMA RejectUse ==
  ASSUME IInv, Reject
  PROVE  Uses
<1>1. w.pc # "idle" /\ DOMAIN w = WorkerFields
  BY HereWorker DEF Reject, ToReconcile, At
<1>2. CASE Restart
  BY <1>2, RestartUse
<1>3. CASE ~Restart
  <2> DEFINE m == MarkTargetsError(w, "Conflict")
             y == [m EXCEPT !.taken = FALSE]
  <2>1. DOMAIN m = WorkerFields
    BY <1>1, MarksCarry DEF Carries
  <2>2. w' = Goto(y, "end") /\ UNCHANGED <<cacheVars, marked, queue>>
    BY <1>3 DEF Reject
  <2> HIDE DEF m
  <2>3. DOMAIN y = WorkerFields /\ y.taken = FALSE
    BY <2>1 DEF WorkerFields
  <2> HIDE DEF y
  <2>4. QED
    BY <1>1, <2>2, <2>3, GotoCarries, QuietUse DEF Carries
<1>4. QED
  BY <1>2, <1>3

LEMMA BeginUse ==
  ASSUME IInv, Begin
  PROVE  Uses
<1>1. /\ w.pc # "idle" /\ DOMAIN w = WorkerFields /\ w.taken /\ w.e \in Experiments
  BY HereWorker DEF Begin, ToReconcile, At, IInv, WorkerInv, EarlyPcs
<1>2. CASE Restart
  BY <1>2, RestartUse
<1>3. CASE ~Restart
  <2> DEFINE spec == TargetSpec(w.e)
             ea == Cache!CurrentAbstract(w.e, spec)
             r == [w EXCEPT !.taken = FALSE, !.terminate = ea.action = "terminate"]
             x == SyncExperiment(r, ea)
             y == [x EXCEPT !.statusUpdate = FALSE]
  <2>1. w' = Proceed(y) /\ Cache!RegisterExperiment(w.e, spec) /\ UNCHANGED <<marked, queue>>
    BY <1>3 DEF Begin
  <2> HIDE DEF spec, ea
  <2>2. DOMAIN r = WorkerFields /\ r.taken = FALSE
    BY <1>1 DEF WorkerFields
  <2> HIDE DEF r
  <2>3. DOMAIN x = WorkerFields /\ x.taken = FALSE
    BY <2>2, SyncCarries DEF Carries
  <2> HIDE DEF x
  <2>4. DOMAIN y = WorkerFields /\ y.taken = FALSE
    BY <2>3 DEF WorkerFields
  <2> HIDE DEF y
  <2>5. w'.taken = FALSE
    BY <2>1, <2>4, ProceedCarries DEF Carries, Idle
  <2>6. Cache!Register(w.e, spec)
    BY <1>1, <2>1, <2>5 DEF Cache!Register
  <2>7. spec \in Cache!TargetSpecs
    BY <1>1, TargetSpecsTaken DEF spec
  <2>8. QED
    BY <1>1, <2>6, <2>7 DEF Uses, Cache!Next
<1>4. QED
  BY <1>2, <1>3

LEMMA ResumeUse ==
  ASSUME IInv, SaveResume \/ SavePause \/ NotFound \/ SkipCompleted \/ Unfinalize
  PROVE  Uses
<1>1. w.pc # "idle" /\ DOMAIN w = WorkerFields
  BY HereWorker DEF SaveResume, SavePause, NotFound, SkipCompleted, Unfinalize, At
<1>2. UNCHANGED <<cacheVars, marked, queue>>
  BY DEF SaveResume, SavePause, NotFound, SkipCompleted, Unfinalize
<1>3. ASSUME NEW i PROVE Carries(w, AfterProceed([w EXCEPT !.inst = i]))
  <2> DEFINE y == [w EXCEPT !.inst = i]
  <2>1. Carries(w, y)
    BY <1>1, InstCarries
  <2> HIDE DEF y
  <2>2. QED
    BY <2>1, PlacesCarry, CarriesOn DEF Carries, y
<1>4. w' = Idle \/ \E outcome : w' = AfterProceed([w EXCEPT !.inst = Overlay(outcome, w.inst)])
  BY DEF SaveResume, SavePause, NotFound, SkipCompleted, Unfinalize
<1>5. QED
  BY <1>1, <1>2, <1>3, <1>4, QuietUse

LEMMA MetricsUse ==
  ASSUME IInv, MetricsUnreadable \/ SyncMetrics
  PROVE  Uses
<1>1. w.pc # "idle" /\ DOMAIN w = WorkerFields
  BY HereWorker DEF MetricsUnreadable, SyncMetrics, At
<1>2. CASE Restart
  BY <1>2, RestartUse
<1>3. CASE ~Restart
  <2>1. UNCHANGED <<cacheVars, marked, queue>>
    BY <1>3 DEF MetricsUnreadable, SyncMetrics
  <2>2. ASSUME NEW i
        PROVE  /\ Carries(w, Goto([w EXCEPT !.inst = i], "end"))
               /\ Carries(w, Goto(MarkSyncMetrics([w EXCEPT !.inst = i]), "rules"))
    <3> DEFINE y == [w EXCEPT !.inst = i]
    <3>1. Carries(w, y)
      BY <1>1, InstCarries
    <3> HIDE DEF y
    <3>2. Carries(y, Goto(y, "end")) /\ Carries(y, MarkSyncMetrics(y))
      BY <3>1, GotoCarries, MarksCarry DEF Carries
    <3>3. Carries(MarkSyncMetrics(y), Goto(MarkSyncMetrics(y), "rules"))
      BY <3>2, GotoCarries DEF Carries
    <3>4. QED
      BY <3>1, <3>2, <3>3, CarriesOn DEF y
  <2>3. \/ w' = Idle
        \/ \E i : \/ w' = Goto([w EXCEPT !.inst = i], "end")
                  \/ w' = Goto(MarkSyncMetrics([w EXCEPT !.inst = i]), "rules")
    BY <1>3 DEF MetricsUnreadable, SyncMetrics
  <2>4. QED
    BY <1>1, <2>1, <2>2, <2>3, QuietUse
<1>4. QED
  BY <1>2, <1>3

\* Marks, and the places the request goes to with them.
LEMMA RequestCarries ==
  ASSUME DOMAIN w = WorkerFields, NEW tag, NEW pc
  PROVE  /\ Carries(w, Goto(MarkTargetsError(w, tag), pc))
         /\ Carries(w, Goto(MarkRoutingRulesError(w, tag), pc))
         /\ Carries(w, Goto(MarkAnalyticsServiceError(w), pc))
         /\ Carries(w, Goto(MarkExperimentCompleted(w), pc))
         /\ Carries(w, AfterTargets(MarkTargetsFound(w)))
         /\ Carries(w, AfterRules(MarkRoutingRulesReady(w)))
         /\ Carries(w, Goto(w, pc))
<1>1. Carries(w, Goto(MarkTargetsError(w, tag), pc))
  BY MarksCarry, GotoCarries, CarriesOn DEF Carries
<1>2. Carries(w, Goto(MarkRoutingRulesError(w, tag), pc))
  BY MarksCarry, GotoCarries, CarriesOn DEF Carries
<1>3. Carries(w, Goto(MarkAnalyticsServiceError(w), pc))
  BY MarksCarry, GotoCarries, CarriesOn DEF Carries
<1>4. Carries(w, Goto(MarkExperimentCompleted(w), pc))
  BY PhasesCarry, GotoCarries, CarriesOn DEF Carries
<1>5. Carries(w, AfterTargets(MarkTargetsFound(w)))
  BY MarksCarry, PlacesCarry, CarriesOn DEF Carries
<1>6. Carries(w, AfterRules(MarkRoutingRulesReady(w)))
  BY MarksCarry, PlacesCarry, CarriesOn DEF Carries
<1>7. Carries(w, Goto(w, pc))
  BY GotoCarries
<1>8. QED BY <1>1, <1>2, <1>3, <1>4, <1>5, <1>6, <1>7

LEMMA TargetsUse ==
  ASSUME IInv, UseRules \/ DetectTargets \/ MissingCandidate
  PROVE  Uses
<1>1. w.pc # "idle" /\ DOMAIN w = WorkerFields
  BY HereWorker DEF UseRules, DetectTargets, MissingCandidate, At
<1>2. UNCHANGED <<cacheVars, marked, queue>>
  BY DEF UseRules, DetectTargets, MissingCandidate
<1>3. \/ w' = AfterRules(MarkRoutingRulesReady(w))
      \/ w' = AfterTargets(MarkTargetsFound(w))
      \/ \E tag : w' = Goto(MarkTargetsError(w, tag), "end")
      \/ \E pc : w' = Goto(w, pc)
  BY DEF UseRules, DetectTargets, MissingCandidate
<1>4. Carries(w, w')
  BY <1>1, <1>3, RequestCarries
<1>5. QED
  BY <1>1, <1>2, <1>4, QuietUse

LEMMA WriteUse ==
  ASSUME IInv, w.pc # "idle", NEW new, NEW next, Carries(w, next), NEW tag,
         WriteDR(new, next, tag) \/ WriteVS(new, next, tag)
  PROVE  Uses
<1>1. UNCHANGED <<cacheVars, marked, queue>>
  BY DEF WriteDR, WriteVS
<1>2. w' = next \/ w' = Goto(MarkRoutingRulesError(w, tag), "end")
  BY DEF WriteDR, WriteVS
<1>3. Carries(w, w')
  BY <1>2, HereWorker, RequestCarries
<1>4. QED
  BY <1>1, <1>3, QuietUse

LEMMA WritesUse ==
  ASSUME IInv,
         UpdateBaselineDR \/ UpdateBaselineVS \/ UpdateCandidatesDR \/ UpdateCandidatesVS
  PROVE  Uses
<1>1. w.pc # "idle" /\ DOMAIN w = WorkerFields
  BY HereWorker
  DEF UpdateBaselineDR, UpdateBaselineVS, UpdateCandidatesDR, UpdateCandidatesVS, At
<1>2. CASE UpdateBaselineDR
  BY <1>1, <1>2, RequestCarries, WriteUse DEF UpdateBaselineDR
<1>3. CASE UpdateBaselineVS
  <2> DEFINE y == [w EXCEPT !.inst.status.weights[0] = 100]
  <2>1. Carries(w, y)
    BY <1>1 DEF Carries, WorkerFields
  <2> HIDE DEF y
  <2>2. Carries(w, Goto(y, "candidates"))
    BY <2>1, GotoCarries, CarriesOn DEF Carries
  <2>3. WriteVS(BaselineVirtualService(vs[Svc(w)], w.e, SpecAt(w)), Goto(y, "candidates"),
                "UpdateError")
    BY <1>3 DEF UpdateBaselineVS, y
  <2>4. QED
    BY <1>1, <2>2, <2>3, WriteUse
<1>4. CASE UpdateCandidatesDR
  BY <1>1, <1>4, RequestCarries, WriteUse DEF UpdateCandidatesDR
<1>5. CASE UpdateCandidatesVS
  BY <1>1, <1>5, RequestCarries, WriteUse DEF UpdateCandidatesVS
<1>6. QED
  BY <1>2, <1>3, <1>4, <1>5

LEMMA RemovalsUse ==
  ASSUME IInv, RefuseRules \/ Complete
  PROVE  Uses
<1>1. w.pc # "idle" /\ DOMAIN w = WorkerFields
  BY HereWorker DEF RefuseRules, Complete, At
<1>2. Cache!RemoveExperiment(w.e) /\ UNCHANGED <<marked, queue>>
  BY DEF RefuseRules, Complete
<1>3. ASSUME NEW x, DOMAIN x = WorkerFields, NEW pc
      PROVE  Goto([x EXCEPT !.taken = FALSE], pc).taken = FALSE
  <2> DEFINE y == [x EXCEPT !.taken = FALSE]
  <2>1. DOMAIN y = WorkerFields /\ y.taken = FALSE
    BY <1>3 DEF WorkerFields
  <2> HIDE DEF y
  <2>2. QED
    BY <2>1, GotoCarries DEF Carries, y
<1>4. DOMAIN MarkRoutingRulesError(w, "GetError") = WorkerFields
  BY <1>1, MarksCarry DEF Carries
<1>5. \E pc : \/ w' = Goto([MarkRoutingRulesError(w, "GetError") EXCEPT !.taken = FALSE], pc)
              \/ w' = Goto([w EXCEPT !.taken = FALSE], pc)
  BY DEF RefuseRules, Complete
<1>6. w'.taken = FALSE
  BY <1>1, <1>3, <1>4, <1>5
<1>7. QED
  BY <1>1, <1>2, <1>6, RemoveUse

LEMMA IterateUse ==
  ASSUME IInv, IterateWithoutCriteria \/ AnalyticsFails
  PROVE  Uses
<1>1. w.pc # "idle" /\ DOMAIN w = WorkerFields
  BY HereWorker DEF IterateWithoutCriteria, AnalyticsFails, At
<1>2. UNCHANGED <<cacheVars, marked, queue>>
  BY DEF IterateWithoutCriteria, AnalyticsFails
<1>3. ASSUME NEW f PROVE Carries(w, Goto([w EXCEPT !.inst.status.weights = f], "split"))
  <2> DEFINE y == [w EXCEPT !.inst.status.weights = f]
  <2>1. Carries(w, y)
    BY <1>1 DEF Carries, WorkerFields
  <2> HIDE DEF y
  <2>2. QED
    BY <2>1, GotoCarries, CarriesOn DEF Carries, y
<1>4. \/ \E f : w' = Goto([w EXCEPT !.inst.status.weights = f], "split")
      \/ w' = Iterated(w)
      \/ w' = Goto(MarkAnalyticsServiceError(w), "end")
  BY DEF IterateWithoutCriteria, AnalyticsFails
<1>5. Carries(w, w')
  BY <1>1, <1>3, <1>4, IteratedCarries, RequestCarries
<1>6. QED
  BY <1>1, <1>2, <1>5, QuietUse

LEMMA AnswerUse ==
  ASSUME IInv, NEW r, Abort(r) \/ FollowRecommendation(r)
  PROVE  Uses
<1>1. w.pc # "idle" /\ DOMAIN w = WorkerFields
  BY HereWorker DEF Abort, FollowRecommendation, At
<1>2. UNCHANGED <<cacheVars, marked, queue>>
  BY DEF Abort, FollowRecommendation
<1>3. CASE Abort(r)
  <2> DEFINE i == OverrideAssessment([w.inst EXCEPT !.spec.override = Terminate(NoSplit)])
             y == [w EXCEPT !.inst = i]
  <2>1. w' = AfterUpdate(y)
    BY <1>3 DEF Abort
  <2> HIDE DEF i
  <2>2. Carries(w, y)
    BY <1>1, InstCarries
  <2> HIDE DEF y
  <2>3. Carries(w, AfterUpdate(y))
    BY <2>2, PlacesCarry, CarriesOn DEF Carries
  <2>4. QED
    BY <1>1, <1>2, <2>1, <2>3, QuietUse
<1>4. CASE FollowRecommendation(r)
  <2> DEFINE v == [w EXCEPT !.inst.status.winner = r.winner]
             m == MarkAssessmentUpdate(v)
             X(f) == [m EXCEPT !.inst.status.weights = f]
  <2>1. \E f : \/ w' = Goto(MarkAnalyticsServiceError(X(f)), "end")
               \/ w' = Goto(MarkAnalyticsServiceRunning(X(f)), "split")
               \/ w' = Iterated(MarkAnalyticsServiceRunning(X(f)))
    BY <1>4 DEF FollowRecommendation
  <2>2. Carries(w, v)
    BY <1>1 DEF Carries, WorkerFields
  <2> HIDE DEF v
  <2>3. Carries(w, m)
    BY <2>2, PhasesCarry, CarriesOn DEF Carries
  <2> HIDE DEF m
  <2>4. ASSUME NEW f
        PROVE  /\ Carries(w, Goto(MarkAnalyticsServiceError(X(f)), "end"))
               /\ Carries(w, Goto(MarkAnalyticsServiceRunning(X(f)), "split"))
               /\ Carries(w, Iterated(MarkAnalyticsServiceRunning(X(f))))
    <3>1. Carries(w, X(f))
      BY <2>3 DEF Carries, WorkerFields
    <3> DEFINE x == X(f)
               a == MarkAnalyticsServiceError(x)
               b == MarkAnalyticsServiceRunning(x)
    <3>2. Carries(w, x)
      BY <3>1
    <3> HIDE DEF x
    <3>3. Carries(w, a) /\ Carries(w, b)
      BY <3>2, MarksCarry, CarriesOn DEF Carries
    <3> HIDE DEF a, b
    <3>4. Carries(w, Goto(a, "end")) /\ Carries(w, Goto(b, "split")) /\ Carries(w, Iterated(b))
      BY <3>3, GotoCarries, IteratedCarries, CarriesOn DEF Carries
    <3>5. QED
      BY <3>4 DEF a, b, x
  <2> HIDE DEF X
  <2>5. Carries(w, w')
    BY <2>1, <2>4
  <2>6. QED
    BY <1>1, <1>2, <2>5, QuietUse
<1>5. QED
  BY <1>3, <1>4

LEMMA SplitUse ==
  ASSUME IInv, SplitWithoutRules \/ UpdateTrafficSplit
  PROVE  Uses
<1>1. w.pc # "idle" /\ DOMAIN w = WorkerFields
  BY HereWorker DEF SplitWithoutRules, UpdateTrafficSplit, At
<1>2. UNCHANGED <<cacheVars, marked, queue>>
  BY DEF SplitWithoutRules, UpdateTrafficSplit
<1>3. Carries(w, Iterated(MarkAssessmentUpdate(w)))
  BY <1>1, PhasesCarry, IteratedCarries, CarriesOn DEF Carries
<1>4. \/ w' = Iterated(MarkAssessmentUpdate(w))
      \/ \E tag : w' = Goto(MarkRoutingRulesError(w, tag), "end")
  BY DEF SplitWithoutRules, UpdateTrafficSplit
<1>5. QED
  BY <1>1, <1>2, <1>3, <1>4, RequestCarries, QuietUse

LEMMA CleanupFailsUse ==
  ASSUME IInv, w.pc \in CleanupPcs, CleanupFails, UNCHANGED <<marked, queue>>
  PROVE  Uses
<1>1. w.pc # "idle" /\ DOMAIN w = WorkerFields /\ ~w.taken
  BY HereWorker DEF IInv, WorkerInv, CleanupPcs
<1>2. CASE Finalizing
  <2>1. Cache!RemoveExperiment(w.e) /\ w' = Goto(w, "unfinalize")
    BY <1>2 DEF CleanupFails, ForgetFinalized
  <2>2. w'.taken = FALSE
    BY <1>1, <2>1, GotoCarries, HereWorker DEF Carries
  <2>3. QED
    BY <1>1, <2>1, <2>2, RemoveUse
<1>3. CASE ~Finalizing
  BY <1>1, <1>3, QuietUse DEF CleanupFails
<1>4. QED
  BY <1>2, <1>3

LEMMA CleanupUse ==
  ASSUME IInv, CleanupTargets \/ CleanupDR \/ CleanupVS
  PROVE  Uses
<1>1. w.pc # "idle" /\ DOMAIN w = WorkerFields
  BY HereWorker DEF CleanupTargets, CleanupDR, CleanupVS, At
<1>2. UNCHANGED <<marked, queue>>
  BY DEF CleanupTargets, CleanupDR, CleanupVS
<1>3. \/ w.pc \in CleanupPcs /\ CleanupFails
      \/ /\ UNCHANGED cacheVars
         /\ \E pc : w' = Goto(w, pc) \/ w' = Goto(MarkExperimentCompleted(w), pc)
  BY DEF CleanupTargets, CleanupDR, CleanupVS, CleanupPcs, At
<1>4. CASE w.pc \in CleanupPcs /\ CleanupFails
  BY <1>2, <1>4, CleanupFailsUse
<1>5. CASE /\ UNCHANGED cacheVars
           /\ \E pc : w' = Goto(w, pc) \/ w' = Goto(MarkExperimentCompleted(w), pc)
  BY <1>1, <1>2, <1>5, RequestCarries, QuietUse
<1>6. QED
  BY <1>3, <1>4, <1>5

LEMMA EndUse ==
  ASSUME IInv, End
  PROVE  Uses
<1>1. w.pc # "idle" /\ DOMAIN w = WorkerFields /\ UNCHANGED <<marked, queue>>
  BY HereWorker DEF End, At
<1>2. CASE Finalizing
  <2> DEFINE y == Goto(w, "unfinalize")
  <2>1. Cache!RemoveExperiment(w.e) /\ w' = [y EXCEPT !.taken = FALSE]
    BY <1>2 DEF End, ForgetFinalized
  <2>2. DOMAIN y = WorkerFields
    BY <1>1, GotoCarries DEF Carries
  <2> HIDE DEF y
  <2>3. w'.taken = FALSE
    BY <2>1, <2>2 DEF WorkerFields
  <2>4. QED
    BY <1>1, <2>1, <2>3, RemoveUse
<1>3. CASE ~Finalizing
  BY <1>1, <1>3, QuietUse DEF End
<1>4. QED
  BY <1>2, <1>3

-----------------------------------------------------------------------------
(* The other goroutines, and the environment.                              *)

LEMMA EnqueuesUse ==
  ASSUME NEW e \in Experiments, Deliver(e) \/ TimerFires(e)
  PROVE  Uses
<1>1. UNCHANGED <<cacheVars, marked, w>>
  BY DEF Deliver, TimerFires
<1>2. CASE queue' = queue
  BY <1>1, <1>2, AsideUse
<1>3. CASE queue' = queue \cup {e}
  <2>1. Cache!Enqueue(e)
    BY <1>1, <1>3 DEF Cache!Enqueue, Cache!cacheVars, cacheVars
  <2>2. QED
    BY <2>1 DEF Uses, Cache!Next
<1>4. QED
  BY <1>2, <1>3 DEF Deliver, TimerFires

LEMMA HandlersUse ==
  ASSUME NEW t \in Targets, HandleTargetEvent(t) \/ EnqueueOwner(t)
  PROVE  Uses
<1>1. CASE HandleTargetEvent(t)
  <2> DEFINE found == t \in exists
  <2>1. found \in BOOLEAN
    OBVIOUS
  <2>2. UNCHANGED <<queue, w>>
    BY <1>1 DEF HandleTargetEvent
  <2>3. CASE UNCHANGED <<cacheVars, marked>>
    BY <2>2, <2>3, AsideUse
  <2>4. CASE ~UNCHANGED <<cacheVars, marked>>
    <3>1. /\ Cache!MarkTarget(t, found) /\ marked' = marked \cup {t}
          /\ \A m \in marked : (m \in Services) # (t \in Services)
      BY <1>1, <2>4 DEF HandleTargetEvent
    <3> HIDE DEF found
    <3>2. Cache!Mark(t, found)
      BY <2>2, <3>1 DEF Cache!Mark
    <3>3. QED
      BY <2>1, <3>2 DEF Uses, Cache!Next, Targets
  <2>5. QED
    BY <2>3, <2>4
<1>2. CASE EnqueueOwner(t)
  <2>1. Cache!Map(t)
    BY <1>2 DEF EnqueueOwner, Cache!Map, Cache!cacheVars, cacheVars
  <2>2. QED
    BY <2>1 DEF Uses, Cache!Next, Targets
<1>3. QED
  BY <1>1, <1>2

LEMMA EditsUse ==
  ASSUME IInv, NEW e, NEW new, Edit(e, new)
  PROVE  Uses
<1>1. UNCHANGED <<cacheVars, marked, queue>>
  BY DEF Edit
<1>2. DOMAIN w = WorkerFields
  BY DEF IInv, WorkerInv
<1>3. w'.taken = w.taken /\ w'.e = w.e
  BY <1>2 DEF Edit, WorkerFields
<1>4. QED
  BY <1>1, <1>3, AsideUse

LEMMA UsersUse ==
  ASSUME IInv, NEW e \in Experiments,
         UserCreates(e) \/ UserDeletes(e) \/ \E o \in UserOverrides : UserOverridesTo(e, o)
  PROVE  Uses
<1>1. \E new : Edit(e, new)
  BY DEF UserCreates, UserDeletes, UserOverridesTo
<1>2. QED
  BY <1>1, EditsUse

LEMMA AgingUse ==
  ASSUME IInv, NEW e \in Experiments, IntervalElapses(e)
  PROVE  Uses
<1>1. UNCHANGED <<cacheVars, marked, queue>>
  BY DEF IntervalElapses
<1>2. DOMAIN w = WorkerFields
  BY DEF IInv, WorkerInv
<1>3. \E i : w' = w \/ w' = [w EXCEPT !.inst = i]
  BY DEF IntervalElapses
<1>4. w'.taken = w.taken /\ w'.e = w.e
  BY <1>2, <1>3, InstCarries DEF Carries
<1>5. QED
  BY <1>1, <1>4, AsideUse

LEMMA TargetsChangeUse ==
  ASSUME NEW t, UserCreatesTarget(t) \/ UserDeletesTarget(t)
  PROVE  Uses
  BY AsideUse DEF UserCreatesTarget, UserDeletesTarget

LEMMA StepUses ==
  ASSUME IInv, [Next]_vars PROVE Uses
<1>1. CASE Reconcile
  BY <1>1, OpeningUse, RejectUse, BeginUse, ResumeUse, MetricsUse, TargetsUse, WritesUse,
     RemovalsUse, IterateUse, AnswerUse, SplitUse, CleanupUse, EndUse
  DEF Reconcile
<1>2. CASE Environment
  BY <1>2, UsersUse, TargetsChangeUse, RestartUse DEF Environment, Crash
<1>3. CASE UNCHANGED vars
  BY <1>3, AsideUse DEF vars
<1>4. CASE \/ \E e \in Experiments :
                Fetch(e) \/ Deliver(e) \/ IntervalElapses(e) \/ TimerFires(e)
           \/ \E t \in Targets : HandleTargetEvent(t) \/ EnqueueOwner(t)
  BY <1>4, FetchUse, EnqueuesUse, AgingUse, HandlersUse
<1>5. QED
  BY <1>1, <1>2, <1>3, <1>4 DEF Next

LEMMA InitUses ==
  ASSUME Init PROVE Cache!Init
  BY DEF Init, Cache!Init, Cache!CacheInit, Idle

(***************************************************************************)
(* The reconciler and the informer's handlers call the cache the way       *)
(* Iter8Cache says its goroutines do: an experiment is registered by the   *)
(* request that took it only, once, and removed by the one that completes  *)
(* or finalizes it.  What is proved of Iter8Cache holds of the controller. *)
(***************************************************************************)
THEOREM CacheUsed == Spec => UsesCache
<1>1. IInv /\ [Next]_vars => [Cache!Next]_(Cache!vars)
  BY StepUses DEF Uses
<1>2. Init => Cache!Init
  BY InitUses
<1>3. QED
  BY <1>1, <1>2, Inductive, PTL DEF Spec, UsesCache, Cache!Spec

-----------------------------------------------------------------------------
(* What is proved of Iter8Cache, inside the controller.                    *)

Proved == INSTANCE Iter8CacheProofs WITH
  requests <- queue, worker <- IF w.taken THEN w.e ELSE None

\* None is no abstract of an experiment.
NoneIsNoAbstract == None \notin Cache!Abstracts

\* The two instances define the same.
LEMMA SameIdentities ==
  ASSUME NoneIsNoAbstract PROVE Proved!IdentityAssumption
  BY KindAssumption
  DEF NoneIsNoAbstract, Targets, Proved!IdentityAssumption, Proved!Abstracts, Proved!Actions,
      Proved!Roles, Cache!Abstracts, Cache!Actions, Cache!Roles

LEMMA SameNext ==
  Cache!Next <=> Proved!Next
  BY DEF Cache!Next, Cache!Restart, Cache!Mark, Cache!MarkTarget, Cache!OwnerOf,
         Cache!MarkServiceFound, Cache!MarkTargetFound, Cache!Map, Cache!Enqueue, Cache!Take,
         Cache!Drop, Cache!Remove, Cache!RemoveExperiment, Cache!Registered,
         Cache!DeploymentsOf, Cache!Register, Cache!RegisterExperiment, Cache!Reject,
         Cache!Conflicting, Cache!SpecDeployments, Cache!Clear, Cache!CurrentAbstract,
         Cache!NewExperiment, Cache!NewTargets, Cache!TargetSpecs, Cache!cacheVars,
         Proved!Next, Proved!Restart, Proved!Mark, Proved!MarkTarget, Proved!OwnerOf,
         Proved!MarkServiceFound, Proved!MarkTargetFound, Proved!Map, Proved!Enqueue,
         Proved!Take, Proved!Drop, Proved!Remove, Proved!RemoveExperiment, Proved!Registered,
         Proved!DeploymentsOf, Proved!Register, Proved!RegisterExperiment, Proved!Reject,
         Proved!Conflicting, Proved!SpecDeployments, Proved!Clear, Proved!CurrentAbstract,
         Proved!NewExperiment, Proved!NewTargets, Proved!TargetSpecs, Proved!cacheVars

LEMMA SameSpec ==
  Cache!Spec => Proved!Spec
<1>1. Cache!Init => Proved!Init
  BY DEF Cache!Init, Cache!CacheInit, Proved!Init, Proved!CacheInit
<1>2. [Cache!Next]_(Cache!vars) => [Proved!Next]_(Proved!vars)
  BY SameNext DEF Cache!vars, Proved!vars
<1>3. QED
  BY <1>1, <1>2, PTL DEF Cache!Spec, Proved!Spec

LEMMA SameProperties ==
  /\ Proved!LookupSound => Cache!LookupSound
  /\ Proved!LookupComplete => Cache!LookupComplete
  BY DEF Cache!LookupSound, Cache!LookupComplete, Cache!Registered, Cache!DeploymentsOf,
         Proved!LookupSound, Proved!LookupComplete, Proved!Registered, Proved!DeploymentsOf

LEMMA SameWakeUps ==
  [\A e \in Experiments : Proved!Woken(e) => Proved!Woken(e)' \/ Proved!Drop(e)]_(Proved!vars)
  => [\A e \in Experiments : Cache!Woken(e) => Cache!Woken(e)' \/ Cache!Drop(e)]_(Cache!vars)
  BY DEF Cache!Woken, Cache!Registered, Cache!OwnerOf, Cache!Drop, Cache!cacheVars, Cache!vars,
         Proved!Woken, Proved!Registered, Proved!OwnerOf, Proved!Drop, Proved!cacheVars,
         Proved!vars

(***************************************************************************)
(* Inside the controller the lookup maps and the store agree, so that no   *)
(* event of a target dereferences an experiment that is gone or misses one *)
(* that is registered; and a loss or an arrival recorded in an abstract    *)
(* has a request for its experiment under way, unless that request ended   *)
(* before it read the snapshot.                                            *)
(***************************************************************************)
THEOREM CacheHolds ==
  ASSUME NoneIsNoAbstract
  PROVE  Spec => []Cache!LookupSound /\ []Cache!LookupComplete /\ Cache!WakeUpKept
<1>1. Spec => Proved!Spec
  BY CacheUsed, SameSpec DEF UsesCache
<1>2. Proved!Spec => []Proved!LookupSound
  BY SameIdentities, Proved!LookupsAreSound
<1>3. Proved!Spec => []Proved!LookupComplete
  BY SameIdentities, Proved!LookupsAreComplete
<1>4. Proved!Spec => Proved!WakeUpKept
  BY SameIdentities, Proved!WakeUpNeverLost
<1>5. QED
  BY <1>1, <1>2, <1>3, <1>4, SameProperties, SameWakeUps, PTL
  DEF Proved!WakeUpKept, Cache!WakeUpKept
=============================================================================
