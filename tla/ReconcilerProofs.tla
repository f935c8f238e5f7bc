-------------------------- MODULE ReconcilerProofs --------------------------
(***************************************************************************)
(* Proofs about Reconciler, for any experiments, targets, answers, edits   *)
(* and bounds.  The inductive invariant ties the worker's copy of an       *)
(* experiment to the object at the API server: as long as the copy is of   *)
(* the stored version, the two agree on what a write may change, place by  *)
(* place of the reconcile; and it ties the place to the labels of the      *)
(* rules the worker is going to write.  Objects and copies are described   *)
(* by their fields only, so that no property depends on what the others    *)
(* hold.  From it follow that rules change hands through completions only  *)
(* and that a completion is for good.                                      *)
(***************************************************************************)
EXTENDS Reconciler, TLAPS

ObjectFields == {"spec", "finalizer", "deleting", "status"}
SpecFields == {"override", "onTermination", "metrics"}
StatusFields == {"initialized", "phase", "message", "metricsSynced", "targets", "rules",
                 "analytics", "completed", "weights", "winner", "iteration", "lastUpdate"}
WorkerFields == {"pc", "e", "inst", "fresh", "taken", "terminate", "statusUpdate", "refresh",
                 "progress"}
BudgetFields == {"uncreated", "overrides", "arrivals", "losses", "failures", "crashes"}

MaxIter(e) == SpecOf[e].maxIterations

\* An experiment object, or a copy of one.
IsCopy(o) ==
  /\ DOMAIN o = ObjectFields /\ DOMAIN o.spec = SpecFields /\ DOMAIN o.status = StatusFields
  /\ {o.finalizer, o.deleting, o.status.initialized, o.status.completed} \subseteq BOOLEAN
  /\ o.status.iteration \in Nat

\* What holds of every version of an object: how phase, flags and counter hang
\* together.
Sound(e, o) ==
  /\ IsCopy(o)
  /\ o.status.phase \in {"", "Progressing", "Pause", "Completed"}
  /\ o.status.initialized <=> o.status.phase # ""
  /\ o.status.completed <=> o.status.phase = "Completed"
  /\ o.status.iteration <= MaxIter(e) + 1
  /\ o.status.phase # "Completed" => o.status.iteration <= MaxIter(e)
  /\ o.deleting => o.finalizer
  /\ o.finalizer => o.status.initialized
  /\ o.status.phase \in {"Pause", "Completed"} => o.finalizer

-----------------------------------------------------------------------------
(* The worker, place by place: x is the worker, o the object stored of its *)
(* experiment.                                                             *)

EarlyPcs == {"notFound", "init", "finalizer", "dispatch"}
OpenPcs == {"init", "finalizer", "dispatch"}
UserPcs == {"pauseSave", "resumeSave", "metrics", "iterate", "split"}
RulePcs == {"rules", "detect", "baselineDR", "baselineVS", "candidates", "candidatesVS"}
CleanupPcs == {"cleanupTargets", "cleanupDR", "cleanupVS"}
Pcs == EarlyPcs \cup UserPcs \cup RulePcs \cup CleanupPcs
         \cup {"idle", "complete", "abandonTargets", "end", "unfinalize"}

\* The worker may still save its copy.
Saves(x, o) == x.fresh /\ o # None

\* Before the experiment is known to be at work, the copy is the stored version.
Opened(x, o) ==
  /\ DOMAIN x = WorkerFields
  /\ Sound(x.e, x.inst)
  /\ x.pc = "init" <=> ~x.inst.status.initialized
  /\ x.pc = "dispatch" <=> x.inst.finalizer
  /\ Saves(x, o) =>
       /\ o.finalizer = x.inst.finalizer /\ o.deleting = x.inst.deleting
       /\ o.status.phase = x.inst.status.phase /\ o.status.iteration = x.inst.status.iteration

\* A copy of an experiment at work.  One that is being deleted is terminated.
Working(x) ==
  /\ DOMAIN x = WorkerFields
  /\ IsCopy(x.inst)
  /\ x.inst.finalizer /\ x.inst.status.initialized /\ ~x.inst.status.completed
  /\ x.inst.status.phase \in {"Progressing", "Pause"}
  /\ x.inst.deleting => Terminating(x.inst)

StoredActive(x, o) ==
  /\ o.finalizer
  /\ o.deleting = x.inst.deleting
  /\ o.status.phase \in {"Progressing", "Pause"}

\* ... that has not iterated in this reconcile,
Ready(x, o) ==
  /\ Working(x)
  /\ x.inst.status.iteration <= MaxIter(x.e)
  /\ Saves(x, o) => StoredActive(x, o) /\ o.status.iteration = x.inst.status.iteration

\* ... or may have.
Counted(x, o) ==
  \/ x.inst.status.iteration = o.status.iteration
  \/ /\ x.inst.status.iteration = o.status.iteration + 1
     /\ ~x.inst.deleting
     /\ x.inst.status.phase # "Pause"
Closing(x, o) ==
  /\ Working(x)
  /\ x.inst.status.iteration <= MaxIter(x.e) + 1
  /\ Saves(x, o) => StoredActive(x, o) /\ Counted(x, o)

\* The copy is complete and about to be saved.
Ended(x, o) ==
  /\ DOMAIN x = WorkerFields
  /\ IsCopy(x.inst)
  /\ x.inst.finalizer /\ x.inst.status.initialized
  /\ x.inst.status.phase \in {"Progressing", "Pause", "Completed"}
  /\ x.inst.status.completed <=> x.inst.status.phase = "Completed"
  /\ x.inst.status.iteration <= MaxIter(x.e) + 1
  /\ x.inst.status.phase # "Completed" => x.inst.status.iteration <= MaxIter(x.e)
  /\ Saves(x, o) => StoredActive(x, o) /\ Counted(x, o)

Leaving(x, o) ==
  /\ DOMAIN x = WorkerFields
  /\ IsCopy(x.inst) /\ x.inst.deleting
  /\ Saves(x, o) => o.deleting

WorkerInv(x, o) ==
  /\ DOMAIN x = WorkerFields
  /\ x.pc \in Pcs
  /\ {x.fresh, x.taken} \subseteq BOOLEAN
  /\ x.pc = "idle" => x = Idle
  /\ x.pc # "idle" => x.e \in Experiments
  /\ x.pc \in EarlyPcs => x.taken
  /\ x.pc \in OpenPcs => Opened(x, o)
  /\ x.pc \in UserPcs => Ready(x, o) /\ ~x.inst.deleting
  /\ x.pc \in RulePcs \cup {"abandonTargets"} => Ready(x, o)
  /\ x.pc = "complete" => Closing(x, o)
  /\ x.pc \in CleanupPcs => Closing(x, o) /\ ~x.taken
  /\ x.pc = "end" => Ended(x, o)
  /\ x.pc = "unfinalize" => Leaving(x, o)

-----------------------------------------------------------------------------
(* The rules, and what the worker knows of those it is going to write.     *)

HasLabels(r) == "labels" \in DOMAIN r /\ {"role", "experiment"} \subseteq DOMAIN r.labels

OwningPcs == {"detect", "baselineDR", "baselineVS", "candidates", "candidatesVS", "iterate",
              "split", "complete", "cleanupTargets", "cleanupDR", "cleanupVS"}

Labelled(r, e) == HasLabels(r) /\ r.labels.experiment = e

Owned(x, d, v) ==
  /\ x.pc \in OwningPcs /\ IsProgressing(d, v) => Labelled(d, x.e) /\ Labelled(v, x.e)
  /\ x.pc = "baselineVS" => Labelled(d, x.e)
  /\ x.pc \in {"candidates", "candidatesVS"} => Labelled(d, x.e) /\ Labelled(v, x.e)
  /\ x.pc = "cleanupVS" => ~IsProgressing(d, v)

RulesInv ==
  /\ DOMAIN dr = Services /\ DOMAIN vs = Services
  /\ \A s \in Services : (dr[s] = None \/ HasLabels(dr[s])) /\ (vs[s] = None \/ HasLabels(vs[s]))
  /\ w.pc # "idle" => Owned(w, dr[Svc(w)], vs[Svc(w)])

ObjectsInv ==
  /\ DOMAIN stored = Experiments /\ DOMAIN cached = Experiments
  /\ \A e \in Experiments : stored[e] = None \/ Sound(e, stored[e])
  /\ \A e \in Experiments : cached[e] = None \/ Sound(e, cached[e])
  /\ \A e \in Experiments : e \in current => cached[e] = stored[e]
  /\ DOMAIN budget = BudgetFields
  /\ \A e \in Experiments : e \in budget.uncreated => stored[e] = None

IInv == ObjectsInv /\ WorkerInv(w, stored[w.e]) /\ RulesInv

-----------------------------------------------------------------------------
(* Steps of the worker on its own copy.                                    *)

Live(x) == x.e \in Experiments /\ {x.fresh, x.taken} \subseteq BOOLEAN

\* y is a copy at work like x, for the same request.
Works(x, y) ==
  /\ Working(y)
  /\ y.e = x.e /\ y.fresh = x.fresh /\ y.taken = x.taken
  /\ y.inst.deleting = x.inst.deleting
  /\ y.inst.status.iteration = x.inst.status.iteration

(***************************************************************************)
(* The marks of recorder.go leave a copy at work at work: they touch       *)
(* conditions, message and phase only.                                     *)
(***************************************************************************)
LEMMA MarksWork ==
  ASSUME NEW x, NEW tag, Working(x)
  PROVE  /\ Works(x, MarkTargetsError(x, tag))
         /\ Works(x, MarkTargetsFound(x))
         /\ Works(x, MarkRoutingRulesError(x, tag))
         /\ Works(x, MarkRoutingRulesReady(x))
         /\ Works(x, MarkAnalyticsServiceError(x))
         /\ Works(x, MarkAnalyticsServiceRunning(x))
         /\ Works(x, MarkSyncMetricsError(x))
         /\ Works(x, MarkSyncMetrics(x))
<1> USE DEF Working, Works, IsCopy, ObjectFields, SpecFields, StatusFields, WorkerFields,
            Terminating
<1>1. Works(x, MarkTargetsError(x, tag)) BY ZenonT(60) DEF MarkTargetsError
<1>2. Works(x, MarkTargetsFound(x)) BY ZenonT(60) DEF MarkTargetsFound
<1>3. Works(x, MarkRoutingRulesError(x, tag)) BY ZenonT(60) DEF MarkRoutingRulesError
<1>4. Works(x, MarkRoutingRulesReady(x)) BY ZenonT(60) DEF MarkRoutingRulesReady
<1>5. Works(x, MarkAnalyticsServiceError(x)) BY ZenonT(60) DEF MarkAnalyticsServiceError
<1>6. Works(x, MarkAnalyticsServiceRunning(x)) BY ZenonT(60) DEF MarkAnalyticsServiceRunning
<1>7. Works(x, MarkSyncMetricsError(x)) BY ZenonT(60) DEF MarkSyncMetricsError
<1>8. Works(x, MarkSyncMetrics(x)) BY ZenonT(60) DEF MarkSyncMetrics
<1>9. QED BY <1>1, <1>2, <1>3, <1>4, <1>5, <1>6, <1>7, <1>8

LEMMA PhasesWork ==
  ASSUME NEW x, Working(x), NEW phase \in {"Progressing", "Pause"}
  PROVE  /\ Works(x, MarkPhase(x, phase))
         /\ MarkPhase(x, phase).inst.status.phase = phase
         /\ MarkPhase(x, phase).inst.spec = x.inst.spec
<1> USE DEF Working, IsCopy, ObjectFields, SpecFields, StatusFields, WorkerFields
<1>1. phase # "Completed"
  OBVIOUS
<1>2. /\ DOMAIN MarkPhase(x, phase) = WorkerFields
      /\ IsCopy(MarkPhase(x, phase).inst)
      /\ ~MarkPhase(x, phase).inst.status.completed
      /\ MarkPhase(x, phase).inst.status.phase = phase
      /\ MarkPhase(x, phase).inst.spec = x.inst.spec
  BY <1>1, ZenonT(60) DEF MarkPhase
<1>3. Works(x, MarkPhase(x, phase))
  BY <1>2, ZenonT(60) DEF MarkPhase, Works, Terminating
<1>4. QED BY <1>2, <1>3

(***************************************************************************)
(* Going to another place changes nothing else.                            *)
(***************************************************************************)
LEMMA GotoKeeps ==
  ASSUME NEW x, NEW pc, DOMAIN x = WorkerFields
  PROVE  LET y == Goto(x, pc) IN
         /\ DOMAIN y = WorkerFields /\ y.pc = pc
         /\ y.e = x.e /\ y.inst = x.inst /\ y.fresh = x.fresh /\ y.taken = x.taken
  BY DEF Goto, WorkerFields

LEMMA WorksReady ==
  ASSUME NEW x, NEW y, NEW o, Works(x, y), Live(x), Ready(x, o)
  PROVE  Live(y) /\ Ready(y, o) /\ y.e = x.e
  BY DEF Works, Ready, Saves, StoredActive, Live

LEMMA ReleaseReady ==
  ASSUME NEW x, NEW o, Live(x), Ready(x, o)
  PROVE  LET y == [x EXCEPT !.taken = FALSE] IN
         Live(y) /\ Ready(y, o) /\ y.e = x.e /\ y.inst = x.inst /\ ~y.taken
  BY DEF Ready, Working, WorkerFields, Live, Saves, StoredActive

LEMMA WorksWorking ==
  ASSUME NEW x, NEW y, Works(x, y)
  PROVE  Working(y)
  BY DEF Works

LEMMA WorksOn ==
  ASSUME NEW x, NEW y, NEW z, Works(x, y), Works(y, z)
  PROVE  Works(x, z)
  BY DEF Works

LEMMA GotoReady ==
  ASSUME NEW x, NEW o, NEW pc, Ready(x, o)
  PROVE  Ready(Goto(x, pc), o) /\ Works(x, Goto(x, pc))
  BY GotoKeeps DEF Ready, Working, Works, Saves, StoredActive

LEMMA GotoLive ==
  ASSUME NEW x, NEW o, NEW pc, Live(x), Ready(x, o)
  PROVE  LET y == Goto(x, pc) IN
         Live(y) /\ Ready(y, o) /\ y.pc = pc /\ y.e = x.e /\ y.inst = x.inst /\ y.taken = x.taken
<1>1. DOMAIN x = WorkerFields
  BY DEF Ready, Working
<1>2. QED
  BY <1>1, GotoReady, GotoKeeps DEF Live

LEMMA LimitNat ==
  ASSUME NEW e \in Experiments
  PROVE  MaxIter(e) \in Nat /\ SpecOf[e].service \in Services
  BY SpecAssumption DEF MaxIter, ExperimentSpecs

LEMMA ReadyCloses ==
  ASSUME NEW x, NEW o, Live(x), Ready(x, o)
  PROVE  Closing(x, o)
<1> x.inst.status.iteration <= MaxIter(x.e) + 1
  BY LimitNat DEF Live, Ready, Working, IsCopy
<1> QED BY DEF Ready, Closing, Saves, StoredActive, Counted

(***************************************************************************)
(* A copy that is ready may be anywhere its flags allow.                   *)
(***************************************************************************)
LEMMA ReadyAnywhere ==
  ASSUME NEW x, NEW o, Live(x), Ready(x, o),
         \/ x.pc \in RulePcs \cup {"abandonTargets", "complete", "end"}
         \/ x.pc \in UserPcs /\ ~x.inst.deleting
  PROVE  WorkerInv(x, o)
<1>1. Ended(x, o)
  BY ReadyCloses DEF Ready, Closing, Ended, Working
<1>2. Closing(x, o)
  BY ReadyCloses
<1>3. QED
  BY <1>1, <1>2 DEF WorkerInv, Live, Ready, Working, Pcs, EarlyPcs, OpenPcs, UserPcs, RulePcs,
                    CleanupPcs

LEMMA AfterUpdateCloses ==
  ASSUME NEW x, NEW o, Live(x), Closing(x, o)
  PROVE  LET y == AfterUpdate(x) IN
         WorkerInv(y, o) /\ y.e = x.e /\ y.pc \in {"complete", "end"}
<1>1. CASE ToComplete(x)
  <2> DEFINE y == Goto(x, "complete")
  <2>1. AfterUpdate(x) = y
    BY <1>1 DEF AfterUpdate
  <2>2. Closing(y, o) /\ y.pc = "complete" /\ Live(y) /\ y.e = x.e
    BY GotoKeeps DEF Closing, Working, Saves, StoredActive, Counted, Live
  <2>3. WorkerInv(y, o)
    BY <2>2 DEF WorkerInv, Live, Closing, Working, Pcs, EarlyPcs, OpenPcs, UserPcs, RulePcs,
                CleanupPcs
  <2>4. QED BY <2>1, <2>2, <2>3
<1>2. CASE ~ToComplete(x)
  <2> DEFINE y == Goto(x, "end")
  <2>1. AfterUpdate(x) = y
    BY <1>2 DEF AfterUpdate
  <2>2. x.inst.status.iteration <= MaxIter(x.e)
    BY <1>2, LimitNat DEF ToComplete, SpecAt, MaxIter, Closing, Working, IsCopy, Live
  <2>3. Ended(y, o) /\ y.pc = "end" /\ Live(y) /\ y.e = x.e
    BY <2>2, GotoKeeps DEF Closing, Ended, Working, Saves, StoredActive, Counted, Live
  <2>4. WorkerInv(y, o)
    BY <2>3 DEF WorkerInv, Live, Ended, Pcs, EarlyPcs, OpenPcs, UserPcs, RulePcs, CleanupPcs
  <2>5. QED BY <2>1, <2>3, <2>4
<1>3. QED BY <1>1, <1>2

LEMMA AfterTargetsReady ==
  ASSUME NEW x, NEW o, Live(x), Ready(x, o)
  PROVE  LET y == AfterTargets(x) IN
         WorkerInv(y, o) /\ y.e = x.e /\ y.pc \in {"iterate", "complete", "end"}
<1>1. CASE ToUpdate(x)
  <2>1. ~x.inst.deleting
    BY <1>1 DEF ToUpdate, Ready, Working
  <2>2. QED
    BY <1>1, <2>1, GotoReady, GotoKeeps, ReadyAnywhere
    DEF AfterTargets, Works, Live, Ready, Working, UserPcs
<1>2. CASE ~ToUpdate(x)
  BY <1>2, ReadyCloses, AfterUpdateCloses DEF AfterTargets
<1>3. QED BY <1>1, <1>2

LEMMA AfterRulesReady ==
  ASSUME NEW x, NEW o, Live(x), Ready(x, o)
  PROVE  LET y == AfterRules(x) IN
         WorkerInv(y, o) /\ y.e = x.e /\ y.pc \in {"detect", "iterate", "complete", "end"}
<1>1. CASE ToDetectTargets(x)
  BY <1>1, GotoReady, GotoKeeps, ReadyAnywhere
  DEF AfterRules, Works, Live, Ready, Working, RulePcs
<1>2. CASE ~ToDetectTargets(x)
  BY <1>2, AfterTargetsReady DEF AfterRules
<1>3. QED BY <1>1, <1>2

LEMMA AfterProceedReady ==
  ASSUME NEW x, NEW o, Live(x), Ready(x, o), ~x.inst.deleting
  PROVE  LET y == AfterProceed(x) IN
         WorkerInv(y, o) /\ y.e = x.e /\ y.pc \in {"metrics", "rules"}
  BY GotoReady, GotoKeeps, ReadyAnywhere
  DEF AfterProceed, Works, Live, Ready, Working, RulePcs, UserPcs

LEMMA CountsOn ==
  ASSUME NEW x, NEW k \in Nat, DOMAIN x = WorkerFields, IsCopy(x.inst)
  PROVE  LET y == [x EXCEPT !.inst.status.lastUpdate = "recent", !.inst.status.iteration = k] IN
         /\ DOMAIN y = WorkerFields /\ IsCopy(y.inst)
         /\ y.e = x.e /\ y.fresh = x.fresh /\ y.taken = x.taken
         /\ y.inst.spec = x.inst.spec /\ y.inst.deleting = x.inst.deleting
         /\ y.inst.finalizer = x.inst.finalizer
         /\ y.inst.status.initialized = x.inst.status.initialized
         /\ y.inst.status.completed = x.inst.status.completed
         /\ y.inst.status.phase = x.inst.status.phase
         /\ y.inst.status.iteration = k
  BY DEF IsCopy, ObjectFields, SpecFields, StatusFields, WorkerFields

LEMMA IteratedCloses ==
  ASSUME NEW x, NEW o, Live(x), Ready(x, o), ~x.inst.deleting
  PROVE  LET y == Iterated(x) IN
         WorkerInv(y, o) /\ y.e = x.e /\ y.pc \in {"complete", "end"}
<1> DEFINE m == MarkPhase(x, "Progressing")
           n == [m EXCEPT !.progress = TRUE]
           k == x.inst.status.iteration + 1
           y == [n EXCEPT !.inst.status.lastUpdate = "recent", !.inst.status.iteration = k]
<1>1. Works(x, m) /\ m.inst.status.phase = "Progressing"
  BY PhasesWork DEF Ready
<1>2. /\ DOMAIN n = WorkerFields /\ n.inst = m.inst
      /\ n.e = m.e /\ n.fresh = m.fresh /\ n.taken = m.taken
  BY <1>1 DEF Works, Working, WorkerFields
<1>3. k \in Nat /\ IsCopy(n.inst) /\ n.inst.status.iteration + 1 = k
  BY <1>1, <1>2 DEF Works, Ready, Working, IsCopy
<1>4. Iterated(x) = AfterUpdate(y)
  BY <1>3 DEF Iterated, MarkIterationUpdate
<1> HIDE DEF n, y
<1>5. /\ DOMAIN y = WorkerFields /\ IsCopy(y.inst)
      /\ y.e = n.e /\ y.fresh = n.fresh /\ y.taken = n.taken
      /\ y.inst.spec = n.inst.spec /\ y.inst.deleting = n.inst.deleting
      /\ y.inst.finalizer = n.inst.finalizer
      /\ y.inst.status.initialized = n.inst.status.initialized
      /\ y.inst.status.completed = n.inst.status.completed
      /\ y.inst.status.phase = n.inst.status.phase
      /\ y.inst.status.iteration = k
  BY <1>2, <1>3, CountsOn, ZenonT(60) DEF y
<1>6. Working(y) /\ Live(y) /\ y.e = x.e /\ y.fresh = x.fresh
  BY <1>1, <1>2, <1>5 DEF Works, Working, Live
<1>7. k <= MaxIter(y.e) + 1
  BY <1>6, LimitNat DEF Ready, Working, IsCopy, Live
<1>8. Saves(y, o) => StoredActive(y, o) /\ Counted(y, o)
  BY <1>1, <1>2, <1>5, <1>6 DEF Ready, Saves, StoredActive, Counted, Works
<1>9. Closing(y, o)
  BY <1>5, <1>6, <1>7, <1>8 DEF Closing
<1>10. QED
  BY <1>4, <1>6, <1>9, AfterUpdateCloses

-----------------------------------------------------------------------------
(* Steps that write no object.                                             *)

BudgetKept == DOMAIN budget' = BudgetFields /\ budget'.uncreated = budget.uncreated

\* What the worker knows of the rules at q it knew at p.
Moves(p, q) ==
  /\ q \in OwningPcs => p \in OwningPcs
  /\ q \notin {"baselineVS", "candidates", "candidatesVS", "cleanupVS"}

LEMMA IdleInv ==
  ASSUME NEW o PROVE WorkerInv(Idle, o)
  BY DEF WorkerInv, Idle, WorkerFields, Pcs, EarlyPcs, OpenPcs, UserPcs, RulePcs, CleanupPcs

LEMMA BudgetSpent ==
  ASSUME ObjectsInv, NEW n, budget' = budget \/ budget' = [budget EXCEPT !.failures = n]
  PROVE  BudgetKept
  BY DEF ObjectsInv, BudgetKept, BudgetFields

LEMMA ObjectsKept ==
  ASSUME ObjectsInv, UNCHANGED apiVars, BudgetKept
  PROVE  ObjectsInv'
  BY DEF ObjectsInv, apiVars, BudgetKept

LEMMA MovesOwned ==
  ASSUME IInv, w.pc # "idle", w'.e = w.e, Moves(w.pc, w'.pc)
  PROVE  Owned(w', dr[Svc(w)], vs[Svc(w)])
  BY DEF IInv, RulesInv, Moves, Owned, OwningPcs

(***************************************************************************)
(* A step that writes neither objects nor rules.                           *)
(***************************************************************************)
LEMMA QuietStep ==
  ASSUME IInv, UNCHANGED <<apiVars, ruleVars>>, BudgetKept,
         WorkerInv(w', stored[w.e]),
         w'.pc # "idle" => w'.e = w.e /\ Owned(w', dr[Svc(w)], vs[Svc(w)])
  PROVE  IInv'
<1>1. ObjectsInv' BY ObjectsKept DEF IInv
<1>2. RulesInv' BY DEF IInv, RulesInv, ruleVars, Svc, SpecAt
<1>3. WorkerInv(w, stored[w.e])'
  <2>1. CASE w'.pc = "idle"
    <3>1. w' = Idle BY <2>1 DEF WorkerInv
    <3>2. QED BY <3>1, IdleInv
  <2>2. CASE w'.pc # "idle" BY <2>2 DEF apiVars
  <2>3. QED BY <2>1, <2>2
<1>4. QED BY <1>1, <1>2, <1>3 DEF IInv

(***************************************************************************)
(* What the worker's place says of its copy.                               *)
(***************************************************************************)
LEMMA HereReady ==
  ASSUME IInv, w.pc \in UserPcs \cup RulePcs \cup {"abandonTargets"}
  PROVE  /\ Live(w) /\ Ready(w, stored[w.e]) /\ Working(w)
         /\ w.pc \in UserPcs => ~w.inst.deleting
         /\ w.pc # "idle"
  BY DEF IInv, WorkerInv, Live, Ready, UserPcs, RulePcs

LEMMA HereCloses ==
  ASSUME IInv, w.pc \in CleanupPcs \cup {"complete"}
  PROVE  /\ Live(w) /\ Closing(w, stored[w.e]) /\ Working(w)
         /\ w.pc # "idle"
         /\ w.pc \in CleanupPcs => ~w.taken
  BY DEF IInv, WorkerInv, Live, Closing, CleanupPcs

LEMMA HereOpened ==
  ASSUME IInv, w.pc \in OpenPcs
  PROVE  Live(w) /\ Opened(w, stored[w.e]) /\ w.pc # "idle" /\ w.taken
  BY DEF IInv, WorkerInv, Live, Opened, OpenPcs, EarlyPcs

LEMMA GoesToEnd ==
  ASSUME NEW x, NEW y, NEW o, Live(x), Ready(x, o), Works(x, y)
  PROVE  LET z == Goto(y, "end") IN WorkerInv(z, o) /\ z.e = x.e /\ z.pc = "end"
<1>1. Live(y) /\ Ready(y, o) /\ y.e = x.e
  BY WorksReady
<1>2. QED
  BY <1>1, GotoReady, GotoKeeps, ReadyAnywhere DEF Works, Live, Ready, Working

LEMMA UseRulesInv ==
  ASSUME IInv, UseRules PROVE IInv'
<1> DEFINE x == MarkRoutingRulesReady(w)
<1>1. Live(w) /\ Ready(w, stored[w.e]) /\ Working(w)
  BY HereReady DEF UseRules, At, RulePcs
<1>2. Live(x) /\ Ready(x, stored[w.e]) /\ x.e = w.e
  BY <1>1, MarksWork, WorksReady DEF Works, Live
<1>3. /\ WorkerInv(w', stored[w.e]) /\ w'.e = w.e
      /\ w'.pc \in {"detect", "iterate", "complete", "end"}
  BY <1>2, AfterRulesReady DEF UseRules
<1>4. BudgetKept
  BY BudgetSpent DEF UseRules, IInv
<1>5. Owned(w', dr[Svc(w)], vs[Svc(w)])
  <2>1. Svc(w) \in Services
    BY <1>1, LimitNat DEF Live, Svc, SpecAt
  <2>2. IsProgressing(dr[Svc(w)], vs[Svc(w)]) =>
          Labelled(dr[Svc(w)], w.e) /\ Labelled(vs[Svc(w)], w.e)
    BY <2>1 DEF UseRules, RulesAccepted, IsProgressing, Labelled, IInv, RulesInv
  <2>3. QED BY <1>3, <2>2 DEF Owned
<1>6. QED
  BY <1>3, <1>4, <1>5, QuietStep DEF UseRules

LEMMA RefuseRulesInv ==
  ASSUME IInv, RefuseRules PROVE IInv'
<1> DEFINE m == MarkRoutingRulesError(w, "GetError")
           x == [m EXCEPT !.taken = FALSE]
           next == IF SpecAt(w).cleanup THEN "abandonTargets" ELSE "end"
<1>1. Live(w) /\ Ready(w, stored[w.e]) /\ Working(w)
  BY HereReady DEF RefuseRules, At, RulePcs
<1>2. Works(w, m)
  BY <1>1, MarksWork
<1>3. Live(m) /\ Ready(m, stored[w.e]) /\ m.e = w.e
  BY <1>1, <1>2, WorksReady
<1> HIDE DEF m
<1>4. Live(x) /\ Ready(x, stored[w.e]) /\ x.e = w.e /\ ~x.taken
  BY <1>3, ReleaseReady
<1>5. w' = Goto(x, next) /\ next \in {"abandonTargets", "end"}
  BY DEF RefuseRules, m
<1> HIDE DEF x, next
<1>6. /\ Live(w') /\ Ready(w', stored[w.e]) /\ ~w'.taken /\ w'.e = w.e
      /\ w'.pc \in {"abandonTargets", "end"}
  BY <1>4, <1>5, GotoLive
<1>7. WorkerInv(w', stored[w.e])
  BY <1>6, ReadyAnywhere
<1>8. BudgetKept
  BY BudgetSpent DEF RefuseRules, MayFail, IInv
<1>9. QED
  BY <1>6, <1>7, <1>8, QuietStep DEF RefuseRules, Owned, OwningPcs

LEMMA DetectTargetsInv ==
  ASSUME IInv, DetectTargets PROVE IInv'
<1>1. Live(w) /\ Ready(w, stored[w.e]) /\ Working(w) /\ w.pc = "detect"
  BY HereReady DEF DetectTargets, At, RulePcs
<1>2. BudgetKept
  BY BudgetSpent DEF DetectTargets, IInv
<1>3. CASE \E tag : w' = Goto(MarkTargetsError(w, tag), "end")
  <2>1. PICK tag : w' = Goto(MarkTargetsError(w, tag), "end")
    BY <1>3
  <2>2. WorkerInv(w', stored[w.e]) /\ w'.e = w.e /\ w'.pc = "end"
    BY <1>1, <2>1, MarksWork, GoesToEnd
  <2>3. QED
    BY <1>2, <2>2, QuietStep DEF DetectTargets, Owned, OwningPcs
<1>4. CASE w' = AfterTargets(MarkTargetsFound(w))
  <2>1. /\ WorkerInv(w', stored[w.e]) /\ w'.e = w.e
        /\ w'.pc \in {"iterate", "complete", "end"}
    BY <1>1, <1>4, MarksWork, WorksReady, AfterTargetsReady
  <2>2. Owned(w', dr[Svc(w)], vs[Svc(w)])
    BY <1>1, <2>1, MovesOwned DEF Moves, OwningPcs
  <2>3. QED
    BY <1>2, <2>1, <2>2, QuietStep DEF DetectTargets
<1>5. CASE w' = Goto(w, "baselineDR")
  <2>1. /\ w'.pc = "baselineDR" /\ w'.e = w.e /\ Live(w') /\ Ready(w', stored[w.e])
    BY <1>1, <1>5, GotoReady, GotoKeeps, WorksReady DEF Working
  <2>2. WorkerInv(w', stored[w.e])
    BY <2>1, ReadyAnywhere DEF RulePcs
  <2>3. Owned(w', dr[Svc(w)], vs[Svc(w)])
    BY <1>1, <2>1, MovesOwned DEF Moves, OwningPcs
  <2>4. QED
    BY <1>2, <2>1, <2>2, <2>3, QuietStep DEF DetectTargets
<1>6. QED
  BY <1>3, <1>4, <1>5 DEF DetectTargets

LEMMA MissingCandidateInv ==
  ASSUME IInv, MissingCandidate PROVE IInv'
<1>1. Live(w) /\ Ready(w, stored[w.e]) /\ Working(w)
  BY HereReady DEF MissingCandidate, At, RulePcs
<1>2. WorkerInv(w', stored[w.e]) /\ w'.e = w.e /\ w'.pc = "end"
  BY <1>1, MarksWork, GoesToEnd DEF MissingCandidate
<1>3. BudgetKept
  BY BudgetSpent DEF MissingCandidate, IInv
<1>4. QED
  BY <1>2, <1>3, QuietStep DEF MissingCandidate, Owned, OwningPcs

LEMMA WeightsWork ==
  ASSUME NEW x, NEW f, Working(x)
  PROVE  /\ Works(x, [x EXCEPT !.inst.status.weights = f])
         /\ Works(x, [x EXCEPT !.inst.status.winner = f])
         /\ Works(x, [x EXCEPT !.inst.status.weights[0] = f])
<1> USE DEF Working, Works, IsCopy, ObjectFields, SpecFields, StatusFields, WorkerFields,
            Terminating
<1>1. Works(x, [x EXCEPT !.inst.status.weights = f]) OBVIOUS
<1>2. Works(x, [x EXCEPT !.inst.status.winner = f]) OBVIOUS
<1>3. Works(x, [x EXCEPT !.inst.status.weights[0] = f]) OBVIOUS
<1>4. QED BY <1>1, <1>2, <1>3

LEMMA IterateWithoutCriteriaInv ==
  ASSUME IInv, IterateWithoutCriteria PROVE IInv'
<1>1. Live(w) /\ Ready(w, stored[w.e]) /\ Working(w) /\ ~w.inst.deleting /\ w.pc = "iterate"
  BY HereReady DEF IterateWithoutCriteria, At, UserPcs
<1>2. BudgetKept
  BY BudgetSpent DEF IterateWithoutCriteria, IInv
<1>3. CASE \E f : w' = Goto([w EXCEPT !.inst.status.weights = f], "split")
  <2>1. PICK f : w' = Goto([w EXCEPT !.inst.status.weights = f], "split")
    BY <1>3
  <2> DEFINE x == [w EXCEPT !.inst.status.weights = f]
  <2>2. Works(w, x)
    BY <1>1, WeightsWork
  <2> HIDE DEF x
  <2>3. /\ w'.pc = "split" /\ w'.e = w.e /\ Live(w') /\ Ready(w', stored[w.e])
        /\ ~w'.inst.deleting
    <3>1. Live(x) /\ Ready(x, stored[w.e]) /\ x.e = w.e /\ ~x.inst.deleting
      BY <1>1, <2>2, WorksReady DEF Works
    <3>2. w' = Goto(x, "split")
      BY <2>1 DEF x
    <3>3. QED BY <3>1, <3>2, GotoLive
  <2>4. WorkerInv(w', stored[w.e])
    BY <2>3, ReadyAnywhere DEF UserPcs
  <2>5. Owned(w', dr[Svc(w)], vs[Svc(w)])
    BY <1>1, <2>3, MovesOwned DEF Moves, OwningPcs
  <2>6. QED
    BY <1>2, <2>3, <2>4, <2>5, QuietStep DEF IterateWithoutCriteria
<1>4. CASE w' = Iterated(w)
  <2>1. /\ WorkerInv(w', stored[w.e]) /\ w'.e = w.e /\ w'.pc \in {"complete", "end"}
    BY <1>1, <1>4, IteratedCloses
  <2>2. Owned(w', dr[Svc(w)], vs[Svc(w)])
    BY <1>1, <2>1, MovesOwned DEF Moves, OwningPcs
  <2>3. QED
    BY <1>2, <2>1, <2>2, QuietStep DEF IterateWithoutCriteria
<1>5. QED
  BY <1>3, <1>4 DEF IterateWithoutCriteria

LEMMA AnalyticsFailsInv ==
  ASSUME IInv, AnalyticsFails PROVE IInv'
<1>1. Live(w) /\ Ready(w, stored[w.e]) /\ Working(w)
  BY HereReady DEF AnalyticsFails, At, UserPcs
<1>2. WorkerInv(w', stored[w.e]) /\ w'.e = w.e /\ w'.pc = "end"
  BY <1>1, MarksWork, GoesToEnd DEF AnalyticsFails
<1>3. BudgetKept
  BY BudgetSpent DEF AnalyticsFails, MayFail, IInv
<1>4. QED
  BY <1>2, <1>3, QuietStep DEF AnalyticsFails, Owned, OwningPcs

LEMMA SplitWithoutRulesInv ==
  ASSUME IInv, SplitWithoutRules PROVE IInv'
<1>1. Live(w) /\ Ready(w, stored[w.e]) /\ Working(w)
  BY HereReady DEF SplitWithoutRules, At, UserPcs
<1>2. WorkerInv(w', stored[w.e]) /\ w'.e = w.e /\ w'.pc = "end"
  BY <1>1, MarksWork, GoesToEnd DEF SplitWithoutRules
<1>3. BudgetKept
  BY BudgetSpent DEF SplitWithoutRules, IInv
<1>4. QED
  BY <1>2, <1>3, QuietStep DEF SplitWithoutRules, Owned, OwningPcs

LEMMA GotoCloses ==
  ASSUME NEW x, NEW o, NEW pc, Live(x), Closing(x, o)
  PROVE  LET y == Goto(x, pc) IN
         Live(y) /\ Closing(y, o) /\ y.pc = pc /\ y.e = x.e /\ y.inst = x.inst /\ y.taken = x.taken
  BY GotoKeeps DEF Closing, Working, Saves, StoredActive, Counted, Live

LEMMA ReleaseCloses ==
  ASSUME NEW x, NEW o, Live(x), Closing(x, o)
  PROVE  LET y == [x EXCEPT !.taken = FALSE] IN
         Live(y) /\ Closing(y, o) /\ y.e = x.e /\ y.inst = x.inst /\ ~y.taken
  BY DEF Closing, Working, WorkerFields, Live, Saves, StoredActive, Counted

LEMMA ClosingAnywhere ==
  ASSUME NEW x, NEW o, Live(x), Closing(x, o),
         x.pc = "complete" \/ (x.pc \in CleanupPcs /\ ~x.taken)
  PROVE  WorkerInv(x, o)
  BY DEF WorkerInv, Live, Closing, Working, Pcs, EarlyPcs, OpenPcs, UserPcs, RulePcs, CleanupPcs

LEMMA CompleteInv ==
  ASSUME IInv, Complete PROVE IInv'
<1> DEFINE x == [w EXCEPT !.taken = FALSE]
           next == IF SpecAt(w).cleanup THEN "cleanupTargets" ELSE "cleanupDR"
<1>1. Live(w) /\ Closing(w, stored[w.e]) /\ w.pc = "complete"
  BY HereCloses DEF Complete, At
<1>2. Live(x) /\ Closing(x, stored[w.e]) /\ x.e = w.e /\ ~x.taken
  BY <1>1, ReleaseCloses
<1>3. w' = Goto(x, next) /\ next \in {"cleanupTargets", "cleanupDR"}
  BY DEF Complete
<1> HIDE DEF x, next
<1>4. /\ Live(w') /\ Closing(w', stored[w.e]) /\ ~w'.taken /\ w'.e = w.e
      /\ w'.pc \in {"cleanupTargets", "cleanupDR"}
  BY <1>2, <1>3, GotoCloses
<1>5. WorkerInv(w', stored[w.e])
  BY <1>4, ClosingAnywhere DEF CleanupPcs
<1>6. Owned(w', dr[Svc(w)], vs[Svc(w)])
  BY <1>1, <1>4, MovesOwned DEF Moves, OwningPcs
<1>7. BudgetKept
  BY BudgetSpent DEF Complete, IInv
<1>8. QED
  BY <1>4, <1>5, <1>6, <1>7, QuietStep DEF Complete

LEMMA CleanupTargetsInv ==
  ASSUME IInv, CleanupTargets PROVE IInv'
<1>1. BudgetKept
  BY BudgetSpent DEF CleanupTargets, IInv
<1>2. CASE w.pc = "cleanupTargets"
  <2>1. Live(w) /\ Closing(w, stored[w.e]) /\ ~w.taken
    BY <1>2, HereCloses DEF CleanupPcs
  <2>2. w' = Goto(w, "cleanupDR")
    BY <1>2 DEF CleanupTargets, At
  <2>3. /\ Live(w') /\ Closing(w', stored[w.e]) /\ ~w'.taken /\ w'.e = w.e
        /\ w'.pc = "cleanupDR"
    BY <2>1, <2>2, GotoCloses
  <2>4. WorkerInv(w', stored[w.e])
    BY <2>3, ClosingAnywhere DEF CleanupPcs
  <2>5. Owned(w', dr[Svc(w)], vs[Svc(w)])
    BY <1>2, <2>3, MovesOwned DEF Moves, OwningPcs
  <2>6. QED
    BY <1>1, <2>3, <2>4, <2>5, QuietStep DEF CleanupTargets
<1>3. CASE w.pc = "abandonTargets"
  <2>1. Live(w) /\ Ready(w, stored[w.e]) /\ Works(w, w)
    BY <1>3, HereReady DEF Works
  <2>2. w' = Goto(w, "end")
    BY <1>3 DEF CleanupTargets, At
  <2>3. WorkerInv(w', stored[w.e]) /\ w'.e = w.e /\ w'.pc = "end"
    BY <2>1, <2>2, GoesToEnd
  <2>4. QED
    BY <1>1, <2>3, QuietStep DEF CleanupTargets, Owned, OwningPcs
<1>4. QED
  BY <1>2, <1>3 DEF CleanupTargets

(***************************************************************************)
(* An override and what overrideAssessment makes of it touch the spec and  *)
(* the weights only.                                                       *)
(***************************************************************************)
Same(o, p) ==
  /\ IsCopy(p)
  /\ p.finalizer = o.finalizer /\ p.deleting = o.deleting
  /\ p.status.initialized = o.status.initialized /\ p.status.completed = o.status.completed
  /\ p.status.phase = o.status.phase /\ p.status.iteration = o.status.iteration

LEMMA OverrideKeeps ==
  ASSUME NEW o, NEW f, IsCopy(o)
  PROVE  /\ Same(o, [o EXCEPT !.spec.override = f])
         /\ [o EXCEPT !.spec.override = f].spec.override = f
         /\ Same(o, OverrideAssessment(o))
         /\ OverrideAssessment(o).spec.override = o.spec.override
<1> USE DEF Same, IsCopy, ObjectFields, SpecFields, StatusFields
<1>1. Same(o, [o EXCEPT !.spec.override = f])
  OBVIOUS
<1>2. [o EXCEPT !.spec.override = f].spec.override = f
  OBVIOUS
<1>3. Same(o, OverrideAssessment(o))
  BY DEF OverrideAssessment
<1>4. OverrideAssessment(o).spec.override = o.spec.override
  BY DEF OverrideAssessment
<1>5. QED
  BY <1>1, <1>2, <1>3, <1>4

LEMMA TerminateKeeps ==
  ASSUME NEW o, NEW split, IsCopy(o)
  PROVE  LET p == OverrideAssessment([o EXCEPT !.spec.override = Terminate(split)]) IN
         /\ Same(o, p)
         /\ p.spec.override = Terminate(split)
<1> DEFINE q == [o EXCEPT !.spec.override = Terminate(split)]
           p == OverrideAssessment(q)
<1>1. Same(o, q) /\ q.spec.override = Terminate(split)
  BY OverrideKeeps
<1>2. Same(q, p) /\ p.spec.override = Terminate(split)
  BY <1>1, OverrideKeeps DEF Same
<1>3. QED
  BY <1>1, <1>2 DEF Same

LEMMA TerminateNow ==
  ASSUME NEW o, IsCopy(o)
  PROVE  LET p == OverrideAssessment([o EXCEPT !.spec.override = Terminate(NoSplit)]) IN
         Same(o, p) /\ Terminating(p)
<1>1. Terminate(NoSplit) # None /\ Terminate(NoSplit).action = "terminate"
  BY KindAssumption DEF Terminate
<1>2. QED
  BY <1>1, TerminateKeeps DEF Terminating

LEMMA InstChanged ==
  ASSUME NEW x, NEW i, DOMAIN x = WorkerFields
  PROVE  LET y == [x EXCEPT !.inst = i] IN
         /\ DOMAIN y = WorkerFields /\ y.inst = i
         /\ y.e = x.e /\ y.fresh = x.fresh /\ y.taken = x.taken /\ y.pc = x.pc
  BY DEF WorkerFields

(***************************************************************************)
(* At dispatch, an experiment that has not completed is at work, unless it *)
(* is being deleted and not terminated yet.                                *)
(***************************************************************************)
LEMMA DispatchReady ==
  ASSUME NEW x, NEW o, Opened(x, o), x.e \in Experiments, x.pc = "dispatch",
         o = None \/ Sound(x.e, o),
         ~x.inst.status.completed, x.inst.deleting => Terminating(x.inst)
  PROVE  Ready(x, o) /\ Working(x)
<1>1. Working(x) /\ x.inst.status.iteration <= MaxIter(x.e)
  BY DEF Opened, Sound, Working
<1>2. Saves(x, o) => StoredActive(x, o) /\ o.status.iteration = x.inst.status.iteration
  BY <1>1 DEF Opened, StoredActive, Saves, Working
<1>3. QED
  BY <1>1, <1>2 DEF Ready

LEMMA HereDispatch ==
  ASSUME IInv, w.pc = "dispatch"
  PROVE  /\ Live(w) /\ Opened(w, stored[w.e]) /\ w.e \in Experiments /\ w.taken
         /\ DOMAIN w = WorkerFields /\ IsCopy(w.inst)
         /\ stored[w.e] = None \/ Sound(w.e, stored[w.e])
  BY HereOpened DEF IInv, ObjectsInv, Live, OpenPcs, Opened, Sound

LEMMA StartFinalizeInv ==
  ASSUME IInv, StartFinalize PROVE IInv'
<1>1. BudgetKept
  BY BudgetSpent DEF StartFinalize, IInv
<1>2. w.pc = "dispatch" /\ w.inst.deleting
  BY DEF StartFinalize, At
<1>3. CASE w.inst.status.completed
  <2> DEFINE x == [w EXCEPT !.taken = FALSE]
  <2>1. /\ DOMAIN x = WorkerFields /\ x.e = w.e /\ x.fresh = w.fresh /\ x.inst = w.inst
        /\ x.taken = FALSE
    BY <1>2, HereDispatch DEF WorkerFields
  <2>2. w' = Goto(x, "unfinalize")
    BY <1>3 DEF StartFinalize
  <2> HIDE DEF x
  <2>3. /\ DOMAIN w' = WorkerFields /\ w'.pc = "unfinalize" /\ w'.e = w.e
        /\ w'.fresh = w.fresh /\ w'.inst = w.inst /\ w'.taken = FALSE
    BY <2>1, <2>2, GotoKeeps
  <2>4. Leaving(w', stored[w.e]) /\ Live(w')
    BY <1>2, <2>3, HereDispatch DEF Leaving, Opened, Live, Saves
  <2>5. WorkerInv(w', stored[w.e])
    BY <2>3, <2>4 DEF WorkerInv, Live, Pcs, EarlyPcs, OpenPcs, UserPcs, RulePcs, CleanupPcs
  <2>6. QED
    BY <1>1, <2>3, <2>5, QuietStep DEF StartFinalize, Owned, OwningPcs
<1>4. CASE ~w.inst.status.completed
  <2> DEFINE i == OverrideAssessment([w.inst EXCEPT !.spec.override = Terminate(NoSplit)])
             x == [w EXCEPT !.inst = i]
  <2>1. Same(w.inst, i) /\ Terminating(i)
    BY <1>2, HereDispatch, TerminateNow
  <2>2. w' = Goto(x, "rules")
    BY <1>4 DEF StartFinalize
  <2> HIDE DEF i
  <2>3. /\ DOMAIN x = WorkerFields /\ x.e = w.e /\ x.fresh = w.fresh /\ x.inst = i
        /\ x.taken = w.taken /\ x.pc = w.pc
    BY <1>2, HereDispatch, InstChanged
  <2> HIDE DEF x
  <2>4. Opened(x, stored[w.e]) /\ Live(x)
    BY <1>2, <2>1, <2>3, HereDispatch DEF Opened, Same, Sound, Saves, Live
  <2>5. Ready(x, stored[w.e])
    BY <1>2, <1>4, <2>1, <2>3, <2>4, HereDispatch, DispatchReady DEF Same
  <2>6. /\ Live(w') /\ Ready(w', stored[w.e]) /\ w'.pc = "rules" /\ w'.e = w.e
    BY <2>2, <2>3, <2>4, <2>5, GotoLive
  <2>7. WorkerInv(w', stored[w.e])
    BY <2>6, ReadyAnywhere DEF RulePcs
  <2>8. QED
    BY <1>1, <2>6, <2>7, QuietStep DEF StartFinalize, Owned, OwningPcs
<1>5. QED
  BY <1>3, <1>4

LEMMA GoesIdle ==
  ASSUME IInv, UNCHANGED <<apiVars, ruleVars, budget>>, w' = Idle PROVE IInv'
<1>1. BudgetKept
  BY BudgetSpent DEF IInv
<1>2. w'.pc = "idle"
  BY DEF Idle
<1>3. QED
  BY <1>1, <1>2, IdleInv, QuietStep

LEMMA SkipsInv ==
  ASSUME IInv, SkipCompleted \/ NotFound PROVE IInv'
  BY GoesIdle DEF SkipCompleted, NotFound

(***************************************************************************)
(* A restart forgets what the worker knew and reads the objects again.     *)
(***************************************************************************)
LEMMA RestartInv ==
  ASSUME IInv, Restart, BudgetKept PROVE IInv'
<1>1. ObjectsInv'
  BY DEF IInv, ObjectsInv, Restart, BudgetKept
<1>2. w'.pc = "idle"
  BY DEF Restart, Idle
<1>3. RulesInv'
  BY <1>2 DEF IInv, RulesInv, Restart, ruleVars
<1>4. WorkerInv(w, stored[w.e])'
  BY IdleInv DEF Restart
<1>5. QED
  BY <1>1, <1>3, <1>4 DEF IInv

LEMMA RejectInv ==
  ASSUME IInv, Reject PROVE IInv'
<1>1. BudgetKept
  BY BudgetSpent DEF Reject, IInv
<1>2. CASE Panics(w)
  BY <1>1, <1>2, RestartInv DEF Reject
<1>3. CASE ~Panics(w)
  <2> DEFINE m == MarkTargetsError(w, "Conflict")
             x == [m EXCEPT !.taken = FALSE]
  <2>1. w.pc = "dispatch" /\ ~w.inst.deleting /\ ~w.inst.status.completed
    BY DEF Reject, ToReconcile, At
  <2>2. Live(w) /\ Ready(w, stored[w.e]) /\ Working(w)
    BY <2>1, HereDispatch, DispatchReady
  <2>3. Live(m) /\ Ready(m, stored[w.e]) /\ m.e = w.e
    BY <2>2, MarksWork, WorksReady
  <2> HIDE DEF m
  <2>4. Live(x) /\ Ready(x, stored[w.e]) /\ x.e = w.e /\ Works(x, x)
    BY <2>3, ReleaseReady DEF Works, Ready
  <2>5. w' = Goto(x, "end") /\ UNCHANGED <<apiVars, ruleVars>>
    BY <1>3 DEF Reject, m
  <2> HIDE DEF x
  <2>6. WorkerInv(w', stored[w.e]) /\ w'.e = w.e /\ w'.pc = "end"
    BY <2>4, <2>5, GoesToEnd
  <2>7. QED
    BY <1>1, <2>5, <2>6, QuietStep DEF Owned, OwningPcs
<1>4. QED
  BY <1>2, <1>3

LEMMA InstWorks ==
  ASSUME NEW x, NEW i, Working(x), Same(x.inst, i), x.inst.deleting => Terminating(i)
  PROVE  Works(x, [x EXCEPT !.inst = i])
<1> DEFINE y == [x EXCEPT !.inst = i]
<1>1. /\ DOMAIN y = WorkerFields /\ y.inst = i
      /\ y.e = x.e /\ y.fresh = x.fresh /\ y.taken = x.taken
  BY InstChanged DEF Working
<1> HIDE DEF y
<1>2. QED
  BY <1>1 DEF Works, Working, Same, y

(***************************************************************************)
(* Whatever the snapshot of the cache says, the copy stays at work.        *)
(***************************************************************************)
LEMMA SyncWorks ==
  ASSUME NEW x, NEW ea, Working(x), ~x.inst.deleting
  PROVE  Works(x, SyncExperiment(x, ea))
<1>1. CASE Terminating(x.inst)
  <2>1. Works(x, [x EXCEPT !.inst = OverrideAssessment(x.inst)])
    BY OverrideKeeps, InstWorks DEF Working
  <2>2. QED
    BY <1>1, <2>1 DEF SyncExperiment
<1>2. CASE ~Terminating(x.inst) /\ ea.action = "terminate"
  <2> DEFINE i == OverrideAssessment(OnDeletedTarget(x.inst, ea.deletedRole))
             y == [x EXCEPT !.inst = i]
  <2>1. Same(x.inst, i)
    BY TerminateKeeps DEF OnDeletedTarget, Working
  <2> HIDE DEF i
  <2>2. Works(x, y)
    BY <2>1, InstWorks
  <2> HIDE DEF y
  <2>3. Works(x, MarkTargetsError(y, "Lost"))
    BY <2>2, MarksWork, WorksWorking, WorksOn
  <2>4. SyncExperiment(x, ea) = MarkTargetsError(y, "Lost")
    BY <1>2 DEF SyncExperiment, i, y
  <2>5. QED
    BY <2>3, <2>4
<1>3. CASE ~Terminating(x.inst) /\ ea.action = "resume"
  <2>1. Works(x, [x EXCEPT !.inst.status.phase = "Progressing"])
    BY DEF Working, Works, IsCopy, ObjectFields, SpecFields, StatusFields, WorkerFields
  <2>2. ~(~Terminating(x.inst) /\ ea.action = "terminate")
    BY <1>3
  <2>3. QED
    BY <1>3, <2>1, <2>2 DEF SyncExperiment
<1>4. CASE ~Terminating(x.inst) /\ ea.action \notin {"terminate", "resume"}
  BY <1>4 DEF SyncExperiment, Works
<1>5. QED
  BY <1>1, <1>2, <1>3, <1>4

LEMMA FlagsWork ==
  ASSUME NEW x, NEW b, Working(x)
  PROVE  /\ Works(x, [x EXCEPT !.statusUpdate = b]) /\ Works(x, [x EXCEPT !.refresh = b])
         /\ Works(x, [x EXCEPT !.terminate = b])
  BY DEF Working, Works, WorkerFields

LEMMA ResumeWorks ==
  ASSUME NEW x, Working(x), ~x.inst.deleting
  PROVE  /\ Works(x, MarkActionResume(x))
         /\ Works(x, [MarkActionResume(x) EXCEPT !.inst.spec.override = None])
<1> DEFINE m == MarkPhase(x, "Progressing")
           y == [m EXCEPT !.refresh = TRUE]
           z == [y EXCEPT !.inst.spec.override = None]
<1>1. Works(x, m)
  BY PhasesWork
<1> HIDE DEF m
<1>2. Works(x, y)
  BY <1>1, FlagsWork, WorksWorking, WorksOn
<1> HIDE DEF y
<1>3. Works(y, z)
  BY <1>2 DEF Working, Works, IsCopy, ObjectFields, SpecFields, StatusFields, WorkerFields
<1>4. QED
  BY <1>2, <1>3, WorksOn DEF MarkActionResume, m, y

LEMMA ProceedReady ==
  ASSUME NEW x, NEW o, Live(x), Ready(x, o), ~x.inst.deleting
  PROVE  LET y == Proceed(x) IN
         /\ WorkerInv(y, o)
         /\ y.pc # "idle" => y.e = x.e
         /\ y.pc \in {"idle", "pauseSave", "resumeSave", "metrics", "rules"}
<1> DEFINE m == MarkActionPause(x)
           r == MarkActionResume(x)
           c == [r EXCEPT !.inst.spec.override = None]
<1>1. Works(x, m) /\ Works(x, r) /\ Works(x, c) /\ Works(x, x)
  BY PhasesWork, ResumeWorks DEF MarkActionPause, Ready, Works
<1> HIDE DEF m, r, c
<1>2. \A y : Works(x, y) => Live(y) /\ Ready(y, o) /\ y.e = x.e /\ ~y.inst.deleting
  BY WorksReady DEF Works
<1>3. \A y, pc : Works(x, y) /\ pc \in {"pauseSave", "resumeSave"} =>
        LET z == Goto(y, pc) IN WorkerInv(z, o) /\ z.e = x.e /\ z.pc = pc
  <2> SUFFICES ASSUME NEW y, NEW pc \in {"pauseSave", "resumeSave"}, Works(x, y)
               PROVE  LET z == Goto(y, pc) IN WorkerInv(z, o) /\ z.e = x.e /\ z.pc = pc
    OBVIOUS
  <2>1. LET z == Goto(y, pc) IN
        Live(z) /\ Ready(z, o) /\ z.pc = pc /\ z.e = x.e /\ ~z.inst.deleting
    BY <1>2, GotoLive
  <2>2. QED
    BY <2>1, ReadyAnywhere DEF UserPcs
<1>4. \A y : Works(x, y) =>
        LET z == AfterProceed(y) IN
        WorkerInv(z, o) /\ z.e = x.e /\ z.pc \in {"metrics", "rules"}
  BY <1>2, AfterProceedReady
<1>5. WorkerInv(Idle, o) /\ Idle.pc = "idle"
  BY IdleInv DEF Idle
<1>6. Proceed(x) \in {Goto(m, "pauseSave"), AfterProceed(x), AfterProceed(r),
                      Goto(c, "resumeSave"), Idle}
  BY DEF Proceed, m, r, c
<1>7. QED
  BY <1>1, <1>3, <1>4, <1>5, <1>6

LEMMA BeginInv ==
  ASSUME IInv, Begin PROVE IInv'
<1> DEFINE ea == Cache!CurrentAbstract(w.e, TargetSpec(w.e))
           r == [w EXCEPT !.taken = FALSE]
           t == [r EXCEPT !.terminate = ea.action = "terminate"]
           x == SyncExperiment(t, ea)
           y == [x EXCEPT !.statusUpdate = FALSE]
<1>1. BudgetKept
  BY BudgetSpent DEF Begin, IInv
<1>2. w.pc = "dispatch" /\ ~w.inst.deleting /\ ~w.inst.status.completed
  BY DEF Begin, ToReconcile, At
<1>3. CASE ea.action = "terminate" /\ ~Terminating(w.inst) /\ Panics(w)
  BY <1>1, <1>3, RestartInv DEF Begin
<1>4. CASE ~(ea.action = "terminate" /\ ~Terminating(w.inst) /\ Panics(w))
  <2>1. Live(w) /\ Ready(w, stored[w.e])
    BY <1>2, HereDispatch, DispatchReady
  <2>2. Live(r) /\ Ready(r, stored[w.e]) /\ r.e = w.e /\ ~r.inst.deleting
    BY <1>2, <2>1, ReleaseReady
  <2>3. w' = Proceed(y) /\ UNCHANGED <<apiVars, ruleVars>>
    BY <1>4 DEF Begin
  <2> HIDE DEF ea, r
  <2>4. Works(r, t)
    BY <2>2, FlagsWork DEF Ready
  <2> HIDE DEF t
  <2>5. Works(r, x)
    BY <2>2, <2>4, SyncWorks, WorksOn DEF Works
  <2> HIDE DEF x
  <2>6. Works(r, y)
    BY <2>5, FlagsWork, WorksWorking, WorksOn
  <2> HIDE DEF y
  <2>7. Live(y) /\ Ready(y, stored[w.e]) /\ y.e = w.e /\ ~y.inst.deleting
    BY <2>2, <2>6, WorksReady DEF Works
  <2>8. /\ WorkerInv(w', stored[w.e])
        /\ w'.pc # "idle" => w'.e = w.e
        /\ w'.pc \in {"idle", "pauseSave", "resumeSave", "metrics", "rules"}
    BY <2>3, <2>7, ProceedReady
  <2>9. QED
    BY <1>1, <2>3, <2>8, QuietStep DEF Owned, OwningPcs
<1>5. QED
  BY <1>3, <1>4

LEMMA AbortInv ==
  ASSUME IInv, NEW r \in Responses, Abort(r) PROVE IInv'
<1> DEFINE i == OverrideAssessment([w.inst EXCEPT !.spec.override = Terminate(NoSplit)])
           x == [w EXCEPT !.inst = i]
<1>1. Live(w) /\ Ready(w, stored[w.e]) /\ Working(w) /\ w.pc = "iterate"
  BY HereReady DEF Abort, At, UserPcs
<1>2. Same(w.inst, i) /\ Terminating(i)
  BY <1>1, TerminateNow DEF Working
<1> HIDE DEF i
<1>3. Live(x) /\ Ready(x, stored[w.e]) /\ x.e = w.e
  BY <1>1, <1>2, InstWorks, WorksReady
<1> HIDE DEF x
<1>4. w' = AfterUpdate(x)
  BY DEF Abort, i, x
<1>5. WorkerInv(w', stored[w.e]) /\ w'.e = w.e /\ w'.pc \in {"complete", "end"}
  BY <1>3, <1>4, ReadyCloses, AfterUpdateCloses
<1>6. Owned(w', dr[Svc(w)], vs[Svc(w)])
  BY <1>1, <1>5, MovesOwned DEF Moves, OwningPcs
<1>7. BudgetKept
  BY BudgetSpent DEF Abort, IInv
<1>8. QED
  BY <1>5, <1>6, <1>7, QuietStep DEF Abort

LEMMA FollowRecommendationInv ==
  ASSUME IInv, NEW r \in Responses, FollowRecommendation(r) PROVE IInv'
<1> DEFINE n == [w EXCEPT !.inst.status.winner = r.winner]
           m == MarkAssessmentUpdate(n)
           X(f) == [m EXCEPT !.inst.status.weights = f]
<1>1. Live(w) /\ Ready(w, stored[w.e]) /\ Working(w) /\ ~w.inst.deleting /\ w.pc = "iterate"
  BY HereReady DEF FollowRecommendation, At, UserPcs
<1>2. Works(w, n)
  BY <1>1, WeightsWork
<1> HIDE DEF n
<1>3. Works(w, m)
  BY <1>2, PhasesWork, WorksOn DEF Works, MarkAssessmentUpdate
<1>4. PICK f : \/ w' = Goto(MarkAnalyticsServiceError(X(f)), "end")
               \/ w' = Goto(MarkAnalyticsServiceRunning(X(f)), "split")
               \/ w' = Iterated(MarkAnalyticsServiceRunning(X(f)))
  BY DEF FollowRecommendation, n
<1> HIDE DEF m
<1> DEFINE x == X(f)
           e == MarkAnalyticsServiceError(x)
           g == MarkAnalyticsServiceRunning(x)
<1>5. Works(w, x)
  BY <1>3, WeightsWork, WorksWorking, WorksOn
<1> HIDE DEF x
<1>6. Works(w, e) /\ Works(w, g)
  BY <1>5, MarksWork, WorksWorking, WorksOn
<1> HIDE DEF e, g
<1>7. Live(g) /\ Ready(g, stored[w.e]) /\ g.e = w.e /\ ~g.inst.deleting
  BY <1>1, <1>6, WorksReady DEF Works
<1>8. BudgetKept
  BY BudgetSpent DEF FollowRecommendation, IInv
<1>9. CASE w' = Goto(e, "end")
  <2>1. WorkerInv(w', stored[w.e]) /\ w'.e = w.e /\ w'.pc = "end"
    BY <1>1, <1>6, <1>9, GoesToEnd
  <2>2. QED
    BY <1>8, <2>1, QuietStep DEF FollowRecommendation, Owned, OwningPcs
<1>10. CASE w' = Goto(g, "split")
  <2>1. /\ Live(w') /\ Ready(w', stored[w.e]) /\ w'.pc = "split" /\ w'.e = w.e
        /\ ~w'.inst.deleting
    BY <1>7, <1>10, GotoLive
  <2>2. WorkerInv(w', stored[w.e])
    BY <2>1, ReadyAnywhere DEF UserPcs
  <2>3. Owned(w', dr[Svc(w)], vs[Svc(w)])
    BY <1>1, <2>1, MovesOwned DEF Moves, OwningPcs
  <2>4. QED
    BY <1>8, <2>1, <2>2, <2>3, QuietStep DEF FollowRecommendation
<1>11. CASE w' = Iterated(g)
  <2>1. WorkerInv(w', stored[w.e]) /\ w'.e = w.e /\ w'.pc \in {"complete", "end"}
    BY <1>7, <1>11, IteratedCloses
  <2>2. Owned(w', dr[Svc(w)], vs[Svc(w)])
    BY <1>1, <2>1, MovesOwned DEF Moves, OwningPcs
  <2>3. QED
    BY <1>8, <2>1, <2>2, QuietStep DEF FollowRecommendation
<1>12. QED
  BY <1>4, <1>9, <1>10, <1>11 DEF e, g, x

-----------------------------------------------------------------------------
(* Steps that write rules.                                                 *)

\* g is f with r as the rule of service s.
Puts(f, g, s, r) ==
  DOMAIN g = Services /\ g[s] = r /\ \A t \in Services \ {s} : g[t] = f[t]

LEMMA RuleStep ==
  ASSUME IInv, UNCHANGED apiVars, BudgetKept, w.pc # "idle",
         WorkerInv(w', stored[w.e]), w'.e = w.e \/ w'.pc = "idle",
         NEW d, NEW v, d = None \/ HasLabels(d), v = None \/ HasLabels(v),
         Puts(dr, dr', Svc(w), d), Puts(vs, vs', Svc(w), v),
         w'.pc # "idle" => Owned(w', d, v)
  PROVE  IInv'
<1>1. ObjectsInv' BY ObjectsKept DEF IInv
<1>2. Svc(w) \in Services
  BY LimitNat DEF IInv, WorkerInv, Svc, SpecAt
<1>3. RulesInv'
  BY <1>2 DEF IInv, RulesInv, Svc, SpecAt, Puts
<1>4. WorkerInv(w, stored[w.e])'
  <2>1. CASE w'.pc = "idle"
    <3>1. w' = Idle BY <2>1 DEF WorkerInv
    <3>2. QED BY <3>1, IdleInv
  <2>2. CASE w'.pc # "idle" BY <2>2 DEF apiVars
  <2>3. QED BY <2>1, <2>2
<1>5. QED BY <1>1, <1>3, <1>4 DEF IInv

\* The rules of the worker's service, before a step.
LEMMA HereRules ==
  ASSUME IInv, w.pc # "idle"
  PROVE  LET d == dr[Svc(w)]
             v == vs[Svc(w)] IN
         /\ d = None \/ HasLabels(d)
         /\ v = None \/ HasLabels(v)
         /\ Owned(w, d, v)
         /\ Puts(dr, dr, Svc(w), d) /\ Puts(vs, vs, Svc(w), v)
         /\ \A r : /\ Puts(dr, [dr EXCEPT ![Svc(w)] = r], Svc(w), r)
                  /\ Puts(vs, [vs EXCEPT ![Svc(w)] = r], Svc(w), r)
<1>1. Svc(w) \in Services
  BY LimitNat DEF IInv, WorkerInv, Svc, SpecAt
<1>2. QED
  BY <1>1 DEF IInv, RulesInv, Puts

(***************************************************************************)
(* A failed write of a rule: the request ends with an error.               *)
(***************************************************************************)
LEMMA WriteFails ==
  ASSUME IInv, NEW tag, w.pc \in UserPcs \cup RulePcs, UNCHANGED <<apiVars, ruleVars>>,
         w' = Goto(MarkRoutingRulesError(w, tag), "end"), BudgetKept
  PROVE  IInv'
<1>1. Live(w) /\ Ready(w, stored[w.e]) /\ Working(w)
  BY HereReady
<1>2. WorkerInv(w', stored[w.e]) /\ w'.e = w.e /\ w'.pc = "end"
  BY <1>1, MarksWork, GoesToEnd
<1>3. QED
  BY <1>2, QuietStep DEF Owned, OwningPcs

LEMMA MayFailKeeps ==
  ASSUME IInv, NEW ok, MayFail(ok)
  PROVE  BudgetKept
  BY BudgetSpent DEF MayFail, IInv

(***************************************************************************)
(* UpdateBaseline claims a rule for the experiment and leaves its role.    *)
(***************************************************************************)
LEMMA BaselineLabels ==
  ASSUME NEW d, NEW e, NEW spec, d = None \/ HasLabels(d)
  PROVE  /\ Labelled(BaselineDestinationRule(d, e, spec), e)
         /\ Labelled(BaselineVirtualService(d, e, spec), e)
         /\ BaselineDestinationRule(d, e, spec).labels.role = "progressing" =>
              d # None /\ d.labels.role = "progressing"
         /\ BaselineVirtualService(d, e, spec).labels.role = "progressing" =>
              d # None /\ d.labels.role = "progressing"
  BY DEF BaselineDestinationRule, BaselineVirtualService, NewLabels, HasLabels, Labelled

LEMMA UpdateBaselineDRInv ==
  ASSUME IInv, UpdateBaselineDR PROVE IInv'
<1> DEFINE d == dr[Svc(w)]
           v == vs[Svc(w)]
           new == BaselineDestinationRule(d, w.e, SpecAt(w))
<1>1. PICK ok \in BOOLEAN :
        /\ MayFail(ok)
        /\ dr' = IF ok THEN [dr EXCEPT ![Svc(w)] = new] ELSE dr
        /\ w' = IF ok THEN Goto(w, "baselineVS")
                ELSE Goto(MarkRoutingRulesError(w, "UpdateError"), "end")
        /\ UNCHANGED <<apiVars, vs>>
  BY DEF UpdateBaselineDR, WriteDR
<1>2. w.pc = "baselineDR"
  BY DEF UpdateBaselineDR, At
<1>3. BudgetKept
  BY <1>1, MayFailKeeps
<1>4. CASE ~ok
  BY <1>1, <1>2, <1>3, <1>4, WriteFails DEF RulePcs, ruleVars
<1>5. CASE ok
  <2>1. Live(w) /\ Ready(w, stored[w.e]) /\ w.pc # "idle"
    BY <1>2, HereReady DEF RulePcs
  <2>2. /\ d = None \/ HasLabels(d)
        /\ v = None \/ HasLabels(v)
        /\ Owned(w, d, v)
    BY <2>1, HereRules
  <2>3. Labelled(new, w.e) /\ (new.labels.role = "progressing" =>
                                 d # None /\ d.labels.role = "progressing")
    BY <2>2, BaselineLabels
  <2>4. Puts(dr, dr', Svc(w), new) /\ Puts(vs, vs', Svc(w), v)
    BY <1>1, <1>5, <2>1, HereRules
  <2>5. /\ Live(w') /\ Ready(w', stored[w.e]) /\ w'.pc = "baselineVS" /\ w'.e = w.e
    BY <1>1, <1>5, <2>1, GotoLive
  <2> HIDE DEF d, v, new
  <2>6. WorkerInv(w', stored[w.e])
    BY <2>5, ReadyAnywhere DEF RulePcs
  <2>7. Owned(w', new, v)
    BY <1>2, <2>2, <2>3, <2>5 DEF Owned, OwningPcs, IsProgressing
  <2>8. QED
    BY <1>1, <1>3, <2>1, <2>2, <2>3, <2>4, <2>5, <2>6, <2>7, RuleStep DEF Labelled
<1>6. QED
  BY <1>4, <1>5

LEMMA UpdateBaselineVSInv ==
  ASSUME IInv, UpdateBaselineVS PROVE IInv'
<1> DEFINE d == dr[Svc(w)]
           v == vs[Svc(w)]
           new == BaselineVirtualService(v, w.e, SpecAt(w))
           x == [w EXCEPT !.inst.status.weights[0] = 100]
<1>1. PICK ok \in BOOLEAN :
        /\ MayFail(ok)
        /\ vs' = IF ok THEN [vs EXCEPT ![Svc(w)] = new] ELSE vs
        /\ w' = IF ok THEN Goto(x, "candidates")
                ELSE Goto(MarkRoutingRulesError(w, "UpdateError"), "end")
        /\ UNCHANGED <<apiVars, dr>>
  BY DEF UpdateBaselineVS, WriteVS
<1>2. w.pc = "baselineVS"
  BY DEF UpdateBaselineVS, At
<1>3. BudgetKept
  BY <1>1, MayFailKeeps
<1>4. CASE ~ok
  BY <1>1, <1>2, <1>3, <1>4, WriteFails DEF RulePcs, ruleVars
<1>5. CASE ok
  <2>1. Live(w) /\ Ready(w, stored[w.e]) /\ Working(w) /\ w.pc # "idle"
    BY <1>2, HereReady DEF RulePcs
  <2>2. /\ d = None \/ HasLabels(d)
        /\ v = None \/ HasLabels(v)
        /\ Owned(w, d, v)
    BY <2>1, HereRules
  <2>3. Labelled(new, w.e) /\ (new.labels.role = "progressing" =>
                                 v # None /\ v.labels.role = "progressing")
    BY <2>2, BaselineLabels
  <2>4. Puts(dr, dr', Svc(w), d) /\ Puts(vs, vs', Svc(w), new)
    BY <1>1, <1>5, <2>1, HereRules
  <2>5. Live(x) /\ Ready(x, stored[w.e]) /\ x.e = w.e
    <3>1. Works(w, x)
      BY <2>1, WeightsWork
    <3>2. QED BY <2>1, <3>1, WorksReady
  <2> HIDE DEF d, v, new, x
  <2>6. /\ Live(w') /\ Ready(w', stored[w.e]) /\ w'.pc = "candidates" /\ w'.e = w.e
    BY <1>1, <1>5, <2>5, GotoLive
  <2>7. WorkerInv(w', stored[w.e])
    BY <2>6, ReadyAnywhere DEF RulePcs
  <2>8. Owned(w', d, new)
    BY <1>2, <2>2, <2>3, <2>6 DEF Owned, OwningPcs, IsProgressing
  <2>9. QED
    BY <1>1, <1>3, <2>1, <2>2, <2>3, <2>4, <2>6, <2>7, <2>8, RuleStep DEF Labelled
<1>6. QED
  BY <1>4, <1>5

(***************************************************************************)
(* UpdateCandidates makes a rule progressing and leaves it whose it is.    *)
(***************************************************************************)
LEMMA CandidatesLabels ==
  ASSUME NEW d, NEW v, NEW e, NEW spec
  PROVE  /\ Labelled(d, e) => Labelled(CandidatesDestinationRule(d, spec), e)
         /\ Labelled(v, e) => Labelled(CandidatesVirtualService(v), e)
  BY DEF CandidatesDestinationRule, CandidatesVirtualService, HasLabels, Labelled

LEMMA UpdateCandidatesDRInv ==
  ASSUME IInv, UpdateCandidatesDR PROVE IInv'
<1> DEFINE d == dr[Svc(w)]
           v == vs[Svc(w)]
           new == CandidatesDestinationRule(d, SpecAt(w))
<1>1. PICK ok \in BOOLEAN :
        /\ MayFail(ok)
        /\ dr' = IF ok THEN [dr EXCEPT ![Svc(w)] = new] ELSE dr
        /\ w' = IF ok THEN Goto(w, "candidatesVS")
                ELSE Goto(MarkRoutingRulesError(w, "UpdateError"), "end")
        /\ UNCHANGED <<apiVars, vs>>
  BY DEF UpdateCandidatesDR, WriteDR
<1>2. w.pc = "candidates"
  BY DEF UpdateCandidatesDR, At
<1>3. BudgetKept
  BY <1>1, MayFailKeeps
<1>4. CASE ~ok
  BY <1>1, <1>2, <1>3, <1>4, WriteFails DEF RulePcs, ruleVars
<1>5. CASE ok
  <2>1. Live(w) /\ Ready(w, stored[w.e]) /\ w.pc # "idle"
    BY <1>2, HereReady DEF RulePcs
  <2>2. Owned(w, d, v)
    BY <2>1, HereRules
  <2>3. Labelled(d, w.e) /\ Labelled(v, w.e)
    BY <1>2, <2>2 DEF Owned
  <2>4. Labelled(new, w.e)
    BY <2>3, CandidatesLabels
  <2>5. Puts(dr, dr', Svc(w), new) /\ Puts(vs, vs', Svc(w), v)
    BY <1>1, <1>5, <2>1, HereRules
  <2>6. /\ Live(w') /\ Ready(w', stored[w.e]) /\ w'.pc = "candidatesVS" /\ w'.e = w.e
    BY <1>1, <1>5, <2>1, GotoLive
  <2> HIDE DEF d, v, new
  <2>7. WorkerInv(w', stored[w.e])
    BY <2>6, ReadyAnywhere DEF RulePcs
  <2>8. Owned(w', new, v)
    BY <2>3, <2>4, <2>6 DEF Owned
  <2>9. QED
    BY <1>1, <1>3, <2>1, <2>3, <2>4, <2>5, <2>6, <2>7, <2>8, RuleStep DEF Labelled
<1>6. QED
  BY <1>4, <1>5

LEMMA UpdateCandidatesVSInv ==
  ASSUME IInv, UpdateCandidatesVS PROVE IInv'
<1> DEFINE d == dr[Svc(w)]
           v == vs[Svc(w)]
           new == CandidatesVirtualService(v)
           x == MarkTargetsFound(w)
<1>1. PICK ok \in BOOLEAN :
        /\ MayFail(ok)
        /\ vs' = IF ok THEN [vs EXCEPT ![Svc(w)] = new] ELSE vs
        /\ w' = IF ok THEN AfterTargets(x)
                ELSE Goto(MarkRoutingRulesError(w, "UpdateError"), "end")
        /\ UNCHANGED <<apiVars, dr>>
  BY DEF UpdateCandidatesVS, WriteVS
<1>2. w.pc = "candidatesVS"
  BY DEF UpdateCandidatesVS, At
<1>3. BudgetKept
  BY <1>1, MayFailKeeps
<1>4. CASE ~ok
  BY <1>1, <1>2, <1>3, <1>4, WriteFails DEF RulePcs, ruleVars
<1>5. CASE ok
  <2>1. Live(w) /\ Ready(w, stored[w.e]) /\ Working(w) /\ w.pc # "idle"
    BY <1>2, HereReady DEF RulePcs
  <2>2. Owned(w, d, v)
    BY <2>1, HereRules
  <2>3. Labelled(d, w.e) /\ Labelled(v, w.e)
    BY <1>2, <2>2 DEF Owned
  <2>4. Labelled(new, w.e)
    BY <2>3, CandidatesLabels
  <2>5. Puts(dr, dr', Svc(w), d) /\ Puts(vs, vs', Svc(w), new)
    BY <1>1, <1>5, <2>1, HereRules
  <2>6. Live(x) /\ Ready(x, stored[w.e]) /\ x.e = w.e
    BY <2>1, MarksWork, WorksReady
  <2> HIDE DEF d, v, new, x
  <2>7. /\ WorkerInv(w', stored[w.e]) /\ w'.e = w.e
        /\ w'.pc \in {"iterate", "complete", "end"}
    BY <1>1, <1>5, <2>6, AfterTargetsReady
  <2>8. Owned(w', d, new)
    BY <2>3, <2>4, <2>7 DEF Owned
  <2>9. QED
    BY <1>1, <1>3, <2>1, <2>3, <2>4, <2>5, <2>7, <2>8, RuleStep DEF Labelled
<1>6. QED
  BY <1>4, <1>5

LEMMA UpdateTrafficSplitInv ==
  ASSUME IInv, UpdateTrafficSplit PROVE IInv'
<1> DEFINE d == dr[Svc(w)]
           v == vs[Svc(w)]
           new == SplitVirtualService(v, SpecAt(w), w.inst.status.weights)
           x == MarkAssessmentUpdate(w)
<1>1. PICK ok \in BOOLEAN :
        /\ MayFail(ok)
        /\ ok => vs' = [vs EXCEPT ![Svc(w)] = new] /\ w' = Iterated(x)
        /\ ~ok => w' = Goto(MarkRoutingRulesError(w, "SplitError"), "end") /\ vs' = vs
        /\ UNCHANGED <<apiVars, dr>>
  BY DEF UpdateTrafficSplit
<1>2. w.pc = "split" /\ v # None
  BY DEF UpdateTrafficSplit, At
<1>3. BudgetKept
  BY <1>1, MayFailKeeps
<1>4. CASE ~ok
  BY <1>1, <1>2, <1>3, <1>4, WriteFails DEF UserPcs, ruleVars
<1>5. CASE ok
  <2>1. /\ Live(w) /\ Ready(w, stored[w.e]) /\ Working(w) /\ w.pc # "idle"
        /\ ~w.inst.deleting
    BY <1>2, HereReady DEF UserPcs
  <2>2. /\ d = None \/ HasLabels(d)
        /\ HasLabels(v)
        /\ Owned(w, d, v)
    BY <1>2, <2>1, HereRules
  <2>3. HasLabels(new) /\ new.labels = v.labels
    BY <2>2 DEF SplitVirtualService, HasLabels
  <2>4. Puts(dr, dr', Svc(w), d) /\ Puts(vs, vs', Svc(w), new)
    BY <1>1, <1>5, <2>1, HereRules
  <2>5. Works(w, x)
    BY <2>1, PhasesWork DEF MarkAssessmentUpdate
  <2>6. Live(x) /\ Ready(x, stored[w.e]) /\ x.e = w.e /\ ~x.inst.deleting
    BY <2>1, <2>5, WorksReady DEF Works
  <2> HIDE DEF d, v, new, x
  <2>7. /\ WorkerInv(w', stored[w.e]) /\ w'.e = w.e
        /\ w'.pc \in {"complete", "end"}
    BY <1>1, <1>5, <2>6, IteratedCloses
  <2>8. Owned(w', d, new)
    BY <1>2, <2>2, <2>3, <2>7 DEF Owned, OwningPcs, IsProgressing, Labelled
  <2>9. QED
    BY <1>1, <1>3, <2>1, <2>2, <2>3, <2>4, <2>7, <2>8, RuleStep
<1>6. QED
  BY <1>4, <1>5

(***************************************************************************)
(* Failed cleanups end the request or go on to the finalizer.              *)
(***************************************************************************)
LEMMA CleanupFailsInv ==
  ASSUME IInv, w.pc \in CleanupPcs, CleanupFails, UNCHANGED apiVars, BudgetKept
  PROVE  IInv'
<1>1. Live(w) /\ Closing(w, stored[w.e]) /\ DOMAIN w = WorkerFields
  BY HereCloses DEF Working
<1>2. UNCHANGED ruleVars
  BY DEF CleanupFails
<1>3. CASE w.inst.deleting
  <2>1. w' = Goto(w, "unfinalize")
    BY <1>3 DEF CleanupFails, Finalizing
  <2>2. /\ DOMAIN w' = WorkerFields /\ w'.pc = "unfinalize" /\ w'.e = w.e
        /\ w'.inst = w.inst /\ w'.fresh = w.fresh /\ w'.taken = w.taken
    BY <1>1, <2>1, GotoKeeps
  <2>3. Leaving(w', stored[w.e]) /\ Live(w')
    BY <1>1, <1>3, <2>2 DEF Leaving, Closing, Working, Saves, StoredActive, Live
  <2>4. WorkerInv(w', stored[w.e])
    BY <2>2, <2>3 DEF WorkerInv, Live, Pcs, EarlyPcs, OpenPcs, UserPcs, RulePcs, CleanupPcs
  <2>5. QED
    BY <1>2, <2>2, <2>4, QuietStep DEF Owned, OwningPcs
<1>4. CASE ~w.inst.deleting
  <2>1. w' = Idle
    BY <1>4 DEF CleanupFails, Finalizing
  <2>2. w'.pc = "idle"
    BY <2>1 DEF Idle
  <2>3. QED
    BY <1>2, <2>1, <2>2, IdleInv, QuietStep
<1>5. QED
  BY <1>3, <1>4

LEMMA StableLabelled ==
  ASSUME NEW d, NEW f, NEW o, NEW g
  PROVE  /\ HasLabels(StableDestinationRule(d, f))
         /\ StableDestinationRule(d, f).labels.role = "stable"
         /\ HasLabels(StableVirtualService(d, f, o, g))
  BY DEF StableDestinationRule, StableVirtualService, StableLabels, HasLabels

LEMMA CleanupDRInv ==
  ASSUME IInv, CleanupDR PROVE IInv'
<1> DEFINE d == dr[Svc(w)]
           v == vs[Svc(w)]
           new == IF Removing(w) THEN None ELSE StableDestinationRule(d, Stable(w))
<1>1. PICK ok \in BOOLEAN :
        /\ IF d = None THEN ~ok /\ UNCHANGED budget ELSE MayFail(ok)
        /\ IF ok THEN /\ dr' = [dr EXCEPT ![Svc(w)] = new]
                      /\ w' = Goto(w, "cleanupVS")
                      /\ UNCHANGED vs
                 ELSE CleanupFails
        /\ UNCHANGED apiVars
  BY DEF CleanupDR
<1>2. w.pc = "cleanupDR"
  BY DEF CleanupDR, At
<1>3. BudgetKept
  BY <1>1, MayFailKeeps, BudgetSpent DEF IInv
<1>4. CASE ~ok
  BY <1>1, <1>2, <1>3, <1>4, CleanupFailsInv DEF CleanupPcs
<1>5. CASE ok
  <2>1. Live(w) /\ Closing(w, stored[w.e]) /\ w.pc # "idle" /\ ~w.taken
    BY <1>2, HereCloses DEF CleanupPcs
  <2>2. v = None \/ HasLabels(v)
    BY <2>1, HereRules
  <2>3. new = None \/ (HasLabels(new) /\ new.labels.role = "stable")
    <3> DEFINE n == StableDestinationRule(d, Stable(w))
    <3>1. HasLabels(n) /\ n.labels.role = "stable"
      BY StableLabelled
    <3>2. new = None \/ new = n
      OBVIOUS
    <3> HIDE DEF new, n
    <3>3. QED
      BY <3>1, <3>2
  <2>4. Puts(dr, dr', Svc(w), new) /\ Puts(vs, vs', Svc(w), v)
    BY <1>1, <1>5, <2>1, HereRules
  <2>5. /\ Live(w') /\ Closing(w', stored[w.e]) /\ w'.pc = "cleanupVS" /\ w'.e = w.e
        /\ ~w'.taken
    BY <1>1, <1>5, <2>1, GotoCloses
  <2> HIDE DEF d, v, new
  <2>6. WorkerInv(w', stored[w.e])
    BY <2>5, ClosingAnywhere DEF CleanupPcs
  <2>7. Owned(w', new, v)
    BY <2>3, <2>5 DEF Owned, IsProgressing
  <2>8. QED
    BY <1>1, <1>3, <2>1, <2>2, <2>3, <2>4, <2>5, <2>6, <2>7, RuleStep
<1>6. QED
  BY <1>4, <1>5

(***************************************************************************)
(* The mark of a completion.                                               *)
(***************************************************************************)
LEMMA CompletedEnds ==
  ASSUME NEW x, NEW o, Live(x), Closing(x, o)
  PROVE  LET y == Goto(MarkExperimentCompleted(x), "end") IN
         WorkerInv(y, o) /\ y.e = x.e /\ y.pc = "end"
<1> DEFINE m == MarkPhase(x, "Completed")
           y == Goto(m, "end")
<1>1. /\ DOMAIN m = WorkerFields /\ IsCopy(m.inst)
      /\ m.e = x.e /\ m.fresh = x.fresh /\ m.taken = x.taken
      /\ m.inst.deleting = x.inst.deleting /\ m.inst.finalizer = x.inst.finalizer
      /\ m.inst.status.initialized = x.inst.status.initialized
      /\ m.inst.status.iteration = x.inst.status.iteration
      /\ m.inst.status.phase = "Completed" /\ m.inst.status.completed
  BY ZenonT(60) DEF MarkPhase, Closing, Working, IsCopy, ObjectFields, SpecFields, StatusFields, WorkerFields
<1> HIDE DEF m
<1>2. /\ DOMAIN y = WorkerFields /\ y.pc = "end" /\ y.inst = m.inst
      /\ y.e = x.e /\ y.fresh = x.fresh /\ y.taken = x.taken
  BY <1>1, GotoKeeps
<1> HIDE DEF y
<1>3. Ended(y, o) /\ Live(y)
  BY <1>1, <1>2 DEF Ended, Closing, Working, Saves, StoredActive, Counted, Live
<1>4. WorkerInv(y, o)
  BY <1>2, <1>3 DEF WorkerInv, Live, Pcs, EarlyPcs, OpenPcs, UserPcs, RulePcs, CleanupPcs
<1>5. QED
  BY <1>2, <1>4 DEF m, y, MarkExperimentCompleted

LEMMA CleanupVSInv ==
  ASSUME IInv, CleanupVS PROVE IInv'
<1> DEFINE d == dr[Svc(w)]
           v == vs[Svc(w)]
           new == IF d = None THEN None
                  ELSE StableVirtualService(v, Stable(w), w.inst.spec.onTermination,
                                            w.inst.status.weights)
<1>1. PICK ok \in BOOLEAN :
        /\ MayFail(ok)
        /\ IF ok THEN /\ vs' = [vs EXCEPT ![Svc(w)] = new]
                      /\ w' = Goto(MarkExperimentCompleted(w), "end")
                      /\ UNCHANGED dr
                 ELSE CleanupFails
        /\ UNCHANGED apiVars
  BY DEF CleanupVS
<1>2. w.pc = "cleanupVS"
  BY DEF CleanupVS, At
<1>3. BudgetKept
  BY <1>1, MayFailKeeps
<1>4. CASE ~ok
  BY <1>1, <1>2, <1>3, <1>4, CleanupFailsInv DEF CleanupPcs
<1>5. CASE ok
  <2>1. Live(w) /\ Closing(w, stored[w.e]) /\ w.pc # "idle"
    BY <1>2, HereCloses DEF CleanupPcs
  <2>2. d = None \/ HasLabels(d)
    BY <2>1, HereRules
  <2>3. new = None \/ HasLabels(new)
    <3>1. HasLabels(StableVirtualService(v, Stable(w), w.inst.spec.onTermination,
                                         w.inst.status.weights))
      BY StableLabelled
    <3>2. QED BY <3>1
  <2>4. Puts(dr, dr', Svc(w), d) /\ Puts(vs, vs', Svc(w), new)
    BY <1>1, <1>5, <2>1, HereRules
  <2>5. WorkerInv(w', stored[w.e]) /\ w'.e = w.e /\ w'.pc = "end"
    BY <1>1, <1>5, <2>1, CompletedEnds
  <2> HIDE DEF d, v, new
  <2>6. Owned(w', d, new)
    BY <2>5 DEF Owned, OwningPcs
  <2>7. QED
    BY <1>1, <1>3, <2>1, <2>2, <2>3, <2>4, <2>5, <2>6, RuleStep
<1>6. QED
  BY <1>4, <1>5

-----------------------------------------------------------------------------
(* Steps that write objects.                                               *)

LEMMA StoreObjects ==
  ASSUME ObjectsInv, NEW e \in Experiments, NEW new, Store(e, new), new = None \/ Sound(e, new),
         DOMAIN budget' = BudgetFields,
         \A f \in budget'.uncreated : f \in budget.uncreated /\ (f # e \/ new = None)
  PROVE  ObjectsInv' /\ stored'[e] = new /\ \A f \in Experiments \ {e} : stored'[f] = stored[f]
  BY DEF ObjectsInv, Store

(***************************************************************************)
(* The worker writes its object.                                           *)
(***************************************************************************)
LEMMA WorkerStores ==
  ASSUME IInv, w.pc # "idle", stored[w.e] # None, UNCHANGED ruleVars, BudgetKept,
         NEW new, Store(w.e, new), new = None \/ Sound(w.e, new),
         WorkerInv(w', new),
         w'.pc # "idle" => w'.e = w.e /\ Owned(w', dr[Svc(w)], vs[Svc(w)])
  PROVE  IInv'
<1>1. w.e \in Experiments /\ w.e \notin budget.uncreated
  BY DEF IInv, WorkerInv, ObjectsInv
<1>2. ObjectsInv' /\ stored'[w.e] = new
  BY <1>1, StoreObjects DEF IInv, BudgetKept
<1>3. RulesInv'
  BY DEF IInv, RulesInv, ruleVars, Svc, SpecAt
<1>4. WorkerInv(w, stored[w.e])'
  <2>1. CASE w'.pc = "idle"
    <3>1. w' = Idle BY <2>1 DEF WorkerInv
    <3>2. QED BY <3>1, IdleInv
  <2>2. CASE w'.pc # "idle" BY <1>2, <2>2
  <2>3. QED BY <2>1, <2>2
<1>5. QED
  BY <1>2, <1>3, <1>4 DEF IInv

LEMMA OutcomeFresh ==
  ASSUME NEW outcome \in Outcomes
  PROVE  /\ outcome \in {"ok", "conflict", "failed"}
         /\ outcome = "ok" => stored[w.e] # None /\ w.fresh
         /\ outcome = "conflict" => ~w.fresh
  BY DEF Outcomes

LEMMA SpendKeeps ==
  ASSUME IInv, NEW outcome, Spend(outcome)
  PROVE  BudgetKept
  BY BudgetSpent DEF Spend, IInv

\* The object the worker has a copy of.
LEMMA HereStored ==
  ASSUME IInv, w.pc # "idle"
  PROVE  w.e \in Experiments /\ (stored[w.e] # None => Sound(w.e, stored[w.e]))
  BY DEF IInv, WorkerInv, ObjectsInv

LEMMA StatusWritten ==
  ASSUME NEW e, NEW o, NEW i, Sound(e, i), IsCopy(o),
         o.finalizer = i.finalizer, o.deleting = i.deleting,
         NEW p, p = [o EXCEPT !.status = i.status]
  PROVE  /\ Sound(e, p)
         /\ p.finalizer = o.finalizer /\ p.deleting = o.deleting
         /\ p.status = i.status
<1>1. /\ DOMAIN p = ObjectFields /\ p.finalizer = o.finalizer /\ p.deleting = o.deleting
      /\ p.status = i.status /\ p.spec = o.spec
  BY DEF IsCopy, ObjectFields
<1>2. Sound(e, p)
  BY <1>1 DEF Sound, IsCopy
<1>3. QED
  BY <1>1, <1>2

LEMMA InitSound ==
  ASSUME NEW e, NEW o, Sound(e, o), ~o.status.initialized
  PROVE  LET i == InitStatus(o) IN
         /\ Sound(e, i) /\ i.status.initialized
         /\ i.finalizer = o.finalizer /\ i.deleting = o.deleting
<1> DEFINE i == InitStatus(o)
<1>1. /\ IsCopy(i) /\ i.status.initialized /\ i.status.phase = "Progressing"
      /\ i.finalizer = o.finalizer /\ i.deleting = o.deleting
      /\ i.status.completed = o.status.completed /\ i.status.iteration = o.status.iteration
  BY DEF InitStatus, Sound, IsCopy, ObjectFields, SpecFields, StatusFields
<1> HIDE DEF i
<1>2. o.status.phase = "" /\ ~o.status.completed /\ o.status.iteration <= MaxIter(e)
  BY DEF Sound
<1>3. Sound(e, i)
  BY <1>1, <1>2 DEF Sound
<1>4. QED
  BY <1>1, <1>3 DEF i

\* A copy that is open is anywhere its flags say.
LEMMA OpenedHere ==
  ASSUME NEW x, NEW o, Live(x), Opened(x, o), x.taken, x.pc \in OpenPcs
  PROVE  WorkerInv(x, o)
  BY DEF WorkerInv, Live, Opened, Pcs, EarlyPcs, OpenPcs, UserPcs, RulePcs, CleanupPcs

LEMMA SaveInitStatusInv ==
  ASSUME IInv, SaveInitStatus PROVE IInv'
<1> DEFINE i == InitStatus(w.inst)
           x == [w EXCEPT !.inst = i]
           o == stored[w.e]
           new == [o EXCEPT !.status = i.status]
           next == IF i.finalizer THEN "dispatch" ELSE "finalizer"
<1>1. PICK outcome \in Outcomes :
        /\ Spend(outcome)
        /\ IF outcome = "ok" THEN Store(w.e, [o EXCEPT !.status = x.inst.status])
                             ELSE UNCHANGED apiVars
        /\ w' = IF outcome = "failed" THEN Idle
                ELSE Goto(x, IF x.inst.finalizer THEN "dispatch" ELSE "finalizer")
        /\ UNCHANGED ruleVars
  BY DEF SaveInitStatus
<1>2. w.pc = "init" /\ w.pc # "idle"
  BY DEF SaveInitStatus, At
<1>3. BudgetKept
  BY <1>1, SpendKeeps
<1>4. /\ Live(w) /\ Opened(w, o) /\ w.taken /\ DOMAIN w = WorkerFields
      /\ Sound(w.e, w.inst) /\ ~w.inst.status.initialized
  BY <1>2, HereOpened DEF OpenPcs, Opened
<1>5. /\ Sound(w.e, i) /\ i.status.initialized
      /\ i.finalizer = w.inst.finalizer /\ i.deleting = w.inst.deleting
  BY <1>4, InitSound
<1> HIDE DEF i
<1>6. /\ DOMAIN x = WorkerFields /\ x.inst = i /\ x.e = w.e /\ x.fresh = w.fresh
      /\ x.taken = w.taken
  <2>1. DOMAIN w = WorkerFields
    BY <1>4
  <2>2. QED
    BY <2>1, InstChanged, ZenonT(60)
<1> DEFINE y == Goto(x, next)
<1>7. next \in {"finalizer", "dispatch"} /\ (next = "dispatch" <=> i.finalizer)
  BY <1>5 DEF Sound, IsCopy
<1> HIDE DEF next
<1>8. outcome # "failed" => w' = y
  BY <1>1, <1>6 DEF i, next
<1>9. outcome = "ok" => Store(w.e, new)
  BY <1>1, <1>6
<1> HIDE DEF x
<1>10. /\ DOMAIN y = WorkerFields /\ y.pc = next /\ y.e = w.e /\ y.inst = i
       /\ y.fresh = w.fresh /\ y.taken = w.taken
  BY <1>6, GotoKeeps
<1> HIDE DEF y, o
<1>11. outcome = "ok" => o # None /\ w.fresh /\ Sound(w.e, o)
  BY <1>2, OutcomeFresh, HereStored DEF o
<1>12. CASE outcome = "ok"
  <2>1. o.finalizer = i.finalizer /\ o.deleting = i.deleting
    BY <1>4, <1>5, <1>11, <1>12 DEF Opened, Saves
  <2>2. /\ Sound(w.e, new) /\ new.finalizer = i.finalizer /\ new.deleting = i.deleting
        /\ new.status = i.status
    <3>1. IsCopy(o)
      BY <1>11, <1>12 DEF Sound
    <3>2. new = [o EXCEPT !.status = i.status]
      OBVIOUS
    <3> HIDE DEF new
    <3>3. QED
      BY <1>5, <2>1, <3>1, <3>2, StatusWritten
  <2> HIDE DEF new
  <2>3. Opened(y, new) /\ Live(y) /\ y.taken /\ y.pc \in OpenPcs
    BY <1>4, <1>5, <1>7, <1>10, <2>2 DEF Opened, Live, Saves, OpenPcs
  <2>4. WorkerInv(y, new)
    BY <2>3, OpenedHere
  <2>5. QED
    <3>1. w' = y /\ Store(w.e, new) /\ stored[w.e] # None /\ UNCHANGED ruleVars
      BY <1>1, <1>8, <1>9, <1>11, <1>12 DEF o
    <3>2. w'.e = w.e /\ Owned(w', dr[Svc(w)], vs[Svc(w)])
      BY <1>7, <1>10, <3>1 DEF Owned, OwningPcs
    <3>3. QED
      BY <1>2, <1>3, <2>2, <2>4, <3>1, <3>2, WorkerStores
<1>13. CASE outcome = "conflict"
  <2>1. Opened(y, o) /\ Live(y) /\ y.taken /\ y.pc \in OpenPcs
    BY <1>4, <1>5, <1>7, <1>10, <1>13, OutcomeFresh DEF Opened, Live, Saves, OpenPcs
  <2>2. WorkerInv(y, o)
    BY <2>1, OpenedHere
  <2>3. QED
    BY <1>1, <1>3, <1>7, <1>8, <1>10, <1>13, <2>2, QuietStep DEF Owned, OwningPcs, o
<1>14. CASE outcome = "failed"
  <2>1. w'.pc = "idle" /\ WorkerInv(w', stored[w.e])
    BY <1>1, <1>14, IdleInv DEF Idle
  <2>2. QED
    BY <1>1, <1>3, <1>14, <2>1, QuietStep
<1>15. QED
  BY <1>12, <1>13, <1>14, OutcomeFresh

(***************************************************************************)
(* An update of spec and metadata by an experiment that keeps its          *)
(* finalizer, and what the answer makes of the worker's copy.              *)
(***************************************************************************)
LEMMA UpdateSound ==
  ASSUME NEW e, NEW o, NEW i, NEW p, Sound(e, o), o.status.initialized = TRUE, IsCopy(i),
         DOMAIN p = ObjectFields, p.spec = i.spec, p.finalizer = TRUE, p.deleting = o.deleting,
         p.status = o.status
  PROVE  Sound(e, p)
  BY DEF Sound, IsCopy

LEMMA OverlaySame ==
  ASSUME NEW i, IsCopy(i), IsCopy(stored[w.e])
  PROVE  LET p == Overlay("ok", i)
             o == stored[w.e] IN
         /\ IsCopy(p) /\ p.spec = i.spec /\ p.finalizer = i.finalizer /\ p.deleting = i.deleting
         /\ p.status.initialized = o.status.initialized
         /\ p.status.completed = o.status.completed
         /\ p.status.phase = o.status.phase /\ p.status.iteration = o.status.iteration
<1> DEFINE o == stored[w.e]
           st == [o.status EXCEPT !.message = @ \/ i.status.message,
                                  !.winner = IF @ = None THEN i.status.winner ELSE @]
           p == [i EXCEPT !.status = st]
<1>1. Overlay("ok", i) = p
  BY DEF Overlay
<1>2. /\ DOMAIN st = StatusFields
      /\ st.initialized = o.status.initialized /\ st.completed = o.status.completed
      /\ st.phase = o.status.phase /\ st.iteration = o.status.iteration
  BY DEF IsCopy, StatusFields
<1> HIDE DEF st
<1>3. /\ DOMAIN p = ObjectFields /\ p.status = st /\ p.spec = i.spec
      /\ p.finalizer = i.finalizer /\ p.deleting = i.deleting
  BY DEF IsCopy, ObjectFields
<1> HIDE DEF p, o
<1>4. IsCopy(p)
  BY <1>2, <1>3 DEF IsCopy, o
<1>5. QED
  BY <1>1, <1>2, <1>3, <1>4 DEF o

LEMMA OverlayElse ==
  ASSUME NEW i, NEW outcome, outcome # "ok"
  PROVE  Overlay(outcome, i) = i
  BY DEF Overlay

LEMMA AddFinalizerInv ==
  ASSUME IInv, AddFinalizer PROVE IInv'
<1> DEFINE i == [w.inst EXCEPT !.finalizer = TRUE]
           o == stored[w.e]
           new == [o EXCEPT !.spec = i.spec, !.finalizer = i.finalizer]
<1>1. PICK outcome \in Outcomes :
        /\ Update(outcome, i)
        /\ w' = IF outcome = "failed" THEN Idle
                ELSE Goto([w EXCEPT !.inst = Overlay(outcome, i)], "dispatch")
        /\ UNCHANGED ruleVars
  BY DEF AddFinalizer
<1>2. w.pc = "finalizer" /\ w.pc # "idle"
  BY DEF AddFinalizer, At
<1>3. BudgetKept
  BY <1>1, SpendKeeps DEF Update
<1>4. /\ Live(w) /\ Opened(w, o) /\ w.taken /\ DOMAIN w = WorkerFields
      /\ Sound(w.e, w.inst) /\ w.inst.status.initialized
  BY <1>2, HereOpened DEF OpenPcs, Opened
<1>5. /\ Sound(w.e, i) /\ i.finalizer /\ i.deleting = w.inst.deleting
      /\ i.status = w.inst.status
  <2>1. /\ DOMAIN i = ObjectFields /\ i.finalizer /\ i.deleting = w.inst.deleting
        /\ i.status = w.inst.status /\ i.spec = w.inst.spec /\ i.finalizer \in BOOLEAN
    BY <1>4 DEF Sound, IsCopy, ObjectFields
  <2> HIDE DEF i
  <2>2. QED
    BY <1>4, <2>1 DEF Sound, IsCopy
<1>6. outcome = "ok" => Store(w.e, new)
  BY <1>1, <1>5 DEF Update
<1>7. outcome # "ok" => UNCHANGED apiVars
  BY <1>1 DEF Update
<1> HIDE DEF i
<1>8. CASE outcome = "ok"
  <2> DEFINE p == Overlay("ok", i)
             x == [w EXCEPT !.inst = p]
             y == Goto(x, "dispatch")
  <2>1. /\ o # None /\ Sound(w.e, o) /\ IsCopy(o) /\ IsCopy(i)
        /\ o.deleting = i.deleting /\ o.status.phase = i.status.phase
        /\ o.status.initialized
    BY <1>2, <1>4, <1>5, <1>8, OutcomeFresh, HereStored DEF Opened, Saves, Sound
  <2>2. /\ IsCopy(p) /\ p.spec = i.spec /\ p.finalizer = i.finalizer /\ p.deleting = i.deleting
        /\ p.status.initialized = o.status.initialized
        /\ p.status.completed = o.status.completed
        /\ p.status.phase = o.status.phase /\ p.status.iteration = o.status.iteration
    BY <2>1, OverlaySame
  <2>3. w' = y
    BY <1>1, <1>8
  <2> HIDE DEF p
  <2>4. /\ DOMAIN x = WorkerFields /\ x.inst = p /\ x.e = w.e /\ x.fresh = w.fresh
        /\ x.taken = w.taken
    <3>1. DOMAIN w = WorkerFields
      BY <1>4
    <3>2. QED
      BY <3>1, InstChanged, ZenonT(60)
  <2> HIDE DEF x
  <2>5. /\ DOMAIN y = WorkerFields /\ y.pc = "dispatch" /\ y.inst = p /\ y.e = w.e
        /\ y.fresh = w.fresh /\ y.taken = w.taken
    BY <2>4, GotoKeeps
  <2> HIDE DEF y
  <2> HIDE DEF o
  <2>6. /\ Sound(w.e, new) /\ new.finalizer = TRUE /\ new.deleting = o.deleting
        /\ new.status = o.status
    <3>1. i.finalizer = TRUE /\ o.status.initialized = TRUE
      BY <1>5, <2>1 DEF IsCopy, Sound
    <3>2. /\ DOMAIN new = ObjectFields /\ new.spec = i.spec /\ new.finalizer = TRUE
          /\ new.deleting = o.deleting /\ new.status = o.status
      BY <2>1, <3>1 DEF IsCopy, ObjectFields
    <3> HIDE DEF new
    <3>3. QED BY <2>1, <3>1, <3>2, UpdateSound
  <2> HIDE DEF new
  <2>7. Sound(w.e, p)
    BY <1>5, <2>1, <2>2 DEF Sound
  <2>8. Opened(y, new) /\ Live(y) /\ y.taken /\ y.pc \in OpenPcs
    BY <1>4, <1>5, <2>1, <2>2, <2>5, <2>6, <2>7 DEF Opened, Live, Saves, OpenPcs
  <2>9. WorkerInv(y, new)
    BY <2>8, OpenedHere
  <2>10. w'.e = w.e /\ Owned(w', dr[Svc(w)], vs[Svc(w)])
    BY <2>3, <2>5 DEF Owned, OwningPcs
  <2>11. QED
    BY <1>1, <1>2, <1>3, <1>6, <1>8, <2>1, <2>3, <2>6, <2>9, <2>10, WorkerStores DEF o
<1>9. CASE outcome = "conflict"
  <2> DEFINE x == [w EXCEPT !.inst = i]
             y == Goto(x, "dispatch")
  <2>1. w' = y
    BY <1>1, <1>9, OverlayElse
  <2>2. /\ DOMAIN x = WorkerFields /\ x.inst = i /\ x.e = w.e /\ x.fresh = w.fresh
        /\ x.taken = w.taken
    <3>1. DOMAIN w = WorkerFields
      BY <1>4
    <3>2. QED
      BY <3>1, InstChanged, ZenonT(60)
  <2> HIDE DEF x
  <2>3. /\ DOMAIN y = WorkerFields /\ y.pc = "dispatch" /\ y.inst = i /\ y.e = w.e
        /\ y.fresh = w.fresh /\ y.taken = w.taken
    BY <2>2, GotoKeeps
  <2> HIDE DEF y
  <2>4. Opened(y, o) /\ Live(y) /\ y.taken /\ y.pc \in OpenPcs
    BY <1>4, <1>5, <1>9, <2>3, OutcomeFresh DEF Opened, Live, Saves, OpenPcs
  <2>5. WorkerInv(y, o)
    BY <2>4, OpenedHere
  <2>6. QED
    BY <1>1, <1>3, <1>7, <1>9, <2>1, <2>3, <2>5, QuietStep DEF Owned, OwningPcs
<1>10. CASE outcome = "failed"
  <2>1. w'.pc = "idle" /\ WorkerInv(w', stored[w.e])
    BY <1>1, <1>10, IdleInv DEF Idle
  <2>2. QED
    BY <1>1, <1>3, <1>7, <1>10, <2>1, QuietStep
<1>11. QED
  BY <1>8, <1>9, <1>10, OutcomeFresh

(***************************************************************************)
(* Saving the status of a copy at work, or of one that is complete.        *)
(***************************************************************************)
LEMMA ReadySound ==
  ASSUME NEW x, NEW o, Ready(x, o), Live(x)
  PROVE  Sound(x.e, x.inst)
<1>1. x.inst.status.iteration <= MaxIter(x.e) + 1
  BY ReadyCloses DEF Closing
<1>2. QED
  BY <1>1 DEF Ready, Working, Sound

LEMMA EndedSound ==
  ASSUME NEW x, NEW o, Ended(x, o)
  PROVE  Sound(x.e, x.inst)
  BY DEF Ended, Sound

LEMMA StatusSaved ==
  ASSUME IInv, w.pc # "idle", NEW outcome \in Outcomes, UpdateStatus(outcome),
         Sound(w.e, w.inst), w.inst.finalizer,
         Saves(w, stored[w.e]) => StoredActive(w, stored[w.e])
  PROVE  /\ BudgetKept
         /\ \/ UNCHANGED apiVars
            \/ /\ stored[w.e] # None
               /\ \E new : Store(w.e, new) /\ Sound(w.e, new) /\ new.deleting = w.inst.deleting
<1> DEFINE o == stored[w.e]
           new == [o EXCEPT !.status = w.inst.status]
<1>1. BudgetKept
  BY SpendKeeps DEF UpdateStatus
<1>2. CASE outcome # "ok"
  BY <1>1, <1>2 DEF UpdateStatus
<1>3. CASE outcome = "ok"
  <2>1. o # None /\ Sound(w.e, o) /\ StoredActive(w, o)
    BY <1>3, OutcomeFresh, HereStored DEF Saves
  <2>2. Store(w.e, new)
    BY <1>3 DEF UpdateStatus
  <2> HIDE DEF o
  <2>3. IsCopy(o) /\ o.finalizer = w.inst.finalizer /\ o.deleting = w.inst.deleting
    BY <2>1 DEF Sound, StoredActive, IsCopy
  <2>4. new = [o EXCEPT !.status = w.inst.status]
    OBVIOUS
  <2> HIDE DEF new
  <2>5. Sound(w.e, new) /\ new.deleting = w.inst.deleting
    BY <2>3, <2>4, StatusWritten, ZenonT(60)
  <2>6. QED
    BY <1>1, <2>1, <2>2, <2>5 DEF o
<1>4. QED
  BY <1>2, <1>3

LEMMA SavePauseInv ==
  ASSUME IInv, SavePause PROVE IInv'
<1>1. PICK outcome \in Outcomes : UpdateStatus(outcome)
  BY DEF SavePause
<1>2. w.pc = "pauseSave" /\ w.pc # "idle"
  BY DEF SavePause, At
<1>3. Live(w) /\ Ready(w, stored[w.e]) /\ Working(w)
  BY <1>2, HereReady DEF UserPcs
<1>4. /\ BudgetKept
      /\ \/ UNCHANGED apiVars
         \/ stored[w.e] # None /\ \E new : Store(w.e, new) /\ Sound(w.e, new)
  BY <1>1, <1>2, <1>3, ReadySound, StatusSaved DEF Ready, Working
<1>5. w' = Idle /\ w'.pc = "idle" /\ \A o : WorkerInv(w', o)
  BY IdleInv DEF SavePause, Idle
<1>6. QED
  BY <1>2, <1>4, <1>5, QuietStep, WorkerStores DEF SavePause

LEMMA EndInv ==
  ASSUME IInv, End PROVE IInv'
<1>1. w.pc = "end" /\ w.pc # "idle"
  BY DEF End, At
<1>2. Live(w) /\ Ended(w, stored[w.e]) /\ DOMAIN w = WorkerFields
  BY <1>1 DEF IInv, WorkerInv, Live, Ended
<1>3. Sound(w.e, w.inst) /\ w.inst.finalizer
  BY <1>2, EndedSound DEF Ended
<1>4. /\ BudgetKept
      /\ \/ UNCHANGED apiVars
         \/ /\ stored[w.e] # None
            /\ \E new : Store(w.e, new) /\ Sound(w.e, new) /\ new.deleting = w.inst.deleting
  <2>1. CASE w.statusUpdate
    <3>1. PICK outcome \in Outcomes : UpdateStatus(outcome)
      BY <2>1 DEF End
    <3>2. QED
      BY <1>1, <1>2, <1>3, <3>1, StatusSaved DEF Ended
  <2>2. CASE ~w.statusUpdate
    BY <2>2, BudgetSpent DEF End, IInv
  <2>3. QED
    BY <2>1, <2>2
<1>5. UNCHANGED ruleVars
  BY DEF End
<1>6. CASE ~w.inst.deleting
  <2>1. w' = Idle
    BY <1>6 DEF End, Finalizing
  <2>2. w'.pc = "idle" /\ \A o : WorkerInv(w', o)
    <3>1. Idle.pc = "idle" BY DEF Idle
    <3>2. QED BY <2>1, <3>1, IdleInv
  <2>3. QED
    BY <1>1, <1>4, <1>5, <2>2, QuietStep, WorkerStores
<1>7. CASE w.inst.deleting
  <2> DEFINE x == Goto(w, "unfinalize")
             y == [x EXCEPT !.taken = FALSE]
  <2>1. w' = y
    BY <1>7 DEF End, Finalizing
  <2>2. /\ DOMAIN x = WorkerFields /\ x.pc = "unfinalize" /\ x.e = w.e /\ x.inst = w.inst
        /\ x.fresh = w.fresh
    BY <1>2, GotoKeeps
  <2> HIDE DEF x
  <2>3. /\ DOMAIN y = WorkerFields /\ y.pc = "unfinalize" /\ y.e = w.e /\ y.inst = w.inst
        /\ y.fresh = w.fresh /\ y.taken = FALSE
    BY <2>2 DEF WorkerFields
  <2> HIDE DEF y
  <2>4. Live(y)
    BY <1>2, <2>3 DEF Live
  <2>5. \A o : (Saves(y, o) => o.deleting) => WorkerInv(y, o)
    <3> SUFFICES ASSUME NEW o, Saves(y, o) => o.deleting PROVE WorkerInv(y, o)
      OBVIOUS
    <3>1. Leaving(y, o)
      BY <1>2, <1>7, <2>3 DEF Leaving, Ended
    <3>2. QED
      BY <2>3, <2>4, <3>1
      DEF WorkerInv, Live, Pcs, EarlyPcs, OpenPcs, UserPcs, RulePcs, CleanupPcs
  <2>6. Saves(y, stored[w.e]) => stored[w.e].deleting
    BY <1>2, <1>7, <2>3 DEF Ended, StoredActive, Saves
  <2>7. w'.e = w.e /\ Owned(w', dr[Svc(w)], vs[Svc(w)])
    BY <2>1, <2>3 DEF Owned, OwningPcs
  <2>8. CASE UNCHANGED apiVars
    BY <1>4, <1>5, <2>1, <2>5, <2>6, <2>7, <2>8, QuietStep
  <2>9. CASE /\ stored[w.e] # None
             /\ \E new : Store(w.e, new) /\ Sound(w.e, new) /\ new.deleting = w.inst.deleting
    <3>1. PICK new : Store(w.e, new) /\ Sound(w.e, new) /\ new.deleting = w.inst.deleting
      BY <2>9
    <3>2. WorkerInv(w', new)
      BY <1>7, <2>1, <2>5, <3>1
    <3>3. QED
      BY <1>1, <1>4, <1>5, <2>7, <2>9, <3>1, <3>2, WorkerStores
  <2>10. QED
    BY <1>4, <2>8, <2>9
<1>8. QED
  BY <1>6, <1>7

(***************************************************************************)
(* An update of a copy at work: whether it is made, refused or fails, the  *)
(* copy is at work afterwards.                                             *)
(***************************************************************************)
Stores(new) ==
  \/ UNCHANGED apiVars /\ new = stored[w.e]
  \/ stored[w.e] # None /\ Store(w.e, new) /\ Sound(w.e, new)

LEMMA StepStores ==
  ASSUME IInv, w.pc # "idle", UNCHANGED ruleVars, BudgetKept, NEW new, Stores(new),
         WorkerInv(w', new),
         w'.pc # "idle" => w'.e = w.e /\ Owned(w', dr[Svc(w)], vs[Svc(w)])
  PROVE  IInv'
  BY QuietStep, WorkerStores DEF Stores

LEMMA UpdateWorking ==
  ASSUME IInv, w.pc # "idle", Live(w), Ready(w, stored[w.e]), ~w.inst.deleting,
         NEW outcome \in Outcomes, NEW i, Same(w.inst, i), Update(outcome, i)
  PROVE  LET x == [w EXCEPT !.inst = Overlay(outcome, i)] IN
         /\ BudgetKept
         /\ \E new : /\ Stores(new) /\ Ready(x, new) /\ Live(x) /\ x.e = w.e
                    /\ ~x.inst.deleting
<1> DEFINE o == stored[w.e]
           new == [o EXCEPT !.spec = i.spec, !.finalizer = i.finalizer]
           p == Overlay(outcome, i)
           x == [w EXCEPT !.inst = p]
<1>1. BudgetKept
  BY SpendKeeps DEF Update
<1>2. DOMAIN w = WorkerFields /\ IsCopy(i) /\ i.finalizer = TRUE /\ ~i.deleting
  BY DEF Ready, Working, Same, IsCopy
<1>3. CASE outcome = "ok"
  <2>1. Store(w.e, new)
    BY <1>2, <1>3 DEF Update
  <2> HIDE DEF p
  <2>2. /\ DOMAIN x = WorkerFields /\ x.inst = p /\ x.e = w.e /\ x.fresh = w.fresh
        /\ x.taken = w.taken
    BY <1>2, InstChanged
  <2> HIDE DEF x
  <2>3. o # None /\ Sound(w.e, o) /\ IsCopy(o) /\ StoredActive(w, o)
        /\ o.status.iteration = w.inst.status.iteration
    BY <1>3, OutcomeFresh, HereStored DEF Ready, Saves, Sound
  <2>4. /\ IsCopy(p) /\ p.spec = i.spec /\ p.finalizer = i.finalizer /\ p.deleting = i.deleting
        /\ p.status.initialized = o.status.initialized
        /\ p.status.completed = o.status.completed
        /\ p.status.phase = o.status.phase /\ p.status.iteration = o.status.iteration
    BY <1>2, <1>3, <2>3, OverlaySame DEF p
  <2> HIDE DEF o
  <2>5. /\ o.status.initialized = TRUE /\ ~o.status.completed
        /\ o.status.phase \in {"Progressing", "Pause"} /\ o.deleting = i.deleting
    BY <1>2, <2>3 DEF StoredActive, Sound, IsCopy, Same
  <2>6. /\ DOMAIN new = ObjectFields /\ new.spec = i.spec /\ new.finalizer = TRUE
        /\ new.deleting = o.deleting /\ new.status = o.status
    BY <1>2, <2>3 DEF IsCopy, ObjectFields
  <2> HIDE DEF new
  <2>7. Sound(w.e, new)
    BY <1>2, <2>3, <2>5, <2>6, UpdateSound
  <2>8. Working(x) /\ Live(x) /\ ~x.inst.deleting
    BY <1>2, <2>2, <2>4, <2>5 DEF Working, Live
  <2>9. Ready(x, new)
    BY <1>2, <2>2, <2>3, <2>4, <2>5, <2>6, <2>8 DEF Ready, StoredActive, Saves, Same
  <2>10. Stores(new)
    BY <2>1, <2>3, <2>7 DEF Stores, o
  <2>11. QED
    BY <1>1, <2>2, <2>8, <2>9, <2>10 DEF x, p
<1>4. CASE outcome # "ok"
  <2>1. UNCHANGED apiVars
    BY <1>4 DEF Update
  <2>2. p = i
    BY <1>4, OverlayElse
  <2> HIDE DEF p
  <2>3. Works(w, x)
    BY <1>2, <2>2, InstWorks DEF Ready
  <2>4. Ready(x, o) /\ Live(x) /\ x.e = w.e /\ ~x.inst.deleting
    BY <2>3, WorksReady DEF Works
  <2>5. Stores(o)
    BY <2>1 DEF Stores
  <2>6. QED
    BY <1>1, <2>4, <2>5 DEF p
<1>5. QED
  BY <1>3, <1>4

LEMMA SaveResumeInv ==
  ASSUME IInv, SaveResume PROVE IInv'
<1> DEFINE X(outcome) == [w EXCEPT !.inst = Overlay(outcome, w.inst)]
<1>1. w.pc = "resumeSave" /\ w.pc # "idle"
  BY DEF SaveResume, At
<1>2. Live(w) /\ Ready(w, stored[w.e]) /\ ~w.inst.deleting
  BY <1>1, HereReady DEF UserPcs
<1>3. Same(w.inst, w.inst)
  BY <1>2 DEF Same, Ready, Working
<1>4. PICK outcome \in Outcomes :
        /\ Update(outcome, w.inst)
        /\ w' = IF outcome = "failed" THEN Idle ELSE AfterProceed(X(outcome))
        /\ UNCHANGED ruleVars
  BY DEF SaveResume
<1> DEFINE x == X(outcome)
<1>5. /\ BudgetKept
      /\ \E new : Stores(new) /\ Ready(x, new) /\ Live(x) /\ x.e = w.e /\ ~x.inst.deleting
  BY <1>1, <1>2, <1>3, <1>4, UpdateWorking
<1>6. PICK new : Stores(new) /\ Ready(x, new) /\ Live(x) /\ x.e = w.e /\ ~x.inst.deleting
  BY <1>5
<1>7. w' = Idle \/ w' = AfterProceed(x)
  BY <1>4
<1> HIDE DEF x
<1>8. CASE w' = Idle
  <2>1. w'.pc = "idle" BY <1>8 DEF Idle
  <2>2. WorkerInv(w', new) BY <1>8, IdleInv
  <2>3. QED
    BY <1>1, <1>4, <1>5, <1>6, <2>1, <2>2, StepStores
<1>9. CASE w' = AfterProceed(x)
  <2>1. WorkerInv(w', new) /\ w'.e = w.e /\ w'.pc \in {"metrics", "rules"}
    BY <1>6, <1>9, AfterProceedReady
  <2>2. QED
    BY <1>1, <1>4, <1>5, <1>6, <2>1, StepStores DEF Owned, OwningPcs
<1>10. QED
  BY <1>7, <1>8, <1>9

LEMMA SyncMetricsInv ==
  ASSUME IInv, SyncMetrics PROVE IInv'
<1> DEFINE i == [w.inst EXCEPT !.spec.metrics = TRUE]
           X(outcome) == [w EXCEPT !.inst = Overlay(outcome, i)]
<1>1. w.pc = "metrics" /\ w.pc # "idle"
  BY DEF SyncMetrics, At
<1>2. Live(w) /\ Ready(w, stored[w.e]) /\ ~w.inst.deleting
  BY <1>1, HereReady DEF UserPcs
<1>3. Same(w.inst, i)
  BY <1>2 DEF Same, Ready, Working, IsCopy, ObjectFields, SpecFields
<1>4. PICK outcome \in Outcomes :
        /\ Update(outcome, i)
        /\ w' = IF outcome = "failed" THEN Goto([w EXCEPT !.inst = i], "end")
                ELSE Goto(MarkSyncMetrics(X(outcome)), "rules")
        /\ UNCHANGED ruleVars
  BY DEF SyncMetrics
<1> HIDE DEF i
<1> DEFINE x == X(outcome)
           m == MarkSyncMetrics(x)
<1>5. /\ BudgetKept
      /\ \E new : Stores(new) /\ Ready(x, new) /\ Live(x) /\ x.e = w.e /\ ~x.inst.deleting
  BY <1>1, <1>2, <1>3, <1>4, UpdateWorking
<1>6. PICK new : Stores(new) /\ Ready(x, new) /\ Live(x) /\ x.e = w.e /\ ~x.inst.deleting
  BY <1>5
<1>7. w' = Goto(x, "end") \/ w' = Goto(m, "rules")
  BY <1>4, OverlayElse
<1> HIDE DEF x
<1>8. Works(x, x) /\ Works(x, m)
  BY <1>6, MarksWork DEF Ready, Works
<1> HIDE DEF m
<1>9. CASE w' = Goto(x, "end")
  <2>1. WorkerInv(w', new) /\ w'.e = w.e /\ w'.pc = "end"
    BY <1>6, <1>8, <1>9, GoesToEnd
  <2>2. QED
    BY <1>1, <1>4, <1>5, <1>6, <2>1, StepStores DEF Owned, OwningPcs
<1>10. CASE w' = Goto(m, "rules")
  <2>1. Live(m) /\ Ready(m, new) /\ m.e = w.e
    BY <1>6, <1>8, WorksReady
  <2>2. Live(w') /\ Ready(w', new) /\ w'.e = w.e /\ w'.pc = "rules"
    BY <1>10, <2>1, GotoLive
  <2>3. WorkerInv(w', new)
    BY <2>2, ReadyAnywhere DEF RulePcs
  <2>4. QED
    BY <1>1, <1>4, <1>5, <1>6, <2>2, <2>3, StepStores DEF Owned, OwningPcs
<1>11. QED
  BY <1>7, <1>9, <1>10

LEMMA MetricsUnreadableInv ==
  ASSUME IInv, MetricsUnreadable PROVE IInv'
<1> DEFINE m == MarkSyncMetricsError(w)
           o == stored[w.e]
           new == [o EXCEPT !.status = m.inst.status]
<1>1. w.pc = "metrics" /\ w.pc # "idle"
  BY DEF MetricsUnreadable, At
<1>2. Live(w) /\ Ready(w, o) /\ Working(w)
  BY <1>1, HereReady DEF UserPcs
<1>3. BudgetKept
  BY BudgetSpent DEF MetricsUnreadable, IInv
<1>4. CASE Panics(w)
  BY <1>3, <1>4, RestartInv DEF MetricsUnreadable
<1>5. CASE ~Panics(w)
  <2>1. /\ IF o # None /\ w.fresh THEN Store(w.e, new) ELSE UNCHANGED apiVars
        /\ w' = Idle /\ UNCHANGED ruleVars
    BY <1>5 DEF MetricsUnreadable
  <2>2. w'.pc = "idle"
    BY <2>1 DEF Idle
  <2>3. \A q : WorkerInv(w', q)
    BY <2>1, IdleInv
  <2>4. Ready(m, o) /\ Live(m) /\ m.e = w.e
    BY <1>2, MarksWork, WorksReady
  <2> HIDE DEF m
  <2>5. CASE o # None /\ w.fresh
    <3>1. Works(w, m)
      BY <1>2, MarksWork DEF m
    <3>2. /\ Sound(w.e, o) /\ IsCopy(o) /\ StoredActive(w, o)
          /\ Sound(w.e, m.inst) /\ m.inst.finalizer
      BY <1>1, <1>2, <2>4, <2>5, HereStored, ReadySound DEF Ready, Saves, Sound, Working
    <3>3. o.finalizer = m.inst.finalizer /\ o.deleting = m.inst.deleting
      BY <3>1, <3>2 DEF StoredActive, Works, Sound, IsCopy
    <3>4. new = [o EXCEPT !.status = m.inst.status]
      OBVIOUS
    <3> HIDE DEF new
    <3>5. Sound(w.e, new)
      BY <3>2, <3>3, <3>4, StatusWritten
    <3>6. QED
      BY <1>1, <1>3, <2>1, <2>2, <2>3, <2>5, <3>5, WorkerStores
  <2>6. CASE ~(o # None /\ w.fresh)
    BY <1>3, <2>1, <2>2, <2>3, <2>6, QuietStep
  <2>7. QED
    BY <2>5, <2>6
<1>6. QED
  BY <1>4, <1>5

LEMMA UnfinalizeInv ==
  ASSUME IInv, Unfinalize PROVE IInv'
<1> DEFINE i == [w.inst EXCEPT !.finalizer = FALSE]
<1>1. PICK outcome \in Outcomes : Update(outcome, i)
  BY DEF Unfinalize
<1>2. w.pc = "unfinalize" /\ w.pc # "idle"
  BY DEF Unfinalize, At
<1>3. Leaving(w, stored[w.e])
  BY <1>2 DEF IInv, WorkerInv
<1>4. BudgetKept
  BY <1>1, SpendKeeps DEF Update
<1>5. i.deleting /\ ~i.finalizer
  BY <1>3 DEF Leaving, IsCopy, ObjectFields
<1>6. w' = Idle /\ UNCHANGED ruleVars
  BY DEF Unfinalize
<1>7. w'.pc = "idle"
  BY <1>6 DEF Idle
<1>8. \A q : WorkerInv(w', q)
  BY <1>6, IdleInv
<1>9. CASE outcome = "ok"
  <2>1. Store(w.e, None) /\ stored[w.e] # None
    BY <1>1, <1>5, <1>9, OutcomeFresh DEF Update
  <2>2. QED
    BY <1>2, <1>4, <1>6, <1>7, <1>8, <2>1, WorkerStores
<1>10. CASE outcome # "ok"
  <2>1. UNCHANGED apiVars
    BY <1>1, <1>10 DEF Update
  <2>2. QED
    BY <1>4, <1>6, <1>7, <1>8, <2>1, QuietStep
<1>11. QED
  BY <1>9, <1>10

-----------------------------------------------------------------------------
(* A request is taken, and what happens besides.                           *)

LEMMA FetchInv ==
  ASSUME IInv, NEW e \in Experiments, Fetch(e) PROVE IInv'
<1> DEFINE o == cached[e]
           x == [Idle EXCEPT !.e = e, !.inst = o, !.fresh = e \in current, !.taken = TRUE]
           next == CASE o = None -> "notFound"
                     [] o # None /\ ~o.status.initialized -> "init"
                     [] o # None /\ o.status.initialized /\ ~o.finalizer -> "finalizer"
                     [] OTHER -> "dispatch"
<1>1. /\ DOMAIN x = WorkerFields /\ x.e = e /\ x.inst = o /\ x.taken = TRUE
      /\ IF e \in current THEN x.fresh = TRUE ELSE x.fresh = FALSE
  <2> DEFINE b == e \in current
             y == [Idle EXCEPT !.e = e, !.inst = o, !.fresh = b, !.taken = TRUE]
  <2>1. b = TRUE \/ b = FALSE
    OBVIOUS
  <2> HIDE DEF b
  <2>2. /\ DOMAIN y = WorkerFields /\ y.e = e /\ y.inst = o /\ y.taken = TRUE /\ y.fresh = b
    BY DEF Idle, WorkerFields
  <2> HIDE DEF y
  <2>3. IF e \in current THEN y.fresh = TRUE ELSE y.fresh = FALSE
    BY <2>1, <2>2 DEF b
  <2>4. QED
    BY <2>2, <2>3 DEF b, y
<1>2. w' = Goto(x, next) /\ UNCHANGED <<apiVars, ruleVars, budget>>
  BY DEF Fetch
<1>3. /\ next \in EarlyPcs
      /\ next = "init" => ~o.status.initialized
      /\ next = "finalizer" => o.status.initialized /\ ~o.finalizer
      /\ next \in OpenPcs => o # None
      /\ next = "dispatch" => o.status.initialized /\ o.finalizer
  BY DEF EarlyPcs, OpenPcs
<1> HIDE DEF x, next
<1>4. /\ DOMAIN w' = WorkerFields /\ w'.pc = next /\ w'.e = e /\ w'.inst = o /\ w'.taken = TRUE
      /\ IF e \in current THEN w'.fresh = TRUE ELSE w'.fresh = FALSE
  BY <1>1, <1>2, GotoKeeps
<1>5. Live(w')
  BY <1>4 DEF Live
<1>6. WorkerInv(w', stored[e])
  <2>1. CASE next = "notFound"
    BY <1>4, <1>5, <2>1
    DEF WorkerInv, Live, Pcs, EarlyPcs, OpenPcs, UserPcs, RulePcs, CleanupPcs
  <2>2. CASE next \in OpenPcs
    <3>1. Sound(e, o) /\ (e \in current => o = stored[e])
      BY <1>3, <2>2 DEF IInv, ObjectsInv
    <3>2. next = "init" <=> ~o.status.initialized
      BY <1>3, <2>2, <3>1 DEF OpenPcs
    <3>3. next = "dispatch" <=> o.finalizer
      BY <1>3, <2>2, <3>1 DEF OpenPcs, Sound
    <3>4. Opened(w', stored[e])
      BY <1>4, <3>1, <3>2, <3>3 DEF Opened, Saves
    <3>5. QED
      BY <1>4, <1>5, <2>2, <3>4, OpenedHere
  <2>3. QED
    BY <1>3, <2>1, <2>2 DEF EarlyPcs, OpenPcs
<1>7. ObjectsInv'
  BY <1>2, BudgetSpent, ObjectsKept DEF IInv
<1>8. RulesInv'
  BY <1>2, <1>3, <1>4 DEF IInv, RulesInv, ruleVars, Owned, OwningPcs, EarlyPcs
<1>9. QED
  BY <1>2, <1>4, <1>6, <1>7, <1>8 DEF IInv, apiVars

(***************************************************************************)
(* Steps the worker has no part in.                                        *)
(***************************************************************************)
LEMMA AsideInv ==
  ASSUME IInv, ObjectsInv', UNCHANGED <<stored, w, ruleVars>>
  PROVE  IInv'
<1>1. RulesInv'
  BY DEF IInv, RulesInv, ruleVars, Svc, SpecAt
<1>2. QED
  BY <1>1 DEF IInv

LEMMA DeliverInv ==
  ASSUME IInv, NEW e \in Experiments, Deliver(e) PROVE IInv'
<1>1. ObjectsInv'
  BY DEF Deliver, IInv, ObjectsInv
<1>2. QED
  BY <1>1, AsideInv DEF Deliver

LEMMA EventsInv ==
  ASSUME IInv,
         \/ \E e \in Experiments : TimerFires(e)
         \/ \E t \in Targets :
              HandleTargetEvent(t) \/ EnqueueOwner(t) \/ UserCreatesTarget(t) \/ UserDeletesTarget(t)
         \/ UNCHANGED vars
  PROVE  IInv'
<1>1. UNCHANGED <<apiVars, w, ruleVars>>
  BY DEF TimerFires, HandleTargetEvent, EnqueueOwner, UserCreatesTarget, UserDeletesTarget, vars
<1>2. BudgetKept
  <2>1. DOMAIN budget = BudgetFields
    BY DEF IInv, ObjectsInv
  <2>2. \/ budget' = budget
        \/ \E n : budget' = [budget EXCEPT !.arrivals = n] \/ budget' = [budget EXCEPT !.losses = n]
    BY DEF TimerFires, HandleTargetEvent, EnqueueOwner, UserCreatesTarget, UserDeletesTarget, vars
  <2>3. QED
    BY <2>1, <2>2 DEF BudgetKept, BudgetFields
<1>3. ObjectsInv'
  BY <1>1, <1>2, ObjectsKept DEF IInv
<1>4. QED
  BY <1>1, <1>3, AsideInv DEF apiVars

LEMMA CrashInv ==
  ASSUME IInv, Crash PROVE IInv'
<1>1. BudgetKept
  BY DEF Crash, IInv, ObjectsInv, BudgetKept, BudgetFields
<1>2. QED
  BY <1>1, RestartInv DEF Crash

(***************************************************************************)
(* A worker whose copy went stale may still be where it is.                *)
(***************************************************************************)
LEMMA StaleInv ==
  ASSUME NEW x, NEW o, NEW p, WorkerInv(x, o), x.pc # "idle"
  PROVE  LET y == [x EXCEPT !.fresh = FALSE] IN
         WorkerInv(y, p) /\ y.e = x.e /\ y.pc = x.pc
<1> DEFINE y == [x EXCEPT !.fresh = FALSE]
<1>1. /\ DOMAIN y = WorkerFields /\ y.pc = x.pc /\ y.e = x.e /\ y.inst = x.inst
      /\ y.taken = x.taken /\ y.fresh = FALSE
  BY DEF WorkerInv, WorkerFields
<1> HIDE DEF y
<1>2. /\ Opened(x, o) => Opened(y, p)
      /\ Ready(x, o) => Ready(y, p)
      /\ Closing(x, o) => Closing(y, p)
      /\ Ended(x, o) => Ended(y, p)
      /\ Leaving(x, o) => Leaving(y, p)
  BY <1>1 DEF Opened, Ready, Closing, Ended, Leaving, Working, Saves
<1>3. WorkerInv(y, p)
  BY <1>1, <1>2 DEF WorkerInv
<1>4. QED
  BY <1>1, <1>3 DEF y

LEMMA EditInv ==
  ASSUME IInv, NEW e \in Experiments, NEW new, Edit(e, new), new = None \/ Sound(e, new),
         DOMAIN budget' = BudgetFields,
         \A f \in budget'.uncreated : f \in budget.uncreated /\ (f # e \/ new = None)
  PROVE  IInv'
<1>1. Store(e, new) /\ UNCHANGED ruleVars
  BY DEF Edit
<1>2. ObjectsInv' /\ stored'[e] = new /\ \A f \in Experiments \ {e} : stored'[f] = stored[f]
  BY <1>1, StoreObjects DEF IInv
<1>3. w.e = e => w.pc # "idle"
  BY KindAssumption DEF IInv, WorkerInv, Idle
<1>4. w.pc # "idle" => w.e \in Experiments
  BY DEF IInv, WorkerInv
<1>5. CASE w.e = e
  <2>1. w' = [w EXCEPT !.fresh = FALSE]
    BY <1>5 DEF Edit
  <2>2. WorkerInv(w', stored'[e]) /\ w'.e = w.e /\ w'.pc = w.pc
    BY <1>3, <1>5, <2>1, StaleInv DEF IInv
  <2>3. RulesInv'
    BY <1>1, <2>2 DEF IInv, RulesInv, ruleVars, Svc, SpecAt, Owned
  <2>4. QED
    BY <1>2, <1>5, <2>2, <2>3 DEF IInv
<1>6. CASE w.e # e
  <2>1. w' = w
    BY <1>6 DEF Edit
  <2>2. RulesInv'
    BY <1>1, <2>1 DEF IInv, RulesInv, ruleVars, Svc, SpecAt
  <2>3. WorkerInv(w, stored'[w.e])
    <3>1. CASE w.pc = "idle"
      BY <3>1, IdleInv DEF IInv, WorkerInv
    <3>2. CASE w.pc # "idle"
      BY <1>2, <1>4, <1>6, <3>2 DEF IInv
    <3>3. QED BY <3>1, <3>2
  <2>4. QED
    BY <1>2, <2>1, <2>2, <2>3 DEF IInv
<1>7. QED
  BY <1>5, <1>6

LEMMA UserCreatesInv ==
  ASSUME IInv, NEW e \in Experiments, UserCreates(e) PROVE IInv'
<1> DEFINE o == NewObject(e)
<1>1. Sound(e, o)
  <2>1. /\ IsCopy(o) /\ o.status.phase = "" /\ ~o.status.initialized /\ ~o.status.completed
        /\ o.status.iteration = 0 /\ ~o.deleting /\ ~o.finalizer
    BY DEF NewObject, IsCopy, ObjectFields, SpecFields, StatusFields
  <2> HIDE DEF o
  <2>2. MaxIter(e) \in Nat
    BY LimitNat
  <2>3. o.status.iteration <= MaxIter(e) + 1 /\ o.status.iteration <= MaxIter(e)
    <3>1. o.status.iteration = 0
      BY <2>1
    <3>2. \A n \in Nat : 0 <= n /\ 0 <= n + 1
      OBVIOUS
    <3>3. QED
      BY <2>2, <3>1, <3>2
  <2>4. QED
    BY <2>1, <2>3 DEF Sound
<1>2. /\ DOMAIN budget' = BudgetFields
      /\ \A f \in budget'.uncreated : f \in budget.uncreated /\ f # e
  BY DEF UserCreates, IInv, ObjectsInv, BudgetFields
<1>3. QED
  BY <1>1, <1>2, EditInv DEF UserCreates

LEMMA SameSound ==
  ASSUME NEW e, NEW o, NEW p, Sound(e, o), Same(o, p)
  PROVE  Sound(e, p)
  BY DEF Sound, Same

LEMMA UserOverridesInv ==
  ASSUME IInv, NEW e \in Experiments, NEW o, UserOverridesTo(e, o) PROVE IInv'
<1> DEFINE new == [stored[e] EXCEPT !.spec.override = o]
<1>1. stored[e] # None /\ Sound(e, stored[e]) /\ e \notin budget.uncreated
  BY DEF UserOverridesTo, IInv, ObjectsInv
<1>2. Sound(e, new)
  <2>1. Same(stored[e], new)
    BY <1>1, OverrideKeeps DEF Sound
  <2> HIDE DEF new
  <2>2. QED
    BY <1>1, <2>1, SameSound
<1>3. DOMAIN budget' = BudgetFields /\ budget'.uncreated = budget.uncreated
  BY DEF UserOverridesTo, IInv, ObjectsInv, BudgetFields
<1>4. QED
  BY <1>1, <1>2, <1>3, EditInv DEF UserOverridesTo

LEMMA UserDeletesInv ==
  ASSUME IInv, NEW e \in Experiments, UserDeletes(e) PROVE IInv'
<1> DEFINE o == stored[e]
           d == [o EXCEPT !.deleting = TRUE]
           new == IF o.finalizer THEN d ELSE None
<1>1. o # None /\ Sound(e, o) /\ e \notin budget.uncreated
  BY DEF UserDeletes, IInv, ObjectsInv
<1>2. o.finalizer => Sound(e, d)
  <2>1. /\ DOMAIN d = ObjectFields /\ d.deleting = TRUE /\ d.finalizer = o.finalizer
        /\ d.status = o.status /\ d.spec = o.spec
    BY <1>1 DEF Sound, IsCopy, ObjectFields
  <2> HIDE DEF d
  <2>2. QED
    BY <1>1, <2>1 DEF Sound, IsCopy
<1>3. new = None \/ Sound(e, new)
  BY <1>2
<1>4. Edit(e, new) /\ budget' = budget
  BY DEF UserDeletes
<1>5. QED
  BY <1>1, <1>3, <1>4, EditInv DEF IInv, ObjectsInv

(***************************************************************************)
(* Time stamps grow old in place.                                          *)
(***************************************************************************)
Aged(o, p) ==
  /\ o = None => p = None
  /\ IsCopy(o) => Same(o, p) /\ p.spec = o.spec

LEMMA AgedInv ==
  ASSUME NEW x, NEW y, NEW o, NEW p, WorkerInv(x, o), x.pc # "idle",
         o = None \/ IsCopy(o), Aged(o, p), Aged(x.inst, y.inst),
         DOMAIN y = WorkerFields, y.pc = x.pc, y.e = x.e, y.fresh = x.fresh, y.taken = x.taken
  PROVE  WorkerInv(y, p)
<1>1. Saves(y, p) =>
        /\ Saves(x, o) /\ p.finalizer = o.finalizer /\ p.deleting = o.deleting
        /\ p.status.phase = o.status.phase /\ p.status.iteration = o.status.iteration
  BY DEF Saves, Aged, Same
<1>2. IsCopy(x.inst) => Same(x.inst, y.inst) /\ y.inst.spec = x.inst.spec
  BY DEF Aged
<1>3. Opened(x, o) => Opened(y, p)
  BY <1>1, <1>2, SameSound DEF Opened, Same, Sound
<1>4. Working(x) => Working(y)
  BY <1>2 DEF Working, Same, Terminating
<1>5. Working(x) /\ StoredActive(x, o) /\ Saves(y, p) => StoredActive(y, p)
  BY <1>1, <1>2 DEF Working, StoredActive, Same
<1>6. Ready(x, o) => Ready(y, p)
  BY <1>1, <1>2, <1>4, <1>5 DEF Ready, Same, Working
<1>7. Closing(x, o) => Closing(y, p)
  BY <1>1, <1>2, <1>4, <1>5 DEF Closing, Counted, Same, Working
<1>8. Ended(x, o) => Ended(y, p)
  BY <1>1, <1>2 DEF Ended, Counted, StoredActive, Same
<1>9. Leaving(x, o) => Leaving(y, p)
  BY <1>1, <1>2 DEF Leaving, Same
<1>10. x.pc \in UserPcs => ~y.inst.deleting
  BY <1>2 DEF WorkerInv, Ready, Working, Same
<1>11. QED
  BY <1>3, <1>6, <1>7, <1>8, <1>9, <1>10 DEF WorkerInv

LEMMA IntervalElapsesInv ==
  ASSUME IInv, NEW e \in Experiments, IntervalElapses(e) PROVE IInv'
<1> DEFINE Age(o) == IF o # None /\ o.status.lastUpdate = "recent"
                       THEN [o EXCEPT !.status.lastUpdate = "past"] ELSE o
<1>1. /\ stored' = [stored EXCEPT ![e] = Age(stored[e])]
      /\ cached' = [cached EXCEPT ![e] = Age(cached[e])]
      /\ w' = IF w.e = e THEN [w EXCEPT !.inst = Age(w.inst)] ELSE w
      /\ UNCHANGED <<current, ruleVars, budget>>
  BY DEF IntervalElapses
<1>2. \A o : Aged(o, Age(o))
  BY DEF Aged, Same, IsCopy, ObjectFields, SpecFields, StatusFields
<1> HIDE DEF Age
<1>3. \A o : o = None \/ Sound(e, o) => Age(o) = None \/ Sound(e, Age(o))
  BY <1>2, SameSound DEF Aged, Sound
<1>4. ObjectsInv'
  BY <1>1, <1>2, <1>3 DEF IInv, ObjectsInv, Aged
<1>5. w.e = e => w.pc # "idle"
  BY KindAssumption DEF IInv, WorkerInv, Idle
<1>6. DOMAIN w = WorkerFields
  BY DEF IInv, WorkerInv
<1>7. CASE w.e = e
  <2>1. w' = [w EXCEPT !.inst = Age(w.inst)]
    BY <1>1, <1>7
  <2>2. /\ DOMAIN w' = WorkerFields /\ w'.inst = Age(w.inst)
        /\ w'.e = w.e /\ w'.fresh = w.fresh /\ w'.taken = w.taken /\ w'.pc = w.pc
    BY <1>6, <2>1, InstChanged
  <2>3. /\ stored[e] = None \/ IsCopy(stored[e])
        /\ stored'[e] = Age(stored[e])
    BY <1>1 DEF IInv, ObjectsInv, Sound
  <2>4. WorkerInv(w', stored'[e])
    BY <1>2, <1>5, <1>7, <2>2, <2>3, AgedInv DEF IInv
  <2>5. RulesInv'
    BY <1>1, <2>2 DEF IInv, RulesInv, ruleVars, Svc, SpecAt, Owned
  <2>6. QED
    BY <1>4, <1>7, <2>2, <2>4, <2>5 DEF IInv
<1>8. CASE w.e # e
  <2>1. w' = w
    BY <1>1, <1>8
  <2>2. RulesInv'
    BY <1>1, <2>1 DEF IInv, RulesInv, ruleVars, Svc, SpecAt
  <2>3. WorkerInv(w, stored'[w.e])
    <3>1. CASE w.pc = "idle"
      BY <3>1, IdleInv DEF IInv, WorkerInv
    <3>2. CASE w.pc # "idle"
      BY <1>1, <1>8, <3>2 DEF IInv, WorkerInv, ObjectsInv
    <3>3. QED BY <3>1, <3>2
  <2>4. QED
    BY <1>4, <2>1, <2>2, <2>3 DEF IInv
<1>9. QED
  BY <1>7, <1>8

-----------------------------------------------------------------------------
(* The invariant holds.                                                    *)

LEMMA InitInv ==
  ASSUME Init PROVE IInv
<1>1. ObjectsInv
  BY DEF Init, ObjectsInv, BudgetFields
<1>2. WorkerInv(w, stored[w.e])
  BY IdleInv DEF Init
<1>3. RulesInv
  <2>1. PICK r \in [Services -> InitialRules] :
          dr = [s \in Services |-> r[s].dr] /\ vs = [s \in Services |-> r[s].vs]
    BY DEF Init
  <2>2. \A s \in Services : (dr[s] = None \/ HasLabels(dr[s])) /\ (vs[s] = None \/ HasLabels(vs[s]))
    <3> SUFFICES ASSUME NEW s \in Services
                 PROVE  (dr[s] = None \/ HasLabels(dr[s])) /\ (vs[s] = None \/ HasLabels(vs[s]))
      OBVIOUS
    <3>1. \/ r[s].dr = None /\ r[s].vs = None
          \/ /\ DOMAIN r[s].dr = {"labels", "subsets"}
             /\ DOMAIN r[s].vs = {"labels", "routes", "match"}
             /\ r[s].dr.labels = StableLabels /\ r[s].vs.labels = StableLabels
      BY SpecAssumption
    <3>2. QED
      BY <2>1, <3>1 DEF HasLabels, StableLabels
  <2>3. w.pc = "idle"
    BY DEF Init, Idle
  <2>4. QED
    BY <2>1, <2>2, <2>3 DEF RulesInv
<1>4. QED
  BY <1>1, <1>2, <1>3 DEF IInv

LEMMA ReconcileInv ==
  ASSUME IInv, Reconcile PROVE IInv'
  BY SkipsInv, SaveInitStatusInv, AddFinalizerInv, StartFinalizeInv, RejectInv, BeginInv,
     SavePauseInv, SaveResumeInv, MetricsUnreadableInv, SyncMetricsInv, UseRulesInv,
     RefuseRulesInv, DetectTargetsInv, UpdateBaselineDRInv, UpdateBaselineVSInv,
     MissingCandidateInv, UpdateCandidatesDRInv, UpdateCandidatesVSInv,
     IterateWithoutCriteriaInv, AnalyticsFailsInv, AbortInv, FollowRecommendationInv,
     SplitWithoutRulesInv, UpdateTrafficSplitInv, CompleteInv, CleanupTargetsInv, CleanupDRInv,
     CleanupVSInv, EndInv, UnfinalizeInv
  DEF Reconcile

LEMMA NextInv ==
  ASSUME IInv, [Next]_vars PROVE IInv'
<1>1. CASE Reconcile
  BY <1>1, ReconcileInv
<1>2. CASE \E e \in Experiments : Fetch(e) \/ Deliver(e) \/ IntervalElapses(e)
  BY <1>2, FetchInv, DeliverInv, IntervalElapsesInv
<1>3. CASE \E e \in Experiments :
             UserCreates(e) \/ UserDeletes(e) \/ \E o \in UserOverrides : UserOverridesTo(e, o)
  BY <1>3, UserCreatesInv, UserDeletesInv, UserOverridesInv
<1>4. CASE Crash
  BY <1>4, CrashInv
<1>5. CASE \/ \E e \in Experiments : TimerFires(e)
           \/ \E t \in Targets :
                HandleTargetEvent(t) \/ EnqueueOwner(t) \/ UserCreatesTarget(t) \/ UserDeletesTarget(t)
           \/ UNCHANGED vars
  BY <1>5, EventsInv
<1>6. QED
  BY <1>1, <1>2, <1>3, <1>4, <1>5 DEF Next, Environment

(***************************************************************************)
(* The invariant holds in every reachable state, whatever users, targets,  *)
(* stale caches, failed calls and crashes do.                              *)
(***************************************************************************)
THEOREM Inductive == Spec => []IInv
  BY InitInv, NextInv, PTL DEF Spec
-----------------------------------------------------------------------------
(* Rules change hands through completions only.                            *)

HandsOver ==
  \A s \in Services :
    IsProgressing(dr[s], vs[s]) /\ <<dr'[s], vs'[s]>> # <<dr[s], vs[s]>> =>
      dr[s].labels.experiment = w.e /\ vs[s].labels.experiment = w.e

(***************************************************************************)
(* Where the worker writes rules it writes those of its experiment.        *)
(***************************************************************************)
LEMMA OwnerWrites ==
  ASSUME IInv, w.pc \in OwningPcs, NEW r,
         dr' = [dr EXCEPT ![Svc(w)] = r] \/ dr' = dr,
         NEW q, vs' = [vs EXCEPT ![Svc(w)] = q] \/ vs' = vs
  PROVE  HandsOver
<1>1. w.pc # "idle"
  BY DEF OwningPcs
<1>2. IsProgressing(dr[Svc(w)], vs[Svc(w)]) =>
        Labelled(dr[Svc(w)], w.e) /\ Labelled(vs[Svc(w)], w.e)
  BY <1>1, HereRules DEF Owned
<1>3. \A s \in Services \ {Svc(w)} : dr'[s] = dr[s] /\ vs'[s] = vs[s]
  BY DEF IInv, RulesInv
<1>4. QED
  BY <1>2, <1>3 DEF HandsOver, Labelled

LEMMA RulesKept ==
  ASSUME UNCHANGED ruleVars
  PROVE  HandsOver
  BY DEF HandsOver, ruleVars

LEMMA WritesHandOver ==
  ASSUME IInv, \/ UpdateBaselineDR \/ UpdateBaselineVS \/ UpdateCandidatesDR \/ UpdateCandidatesVS
               \/ UpdateTrafficSplit \/ CleanupDR \/ CleanupVS
  PROVE  HandsOver
<1>1. w.pc \in OwningPcs
  BY DEF UpdateBaselineDR, UpdateBaselineVS, UpdateCandidatesDR, UpdateCandidatesVS,
         UpdateTrafficSplit, CleanupDR, CleanupVS, At, OwningPcs
<1>2. CASE UpdateBaselineDR
  BY <1>1, <1>2, OwnerWrites DEF UpdateBaselineDR, WriteDR
<1>3. CASE UpdateBaselineVS
  BY <1>1, <1>3, OwnerWrites DEF UpdateBaselineVS, WriteVS
<1>4. CASE UpdateCandidatesDR
  BY <1>1, <1>4, OwnerWrites DEF UpdateCandidatesDR, WriteDR
<1>5. CASE UpdateCandidatesVS
  BY <1>1, <1>5, OwnerWrites DEF UpdateCandidatesVS, WriteVS
<1>6. CASE UpdateTrafficSplit
  BY <1>1, <1>6, OwnerWrites DEF UpdateTrafficSplit
<1>7. CASE CleanupDR
  BY <1>1, <1>7, OwnerWrites, RulesKept DEF CleanupDR, CleanupFails, ruleVars
<1>8. CASE CleanupVS
  BY <1>1, <1>8, OwnerWrites, RulesKept DEF CleanupVS, CleanupFails, ruleVars
<1>9. QED
  BY <1>2, <1>3, <1>4, <1>5, <1>6, <1>7, <1>8

LEMMA StepHandsOver ==
  ASSUME IInv, [Next]_vars PROVE HandsOver
<1>1. CASE \/ NotFound \/ SaveInitStatus \/ AddFinalizer \/ StartFinalize \/ SkipCompleted
           \/ SavePause \/ SaveResume \/ SyncMetrics \/ UseRules \/ RefuseRules
           \/ DetectTargets \/ MissingCandidate \/ IterateWithoutCriteria \/ AnalyticsFails
  BY <1>1, RulesKept
  DEF NotFound, SaveInitStatus, AddFinalizer, StartFinalize, SkipCompleted, SavePause, SaveResume,
      SyncMetrics, UseRules, RefuseRules, DetectTargets, MissingCandidate,
      IterateWithoutCriteria, AnalyticsFails
<1>2. CASE \/ \E r \in Responses : Abort(r) \/ FollowRecommendation(r)
           \/ SplitWithoutRules \/ Complete \/ CleanupTargets \/ End \/ Unfinalize
  BY <1>2, RulesKept
  DEF Abort, FollowRecommendation, SplitWithoutRules, Complete, CleanupTargets, End, Unfinalize
<1>3. CASE Reject \/ Begin \/ MetricsUnreadable \/ Crash
  BY <1>3, RulesKept DEF Reject, Begin, MetricsUnreadable, Crash, Restart
<1>4. CASE \E e \in Experiments :
             \/ Fetch(e) \/ Deliver(e) \/ IntervalElapses(e) \/ TimerFires(e)
             \/ UserCreates(e) \/ UserDeletes(e) \/ \E o \in UserOverrides : UserOverridesTo(e, o)
  BY <1>4, RulesKept
  DEF Fetch, Deliver, IntervalElapses, TimerFires, UserCreates, UserDeletes, UserOverridesTo, Edit
<1>5. CASE \/ \E t \in Targets :
               HandleTargetEvent(t) \/ EnqueueOwner(t) \/ UserCreatesTarget(t) \/ UserDeletesTarget(t)
           \/ UNCHANGED vars
  BY <1>5, RulesKept
  DEF HandleTargetEvent, EnqueueOwner, UserCreatesTarget, UserDeletesTarget, vars
<1>6. CASE \/ UpdateBaselineDR \/ UpdateBaselineVS \/ UpdateCandidatesDR \/ UpdateCandidatesVS
           \/ UpdateTrafficSplit \/ CleanupDR \/ CleanupVS
  BY <1>6, WritesHandOver
<1>7. QED
  BY <1>1, <1>2, <1>3, <1>4, <1>5, <1>6 DEF Next, Reconcile, Environment

(***************************************************************************)
(* An experiment's progressing rules are written while the worker handles  *)
(* that experiment only, however many experiments share the service and    *)
(* whatever crashes make of the cache that keeps them apart.               *)
(***************************************************************************)
THEOREM RulesHandedOver == Spec => HandOver
<1>1. IInv /\ [Next]_vars => HandsOver
  BY StepHandsOver
<1>2. QED
  BY <1>1, Inductive, PTL DEF Spec, HandOver, HandsOver

-----------------------------------------------------------------------------
(* Completion is for good.                                                 *)

KeepsVerdicts ==
  \A e \in Experiments :
    Completed(e) => stored'[e] = None \/ Verdict(stored'[e]) = Verdict(stored[e])

LEMMA StoreKeeps ==
  ASSUME IInv, NEW e \in Experiments, NEW new, Store(e, new),
         \/ ~Completed(e) \/ new = None
         \/ new.status = stored[e].status
  PROVE  KeepsVerdicts
  BY DEF IInv, ObjectsInv, Store, KeepsVerdicts, Verdict

LEMMA ApiKept ==
  ASSUME stored' = stored
  PROVE  KeepsVerdicts
  BY DEF KeepsVerdicts

LEMMA ActiveNot ==
  ASSUME IInv, w.pc # "idle", stored[w.e] # None, StoredActive(w, stored[w.e])
  PROVE  ~Completed(w.e)
  BY HereStored DEF StoredActive, Sound, Completed

(***************************************************************************)
(* A status is written over an experiment that has not completed.          *)
(***************************************************************************)
LEMMA StatusKeeps ==
  ASSUME IInv, w.pc # "idle", NEW outcome \in Outcomes, UpdateStatus(outcome),
         Saves(w, stored[w.e]) => ~Completed(w.e)
  PROVE  KeepsVerdicts
<1>1. CASE outcome = "ok"
  BY <1>1, OutcomeFresh, HereStored, StoreKeeps DEF UpdateStatus, Saves
<1>2. CASE outcome # "ok"
  BY <1>2, ApiKept DEF UpdateStatus, apiVars
<1>3. QED
  BY <1>1, <1>2

LEMMA UpdateKeeps ==
  ASSUME IInv, w.pc # "idle", NEW outcome \in Outcomes, NEW i, Update(outcome, i)
  PROVE  KeepsVerdicts
<1> DEFINE new == [stored[w.e] EXCEPT !.spec = i.spec, !.finalizer = i.finalizer]
<1>1. CASE outcome = "ok"
  <2>1. stored[w.e] # None /\ w.e \in Experiments /\ IsCopy(stored[w.e])
    BY <1>1, OutcomeFresh, HereStored DEF Sound
  <2>2. Store(w.e, None) \/ Store(w.e, new)
    BY <1>1 DEF Update
  <2>3. new.status = stored[w.e].status
    BY <2>1 DEF IsCopy, ObjectFields
  <2> HIDE DEF new
  <2>4. QED
    BY <2>1, <2>2, <2>3, StoreKeeps
<1>2. CASE outcome # "ok"
  BY <1>2, ApiKept DEF Update, apiVars
<1>3. QED
  BY <1>1, <1>2

LEMMA WorkerKeeps ==
  ASSUME IInv, \/ SaveInitStatus \/ AddFinalizer \/ SavePause \/ SaveResume
               \/ MetricsUnreadable \/ SyncMetrics \/ End \/ Unfinalize
  PROVE  KeepsVerdicts
<1>1. CASE SaveInitStatus
  <2> DEFINE i == InitStatus(w.inst)
             new == [stored[w.e] EXCEPT !.status = [w EXCEPT !.inst = i].inst.status]
  <2>1. w.pc = "init"
    BY <1>1 DEF SaveInitStatus, At
  <2>2. Saves(w, stored[w.e]) => ~Completed(w.e)
    <3>1. Opened(w, stored[w.e])
      BY <2>1, HereOpened DEF OpenPcs
    <3>2. w.inst.status.phase = ""
      BY <2>1, <3>1 DEF Opened, Sound
    <3>3. QED
      BY <2>1, <3>1, <3>2, HereStored DEF Opened, Saves, Sound, Completed
  <2>3. PICK outcome \in Outcomes : IF outcome = "ok" THEN Store(w.e, new) ELSE UNCHANGED apiVars
    BY <1>1 DEF SaveInitStatus
  <2> HIDE DEF new
  <2>4. QED
    BY <2>1, <2>2, <2>3, OutcomeFresh, HereStored, StoreKeeps, ApiKept DEF Saves, apiVars
<1>2. CASE AddFinalizer \/ SaveResume \/ SyncMetrics \/ Unfinalize
  <2>1. w.pc # "idle"
    BY <1>2 DEF AddFinalizer, SaveResume, SyncMetrics, Unfinalize, At
  <2>2. \E outcome \in Outcomes : \E i : Update(outcome, i)
    BY <1>2 DEF AddFinalizer, SaveResume, SyncMetrics, Unfinalize
  <2>3. QED
    BY <2>1, <2>2, UpdateKeeps
<1>3. CASE SavePause
  <2>1. w.pc = "pauseSave"
    BY <1>3 DEF SavePause, At
  <2>2. Saves(w, stored[w.e]) => ~Completed(w.e)
    BY <2>1, HereReady, ActiveNot DEF UserPcs, Ready, Saves
  <2>3. QED
    BY <1>3, <2>1, <2>2, StatusKeeps DEF SavePause
<1>4. CASE End
  <2>1. w.pc = "end"
    BY <1>4 DEF End, At
  <2>2. Saves(w, stored[w.e]) => ~Completed(w.e)
    BY <2>1, ActiveNot DEF IInv, WorkerInv, Ended, Saves
  <2>3. CASE w.statusUpdate
    BY <1>4, <2>1, <2>2, <2>3, StatusKeeps DEF End
  <2>4. CASE ~w.statusUpdate
    BY <1>4, <2>4, ApiKept DEF End, apiVars
  <2>5. QED
    BY <2>3, <2>4
<1>5. CASE MetricsUnreadable
  <2> DEFINE new == [stored[w.e] EXCEPT !.status = MarkSyncMetricsError(w).inst.status]
  <2>1. w.pc = "metrics" /\ w.pc # "idle"
    BY <1>5 DEF MetricsUnreadable, At
  <2>2. Saves(w, stored[w.e]) => ~Completed(w.e)
    BY <2>1, HereReady, ActiveNot DEF UserPcs, Ready, Saves
  <2>3. \/ stored' = stored
        \/ stored[w.e] # None /\ w.fresh /\ Store(w.e, new)
    BY <1>5 DEF MetricsUnreadable, Restart, apiVars
  <2> HIDE DEF new
  <2>4. QED
    BY <2>1, <2>2, <2>3, HereStored, StoreKeeps, ApiKept DEF Saves
<1>6. QED
  BY <1>1, <1>2, <1>3, <1>4, <1>5

LEMMA UsersKeep ==
  ASSUME IInv, NEW e \in Experiments,
         UserCreates(e) \/ UserDeletes(e) \/ \E o \in UserOverrides : UserOverridesTo(e, o)
  PROVE  KeepsVerdicts
<1>1. CASE UserCreates(e)
  BY <1>1, StoreKeeps DEF UserCreates, Edit, IInv, ObjectsInv, Completed
<1>2. CASE UserDeletes(e)
  <2> DEFINE new == [stored[e] EXCEPT !.deleting = TRUE]
  <2>1. Store(e, new) \/ Store(e, None)
    BY <1>2 DEF UserDeletes, Edit
  <2>2. new.status = stored[e].status
    BY <1>2 DEF UserDeletes, IInv, ObjectsInv, Sound, IsCopy, ObjectFields
  <2> HIDE DEF new
  <2>3. QED
    BY <2>1, <2>2, StoreKeeps
<1>3. ASSUME NEW o, UserOverridesTo(e, o) PROVE KeepsVerdicts
  <2> DEFINE new == [stored[e] EXCEPT !.spec.override = o]
  <2>1. Store(e, new)
    BY <1>3 DEF UserOverridesTo, Edit
  <2>2. new.status = stored[e].status
    BY <1>3 DEF UserOverridesTo, IInv, ObjectsInv, Sound, IsCopy, ObjectFields
  <2> HIDE DEF new
  <2>3. QED
    BY <2>1, <2>2, StoreKeeps
<1>4. QED
  BY <1>1, <1>2, <1>3

LEMMA AgingKeeps ==
  ASSUME IInv, NEW e \in Experiments, IntervalElapses(e)
  PROVE  KeepsVerdicts
<1> DEFINE Age(o) == IF o # None /\ o.status.lastUpdate = "recent"
                       THEN [o EXCEPT !.status.lastUpdate = "past"] ELSE o
<1>1. stored' = [stored EXCEPT ![e] = Age(stored[e])]
  BY DEF IntervalElapses
<1>2. \A o : IsCopy(o) => Verdict(Age(o)) = Verdict(o)
  BY DEF IsCopy, ObjectFields, StatusFields, Verdict
<1> HIDE DEF Age
<1>3. QED
  BY <1>1, <1>2 DEF IInv, ObjectsInv, Sound, KeepsVerdicts, Completed

LEMMA StepKeepsVerdicts ==
  ASSUME IInv, [Next]_vars PROVE KeepsVerdicts
<1>1. CASE \/ NotFound \/ StartFinalize \/ SkipCompleted \/ Reject \/ Begin
           \/ UseRules \/ RefuseRules \/ DetectTargets \/ UpdateBaselineDR \/ UpdateBaselineVS
           \/ MissingCandidate \/ UpdateCandidatesDR \/ UpdateCandidatesVS
  BY <1>1, ApiKept
  DEF NotFound, StartFinalize, SkipCompleted, Reject, Begin, Restart, UseRules, RefuseRules,
      DetectTargets, UpdateBaselineDR, UpdateBaselineVS, MissingCandidate, UpdateCandidatesDR,
      UpdateCandidatesVS, WriteDR, WriteVS, apiVars
<1>2. CASE \/ IterateWithoutCriteria \/ AnalyticsFails
           \/ \E r \in Responses : Abort(r) \/ FollowRecommendation(r)
           \/ SplitWithoutRules \/ UpdateTrafficSplit
           \/ Complete \/ CleanupTargets \/ CleanupDR \/ CleanupVS
  BY <1>2, ApiKept
  DEF IterateWithoutCriteria, AnalyticsFails, Abort, FollowRecommendation, SplitWithoutRules,
      UpdateTrafficSplit, Complete, CleanupTargets, CleanupDR, CleanupVS, apiVars
<1>3. CASE \/ SaveInitStatus \/ AddFinalizer \/ SavePause \/ SaveResume
           \/ MetricsUnreadable \/ SyncMetrics \/ End \/ Unfinalize
  BY <1>3, WorkerKeeps
<1>4. CASE \/ \E e \in Experiments : Fetch(e) \/ Deliver(e) \/ TimerFires(e)
           \/ \E t \in Targets :
                HandleTargetEvent(t) \/ EnqueueOwner(t) \/ UserCreatesTarget(t) \/ UserDeletesTarget(t)
           \/ Crash \/ UNCHANGED vars
  BY <1>4, ApiKept
  DEF Fetch, Deliver, TimerFires, HandleTargetEvent, EnqueueOwner, UserCreatesTarget,
      UserDeletesTarget, Crash, Restart, vars, apiVars
<1>5. CASE \E e \in Experiments :
             \/ UserCreates(e) \/ UserDeletes(e) \/ \E o \in UserOverrides : UserOverridesTo(e, o)
             \/ IntervalElapses(e)
  BY <1>5, UsersKeep, AgingKeeps
<1>6. QED
  BY <1>1, <1>2, <1>3, <1>4, <1>5 DEF Next, Reconcile, Environment

(***************************************************************************)
(* A completed experiment keeps phase, weights, winner and iteration,      *)
(* though workers with older copies of it, late events and edits come      *)
(* after the completion.                                                   *)
(***************************************************************************)
THEOREM CompletionFinal == Spec => CompletedFinal
<1>1. IInv /\ [Next]_vars => KeepsVerdicts
  BY StepKeepsVerdicts
<1>2. QED
  BY <1>1, Inductive, PTL DEF Spec, CompletedFinal, KeepsVerdicts
=============================================================================
