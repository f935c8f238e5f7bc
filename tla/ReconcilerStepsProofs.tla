----------------------- MODULE ReconcilerStepsProofs ------------------------
(***************************************************************************)
(* What no step of the reconciler may do, for any experiments, targets,    *)
(* answers, edits and bounds, from the inductive invariant of              *)
(* ReconcilerProofs: the reconciler implements ExperimentLifecycle, and a  *)
(* pause holds.                                                            *)
(***************************************************************************)
EXTENDS ReconcilerProofs

(***************************************************************************)
(* Proof that the reconciler implements ExperimentLifecycle, for any       *)
(* experiments, targets, answers, edits and bounds, from the inductive     *)
(* invariant of ReconcilerProofs.  Most steps write no object; of those    *)
(* that do, the invariant says what the stored version and the copy that   *)
(* is written have in common, whenever the API server accepts the write.   *)
(***************************************************************************)

Shows(o) ==
  IF o = None THEN None
  ELSE [phase |-> o.status.phase, iteration |-> o.status.iteration,
        finalizer |-> o.finalizer, deleting |-> o.deleting]

Lives == Lifecycle!Next \/ UNCHANGED life

\* None is neither an object nor what an object shows: the value that stands for no
\* object is told apart from the objects.
NoneIsApart == DOMAIN None \notin {ObjectFields, {"phase", "iteration", "finalizer", "deleting"}}

LEMMA ShowsObject ==
  ASSUME NoneIsApart, NEW o, o # None
  PROVE  /\ Shows(o) # None
         /\ Shows(o) = [phase |-> o.status.phase, iteration |-> o.status.iteration,
                        finalizer |-> o.finalizer, deleting |-> o.deleting]
  BY DEF Shows, NoneIsApart

LEMMA StoreLives ==
  ASSUME IInv, NEW e \in Experiments, NEW new, Store(e, new)
  PROVE  /\ life[e] = Shows(stored[e])
         /\ life' = [life EXCEPT ![e] = Shows(new)]
  BY DEF IInv, ObjectsInv, Store, life, Shows

LEMMA LifeKept ==
  ASSUME stored' = stored
  PROVE  Lives
  BY DEF Lives, life

(***************************************************************************)
(* A write that leaves status, finalizer and deletion shows nothing new.   *)
(***************************************************************************)
LEMMA NothingNew ==
  ASSUME IInv, NEW e \in Experiments, NEW new, Store(e, new), Shows(new) = Shows(stored[e])
  PROVE  Lives
<1>1. life' = [life EXCEPT ![e] = life[e]] /\ DOMAIN life = Experiments
  BY StoreLives, ZenonT(60) DEF life
<1>2. life = [f \in Experiments |-> life[f]]
  BY DEF life
<1>3. QED
  BY <1>1, <1>2 DEF Lives

(***************************************************************************)
(* A status that a copy at work, or a complete one, is saved with.         *)
(***************************************************************************)
LEMMA StatusLives ==
  ASSUME NoneIsApart, IInv, w.pc # "idle", NEW o, o = stored[w.e], o # None, w.fresh,
         NEW new, Store(w.e, new),
         StoredActive(w, o), NEW st,
         new.status = st, new.finalizer = o.finalizer, new.deleting = o.deleting, new # None,
         st.phase \in {"Progressing", "Pause", "Completed"},
         \/ st.iteration = o.status.iteration
         \/ /\ st.iteration = o.status.iteration + 1
            /\ ~w.inst.deleting /\ st.phase # "Pause"
            /\ st.iteration <= MaxIter(w.e) + 1
            /\ st.phase # "Completed" => st.iteration <= MaxIter(w.e)
  PROVE  Lives
<1> DEFINE e == w.e
           l == Shows(o)
           n == Shows(new)
<1>1. e \in Experiments /\ Sound(e, o) /\ MaxIter(e) \in Nat /\ o.status.iteration \in Nat
  BY HereStored, LimitNat DEF Sound, IsCopy
<1>2. life[e] = l /\ life' = [life EXCEPT ![e] = n]
  BY <1>1, StoreLives
<1>3. /\ l # None
      /\ l = [phase |-> o.status.phase, iteration |-> o.status.iteration,
              finalizer |-> o.finalizer, deleting |-> o.deleting]
  BY <1>1, ShowsObject
<1>4. n = [phase |-> st.phase, iteration |-> st.iteration,
           finalizer |-> o.finalizer, deleting |-> o.deleting]
  BY DEF Shows
<1> HIDE DEF l, n
<1>5. Lifecycle!Active(e)
  BY <1>2, <1>3 DEF Lifecycle!Active, Lifecycle!Exists, StoredActive
<1>6. CASE st.iteration = o.status.iteration
  <2>1. n = [l EXCEPT !.phase = st.phase]
    BY <1>3, <1>4, <1>6
  <2>2. Lifecycle!PauseOrResume(e) \/ Lifecycle!Complete(e)
    BY <1>2, <1>5, <2>1 DEF Lifecycle!PauseOrResume, Lifecycle!Complete, Lifecycle!Becomes
  <2>3. QED
    BY <1>1, <2>2 DEF Lives, Lifecycle!Next
<1>7. CASE /\ st.iteration = o.status.iteration + 1
           /\ ~w.inst.deleting /\ st.phase # "Pause"
           /\ st.iteration <= MaxIter(e) + 1
           /\ st.phase # "Completed" => st.iteration <= MaxIter(e)
  <2>1. n = [l EXCEPT !.phase = st.phase, !.iteration = l.iteration + 1]
    <3> DEFINE k == st.iteration
               m == [l EXCEPT !.phase = st.phase]
    <3>1. l.iteration + 1 = k
      BY <1>3, <1>7
    <3>2. m = [phase |-> st.phase, iteration |-> o.status.iteration,
               finalizer |-> o.finalizer, deleting |-> o.deleting]
      BY <1>3
    <3> HIDE DEF k, m
    <3>3. n = [m EXCEPT !.iteration = k]
      BY <1>4, <3>2 DEF k
    <3>4. QED
      BY <3>1, <3>3 DEF m
  <2>2. ~l.deleting /\ l.iteration = o.status.iteration
    BY <1>3, <1>7 DEF StoredActive
  <2>3. [f \in Experiments |-> SpecOf[f].maxIterations + 1][e] = MaxIter(e) + 1
    BY <1>1 DEF MaxIter
  <2>4. /\ st.phase \in {"Progressing", "Completed"}
        /\ l.iteration < MaxIter(e) + 1
        /\ st.phase = "Progressing" => l.iteration + 1 < MaxIter(e) + 1
    BY <1>1, <1>7, <2>2
  <2>5. Lifecycle!Iterate(e)
    BY <1>2, <1>5, <2>1, <2>2, <2>3, <2>4 DEF Lifecycle!Iterate, Lifecycle!Becomes
  <2>6. QED
    BY <1>1, <2>5 DEF Lives, Lifecycle!Next
<1>8. QED
  BY <1>6, <1>7

(***************************************************************************)
(* The status of a sound copy, saved by UpdateStatus.                      *)
(***************************************************************************)
LEMMA SavedLives ==
  ASSUME NoneIsApart, IInv, w.pc # "idle", NEW outcome \in Outcomes, UpdateStatus(outcome),
         IsCopy(w.inst), w.inst.status.phase \in {"Progressing", "Pause", "Completed"},
         w.inst.status.iteration <= MaxIter(w.e) + 1,
         w.inst.status.phase # "Completed" => w.inst.status.iteration <= MaxIter(w.e),
         Saves(w, stored[w.e]) => StoredActive(w, stored[w.e]) /\ Counted(w, stored[w.e])
  PROVE  Lives
<1> DEFINE o == stored[w.e]
           st == w.inst.status
           new == [o EXCEPT !.status = st]
<1>1. CASE outcome # "ok"
  BY <1>1, LifeKept DEF UpdateStatus, apiVars
<1>2. CASE outcome = "ok"
  <2>1. o # None /\ w.fresh /\ Sound(w.e, o) /\ StoredActive(w, o) /\ Counted(w, o)
    BY <1>2, OutcomeFresh, HereStored DEF Saves
  <2>2. Store(w.e, new)
    BY <1>2 DEF UpdateStatus
  <2>3. /\ new.status = st /\ new.finalizer = o.finalizer /\ new.deleting = o.deleting
        /\ DOMAIN new = ObjectFields
    BY <2>1 DEF Sound, IsCopy, ObjectFields
  <2> HIDE DEF new
  <2>4. new # None
    BY <2>3 DEF NoneIsApart
  <2>5. QED
    BY <2>1, <2>2, <2>3, <2>4, StatusLives DEF Counted
<1>3. QED
  BY <1>1, <1>2

(***************************************************************************)
(* Step by step of the ones that write an object.                          *)
(***************************************************************************)
LEMMA StatusesLive ==
  ASSUME NoneIsApart, IInv, SavePause \/ End
  PROVE  Lives
<1>1. CASE SavePause
  <2>1. w.pc = "pauseSave" /\ w.pc # "idle"
    BY <1>1 DEF SavePause, At
  <2>2. Live(w) /\ Ready(w, stored[w.e]) /\ Working(w)
    BY <2>1, HereReady DEF UserPcs
  <2>3. w.inst.status.iteration <= MaxIter(w.e) + 1
    BY <2>2, ReadyCloses DEF Closing
  <2>4. Saves(w, stored[w.e]) => StoredActive(w, stored[w.e]) /\ Counted(w, stored[w.e])
    BY <2>2 DEF Ready, Counted
  <2>5. QED
    BY <1>1, <2>1, <2>2, <2>3, <2>4, SavedLives DEF SavePause, Ready, Working
<1>2. CASE End
  <2>1. w.pc = "end" /\ w.pc # "idle"
    BY <1>2 DEF End, At
  <2>2. Ended(w, stored[w.e])
    BY <2>1 DEF IInv, WorkerInv
  <2>3. CASE w.statusUpdate
    BY <1>2, <2>1, <2>2, <2>3, SavedLives DEF End, Ended
  <2>4. CASE ~w.statusUpdate
    BY <1>2, <2>4, LifeKept DEF End, apiVars
  <2>5. QED
    BY <2>3, <2>4
<1>3. QED
  BY <1>1, <1>2

LEMMA MetricsUnreadableLives ==
  ASSUME NoneIsApart, IInv, MetricsUnreadable
  PROVE  Lives
<1> DEFINE m == MarkSyncMetricsError(w)
           o == stored[w.e]
           new == [o EXCEPT !.status = m.inst.status]
<1>1. w.pc = "metrics" /\ w.pc # "idle"
  BY DEF MetricsUnreadable, At
<1>2. Live(w) /\ Ready(w, o) /\ Working(w)
  BY <1>1, HereReady DEF UserPcs
<1>3. \/ stored' = stored
      \/ o # None /\ w.fresh /\ Store(w.e, new)
  BY DEF MetricsUnreadable, Restart, apiVars
<1>4. CASE stored' = stored
  BY <1>4, LifeKept
<1>5. CASE o # None /\ w.fresh /\ Store(w.e, new)
  <2>1. Works(w, m)
    BY <1>2, MarksWork
  <2> HIDE DEF m
  <2>2. IsCopy(o) /\ StoredActive(w, o) /\ o.status.iteration = m.inst.status.iteration
    BY <1>1, <1>2, <1>5, <2>1, HereStored DEF Ready, Saves, Sound, Works
  <2>3. /\ new.status = m.inst.status /\ new.finalizer = o.finalizer
        /\ new.deleting = o.deleting /\ DOMAIN new = ObjectFields
    BY <2>2 DEF IsCopy, ObjectFields
  <2> HIDE DEF new
  <2>4. new # None
    BY <2>3 DEF NoneIsApart
  <2>5. m.inst.status.phase \in {"Progressing", "Pause", "Completed"}
    BY <2>1 DEF Works, Working
  <2>6. QED
    BY <1>1, <1>5, <2>2, <2>3, <2>4, <2>5, StatusLives
<1>6. QED
  BY <1>3, <1>4, <1>5

LEMMA SaveInitStatusLives ==
  ASSUME NoneIsApart, IInv, SaveInitStatus
  PROVE  Lives
<1> DEFINE i == InitStatus(w.inst)
           x == [w EXCEPT !.inst = i]
           o == stored[w.e]
           new == [o EXCEPT !.status = i.status]
<1>1. w.pc = "init" /\ w.pc # "idle"
  BY DEF SaveInitStatus, At
<1>2. /\ Opened(w, o) /\ DOMAIN w = WorkerFields
      /\ Sound(w.e, w.inst) /\ ~w.inst.status.initialized
  BY <1>1, HereOpened DEF OpenPcs, Opened
<1>3. PICK outcome \in Outcomes :
        IF outcome = "ok" THEN Store(w.e, [o EXCEPT !.status = x.inst.status])
                          ELSE UNCHANGED apiVars
  BY DEF SaveInitStatus
<1>4. x.inst = i
  BY <1>2, InstChanged
<1>5. CASE outcome # "ok"
  BY <1>3, <1>5, LifeKept DEF apiVars
<1>6. CASE outcome = "ok"
  <2>1. Store(w.e, new)
    BY <1>3, <1>4, <1>6
  <2>2. /\ o # None /\ w.fresh /\ w.e \in Experiments /\ IsCopy(o)
        /\ o.status.phase = w.inst.status.phase /\ o.status.iteration = w.inst.status.iteration
    BY <1>1, <1>2, <1>6, OutcomeFresh, HereStored DEF Opened, Saves, Sound
  <2>3. w.inst.status.phase = ""
    BY <1>2 DEF Sound
  <2>4. i.status.phase = "Progressing" /\ i.status.iteration = w.inst.status.iteration
    BY <1>2 DEF InitStatus, Sound, IsCopy, ObjectFields, StatusFields
  <2> HIDE DEF i, x
  <2>5. /\ DOMAIN new = ObjectFields /\ new.status = i.status
        /\ new.finalizer = o.finalizer /\ new.deleting = o.deleting
    BY <2>2 DEF IsCopy, ObjectFields
  <2> HIDE DEF new, o
  <2> DEFINE l == Shows(o)
             n == Shows(new)
  <2>6. /\ l # None
        /\ l = [phase |-> o.status.phase, iteration |-> o.status.iteration,
                finalizer |-> o.finalizer, deleting |-> o.deleting]
    BY <2>2, ShowsObject
  <2>7. n = [phase |-> "Progressing", iteration |-> o.status.iteration,
             finalizer |-> o.finalizer, deleting |-> o.deleting]
    BY <2>2, <2>4, <2>5 DEF Shows, NoneIsApart
  <2>8. life[w.e] = l /\ life' = [life EXCEPT ![w.e] = n]
    BY <2>1, <2>2, StoreLives DEF o
  <2> HIDE DEF l, n
  <2>9. n = [l EXCEPT !.phase = "Progressing"]
    BY <2>6, <2>7
  <2>10. Lifecycle!SetGoing(w.e)
    <3>1. l.phase = ""
      BY <2>2, <2>3, <2>6
    <3>2. QED
      BY <2>6, <2>8, <2>9, <3>1 DEF Lifecycle!SetGoing, Lifecycle!Exists, Lifecycle!Becomes
  <2>11. QED
    BY <2>2, <2>10 DEF Lives, Lifecycle!Next
<1>7. QED
  BY <1>5, <1>6

LEMMA AddFinalizerLives ==
  ASSUME NoneIsApart, IInv, AddFinalizer
  PROVE  Lives
<1> DEFINE i == [w.inst EXCEPT !.finalizer = TRUE]
           o == stored[w.e]
           new == [o EXCEPT !.spec = i.spec, !.finalizer = i.finalizer]
<1>1. w.pc = "finalizer" /\ w.pc # "idle"
  BY DEF AddFinalizer, At
<1>2. Opened(w, o) /\ Sound(w.e, w.inst) /\ w.inst.status.initialized /\ ~w.inst.finalizer
  BY <1>1, HereOpened DEF OpenPcs, Opened
<1>3. PICK outcome \in Outcomes : Update(outcome, i)
  BY DEF AddFinalizer
<1>4. CASE outcome # "ok"
  BY <1>3, <1>4, LifeKept DEF Update, apiVars
<1>5. CASE outcome = "ok"
  <2>1. i.finalizer = TRUE
    BY <1>2 DEF Sound, IsCopy, ObjectFields
  <2>2. Store(w.e, new)
    BY <1>3, <1>5, <2>1 DEF Update
  <2>3. /\ o # None /\ w.e \in Experiments /\ IsCopy(o)
        /\ o.status.phase = w.inst.status.phase /\ o.finalizer = w.inst.finalizer
    BY <1>1, <1>2, <1>5, OutcomeFresh, HereStored DEF Opened, Saves, Sound
  <2>4. o.status.phase = "Progressing" /\ ~o.finalizer
    BY <1>2, <2>3 DEF Sound
  <2> HIDE DEF i
  <2>5. /\ DOMAIN new = ObjectFields /\ new.status = o.status
        /\ new.finalizer = TRUE /\ new.deleting = o.deleting
    BY <2>1, <2>3 DEF IsCopy, ObjectFields
  <2> HIDE DEF new, o
  <2> DEFINE l == Shows(o)
             n == Shows(new)
  <2>6. /\ l # None
        /\ l = [phase |-> o.status.phase, iteration |-> o.status.iteration,
                finalizer |-> o.finalizer, deleting |-> o.deleting]
    BY <2>3, ShowsObject
  <2>7. n = [phase |-> o.status.phase, iteration |-> o.status.iteration,
             finalizer |-> TRUE, deleting |-> o.deleting]
    BY <2>5 DEF Shows, NoneIsApart
  <2>8. life[w.e] = l /\ life' = [life EXCEPT ![w.e] = n]
    BY <2>2, <2>3, StoreLives DEF o
  <2> HIDE DEF l, n
  <2>9. n = [l EXCEPT !.finalizer = TRUE]
    <3> DEFINE t == TRUE
    <3>1. n = [phase |-> o.status.phase, iteration |-> o.status.iteration,
               finalizer |-> t, deleting |-> o.deleting]
      BY <2>7
    <3> HIDE DEF t
    <3>2. n = [l EXCEPT !.finalizer = t]
      BY <2>6, <3>1
    <3>3. QED
      BY <3>2 DEF t
  <2>10. l.phase = "Progressing" /\ ~l.finalizer
    BY <2>4, <2>6
  <2>11. Lifecycle!Protect(w.e)
    BY <2>6, <2>8, <2>9, <2>10 DEF Lifecycle!Protect, Lifecycle!Exists, Lifecycle!Becomes
  <2>12. QED
    BY <2>3, <2>11 DEF Lives, Lifecycle!Next
<1>6. QED
  BY <1>4, <1>5

\* An update by a copy that has the finalizer, of an object that has it.
LEMMA UpdateLives ==
  ASSUME NoneIsApart, IInv, w.pc # "idle", Ready(w, stored[w.e]), ~w.inst.deleting,
         NEW outcome \in Outcomes, NEW i, Same(w.inst, i), Update(outcome, i)
  PROVE  Lives
<1> DEFINE o == stored[w.e]
           new == [o EXCEPT !.spec = i.spec, !.finalizer = i.finalizer]
<1>1. CASE outcome # "ok"
  BY <1>1, LifeKept DEF Update, apiVars
<1>2. CASE outcome = "ok"
  <2>1. i.finalizer = TRUE /\ ~i.deleting
    BY DEF Ready, Working, Same, IsCopy
  <2>2. Store(w.e, new)
    BY <1>2, <2>1 DEF Update
  <2>3. o # None /\ w.e \in Experiments /\ IsCopy(o) /\ o.finalizer
    BY <1>2, OutcomeFresh, HereStored DEF Ready, Saves, StoredActive, Sound
  <2>4. /\ DOMAIN new = ObjectFields /\ new.status = o.status
        /\ new.finalizer = o.finalizer /\ new.deleting = o.deleting
    BY <2>1, <2>3 DEF IsCopy, ObjectFields
  <2> HIDE DEF new
  <2>5. Shows(new) = Shows(o)
    BY <2>3, <2>4 DEF Shows, NoneIsApart
  <2>6. QED
    BY <2>2, <2>3, <2>5, NothingNew
<1>3. QED
  BY <1>1, <1>2

LEMMA UpdatesLive ==
  ASSUME NoneIsApart, IInv, SaveResume \/ SyncMetrics
  PROVE  Lives
<1>1. w.pc \in UserPcs /\ w.pc # "idle"
  BY DEF SaveResume, SyncMetrics, At, UserPcs
<1>2. Ready(w, stored[w.e]) /\ ~w.inst.deleting
  BY <1>1, HereReady
<1>3. CASE SaveResume
  <2>1. Same(w.inst, w.inst)
    BY <1>2 DEF Same, Ready, Working
  <2>2. QED
    BY <1>1, <1>2, <1>3, <2>1, UpdateLives DEF SaveResume
<1>4. CASE SyncMetrics
  <2> DEFINE i == [w.inst EXCEPT !.spec.metrics = TRUE]
  <2>1. Same(w.inst, i)
    BY <1>2 DEF Same, Ready, Working, IsCopy, ObjectFields, SpecFields
  <2>2. PICK outcome \in Outcomes : Update(outcome, i)
    BY <1>4 DEF SyncMetrics
  <2> HIDE DEF i
  <2>3. QED
    BY <1>1, <1>2, <2>1, <2>2, UpdateLives
<1>5. QED
  BY <1>3, <1>4

(***************************************************************************)
(* An object goes when it is being deleted or has no finalizer.            *)
(***************************************************************************)
LEMMA GoneLives ==
  ASSUME NoneIsApart, IInv, NEW e \in Experiments, stored[e] # None,
         stored[e].deleting \/ ~stored[e].finalizer, Store(e, None)
  PROVE  Lives
<1> DEFINE l == Shows(stored[e])
<1>1. /\ l # None
      /\ l = [phase |-> stored[e].status.phase, iteration |-> stored[e].status.iteration,
              finalizer |-> stored[e].finalizer, deleting |-> stored[e].deleting]
  BY ShowsObject
<1>2. life[e] = l /\ life' = [life EXCEPT ![e] = None]
  BY StoreLives DEF Shows
<1>3. l.deleting \/ ~l.finalizer
  BY <1>1
<1> HIDE DEF l
<1>4. Lifecycle!Go(e)
  BY <1>1, <1>2, <1>3 DEF Lifecycle!Go, Lifecycle!Exists, Lifecycle!Becomes
<1>5. QED
  BY <1>4 DEF Lives, Lifecycle!Next

LEMMA UnfinalizeLives ==
  ASSUME NoneIsApart, IInv, Unfinalize
  PROVE  Lives
<1> DEFINE i == [w.inst EXCEPT !.finalizer = FALSE]
<1>1. PICK outcome \in Outcomes : Update(outcome, i)
  BY DEF Unfinalize
<1>2. w.pc = "unfinalize" /\ w.pc # "idle"
  BY DEF Unfinalize, At
<1>3. Leaving(w, stored[w.e])
  BY <1>2 DEF IInv, WorkerInv
<1>4. i.deleting /\ ~i.finalizer
  BY <1>3 DEF Leaving, IsCopy, ObjectFields
<1>5. CASE outcome = "ok"
  <2>1. Store(w.e, None)
    BY <1>1, <1>4, <1>5 DEF Update
  <2>2. w.e \in Experiments /\ stored[w.e] # None /\ stored[w.e].deleting
    BY <1>2, <1>3, <1>5, OutcomeFresh, HereStored DEF Leaving, Saves
  <2>3. QED
    BY <2>1, <2>2, GoneLives
<1>6. CASE outcome # "ok"
  BY <1>1, <1>6, LifeKept DEF Update, apiVars
<1>7. QED
  BY <1>5, <1>6

LEMMA UserCreatesLives ==
  ASSUME NoneIsApart, IInv, NEW e \in Experiments, UserCreates(e)
  PROVE  Lives
<1> DEFINE new == NewObject(e)
<1>1. Store(e, new) /\ stored[e] = None
  BY DEF UserCreates, Edit, IInv, ObjectsInv
<1>2. /\ DOMAIN new = ObjectFields /\ new.status.phase = "" /\ new.status.iteration = 0
      /\ new.finalizer = FALSE /\ new.deleting = FALSE
  BY DEF NewObject, ObjectFields
<1> HIDE DEF new
<1>3. Shows(new) = Lifecycle!Newborn
  BY <1>2 DEF Shows, NoneIsApart, Lifecycle!Newborn
<1>4. life[e] = None /\ life' = [life EXCEPT ![e] = Lifecycle!Newborn]
  BY <1>1, <1>3, StoreLives DEF Shows
<1>5. Lifecycle!Create(e)
  BY <1>4 DEF Lifecycle!Create, Lifecycle!Exists, Lifecycle!Becomes
<1>6. QED
  BY <1>5 DEF Lives, Lifecycle!Next

LEMMA UserOverridesLives ==
  ASSUME NoneIsApart, IInv, NEW e \in Experiments, NEW o, UserOverridesTo(e, o)
  PROVE  Lives
<1> DEFINE new == [stored[e] EXCEPT !.spec.override = o]
<1>1. Store(e, new) /\ stored[e] # None /\ IsCopy(stored[e])
  BY DEF UserOverridesTo, Edit, IInv, ObjectsInv, Sound
<1>2. /\ DOMAIN new = ObjectFields /\ new.status = stored[e].status
      /\ new.finalizer = stored[e].finalizer /\ new.deleting = stored[e].deleting
  BY <1>1 DEF IsCopy, ObjectFields
<1> HIDE DEF new
<1>3. Shows(new) = Shows(stored[e])
  BY <1>1, <1>2 DEF Shows, NoneIsApart
<1>4. QED
  BY <1>1, <1>3, NothingNew

LEMMA UserDeletesLives ==
  ASSUME NoneIsApart, IInv, NEW e \in Experiments, UserDeletes(e)
  PROVE  Lives
<1> DEFINE o == stored[e]
           new == [o EXCEPT !.deleting = TRUE]
<1>1. o # None /\ IsCopy(o)
  BY DEF UserDeletes, IInv, ObjectsInv, Sound
<1>2. CASE ~o.finalizer
  <2>1. Store(e, None)
    BY <1>2 DEF UserDeletes, Edit
  <2>2. QED
    BY <1>1, <1>2, <2>1, GoneLives
<1>3. CASE o.finalizer
  <2>1. Store(e, new)
    BY <1>3 DEF UserDeletes, Edit
  <2>2. /\ DOMAIN new = ObjectFields /\ new.status = o.status
        /\ new.finalizer = o.finalizer /\ new.deleting = TRUE
    BY <1>1 DEF IsCopy, ObjectFields
  <2> HIDE DEF new, o
  <2> DEFINE l == Shows(o)
             n == Shows(new)
  <2>3. /\ l # None
        /\ l = [phase |-> o.status.phase, iteration |-> o.status.iteration,
                finalizer |-> o.finalizer, deleting |-> o.deleting]
    BY <1>1, ShowsObject
  <2>4. n = [phase |-> o.status.phase, iteration |-> o.status.iteration,
             finalizer |-> o.finalizer, deleting |-> TRUE]
    BY <2>2 DEF Shows, NoneIsApart
  <2>5. life[e] = l /\ life' = [life EXCEPT ![e] = n]
    BY <2>1, StoreLives DEF o
  <2> HIDE DEF l, n
  <2>6. n = [l EXCEPT !.deleting = TRUE]
    <3> DEFINE t == TRUE
    <3>1. n = [phase |-> o.status.phase, iteration |-> o.status.iteration,
               finalizer |-> o.finalizer, deleting |-> t]
      BY <2>4
    <3> HIDE DEF t
    <3>2. n = [l EXCEPT !.deleting = t]
      BY <2>3, <3>1
    <3>3. QED
      BY <3>2 DEF t
  <2>7. l.finalizer
    BY <1>3, <2>3
  <2>8. Lifecycle!Delete(e)
    BY <2>3, <2>5, <2>6, <2>7 DEF Lifecycle!Delete, Lifecycle!Exists, Lifecycle!Becomes
  <2>9. QED
    BY <2>8 DEF Lives, Lifecycle!Next
<1>4. QED
  BY <1>2, <1>3

LEMMA AgingLives ==
  ASSUME NoneIsApart, IInv, NEW e \in Experiments, IntervalElapses(e)
  PROVE  Lives
<1> DEFINE Age(o) == IF o # None /\ o.status.lastUpdate = "recent"
                       THEN [o EXCEPT !.status.lastUpdate = "past"] ELSE o
<1>1. stored' = [stored EXCEPT ![e] = Age(stored[e])]
  BY DEF IntervalElapses
<1>2. \A o : IsCopy(o) =>
        /\ DOMAIN Age(o) = ObjectFields
        /\ Age(o).status.phase = o.status.phase /\ Age(o).status.iteration = o.status.iteration
        /\ Age(o).finalizer = o.finalizer /\ Age(o).deleting = o.deleting
  BY DEF IsCopy, ObjectFields, StatusFields
<1>3. Age(None) = None
  OBVIOUS
<1> HIDE DEF Age
<1>4. \A o : o = None \/ IsCopy(o) => Shows(Age(o)) = Shows(o)
  <2> SUFFICES ASSUME NEW o, IsCopy(o), o # None PROVE Shows(Age(o)) = Shows(o)
    BY <1>3
  <2>1. Age(o) # None
    BY <1>2 DEF NoneIsApart
  <2>2. QED
    BY <1>2, <2>1 DEF Shows
<1>5. \A f \in Experiments : Shows(stored'[f]) = Shows(stored[f])
  BY <1>1, <1>4 DEF IInv, ObjectsInv, Sound
<1>6. life = [f \in Experiments |-> Shows(stored[f])]
  BY DEF life, Shows
<1>7. life' = [f \in Experiments |-> Shows(stored'[f])]
  BY DEF life, Shows
<1>8. QED
  BY <1>5, <1>6, <1>7 DEF Lives

LEMMA StepLives ==
  ASSUME NoneIsApart, IInv, [Next]_vars PROVE Lives
<1>1. CASE \/ NotFound \/ StartFinalize \/ SkipCompleted \/ Reject \/ Begin
           \/ UseRules \/ RefuseRules \/ DetectTargets \/ UpdateBaselineDR \/ UpdateBaselineVS
           \/ MissingCandidate \/ UpdateCandidatesDR \/ UpdateCandidatesVS
  BY <1>1, LifeKept
  DEF NotFound, StartFinalize, SkipCompleted, Reject, Begin, Restart, UseRules, RefuseRules,
      DetectTargets, UpdateBaselineDR, UpdateBaselineVS, MissingCandidate, UpdateCandidatesDR,
      UpdateCandidatesVS, WriteDR, WriteVS, apiVars
<1>2. CASE \/ IterateWithoutCriteria \/ AnalyticsFails
           \/ \E r \in Responses : Abort(r) \/ FollowRecommendation(r)
           \/ SplitWithoutRules \/ UpdateTrafficSplit
           \/ Complete \/ CleanupTargets \/ CleanupDR \/ CleanupVS
  BY <1>2, LifeKept
  DEF IterateWithoutCriteria, AnalyticsFails, Abort, FollowRecommendation, SplitWithoutRules,
      UpdateTrafficSplit, Complete, CleanupTargets, CleanupDR, CleanupVS, apiVars
<1>3. CASE \/ SaveInitStatus \/ AddFinalizer \/ SavePause \/ SaveResume
           \/ MetricsUnreadable \/ SyncMetrics \/ End \/ Unfinalize
  BY <1>3, SaveInitStatusLives, AddFinalizerLives, StatusesLive, UpdatesLive,
     MetricsUnreadableLives, UnfinalizeLives
<1>4. CASE \/ \E e \in Experiments : Fetch(e) \/ Deliver(e) \/ TimerFires(e)
           \/ \E t \in Targets :
                HandleTargetEvent(t) \/ EnqueueOwner(t) \/ UserCreatesTarget(t) \/ UserDeletesTarget(t)
           \/ Crash \/ UNCHANGED vars
  BY <1>4, LifeKept
  DEF Fetch, Deliver, TimerFires, HandleTargetEvent, EnqueueOwner, UserCreatesTarget,
      UserDeletesTarget, Crash, Restart, vars, apiVars
<1>5. CASE \E e \in Experiments :
             \/ UserCreates(e) \/ UserDeletes(e) \/ \E o \in UserOverrides : UserOverridesTo(e, o)
             \/ IntervalElapses(e)
  BY <1>5, UserCreatesLives, UserDeletesLives, UserOverridesLives, AgingLives
<1>6. QED
  BY <1>1, <1>2, <1>3, <1>4, <1>5 DEF Next, Reconcile, Environment

LEMMA InitLives ==
  ASSUME Init PROVE Lifecycle!Init
  BY DEF Init, life, Lifecycle!Init

(***************************************************************************)
(* The reconciler, with its users, its caches, its failing calls and its   *)
(* crashes, implements ExperimentLifecycle, provided that None, which      *)
(* stands for no object, is none.                                          *)
(***************************************************************************)
THEOREM LifecycleImplemented ==
  ASSUME NoneIsApart
  PROVE  Spec => ImplementsLifecycle
<1>1. IInv /\ [Next]_vars => [Lifecycle!Next]_life
  BY StepLives DEF Lives
<1>2. Init => Lifecycle!Init
  BY InitLives
<1>3. QED
  BY <1>1, <1>2, Inductive, PTL DEF Spec, ImplementsLifecycle, Lifecycle!Spec

(***************************************************************************)
(* Proof that a pause holds, for any experiments, targets, answers, edits  *)
(* and bounds.  Beyond the invariant of ReconcilerProofs it takes that a   *)
(* worker that has passed proceed and may still save its copy works for an *)
(* object that does not ask for a pause, unless it was told to terminate.  *)
(* Until proceed the copy's override is the stored one; a worker there is  *)
(* stopped by proceed itself, and one beyond it loses its copy to the edit *)
(* that asks for the pause.                                                *)
(***************************************************************************)

ResumedPcs == {"resumeSave", "metrics"}
UnpausedPcs == ResumedPcs \cup RulePcs \cup CleanupPcs \cup {"iterate", "split", "complete"}

Unpaused(x, o) == Saves(x, o) /\ ~x.terminate /\ ~x.inst.deleting => ~Pausing(o)

PauseInv(x, o) ==
  /\ x.pc \in OpenPcs /\ Saves(x, o) => o.spec.override = x.inst.spec.override
  /\ x.pc \in ResumedPcs => ~Pausing(x.inst)
  /\ x.pc \in UnpausedPcs => Unpaused(x, o)

PausedInv == w.pc # "idle" => PauseInv(w, stored[w.e])

-----------------------------------------------------------------------------
(* Steps on the worker's copy.                                             *)

Shaped(x) == DOMAIN x = WorkerFields /\ DOMAIN x.inst = ObjectFields

\* As likely to be saved, as terminated and as deleted as before.
Keeps(x, y) ==
  /\ Shaped(y)
  /\ y.e = x.e /\ y.fresh = x.fresh /\ y.terminate = x.terminate
  /\ y.inst.deleting = x.inst.deleting

\* ... and beyond proceed and syncMetrics.
Advances(x, y) == Keeps(x, y) /\ y.pc \notin OpenPcs \cup ResumedPcs

LEMMA KeepsOn ==
  ASSUME NEW x, NEW y, NEW z, Keeps(x, y)
  PROVE  /\ Keeps(y, z) => Keeps(x, z)
         /\ Advances(y, z) => Advances(x, z)
         /\ Shaped(y)
  BY DEF Keeps, Advances

LEMMA MarksKeep ==
  ASSUME NEW x, Shaped(x), NEW tag
  PROVE  /\ Keeps(x, MarkTargetsError(x, tag))
         /\ Keeps(x, MarkTargetsFound(x))
         /\ Keeps(x, MarkRoutingRulesError(x, tag))
         /\ Keeps(x, MarkRoutingRulesReady(x))
         /\ Keeps(x, MarkAnalyticsServiceError(x))
         /\ Keeps(x, MarkAnalyticsServiceRunning(x))
         /\ Keeps(x, MarkSyncMetrics(x))
<1> USE DEF Keeps, Shaped, WorkerFields, ObjectFields
<1>1. Keeps(x, MarkTargetsError(x, tag)) BY DEF MarkTargetsError
<1>2. Keeps(x, MarkTargetsFound(x)) BY DEF MarkTargetsFound
<1>3. Keeps(x, MarkRoutingRulesError(x, tag)) BY DEF MarkRoutingRulesError
<1>4. Keeps(x, MarkRoutingRulesReady(x)) BY DEF MarkRoutingRulesReady
<1>5. Keeps(x, MarkAnalyticsServiceError(x)) BY DEF MarkAnalyticsServiceError
<1>6. Keeps(x, MarkAnalyticsServiceRunning(x)) BY DEF MarkAnalyticsServiceRunning
<1>7. Keeps(x, MarkSyncMetrics(x)) BY DEF MarkSyncMetrics
<1>8. QED BY <1>1, <1>2, <1>3, <1>4, <1>5, <1>6, <1>7

LEMMA PhasesKeep ==
  ASSUME NEW x, Shaped(x)
  PROVE  /\ Keeps(x, MarkAssessmentUpdate(x))
         /\ Keeps(x, MarkIterationUpdate(x))
         /\ Keeps(x, MarkExperimentCompleted(x))
<1>1. \A phase : Keeps(x, MarkPhase(x, phase))
  BY ZenonT(60) DEF MarkPhase, Keeps, Shaped, WorkerFields, ObjectFields
<1>2. \A y, b : Keeps(x, y) => Keeps(x, [y EXCEPT !.progress = b])
  BY DEF Keeps, Shaped, WorkerFields
<1>3. QED
  BY <1>1, <1>2 DEF MarkAssessmentUpdate, MarkIterationUpdate, MarkExperimentCompleted

\* What iterations and completions set in the copy.
LEMMA FieldsKeep ==
  ASSUME NEW x, NEW y, Keeps(x, y), NEW f
  PROVE  /\ Keeps(x, [y EXCEPT !.inst.status.weights = f])
         /\ Keeps(x, [y EXCEPT !.inst.status.weights[0] = f])
         /\ Keeps(x, [y EXCEPT !.inst.status.winner = f])
         /\ Keeps(x, [y EXCEPT !.taken = f])
  BY DEF Keeps, Shaped, WorkerFields, ObjectFields

LaterPcs == {"detect", "baselineDR", "baselineVS", "candidates", "candidatesVS", "iterate", "split",
             "complete", "cleanupTargets", "cleanupDR", "cleanupVS", "abandonTargets", "end",
             "unfinalize", "rules"}

LEMMA GotoAdvances ==
  ASSUME NEW x, NEW y, Keeps(x, y), NEW pc \in LaterPcs
  PROVE  Advances(x, Goto(y, pc))
  BY GotoKeeps
  DEF Keeps, Shaped, Advances, Goto, WorkerFields, LaterPcs, OpenPcs, ResumedPcs

LEMMA PlacesAdvance ==
  ASSUME NEW x, NEW y, Keeps(x, y)
  PROVE  /\ Advances(x, AfterUpdate(y))
         /\ Advances(x, AfterTargets(y))
         /\ Advances(x, AfterRules(y))
<1>1. \A pc \in LaterPcs : Advances(x, Goto(y, pc))
  BY GotoAdvances
<1>2. Advances(x, AfterUpdate(y))
  BY <1>1 DEF AfterUpdate, LaterPcs
<1>3. Advances(x, AfterTargets(y))
  BY <1>1, <1>2 DEF AfterTargets, LaterPcs
<1>4. Advances(x, AfterRules(y))
  BY <1>1, <1>3 DEF AfterRules, LaterPcs
<1>5. QED BY <1>2, <1>3, <1>4

LEMMA IteratedAdvances ==
  ASSUME NEW x, NEW y, Keeps(x, y)
  PROVE  Advances(x, Iterated(y))
<1> DEFINE m == MarkIterationUpdate(y)
           z == [m EXCEPT !.inst.status.lastUpdate = "recent",
                          !.inst.status.iteration = @ + 1]
<1>1. Keeps(x, m)
  BY PhasesKeep, KeepsOn
<1> HIDE DEF m
<1>2. Keeps(x, z)
  BY <1>1 DEF Keeps, Shaped, WorkerFields, ObjectFields
<1>3. Iterated(y) = AfterUpdate(z)
  BY DEF Iterated, m
<1> HIDE DEF z
<1>4. QED
  BY <1>2, <1>3, PlacesAdvance

-----------------------------------------------------------------------------
(* Where the worker is after a step.                                       *)

LEMMA Elsewhere ==
  ASSUME NEW x, NEW o, x.pc \notin OpenPcs \cup UnpausedPcs
  PROVE  PauseInv(x, o)
  BY DEF PauseInv, UnpausedPcs

\* A worker beyond proceed that writes no object stays unpaused.
LEMMA AdvancesUnpaused ==
  ASSUME PausedInv, w.pc \in UnpausedPcs, stored' = stored, Advances(w, w')
  PROVE  PausedInv'
<1>1. w.pc # "idle"
  BY DEF UnpausedPcs, ResumedPcs, RulePcs, CleanupPcs
<1>2. Unpaused(w, stored[w.e])
  BY <1>1 DEF PausedInv, PauseInv
<1>3. Unpaused(w', stored[w.e])
  BY <1>2 DEF Unpaused, Advances, Keeps, Saves
<1>4. QED
  BY <1>3 DEF PausedInv, PauseInv, Advances, Keeps

LEMMA GoneElsewhere ==
  ASSUME w'.pc \notin OpenPcs \cup UnpausedPcs
  PROVE  PausedInv'
  BY Elsewhere DEF PausedInv

LEMMA NowIdle ==
  ASSUME w' = Idle PROVE PausedInv'
  BY DEF PausedInv, Idle

LEMMA HereShaped ==
  ASSUME IInv, w.pc \in UnpausedPcs
  PROVE  Shaped(w) /\ Keeps(w, w) /\ IsCopy(w.inst) /\ w.pc # "idle"
<1>1. Working(w) /\ w.pc # "idle"
  BY HereReady, HereCloses DEF UnpausedPcs, ResumedPcs, UserPcs
<1>2. QED
  BY <1>1 DEF Working, IsCopy, Shaped, Keeps

-----------------------------------------------------------------------------
(* Beyond proceed.                                                         *)

LEMMA RulesUnpaused ==
  ASSUME IInv, PausedInv,
         \/ UseRules \/ RefuseRules \/ DetectTargets \/ MissingCandidate
         \/ UpdateBaselineDR \/ UpdateBaselineVS \/ UpdateCandidatesDR \/ UpdateCandidatesVS
  PROVE  PausedInv'
<1>1. w.pc \in UnpausedPcs /\ stored' = stored
  BY DEF UseRules, RefuseRules, DetectTargets, MissingCandidate, UpdateBaselineDR,
         UpdateBaselineVS, UpdateCandidatesDR, UpdateCandidatesVS, WriteDR, WriteVS, At, apiVars,
         UnpausedPcs, RulePcs
<1>2. Shaped(w) /\ Keeps(w, w)
  BY <1>1, HereShaped
<1>3. /\ \A tag : Keeps(w, MarkTargetsError(w, tag)) /\ Keeps(w, MarkRoutingRulesError(w, tag))
      /\ Keeps(w, MarkTargetsFound(w)) /\ Keeps(w, MarkRoutingRulesReady(w))
      /\ Keeps(w, [w EXCEPT !.inst.status.weights[0] = 100])
  BY <1>2, MarksKeep, FieldsKeep
<1>4. \A tag : Keeps(w, [MarkRoutingRulesError(w, tag) EXCEPT !.taken = FALSE])
  BY <1>3, FieldsKeep
<1>5. \A y, pc : Keeps(w, y) /\ pc \in LaterPcs => Advances(w, Goto(y, pc))
  BY GotoAdvances
<1>6. CASE UseRules
  BY <1>1, <1>3, <1>6, PlacesAdvance, AdvancesUnpaused DEF UseRules
<1>7. CASE RefuseRules
  BY <1>1, <1>4, <1>5, <1>7, AdvancesUnpaused DEF RefuseRules, LaterPcs
<1>8. CASE DetectTargets
  BY <1>1, <1>2, <1>3, <1>5, <1>8, PlacesAdvance, AdvancesUnpaused DEF DetectTargets, LaterPcs
<1>9. CASE MissingCandidate
  BY <1>1, <1>3, <1>5, <1>9, AdvancesUnpaused DEF MissingCandidate, LaterPcs
<1>10. CASE UpdateBaselineDR \/ UpdateCandidatesDR
  BY <1>1, <1>2, <1>3, <1>5, <1>10, AdvancesUnpaused
  DEF UpdateBaselineDR, UpdateCandidatesDR, WriteDR, LaterPcs
<1>11. CASE UpdateBaselineVS \/ UpdateCandidatesVS
  BY <1>1, <1>3, <1>5, <1>11, PlacesAdvance, AdvancesUnpaused
  DEF UpdateBaselineVS, UpdateCandidatesVS, WriteVS, LaterPcs
<1>12. QED
  BY <1>6, <1>7, <1>8, <1>9, <1>10, <1>11

LEMMA AbortUnpaused ==
  ASSUME IInv, PausedInv, NEW r \in Responses, Abort(r)
  PROVE  PausedInv'
<1> DEFINE i == OverrideAssessment([w.inst EXCEPT !.spec.override = Terminate(NoSplit)])
           x == [w EXCEPT !.inst = i]
<1>1. w.pc \in UnpausedPcs /\ stored' = stored
  BY DEF Abort, At, apiVars, UnpausedPcs
<1>2. Shaped(w) /\ IsCopy(w.inst)
  BY <1>1, HereShaped
<1>3. w' = AfterUpdate(x)
  BY DEF Abort
<1>4. Same(w.inst, i)
  BY <1>2, TerminateKeeps
<1> HIDE DEF i
<1>5. Keeps(w, x)
  BY <1>2, <1>4 DEF Keeps, Shaped, Same, IsCopy, WorkerFields
<1> HIDE DEF x
<1>6. QED
  BY <1>1, <1>3, <1>5, PlacesAdvance, AdvancesUnpaused

LEMMA FollowsUnpaused ==
  ASSUME IInv, PausedInv, NEW r \in Responses, FollowRecommendation(r)
  PROVE  PausedInv'
<1> DEFINE n == [w EXCEPT !.inst.status.winner = r.winner]
           m == MarkAssessmentUpdate(n)
           X(f) == [m EXCEPT !.inst.status.weights = f]
<1>1. w.pc \in UnpausedPcs /\ stored' = stored
  BY DEF FollowRecommendation, At, apiVars, UnpausedPcs
<1>2. \E f : \/ w' = Goto(MarkAnalyticsServiceError(X(f)), "end")
             \/ w' = Goto(MarkAnalyticsServiceRunning(X(f)), "split")
             \/ w' = Iterated(MarkAnalyticsServiceRunning(X(f)))
  BY DEF FollowRecommendation
<1>3. Keeps(w, n)
  BY <1>1, HereShaped, FieldsKeep
<1> HIDE DEF n
<1>4. Keeps(w, m)
  BY <1>3, PhasesKeep, KeepsOn
<1> HIDE DEF m
<1>5. PICK f : \/ w' = Goto(MarkAnalyticsServiceError(X(f)), "end")
               \/ w' = Goto(MarkAnalyticsServiceRunning(X(f)), "split")
               \/ w' = Iterated(MarkAnalyticsServiceRunning(X(f)))
  BY <1>2
<1> DEFINE x == X(f)
<1>6. Keeps(w, x)
  BY <1>4, FieldsKeep
<1> HIDE DEF x
<1>7. Keeps(w, MarkAnalyticsServiceError(x)) /\ Keeps(w, MarkAnalyticsServiceRunning(x))
  BY <1>6, MarksKeep, KeepsOn
<1>8. \/ w' = Goto(MarkAnalyticsServiceError(x), "end")
      \/ w' = Goto(MarkAnalyticsServiceRunning(x), "split")
      \/ w' = Iterated(MarkAnalyticsServiceRunning(x))
  BY <1>5 DEF x
<1>9. QED
  BY <1>1, <1>7, <1>8, GotoAdvances, IteratedAdvances, AdvancesUnpaused DEF LaterPcs

LEMMA IterationsUnpaused ==
  ASSUME IInv, PausedInv,
         IterateWithoutCriteria \/ AnalyticsFails \/ SplitWithoutRules \/ UpdateTrafficSplit
  PROVE  PausedInv'
<1>1. w.pc \in UnpausedPcs /\ stored' = stored
  BY DEF IterateWithoutCriteria, AnalyticsFails, SplitWithoutRules, UpdateTrafficSplit, At,
         apiVars, UnpausedPcs
<1>2. Shaped(w) /\ Keeps(w, w)
  BY <1>1, HereShaped
<1>3. CASE IterateWithoutCriteria
  <2>1. \/ \E f : w' = Goto([w EXCEPT !.inst.status.weights = f], "split")
        \/ w' = Iterated(w)
    BY <1>3 DEF IterateWithoutCriteria
  <2>2. QED
    BY <1>1, <1>2, <2>1, FieldsKeep, GotoAdvances, IteratedAdvances, AdvancesUnpaused DEF LaterPcs
<1>4. CASE AnalyticsFails \/ SplitWithoutRules
  BY <1>1, <1>2, <1>4, MarksKeep, GotoAdvances, AdvancesUnpaused
  DEF AnalyticsFails, SplitWithoutRules, LaterPcs
<1>5. CASE UpdateTrafficSplit
  <2>1. \/ w' = Iterated(MarkAssessmentUpdate(w))
        \/ w' = Goto(MarkRoutingRulesError(w, "SplitError"), "end")
    BY <1>5 DEF UpdateTrafficSplit
  <2>2. QED
    BY <1>1, <1>2, <2>1, MarksKeep, PhasesKeep, GotoAdvances, IteratedAdvances, AdvancesUnpaused
    DEF LaterPcs
<1>6. QED
  BY <1>3, <1>4, <1>5

LEMMA CompletionsUnpaused ==
  ASSUME IInv, PausedInv, Complete \/ CleanupTargets \/ CleanupDR \/ CleanupVS
  PROVE  PausedInv'
<1>1. stored' = stored
  BY DEF Complete, CleanupTargets, CleanupDR, CleanupVS, apiVars
<1>2. CASE w.pc = "abandonTargets"
  <2>1. w' = Goto(w, "end") /\ DOMAIN w = WorkerFields
    BY <1>2 DEF Complete, CleanupTargets, CleanupDR, CleanupVS, At, IInv, WorkerInv
  <2>2. w'.pc = "end"
    BY <2>1, GotoKeeps
  <2>3. QED
    BY <2>2, GoneElsewhere DEF OpenPcs, UnpausedPcs, ResumedPcs, RulePcs, CleanupPcs
<1>3. CASE w.pc # "abandonTargets"
  <2>1. w.pc \in UnpausedPcs
    BY <1>3 DEF Complete, CleanupTargets, CleanupDR, CleanupVS, At, UnpausedPcs, CleanupPcs
  <2>2. Shaped(w) /\ Keeps(w, w)
    BY <2>1, HereShaped
  <2>3. Keeps(w, [w EXCEPT !.taken = FALSE]) /\ Keeps(w, MarkExperimentCompleted(w))
    BY <2>2, FieldsKeep, PhasesKeep
  <2>4. \/ w' = Idle
        \/ \E y, pc : Keeps(w, y) /\ pc \in LaterPcs /\ w' = Goto(y, pc)
    <3>1. CASE Complete
      BY <2>3, <3>1 DEF Complete, LaterPcs
    <3>2. CASE CleanupTargets
      BY <2>2, <3>2 DEF CleanupTargets, LaterPcs
    <3>3. CASE CleanupDR
      BY <2>2, <3>3 DEF CleanupDR, CleanupFails, LaterPcs
    <3>4. CASE CleanupVS
      BY <2>2, <2>3, <3>4 DEF CleanupVS, CleanupFails, LaterPcs
    <3>5. QED BY <3>1, <3>2, <3>3, <3>4
  <2>5. QED
    BY <1>1, <2>1, <2>4, GotoAdvances, AdvancesUnpaused, NowIdle
<1>4. QED
  BY <1>2, <1>3

-----------------------------------------------------------------------------
(* Up to proceed.                                                          *)

LEMMA FetchUnpaused ==
  ASSUME IInv, NEW e \in Experiments, Fetch(e)
  PROVE  PausedInv'
<1> DEFINE o == cached[e]
           next == CASE o = None -> "notFound"
                     [] o # None /\ ~o.status.initialized -> "init"
                     [] o # None /\ o.status.initialized /\ ~o.finalizer -> "finalizer"
                     [] OTHER -> "dispatch"
           X(b) == [Idle EXCEPT !.e = e, !.inst = o, !.fresh = b, !.taken = TRUE]
<1>1. w' = Goto(X(e \in current), next) /\ stored' = stored
  BY DEF Fetch, apiVars
<1>2. next \in EarlyPcs
  BY DEF EarlyPcs
<1> HIDE DEF next
<1>3. \A b : /\ DOMAIN X(b) = WorkerFields /\ X(b).e = e /\ X(b).inst = o /\ X(b).fresh = b
  BY DEF Idle, WorkerFields
<1> HIDE DEF X
<1>4. w'.pc = next /\ w'.e = e /\ w'.inst = o /\ w'.fresh = (e \in current)
  BY <1>1, <1>3, GotoKeeps
<1>5. w'.fresh => o = stored[e]
  BY <1>4 DEF IInv, ObjectsInv
<1>6. PauseInv(w', stored[e])
  BY <1>2, <1>4, <1>5
  DEF PauseInv, Saves, EarlyPcs, OpenPcs, UnpausedPcs, ResumedPcs, RulePcs, CleanupPcs
<1>7. QED
  BY <1>1, <1>4, <1>6 DEF PausedInv

\* A write of the worker to its object.
LEMMA StoreHere ==
  ASSUME IInv, w.pc # "idle", NEW new, Store(w.e, new)
  PROVE  stored'[w.e] = new
  BY DEF IInv, WorkerInv, ObjectsInv, Store

LEMMA InitUnpaused ==
  ASSUME IInv, PausedInv, SaveInitStatus
  PROVE  PausedInv'
<1> DEFINE i == InitStatus(w.inst)
           x == [w EXCEPT !.inst = i]
           o == stored[w.e]
           new == [o EXCEPT !.status = x.inst.status]
           next == IF x.inst.finalizer THEN "dispatch" ELSE "finalizer"
<1>1. PICK outcome \in Outcomes :
        /\ IF outcome = "ok" THEN Store(w.e, new) ELSE UNCHANGED apiVars
        /\ w' = IF outcome = "failed" THEN Idle ELSE Goto(x, next)
  BY DEF SaveInitStatus
<1>2. w.pc = "init" /\ w.pc # "idle"
  BY DEF SaveInitStatus, At
<1>3. DOMAIN w = WorkerFields /\ IsCopy(w.inst)
  BY <1>2, HereOpened DEF OpenPcs, Opened, Sound
<1>4. i.spec = w.inst.spec
  BY <1>3 DEF InitStatus, IsCopy, ObjectFields
<1>5. next \in OpenPcs
  BY DEF OpenPcs
<1> HIDE DEF i, next
<1>6. DOMAIN x = WorkerFields /\ x.inst = i /\ x.e = w.e /\ x.fresh = w.fresh
  BY <1>3, InstChanged
<1>7. Saves(w, o) => o.spec.override = w.inst.spec.override
  BY <1>2 DEF PausedInv, PauseInv, OpenPcs
<1>8. CASE outcome = "failed"
  BY <1>1, <1>8, NowIdle
<1>9. CASE outcome # "failed"
  <2>1. w' = Goto(x, next)
    BY <1>1, <1>9
  <2>2. outcome = "ok" => stored'[w.e] = new /\ Saves(w, o) /\ new.spec = o.spec
    BY <1>1, <1>2, OutcomeFresh, StoreHere, HereStored DEF Saves, Sound, IsCopy, ObjectFields
  <2> HIDE DEF x, new
  <2>3. w'.pc = next /\ w'.e = w.e /\ w'.inst = i /\ w'.fresh = w.fresh
    BY <1>6, <2>1, GotoKeeps
  <2>4. Saves(w', stored'[w.e]) => stored'[w.e].spec.override = w'.inst.spec.override
    BY <1>4, <1>7, <1>9, <2>2, <2>3, OutcomeFresh DEF Saves
  <2>5. QED
    BY <1>5, <2>3, <2>4
    DEF PausedInv, PauseInv, OpenPcs, UnpausedPcs, ResumedPcs, RulePcs, CleanupPcs
<1>10. QED
  BY <1>8, <1>9

(***************************************************************************)
(* An update by the worker that keeps the finalizer: the stored spec is    *)
(* the copy's, unless the copy was stale.                                  *)
(***************************************************************************)
LEMMA SpecWritten ==
  ASSUME IInv, w.pc # "idle", DOMAIN w = WorkerFields, NEW outcome \in Outcomes \ {"failed"}, NEW i,
         Update(outcome, i), IsCopy(i), i.finalizer
  PROVE  LET x == [w EXCEPT !.inst = Overlay(outcome, i)] IN
         /\ Shaped(x) /\ x.e = w.e /\ x.fresh = w.fresh /\ x.terminate = w.terminate
         /\ x.inst.spec = i.spec /\ x.inst.deleting = i.deleting
         /\ Saves(x, stored'[w.e]) => stored'[w.e].spec = i.spec
<1> DEFINE p == Overlay(outcome, i)
           x == [w EXCEPT !.inst = p]
           new == [stored[w.e] EXCEPT !.spec = i.spec, !.finalizer = i.finalizer]
<1>1. IsCopy(p) /\ p.spec = i.spec /\ p.deleting = i.deleting
  <2>1. CASE outcome = "ok"
    <3>1. IsCopy(stored[w.e])
      BY <2>1, OutcomeFresh, HereStored DEF Sound
    <3>2. QED
      BY <2>1, <3>1, OverlaySame
  <2>2. CASE outcome # "ok"
    BY <2>2, OverlayElse
  <2>3. QED BY <2>1, <2>2
<1> HIDE DEF p
<1>2. /\ DOMAIN x = WorkerFields /\ x.e = w.e /\ x.fresh = w.fresh
      /\ x.terminate = w.terminate /\ x.inst = p
  BY DEF WorkerFields
<1> HIDE DEF x
<1>3. CASE outcome = "ok"
  <2>1. Store(w.e, new)
    BY <1>3 DEF Update
  <2>2. IsCopy(stored[w.e])
    BY <1>3, OutcomeFresh, HereStored DEF Sound
  <2>3. new.spec = i.spec
    BY <2>2 DEF IsCopy, ObjectFields
  <2> HIDE DEF new
  <2>4. stored'[w.e].spec = i.spec
    BY <2>1, <2>3, StoreHere
  <2>5. QED
    BY <1>1, <1>2, <2>4 DEF Shaped, IsCopy, p, x
<1>4. CASE outcome = "conflict"
  <2>1. ~Saves(x, stored'[w.e])
    BY <1>2, <1>4, OutcomeFresh DEF Saves
  <2>2. QED
    BY <1>1, <1>2, <2>1 DEF Shaped, IsCopy, p, x
<1>5. QED
  BY <1>3, <1>4, OutcomeFresh

LEMMA FinalizerUnpaused ==
  ASSUME IInv, AddFinalizer
  PROVE  PausedInv'
<1> DEFINE i == [w.inst EXCEPT !.finalizer = TRUE]
           X(outcome) == [w EXCEPT !.inst = Overlay(outcome, i)]
<1>1. PICK outcome \in Outcomes :
        /\ Update(outcome, i)
        /\ w' = IF outcome = "failed" THEN Idle ELSE Goto(X(outcome), "dispatch")
  BY DEF AddFinalizer
<1>2. w.pc = "finalizer" /\ w.pc # "idle"
  BY DEF AddFinalizer, At
<1>3. DOMAIN w = WorkerFields /\ IsCopy(w.inst)
  BY <1>2, HereOpened DEF OpenPcs, Opened, Sound
<1>4. IsCopy(i) /\ i.finalizer
  BY <1>3 DEF IsCopy, ObjectFields
<1> HIDE DEF i
<1>5. CASE outcome = "failed"
  BY <1>1, <1>5, NowIdle
<1>6. CASE outcome # "failed"
  <2> DEFINE x == X(outcome)
  <2>1. /\ Shaped(x) /\ x.e = w.e /\ x.inst.spec = i.spec
        /\ Saves(x, stored'[w.e]) => stored'[w.e].spec = i.spec
    BY <1>1, <1>2, <1>3, <1>4, <1>6, SpecWritten
  <2>2. w' = Goto(x, "dispatch")
    BY <1>1, <1>6
  <2> HIDE DEF x
  <2>3. w'.pc = "dispatch" /\ w'.e = w.e /\ w'.inst = x.inst /\ w'.fresh = x.fresh
    BY <2>1, <2>2, GotoKeeps DEF Shaped
  <2>4. Saves(w', stored'[w.e]) => stored'[w.e].spec.override = w'.inst.spec.override
    BY <2>1, <2>3 DEF Saves
  <2>5. QED
    BY <2>3, <2>4
    DEF PausedInv, PauseInv, OpenPcs, UnpausedPcs, ResumedPcs, RulePcs, CleanupPcs
<1>7. QED
  BY <1>5, <1>6

\* An experiment that is being deleted is terminated whatever it asks for.
LEMMA FinalizeUnpaused ==
  ASSUME IInv, StartFinalize
  PROVE  PausedInv'
<1> DEFINE i == OverrideAssessment([w.inst EXCEPT !.spec.override = Terminate(NoSplit)])
           x == [w EXCEPT !.inst = i]
           y == [w EXCEPT !.taken = FALSE]
<1>1. w.pc = "dispatch" /\ w.inst.deleting
  BY DEF StartFinalize, At
<1>2. DOMAIN w = WorkerFields /\ IsCopy(w.inst)
  BY <1>1, HereDispatch
<1>3. w' = Goto(y, "unfinalize") \/ w' = Goto(x, "rules")
  BY DEF StartFinalize
<1>4. Same(w.inst, i)
  BY <1>2, TerminateKeeps
<1> HIDE DEF i
<1>5. DOMAIN x = WorkerFields /\ x.inst = i /\ x.e = w.e
  BY <1>2, InstChanged
<1>6. DOMAIN y = WorkerFields
  BY <1>2
<1> HIDE DEF x, y
<1>7. CASE w' = Goto(y, "unfinalize")
  <2>1. w'.pc = "unfinalize"
    BY <1>6, <1>7, GotoKeeps
  <2>2. QED
    BY <2>1, GoneElsewhere DEF OpenPcs, UnpausedPcs, ResumedPcs, RulePcs, CleanupPcs
<1>8. CASE w' = Goto(x, "rules")
  <2>1. w'.pc = "rules" /\ w'.inst.deleting
    BY <1>1, <1>4, <1>5, <1>8, GotoKeeps DEF Same
  <2>2. QED
    BY <2>1 DEF PausedInv, PauseInv, Unpaused, OpenPcs, ResumedPcs
<1>9. QED
  BY <1>3, <1>7, <1>8

(***************************************************************************)
(* proceed lets a copy pass that asks for no pause.  What the snapshot     *)
(* changes in the override before that is a termination.                   *)
(***************************************************************************)
LEMMA SyncKeeps ==
  ASSUME NEW x, NEW ea, Shaped(x), IsCopy(x.inst)
  PROVE  LET y == SyncExperiment(x, ea) IN
         /\ Keeps(x, y)
         /\ ea.action # "terminate" => y.inst.spec.override = x.inst.spec.override
<1>1. CASE Terminating(x.inst)
  <2> DEFINE i == OverrideAssessment(x.inst)
  <2>1. Same(x.inst, i) /\ i.spec.override = x.inst.spec.override
    BY OverrideKeeps
  <2>2. SyncExperiment(x, ea) = [x EXCEPT !.inst = i]
    BY <1>1 DEF SyncExperiment
  <2> HIDE DEF i
  <2>3. QED
    BY <2>1, <2>2 DEF Keeps, Shaped, Same, IsCopy, WorkerFields
<1>2. CASE ~Terminating(x.inst) /\ ea.action = "terminate"
  <2> DEFINE i == OverrideAssessment(OnDeletedTarget(x.inst, ea.deletedRole))
             y == [x EXCEPT !.inst = i]
  <2>1. Same(x.inst, i)
    BY TerminateKeeps DEF OnDeletedTarget
  <2>2. SyncExperiment(x, ea) = MarkTargetsError(y, "Lost")
    BY <1>2 DEF SyncExperiment
  <2> HIDE DEF i
  <2>3. Keeps(x, y)
    BY <2>1 DEF Keeps, Shaped, Same, IsCopy, WorkerFields
  <2> HIDE DEF y
  <2>4. Keeps(x, MarkTargetsError(y, "Lost"))
    BY <2>3, MarksKeep, KeepsOn
  <2>5. QED
    BY <1>2, <2>2, <2>4
<1>3. CASE ~Terminating(x.inst) /\ ea.action = "resume"
  <2> DEFINE y == [x EXCEPT !.inst.status.phase = "Progressing"]
  <2>1. Keeps(x, y) /\ y.inst.spec = x.inst.spec
    BY DEF Keeps, Shaped, WorkerFields, ObjectFields
  <2>2. ~(~Terminating(x.inst) /\ ea.action = "terminate")
    BY <1>3
  <2>3. SyncExperiment(x, ea) = y
    BY <1>3, <2>2 DEF SyncExperiment
  <2>4. QED
    BY <2>1, <2>3
<1>4. CASE ~Terminating(x.inst) /\ ea.action \notin {"terminate", "resume"}
  BY <1>4 DEF SyncExperiment, Keeps
<1>5. QED
  BY <1>1, <1>2, <1>3, <1>4

LEMMA NotPausing ==
  ASSUME NEW i
  PROVE  /\ Terminating(i) => ~Pausing(i)
         /\ Resuming(i) => ~Pausing(i)
         /\ i.spec.override = None => ~Pausing(i)
  BY DEF Terminating, Resuming, Pausing

LEMMA ProceedPlaces ==
  ASSUME NEW x, Shaped(x), IsCopy(x.inst)
  PROVE  LET y == Proceed(x) IN
         \/ y.pc \in {"idle", "pauseSave"}
         \/ /\ y.pc \in {"resumeSave", "metrics", "rules"}
            /\ ~Pausing(x.inst) /\ ~Pausing(y.inst) /\ Keeps(x, y)
<1> DEFINE m == MarkActionPause(x)
           r == MarkActionResume(x)
           c == [r EXCEPT !.inst.spec.override = None]
<1>1. Keeps(x, m)
  BY DEF MarkActionPause, MarkPhase, Keeps, Shaped, WorkerFields, ObjectFields
<1>2. Keeps(x, r) /\ r.inst.spec = x.inst.spec
  BY DEF MarkActionResume, MarkPhase, Keeps, Shaped, WorkerFields, ObjectFields
<1>3. Proceed(x) = Goto(m, "pauseSave") \/ Proceed(x) = Idle
      \/ /\ ~Pausing(x.inst)
         /\ Proceed(x) \in {AfterProceed(x), AfterProceed(r), Goto(c, "resumeSave")}
  BY NotPausing DEF Proceed
<1> HIDE DEF m, r
<1>4. Keeps(x, c) /\ c.inst.spec.override = None
  BY <1>2 DEF Keeps, Shaped, WorkerFields, ObjectFields, IsCopy, SpecFields
<1> HIDE DEF c
<1>5. \A y, pc : Keeps(x, y) => LET z == Goto(y, pc) IN
                                Keeps(x, z) /\ z.pc = pc /\ z.inst = y.inst
  BY DEF Goto, Keeps, Shaped, WorkerFields
<1>6. \A y : Keeps(x, y) => LET z == AfterProceed(y) IN
                            /\ Keeps(x, z) /\ z.inst = y.inst
                            /\ z.pc \in {"metrics", "rules"}
  BY <1>5 DEF AfterProceed
<1>7. Keeps(x, x) /\ Idle.pc = "idle"
  BY DEF Keeps, Idle
<1>8. CASE Proceed(x) = Goto(m, "pauseSave") \/ Proceed(x) = Idle
  BY <1>1, <1>5, <1>7, <1>8
<1>9. CASE ~Pausing(x.inst) /\ Proceed(x) \in {AfterProceed(x), AfterProceed(r)}
  BY <1>2, <1>6, <1>7, <1>9 DEF Pausing
<1>10. CASE ~Pausing(x.inst) /\ Proceed(x) = Goto(c, "resumeSave")
  BY <1>4, <1>5, <1>10, NotPausing
<1>11. QED
  BY <1>3, <1>8, <1>9, <1>10

LEMMA BeginUnpaused ==
  ASSUME IInv, PausedInv, Begin
  PROVE  PausedInv'
<1> DEFINE ea == Cache!CurrentAbstract(w.e, TargetSpec(w.e))
           loss == ea.action = "terminate"
           r == [w EXCEPT !.taken = FALSE]
           t == [r EXCEPT !.terminate = loss]
           x == SyncExperiment(t, ea)
           y == [x EXCEPT !.statusUpdate = FALSE]
           o == stored[w.e]
<1>1. w.pc = "dispatch" /\ w.pc # "idle"
  BY DEF Begin, ToReconcile, At
<1>2. CASE loss /\ ~Terminating(w.inst) /\ Panics(w)
  BY <1>2, NowIdle DEF Begin, Restart
<1>3. CASE ~(loss /\ ~Terminating(w.inst) /\ Panics(w))
  <2>1. DOMAIN w = WorkerFields /\ IsCopy(w.inst)
    BY <1>1, HereDispatch
  <2>2. w' = Proceed(y) /\ stored' = stored
    BY <1>3 DEF Begin, apiVars
  <2>3. Saves(w, o) => o.spec.override = w.inst.spec.override
    BY <1>1 DEF PausedInv, PauseInv, OpenPcs
  <2> HIDE DEF ea, o
  <2>4. /\ Shaped(t) /\ t.e = w.e /\ t.fresh = w.fresh /\ t.inst = w.inst
        /\ t.terminate = loss
    BY <2>1 DEF Shaped, IsCopy, WorkerFields
  <2> HIDE DEF t
  <2>5. Keeps(t, x) /\ (~loss => x.inst.spec.override = w.inst.spec.override)
    BY <2>1, <2>4, SyncKeeps
  <2>6. IsCopy(x.inst)
    <3>1. ~w.inst.deleting /\ Working(w)
      BY <1>1, HereDispatch, DispatchReady DEF Begin, ToReconcile
    <3>2. Working(t) /\ ~t.inst.deleting
      BY <2>4, <3>1 DEF Working, Shaped
    <3>3. QED
      BY <3>2, SyncWorks DEF Works, Working
  <2> HIDE DEF x
  <2>7. Keeps(t, y) /\ y.inst = x.inst /\ Shaped(y)
    BY <2>5 DEF Keeps, Shaped, WorkerFields
  <2> HIDE DEF y
  <2>8. \/ w'.pc \in {"idle", "pauseSave"}
        \/ /\ w'.pc \in {"resumeSave", "metrics", "rules"}
           /\ ~Pausing(y.inst) /\ ~Pausing(w'.inst) /\ Keeps(y, w')
    BY <2>2, <2>6, <2>7, ProceedPlaces
  <2>9. CASE w'.pc \in {"idle", "pauseSave"}
    BY <2>9, GoneElsewhere DEF OpenPcs, UnpausedPcs, ResumedPcs, RulePcs, CleanupPcs
  <2>10. CASE /\ w'.pc \in {"resumeSave", "metrics", "rules"}
              /\ ~Pausing(y.inst) /\ ~Pausing(w'.inst) /\ Keeps(y, w')
    <3>1. w'.e = w.e /\ w'.fresh = w.fresh /\ (w'.terminate <=> loss)
      BY <2>4, <2>7, <2>10 DEF Keeps
    <3>2. ~loss /\ Saves(w, o) => ~Pausing(o)
      BY <2>3, <2>5, <2>7, <2>10 DEF Pausing
    <3>3. Unpaused(w', stored'[w.e])
      BY <2>2, <3>1, <3>2 DEF Unpaused, Saves, o
    <3>4. QED
      BY <2>10, <3>1, <3>3 DEF PausedInv, PauseInv, OpenPcs
  <2>11. QED
    BY <2>8, <2>9, <2>10
<1>4. QED
  BY <1>2, <1>3

\* The resume request is cleared, the copy stored.
LEMMA ResumeUnpaused ==
  ASSUME IInv, PausedInv, SaveResume
  PROVE  PausedInv'
<1> DEFINE X(outcome) == [w EXCEPT !.inst = Overlay(outcome, w.inst)]
<1>1. PICK outcome \in Outcomes :
        /\ Update(outcome, w.inst)
        /\ w' = IF outcome = "failed" THEN Idle ELSE AfterProceed(X(outcome))
  BY DEF SaveResume
<1>2. w.pc = "resumeSave" /\ w.pc # "idle"
  BY DEF SaveResume, At
<1>3. DOMAIN w = WorkerFields /\ IsCopy(w.inst) /\ w.inst.finalizer
  BY <1>2, HereReady DEF UserPcs, Working
<1>4. ~Pausing(w.inst)
  BY <1>2 DEF PausedInv, PauseInv, ResumedPcs
<1>5. CASE outcome = "failed"
  BY <1>1, <1>5, NowIdle
<1>6. CASE outcome # "failed"
  <2> DEFINE x == X(outcome)
  <2>1. /\ Shaped(x) /\ x.e = w.e /\ x.inst.spec = w.inst.spec
        /\ Saves(x, stored'[w.e]) => stored'[w.e].spec = w.inst.spec
    BY <1>1, <1>2, <1>3, <1>6, SpecWritten
  <2>2. w' = AfterProceed(x)
    BY <1>1, <1>6
  <2> HIDE DEF x
  <2>3. /\ w'.pc \in {"metrics", "rules"} /\ w'.e = w.e /\ w'.inst = x.inst
        /\ w'.fresh = x.fresh
    BY <2>1, <2>2, GotoKeeps DEF Shaped, AfterProceed
  <2>4. ~Pausing(w'.inst) /\ Unpaused(w', stored'[w.e])
    BY <1>4, <2>1, <2>3 DEF Pausing, Unpaused, Saves
  <2>5. QED
    BY <2>3, <2>4 DEF PausedInv, PauseInv, OpenPcs
<1>7. QED
  BY <1>5, <1>6

LEMMA MetricsUnpaused ==
  ASSUME IInv, PausedInv, SyncMetrics
  PROVE  PausedInv'
<1> DEFINE i == [w.inst EXCEPT !.spec.metrics = TRUE]
           X(outcome) == [w EXCEPT !.inst = Overlay(outcome, i)]
<1>1. PICK outcome \in Outcomes :
        /\ Update(outcome, i)
        /\ w' = IF outcome = "failed" THEN Goto([w EXCEPT !.inst = i], "end")
                ELSE Goto(MarkSyncMetrics(X(outcome)), "rules")
  BY DEF SyncMetrics
<1>2. w.pc = "metrics" /\ w.pc # "idle"
  BY DEF SyncMetrics, At
<1>3. DOMAIN w = WorkerFields /\ IsCopy(w.inst) /\ w.inst.finalizer
  BY <1>2, HereReady DEF UserPcs, Working
<1>4. IsCopy(i) /\ i.finalizer /\ i.spec.override = w.inst.spec.override
  BY <1>3 DEF IsCopy, ObjectFields, SpecFields
<1> HIDE DEF i
<1>5. ~Pausing(i)
  BY <1>2, <1>4 DEF PausedInv, PauseInv, ResumedPcs, Pausing
<1>6. CASE outcome = "failed"
  <2>1. w'.pc = "end"
    BY <1>1, <1>3, <1>6, InstChanged, GotoKeeps
  <2>2. QED
    BY <2>1, GoneElsewhere DEF OpenPcs, UnpausedPcs, ResumedPcs, RulePcs, CleanupPcs
<1>7. CASE outcome # "failed"
  <2> DEFINE x == X(outcome)
             m == MarkSyncMetrics(x)
  <2>1. /\ Shaped(x) /\ x.e = w.e
        /\ Saves(x, stored'[w.e]) => stored'[w.e].spec = i.spec
    BY <1>1, <1>2, <1>3, <1>4, <1>7, SpecWritten
  <2>2. w' = Goto(m, "rules")
    BY <1>1, <1>7
  <2> HIDE DEF x
  <2>3. Keeps(x, m)
    BY <2>1, MarksKeep
  <2> HIDE DEF m
  <2>4. w'.pc = "rules" /\ w'.e = w.e /\ w'.fresh = x.fresh
    BY <2>1, <2>2, <2>3, GotoKeeps DEF Keeps, Shaped
  <2>5. Unpaused(w', stored'[w.e])
    BY <1>5, <2>1, <2>4 DEF Pausing, Unpaused, Saves
  <2>6. QED
    BY <2>4, <2>5 DEF PausedInv, PauseInv, OpenPcs, ResumedPcs
<1>8. QED
  BY <1>6, <1>7

-----------------------------------------------------------------------------
(* Steps that end a request, and steps of others.                          *)

LEMMA EndsUnpaused ==
  ASSUME IInv, PausedInv,
         \/ NotFound \/ SkipCompleted \/ Reject \/ SavePause \/ MetricsUnreadable \/ End
         \/ Unfinalize \/ Crash
  PROVE  PausedInv'
<1>1. CASE \/ NotFound \/ SkipCompleted \/ SavePause \/ MetricsUnreadable \/ Unfinalize \/ Crash
  BY <1>1, NowIdle
  DEF NotFound, SkipCompleted, SavePause, MetricsUnreadable, Unfinalize, Crash, Restart
<1>2. CASE Reject
  <2> DEFINE m == MarkTargetsError(w, "Conflict")
             y == [m EXCEPT !.taken = FALSE]
  <2>1. w' = Idle \/ w' = Goto(y, "end")
    BY <1>2 DEF Reject, Restart
  <2>2. Shaped(w)
    BY <1>2, HereDispatch DEF Reject, ToReconcile, At, Shaped, IsCopy
  <2>3. Keeps(w, m)
    BY <2>2, MarksKeep
  <2> HIDE DEF m
  <2>4. DOMAIN y = WorkerFields
    BY <2>3 DEF Keeps, Shaped
  <2> HIDE DEF y
  <2>5. w'.pc \in {"idle", "end"}
    BY <2>1, <2>4, GotoKeeps DEF Idle
  <2>6. QED
    BY <2>5, GoneElsewhere DEF OpenPcs, UnpausedPcs, ResumedPcs, RulePcs, CleanupPcs
<1>3. CASE End
  <2>1. DOMAIN w = WorkerFields
    BY DEF IInv, WorkerInv
  <2>2. w' = Idle \/ w' = [Goto(w, "unfinalize") EXCEPT !.taken = FALSE]
    BY <1>3 DEF End
  <2> DEFINE g == Goto(w, "unfinalize")
             y == [g EXCEPT !.taken = FALSE]
  <2>3. DOMAIN g = WorkerFields /\ g.pc = "unfinalize"
    BY <2>1, GotoKeeps
  <2> HIDE DEF g
  <2>4. y.pc = "unfinalize"
    BY <2>3 DEF WorkerFields
  <2>5. w' = Idle \/ w' = y
    BY <2>2 DEF g
  <2> HIDE DEF y
  <2>6. w'.pc \in {"idle", "unfinalize"}
    BY <2>4, <2>5 DEF Idle
  <2>7. QED
    BY <2>6, GoneElsewhere DEF OpenPcs, UnpausedPcs, ResumedPcs, RulePcs, CleanupPcs
<1>4. QED
  BY <1>1, <1>2, <1>3

LEMMA OthersUnpaused ==
  ASSUME PausedInv,
         \/ \E e \in Experiments : Deliver(e) \/ TimerFires(e)
         \/ \E t \in Targets :
              HandleTargetEvent(t) \/ EnqueueOwner(t) \/ UserCreatesTarget(t) \/ UserDeletesTarget(t)
         \/ UNCHANGED vars
  PROVE  PausedInv'
<1>1. w' = w /\ stored' = stored
  BY DEF Deliver, TimerFires, HandleTargetEvent, EnqueueOwner, UserCreatesTarget,
         UserDeletesTarget, vars, apiVars
<1>2. QED
  BY <1>1 DEF PausedInv

\* An edit takes the worker's copy out of date.
LEMMA EditUnpaused ==
  ASSUME IInv, PausedInv, NEW e \in Experiments, NEW new, Edit(e, new)
  PROVE  PausedInv'
<1>1. CASE w.e = e
  <2>1. DOMAIN w = WorkerFields
    BY DEF IInv, WorkerInv
  <2>2. w' = [w EXCEPT !.fresh = FALSE]
    BY <1>1 DEF Edit
  <2>3. w'.pc = w.pc /\ w'.inst = w.inst /\ w'.fresh = FALSE
    BY <2>1, <2>2 DEF WorkerFields
  <2>4. QED
    BY <2>3 DEF PausedInv, PauseInv, Unpaused, Saves
<1>2. CASE w.e # e
  <2>1. w' = w /\ stored' = [stored EXCEPT ![e] = new]
    BY <1>2 DEF Edit, Store
  <2>2. w.pc # "idle" => w.e \in Experiments
    BY DEF IInv, WorkerInv
  <2>3. w.pc # "idle" => stored'[w.e] = stored[w.e]
    BY <1>2, <2>1, <2>2 DEF IInv, ObjectsInv
  <2>4. QED
    BY <2>1, <2>3 DEF PausedInv
<1>3. QED
  BY <1>1, <1>2

LEMMA AgingUnpaused ==
  ASSUME IInv, PausedInv, NEW e \in Experiments, IntervalElapses(e)
  PROVE  PausedInv'
<1> DEFINE Age(o) == IF o # None /\ o.status.lastUpdate = "recent"
                       THEN [o EXCEPT !.status.lastUpdate = "past"] ELSE o
<1>1. /\ stored' = [stored EXCEPT ![e] = Age(stored[e])]
      /\ w' = IF w.e = e THEN [w EXCEPT !.inst = Age(w.inst)] ELSE w
  BY DEF IntervalElapses
<1>2. \A o : IsCopy(o) => Age(o).spec = o.spec /\ Age(o).deleting = o.deleting
  BY DEF IsCopy, ObjectFields
<1>3. Age(None) = None
  OBVIOUS
<1> HIDE DEF Age
<1>4. CASE w.pc \notin OpenPcs \cup UnpausedPcs
  <2>1. w'.pc = w.pc
    BY <1>1 DEF IInv, WorkerInv, WorkerFields
  <2>2. QED
    BY <1>4, <2>1, GoneElsewhere
<1>5. CASE w.pc \in OpenPcs \cup UnpausedPcs
  <2>1. DOMAIN w = WorkerFields /\ IsCopy(w.inst) /\ w.pc # "idle" /\ w.e \in Experiments
    BY <1>5, HereOpened, HereShaped DEF IInv, WorkerInv, Opened, Sound
  <2>2. /\ w'.pc = w.pc /\ w'.e = w.e /\ w'.fresh = w.fresh /\ w'.terminate = w.terminate
        /\ w'.inst.spec = w.inst.spec /\ w'.inst.deleting = w.inst.deleting
    BY <1>1, <1>2, <2>1 DEF WorkerFields
  <2>3. Saves(w', stored'[w.e]) =>
          Saves(w, stored[w.e]) /\ stored'[w.e].spec = stored[w.e].spec
    <3>1. stored[w.e] = None \/ IsCopy(stored[w.e])
      BY <2>1, HereStored DEF Sound
    <3>2. stored'[w.e] = stored[w.e] \/ stored'[w.e] = Age(stored[w.e])
      BY <1>1, <2>1 DEF IInv, ObjectsInv
    <3>3. QED
      BY <1>2, <1>3, <2>2, <3>1, <3>2 DEF Saves
  <2>4. PauseInv(w, stored[w.e])
    BY <2>1 DEF PausedInv
  <2>5. PauseInv(w', stored'[w.e])
    BY <2>2, <2>3, <2>4 DEF PauseInv, Unpaused, Pausing
  <2>6. QED
    BY <2>2, <2>5 DEF PausedInv
<1>6. QED
  BY <1>4, <1>5

-----------------------------------------------------------------------------
(* The pause holds.                                                        *)

LEMMA StepUnpaused ==
  ASSUME IInv, PausedInv, [Next]_vars
  PROVE  PausedInv'
<1>1. CASE Reconcile
  BY <1>1, EndsUnpaused, InitUnpaused, FinalizerUnpaused, FinalizeUnpaused, BeginUnpaused,
     ResumeUnpaused, MetricsUnpaused, RulesUnpaused, IterationsUnpaused, AbortUnpaused,
     FollowsUnpaused, CompletionsUnpaused
  DEF Reconcile
<1>2. CASE \E e \in Experiments : Fetch(e) \/ IntervalElapses(e)
  BY <1>2, FetchUnpaused, AgingUnpaused
<1>3. CASE \E e \in Experiments :
             UserCreates(e) \/ UserDeletes(e) \/ \E o \in UserOverrides : UserOverridesTo(e, o)
  BY <1>3, EditUnpaused DEF UserCreates, UserDeletes, UserOverridesTo
<1>4. CASE Crash
  BY <1>4, EndsUnpaused
<1>5. CASE \/ \E e \in Experiments : Deliver(e) \/ TimerFires(e)
           \/ \E t \in Targets :
                HandleTargetEvent(t) \/ EnqueueOwner(t) \/ UserCreatesTarget(t) \/ UserDeletesTarget(t)
           \/ UNCHANGED vars
  BY <1>5, OthersUnpaused
<1>6. QED
  BY <1>1, <1>2, <1>3, <1>4, <1>5 DEF Next, Environment

Holds ==
  \A e \in Experiments :
    PauseAcknowledged(e) /\ w.e = e /\ <<dr', vs'>> # <<dr, vs>> => Finalizing \/ w.terminate

\* Rules are written beyond proceed only.
LEMMA WritersUnpaused ==
  ASSUME [Next]_vars, <<dr', vs'>> # <<dr, vs>>
  PROVE  w.pc \in UnpausedPcs
<1>1. ~UNCHANGED ruleVars
  BY DEF ruleVars
<1>2. CASE Reconcile
  <2>1. \/ UpdateBaselineDR \/ UpdateBaselineVS \/ UpdateCandidatesDR \/ UpdateCandidatesVS
        \/ UpdateTrafficSplit \/ CleanupDR \/ CleanupVS
    BY <1>1, <1>2
    DEF Reconcile, NotFound, SaveInitStatus, AddFinalizer, StartFinalize, SkipCompleted, SavePause,
        SaveResume, SyncMetrics, UseRules, RefuseRules, DetectTargets, MissingCandidate,
        IterateWithoutCriteria, AnalyticsFails, Abort, FollowRecommendation, SplitWithoutRules,
        Complete, CleanupTargets, End, Unfinalize, Reject, Begin, MetricsUnreadable, Restart
  <2>2. QED
    BY <2>1
    DEF UpdateBaselineDR, UpdateBaselineVS, UpdateCandidatesDR, UpdateCandidatesVS,
        UpdateTrafficSplit, CleanupDR, CleanupVS, At, UnpausedPcs, RulePcs, CleanupPcs
<1>3. CASE \/ \E e \in Experiments :
               \/ Fetch(e) \/ Deliver(e) \/ IntervalElapses(e) \/ TimerFires(e)
               \/ UserCreates(e) \/ UserDeletes(e)
               \/ \E o \in UserOverrides : UserOverridesTo(e, o)
           \/ Crash
  BY <1>1, <1>3
  DEF Fetch, Deliver, IntervalElapses, TimerFires, UserCreates, UserDeletes, UserOverridesTo, Edit,
      Crash, Restart
<1>4. CASE \/ \E t \in Targets :
               HandleTargetEvent(t) \/ EnqueueOwner(t) \/ UserCreatesTarget(t) \/ UserDeletesTarget(t)
           \/ UNCHANGED vars
  BY <1>1, <1>4
  DEF HandleTargetEvent, EnqueueOwner, UserCreatesTarget, UserDeletesTarget, vars
<1>5. QED
  BY <1>2, <1>3, <1>4 DEF Next, Environment

LEMMA StepHolds ==
  ASSUME IInv, PausedInv, [Next]_vars
  PROVE  Holds
<1> SUFFICES ASSUME NEW e \in Experiments, PauseAcknowledged(e), w.e = e,
                    <<dr', vs'>> # <<dr, vs>>
             PROVE  Finalizing \/ w.terminate
  BY DEF Holds
<1>1. w.pc \in UnpausedPcs /\ w.pc # "idle"
  BY WritersUnpaused DEF UnpausedPcs, ResumedPcs, RulePcs, CleanupPcs
<1>2. Unpaused(w, stored[e])
  BY <1>1 DEF PausedInv, PauseInv
<1>3. Saves(w, stored[e]) /\ Pausing(stored[e])
  BY DEF PauseAcknowledged, Saves
<1>4. QED
  BY <1>2, <1>3 DEF Unpaused, Finalizing

(***************************************************************************)
(* Once a reconcile has saved a pause, nothing changes the rules of the    *)
(* experiment while the request stands, unless it is being deleted or      *)
(* terminated by the loss of a target: for any number of experiments, and  *)
(* however events, timers, failures and crashes wake the worker.           *)
(***************************************************************************)
THEOREM PauseKept == Spec => PauseHolds
<1>1. Init => PausedInv
  BY DEF Init, PausedInv, Idle
<1>2. IInv /\ PausedInv /\ [Next]_vars => PausedInv' /\ Holds
  BY StepUnpaused, StepHolds
<1>3. QED
  BY <1>1, <1>2, Inductive, PTL DEF Spec, PauseHolds, Holds
=============================================================================
