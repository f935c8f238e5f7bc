-------------------------- MODULE Iter8CacheProofs --------------------------
(***************************************************************************)
(* Proofs about Iter8Cache, for any sets of experiments, services and      *)
(* deployments.  The inductive invariant is the type invariant with the    *)
(* two directions of the correspondence between the store and the lookup   *)
(* maps: neither direction is inductive alone, because removing an         *)
(* experiment clears exactly the entries that the other direction says     *)
(* point to it.                                                            *)
(***************************************************************************)
EXTENDS Iter8Cache, TLAPS

IInv == TypeOK /\ LookupSound /\ LookupComplete

USE IdentityAssumption

\* The three maps have their types.
CacheTypeOK ==
  /\ experimentAbstractStore \in [Experiments -> Abstracts \cup {None}]
  /\ service2Experiment \in [Services -> Experiments \cup {None}]
  /\ deployment2Experiment \in [Deployments -> Experiments \cup {None}]

(***************************************************************************)
(* The roles given to the deployments of a spec are roles, and exactly the *)
(* deployments of the spec get one (NewTargets, targets.go).               *)
(***************************************************************************)
LEMMA NewTargetsRoles ==
  ASSUME NEW spec \in TargetSpecs
  PROVE  /\ NewTargets(spec) \in [Deployments -> Roles]
         /\ \A d \in Deployments : NewTargets(spec)[d] # "" <=> d \in SpecDeployments(spec)
  BY DEF TargetSpecs, NewTargets, Roles, SpecDeployments

(***************************************************************************)
(* A new abstract is an abstract whose deployments are those of the spec.  *)
(***************************************************************************)
LEMMA NewExperimentAbstract ==
  ASSUME NEW spec \in TargetSpecs
  PROVE  /\ NewExperiment(spec) \in Abstracts
         /\ NewExperiment(spec).service = spec.service
         /\ DeploymentsOf(NewExperiment(spec)) = SpecDeployments(spec)
<1>1. NewExperiment(spec) \in Abstracts
  BY NewTargetsRoles DEF NewExperiment, Abstracts, TargetSpecs, Actions, Roles
<1>2. SpecDeployments(spec) \subseteq Deployments
  BY DEF SpecDeployments, TargetSpecs
<1>3. DeploymentsOf(NewExperiment(spec)) = SpecDeployments(spec)
  BY <1>2, NewTargetsRoles DEF NewExperiment, DeploymentsOf
<1>4. QED BY <1>1, <1>3 DEF NewExperiment

(***************************************************************************)
(* Marking a deployment leaves the targets of the abstract alone.          *)
(***************************************************************************)
LEMMA MarkTargetFoundKeepsTargets ==
  ASSUME NEW ea \in Abstracts, NEW d \in Deployments, NEW found \in BOOLEAN
  PROVE  /\ MarkTargetFound(ea, d, found) \in Abstracts
         /\ MarkTargetFound(ea, d, found).service = ea.service
         /\ DeploymentsOf(MarkTargetFound(ea, d, found)) = DeploymentsOf(ea)
<1>1. ea.status[d] \in Roles
  BY DEF Abstracts
<1>2. QED BY <1>1 DEF Abstracts, Actions, Roles, MarkTargetFound, DeploymentsOf

(***************************************************************************)
(* So does marking the service.                                            *)
(***************************************************************************)
LEMMA MarkServiceFoundKeepsTargets ==
  ASSUME NEW ea \in Abstracts, NEW found \in BOOLEAN
  PROVE  /\ MarkServiceFound(ea, found) \in Abstracts
         /\ MarkServiceFound(ea, found).service = ea.service
         /\ DeploymentsOf(MarkServiceFound(ea, found)) = DeploymentsOf(ea)
  BY DEF Abstracts, Actions, Roles, MarkServiceFound, DeploymentsOf

(***************************************************************************)
(* So does clearing the action, when a snapshot is read (GetSnapshot).     *)
(***************************************************************************)
LEMMA ClearKeepsTargets ==
  ASSUME NEW ea \in Abstracts
  PROVE  /\ Clear(ea) \in Abstracts
         /\ Clear(ea).service = ea.service
         /\ DeploymentsOf(Clear(ea)) = DeploymentsOf(ea)
  BY DEF Abstracts, Actions, Roles, Clear, DeploymentsOf

\* The part of the inductive invariant that is about the three maps.
CacheInv == CacheTypeOK /\ LookupSound /\ LookupComplete

(***************************************************************************)
(* What the invariant says of one registered experiment: its abstract is   *)
(* one, and the lookup maps lead back from each of its targets.            *)
(***************************************************************************)
LEMMA RegisteredAbstract ==
  ASSUME CacheInv, NEW o \in Experiments, Registered(o)
  PROVE  /\ experimentAbstractStore[o] \in Abstracts
         /\ experimentAbstractStore[o].service \in Services
         /\ DeploymentsOf(experimentAbstractStore[o]) \subseteq Deployments
         /\ service2Experiment[experimentAbstractStore[o].service] = o
         /\ \A d \in DeploymentsOf(experimentAbstractStore[o]) : deployment2Experiment[d] = o
<1>1. experimentAbstractStore[o] \in Abstracts
  BY DEF CacheInv, CacheTypeOK, Registered
<1>2. experimentAbstractStore[o].service \in Services
  BY <1>1 DEF Abstracts
<1>3. DeploymentsOf(experimentAbstractStore[o]) \subseteq Deployments
  BY DEF DeploymentsOf
<1>4. /\ service2Experiment[experimentAbstractStore[o].service] = o
      /\ \A d \in DeploymentsOf(experimentAbstractStore[o]) : deployment2Experiment[d] = o
  BY DEF CacheInv, LookupComplete
<1>5. QED BY <1>1, <1>2, <1>3, <1>4

(***************************************************************************)
(* Marking a target of a registered experiment finds that target in the    *)
(* abstract and changes nobody's targets (MarkTarget..., cache.go).        *)
(***************************************************************************)
LEMMA MarkTargetStep ==
  ASSUME CacheInv, NEW t \in Services \cup Deployments, NEW found \in BOOLEAN,
         MarkTarget(t, found)
  PROVE  /\ CacheInv'
         /\ \A e \in Experiments : HeldBy(e)' = HeldBy(e)
<1> DEFINE o == OwnerOf(t)
           old == experimentAbstractStore[o]
           new == IF t \in Services THEN MarkServiceFound(old, found)
                                    ELSE MarkTargetFound(old, t, found)
<1>1. /\ o \in Experiments
      /\ old \in Abstracts
  BY DEF CacheInv, CacheTypeOK, LookupSound, MarkTarget, OwnerOf, Registered
<1>2. /\ experimentAbstractStore' = [experimentAbstractStore EXCEPT ![o] = new]
      /\ service2Experiment' = service2Experiment
      /\ deployment2Experiment' = deployment2Experiment
  BY DEF MarkTarget
<1>3. /\ new \in Abstracts
      /\ new.service = old.service
      /\ DeploymentsOf(new) = DeploymentsOf(old)
  <2>1. CASE t \in Services
    <3>1. new = MarkServiceFound(old, found)
      BY <2>1
    <3>2. QED BY <3>1, <1>1, MarkServiceFoundKeepsTargets
  <2>2. CASE t \notin Services
    <3>1. t \in Deployments /\ new = MarkTargetFound(old, t, found)
      BY <2>2
    <3>2. QED BY <3>1, <1>1, MarkTargetFoundKeepsTargets
  <2>3. QED BY <2>1, <2>2
<1> HIDE DEF o, old, new
<1>4. ASSUME NEW e \in Experiments
      PROVE  /\ Registered(e)' <=> Registered(e)
             /\ Registered(e) =>
                  /\ experimentAbstractStore'[e].service = experimentAbstractStore[e].service
                  /\ DeploymentsOf(experimentAbstractStore'[e])
                       = DeploymentsOf(experimentAbstractStore[e])
  BY <1>1, <1>2, <1>3 DEF Registered, CacheInv, CacheTypeOK, old
<1>5. CacheTypeOK'
  BY <1>1, <1>2, <1>3 DEF CacheInv, CacheTypeOK
<1>6. LookupSound'
  BY <1>2, <1>4 DEF CacheInv, CacheTypeOK, LookupSound
<1>7. LookupComplete'
  BY <1>2, <1>4 DEF CacheInv, LookupComplete
<1>8. \A e \in Experiments : HeldBy(e)' = HeldBy(e)
  BY <1>4 DEF HeldBy
<1>9. QED BY <1>5, <1>6, <1>7, <1>8 DEF CacheInv

(***************************************************************************)
(* Registration either keeps the targets of a registered experiment or     *)
(* takes, for one that held none, the targets of the spec, which nobody    *)
(* held (RegisterExperiment, cache.go).                                    *)
(***************************************************************************)
LEMMA RegisterStep ==
  ASSUME CacheInv, NEW e \in Experiments, NEW spec \in TargetSpecs,
         RegisterExperiment(e, spec)
  PROVE  /\ CacheInv'
         /\ \A o \in Experiments \ {e} : HeldBy(o)' = HeldBy(o)
         /\ Registered(e) => HeldBy(e)' = HeldBy(e)
         /\ ~Registered(e) =>
              /\ HeldBy(e)' = {spec.service} \cup SpecDeployments(spec)
              /\ \A o \in Experiments \ {e} : HeldBy(o) \cap HeldBy(e)' = {}
<1> DEFINE new == Clear(CurrentAbstract(e, spec))
<1>1. CurrentAbstract(e, spec) \in Abstracts
  BY NewExperimentAbstract DEF CurrentAbstract, Registered, CacheInv, CacheTypeOK
<1>2. /\ new \in Abstracts
      /\ new.service = CurrentAbstract(e, spec).service
      /\ DeploymentsOf(new) = DeploymentsOf(CurrentAbstract(e, spec))
  BY <1>1, ClearKeepsTargets
<1>3. experimentAbstractStore' = [experimentAbstractStore EXCEPT ![e] = new]
  BY DEF RegisterExperiment
<1> HIDE DEF new
<1>4. new # None
  BY <1>2
<1>5. /\ experimentAbstractStore'[e] = new
      /\ Registered(e)'
      /\ \A o \in Experiments \ {e} :
           experimentAbstractStore'[o] = experimentAbstractStore[o]
  BY <1>3, <1>4 DEF Registered, CacheInv, CacheTypeOK
<1>6. CASE Registered(e)
  <2>1. /\ service2Experiment' = service2Experiment
        /\ deployment2Experiment' = deployment2Experiment
    BY <1>6 DEF RegisterExperiment
  <2>2. /\ new.service = experimentAbstractStore[e].service
        /\ DeploymentsOf(new) = DeploymentsOf(experimentAbstractStore[e])
    BY <1>2, <1>6 DEF CurrentAbstract
  <2>3. CacheTypeOK'
    BY <1>2, <1>3, <2>1 DEF CacheInv, CacheTypeOK
  <2>4. LookupSound'
    BY <1>5, <2>1, <2>2 DEF CacheInv, CacheTypeOK, LookupSound, Registered
  <2>5. LookupComplete'
    BY <1>5, <1>6, <2>1, <2>2 DEF CacheInv, LookupComplete, Registered
  <2>6. \A o \in Experiments : HeldBy(o)' = HeldBy(o)
    BY <1>5, <1>6, <2>2 DEF HeldBy, Registered
  <2>7. QED BY <1>6, <2>3, <2>4, <2>5, <2>6 DEF CacheInv
<1>7. CASE ~Registered(e)
  <2>1. /\ service2Experiment' = [service2Experiment EXCEPT ![spec.service] = e]
        /\ deployment2Experiment' =
             [d \in Deployments |-> IF d \in SpecDeployments(spec) THEN e
                                    ELSE deployment2Experiment[d]]
        /\ service2Experiment[spec.service] = None
        /\ \A d \in SpecDeployments(spec) : deployment2Experiment[d] = None
    BY <1>7 DEF RegisterExperiment, Conflicting
  <2>2. /\ new.service = spec.service
        /\ DeploymentsOf(new) = SpecDeployments(spec)
    BY <1>2, <1>7, NewExperimentAbstract DEF CurrentAbstract
  <2>3. /\ spec.service \in Services
        /\ SpecDeployments(spec) \subseteq Deployments
    BY DEF TargetSpecs, SpecDeployments
  <2>4. CacheTypeOK'
    BY <1>2, <1>3, <2>1, <2>3 DEF CacheInv, CacheTypeOK
  <2>5. LookupSound'
    BY <1>5, <1>7, <2>1, <2>2, <2>3 DEF CacheInv, CacheTypeOK, LookupSound, Registered
  <2>6. ASSUME NEW o \in Experiments \ {e}, Registered(o)
        PROVE  /\ experimentAbstractStore[o].service # spec.service
               /\ DeploymentsOf(experimentAbstractStore[o]) \cap SpecDeployments(spec) = {}
    BY <2>1, <2>6 DEF CacheInv, LookupComplete
  <2>7. LookupComplete'
    <3> SUFFICES ASSUME NEW o \in Experiments, Registered(o)'
                 PROVE  /\ service2Experiment'[experimentAbstractStore'[o].service] = o
                        /\ \A d \in DeploymentsOf(experimentAbstractStore'[o]) :
                             deployment2Experiment'[d] = o
      BY DEF LookupComplete
    <3>1. CASE o = e
      BY <3>1, <1>5, <2>1, <2>2, <2>3 DEF CacheInv, CacheTypeOK
    <3>2. CASE o # e
      <4>1. Registered(o) /\ experimentAbstractStore'[o] = experimentAbstractStore[o]
        BY <3>2, <1>5 DEF Registered
      <4>2. /\ experimentAbstractStore[o].service \in Services
            /\ DeploymentsOf(experimentAbstractStore[o]) \subseteq Deployments
            /\ service2Experiment[experimentAbstractStore[o].service] = o
            /\ \A d \in DeploymentsOf(experimentAbstractStore[o]) : deployment2Experiment[d] = o
        BY <4>1, RegisteredAbstract
      <4>3. QED BY <3>2, <4>1, <4>2, <2>1, <2>6 DEF CacheInv, CacheTypeOK
    <3>3. QED BY <3>1, <3>2
  <2>8. \A o \in Experiments \ {e} : HeldBy(o)' = HeldBy(o)
    BY <1>5 DEF HeldBy, Registered
  <2>9. HeldBy(e)' = {spec.service} \cup SpecDeployments(spec)
    BY <1>5, <2>2 DEF HeldBy
  <2>10. ASSUME NEW o \in Experiments \ {e}
         PROVE  HeldBy(o) \cap HeldBy(e)' = {}
    <3>1. CASE ~Registered(o)
      BY <3>1 DEF HeldBy
    <3>2. CASE Registered(o)
      <4>1. experimentAbstractStore[o].service \in Services
            /\ DeploymentsOf(experimentAbstractStore[o]) \subseteq Deployments
        BY <3>2, RegisteredAbstract
      <4>2. HeldBy(o) = {experimentAbstractStore[o].service}
                          \cup DeploymentsOf(experimentAbstractStore[o])
        BY <3>2 DEF HeldBy
      <4>3. QED BY <4>1, <4>2, <2>3, <2>6, <2>9, <3>2
    <3>3. QED BY <3>1, <3>2
  <2>11. QED BY <1>7, <2>4, <2>5, <2>7, <2>8, <2>9, <2>10 DEF CacheInv
<1>8. QED BY <1>6, <1>7

(***************************************************************************)
(* Removal gives back every target of the experiment and nobody else's     *)
(* (RemoveExperiment, cache.go).                                           *)
(***************************************************************************)
LEMMA RemoveStep ==
  ASSUME CacheInv, NEW e \in Experiments, RemoveExperiment(e)
  PROVE  /\ CacheInv'
         /\ HeldBy(e)' = {}
         /\ \A o \in Experiments \ {e} : HeldBy(o)' = HeldBy(o)
<1>1. CASE ~Registered(e)
  BY <1>1 DEF RemoveExperiment, cacheVars, CacheInv, CacheTypeOK, LookupSound, LookupComplete,
              HeldBy, Registered
<1>2. CASE Registered(e)
  <2> DEFINE ea == experimentAbstractStore[e]
  <2>1. /\ experimentAbstractStore' = [experimentAbstractStore EXCEPT ![e] = None]
        /\ service2Experiment' = [service2Experiment EXCEPT ![ea.service] = None]
        /\ deployment2Experiment' =
             [d \in Deployments |-> IF d \in DeploymentsOf(ea) THEN None
                                    ELSE deployment2Experiment[d]]
    BY <1>2 DEF RemoveExperiment
  <2>2. /\ ea.service \in Services
        /\ DeploymentsOf(ea) \subseteq Deployments
        /\ service2Experiment[ea.service] = e
        /\ \A d \in DeploymentsOf(ea) : deployment2Experiment[d] = e
    BY <1>2, RegisteredAbstract
  <2>3. /\ ~Registered(e)'
        /\ \A o \in Experiments \ {e} :
             experimentAbstractStore'[o] = experimentAbstractStore[o]
    BY <2>1 DEF Registered, CacheInv, CacheTypeOK
  <2>4. CacheTypeOK'
    BY <2>1 DEF CacheInv, CacheTypeOK
  <2>5. ASSUME NEW s \in Services, service2Experiment'[s] # None
        PROVE  service2Experiment'[s] = service2Experiment[s] /\ service2Experiment[s] # e
    <3>1. s # ea.service /\ service2Experiment'[s] = service2Experiment[s]
      BY <2>1, <2>5, <2>2 DEF CacheInv, CacheTypeOK
    <3>2. QED BY <3>1, <2>5 DEF CacheInv, LookupSound
  <2>6. ASSUME NEW d \in Deployments, deployment2Experiment'[d] # None
        PROVE  deployment2Experiment'[d] = deployment2Experiment[d]
               /\ deployment2Experiment[d] # e
    <3>1. d \notin DeploymentsOf(ea) /\ deployment2Experiment'[d] = deployment2Experiment[d]
      BY <2>1, <2>6
    <3>2. QED BY <3>1, <2>6 DEF CacheInv, LookupSound
  <2>7. LookupSound'
    BY <2>3, <2>5, <2>6 DEF CacheInv, CacheTypeOK, LookupSound, Registered
  <2>8. LookupComplete'
    <3> SUFFICES ASSUME NEW o \in Experiments, Registered(o)'
                 PROVE  /\ service2Experiment'[experimentAbstractStore'[o].service] = o
                        /\ \A d \in DeploymentsOf(experimentAbstractStore'[o]) :
                             deployment2Experiment'[d] = o
      BY DEF LookupComplete
    <3>1. o # e /\ Registered(o) /\ experimentAbstractStore'[o] = experimentAbstractStore[o]
      BY <2>3 DEF Registered
    <3>2. /\ experimentAbstractStore[o].service \in Services
          /\ DeploymentsOf(experimentAbstractStore[o]) \subseteq Deployments
          /\ service2Experiment[experimentAbstractStore[o].service] = o
          /\ \A d \in DeploymentsOf(experimentAbstractStore[o]) : deployment2Experiment[d] = o
      BY <3>1, RegisteredAbstract
    <3>3. QED BY <3>1, <3>2, <2>1, <2>2 DEF CacheInv, CacheTypeOK
  <2>9. QED BY <2>3, <2>4, <2>7, <2>8 DEF CacheInv, HeldBy, Registered
<1>3. QED BY <1>1, <1>2

-----------------------------------------------------------------------------
(***************************************************************************)
(* The inductive invariant holds initially.                                *)
(***************************************************************************)
LEMMA InitIInv == Init => IInv
  BY DEF Init, CacheInit, IInv, TypeOK, LookupSound, LookupComplete, Registered

(***************************************************************************)
(* Every action preserves it; those of the handlers and of the queue that  *)
(* leave the maps alone, because the maps are all it speaks of.            *)
(***************************************************************************)
LEMMA NextIInv == IInv /\ [Next]_vars => IInv'
<1> SUFFICES ASSUME IInv, [Next]_vars PROVE IInv'
  OBVIOUS
<1>1. CacheInv
  BY DEF IInv, CacheInv, TypeOK, CacheTypeOK
<1>2. ASSUME UNCHANGED cacheVars PROVE CacheInv'
  BY <1>1, <1>2 DEF cacheVars, CacheInv, CacheTypeOK, LookupSound, LookupComplete, Registered
<1>3. ASSUME CacheInv', marked' \subseteq Services \cup Deployments,
             requests' \subseteq Experiments, worker' \in Experiments \cup {None}
      PROVE  IInv'
  BY <1>3 DEF IInv, CacheInv, TypeOK, CacheTypeOK
<1>4. ASSUME NEW t \in Services \cup Deployments, NEW found \in BOOLEAN, Mark(t, found)
      PROVE  IInv'
  <2>1. CacheInv'
    BY <1>1, <1>4, MarkTargetStep DEF Mark
  <2>2. QED BY <1>3, <1>4, <2>1 DEF Mark, IInv, TypeOK
<1>5. ASSUME NEW t \in Services \cup Deployments, Map(t)
      PROVE  IInv'
  <2>1. OwnerOf(t) \in Experiments \cup {None}
    BY DEF IInv, TypeOK, OwnerOf
  <2>2. QED BY <1>2, <1>3, <1>5, <2>1 DEF Map, IInv, TypeOK
<1>6. ASSUME NEW e \in Experiments, Enqueue(e)
      PROVE  IInv'
  BY <1>2, <1>3, <1>6 DEF Enqueue, IInv, TypeOK
<1>7. ASSUME NEW e \in Experiments, Take(e)
      PROVE  IInv'
  BY <1>2, <1>3, <1>7 DEF Take, IInv, TypeOK
<1>8. ASSUME NEW e \in Experiments, Drop(e)
      PROVE  IInv'
  BY <1>2, <1>3, <1>8 DEF Drop, IInv, TypeOK
<1>9. ASSUME NEW e \in Experiments, Remove(e)
      PROVE  IInv'
  <2>1. CacheInv'
    BY <1>1, <1>9, RemoveStep DEF Remove
  <2>2. QED BY <1>3, <1>9, <2>1 DEF Remove, IInv, TypeOK
<1>10. ASSUME NEW e \in Experiments, NEW spec \in TargetSpecs, Register(e, spec)
       PROVE  IInv'
  <2>1. CacheInv'
    BY <1>1, <1>10, RegisterStep DEF Register
  <2>2. QED BY <1>3, <1>10, <2>1 DEF Register, IInv, TypeOK
<1>11. ASSUME NEW e \in Experiments, NEW spec \in TargetSpecs, Reject(e, spec)
       PROVE  IInv'
  BY <1>2, <1>3, <1>11 DEF Reject, IInv, TypeOK
<1>12. CASE Restart
  BY <1>12 DEF Restart, IInv, TypeOK, LookupSound, LookupComplete, Registered
<1>13. CASE UNCHANGED vars
  BY <1>2, <1>3, <1>13 DEF vars, cacheVars, IInv, TypeOK
<1>14. QED
  BY <1>4, <1>5, <1>6, <1>7, <1>8, <1>9, <1>10, <1>11, <1>12, <1>13 DEF Next

(***************************************************************************)
(* The inductive invariant is one.                                         *)
(***************************************************************************)
THEOREM Invariance == Spec => []IInv
  BY InitIInv, NextIInv, PTL DEF Spec

(***************************************************************************)
(* Type correctness.                                                       *)
(***************************************************************************)
THEOREM TypeCorrect == Spec => []TypeOK
<1>1. IInv => TypeOK
  BY DEF IInv
<1>2. QED BY Invariance, <1>1, PTL

(***************************************************************************)
(* For any sets of experiments, services and deployments, a lookup entry   *)
(* leads to a stored abstract that lists the target: no event handler ever *)
(* dereferences a missing abstract or a missing target status.             *)
(***************************************************************************)
THEOREM LookupsAreSound == Spec => []LookupSound
<1>1. IInv => LookupSound
  BY DEF IInv
<1>2. QED BY Invariance, <1>1, PTL

(***************************************************************************)
(* ... and every target of a registered experiment is found through the    *)
(* lookup maps.                                                            *)
(***************************************************************************)
THEOREM LookupsAreComplete == Spec => []LookupComplete
<1>1. IInv => LookupComplete
  BY DEF IInv
<1>2. QED BY Invariance, <1>1, PTL

-----------------------------------------------------------------------------
(***************************************************************************)
(* No wake-up is lost.  The lookup maps must be sound for this to be       *)
(* inductive: the handler finds the owner again only if the entry it went  *)
(* through still leads to the experiment it marked.                        *)
(***************************************************************************)
LEMMA NextWakeUp ==
  ASSUME IInv, [Next]_vars, NEW e \in Experiments, Woken(e), ~Drop(e)
  PROVE  Woken(e)'
<1> SUFFICES ASSUME Registered(e)', experimentAbstractStore'[e].action # ""
             PROVE  \/ e \in requests'
                    \/ worker' = e
                    \/ \E t \in marked' : OwnerOf(t)' = e
  BY DEF Woken
<1>1. CacheInv
  BY DEF IInv, CacheInv, TypeOK, CacheTypeOK
<1>2. ASSUME experimentAbstractStore'[e] = experimentAbstractStore[e]
      PROVE  \/ e \in requests
             \/ worker = e
             \/ \E t \in marked : OwnerOf(t) = e
  BY <1>2 DEF Woken, Registered
<1>3. ASSUME NEW t \in Services \cup Deployments, NEW found \in BOOLEAN, Mark(t, found)
      PROVE  e \in requests' \/ worker' = e \/ \E m \in marked' : OwnerOf(m)' = e
  <2>1. \A m \in Services \cup Deployments : OwnerOf(m)' = OwnerOf(m)
    BY <1>3 DEF Mark, MarkTarget, OwnerOf
  <2>2. CASE OwnerOf(t) = e
    BY <1>3, <2>1, <2>2 DEF Mark
  <2>3. CASE OwnerOf(t) # e
    <3>1. experimentAbstractStore'[e] = experimentAbstractStore[e]
      BY <1>3, <2>3 DEF Mark, MarkTarget, IInv, TypeOK
    <3>2. marked \subseteq Services \cup Deployments
      BY DEF IInv, TypeOK
    <3>3. QED BY <1>2, <1>3, <2>1, <3>1, <3>2 DEF Mark
  <2>4. QED BY <2>2, <2>3
<1>4. ASSUME NEW t \in Services \cup Deployments, Map(t)
      PROVE  e \in requests' \/ worker' = e \/ \E m \in marked' : OwnerOf(m)' = e
  <2>1. experimentAbstractStore'[e] = experimentAbstractStore[e]
    BY <1>4 DEF Map, cacheVars
  <2>2. \A m \in marked : OwnerOf(m)' = OwnerOf(m)
    BY <1>4 DEF Map, cacheVars, OwnerOf
  <2>3. CASE OwnerOf(t) = e
    BY <1>4, <2>3 DEF Map, IdentityAssumption
  <2>4. CASE OwnerOf(t) # e
    BY <1>2, <1>4, <2>1, <2>2, <2>4 DEF Map
  <2>5. QED BY <2>3, <2>4
<1>5. ASSUME UNCHANGED <<cacheVars, marked>>, requests \subseteq requests' \cup {worker'},
             worker' = worker \/ worker = None \/ ~Registered(worker)
      PROVE  e \in requests' \/ worker' = e \/ \E m \in marked' : OwnerOf(m)' = e
  <2>1. experimentAbstractStore'[e] = experimentAbstractStore[e] /\ Registered(e)
    BY <1>5 DEF cacheVars, Registered
  <2>2. \A m \in marked : OwnerOf(m)' = OwnerOf(m)
    BY <1>5 DEF cacheVars, OwnerOf
  <2>3. QED BY <1>2, <1>5, <2>1, <2>2, IdentityAssumption
<1>6. ASSUME NEW o \in Experiments, Enqueue(o) \/ Take(o)
      PROVE  e \in requests' \/ worker' = e \/ \E m \in marked' : OwnerOf(m)' = e
  BY <1>5, <1>6 DEF Enqueue, Take
<1>7. ASSUME NEW o \in Experiments, NEW spec \in TargetSpecs, Reject(o, spec)
      PROVE  e \in requests' \/ worker' = e \/ \E m \in marked' : OwnerOf(m)' = e
  BY <1>5, <1>7 DEF Reject, Conflicting
<1>8. ASSUME NEW o \in Experiments, NEW spec \in TargetSpecs, Register(o, spec)
      PROVE  e \in requests' \/ worker' = e \/ \E m \in marked' : OwnerOf(m)' = e
  <2>1. CASE o = e
    <3>1. CurrentAbstract(e, spec) \in Abstracts
      BY <1>1, NewExperimentAbstract DEF CurrentAbstract, Registered, CacheInv, CacheTypeOK
    <3>2. Clear(CurrentAbstract(e, spec)).action = ""
      <4> DEFINE cur == CurrentAbstract(e, spec)
      <4>1. cur \in Abstracts
        BY <3>1
      <4> HIDE DEF cur
      <4>2. Clear(cur).action = ""
        BY <4>1 DEF Clear, Abstracts
      <4>3. QED BY <4>2 DEF cur
    <3>3. experimentAbstractStore'[e] = Clear(CurrentAbstract(e, spec))
      BY <1>8, <2>1 DEF Register, RegisterExperiment, IInv, TypeOK
    <3>4. QED BY <3>2, <3>3
  <2>2. CASE o # e
    <3>1. experimentAbstractStore'[e] = experimentAbstractStore[e]
      BY <1>8, <2>2 DEF Register, RegisterExperiment, IInv, TypeOK
    <3>2. ASSUME NEW m \in marked, OwnerOf(m) = e
          PROVE  OwnerOf(m)' = e
      BY <1>8, <3>2, IdentityAssumption
         DEF Register, RegisterExperiment, Conflicting, OwnerOf, IInv, TypeOK, TargetSpecs
    <3>3. QED BY <1>2, <1>8, <2>2, <3>1, <3>2 DEF Register
  <2>3. QED BY <2>1, <2>2
<1>9. ASSUME NEW o \in Experiments, Remove(o)
      PROVE  e \in requests' \/ worker' = e \/ \E m \in marked' : OwnerOf(m)' = e
  <2>1. o # e /\ experimentAbstractStore'[e] = experimentAbstractStore[e] /\ Registered(e)
    BY <1>9 DEF Remove, RemoveExperiment, cacheVars, Registered, IInv, TypeOK
  <2>2. ASSUME NEW m \in marked, OwnerOf(m) = e
        PROVE  OwnerOf(m)' = e
    <3>1. CASE ~Registered(o)
      BY <1>9, <2>2, <3>1 DEF Remove, RemoveExperiment, cacheVars, OwnerOf
    <3>2. CASE Registered(o)
      <4> DEFINE ea == experimentAbstractStore[o]
      <4>1. /\ service2Experiment' = [service2Experiment EXCEPT ![ea.service] = None]
            /\ deployment2Experiment' =
                 [d \in Deployments |-> IF d \in DeploymentsOf(ea) THEN None
                                        ELSE deployment2Experiment[d]]
        BY <1>9, <3>2 DEF Remove, RemoveExperiment
      <4>2. /\ service2Experiment[ea.service] = o
            /\ \A d \in DeploymentsOf(ea) : deployment2Experiment[d] = o
        BY <1>1, <3>2, RegisteredAbstract
      <4>3. m \in Services \cup Deployments
        BY DEF IInv, TypeOK
      <4>4. QED BY <2>1, <2>2, <4>1, <4>2, <4>3 DEF OwnerOf, IInv, TypeOK
    <3>3. QED BY <3>1, <3>2
  <2>3. QED BY <1>2, <1>9, <2>1, <2>2 DEF Remove
<1>10. CASE Restart
  BY <1>10 DEF Restart, Registered
<1>11. CASE UNCHANGED vars
  BY <1>5, <1>11 DEF vars, cacheVars
<1>12. ASSUME NEW o \in Experiments, Drop(o)
       PROVE  e \in requests' \/ worker' = e \/ \E m \in marked' : OwnerOf(m)' = e
  <2>1. o # e
    BY <1>12
  <2>2. /\ experimentAbstractStore'[e] = experimentAbstractStore[e]
        /\ \A m \in marked : OwnerOf(m)' = OwnerOf(m)
    BY <1>12 DEF Drop, cacheVars, OwnerOf
  <2>3. QED BY <1>2, <1>12, <2>1, <2>2 DEF Drop
<1>13. QED
  BY <1>3, <1>4, <1>6, <1>7, <1>8, <1>9, <1>10, <1>11, <1>12 DEF Next

(***************************************************************************)
(* For any sets of experiments and targets, the request of a recorded      *)
(* action stays under way until the action is read; only a request that    *)
(* ends before it reads its snapshot may leave it behind.                  *)
(***************************************************************************)
THEOREM WakeUpNeverLost == Spec => WakeUpKept
<1>1. IInv /\ [Next]_vars => [\A e \in Experiments : Woken(e) => Woken(e)' \/ Drop(e)]_vars
  BY NextWakeUp
<1>2. QED BY <1>1, Invariance, PTL DEF Spec, WakeUpKept

-----------------------------------------------------------------------------
(***************************************************************************)
(* A step that keeps what every experiment but e holds, while e goes from  *)
(* nothing to something nobody else holds, from something to nothing, or   *)
(* keeps what it has, is a step of TargetOwnership or leaves held alone.   *)
(***************************************************************************)
LEMMA HeldStep ==
  ASSUME NEW e \in Experiments,
         \A o \in Experiments \ {e} : HeldBy(o)' = HeldBy(o),
         \/ HeldBy(e)' = HeldBy(e)
         \/ HeldBy(e)' = {}
         \/ /\ HeldBy(e) = {}
            /\ HeldBy(e)' \in (SUBSET Targets) \ {{}}
            /\ \A o \in Experiments \ {e} : HeldBy(o) \cap HeldBy(e)' = {}
  PROVE  [Ownership!Next]_held
<1>1. /\ held \in [Experiments -> {HeldBy(o) : o \in Experiments}]
      /\ \A o \in Experiments : held[o] = HeldBy(o) /\ held'[o] = HeldBy(o)'
      /\ DOMAIN held = Experiments /\ DOMAIN held' = Experiments
  BY DEF held
<1>2. held' = [held EXCEPT ![e] = HeldBy(e)']
  BY <1>1 DEF held
<1>3. CASE HeldBy(e)' = HeldBy(e)
  BY <1>1, <1>2, <1>3 DEF held
<1>4. CASE HeldBy(e)' = {} /\ HeldBy(e) # {}
  BY <1>1, <1>2, <1>4 DEF Ownership!Next, Ownership!Release
<1>5. CASE /\ HeldBy(e) = {}
           /\ HeldBy(e)' \in (SUBSET Targets) \ {{}}
           /\ \A o \in Experiments \ {e} : HeldBy(o) \cap HeldBy(e)' = {}
  BY <1>1, <1>2, <1>5 DEF Ownership!Next, Ownership!Acquire, Ownership!Disjoint
<1>6. QED BY <1>3, <1>4, <1>5

(***************************************************************************)
(* Every step of the cache is a step of TargetOwnership or a stutter.      *)
(***************************************************************************)
LEMMA NextRefines == IInv /\ [Next]_vars => [Ownership!Next]_held
<1> SUFFICES ASSUME IInv, [Next]_vars PROVE [Ownership!Next]_held
  OBVIOUS
<1>1. CacheInv
  BY DEF IInv, CacheInv, TypeOK, CacheTypeOK
<1>2. ASSUME \A e \in Experiments : HeldBy(e)' = HeldBy(e)
      PROVE  [Ownership!Next]_held
  BY <1>2 DEF held
<1>3. ASSUME UNCHANGED cacheVars
      PROVE  [Ownership!Next]_held
  BY <1>3 DEF cacheVars, held, HeldBy, Registered
<1>4. ASSUME NEW t \in Services \cup Deployments, NEW found \in BOOLEAN, Mark(t, found)
      PROVE  [Ownership!Next]_held
  BY <1>1, <1>2, <1>4, MarkTargetStep DEF Mark
<1>5. ASSUME NEW e \in Experiments, NEW spec \in TargetSpecs, Register(e, spec)
      PROVE  [Ownership!Next]_held
  <2>1. {spec.service} \cup SpecDeployments(spec) \in (SUBSET Targets) \ {{}}
    BY DEF TargetSpecs, SpecDeployments, Targets
  <2>2. CASE Registered(e)
    BY <1>1, <1>5, <2>2, RegisterStep, HeldStep DEF Register
  <2>3. CASE ~Registered(e)
    <3>1. HeldBy(e) = {}
      BY <2>3 DEF HeldBy
    <3>2. QED BY <1>1, <1>5, <2>1, <2>3, <3>1, RegisterStep, HeldStep DEF Register
  <2>4. QED BY <2>2, <2>3
<1>6. ASSUME NEW e \in Experiments, Remove(e)
      PROVE  [Ownership!Next]_held
  BY <1>1, <1>6, RemoveStep, HeldStep DEF Remove
<1>7. CASE Restart
  BY <1>7 DEF Restart, held, HeldBy, Registered, Ownership!Next, Ownership!Reset
<1>8. QED
  BY <1>3, <1>4, <1>5, <1>6, <1>7 DEF Next, vars, cacheVars, Map, Enqueue, Take, Drop, Reject

(***************************************************************************)
(* The cache implements the abstract ownership table: no interleaving of   *)
(* handlers and worker, and no edit of a spec between two registrations,   *)
(* gives a target to two experiments or moves one by a step that is not a  *)
(* registration, a removal or a restart.                                   *)
(***************************************************************************)
THEOREM Refinement == Spec => ImplementsOwnership
<1>1. Init => Ownership!Init
  BY DEF Init, CacheInit, Ownership!Init, held, HeldBy, Registered
<1>2. QED BY <1>1, NextRefines, Invariance, PTL DEF Spec, ImplementsOwnership, Ownership!Spec
=============================================================================
