----------------------------- MODULE Iter8Cache -----------------------------
(***************************************************************************)
(* The controller's in-memory cache (pkg/controller/experiment/cache): a   *)
(* store of experiment abstracts and two lookup maps from targets to the   *)
(* experiment that registered them.  One mutex guards every operation, so  *)
(* an operation is one action.  Two kinds of goroutines call it:           *)
(*                                                                         *)
(*   - informer event handlers: for each created or deleted Service or     *)
(*     Deployment the watch predicate marks the target (Mark) and, only if *)
(*     that found an owner, the mapping function looks the owner up again, *)
(*     in a second critical section, and enqueues it (Map);                *)
(*   - the reconciler's only worker, which takes an experiment off the     *)
(*     queue (Take), registers it and reads its snapshot (Register), and   *)
(*     removes it when it completes or is finalized (Remove).              *)
(*                                                                         *)
(* The cache lives in memory: a crash of the process empties it (Restart). *)
(*                                                                         *)
(* Keys are "namespace/name"; neither part contains the separator, so keys *)
(* are identities here.  The condition kept for a target, and the text of  *)
(* terminateStatus built from it, are only ever shown to the user: the     *)
(* abstract keeps the role of the target instead.                          *)
(***************************************************************************)
EXTENDS Naturals, FiniteSets

CONSTANTS
  Experiments,   \* experiment identities
  Services,      \* service identities
  Deployments,   \* deployment identities
  None           \* "no value"

VARIABLES
  experimentAbstractStore,  \* experiment -> abstract, or None
  service2Experiment,       \* service -> experiment, or None
  deployment2Experiment,    \* deployment -> experiment, or None
  marked,                   \* targets marked by a handler that has not mapped them yet
  requests,                 \* the workqueue
  worker                    \* taken off the queue, snapshot not read yet; or None

cacheVars == <<experimentAbstractStore, service2Experiment, deployment2Experiment>>
vars == <<experimentAbstractStore, service2Experiment, deployment2Experiment,
          marked, requests, worker>>

Actions == {"", "terminate", "resume"}
Roles == {"", "service", "baseline", "candidate"}
TargetSpecs ==
  [service: Services, baseline: Deployments, candidates: SUBSET Deployments]
Abstracts ==
  [service: Services, status: [Deployments -> Roles], action: Actions, deletedRole: Roles]

\* A Service and a Deployment are objects of different kinds, whatever their
\* names; None is neither, nor an experiment, nor an abstract.
ASSUME IdentityAssumption ==
  /\ Services \cap Deployments = {}
  /\ None \notin Experiments \cup Services \cup Deployments \cup Abstracts

-----------------------------------------------------------------------------
(* The abstract of one experiment.                                         *)

\* A candidate that is also the baseline ends up with the later role.
NewTargets(spec) ==
  [d \in Deployments |-> CASE d \in spec.candidates -> "candidate"
                           [] d = spec.baseline /\ d \notin spec.candidates -> "baseline"
                           [] OTHER -> ""]

NewExperiment(spec) ==
  [service |-> spec.service, status |-> NewTargets(spec), action |-> "", deletedRole |-> ""]

\* A found target leaves the role of an earlier lost one in place.
MarkTargetFound(ea, d, found) ==
  IF found THEN [ea EXCEPT !.action = "resume"]
           ELSE [ea EXCEPT !.action = "terminate", !.deletedRole = ea.status[d]]

MarkServiceFound(ea, found) ==
  IF found THEN [ea EXCEPT !.action = "resume"]
           ELSE [ea EXCEPT !.action = "terminate", !.deletedRole = "service"]

Clear(ea) == [ea EXCEPT !.action = "", !.deletedRole = ""]

DeploymentsOf(ea) == {d \in Deployments : ea.status[d] # ""}

SpecDeployments(spec) == {spec.baseline} \cup spec.candidates

-----------------------------------------------------------------------------
(* The operations.                                                         *)

Registered(e) == experimentAbstractStore[e] # None

\* Faulty variant: the candidates are not checked for another owner.
ConflictingNoCandidates(e, spec) ==
  /\ ~Registered(e)
  /\ \/ service2Experiment[spec.service] # None
     \/ deployment2Experiment[spec.baseline] # None

\* The first test of RegisterExperiment that fails, as an error.
Conflicting(e, spec) ==
  /\ ~Registered(e)
  /\ \/ service2Experiment[spec.service] # None
     \/ \E d \in SpecDeployments(spec) : deployment2Experiment[d] # None

\* The abstract whose snapshot is taken: the one stored, or the one just made.
CurrentAbstract(e, spec) ==
  IF Registered(e) THEN experimentAbstractStore[e] ELSE NewExperiment(spec)

\* RegisterExperiment: claim every target or none; GetSnapshot copies and clears.
RegisterExperiment(e, spec) ==
  /\ ~Conflicting(e, spec)
  /\ experimentAbstractStore' =
       [experimentAbstractStore EXCEPT ![e] = Clear(CurrentAbstract(e, spec))]
  /\ IF Registered(e)
       THEN UNCHANGED <<service2Experiment, deployment2Experiment>>
       ELSE /\ service2Experiment' = [service2Experiment EXCEPT ![spec.service] = e]
            /\ deployment2Experiment' =
                 [d \in Deployments |-> IF d \in SpecDeployments(spec) THEN e
                                        ELSE deployment2Experiment[d]]

\* Faulty variant: the deployment lookups stay behind.
RemoveExperimentKeepDeployments(e) ==
  IF Registered(e)
    THEN /\ service2Experiment' =
              [service2Experiment EXCEPT ![experimentAbstractStore[e].service] = None]
         /\ experimentAbstractStore' = [experimentAbstractStore EXCEPT ![e] = None]
         /\ UNCHANGED deployment2Experiment
    ELSE UNCHANGED cacheVars

RemoveExperiment(e) ==
  IF Registered(e)
    THEN LET ea == experimentAbstractStore[e] IN
         /\ experimentAbstractStore' = [experimentAbstractStore EXCEPT ![e] = None]
         /\ service2Experiment' = [service2Experiment EXCEPT ![ea.service] = None]
         /\ deployment2Experiment' =
              [d \in Deployments |-> IF d \in DeploymentsOf(ea) THEN None
                                     ELSE deployment2Experiment[d]]
    ELSE UNCHANGED cacheVars

\* DeploymentToExperiment and ServiceToExperiment, None for "not found".
OwnerOf(t) == IF t \in Services THEN service2Experiment[t] ELSE deployment2Experiment[t]

\* MarkTarget{Deployment,Service}{Found,Missing}, when they return true.
MarkTarget(t, found) ==
  LET e == OwnerOf(t) IN
  /\ e # None
  /\ experimentAbstractStore' =
       [experimentAbstractStore EXCEPT ![e] =
          IF t \in Services THEN MarkServiceFound(@, found) ELSE MarkTargetFound(@, t, found)]
  /\ UNCHANGED <<service2Experiment, deployment2Experiment>>

\* New
CacheInit ==
  /\ experimentAbstractStore = [e \in Experiments |-> None]
  /\ service2Experiment = [s \in Services |-> None]
  /\ deployment2Experiment = [d \in Deployments |-> None]

-----------------------------------------------------------------------------
(* The goroutines that call them.                                          *)

Init ==
  /\ CacheInit
  /\ marked = {}
  /\ requests \in SUBSET Experiments   \* those of the informer's initial list
  /\ worker = None

\* Faulty variant: the predicate lets the event of a deleted target drop.
MarkMissingUnmapped(t, found) ==
  /\ \A m \in marked : (m \in Services) # (t \in Services)
  /\ MarkTarget(t, found)
  /\ marked' = IF found THEN marked \cup {t} ELSE marked
  /\ UNCHANGED <<requests, worker>>

\* Create or Delete event of t, predicate: returns true only with an owner.
\* One handler goroutine per kind: the next event waits for Map.
Mark(t, found) ==
  /\ \A m \in marked : (m \in Services) # (t \in Services)
  /\ MarkTarget(t, found)
  /\ marked' = marked \cup {t}
  /\ UNCHANGED <<requests, worker>>

\* Faulty variant: the second lookup is taken to succeed.
MapUnchecked(t) ==
  /\ t \in marked
  /\ marked' = marked \ {t}
  /\ requests' = requests \cup {OwnerOf(t)}
  /\ UNCHANGED <<cacheVars, worker>>

\* ... and the mapping function of the same event.
Map(t) ==
  /\ t \in marked
  /\ marked' = marked \ {t}
  /\ requests' = requests \cup ({OwnerOf(t)} \ {None})
  /\ UNCHANGED <<cacheVars, worker>>

\* An event of the experiment itself, or its timer, enqueues it.
Enqueue(e) ==
  /\ requests' = requests \cup {e}
  /\ UNCHANGED <<cacheVars, marked, worker>>

\* The worker takes a request.
Take(e) ==
  /\ worker = None
  /\ e \in requests
  /\ requests' = requests \ {e}
  /\ worker' = e
  /\ UNCHANGED <<cacheVars, marked>>

\* Reconcile registers the experiment with the spec it read.
Register(e, spec) ==
  /\ worker = e
  /\ RegisterExperiment(e, spec)
  /\ worker' = None
  /\ UNCHANGED <<marked, requests>>

\* The targets are held by another experiment: the request ends.
Reject(e, spec) ==
  /\ worker = e
  /\ Conflicting(e, spec)
  /\ worker' = None
  /\ UNCHANGED <<cacheVars, marked, requests>>

\* A request ends before its snapshot is read: the experiment is gone or
\* completed, or the update of its initial status failed, in which case an
\* earlier request may have registered it.
Drop(e) ==
  /\ worker = e
  /\ worker' = None
  /\ UNCHANGED <<cacheVars, marked, requests>>

\* The experiment completes or is finalized, after its snapshot was read or,
\* for an experiment being deleted, instead of reading it.
Remove(e) ==
  /\ worker \in {e, None}
  /\ RemoveExperiment(e)
  /\ worker' = None
  /\ UNCHANGED <<marked, requests>>

\* The process crashes and starts again: the informer's initial list enqueues
\* the experiments that still exist, everything in memory is gone.
Restart ==
  /\ experimentAbstractStore' = [e \in Experiments |-> None]
  /\ service2Experiment' = [s \in Services |-> None]
  /\ deployment2Experiment' = [d \in Deployments |-> None]
  /\ marked' = {}
  /\ requests' \in SUBSET Experiments
  /\ worker' = None

Next ==
  \/ Restart
  \/ \E t \in Services \cup Deployments, found \in BOOLEAN : Mark(t, found)
  \/ \E t \in Services \cup Deployments : Map(t)
  \/ \E e \in Experiments : Enqueue(e) \/ Take(e) \/ Drop(e) \/ Remove(e)
  \/ \E e \in Experiments, spec \in TargetSpecs : Register(e, spec) \/ Reject(e, spec)

Spec == Init /\ [][Next]_vars

-----------------------------------------------------------------------------
(* Properties.                                                             *)

(***************************************************************************)
(* Every variable holds a value of its type.                               *)
(***************************************************************************)
TypeOK ==
  /\ experimentAbstractStore \in [Experiments -> Abstracts \cup {None}]
  /\ service2Experiment \in [Services -> Experiments \cup {None}]
  /\ deployment2Experiment \in [Deployments -> Experiments \cup {None}]
  /\ marked \subseteq Services \cup Deployments
  /\ requests \subseteq Experiments
  /\ worker \in Experiments \cup {None}

(***************************************************************************)
(* A lookup entry leads to a stored abstract that lists the target.  The   *)
(* Mark operations dereference store[owner] and owner.Status[name] without *)
(* a check: a stale entry would be a nil pointer in an informer callback.  *)
(***************************************************************************)
LookupSound ==
  /\ \A s \in Services : service2Experiment[s] # None =>
       /\ Registered(service2Experiment[s])
       /\ experimentAbstractStore[service2Experiment[s]].service = s
  /\ \A d \in Deployments : deployment2Experiment[d] # None =>
       /\ Registered(deployment2Experiment[d])
       /\ d \in DeploymentsOf(experimentAbstractStore[deployment2Experiment[d]])

(***************************************************************************)
(* Every target of a registered experiment is found through the lookup     *)
(* maps, whatever order experiments came and went in and however their     *)
(* specs changed meanwhile: no event of a target of it is dropped.         *)
(***************************************************************************)
LookupComplete ==
  \A e \in Experiments : Registered(e) =>
    LET ea == experimentAbstractStore[e] IN
    /\ service2Experiment[ea.service] = e
    /\ \A d \in DeploymentsOf(ea) : deployment2Experiment[d] = e

(***************************************************************************)
(* No wake-up is lost but by a request that ends early: an action recorded *)
(* in an abstract has a request for its experiment queued, in the worker's *)
(* hands, or about to be queued by the handler that recorded it, although  *)
(* the handler looks the owner up a second time after releasing the lock.  *)
(***************************************************************************)
Woken(e) ==
  Registered(e) /\ experimentAbstractStore[e].action # "" =>
    \/ e \in requests
    \/ worker = e
    \/ \E t \in marked : OwnerOf(t) = e
WakeUpKept == [][\A e \in Experiments : Woken(e) => Woken(e)' \/ Drop(e)]_vars

\* The targets of the abstract specification and who holds them.
Targets == Services \cup Deployments
HeldBy(e) ==
  IF Registered(e)
    THEN {experimentAbstractStore[e].service} \cup DeploymentsOf(experimentAbstractStore[e])
    ELSE {}
held == [e \in Experiments |-> HeldBy(e)]

Ownership == INSTANCE TargetOwnership

(***************************************************************************)
(* The cache implements TargetOwnership: registration takes all targets or *)
(* none, removal gives all of them back, nothing but a restart in between  *)
(* moves one.                                                              *)
(***************************************************************************)
ImplementsOwnership == Ownership!Spec
=============================================================================
