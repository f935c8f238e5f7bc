--------------------------- MODULE TargetOwnership ---------------------------
(***************************************************************************)
(* What the controller's cache promises: every target (a Kubernetes        *)
(* Service or Deployment) is held by at most one experiment, an experiment *)
(* takes all of its targets in one step or none of them, and gives them    *)
(* back all at once.  This is the abstract specification that Iter8Cache   *)
(* implements; it has no counterpart in the source of its own.             *)
(***************************************************************************)
CONSTANTS
  Experiments,  \* the experiments that may compete
  Targets       \* the targets they compete for

VARIABLE held   \* held[e]: the targets e holds

Disjoint(e, ts) == \A o \in Experiments \ {e} : held[o] \cap ts = {}

Init == held = [e \in Experiments |-> {}]

Acquire(e) ==
  /\ held[e] = {}
  /\ \E ts \in (SUBSET Targets) \ {{}} :
       /\ Disjoint(e, ts)
       /\ held' = [held EXCEPT ![e] = ts]

Release(e) ==
  /\ held[e] # {}
  /\ held' = [held EXCEPT ![e] = {}]

\* The table is in memory: a restart forgets every holder.
Reset == held' = [e \in Experiments |-> {}]

Next == (\E e \in Experiments : Acquire(e) \/ Release(e)) \/ Reset

Spec == Init /\ [][Next]_held

(***************************************************************************)
(* No target is ever held by two experiments.                              *)
(***************************************************************************)
Exclusive == \A e, o \in Experiments : e # o => held[e] \cap held[o] = {}
=============================================================================
