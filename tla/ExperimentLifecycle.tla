------------------------- MODULE ExperimentLifecycle -------------------------
(***************************************************************************)
(* What a user may rely on when watching an Experiment object: the life an *)
(* experiment goes through at the API server.  It is set going, protected  *)
(* by a finalizer before anything else is recorded, iterates one by one,   *)
(* may pause and go on, completes for good, and goes.  This is the         *)
(* abstract specification that Reconciler implements whatever users,       *)
(* targets, stale caches, failed calls and crashes do; it has no           *)
(* counterpart in the source of its own.                                   *)
(***************************************************************************)
EXTENDS Naturals

CONSTANTS
  Experiments,  \* the experiments users may create
  Limit,        \* experiment -> how often it iterates at most
  Absent        \* the object does not exist

VARIABLE life   \* experiment -> what its object shows, or Absent

Newborn == [phase |-> "", iteration |-> 0, finalizer |-> FALSE, deleting |-> FALSE]

Exists(e) == life[e] # Absent

\* At work: set going, protected and not completed.
Active(e) ==
  /\ Exists(e)
  /\ life[e].finalizer
  /\ life[e].phase \in {"Progressing", "Pause"}

Becomes(e, new) == life' = [life EXCEPT ![e] = new]

Init == life = [e \in Experiments |-> Absent]

Create(e) ==
  /\ ~Exists(e)
  /\ Becomes(e, Newborn)

SetGoing(e) ==
  /\ Exists(e)
  /\ life[e].phase = ""
  /\ Becomes(e, [life[e] EXCEPT !.phase = "Progressing"])

Protect(e) ==
  /\ Exists(e)
  /\ life[e].phase = "Progressing"
  /\ ~life[e].finalizer
  /\ Becomes(e, [life[e] EXCEPT !.finalizer = TRUE])

\* One more iteration; the last one allowed completes the experiment.  An object
\* that is being deleted does not iterate.
Iterate(e) ==
  /\ Active(e)
  /\ ~life[e].deleting
  /\ life[e].iteration < Limit[e]
  /\ \E phase \in {"Progressing", "Completed"} :
       /\ phase = "Progressing" => life[e].iteration + 1 < Limit[e]
       /\ Becomes(e, [life[e] EXCEPT !.phase = phase, !.iteration = @ + 1])

PauseOrResume(e) ==
  /\ Active(e)
  /\ \E phase \in {"Progressing", "Pause"} : Becomes(e, [life[e] EXCEPT !.phase = phase])

Complete(e) ==
  /\ Active(e)
  /\ Becomes(e, [life[e] EXCEPT !.phase = "Completed"])

\* A deletion waits for the finalizer; without one the object goes at once.
Delete(e) ==
  /\ Exists(e)
  /\ life[e].finalizer
  /\ Becomes(e, [life[e] EXCEPT !.deleting = TRUE])

Go(e) ==
  /\ Exists(e)
  /\ life[e].deleting \/ ~life[e].finalizer
  /\ Becomes(e, Absent)

Next ==
  \E e \in Experiments :
    \/ Create(e) \/ SetGoing(e) \/ Protect(e)
    \/ Iterate(e) \/ PauseOrResume(e) \/ Complete(e)
    \/ Delete(e) \/ Go(e)

Spec == Init /\ [][Next]_life
=============================================================================
