------------------------- MODULE ReactiveJobCluster -------------------------
(***************************************************************************)
(* The API server as the operator sees it, and everybody else who writes   *)
(* to it: users, the job controller, the TTL and garbage collectors.       *)
(*                                                                         *)
(* A resourceVersion is only ever compared with the one an earlier read    *)
(* returned, so the model keeps who still holds the current version of the *)
(* ReactiveJob instead of a counter: rjHeld is the set of processes that   *)
(* read or wrote it and after whom nobody changed it. The fields of a Job  *)
(* never return to an earlier value (deletion and completion are final,    *)
(* nobody adds a finalizer again), so a copy of a Job is current iff it is *)
(* equal to the Job; a conflict over a write that changes none of these    *)
(* fields, such as a pod count, is a call that fails without effect.       *)
(***************************************************************************)
EXTENDS ReactiveJobWebhook

CONSTANTS
  Workers,          \* operator processes that run the reconciler
  Results,          \* the ways jobs can end in this instance
  Propagations,     \* the policies under which others than the operator delete jobs
  Foreign,          \* whether objects are created with somebody else's finalizer
  MaxUid,           \* bound: objects of the one name, one after the other
  MaxGen,           \* bound: generation users can bring an object to
  MaxDisturbances   \* bound: failed calls, crashes, unrelated writes, and
                    \* changes of what the cluster accepts

ASSUME ResultsAssumption ==
  /\ Results \subseteq {"failed", "complete"}
  /\ Propagations \subseteq {"Background", "Foreground"}
  /\ Foreign \subseteq BOOLEAN

ASSUME BoundsAssumption ==
  MaxUid \in Nat /\ MaxGen \in Nat /\ MaxDisturbances \in Nat

VARIABLES
  rj,             \* the ReactiveJob in the API server
  rjHeld,         \* the workers whose copy of rj is the current version
  jobs,           \* jobs[j]: the Job named j
  due,            \* due[w]: the workqueue of w holds the request, now or later
  disturbances    \* how many disturbances there were

objectVars == <<rj, rjHeld>>

ClusterTypeOK ==
  /\ rj \in ReactiveJob
  /\ rjHeld \in SUBSET Workers
  /\ jobs \in [JobNames -> Job]
  /\ due \in [Workers -> BOOLEAN]
  /\ disturbances \in 0..MaxDisturbances

\* A request for the name may be left from an object that is gone.
ClusterInit ==
  /\ rj = NoReactiveJob(0)
  /\ rjHeld = {}
  /\ jobs = [j \in JobNames |-> NoJob]
  /\ due \in [Workers -> BOOLEAN]
  /\ disturbances = 0

Used(j) == jobs[j].phase # "unused"
Live(j) == jobs[j].phase = "live"

-----------------------------------------------------------------------------
(* Writes and the requests their watch events enqueue *)

Everyone == [w \in DOMAIN due |-> TRUE]

\* The event filter on ReactiveJobs: creations, deletions and updates of the
\* generation pass, changes of status or finalizers alone do not.
ReactiveJobPredicate(old, new) == old.there # new.there \/ old.gen # new.gen

WriteReactiveJob(obj, holders) ==
  /\ rj' = obj
  /\ rjHeld' = holders
  /\ due' = IF ReactiveJobPredicate(rj, obj) THEN Everyone ELSE due

\* Every event of a generated job is mapped to its ReactiveJob.
WriteJob(j, job) ==
  /\ jobs' = [jobs EXCEPT ![j] = job]
  /\ due' = Everyone

Disturb ==
  /\ disturbances < MaxDisturbances
  /\ disturbances' = disturbances + 1

-----------------------------------------------------------------------------
(* Users, and the other controllers that own finalizers *)

UserCreates(tmpl, foreign) ==
  /\ ~rj.there
  /\ rj.uid < MaxUid
  /\ Validate(NewReactiveJob(rj.uid + 1, tmpl, foreign))
  /\ WriteReactiveJob(NewReactiveJob(rj.uid + 1, tmpl, foreign), {})
  /\ UNCHANGED <<jobs, disturbances>>

\* A write of the spec; it may leave the template as it is to the hash.
UserChangesTemplate(tmpl) ==
  /\ rj.there
  /\ rj.gen < MaxGen
  /\ Validate([rj EXCEPT !.tmpl = tmpl])
  /\ WriteReactiveJob([rj EXCEPT !.gen = @ + 1, !.tmpl = tmpl], {})
  /\ UNCHANGED <<jobs, disturbances>>

\* Marking an object for deletion advances its generation.
UserDeletes ==
  /\ rj.there
  /\ ~rj.deleting
  /\ WriteReactiveJob(Stored([rj EXCEPT !.gen = @ + 1, !.deleting = TRUE]), {})
  /\ UNCHANGED <<jobs, disturbances>>

ForeignFinalizerRemoved ==
  /\ rj.there
  /\ rj.foreign
  /\ Validate(rj)
  /\ WriteReactiveJob(Stored([rj EXCEPT !.foreign = FALSE]), {})
  /\ UNCHANGED <<jobs, disturbances>>

ForeignFinalizerAdded ==
  /\ rj.there
  /\ ~rj.deleting
  /\ ~rj.foreign
  /\ Validate(rj)
  /\ WriteReactiveJob([rj EXCEPT !.foreign = TRUE], {})
  /\ Disturb
  /\ UNCHANGED jobs

\* An annotation is written: a new version, and an event that passes the filter.
Annotated ==
  /\ rj.there
  /\ Validate(rj)
  /\ rjHeld' = {}
  /\ due' = Everyone
  /\ Disturb
  /\ UNCHANGED <<rj, jobs>>

-----------------------------------------------------------------------------
(* The job controller, the TTL controller or a user, the garbage collector *)

JobFinishes(j, result) ==
  /\ Live(j)
  /\ jobs[j].result = "running"
  /\ WriteJob(j, [jobs[j] EXCEPT !.result = result])
  /\ UNCHANGED <<objectVars, disturbances>>

JobDeleted(j, propagation) ==
  /\ Live(j)
  /\ ~jobs[j].deleting
  /\ WriteJob(j, StoredJob([jobs[j] EXCEPT !.deleting = TRUE,
                                           !.fg = propagation = "Foreground"]))
  /\ UNCHANGED <<objectVars, disturbances>>

\* The pods of a job in foreground deletion are gone.
JobCollected(j) ==
  /\ Live(j)
  /\ jobs[j].fg
  /\ WriteJob(j, StoredJob([jobs[j] EXCEPT !.fg = FALSE]))
  /\ UNCHANGED <<objectVars, disturbances>>

-----------------------------------------------------------------------------
(* What the cluster accepts *)

TemplateRejected(tmpl) ==
  /\ tmpl \in Breakable \cap creatable
  /\ creatable' = creatable \ {tmpl}
  /\ Disturb
  /\ UNCHANGED <<objectVars, jobs, due>>

TemplateAccepted(tmpl) ==
  /\ tmpl \in Breakable \ creatable
  /\ creatable' = creatable \cup {tmpl}
  /\ UNCHANGED <<objectVars, jobs, due, disturbances>>

Acceptance == \E tmpl \in Breakable : TemplateRejected(tmpl) \/ TemplateAccepted(tmpl)

Others ==
  \/ \E tmpl \in Templates, foreign \in Foreign : UserCreates(tmpl, foreign)
  \/ \E tmpl \in Templates : UserChangesTemplate(tmpl)
  \/ UserDeletes
  \/ ForeignFinalizerRemoved
  \/ ForeignFinalizerAdded
  \/ Annotated
  \/ \E j \in JobNames, result \in Results : JobFinishes(j, result)
  \/ \E j \in JobNames, propagation \in Propagations : JobDeleted(j, propagation)
  \/ \E j \in JobNames : JobCollected(j)

Environment ==
  \/ Acceptance
  \/ Others /\ UNCHANGED creatable
=============================================================================
