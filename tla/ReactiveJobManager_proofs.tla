---------------------- MODULE ReactiveJobManager_proofs ----------------------
(***************************************************************************)
(* Proofs about the processes of the operator with leader election, for    *)
(* any number of processes: only one reconciles at a time, and an          *)
(* up-to-date status Ready is truthful whoever leads.                      *)
(***************************************************************************)
EXTENDS ReactiveJobManager, ReactiveJobController_proofs

LEMMA ManagerInvInit == ManagerInit => ManagerInv /\ ReadyInv
<1> SUFFICES ASSUME ManagerInit PROVE ManagerInv /\ ReadyInv
  OBVIOUS
<1>1. Init /\ ReadyInv
  BY ReadyInvInit DEF ManagerInit
<1>2. TypeOK
  BY <1>1 DEF Init, WebhookInit, WebhookTypeOK, ReadyInv, TypeOK
<1>3. ManagerTypeOK
  BY <1>2 DEF ManagerInit, ManagerTypeOK, Phases
<1>4. \A w \in Workers : run[w].pc = "idle"
  BY <1>1 DEF Init, NoRun
<1>5. LeaseOK
  BY <1>4 DEF ManagerInit, LeaseOK, Renewing
<1>6. RestOK
  BY <1>1 DEF Init, ClusterInit, RestOK
<1> QED BY <1>1, <1>3, <1>5, <1>6 DEF ManagerInv

-----------------------------------------------------------------------------
(* What the steps do to the reconcilers *)

\* The steps of Reconcile change no other worker's local variables.
LEMMA ReconcileOfOne ==
  ASSUME ReadyInv, NEW w \in Workers, Reconcile(w)
  PROVE  \A v \in Workers \ {w} : run'[v] = run[v]
<1>1. run \in [Workers -> ReconcileRun]
  BY DEF ReadyInv, ControllerTypeOK
<1>2. CASE Get(w)
  BY <1>1, <1>2 DEF Get, Continue
<1>3. CASE ListJobs(w)
  BY <1>1, <1>3 DEF ListJobs, Continue, Disturbed
<1>4. CASE SetFinalizer(w)
  BY <1>1, <1>4 DEF SetFinalizer, Continue, Disturbed
<1>5. CASE CreateJob(w)
  BY <1>1, <1>5 DEF CreateJob, Answered, Continue, Disturbed
<1>6. CASE ReleaseJob(w)
  BY <1>1, <1>6 DEF ReleaseJob, Answered, Continue, Disturbed
<1>7. CASE PurgeJob(w)
  BY <1>1, <1>7 DEF PurgeJob, Answered, Continue, Disturbed
<1>8. CASE ClearFinalizer(w)
  BY <1>1, <1>8 DEF ClearFinalizer, Return, Continue, Disturbed
<1>9. CASE UpdateStatus(w)
  BY <1>1, <1>9 DEF UpdateStatus, Return
<1> QED
  BY <1>2, <1>3, <1>4, <1>5, <1>6, <1>7, <1>8, <1>9 DEF Reconcile

\* A process that ends forgets its local variables.
LEMMA CrashOfOne ==
  ASSUME ReadyInv, NEW w \in Workers, Crash(w)
  PROVE  /\ run'[w].pc = "idle"
         /\ \A v \in Workers \ {w} : run'[v] = run[v]
<1>1. run \in [Workers -> ReconcileRun] /\ run' = [run EXCEPT ![w] = NoRun]
  BY DEF ReadyInv, ControllerTypeOK, Crash, Return
<1> QED BY <1>1 DEF NoRun

\* An election only puts a request back into the queue.
LEMMA ElectedKeepsReadyInv ==
  ASSUME ReadyInv, NEW w \in Workers, Elected(w)
  PROVE  ReadyInv'
<1>1. /\ due' = [due EXCEPT ![w] = TRUE]
      /\ UNCHANGED <<rj, rjHeld, jobs, disturbances, run>>
  BY DEF Elected, objectVars
<1>2. ControllerTypeOK'
  BY <1>1 DEF ReadyInv, ControllerTypeOK, ClusterTypeOK
<1> QED BY <1>1, <1>2 DEF ReadyInv, CopyIsCurrent

\* Every step of the managers is a step of the reconcilers, changes nothing they
\* see, or is an election.
LEMMA ManagerStep ==
  ASSUME [ManagerNext]_allVars
  PROVE  [Next]_vars \/ \E w \in Workers : Elected(w)
<1>1. ASSUME NEW w \in Workers, Leads(w) PROVE Next
  BY <1>1 DEF Leads, Next
<1>2. ASSUME NEW w \in Workers, Manager(w), ~Elected(w) PROVE [Next]_vars
  BY <1>2 DEF Manager, StartManager, Terminated, ReconcilerStops, ReleaseLease,
              Dies, Next
<1>3. CASE Environment /\ UNCHANGED <<run, managerVars>>
  BY <1>3 DEF Next
<1>4. CASE UNCHANGED allVars
  BY <1>4 DEF allVars
<1> QED BY <1>1, <1>2, <1>3, <1>4 DEF ManagerNext

LEMMA ReadyInvManagerNext ==
  ASSUME ReadyInv, [ManagerNext]_allVars
  PROVE  ReadyInv'
BY ManagerStep, ReadyInvNext, ElectedKeepsReadyInv

-----------------------------------------------------------------------------
(* The lease *)

LEMMA ManagerTypeNext ==
  ASSUME ReadyInv, ManagerTypeOK, [ManagerNext]_allVars
  PROVE  ManagerTypeOK'
<1>1. ControllerTypeOK'
  BY ReadyInvManagerNext DEF ReadyInv
<1>2. WebhookTypeOK'
  <2>1. ASSUME NEW w \in Workers, Elected(w) PROVE WebhookTypeOK'
    BY <2>1 DEF Elected, WebhookTypeOK, ManagerTypeOK, TypeOK
  <2> QED BY <2>1, ManagerStep, WebhookTypeNext DEF ManagerTypeOK, TypeOK
<1>3. /\ phase' \in [Workers -> Phases]
      /\ lease' \in Workers \cup {NoHolder}
  BY DEF ManagerTypeOK, ManagerNext, allVars, managerVars, Leads, Manager,
         StartManager, Elected, Terminated, ReconcilerStops, ReleaseLease, Dies,
         Phases
<1> QED BY <1>1, <1>2, <1>3 DEF ManagerTypeOK, TypeOK

LEMMA LeaseNext ==
  ASSUME ReadyInv, ManagerInv, [ManagerNext]_allVars
  PROVE  LeaseOK'
<1>1. /\ phase \in [Workers -> Phases]
      /\ run \in [Workers -> ReconcileRun]
      /\ LeaseOK
  BY DEF ManagerInv, ManagerTypeOK, TypeOK, ControllerTypeOK
<1>2. ASSUME NEW w \in Workers, Leads(w) PROVE LeaseOK'
  <2>1. /\ \A v \in Workers \ {w} : run'[v] = run[v]
        /\ phase[w] \in {"leading", "stopping"}
        /\ UNCHANGED <<phase, lease>>
    BY <1>2, ReconcileOfOne DEF Leads, managerVars
  <2> QED BY <1>1, <2>1 DEF LeaseOK
<1>3. ASSUME NEW w \in Workers, StartManager(w) PROVE LeaseOK'
  BY <1>1, <1>3 DEF StartManager, vars, LeaseOK, Renewing
\* Nobody else renews the lease: it has expired.
<1>4. ASSUME NEW w \in Workers, Elected(w) PROVE LeaseOK'
  <2>1. /\ lease \notin {v \in Workers : phase[v] \in Renewing}
        /\ lease' = w
        /\ phase' = [phase EXCEPT ![w] = "leading"]
        /\ UNCHANGED run
    BY <1>4 DEF Elected, MayLead, Expired
  <2>2. \A v \in Workers : phase[v] \notin Renewing
    BY <1>1, <2>1 DEF LeaseOK
  <2> QED BY <1>1, <2>1, <2>2 DEF LeaseOK
<1>5. ASSUME NEW w \in Workers, Terminated(w) PROVE LeaseOK'
  BY <1>1, <1>5 DEF Terminated, vars, LeaseOK, Renewing
<1>6. ASSUME NEW w \in Workers, ReconcilerStops(w) PROVE LeaseOK'
  <2>1. /\ run'[w].pc = "idle"
        /\ \A v \in Workers \ {w} : run'[v] = run[v]
        /\ phase[w] = "stopping"
        /\ phase' = [phase EXCEPT ![w] = "stopped"]
        /\ UNCHANGED lease
    BY <1>6, CrashOfOne DEF ReconcilerStops
  <2> QED BY <1>1, <2>1 DEF LeaseOK, Renewing
\* The lease is released when the reconciler has stopped.
<1>7. ASSUME NEW w \in Workers, ReleaseLease(w) PROVE LeaseOK'
  <2>1. /\ phase[w] = "stopped" /\ lease = w
        /\ lease' = NoHolder
        /\ phase' = [phase EXCEPT ![w] = "down"]
        /\ UNCHANGED run
    BY <1>7, <1>1 DEF ReleaseLease, ReleasesLeaseAt, vars
  <2>2. \A v \in Workers \ {w} : phase'[v] \notin Renewing
    BY <1>1, <2>1 DEF LeaseOK
  <2> QED BY <1>1, <2>1, <2>2 DEF LeaseOK, Renewing
<1>8. ASSUME NEW w \in Workers, Dies(w) PROVE LeaseOK'
  <2>1. /\ run'[w].pc = "idle"
        /\ \A v \in Workers \ {w} : run'[v] = run[v]
    BY <1>1, <1>8, CrashOfOne DEF Dies, vars, LeaseOK
  <2>2. phase' = [phase EXCEPT ![w] = "down"] /\ UNCHANGED lease
    BY <1>8 DEF Dies
  <2> QED BY <1>1, <2>1, <2>2 DEF LeaseOK, Renewing
<1>9. CASE Environment /\ UNCHANGED <<run, managerVars>>
  BY <1>1, <1>9 DEF managerVars, LeaseOK
<1>10. CASE UNCHANGED allVars
  BY <1>1, <1>10 DEF allVars, vars, managerVars, LeaseOK
<1> QED
  BY <1>2, <1>3, <1>4, <1>5, <1>6, <1>7, <1>8, <1>9, <1>10
     DEF ManagerNext, Manager

-----------------------------------------------------------------------------
(* What a process leaves behind *)

\* A Reconcile that goes on is not idle.
LEMMA ReleaseGoesOn ==
  ASSUME NEW r \in ReconcileRun
  PROVE  /\ ReleaseNext(r).pc # "idle"
         /\ CreateOrUpdate(r).pc # "idle"
         /\ PurgeNext(r).pc # "idle"
<1>1. ASSUME NEW s \in ReconcileRun PROVE ReleaseNext(s).pc # "idle"
  <2>1. [s EXCEPT !.obj.status.cur = s.first] \in ReconcileRun
    BY DEF ReconcileRun, ReactiveJob, ReactiveJobStatus
  <2>2. Outcome(s.list[s.first]) \in ReactiveJobStates
    BY DEF Outcome, ReactiveJobStates
  <2>3. ReportJob(s).pc = "status"
    BY <2>1, <2>2, ReportFacts DEF ReportJob
  <2> QED BY <2>3 DEF ReleaseNext, ReconcileRun
<1>2. CreateOrUpdate(r).pc # "idle"
  <2>1. [r EXCEPT !.todo = Superseded(r)] \in ReconcileRun
    BY DEF ReconcileRun, Superseded, Listed
  <2>2. [WithoutList(r) EXCEPT !.pc = "create"].pc = "create"
    BY DEF WithoutList, ReconcileRun
  <2> QED BY <1>1, <2>1, <2>2 DEF CreateOrUpdate
<1>3. PurgeNext(r).pc # "idle"
  BY ReportFacts DEF PurgeNext, ReconcileRun, ReactiveJobStates
<1> QED BY <1>1, <1>2, <1>3

Resting(r) == r.pc = "idle" => r = NoRun

LEMMA DispatchRests ==
  ASSUME NEW r \in ReconcileRun
  PROVE  Resting(Dispatch(r))
<1>1. Delete(r).pc = "idle" => Delete(r) = NoRun
  <2>1. [r EXCEPT !.pc = "clearFinalizer"].pc = "clearFinalizer"
    BY DEF ReconcileRun
  <2> QED BY <2>1, ReleaseGoesOn DEF Delete
<1>2. Report(r, "DeletionBlocked").pc = "status"
  BY ReportFacts DEF ReactiveJobStates
<1>3. [r EXCEPT !.pc = "setFinalizer"].pc = "setFinalizer"
  BY DEF ReconcileRun
<1> QED BY <1>1, <1>2, <1>3, ReleaseGoesOn DEF Dispatch, Resting

LEMMA CallRests ==
  ASSUME ReadyInv, NEW w \in Workers, Resting(run[w]), Reconcile(w)
  PROVE  Resting(run'[w])
<1>1. /\ run \in [Workers -> ReconcileRun] /\ run[w] \in ReconcileRun
      /\ rj \in ReactiveJob /\ jobs \in [JobNames -> Job]
  BY DEF ReadyInv, ControllerTypeOK, ClusterTypeOK
<1>2. Fail(run[w]).pc = "status"
  BY <1>1, ReportFacts DEF Fail, ReactiveJobStates
<1>3. Disturbed(w) => Resting(run'[w])
  BY <1>1, <1>2 DEF Disturbed, Resting
<1>4. ASSUME NEW r, Resting(r) PROVE Continue(w, r) => Resting(run'[w])
  BY <1>1, <1>4 DEF Continue, Resting
<1>5. Resting(NoRun) /\ Resting(Fail(run[w]))
  BY <1>2 DEF Resting
<1>6. CASE Get(w)
  <2>1. [NoRun EXCEPT !.pc = "list", !.obj = Acknowledge(rj)].pc = "list"
    BY DEF NoRun
  <2>2. [NoRun EXCEPT !.obj = Acknowledge(rj)] \in ReconcileRun
    <3>1. rj.status \in ReactiveJobStatus /\ rj.gen \in Nat
      BY <1>1 DEF ReactiveJob
    <3>2. [rj.status EXCEPT !.obs = rj.gen] \in ReactiveJobStatus
      BY <3>1 DEF ReactiveJobStatus
    <3>3. Acknowledge(rj) \in ReactiveJob
      BY <1>1, <3>2 DEF Acknowledge, ReactiveJob
    <3> QED BY <3>3, EmptyValuesType DEF ReconcileRun
  <2>3. Report([NoRun EXCEPT !.obj = Acknowledge(rj)], "New").pc = "status"
    BY <2>2, ReportFacts DEF ReactiveJobStates
  <2>4. Resting(FirstStep(Acknowledge(rj)))
    BY <2>1, <2>3 DEF FirstStep, Resting
  <2> QED BY <1>4, <1>6, <2>4 DEF Get
<1>7. CASE ListJobs(w)
  <2> DEFINE deps == Dependents(run[w].obj.uid)
             seen == [j \in JobNames |-> IF j \in deps THEN jobs[j] ELSE NoJob]
  <2>1. \A first \in IF deps = {} THEN {None} ELSE Newest(deps, jobs) :
          [run[w] EXCEPT !.list = seen, !.first = first] \in ReconcileRun
    BY <1>1, EmptyValuesType DEF ReconcileRun, Newest, Dependents
  <2>2. \A first \in IF deps = {} THEN {None} ELSE Newest(deps, jobs) :
          Resting(Dispatch([run[w] EXCEPT !.list = seen, !.first = first]))
    BY <2>1, DispatchRests
  <2> QED BY <1>3, <1>4, <1>7, <2>2 DEF ListJobs
<1>8. CASE SetFinalizer(w)
  <2>1. [run[w] EXCEPT !.obj = [rj EXCEPT !.fin = TRUE]] \in ReconcileRun
    BY <1>1 DEF ReconcileRun, ReactiveJob
  <2>2. Resting(CreateOrUpdate([run[w] EXCEPT !.obj = [rj EXCEPT !.fin = TRUE]]))
    BY <2>1, ReleaseGoesOn DEF Resting
  <2> QED BY <1>3, <1>4, <1>5, <1>8, <2>2 DEF SetFinalizer
<1>9. CASE CreateJob(w)
  <2>1. Resting(Report(run[w], "Processing"))
    BY <1>1, ReportFacts DEF Resting, ReactiveJobStates
  <2> QED BY <1>3, <1>4, <1>5, <1>9, <2>1 DEF CreateJob, Answered
<1>10. CASE ReleaseJob(w)
  <2>1. \A j : Resting(ReleaseNext([run[w] EXCEPT !.todo = @ \ {j}]))
    <3>1. \A j : [run[w] EXCEPT !.todo = @ \ {j}] \in ReconcileRun
      BY <1>1 DEF ReconcileRun
    <3> QED BY <3>1, ReleaseGoesOn DEF Resting
  <2> QED BY <1>3, <1>4, <1>5, <1>10, <2>1 DEF ReleaseJob, Answered
<1>11. CASE PurgeJob(w)
  <2>1. \A j \in JobNames :
          /\ Resting(PurgeNext([run[w] EXCEPT !.list[j].fin = FALSE]))
          /\ Resting(PurgeNext([run[w] EXCEPT !.list[j].deleting = TRUE]))
    <3>1. \A j \in JobNames : /\ [run[w] EXCEPT !.list[j].fin = FALSE] \in ReconcileRun
                              /\ [run[w] EXCEPT !.list[j].deleting = TRUE] \in ReconcileRun
      <4> SUFFICES ASSUME NEW j \in JobNames
                   PROVE  /\ [run[w] EXCEPT !.list[j].fin = FALSE] \in ReconcileRun
                          /\ [run[w] EXCEPT !.list[j].deleting = TRUE] \in ReconcileRun
        OBVIOUS
      <4>1. run[w].list \in [JobNames -> Job] /\ run[w].list[j] \in Job
        BY <1>1 DEF ReconcileRun
      <4>2. /\ [run[w].list[j] EXCEPT !.fin = FALSE] \in Job
            /\ [run[w].list[j] EXCEPT !.deleting = TRUE] \in Job
        BY <4>1 DEF Job
      <4> QED BY <1>1, <4>1, <4>2 DEF ReconcileRun
    <3> QED BY <3>1, ReleaseGoesOn DEF Resting
  <2>2. \A j \in Newest(run[w].todo, run[w].list) : j \in JobNames
    BY <1>1 DEF Newest, ReconcileRun
  <2> QED BY <1>3, <1>4, <1>5, <1>11, <2>1, <2>2 DEF PurgeJob, Answered
<1>12. CASE ClearFinalizer(w)
  BY <1>1, <1>3, <1>4, <1>5, <1>12 DEF ClearFinalizer, Return
<1>13. CASE UpdateStatus(w)
  BY <1>1, <1>5, <1>13 DEF UpdateStatus, Return
<1> QED
  BY <1>6, <1>7, <1>8, <1>9, <1>10, <1>11, <1>12, <1>13 DEF Reconcile

\* A version is held only by whoever held it, or has just read or written it.
LEMMA CallHolds ==
  ASSUME NEW w \in Workers, Reconcile(w)
  PROVE  rjHeld' \subseteq rjHeld \cup {w}
<1>1. CASE Get(w) \/ ListJobs(w) \/ SetFinalizer(w) \/ CreateJob(w)
  BY <1>1 DEF Get, ListJobs, SetFinalizer, CreateJob, WriteReactiveJob, NoEffect, objectVars
<1>2. CASE ReleaseJob(w) \/ PurgeJob(w) \/ ClearFinalizer(w) \/ UpdateStatus(w)
  BY <1>2 DEF ReleaseJob, PurgeJob, ClearFinalizer, UpdateStatus, WriteReactiveJob,
              NoEffect, objectVars
<1> QED BY <1>1, <1>2 DEF Reconcile

LEMMA OthersHoldLess ==
  ASSUME Environment
  PROVE  rjHeld' \subseteq rjHeld
<1>1. CASE Acceptance
  BY <1>1 DEF Acceptance, TemplateRejected, TemplateAccepted, objectVars
<1>2. CASE Others
  BY <1>2 DEF Others, UserCreates, UserChangesTemplate, UserDeletes,
     ForeignFinalizerRemoved, ForeignFinalizerAdded, Annotated, JobFinishes, JobDeleted,
     JobCollected, WriteReactiveJob, objectVars
<1> QED BY <1>1, <1>2 DEF Environment

LEMMA RestNext ==
  ASSUME ReadyInv, ManagerInv, [ManagerNext]_allVars
  PROVE  RestOK'
<1>1. /\ phase \in [Workers -> Phases]
      /\ run \in [Workers -> ReconcileRun]
      /\ rjHeld \subseteq Workers
      /\ LeaseOK /\ RestOK
  BY DEF ManagerInv, ManagerTypeOK, TypeOK, ControllerTypeOK, ClusterTypeOK
<1>2. ASSUME NEW w \in Workers, Leads(w) PROVE RestOK'
  <2>1. /\ \A v \in Workers \ {w} : run'[v] = run[v]
        /\ phase[w] \in {"leading", "stopping"}
        /\ UNCHANGED phase
        /\ rjHeld' \subseteq rjHeld \cup {w}
    BY <1>2, ReconcileOfOne, CallHolds DEF Leads, managerVars
  <2>2. Resting(run'[w])
    BY <1>1, <1>2, CallRests DEF Leads, RestOK, Resting
  <2> QED BY <1>1, <2>1, <2>2 DEF RestOK, Resting
<1>3. ASSUME NEW w \in Workers, Crash(w), phase' = [phase EXCEPT ![w] = "stopped"]
                                   \/ phase' = [phase EXCEPT ![w] = "down"]
      PROVE  RestOK'
  <2>1. rjHeld' = rjHeld \ {w} /\ run' = [run EXCEPT ![w] = NoRun]
    BY <1>3 DEF Crash, Return
  <2> QED BY <1>1, <1>3, <2>1 DEF RestOK
<1>4. ASSUME NEW w \in Workers, Manager(w) PROVE RestOK'
  <2>1. CASE StartManager(w) \/ Terminated(w)
    BY <1>1, <2>1 DEF StartManager, Terminated, vars, RestOK
  <2>2. CASE Elected(w)
    BY <1>1, <2>2 DEF Elected, objectVars, RestOK
  <2>3. CASE ReconcilerStops(w)
    BY <1>3, <2>3 DEF ReconcilerStops
  <2>4. CASE ReleaseLease(w)
    BY <1>1, <2>4 DEF ReleaseLease, ReleasesLeaseAt, vars, RestOK
  <2>5. CASE Dies(w)
    <3>1. CASE Crash(w)
      BY <1>3, <2>5, <3>1 DEF Dies
    <3>2. CASE phase[w] = "stopped" /\ UNCHANGED vars
      BY <1>1, <2>5, <3>2 DEF Dies, vars, RestOK
    <3> QED BY <2>5, <3>1, <3>2 DEF Dies
  <2> QED BY <1>4, <2>1, <2>2, <2>3, <2>4, <2>5 DEF Manager
<1>5. CASE Environment /\ UNCHANGED <<run, managerVars>>
  BY <1>1, <1>5, OthersHoldLess DEF managerVars, RestOK
<1>6. CASE UNCHANGED allVars
  BY <1>1, <1>6 DEF allVars, vars, managerVars, RestOK
<1> QED BY <1>2, <1>4, <1>5, <1>6 DEF ManagerNext

-----------------------------------------------------------------------------
(* Theorems *)

\* The lease names whoever renews it, and only that process reconciles; an election
\* finds nothing of an earlier Reconcile.
THEOREM ManagerInvariance == ManagerSpec => [](ManagerInv /\ ReadyInv)
<1>1. ManagerInv /\ ReadyInv /\ [ManagerNext]_allVars => (ManagerInv /\ ReadyInv)'
  <2> SUFFICES ASSUME ManagerInv, ReadyInv, [ManagerNext]_allVars
               PROVE  (ManagerInv /\ ReadyInv)'
    OBVIOUS
  <2>1. ReadyInv'
    BY ReadyInvManagerNext
  <2>2. ManagerTypeOK'
    BY ManagerTypeNext DEF ManagerInv
  <2>3. LeaseOK' /\ RestOK'
    BY LeaseNext, RestNext
  <2> QED BY <2>1, <2>2, <2>3 DEF ManagerInv
<1> QED BY <1>1, ManagerInvInit, PTL DEF ManagerSpec

\* "Enabling this will ensure there is only one active controller manager"
\* (main.go): no two processes are in the middle of a Reconcile at once, for any
\* number of processes that start, stop and die.
THEOREM OneActiveManager == ManagerSpec => []OnlyOneActive
<1>1. ManagerInv => OnlyOneActive
  BY DEF ManagerInv, LeaseOK, Renewing, OnlyOneActive
<1> QED BY <1>1, ManagerInvariance, PTL

\* With leader election, too, an up-to-date status Ready is truthful.
THEOREM ManagerReadiness == ManagerSpec => []ReadyIsTruthful
<1>1. ReadyInv => ReadyIsTruthful
  BY DEF ReadyInv, StatusOK, Completed, ReadyIsTruthful
<1> QED BY <1>1, ManagerInvariance, PTL

\* The phases, the lease and everything they stand beside have their types.
THEOREM ManagerTypeCorrectness == ManagerSpec => []ManagerTypeOK
<1>1. ManagerInv => ManagerTypeOK
  BY DEF ManagerInv
<1> QED BY <1>1, ManagerInvariance, PTL
=============================================================================
