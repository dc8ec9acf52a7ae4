-------------------- MODULE ReactiveJobController_proofs --------------------
(***************************************************************************)
(* Proofs about the reconciler, for any number of workers, templates and   *)
(* job names and any bounds: type correctness, and that an up-to-date      *)
(* status Ready speaks of the template in the spec.                        *)
(***************************************************************************)
EXTENDS ReactiveJobInvariants, TLAPS

-----------------------------------------------------------------------------
(* Types of what Reconcile computes *)

\* SetState leaves everything but the state and the condition as it is.
LEMMA SetStateFacts ==
  ASSUME NEW status \in ReactiveJobStatus, NEW state \in ReactiveJobStates
  PROVE  /\ SetState(status, state) \in ReactiveJobStatus
         /\ SetState(status, state).obs = status.obs
         /\ SetState(status, state).cur = status.cur
         /\ SetState(status, state).state = state
BY DEF SetState, ReadyCondition, ReactiveJobStatus, ReactiveJobStates, None

LEMMA EmptyValuesType ==
  /\ \A uid \in Nat : NoReactiveJob(uid) \in ReactiveJob
  /\ NoJob \in Job
  /\ NoRun \in ReconcileRun
<1>1. FreshStatus \in ReactiveJobStatus
  <2>1. -1 \in Int
    OBVIOUS
  <2> QED BY <2>1 DEF FreshStatus, ReactiveJobStatus
<1>2. \A uid \in Nat : NoReactiveJob(uid) \in ReactiveJob
  BY <1>1 DEF NoReactiveJob, ReactiveJob, None
<1>3. NoJob \in Job
  BY DEF NoJob, Job, None
<1>4. NoRun \in ReconcileRun
  BY <1>2, <1>3 DEF NoRun, ReconcileRun, Calls
<1> QED BY <1>2, <1>3, <1>4

LEMMA StoredType ==
  /\ \A obj \in ReactiveJob : Stored(obj) \in ReactiveJob
  /\ \A job \in Job : StoredJob(job) \in Job
<1>1. \A obj \in ReactiveJob : Stored(obj) \in ReactiveJob
  BY EmptyValuesType DEF Stored, ReactiveJob
<1>2. \A job \in Job : StoredJob(job) \in Job
  BY DEF StoredJob, Job
<1> QED BY <1>1, <1>2

\* The deferred function touches nothing of the copy but its status.
LEMMA ReportFacts ==
  ASSUME NEW r \in ReconcileRun, NEW state \in ReactiveJobStates
  PROVE  /\ Report(r, state) \in ReconcileRun
         /\ Report(r, state).pc = "status"
         /\ Report(r, state).obj =
              [r.obj EXCEPT !.status = SetState(r.obj.status, state)]
<1>1. WithoutList(r) \in ReconcileRun /\ WithoutList(r).obj = r.obj
  BY EmptyValuesType DEF WithoutList, ReconcileRun
<1>2. r.obj \in ReactiveJob /\ r.obj.status \in ReactiveJobStatus
  BY DEF ReconcileRun, ReactiveJob
<1>3. [r.obj EXCEPT !.status = SetState(r.obj.status, state)] \in ReactiveJob
  BY <1>2, SetStateFacts DEF ReactiveJob
<1> QED
  BY <1>1, <1>3 DEF Report, ReconcileRun, Calls
-----------------------------------------------------------------------------
(* What Reconcile computes keeps RunOK and the copy *)

Table == [JobNames -> Job]

\* new is a sound continuation of old.
Continues(new, old, table) ==
  /\ new \in ReconcileRun
  /\ RunOK(new, table)
  /\ new.pc # "idle" => SameObject(new.obj, old.obj)

\* Any state but Ready can be reported, and Ready if the job has completed.
LEMMA ReportOK ==
  ASSUME NEW table \in Table, NEW r \in ReconcileRun,
         NEW state \in ReactiveJobStates,
         r.obj.status.obs <= r.obj.gen,
         state = "Ready" => Completed(r.obj, r.obj.status.cur, table)
  PROVE  Continues(Report(r, state), r, table)
<1> DEFINE new == Report(r, state)
<1>1. /\ new \in ReconcileRun
      /\ new.pc = "status"
      /\ new.obj = [r.obj EXCEPT !.status = SetState(r.obj.status, state)]
  BY ReportFacts
<1>2. r.obj \in ReactiveJob /\ r.obj.status \in ReactiveJobStatus
  BY DEF ReconcileRun, ReactiveJob
<1>3. /\ SameObject(new.obj, r.obj)
      /\ new.obj.status = SetState(r.obj.status, state)
  BY <1>1, <1>2 DEF SameObject, ReactiveJob
<1>4. /\ new.obj.status.obs = r.obj.status.obs
      /\ new.obj.status.cur = r.obj.status.cur
      /\ new.obj.status.state = state
  BY <1>2, <1>3, SetStateFacts
<1>5. ListOK(new, table)
  BY NamesAssumption
     DEF ListOK, Listed, Report, WithoutList, ReconcileRun, NoRun, NoJob
<1>6. RunOK(new, table)
  BY <1>1, <1>3, <1>4, <1>5 DEF RunOK, SameObject, Completed
<1> QED BY <1>1, <1>3, <1>6 DEF Continues

LEMMA FailOK ==
  ASSUME NEW table \in Table, NEW r \in ReconcileRun, RunOK(r, table)
  PROVE  Continues(Fail(r), r, table)
BY ReportOK DEF Fail, RunOK, ReactiveJobStates

\* The outcome of the head of the list is reported with its name.
LEMMA ReportJobOK ==
  ASSUME NEW table \in Table, NEW r \in ReconcileRun,
         RunOK(r, table), HeadOK(r)
  PROVE  Continues(ReportJob(r), r, table)
<1> DEFINE named == [r EXCEPT !.obj.status.cur = r.first]
           job   == r.list[r.first]
<1>1. r.first \in JobNames /\ job \in Job /\ Outcome(job) \in ReactiveJobStates
  BY DEF HeadOK, Listed, Outcome, ReactiveJobStates, ReconcileRun
<1>2. r.obj \in ReactiveJob /\ r.obj.status \in ReactiveJobStatus
  BY DEF ReconcileRun, ReactiveJob
<1>3. [r.obj.status EXCEPT !.cur = r.first] \in ReactiveJobStatus
  BY <1>1, <1>2 DEF ReactiveJobStatus
<1>4. /\ named \in ReconcileRun
      /\ named.obj = [r.obj EXCEPT !.status.cur = r.first]
  BY <1>2, <1>3 DEF ReconcileRun, ReactiveJob
<1>5. /\ SameObject(named.obj, r.obj)
      /\ named.obj.status.cur = r.first
      /\ named.obj.status.obs = r.obj.status.obs
  BY <1>2, <1>4 DEF SameObject, ReactiveJob, ReactiveJobStatus
<1>6. ASSUME Outcome(job) = "Ready" PROVE Completed(named.obj, r.first, table)
  <2>1. job.result = "complete"
    BY <1>6 DEF Outcome
  <2>2. job.uid = r.obj.uid /\ job.tmpl = r.obj.tmpl /\ Mature(job, table[r.first])
    BY DEF HeadOK, RunOK, ListOK
  <2> QED
    BY <1>1, <1>5, <2>1, <2>2 DEF Completed, Mature, SameObject, HeadOK
<1>7. Continues(Report(named, Outcome(job)), named, table)
  BY <1>1, <1>4, <1>5, <1>6, ReportOK DEF RunOK, SameObject
<1> QED
  BY <1>5, <1>7 DEF ReportJob, Continues, SameObject

LEMMA ReleaseNextOK ==
  ASSUME NEW table \in Table, NEW r \in ReconcileRun,
         RunOK(r, table), HeadOK(r)
  PROVE  Continues(ReleaseNext(r), r, table)
<1>1. CASE r.todo = {}
  BY <1>1, ReportJobOK DEF ReleaseNext
<1>2. CASE r.todo # {}
  <2> DEFINE new == [r EXCEPT !.pc = "release"]
  <2>1. new \in ReconcileRun /\ SameObject(new.obj, r.obj)
    BY DEF ReconcileRun, Calls, SameObject
  <2>2. RunOK(new, table)
    BY DEF RunOK, ListOK, HeadOK, Listed, ReconcileRun
  <2> QED BY <1>2, <2>1, <2>2 DEF ReleaseNext, Continues
<1> QED BY <1>1, <1>2

LEMMA CreateOrUpdateOK ==
  ASSUME NEW table \in Table, NEW r \in ReconcileRun,
         RunOK(r, table), ~r.obj.deleting
  PROVE  Continues(CreateOrUpdate(r), r, table)
<1>1. CASE NeedsJob(r)
  <2> DEFINE new == [WithoutList(r) EXCEPT !.pc = "create"]
  <2>1. /\ new \in ReconcileRun
        /\ new.obj = r.obj
        /\ new.pc = "create"
        /\ new.list = NoRun.list /\ new.first = None
    BY EmptyValuesType DEF WithoutList, ReconcileRun, Calls
  <2>2. ListOK(new, table)
    BY <2>1 DEF ListOK, Listed, NoRun, NoJob
  <2>3. RunOK(new, table)
    BY <2>1, <2>2 DEF RunOK
  <2> QED BY <1>1, <2>1, <2>3 DEF CreateOrUpdate, Continues, SameObject
<1>2. CASE ~NeedsJob(r)
  <2> DEFINE new == [r EXCEPT !.todo = Superseded(r)]
  <2>1. /\ new \in ReconcileRun
        /\ new.obj = r.obj /\ new.pc = r.pc
        /\ new.list = r.list /\ new.first = r.first
    BY DEF ReconcileRun, Superseded, Listed
  <2>2. RunOK(new, table)
    BY <2>1 DEF RunOK, ListOK, HeadOK, Listed
  <2>3. HeadOK(new)
    BY <1>2, <2>1 DEF NeedsJob, HeadOK, RunOK, ListOK, Listed
  <2>4. Continues(ReleaseNext(new), new, table)
    BY <2>1, <2>2, <2>3, ReleaseNextOK
  <2> QED BY <1>2, <2>1, <2>4 DEF CreateOrUpdate, Continues
<1> QED BY <1>1, <1>2

LEMMA PurgeNextOK ==
  ASSUME NEW table \in Table, NEW r \in ReconcileRun, RunOK(r, table)
  PROVE  Continues(PurgeNext(r), r, table)
<1>1. CASE ToPurge(r) = {}
  BY <1>1, ReportOK DEF PurgeNext, RunOK, ReactiveJobStates
<1>2. CASE ToPurge(r) # {}
  <2> DEFINE new == [r EXCEPT !.pc = "purge", !.todo = ToPurge(r)]
  <2>1. /\ new \in ReconcileRun
        /\ new.obj = r.obj /\ new.pc = "purge"
        /\ new.list = r.list /\ new.first = r.first
    BY DEF ReconcileRun, Calls, ToPurge, Listed
  <2>2. RunOK(new, table)
    BY <2>1 DEF RunOK, ListOK, Listed
  <2> QED BY <1>2, <2>1, <2>2 DEF PurgeNext, Continues, SameObject
<1> QED BY <1>1, <1>2

\* Forgetting everything is always sound.
LEMMA NoRunOK ==
  ASSUME NEW table \in Table, NEW r \in ReconcileRun
  PROVE  Continues(NoRun, r, table)
<1>1. NoRun \in ReconcileRun
  BY EmptyValuesType
<1>2. ListOK(NoRun, table)
  BY DEF ListOK, Listed, NoRun, NoJob
<1>3. NoRun.obj.status.obs <= NoRun.obj.gen /\ NoRun.pc = "idle"
  BY DEF NoRun, NoReactiveJob, FreshStatus
<1> QED BY <1>1, <1>2, <1>3 DEF Continues, RunOK

\* The three cases of Reconcile continue soundly from a sound list.
LEMMA DispatchOK ==
  ASSUME NEW table \in Table, NEW r \in ReconcileRun, RunOK(r, table)
  PROVE  Continues(Dispatch(r), r, table)
<1>1. CASE ~r.obj.deleting /\ r.obj.fin
  BY <1>1, CreateOrUpdateOK DEF Dispatch
<1>2. CASE ~r.obj.deleting /\ ~r.obj.fin
  <2> DEFINE new == [r EXCEPT !.pc = "setFinalizer"]
  <2>1. new \in ReconcileRun /\ SameObject(new.obj, r.obj)
    BY DEF ReconcileRun, Calls, SameObject
  <2>2. RunOK(new, table)
    BY <1>2 DEF RunOK, ListOK, Listed, ReconcileRun
  <2> QED BY <1>2, <2>1, <2>2 DEF Dispatch, Continues
<1>3. CASE r.obj.deleting /\ r.obj.foreign
  BY <1>3, ReportOK DEF Dispatch, RunOK, ReactiveJobStates
<1>4. CASE r.obj.deleting /\ ~r.obj.foreign
  <2> DEFINE new == [r EXCEPT !.pc = "clearFinalizer"]
  <2>1. new \in ReconcileRun /\ SameObject(new.obj, r.obj)
    BY DEF ReconcileRun, Calls, SameObject
  <2>2. RunOK(new, table)
    BY DEF RunOK, ListOK, Listed, ReconcileRun
  <2>3. Dispatch(r) \in {PurgeNext(r), new, NoRun}
    BY <1>4 DEF Dispatch, Delete
  <2> QED BY <2>1, <2>2, <2>3, PurgeNextOK, NoRunOK DEF Continues
<1> QED BY <1>1, <1>2, <1>3, <1>4 DEF ReconcileRun, ReactiveJob
-----------------------------------------------------------------------------
(* What a step does to the jobs, and to the runs of the other workers *)

AllMature(table, later) ==
  \A j \in JobNames : table[j].phase # "unused" => Mature(table[j], later[j])

LEMMA CompletedStays ==
  ASSUME NEW table \in Table, NEW later \in Table, AllMature(table, later),
         NEW obj \in ReactiveJob, NEW j, Completed(obj, j, table)
  PROVE  Completed(obj, j, later)
BY DEF AllMature, Completed, Mature

LEMMA RunOKStays ==
  ASSUME NEW table \in Table, NEW later \in Table, AllMature(table, later),
         NEW r \in ReconcileRun, RunOK(r, table)
  PROVE  RunOK(r, later)
<1>1. ListOK(r, later)
  BY DEF RunOK, ListOK, Listed, AllMature, Mature
<1>2. r.obj \in ReactiveJob
  BY DEF ReconcileRun
<1> QED BY <1>1, <1>2, CompletedStays DEF RunOK

\* A write of one job, if it is a job that matures or the first of its name.
LEMMA WriteJobFacts ==
  ASSUME ControllerTypeOK, NEW j \in JobNames, NEW job \in Job, WriteJob(j, job),
         Used(j) => Mature(jobs[j], job)
  PROVE  /\ jobs' \in Table
         /\ AllMature(jobs, jobs')
         /\ due' \in [Workers -> BOOLEAN]
<1>1. jobs \in Table /\ jobs' = [jobs EXCEPT ![j] = job]
  BY DEF ControllerTypeOK, ClusterTypeOK, WriteJob, Table
<1>2. \A k \in JobNames : jobs[k].phase # "unused" => Mature(jobs[k], jobs'[k])
  BY <1>1 DEF Used, Mature, Table
<1>3. due' \in [Workers -> BOOLEAN]
  BY DEF WriteJob, Everyone, ControllerTypeOK, ClusterTypeOK
<1> QED BY <1>1, <1>2, <1>3 DEF AllMature, Table

LEMMA SameJobsFacts ==
  ASSUME ControllerTypeOK, UNCHANGED jobs
  PROVE  jobs' \in Table /\ AllMature(jobs, jobs')
BY DEF ControllerTypeOK, ClusterTypeOK, AllMature, Mature, Table

\* Whatever happens, the invariant holds afterwards if jobs only mature, each
\* run continues soundly, and the copies and the status are right.
LEMMA InvariantStep ==
  ASSUME ReadyInv, ControllerTypeOK', AllMature(jobs, jobs'),
         \A v \in Workers : RunOK(run'[v], jobs),
         CopyIsCurrent', StatusOK(rj', jobs)
  PROVE  ReadyInv'
<1>1. /\ jobs \in Table /\ jobs' \in Table
      /\ rj' \in ReactiveJob
      /\ run' \in [Workers -> ReconcileRun]
  BY DEF ReadyInv, ControllerTypeOK, ClusterTypeOK, Table
<1>2. \A v \in Workers : RunOK(run'[v], jobs')
  BY <1>1, RunOKStays
<1>3. StatusOK(rj', jobs')
  BY <1>1, CompletedStays DEF StatusOK
<1> QED BY <1>2, <1>3 DEF ReadyInv

\* A call of worker w that writes no ReactiveJob.
LEMMA WorkerStep ==
  ASSUME ReadyInv, NEW w \in Workers, NEW r,
         run[w].pc # "idle", Continues(r, run[w], jobs),
         run' = [run EXCEPT ![w] = r], UNCHANGED objectVars,
         jobs' \in Table, AllMature(jobs, jobs'),
         due' \in [Workers -> BOOLEAN], disturbances' \in 0..MaxDisturbances
  PROVE  ReadyInv'
<1>1. ControllerTypeOK'
  BY DEF ReadyInv, ControllerTypeOK, ClusterTypeOK, Continues, objectVars, Table
<1>2. \A v \in Workers : RunOK(run'[v], jobs)
  BY DEF ReadyInv, ControllerTypeOK, Continues
<1>3. CopyIsCurrent'
  BY DEF ReadyInv, ControllerTypeOK, CopyIsCurrent, Continues, SameObject, objectVars
<1>4. StatusOK(rj', jobs)
  BY DEF ReadyInv, objectVars
<1> QED BY <1>1, <1>2, <1>3, <1>4, InvariantStep

\* A write of the ReactiveJob by somebody else.
LEMMA ObjectStep ==
  ASSUME ReadyInv, NEW obj \in ReactiveJob, StatusOK(obj, jobs),
         WriteReactiveJob(obj, {}), UNCHANGED <<jobs, run>>,
         disturbances' \in 0..MaxDisturbances
  PROVE  ReadyInv'
<1>1. ControllerTypeOK' /\ AllMature(jobs, jobs')
  BY SameJobsFacts
     DEF ReadyInv, ControllerTypeOK, ClusterTypeOK, WriteReactiveJob, Everyone
<1>2. CopyIsCurrent'
  BY DEF CopyIsCurrent, WriteReactiveJob
<1>3. \A v \in Workers : RunOK(run'[v], jobs)
  BY DEF ReadyInv
<1> QED BY <1>1, <1>2, <1>3, InvariantStep DEF WriteReactiveJob

\* A write of a job by somebody else.
LEMMA JobStep ==
  ASSUME ReadyInv, NEW j \in JobNames, NEW job \in Job, WriteJob(j, job),
         Mature(jobs[j], job), UNCHANGED <<rj, rjHeld, run, disturbances>>
  PROVE  ReadyInv'
<1>1. jobs' \in Table /\ AllMature(jobs, jobs') /\ due' \in [Workers -> BOOLEAN]
  BY WriteJobFacts DEF ReadyInv
<1>2. ControllerTypeOK'
  BY <1>1 DEF ReadyInv, ControllerTypeOK, ClusterTypeOK, Table
<1>3. CopyIsCurrent'
  BY DEF ReadyInv, CopyIsCurrent
<1> QED BY <1>1, <1>2, <1>3, InvariantStep DEF ReadyInv
-----------------------------------------------------------------------------
(* The API calls *)

LEMMA DisturbType ==
  ASSUME ControllerTypeOK, Disturb
  PROVE  disturbances' \in 0..MaxDisturbances
BY BoundsAssumption DEF ControllerTypeOK, ClusterTypeOK, Disturb

\* A call is answered, fails or loses its answer: sound if going on with r is.
LEMMA AnsweredStep ==
  ASSUME ReadyInv, NEW w \in Workers, NEW r,
         run[w].pc # "idle", Continues(r, run[w], jobs),
         Answered(w, r), UNCHANGED objectVars,
         jobs' \in Table, AllMature(jobs, jobs'), due' \in [Workers -> BOOLEAN]
  PROVE  ReadyInv'
<1>1. CASE Continue(w, r)
  BY <1>1, WorkerStep DEF Continue, ReadyInv, ControllerTypeOK, ClusterTypeOK
<1>2. CASE Disturbed(w)
  <2>1. Continues(Fail(run[w]), run[w], jobs)
    BY FailOK DEF ReadyInv, ControllerTypeOK, ClusterTypeOK, Table
  <2>2. run' = [run EXCEPT ![w] = Fail(run[w])]
    BY <1>2 DEF Disturbed, ReadyInv, ControllerTypeOK
  <2>3. disturbances' \in 0..MaxDisturbances
    BY <1>2, DisturbType DEF Disturbed, ReadyInv
  <2> QED BY <2>1, <2>2, <2>3, WorkerStep
<1> QED BY <1>1, <1>2 DEF Answered

\* A call that has no effect on the API server.
LEMMA NoEffectStep ==
  ASSUME ReadyInv, NEW w \in Workers, NEW r,
         run[w].pc # "idle", Continues(r, run[w], jobs),
         Answered(w, r), NoEffect
  PROVE  ReadyInv'
<1>1. jobs' \in Table /\ AllMature(jobs, jobs') /\ due' \in [Workers -> BOOLEAN]
  BY SameJobsFacts DEF NoEffect, ReadyInv, ControllerTypeOK, ClusterTypeOK
<1> QED BY <1>1, AnsweredStep DEF NoEffect

\* ... because it was refused or failed.
LEMMA FailedCall ==
  ASSUME ReadyInv, NEW w \in Workers, run[w].pc # "idle", NoEffect,
         Continue(w, Fail(run[w])) \/ Disturbed(w)
  PROVE  ReadyInv'
<1>1. Continues(Fail(run[w]), run[w], jobs)
  BY FailOK DEF ReadyInv, ControllerTypeOK, ClusterTypeOK, Table
<1> QED BY <1>1, NoEffectStep DEF Answered

LEMMA ListStep ==
  ASSUME ReadyInv, NEW w \in Workers, ListJobs(w)
  PROVE  ReadyInv'
<1> DEFINE deps == Dependents(run[w].obj.uid)
           seen == [j \in JobNames |-> IF j \in deps THEN jobs[j] ELSE NoJob]
           listed(first) == [run[w] EXCEPT !.list = seen, !.first = first]
<1>1. /\ run[w].pc = "list" /\ NoEffect
      /\ run[w] \in ReconcileRun /\ RunOK(run[w], jobs)
      /\ jobs \in Table
  BY DEF ListJobs, ReadyInv, ControllerTypeOK, ClusterTypeOK, Table
<1>2. CASE Disturbed(w)
  BY <1>1, <1>2, FailedCall
<1>3. ASSUME NEW first \in IF deps = {} THEN {None} ELSE Newest(deps, jobs),
             Continue(w, Dispatch(listed(first)))
      PROVE  ReadyInv'
  <2> DEFINE r == listed(first)
  <2>1. seen \in [JobNames -> Job] /\ first \in deps \cup {None} /\ deps \subseteq JobNames
    BY <1>1, EmptyValuesType DEF Newest, Dependents, Table
  <2>2. /\ r \in ReconcileRun
        /\ r.pc = "list" /\ r.obj = run[w].obj
        /\ r.list = seen /\ r.first = first
    BY <1>1, <2>1 DEF ReconcileRun
  <2>3. Listed(r) = deps
    BY <2>1, <2>2 DEF Listed, Dependents, Live, NoJob
  <2>4. ListOK(r, jobs)
    BY <1>1, <2>1, <2>2, <2>3 DEF ListOK, Dependents, Live, Mature, Table
  <2>5. RunOK(r, jobs)
    BY <1>1, <2>2, <2>4 DEF RunOK
  <2>6. Continues(Dispatch(r), run[w], jobs)
    BY <1>1, <2>2, <2>5, DispatchOK DEF Continues
  <2> QED BY <1>1, <1>3, <2>6, NoEffectStep DEF Answered
<1> QED BY <1>2, <1>3 DEF ListJobs

LEMMA CreateStep ==
  ASSUME ReadyInv, NEW w \in Workers, CreateJob(w)
  PROVE  ReadyInv'
<1>1. /\ run[w].pc = "create"
      /\ run[w] \in ReconcileRun /\ RunOK(run[w], jobs)
      /\ jobs \in Table
  BY DEF CreateJob, ReadyInv, ControllerTypeOK, ClusterTypeOK, Table
<1>2. CASE NoEffect /\ (Continue(w, Fail(run[w])) \/ Disturbed(w))
  BY <1>1, <1>2, FailedCall
<1>3. ASSUME NEW j \in JobNames, ~Used(j), WriteJob(j, JobFor(run[w].obj)),
             Answered(w, Report(run[w], "Processing")), UNCHANGED objectVars
      PROVE  ReadyInv'
  <2>1. JobFor(run[w].obj) \in Job
    BY <1>1 DEF JobFor, NoJob, Job, ReconcileRun, ReactiveJob
  <2>2. jobs' \in Table /\ AllMature(jobs, jobs') /\ due' \in [Workers -> BOOLEAN]
    BY <1>3, <2>1, WriteJobFacts DEF ReadyInv
  <2>3. Continues(Report(run[w], "Processing"), run[w], jobs)
    BY <1>1, ReportOK DEF RunOK, ReactiveJobStates
  <2> QED BY <1>1, <1>3, <2>2, <2>3, AnsweredStep
<1> QED BY <1>2, <1>3 DEF CreateJob

\* Taking the operator's finalizer from a job, or deleting it, is a step of its
\* life.
LEMMA JobWritesMature ==
  ASSUME NEW job \in Job
  PROVE  LET released == StoredJob([job EXCEPT !.fin = FALSE])
             deleted  == [job EXCEPT !.deleting = TRUE, !.fg = TRUE]
         IN  /\ released \in Job /\ deleted \in Job
             /\ job.phase # "unused" => Mature(job, released) /\ Mature(job, deleted)
BY DEF StoredJob, Job, Mature

LEMMA ReleaseStep ==
  ASSUME ReadyInv, NEW w \in Workers, ReleaseJob(w)
  PROVE  ReadyInv'
<1>1. /\ run[w].pc = "release"
      /\ run[w] \in ReconcileRun /\ RunOK(run[w], jobs)
      /\ jobs \in Table
  BY DEF ReleaseJob, ReadyInv, ControllerTypeOK, ClusterTypeOK, Table
<1>2. PICK j \in Newest(run[w].todo, run[w].list) :
        \/ /\ WriteJob(j, StoredJob([jobs[j] EXCEPT !.fin = FALSE]))
           /\ Answered(w, ReleaseNext([run[w] EXCEPT !.todo = @ \ {j}]))
           /\ UNCHANGED objectVars
        \/ Continue(w, Fail(run[w])) /\ NoEffect
        \/ Disturbed(w) /\ NoEffect
  BY DEF ReleaseJob
<1>3. CASE NoEffect /\ (Continue(w, Fail(run[w])) \/ Disturbed(w))
  BY <1>1, <1>3, FailedCall
<1>4. CASE /\ WriteJob(j, StoredJob([jobs[j] EXCEPT !.fin = FALSE]))
           /\ Answered(w, ReleaseNext([run[w] EXCEPT !.todo = @ \ {j}]))
           /\ UNCHANGED objectVars
  <2> DEFINE r == [run[w] EXCEPT !.todo = run[w].todo \ {j}]
  <2>1. j \in JobNames /\ jobs[j] \in Job
    BY <1>1 DEF Newest, ReconcileRun, Table
  <2>2. jobs' \in Table /\ AllMature(jobs, jobs') /\ due' \in [Workers -> BOOLEAN]
    BY <1>4, <2>1, JobWritesMature, WriteJobFacts DEF ReadyInv, Used
  <2>3. /\ r \in ReconcileRun
        /\ r.obj = run[w].obj /\ r.pc = run[w].pc
        /\ r.list = run[w].list /\ r.first = run[w].first
    BY <1>1 DEF ReconcileRun
  <2>4. RunOK(r, jobs) /\ HeadOK(r)
    BY <1>1, <2>3 DEF RunOK, ListOK, HeadOK, Listed
  <2>5. Continues(ReleaseNext(r), run[w], jobs)
    BY <1>1, <2>3, <2>4, ReleaseNextOK DEF Continues
  <2>6. Answered(w, ReleaseNext(r))
    BY <1>1, <1>4
  <2> QED BY <1>1, <1>4, <2>2, <2>5, <2>6, AnsweredStep
<1> QED BY <1>2, <1>3, <1>4

\* What the deletion loop remembers of the calls it has made.
LEMMA PurgedOK ==
  ASSUME NEW table \in Table, NEW r \in ReconcileRun, RunOK(r, table),
         r.pc = "purge", NEW j \in JobNames,
         NEW s \in {[r EXCEPT !.list[j].fin = FALSE],
                    [r EXCEPT !.list[j].deleting = TRUE]}
  PROVE  Continues(PurgeNext(s), r, table)
<1>1. r.list \in [JobNames -> Job] /\ r.list[j] \in Job
  BY DEF ReconcileRun
<1>2. PICK job \in {[r.list[j] EXCEPT !.fin = FALSE],
                    [r.list[j] EXCEPT !.deleting = TRUE]} :
        s = [r EXCEPT !.list = [r.list EXCEPT ![j] = job]]
  BY <1>1 DEF ReconcileRun
<1>3. /\ job \in Job
      /\ job.phase = r.list[j].phase
      /\ job.uid = r.list[j].uid
      /\ job.gen = r.list[j].gen
      /\ job.tmpl = r.list[j].tmpl
      /\ job.result = r.list[j].result
  BY <1>1 DEF Job
<1> DEFINE list == [r.list EXCEPT ![j] = job]
<1>4. /\ list \in [JobNames -> Job]
      /\ \A k \in JobNames : /\ list[k].phase = r.list[k].phase
                            /\ list[k].uid = r.list[k].uid
                            /\ list[k].gen = r.list[k].gen
                            /\ list[k].tmpl = r.list[k].tmpl
                            /\ list[k].result = r.list[k].result
  BY <1>1, <1>3
<1>5. /\ s \in ReconcileRun
      /\ s.obj = r.obj /\ s.pc = r.pc /\ s.first = r.first /\ s.list = list
  BY <1>2, <1>4 DEF ReconcileRun
<1>6. RunOK(s, table)
  BY <1>4, <1>5 DEF RunOK, ListOK, Listed, Mature
<1> QED BY <1>5, <1>6, PurgeNextOK DEF Continues

LEMMA PurgeStep ==
  ASSUME ReadyInv, NEW w \in Workers, PurgeJob(w)
  PROVE  ReadyInv'
<1>1. /\ run[w].pc = "purge"
      /\ run[w] \in ReconcileRun /\ RunOK(run[w], jobs)
      /\ jobs \in Table
  BY DEF PurgeJob, ReadyInv, ControllerTypeOK, ClusterTypeOK, Table
<1>2. PICK j \in Newest(run[w].todo, run[w].list) :
        \/ /\ WriteJob(j, StoredJob([jobs[j] EXCEPT !.fin = FALSE]))
           /\ Answered(w, PurgeNext([run[w] EXCEPT !.list[j].fin = FALSE]))
           /\ UNCHANGED objectVars
        \/ /\ WriteJob(j, [jobs[j] EXCEPT !.deleting = TRUE, !.fg = TRUE])
           /\ Answered(w, PurgeNext([run[w] EXCEPT !.list[j].deleting = TRUE]))
           /\ UNCHANGED objectVars
        \/ Continue(w, Fail(run[w])) /\ NoEffect
        \/ Disturbed(w) /\ NoEffect
  BY DEF PurgeJob
<1>3. j \in JobNames /\ jobs[j] \in Job
  BY <1>1 DEF Newest, ReconcileRun, Table
<1>4. CASE NoEffect /\ (Continue(w, Fail(run[w])) \/ Disturbed(w))
  BY <1>1, <1>4, FailedCall
<1>5. CASE /\ WriteJob(j, StoredJob([jobs[j] EXCEPT !.fin = FALSE]))
           /\ Answered(w, PurgeNext([run[w] EXCEPT !.list[j].fin = FALSE]))
           /\ UNCHANGED objectVars
  <2>1. jobs' \in Table /\ AllMature(jobs, jobs') /\ due' \in [Workers -> BOOLEAN]
    BY <1>3, <1>5, JobWritesMature, WriteJobFacts DEF ReadyInv, Used
  <2>2. Continues(PurgeNext([run[w] EXCEPT !.list[j].fin = FALSE]), run[w], jobs)
    BY <1>1, <1>3, PurgedOK
  <2> QED BY <1>1, <1>5, <2>1, <2>2, AnsweredStep
<1>6. CASE /\ WriteJob(j, [jobs[j] EXCEPT !.deleting = TRUE, !.fg = TRUE])
           /\ Answered(w, PurgeNext([run[w] EXCEPT !.list[j].deleting = TRUE]))
           /\ UNCHANGED objectVars
  <2>1. jobs' \in Table /\ AllMature(jobs, jobs') /\ due' \in [Workers -> BOOLEAN]
    BY <1>3, <1>6, JobWritesMature, WriteJobFacts DEF ReadyInv, Used
  <2>2. Continues(PurgeNext([run[w] EXCEPT !.list[j].deleting = TRUE]), run[w], jobs)
    BY <1>1, <1>3, PurgedOK
  <2> QED BY <1>1, <1>6, <2>1, <2>2, AnsweredStep
<1> QED BY <1>2, <1>4, <1>5, <1>6

\* A step of w that reads or writes the ReactiveJob: others keep their version
\* only if the object stays as it is.
LEMMA HolderStep ==
  ASSUME ReadyInv, NEW w \in Workers, NEW r \in ReconcileRun, RunOK(r, jobs),
         run' = [run EXCEPT ![w] = r], UNCHANGED jobs,
         rj' \in ReactiveJob, StatusOK(rj', jobs), rjHeld' \in SUBSET Workers,
         \A v \in rjHeld' \ {w} : v \in rjHeld /\ rj' = rj,
         w \in rjHeld' /\ r.pc # "idle" => rj'.there /\ SameObject(r.obj, rj'),
         due' \in [Workers -> BOOLEAN], disturbances' \in 0..MaxDisturbances
  PROVE  ReadyInv'
<1>1. ControllerTypeOK' /\ AllMature(jobs, jobs')
  BY SameJobsFacts DEF ReadyInv, ControllerTypeOK, ClusterTypeOK
<1>2. \A v \in Workers : RunOK(run'[v], jobs)
  BY DEF ReadyInv, ControllerTypeOK
<1>3. CopyIsCurrent'
  <2> SUFFICES ASSUME NEW v \in Workers, v \in rjHeld', run'[v].pc # "idle"
               PROVE  rj'.there /\ SameObject(run'[v].obj, rj')
    BY DEF CopyIsCurrent
  <2>1. CASE v = w
    BY <2>1 DEF ReadyInv, ControllerTypeOK
  <2>2. CASE v # w
    BY <2>2 DEF ReadyInv, ControllerTypeOK, CopyIsCurrent
  <2> QED BY <2>1, <2>2
<1> QED BY <1>1, <1>2, <1>3, InvariantStep

LEMMA SetFinalizerStep ==
  ASSUME ReadyInv, NEW w \in Workers, SetFinalizer(w)
  PROVE  ReadyInv'
<1> DEFINE obj == [rj EXCEPT !.fin = TRUE]
           r   == CreateOrUpdate([run[w] EXCEPT !.obj = obj])
<1>1. /\ run[w].pc = "setFinalizer"
      /\ run[w] \in ReconcileRun /\ RunOK(run[w], jobs)
      /\ jobs \in Table
      /\ rj \in ReactiveJob /\ StatusOK(rj, jobs)
  BY DEF SetFinalizer, ReadyInv, ControllerTypeOK, ClusterTypeOK, Table
<1>2. CASE NoEffect /\ (Continue(w, Fail(run[w])) \/ Disturbed(w))
  BY <1>1, <1>2, FailedCall
<1>3. ASSUME CurrentReactiveJob(w), UNCHANGED jobs,
             \/ WriteReactiveJob(obj, {w}) /\ Continue(w, r)
             \/ WriteReactiveJob(obj, {}) /\ Disturbed(w)
      PROVE  ReadyInv'
  <2>1. /\ obj \in ReactiveJob
        /\ obj.there = rj.there /\ obj.uid = rj.uid /\ obj.gen = rj.gen
        /\ obj.tmpl = rj.tmpl /\ obj.deleting = rj.deleting
        /\ obj.status = rj.status
    BY <1>1 DEF ReactiveJob
  <2>2. StatusOK(obj, jobs)
    BY <1>1, <2>1 DEF StatusOK, Completed
  <2>3. rj.there /\ SameObject(run[w].obj, rj)
    BY <1>1, <1>3 DEF ReadyInv, CopyIsCurrent, CurrentReactiveJob
  <2>4. due' \in [Workers -> BOOLEAN] /\ rj' = obj
    BY <1>3 DEF WriteReactiveJob, Everyone, ReadyInv, ControllerTypeOK, ClusterTypeOK
  <2>5. CASE WriteReactiveJob(obj, {w}) /\ Continue(w, r)
    <3> DEFINE s == [run[w] EXCEPT !.obj = obj]
    <3>1. /\ s \in ReconcileRun
          /\ s.obj = obj /\ s.pc = run[w].pc
          /\ s.list = run[w].list /\ s.first = run[w].first
      BY <1>1, <2>1 DEF ReconcileRun
    <3>2. RunOK(s, jobs) /\ ~s.obj.deleting
      BY <1>1, <2>1, <2>2, <2>3, <3>1, ZenonT(90)
         DEF RunOK, ListOK, Listed, SameObject, StatusOK
    <3>3. Continues(r, s, jobs)
      BY <1>1, <3>1, <3>2, CreateOrUpdateOK
    <3>4. r.pc # "idle" => rj'.there /\ SameObject(r.obj, rj')
      BY <2>1, <2>3, <2>4, <3>1, <3>3 DEF Continues, SameObject
    <3>5. /\ run' = [run EXCEPT ![w] = r]
          /\ rjHeld' = {w}
          /\ disturbances' \in 0..MaxDisturbances
      BY <2>5 DEF Continue, WriteReactiveJob, ReadyInv, ControllerTypeOK, ClusterTypeOK
    <3>6. r \in ReconcileRun /\ RunOK(r, jobs)
      BY <3>3 DEF Continues
    <3> HIDE DEF r
    <3> QED BY <1>3, <2>1, <2>2, <2>4, <3>4, <3>5, <3>6, HolderStep
  <2>6. CASE WriteReactiveJob(obj, {}) /\ Disturbed(w)
    <3>1. Fail(run[w]) \in ReconcileRun /\ RunOK(Fail(run[w]), jobs)
      BY <1>1, FailOK DEF Continues
    <3>2. /\ run' = [run EXCEPT ![w] = Fail(run[w])]
          /\ rjHeld' = {}
          /\ disturbances' \in 0..MaxDisturbances
      BY <2>6, DisturbType DEF Disturbed, WriteReactiveJob, ReadyInv, ControllerTypeOK
    <3> QED BY <1>3, <2>1, <2>2, <2>4, <3>1, <3>2, HolderStep
  <2> QED BY <1>3, <2>5, <2>6
<1> QED BY <1>2, <1>3 DEF SetFinalizer, Accepted

\* Whoever takes a finalizer away may take the object away.
LEMMA StoredOK ==
  ASSUME NEW table \in Table, NEW obj \in ReactiveJob, StatusOK(obj, table)
  PROVE  Stored(obj) \in ReactiveJob /\ StatusOK(Stored(obj), table)
<1>1. StatusOK(NoReactiveJob(obj.uid), table)
  <2>1. /\ NoReactiveJob(obj.uid).status = FreshStatus
        /\ NoReactiveJob(obj.uid).gen = 0
    BY DEF NoReactiveJob
  <2>2. FreshStatus.obs <= 0 /\ FreshStatus.state # "Ready"
    BY DEF FreshStatus, None
  <2> QED BY <2>1, <2>2 DEF StatusOK
<1> QED BY <1>1, StoredType DEF Stored

LEMMA ClearFinalizerStep ==
  ASSUME ReadyInv, NEW w \in Workers, ClearFinalizer(w)
  PROVE  ReadyInv'
<1> DEFINE obj == Stored([rj EXCEPT !.fin = FALSE])
<1>1. /\ run[w].pc = "clearFinalizer"
      /\ run[w] \in ReconcileRun /\ RunOK(run[w], jobs)
      /\ jobs \in Table
      /\ rj \in ReactiveJob /\ StatusOK(rj, jobs)
  BY DEF ClearFinalizer, ReadyInv, ControllerTypeOK, ClusterTypeOK, Table
<1>2. CASE NoEffect /\ (Continue(w, Fail(run[w])) \/ Disturbed(w))
  BY <1>1, <1>2, FailedCall
<1>3. ASSUME WriteReactiveJob(obj, {}),
             \/ Return(w) /\ UNCHANGED disturbances
             \/ Disturbed(w) /\ UNCHANGED jobs
      PROVE  ReadyInv'
  <2>1. [rj EXCEPT !.fin = FALSE] \in ReactiveJob
    BY <1>1 DEF ReactiveJob
  <2>2. StatusOK([rj EXCEPT !.fin = FALSE], jobs)
    BY <1>1 DEF StatusOK, Completed, ReactiveJob
  <2>3. obj \in ReactiveJob /\ StatusOK(obj, jobs)
    BY <1>1, <2>1, <2>2, StoredOK
  <2>4. /\ due' \in [Workers -> BOOLEAN]
        /\ rj' = obj
        /\ rjHeld' = {}
    BY <1>3 DEF WriteReactiveJob, Everyone, ReadyInv, ControllerTypeOK, ClusterTypeOK
  <2>5. /\ NoRun \in ReconcileRun /\ RunOK(NoRun, jobs)
        /\ Fail(run[w]) \in ReconcileRun /\ RunOK(Fail(run[w]), jobs)
    BY <1>1, FailOK, NoRunOK DEF Continues
  <2>6. CASE Return(w) /\ UNCHANGED disturbances
    BY <2>3, <2>4, <2>5, <2>6, HolderStep
       DEF Return, ReadyInv, ControllerTypeOK, ClusterTypeOK
  <2>7. CASE Disturbed(w) /\ UNCHANGED jobs
    <3>1. /\ run' = [run EXCEPT ![w] = Fail(run[w])]
          /\ disturbances' \in 0..MaxDisturbances
      BY <2>7, DisturbType DEF Disturbed, ReadyInv, ControllerTypeOK
    <3> QED BY <2>3, <2>4, <2>5, <2>7, <3>1, HolderStep
  <2> QED BY <1>3, <2>6, <2>7
<1> QED BY <1>2, <1>3 DEF ClearFinalizer

\* The copy Get returns, its generation acknowledged.
LEMMA FirstStepOK ==
  ASSUME NEW table \in Table, NEW obj \in ReactiveJob
  PROVE  LET r == FirstStep(Acknowledge(obj))
         IN  r \in ReconcileRun /\ RunOK(r, table) /\ SameObject(r.obj, obj)
<1> DEFINE ack  == Acknowledge(obj)
           read == [NoRun EXCEPT !.obj = ack]
<1>1. obj.status \in ReactiveJobStatus /\ obj.gen \in Nat
  BY DEF ReactiveJob
<1>2. /\ ack \in ReactiveJob
      /\ ack.gen = obj.gen
      /\ ack.status.obs = obj.gen
      /\ SameObject(ack, obj)
  BY <1>1 DEF Acknowledge, ReactiveJob, ReactiveJobStatus, SameObject
<1>3. NoRun \in ReconcileRun /\ NoRun.pc = "idle"
  BY EmptyValuesType DEF NoRun
<1>4. ListOK(NoRun, table)
  BY DEF ListOK, Listed, NoRun, NoJob
<1>5. /\ read \in ReconcileRun
      /\ read.obj = ack /\ read.pc = "idle"
      /\ read.list = NoRun.list /\ read.first = NoRun.first
  BY <1>2, <1>3 DEF ReconcileRun
<1>6. ListOK(read, table)
  BY <1>3, <1>4, <1>5 DEF ListOK, Listed, NoRun, NoJob
<1>7. CASE ack.status.state = None
  <2>1. Continues(Report(read, "New"), read, table)
    <3>1. read.obj.status.obs <= read.obj.gen
      BY <1>1, <1>2, <1>5
    <3> HIDE DEF read, ack
    <3> QED BY <1>5, <3>1, ReportOK DEF ReactiveJobStates
  <2>2. Report(read, "New").pc = "status"
    BY <1>5, ReportFacts DEF ReactiveJobStates
  <2> QED BY <1>2, <1>5, <1>7, <2>1, <2>2 DEF FirstStep, Continues, SameObject
<1>8. CASE ack.status.state # None
  <2> DEFINE r == [NoRun EXCEPT !.pc = "list", !.obj = ack]
  <2>1. /\ r \in ReconcileRun
        /\ r.obj = ack /\ r.pc = "list"
        /\ r.list = read.list /\ r.first = read.first
    BY <1>2, <1>3, <1>5 DEF ReconcileRun, Calls
  <2>2. RunOK(r, table)
    BY <1>1, <1>2, <1>6, <2>1 DEF RunOK, ListOK, Listed
  <2> QED BY <1>2, <1>8, <2>1, <2>2 DEF FirstStep
<1> QED BY <1>7, <1>8

LEMMA GetStep ==
  ASSUME ReadyInv, NEW w \in Workers, Get(w)
  PROVE  ReadyInv'
<1>1. /\ rj' = rj /\ jobs' = jobs
      /\ jobs \in Table /\ rj \in ReactiveJob /\ StatusOK(rj, jobs)
      /\ due' \in [Workers -> BOOLEAN]
      /\ run[w] \in ReconcileRun /\ RunOK(run[w], jobs)
      /\ run[w].pc = "idle"
  BY DEF Get, ReadyInv, ControllerTypeOK, ClusterTypeOK, Table
<1>2. CASE /\ rj.there
           /\ rjHeld' = rjHeld \cup {w}
           /\ Continue(w, FirstStep(Acknowledge(rj)))
  <2> DEFINE r == FirstStep(Acknowledge(rj))
  <2>1. r \in ReconcileRun /\ RunOK(r, jobs) /\ SameObject(r.obj, rj)
    BY <1>1, FirstStepOK
  <2>2. /\ run' = [run EXCEPT ![w] = r]
        /\ rjHeld' = rjHeld \cup {w}
        /\ rjHeld' \in SUBSET Workers
        /\ disturbances' \in 0..MaxDisturbances
    BY <1>2 DEF Continue, ReadyInv, ControllerTypeOK, ClusterTypeOK
  <2> HIDE DEF r
  <2> QED BY <1>1, <1>2, <2>1, <2>2, HolderStep
<1>3. CASE UNCHANGED <<rjHeld, run>> /\ disturbances' \in 0..MaxDisturbances
  <2>1. run' = [run EXCEPT ![w] = run[w]] /\ rjHeld' \in SUBSET Workers
    BY <1>3 DEF ReadyInv, ControllerTypeOK, ClusterTypeOK
  <2> QED BY <1>1, <1>3, <2>1, HolderStep
<1>4. Disturb => disturbances' \in 0..MaxDisturbances
  BY DisturbType DEF ReadyInv
<1> QED
  BY <1>2, <1>3, <1>4 DEF Get, ReadyInv, ControllerTypeOK, ClusterTypeOK

\* Reconcile has ended, with or without a new status.
LEMMA ReturnStep ==
  ASSUME ReadyInv, NEW w \in Workers, Return(w), due' = Requeued(w),
         rj' \in ReactiveJob, StatusOK(rj', jobs),
         rjHeld' \in SUBSET rjHeld, rj' = rj \/ rjHeld' = {},
         disturbances' \in 0..MaxDisturbances
  PROVE  ReadyInv'
<1>1. NoRun \in ReconcileRun /\ RunOK(NoRun, jobs) /\ NoRun.pc = "idle"
  BY NoRunOK, EmptyValuesType DEF Continues, NoRun, ReadyInv, ControllerTypeOK, ClusterTypeOK, Table
<1>2. /\ run' = [run EXCEPT ![w] = NoRun] /\ jobs' = jobs
      /\ due' \in [Workers -> BOOLEAN]
      /\ rjHeld' \in SUBSET Workers
  BY DEF Return, Requeued, ReadyInv, ControllerTypeOK, ClusterTypeOK
<1> QED BY <1>1, <1>2, HolderStep

LEMMA UpdateStatusStep ==
  ASSUME ReadyInv, NEW w \in Workers, UpdateStatus(w)
  PROVE  ReadyInv'
<1>1. /\ run[w].pc = "status" /\ Return(w) /\ due' = Requeued(w)
      /\ run[w] \in ReconcileRun /\ RunOK(run[w], jobs)
      /\ rj \in ReactiveJob /\ StatusOK(rj, jobs)
      /\ disturbances \in 0..MaxDisturbances
  BY DEF UpdateStatus, ReadyInv, ControllerTypeOK, ClusterTypeOK
<1>2. CASE /\ CurrentReactiveJob(w)
           /\ rj' = [rj EXCEPT !.status = run[w].obj.status]
           /\ rjHeld' \in {{}} \cup {S \in {rjHeld} : rj' = rj}
           /\ UNCHANGED disturbances
  <2>1. rj.there /\ SameObject(run[w].obj, rj)
    BY <1>1, <1>2 DEF ReadyInv, CopyIsCurrent, CurrentReactiveJob
  <2>2. /\ rj' \in ReactiveJob
        /\ rj'.status = run[w].obj.status
        /\ rj'.gen = rj.gen /\ rj'.uid = rj.uid /\ rj'.tmpl = rj.tmpl
        /\ rj'.deleting = rj.deleting
    BY <1>1, <1>2 DEF ReconcileRun, ReactiveJob
  <2>3. StatusOK(rj', jobs)
    BY <1>1, <2>1, <2>2 DEF RunOK, StatusOK, Completed, SameObject
  <2> QED BY <1>1, <1>2, <2>2, <2>3, ReturnStep
<1>3. CASE UNCHANGED <<objectVars, disturbances>>
  BY <1>1, <1>3, ReturnStep DEF objectVars
<1>4. CASE rjHeld' = rjHeld \ {w} /\ Disturb /\ UNCHANGED rj
  <2>1. disturbances' \in 0..MaxDisturbances
    BY <1>4, DisturbType DEF ReadyInv
  <2> QED BY <1>1, <1>4, <2>1, ReturnStep
<1> QED BY <1>2, <1>3, <1>4 DEF UpdateStatus

LEMMA CrashStep ==
  ASSUME ReadyInv, NEW w \in Workers, Crash(w)
  PROVE  ReadyInv'
<1>1. disturbances' \in 0..MaxDisturbances
  BY DisturbType DEF Crash, ReadyInv, ControllerTypeOK, ClusterTypeOK
<1> QED BY <1>1, ReturnStep DEF Crash, ReadyInv, ControllerTypeOK, ClusterTypeOK
-----------------------------------------------------------------------------
(* Users and the other controllers *)

LEMMA ObjectWritesStep ==
  ASSUME ReadyInv, UNCHANGED run,
         \/ \E tmpl \in Templates, foreign \in Foreign : UserCreates(tmpl, foreign)
         \/ \E tmpl \in Templates : UserChangesTemplate(tmpl)
         \/ UserDeletes
         \/ ForeignFinalizerRemoved
         \/ ForeignFinalizerAdded
  PROVE  ReadyInv'
<1>1. /\ jobs \in Table /\ jobs' = jobs
      /\ rj \in ReactiveJob /\ StatusOK(rj, jobs)
      /\ disturbances' \in 0..MaxDisturbances
  BY DisturbType
     DEF UserCreates, UserChangesTemplate, UserDeletes, ForeignFinalizerRemoved,
         ForeignFinalizerAdded, ReadyInv, ControllerTypeOK, ClusterTypeOK, Table
<1>2. ASSUME NEW obj \in ReactiveJob, StatusOK(obj, jobs),
             \/ WriteReactiveJob(obj, {})
             \/ WriteReactiveJob(Stored(obj), {})
      PROVE  ReadyInv'
  BY <1>1, <1>2, StoredOK, ObjectStep
<1>3. ASSUME NEW tmpl \in Templates, NEW foreign \in Foreign,
             UserCreates(tmpl, foreign)
      PROVE  ReadyInv'
  <2> DEFINE obj == NewReactiveJob(rj.uid + 1, tmpl, foreign)
  <2>1. FreshStatus \in ReactiveJobStatus /\ FreshStatus.obs <= 1
        /\ FreshStatus.state # "Ready"
    <3>1. -1 \in Int /\ -1 <= 1
      OBVIOUS
    <3> QED BY <3>1 DEF FreshStatus, ReactiveJobStatus, None
  <2>2. rj.uid + 1 \in Nat /\ foreign \in BOOLEAN
    BY <1>1, ResultsAssumption DEF ReactiveJob
  <2>3. obj \in ReactiveJob /\ obj.status = FreshStatus /\ obj.gen = 1
    BY <2>1, <2>2 DEF NewReactiveJob, ReactiveJob
  <2>4. StatusOK(obj, jobs)
    BY <2>1, <2>3 DEF StatusOK
  <2> QED BY <1>2, <1>3, <2>3, <2>4 DEF UserCreates
\* A generation later than the one acknowledged is not up to date.
<1>4. ASSUME NEW obj \in ReactiveJob, obj.status = rj.status,
             obj.gen = rj.gen + 1
      PROVE  StatusOK(obj, jobs)
  <2>1. rj.status.obs \in Int /\ rj.gen \in Nat
    BY <1>1 DEF ReactiveJob, ReactiveJobStatus
  <2> QED BY <1>1, <1>4, <2>1 DEF StatusOK
<1>5. ASSUME NEW tmpl \in Templates, UserChangesTemplate(tmpl) PROVE ReadyInv'
  <2> DEFINE obj == [rj EXCEPT !.gen = rj.gen + 1, !.tmpl = tmpl]
  <2>0. rj.gen + 1 \in Nat
    BY <1>1 DEF ReactiveJob
  <2>1. obj \in ReactiveJob /\ obj.status = rj.status /\ obj.gen = rj.gen + 1
    BY <1>1, <2>0 DEF ReactiveJob
  <2>2. WriteReactiveJob(obj, {})
    BY <1>1, <1>5 DEF UserChangesTemplate, ReactiveJob
  <2> QED BY <1>2, <1>4, <2>1, <2>2
<1>6. ASSUME UserDeletes PROVE ReadyInv'
  <2> DEFINE obj == [rj EXCEPT !.gen = rj.gen + 1, !.deleting = TRUE]
  <2>0. rj.gen + 1 \in Nat
    BY <1>1 DEF ReactiveJob
  <2>1. obj \in ReactiveJob /\ obj.status = rj.status /\ obj.gen = rj.gen + 1
    BY <1>1, <2>0 DEF ReactiveJob
  <2>2. WriteReactiveJob(Stored(obj), {})
    BY <1>1, <1>6 DEF UserDeletes, ReactiveJob
  <2> QED BY <1>2, <1>4, <2>1, <2>2
<1>7. ASSUME NEW foreign \in BOOLEAN,
             \/ WriteReactiveJob([rj EXCEPT !.foreign = foreign], {})
             \/ WriteReactiveJob(Stored([rj EXCEPT !.foreign = foreign]), {})
      PROVE  ReadyInv'
  <2> DEFINE obj == [rj EXCEPT !.foreign = foreign]
  <2>1. obj \in ReactiveJob
    BY <1>1 DEF ReactiveJob
  <2>2. StatusOK(obj, jobs)
    BY <1>1 DEF StatusOK, Completed, ReactiveJob
  <2> QED BY <1>2, <1>7, <2>1, <2>2
<1> QED
  BY <1>3, <1>5, <1>6, <1>7 DEF ForeignFinalizerRemoved, ForeignFinalizerAdded

LEMMA AnnotatedStep ==
  ASSUME ReadyInv, Annotated, UNCHANGED run
  PROVE  ReadyInv'
<1>1. ControllerTypeOK' /\ AllMature(jobs, jobs')
  BY DisturbType, SameJobsFacts
     DEF Annotated, Everyone, ReadyInv, ControllerTypeOK, ClusterTypeOK
<1>2. CopyIsCurrent'
  BY DEF Annotated, CopyIsCurrent
<1> QED BY <1>1, <1>2, InvariantStep DEF Annotated, ReadyInv

LEMMA JobWritesStep ==
  ASSUME ReadyInv, UNCHANGED run, NEW j \in JobNames,
         \/ \E result \in Results : JobFinishes(j, result)
         \/ \E propagation \in Propagations : JobDeleted(j, propagation)
         \/ JobCollected(j)
  PROVE  ReadyInv'
<1>1. /\ jobs[j] \in Job /\ jobs[j].phase = "live"
      /\ UNCHANGED <<rj, rjHeld, run, disturbances>>
  BY DEF JobFinishes, JobDeleted, JobCollected, Live, objectVars, ReadyInv,
         ControllerTypeOK, ClusterTypeOK
<1>2. ASSUME NEW result \in Results, JobFinishes(j, result) PROVE ReadyInv'
  <2> DEFINE job == [jobs[j] EXCEPT !.result = result]
  <2>1. job \in Job /\ Mature(jobs[j], job)
    BY <1>1, <1>2, ResultsAssumption DEF JobFinishes, Job, Mature
  <2> QED BY <1>1, <1>2, <2>1, JobStep DEF JobFinishes
<1>3. ASSUME NEW propagation \in Propagations, JobDeleted(j, propagation)
      PROVE  ReadyInv'
  <2> DEFINE job == [jobs[j] EXCEPT !.deleting = TRUE,
                                    !.fg = propagation = "Foreground"]
  <2>1. job \in Job /\ Mature(jobs[j], job) /\ Mature(jobs[j], StoredJob(job))
    BY <1>1 DEF StoredJob, Job, Mature
  <2> QED BY <1>1, <1>3, <2>1, StoredType, JobStep DEF JobDeleted
<1>4. ASSUME JobCollected(j) PROVE ReadyInv'
  <2> DEFINE job == [jobs[j] EXCEPT !.fg = FALSE]
  <2>1. job \in Job /\ Mature(jobs[j], job) /\ Mature(jobs[j], StoredJob(job))
    BY <1>1 DEF StoredJob, Job, Mature
  <2> QED BY <1>1, <1>4, <2>1, StoredType, JobStep DEF JobCollected
<1> QED BY <1>2, <1>3, <1>4

\* What the cluster accepts is no part of the invariant.
LEMMA AcceptanceStep ==
  ASSUME ReadyInv, Acceptance, UNCHANGED run
  PROVE  ReadyInv'
<1>1. /\ UNCHANGED <<rj, rjHeld, jobs, due, run>>
      /\ disturbances' \in 0..MaxDisturbances
  BY DisturbType DEF Acceptance, TemplateRejected, TemplateAccepted, objectVars,
     ReadyInv, ControllerTypeOK, ClusterTypeOK
<1> QED
  BY <1>1 DEF ReadyInv, ControllerTypeOK, ClusterTypeOK, CopyIsCurrent

LEMMA EnvironmentStep ==
  ASSUME ReadyInv, Environment, UNCHANGED run
  PROVE  ReadyInv'
BY ObjectWritesStep, AnnotatedStep, JobWritesStep, AcceptanceStep
   DEF Environment, Others

-----------------------------------------------------------------------------
(* The theorems *)

LEMMA ReadyInvInit == Init => ReadyInv
<1> SUFFICES ASSUME Init PROVE ReadyInv
  OBVIOUS
<1>1. ControllerTypeOK
  BY EmptyValuesType, BoundsAssumption DEF Init, ClusterInit, ControllerTypeOK, ClusterTypeOK
<1>2. jobs \in Table
  BY <1>1 DEF ControllerTypeOK, ClusterTypeOK, Table
<1>3. \A w \in Workers : RunOK(run[w], jobs)
  BY <1>2, NoRunOK, EmptyValuesType DEF Init, Continues
<1>4. CopyIsCurrent
  BY DEF Init, ClusterInit, CopyIsCurrent
<1>5. StatusOK(rj, jobs)
  <2>1. rj.status = FreshStatus /\ rj.gen = 0
    BY DEF Init, ClusterInit, NoReactiveJob
  <2>2. FreshStatus.obs <= 0 /\ FreshStatus.state # "Ready"
    BY DEF FreshStatus, None
  <2> QED BY <2>1, <2>2 DEF StatusOK
<1> QED BY <1>1, <1>3, <1>4, <1>5 DEF ReadyInv

LEMMA ReadyInvNext == ReadyInv /\ [Next]_vars => ReadyInv'
<1> SUFFICES ASSUME ReadyInv, [Next]_vars PROVE ReadyInv'
  OBVIOUS
<1>1. ASSUME NEW w \in Workers, Reconcile(w) PROVE ReadyInv'
  BY <1>1, GetStep, ListStep, SetFinalizerStep, CreateStep, ReleaseStep,
     PurgeStep, ClearFinalizerStep, UpdateStatusStep DEF Reconcile
<1>2. ASSUME NEW w \in Workers, Crash(w) PROVE ReadyInv'
  BY <1>2, CrashStep
<1>3. CASE Environment /\ UNCHANGED run
  BY <1>3, EnvironmentStep
<1>4. CASE UNCHANGED vars
  BY <1>4 DEF vars, ReadyInv, ControllerTypeOK, ClusterTypeOK, CopyIsCurrent
<1> QED BY <1>1, <1>2, <1>3, <1>4 DEF Next

\* What the reconcilers may rely on between their API calls holds for any number
\* of processes, whatever fails and whoever else writes.
THEOREM ReadyInvariance == Spec => []ReadyInv
BY ReadyInvInit, ReadyInvNext, PTL DEF Spec

LEMMA WebhookTypeNext == WebhookTypeOK /\ [Next]_vars => WebhookTypeOK'
BY BreakableAssumption
   DEF WebhookTypeOK, Next, vars, Reconcile, Crash, Environment, Acceptance,
       TemplateRejected, TemplateAccepted

\* The ReactiveJob, the jobs and the local variables of Reconcile always have
\* their types; in particular currentJobName is a job's name or not set.
THEOREM TypeCorrectness == Spec => []TypeOK
<1>1. ReadyInv /\ WebhookTypeOK => TypeOK
  BY DEF ReadyInv, TypeOK
<1>2. Init => WebhookTypeOK
  BY DEF Init, WebhookInit, WebhookTypeOK
<1>3. Spec => []WebhookTypeOK
  BY <1>2, WebhookTypeNext, PTL DEF Spec
<1> QED BY <1>1, <1>3, ReadyInvariance, PTL

\* An up-to-date status Ready speaks of the template that is in the spec, for
\* any number of processes: the version check of the deferred status update
\* (reactivejob_controller.go) is enough, leader election is not needed for it.
THEOREM ReadinessIsTruthful == Spec => []ReadyIsTruthful
<1>1. ReadyInv => ReadyIsTruthful
  BY DEF ReadyInv, StatusOK, Completed, ReadyIsTruthful
<1> QED BY <1>1, ReadyInvariance, PTL
=============================================================================
