--------------------- MODULE ReactiveJobPromise_proofs ---------------------
(***************************************************************************)
(* Proof that a single worker keeps the promise of ReactiveJobPromise, for *)
(* any templates, job names and bounds: every step of the reconciler, the  *)
(* users and the other controllers is one the promise allows, or nothing   *)
(* users see.                                                              *)
(***************************************************************************)
EXTENDS ReactiveJobSingle_proofs

\* Nothing users see changes, or it changes in a way that is promised.
Allowed == [Promise!Next]_(Promise!promised)

\* What users see, in the terms of the invariant.
LEMMA Seen ==
  /\ Promise!Runs = Made(rj.uid, jobs)
  /\ Promise!Latest = {j \in Made(rj.uid, jobs) :
                         \A k \in Made(rj.uid, jobs) : jobs[k].gen <= jobs[j].gen}
<1>1. Promise!Runs = Made(rj.uid, jobs)
  BY DEF Promise!Runs, Made, Run, RunsSeen, ObjectSeen
<1>2. \A j \in Made(rj.uid, jobs) : RunsSeen[j].gen = jobs[j].gen
  BY DEF Made, Run, RunsSeen
<1> QED BY <1>1, <1>2 DEF Promise!Latest

LEMMA NothingSeen ==
  ASSUME UNCHANGED jobs,
         rj'.there = rj.there, rj'.uid = rj.uid, rj'.gen = rj.gen,
         rj'.tmpl = rj.tmpl, rj'.deleting = rj.deleting, rj'.status = rj.status
  PROVE  Allowed
BY DEF Allowed, Promise!promised, ObjectSeen, RunsSeen, StatusSeen

\* An object that goes has no live jobs.
LEMMA ObjectGoes ==
  ASSUME SingleInv', UNCHANGED jobs, rj.there, rj' = NoReactiveJob(rj.uid)
  PROVE  Allowed
<1>1. /\ ~rj'.there /\ rj'.uid = rj.uid /\ rj'.gen = 0 /\ rj'.tmpl = ""
      /\ rj'.deleting = FALSE
      /\ rj'.status.obs = -1 /\ rj'.status.state = "" /\ rj'.status.cur = ""
  BY DEF NoReactiveJob, FreshStatus, None
<1>2. \A j \in JobNames : RunsSeen[j].phase # "live"
  BY <1>1 DEF SingleInv, OwnerOK, RunsSeen, Run
<1>3. /\ ObjectSeen.there /\ ObjectSeen.uid = rj.uid
      /\ ObjectSeen' = Promise!NoObject(rj.uid)
  BY <1>1 DEF ObjectSeen, NoReactiveJob, Promise!NoObject, Promise!NoName, None
<1>4. StatusSeen' = Promise!NoStatus
  BY <1>1 DEF StatusSeen, Promise!NoStatus, Promise!NoName
<1>5. UNCHANGED RunsSeen
  BY DEF RunsSeen
<1>6. Promise!Disappear
  BY <1>2, <1>3, <1>4, <1>5 DEF Promise!Disappear
<1> QED BY <1>6 DEF Allowed, Promise!Next

-----------------------------------------------------------------------------
(* Users *)

LEMMA UserSteps ==
  ASSUME SingleInv, SingleInv',
         \/ \E tmpl \in Templates, foreign \in Foreign : UserCreates(tmpl, foreign)
         \/ \E tmpl \in Templates : UserChangesTemplate(tmpl)
         \/ UserDeletes
         \/ ForeignFinalizerRemoved
         \/ ForeignFinalizerAdded
  PROVE  Allowed
<1>1. rj \in ReactiveJob
  BY DEF SingleInv, ReadyInv, ControllerTypeOK, ClusterTypeOK
<1>2. UNCHANGED RunsSeen /\ UNCHANGED jobs
  BY DEF UserCreates, UserChangesTemplate, UserDeletes, ForeignFinalizerRemoved,
         ForeignFinalizerAdded, WriteReactiveJob, RunsSeen
<1>3. ASSUME NEW tmpl \in Templates, NEW foreign \in Foreign, UserCreates(tmpl, foreign)
      PROVE  Allowed
  <2>1. ~rj.there /\ rj' = NewReactiveJob(rj.uid + 1, tmpl, foreign)
    BY <1>3 DEF UserCreates, WriteReactiveJob
  <2>2. /\ rj'.there = TRUE /\ rj'.uid = rj.uid + 1 /\ rj'.gen = 1 /\ rj'.tmpl = tmpl
        /\ rj'.deleting = FALSE
    BY <2>1 DEF NewReactiveJob
  <2>3. rj'.status.obs = -1 /\ rj'.status.state = "" /\ rj'.status.cur = ""
    BY <2>1 DEF NewReactiveJob, FreshStatus, None
  <2>4. ObjectSeen' = [there |-> TRUE, uid |-> ObjectSeen.uid + 1, gen |-> 1,
                       tmpl |-> tmpl, deleting |-> FALSE]
    BY <2>2 DEF ObjectSeen
  <2>5. StatusSeen' = Promise!NoStatus /\ ~ObjectSeen.there
    BY <2>1, <2>3 DEF StatusSeen, ObjectSeen, Promise!NoStatus, Promise!NoName
  <2>6. Promise!Create
    BY <1>2, <2>4, <2>5 DEF Promise!Create
  <2> QED BY <2>6 DEF Allowed, Promise!Next
<1>4. ASSUME NEW tmpl \in Templates, UserChangesTemplate(tmpl) PROVE Allowed
  <2>1. rj.there /\ rj' = [rj EXCEPT !.gen = @ + 1, !.tmpl = tmpl]
    BY <1>4 DEF UserChangesTemplate, WriteReactiveJob
  <2>0. /\ rj'.there = rj.there /\ rj'.uid = rj.uid /\ rj'.deleting = rj.deleting
        /\ rj'.gen = rj.gen + 1 /\ rj'.tmpl = tmpl
    BY <1>1, <2>1 DEF ReactiveJob
  <2>a. ObjectSeen.there
    BY <2>1 DEF ObjectSeen
  <2>2. ObjectSeen' = [there |-> TRUE, uid |-> ObjectSeen.uid, gen |-> ObjectSeen.gen + 1,
                       tmpl |-> tmpl, deleting |-> ObjectSeen.deleting]
    BY <1>1, <2>0, <2>1 DEF ObjectSeen, ReactiveJob
  <2>3. UNCHANGED StatusSeen
    BY <1>1, <2>1 DEF StatusSeen, ReactiveJob
  <2>4. Promise!Change
    BY <1>2, <2>a, <2>2, <2>3 DEF Promise!Change
  <2> QED BY <2>4 DEF Allowed, Promise!Next
<1>5. ASSUME UserDeletes PROVE Allowed
  <2> DEFINE new == [rj EXCEPT !.gen = rj.gen + 1, !.deleting = TRUE]
  <2>1. rj.there /\ ~rj.deleting /\ rj' = Stored(new) /\ new.uid = rj.uid
    BY <1>1, <1>5 DEF UserDeletes, WriteReactiveJob, ReactiveJob
  <2>2. CASE rj' = NoReactiveJob(rj.uid)
    BY <1>2, <2>1, <2>2, ObjectGoes
  <2>3. CASE rj' = new
    <3>0. /\ rj'.there = rj.there /\ rj'.uid = rj.uid /\ rj'.deleting = TRUE
          /\ rj'.gen = rj.gen + 1 /\ rj'.tmpl = rj.tmpl
      BY <1>1, <2>3 DEF ReactiveJob
    <3>a. ObjectSeen.there /\ ~ObjectSeen.deleting
      BY <2>1 DEF ObjectSeen
    <3>1. ObjectSeen' = [there |-> TRUE, uid |-> ObjectSeen.uid, gen |-> ObjectSeen.gen + 1,
                         tmpl |-> ObjectSeen.tmpl, deleting |-> TRUE]
      BY <1>1, <2>1, <3>0 DEF ObjectSeen, ReactiveJob
    <3>2. UNCHANGED StatusSeen
      BY <1>1, <2>3 DEF StatusSeen, ReactiveJob
    <3>3. Promise!Delete
      BY <1>2, <3>a, <3>1, <3>2 DEF Promise!Delete
    <3> QED BY <3>3 DEF Allowed, Promise!Next
  <2> QED BY <2>1, <2>2, <2>3 DEF Stored
<1>6. ASSUME ForeignFinalizerRemoved PROVE Allowed
  <2> DEFINE new == [rj EXCEPT !.foreign = FALSE]
  <2>1. rj.there /\ rj' = Stored(new) /\ new.uid = rj.uid
    BY <1>1, <1>6 DEF ForeignFinalizerRemoved, WriteReactiveJob, ReactiveJob
  <2>2. CASE rj' = NoReactiveJob(rj.uid)
    BY <1>2, <2>1, <2>2, ObjectGoes
  <2>3. CASE rj' = new
    BY <1>1, <1>2, <2>3, NothingSeen DEF ReactiveJob
  <2> QED BY <2>1, <2>2, <2>3 DEF Stored
<1>7. ASSUME ForeignFinalizerAdded PROVE Allowed
  BY <1>1, <1>2, <1>7, NothingSeen DEF ForeignFinalizerAdded, WriteReactiveJob, ReactiveJob
<1> QED BY <1>3, <1>4, <1>5, <1>6, <1>7

-----------------------------------------------------------------------------
(* Jobs *)

LEMMA RunWritten ==
  ASSUME jobs \in [JobNames -> Job], NEW j \in JobNames, NEW job,
         jobs' = [jobs EXCEPT ![j] = job]
  PROVE  RunsSeen' = [RunsSeen EXCEPT ![j] = Run(job)]
<1>1. \A k \in JobNames : RunsSeen'[k] = Run(jobs'[k]) /\ RunsSeen[k] = Run(jobs[k])
  BY DEF RunsSeen
<1>2. /\ RunsSeen \in [JobNames -> {Run(jobs[k]) : k \in JobNames}]
      /\ RunsSeen' \in [JobNames -> {Run(jobs'[k]) : k \in JobNames}]
  BY DEF RunsSeen
<1>3. \A k \in JobNames : RunsSeen'[k] = IF k = j THEN Run(job) ELSE RunsSeen[k]
  BY <1>1
<1> QED BY <1>2, <1>3

\* The job j is written, by whomever, and all that users may see of it is that it
\* goes. The newest job goes only with its object, since SingleInv still holds.
LEMMA JobChanges ==
  ASSUME SingleInv, SingleInv', UNCHANGED objectVars,
         NEW j \in JobNames, NEW job, jobs' = [jobs EXCEPT ![j] = job],
         job.uid = jobs[j].uid, job.gen = jobs[j].gen, job.tmpl = jobs[j].tmpl,
         job.result = jobs[j].result,
         job.phase = jobs[j].phase \/ (jobs[j].phase = "live" /\ job.phase = "gone")
  PROVE  Allowed
<1>1. rj' = rj /\ jobs \in [JobNames -> Job] /\ jobs[j] \in Job
  BY DEF objectVars, SingleInv, ReadyInv, ControllerTypeOK, ClusterTypeOK
<1>2. ObjectSeen' = ObjectSeen /\ StatusSeen' = StatusSeen
  BY <1>1 DEF ObjectSeen, StatusSeen
<1>3. jobs'[j] = job /\ \A k \in JobNames \ {j} : jobs'[k] = jobs[k]
  BY <1>1
<1>4. RunsSeen' = [RunsSeen EXCEPT ![j] = Run(job)]
  BY <1>1, RunWritten
<1>5. CASE job.phase = jobs[j].phase
  <2>1. Run(job) = Run(jobs[j])
    BY <1>5 DEF Run
  <2>2. \A k \in JobNames : Run(jobs'[k]) = Run(jobs[k])
    BY <1>3, <2>1
  <2>3. RunsSeen' = RunsSeen
    BY <2>2 DEF RunsSeen
  <2> QED BY <1>2, <2>3 DEF Allowed, Promise!promised
<1>6. CASE jobs[j].phase = "live" /\ job.phase = "gone"
  <2>1. RunsSeen[j].phase = "live"
    BY <1>6 DEF RunsSeen, Run
  <2>2. RunsSeen' = [RunsSeen EXCEPT ![j].phase = "gone"]
    <3>1. Run(job) = [Run(jobs[j]) EXCEPT !.phase = "gone"]
      BY <1>6 DEF Run
    <3>2. RunsSeen[j] = Run(jobs[j])
      BY DEF RunsSeen
    <3> QED BY <1>4, <3>1, <3>2
  <2>3. ASSUME j \in Promise!Latest PROVE ObjectSeen.deleting
    <3> SUFFICES ASSUME ~rj.deleting PROVE FALSE
      BY DEF ObjectSeen
    <3>1. j \in Made(rj.uid, jobs)
          /\ \A k \in Made(rj.uid, jobs) : jobs[k].gen <= jobs[j].gen
      BY <2>3, Seen
    <3>2. rj.there /\ Made(rj.uid, jobs') = Made(rj.uid, jobs)
      BY <1>3, <1>6 DEF SingleInv, OwnerOK, Made
    <3>3. PICK k \in Made(rj.uid, jobs) : Held(k, jobs') /\ jobs'[j].gen <= jobs'[k].gen
      BY <1>1, <3>1, <3>2 DEF SingleInv, OwnerOK, Kept
    <3>4. k # j /\ jobs'[k] = jobs[k] /\ k \in JobNames
      BY <1>3, <1>6, <3>3 DEF Held, Made
    <3>5. jobs[j].gen \in Nat /\ jobs[k].gen \in Nat
      BY <1>1, <3>4 DEF Job
    <3>6. jobs[j].gen = jobs[k].gen
      BY <1>3, <3>1, <3>3, <3>4, <3>5
    <3> QED BY <3>1, <3>3, <3>4, <3>6 DEF SingleInv, HistoryOK, Made
  <2>4. Promise!Retire(j)
    BY <1>2, <2>1, <2>2, <2>3 DEF Promise!Retire
  <2> QED BY <2>4 DEF Allowed, Promise!Next
<1> QED BY <1>5, <1>6

\* What the operator and the collectors write to a job is of that kind.
LEMMA JobWrites ==
  ASSUME SingleInv, SingleInv', UNCHANGED objectVars,
         NEW j \in JobNames, jobs[j].phase # "unused", NEW job \in Job,
         jobs[j].phase = "live" \/ job.phase # "live",
         job.uid = jobs[j].uid, job.gen = jobs[j].gen, job.tmpl = jobs[j].tmpl,
         job.result = jobs[j].result, job.phase = jobs[j].phase,
         WriteJob(j, StoredJob(job))
  PROVE  Allowed
<1>1. jobs' = [jobs EXCEPT ![j] = StoredJob(job)]
  BY DEF WriteJob
<1>2. jobs[j].phase = "live" \/ jobs[j].phase = "gone"
  BY DEF SingleInv, ReadyInv, ControllerTypeOK, ClusterTypeOK, Job
<1>3. CASE StoredJob(job) = job
  BY <1>1, <1>3, JobChanges
<1>4. CASE StoredJob(job) = [job EXCEPT !.phase = "gone"]
  <2>1. /\ StoredJob(job).uid = job.uid /\ StoredJob(job).gen = job.gen
        /\ StoredJob(job).tmpl = job.tmpl /\ StoredJob(job).result = job.result
        /\ StoredJob(job).phase = "gone"
    BY <1>4 DEF Job
  <2> HIDE DEF StoredJob
  <2> QED BY <1>1, <1>2, <2>1, JobChanges
<1> QED BY <1>3, <1>4 DEF StoredJob

LEMMA JobSteps ==
  ASSUME SingleInv, SingleInv', NEW j \in JobNames,
         \/ \E result \in Results : JobFinishes(j, result)
         \/ \E propagation \in Propagations : JobDeleted(j, propagation)
         \/ JobCollected(j)
  PROVE  Allowed
<1>1. jobs \in [JobNames -> Job] /\ jobs[j] \in Job
  BY DEF SingleInv, ReadyInv, ControllerTypeOK, ClusterTypeOK
<1>2. UNCHANGED objectVars /\ jobs[j].phase = "live"
  BY DEF JobFinishes, JobDeleted, JobCollected, Live
<1>3. ASSUME NEW result \in Results, JobFinishes(j, result) PROVE Allowed
  <2> DEFINE job == [jobs[j] EXCEPT !.result = result]
  <2>1. jobs' = [jobs EXCEPT ![j] = job] /\ jobs[j].result = "running"
    BY <1>3 DEF JobFinishes, WriteJob
  <2>2. result \in {"complete", "failed"}
    BY ResultsAssumption
  <2>3. Run(job) = [Run(jobs[j]) EXCEPT !.result = result]
    BY <1>1 DEF Run, Job
  <2>4. /\ RunsSeen[j] = Run(jobs[j])
        /\ RunsSeen[j].phase = "live" /\ RunsSeen[j].result = "running"
    BY <1>2, <2>1 DEF RunsSeen, Run
  <2>5. RunsSeen' = [RunsSeen EXCEPT ![j] = Run(job)]
    <3> HIDE DEF job
    <3> QED BY <1>1, <2>1, RunWritten
  <2>6. RunsSeen' = [RunsSeen EXCEPT ![j].result = result]
    BY <2>3, <2>4, <2>5
  <2>7. ObjectSeen' = ObjectSeen /\ StatusSeen' = StatusSeen
    BY <1>2 DEF ObjectSeen, StatusSeen, objectVars
  <2>8. Promise!Finish(j)
    BY <2>2, <2>4, <2>6, <2>7 DEF Promise!Finish
  <2> QED BY <2>8 DEF Allowed, Promise!Next
<1>4. ASSUME NEW propagation \in Propagations, JobDeleted(j, propagation)
      PROVE  Allowed
  <2> DEFINE job == [jobs[j] EXCEPT !.deleting = TRUE, !.fg = propagation = "Foreground"]
  <2>1. /\ job \in Job /\ job.uid = jobs[j].uid /\ job.gen = jobs[j].gen
        /\ job.tmpl = jobs[j].tmpl /\ job.result = jobs[j].result
        /\ job.phase = jobs[j].phase
    BY <1>1 DEF Job
  <2>2. WriteJob(j, StoredJob(job))
    BY <1>4 DEF JobDeleted
  <2> HIDE DEF job
  <2> QED BY <1>2, <2>1, <2>2, JobWrites
<1>5. ASSUME JobCollected(j) PROVE Allowed
  <2> DEFINE job == [jobs[j] EXCEPT !.fg = FALSE]
  <2>1. /\ job \in Job /\ job.uid = jobs[j].uid /\ job.gen = jobs[j].gen
        /\ job.tmpl = jobs[j].tmpl /\ job.result = jobs[j].result
        /\ job.phase = jobs[j].phase
    BY <1>1 DEF Job
  <2>2. WriteJob(j, StoredJob(job))
    BY <1>5 DEF JobCollected
  <2> HIDE DEF job
  <2> QED BY <1>2, <2>1, <2>2, JobWrites
<1> QED BY <1>3, <1>4, <1>5

-----------------------------------------------------------------------------
(* The worker *)

\* A new job is the first of a generation, and of another template than the last.
LEMMA CreateSteps ==
  ASSUME SingleInv, SingleInv', TypeOK, NEW w \in Workers, CreateJob(w)
  PROVE  Allowed
<1> DEFINE copy == run[w].obj
<1>1. /\ jobs \in [JobNames -> Job] /\ rj \in ReactiveJob /\ copy \in ReactiveJob
      /\ run[w].pc = "create"
  BY DEF SingleInv, ReadyInv, ControllerTypeOK, ClusterTypeOK, CreateJob, ReconcileRun
<1>2. /\ CreateOK(run[w], jobs) /\ CopyOK(copy, rj, jobs) /\ HasFinalizer(copy, rj)
  BY <1>1 DEF SingleInv, WorkerOK, CreateOK
<1>3. CASE NoEffect
  BY <1>3, NothingSeen DEF NoEffect, objectVars
<1>4. ASSUME NEW j \in JobNames, ~Used(j), DryRun(copy.tmpl),
             WriteJob(j, JobFor(copy)), UNCHANGED objectVars
      PROVE  Allowed
  <2>1. /\ rj.there /\ rj.uid = copy.uid /\ copy.gen <= rj.gen
        /\ copy.gen = rj.gen => copy.tmpl = rj.tmpl
    BY <1>2 DEF HasFinalizer, CopyOK
  <2>2. copy.gen \in 0..rj.gen /\ copy.tmpl \in Templates
    BY <1>1, <1>4, <2>1 DEF ReactiveJob, DryRun, TypeOK, WebhookTypeOK
  <2>3. /\ ObjectSeen' = ObjectSeen /\ StatusSeen' = StatusSeen
        /\ ObjectSeen.there /\ ObjectSeen.uid = copy.uid
        /\ ObjectSeen.gen = rj.gen /\ ObjectSeen.tmpl = rj.tmpl
    BY <1>4, <2>1 DEF ObjectSeen, StatusSeen, objectVars
  <2>4. RunsSeen[j].phase = "unused"
    BY <1>4 DEF RunsSeen, Run, Used
  <2>5. \A k \in Made(rj.uid, jobs) : RunsSeen[k].gen = jobs[k].gen
                                      /\ RunsSeen[k].tmpl = jobs[k].tmpl
    BY DEF RunsSeen, Run, Made
  <2>6. \A k \in Promise!Runs : RunsSeen[k].gen < copy.gen
    BY <1>2, <2>1, <2>5, Seen DEF CreateOK
  <2>7. \A k \in Promise!Latest : RunsSeen[k].tmpl # copy.tmpl
    BY <1>2, <2>1, <2>5, Seen DEF CreateOK
  <2>8. RunsSeen' = [RunsSeen EXCEPT ![j] = Run(JobFor(copy))]
    <3>1. jobs' = [jobs EXCEPT ![j] = JobFor(copy)]
      BY <1>4 DEF WriteJob
    <3> QED BY <1>1, <3>1, RunWritten
  <2>9. Run(JobFor(copy)) = [phase |-> "live", uid |-> ObjectSeen.uid, gen |-> copy.gen,
                             tmpl |-> copy.tmpl, result |-> "running"]
    BY <2>3 DEF Run, JobFor, NoJob
  <2> HIDE DEF copy
  <2>10. Promise!Launch(j)
    BY <2>1, <2>2, <2>3, <2>4, <2>6, <2>7, <2>8, <2>9 DEF Promise!Launch
  <2> QED BY <2>10 DEF Allowed, Promise!Next
<1> QED BY <1>3, <1>4 DEF CreateJob

LEMMA ReleaseSteps ==
  ASSUME SingleInv, SingleInv', NEW w \in Workers, ReleaseJob(w) \/ PurgeJob(w)
  PROVE  Allowed
<1>1. /\ jobs \in [JobNames -> Job] /\ run[w] \in ReconcileRun
      /\ run[w].todo \in SUBSET JobNames
      /\ RunOK(run[w], jobs) /\ WorkerOK(run[w], rj, jobs)
      /\ run[w].pc = "release" \/ run[w].pc = "purge"
  BY DEF SingleInv, ReadyInv, ControllerTypeOK, ClusterTypeOK, ReconcileRun,
         ReleaseJob, PurgeJob
<1>2. \A j \in Newest(run[w].todo, run[w].list) : j \in Listed(run[w]) /\ j \in JobNames
  BY <1>1 DEF WorkerOK, ReleaseOK, Newest
<1>3. \A j \in Listed(run[w]) : jobs[j].phase # "unused"
  BY <1>1 DEF RunOK, ListOK, Mature
<1>4. CASE NoEffect
  BY <1>4, NothingSeen DEF NoEffect, objectVars
<1>5. ASSUME NEW j \in Newest(run[w].todo, run[w].list), UNCHANGED objectVars,
             WriteJob(j, StoredJob([jobs[j] EXCEPT !.fin = FALSE])),
             CurrentJob(w, j)
      PROVE  Allowed
  <2> DEFINE job == [jobs[j] EXCEPT !.fin = FALSE]
  <2>1. j \in JobNames /\ jobs[j] \in Job /\ jobs[j].phase # "unused"
    BY <1>1, <1>2, <1>3
  <2>2. /\ job \in Job /\ job.uid = jobs[j].uid /\ job.gen = jobs[j].gen
        /\ job.tmpl = jobs[j].tmpl /\ job.result = jobs[j].result
        /\ job.phase = jobs[j].phase
    BY <2>1 DEF Job
  <2>3. WriteJob(j, StoredJob(job))
    BY <1>5
  <2> HIDE DEF job
  <2> QED BY <1>5, <2>1, <2>2, <2>3, JobWrites
<1>6. ASSUME NEW j \in Newest(run[w].todo, run[w].list), UNCHANGED objectVars, Live(j),
             WriteJob(j, [jobs[j] EXCEPT !.deleting = TRUE, !.fg = TRUE])
      PROVE  Allowed
  <2> DEFINE job == [jobs[j] EXCEPT !.deleting = TRUE, !.fg = TRUE]
  <2>1. j \in JobNames /\ jobs[j] \in Job /\ jobs[j].phase = "live"
    BY <1>1, <1>2, <1>6 DEF Live
  <2>2. /\ job \in Job /\ job.uid = jobs[j].uid /\ job.gen = jobs[j].gen
        /\ job.tmpl = jobs[j].tmpl /\ job.result = jobs[j].result
        /\ job.phase = jobs[j].phase
    BY <2>1 DEF Job
  <2>3. jobs' = [jobs EXCEPT ![j] = job]
    BY <1>6 DEF WriteJob
  <2> HIDE DEF job
  <2> QED BY <1>6, <2>1, <2>2, <2>3, JobChanges
<1> QED BY <1>4, <1>5, <1>6 DEF ReleaseJob, PurgeJob

\* A status that is written is about the object it is written to.
LEMMA StatusSteps ==
  ASSUME SingleInv, SingleInv', NEW w \in Workers, UpdateStatus(w)
  PROVE  Allowed
<1>1. /\ rj \in ReactiveJob /\ rj' \in ReactiveJob /\ UNCHANGED jobs
      /\ jobs \in [JobNames -> Job] /\ run[w].pc = "status"
  BY DEF SingleInv, ReadyInv, ControllerTypeOK, ClusterTypeOK, UpdateStatus, Return
<1>2. CASE rj' = rj
  BY <1>1, <1>2, NothingSeen
<1>3. CASE CurrentReactiveJob(w) /\ rj' = [rj EXCEPT !.status = run[w].obj.status]
  <2>1. /\ rj'.there = rj.there /\ rj'.uid = rj.uid /\ rj'.gen = rj.gen
        /\ rj'.tmpl = rj.tmpl /\ rj'.deleting = rj.deleting
        /\ rj'.status = run[w].obj.status
    BY <1>1, <1>3 DEF ReactiveJob
  <2>2. rj.there /\ run[w].obj.uid = rj.uid /\ CurrentOK(run[w], rj, jobs)
    BY <1>1, <1>3 DEF SingleInv, ReadyInv, CopyIsCurrent, SameObject, CurrentReactiveJob
  <2>3. /\ ObjectSeen' = ObjectSeen /\ UNCHANGED RunsSeen /\ ObjectSeen.there
        /\ ObjectSeen.gen = rj.gen /\ ObjectSeen.tmpl = rj.tmpl
        /\ ObjectSeen.deleting = rj.deleting
    BY <1>1, <2>1, <2>2 DEF ObjectSeen, RunsSeen
  <2>4. /\ StatusSeen'.obs = rj'.status.obs /\ StatusSeen'.state = rj'.status.state
        /\ StatusSeen'.cur = rj'.status.cur /\ StatusSeen.cur = rj.status.cur
    BY DEF StatusSeen
  <2>5. \A k \in JobNames : /\ RunsSeen[k].gen = jobs[k].gen
                            /\ RunsSeen[k].tmpl = jobs[k].tmpl
                            /\ RunsSeen[k].result = jobs[k].result
    BY DEF RunsSeen, Run
  <2>6. StatusSeen'.obs <= ObjectSeen.gen
    BY <2>1, <2>3, <2>4 DEF SingleInv, ReadyInv, StatusOK
  <2>7. Promise!CurrentAdvances
    <3>1. CASE run[w].obj.status.cur = rj.status.cur
      BY <2>1, <2>4, <3>1 DEF Promise!CurrentAdvances
    <3>2. CASE /\ rj'.status.cur \in Made(rj.uid, jobs)
               /\ \A j \in Made(rj.uid, jobs) : jobs[j].gen <= jobs[rj'.status.cur].gen
      <4>1. rj.status.cur \in JobNames => rj.status.cur \in Made(rj.uid, jobs)
        BY NamesAssumption DEF SingleInv, ReportedOK
      <4> QED BY <2>4, <2>5, <3>2, <4>1, Seen DEF Promise!CurrentAdvances, Made
    <3> QED BY <2>1, <2>2, <3>1, <3>2 DEF CurrentOK
  <2>8. ASSUME rj'.status.obs = rj.gen, rj'.status.state \in {"Processing", "Ready"}
        PROVE  \E j \in Promise!Latest : RunsSeen[j].tmpl = ObjectSeen.tmpl
    <3>1. Launched(rj', jobs)
      BY <1>1, <2>1, <2>8 DEF SingleInv, ReportedOK, Launching
    <3> QED BY <2>1, <2>3, <2>5, <3>1, Seen DEF Launched, Made
  <2>9. ASSUME rj'.status.obs = rj.gen, rj'.status.state = "Ready"
        PROVE  /\ ~ObjectSeen.deleting
               /\ StatusSeen'.cur \in Promise!Runs
               /\ RunsSeen[StatusSeen'.cur].tmpl = ObjectSeen.tmpl
               /\ RunsSeen[StatusSeen'.cur].result = "complete"
    <3>1. Completed(rj', rj'.status.cur, jobs)
      BY <1>1, <2>1, <2>9 DEF SingleInv, ReadyInv, StatusOK
    <3> QED BY <2>1, <2>3, <2>4, <2>5, <3>1, Seen DEF Completed, Made
  <2>10. Promise!Truthful(StatusSeen')
    BY <2>1, <2>3, <2>4, <2>8, <2>9 DEF Promise!Truthful
  <2>11. Promise!Report
    BY <2>3, <2>6, <2>7, <2>10 DEF Promise!Report
  <2> QED BY <2>11 DEF Allowed, Promise!Next
<1> QED BY <1>2, <1>3 DEF UpdateStatus, objectVars

LEMMA FinalizerSteps ==
  ASSUME SingleInv, SingleInv', NEW w \in Workers, SetFinalizer(w) \/ ClearFinalizer(w)
  PROVE  Allowed
<1>1. rj \in ReactiveJob /\ UNCHANGED jobs
  BY DEF SingleInv, ReadyInv, ControllerTypeOK, ClusterTypeOK, SetFinalizer,
         ClearFinalizer, NoEffect, Return
<1>2. CASE rj' = rj
  BY <1>1, <1>2, NothingSeen
<1>3. CASE rj' = [rj EXCEPT !.fin = TRUE]
  BY <1>1, <1>3, NothingSeen DEF ReactiveJob
<1>4. CASE ClearFinalizer(w) /\ CurrentReactiveJob(w)
           /\ rj' = Stored([rj EXCEPT !.fin = FALSE])
  <2> DEFINE new == [rj EXCEPT !.fin = FALSE]
  <2>1. rj.there
    BY <1>4 DEF SingleInv, ReadyInv, CopyIsCurrent, CurrentReactiveJob, ClearFinalizer
  <2>2. rj' = new \/ rj' = NoReactiveJob(rj.uid)
    BY <1>1, <1>4 DEF Stored, ReactiveJob
  <2>3. CASE rj' = new
    BY <1>1, <2>3, NothingSeen DEF ReactiveJob
  <2>4. CASE rj' = NoReactiveJob(rj.uid)
    BY <1>1, <2>1, <2>4, ObjectGoes
  <2> QED BY <2>2, <2>3, <2>4
<1> QED BY <1>2, <1>3, <1>4 DEF SetFinalizer, ClearFinalizer, WriteReactiveJob, NoEffect,
      objectVars, Accepted

-----------------------------------------------------------------------------
(* The promise *)

LEMMA PromiseBegins ==
  ASSUME Init PROVE Promise!Init
<1>1. /\ rj = NoReactiveJob(0) /\ \A j \in JobNames : jobs[j] = NoJob
  BY DEF Init, ClusterInit
<1>2. ObjectSeen = Promise!NoObject(0)
  BY <1>1 DEF ObjectSeen, NoReactiveJob, Promise!NoObject, Promise!NoName, None
<1>3. StatusSeen = Promise!NoStatus
  BY <1>1 DEF StatusSeen, NoReactiveJob, FreshStatus, Promise!NoStatus, Promise!NoName, None
<1>4. \A j \in JobNames : RunsSeen[j].phase = "unused"
  BY <1>1 DEF RunsSeen, Run, NoJob
<1> QED BY <1>2, <1>3, <1>4 DEF Promise!Init

LEMMA PromiseGoesOn ==
  ASSUME SingleInv, SingleInv', TypeOK, [Next]_vars
  PROVE  Allowed
<1>1. ASSUME NEW w \in Workers, Reconcile(w) PROVE Allowed
  <2>1. CASE Get(w) \/ ListJobs(w)
    BY <2>1, NothingSeen DEF Get, ListJobs, NoEffect, objectVars
  <2> QED BY <1>1, <2>1, CreateSteps, ReleaseSteps, StatusSteps, FinalizerSteps
       DEF Reconcile
<1>2. ASSUME NEW w \in Workers, Crash(w) PROVE Allowed
  BY <1>2, NothingSeen DEF Crash, Return
<1>3. CASE Environment
  <2>1. CASE Acceptance \/ Annotated
    BY <2>1, NothingSeen DEF Acceptance, TemplateRejected, TemplateAccepted, Annotated,
       objectVars
  <2> QED BY <1>3, <2>1, UserSteps, JobSteps DEF Environment, Others
<1>4. CASE UNCHANGED vars
  BY <1>4, NothingSeen DEF vars
<1> QED BY <1>1, <1>2, <1>3, <1>4 DEF Next

\* With a single worker, whatever fails in between, users see nothing but steps the
\* promise allows: the reconciler of internal/controllers implements it.
THEOREM PromiseIsKept ==
  ASSUME OneWorker
  PROVE  Spec => ImplementsPromise
<1>1. Spec => [](SingleInv /\ TypeOK)
  BY SingleInvariance, TypeCorrectness, PTL
<1>2. (SingleInv /\ TypeOK) /\ (SingleInv /\ TypeOK)' /\ [Next]_vars
        => [Promise!Next]_(Promise!promised)
  BY PromiseGoesOn DEF Allowed
<1> QED BY <1>1, <1>2, PromiseBegins, PTL DEF Spec, Promise!Spec, ImplementsPromise
=============================================================================
