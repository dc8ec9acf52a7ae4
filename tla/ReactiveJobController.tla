----------------------- MODULE ReactiveJobController -----------------------
(***************************************************************************)
(* The reconciler of internal/controllers. Every call of Reconcile is a    *)
(* sequence of API calls with everybody else's writes in between, so each  *)
(* API call is an action and run[w] holds what the code keeps in local     *)
(* variables from one call to the next. A process has one reconcile worker *)
(* (the controller-runtime default), and several processes may run at once *)
(* when leader election is off, which is the default of main.go.           *)
(*                                                                         *)
(* A call to the API server has these outcomes: it is applied and answered,*)
(* it is refused (a version conflict, or the object is gone), it fails     *)
(* without effect, or it is applied and the answer is lost. The last two   *)
(* count as disturbances.                                                  *)
(***************************************************************************)
EXTENDS ReactiveJobCluster

VARIABLE run   \* run[w]: where Reconcile of w is, and its local variables

vars == <<rj, rjHeld, jobs, due, disturbances, creatable, run>>

\* The API call Reconcile makes next.
Calls == {"idle", "list", "setFinalizer", "create", "release", "purge",
          "clearFinalizer", "status"}

\* obj is reactiveJob, list the jobs as List returned them (a job that was not
\* listed is NoJob), first is the head of the sorted list, todo the jobs the
\* current loop has yet to call the API for.
ReconcileRun ==
  [pc    : Calls,
   obj   : ReactiveJob,
   list  : [JobNames -> Job],
   first : JobNames \cup {None},
   todo  : SUBSET JobNames]

NoRun ==
  [pc |-> "idle", obj |-> NoReactiveJob(0), list |-> [j \in JobNames |-> NoJob],
   first |-> None, todo |-> {}]

ControllerTypeOK ==
  /\ ClusterTypeOK
  /\ run \in [Workers -> ReconcileRun]

TypeOK == WebhookTypeOK /\ ControllerTypeOK

Init == WebhookInit /\ ClusterInit /\ run = [w \in Workers |-> NoRun]

-----------------------------------------------------------------------------
(* What Reconcile computes between two API calls *)

\* Nothing of the list is used any more.
WithoutList(r) == [r EXCEPT !.list = NoRun.list, !.first = None, !.todo = {}]

\* The deferred status update comes next, with this state.
Report(r, state) ==
  [WithoutList(r) EXCEPT !.pc = "status", !.obj.status = SetState(@, state)]

\* A call returned an error: the deferred function records it in the status.
Fail(r) == Report(r, "Error")

Listed(r) == {j \in JobNames : r.list[j].phase # "unused"}

\* jobs is sorted by descending generation, so jobs[0] is one of these.
Newest(S, table) == {j \in S : \A k \in S : table[k].gen <= table[j].gen}

\* Mutant: only the first job is created.
NeedsFirstJob(r) == r.first = None

\* Mutant: the generations are compared instead of the hashes.
NeedsJobOfGeneration(r) ==
  r.first = None \/ r.list[r.first].gen # r.obj.gen

NeedsJob(r) ==
  \/ r.first = None
  \/ r.list[r.first].tmpl # r.obj.tmpl

\* Mutant: the loop starts at jobs[0].
SupersededAndCurrent(r) == {j \in Listed(r) : r.list[j].fin}

\* Mutant: only jobs[1] is released, the one superseded last.
SupersededLast(r) ==
  {j \in Newest(Listed(r) \ {r.first}, r.list) : r.list[j].fin}

\* jobs[1:], as far as they still hold the operator's finalizer.
Superseded(r) == {j \in Listed(r) \ {r.first} : r.list[j].fin}

Outcome(job) ==
  CASE job.result = "failed"   -> "Error"
    [] job.result = "complete" -> "Ready"
    [] OTHER                   -> "Processing"

ReportJob(r) ==
  Report([r EXCEPT !.obj.status.cur = r.first], Outcome(r.list[r.first]))

ReleaseNext(r) == IF r.todo = {} THEN ReportJob(r)
                                 ELSE [r EXCEPT !.pc = "release"]

CreateOrUpdate(r) ==
  IF NeedsJob(r) THEN [WithoutList(r) EXCEPT !.pc = "create"]
                 ELSE ReleaseNext([r EXCEPT !.todo = Superseded(r)])

\* Mutant: a job that does not hold the finalizer is passed over.
ToRelease(r) == {j \in Listed(r) : r.list[j].fin}

\* The jobs for which the deletion loop still has a call to make.
ToPurge(r) == {j \in Listed(r) : r.list[j].fin \/ ~r.list[j].deleting}

\* Mutant: the ReactiveJob goes without waiting for its jobs.
PurgeAndClear(r) ==
  [r EXCEPT !.pc = IF ToPurge(r) = {} THEN "clearFinalizer" ELSE "purge",
            !.todo = ToPurge(r)]

PurgeNext(r) ==
  IF ToPurge(r) = {} THEN Report(r, "Deleting")
                     ELSE [r EXCEPT !.pc = "purge", !.todo = ToPurge(r)]

Delete(r) ==
  CASE Listed(r) # {} -> PurgeNext(r)
    [] Listed(r) = {} /\ r.obj.fin -> [r EXCEPT !.pc = "clearFinalizer"]
    [] OTHER -> NoRun

\* The three cases of Reconcile, once the jobs are listed and sorted.
Dispatch(r) ==
  CASE ~r.obj.deleting -> IF r.obj.fin THEN CreateOrUpdate(r)
                                       ELSE [r EXCEPT !.pc = "setFinalizer"]
    [] r.obj.deleting /\ r.obj.foreign -> Report(r, "DeletionBlocked")
    [] OTHER -> Delete(r)

\* Reconcile continues with r, and this call was not disturbed.
Continue(w, r) ==
  /\ run' = [run EXCEPT ![w] = r]
  /\ UNCHANGED disturbances

\* The call failed, or its answer was lost, although the server had no reason.
Disturbed(w) ==
  /\ run' = [run EXCEPT ![w] = Fail(@)]
  /\ Disturb

\* The server answers w: the call is applied; the answer may get lost.
Answered(w, r) == Continue(w, r) \/ Disturbed(w)

\* Reconcile ends: its local variables are forgotten.
Return(w) ==
  /\ run' = [run EXCEPT ![w] = NoRun]
  /\ UNCHANGED jobs

\* Mutant: without an event nothing calls Reconcile again.
NotRequeued(w) == due

\* The request goes back to the queue: at once, with a back-off after an error,
\* or after the period Reconcile asked for.
Requeued(w) == [due EXCEPT ![w] = TRUE]

\* The call changes nothing and comes back with an error.
NoEffect == UNCHANGED <<objectVars, jobs, due>>

\* Mutant: a patch, which carries no version, in place of an update.
AnyReactiveJob(w) == rj.there

\* A write carries the version of the copy it was made from.
CurrentReactiveJob(w) == w \in rjHeld
CurrentJob(w, j) == run[w].list[j] = jobs[j]

\* The write of the ReactiveJob also has to pass the operator's own webhook.
Accepted(w, obj) == CurrentReactiveJob(w) /\ Validate(obj)

-----------------------------------------------------------------------------
(* The API calls of Reconcile *)

\* Observing the generation happens on the copy only.
Acknowledge(obj) == [obj EXCEPT !.status.obs = obj.gen]

FirstStep(obj) ==
  IF obj.status.state = None
  THEN Report([NoRun EXCEPT !.obj = obj], "New")
  ELSE [NoRun EXCEPT !.pc = "list", !.obj = obj]

\* The request is taken from the queue and the ReactiveJob is read.
Get(w) ==
  /\ run[w].pc = "idle"
  /\ due[w]
  /\ \/ /\ rj.there
        /\ rjHeld' = rjHeld \cup {w}
        /\ due' = [due EXCEPT ![w] = FALSE]
        /\ Continue(w, FirstStep(Acknowledge(rj)))
     \/ /\ ~rj.there
        /\ due' = [due EXCEPT ![w] = FALSE]
        /\ UNCHANGED <<rjHeld, run, disturbances>>
     \/ /\ Disturb
        /\ UNCHANGED <<rjHeld, run, due>>
  /\ UNCHANGED <<rj, jobs>>

\* Mutant: jobs marked for deletion are passed over.
DependentsNotDeleting(uid) ==
  {j \in JobNames : Live(j) /\ jobs[j].uid = uid /\ ~jobs[j].deleting}

Dependents(uid) == {j \in JobNames : Live(j) /\ jobs[j].uid = uid}

ListJobs(w) ==
  /\ run[w].pc = "list"
  /\ LET deps == Dependents(run[w].obj.uid)
         seen == [j \in JobNames |-> IF j \in deps THEN jobs[j] ELSE NoJob]
     IN  \/ \E first \in IF deps = {} THEN {None} ELSE Newest(deps, jobs) :
              Continue(w, Dispatch([run[w] EXCEPT !.list = seen, !.first = first]))
         \/ Disturbed(w)
  /\ NoEffect

\* The answer to the update replaces the copy, its status included: the
\* acknowledged generation is lost again.
SetFinalizer(w) ==
  /\ run[w].pc = "setFinalizer"
  /\ \/ LET obj == [rj EXCEPT !.fin = TRUE]
        IN  /\ Accepted(w, obj)
            /\ \/ /\ WriteReactiveJob(obj, {w})
                  /\ Continue(w, CreateOrUpdate([run[w] EXCEPT !.obj = obj]))
               \/ /\ WriteReactiveJob(obj, {})
                  /\ Disturbed(w)
            /\ UNCHANGED jobs
     \/ /\ ~Accepted(w, [rj EXCEPT !.fin = TRUE])
        /\ Continue(w, Fail(run[w]))
        /\ NoEffect
     \/ Disturbed(w) /\ NoEffect

\* The job made from the copy of the ReactiveJob.
JobFor(obj) ==
  [NoJob EXCEPT !.phase = "live", !.uid = obj.uid, !.gen = obj.gen,
                !.tmpl = obj.tmpl, !.fin = TRUE]

\* A create is not tied to any version of the ReactiveJob. The current job name
\* is not set before the next reconciliation.
CreateJob(w) ==
  /\ run[w].pc = "create"
  /\ \/ \E j \in JobNames :
          /\ ~Used(j)
          /\ DryRun(run[w].obj.tmpl)
          /\ WriteJob(j, JobFor(run[w].obj))
          /\ Answered(w, Report(run[w], "Processing"))
          /\ UNCHANGED objectVars
     \/ /\ ~DryRun(run[w].obj.tmpl)
        /\ Continue(w, Fail(run[w]))
        /\ NoEffect
     \/ Disturbed(w) /\ NoEffect

ReleaseJob(w) ==
  /\ run[w].pc = "release"
  /\ \E j \in Newest(run[w].todo, run[w].list) :
       \/ /\ CurrentJob(w, j)
          /\ WriteJob(j, StoredJob([jobs[j] EXCEPT !.fin = FALSE]))
          /\ Answered(w, ReleaseNext([run[w] EXCEPT !.todo = @ \ {j}]))
          /\ UNCHANGED objectVars
       \/ ~CurrentJob(w, j) /\ Continue(w, Fail(run[w])) /\ NoEffect
       \/ Disturbed(w) /\ NoEffect

\* Body of the deletion loop: give up the finalizer, then delete.
PurgeJob(w) ==
  /\ run[w].pc = "purge"
  /\ \E j \in Newest(run[w].todo, run[w].list) :
       LET seen == run[w].list[j] IN
       \/ /\ seen.fin
          /\ CurrentJob(w, j)
          /\ WriteJob(j, StoredJob([jobs[j] EXCEPT !.fin = FALSE]))
          /\ Answered(w, PurgeNext([run[w] EXCEPT !.list[j].fin = FALSE]))
          /\ UNCHANGED objectVars
       \/ /\ ~seen.fin
          /\ Live(j)
          /\ WriteJob(j, [jobs[j] EXCEPT !.deleting = TRUE, !.fg = TRUE])
          /\ Answered(w, PurgeNext([run[w] EXCEPT !.list[j].deleting = TRUE]))
          /\ UNCHANGED objectVars
       \/ /\ IF seen.fin THEN ~CurrentJob(w, j) ELSE ~Live(j)
          /\ Continue(w, Fail(run[w]))
          /\ NoEffect
       \/ Disturbed(w) /\ NoEffect

\* The last finalizer of an object marked for deletion: the object goes with it,
\* and Reconcile returns without a status update.
ClearFinalizer(w) ==
  /\ run[w].pc = "clearFinalizer"
  /\ \/ /\ Accepted(w, [rj EXCEPT !.fin = FALSE])
        /\ WriteReactiveJob(Stored([rj EXCEPT !.fin = FALSE]), {})
        /\ \/ Return(w) /\ UNCHANGED disturbances
           \/ Disturbed(w) /\ UNCHANGED jobs
     \/ /\ ~Accepted(w, [rj EXCEPT !.fin = FALSE])
        /\ Continue(w, Fail(run[w]))
        /\ NoEffect
     \/ Disturbed(w) /\ NoEffect

\* The deferred status update. Reconcile asks to be called again whether it is
\* applied or not, so a lost answer changes nothing. Writing the status that is
\* there makes a new version unless the condition's time stamp, which counts
\* seconds, is the same too.
UpdateStatus(w) ==
  /\ run[w].pc = "status"
  /\ \/ /\ CurrentReactiveJob(w)
        /\ rj' = [rj EXCEPT !.status = run[w].obj.status]
        /\ rjHeld' \in {{}} \cup {S \in {rjHeld} : rj' = rj}
        /\ UNCHANGED disturbances
     \/ /\ ~CurrentReactiveJob(w)
        /\ UNCHANGED <<objectVars, disturbances>>
     \/ /\ rjHeld' = rjHeld \ {w}
        /\ Disturb
        /\ UNCHANGED rj
  /\ due' = Requeued(w)
  /\ Return(w)

\* The process ends anywhere; the one started in its place lists every object
\* and so enqueues the request again. It is no disturbance between two calls of
\* Reconcile.
Crash(w) ==
  /\ \/ run[w].pc = "idle" /\ UNCHANGED disturbances
     \/ run[w].pc # "idle" /\ Disturb
  /\ rjHeld' = rjHeld \ {w}
  /\ due' = Requeued(w)
  /\ Return(w)
  /\ UNCHANGED <<rj, creatable>>

Reconcile(w) ==
  /\ \/ Get(w)
     \/ ListJobs(w)
     \/ SetFinalizer(w)
     \/ CreateJob(w)
     \/ ReleaseJob(w)
     \/ PurgeJob(w)
     \/ ClearFinalizer(w)
     \/ UpdateStatus(w)
  /\ UNCHANGED creatable

Next ==
  \/ \E w \in Workers : Reconcile(w)
  \/ \E w \in Workers : Crash(w)
  \/ Environment /\ UNCHANGED run

Spec == Init /\ [][Next]_vars

\* A worker whose request is due goes on, and the garbage collector finishes the
\* foreground deletions. Nothing is assumed of users, jobs or the TTL.
Fairness ==
  /\ \A w \in Workers : WF_vars(Reconcile(w))
  /\ \A j \in JobNames : WF_vars(JobCollected(j) /\ UNCHANGED <<run, creatable>>)

FairSpec == Spec /\ Fairness

-----------------------------------------------------------------------------
(* Properties, for any number of workers *)

\* A status that is up to date and Ready speaks of the template that is in the
\* spec now: its current job was made from that template and has completed.
\* This is what waitForReactiveJobReady and ensureJobSuccessful of the test
\* suite, and kstatus, rely on; it rests on the version check of the deferred
\* status update, whatever was written since Get.
ReadyIsTruthful ==
  rj.status.state = "Ready" /\ rj.status.obs = rj.gen =>
    /\ ~rj.deleting
    /\ rj.status.cur \in JobNames
    /\ LET job == jobs[rj.status.cur]
       IN  /\ job.uid = rj.uid
           /\ job.tmpl = rj.tmpl
           /\ job.result = "complete"

-----------------------------------------------------------------------------
(* Properties of a single worker *)

OneWorker == \A v, w \in Workers : v = w

\* The jobs that were ever made for the object there is now.
Runs == {j \in JobNames : Used(j) /\ jobs[j].uid = rj.uid}

\* One generation of a ReactiveJob is run at most once: retries after lost
\* answers, conflicts and crashes never create a second job for it.
AtMostOneRun ==
  \A j, k \in JobNames :
    /\ Used(j) /\ Used(k)
    /\ jobs[j].uid = jobs[k].uid
    /\ jobs[j].gen = jobs[k].gen
    => j = k

\* A job is created only when the template changed: of two runs of an object
\* with none in between, the later has another template.
NoRedundantRun ==
  \A j, k \in JobNames :
    /\ Used(j) /\ Used(k)
    /\ jobs[j].uid = jobs[k].uid
    /\ jobs[j].gen < jobs[k].gen
    /\ \A i \in JobNames :
         Used(i) /\ jobs[i].uid = jobs[j].uid =>
           jobs[i].gen <= jobs[j].gen \/ jobs[k].gen <= jobs[i].gen
    => jobs[j].tmpl # jobs[k].tmpl

\* "The most recent job will never be deleted" (README): whatever the TTL does,
\* the newest job of an object nobody deletes is there and holds the finalizer.
NewestIsKept ==
  rj.there /\ ~rj.deleting =>
    \A j \in Newest(Runs, jobs) : Live(j) /\ jobs[j].fin

\* Jobs have no owner reference, so nobody collects them once their ReactiveJob
\* is gone: a job is there only as long as its ReactiveJob is, and keeps the
\* operator's finalizer.
NoOrphan ==
  \A j \in JobNames : Live(j) => rj.there /\ rj.uid = jobs[j].uid /\ rj.fin

\* An up-to-date status that says Processing or Ready means that the template
\* in the spec has been launched: it is the template of the newest job.
AcknowledgedIsLaunched ==
  rj.status.state \in {"Processing", "Ready"} /\ rj.status.obs = rj.gen =>
    /\ Runs # {}
    /\ \A j \in Newest(Runs, jobs) : jobs[j].tmpl = rj.tmpl

\* currentJobName never goes back to an older job.
CurrentNeverRegresses ==
  [][rj'.uid = rj.uid /\ rj'.status.cur # rj.status.cur /\ rj.status.cur # None
     => /\ rj'.there => rj'.status.cur # None
        /\ rj'.there => jobs[rj.status.cur].gen <= jobs'[rj'.status.cur].gen]_vars

-----------------------------------------------------------------------------
(* Liveness of a single worker *)

\* The status tells the outcome of the newest job, which has the template of
\* the spec.
Reflects ==
  /\ rj.status.obs = rj.gen
  /\ rj.status.cur \in Newest(Runs, jobs)
  /\ jobs[rj.status.cur].tmpl = rj.tmpl
  /\ rj.status.state = Outcome(jobs[rj.status.cur])

\* The template in the spec is one the cluster has come to refuse, and the status
\* says that something is wrong with this generation.
Refused ==
  /\ ~DryRun(rj.tmpl)
  /\ rj.status.obs = rj.gen
  /\ rj.status.state = "Error"

\* Once users, jobs and disturbances are quiet, the status comes to reflect the
\* newest job, which has the template of the spec, and stays so; only a template
\* the cluster refuses ends in Error.
StatusSettles == <>[](~rj.there \/ rj.deleting \/ Reflects \/ Refused)

\* No deletion is stuck for good: an object marked for deletion goes once no foreign
\* finalizer blocks it, although the removal of that finalizer raises no event and
\* only the requeue notices it.
DeletionCompletes == []<>~(rj.deleting /\ ~rj.foreign)

\* The job Reconcile wants to create before it looks at older ones is one that the
\* cluster refuses.
LaunchRefused ==
  /\ ~DryRun(rj.tmpl)
  /\ \A j \in Newest(Runs, jobs) : jobs[j].tmpl # rj.tmpl

\* No superseded job is held for good: it loses the operator's finalizer, so that its
\* TTL can have it, also if the loop that releases several stops half-way, again and
\* again for as long as there are disturbances. Two things keep it: a deletion that is
\* blocked, which neither releases nor purges, and a newer template that is refused.
SupersededIsReleased ==
  \A j \in JobNames :
    []<>~(/\ Live(j) /\ jobs[j].fin
          /\ j \in Runs \ Newest(Runs, jobs)
          /\ ~(rj.deleting /\ rj.foreign)
          /\ ~LaunchRefused)
=============================================================================
