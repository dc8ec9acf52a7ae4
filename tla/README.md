# Verification of the ReactiveJob operator

TLA+ modules, TLC configurations and TLAPS proofs for the operator in this
repository, which runs a Kubernetes `Job` whenever the job template of a
`ReactiveJob` changes.

## The system

| Part | Source | State | Operations |
| --- | --- | --- | --- |
| API types and state setter | `api/v1alpha1/reactivejob_types.go`, `reactivejob_utils.go` | spec (one job template), status (observed generation, state, one `Ready` condition, `currentJobName`) | `SetState`, `setCondition` |
| Reconciler | `internal/controllers/reactivejob_controller.go`, `utils.go` | none of its own: everything is in the API server and in the local variables of one call | `Reconcile`, event filters, `jobEnqueueMapper` |
| Webhook | `internal/webhooks/reactivejob_webhook.go` | none | `Default` (does nothing), `validate` (dry-run create) |
| Manager | `main.go` | leader lease, caches (switched off for both kinds) | start, stop, leader election (off by default) |
| Shared informer factory | `pkg/client/informers/externalversions/factory.go` | informers, started informers, wait group, shutting down, under one lock | `InformerFor`, `Start`, `Shutdown`, `WaitForCacheSync` |
| Deep copies | `api/v1alpha1/zz_generated.deepcopy.go` | the memory objects point to | `DeepCopy` |
| Clientset and listers | `pkg/client/clientset`, `pkg/client/listers` | none; the lister hands out pointers into the informer's cache | `Get`, `Update`, `UpdateStatus`, lister `Get` and `List` |
| Fake clientset, schemes | `pkg/client/clientset/versioned/fake`, `.../scheme` | none | test double, tables |
| External | API server, users, job controller, TTL and garbage collectors, other finalizer owners | the objects, their versions, finalizers and deletion marks | create, update, delete, finish, collect |

The reconciler and the rest of the world share only the objects in the API
server. Each call of `Reconcile` is up to a handful of API calls, and everybody
else may write between any two of them. Updates are refused when the version of
the copy is not the current one; creates and deletes are not tied to a version.
Watch events put the request back into the workqueue, after a filter that lets
through creations, deletions and changes of the generation or of annotations;
everything else is noticed because `Reconcile` asks to be called again.

What is hard here, and where it bites, is listed in `PROJECT.json` under
`hazards`: writes between the reads and writes of one reconciliation, lost
answers and crashes between a create and the status that reports it, the order
of the job list, loops that stop half-way, finalizers whose removal raises no
event, deletion without owner references, two processes at once, annotations on
jobs that do not read as they were written, and maps that two objects share.

What makes each part correct:

* types: a state determines the condition; the status names a job or nothing;
* reconciler: a generation is run at most once, and only if the template
  changed; the newest job is kept and older ones are released; no job outlives
  its ReactiveJob; an up-to-date `Ready` tells the truth; the status settles and
  deletions complete;
* its annotations: one that cannot be read, or a hash another version would
  compute differently, never costs the newest job, and nothing is stuck once it
  can be read;
* memory: a job's labels never reach the template of the ReactiveJob it shares
  them with, and nobody's copy changes the cache of an informer;
* webhook: it never blocks a deletion, and a template the cluster comes to refuse
  ends in a status that says so, or is launched once it is accepted again;
* manager: with leader election at most one process reconciles, whoever starts,
  stops or dies, and there is always a next one; without it `Ready` remains
  truthful;
* informer factory: one informer per type, started once, none after shutdown,
  `Shutdown` returns when all are stopped.

## Modules

`ReactiveJobTypes` has the two kinds of object as records, `SetState`, and the
API server's rule that an object marked for deletion goes with its last
finalizer (`Stored`, `StoredJob`). A template is a model value: two templates
are equal iff their hashes are. Reasons, messages and time stamps are left out.

`ReactiveJobWebhook` is the admission webhook. `creatable` is the set of templates
the API server would create a job of now: `Breakable` ones can leave it
(permissions, policies, a terminating namespace) and come back. `Validate` guards
every write of a ReactiveJob but deletions and those of the status: the users',
the other controllers' and the operator's own two finalizer updates. A template
with a name or namespace of its own is one that is never accepted.

`ReactiveJobCluster` is the API server as the operator sees it, with everybody
who writes to it but the operator: `rj` is the one ReactiveJob name, `jobs` the
jobs by generated name (a job that is gone keeps its record as history), `due`
the workqueue of each process. A resource version is only compared with the one
read earlier, so `rjHeld`, the set of workers whose copy is current, stands for
it; a copy of a job is current iff it equals the job, because no field of a job
ever returns to an earlier value. `WriteReactiveJob` and `WriteJob` also enqueue
what the watch events enqueue.

`ReactiveJobController` is `Reconcile`. `run[w]` holds the local variables and
`pc` the API call that comes next:

| Action | Code (`reactivejob_controller.go`) |
| --- | --- |
| `Get` | 61-96: read, acknowledge the generation, first status |
| `ListJobs` | 98-110 and, through `Dispatch`, the three cases that start at 113, 181 and 185 |
| `SetFinalizer` | 115-120; the answer replaces the copy, status included; refused by the webhook as well as on a conflict |
| `CreateJob` | 125-148; refused if the cluster does not accept the template |
| `ReleaseJob` | 151-158, one call per superseded job, then 160-180 |
| `PurgeJob` | 200-213, up to two calls per job |
| `ClearFinalizer` | 187-198, without a status update |
| `UpdateStatus` | 77-90, the deferred function, with every error as state `Error` |
| `Crash` | the process ends anywhere and another one takes over |

Each call is applied and answered, refused (version conflict, object gone),
fails without effect, or is applied and its answer is lost. The last two, crashes
in the middle of a `Reconcile`, unrelated writes and templates that become
unacceptable are *disturbances*, bounded by `MaxDisturbances`. `Workers` is the set
of processes: one reconcile worker each, so two workers are two processes without
leader election, or one whose last call arrives late.

`ReactiveJobManager` composes the reconciler with the processes of `main.go` when
leader election is on. `phase[w]` is what the manager does (down, standby, leading,
stopping, stopped), `lease` whom the lease names:

| Action | Code |
| --- | --- |
| `StartManager` | `main.go` 100-131: set-up, `mgr.Start` |
| `Elected` | `LeaderElection`, `LeaderElectionID`; the controller starts and lists everything |
| `Terminated`, `ReconcilerStops`, `ReleaseLease` | the signal handler cancels the context, the manager waits for its controller, then `LeaderElectionReleaseOnCancel` |
| `Dies` | a crash, or `mgr.Start` returns an error and `os.Exit` |
| `Leads` | a step of `Reconcile` of the leader |

The election itself belongs to client-go and controller-runtime, so its timing is an
assumption here: a process that cannot renew the lease ends before the lease
expires, and no call of a process is applied after the process ended.
`ImplementsSingleWorker` is the refinement: seen through the process that is
active, the managers are a `ReactiveJobController` with one worker. So the
properties that hold for a single worker hold with leader election.

`SharedInformerFactory` is the generated informer factory, used by clients of the
library in `pkg/client` (the operator itself does not use it). Each method is a step
under the lock, except `InformerFor`, which runs a constructor while it holds the
lock (`NewInformer`), and `Shutdown` and `WaitForCacheSync`, which wait without it.
Informers, their goroutines and their caches are external: an informer stops once
its context is cancelled and may sync while it runs. Resync periods, list options,
transformations and namespaces are data the factory hands on.

`ReactiveJobPromise` is the abstract specification of the operator, in the terms of
its users: an object, the jobs run for it, and a status. It knows no workers, API
calls, finalizers, versions or requests. A job is launched for a generation that
has none, unless the last run had the same template; the latest run is not retired
before the object is being deleted; the object goes when no job is left; the status
moves on to later runs, and an up-to-date `Processing` or `Ready` is true of the
template in the spec. `ImplementsPromise` in `ReactiveJobSingle` is the refinement: the
mapping shows of the object, the jobs and the status what users see of them.

`ReactiveJobAnnotations` is the reconciler when the two annotations it puts on a job do
not read as it wrote them. Whoever may edit jobs can remove or overwrite the
generation (`damaged`). `mustAtoi` then panics in the middle of the sort, provided there
is another job to compare with; the deferred function runs with `err == nil`, so it
writes the status as it was read, with the generation acknowledged; controller-runtime
recovers the panic and retries. `moved[w]` are the jobs written since `w` listed them,
whose update is refused. `Upgrade` replaces every process by one that hashes
differently: `jobs[j].tmpl` is the hash as the running version would read it, so it
becomes that of no template. The list comes in the order of names and its order
survives among equal generations (`NameOrder`); since names are random, each order
of two jobs is met. The invariant of its proofs is in the same module, under "Why".

`ReactiveJobMemory` has what the other modules leave out: which objects share memory.
`heap` maps addresses to maps and slices, and an object is a version, a finalizer
and two pointers: to the labels of its job template, which stand for every map of
the template, and to its conditions. The reconciler makes a job out of the copy's own
maps (`WithJobLabels`), writes the operator's labels into them, and then sends the
copy to the status subresource. Whether the answer to the create is decoded into
the maps that are there is left open. A client takes a pointer from the lister, copies
it with the generated `DeepCopy`, writes to the copy and updates with the typed client,
which returns a new object. There is one ReactiveJob that nobody deletes, and time
stamps are left out.

`ReactiveJobDocumented` states two sentences of the documentation that the
code does not keep; a third is `UpgradeRerunsOnce` in `ReactiveJobAnnotations`.
`ReactiveJobInvariants` has the inductive invariant of the reconciler for any number of
workers, `ReactiveJobSingle` that of a single one; the modules named `..._proofs` hold
the proofs, those named `MC...` the symmetry sets for TLC, and `LiveSpec`, the
reconciler under fairness with names that are generated in a fixed order. The operators
commented as mutants, such as `SupersededAndCurrent`, are faulty versions of the operator below them; no action
uses them. They are put in its place to see that a property notices.

## Runs

Templates are `{t1, t2}`, in `manager_live` and `documented_upgrade` one of them; bounds are (objects,
generations, disturbances).

| Run | Instance | Shows |
| --- | --- | --- |
| `controller_generations` | 1 worker, 3 jobs that do not finish, (1, 3, 2) | `ImplementsPromise`, `NoRedundantRun`, `AcknowledgedIsLaunched`, `NewestIsKept`, `CurrentNeverRegresses`, `SingleInv` |
| `controller_successors` | 1 worker, 2 jobs, (2, 1, 2), both templates breakable, both results and propagations, foreign finalizers | `TypeOK`, `AtMostOneRun`, `NoOrphan`, `SingleInv` and `ImplementsPromise` across two objects of one name |
| `controller_two` | 2 workers, 2 jobs, (1, 2, 0) | `ReadyIsTruthful` and the invariant `ReadyInv` of its proof |
| `controller_live` | 1 worker, 3 jobs that do not finish, (1, 3, 1), foreign finalizers, one breakable template | `StatusSettles`, `DeletionCompletes`, `SupersededIsReleased`, the last through release loops that stop half-way and a template that is refused |
| `annotations` | 1 worker, 3 jobs, (1, 2, 0), one misreading | `NewestGenerationIsKept`, the invariant `AnnotatedInv` from which that and `NoOrphan` are proved, `ReconcilesUntilMisread`, `SettlesOnceReadable`, `DeletesOnceReadable` |
| `memory` | the reconciler, one client, one label, 3 versions | `TemplateIsTheUsers`, `HashIsOfTheSpec`, `CacheIsFaithful`, `OnlyUsersTakeAway`, `MemoryTypeOK` and the invariant `MemoryInv` of their proofs |
| `manager` | 2 processes, 2 jobs, (1, 2, 1) | `OnlyOneActive`, `ManagerInv`, `ImplementsSingleWorker`, `ManagerTypeOK` |
| `manager_live` | 2 processes, 1 job, (1, 2, 1) | `StatusSettles`, although processes may be stopped or die any number of times |
| `factory` | 2 callers, 2 types, 2 informers, 2 contexts | `HandlesAreShared`, `RunOnce`, `QuietAfterShutdown`, `SyncErrorHasCause`, `NoStartWhileWaiting`, `CallsReturn`, `FactoryInv`, `TypeOK` |
| `documented_error` | 1 worker, 2 jobs, (1, 2, 0) | counterexample to `ErrorMeansJobFailed` |
| `documented_ttl` | 1 worker, 3 jobs, (1, 3, 1), one breakable template, nothing deleted but by a TTL | counterexample to `OldJobsExpire` |
| `documented_upgrade` | 1 worker, 3 jobs, (1, 1, 0), one misreading | counterexample to `UpgradeRerunsOnce` |

Why the bounds are enough: three generations over two templates contain the
change to another template, the change that leaves the hash as it is and the
return to an earlier template, with a superseded job that is still held. Two
disturbances contain a lost answer followed by a failed retry, or a crash in the
middle of a retry. Two objects of one name contain every mix-up of an old copy
with a new object. `MaxGen` bounds what users bring the generation to; the mark
for deletion advances it once more. Jobs never run out: a worker creates at most
one per generation, which is `AtMostOneRun`, and in `controller_two` the create
that finds no name left only waits. In `manager` the second process is the one that
takes over, in whatever state the first left the lease and the objects; a third
would be another one waiting. In the factory, two callers and a context besides
the one that is never cancelled contain every pair of calls that can meet and a
second `Start` with another context; there is an informer for each type, and at
most one per type is ever made. One misreading is a damaged annotation or an upgrade; an
annotation that was damaged can be restored at any point, and the rerun after an
upgrade is the third job of two generations. Reruns can use up the names
of the instance (`Exhausted`), which `SettlesOnceReadable` and `DeletesOnceReadable`
except: there the reconciler waits for a name that will never be free. So these two show
the recovery from a panic, and say nothing of reruns that never end: that is what the
counterexample to `UpgradeRerunsOnce` shows. The release of older jobs is checked with
three: while the third is the newest, the loop has two to release and can stop between
them, by a failed or lost call, a crash or a conflict with whoever deletes one of them;
the third generation can also return to a template that the cluster refuses by
then. Jobs do not finish in `controller_live` (one that
does raises an event and refuses an update under way, as one that others delete does);
that the status comes to tell the outcome is checked in `manager_live`. Three versions
of an object contain a user's write between any two of: the copy of a client, its
update, the reconciler's read, finalizer and status update; a fourth would be what is
written after the conflict. In `controller_generations` jobs do not finish: a result
matters to none of its properties but `ImplementsPromise`, and that is also checked in
`controller_successors`, where jobs complete, fail and are collected. `ReadyIsTruthful`
is checked in `controller_two`, where they complete across two generations.

Deadlock is not checked (`CHECK_DEADLOCK FALSE`): when the last ReactiveJob of
the bound is gone nothing is left to do. Symmetry of names and templates is used
in the safety runs only. In the liveness runs of the reconciler (`LiveSpec`) the names are
taken in one order instead (`NamesInTurn`): names are only compared, so every behaviour
is one of these with the names permuted, and the properties speak of all names alike.

**Fairness.** `FairSpec` assumes that a worker whose request is due, or whose
`Reconcile` is under way, goes on (`WF` of each `Reconcile(w)`): the workqueue
hands every request out again, back-off is finite, and every path of `Reconcile`
that writes a status asks for a requeue. It also assumes that the garbage
collector finishes foreground deletions. Nothing is assumed of users, of jobs
finishing, of the TTL controller or of the owners of other finalizers, nor that a
refused template is ever accepted again. `AnnotatedFairness` is the same for the
reconciler of `ReactiveJobAnnotations`, a panic included; nobody has to restore an
annotation, so its liveness properties assume `<>[]Readable`.

`FairManagerSpec` assumes that a process that ended is started again (its
deployment does that), that candidates retry a lease that is free or has expired,
that a manager told to stop goes through with it, and, as strong fairness, that
processes are not stopped so often that none ever comes to lead or to go on with
its `Reconcile`: `Dies` and `Terminated` can recur for ever. `FairSpec` of the factory
assumes that goroutines are scheduled, that constructors return and that an
informer whose context is cancelled stops.

**More than one process.** `ReadyIsTruthful` holds for any number of processes.
The properties named for a single worker do not: two processes that list at the
same time both create a job for a generation, and a create that arrives after
its ReactiveJob is gone leaves a job nobody deletes. `main.go` offers leader
election for this and leaves it off by default; with it they hold, which is
`ImplementsSingleWorker` and the theorems `LeadersRunJobsOnce`, `LeadersOnlyAdvance`
and `LeadersKeepPromise`. With three generations a
delayed create for a generation that was reverted can also become the newest job
after the status was reported.

**Annotations that cannot be read.** A panic does no harm that lasts, but the status
is not truthful while it recurs: the deferred update acknowledges a generation nobody
has looked at with the state of the last one, so `ReadyIsTruthful` and
`AcknowledgedIsLaunched` are not claimed here. `NewestGenerationIsKept` is, at any time.

**What keeps a superseded job.** `Reconcile` comes to the release of older jobs only
after it found or created the job of the template in the spec. If the user changes the
template twice before the first job was released, and the cluster refuses the last
one, every reconciliation ends with the create, and the first job keeps the
finalizer as long as the refusal lasts. `SupersededIsReleased` excepts this
(`LaunchRefused`: the template is refused and is not that of the newest job) and
deletions that a foreign finalizer blocks; `OldJobsExpire`, which does not except it, has a
counterexample.

**Documentation.** The three counterexamples are under `findings`: a refused or failed
API call shows as state `Error` whatever the job does; after an upgrade that changes
the hash, an unchanged template can be run again and again, because the rerun
carries the generation of the first run, and the first run may stay at the head of
the list; an old job whose TTL has expired stays while the template in the spec is
refused. Of less weight and not among them: the reconciliation that creates a job returns
without `currentJobName` (lines 147-148), so "the name of the last job that was
created" (`reactivejob_types.go:34`) is one reconciliation late.

## Proofs

`ReactiveJobController_proofs` proves for every set of workers, templates and job
names and for every bound:

* `TypeCorrectness`: `Spec => []TypeOK`;
* `ReadyInvariance`: `Spec => []ReadyInv`;
* `ReadinessIsTruthful`: `Spec => []ReadyIsTruthful`.

For a single worker (`OneWorker`), and again for every set of templates and job names
and for any number of objects, generations and failures, `ReactiveJobSingle_proofs`
proves:

* `SingleInvariance`: `Spec => []SingleInv`;
* `OneRunPerGeneration`: `Spec => []AtMostOneRun`;
* `RunsOnlyChanges`: `Spec => []NoRedundantRun`;
* `NewestRunIsKept`: `Spec => []NewestIsKept`;
* `JobsHaveOwners`: `Spec => []NoOrphan`;
* `AcknowledgedHasRun`: `Spec => []AcknowledgedIsLaunched`;
* `CurrentOnlyAdvances`: `Spec => CurrentNeverRegresses`.

`ReactiveJobPromise_proofs` proves for a single worker, with the same generality,

* `PromiseIsKept`: `Spec => ImplementsPromise`, the refinement of the abstract
  specification.

With leader election, `ReactiveJobManager_proofs` proves for any number of processes:

* `ManagerInvariance`: `ManagerSpec => [](ManagerInv /\ ReadyInv)`;
* `OneActiveManager`: `ManagerSpec => []OnlyOneActive`;
* `ManagerReadiness`: `ManagerSpec => []ReadyIsTruthful`;
* `ManagerTypeCorrectness`: `ManagerSpec => []ManagerTypeOK`.

and `ReactiveJobElection_proofs`, with the same generality,

* `LeadersImplementSingleWorker`: `ManagerSpec => ImplementsSingleWorker`;
* `LeadersRunJobsOnce`: `ManagerSpec => []` of `AtMostOneRun`, `NoRedundantRun`,
  `NewestIsKept`, `NoOrphan` and `AcknowledgedIsLaunched`;
* `LeadersOnlyAdvance`: `ManagerSpec => CurrentNeverRegresses`;
* `LeadersKeepPromise`: `ManagerSpec => ImplementsPromise`.

The last three compose the refinement with the theorems on a single worker:
`ReactiveJobElection_proofs` instantiates `ReactiveJobPromise_proofs` with the one
reconciler the world sees (`Alone`), shows that this instance starts and steps as the
one `ImplementsSingleWorker` names and that its assumptions hold, and cites its
theorems. Their properties speak of the ReactiveJob and the jobs only, which the
mapping leaves as they are.

`SharedInformerFactory_proofs` proves for all types, informers, contexts and callers:

* `FactoryInvariance`: `Spec => []FactoryInv`;
* `TypeCorrect`: `Spec => []TypeOK`;
* `OneInformerPerType`: `Spec => [](HandlesAreShared /\ RunOnce)`;
* `ShutdownIsQuiet`: `Spec => []QuietAfterShutdown`;
* `SyncErrorIsExplained`: `Spec => []SyncErrorHasCause`;
* `WaitGroupIsUsedCorrectly`: `Spec => NoStartWhileWaiting`.

`ReactiveJobMemory_proofs` proves for all clients, labels and numbers of versions:

* `MemoryInvariance`: `MemorySpec => []MemoryInv`;
* `MemoryTypeCorrectness`: `MemorySpec => []MemoryTypeOK`;
* `TemplateSafety`: `MemorySpec => []TemplateIsTheUsers`;
* `HashSafety`: `MemorySpec => []HashIsOfTheSpec`;
* `CacheSafety`: `MemorySpec => []CacheIsFaithful`;
* `OnlyUsersTakeAwayHolds`: `MemorySpec => OnlyUsersTakeAway`.

`ReactiveJobAnnotations_proofs` proves for a single worker and, again, for all templates,
names and bounds, the number of damaged annotations and upgrades among them:

* `AnnotatedInvariance`: `AnnotatedSpec => []AnnotatedInv`;
* `NewestGenerationStays`: `AnnotatedSpec => []NewestGenerationIsKept`;
* `AnnotatedJobsHaveOwners`: `AnnotatedSpec => []NoOrphan`;
* `ReconcilesUntilThen`: `AnnotatedSpec => ReconcilesUntilMisread`;
* `NoMisreadingsNoDifference`: `AnnotatedSpec => Spec` if `MaxMisreadings = 0`, that is,
  the module adds nothing to `ReactiveJobController` but the misreadings. Both rest on
  `AnnotatedInv`, which bounds the generations of a list by that of the copy, so that the
  sort has a first job, and on the fact that an update can only be refused for an
  annotation that was written.

The assumptions are those the modules state: the empty string is no job's name,
results and propagation policies are the known ones, only templates can become
unacceptable, the bounds are natural numbers, a missing informer is no informer,
one context is never cancelled, no client is the cache or the reconciler, and (for
`ReactiveJobAnnotations` alone) there are finitely many names, which are strings of
bounded length: a list has a head, and a rank for every name, only then.

For the reconciler, `TypeOK` alone is not inductive (a released loop reports the head of the
list, which must be a job), and neither is `ReadyIsTruthful`. `ReadyInv` adds what
a worker may rely on between two calls (`RunOK`): every listed job has only
matured since (`Mature`: its owner, generation and template stay, and a result is
final); while older jobs are released the head of the list has the template of
the copy; a `Ready` about to be written names a completed job of the template in
the copy. `CopyIsCurrent` says that a worker that holds the current version has a
copy equal to the object up to its status, so the version check of the status
update carries the fact over to the object. `StatusOK` bounds the acknowledged
generation by the generation, so a later change always makes the status
out of date.

The proof goes: each helper of `Reconcile` continues soundly from a sound run
(`ReportOK` to `DispatchOK`); a step preserves the invariant if the jobs only
mature (`InvariantStep`, with one lemma each for calls without effect on the
object, for writes of others and for the holder of a version); one lemma per
action; then `ReadyInvInit`, `ReadyInvNext` and the temporal theorems.

For a single worker none of the properties is inductive, and they lean on one
another: a second job is made for a generation, or an older template run again, only
if the list lacks the newest job; it is on the list only if it is kept; it is kept
because the head of the list is spared, and that is the newest job only if the list
was complete. `SingleInv` states them together. `HistoryOK`: the jobs of an object
have different generations, and the templates change from one to the next.
`OwnerOK`: no job is ahead of its object, a live job has one with the finalizer, and
every job of an object that is not being deleted is held or superseded by one that
is (`Kept`). `ReportedOK`: the status in the API server names a job of the object,
and an acknowledged launch has happened. `WorkerOK` says what the local variables
of `Reconcile` still mean after others wrote: an old copy is of an earlier
generation or of an earlier object; until it is marked for deletion its newest job
is held, and before it has the finalizer it has no jobs (`BeforeDeletionOK`); an
object seen with the finalizer still has it, because only the worker takes it
away; the job about to be created is newer than all the others and has another
template than the newest (`CreateOK`); while older jobs are released the head of the
list is the newest job (`ReleaseOK`); and when the finalizer is about to be cleared no
job is live. All of this needs that nobody else makes jobs or takes finalizers away.

That proof goes: each helper of `Reconcile` keeps `WorkerOK` (`ReportSingle` to
`DispatchSingle`); the facts stay when no job is made (`NoneMade`, `KeepsHeld`) and
when the object goes on to a later version (`Succeeds`, `KeepsFinalizer`); the one
step that makes a job is `JobMade`; one lemma per action; `SingleInvNext`, and each
property from `SingleInv`.

`PromiseIsKept` has one lemma per action of the reconciler and of everybody else: given
`SingleInv`, a create is a `Launch`, a write of the status a `Report`, an update of
a job that was marked for deletion a `Retire` or nothing users see, the end of the object a
`Disappear`, and every call that is refused or that only reads a stutter.

For the managers, `OnlyOneActive` needs `LeaseOK`: whoever renews the lease is named
in it, and only a manager that leads, or waits for its controller to stop, is in the
middle of a `Reconcile`. Every step of a manager is a step of `ReactiveJobController`,
an election, or invisible to it (`ManagerStep`), so `ReadyInv` carries over.

`LeadersImplementSingleWorker` also needs `RestOK`: a `Reconcile` that has ended
leaves no local variables and a process that does not lead holds no version, so an
election finds what the single worker has at rest. Its proof shows first that what
`Reconcile` computes does not depend on the worker (`SameRelease` to `SameCluster`),
then, one lemma per API call, that a call of the active process is that call of the
one worker (`ReconcileShown`); the end of the active process is its crash
(`EndShown`), what others write is seen by both (`OthersShown`), and an election, a
start or a release changes nothing the one worker has (`ElectionShown`,
`ManagerShown`).

For the factory, `FactoryInv` adds that the lock is held only for a type without an
informer, that types have different informers, that only started informers have
goroutines, that a `Shutdown` that waits has set the flag, and what a
`WaitForCacheSync` knows after its wait.

For the memory, what has to be known of an object is who made the memory it points to
(`ObjectOK`): an address is named after whoever allocated it, so a write to a map of
one's own leaves everybody else's alone (`Apart`). The cache then holds what the server had
(`CachedOK`), a client's copy that version and more of the user's labels (`MineOK`), and
the reconciler's copy is as it was read until a job shares its maps (`CopyOK`). The
last of these is all `HashIsOfTheSpec` has to go by: the hash is computed before the
operator's labels get into the map. The proof has what a new object, a copy, and
a write in place do to the heap, one lemma per action, and `MemoryInvNext`; `CacheIsFaithful`
and `OnlyUsersTakeAway` are read off the invariant.

When annotations cannot be relied on, `SingleInv` fails: an upgrade makes a second job of
a generation, of which one is released, and makes the hash of every job that of no
template; a panic reports the state of an earlier generation. What is left is `HeadInv`: one job is held, of
the newest generation, and before every other live job of that generation in the order
of names (`IsHead`). "Held, of the newest generation" alone is not inductive: with two
such jobs the worker keeps the one its list starts with, so the invariant has to say that
this is the one. `HeadOwnerOK` and `ListWorkerOK` are `OwnerOK` and `WorkerOK` without what they
say of hashes and of the status; an upgrade starts with workers that have listed nothing.
The proof shows that the sort has a minimum (`HeadExists`), that a sort that does not
panic starts with it although an annotation may be damaged (`SortedFirstFacts`: then it
is the only job), and that it is the job that is held (`SortedFirstIsHead`); a panic drops
the list and releases nothing (`PanicListed`); a new job is the head unless another one of
its generation comes first (`NewJobHead`). The rest is one lemma per action, as before.

Model-checked only: all liveness, which is beyond the prover, and with it what becomes of
the status once annotations can be read again.

## Not modelled, and why

* Probes, metrics, and the parsing of flags and addresses in `main.go`; a set-up that
  fails is a process that stays down.
* `Create`, `Delete`, `Patch` and the construction of the clientset: wrappers of one call
  of client-go each, without state or memory that is shared. The fake clientset and the
  schemes: a test double and tables.
* A cache in the operator: `main.go` disables it for both kinds.
* Tampering with the operator's labels, hashes or finalizers, and finalizers in the
  job template. Annotations of generations that are numbers but not the right ones.
* Two versions of the operator at work at the same time.
* Time: periods of requeues, back-off, and time stamps of conditions.

## Plan

1. Types, webhook, cluster and controller with its safety and liveness; truth of
   `Ready` proved (done).
2. `SharedInformerFactory` and `ReactiveJobManager`, with their invariants proved
   (done).
3. The single-worker invariant `SingleInv`, and the six properties of a single worker
   proved from it (done).
4. `ReactiveJobPromise`, the abstract specification of what a user sees, and the
   controller shown to implement it with TLC and with TLAPS (done).
5. `ReactiveJobAnnotations` and `ReactiveJobMemory`: annotations that cannot be read,
   upgrades, and shared memory (done).
6. `ImplementsSingleWorker` proved: initial states and, step by step, that what a
   manager does is a step of the single worker or none (done).
7. `MemoryInv`, and the properties of `ReactiveJobMemory` proved from it (done).
8. `AnnotatedInv`, and the safety of `ReactiveJobAnnotations` proved from it; until
   something is misread it is `ReactiveJobController`, proved as well (done).
9. The theorems on a single worker carried over to leader election (done).
