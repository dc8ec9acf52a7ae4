----------------------- MODULE ReactiveJobAnnotations -----------------------
(***************************************************************************)
(* The reconciler of ReactiveJobController when the two annotations it     *)
(* puts on a job do not read as it wrote them.                             *)
(*                                                                         *)
(* The generation annotation can be removed or overwritten by whoever may  *)
(* edit jobs: mustAtoi then panics in the middle of the sort, the deferred *)
(* status update runs nevertheless, and controller-runtime recovers the    *)
(* panic and hands the request out again, with a back-off.                 *)
(*                                                                         *)
(* The hash annotation is that of the JSON of a Go struct, which a version *)
(* of the operator with other API packages may hash differently. jobs[j].  *)
(* tmpl is the hash as the version that runs now would read it, so an      *)
(* upgrade turns every hash into one that is that of no template. The old  *)
(* version is gone before the new one starts.                              *)
(***************************************************************************)
EXTENDS ReactiveJobSingle, FiniteSets

CONSTANT MaxMisreadings   \* bound: damaged annotations and changes of the hash

ASSUME MisreadingsAssumption == MaxMisreadings \in Nat

\* Names are of bounded length.
ASSUME FiniteNamesAssumption == IsFiniteSet(JobNames)

VARIABLES
  damaged,   \* the jobs whose generation annotation is not a number
  moved,     \* moved[w]: the jobs whose annotation changed since w listed them
  misreadings   \* how many of them there were

annotationVars == <<damaged, moved, misreadings>>
annotatedVars == <<vars, annotationVars>>

AnnotatedInit ==
  /\ Init
  /\ damaged = {}
  /\ moved = [w \in Workers |-> {}]
  /\ misreadings = 0

-----------------------------------------------------------------------------
(* The list and its sort *)

\* The API server lists jobs by name, and the sort leaves equal generations in the
\* order in which they were listed.
NameOrder == CHOOSE rank \in [JobNames -> 1..Cardinality(JobNames)] :
               \A j, k \in JobNames : rank[j] = rank[k] => j = k

\* What the comparison of the sort reads of j, were it not for the panic.
GenerationRead(j) == IF j \in damaged THEN 0 ELSE jobs[j].gen

\* Mutant: the oldest job first.
OldestBefore(j, k) ==
  \/ GenerationRead(j) < GenerationRead(k)
  \/ GenerationRead(j) = GenerationRead(k) /\ NameOrder[j] < NameOrder[k]

Before(j, k) == \/ GenerationRead(j) > GenerationRead(k)
                \/ GenerationRead(j) = GenerationRead(k) /\ NameOrder[j] < NameOrder[k]

\* jobs[0], if there is one.
SortedFirst(deps) ==
  IF deps = {} THEN None ELSE CHOOSE j \in deps : \A k \in deps \ {j} : Before(j, k)

\* Mutant: an annotation that cannot be read is sorted as 0.
NeverPanics(deps) == FALSE

\* A list of one job is sorted without a look at its annotation; of more jobs
\* each is compared at least once.
SortPanics(deps) == Cardinality(deps) > 1 /\ deps \cap damaged # {}

\* Reconcile panics without an error to record: the copy goes into the status
\* update as it is, with its generation acknowledged.
Panic(r) == [WithoutList(r) EXCEPT !.pc = "status"]

ListAndSort(w) ==
  /\ run[w].pc = "list"
  /\ LET deps == Dependents(run[w].obj.uid)
         seen == [j \in JobNames |-> IF j \in deps THEN jobs[j] ELSE NoJob]
     IN  \/ SortPanics(deps) /\ Continue(w, Panic(run[w]))
         \/ /\ ~SortPanics(deps)
            /\ Continue(w, Dispatch([run[w] EXCEPT !.list = seen,
                                                   !.first = SortedFirst(deps)]))
         \/ Disturbed(w)
  /\ moved' = [moved EXCEPT ![w] = {}]
  /\ NoEffect

-----------------------------------------------------------------------------
(* The other calls of Reconcile *)

\* The updates of a job that are left to do.
Updates(w) ==
  IF run[w].pc \in {"release", "purge"}
  THEN {j \in Newest(run[w].todo, run[w].list) : run[w].list[j].fin} ELSE {}

\* The annotation was written since the job was listed: the update is refused.
Outdated(w) ==
  /\ Updates(w) \cap moved[w] # {}
  /\ Continue(w, Fail(run[w]))
  /\ NoEffect
  /\ UNCHANGED moved

\* Any other call; an update that is applied is of a job that did not move.
OtherCall(w) ==
  /\ run[w].pc # "list"
  /\ Reconcile(w)
  /\ \A j \in Updates(w) \cap moved[w] : jobs'[j].fin
  /\ UNCHANGED moved

AnnotatedReconcile(w) ==
  /\ ListAndSort(w) \/ Outdated(w) \/ OtherCall(w)
  /\ UNCHANGED <<creatable, damaged, misreadings>>

-----------------------------------------------------------------------------
(* Annotations that change, and an operator that reads them differently *)

Misread ==
  /\ misreadings < MaxMisreadings
  /\ misreadings' = misreadings + 1

\* A write of the annotation is a new version of the job, and an event of it.
AnnotationWritten(j) ==
  /\ Live(j)
  /\ moved' = [w \in Workers |-> moved[w] \cup {j}]
  /\ due' = Everyone
  /\ UNCHANGED <<objectVars, jobs, creatable, run, disturbances>>

GenerationDamaged(j) ==
  /\ j \notin damaged
  /\ damaged' = damaged \cup {j}
  /\ AnnotationWritten(j)
  /\ Misread

GenerationRestored(j) ==
  /\ j \in damaged
  /\ damaged' = damaged \ {j}
  /\ AnnotationWritten(j)
  /\ UNCHANGED misreadings

\* Every process ends, and those of the new version list everything.
Upgrade ==
  /\ Misread
  /\ jobs' = [j \in JobNames |-> [jobs[j] EXCEPT !.tmpl = None]]
  /\ run' = [w \in Workers |-> NoRun]
  /\ rjHeld' = {}
  /\ due' = Everyone
  /\ UNCHANGED <<rj, disturbances, creatable, damaged, moved>>

AnnotatedNext ==
  \/ \E w \in Workers : AnnotatedReconcile(w)
  \/ (\E w \in Workers : Crash(w)) /\ UNCHANGED annotationVars
  \/ Environment /\ UNCHANGED <<run, annotationVars>>
  \/ \E j \in JobNames : GenerationDamaged(j) \/ GenerationRestored(j)
  \/ Upgrade

AnnotatedSpec == AnnotatedInit /\ [][AnnotatedNext]_annotatedVars

\* As for the reconciler alone; nobody has to restore an annotation.
AnnotatedFairness ==
  /\ \A w \in Workers : WF_annotatedVars(AnnotatedReconcile(w))
  /\ \A j \in JobNames : WF_annotatedVars(
       JobCollected(j) /\ UNCHANGED <<run, creatable, annotationVars>>)

FairAnnotatedSpec == AnnotatedSpec /\ AnnotatedFairness

-----------------------------------------------------------------------------
(* Properties *)

\* The job that counts is never given up because annotations cannot be read or
\* do not match: as long as nobody deletes the ReactiveJob, a job of the newest
\* generation is there and holds the finalizer. The panic keeps this, where
\* sorting an unreadable generation as 0 would release the newest job.
NewestGenerationIsKept ==
  rj.there /\ ~rj.deleting /\ Runs # {} =>
    \E j \in Newest(Runs, jobs) : Live(j) /\ jobs[j].fin

\* As long as nothing was misread, every step is one of ReactiveJobController: the
\* sort, whose first job that module leaves open among equals, finds one of the newest
\* generation, and no update is refused but for what others wrote.
ReconcilesUntilMisread ==
  [][misreadings' = 0 => Next \/ UNCHANGED vars]_annotatedVars

Readable == \A j \in JobNames : Live(j) => j \notin damaged

\* Upgrades and retries have used up the names of the instance.
Exhausted == \A j \in JobNames : Used(j)

\* A panic leaves nothing behind that the next reconciliation does not correct:
\* once every annotation is readable for good, and everybody quiet, the status
\* comes to reflect the newest job.
SettlesOnceReadable ==
  <>[]Readable =>
    <>[](~rj.there \/ rj.deleting \/ Reflects \/ Refused \/ Exhausted)

\* No deletion is stuck for good, either, once every annotation is readable; until
\* then it is stuck if there are several jobs.
DeletesOnceReadable ==
  <>[]Readable => []<>~(rj.deleting /\ ~rj.foreign /\ ~Exhausted)

\* "Whenever the content under spec.jobTemplate changes, the controller ... will
\* create a new Job" (README): one content is run once, and once more by a
\* version of the operator that hashes it differently. The rerun has the
\* generation of the first run, so the first run may still be sorted before it,
\* and then the template is run again.
UpgradeRerunsOnce ==
  \A j, k, l \in JobNames :
    /\ Used(j) /\ Used(k) /\ Used(l)
    /\ jobs[j].uid = jobs[k].uid /\ jobs[k].uid = jobs[l].uid
    /\ jobs[j].gen = jobs[k].gen /\ jobs[k].gen = jobs[l].gen
    => j = k \/ k = l \/ j = l
-----------------------------------------------------------------------------
(* Why *)

\* k is held, of the newest generation, and before any other job that is there in
\* the sorted list, once that can be sorted. Of two jobs of the newest generation
\* the later one in the list is released, so the order by name decides which is kept.
IsHead(k, uid, table) ==
  /\ k \in Made(uid, table) /\ Held(k, table)
  /\ \A j \in Made(uid, table) :
       /\ table[j].gen <= table[k].gen
       /\ table[j].gen = table[k].gen /\ table[j].phase = "live" =>
            NameOrder[k] <= NameOrder[j]

HeadKept(uid, table) ==
  Made(uid, table) # {} => \E k \in JobNames : IsHead(k, uid, table)

\* NotAhead, of generations only: hashes change with an upgrade.
NoneAhead(obj, table) == \A j \in Made(obj.uid, table) : table[j].gen <= obj.gen

\* OwnerOK with the head of the list as the job that is kept.
HeadOwnerOK(obj, table) ==
  /\ \A j \in JobNames :
       /\ table[j].phase # "unused" => table[j].uid <= obj.uid
       /\ table[j].phase = "live" =>
            obj.there /\ obj.fin /\ table[j].uid = obj.uid
  /\ obj.there => NoneAhead(obj, table)
  /\ obj.there /\ ~obj.deleting => HeadKept(obj.uid, table)
  /\ obj.there /\ ~obj.deleting /\ ~obj.fin => Made(obj.uid, table) = {}

\* The copy is of an earlier generation of the object, or of an earlier object.
EarlierOK(copy, obj, table) ==
  /\ copy.there
  /\ copy.uid <= obj.uid
  /\ copy.uid = obj.uid /\ obj.there =>
       copy.gen <= obj.gen /\ (copy.deleting => obj.deleting)
  /\ NoneAhead(copy, table)

HeadBeforeDeletion(copy, table) ==
  ~copy.deleting => /\ HeadKept(copy.uid, table)
                    /\ ~copy.fin => Made(copy.uid, table) = {}

\* What the worker may rely on, whatever the hashes: it never releases the head of
\* the list, and clears the finalizer only if no job is left.
ListWorkerOK(r, obj, table) ==
  r.pc # "idle" =>
    /\ ListOK(r, table)
    /\ EarlierOK(r.obj, obj, table)
    /\ r.pc \in {"list", "setFinalizer", "create", "release"} =>
         HeadBeforeDeletion(r.obj, table)
    /\ r.pc \notin {"setFinalizer", "status"} /\ r.obj.fin =>
         HasFinalizer(r.obj, obj)
    /\ r.pc = "setFinalizer" => ~r.obj.deleting /\ ~r.obj.fin
    /\ r.pc = "create" => ~r.obj.deleting /\ r.obj.fin
    /\ r.pc = "release" => /\ r.obj.fin
                           /\ IsHead(r.first, r.obj.uid, table)
                           /\ r.todo \subseteq Listed(r) \ {r.first}
    /\ r.pc = "purge" => r.obj.deleting /\ r.todo \subseteq Listed(r)
    /\ r.pc = "clearFinalizer" =>
         /\ r.obj.deleting /\ r.obj.fin
         /\ \A j \in JobNames : table[j].phase # "live"

AnnotationTypeOK ==
  /\ damaged \in SUBSET JobNames
  /\ moved \in [Workers -> SUBSET JobNames]
  /\ misreadings \in 0..MaxMisreadings

\* The inductive invariant of a single worker behind NewestGenerationIsKept and
\* NoOrphan. SingleInv does not hold here: there can be several jobs of one
\* generation, and a panic reports the state of an earlier generation.
HeadInv ==
  /\ ControllerTypeOK
  /\ CopyIsCurrent
  /\ HeadOwnerOK(rj, jobs)
  /\ \A w \in Workers : ListWorkerOK(run[w], rj, jobs)

AnnotatedInv == AnnotationTypeOK /\ HeadInv
=============================================================================
