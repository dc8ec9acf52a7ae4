---------------------- MODULE ReactiveJobSingle_proofs ----------------------
(***************************************************************************)
(* Proofs about a single worker, for any templates, job names and bounds:  *)
(* what it has run, kept and reported, whatever fails and whoever writes.  *)
(***************************************************************************)
EXTENDS ReactiveJobSingle, ReactiveJobController_proofs

-----------------------------------------------------------------------------
(* What Reconcile computes keeps WorkerOK *)

\* A report has to be true only if it says that the template is launched.
LEMMA ReportSingle ==
  ASSUME NEW table \in Table, NEW obj \in ReactiveJob, NEW r \in ReconcileRun,
         NEW state \in ReactiveJobStates, CopyOK(r.obj, obj, table),
         state \in Launching /\ r.obj.status.obs = r.obj.gen =>
           Launched(r.obj, table)
  PROVE  /\ WorkerOK(Report(r, state), obj, table)
         /\ Report(r, state).pc = "status"
         /\ Report(r, state).obj.status.cur = r.obj.status.cur
         /\ Report(r, state).obj.uid = r.obj.uid
<1> DEFINE new == Report(r, state)
<1>1. /\ new.pc = "status"
      /\ new.obj = [r.obj EXCEPT !.status = SetState(r.obj.status, state)]
  BY ReportFacts
<1>2. r.obj \in ReactiveJob /\ r.obj.status \in ReactiveJobStatus
  BY DEF ReconcileRun, ReactiveJob
<1>3. /\ SameObject(new.obj, r.obj)
      /\ new.obj.status.obs = r.obj.status.obs
      /\ new.obj.status.cur = r.obj.status.cur
      /\ new.obj.status.state = state
  BY <1>1, <1>2, SetStateFacts DEF SameObject, ReactiveJob
<1>4. CopyOK(new.obj, obj, table)
  BY <1>3 DEF CopyOK, NotAhead, SameObject
<1>5. PendingOK(new, table)
  BY <1>3 DEF PendingOK, Launched, SameObject
<1> HIDE DEF new
<1> QED BY <1>1, <1>3, <1>4, <1>5 DEF WorkerOK, SameObject, new

LEMMA FailSingle ==
  ASSUME NEW table \in Table, NEW obj \in ReactiveJob, NEW r \in ReconcileRun,
         CopyOK(r.obj, obj, table)
  PROVE  /\ WorkerOK(Fail(r), obj, table)
         /\ Fail(r).pc = "status"
         /\ Fail(r).obj.status.cur = r.obj.status.cur
BY ReportSingle DEF Fail, ReactiveJobStates, Launching

\* r carries the list as it was just read.
FreshList(r, table) ==
  /\ \A j \in JobNames :
       j \in Listed(r) <=> j \in Made(r.obj.uid, table) /\ table[j].phase = "live"
  /\ \A j \in Listed(r) : r.list[j] = table[j]
  /\ r.first \in IF Listed(r) = {} THEN {None} ELSE Newest(Listed(r), r.list)

\* The head of the list names the newest job and the template of the copy.
LEMMA ReportJobSingle ==
  ASSUME NEW table \in Table, NEW obj \in ReactiveJob, NEW r \in ReconcileRun,
         CopyOK(r.obj, obj, table), RunOK(r, table), HeadOK(r), ReleaseOK(r, table)
  PROVE  WorkerOK(ReportJob(r), obj, table) /\ CurrentOK(ReportJob(r), obj, table)
<1> DEFINE named == [r EXCEPT !.obj.status.cur = r.first]
           job   == r.list[r.first]
<1>1. r.first \in JobNames /\ job \in Job /\ Outcome(job) \in ReactiveJobStates
  BY DEF HeadOK, Listed, ReconcileRun, Job, Outcome, ReactiveJobStates
<1>2. r.obj \in ReactiveJob /\ r.obj.status \in ReactiveJobStatus
  BY DEF ReconcileRun, ReactiveJob
<1>3. /\ named \in ReconcileRun
      /\ SameObject(named.obj, r.obj)
      /\ named.obj.status.obs = r.obj.status.obs
      /\ named.obj.status.cur = r.first
  BY <1>1, <1>2 DEF ReconcileRun, ReactiveJob, ReactiveJobStatus, SameObject
<1>4. CopyOK(named.obj, obj, table)
  BY <1>3 DEF CopyOK, NotAhead, SameObject
<1>5. Launched(named.obj, table)
  <2>1. table[r.first].tmpl = r.obj.tmpl
    BY DEF RunOK, ListOK, HeadOK, Mature
  <2> QED BY <1>3, <2>1 DEF Launched, ReleaseOK, SameObject
<1> DEFINE new == Report(named, Outcome(job))
<1>6. /\ WorkerOK(new, obj, table)
      /\ new.pc = "status"
      /\ new.obj.status.cur = r.first
      /\ new.obj.uid = r.obj.uid
  <2> HIDE DEF named, job
  <2> QED BY <1>1, <1>3, <1>4, <1>5, ReportSingle DEF SameObject
<1>7. new = ReportJob(r)
  BY DEF ReportJob
<1> HIDE DEF new
<1> QED BY <1>6, <1>7 DEF CurrentOK, ReleaseOK

LEMMA ReleaseNextSingle ==
  ASSUME NEW table \in Table, NEW obj \in ReactiveJob, NEW r \in ReconcileRun,
         CopyOK(r.obj, obj, table), RunOK(r, table), HeadOK(r), ReleaseOK(r, table),
         BeforeDeletionOK(r.obj, table), HasFinalizer(r.obj, obj)
  PROVE  /\ WorkerOK(ReleaseNext(r), obj, table)
         /\ \/ CurrentOK(ReleaseNext(r), obj, table)
            \/ ReleaseNext(r).obj = r.obj
<1>1. CASE r.todo = {}
  BY <1>1, ReportJobSingle DEF ReleaseNext
<1>2. CASE r.todo # {}
  <2> DEFINE new == [r EXCEPT !.pc = "release"]
  <2>1. /\ new.pc = "release" /\ new.obj = r.obj
        /\ new.first = r.first /\ new.todo = r.todo /\ new.list = r.list
    BY DEF ReconcileRun
  <2>2. ReleaseOK(new, table)
    BY <2>1 DEF ReleaseOK, Listed
  <2>3. WorkerOK(new, obj, table)
    BY <2>1, <2>2 DEF WorkerOK
  <2> QED BY <1>2, <2>1, <2>3 DEF ReleaseNext
<1> QED BY <1>1, <1>2

\* With a fresh list: a job is created only for a later generation with another
\* template than the newest job's, and else the newest job heads the list.
LEMMA CreateOrUpdateSingle ==
  ASSUME NEW table \in Table, NEW obj \in ReactiveJob, NEW r \in ReconcileRun,
         CopyOK(r.obj, obj, table), RunOK(r, table), HistoryOK(table),
         BeforeDeletionOK(r.obj, table), HasFinalizer(r.obj, obj),
         FreshList(r, table), ~r.obj.deleting, r.obj.fin
  PROVE  /\ WorkerOK(CreateOrUpdate(r), obj, table)
         /\ \/ CurrentOK(CreateOrUpdate(r), obj, table)
            \/ CreateOrUpdate(r).obj = r.obj
<1>0. /\ \A j \in JobNames : table[j].gen \in Nat /\ table[j] \in Job
      /\ r.obj.gen \in Nat
  BY DEF Table, Job, ReconcileRun, ReactiveJob
\* A job as new as all the others is the head of the list.
<1>1. ASSUME NEW j \in Made(r.obj.uid, table),
             \A k \in Made(r.obj.uid, table) : table[k].gen <= table[j].gen
      PROVE  /\ r.first \in Listed(r) /\ j = r.first /\ Held(j, table)
             /\ r.list[r.first] = table[j]
  <2>1. PICK k \in Made(r.obj.uid, table) :
          Held(k, table) /\ table[j].gen <= table[k].gen
    BY DEF BeforeDeletionOK, Kept
  <2>2. table[k].gen = table[j].gen /\ j \in JobNames /\ k \in JobNames
    BY <1>0, <1>1, <2>1 DEF Made
  <2>3. j = k
    BY <2>2 DEF HistoryOK, Made
  <2>4. j \in Listed(r)
    BY <2>1, <2>3 DEF FreshList, Made, Held
  <2>5. r.first \in Listed(r) /\ r.list[j].gen <= r.list[r.first].gen
    BY <2>4 DEF FreshList, Newest
  <2>6. /\ r.first \in Made(r.obj.uid, table)
        /\ r.list[r.first] = table[r.first] /\ r.list[j] = table[j]
        /\ r.first \in JobNames
    BY <2>4, <2>5 DEF FreshList, Listed
  <2>7. table[r.first].gen = table[j].gen
    BY <1>0, <1>1, <2>2, <2>5, <2>6
  <2>8. j = r.first
    BY <2>2, <2>6, <2>7 DEF HistoryOK, Made
  <2> QED BY <2>1, <2>3, <2>5, <2>6, <2>8
<1>2. CASE NeedsJob(r)
  <2> DEFINE new == [WithoutList(r) EXCEPT !.pc = "create"]
  <2>1. new.pc = "create" /\ new.obj = r.obj
    BY DEF WithoutList, ReconcileRun
  <2>2. ASSUME NEW j \in Made(r.obj.uid, table),
               \A k \in Made(r.obj.uid, table) : table[k].gen <= table[j].gen
        PROVE  table[j].tmpl # r.obj.tmpl
    <3>1. r.first \in JobNames /\ r.list[r.first] = table[j]
      BY <1>1, <2>2 DEF Listed
    <3> QED BY <1>2, <3>1, NamesAssumption DEF NeedsJob
  <2>3. ASSUME NEW j \in Made(r.obj.uid, table)
        PROVE  table[j].gen < r.obj.gen
    <3>1. /\ table[j].gen <= r.obj.gen
          /\ table[j].gen = r.obj.gen => table[j].tmpl = r.obj.tmpl
      BY DEF CopyOK, NotAhead
    <3>2. j \in JobNames
      BY DEF Made
    <3>3. table[j].gen # r.obj.gen
      <4> SUFFICES ASSUME table[j].gen = r.obj.gen PROVE FALSE
        OBVIOUS
      <4>1. \A k \in Made(r.obj.uid, table) : table[k].gen <= table[j].gen
        BY DEF CopyOK, NotAhead
      <4> QED BY <2>2, <3>1, <4>1
    <3> QED BY <1>0, <3>1, <3>2, <3>3
  <2>4. CreateOK(new, table)
    BY <2>1, <2>2, <2>3 DEF CreateOK
  <2>5. WorkerOK(new, obj, table)
    BY <2>1, <2>4 DEF WorkerOK
  <2>6. new = CreateOrUpdate(r)
    BY <1>2 DEF CreateOrUpdate
  <2> HIDE DEF new
  <2> QED BY <2>1, <2>5, <2>6
<1>3. CASE ~NeedsJob(r)
  <2> DEFINE new == [r EXCEPT !.todo = Superseded(r)]
  <2>1. /\ new \in ReconcileRun
        /\ new.obj = r.obj /\ new.list = r.list /\ new.first = r.first
        /\ new.pc = r.pc /\ new.todo = Superseded(r)
    BY DEF ReconcileRun, Superseded, Listed
  <2>2. r.first # None /\ r.list[r.first].tmpl = r.obj.tmpl
    BY <1>3 DEF NeedsJob
  <2>3. r.first \in Listed(r) /\ Listed(r) \subseteq JobNames
    BY <2>2 DEF RunOK, ListOK, Listed
  <2>4. \A j \in Made(r.obj.uid, table) : table[j].gen <= table[r.first].gen
    <3> SUFFICES ASSUME NEW j \in Made(r.obj.uid, table)
                 PROVE  table[j].gen <= table[r.first].gen
      OBVIOUS
    <3>1. PICK k \in Made(r.obj.uid, table) :
            Held(k, table) /\ table[j].gen <= table[k].gen
      BY DEF BeforeDeletionOK, Kept
    <3>2. k \in Listed(r) /\ j \in JobNames /\ k \in JobNames
      BY <3>1 DEF FreshList, Made, Held
    <3>3. table[k].gen <= table[r.first].gen
      BY <2>3, <3>2 DEF FreshList, Newest
    <3> QED BY <1>0, <2>3, <3>1, <3>2, <3>3
  <2>5. r.first \in Made(r.obj.uid, table)
    BY <2>3 DEF FreshList
  <2>6. Held(r.first, table)
    BY <1>1, <2>4, <2>5
  <2>7. RunOK(new, table) /\ HeadOK(new) /\ ReleaseOK(new, table)
    BY <2>1, <2>2, <2>3, <2>4, <2>5, <2>6
       DEF RunOK, ListOK, Listed, HeadOK, ReleaseOK, Superseded
  <2>8. CopyOK(new.obj, obj, table)
    BY <2>1
  <2> HIDE DEF new
  <2>9. /\ WorkerOK(ReleaseNext(new), obj, table)
        /\ CurrentOK(ReleaseNext(new), obj, table) \/ ReleaseNext(new).obj = r.obj
    BY <2>1, <2>7, <2>8, ReleaseNextSingle
  <2>10. ReleaseNext(new) = CreateOrUpdate(r)
    BY <1>3 DEF CreateOrUpdate, new
  <2> QED BY <2>9, <2>10
<1> QED BY <1>2, <1>3

\* What comes after old keeps the invariant.
ContinuesSingle(new, old, obj, table) ==
  /\ WorkerOK(new, obj, table)
  /\ \/ new.pc = "idle"
     \/ CurrentOK(new, obj, table)
     \/ new.obj.status.cur = old.obj.status.cur

LEMMA PurgeNextSingle ==
  ASSUME NEW table \in Table, NEW obj \in ReactiveJob, NEW r \in ReconcileRun,
         CopyOK(r.obj, obj, table), r.obj.deleting,
         r.obj.fin => HasFinalizer(r.obj, obj)
  PROVE  ContinuesSingle(PurgeNext(r), r, obj, table)
<1>1. CASE ToPurge(r) = {}
  <2>1. "Deleting" \in ReactiveJobStates /\ "Deleting" \notin Launching
    BY DEF ReactiveJobStates, Launching
  <2> QED BY <1>1, <2>1, ReportSingle DEF PurgeNext, ContinuesSingle
<1>2. CASE ToPurge(r) # {}
  <2> DEFINE new == [r EXCEPT !.pc = "purge", !.todo = ToPurge(r)]
  <2>1. /\ new.pc = "purge" /\ new.obj = r.obj
        /\ new.todo \subseteq Listed(new)
    BY DEF ReconcileRun, ToPurge, Listed
  <2>2. new = PurgeNext(r)
    BY <1>2 DEF PurgeNext
  <2> HIDE DEF new
  <2> QED BY <2>1, <2>2 DEF ContinuesSingle, WorkerOK
<1> QED BY <1>1, <1>2

\* The finalizer is cleared only if no job is left.
LEMMA DeleteSingle ==
  ASSUME NEW table \in Table, NEW obj \in ReactiveJob, NEW r \in ReconcileRun,
         CopyOK(r.obj, obj, table), OwnerOK(obj, table), FreshList(r, table),
         r.obj.deleting, r.obj.fin => HasFinalizer(r.obj, obj)
  PROVE  ContinuesSingle(Delete(r), r, obj, table)
<1>1. CASE Listed(r) # {}
  BY <1>1, PurgeNextSingle DEF Delete
<1>2. CASE Listed(r) = {} /\ r.obj.fin
  <2> DEFINE new == [r EXCEPT !.pc = "clearFinalizer"]
  <2>1. new.pc = "clearFinalizer" /\ new.obj = r.obj
    BY DEF ReconcileRun
  <2>2. \A j \in JobNames : table[j].phase # "live"
    BY <1>2 DEF OwnerOK, FreshList, HasFinalizer, Made
  <2>3. new = Delete(r)
    BY <1>2 DEF Delete
  <2> HIDE DEF new
  <2> QED BY <1>2, <2>1, <2>2, <2>3 DEF ContinuesSingle, WorkerOK
<1>3. CASE Listed(r) = {} /\ ~r.obj.fin
  BY <1>3 DEF Delete, ContinuesSingle, WorkerOK, NoRun
<1> QED BY <1>1, <1>2, <1>3

LEMMA DispatchSingle ==
  ASSUME NEW table \in Table, NEW obj \in ReactiveJob, NEW r \in ReconcileRun,
         r.pc = "list", WorkerOK(r, obj, table), RunOK(r, table),
         OwnerOK(obj, table), HistoryOK(table), FreshList(r, table)
  PROVE  ContinuesSingle(Dispatch(r), r, obj, table)
<1>1. /\ CopyOK(r.obj, obj, table)
      /\ BeforeDeletionOK(r.obj, table)
      /\ r.obj.fin => HasFinalizer(r.obj, obj)
  BY DEF WorkerOK
<1>2. CASE ~r.obj.deleting /\ r.obj.fin
  BY <1>1, <1>2, CreateOrUpdateSingle DEF Dispatch, ContinuesSingle
<1>3. CASE ~r.obj.deleting /\ ~r.obj.fin
  <2> DEFINE new == [r EXCEPT !.pc = "setFinalizer"]
  <2>1. new.pc = "setFinalizer" /\ new.obj = r.obj
    BY DEF ReconcileRun
  <2>2. new = Dispatch(r)
    BY <1>3 DEF Dispatch
  <2> HIDE DEF new
  <2> QED BY <1>1, <1>3, <2>1, <2>2 DEF ContinuesSingle, WorkerOK
<1>4. CASE r.obj.deleting /\ r.obj.foreign
  <2>1. /\ "DeletionBlocked" \in ReactiveJobStates
        /\ "DeletionBlocked" \notin Launching
    BY DEF ReactiveJobStates, Launching
  <2> QED BY <1>1, <1>4, <2>1, ReportSingle DEF Dispatch, ContinuesSingle
<1>5. CASE r.obj.deleting /\ ~r.obj.foreign
  BY <1>1, <1>5, DeleteSingle DEF Dispatch
<1> QED BY <1>2, <1>3, <1>4, <1>5
-----------------------------------------------------------------------------
(* What becomes of the facts when jobs or the object change *)

\* No job is made: what was recorded of the jobs there ever were stays.
NoneMade(table, later) ==
  \A j \in JobNames :
    /\ later[j].phase = "unused" <=> table[j].phase = "unused"
    /\ later[j].phase = "live" => table[j].phase = "live"
    /\ later[j].uid = table[j].uid
    /\ later[j].gen = table[j].gen
    /\ later[j].tmpl = table[j].tmpl

LEMMA HistoryStays ==
  ASSUME NEW table \in Table, NEW later \in Table, NoneMade(table, later),
         HistoryOK(table)
  PROVE  /\ HistoryOK(later)
         /\ \A uid : Made(uid, later) = Made(uid, table)
<1>1. \A uid : Made(uid, later) = Made(uid, table)
  BY DEF Made, NoneMade
<1>2. HistoryOK(later)
  BY <1>1 DEF HistoryOK, NoneMade, Made
<1> QED BY <1>1, <1>2

LEMMA CopyStays ==
  ASSUME NEW table \in Table, NEW later \in Table, NoneMade(table, later),
         NEW copy, NEW obj, CopyOK(copy, obj, table)
  PROVE  CopyOK(copy, obj, later)
BY DEF CopyOK, NotAhead, Made, NoneMade

LEMMA LaunchedStays ==
  ASSUME NEW table \in Table, NEW later \in Table, NoneMade(table, later),
         NEW obj, Launched(obj, table)
  PROVE  Launched(obj, later)
BY DEF Launched, Made, NoneMade

\* Without the current job, as far as it is not reported yet.
LEMMA ReportedStays ==
  ASSUME NEW table \in Table, NEW later \in Table, NoneMade(table, later),
         NEW obj, ReportedOK(obj, table)
  PROVE  ReportedOK(obj, later)
<1>1. Made(obj.uid, later) = Made(obj.uid, table)
  BY DEF Made, NoneMade
<1> QED BY <1>1, LaunchedStays DEF ReportedOK

LEMMA OwnerStays ==
  ASSUME NEW table \in Table, NEW later \in Table, NoneMade(table, later),
         NEW obj, OwnerOK(obj, table),
         obj.there /\ ~obj.deleting => Kept(obj.uid, later)
  PROVE  OwnerOK(obj, later)
<1>1. Made(obj.uid, later) = Made(obj.uid, table)
  BY DEF Made, NoneMade
<1>2. obj.there => NotAhead(obj, later)
  BY <1>1 DEF OwnerOK, NotAhead, NoneMade, Made
<1> QED BY <1>1, <1>2 DEF OwnerOK, NoneMade

\* Nobody but the operator takes its finalizer from a job.
KeepsHeld(table, later) == \A j \in JobNames : Held(j, table) => Held(j, later)

LEMMA KeptStays ==
  ASSUME NEW table \in Table, NEW later \in Table, NoneMade(table, later),
         KeepsHeld(table, later), NEW uid, Kept(uid, table)
  PROVE  Kept(uid, later)
<1>1. Made(uid, later) = Made(uid, table)
  BY DEF Made, NoneMade
<1> QED BY <1>1 DEF Kept, Made, NoneMade, KeepsHeld

LEMMA WorkerStays ==
  ASSUME NEW table \in Table, NEW later \in Table, NoneMade(table, later),
         KeepsHeld(table, later), NEW obj, NEW r, WorkerOK(r, obj, table)
  PROVE  WorkerOK(r, obj, later)
<1>1. Made(r.obj.uid, later) = Made(r.obj.uid, table)
  BY DEF Made, NoneMade
<1>2. BeforeDeletionOK(r.obj, table) => BeforeDeletionOK(r.obj, later)
  BY <1>1, KeptStays DEF BeforeDeletionOK
<1>3. CreateOK(r, table) => CreateOK(r, later)
  BY <1>1 DEF CreateOK, Made, NoneMade
<1>4. ReleaseOK(r, table) => ReleaseOK(r, later)
  BY <1>1 DEF ReleaseOK, Made, NoneMade, KeepsHeld
<1>5. PendingOK(r, table) => PendingOK(r, later)
  BY LaunchedStays DEF PendingOK
<1>6. CopyOK(r.obj, obj, table) => CopyOK(r.obj, obj, later)
  BY CopyStays
<1>7. (\A j \in JobNames : table[j].phase # "live") =>
        \A j \in JobNames : later[j].phase # "live"
  BY DEF NoneMade
<1> QED BY <1>2, <1>3, <1>4, <1>5, <1>6, <1>7 DEF WorkerOK

LEMMA CurrentStays ==
  ASSUME NEW table \in Table, NEW later \in Table, NoneMade(table, later),
         NEW obj, NEW r, CurrentOK(r, obj, table)
  PROVE  CurrentOK(r, obj, later)
<1>1. Made(r.obj.uid, later) = Made(r.obj.uid, table)
  BY DEF Made, NoneMade
<1> QED BY <1>1 DEF CurrentOK, Made, NoneMade

\* new is what a write makes of obj, the operator's finalizer aside.
Succeeds(new, obj) ==
  /\ \/ /\ new.uid = obj.uid
        /\ new.there => /\ obj.there
                        /\ obj.gen <= new.gen
                        /\ new.gen = obj.gen => new.tmpl = obj.tmpl
                        /\ obj.deleting => new.deleting
                        /\ new.status = obj.status
     \/ /\ obj.uid < new.uid
        /\ ~obj.there
        /\ new.status = FreshStatus
  /\ ~new.there => new.status = FreshStatus

KeepsFinalizer(new, obj) ==
  obj.there /\ obj.fin => new.there /\ new.fin /\ new.uid = obj.uid

LEMMA CopySucceeds ==
  ASSUME NEW table \in Table, NEW obj \in ReactiveJob, NEW new \in ReactiveJob,
         NEW copy \in ReactiveJob, Succeeds(new, obj), CopyOK(copy, obj, table)
  PROVE  CopyOK(copy, new, table)
<1>1. /\ copy.uid \in Nat /\ obj.uid \in Nat /\ new.uid \in Nat
      /\ copy.gen \in Nat /\ obj.gen \in Nat /\ new.gen \in Nat
  BY DEF ReactiveJob
<1>2. copy.uid <= new.uid
  BY <1>1 DEF Succeeds, CopyOK
<1>3. ASSUME copy.uid = new.uid, new.there
      PROVE  /\ copy.uid = obj.uid /\ obj.there
             /\ obj.gen <= new.gen
             /\ new.gen = obj.gen => new.tmpl = obj.tmpl
             /\ obj.deleting => new.deleting
             /\ new.status = obj.status
  BY <1>1, <1>3 DEF Succeeds, CopyOK
<1> QED BY <1>1, <1>2, <1>3 DEF CopyOK

LEMMA WorkerSucceeds ==
  ASSUME NEW table \in Table, NEW obj \in ReactiveJob, NEW new \in ReactiveJob,
         NEW r \in ReconcileRun, Succeeds(new, obj), KeepsFinalizer(new, obj),
         WorkerOK(r, obj, table)
  PROVE  WorkerOK(r, new, table)
<1>1. r.obj \in ReactiveJob
  BY DEF ReconcileRun
<1>2. CopyOK(r.obj, obj, table) => CopyOK(r.obj, new, table)
  BY <1>1, CopySucceeds
<1>3. HasFinalizer(r.obj, obj) => HasFinalizer(r.obj, new)
  BY DEF HasFinalizer, KeepsFinalizer
<1> QED BY <1>2, <1>3 DEF WorkerOK

LEMMA OwnerSucceeds ==
  ASSUME NEW table \in Table, NEW obj \in ReactiveJob, NEW new \in ReactiveJob,
         Succeeds(new, obj), OwnerOK(obj, table),
         \/ KeepsFinalizer(new, obj)
         \/ obj.deleting /\ \A j \in JobNames : table[j].phase # "live"
  PROVE  OwnerOK(new, table)
<1>1. /\ obj.uid \in Nat /\ new.uid \in Nat
      /\ obj.gen \in Nat /\ new.gen \in Nat
      /\ \A j \in JobNames : table[j].uid \in Nat /\ table[j].gen \in Nat
  BY DEF ReactiveJob, Table, Job
<1>2. obj.uid <= new.uid
  BY <1>1 DEF Succeeds
<1>3. \A j \in JobNames :
        /\ table[j].phase # "unused" => table[j].uid <= new.uid
        /\ table[j].phase = "live" =>
             new.there /\ new.fin /\ table[j].uid = new.uid
  BY <1>1, <1>2 DEF OwnerOK, KeepsFinalizer
<1>4. CASE new.uid = obj.uid
  <2>1. new.there => NotAhead(new, table)
    <3> SUFFICES ASSUME new.there, NEW j \in Made(obj.uid, table)
                 PROVE  /\ table[j].gen <= new.gen
                        /\ table[j].gen = new.gen => table[j].tmpl = new.tmpl
      BY <1>4 DEF NotAhead
    <3>1. /\ obj.there /\ obj.gen <= new.gen
          /\ new.gen = obj.gen => new.tmpl = obj.tmpl
      BY <1>1, <1>4 DEF Succeeds
    <3>2. /\ table[j].gen <= obj.gen
          /\ table[j].gen = obj.gen => table[j].tmpl = obj.tmpl
          /\ table[j].gen \in Nat
      BY <1>1, <3>1 DEF OwnerOK, NotAhead, Made
    <3> QED BY <1>1, <3>1, <3>2
  <2> QED BY <1>1, <1>3, <1>4, <2>1 DEF OwnerOK, Succeeds, KeepsFinalizer
<1>5. CASE obj.uid < new.uid
  <2>1. Made(new.uid, table) = {}
    BY <1>1, <1>5 DEF OwnerOK, Made
  <2> QED BY <1>3, <2>1 DEF OwnerOK, NotAhead, Kept
<1> QED BY <1>1, <1>4, <1>5 DEF Succeeds

LEMMA ReportedSucceeds ==
  ASSUME NEW table \in Table, NEW obj \in ReactiveJob, NEW new \in ReactiveJob,
         Succeeds(new, obj), obj.status.obs <= obj.gen, ReportedOK(obj, table)
  PROVE  ReportedOK(new, table)
<1>1. CASE new.status = FreshStatus
  <2>1. new.status.cur = None /\ new.status.state \notin Launching
    <3>1. FreshStatus.cur = None /\ FreshStatus.state = None
      BY DEF FreshStatus
    <3> QED BY <1>1, <3>1 DEF Launching, None
  <2> QED BY <1>1, <2>1 DEF ReportedOK
<1>2. CASE new.status # FreshStatus
  <2>1. /\ new.uid = obj.uid /\ obj.gen <= new.gen
        /\ new.gen = obj.gen => new.tmpl = obj.tmpl
        /\ new.status = obj.status
        /\ new.there
    BY <1>2 DEF Succeeds
  <2>2. /\ obj.gen \in Nat /\ new.gen \in Nat /\ obj.status.obs \in Int
    BY DEF ReactiveJob, ReactiveJobStatus
  <2> QED BY <2>1, <2>2 DEF ReportedOK, Launched
<1> QED BY <1>1, <1>2
-----------------------------------------------------------------------------
(* The steps of the worker *)

\* The one worker goes on with r.
LEMMA WorkerGoesOn ==
  ASSUME OneWorker, SingleInv, ReadyInv', NEW w \in Workers, NEW r,
         run' = [run EXCEPT ![w] = r],
         HistoryOK(jobs'), OwnerOK(rj', jobs'), ReportedOK(rj', jobs'),
         WorkerOK(r, rj', jobs'),
         w \in rjHeld' /\ r.pc # "idle" => CurrentOK(r, rj', jobs')
  PROVE  SingleInv'
<1>1. /\ \A v \in Workers : v = w
      /\ run'[w] = r
  BY DEF OneWorker, SingleInv, ReadyInv, ControllerTypeOK
<1> QED BY <1>1 DEF SingleInv

\* A call of the worker that writes no ReactiveJob.
LEMMA CallSingle ==
  ASSUME OneWorker, SingleInv, ReadyInv', NEW w \in Workers, NEW r,
         run[w].pc \notin {"idle", "status"},
         run' = [run EXCEPT ![w] = r], UNCHANGED objectVars,
         HistoryOK(jobs'), OwnerOK(rj, jobs'), ReportedOK(rj, jobs'),
         ContinuesSingle(r, run[w], rj, jobs')
  PROVE  SingleInv'
<1>1. rj' = rj /\ rjHeld' = rjHeld
  BY DEF objectVars
<1>2. w \in rjHeld => run[w].obj.status.cur = rj.status.cur
  BY DEF SingleInv, CurrentOK
<1>3. w \in rjHeld' /\ r.pc # "idle" => CurrentOK(r, rj', jobs')
  BY <1>1, <1>2 DEF ContinuesSingle, CurrentOK
<1>4. WorkerOK(r, rj', jobs')
  BY <1>1 DEF ContinuesSingle
<1> QED BY <1>1, <1>3, <1>4, WorkerGoesOn

\* ... and is answered, or fails, or loses its answer.
LEMMA AnsweredSingle ==
  ASSUME OneWorker, SingleInv, ReadyInv', NEW w \in Workers, NEW r,
         run[w].pc \notin {"idle", "status"},
         Answered(w, r), UNCHANGED objectVars, jobs' \in Table,
         HistoryOK(jobs'), OwnerOK(rj, jobs'), ReportedOK(rj, jobs'),
         CopyOK(run[w].obj, rj, jobs'),
         ContinuesSingle(r, run[w], rj, jobs')
  PROVE  SingleInv'
<1>1. run[w] \in ReconcileRun /\ rj \in ReactiveJob
  BY DEF SingleInv, ReadyInv, ControllerTypeOK, ClusterTypeOK
<1>2. CASE Continue(w, r)
  BY <1>2, CallSingle DEF Continue
<1>3. CASE Disturbed(w)
  <2>1. ContinuesSingle(Fail(run[w]), run[w], rj, jobs')
    BY <1>1, FailSingle DEF ContinuesSingle
  <2>2. run' = [run EXCEPT ![w] = Fail(run[w])]
    BY <1>3 DEF Disturbed, SingleInv, ReadyInv, ControllerTypeOK
  <2> QED BY <2>1, <2>2, CallSingle
<1> QED BY <1>2, <1>3 DEF Answered

\* What SingleInv says of the object, the jobs and the worker.
LEMMA SingleFacts ==
  ASSUME SingleInv, NEW w \in Workers
  PROVE  /\ jobs \in Table /\ rj \in ReactiveJob /\ rj.status \in ReactiveJobStatus
         /\ run \in [Workers -> ReconcileRun] /\ run[w] \in ReconcileRun
         /\ run[w].obj \in ReactiveJob
         /\ rj.status.obs <= rj.gen
         /\ HistoryOK(jobs) /\ OwnerOK(rj, jobs) /\ ReportedOK(rj, jobs)
         /\ RunOK(run[w], jobs) /\ WorkerOK(run[w], rj, jobs)
         /\ run[w].pc # "idle" => CopyOK(run[w].obj, rj, jobs)
<1>1. /\ jobs \in Table /\ rj \in ReactiveJob
      /\ run \in [Workers -> ReconcileRun]
      /\ RunOK(run[w], jobs) /\ rj.status.obs <= rj.gen
  BY DEF SingleInv, ReadyInv, ControllerTypeOK, ClusterTypeOK, Table, StatusOK
<1>2. run[w] \in ReconcileRun /\ rj.status \in ReactiveJobStatus
  BY <1>1 DEF ReactiveJob
<1>3. run[w].obj \in ReactiveJob
  BY <1>2 DEF ReconcileRun
<1> QED BY <1>1, <1>2, <1>3 DEF SingleInv, WorkerOK

\* A call that had no effect.
LEMMA FailedCallSingle ==
  ASSUME OneWorker, SingleInv, ReadyInv', NEW w \in Workers,
         run[w].pc \notin {"idle", "status"}, NoEffect,
         Continue(w, Fail(run[w])) \/ Disturbed(w)
  PROVE  SingleInv'
<1>1. jobs' = jobs /\ UNCHANGED objectVars
  BY DEF NoEffect
<1>2. /\ jobs \in Table /\ rj \in ReactiveJob /\ run[w] \in ReconcileRun
      /\ HistoryOK(jobs) /\ OwnerOK(rj, jobs) /\ ReportedOK(rj, jobs)
      /\ CopyOK(run[w].obj, rj, jobs)
  BY SingleFacts
<1>3. ContinuesSingle(Fail(run[w]), run[w], rj, jobs)
  BY <1>2, FailSingle DEF ContinuesSingle
<1> QED BY <1>1, <1>2, <1>3, AnsweredSingle DEF Answered

LEMMA ListSingle ==
  ASSUME OneWorker, SingleInv, ReadyInv', NEW w \in Workers, ListJobs(w)
  PROVE  SingleInv'
<1> DEFINE deps == Dependents(run[w].obj.uid)
           seen == [j \in JobNames |-> IF j \in deps THEN jobs[j] ELSE NoJob]
           listed(first) == [run[w] EXCEPT !.list = seen, !.first = first]
<1>1. /\ run[w].pc = "list" /\ NoEffect
      /\ run[w] \in ReconcileRun /\ RunOK(run[w], jobs)
      /\ jobs \in Table /\ rj \in ReactiveJob
      /\ HistoryOK(jobs) /\ OwnerOK(rj, jobs) /\ ReportedOK(rj, jobs)
      /\ WorkerOK(run[w], rj, jobs) /\ CopyOK(run[w].obj, rj, jobs)
  BY SingleFacts DEF ListJobs
<1>2. CASE Disturbed(w)
  BY <1>1, <1>2, FailedCallSingle
<1>3. ASSUME NEW first \in IF deps = {} THEN {None} ELSE Newest(deps, jobs),
             Continue(w, Dispatch(listed(first)))
      PROVE  SingleInv'
  <2> DEFINE r == listed(first)
  <2>1. seen \in [JobNames -> Job] /\ first \in deps \cup {None} /\ deps \subseteq JobNames
    BY <1>1, EmptyValuesType DEF Newest, Dependents, Table
  <2>2. /\ r \in ReconcileRun
        /\ r.pc = "list" /\ r.obj = run[w].obj
        /\ r.list = seen /\ r.first = first
    BY <1>1, <2>1 DEF ReconcileRun
  <2>3. Listed(r) = deps
    BY <2>1, <2>2 DEF Listed, Dependents, Live, NoJob
  <2>4. ListOK(r, jobs)
    BY <1>1, <2>1, <2>2, <2>3 DEF ListOK, Dependents, Live, Mature, Table
  <2>5. RunOK(r, jobs) /\ WorkerOK(r, rj, jobs)
    BY <1>1, <2>2, <2>4 DEF RunOK, WorkerOK
  <2>6. \A j \in deps : seen[j] = jobs[j]
    BY <2>1
  <2>7. FreshList(r, jobs)
    <3>1. \A j \in JobNames :
            j \in deps <=> j \in Made(r.obj.uid, jobs) /\ jobs[j].phase = "live"
      BY <2>2 DEF Dependents, Live, Made
    <3>2. Newest(deps, jobs) = Newest(deps, seen)
      BY <2>6 DEF Newest
    <3> QED BY <1>3, <2>2, <2>3, <2>6, <3>1, <3>2 DEF FreshList
  <2>8. ContinuesSingle(Dispatch(r), run[w], rj, jobs)
    <3>1. ContinuesSingle(Dispatch(r), r, rj, jobs)
      BY <1>1, <2>2, <2>5, <2>7, DispatchSingle
    <3> QED BY <2>2, <3>1 DEF ContinuesSingle
  <2>9. Answered(w, Dispatch(r)) /\ jobs' = jobs /\ UNCHANGED objectVars
    BY <1>1, <1>3 DEF Answered, NoEffect
  <2> HIDE DEF r
  <2> QED BY <1>1, <2>8, <2>9, AnsweredSingle
<1> QED BY <1>2, <1>3 DEF ListJobs

\* The finalizer is set: no job was made for the object before.
LEMMA SetFinalizerSingle ==
  ASSUME OneWorker, SingleInv, ReadyInv', NEW w \in Workers, SetFinalizer(w)
  PROVE  SingleInv'
<1> DEFINE obj == [rj EXCEPT !.fin = TRUE]
           s   == [run[w] EXCEPT !.obj = obj]
           r   == CreateOrUpdate(s)
<1>1. /\ run[w].pc = "setFinalizer"
      /\ run[w] \in ReconcileRun /\ RunOK(run[w], jobs) /\ run[w].obj \in ReactiveJob
      /\ jobs \in Table /\ rj \in ReactiveJob /\ rj.status.obs <= rj.gen
      /\ HistoryOK(jobs) /\ OwnerOK(rj, jobs) /\ ReportedOK(rj, jobs)
      /\ WorkerOK(run[w], rj, jobs) /\ CopyOK(run[w].obj, rj, jobs)
  BY SingleFacts DEF SetFinalizer
<1>2. CASE NoEffect /\ (Continue(w, Fail(run[w])) \/ Disturbed(w))
  BY <1>1, <1>2, FailedCallSingle
<1>3. ASSUME CurrentReactiveJob(w), UNCHANGED jobs,
             \/ WriteReactiveJob(obj, {w}) /\ Continue(w, r)
             \/ WriteReactiveJob(obj, {}) /\ Disturbed(w)
      PROVE  SingleInv'
  <2>1. /\ obj \in ReactiveJob /\ obj.fin
        /\ obj.there = rj.there /\ obj.uid = rj.uid /\ obj.gen = rj.gen
        /\ obj.tmpl = rj.tmpl /\ obj.deleting = rj.deleting
        /\ obj.status = rj.status
    BY <1>1 DEF ReactiveJob
  <2>2. rj.there /\ SameObject(run[w].obj, rj)
    BY <1>1, <1>3 DEF SingleInv, ReadyInv, CopyIsCurrent, CurrentReactiveJob
  <2>3. Made(rj.uid, jobs) = {} /\ ~rj.deleting
    BY <1>1, <2>2 DEF WorkerOK, BeforeDeletionOK, RunOK, SameObject
  <2>4. rj' = obj /\ jobs' = jobs
    BY <1>3 DEF WriteReactiveJob
  <2>5. Succeeds(obj, rj) /\ KeepsFinalizer(obj, rj)
    BY <1>1, <2>1, <2>2 DEF Succeeds, KeepsFinalizer, ReactiveJob
  <2>6. OwnerOK(obj, jobs) /\ ReportedOK(obj, jobs)
    BY <1>1, <2>1, <2>5, OwnerSucceeds, ReportedSucceeds
  <2>7. CASE WriteReactiveJob(obj, {w}) /\ Continue(w, r)
    <3>1. /\ s \in ReconcileRun
          /\ s.obj = obj /\ s.pc = run[w].pc
          /\ s.list = run[w].list /\ s.first = run[w].first
      BY <1>1, <2>1 DEF ReconcileRun
    <3>2. RunOK(s, jobs)
      BY <1>1, <2>1, <2>2, <2>3, <3>1 DEF RunOK, ListOK, Listed, SameObject
    <3>3. CopyOK(s.obj, obj, jobs)
      BY <1>1, <2>1, <2>2, <2>3, <3>1 DEF CopyOK, NotAhead, ReactiveJob
    <3>4. BeforeDeletionOK(s.obj, jobs) /\ HasFinalizer(s.obj, obj)
      BY <2>1, <2>2, <2>3, <3>1 DEF BeforeDeletionOK, Kept, HasFinalizer
    <3>5. Listed(s) = {}
      <4> SUFFICES ASSUME NEW j \in Listed(s) PROVE FALSE
        OBVIOUS
      <4>1. s.list[j].uid = s.obj.uid /\ Mature(s.list[j], jobs[j]) /\ j \in JobNames
        BY <3>2 DEF RunOK, ListOK, Listed
      <4> QED BY <2>1, <2>3, <3>1, <4>1 DEF Mature, Made
    <3>6. FreshList(s, jobs)
      <4>1. s.first = None
        BY <3>2, <3>5 DEF RunOK, ListOK
      <4>2. Made(s.obj.uid, jobs) = {}
        BY <2>1, <2>3, <3>1
      <4> HIDE DEF s
      <4> QED BY <3>5, <4>1, <4>2 DEF FreshList
    <3>7. /\ WorkerOK(r, obj, jobs)
          /\ CurrentOK(r, obj, jobs) \/ r.obj = s.obj
      <4> HIDE DEF s, obj
      <4> QED
        BY <1>1, <2>1, <2>3, <3>1, <3>2, <3>3, <3>4, <3>6, CreateOrUpdateSingle
    <3>8. CurrentOK(r, obj, jobs)
      BY <3>1, <3>7 DEF CurrentOK
    <3>9. run' = [run EXCEPT ![w] = r]
      BY <2>7 DEF Continue
    <3> HIDE DEF r, obj
    <3> QED BY <1>1, <2>4, <2>6, <3>7, <3>8, <3>9, WorkerGoesOn
  <2>8. CASE WriteReactiveJob(obj, {}) /\ Disturbed(w)
    <3>1. CopyOK(run[w].obj, obj, jobs)
      BY <1>1, <2>1, <2>5, CopySucceeds
    <3>2. WorkerOK(Fail(run[w]), obj, jobs)
      BY <1>1, <2>1, <3>1, FailSingle
    <3>3. run' = [run EXCEPT ![w] = Fail(run[w])] /\ rjHeld' = {}
      BY <2>8 DEF Disturbed, WriteReactiveJob, SingleInv, ReadyInv, ControllerTypeOK
    <3> QED BY <1>1, <2>4, <2>6, <3>2, <3>3, WorkerGoesOn
  <2> QED BY <1>3, <2>7, <2>8
<1> QED BY <1>2, <1>3 DEF SetFinalizer, Accepted

\* later has a job j besides those of table, newer than all the others of copy.
MadeFor(copy, j, table, later) ==
  /\ later \in Table
  /\ HistoryOK(later)
  /\ Made(copy.uid, later) = Made(copy.uid, table) \cup {j}
  /\ \A k \in JobNames \ {j} : later[k] = table[k]
  /\ Held(j, later)
  /\ later[j].uid = copy.uid
  /\ later[j].gen = copy.gen
  /\ later[j].tmpl = copy.tmpl
  /\ \A k \in Made(copy.uid, table) : later[k].gen < later[j].gen

LEMMA JobMade ==
  ASSUME NEW table \in Table, NEW j \in JobNames, table[j].phase = "unused",
         NEW r \in ReconcileRun, CreateOK(r, table), HistoryOK(table)
  PROVE  MadeFor(r.obj, j, table, [table EXCEPT ![j] = JobFor(r.obj)])
<1> DEFINE later == [table EXCEPT ![j] = JobFor(r.obj)]
<1>1. r.obj \in ReactiveJob
  BY DEF ReconcileRun
<1>2. /\ JobFor(r.obj) \in Job
      /\ JobFor(r.obj).phase = "live" /\ JobFor(r.obj).fin
      /\ JobFor(r.obj).uid = r.obj.uid /\ JobFor(r.obj).gen = r.obj.gen
      /\ JobFor(r.obj).tmpl = r.obj.tmpl
  BY <1>1 DEF JobFor, NoJob, Job, ReactiveJob
<1>3. /\ later \in Table /\ later[j] = JobFor(r.obj)
      /\ \A k \in JobNames \ {j} : later[k] = table[k]
  BY <1>2 DEF Table
<1> HIDE DEF later
<1>4. /\ Made(r.obj.uid, later) = Made(r.obj.uid, table) \cup {j}
      /\ \A uid : uid # r.obj.uid => Made(uid, later) = Made(uid, table)
      /\ j \notin Made(r.obj.uid, table)
  BY <1>2, <1>3 DEF Made
<1>5. Held(j, later)
  BY <1>2, <1>3 DEF Held
<1>6. \A k \in Made(r.obj.uid, table) :
        k # j /\ k \in JobNames /\ later[k] = table[k] /\ later[k].gen < later[j].gen
  BY <1>2, <1>3, <1>4 DEF CreateOK, Made
<1>7. \A k \in JobNames : later[k].gen \in Nat /\ table[k].gen \in Nat
  BY <1>3 DEF Table, Job
<1>8. ASSUME NEW a \in JobNames, later[a].phase # "unused",
             NEW k \in Made(later[a].uid, later)
      PROVE  /\ later[a].gen = later[k].gen => a = k
             /\ later[a].gen < later[k].gen /\ later[a].tmpl = later[k].tmpl =>
                  \E i \in Made(later[a].uid, later) :
                    later[a].gen < later[i].gen /\ later[i].gen < later[k].gen
  <2>1. CASE later[a].uid # r.obj.uid
    <3>1. /\ a # j /\ k # j /\ a \in JobNames /\ k \in JobNames
          /\ Made(later[a].uid, later) = Made(table[a].uid, table)
      BY <1>2, <1>3, <1>4, <1>8, <2>1 DEF Made
    <3>2. /\ later[a] = table[a] /\ later[k] = table[k]
          /\ \A i \in Made(table[a].uid, table) : later[i] = table[i]
      BY <1>2, <1>3, <2>1, <3>1 DEF Made
    <3> QED BY <1>8, <3>1, <3>2 DEF HistoryOK
  <2>2. CASE later[a].uid = r.obj.uid
    <3>1. a \in Made(r.obj.uid, table) \cup {j} /\ k \in Made(r.obj.uid, table) \cup {j}
      BY <1>4, <1>8, <2>2 DEF Made
    <3>2. CASE k = j /\ a # j
      <4>1. a \in Made(r.obj.uid, table) /\ later[a].gen < later[k].gen
        BY <1>6, <3>1, <3>2
      <4>2. ASSUME later[a].tmpl = later[k].tmpl
            PROVE  \E i \in Made(later[a].uid, later) :
                     later[a].gen < later[i].gen /\ later[i].gen < later[k].gen
        <5>1. table[a].tmpl = r.obj.tmpl
          BY <1>2, <1>3, <1>6, <3>2, <4>1, <4>2
        <5>2. PICK i \in Made(r.obj.uid, table) : ~(table[i].gen <= table[a].gen)
          BY <4>1, <5>1 DEF CreateOK
        <5>3. later[a].gen < later[i].gen /\ later[i].gen < later[k].gen
          BY <1>6, <1>7, <3>2, <4>1, <5>2
        <5> QED BY <1>4, <2>2, <5>2, <5>3
      <4> QED BY <1>6, <1>7, <3>2, <4>1, <4>2 DEF Made
    <3>3. CASE a = j
      BY <1>6, <1>7, <3>1, <3>3
    <3>4. CASE a # j /\ k # j
      <4>1. /\ a \in Made(r.obj.uid, table) /\ k \in Made(r.obj.uid, table)
            /\ table[a].uid = r.obj.uid /\ table[a].phase # "unused"
        BY <3>1, <3>4 DEF Made
      <4>2. /\ table[a].gen = table[k].gen => a = k
            /\ table[a].gen < table[k].gen /\ table[a].tmpl = table[k].tmpl =>
                 \E i \in Made(r.obj.uid, table) :
                   table[a].gen < table[i].gen /\ table[i].gen < table[k].gen
        BY <4>1 DEF HistoryOK
      <4> QED BY <1>4, <1>6, <2>2, <4>1, <4>2
    <3> QED BY <3>2, <3>3, <3>4
  <2> QED BY <2>1, <2>2
<1>9. HistoryOK(later)
  BY <1>8 DEF HistoryOK
<1>10. MadeFor(r.obj, j, table, later)
  BY <1>2, <1>3, <1>4, <1>5, <1>6, <1>9 DEF MadeFor
<1> QED BY <1>10 DEF later

LEMMA CreateSingle ==
  ASSUME OneWorker, SingleInv, ReadyInv', NEW w \in Workers, CreateJob(w)
  PROVE  SingleInv'
<1>1. /\ run[w].pc = "create"
      /\ run[w] \in ReconcileRun /\ RunOK(run[w], jobs) /\ run[w].obj \in ReactiveJob
      /\ jobs \in Table /\ rj \in ReactiveJob /\ rj.status \in ReactiveJobStatus
      /\ HistoryOK(jobs) /\ OwnerOK(rj, jobs) /\ ReportedOK(rj, jobs)
      /\ WorkerOK(run[w], rj, jobs) /\ CopyOK(run[w].obj, rj, jobs)
  BY SingleFacts DEF CreateJob
<1>2. CASE NoEffect /\ (Continue(w, Fail(run[w])) \/ Disturbed(w))
  BY <1>1, <1>2, FailedCallSingle
<1>3. ASSUME NEW j \in JobNames, ~Used(j), WriteJob(j, JobFor(run[w].obj)),
             Answered(w, Report(run[w], "Processing")), UNCHANGED objectVars
      PROVE  SingleInv'
  <2> DEFINE copy == run[w].obj
  <2>1. CreateOK(run[w], jobs) /\ HasFinalizer(copy, rj)
    BY <1>1 DEF WorkerOK, CreateOK
  <2>2. /\ rj.there /\ rj.fin /\ rj.uid = copy.uid
        /\ copy.gen <= rj.gen
        /\ copy.gen = rj.gen => copy.tmpl = rj.tmpl
        /\ rj.status.obs <= copy.gen
    BY <1>1, <2>1 DEF HasFinalizer, CopyOK
  <2>3. /\ copy.gen \in Nat /\ rj.gen \in Nat /\ rj.status.obs \in Int
        /\ rj.uid \in Nat
    BY <1>1 DEF ReactiveJob, ReactiveJobStatus
  <2>4. /\ jobs' \in Table /\ HistoryOK(jobs')
        /\ Made(rj.uid, jobs') = Made(rj.uid, jobs) \cup {j}
        /\ \A k \in JobNames \ {j} : jobs'[k] = jobs[k]
        /\ Held(j, jobs')
        /\ jobs'[j].uid = rj.uid /\ jobs'[j].gen = copy.gen
        /\ jobs'[j].tmpl = copy.tmpl
        /\ \A k \in Made(rj.uid, jobs) : jobs'[k].gen < jobs'[j].gen
    <3>1. jobs[j].phase = "unused" /\ jobs' = [jobs EXCEPT ![j] = JobFor(copy)]
      BY <1>3 DEF WriteJob, Used
    <3>2. MadeFor(copy, j, jobs, jobs')
      BY <1>1, <2>1, <3>1, JobMade
    <3> QED BY <2>2, <3>2 DEF MadeFor
  <2>5. ASSUME NEW k \in Made(rj.uid, jobs'), k # j
        PROVE  k \in JobNames \ {j} /\ jobs'[k].gen < copy.gen
    BY <2>4, <2>5 DEF Made
  <2>6. \A k \in JobNames : jobs'[k].gen \in Nat
    BY <2>4 DEF Table, Job
  <2>7. NotAhead(rj, jobs') /\ NotAhead(copy, jobs')
    <3>1. ASSUME NEW k \in Made(rj.uid, jobs')
          PROVE  /\ jobs'[k].gen <= copy.gen
                 /\ jobs'[k].gen = copy.gen => jobs'[k].tmpl = copy.tmpl
                 /\ jobs'[k].gen \in Nat
      <4>1. CASE k = j
        BY <2>3, <2>4, <4>1
      <4>2. CASE k # j
        BY <2>3, <2>5, <2>6, <4>2
      <4> QED BY <4>1, <4>2
    <3> QED BY <2>2, <2>3, <3>1 DEF NotAhead
  <2>8. j \in Made(rj.uid, jobs')
    BY <2>4
  <2>9. \A k \in Made(rj.uid, jobs') : jobs'[k].gen <= jobs'[j].gen
    BY <2>3, <2>4, <2>5, <2>6
  <2>10. Kept(rj.uid, jobs')
    BY <2>4, <2>8, <2>9 DEF Kept
  <2>11. OwnerOK(rj, jobs')
    <3>1. \A k \in JobNames :
            /\ jobs'[k].phase # "unused" => jobs'[k].uid <= rj.uid
            /\ jobs'[k].phase = "live" => jobs'[k].uid = rj.uid
      BY <1>1, <2>3, <2>4 DEF OwnerOK
    <3> QED BY <2>2, <2>7, <2>10, <3>1 DEF OwnerOK
  <2>12. Launched(copy, jobs')
    BY <2>2, <2>4, <2>8, <2>9 DEF Launched
  <2>13. ReportedOK(rj, jobs')
    <3>1. rj.status.obs = rj.gen => Launched(rj, jobs')
      BY <2>2, <2>3, <2>12 DEF Launched
    <3> QED BY <1>1, <2>2, <2>4, <3>1 DEF ReportedOK
  <2>14. CopyOK(copy, rj, jobs')
    BY <1>1, <2>7 DEF CopyOK
  <2>15. ContinuesSingle(Report(run[w], "Processing"), run[w], rj, jobs')
    BY <1>1, <2>4, <2>12, <2>14, ReportSingle DEF ContinuesSingle, ReactiveJobStates
  <2> QED BY <1>1, <1>3, <2>4, <2>11, <2>13, <2>14, <2>15, AnsweredSingle
<1> QED BY <1>2, <1>3 DEF CreateJob

\* later is table after a write of the job j that was there.
Rewritten(j, table, later) ==
  /\ later \in Table
  /\ NoneMade(table, later)
  /\ AllMature(table, later)
  /\ \A k \in JobNames \ {j} : later[k] = table[k]

LEMMA JobWritten ==
  ASSUME NEW table \in Table, NEW j \in JobNames, table[j].phase # "unused",
         NEW job \in {StoredJob([table[j] EXCEPT !.fin = FALSE]),
                      [table[j] EXCEPT !.deleting = TRUE, !.fg = TRUE]},
         table[j].phase = "live" \/ job.phase # "live"
  PROVE  Rewritten(j, table, [table EXCEPT ![j] = job])
<1> DEFINE later == [table EXCEPT ![j] = job]
<1>1. table[j] \in Job
  BY DEF Table
<1>2. /\ job \in Job /\ Mature(table[j], job)
      /\ job.phase # "unused"
      /\ job.uid = table[j].uid /\ job.gen = table[j].gen /\ job.tmpl = table[j].tmpl
  BY <1>1, JobWritesMature DEF Mature
<1>3. /\ later \in Table /\ later[j] = job
      /\ \A k \in JobNames \ {j} : later[k] = table[k]
  BY <1>2 DEF Table
<1> HIDE DEF later
<1>4. NoneMade(table, later)
  BY <1>2, <1>3 DEF NoneMade
<1>5. AllMature(table, later)
  BY <1>2, <1>3 DEF AllMature, Mature
<1>6. Rewritten(j, table, later)
  BY <1>3, <1>4, <1>5 DEF Rewritten
<1> QED BY <1>6 DEF later

\* An older job is released: the head of the list stays held.
LEMMA ReleaseSingle ==
  ASSUME OneWorker, SingleInv, ReadyInv', NEW w \in Workers, ReleaseJob(w)
  PROVE  SingleInv'
<1>1. /\ run[w].pc = "release"
      /\ run[w] \in ReconcileRun /\ RunOK(run[w], jobs) /\ run[w].obj \in ReactiveJob
      /\ jobs \in Table /\ rj \in ReactiveJob
      /\ HistoryOK(jobs) /\ OwnerOK(rj, jobs) /\ ReportedOK(rj, jobs)
      /\ WorkerOK(run[w], rj, jobs) /\ CopyOK(run[w].obj, rj, jobs)
      /\ run[w].todo \in SUBSET JobNames
  BY SingleFacts DEF ReleaseJob, ReconcileRun
<1>2. PICK j \in Newest(run[w].todo, run[w].list) :
        \/ /\ CurrentJob(w, j)
           /\ WriteJob(j, StoredJob([jobs[j] EXCEPT !.fin = FALSE]))
           /\ Answered(w, ReleaseNext([run[w] EXCEPT !.todo = @ \ {j}]))
           /\ UNCHANGED objectVars
        \/ Continue(w, Fail(run[w])) /\ NoEffect
        \/ Disturbed(w) /\ NoEffect
  BY DEF ReleaseJob
<1>3. CASE NoEffect /\ (Continue(w, Fail(run[w])) \/ Disturbed(w))
  BY <1>1, <1>3, FailedCallSingle
<1>4. CASE /\ CurrentJob(w, j)
           /\ WriteJob(j, StoredJob([jobs[j] EXCEPT !.fin = FALSE]))
           /\ Answered(w, ReleaseNext([run[w] EXCEPT !.todo = @ \ {j}]))
           /\ UNCHANGED objectVars
  <2> DEFINE copy == run[w].obj
             job  == StoredJob([jobs[j] EXCEPT !.fin = FALSE])
             s    == [run[w] EXCEPT !.todo = run[w].todo \ {j}]
  <2>1. /\ ReleaseOK(run[w], jobs) /\ BeforeDeletionOK(copy, jobs)
        /\ HasFinalizer(copy, rj)
    BY <1>1 DEF WorkerOK, ReleaseOK
  <2>2. /\ j \in run[w].todo /\ j \in Listed(run[w])
        /\ j # run[w].first /\ j \in JobNames
    BY <1>1, <2>1 DEF Newest, ReleaseOK
  <2>3. jobs[j].phase # "unused"
    BY <1>1, <2>2 DEF RunOK, ListOK, Mature
  <2>4. jobs[j].phase = "live" \/ job.phase # "live"
    BY <1>1, <2>2 DEF StoredJob, Table, Job
  <2>5. jobs' = [jobs EXCEPT ![j] = job]
    BY <1>4 DEF WriteJob
  <2>6. /\ jobs' \in Table /\ NoneMade(jobs, jobs') /\ AllMature(jobs, jobs')
        /\ \A k \in JobNames \ {j} : jobs'[k] = jobs[k]
    <3> HIDE DEF job
    <3>1. job \in {StoredJob([jobs[j] EXCEPT !.fin = FALSE]),
                   [jobs[j] EXCEPT !.deleting = TRUE, !.fg = TRUE]}
      BY DEF job
    <3>2. Rewritten(j, jobs, jobs')
      BY <1>1, <2>2, <2>3, <2>4, <2>5, <3>1, JobWritten
    <3> QED BY <3>2 DEF Rewritten
  <2>7. Made(copy.uid, jobs') = Made(copy.uid, jobs) /\ HistoryOK(jobs')
    BY <1>1, <2>6, HistoryStays
  <2>8. /\ run[w].first \in Made(copy.uid, jobs') /\ Held(run[w].first, jobs')
        /\ \A k \in Made(copy.uid, jobs') : jobs'[k].gen <= jobs'[run[w].first].gen
    BY <2>1, <2>2, <2>6, <2>7 DEF ReleaseOK, Made, Held, NoneMade
  <2>9. Kept(copy.uid, jobs')
    BY <2>8 DEF Kept
  <2>10. /\ OwnerOK(rj, jobs') /\ ReportedOK(rj, jobs')
         /\ CopyOK(copy, rj, jobs')
    BY <1>1, <2>1, <2>6, <2>9, OwnerStays, ReportedStays, CopyStays DEF HasFinalizer
  <2>11. /\ s \in ReconcileRun
         /\ s.obj = copy /\ s.pc = run[w].pc /\ s.list = run[w].list
         /\ s.first = run[w].first /\ s.todo = run[w].todo \ {j}
    BY <1>1 DEF ReconcileRun
  <2>12. RunOK(s, jobs) /\ HeadOK(s)
    BY <1>1, <2>11 DEF RunOK, ListOK, HeadOK, Listed
  <2>13. RunOK(s, jobs')
    BY <1>1, <2>6, <2>11, <2>12, RunOKStays
  <2>14. ReleaseOK(s, jobs') /\ BeforeDeletionOK(s.obj, jobs') /\ HasFinalizer(s.obj, rj)
    BY <2>1, <2>7, <2>8, <2>9, <2>11 DEF ReleaseOK, Listed, BeforeDeletionOK
  <2>15. Answered(w, ReleaseNext(s))
    BY <1>1, <1>4
  <2> HIDE DEF s
  <2>16. ContinuesSingle(ReleaseNext(s), run[w], rj, jobs')
    <3>1. /\ WorkerOK(ReleaseNext(s), rj, jobs')
          /\ CurrentOK(ReleaseNext(s), rj, jobs') \/ ReleaseNext(s).obj = s.obj
      BY <1>1, <2>6, <2>10, <2>11, <2>12, <2>13, <2>14, ReleaseNextSingle
    <3> QED BY <2>11, <3>1 DEF ContinuesSingle
  <2> QED BY <1>1, <1>4, <2>6, <2>7, <2>10, <2>15, <2>16, AnsweredSingle
<1> QED BY <1>2, <1>3, <1>4

\* Jobs are purged only for an object that is being deleted, or gone.
LEMMA PurgeSingle ==
  ASSUME OneWorker, SingleInv, ReadyInv', NEW w \in Workers, PurgeJob(w)
  PROVE  SingleInv'
<1>1. /\ run[w].pc = "purge"
      /\ run[w] \in ReconcileRun /\ RunOK(run[w], jobs) /\ run[w].obj \in ReactiveJob
      /\ jobs \in Table /\ rj \in ReactiveJob
      /\ HistoryOK(jobs) /\ OwnerOK(rj, jobs) /\ ReportedOK(rj, jobs)
      /\ WorkerOK(run[w], rj, jobs) /\ CopyOK(run[w].obj, rj, jobs)
      /\ run[w].list \in [JobNames -> Job]
  BY SingleFacts DEF PurgeJob, ReconcileRun
<1>2. PICK j \in Newest(run[w].todo, run[w].list) :
        \/ /\ CurrentJob(w, j)
           /\ WriteJob(j, StoredJob([jobs[j] EXCEPT !.fin = FALSE]))
           /\ Answered(w, PurgeNext([run[w] EXCEPT !.list[j].fin = FALSE]))
           /\ UNCHANGED objectVars
        \/ /\ Live(j)
           /\ WriteJob(j, [jobs[j] EXCEPT !.deleting = TRUE, !.fg = TRUE])
           /\ Answered(w, PurgeNext([run[w] EXCEPT !.list[j].deleting = TRUE]))
           /\ UNCHANGED objectVars
        \/ Continue(w, Fail(run[w])) /\ NoEffect
        \/ Disturbed(w) /\ NoEffect
  BY DEF PurgeJob
<1>3. CASE NoEffect /\ (Continue(w, Fail(run[w])) \/ Disturbed(w))
  BY <1>1, <1>3, FailedCallSingle
<1> DEFINE copy == run[w].obj
<1>4. copy.deleting /\ (copy.fin => HasFinalizer(copy, rj))
  BY <1>1 DEF WorkerOK
<1>5. /\ j \in Listed(run[w]) /\ j \in JobNames
      /\ jobs[j].phase # "unused" /\ jobs[j].uid = copy.uid
  <2>1. j \in Listed(run[w]) /\ j \in JobNames
    BY <1>1 DEF WorkerOK, Newest, Listed
  <2> QED BY <1>1, <2>1 DEF RunOK, ListOK, Mature
<1>6. ASSUME NEW job \in {StoredJob([jobs[j] EXCEPT !.fin = FALSE]),
                          [jobs[j] EXCEPT !.deleting = TRUE, !.fg = TRUE]},
             jobs[j].phase = "live" \/ job.phase # "live",
             WriteJob(j, job),
             NEW s \in ReconcileRun, s.obj = copy,
             Answered(w, PurgeNext(s)), UNCHANGED objectVars
      PROVE  SingleInv'
  <2>1. /\ jobs' \in Table /\ NoneMade(jobs, jobs')
        /\ \A k \in JobNames \ {j} : jobs'[k] = jobs[k]
    <3>1. jobs' = [jobs EXCEPT ![j] = job]
      BY <1>6 DEF WriteJob
    <3>2. Rewritten(j, jobs, jobs')
      BY <1>1, <1>5, <1>6, <3>1, JobWritten
    <3> QED BY <3>2 DEF Rewritten
  <2>2. rj.there /\ ~rj.deleting => Kept(rj.uid, jobs')
    <3> SUFFICES ASSUME rj.there, ~rj.deleting PROVE Kept(rj.uid, jobs')
      OBVIOUS
    <3>1. rj.uid # copy.uid
      BY <1>1, <1>4 DEF CopyOK
    <3>2. /\ Made(rj.uid, jobs') = Made(rj.uid, jobs)
          /\ \A k \in Made(rj.uid, jobs) : jobs'[k] = jobs[k]
      BY <1>5, <2>1, <3>1 DEF Made, NoneMade
    <3> QED BY <1>1, <3>2 DEF OwnerOK, Kept, Held
  <2>3. /\ HistoryOK(jobs') /\ OwnerOK(rj, jobs') /\ ReportedOK(rj, jobs')
        /\ CopyOK(copy, rj, jobs')
    BY <1>1, <2>1, <2>2, HistoryStays, OwnerStays, ReportedStays, CopyStays
  <2>4. ContinuesSingle(PurgeNext(s), run[w], rj, jobs')
    <3>1. ContinuesSingle(PurgeNext(s), s, rj, jobs')
      BY <1>1, <1>4, <1>6, <2>1, <2>3, PurgeNextSingle
    <3> QED BY <1>6, <3>1 DEF ContinuesSingle
  <2> QED BY <1>1, <1>6, <2>1, <2>3, <2>4, AnsweredSingle
<1>7. jobs[j] \in Job /\ run[w].list[j] \in Job
  BY <1>1, <1>5 DEF Table
<1>8. CASE /\ WriteJob(j, StoredJob([jobs[j] EXCEPT !.fin = FALSE]))
           /\ Answered(w, PurgeNext([run[w] EXCEPT !.list[j].fin = FALSE]))
           /\ UNCHANGED objectVars
  <2> DEFINE s == [run[w] EXCEPT !.list[j].fin = FALSE]
  <2>1. s \in ReconcileRun /\ s.obj = copy
    <3>1. [run[w].list[j] EXCEPT !.fin = FALSE] \in Job
      BY <1>7 DEF Job
    <3> QED BY <1>1, <1>5, <3>1 DEF ReconcileRun
  <2>2. jobs[j].phase = "live" \/ StoredJob([jobs[j] EXCEPT !.fin = FALSE]).phase # "live"
    BY <1>7 DEF StoredJob, Job
  <2> HIDE DEF s, copy
  <2> QED BY <1>6, <1>8, <2>1, <2>2 DEF s
<1>9. CASE /\ Live(j)
           /\ WriteJob(j, [jobs[j] EXCEPT !.deleting = TRUE, !.fg = TRUE])
           /\ Answered(w, PurgeNext([run[w] EXCEPT !.list[j].deleting = TRUE]))
           /\ UNCHANGED objectVars
  <2> DEFINE s == [run[w] EXCEPT !.list[j].deleting = TRUE]
  <2>1. s \in ReconcileRun /\ s.obj = copy
    <3>1. [run[w].list[j] EXCEPT !.deleting = TRUE] \in Job
      BY <1>7 DEF Job
    <3> QED BY <1>1, <1>5, <3>1 DEF ReconcileRun
  <2> HIDE DEF s, copy
  <2> QED BY <1>6, <1>9, <2>1 DEF s, Live
<1> QED BY <1>2, <1>3, <1>8, <1>9

\* The object is given up only when no job is left.
LEMMA ClearFinalizerSingle ==
  ASSUME OneWorker, SingleInv, ReadyInv', NEW w \in Workers, ClearFinalizer(w)
  PROVE  SingleInv'
<1> DEFINE obj == Stored([rj EXCEPT !.fin = FALSE])
<1>1. /\ run[w].pc = "clearFinalizer"
      /\ run[w] \in ReconcileRun /\ RunOK(run[w], jobs) /\ run[w].obj \in ReactiveJob
      /\ jobs \in Table /\ rj \in ReactiveJob /\ rj.status.obs <= rj.gen
      /\ HistoryOK(jobs) /\ OwnerOK(rj, jobs) /\ ReportedOK(rj, jobs)
      /\ WorkerOK(run[w], rj, jobs) /\ CopyOK(run[w].obj, rj, jobs)
  BY SingleFacts DEF ClearFinalizer
<1>2. CASE NoEffect /\ (Continue(w, Fail(run[w])) \/ Disturbed(w))
  BY <1>1, <1>2, FailedCallSingle
<1>3. ASSUME CurrentReactiveJob(w), WriteReactiveJob(obj, {}),
             \/ Return(w) /\ UNCHANGED disturbances
             \/ Disturbed(w) /\ UNCHANGED jobs
      PROVE  SingleInv'
  <2>1. rj.there /\ SameObject(run[w].obj, rj)
    BY <1>1, <1>3 DEF SingleInv, ReadyInv, CopyIsCurrent, CurrentReactiveJob
  <2>2. rj.deleting /\ \A j \in JobNames : jobs[j].phase # "live"
    BY <1>1, <2>1 DEF WorkerOK, SameObject
  <2>3. [rj EXCEPT !.fin = FALSE] \in ReactiveJob
    BY <1>1 DEF ReactiveJob
  <2>4. obj \in ReactiveJob
    BY <2>3, StoredType
  <2>5. Succeeds(obj, rj)
    <3>1. CASE obj = [rj EXCEPT !.fin = FALSE]
      BY <1>1, <2>1, <3>1 DEF Succeeds, ReactiveJob
    <3>2. CASE obj = NoReactiveJob(rj.uid)
      BY <3>2 DEF Succeeds, NoReactiveJob
    <3>3. [rj EXCEPT !.fin = FALSE].uid = rj.uid
      BY <1>1 DEF ReactiveJob
    <3> QED BY <3>1, <3>2, <3>3 DEF Stored
  <2>6. rj' = obj /\ jobs' = jobs /\ rjHeld' = {}
    BY <1>3 DEF WriteReactiveJob, Return
  <2> HIDE DEF obj
  <2>7. OwnerOK(obj, jobs) /\ ReportedOK(obj, jobs) /\ CopyOK(run[w].obj, obj, jobs)
    BY <1>1, <2>2, <2>4, <2>5, OwnerSucceeds, ReportedSucceeds, CopySucceeds
  <2>8. CASE Return(w)
    BY <1>1, <2>6, <2>7, <2>8, WorkerGoesOn DEF Return, NoRun, WorkerOK
  <2>9. CASE Disturbed(w)
    <3>1. WorkerOK(Fail(run[w]), obj, jobs)
      BY <1>1, <2>4, <2>7, FailSingle
    <3>2. run' = [run EXCEPT ![w] = Fail(run[w])]
      BY <2>9 DEF Disturbed, SingleInv, ReadyInv, ControllerTypeOK
    <3> QED BY <1>1, <2>6, <2>7, <3>1, <3>2, WorkerGoesOn
  <2> QED BY <1>3, <2>8, <2>9
<1> QED BY <1>2, <1>3 DEF ClearFinalizer, Accepted

\* What Get reads is right as long as nothing else happens.
LEMMA GetSingle ==
  ASSUME OneWorker, SingleInv, ReadyInv', NEW w \in Workers, Get(w)
  PROVE  SingleInv'
<1>1. /\ rj' = rj /\ jobs' = jobs
      /\ jobs \in Table /\ rj \in ReactiveJob /\ rj.status \in ReactiveJobStatus
      /\ rj.status.obs <= rj.gen
      /\ run[w] \in ReconcileRun
      /\ HistoryOK(jobs) /\ OwnerOK(rj, jobs) /\ ReportedOK(rj, jobs)
  BY SingleFacts DEF Get
<1>2. CASE rj.there /\ Continue(w, FirstStep(Acknowledge(rj)))
  <2> DEFINE ack == Acknowledge(rj)
             r   == FirstStep(ack)
  <2>1. /\ ack \in ReactiveJob
        /\ SameObject(ack, rj)
        /\ ack.status.cur = rj.status.cur
    BY <1>1 DEF Acknowledge, SameObject, ReactiveJob, ReactiveJobStatus
  <2>2. CopyOK(ack, rj, jobs)
    BY <1>1, <1>2, <2>1 DEF CopyOK, SameObject, OwnerOK, NotAhead, ReactiveJob
  <2>3. BeforeDeletionOK(ack, jobs) /\ (ack.fin => HasFinalizer(ack, rj))
    BY <1>1, <1>2, <2>1
       DEF BeforeDeletionOK, HasFinalizer, SameObject, OwnerOK
  <2> HIDE DEF ack
  <2>4. CASE ack.status.state = None
    <3> DEFINE read == [NoRun EXCEPT !.obj = ack]
    <3>1. read \in ReconcileRun /\ read.obj = ack
      BY <2>1, EmptyValuesType DEF ReconcileRun
    <3>2. "New" \in ReactiveJobStates /\ "New" \notin Launching
      BY DEF ReactiveJobStates, Launching
    <3> HIDE DEF read
    <3>3. /\ WorkerOK(Report(read, "New"), rj, jobs)
          /\ Report(read, "New").obj.status.cur = ack.status.cur
      BY <1>1, <2>2, <3>1, <3>2, ReportSingle
    <3>4. r = Report(read, "New")
      BY <2>4 DEF FirstStep, read
    <3>5. WorkerOK(r, rj, jobs) /\ CurrentOK(r, rj, jobs)
      BY <2>1, <3>3, <3>4 DEF CurrentOK
    <3>6. run' = [run EXCEPT ![w] = r]
      BY <1>2 DEF Continue, ack
    <3> HIDE DEF r
    <3> QED BY <1>1, <3>5, <3>6, WorkerGoesOn
  <2>5. CASE ack.status.state # None
    <3>1. r = [NoRun EXCEPT !.pc = "list", !.obj = ack]
      BY <2>5 DEF FirstStep
    <3>2. r.pc = "list" /\ r.obj = ack
      BY <3>1 DEF NoRun
    <3> HIDE DEF r
    <3>3. WorkerOK(r, rj, jobs) /\ CurrentOK(r, rj, jobs)
      BY <2>1, <2>2, <2>3, <3>2 DEF WorkerOK, CurrentOK
    <3>4. run' = [run EXCEPT ![w] = r]
      BY <1>2 DEF Continue, r, ack
    <3> QED BY <1>1, <3>3, <3>4, WorkerGoesOn
  <2> QED BY <2>4, <2>5
<1>3. CASE UNCHANGED <<rjHeld, run>>
  BY <1>1, <1>3 DEF SingleInv
<1> QED BY <1>2, <1>3 DEF Get

\* Reconcile has ended.
LEMMA ReturnSingle ==
  ASSUME OneWorker, SingleInv, ReadyInv', NEW w \in Workers, Return(w),
         OwnerOK(rj', jobs), ReportedOK(rj', jobs)
  PROVE  SingleInv'
<1>1. jobs' = jobs /\ run' = [run EXCEPT ![w] = NoRun] /\ NoRun.pc = "idle"
  BY DEF Return, NoRun
<1> QED BY <1>1, WorkerGoesOn DEF SingleInv, WorkerOK

LEMMA UpdateStatusSingle ==
  ASSUME OneWorker, SingleInv, ReadyInv', NEW w \in Workers, UpdateStatus(w)
  PROVE  SingleInv'
<1>1. /\ run[w].pc = "status" /\ Return(w)
      /\ run[w] \in ReconcileRun /\ run[w].obj \in ReactiveJob
      /\ jobs \in Table /\ rj \in ReactiveJob
      /\ OwnerOK(rj, jobs) /\ ReportedOK(rj, jobs)
      /\ WorkerOK(run[w], rj, jobs)
  BY SingleFacts DEF UpdateStatus
<1>2. CASE /\ CurrentReactiveJob(w)
           /\ rj' = [rj EXCEPT !.status = run[w].obj.status]
  <2>1. rj.there /\ SameObject(run[w].obj, rj) /\ CurrentOK(run[w], rj, jobs)
    BY <1>1, <1>2 DEF SingleInv, ReadyInv, CopyIsCurrent, CurrentReactiveJob
  <2>2. SameObject(rj', rj) /\ rj'.status = run[w].obj.status
    BY <1>1, <1>2 DEF SameObject, ReactiveJob
  <2>3. OwnerOK(rj', jobs)
    BY <1>1, <2>2 DEF OwnerOK, NotAhead, SameObject
  <2>4. PendingOK(run[w], jobs)
    BY <1>1 DEF WorkerOK
  <2>5. rj'.status.cur # None => rj'.status.cur \in Made(rj'.uid, jobs)
    BY <1>1, <2>1, <2>2 DEF CurrentOK, ReportedOK, SameObject
  <2>6. ReportedOK(rj', jobs)
    BY <2>1, <2>2, <2>4, <2>5 DEF ReportedOK, PendingOK, Launched, SameObject
  <2> QED BY <1>1, <2>3, <2>6, ReturnSingle
<1>3. CASE rj' = rj
  BY <1>1, <1>3, ReturnSingle
<1> QED BY <1>2, <1>3 DEF UpdateStatus, objectVars

LEMMA CrashSingle ==
  ASSUME OneWorker, SingleInv, ReadyInv', NEW w \in Workers, Crash(w)
  PROVE  SingleInv'
BY ReturnSingle DEF Crash, SingleInv
-----------------------------------------------------------------------------
(* Users and the other controllers *)

LEMMA ObjectSingle ==
  ASSUME SingleInv, ReadyInv', UNCHANGED <<jobs, run>>, rjHeld' = {},
         Succeeds(rj', rj), KeepsFinalizer(rj', rj)
  PROVE  SingleInv'
<1>1. /\ jobs \in Table /\ rj \in ReactiveJob /\ rj' \in ReactiveJob
      /\ rj.status.obs <= rj.gen
      /\ \A w \in Workers : run[w] \in ReconcileRun
  BY DEF SingleInv, ReadyInv, ControllerTypeOK, ClusterTypeOK, Table, StatusOK
<1>2. OwnerOK(rj', jobs) /\ ReportedOK(rj', jobs)
  BY <1>1, OwnerSucceeds, ReportedSucceeds DEF SingleInv
<1>3. \A w \in Workers : WorkerOK(run[w], rj', jobs)
  BY <1>1, WorkerSucceeds DEF SingleInv
<1> QED BY <1>2, <1>3 DEF SingleInv

\* new is what users and other controllers make of obj: they leave the operator's
\* finalizer alone.
WrittenByOthers(new, obj) ==
  /\ new.there /\ obj.there
  /\ new.uid = obj.uid
  /\ new.fin = obj.fin
  /\ new.status = obj.status
  /\ \/ new.gen = obj.gen + 1
     \/ new.gen = obj.gen /\ new.tmpl = obj.tmpl
  /\ obj.deleting => new.deleting

LEMMA ObjectWrites ==
  ASSUME NEW obj \in ReactiveJob, NEW new, WrittenByOthers(new, obj)
  PROVE  /\ Succeeds(new, obj) /\ KeepsFinalizer(new, obj)
         /\ Succeeds(Stored(new), obj) /\ KeepsFinalizer(Stored(new), obj)
<1>1. obj.gen \in Nat
  BY DEF ReactiveJob
<1>2. obj.gen <= new.gen /\ (new.gen = obj.gen => new.tmpl = obj.tmpl)
  BY <1>1 DEF WrittenByOthers
<1>3. Succeeds(new, obj) /\ KeepsFinalizer(new, obj)
  BY <1>2 DEF Succeeds, KeepsFinalizer, WrittenByOthers
<1>4. CASE Stored(new) = new
  BY <1>3, <1>4
<1>5. CASE Stored(new) = NoReactiveJob(new.uid) /\ ~new.fin
  <2> DEFINE gone == NoReactiveJob(new.uid)
  <2>1. gone.there = FALSE /\ gone.uid = new.uid /\ gone.status = FreshStatus
    BY DEF NoReactiveJob
  <2>2. gone.uid = obj.uid /\ ~obj.fin
    BY <1>5, <2>1 DEF WrittenByOthers
  <2> HIDE DEF gone
  <2>3. Succeeds(gone, obj)
    BY <2>1, <2>2 DEF Succeeds
  <2>4. KeepsFinalizer(gone, obj)
    BY <2>2 DEF KeepsFinalizer
  <2> QED BY <1>3, <1>5, <2>3, <2>4 DEF gone
<1> QED BY <1>3, <1>4, <1>5 DEF Stored

LEMMA ObjectWritesSingle ==
  ASSUME SingleInv, ReadyInv', UNCHANGED run,
         \/ \E tmpl \in Templates, foreign \in Foreign : UserCreates(tmpl, foreign)
         \/ \E tmpl \in Templates : UserChangesTemplate(tmpl)
         \/ UserDeletes
         \/ ForeignFinalizerRemoved
         \/ ForeignFinalizerAdded
  PROVE  SingleInv'
<1>1. rj \in ReactiveJob /\ rj.uid \in Nat
  BY DEF SingleInv, ReadyInv, ControllerTypeOK, ClusterTypeOK, ReactiveJob
<1>2. UNCHANGED <<jobs, run>> /\ rjHeld' = {}
  BY DEF UserCreates, UserChangesTemplate, UserDeletes, ForeignFinalizerRemoved,
         ForeignFinalizerAdded, WriteReactiveJob
<1>3. ASSUME NEW tmpl \in Templates, NEW foreign \in Foreign,
             UserCreates(tmpl, foreign)
      PROVE  SingleInv'
  <2>1. /\ rj'.uid = rj.uid + 1 /\ rj'.there /\ rj'.status = FreshStatus
        /\ ~rj.there
    BY <1>3 DEF UserCreates, WriteReactiveJob, NewReactiveJob
  <2>2. Succeeds(rj', rj) /\ KeepsFinalizer(rj', rj)
    BY <1>1, <2>1 DEF Succeeds, KeepsFinalizer
  <2> QED BY <1>2, <2>2, ObjectSingle
<1>4. ASSUME NEW new, WrittenByOthers(new, rj), rj' = new \/ rj' = Stored(new)
      PROVE  SingleInv'
  BY <1>1, <1>2, <1>4, ObjectWrites, ObjectSingle
<1>5. ASSUME NEW tmpl \in Templates, UserChangesTemplate(tmpl) PROVE SingleInv'
  <2>1. /\ WrittenByOthers([rj EXCEPT !.gen = rj.gen + 1, !.tmpl = tmpl], rj)
        /\ rj' = [rj EXCEPT !.gen = rj.gen + 1, !.tmpl = tmpl]
    BY <1>1, <1>5
       DEF UserChangesTemplate, WriteReactiveJob, ReactiveJob, WrittenByOthers
  <2> QED BY <1>4, <2>1
<1>6. ASSUME UserDeletes PROVE SingleInv'
  <2>1. /\ WrittenByOthers([rj EXCEPT !.gen = rj.gen + 1, !.deleting = TRUE], rj)
        /\ rj' = Stored([rj EXCEPT !.gen = rj.gen + 1, !.deleting = TRUE])
    BY <1>1, <1>6 DEF UserDeletes, WriteReactiveJob, ReactiveJob, WrittenByOthers
  <2> QED BY <1>4, <2>1
<1>7. ASSUME ForeignFinalizerRemoved \/ ForeignFinalizerAdded PROVE SingleInv'
  <2>1. /\ \A foreign \in BOOLEAN :
             WrittenByOthers([rj EXCEPT !.foreign = foreign], rj)
        /\ \/ rj' = Stored([rj EXCEPT !.foreign = FALSE])
           \/ rj' = [rj EXCEPT !.foreign = TRUE]
    BY <1>1, <1>7
       DEF ForeignFinalizerRemoved, ForeignFinalizerAdded, WriteReactiveJob,
           ReactiveJob, WrittenByOthers
  <2> QED BY <1>4, <2>1
<1> QED BY <1>3, <1>5, <1>6, <1>7

\* A job ends, is deleted or collected, and keeps the operator's finalizer.
LEMMA JobWritesSingle ==
  ASSUME SingleInv, ReadyInv', UNCHANGED run, NEW j \in JobNames,
         \/ \E result \in Results : JobFinishes(j, result)
         \/ \E propagation \in Propagations : JobDeleted(j, propagation)
         \/ JobCollected(j)
  PROVE  SingleInv'
<1>1. /\ jobs \in Table /\ rj \in ReactiveJob /\ jobs' \in Table
      /\ UNCHANGED <<rj, rjHeld, run>> /\ jobs[j].phase = "live" /\ jobs[j] \in Job
  BY DEF SingleInv, ReadyInv, ControllerTypeOK, ClusterTypeOK, Table, objectVars,
         JobFinishes, JobDeleted, JobCollected, Live
<1>2. PICK job \in Job :
        /\ jobs' = [jobs EXCEPT ![j] = job]
        /\ job.phase # "unused" /\ job.uid = jobs[j].uid
        /\ job.gen = jobs[j].gen /\ job.tmpl = jobs[j].tmpl
        /\ jobs[j].fin => job.fin /\ job.phase = "live"
  <2> DEFINE Good(job) ==
        /\ job \in Job
        /\ job.phase # "unused" /\ job.uid = jobs[j].uid
        /\ job.gen = jobs[j].gen /\ job.tmpl = jobs[j].tmpl
        /\ jobs[j].fin => job.fin /\ job.phase = "live"
  <2>1. ASSUME NEW result \in Results, JobFinishes(j, result)
        PROVE  \E job : Good(job) /\ jobs' = [jobs EXCEPT ![j] = job]
    <3>1. Good([jobs[j] EXCEPT !.result = result])
      BY <1>1, ResultsAssumption DEF Job
    <3> QED BY <2>1, <3>1 DEF JobFinishes, WriteJob
  <2>2. ASSUME NEW propagation \in Propagations, JobDeleted(j, propagation)
        PROVE  \E job : Good(job) /\ jobs' = [jobs EXCEPT ![j] = job]
    <3>1. Good(StoredJob([jobs[j] EXCEPT !.deleting = TRUE,
                                         !.fg = propagation = "Foreground"]))
      BY <1>1 DEF Job, StoredJob
    <3> QED BY <2>2, <3>1 DEF JobDeleted, WriteJob
  <2>3. ASSUME JobCollected(j)
        PROVE  \E job : Good(job) /\ jobs' = [jobs EXCEPT ![j] = job]
    <3>1. Good(StoredJob([jobs[j] EXCEPT !.fg = FALSE]))
      BY <1>1 DEF Job, StoredJob
    <3> QED BY <2>3, <3>1 DEF JobCollected, WriteJob
  <2> QED BY <2>1, <2>2, <2>3
<1>3. /\ jobs'[j] = job /\ \A k \in JobNames \ {j} : jobs'[k] = jobs[k]
  BY <1>1, <1>2 DEF Table
<1>4. NoneMade(jobs, jobs') /\ KeepsHeld(jobs, jobs')
  BY <1>1, <1>2, <1>3 DEF NoneMade, KeepsHeld, Held
<1>5. rj.there /\ ~rj.deleting => Kept(rj.uid, jobs')
  BY <1>1, <1>4, KeptStays DEF SingleInv, OwnerOK
<1>6. HistoryOK(jobs') /\ OwnerOK(rj, jobs') /\ ReportedOK(rj, jobs')
  BY <1>1, <1>4, <1>5, HistoryStays, OwnerStays, ReportedStays DEF SingleInv
<1>7. \A w \in Workers :
        /\ WorkerOK(run[w], rj, jobs')
        /\ w \in rjHeld /\ run[w].pc # "idle" => CurrentOK(run[w], rj, jobs')
  BY <1>1, <1>4, WorkerStays, CurrentStays DEF SingleInv
<1> QED BY <1>1, <1>6, <1>7 DEF SingleInv

LEMMA EnvironmentSingle ==
  ASSUME SingleInv, ReadyInv', Environment, UNCHANGED run
  PROVE  SingleInv'
<1>1. CASE Acceptance
  <2>1. UNCHANGED <<rj, rjHeld, jobs, run>>
    BY <1>1 DEF Acceptance, TemplateRejected, TemplateAccepted, objectVars
  <2> QED BY <2>1 DEF SingleInv
<1>2. CASE Annotated
  <2>1. UNCHANGED <<rj, jobs, run>> /\ rjHeld' = {}
    BY <1>2 DEF Annotated
  <2> QED BY <2>1 DEF SingleInv
<1> QED BY <1>1, <1>2, ObjectWritesSingle, JobWritesSingle DEF Environment, Others
-----------------------------------------------------------------------------
(* The theorems *)

LEMMA SingleInvInit == Init => SingleInv
<1> SUFFICES ASSUME Init PROVE SingleInv
  OBVIOUS
<1>1. /\ rj = NoReactiveJob(0) /\ rjHeld = {}
      /\ jobs = [j \in JobNames |-> NoJob]
      /\ \A w \in Workers : run[w] = NoRun
  BY DEF Init, ClusterInit
<1>2. /\ ~rj.there /\ rj.status = FreshStatus
      /\ \A j \in JobNames : jobs[j].phase = "unused"
      /\ \A w \in Workers : run[w].pc = "idle"
  BY <1>1 DEF NoReactiveJob, NoJob, NoRun
<1>3. FreshStatus.cur = None /\ FreshStatus.state = None
  BY DEF FreshStatus
<1>4. None \notin Launching
  BY DEF Launching, None
<1>5. HistoryOK(jobs) /\ OwnerOK(rj, jobs)
  BY <1>2 DEF HistoryOK, OwnerOK
<1>6. ReportedOK(rj, jobs)
  BY <1>2, <1>3, <1>4 DEF ReportedOK
<1>7. \A w \in Workers : WorkerOK(run[w], rj, jobs)
  BY <1>2 DEF WorkerOK
<1> QED BY <1>1, <1>5, <1>6, <1>7, ReadyInvInit DEF SingleInv

LEMMA SingleInvNext ==
  ASSUME OneWorker, SingleInv, [Next]_vars
  PROVE  SingleInv'
<1>1. ReadyInv'
  BY ReadyInvNext DEF SingleInv
<1>2. ASSUME NEW w \in Workers, Reconcile(w) PROVE SingleInv'
  BY <1>1, <1>2, GetSingle, ListSingle, SetFinalizerSingle, CreateSingle,
     ReleaseSingle, PurgeSingle, ClearFinalizerSingle, UpdateStatusSingle
     DEF Reconcile
<1>3. ASSUME NEW w \in Workers, Crash(w) PROVE SingleInv'
  BY <1>1, <1>3, CrashSingle
<1>4. CASE Environment /\ UNCHANGED run
  BY <1>1, <1>4, EnvironmentSingle
<1>5. CASE UNCHANGED vars
  BY <1>1, <1>5 DEF vars, SingleInv
<1> QED BY <1>2, <1>3, <1>4, <1>5 DEF Next

\* With a single worker (internal/controllers with leader election) what it
\* concluded from its copy and its list still holds when it acts.
THEOREM SingleInvariance ==
  ASSUME OneWorker
  PROVE  Spec => []SingleInv
<1>1. SingleInv /\ [Next]_vars => SingleInv'
  BY SingleInvNext
<1> QED BY <1>1, SingleInvInit, PTL DEF Spec

\* SingleInv relates jobs by the object they were made for; Runs is of rj.
LEMMA NewestFacts ==
  ASSUME SingleInv
  PROVE  /\ Runs = Made(rj.uid, jobs)
         /\ \A j, k \in Runs : jobs[j].gen = jobs[k].gen => j = k
         /\ \A j \in JobNames : jobs[j].gen \in Nat
<1>1. Runs = Made(rj.uid, jobs)
  BY DEF Runs, Made, Used
<1>2. \A j, k \in Runs : jobs[j].gen = jobs[k].gen => j = k
  BY <1>1 DEF SingleInv, HistoryOK, Made
<1>3. \A j \in JobNames : jobs[j].gen \in Nat
  BY DEF SingleInv, ReadyInv, ControllerTypeOK, ClusterTypeOK, Job
<1> QED BY <1>1, <1>2, <1>3

\* No retry of Reconcile ever makes a second job for a generation.
THEOREM OneRunPerGeneration ==
  ASSUME OneWorker
  PROVE  Spec => []AtMostOneRun
<1>1. SingleInv => AtMostOneRun
  BY DEF SingleInv, HistoryOK, Made, AtMostOneRun, Used
<1> QED BY <1>1, SingleInvariance, PTL

\* Reconcile makes a job only if the template changed since the last one.
THEOREM RunsOnlyChanges ==
  ASSUME OneWorker
  PROVE  Spec => []NoRedundantRun
<1>1. SingleInv => NoRedundantRun
  <2> SUFFICES ASSUME SingleInv, NEW j \in JobNames, NEW k \in JobNames,
                      Used(j), Used(k), jobs[j].uid = jobs[k].uid,
                      jobs[j].gen < jobs[k].gen,
                      \A i \in JobNames :
                        Used(i) /\ jobs[i].uid = jobs[j].uid =>
                          jobs[i].gen <= jobs[j].gen \/ jobs[k].gen <= jobs[i].gen,
                      jobs[j].tmpl = jobs[k].tmpl
               PROVE  FALSE
    BY DEF NoRedundantRun
  <2>1. k \in Made(jobs[j].uid, jobs)
    BY DEF Made, Used
  <2>2. PICK i \in Made(jobs[j].uid, jobs) :
          jobs[j].gen < jobs[i].gen /\ jobs[i].gen < jobs[k].gen
    BY <2>1 DEF SingleInv, HistoryOK, Used
  <2>3. jobs[i].gen <= jobs[j].gen \/ jobs[k].gen <= jobs[i].gen
    BY <2>2 DEF Made, Used
  <2>4. jobs[i].gen \in Nat /\ jobs[j].gen \in Nat /\ jobs[k].gen \in Nat
    BY <2>2, NewestFacts DEF Made
  <2> QED BY <2>2, <2>3, <2>4
<1> QED BY <1>1, SingleInvariance, PTL

\* The newest job of an object nobody deletes is there, whatever the TTL does.
THEOREM NewestRunIsKept ==
  ASSUME OneWorker
  PROVE  Spec => []NewestIsKept
<1>1. SingleInv => NewestIsKept
  <2> SUFFICES ASSUME SingleInv, rj.there, ~rj.deleting,
                      NEW j \in Newest(Runs, jobs)
               PROVE  Live(j) /\ jobs[j].fin
    BY DEF NewestIsKept
  <2>1. j \in Runs /\ \A k \in Runs : jobs[k].gen <= jobs[j].gen
    BY DEF Newest
  <2>2. PICK k \in Runs : Held(k, jobs) /\ jobs[j].gen <= jobs[k].gen
    BY <2>1, NewestFacts DEF SingleInv, OwnerOK, Kept
  <2>3. jobs[j].gen \in Nat /\ jobs[k].gen \in Nat
    BY <2>1, <2>2, NewestFacts DEF Runs
  <2>4. j = k
    BY <2>1, <2>2, <2>3, NewestFacts
  <2> QED BY <2>2, <2>4 DEF Held, Live
<1> QED BY <1>1, SingleInvariance, PTL

\* No job outlives the finalizer of its ReactiveJob.
THEOREM JobsHaveOwners ==
  ASSUME OneWorker
  PROVE  Spec => []NoOrphan
<1>1. SingleInv => NoOrphan
  BY DEF SingleInv, OwnerOK, NoOrphan, Live
<1> QED BY <1>1, SingleInvariance, PTL

\* An acknowledged generation that is in processing or ready has been launched.
THEOREM AcknowledgedHasRun ==
  ASSUME OneWorker
  PROVE  Spec => []AcknowledgedIsLaunched
<1>1. SingleInv => AcknowledgedIsLaunched
  <2> SUFFICES ASSUME SingleInv, rj.status.state \in {"Processing", "Ready"},
                      rj.status.obs = rj.gen
               PROVE  /\ Runs # {}
                      /\ \A j \in Newest(Runs, jobs) : jobs[j].tmpl = rj.tmpl
    BY DEF AcknowledgedIsLaunched
  <2>1. PICK k \in Runs : /\ jobs[k].tmpl = rj.tmpl
                          /\ \A j \in Runs : jobs[j].gen <= jobs[k].gen
    BY NewestFacts DEF SingleInv, ReportedOK, Launching, Launched
  <2>2. ASSUME NEW j \in Newest(Runs, jobs) PROVE j = k
    <3>1. j \in Runs /\ jobs[k].gen <= jobs[j].gen
      BY <2>1 DEF Newest
    <3>2. jobs[j].gen \in Nat /\ jobs[k].gen \in Nat
      BY <2>1, <3>1, NewestFacts DEF Runs
    <3> QED BY <2>1, <3>1, <3>2, NewestFacts
  <2> QED BY <2>1, <2>2
<1> QED BY <1>1, SingleInvariance, PTL

\* Only the status update writes the current job of an object.
LEMMA StatusWrites ==
  ASSUME SingleInv, [Next]_vars
  PROVE  \/ ~rj'.there
         \/ rj'.uid # rj.uid
         \/ rj'.status = rj.status
         \/ \E w \in Workers : UpdateStatus(w) /\ CurrentReactiveJob(w)
<1>1. rj \in ReactiveJob /\ rj.uid + 1 # rj.uid
  BY DEF SingleInv, ReadyInv, ControllerTypeOK, ClusterTypeOK, ReactiveJob
<1>2. ASSUME NEW obj, obj.status = rj.status
      PROVE  Stored(obj).there => Stored(obj).status = rj.status
  BY <1>2 DEF Stored, NoReactiveJob
<1>3. ASSUME NEW w \in Workers, Reconcile(w), ~UpdateStatus(w)
      PROVE  rj'.there => rj'.status = rj.status
  <2>1. /\ [rj EXCEPT !.fin = TRUE].status = rj.status
        /\ [rj EXCEPT !.fin = FALSE].status = rj.status
    BY <1>1 DEF ReactiveJob
  <2>2. \/ rj' = rj
        \/ rj' = [rj EXCEPT !.fin = TRUE]
        \/ rj' = Stored([rj EXCEPT !.fin = FALSE])
    BY <1>3 DEF Reconcile, Get, ListJobs, SetFinalizer, CreateJob, ReleaseJob,
       PurgeJob, ClearFinalizer, NoEffect, WriteReactiveJob, objectVars
  <2> QED BY <1>2, <2>1, <2>2
<1>4. ASSUME NEW w \in Workers, UpdateStatus(w), ~CurrentReactiveJob(w)
      PROVE  rj' = rj
  BY <1>4 DEF UpdateStatus, objectVars
<1>5. ASSUME NEW w \in Workers, Crash(w) PROVE rj' = rj
  BY <1>5 DEF Crash
<1>6. CASE Environment
  <2>1. ASSUME NEW tmpl \in Templates, NEW foreign \in Foreign,
               UserCreates(tmpl, foreign)
        PROVE  rj'.uid # rj.uid
    BY <1>1, <2>1 DEF UserCreates, WriteReactiveJob, NewReactiveJob
  <2>2. ASSUME NEW tmpl \in Templates, UserChangesTemplate(tmpl)
        PROVE  rj'.status = rj.status
    BY <1>1, <2>2 DEF UserChangesTemplate, WriteReactiveJob, ReactiveJob
  <2>3. ASSUME UserDeletes PROVE rj'.there => rj'.status = rj.status
    <3>1. [rj EXCEPT !.gen = rj.gen + 1, !.deleting = TRUE].status = rj.status
      BY <1>1 DEF ReactiveJob
    <3> QED BY <1>1, <1>2, <2>3, <3>1 DEF UserDeletes, WriteReactiveJob, ReactiveJob
  <2>4. ASSUME ForeignFinalizerRemoved \/ ForeignFinalizerAdded
        PROVE  rj'.there => rj'.status = rj.status
    <3>1. /\ [rj EXCEPT !.foreign = FALSE].status = rj.status
          /\ [rj EXCEPT !.foreign = TRUE].status = rj.status
      BY <1>1 DEF ReactiveJob
    <3> QED BY <1>2, <2>4, <3>1
         DEF ForeignFinalizerRemoved, ForeignFinalizerAdded, WriteReactiveJob
  <2>5. CASE \/ Acceptance \/ Annotated
             \/ \E j \in JobNames, result \in Results : JobFinishes(j, result)
             \/ \E j \in JobNames, propagation \in Propagations : JobDeleted(j, propagation)
             \/ \E j \in JobNames : JobCollected(j)
    BY <2>5 DEF Acceptance, TemplateRejected, TemplateAccepted, Annotated,
       JobFinishes, JobDeleted, JobCollected, objectVars
  <2> QED BY <1>6, <2>1, <2>2, <2>3, <2>4, <2>5 DEF Environment, Others
<1>7. CASE UNCHANGED vars
  BY <1>7 DEF vars
<1> QED BY <1>3, <1>4, <1>5, <1>6, <1>7 DEF Next

\* currentJobName only ever moves on to a newer job.
THEOREM CurrentOnlyAdvances ==
  ASSUME OneWorker
  PROVE  Spec => CurrentNeverRegresses
<1> DEFINE Advances ==
      rj'.uid = rj.uid /\ rj'.status.cur # rj.status.cur /\ rj.status.cur # None
        => /\ rj'.there => rj'.status.cur # None
           /\ rj'.there => jobs[rj.status.cur].gen <= jobs'[rj'.status.cur].gen
<1>1. SingleInv /\ [Next]_vars => [Advances]_vars
  <2> SUFFICES ASSUME SingleInv, [Next]_vars, rj'.uid = rj.uid, rj'.there,
                      rj'.status.cur # rj.status.cur, rj.status.cur # None
               PROVE  /\ rj'.status.cur # None
                      /\ jobs[rj.status.cur].gen <= jobs'[rj'.status.cur].gen
    OBVIOUS
  <2>1. PICK w \in Workers : UpdateStatus(w) /\ CurrentReactiveJob(w)
    BY StatusWrites
  <2>2. jobs' = jobs /\ run[w].pc = "status" /\ rj \in ReactiveJob
    BY <2>1, SingleFacts DEF UpdateStatus, Return
  <2>3. rj'.status = run[w].obj.status
    BY <2>1, <2>2 DEF UpdateStatus, CurrentReactiveJob, ReactiveJob
  <2>4. /\ run[w].obj.uid = rj.uid
        /\ CurrentOK(run[w], rj, jobs)
    BY <2>1, <2>2 DEF SingleInv, ReadyInv, CopyIsCurrent, CurrentReactiveJob, SameObject
  <2>5. /\ rj'.status.cur \in Made(rj.uid, jobs)
        /\ \A j \in Made(rj.uid, jobs) : jobs[j].gen <= jobs[rj'.status.cur].gen
    BY <2>3, <2>4 DEF CurrentOK
  <2>6. rj.status.cur \in Made(rj.uid, jobs)
    BY DEF SingleInv, ReportedOK
  <2> QED BY <2>2, <2>5, <2>6, NamesAssumption DEF Made
<1> QED BY <1>1, SingleInvariance, PTL DEF Spec, CurrentNeverRegresses
=============================================================================
