-------------------- MODULE ReactiveJobAnnotations_proofs --------------------
(***************************************************************************)
(* Proofs about a single worker whose annotations need not read as it      *)
(* wrote them, for any templates, job names and bounds: the newest job is  *)
(* kept, and no job outlives its ReactiveJob, whatever panics.             *)
(***************************************************************************)
EXTENDS ReactiveJobAnnotations, ReactiveJobSingle_proofs, FiniteSetTheorems

-----------------------------------------------------------------------------
(* The order of the list *)

LEMMA NatMinimum ==
  ASSUME NEW S, S \subseteq Nat, S # {}
  PROVE  \E x \in S : \A y \in S : x <= y
<1>1. PICK x \in S : \A y \in S : <<y, x>> \notin OpToRel(<, Nat)
  BY NatLessThanWellFounded, WFMin
<1>2. \A y \in S : ~(y < x)
  BY <1>1 DEF OpToRel
<1> QED BY <1>2

\* There are ranks for the names, since there are finitely many.
LEMMA NameOrderFacts ==
  /\ \A j \in JobNames : NameOrder[j] \in Nat
  /\ \A j, k \in JobNames : NameOrder[j] = NameOrder[k] => j = k
<1> DEFINE size == Cardinality(JobNames)
           Ranks == [JobNames -> 1..size]
           Apart(rank) == \A j, k \in JobNames : rank[j] = rank[k] => j = k
<1>1. size \in Nat /\ ExistsBijection(1..size, JobNames)
  BY FiniteNamesAssumption, FS_CardinalityType
<1>2. PICK f \in [1..size -> JobNames] : \A j \in JobNames : \E i \in 1..size : f[i] = j
  BY <1>1 DEF ExistsBijection, Bijection, Surjection
<1> DEFINE place == [j \in JobNames |-> CHOOSE i \in 1..size : f[i] = j]
<1>3. \A j \in JobNames : place[j] \in 1..size /\ f[place[j]] = j
  BY <1>2
<1>4. place \in Ranks /\ Apart(place)
  BY <1>3
<1>5. NameOrder \in Ranks /\ Apart(NameOrder)
  <2> HIDE DEF place
  <2>1. \E rank \in Ranks : Apart(rank)
    BY <1>4
  <2> HIDE DEF size
  <2>2. NameOrder = CHOOSE rank \in Ranks : Apart(rank)
    BY DEF NameOrder, size
  <2> HIDE DEF Ranks, Apart
  <2> QED BY <2>1, <2>2
<1> QED BY <1>1, <1>5

\* j comes before every other job of S in the sorted list.
Heads(j, S, table) ==
  /\ j \in S
  /\ \A k \in S \ {j} : /\ table[k].gen <= table[j].gen
                        /\ table[k].gen = table[j].gen => NameOrder[j] < NameOrder[k]

LEMMA HeadExists ==
  ASSUME NEW table \in Table, NEW S \in SUBSET JobNames, S # {},
         NEW bound \in Nat, \A j \in S : table[j].gen <= bound
  PROVE  \E j \in S : Heads(j, S, table)
<1>1. \A j \in JobNames : table[j].gen \in Nat
  BY DEF Table, Job
<1> DEFINE Rests == {bound - table[j].gen : j \in S}
<1>2. Rests \subseteq Nat /\ Rests # {}
  BY <1>1
<1>3. PICK top \in S : \A k \in S : table[k].gen <= table[top].gen
  <2>1. PICK x \in Rests : \A y \in Rests : x <= y
    BY <1>2, NatMinimum
  <2>2. PICK j \in S : x = bound - table[j].gen
    BY <2>1
  <2>3. \A k \in S : bound - table[j].gen <= bound - table[k].gen
    BY <2>1, <2>2
  <2> QED BY <1>1, <2>3
<1> DEFINE Tops == {j \in S : table[j].gen = table[top].gen}
           Ranks == {NameOrder[j] : j \in Tops}
<1>4. Ranks \subseteq Nat /\ Ranks # {}
  BY NameOrderFacts
<1>5. PICK j \in Tops : \A k \in Tops : NameOrder[j] <= NameOrder[k]
  <2>1. PICK x \in Ranks : \A y \in Ranks : x <= y
    BY <1>4, NatMinimum
  <2> QED BY <2>1
<1>6. \A k \in S \ {j} : table[k].gen = table[j].gen => NameOrder[j] < NameOrder[k]
  BY <1>5, NameOrderFacts
<1> QED BY <1>3, <1>5, <1>6 DEF Heads

\* A sort that does not panic puts that job first: an annotation that cannot be read
\* is only there if it is of the one job of the list.
LEMMA SortedFirstFacts ==
  ASSUME jobs \in Table, NEW deps \in SUBSET JobNames, deps # {}, ~SortPanics(deps),
         NEW bound \in Nat, \A j \in deps : jobs[j].gen <= bound
  PROVE  Heads(SortedFirst(deps), deps, jobs)
<1>1. IsFiniteSet(deps) /\ Cardinality(deps) \in Nat
  BY FiniteNamesAssumption, FS_Subset, FS_CardinalityType
<1> DEFINE IsFirst(j) == \A k \in deps \ {j} : Before(j, k)
<1>2. SortedFirst(deps) = CHOOSE j \in deps : IsFirst(j)
  BY DEF SortedFirst
<1>3. CASE Cardinality(deps) <= 1
  <2>1. Cardinality(deps) = 1
    BY <1>1, <1>3, FS_EmptySet
  <2>2. PICK j : deps = {j}
    BY <1>1, <2>1, FS_Singleton
  <2>3. IsFirst(j)
    BY <2>2
  <2>4. SortedFirst(deps) = j
    <3> HIDE DEF IsFirst
    <3> QED BY <1>2, <2>2, <2>3
  <2> QED BY <2>2, <2>4 DEF Heads
<1>4. CASE ~(Cardinality(deps) <= 1)
  <2>1. deps \cap damaged = {}
    BY <1>1, <1>4 DEF SortPanics
  <2>2. \A j \in deps : GenerationRead(j) = jobs[j].gen
    BY <2>1 DEF GenerationRead
  <2>3. PICK j \in deps : Heads(j, deps, jobs)
    BY HeadExists
  <2>4. \A k \in JobNames : jobs[k].gen \in Nat /\ NameOrder[k] \in Nat
    BY NameOrderFacts DEF Table, Job
  <2>5. IsFirst(j)
    BY <2>2, <2>3, <2>4 DEF Heads, Before
  <2>6. SortedFirst(deps) \in deps /\ IsFirst(SortedFirst(deps))
    <3> HIDE DEF IsFirst
    <3> QED BY <1>2, <2>3, <2>5
  <2> QED BY <2>2, <2>4, <2>6 DEF Heads, Before
<1> QED BY <1>3, <1>4
-----------------------------------------------------------------------------
(* What Reconcile computes keeps ListWorkerOK *)

\* What comes after old is the same copy, and sound.
ContinuesListed(new, old, obj, table) ==
  /\ new \in ReconcileRun
  /\ ListWorkerOK(new, obj, table)
  /\ new.pc # "idle" => SameObject(new.obj, old.obj)

\* The status that is about to be written is no part of the invariant.
LEMMA StatusListed ==
  ASSUME NEW table \in Table, NEW obj \in ReactiveJob, NEW r \in ReconcileRun,
         EarlierOK(r.obj, obj, table), NEW new \in ReconcileRun,
         new.pc = "status", SameObject(new.obj, r.obj), new.list = NoRun.list,
         new.first = None
  PROVE  ContinuesListed(new, r, obj, table)
<1>1. ListOK(new, table)
  BY DEF ListOK, Listed, NoRun, NoJob
<1>2. EarlierOK(new.obj, obj, table)
  BY DEF EarlierOK, NoneAhead, SameObject
<1> QED BY <1>1, <1>2 DEF ContinuesListed, ListWorkerOK

LEMMA ReportListed ==
  ASSUME NEW table \in Table, NEW obj \in ReactiveJob, NEW r \in ReconcileRun,
         EarlierOK(r.obj, obj, table), NEW state \in ReactiveJobStates
  PROVE  ContinuesListed(Report(r, state), r, obj, table)
<1> DEFINE new == Report(r, state)
<1>1. /\ new \in ReconcileRun /\ new.pc = "status"
      /\ new.obj = [r.obj EXCEPT !.status = SetState(r.obj.status, state)]
  BY ReportFacts
<1>2. new.list = NoRun.list /\ new.first = None
  BY DEF Report, WithoutList, ReconcileRun
<1>3. SameObject(new.obj, r.obj)
  BY <1>1 DEF SameObject, ReconcileRun, ReactiveJob
<1> HIDE DEF new
<1>4. ContinuesListed(new, r, obj, table)
  BY <1>1, <1>2, <1>3, StatusListed
<1> QED BY <1>4 DEF new

LEMMA FailListed ==
  ASSUME NEW table \in Table, NEW obj \in ReactiveJob, NEW r \in ReconcileRun,
         EarlierOK(r.obj, obj, table)
  PROVE  ContinuesListed(Fail(r), r, obj, table)
BY ReportListed DEF Fail, ReactiveJobStates

LEMMA PanicListed ==
  ASSUME NEW table \in Table, NEW obj \in ReactiveJob, NEW r \in ReconcileRun,
         EarlierOK(r.obj, obj, table)
  PROVE  ContinuesListed(Panic(r), r, obj, table)
<1> DEFINE new == Panic(r)
<1>1. /\ new \in ReconcileRun /\ new.pc = "status" /\ new.obj = r.obj
      /\ new.list = NoRun.list /\ new.first = None
  BY EmptyValuesType DEF Panic, WithoutList, ReconcileRun, Calls
<1>2. SameObject(new.obj, r.obj)
  BY <1>1 DEF SameObject
<1> HIDE DEF new
<1>3. ContinuesListed(new, r, obj, table)
  BY <1>1, <1>2, StatusListed
<1> QED BY <1>3 DEF new

LEMMA ReportJobListed ==
  ASSUME NEW table \in Table, NEW obj \in ReactiveJob, NEW r \in ReconcileRun,
         EarlierOK(r.obj, obj, table), r.first \in JobNames
  PROVE  ContinuesListed(ReportJob(r), r, obj, table)
<1> DEFINE named == [r EXCEPT !.obj.status.cur = r.first]
           outcome == Outcome(r.list[r.first])
<1>1. outcome \in ReactiveJobStates
  BY DEF Outcome, ReactiveJobStates
<1>2. r.obj \in ReactiveJob /\ r.obj.status \in ReactiveJobStatus
  BY DEF ReconcileRun, ReactiveJob
<1>3. named \in ReconcileRun /\ SameObject(named.obj, r.obj)
  BY <1>2 DEF ReconcileRun, ReactiveJob, ReactiveJobStatus, SameObject
<1>4. EarlierOK(named.obj, obj, table)
  BY <1>3 DEF EarlierOK, NoneAhead, SameObject
<1>5. ReportJob(r) = Report(named, outcome)
  BY DEF ReportJob
<1> HIDE DEF named, outcome
<1>6. ContinuesListed(Report(named, outcome), named, obj, table)
  BY <1>1, <1>3, <1>4, ReportListed
<1> QED BY <1>3, <1>5, <1>6 DEF ContinuesListed, SameObject

\* Whether a job is left to release or not, the head of the list is spared.
LEMMA ReleaseNextListed ==
  ASSUME NEW table \in Table, NEW obj \in ReactiveJob, NEW r \in ReconcileRun,
         ListOK(r, table), EarlierOK(r.obj, obj, table),
         HeadBeforeDeletion(r.obj, table), HasFinalizer(r.obj, obj), r.obj.fin,
         IsHead(r.first, r.obj.uid, table), r.todo \subseteq Listed(r) \ {r.first}
  PROVE  ContinuesListed(ReleaseNext(r), r, obj, table)
<1>1. CASE r.todo = {}
  <2>1. r.first \in JobNames
    BY DEF IsHead, Made
  <2> QED BY <1>1, <2>1, ReportJobListed DEF ReleaseNext
<1>2. CASE r.todo # {}
  <2> DEFINE new == [r EXCEPT !.pc = "release"]
  <2>1. /\ new \in ReconcileRun /\ new.pc = "release" /\ new.obj = r.obj
        /\ new.first = r.first /\ new.todo = r.todo /\ new.list = r.list
    BY DEF ReconcileRun, Calls
  <2>2. new = ReleaseNext(r)
    BY <1>2 DEF ReleaseNext
  <2> HIDE DEF new
  <2>3. ListOK(new, table) /\ new.todo \subseteq Listed(new) \ {new.first}
    BY <2>1 DEF ListOK, Listed
  <2> QED BY <2>1, <2>2, <2>3 DEF ContinuesListed, ListWorkerOK, SameObject
<1> QED BY <1>1, <1>2

\* A job is created only before the deletion and after the finalizer.
LEMMA CreateOrUpdateListed ==
  ASSUME NEW table \in Table, NEW obj \in ReactiveJob, NEW r \in ReconcileRun,
         ListOK(r, table), EarlierOK(r.obj, obj, table),
         HeadBeforeDeletion(r.obj, table), HasFinalizer(r.obj, obj),
         r.obj.fin, ~r.obj.deleting,
         r.first # None => IsHead(r.first, r.obj.uid, table)
  PROVE  ContinuesListed(CreateOrUpdate(r), r, obj, table)
<1>1. CASE NeedsJob(r)
  <2> DEFINE new == [WithoutList(r) EXCEPT !.pc = "create"]
  <2>1. /\ new \in ReconcileRun /\ new.pc = "create" /\ new.obj = r.obj
        /\ new.list = NoRun.list /\ new.first = None
    BY EmptyValuesType DEF WithoutList, ReconcileRun, Calls
  <2>2. new = CreateOrUpdate(r)
    BY <1>1 DEF CreateOrUpdate
  <2> HIDE DEF new
  <2>3. ListOK(new, table)
    BY <2>1 DEF ListOK, Listed, NoRun, NoJob
  <2> QED BY <2>1, <2>2, <2>3 DEF ContinuesListed, ListWorkerOK, SameObject
<1>2. CASE ~NeedsJob(r)
  <2> DEFINE new == [r EXCEPT !.todo = Superseded(r)]
  <2>1. /\ new \in ReconcileRun /\ new.obj = r.obj
        /\ new.list = r.list /\ new.first = r.first /\ new.todo = Superseded(r)
    BY DEF ReconcileRun, Superseded, Listed
  <2>2. ReleaseNext(new) = CreateOrUpdate(r)
    BY <1>2 DEF CreateOrUpdate
  <2> HIDE DEF new
  <2>3. ListOK(new, table) /\ new.todo \subseteq Listed(new) \ {new.first}
    BY <2>1 DEF ListOK, Listed, Superseded
  <2>4. r.first # None
    BY <1>2 DEF NeedsJob
  <2>5. ContinuesListed(ReleaseNext(new), new, obj, table)
    BY <2>1, <2>3, <2>4, ReleaseNextListed
  <2> QED BY <2>1, <2>2, <2>5 DEF ContinuesListed
<1> QED BY <1>1, <1>2

LEMMA PurgeNextListed ==
  ASSUME NEW table \in Table, NEW obj \in ReactiveJob, NEW r \in ReconcileRun,
         ListOK(r, table), EarlierOK(r.obj, obj, table), r.obj.deleting,
         r.obj.fin => HasFinalizer(r.obj, obj)
  PROVE  ContinuesListed(PurgeNext(r), r, obj, table)
<1>1. CASE ToPurge(r) = {}
  BY <1>1, ReportListed DEF PurgeNext, ReactiveJobStates
<1>2. CASE ToPurge(r) # {}
  <2> DEFINE new == [r EXCEPT !.pc = "purge", !.todo = ToPurge(r)]
  <2>1. /\ new \in ReconcileRun /\ new.pc = "purge" /\ new.obj = r.obj
        /\ new.list = r.list /\ new.first = r.first /\ new.todo = ToPurge(r)
    BY DEF ReconcileRun, Calls, ToPurge, Listed
  <2>2. new = PurgeNext(r)
    BY <1>2 DEF PurgeNext
  <2> HIDE DEF new
  <2>3. ListOK(new, table) /\ new.todo \subseteq Listed(new)
    BY <2>1 DEF ListOK, Listed, ToPurge
  <2> QED BY <2>1, <2>2, <2>3 DEF ContinuesListed, ListWorkerOK, SameObject
<1> QED BY <1>1, <1>2

LEMMA NoRunListed ==
  ASSUME NEW r, NEW obj, NEW table
  PROVE  ContinuesListed(NoRun, r, obj, table)
<1>1. NoRun \in ReconcileRun /\ NoRun.pc = "idle"
  BY EmptyValuesType DEF NoRun
<1> QED BY <1>1 DEF ContinuesListed, ListWorkerOK

\* r carries the list as it was just read, and sorted without a panic.
SortedList(r, table) ==
  /\ \A j \in JobNames :
       j \in Listed(r) <=> j \in Made(r.obj.uid, table) /\ table[j].phase = "live"
  /\ ~r.obj.deleting /\ r.first # None => IsHead(r.first, r.obj.uid, table)

LEMMA DeleteListed ==
  ASSUME NEW table \in Table, NEW obj \in ReactiveJob, NEW r \in ReconcileRun,
         ListOK(r, table), EarlierOK(r.obj, obj, table), HeadOwnerOK(obj, table),
         SortedList(r, table), r.obj.deleting, r.obj.fin => HasFinalizer(r.obj, obj)
  PROVE  ContinuesListed(Delete(r), r, obj, table)
<1>1. CASE Listed(r) # {}
  BY <1>1, PurgeNextListed DEF Delete
<1>2. CASE Listed(r) = {} /\ r.obj.fin
  <2> DEFINE new == [r EXCEPT !.pc = "clearFinalizer"]
  <2>1. /\ new \in ReconcileRun /\ new.pc = "clearFinalizer" /\ new.obj = r.obj
        /\ new.list = r.list /\ new.first = r.first
    BY DEF ReconcileRun, Calls
  <2>2. new = Delete(r)
    BY <1>2 DEF Delete
  <2> HIDE DEF new
  <2>3. ListOK(new, table)
    BY <2>1 DEF ListOK, Listed
  <2>4. \A j \in JobNames : table[j].phase # "live"
    BY <1>2 DEF HeadOwnerOK, SortedList, HasFinalizer, Made
  <2> QED BY <1>2, <2>1, <2>2, <2>3, <2>4 DEF ContinuesListed, ListWorkerOK, SameObject
<1>3. CASE Listed(r) = {} /\ ~r.obj.fin
  BY <1>3, NoRunListed DEF Delete
<1> QED BY <1>1, <1>2, <1>3

LEMMA DispatchListed ==
  ASSUME NEW table \in Table, NEW obj \in ReactiveJob, NEW r \in ReconcileRun,
         r.pc = "list", ListWorkerOK(r, obj, table), HeadOwnerOK(obj, table),
         SortedList(r, table)
  PROVE  ContinuesListed(Dispatch(r), r, obj, table)
<1>1. /\ ListOK(r, table) /\ EarlierOK(r.obj, obj, table)
      /\ HeadBeforeDeletion(r.obj, table)
      /\ r.obj.fin => HasFinalizer(r.obj, obj)
  BY DEF ListWorkerOK
<1>2. CASE ~r.obj.deleting /\ r.obj.fin
  BY <1>1, <1>2, CreateOrUpdateListed DEF Dispatch, SortedList
<1>3. CASE ~r.obj.deleting /\ ~r.obj.fin
  <2> DEFINE new == [r EXCEPT !.pc = "setFinalizer"]
  <2>1. /\ new \in ReconcileRun /\ new.pc = "setFinalizer" /\ new.obj = r.obj
        /\ new.list = r.list /\ new.first = r.first
    BY DEF ReconcileRun, Calls
  <2>2. new = Dispatch(r)
    BY <1>3 DEF Dispatch
  <2> HIDE DEF new
  <2>3. ListOK(new, table)
    BY <1>1, <2>1 DEF ListOK, Listed
  <2> QED
    BY <1>1, <1>3, <2>1, <2>2, <2>3 DEF ContinuesListed, ListWorkerOK, SameObject
<1>4. CASE r.obj.deleting /\ r.obj.foreign
  BY <1>1, <1>4, ReportListed DEF Dispatch, ReactiveJobStates
<1>5. CASE r.obj.deleting /\ ~r.obj.foreign
  BY <1>1, <1>5, DeleteListed DEF Dispatch
<1> QED BY <1>2, <1>3, <1>4, <1>5
-----------------------------------------------------------------------------
(* What becomes of the facts when jobs or the object change *)

\* NoneMade, of two tables whose hashes may be read differently.
SameRuns(table, later) ==
  \A j \in JobNames :
    /\ later[j].phase = "unused" <=> table[j].phase = "unused"
    /\ later[j].phase = "live" => table[j].phase = "live"
    /\ later[j].uid = table[j].uid
    /\ later[j].gen = table[j].gen

LEMMA MadeStays ==
  ASSUME NEW table \in Table, NEW later \in Table, SameRuns(table, later)
  PROVE  \A uid : Made(uid, later) = Made(uid, table)
BY DEF Made, SameRuns

LEMMA HeadStays ==
  ASSUME NEW table \in Table, NEW later \in Table, SameRuns(table, later),
         NEW uid, NEW k, IsHead(k, uid, table), Held(k, later)
  PROVE  IsHead(k, uid, later)
<1>1. Made(uid, later) = Made(uid, table)
  BY MadeStays
<1> QED BY <1>1 DEF IsHead, Made, SameRuns

LEMMA HeadKeptStays ==
  ASSUME NEW table \in Table, NEW later \in Table, SameRuns(table, later),
         KeepsHeld(table, later), NEW uid, HeadKept(uid, table)
  PROVE  HeadKept(uid, later)
<1>1. Made(uid, later) = Made(uid, table)
  BY MadeStays
<1>2. \A k \in JobNames : IsHead(k, uid, table) => IsHead(k, uid, later)
  BY HeadStays DEF IsHead, KeepsHeld
<1> QED BY <1>1, <1>2 DEF HeadKept

LEMMA NoneAheadStays ==
  ASSUME NEW table \in Table, NEW later \in Table, SameRuns(table, later),
         NEW obj, NoneAhead(obj, table)
  PROVE  NoneAhead(obj, later)
BY MadeStays DEF NoneAhead, Made, SameRuns

LEMMA EarlierStays ==
  ASSUME NEW table \in Table, NEW later \in Table, SameRuns(table, later),
         NEW copy, NEW obj, EarlierOK(copy, obj, table)
  PROVE  EarlierOK(copy, obj, later)
BY NoneAheadStays DEF EarlierOK

LEMMA HeadOwnerStays ==
  ASSUME NEW table \in Table, NEW later \in Table, SameRuns(table, later),
         NEW obj, HeadOwnerOK(obj, table),
         obj.there /\ ~obj.deleting => HeadKept(obj.uid, later)
  PROVE  HeadOwnerOK(obj, later)
<1>1. Made(obj.uid, later) = Made(obj.uid, table)
  BY MadeStays
<1>2. obj.there => NoneAhead(obj, later)
  BY NoneAheadStays DEF HeadOwnerOK
<1> QED BY <1>1, <1>2 DEF HeadOwnerOK, SameRuns

LEMMA ListStays ==
  ASSUME NEW table \in Table, NEW later \in Table, AllMature(table, later),
         NEW r, ListOK(r, table)
  PROVE  ListOK(r, later)
BY DEF ListOK, Listed, AllMature, Mature

LEMMA ListWorkerStays ==
  ASSUME NEW table \in Table, NEW later \in Table, SameRuns(table, later),
         KeepsHeld(table, later), AllMature(table, later),
         NEW obj, NEW r, ListWorkerOK(r, obj, table)
  PROVE  ListWorkerOK(r, obj, later)
<1>1. Made(r.obj.uid, later) = Made(r.obj.uid, table)
  BY MadeStays
<1>2. HeadBeforeDeletion(r.obj, table) => HeadBeforeDeletion(r.obj, later)
  BY <1>1, HeadKeptStays DEF HeadBeforeDeletion
<1>3. IsHead(r.first, r.obj.uid, table) => IsHead(r.first, r.obj.uid, later)
  <2>1. IsHead(r.first, r.obj.uid, table) => Held(r.first, later)
    BY DEF IsHead, KeepsHeld, Made
  <2> QED BY <2>1, HeadStays
<1>4. EarlierOK(r.obj, obj, table) => EarlierOK(r.obj, obj, later)
  BY EarlierStays
<1>5. ListOK(r, table) => ListOK(r, later)
  BY ListStays
<1>6. (\A j \in JobNames : table[j].phase # "live") =>
        \A j \in JobNames : later[j].phase # "live"
  BY DEF SameRuns
<1> QED BY <1>2, <1>3, <1>4, <1>5, <1>6 DEF ListWorkerOK

LEMMA EarlierSucceeds ==
  ASSUME NEW table \in Table, NEW obj \in ReactiveJob, NEW new \in ReactiveJob,
         NEW copy \in ReactiveJob, Succeeds(new, obj), EarlierOK(copy, obj, table)
  PROVE  EarlierOK(copy, new, table)
<1>1. /\ copy.uid \in Nat /\ obj.uid \in Nat /\ new.uid \in Nat
      /\ copy.gen \in Nat /\ obj.gen \in Nat /\ new.gen \in Nat
  BY DEF ReactiveJob
<1>2. copy.uid <= new.uid
  BY <1>1 DEF Succeeds, EarlierOK
<1>3. ASSUME copy.uid = new.uid, new.there
      PROVE  /\ copy.uid = obj.uid /\ obj.there
             /\ obj.gen <= new.gen
             /\ obj.deleting => new.deleting
  BY <1>1, <1>3 DEF Succeeds, EarlierOK
<1> QED BY <1>1, <1>2, <1>3 DEF EarlierOK

LEMMA ListWorkerSucceeds ==
  ASSUME NEW table \in Table, NEW obj \in ReactiveJob, NEW new \in ReactiveJob,
         NEW r \in ReconcileRun, Succeeds(new, obj), KeepsFinalizer(new, obj),
         ListWorkerOK(r, obj, table)
  PROVE  ListWorkerOK(r, new, table)
<1>1. r.obj \in ReactiveJob
  BY DEF ReconcileRun
<1>2. EarlierOK(r.obj, obj, table) => EarlierOK(r.obj, new, table)
  BY <1>1, EarlierSucceeds
<1>3. HasFinalizer(r.obj, obj) => HasFinalizer(r.obj, new)
  BY DEF HasFinalizer, KeepsFinalizer
<1> QED BY <1>2, <1>3 DEF ListWorkerOK

LEMMA HeadOwnerSucceeds ==
  ASSUME NEW table \in Table, NEW obj \in ReactiveJob, NEW new \in ReactiveJob,
         Succeeds(new, obj), HeadOwnerOK(obj, table),
         \/ KeepsFinalizer(new, obj)
         \/ obj.deleting /\ \A j \in JobNames : table[j].phase # "live"
  PROVE  HeadOwnerOK(new, table)
<1>1. /\ obj.uid \in Nat /\ new.uid \in Nat
      /\ obj.gen \in Nat /\ new.gen \in Nat
      /\ \A j \in JobNames : table[j].uid \in Nat /\ table[j].gen \in Nat
  BY DEF ReactiveJob, Table, Job
<1>2. obj.uid <= new.uid
  BY <1>1 DEF Succeeds
<1>3. \A j \in JobNames :
        /\ table[j].phase # "unused" => table[j].uid <= new.uid
        /\ table[j].phase = "live" =>
             new.there /\ new.fin /\ table[j].uid = new.uid
  BY <1>1, <1>2 DEF HeadOwnerOK, KeepsFinalizer
<1>4. CASE new.uid = obj.uid
  <2>1. ASSUME new.there, NEW j \in Made(obj.uid, table)
        PROVE  table[j].gen <= new.gen
    <3>1. obj.there /\ obj.gen <= new.gen
      BY <1>1, <1>4, <2>1 DEF Succeeds
    <3>2. table[j].gen <= obj.gen /\ table[j].gen \in Nat
      BY <1>1, <2>1, <3>1 DEF HeadOwnerOK, NoneAhead, Made
    <3> QED BY <1>1, <3>1, <3>2
  <2>2. new.there => NoneAhead(new, table)
    BY <1>4, <2>1 DEF NoneAhead
  <2> QED BY <1>1, <1>3, <1>4, <2>2 DEF HeadOwnerOK, Succeeds, KeepsFinalizer
<1>5. CASE obj.uid < new.uid
  <2>1. Made(new.uid, table) = {}
    BY <1>1, <1>5 DEF HeadOwnerOK, Made
  <2> QED BY <1>3, <2>1 DEF HeadOwnerOK, NoneAhead, HeadKept
<1> QED BY <1>1, <1>4, <1>5 DEF Succeeds
-----------------------------------------------------------------------------
(* The calls of the worker *)

\* What HeadInv says of the object, the jobs and the worker.
LEMMA HeadFacts ==
  ASSUME HeadInv, NEW w \in Workers
  PROVE  /\ jobs \in Table /\ rj \in ReactiveJob
         /\ run \in [Workers -> ReconcileRun] /\ run[w] \in ReconcileRun
         /\ run[w].obj \in ReactiveJob
         /\ HeadOwnerOK(rj, jobs) /\ ListWorkerOK(run[w], rj, jobs)
         /\ run[w].pc # "idle" =>
              ListOK(run[w], jobs) /\ EarlierOK(run[w].obj, rj, jobs)
<1>1. /\ jobs \in Table /\ rj \in ReactiveJob
      /\ run \in [Workers -> ReconcileRun]
  BY DEF HeadInv, ControllerTypeOK, ClusterTypeOK, Table
<1>2. run[w] \in ReconcileRun
  BY <1>1
<1>3. run[w].obj \in ReactiveJob
  BY <1>2 DEF ReconcileRun
<1> QED BY <1>1, <1>2, <1>3 DEF HeadInv, ListWorkerOK

\* The one worker goes on with r.
LEMMA HeadGoesOn ==
  ASSUME OneWorker, HeadInv, NEW w \in Workers, NEW r \in ReconcileRun,
         run' = [run EXCEPT ![w] = r],
         rj' \in ReactiveJob, rjHeld' \in SUBSET Workers, jobs' \in Table,
         due' \in [Workers -> BOOLEAN], disturbances' \in 0..MaxDisturbances,
         w \in rjHeld' /\ r.pc # "idle" => rj'.there /\ SameObject(r.obj, rj'),
         HeadOwnerOK(rj', jobs'), ListWorkerOK(r, rj', jobs')
  PROVE  HeadInv'
<1>1. (\A v \in Workers : v = w) /\ run'[w] = r /\ run' \in [Workers -> ReconcileRun]
  BY DEF OneWorker, HeadInv, ControllerTypeOK
<1>2. ControllerTypeOK'
  BY <1>1 DEF ControllerTypeOK, ClusterTypeOK, Table
<1>3. CopyIsCurrent'
  BY <1>1 DEF CopyIsCurrent
<1> QED BY <1>1, <1>2, <1>3 DEF HeadInv

\* A call that writes no ReactiveJob.
LEMMA HeadCall ==
  ASSUME OneWorker, HeadInv, NEW w \in Workers, NEW r, run[w].pc # "idle",
         run' = [run EXCEPT ![w] = r], UNCHANGED objectVars, jobs' \in Table,
         due' \in [Workers -> BOOLEAN], disturbances' \in 0..MaxDisturbances,
         HeadOwnerOK(rj, jobs'), ContinuesListed(r, run[w], rj, jobs')
  PROVE  HeadInv'
<1>1. /\ rj' = rj /\ rjHeld' = rjHeld /\ rj \in ReactiveJob
      /\ rjHeld \in SUBSET Workers
  BY DEF objectVars, HeadInv, ControllerTypeOK, ClusterTypeOK
<1>2. w \in rjHeld => rj.there /\ SameObject(run[w].obj, rj)
  BY DEF HeadInv, CopyIsCurrent
<1>3. w \in rjHeld' /\ r.pc # "idle" => rj'.there /\ SameObject(r.obj, rj')
  BY <1>1, <1>2 DEF ContinuesListed, SameObject
<1>4. r \in ReconcileRun /\ ListWorkerOK(r, rj', jobs')
  BY <1>1 DEF ContinuesListed
<1> QED BY <1>1, <1>3, <1>4, HeadGoesOn

\* ... and is answered, or loses its answer.
LEMMA HeadAnswered ==
  ASSUME OneWorker, HeadInv, NEW w \in Workers, NEW r, run[w].pc # "idle",
         Answered(w, r), UNCHANGED objectVars, jobs' \in Table,
         due' \in [Workers -> BOOLEAN],
         HeadOwnerOK(rj, jobs'), EarlierOK(run[w].obj, rj, jobs'),
         ContinuesListed(r, run[w], rj, jobs')
  PROVE  HeadInv'
<1>1. CASE Continue(w, r)
  <2>1. run' = [run EXCEPT ![w] = r] /\ disturbances' \in 0..MaxDisturbances
    BY <1>1 DEF Continue, HeadInv, ControllerTypeOK, ClusterTypeOK
  <2> QED BY <2>1, HeadCall
<1>2. CASE Disturbed(w)
  <2>1. run[w] \in ReconcileRun /\ rj \in ReactiveJob
    BY HeadFacts
  <2>2. ContinuesListed(Fail(run[w]), run[w], rj, jobs')
    BY <2>1, FailListed
  <2>3. run' = [run EXCEPT ![w] = Fail(run[w])]
    BY <1>2 DEF Disturbed, HeadInv, ControllerTypeOK
  <2>4. disturbances' \in 0..MaxDisturbances
    BY <1>2, DisturbType DEF Disturbed, HeadInv
  <2> QED BY <2>2, <2>3, <2>4, HeadCall
<1> QED BY <1>1, <1>2 DEF Answered

\* A call that changes nothing but the worker.
LEMMA HeadUnaffected ==
  ASSUME OneWorker, HeadInv, NEW w \in Workers, NEW r, run[w].pc # "idle",
         Answered(w, r), NoEffect, ContinuesListed(r, run[w], rj, jobs)
  PROVE  HeadInv'
<1>1. /\ jobs' = jobs /\ UNCHANGED objectVars /\ jobs' \in Table
      /\ due' \in [Workers -> BOOLEAN]
  BY DEF NoEffect, HeadInv, ControllerTypeOK, ClusterTypeOK, Table
<1>2. HeadOwnerOK(rj, jobs') /\ EarlierOK(run[w].obj, rj, jobs')
  BY <1>1, HeadFacts
<1>3. ContinuesListed(r, run[w], rj, jobs')
  BY <1>1
<1> QED BY <1>1, <1>2, <1>3, HeadAnswered

LEMMA HeadFailedCall ==
  ASSUME OneWorker, HeadInv, NEW w \in Workers, run[w].pc # "idle", NoEffect,
         Continue(w, Fail(run[w])) \/ Disturbed(w)
  PROVE  HeadInv'
<1>1. ContinuesListed(Fail(run[w]), run[w], rj, jobs)
  BY HeadFacts, FailListed
<1> QED BY <1>1, HeadUnaffected DEF Answered

\* The head of a list that was sorted is the job that is held.
LEMMA SortedFirstIsHead ==
  ASSUME jobs \in Table, NEW uid, NEW deps, deps = Dependents(uid),
         deps # {}, ~SortPanics(deps), NEW bound \in Nat,
         \A j \in Made(uid, jobs) : jobs[j].gen <= bound
  PROVE  /\ SortedFirst(deps) \in deps
         /\ HeadKept(uid, jobs) => IsHead(SortedFirst(deps), uid, jobs)
<1>1. /\ deps \in SUBSET JobNames
      /\ \A j \in JobNames : j \in deps <=> j \in Made(uid, jobs) /\ jobs[j].phase = "live"
  BY DEF Dependents, Live, Made
<1>2. Heads(SortedFirst(deps), deps, jobs)
  BY <1>1, SortedFirstFacts
<1> DEFINE first == SortedFirst(deps)
<1>3. first \in deps
  BY <1>2 DEF Heads
<1>4. ASSUME NEW k \in JobNames, IsHead(k, uid, jobs) PROVE k = first
  <2>1. k \in deps /\ first \in Made(uid, jobs) /\ jobs[first].phase = "live"
    BY <1>1, <1>3, <1>4 DEF IsHead, Held
  <2>2. /\ jobs[first].gen <= jobs[k].gen
        /\ jobs[first].gen = jobs[k].gen => NameOrder[k] <= NameOrder[first]
    BY <1>4, <2>1 DEF IsHead
  <2>3. k # first =>
          /\ jobs[k].gen <= jobs[first].gen
          /\ jobs[k].gen = jobs[first].gen => NameOrder[first] < NameOrder[k]
    BY <1>2, <2>1 DEF Heads
  <2>4. /\ first \in JobNames
        /\ jobs[first].gen \in Nat /\ jobs[k].gen \in Nat
        /\ NameOrder[first] \in Nat /\ NameOrder[k] \in Nat
    BY <1>1, <1>3, NameOrderFacts DEF Table, Job
  <2> HIDE DEF first
  <2> QED BY <2>2, <2>3, <2>4
<1>5. HeadKept(uid, jobs) => IsHead(first, uid, jobs)
  <2>1. Made(uid, jobs) # {}
    BY <1>1, <1>3
  <2> HIDE DEF first
  <2> QED BY <1>4, <2>1 DEF HeadKept
<1> QED BY <1>3, <1>5

LEMMA ListAndSortHead ==
  ASSUME OneWorker, HeadInv, NEW w \in Workers, ListAndSort(w)
  PROVE  HeadInv'
<1> DEFINE deps == Dependents(run[w].obj.uid)
           seen == [j \in JobNames |-> IF j \in deps THEN jobs[j] ELSE NoJob]
<1>1. /\ run[w].pc = "list" /\ NoEffect
      /\ run[w] \in ReconcileRun /\ run[w].obj \in ReactiveJob
      /\ jobs \in Table /\ rj \in ReactiveJob
      /\ HeadOwnerOK(rj, jobs) /\ ListWorkerOK(run[w], rj, jobs)
      /\ EarlierOK(run[w].obj, rj, jobs)
  BY HeadFacts DEF ListAndSort
<1>2. CASE Disturbed(w)
  BY <1>1, <1>2, HeadFailedCall
<1>3. CASE Continue(w, Panic(run[w]))
  <2>1. ContinuesListed(Panic(run[w]), run[w], rj, jobs)
    BY <1>1, PanicListed
  <2> QED BY <1>1, <1>3, <2>1, HeadUnaffected DEF Answered
<1>4. ASSUME ~SortPanics(deps),
             Continue(w, Dispatch([run[w] EXCEPT !.list = seen,
                                                 !.first = SortedFirst(deps)]))
      PROVE  HeadInv'
  <2> DEFINE first == SortedFirst(deps)
             r == [run[w] EXCEPT !.list = seen, !.first = first]
  <2>1. /\ deps \subseteq JobNames
        /\ \A j \in JobNames :
             j \in deps <=> j \in Made(run[w].obj.uid, jobs) /\ jobs[j].phase = "live"
    BY DEF Dependents, Live, Made
  <2>2. \/ deps = {} /\ first = None
        \/ /\ deps # {} /\ first \in deps
           /\ HeadKept(run[w].obj.uid, jobs) => IsHead(first, run[w].obj.uid, jobs)
    <3>1. CASE deps = {}
      BY <3>1 DEF SortedFirst
    <3>2. CASE deps # {}
      <4>1. /\ run[w].obj.gen \in Nat
            /\ \A j \in Made(run[w].obj.uid, jobs) : jobs[j].gen <= run[w].obj.gen
        BY <1>1 DEF EarlierOK, NoneAhead, ReactiveJob
      <4> DEFINE uid == run[w].obj.uid
                 bound == run[w].obj.gen
      <4>2. first \in deps /\ (HeadKept(uid, jobs) => IsHead(first, uid, jobs))
        <5>1. deps = Dependents(uid)
          OBVIOUS
        <5> HIDE DEF deps, uid, bound
        <5> QED BY <1>1, <1>4, <3>2, <4>1, <5>1, SortedFirstIsHead DEF uid, bound
      <4> QED BY <3>2, <4>2
    <3> QED BY <3>1, <3>2
  <2> HIDE DEF first
  <2>3. seen \in [JobNames -> Job] /\ first \in deps \cup {None}
    BY <1>1, <2>2, EmptyValuesType DEF Table
  <2>4. /\ r \in ReconcileRun
        /\ r.pc = "list" /\ r.obj = run[w].obj
        /\ r.list = seen /\ r.first = first
    BY <1>1, <2>1, <2>3 DEF ReconcileRun
  <2>5. Listed(r) = deps
    BY <2>1, <2>4 DEF Listed, Dependents, Live, NoJob
  <2>6. ListOK(r, jobs)
    BY <1>1, <2>1, <2>3, <2>4, <2>5 DEF ListOK, Dependents, Live, Mature, Table
  <2>7. ListWorkerOK(r, rj, jobs)
    BY <1>1, <2>4, <2>6 DEF ListWorkerOK
  <2>8. SortedList(r, jobs)
    BY <1>1, <2>1, <2>2, <2>4, <2>5, NamesAssumption
       DEF SortedList, ListWorkerOK, HeadBeforeDeletion
  <2> HIDE DEF r
  <2>9. ContinuesListed(Dispatch(r), run[w], rj, jobs)
    <3>1. ContinuesListed(Dispatch(r), r, rj, jobs)
      BY <1>1, <2>4, <2>7, <2>8, DispatchListed
    <3> QED BY <2>4, <3>1 DEF ContinuesListed
  <2>10. Answered(w, Dispatch(r))
    BY <1>4 DEF Answered, r, first
  <2> QED BY <1>1, <2>9, <2>10, HeadUnaffected
<1> QED BY <1>2, <1>3, <1>4 DEF ListAndSort

\* The finalizer is set: no job was made for the object before.
LEMMA SetFinalizerHead ==
  ASSUME OneWorker, HeadInv, NEW w \in Workers, SetFinalizer(w)
  PROVE  HeadInv'
<1> DEFINE obj == [rj EXCEPT !.fin = TRUE]
           s   == [run[w] EXCEPT !.obj = obj]
           r   == CreateOrUpdate(s)
<1>1. /\ run[w].pc = "setFinalizer"
      /\ run[w] \in ReconcileRun /\ run[w].obj \in ReactiveJob
      /\ jobs \in Table /\ rj \in ReactiveJob
      /\ HeadOwnerOK(rj, jobs) /\ ListWorkerOK(run[w], rj, jobs)
      /\ ListOK(run[w], jobs) /\ EarlierOK(run[w].obj, rj, jobs)
  BY HeadFacts DEF SetFinalizer
<1>2. CASE NoEffect /\ (Continue(w, Fail(run[w])) \/ Disturbed(w))
  BY <1>1, <1>2, HeadFailedCall
<1>3. ASSUME CurrentReactiveJob(w), UNCHANGED jobs,
             \/ WriteReactiveJob(obj, {w}) /\ Continue(w, r)
             \/ WriteReactiveJob(obj, {}) /\ Disturbed(w)
      PROVE  HeadInv'
  <2>1. /\ obj \in ReactiveJob /\ obj.fin
        /\ obj.there = rj.there /\ obj.uid = rj.uid /\ obj.gen = rj.gen
        /\ obj.tmpl = rj.tmpl /\ obj.deleting = rj.deleting
        /\ obj.status = rj.status
    BY <1>1 DEF ReactiveJob
  <2>2. rj.there /\ SameObject(run[w].obj, rj)
    BY <1>1, <1>3 DEF HeadInv, CopyIsCurrent, CurrentReactiveJob
  <2>3. Made(rj.uid, jobs) = {} /\ ~rj.deleting
    BY <1>1, <2>2 DEF ListWorkerOK, HeadBeforeDeletion, SameObject
  <2>4. /\ rj' = obj /\ jobs' = jobs /\ jobs' \in Table
        /\ due' \in [Workers -> BOOLEAN]
    BY <1>1, <1>3
       DEF WriteReactiveJob, Everyone, HeadInv, ControllerTypeOK, ClusterTypeOK
  <2>5. Succeeds(obj, rj) /\ KeepsFinalizer(obj, rj)
    BY <1>1, <2>1, <2>2 DEF Succeeds, KeepsFinalizer, ReactiveJob
  <2>6. HeadOwnerOK(obj, jobs)
    BY <1>1, <2>1, <2>5, HeadOwnerSucceeds
  <2>7. CASE WriteReactiveJob(obj, {w}) /\ Continue(w, r)
    <3>1. /\ s \in ReconcileRun /\ s.obj = obj
          /\ s.list = run[w].list /\ s.first = run[w].first
      BY <1>1, <2>1 DEF ReconcileRun
    <3>2. ListOK(s, jobs)
      BY <1>1, <2>1, <2>2, <3>1, ZenonT(90) DEF ListOK, Listed, SameObject
    <3>3. EarlierOK(s.obj, obj, jobs)
      BY <2>1, <2>2, <2>3, <3>1 DEF EarlierOK, NoneAhead, ReactiveJob
    <3>4. HeadBeforeDeletion(s.obj, jobs) /\ HasFinalizer(s.obj, obj)
      BY <2>1, <2>2, <2>3, <3>1 DEF HeadBeforeDeletion, HeadKept, HasFinalizer
    <3>5. s.first = None
      <4> SUFFICES ASSUME s.first \in Listed(s) PROVE FALSE
        BY <3>2 DEF ListOK
      <4>1. /\ s.list[s.first].uid = s.obj.uid /\ s.first \in JobNames
            /\ Mature(s.list[s.first], jobs[s.first])
        BY <3>2 DEF ListOK, Listed
      <4> QED BY <2>1, <2>3, <3>1, <4>1 DEF Mature, Made
    <3>6. ContinuesListed(r, s, obj, jobs)
      <4> HIDE DEF s, obj
      <4> QED
        BY <1>1, <2>1, <2>3, <3>1, <3>2, <3>3, <3>4, <3>5, CreateOrUpdateListed
    <3>7. r \in ReconcileRun /\ ListWorkerOK(r, obj, jobs)
      BY <3>6 DEF ContinuesListed
    <3>8. r.pc # "idle" => obj.there /\ SameObject(r.obj, obj)
      BY <2>1, <2>2, <3>1, <3>6 DEF ContinuesListed
    <3>9. /\ run' = [run EXCEPT ![w] = r] /\ rjHeld' \in SUBSET Workers
          /\ disturbances' \in 0..MaxDisturbances
      BY <2>7 DEF Continue, WriteReactiveJob, HeadInv, ControllerTypeOK, ClusterTypeOK
    <3> HIDE DEF r, obj
    <3> QED BY <2>1, <2>4, <2>6, <3>7, <3>8, <3>9, HeadGoesOn
  <2>8. CASE WriteReactiveJob(obj, {}) /\ Disturbed(w)
    <3>1. EarlierOK(run[w].obj, obj, jobs)
      BY <1>1, <2>1, <2>5, EarlierSucceeds
    <3>2. ContinuesListed(Fail(run[w]), run[w], obj, jobs)
      BY <1>1, <2>1, <3>1, FailListed
    <3>3. /\ run' = [run EXCEPT ![w] = Fail(run[w])] /\ rjHeld' = {}
          /\ disturbances' \in 0..MaxDisturbances
      BY <2>8, DisturbType DEF Disturbed, WriteReactiveJob, HeadInv, ControllerTypeOK
    <3>4. Fail(run[w]) \in ReconcileRun /\ ListWorkerOK(Fail(run[w]), obj, jobs)
      BY <3>2 DEF ContinuesListed
    <3> HIDE DEF obj
    <3> QED BY <2>1, <2>4, <2>6, <3>3, <3>4, HeadGoesOn
  <2> QED BY <1>3, <2>7, <2>8
<1> QED BY <1>2, <1>3 DEF SetFinalizer, Accepted

\* later is table with a new job j that was made from copy.
JobAdded(j, copy, table, later) ==
  /\ later \in Table
  /\ AllMature(table, later)
  /\ \A k \in JobNames \ {j} : later[k] = table[k]
  /\ later[j].phase = "live" /\ later[j].uid = copy.uid
  /\ NoneAhead(copy, later)
  /\ HeadKept(copy.uid, later)

\* The new job is of the newest generation; it is the head of the list unless there
\* is another one of that generation with an earlier name.
LEMMA NewJobHead ==
  ASSUME NEW table \in Table, NEW j \in JobNames, table[j].phase = "unused",
         NEW copy \in ReactiveJob, NoneAhead(copy, table), HeadKept(copy.uid, table),
         NEW later, later = [table EXCEPT ![j] = JobFor(copy)]
  PROVE  JobAdded(j, copy, table, later)
<1>1. /\ JobFor(copy) \in Job
      /\ JobFor(copy).phase = "live" /\ JobFor(copy).fin
      /\ JobFor(copy).uid = copy.uid /\ JobFor(copy).gen = copy.gen
  BY DEF JobFor, NoJob, Job, ReactiveJob
<1>2. /\ later \in Table
      /\ \A k \in JobNames \ {j} : later[k] = table[k]
      /\ later[j].phase = "live" /\ later[j].fin
      /\ later[j].uid = copy.uid /\ later[j].gen = copy.gen
  BY <1>1 DEF Table
<1>3. AllMature(table, later)
  BY <1>2 DEF AllMature, Mature
<1>4. /\ Made(copy.uid, later) = Made(copy.uid, table) \cup {j}
      /\ j \notin Made(copy.uid, table)
      /\ \A k \in Made(copy.uid, table) : k \in JobNames /\ later[k] = table[k]
  BY <1>2 DEF Made
<1>5. /\ \A k \in JobNames : later[k].gen \in Nat
      /\ copy.gen \in Nat
      /\ \A k \in JobNames : NameOrder[k] \in Nat
  BY <1>2, NameOrderFacts DEF Table, Job, ReactiveJob
<1>6. \A k \in Made(copy.uid, table) : later[k].gen <= later[j].gen
  BY <1>2, <1>4 DEF NoneAhead
<1>7. NoneAhead(copy, later)
  <2> SUFFICES ASSUME NEW k \in Made(copy.uid, later)
               PROVE  later[k].gen <= copy.gen
    BY DEF NoneAhead
  <2>1. CASE k = j
    BY <1>2, <1>5, <2>1
  <2>2. CASE k # j
    BY <1>4, <2>2 DEF NoneAhead
  <2> QED BY <2>1, <2>2
<1>8. Held(j, later)
  BY <1>2 DEF Held
<1>9. HeadKept(copy.uid, later)
  <2>1. CASE \A k \in Made(copy.uid, table) :
               later[k].gen = later[j].gen /\ later[k].phase = "live" =>
                 NameOrder[j] <= NameOrder[k]
    <3>1. ASSUME NEW a \in Made(copy.uid, later)
          PROVE  /\ later[a].gen <= later[j].gen
                 /\ later[a].gen = later[j].gen /\ later[a].phase = "live" =>
                      NameOrder[j] <= NameOrder[a]
      <4>1. CASE a = j
        BY <1>5, <4>1
      <4>2. CASE a # j
        BY <1>4, <1>6, <2>1, <4>2
      <4> QED BY <4>1, <4>2
    <3>2. IsHead(j, copy.uid, later)
      BY <1>4, <1>8, <3>1 DEF IsHead
    <3> QED BY <3>2 DEF HeadKept
  <2>2. ASSUME NEW i \in Made(copy.uid, table),
               later[i].gen = later[j].gen, later[i].phase = "live",
               ~(NameOrder[j] <= NameOrder[i])
        PROVE  HeadKept(copy.uid, later)
    <3>1. PICK k \in JobNames : IsHead(k, copy.uid, table)
      BY <2>2 DEF HeadKept
    <3>2. k \in Made(copy.uid, table) /\ later[k] = table[k] /\ Held(k, later)
      BY <1>4, <3>1 DEF IsHead, Held
    <3>3. /\ later[i].gen <= later[k].gen
          /\ later[i].gen = later[k].gen => NameOrder[k] <= NameOrder[i]
      BY <1>4, <2>2, <3>1, <3>2 DEF IsHead
    <3>4. later[k].gen <= later[j].gen /\ i \in JobNames
      BY <1>4, <1>6, <2>2, <3>2
    <3>5. later[j].gen = later[k].gen /\ NameOrder[k] <= NameOrder[j]
      BY <1>5, <2>2, <3>3, <3>4
    <3>6. \A a \in Made(copy.uid, later) :
            /\ later[a].gen <= later[k].gen
            /\ later[a].gen = later[k].gen /\ later[a].phase = "live" =>
                 NameOrder[k] <= NameOrder[a]
      <4> SUFFICES ASSUME NEW a \in Made(copy.uid, later)
                   PROVE  /\ later[a].gen <= later[k].gen
                          /\ later[a].gen = later[k].gen /\ later[a].phase = "live" =>
                               NameOrder[k] <= NameOrder[a]
        OBVIOUS
      <4>1. CASE a = j
        BY <1>5, <3>5, <4>1
      <4>2. CASE a # j
        BY <1>4, <3>1, <3>2, <4>2 DEF IsHead
      <4> QED BY <4>1, <4>2
    <3>7. IsHead(k, copy.uid, later)
      BY <1>4, <3>2, <3>6 DEF IsHead
    <3> QED BY <3>7 DEF HeadKept
  <2> QED BY <2>1, <2>2
<1> QED BY <1>2, <1>3, <1>7, <1>9 DEF JobAdded

LEMMA CreateHead ==
  ASSUME OneWorker, HeadInv, NEW w \in Workers, CreateJob(w)
  PROVE  HeadInv'
<1>1. /\ run[w].pc = "create"
      /\ run[w] \in ReconcileRun /\ run[w].obj \in ReactiveJob
      /\ jobs \in Table /\ rj \in ReactiveJob
      /\ HeadOwnerOK(rj, jobs) /\ ListWorkerOK(run[w], rj, jobs)
      /\ EarlierOK(run[w].obj, rj, jobs)
  BY HeadFacts DEF CreateJob
<1>2. CASE NoEffect /\ (Continue(w, Fail(run[w])) \/ Disturbed(w))
  BY <1>1, <1>2, HeadFailedCall
<1>3. ASSUME NEW j \in JobNames, ~Used(j), WriteJob(j, JobFor(run[w].obj)),
             Answered(w, Report(run[w], "Processing")), UNCHANGED objectVars
      PROVE  HeadInv'
  <2> DEFINE copy == run[w].obj
  <2>1. HeadKept(copy.uid, jobs) /\ HasFinalizer(copy, rj)
    BY <1>1 DEF ListWorkerOK, HeadBeforeDeletion
  <2>2. rj.there /\ rj.fin /\ rj.uid = copy.uid /\ copy.gen <= rj.gen
    BY <1>1, <2>1 DEF HasFinalizer, EarlierOK
  <2>3. /\ jobs' \in Table
        /\ \A k \in JobNames \ {j} : jobs'[k] = jobs[k]
        /\ jobs'[j].phase = "live" /\ jobs'[j].uid = copy.uid
        /\ NoneAhead(copy, jobs') /\ HeadKept(copy.uid, jobs')
    <3>1. jobs[j].phase = "unused" /\ jobs' = [jobs EXCEPT ![j] = JobFor(copy)]
      BY <1>3 DEF WriteJob, Used
    <3>2. NoneAhead(copy, jobs)
      BY <1>1 DEF EarlierOK
    <3>3. copy \in ReactiveJob
      BY <1>1
    <3>4. JobAdded(j, copy, jobs, jobs')
      <4> HIDE DEF copy
      <4> QED BY <1>1, <2>1, <3>1, <3>2, <3>3, NewJobHead
    <3> QED BY <3>4 DEF JobAdded
  <2>4. HeadOwnerOK(rj, jobs')
    <3>1. \A k \in JobNames :
            /\ jobs'[k].phase # "unused" => jobs'[k].uid <= rj.uid
            /\ jobs'[k].phase = "live" => jobs'[k].uid = rj.uid
      BY <1>1, <2>2, <2>3 DEF HeadOwnerOK, ReactiveJob
    <3>2. NoneAhead(rj, jobs')
      <4>1. \A k \in Made(rj.uid, jobs') : jobs'[k].gen \in Nat /\ jobs'[k].gen <= copy.gen
        BY <2>2, <2>3 DEF NoneAhead, Made, Table, Job
      <4>2. copy.gen \in Nat /\ rj.gen \in Nat
        BY <1>1 DEF ReactiveJob
      <4> QED BY <2>2, <4>1, <4>2 DEF NoneAhead
    <3> QED BY <2>2, <2>3, <3>1, <3>2 DEF HeadOwnerOK
  <2>5. EarlierOK(copy, rj, jobs')
    BY <1>1, <2>3 DEF EarlierOK
  <2>6. ContinuesListed(Report(run[w], "Processing"), run[w], rj, jobs')
    BY <1>1, <2>3, <2>5, ReportListed DEF ReactiveJobStates
  <2>7. due' \in [Workers -> BOOLEAN]
    BY <1>3 DEF WriteJob, Everyone, HeadInv, ControllerTypeOK, ClusterTypeOK
  <2> QED BY <1>1, <1>3, <2>3, <2>4, <2>5, <2>6, <2>7, HeadAnswered
<1> QED BY <1>2, <1>3 DEF CreateJob

\* A write of a job by the worker changes nothing that SameRuns and ListOK look at.
LEMMA JobRewritten ==
  ASSUME jobs \in Table, NEW j \in JobNames, jobs[j].phase # "unused",
         NEW job \in {StoredJob([jobs[j] EXCEPT !.fin = FALSE]),
                      [jobs[j] EXCEPT !.deleting = TRUE, !.fg = TRUE]},
         jobs[j].phase = "live" \/ job.phase # "live",
         WriteJob(j, job)
  PROVE  /\ jobs' \in Table
         /\ SameRuns(jobs, jobs') /\ AllMature(jobs, jobs')
         /\ \A k \in JobNames \ {j} : jobs'[k] = jobs[k]
<1>1. jobs' = [jobs EXCEPT ![j] = job]
  BY DEF WriteJob
<1>2. Rewritten(j, jobs, jobs')
  BY <1>1, JobWritten
<1> QED BY <1>2 DEF Rewritten, NoneMade, SameRuns

\* An older job is released: the head of the list stays held.
LEMMA ReleaseHead ==
  ASSUME OneWorker, HeadInv, NEW w \in Workers, ReleaseJob(w)
  PROVE  HeadInv'
<1>1. /\ run[w].pc = "release"
      /\ run[w] \in ReconcileRun /\ run[w].obj \in ReactiveJob
      /\ run[w].todo \in SUBSET JobNames
      /\ jobs \in Table /\ rj \in ReactiveJob
      /\ HeadOwnerOK(rj, jobs) /\ ListWorkerOK(run[w], rj, jobs)
      /\ ListOK(run[w], jobs) /\ EarlierOK(run[w].obj, rj, jobs)
  BY HeadFacts DEF ReleaseJob, ReconcileRun
<1>2. PICK j \in Newest(run[w].todo, run[w].list) :
        \/ /\ WriteJob(j, StoredJob([jobs[j] EXCEPT !.fin = FALSE]))
           /\ Answered(w, ReleaseNext([run[w] EXCEPT !.todo = @ \ {j}]))
           /\ UNCHANGED objectVars
        \/ Continue(w, Fail(run[w])) /\ NoEffect
        \/ Disturbed(w) /\ NoEffect
  BY DEF ReleaseJob
<1>3. CASE NoEffect /\ (Continue(w, Fail(run[w])) \/ Disturbed(w))
  BY <1>1, <1>3, HeadFailedCall
<1>4. CASE /\ WriteJob(j, StoredJob([jobs[j] EXCEPT !.fin = FALSE]))
           /\ Answered(w, ReleaseNext([run[w] EXCEPT !.todo = @ \ {j}]))
           /\ UNCHANGED objectVars
  <2> DEFINE copy == run[w].obj
             first == run[w].first
             job  == StoredJob([jobs[j] EXCEPT !.fin = FALSE])
             s    == [run[w] EXCEPT !.todo = run[w].todo \ {j}]
  <2>1. /\ IsHead(first, copy.uid, jobs) /\ run[w].todo \subseteq Listed(run[w]) \ {first}
        /\ HeadBeforeDeletion(copy, jobs) /\ HasFinalizer(copy, rj) /\ copy.fin
    BY <1>1 DEF ListWorkerOK
  <2>2. /\ j \in Listed(run[w]) /\ j \in JobNames /\ j # first
        /\ jobs[j].phase # "unused"
    BY <1>1, <2>1 DEF Newest, ListOK, Mature
  <2>3. /\ jobs' \in Table
        /\ SameRuns(jobs, jobs') /\ AllMature(jobs, jobs')
        /\ \A k \in JobNames \ {j} : jobs'[k] = jobs[k]
    <3>1. jobs[j].phase = "live" \/ job.phase # "live"
      BY <1>1, <2>2 DEF StoredJob, Table, Job
    <3>2. WriteJob(j, job)
      BY <1>4
    <3>3. job \in {StoredJob([jobs[j] EXCEPT !.fin = FALSE]),
                   [jobs[j] EXCEPT !.deleting = TRUE, !.fg = TRUE]}
      OBVIOUS
    <3> HIDE DEF job
    <3> QED BY <1>1, <2>2, <3>1, <3>2, <3>3, JobRewritten
  <2>4. IsHead(first, copy.uid, jobs')
    <3>1. first \in JobNames /\ Held(first, jobs)
      BY <2>1 DEF IsHead, Made
    <3>2. Held(first, jobs')
      BY <2>2, <2>3, <3>1 DEF Held
    <3> QED BY <1>1, <2>1, <2>3, <3>2, HeadStays
  <2>5. HeadKept(copy.uid, jobs')
    BY <2>4 DEF HeadKept, IsHead, Made
  <2>6. HeadOwnerOK(rj, jobs') /\ EarlierOK(copy, rj, jobs')
    BY <1>1, <2>1, <2>3, <2>5, HeadOwnerStays, EarlierStays DEF HasFinalizer
  <2>7. HeadBeforeDeletion(copy, jobs')
    BY <2>1, <2>5 DEF HeadBeforeDeletion
  <2>8. /\ s \in ReconcileRun
        /\ s.obj = copy /\ s.list = run[w].list
        /\ s.first = first /\ s.todo = run[w].todo \ {j}
    BY <1>1 DEF ReconcileRun
  <2>9. ListOK(s, jobs') /\ s.todo \subseteq Listed(s) \ {s.first}
    <3>1. ListOK(s, jobs) /\ s.todo \subseteq Listed(s) \ {s.first}
      BY <1>1, <2>1, <2>8 DEF ListOK, Listed
    <3> QED BY <1>1, <2>3, <3>1, ListStays
  <2>10. Answered(w, ReleaseNext(s))
    BY <1>1, <1>4
  <2>11. due' \in [Workers -> BOOLEAN]
    BY <1>4 DEF WriteJob, Everyone, HeadInv, ControllerTypeOK, ClusterTypeOK
  <2> HIDE DEF s
  <2>12. ContinuesListed(ReleaseNext(s), run[w], rj, jobs')
    <3>1. ContinuesListed(ReleaseNext(s), s, rj, jobs')
      BY <1>1, <2>1, <2>3, <2>4, <2>6, <2>7, <2>8, <2>9, ReleaseNextListed
    <3> QED BY <2>8, <3>1 DEF ContinuesListed
  <2> QED BY <1>1, <1>4, <2>3, <2>6, <2>10, <2>11, <2>12, HeadAnswered
<1> QED BY <1>2, <1>3, <1>4

\* s is r after a call of the deletion loop for j.
Noted(s, r, j) == \/ s = [r EXCEPT !.list[j].fin = FALSE]
                  \/ s = [r EXCEPT !.list[j].deleting = TRUE]

\* The list of a purge is of jobs that were there, whatever was noted of them since.
LEMMA NotedList ==
  ASSUME NEW table \in Table, NEW r \in ReconcileRun, ListOK(r, table),
         NEW j \in JobNames, NEW s, Noted(s, r, j)
  PROVE  s \in ReconcileRun /\ s.obj = r.obj /\ ListOK(s, table)
<1>1. r.list \in [JobNames -> Job] /\ r.list[j] \in Job
  BY DEF ReconcileRun
<1>2. PICK job \in {[r.list[j] EXCEPT !.fin = FALSE],
                    [r.list[j] EXCEPT !.deleting = TRUE]} :
        s = [r EXCEPT !.list = [r.list EXCEPT ![j] = job]]
  BY <1>1 DEF ReconcileRun, Noted
<1>3. /\ job \in Job
      /\ job.phase = r.list[j].phase
      /\ job.uid = r.list[j].uid
      /\ job.gen = r.list[j].gen
      /\ job.tmpl = r.list[j].tmpl
      /\ job.result = r.list[j].result
  BY <1>1 DEF Job
<1> DEFINE list == [r.list EXCEPT ![j] = job]
<1>4. /\ list \in [JobNames -> Job]
      /\ \A k \in JobNames : /\ list[k].phase = r.list[k].phase
                            /\ list[k].uid = r.list[k].uid
                            /\ list[k].gen = r.list[k].gen
                            /\ list[k].tmpl = r.list[k].tmpl
                            /\ list[k].result = r.list[k].result
  BY <1>1, <1>3
<1>5. s \in ReconcileRun /\ s.obj = r.obj /\ s.first = r.first /\ s.list = list
  BY <1>2, <1>4 DEF ReconcileRun
<1> QED BY <1>4, <1>5 DEF ListOK, Listed, Mature

\* Jobs are purged only for an object that is being deleted, or gone.
LEMMA PurgeHead ==
  ASSUME OneWorker, HeadInv, NEW w \in Workers, PurgeJob(w)
  PROVE  HeadInv'
<1>1. /\ run[w].pc = "purge"
      /\ run[w] \in ReconcileRun /\ run[w].obj \in ReactiveJob
      /\ jobs \in Table /\ rj \in ReactiveJob
      /\ HeadOwnerOK(rj, jobs) /\ ListWorkerOK(run[w], rj, jobs)
      /\ ListOK(run[w], jobs) /\ EarlierOK(run[w].obj, rj, jobs)
  BY HeadFacts DEF PurgeJob
<1>2. PICK j \in Newest(run[w].todo, run[w].list) :
        \/ /\ WriteJob(j, StoredJob([jobs[j] EXCEPT !.fin = FALSE]))
           /\ Answered(w, PurgeNext([run[w] EXCEPT !.list[j].fin = FALSE]))
           /\ UNCHANGED objectVars
        \/ /\ Live(j)
           /\ WriteJob(j, [jobs[j] EXCEPT !.deleting = TRUE, !.fg = TRUE])
           /\ Answered(w, PurgeNext([run[w] EXCEPT !.list[j].deleting = TRUE]))
           /\ UNCHANGED objectVars
        \/ Continue(w, Fail(run[w])) /\ NoEffect
        \/ Disturbed(w) /\ NoEffect
  BY DEF PurgeJob
<1>3. CASE NoEffect /\ (Continue(w, Fail(run[w])) \/ Disturbed(w))
  BY <1>1, <1>3, HeadFailedCall
<1> DEFINE copy == run[w].obj
<1>4. copy.deleting /\ (copy.fin => HasFinalizer(copy, rj))
  BY <1>1 DEF ListWorkerOK
<1>5. /\ j \in Listed(run[w]) /\ j \in JobNames
      /\ jobs[j].phase # "unused" /\ jobs[j].uid = copy.uid /\ jobs[j] \in Job
  <2>1. j \in Listed(run[w]) /\ j \in JobNames
    BY <1>1 DEF ListWorkerOK, Newest, Listed
  <2> QED BY <1>1, <2>1 DEF ListOK, Mature, Table
<1>6. ASSUME NEW job \in {StoredJob([jobs[j] EXCEPT !.fin = FALSE]),
                          [jobs[j] EXCEPT !.deleting = TRUE, !.fg = TRUE]},
             jobs[j].phase = "live" \/ job.phase # "live",
             WriteJob(j, job),
             NEW s \in {[run[w] EXCEPT !.list[j].fin = FALSE],
                        [run[w] EXCEPT !.list[j].deleting = TRUE]},
             Answered(w, PurgeNext(s)), UNCHANGED objectVars
      PROVE  HeadInv'
  <2>1. /\ jobs' \in Table
        /\ SameRuns(jobs, jobs') /\ AllMature(jobs, jobs')
        /\ \A k \in JobNames \ {j} : jobs'[k] = jobs[k]
    BY <1>1, <1>5, <1>6, JobRewritten
  <2>2. rj.there /\ ~rj.deleting => HeadKept(rj.uid, jobs')
    <3> SUFFICES ASSUME rj.there, ~rj.deleting PROVE HeadKept(rj.uid, jobs')
      OBVIOUS
    <3>1. rj.uid # copy.uid
      BY <1>1, <1>4 DEF EarlierOK
    <3>2. /\ Made(rj.uid, jobs') = Made(rj.uid, jobs)
          /\ \A k \in Made(rj.uid, jobs) : jobs'[k] = jobs[k]
      BY <1>5, <2>1, <3>1 DEF Made, SameRuns
    <3> QED BY <1>1, <3>2 DEF HeadOwnerOK, HeadKept, IsHead, Held
  <2>3. HeadOwnerOK(rj, jobs') /\ EarlierOK(copy, rj, jobs')
    BY <1>1, <2>1, <2>2, HeadOwnerStays, EarlierStays
  <2>4. s \in ReconcileRun /\ s.obj = copy /\ ListOK(s, jobs')
    <3> DEFINE r == run[w]
    <3>1. r \in ReconcileRun /\ ListOK(r, jobs) /\ r.obj = copy /\ Noted(s, r, j)
      BY <1>1, <1>6 DEF Noted
    <3> HIDE DEF r, copy
    <3>2. s \in ReconcileRun /\ s.obj = r.obj /\ ListOK(s, jobs)
      BY <1>1, <1>5, <3>1, NotedList
    <3> QED BY <1>1, <2>1, <3>1, <3>2, ListStays
  <2>5. ContinuesListed(PurgeNext(s), run[w], rj, jobs')
    <3>1. ContinuesListed(PurgeNext(s), s, rj, jobs')
      BY <1>1, <1>4, <2>1, <2>3, <2>4, PurgeNextListed
    <3> QED BY <2>4, <3>1 DEF ContinuesListed
  <2>6. due' \in [Workers -> BOOLEAN]
    BY <1>6 DEF WriteJob, Everyone, HeadInv, ControllerTypeOK, ClusterTypeOK
  <2> QED BY <1>1, <1>6, <2>1, <2>3, <2>5, <2>6, HeadAnswered
<1>7. jobs[j].phase = "live" \/ StoredJob([jobs[j] EXCEPT !.fin = FALSE]).phase # "live"
  BY <1>5 DEF StoredJob, Job
<1> QED BY <1>2, <1>3, <1>6, <1>7 DEF Live

\* The object is given up only when no job is left.
LEMMA ClearFinalizerHead ==
  ASSUME OneWorker, HeadInv, NEW w \in Workers, ClearFinalizer(w)
  PROVE  HeadInv'
<1> DEFINE obj == Stored([rj EXCEPT !.fin = FALSE])
<1>1. /\ run[w].pc = "clearFinalizer"
      /\ run[w] \in ReconcileRun /\ run[w].obj \in ReactiveJob
      /\ jobs \in Table /\ rj \in ReactiveJob
      /\ HeadOwnerOK(rj, jobs) /\ ListWorkerOK(run[w], rj, jobs)
      /\ EarlierOK(run[w].obj, rj, jobs)
  BY HeadFacts DEF ClearFinalizer
<1>2. CASE NoEffect /\ (Continue(w, Fail(run[w])) \/ Disturbed(w))
  BY <1>1, <1>2, HeadFailedCall
<1>3. ASSUME CurrentReactiveJob(w), WriteReactiveJob(obj, {}),
             \/ Return(w) /\ UNCHANGED disturbances
             \/ Disturbed(w) /\ UNCHANGED jobs
      PROVE  HeadInv'
  <2>1. rj.there /\ SameObject(run[w].obj, rj)
    BY <1>1, <1>3 DEF HeadInv, CopyIsCurrent, CurrentReactiveJob
  <2>2. rj.deleting /\ \A j \in JobNames : jobs[j].phase # "live"
    BY <1>1, <2>1 DEF ListWorkerOK, SameObject
  <2>3. [rj EXCEPT !.fin = FALSE] \in ReactiveJob
    BY <1>1 DEF ReactiveJob
  <2>4. obj \in ReactiveJob
    BY <2>3, StoredType
  <2>5. Succeeds(obj, rj)
    <3>1. CASE obj = [rj EXCEPT !.fin = FALSE]
      BY <1>1, <2>1, <3>1 DEF Succeeds, ReactiveJob
    <3>2. CASE obj = NoReactiveJob(rj.uid)
      BY <3>2 DEF Succeeds, NoReactiveJob
    <3>3. [rj EXCEPT !.fin = FALSE].uid = rj.uid
      BY <1>1 DEF ReactiveJob
    <3> QED BY <3>1, <3>2, <3>3 DEF Stored
  <2>6. /\ rj' = obj /\ jobs' = jobs /\ rjHeld' = {}
        /\ due' \in [Workers -> BOOLEAN]
    BY <1>3
       DEF WriteReactiveJob, Return, Everyone, HeadInv, ControllerTypeOK, ClusterTypeOK
  <2> HIDE DEF obj
  <2>7. HeadOwnerOK(obj, jobs) /\ EarlierOK(run[w].obj, obj, jobs)
    BY <1>1, <2>2, <2>4, <2>5, HeadOwnerSucceeds, EarlierSucceeds
  <2>8. \E r \in ReconcileRun :
          run' = [run EXCEPT ![w] = r] /\ ListWorkerOK(r, obj, jobs)
    <3>1. CASE Return(w)
      BY <3>1, NoRunListed DEF Return, ContinuesListed
    <3>2. CASE Disturbed(w)
      <4>1. ContinuesListed(Fail(run[w]), run[w], obj, jobs)
        BY <1>1, <2>4, <2>7, FailListed
      <4>2. run' = [run EXCEPT ![w] = Fail(run[w])]
        BY <3>2 DEF Disturbed, HeadInv, ControllerTypeOK
      <4> QED BY <4>1, <4>2 DEF ContinuesListed
    <3> QED BY <1>3, <3>1, <3>2
  <2>9. disturbances' \in 0..MaxDisturbances
    BY <1>3, DisturbType DEF Disturbed, HeadInv, ControllerTypeOK, ClusterTypeOK
  <2> QED BY <1>1, <2>4, <2>6, <2>7, <2>8, <2>9, HeadGoesOn
<1> QED BY <1>2, <1>3 DEF ClearFinalizer, Accepted

\* Nothing of the invariant changes but who holds what, and what is due.
LEMMA HeadSame ==
  ASSUME HeadInv, UNCHANGED <<rj, jobs, run>>, rjHeld' \subseteq rjHeld,
         due' \in [Workers -> BOOLEAN], disturbances' \in 0..MaxDisturbances
  PROVE  HeadInv'
BY DEF HeadInv, ControllerTypeOK, ClusterTypeOK, CopyIsCurrent

\* What Get reads is right as long as nothing else happens.
LEMMA GetHead ==
  ASSUME OneWorker, HeadInv, NEW w \in Workers, Get(w)
  PROVE  HeadInv'
<1>1. /\ rj' = rj /\ jobs' = jobs
      /\ jobs \in Table /\ rj \in ReactiveJob /\ rj.status \in ReactiveJobStatus
      /\ run[w] \in ReconcileRun
      /\ HeadOwnerOK(rj, jobs)
      /\ due' \in [Workers -> BOOLEAN] /\ disturbances' \in 0..MaxDisturbances
  BY HeadFacts, DisturbType
     DEF Get, Continue, HeadInv, ControllerTypeOK, ClusterTypeOK, ReactiveJob
<1>2. CASE rj.there /\ rjHeld' = rjHeld \cup {w} /\ Continue(w, FirstStep(Acknowledge(rj)))
  <2> DEFINE ack == Acknowledge(rj)
             r   == FirstStep(ack)
  <2>1. ack \in ReactiveJob /\ SameObject(ack, rj)
    BY <1>1 DEF Acknowledge, SameObject, ReactiveJob, ReactiveJobStatus
  <2>2. EarlierOK(ack, rj, jobs)
    BY <1>1, <1>2, <2>1
       DEF EarlierOK, SameObject, HeadOwnerOK, NoneAhead, ReactiveJob
  <2>3. HeadBeforeDeletion(ack, jobs) /\ (ack.fin => HasFinalizer(ack, rj))
    BY <1>1, <1>2, <2>1
       DEF HeadBeforeDeletion, HasFinalizer, SameObject, HeadOwnerOK
  <2> HIDE DEF ack
  <2>4. ContinuesListed(r, [NoRun EXCEPT !.obj = ack], rj, jobs)
    <3> DEFINE read == [NoRun EXCEPT !.obj = ack]
    <3>1. read \in ReconcileRun /\ read.obj = ack
      BY <2>1, EmptyValuesType DEF ReconcileRun
    <3>2. CASE ack.status.state = None
      <4>1. r = Report(read, "New") /\ "New" \in ReactiveJobStates
        BY <3>2 DEF FirstStep, ReactiveJobStates
      <4> HIDE DEF read, r
      <4>2. ContinuesListed(Report(read, "New"), read, rj, jobs)
        BY <1>1, <2>2, <3>1, <4>1, ReportListed
      <4> QED BY <4>1, <4>2 DEF read
    <3>3. CASE ack.status.state # None
      <4>1. r = [NoRun EXCEPT !.pc = "list", !.obj = ack]
        BY <3>3 DEF FirstStep
      <4>2. /\ r \in ReconcileRun /\ r.pc = "list" /\ r.obj = ack
            /\ r.list = NoRun.list /\ r.first = None
        BY <2>1, <4>1, EmptyValuesType DEF NoRun, ReconcileRun, Calls
      <4> HIDE DEF r
      <4>3. ListOK(r, jobs)
        BY <4>2 DEF ListOK, Listed, NoRun, NoJob
      <4>4. ListWorkerOK(r, rj, jobs)
        BY <2>2, <2>3, <4>2, <4>3 DEF ListWorkerOK
      <4> QED BY <3>1, <4>2, <4>4 DEF ContinuesListed, SameObject
    <3> QED BY <3>2, <3>3
  <2>5. /\ r \in ReconcileRun /\ ListWorkerOK(r, rj, jobs)
        /\ r.pc # "idle" => SameObject(r.obj, ack)
    <3> HIDE DEF r
    <3>1. [NoRun EXCEPT !.obj = ack].obj = ack
      BY DEF NoRun
    <3> QED BY <2>4, <3>1 DEF ContinuesListed
  <2>6. r.pc # "idle" => rj.there /\ SameObject(r.obj, rj)
    BY <1>2, <2>1, <2>5 DEF SameObject
  <2>7. run' = [run EXCEPT ![w] = r] /\ rjHeld' \in SUBSET Workers
    BY <1>2 DEF Continue, ack, HeadInv, ControllerTypeOK, ClusterTypeOK
  <2> HIDE DEF r
  <2> QED BY <1>1, <2>5, <2>6, <2>7, HeadGoesOn
<1>3. CASE UNCHANGED <<rjHeld, run>>
  BY <1>1, <1>3, HeadSame
<1> QED BY <1>2, <1>3 DEF Get

\* Reconcile has ended.
LEMMA ReturnHead ==
  ASSUME OneWorker, HeadInv, NEW w \in Workers, Return(w), due' = Requeued(w),
         rj' \in ReactiveJob, rjHeld' \in SUBSET Workers,
         disturbances' \in 0..MaxDisturbances, HeadOwnerOK(rj', jobs)
  PROVE  HeadInv'
<1>1. /\ jobs' = jobs /\ run' = [run EXCEPT ![w] = NoRun] /\ NoRun.pc = "idle"
      /\ NoRun \in ReconcileRun
      /\ due' \in [Workers -> BOOLEAN]
  BY EmptyValuesType
     DEF Return, NoRun, Requeued, HeadInv, ControllerTypeOK, ClusterTypeOK
<1>2. jobs' \in Table /\ ListWorkerOK(NoRun, rj', jobs')
  BY <1>1, HeadFacts DEF ListWorkerOK
<1> QED BY <1>1, <1>2, HeadGoesOn

LEMMA UpdateStatusHead ==
  ASSUME OneWorker, HeadInv, NEW w \in Workers, UpdateStatus(w)
  PROVE  HeadInv'
<1>1. /\ run[w].obj \in ReactiveJob /\ rj \in ReactiveJob /\ rjHeld \in SUBSET Workers
      /\ HeadOwnerOK(rj, jobs) /\ Return(w) /\ due' = Requeued(w)
  BY HeadFacts DEF UpdateStatus, HeadInv, ControllerTypeOK, ClusterTypeOK
<1>2. rj' \in ReactiveJob /\ SameObject(rj', rj)
  <2>1. rj' = rj \/ rj' = [rj EXCEPT !.status = run[w].obj.status]
    BY DEF UpdateStatus, objectVars
  <2> QED BY <1>1, <2>1 DEF SameObject, ReactiveJob
<1>3. HeadOwnerOK(rj', jobs)
  BY <1>1, <1>2 DEF HeadOwnerOK, NoneAhead, SameObject
<1>4. rjHeld' \in SUBSET Workers /\ disturbances' \in 0..MaxDisturbances
  BY <1>1, DisturbType
     DEF UpdateStatus, objectVars, HeadInv, ControllerTypeOK, ClusterTypeOK
<1> QED BY <1>1, <1>2, <1>3, <1>4, ReturnHead

LEMMA CrashHead ==
  ASSUME OneWorker, HeadInv, NEW w \in Workers, Crash(w)
  PROVE  HeadInv'
<1>1. /\ rj' = rj /\ rj \in ReactiveJob /\ rjHeld' \in SUBSET Workers
      /\ HeadOwnerOK(rj, jobs) /\ Return(w) /\ due' = Requeued(w)
      /\ disturbances' \in 0..MaxDisturbances
  BY HeadFacts, DisturbType DEF Crash, HeadInv, ControllerTypeOK, ClusterTypeOK
<1> QED BY <1>1, ReturnHead

\* An update of a job that moved is refused.
LEMMA OutdatedHead ==
  ASSUME OneWorker, HeadInv, NEW w \in Workers, Outdated(w)
  PROVE  HeadInv'
<1>1. run[w].pc # "idle" /\ NoEffect /\ Continue(w, Fail(run[w]))
  BY DEF Outdated, Updates
<1> QED BY <1>1, HeadFailedCall

LEMMA ReconcileHead ==
  ASSUME OneWorker, HeadInv, NEW w \in Workers, AnnotatedReconcile(w)
  PROVE  HeadInv'
<1>1. CASE OtherCall(w)
  <2>1. run[w].pc # "list" /\ Reconcile(w)
    BY <1>1 DEF OtherCall
  <2>2. ~ListJobs(w)
    BY <2>1 DEF ListJobs
  <2> QED
    BY <2>1, <2>2, GetHead, SetFinalizerHead, CreateHead, ReleaseHead, PurgeHead,
       ClearFinalizerHead, UpdateStatusHead DEF Reconcile
<1> QED BY <1>1, ListAndSortHead, OutdatedHead DEF AnnotatedReconcile
-----------------------------------------------------------------------------
(* Users and the other controllers *)

LEMMA ObjectHead ==
  ASSUME HeadInv, UNCHANGED <<jobs, run>>, rjHeld' = {}, rj' \in ReactiveJob,
         due' \in [Workers -> BOOLEAN], disturbances' \in 0..MaxDisturbances,
         Succeeds(rj', rj), KeepsFinalizer(rj', rj)
  PROVE  HeadInv'
<1>1. jobs \in Table /\ rj \in ReactiveJob /\ \A w \in Workers : run[w] \in ReconcileRun
  BY DEF HeadInv, ControllerTypeOK, ClusterTypeOK, Table
<1>2. HeadOwnerOK(rj', jobs)
  BY <1>1, HeadOwnerSucceeds DEF HeadInv
<1>3. \A w \in Workers : ListWorkerOK(run[w], rj', jobs)
  BY <1>1, ListWorkerSucceeds DEF HeadInv
<1>4. ControllerTypeOK' /\ CopyIsCurrent'
  BY DEF HeadInv, ControllerTypeOK, ClusterTypeOK, CopyIsCurrent
<1> QED BY <1>2, <1>3, <1>4 DEF HeadInv

LEMMA ObjectWritesHead ==
  ASSUME HeadInv, UNCHANGED run,
         \/ \E tmpl \in Templates, foreign \in Foreign : UserCreates(tmpl, foreign)
         \/ \E tmpl \in Templates : UserChangesTemplate(tmpl)
         \/ UserDeletes
         \/ ForeignFinalizerRemoved
         \/ ForeignFinalizerAdded
  PROVE  HeadInv'
<1>1. rj \in ReactiveJob /\ rj.uid \in Nat /\ rj.gen + 1 \in Nat
  BY DEF HeadInv, ControllerTypeOK, ClusterTypeOK, ReactiveJob
<1>2. /\ UNCHANGED <<jobs, run>> /\ rjHeld' = {}
      /\ due' \in [Workers -> BOOLEAN] /\ disturbances' \in 0..MaxDisturbances
  BY DisturbType
     DEF UserCreates, UserChangesTemplate, UserDeletes, ForeignFinalizerRemoved,
         ForeignFinalizerAdded, WriteReactiveJob, Everyone, HeadInv,
         ControllerTypeOK, ClusterTypeOK
<1>3. ASSUME NEW tmpl \in Templates, NEW foreign \in Foreign,
             UserCreates(tmpl, foreign)
      PROVE  HeadInv'
  <2>1. /\ rj'.uid = rj.uid + 1 /\ rj'.there /\ rj'.status = FreshStatus
        /\ ~rj.there
    BY <1>3 DEF UserCreates, WriteReactiveJob, NewReactiveJob
  <2>2. Succeeds(rj', rj) /\ KeepsFinalizer(rj', rj)
    BY <1>1, <2>1 DEF Succeeds, KeepsFinalizer
  <2>3. rj' \in ReactiveJob
    <3>1. rj' = NewReactiveJob(rj.uid + 1, tmpl, foreign)
      BY <1>3 DEF UserCreates, WriteReactiveJob
    <3>2. foreign \in BOOLEAN /\ FreshStatus \in ReactiveJobStatus
      <4>1. NoReactiveJob(0) \in ReactiveJob /\ NoReactiveJob(0).status = FreshStatus
        BY EmptyValuesType DEF NoReactiveJob
      <4> QED BY <4>1, ResultsAssumption DEF ReactiveJob
    <3> QED BY <1>1, <3>1, <3>2 DEF NewReactiveJob, ReactiveJob
  <2> QED BY <1>2, <2>2, <2>3, ObjectHead
<1>4. ASSUME NEW new \in ReactiveJob, WrittenByOthers(new, rj),
             rj' = new \/ rj' = Stored(new)
      PROVE  HeadInv'
  BY <1>1, <1>2, <1>4, ObjectWrites, StoredType, ObjectHead
<1>5. ASSUME NEW tmpl \in Templates, UserChangesTemplate(tmpl) PROVE HeadInv'
  <2>1. /\ WrittenByOthers([rj EXCEPT !.gen = rj.gen + 1, !.tmpl = tmpl], rj)
        /\ rj' = [rj EXCEPT !.gen = rj.gen + 1, !.tmpl = tmpl]
    BY <1>1, <1>5
       DEF UserChangesTemplate, WriteReactiveJob, ReactiveJob, WrittenByOthers
  <2>2. [rj EXCEPT !.gen = rj.gen + 1, !.tmpl = tmpl] \in ReactiveJob
    BY <1>1 DEF ReactiveJob
  <2> QED BY <1>4, <2>1, <2>2
<1>6. ASSUME UserDeletes PROVE HeadInv'
  <2>1. /\ WrittenByOthers([rj EXCEPT !.gen = rj.gen + 1, !.deleting = TRUE], rj)
        /\ rj' = Stored([rj EXCEPT !.gen = rj.gen + 1, !.deleting = TRUE])
    BY <1>1, <1>6 DEF UserDeletes, WriteReactiveJob, ReactiveJob, WrittenByOthers
  <2>2. [rj EXCEPT !.gen = rj.gen + 1, !.deleting = TRUE] \in ReactiveJob
    BY <1>1 DEF ReactiveJob
  <2> QED BY <1>4, <2>1, <2>2
<1>7. ASSUME ForeignFinalizerRemoved \/ ForeignFinalizerAdded PROVE HeadInv'
  <2>1. /\ \A foreign \in BOOLEAN :
             WrittenByOthers([rj EXCEPT !.foreign = foreign], rj)
        /\ \/ rj' = Stored([rj EXCEPT !.foreign = FALSE])
           \/ rj' = [rj EXCEPT !.foreign = TRUE]
    BY <1>1, <1>7
       DEF ForeignFinalizerRemoved, ForeignFinalizerAdded, WriteReactiveJob,
           ReactiveJob, WrittenByOthers
  <2>2. \A foreign \in BOOLEAN : [rj EXCEPT !.foreign = foreign] \in ReactiveJob
    BY <1>1 DEF ReactiveJob
  <2> QED BY <1>4, <2>1, <2>2
<1> QED BY <1>3, <1>5, <1>6, <1>7

\* The jobs change, and no worker has listed anything that is no longer so.
LEMMA JobsHead ==
  ASSUME HeadInv, UNCHANGED <<rj, rjHeld, run, disturbances>>, jobs' \in Table,
         due' \in [Workers -> BOOLEAN], SameRuns(jobs, jobs'),
         KeepsHeld(jobs, jobs'), AllMature(jobs, jobs')
  PROVE  HeadInv'
<1>1. jobs \in Table /\ HeadOwnerOK(rj, jobs)
  BY DEF HeadInv, ControllerTypeOK, ClusterTypeOK, Table
<1>2. rj.there /\ ~rj.deleting => HeadKept(rj.uid, jobs')
  BY <1>1, HeadKeptStays DEF HeadOwnerOK
<1>3. HeadOwnerOK(rj, jobs')
  BY <1>1, <1>2, HeadOwnerStays
<1>4. \A w \in Workers : ListWorkerOK(run[w], rj, jobs')
  BY <1>1, ListWorkerStays DEF HeadInv
<1>5. ControllerTypeOK' /\ CopyIsCurrent'
  BY DEF HeadInv, ControllerTypeOK, ClusterTypeOK, CopyIsCurrent, Table
<1> QED BY <1>3, <1>4, <1>5 DEF HeadInv

\* A job ends, is deleted or collected, and keeps the operator's finalizer.
LEMMA JobWritesHead ==
  ASSUME HeadInv, UNCHANGED run, NEW j \in JobNames,
         \/ \E result \in Results : JobFinishes(j, result)
         \/ \E propagation \in Propagations : JobDeleted(j, propagation)
         \/ JobCollected(j)
  PROVE  HeadInv'
<1>1. /\ jobs \in Table /\ UNCHANGED <<rj, rjHeld, run, disturbances>>
      /\ jobs[j].phase = "live" /\ jobs[j] \in Job
      /\ due' \in [Workers -> BOOLEAN]
  BY DEF HeadInv, ControllerTypeOK, ClusterTypeOK, Table, objectVars,
         JobFinishes, JobDeleted, JobCollected, WriteJob, Everyone, Live
<1>2. PICK job \in Job :
        /\ jobs' = [jobs EXCEPT ![j] = job]
        /\ Mature(jobs[j], job)
        /\ jobs[j].fin => job.fin /\ job.phase = "live"
  <2> DEFINE Good(job) == /\ job \in Job
                          /\ Mature(jobs[j], job)
                          /\ jobs[j].fin => job.fin /\ job.phase = "live"
  <2>1. ASSUME NEW result \in Results, JobFinishes(j, result)
        PROVE  \E job : Good(job) /\ jobs' = [jobs EXCEPT ![j] = job]
    <3>1. Good([jobs[j] EXCEPT !.result = result])
      BY <1>1, <2>1, ResultsAssumption DEF JobFinishes, Job, Mature
    <3> QED BY <2>1, <3>1 DEF JobFinishes, WriteJob
  <2>2. ASSUME NEW propagation \in Propagations, JobDeleted(j, propagation)
        PROVE  \E job : Good(job) /\ jobs' = [jobs EXCEPT ![j] = job]
    <3>1. Good(StoredJob([jobs[j] EXCEPT !.deleting = TRUE,
                                         !.fg = propagation = "Foreground"]))
      BY <1>1 DEF Job, StoredJob, Mature
    <3> QED BY <2>2, <3>1 DEF JobDeleted, WriteJob
  <2>3. ASSUME JobCollected(j)
        PROVE  \E job : Good(job) /\ jobs' = [jobs EXCEPT ![j] = job]
    <3>1. Good(StoredJob([jobs[j] EXCEPT !.fg = FALSE]))
      BY <1>1 DEF Job, StoredJob, Mature
    <3> QED BY <2>3, <3>1 DEF JobCollected, WriteJob
  <2> QED BY <2>1, <2>2, <2>3
<1>3. /\ jobs' \in Table /\ jobs'[j] = job
      /\ \A k \in JobNames \ {j} : jobs'[k] = jobs[k]
  BY <1>1, <1>2 DEF Table
<1>4. SameRuns(jobs, jobs') /\ KeepsHeld(jobs, jobs') /\ AllMature(jobs, jobs')
  BY <1>1, <1>2, <1>3 DEF SameRuns, KeepsHeld, Held, AllMature, Mature
<1> QED BY <1>1, <1>3, <1>4, JobsHead

LEMMA EnvironmentHead ==
  ASSUME HeadInv, Environment, UNCHANGED run
  PROVE  HeadInv'
<1>1. ASSUME Acceptance \/ Annotated PROVE HeadInv'
  <2>1. /\ UNCHANGED <<rj, jobs, run>> /\ rjHeld' \subseteq rjHeld
        /\ due' \in [Workers -> BOOLEAN] /\ disturbances' \in 0..MaxDisturbances
    BY <1>1, DisturbType
       DEF Acceptance, TemplateRejected, TemplateAccepted, Annotated, Everyone,
           objectVars, HeadInv, ControllerTypeOK, ClusterTypeOK
  <2> QED BY <2>1, HeadSame
<1> QED BY <1>1, ObjectWritesHead, JobWritesHead DEF Environment, Others

\* Writing an annotation changes nothing of the invariant.
LEMMA AnnotationHead ==
  ASSUME HeadInv, NEW j \in JobNames, AnnotationWritten(j)
  PROVE  HeadInv'
<1>1. /\ UNCHANGED <<rj, jobs, run>> /\ rjHeld' = rjHeld
      /\ due' \in [Workers -> BOOLEAN] /\ disturbances' \in 0..MaxDisturbances
  BY DEF AnnotationWritten, Everyone, objectVars, HeadInv, ControllerTypeOK,
         ClusterTypeOK
<1> QED BY <1>1, HeadSame

\* The version that starts has read nothing yet, and takes the hash of every job for
\* that of no template.
LEMMA UpgradeHead ==
  ASSUME HeadInv, Upgrade
  PROVE  HeadInv'
<1>1. /\ jobs \in Table /\ HeadOwnerOK(rj, jobs)
      /\ rj' = rj /\ rjHeld' = {} /\ disturbances' = disturbances
      /\ due' = Everyone /\ run' = [w \in Workers |-> NoRun]
      /\ jobs' = [j \in JobNames |-> [jobs[j] EXCEPT !.tmpl = None]]
  BY DEF Upgrade, HeadInv, ControllerTypeOK, ClusterTypeOK, Table
<1>2. /\ jobs' \in Table
      /\ \A j \in JobNames :
           /\ jobs'[j].phase = jobs[j].phase /\ jobs'[j].fin = jobs[j].fin
           /\ jobs'[j].uid = jobs[j].uid /\ jobs'[j].gen = jobs[j].gen
  <2>1. \A j \in JobNames : jobs[j] \in Job
    BY <1>1 DEF Table
  <2>2. \A j \in JobNames :
          LET read == [jobs[j] EXCEPT !.tmpl = None]
          IN  /\ read \in Job
              /\ read.phase = jobs[j].phase /\ read.fin = jobs[j].fin
              /\ read.uid = jobs[j].uid /\ read.gen = jobs[j].gen
    BY <2>1 DEF Job
  <2> QED BY <1>1, <2>2 DEF Table
<1>3. SameRuns(jobs, jobs') /\ KeepsHeld(jobs, jobs')
  BY <1>2 DEF SameRuns, KeepsHeld, Held
<1>4. HeadOwnerOK(rj, jobs')
  <2>1. rj.there /\ ~rj.deleting => HeadKept(rj.uid, jobs')
    BY <1>1, <1>2, <1>3, HeadKeptStays DEF HeadOwnerOK
  <2> QED BY <1>1, <1>2, <1>3, <2>1, HeadOwnerStays
<1>5. NoRun \in ReconcileRun /\ NoRun.pc = "idle"
  BY EmptyValuesType DEF NoRun
<1>6. ControllerTypeOK'
  BY <1>1, <1>2, <1>5
     DEF HeadInv, ControllerTypeOK, ClusterTypeOK, Everyone, Table
<1>7. CopyIsCurrent' /\ \A w \in Workers : ListWorkerOK(run'[w], rj', jobs')
  BY <1>1, <1>5 DEF CopyIsCurrent, ListWorkerOK
<1> QED BY <1>1, <1>4, <1>6, <1>7 DEF HeadInv
-----------------------------------------------------------------------------
(* The theorems *)

LEMMA AnnotatedInvInit == AnnotatedInit => AnnotatedInv
<1> SUFFICES ASSUME AnnotatedInit PROVE AnnotatedInv
  OBVIOUS
<1>1. /\ rj = NoReactiveJob(0) /\ rjHeld = {}
      /\ jobs = [j \in JobNames |-> NoJob]
      /\ \A w \in Workers : run[w] = NoRun
  BY DEF AnnotatedInit, Init, ClusterInit
<1>2. /\ ~rj.there
      /\ \A j \in JobNames : jobs[j].phase = "unused"
      /\ \A w \in Workers : run[w].pc = "idle"
  BY <1>1 DEF NoReactiveJob, NoJob, NoRun
<1>3. ControllerTypeOK
  BY ReadyInvInit DEF ReadyInv, AnnotatedInit
<1>4. HeadInv
  BY <1>1, <1>2, <1>3 DEF HeadInv, CopyIsCurrent, HeadOwnerOK, ListWorkerOK
<1>5. AnnotationTypeOK
  BY MisreadingsAssumption DEF AnnotationTypeOK, AnnotatedInit
<1> QED BY <1>4, <1>5 DEF AnnotatedInv

LEMMA AnnotationTypeNext ==
  ASSUME AnnotationTypeOK, [AnnotatedNext]_annotatedVars
  PROVE  AnnotationTypeOK'
<1>1. ASSUME NEW w \in Workers, AnnotatedReconcile(w) PROVE AnnotationTypeOK'
  BY <1>1
     DEF AnnotatedReconcile, ListAndSort, Outdated, OtherCall, AnnotationTypeOK
<1>2. ASSUME NEW j \in JobNames, GenerationDamaged(j) \/ GenerationRestored(j)
      PROVE  AnnotationTypeOK'
  BY <1>2, MisreadingsAssumption
     DEF GenerationDamaged, GenerationRestored, AnnotationWritten, Misread,
         AnnotationTypeOK
<1>3. CASE Upgrade
  BY <1>3, MisreadingsAssumption DEF Upgrade, Misread, AnnotationTypeOK
<1>4. CASE UNCHANGED annotationVars
  BY <1>4 DEF annotationVars, AnnotationTypeOK
<1> QED BY <1>1, <1>2, <1>3, <1>4 DEF AnnotatedNext, annotatedVars

LEMMA AnnotatedInvNext ==
  ASSUME OneWorker, AnnotatedInv, [AnnotatedNext]_annotatedVars
  PROVE  AnnotatedInv'
<1>1. AnnotationTypeOK'
  BY AnnotationTypeNext DEF AnnotatedInv
<1>2. ASSUME NEW w \in Workers, AnnotatedReconcile(w) \/ Crash(w) PROVE HeadInv'
  BY <1>2, ReconcileHead, CrashHead DEF AnnotatedInv
<1>3. ASSUME Environment, UNCHANGED run PROVE HeadInv'
  BY <1>3, EnvironmentHead DEF AnnotatedInv
<1>4. ASSUME NEW j \in JobNames, GenerationDamaged(j) \/ GenerationRestored(j)
      PROVE  HeadInv'
  BY <1>4, AnnotationHead DEF GenerationDamaged, GenerationRestored, AnnotatedInv
<1>5. ASSUME Upgrade PROVE HeadInv'
  BY <1>5, UpgradeHead DEF AnnotatedInv
<1>6. ASSUME UNCHANGED annotatedVars PROVE HeadInv'
  BY <1>6 DEF annotatedVars, vars, AnnotatedInv, HeadInv, ControllerTypeOK,
              ClusterTypeOK, CopyIsCurrent
<1>7. HeadInv'
  BY <1>2, <1>3, <1>4, <1>5, <1>6 DEF AnnotatedNext
<1> QED BY <1>1, <1>7 DEF AnnotatedInv

\* Whatever annotations are damaged, and however often the operator comes to read
\* hashes differently, a single worker (Reconcile, deleteReactiveJob) releases no job
\* but those behind the head of its sorted list, and gives up no object with jobs.
THEOREM AnnotatedInvariance ==
  ASSUME OneWorker
  PROVE  AnnotatedSpec => []AnnotatedInv
<1>1. AnnotatedInv /\ [AnnotatedNext]_annotatedVars => AnnotatedInv'
  BY AnnotatedInvNext
<1> QED BY <1>1, AnnotatedInvInit, PTL DEF AnnotatedSpec

\* The newest generation is never given up: the head of the list, which mustAtoi's
\* panic protects from a sort that cannot be relied on, is of it and holds the finalizer.
THEOREM NewestGenerationStays ==
  ASSUME OneWorker
  PROVE  AnnotatedSpec => []NewestGenerationIsKept
<1>1. AnnotatedInv => NewestGenerationIsKept
  <2> SUFFICES ASSUME AnnotatedInv, rj.there, ~rj.deleting, Runs # {}
               PROVE  \E j \in Newest(Runs, jobs) : Live(j) /\ jobs[j].fin
    BY DEF NewestGenerationIsKept
  <2>1. Runs = Made(rj.uid, jobs)
    BY DEF Runs, Used, Made
  <2>2. PICK k \in JobNames : IsHead(k, rj.uid, jobs)
    BY <2>1 DEF AnnotatedInv, HeadInv, HeadOwnerOK, HeadKept
  <2>3. k \in Newest(Runs, jobs) /\ Live(k) /\ jobs[k].fin
    BY <2>1, <2>2 DEF IsHead, Newest, Held, Live
  <2> QED BY <2>3
<1> QED BY <1>1, AnnotatedInvariance, PTL

\* deleteReactiveJob lists the jobs again before it clears the finalizer, so no job
\* outlives its ReactiveJob, whatever panics in between.
THEOREM AnnotatedJobsHaveOwners ==
  ASSUME OneWorker
  PROVE  AnnotatedSpec => []NoOrphan
<1>1. AnnotatedInv => NoOrphan
  BY DEF AnnotatedInv, HeadInv, HeadOwnerOK, NoOrphan, Live
<1> QED BY <1>1, AnnotatedInvariance, PTL

-----------------------------------------------------------------------------
(* Until something is misread *)

Unmisread == damaged = {} /\ moved = [w \in Workers |-> {}]

\* The sort is one of those that ReactiveJobController allows.
LEMMA SortIsNewest ==
  ASSUME OneWorker, HeadInv, Unmisread, NEW w \in Workers, run[w].pc = "list"
  PROVE  LET deps == Dependents(run[w].obj.uid)
         IN  /\ ~SortPanics(deps)
             /\ SortedFirst(deps) \in IF deps = {} THEN {None} ELSE Newest(deps, jobs)
<1> DEFINE deps == Dependents(run[w].obj.uid)
<1>1. ~SortPanics(deps)
  BY DEF Unmisread, SortPanics
<1>2. jobs \in Table /\ run[w] \in ReconcileRun
  BY DEF HeadInv, ControllerTypeOK, ClusterTypeOK, Table
<1>3. deps \in SUBSET Made(run[w].obj.uid, jobs) /\ deps \in SUBSET JobNames
  BY DEF Dependents, Made, Live
<1>4. run[w].obj.gen \in Nat
  BY <1>2 DEF ReconcileRun, ReactiveJob
<1>5. NoneAhead(run[w].obj, jobs)
  BY DEF HeadInv, ListWorkerOK, EarlierOK
<1>6. \A j \in deps : jobs[j].gen <= run[w].obj.gen
  BY <1>3, <1>5 DEF NoneAhead
<1>7. CASE deps = {}
  BY <1>1, <1>7 DEF SortedFirst
<1>8. CASE deps # {}
  <2> HIDE DEF deps
  <2>1. Heads(SortedFirst(deps), deps, jobs)
    BY <1>1, <1>2, <1>3, <1>4, <1>6, <1>8, SortedFirstFacts
  <2>2. \A j \in deps : jobs[j].gen \in Nat
    BY <1>2, <1>3 DEF Table, Job
  <2>3. SortedFirst(deps) \in Newest(deps, jobs)
    BY <2>1, <2>2 DEF Heads, Newest
  <2> QED BY <1>1, <1>8, <2>3 DEF deps
<1> QED BY <1>7, <1>8

LEMMA ReconcileUnmisread ==
  ASSUME OneWorker, HeadInv, Unmisread, NEW w \in Workers, AnnotatedReconcile(w)
  PROVE  Reconcile(w) /\ Unmisread'
<1>1. moved[w] = {} /\ [moved EXCEPT ![w] = {}] = moved
  BY DEF Unmisread
<1>2. CASE ListAndSort(w)
  <2>1. run[w].pc = "list"
    BY <1>2 DEF ListAndSort
  <2>2. ListJobs(w)
    BY <1>2, <2>1, SortIsNewest DEF ListAndSort, ListJobs
  <2> QED BY <1>1, <1>2, <2>2 DEF ListAndSort, AnnotatedReconcile, Reconcile, Unmisread
<1>3. CASE Outdated(w)
  BY <1>1, <1>3 DEF Outdated
<1>4. CASE OtherCall(w)
  BY <1>4 DEF OtherCall, AnnotatedReconcile, Unmisread
<1> QED BY <1>2, <1>3, <1>4 DEF AnnotatedReconcile

LEMMA UnmisreadNext ==
  ASSUME OneWorker, AnnotatedInv, misreadings = 0 => Unmisread,
         [AnnotatedNext]_annotatedVars, misreadings' = 0
  PROVE  Unmisread' /\ (Next \/ UNCHANGED vars)
<1>1. misreadings \in Nat
  BY MisreadingsAssumption DEF AnnotatedInv, AnnotationTypeOK
<1>2. ~Misread
  BY <1>1 DEF Misread
<1>3. misreadings = 0
  BY <1>2 DEF AnnotatedNext, AnnotatedReconcile, annotationVars, annotatedVars,
              GenerationDamaged, GenerationRestored, Upgrade
<1>4. Unmisread
  BY <1>3
<1>5. ASSUME NEW w \in Workers, AnnotatedReconcile(w)
      PROVE  Unmisread' /\ Next
  BY <1>4, <1>5, ReconcileUnmisread DEF AnnotatedInv, Next
<1>6. ASSUME (\E w \in Workers : Crash(w)) \/ (Environment /\ UNCHANGED run),
             UNCHANGED annotationVars
      PROVE  Unmisread' /\ Next
  BY <1>4, <1>6 DEF annotationVars, Unmisread, Next
<1>7. ~(\E j \in JobNames : GenerationDamaged(j) \/ GenerationRestored(j)) /\ ~Upgrade
  BY <1>2, <1>4 DEF GenerationDamaged, GenerationRestored, Upgrade, Unmisread
<1>8. CASE UNCHANGED annotatedVars
  BY <1>4, <1>8 DEF annotatedVars, annotationVars, Unmisread
<1> QED BY <1>5, <1>6, <1>7, <1>8 DEF AnnotatedNext

LEMMA UntilMisread ==
  ASSUME OneWorker
  PROVE  AnnotatedSpec => [](AnnotatedInv /\ (misreadings = 0 => Unmisread))
<1>1. AnnotatedInit => (misreadings = 0 => Unmisread)
  BY DEF AnnotatedInit, Unmisread
<1>2. /\ AnnotatedInv /\ (misreadings = 0 => Unmisread)
      /\ [AnnotatedNext]_annotatedVars
      => (misreadings = 0 => Unmisread)'
  BY UnmisreadNext
<1> QED BY <1>1, <1>2, AnnotatedInvariance, PTL DEF AnnotatedSpec

\* As long as every annotation reads as the operator wrote it, Reconcile with its sort
\* and its versions of jobs is Reconcile as ReactiveJobController has it, for any number
\* of misreadings that may come.
THEOREM ReconcilesUntilThen ==
  ASSUME OneWorker
  PROVE  AnnotatedSpec => ReconcilesUntilMisread
<1>1. /\ AnnotatedInv /\ (misreadings = 0 => Unmisread)
      /\ [AnnotatedNext]_annotatedVars
      => [misreadings' = 0 => Next \/ UNCHANGED vars]_annotatedVars
  BY UnmisreadNext
<1> QED BY <1>1, UntilMisread, PTL DEF AnnotatedSpec, ReconcilesUntilMisread

\* Where nothing is ever misread, all that was proved of ReactiveJobController holds:
\* the detailed sort implements its open choice among jobs of one generation.
THEOREM NoMisreadingsNoDifference ==
  ASSUME OneWorker, MaxMisreadings = 0
  PROVE  AnnotatedSpec => Spec
<1>1. AnnotatedInv => misreadings = 0
  BY DEF AnnotatedInv, AnnotationTypeOK
<1>2. /\ [misreadings' = 0 => Next \/ UNCHANGED vars]_annotatedVars
      /\ (misreadings = 0)'
      => [Next]_vars
  BY DEF annotatedVars, vars
<1>3. AnnotatedInit => Init
  BY DEF AnnotatedInit
<1> QED BY <1>1, <1>2, <1>3, AnnotatedInvariance, ReconcilesUntilThen, PTL
        DEF AnnotatedSpec, ReconcilesUntilMisread, Spec
=============================================================================
