--------------------- MODULE ReactiveJobElection_proofs ---------------------
(***************************************************************************)
(* Proof that processes with leader election implement the reconciler with *)
(* a single worker: seen through the process that is active, every step of *)
(* a manager is a step of that worker or none. So the theorems about the   *)
(* single worker, its refinement of ReactiveJobPromise included, are       *)
(* theorems about these processes.                                         *)
(***************************************************************************)
EXTENDS ReactiveJobManager_proofs, ReactiveJobSingle

-----------------------------------------------------------------------------
(* What Reconcile computes is the same for whichever worker *)

LEMMA SameSetState ==
  \A status, state : Single!SetState(status, state) = SetState(status, state)
<1>1. \A state : Single!ReadyCondition(state) = ReadyCondition(state)
  BY DEF Single!ReadyCondition, ReadyCondition
<1> QED BY <1>1 DEF Single!SetState, SetState

LEMMA SameNone ==
  /\ Single!None = None
  /\ Single!NoJob = NoJob
  /\ \A uid : Single!NoReactiveJob(uid) = NoReactiveJob(uid)
  /\ Single!NoRun = NoRun
<1>1. /\ Single!None = None /\ Single!NoJob = NoJob
      /\ \A uid : Single!NoReactiveJob(uid) = NoReactiveJob(uid)
  BY DEF Single!None, None, Single!NoJob, NoJob, Single!NoReactiveJob, NoReactiveJob,
         Single!FreshStatus, FreshStatus
<1> QED BY <1>1 DEF Single!NoRun, NoRun

LEMMA SameReport ==
  /\ \A r : Single!WithoutList(r) = WithoutList(r)
  /\ \A r, state : Single!Report(r, state) = Report(r, state)
  /\ \A r : Single!Fail(r) = Fail(r)
<1>1. \A r : Single!WithoutList(r) = WithoutList(r)
  BY SameNone DEF Single!WithoutList, WithoutList
<1>2. \A r, state : Single!Report(r, state) = Report(r, state)
  BY <1>1, SameSetState DEF Single!Report, Report
<1> QED BY <1>1, <1>2 DEF Single!Fail, Fail

LEMMA SameRelease ==
  /\ \A S, table : Single!Newest(S, table) = Newest(S, table)
  /\ \A r : Single!ReleaseNext(r) = ReleaseNext(r)
  /\ \A r : Single!CreateOrUpdate(r) = CreateOrUpdate(r)
<1>1. \A r : Single!Listed(r) = Listed(r)
  BY DEF Single!Listed, Listed
<1>2. \A job : Single!Outcome(job) = Outcome(job)
  BY DEF Single!Outcome, Outcome
<1>3. \A r : Single!ReportJob(r) = ReportJob(r)
  BY <1>2, SameReport DEF Single!ReportJob, ReportJob
<1>4. \A r : Single!ReleaseNext(r) = ReleaseNext(r)
  BY <1>3 DEF Single!ReleaseNext, ReleaseNext
<1>5. \A r : Single!Superseded(r) = Superseded(r)
  BY <1>1 DEF Single!Superseded, Superseded
<1>6. \A r : Single!NeedsJob(r) = NeedsJob(r)
  BY SameNone DEF Single!NeedsJob, NeedsJob
<1>7. \A r : Single!CreateOrUpdate(r) = CreateOrUpdate(r)
  BY <1>4, <1>5, <1>6, SameReport DEF Single!CreateOrUpdate, CreateOrUpdate
<1> QED BY <1>4, <1>7 DEF Single!Newest, Newest

LEMMA SameDispatch ==
  /\ \A r : Single!PurgeNext(r) = PurgeNext(r)
  /\ \A r : Single!Dispatch(r) = Dispatch(r)
<1>1. \A r : Single!Listed(r) = Listed(r)
  BY DEF Single!Listed, Listed
<1>2. \A r : Single!ToPurge(r) = ToPurge(r)
  BY <1>1 DEF Single!ToPurge, ToPurge
<1>3. \A r : Single!PurgeNext(r) = PurgeNext(r)
  BY <1>2, SameReport DEF Single!PurgeNext, PurgeNext
<1>4. \A r : Single!Delete(r) = Delete(r)
  BY <1>1, <1>3, SameNone DEF Single!Delete, Delete
<1>5. \A r : Single!Dispatch(r) = Dispatch(r)
  BY <1>4, SameRelease, SameReport DEF Single!Dispatch, Dispatch
<1> QED BY <1>3, <1>5

LEMMA SameObjects ==
  /\ \A obj : Single!Stored(obj) = Stored(obj)
  /\ \A job : Single!StoredJob(job) = StoredJob(job)
  /\ \A obj : Single!JobFor(obj) = JobFor(obj)
  /\ \A obj : Single!Acknowledge(obj) = Acknowledge(obj)
  /\ \A obj : Single!FirstStep(obj) = FirstStep(obj)
  /\ \A uid, tmpl, foreign :
       Single!NewReactiveJob(uid, tmpl, foreign) = NewReactiveJob(uid, tmpl, foreign)
<1>1. \A obj : Single!Stored(obj) = Stored(obj)
  BY SameNone DEF Single!Stored, Stored
<1>2. \A job : Single!StoredJob(job) = StoredJob(job)
  BY DEF Single!StoredJob, StoredJob
<1>3. \A obj : Single!JobFor(obj) = JobFor(obj)
  BY SameNone DEF Single!JobFor, JobFor
<1>4. \A obj : Single!Acknowledge(obj) = Acknowledge(obj)
  BY DEF Single!Acknowledge, Acknowledge
<1>5. \A obj : Single!FirstStep(obj) = FirstStep(obj)
  BY SameNone, SameReport DEF Single!FirstStep, FirstStep
<1>6. \A uid, tmpl, foreign :
        Single!NewReactiveJob(uid, tmpl, foreign) = NewReactiveJob(uid, tmpl, foreign)
  BY DEF Single!NewReactiveJob, NewReactiveJob, Single!FreshStatus, FreshStatus,
         Single!None, None
<1> QED BY <1>1, <1>2, <1>3, <1>4, <1>5, <1>6

LEMMA SameCluster ==
  /\ \A tmpl : Single!DryRun(tmpl) = DryRun(tmpl)
  /\ \A obj : Single!Validate(obj) = Validate(obj)
  /\ \A j : Single!Live(j) = Live(j) /\ Single!Used(j) = Used(j)
  /\ \A uid : Single!Dependents(uid) = Dependents(uid)
  /\ Single!Disturb = Disturb
  /\ \A old, new : Single!ReactiveJobPredicate(old, new) = ReactiveJobPredicate(old, new)
BY DEF Single!DryRun, DryRun, Single!Validate, Validate, Single!Live, Live, Single!Used,
       Used, Single!Dependents, Dependents, Single!Disturb, Disturb,
       Single!ReactiveJobPredicate, ReactiveJobPredicate

-----------------------------------------------------------------------------
(* The active process *)

\* The world sees the reconciler of w.
Shown(w) ==
  /\ OneRun = [v \in {One} |-> run[w]]
  /\ OneDue = [v \in {One} |-> due[w]]
  /\ OneHeld = IF w \in rjHeld THEN {One} ELSE {}

\* The worker the world sees is idle and has the object to read.
Unshown ==
  /\ OneRun = [v \in {One} |-> NoRun]
  /\ OneDue = [v \in {One} |-> TRUE]
  /\ OneHeld = {}

LEMMA ActiveIsShown ==
  ASSUME LeaseOK, NEW w \in Workers, phase[w] \in {"leading", "stopping"}
  PROVE  Reconciling = {w} /\ Shown(w)
<1>1. Reconciling = {w}
  BY DEF LeaseOK, Renewing, Reconciling
<1>2. Active = w
  BY <1>1 DEF Active
<1> QED BY <1>1, <1>2 DEF Shown, OneRun, OneDue, OneHeld

LEMMA NobodyIsShown ==
  ASSUME Reconciling = {} PROVE Unshown
BY DEF Unshown, OneRun, OneDue, OneHeld

\* The types of what the reconcilers have.
Typed == /\ run \in [Workers -> ReconcileRun]
         /\ due \in [Workers -> BOOLEAN]
         /\ rjHeld \subseteq Workers

LEMMA ContinueShown ==
  ASSUME NEW w \in Workers, Typed, Shown(w), Shown(w)', NEW r
  PROVE  /\ Continue(w, r) => Single!Continue(One, r)
         /\ Disturbed(w) => Single!Disturbed(One)
         /\ Answered(w, r) => Single!Answered(One, r)
<1>1. OneRun[One] = run[w]
  BY DEF Shown
<1>2. \A s : run' = [run EXCEPT ![w] = s] => OneRun' = [OneRun EXCEPT ![One] = s]
  BY DEF Shown, Typed
<1>3. Continue(w, r) => Single!Continue(One, r)
  BY <1>2 DEF Continue, Single!Continue
<1>4. Disturbed(w) => Single!Disturbed(One)
  <2> SUFFICES ASSUME Disturbed(w) PROVE Single!Disturbed(One)
    OBVIOUS
  <2>1. run' = [run EXCEPT ![w] = Fail(run[w])] /\ Disturb
    BY DEF Disturbed
  <2>2. OneRun' = [OneRun EXCEPT ![One] = Fail(OneRun[One])]
    BY <1>1, <1>2, <2>1
  <2> QED BY <2>1, <2>2, SameReport, SameCluster DEF Single!Disturbed
<1> QED BY <1>3, <1>4 DEF Answered, Single!Answered

LEMMA EffectsShown ==
  ASSUME NEW w \in Workers, Typed, Shown(w), Shown(w)'
  PROVE  /\ NoEffect => Single!NoEffect
         /\ UNCHANGED objectVars => Single!objectVars' = Single!objectVars
         /\ \A j, job : WriteJob(j, job) => Single!WriteJob(j, job)
         /\ \A obj : WriteReactiveJob(obj, {w}) => Single!WriteReactiveJob(obj, {One})
         /\ \A obj : WriteReactiveJob(obj, {}) => Single!WriteReactiveJob(obj, {})
<1>1. due' = due => OneDue' = OneDue
  BY DEF Shown
<1>2. due' = Everyone => OneDue' = Single!Everyone
  BY DEF Shown, Typed, Everyone, Single!Everyone
<1>3. rjHeld' = rjHeld => OneHeld' = OneHeld
  BY DEF Shown
<1>4. rjHeld' = {w} => OneHeld' = {One}
  BY DEF Shown
<1>5. rjHeld' = {} => OneHeld' = {}
  BY DEF Shown
<1>6. UNCHANGED objectVars => Single!objectVars' = Single!objectVars
  BY <1>3 DEF objectVars, Single!objectVars
<1>7. NoEffect => Single!NoEffect
  BY <1>1, <1>6 DEF NoEffect, Single!NoEffect
<1>8. \A j, job : WriteJob(j, job) => Single!WriteJob(j, job)
  BY <1>2 DEF WriteJob, Single!WriteJob
<1>9. \A obj : WriteReactiveJob(obj, {w}) => Single!WriteReactiveJob(obj, {One})
  BY <1>1, <1>2, <1>4, SameCluster DEF WriteReactiveJob, Single!WriteReactiveJob
<1>10. \A obj : WriteReactiveJob(obj, {}) => Single!WriteReactiveJob(obj, {})
  BY <1>1, <1>2, <1>5, SameCluster DEF WriteReactiveJob, Single!WriteReactiveJob
<1> QED BY <1>6, <1>7, <1>8, <1>9, <1>10

LEMMA ChecksShown ==
  ASSUME NEW w \in Workers, Shown(w)
  PROVE  /\ OneRun[One] = run[w]
         /\ OneDue[One] = due[w]
         /\ Single!CurrentReactiveJob(One) <=> CurrentReactiveJob(w)
         /\ \A obj : Single!Accepted(One, obj) <=> Accepted(w, obj)
         /\ \A j : Single!CurrentJob(One, j) <=> CurrentJob(w, j)
<1>1. OneRun[One] = run[w] /\ OneDue[One] = due[w]
  BY DEF Shown
<1>2. Single!CurrentReactiveJob(One) <=> CurrentReactiveJob(w)
  BY DEF Shown, Single!CurrentReactiveJob, CurrentReactiveJob
<1>3. \A obj : Single!Accepted(One, obj) <=> Accepted(w, obj)
  BY <1>2, SameCluster DEF Single!Accepted, Accepted
<1>4. \A j : Single!CurrentJob(One, j) <=> CurrentJob(w, j)
  BY <1>1 DEF Single!CurrentJob, CurrentJob
<1> QED BY <1>1, <1>2, <1>3, <1>4

-----------------------------------------------------------------------------
(* The calls of Reconcile *)

LEMMA GetShown ==
  ASSUME NEW w \in Workers, Typed, Shown(w), Shown(w)', Get(w)
  PROVE  Single!Get(One)
<1>1. OneRun[One] = run[w] /\ OneDue[One] = due[w]
  BY ChecksShown
<1>2. run[w].pc = "idle" /\ due[w] /\ UNCHANGED <<rj, jobs>>
  BY DEF Get
<1>3. CASE /\ rj.there
           /\ rjHeld' = rjHeld \cup {w}
           /\ due' = [due EXCEPT ![w] = FALSE]
           /\ Continue(w, FirstStep(Acknowledge(rj)))
  <2>1. Single!Continue(One, Single!FirstStep(Single!Acknowledge(rj)))
    BY <1>3, ContinueShown, SameObjects
  <2>2. OneHeld' = OneHeld \cup {One}
    BY <1>3 DEF Shown
  <2>3. OneDue' = [OneDue EXCEPT ![One] = FALSE]
    BY <1>3 DEF Shown, Typed
  <2> QED BY <1>1, <1>2, <1>3, <2>1, <2>2, <2>3 DEF Single!Get
<1>4. CASE /\ ~rj.there
           /\ due' = [due EXCEPT ![w] = FALSE]
           /\ UNCHANGED <<rjHeld, run, disturbances>>
  <2>1. OneDue' = [OneDue EXCEPT ![One] = FALSE] /\ UNCHANGED <<OneHeld, OneRun>>
    BY <1>4 DEF Shown, Typed
  <2> QED BY <1>1, <1>2, <1>4, <2>1 DEF Single!Get
<1>5. CASE Disturb /\ UNCHANGED <<rjHeld, run, due>>
  <2>1. UNCHANGED <<OneHeld, OneRun, OneDue>>
    BY <1>5 DEF Shown
  <2> QED BY <1>1, <1>2, <1>5, <2>1, SameCluster DEF Single!Get
<1> QED BY <1>3, <1>4, <1>5 DEF Get

LEMMA ListShown ==
  ASSUME NEW w \in Workers, Typed, Shown(w), Shown(w)', ListJobs(w)
  PROVE  Single!ListJobs(One)
<1> DEFINE deps == Dependents(run[w].obj.uid)
           seen == [j \in JobNames |-> IF j \in deps THEN jobs[j] ELSE NoJob]
<1>1. OneRun[One] = run[w] /\ run[w].pc = "list"
  BY ChecksShown DEF ListJobs
<1>2. Single!NoEffect
  BY EffectsShown DEF ListJobs
<1>3. \/ \E first \in IF deps = {} THEN {None} ELSE Newest(deps, jobs) :
           Continue(w, Dispatch([run[w] EXCEPT !.list = seen, !.first = first]))
      \/ Disturbed(w)
  BY DEF ListJobs
<1>4. \/ \E first \in IF deps = {} THEN {None} ELSE Newest(deps, jobs) :
           Single!Continue(One, Dispatch([run[w] EXCEPT !.list = seen, !.first = first]))
      \/ Single!Disturbed(One)
  BY <1>3, ContinueShown
<1> HIDE DEF seen
<1>5. seen = [j \in JobNames |->
                IF j \in Single!Dependents(OneRun[One].obj.uid) THEN jobs[j]
                                                               ELSE Single!NoJob]
  BY <1>1, SameCluster, SameNone DEF seen
<1>6. deps = Single!Dependents(OneRun[One].obj.uid)
  BY <1>1, SameCluster
<1> HIDE DEF deps
<1> QED BY <1>1, <1>2, <1>4, <1>5, <1>6, SameDispatch, SameRelease, SameNone
        DEF Single!ListJobs

LEMMA SetFinalizerShown ==
  ASSUME NEW w \in Workers, Typed, Shown(w), Shown(w)', SetFinalizer(w)
  PROVE  Single!SetFinalizer(One)
<1> DEFINE obj == [rj EXCEPT !.fin = TRUE]
<1>1. OneRun[One] = run[w] /\ run[w].pc = "setFinalizer"
  BY ChecksShown DEF SetFinalizer
<1>2. Single!Accepted(One, obj) <=> Accepted(w, obj)
  BY ChecksShown
<1>3. CASE /\ Accepted(w, obj)
           /\ WriteReactiveJob(obj, {w})
           /\ Continue(w, CreateOrUpdate([run[w] EXCEPT !.obj = obj]))
           /\ UNCHANGED jobs
  <2>1. /\ Single!WriteReactiveJob(obj, {One})
        /\ Single!Continue(One, Single!CreateOrUpdate([OneRun[One] EXCEPT !.obj = obj]))
    BY <1>1, <1>3, ContinueShown, EffectsShown, SameRelease
  <2> QED BY <1>1, <1>2, <1>3, <2>1 DEF Single!SetFinalizer
<1>4. CASE /\ Accepted(w, obj)
           /\ WriteReactiveJob(obj, {})
           /\ Disturbed(w)
           /\ UNCHANGED jobs
  <2>1. Single!WriteReactiveJob(obj, {}) /\ Single!Disturbed(One)
    BY <1>4, ContinueShown, EffectsShown
  <2> QED BY <1>1, <1>2, <1>4, <2>1 DEF Single!SetFinalizer
<1>5. CASE ~Accepted(w, obj) /\ Continue(w, Fail(run[w])) /\ NoEffect
  <2>1. Single!Continue(One, Single!Fail(OneRun[One])) /\ Single!NoEffect
    BY <1>1, <1>5, ContinueShown, EffectsShown, SameReport
  <2> QED BY <1>1, <1>2, <1>5, <2>1 DEF Single!SetFinalizer
<1>6. CASE Disturbed(w) /\ NoEffect
  <2>1. Single!Disturbed(One) /\ Single!NoEffect
    BY <1>6, ContinueShown, EffectsShown
  <2> QED BY <1>1, <2>1 DEF Single!SetFinalizer
<1> QED BY <1>3, <1>4, <1>5, <1>6 DEF SetFinalizer

LEMMA CreateShown ==
  ASSUME NEW w \in Workers, Typed, Shown(w), Shown(w)', CreateJob(w)
  PROVE  Single!CreateJob(One)
<1>1. OneRun[One] = run[w] /\ run[w].pc = "create"
  BY ChecksShown DEF CreateJob
<1>2. ASSUME NEW j \in JobNames, ~Used(j), DryRun(run[w].obj.tmpl),
             WriteJob(j, JobFor(run[w].obj)),
             Answered(w, Report(run[w], "Processing")), UNCHANGED objectVars
      PROVE  Single!CreateJob(One)
  <2>1. /\ Single!WriteJob(j, Single!JobFor(OneRun[One].obj))
        /\ Single!Answered(One, Single!Report(OneRun[One], "Processing"))
        /\ UNCHANGED Single!objectVars
    BY <1>1, <1>2, ContinueShown, EffectsShown, SameObjects, SameReport
  <2>2. ~Single!Used(j) /\ Single!DryRun(OneRun[One].obj.tmpl)
    BY <1>1, <1>2, SameCluster
  <2> QED BY <1>1, <2>1, <2>2 DEF Single!CreateJob
<1>3. CASE ~DryRun(run[w].obj.tmpl) /\ Continue(w, Fail(run[w])) /\ NoEffect
  <2>1. /\ Single!Continue(One, Single!Fail(OneRun[One])) /\ Single!NoEffect
        /\ ~Single!DryRun(OneRun[One].obj.tmpl)
    BY <1>1, <1>3, ContinueShown, EffectsShown, SameReport, SameCluster
  <2> QED BY <1>1, <2>1 DEF Single!CreateJob
<1>4. CASE Disturbed(w) /\ NoEffect
  <2>1. Single!Disturbed(One) /\ Single!NoEffect
    BY <1>4, ContinueShown, EffectsShown
  <2> QED BY <1>1, <2>1 DEF Single!CreateJob
<1> QED BY <1>2, <1>3, <1>4 DEF CreateJob

LEMMA ReleaseShown ==
  ASSUME NEW w \in Workers, Typed, Shown(w), Shown(w)', ReleaseJob(w)
  PROVE  Single!ReleaseJob(One)
<1>1. OneRun[One] = run[w] /\ run[w].pc = "release"
  BY ChecksShown DEF ReleaseJob
<1>2. PICK j \in Newest(run[w].todo, run[w].list) :
        \/ /\ CurrentJob(w, j)
           /\ WriteJob(j, StoredJob([jobs[j] EXCEPT !.fin = FALSE]))
           /\ Answered(w, ReleaseNext([run[w] EXCEPT !.todo = @ \ {j}]))
           /\ UNCHANGED objectVars
        \/ ~CurrentJob(w, j) /\ Continue(w, Fail(run[w])) /\ NoEffect
        \/ Disturbed(w) /\ NoEffect
  BY DEF ReleaseJob
<1>3. /\ j \in Single!Newest(OneRun[One].todo, OneRun[One].list)
      /\ Single!CurrentJob(One, j) <=> CurrentJob(w, j)
  BY <1>1, ChecksShown, SameRelease
<1>4. CASE /\ CurrentJob(w, j)
           /\ WriteJob(j, StoredJob([jobs[j] EXCEPT !.fin = FALSE]))
           /\ Answered(w, ReleaseNext([run[w] EXCEPT !.todo = @ \ {j}]))
           /\ UNCHANGED objectVars
  <2>1. /\ Single!WriteJob(j, Single!StoredJob([jobs[j] EXCEPT !.fin = FALSE]))
        /\ Single!Answered(One, Single!ReleaseNext([OneRun[One] EXCEPT !.todo = @ \ {j}]))
        /\ UNCHANGED Single!objectVars
    BY <1>1, <1>4, ContinueShown, EffectsShown, SameObjects, SameRelease
  <2> QED BY <1>1, <1>3, <1>4, <2>1 DEF Single!ReleaseJob
<1>5. CASE ~CurrentJob(w, j) /\ Continue(w, Fail(run[w])) /\ NoEffect
  <2>1. Single!Continue(One, Single!Fail(OneRun[One])) /\ Single!NoEffect
    BY <1>1, <1>5, ContinueShown, EffectsShown, SameReport
  <2> QED BY <1>1, <1>3, <1>5, <2>1 DEF Single!ReleaseJob
<1>6. CASE Disturbed(w) /\ NoEffect
  <2>1. Single!Disturbed(One) /\ Single!NoEffect
    BY <1>6, ContinueShown, EffectsShown
  <2> QED BY <1>1, <1>3, <2>1 DEF Single!ReleaseJob
<1> QED BY <1>2, <1>4, <1>5, <1>6

LEMMA PurgeShown ==
  ASSUME NEW w \in Workers, Typed, Shown(w), Shown(w)', PurgeJob(w)
  PROVE  Single!PurgeJob(One)
<1>1. OneRun[One] = run[w] /\ run[w].pc = "purge"
  BY ChecksShown DEF PurgeJob
<1>2. PICK j \in Newest(run[w].todo, run[w].list) :
        \/ /\ run[w].list[j].fin
           /\ CurrentJob(w, j)
           /\ WriteJob(j, StoredJob([jobs[j] EXCEPT !.fin = FALSE]))
           /\ Answered(w, PurgeNext([run[w] EXCEPT !.list[j].fin = FALSE]))
           /\ UNCHANGED objectVars
        \/ /\ ~run[w].list[j].fin
           /\ Live(j)
           /\ WriteJob(j, [jobs[j] EXCEPT !.deleting = TRUE, !.fg = TRUE])
           /\ Answered(w, PurgeNext([run[w] EXCEPT !.list[j].deleting = TRUE]))
           /\ UNCHANGED objectVars
        \/ /\ IF run[w].list[j].fin THEN ~CurrentJob(w, j) ELSE ~Live(j)
           /\ Continue(w, Fail(run[w]))
           /\ NoEffect
        \/ Disturbed(w) /\ NoEffect
  BY DEF PurgeJob
<1>3. /\ j \in Single!Newest(OneRun[One].todo, OneRun[One].list)
      /\ Single!CurrentJob(One, j) <=> CurrentJob(w, j)
      /\ Single!Live(j) <=> Live(j)
  BY <1>1, ChecksShown, SameRelease, SameCluster
<1>4. CASE /\ run[w].list[j].fin
           /\ CurrentJob(w, j)
           /\ WriteJob(j, StoredJob([jobs[j] EXCEPT !.fin = FALSE]))
           /\ Answered(w, PurgeNext([run[w] EXCEPT !.list[j].fin = FALSE]))
           /\ UNCHANGED objectVars
  <2>1. /\ Single!WriteJob(j, Single!StoredJob([jobs[j] EXCEPT !.fin = FALSE]))
        /\ Single!Answered(One, Single!PurgeNext([OneRun[One] EXCEPT !.list[j].fin = FALSE]))
        /\ UNCHANGED Single!objectVars
    BY <1>1, <1>4, ContinueShown, EffectsShown, SameObjects, SameDispatch
  <2> QED BY <1>1, <1>3, <1>4, <2>1 DEF Single!PurgeJob
<1>5. CASE /\ ~run[w].list[j].fin
           /\ Live(j)
           /\ WriteJob(j, [jobs[j] EXCEPT !.deleting = TRUE, !.fg = TRUE])
           /\ Answered(w, PurgeNext([run[w] EXCEPT !.list[j].deleting = TRUE]))
           /\ UNCHANGED objectVars
  <2>1. /\ Single!WriteJob(j, [jobs[j] EXCEPT !.deleting = TRUE, !.fg = TRUE])
        /\ Single!Answered(One,
             Single!PurgeNext([OneRun[One] EXCEPT !.list[j].deleting = TRUE]))
        /\ UNCHANGED Single!objectVars
    BY <1>1, <1>5, ContinueShown, EffectsShown, SameDispatch
  <2> QED BY <1>1, <1>3, <1>5, <2>1 DEF Single!PurgeJob
<1>6. CASE /\ IF run[w].list[j].fin THEN ~CurrentJob(w, j) ELSE ~Live(j)
           /\ Continue(w, Fail(run[w]))
           /\ NoEffect
  <2>1. Single!Continue(One, Single!Fail(OneRun[One])) /\ Single!NoEffect
    BY <1>1, <1>6, ContinueShown, EffectsShown, SameReport
  <2> QED BY <1>1, <1>3, <1>6, <2>1 DEF Single!PurgeJob
<1>7. CASE Disturbed(w) /\ NoEffect
  <2>1. Single!Disturbed(One) /\ Single!NoEffect
    BY <1>7, ContinueShown, EffectsShown
  <2> QED BY <1>1, <1>3, <2>1 DEF Single!PurgeJob
<1> QED BY <1>2, <1>4, <1>5, <1>6, <1>7

LEMMA ReturnShown ==
  ASSUME NEW w \in Workers, Typed, Shown(w), Shown(w)', Return(w)
  PROVE  Single!Return(One)
<1>1. OneRun' = [OneRun EXCEPT ![One] = NoRun]
  BY DEF Return, Shown, Typed
<1> QED BY <1>1, SameNone DEF Return, Single!Return

LEMMA ClearFinalizerShown ==
  ASSUME NEW w \in Workers, Typed, Shown(w), Shown(w)', ClearFinalizer(w)
  PROVE  Single!ClearFinalizer(One)
<1> DEFINE obj == [rj EXCEPT !.fin = FALSE]
<1>1. /\ OneRun[One] = run[w] /\ run[w].pc = "clearFinalizer"
      /\ Single!Accepted(One, obj) <=> Accepted(w, obj)
  BY ChecksShown DEF ClearFinalizer
<1>2. CASE /\ Accepted(w, obj)
           /\ WriteReactiveJob(Stored(obj), {})
           /\ \/ Return(w) /\ UNCHANGED disturbances
              \/ Disturbed(w) /\ UNCHANGED jobs
  <2>1. /\ Single!WriteReactiveJob(Single!Stored(obj), {})
        /\ \/ Single!Return(One) /\ UNCHANGED disturbances
           \/ Single!Disturbed(One) /\ UNCHANGED jobs
    BY <1>2, ContinueShown, EffectsShown, ReturnShown, SameObjects
  <2> QED BY <1>1, <1>2, <2>1 DEF Single!ClearFinalizer
<1>3. CASE ~Accepted(w, obj) /\ Continue(w, Fail(run[w])) /\ NoEffect
  <2>1. Single!Continue(One, Single!Fail(OneRun[One])) /\ Single!NoEffect
    BY <1>1, <1>3, ContinueShown, EffectsShown, SameReport
  <2> QED BY <1>1, <1>3, <2>1 DEF Single!ClearFinalizer
<1>4. CASE Disturbed(w) /\ NoEffect
  <2>1. Single!Disturbed(One) /\ Single!NoEffect
    BY <1>4, ContinueShown, EffectsShown
  <2> QED BY <1>1, <2>1 DEF Single!ClearFinalizer
<1> QED BY <1>2, <1>3, <1>4 DEF ClearFinalizer

LEMMA RequeuedShown ==
  ASSUME NEW w \in Workers, Typed, Shown(w), Shown(w)', due' = Requeued(w)
  PROVE  OneDue' = Single!Requeued(One)
BY DEF Requeued, Single!Requeued, Shown, Typed

LEMMA UpdateStatusShown ==
  ASSUME NEW w \in Workers, Typed, Shown(w), Shown(w)', UpdateStatus(w)
  PROVE  Single!UpdateStatus(One)
<1>1. /\ OneRun[One] = run[w] /\ run[w].pc = "status"
      /\ Single!CurrentReactiveJob(One) <=> CurrentReactiveJob(w)
  BY ChecksShown DEF UpdateStatus
<1>2. OneDue' = Single!Requeued(One) /\ Single!Return(One)
  BY RequeuedShown, ReturnShown DEF UpdateStatus
<1>3. CASE /\ CurrentReactiveJob(w)
           /\ rj' = [rj EXCEPT !.status = run[w].obj.status]
           /\ rjHeld' \in {{}} \cup {S \in {rjHeld} : rj' = rj}
           /\ UNCHANGED disturbances
  <2>1. OneHeld' \in {{}} \cup {S \in {OneHeld} : rj' = rj}
    BY <1>3 DEF Shown
  <2> QED BY <1>1, <1>2, <1>3, <2>1 DEF Single!UpdateStatus
<1>4. CASE ~CurrentReactiveJob(w) /\ UNCHANGED <<objectVars, disturbances>>
  <2>1. UNCHANGED Single!objectVars
    BY <1>4, EffectsShown
  <2> QED BY <1>1, <1>2, <1>4, <2>1 DEF Single!UpdateStatus
<1>5. CASE rjHeld' = rjHeld \ {w} /\ Disturb /\ UNCHANGED rj
  <2>1. OneHeld' = OneHeld \ {One}
    BY <1>5 DEF Shown
  <2> QED BY <1>1, <1>2, <1>5, <2>1, SameCluster DEF Single!UpdateStatus
<1> QED BY <1>3, <1>4, <1>5 DEF UpdateStatus

LEMMA ReconcileShown ==
  ASSUME NEW w \in Workers, Typed, Shown(w), Shown(w)', Reconcile(w)
  PROVE  Single!Next
<1>1. Single!Reconcile(One)
  BY GetShown, ListShown, SetFinalizerShown, CreateShown, ReleaseShown, PurgeShown,
     ClearFinalizerShown, UpdateStatusShown DEF Reconcile, Single!Reconcile
<1> QED BY <1>1 DEF Single!Next

-----------------------------------------------------------------------------
(* Whatever is not a call of the active process *)

\* As long as the active process stays the same, the world sees what it has.
LEMMA ViewKept ==
  ASSUME Typed, UNCHANGED Reconciling
  PROVE  /\ UNCHANGED run => UNCHANGED OneRun
         /\ UNCHANGED due => UNCHANGED OneDue
         /\ due' = Everyone => OneDue' = Single!Everyone
         /\ UNCHANGED rjHeld => UNCHANGED OneHeld
         /\ rjHeld' = {} => OneHeld' = {}
<1>1. Active' = Active
  BY DEF Active
<1>2. Reconciling # {} => Active \in Workers
  BY DEF Active, Reconciling
<1>3. due' = Everyone => OneDue' = Single!Everyone
  BY <1>1, <1>2 DEF Typed, Everyone, Single!Everyone, OneDue
<1> QED BY <1>1, <1>3 DEF OneRun, OneDue, OneHeld

LEMMA StutterShown ==
  ASSUME Typed, UNCHANGED Reconciling, UNCHANGED vars
  PROVE  UNCHANGED Single!vars
BY ViewKept DEF vars, Single!vars

LEMMA OthersShown ==
  ASSUME Typed, UNCHANGED Reconciling, UNCHANGED run, Environment
  PROVE  Single!Next
<1>1. /\ OneRun' = OneRun
      /\ UNCHANGED due => OneDue' = OneDue
      /\ UNCHANGED objectVars => Single!objectVars' = Single!objectVars
  BY ViewKept DEF objectVars, Single!objectVars
<1>2. \A j, job : WriteJob(j, job) => Single!WriteJob(j, job)
  BY ViewKept DEF WriteJob, Single!WriteJob
<1>3. \A obj : WriteReactiveJob(obj, {}) => Single!WriteReactiveJob(obj, {})
  BY ViewKept, SameCluster DEF WriteReactiveJob, Single!WriteReactiveJob
<1>4. CASE Acceptance
  <2>1. Single!Acceptance
    BY <1>1, <1>4, SameCluster DEF Acceptance, Single!Acceptance, TemplateRejected,
       Single!TemplateRejected, TemplateAccepted, Single!TemplateAccepted
  <2> QED BY <1>1, <2>1 DEF Single!Environment, Single!Next
<1>5. CASE Others /\ UNCHANGED creatable
  <2>1. \A tmpl, foreign : UserCreates(tmpl, foreign) => Single!UserCreates(tmpl, foreign)
    BY <1>3, SameCluster, SameObjects DEF UserCreates, Single!UserCreates
  <2>2. \A tmpl : UserChangesTemplate(tmpl) => Single!UserChangesTemplate(tmpl)
    BY <1>3, SameCluster DEF UserChangesTemplate, Single!UserChangesTemplate
  <2>3. UserDeletes => Single!UserDeletes
    BY <1>3, SameObjects DEF UserDeletes, Single!UserDeletes
  <2>4. /\ ForeignFinalizerRemoved => Single!ForeignFinalizerRemoved
        /\ ForeignFinalizerAdded => Single!ForeignFinalizerAdded
    BY <1>3, SameCluster, SameObjects DEF ForeignFinalizerRemoved, ForeignFinalizerAdded,
       Single!ForeignFinalizerRemoved, Single!ForeignFinalizerAdded
  <2>5. Annotated => Single!Annotated
    BY ViewKept, SameCluster DEF Annotated, Single!Annotated
  <2>6. \A j, result : JobFinishes(j, result) => Single!JobFinishes(j, result)
    BY <1>1, <1>2, SameCluster DEF JobFinishes, Single!JobFinishes
  <2>7. \A j, policy : JobDeleted(j, policy) => Single!JobDeleted(j, policy)
    BY <1>1, <1>2, SameCluster, SameObjects DEF JobDeleted, Single!JobDeleted
  <2>8. \A j : JobCollected(j) => Single!JobCollected(j)
    BY <1>1, <1>2, SameCluster, SameObjects DEF JobCollected, Single!JobCollected
  <2>9. Single!Others
    BY <1>5, <2>1, <2>2, <2>3, <2>4, <2>5, <2>6, <2>7, <2>8 DEF Others, Single!Others
  <2> QED BY <1>1, <1>5, <2>9 DEF Single!Environment, Single!Next
<1> QED BY <1>4, <1>5 DEF Environment

\* The end of the active process is a crash of the one reconciler.
LEMMA EndShown ==
  ASSUME Typed, LeaseOK, phase \in [Workers -> Phases], NEW w \in Workers,
         phase[w] \in {"leading", "stopping"}, Crash(w),
         \/ phase' = [phase EXCEPT ![w] = "stopped"]
         \/ phase' = [phase EXCEPT ![w] = "down"]
  PROVE  Single!Next
<1>1. Reconciling = {w} /\ Shown(w)
  BY ActiveIsShown
<1>2. Reconciling' = {}
  BY <1>1 DEF Reconciling
<1>3. /\ OneRun' = [OneRun EXCEPT ![One] = NoRun]
      /\ OneDue' = [OneDue EXCEPT ![One] = TRUE]
      /\ OneHeld' = OneHeld \ {One}
  BY <1>1, <1>2 DEF Shown, OneRun, OneDue, OneHeld
<1>4. Single!Return(One) /\ OneDue' = Single!Requeued(One)
  BY <1>3, SameNone DEF Crash, Return, Single!Return, Single!Requeued
<1>5. Single!Crash(One)
  BY <1>1, <1>3, <1>4, ChecksShown, SameCluster DEF Crash, Single!Crash
<1> QED BY <1>5 DEF Single!Next

\* An election finds nothing of an earlier Reconcile, and everything to be listed.
LEMMA ElectionShown ==
  ASSUME Typed, LeaseOK, RestOK, phase \in [Workers -> Phases], NEW w \in Workers,
         Elected(w)
  PROVE  UNCHANGED Single!vars
<1>1. Reconciling = {}
  BY DEF Elected, MayLead, Expired, LeaseOK, Renewing, Reconciling
<1>2. Unshown
  BY <1>1, NobodyIsShown
<1>3. Reconciling' = {w} /\ Active' = w
  BY <1>1 DEF Elected, Reconciling, Active
<1>4. run[w] = NoRun /\ w \notin rjHeld
  BY DEF Elected, LeaseOK, RestOK
<1>5. UNCHANGED <<OneRun, OneDue, OneHeld>>
  BY <1>2, <1>3, <1>4 DEF Elected, objectVars, Typed, Unshown, OneRun, OneDue, OneHeld
<1> QED BY <1>5 DEF Elected, objectVars, Single!vars

LEMMA CallShown ==
  ASSUME Typed, LeaseOK, NEW w \in Workers, Leads(w)
  PROVE  Single!Next
<1>1. phase[w] \in {"leading", "stopping"} /\ UNCHANGED phase
  BY DEF Leads, managerVars
<1>2. Reconciling = {w} /\ Shown(w)
  BY <1>1, ActiveIsShown
<1>3. Reconciling' = {w} /\ Active' = w
  BY <1>1, <1>2 DEF Reconciling, Active
<1>4. Shown(w)'
  BY <1>3 DEF Shown, OneRun, OneDue, OneHeld
<1> QED BY <1>2, <1>4, ReconcileShown DEF Leads

LEMMA ManagerShown ==
  ASSUME Typed, LeaseOK, RestOK, phase \in [Workers -> Phases], NEW w \in Workers,
         Manager(w)
  PROVE  [Single!Next]_(Single!vars)
<1>1. CASE StartManager(w)
  BY <1>1, StutterShown DEF StartManager, Reconciling
<1>2. CASE Elected(w)
  BY <1>2, ElectionShown
<1>3. CASE Terminated(w)
  BY <1>3, StutterShown DEF Terminated, Reconciling
<1>4. CASE ReconcilerStops(w)
  BY <1>4, EndShown DEF ReconcilerStops
<1>5. CASE ReleaseLease(w)
  BY <1>5, StutterShown DEF ReleaseLease, ReleasesLeaseAt, Reconciling
<1>6. CASE Dies(w)
  <2>1. CASE phase[w] \in {"leading", "stopping"} /\ Crash(w)
    BY <1>6, <2>1, EndShown DEF Dies
  <2>2. CASE phase[w] = "stopped" /\ UNCHANGED vars
    BY <1>6, <2>2, StutterShown DEF Dies, Reconciling
  <2> QED BY <1>6, <2>1, <2>2 DEF Dies
<1> QED BY <1>1, <1>2, <1>3, <1>4, <1>5, <1>6 DEF Manager

LEMMA InitShown == ManagerInit => Single!Init
<1> SUFFICES ASSUME ManagerInit PROVE Single!Init
  OBVIOUS
<1>1. Unshown
  BY NobodyIsShown DEF ManagerInit, Reconciling
<1>2. Single!ClusterInit
  BY <1>1, SameNone DEF ManagerInit, Init, ClusterInit, Single!ClusterInit, Unshown
<1>3. Single!WebhookInit
  BY DEF ManagerInit, Init, WebhookInit, Single!WebhookInit
<1> QED BY <1>1, <1>2, <1>3, SameNone DEF Single!Init, Unshown

-----------------------------------------------------------------------------
(* Theorem *)

\* Processes with leader election (main.go) are the reconciler with one worker, for
\* any number of them that start, stop and die: what holds of the single worker
\* holds of whichever process leads.
THEOREM LeadersImplementSingleWorker == ManagerSpec => ImplementsSingleWorker
<1>1. ManagerInv /\ [ManagerNext]_allVars => [Single!Next]_(Single!vars)
  <2> SUFFICES ASSUME ManagerInv, [ManagerNext]_allVars
               PROVE  [Single!Next]_(Single!vars)
    OBVIOUS
  <2>1. Typed /\ LeaseOK /\ RestOK /\ phase \in [Workers -> Phases]
    BY DEF ManagerInv, ManagerTypeOK, TypeOK, ControllerTypeOK, ClusterTypeOK, Typed
  <2>2. CASE \E w \in Workers : Leads(w)
    BY <2>1, <2>2, CallShown
  <2>3. CASE \E w \in Workers : Manager(w)
    BY <2>1, <2>3, ManagerShown
  <2>4. CASE Environment /\ UNCHANGED <<run, managerVars>>
    BY <2>1, <2>4, OthersShown DEF managerVars, Reconciling
  <2>5. CASE UNCHANGED allVars
    BY <2>1, <2>5, StutterShown DEF allVars, managerVars, Reconciling
  <2> QED BY <2>2, <2>3, <2>4, <2>5 DEF ManagerNext
<1> QED BY <1>1, InitShown, ManagerInvariance, PTL
        DEF ManagerSpec, ImplementsSingleWorker, Single!Spec

-----------------------------------------------------------------------------
(* What was proved of the single worker *)

\* The theorems about a single worker, for the one reconciler the world sees.
Alone == INSTANCE ReactiveJobPromise_proofs
           WITH Workers <- {One}, run <- OneRun, due <- OneDue, rjHeld <- OneHeld

LEMMA AloneBegins == Alone!Init <=> Single!Init
<1> QED BY DEF Alone!None, Single!None, Alone!FreshStatus, Single!FreshStatus,
           Alone!NoReactiveJob, Single!NoReactiveJob, Alone!NoJob, Single!NoJob,
           Alone!WebhookInit, Single!WebhookInit, Alone!ClusterInit,
           Single!ClusterInit, Alone!NoRun, Single!NoRun, Alone!Init, Single!Init

LEMMA AloneOthers == Alone!Environment <=> Single!Environment
<1> QED BY DEF Alone!None, Single!None, Alone!FreshStatus, Single!FreshStatus,
           Alone!NoReactiveJob, Single!NoReactiveJob, Alone!NewReactiveJob,
           Single!NewReactiveJob, Alone!Stored, Single!Stored, Alone!StoredJob,
           Single!StoredJob, Alone!DryRun, Single!DryRun, Alone!Validate,
           Single!Validate, Alone!objectVars, Single!objectVars, Alone!Live,
           Single!Live, Alone!Everyone, Single!Everyone, Alone!ReactiveJobPredicate,
           Single!ReactiveJobPredicate, Alone!WriteReactiveJob,
           Single!WriteReactiveJob, Alone!WriteJob, Single!WriteJob, Alone!Disturb,
           Single!Disturb, Alone!UserCreates, Single!UserCreates,
           Alone!UserChangesTemplate, Single!UserChangesTemplate, Alone!UserDeletes,
           Single!UserDeletes, Alone!ForeignFinalizerRemoved,
           Single!ForeignFinalizerRemoved, Alone!ForeignFinalizerAdded,
           Single!ForeignFinalizerAdded, Alone!Annotated, Single!Annotated,
           Alone!JobFinishes, Single!JobFinishes, Alone!JobDeleted, Single!JobDeleted,
           Alone!JobCollected, Single!JobCollected, Alone!TemplateRejected,
           Single!TemplateRejected, Alone!TemplateAccepted, Single!TemplateAccepted,
           Alone!Acceptance, Single!Acceptance, Alone!Others, Single!Others,
           Alone!Environment, Single!Environment

LEMMA AloneCalls ==
  \A w : /\ Alone!Reconcile(w) <=> Single!Reconcile(w)
         /\ Alone!Crash(w) <=> Single!Crash(w)
<1>1. \A w : Alone!Get(w) <=> Single!Get(w)
  BY DEF Alone!None, Single!None, Alone!FreshStatus, Single!FreshStatus,
         Alone!ReadyCondition, Single!ReadyCondition, Alone!SetState, Single!SetState,
         Alone!NoReactiveJob, Single!NoReactiveJob, Alone!NoJob, Single!NoJob,
         Alone!Disturb, Single!Disturb, Alone!NoRun, Single!NoRun, Alone!WithoutList,
         Single!WithoutList, Alone!Report, Single!Report, Alone!Continue,
         Single!Continue, Alone!Acknowledge, Single!Acknowledge, Alone!FirstStep,
         Single!FirstStep, Alone!Get, Single!Get
<1>2. \A w : Alone!ListJobs(w) <=> Single!ListJobs(w)
  BY DEF Alone!None, Single!None, Alone!FreshStatus, Single!FreshStatus,
         Alone!ReadyCondition, Single!ReadyCondition, Alone!SetState, Single!SetState,
         Alone!NoReactiveJob, Single!NoReactiveJob, Alone!NoJob, Single!NoJob,
         Alone!objectVars, Single!objectVars, Alone!Live, Single!Live, Alone!Disturb,
         Single!Disturb, Alone!NoRun, Single!NoRun, Alone!WithoutList,
         Single!WithoutList, Alone!Report, Single!Report, Alone!Fail, Single!Fail,
         Alone!Listed, Single!Listed, Alone!Newest, Single!Newest, Alone!NeedsJob,
         Single!NeedsJob, Alone!Superseded, Single!Superseded, Alone!Outcome,
         Single!Outcome, Alone!ReportJob, Single!ReportJob, Alone!ReleaseNext,
         Single!ReleaseNext, Alone!CreateOrUpdate, Single!CreateOrUpdate,
         Alone!ToPurge, Single!ToPurge, Alone!PurgeNext, Single!PurgeNext,
         Alone!Delete, Single!Delete, Alone!Dispatch, Single!Dispatch, Alone!Continue,
         Single!Continue, Alone!Disturbed, Single!Disturbed, Alone!NoEffect,
         Single!NoEffect, Alone!Dependents, Single!Dependents, Alone!ListJobs,
         Single!ListJobs
<1>3. \A w : Alone!SetFinalizer(w) <=> Single!SetFinalizer(w)
  BY DEF Alone!None, Single!None, Alone!FreshStatus, Single!FreshStatus,
         Alone!ReadyCondition, Single!ReadyCondition, Alone!SetState, Single!SetState,
         Alone!NoReactiveJob, Single!NoReactiveJob, Alone!NoJob, Single!NoJob,
         Alone!DryRun, Single!DryRun, Alone!Validate, Single!Validate,
         Alone!objectVars, Single!objectVars, Alone!Everyone, Single!Everyone,
         Alone!ReactiveJobPredicate, Single!ReactiveJobPredicate,
         Alone!WriteReactiveJob, Single!WriteReactiveJob, Alone!Disturb,
         Single!Disturb, Alone!NoRun, Single!NoRun, Alone!WithoutList,
         Single!WithoutList, Alone!Report, Single!Report, Alone!Fail, Single!Fail,
         Alone!Listed, Single!Listed, Alone!NeedsJob, Single!NeedsJob,
         Alone!Superseded, Single!Superseded, Alone!Outcome, Single!Outcome,
         Alone!ReportJob, Single!ReportJob, Alone!ReleaseNext, Single!ReleaseNext,
         Alone!CreateOrUpdate, Single!CreateOrUpdate, Alone!Continue, Single!Continue,
         Alone!Disturbed, Single!Disturbed, Alone!NoEffect, Single!NoEffect,
         Alone!CurrentReactiveJob, Single!CurrentReactiveJob, Alone!Accepted,
         Single!Accepted, Alone!SetFinalizer, Single!SetFinalizer
<1>4. \A w : Alone!CreateJob(w) <=> Single!CreateJob(w)
  BY DEF Alone!None, Single!None, Alone!FreshStatus, Single!FreshStatus,
         Alone!ReadyCondition, Single!ReadyCondition, Alone!SetState, Single!SetState,
         Alone!NoReactiveJob, Single!NoReactiveJob, Alone!NoJob, Single!NoJob,
         Alone!DryRun, Single!DryRun, Alone!objectVars, Single!objectVars, Alone!Used,
         Single!Used, Alone!Everyone, Single!Everyone, Alone!WriteJob, Single!WriteJob,
         Alone!Disturb, Single!Disturb, Alone!NoRun, Single!NoRun, Alone!WithoutList,
         Single!WithoutList, Alone!Report, Single!Report, Alone!Fail, Single!Fail,
         Alone!Continue, Single!Continue, Alone!Disturbed, Single!Disturbed,
         Alone!Answered, Single!Answered, Alone!NoEffect, Single!NoEffect,
         Alone!JobFor, Single!JobFor, Alone!CreateJob, Single!CreateJob
<1>5. \A w : Alone!ReleaseJob(w) <=> Single!ReleaseJob(w)
  BY DEF Alone!None, Single!None, Alone!FreshStatus, Single!FreshStatus,
         Alone!ReadyCondition, Single!ReadyCondition, Alone!SetState, Single!SetState,
         Alone!NoReactiveJob, Single!NoReactiveJob, Alone!NoJob, Single!NoJob,
         Alone!StoredJob, Single!StoredJob, Alone!objectVars, Single!objectVars,
         Alone!Everyone, Single!Everyone, Alone!WriteJob, Single!WriteJob,
         Alone!Disturb, Single!Disturb, Alone!NoRun, Single!NoRun, Alone!WithoutList,
         Single!WithoutList, Alone!Report, Single!Report, Alone!Fail, Single!Fail,
         Alone!Newest, Single!Newest, Alone!Outcome, Single!Outcome, Alone!ReportJob,
         Single!ReportJob, Alone!ReleaseNext, Single!ReleaseNext, Alone!Continue,
         Single!Continue, Alone!Disturbed, Single!Disturbed, Alone!Answered,
         Single!Answered, Alone!NoEffect, Single!NoEffect, Alone!CurrentJob,
         Single!CurrentJob, Alone!ReleaseJob, Single!ReleaseJob
<1>6. \A w : Alone!PurgeJob(w) <=> Single!PurgeJob(w)
  BY DEF Alone!None, Single!None, Alone!FreshStatus, Single!FreshStatus,
         Alone!ReadyCondition, Single!ReadyCondition, Alone!SetState, Single!SetState,
         Alone!NoReactiveJob, Single!NoReactiveJob, Alone!NoJob, Single!NoJob,
         Alone!StoredJob, Single!StoredJob, Alone!objectVars, Single!objectVars,
         Alone!Live, Single!Live, Alone!Everyone, Single!Everyone, Alone!WriteJob,
         Single!WriteJob, Alone!Disturb, Single!Disturb, Alone!NoRun, Single!NoRun,
         Alone!WithoutList, Single!WithoutList, Alone!Report, Single!Report,
         Alone!Fail, Single!Fail, Alone!Listed, Single!Listed, Alone!Newest,
         Single!Newest, Alone!ToPurge, Single!ToPurge, Alone!PurgeNext,
         Single!PurgeNext, Alone!Continue, Single!Continue, Alone!Disturbed,
         Single!Disturbed, Alone!Answered, Single!Answered, Alone!NoEffect,
         Single!NoEffect, Alone!CurrentJob, Single!CurrentJob, Alone!PurgeJob,
         Single!PurgeJob
<1>7. \A w : Alone!ClearFinalizer(w) <=> Single!ClearFinalizer(w)
  BY DEF Alone!None, Single!None, Alone!FreshStatus, Single!FreshStatus,
         Alone!ReadyCondition, Single!ReadyCondition, Alone!SetState, Single!SetState,
         Alone!NoReactiveJob, Single!NoReactiveJob, Alone!Stored, Single!Stored,
         Alone!NoJob, Single!NoJob, Alone!DryRun, Single!DryRun, Alone!Validate,
         Single!Validate, Alone!objectVars, Single!objectVars, Alone!Everyone,
         Single!Everyone, Alone!ReactiveJobPredicate, Single!ReactiveJobPredicate,
         Alone!WriteReactiveJob, Single!WriteReactiveJob, Alone!Disturb,
         Single!Disturb, Alone!NoRun, Single!NoRun, Alone!WithoutList,
         Single!WithoutList, Alone!Report, Single!Report, Alone!Fail, Single!Fail,
         Alone!Continue, Single!Continue, Alone!Disturbed, Single!Disturbed,
         Alone!Return, Single!Return, Alone!NoEffect, Single!NoEffect,
         Alone!CurrentReactiveJob, Single!CurrentReactiveJob, Alone!Accepted,
         Single!Accepted, Alone!ClearFinalizer, Single!ClearFinalizer
<1>8. \A w : Alone!UpdateStatus(w) <=> Single!UpdateStatus(w)
  BY DEF Alone!None, Single!None, Alone!FreshStatus, Single!FreshStatus,
         Alone!NoReactiveJob, Single!NoReactiveJob, Alone!NoJob, Single!NoJob,
         Alone!objectVars, Single!objectVars, Alone!Disturb, Single!Disturb,
         Alone!NoRun, Single!NoRun, Alone!Return, Single!Return, Alone!Requeued,
         Single!Requeued, Alone!CurrentReactiveJob, Single!CurrentReactiveJob,
         Alone!UpdateStatus, Single!UpdateStatus
<1>9. \A w : Alone!Crash(w) <=> Single!Crash(w)
  BY DEF Alone!None, Single!None, Alone!FreshStatus, Single!FreshStatus,
         Alone!NoReactiveJob, Single!NoReactiveJob, Alone!NoJob, Single!NoJob,
         Alone!Disturb, Single!Disturb, Alone!NoRun, Single!NoRun, Alone!Return,
         Single!Return, Alone!Requeued, Single!Requeued, Alone!Crash, Single!Crash
<1> QED BY <1>1, <1>2, <1>3, <1>4, <1>5, <1>6, <1>7, <1>8, <1>9
        DEF Alone!Reconcile, Single!Reconcile

LEMMA AloneIsSingle == ManagerSpec => Alone!Spec
<1>1. [Single!Next]_(Single!vars) => [Alone!Next]_(Alone!vars)
  BY AloneCalls, AloneOthers
     DEF Alone!Next, Single!Next, Alone!vars, Single!vars
<1> QED BY <1>1, AloneBegins, LeadersImplementSingleWorker, PTL
        DEF ImplementsSingleWorker, Alone!Spec, Single!Spec

\* What the theorems assume of the constants: there is one worker, and the rest is as
\* it is for the processes.
AloneAssumed ==
  /\ Alone!OneWorker
  /\ Alone!NamesAssumption
  /\ Alone!BreakableAssumption
  /\ Alone!ResultsAssumption
  /\ Alone!BoundsAssumption

LEMMA AloneIsAssumed == AloneAssumed
<1>1. Alone!OneWorker
  BY DEF Alone!OneWorker
<1>2. Alone!NamesAssumption
  BY NamesAssumption DEF Alone!NamesAssumption, Alone!None, None
<1>3. Alone!BreakableAssumption /\ Alone!ResultsAssumption /\ Alone!BoundsAssumption
  BY BreakableAssumption, ResultsAssumption, BoundsAssumption
     DEF Alone!BreakableAssumption, Alone!ResultsAssumption, Alone!BoundsAssumption
<1> QED BY <1>1, <1>2, <1>3 DEF AloneAssumed

LEMMA SeenAlone ==
  /\ Alone!AtMostOneRun <=> AtMostOneRun
  /\ Alone!NoRedundantRun <=> NoRedundantRun
  /\ Alone!NewestIsKept <=> NewestIsKept
  /\ Alone!NoOrphan <=> NoOrphan
  /\ Alone!AcknowledgedIsLaunched <=> AcknowledgedIsLaunched
<1>1. /\ \A j : Alone!Used(j) <=> Used(j)
      /\ \A j : Alone!Live(j) <=> Live(j)
  BY DEF Alone!Used, Used, Alone!Live, Live
<1>2. Alone!Runs = Runs
  BY <1>1 DEF Alone!Runs, Runs
<1>3. \A S, table : Alone!Newest(S, table) = Newest(S, table)
  BY DEF Alone!Newest, Newest
<1> QED BY <1>1, <1>2, <1>3
        DEF Alone!AtMostOneRun, AtMostOneRun, Alone!NoRedundantRun, NoRedundantRun,
            Alone!NewestIsKept, NewestIsKept, Alone!NoOrphan, NoOrphan,
            Alone!AcknowledgedIsLaunched, AcknowledgedIsLaunched

LEMMA PromiseAlone == Alone!ImplementsPromise <=> ImplementsPromise
<1> USE DEF Alone!ObjectSeen, ObjectSeen, Alone!RunsSeen, RunsSeen, Alone!Run, Run,
            Alone!StatusSeen, StatusSeen
<1>1. Alone!Promise!Runs = Promise!Runs /\ Alone!Promise!Latest = Promise!Latest
  BY DEF Alone!Promise!Runs, Promise!Runs, Alone!Promise!Latest, Promise!Latest
<1>2. /\ Alone!Promise!NoStatus = Promise!NoStatus
      /\ \A uid : Alone!Promise!NoObject(uid) = Promise!NoObject(uid)
  BY DEF Alone!Promise!NoStatus, Promise!NoStatus, Alone!Promise!NoObject,
         Promise!NoObject, Alone!Promise!NoName, Promise!NoName
<1>3. Alone!Promise!Init <=> Promise!Init
  BY <1>2 DEF Alone!Promise!Init, Promise!Init
<1>4. /\ Alone!Promise!Create <=> Promise!Create
      /\ Alone!Promise!Change <=> Promise!Change
      /\ Alone!Promise!Delete <=> Promise!Delete
      /\ Alone!Promise!Disappear <=> Promise!Disappear
  BY <1>2 DEF Alone!Promise!Create, Promise!Create, Alone!Promise!Change, Promise!Change,
              Alone!Promise!Delete, Promise!Delete, Alone!Promise!Disappear,
              Promise!Disappear
<1>5. \A j : /\ Alone!Promise!Launch(j) <=> Promise!Launch(j)
             /\ Alone!Promise!Finish(j) <=> Promise!Finish(j)
             /\ Alone!Promise!Retire(j) <=> Promise!Retire(j)
  BY <1>1 DEF Alone!Promise!Launch, Promise!Launch, Alone!Promise!Finish, Promise!Finish,
              Alone!Promise!Retire, Promise!Retire
<1>6. Alone!Promise!Report <=> Promise!Report
  BY <1>1 DEF Alone!Promise!Report, Promise!Report, Alone!Promise!CurrentAdvances,
              Promise!CurrentAdvances, Alone!Promise!Truthful, Promise!Truthful
<1>7. [Alone!Promise!Next]_(Alone!Promise!promised) <=> [Promise!Next]_(Promise!promised)
  BY <1>4, <1>5, <1>6 DEF Alone!Promise!Next, Promise!Next, Alone!Promise!promised,
                          Promise!promised
<1> QED BY <1>3, <1>7, PTL
        DEF Alone!ImplementsPromise, ImplementsPromise, Alone!Promise!Spec, Promise!Spec

\* Whichever process leads, and however often the lead changes in the middle of a
\* Reconcile, no generation is run twice, no template is run again without a change,
\* the newest job is kept, no job is left behind, and an up-to-date Processing or
\* Ready means that the template in the spec was launched.
THEOREM LeadersRunJobsOnce ==
  ManagerSpec => [](/\ AtMostOneRun
                    /\ NoRedundantRun
                    /\ NewestIsKept
                    /\ NoOrphan
                    /\ AcknowledgedIsLaunched)
<1>1. Alone!Spec => []Alone!AtMostOneRun
  BY AloneIsAssumed, Alone!OneRunPerGeneration DEF AloneAssumed
<1>2. Alone!Spec => []Alone!NoRedundantRun
  BY AloneIsAssumed, Alone!RunsOnlyChanges DEF AloneAssumed
<1>3. Alone!Spec => []Alone!NewestIsKept
  BY AloneIsAssumed, Alone!NewestRunIsKept DEF AloneAssumed
<1>4. Alone!Spec => []Alone!NoOrphan
  BY AloneIsAssumed, Alone!JobsHaveOwners DEF AloneAssumed
<1>5. Alone!Spec => []Alone!AcknowledgedIsLaunched
  BY AloneIsAssumed, Alone!AcknowledgedHasRun DEF AloneAssumed
<1> QED BY <1>1, <1>2, <1>3, <1>4, <1>5, AloneIsSingle, SeenAlone, PTL

\* A process that takes over never sets currentJobName back to an older job.
THEOREM LeadersOnlyAdvance == ManagerSpec => CurrentNeverRegresses
<1>1. Alone!Spec => Alone!CurrentNeverRegresses
  BY AloneIsAssumed, Alone!CurrentOnlyAdvances DEF AloneAssumed
<1>2. Alone!CurrentNeverRegresses => CurrentNeverRegresses
  <2> DEFINE Advances ==
        rj'.uid = rj.uid /\ rj'.status.cur # rj.status.cur /\ rj.status.cur # None
        => /\ rj'.there => rj'.status.cur # None
           /\ rj'.there => jobs[rj.status.cur].gen <= jobs'[rj'.status.cur].gen
  <2> DEFINE AdvancesAlone ==
        rj'.uid = rj.uid /\ rj'.status.cur # rj.status.cur /\ rj.status.cur # Alone!None
        => /\ rj'.there => rj'.status.cur # Alone!None
           /\ rj'.there => jobs[rj.status.cur].gen <= jobs'[rj'.status.cur].gen
  <2>1. [AdvancesAlone]_(Alone!vars) => [Advances]_vars
    BY DEF Alone!vars, Alone!None, None
  <2> QED BY <2>1, PTL DEF Alone!CurrentNeverRegresses, CurrentNeverRegresses
<1> QED BY <1>1, <1>2, AloneIsSingle, PTL

\* What the operator promises its users it also keeps with leader election: every
\* step of any number of processes that start, lead, are stopped and die is one that
\* ReactiveJobPromise allows, or nothing users see.
THEOREM LeadersKeepPromise == ManagerSpec => ImplementsPromise
<1>1. Alone!Spec => Alone!ImplementsPromise
  BY AloneIsAssumed, Alone!PromiseIsKept DEF AloneAssumed
<1> QED BY <1>1, PromiseAlone, AloneIsSingle, PTL
=============================================================================
