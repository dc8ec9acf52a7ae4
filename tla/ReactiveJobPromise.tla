------------------------- MODULE ReactiveJobPromise -------------------------
(***************************************************************************)
(* What the operator promises the users of a ReactiveJob, without workers, *)
(* API calls, finalizers or requests: which jobs are run for an object, for*)
(* how long they stay, and what the status may say. The README is the      *)
(* source of the promises; the single worker of ReactiveJobController is   *)
(* shown to keep them.                                                     *)
(***************************************************************************)
EXTENDS Integers

CONSTANTS
  Templates,   \* what a job can be made of
  Names        \* the names of jobs

VARIABLES
  object,   \* what users say of the ReactiveJob
  runs,     \* runs[j]: the job named j
  status    \* what the operator says of the ReactiveJob

promised == <<object, runs, status>>

NoName == ""
NoObject(uid) ==
  [there |-> FALSE, uid |-> uid, gen |-> 0, tmpl |-> NoName, deleting |-> FALSE]
NoStatus == [obs |-> -1, state |-> NoName, cur |-> NoName]

\* The jobs that were ever run for the object, and the last ones.
Runs == {j \in Names : runs[j].phase # "unused" /\ runs[j].uid = object.uid}
Latest == {j \in Runs : \A k \in Runs : runs[k].gen <= runs[j].gen}

Init ==
  /\ object = NoObject(0)
  /\ \A j \in Names : runs[j].phase = "unused"
  /\ status = NoStatus

-----------------------------------------------------------------------------
(* Users *)

Create ==
  /\ ~object.there
  /\ \E tmpl \in Templates :
       object' = [there |-> TRUE, uid |-> object.uid + 1, gen |-> 1,
                  tmpl |-> tmpl, deleting |-> FALSE]
  /\ status' = NoStatus
  /\ UNCHANGED runs

Change ==
  /\ object.there
  /\ \E tmpl \in Templates :
       object' = [there |-> TRUE, uid |-> object.uid, gen |-> object.gen + 1,
                  tmpl |-> tmpl, deleting |-> object.deleting]
  /\ UNCHANGED <<runs, status>>

Delete ==
  /\ object.there
  /\ ~object.deleting
  /\ object' = [there |-> TRUE, uid |-> object.uid, gen |-> object.gen + 1,
                tmpl |-> object.tmpl, deleting |-> TRUE]
  /\ UNCHANGED <<runs, status>>

\* No job outlives the object it was run for.
Disappear ==
  /\ object.there
  /\ \A j \in Names : runs[j].phase # "live"
  /\ object' = NoObject(object.uid)
  /\ status' = NoStatus
  /\ UNCHANGED runs

-----------------------------------------------------------------------------
(* Jobs *)

\* A job is run for a generation that was not run yet, if its template is not that
\* of the last run; a job of the newest generation has the template of the spec.
Launch(j) ==
  /\ object.there
  /\ runs[j].phase = "unused"
  /\ \E gen \in 0..object.gen, tmpl \in Templates :
       /\ gen = object.gen => tmpl = object.tmpl
       /\ \A k \in Runs : runs[k].gen < gen
       /\ \A k \in Latest : runs[k].tmpl # tmpl
       /\ runs' = [runs EXCEPT ![j] = [phase |-> "live", uid |-> object.uid, gen |-> gen,
                                       tmpl |-> tmpl, result |-> "running"]]
  /\ UNCHANGED <<object, status>>

Finish(j) ==
  /\ runs[j].phase = "live"
  /\ runs[j].result = "running"
  /\ \E result \in {"complete", "failed"} : runs' = [runs EXCEPT ![j].result = result]
  /\ UNCHANGED <<object, status>>

\* "The most recent job will never be deleted" (README).
Retire(j) ==
  /\ runs[j].phase = "live"
  /\ j \in Latest => object.deleting
  /\ runs' = [runs EXCEPT ![j].phase = "gone"]
  /\ UNCHANGED <<object, status>>

-----------------------------------------------------------------------------
(* The status *)

\* The current job is a run of the object, and none before the one named so far.
CurrentAdvances ==
  \/ status'.cur = status.cur
  \/ /\ status'.cur \in Runs
     /\ status.cur \in Names => runs[status.cur].gen <= runs[status'.cur].gen

\* What an up-to-date status says is true of the template in the spec.
Truthful(said) ==
  said.obs = object.gen =>
    /\ said.state \in {"Processing", "Ready"} =>
         \E j \in Latest : runs[j].tmpl = object.tmpl
    /\ said.state = "Ready" =>
         /\ ~object.deleting
         /\ said.cur \in Runs
         /\ runs[said.cur].tmpl = object.tmpl
         /\ runs[said.cur].result = "complete"

Report ==
  /\ object.there
  /\ UNCHANGED <<object, runs>>
  /\ status'.obs <= object.gen
  /\ CurrentAdvances
  /\ Truthful(status')

Next ==
  \/ Report
  \/ Create \/ Change \/ Delete \/ Disappear
  \/ \E j \in Names : Launch(j) \/ Finish(j) \/ Retire(j)

Spec == Init /\ [][Next]_promised
=============================================================================
