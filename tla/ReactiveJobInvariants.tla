----------------------- MODULE ReactiveJobInvariants -----------------------
(***************************************************************************)
(* The inductive invariant behind ReadyIsTruthful, for any number of       *)
(* workers. It says what a worker may rely on in its local variables       *)
(* although others write between its API calls: the list is of jobs that   *)
(* have only matured since, the head of the list is the job to report      *)
(* while older jobs are released, and a Ready about to be written names a  *)
(* job that has completed. CopyIsCurrent ties the copy to the object as    *)
(* long as the worker holds the current version, which is what the version *)
(* check of the status update turns into ReadyIsTruthful.                  *)
(***************************************************************************)
EXTENDS ReactiveJobController

\* new is what has become of the job old.
Mature(old, new) ==
  /\ new.phase # "unused"
  /\ new.uid = old.uid
  /\ new.gen = old.gen
  /\ new.tmpl = old.tmpl
  /\ old.result # "running" => new.result = old.result

\* j is a completed job of the template in obj.
Completed(obj, j, table) ==
  /\ ~obj.deleting
  /\ j \in JobNames
  /\ table[j].phase # "unused"
  /\ table[j].uid = obj.uid
  /\ table[j].tmpl = obj.tmpl
  /\ table[j].result = "complete"

\* The list of r, against the jobs there are in table.
ListOK(r, table) ==
  /\ \A j \in Listed(r) : r.list[j].uid = r.obj.uid /\ Mature(r.list[j], table[j])
  /\ r.first \in Listed(r) \cup {None}

\* The list is headed by a job of the template in the copy.
HeadOK(r) ==
  /\ ~r.obj.deleting
  /\ r.first \in Listed(r)
  /\ r.list[r.first].tmpl = r.obj.tmpl

RunOK(r, table) ==
  /\ r.obj.status.obs <= r.obj.gen
  /\ ListOK(r, table)
  /\ r.pc = "setFinalizer" => ~r.obj.deleting
  /\ r.pc = "release" => HeadOK(r)
  /\ r.pc = "status" /\ r.obj.status.state = "Ready" =>
       Completed(r.obj, r.obj.status.cur, table)

\* The two differ in their status at most.
SameObject(copy, obj) ==
  /\ copy.there = obj.there
  /\ copy.uid = obj.uid
  /\ copy.gen = obj.gen
  /\ copy.tmpl = obj.tmpl
  /\ copy.deleting = obj.deleting
  /\ copy.fin = obj.fin
  /\ copy.foreign = obj.foreign

CopyIsCurrent ==
  \A w \in Workers :
    w \in rjHeld /\ run[w].pc # "idle" => rj.there /\ SameObject(run[w].obj, rj)

\* The status in obj acknowledges no generation to come, and if it is up to date
\* and Ready, it names a completed job.
StatusOK(obj, table) ==
  /\ obj.status.obs <= obj.gen
  /\ obj.status.state = "Ready" /\ obj.status.obs = obj.gen =>
       Completed(obj, obj.status.cur, table)

ReadyInv ==
  /\ ControllerTypeOK
  /\ \A w \in Workers : RunOK(run[w], jobs)
  /\ CopyIsCurrent
  /\ StatusOK(rj, jobs)
=============================================================================
