------------------------- MODULE ReactiveJobSingle -------------------------
(***************************************************************************)
(* The inductive invariant of a single worker, behind AtMostOneRun,        *)
(* NoRedundantRun, NewestIsKept, NoOrphan, AcknowledgedIsLaunched and      *)
(* CurrentNeverRegresses. Nobody but the worker makes jobs, takes the      *)
(* operator's finalizer away, or writes a status, so what it concluded     *)
(* from its copy and its list still holds when it acts.                    *)
(***************************************************************************)
EXTENDS ReactiveJobInvariants

\* The jobs that were ever made for the object uid.
Made(uid, table) ==
  {j \in JobNames : table[j].phase # "unused" /\ table[j].uid = uid}

Held(j, table) == table[j].phase = "live" /\ table[j].fin

\* Every job is held, or superseded by one that is.
Kept(uid, table) ==
  \A j \in Made(uid, table) : \E k \in Made(uid, table) :
    Held(k, table) /\ table[j].gen <= table[k].gen

\* No job of obj is ahead of it.
NotAhead(obj, table) ==
  \A j \in Made(obj.uid, table) :
    /\ table[j].gen <= obj.gen
    /\ table[j].gen = obj.gen => table[j].tmpl = obj.tmpl

\* The newest job of obj has the template of obj.
Launched(obj, table) ==
  \E j \in Made(obj.uid, table) :
    /\ table[j].tmpl = obj.tmpl
    /\ \A k \in Made(obj.uid, table) : table[k].gen <= table[j].gen

Launching == {"Processing", "Ready"}

-----------------------------------------------------------------------------
(* The jobs, and the object they were made for *)

\* Jobs of one object are of different generations, and of two in a row the later
\* has another template.
HistoryOK(table) ==
  \A j \in JobNames : table[j].phase # "unused" =>
    \A k \in Made(table[j].uid, table) :
      /\ table[j].gen = table[k].gen => j = k
      /\ table[j].gen < table[k].gen /\ table[j].tmpl = table[k].tmpl =>
           \E i \in Made(table[j].uid, table) :
             table[j].gen < table[i].gen /\ table[i].gen < table[k].gen

OwnerOK(obj, table) ==
  /\ \A j \in JobNames :
       /\ table[j].phase # "unused" => table[j].uid <= obj.uid
       /\ table[j].phase = "live" =>
            obj.there /\ obj.fin /\ table[j].uid = obj.uid
  /\ obj.there => NotAhead(obj, table)
  /\ obj.there /\ ~obj.deleting => Kept(obj.uid, table)
  /\ obj.there /\ ~obj.deleting /\ ~obj.fin => Made(obj.uid, table) = {}

\* The status in the API server.
ReportedOK(obj, table) ==
  /\ ~obj.there => obj.status = FreshStatus
  /\ obj.status.cur # None => obj.status.cur \in Made(obj.uid, table)
  /\ obj.status.state \in Launching /\ obj.status.obs = obj.gen =>
       Launched(obj, table)

-----------------------------------------------------------------------------
(* The copy of the worker, against the object and the jobs *)

\* The copy is of an earlier generation of the object, or of an earlier object.
CopyOK(copy, obj, table) ==
  /\ copy.there
  /\ copy.uid <= obj.uid
  /\ copy.uid = obj.uid /\ obj.there =>
       /\ copy.gen <= obj.gen
       /\ copy.gen = obj.gen => copy.tmpl = obj.tmpl
       /\ copy.deleting => obj.deleting
       /\ obj.status.obs <= copy.gen
  /\ NotAhead(copy, table)

\* As long as it is not marked for deletion its newest job is held, and it has no
\* jobs before it has the finalizer.
BeforeDeletionOK(copy, table) ==
  ~copy.deleting => /\ Kept(copy.uid, table)
                    /\ ~copy.fin => Made(copy.uid, table) = {}

\* The object a finalizer was seen on is still there and has it.
HasFinalizer(copy, obj) == obj.there /\ obj.fin /\ obj.uid = copy.uid

\* A create that is under way makes the newest job, and changes the template.
CreateOK(r, table) ==
  /\ ~r.obj.deleting /\ r.obj.fin
  /\ \A j \in Made(r.obj.uid, table) :
       /\ table[j].gen < r.obj.gen
       /\ (\A k \in Made(r.obj.uid, table) : table[k].gen <= table[j].gen)
            => table[j].tmpl # r.obj.tmpl

\* The head of the list is the newest job, and is spared.
ReleaseOK(r, table) ==
  /\ r.obj.fin
  /\ r.first \in Made(r.obj.uid, table) /\ Held(r.first, table)
  /\ \A j \in Made(r.obj.uid, table) : table[j].gen <= table[r.first].gen
  /\ r.todo \subseteq Listed(r) \ {r.first}

\* What is about to be reported has been launched.
PendingOK(r, table) ==
  r.obj.status.state \in Launching /\ r.obj.status.obs = r.obj.gen =>
    Launched(r.obj, table)

\* The current job of a copy is that of the object, or the newest one.
CurrentOK(r, obj, table) ==
  \/ r.obj.status.cur = obj.status.cur
  \/ /\ r.pc = "status"
     /\ r.obj.status.cur \in Made(r.obj.uid, table)
     /\ \A j \in Made(r.obj.uid, table) :
          table[j].gen <= table[r.obj.status.cur].gen

WorkerOK(r, obj, table) ==
  r.pc # "idle" =>
    /\ CopyOK(r.obj, obj, table)
    /\ r.pc \in {"list", "setFinalizer", "create", "release"} =>
         BeforeDeletionOK(r.obj, table)
    /\ r.pc \notin {"setFinalizer", "status"} /\ r.obj.fin =>
         HasFinalizer(r.obj, obj)
    /\ r.pc = "setFinalizer" => ~r.obj.fin
    /\ r.pc = "create" => CreateOK(r, table)
    /\ r.pc = "release" => ReleaseOK(r, table)
    /\ r.pc = "purge" => r.obj.deleting /\ r.todo \subseteq Listed(r)
    /\ r.pc = "clearFinalizer" =>
         /\ r.obj.deleting /\ r.obj.fin
         /\ \A j \in JobNames : table[j].phase # "live"
    /\ r.pc = "status" => PendingOK(r, table)

SingleInv ==
  /\ ReadyInv
  /\ HistoryOK(jobs)
  /\ OwnerOK(rj, jobs)
  /\ ReportedOK(rj, jobs)
  /\ \A w \in Workers :
       /\ WorkerOK(run[w], rj, jobs)
       /\ w \in rjHeld /\ run[w].pc # "idle" => CurrentOK(run[w], rj, jobs)
-----------------------------------------------------------------------------
(* The promise of the operator *)

\* What users see of the ReactiveJob, of its jobs, and of its status.
ObjectSeen == [there |-> rj.there, uid |-> rj.uid, gen |-> rj.gen, tmpl |-> rj.tmpl,
               deleting |-> rj.deleting]

Run(job) == [phase |-> job.phase, uid |-> job.uid, gen |-> job.gen,
             tmpl |-> job.tmpl, result |-> job.result]

RunsSeen == [j \in JobNames |-> Run(jobs[j])]

StatusSeen == [obs |-> rj.status.obs, state |-> rj.status.state, cur |-> rj.status.cur]

Promise == INSTANCE ReactiveJobPromise
             WITH Names <- JobNames, object <- ObjectSeen, runs <- RunsSeen,
                  status <- StatusSeen

\* Whatever calls Reconcile makes, and whichever of them fail, what users see of a
\* ReactiveJob, its jobs and its status are steps that ReactiveJobPromise allows.
ImplementsPromise == Promise!Spec
=============================================================================
