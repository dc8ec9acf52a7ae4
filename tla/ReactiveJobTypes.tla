-------------------------- MODULE ReactiveJobTypes --------------------------
(***************************************************************************)
(* The two kinds of API object the operator works with: the ReactiveJob of *)
(* api/v1alpha1 and the batch/v1 Job it generates, reduced to the fields   *)
(* that decide what the operator does, with the state setter of the API    *)
(* package and the API server's rule for objects that carry finalizers.    *)
(***************************************************************************)
EXTENDS Integers

CONSTANTS
  Templates,   \* the job templates users write (equal iff their JSON hash is)
  JobNames     \* the names the API server can generate for jobs

\* The empty string: a currentJobName, a state or a template that is not set.
None == ""

ASSUME NamesAssumption == None \notin JobNames

-----------------------------------------------------------------------------
(* Status of a ReactiveJob *)

ReactiveJobStates ==
  {"New", "Processing", "DeletionBlocked", "Deleting", "Ready", "Error"}

\* obs is observedGeneration, cur is currentJobName, ready is the status of the
\* one condition there is ("Absent" before SetState adds it).
ReactiveJobStatus ==
  [obs   : Int,
   state : ReactiveJobStates \cup {None},
   ready : {"Absent", "True", "False", "Unknown"},
   cur   : JobNames \cup {None}]

\* What the CRD defaults give an object nobody has reconciled yet.
FreshStatus == [obs |-> -1, state |-> None, ready |-> "Absent", cur |-> None]

\* Mutant: the condition has no status unless the outcome is known.
ReadyConditionIfKnown(state) ==
  CASE state = "Ready" -> "True"
    [] state = "Error" -> "False"
    [] OTHER           -> None

ReadyCondition(state) ==
  CASE state = "Ready" -> "True"
    [] state = "Error" -> "False"
    [] OTHER           -> "Unknown"

SetState(status, state) ==
  [status EXCEPT !.state = state, !.ready = ReadyCondition(state)]

-----------------------------------------------------------------------------
(* ReactiveJob objects *)

\* One name in one namespace: uid tells successive objects of that name apart.
\* fin is the operator's finalizer, foreign any finalizer of somebody else.
ReactiveJob ==
  [there    : BOOLEAN,
   uid      : Nat,
   gen      : Nat,
   tmpl     : Templates \cup {None},
   deleting : BOOLEAN,
   fin      : BOOLEAN,
   foreign  : BOOLEAN,
   status   : ReactiveJobStatus]

\* No object of the name; uid is that of the last one there was.
NoReactiveJob(uid) ==
  [there |-> FALSE, uid |-> uid, gen |-> 0, tmpl |-> None, deleting |-> FALSE,
   fin |-> FALSE, foreign |-> FALSE, status |-> FreshStatus]

NewReactiveJob(uid, tmpl, foreign) ==
  [there |-> TRUE, uid |-> uid, gen |-> 1, tmpl |-> tmpl, deleting |-> FALSE,
   fin |-> FALSE, foreign |-> foreign, status |-> FreshStatus]

\* An object marked for deletion goes when its last finalizer does.
Stored(obj) ==
  IF obj.deleting /\ ~obj.fin /\ ~obj.foreign THEN NoReactiveJob(obj.uid)
                                              ELSE obj

-----------------------------------------------------------------------------
(* Job objects *)

\* uid and gen are the labels and annotations that point back at the ReactiveJob,
\* tmpl stands for the hash annotation. A "gone" job keeps its record, so that
\* jobs is also the history of every job there ever was. fg is the finalizer of
\* a foreground deletion, fin the operator's.
Job ==
  [phase    : {"unused", "live", "gone"},
   uid      : Nat,
   gen      : Nat,
   tmpl     : Templates \cup {None},
   fin      : BOOLEAN,
   fg       : BOOLEAN,
   deleting : BOOLEAN,
   result   : {"running", "failed", "complete"}]

NoJob ==
  [phase |-> "unused", uid |-> 0, gen |-> 0, tmpl |-> None, fin |-> FALSE,
   fg |-> FALSE, deleting |-> FALSE, result |-> "running"]

StoredJob(job) ==
  IF job.deleting /\ ~job.fin /\ ~job.fg THEN [job EXCEPT !.phase = "gone"]
                                         ELSE job
=============================================================================
