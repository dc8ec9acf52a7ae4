------------------------- MODULE ReactiveJobManager -------------------------
(***************************************************************************)
(* The processes of the operator with leader election (main.go, flag       *)
(* leader-elect): each runs a manager, and a manager runs the reconciler   *)
(* of ReactiveJobController only while it holds the lease.                 *)
(*                                                                         *)
(* The election is client-go's and controller-runtime's, as main.go sets   *)
(* it up. A manager that cannot renew the lease ends its process before    *)
(* the lease expires, and no call of a process is applied after it ended:  *)
(* that is the timing leader election rests on. A manager that is told to  *)
(* stop waits for its reconciler before it releases the lease.             *)
(***************************************************************************)
EXTENDS ReactiveJobController

VARIABLES
  phase,   \* phase[w]: what the manager of w does
  lease    \* the worker named in the lease

managerVars == <<phase, lease>>
allVars == <<vars, managerVars>>

Phases == {"down", "standby", "leading", "stopping", "stopped"}

\* The lease names nobody.
NoHolder == "nobody"

ManagerTypeOK ==
  /\ TypeOK
  /\ phase \in [Workers -> Phases]
  /\ lease \in Workers \cup {NoHolder}

ManagerInit ==
  /\ Init
  /\ phase = [w \in Workers |-> "down"]
  /\ lease = NoHolder

\* The phases in which a manager renews the lease.
Renewing == {"leading", "stopping", "stopped"}

Expired == lease \notin {w \in Workers : phase[w] \in Renewing}

-----------------------------------------------------------------------------
(* Actions of a manager *)

StartManager(w) ==
  /\ phase[w] = "down"
  /\ phase' = [phase EXCEPT ![w] = "standby"]
  /\ UNCHANGED <<vars, lease>>

\* Mutant: leader election is off, as it is by default.
ElectedAnyway == TRUE

\* Mutant: a lease that was not released never expires.
ReleasedOnly == lease = NoHolder

\* With leader election: a lease that is free, or that nobody renews any more.
MayLead == Expired

\* The reconciler is started and lists every object.
Elected(w) ==
  /\ phase[w] = "standby"
  /\ MayLead
  /\ lease' = w
  /\ phase' = [phase EXCEPT ![w] = "leading"]
  /\ due' = [due EXCEPT ![w] = TRUE]
  /\ UNCHANGED <<objectVars, jobs, disturbances, creatable, run>>

\* SIGTERM: the signal handler cancels the manager's context.
Terminated(w) ==
  /\ phase[w] \in {"standby", "leading"}
  /\ phase' = [phase EXCEPT ![w] = IF @ = "leading" THEN "stopping" ELSE "down"]
  /\ UNCHANGED <<vars, lease>>

\* The calls of a Reconcile under way are cancelled with the context, its
\* deferred status update as well.
ReconcilerStops(w) ==
  /\ phase[w] = "stopping"
  /\ Crash(w)
  /\ phase' = [phase EXCEPT ![w] = "stopped"]
  /\ UNCHANGED lease

\* Mutant: the lease is released at once when the context is cancelled.
ReleasesAt == {"stopping", "stopped"}

ReleasesLeaseAt == {"stopped"}

\* LeaderElectionReleaseOnCancel; then the process ends if it has stopped.
ReleaseLease(w) ==
  /\ phase[w] \in ReleasesLeaseAt
  /\ lease = w
  /\ lease' = NoHolder
  /\ phase' = [phase EXCEPT ![w] = IF @ = "stopped" THEN "down" ELSE @]
  /\ UNCHANGED vars

\* The process ends without releasing the lease: a crash, a lease it could not
\* renew, or a reconciler that does not stop in time.
Dies(w) ==
  /\ \/ phase[w] \in {"leading", "stopping"} /\ Crash(w)
     \/ phase[w] = "stopped" /\ UNCHANGED vars
  /\ phase' = [phase EXCEPT ![w] = "down"]
  /\ UNCHANGED lease

\* The reconciler of a leader; one that stops takes no new request.
Leads(w) ==
  /\ \/ phase[w] = "leading"
     \/ phase[w] = "stopping" /\ run[w].pc # "idle"
  /\ Reconcile(w)
  /\ UNCHANGED managerVars

Manager(w) ==
  \/ StartManager(w)
  \/ Elected(w)
  \/ Terminated(w)
  \/ ReconcilerStops(w)
  \/ ReleaseLease(w)
  \/ Dies(w)

ManagerNext ==
  \/ \E w \in Workers : Leads(w) \/ Manager(w)
  \/ Environment /\ UNCHANGED <<run, managerVars>>

ManagerSpec == ManagerInit /\ [][ManagerNext]_allVars

\* Processes that ended are started again, a lease that is free or has expired is
\* taken, and a leader's worker goes on; processes are not stopped so often that
\* none ever comes to lead, or to reconcile.
ManagerFairness ==
  /\ SF_allVars(\E w \in Workers : Elected(w))
  /\ \A w \in Workers :
       /\ WF_allVars(StartManager(w))
       /\ SF_allVars(Leads(w))
       /\ WF_allVars(ReconcilerStops(w))
       /\ WF_allVars(ReleaseLease(w))
  /\ \A j \in JobNames :
       WF_allVars(JobCollected(j) /\ UNCHANGED <<run, creatable, managerVars>>)

FairManagerSpec == ManagerSpec /\ ManagerFairness

-----------------------------------------------------------------------------
(* Properties *)

\* "Enabling this will ensure there is only one active controller manager"
\* (main.go): at most one process is in the middle of a Reconcile.
OnlyOneActive ==
  \A v, w \in Workers : run[v].pc # "idle" /\ run[w].pc # "idle" => v = w

\* Why: whoever renews the lease is named in it, and only a leader, or a manager
\* that waits for its reconciler, is in the middle of a Reconcile.
LeaseOK ==
  \A w \in Workers :
    /\ phase[w] \in Renewing => lease = w
    /\ run[w].pc # "idle" => phase[w] \in {"leading", "stopping"}

\* What a process leaves behind for the next one: nothing is left of a Reconcile that
\* has ended, and only a process that may reconcile has a copy that counts.
RestOK ==
  \A w \in Workers :
    /\ run[w].pc = "idle" => run[w] = NoRun
    /\ w \in rjHeld => phase[w] \in {"leading", "stopping"}

\* The inductive invariant of the proofs of OnlyOneActive and of
\* ImplementsSingleWorker: it relates the lease of main.go's leader election to
\* the phases and to the reconcilers.
ManagerInv == ManagerTypeOK /\ LeaseOK /\ RestOK

Reconciling == {w \in Workers : phase[w] \in {"leading", "stopping"}}
Active == CHOOSE w \in Reconciling : TRUE

\* The one reconciler the world sees: that of the active process. While there is
\* none it is idle, with everything to be listed again.
One == "reconciler"
OneRun == [w \in {One} |-> IF Reconciling = {} THEN NoRun ELSE run[Active]]
OneDue == [w \in {One} |-> IF Reconciling = {} THEN TRUE ELSE due[Active]]
OneHeld == IF Reconciling # {} /\ Active \in rjHeld THEN {One} ELSE {}

Single == INSTANCE ReactiveJobController
            WITH Workers <- {One}, run <- OneRun, due <- OneDue, rjHeld <- OneHeld

\* Processes with leader election implement the reconciler with a single worker:
\* an election, a start or a release is no step of it, the end of the leader is
\* a crash. So what the single worker promises holds for them.
ImplementsSingleWorker == Single!Spec
=============================================================================
