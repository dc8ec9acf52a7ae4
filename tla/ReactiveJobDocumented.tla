------------------------ MODULE ReactiveJobDocumented ------------------------
(***************************************************************************)
(* What the README says of the operator and the reconciler does not do.    *)
(* TLC finds a counterexample to each of these.                            *)
(***************************************************************************)
EXTENDS MCReactiveJobController

\* "The ReactiveJob's status will reflect the status of the most recent dependent
\* Job" (README). A refused or failed API call is written as state Error, too,
\* so an up-to-date Error does not mean that the newest job failed.
ErrorMeansJobFailed ==
  ~rj.deleting /\ rj.status.state = "Error" /\ rj.status.obs = rj.gen =>
    \E j \in Newest(Runs, jobs) : jobs[j].result = "failed"

\* Nobody but the TTL controller deletes anything: a behaviour with this is one of
\* FairSpec in which users and others do less.
OnlyTTLDeletes ==
  /\ ~rj'.deleting
  /\ \A j \in JobNames : jobs'[j].deleting => jobs'[j].result # "running"

TTLSpec == Init /\ [][Next /\ NamesInTurn /\ OnlyTTLDeletes]_vars /\ Fairness

\* "Generated jobs will not be deleted by default, but this can of course by achieved
\* by specifying spec.jobTemplate.spec.ttlSecondsAfterFinished accordingly"; "this will
\* only affect old jobs" (README). Old jobs are released only after the job of the
\* template in the spec was found or created: as long as the cluster refuses that
\* template, an old job that its TTL has marked for deletion stays.
OldJobsExpire ==
  \A j \in JobNames :
    []<>~(Live(j) /\ jobs[j].deleting /\ j \in Runs \ Newest(Runs, jobs))
=============================================================================
