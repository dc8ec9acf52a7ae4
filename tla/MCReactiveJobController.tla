---------------------- MODULE MCReactiveJobController ----------------------
(***************************************************************************)
(* Values for TLC.                                                         *)
(***************************************************************************)
EXTENDS ReactiveJobSingle, TLC

\* Names and templates are only ever compared with one another.
Symmetry == Permutations(JobNames) \cup Permutations(Templates)

SymmetryWithWorkers == Symmetry \cup Permutations(Workers)

\* Symmetry is no option for liveness. Instead the names are generated in one
\* fixed order: every behaviour is one of these after a permutation of the names,
\* and a worker that may create a job may create this one.
NamesInTurn ==
  \A j \in JobNames :
    ~Used(j) /\ Used(j)' => j = CHOOSE k \in JobNames : ~Used(k)

LiveSpec == Init /\ [][Next /\ NamesInTurn]_vars /\ Fairness
=============================================================================
