----------------------- MODULE MCReactiveJobManager -----------------------
(***************************************************************************)
(* Values for TLC.                                                         *)
(***************************************************************************)
EXTENDS ReactiveJobManager, TLC

\* Names, templates and processes are only ever compared with one another.
Symmetry ==
  Permutations(JobNames) \cup Permutations(Templates) \cup Permutations(Workers)
=============================================================================
