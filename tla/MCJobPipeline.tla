--------------------------- MODULE MCJobPipeline ---------------------------
(***************************************************************************)
(* Small instances of JobPipeline and JobPath: the processes are model     *)
(* values, and those of one pool are interchangeable, as are the jobs.     *)
(***************************************************************************)
EXTENDS JobPath, TLC

PoolSymmetry ==
  UNION {Permutations(StoryWorkers), Permutations(EmailWorkers),
         Permutations(StorySchedulers), Permutations(EmailSchedulers)}
Symmetry == PoolSymmetry \cup Permutations(Jobs)
=============================================================================
