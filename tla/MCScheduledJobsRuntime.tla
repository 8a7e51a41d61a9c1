----------------------- MODULE MCScheduledJobsRuntime -----------------------
EXTENDS ScheduledJobsRuntime, TLC

\* The jobs are interchangeable: they have the same schedule.
JobSymmetry == Permutations(Jobs)
=============================================================================
