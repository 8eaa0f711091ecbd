-------------------------- MODULE MCBackgroundJobs --------------------------
(* Instances of BackgroundJobs for TLC: jobs and requests are model values *)
(* set in the .cfg files; liveness is checked, so there is no symmetry.    *)
EXTENDS BackgroundJobs, TLC

CONSTANTS j1, c1, c2

=============================================================================
