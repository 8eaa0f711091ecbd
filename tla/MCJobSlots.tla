---------------------------- MODULE MCJobSlots ------------------------------
(* Instances of JobSlots for TLC: which endpoint starts which job.         *)
EXTENDS JobSlots, TLC

CONSTANTS j1, j2

\* The instances with jobs of one kind are symmetric in the jobs.
JobSymmetry == Permutations(Jobs)

TwoScans == j1 :> "scan" @@ j2 :> "scan"
TwoTranscodes == j1 :> "transcode" @@ j2 :> "transcode"

=============================================================================
