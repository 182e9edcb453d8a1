------------------------------- MODULE MCJobOps --------------------------------
(* TLC instance of JobOps: one user, and somebody else who changes the job. *)
EXTENDS JobOps

CONSTANT b1
=============================================================================
