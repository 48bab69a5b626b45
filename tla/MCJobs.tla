------------------------------- MODULE MCJobs -------------------------------
(***************************************************************************)
(* Instances of Jobs for TLC.                                              *)
(***************************************************************************)
EXTENDS Jobs

CONSTANTS j1, j2, j3, key, small, large

NoKeys == [j \in Jobs |-> None]
OneKey == [j \in Jobs |-> key]
SameSpec == [j \in Jobs |-> small]
OneDiffers == [j \in Jobs |-> IF j = j3 THEN large ELSE small]
=============================================================================
