---------------------------- MODULE MCDeployment ----------------------------
(* Deployment for TLC: two orders of one key and one of another, from an       *)
(* earlier release.                                                            *)
EXTENDS Deployment, TLC

CONSTANTS o1, o2, o3, k1, k2

OneRetried == o1 :> k1 @@ o2 :> k1 @@ o3 :> k2

=============================================================================
