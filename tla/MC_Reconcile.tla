---------------------------- MODULE MC_Reconcile ----------------------------
(***************************************************************************)
(* Model-checking instance of Reconcile: three servers (a leader, and two *)
(* more that can be promoted, demoted or be a transfer target), change    *)
(* lists of up to two entries.                                            *)
(***************************************************************************)
EXTENDS Reconcile

CONSTANTS s1, s2, s3

MCServer == {s1, s2, s3}

=============================================================================
