-------------------------- MODULE MCSourceProfile --------------------------
(***************************************************************************)
(* A small instance of SourceProfile.                                      *)
(***************************************************************************)
EXTENDS SourceProfile

CONSTANTS t1, t2, m1, m2

=============================================================================
