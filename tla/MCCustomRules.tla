---------------------------- MODULE MCCustomRules ----------------------------
(***************************************************************************)
(* Small instances of CustomRules.                                         *)
(***************************************************************************)
EXTENDS CustomRules

CONSTANTS t1, t2

=============================================================================
