-------------------------- MODULE MCAlertLifecycle --------------------------
(***************************************************************************)
(* Small instances of AlertLifecycle.                                      *)
(***************************************************************************)
EXTENDS AlertLifecycle, TLC

CONSTANTS c1, c2, a1, a2, a3, p1, p2, p3

AlertSymmetry == Permutations(Alerts) \cup Permutations(Sessions)

=============================================================================
