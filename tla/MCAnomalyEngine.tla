--------------------------- MODULE MCAnomalyEngine ---------------------------
(***************************************************************************)
(* Small instances of AnomalyEngine.                                       *)
(***************************************************************************)
EXTENDS AnomalyEngine

CONSTANTS p1, p2

=============================================================================
