------------------------- MODULE MCMetricCollection -------------------------
(***************************************************************************)
(* A small instance of MetricCollection.                                   *)
(***************************************************************************)
EXTENDS MetricCollection

CONSTANTS t1, t2

MCConsoles == <<"c1">>

=============================================================================
