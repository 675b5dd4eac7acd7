-------------------------- MODULE MCHistoryBackfill --------------------------
(***************************************************************************)
(* A small instance of HistoryBackfill.                                    *)
(***************************************************************************)
EXTENDS HistoryBackfill

CONSTANTS s1, s2

\* s1 fills every window and s2 is silent, or s1 starts at its end and s2, which
\* joins when it likes, has one bucket and is silent after it.
MCHoldings == {[s \in Sources |-> IF s = s1 THEN 0..(End - 1) ELSE {}],
               [s \in Sources |-> IF s = s1 THEN {End - 1} ELSE {1}]}

=============================================================================
