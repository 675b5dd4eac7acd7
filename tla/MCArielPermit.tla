---------------------------- MODULE MCArielPermit ----------------------------
(***************************************************************************)
(* A small instance of ArielPermit.                                        *)
(***************************************************************************)
EXTENDS ArielPermit, TLC

CONSTANTS l1, b1, b2, c1, c2, c3

\* One live and two background searches; all of one console (or of two whose
\* ids hash to one range) but b2, which is a global-only budget.
MCConsole == l1 :> 0 @@ b1 :> 0 @@ b2 :> None

=============================================================================
