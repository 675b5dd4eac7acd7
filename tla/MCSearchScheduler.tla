------------------------- MODULE MCSearchScheduler -------------------------
(***************************************************************************)
(* Small instances of SearchScheduler.                                     *)
(***************************************************************************)
EXTENDS SearchScheduler, TLC

CONSTANTS a, b, x, w1, w2, m1

\* One search that fires at every tick of the clock.
MCPeriodOne == a :> 1

\* a fires at every tick, b at every second one.
MCPeriodsTwo == a :> 1 @@ b :> 2

\* x has a cron that does not parse.
MCPeriodsBad == a :> 1 @@ x :> 1

WorkerSymmetry == Permutations({w1, w2})

=============================================================================
