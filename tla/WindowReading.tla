---------------------------- MODULE WindowReading ----------------------------
(***************************************************************************)
(* What a history reading promises, whatever the searches, their widths,   *)
(* the failures, the requests and the crashes: a window is read from its   *)
(* start, which each reading chooses, in one pass.  Each reading has a set *)
(* of sources it is for and a frontier.  A step moves the frontier forward and stores rows only of    *)
(* those sources and only in the buckets it moves past, or skips a bucket  *)
(* at the frontier and stores nothing there.  A reading says "complete"    *)
(* only at the end of the window with nothing skipped, or when it was for  *)
(* nobody (or for nobody that is still of interest).                       *)
(***************************************************************************)
EXTENDS Integers

CONSTANTS
  Readers,   \* the sources
  Quitters,  \* the sources that may stop being of interest
  Limit      \* the end of the window

VARIABLES
  phase,     \* "idle", "starting", "reading", "complete", "short"
  for,       \* the sources the current (or last) reading is for
  frontier,  \* the first bucket not passed
  skipped,   \* the buckets passed without being read
  store      \* the stored rows of each source

readingVars == <<phase, for, frontier, skipped, store>>

Initial ==
  /\ phase = "idle"
  /\ for = {}
  /\ frontier = 0
  /\ skipped = {}
  /\ store = [s \in Readers |-> {}]

\* A reading is asked for.  The evidence of the last one stays until it steps.
Ask ==
  /\ phase \in {"idle", "complete", "short"}
  /\ phase' = "starting"
  /\ UNCHANGED <<for, frontier, skipped, store>>

\* The frontier moves from `from` to frontier' and passes `from .. frontier'-1`,
\* of which at most the last one unread.
Pass(from, before, sources) ==
  /\ for' = sources
  /\ frontier' \in from..Limit
  /\ \/ skipped' = before
     \/ frontier' > from /\ skipped' = before \cup {frontier' - 1}
  /\ \A s \in Readers :
       \E new \in SUBSET ((from..(frontier' - 1)) \ (skipped' \ before)) :
         store'[s] = store[s] \cup (IF s \in sources THEN new ELSE {})

\* One step, the first one or a later one; it may be the last.
Step ==
  /\ \/ phase = "starting"
          /\ \E from \in 0..Limit, sources \in SUBSET Readers : Pass(from, {}, sources)
     \/ phase = "reading" /\ Pass(frontier, skipped, for)
  /\ phase' \in {"reading", "complete", "short"}
  /\ phase' = "complete" =>
       \/ frontier' = Limit /\ skipped' = {}
       \/ for' \subseteq Quitters

\* The reading is given up: stopped, switched off or refused.
GiveUp ==
  /\ phase \in {"idle", "starting", "reading"}
  /\ phase' = "short"
  /\ UNCHANGED <<for, frontier, skipped, store>>

Advance == Ask \/ Step \/ GiveUp

Promise == Initial /\ [][Advance]_readingVars

=============================================================================
