----------------------------- MODULE TaskScope ------------------------------
(***************************************************************************)
(* What the servers of cancellation/ promise about the coroutines they     *)
(* spawn: a scope starts tasks while it is open, it closes when it has     *)
(* been told to stop, and it is not closed before every task it has        *)
(* started is finished.                                                    *)
(***************************************************************************)
CONSTANT Task

VARIABLES
  phase,     \* "open", "closing" or "closed"
  active,    \* tasks that have been started and are not finished
  finished   \* tasks that are finished

vars == <<phase, active, finished>>

Init == phase = "open" /\ active = {} /\ finished = {}

\* An open scope starts some tasks and remains open, or stops; a scope that
\* stops with nothing to wait for is closed at once.
Serve ==
  /\ phase = "open"
  /\ \E new \in SUBSET (Task \ (active \cup finished)) : active' = active \cup new
  /\ phase' \in {"open", "closing", "closed"}
  /\ phase' = "closed" => active' = {}
  /\ UNCHANGED finished

Finish(t) ==
  /\ t \in active
  /\ active' = active \ {t}
  /\ finished' = finished \cup {t}
  /\ UNCHANGED phase

Close ==
  /\ phase = "closing" /\ active = {}
  /\ phase' = "closed"
  /\ UNCHANGED <<active, finished>>

Next == Serve \/ Close \/ \E t \in Task : Finish(t)

\* The last task to finish lets a closing scope close.
Spec == Init /\ [][Next]_vars /\ WF_vars(Close)

\* The safety part alone.
SafeSpec == Init /\ [][Next]_vars
=============================================================================
