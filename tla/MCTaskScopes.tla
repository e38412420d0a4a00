---------------------------- MODULE MCTaskScopes ----------------------------
(***************************************************************************)
(* AsyncInvoke and SignalServer for TLC, in one instance: two programs that*)
(* may not return before their tasks are back, or their sessions gone.     *)
(* More tasks than threads, and three connections.                         *)
(***************************************************************************)
EXTENDS AsyncInvoke, SignalServer

\* The programs share no state and run one after the other.  The server starts from
\* one of the ends of thread_pool_slides.cpp, with the tasks counted in some order.
InvokeHasEnded ==
  /\ kind = "slides" /\ running = {}
  /\ local = CHOOSE f \in [Task -> 0 .. Cardinality(Task) - 1] :
               \A i, j \in Task : i # j => f[i] # f[j]

ScopesInit == Init /\ ServerInit

ScopesNext == \/ Next /\ UNCHANGED serverVars
              \/ InvokeHasEnded /\ ServerNext /\ UNCHANGED vars

ScopesSpec ==
  /\ ScopesInit /\ [][ScopesNext]_<<vars, serverVars>>
  /\ WF_vars(Pool) /\ WF_vars(Context) /\ Fairness
=============================================================================
