---------------------------- MODULE PromiseServer ---------------------------
(***************************************************************************)
(* The two echo servers that keep a map of promises, one for each session  *)
(* task.  Destroying a promise cancels its coroutine with terminal but     *)
(* does not wait for it, so the tasks are resumed once more when the owner *)
(* of the map is gone, and must not touch it.                              *)
(*                                                                         *)
(*   kind = "class"   cancellation/echo_class.cpp: the owner is an object, *)
(*                    EchoServer, that a signal handler destroys while its *)
(*                    accept loop run() is suspended;                      *)
(*   kind = "frame"   cancellation/echo_coro_signal_cancellation.cpp: the  *)
(*                    owner is the frame of the coroutine server(), which  *)
(*                    operator|| cancels on a signal.  Its tasks run their *)
(*                    session() behind log_cancellation(), which passes    *)
(*                    cancellation on by hand.                             *)
(***************************************************************************)
EXTENDS Cancellation

CONSTANT Session     \* The ids of the connections that may be accepted.

VARIABLES
  kind,          \* which of the two programs this is
  owner,         \* the object or the frame with the map: "alive" or "gone"
  loop,          \* the accept loop, run() or server(): "accept" or "done"
  acceptOp,      \* status of async_accept
  cancelled,     \* whether cs.cancelled() of the accept loop is set
  sessions,      \* the keys of the map "sessions"
  task,          \* the session tasks: "unborn", "running" or "done"
  op,            \* status of what the echo coroutine of a task awaits
  taskCancelled, \* whether cs.cancelled() of the task is set
  waiter,        \* wait_for_signal(): in its "first" or "second" wait, or "done"
  raised,        \* SIGINT has arrived and the waiter is going to be resumed
  dangling       \* somebody has used the owner after it was gone

loopVars == <<loop, acceptOp, cancelled>>
taskVars == <<task, op, taskCancelled>>
waitVars == <<waiter, raised>>
vars == <<kind, owner, loopVars, sessions, taskVars, waitVars, dangling>>

Running == {s \in Session : task[s] = "running"}

TypeOK ==
  /\ kind \in {"class", "frame"}
  /\ owner \in {"alive", "gone"}
  /\ loop \in {"accept", "done"}
  /\ acceptOp \in {"pending", "ok", "error", "aborted"}
  /\ sessions \subseteq Session
  /\ task \in [Session -> {"unborn", "running", "done"}]
  /\ op \in [Session -> OpStatus]
  /\ taskCancelled \in [Session -> BOOLEAN]
  /\ waiter \in {"first", "second", "done"}
  /\ cancelled \in BOOLEAN /\ raised \in BOOLEAN /\ dangling \in BOOLEAN

Init ==
  /\ kind \in {"class", "frame"}
  /\ owner = "alive" /\ loop = "accept" /\ acceptOp = "pending"
  /\ sessions = {}
  /\ task = [s \in Session |-> "unborn"]
  /\ op = [s \in Session |-> "pending"]
  /\ taskCancelled = [s \in Session |-> FALSE]
  /\ waiter = "first"
  /\ cancelled = FALSE /\ raised = FALSE /\ dangling = FALSE

\* Whoever reaches for the map in this step.
UseOwner == dangling' = (dangling \/ owner = "gone")

\* Mutant: a task whose operation has already completed does not learn that it
\* has been cancelled.
ClearPending(M) ==
  /\ sessions' = {} /\ owner' = "gone"
  /\ taskCancelled' = [s \in Session |-> taskCancelled[s] \/ (s \in M /\ op[s] = "pending")]
  /\ op' = [s \in Session |->
              IF s \in M /\ op[s] = "pending" THEN "aborted" ELSE op[s]]

\* The map is destroyed with its owner, and the promises of M cancel their tasks.
Clear(M) ==
  /\ sessions' = {} /\ owner' = "gone"
  /\ taskCancelled' = [s \in Session |-> taskCancelled[s] \/ s \in M]
  /\ op' = [s \in Session |->
              IF s \in M /\ op[s] = "pending" THEN "aborted" ELSE op[s]]

\* The accept loop is cancelled, and with it an accept that is pending.
CancelLoop ==
  /\ cancelled' = (cancelled \/ loop = "accept")
  /\ acceptOp' = IF loop = "accept" /\ acceptOp = "pending" THEN "aborted" ELSE acceptOp

-----------------------------------------------------------------------------
(***************************************************************************)
(* The accept loop                                                         *)
(***************************************************************************)

\* co_spawn runs the task of a new connection up to its first suspension.
Stored(new) == task' = [s \in Session |-> IF s \in new THEN "running" ELSE task[s]]

\* The outcomes of an accept: one new connection, or none.
Accepted == IF acceptOp = "ok" THEN {{s} : s \in {x \in Session : task[x] = "unborn"}}
                               ELSE {{}}

\* A connection has been accepted, and the loop has not been cancelled.
AcceptNext ==
  /\ loop = "accept" /\ acceptOp = "ok" /\ ~cancelled
  /\ \E new \in Accepted : Stored(new) /\ sessions' = sessions \cup new
  /\ UseOwner
  /\ acceptOp' = "pending"
  /\ UNCHANGED <<kind, owner, loop, cancelled, op, taskCancelled, waitVars>>

\* run(): async_accept throws, or it succeeds and the check for the race finds
\* that run() has been cancelled.  "this" may be gone, and the socket is dropped.
AcceptEnds ==
  /\ kind = "class" /\ loop = "accept"
  /\ acceptOp \in {"error", "aborted"} \/ (acceptOp = "ok" /\ cancelled)
  /\ loop' = "done"
  /\ UNCHANGED <<kind, owner, acceptOp, cancelled, sessions, taskVars, waitVars, dangling>>

\* server(): a connection that was accepted is stored even despite cancellation;
\* then the loop ends, and the map is cleared.
AcceptBreak ==
  /\ kind = "frame" /\ loop = "accept"
  /\ acceptOp \in {"error", "aborted"} \/ (acceptOp = "ok" /\ cancelled)
  /\ \E new \in Accepted : Stored(new) /\ Clear(sessions \cup new)
  /\ loop' = "done"
  /\ UNCHANGED <<kind, acceptOp, cancelled, waitVars, dangling>>

-----------------------------------------------------------------------------
(***************************************************************************)
(* The task of a session.  A cancelled echo coroutine throws at the next   *)
(* co_await at the latest, also when its current operation succeeds.       *)
(***************************************************************************)
EchoContinues(s) ==
  /\ s \in Running /\ op[s] = "ok" /\ ~taskCancelled[s]
  /\ op' = [op EXCEPT ![s] = "pending"]
  /\ UNCHANGED <<kind, owner, loopVars, sessions, task, taskCancelled, waitVars, dangling>>

EchoEnded(s) ==
  /\ s \in Running
  /\ \/ op[s] \in {"eof", "error", "aborted"}
     \/ op[s] = "ok" /\ taskCancelled[s]

\* Mutant: a task erases its promise always.
LeavesAlways(s) == TRUE

\* The owner may be gone: a cancelled task returns without touching the map.
TaskLeavesMap(s) == ~taskCancelled[s]

TaskEnds(s) ==
  /\ EchoEnded(s)
  /\ task' = [task EXCEPT ![s] = "done"]
  /\ IF TaskLeavesMap(s) THEN UseOwner /\ sessions' = sessions \ {s}
                         ELSE UNCHANGED <<dangling, sessions>>
  /\ UNCHANGED <<kind, owner, loopVars, op, taskCancelled, waitVars>>

-----------------------------------------------------------------------------
(***************************************************************************)
(* wait_for_signal()                                                       *)
(***************************************************************************)

\* The first signal destroys the object: ~EchoServer() cancels the promise of
\* run(), and then the map is destroyed.
DestroyServer ==
  /\ kind = "class" /\ waiter = "first" /\ raised
  /\ CancelLoop /\ Clear(sessions)
  /\ waiter' = "second" /\ raised' = FALSE
  /\ UNCHANGED <<kind, loop, task, dangling>>

\* A second signal ends wait_for_signal().
WaiterEnds ==
  /\ kind = "class" /\ waiter = "second" /\ raised
  /\ waiter' = "done" /\ raised' = FALSE
  /\ UNCHANGED <<kind, owner, loopVars, sessions, taskVars, dangling>>

\* Mutant: only the pending accept is cancelled, and nobody remembers it.
CancelAccept ==
  /\ kind = "frame" /\ waiter = "first" /\ raised
  /\ acceptOp' = IF loop = "accept" /\ acceptOp = "pending" THEN "aborted" ELSE acceptOp
  /\ waiter' = "done" /\ raised' = FALSE
  /\ UNCHANGED <<kind, owner, loop, cancelled, sessions, taskVars, dangling>>

\* wait_for_signal() succeeds, and operator|| cancels server().
CancelServer ==
  /\ kind = "frame" /\ waiter = "first" /\ raised
  /\ CancelLoop
  /\ waiter' = "done" /\ raised' = FALSE
  /\ UNCHANGED <<kind, owner, loop, sessions, taskVars, dangling>>

\* server() returned by itself, and operator|| cancels wait_for_signal().
CancelWait ==
  /\ kind = "frame" /\ waiter = "first" /\ ~raised /\ loop = "done"
  /\ waiter' = "done"
  /\ UNCHANGED <<kind, owner, loopVars, sessions, taskVars, raised, dangling>>

-----------------------------------------------------------------------------
SignalRaised ==
  /\ waiter # "done" /\ ~raised
  /\ raised' = TRUE
  /\ UNCHANGED <<kind, owner, loopVars, sessions, taskVars, waiter, dangling>>

AcceptCompletes(r) ==
  /\ loop = "accept" /\ acceptOp = "pending"
  /\ r = "error" \/ \E s \in Session : task[s] = "unborn"
  /\ acceptOp' = r
  /\ UNCHANGED <<kind, owner, loop, cancelled, sessions, taskVars, waitVars, dangling>>

OpCompletes(s, r) ==
  /\ s \in Running /\ op[s] = "pending"
  /\ op' = [op EXCEPT ![s] = r]
  /\ UNCHANGED <<kind, owner, loopVars, sessions, task, taskCancelled, waitVars, dangling>>

AcceptLoop == AcceptNext \/ AcceptEnds \/ AcceptBreak
Waiter     == DestroyServer \/ WaiterEnds \/ CancelServer \/ CancelWait
Resume(s)  == EchoContinues(s) \/ TaskEnds(s)

Next ==
  \/ AcceptLoop
  \/ Waiter
  \/ \E s \in Session : Resume(s)
  \/ SignalRaised
  \/ \E r \in {"ok", "error"} : AcceptCompletes(r)
  \/ \E s \in Session, r \in {"ok", "eof", "error"} : OpCompletes(s, r)

Spec == Init /\ [][Next]_vars

\* The io_context resumes every coroutine that is ready.
Fairness ==
  /\ WF_vars(AcceptLoop) /\ WF_vars(Waiter)
  /\ \A s \in Session : WF_vars(Resume(s))

FairSpec == Spec /\ Fairness

-----------------------------------------------------------------------------
\* Neither the accept loop nor a task uses the map once its owner is gone,
\* although both are resumed after that, and also when what they were waiting
\* for had already succeeded when they were cancelled.
NoUseAfterFree == ~dangling

\* No session is forgotten, and none stays: as long as the owner lives its map
\* holds exactly the tasks that run.  Every task that outlives the owner has
\* been cancelled, in particular that of a connection accepted by server()
\* although it was already cancelled.
MapOwnsTasks ==
  /\ TypeOK
  /\ IF owner = "alive" THEN sessions = Running ELSE \A s \in Running : taskCancelled[s]

\* A signal ends the server and all its tasks, whatever the clients do.
SignalEndsAll == raised ~> owner = "gone" /\ loop = "done" /\ Running = {}
=============================================================================
