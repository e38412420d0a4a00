------------------------ MODULE PromiseServerProofs ------------------------
(***************************************************************************)
(* Proofs about PromiseServer, for both programs and every set of          *)
(* sessions.                                                               *)
(***************************************************************************)
EXTENDS PromiseServer, TLAPS

\* What tells a coroutine that the owner is gone: an accept loop that has not
\* ended has been cancelled, and nobody is cancelled as long as the owner lives.
CancelledMeansGone ==
  /\ owner = "gone" /\ loop = "accept" => kind = "class" /\ cancelled
  /\ owner = "alive" => \A s \in Session : ~taskCancelled[s]

IInv == MapOwnsTasks /\ NoUseAfterFree /\ CancelledMeansGone

USE DEF OpStatus, loopVars, taskVars, waitVars

\* The initial state satisfies the inductive invariant.
LEMMA InitIInv == Init => IInv
  BY DEF Init, IInv, MapOwnsTasks, TypeOK, NoUseAfterFree, CancelledMeansGone, Running, OpResult

\* The accept loop goes on or ends.
LEMMA AcceptStep == ASSUME IInv, AcceptLoop PROVE IInv'
<1>1. CASE AcceptNext
  <2>1. owner = "alive"
    BY <1>1 DEF AcceptNext, IInv, CancelledMeansGone, MapOwnsTasks, TypeOK
  <2>2. PICK new \in Accepted : Stored(new) /\ sessions' = sessions \cup new
    BY <1>1 DEF AcceptNext
  <2>3. new \subseteq Session /\ Running' = Running \cup new
    BY <1>1, <2>2 DEF AcceptNext, Accepted, Stored, Running
  <2>4. TypeOK'
    BY <1>1, <2>2, <2>3 DEF AcceptNext, Stored, UseOwner, IInv, MapOwnsTasks, TypeOK
  <2>5. ~dangling'
    BY <1>1, <2>1 DEF AcceptNext, UseOwner, IInv, NoUseAfterFree
  <2> QED
    BY <1>1, <2>1, <2>2, <2>3, <2>4, <2>5
    DEF AcceptNext, IInv, MapOwnsTasks, NoUseAfterFree, CancelledMeansGone
<1>2. CASE AcceptEnds
  BY <1>2 DEF AcceptEnds, IInv, MapOwnsTasks, TypeOK, NoUseAfterFree, CancelledMeansGone, Running
<1>3. CASE AcceptBreak
  <2>1. owner = "alive" /\ sessions = Running
    BY <1>3 DEF AcceptBreak, IInv, CancelledMeansGone, MapOwnsTasks, TypeOK
  <2>2. PICK new \in Accepted : Stored(new) /\ Clear(sessions \cup new)
    BY <1>3 DEF AcceptBreak
  <2>3. new \subseteq Session /\ Running' = Running \cup new
    BY <1>3, <2>2 DEF AcceptBreak, Accepted, Stored, Running
  <2>4. \A s \in Running' : taskCancelled'[s]
    BY <2>1, <2>2, <2>3 DEF Clear, Running
  <2>5. TypeOK'
    BY <1>3, <2>2 DEF AcceptBreak, Stored, Clear, IInv, MapOwnsTasks, TypeOK, OpResult
  <2> QED
    BY <1>3, <2>2, <2>4, <2>5
    DEF AcceptBreak, Clear, IInv, MapOwnsTasks, NoUseAfterFree, CancelledMeansGone
<1> QED
  BY <1>1, <1>2, <1>3 DEF AcceptLoop

\* A task ends: it leaves the map if, and only if, the owner is alive.
LEMMA TaskEndsStep == ASSUME IInv, NEW s \in Session, TaskEnds(s) PROVE IInv'
<1>1. s \in Running /\ Running' = Running \ {s}
  BY DEF TaskEnds, EchoEnded, Running, IInv, MapOwnsTasks, TypeOK
<1>2. TypeOK'
  BY DEF TaskEnds, UseOwner, IInv, MapOwnsTasks, TypeOK
<1>3. CASE owner = "alive"
  BY <1>1, <1>2, <1>3 DEF TaskEnds, TaskLeavesMap, UseOwner, IInv, MapOwnsTasks,
     NoUseAfterFree, CancelledMeansGone
<1>4. CASE owner = "gone"
  BY <1>1, <1>2, <1>4 DEF TaskEnds, TaskLeavesMap, IInv, MapOwnsTasks,
     NoUseAfterFree, CancelledMeansGone
<1> QED
  BY <1>3, <1>4 DEF IInv, MapOwnsTasks, TypeOK

\* The waits for a signal.  The first signal destroys the object, and run() and
\* all tasks have been cancelled when its map is gone.
LEMMA WaiterStep == ASSUME IInv, Waiter PROVE IInv'
<1>1. CASE DestroyServer
  <2>1. TypeOK' /\ owner' = "gone" /\ Running' = Running
    BY <1>1 DEF DestroyServer, CancelLoop, Clear, IInv, MapOwnsTasks, TypeOK, Running, OpResult
  <2>2. \A s \in Running : taskCancelled'[s]
    BY <1>1 DEF DestroyServer, Clear, IInv, MapOwnsTasks, TypeOK, Running
  <2>3. kind' = "class" /\ (loop' = "accept" => cancelled')
    BY <1>1 DEF DestroyServer, CancelLoop
  <2> QED
    BY <1>1, <2>1, <2>2, <2>3
    DEF DestroyServer, IInv, MapOwnsTasks, NoUseAfterFree, CancelledMeansGone
<1>2. CASE WaiterEnds
  BY <1>2 DEF WaiterEnds, IInv, MapOwnsTasks, TypeOK, NoUseAfterFree, CancelledMeansGone, Running
<1>3. CASE CancelServer
  <2>1. owner = "gone" => loop = "done"
    BY <1>3 DEF CancelServer, IInv, CancelledMeansGone, MapOwnsTasks, TypeOK
  <2>2. cancelled' \in BOOLEAN
    BY <1>3 DEF CancelServer, CancelLoop
  <2>3. acceptOp' \in {"pending", "ok", "error", "aborted"}
    BY <1>3 DEF CancelServer, CancelLoop, IInv, MapOwnsTasks, TypeOK
  <2>4. TypeOK' /\ Running' = Running
    BY <1>3, <2>2, <2>3 DEF CancelServer, IInv, MapOwnsTasks, TypeOK, Running
  <2> QED
    BY <1>3, <2>1, <2>4
    DEF CancelServer, IInv, MapOwnsTasks, NoUseAfterFree, CancelledMeansGone
<1>4. CASE CancelWait
  BY <1>4 DEF CancelWait, IInv, MapOwnsTasks, TypeOK, NoUseAfterFree, CancelledMeansGone, Running
<1> QED
  BY <1>1, <1>2, <1>3, <1>4 DEF Waiter

\* Every step keeps the invariant.
LEMMA Inductive == IInv /\ [Next]_vars => IInv'
<1> SUFFICES ASSUME IInv, [Next]_vars PROVE IInv'
  OBVIOUS
<1>1. ASSUME NEW s \in Session, EchoContinues(s) PROVE IInv'
  BY <1>1 DEF EchoContinues, IInv, MapOwnsTasks, TypeOK, NoUseAfterFree, CancelledMeansGone, Running
<1>2. CASE SignalRaised
  BY <1>2 DEF SignalRaised, IInv, MapOwnsTasks, TypeOK, NoUseAfterFree, CancelledMeansGone, Running
<1>3. ASSUME NEW r \in {"ok", "error"}, AcceptCompletes(r) PROVE IInv'
  BY <1>3 DEF AcceptCompletes, IInv, MapOwnsTasks, TypeOK, NoUseAfterFree, CancelledMeansGone, Running
<1>4. ASSUME NEW s \in Session, NEW r \in {"ok", "eof", "error"}, OpCompletes(s, r) PROVE IInv'
  BY <1>4 DEF OpCompletes, IInv, MapOwnsTasks, TypeOK, NoUseAfterFree, CancelledMeansGone,
     Running, OpResult
<1>5. CASE UNCHANGED vars
  BY <1>5 DEF vars, IInv, MapOwnsTasks, TypeOK, NoUseAfterFree, CancelledMeansGone, Running
<1> QED
  BY <1>1, <1>2, <1>3, <1>4, <1>5, AcceptStep, TaskEndsStep, WaiterStep DEF Next, Resume

\* The inductive invariant of the servers that own promises.
THEOREM Invariant == Spec => []IInv
  BY InitIInv, Inductive, PTL DEF Spec

\* Nobody uses the map of sessions once its owner is gone, for any number of
\* sessions (echo_class.cpp:86, echo_coro_signal_cancellation.cpp:78).
THEOREM MemorySafe == Spec => []NoUseAfterFree
<1>1. IInv => NoUseAfterFree
  BY DEF IInv
<1> QED
  BY <1>1, Invariant, PTL

\* The map holds exactly the running tasks, and the tasks that outlive it have
\* been cancelled, for any number of sessions.
THEOREM TasksOwned == Spec => []MapOwnsTasks
<1>1. IInv => MapOwnsTasks
  BY DEF IInv
<1> QED
  BY <1>1, Invariant, PTL

-----------------------------------------------------------------------------
(***************************************************************************)
(* What happens after the signal: everybody who has not ended can go on,   *)
(* and going on is to end.                                                 *)
(***************************************************************************)
\* A signal that has been handled has cancelled the accept loop, and whoever has been
\* cancelled waits for nothing.  A connection that has been accepted is one of those
\* that have no task.
Stopping ==
  /\ waiter # "first" => IF kind = "class" THEN owner = "gone" ELSE loop = "done" \/ cancelled
  /\ loop = "accept" /\ cancelled => acceptOp # "pending"
  /\ loop = "accept" /\ acceptOp = "ok" => \E s \in Session : task[s] = "unborn"
  /\ kind = "frame" /\ loop = "done" => owner = "gone"
  /\ \A s \in Running : taskCancelled[s] => op[s] # "pending"

\* The guards of AcceptLoop and of the end of a task.
LoopReady    == /\ loop = "accept" /\ acceptOp # "pending"
                /\ \/ acceptOp # "ok" \/ (kind = "class" /\ cancelled)
                   \/ \E s \in Session : task[s] = "unborn"
TaskReady(s) == EchoEnded(s)

\* What the signal demands of the states that follow it.
AllCanEnd ==
  waiter # "first" => /\ loop = "accept" => LoopReady
                      /\ loop = "done" => owner = "gone"
                      /\ owner = "gone" => \A s \in Running : TaskReady(s)

\* ... and of the steps.
OnlyEnds ==
  waiter # "first" =>
    /\ loop' = "accept" => loop = "accept" /\ UNCHANGED acceptOp
    /\ owner = "gone" => /\ owner' = "gone" /\ Running' \subseteq Running
                         /\ \A s \in Running' : UNCHANGED op[s]

\* Every step of the accept loop keeps Stopping.
LEMMA AcceptStopping == ASSUME IInv, Stopping, AcceptLoop PROVE Stopping'
<1>t. TypeOK /\ CancelledMeansGone
  BY DEF IInv, MapOwnsTasks
<1>1. CASE AcceptNext
  <2>1. owner = "alive" /\ \A s \in Session : ~taskCancelled[s]
    BY <1>1, <1>t DEF AcceptNext, CancelledMeansGone, TypeOK
  <2> QED
    BY <1>1, <2>1, <1>t DEF AcceptNext, Stopping, Running, TypeOK
<1>2. CASE AcceptEnds
  BY <1>2 DEF AcceptEnds, Stopping, Running
<1>3. CASE AcceptBreak
  <2>1. PICK new \in Accepted : Stored(new) /\ Clear(sessions \cup new)
    BY <1>3 DEF AcceptBreak
  <2>2. owner = "alive" /\ \A s \in Session : ~taskCancelled[s]
    BY <1>3, <1>t DEF AcceptBreak, CancelledMeansGone, TypeOK
  <2>3. \A s \in Session : taskCancelled'[s] => op'[s] # "pending"
    BY <2>1, <2>2 DEF Clear
  <2> QED
    BY <1>3, <2>1, <2>3 DEF AcceptBreak, Clear, Stopping, Running
<1> QED
  BY <1>1, <1>2, <1>3 DEF AcceptLoop

\* Every step of wait_for_signal() keeps Stopping.
LEMMA WaiterStopping == ASSUME IInv, Stopping, Waiter PROVE Stopping'
<1>t. TypeOK /\ CancelledMeansGone
  BY DEF IInv, MapOwnsTasks
<1>1. CASE DestroyServer
  <2>1. \A s \in Running : taskCancelled'[s] => op'[s] # "pending"
    BY <1>1 DEF DestroyServer, Clear, Stopping, Running
  <2> QED
    BY <1>1, <2>1 DEF DestroyServer, Clear, CancelLoop, Stopping, Running
<1>2. CASE WaiterEnds \/ CancelWait
  BY <1>2, <1>t DEF WaiterEnds, CancelWait, Stopping, Running, TypeOK
<1>3. CASE CancelServer
  BY <1>3, <1>t DEF CancelServer, CancelLoop, Stopping, Running, TypeOK
<1> QED
  BY <1>1, <1>2, <1>3 DEF Waiter

\* Every step keeps Stopping.
LEMMA StoppingInductive == IInv /\ Stopping /\ [Next]_vars => Stopping'
<1> SUFFICES ASSUME IInv, Stopping, [Next]_vars PROVE Stopping'
  OBVIOUS
<1>t. TypeOK
  BY DEF IInv, MapOwnsTasks
<1>1. ASSUME NEW s \in Session, Resume(s) PROVE Stopping'
  BY <1>1, <1>t DEF Resume, EchoContinues, TaskEnds, EchoEnded, Stopping, Running, TypeOK
<1>2. CASE SignalRaised \/ UNCHANGED vars
  BY <1>2 DEF SignalRaised, vars, Stopping, Running
<1>3. ASSUME NEW r \in {"ok", "error"}, AcceptCompletes(r) PROVE Stopping'
  BY <1>3 DEF AcceptCompletes, Stopping, Running
<1>4. ASSUME NEW s \in Session, NEW r \in {"ok", "eof", "error"}, OpCompletes(s, r) PROVE Stopping'
  BY <1>4, <1>t DEF OpCompletes, Stopping, Running, TypeOK
<1> QED
  BY <1>1, <1>2, <1>3, <1>4, AcceptStopping, WaiterStopping DEF Next

\* A step after the signal starts nothing.
LEMMA OnlyEndsStep == IInv /\ Stopping /\ [Next]_vars => [OnlyEnds]_vars
<1> SUFFICES ASSUME IInv, Stopping, Next, waiter # "first"
             PROVE  /\ loop' = "accept" => loop = "accept" /\ UNCHANGED acceptOp
                    /\ owner = "gone" => /\ owner' = "gone" /\ Running' \subseteq Running
                                         /\ \A s \in Running' : UNCHANGED op[s]
  BY DEF OnlyEnds
<1>t. /\ TypeOK /\ (owner = "gone" => \A s \in Running : taskCancelled[s])
      /\ loop = "accept" => cancelled /\ acceptOp # "pending"
      /\ owner = "gone" /\ loop = "accept" => kind = "class"
  BY DEF IInv, MapOwnsTasks, CancelledMeansGone, Stopping, TypeOK
<1>1. CASE AcceptLoop
  BY <1>1, <1>t DEF AcceptLoop, AcceptNext, AcceptEnds, AcceptBreak, Running
<1>2. CASE Waiter \/ SignalRaised
  BY <1>2 DEF Waiter, DestroyServer, WaiterEnds, CancelServer, CancelWait, SignalRaised, Running
<1>3. ASSUME NEW s \in Session, Resume(s)
      PROVE  /\ loop' = "accept" => loop = "accept" /\ UNCHANGED acceptOp
             /\ owner = "gone" => /\ owner' = "gone" /\ Running' \subseteq Running
                                  /\ \A x \in Running' : UNCHANGED op[x]
  BY <1>3, <1>t DEF Resume, EchoContinues, TaskEnds, Running, TypeOK
<1>4. ASSUME NEW r \in {"ok", "error"}, AcceptCompletes(r) PROVE FALSE
  BY <1>4, <1>t DEF AcceptCompletes
<1>5. ASSUME NEW s \in Session, NEW r \in {"ok", "eof", "error"}, OpCompletes(s, r)
      PROVE  /\ loop' = "accept" => loop = "accept" /\ UNCHANGED acceptOp
             /\ owner = "gone" => /\ owner' = "gone" /\ Running' \subseteq Running
                                  /\ \A x \in Running' : UNCHANGED op[x]
  BY <1>5, <1>t DEF OpCompletes, Stopping, Running
<1> QED
  BY <1>1, <1>2, <1>3, <1>4, <1>5 DEF Next

\* Once a signal has been handled, an accept loop that has not ended can end and does
\* nothing else, the owner is gone when it has ended, and then no task starts and
\* every task that is left can end and does nothing else, also one whose operation
\* had completed when it was cancelled.  As a waiter that has been signalled is
\* ready, this is SignalEndsAll, up to what fairness means
\* (echo_class.cpp:69, echo_coro_signal_cancellation.cpp:100).
THEOREM SignalStops == Spec => []AllCanEnd /\ [][OnlyEnds]_vars
<1>1. Init => Stopping
  BY DEF Init, Stopping, Running
<1>2. Spec => [](IInv /\ Stopping)
  BY <1>1, InitIInv, Inductive, StoppingInductive, PTL DEF Spec
<1>3. IInv /\ Stopping => AllCanEnd
  <2> SUFFICES ASSUME IInv, Stopping, waiter # "first"
               PROVE  /\ loop = "accept" => LoopReady
                      /\ loop = "done" => owner = "gone"
                      /\ owner = "gone" => \A s \in Running : TaskReady(s)
    BY DEF AllCanEnd
  <2>t. TypeOK /\ CancelledMeansGone /\ (owner = "gone" => \A s \in Running : taskCancelled[s])
    BY DEF IInv, MapOwnsTasks
  <2>1. loop = "accept" => LoopReady
    BY <2>t DEF LoopReady, Stopping, CancelledMeansGone, TypeOK
  <2>2. loop = "done" => owner = "gone"
    BY <2>t DEF Stopping, TypeOK
  <2>3. ASSUME owner = "gone", NEW s \in Running PROVE TaskReady(s)
    <3>1. s \in Session /\ taskCancelled[s] /\ op[s] # "pending"
      BY <2>3, <2>t DEF Stopping, Running
    <3> QED
      BY <2>3, <3>1, <2>t DEF TaskReady, EchoEnded, TypeOK, OpResult
  <2> QED
    BY <2>1, <2>2, <2>3
<1> QED
  BY <1>2, <1>3, OnlyEndsStep, PTL DEF Spec
=============================================================================
