-------------------------- MODULE TaskScopeProofs --------------------------
(***************************************************************************)
(* Proofs about two programs that wait for what they have started: the     *)
(* context.run() of AsyncInvoke, for every finite set of tasks and threads,*)
(* and the polling server of SignalServer, for every set of connections.   *)
(***************************************************************************)
EXTENDS AsyncInvoke, SignalServer, FiniteSetTheorems, TLAPS

Done == {i \in Task : pc[i] = "done"}

\* Only the program with a strand has more than one thread in its context, and
\* a task uses the state of the context on such a thread.
OneThread ==
  /\ kind # "strand" => running \subseteq {Main}
  /\ \A i \in Task : pc[i] = "use" => at[i] \in running

\* A task on the pool has a guard, and the context has not returned before all
\* tasks are done.
Guarded ==
  /\ \A i \in Task : pc[i] \in {"posted", "work"} => i \in guard
  /\ running = {} => Done = Task

\* The counter is exact, and who is about to write it has the current value.
Counted ==
  /\ count = Cardinality(Done)
  /\ \A i \in Task : pc[i] = "use" => local[i] = count
  /\ \A i \in Task : pc[i] = "done" => result[i] # "none"

IInv == TypeOK /\ NoDataRace /\ OneThread /\ Guarded /\ Counted

-----------------------------------------------------------------------------
\* How many tasks are done is a number up to that of the tasks, and one more
\* when one more is done.
LEMMA DoneCard ==
  /\ IsFiniteSet(Done) /\ Cardinality(Done) \in 0 .. Cardinality(Task)
  /\ Cardinality(Task) \in Nat
<1>1. IsFiniteSet(Task) /\ Cardinality(Task) \in Nat
  BY AsyncInvokeAssumption, FS_CardinalityType
<1>2. Done \in SUBSET Task
  BY DEF Done
<1>3. IsFiniteSet(Done) /\ Cardinality(Done) <= Cardinality(Task)
  BY <1>1, <1>2, FS_Subset
<1>4. Cardinality(Done) \in Nat
  BY <1>3, FS_CardinalityType
<1> QED
  BY <1>1, <1>3, <1>4

\* Main() starts with all tasks queued.
LEMMA InitIInv == Init => IInv
<1> SUFFICES ASSUME Init PROVE IInv
  OBVIOUS
<1>1. Done = {}
  BY DEF Init, Done
<1>2. Cardinality(Done) = 0
  BY <1>1, FS_EmptySet
<1>3. TypeOK
  BY DoneCard, <1>2, AsyncInvokeAssumption DEF Init, TypeOK
<1>4. NoDataRace /\ OneThread
  BY AsyncInvokeAssumption DEF Init, NoDataRace, OneThread
<1>5. Guarded /\ Counted
  BY <1>2, AsyncInvokeAssumption DEF Init, Guarded, Counted, Done
<1> QED
  BY <1>3, <1>4, <1>5 DEF IInv

\* A step that neither ends a task nor changes the counter keeps it exact.
LEMMA SameDone ==
  ASSUME Counted, TypeOK, pc' \in [Task -> {"queued", "posted", "work", "back", "use", "done"}],
         \A i \in Task : pc'[i] = "done" <=> pc[i] = "done",
         \A i \in Task : pc'[i] = "use" => local'[i] = count,
         UNCHANGED <<count, result>>
  PROVE  Counted'
<1>1. Done' = Done
  BY DEF Done, TypeOK
<1> QED
  BY <1>1 DEF Counted

\* Moving to the pool and back, and working there.
LEMMA PoolStep ==
  ASSUME IInv, NEW i \in Task,
         \/ \E c \in ContextThread : MovesToPool(i, c)
         \/ \E w \in PoolThread : Works(i, w)
         \/ MovesBack(i)
  PROVE  IInv'
<1>1. TypeOK'
  BY DEF IInv, TypeOK, MovesToPool, Works, MovesBack
<1>2. NoDataRace' /\ OneThread'
  BY DEF IInv, TypeOK, NoDataRace, OneThread, MovesToPool, Works, MovesBack
<1>3. Guarded'
  BY DEF IInv, TypeOK, Guarded, Done, MovesToPool, Works, MovesBack
<1>4. Counted'
  <2>1. \A j \in Task : pc'[j] = "done" <=> pc[j] = "done"
    BY DEF IInv, TypeOK, MovesToPool, Works, MovesBack
  <2>2. \A j \in Task : pc'[j] = "use" => local'[j] = count
    BY DEF IInv, TypeOK, Counted, MovesToPool, Works, MovesBack
  <2> QED
    BY <1>1, <2>1, <2>2, SameDone DEF IInv, TypeOK, MovesToPool, Works, MovesBack
<1> QED
  BY <1>1, <1>2, <1>3, <1>4 DEF IInv

\* A task begins to use the state of the context: nobody else does, because of
\* the strand, or because the only thread is idle.
LEMMA ReadsStep ==
  ASSUME IInv, NEW i \in Task, NEW c \in ContextThread, Reads(i, c)
  PROVE  IInv'
<1>1. \A j \in Task \ {i} : pc[j] # "use"
  BY DEF IInv, OneThread, Reads, StrandFree, Idle
<1>2. TypeOK'
  BY DEF IInv, TypeOK, Reads
<1>3. NoDataRace' /\ OneThread'
  BY <1>1 DEF IInv, TypeOK, NoDataRace, OneThread, Reads
<1>4. Guarded'
  BY DEF IInv, TypeOK, Guarded, Done, Reads, UsesPool
<1>5. Counted'
  <2>1. \A j \in Task : pc'[j] = "done" <=> pc[j] = "done"
    BY DEF IInv, TypeOK, Reads, UsesPool
  <2>2. \A j \in Task : pc'[j] = "use" => local'[j] = count
    BY <1>1 DEF IInv, TypeOK, Reads
  <2> QED
    BY <1>2, <2>1, <2>2, SameDone DEF IInv, TypeOK, Reads
<1> QED
  BY <1>2, <1>3, <1>4, <1>5 DEF IInv

\* A task ends and has been counted.
LEMMA WritesStep ==
  ASSUME IInv, NEW i \in Task, NEW r \in Results, Writes(i, r)
  PROVE  IInv'
<1>1. /\ pc' = [pc EXCEPT ![i] = "done"] /\ pc[i] = "use"
      /\ \A j \in Task \ {i} : pc[j] # "use"
  BY DEF IInv, NoDataRace, Writes
<1>2. Done' = Done \cup {i} /\ i \notin Done
  BY <1>1 DEF IInv, TypeOK, Done
<1>3. Cardinality(Done') = Cardinality(Done) + 1
  BY <1>2, DoneCard, FS_AddElement
<1>4. count' = Cardinality(Done')
  BY <1>1, <1>3 DEF IInv, Counted, Writes
<1>5. Done' \in SUBSET Task
  BY <1>2 DEF Done
<1>6. Cardinality(Done') \in 0 .. Cardinality(Task)
  <2>1. IsFiniteSet(Task)
    BY AsyncInvokeAssumption
  <2>2. Cardinality(Done') <= Cardinality(Task)
    BY <2>1, <1>5, FS_Subset
  <2> QED
    BY <2>2, <1>3, DoneCard
<1>7. TypeOK'
  BY <1>4, <1>6 DEF IInv, TypeOK, Writes, Results
<1>8. NoDataRace' /\ OneThread' /\ Guarded'
  BY <1>1, <1>2 DEF IInv, TypeOK, NoDataRace, OneThread, Guarded, Done, Writes
<1>9. \A j \in Task : pc'[j] # "use" /\ (pc'[j] = "done" => result'[j] # "none")
  BY <1>1 DEF IInv, TypeOK, Counted, Writes, Results
<1>10. Counted'
  BY <1>4, <1>9 DEF Counted
<1> QED
  BY <1>7, <1>8, <1>10 DEF IInv

\* A thread returns from run(): if it is the last one, all tasks are done.
LEMMA ReturnsStep ==
  ASSUME IInv, NEW c \in ContextThread, Returns(c)
  PROVE  IInv'
<1>1. Done = Task
  <2>1. ASSUME NEW i \in Task PROVE pc[i] = "done"
    BY <2>1 DEF IInv, TypeOK, Guarded, Returns, Work
  <2> QED
    BY <2>1 DEF Done
<1>2. TypeOK' /\ NoDataRace' /\ OneThread'
  BY <1>1 DEF IInv, TypeOK, NoDataRace, OneThread, Returns, Idle
<1>3. Done' = Done
  BY DEF Done, Returns
<1>4. Guarded' /\ Counted'
  BY <1>1, <1>3 DEF IInv, Guarded, Counted, Returns
<1> QED
  BY <1>2, <1>4 DEF IInv

\* Every step keeps the invariant.
LEMMA Inductive == IInv /\ [Next]_vars => IInv'
<1> SUFFICES ASSUME IInv, [Next]_vars PROVE IInv'
  OBVIOUS
<1>1. CASE Next
  BY <1>1, PoolStep, ReadsStep, WritesStep, ReturnsStep DEF Next, Pool, Context
<1>2. CASE UNCHANGED vars
  BY <1>2 DEF vars, IInv, TypeOK, NoDataRace, OneThread, Guarded, Counted, Done
<1> QED
  BY <1>1, <1>2

\* The inductive invariant of AsyncInvoke.
THEOREM Invariant == Spec => []IInv
  BY InitIInv, Inductive, PTL DEF Spec

\* The state of the context is used by one thread at a time and never on the
\* pool, for any number of tasks and threads (thread_pool.cpp:36).
THEOREM RaceFree == Spec => []NoDataRace
<1>1. IInv => NoDataRace
  BY DEF IInv
<1> QED
  BY <1>1, Invariant, PTL

\* context.run() returns only after every task has come back, has been counted
\* once and has a value or an exception (async_invoke.hpp:41, run_sync.hpp:51).
THEOREM ReturnsLast == Spec => []RunReturnsLast
<1>1. IInv => RunReturnsLast
  BY DEF IInv, RunReturnsLast, Guarded, Counted, Done
<1> QED
  BY <1>1, Invariant, PTL

-----------------------------------------------------------------------------
(***************************************************************************)
(* context.run() is a task scope, and it returns.                          *)
(***************************************************************************)
Started == {i \in Task : pc[i] \notin {"queued", "done"}}

RunScope == INSTANCE TaskScope WITH
  phase <- IF running = {} THEN "closed" ELSE "open", active <- Started, finished <- Done

\* Every step is one of the task scope: a task that leaves the queue is started,
\* one that has been counted is finished, and the last thread that returns closes.
LEMMA RunStepRefines == IInv /\ [Next]_vars => [RunScope!Next]_RunScope!vars
<1> SUFFICES ASSUME IInv, [Next]_vars PROVE [RunScope!Next]_RunScope!vars
  OBVIOUS
<1>t. TypeOK
  BY DEF IInv
<1>1. ASSUME NEW i \in Task,
             (\E w \in PoolThread : Works(i, w)) \/ MovesBack(i)
             \/ (\E c \in ContextThread : Reads(i, c) /\ pc[i] = "back")
      PROVE  UNCHANGED RunScope!vars
  BY <1>1, <1>t DEF Works, MovesBack, Reads, TypeOK, Started, Done, RunScope!vars
<1>2. ASSUME NEW i \in Task, NEW c \in ContextThread,
             MovesToPool(i, c) \/ (Reads(i, c) /\ pc[i] = "queued")
      PROVE  RunScope!Next
  <2>1. running # {} /\ running' = running /\ i \notin Started \cup Done
    BY <1>2 DEF MovesToPool, Reads, Started, Done
  <2>2. Started' = Started \cup {i} /\ Done' = Done
    BY <1>2, <1>t DEF MovesToPool, Reads, TypeOK, Started, Done
  <2>3. {i} \in SUBSET (Task \ (Started \cup Done))
    BY <2>1
  <2> QED
    BY <2>1, <2>2, <2>3 DEF RunScope!Next, RunScope!Serve
<1>3. ASSUME NEW i \in Task, NEW r \in Results, Writes(i, r) PROVE RunScope!Next
  <2>1. i \in Started /\ Started' = Started \ {i} /\ Done' = Done \cup {i} /\ running' = running
    BY <1>3, <1>t DEF Writes, TypeOK, Started, Done
  <2> QED
    BY <2>1 DEF RunScope!Next, RunScope!Finish
<1>4. ASSUME NEW c \in ContextThread, Returns(c) PROVE RunScope!Next
  <2>1. running # {} /\ Started' = Started /\ Done' = Done
    BY <1>4 DEF Returns, Started, Done
  <2>2. Started = {}
    BY <1>4, <1>t DEF Returns, Work, Started, IInv, Guarded, TypeOK
  <2>3. {} \in SUBSET (Task \ (Started \cup Done)) /\ Started' = Started \cup {}
    BY <2>1
  <2> QED
    BY <2>1, <2>2, <2>3 DEF RunScope!Next, RunScope!Serve
<1>5. CASE UNCHANGED vars
  BY <1>5 DEF vars, Started, Done, RunScope!vars
<1>6. ASSUME NEW i \in Task, NEW c \in ContextThread, Reads(i, c) PROVE pc[i] \in {"back", "queued"}
  BY <1>6 DEF Reads
<1> QED
  BY <1>1, <1>2, <1>3, <1>4, <1>5, <1>6 DEF Next, Pool, Context

\* context.run() is a task scope as well: it starts no task after it has returned,
\* and returns when none is left, with a pool or without (run_sync.hpp:51).
THEOREM RunRefinement == Spec => RunScope!SafeSpec
<1>1. Init => RunScope!Init
  BY AsyncInvokeAssumption DEF Init, Started, Done, RunScope!Init
<1> QED
  BY <1>1, Invariant, RunStepRefines, PTL DEF Spec, RunScope!SafeSpec

\* A thread holds who works or uses the state, and nobody else; and a guard is
\* released on the way back.  Only programs with a pool send tasks there.
Held ==
  /\ \A i \in Task : pc[i] \in {"posted", "work", "back"} => UsesPool
  /\ \A i \in Task : at[i] # None => pc[i] \in {"work", "use"}
  /\ \A i \in guard : pc[i] \in {"posted", "work"}

\* Somebody can go on: a task that has a thread or can get one, or a thread that
\* can return.
Free(c) == c \in running /\ Idle(c)

Ready ==
  \/ \E i \in Task : pc[i] \in {"work", "use"}
  \/ \E i \in Task, w \in PoolThread : pc[i] = "posted" /\ Idle(w)
  \/ \E i \in Task, c \in ContextThread :
       /\ Free(c)
       /\ \/ pc[i] = "queued" /\ (UsesPool \/ StrandFree(i))
          \/ pc[i] = "back" /\ UsesPool /\ StrandFree(i)
  \/ \E c \in ContextThread : Free(c) /\ Work = {}

\* What is left to do: the stages that each task has not reached, and the threads
\* that have to return.
Stage(p) == CASE p = "queued" -> 0 [] p = "posted" -> 1 [] p = "work" -> 2
              [] p = "back" -> 3 [] p = "use" -> 4 [] p = "done" -> 5

Left == {x \in Task \X (1 .. 5) : x[2] > Stage(pc[x[1]])} \cup (running \X {6})

Remaining == Cardinality(Left)

\* Threads and guards are taken and given back together with the stages.
LEMMA HeldInductive == IInv /\ Held /\ [Next]_vars => Held'
<1> SUFFICES ASSUME IInv, Held, [Next]_vars PROVE Held'
  OBVIOUS
<1> USE DEF Held, IInv, TypeOK, UsesPool
<1>1. ASSUME NEW i \in Task, \/ \E w \in PoolThread : Works(i, w)
                             \/ MovesBack(i)
                             \/ \E c \in ContextThread : MovesToPool(i, c)
      PROVE  Held'
  BY <1>1 DEF Works, MovesBack, MovesToPool
<1>2. ASSUME NEW i \in Task, NEW c \in ContextThread, Reads(i, c) PROVE Held'
  BY <1>2 DEF Reads
<1>3. ASSUME NEW i \in Task, NEW r \in Results, Writes(i, r) PROVE Held'
  BY <1>3 DEF Writes
<1>4. CASE UNCHANGED vars \/ \E c \in ContextThread : Returns(c)
  BY <1>4 DEF Returns, vars
<1> QED
  BY <1>1, <1>2, <1>3, <1>4 DEF Next, Pool, Context

\* The invariants of termination.
LEMMA AlwaysHeld == Spec => [](IInv /\ Held)
<1>1. Init => Held
  BY DEF Init, Held
<1> QED
  BY <1>1, InitIInv, Inductive, HeldInductive, PTL DEF Spec

\* There is a thread for whoever needs one: nobody keeps one without working.
LEMMA SomebodyReady == IInv /\ Held => running = {} \/ Ready
<1> SUFFICES ASSUME IInv, Held, NEW c \in running, \A i \in Task : pc[i] \notin {"work", "use"}
             PROVE  Ready
  BY DEF Ready
<1>t. TypeOK
  BY DEF IInv
<1>1. \A i \in Task : at[i] = None
  BY DEF Held
<1>2. c \in ContextThread /\ Free(c) /\ \A w \in PoolThread : Idle(w)
  BY <1>1, <1>t, AsyncInvokeAssumption DEF Free, Idle, TypeOK
<1>3. \A i \in Task : StrandFree(i)
  BY DEF StrandFree
<1>4. CASE \E i \in Task : pc[i] = "posted"
  BY <1>2, <1>4, AsyncInvokeAssumption DEF Ready
<1>5. CASE \E i \in Task : pc[i] = "queued"
  BY <1>2, <1>3, <1>5 DEF Ready
<1>6. CASE \E i \in Task : pc[i] = "back"
  BY <1>2, <1>3, <1>6 DEF Ready, Held
<1>7. CASE \A i \in Task : pc[i] = "done"
  <2>1. Work = {}
    BY <1>7, <1>t DEF Work, Held, TypeOK
  <2> QED
    BY <1>2, <2>1 DEF Ready
<1> QED
  BY <1>4, <1>5, <1>6, <1>7, <1>t DEF TypeOK

\* There are finitely many stages and threads.
LEMMA LeftFinite == TypeOK => IsFiniteSet(Left)
<1> SUFFICES ASSUME TypeOK PROVE IsFiniteSet(Left)
  OBVIOUS
<1> DEFINE Stages == {x \in Task \X (1 .. 5) : x[2] > Stage(pc[x[1]])}
<1>1. PICK n \in Int : n = 5
  OBVIOUS
<1>2. IsFiniteSet(Stages)
  <2>1. IsFiniteSet(1 .. n)
    BY FS_Interval
  <2>2. IsFiniteSet(Task \X (1 .. n))
    BY <2>1, AsyncInvokeAssumption, FS_Product
  <2>3. Stages \in SUBSET (Task \X (1 .. n))
    BY <1>1
  <2> QED
    BY <2>2, <2>3, FS_Subset
<1>3. IsFiniteSet(running)
  BY AsyncInvokeAssumption, FS_Subset DEF TypeOK
<1>4. IsFiniteSet({6})
  BY FS_Singleton
<1>5. IsFiniteSet(running \X {6})
  BY <1>3, <1>4, FS_Product
<1>6. IsFiniteSet(Stages \cup (running \X {6}))
  BY <1>2, <1>5, FS_Union
<1> QED
  BY <1>6 DEF Left

\* Every step is the next stage of one task, or the return of a thread.
LEMMA Decreases == IInv /\ Next => Remaining' < Remaining
<1> SUFFICES ASSUME IInv, Next PROVE Remaining' < Remaining
  OBVIOUS
<1>t. TypeOK
  BY DEF IInv
<1>s. \A i \in Task : Stage(pc[i]) \in 0 .. 5
  BY <1>t DEF TypeOK, Stage
<1>1. ASSUME NEW i \in Task,
             \/ MovesBack(i)
             \/ \E w \in PoolThread : Works(i, w)
             \/ \E c \in ContextThread : MovesToPool(i, c) \/ Reads(i, c)
             \/ \E r \in Results : Writes(i, r)
      PROVE  Left' \in SUBSET Left /\ Left' # Left
  <2>1. PICK p \in {"queued", "posted", "work", "back", "use", "done"} :
           pc' = [pc EXCEPT ![i] = p] /\ Stage(p) > Stage(pc[i]) /\ running' = running
    BY <1>1, <1>t DEF MovesBack, Works, MovesToPool, Reads, Writes, Stage, TypeOK
  <2>2. Stage(p) \in 1 .. 5
    <3>1. Stage(p) \in 0 .. 5
      BY DEF Stage
    <3> QED
      BY <2>1, <3>1, <1>s
  <2>3. \A j \in Task : Stage(pc'[j]) \in 0 .. 5 /\ Stage(pc'[j]) >= Stage(pc[j])
    BY <2>1, <2>2, <1>s, <1>t DEF TypeOK
  <2>4. Left' \in SUBSET Left
    BY <2>1, <2>3, <1>s DEF Left
  <2>5. <<i, Stage(p)>> \in Left /\ <<i, Stage(p)>> \notin Left'
    BY <2>1, <2>2, <1>t DEF Left, TypeOK
  <2> QED
    BY <2>4, <2>5
<1>2. ASSUME NEW c \in ContextThread, Returns(c) PROVE Left' \in SUBSET Left /\ Left' # Left
  <2>1. <<c, 6>> \in Left /\ <<c, 6>> \notin Left'
    BY <1>2 DEF Returns, Left
  <2>2. Left' \in SUBSET Left
    BY <1>2 DEF Returns, Left
  <2> QED
    BY <2>1, <2>2
<1>3. Left' \in SUBSET Left /\ Left' # Left
  BY <1>1, <1>2 DEF Next, Pool, Context
<1>4. IsFiniteSet(Left) /\ Cardinality(Left) \in Nat
  BY <1>t, LeftFinite, FS_CardinalityType
<1>5. /\ IsFiniteSet(Left') /\ Cardinality(Left') <= Cardinality(Left)
      /\ Cardinality(Left') # Cardinality(Left)
  BY <1>3, <1>4, FS_Subset
<1>6. Cardinality(Left') \in Nat
  BY <1>5, FS_CardinalityType
<1> QED
  BY <1>4, <1>5, <1>6 DEF Remaining

\* The threads never all wait: until context.run() has returned everywhere, a task
\* can go on or a thread can return, with fewer threads than tasks as well, and
\* below a strand (run_sync.hpp:50, thread_pool.cpp:43).
THEOREM NeverBlocked == Spec => [](running = {} \/ Ready)
  BY AlwaysHeld, SomebodyReady, PTL

\* Every step leaves less to do.  With NeverBlocked this is RunReturns, up to what
\* fairness means.
THEOREM Terminating == Spec => [](Remaining \in Nat) /\ [][Remaining' < Remaining]_vars
<1>1. IInv => Remaining \in Nat
  BY LeftFinite, FS_CardinalityType DEF IInv, Remaining
<1>2. IInv /\ [Next]_vars => [Remaining' < Remaining]_vars
  BY Decreases
<1> QED
  BY <1>1, <1>2, Invariant, PTL DEF Spec

-----------------------------------------------------------------------------
(***************************************************************************)
(* The server that shuts its sockets down.                                 *)
(***************************************************************************)
\* At first there is neither a socket nor a session.
LEMMA SignalInit == ServerInit => SocketsAreLive
  BY DEF ServerInit, SocketsAreLive, ServerTypeOK, Live

\* The map and the sessions change together.
LEMMA SignalInductive ==
  SocketsAreLive /\ [ServerNext]_serverVars => SocketsAreLive'
<1> SUFFICES ASSUME SocketsAreLive, [ServerNext]_serverVars PROVE SocketsAreLive'
  OBVIOUS
<1> USE DEF SocketsAreLive, ServerTypeOK, Live
<1>1. CASE AcceptOk
  BY <1>1 DEF AcceptOk
<1>2. CASE \/ AcceptFails \/ Poll \/ HandleSignalLate \/ SignalRaised
           \/ UNCHANGED serverVars
  BY <1>2 DEF AcceptFails, Poll, HandleSignalLate, SignalRaised, serverVars
<1>3. ASSUME NEW s \in Session, EchoContinues(s) \/ EchoEnds(s) PROVE SocketsAreLive'
  BY <1>3 DEF EchoContinues, EchoEnds
<1>4. CASE HandleSignal
  BY <1>4 DEF HandleSignal, ShutDown
<1>5. ASSUME NEW r \in {"ok", "error"}, AcceptCompletes(r) PROVE SocketsAreLive'
  BY <1>5 DEF AcceptCompletes
<1>6. ASSUME NEW s \in Session, OpCompletes(s) PROVE SocketsAreLive'
  BY <1>6 DEF OpCompletes, Outcomes
<1> QED
  BY <1>1, <1>2, <1>3, <1>4, <1>5, <1>6 DEF ServerNext, System, Environment

\* Every step of the server is one of the task scope: accepting starts a task, an
\* echo() that ends finishes one, and the rest is not visible.
LEMMA SignalStepRefines ==
  SocketsAreLive /\ [ServerNext]_serverVars => [Scope!Next]_Scope!vars
<1> SUFFICES ASSUME SocketsAreLive, [ServerNext]_serverVars
             PROVE  [Scope!Next]_Scope!vars
  OBVIOUS
<1> USE DEF SocketsAreLive, ServerTypeOK, Live, ScopePhase
<1>1. CASE AcceptOk
  <2>1. PICK s \in Session : echoPc[s] = "unborn" /\ echoPc' = [echoPc EXCEPT ![s] = "read"]
    BY <1>1 DEF AcceptOk
  <2>2. /\ Live' = Live \cup {s}
        /\ {s} \subseteq Session \ (Live \cup {t \in Session : echoPc[t] = "done"})
    BY <2>1
  <2>3. {t \in Session : echoPc'[t] = "done"} = {t \in Session : echoPc[t] = "done"}
    BY <2>1
  <2> QED
    BY <1>1, <2>2, <2>3 DEF AcceptOk, Scope!Next, Scope!Serve
<1>2. CASE AcceptFails
  <2>1. /\ Live' = Live \cup {}
        /\ {} \subseteq Session \ (Live \cup {t \in Session : echoPc[t] = "done"})
    BY <1>2 DEF AcceptFails
  <2> QED
    BY <1>2, <2>1 DEF AcceptFails, Scope!Next, Scope!Serve
<1>3. CASE Poll
  BY <1>3 DEF Poll, Scope!Next, Scope!Close
<1>4. ASSUME NEW s \in Session, EchoEnds(s) PROVE Scope!Next
  <2>1. s \in Live /\ Live' = Live \ {s} /\ srvPc' = srvPc
    BY <1>4 DEF EchoEnds
  <2>2. {t \in Session : echoPc'[t] = "done"} = {t \in Session : echoPc[t] = "done"} \cup {s}
    BY <1>4 DEF EchoEnds
  <2> QED
    BY <2>1, <2>2 DEF Scope!Next, Scope!Finish
<1>5. ASSUME NEW s \in Session, EchoContinues(s) PROVE UNCHANGED Scope!vars
  BY <1>5 DEF EchoContinues, Scope!vars
<1>6. CASE HandleSignal \/ HandleSignalLate \/ Environment \/ UNCHANGED serverVars
  BY <1>6 DEF HandleSignal, HandleSignalLate, Environment, SignalRaised,
     AcceptCompletes, OpCompletes, serverVars, Scope!vars
<1> QED
  BY <1>1, <1>2, <1>3, <1>4, <1>5, <1>6 DEF ServerNext, System

\* The map that the server polls holds exactly the sockets of running sessions, for
\* any number of sessions (echo_coro_signal.cpp:63).
THEOREM LiveSockets == ServerSpec => []SocketsAreLive
  BY SignalInit, SignalInductive, PTL DEF ServerSpec

\* The server that shuts sockets down is a task scope: no echo() is left when it
\* returns (echo_coro_signal.cpp:79).
THEOREM SignalRefinement == ServerSpec => ImplementsScope
<1>1. ServerInit => Scope!Init
  BY DEF ServerInit, Live, ScopePhase, Scope!Init
<1> QED
  BY <1>1, LiveSockets, SignalStepRefines, PTL
  DEF ServerSpec, ImplementsScope, Scope!SafeSpec

\* How far a session whose socket is shut down is from its end: what it has read
\* before is written once more, and that write fails.
EchoLeft(s) ==
  IF s \notin Live THEN 0
  ELSE CASE op[s] \in {"eof", "error"} -> 1
         [] op[s] = "pending" -> (IF echoPc[s] = "read" THEN 4 ELSE 2)
         [] op[s] = "ok" -> (IF echoPc[s] = "read" THEN 3 ELSE 5)

\* A socket is shut down when it has a session.
ShutIsBorn == \A s \in Session : shut[s] => echoPc[s] # "unborn"

\* A step of a session whose socket is shut down.
ShutSteps ==
  \A s \in Session :
    shut[s] => /\ shut'[s]
               /\ EchoLeft(s)' < EchoLeft(s) \/ UNCHANGED <<echoPc[s], op[s]>>

\* The handler shuts down what is in the map.
LEMMA ShutInductive == SocketsAreLive /\ ShutIsBorn /\ [ServerNext]_serverVars => ShutIsBorn'
<1> SUFFICES ASSUME SocketsAreLive, ShutIsBorn, [ServerNext]_serverVars PROVE ShutIsBorn'
  OBVIOUS
<1> USE DEF SocketsAreLive, ServerTypeOK, Live, ShutIsBorn
<1>1. CASE AcceptOk
  BY <1>1 DEF AcceptOk
<1>2. CASE HandleSignal
  BY <1>2 DEF HandleSignal, ShutDown
<1>3. ASSUME NEW s \in Session, EchoContinues(s) \/ EchoEnds(s) PROVE ShutIsBorn'
  BY <1>3 DEF EchoContinues, EchoEnds
<1>4. CASE \/ AcceptFails \/ Poll \/ HandleSignalLate \/ Environment \/ UNCHANGED serverVars
  BY <1>4 DEF AcceptFails, Poll, HandleSignalLate, Environment, SignalRaised, AcceptCompletes,
     OpCompletes, serverVars
<1> QED
  BY <1>1, <1>2, <1>3, <1>4 DEF ServerNext, System

\* Each step of such a session is one towards its end.
LEMMA ShutDecreases == SocketsAreLive /\ ShutIsBorn /\ [ServerNext]_serverVars => ShutSteps
<1> SUFFICES ASSUME SocketsAreLive, ShutIsBorn, [ServerNext]_serverVars, NEW t \in Session, shut[t]
             PROVE  /\ shut'[t]
                    /\ EchoLeft(t)' < EchoLeft(t) \/ UNCHANGED <<echoPc[t], op[t]>>
  BY DEF ShutSteps
<1> USE DEF SocketsAreLive, ServerTypeOK, ShutIsBorn, Live
<1>1. CASE AcceptOk
  BY <1>1 DEF AcceptOk
<1>2. CASE HandleSignal
  <2>1. shut'[t] /\ echoPc' = echoPc
    BY <1>2 DEF HandleSignal, ShutDown
  <2>2. op'[t] = op[t] \/ (t \in Live /\ op[t] = "pending" /\ op'[t] \in {"eof", "error"})
    BY <1>2 DEF HandleSignal, ShutDown
  <2> QED
    BY <2>1, <2>2 DEF EchoLeft
<1>3. ASSUME NEW s \in Session, EchoContinues(s) \/ EchoEnds(s)
      PROVE  /\ shut'[t]
             /\ EchoLeft(t)' < EchoLeft(t) \/ UNCHANGED <<echoPc[t], op[t]>>
  BY <1>3 DEF EchoContinues, EchoEnds, EchoLeft
<1>4. ASSUME NEW s \in Session, OpCompletes(s)
      PROVE  /\ shut'[t]
             /\ EchoLeft(t)' < EchoLeft(t) \/ UNCHANGED <<echoPc[t], op[t]>>
  <2>1. PICK r \in Outcomes(s) : op' = [op EXCEPT ![s] = r]
    BY <1>4 DEF OpCompletes
  <2> QED
    BY <1>4, <2>1 DEF OpCompletes, Outcomes, EchoLeft
<1>5. CASE \/ AcceptFails \/ Poll \/ HandleSignalLate \/ SignalRaised \/ UNCHANGED serverVars
           \/ \E r \in {"ok", "error"} : AcceptCompletes(r)
  BY <1>5 DEF AcceptFails, Poll, HandleSignalLate, SignalRaised, AcceptCompletes, serverVars
<1> QED
  BY <1>1, <1>2, <1>3, <1>4, <1>5 DEF ServerNext, System, Environment

\* A session whose socket the handler has shut down takes at most five more steps,
\* whatever has been scheduled already, and until it has ended it has an operation
\* that completes or a result to go on with.  This is ShutSessionsEnd, up to what
\* fairness means (echo_coro_signal.cpp:43).
THEOREM ShutSessionsStop ==
  ServerSpec => /\ [](\A s \in Session : EchoLeft(s) \in 0 .. 5)
                /\ [](\A s \in Session : shut[s] => echoPc[s] = "done" \/ s \in Live)
                /\ [][ShutSteps]_serverVars
<1>1. ServerInit => ShutIsBorn
  BY DEF ServerInit, ShutIsBorn
<1>2. SocketsAreLive => \A s \in Session : EchoLeft(s) \in 0 .. 5
  BY DEF SocketsAreLive, ServerTypeOK, Live, EchoLeft
<1>3. SocketsAreLive /\ ShutIsBorn => \A s \in Session : shut[s] => echoPc[s] = "done" \/ s \in Live
  BY DEF SocketsAreLive, ServerTypeOK, Live, ShutIsBorn
<1> QED
  BY <1>1, <1>2, <1>3, SignalInit, SignalInductive, ShutInductive, ShutDecreases, PTL DEF ServerSpec
=============================================================================
