----------------------------- MODULE AsyncInvoke -----------------------------
(***************************************************************************)
(* Work on a thread pool for tasks of an io_context, and who may touch the *)
(* state of the io_context when.  Four programs:                           *)
(*                                                                         *)
(*   "pool"    threading/thread_pool.cpp: coroutines that post themselves  *)
(*             to a pool, work, post themselves back and count             *)
(*   "slides"  threading/thread_pool_slides.cpp: the same without a pool   *)
(*   "invoke"  async_invoke() of include/async_invoke.hpp, awaited below   *)
(*             run_sync() of include/run_sync.hpp                          *)
(*   "strand"  cancellation/echo_class.cpp with the option -t N: several   *)
(*             threads run the context, and a strand protects its state    *)
(*                                                                         *)
(* The shared state is a counter that is read and written in two steps.    *)
(***************************************************************************)
EXTENDS FiniteSets, Naturals

CONSTANTS
  Task,           \* the coroutines, or the calls of async_invoke()
  PoolThread,     \* the threads of the pool
  ContextThread,  \* the threads that may run the context
  Main,           \* the one that calls main()
  None            \* nobody, a model value

ASSUME AsyncInvokeAssumption ==
  /\ IsFiniteSet(Task) /\ IsFiniteSet(ContextThread) /\ PoolThread # {} /\ Main \in ContextThread
  /\ PoolThread \cap ContextThread = {} /\ None \notin PoolThread \cup ContextThread

VARIABLES
  kind,      \* the program
  pc,        \* where each task is
  at,        \* the thread that runs it
  guard,     \* the tasks with a work guard for the context
  running,   \* the threads in context.run()
  count,     \* the shared counter
  local,     \* what a task has read of it
  result     \* what a task has ended with

vars == <<kind, pc, at, guard, running, count, local, result>>

TypeOK ==
  /\ kind \in {"pool", "slides", "invoke", "strand"}
  /\ pc \in [Task -> {"queued", "posted", "work", "back", "use", "done"}]
  /\ at \in [Task -> PoolThread \cup ContextThread \cup {None}]
  /\ guard \subseteq Task /\ running \subseteq ContextThread
  /\ count \in 0 .. Cardinality(Task) /\ local \in [Task -> 0 .. Cardinality(Task)]
  /\ result \in [Task -> {"none", "value", "exception"}]

\* main() of the programs has spawned the tasks.
Init ==
  /\ kind \in {"pool", "slides", "invoke", "strand"}
  /\ pc = [i \in Task |-> "queued"] /\ at = [i \in Task |-> None]
  /\ guard = {} /\ count = 0
  /\ local = [i \in Task |-> 0] /\ result = [i \in Task |-> "none"]
  /\ running = IF kind = "strand" THEN ContextThread ELSE {Main}

Idle(t) == \A i \in Task : at[i] # t
UsesPool == kind \in {"pool", "invoke"}

\* Mutant: no strand.
NoStrand(i) == TRUE

\* A strand does not run a handler while another one of it is running.
StrandFree(i) == kind = "strand" => \A j \in Task \ {i} : pc[j] # "use"

-----------------------------------------------------------------------------
\* Mutant: no work guard for the executor of the handler.
MovesToPoolUnguarded(i, c) ==
  /\ pc[i] = "queued" /\ UsesPool /\ c \in running /\ Idle(c)
  /\ pc' = [pc EXCEPT ![i] = "posted"]
  /\ UNCHANGED <<kind, at, guard, running, count, local, result>>

\* async_invoke(), or post(bind_executor(pool)): the handler goes to the pool,
\* with a work guard for the context.
MovesToPool(i, c) ==
  /\ pc[i] = "queued" /\ UsesPool /\ c \in running /\ Idle(c)
  /\ pc' = [pc EXCEPT ![i] = "posted"] /\ guard' = guard \cup {i}
  /\ UNCHANGED <<kind, at, running, count, local, result>>

\* The lambda that async_invoke() has posted, or the work of the coroutine.
Works(i, w) ==
  /\ pc[i] = "posted" /\ Idle(w)
  /\ pc' = [pc EXCEPT ![i] = "work"] /\ at' = [at EXCEPT ![i] = w]
  /\ UNCHANGED <<kind, guard, running, count, local, result>>

\* Mutant: the guard outlives the call.
MovesBackGuarded(i) ==
  /\ pc[i] = "work"
  /\ pc' = [pc EXCEPT ![i] = "back"] /\ at' = [at EXCEPT ![i] = None]
  /\ UNCHANGED <<kind, guard, running, count, local, result>>

\* dispatch() to the executor of the handler, or post(deferred).  The guard goes
\* with the lambda; the handler in the queue is work by itself.
MovesBack(i) ==
  /\ pc[i] = "work"
  /\ pc' = [pc EXCEPT ![i] = "back"] /\ at' = [at EXCEPT ![i] = None]
  /\ guard' = guard \ {i}
  /\ UNCHANGED <<kind, running, count, local, result>>

\* The handler runs on a thread of the context and starts count++.
Reads(i, c) ==
  /\ pc[i] = (IF UsesPool THEN "back" ELSE "queued")
  /\ c \in running /\ Idle(c) /\ StrandFree(i)
  /\ pc' = [pc EXCEPT ![i] = "use"] /\ at' = [at EXCEPT ![i] = c]
  /\ local' = [local EXCEPT ![i] = count]
  /\ UNCHANGED <<kind, guard, running, count, result>>

\* The task ends with a value or an exception, which the coroutine of
\* run_sync() stores.
Writes(i, r) ==
  /\ pc[i] = "use"
  /\ count' = local[i] + 1 /\ result' = [result EXCEPT ![i] = r]
  /\ pc' = [pc EXCEPT ![i] = "done"] /\ at' = [at EXCEPT ![i] = None]
  /\ UNCHANGED <<kind, guard, running, local>>

\* run() or runDebug() of lib/run.cpp, and the threads of program_options.cpp:
\* context.run() returns when there is no work left.
Work == guard \cup {i \in Task : pc[i] \in {"queued", "back", "use"}}

Returns(c) ==
  /\ c \in running /\ Idle(c) /\ Work = {}
  /\ running' = running \ {c}
  /\ UNCHANGED <<kind, pc, at, guard, count, local, result>>

Results == IF kind = "invoke" THEN {"value", "exception"} ELSE {"value"}

Pool == \E i \in Task : MovesBack(i) \/ \E w \in PoolThread : Works(i, w)
Context ==
  \/ \E i \in Task, c \in ContextThread : MovesToPool(i, c) \/ Reads(i, c)
  \/ \E i \in Task, r \in Results : Writes(i, r)
  \/ \E c \in ContextThread : Returns(c)

Next == Pool \/ Context

\* The threads of the pool and of the context keep running.
Spec == Init /\ [][Next]_vars /\ WF_vars(Pool) /\ WF_vars(Context)

-----------------------------------------------------------------------------
\* context.run() does not return before every task has been there and back:
\* nobody is left on the pool, each has been counted once, and run_sync() has
\* either a value or an exception (async_invoke.hpp:41, run_sync.hpp:51,
\* thread_pool.cpp:43).
RunReturnsLast ==
  /\ TypeOK
  /\ running = {} => count = Cardinality(Task) /\ \A i \in Task : result[i] # "none"

\* "We cannot increment the counter while still in the thread pool": the state
\* of the context is used by one thread at a time, and never by one of the pool
\* (thread_pool.cpp:36, program_options.cpp:70).
NoDataRace ==
  \A i \in Task : pc[i] = "use" =>
    at[i] \in ContextThread /\ \A j \in Task \ {i} : pc[j] # "use"

\* context.run() returns, with fewer threads than tasks as well.
RunReturns == <>(running = {})
=============================================================================
