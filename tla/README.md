# Specifications of asio-coro

asio-coro is a collection of programs and small libraries around C++20
coroutines on Boost.Asio. What is hard in them is not data but *cancellation*:
signals, timers, failing partners and destructors cancel coroutines whose
operations may complete at the same moment. These modules model the programs
whose control flow carries that difficulty, check them with TLC on small
instances, and prove with TLAPS that every safety property holds for all
instances: any number of connections, tasks, threads and bytes.

## 1. Inventory

| Part | State | Operations | Hard behaviour | Correct when |
|---|---|---|---|---|
| `cancellation/echo_coro_signal_advanced.cpp`: server with graceful shutdown | map of sessions with a cancellation signal each, notification channel, one cancellation state per coroutine thread | accept, spawn, forward cancellation, drain; echo, goodbye, pause; signals | accept racing with cancellation, notifications that are dropped, a cancellation state that is assigned and not joined, three escalating signals | no session outlives the server; no session misses a cancellation; SIGTERM always ends it |
| `cancellation/echo_coro_signal.cpp`: server that shuts sockets down | map of sockets, one-shot signal handler | accept, echo, shut down, poll | handler racing with scheduled operations, one failing socket of many | waits for all; a signal stops everything |
| `cancellation/echo_class.cpp`: object owning promises | promise of `run()`, map of promises | accept, task, destructor, two signals | coroutines are resumed after the object is gone | nobody uses the object afterwards; nobody is forgotten |
| `cancellation/echo_coro_signal_cancellation.cpp`: promises and `operator\|\|` | map of promises in a coroutine frame | accept, task, clear, signal | tasks are resumed after the frame is gone | as above |
| `bin/client.cpp`, `bin/corosio_client.cpp`: load generators | byte counters, deadline | connect, write loop, read loop, half-close | mutual blocking with the server, deadline racing with a write, `size_t` arithmetic | reads back what it wrote, always ends |
| `net/happy_eyeballs.cpp` | shared timer, two attempts | resolve, connect, fall back | three-way race of two attempts and a deadline | IPv6 preferred, no success lost, failure only if everything failed |
| `net/proxy.cpp` | two directions | forward, half-close | error or end in one direction while the other is busy | streams complete, ends independent, errors shared |
| `process/ping*.cpp`, `lib/log.cpp`, with the child `bin/handle_signal.cpp` | line buffers, child process, pipes, grace timer | read lines, flush on cancellation, escalate signals, wait | flush while a read is scheduled, log coroutines that outlive the pipes, a child that ignores signals, a descendant that keeps the pipes open | every character printed once; nobody uses a pipe that is gone; SIGTERM always ends it |
| `include/async_invoke.hpp`, `include/run_sync.hpp`, `threading/*`, `lib/run.cpp`, the threads of `lib/program_options.cpp` | work guards, shared counter, threads in `run()` | post to the pool, work, post back, use | context running out of work while a task is on the pool, two threads at the same state | `run()` returns last, and returns; one thread at a time |
| `include/stream_utils.hpp` | pipes between coroutines, byte counts | write, copy, count, close | partial writes that are cancelled, full pipes | what is reported is what comes out; everybody ends |
| `echo/*`, `echo/other/*`, `corosio/*`: one echo server in many styles | sessions, workers, deadlines | accept, read, write, time out | errors that are ignored, a failed accept, a limited number of workers | echo exact, sessions independent, silent clients dropped, everybody served |
| `bin/wait_for_port.cpp`, `http/*` | small | retry; streaming echo of a body | deadline; chunked bodies | - |
| `bin/file_io.cpp`, `cobalt/*`, `issues/*`, docs, scripts | - | - | samples of other libraries, reproducers of library defects | - |

Components interact through Asio only: a parent spawns a coroutine thread and
holds its cancellation signal or promise; the thread reports back through its
completion handler; `operator&&` and `operator||` join threads and cancel the
rest on the first error or the first success. `PROJECT.json` lists every part,
also the ones that are not modelled, and the hazards at their lines.

## 2. What is assumed of Asio

Asio is not part of the repository; the modules describe it from how the code
uses it.

* A coroutine thread has one cancellation state. A cancellation that passes its
  filter is *assigned* to it, one that does not pass assigns `none`;
  `reset_cancellation_state` installs a filter for the whole thread and forgets
  an earlier cancellation (`Cancellation.tla`).
* Cancelling reaches a pending operation at once. An operation whose completion
  has been scheduled keeps its result. If the thread is cancelled and has not
  switched `throw_if_cancelled` off, its next `co_await` throws.
* A handler runs to its next suspension without interruption (one thread, or a
  strand). A thread that ends resumes its parent, or calls its completion
  handler, in the same handler.
* `channel.try_send` on a channel without capacity succeeds if, and only if,
  somebody waits in `async_receive`.
* The composed `async_write` reacts to partial and terminal cancellation, the
  other operations to all types.
* Destroying or cancelling a promise cancels its coroutine and does not wait. The
  wait for a promise that is cancelled ends at once, also while the coroutine
  still runs (`issues/asio_issue_1705.cpp` records this).
* The group behind `operator&&` and `operator||` passes on the first cancellation
  request only. The threads of an `operator||` hear terminal alone.
* `detached` discards what a coroutine throws.
* `async_execute` turns total into SIGINT, partial into SIGTERM and terminal into
  SIGKILL, and goes on waiting for the process.
* A cancellation state taken before `reset_cancellation_state`, as in
  `stream_utils.hpp:26`, still sees later cancellations.
* A strand runs one of its handlers at a time. `run()` returns when the context
  has neither handlers nor work.
* A read reports a reset of the connection once, and then the end of the stream
  (the servers that ignore read errors rely on it).

## 3. Modules

* `Cancellation` - cancellation types, filters, statuses of an operation.
* `TaskScope` - the abstract specification: a scope that starts tasks, is told
  to stop, and is closed only when all its tasks have finished.
* `EchoServer` - the server with graceful shutdown. `srvPc`, `pc` say where
  `server()` and each session are suspended, `srvOp`, `op` the status of what
  they await, `srvCancelled`, `cancelled` their cancellation state, `sessions`
  the keys of the map, `sig` the coroutine `signal_handling()`. One action per
  way a resumed coroutine goes on; `Environment` completes operations and raises
  signals. Ready handlers run in any order. `forwarded` is a history variable.
* `EchoServerFifo` - `EchoServer` with the queue of a single-threaded
  `io_context`. The order of the queue is what makes some properties true: a
  cancelled operation is posted before the next signal can be handled.
* `SignalServer` - the server that shuts its sockets down, in the same style.
* `PromiseServer` - the two servers that own promises: `kind` tells whether the
  map belongs to an object (`echo_class.cpp`) or to a coroutine frame
  (`echo_coro_signal_cancellation.cpp`). The tasks are the same in both; how the
  accept loop ends and what a signal does are actions of their own.
* `EchoClient` - one connection of either load generator (`client` says which),
  from connecting to its endpoints one by one to the join of its two loops, with
  a session of `echo/echo_coro.cpp` at the other end and bounded socket buffers
  between them. Bytes are counted; `size_t` has `Width` bits.
* `HappyEyeballs` - the two attempts, the timer, `operator||`, the deadline.
* `Proxy` - one session of the proxy with its two directions.
* `ProcessRunner` - `execute()` of the three process programs (`kind`), one `log()`
  coroutine per pipe, and the child. `log[p]` holds where the coroutine is, its
  buffer `buf`, the data `raw` of a read that has completed but not been looked
  at, and how many characters have been printed. `left` says how many more
  signals of a kind the child ignores; a child without a handler is killed by
  its first signal. `heir` is a descendant that keeps the pipes open.
* `AsyncInvoke` - tasks that move to a pool and back, the threads in `run()` and
  the state they share, for the four programs named at its top. The counter is
  read and written in two steps, so that a race would lose an increment.
* `EchoPrograms` - the echo servers of `echo/` and `corosio/`. A record says for
  each how many sessions it runs, what a failed accept does, which results end a
  session and whether it has deadlines; the actions are those of all of them.
* `Pipeline` - `write_and_close()`, `cat()` and `count()` or `read_all()` connected
  by bounded pipes; each may be cancelled and the writer may time out.
* `EchoServerProofs` - theorems about `EchoServer` and `EchoServerFifo`.
  `TaskScopeProofs` - about the other two programs that are task scopes,
  `AsyncInvoke` and `SignalServer`. `ProcessRunnerProofs` - about `ProcessRunner` and
  `Pipeline`. `PromiseServerProofs`, `EchoClientProofs`, `HappyEyeballsProofs`,
  `ProxyProofs` and `EchoProgramsProofs` - about the module in their name.
* `MC...` - the instances for TLC. `MCTaskScopes` has two small programs, which share
  no state, one after the other.

Operators whose comment begins with "Mutant" are wrong on purpose: each is a
plausible bug that the property named with it in `PROJECT.json` must detect.

## 4. Runs

| Run | Shows | Bounds |
|---|---|---|
| `echo_server` | safety of the server and refinement of `TaskScope`, any order of handlers | 3 connections, symmetric; any number of signals |
| `echo_fifo` | no cancellation is overwritten; SIGTERM ends server and program, SIGINT does if clients take the goodbye; fair task scope | 2 connections |
| `task_scopes` | `AsyncInvoke`: `run()` returns, and not before all tasks are back; the shared state is used by one thread at a time. `SignalServer`: waits for all sessions (refinement of `TaskScope`); sockets shut down end their sessions | four programs, 3 tasks, 2 threads of the pool and 2 of the context; then the server with 3 connections |
| `promise_server` | nobody uses the map when its owner is gone; every task left behind has been cancelled and ends | both programs, 3 connections |
| `echo_client` | no byte lost, no mutual blocking, limit reached, with a limit, a deadline or both | both clients, 2 addresses, 4-bit integers, limit 9, buffers of 2 bytes, no write beyond 11 bytes |
| `happy_eyeballs` | preference, fallback, no success lost, end | 0 to 3 addresses per family |
| `proxy` | order of half-close, independence, common failure or close ends the session | 3 chunks per direction |
| `process_runner` | no character printed twice, none lost but in the case of `log_cancelled`; a log coroutine that outlives `execute()` has been cancelled; the child's end and SIGTERM end `execute()` | 2 characters on STDOUT, none on STDERR, 2 signals, a child that ignores up to 1 signal of a kind |
| `echo_programs` | echo exact, sessions independent, deadlines, everybody served | all servers, 2 clients, 1 worker, 2 bytes |
| `pipeline` | reported is what arrived; everybody ends | 5 bytes, chunks of 3, pipes of 3; any number of cancellations |
| `echo_shutdown_total` | violation, see below | 1 connection |
| `log_cancelled` | violation, see below | 2 characters on STDOUT, 1 signal, a child that handles its first signal or none |

Three connections are enough to have one session in each of: just accepted, told
to stop, already gone. Two suffice for the queue, where a third would only
repeat the position of the second. For the clients and the pipeline the buffers
are smaller than the data, so that both sides can block, and the size is no
multiple of a chunk. Three chunks fill the pipe of the proxy (sent, read,
delivered). Two characters are a line and a rest without a newline, or two lines
in one read; the log coroutine of STDERR is the same as that of STDOUT and takes
part with an empty stream, which is enough for the group of both to end, fail
and be cancelled. Two signals are an escalation. With one worker and two clients
the limit of the pool is reached, and three tasks are more than the threads.

Two runs end with a violation, of what a comment in the code says:

* `echo_shutdown_total`: "During shutdown, react to 'terminal' cancellation only"
  (`echo_coro_signal_advanced.cpp:60`), but `sleep()` re-enables all types for the
  thread that calls it.
* `log_cancelled`: "Any remaining buffered data is printed before returning"
  (`log.cpp:21`) and "Any remaining lines in the buffer have already been emitted by
  the custom cancellation handler" (`log.cpp:99`). The handler prints what is in the
  buffer when the cancellation happens. In TLC's trace the child writes and ends, the
  read of `log()` completes, and the second given to the pipes is over before the
  handler of that read has run: its data (`raw`) is added to the buffer after the
  cancellation handler has looked at it, and `log()` throws without printing it.
  `RemainingIsPrinted` states the comments. `LogIsExact` states what holds: nothing
  is printed twice, and nothing is lost unless a read had completed with data when
  the cancellation came.

Other observations, which the models contain and the properties allow for:

* Server with graceful shutdown: a terminal cancellation that arrives with the
  end of the goodbye is forgotten by that session, whose pause then takes its
  time (`GoodbyeSent`). After a failed accept the server emits `none`, and a
  session that had been told total and not looked at it yet ends without its
  goodbye (`Forward`).
* `echo_coro_signal.cpp`: `acceptor.cancel()` misses an accept that is already
  scheduled, and the server goes on; `shutdown()` throws at a connection that the
  peer has reset, which ends the program (`HandleSignal`).
* `client.cpp:45`: `total - size` wraps, so the limit is exceeded by less than one
  buffer; `LimitReached` states this. The Corosio client keeps its limit.
* `log.cpp:21` speaks of terminal only, while the filter accepts partial as well
  (`LogFilter`).
* `stream_utils.hpp:62`: a write that has been cancelled is reported and not thrown,
  but if a type that `write()` does not accept follows before the coroutine runs, the
  cancellation is forgotten and the aborted write is thrown (`Forgets`).
* The Corosio servers ignore the error of an accept and start a session on a
  socket that is not open. It has no client, and `EchoPrograms` leaves it out.

**Fairness.** The thread in `run()` keeps taking handlers, so steps of coroutines
are weakly fair; timers that run expire; operations on a socket that has been
shut down complete. Clients, peers and signals owe nothing, except where a
property or specification says so: `PartialEndsServer` (on the condition
`GoodbyesTaken`: a client takes the goodbye or its connection breaks), `EchoClient`
(TCP delivers and the peer runs), `Proxy` (the peers take what is written to them)
and `EverybodyIsServed` (on the condition `Patient`: each client closes its side
and reads). In `ProcessRunner` the kernel delivers signals and data, but a child
need not end, and a descendant need not let go of the pipes. In `Pipeline` the
three coroutines run; nobody needs to be cancelled, and nobody is kept from ending
by cancellations, however many. In `HappyEyeballs` the resolver returns some time: a
deadline does not interrupt it, and only takes effect when it returns. In `AsyncInvoke` the threads
of the pool and of the context run, whichever of them.

**Deadlock** is checked in `process_runner`, where the end of the program is a
step of its own that changes nothing (`Ended`). The other programs end or are idle
without clients, which TLC would report; what must not block there is stated as
a liveness property instead.

## 5. Proofs

Every invariant, action property and refinement (without fairness) that a passing
run checks is also a theorem. Each proof follows the same path: an inductive
invariant `IInv` that contains the properties and the facts they rest on, a lemma
for the initial state, lemmas for groups of actions, `Inductive` for the whole
next-state relation, and a theorem for each property. All inductive invariants
have been checked by TLC on the instances of the runs before they were proved.

The liveness properties are proved up to the last step, the rule for weak fairness,
which the prover does not have. Two kinds of theorems take its premises apart:

* *nobody is blocked*: as long as what must happen has not happened, an action that
  is fair, or that the property assumes to be, is ready. `Ready` and the like are the
  guards of these actions, written out, since the prover has no `ENABLED`;
* *nobody goes on for ever*: a natural number, the variant, is lowered by every step
  (or by the steps in question, while no step raises it). It counts what is left to
  do: bytes to come, operations to complete, places in the code to pass.

So an execution can only end in the desired state, for all values of the constants.
TLC has confirmed on the instances of the runs that the guards are exactly `ENABLED` of
the actions they stand for.

The bounds of section 4 are constants, so the theorems hold without them: what
remains assumed of the constants is named in the modules and is listed below.

### Servers that end on a signal

`EchoServerProofs` proves for every set `Session`, finite or not:
`TypeCorrect`, `Structured`, `Wakeup`, `NoEscape`, `NotStale` (invariants),
`Final` (an action property) and `Refinement` (`Spec => Scope!SafeSpec`). Their
proofs use no assumption about constants.

None of the invariants is inductive alone. `IInv` adds three facts:

* `MapIsLive`: the map holds exactly the sessions that run. With it the test
  `sessions.empty()` of the drain loop says that nobody runs, which gives
  `StructuredConcurrency`, and that somebody runs who will notify, which gives
  `NoLostWakeup`.
* `UnbornIsFresh`: a connection not accepted yet has never been told anything.
* `TerminalOnlyDraining`: only a draining server tells its sessions terminal in
  a way that a later, weaker type could erase, and a draining server hears
  nothing but terminal; this is why `TerminalIsFinal` holds although
  cancellation states are assigned.

The proof has one lemma for the server's actions, one for a session that
completes, one for a session that goes on, and `Inductive` combines them. The
refinement maps `srvPc` to the phase of the scope and the running sessions to its
active tasks; every action is a step of the scope or a stutter, because
completing is the only way out of `Live`.

For `EchoServerFifo` it proves, for every finite set `Session` that does not contain
the names of the two other threads (`EchoServerFifoAssumption`), `FifoRefinement`
(`FifoSpec => Spec`, so that all of the above, `FifoScope` included, holds on a
single-threaded `io_context`) and `NotOverwritten` (`NoCancellationOverwritten`).
`FifoIInv` adds to `IInv` that a thread is in the queue once (`Once`), that everybody
who is ready is in it and `signal_handling()` only then (`ReadyIsQueued`), and
`NoOvertaking`: `signal_handling()` never stands before a server that it has
cancelled and that has not looked yet. The lemmas `Sequenced`, `Stays`, `Posted` and
`TailQueue` say what posting and taking do to a queue. `Without`, what is left of
a queue, is defined by the order of its elements and not with `SelectSeq`, which
could be reasoned about only by induction.

Shutdown: `SignalHeard` says that a server which SIGINT or SIGTERM has cancelled is in
the queue and keeps what it was told until it is resumed, leaves the accept loop and
forwards exactly that; it rests on `NotOverwritten` and holds on the queue only. From
there on any order of handlers will do. `ShutdownNeverBlocked`: the server has been
woken or a session is left that will wake it, and every session that is left can go
on, sleeps, or, after SIGINT only, waits for its client to take the goodbye, which
is why `PartialEndsServer` assumes `GoodbyesTaken` and `TerminalEndsServer` does not.
`ShutdownAdvances`: the server does not accept again and forgets no terminal, and
every change of a session lowers its `SessionRank`. The invariant `Told` adds to `IInv`
that whoever has been told to stop waits for nothing in `echo()`, and after
terminal for no goodbye: `Forward` aborts what is pending, and what had completed
meets `echoCancelled` at the next `co_await`.

`PromiseServerProofs` proves for both programs and every set `Session`
`MemorySafe` (`NoUseAfterFree`) and `TasksOwned` (`MapOwnsTasks`). Neither property
says why a coroutine that is resumed after the owner is gone knows it. The
inductive invariant adds `CancelledMeansGone`: an accept loop that outlives the
owner is that of the class and has been cancelled, and no task is cancelled as
long as the owner lives. The first part is what the check after `async_accept`
in `run()` needs, the second what makes "not cancelled" a safe test for a task
that erases itself. `SignalStops`: once the signal has been handled, an accept loop
that has not ended can end and does nothing else, the owner is gone when it has
ended, and from then on no task starts and every task that is left can end and does
nothing else. Its invariant `Stopping` says that whoever has been cancelled waits for
nothing. There are no assumptions about constants.

For `SignalServer`, `TaskScopeProofs` proves `LiveSockets` (`SocketsAreLive`, which is
inductive), `SignalRefinement` (`ImplementsScope`) and `ShutSessionsStop`: a session whose
socket has been shut down takes at most five more steps (a read that has already
completed is written once more, and that write fails), and until it has ended there
is one that it can take.

### Threads

`TaskScopeProofs` proves for every finite set of tasks and any number of threads
`RaceFree` (`NoDataRace`), `ReturnsLast` (`RunReturnsLast`) and `RunRefinement`: `run()` is a
task scope too, which starts a task when it leaves the queue and closes when the last
thread returns. The proofs use `AsyncInvokeAssumption`: there is a thread in the pool,
`main()` runs the context in finitely many threads, and the threads of both are
different. `IInv` adds

* `OneThread`: without a strand only `Main` runs the context, and a task that uses
  the state is on a thread that does;
* `Guarded`: a task on the pool holds a work guard, so the context does not run out
  of work, and once nobody is in `run()` all tasks are done;
* `Counted`: the counter is the number of tasks that are done, and a task about to
  write it has read its current value.

`NeverBlocked` and `Terminating` are `RunReturns` up to the fairness rule: a thread can take
a step until nobody is in `run()`, and each step lowers the number of places that the
tasks and the threads have still to pass.

### Clients, proxy and connections

`EchoClientProofs`: `ByteConservation` (`Conservation`), `CompleteEcho` (`NothingLost`) and
`ReachedLimit` (`LimitReached`) for both clients, any limit, buffer, socket buffer,
number of addresses and width of `size_t`. `EchoClientAssumption` says that the bytes
of a connection can be counted: the limit and one buffer more, and the bound on
the bytes of a client without a limit, are in the range of `size_t`. With 64 bits
no connection gets there; with a limit less than one buffer below 2^64 the total of
the Asio client could wrap and `LimitReached` would be false. `IInv` adds

* `Writing`: a write starts below the limit, so `total` does not wrap, although the
  difference in `client.cpp:45` does; a write that is aborted has transferred nothing
  (Asio) or is counted (Corosio);
* `Deadlines`: only the deadline or a broken connection cancels the writer;
* `Failing`: without a broken connection no loop fails and the reader is never
  cancelled;
* `Ending`: the end of the stream comes after the last byte, in both directions. It
  is what makes "the reader has seen the end" mean "everything has come back".

`NeverBlocked` is that the two loops, the echo session and the bounded socket buffers
between them cannot all wait for each other, and with `Terminating` it is `Finishes`. The
variant is a sum of the bytes that are still to move and of the steps that each
coroutine still has to take when nothing moves.

`HappyEyeballsProofs`: `RealFailure` (`FailureIsReal`), `ImmediateFallback`
(`FallbackIsImmediate`) and `Preference` (`PrefersIPv6`, an action property), for any
number of addresses (`MaxEndpointsAssumption`). `IInv` adds where the attempts start
(`Started`), that the wait of IPv4 is over if, and only if, there is a reason for it
(`Waiting`), that a success cancels the other attempt and nothing else but the
deadline does (`Cancels`), and the reason for every failure (`Reasons`). Without
`Cancels` a failure of one attempt could not be told from its cancellation by the
winner. `KeptSuccess` is the safety part of `SuccessIsKept`: once an attempt has won the
program does not fail, also if the deadline passes while the other one ends, and
returns the socket of an attempt that has won. `NeverBlocked` and `Terminating` are `Ends`,
from `Joined`: the group is waiting only as long as an attempt has not ended.

`ProxyProofs`: `CompleteStream` (`FinIsLast`) and `IndependentEnds`
(`HalfCloseIsIndependent`), for streams of any length (`MaxChunksAssumption`). `IInv` adds
that what `forward()` has counted and what was delivered differ by the chunk it is
writing (`Counted`), that the end is read after the last chunk (`EndOfStream`), and
that only an exception in one direction cancels the other (`CancelledByError`).
`NeverBlocked` and `Terminating` are `SessionEnds`.

`EchoProgramsProofs`: `ExactEcho` (`EchoIsExact`) and `Independent`
(`SessionsAreIndependent`, an action property), for all servers, any number of
clients, workers and bytes (`EchoProgramsAssumption`: finitely many connections, at
least one worker). `IInv` adds that a session holds data only between a read and the
completion of its write (`Holding`), that nothing is awaited before a session exists
(`Fresh`), and the reason for every result that ends a session (`Reasons`).
`NeverBlocked` and `Terminating` are `EverybodyIsServed`: no result of a read or a write leaves
a worker stuck, and the programs that ignore read errors do not spin, because a reset
is reported once. `ExpiredStops` is `TimeoutEndsSession`: a session whose deadline has
passed has a result to go on with, and every way to go on is to end.

### Pipes and processes

`ProcessRunnerProofs` holds the theorems of two modules, which have no name in
common. `ExactReport` (`ReportIsExact` of `Pipeline`) holds for any size of the data,
the chunks and the pipes (`PipelineAssumption`: none of them is zero).
`PipelineIInv` has the place of every byte (`Flow`), what each coroutine holds at
each point (`Writing`, `Copying`, `Reading`), and that a reader sees the end only when the coroutine before has ended
and its pipe is empty (`Reading`), which carries the writer's report to the sink.
`PipelineNeverBlocked` and `PipelineTerminating` are `PipelineEnds`: somebody can always go on
because a full pipe has a reader and an empty one a writer, or its end is seen; each
step of a coroutine leaves less to do, and a cancellation, passed on or forgotten,
never more.

`ExactLog` (`LogIsExact`) and `MemorySafe` (`NoUseAfterFree`) hold for the three
programs, texts of any length and any number of signals
(`ProcessRunnerAssumption`: at least one signal may be sent). `IInv` has the place of
every character, the lost ones too (`Placed`; `LogIsExact` follows from it), what a read may hold (`Reads`), that both log coroutines
are cancelled once and together (`CutOnce`), and which of them have ended at each
stage of `execute()` (`Stages`). Its lemmas say what finding, printing and cutting off
a line do to a buffer. `ExecuteNeverBlocked` and `ExecuteTerminating` are `ExitEndsExecute` and
`TermEndsExecute`, from `Ending`: a group that has been asked to cancel has passed it on,
since the filter lets nothing but terminal through, and a SIGTERM that was handled
while the child was alive is on its way to it as SIGKILL.

### Only model-checked

The liveness properties as such: `TerminalEndsServer`, `PartialEndsServer`, the
fairness of `ImplementsFairScope`, `ShutSessionsEnd`, `SignalEndsAll`, `Finishes`,
`SuccessIsKept`, `Ends`, `SessionEnds`, `ExitEndsExecute`, `TermEndsExecute`, `RunReturns`,
`TimeoutEndsSession`, `EverybodyIsServed` and `PipelineEnds`. What is missing is the step
from the theorems above to `~>`, which needs fairness and `ENABLED` and is out of reach
of the prover; and for `EchoServerFifo`, that the queue is served in its order, so that
nobody who is in it stays there. TLC checks these properties on
the instances of section 4. Nothing is proved towards `ImplementsFairScope` beyond
`FifoScope` and `Wakeup`.

## 6. Not modelled

Abstracted everywhere: contents of data, log output, option parsing.

* The servers without a strand race on their maps when they are started with
  `-t N`; the atomic handlers of `EchoServer`, `SignalServer` and `PromiseServer`
  stand for one thread, or for the strand of `echo_class.cpp`, which
  `AsyncInvoke` shows to be needed.
* `test_happy_eyeballs()` prints the remote endpoint once more after the connection
  is made, which may throw if the peer has closed it meanwhile; `HappyEyeballs`
  ends before that.
* A function that throws on the pool in `async_invoke()` ends the program, and the
  branch for functions without a result is not used anywhere.
* The handler of SIGINT in `ping_signal.cpp` may already be scheduled when
  `execute()` returns; the model runs it only while the frame exists.
* `main()` of the load generators: their connections share nothing. Detached
  threads of `client.cpp` may outlive the contexts, and `corosio_client.cpp`
  prints its total before it joins its threads.
* The accept loop of `net/proxy.cpp` spawns independent sessions. A write of a
  session may be the one to report a reset, after which the read of the same socket
  sees the end of the stream; `Proxy` leaves this out, as the failed write ends the
  session in any case.
* SIGPIPE: nothing in the repository ignores it, and by default a write to a pipe
  without reader ends the program. `Pipeline` takes it to be ignored, so that such a
  write is an error (`WriteBreaks`); otherwise all coroutines end with the program.
* `include/formatters.hpp`, `include/literals.hpp`, `include/concepts.hpp`: text
  layout and compile-time code.
* `bin/file_io.cpp` (sequential), `cobalt/*` (samples of another library),
  `issues/*` (reproducers of library defects), `http/json*` (parsing by libraries).

* `bin/wait_for_port.cpp` (a sequential retry under one deadline) and the session of
  `http/echo.cpp` (a sequential loop around the parser of a library): little in them
  depends on the order of events. They would be the next to model.
