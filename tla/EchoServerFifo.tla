--------------------------- MODULE EchoServerFifo ---------------------------
(***************************************************************************)
(* EchoServer on the single-threaded io_context that main() runs by        *)
(* default: the coroutine threads that are ready wait in one queue and are *)
(* resumed in its order.  A completion is posted to the tail of the queue, *)
(* and so is a socket that the reactor has found ready.  The operation on  *)
(* such a socket is performed only when its turn has come, and until then  *)
(* it can be cancelled; an operation that can be completed at once when it *)
(* is started is posted as completed and cannot.                           *)
(***************************************************************************)
EXTENDS EchoServer, SequencesExt

\* The threads of server() and signal_handling() are none of the sessions.
ASSUME EchoServerFifoAssumption ==
  IsFiniteSet(Session) /\ Session \cap {"server", "signal"} = {}

VARIABLE runq   \* Threads to resume and, before that, sockets to serve.

fifoVars == <<vars, runq>>

Thread == Session \cup {"server", "signal"}

Ready(t) ==
  \/ t = "server" /\ srvPc # "done" /\ srvOp # "pending"
  \/ t = "signal" /\ (sig \in Signal \/ (sig = "waiting" /\ srvPc = "done"))
  \/ t \in Live /\ op[t] # "pending"

\* The threads that this step makes ready.  An aborted operation is posted anew.
Scheduled == {t \in Thread : ~Ready(t) /\ Ready(t)'}

Precedes(q, t, u) == \E i, j \in 1 .. Len(q) : i < j /\ q[i] = t /\ q[j] = u

\* What stays in the queue when the threads of T leave it, in the same order.
Without(q, T) ==
  IF Range(q) \cap T = {} THEN {q}
  ELSE {r \in SetToSeqs(Range(q) \ T) :
          \A i, j \in 1 .. Len(r) : i < j => Precedes(q, r[i], r[j])}

\* Several completions of one step are posted in any order.
Post(q) == \E stay \in Without(q, Scheduled), new \in SetToSeqs(Scheduled) :
             runq' = stay \o new

Step(t) == \/ t = "server" /\ ServerStep
           \/ t = "signal" /\ (SignalStep \/ SignalStops)
           \/ t \in Session /\ SessionStep(t)

FifoInit == Init /\ runq = <<>>

\* The io_context runs the first handler of the queue.
Run ==
  /\ runq # <<>> /\ Ready(Head(runq))
  /\ Step(Head(runq))
  /\ Post(Tail(runq))

\* The first entry is a ready socket: its operation is performed and, in the
\* same handler, the thread that awaits it comes next.
Completes(t) ==
  IF t = "server" THEN \E r \in {"ok", "error"} : AcceptCompletes(r)
                  ELSE \E r \in OpResult : OpCompletes(t, r)

Perform ==
  /\ runq # <<>> /\ ~Ready(Head(runq))
  /\ Completes(Head(runq))
  /\ UNCHANGED runq

\* The reactor finds the socket of a pending operation ready.
OnSocket(t) ==
  IF t = "server" THEN srvPc = "accept" /\ srvOp = "pending"
                  ELSE t \in Live /\ pc[t] # "linger" /\ op[t] = "pending"

SocketReady(t) ==
  /\ OnSocket(t) /\ ~Contains(runq, t)
  /\ runq' = Append(runq, t)
  /\ UNCHANGED vars

\* The operation completes when it is started.
CompletesAtOnce(t) ==
  /\ OnSocket(t) /\ ~Contains(runq, t)
  /\ Completes(t)
  /\ Post(runq)

RaiseSignal == \E signum \in Signal : SignalRaised(signum) /\ Post(runq)

TimerExpires(s) == pc[s] = "linger" /\ OpCompletes(s, "ok") /\ Post(runq)

FifoNext ==
  \/ Run
  \/ Perform
  \/ RaiseSignal
  \/ \E t \in Session \cup {"server"} : SocketReady(t) \/ CompletesAtOnce(t)
  \/ \E s \in Session : TimerExpires(s)

FifoSpec == FifoInit /\ [][FifoNext]_fifoVars

(***************************************************************************)
(* Fairness.  The thread in run() keeps taking handlers from the queue,    *)
(* and a timer that runs expires.  Clients and signals owe nothing.        *)
(***************************************************************************)
Fairness == WF_fifoVars(Run \/ Perform) /\ \A s \in Session : WF_fifoVars(TimerExpires(s))

FairSpec == FifoSpec /\ Fairness

-----------------------------------------------------------------------------
\* No cancellation is overwritten: when signal_handling() emits, the server
\* has dealt with the type that was emitted before.  cs.cancelled() holds one
\* type only, and a SIGINT that the drain loop filters out would erase the
\* SIGTERM before it.
NoCancellationOverwritten ==
  runq # <<>> /\ Head(runq) = "signal" /\ srvPc # "done" => srvCancelled = "none"

\* SIGTERM always ends the server, whatever the clients do: whenever the
\* server is cancelled with terminal it returns.
TerminalEndsServer == srvCancelled = "terminal" ~> srvPc = "done"

\* Every client takes the eight bytes of its goodbye or breaks the connection:
\* no write of a goodbye is pending for ever.
GoodbyesTaken == \A s \in Session : []<>(pc[s] # "goodbye")

\* SIGINT ends the server gracefully, if the goodbyes are taken: every session
\* leaves its echo loop, says goodbye and lets the drain loop go on.
PartialEndsServer == GoodbyesTaken => (srvCancelled = "partial" ~> srvPc = "done")

\* The server is a task scope also in what must happen: when its last session
\* has ended, a server that drains returns.
ImplementsFairScope == Scope!Spec

-----------------------------------------------------------------------------
(***************************************************************************)
(* What the documentation of session() says and the code does not keep.    *)
(***************************************************************************)

\* "During graceful shutdown, only 'terminal' cancellation is accepted": no
\* other type aborts the goodbye or the sleep after it.
ShutdownHearsTerminalOnly ==
  [][\A s \in Session :
       pc[s] \in {"goodbye", "linger"} /\ op[s] # "aborted" /\ op'[s] = "aborted"
         => cancelled'[s] = "terminal"]_fifoVars

=============================================================================
