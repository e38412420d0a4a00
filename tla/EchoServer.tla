----------------------------- MODULE EchoServer -----------------------------
(***************************************************************************)
(* The TCP echo server with graceful shutdown of                           *)
(* cancellation/echo_coro_signal_advanced.cpp.  Its coroutine threads are: *)
(*                                                                         *)
(*   signal    signal_handling(): turns SIGTSTP, SIGINT and SIGTERM into   *)
(*             the cancellation types total, partial and terminal of the   *)
(*             server;                                                     *)
(*   server    server(): accepts, keeps the map of the active sessions,    *)
(*             forwards cancellation to them and waits for all of them;    *)
(*   session   session(): runs echo() as a thread of its own, then says    *)
(*             goodbye, lingers, and shuts the socket down.                *)
(*                                                                         *)
(* An action is what one handler of the io_context does: it resumes one    *)
(* thread and runs until that thread suspends again.  An echo() that ends  *)
(* resumes its session inside the same handler, and a session that ends    *)
(* calls its completion handler in the same handler.                       *)
(*                                                                         *)
(* Handlers that are ready run in any order here, which is all that Asio   *)
(* promises; EchoServerFifo adds the queue of a single-threaded io_context.*)
(***************************************************************************)
EXTENDS Cancellation

CONSTANT Session      \* The ids of the connections that may be accepted.

Signal == {"SIGTSTP", "SIGINT", "SIGTERM"}

VARIABLES
  srvPc,          \* where server() is suspended
  srvOp,          \* status of the operation that server() awaits
  srvCancelled,   \* cs.cancelled() of the server's thread
  forwarded,      \* history: what was forwarded last after the accept loop
  sessions,       \* the keys of the map "sessions"
  pc,             \* where each session is suspended, in echo() or in shutdown()
  op,             \* status of the operation that the session awaits
  cancelled,      \* cs.cancelled() of the session's thread
  echoCancelled,  \* whether the session's echo() thread has been cancelled
  sig             \* the state of signal_handling(), or the signal it got

serverVars  == <<srvPc, srvOp, srvCancelled, forwarded>>
sessionVars == <<pc, op, cancelled, echoCancelled>>
vars == <<serverVars, sessions, sessionVars, sig>>

ServerPc  == {"accept", "receive", "done"}
EchoPc    == {"read", "write"}
SessionPc == EchoPc \cup {"unborn", "goodbye", "linger", "done"}

Live == {s \in Session : pc[s] \notin {"unborn", "done"}}

TypeOK ==
  /\ srvPc \in ServerPc
  /\ srvOp \in OpStatus
  /\ srvCancelled \in Cancelled
  /\ forwarded \in Cancelled
  /\ sessions \subseteq Session
  /\ pc \in [Session -> SessionPc]
  /\ op \in [Session -> OpStatus]
  /\ cancelled \in [Session -> Cancelled]
  /\ echoCancelled \in [Session -> BOOLEAN]
  /\ sig \in Signal \cup {"waiting", "done"}

\* main(): both coroutines have been started and run up to their first
\* suspension, in async_accept and in signals.async_wait.
Init ==
  /\ srvPc = "accept" /\ srvOp = "pending" /\ srvCancelled = "none"
  /\ sessions = {} /\ forwarded = "none"
  /\ pc = [s \in Session |-> "unborn"]
  /\ op = [s \in Session |-> "pending"]
  /\ cancelled = [s \in Session |-> "none"]
  /\ echoCancelled = [s \in Session |-> FALSE]
  /\ sig = "waiting"

(***************************************************************************)
(* Filters.  The accept loop takes every type and the drain loop only      *)
(* terminal.  A session takes every type while echo() runs and terminal    *)
(* only from there on, until sleep() installs enable_total_cancellation    *)
(* in the thread that calls it.                                            *)
(***************************************************************************)
ServerFilter(p) == IF p = "receive" THEN EnableTerminal ELSE EnableTotal

\* Mutant: session() keeps the default filter, which lets only terminal pass.
DefaultSessionFilter(p) == EnableTerminal

SessionFilter(p) == IF p = "goodbye" THEN EnableTerminal ELSE EnableTotal

\* The types that abort the pending operation itself: the composed async_write
\* ignores total, the others react to every type.
OpFilter(p) == IF p \in {"write", "goodbye"} THEN EnablePartial ELSE EnableTotal

(***************************************************************************)
(* session.second->emit(t) for every session of the map M, in a state      *)
(* where the sessions are suspended at p with operations in status o.      *)
(***************************************************************************)
Hears(s, M, p, t) == s \in M /\ t \in SessionFilter(p[s])

Forward(t, M, p, o) ==
  /\ cancelled' = [s \in Session |->
                     IF s \in M THEN Filtered(SessionFilter(p[s]), t)
                                ELSE cancelled[s]]
  /\ echoCancelled' = [s \in Session |->
                         \/ echoCancelled[s]
                         \/ Hears(s, M, p, t) /\ p[s] \in EchoPc]
  /\ op' = [s \in Session |->
              IF Hears(s, M, p, t) /\ t \in OpFilter(p[s]) /\ o[s] = "pending"
              THEN "aborted" ELSE o[s]]

-----------------------------------------------------------------------------
(***************************************************************************)
(* server()                                                                *)
(***************************************************************************)

\* Mutant: a connection accepted despite cancellation is not put into the map.
StoredIfUncancelled(new) ==
  /\ sessions' = IF srvCancelled = "none" THEN sessions \cup new ELSE sessions
  /\ pc' = [s \in Session |-> IF s \in new THEN "read" ELSE pc[s]]

\* After async_accept: a connection that was accepted is stored even when the
\* server has been cancelled meanwhile.  co_spawn runs the new session up to
\* the first async_read_some.
Stored(new) ==
  /\ sessions' = sessions \cup new
  /\ pc' = [s \in Session |-> IF s \in new THEN "read" ELSE pc[s]]

\* Mutant: the id of a session that has ended is used again.
AcceptedAgain ==
  IF srvOp = "ok" THEN {{s} : s \in {x \in Session : pc[x] \in {"unborn", "done"}}}
                  ELSE {{}}

\* The outcomes of an accept: one new session, or none.
Accepted == IF srvOp = "ok" THEN {{s} : s \in {x \in Session : pc[x] = "unborn"}}
                            ELSE {{}}

\* Mutant: the cancellation state is not reset before the next accept.
AwaitAcceptUnreset == srvPc' = "accept" /\ srvOp' = "pending" /\ UNCHANGED srvCancelled

AwaitAccept  == srvPc' = "accept"  /\ srvOp' = "pending" /\ srvCancelled' = "none"
AwaitReceive == srvPc' = "receive" /\ srvOp' = "pending" /\ srvCancelled' = "none"
Return       == srvPc' = "done"    /\ UNCHANGED <<srvOp, srvCancelled>>

\* Mutant: the server waits before it has looked.
DrainAlways == AwaitReceive

\* The test of the drain loop.
Drain == IF sessions' = {} THEN Return ELSE AwaitReceive

\* A connection is accepted and nothing has been cancelled: accept the next.
AcceptNext ==
  /\ srvPc = "accept" /\ srvOp = "ok" /\ srvCancelled = "none"
  /\ \E new \in Accepted : Stored(new)
  /\ AwaitAccept
  /\ UNCHANGED <<forwarded, op, cancelled, echoCancelled, sig>>

\* total cancels the sessions, the new one included, and accepting goes on.
AcceptTotal ==
  /\ srvPc = "accept" /\ srvOp # "pending" /\ srvCancelled = "total"
  /\ \E new \in Accepted : Stored(new)
  /\ Forward("total", sessions', pc', op)
  /\ AwaitAccept
  /\ UNCHANGED <<forwarded, sig>>

\* An error or any other cancellation ends the accept loop.  cs.cancelled() is
\* forwarded as it is, "none" after a failed accept.
AcceptBreak ==
  /\ srvPc = "accept" /\ srvOp # "pending" /\ srvCancelled # "total"
  /\ srvOp # "ok" \/ srvCancelled # "none"
  /\ \E new \in Accepted : Stored(new)
  /\ Forward(srvCancelled, sessions', pc', op)
  /\ forwarded' = srvCancelled
  /\ Drain
  /\ UNCHANGED sig

\* Mutant: the drain loop does not forward the terminal that interrupts it.
ReceiveSwallows ==
  /\ srvPc = "receive" /\ srvOp # "pending"
  /\ UNCHANGED <<op, cancelled, echoCancelled, forwarded, sessions, pc, sig>>
  /\ Drain

\* One round of the drain loop: a session has ended, or terminal has arrived.
ReceiveDone ==
  /\ srvPc = "receive" /\ srvOp # "pending"
  /\ IF srvCancelled # "none"
     THEN Forward(srvCancelled, sessions, pc, op) /\ forwarded' = srvCancelled
     ELSE UNCHANGED <<op, cancelled, echoCancelled, forwarded>>
  /\ UNCHANGED <<sessions, pc>>
  /\ Drain
  /\ UNCHANGED sig

ServerStep == AcceptNext \/ AcceptTotal \/ AcceptBreak \/ ReceiveDone

-----------------------------------------------------------------------------
(***************************************************************************)
(* session(), echo(), shutdown()                                           *)
(***************************************************************************)

\* echo() goes on after an operation that succeeded, unless it has been
\* cancelled: then its next co_await throws.
EchoContinues(s) ==
  /\ pc[s] \in EchoPc /\ op[s] = "ok" /\ ~echoCancelled[s]
  /\ pc' = [pc EXCEPT ![s] = IF @ = "read" THEN "write" ELSE "read"]
  /\ op' = [op EXCEPT ![s] = "pending"]
  /\ UNCHANGED <<serverVars, sessions, cancelled, echoCancelled, sig>>

EchoEnded(s) ==
  /\ pc[s] \in EchoPc
  /\ \/ op[s] \in {"eof", "error", "aborted"}
     \/ op[s] = "ok" /\ echoCancelled[s]

\* Mutant: session() does not look for terminal.
RethrowsErrors(s) == op[s] # "eof" /\ cancelled[s] = "none"

\* The two throw statements of session().
Rethrows(s) ==
  \/ op[s] # "eof" /\ cancelled[s] = "none"
  \/ cancelled[s] = "terminal"

\* Mutant: the session does not notify the server.
NotifyNobody == UNCHANGED serverVars

\* The completion handler of the session: it leaves the map, and try_send
\* wakes the server if, and only if, the server is waiting in async_receive.
Notify ==
  /\ srvOp' = IF srvPc = "receive" /\ srvOp = "pending" THEN "ok" ELSE srvOp
  /\ UNCHANGED <<srvPc, srvCancelled, forwarded>>

Complete(s) ==
  /\ pc' = [pc EXCEPT ![s] = "done"]
  /\ sessions' = sessions \ {s}
  /\ Notify
  /\ UNCHANGED <<op, cancelled, echoCancelled, sig>>

EchoThrows(s) == EchoEnded(s) /\ Rethrows(s) /\ Complete(s)

\* The state is reset and shutdown() starts to write the goodbye.
EchoStops(s) ==
  /\ EchoEnded(s) /\ ~Rethrows(s)
  /\ pc' = [pc EXCEPT ![s] = "goodbye"]
  /\ op' = [op EXCEPT ![s] = "pending"]
  /\ cancelled' = [cancelled EXCEPT ![s] = "none"]
  /\ UNCHANGED <<serverVars, sessions, echoCancelled, sig>>

\* The goodbye has been written.  sleep() resets the cancellation state, and
\* since throw_if_cancelled is off nobody looks at it before.
GoodbyeSent(s) ==
  /\ pc[s] = "goodbye" /\ op[s] = "ok"
  /\ pc' = [pc EXCEPT ![s] = "linger"]
  /\ op' = [op EXCEPT ![s] = "pending"]
  /\ cancelled' = [cancelled EXCEPT ![s] = "none"]
  /\ UNCHANGED <<serverVars, sessions, echoCancelled, sig>>

GoodbyeFails(s) ==
  /\ pc[s] = "goodbye" /\ op[s] \in {"error", "aborted"}
  /\ Complete(s)

\* After the sleep the socket is shut down, or the sleep was aborted.
LingerEnds(s) ==
  /\ pc[s] = "linger" /\ op[s] # "pending"
  /\ Complete(s)

SessionStep(s) ==
  \/ EchoContinues(s) \/ EchoThrows(s) \/ EchoStops(s)
  \/ GoodbyeSent(s) \/ GoodbyeFails(s) \/ LingerEnds(s)

-----------------------------------------------------------------------------
(***************************************************************************)
(* signal_handling() and with_signal_handling()                            *)
(***************************************************************************)
TypeOf(signum) == CASE signum = "SIGTSTP" -> "total"
                    [] signum = "SIGINT"  -> "partial"
                    [] signum = "SIGTERM" -> "terminal"

\* Mutant: the operation that the server awaits has no cancellation slot.
EmitUnheard(t) ==
  /\ srvCancelled' = Filtered(ServerFilter(srvPc), t)
  /\ UNCHANGED <<srvPc, srvOp, forwarded>>

\* signal.emit(): reaches the server, and the operation it awaits, at once.
EmitToServer(t) ==
  LET c == Filtered(ServerFilter(srvPc), t)
  IN  /\ srvCancelled' = c
      /\ srvOp' = IF c # "none" /\ srvOp = "pending" THEN "aborted" ELSE srvOp
      /\ UNCHANGED <<srvPc, forwarded>>

SignalStep ==
  /\ sig \in Signal
  /\ IF srvPc # "done" THEN EmitToServer(TypeOf(sig)) /\ sig' = "waiting"
                       ELSE UNCHANGED serverVars /\ sig' = "done"
  /\ UNCHANGED <<sessions, sessionVars>>

\* operator||: when the server has returned, the wait for signals is cancelled.
SignalStops ==
  /\ sig = "waiting" /\ srvPc = "done"
  /\ sig' = "done"
  /\ UNCHANGED <<serverVars, sessions, sessionVars>>

-----------------------------------------------------------------------------
(***************************************************************************)
(* The outside: the operating system, the clients, the clock.              *)
(***************************************************************************)
SignalRaised(signum) ==
  /\ sig = "waiting"
  /\ sig' = signum
  /\ UNCHANGED <<serverVars, sessions, sessionVars>>

AcceptCompletes(r) ==
  /\ srvPc = "accept" /\ srvOp = "pending"
  /\ r = "error" \/ \E s \in Session : pc[s] = "unborn"
  /\ srvOp' = r
  /\ UNCHANGED <<srvPc, srvCancelled, forwarded, sessions, sessionVars, sig>>

\* What the operation a session awaits can end with, apart from "aborted".
Outcomes(p) == CASE p = "read"    -> {"ok", "eof", "error"}
                 [] p = "write"   -> {"ok", "error"}
                 [] p = "goodbye" -> {"ok", "error"}
                 [] p = "linger"  -> {"ok"}
                 [] OTHER         -> {}

OpCompletes(s, r) ==
  /\ op[s] = "pending" /\ r \in Outcomes(pc[s])
  /\ op' = [op EXCEPT ![s] = r]
  /\ UNCHANGED <<serverVars, sessions, pc, cancelled, echoCancelled, sig>>

Environment ==
  \/ \E signum \in Signal : SignalRaised(signum)
  \/ \E r \in {"ok", "error"} : AcceptCompletes(r)
  \/ \E s \in Session, r \in OpResult : OpCompletes(s, r)

System ==
  \/ ServerStep
  \/ \E s \in Session : SessionStep(s)
  \/ SignalStep
  \/ SignalStops

Next == System \/ Environment

Spec == Init /\ [][Next]_vars

-----------------------------------------------------------------------------
(***************************************************************************)
(* Properties                                                              *)
(***************************************************************************)

\* Structured concurrency: when server() has returned, and with it the map and
\* the channel that the completion handlers refer to are gone, no session is
\* left whose completion handler could still run.  (The assertion
\* server_alive of the test's copy of server().)
StructuredConcurrency == srvPc = "done" => Live = {}

\* No lost wake-up: while the server waits for a notification in the drain
\* loop there is a session that is still going to send one.  try_send drops
\* the notification when nobody is waiting, so this rests on the drain loop
\* looking at the map again before every wait.
NoLostWakeup == srvPc = "receive" /\ srvOp = "pending" => Live # {}

\* No session escapes: once the server has left the accept loop and forwarded
\* a cancellation, no session is left that still echoes as if nothing had
\* happened, not even the one accepted by the very accept that the
\* cancellation came too late for.
NoSessionEscapes ==
  srvPc # "accept" /\ forwarded # "none" =>
    \A s \in Session : pc[s] \in EchoPc => echoCancelled[s]

\* A wait that starts has forgotten earlier cancellations: while the server is
\* suspended in a pending accept or receive it is not cancelled, so the next
\* connection is not cancelled on behalf of an old signal.
NoStaleCancellation == srvPc # "done" /\ srvOp = "pending" => srvCancelled = "none"

\* terminal is final: a session that was told terminal while it was echoing
\* hears nothing weaker later, and it ends without a goodbye.
TerminalIsFinal ==
  [][\A s \in Session :
       pc[s] \in EchoPc /\ cancelled[s] = "terminal" =>
         \/ pc'[s] = "done"
         \/ pc'[s] = pc[s] /\ cancelled'[s] = "terminal"]_vars

\* The server is a task scope: it starts sessions while it accepts, and returns
\* when the last of them has ended.
ScopePhase == IF srvPc = "accept" THEN "open"
              ELSE IF srvPc = "receive" THEN "closing" ELSE "closed"

Finished == {s \in Session : pc[s] = "done"}

Scope == INSTANCE TaskScope WITH
  Task <- Session, phase <- ScopePhase, active <- Live, finished <- Finished

ImplementsScope == Scope!SafeSpec

(***************************************************************************)
(* The inductive invariant behind these properties.                        *)
(***************************************************************************)

\* The map holds the sessions that run, no more and no less.
MapIsLive == sessions = Live

\* A connection that has not been accepted has never been told anything.
UnbornIsFresh ==
  \A s \in Session : pc[s] = "unborn" =>
    op[s] = "pending" /\ cancelled[s] = "none" /\ ~echoCancelled[s]

\* Only a server that has left the accept loop tells its sessions terminal, and
\* from there on it tells them nothing else.
TerminalOnlyDraining ==
  /\ srvPc = "receive" => srvCancelled \in {"none", "terminal"}
  /\ \A s \in Session :
       pc[s] \in EchoPc /\ cancelled[s] = "terminal" =>
         srvPc # "accept" /\ echoCancelled[s]

IInv ==
  /\ TypeOK
  /\ MapIsLive
  /\ UnbornIsFresh
  /\ TerminalOnlyDraining
  /\ StructuredConcurrency
  /\ NoLostWakeup
  /\ NoSessionEscapes
  /\ NoStaleCancellation
=============================================================================
