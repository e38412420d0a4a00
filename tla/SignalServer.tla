---------------------------- MODULE SignalServer ----------------------------
(***************************************************************************)
(* The simpler echo server of cancellation/echo_coro_signal.cpp: a one-shot*)
(* signal handler cancels the acceptor and shuts the sockets of the map    *)
(* down; the server then waits, polling, until the map is empty.  There is *)
(* no per-operation cancellation here: a socket that is shut down makes    *)
(* the operations on it fail.                                              *)
(***************************************************************************)
EXTENDS Cancellation

CONSTANT Session     \* The ids of the connections that may be accepted.

VARIABLES
  srvPc,      \* server(): in async_accept, polling the map, or returned
  acceptOp,   \* status of async_accept
  sockets,    \* the keys of the map "sockets"
  echoPc,     \* where echo() is suspended
  op,         \* status of the operation that echo() awaits
  shut,       \* whether the socket has been shut down
  sig         \* the signal handler

serverVars == <<srvPc, acceptOp, sockets, echoPc, op, shut, sig>>

Live == {s \in Session : echoPc[s] \in {"read", "write"}}

ServerTypeOK ==
  /\ srvPc \in {"accept", "poll", "done"}
  /\ acceptOp \in {"pending", "ok", "error", "aborted"}
  /\ sockets \subseteq Session
  /\ echoPc \in [Session -> {"unborn", "read", "write", "done"}]
  /\ op \in [Session -> {"pending", "ok", "eof", "error"}]
  /\ shut \in [Session -> BOOLEAN]
  /\ sig \in {"armed", "raised", "handled", "threw", "dangling"}

ServerInit ==
  /\ srvPc = "accept" /\ acceptOp = "pending"
  /\ sockets = {}
  /\ echoPc = [s \in Session |-> "unborn"]
  /\ op = [s \in Session |-> "pending"]
  /\ shut = [s \in Session |-> FALSE]
  /\ sig = "armed"

\* An exception that leaves a handler leaves context.run() and main(); what a
\* handler does with objects that are gone is undefined.  Both end the program.
Running == sig \notin {"threw", "dangling"}

-----------------------------------------------------------------------------
(***************************************************************************)
(* server() and echo()                                                     *)
(***************************************************************************)

\* Mutant: the id of a session that has ended is used again.
AcceptOkAgain ==
  /\ srvPc = "accept" /\ acceptOp = "ok"
  /\ \E s \in Session \ sockets :
       /\ sockets' = sockets \cup {s}
       /\ echoPc' = [echoPc EXCEPT ![s] = "read"]
  /\ acceptOp' = "pending"
  /\ UNCHANGED <<srvPc, op, shut, sig>>

\* The accepted socket is moved into the map, then echo() is started on it.
AcceptOk ==
  /\ srvPc = "accept" /\ acceptOp = "ok"
  /\ \E s \in Session :
       /\ echoPc[s] = "unborn"
       /\ sockets' = sockets \cup {s}
       /\ echoPc' = [echoPc EXCEPT ![s] = "read"]
  /\ acceptOp' = "pending"
  /\ UNCHANGED <<srvPc, op, shut, sig>>

AcceptFails ==
  /\ srvPc = "accept" /\ acceptOp \in {"error", "aborted"}
  /\ srvPc' = IF sockets = {} THEN "done" ELSE "poll"
  /\ UNCHANGED <<acceptOp, sockets, echoPc, op, shut, sig>>

\* while (!sockets.empty()) co_await post(deferred);
Poll ==
  /\ srvPc = "poll" /\ sockets = {}
  /\ srvPc' = "done"
  /\ UNCHANGED <<acceptOp, sockets, echoPc, op, shut, sig>>

EchoContinues(s) ==
  /\ s \in Live /\ op[s] = "ok"
  /\ echoPc' = [echoPc EXCEPT ![s] = IF @ = "read" THEN "write" ELSE "read"]
  /\ op' = [op EXCEPT ![s] = "pending"]
  /\ UNCHANGED <<srvPc, acceptOp, sockets, shut, sig>>

\* Mutant: the end of the stream is not taken for the end of the session.
EchoEndsOnError(s) ==
  /\ s \in Live /\ op[s] = "error"
  /\ echoPc' = [echoPc EXCEPT ![s] = "done"]
  /\ sockets' = sockets \ {s}
  /\ UNCHANGED <<srvPc, acceptOp, op, shut, sig>>

\* Mutant: the completion handler leaves the socket in the map.
EchoEndsInMap(s) ==
  /\ s \in Live /\ op[s] \in {"eof", "error"}
  /\ echoPc' = [echoPc EXCEPT ![s] = "done"]
  /\ UNCHANGED <<srvPc, acceptOp, sockets, op, shut, sig>>

\* echo() throws, and its completion handler removes the socket.
EchoEnds(s) ==
  /\ s \in Live /\ op[s] \in {"eof", "error"}
  /\ echoPc' = [echoPc EXCEPT ![s] = "done"]
  /\ sockets' = sockets \ {s}
  /\ UNCHANGED <<srvPc, acceptOp, op, shut, sig>>

-----------------------------------------------------------------------------
(***************************************************************************)
(* The handler of signals.async_wait.                                      *)
(***************************************************************************)

\* shutdown() fails on a socket whose connection the peer has reset, and the
\* overload without an error_code throws: such sockets are in the map until
\* echo() is resumed with the error.
Broken == {s \in sockets : op[s] = "error" /\ ~shut[s]}

ShutDown ==
  /\ shut' = [s \in Session |-> shut[s] \/ s \in sockets]
  /\ op' = [s \in Session |->
              IF s \in sockets /\ op[s] = "pending"
              THEN IF echoPc[s] = "read" THEN "eof" ELSE "error"
              ELSE op[s]]

HandleSignal ==
  /\ sig = "raised" /\ srvPc # "done"
  /\ acceptOp' = IF srvPc = "accept" /\ acceptOp = "pending" THEN "aborted" ELSE acceptOp
  /\ IF Broken = {} THEN ShutDown /\ sig' = "handled"
                    ELSE sig' = "threw" /\ UNCHANGED <<shut, op>>
  /\ UNCHANGED <<srvPc, sockets, echoPc>>

\* The handler was already scheduled when server() returned: the signal_set is
\* gone, but so are the acceptor and the map that the handler refers to.
HandleSignalLate ==
  /\ sig = "raised" /\ srvPc = "done"
  /\ sig' = "dangling"
  /\ UNCHANGED <<srvPc, acceptOp, sockets, echoPc, op, shut>>

System ==
  \/ AcceptOk \/ AcceptFails \/ Poll
  \/ \E s \in Session : EchoContinues(s) \/ EchoEnds(s)
  \/ HandleSignal \/ HandleSignalLate

-----------------------------------------------------------------------------
(***************************************************************************)
(* The outside.                                                            *)
(***************************************************************************)
\* The handler is armed once, and cancelled when server() returns.
SignalRaised ==
  /\ sig = "armed" /\ srvPc # "done"
  /\ sig' = "raised"
  /\ UNCHANGED <<srvPc, acceptOp, sockets, echoPc, op, shut>>

AcceptCompletes(r) ==
  /\ srvPc = "accept" /\ acceptOp = "pending"
  /\ r = "error" \/ \E s \in Session : echoPc[s] = "unborn"
  /\ acceptOp' = r
  /\ UNCHANGED <<srvPc, sockets, echoPc, op, shut, sig>>

\* On a socket that is shut down a write fails, and a read reports the end of
\* the stream once it has returned what had been received before.
Outcomes(s) == IF echoPc[s] = "read" THEN IF shut[s] THEN {"ok", "eof"} ELSE {"ok", "eof", "error"}
                                 ELSE IF shut[s] THEN {"error"} ELSE {"ok", "error"}

OpCompletes(s) ==
  /\ s \in Live /\ op[s] = "pending"
  /\ \E r \in Outcomes(s) : op' = [op EXCEPT ![s] = r]
  /\ UNCHANGED <<srvPc, acceptOp, sockets, echoPc, shut, sig>>

Environment ==
  \/ SignalRaised
  \/ \E r \in {"ok", "error"} : AcceptCompletes(r)
  \/ \E s \in Session : OpCompletes(s)

ServerNext == Running /\ (System \/ Environment)

ServerSpec == ServerInit /\ [][ServerNext]_serverVars

\* The thread in context.run() resumes whoever is ready, and an operation on a
\* socket that is shut down completes.
Fairness ==
  /\ WF_serverVars(Running /\ (AcceptOk \/ AcceptFails \/ Poll))
  /\ WF_serverVars(Running /\ HandleSignal)
  /\ \A s \in Session : /\ WF_serverVars(Running /\ (EchoContinues(s) \/ EchoEnds(s)))
                        /\ WF_serverVars(Running /\ shut[s] /\ OpCompletes(s))

FairSpec == ServerSpec /\ Fairness

-----------------------------------------------------------------------------
\* The handler stops what it finds: after it has run, every connection that was
\* in the map at that time ends, although an operation of it may have been
\* scheduled for completion already.
ShutSessionsEnd == \A s \in Session : shut[s] /\ Running ~> echoPc[s] = "done" \/ ~Running

\* The polling loop of the server counts the sockets, so the map must hold exactly
\* those that an echo() works on.
SocketsAreLive == ServerTypeOK /\ sockets = Live

\* The server is a task scope: echo() works on a socket inside the server's map,
\* so no echo() may be left when the server returns.
ScopePhase == IF srvPc = "accept" THEN "open"
              ELSE IF srvPc = "poll" THEN "closing" ELSE "closed"

Scope == INSTANCE TaskScope WITH
  Task <- Session, phase <- ScopePhase, active <- Live,
  finished <- {s \in Session : echoPc[s] = "done"}

ImplementsScope == Scope!SafeSpec
=============================================================================
