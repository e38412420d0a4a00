---------------------------- MODULE EchoPrograms ----------------------------
(***************************************************************************)
(* The echo servers of echo/ and corosio/: one server in many styles.      *)
(* They read and write in the same way and differ in what they do about    *)
(* errors and time, which a record says for each of them.                  *)
(*                                                                         *)
(* Where several threads run a context, the handlers of one session still  *)
(* run one after the other (it awaits one operation at a time), and the    *)
(* sessions share nothing: a step of a session is a step of the model.     *)
(***************************************************************************)
EXTENDS Naturals, FiniteSets

CONSTANTS
  Connection,   \* the clients
  MaxWorkers,   \* the number of workers of corosio_echo_server.cpp
  MaxBytes      \* Bound: how many bytes a client sends.

ASSUME EchoProgramsAssumption ==
  IsFiniteSet(Connection) /\ MaxWorkers \in Nat \ {0} /\ MaxBytes \in Nat

-----------------------------------------------------------------------------
(***************************************************************************)
(* The programs.                                                           *)
(*   sessions     how many sessions run at a time                          *)
(*   acceptError  an accept that fails ends the server ("ends"), ends the  *)
(*                program ("terminates") or is ignored ("goes on")         *)
(*   readEnds     the results of a read that end a session                 *)
(*   writeError   a write that fails ends the session or the program       *)
(*   timeouts     reads and sessions have a deadline                       *)
(***************************************************************************)
Many     == Cardinality(Connection)
AnyError == {"eof", "error", "aborted"}

Style(n, acceptError, readEnds, writeError, timeouts) ==
  [sessions |-> n, acceptError |-> acceptError, readEnds |-> readEnds,
   writeError |-> writeError, timeouts |-> timeouts]

EchoCoro            == Style(Many, "ends", AnyError, "ends", FALSE)
EchoCoroTuple       == EchoCoro
EchoCoroThreaded    == EchoCoro
EchoCoroTimeout     == Style(Many, "ends", AnyError, "ends", TRUE)
\* The exception of the accept destroys threads that nobody has joined.
EchoCoroContextPool == Style(Many, "terminates", AnyError, "ends", FALSE)
EchoAsync           == Style(Many, "goes on", AnyError, "ends", FALSE)
EchoAsyncThreaded   == EchoAsync
EchoSync            == Style(1, "terminates", {"eof"}, "terminates", FALSE)
EchoSyncThreaded    == Style(Many, "terminates", {"eof"}, "terminates", FALSE)
EchoCorosio         == Style(Many, "goes on", {"eof"}, "ends", FALSE)
EchoCorosioThreaded == EchoCorosio
CorosioEchoServer   == Style(MaxWorkers, "goes on", AnyError, "ends", FALSE)
\* echo/other/: echo.go and echo.rs, whose main() returns when an accept fails.
EchoGo              == EchoAsync
EchoRust            == EchoCoroContextPool

Program == {EchoCoro, EchoCoroTuple, EchoCoroThreaded, EchoCoroTimeout, EchoCoroContextPool,
            EchoAsync, EchoAsyncThreaded, EchoSync, EchoSyncThreaded, EchoCorosio,
            EchoCorosioThreaded, CorosioEchoServer, EchoGo, EchoRust}

VARIABLES
  prog,     \* the program
  server,   \* "accepting", "ended", or "terminated" with the program
  pc,       \* a connection is "new", in the "backlog", its session in "read"
            \* or "write", or it is "closed"
  op,       \* status of what the session awaits
  expired,  \* the deadline of the session has passed
  sent,     \* how many bytes the client has sent,
  got,      \* the session has read,
  hold,     \* is to write,
  echoed,   \* and has written
  fin,      \* the client has closed its sending side
  reset,    \* the connection has been reset
  told      \* ... which a read has reported

serverVars == <<prog, server>>
clientVars == <<sent, fin, reset>>
vars == <<serverVars, pc, op, expired, got, hold, echoed, told, clientVars>>

Live(c)     == pc[c] \in {"read", "write"}
LiveSession == {c \in Connection : Live(c)}
Running     == server # "terminated"

TypeOK ==
  /\ prog \in Program /\ server \in {"accepting", "ended", "terminated"}
  /\ pc \in [Connection -> {"new", "backlog", "read", "write", "closed"}]
  /\ op \in [Connection -> {"pending", "ok"} \cup AnyError]
  /\ {expired, fin, reset, told} \subseteq [Connection -> BOOLEAN]
  /\ {sent, got, hold, echoed} \subseteq [Connection -> 0 .. MaxBytes]

Init ==
  /\ prog \in Program /\ server = "accepting"
  /\ pc = [c \in Connection |-> "new"] /\ op = [c \in Connection |-> "pending"]
  /\ expired = [c \in Connection |-> FALSE] /\ fin = expired /\ reset = expired /\ told = expired
  /\ sent = [c \in Connection |-> 0] /\ got = sent /\ hold = sent /\ echoed = sent

-----------------------------------------------------------------------------
(***************************************************************************)
(* server()                                                                *)
(***************************************************************************)
AcceptOk(c) ==
  /\ server = "accepting" /\ pc[c] = "backlog" /\ Cardinality(LiveSession) < prog.sessions
  /\ pc' = [pc EXCEPT ![c] = "read"]
  /\ UNCHANGED <<serverVars, op, expired, got, hold, echoed, told, clientVars>>

OnAcceptError ==
  CASE prog.acceptError = "ends"       -> "ended"
    [] prog.acceptError = "terminates" -> "terminated"
    [] prog.acceptError = "goes on"    -> server

\* Mutant: the sessions are members of the server.
AcceptFailsForAll ==
  /\ server = "accepting" /\ Cardinality(LiveSession) < prog.sessions
  /\ server' = OnAcceptError
  /\ pc' = [c \in Connection |-> IF Live(c) THEN "closed" ELSE pc[c]]
  /\ UNCHANGED <<prog, op, expired, got, hold, echoed, told, clientVars>>

\* For instance, the process has run out of file descriptors.  The sessions are
\* detached and go on.  (The corosio servers also start a session on the socket
\* that is not open, which has no client.)
AcceptFails ==
  /\ server = "accepting" /\ Cardinality(LiveSession) < prog.sessions
  /\ server' = OnAcceptError
  /\ UNCHANGED <<prog, pc, op, expired, got, hold, echoed, told, clientVars>>

-----------------------------------------------------------------------------
(***************************************************************************)
(* session()                                                               *)
(***************************************************************************)

\* The deadline of the session cancels it; when the operation had completed, the
\* next co_await throws.
Closes(c) == pc' = [pc EXCEPT ![c] = "closed"] /\ UNCHANGED op
Awaits(c, p) ==
  IF expired[c] THEN Closes(c)
  ELSE pc' = [pc EXCEPT ![c] = p] /\ op' = [op EXCEPT ![c] = "pending"]

ReadDone(c) ==
  /\ Running /\ pc[c] = "read" /\ op[c] = "ok"
  /\ Awaits(c, "write")
  /\ UNCHANGED <<serverVars, expired, got, hold, echoed, told, clientVars>>

ReadFails(c) ==
  /\ Running /\ pc[c] = "read" /\ op[c] \in prog.readEnds
  /\ Closes(c)
  /\ UNCHANGED <<serverVars, expired, got, hold, echoed, told, clientVars>>

\* Mutant: n keeps its value when a read fails.
ReadErrorIgnoredStale(c) ==
  /\ Running /\ pc[c] = "read" /\ op[c] = "error" /\ "error" \notin prog.readEnds
  /\ hold' = [hold EXCEPT ![c] = IF got[c] > 0 THEN 1 ELSE 0]
  /\ Awaits(c, "write")
  /\ UNCHANGED <<serverVars, expired, got, echoed, told, clientVars>>

\* An error that is not the end of the stream is not looked at: n is zero, the
\* write of nothing succeeds without asking the socket, and the next read starts.
ReadErrorIgnored(c) ==
  /\ Running /\ pc[c] = "read" /\ op[c] = "error" /\ "error" \notin prog.readEnds
  /\ op' = [op EXCEPT ![c] = "pending"]
  /\ UNCHANGED <<serverVars, pc, expired, got, hold, echoed, told, clientVars>>

WriteDone(c) ==
  /\ Running /\ pc[c] = "write" /\ op[c] = "ok"
  /\ Awaits(c, "read")
  /\ UNCHANGED <<serverVars, expired, got, hold, echoed, told, clientVars>>

\* Mutant: a worker whose write has failed does not come back.
WriteFailsLost(c) ==
  /\ Running /\ pc[c] = "write" /\ op[c] \in {"error", "aborted"}
  /\ prog.writeError = "terminates"
  /\ server' = "terminated"
  /\ UNCHANGED <<prog, pc, op, expired, got, hold, echoed, told, clientVars>>

WriteFails(c) ==
  /\ Running /\ pc[c] = "write" /\ op[c] \in {"error", "aborted"}
  /\ \/ prog.writeError = "ends" /\ Closes(c) /\ UNCHANGED server
     \/ prog.writeError = "terminates" /\ server' = "terminated" /\ UNCHANGED <<pc, op>>
  /\ UNCHANGED <<prog, expired, got, hold, echoed, told, clientVars>>

Abort(c) == op' = [op EXCEPT ![c] = IF @ = "pending" THEN "aborted" ELSE @]

\* cancel_after(2s) of a read.
ReadExpires(c) ==
  /\ prog.timeouts /\ pc[c] = "read" /\ op[c] = "pending"
  /\ Abort(c)
  /\ UNCHANGED <<serverVars, pc, expired, got, hold, echoed, told, clientVars>>

\* Mutant: the deadline of the session cancels reads only.
SessionExpiresReading(c) ==
  /\ prog.timeouts /\ pc[c] = "read" /\ ~expired[c]
  /\ expired' = [expired EXCEPT ![c] = TRUE] /\ Abort(c)
  /\ UNCHANGED <<serverVars, pc, got, hold, echoed, told, clientVars>>

\* cancel_after(60s) of the session.
SessionExpires(c) ==
  /\ prog.timeouts /\ Live(c) /\ ~expired[c]
  /\ expired' = [expired EXCEPT ![c] = TRUE] /\ Abort(c)
  /\ UNCHANGED <<serverVars, pc, got, hold, echoed, told, clientVars>>

-----------------------------------------------------------------------------
(***************************************************************************)
(* The clients and the connections                                         *)
(***************************************************************************)
Connects(c) ==
  /\ Running /\ pc[c] = "new" /\ pc' = [pc EXCEPT ![c] = "backlog"]
  /\ UNCHANGED <<serverVars, op, expired, got, hold, echoed, told, clientVars>>

Sends(c) ==
  /\ Running /\ (Live(c) \/ pc[c] = "backlog") /\ ~fin[c] /\ ~reset[c] /\ sent[c] < MaxBytes
  /\ sent' = [sent EXCEPT ![c] = @ + 1]
  /\ UNCHANGED <<serverVars, pc, op, expired, got, hold, echoed, told, fin, reset>>

ClientCloses(c) ==
  /\ Running /\ (Live(c) \/ pc[c] = "backlog") /\ ~fin[c] /\ ~reset[c]
  /\ fin' = [fin EXCEPT ![c] = TRUE]
  /\ UNCHANGED <<serverVars, pc, op, expired, got, hold, echoed, told, sent, reset>>

Resets(c) ==
  /\ Running /\ Live(c) /\ ~reset[c]
  /\ reset' = [reset EXCEPT ![c] = TRUE]
  /\ UNCHANGED <<serverVars, pc, op, expired, got, hold, echoed, told, sent, fin>>

ReadCompletes(c, n) ==
  /\ Running /\ pc[c] = "read" /\ op[c] = "pending" /\ ~reset[c] /\ n \in 1 .. sent[c] - got[c]
  /\ op' = [op EXCEPT ![c] = "ok"]
  /\ got' = [got EXCEPT ![c] = @ + n] /\ hold' = [hold EXCEPT ![c] = n]
  /\ UNCHANGED <<serverVars, pc, expired, echoed, told, clientVars>>

\* A reset is reported once; after that a read sees the end of the stream.
ReadEnds(c) ==
  /\ Running /\ pc[c] = "read" /\ op[c] = "pending"
  /\ reset[c] \/ (fin[c] /\ got[c] = sent[c])
  /\ op' = [op EXCEPT ![c] = IF reset[c] /\ ~told[c] THEN "error" ELSE "eof"]
  /\ told' = [told EXCEPT ![c] = reset[c]]
  /\ UNCHANGED <<serverVars, pc, expired, got, hold, echoed, clientVars>>

\* The client takes what is written; it need not.
WriteCompletes(c) ==
  /\ Running /\ pc[c] = "write" /\ op[c] = "pending" /\ ~reset[c]
  /\ op' = [op EXCEPT ![c] = "ok"]
  /\ echoed' = [echoed EXCEPT ![c] = @ + hold[c]] /\ hold' = [hold EXCEPT ![c] = 0]
  /\ UNCHANGED <<serverVars, pc, expired, got, told, clientVars>>

WriteBreaks(c) ==
  /\ Running /\ pc[c] = "write" /\ op[c] = "pending" /\ reset[c]
  /\ op' = [op EXCEPT ![c] = "error"]
  /\ UNCHANGED <<serverVars, pc, expired, got, hold, echoed, told, clientVars>>

Session(c) == ReadDone(c) \/ ReadFails(c) \/ ReadErrorIgnored(c) \/ WriteDone(c) \/ WriteFails(c)
IO(c)      == (\E n \in 1 .. MaxBytes : ReadCompletes(c, n)) \/ ReadEnds(c) \/ WriteBreaks(c)
Client(c)  == Connects(c) \/ Sends(c) \/ ClientCloses(c) \/ Resets(c) \/ WriteCompletes(c)

Next == \/ AcceptFails
        \/ \E c \in Connection : \/ AcceptOk(c) \/ Session(c) \/ IO(c) \/ Client(c)
                                 \/ SessionExpires(c) \/ ReadExpires(c)

\* The servers keep running, the kernel reports what has happened, and timers
\* expire.  Nothing is assumed of the clients.
Fairness ==
  \A c \in Connection : /\ WF_vars(AcceptOk(c)) /\ WF_vars(Session(c)) /\ WF_vars(IO(c))
                        /\ WF_vars(SessionExpires(c))

Spec == Init /\ [][Next]_vars /\ Fairness

-----------------------------------------------------------------------------
\* What a session writes is what it has read, once and in full, whatever errors
\* it ignores (echo_sync.cpp:13, echo_corosio.cpp:13); and a client that closes
\* its sending side gets everything back.
EchoIsExact ==
  /\ TypeOK
  /\ \A c \in Connection :
       /\ echoed[c] + hold[c] = got[c]
       /\ pc[c] = "closed" /\ fin[c] /\ ~reset[c] /\ ~prog.timeouts => echoed[c] = sent[c]

\* A session ends because of its own connection or deadline: neither another
\* session nor a failed accept ends it.  The synchronous servers and the context
\* pool end with the program instead.
SessionsAreIndependent ==
  [][\A c \in Connection : Live(c) /\ ~Live(c)' => op[c] \in AnyError \/ expired[c]]_vars

\* The server with timeouts gets rid of every client, also of one that is silent
\* or does not read (echo_coro_timeout.cpp:20).
TimeoutEndsSession == \A c \in Connection : (prog.timeouts /\ Live(c)) ~> ~Live(c)

\* With a limited number of sessions, everybody who connects is served in the
\* end, if each client closes its side and reads: a worker, or the one thread of
\* echo_sync.cpp, always becomes free again.
Patient == \A c \in Connection : WF_vars(ClientCloses(c)) /\ WF_vars(WriteCompletes(c))

EverybodyIsServed ==
  Patient => \A c \in Connection : pc[c] = "backlog" ~> pc[c] # "backlog" \/ server # "accepting"
=============================================================================
