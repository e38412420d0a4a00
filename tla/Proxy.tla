------------------------------- MODULE Proxy --------------------------------
(***************************************************************************)
(* A session of the TCP proxy net/proxy.cpp: it connects to the server and *)
(* forwards in both directions, in two coroutine threads that operator&&   *)
(* joins.  The end of one stream is forwarded as a half-close and leaves   *)
(* the other direction alone; an error in one direction cancels the other. *)
(***************************************************************************)
EXTENDS Naturals

CONSTANT MaxChunks    \* Bound: how many chunks a peer sends.

ASSUME MaxChunksAssumption == MaxChunks \in Nat

\* The directions, and the peers at their ends: "up" is from the client, the
\* socket downstream, to the server, the socket upstream.
Direction == {"up", "down"}
Peer      == {"client", "server"}
Other(d)  == IF d = "up" THEN "down" ELSE "up"
From(d)   == IF d = "up" THEN "client" ELSE "server"
To(d)     == IF d = "up" THEN "server" ELSE "client"

VARIABLES
  stage,      \* session(): "connecting", "forwarding" or "ended"
  pc,         \* forward(): in "read" or "write", "done", or "threw"
  op,         \* status of what forward() awaits
  cancelled,  \* whether the thread has been cancelled
  total,      \* the chunks that forward() has read and counted
  delivered,  \* the chunks that have been written
  fin,        \* forward() has shut the sending side of "to" down
  sent,       \* the chunks that the peer From(d) has sent
  srcFin,     \* the peer From(d) has closed its sending side
  reset       \* the peers that have reset their connection

codeVars == <<stage, pc, op, cancelled, total, delivered, fin>>
peerVars == <<sent, srcFin, reset>>
vars == <<codeVars, peerVars>>

Running(d) == pc[d] \in {"read", "write"}

TypeOK ==
  /\ stage \in {"connecting", "forwarding", "ended"}
  /\ pc \in [Direction -> {"read", "write", "done", "threw"}]
  /\ op \in [Direction -> {"pending", "ok", "eof", "error", "aborted"}]
  /\ cancelled \in [Direction -> BOOLEAN]
  /\ total \in [Direction -> 0 .. MaxChunks]
  /\ delivered \in [Direction -> 0 .. MaxChunks]
  /\ fin \in [Direction -> BOOLEAN]
  /\ sent \in [Direction -> 0 .. MaxChunks]
  /\ srcFin \in [Direction -> BOOLEAN]
  /\ reset \subseteq Peer

\* The connection has been accepted, and session() resolves and connects.
Init ==
  /\ stage = "connecting"
  /\ pc = [d \in Direction |-> "read"]
  /\ op = [d \in Direction |-> "pending"]
  /\ cancelled = [d \in Direction |-> FALSE]
  /\ total = [d \in Direction |-> 0]
  /\ delivered = [d \in Direction |-> 0]
  /\ fin = [d \in Direction |-> FALSE]
  /\ sent = [d \in Direction |-> 0]
  /\ srcFin = [d \in Direction |-> FALSE]
  /\ reset = {}

-----------------------------------------------------------------------------
SessionConnects ==
  /\ stage = "connecting"
  /\ stage' = "forwarding"
  /\ UNCHANGED <<pc, op, cancelled, total, delivered, fin, peerVars>>

\* An exception from the resolver or from async_connect ends the session.
SessionFails ==
  /\ stage = "connecting"
  /\ stage' = "ended"
  /\ UNCHANGED <<pc, op, cancelled, total, delivered, fin, peerVars>>

\* Mutant: a chunk that has been read is not written.
ForwardWritesNothing(d) ==
  /\ stage = "forwarding" /\ pc[d] = "read" /\ op[d] = "ok" /\ ~cancelled[d]
  /\ total' = [total EXCEPT ![d] = @ + 1]
  /\ op' = [op EXCEPT ![d] = "pending"]
  /\ UNCHANGED <<stage, pc, cancelled, delivered, fin, peerVars>>

\* A chunk has been read: write it.
ForwardWrites(d) ==
  /\ stage = "forwarding" /\ pc[d] = "read" /\ op[d] = "ok" /\ ~cancelled[d]
  /\ total' = [total EXCEPT ![d] = @ + 1]
  /\ pc' = [pc EXCEPT ![d] = "write"]
  /\ op' = [op EXCEPT ![d] = "pending"]
  /\ UNCHANGED <<stage, cancelled, delivered, fin, peerVars>>

ForwardReads(d) ==
  /\ stage = "forwarding" /\ pc[d] = "write" /\ op[d] = "ok" /\ ~cancelled[d]
  /\ pc' = [pc EXCEPT ![d] = "read"]
  /\ op' = [op EXCEPT ![d] = "pending"]
  /\ UNCHANGED <<stage, cancelled, total, delivered, fin, peerVars>>

\* operator&& has both results: session() ends, and both sockets are closed.
Join(d) == stage' = IF Running(Other(d)) THEN "forwarding" ELSE "ended"

\* Mutant: operator|| in place of operator&&, the end of one direction cancels
\* the other one.
ForwardEndsBoth(d) ==
  LET o == Other(d) IN
  /\ stage = "forwarding" /\ pc[d] = "read" /\ op[d] = "eof" /\ To(d) \notin reset
  /\ fin' = [fin EXCEPT ![d] = TRUE]
  /\ pc' = [pc EXCEPT ![d] = "done"]
  /\ cancelled' = [cancelled EXCEPT ![o] = @ \/ Running(o)]
  /\ op' = [op EXCEPT ![o] = IF Running(o) /\ @ = "pending" THEN "aborted" ELSE @]
  /\ Join(d)
  /\ UNCHANGED <<total, delivered, peerVars>>

\* The end of the stream is caught, and to.shutdown() succeeds.
ForwardEnds(d) ==
  /\ stage = "forwarding" /\ pc[d] = "read" /\ op[d] = "eof" /\ To(d) \notin reset
  /\ fin' = [fin EXCEPT ![d] = TRUE]
  /\ pc' = [pc EXCEPT ![d] = "done"]
  /\ Join(d)
  /\ UNCHANGED <<op, cancelled, total, delivered, peerVars>>

\* Any other error is thrown, also when the thread is cancelled and starts its
\* next operation, and when to.shutdown() fails on a connection that is gone.
Throws(d) ==
  \/ op[d] \in {"error", "aborted"}
  \/ op[d] = "ok" /\ cancelled[d]
  \/ op[d] = "eof" /\ To(d) \in reset

\* Mutant: wait_for_all(), an error leaves the other direction alone.
ForwardThrowsAlone(d) ==
  /\ stage = "forwarding" /\ Running(d) /\ Throws(d)
  /\ pc' = [pc EXCEPT ![d] = "threw"]
  /\ Join(d)
  /\ UNCHANGED <<op, cancelled, total, delivered, fin, peerVars>>

ForwardThrows(d) ==
  LET o == Other(d) IN
  /\ stage = "forwarding" /\ Running(d) /\ Throws(d)
  /\ pc' = [pc EXCEPT ![d] = "threw"]
  /\ cancelled' = [cancelled EXCEPT ![o] = @ \/ Running(o)]
  /\ op' = [op EXCEPT ![o] = IF Running(o) /\ @ = "pending" THEN "aborted" ELSE @]
  /\ Join(d)
  /\ UNCHANGED <<total, delivered, fin, peerVars>>

Resume(d) == ForwardWrites(d) \/ ForwardReads(d) \/ ForwardEnds(d) \/ ForwardThrows(d)

-----------------------------------------------------------------------------
(***************************************************************************)
(* The peers and the network                                               *)
(***************************************************************************)
ReadCompletes(d) ==
  /\ stage = "forwarding" /\ pc[d] = "read" /\ op[d] = "pending"
  /\ \/ From(d) \in reset /\ op' = [op EXCEPT ![d] = "error"]
     \/ From(d) \notin reset /\ sent[d] > total[d] /\ op' = [op EXCEPT ![d] = "ok"]
     \/ /\ From(d) \notin reset /\ sent[d] = total[d] /\ srcFin[d]
        /\ op' = [op EXCEPT ![d] = "eof"]
  /\ UNCHANGED <<stage, pc, cancelled, total, delivered, fin, peerVars>>

WriteCompletes(d) ==
  /\ stage = "forwarding" /\ pc[d] = "write" /\ op[d] = "pending"
  /\ IF To(d) \in reset
     THEN op' = [op EXCEPT ![d] = "error"] /\ UNCHANGED delivered
     ELSE /\ op' = [op EXCEPT ![d] = "ok"]
          /\ delivered' = [delivered EXCEPT ![d] = @ + 1]
  /\ UNCHANGED <<stage, pc, cancelled, total, fin, peerVars>>

PeerSends(d) ==
  /\ stage # "ended" /\ ~srcFin[d] /\ From(d) \notin reset /\ sent[d] < MaxChunks
  /\ sent' = [sent EXCEPT ![d] = @ + 1]
  /\ UNCHANGED <<codeVars, srcFin, reset>>

PeerCloses(d) ==
  /\ stage # "ended" /\ ~srcFin[d] /\ From(d) \notin reset
  /\ srcFin' = [srcFin EXCEPT ![d] = TRUE]
  /\ UNCHANGED <<codeVars, sent, reset>>

PeerResets(p) ==
  /\ stage = "forwarding" /\ p \notin reset
  /\ reset' = reset \cup {p}
  /\ UNCHANGED <<codeVars, sent, srcFin>>

Next ==
  \/ SessionConnects
  \/ SessionFails
  \/ \E d \in Direction : Resume(d)
  \/ \E d \in Direction : ReadCompletes(d) \/ WriteCompletes(d)
  \/ \E d \in Direction : PeerSends(d) \/ PeerCloses(d)
  \/ \E p \in Peer : PeerResets(p)

Spec == Init /\ [][Next]_vars

\* The io_context resumes who is ready, the connection attempt ends, and an
\* operation that can complete does; the peers owe nothing.
Fairness ==
  /\ WF_vars(SessionConnects \/ SessionFails)
  /\ \A d \in Direction : /\ WF_vars(Resume(d))
                          /\ WF_vars(ReadCompletes(d) \/ WriteCompletes(d))

FairSpec == Spec /\ Fairness

-----------------------------------------------------------------------------
\* The half-close comes last: when the end of a stream is forwarded, the peer
\* has closed it and everything it sent has been delivered.
FinIsLast ==
  TypeOK /\ \A d \in Direction : fin[d] => srcFin[d] /\ delivered[d] = sent[d]

\* Each direction ends by itself: a forward() that reached the end of its stream
\* does not disturb the other one, which may go on for as long as it likes.
HalfCloseIsIndependent ==
  \A d \in Direction : pc[d] = "done" /\ Running(Other(d)) => ~cancelled[Other(d)]

\* An error in one direction ends the session, even if the other direction is
\* idle or has an operation that has already completed; and so do two peers
\* that have both closed their streams.
SessionEnds ==
  (\E d \in Direction : pc[d] = "threw") \/ (\A d \in Direction : srcFin[d])
    ~> stage = "ended"
=============================================================================
