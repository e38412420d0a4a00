----------------------------- MODULE ProxyProofs -----------------------------
(***************************************************************************)
(* Proofs about Proxy, for any number of chunks.                           *)
(***************************************************************************)
EXTENDS Proxy, TLAPS

\* What forward() has counted and what has been written differ by the chunk that
\* is being written, and it is never ahead of the peer.
Counted ==
  \A d \in Direction :
    /\ total[d] <= sent[d]
    /\ pc[d] = "read" => delivered[d] = total[d]
    /\ pc[d] = "read" /\ op[d] = "ok" => total[d] < sent[d]
    /\ pc[d] = "write" => delivered[d] = IF op[d] = "ok" THEN total[d] ELSE total[d] - 1
    /\ pc[d] = "write" => total[d] > 0

\* The end of the stream is read when the peer has closed it, and not before the
\* last chunk; and only forward() that has read it shuts the other side down.
EndOfStream ==
  \A d \in Direction :
    /\ pc[d] = "read" /\ op[d] = "eof" => srcFin[d] /\ total[d] = sent[d]
    /\ fin[d] => pc[d] = "done"

\* Nothing but an exception in the other direction cancels forward().
CancelledByError == \A d \in Direction : cancelled[d] => pc[Other(d)] = "threw"

IInv == FinIsLast /\ HalfCloseIsIndependent /\ Counted /\ EndOfStream /\ CancelledByError

USE MaxChunksAssumption DEF Direction, Other, Running, codeVars, peerVars

\* The initial state satisfies the inductive invariant.
LEMMA InitIInv == Init => IInv
  BY DEF Init, IInv, FinIsLast, TypeOK, Peer, HalfCloseIsIndependent, Counted, EndOfStream,
     CancelledByError

\* Cancellation by an error in the other direction is stronger than what the
\* property says.
LEMMA Independent == CancelledByError => HalfCloseIsIndependent
  BY DEF CancelledByError, HalfCloseIsIndependent

\* A coroutine goes on: it writes what it has read, or reads on.
LEMMA ForwardGoesOn ==
  ASSUME IInv, NEW d \in Direction, ForwardWrites(d) \/ ForwardReads(d)
  PROVE  IInv'
<1>1. TypeOK'
  BY DEF ForwardWrites, ForwardReads, IInv, FinIsLast, TypeOK, Counted
<1>2. FinIsLast' /\ EndOfStream'
  BY <1>1 DEF ForwardWrites, ForwardReads, IInv, FinIsLast, TypeOK, EndOfStream
<1>3. Counted'
  BY DEF ForwardWrites, ForwardReads, IInv, FinIsLast, TypeOK, Counted
<1>4. CancelledByError'
  BY DEF ForwardWrites, ForwardReads, IInv, FinIsLast, TypeOK, CancelledByError
<1> QED
  BY <1>2, <1>3, <1>4, Independent DEF IInv, CancelledByError, HalfCloseIsIndependent

\* The end of the stream is forwarded.
LEMMA ForwardEndsStep ==
  ASSUME IInv, NEW d \in Direction, ForwardEnds(d)
  PROVE  IInv'
<1>1. TypeOK'
  BY DEF ForwardEnds, Join, IInv, FinIsLast, TypeOK
<1>2. FinIsLast' /\ EndOfStream'
  BY <1>1 DEF ForwardEnds, IInv, FinIsLast, TypeOK, EndOfStream, Counted
<1>3. Counted' /\ CancelledByError'
  BY DEF ForwardEnds, IInv, FinIsLast, TypeOK, Counted, CancelledByError
<1> QED
  BY <1>2, <1>3 DEF IInv, CancelledByError, HalfCloseIsIndependent

\* An exception: the other direction is cancelled.
LEMMA ForwardThrowsStep ==
  ASSUME IInv, NEW d \in Direction, ForwardThrows(d)
  PROVE  IInv'
<1>1. /\ pc' = [pc EXCEPT ![d] = "threw"]
      /\ UNCHANGED <<total, delivered, fin, peerVars>>
      /\ \A e \in Direction : op'[e] = op[e] \/ (op[e] = "pending" /\ op'[e] = "aborted")
      /\ Running(d)
  BY DEF ForwardThrows, IInv, FinIsLast, TypeOK
<1>2. cancelled' \in [Direction -> BOOLEAN] /\ cancelled'[d] = cancelled[d]
  BY DEF ForwardThrows, IInv, FinIsLast, TypeOK
<1>3. TypeOK'
  BY <1>1, <1>2 DEF ForwardThrows, Join, IInv, FinIsLast, TypeOK
<1>4. FinIsLast' /\ EndOfStream'
  BY <1>1, <1>3 DEF IInv, FinIsLast, TypeOK, EndOfStream
<1>5. Counted'
  BY <1>1 DEF IInv, FinIsLast, TypeOK, Counted
<1>6. CancelledByError'
  BY <1>1, <1>2 DEF IInv, FinIsLast, TypeOK, CancelledByError
<1> QED
  BY <1>4, <1>5, <1>6 DEF IInv, CancelledByError, HalfCloseIsIndependent

\* Operations complete, and the peers send, close and reset.
LEMMA OutsideStep ==
  ASSUME IInv, NEW d \in Direction,
         ReadCompletes(d) \/ WriteCompletes(d) \/ PeerSends(d) \/ PeerCloses(d)
  PROVE  IInv'
<1>1. UNCHANGED <<stage, pc, cancelled, total, fin, reset>>
  BY DEF ReadCompletes, WriteCompletes, PeerSends, PeerCloses
<1>2. TypeOK'
  <2>1. CASE ReadCompletes(d)
    <3>1. PICK r \in {"ok", "eof", "error"} : op' = [op EXCEPT ![d] = r]
      BY <2>1 DEF ReadCompletes
    <3> QED
      BY <1>1, <2>1, <3>1 DEF ReadCompletes, IInv, FinIsLast, TypeOK
  <2>2. CASE WriteCompletes(d)
    <3>1. delivered[d] + 1 \in 0 .. MaxChunks
      BY <2>2 DEF WriteCompletes, IInv, FinIsLast, TypeOK, Counted
    <3> QED
      BY <1>1, <2>2, <3>1 DEF WriteCompletes, IInv, FinIsLast, TypeOK
  <2>3. CASE PeerSends(d)
    <3>1. sent[d] + 1 \in 0 .. MaxChunks
      BY <2>3 DEF PeerSends, IInv, FinIsLast, TypeOK
    <3> QED
      BY <1>1, <2>3, <3>1 DEF PeerSends, IInv, FinIsLast, TypeOK
  <2>4. CASE PeerCloses(d)
    BY <1>1, <2>4 DEF PeerCloses, IInv, FinIsLast, TypeOK
  <2> QED
    BY <2>1, <2>2, <2>3, <2>4
<1>3. FinIsLast' /\ EndOfStream'
  BY <1>1, <1>2 DEF ReadCompletes, WriteCompletes, PeerSends, PeerCloses,
     IInv, FinIsLast, TypeOK, EndOfStream
<1>4. Counted'
  BY <1>1 DEF ReadCompletes, WriteCompletes, PeerSends, PeerCloses,
     IInv, FinIsLast, TypeOK, Counted
<1>5. CancelledByError' /\ HalfCloseIsIndependent'
  BY <1>1 DEF IInv, CancelledByError, HalfCloseIsIndependent
<1> QED
  BY <1>3, <1>4, <1>5 DEF IInv

\* Every step keeps the invariant.
LEMMA Inductive == IInv /\ [Next]_vars => IInv'
<1> SUFFICES ASSUME IInv, [Next]_vars PROVE IInv'
  OBVIOUS
<1>1. CASE \/ SessionConnects \/ SessionFails \/ UNCHANGED vars
           \/ \E p \in Peer : PeerResets(p)
  BY <1>1 DEF SessionConnects, SessionFails, PeerResets, vars, IInv,
     FinIsLast, TypeOK, HalfCloseIsIndependent, Counted, EndOfStream, CancelledByError
<1> QED
  BY <1>1, ForwardGoesOn, ForwardEndsStep, ForwardThrowsStep, OutsideStep DEF Next, Resume

\* The inductive invariant of a session of the proxy.
THEOREM Invariant == Spec => []IInv
  BY InitIInv, Inductive, PTL DEF Spec

\* The half-close is forwarded after the last chunk, for streams of any length
\* (proxy.cpp, forward()).
THEOREM CompleteStream == Spec => []FinIsLast
  BY Invariant, PTL DEF IInv

\* The end of one direction never cancels the other one, as operator&& waits
\* for both and reacts to errors only.
THEOREM IndependentEnds == Spec => []HalfCloseIsIndependent
  BY Invariant, PTL DEF IInv

-----------------------------------------------------------------------------
(***************************************************************************)
(* Termination: a session with an error, or whose peers have both closed,  *)
(* cannot get stuck, and no session goes on for ever when the peers send   *)
(* finitely many chunks.                                                   *)
(***************************************************************************)
\* The session runs as long as a direction does; and an error reaches the other
\* direction, which then does not wait any more.
Joined ==
  /\ stage = "connecting" => \A d \in Direction : pc[d] = "read" /\ op[d] = "pending"
  /\ stage = "forwarding" => \E d \in Direction : Running(d)
  /\ \A d \in Direction : pc[d] = "write" => op[d] # "eof"
  /\ \A d \in Direction :
       pc[d] = "threw" /\ Running(Other(d)) => cancelled[Other(d)] /\ op[Other(d)] # "pending"

\* The condition of SessionEnds.
Over == (\E d \in Direction : pc[d] = "threw") \/ (\A d \in Direction : srcFin[d])

\* Somebody whom the specification is fair to can go on: the connection attempt, a
\* coroutine whose operation has completed, or an operation that can complete.
CanComplete(d) ==
  \/ pc[d] = "write"
  \/ pc[d] = "read" /\ (From(d) \in reset \/ sent[d] > total[d] \/ (sent[d] = total[d] /\ srcFin[d]))

Ready ==
  \/ stage = "connecting"
  \/ /\ stage = "forwarding"
     /\ \E d \in Direction :
          /\ Running(d)
          /\ \/ op[d] \in {"ok", "error", "aborted"}
             \/ op[d] = "eof" /\ pc[d] = "read"
             \/ op[d] = "pending" /\ CanComplete(d)

\* What is left to do in a direction, and by the session and its peers.
One(b) == IF b THEN 1 ELSE 0

ToDo(d) ==
  (MaxChunks - sent[d]) + 4 * (MaxChunks - total[d])
  + (IF pc[d] = "write" THEN 3 ELSE One(pc[d] = "read")) + One(op[d] = "pending") + One(~srcFin[d])

Remaining == ToDo("up") + ToDo("down") + One("client" \notin reset) + One("server" \notin reset)
             + IF stage = "connecting" THEN 2 ELSE One(stage = "forwarding")

\* An exception in one direction leaves nothing for the other one to wait for.
LEMMA JoinedInductive == IInv /\ Joined /\ [Next]_vars => Joined'
<1> SUFFICES ASSUME IInv, Joined, [Next]_vars PROVE Joined'
  OBVIOUS
<1>t. TypeOK /\ CancelledByError
  BY DEF IInv, FinIsLast
<1> USE DEF Joined
<1>1. CASE SessionConnects \/ SessionFails
  BY <1>1, <1>t DEF SessionConnects, SessionFails, TypeOK
<1>2. ASSUME NEW d \in Direction, ForwardWrites(d) \/ ForwardReads(d) PROVE Joined'
  BY <1>2, <1>t DEF ForwardWrites, ForwardReads, TypeOK, CancelledByError
<1>3. ASSUME NEW d \in Direction, ForwardEnds(d) PROVE Joined'
  BY <1>3, <1>t DEF ForwardEnds, Join, TypeOK
<1>4. ASSUME NEW d \in Direction, ForwardThrows(d) PROVE Joined'
  BY <1>4, <1>t DEF ForwardThrows, Join, TypeOK
<1>5. ASSUME NEW d \in Direction, ReadCompletes(d) \/ WriteCompletes(d) PROVE Joined'
  BY <1>5, <1>t DEF ReadCompletes, WriteCompletes, TypeOK
<1>6. CASE \/ \E d \in Direction : PeerSends(d) \/ PeerCloses(d)
           \/ \E p \in Peer : PeerResets(p)
           \/ UNCHANGED vars
  BY <1>6 DEF PeerSends, PeerCloses, PeerResets, vars
<1> QED
  BY <1>1, <1>2, <1>3, <1>4, <1>5, <1>6 DEF Next, Resume

\* The invariants of termination.
LEMMA AlwaysJoined == Spec => [](IInv /\ Joined)
<1>1. Init => Joined
  BY DEF Init, Joined
<1> QED
  BY <1>1, InitIInv, Inductive, JoinedInductive, PTL DEF Spec

\* What is left to do is a number.
LEMMA ToDoType == TypeOK => \A d \in Direction : ToDo(d) \in Nat
<1> SUFFICES ASSUME TypeOK, NEW d \in Direction PROVE ToDo(d) \in Nat
  OBVIOUS
<1>1. MaxChunks - sent[d] \in Nat /\ MaxChunks - total[d] \in Nat
  BY DEF TypeOK
<1> QED
  BY <1>1 DEF ToDo, One

\* And so is what is left to do for all of them.
LEMMA RemainingType == TypeOK => Remaining \in Nat
<1> SUFFICES ASSUME TypeOK PROVE Remaining \in Nat
  OBVIOUS
<1>1. ToDo("up") \in Nat /\ ToDo("down") \in Nat
  BY ToDoType
<1> QED
  BY <1>1 DEF Remaining, One

\* The same after a step.
LEMMA ToDoTypeNext == TypeOK' => (\A d \in Direction : ToDo(d) \in Nat)'
  BY ToDoType, PTL

\* Every step leaves less to do.
LEMMA Decreases == IInv /\ Next => Remaining' < Remaining
<1> SUFFICES ASSUME IInv, Next PROVE Remaining' < Remaining
  OBVIOUS
<1>t. TypeOK
  BY DEF IInv, FinIsLast
<1>n. \A d \in Direction : ToDo(d) \in Nat /\ ToDo(d)' \in Nat
  <2>1. TypeOK'
    BY Inductive DEF IInv, FinIsLast
  <2> QED
    BY <1>t, <2>1, ToDoType, ToDoTypeNext
<1>1. CASE SessionConnects \/ SessionFails
  <2>1. ToDo("up")' = ToDo("up") /\ ToDo("down")' = ToDo("down")
    BY <1>1 DEF SessionConnects, SessionFails, ToDo, One
  <2> QED
    BY <1>1, <2>1, <1>n DEF SessionConnects, SessionFails, Remaining, One
<1>2. ASSUME NEW p \in Peer, PeerResets(p) PROVE Remaining' < Remaining
  <2>1. ToDo("up")' = ToDo("up") /\ ToDo("down")' = ToDo("down")
    BY <1>2 DEF PeerResets, ToDo, One
  <2> QED
    BY <1>2, <2>1, <1>n DEF PeerResets, Peer, Remaining, One
<1>3. ASSUME NEW d \in Direction,
             \/ Resume(d) \/ ReadCompletes(d) \/ WriteCompletes(d)
             \/ PeerSends(d) \/ PeerCloses(d)
      PROVE  Remaining' < Remaining
  <2>1. reset' = reset /\ One(stage' = "forwarding") <= One(stage = "forwarding")
        /\ (stage' = "connecting") = (stage = "connecting")
    BY <1>3 DEF Resume, ForwardWrites, ForwardReads, ForwardEnds, ForwardThrows, Join,
       ReadCompletes, WriteCompletes, PeerSends, PeerCloses, One
  <2>2. ToDo(Other(d))' <= ToDo(Other(d))
    <3>1. LET o == Other(d) IN
          /\ sent'[o] = sent[o] /\ total'[o] = total[o] /\ pc'[o] = pc[o] /\ srcFin'[o] = srcFin[o]
          /\ op'[o] = "pending" => op[o] = "pending"
      BY <1>3, <1>t DEF Resume, ForwardWrites, ForwardReads, ForwardEnds, ForwardThrows,
         ReadCompletes, WriteCompletes, PeerSends, PeerCloses, TypeOK
    <3> QED
      BY <3>1, <1>t DEF ToDo, One, TypeOK
  <2>3. ToDo(d)' < ToDo(d)
    <3>1. MaxChunks - sent[d] \in Nat /\ MaxChunks - total[d] \in Nat
      BY <1>t DEF TypeOK
    <3>2. CASE ForwardWrites(d)
      BY <3>1, <3>2, <1>t DEF ForwardWrites, ToDo, One, TypeOK
    <3>3. CASE ForwardReads(d)
      BY <3>1, <3>3, <1>t DEF ForwardReads, ToDo, One, TypeOK
    <3>4. CASE ForwardEnds(d) \/ ForwardThrows(d)
      BY <3>1, <3>4, <1>t DEF ForwardEnds, ForwardThrows, ToDo, One, TypeOK
    <3>5. CASE ReadCompletes(d) \/ WriteCompletes(d)
      BY <3>1, <3>5, <1>t DEF ReadCompletes, WriteCompletes, ToDo, One, TypeOK
    <3>6. CASE PeerSends(d) \/ PeerCloses(d)
      BY <3>1, <3>6, <1>t DEF PeerSends, PeerCloses, ToDo, One, TypeOK
    <3> QED
      BY <1>3, <3>2, <3>3, <3>4, <3>5, <3>6 DEF Resume
  <2>4. ToDo("up")' + ToDo("down")' < ToDo("up") + ToDo("down")
    BY <2>2, <2>3, <1>n
  <2> QED
    BY <2>1, <2>4, <1>n DEF Remaining, One
<1> QED
  BY <1>1, <1>2, <1>3 DEF Next

\* An error, or two closed streams, leave the session something that it can do.
LEMMA SomebodyReady == IInv /\ Joined /\ Over => stage = "ended" \/ Ready
<1> SUFFICES ASSUME IInv, Joined, Over, stage = "forwarding" PROVE Ready
  BY DEF Ready, IInv, FinIsLast, TypeOK
<1>t. TypeOK
  BY DEF IInv, FinIsLast
<1>1. PICK d \in Direction : Running(d)
  BY DEF Joined
<1>2. CASE op[d] # "pending"
  BY <1>1, <1>2, <1>t DEF Ready, Joined, TypeOK
<1>3. CASE op[d] = "pending" /\ srcFin[d]
  <2>1. CanComplete(d)
    BY <1>1, <1>3, <1>t DEF CanComplete, TypeOK, IInv, Counted
  <2> QED
    BY <1>1, <1>3, <2>1 DEF Ready
<1>4. CASE op[d] = "pending" /\ ~srcFin[d]
  <2>1. PICK e \in Direction : pc[e] = "threw"
    BY <1>4 DEF Over
  <2> QED
    BY <1>1, <1>4, <2>1 DEF Joined
<1> QED
  BY <1>2, <1>3, <1>4

\* After an error in one direction, or once both peers have closed, the session
\* never waits for anybody but the io_context: it has ended, or somebody to whom
\* Fairness promises a step is ready.
THEOREM NeverBlocked == Spec => [](Over => stage = "ended" \/ Ready)
  BY AlwaysJoined, SomebodyReady, PTL

\* A session whose peers send a bounded number of chunks takes finitely many
\* steps.  With NeverBlocked this is SessionEnds, up to what fairness means.
THEOREM Terminating == Spec => [](Remaining \in Nat) /\ [][Remaining' < Remaining]_vars
<1>1. IInv => Remaining \in Nat
  BY RemainingType DEF IInv, FinIsLast
<1>2. IInv /\ [Next]_vars => [Remaining' < Remaining]_vars
  BY Decreases
<1> QED
  BY <1>1, <1>2, AlwaysJoined, PTL DEF Spec
=============================================================================
