-------------------------- MODULE EchoServerProofs --------------------------
(***************************************************************************)
(* Proofs about EchoServer, for every set of sessions and every order of   *)
(* the handlers, and then in the order of EchoServerFifo.                  *)
(***************************************************************************)
EXTENDS EchoServerFifo, FiniteSetTheorems, SequenceTheorems, TLAPS

\* The initial state satisfies the inductive invariant.
LEMMA InitIInv == Init => IInv
  BY DEF Init, IInv, TypeOK, MapIsLive, UnbornIsFresh, TerminalOnlyDraining,
         StructuredConcurrency, NoLostWakeup, NoSessionEscapes,
         NoStaleCancellation, Live, ServerPc, SessionPc, EchoPc, OpStatus,
         OpResult, Cancelled, CancelType, Signal

USE DEF ServerPc, SessionPc, EchoPc, OpStatus, OpResult, Cancelled, CancelType,
        Signal, EnableTerminal, EnablePartial, EnableTotal, serverVars,
        sessionVars

\* Forwarding keeps the types, and a session that was echoing is cancelled.
LEMMA ForwardType ==
  ASSUME TypeOK, NEW t \in Cancelled, NEW M, NEW p \in [Session -> SessionPc],
         Forward(t, M, p, op)
  PROVE  /\ op' \in [Session -> OpStatus]
         /\ cancelled' \in [Session -> Cancelled]
         /\ echoCancelled' \in [Session -> BOOLEAN]
  BY DEF TypeOK, Forward, Filtered, SessionFilter, Hears

\* Every step keeps the types.
LEMMA TypeInductive == TypeOK /\ [Next]_vars => TypeOK'
<1> SUFFICES ASSUME TypeOK, [Next]_vars PROVE TypeOK'
  OBVIOUS
<1>1. CASE AcceptNext
  BY <1>1 DEF AcceptNext, Stored, Accepted, AwaitAccept, TypeOK
<1>2. CASE AcceptTotal
  <2>1. pc' \in [Session -> SessionPc] /\ sessions' \subseteq Session
    BY <1>2 DEF AcceptTotal, Stored, Accepted, TypeOK
  <2>2. Forward("total", sessions', pc', op)
    BY <1>2 DEF AcceptTotal
  <2> QED
    BY <1>2, <2>1, <2>2, ForwardType DEF AcceptTotal, AwaitAccept, TypeOK
<1>3. CASE AcceptBreak
  <2>1. pc' \in [Session -> SessionPc] /\ sessions' \subseteq Session
    BY <1>3 DEF AcceptBreak, Stored, Accepted, TypeOK
  <2>2. Forward(srvCancelled, sessions', pc', op)
    BY <1>3 DEF AcceptBreak
  <2> QED
    BY <1>3, <2>1, <2>2, ForwardType
    DEF AcceptBreak, Drain, AwaitReceive, Return, TypeOK
<1>4. CASE ReceiveDone
  <2>1. /\ op' \in [Session -> OpStatus]
        /\ cancelled' \in [Session -> Cancelled]
        /\ echoCancelled' \in [Session -> BOOLEAN]
    BY <1>4, ForwardType DEF ReceiveDone, TypeOK
  <2> QED
    BY <1>4, <2>1 DEF ReceiveDone, Drain, AwaitReceive, Return, TypeOK
<1>5. ASSUME NEW s \in Session, SessionStep(s) PROVE TypeOK'
  BY <1>5 DEF SessionStep, EchoContinues, EchoThrows, EchoStops, GoodbyeSent,
              GoodbyeFails, LingerEnds, Complete, Notify, TypeOK
<1>6. CASE SignalStep
  BY <1>6 DEF SignalStep, EmitToServer, Filtered, ServerFilter, TypeOf, TypeOK
<1>7. CASE SignalStops
  BY <1>7 DEF SignalStops, TypeOK
<1>8. CASE Environment
  BY <1>8 DEF Environment, SignalRaised, AcceptCompletes, OpCompletes, TypeOK
<1>9. CASE UNCHANGED vars
  BY <1>9 DEF vars, TypeOK
<1> QED
  BY <1>1, <1>2, <1>3, <1>4, <1>5, <1>6, <1>7, <1>8, <1>9
  DEF Next, System, ServerStep

\* EchoServer never leaves its types.
THEOREM TypeCorrect == Spec => []TypeOK
<1>1. Init => TypeOK
  BY InitIInv DEF IInv
<1> QED
  BY <1>1, TypeInductive, PTL DEF Spec

-----------------------------------------------------------------------------
\* What forwarding does to one session.
LEMMA ForwardEffect ==
  ASSUME TypeOK, NEW t \in Cancelled, NEW M, NEW p \in [Session -> SessionPc],
         Forward(t, M, p, op), NEW s \in Session
  PROVE  /\ s \notin M => UNCHANGED <<op[s], cancelled[s], echoCancelled[s]>>
         /\ echoCancelled[s] => echoCancelled'[s]
         /\ s \in M /\ p[s] \in EchoPc => cancelled'[s] = t
         /\ s \in M /\ p[s] \in EchoPc /\ t # "none" => echoCancelled'[s]
  BY DEF TypeOK, Forward, Filtered, SessionFilter, Hears

\* What storing a new connection does.
LEMMA StoredEffect ==
  ASSUME TypeOK, MapIsLive, \E new \in Accepted : Stored(new)
  PROVE  /\ pc' \in [Session -> SessionPc]
         /\ MapIsLive'
         /\ sessions' \subseteq Session
         /\ \A s \in Session : \/ pc'[s] = pc[s]
                               \/ pc[s] = "unborn" /\ pc'[s] = "read"
         /\ \A s \in Session : s \in sessions' <=> pc'[s] \notin {"unborn", "done"}
         /\ srvOp # "ok" => sessions' = sessions /\ pc' = pc
         /\ srvOp = "ok" => sessions' # {}
  BY DEF TypeOK, MapIsLive, Live, Accepted, Stored

\* The invariant is preserved by the server.
LEMMA ServerInductive == IInv /\ ServerStep => IInv'
<1> SUFFICES ASSUME IInv, ServerStep PROVE IInv'
  OBVIOUS
<1> USE DEF IInv
<1>t. TypeOK'
  BY TypeInductive DEF Next, System
<1>1. CASE AcceptNext
  <2>1. \E new \in Accepted : Stored(new)
    BY <1>1 DEF AcceptNext
  <2> QED
    BY <1>1, <1>t, <2>1, StoredEffect
    DEF AcceptNext, AwaitAccept, TypeOK, UnbornIsFresh,
        TerminalOnlyDraining, StructuredConcurrency, NoLostWakeup,
        NoSessionEscapes, NoStaleCancellation
<1>2. CASE AcceptTotal
  <2>1. \E new \in Accepted : Stored(new)
    BY <1>2 DEF AcceptTotal
  <2>2. Forward("total", sessions', pc', op)
    BY <1>2 DEF AcceptTotal
  <2>3. UnbornIsFresh'
    BY <1>t, <2>1, <2>2, StoredEffect, ForwardEffect DEF UnbornIsFresh, TypeOK
  <2>4. \A s \in Session : pc'[s] \in EchoPc => cancelled'[s] # "terminal"
    BY <1>t, <2>1, <2>2, StoredEffect, ForwardEffect DEF TypeOK
  <2> QED
    BY <1>2, <1>t, <2>1, <2>3, <2>4, StoredEffect
    DEF AcceptTotal, AwaitAccept, TerminalOnlyDraining, StructuredConcurrency,
        NoLostWakeup, NoSessionEscapes, NoStaleCancellation
<1>3. CASE AcceptBreak
  <2>1. \E new \in Accepted : Stored(new)
    BY <1>3 DEF AcceptBreak
  <2>2. Forward(srvCancelled, sessions', pc', op)
    BY <1>3 DEF AcceptBreak
  <2>3. UnbornIsFresh'
    BY <1>t, <2>1, <2>2, StoredEffect, ForwardEffect DEF UnbornIsFresh, TypeOK
  <2>4. NoSessionEscapes'
    BY <1>3, <1>t, <2>1, <2>2, StoredEffect, ForwardEffect
    DEF AcceptBreak, NoSessionEscapes, TypeOK
  <2>e. \A s \in Session : pc'[s] \in EchoPc /\ cancelled'[s] = "terminal"
                             => echoCancelled'[s]
    BY <1>t, <2>1, <2>2, StoredEffect, ForwardEffect DEF TypeOK
  <2>5. /\ TerminalOnlyDraining' /\ StructuredConcurrency'
        /\ NoLostWakeup' /\ NoStaleCancellation'
    BY <1>3, <1>t, <2>1, <2>e, StoredEffect
    DEF AcceptBreak, Drain, AwaitReceive, Return, TerminalOnlyDraining,
        StructuredConcurrency, NoLostWakeup, NoStaleCancellation, MapIsLive
  <2> QED
    BY <1>t, <2>1, <2>3, <2>4, <2>5, StoredEffect
<1>4. CASE ReceiveDone
  <2>1. MapIsLive' /\ UNCHANGED <<sessions, pc>>
    BY <1>4 DEF ReceiveDone, MapIsLive, Live
  <2>2. CASE srvCancelled = "none"
    BY <1>4, <1>t, <2>1, <2>2
    DEF ReceiveDone, Drain, AwaitReceive, Return, TypeOK, UnbornIsFresh,
        TerminalOnlyDraining, StructuredConcurrency, NoLostWakeup,
        NoSessionEscapes, NoStaleCancellation, MapIsLive
  <2>3. CASE srvCancelled # "none"
    <3>1. Forward(srvCancelled, sessions, pc, op)
      BY <1>4, <2>3 DEF ReceiveDone
    <3>2. \A s \in Session : pc[s] \in EchoPc => echoCancelled'[s]
      BY <1>t, <2>3, <3>1, ForwardEffect DEF TypeOK, MapIsLive, Live
    <3>3. UnbornIsFresh'
      BY <1>t, <2>1, <3>1, ForwardEffect DEF TypeOK, MapIsLive, Live, UnbornIsFresh
    <3> QED
      BY <1>4, <1>t, <2>1, <2>3, <3>2, <3>3
      DEF ReceiveDone, Drain, AwaitReceive, Return, TypeOK,
          TerminalOnlyDraining, StructuredConcurrency, NoLostWakeup,
          NoSessionEscapes, NoStaleCancellation, MapIsLive
  <2> QED
    BY <2>2, <2>3
<1> QED
  BY <1>1, <1>2, <1>3, <1>4 DEF ServerStep

\* A session that completes leaves the map and wakes the server that waits.
LEMMA CompleteInductive ==
  ASSUME IInv, TypeOK', NEW s \in Session, s \in Live, Complete(s)
  PROVE  IInv'
<1> USE DEF IInv, Complete, Notify
<1>1. MapIsLive'
  BY DEF MapIsLive, Live, TypeOK
<1>2. StructuredConcurrency'
  BY DEF StructuredConcurrency, Live, TypeOK
<1>3. NoLostWakeup' /\ NoStaleCancellation'
  BY DEF NoLostWakeup, NoStaleCancellation, Live, TypeOK
<1>4. UnbornIsFresh' /\ TerminalOnlyDraining' /\ NoSessionEscapes'
  BY DEF UnbornIsFresh, TerminalOnlyDraining, NoSessionEscapes, TypeOK
<1> QED
  BY <1>1, <1>2, <1>3, <1>4

\* A session that goes on stays in the map.
LEMMA SessionInductive ==
  ASSUME IInv, NEW s \in Session, SessionStep(s)
  PROVE  IInv'
<1> USE DEF IInv
<1>t. TypeOK'
  BY TypeInductive DEF Next, System
<1>1. CASE EchoThrows(s) \/ GoodbyeFails(s) \/ LingerEnds(s)
  <2>1. s \in Live /\ Complete(s)
    BY <1>1 DEF EchoThrows, EchoEnded, GoodbyeFails, LingerEnds, Live, TypeOK
  <2> QED
    BY <1>t, <2>1, CompleteInductive
<1>2. CASE EchoContinues(s) \/ EchoStops(s) \/ GoodbyeSent(s)
  <2>1. /\ s \in Live /\ Live' = Live
        /\ UNCHANGED <<serverVars, sessions, echoCancelled, sig>>
    BY <1>2 DEF EchoContinues, EchoStops, EchoEnded, GoodbyeSent, Live, TypeOK
  <2>2. /\ \A x \in Session \ {s} : UNCHANGED <<pc[x], op[x], cancelled[x]>>
        /\ pc'[s] # "unborn"
        /\ pc'[s] \in EchoPc => pc[s] \in EchoPc /\ cancelled'[s] = cancelled[s]
    BY <1>2 DEF EchoContinues, EchoStops, GoodbyeSent, TypeOK
  <2>3. MapIsLive' /\ StructuredConcurrency' /\ NoLostWakeup' /\ NoStaleCancellation'
    BY <2>1 DEF MapIsLive, StructuredConcurrency, NoLostWakeup, NoStaleCancellation
  <2>4. UnbornIsFresh' /\ TerminalOnlyDraining' /\ NoSessionEscapes'
    BY <2>1, <2>2 DEF UnbornIsFresh, TerminalOnlyDraining, NoSessionEscapes
  <2> QED
    BY <1>t, <2>3, <2>4
<1> QED
  BY <1>1, <1>2 DEF SessionStep

\* Every step keeps the inductive invariant.
LEMMA Inductive == IInv /\ [Next]_vars => IInv'
<1> SUFFICES ASSUME IInv, [Next]_vars PROVE IInv'
  OBVIOUS
<1> USE DEF IInv
<1>t. TypeOK'
  BY TypeInductive
<1>1. CASE ServerStep
  BY <1>1, ServerInductive
<1>2. ASSUME NEW s \in Session, SessionStep(s) PROVE IInv'
  BY <1>2, SessionInductive
<1>3. CASE SignalStep
  BY <1>3, <1>t
  DEF SignalStep, EmitToServer, Filtered, ServerFilter, TypeOK, MapIsLive, Live,
      UnbornIsFresh, TerminalOnlyDraining, StructuredConcurrency,
      NoLostWakeup, NoSessionEscapes, NoStaleCancellation
<1>4. CASE SignalStops \/ UNCHANGED vars \/ \E signum \in Signal : SignalRaised(signum)
  <2>1. UNCHANGED <<serverVars, sessions, sessionVars>>
    BY <1>4 DEF SignalStops, SignalRaised, vars
  <2> QED
    BY <1>t, <2>1
    DEF MapIsLive, Live, UnbornIsFresh, TerminalOnlyDraining,
        StructuredConcurrency, NoLostWakeup, NoSessionEscapes, NoStaleCancellation
<1>5. ASSUME NEW r \in {"ok", "error"}, AcceptCompletes(r) PROVE IInv'
  BY <1>5, <1>t
  DEF AcceptCompletes, MapIsLive, Live, UnbornIsFresh, TerminalOnlyDraining,
      StructuredConcurrency, NoLostWakeup, NoSessionEscapes, NoStaleCancellation
<1>6. ASSUME NEW s \in Session, NEW r \in OpResult, OpCompletes(s, r) PROVE IInv'
  <2>1. pc[s] # "unborn"
    BY <1>6 DEF OpCompletes, Outcomes
  <2> QED
    BY <1>6, <1>t, <2>1
    DEF OpCompletes, TypeOK, MapIsLive, Live, UnbornIsFresh, TerminalOnlyDraining,
        StructuredConcurrency, NoLostWakeup, NoSessionEscapes, NoStaleCancellation
<1> QED
  BY <1>1, <1>2, <1>3, <1>4, <1>5, <1>6 DEF Next, System, Environment

\* The inductive invariant of the server: its map holds exactly the sessions that
\* run, and from there the properties below follow.
THEOREM Invariant == Spec => []IInv
  BY InitIInv, Inductive, PTL DEF Spec

\* No completion handler of a session runs after server() has returned.
THEOREM Structured == Spec => []StructuredConcurrency
  BY Invariant, PTL DEF IInv

\* The server never waits for a notification that nobody is going to send.
THEOREM Wakeup == Spec => []NoLostWakeup
  BY Invariant, PTL DEF IInv

\* A cancellation that ends the accept loop reaches every session.
THEOREM NoEscape == Spec => []NoSessionEscapes
  BY Invariant, PTL DEF IInv

\* A pending accept or receive never carries an old cancellation.
THEOREM NotStale == Spec => []NoStaleCancellation
  BY Invariant, PTL DEF IInv
-----------------------------------------------------------------------------
\* One step never takes terminal back from a session that echoes.
TerminalKept == \A s \in Session :
  pc[s] \in EchoPc /\ cancelled[s] = "terminal" =>
    \/ pc'[s] = "done"
    \/ pc'[s] = pc[s] /\ cancelled'[s] = "terminal"

\* No step weakens what an echoing session was told with terminal.
LEMMA TerminalStep == IInv /\ [Next]_vars => TerminalKept
<1> SUFFICES ASSUME IInv, [Next]_vars, NEW s \in Session,
                    pc[s] \in EchoPc, cancelled[s] = "terminal"
             PROVE  \/ pc'[s] = "done"
                    \/ pc'[s] = pc[s] /\ cancelled'[s] = "terminal"
  BY DEF TerminalKept
<1>a. srvPc # "accept" /\ s \in sessions
  BY DEF IInv, TerminalOnlyDraining, MapIsLive, Live
<1>1. CASE ServerStep
  <2>1. ReceiveDone
    BY <1>1, <1>a DEF ServerStep, AcceptNext, AcceptTotal, AcceptBreak
  <2>2. srvCancelled \in {"none", "terminal"}
    BY <2>1 DEF ReceiveDone, IInv, TerminalOnlyDraining
  <2> QED
    BY <1>a, <2>1, <2>2, ForwardEffect DEF ReceiveDone, IInv, TypeOK
<1>2. ASSUME NEW x \in Session, SessionStep(x)
      PROVE  \/ pc'[s] = "done"
             \/ pc'[s] = pc[s] /\ cancelled'[s] = "terminal"
  <2>1. CASE x # s
    BY <1>2, <2>1
    DEF SessionStep, EchoContinues, EchoThrows, EchoStops, GoodbyeSent,
        GoodbyeFails, LingerEnds, Complete, IInv, TypeOK
  <2>2. CASE x = s
    <3>1. echoCancelled[s]
      BY DEF IInv, TerminalOnlyDraining
    <3> QED
      BY <1>2, <2>2, <3>1
      DEF SessionStep, EchoContinues, EchoThrows, EchoStops, GoodbyeSent,
          GoodbyeFails, LingerEnds, Complete, Rethrows, IInv, TypeOK
  <2> QED
    BY <2>1, <2>2
<1>3. CASE SignalStep \/ SignalStops \/ UNCHANGED vars
  BY <1>3 DEF SignalStep, SignalStops, vars
<1>4. CASE Environment
  BY <1>4 DEF Environment, SignalRaised, AcceptCompletes, OpCompletes
<1> QED
  BY <1>1, <1>2, <1>3, <1>4 DEF Next, System

\* A session told terminal while it echoes ends without a goodbye.
THEOREM Final == Spec => TerminalIsFinal
<1>1. IInv /\ [Next]_vars => [TerminalKept]_vars
  BY TerminalStep
<1> QED
  BY <1>1, Invariant, PTL DEF Spec, TerminalIsFinal, TerminalKept

-----------------------------------------------------------------------------
\* A session that completes is finished in the abstract scope, and one that
\* goes on makes no difference.
LEMMA SessionRefines ==
  ASSUME IInv, NEW s \in Session, SessionStep(s)
  PROVE  Scope!Finish(s) \/ UNCHANGED Scope!vars
<1>1. CASE EchoThrows(s) \/ GoodbyeFails(s) \/ LingerEnds(s)
  <2>1. s \in Live /\ Complete(s)
    BY <1>1 DEF EchoThrows, EchoEnded, GoodbyeFails, LingerEnds, Live
  <2>2. /\ Live' = Live \ {s}
        /\ Finished' = Finished \cup {s}
        /\ UNCHANGED ScopePhase
    BY <2>1 DEF Complete, Notify, Live, Finished, ScopePhase, IInv, TypeOK
  <2> QED
    BY <2>1, <2>2 DEF Scope!Finish
<1>2. CASE EchoContinues(s) \/ EchoStops(s) \/ GoodbyeSent(s)
  BY <1>2
  DEF EchoContinues, EchoStops, EchoEnded, GoodbyeSent, Live, Finished,
      ScopePhase, IInv, TypeOK, Scope!vars
<1> QED
  BY <1>1, <1>2 DEF SessionStep

\* The accept loop serves the scope; its end is the scope's stop.
LEMMA AcceptRefines ==
  ASSUME IInv, AcceptNext \/ AcceptTotal \/ AcceptBreak
  PROVE  Scope!Serve
<1>1. PICK new \in Accepted : Stored(new)
  BY DEF AcceptNext, AcceptTotal, AcceptBreak
<1>2. new \in SUBSET (Session \ (Live \cup Finished))
  BY <1>1 DEF Accepted, Live, Finished
<1>3. Live' = Live \cup new /\ Finished' = Finished
  BY <1>1, <1>2 DEF Stored, Live, Finished, IInv, TypeOK
<1>4. sessions' = Live'
  BY <1>1, <1>3 DEF Stored, IInv, MapIsLive
<1>5. srvPc = "accept" /\ (srvPc' = "done" => Live' = {})
  BY <1>4
  DEF AcceptNext, AcceptTotal, AcceptBreak, AwaitAccept, Drain, AwaitReceive, Return
<1>6. /\ ScopePhase = "open"
      /\ ScopePhase' \in {"open", "closing", "closed"}
      /\ ScopePhase' = "closed" => Live' = {}
  BY <1>5
  DEF ScopePhase, AcceptNext, AcceptTotal, AcceptBreak, AwaitAccept, Drain,
      AwaitReceive, Return
<1> QED
  BY <1>2, <1>3, <1>6, Zenon DEF Scope!Serve

\* A round of the drain loop closes the scope or changes nothing in it.
LEMMA ReceiveRefines ==
  ASSUME IInv, ReceiveDone
  PROVE  Scope!Close \/ UNCHANGED Scope!vars
<1>1. UNCHANGED <<Live, Finished>> /\ sessions' = Live
  BY DEF ReceiveDone, Live, Finished, IInv, MapIsLive
<1> QED
  BY <1>1
  DEF ReceiveDone, Drain, AwaitReceive, Return, ScopePhase, Scope!Close, Scope!vars

\* Every step of the server, of a session and of the outside is a step of the
\* scope or leaves it unchanged.
LEMMA StepRefines == IInv /\ [Next]_vars => [Scope!Next]_(Scope!vars)
<1> SUFFICES ASSUME IInv, [Next]_vars PROVE Scope!Next \/ UNCHANGED Scope!vars
  OBVIOUS
<1>1. CASE ServerStep
  BY <1>1, AcceptRefines, ReceiveRefines DEF ServerStep, Scope!Next
<1>2. ASSUME NEW s \in Session, SessionStep(s)
      PROVE  Scope!Next \/ UNCHANGED Scope!vars
  BY <1>2, SessionRefines DEF Scope!Next
<1>3. CASE SignalStep \/ SignalStops \/ Environment \/ UNCHANGED vars
  <2>1. UNCHANGED <<srvPc, pc>>
    BY <1>3
    DEF SignalStep, EmitToServer, SignalStops, Environment, SignalRaised,
        AcceptCompletes, OpCompletes, vars
  <2> QED
    BY <2>1 DEF ScopePhase, Live, Finished, Scope!vars
<1> QED
  BY <1>1, <1>2, <1>3 DEF Next, System

\* The server implements the abstract task scope.
THEOREM Refinement == Spec => ImplementsScope
<1>1. Init => Scope!Init
  BY DEF Init, Scope!Init, ScopePhase, Live, Finished
<1> QED
  BY <1>1, StepRefines, Invariant, PTL DEF Spec, ImplementsScope, Scope!SafeSpec

-----------------------------------------------------------------------------
(***************************************************************************)
(* A shutdown makes progress: after SIGINT or SIGTERM has been forwarded,  *)
(* every session is on its way to its end.                                 *)
(***************************************************************************)
Draining == srvPc = "receive" /\ forwarded \in {"partial", "terminal"}

\* Whoever has been told to stop waits for nothing in echo(), and after terminal
\* for no goodbye either.  A write does not see the end of the stream.
Told ==
  /\ \A s \in Session : pc[s] = "goodbye" => op[s] # "eof"
  /\ Draining => \A s \in Session : pc[s] \in EchoPc => op[s] # "pending"
  /\ srvPc = "receive" /\ forwarded = "terminal" =>
       \A s \in Session : /\ pc[s] \in EchoPc => cancelled[s] = "terminal"
                          /\ pc[s] = "goodbye" => op[s] # "pending"

\* The guard of SessionStep, and the two things that a session still waits for: its
\* sleep, and the client that is to take a goodbye.
SessionReady(s) ==
  \/ EchoEnded(s) \/ (pc[s] \in EchoPc /\ op[s] = "ok")
  \/ pc[s] = "goodbye" /\ op[s] \in {"ok", "error", "aborted"}
  \/ pc[s] = "linger" /\ op[s] # "pending"
Awaits(s) == op[s] = "pending" /\ (pc[s] = "linger" \/ (pc[s] = "goodbye" /\ forwarded = "partial"))

\* How far a session that has been told is from its end.
SessionRank(s) ==
  CASE pc[s] \in EchoPc  -> 5
    [] pc[s] = "goodbye" -> (IF op[s] = "pending" THEN 4 ELSE 3)
    [] pc[s] = "linger"  -> (IF op[s] = "pending" THEN 2 ELSE 1)
    [] pc[s] \in {"unborn", "done"} -> 0

\* What a step may do in a shutdown.
Approaches(s) == UNCHANGED <<pc[s], op[s]>> \/ SessionRank(s)' < SessionRank(s)

DrainsOnly ==
  Draining => /\ srvPc' = "done" \/ Draining'
              /\ forwarded' \in {forwarded, "terminal"}
              /\ \A s \in Session : Approaches(s)

\* What forwarding does to the operation of a session.
LEMMA ForwardAborts ==
  ASSUME TypeOK, NEW t \in Cancelled, NEW M, NEW p \in [Session -> SessionPc],
         Forward(t, M, p, op), NEW s \in Session
  PROVE  /\ op'[s] = op[s] \/ (op[s] = "pending" /\ op'[s] = "aborted")
         /\ s \in M /\ p[s] \in EchoPc /\ t \in {"partial", "terminal"} => op'[s] # "pending"
         /\ s \in M /\ t = "terminal" => op'[s] # "pending"
  BY DEF TypeOK, Forward, SessionFilter, OpFilter, Hears

\* The server keeps Told.
LEMMA ServerTold == ASSUME IInv, Told, ServerStep PROVE Told'
<1>t. TypeOK /\ MapIsLive /\ TerminalOnlyDraining
  BY DEF IInv
<1>1. CASE AcceptNext
  <2>1. /\ \A s \in Session : pc'[s] = pc[s] \/ (pc[s] = "unborn" /\ pc'[s] = "read")
        /\ op' = op /\ srvPc' = "accept"
    BY <1>1, <1>t, StoredEffect DEF AcceptNext, AwaitAccept
  <2> QED
    BY <2>1 DEF Told, Draining
<1>2. CASE AcceptTotal
  <2>1. /\ \A s \in Session : pc'[s] = pc[s] \/ (pc[s] = "unborn" /\ pc'[s] = "read")
        /\ Forward("total", sessions', pc', op) /\ srvPc' = "accept"
        /\ pc' \in [Session -> SessionPc]
    BY <1>2, <1>t, StoredEffect DEF AcceptTotal, AwaitAccept
  <2>2. \A s \in Session : op'[s] \in {op[s], "aborted"}
    BY <1>t, <2>1, ForwardAborts
  <2> QED
    BY <2>1, <2>2 DEF Told, Draining
<1>3. CASE AcceptBreak
  <2>1. /\ \A s \in Session : pc'[s] = pc[s] \/ (pc[s] = "unborn" /\ pc'[s] = "read")
        /\ \A s \in Session : s \in sessions' <=> pc'[s] \notin {"unborn", "done"}
        /\ Forward(srvCancelled, sessions', pc', op)
        /\ forwarded' = srvCancelled /\ srvCancelled \in Cancelled
        /\ pc' \in [Session -> SessionPc]
    BY <1>3, <1>t, StoredEffect DEF AcceptBreak, TypeOK
  <2>2. ASSUME NEW s \in Session
        PROVE  /\ op'[s] \in {op[s], "aborted"}
               /\ pc'[s] \in EchoPc /\ srvCancelled \in {"partial", "terminal"} => op'[s] # "pending"
               /\ pc'[s] \in EchoPc \cup {"goodbye"} /\ srvCancelled = "terminal" => op'[s] # "pending"
               /\ pc'[s] \in EchoPc => cancelled'[s] = srvCancelled
    BY <1>t, <2>1, ForwardAborts, ForwardEffect
  <2> QED
    BY <2>1, <2>2 DEF Told, Draining
<1>4. CASE ReceiveDone /\ srvCancelled = "none"
  BY <1>4 DEF ReceiveDone, Drain, AwaitReceive, Return, Told, Draining
<1>5. CASE ReceiveDone /\ srvCancelled # "none"
  <2>1. /\ srvCancelled = "terminal" /\ pc' = pc /\ forwarded' = "terminal"
        /\ Forward("terminal", sessions, pc, op) /\ pc \in [Session -> SessionPc]
        /\ sessions = Live
    BY <1>5, <1>t DEF ReceiveDone, TerminalOnlyDraining, TypeOK, MapIsLive
  <2>2. ASSUME NEW s \in Session
        PROVE  /\ op'[s] \in {op[s], "aborted"}
               /\ pc[s] \in EchoPc \cup {"goodbye"} => op'[s] # "pending"
               /\ pc[s] \in EchoPc => cancelled'[s] = "terminal"
    BY <1>t, <2>1, ForwardAborts, ForwardEffect DEF Live
  <2> QED
    BY <2>1, <2>2 DEF Told, Draining
<1> QED
  BY <1>1, <1>2, <1>3, <1>4, <1>5 DEF ServerStep

\* A session that has been told leaves echo() for good.
LEMMA LeavesEcho ==
  ASSUME IInv, Told, Draining, NEW s \in Session, pc[s] \in EchoPc
  PROVE  echoCancelled[s] /\ op[s] # "pending" /\ (forwarded = "terminal" => Rethrows(s))
  BY DEF IInv, NoSessionEscapes, Told, Draining, Rethrows

\* A session keeps Told, and comes closer to its end.
LEMMA SessionTold ==
  ASSUME IInv, Told, NEW x \in Session, SessionStep(x)
  PROVE  Told' /\ (Draining => \A s \in Session : Approaches(s))
<1>t. TypeOK
  BY DEF IInv
<1>0. /\ UNCHANGED <<srvPc, forwarded>>
      /\ \A s \in Session \ {x} : UNCHANGED <<pc[s], op[s], cancelled[s]>>
  BY <1>t DEF SessionStep, EchoContinues, EchoThrows, EchoStops, GoodbyeSent, GoodbyeFails,
     LingerEnds, Complete, Notify, TypeOK
<1>1. /\ pc'[x] = "goodbye" => op'[x] # "eof"
      /\ Draining => /\ pc'[x] \notin EchoPc
                     /\ SessionRank(x)' < SessionRank(x)
                     /\ pc'[x] = "goodbye" => forwarded = "partial" \/ op'[x] # "pending"
  <2>1. CASE EchoContinues(x)
    BY <2>1, <1>t, LeavesEcho DEF EchoContinues, TypeOK
  <2>2. CASE EchoThrows(x) \/ GoodbyeFails(x) \/ LingerEnds(x)
    BY <2>2, <1>t DEF EchoThrows, EchoEnded, GoodbyeFails, LingerEnds, Complete, SessionRank, TypeOK
  <2>3. CASE EchoStops(x)
    BY <2>3, <1>t, LeavesEcho DEF EchoStops, EchoEnded, Draining, SessionRank, TypeOK
  <2>4. CASE GoodbyeSent(x)
    BY <2>4, <1>t DEF GoodbyeSent, SessionRank, TypeOK
  <2> QED
    BY <2>1, <2>2, <2>3, <2>4 DEF SessionStep
<1>2. Told'
  BY <1>0, <1>1 DEF Told, Draining
<1>3. Draining => \A s \in Session : Approaches(s)
  BY <1>0, <1>1 DEF Approaches
<1> QED
  BY <1>2, <1>3

\* So do the outside and signal_handling().
LEMMA OutsideTold ==
  ASSUME IInv, Told, SignalStep \/ SignalStops \/ Environment \/ UNCHANGED vars
  PROVE  /\ UNCHANGED <<srvPc, forwarded>> /\ Told'
         /\ Draining => \A s \in Session : Approaches(s)
<1>t. TypeOK
  BY DEF IInv
<1>1. ASSUME NEW x \in Session, NEW r \in OpResult, OpCompletes(x, r)
      PROVE  /\ UNCHANGED <<srvPc, forwarded>> /\ Told'
             /\ Draining => \A s \in Session : Approaches(s)
  <2>1. /\ UNCHANGED <<srvPc, forwarded, pc, cancelled>> /\ op[x] = "pending" /\ op'[x] = r
        /\ \A s \in Session \ {x} : op'[s] = op[s]
    BY <1>1, <1>t DEF OpCompletes, TypeOK
  <2>2. pc[x] = "goodbye" => r # "eof"
    BY <1>1 DEF OpCompletes, Outcomes
  <2>3. pc[x] \in {"read", "write", "goodbye", "linger"}
    BY <1>1, <1>t DEF OpCompletes, Outcomes, TypeOK
  <2>4. Draining => SessionRank(x)' < SessionRank(x)
    BY <2>1, <2>3 DEF Told, SessionRank
  <2> QED
    BY <2>1, <2>2, <2>4 DEF Told, Draining, Approaches
<1>2. ASSUME SignalStep \/ SignalStops \/ UNCHANGED vars
             \/ (\E signum \in Signal : SignalRaised(signum))
             \/ (\E r \in {"ok", "error"} : AcceptCompletes(r))
      PROVE  UNCHANGED <<srvPc, forwarded, pc, op, cancelled>>
  BY <1>2 DEF SignalStep, EmitToServer, SignalStops, vars, SignalRaised, AcceptCompletes
<1> QED
  BY <1>1, <1>2 DEF Environment, Told, Draining, Approaches

\* The drain loop goes on or returns.
LEMMA ReceiveDrains ==
  ASSUME IInv, Told, Draining, ServerStep
  PROVE  /\ srvPc' = "done" \/ Draining'
         /\ forwarded' \in {forwarded, "terminal"}
         /\ \A s \in Session : Approaches(s)
<1>t. TypeOK
  BY DEF IInv
<1>1. ReceiveDone /\ pc' = pc /\ srvCancelled \in {"none", "terminal"}
  BY DEF Draining, ServerStep, AcceptNext, AcceptTotal, AcceptBreak, ReceiveDone, IInv,
     TerminalOnlyDraining
<1>2. srvPc' \in {"done", "receive"}
  BY <1>1 DEF ReceiveDone, Drain, Return, AwaitReceive
<1>3. forwarded' \in {forwarded, "terminal"}
  BY <1>1 DEF ReceiveDone
<1>4. \A s \in Session : /\ op'[s] = op[s] \/ (op[s] = "pending" /\ op'[s] = "aborted")
                         /\ s \notin Live => op'[s] = op[s]
  BY <1>1, <1>t, ForwardAborts, ForwardEffect DEF ReceiveDone, TypeOK, IInv, MapIsLive
<1>5. ASSUME NEW s \in Session PROVE Approaches(s)
  <2>1. CASE op'[s] = op[s]
    BY <1>1, <2>1 DEF Approaches
  <2>2. CASE op[s] = "pending" /\ op'[s] = "aborted" /\ pc[s] \in {"goodbye", "linger"}
    BY <1>1, <2>2 DEF Approaches, SessionRank
  <2>3. pc[s] \in EchoPc => op[s] # "pending"
    BY DEF Told
  <2>4. pc[s] \in SessionPc /\ (s \notin Live => pc[s] \in {"unborn", "done"})
    BY <1>t DEF TypeOK, Live
  <2>5. s \in Live => pc[s] \notin {"unborn", "done"}
    BY DEF Live
  <2> QED
    BY <1>4, <2>1, <2>2, <2>3, <2>4, <2>5
<1> QED
  BY <1>2, <1>3, <1>5 DEF Draining

\* Every step keeps Told.
LEMMA AlwaysTold == Spec => [](IInv /\ Told)
<1>1. Init => Told
  BY DEF Init, Told, Draining
<1>2. IInv /\ Told /\ [Next]_vars => Told'
  BY ServerTold, SessionTold, OutsideTold DEF Next, System
<1> QED
  BY <1>1, <1>2, InitIInv, Inductive, PTL DEF Spec

\* Once SIGINT or SIGTERM has been forwarded, the server has been woken or a session
\* is left that will wake it, and every session that is left can go on, or sleeps,
\* or writes its goodbye after SIGINT: no session waits for its client after SIGTERM,
\* and none echoes on, in whatever order the handlers run
\* (echo_coro_signal_advanced.cpp:146, 164).
THEOREM ShutdownNeverBlocked ==
  Spec => [](Draining => /\ srvOp # "pending" \/ Live # {}
                         /\ \A s \in Live : SessionReady(s) \/ Awaits(s))
<1>1. IInv /\ Told => (Draining => /\ srvOp # "pending" \/ Live # {}
                                   /\ \A s \in Live : SessionReady(s) \/ Awaits(s))
  <2> SUFFICES ASSUME IInv, Told, Draining
               PROVE  /\ srvOp # "pending" \/ Live # {}
                      /\ \A s \in Live : SessionReady(s) \/ Awaits(s)
    OBVIOUS
  <2>1. srvOp # "pending" \/ Live # {}
    BY DEF IInv, NoLostWakeup, Draining
  <2>2. ASSUME NEW s \in Session, s \in Live PROVE SessionReady(s) \/ Awaits(s)
    <3>t. pc[s] \in SessionPc \ {"unborn", "done"} /\ op[s] \in OpStatus
      BY <2>2 DEF IInv, TypeOK, Live
    <3>1. CASE pc[s] \in EchoPc
      BY <3>1, <3>t, LeavesEcho DEF SessionReady, EchoEnded
    <3>2. CASE pc[s] = "goodbye"
      BY <3>2, <3>t DEF SessionReady, Awaits, Told, Draining
    <3>3. CASE pc[s] = "linger"
      BY <3>3 DEF SessionReady, Awaits
    <3> QED
      BY <3>t, <3>1, <3>2, <3>3
  <2> QED
    BY <2>1, <2>2 DEF Live
<1> QED
  BY <1>1, AlwaysTold, PTL

\* ... and the server does not go back to accepting, forgets no terminal, and
\* nothing that happens to a session leads away from its end.  With
\* ShutdownNeverBlocked and SignalHeard this is TerminalEndsServer and
\* PartialEndsServer, up to what fairness means.
THEOREM ShutdownAdvances == Spec => [][DrainsOnly]_vars
<1>1. IInv /\ Told /\ [Next]_vars => [DrainsOnly]_vars
  <2> SUFFICES ASSUME IInv, Told, Next, Draining
               PROVE  /\ srvPc' = "done" \/ Draining'
                      /\ forwarded' \in {forwarded, "terminal"}
                      /\ \A s \in Session : Approaches(s)
    BY DEF DrainsOnly
  <2>1. CASE ServerStep
    BY <2>1, ReceiveDrains
  <2>2. ASSUME NEW x \in Session, SessionStep(x) PROVE UNCHANGED <<srvPc, forwarded>>
    BY <2>2 DEF SessionStep, EchoContinues, EchoThrows, EchoStops, GoodbyeSent, GoodbyeFails,
       LingerEnds, Complete, Notify
  <2> QED
    BY <2>1, <2>2, SessionTold, OutsideTold DEF Next, System, Draining
<1> QED
  BY <1>1, AlwaysTold, PTL DEF Spec

-----------------------------------------------------------------------------
(***************************************************************************)
(* The server on the queue of a single-threaded io_context.                *)
(***************************************************************************)
\* A thread or its socket is in the queue only once.
Once(q) == q \in Seq(Thread) /\ \A i, j \in 1 .. Len(q) : q[i] = q[j] => i = j

\* Who is ready is in the queue, and signal_handling() is there for no other
\* reason.
ReadyIsQueued ==
  /\ \A t \in Thread : Ready(t) => t \in Range(runq)
  /\ "signal" \in Range(runq) => Ready("signal")

\* signal_handling() does not overtake the server that it has cancelled.
NoOvertaking ==
  srvPc # "done" /\ srvCancelled # "none" => ~Precedes(runq, "signal", "server")

FifoIInv == IInv /\ Once(runq) /\ ReadyIsQueued /\ NoOvertaking

\* A set of threads put into a sequence.
LEMMA Sequenced ==
  ASSUME NEW T \in SUBSET Thread, NEW q \in SetToSeqs(T)
  PROVE  Once(q) /\ Range(q) = T
<1> DEFINE n == Cardinality(T)
<1>1. IsFiniteSet(Session \cup {"server"})
  BY EchoServerFifoAssumption, FS_AddElement
<1>2. Thread = (Session \cup {"server"}) \cup {"signal"}
  BY DEF Thread
<1>3. IsFiniteSet(Thread)
  BY <1>1, <1>2, FS_AddElement
<1>4. IsFiniteSet(T) /\ n \in Nat
  BY <1>3, FS_Subset, FS_CardinalityType
<1>5. Cardinality(1 .. n) = n
  BY <1>4, FS_Interval
<1>6. q \in [1 .. n -> T] /\ \A i, j \in 1 .. n : i # j => q[i] # q[j]
  BY DEF SetToSeqs
<1>7. q \in Injection(1 .. n, T)
  BY <1>6 DEF Injection, IsInjective
<1>8. q \in Surjection(1 .. n, T)
  BY <1>4, <1>5, <1>7, FS_Injection
<1>9. Range(q) = T
  BY <1>6, <1>8 DEF Surjection, Range
<1>10. q \in [1 .. n -> Thread]
  BY <1>6
<1>11. q \in Seq(Thread) /\ Len(q) = n
  BY <1>4, <1>10
<1> QED
  BY <1>6, <1>9, <1>11 DEF Once

\* The range of a queue, by its positions.
LEMMA InQueue ==
  ASSUME NEW q \in Seq(Thread)
  PROVE  Range(q) = {q[i] : i \in 1 .. Len(q)} /\ Range(q) \subseteq Thread
  BY DEF Range

\* What stays in a queue keeps its order.
LEMMA Stays ==
  ASSUME NEW q, Once(q), NEW T \in SUBSET Thread, NEW r \in Without(q, T)
  PROVE  /\ Once(r) /\ Range(r) = Range(q) \ T
         /\ \A i, j \in 1 .. Len(r) : i < j => Precedes(q, r[i], r[j])
<1>1. CASE Range(q) \cap T = {}
  <2>1. r = q /\ Range(r) = Range(q) \ T
    BY <1>1 DEF Without
  <2>2. \A i, j \in 1 .. Len(q) : i < j => Precedes(q, q[i], q[j])
    BY DEF Precedes
  <2> QED
    BY <2>1, <2>2
<1>2. CASE Range(q) \cap T # {}
  <2>1. Range(q) \ T \in SUBSET Thread
    BY InQueue DEF Once
  <2>2. /\ r \in SetToSeqs(Range(q) \ T)
        /\ \A i, j \in 1 .. Len(r) : i < j => Precedes(q, r[i], r[j])
    BY <1>2 DEF Without
  <2> QED
    BY <2>1, <2>2, Sequenced
<1> QED
  BY <1>1, <1>2

\* What a step posts is in the queue afterwards, behind everything that stays.
LEMMA Posted ==
  ASSUME NEW q, Once(q), Post(q)
  PROVE  /\ Once(runq)' /\ Range(runq') = Range(q) \cup Scheduled
         /\ \A t, u : Precedes(runq', t, u) => u \in Scheduled \/ Precedes(q, t, u)
<1>1. PICK stay \in Without(q, Scheduled), new \in SetToSeqs(Scheduled) : runq' = stay \o new
  BY DEF Post
<1>2. Scheduled \in SUBSET Thread
  BY DEF Scheduled
<1>3. /\ Once(stay) /\ Range(stay) = Range(q) \ Scheduled
      /\ \A i, j \in 1 .. Len(stay) : i < j => Precedes(q, stay[i], stay[j])
  BY <1>1, <1>2, Stays
<1>4. Once(new) /\ Range(new) = Scheduled
  BY <1>1, <1>2, Sequenced
<1>5. PICK m \in Nat : m = Len(stay)
  BY <1>3 DEF Once
<1>6. PICK k \in Nat : k = Len(new)
  BY <1>4 DEF Once
<1>7. /\ runq' \in Seq(Thread) /\ Len(runq') = m + k
      /\ \A i \in 1 .. m : runq'[i] = stay[i]
      /\ \A i \in m + 1 .. m + k : runq'[i] = new[i - m]
  BY <1>1, <1>3, <1>4, <1>5, <1>6, ConcatProperties DEF Once
<1>8. /\ \A i \in 1 .. m : runq'[i] \in Range(q) \ Scheduled
      /\ \A i \in m + 1 .. m + k : runq'[i] \in Scheduled
  <2>1. \A i \in 1 .. m : stay[i] \in Range(stay)
    BY <1>3, <1>5, InQueue DEF Once
  <2>2. \A i \in 1 .. k : new[i] \in Range(new)
    BY <1>4, <1>6, InQueue DEF Once
  <2>3. \A i \in m + 1 .. m + k : i - m \in 1 .. k
    BY <1>5, <1>6
  <2> QED
    BY <1>3, <1>4, <1>7, <2>1, <2>2, <2>3
<1>9. \A i, j \in 1 .. m + k : runq'[i] = runq'[j] => i = j
  <2> SUFFICES ASSUME NEW i \in 1 .. m + k, NEW j \in 1 .. m + k, runq'[i] = runq'[j]
               PROVE  i = j
    OBVIOUS
  <2>1. CASE i <= m /\ j <= m
    BY <2>1, <1>3, <1>5, <1>7 DEF Once
  <2>2. CASE i > m /\ j > m
    <3>1. i - m \in 1 .. k /\ j - m \in 1 .. k /\ new[i - m] = new[j - m]
      BY <2>2, <1>5, <1>6, <1>7
    <3>2. i - m = j - m
      BY <3>1, <1>4, <1>6 DEF Once
    <3> QED
      BY <3>2, <1>5
  <2> QED
    BY <2>1, <2>2, <1>5, <1>6, <1>8
<1>10. Range(runq') = Range(q) \cup Scheduled
  <2>1. Range(runq') = {runq'[i] : i \in 1 .. m + k}
    BY <1>7, InQueue
  <2>2. ASSUME NEW t \in Range(q) \ Scheduled PROVE \E i \in 1 .. m + k : runq'[i] = t
    BY <1>3, <1>5, <1>6, <1>7, InQueue DEF Once
  <2>3. ASSUME NEW t \in Scheduled PROVE \E i \in 1 .. m + k : runq'[i] = t
    <3>1. PICK i \in 1 .. k : new[i] = t
      BY <1>4, <1>6, InQueue DEF Once
    <3>2. m + i \in m + 1 .. m + k /\ (m + i) - m = i /\ m + i \in 1 .. m + k
      BY <1>5, <1>6
    <3> QED
      BY <1>7, <3>1, <3>2
  <2> QED
    BY <1>8, <2>1, <2>2, <2>3
<1>11. ASSUME NEW t, NEW u, Precedes(runq', t, u) PROVE u \in Scheduled \/ Precedes(q, t, u)
  <2>1. PICK i, j \in 1 .. m + k : i < j /\ runq'[i] = t /\ runq'[j] = u
    BY <1>7, <1>11 DEF Precedes
  <2>2. CASE j > m
    BY <1>8, <2>1, <2>2, <1>5, <1>6
  <2>3. CASE j <= m
    <3>1. i \in 1 .. m /\ j \in 1 .. m
      BY <2>1, <2>3, <1>5, <1>6
    <3> QED
      BY <1>3, <1>5, <1>7, <2>1, <3>1
  <2> QED
    BY <2>2, <2>3, <1>5, <1>6
<1> QED
  BY <1>7, <1>9, <1>10, <1>11 DEF Once

\* The first thread leaves the queue.
LEMMA TailQueue ==
  ASSUME NEW q, Once(q), q # <<>>
  PROVE  /\ Head(q) \in Thread /\ Head(q) \in Range(q)
         /\ Once(Tail(q)) /\ Range(Tail(q)) = Range(q) \ {Head(q)}
         /\ \A t, u : Precedes(Tail(q), t, u) => Precedes(q, t, u)
<1>1. PICK n \in Nat : Len(q) = n + 1
  <2>1. Len(q) \in Nat /\ Len(q) # 0
    BY DEF Once
  <2> QED
    BY <2>1
<1>2. /\ Tail(q) \in Seq(Thread) /\ Len(Tail(q)) = n
      /\ \A i \in 1 .. n : Tail(q)[i] = q[i + 1] /\ i + 1 \in 1 .. n + 1
      /\ Head(q) = q[1] /\ Head(q) \in Thread
  BY <1>1, HeadTailProperties DEF Once
<1>3. \A i, j \in 1 .. n + 1 : q[i] = q[j] => i = j
  BY <1>1 DEF Once
<1>4. /\ Range(q) = {q[i] : i \in 1 .. n + 1}
      /\ Range(Tail(q)) = {Tail(q)[i] : i \in 1 .. n}
  BY <1>1, <1>2, InQueue DEF Once
<1>5. Once(Tail(q))
  <2> SUFFICES ASSUME NEW i \in 1 .. n, NEW j \in 1 .. n, Tail(q)[i] = Tail(q)[j] PROVE i = j
    BY <1>2 DEF Once
  <2>1. i + 1 = j + 1
    BY <1>2, <1>3
  <2> QED
    BY <2>1
<1>6. Range(Tail(q)) = Range(q) \ {Head(q)}
  <2>1. ASSUME NEW i \in 1 .. n PROVE Tail(q)[i] \in Range(q) \ {q[1]}
    BY <1>2, <1>3, <1>4
  <2>2. ASSUME NEW i \in 1 .. n + 1, q[i] # q[1] PROVE q[i] \in Range(Tail(q))
    <3>1. i - 1 \in 1 .. n /\ (i - 1) + 1 = i
      BY <2>2
    <3> QED
      BY <1>2, <1>4, <3>1
  <2> QED
    BY <1>2, <1>4, <2>1, <2>2
<1>7. ASSUME NEW t, NEW u, Precedes(Tail(q), t, u) PROVE Precedes(q, t, u)
  <2>1. PICK i, j \in 1 .. n : i < j /\ Tail(q)[i] = t /\ Tail(q)[j] = u
    BY <1>2, <1>7 DEF Precedes
  <2>2. i + 1 \in 1 .. n + 1 /\ j + 1 \in 1 .. n + 1 /\ i + 1 < j + 1
    BY <2>1
  <2> QED
    BY <1>1, <1>2, <2>1, <2>2 DEF Precedes
<1> QED
  BY <1>2, <1>4, <1>5, <1>6, <1>7

\* A step that posts keeps the queue in order if it loses nobody who is ready.
LEMMA PostKeeps ==
  ASSUME NEW q, Once(q), Post(q),
         \A t \in Thread : Ready(t) /\ Ready(t)' => t \in Range(q),
         "signal" \in Range(q) => Ready("signal")',
         srvPc' # "done" /\ srvCancelled' # "none" =>
           \/ ~Ready("signal")'
           \/ "server" \notin Scheduled /\ ~Precedes(q, "signal", "server")
  PROVE  Once(runq)' /\ ReadyIsQueued' /\ NoOvertaking'
<1>1. /\ Once(runq)' /\ Range(runq') = Range(q) \cup Scheduled
      /\ \A t, u : Precedes(runq', t, u) => u \in Scheduled \/ Precedes(q, t, u)
  BY Posted
<1>2. ReadyIsQueued'
  BY <1>1 DEF ReadyIsQueued, Scheduled
<1>3. Precedes(runq', "signal", "server") => "signal" \in Range(runq')
  BY <1>1, InQueue DEF Precedes, Once
<1> QED
  BY <1>1, <1>2, <1>3 DEF NoOvertaking, ReadyIsQueued

\* A thread that has run waits for something new.
LEMMA RunsOnce ==
  ASSUME TypeOK, NEW t \in Thread, Step(t)
  PROVE  /\ ~Ready(t)'
         /\ t # "signal" /\ Ready("signal") => Ready("signal")'
         /\ t \in Session => UNCHANGED <<srvPc, srvCancelled>>
         /\ t = "server" => srvPc' = "done" \/ srvCancelled' = "none"
         /\ Next
<1>1. CASE t = "server"
  <2>1. t \notin Session /\ ServerStep
    BY <1>1, EchoServerFifoAssumption DEF Step
  <2>2. srvPc # "done" /\ sig' = sig
    BY <2>1 DEF ServerStep, AcceptNext, AcceptTotal, AcceptBreak, ReceiveDone
  <2>3. srvPc' = "done" \/ (srvOp' = "pending" /\ srvCancelled' = "none")
    BY <2>1 DEF ServerStep, AcceptNext, AcceptTotal, AcceptBreak, ReceiveDone, AwaitAccept,
       AwaitReceive, Drain, Return
  <2> QED
    BY <1>1, <2>1, <2>2, <2>3, EchoServerFifoAssumption DEF Ready, Live, Next, System
<1>2. CASE t = "signal"
  <2>1. t \notin Session /\ (SignalStep \/ SignalStops)
    BY <1>2, EchoServerFifoAssumption DEF Step
  <2>2. sig' = "done" \/ (sig' = "waiting" /\ srvPc' # "done")
    BY <2>1 DEF SignalStep, SignalStops, EmitToServer
  <2> QED
    BY <1>2, <2>1, <2>2 DEF Ready, Live, Next, System
<1>3. CASE t \in Session
  <2>1. t \notin {"server", "signal"} /\ SessionStep(t)
    BY <1>3, EchoServerFifoAssumption DEF Step
  <2>2. UNCHANGED <<srvPc, srvCancelled, sig>>
    BY <2>1 DEF SessionStep, EchoContinues, EchoThrows, EchoStops, GoodbyeSent, GoodbyeFails,
       LingerEnds, Complete, Notify
  <2>3. pc'[t] = "done" \/ op'[t] = "pending"
    BY <1>3, <2>1 DEF SessionStep, EchoContinues, EchoThrows, EchoStops, GoodbyeSent,
       GoodbyeFails, LingerEnds, Complete, TypeOK
  <2> QED
    BY <1>3, <2>1, <2>2, <2>3, EchoServerFifoAssumption DEF Ready, Live, Next, System
<1> QED
  BY <1>1, <1>2, <1>3 DEF Thread

\* A completion makes its own thread ready and no other.
LEMMA CompletesOne ==
  ASSUME TypeOK, NEW t \in Session \cup {"server"}, Completes(t)
  PROVE  /\ UNCHANGED <<srvPc, srvCancelled, sig>>
         /\ \A u \in Thread \ {t} : Ready(u)' => Ready(u)
         /\ Next
<1>1. CASE t = "server"
  <2>1. PICK r \in {"ok", "error"} : AcceptCompletes(r)
    BY <1>1 DEF Completes
  <2> QED
    BY <1>1, <2>1 DEF AcceptCompletes, Ready, Live, Next, Environment
<1>2. CASE t \in Session /\ t # "server"
  <2>1. PICK r \in OpResult : OpCompletes(t, r)
    BY <1>2 DEF Completes
  <2>2. UNCHANGED <<srvPc, srvOp, srvCancelled, sig, pc>> /\ op' = [op EXCEPT ![t] = r]
    BY <2>1 DEF OpCompletes
  <2>3. \A u \in Session \ {t} : op'[u] = op[u]
    BY <2>2 DEF TypeOK
  <2>4. Next
    BY <1>2, <2>1 DEF Next, Environment
  <2> QED
    BY <2>2, <2>3, <2>4 DEF Ready, Live
<1> QED
  BY <1>1, <1>2

\* A server that has been cancelled is ready, and nobody schedules it again.
LEMMA CancelledIsReady ==
  ASSUME IInv, srvPc # "done", srvCancelled # "none"
  PROVE  Ready("server") /\ "server" \notin Scheduled
  BY DEF IInv, NoStaleCancellation, Ready, Scheduled

\* Every step of the queue keeps its invariant and is a step of EchoServer.
LEMMA FifoInductive ==
  FifoIInv /\ [FifoNext]_fifoVars => FifoIInv' /\ [Next]_vars
<1> SUFFICES ASSUME FifoIInv, [FifoNext]_fifoVars
             PROVE  [Next]_vars /\ Once(runq)' /\ ReadyIsQueued' /\ NoOvertaking'
  BY Inductive DEF FifoIInv
<1>a. IInv /\ TypeOK /\ Once(runq) /\ ReadyIsQueued /\ NoOvertaking
  BY DEF FifoIInv, IInv
<1>b. ASSUME UNCHANGED <<srvPc, srvCancelled>>, Ready("signal") => Ready("signal")', Post(runq)
      PROVE  Once(runq)' /\ ReadyIsQueued' /\ NoOvertaking'
  BY <1>a, <1>b, PostKeeps, CancelledIsReady DEF ReadyIsQueued, NoOvertaking
<1>1. CASE Run
  <2>0. PICK t \in Thread : t = Head(runq)
    BY <1>1, <1>a, TailQueue DEF Run
  <2>1. /\ t \in Range(runq)
        /\ Once(Tail(runq)) /\ Range(Tail(runq)) = Range(runq) \ {t}
        /\ \A u, v : Precedes(Tail(runq), u, v) => Precedes(runq, u, v)
    BY <1>1, <1>a, <2>0, TailQueue DEF Run
  <2>2. Step(t) /\ Post(Tail(runq))
    BY <1>1, <2>0 DEF Run
  <2>3. /\ ~Ready(t)'
        /\ t # "signal" /\ Ready("signal") => Ready("signal")'
        /\ t \in Session => UNCHANGED <<srvPc, srvCancelled>>
        /\ t = "server" => srvPc' = "done" \/ srvCancelled' = "none"
        /\ Next
    BY <1>a, <2>1, <2>2, RunsOnce
  <2>4. ASSUME srvPc' # "done", srvCancelled' # "none", Ready("signal")'
        PROVE  "server" \notin Scheduled /\ ~Precedes(Tail(runq), "signal", "server")
    <3>1. t \in Session
      BY <2>3, <2>4 DEF Thread
    <3> QED
      BY <1>a, <2>1, <2>3, <2>4, <3>1, CancelledIsReady DEF NoOvertaking
  <2>5. \A u \in Thread : Ready(u) /\ Ready(u)' => u \in Range(Tail(runq))
    BY <1>a, <2>1, <2>3 DEF ReadyIsQueued
  <2>6. "signal" \in Range(Tail(runq)) => Ready("signal")'
    BY <1>a, <2>1, <2>3 DEF ReadyIsQueued
  <2> QED
    BY <2>1, <2>2, <2>3, <2>4, <2>5, <2>6, PostKeeps
<1>2. CASE Perform
  <2>1. PICK t \in Thread : t = Head(runq) /\ t \in Range(runq)
    BY <1>2, <1>a, TailQueue DEF Perform
  <2>2. t \in Session \cup {"server"}
    BY <1>2, <1>a, <2>1 DEF Perform, ReadyIsQueued, Thread
  <2>3. /\ UNCHANGED <<srvPc, srvCancelled, sig>> /\ Next
        /\ \A u \in Thread \ {t} : Ready(u)' => Ready(u)
    BY <1>2, <1>a, <2>1, <2>2, CompletesOne DEF Perform
  <2>4. runq' = runq
    BY <1>2 DEF Perform
  <2>5. ReadyIsQueued'
    <3>1. \A u \in Thread : Ready(u)' => u \in Range(runq)
      BY <1>a, <2>1, <2>3 DEF ReadyIsQueued
    <3>2. Ready("signal") => Ready("signal")'
      BY <2>3, EchoServerFifoAssumption DEF Ready, Live
    <3> QED
      BY <1>a, <2>4, <3>1, <3>2 DEF ReadyIsQueued
  <2> QED
    BY <1>a, <2>3, <2>4, <2>5 DEF Once, NoOvertaking, Precedes
<1>3. CASE RaiseSignal
  <2>1. PICK signum \in Signal : SignalRaised(signum) /\ Post(runq)
    BY <1>3 DEF RaiseSignal
  <2>2. UNCHANGED <<srvPc, srvCancelled>> /\ Ready("signal")' /\ Next
    BY <2>1 DEF SignalRaised, Ready, Next, Environment
  <2> QED
    BY <2>1, <2>2, <1>b
<1>4. ASSUME NEW t \in Session \cup {"server"}, SocketReady(t)
      PROVE  [Next]_vars /\ Once(runq)' /\ ReadyIsQueued' /\ NoOvertaking'
  <2>1. t \in Thread /\ t # "signal"
    BY EchoServerFifoAssumption DEF Thread
  <2>2. UNCHANGED vars /\ UNCHANGED <<srvPc, srvOp, srvCancelled, sig, pc, op>>
    BY <1>4 DEF SocketReady, vars
  <2>3. runq' = Append(runq, t) /\ \A i \in 1 .. Len(runq) : runq[i] # t
    BY <1>4 DEF SocketReady, Contains
  <2>4. PICK n \in Nat : n = Len(runq)
    BY <1>a DEF Once
  <2>5. /\ runq' \in Seq(Thread) /\ Len(runq') = n + 1 /\ runq'[n + 1] = t
        /\ \A i \in 1 .. n : runq'[i] = runq[i]
    BY <1>a, <2>1, <2>3, <2>4 DEF Once
  <2>6. Once(runq)'
    BY <1>a, <2>3, <2>4, <2>5 DEF Once
  <2>7. Range(runq') = Range(runq) \cup {t}
    BY <1>a, <2>4, <2>5, InQueue DEF Once
  <2>8. \A u : Ready(u)' <=> Ready(u)
    BY <2>2 DEF Ready, Live
  <2>9. ReadyIsQueued'
    BY <1>a, <2>1, <2>7, <2>8 DEF ReadyIsQueued
  <2>10. ASSUME srvPc # "done", srvCancelled # "none", Precedes(runq', "signal", "server")
         PROVE  FALSE
    <3>1. PICK i, j \in 1 .. n + 1 : i < j /\ runq'[i] = "signal" /\ runq'[j] = "server"
      BY <2>5, <2>10 DEF Precedes
    <3>2. t # "server"
      BY <1>4, <1>a, <2>10 DEF SocketReady, OnSocket, IInv, NoStaleCancellation
    <3>3. i \in 1 .. n /\ j \in 1 .. n
      BY <2>5, <3>1, <3>2
    <3> QED
      BY <1>a, <2>4, <2>5, <2>10, <3>1, <3>3 DEF NoOvertaking, Precedes
  <2> QED
    BY <2>2, <2>6, <2>9, <2>10 DEF NoOvertaking
<1>5. ASSUME NEW t \in Session \cup {"server"}, CompletesAtOnce(t)
      PROVE  [Next]_vars /\ Once(runq)' /\ ReadyIsQueued' /\ NoOvertaking'
  <2>1. UNCHANGED <<srvPc, srvCancelled, sig>> /\ Next
    BY <1>5, <1>a, CompletesOne DEF CompletesAtOnce
  <2>2. Ready("signal") => Ready("signal")'
    BY <2>1, EchoServerFifoAssumption DEF Ready, Live
  <2> QED
    BY <1>5, <2>1, <2>2, <1>b DEF CompletesAtOnce
<1>6. ASSUME NEW s \in Session, TimerExpires(s)
      PROVE  [Next]_vars /\ Once(runq)' /\ ReadyIsQueued' /\ NoOvertaking'
  <2>1. OpCompletes(s, "ok") /\ Post(runq)
    BY <1>6 DEF TimerExpires
  <2>2. UNCHANGED <<srvPc, srvCancelled, sig>> /\ Next
    BY <2>1 DEF OpCompletes, Next, Environment
  <2>3. Ready("signal") => Ready("signal")'
    BY <2>2, EchoServerFifoAssumption DEF Ready, Live
  <2> QED
    BY <2>1, <2>2, <2>3, <1>b
<1>7. CASE UNCHANGED fifoVars
  <2>1. UNCHANGED vars /\ runq' = runq
    BY <1>7 DEF fifoVars
  <2>2. UNCHANGED <<srvPc, srvOp, srvCancelled, sig, pc, op>>
    BY <2>1 DEF vars
  <2> QED
    BY <1>a, <2>1, <2>2 DEF Once, ReadyIsQueued, NoOvertaking, Precedes, Ready, Live
<1> QED
  BY <1>1, <1>2, <1>3, <1>4, <1>5, <1>6, <1>7 DEF FifoNext

\* The inductive invariant of the queue.
THEOREM FifoInvariant == FifoSpec => []FifoIInv
<1>1. FifoInit => FifoIInv
  <2> SUFFICES ASSUME FifoInit PROVE Once(runq) /\ ReadyIsQueued /\ NoOvertaking
    BY InitIInv DEF FifoInit, FifoIInv
  <2>1. Once(runq) /\ Range(runq) = {}
    BY DEF FifoInit, Once, Range
  <2>2. \A t : ~Ready(t)
    BY DEF FifoInit, Init, Ready, Live
  <2>3. NoOvertaking
    BY DEF FifoInit, Init, NoOvertaking
  <2> QED
    BY <2>1, <2>2, <2>3 DEF ReadyIsQueued
<1> QED
  BY <1>1, FifoInductive, PTL DEF FifoSpec

\* The order of the queue is one of the orders of EchoServer: all that is proved
\* of EchoServer holds on a single-threaded io_context (lib/program_options.cpp:59).
THEOREM FifoRefinement == FifoSpec => Spec
<1>1. FifoInit => Init
  BY DEF FifoInit
<1> QED
  BY <1>1, FifoInvariant, FifoInductive, PTL DEF FifoSpec, Spec

\* Also on a single-threaded io_context the server is a task scope.
THEOREM FifoScope == FifoSpec => ImplementsScope
  BY FifoRefinement, Refinement, PTL

\* When signal_handling() emits, the server has dealt with the cancellation before,
\* for any set of connections (echo_coro_signal_advanced.cpp:178).
THEOREM NotOverwritten == FifoSpec => []NoCancellationOverwritten
<1>1. ASSUME FifoIInv, runq # <<>>, Head(runq) = "signal", srvPc # "done", srvCancelled # "none"
      PROVE  FALSE
  <2>1. Ready("server") /\ Once(runq) /\ "server" \in Thread
    BY <1>1, CancelledIsReady DEF FifoIInv, Thread
  <2>2. PICK j \in 1 .. Len(runq) : runq[j] = "server"
    BY <1>1, <2>1, InQueue DEF FifoIInv, ReadyIsQueued, Once
  <2>3. 1 \in 1 .. Len(runq) /\ runq[1] = "signal" /\ 1 < j
    BY <1>1, <2>1, <2>2 DEF Once
  <2> QED
    BY <1>1, <2>2, <2>3 DEF FifoIInv, NoOvertaking, Precedes
<1>2. FifoIInv => NoCancellationOverwritten
  BY <1>1 DEF NoCancellationOverwritten
<1> QED
  BY <1>2, FifoInvariant, PTL

\* A cancellation that reaches the server stays until it acts on it.
HeardOrKept ==
  srvPc # "done" /\ srvCancelled \in {"partial", "terminal"} =>
    \/ UNCHANGED <<srvPc, srvCancelled>>
    \/ srvPc' \in {"receive", "done"} /\ forwarded' = srvCancelled

\* Every step of the queue keeps a cancellation or is the server acting on it.
LEMMA HeardStep == FifoIInv /\ NoCancellationOverwritten /\ [FifoNext]_fifoVars => HeardOrKept
<1> SUFFICES ASSUME FifoIInv, NoCancellationOverwritten, [FifoNext]_fifoVars,
                    srvPc # "done", srvCancelled \in {"partial", "terminal"}
             PROVE  \/ UNCHANGED <<srvPc, srvCancelled>>
                    \/ srvPc' \in {"receive", "done"} /\ forwarded' = srvCancelled
  BY DEF HeardOrKept
<1>t. TypeOK /\ Once(runq) /\ ReadyIsQueued
  BY DEF FifoIInv, IInv
<1>1. CASE Run
  <2>0. PICK t \in Thread : t = Head(runq)
    BY <1>1, <1>t, TailQueue DEF Run
  <2>1. Step(t) /\ t # "signal"
    BY <1>1, <2>0 DEF Run, NoCancellationOverwritten
  <2>2. CASE t \in Session
    BY <1>t, <2>1, <2>2, RunsOnce
  <2>3. CASE t = "server"
    <3>1. ServerStep
      BY <2>1, <2>3, EchoServerFifoAssumption DEF Step
    <3> QED
      BY <3>1 DEF ServerStep, AcceptNext, AcceptTotal, AcceptBreak, ReceiveDone, Drain, Return,
         AwaitReceive
  <2> QED
    BY <2>1, <2>2, <2>3 DEF Thread
<1>2. CASE Perform
  <2>1. PICK t \in Thread : t = Head(runq) /\ t \in Range(runq)
    BY <1>2, <1>t, TailQueue DEF Perform
  <2>2. t \in Session \cup {"server"}
    BY <1>2, <1>t, <2>1 DEF Perform, ReadyIsQueued, Thread
  <2> QED
    BY <1>2, <1>t, <2>1, <2>2, CompletesOne DEF Perform
<1>3. CASE RaiseSignal
  BY <1>3 DEF RaiseSignal, SignalRaised
<1>4. ASSUME NEW t \in Session \cup {"server"}, SocketReady(t) \/ CompletesAtOnce(t)
      PROVE  UNCHANGED <<srvPc, srvCancelled>>
  BY <1>4, <1>t, CompletesOne DEF SocketReady, CompletesAtOnce, vars
<1>5. ASSUME NEW s \in Session, TimerExpires(s) PROVE UNCHANGED <<srvPc, srvCancelled>>
  BY <1>5 DEF TimerExpires, OpCompletes
<1>6. CASE UNCHANGED fifoVars
  BY <1>6 DEF fifoVars, vars
<1> QED
  BY <1>1, <1>2, <1>3, <1>4, <1>5, <1>6 DEF FifoNext

\* SIGINT and SIGTERM are heard: a server that they have cancelled is in the queue,
\* and keeps what it has been told until it is resumed, leaves the accept loop and
\* forwards exactly that (echo_coro_signal_advanced.cpp:146, 189).
THEOREM SignalHeard ==
  FifoSpec => /\ [](srvPc # "done" /\ srvCancelled # "none" => "server" \in Range(runq))
              /\ [][HeardOrKept]_fifoVars
<1>1. FifoIInv => (srvPc # "done" /\ srvCancelled # "none" => "server" \in Range(runq))
  BY CancelledIsReady DEF FifoIInv, ReadyIsQueued, Thread
<1>2. FifoIInv /\ NoCancellationOverwritten /\ [FifoNext]_fifoVars => [HeardOrKept]_fifoVars
  BY HeardStep
<1> QED
  BY <1>1, <1>2, FifoInvariant, NotOverwritten, PTL DEF FifoSpec
=============================================================================
