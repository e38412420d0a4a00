------------------------ MODULE HappyEyeballsProofs ------------------------
(***************************************************************************)
(* Proofs about HappyEyeballs, for any number of addresses.                *)
(***************************************************************************)
EXTENDS HappyEyeballs, TLAPS

\* Before anything is resolved both attempts are where they start, and IPv6
\* never waits for the timer.
Started ==
  /\ pc["v6"] # "waiting"
  /\ phase = "resolving" => pc["v6"] = "connecting" /\ pc["v4"] = "waiting"

\* The wait of IPv4: it lasts as long as the timer runs and IPv6 has not ended,
\* and there is a reason why it is over.
Waiting ==
  pc["v4"] = "waiting" =>
    IF op["v4"] = "pending" THEN timer = "running" /\ ~Ended("v6")
    ELSE timer = "expired" \/ Ended("v6") \/ cancelled["v4"]

\* A success cancels the other attempt, and apart from it only the deadline does.
Cancels ==
  \A f \in Family :
    /\ pc[f] = "won" /\ ~Ended(Other(f)) => cancelled[Other(f)]
    /\ cancelled[f] => deadline = "fired" \/ pc[Other(f)] = "won"

\* The reason why an attempt to connect is over.
Reason(f) == left[f] = 0 \/ op[f] = "reset" \/ deadline = "fired" \/ pc[Other(f)] = "won"

Reasons ==
  \A f \in Family :
    /\ phase = "running" /\ pc[f] = "connecting" /\ op[f] = "pending" => left[f] > 0
    /\ pc[f] = "connecting" /\ op[f] \in {"error", "aborted"} => Reason(f)
    /\ pc[f] = "lost" => Reason(f)

IInv == FailureIsReal /\ FallbackIsImmediate /\ Started /\ Waiting /\ Cancels /\ Reasons

USE DEF Family, Other, Ended

\* The initial state satisfies the inductive invariant.
LEMMA InitIInv == Init => IInv
  BY MaxEndpointsAssumption
  DEF Init, IInv, FailureIsReal, TypeOK, FallbackIsImmediate, Started, Waiting, Cancels,
      Reasons, Reason

\* An attempt ends, with a success or for a reason.
LEMMA EndStep ==
  ASSUME IInv, phase = "running", NEW f \in Family, NEW result \in {"won", "lost"},
         ~Ended(f), op[f] # "pending", result = "lost" => Reason(f),
         End(f, result), UNCHANGED <<left, deadline>>
  PROVE  IInv'
<1>1. TypeOK'
  BY MaxEndpointsAssumption DEF End, Join, CancelsTimer, IInv, FailureIsReal, TypeOK
<1>2. CASE f = "v6"
  <2>1. FallbackIsImmediate' /\ Started' /\ Waiting'
    BY <1>2 DEF End, Join, CancelsTimer, IInv, FailureIsReal, TypeOK, FallbackIsImmediate,
       Started, Waiting
  <2>2. Cancels'
    BY <1>2 DEF End, Join, CancelsTimer, IInv, FailureIsReal, TypeOK, Cancels
  <2>3. Reasons'
    BY <1>2 DEF End, Join, CancelsTimer, IInv, FailureIsReal, TypeOK, Reasons, Reason, Cancels
  <2>4. FailureIsReal'
    BY <1>1, <1>2 DEF End, Join, CancelsTimer, IInv, FailureIsReal, TypeOK, Reasons, Reason
  <2> QED
    BY <2>1, <2>2, <2>3, <2>4 DEF IInv
<1>3. CASE f = "v4"
  <2>1. FallbackIsImmediate' /\ Started' /\ Waiting'
    BY <1>3 DEF End, Join, CancelsTimer, IInv, FailureIsReal, TypeOK, FallbackIsImmediate,
       Started, Waiting
  <2>2. Cancels'
    BY <1>3 DEF End, Join, CancelsTimer, IInv, FailureIsReal, TypeOK, Cancels
  <2>3. Reasons'
    BY <1>3 DEF End, Join, CancelsTimer, IInv, FailureIsReal, TypeOK, Reasons, Reason, Cancels
  <2>4. FailureIsReal'
    BY <1>1, <1>3 DEF End, Join, CancelsTimer, IInv, FailureIsReal, TypeOK, Reasons, Reason
  <2> QED
    BY <2>1, <2>2, <2>3, <2>4 DEF IInv
<1> QED
  BY <1>2, <1>3

\* Every step keeps the invariant.
LEMMA Inductive == IInv /\ [Next]_vars => IInv'
<1> SUFFICES ASSUME IInv, [Next]_vars PROVE IInv'
  OBVIOUS
<1> USE DEF IInv, FailureIsReal, TypeOK, FallbackIsImmediate, Started, Waiting, Cancels,
            Reasons, Reason
<1>1. CASE Resolved
  BY <1>1 DEF Resolved, ConnectStarts
<1>2. CASE ResolveFails
  BY <1>2 DEF ResolveFails
<1>3. ASSUME NEW f \in Family, ConnectEnds(f) PROVE IInv'
  BY <1>3, EndStep DEF ConnectEnds
<1>4. CASE IPv4Starts
  BY <1>4 DEF IPv4Starts, ConnectStarts
<1>5. CASE IPv4Stops
  BY <1>5, EndStep DEF IPv4Stops
<1>6. CASE DeadlineFires
  <2>1. /\ deadline' = "fired"
        /\ UNCHANGED <<phase, pc, left, timer, first, winner>>
    BY <1>6 DEF DeadlineFires
  <2>2. /\ cancelled' \in [Family -> BOOLEAN]
        /\ op' \in [Family -> {"pending", "ok", "reset", "error", "aborted"}]
        /\ \A f \in Family : cancelled[f] => cancelled'[f]
        /\ \A f \in Family : op'[f] # op[f] => phase = "running" /\ cancelled'[f]
        /\ \A f \in Family : op'[f] = "pending" => op[f] = "pending"
    <3>1. CASE phase = "running"
      <4>1. /\ cancelled' = [f \in Family |-> cancelled[f] \/ ~Ended(f)]
            /\ op' = [f \in Family |->
                        IF ~Ended(f) /\ op[f] = "pending" THEN "aborted" ELSE op[f]]
        BY <1>6, <3>1 DEF DeadlineFires
      <4>2. \A f \in Family : cancelled'[f] = (cancelled[f] \/ ~Ended(f))
        BY <4>1, Zenon
      <4>3. cancelled' \in [Family -> BOOLEAN]
        BY <4>1, Zenon
      <4> QED
        BY <3>1, <4>1, <4>2, <4>3
    <3>2. CASE phase # "running"
      BY <1>6, <3>2 DEF DeadlineFires
    <3> QED
      BY <3>1, <3>2
  <2>3. TypeOK' /\ Started' /\ Cancels' /\ Reasons'
    BY <2>1, <2>2
  <2>4. FallbackIsImmediate' /\ Waiting'
    BY <2>1, <2>2
  <2> QED
    BY <2>1, <2>3, <2>4
<1>7. CASE TimerExpires
  BY <1>7 DEF TimerExpires
<1>8. ASSUME NEW f \in Family, ConnectSucceeds(f) \/ PeerResets(f) PROVE IInv'
  BY <1>8 DEF ConnectSucceeds, PeerResets, Connecting
<1>9. ASSUME NEW f \in Family, EndpointFails(f) PROVE IInv'
  <2>1. left[f] > 0 /\ left[f] \in 0 .. MaxEndpoints /\ left' \in [Family -> 0 .. MaxEndpoints]
    BY <1>9, MaxEndpointsAssumption DEF EndpointFails, Connecting
  <2> QED
    BY <1>9, <2>1, MaxEndpointsAssumption DEF EndpointFails, Connecting
<1>10. CASE UNCHANGED vars
  BY <1>10 DEF vars
<1> QED
  BY <1>1, <1>2, <1>3, <1>4, <1>5, <1>6, <1>7, <1>8, <1>9, <1>10 DEF Next

\* The inductive invariant of the two attempts and their timer.
THEOREM Invariant == Spec => []IInv
  BY InitIInv, Inductive, PTL DEF Spec

\* If happy_eyeballs() fails before the deadline, all addresses of both families
\* have failed or the peer has reset the connection, for any number of addresses.
THEOREM RealFailure == Spec => []FailureIsReal
  BY Invariant, PTL DEF IInv

\* Once IPv6 has failed, IPv4 does not wait for the rest of the 200 ms
\* (happy_eyeballs.cpp, the cancellation of the shared timer).
THEOREM ImmediateFallback == Spec => []FallbackIsImmediate
  BY Invariant, PTL DEF IInv

-----------------------------------------------------------------------------
\* What PrefersIPv6 says of one step.
PrefersStep ==
  pc["v4"] = "waiting" /\ pc'["v4"] = "connecting" =>
    pc["v6"] = "lost" \/ (timer = "expired" /\ pc["v6"] # "won")

\* Only IPv4Starts lets IPv4 connect, and an attempt that IPv6 has beaten has
\* been cancelled.
LEMMA PreferenceStep == IInv /\ [Next]_vars => PrefersStep
<1> SUFFICES ASSUME IInv, [Next]_vars, pc["v4"] = "waiting", pc'["v4"] = "connecting"
             PROVE  pc["v6"] = "lost" \/ (timer = "expired" /\ pc["v6"] # "won")
  BY DEF PrefersStep
<1>1. IPv4Starts
  BY DEF Next, vars, Resolved, ResolveFails, ConnectEnds, IPv4Stops, DeadlineFires, End,
     TimerExpires, ConnectSucceeds, EndpointFails, PeerResets, IInv, FailureIsReal, TypeOK
<1> QED
  BY <1>1 DEF IPv4Starts, IInv, FailureIsReal, TypeOK, Waiting, Cancels

\* IPv4 begins to connect only when the time is over or IPv6 has failed, and
\* never when IPv6 has won.
THEOREM Preference == Spec => PrefersIPv6
<1>1. IInv /\ [Next]_vars => [PrefersStep]_vars
  BY PreferenceStep
<1> QED
  BY <1>1, Invariant, PTL DEF Spec, PrefersIPv6, PrefersStep

-----------------------------------------------------------------------------
(***************************************************************************)
(* The result, and termination: nobody waits for ever, and nobody goes on  *)
(* for ever.                                                               *)
(***************************************************************************)
\* operator|| runs as long as an attempt does, and knows which one ended first.
\* A success is kept: the result is a connection, and it is that of a winner.
\* After the deadline nobody waits.
Joined ==
  /\ phase = "resolving" => first = "none"
  /\ phase = "running" => \E f \in Family : ~Ended(f)
  /\ phase = "connected" => winner \in Family /\ pc[winner] = "won"
  /\ phase = "failed" => \A f \in Family : pc[f] # "won"
  /\ first = "none" <=> \A f \in Family : ~Ended(f)
  /\ first # "none" => Ended(first)
  /\ phase = "running" /\ deadline = "fired" =>
       \A f \in Family : ~Ended(f) => cancelled[f] /\ op[f] # "pending"

\* Somebody whom the specification is fair to can go on: the deadline, the failure
\* of the resolver, or an attempt whose operation has completed.
Ready ==
  \/ phase \in {"resolving", "running"} /\ deadline = "running"
  \/ phase = "resolving" /\ (deadline = "fired" \/ \A f \in Family : left[f] = 0)
  \/ phase = "running" /\ \E f \in Family : ~Ended(f) /\ op[f] # "pending"

\* What is left to do: addresses to try, operations that have not ended, attempts
\* and phases to come.
OpRank(f) == IF op[f] = "pending" THEN 2 ELSE IF op[f] = "ok" THEN 1 ELSE 0
PcRank(f) == IF pc[f] = "waiting" THEN 6 ELSE IF pc[f] = "connecting" THEN 3 ELSE 0
PhaseRank == IF phase = "resolving" THEN 4 ELSE IF phase = "running" THEN 1 ELSE 0

Remaining == left["v6"] + left["v4"] + OpRank("v6") + OpRank("v4") + PcRank("v6") + PcRank("v4")
             + PhaseRank + IF deadline = "running" THEN 1 ELSE 0

\* The deadline reaches every attempt that runs.
LEMMA DeadlineReaches ==
  ASSUME TypeOK, DeadlineFires
  PROVE  /\ deadline = "running" /\ deadline' = "fired"
         /\ UNCHANGED <<phase, pc, left, timer, first, winner>>
         /\ \A f \in Family : op'[f] = op[f] \/ (op[f] = "pending" /\ op'[f] = "aborted")
         /\ phase = "running" => \A f \in Family : ~Ended(f) => cancelled'[f] /\ op'[f] # "pending"
<1>1. CASE phase = "running"
  <2>1. /\ cancelled' = [f \in Family |-> cancelled[f] \/ ~Ended(f)]
        /\ op' = [f \in Family |->
                    IF ~Ended(f) /\ op[f] = "pending" THEN "aborted" ELSE op[f]]
    BY <1>1 DEF DeadlineFires
  <2>2. \A f \in Family : cancelled'[f] = (cancelled[f] \/ ~Ended(f))
    BY <2>1, Zenon
  <2>3. \A f \in Family : op'[f] = IF ~Ended(f) /\ op[f] = "pending" THEN "aborted" ELSE op[f]
    BY <2>1, Zenon
  <2> QED
    BY <1>1, <2>2, <2>3 DEF DeadlineFires
<1>2. CASE phase # "running"
  BY <1>2 DEF DeadlineFires
<1> QED
  BY <1>1, <1>2

\* An attempt ends, and the last one to end decides about the result.
LEMMA EndJoins ==
  ASSUME IInv, Joined, phase = "running", NEW f \in Family, NEW result \in {"won", "lost"},
         ~Ended(f), End(f, result), UNCHANGED <<left, deadline>>
  PROVE  Joined'
<1> USE DEF IInv, FailureIsReal, TypeOK, Joined, End, Join, CancelsTimer
<1>1. CASE f = "v6"
  BY <1>1
<1>2. CASE f = "v4"
  BY <1>2
<1> QED
  BY <1>1, <1>2

\* Every step keeps Joined.
LEMMA JoinedInductive == IInv /\ Joined /\ [Next]_vars => Joined'
<1> SUFFICES ASSUME IInv, Joined, [Next]_vars PROVE Joined'
  OBVIOUS
<1>t. TypeOK /\ Started
  BY DEF IInv, FailureIsReal
<1>1. CASE Resolved \/ ResolveFails
  BY <1>1, <1>t DEF Resolved, ResolveFails, Joined, Started, TypeOK
<1>2. ASSUME NEW f \in Family, ConnectEnds(f) PROVE Joined'
  BY <1>2, EndJoins DEF ConnectEnds
<1>3. CASE IPv4Stops
  BY <1>3, EndJoins DEF IPv4Stops
<1>4. CASE IPv4Starts
  BY <1>4, <1>t DEF IPv4Starts, Joined, TypeOK
<1>5. CASE DeadlineFires
  BY <1>5, <1>t, DeadlineReaches DEF Joined
<1>6. CASE TimerExpires
  BY <1>6, <1>t DEF TimerExpires, Joined, TypeOK
<1>7. ASSUME NEW f \in Family, ConnectSucceeds(f) \/ EndpointFails(f) \/ PeerResets(f)
      PROVE  Joined'
  BY <1>7, <1>t DEF ConnectSucceeds, EndpointFails, PeerResets, Connecting, Joined, TypeOK
<1>8. CASE UNCHANGED vars
  BY <1>8 DEF vars, Joined
<1> QED
  BY <1>1, <1>2, <1>3, <1>4, <1>5, <1>6, <1>7, <1>8 DEF Next

\* The invariants of what follows.
LEMMA AlwaysJoined == Spec => [](IInv /\ Joined)
<1>1. Init => Joined
  BY DEF Init, Joined
<1> QED
  BY <1>1, InitIInv, Inductive, JoinedInductive, PTL DEF Spec

\* What is left to do is a number.
LEMMA RemainingType == TypeOK => Remaining \in Nat
<1> SUFFICES ASSUME TypeOK PROVE Remaining \in Nat
  OBVIOUS
<1>1. left["v6"] \in Nat /\ left["v4"] \in Nat
  BY MaxEndpointsAssumption DEF TypeOK
<1> QED
  BY <1>1 DEF Remaining, OpRank, PcRank, PhaseRank

\* Every step leaves less to do.
LEMMA Decreases == IInv /\ Next => Remaining' < Remaining
<1> SUFFICES ASSUME IInv, Next PROVE Remaining' < Remaining
  OBVIOUS
<1>t. TypeOK /\ Started /\ left["v6"] \in Nat /\ left["v4"] \in Nat
  BY MaxEndpointsAssumption DEF IInv, FailureIsReal, TypeOK
<1> USE DEF Remaining, OpRank, PcRank, PhaseRank
<1>1. CASE Resolved \/ ResolveFails
  BY <1>1, <1>t DEF Resolved, ResolveFails, ConnectStarts, Started, TypeOK
<1>2. ASSUME NEW f \in Family, NEW result \in {"won", "lost"}, phase = "running", ~Ended(f),
             End(f, result), UNCHANGED <<left, deadline>>
      PROVE  Remaining' < Remaining
  <2>1. CASE f = "v6"
    BY <1>2, <1>t, <2>1 DEF End, Join, CancelsTimer, TypeOK
  <2>2. CASE f = "v4"
    BY <1>2, <1>t, <2>2 DEF End, Join, CancelsTimer, TypeOK
  <2> QED
    BY <2>1, <2>2
<1>3. CASE (\E f \in Family : ConnectEnds(f)) \/ IPv4Stops
  BY <1>2, <1>3 DEF ConnectEnds, IPv4Stops
<1>4. CASE IPv4Starts
  BY <1>4, <1>t DEF IPv4Starts, ConnectStarts, TypeOK
<1>5. CASE DeadlineFires
  BY <1>5, <1>t, DeadlineReaches
<1>6. CASE TimerExpires
  BY <1>6, <1>t DEF TimerExpires, TypeOK
<1>7. ASSUME NEW f \in Family, ConnectSucceeds(f) \/ PeerResets(f) PROVE Remaining' < Remaining
  BY <1>7, <1>t DEF ConnectSucceeds, PeerResets, Connecting, TypeOK
<1>8. ASSUME NEW f \in Family, EndpointFails(f) PROVE Remaining' < Remaining
  BY <1>8, <1>t DEF EndpointFails, Connecting, TypeOK
<1> QED
  BY <1>1, <1>3, <1>4, <1>5, <1>6, <1>7, <1>8 DEF Next

\* A success is never lost: if an attempt has won, the program does not fail, even
\* if the deadline passes while the other attempt ends, and the socket that it
\* returns is that of an attempt that has won (happy_eyeballs.cpp:102).
THEOREM KeptSuccess ==
  Spec => []((\E f \in Family : pc[f] = "won") \/ phase = "connected" =>
               /\ phase # "failed"
               /\ phase = "connected" => winner \in Family /\ pc[winner] = "won")
<1>1. Joined => ((\E f \in Family : pc[f] = "won") \/ phase = "connected" =>
                   /\ phase # "failed"
                   /\ phase = "connected" => winner \in Family /\ pc[winner] = "won")
  BY DEF Joined
<1> QED
  BY <1>1, AlwaysJoined, PTL

\* Nobody blocks: until there is a result, the deadline can pass or somebody who has
\* been told to end can end.
THEOREM NeverBlocked == Spec => [](phase \in {"connected", "failed"} \/ Ready)
<1>1. IInv /\ Joined => phase \in {"connected", "failed"} \/ Ready
  BY DEF IInv, FailureIsReal, TypeOK, Joined, Ready
<1> QED
  BY <1>1, AlwaysJoined, PTL

\* Nobody goes on for ever: every step leaves less to do.  With NeverBlocked this is
\* Ends, and with KeptSuccess SuccessIsKept, up to what fairness means.
THEOREM Terminating == Spec => [](Remaining \in Nat) /\ [][Remaining' < Remaining]_vars
<1>1. IInv => Remaining \in Nat
  BY RemainingType DEF IInv, FailureIsReal
<1>2. IInv /\ [Next]_vars => [Remaining' < Remaining]_vars
  BY Decreases
<1> QED
  BY <1>1, <1>2, Invariant, PTL DEF Spec
=============================================================================
