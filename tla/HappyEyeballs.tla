--------------------------- MODULE HappyEyeballs ----------------------------
(***************************************************************************)
(* net/happy_eyeballs.cpp: connect to a host with IPv6, and with IPv4 when *)
(* IPv6 has failed or has not succeeded within 200 ms.  The two attempts   *)
(* are coroutine threads joined by operator||, which waits for the first   *)
(* one to SUCCEED, cancels the other one and waits for it to end.  They    *)
(* share a timer that the IPv4 attempt waits for and that the IPv6 attempt *)
(* cancels when it ends.  The program as a whole runs under a deadline,    *)
(* cancel_after(1s).                                                       *)
(***************************************************************************)
EXTENDS Naturals

CONSTANT MaxEndpoints   \* Bound: how many addresses of a family are resolved.

ASSUME MaxEndpointsAssumption == MaxEndpoints \in Nat

Family == {"v6", "v4"}
Other(f) == IF f = "v6" THEN "v4" ELSE "v6"

VARIABLES
  phase,      \* happy_eyeballs(): "resolving", "running", "connected", "failed"
  pc,         \* an attempt: "waiting" for the timer, "connecting", "won", "lost"
  op,         \* status of what the attempt awaits
  left,       \* how many addresses of the family have not failed yet
  cancelled,  \* whether the thread of the attempt has been cancelled
  timer,      \* "running", "expired" or "cancelled"
  first,      \* the attempt that ended first, order[0], or "none"
  winner,     \* the attempt whose socket is returned, or "none"
  deadline    \* "running" or "fired"

vars == <<phase, pc, op, left, cancelled, timer, first, winner, deadline>>

TypeOK ==
  /\ phase \in {"resolving", "running", "connected", "failed"}
  /\ pc \in [Family -> {"waiting", "connecting", "won", "lost"}]
  /\ op \in [Family -> {"pending", "ok", "reset", "error", "aborted"}]
  /\ left \in [Family -> 0 .. MaxEndpoints]
  /\ cancelled \in [Family -> BOOLEAN]
  /\ timer \in {"running", "expired", "cancelled"}
  /\ first \in Family \cup {"none"} /\ winner \in Family \cup {"none"}
  /\ deadline \in {"running", "fired"}

\* test_happy_eyeballs() is suspended in async_resolve.  filter() leaves each
\* attempt the addresses of its family.
Init ==
  /\ phase = "resolving"
  /\ pc = [f \in Family |-> IF f = "v6" THEN "connecting" ELSE "waiting"]
  /\ op = [f \in Family |-> "pending"]
  /\ left \in [Family -> 0 .. MaxEndpoints]
  /\ cancelled = [f \in Family |-> FALSE]
  /\ timer = "running"
  /\ first = "none" /\ winner = "none"
  /\ deadline = "running"

Ended(f) == pc[f] \in {"won", "lost"}

\* async_connect() fails at once with an empty list of addresses.
ConnectStarts(f) == IF left[f] = 0 THEN "error" ELSE "pending"

-----------------------------------------------------------------------------
\* The resolver has found something and the deadline is not over: both
\* attempts start, IPv6 with its connection and IPv4 with the timer.
Resolved ==
  /\ phase = "resolving" /\ deadline = "running"
  /\ \E f \in Family : left[f] > 0
  /\ phase' = "running"
  /\ op' = [op EXCEPT !["v6"] = ConnectStarts("v6")]
  /\ UNCHANGED <<pc, left, cancelled, timer, first, winner, deadline>>

\* The name is unknown; or the deadline has passed, which does not interrupt the
\* resolver: when that returns, whatever it has found, the cancelled coroutine throws.
ResolveFails ==
  /\ phase = "resolving"
  /\ deadline = "fired" \/ \A f \in Family : left[f] = 0
  /\ phase' = "failed"
  /\ UNCHANGED <<pc, op, left, cancelled, timer, first, winner, deadline>>

(***************************************************************************)
(* An attempt ends.  If it is the first success the other one is cancelled;*)
(* the end of the IPv6 attempt cancels the timer in any case.  When both   *)
(* have ended operator|| returns the socket of the first one, or if that   *)
(* has failed of the other one, or it throws.                              *)
(***************************************************************************)
\* Mutant: the end of the IPv6 attempt leaves the timer alone.
CancelsNoTimer(f) == FALSE

CancelsTimer(f) == f = "v6" /\ timer = "running"

\* Mutant: only the attempt that ended first is looked at.
JoinFirst(f, result) ==
  LET order0 == IF first = "none" THEN f ELSE first
      win    == IF pc[order0] = "won" \/ (order0 = f /\ result = "won")
                THEN order0 ELSE "none"
  IN  /\ first' = order0
      /\ IF Ended(Other(f))
         THEN winner' = win /\ phase' = IF win = "none" THEN "failed" ELSE "connected"
         ELSE UNCHANGED <<winner, phase>>

Join(f, result) ==
  LET order0 == IF first = "none" THEN f ELSE first
      won(g) == IF g = f THEN result = "won" ELSE pc[g] = "won"
      win    == IF won(order0) THEN order0
                ELSE IF won(Other(order0)) THEN Other(order0) ELSE "none"
  IN  /\ first' = order0
      /\ IF Ended(Other(f))
         THEN winner' = win /\ phase' = IF win = "none" THEN "failed" ELSE "connected"
         ELSE UNCHANGED <<winner, phase>>

\* Mutant: wait_for_one(), the first attempt to end cancels the other one.
EndForOne(f, result) ==
  LET g == Other(f)
  IN  /\ pc' = [pc EXCEPT ![f] = result]
      /\ timer' = IF CancelsTimer(f) THEN "cancelled" ELSE timer
      /\ cancelled' = [cancelled EXCEPT ![g] = @ \/ ~Ended(g)]
      /\ op' = [op EXCEPT ![g] = IF ~Ended(g) /\ @ = "pending" THEN "aborted" ELSE @]
      /\ Join(f, result)

\* Mutant: wait_for_all(), nobody is cancelled, only the timer.
EndForAll(f, result) ==
  LET g == Other(f)
      aborts == CancelsTimer(f) /\ pc[g] = "waiting" /\ op[g] = "pending"
  IN  /\ pc' = [pc EXCEPT ![f] = result]
      /\ timer' = IF CancelsTimer(f) THEN "cancelled" ELSE timer
      /\ op' = [op EXCEPT ![g] = IF aborts THEN "aborted" ELSE @]
      /\ UNCHANGED cancelled
      /\ Join(f, result)

End(f, result) ==
  LET g == Other(f)
      cancels == result = "won" /\ ~Ended(g)
      aborts  == cancels \/ (CancelsTimer(f) /\ pc[g] = "waiting")
  IN  /\ pc' = [pc EXCEPT ![f] = result]
      /\ timer' = IF CancelsTimer(f) THEN "cancelled" ELSE timer
      /\ cancelled' = [cancelled EXCEPT ![g] = @ \/ cancels]
      /\ op' = [op EXCEPT ![g] = IF aborts /\ @ = "pending" THEN "aborted" ELSE @]
      /\ Join(f, result)

\* connect(): printing the remote endpoint throws if the peer has reset the
\* connection in the meantime.
ConnectEnds(f) ==
  /\ phase = "running" /\ pc[f] = "connecting" /\ op[f] # "pending"
  /\ End(f, IF op[f] = "ok" THEN "won" ELSE "lost")
  /\ UNCHANGED <<left, deadline>>

\* connect_ipv4() goes on, however the wait for the timer ended; but an attempt
\* that has been cancelled ends at the next co_await.
IPv4Starts ==
  /\ phase = "running" /\ pc["v4"] = "waiting" /\ op["v4"] # "pending"
  /\ ~cancelled["v4"]
  /\ pc' = [pc EXCEPT !["v4"] = "connecting"]
  /\ op' = [op EXCEPT !["v4"] = ConnectStarts("v4")]
  /\ UNCHANGED <<phase, left, cancelled, timer, first, winner, deadline>>

IPv4Stops ==
  /\ phase = "running" /\ pc["v4"] = "waiting" /\ op["v4"] # "pending"
  /\ cancelled["v4"]
  /\ End("v4", "lost")
  /\ UNCHANGED <<left, deadline>>

\* Mutant: the deadline does not reach the two attempts.
DeadlineUnheard ==
  /\ phase \in {"resolving", "running"} /\ deadline = "running"
  /\ deadline' = "fired"
  /\ UNCHANGED <<phase, pc, op, left, cancelled, timer, first, winner>>

\* cancel_after(1s): whatever still runs is cancelled.
DeadlineFires ==
  /\ phase \in {"resolving", "running"} /\ deadline = "running"
  /\ deadline' = "fired"
  /\ IF phase = "running"
     THEN /\ cancelled' = [f \in Family |-> cancelled[f] \/ ~Ended(f)]
          /\ op' = [f \in Family |->
                      IF ~Ended(f) /\ op[f] = "pending" THEN "aborted" ELSE op[f]]
     ELSE UNCHANGED <<cancelled, op>>
  /\ UNCHANGED <<phase, pc, left, timer, first, winner>>

-----------------------------------------------------------------------------
TimerExpires ==
  /\ phase = "running" /\ pc["v4"] = "waiting" /\ op["v4"] = "pending"
  /\ timer' = "expired" /\ op' = [op EXCEPT !["v4"] = "ok"]
  /\ UNCHANGED <<phase, pc, left, cancelled, first, winner, deadline>>

Connecting(f) == phase = "running" /\ pc[f] = "connecting" /\ op[f] = "pending"

ConnectSucceeds(f) ==
  /\ Connecting(f)
  /\ op' = [op EXCEPT ![f] = "ok"]
  /\ UNCHANGED <<phase, pc, left, cancelled, timer, first, winner, deadline>>

\* async_connect() tries the next address, and fails after the last one.
EndpointFails(f) ==
  /\ Connecting(f)
  /\ left' = [left EXCEPT ![f] = @ - 1]
  /\ op' = [op EXCEPT ![f] = IF left[f] = 1 THEN "error" ELSE "pending"]
  /\ UNCHANGED <<phase, pc, cancelled, timer, first, winner, deadline>>

PeerResets(f) ==
  /\ phase = "running" /\ pc[f] = "connecting" /\ op[f] = "ok"
  /\ op' = [op EXCEPT ![f] = "reset"]
  /\ UNCHANGED <<phase, pc, left, cancelled, timer, first, winner, deadline>>

Resume(f) == ConnectEnds(f) \/ (f = "v4" /\ (IPv4Starts \/ IPv4Stops))

Next ==
  \/ Resolved
  \/ ResolveFails
  \/ \E f \in Family : ConnectEnds(f)
  \/ IPv4Starts
  \/ IPv4Stops
  \/ DeadlineFires
  \/ TimerExpires
  \/ \E f \in Family : ConnectSucceeds(f) \/ EndpointFails(f) \/ PeerResets(f)

Spec == Init /\ [][Next]_vars

\* The io_context resumes who is ready, and a deadline passes.  Peers and the 200 ms
\* timer owe nothing, and the resolver no more than to return, in time or too late.
Fairness ==
  /\ WF_vars(ResolveFails) /\ WF_vars(DeadlineFires)
  /\ \A f \in Family : WF_vars(Resume(f))

FairSpec == Spec /\ Fairness

-----------------------------------------------------------------------------
\* IPv6 is preferred: IPv4 begins to connect only when the 200 ms are over or
\* IPv6 has failed, and never when IPv6 has already won, although the end of
\* the IPv6 attempt wakes the IPv4 attempt in both cases.
PrefersIPv6 ==
  [][pc["v4"] = "waiting" /\ pc'["v4"] = "connecting" =>
       pc["v6"] = "lost" \/ (timer = "expired" /\ pc["v6"] # "won")]_vars

\* "If IPv6 fails before the timer expires, we want to start IPv4 immediately":
\* once IPv6 has failed, IPv4 never waits for the time to pass.
FallbackIsImmediate ==
  pc["v6"] = "lost" => ~(pc["v4"] = "waiting" /\ op["v4"] = "pending")

\* A failure is real: if the deadline is not over, then every address of both
\* families has failed, or the peer has reset the connection to it.
FailureIsReal ==
  /\ TypeOK
  /\ phase = "failed" /\ deadline = "running" =>
       \A f \in Family : left[f] = 0 \/ (pc[f] = "lost" /\ op[f] = "reset")

\* A connection that was made is not lost: when an attempt has won, the result
\* is a connection even if the deadline passes while the other attempt ends.
SuccessIsKept == (\E f \in Family : pc[f] = "won") ~> phase = "connected"

\* The program ends.
Ends == <>(phase \in {"connected", "failed"})
=============================================================================
