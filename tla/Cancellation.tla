---------------------------- MODULE Cancellation ----------------------------
(***************************************************************************)
(* Asio's per-operation cancellation, as the coroutines of this repository *)
(* use it.  Every co_spawn'ed coroutine thread has ONE cancellation state: *)
(* a filter and the type it was last cancelled with.  The filter is what   *)
(* reset_cancellation_state installs, for the whole thread and not for the *)
(* coroutine frame that asks for it, and installing one forgets an earlier *)
(* cancellation.  Asio itself is external to the repository.               *)
(***************************************************************************)

\* The cancellation types a signal of this program can carry.
CancelType == {"total", "partial", "terminal"}

\* cs.cancelled(): the last type that passed the filter, or none.
Cancelled == CancelType \cup {"none"}

\* The filters enable_terminal_cancellation(), enable_partial_cancellation() and
\* enable_total_cancellation(): the set of the types that pass.
EnableTerminal == {"terminal"}
EnablePartial  == {"terminal", "partial"}
EnableTotal    == CancelType

\* What cs.cancelled() becomes when type t is emitted to a thread with filter
\* f.  It is assigned, not joined: a type that does not pass leaves "none".
Filtered(f, t) == IF t \in f THEN t ELSE "none"

(***************************************************************************)
(* An asynchronous operation is pending until the executor has scheduled   *)
(* its completion; the coroutine resumes some time later.  Cancelling      *)
(* reaches pending operations only: one that is scheduled keeps its result *)
(* (the "cancellation race" of the code's comments).                       *)
(***************************************************************************)
OpResult == {"ok", "eof", "error", "aborted"}
OpStatus == OpResult \cup {"pending"}
=============================================================================
