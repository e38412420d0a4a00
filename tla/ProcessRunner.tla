---------------------------- MODULE ProcessRunner ----------------------------
(***************************************************************************)
(* Programs that run a child process and print what it writes:             *)
(* process/ping.cpp, process/ping_signal.cpp and                           *)
(* process/ping_signal_advanced.cpp, with log() of lib/log.cpp for every   *)
(* pipe.  The child is bin/handle_signal.cpp, which the tests use, or one  *)
(* that does not handle signals; a descendant of it may keep the pipes     *)
(* open.  Text is a sequence of "c", any character, and "n", the newline.  *)
(***************************************************************************)
EXTENDS Cancellation, Naturals, SequencesExt

CONSTANTS
  MaxOut,       \* Bound: how many characters are written to STDOUT,
  MaxErr,       \* and to STDERR.
  MaxSignals,   \* Bound: how many signals the user sends to the program.
  MaxIgnore     \* Bound: how many signals of a kind the child ignores.

ASSUME ProcessRunnerAssumption ==
  MaxOut \in Nat /\ MaxErr \in Nat /\ MaxSignals \in Nat \ {0} /\ MaxIgnore \in Nat

Pipe   == {"out", "err"}
MaxText == [p \in Pipe |-> IF p = "out" THEN MaxOut ELSE MaxErr]
Text   == Seq({"c", "n"})
Unset  == MaxIgnore + 1      \* no handler: the signal kills the child

\* The state of a log coroutine: where it is, the status of its read, whether it
\* has been cancelled, its buffer, the data of a read that has completed, and how
\* many characters it has printed.
Log == [pc : {"read", "ended", "threw"}, op : OpStatus, cancelled : BOOLEAN,
        buf : Text, raw : Text, printed : Nat]

LogState(pc, op, cancelled, buf, raw, printed) ==
  [pc |-> pc, op |-> op, cancelled |-> cancelled, buf |-> buf, raw |-> raw, printed |-> printed]

VARIABLES
  kind,      \* the program: "ping", "signal" or "advanced"
  exec,      \* execute(): "log", "wait", "grace"; "done" or "threw"
  asked,     \* the group of operator|| has been asked to cancel
  heard,     \* ... and the promise of the log coroutines has heard it
  cut,       \* the log coroutines have been cancelled
  termed,    \* SIGTERM has been handled
  signals,   \* how many signals have been handled
  log,       \* the log coroutine of each pipe
  child,     \* "starting", "running" or "dead"
  left,      \* handle(): how many more signals are ignored
  pending,   \* the signals on their way to the child
  heir,      \* a descendant of the child is alive and has the pipes
  pipe,      \* what is in each pipe
  sent       \* how many characters have been written to each pipe

execVars  == <<exec, asked, heard, cut, termed, signals>>
childVars == <<child, left, pending, heir>>
pipeVars  == <<pipe, sent>>
vars == <<kind, execVars, log, childVars, pipeVars>>

TypeOK ==
  /\ kind \in {"ping", "signal", "advanced"}
  /\ exec \in {"log", "wait", "grace", "done", "threw"}
  /\ asked \in BOOLEAN /\ heard \in BOOLEAN /\ cut \in BOOLEAN /\ termed \in BOOLEAN
  /\ heir \in BOOLEAN
  /\ signals \in 0 .. MaxSignals
  /\ log \in [Pipe -> Log]
  /\ child \in {"starting", "running", "dead"}
  /\ left \in [{"INT", "TERM"} -> 0 .. Unset]
  /\ pending \subseteq {"INT", "TERM", "KILL"}
  /\ pipe \in [Pipe -> Text] /\ sent \in [Pipe -> Nat]
  /\ \A p \in Pipe : sent[p] <= MaxText[p]

\* execute() has started the process.  The advanced one logs both pipes in a
\* group that it holds as a promise; the others redirect and log STDOUT only.
LogInit(on) == LogState(IF on THEN "read" ELSE "ended", "pending", FALSE, <<>>, <<>>, 0)

Init ==
  /\ kind \in {"ping", "signal", "advanced"}
  /\ exec = IF kind = "advanced" THEN "wait" ELSE "log"
  /\ asked = FALSE /\ heard = FALSE /\ cut = FALSE /\ termed = FALSE /\ signals = 0
  /\ log = [p \in Pipe |-> LogInit(p = "out" \/ kind = "advanced")]
  /\ child = "starting" /\ left \in [{"INT", "TERM"} -> 0 .. Unset]
  /\ pending = {} /\ heir \in BOOLEAN
  /\ pipe = [p \in Pipe |-> <<>>] /\ sent = [p \in Pipe |-> 0]

FrameGone == exec \in {"done", "threw"}

-----------------------------------------------------------------------------
(***************************************************************************)
(* log()                                                                   *)
(***************************************************************************)
HasLine(s) == Contains(s, "n")
LineEnd(s) == CHOOSE i \in 1 .. Len(s) : s[i] = "n" /\ \A j \in 1 .. i - 1 : s[j] # "n"

\* async_read_until(): it completes at once if there is a line in the buffer.  Up
\* to now k characters have been printed.
AwaitLine(l, b, k) ==
  LogState(l.pc, IF HasLine(b) THEN "ok" ELSE "pending", l.cancelled, b, <<>>, k)

\* The filter of log(), and its cancellation handler: it prints the buffer at
\* the time of cancellation and passes the cancellation on to the read.
LogFilter == EnablePartial

LogCancelled(l, t) ==
  IF l.pc # "read" \/ Filtered(LogFilter, t) = "none" THEN l
  ELSE LogState(l.pc, IF l.op = "pending" THEN "aborted" ELSE l.op, TRUE, l.buf, l.raw,
                l.printed + Len(l.buf))

\* Mutant: log() looks at the result of the read only.
LogResumesAnyhow(p) ==
  LET l == log[p]  b == l.buf \o l.raw IN
  /\ l.pc = "read" /\ l.op = "ok" /\ HasLine(b)
  /\ log' = [log EXCEPT ![p] = AwaitLine(l, SubSeq(b, LineEnd(b) + 1, Len(b)),
                                         l.printed + LineEnd(b))]
  /\ UNCHANGED <<kind, execVars, childVars, pipeVars>>

\* A line has been read: handleLine() prints it, and the next read starts.
LogPrints(p) ==
  LET l == log[p]  b == l.buf \o l.raw IN
  /\ l.pc = "read" /\ l.op = "ok" /\ ~l.cancelled /\ HasLine(b)
  /\ log' = [log EXCEPT ![p] = AwaitLine(l, SubSeq(b, LineEnd(b) + 1, Len(b)),
                                         l.printed + LineEnd(b))]
  /\ UNCHANGED <<kind, execVars, childVars, pipeVars>>

\* Data without the end of a line: async_read_until() reads on.
LogReadsOn(p) ==
  LET l == log[p]  b == l.buf \o l.raw IN
  /\ l.pc = "read" /\ l.op = "ok" /\ ~l.cancelled /\ ~HasLine(b)
  /\ log' = [log EXCEPT ![p] = AwaitLine(l, b, l.printed)]
  /\ UNCHANGED <<kind, execVars, childVars, pipeVars>>

\* The end of the stream, or an error: the rest of the buffer is printed.
LogEnds(p) ==
  LET l == log[p] IN
  /\ l.pc = "read" /\ l.op \in {"eof", "error"} /\ ~l.cancelled
  /\ log' = [log EXCEPT ![p] =
       LogState(IF l.op = "eof" THEN "ended" ELSE "threw", l.op, FALSE, l.buf, l.raw,
                l.printed + Len(l.buf))]
  /\ UNCHANGED <<kind, execVars, childVars, pipeVars>>

\* The last time that a cancelled log() is resumed: it throws at once.  What a read
\* had taken from the pipe by then, raw, has come too late for the handler.
LogThrows(p) ==
  LET l == log[p] IN
  /\ l.pc = "read" /\ l.op # "pending" /\ l.cancelled
  /\ log' = [log EXCEPT ![p] = LogState("threw", l.op, TRUE, l.buf, l.raw, l.printed)]
  /\ UNCHANGED <<kind, execVars, childVars, pipeVars>>

LogStep(p) == LogPrints(p) \/ LogReadsOn(p) \/ LogEnds(p) \/ LogThrows(p)

-----------------------------------------------------------------------------
(***************************************************************************)
(* execute() of the three programs                                         *)
(***************************************************************************)

\* ping.cpp and ping_signal.cpp: log() has returned, wait for the process.  An
\* exception ends execute(), and detached discards it.
Communicated ==
  /\ exec = "log" /\ log["out"].pc # "read"
  /\ exec' = IF log["out"].pc = "ended" THEN "wait" ELSE "threw"
  /\ UNCHANGED <<kind, asked, heard, cut, termed, signals, log, childVars, pipeVars>>

\* child.async_wait() has the exit code.
Waited ==
  /\ exec = "wait" /\ kind # "advanced" /\ child = "dead"
  /\ exec' = "done"
  /\ UNCHANGED <<kind, asked, heard, cut, termed, signals, log, childVars, pipeVars>>

\* ping_signal.cpp: the handler for the first SIGINT.
Interrupted ==
  /\ kind = "signal" /\ ~FrameGone /\ signals = 0
  /\ signals' = signals + 1
  /\ pending' = pending \cup (IF child = "dead" THEN {} ELSE {"INT"})
  /\ UNCHANGED <<kind, exec, asked, heard, cut, termed, log, child, left, heir, pipeVars>>

\* The advanced one: async_execute() has the exit code, and the pipes are read
\* for a while.  Resetting the cancellation state forgets what raced with it.
Executed ==
  /\ exec = "wait" /\ kind = "advanced" /\ child = "dead"
  /\ exec' = "grace"
  /\ UNCHANGED <<kind, asked, heard, cut, termed, signals, log, childVars, pipeVars>>

\* async_execute() fails: the promise is destroyed with the frame, and cancels.
WaitFails ==
  /\ exec = "wait" /\ kind = "advanced"
  /\ exec' = "threw" /\ cut' = TRUE
  /\ log' = [p \in Pipe |-> LogCancelled(log[p], "terminal")]
  /\ UNCHANGED <<kind, asked, heard, termed, signals, childVars, pipeVars>>

\* A parallel group passes only the first request on; the two threads of
\* operator|| hear terminal alone.  Then the promise completes at once, and it
\* cancels the log coroutines.
GroupCancelled(t) ==
  /\ asked' = TRUE
  /\ IF asked \/ t # "terminal" THEN UNCHANGED <<heard, cut, log>>
     ELSE /\ heard' = TRUE /\ cut' = TRUE
          /\ log' = [p \in Pipe |-> LogCancelled(log[p], t)]

\* Mutant: only the wait for the pipes is given up, not the promise.
GraceExpiresAlone ==
  /\ exec = "grace" /\ ~asked
  /\ asked' = TRUE /\ heard' = TRUE /\ cut' = TRUE
  /\ UNCHANGED <<kind, exec, termed, signals, log, childVars, pipeVars>>

\* One second after the end of the process.
GraceExpires ==
  /\ exec = "grace" /\ ~asked
  /\ GroupCancelled("terminal")
  /\ UNCHANGED <<kind, exec, termed, signals, childVars, pipeVars>>

\* operator|| completes: both logs have ended, or the promise was cancelled.
GraceEnds ==
  /\ exec = "grace" /\ (heard \/ \A p \in Pipe : log[p].pc # "read")
  /\ exec' = "done"
  /\ UNCHANGED <<kind, asked, heard, cut, termed, signals, log, childVars, pipeVars>>

-----------------------------------------------------------------------------
(***************************************************************************)
(* signal_handling() and what a cancellation does to execute()             *)
(***************************************************************************)
UserSignal == {"TSTP", "INT", "TERM"}

TypeOf(s) == CASE s = "TSTP" -> "total" [] s = "INT" -> "partial" [] s = "TERM" -> "terminal"

\* Mutant: terminal is a request to exit, as partial.
SendsGently(t) == IF t = "total" THEN "INT" ELSE "TERM"

\* What async_execute() sends to the process when it is cancelled.
Sends(t) == CASE t = "total" -> "INT" [] t = "partial" -> "TERM" [] t = "terminal" -> "KILL"

\* Mutant: the filter stays enable_total_cancellation().
GraceFilterTotal(t) == t

\* The filter while the pipes are read for a while.
GraceFilter(t) == "terminal"

HandleSignal(s) ==
  /\ kind = "advanced" /\ ~FrameGone /\ signals < MaxSignals
  /\ signals' = signals + 1 /\ termed' = (termed \/ s = "TERM")
  /\ \/ /\ exec = "wait"
        /\ pending' = pending \cup (IF child = "dead" THEN {} ELSE {Sends(TypeOf(s))})
        /\ UNCHANGED <<asked, heard, cut, log>>
     \/ /\ exec = "grace"
        /\ GroupCancelled(GraceFilter(TypeOf(s)))
        /\ UNCHANGED pending
  /\ UNCHANGED <<kind, exec, child, left, heir, pipeVars>>

-----------------------------------------------------------------------------
(***************************************************************************)
(* The child, its descendant, and the pipes                                *)
(***************************************************************************)

\* main() of handle_signal.cpp: the coroutines in the group install handlers
\* when the context runs; up to then a signal kills.
ChildStarts ==
  /\ child = "starting" /\ ~FrameGone /\ child' = "running"
  /\ UNCHANGED <<kind, execVars, log, left, pending, heir, pipeVars>>

Kills(s) == s = "KILL" \/ child = "starting" \/ left[s] = Unset

\* handle(): the signal after the last ignored one ends the coroutine, and the
\* group, which waits for one, ends the program.
ChildSignalled(s) ==
  /\ child # "dead" /\ s \in pending /\ ~FrameGone
  /\ IF Kills(s) THEN child' = "dead" /\ pending' = {} /\ UNCHANGED left
     ELSE IF left[s] = 0 THEN child' = "dead" /\ pending' = {} /\ UNCHANGED left
     ELSE /\ left' = [left EXCEPT ![s] = @ - 1]
          /\ pending' = pending \ {s} /\ UNCHANGED child
  /\ UNCHANGED <<kind, execVars, log, heir, pipeVars>>

\* sleep() in the group: TIMEOUT.
ChildTimesOut ==
  /\ child = "running" /\ ~FrameGone /\ child' = "dead" /\ pending' = {}
  /\ UNCHANGED <<kind, execVars, log, left, heir, pipeVars>>

HeirEnds ==
  /\ child = "dead" /\ heir /\ ~FrameGone /\ heir' = FALSE
  /\ UNCHANGED <<kind, execVars, log, child, left, pending, pipeVars>>

\* The child or its descendant writes, if the pipe has a reader and is its own.
ProcessWrites(p, c) ==
  /\ (child = "running" \/ heir) /\ log[p].pc = "read" /\ ~FrameGone
  /\ sent[p] < MaxText[p]
  /\ sent' = [sent EXCEPT ![p] = @ + 1] /\ pipe' = [pipe EXCEPT ![p] = Append(@, c)]
  /\ UNCHANGED <<kind, execVars, log, childVars>>

\* A read of the pipe completes; its data is not in the buffer before the
\* handler of the read has been called.
ReadCompletes(p, n) ==
  LET l == log[p] IN
  /\ l.pc = "read" /\ l.op = "pending" /\ ~FrameGone /\ n \in 1 .. Len(pipe[p])
  /\ log' = [log EXCEPT ![p] =
       LogState("read", "ok", l.cancelled, l.buf, SubSeq(pipe[p], 1, n), l.printed)]
  /\ pipe' = [pipe EXCEPT ![p] = SubSeq(@, n + 1, Len(@))]
  /\ UNCHANGED <<kind, execVars, childVars, sent>>

ReadEnds(p, r) ==
  LET l == log[p] IN
  /\ l.pc = "read" /\ l.op = "pending" /\ ~FrameGone
  /\ r = "error" \/ (r = "eof" /\ pipe[p] = <<>> /\ child = "dead" /\ ~heir)
  /\ log' = [log EXCEPT ![p] = LogState("read", r, l.cancelled, l.buf, l.raw, l.printed)]
  /\ UNCHANGED <<kind, execVars, childVars, pipeVars>>

Execute == Communicated \/ Waited \/ Executed \/ GraceExpires \/ GraceEnds
Read(p) == (\E n \in 1 .. MaxText[p] : ReadCompletes(p, n)) \/ ReadEnds(p, "eof")
Child   == ChildStarts \/ \E s \in {"INT", "TERM", "KILL"} : ChildSignalled(s)

\* The end of the program, when the context has run out of work.
Ended == /\ FrameGone /\ (kind # "advanced" \/ \A p \in Pipe : log[p].pc # "read")
         /\ UNCHANGED vars

Next ==
  \/ Execute \/ WaitFails \/ Interrupted \/ Child \/ ChildTimesOut \/ HeirEnds \/ Ended
  \/ \E s \in UserSignal : HandleSignal(s)
  \/ \E p \in Pipe : \/ LogStep(p) \/ Read(p) \/ ReadEnds(p, "error")
                     \/ \E c \in {"c", "n"} : ProcessWrites(p, c)

\* The context runs handlers that are ready and timers that have expired, and
\* the kernel delivers signals.  The child need not end by itself, a descendant
\* need not let go of the pipes, and nobody needs to write.
Fairness ==
  /\ WF_vars(Execute) /\ WF_vars(Child)
  /\ \A p \in Pipe : WF_vars(LogStep(p)) /\ WF_vars(Read(p))

Spec == Init /\ [][Next]_vars /\ Fairness

-----------------------------------------------------------------------------
\* What the comments on log() say of its cancellation: "Any remaining buffered data
\* is printed before returning" (log.cpp:21), because "Any remaining lines in the
\* buffer have already been emitted by the custom cancellation handler" (log.cpp:99).
\* A cancelled log() that has ended has printed all that it took from the pipe, at
\* least if execute() ends in the regular way, after the time given to the pipes.
RemainingIsPrinted ==
  exec = "done" => \A p \in Pipe : log[p].pc = "threw" /\ log[p].cancelled =>
                                     log[p].printed + Len(pipe[p]) = sent[p]

\* log() prints no character twice and, cancelled or not, loses none; but for one
\* case, a read that has completed when the cancellation comes, of whose data the
\* comments on log() say otherwise (RemainingIsPrinted).  execute() that was not
\* cut short has printed everything (log.cpp:80, 102).
LogIsExact ==
  /\ TypeOK
  /\ \A p \in Pipe : LET l == log[p] IN
       /\ l.printed + Len(pipe[p]) <= sent[p]
       /\ l.cancelled /\ l.raw = <<>> => l.printed + Len(pipe[p]) = sent[p]
       /\ ~l.cancelled /\ l.pc = "read" =>
            l.printed + Len(l.buf) + Len(l.raw) + Len(pipe[p]) = sent[p]
       /\ exec = "done" /\ ~cut =>
            /\ l.pc # "read"
            /\ l.pc = "ended" => l.printed = sent[p]

\* The pipes are members of the frame of execute().  A log coroutine that is
\* resumed after that frame has gone has been cancelled, and so does not touch
\* them (log.cpp:24, ping_signal_advanced.cpp:65).
NoUseAfterFree ==
  FrameGone => \A p \in Pipe : log[p].pc = "read" => log[p].cancelled

\* The end of the process ends execute(), even if a descendant keeps the pipes
\* open, and whatever signals come in which order (ping_signal_advanced.cpp:64).
ExitEndsExecute == (kind = "advanced" /\ child = "dead") ~> FrameGone

\* SIGTERM ends execute(), whatever the child does about signals.
TermEndsExecute == termed ~> FrameGone
=============================================================================
