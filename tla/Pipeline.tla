------------------------------ MODULE Pipeline ------------------------------
(***************************************************************************)
(* The coroutines of include/stream_utils.hpp in a row, as the tests use   *)
(* them around a child process: write_and_close() into a pipe, cat() from  *)
(* it into another pipe, and count() or read_all() at the end.  The pipes  *)
(* are bounded, each coroutine may be cancelled at any time, and bytes are *)
(* counted.                                                                *)
(***************************************************************************)
EXTENDS Cancellation, Naturals, FiniteSetsExt

CONSTANTS
  Size,        \* the size of the range that is written
  ChunkSize,   \* the size of the buffers of write(), cat() and count()
  Capacity     \* what a pipe can hold

ASSUME PipelineAssumption == {Size, ChunkSize, Capacity} \subseteq Nat \ {0}

Stage == {"write", "cat", "sink"}

VARIABLES
  style,      \* write() of a contiguous "block" or in "chunks", or "timed"
  pc,         \* each coroutine: in "read" or "write", "done", or "threw"
  op,         \* status of what it awaits
  n,          \* how many bytes a read or the writer's write has transferred
  put,        \* how many of its n bytes cat() has written
  total,      \* the total of each coroutine
  cancelled,  \* whether it has been cancelled
  inPipe      \* how many bytes are in the pipe behind "write" and "cat"

pipelineVars == <<style, pc, op, n, put, total, cancelled, inPipe>>

PipelineTypeOK ==
  /\ style \in {"block", "chunks", "timed"}
  /\ pc \in [Stage -> {"read", "write", "done", "threw"}] /\ op \in [Stage -> OpStatus]
  /\ n \in [Stage -> 0 .. Size] /\ total \in [Stage -> 0 .. Size] /\ put \in 0 .. ChunkSize
  /\ cancelled \in [Stage -> BOOLEAN]
  /\ inPipe \in [{"write", "cat"} -> 0 .. Capacity]

PipelineInit ==
  /\ style \in {"block", "chunks", "timed"}
  /\ pc = [s \in Stage |-> IF s = "write" THEN "write" ELSE "read"]
  /\ op = [s \in Stage |-> "pending"] /\ n = [s \in Stage |-> 0] /\ put = 0
  /\ total = [s \in Stage |-> 0] /\ cancelled = [s \in Stage |-> FALSE]
  /\ inPipe = [s \in {"write", "cat"} |-> 0]

\* A stream is closed by the code, or destroyed with the frame that has it.
Open(s)   == pc[s] \in {"read", "write"}
Before(s) == IF s = "cat" THEN "write" ELSE "cat"
After(s)  == IF s = "write" THEN "cat" ELSE "sink"

Goes(s, p) == /\ pc' = [pc EXCEPT ![s] = p]
              /\ op' = [op EXCEPT ![s] = IF p \in {"read", "write"} THEN "pending" ELSE @]

-----------------------------------------------------------------------------
(***************************************************************************)
(* write_and_close()                                                       *)
(***************************************************************************)
WriteChunk == IF style = "block" THEN Size ELSE Min({ChunkSize, Size - total["write"]})

\* Mutant: on cancellation, what the last write has transferred is not counted.
WriteReturnsChunks ==
  /\ pc["write"] = "write" /\ op["write"] # "pending"
  /\ total' = [total EXCEPT !["write"] = @ + IF cancelled["write"] THEN 0 ELSE n["write"]]
  /\ Goes("write", IF cancelled["write"] \/ total'["write"] = Size THEN "done"
                   ELSE IF op["write"] = "ok" THEN "write" ELSE "threw")
  /\ n' = [n EXCEPT !["write"] = 0]
  /\ UNCHANGED <<style, put, cancelled, inPipe>>

\* A write has completed.  Also one that fails reports what it has transferred;
\* cancellation is no error, and ends the loop.
WriteReturns ==
  /\ pc["write"] = "write" /\ op["write"] # "pending"
  /\ total' = [total EXCEPT !["write"] = @ + n["write"]]
  /\ Goes("write", IF cancelled["write"] \/ total'["write"] = Size THEN "done"
                   ELSE IF op["write"] = "ok" THEN "write" ELSE "threw")
  /\ n' = [n EXCEPT !["write"] = 0]
  /\ UNCHANGED <<style, put, cancelled, inPipe>>

\* The timeout of write_and_close(), or a cancellation from outside.
Cancels(s) ==
  /\ cancelled' = [cancelled EXCEPT ![s] = TRUE]
  /\ op' = [op EXCEPT ![s] = IF @ = "pending" THEN "aborted" ELSE @]
  /\ UNCHANGED <<style, pc, n, put, total, inPipe>>

TimeoutFires == style = "timed" /\ Open("write") /\ ~cancelled["write"] /\ Cancels("write")

\* write() accepts terminal and partial, the others terminal.
StageFilter(s) == IF s = "write" THEN EnablePartial ELSE EnableTerminal

\* The state is assigned: a type that does not pass forgets an earlier cancellation,
\* but what that has aborted stays so, and is then an error.  The filter before
\* cancel_after() keeps such a type away from the writer with a timeout.
Forgets(s) ==
  /\ cancelled[s] /\ (s = "write" => style # "timed")
  /\ cancelled' = [cancelled EXCEPT ![s] = FALSE]
  /\ UNCHANGED <<style, pc, op, n, put, total, inPipe>>

Cancelling(s, t) ==
  /\ Open(s)
  /\ \/ Filtered(StageFilter(s), t) # "none" /\ ~cancelled[s] /\ Cancels(s)
     \/ Filtered(StageFilter(s), t) = "none" /\ Forgets(s)

-----------------------------------------------------------------------------
(***************************************************************************)
(* cat(), count() and read_all()                                           *)
(***************************************************************************)
\* A read has completed: write the data, unless cancelled (co_await throws).
CatReads ==
  /\ pc["cat"] = "read" /\ op["cat"] = "ok"
  /\ Goes("cat", IF cancelled["cat"] THEN "threw" ELSE "write")
  /\ UNCHANGED <<style, n, put, total, cancelled, inPipe>>

CatWrites ==
  /\ pc["cat"] = "write" /\ op["cat"] = "ok"
  /\ total' = [total EXCEPT !["cat"] = @ + n["cat"]] /\ n' = [n EXCEPT !["cat"] = 0]
  /\ put' = 0
  /\ Goes("cat", IF cancelled["cat"] THEN "threw" ELSE "read")
  /\ UNCHANGED <<style, cancelled, inPipe>>

\* count() adds up; read_all() appends to its buffer.
SinkReads ==
  /\ pc["sink"] = "read" /\ op["sink"] = "ok"
  /\ total' = [total EXCEPT !["sink"] = @ + n["sink"]] /\ n' = [n EXCEPT !["sink"] = 0]
  /\ Goes("sink", IF cancelled["sink"] THEN "threw" ELSE "read")
  /\ UNCHANGED <<style, put, cancelled, inPipe>>

\* Mutant: cat() does not close its output, and its frame stays.
CatEndsOpen(s) ==
  /\ s = "sink" /\ pc[s] = "read" /\ op[s] = "eof"
  /\ Goes(s, "done")
  /\ UNCHANGED <<style, n, put, total, cancelled, inPipe>>

\* The end of the stream: cat() closes its output.
Ends(s) ==
  /\ pc[s] = "read" /\ op[s] = "eof"
  /\ Goes(s, "done")
  /\ UNCHANGED <<style, n, put, total, cancelled, inPipe>>

\* Any other error is thrown again.
Throws(s) ==
  /\ s # "write" /\ Open(s) /\ op[s] \in {"error", "aborted"}
  /\ Goes(s, "threw")
  /\ UNCHANGED <<style, n, put, total, cancelled, inPipe>>

-----------------------------------------------------------------------------
(***************************************************************************)
(* The pipes                                                               *)
(***************************************************************************)
\* async_write goes on until everything has been written: the chunk, or what
\* cat() has read.
WriteSome(s, k) ==
  /\ pc[s] = "write" /\ op[s] = "pending" /\ Open(After(s))
  /\ inPipe[s] + k <= Capacity /\ inPipe' = [inPipe EXCEPT ![s] = @ + k]
  /\ \/ /\ s = "write" /\ n[s] + k <= WriteChunk
        /\ n' = [n EXCEPT ![s] = @ + k] /\ UNCHANGED put
        /\ op' = [op EXCEPT ![s] = IF n'[s] = WriteChunk THEN "ok" ELSE "pending"]
     \/ /\ s = "cat" /\ put + k <= n[s]
        /\ put' = put + k /\ UNCHANGED n
        /\ op' = [op EXCEPT ![s] = IF put' = n[s] THEN "ok" ELSE "pending"]
  /\ UNCHANGED <<style, pc, total, cancelled>>

\* A pipe without reader is an error.  SIGPIPE is taken to be ignored: by default it
\* would end the program, and all coroutines with it.
WriteBreaks(s) ==
  /\ pc[s] = "write" /\ op[s] = "pending" /\ ~Open(After(s))
  /\ op' = [op EXCEPT ![s] = "error"]
  /\ UNCHANGED <<style, pc, n, put, total, cancelled, inPipe>>

ReadSome(s, k) ==
  /\ pc[s] = "read" /\ op[s] = "pending" /\ k \in 1 .. Min({ChunkSize, inPipe[Before(s)]})
  /\ n' = [n EXCEPT ![s] = k] /\ inPipe' = [inPipe EXCEPT ![Before(s)] = @ - k]
  /\ op' = [op EXCEPT ![s] = "ok"]
  /\ UNCHANGED <<style, pc, put, total, cancelled>>

ReadAtEnd(s) ==
  /\ pc[s] = "read" /\ op[s] = "pending" /\ inPipe[Before(s)] = 0 /\ ~Open(Before(s))
  /\ op' = [op EXCEPT ![s] = "eof"]
  /\ UNCHANGED <<style, pc, n, put, total, cancelled, inPipe>>

Writer == WriteReturns \/ TimeoutFires \/ WriteBreaks("write")
          \/ \E k \in 1 .. Size : WriteSome("write", k)
Cat == CatReads \/ CatWrites \/ Ends("cat") \/ Throws("cat") \/ WriteBreaks("cat")
       \/ ReadAtEnd("cat") \/ \E k \in 1 .. ChunkSize : WriteSome("cat", k) \/ ReadSome("cat", k)
Sink == SinkReads \/ Ends("sink") \/ Throws("sink") \/ ReadAtEnd("sink")
        \/ \E k \in 1 .. ChunkSize : ReadSome("sink", k)

Canceller == \E s \in Stage, t \in CancelType : Cancelling(s, t)

PipelineNext == Writer \/ Cat \/ Sink \/ Canceller

\* The context runs what is ready; nobody needs to cancel.
PipelineFairness ==
  WF_pipelineVars(Writer) /\ WF_pipelineVars(Cat) /\ WF_pipelineVars(Sink)

PipelineSpec == PipelineInit /\ [][PipelineNext]_pipelineVars /\ PipelineFairness

-----------------------------------------------------------------------------
\* Cancelling or timing out the writer at any moment loses nothing: what it
\* reports is what comes out at the end, if nobody else fails
\* (stream_utils.hpp:59, 62).
ReportIsExact ==
  /\ PipelineTypeOK
  /\ (\A s \in Stage : pc[s] = "done") => total["write"] = total["cat"] /\ total["cat"] = total["sink"]
  /\ pc["write"] = "done" /\ pc["cat"] # "threw" /\ pc["sink"] # "threw" =>
       total["write"] = inPipe["write"] + (n["cat"] - put) + inPipe["cat"]
                        + n["sink"] + total["sink"]

\* Everybody ends, whoever is cancelled and even if a pipe is full: the end of
\* the stream goes down the pipeline, and a closed pipe breaks the write before.
PipelineEnds == <>(\A s \in Stage : ~Open(s))
=============================================================================
