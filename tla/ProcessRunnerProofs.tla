------------------------- MODULE ProcessRunnerProofs -------------------------
(***************************************************************************)
(* Proofs about ProcessRunner, for texts of any length and any number of   *)
(* signals, and about Pipeline at the end.                                 *)
(***************************************************************************)
EXTENDS ProcessRunner, Pipeline, SequenceTheorems, WellFoundedInduction, TLAPS

\* The characters that a log coroutine has read from its pipe.
Taken(l) == l.printed + Len(l.buf) + Len(l.raw)

\* Where each character is.  A log coroutine that has been cancelled has printed
\* its buffer, and the data of its last read is lost; one that has ended by itself
\* has printed everything.
Placed ==
  \A p \in Pipe :
    /\ log[p].cancelled => log[p].printed + Len(log[p].raw) + Len(pipe[p]) = sent[p]
    /\ ~log[p].cancelled /\ log[p].pc = "read" =>
         Taken(log[p]) + Len(pipe[p]) = sent[p]
    /\ ~log[p].cancelled /\ log[p].pc # "read" => log[p].printed + Len(pipe[p]) <= sent[p]
    /\ log[p].pc = "ended" => log[p].printed = sent[p]

\* A read holds data only when it has succeeded, none is under way after a
\* cancellation, and the end of the stream is final.
Reads ==
  \A p \in Pipe :
    /\ log[p].op # "ok" => log[p].raw = <<>>
    /\ log[p].cancelled => log[p].op # "pending"
    /\ log[p].pc = "read" /\ log[p].op = "eof" =>
         pipe[p] = <<>> /\ child = "dead" /\ ~heir

\* The log coroutines are cancelled once and together, by the advanced program.
CutOnce ==
  /\ cut => /\ kind = "advanced" /\ (asked \/ exec = "threw")
            /\ \A p \in Pipe : log[p].pc = "read" => log[p].cancelled
  /\ ~cut => \A p \in Pipe : ~log[p].cancelled
  /\ asked => exec \in {"grace", "done"}
  /\ heard => cut
  /\ kind = "advanced" /\ exec = "threw" => cut

\* How far execute() is says which log coroutines have ended.
Stages ==
  /\ exec = "log" => kind # "advanced"
  /\ exec = "grace" => kind = "advanced"
  /\ kind # "advanced" =>
       /\ log["err"].pc = "ended"
       /\ exec \in {"wait", "done"} => log["out"].pc = "ended"
       /\ exec = "threw" => log["out"].pc # "read"
  /\ kind = "advanced" /\ exec = "done" /\ ~cut => \A p \in Pipe : log[p].pc # "read"

IInv == TypeOK /\ Placed /\ Reads /\ CutOnce /\ Stages

\* The invariant contains both properties.
LEMMA Exact == IInv => LogIsExact /\ NoUseAfterFree
<1> SUFFICES ASSUME IInv PROVE LogIsExact /\ NoUseAfterFree
  OBVIOUS
<1>1. NoUseAfterFree
  BY DEF IInv, CutOnce, Stages, NoUseAfterFree, FrameGone, Pipe
<1>2. ASSUME NEW p \in Pipe
      PROVE  /\ log[p].printed + Len(pipe[p]) <= sent[p]
             /\ log[p].cancelled /\ log[p].raw = <<>> => log[p].printed + Len(pipe[p]) = sent[p]
  <2>1. log[p].printed \in Nat /\ Len(<<>>) = 0
    BY DEF IInv, TypeOK, Log
  <2>2. Len(log[p].buf) \in Nat /\ Len(log[p].raw) \in Nat /\ Len(pipe[p]) \in Nat
    BY DEF IInv, TypeOK, Log, Text
  <2>3. CASE log[p].cancelled
    BY <2>1, <2>2, <2>3 DEF IInv, Placed
  <2>4. CASE ~log[p].cancelled /\ log[p].pc = "read"
    <3>1. log[p].printed + Len(log[p].buf) + Len(log[p].raw) + Len(pipe[p]) = sent[p]
      BY <2>4 DEF IInv, Placed, Taken
    <3>2. \A i, j, k, l \in Nat : i + l <= i + j + k + l
      OBVIOUS
    <3>3. log[p].printed + Len(pipe[p]) <= sent[p]
      BY <2>1, <2>2, <3>1, <3>2, Zenon
    <3> QED
      BY <2>4, <3>3, Zenon
  <2>5. CASE ~log[p].cancelled /\ log[p].pc # "read"
    BY <2>5 DEF IInv, Placed
  <2> QED
    BY <2>3, <2>4, <2>5
<1>3. ASSUME NEW p \in Pipe
      PROVE  /\ ~log[p].cancelled /\ log[p].pc = "read" =>
                  log[p].printed + Len(log[p].buf) + Len(log[p].raw) + Len(pipe[p]) = sent[p]
             /\ exec = "done" /\ ~cut =>
                  log[p].pc # "read" /\ (log[p].pc = "ended" => log[p].printed = sent[p])
  BY DEF IInv, Placed, Taken, Stages, TypeOK, Pipe
<1> QED
  BY <1>1, <1>2, <1>3 DEF LogIsExact, IInv

\* A text with a newline has a first line.
LEMMA LineEndInText ==
  ASSUME NEW s \in Text, HasLine(s)
  PROVE  LineEnd(s) \in 1 .. Len(s)
<1> DEFINE T == {i \in 1 .. Len(s) : s[i] = "n"}
<1>1. T \subseteq Nat /\ T # {}
  BY DEF HasLine, Contains, Text
<1>2. PICK x \in T : \A y \in T : ~ (<<y, x>> \in OpToRel(<, Nat))
  BY <1>1, WFMin, NatLessThanWellFounded
<1>3. \A y \in T : ~ (y < x)
  BY <1>1, <1>2 DEF OpToRel
<1>4. s[x] = "n" /\ \A j \in 1 .. x - 1 : s[j] # "n"
  BY <1>3 DEF Text
<1> QED
  BY <1>4 DEF LineEnd

USE DEF Pipe, execVars, childVars, pipeVars

\* The state of a log coroutine when the process has been started.
LEMMA LogInitType ==
  ASSUME NEW on \in BOOLEAN
  PROVE  /\ LogInit(on) \in Log
         /\ LogInit(on).pc = IF on THEN "read" ELSE "ended"
         /\ LogInit(on).op = "pending" /\ LogInit(on).cancelled = FALSE
         /\ LogInit(on).buf = <<>> /\ LogInit(on).raw = <<>> /\ LogInit(on).printed = 0
  BY DEF LogInit, LogState, Log, Text, OpStatus, OpResult

\* The initial state satisfies the inductive invariant.
LEMMA InitIInv == Init => IInv
<1> SUFFICES ASSUME Init PROVE IInv
  OBVIOUS
<1>1. \A p \in Pipe : (p = "out" \/ kind = "advanced") \in BOOLEAN
  OBVIOUS
<1>2. \A p \in Pipe :
        /\ log[p] \in Log
        /\ log[p].pc = IF p = "out" \/ kind = "advanced" THEN "read" ELSE "ended"
        /\ log[p].op = "pending" /\ log[p].cancelled = FALSE
        /\ log[p].buf = <<>> /\ log[p].raw = <<>> /\ log[p].printed = 0
  BY <1>1, LogInitType DEF Init
<1>3. \A p \in Pipe : pipe[p] = <<>> /\ sent[p] = 0 /\ 0 <= MaxText[p]
  BY ProcessRunnerAssumption DEF Init, MaxText
<1>4. TypeOK
  <2>1. log \in [Pipe -> Log]
    BY <1>2 DEF Init
  <2>2. pipe \in [Pipe -> Text] /\ sent \in [Pipe -> Nat] /\ \A p \in Pipe : sent[p] <= MaxText[p]
    BY <1>3 DEF Init, Text
  <2>3. signals \in 0 .. MaxSignals
    BY ProcessRunnerAssumption DEF Init
  <2> QED
    BY <2>1, <2>2, <2>3 DEF Init, TypeOK
<1>5. Placed /\ Reads
  BY <1>2, <1>3 DEF Placed, Taken, Reads
<1>6. CutOnce /\ Stages
  BY <1>2 DEF Init, CutOnce, Stages
<1> QED
  BY <1>4, <1>5, <1>6 DEF IInv

\* What is in the buffer once the data of a read has been added.
LEMMA Lengths ==
  ASSUME NEW l \in Log
  PROVE  l.buf \o l.raw \in Text /\ l.printed + Len(l.buf \o l.raw) = Taken(l)
<1>1. l.buf \in Text /\ l.raw \in Text
  BY DEF Log
<1>2. l.buf \o l.raw \in Text /\ Len(l.buf \o l.raw) = Len(l.buf) + Len(l.raw)
  BY <1>1 DEF Text
<1>3. PICK i \in Nat, j \in Nat : i = Len(l.buf) /\ j = Len(l.raw)
  BY <1>1 DEF Text
<1>4. l.printed + (i + j) = l.printed + i + j
  BY DEF Log
<1> QED
  BY <1>2, <1>3, <1>4, Zenon DEF Taken

\* The rest of a text.
LEMMA RestOfText ==
  ASSUME NEW s \in Text, NEW k \in 0 .. Len(s)
  PROVE  SubSeq(s, k + 1, Len(s)) \in Text /\ Len(SubSeq(s, k + 1, Len(s))) = Len(s) - k
<1>1. \A i \in k + 1 .. Len(s) : s[i] \in {"c", "n"}
  BY DEF Text
<1>2. Len(s) \in Nat /\ k + 1 \in Int
  BY DEF Text
<1> QED
  BY <1>1, <1>2, SubSeqProperties DEF Text

\* The beginning of a text.
LEMMA StartOfText ==
  ASSUME NEW s \in Text, NEW k \in 0 .. Len(s)
  PROVE  SubSeq(s, 1, k) \in Text /\ Len(SubSeq(s, 1, k)) = k
<1>1. \A i \in 1 .. k : s[i] \in {"c", "n"}
  BY DEF Text
<1>2. Len(s) \in Nat /\ k \in Int
  BY DEF Text
<1> QED
  BY <1>1, <1>2, SubSeqProperties DEF Text

\* What the next read starts with.
LEMMA AwaitLineEffect ==
  ASSUME NEW l \in Log, NEW b \in Text, NEW k \in Nat
  PROVE  /\ AwaitLine(l, b, k) \in Log
         /\ AwaitLine(l, b, k).pc = l.pc /\ AwaitLine(l, b, k).cancelled = l.cancelled
         /\ AwaitLine(l, b, k).op \in {"ok", "pending"}
         /\ AwaitLine(l, b, k).buf = b /\ AwaitLine(l, b, k).raw = <<>>
         /\ AwaitLine(l, b, k).printed = k
  BY DEF AwaitLine, LogState, Log, OpStatus, OpResult, Text

\* A cancellation prints the buffer of a log coroutine that runs.
LEMMA LogCancelledEffect ==
  ASSUME NEW l \in Log
  PROVE  /\ LogCancelled(l, "terminal") \in Log
         /\ LogCancelled(l, "terminal").pc = l.pc
         /\ LogCancelled(l, "terminal").raw = l.raw
         /\ l.pc # "read" => LogCancelled(l, "terminal") = l
         /\ l.pc = "read" =>
              /\ LogCancelled(l, "terminal").cancelled
              /\ LogCancelled(l, "terminal").printed = l.printed + Len(l.buf)
              /\ LogCancelled(l, "terminal").op = IF l.op = "pending" THEN "aborted" ELSE l.op
<1>1. Filtered(LogFilter, "terminal") = "terminal"
  BY DEF Filtered, LogFilter, EnablePartial
<1> QED
  BY <1>1 DEF LogCancelled, LogState, Log, Text, OpStatus, OpResult

\* A log coroutine that runs changes its state to m, which accounts for every
\* character.
LEMMA LogChanges ==
  ASSUME IInv, NEW p \in Pipe, NEW m \in Log, log[p].pc = "read",
         log' = [log EXCEPT ![p] = m], UNCHANGED <<kind, execVars, childVars, sent>>,
         pipe' \in [Pipe -> Text], \A q \in Pipe \ {p} : pipe'[q] = pipe[q],
         m.cancelled = log[p].cancelled,
         m.cancelled => m.printed + Len(m.raw) + Len(pipe'[p]) = sent[p],
         ~m.cancelled /\ m.pc = "read" => Taken(m) + Len(pipe'[p]) = sent[p],
         ~m.cancelled /\ m.pc # "read" => m.printed + Len(pipe'[p]) <= sent[p],
         m.pc = "ended" => m.printed = sent[p],
         m.op # "ok" => m.raw = <<>>,
         m.cancelled => m.op # "pending",
         m.pc = "read" /\ m.op = "eof" => pipe'[p] = <<>> /\ child = "dead" /\ ~heir
  PROVE  IInv'
<1>1. log' \in [Pipe -> Log] /\ log'[p] = m /\ \A q \in Pipe \ {p} : log'[q] = log[q]
  BY DEF IInv, TypeOK
<1>2. TypeOK'
  BY <1>1 DEF IInv, TypeOK
<1>3. Placed'
  BY <1>1 DEF IInv, Placed
<1>4. Reads'
  BY <1>1 DEF IInv, Reads
<1>5. CutOnce'
  BY <1>1 DEF IInv, CutOnce
<1>6. Stages'
  BY <1>1 DEF IInv, Stages
<1> QED
  BY <1>2, <1>3, <1>4, <1>5, <1>6 DEF IInv

\* Printing a line moves it from the buffer to what has been printed.
LEMMA LinePrinted ==
  ASSUME NEW l \in Log, NEW b \in Text, HasLine(b)
  PROVE  \E m \in Log :
           /\ m = AwaitLine(l, SubSeq(b, LineEnd(b) + 1, Len(b)), l.printed + LineEnd(b))
           /\ m.pc = l.pc /\ m.cancelled = l.cancelled
           /\ m.op \in {"ok", "pending"} /\ m.raw = <<>>
           /\ Taken(m) = l.printed + Len(b)
<1>1. Len(b) \in Nat /\ l.printed \in Nat
  BY DEF Log, Text
<1>2. LineEnd(b) \in 1 .. Len(b)
  BY LineEndInText
<1>3. PICK e \in 0 .. Len(b) : e = LineEnd(b)
  BY <1>1, <1>2
<1>4. PICK r \in Text : r = SubSeq(b, e + 1, Len(b)) /\ Len(r) = Len(b) - e
  BY RestOfText
<1>5. PICK k \in Nat : k = l.printed + e
  BY <1>1
<1>6. PICK m \in Log :
        /\ m = AwaitLine(l, r, k) /\ m.pc = l.pc /\ m.cancelled = l.cancelled
        /\ m.op \in {"ok", "pending"} /\ m.raw = <<>> /\ m.buf = r /\ m.printed = k
  BY AwaitLineEffect
<1>7. Taken(m) = l.printed + Len(b)
  <2>1. Taken(m) = (l.printed + e) + (Len(b) - e) + Len(<<>>)
    BY <1>4, <1>5, <1>6, Zenon DEF Taken
  <2>2. e \in Int /\ Len(<<>>) = 0
    BY <1>1
  <2> QED
    BY <1>1, <2>1, <2>2
<1>8. m = AwaitLine(l, SubSeq(b, LineEnd(b) + 1, Len(b)), l.printed + LineEnd(b))
  BY <1>3, <1>4, <1>5, <1>6, Zenon
<1> QED
  BY <1>6, <1>7, <1>8

\* A line is printed.
LEMMA LogPrintsStep == ASSUME IInv, NEW p \in Pipe, LogPrints(p) PROVE IInv'
<1>1. log[p] \in Log /\ pipe[p] \in Text /\ pipe \in [Pipe -> Text]
  BY DEF IInv, TypeOK
<1>2. PICK b \in Text : b = log[p].buf \o log[p].raw /\ log[p].printed + Len(b) = Taken(log[p])
  BY <1>1, Lengths
<1>3. /\ log[p].pc = "read" /\ ~log[p].cancelled /\ HasLine(b)
      /\ log' = [log EXCEPT ![p] = AwaitLine(log[p], SubSeq(b, LineEnd(b) + 1, Len(b)),
                                             log[p].printed + LineEnd(b))]
      /\ UNCHANGED <<kind, execVars, childVars, pipeVars>>
  BY <1>2, Zenon DEF LogPrints
<1>4. PICK m \in Log :
        /\ m = AwaitLine(log[p], SubSeq(b, LineEnd(b) + 1, Len(b)), log[p].printed + LineEnd(b))
        /\ m.pc = log[p].pc /\ m.cancelled = log[p].cancelled
        /\ m.op \in {"ok", "pending"} /\ m.raw = <<>>
        /\ Taken(m) = log[p].printed + Len(b)
  BY <1>1, <1>3, LinePrinted, Zenon
<1>5. Taken(m) + Len(pipe[p]) = sent[p]
  BY <1>2, <1>3, <1>4, Zenon DEF IInv, Placed
<1>6. log' = [log EXCEPT ![p] = m]
  BY <1>3, <1>4, Zenon
<1> QED
  BY <1>1, <1>3, <1>4, <1>5, <1>6, LogChanges

\* The buffer has no line yet: what has been read is in the buffer.
LEMMA LineAwaited ==
  ASSUME NEW l \in Log, NEW b \in Text
  PROVE  \E m \in Log :
           /\ m = AwaitLine(l, b, l.printed)
           /\ m.pc = l.pc /\ m.cancelled = l.cancelled
           /\ m.op \in {"ok", "pending"} /\ m.raw = <<>>
           /\ Taken(m) = l.printed + Len(b)
<1>1. PICK k \in Nat : k = l.printed
  BY DEF Log
<1>2. PICK m \in Log :
        /\ m = AwaitLine(l, b, k) /\ m.pc = l.pc /\ m.cancelled = l.cancelled
        /\ m.op \in {"ok", "pending"} /\ m.raw = <<>> /\ m.buf = b /\ m.printed = k
  BY AwaitLineEffect
<1>3. PICK i \in Nat : i = Len(b)
  BY DEF Text
<1>4. k + i + Len(<<>>) = k + i
  OBVIOUS
<1>5. Taken(m) = l.printed + Len(b)
  BY <1>1, <1>2, <1>3, <1>4, Zenon DEF Taken
<1> QED
  BY <1>1, <1>2, <1>5, Zenon

\* The data of a read has no newline.
LEMMA LogReadsOnStep == ASSUME IInv, NEW p \in Pipe, LogReadsOn(p) PROVE IInv'
<1>1. log[p] \in Log /\ pipe[p] \in Text /\ pipe \in [Pipe -> Text]
  BY DEF IInv, TypeOK
<1>2. PICK b \in Text : b = log[p].buf \o log[p].raw /\ log[p].printed + Len(b) = Taken(log[p])
  BY <1>1, Lengths
<1>3. /\ log[p].pc = "read" /\ ~log[p].cancelled
      /\ log' = [log EXCEPT ![p] = AwaitLine(log[p], b, log[p].printed)]
      /\ UNCHANGED <<kind, execVars, childVars, pipeVars>>
  BY <1>2, Zenon DEF LogReadsOn
<1>4. PICK m \in Log :
        /\ m = AwaitLine(log[p], b, log[p].printed)
        /\ m.pc = log[p].pc /\ m.cancelled = log[p].cancelled
        /\ m.op \in {"ok", "pending"} /\ m.raw = <<>>
        /\ Taken(m) = log[p].printed + Len(b)
  BY <1>1, LineAwaited, Zenon
<1>5. Taken(m) + Len(pipe[p]) = sent[p]
  BY <1>2, <1>3, <1>4, Zenon DEF IInv, Placed
<1>6. log' = [log EXCEPT ![p] = m]
  BY <1>3, <1>4, Zenon
<1> QED
  BY <1>1, <1>3, <1>4, <1>5, <1>6, LogChanges

\* A log coroutine ends, by itself or because it has been cancelled.
LEMMA LogEndsStep == ASSUME IInv, NEW p \in Pipe, LogEnds(p) \/ LogThrows(p) PROVE IInv'
<1>1. log[p] \in Log /\ pipe[p] \in Text /\ pipe \in [Pipe -> Text]
  BY DEF IInv, TypeOK
<1>2. log[p].pc = "read" /\ UNCHANGED <<kind, execVars, childVars, pipeVars>>
  BY DEF LogEnds, LogThrows
<1>3. CASE LogEnds(p)
  <2>1. PICK m : /\ m = LogState(IF log[p].op = "eof" THEN "ended" ELSE "threw", log[p].op, FALSE,
                                 log[p].buf, log[p].raw, log[p].printed + Len(log[p].buf))
                 /\ log' = [log EXCEPT ![p] = m]
    BY <1>3 DEF LogEnds
  <2>2. /\ m \in Log /\ m.pc = (IF log[p].op = "eof" THEN "ended" ELSE "threw")
        /\ m.op = log[p].op /\ m.cancelled = FALSE /\ m.raw = log[p].raw
        /\ m.printed = log[p].printed + Len(log[p].buf)
    BY <1>1, <2>1 DEF LogState, Log, Text
  <2>3. ~log[p].cancelled /\ Taken(log[p]) + Len(pipe[p]) = sent[p]
    BY <1>2, <1>3 DEF LogEnds, IInv, Placed
  <2>4. log[p].op = "eof" => Len(log[p].raw) = 0 /\ Len(pipe[p]) = 0
    BY <1>2 DEF IInv, Reads
  <2>5. log[p].op = "eof" => m.printed = sent[p]
    BY <1>1, <2>2, <2>3, <2>4 DEF Taken, Log, Text
  <2>6. log[p].op # "ok" => log[p].raw = <<>>
    BY DEF IInv, Reads
  <2>7. m.cancelled = log[p].cancelled
    BY <1>1, <2>2, <2>3 DEF Log
  <2>8. m.printed + Len(pipe[p]) <= sent[p]
    BY <1>1, <2>2, <2>3 DEF Taken, Log, Text
  <2>9. /\ pipe' = pipe /\ UNCHANGED <<kind, execVars, childVars, sent>>
        /\ ~m.cancelled /\ m.pc # "read"
    BY <1>2, <2>2 DEF pipeVars
  <2> QED
    BY <1>1, <1>2, <2>1, <2>2, <2>5, <2>6, <2>7, <2>8, <2>9, LogChanges
<1>4. CASE LogThrows(p)
  <2>1. PICK m : /\ m = LogState("threw", log[p].op, TRUE, log[p].buf, log[p].raw, log[p].printed)
                 /\ log' = [log EXCEPT ![p] = m]
    BY <1>4 DEF LogThrows
  <2>2. /\ m \in Log /\ m.pc = "threw" /\ m.op = log[p].op /\ m.cancelled = TRUE
        /\ m.raw = log[p].raw /\ m.printed = log[p].printed
    BY <1>1, <2>1 DEF LogState, Log
  <2>3. log[p].cancelled /\ log[p].op # "pending"
    BY <1>4 DEF LogThrows
  <2>4. /\ log[p].printed + Len(log[p].raw) + Len(pipe[p]) = sent[p]
        /\ log[p].op # "ok" => log[p].raw = <<>>
    BY <2>3 DEF IInv, Placed, Reads
  <2>5. m.cancelled = log[p].cancelled
    BY <1>1, <2>2, <2>3 DEF Log
  <2> QED
    BY <1>1, <1>2, <2>1, <2>2, <2>3, <2>4, <2>5, LogChanges
<1> QED
  BY <1>3, <1>4

\* A read takes the beginning of what is in the pipe.
LEMMA ReadCompletesStep == ASSUME IInv, NEW p \in Pipe, NEW len, ReadCompletes(p, len) PROVE IInv'
<1>1. log[p] \in Log /\ pipe[p] \in Text /\ pipe \in [Pipe -> Text]
  BY DEF IInv, TypeOK
<1>2. /\ log[p].pc = "read" /\ log[p].op = "pending" /\ len \in 1 .. Len(pipe[p])
      /\ log' = [log EXCEPT ![p] = LogState("read", "ok", log[p].cancelled, log[p].buf,
                                            SubSeq(pipe[p], 1, len), log[p].printed)]
      /\ pipe' = [pipe EXCEPT ![p] = SubSeq(pipe[p], len + 1, Len(pipe[p]))]
      /\ UNCHANGED <<kind, execVars, childVars, sent>>
  BY DEF ReadCompletes
<1>3. PICK k \in 0 .. Len(pipe[p]) : k = len
  BY <1>1, <1>2 DEF Text
<1>4. PICK a \in Text : a = SubSeq(pipe[p], 1, k) /\ Len(a) = k
  BY <1>1, StartOfText
<1>5. PICK r \in Text : r = SubSeq(pipe[p], k + 1, Len(pipe[p])) /\ Len(r) = Len(pipe[p]) - k
  BY <1>1, RestOfText
<1>6. PICK m : m = LogState("read", "ok", log[p].cancelled, log[p].buf, a, log[p].printed)
  OBVIOUS
<1>7. log' = [log EXCEPT ![p] = m] /\ pipe' = [pipe EXCEPT ![p] = r]
  BY <1>2, <1>3, <1>4, <1>5, <1>6, Zenon
<1>8. /\ m \in Log /\ m.pc = "read" /\ m.op = "ok" /\ m.cancelled = log[p].cancelled
      /\ m.buf = log[p].buf /\ m.raw = a /\ m.printed = log[p].printed
  BY <1>1, <1>6 DEF LogState, Log, OpStatus, OpResult
<1>9. ~log[p].cancelled /\ log[p].raw = <<>> /\ Taken(log[p]) + Len(pipe[p]) = sent[p]
  BY <1>2 DEF IInv, Placed, Reads
<1>10. pipe' \in [Pipe -> Text] /\ pipe'[p] = r /\ \A q \in Pipe \ {p} : pipe'[q] = pipe[q]
  BY <1>1, <1>7
<1>11. Taken(m) + Len(pipe'[p]) = sent[p]
  <2>1. PICK i \in Nat, j \in Nat : i = Len(log[p].buf) /\ j = Len(pipe[p])
    <3>1. log[p].buf \in Text
      BY <1>1 DEF Log
    <3> QED
      BY <1>1, <3>1 DEF Text
  <2>2. log[p].printed + i + 0 + j = sent[p] /\ log[p].printed \in Nat
    BY <1>1, <1>9, <2>1 DEF Taken, Log
  <2>3. Taken(m) + Len(pipe'[p]) = log[p].printed + i + k + (j - k)
    BY <1>4, <1>5, <1>8, <1>10, <2>1, Zenon DEF Taken
  <2>4. k \in Nat
    BY <1>1 DEF Text
  <2> QED
    BY <2>2, <2>3, <2>4
<1> QED
  BY <1>2, <1>7, <1>8, <1>9, <1>10, <1>11, LogChanges

\* A read ends with the end of the stream or an error.
LEMMA ReadEndsStep == ASSUME IInv, NEW p \in Pipe, NEW r \in {"eof", "error"}, ReadEnds(p, r) PROVE IInv'
<1>1. log[p] \in Log /\ pipe[p] \in Text /\ pipe \in [Pipe -> Text]
  BY DEF IInv, TypeOK
<1>2. /\ log[p].pc = "read" /\ log[p].op = "pending"
      /\ r = "eof" => pipe[p] = <<>> /\ child = "dead" /\ ~heir
      /\ UNCHANGED <<kind, execVars, childVars, pipeVars>>
  BY DEF ReadEnds
<1>3. PICK m : /\ m = LogState("read", r, log[p].cancelled, log[p].buf, log[p].raw, log[p].printed)
               /\ log' = [log EXCEPT ![p] = m]
  BY DEF ReadEnds
<1>4. /\ m \in Log /\ m.pc = "read" /\ m.op = r /\ m.cancelled = log[p].cancelled
      /\ m.buf = log[p].buf /\ m.raw = log[p].raw /\ m.printed = log[p].printed
  BY <1>1, <1>3 DEF LogState, Log, OpStatus, OpResult
<1>5. ~log[p].cancelled /\ log[p].raw = <<>> /\ Taken(log[p]) + Len(pipe[p]) = sent[p]
  BY <1>2 DEF IInv, Placed, Reads
<1>6. Taken(m) + Len(pipe[p]) = sent[p]
  BY <1>4, <1>5, Zenon DEF Taken
<1> QED
  BY <1>1, <1>2, <1>3, <1>4, <1>5, <1>6, LogChanges

\* A process writes to a pipe.
LEMMA ProcessWritesStep == ASSUME IInv, NEW p \in Pipe, NEW c \in {"c", "n"}, ProcessWrites(p, c) PROVE IInv'
<1>1. log[p] \in Log /\ pipe[p] \in Text /\ sent[p] \in Nat
  BY DEF IInv, TypeOK
<1>2. /\ child = "running" \/ heir
      /\ log[p].pc = "read" /\ sent[p] < MaxText[p]
      /\ sent' = [sent EXCEPT ![p] = @ + 1] /\ pipe' = [pipe EXCEPT ![p] = Append(pipe[p], c)]
      /\ UNCHANGED <<kind, execVars, log, childVars>>
  BY DEF ProcessWrites
<1>3. PICK r \in Text : r = Append(pipe[p], c) /\ Len(r) = Len(pipe[p]) + 1
  <2>1. Append(pipe[p], c) \in Text /\ Len(Append(pipe[p], c)) = Len(pipe[p]) + 1
    BY <1>1, AppendProperties DEF Text
  <2> QED
    BY <2>1, Zenon
<1>4. /\ pipe' \in [Pipe -> Text] /\ pipe'[p] = r /\ \A q \in Pipe \ {p} : pipe'[q] = pipe[q]
      /\ sent' \in [Pipe -> Nat] /\ sent'[p] = sent[p] + 1 /\ \A q \in Pipe \ {p} : sent'[q] = sent[q]
  BY <1>1, <1>2, <1>3 DEF IInv, TypeOK
<1>5. sent'[p] <= MaxText[p]
  <2>1. MaxText[p] \in Nat
    BY ProcessRunnerAssumption DEF MaxText
  <2> QED
    BY <1>1, <1>2, <1>4, <2>1
<1>6. TypeOK'
  BY <1>2, <1>4, <1>5 DEF IInv, TypeOK
<1>7. Placed'
  <2>1. PICK j \in Nat : j = Len(pipe[p])
    BY <1>1 DEF Text
  <2>2. Len(pipe'[p]) = j + 1
    BY <1>3, <1>4, <2>1, Zenon
  <2>3. log[p].cancelled => log[p].printed + Len(log[p].raw) + Len(pipe'[p]) = sent'[p]
    <3>1. log[p].cancelled => log[p].printed + Len(log[p].raw) + j = sent[p]
      BY <2>1 DEF IInv, Placed
    <3> QED
      BY <1>1, <1>4, <2>2, <3>1 DEF Log, Text
  <2>4. ~log[p].cancelled => Taken(log[p]) + Len(pipe'[p]) = sent'[p]
    <3>1. ~log[p].cancelled => Taken(log[p]) + j = sent[p]
      BY <1>2, <2>1 DEF IInv, Placed
    <3>2. Taken(log[p]) \in Nat
      BY <1>1 DEF Log, Text, Taken
    <3> QED
      BY <1>4, <2>2, <3>1, <3>2
  <2> QED
    BY <1>2, <1>4, <2>3, <2>4 DEF IInv, Placed
<1>8. Reads'
  BY <1>2, <1>4 DEF IInv, Reads
<1>9. CutOnce' /\ Stages'
  BY <1>2 DEF IInv, CutOnce, Stages
<1> QED
  BY <1>6, <1>7, <1>8, <1>9 DEF IInv

\* Steps that change neither what is logged nor what is in the pipes.
LEMMA SameText ==
  ASSUME Placed, UNCHANGED <<log, pipeVars>>
  PROVE  Placed'
  BY DEF Placed, Taken

\* execute() goes on, and the program ends.
LEMMA ExecuteStep ==
  ASSUME IInv, Communicated \/ Waited \/ Executed \/ GraceEnds \/ Interrupted \/ Ended
  PROVE  IInv'
<1>1. UNCHANGED <<kind, asked, heard, cut, termed, log, child, left, heir, pipeVars>>
  BY DEF Communicated, Waited, Executed, GraceEnds, Interrupted, Ended, vars
<1>2. TypeOK'
  <2>1. exec' \in {"log", "wait", "grace", "done", "threw"}
    BY DEF Communicated, Waited, Executed, GraceEnds, Interrupted, Ended, vars, IInv, TypeOK
  <2>2. pending' \subseteq {"INT", "TERM", "KILL"}
    BY DEF Communicated, Waited, Executed, GraceEnds, Interrupted, Ended, vars, IInv, TypeOK
  <2>3. signals' \in 0 .. MaxSignals
    BY ProcessRunnerAssumption
    DEF Communicated, Waited, Executed, GraceEnds, Interrupted, Ended, vars, IInv, TypeOK
  <2> QED
    BY <1>1, <2>1, <2>2, <2>3 DEF IInv, TypeOK
<1>3. Placed'
  BY <1>1, SameText DEF IInv
<1>4. Reads'
  BY <1>1 DEF IInv, Reads
<1>5. CutOnce'
  BY <1>1 DEF Communicated, Waited, Executed, GraceEnds, Interrupted, Ended, vars, IInv, TypeOK,
     CutOnce, Stages
<1>6. Stages'
  BY <1>1 DEF Communicated, Waited, Executed, GraceEnds, Interrupted, Ended, vars, IInv, TypeOK,
     CutOnce, Stages, FrameGone, Log
<1> QED
  BY <1>2, <1>3, <1>4, <1>5, <1>6 DEF IInv

\* The child starts, gets signals and ends, and so does its descendant.
LEMMA ChildStep == ASSUME IInv, Child \/ ChildTimesOut \/ HeirEnds PROVE IInv'
<1>1. UNCHANGED <<kind, execVars, log, pipeVars>>
  BY DEF Child, ChildStarts, ChildSignalled, ChildTimesOut, HeirEnds
<1>2. (child = "dead" => child' = "dead") /\ (~heir => ~heir')
  BY DEF Child, ChildStarts, ChildSignalled, ChildTimesOut, HeirEnds
<1>3. child' \in {"starting", "running", "dead"} /\ heir' \in BOOLEAN
      /\ pending' \subseteq {"INT", "TERM", "KILL"}
  BY DEF Child, ChildStarts, ChildSignalled, ChildTimesOut, HeirEnds, IInv, TypeOK
<1>4. left' \in [{"INT", "TERM"} -> 0 .. Unset]
  <2>1. CASE \E s \in {"INT", "TERM", "KILL"} : ChildSignalled(s)
    <3>1. PICK s \in {"INT", "TERM", "KILL"} : ChildSignalled(s)
      BY <2>1
    <3>2. CASE UNCHANGED left
      BY <3>2 DEF IInv, TypeOK
    <3>3. CASE ~UNCHANGED left
      <4>1. s # "KILL" /\ left[s] # 0 /\ left' = [left EXCEPT ![s] = @ - 1]
        BY <3>1, <3>3 DEF ChildSignalled, Kills
      <4>2. s \in {"INT", "TERM"} /\ Unset \in Nat
        BY <3>1, <4>1, ProcessRunnerAssumption DEF Unset
      <4>3. left[s] - 1 \in 0 .. Unset
        BY <4>1, <4>2 DEF IInv, TypeOK
      <4> QED
        BY <4>1, <4>2, <4>3 DEF IInv, TypeOK
    <3> QED
      BY <3>2, <3>3
  <2>2. CASE ChildStarts \/ ChildTimesOut \/ HeirEnds
    BY <2>2 DEF ChildStarts, ChildTimesOut, HeirEnds, IInv, TypeOK
  <2> QED
    BY <2>1, <2>2 DEF Child
<1>5. TypeOK'
  BY <1>1, <1>3, <1>4 DEF IInv, TypeOK
<1>6. Placed'
  BY <1>1, SameText DEF IInv
<1>7. Reads'
  BY <1>1, <1>2 DEF IInv, Reads
<1>8. CutOnce' /\ Stages'
  BY <1>1 DEF IInv, CutOnce, Stages
<1> QED
  BY <1>5, <1>6, <1>7, <1>8 DEF IInv

\* Both log coroutines are cancelled, if nobody has cancelled them before.
LEMMA CutStep ==
  ASSUME IInv, ~cut, kind = "advanced", exec \in {"wait", "grace"},
         log' = [p \in Pipe |-> LogCancelled(log[p], "terminal")],
         cut' = TRUE, UNCHANGED <<kind, child, left, heir, pipeVars>>,
         asked' \in BOOLEAN, heard' \in BOOLEAN, termed' \in BOOLEAN,
         signals' \in 0 .. MaxSignals, pending' \subseteq {"INT", "TERM", "KILL"},
         \/ exec' = exec /\ exec = "grace" /\ asked'
         \/ exec' = "threw" /\ UNCHANGED asked /\ exec = "wait"
  PROVE  IInv'
<1>1. \A p \in Pipe : log[p] \in Log /\ ~log[p].cancelled
  BY DEF IInv, TypeOK, CutOnce
<1>2. ASSUME NEW p \in Pipe
      PROVE  /\ log'[p] \in Log /\ log'[p].pc = log[p].pc
             /\ log'[p].raw = log[p].raw
             /\ log[p].pc # "read" => log'[p] = log[p]
             /\ log[p].pc = "read" =>
                  /\ log'[p].cancelled
                  /\ log'[p].printed = log[p].printed + Len(log[p].buf)
                  /\ log'[p].op = IF log[p].op = "pending" THEN "aborted" ELSE log[p].op
  BY <1>1, LogCancelledEffect
<1>3. TypeOK'
  BY <1>2 DEF IInv, TypeOK
<1>4. Placed'
  <2> SUFFICES ASSUME NEW p \in Pipe
               PROVE  /\ log'[p].cancelled => log'[p].printed + Len(log'[p].raw) + Len(pipe[p]) = sent[p]
                      /\ ~log'[p].cancelled =>
                           log'[p].pc # "read" /\ log'[p].printed + Len(pipe[p]) <= sent[p]
                      /\ log'[p].pc = "ended" => log'[p].printed = sent[p]
    BY DEF Placed
  <2>1. CASE log[p].pc # "read"
    BY <1>1, <1>2, <2>1 DEF IInv, Placed
  <2>2. CASE log[p].pc = "read"
    <3>1. Taken(log[p]) + Len(pipe[p]) = sent[p]
      BY <1>1, <2>2 DEF IInv, Placed
    <3>2. log'[p].printed + Len(log'[p].raw) = Taken(log[p])
      BY <1>2, <2>2, Zenon DEF Taken
    <3> QED
      BY <1>2, <2>2, <3>1, <3>2
  <2> QED
    BY <2>1, <2>2
<1>5. Reads'
  BY <1>1, <1>2 DEF IInv, Reads
<1>6. CutOnce'
  BY <1>2 DEF IInv, CutOnce
<1>7. Stages'
  BY DEF IInv, Stages
<1> QED
  BY <1>3, <1>4, <1>5, <1>6, <1>7 DEF IInv

\* async_execute() fails, the time is up, or the user sends a signal.
LEMMA CancelStep ==
  ASSUME IInv, WaitFails \/ GraceExpires \/ \E s \in UserSignal : HandleSignal(s)
  PROVE  IInv'
<1>1. CASE WaitFails
  <2>1. ~cut
    BY <1>1 DEF WaitFails, IInv, CutOnce
  <2> QED
    BY <1>1, <2>1, CutStep DEF WaitFails, IInv, TypeOK
<1>2. CASE GraceExpires
  <2>1. ~cut /\ kind = "advanced"
    BY <1>2 DEF GraceExpires, IInv, CutOnce, Stages
  <2> QED
    BY <1>2, <2>1, CutStep DEF GraceExpires, GroupCancelled, IInv, TypeOK
<1>3. ASSUME NEW s \in UserSignal, HandleSignal(s) PROVE IInv'
  <2>1. /\ kind = "advanced" /\ signals' \in 0 .. MaxSignals /\ termed' \in BOOLEAN
        /\ UNCHANGED <<kind, exec, child, left, heir, pipeVars>>
    BY <1>3, ProcessRunnerAssumption DEF HandleSignal, IInv, TypeOK
  <2>2. CASE exec = "wait" /\ UNCHANGED <<asked, heard, cut, log>>
    <3>1. pending' \subseteq {"INT", "TERM", "KILL"}
      BY <1>3, <2>2 DEF HandleSignal, UserSignal, TypeOf, Sends, IInv, TypeOK
    <3>2. TypeOK'
      BY <2>1, <2>2, <3>1 DEF IInv, TypeOK
    <3>3. Placed'
      BY <2>1, <2>2, SameText DEF IInv
    <3>4. Reads' /\ CutOnce' /\ Stages'
      BY <2>1, <2>2 DEF IInv, Reads, CutOnce, Stages
    <3> QED
      BY <3>2, <3>3, <3>4 DEF IInv
  <2>3. CASE exec = "grace" /\ GroupCancelled("terminal") /\ UNCHANGED pending
    <3>1. CASE asked
      <4>1. asked' /\ UNCHANGED <<heard, cut, log>>
        BY <2>3, <3>1 DEF GroupCancelled
      <4>2. TypeOK'
        BY <2>1, <2>3, <4>1 DEF IInv, TypeOK
      <4>3. Placed'
        BY <2>1, <4>1, SameText DEF IInv
      <4>4. Reads' /\ CutOnce' /\ Stages'
        BY <2>1, <2>3, <4>1 DEF IInv, Reads, CutOnce, Stages
      <4> QED
        BY <4>2, <4>3, <4>4 DEF IInv
    <3>2. CASE ~asked
      <4>1. ~cut
        BY <2>3, <3>2 DEF IInv, CutOnce
      <4> QED
        BY <2>1, <2>3, <3>2, <4>1, CutStep DEF GroupCancelled, IInv, TypeOK
    <3> QED
      BY <3>1, <3>2
  <2> QED
    BY <1>3, <2>2, <2>3 DEF HandleSignal, GraceFilter
<1> QED
  BY <1>1, <1>2, <1>3

\* Every step keeps the invariant.
LEMMA Inductive == IInv /\ [Next]_vars => IInv'
<1> SUFFICES ASSUME IInv, [Next]_vars PROVE IInv'
  OBVIOUS
<1>1. CASE Execute \/ WaitFails \/ Interrupted \/ \E s \in UserSignal : HandleSignal(s)
  BY <1>1, ExecuteStep, CancelStep DEF Execute
<1>2. CASE Child \/ ChildTimesOut \/ HeirEnds
  BY <1>2, ChildStep
<1>3. ASSUME NEW p \in Pipe, LogStep(p) PROVE IInv'
  BY <1>3, LogPrintsStep, LogReadsOnStep, LogEndsStep DEF LogStep
<1>4. ASSUME NEW p \in Pipe,
             Read(p) \/ ReadEnds(p, "error") \/ \E c \in {"c", "n"} : ProcessWrites(p, c)
      PROVE  IInv'
  BY <1>4, ReadCompletesStep, ReadEndsStep, ProcessWritesStep DEF Read
<1>5. CASE Ended \/ UNCHANGED vars
  <2>1. UNCHANGED vars
    BY <1>5 DEF Ended
  <2>2. Placed'
    BY <2>1, SameText DEF vars, IInv
  <2> QED
    BY <2>1, <2>2 DEF vars, IInv, TypeOK, Reads, CutOnce, Stages
<1> QED
  BY <1>1, <1>2, <1>3, <1>4, <1>5 DEF Next

\* The inductive invariant of the programs that run a child process.
THEOREM Invariant == Spec => []IInv
  BY InitIInv, Inductive, PTL DEF Spec

\* log() prints no character twice and loses none that it should print, for texts
\* of any length and whenever it is cancelled (log.cpp:80, 102).
THEOREM ExactLog == Spec => []LogIsExact
  BY Invariant, Exact, PTL

\* No log coroutine touches a pipe of execute() that has returned, for texts of
\* any length and any number of signals (ping_signal_advanced.cpp:65).
THEOREM MemorySafe == Spec => []NoUseAfterFree
  BY Invariant, Exact, PTL

-----------------------------------------------------------------------------
(***************************************************************************)
(* The end of the process, and SIGTERM, end execute().                     *)
(***************************************************************************)
\* A group that has been asked to cancel has passed it on, and a SIGTERM that was
\* handled before the child was dead is on its way to it.
Ending ==
  /\ asked => heard
  /\ termed => kind = "advanced"
  /\ termed /\ exec = "wait" => child = "dead" \/ "KILL" \in pending

\* The guards of Execute and of Child.
ExecuteReady ==
  \/ exec = "log" /\ log["out"].pc # "read"
  \/ exec = "wait" /\ child = "dead"
  \/ exec = "grace" /\ (~asked \/ heard \/ \A p \in Pipe : log[p].pc # "read")
ChildReady == child # "dead" /\ ~FrameGone /\ (child = "starting" \/ pending # {})

\* How many steps of execute() and of the child there can still be.
ExecuteRank == CASE exec = "log" -> 4 [] exec = "wait" -> 3
                 [] exec = "grace" -> (IF asked THEN 1 ELSE 2) [] FrameGone -> 0
ChildRank   == CASE child = "starting" -> 2 [] child = "running" -> 1 [] child = "dead" -> 0
Due(s)      == IF s \in pending THEN 1 ELSE 0
StepsLeft   == ExecuteRank + ChildRank + Due("INT") + Due("TERM") + Due("KILL")
               + 2 * (MaxSignals - signals)

\* What this is about.
runVars == <<kind, exec, asked, heard, termed, signals, child, pending>>

\* The steps of the others.
Quiet == \/ HeirEnds \/ Ended
         \/ \E p \in Pipe : \/ LogStep(p) \/ Read(p) \/ ReadEnds(p, "error")
                            \/ \E c \in {"c", "n"} : ProcessWrites(p, c)

\* Quiet steps change nothing of it.
LEMMA QuietStep == Quiet => UNCHANGED runVars
  BY DEF Quiet, HeirEnds, Ended, LogStep, LogPrints, LogReadsOn, LogEnds, LogThrows, Read,
     ReadCompletes, ReadEnds, ProcessWrites, runVars, vars, execVars, childVars

\* The part of the type invariant that is used.
RunType ==
  /\ exec \in {"log", "wait", "grace", "done", "threw"} /\ asked \in BOOLEAN
  /\ child \in {"starting", "running", "dead"} /\ pending \subseteq {"INT", "TERM", "KILL"}
  /\ signals \in 0 .. MaxSignals

\* Every step keeps Ending.
LEMMA EndingInductive == IInv /\ Ending /\ [Next]_vars => Ending'
<1> SUFFICES ASSUME IInv, Ending, [Next]_vars PROVE Ending'
  OBVIOUS
<1>t. RunType /\ CutOnce /\ Stages
  BY DEF IInv, TypeOK, RunType
<1>1. CASE Quiet
  BY <1>1, QuietStep DEF runVars, Ending
<1>2. CASE Execute \/ WaitFails
  <2>1. CASE GraceExpires
    BY <2>1, <1>t DEF GraceExpires, GroupCancelled, Ending, childVars
  <2>2. CASE Communicated \/ Waited \/ Executed \/ GraceEnds \/ WaitFails
    <3>1. UNCHANGED <<kind, asked, heard, termed, child, pending>>
      BY <2>2 DEF Communicated, Waited, Executed, GraceEnds, WaitFails, childVars
    <3>2. exec' = "wait" => kind # "advanced"
      BY <2>2, <1>t DEF Communicated, Waited, Executed, GraceEnds, WaitFails, Stages
    <3> QED
      BY <3>1, <3>2 DEF Ending
  <2> QED
    BY <1>2, <2>1, <2>2 DEF Execute
<1>3. CASE Child \/ ChildTimesOut
  BY <1>3 DEF Child, ChildStarts, ChildSignalled, ChildTimesOut, Ending, execVars, Kills
<1>4. CASE Interrupted
  BY <1>4 DEF Interrupted, Ending
<1>5. ASSUME NEW s \in UserSignal, HandleSignal(s) PROVE Ending'
  <2>1. UNCHANGED <<kind, exec, child>> /\ kind = "advanced"
    BY <1>5 DEF HandleSignal
  <2>2. CASE exec = "wait"
    <3>1. UNCHANGED <<asked, heard>>
      BY <1>5, <2>2 DEF HandleSignal
    <3>2. pending \subseteq pending'
      BY <1>5, <2>2 DEF HandleSignal
    <3>3. s = "TERM" => child = "dead" \/ "KILL" \in pending'
      BY <1>5, <2>2 DEF HandleSignal, Sends, TypeOf
    <3>4. termed' = (termed \/ s = "TERM")
      BY <1>5 DEF HandleSignal
    <3> QED
      BY <2>1, <3>1, <3>2, <3>3, <3>4 DEF Ending
  <2>3. CASE exec # "wait"
    <3>1. GroupCancelled("terminal")
      BY <1>5, <2>3 DEF HandleSignal, GraceFilter
    <3>2. heard'
      BY <3>1 DEF GroupCancelled, Ending
    <3> QED
      BY <2>1, <2>3, <3>2 DEF Ending
  <2> QED
    BY <2>2, <2>3
<1>6. CASE UNCHANGED vars
  BY <1>6 DEF vars, execVars, childVars, Ending
<1> QED
  BY <1>1, <1>2, <1>3, <1>4, <1>5, <1>6 DEF Next, Quiet

\* Every state satisfies Ending.
LEMMA AlwaysEnding == Spec => [](IInv /\ Ending)
<1>1. Init => Ending
  BY DEF Init, Ending
<1> QED
  BY <1>1, InitIInv, Inductive, EndingInductive, PTL DEF Spec

\* StepsLeft is a number.
LEMMA StepsLeftType == RunType => StepsLeft \in Nat
  BY ProcessRunnerAssumption
  DEF RunType, StepsLeft, ExecuteRank, ChildRank, Due, FrameGone

\* The ranks of execute() and of the child.
LEMMA RankTypes ==
  ASSUME RunType
  PROVE  ExecuteRank \in Nat /\ ChildRank \in Nat /\ \A s : Due(s) \in {0, 1}
  BY DEF RunType, ExecuteRank, ChildRank, Due, FrameGone

\* The same after a step.
LEMMA RankTypesNext ==
  ASSUME RunType'
  PROVE  ExecuteRank' \in Nat /\ ChildRank' \in Nat /\ \A s : Due(s)' \in {0, 1}
  BY DEF RunType, ExecuteRank, ChildRank, Due, FrameGone

\* The rank of execute() depends on where it is only.
LEMMA RunRanks == ASSUME UNCHANGED <<exec, asked>> PROVE ExecuteRank' = ExecuteRank
  BY Zenon DEF ExecuteRank, FrameGone

\* No step leaves more to do, and execute() and the child leave less.
LEMMA StepsLeftShrink ==
  ASSUME RunType, RunType', Next
  PROVE  StepsLeft' <= StepsLeft /\ (Execute \/ Child => StepsLeft' < StepsLeft)
<1>s. MaxSignals \in Nat /\ signals \in 0 .. MaxSignals /\ signals' \in 0 .. MaxSignals
  BY ProcessRunnerAssumption DEF RunType
<1> DEFINE D == Due("INT") + Due("TERM") + Due("KILL")
<1>d. D \in 0 .. 3 /\ D' \in 0 .. 3
  BY RankTypes, RankTypesNext
<1>k. /\ StepsLeft  = ExecuteRank + ChildRank + D + 2 * (MaxSignals - signals)
      /\ StepsLeft' = ExecuteRank' + ChildRank' + D' + 2 * (MaxSignals - signals')
  BY RankTypes, RankTypesNext, <1>s DEF StepsLeft
<1>1. CASE Quiet
  <2>1. ExecuteRank' = ExecuteRank /\ ChildRank' = ChildRank /\ D' = D /\ signals' = signals
    <3>1. UNCHANGED <<exec, asked, signals, child, pending>>
      BY <1>1, QuietStep DEF runVars
    <3>2. ExecuteRank' = ExecuteRank
      BY <3>1, RunRanks
    <3> QED
      BY <3>1, <3>2 DEF ChildRank, Due
  <2>2. ~Execute /\ ~Child
    BY <1>1, QuietStep DEF runVars, Execute, Communicated, Waited, Executed, GraceExpires,
       GroupCancelled, GraceEnds, Child, ChildStarts, ChildSignalled, RunType
  <2> QED
    BY <2>1, <2>2, <1>k, <1>s, <1>d, RankTypes
<1>2. CASE Execute \/ WaitFails
  <2>1. ExecuteRank' < ExecuteRank
    BY <1>2 DEF RunType, Execute, Communicated, Waited, Executed, GraceExpires, GroupCancelled,
       GraceEnds, WaitFails, ExecuteRank, FrameGone
  <2>2. ChildRank' = ChildRank /\ D' = D /\ signals' = signals
    BY <1>2 DEF Execute, Communicated, Waited, Executed, GraceExpires, GraceEnds, WaitFails,
       ChildRank, Due, childVars
  <2> QED
    BY <2>1, <2>2, <1>k, <1>s, <1>d, RankTypes, RankTypesNext
<1>3. CASE Child \/ ChildTimesOut
  <2>1. ExecuteRank' = ExecuteRank /\ signals' = signals
    <3>1. UNCHANGED <<exec, asked, signals>>
      BY <1>3 DEF Child, ChildStarts, ChildSignalled, ChildTimesOut, execVars
    <3> QED
      BY <3>1, RunRanks
  <2>2. pending' \subseteq pending
    BY <1>3 DEF Child, ChildStarts, ChildSignalled, ChildTimesOut
  <2>3. \A s : Due(s)' <= Due(s)
    BY <2>2 DEF Due
  <2>4. ChildRank' <= ChildRank
    BY <1>3 DEF RunType, Child, ChildStarts, ChildSignalled, ChildTimesOut, ChildRank
  <2>5. ChildRank' < ChildRank \/ \E s \in {"INT", "TERM", "KILL"} : Due(s)' < Due(s)
    <3>1. CASE ChildStarts \/ ChildTimesOut
      BY <3>1 DEF ChildStarts, ChildTimesOut, ChildRank
    <3>2. ASSUME NEW s \in {"INT", "TERM", "KILL"}, ChildSignalled(s) PROVE Due(s)' < Due(s)
      BY <3>2 DEF ChildSignalled, Due
    <3> QED
      BY <1>3, <3>1, <3>2 DEF Child
  <2>6. D' <= D /\ (ChildRank' < ChildRank \/ D' < D)
    BY <2>3, <2>5, RankTypes, RankTypesNext
  <2> QED
    BY <2>1, <2>4, <2>6, <1>k, <1>s, <1>d, RankTypes, RankTypesNext
<1>4. ASSUME Interrupted \/ \E s \in UserSignal : HandleSignal(s) PROVE StepsLeft' < StepsLeft
  <2>1. signals' = signals + 1 /\ UNCHANGED <<exec, child>>
    BY <1>4 DEF Interrupted, HandleSignal
  <2>2. ChildRank' = ChildRank /\ ExecuteRank' <= ExecuteRank
    BY <1>4, <2>1 DEF Interrupted, HandleSignal, GroupCancelled, ChildRank, ExecuteRank, FrameGone,
       RunType
  <2>3. PICK t \in {"INT", "TERM", "KILL"} : pending' \subseteq pending \cup {t}
    BY <1>4 DEF Interrupted, HandleSignal, UserSignal, TypeOf, Sends
  <2>4. \A s : s # t => Due(s)' <= Due(s)
    BY <2>3 DEF Due
  <2>5. D' <= D + 1
    BY <2>3, <2>4, RankTypes, RankTypesNext
  <2> QED
    BY <2>1, <2>2, <2>5, <1>k, <1>s, <1>d, RankTypes, RankTypesNext
<1> QED
  BY <1>1, <1>2, <1>3, <1>4, <1>k, <1>s, <1>d, RankTypes, RankTypesNext DEF Next, Quiet

\* Once the process of the advanced program has ended, execute() can always go on
\* until it returns, whatever signals have come in which order and whoever has the
\* pipes; once SIGTERM has been handled, execute() or the child can
\* (ping_signal_advanced.cpp:64, 80).
THEOREM ExecuteNeverBlocked ==
  Spec => []( /\ kind = "advanced" /\ child = "dead" => FrameGone \/ ExecuteReady
              /\ termed => FrameGone \/ ExecuteReady \/ ChildReady )
<1>1. IInv /\ Ending =>
        /\ kind = "advanced" /\ child = "dead" => FrameGone \/ ExecuteReady
        /\ termed => FrameGone \/ ExecuteReady \/ ChildReady
  BY DEF IInv, TypeOK, Stages, Ending, FrameGone, ExecuteReady, ChildReady
<1> QED
  BY <1>1, AlwaysEnding, PTL

\* execute() and the child take finitely many steps: no step of anybody raises
\* StepsLeft, and each of theirs lowers it.  With ExecuteNeverBlocked this is
\* ExitEndsExecute and TermEndsExecute, up to what fairness means.
THEOREM ExecuteTerminating ==
  Spec => /\ [](StepsLeft \in Nat)
          /\ [][StepsLeft' <= StepsLeft /\ (Execute \/ Child => StepsLeft' < StepsLeft)]_vars
<1>1. IInv => RunType
  BY DEF IInv, TypeOK, RunType
<1>2. IInv /\ IInv' /\ [Next]_vars =>
        [StepsLeft' <= StepsLeft /\ (Execute \/ Child => StepsLeft' < StepsLeft)]_vars
  <2> SUFFICES ASSUME IInv, IInv', Next
               PROVE  StepsLeft' <= StepsLeft /\ (Execute \/ Child => StepsLeft' < StepsLeft)
    OBVIOUS
  <2>1. RunType /\ RunType'
    BY <1>1 DEF IInv, TypeOK, RunType
  <2> QED
    BY <2>1, StepsLeftShrink
<1> QED
  BY <1>1, <1>2, StepsLeftType, Invariant, PTL DEF Spec

-----------------------------------------------------------------------------
(***************************************************************************)
(* Pipeline, for any size of the data, the buffers and the pipes.          *)
(***************************************************************************)
\* Every byte that the writer has transferred is in one place.
Flow ==
  /\ total["write"] + n["write"] <= Size
  /\ total["write"] + n["write"] = inPipe["write"] + n["cat"] + total["cat"]
  /\ total["cat"] + put = inPipe["cat"] + n["sink"] + total["sink"]

\* A contiguous block is written in one go, and a writer that has ended has
\* counted everything.
Writing ==
  /\ pc["write"] # "read" /\ (pc["write"] # "write" => n["write"] = 0)
  /\ style = "block" /\ pc["write"] = "write" =>
       total["write"] = 0 /\ (op["write"] = "ok" => n["write"] = Size)

\* cat() writes what it has read, all of it if its write succeeds.
Copying ==
  /\ put <= n["cat"] /\ n["cat"] <= ChunkSize
  /\ pc["cat"] = "write" /\ op["cat"] = "ok" => put = n["cat"]
  /\ pc["cat"] \in {"read", "done"} => put = 0

\* A reader sees the end of the stream after the last byte.
Reading ==
  /\ pc["sink"] # "write"
  /\ \A s \in {"cat", "sink"} :
       /\ pc[s] = "read" /\ op[s] # "ok" => n[s] = 0
       /\ pc[s] = "done" => op[s] = "eof" /\ n[s] = 0
       /\ op[s] = "eof" => inPipe[Before(s)] = 0 /\ ~Open(Before(s))

PipelineIInv == PipelineTypeOK /\ Flow /\ Writing /\ Copying /\ Reading

\* The invariant contains the property.
LEMMA PipelineExact == PipelineIInv => ReportIsExact
  BY PipelineAssumption DEF PipelineIInv, PipelineTypeOK, Flow, Writing, Copying, Reading, ReportIsExact, Stage, Before

USE PipelineAssumption DEF Stage, OpStatus, OpResult

\* The initial state satisfies the inductive invariant.
LEMMA PipelineInitIInv == PipelineInit => PipelineIInv
  BY DEF PipelineInit, PipelineIInv, PipelineTypeOK, Flow, Writing, Copying, Reading, Before, Open

\* A coroutine goes on.
LEMMA GoesEffect ==
  ASSUME PipelineTypeOK, NEW s \in Stage, NEW p \in {"read", "write", "done", "threw"}, Goes(s, p)
  PROVE  /\ pc' \in [Stage -> {"read", "write", "done", "threw"}] /\ op' \in [Stage -> OpStatus]
         /\ pc'[s] = p /\ op'[s] = IF p \in {"read", "write"} THEN "pending" ELSE op[s]
         /\ \A t \in Stage \ {s} : pc'[t] = pc[t] /\ op'[t] = op[t]
  BY DEF Goes, PipelineTypeOK

\* A write of the writer returns: its bytes are counted.
LEMMA WriteReturnsStep == PipelineIInv /\ WriteReturns => PipelineIInv'
<1> SUFFICES ASSUME PipelineIInv, WriteReturns PROVE PipelineIInv'
  OBVIOUS
<1>1. PICK p \in {"write", "done", "threw"} :
        Goes("write", p) /\ (p = "write" => op["write"] = "ok" /\ total'["write"] # Size)
  BY DEF WriteReturns
<1>2. total["write"] + n["write"] \in 0 .. Size
  BY DEF PipelineIInv, PipelineTypeOK, Flow
<1>3. PipelineTypeOK'
  BY <1>1, <1>2, GoesEffect DEF WriteReturns, PipelineIInv, PipelineTypeOK
<1>4. Flow'
  BY <1>2 DEF WriteReturns, PipelineIInv, PipelineTypeOK, Flow
<1>5. Writing'
  BY <1>1, <1>2, GoesEffect DEF WriteReturns, PipelineIInv, PipelineTypeOK, Writing
<1>6. Copying' /\ Reading'
  BY <1>1, GoesEffect DEF WriteReturns, PipelineIInv, PipelineTypeOK, Copying, Reading, Before, Open
<1> QED
  BY <1>3, <1>4, <1>5, <1>6 DEF PipelineIInv

\* A cancellation counts nothing.
LEMMA CancelsStep ==
  ASSUME PipelineIInv, NEW s \in Stage, Open(s), Cancels(s) \/ Forgets(s)
  PROVE  PipelineIInv'
<1>1. PipelineTypeOK'
  <2>1. cancelled' \in [Stage -> BOOLEAN]
    BY Zenon DEF Cancels, Forgets, PipelineIInv, PipelineTypeOK
  <2> QED
    BY <2>1 DEF Cancels, Forgets, PipelineIInv, PipelineTypeOK
<1>2. Flow' /\ Writing' /\ Copying' /\ Reading'
  <2>1. CASE Cancels(s)
    BY <2>1 DEF Cancels, PipelineIInv, PipelineTypeOK, Flow, Writing, Copying, Reading, Before, Open
  <2>2. CASE Forgets(s)
    BY <2>2 DEF Forgets, PipelineIInv, Flow, Writing, Copying, Reading, Before, Open
  <2> QED
    BY <2>1, <2>2
<1> QED
  BY <1>1, <1>2 DEF PipelineIInv

\* cat() writes what it has read.
LEMMA CatReadsStep == PipelineIInv /\ CatReads => PipelineIInv'
<1> SUFFICES ASSUME PipelineIInv, CatReads PROVE PipelineIInv'
  OBVIOUS
<1>1. PICK p \in {"write", "threw"} : Goes("cat", p)
  BY DEF CatReads
<1>2. PipelineTypeOK' /\ Flow'
  BY <1>1, GoesEffect DEF CatReads, PipelineIInv, PipelineTypeOK, Flow
<1>3. Writing' /\ Copying' /\ Reading'
  BY <1>1, GoesEffect DEF CatReads, PipelineIInv, PipelineTypeOK, Writing, Copying, Reading, Before, Open
<1> QED
  BY <1>2, <1>3 DEF PipelineIInv

\* cat() has written everything and reads on.
LEMMA CatWritesStep == PipelineIInv /\ CatWrites => PipelineIInv'
<1> SUFFICES ASSUME PipelineIInv, CatWrites PROVE PipelineIInv'
  OBVIOUS
<1>1. PICK p \in {"read", "threw"} : Goes("cat", p)
  BY DEF CatWrites
<1>2. total["cat"] + n["cat"] \in 0 .. Size
  BY DEF PipelineIInv, PipelineTypeOK, Flow
<1>3. PipelineTypeOK'
  BY <1>1, <1>2, GoesEffect DEF CatWrites, PipelineIInv, PipelineTypeOK
<1>4. Flow'
  BY DEF CatWrites, PipelineIInv, PipelineTypeOK, Flow, Copying
<1>5. Writing' /\ Copying'
  BY <1>1, GoesEffect DEF CatWrites, PipelineIInv, PipelineTypeOK, Writing, Copying
<1>6. Reading'
  BY <1>1, GoesEffect DEF CatWrites, PipelineIInv, PipelineTypeOK, Reading, Before, Open
<1> QED
  BY <1>3, <1>4, <1>5, <1>6 DEF PipelineIInv

\* count() or read_all() takes what has been read.
LEMMA SinkReadsStep == PipelineIInv /\ SinkReads => PipelineIInv'
<1> SUFFICES ASSUME PipelineIInv, SinkReads PROVE PipelineIInv'
  OBVIOUS
<1>1. PICK p \in {"read", "threw"} : Goes("sink", p)
  BY DEF SinkReads
<1>2. total["sink"] + n["sink"] \in 0 .. Size
  BY DEF PipelineIInv, PipelineTypeOK, Flow, Copying
<1>3. PipelineTypeOK'
  BY <1>1, <1>2, GoesEffect DEF SinkReads, PipelineIInv, PipelineTypeOK
<1>4. Flow'
  BY DEF SinkReads, PipelineIInv, PipelineTypeOK, Flow
<1>5. Writing' /\ Copying'
  BY <1>1, GoesEffect DEF SinkReads, PipelineIInv, PipelineTypeOK, Writing, Copying
<1>6. Reading'
  BY <1>1, GoesEffect DEF SinkReads, PipelineIInv, PipelineTypeOK, Reading, Before, Open
<1> QED
  BY <1>3, <1>4, <1>5, <1>6 DEF PipelineIInv

\* A reader ends at the end of the stream or throws.
LEMMA EndsStep ==
  ASSUME PipelineIInv, NEW s \in {"cat", "sink"}, Ends(s) \/ Throws(s)
  PROVE  PipelineIInv'
<1>1. PICK p \in {"done", "threw"} : Goes(s, p) /\ (p = "done" => pc[s] = "read" /\ op[s] = "eof")
  BY DEF Ends, Throws
<1>2. UNCHANGED <<style, n, put, total, cancelled, inPipe>>
  BY DEF Ends, Throws
<1>3. PipelineTypeOK' /\ Flow'
  BY <1>1, <1>2, GoesEffect DEF PipelineIInv, PipelineTypeOK, Flow
<1>4. Writing' /\ Copying'
  BY <1>1, <1>2, GoesEffect DEF PipelineIInv, PipelineTypeOK, Writing, Copying, Reading
<1>5. Reading'
  BY <1>1, <1>2, GoesEffect DEF PipelineIInv, PipelineTypeOK, Reading, Before, Open
<1> QED
  BY <1>3, <1>4, <1>5 DEF PipelineIInv

\* The smaller one of two numbers.
LEMMA MinOfTwo ==
  ASSUME NEW a \in Int, NEW b \in Int
  PROVE  /\ Min({a, b}) \in Int /\ Min({a, b}) <= a /\ Min({a, b}) <= b
         /\ a > 0 /\ b > 0 => Min({a, b}) > 0
  BY DEF Min

\* The writer never writes more than there is left.
LEMMA ChunkBound ==
  ASSUME PipelineIInv, pc["write"] = "write"
  PROVE  /\ WriteChunk \in Int /\ total["write"] + WriteChunk <= Size
         /\ style = "block" => WriteChunk = Size
<1>1. ChunkSize \in Int /\ Size - total["write"] \in Int
  BY DEF PipelineIInv, PipelineTypeOK
<1>2. /\ Min({ChunkSize, Size - total["write"]}) \in Int
      /\ Min({ChunkSize, Size - total["write"]}) <= Size - total["write"]
  BY <1>1, MinOfTwo
<1> QED
  BY <1>2 DEF PipelineIInv, PipelineTypeOK, Writing, WriteChunk

\* Bytes go into a pipe.
LEMMA WriteSomeStep ==
  ASSUME PipelineIInv, NEW s \in {"write", "cat"}, NEW k \in Nat \ {0}, WriteSome(s, k)
  PROVE  PipelineIInv'
<1>1. inPipe' \in [{"write", "cat"} -> 0 .. Capacity] /\ UNCHANGED <<style, pc, total, cancelled>>
  BY DEF WriteSome, PipelineIInv, PipelineTypeOK
<1>2. CASE s = "write"
  <2>1. /\ pc["write"] = "write" /\ op["write"] = "pending" /\ Open("cat")
        /\ inPipe' = [inPipe EXCEPT !["write"] = @ + k]
        /\ n["write"] + k <= WriteChunk /\ n' = [n EXCEPT !["write"] = @ + k] /\ UNCHANGED put
        /\ op' = [op EXCEPT !["write"] = IF n'["write"] = WriteChunk THEN "ok" ELSE "pending"]
    BY <1>2 DEF WriteSome, After
  <2>2. total["write"] + (n["write"] + k) <= Size /\ n["write"] + k \in 0 .. Size
    BY <2>1, ChunkBound DEF PipelineIInv, PipelineTypeOK
  <2>3. PipelineTypeOK'
    BY <1>1, <2>1, <2>2 DEF PipelineIInv, PipelineTypeOK
  <2>4. Flow'
    <3>1. /\ n'["write"] = n["write"] + k /\ n'["cat"] = n["cat"] /\ n'["sink"] = n["sink"]
          /\ inPipe'["write"] = inPipe["write"] + k /\ inPipe'["cat"] = inPipe["cat"]
          /\ put' = put /\ total' = total
      BY <1>1, <2>1 DEF PipelineIInv, PipelineTypeOK
    <3>2. /\ total["write"] \in Int /\ n["write"] \in Int /\ inPipe["write"] \in Int
          /\ n["cat"] \in Int /\ total["cat"] \in Int
      BY DEF PipelineIInv, PipelineTypeOK
    <3> QED
      BY <2>2, <3>1, <3>2 DEF PipelineIInv, Flow
  <2>5. Writing'
    BY <1>1, <2>1, ChunkBound DEF PipelineIInv, PipelineTypeOK, Writing
  <2>6. Copying' /\ Reading'
    BY <1>1, <2>1 DEF PipelineIInv, PipelineTypeOK, Copying, Reading, Before, Open
  <2> QED
    BY <2>3, <2>4, <2>5, <2>6 DEF PipelineIInv
<1>3. CASE s = "cat"
  <2>1. /\ pc["cat"] = "write" /\ op["cat"] = "pending" /\ Open("sink")
        /\ inPipe' = [inPipe EXCEPT !["cat"] = @ + k]
        /\ put + k <= n["cat"] /\ put' = put + k /\ UNCHANGED n
        /\ op' = [op EXCEPT !["cat"] = IF put' = n["cat"] THEN "ok" ELSE "pending"]
    BY <1>3 DEF WriteSome, After
  <2>2. put + k \in 0 .. ChunkSize
    BY <2>1 DEF PipelineIInv, PipelineTypeOK, Copying
  <2>3. PipelineTypeOK'
    BY <1>1, <2>1, <2>2 DEF PipelineIInv, PipelineTypeOK
  <2>4. Flow'
    BY <1>1, <2>1 DEF PipelineIInv, PipelineTypeOK, Flow
  <2>5. Writing' /\ Copying'
    BY <1>1, <2>1 DEF PipelineIInv, PipelineTypeOK, Writing, Copying
  <2>6. Reading'
    BY <1>1, <2>1 DEF PipelineIInv, PipelineTypeOK, Reading, Before, Open
  <2> QED
    BY <2>3, <2>4, <2>5, <2>6 DEF PipelineIInv
<1> QED
  BY <1>2, <1>3

\* Bytes come out of a pipe.
LEMMA ReadSomeStep ==
  ASSUME PipelineIInv, NEW s \in {"cat", "sink"}, NEW k \in Nat \ {0}, ReadSome(s, k)
  PROVE  PipelineIInv'
<1>1. k <= ChunkSize /\ k <= inPipe[Before(s)]
  <2>1. ChunkSize \in Int /\ inPipe[Before(s)] \in Int
    BY DEF PipelineIInv, PipelineTypeOK, Before
  <2>2. k \in 1 .. Min({ChunkSize, inPipe[Before(s)]})
    BY DEF ReadSome
  <2>3. /\ Min({ChunkSize, inPipe[Before(s)]}) \in Int
        /\ Min({ChunkSize, inPipe[Before(s)]}) <= ChunkSize
        /\ Min({ChunkSize, inPipe[Before(s)]}) <= inPipe[Before(s)]
    BY <2>1, MinOfTwo
  <2> QED
    BY <2>1, <2>2, <2>3
<1>2. /\ pc[s] = "read" /\ op[s] = "pending" /\ n[s] = 0
      /\ n' = [n EXCEPT ![s] = k] /\ inPipe' = [inPipe EXCEPT ![Before(s)] = @ - k]
      /\ op' = [op EXCEPT ![s] = "ok"] /\ UNCHANGED <<style, pc, put, total, cancelled>>
  BY DEF ReadSome, PipelineIInv, Reading
<1>3. k \in 0 .. Size /\ inPipe[Before(s)] - k \in 0 .. Capacity
  BY <1>1 DEF PipelineIInv, PipelineTypeOK, Flow, Copying, Before
<1>4. PipelineTypeOK'
  BY <1>2, <1>3 DEF PipelineIInv, PipelineTypeOK, Before
<1>5. Flow'
  BY <1>1, <1>2 DEF PipelineIInv, PipelineTypeOK, Flow, Before
<1>6. Writing' /\ Copying'
  BY <1>1, <1>2 DEF PipelineIInv, PipelineTypeOK, Writing, Copying
<1>7. Reading'
  BY <1>1, <1>2 DEF PipelineIInv, PipelineTypeOK, Reading, Before, Open
<1> QED
  BY <1>4, <1>5, <1>6, <1>7 DEF PipelineIInv

\* The other end of a pipe has been closed.
LEMMA ClosedStep ==
  ASSUME PipelineIInv, \/ \E s \in {"write", "cat"} : WriteBreaks(s)
               \/ \E s \in {"cat", "sink"} : ReadAtEnd(s)
  PROVE  PipelineIInv'
<1>1. CASE \E s \in {"write", "cat"} : WriteBreaks(s)
  BY <1>1 DEF WriteBreaks, PipelineIInv, PipelineTypeOK, Flow, Writing, Copying, Reading, Before, Open
<1>2. CASE \E s \in {"cat", "sink"} : ReadAtEnd(s)
  <2>1. PICK s \in {"cat", "sink"} :
          /\ pc[s] = "read" /\ inPipe[Before(s)] = 0 /\ ~Open(Before(s)) /\ n[s] = 0
          /\ op' = [op EXCEPT ![s] = "eof"] /\ UNCHANGED <<style, pc, n, put, total, cancelled, inPipe>>
    BY <1>2 DEF ReadAtEnd, PipelineIInv, Reading
  <2>2. PipelineTypeOK' /\ Flow' /\ Writing' /\ Copying'
    BY <2>1 DEF PipelineIInv, PipelineTypeOK, Flow, Writing, Copying
  <2>3. Reading'
    BY <2>1 DEF PipelineIInv, PipelineTypeOK, Reading, Before, Open
  <2> QED
    BY <2>2, <2>3 DEF PipelineIInv
<1> QED
  BY <1>1, <1>2

\* Every step keeps the invariant.
LEMMA PipelineInductive == PipelineIInv /\ [PipelineNext]_pipelineVars => PipelineIInv'
<1> SUFFICES ASSUME PipelineIInv, [PipelineNext]_pipelineVars PROVE PipelineIInv'
  OBVIOUS
<1>1. CASE Writer
  BY <1>1, WriteReturnsStep, CancelsStep, ClosedStep, WriteSomeStep DEF Writer, TimeoutFires
<1>2. CASE Cat
  BY <1>2, CatReadsStep, CatWritesStep, EndsStep, ClosedStep, WriteSomeStep, ReadSomeStep DEF Cat
<1>3. CASE Sink
  BY <1>3, SinkReadsStep, EndsStep, ClosedStep, ReadSomeStep DEF Sink
<1>4. ASSUME NEW s \in Stage, NEW t \in CancelType, Cancelling(s, t) PROVE PipelineIInv'
  BY <1>4, CancelsStep DEF Cancelling
<1>5. CASE UNCHANGED pipelineVars
  BY <1>5 DEF pipelineVars, PipelineIInv, PipelineTypeOK, Flow, Writing, Copying, Reading, Before, Open
<1> QED
  BY <1>1, <1>2, <1>3, <1>4, <1>5 DEF PipelineNext, Canceller

\* The inductive invariant of a pipeline of coroutines.
THEOREM PipelineInvariant == PipelineSpec => []PipelineIInv
  BY PipelineInitIInv, PipelineInductive, PTL DEF PipelineSpec

\* What write_and_close() reports is what comes out at the end, whoever is
\* cancelled when and for any size of the data, the buffers and the pipes.
THEOREM ExactReport == PipelineSpec => []ReportIsExact
  BY PipelineInvariant, PipelineExact, PTL

-----------------------------------------------------------------------------
(***************************************************************************)
(* The pipeline ends: it never blocks, and every step leaves less to do.   *)
(***************************************************************************)
\* A write that is under way has something to write, and one that has succeeded
\* has written something.
WriterMoves ==
  /\ pc["write"] = "write" /\ op["write"] = "pending" => n["write"] < WriteChunk
  /\ pc["write"] = "write" /\ op["write"] = "ok" => n["write"] > 0

\* The same for what cat() and count() read and cat() writes.
ReadersMove ==
  /\ pc["cat"] = "write" =>
       n["cat"] > 0 /\ op["cat"] # "eof" /\ (op["cat"] = "pending" => put < n["cat"])
  /\ \A s \in {"cat", "sink"} : pc[s] = "read" /\ op[s] = "ok" => n[s] > 0

\* A coroutine can go on: its operation has completed or can complete, or its
\* timeout can fire.
StageReady(s) ==
  /\ Open(s)
  /\ \/ op[s] # "pending"
     \/ pc[s] = "write" /\ (~Open(After(s)) \/ inPipe[s] < Capacity)
     \/ pc[s] = "read" /\ (~Open(Before(s)) \/ inPipe[Before(s)] > 0)
     \/ s = "write" /\ style = "timed" /\ ~cancelled[s]

PipelineOver == \A s \in Stage : ~Open(s)

\* What is left to do: the ways that bytes have still to go, for each coroutine where
\* it is and what it waits for, and whether the timeout is still to come.
One(b) == IF b THEN 1 ELSE 0

BytesLeft ==
  (Size - (total["write"] + n["write"])) + 2 * (Size - total["write"])
  + (Size - (total["cat"] + n["cat"])) + (Size - (total["cat"] + put)) + 4 * (Size - total["cat"])
  + (Size - (total["sink"] + n["sink"])) + 2 * (Size - total["sink"])

StageRank(s) == (IF pc[s] = "read" THEN 3 ELSE One(pc[s] = "write"))
                + One(op[s] = "pending") + One(s = "write" /\ style = "timed" /\ ~cancelled[s])

PipelineRemaining == BytesLeft + StageRank("write") + StageRank("cat") + StageRank("sink")

\* A writer that is not interrupted has a byte to write.
LEMMA WriterMovesInductive ==
  PipelineIInv /\ WriterMoves /\ [PipelineNext]_pipelineVars => WriterMoves'
<1> SUFFICES ASSUME PipelineIInv, WriterMoves, [PipelineNext]_pipelineVars PROVE WriterMoves'
  OBVIOUS
<1>t. PipelineTypeOK
  BY DEF PipelineIInv
<1>c. style' = style /\ total'["write"] = total["write"] => WriteChunk' = WriteChunk
  BY DEF WriteChunk
<1>1. CASE WriteReturns
  <2>1. PICK p \in {"write", "done", "threw"} :
          Goes("write", p) /\ (p = "write" => total'["write"] # Size)
    BY <1>1 DEF WriteReturns
  <2>2. total'["write"] \in 0 .. Size /\ n'["write"] = 0
    BY <1>1, <1>t DEF WriteReturns, PipelineTypeOK, PipelineIInv, Flow
  <2>3. pc'["write"] = p /\ (p = "write" => op'["write"] = "pending")
    BY <2>1, <1>t, GoesEffect
  <2>4. total'["write"] < Size => WriteChunk' > 0
    <3> SUFFICES ASSUME total'["write"] < Size PROVE WriteChunk' > 0
      OBVIOUS
    <3>1. /\ ChunkSize \in Int /\ ChunkSize > 0
          /\ Size - total'["write"] \in Int /\ Size - total'["write"] > 0
      BY <2>2
    <3>2. Min({ChunkSize, Size - total'["write"]}) > 0
      BY <3>1, MinOfTwo
    <3> QED
      BY <3>2 DEF WriteChunk
  <2> QED
    BY <2>1, <2>2, <2>3, <2>4 DEF WriterMoves
<1>2. ASSUME NEW s \in Stage, Cancels(s) \/ Forgets(s) PROVE WriterMoves'
  BY <1>2, <1>c, <1>t DEF Cancels, Forgets, WriterMoves, PipelineTypeOK
<1>3. ASSUME NEW k \in Nat \ {0}, WriteSome("write", k) PROVE WriterMoves'
  <2>1. WriteChunk' = WriteChunk
    BY <1>3, <1>c DEF WriteSome
  <2>2. WriteChunk \in Int
    BY <1>3, ChunkBound DEF WriteSome
  <2> QED
    BY <1>3, <1>t, <2>1, <2>2 DEF WriteSome, WriterMoves, PipelineTypeOK
<1>4. CASE WriteBreaks("write")
  BY <1>4, <1>t DEF WriteBreaks, WriterMoves, PipelineTypeOK
<1>5. CASE Cat \/ Sink \/ UNCHANGED pipelineVars
  <2>1. /\ style' = style /\ total'["write"] = total["write"] /\ n'["write"] = n["write"]
        /\ pc'["write"] = pc["write"] /\ op'["write"] = op["write"]
    BY <1>5, <1>t DEF Cat, Sink, CatReads, CatWrites, SinkReads, Ends, Throws, WriteBreaks,
       ReadAtEnd, WriteSome, ReadSome, Goes, PipelineTypeOK, pipelineVars
  <2> QED
    BY <2>1, <1>c DEF WriterMoves
<1> QED
  BY <1>1, <1>2, <1>3, <1>4, <1>5 DEF PipelineNext, Writer, TimeoutFires, Canceller, Cancelling

\* A read that succeeds has read something.
LEMMA ReadersMoveInductive ==
  PipelineIInv /\ ReadersMove /\ [PipelineNext]_pipelineVars => ReadersMove'
<1> SUFFICES ASSUME PipelineIInv, ReadersMove, [PipelineNext]_pipelineVars PROVE ReadersMove'
  OBVIOUS
<1>t. PipelineTypeOK
  BY DEF PipelineIInv
<1> USE DEF ReadersMove
<1>1. CASE WriteReturns \/ WriteBreaks("write") \/ \E k \in 1 .. Size : WriteSome("write", k)
  BY <1>1, <1>t DEF WriteReturns, WriteBreaks, WriteSome, Goes, PipelineTypeOK
<1>2. ASSUME NEW s \in Stage, Cancels(s) \/ Forgets(s) PROVE ReadersMove'
  BY <1>2, <1>t DEF Cancels, Forgets, PipelineTypeOK
<1>3. CASE CatReads
  <2>1. put = 0
    BY <1>3 DEF CatReads, PipelineIInv, Copying
  <2> QED
    BY <1>3, <1>t, <2>1 DEF CatReads, Goes, PipelineTypeOK
<1>4. CASE CatWrites \/ SinkReads
  BY <1>4, <1>t DEF CatWrites, SinkReads, Goes, PipelineTypeOK
<1>5. ASSUME NEW s \in {"cat", "sink"}, Ends(s) \/ Throws(s) PROVE ReadersMove'
  BY <1>5, <1>t DEF Ends, Throws, Goes, PipelineTypeOK
<1>6. CASE WriteBreaks("cat") \/ ReadAtEnd("cat") \/ ReadAtEnd("sink")
  BY <1>6, <1>t DEF WriteBreaks, ReadAtEnd, PipelineTypeOK
<1>7. ASSUME NEW k \in Nat \ {0}, WriteSome("cat", k) PROVE ReadersMove'
  BY <1>7, <1>t DEF WriteSome, PipelineTypeOK
<1>8. ASSUME NEW s \in {"cat", "sink"}, NEW k \in Nat \ {0}, ReadSome(s, k) PROVE ReadersMove'
  <2>1. n'[s] = k /\ \A r \in Stage \ {s} : n'[r] = n[r] /\ op'[r] = op[r]
    BY <1>8, <1>t DEF ReadSome, PipelineTypeOK
  <2> QED
    BY <1>8, <2>1 DEF ReadSome
<1>9. CASE UNCHANGED pipelineVars
  BY <1>9 DEF pipelineVars
<1> QED
  BY <1>1, <1>2, <1>3, <1>4, <1>5, <1>6, <1>7, <1>8, <1>9
  DEF PipelineNext, Writer, Cat, Sink, TimeoutFires, Canceller, Cancelling

\* The invariants of termination.
LEMMA AlwaysMoving == PipelineSpec => [](PipelineIInv /\ WriterMoves /\ ReadersMove)
<1>1. PipelineInit => ReadersMove
  BY DEF PipelineInit, ReadersMove
<1>2. PipelineInit => WriterMoves
  <2> SUFFICES ASSUME PipelineInit PROVE WriterMoves
    OBVIOUS
  <2>1. total["write"] = 0 /\ n["write"] = 0 /\ op["write"] = "pending"
    BY DEF PipelineInit
  <2>2. ChunkSize \in Int /\ ChunkSize > 0 /\ Size - 0 \in Int /\ Size - 0 > 0
    OBVIOUS
  <2>3. Min({ChunkSize, Size - 0}) > 0
    BY <2>2, MinOfTwo
  <2>4. WriteChunk > 0
    BY <2>1, <2>3 DEF WriteChunk
  <2> QED
    BY <2>1, <2>4 DEF WriterMoves
<1> QED
  BY <1>1, <1>2, PipelineInitIInv, PipelineInductive, WriterMovesInductive, ReadersMoveInductive, PTL
  DEF PipelineSpec

\* A full pipe has a reader and an empty one a writer, or its other end is closed.
LEMMA SomebodyReady == PipelineIInv => PipelineOver \/ \E s \in Stage : StageReady(s)
<1> SUFFICES ASSUME PipelineIInv, \A s \in Stage : ~StageReady(s) PROVE PipelineOver
  OBVIOUS
<1>t. PipelineTypeOK /\ Capacity > 0
  BY DEF PipelineIInv
<1>1. ~Open("sink") \/ (pc["sink"] = "read" /\ inPipe["cat"] = 0 /\ Open("cat"))
  BY <1>t DEF StageReady, Before, Open, PipelineIInv, Reading, PipelineTypeOK
<1>2. ~Open("cat") \/ (pc["cat"] = "read" /\ inPipe["write"] = 0 /\ Open("write"))
  BY <1>1, <1>t DEF StageReady, Before, After, Open, PipelineTypeOK
<1>3. ~Open("write")
  BY <1>2, <1>t DEF StageReady, After, Open, PipelineIInv, Writing, PipelineTypeOK
<1> QED
  BY <1>1, <1>2, <1>3 DEF PipelineOver

\* What is left to do is a number.
LEMMA PipelineRemainingType ==
  PipelineIInv => BytesLeft \in Nat /\ \A s \in Stage : StageRank(s) \in Nat
<1> SUFFICES ASSUME PipelineIInv PROVE BytesLeft \in Nat /\ \A s \in Stage : StageRank(s) \in Nat
  OBVIOUS
<1>1. BytesLeft \in Nat
  BY DEF BytesLeft, PipelineIInv, PipelineTypeOK, Flow, Copying
<1> QED
  BY <1>1 DEF StageRank, One

\* The same after a step.
LEMMA PipelineRemainingTypeNext ==
  PipelineIInv' => (BytesLeft \in Nat /\ \A s \in Stage : StageRank(s) \in Nat)'
  BY PipelineRemainingType, PTL

\* Every step of a coroutine leaves less to do: one that starts another operation has
\* got bytes one way further.
LEMMA PipelineDecreases ==
  PipelineIInv /\ WriterMoves /\ ReadersMove /\ (Writer \/ Cat \/ Sink)
    => PipelineRemaining' < PipelineRemaining
<1> SUFFICES ASSUME PipelineIInv, WriterMoves, ReadersMove, Writer \/ Cat \/ Sink
             PROVE  PipelineRemaining' < PipelineRemaining
  OBVIOUS
<1>t. PipelineTypeOK
  BY DEF PipelineIInv
<1>n. /\ BytesLeft \in Nat /\ BytesLeft' \in Nat
      /\ \A s \in Stage : StageRank(s) \in Nat /\ StageRank(s)' \in Nat
  <2>1. PipelineIInv'
    BY PipelineInductive DEF PipelineNext
  <2> QED
    BY <2>1, PipelineRemainingType, PipelineRemainingTypeNext
<1>s. ASSUME NEW s \in Stage, NEW d \in Nat,
             StageRank(s)' <= StageRank(s) + d, BytesLeft' + d < BytesLeft
             \/ (BytesLeft' = BytesLeft /\ d = 0 /\ StageRank(s)' < StageRank(s)),
             \A t \in Stage \ {s} : StageRank(t)' = StageRank(t)
      PROVE  PipelineRemaining' < PipelineRemaining
  <2>1. \A a, b, x, y, z, o, p \in Nat :
          a <= b + z /\ (x + z < y \/ (x = y /\ z = 0 /\ a < b)) => x + a + o + p < y + b + o + p
    OBVIOUS
  <2>2. \A a, b, x, y, z, o, p \in Nat :
          a <= b + z /\ (x + z < y \/ (x = y /\ z = 0 /\ a < b)) => x + o + a + p < y + o + b + p
    OBVIOUS
  <2>3. \A a, b, x, y, z, o, p \in Nat :
          a <= b + z /\ (x + z < y \/ (x = y /\ z = 0 /\ a < b)) => x + o + p + a < y + o + p + b
    OBVIOUS
  <2>4. /\ \A t \in Stage : StageRank(t)' \in Nat /\ StageRank(t) \in Nat
        /\ BytesLeft \in Nat /\ BytesLeft' \in Nat
    BY <1>n
  <2>5. CASE s = "write"
    BY <1>s, <2>1, <2>4, <2>5 DEF PipelineRemaining
  <2>6. CASE s = "cat"
    BY <1>s, <2>2, <2>4, <2>6 DEF PipelineRemaining
  <2>7. CASE s = "sink"
    BY <1>s, <2>3, <2>4, <2>7 DEF PipelineRemaining
  <2> QED
    BY <2>5, <2>6, <2>7
<1> USE DEF One
<1>1. CASE WriteReturns
  <2>0. PICK p \in {"write", "done", "threw"} : Goes("write", p) /\ (p = "write" => op["write"] = "ok")
    BY <1>1 DEF WriteReturns
  <2>1. /\ \A t \in Stage \ {"write"} : StageRank(t)' = StageRank(t)
        /\ p = "write" => StageRank("write")' <= StageRank("write") + 1
        /\ p # "write" => StageRank("write")' < StageRank("write")
    BY <1>1, <1>t, <2>0, GoesEffect DEF WriteReturns, StageRank
  <2>2. BytesLeft' = BytesLeft - 2 * n["write"]
    BY <1>1, <1>t DEF WriteReturns, BytesLeft, PipelineTypeOK
  <2>3. n["write"] \in Nat /\ (p = "write" => n["write"] > 0)
    BY <1>1, <1>t, <2>0 DEF WriteReturns, WriterMoves, PipelineTypeOK
  <2> QED
    BY <2>1, <2>2, <2>3, <1>n, <1>s
<1>2. CASE TimeoutFires
  <2>1. BytesLeft' = BytesLeft
    BY <1>2 DEF TimeoutFires, Cancels, BytesLeft
  <2>2. /\ \A t \in Stage \ {"write"} : StageRank(t)' = StageRank(t)
        /\ StageRank("write")' < StageRank("write")
    BY <1>2, <1>t DEF TimeoutFires, Cancels, StageRank, PipelineTypeOK
  <2> QED
    BY <2>1, <2>2, <1>n, <1>s
<1>3. ASSUME NEW s \in {"write", "cat"}, NEW k \in Nat \ {0}, WriteSome(s, k)
      PROVE  PipelineRemaining' < PipelineRemaining
  <2>1. BytesLeft' = BytesLeft - k
    BY <1>3, <1>t DEF WriteSome, BytesLeft, PipelineTypeOK
  <2>2. /\ \A t \in Stage \ {s} : StageRank(t)' = StageRank(t)
        /\ StageRank(s)' <= StageRank(s)
    BY <1>3, <1>t DEF WriteSome, StageRank, PipelineTypeOK
  <2> QED
    BY <2>1, <2>2, <1>n, <1>s
<1>4. ASSUME NEW s \in {"cat", "sink"}, NEW k \in Nat \ {0}, ReadSome(s, k)
      PROVE  PipelineRemaining' < PipelineRemaining
  <2>1. n[s] = 0
    BY <1>4 DEF ReadSome, PipelineIInv, Reading
  <2>2. BytesLeft' = BytesLeft - k
    BY <1>4, <1>t, <2>1 DEF ReadSome, BytesLeft, PipelineTypeOK
  <2>3. /\ \A t \in Stage \ {s} : StageRank(t)' = StageRank(t)
        /\ StageRank(s)' <= StageRank(s)
    BY <1>4, <1>t DEF ReadSome, StageRank, PipelineTypeOK
  <2> QED
    BY <2>2, <2>3, <1>n, <1>s
<1>5. CASE CatReads
  <2>0. PICK p \in {"write", "threw"} : Goes("cat", p)
    BY <1>5 DEF CatReads
  <2>1. BytesLeft' = BytesLeft
    BY <1>5 DEF CatReads, BytesLeft
  <2>2. /\ \A t \in Stage \ {"cat"} : StageRank(t)' = StageRank(t)
        /\ StageRank("cat")' < StageRank("cat")
    BY <1>5, <1>t, <2>0, GoesEffect DEF CatReads, StageRank
  <2> QED
    BY <2>1, <2>2, <1>n, <1>s
<1>6. CASE CatWrites
  <2>0. PICK p \in {"read", "threw"} : Goes("cat", p)
    BY <1>6 DEF CatWrites
  <2>1. n["cat"] > 0 /\ n["cat"] \in Nat /\ put = n["cat"]
    BY <1>6, <1>t DEF CatWrites, ReadersMove, PipelineIInv, Copying, PipelineTypeOK
  <2>2. BytesLeft' = BytesLeft - 4 * n["cat"]
    BY <1>6, <1>t, <2>1 DEF CatWrites, BytesLeft, PipelineTypeOK
  <2>3. /\ \A t \in Stage \ {"cat"} : StageRank(t)' = StageRank(t)
        /\ StageRank("cat")' <= StageRank("cat") + 3
    BY <1>6, <1>t, <2>0, GoesEffect DEF CatWrites, StageRank
  <2> QED
    BY <2>1, <2>2, <2>3, <1>n, <1>s
<1>7. CASE SinkReads
  <2>0. PICK p \in {"read", "threw"} : Goes("sink", p)
    BY <1>7 DEF SinkReads
  <2>1. n["sink"] > 0 /\ n["sink"] \in Nat
    BY <1>7, <1>t DEF SinkReads, ReadersMove, PipelineTypeOK
  <2>2. BytesLeft' = BytesLeft - 2 * n["sink"]
    BY <1>7, <1>t DEF SinkReads, BytesLeft, PipelineTypeOK
  <2>3. /\ \A t \in Stage \ {"sink"} : StageRank(t)' = StageRank(t)
        /\ StageRank("sink")' <= StageRank("sink") + 1
    BY <1>7, <1>t, <2>0, GoesEffect DEF SinkReads, StageRank
  <2> QED
    BY <2>1, <2>2, <2>3, <1>n, <1>s
<1>8. ASSUME NEW s \in Stage, Ends(s) \/ Throws(s) \/ WriteBreaks(s) \/ ReadAtEnd(s)
      PROVE  PipelineRemaining' < PipelineRemaining
  <2>1. BytesLeft' = BytesLeft
    BY <1>8 DEF Ends, Throws, WriteBreaks, ReadAtEnd, BytesLeft
  <2>2. /\ \A t \in Stage \ {s} : StageRank(t)' = StageRank(t)
        /\ StageRank(s)' < StageRank(s)
    BY <1>8, <1>t DEF Ends, Throws, WriteBreaks, ReadAtEnd, Open, Goes, StageRank, PipelineTypeOK
  <2> QED
    BY <2>1, <2>2, <1>n, <1>s
<1> QED
  BY <1>1, <1>2, <1>3, <1>4, <1>5, <1>6, <1>7, <1>8 DEF Writer, Cat, Sink

\* A cancellation never adds to it, not even one that is forgotten.
LEMMA CancellerAddsNothing ==
  PipelineIInv /\ Canceller => PipelineRemaining' <= PipelineRemaining
<1> SUFFICES ASSUME PipelineIInv, NEW s \in Stage, Cancels(s) \/ Forgets(s)
             PROVE  PipelineRemaining' <= PipelineRemaining
  BY DEF Canceller, Cancelling
<1>t. PipelineTypeOK
  BY DEF PipelineIInv
<1>1. BytesLeft' = BytesLeft
  BY DEF Cancels, Forgets, BytesLeft
<1>2. /\ \A t \in Stage \ {s} : StageRank(t)' = StageRank(t)
      /\ StageRank(s)' <= StageRank(s)
  BY <1>t DEF Cancels, Forgets, StageRank, PipelineTypeOK, One
<1>3. \A t \in Stage : StageRank(t) \in Nat /\ StageRank(t)' \in Nat
  BY DEF StageRank, One
<1>4. \A x, a, b, c, i, j, k \in Nat :
        a <= i /\ b <= j /\ c <= k => x + a + b + c <= x + i + j + k
  OBVIOUS
<1>5. BytesLeft \in Nat
  BY PipelineRemainingType
<1>6. \A t \in Stage : StageRank(t)' <= StageRank(t)
  BY <1>2, <1>3
<1> QED
  BY <1>1, <1>3, <1>4, <1>5, <1>6 DEF PipelineRemaining

\* The pipeline never blocks, however small the pipes: until all coroutines have
\* ended, one to which fairness promises a step can go on (stream_utils.hpp:138).
THEOREM PipelineNeverBlocked == PipelineSpec => [](PipelineOver \/ \E s \in Stage : StageReady(s))
  BY AlwaysMoving, SomebodyReady, PTL

\* Every step of a coroutine leaves less to do, and no cancellation more, however many
\* there are.  With PipelineNeverBlocked this is PipelineEnds, up to what fairness means.
THEOREM PipelineTerminating ==
  PipelineSpec => /\ [](PipelineRemaining \in Nat)
                  /\ [][\/ PipelineRemaining' < PipelineRemaining
                        \/ Canceller /\ PipelineRemaining' <= PipelineRemaining]_pipelineVars
<1>1. PipelineIInv => PipelineRemaining \in Nat
  BY PipelineRemainingType DEF PipelineRemaining
<1>2. PipelineIInv /\ WriterMoves /\ ReadersMove /\ [PipelineNext]_pipelineVars
        => [\/ PipelineRemaining' < PipelineRemaining
            \/ Canceller /\ PipelineRemaining' <= PipelineRemaining]_pipelineVars
  BY PipelineDecreases, CancellerAddsNothing DEF PipelineNext
<1> QED
  BY <1>1, <1>2, AlwaysMoving, PTL DEF PipelineSpec
=============================================================================
